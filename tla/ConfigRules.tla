------------------------------ MODULE ConfigRules ------------------------------
(***************************************************************************)
(* thermal_core_validate_config (core/thermal_core.c): which configurations *)
(* the core starts with.  A configuration is a record of tables             *)
(*    sensors, contexts, actuators, zones, modifiers                        *)
(* and of faults, telemetry and the three top-level numbers.  A table is    *)
(* [slot, count]: the C array and the number of its entries in use.  A slot *)
(* is a function from field names to values that holds the fields the       *)
(* loader has written; the others are zero, as memset left them.            *)
(* The THERMAL_ERR_* a rule answers with are one outcome here: refused.     *)
(***************************************************************************)
EXTENDS Governor

Q16One        == 65536
MaxStates     == 5                    \* THERMAL_MAX_COOLING_STATES
RunawayWindow == 64                   \* THERMAL_FAULT_RUNAWAY_WINDOW_MAX
NoContext     == 65535                \* 0xFFFF: no correlated context

Rows(table) == SubSeq(table.slot, 1, table.count)

Field(row, key) == IF key \in DOMAIN row THEN row[key] ELSE 0
List(row, key)  == IF key \in DOMAIN row THEN row[key] ELSE << >>

Has(rows, key, value) == \E i \in 1 .. Len(rows) : rows[i][key] = value

\* find_sensor_slot and its siblings: the first slot with that id.
SlotOf(rows, key, value) == Min({i \in 1 .. Len(rows) : rows[i][key] = value})

\* A bug the code could have: ids are taken as they come.
IdsAsTheyCome(rows) == TRUE

IdsUnique(rows) ==
  \A i, j \in 1 .. Len(rows) : rows[i].id = rows[j].id => i = j

\* The points <<x, y>> of a baseline or a linearization: x rising, y never
\* falling.
Climbs(points) ==
  \A i \in 1 .. Len(points) - 1 :
    points[i][1] < points[i + 1][1] /\ points[i][2] <= points[i + 1][2]

SensorsLegal(rows) ==
  /\ \A i \in 1 .. Len(rows) :
       rows[i].max_staleness_ms # 0 /\ rows[i].iir_alpha_q16 \in 0 .. Q16One
  /\ IdsUnique(rows)

LinearizationLegal(points) ==
  points # << >> =>
    Len(points) >= 2 /\ Climbs(points) /\ points[1] = <<0, 0>> /\ points[Len(points)] = <<255, 255>>

ActuatorsLegal(rows) ==
  /\ \A i \in 1 .. Len(rows) : LET a == rows[i] IN
       /\ a.pwm_min <= a.pwm_max
       /\ Field(a, "spinup_ms") > 0 =>
            Field(a, "spinup_pwm") # 0 /\ Field(a, "spinup_pwm") \in a.pwm_min .. a.pwm_max
       /\ LinearizationLegal(List(a, "duty_linearization"))
  /\ IdsUnique(rows)

\* The fail_safe values of version 1: "assume_value" parses and is refused.
FailSafes == {"assume_stationary", "hold_last"}

ContextsLegal(rows) ==
  /\ \A i \in 1 .. Len(rows) :
       /\ rows[i].timeout_ms # 0
       /\ rows[i].fail_safe \in FailSafes
       /\ rows[i].iir_alpha_q16 \in 0 .. Q16One
  /\ IdsUnique(rows)

-----------------------------------------------------------------------------
\* governor_validate_pid: gains and setpoint inside their bounds, the control
\* period inside the PID's, a CRITICAL or SHUTDOWN trip as the floor.
PidBounds == {<<"kp_q16", "kp_min_q16", "kp_max_q16">>, <<"ki_q16", "ki_min_q16", "ki_max_q16">>,
              <<"kd_q16", "kd_min_q16", "kd_max_q16">>,
              <<"setpoint_mc", "setpoint_min_mc", "setpoint_max_mc">>}

PidLegal(pid, period, trips) ==
  /\ \A b \in PidBounds : Field(pid, b[1]) \in Field(pid, b[2]) .. Field(pid, b[3])
  /\ Field(pid, "d_filter_alpha_q16") \in 0 .. Q16One
  /\ Field(pid, "dt_min_ms") # 0
  /\ period \in Field(pid, "dt_min_ms") .. Field(pid, "dt_max_ms")
  /\ SafetyTrips(trips, 1 .. Len(trips)) # {}

WeightSum(weights) == FoldSet(LAMBDA i, total : weights[i] + total, 0, 1 .. Len(weights))

\* validate_zone
ZoneLegal(cfg, z) ==
  /\ z.sensors # << >> /\ z.actuators # << >>
  /\ \A i \in 1 .. Len(z.sensors)   : Has(Rows(cfg.sensors), "id", z.sensors[i])
  /\ \A i \in 1 .. Len(z.actuators) : Has(Rows(cfg.actuators), "id", z.actuators[i])
  /\ z.aggregation = "weighted" => WeightSum(z.sensor_weights_q16) > 0
  /\ TripsOrdered(z.trips)
  /\ FallbackReachesFloor(z.fallback_temp_mc, z.trips)
  /\ z.governor = "pid" => PidLegal(List(z, "pid"), cfg.period, z.trips)

ZonesLegal(cfg) == \A i \in 1 .. cfg.zones.count : ZoneLegal(cfg, cfg.zones.slot[i])

\* modifier_curve_values_valid: caps an actuator can take, and offsets that
\* leave every zone's trips and setpoint legal.
CurveValuesLegal(cfg, m) ==
  \A p \in 1 .. Len(m.curve) :
    /\ m.curve[p].value0 \in 0 .. 255
    /\ "post_governor_pwm_cap" \in m.stages =>
         \A i \in 1 .. cfg.actuators.count :
           m.curve[p].value0 = 0 \/ m.curve[p].value0 >= cfg.actuators.slot[i].pwm_min
    /\ "pre_governor_trip_offset" \in m.stages =>
         \A i \in 1 .. cfg.zones.count : LET z == cfg.zones.slot[i] IN
           /\ AdjustedTripsValid(z.trips, m.curve[p].value1)
           /\ z.governor = "pid" =>
                Field(List(z, "pid"), "setpoint_mc") + m.curve[p].value1
                  \in Field(List(z, "pid"), "setpoint_min_mc") .. Field(List(z, "pid"), "setpoint_max_mc")

\* validate_modifiers
ModifierLegal(cfg, m) ==
  /\ m.name = "acoustic_mask"
  /\ Has(Rows(cfg.contexts), "id", m.context)
  /\ Len(m.curve) >= 2
  /\ \A p \in 1 .. Len(m.curve) - 1 : m.curve[p].x < m.curve[p + 1].x
  /\ CurveValuesLegal(cfg, m)
  /\ m.fail_safe \in FailSafes
  /\ m.fail_safe = cfg.contexts.slot[SlotOf(Rows(cfg.contexts), "id", m.context)].fail_safe
  /\ m.stages # {}

ModifiersLegal(cfg) ==
  cfg.modifiers.count <= 1 /\ \A i \in 1 .. cfg.modifiers.count : ModifierLegal(cfg, cfg.modifiers.slot[i])

\* validate_fault_defaults, and the runaway window: of detectors that are
\* enabled only.  An absent severity or action is zero: no severity is, and
\* the action zero is "none".
DetectorLegal(cfg, kind, d) ==
  Field(d, "enabled") = 1 =>
    /\ "severity" \in DOMAIN d
    /\ kind = "runaway" => Field(d, "persist_ticks") <= RunawayWindow
    /\ kind = "stuck_sensor" /\ d.correlated_context # NoContext =>
         /\ Has(Rows(cfg.contexts), "id", d.correlated_context)
         /\ Field(d, "correlated_delta_threshold") > 0

FaultsLegal(cfg) ==
  \A kind \in DOMAIN cfg.faults : DetectorLegal(cfg, kind, cfg.faults[kind])

\* validate_state_pwm_references: what the zones' trips can ask of an
\* actuator, and the ladder up to the highest of it.
StatePwm(a, s) == IF s < Len(a.state_pwm) THEN a.state_pwm[s + 1] ELSE 0

StatesAsked(cfg, i) ==
  {s \in 0 .. MaxStates - 1 : \E k \in 1 .. cfg.zones.count : LET z == cfg.zones.slot[k] IN
     /\ \E n \in 1 .. Len(z.actuators) : SlotOf(Rows(cfg.actuators), "id", z.actuators[n]) = i
     /\ \E t \in 1 .. Len(z.trips) : z.trips[t].state = s}

StatePwmLegal(cfg) ==
  \A i \in 1 .. cfg.actuators.count :
    LET a     == cfg.actuators.slot[i]
        asked == StatesAsked(cfg, i)
    IN  /\ \A s \in asked : StatePwm(a, s) = 0 \/ StatePwm(a, s) \in a.pwm_min .. a.pwm_max
        /\ asked # {} => \A s \in 1 .. Max(asked) : StatePwm(a, s - 1) <= StatePwm(a, s)

\* The counts of the tables signals are numbered in (signal_id_is_supported).
SignalTable ==
  [zone_temp |-> "zones", zone_cooling_state |-> "zones", zone_aggregation_valid |-> "zones",
   pid_terms |-> "zones", runaway |-> "zones", actuator_pwm |-> "actuators",
   actuator_rpm |-> "actuators", stall |-> "actuators", fan_health |-> "actuators",
   stuck_sensor |-> "sensors", context |-> "contexts", stale_context |-> "contexts",
   modifier_pwm_cap |-> "modifiers"]

Supported(cfg, signal) == signal.slot <= cfg[SignalTable[signal.family]].count

TelemetryLegal(cfg) ==
  /\ Field(cfg.telemetry, "enable") = 1 => Field(cfg.telemetry, "period_ticks") # 0
  /\ \A i \in 1 .. Len(cfg.signals) : Supported(cfg, cfg.signals[i])

\* validate_fan_health, for the actuators that have it enabled.
FanHealthLegal(cfg) ==
  \A i \in 1 .. cfg.actuators.count :
    LET a == cfg.actuators.slot[i]
        h == List(a, "fan_health")
    IN  Field(h, "enable") = 1 =>
          /\ Len(h.baseline) >= 2 /\ Climbs(h.baseline)
          /\ h.baseline[Len(h.baseline)][1] >= a.pwm_max
          /\ h.severity_pct.aging > h.severity_pct.degraded
          /\ h.severity_pct.degraded > h.severity_pct.failing
          /\ h.min_points_observed <= Len(h.baseline)

\* thermal_core_validate_config.
Legal(cfg) ==
  /\ cfg.version = 1
  /\ cfg.period # 0
  /\ cfg.relative \in {0, cfg.period}
  /\ SensorsLegal(Rows(cfg.sensors))
  /\ ActuatorsLegal(Rows(cfg.actuators))
  /\ ContextsLegal(Rows(cfg.contexts))
  /\ ZonesLegal(cfg)
  /\ ModifiersLegal(cfg)
  /\ FaultsLegal(cfg)
  /\ StatePwmLegal(cfg)
  /\ TelemetryLegal(cfg)
  /\ FanHealthLegal(cfg)
=============================================================================
