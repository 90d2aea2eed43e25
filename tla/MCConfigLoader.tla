---------------------------- MODULE MCConfigLoader ----------------------------
(* Documents of one sound configuration (two sensors, a fan with its tach,   *)
(* a context, a step-wise and a PID zone, the modifier, the detectors,       *)
(* telemetry) with its sections in every order, and of the same with one     *)
(* thing wrong or a section repeated.                                        *)
EXTENDS ConfigLoader

MCNames == {"cpu", "amp", "fan", "vehicle_speed", "acoustic_mask", "soc", "box"}
MCPaths == {"path"}
MCIntMin == -70000

Sensor(i, n) == [id |-> i, name |-> n, iir_alpha_q16 |-> 4, max_staleness_ms |-> 5]
Health == [enable |-> 1, baseline_source |-> "field", baseline |-> <<<<20, 300>>, <<90, 900>>>>,
           stable_pwm_ticks |-> 5, stable_pwm_tolerance |-> 1, stable_rpm_ticks |-> 5,
           stable_rpm_tolerance_pct |-> 5, min_points_observed |-> 1,
           severity_pct |-> [aging |-> -10, degraded |-> -20, failing |-> -30]]
Fan(i, n)    == [id |-> i, name |-> n, pwm_min |-> 20, pwm_max |-> 90,
                 state_pwm |-> <<0, 40, 90>>, spinup_ms |-> 5, spinup_pwm |-> 60,
                 duty_linearization |-> <<<<0, 0>>, <<255, 255>>>>,
                 tach |-> "path", fan_health |-> Health]
Speed == [id |-> 3, name |-> "vehicle_speed", unit |-> "kmh", iir_alpha_q16 |-> 4,
          timeout_ms |-> 9, fail_safe |-> "assume_stationary"]
Warm == [temp_mc |-> 60, hyst_mc |-> 2, severity |-> "warn", cooling_state |-> 1]
Hot  == [temp_mc |-> 80, hyst_mc |-> 2, severity |-> "critical", cooling_state |-> 2]
Box  == [name |-> "box", sensors |-> <<"amp">>, aggregation |-> "max", governor |-> "step_wise",
         fallback_temp_mc |-> 80, actuators |-> <<"fan">>, trips |-> <<Warm, Hot>>]
Soc  == [Box EXCEPT !.name = "soc", !.sensors = <<"cpu", "amp">>, !.aggregation = "weighted",
                    !.governor = "pid"]
        @@ [sensor_weights_q16 |-> <<1, 2>>,
            pid |-> [kp_q16 |-> 1, kp_max_q16 |-> 2, setpoint_mc |-> 50, setpoint_min_mc |-> 40,
                     setpoint_max_mc |-> 60, dt_min_ms |-> 50, dt_max_ms |-> 200]]
Mask == [name |-> "acoustic_mask", context |-> "vehicle_speed",
         stages |-> <<"pre_governor_trip_offset", "post_governor_pwm_cap">>,
         curve |-> <<[x |-> 0, value0 |-> 30, value1 |-> 0], [x |-> 9, value0 |-> 90, value1 |-> -5]>>,
         fail_safe |-> "assume_stationary"]
Faults == [stall |-> [enabled |-> 1, severity |-> "degraded", action |-> "none", stall_rpm |-> 9],
           stuck_sensor |-> [enabled |-> 1, severity |-> "critical", delta_mc |-> 1,
                             correlated_context |-> "vehicle_speed",
                             correlated_delta_threshold |-> 2]]
Sel(f, n) == [family |-> f, name |-> n]
Telemetry == [enable |-> 1, period_ticks |-> 1,
              signals |-> <<Sel("zone_temp", "*"), Sel("fault", "*"), Sel("pid_terms", "soc"),
                            Sel("context", "vehicle_speed")>>]

Sound ==
  [sensors |-> <<Sensor(1, "cpu"), Sensor(2, "amp")>>, context_signals |-> <<Speed>>,
   actuators |-> <<Fan(1, "fan")>>, zones |-> <<Soc, Box>>, policy_modifiers |-> <<Mask>>,
   fault_detection |-> Faults, telemetry |-> Telemetry]

Without(f, k) == [x \in DOMAIN f \ {k} |-> f[x]]

\* One section instead of the sound one.
WrongSensors ==
  {Bad, << >>, <<Sensor(1, "cpu"), Sensor(1, "amp")>>, <<Sensor(1, "cpu"), Sensor(2, "cpu")>>,
   <<Sensor(2, "amp"), Sensor(1, "cpu")>>,
   <<[Sensor(1, "cpu") EXCEPT !.id = Bad], Sensor(2, "amp")>>,
   <<[Sensor(1, "cpu") EXCEPT !.iir_alpha_q16 = Q16One + 1], Sensor(2, "amp")>>,
   <<Without(Sensor(1, "cpu"), "max_staleness_ms"), Sensor(2, "amp")>>,
   [i \in 1 .. 9 |-> Sensor(i, "cpu")]}
WrongContexts ==
  {<< >>, <<Speed, [Speed EXCEPT !.id = 4]>>, <<Speed, Speed>>,
   <<[Speed EXCEPT !.fail_safe = "hold_last"]>>, <<[Speed EXCEPT !.fail_safe = "assume_value"]>>}
WrongActuators ==
  {<< >>, <<Fan(1, "fan"), Fan(2, "amp")>>, <<Fan(1, "amp"), Fan(1, "fan")>>,
   <<Fan(1, "fan"), Fan(2, "fan")>>, <<Without(Fan(1, "fan"), "tach")>>,
   [i \in 1 .. 3 |-> Fan(i, "fan")]}
  \cup {<<[Fan(1, "fan") EXCEPT !.state_pwm = s]>> : s \in {<<0, 40>>, <<0, 10, 90>>, <<0, 60, 40>>}}
  \cup {<<[Fan(1, "fan") EXCEPT !.pwm_min = p]>> : p \in {0, 35, 95}}
  \cup {<<[Fan(1, "fan") EXCEPT !.spinup_pwm = 0]>>,
        <<[Fan(1, "fan") EXCEPT !.duty_linearization = <<<<0, 0>>, <<9, 9>>>>]>>}
  \cup {<<[Fan(1, "fan") EXCEPT !.fan_health = h]>> : h \in
          {[Health EXCEPT !.baseline = <<<<20, 900>>, <<90, 300>>>>], Without(Health, "baseline"),
           [Health EXCEPT !.enable = 0], [Health EXCEPT !.min_points_observed = 3],
           [Health EXCEPT !.severity_pct.degraded = -5]}}
WrongZones ==
  {<<Box, Soc>>, <<Soc>>, <<[Soc EXCEPT !.sensors = <<"cpu", "fan">>]>>,
   <<[Soc EXCEPT !.sensor_weights_q16 = <<1>>]>>, <<[Soc EXCEPT !.sensor_weights_q16 = <<1, -1>>]>>,
   <<Without(Soc, "sensor_weights_q16")>>, <<[Box EXCEPT !.fallback_temp_mc = 70]>>,
   <<[Box EXCEPT !.trips = <<Hot, Warm>>]>>, <<[Box EXCEPT !.trips[2].cooling_state = 3]>>,
   <<[Box EXCEPT !.actuators = << >>]>>, <<[Soc EXCEPT !.trips = <<Warm>>]>>,
   <<[Soc EXCEPT !.pid.dt_max_ms = 90]>>, <<[Soc EXCEPT !.pid.kp_q16 = 3]>>,
   <<Box @@ [colour |-> 1]>>}
WrongModifiers ==
  {<< >>, <<Mask, Mask>>, <<[Mask EXCEPT !.context = "cpu"]>>, <<[Mask EXCEPT !.stages = << >>]>>,
   <<[Mask EXCEPT !.curve[1].value0 = 10]>>, <<[Mask EXCEPT !.curve[2].value1 = 11]>>,
   <<[Mask EXCEPT !.curve[2].x = 0]>>, <<[Mask EXCEPT !.fail_safe = "hold_last"]>>}
WrongFaults ==
  {[Faults EXCEPT !.stuck_sensor.correlated_context = Null],
   [Faults EXCEPT !.stuck_sensor.correlated_context = "cpu"],
   [Faults EXCEPT !.stuck_sensor = Without(@, "correlated_delta_threshold")],
   [Faults EXCEPT !.stall = Without(@, "severity")],
   [Faults EXCEPT !.stall = @ @@ [delta_mc |-> 1]],
   [runaway |-> [enabled |-> 1, severity |-> "degraded", persist_ticks |-> RunawayWindow + 1]]}
WrongTelemetry ==
  {[Telemetry EXCEPT !.period_ticks = 0], [Telemetry EXCEPT !.signals = <<Sel("context", "*")>>],
   [Telemetry EXCEPT !.signals = [i \in 1 .. 4 |-> Sel("fan_health", "*")]],
   [Telemetry EXCEPT !.signals = <<Sel("zone_temp", "cpu")>>],
   [Telemetry EXCEPT !.signals = <<Sel("modifier_pwm_cap", "*")>>]}

Changed(key, values) == {[Sound EXCEPT ![key] = v] : v \in values}

Contents ==
  {Sound} \cup Changed("sensors", WrongSensors) \cup Changed("context_signals", WrongContexts)
    \cup Changed("actuators", WrongActuators) \cup Changed("zones", WrongZones)
    \cup Changed("policy_modifiers", WrongModifiers)
    \cup Changed("fault_detection", WrongFaults) \cup Changed("telemetry", WrongTelemetry)

\* Orders of the sections: all of those that depend on one another.
Moving == {"sensors", "context_signals", "actuators", "zones", "policy_modifiers", "telemetry"}
Orders == {o \in [1 .. 6 -> Moving] : \A i, j \in 1 .. 6 : o[i] = o[j] => i = j}

M(key, value) == [key |-> key, value |-> value]
Head1 == <<M("config_version", 1), M("control_period_ms", 100)>>

Ordered(content, order) ==
  Head1 \o <<M("fault_detection", content.fault_detection)>>
    \o [i \in 1 .. 6 |-> M(order[i], content[order[i]])]

PrdOrder == <<"sensors", "context_signals", "actuators", "zones", "policy_modifiers", "telemetry">>

\* The sound document with one more section, a second one or an unknown one.
Fast  == [Without(Fan(1, "fan"), "fan_health") EXCEPT !.state_pwm = <<0, 50, 80>>]
Short == [Fast EXCEPT !.state_pwm = <<0, 50>>]
Extra ==
  {M("actuators", <<Fast>>), M("actuators", <<Short>>), M("actuators", <<Fan(1, "amp")>>),
   M("actuators", <<Fan(2, "fan")>>), M("actuators", << >>), M("sensors", <<Sensor(2, "amp")>>),
   M("sensors", <<Sensor(2, "cpu"), Sensor(1, "amp")>>), M("zones", <<Box>>), M("zones", << >>),
   M("policy_modifiers", << >>), M("telemetry", Telemetry), M("fault_detection", << >>),
   M("fault_detection", [stuck_sensor |-> [enabled |-> 1]]),
   M("control", [listen |-> "path", enable |-> 1]), M("control", [enable |-> 2]),
   M("hil", [transport |-> "path"]), M("hil", [transport |-> Bad]),
   M("period_relative_to_ms", 100), M("period_relative_to_ms", 50), M("config_version", 2),
   M("control_period_ms", 0), M("control_period_ms", Bad), M("mcu_pinmap", << >>)}

Twice == {InsertAt(Ordered(Sound, PrdOrder), i, m) : i \in 1 .. 10, m \in Extra}

MCDocuments ==
  {Unreadable, << >>, <<M("config_version", 1)>>}
    \cup {Ordered(c, o) : c \in Contents, o \in Orders}
    \cup Twice
=============================================================================
