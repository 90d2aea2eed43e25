----------------------------- MODULE ZoneControl -----------------------------
(***************************************************************************)
(* The zones of the core and the commands that retune them while they run: *)
(* shadow_trips, shadow_pid.setpoint_mc and the modifier's shadow curve     *)
(* (core/thermal_core.c), written by CMD_SET_TRIP, CMD_SET_SETPOINT and     *)
(* CMD_SET_CURVE_POINT, read by steps 5 and 6 of thermal_core_step.  Each   *)
(* command is checked against the current values of the other two, so what  *)
(* one command was accepted on another one may later move.                  *)
(*                                                                         *)
(* The sensors of a zone are one aggregated sample per tick (or none); the  *)
(* PID's continuous output is not here, only its setpoint and its floor.    *)
(***************************************************************************)
EXTENDS Governor, Curve

CONSTANTS Zones,          \* the zones of the configuration
          ZoneCfg,        \* their thermal_zone_cfg_t
          CurveCfg,       \* the modifier's configured curve
          Stages,         \* the modifier's stages
          MinPwm,         \* the largest pwm_min of the actuators
          MaxPwm,         \* 255
          MaxState,       \* the largest cooling_state of a trip
          Temps,          \* temperatures a sample or a command may carry
          Hysts,          \* hystereses a command may carry
          Xs, Caps, Offsets, \* coordinates of curve points in commands
          NoSample,       \* a tick on which no sensor of the zone is valid
          Samples         \* the samples of a tick: what each zone reads

\* validate_zone, validate_modifiers and the PID bounds of
\* governor_validate_pid: the configurations thermal_core_init accepts.
CapValid(cap) == cap \in 0 .. MaxPwm /\ ("cap" \in Stages => cap = 0 \/ cap >= MinPwm)

IsPid(z) == ZoneCfg[z].governor = "PID"

\* A bug the code could have: the offset is checked, the setpoint it shifts
\* is not.
SetpointTakesNoOffset(z, setpoint, offset) ==
  setpoint \in ZoneCfg[z].setpointMin .. ZoneCfg[z].setpointMax

SetpointTakes(z, setpoint, offset) ==
  setpoint + offset \in ZoneCfg[z].setpointMin .. ZoneCfg[z].setpointMax

\* The checks a curve point's values pass against the zones' tables.
OffsetFits(offset, tables, points) ==
  "offset" \in Stages =>
    \A z \in Zones :
      /\ AdjustedTripsValid(tables[z], offset)
      /\ IsPid(z) => SetpointTakes(z, points[z], offset)

CurveFits(curve, tables, points) ==
  \A p \in 1 .. Len(curve) :
    CapValid(curve[p].cap) /\ OffsetFits(curve[p].offset, tables, points)

ConfigAccepted ==
  /\ \A z \in Zones :
       /\ TripsOrdered(ZoneCfg[z].trips)
       /\ FallbackReachesFloor(ZoneCfg[z].fallback, ZoneCfg[z].trips)
       /\ IsPid(z) =>
            /\ ZoneCfg[z].setpoint \in ZoneCfg[z].setpointMin .. ZoneCfg[z].setpointMax
            /\ SafetyTrips(ZoneCfg[z].trips, 1 .. Len(ZoneCfg[z].trips)) # {}
  /\ Len(CurveCfg) >= 2 /\ CurveOrdered(CurveCfg)
  /\ CurveFits(CurveCfg, [z \in Zones |-> ZoneCfg[z].trips],
                         [z \in Zones |-> ZoneCfg[z].setpoint])

Trips    == [temp : IntMin .. IntMax, hyst : Int, severity : Warn .. Shutdown,
             state : 0 .. MaxState]
ZoneCfgs == [governor : {"STEP_WISE", "PID"}, fallback : Int, trips : Seq(Trips),
             setpoint : Int, setpointMin : Int, setpointMax : Int]
Points   == [x : Int, cap : Int, offset : Int]

ASSUME TypeAssumption ==
  /\ MaxState \in Nat
  /\ ZoneCfg \in [Zones -> ZoneCfgs] /\ CurveCfg \in Seq(Points)
  /\ Temps \subseteq IntMin .. IntMax /\ Hysts \subseteq Int
  /\ Xs \subseteq Int /\ Caps \subseteq Int /\ Offsets \subseteq Int
  /\ Samples \subseteq [Zones -> Temps \cup {NoSample}]
ASSUME ConfigAssumption == ConfigAccepted

VARIABLES trips,          \* shadow_trips of every zone
          setpoint,       \* shadow_pid.setpoint_mc of every zone
          curve,          \* shadow_modifiers[0].curve
          mask,           \* active_trip_mask of every zone
          last            \* what the last step read, NoStep when a command
                          \* has changed the tables since: temp_mc and
                          \* aggregation_valid of every zone and the offset,
                          \* which every step writes before it reads them

tuning  == <<trips, setpoint, curve>>
vars    == <<tuning, mask, last>>

NoStep == [stepped |-> FALSE]

\* thermal_core_init: the shadows are copies of the configuration.
Init ==
  /\ trips     = [z \in Zones |-> ZoneCfg[z].trips]
  /\ setpoint  = [z \in Zones |-> ZoneCfg[z].setpoint]
  /\ curve     = CurveCfg
  /\ mask      = [z \in Zones |-> {}]
  /\ last      = NoStep

\* thermal_zone_aggregate's result for a zone that has one sensor's worth of
\* samples: the sample, or the fallback when there is none.
ZoneTemp(z, sample) == IF sample = NoSample THEN ZoneCfg[z].fallback ELSE sample

\* modifier_trip_offset[0] at the context value x, 0 without that stage.
OffsetAt(x) == IF "offset" \in Stages THEN CurveEval(curve, "offset", x) ELSE 0

\* Steps 5 and 6 of thermal_core_step, for every zone.
Step(x, sample) ==
  LET temp   == [z \in Zones |-> ZoneTemp(z, sample[z])]
      offset == OffsetAt(x)
  IN  /\ mask' = [z \in Zones |-> StepWise(Shift(trips[z], offset), temp[z], mask[z])]
      /\ last' = [stepped |-> TRUE, temp |-> temp, offset |-> offset,
                  valid |-> [z \in Zones |-> sample[z] # NoSample]]
      /\ UNCHANGED tuning

\* A bug the code could have: a PID zone has no floor.
CoolingStateNoFloor(z) == IF IsPid(z) THEN 0 ELSE HighestState(trips[z], mask[z])

\* cooling_state, by governor_eval_step or governor_eval_pid.
CoolingState(z) ==
  HighestState(trips[z], IF IsPid(z) THEN SafetyTrips(trips[z], mask[z]) ELSE mask[z])

\* effective_setpoint_mc, by governor_eval_pid.
EffectiveSetpoint(z) == setpoint[z] + last.offset

-----------------------------------------------------------------------------
\* runtime_trips_with_modifier_offsets_valid
OffsetsTake(table) ==
  "offset" \in Stages =>
    \A p \in 1 .. Len(curve) : AdjustedTripsValid(table, curve[p].offset)

\* A bug the code could have: only the trip below is compared.
SetTripAcceptedBelow(z, t, table) ==
  /\ table[t].hyst >= 0
  /\ t > 1 => NeighboursOrdered(table[t - 1], table[t])
  /\ FallbackReachesFloor(ZoneCfg[z].fallback, table)

\* The conditions of the CMD_SET_TRIP arm on the proposed table.
SetTripAccepted(z, t, table) ==
  /\ table[t].hyst >= 0
  /\ t > 1          => NeighboursOrdered(table[t - 1], table[t])
  /\ t < Len(table) => NeighboursOrdered(table[t], table[t + 1])
  /\ FallbackReachesFloor(ZoneCfg[z].fallback, table)
  /\ OffsetsTake(table)

\* What a command on one of the tables leaves behind; one that is refused
\* (THERMAL_CMD_ERR_BOUNDS, _INVALID_ARG) leaves everything as it is.
Answer(ok) ==
  /\ last' = IF ok THEN NoStep ELSE last
  /\ UNCHANGED mask

\* CMD_SET_TRIP: threshold and hysteresis of one trip.
SetTrip(z, t, newTemp, newHyst) ==
  LET table == [trips[z] EXCEPT ![t].temp = newTemp, ![t].hyst = newHyst]
      ok    == SetTripAccepted(z, t, table)
  IN  /\ trips' = IF ok THEN [trips EXCEPT ![z] = table] ELSE trips
      /\ Answer(ok)
      /\ UNCHANGED <<setpoint, curve>>

\* CMD_SET_SETPOINT, for PID zones only: inside the configured bounds, also
\* after every offset of the curve.
SetpointAccepted(z, new) ==
  /\ new \in ZoneCfg[z].setpointMin .. ZoneCfg[z].setpointMax
  /\ "offset" \in Stages =>
       \A p \in 1 .. Len(curve) : SetpointTakes(z, new, curve[p].offset)

SetSetpoint(z, new) ==
  LET ok == IsPid(z) /\ SetpointAccepted(z, new)
  IN  /\ setpoint' = IF ok THEN [setpoint EXCEPT ![z] = new] ELSE setpoint
      /\ Answer(ok)
      /\ UNCHANGED <<trips, curve>>

\* CMD_SET_CURVE_POINT: one point of the modifier's curve, with its x between
\* its neighbours' and the whole proposed curve checked against the shadows.
CurvePointAccepted(p, point) ==
  /\ p > 1          => curve[p - 1].x < point.x
  /\ p < Len(curve) => point.x < curve[p + 1].x
  /\ CurveFits([curve EXCEPT ![p] = point], trips, setpoint)

SetCurvePoint(p, point) ==
  LET ok == CurvePointAccepted(p, point)
  IN  /\ curve' = IF ok THEN [curve EXCEPT ![p] = point] ELSE curve
      /\ Answer(ok)
      /\ UNCHANGED <<trips, setpoint>>

CurvePoints == [x : Xs, cap : Caps, offset : Offsets]

Next ==
  \/ \E x \in Xs, sample \in Samples : Step(x, sample)
  \/ \E z \in Zones : \E t \in 1 .. Len(trips[z]), newTemp \in Temps, newHyst \in Hysts :
       SetTrip(z, t, newTemp, newHyst)
  \/ \E z \in Zones, new \in Temps : SetSetpoint(z, new)
  \/ \E p \in 1 .. Len(curve), point \in CurvePoints : SetCurvePoint(p, point)

Spec == Init /\ [][Next]_vars

-----------------------------------------------------------------------------
Steps == [stepped : {TRUE}, temp : [Zones -> Int], offset : Int, valid : [Zones -> BOOLEAN]]

\* Every variable keeps its type; a command never changes a length.
TypeOK ==
  /\ trips \in [Zones -> Seq(Trips)]
  /\ setpoint \in [Zones -> Int]
  /\ curve \in Seq(Points) /\ Len(curve) >= 2
  /\ mask \in [Zones -> SUBSET Nat]
  /\ last = NoStep \/ last \in Steps

\* Whatever order the commands came in, the shadows are together a
\* configuration thermal_core_validate_config would accept: tables ordered
\* at every point of the curve, the fallback at the safety floor, setpoints
\* in bounds at every point, the curve increasing and its caps legal.
ShadowsAccepted ==
  /\ \A z \in Zones : TripsOrdered(trips[z])
  /\ \A z \in Zones : FallbackReachesFloor(ZoneCfg[z].fallback, trips[z])
  /\ CurveOrdered(curve)
  /\ CurveFits(curve, trips, setpoint)

\* The active trips of a zone are a prefix of its table: a hotter trip is
\* never active while a cooler one is not, across hysteresis, commands and
\* changes of the offset.  zone_max_severity and cooling_state rest on it.
ActiveTripsNested ==
  \A z \in Zones : \A i \in 1 .. Len(trips[z]) - 1 :
    i + 1 \in mask[z] => i \in mask[z]

\* What a step actually used, between the points of the curve: the shifted
\* thresholds are int32_t values in rising order and a PID zone's effective
\* setpoint is inside its configured bounds.
EffectiveTablesLegal ==
  last.stepped =>
    \A z \in Zones :
      /\ AdjustedTripsValid(trips[z], last.offset)
      /\ IsPid(z) => EffectiveSetpoint(z) \in ZoneCfg[z].setpointMin .. ZoneCfg[z].setpointMax

\* A zone at or above a CRITICAL or SHUTDOWN trip asks at least for that
\* trip's cooling state, whichever governor runs it.
SafetyFloorHeld ==
  last.stepped =>
    \A z \in Zones : \A t \in 1 .. Len(trips[z]) :
      /\ trips[z][t].severity >= Critical
      /\ last.temp[z] >= trips[z][t].temp + last.offset
      => CoolingState(z) >= trips[z][t].state

FallbackCools ==
  \A z \in Zones : \A t \in 1 .. Len(trips[z]) :
    ~last.valid[z] /\ trips[z][t].severity = Critical => t \in mask[z]

\* With no valid sample every CRITICAL trip of the zone is active, whatever
\* trip points the commands have set, while the modifier's offset does not
\* raise them.
UnraisedLossCools == last.stepped /\ last.offset <= 0 => FallbackCools

\* thermal-core-prd.md section 5.3: the fallback is chosen "so loss of all
\* valid sensors fails toward cooling rather than away from it".
SensorLossCools == last.stepped => FallbackCools
=============================================================================
