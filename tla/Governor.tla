------------------------------- MODULE Governor -------------------------------
(***************************************************************************)
(* The pure part of zone control: which trip tables the core accepts        *)
(* (validate_zone, adjusted_trips_valid, zone_fallback_reaches_safety_floor *)
(* in core/thermal_core.c) and what the step-wise governor makes of a       *)
(* temperature (core/thermal_governor.c).  A trip is                        *)
(*    [temp, hyst, severity, state]                                         *)
(* with temperatures in an abstract unit, severity 1 .. 3 for WARN,         *)
(* CRITICAL and SHUTDOWN, and state the cooling_state it asks for.  The     *)
(* active_trip_mask is the set of the active trips' indices.                *)
(***************************************************************************)
EXTENDS Integers, Sequences, FiniteSetsExt

CONSTANTS IntMin, IntMax          \* the range of an int32_t

ASSUME IntAssumption == IntMin \in Int /\ IntMax \in Int /\ IntMin <= 0 /\ 0 <= IntMax

Warn     == 1
Critical == 2
Shutdown == 3

\* What validate_zone demands of two neighbouring trips: rising, and the
\* upper one's dead band ends no lower than the lower one's threshold.
NeighboursOrdered(lower, upper) ==
  /\ lower.temp < upper.temp
  /\ upper.temp - upper.hyst >= lower.temp

TripsOrdered(trips) ==
  \A i \in 1 .. Len(trips) - 1 : NeighboursOrdered(trips[i], trips[i + 1])

\* The trip table shifted by the modifier's offset; severity, state and
\* hysteresis stay.
Shift(trips, offset) ==
  [i \in 1 .. Len(trips) |-> [trips[i] EXCEPT !.temp = @ + offset]]

\* adjusted_trips_valid
AdjustedTripsValid(trips, offset) ==
  /\ \A i \in 1 .. Len(trips) : trips[i].temp + offset \in IntMin .. IntMax
  /\ TripsOrdered(Shift(trips, offset))

\* A bug the code could have: the fallback need only reach the coolest trip.
FallbackReachesFirst(fallback, trips) == fallback >= trips[1].temp

\* zone_fallback_reaches_safety_floor: losing every sensor must reach the
\* highest CRITICAL trip, or the highest trip of a zone without one.
FallbackReachesFloor(fallback, trips) ==
  LET critical == {i \in 1 .. Len(trips) : trips[i].severity = Critical}
      floor    == IF critical # {} THEN critical ELSE 1 .. Len(trips)
  IN  \A i \in floor : fallback >= trips[i].temp

-----------------------------------------------------------------------------
\* One trip of the step-wise governor: at or above the threshold it is
\* active, below the dead band it is not, inside it holds.
TripActive(trip, temp, was) ==
  \/ temp >= trip.temp
  \/ temp >= trip.temp - trip.hyst /\ was

\* thermal_governor_step_wise: the new active_trip_mask.
StepWise(trips, temp, mask) ==
  {i \in 1 .. Len(trips) : TripActive(trips[i], temp, i \in mask)}

\* The highest cooling state the trips in `active` ask for, 0 if none.
HighestState(trips, active) ==
  IF active = {} THEN 0 ELSE Max({trips[i].state : i \in active})

\* The trips that floor a PID zone: WARN trips are only telemetry there.
SafetyTrips(trips, mask) == {i \in mask : trips[i].severity \in {Critical, Shutdown}}

\* zone_max_severity: 0 without an active trip.
MaxSeverity(trips, mask) ==
  IF mask = {} THEN 0 ELSE Max({trips[i].severity : i \in mask})
=============================================================================
