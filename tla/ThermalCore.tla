----------------------------- MODULE ThermalCore -----------------------------
(***************************************************************************)
(* thermal_core_step as a whole (core/thermal_core.c): zones that share     *)
(* actuators, the modifier's cap and offset, the four fault detectors with  *)
(* the actions they ask for, the shutdown latch and the actuator path, in   *)
(* the order of the code, and CMD_CLEAR_FAULT between two steps.            *)
(*                                                                         *)
(* Composed from Governor (trips), FaultFsm (detectors) and one             *)
(* ActuatorPath per actuator.  What the detectors look for is another       *)
(* module's subject: their conditions are inputs of a tick here, as are the *)
(* filtered sensor values, the modifier's result and a PID's output.  The   *)
(* tables do not change here (see ZoneControl).                             *)
(***************************************************************************)
EXTENDS Governor, FaultFsm

CONSTANTS Zones, Actuators, Sensors,
          ZoneSensors, ZoneActuators, \* the sensors and actuators of a zone
          ZoneCfg,        \* [governor, fallback, trips] of a zone
          ActCfg,         \* the actuators' configurations, as in ActuatorPath
          StatePwm,       \* state_pwm of an actuator: cooling state -> PWM
          FaultSets,      \* the faults sections considered: [Kinds -> what
                          \* FsmConfigs holds, with enabled added]
          StallPwm,       \* stall_pwm_threshold
          CoolingPwm,     \* cooling_pwm_threshold
          Temps, NoSample, \* filtered values of a sensor, or none valid
          Modifiers,      \* results of step 5: [cap, offset]
          PidOutputs,     \* outputs of a PID
          MaxPwm, MaxTicks, \* as in ActuatorPath
          MaxState        \* the highest cooling state

Kinds == {"STALL", "STUCK", "RUNAWAY", "STALE"}

\* What a detector of each kind watches.
Targets == [STALL |-> Actuators, STUCK |-> Sensors, RUNAWAY |-> Zones, STALE |-> {"context"}]

VARIABLES faults,         \* faults section of the configuration
          fault,          \* the detectors: kind -> target -> shared machine
          mask,           \* active_trip_mask of every zone
          source,         \* where its temp_mc comes from: "sensors" or "fallback"
                          \* (aggregation_valid), "none" before the first
          offset,         \* trip_offset_mc of the last tick
          severity,       \* prev_zone_max_severity of every zone
          latchedTicks, escalated, \* runaway_latched_active_ticks and
                          \* runaway_escalated_shutdown of every zone
          shutdown,       \* shutdown_request_latched
          announced,      \* the TEVENT_SHUTDOWN_REQUESTs of the last tick
          path,           \* step 10's state of every actuator
          reason          \* its reason code

detectors == <<faults, fault, latchedTicks, escalated>>
control   == <<mask, source, offset, severity>>
vars      == <<detectors, control, shutdown, announced, path, reason>>

\* Each actuator's step 10; request, override and lasted, which it does not
\* read, are not kept.
A(a) == INSTANCE ActuatorPath WITH
  Configs <- {ActCfg[a]}, cfg <- ActCfg[a],
  duty <- path[a].duty, onTicks <- path[a].on, offTicks <- path[a].off,
  spinup <- path[a].spinup, request <- 0, override <- FALSE, lasted <- 0

\* validate_zone and validate_state_pwm_references, with the bounds of
\* FaultFsm and ActuatorPath.
StatesOf(a) ==
  UNION {{ZoneCfg[z].trips[t].state : t \in 1 .. Len(ZoneCfg[z].trips)} :
         z \in {y \in Zones : a \in ZoneActuators[y]}}

ConfigAccepted ==
  /\ \A z \in Zones :
       /\ ZoneSensors[z] \in (SUBSET Sensors) \ {{}}
       /\ ZoneActuators[z] \in (SUBSET Actuators) \ {{}}
       /\ TripsOrdered(ZoneCfg[z].trips)
       /\ FallbackReachesFloor(ZoneCfg[z].fallback, ZoneCfg[z].trips)
       /\ \A m \in Modifiers : AdjustedTripsValid(ZoneCfg[z].trips, m.offset)
  /\ \A a \in Actuators :
       /\ A(a)!ConfigLegal(ActCfg[a])
       /\ \A s \in StatesOf(a) : StatePwm[a][s] \in {0} \cup (ActCfg[a].pwmMin .. ActCfg[a].pwmMax)
       /\ \A s \in 1 .. Max({0} \cup StatesOf(a)) : StatePwm[a][s - 1] <= StatePwm[a][s]

ASSUME ConfigAssumption == ConfigAccepted

\* The sorts of the configuration and of the inputs.
TripRecords == [temp : Int, hyst : Int, severity : Warn .. Shutdown, state : 0 .. MaxState]

ASSUME TypeAssumption ==
  /\ MaxPwm \in Nat /\ MaxTicks \in Nat \ {0} /\ MaxState \in Nat
  /\ \A z \in Zones : ZoneCfg[z].trips \in Seq(TripRecords) /\ ZoneCfg[z].fallback \in Int
  /\ StatePwm \in [Actuators -> [0 .. MaxState -> 0 .. MaxPwm]]
  /\ \A m \in Modifiers : m.cap \in Int /\ m.offset \in Int
  /\ PidOutputs \subseteq 0 .. MaxPwm

FaultRecords == [enabled : BOOLEAN, persist : Counters, recovery : Counters,
                 severity : Severities, action : FaultActions]

ASSUME FaultAssumption == FaultSets \subseteq [Kinds -> FaultRecords]

\* thermal_core_init.
Init ==
  /\ faults \in FaultSets
  /\ fault = [k \in Kinds |-> [x \in Targets[k] |-> FsmReset]]
  /\ mask = [z \in Zones |-> {}]
  /\ source = [z \in Zones |-> "none"]
  /\ offset = 0
  /\ severity = [z \in Zones |-> 0]
  /\ latchedTicks = [z \in Zones |-> 0] /\ escalated = [z \in Zones |-> FALSE]
  /\ shutdown = FALSE /\ announced = {}
  /\ path = [a \in Actuators |-> [duty |-> 0, on |-> 0, off |-> ActCfg[a].minOff,
                                  spinup |-> 0]]
  /\ reason = [a \in Actuators |-> "NONE"]

-----------------------------------------------------------------------------
(* The parts of a step, in its order.  `new` is fault as the step leaves it. *)

ZonesOf(a) == {z \in Zones : a \in ZoneActuators[z]}

\* What a kind's machines are configured with: a runaway's persistence is
\* its window.
FsmCfg(k) == IF k = "RUNAWAY" THEN [faults[k] EXCEPT !.persist = 1] ELSE faults[k]

\* The detectors of a kind after a tick on which the targets in `active`
\* show its condition; a disabled kind is not stepped.
Stepped(k, active) ==
  [x \in Targets[k] |-> IF faults[k].enabled
                        THEN FsmTick(fault[k][x], x \in active, FsmCfg(k))
                        ELSE fault[k][x]]

\* The sensors of a zone left for the aggregation: valid and, under
\* USE_ZONE_FALLBACK, not stuck.
UsableSensors(z, reading, stuck) ==
  {s \in ZoneSensors[z] :
     /\ reading[s] # NoSample
     /\ ~(faults["STUCK"].action = "USE_ZONE_FALLBACK" /\ FaultActive(stuck[s]))}

\* A bug the code could have: a zone without sensors is taken as cold.
AggregateCold(z, reading, sensors) ==
  IF sensors = {} THEN 0 ELSE Max({reading[s] : s \in sensors})

\* thermal_zone_aggregate in its MAX mode.
Aggregate(z, reading, sensors) ==
  IF sensors = {} THEN ZoneCfg[z].fallback ELSE Max({reading[s] : s \in sensors})

\* The trip mask after the governor.
NewMask(z, t, shift) == StepWise(Shift(ZoneCfg[z].trips, shift), t, mask[z])

\* cooling_state: WARN trips do not count in a PID zone.
CoolingState(z, m) ==
  HighestState(ZoneCfg[z].trips,
               IF ZoneCfg[z].governor = "PID" THEN SafetyTrips(ZoneCfg[z].trips, m) ELSE m)

\* actuator_demand of the zone's governor.
Demand(z, a, m, pid) ==
  LET floor == StatePwm[a][CoolingState(z, m)]
  IN  IF ZoneCfg[z].governor = "PID" THEN Max({floor, pid}) ELSE floor

ZoneSeverity(z, m) == MaxSeverity(ZoneCfg[z].trips, m)

ActuatorSeverity(a, m) == Max({0} \cup {ZoneSeverity(z, m[z]) : z \in ZonesOf(a)})

\* Step 7: max-wins arbitration.
Arbitrated(a, m, pid) == Max({0} \cup {Demand(z, a, m[z], pid) : z \in ZonesOf(a)})

\* A bug the code could have: only the first zone's severity lifts the cap.
CapAppliesAnyQuiet(a, m, pwm, cap) ==
  /\ \E z \in ZonesOf(a) : ZoneSeverity(z, m[z]) < Critical
  /\ cap >= 0 /\ cap < ActCfg[a].pwmMax /\ cap < pwm

\* Step 8: the cap is skipped at CRITICAL and above.
CapApplies(a, m, pwm, cap) ==
  /\ ActuatorSeverity(a, m) < Critical
  /\ cap >= 0 /\ cap < ActCfg[a].pwmMax /\ cap < pwm

Capped(a, m, pwm, cap) == IF CapApplies(a, m, pwm, cap) THEN cap ELSE pwm

-----------------------------------------------------------------------------
(* Step 9. *)

\* The actuators a fault of kind k on target x concerns.
Affected(k, x) ==
  CASE k = "STALL"   -> {x}
    [] k = "RUNAWAY" -> ZoneActuators[x]
    [] k = "STALE"   -> Actuators
    [] k = "STUCK"   -> UNION {ZoneActuators[z] : z \in {y \in Zones : x \in ZoneSensors[y]}}

ForcesMax(k)        == ActionForcesMax(faults[k])
RequestsShutdown(k) == faults[k].action = "REQUEST_SHUTDOWN"

ActiveTargets(k, new) ==
  IF faults[k].enabled THEN {x \in Targets[k] : FaultActive(new[k][x])} ELSE {}

\* runaway_latched_active_ticks: ticks in a row a latched runaway is active.
LatchedTicks(z, new) ==
  IF /\ faults["RUNAWAY"].action = "FORCE_PWM_MAX_AND_LATCH"
     /\ new["RUNAWAY"][z].state = "LATCHED" /\ new["RUNAWAY"][z].recovery = 0
  THEN Saturating(latchedTicks[z]) ELSE 0

\* The latched runaways that have become a shutdown request.
Escalating(new) ==
  {z \in ActiveTargets("RUNAWAY", new) :
     /\ faults["RUNAWAY"].action = "FORCE_PWM_MAX_AND_LATCH"
     /\ new["RUNAWAY"][z].state = "LATCHED"
     /\ faults["RUNAWAY"].recovery > 0
     /\ LatchedTicks(z, new) >= faults["RUNAWAY"].recovery}

\* A kind's share of cause_stall, cause_stuck, cause_runaway, cause_stale.
Causes(k, new) ==
  IF ~ForcesMax(k) THEN {}
  ELSE UNION {Affected(k, x) :
              x \in ActiveTargets(k, new) \ (IF k = "RUNAWAY" THEN Escalating(new) ELSE {})}

\* shutdown_action
ShutdownActions(new) ==
  {a \in Actuators :
     \/ \E k \in Kinds : /\ RequestsShutdown(k)
                         /\ \E x \in ActiveTargets(k, new) : a \in Affected(k, x)
     \/ \E z \in Escalating(new) : a \in ZoneActuators[z]}

Faulted(new) == ShutdownActions(new) \cup UNION {Causes(k, new) : k \in Kinds}

\* force_pwm_max
Forced(m, new) == Faulted(new) \cup {a \in Actuators : ActuatorSeverity(a, m) >= Shutdown}

\* A bug the code could have: a fault forces the maximum through dwell and slew.
OverriddenByTrips(m, new) == {a \in Actuators : ActuatorSeverity(a, m) >= Critical}

\* slew_override_up
Overridden(m, new) == Faulted(new) \cup {a \in Actuators : ActuatorSeverity(a, m) >= Critical}

\* A zone that reaches SHUTDOWN announces it.
AnnouncementsOfZones(m) ==
  {<<"ZONE", z>> : z \in {y \in Zones : ZoneSeverity(y, m[y]) >= Shutdown /\ severity[y] < Shutdown}}

\* The faults of a kind that a step raises.
Raised(k, new) == {<<k, x>> : x \in {y \in ActiveTargets(k, new) : fault[k][y].state = "NORMAL"}}

\* A fault that asks for a shutdown announces it when it is raised, an
\* escalating runaway once.
AnnouncementsOfFaults(new) ==
  (UNION {Raised(k, new) : k \in {j \in Kinds : RequestsShutdown(j)}})
  \cup {<<"RUNAWAY", z>> : z \in {y \in Escalating(new) : ~escalated[y]}}

\* A bug the code could have: a fault's shutdown request is not latched.
ShutdownLatchedByZones(m, new) ==
  shutdown \/ \E z \in Zones : ZoneSeverity(z, m[z]) >= Shutdown

ShutdownLatched(m, new) ==
  \/ shutdown
  \/ \E z \in Zones : ZoneSeverity(z, m[z]) >= Shutdown
  \/ ShutdownActions(new) # {}

-----------------------------------------------------------------------------
(* Step 10. *)

\* The path of an actuator after a tick with the request req.
NewPath(a, req, safe) ==
  LET d == A(a)!NextDuty(req, safe)
  IN  [duty |-> d, on |-> A(a)!Run(path[a].on, d > 0), off |-> A(a)!Run(path[a].off, d = 0),
       spinup |-> A(a)!NextSpinup(req, safe)]

\* A bug the code could have: the fault's reason is set before the cap's.
FaultReasonUnderCap(a, m, new, capped) ==
  IF ActuatorSeverity(a, m) >= Shutdown \/ a \in ShutdownActions(new) THEN "SAFETY_SHUTDOWN"
  ELSE IF a \in Causes("STALE", new) /\ ~capped THEN "FAULT_STALE"
  ELSE IF a \in Causes("RUNAWAY", new) /\ ~capped THEN "FAULT_RUNAWAY"
  ELSE IF a \in Causes("STUCK", new) /\ ~capped THEN "FAULT_STUCK"
  ELSE IF a \in Causes("STALL", new) /\ ~capped THEN "FAULT_STALL"
  ELSE "NONE"

FaultReasons == {"SAFETY_SHUTDOWN", "FAULT_STALE", "FAULT_RUNAWAY", "FAULT_STUCK", "FAULT_STALL"}

\* The fault part of the reason, later assignments first; "NONE" when no
\* fault and no SHUTDOWN trip speaks.
FaultReason(a, m, new, capped) ==
  IF ActuatorSeverity(a, m) >= Shutdown \/ a \in ShutdownActions(new) THEN "SAFETY_SHUTDOWN"
  ELSE IF a \in Causes("STALE", new) THEN "FAULT_STALE"
  ELSE IF a \in Causes("RUNAWAY", new) THEN "FAULT_RUNAWAY"
  ELSE IF a \in Causes("STUCK", new) THEN "FAULT_STUCK"
  ELSE IF a \in Causes("STALL", new) THEN "FAULT_STALL"
  ELSE "NONE"

\* The reason of a tick with no fault: of an off actuator none, but for a
\* dwell.
PathReason(a, req, safe, d, capped) ==
  LET held == A(a)!Dwell(req, safe)
  IN  IF held # req THEN "DWELL"
      ELSE IF d = 0 THEN "NONE"
      ELSE IF A(a)!Boosted(held) THEN "SPINUP"
      ELSE IF capped THEN "MODIFIER_ACOUSTIC_CAP"
      ELSE "GOVERNOR"

Reason(a, m, new, req, safe, d, capped) ==
  LET byFault == FaultReason(a, m, new, capped)
  IN  IF byFault # "NONE" THEN byFault ELSE PathReason(a, req, safe, d, capped)

-----------------------------------------------------------------------------
\* What a step leaves behind: m are the new masks, left the usable sensors,
\* asked the requests after the cap.  (\E x \in {e} names the value e; TLC
\* evaluates it once.)
Settle(left, m, asked, new, modifier, pid) ==
  \E forced \in {Forced(m, new)}, safe \in {Overridden(m, new)} :
  LET req(a)  == IF a \in forced THEN ActCfg[a].pwmMax ELSE asked[a]
      next(a) == NewPath(a, req(a), a \in safe)
  IN  /\ fault' = new
      /\ source' = [z \in Zones |-> IF left[z] = {} THEN "fallback" ELSE "sensors"]
      /\ mask' = m /\ offset' = modifier.offset
      /\ severity' = [z \in Zones |-> ZoneSeverity(z, m[z])]
      /\ latchedTicks' = [z \in Zones |-> LatchedTicks(z, new)]
      /\ escalated' = [z \in Zones |-> /\ z \in ActiveTargets("RUNAWAY", new)
                                       /\ escalated[z] \/ z \in Escalating(new)]
      /\ announced' = AnnouncementsOfZones(m) \cup AnnouncementsOfFaults(new)
      /\ shutdown' = ShutdownLatched(m, new)
      /\ path' = [a \in Actuators |-> next(a)]
      /\ reason' = [a \in Actuators |->
                     Reason(a, m, new, req(a), a \in safe, next(a).duty,
                            CapApplies(a, m, Arbitrated(a, m, pid), modifier.cap))]
      /\ UNCHANGED faults

\* Steps 2 to 8: the masks of the governors and the requests after the cap.
NewMasks(reading, left, shift) ==
  [z \in Zones |-> NewMask(z, Aggregate(z, reading, left[z]), shift)]

Asked(m, modifier, pid) ==
  [a \in Actuators |-> Capped(a, m, Arbitrated(a, m, pid), modifier.cap)]

\* The detectors of step 9; those of the sensors were stepped before the
\* aggregation.  A stall needs a fan that is asked to run, a runaway one that
\* cools.
NewFault(stuck, asked, seen) ==
  [k \in Kinds |->
    CASE k = "STUCK"   -> stuck
      [] k = "STALL"   -> Stepped(k, {a \in seen[k] : asked[a] >= StallPwm})
      [] k = "RUNAWAY" -> Stepped(k, {z \in seen[k] :
                            \E a \in ZoneActuators[z] : asked[a] >= CoolingPwm})
      [] k = "STALE"   -> Stepped(k, seen[k])]

\* thermal_core_step on the filtered readings, the modifier's result, a PID's
\* output and the conditions of the detectors.
Step(reading, modifier, pid, seen) ==
  \E stuck \in {Stepped("STUCK", seen["STUCK"])} :
  \E left \in {[z \in Zones |-> UsableSensors(z, reading, stuck)]} :
  \E m \in {NewMasks(reading, left, modifier.offset)} :
  \E asked \in {Asked(m, modifier, pid)} :
  \E new \in {NewFault(stuck, asked, seen)} :
    Settle(left, m, asked, new, modifier, pid)

\* CMD_CLEAR_FAULT on a fault that may be cleared; any other answer changes
\* nothing.
ClearFault(k, x) ==
  /\ ClearAllowed(fault[k][x], faults[k])
  /\ fault' = [fault EXCEPT ![k][x] = FsmReset]
  /\ latchedTicks' = IF k = "RUNAWAY" THEN [latchedTicks EXCEPT ![x] = 0] ELSE latchedTicks
  /\ escalated'    = IF k = "RUNAWAY" THEN [escalated EXCEPT ![x] = FALSE] ELSE escalated
  /\ UNCHANGED <<faults, control, shutdown, announced, path, reason>>

\* The targets on which the condition of a kind may show: those of a disabled
\* detector are not looked at.
Watched(k) == IF faults[k].enabled THEN Targets[k] ELSE {}

Steps ==
  \E reading \in [Sensors -> Temps \cup {NoSample}], modifier \in Modifiers, pid \in PidOutputs :
    \E stall \in SUBSET Watched("STALL"), stuck \in SUBSET Watched("STUCK"),
       runaway \in SUBSET Watched("RUNAWAY"), stale \in SUBSET Watched("STALE") :
      Step(reading, modifier, pid,
           [STALL |-> stall, STUCK |-> stuck, RUNAWAY |-> runaway, STALE |-> stale])

Next == Steps \/ (\E k \in Kinds : \E x \in Targets[k] : ClearFault(k, x))

Spec == Init /\ [][Next]_vars

-----------------------------------------------------------------------------
\* A zone at or above a CRITICAL trip is cooled for it on the very tick: each
\* of its actuators, shared or not, runs at least at the trip's state_pwm,
\* whatever cap, dwell, slew and the other zones ask for.
CriticalCooled ==
  \A z \in Zones : \A t \in mask[z] : \A a \in ZoneActuators[z] :
    ZoneCfg[z].trips[t].severity >= Critical =>
      path[a].duty >= StatePwm[a][ZoneCfg[z].trips[t].state]

\* A zone all of whose sensors are lost, or taken out as stuck, is cooled as
\* a CRITICAL one, unless the modifier raises its trips.
LossCools ==
  \A z \in Zones : \A t \in 1 .. Len(ZoneCfg[z].trips) : \A a \in ZoneActuators[z] :
    /\ source[z] = "fallback" /\ offset <= 0
    /\ ZoneCfg[z].trips[t].severity = Critical
    => path[a].duty >= StatePwm[a][ZoneCfg[z].trips[t].state]

\* While a fault is not NORMAL and its action forces the maximum or asks for
\* a shutdown, every actuator it concerns runs at pwm_max; so does every
\* actuator of a zone at SHUTDOWN.
ForcedHoldsMax ==
  /\ \A k \in Kinds : \A x \in ActiveTargets(k, fault) : \A a \in Affected(k, x) :
       ForcesMax(k) \/ RequestsShutdown(k) => path[a].duty = ActCfg[a].pwmMax
  /\ \A z \in Zones : \A a \in ZoneActuators[z] :
       severity[z] >= Shutdown => path[a].duty = ActCfg[a].pwmMax

\* The shutdown latch and the shutdown events agree, wherever the request
\* comes from: the latch never rises in silence and no event leaves it down
\* (every sensor here belongs to a zone; a stuck sensor of none would only
\* send the event).
ShutdownAnnounced ==
  [][/\ ~shutdown /\ shutdown' => announced' # {}
     /\ announced' # announced /\ announced' # {} => shutdown']_vars

\* The reason code tells the truth: a fault or shutdown reason comes with
\* pwm_max and, for a shutdown, with the latch; an actuator that a fault
\* forces says so; a cap is never the reason of a CRITICAL zone.
ReasonTruthful ==
  \A a \in Actuators :
    /\ reason[a] \in FaultReasons => path[a].duty = ActCfg[a].pwmMax
    /\ reason[a] = "SAFETY_SHUTDOWN" => shutdown
    /\ \A k \in Kinds : \A x \in ActiveTargets(k, fault) :
         a \in Affected(k, x) /\ (ForcesMax(k) \/ RequestsShutdown(k)) => reason[a] \in FaultReasons
    /\ reason[a] = "MODIFIER_ACOUSTIC_CAP" => \A z \in ZonesOf(a) : severity[z] < Critical
=============================================================================
