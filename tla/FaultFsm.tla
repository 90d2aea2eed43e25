------------------------------ MODULE FaultFsm ------------------------------
(***************************************************************************)
(* The fault state machine every detector of thermal-core shares: the     *)
(* static helpers action_to_state and fsm_tick of core/thermal_fault.c     *)
(* and the *_clear_allowed predicates.  No variables: the detector modules *)
(* keep a record                                                           *)
(*    d = [state, persist, recovery]                                       *)
(* for the first three fields every thermal_fault_*_state_t starts with.   *)
(* entered_ts_ms is left out: nothing reads it back into a decision.       *)
(* The default arm of the switch (a state that is none of the five) is     *)
(* left out too: no assignment of the program produces one.                *)
(***************************************************************************)
EXTENDS Naturals

CONSTANT CounterMax      \* largest value of a uint16_t tick counter

ASSUME CounterMaxAssumption == CounterMax \in Nat \ {0}

ActiveStates == {"DEGRADED", "CRITICAL", "LATCHED"}
FaultStates  == ActiveStates \cup {"NORMAL", "RECOVERING"}
Severities   == {"DEGRADED", "CRITICAL"}
FaultActions == {"NONE", "MARK_DEGRADED", "USE_ZONE_FALLBACK",
                 "FORCE_PWM_MAX_UNTIL_RECOVERED", "FORCE_PWM_MAX_AND_LATCH",
                 "REQUEST_SHUTDOWN"}
LatchActions == {"FORCE_PWM_MAX_AND_LATCH", "REQUEST_SHUTDOWN"}

\* The thresholds are the detectors' own business; this is what the shared
\* machine reads from thermal_fault_detector_cfg_t.
FsmConfigs == [persist  : 0 .. CounterMax, recovery : 0 .. CounterMax,
               severity : Severities,      action   : FaultActions]

Counters == 0 .. CounterMax
Fsms     == [state : FaultStates, persist : Counters, recovery : Counters]

\* The common part of every thermal_fault_*_reset.
FsmReset == [state |-> "NORMAL", persist |-> 0, recovery |-> 0]

Wrapping(n)   == IF n = CounterMax THEN 0 ELSE n + 1      \* n++ on a uint16_t

\* A bug the code could have: the 0xFFFF test of the latched count is missing.
SaturatingNever(n) == n + 1

Saturating(n) == IF n = CounterMax THEN n ELSE n + 1      \* if (n < 0xFFFF) n++

-----------------------------------------------------------------------------
ActionToState(c) ==
  IF c.action \in LatchActions THEN "LATCHED" ELSE c.severity

\* A bug the code could have: a quiet tick does not restart the count.
TickNormalKeepsCount(d, active, c) ==
  LET n == Wrapping(d.persist) IN
  CASE ~active                 -> d
    [] active /\ n >= c.persist -> [state |-> ActionToState(c), persist |-> n, recovery |-> 0]
    [] active /\ n <  c.persist -> [d EXCEPT !.persist = n]

\* case THERMAL_FAULT_NORMAL
TickNormal(d, active, c) ==
  LET n == Wrapping(d.persist) IN
  CASE ~active                 -> [d EXCEPT !.persist = 0]
    [] active /\ n >= c.persist -> [state |-> ActionToState(c), persist |-> n, recovery |-> 0]
    [] active /\ n <  c.persist -> [d EXCEPT !.persist = n]

\* case THERMAL_FAULT_DEGRADED / THERMAL_FAULT_CRITICAL
TickActive(d, active) ==
  [d EXCEPT !.recovery = 0, !.state = IF active THEN @ ELSE "RECOVERING"]

\* A bug the code could have: a relapse leaves the recovery count running.
TickRecoveringKeepsCount(d, active, c) ==
  LET n == Wrapping(d.recovery) IN
  CASE active                     -> d
    [] ~active /\ n >= c.recovery -> FsmReset
    [] ~active /\ n <  c.recovery -> [d EXCEPT !.recovery = n]

\* case THERMAL_FAULT_RECOVERING: a relapse goes back to the active state at
\* once, without waiting persist_ticks again.
TickRecovering(d, active, c) ==
  LET n == Wrapping(d.recovery) IN
  CASE active                     -> [state |-> ActionToState(c), persist |-> 0, recovery |-> 0]
    [] ~active /\ n >= c.recovery -> FsmReset
    [] ~active /\ n <  c.recovery -> [d EXCEPT !.recovery = n]

\* A bug the code could have: the quiet ticks need not be consecutive.
TickLatchedNoRestart(d, active) ==
  IF active THEN d ELSE [d EXCEPT !.recovery = Saturating(@)]

\* A bug the code could have: quiet ticks of a latched fault are not counted.
TickLatchedNeverCounts(d, active) == [d EXCEPT !.recovery = 0]

\* case THERMAL_FAULT_LATCHED: never left here; quiet ticks are counted for
\* the clear command.
TickLatched(d, active) ==
  [d EXCEPT !.recovery = IF active THEN 0 ELSE Saturating(@)]

\* fsm_tick: one control tick of a detector whose condition is `active`.
FsmTick(d, active, c) ==
  CASE d.state = "NORMAL"                   -> TickNormal(d, active, c)
    [] d.state \in {"DEGRADED", "CRITICAL"} -> TickActive(d, active)
    [] d.state = "RECOVERING"               -> TickRecovering(d, active, c)
    [] d.state = "LATCHED"                  -> TickLatched(d, active)

\* A bug the code could have: the clear only checks that the fault is latched.
ClearAllowedAlways(d, c) == d.state = "LATCHED"

\* thermal_fault_*_clear_allowed; the four bodies are the same.
ClearAllowed(d, c) == d.state = "LATCHED" /\ d.recovery >= c.recovery

-----------------------------------------------------------------------------
\* fault_state_active: RECOVERING still counts, so the fault's action holds
\* until NORMAL.
FaultActive(d) == d.state # "NORMAL"

ActionForcesMax(c) ==
  c.action \in {"FORCE_PWM_MAX_UNTIL_RECOVERED", "FORCE_PWM_MAX_AND_LATCH"}

\* emit_fault_transition: the event a change of state is reported with.
TransitionEvent(prev, new) ==
  CASE prev = new                                             -> "none"
    [] prev # new /\ new = "RECOVERING"                       -> "FAULT_RECOVERING"
    [] prev # new /\ new = "NORMAL"                           -> "FAULT_CLEAR"
    [] prev # new /\ new \in ActiveStates /\ prev = "NORMAL"  -> "FAULT_ENTER"
    [] prev # new /\ new \in ActiveStates /\ prev # "NORMAL"  -> "none"
=============================================================================
