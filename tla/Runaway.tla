------------------------------- MODULE Runaway -------------------------------
(***************************************************************************)
(* The thermal-runaway detector of one zone (thermal_fault_runaway_step in  *)
(* core/thermal_fault.c) with the dispatch around it in step 9 of           *)
(* thermal_core_step: a ring of the last samples, the shared fault machine, *)
(* the escalation of a latched runaway to a shutdown request, and the       *)
(* shutdown request itself, which nothing withdraws.                        *)
(*                                                                         *)
(* A tick brings the zone's temperature and the arbitrated request of each  *)
(* of its actuators.                                                        *)
(***************************************************************************)
EXTENDS FaultFsm, Integers, SequencesExt

CONSTANTS RunawayCfgs,    \* runaway_defaults considered: FsmConfigs with rise
                          \* and coolingPwm added; persist is the ring's size
          Temps,          \* zone temperatures
          Requests        \* what the zone's actuators are asked: functions
                          \* from the actuators to PWM values

ASSUME RunawayAssumption ==
  RunawayCfgs \subseteq [persist  : Counters \ {0}, recovery : Counters,
                         severity : Severities,     action   : FaultActions,
                         rise     : Nat \ {0},      coolingPwm : Nat]

\* A zone has an actuator (validate_zones) and a request is a byte.
ASSUME RequestsAssumption ==
  \A request \in Requests :
    DOMAIN request # {} /\ \A a \in DOMAIN request : request[a] \in 0 .. 255

VARIABLES runCfg,         \* runaway_defaults
          runaway,        \* the shared machine
          ring,           \* temp_window and pwm_window, slots 0 .. persist - 1
          head, filled,   \* window_head, window_filled
          latchedTicks,   \* runaway_latched_active_ticks
          escalated,      \* runaway_escalated_shutdown
          shutdown,       \* shutdown_request_latched
          past,           \* ghost: the samples since the last reset, oldest
                          \* first, no more than persist
          runHot          \* ghost: consecutive ticks with the condition

runVars == <<runCfg, runaway, ring, head, filled, latchedTicks, escalated,
             shutdown, past, runHot>>

Slots == 0 .. runCfg.persist - 1
Zeros == [s \in Slots |-> [temp |-> 0, pwm |-> 0]]

RunInit ==
  /\ runCfg \in RunawayCfgs
  /\ runaway = FsmReset
  /\ ring = Zeros /\ head = 0 /\ filled = FALSE
  /\ latchedTicks = 0 /\ escalated = FALSE /\ shutdown = FALSE
  /\ past = <<>> /\ runHot = 0

\* rep_pwm: the actuator of the zone that is asked most.
RepPwm(request) == Max({request[a] : a \in DOMAIN request})

\* The condition over a full ring whose next slot, the oldest, is `next`.
Condition(r, next, full) ==
  LET newest == r[(next + runCfg.persist - 1) % runCfg.persist]
      oldest == r[next]
  IN  /\ full
      /\ newest.temp - oldest.temp >= runCfg.rise
      /\ \A s \in Slots : r[s].pwm >= runCfg.coolingPwm

\* The fault machine: a full window is the persistence.
RunawayFsm(active) == FsmTick(runaway, active, [runCfg EXCEPT !.persist = 1])

\* A bug the code could have: a quiet tick does not restart the count.
LatchedTicksKept(new) ==
  IF runCfg.action = "FORCE_PWM_MAX_AND_LATCH" /\ new.state = "LATCHED"
  THEN IF new.recovery = 0 THEN Saturating(latchedTicks) ELSE latchedTicks
  ELSE 0

\* runaway_latched_active_ticks: ticks in a row a latched runaway has been
\* active, the latching tick included.
LatchedTicks(new) ==
  IF /\ runCfg.action = "FORCE_PWM_MAX_AND_LATCH" /\ new.state = "LATCHED"
     /\ new.recovery = 0
  THEN Saturating(latchedTicks) ELSE 0

\* escalates_sd
Escalates(new) ==
  /\ runCfg.action = "FORCE_PWM_MAX_AND_LATCH" /\ new.state = "LATCHED"
  /\ runCfg.recovery > 0 /\ LatchedTicks(new) >= runCfg.recovery

RequestsShutdown(new) == runCfg.action = "REQUEST_SHUTDOWN" /\ FaultActive(new)

\* shutdown_request_latched after this tick's shutdown_action.
ShutdownLatched(new) == shutdown \/ Escalates(new) \/ RequestsShutdown(new)

RunTick(temp, request) ==
  LET r      == [ring EXCEPT ![head] = [temp |-> temp, pwm |-> RepPwm(request)]]
      next   == (head + 1) % runCfg.persist
      full   == filled \/ next = 0
      active == Condition(r, next, full)
      longer == Append(past, [temp |-> temp, request |-> request])
  IN  /\ ring' = r /\ head' = next /\ filled' = full
      /\ runaway' = RunawayFsm(active)
      /\ latchedTicks' = LatchedTicks(runaway')
      /\ escalated' = (FaultActive(runaway') /\ (escalated \/ Escalates(runaway')))
      /\ shutdown' = ShutdownLatched(runaway')
      /\ past' = IF Len(longer) > runCfg.persist THEN Tail(longer) ELSE longer
      /\ runHot' = IF active THEN Saturating(runHot) ELSE 0
      /\ UNCHANGED runCfg

\* A bug the code could have: a clear leaves the ring full.
ClearedRingFull == UNCHANGED <<ring, head, filled>>

\* thermal_fault_runaway_reset's part of the ring.
ClearedRing == ring' = Zeros /\ head' = 0 /\ filled' = FALSE

\* CMD_CLEAR_FAULT for the runaway detector of this zone.
ClearRunaway ==
  /\ ClearAllowed(runaway, runCfg)
  /\ runaway' = FsmReset /\ ClearedRing
  /\ latchedTicks' = 0 /\ escalated' = FALSE
  /\ past' = <<>> /\ runHot' = 0
  /\ UNCHANGED <<runCfg, shutdown>>

RunNext == (\E temp \in Temps, request \in Requests : RunTick(temp, request)) \/ ClearRunaway

RunSpec == RunInit /\ [][RunNext]_runVars

-----------------------------------------------------------------------------
Raised == runaway.state = "NORMAL" /\ runaway'.state # "NORMAL"

\* A fault is only raised on a rise across persist_ticks samples taken since
\* the last reset, all of them with some actuator of the zone asked for
\* cooling_pwm_threshold: no slot of an empty ring and none from before a
\* clear is compared.
RaisedOnlyByRise ==
  [][Raised =>
       /\ Len(past') = runCfg.persist
       /\ past'[runCfg.persist].temp - past'[1].temp >= runCfg.rise
       /\ \A i \in 1 .. runCfg.persist : \E a \in DOMAIN past'[i].request :
            past'[i].request[a] >= runCfg.coolingPwm]_runVars

\* A shutdown is asked for only by a REQUEST_SHUTDOWN fault or by a latched
\* runaway that was active recovery_ticks in a row, never by one that paused.
ShutdownNeedsCause ==
  [][~shutdown /\ shutdown' =>
       \/ runCfg.action = "REQUEST_SHUTDOWN"
       \/ runCfg.action = "FORCE_PWM_MAX_AND_LATCH" /\ runHot' >= runCfg.recovery]_runVars
=============================================================================
