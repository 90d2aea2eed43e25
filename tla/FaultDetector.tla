---------------------------- MODULE FaultDetector ----------------------------
(***************************************************************************)
(* One instance of a thermal-core fault detector over the control ticks    *)
(* and the CMD_CLEAR_FAULT commands that reach it: the fsm_tick machine of  *)
(* core/thermal_fault.c, the event thermal_core_step reports a transition   *)
(* with, and the clear arm of thermal_core_apply_command.  How a detector   *)
(* computes its condition is another module's subject: here the condition   *)
(* of each tick is an input.                                               *)
(***************************************************************************)
EXTENDS FaultFsm

CONSTANTS MachineConfigs,       \* the detector configurations considered
          Horizon        \* the run lengths hot and quiet stop at Horizon

ASSUME MachineConfigsAssumption == MachineConfigs \subseteq FsmConfigs
\* Long enough that a stopped run length never looks too short.
ASSUME HorizonAssumption == Horizon \in Nat /\ Horizon > CounterMax

VARIABLES machineCfg,           \* thermal_fault_detector_cfg_t, fixed by init
          d,             \* thermal_fault_*_state_t
          event,         \* event logged by the last action ("none")
          status,        \* status of the last command ("none" after a tick)
          hot,           \* consecutive ticks with the condition, up to now
          quiet          \* consecutive ticks without it, up to now

machineVars == <<machineCfg, d, event, status, hot, quiet>>

Longer(n) == IF n = Horizon THEN n ELSE n + 1

\* thermal_core_init resets the detector; no tick has been seen.
MachineInit ==
  /\ machineCfg \in MachineConfigs
  /\ d = FsmReset
  /\ event = "none"
  /\ status = "none"
  /\ hot = 0
  /\ quiet = 0

\* One control tick: the detector's step and emit_fault_transition.
Tick(active) ==
  /\ d' = FsmTick(d, active, machineCfg)
  /\ event' = TransitionEvent(d.state, d'.state)
  /\ status' = "none"
  /\ hot'   = IF active THEN Longer(hot) ELSE 0
  /\ quiet' = IF active THEN 0 ELSE Longer(quiet)
  /\ UNCHANGED machineCfg

\* CMD_CLEAR_FAULT for this detector.  A NORMAL detector answers OK and
\* nothing changes; any other state that may not be cleared is refused.
ClearFault ==
  /\ CASE d.state = "NORMAL"                            -> status' = "OK" /\ d' = d
       [] d.state # "NORMAL" /\ ~ClearAllowed(d, machineCfg)   -> status' = "REJECTED_SAFETY" /\ d' = d
       [] d.state # "NORMAL" /\ ClearAllowed(d, machineCfg)    -> status' = "OK" /\ d' = FsmReset
  /\ event' = IF status' = "OK" THEN "COMMAND_APPLIED" ELSE "COMMAND_REJECTED"
  /\ UNCHANGED <<machineCfg, hot, quiet>>

MachineNext == (\E active \in BOOLEAN : Tick(active)) \/ ClearFault

MachineSpec == MachineInit /\ [][MachineNext]_machineVars

-----------------------------------------------------------------------------
\* The state record, the counters and the run lengths stay in their ranges
\* (the uint16_t counters of thermal_fault_*_state_t).
MachineTypeOK ==
  /\ machineCfg \in MachineConfigs
  /\ d \in Fsms
  /\ event \in {"none", "FAULT_ENTER", "FAULT_RECOVERING", "FAULT_CLEAR",
                "COMMAND_APPLIED", "COMMAND_REJECTED"}
  /\ status \in {"none", "OK", "REJECTED_SAFETY"}
  /\ hot \in 0 .. Horizon
  /\ quiet \in 0 .. Horizon

\* What each counter of the record says about the ticks seen: the persist
\* count is at most the run of active ticks, the recovery count of a
\* RECOVERING fault is one short of the run of quiet ticks, the recovery
\* count of a LATCHED one is that run (up to saturation), and a DEGRADED or
\* CRITICAL fault has just been seen active.  A latching action never passes
\* through RECOVERING and any other action never latches.
CountersTellRuns ==
  /\ hot = 0 \/ quiet = 0
  /\ d.state = "NORMAL" =>
       /\ d.persist <= hot
       /\ d.persist = 0 \/ d.persist < machineCfg.persist
       /\ d.recovery = 0
  /\ d.state \in {"DEGRADED", "CRITICAL"} => quiet = 0 /\ d.recovery = 0
  /\ d.state = "RECOVERING" =>
       /\ quiet = d.recovery + 1
       /\ d.recovery = 0 \/ d.recovery < machineCfg.recovery
  /\ d.state = "LATCHED" => d.recovery = IF quiet > CounterMax THEN CounterMax ELSE quiet
  /\ d.state \in {"DEGRADED", "CRITICAL", "RECOVERING"} => machineCfg.action \notin LatchActions
  /\ d.state = "LATCHED" => machineCfg.action \in LatchActions

\* A fault is raised from NORMAL only by a run of persist_ticks active ticks
\* in a row, not by persist_ticks active ticks spread over time.
RaisedOnlyByPersistence ==
  [][d.state = "NORMAL" /\ d'.state # "NORMAL" => hot' >= machineCfg.persist /\ hot' > 0]_machineVars

\* A latched fault is left by a clear command alone, and only after
\* recovery_ticks quiet ticks in a row: "track inactive ticks so
\* clear_allowed can gate the explicit reset on recovery_ticks elapsed".
LatchHeldUntilQuiet ==
  [][d.state = "LATCHED" /\ d'.state # "LATCHED" =>
       /\ d' = FsmReset /\ event' = "COMMAND_APPLIED"
       /\ quiet >= machineCfg.recovery]_machineVars

\* A fault that recovers by itself does so only after recovery_ticks quiet
\* ticks beyond the one that started the recovery, uninterrupted by a
\* relapse; a clear command never cuts a recovery short.
RecoveredOnlyByQuiet ==
  [][d.state \notin {"NORMAL", "LATCHED"} /\ d'.state = "NORMAL" =>
       /\ d.state = "RECOVERING"
       /\ event' = "FAULT_CLEAR"
       /\ quiet' > machineCfg.recovery]_machineVars

\* Once the condition is gone for good the detector ends in NORMAL: by
\* itself, or for a latched fault through the clear command.
EventuallyNormal == <>[](quiet > 0) => <>[](d.state = "NORMAL")
=============================================================================
