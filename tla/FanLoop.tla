------------------------------- MODULE FanLoop -------------------------------
(***************************************************************************)
(* One fan in the loop: step 10 of thermal_core_step (ActuatorPath), the    *)
(* stall detector of step 9 (thermal_fault_stall_step in                    *)
(* core/thermal_fault.c), and the fan both act on.  The detector sees the   *)
(* request step 10 is given and the tach that answers the duty of the tick  *)
(* before; step 10 sees the force the detector's fault asks for.            *)
(*                                                                         *)
(* The fan is external: a healthy one turns fast enough within a tick of    *)
(* being driven, a broken one does not turn.  A tach sample may be missing. *)
(***************************************************************************)
EXTENDS ActuatorPath, FaultFsm

CONSTANTS StallCfgs,      \* the stall_defaults considered
          StallPwm        \* stall_pwm_threshold

ASSUME StallAssumption == StallCfgs \subseteq FsmConfigs /\ StallPwm \in 1 .. MaxPwm

VARIABLES stallCfg,       \* faults.stall_defaults
          stall,          \* thermal_fault_stall_state_t: the shared machine
          grace,          \* .spinup_remaining
          wasZero,        \* .prev_pwm_was_zero
          asked,          \* arb_pwm as the detector sees it, before forces
          tach,           \* the tach of this tick: "good", "low" or "none"
          healthy         \* the fan turns when driven

detector == <<stallCfg, stall, grace, wasZero>>
fanVars  == <<vars, detector, asked, tach, healthy>>

FanInit ==
  /\ Init
  /\ stallCfg \in StallCfgs
  /\ stall = FsmReset /\ grace = 0 /\ wasZero = TRUE
  /\ asked = 0 /\ tach = "none"
  /\ healthy = TRUE

\* What the tach input can deliver this tick.
TachSamples == {"none", IF healthy /\ duty > 0 THEN "good" ELSE "low"}

\* A bug the code could have: the window is not armed.
GraceNone(req) == grace

\* The grace window before this tick's countdown: a request that turns
\* non-zero arms it, whether or not step 10 lets the fan start.
Grace(req) == IF wasZero /\ req > 0 THEN cfg.spinupTicks ELSE grace

\* A bug the code could have: only a request for the maximum is watched.
StallConditionAtMax(req, sample) ==
  Grace(req) = 0 /\ sample = "low" /\ req = MaxPwm

StallCondition(req, sample) ==
  Grace(req) = 0 /\ sample = "low" /\ req >= StallPwm

\* The dispatch of the stall fault: its action forces pwm_max.
StallForces(s) ==
  FaultActive(s) /\ (ActionForcesMax(stallCfg) \/ stallCfg.action = "REQUEST_SHUTDOWN")

\* Steps 9 and 10 with the arbitrated request req; safe is a severity
\* override of the zones.
FanTick(req, safe, sample) ==
  /\ stall' = FsmTick(stall, StallCondition(req, sample), stallCfg)
  /\ grace' = IF Grace(req) > 0 THEN Grace(req) - 1 ELSE 0
  /\ wasZero' = (req = 0)
  /\ asked' = req /\ tach' = sample
  /\ IF StallForces(stall') THEN ForcedMax ELSE Drive(req, safe)
  /\ UNCHANGED <<stallCfg, healthy>>

\* CMD_CLEAR_FAULT for the stall detector; thermal_fault_stall_reset also
\* forgets the grace window.
ClearStall ==
  /\ ClearAllowed(stall, stallCfg)
  /\ stall' = FsmReset /\ grace' = 0 /\ wasZero' = TRUE
  /\ UNCHANGED <<vars, stallCfg, asked, tach, healthy>>

\* The fan breaks or is replaced.
Break  == healthy /\ healthy' = FALSE /\ UNCHANGED <<vars, detector, asked, tach>>
Repair == ~healthy /\ healthy' = TRUE /\ UNCHANGED <<vars, detector, asked, tach>>

FanTicks == \E req \in 0 .. MaxPwm, safe \in BOOLEAN, sample \in TachSamples :
              FanTick(req, safe, sample)

FanNext == FanTicks \/ ClearStall \/ Break \/ Repair

\* The platform's loop calls thermal_core_step every control period.
FanSpec == FanInit /\ [][FanNext]_fanVars /\ WF_fanVars(FanTicks)

-----------------------------------------------------------------------------
\* A fan that has failed and is asked to run is reported, unless its tach
\* samples stop coming.
DeadFanReported ==
  <>[](~healthy /\ asked >= StallPwm /\ tach = "low") => <>FaultActive(stall)

\* A fan that never breaks is never reported, when it has a grace window and
\* no min_off_ticks: the detector's window is then armed by the very tick on
\* which step 10 starts the fan.
NoFalseStall ==
  cfg.spinupTicks > 0 /\ cfg.minOff = 0 /\ []healthy => []~FaultActive(stall)

\* thermal-core-prd.md sections 4.7 and 5.1: the stall condition is
\* "excluding configured spin-up grace", and "stall detection ignores tach
\* failures during the same grace window": a fan that never breaks is never
\* reported, whatever its dwell.
GraceCoversStart == cfg.spinupTicks > 0 /\ []healthy => []~FaultActive(stall)
=============================================================================
