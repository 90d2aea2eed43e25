---------------------------- MODULE DetectorsProofs ----------------------------
(***************************************************************************)
(* Proofs about the fault detectors, for every set of configurations and    *)
(* every width of the counters: the shared machine (FaultDetector), the     *)
(* actuator path the stall detector's fan is driven through (ActuatorPath), *)
(* the stall detector on a healthy fan, the runaway, the stuck-sensor and   *)
(* the fan-health detector.  The machine, the path, runaway and stuck       *)
(* sensor are each proved of their own specification; the core with all of  *)
(* them (Detectors) implements every one, so what is proved of a part holds *)
(* in it.                                                                   *)
(***************************************************************************)
EXTENDS Detectors, CommonFacts, SequenceTheorems, FiniteSetTheorems

-----------------------------------------------------------------------------
(* The shared machine.  MachineTypeOK and CountersTellRuns together are      *)
(* inductive; the three action properties follow from them step by step.    *)

MachineInv == MachineTypeOK /\ CountersTellRuns

\* A machine starts with empty counters and an empty history.
LEMMA InitMachineInv == MachineInit => MachineInv
<1> SUFFICES ASSUME MachineInit PROVE MachineInv
  OBVIOUS
<1>1. 0 \in Counters /\ 0 \in 0 .. Horizon
  BY CounterMaxAssumption, HorizonAssumption DEF Counters
<1>2. MachineTypeOK
  BY <1>1 DEF MachineInit, MachineTypeOK, FsmReset, Fsms, FaultStates
<1>3. CountersTellRuns
  BY DEF MachineInit, CountersTellRuns, FsmReset
<1> QED BY <1>2, <1>3 DEF MachineInv

\* Every step keeps the ranges.
LEMMA NextMachineTyped == MachineTypeOK /\ [MachineNext]_machineVars => MachineTypeOK'
<1> SUFFICES ASSUME MachineTypeOK, [MachineNext]_machineVars PROVE MachineTypeOK'
  OBVIOUS
<1> USE DEF MachineTypeOK
<1>1. machineCfg \in FsmConfigs
  BY MachineConfigsAssumption
<1>2. ASSUME NEW n \in 0 .. Horizon PROVE Longer(n) \in 0 .. Horizon
  BY HorizonAssumption DEF Longer
<1>3. 0 \in 0 .. Horizon
  BY HorizonAssumption
<1>4. ASSUME NEW active \in BOOLEAN, Tick(active) PROVE MachineTypeOK'
  <2>1. d' \in Fsms
    BY <1>1, <1>4, FsmTickType, ConfigFields DEF Tick
  <2>2. event' \in {"none", "FAULT_ENTER", "FAULT_RECOVERING", "FAULT_CLEAR"}
    <3>1. d.state \in FaultStates /\ d'.state \in FaultStates
      BY <2>1 DEF Fsms
    <3> QED BY <3>1, <1>4 DEF Tick, TransitionEvent, FaultStates, ActiveStates
  <2>3. hot' \in 0 .. Horizon /\ quiet' \in 0 .. Horizon
    BY <1>2, <1>3, <1>4 DEF Tick
  <2> QED BY <1>4, <2>1, <2>2, <2>3 DEF Tick
<1>5. CASE ClearFault
  <2>1. FsmReset \in Fsms
    BY CounterMaxAssumption DEF FsmReset, Fsms, FaultStates, Counters
  <2> QED BY <1>5, <2>1 DEF ClearFault
<1>6. CASE UNCHANGED machineVars
  BY <1>6 DEF machineVars
<1> QED BY <1>4, <1>5, <1>6 DEF MachineNext

\* A control tick keeps the meaning of the counters, one state at a time.
LEMMA TickCounters ==
  ASSUME MachineInv, NEW active \in BOOLEAN, Tick(active)
  PROVE  CountersTellRuns'
<1>1. /\ machineCfg \in FsmConfigs /\ machineCfg' = machineCfg
      /\ d \in Fsms
      /\ d.persist \in Counters /\ d.recovery \in Counters /\ d.state \in FaultStates
      /\ machineCfg.persist \in Counters /\ machineCfg.recovery \in Counters
      /\ hot \in 0 .. Horizon /\ quiet \in 0 .. Horizon
  BY MachineConfigsAssumption DEF MachineInv, MachineTypeOK, Fsms, FsmConfigs, Counters, Tick
<1>2. /\ d' = FsmTick(d, active, machineCfg)
      /\ active  => hot' = Longer(hot) /\ quiet' = 0
      /\ ~active => hot' = 0 /\ quiet' = Longer(quiet)
  BY DEF Tick
<1>3. /\ Longer(hot) > 0 /\ Longer(quiet) > 0
      /\ hot < Horizon => Longer(hot) = hot + 1
      /\ quiet < Horizon => Longer(quiet) = quiet + 1
      /\ hot <= Longer(hot) /\ quiet <= Longer(quiet)
      /\ Longer(hot) \in 0 .. Horizon /\ Longer(quiet) \in 0 .. Horizon
  BY <1>1, HorizonAssumption, CounterMaxAssumption DEF Longer
<1>4. ActionToState(machineCfg) \in ActiveStates
      /\ (ActionToState(machineCfg) = "LATCHED" <=> machineCfg.action \in LatchActions)
  BY <1>1, TargetState, ConfigFields
<1>5. hot' = 0 \/ quiet' = 0
  BY <1>2
<1>10. Arms(d, active, machineCfg, d')
  BY <1>1, <1>2, FsmTickArms, ConfigFields
<1>6. CASE d.state = "NORMAL"
  <2>1. CASE ~active
    <3>2. d'.state = "NORMAL" /\ d'.persist = 0 /\ d'.recovery = d.recovery
      BY <1>1, <1>2, <1>6, <2>1, <1>10 DEF Arms
    <3>3. d.recovery = 0
      BY <1>6 DEF MachineInv, CountersTellRuns
    <3> QED BY <3>2, <3>3, <1>2, <1>5, <2>1 DEF CountersTellRuns
  <2>2. CASE active /\ Wrapping(d.persist) >= machineCfg.persist
    <3>2. d'.state = ActionToState(machineCfg) /\ d'.recovery = 0 /\ quiet' = 0
      BY <1>1, <1>2, <1>6, <2>2, <1>10 DEF Arms
    <3> QED BY <3>2, <1>1, <1>4, <1>5, CounterMaxAssumption DEF CountersTellRuns, ActiveStates
  <2>3. CASE active /\ Wrapping(d.persist) < machineCfg.persist
    <3>1. d.recovery = 0
      BY <1>6 DEF MachineInv, CountersTellRuns
    <3>2. d'.state = "NORMAL" /\ d'.persist = Wrapping(d.persist) /\ d'.recovery = 0
      BY <3>1, <1>1, <1>2, <1>6, <2>3, <1>10 DEF Arms
    <3>3. d.persist < CounterMax
      BY <1>1, <1>6, CounterMaxAssumption DEF MachineInv, CountersTellRuns, Counters
    <3>4. Wrapping(d.persist) = d.persist + 1 /\ d.persist <= hot
      BY <3>3, <1>1, <1>6, CounterSteps DEF MachineInv, CountersTellRuns
    <3>5. Wrapping(d.persist) <= Longer(hot)
      BY <3>3, <3>4, <1>1, HorizonAssumption, CounterMaxAssumption DEF Longer, Counters
    <3> QED BY <3>2, <3>5, <2>3, <1>1, <1>2, <1>5 DEF CountersTellRuns
  <2>4. /\ Wrapping(d.persist) \in Nat /\ machineCfg.persist \in Nat
    BY <1>1, CounterSteps, CounterMaxAssumption DEF Counters
  <2> QED BY <2>1, <2>2, <2>3, <2>4
<1>7. CASE d.state \in {"DEGRADED", "CRITICAL"}
  <2>2. d'.recovery = 0 /\ d'.state = IF active THEN d.state ELSE "RECOVERING"
    BY <1>1, <1>2, <1>7, <1>10 DEF Arms
  <2>3. quiet = 0 /\ machineCfg.action \notin LatchActions
    BY <1>7 DEF MachineInv, CountersTellRuns
  <2>4. Longer(quiet) = 1
    BY <2>3, <1>3, HorizonAssumption, CounterMaxAssumption
  <2> QED BY <2>2, <2>3, <2>4, <1>1, <1>2, <1>5, <1>7 DEF CountersTellRuns
<1>8. CASE d.state = "RECOVERING"
  <2>0. quiet = d.recovery + 1 /\ machineCfg.action \notin LatchActions
    BY <1>8 DEF MachineInv, CountersTellRuns
  <2>1. CASE active
    <3>2. d'.state = ActionToState(machineCfg) /\ d'.recovery = 0 /\ quiet' = 0
      BY <1>1, <1>2, <1>8, <2>1, <1>10 DEF Arms
    <3> QED BY <3>2, <2>0, <1>1, <1>4, <1>5 DEF CountersTellRuns, ActiveStates
  <2>2. CASE ~active /\ Wrapping(d.recovery) >= machineCfg.recovery
    <3>1. d' = FsmReset
      BY <1>1, <1>2, <1>8, <2>2, <1>10 DEF Arms
    <3> QED BY <3>1, <1>2, <1>5, <2>2 DEF CountersTellRuns, FsmReset
  <2>3. CASE ~active /\ Wrapping(d.recovery) < machineCfg.recovery
    <3>2. d'.state = "RECOVERING" /\ d'.recovery = Wrapping(d.recovery)
      BY <1>1, <1>2, <1>8, <2>3, <1>10 DEF Arms
    <3>3. d.recovery < CounterMax
      BY <1>1, <1>8, CounterMaxAssumption DEF MachineInv, CountersTellRuns, Counters
    <3>4. Wrapping(d.recovery) = d.recovery + 1 /\ Longer(quiet) = quiet + 1
      BY <3>3, <2>0, <1>1, <1>3, CounterSteps, HorizonAssumption, CounterMaxAssumption DEF Counters
    <3> QED BY <3>2, <3>4, <2>0, <2>3, <1>1, <1>2, <1>5 DEF CountersTellRuns
  <2>4. /\ Wrapping(d.recovery) \in Nat /\ machineCfg.recovery \in Nat
    BY <1>1, CounterSteps, CounterMaxAssumption DEF Counters
  <2> QED BY <2>1, <2>2, <2>3, <2>4
<1>9. CASE d.state = "LATCHED"
  <2>2. d'.state = "LATCHED" /\ d'.recovery = IF active THEN 0 ELSE Saturating(d.recovery)
    BY <1>1, <1>2, <1>9, <1>10 DEF Arms
  <2>3. d.recovery = IF quiet > CounterMax THEN CounterMax ELSE quiet
    BY <1>9 DEF MachineInv, CountersTellRuns
  <2>4. Saturating(d.recovery) = IF Longer(quiet) > CounterMax THEN CounterMax ELSE Longer(quiet)
    BY <2>3, <1>1, HorizonAssumption, CounterMaxAssumption DEF Saturating, Longer, Counters
  <2>5. machineCfg.action \in LatchActions
    BY <1>9 DEF MachineInv, CountersTellRuns
  <2>6. CounterMax \in Nat
    BY CounterMaxAssumption
  <2> QED BY <2>2, <2>4, <2>5, <2>6, <1>1, <1>2, <1>5 DEF CountersTellRuns
<1> QED BY <1>1, <1>6, <1>7, <1>8, <1>9 DEF FaultStates, ActiveStates

\* A tick and a clear keep the invariant.
LEMMA NextMachineInv == MachineInv /\ [MachineNext]_machineVars => MachineInv'
<1> SUFFICES ASSUME MachineInv, [MachineNext]_machineVars PROVE MachineInv'
  OBVIOUS
<1>1. MachineTypeOK'
  BY NextMachineTyped DEF MachineInv
<1>2. CASE \E active \in BOOLEAN : Tick(active)
  BY <1>1, <1>2, TickCounters DEF MachineInv
<1>3. CASE ClearFault
  <2>1. machineCfg' = machineCfg /\ hot' = hot /\ quiet' = quiet /\ (d' = d \/ d' = FsmReset)
    BY <1>3 DEF ClearFault
  <2>2. hot \in Nat /\ quiet \in Nat
    BY HorizonAssumption DEF MachineInv, MachineTypeOK
  <2>3. CASE d' = d
    BY <1>1, <2>1, <2>3 DEF MachineInv, CountersTellRuns
  <2>4. CASE d' = FsmReset
    BY <1>1, <2>1, <2>2, <2>4 DEF MachineInv, CountersTellRuns, FsmReset
  <2> QED BY <2>1, <2>3, <2>4
<1>4. CASE UNCHANGED machineVars
  BY <1>1, <1>4 DEF MachineInv, CountersTellRuns, machineVars
<1> QED BY <1>2, <1>3, <1>4 DEF MachineNext

\* So it holds always.
LEMMA SpecMachineInv == MachineSpec => []MachineInv
<1>1. MachineInit => MachineInv
  BY InitMachineInv
<1>2. MachineInv /\ [MachineNext]_machineVars => MachineInv'
  BY NextMachineInv
<1> QED BY <1>1, <1>2, PTL DEF MachineSpec

\* The ranges of the record and its counters hold in every reachable state:
\* no uint16_t counter of a detector ever wraps into a wrong count.
THEOREM MachineTypeCorrect == MachineSpec => []MachineTypeOK
<1>1. MachineInv => MachineTypeOK
  BY DEF MachineInv
<1> QED BY <1>1, SpecMachineInv, PTL

\* In every reachable state the counters tell the runs of active and quiet
\* ticks they are meant to count.
THEOREM CountersCorrect == MachineSpec => []CountersTellRuns
<1>1. MachineInv => CountersTellRuns
  BY DEF MachineInv
<1> QED BY <1>1, SpecMachineInv, PTL

-----------------------------------------------------------------------------
\* What every tick of a reachable detector knows about its operands.
LEMMA TickFacts ==
  ASSUME MachineInv, NEW active \in BOOLEAN, Tick(active)
  PROVE  /\ Arms(d, active, machineCfg, d')
         /\ ActionToState(machineCfg) \in ActiveStates
         /\ machineCfg.persist \in Counters /\ machineCfg.recovery \in Counters
         /\ d.persist \in Counters /\ d.recovery \in Counters
         /\ Wrapping(d.persist) \in Counters /\ Wrapping(d.recovery) \in Counters
         /\ hot \in 0 .. Horizon /\ quiet \in 0 .. Horizon
<1>1. machineCfg \in FsmConfigs /\ d \in Fsms /\ hot \in 0 .. Horizon /\ quiet \in 0 .. Horizon
  BY MachineConfigsAssumption DEF MachineInv, MachineTypeOK
<1>2. /\ machineCfg.persist \in Counters /\ machineCfg.recovery \in Counters
      /\ d.persist \in Counters /\ d.recovery \in Counters
  BY <1>1 DEF FsmConfigs, Fsms, Counters
<1>3. Wrapping(d.persist) \in Counters /\ Wrapping(d.recovery) \in Counters
  BY <1>2, CounterSteps
<1>4. Arms(d, active, machineCfg, d')
  BY <1>1, FsmTickArms, ConfigFields DEF Tick
<1> QED BY <1>1, <1>2, <1>3, <1>4, TargetState, ConfigFields

\* A fault is raised only by persist_ticks active ticks in a row.
THEOREM RaiseNeedsPersistence == MachineSpec => RaisedOnlyByPersistence
<1>1. MachineInv /\ [MachineNext]_machineVars =>
        (d.state = "NORMAL" /\ d'.state # "NORMAL" => hot' >= machineCfg.persist /\ hot' > 0)
  <2> SUFFICES ASSUME MachineInv, [MachineNext]_machineVars, d.state = "NORMAL", d'.state # "NORMAL"
               PROVE  hot' >= machineCfg.persist /\ hot' > 0
    OBVIOUS
  <2>1. ASSUME NEW active \in BOOLEAN, Tick(active)
        PROVE  hot' >= machineCfg.persist /\ hot' > 0
    <3>1. active /\ Wrapping(d.persist) >= machineCfg.persist
      BY <2>1, TickFacts DEF Arms, Counters
    <3>2. /\ hot' = Longer(hot)
          /\ d.persist <= hot
          /\ d.persist = 0 \/ d.persist < machineCfg.persist
      BY <2>1, <3>1 DEF Tick, MachineInv, CountersTellRuns
    <3>3. /\ hot \in 0 .. Horizon /\ d.persist \in 0 .. CounterMax
          /\ Wrapping(d.persist) \in Nat /\ machineCfg.persist \in Nat
      BY <2>1, TickFacts, CounterMaxAssumption DEF Counters
    <3>4. /\ Longer(hot) \in Nat /\ Longer(hot) > 0
          /\ Longer(hot) >= Wrapping(d.persist)
      BY <3>2, <3>3, HorizonAssumption, CounterMaxAssumption DEF Longer, Wrapping
    <3> QED BY <3>1, <3>2, <3>3, <3>4
  <2>2. CASE ClearFault
    BY <2>2 DEF ClearFault, FsmReset
  <2>3. CASE UNCHANGED machineVars
    BY <2>3 DEF machineVars
  <2> QED BY <2>1, <2>2, <2>3 DEF MachineNext
<1> QED BY <1>1, SpecMachineInv, PTL DEF MachineSpec, RaisedOnlyByPersistence

\* A latched fault is left by an accepted clear command alone, after
\* recovery_ticks quiet ticks in a row.
THEOREM LatchHeld == MachineSpec => LatchHeldUntilQuiet
<1>1. MachineInv /\ [MachineNext]_machineVars =>
        (d.state = "LATCHED" /\ d'.state # "LATCHED" =>
           d' = FsmReset /\ event' = "COMMAND_APPLIED" /\ quiet >= machineCfg.recovery)
  <2> SUFFICES ASSUME MachineInv, [MachineNext]_machineVars, d.state = "LATCHED", d'.state # "LATCHED"
               PROVE  d' = FsmReset /\ event' = "COMMAND_APPLIED" /\ quiet >= machineCfg.recovery
    OBVIOUS
  <2>1. ASSUME NEW active \in BOOLEAN, Tick(active) PROVE FALSE
    BY <2>1, TickFacts DEF Arms
  <2>2. CASE ClearFault
    <3>1. ClearAllowed(d, machineCfg) /\ d' = FsmReset /\ status' = "OK"
      BY <2>2 DEF ClearFault
    <3>2. event' = "COMMAND_APPLIED"
      BY <2>2, <3>1 DEF ClearFault
    <3>3. d.recovery >= machineCfg.recovery
      BY <3>1 DEF ClearAllowed
    <3>4. d.recovery = IF quiet > CounterMax THEN CounterMax ELSE quiet
      BY DEF MachineInv, CountersTellRuns
    <3>5. machineCfg.recovery \in Nat /\ quiet \in Nat
      BY MachineConfigsAssumption, CounterMaxAssumption, HorizonAssumption DEF MachineInv, MachineTypeOK, FsmConfigs
    <3>6. quiet >= machineCfg.recovery
      BY <3>3, <3>4, <3>5, CounterMaxAssumption
    <3> QED BY <3>1, <3>2, <3>6
  <2>3. CASE UNCHANGED machineVars
    BY <2>3 DEF machineVars
  <2> QED BY <2>1, <2>2, <2>3 DEF MachineNext
<1> QED BY <1>1, SpecMachineInv, PTL DEF MachineSpec, LatchHeldUntilQuiet

\* A fault recovers by itself only out of RECOVERING, with the event that
\* says so, after more than recovery_ticks quiet ticks in a row.
THEOREM RecoveryNeedsQuiet == MachineSpec => RecoveredOnlyByQuiet
<1>1. MachineInv /\ [MachineNext]_machineVars =>
        (d.state \notin {"NORMAL", "LATCHED"} /\ d'.state = "NORMAL" =>
           d.state = "RECOVERING" /\ event' = "FAULT_CLEAR" /\ quiet' > machineCfg.recovery)
  <2> SUFFICES ASSUME MachineInv, [MachineNext]_machineVars, d.state \notin {"NORMAL", "LATCHED"}, d'.state = "NORMAL"
               PROVE  d.state = "RECOVERING" /\ event' = "FAULT_CLEAR" /\ quiet' > machineCfg.recovery
    OBVIOUS
  <2>0. d.state \in {"DEGRADED", "CRITICAL", "RECOVERING"}
    BY DEF MachineInv, MachineTypeOK, Fsms, FaultStates, ActiveStates
  <2>1. ASSUME NEW active \in BOOLEAN, Tick(active)
        PROVE  d.state = "RECOVERING" /\ event' = "FAULT_CLEAR" /\ quiet' > machineCfg.recovery
    <3>1. d.state = "RECOVERING" /\ ~active /\ Wrapping(d.recovery) >= machineCfg.recovery
      BY <2>0, <2>1, TickFacts DEF Arms, ActiveStates, Counters
    <3>2. event' = "FAULT_CLEAR"
      <4>1. event' = TransitionEvent("RECOVERING", "NORMAL")
        BY <2>1, <3>1 DEF Tick
      <4> QED BY <4>1 DEF TransitionEvent, ActiveStates
    <3>3. quiet' = Longer(quiet) /\ quiet = d.recovery + 1 /\ (d.recovery = 0 \/ d.recovery < machineCfg.recovery)
      BY <2>1, <3>1 DEF Tick, MachineInv, CountersTellRuns
    <3>4. quiet' > machineCfg.recovery
      BY <2>1, <3>1, <3>3, TickFacts, HorizonAssumption, CounterMaxAssumption DEF Longer, Wrapping, Counters
    <3> QED BY <3>1, <3>2, <3>4
  <2>2. CASE ClearFault
    BY <2>0, <2>2 DEF ClearFault, ClearAllowed
  <2>3. CASE UNCHANGED machineVars
    BY <2>3 DEF machineVars
  <2> QED BY <2>1, <2>2, <2>3 DEF MachineNext
<1> QED BY <1>1, SpecMachineInv, PTL DEF MachineSpec, RecoveredOnlyByQuiet

-----------------------------------------------------------------------------
(* The actuator path.  The inductive invariant is the type invariant,        *)
(* DutyLegal, that the counter of the state the fan is in tells how long it *)
(* has been in it, and that a spin-up window is no longer than the          *)
(* configured one.  What a tick does is split as the code is: dwell, boost, *)
(* slew, clamp.                                                             *)

\* The counter in use is the true length of the run, the other one is 0.
RunsCounted ==
  /\ duty > 0 => onTicks = lasted /\ offTicks = 0
  /\ duty = 0 => offTicks = lasted /\ onTicks = 0

\* A window is only open on an actuator that has one.
WindowConfigured == spinup <= cfg.spinupTicks

PathInv == TypeOK /\ DutyLegal /\ RunsCounted /\ WindowConfigured

-----------------------------------------------------------------------------
\* The numbers a legal configuration is made of.
LEMMA CfgNumbers ==
  ASSUME TypeOK
  PROVE  /\ MaxPwm \in Nat /\ MaxTicks \in Nat \ {0}
         /\ cfg.pwmMin \in 0 .. MaxPwm /\ cfg.pwmMax \in 0 .. MaxPwm
         /\ cfg.pwmMin <= cfg.pwmMax
         /\ cfg.slew \in 0 .. MaxPwm /\ cfg.spinupPwm \in 0 .. MaxPwm
         /\ cfg.minOn \in 0 .. MaxTicks /\ cfg.minOff \in 0 .. MaxTicks
         /\ cfg.spinupTicks \in 0 .. MaxTicks
         /\ cfg.spinupTicks > 0 =>
              /\ cfg.spinupPwm \in cfg.pwmMin .. cfg.pwmMax
              /\ cfg.spinupPwm # 0
BY PwmAssumption, ConfigsAssumption DEF TypeOK, ConfigLegal

\* Dwell only ever asks for the request, for the last duty or for nothing.
LEMMA DwellFacts ==
  ASSUME PathInv, NEW req \in 0 .. MaxPwm, NEW safe \in BOOLEAN
  PROVE  /\ Dwell(req, safe) \in 0 .. MaxPwm
         /\ safe => Dwell(req, safe) = req
         /\ Dwell(req, safe) = 0 => req = 0 \/ duty = 0
         /\ ~safe /\ duty > 0 /\ onTicks < cfg.minOn => Dwell(req, safe) > 0
         /\ ~safe /\ duty = 0 /\ offTicks < cfg.minOff => Dwell(req, safe) = 0
         /\ req > 0 => Dwell(req, safe) \in {0, req}
<1>1. duty \in 0 .. MaxPwm /\ onTicks \in Nat /\ offTicks \in Nat
  BY CfgNumbers DEF PathInv, TypeOK
<1>2. cfg.minOn \in Nat /\ cfg.minOff \in Nat /\ MaxPwm \in Nat
  BY CfgNumbers DEF PathInv
<1>. QED BY <1>1, <1>2 DEF Dwell

\* The spin-up window and when it boosts.
LEMMA BoostFacts ==
  ASSUME PathInv, NEW held \in 0 .. MaxPwm
  PROVE  /\ Window(held) \in 0 .. cfg.spinupTicks
         /\ Boosted(held) \in BOOLEAN
         /\ Boosted(held) => /\ held > 0 /\ cfg.spinupPwm > held
                            /\ cfg.spinupPwm \in cfg.pwmMin .. cfg.pwmMax
<1>1. spinup \in 0 .. MaxTicks /\ spinup <= cfg.spinupTicks
  BY DEF PathInv, TypeOK, WindowConfigured
<1>2. cfg.spinupTicks \in 0 .. MaxTicks /\ MaxTicks \in Nat /\ MaxPwm \in Nat
  BY CfgNumbers DEF PathInv
<1>3. cfg.spinupPwm \in 0 .. MaxPwm BY CfgNumbers DEF PathInv
<1>4. Window(held) \in 0 .. cfg.spinupTicks /\ (held = 0 => Window(held) = 0)
  BY <1>1, <1>2 DEF Window
<1>5. Window(held) > 0 => cfg.spinupPwm \in cfg.pwmMin .. cfg.pwmMax
  BY <1>2, <1>4, CfgNumbers DEF PathInv
<1>. QED BY <1>2, <1>3, <1>4, <1>5 DEF Boosted

\* The slew limiter moves from the last duty towards the target, never past
\* it, by at most slew_per_tick unless upwards under an override.
LEMMA SlewFacts ==
  ASSUME PathInv, NEW target \in 0 .. MaxPwm, NEW up \in BOOLEAN
  PROVE  /\ Slew(target, up) \in 0 .. MaxPwm
         /\ up => Slew(target, up) >= target
         /\ cfg.slew > 0 => duty - Slew(target, up) <= cfg.slew
         /\ \/ cfg.slew = 0 \/ Slew(target, up) - duty <= cfg.slew
            \/ up /\ Slew(target, up) = target
         /\ Slew(target, up) <= target \/ Slew(target, up) <= duty
         /\ target > 0 /\ Slew(target, up) = 0 => FALSE
         /\ target = 0 /\ duty = 0 => Slew(target, up) = 0
<1>1. duty \in 0 .. MaxPwm BY CfgNumbers DEF PathInv, TypeOK
<1>2. cfg.slew \in 0 .. MaxPwm /\ MaxPwm \in Nat BY CfgNumbers DEF PathInv
<1>. QED BY <1>1, <1>2 DEF Slew

\* The final clamp.
LEMMA ClampFacts ==
  ASSUME PathInv, NEW pwm \in 0 .. MaxPwm, NEW off \in BOOLEAN
  PROVE  /\ Clamp(pwm, off) \in 0 .. cfg.pwmMax
         /\ pwm = 0 => Clamp(pwm, off) = 0
         /\ ~off /\ pwm > 0 => Clamp(pwm, off) >= cfg.pwmMin
         /\ Clamp(pwm, off) >= pwm \/ Clamp(pwm, off) = cfg.pwmMax
         /\ Clamp(pwm, off) <= pwm \/ Clamp(pwm, off) = cfg.pwmMin
         /\ ~off /\ pwm > 0 /\ cfg.pwmMax > 0 => Clamp(pwm, off) > 0
<1>1. cfg.pwmMin \in 0 .. MaxPwm /\ cfg.pwmMax \in 0 .. MaxPwm /\ MaxPwm \in Nat
      /\ cfg.pwmMin <= cfg.pwmMax
  BY CfgNumbers DEF PathInv
<1>. QED BY <1>1 DEF Clamp

-----------------------------------------------------------------------------
\* Every action is a tick of step 10 on some request.
LEMMA NextDrives ==
  ASSUME TypeOK, Next
  PROVE  \E req \in 0 .. MaxPwm, safe \in BOOLEAN : Drive(req, safe)
<1>1. cfg.pwmMax \in 0 .. MaxPwm BY CfgNumbers
<1>. QED BY <1>1 DEF Next, Normal, Critical, ForcedMax

\* The duty a tick sends.
LEMMA DutyFacts ==
  ASSUME PathInv, NEW req \in 0 .. MaxPwm, NEW safe \in BOOLEAN, Drive(req, safe)
  PROVE  /\ duty' \in 0 .. cfg.pwmMax
         /\ duty' \in 1 .. cfg.pwmMin - 1 => req = 0
         /\ safe => duty' >= req \/ duty' = cfg.pwmMax
         /\ cfg.slew > 0 => duty - duty' <= cfg.slew
         /\ cfg.slew > 0 => \/ duty' - duty <= cfg.slew
                            \/ safe \/ duty' = cfg.spinupPwm \/ duty' = cfg.pwmMin
         /\ ~safe /\ duty > 0 /\ onTicks < cfg.minOn => duty' > 0
         /\ ~safe /\ duty = 0 /\ offTicks < cfg.minOff => duty' = 0
<1>. DEFINE held   == Dwell(req, safe)
            target == IF Boosted(held) THEN cfg.spinupPwm ELSE held
            up     == safe \/ Boosted(held)
            slewed == Slew(target, up)
<1>1. duty' = Clamp(slewed, target = 0) BY DEF Drive, NextDuty, Target
<1>2. /\ duty \in 0 .. cfg.pwmMax /\ MaxPwm \in Nat
      /\ cfg.pwmMin \in 0 .. MaxPwm /\ cfg.pwmMax \in 0 .. MaxPwm
      /\ cfg.pwmMin <= cfg.pwmMax
      /\ cfg.slew \in 0 .. MaxPwm /\ cfg.spinupPwm \in 0 .. MaxPwm
  BY CfgNumbers DEF PathInv, TypeOK
<1>3. held \in 0 .. MaxPwm BY DwellFacts
<1>4. /\ Boosted(held) \in BOOLEAN
      /\ Boosted(held) => /\ held > 0 /\ cfg.spinupPwm > held
                         /\ cfg.spinupPwm \in cfg.pwmMin .. cfg.pwmMax
  BY <1>3, BoostFacts
<1>5. target \in 0 .. MaxPwm /\ up \in BOOLEAN /\ target >= held
      /\ (target = 0 <=> held = 0)
  BY <1>2, <1>3, <1>4
<1>. HIDE DEF held, target, up
<1>6. slewed \in 0 .. MaxPwm BY <1>5, SlewFacts
<1>. HIDE DEF slewed
<1>7. duty' \in 0 .. cfg.pwmMax BY <1>1, <1>6, ClampFacts
<1>8. duty' \in 1 .. cfg.pwmMin - 1 => req = 0
  <2>1. SUFFICES ASSUME duty' \in 1 .. cfg.pwmMin - 1, req # 0 PROVE FALSE
    OBVIOUS
  <2>2. slewed # 0
    <3>1. duty' # 0 BY <1>2, <2>1
    <3>. QED BY <1>1, <1>6, <3>1, ClampFacts
  <2>3. target = 0
    <3>1. duty' < cfg.pwmMin /\ slewed > 0 BY <1>2, <1>6, <1>7, <2>1, <2>2
    <3>2. target # 0 => duty' >= cfg.pwmMin BY <1>1, <1>6, <3>1, ClampFacts
    <3>. QED BY <1>2, <1>7, <3>1, <3>2
  <2>4. duty = 0 BY <1>5, <2>1, <2>3, DwellFacts DEF held
  <2>. QED BY <1>5, <2>2, <2>3, <2>4, SlewFacts DEF slewed
<1>9. safe => duty' >= req \/ duty' = cfg.pwmMax
  <2>1. SUFFICES ASSUME safe PROVE duty' >= req \/ duty' = cfg.pwmMax
    OBVIOUS
  <2>2. held = req /\ up BY <2>1, DwellFacts DEF held, up
  <2>3. slewed >= target BY <1>5, <2>2, SlewFacts DEF slewed
  <2>4. duty' >= slewed \/ duty' = cfg.pwmMax BY <1>1, <1>6, ClampFacts
  <2>. QED BY <1>2, <1>3, <1>5, <1>6, <1>7, <2>2, <2>3, <2>4
<1>10. cfg.slew > 0 => duty - duty' <= cfg.slew
  <2>1. cfg.slew > 0 => duty - slewed <= cfg.slew BY <1>5, SlewFacts DEF slewed
  <2>2. duty' >= slewed \/ duty' = cfg.pwmMax BY <1>1, <1>6, ClampFacts
  <2>. QED BY <1>2, <1>6, <1>7, <2>1, <2>2
<1>11. cfg.slew > 0 => \/ duty' - duty <= cfg.slew
                       \/ safe \/ duty' = cfg.spinupPwm \/ duty' = cfg.pwmMin
  <2>1. SUFFICES ASSUME cfg.slew > 0, ~safe, duty' # cfg.pwmMin,
                        duty' - duty > cfg.slew
                 PROVE  duty' = cfg.spinupPwm
    BY <1>2, <1>7
  <2>2. duty' <= slewed BY <1>1, <1>6, <2>1, ClampFacts
  <2>3. slewed - duty > cfg.slew BY <1>2, <1>6, <1>7, <2>1, <2>2
  <2>4. up /\ slewed = target BY <1>2, <1>5, <2>1, <2>3, SlewFacts DEF slewed
  <2>5. Boosted(held) BY <2>1, <2>4 DEF up
  <2>6. slewed = cfg.spinupPwm BY <2>4, <2>5 DEF target
  <2>7. cfg.spinupPwm <= duty' \/ duty' = cfg.pwmMax
    BY <1>1, <1>6, <2>6, ClampFacts
  <2>. QED BY <1>2, <1>4, <1>6, <1>7, <2>2, <2>5, <2>6, <2>7
<1>12. ~safe /\ duty > 0 /\ onTicks < cfg.minOn => duty' > 0
  <2>1. SUFFICES ASSUME ~safe, duty > 0, onTicks < cfg.minOn PROVE duty' > 0
    OBVIOUS
  <2>2. held > 0 BY <2>1, DwellFacts DEF held
  <2>3. target # 0 BY <1>3, <1>5, <2>2
  <2>4. slewed > 0 BY <1>5, <1>6, <2>3, SlewFacts DEF slewed
  <2>. QED BY <1>1, <1>2, <1>6, <2>1, <2>3, <2>4, ClampFacts
<1>13. ~safe /\ duty = 0 /\ offTicks < cfg.minOff => duty' = 0
  <2>1. SUFFICES ASSUME ~safe, duty = 0, offTicks < cfg.minOff PROVE duty' = 0
    OBVIOUS
  <2>2. held = 0 BY <2>1, DwellFacts DEF held
  <2>3. slewed = 0 BY <1>5, <2>1, <2>2, SlewFacts DEF slewed
  <2>. QED BY <1>1, <2>3, <1>6, ClampFacts
<1>. QED BY <1>7, <1>8, <1>9, <1>10, <1>11, <1>12, <1>13

\* The counters a tick leaves.
LEMMA CounterFacts ==
  ASSUME PathInv, NEW req \in 0 .. MaxPwm, NEW safe \in BOOLEAN, Drive(req, safe)
  PROVE  /\ {onTicks, offTicks, spinup, lasted}' \subseteq 0 .. MaxTicks
         /\ RunsCounted' /\ WindowConfigured'
<1>1. /\ onTicks \in 0 .. MaxTicks /\ offTicks \in 0 .. MaxTicks
      /\ lasted \in 0 .. MaxTicks /\ MaxTicks \in Nat \ {0}
      /\ duty \in Nat /\ cfg.spinupTicks \in 0 .. MaxTicks
  BY CfgNumbers DEF PathInv, TypeOK
<1>2. duty' \in Nat
  <2>1. duty' \in 0 .. cfg.pwmMax /\ cfg.pwmMax \in 0 .. MaxPwm
    BY DutyFacts, CfgNumbers DEF PathInv
  <2>. QED BY <2>1
<1>3. onTicks' = Run(onTicks, duty' > 0) /\ offTicks' = Run(offTicks, duty' = 0)
  BY DEF Drive
<1>4. lasted' = IF (duty' > 0) # (duty > 0) THEN 1
                ELSE IF lasted < MaxTicks THEN lasted + 1 ELSE lasted
  BY DEF Drive
<1>5. spinup' \in 0 .. cfg.spinupTicks /\ cfg' = cfg
  <2>1. Window(Dwell(req, safe)) \in 0 .. cfg.spinupTicks
    BY DwellFacts, BoostFacts
  <2>. QED BY <1>1, <2>1 DEF Drive, NextSpinup
<1>6. RunsCounted BY DEF PathInv
<1>7. {onTicks, offTicks, lasted}' \subseteq 0 .. MaxTicks
  BY <1>1, <1>3, <1>4 DEF Run
<1>8. RunsCounted'
  <2>1. CASE duty' > 0
    BY <1>1, <1>2, <1>3, <1>4, <1>6, <2>1 DEF Run, RunsCounted
  <2>2. CASE duty' = 0
    BY <1>1, <1>2, <1>3, <1>4, <1>6, <2>2 DEF Run, RunsCounted
  <2>. QED BY <1>2, <2>1, <2>2
<1>. QED BY <1>1, <1>5, <1>7, <1>8 DEF WindowConfigured

-----------------------------------------------------------------------------
\* Actuators start at rest.
LEMMA InitPathInv == Init => PathInv
<1>. SUFFICES ASSUME Init PROVE PathInv
  OBVIOUS
<1>1. ConfigLegal(cfg) BY ConfigsAssumption DEF Init
<1>2. /\ cfg.pwmMax \in 0 .. MaxPwm /\ cfg.minOff \in 0 .. MaxTicks
      /\ cfg.spinupTicks \in 0 .. MaxTicks /\ MaxPwm \in Nat /\ MaxTicks \in Nat
  BY <1>1, PwmAssumption DEF ConfigLegal
<1>3. TypeOK
  <2>1. cfg \in Configs /\ request = 0 /\ override = FALSE BY DEF Init
  <2>2. duty \in 0 .. cfg.pwmMax BY <1>2 DEF Init
  <2>3. {onTicks, offTicks, spinup, lasted} \subseteq 0 .. MaxTicks
    BY <1>2 DEF Init
  <2>4. request \in 0 .. MaxPwm BY <1>2, <2>1
  <2>. QED BY <2>1, <2>2, <2>3, <2>4 DEF TypeOK
<1>4. RunsCounted /\ WindowConfigured
  BY <1>2 DEF Init, RunsCounted, WindowConfigured
<1>5. DutyLegal BY DEF Init, DutyLegal
<1>. QED BY <1>3, <1>4, <1>5 DEF PathInv

\* Every step keeps the invariant.
LEMMA NextPathInv == PathInv /\ [Next]_vars => PathInv'
<1>. SUFFICES ASSUME PathInv, [Next]_vars PROVE PathInv'
  OBVIOUS
<1>1. CASE Next
  <2>1. PICK req \in 0 .. MaxPwm, safe \in BOOLEAN : Drive(req, safe)
    BY <1>1, NextDrives DEF PathInv
  <2>2. cfg' = cfg /\ request' = req /\ override' = safe BY <2>1 DEF Drive
  <2>3. DutyLegal' BY <2>1, <2>2, DutyFacts DEF DutyLegal
  <2>4. TypeOK'
    <3>1. duty' \in 0 .. cfg'.pwmMax BY <2>1, <2>2, DutyFacts
    <3>2. {onTicks, offTicks, spinup, lasted}' \subseteq 0 .. MaxTicks
      BY <2>1, CounterFacts
    <3>. QED BY <2>2, <3>1, <3>2 DEF PathInv, TypeOK
  <2>. QED BY <2>1, <2>3, <2>4, CounterFacts DEF PathInv
<1>2. CASE UNCHANGED vars
  BY <1>2 DEF vars, PathInv, TypeOK, DutyLegal, RunsCounted, WindowConfigured
<1>. QED BY <1>1, <1>2

\* So it holds always.
LEMMA SpecPathInv == Spec => []PathInv
BY InitPathInv, NextPathInv, PTL DEF Spec

\* Every variable stays in its range; the duty never exceeds pwm_max.
THEOREM PathTypeCorrect == Spec => []TypeOK
<1>1. PathInv => TypeOK BY DEF PathInv
<1>. QED BY <1>1, SpecPathInv, PTL

\* Whatever mixture of requests, dwells, boosts and overrides: the duty sent
\* is off or within bounds, or the fan is on its way to off.
THEOREM DutyAlwaysLegal == Spec => []DutyLegal
<1>1. PathInv => DutyLegal BY DEF PathInv
<1>. QED BY <1>1, SpecPathInv, PTL

\* A safety override is in force on the tick it is raised.
THEOREM OverrideIsImmediate == Spec => OverrideCools
<1>1. PathInv /\ [Next]_vars => [override' => duty' >= request' \/ duty' = cfg.pwmMax]_vars
  <2>. SUFFICES ASSUME PathInv, Next
                PROVE  override' => duty' >= request' \/ duty' = cfg.pwmMax
    OBVIOUS
  <2>1. PICK req \in 0 .. MaxPwm, safe \in BOOLEAN : Drive(req, safe)
    BY NextDrives DEF PathInv
  <2>. QED BY <2>1, DutyFacts DEF Drive
<1>. QED BY <1>1, SpecPathInv, PTL DEF Spec, OverrideCools

\* The duty falls by at most slew_per_tick and rises by more only where the
\* code means it to.
THEOREM SlewIsHeld == Spec => SlewHeld
<1>. DEFINE Gentle ==
       cfg.slew > 0 =>
         /\ duty - duty' <= cfg.slew
         /\ \/ duty' - duty <= cfg.slew
            \/ override' \/ duty' = cfg.spinupPwm \/ duty' = cfg.pwmMin
<1>1. PathInv /\ [Next]_vars => [Gentle]_vars
  <2>. SUFFICES ASSUME PathInv, Next PROVE Gentle
    OBVIOUS
  <2>1. PICK req \in 0 .. MaxPwm, safe \in BOOLEAN : Drive(req, safe)
    BY NextDrives DEF PathInv
  <2>. QED BY <2>1, DutyFacts DEF Drive
<1>. QED BY <1>1, SpecPathInv, PTL DEF Spec, SlewHeld

\* The fan switches only after the dwell of the state it is in.
THEOREM DwellIsHeld == Spec => DwellHeld
<1>. DEFINE Patient ==
       /\ duty > 0 /\ duty' = 0 => override' \/ lasted >= cfg.minOn
       /\ duty = 0 /\ duty' > 0 => override' \/ lasted >= cfg.minOff
<1>1. PathInv /\ [Next]_vars => [Patient]_vars
  <2>. SUFFICES ASSUME PathInv, Next PROVE Patient
    OBVIOUS
  <2>1. PICK req \in 0 .. MaxPwm, safe \in BOOLEAN : Drive(req, safe)
    BY NextDrives DEF PathInv
  <2>2. /\ ~safe /\ duty > 0 /\ onTicks < cfg.minOn => duty' > 0
        /\ ~safe /\ duty = 0 /\ offTicks < cfg.minOff => duty' = 0
    BY <2>1, DutyFacts
  <2>3. override' = safe BY <2>1 DEF Drive
  <2>4. lasted \in Nat /\ cfg.minOn \in Nat /\ cfg.minOff \in Nat /\ duty' \in Nat
    <3>1. duty' \in 0 .. cfg.pwmMax /\ cfg.pwmMax \in 0 .. MaxPwm
      BY <2>1, DutyFacts, CfgNumbers DEF PathInv
    <3>. QED BY <3>1, CfgNumbers DEF PathInv, TypeOK
  <2>5. RunsCounted BY DEF PathInv
  <2>. QED BY <2>2, <2>3, <2>4, <2>5 DEF RunsCounted
<1>. QED BY <1>1, SpecPathInv, PTL DEF Spec, DwellHeld

-----------------------------------------------------------------------------
(* The composed core.  Each detector's step leaves the state of the others   *)
(* alone, and the fan of the stall detector is driven by step 10 only.       *)

\* thermal_core_init resets every detector, the enabled one and the others.
LEMMA InitImplements == DetectorsInit => MachineInit /\ StuckInit /\ RunInit /\ Init
BY DEF DetectorsInit, FanInit

\* Steps 9 and 10 of one fan are a step of the actuator path: the stall fault
\* forces the maximum or leaves the request alone.
LEMMA FanTickDrives ==
  ASSUME NEW req \in 0 .. MaxPwm, NEW safe \in BOOLEAN, NEW sample, FanTick(req, safe, sample)
  PROVE  Next
<1>1. ForcedMax \/ Drive(req, safe)
  BY DEF FanTick
<1>2. CASE ForcedMax
  BY <1>2 DEF Next
<1>3. CASE Drive(req, safe)
  <2>1. CASE safe
    <3>1. Critical(req)
      BY <1>3, <2>1 DEF Critical
    <3> QED BY <3>1 DEF Next
  <2>2. CASE ~safe
    <3>1. Normal(req)
      BY <1>3, <2>2 DEF Normal
    <3> QED BY <3>1 DEF Next
  <2> QED BY <2>1, <2>2
<1> QED BY <1>1, <1>2, <1>3

\* A step of the core is, for each detector, a step of its own or none.
LEMMA StepImplements ==
  ASSUME [DetectorsNext]_detectorVars
  PROVE  /\ [MachineNext]_machineVars /\ [StuckNext]_stuckVars
         /\ [RunNext]_runVars /\ [Next]_vars
<1>1. CASE MachineTicks \/ MachineClear
  <2>1. MachineNext /\ UNCHANGED <<stuckVars, runVars, fanVars>>
    BY <1>1 DEF MachineTicks, MachineClear, Machine, MachineNext
  <2> QED BY <2>1 DEF fanVars
<1>2. CASE SensorTicks \/ SensorClear
  <2>1. StuckNext /\ UNCHANGED <<machineVars, runVars, fanVars>>
    BY <1>2 DEF SensorTicks, SensorClear, Sensor, StuckNext
  <2> QED BY <2>1 DEF fanVars
<1>3. CASE ZoneStep
  <2>1. RunNext /\ UNCHANGED <<machineVars, stuckVars, fanVars>>
    BY <1>3 DEF ZoneStep, Zone
  <2> QED BY <2>1 DEF fanVars
<1>4. CASE StallTicks \/ StallClear \/ FanChanges
  <2>1. UNCHANGED <<machineVars, stuckVars, runVars>>
    BY <1>4 DEF StallTicks, StallClear, FanChanges, Fan
  <2>2. Next \/ UNCHANGED vars
    BY <1>4, FanTickDrives DEF StallTicks, StallClear, FanChanges, Fan, FanTicks, ClearStall, Break, Repair
  <2> QED BY <2>1, <2>2
<1>5. CASE SteadyTicks
  BY <1>5 DEF SteadyTicks, Health, fanVars
<1>6. CASE UNCHANGED detectorVars
  BY <1>6 DEF detectorVars, fanVars
<1> QED BY <1>1, <1>2, <1>3, <1>4, <1>5, <1>6 DEF DetectorsNext

\* The core with its detectors implements the specification of each of them and
\* that of the actuator path.
THEOREM DetectorsImplement == DetectorsSpec => MachineSpec /\ StuckSpec /\ RunSpec /\ Spec
<1>1. DetectorsInit => MachineInit /\ StuckInit /\ RunInit /\ Init
  BY InitImplements
<1>2. [DetectorsNext]_detectorVars =>
        [MachineNext]_machineVars /\ [StuckNext]_stuckVars /\ [RunNext]_runVars /\ [Next]_vars
  BY StepImplements
<1> QED BY <1>1, <1>2, PTL DEF DetectorsSpec, MachineSpec, StuckSpec, RunSpec, Spec

-----------------------------------------------------------------------------
(* The runaway detector.  The ring holds the samples since the last reset,   *)
(* at their slots: that is what makes the condition, which compares slots,  *)
(* a statement about the samples.  The ticks counted for the escalation are *)
(* at most those the condition has lasted.                                  *)

\* What the ring keeps of a sample.
Sample(s) == [temp |-> s.temp, pwm |-> RepPwm(s.request)]

Samples == [temp : Temps, request : Requests]

\* Reduction of a number below 2 * n to one below n.
Wrapped(x, n) == IF x < n THEN x ELSE x - n

\* The slot of the i-th of the samples, oldest first.
SlotOf(n, h, full, i) == IF full THEN Wrapped(h + i - 1, n) ELSE i - 1

\* The ring r of n slots, next to be written at h, holds the samples p.
Holds(n, h, full, r, p) ==
  /\ Len(p) = IF full THEN n ELSE h
  /\ \A i \in 1 .. Len(p) : r[SlotOf(n, h, full, i)] = Sample(p[i])

RunTyped ==
  /\ runCfg \in RunawayCfgs /\ runaway \in Fsms
  /\ head \in Slots /\ filled \in BOOLEAN
  /\ ring = [s \in Slots |-> ring[s]] /\ past \in Seq(Samples)
  /\ latchedTicks \in Counters /\ runHot \in Counters

RingHolds == Holds(runCfg.persist, head, filled, ring, past)

RunInv == RunTyped /\ RingHolds /\ latchedTicks <= runHot

\* Modulo is the reduction.
LEMMA WrappedMod ==
  ASSUME NEW n \in Nat \ {0}, NEW x \in 0 .. 2 * n - 1
  PROVE  x % n = Wrapped(x, n) /\ Wrapped(x, n) \in 0 .. n - 1
<1>1. x % n = IF x < n THEN x ELSE x - n
  OBVIOUS
<1>2. Wrapped(x, n) \in 0 .. n - 1
  BY DEF Wrapped
<1> QED BY <1>1, <1>2 DEF Wrapped

\* A sample written at the next slot becomes the newest of those held; a full
\* ring loses its oldest.
LEMMA HoldsNext ==
  ASSUME NEW n \in Nat \ {0}, NEW h \in 0 .. n - 1, NEW full \in BOOLEAN,
         NEW r, r = [s \in 0 .. n - 1 |-> r[s]],
         NEW p \in Seq(Samples), NEW s \in Samples, Holds(n, h, full, r, p)
  PROVE  LET longer == Append(p, s)
             next == (h + 1) % n
         IN  Holds(n, next, full \/ next = 0, [r EXCEPT ![h] = Sample(s)],
                   IF Len(longer) > n THEN Tail(longer) ELSE longer)
<1> DEFINE longer == Append(p, s)
           next == (h + 1) % n
           k == Len(p)
           new == [r EXCEPT ![h] = Sample(s)]
<1>1. next = (IF h + 1 < n THEN h + 1 ELSE 0) /\ next \in 0 .. n - 1
  <2>1. h + 1 \in 0 .. 2 * n - 1
    OBVIOUS
  <2>2. (h + 1) % n = Wrapped(h + 1, n)
    BY <2>1, WrappedMod
  <2> QED BY <2>2 DEF Wrapped
<1>2. k \in Nat /\ k = (IF full THEN n ELSE h) /\ \A i \in 1 .. k : r[SlotOf(n, h, full, i)] = Sample(p[i])
  BY DEF Holds
<1>3. /\ longer \in Seq(Samples) /\ Len(longer) = k + 1 /\ longer # <<>>
      /\ longer[k + 1] = s /\ \A i \in 1 .. k : longer[i] = p[i]
  OBVIOUS
<1>4. new[h] = Sample(s) /\ \A j \in 0 .. n - 1 : j # h => new[j] = r[j]
  OBVIOUS
<1> HIDE DEF next, k, longer, new
<1>5. CASE ~ full
  <2>1. Len(longer) = h + 1 /\ ~ (Len(longer) > n) /\ k = h
    BY <1>2, <1>3, <1>5
  <2>2. Len(longer) = IF full \/ next = 0 THEN n ELSE next
    BY <1>1, <1>5, <2>1
  <2>3. ASSUME NEW i \in 1 .. h + 1 PROVE new[SlotOf(n, next, full \/ next = 0, i)] = Sample(longer[i])
    <3>1. SlotOf(n, next, full \/ next = 0, i) = i - 1
      BY <1>1, <1>5 DEF SlotOf, Wrapped
    <3>2. CASE i = h + 1
      BY <1>3, <1>4, <2>1, <3>1, <3>2
    <3>3. CASE i # h + 1
      <4>1. i \in 1 .. k /\ i - 1 \in 0 .. n - 1 /\ i - 1 # h
        BY <2>1, <3>3
      <4>2. r[i - 1] = Sample(p[i])
        BY <1>2, <1>5, <4>1 DEF SlotOf
      <4> QED BY <1>3, <1>4, <3>1, <4>1, <4>2
    <3> QED BY <3>2, <3>3
  <2>4. Holds(n, next, full \/ next = 0, new, longer)
    BY <2>1, <2>2, <2>3 DEF Holds
  <2> QED BY <2>1, <2>4 DEF next, longer, new
<1>6. CASE full
  <2> DEFINE q == Tail(longer)
  <2>1. Len(longer) = n + 1 /\ Len(longer) > n /\ k = n
    BY <1>2, <1>3, <1>6
  <2>2. Len(q) = n /\ \A i \in 1 .. n : q[i] = longer[i + 1]
    BY <1>3, <2>1
  <2> HIDE DEF q
  <2>3. ASSUME NEW i \in 1 .. n PROVE new[SlotOf(n, next, TRUE, i)] = Sample(q[i])
    <3>1. CASE i = n
      <4>1. SlotOf(n, next, TRUE, i) = h
        BY <1>1, <3>1 DEF SlotOf, Wrapped
      <4> QED BY <1>3, <1>4, <2>1, <2>2, <3>1, <4>1
    <3>2. CASE i # n
      <4> DEFINE j == Wrapped(h + i, n)
      <4>1. SlotOf(n, next, TRUE, i) = j /\ SlotOf(n, h, TRUE, i + 1) = j
        <5>1. h + (i + 1) - 1 = h + i
          OBVIOUS
        <5>2. SlotOf(n, h, TRUE, i + 1) = j
          BY <5>1 DEF SlotOf
        <5>3. Wrapped(next + i - 1, n) = Wrapped(h + i, n)
          <6>1. CASE h + 1 < n
            BY <1>1, <6>1 DEF Wrapped
          <6>2. CASE ~ (h + 1 < n)
            BY <1>1, <3>2, <6>2 DEF Wrapped
          <6> QED BY <6>1, <6>2
        <5> QED BY <5>2, <5>3 DEF SlotOf
      <4>2. j \in 0 .. n - 1 /\ j # h
        BY <3>2 DEF Wrapped
      <4>3. i + 1 \in 1 .. k
        BY <2>1, <3>2
      <4>4. r[j] = Sample(p[i + 1])
        BY <1>2, <1>6, <4>1, <4>3
      <4> HIDE DEF j
      <4> QED BY <1>3, <1>4, <2>2, <4>1, <4>2, <4>3, <4>4
    <3> QED BY <3>1, <3>2
  <2>4. Holds(n, next, full \/ next = 0, new, q)
    BY <1>6, <2>2, <2>3 DEF Holds
  <2> QED BY <2>1, <2>4 DEF next, longer, new, q
<1> QED BY <1>5, <1>6

\* The fields of the configuration, and what the shared machine is given.
LEMMA RunCfgFields ==
  ASSUME NEW c \in RunawayCfgs
  PROVE  /\ c.persist \in Nat \ {0} /\ c.recovery \in Counters
         /\ FsmFields([c EXCEPT !.persist = 1]) /\ [c EXCEPT !.persist = 1].persist = 1
BY RunawayAssumption, CounterMaxAssumption DEF FsmFields, Counters

\* The actuator asked most of a zone is one of the zone's.
LEMMA RepIsAsked ==
  ASSUME NEW req \in Requests
  PROVE  \E a \in DOMAIN req : RepPwm(req) = req[a]
<1> DEFINE S == {req[a] : a \in DOMAIN req}
<1>1. S \in SUBSET (0 .. 255) /\ S # {}
  BY RequestsAssumption
<1>2. Max(S) \in S
  <2> HIDE DEF S
  <2> QED BY <1>1, MaxOfBounded, ZenonT(60)
<1> QED BY <1>2 DEF RepPwm

\* A reset detector has an empty window, a machine in NORMAL and nothing latched.
LEMMA InitRunInv == RunInit => RunInv
<1> SUFFICES ASSUME RunInit PROVE RunInv
  OBVIOUS
<1>1. runCfg \in RunawayCfgs /\ runCfg.persist \in Nat \ {0}
  BY RunCfgFields DEF RunInit
<1>2. 0 \in Slots /\ 0 \in Counters /\ FsmReset \in Fsms
  BY <1>1, CounterMaxAssumption DEF Slots, Counters, FsmReset, Fsms, FaultStates
<1>3. ring = [s \in Slots |-> ring[s]]
  BY DEF RunInit, Zeros
<1>4. <<>> \in Seq(Samples) /\ Len(<<>>) = 0
  OBVIOUS
<1>5. RunTyped
  BY <1>1, <1>2, <1>3, <1>4, Zenon DEF RunInit, RunTyped
<1>6. RingHolds
  BY <1>4 DEF RunInit, RingHolds, Holds
<1> QED BY <1>5, <1>6 DEF RunInit, RunInv

\* One tick: the ring keeps holding the samples, the machine and the counters
\* move with the condition of the ring.
LEMMA RunTickFacts ==
  ASSUME RunInv, NEW temp \in Temps, NEW req \in Requests, RunTick(temp, req)
  PROVE  /\ RunInv'
         /\ \E active \in BOOLEAN :
              /\ active = Condition(ring', head', filled')
              /\ Arms(runaway, active, [runCfg EXCEPT !.persist = 1], runaway')
              /\ runHot' = IF active THEN Saturating(runHot) ELSE 0
              /\ runaway'.state = "LATCHED" /\ runaway'.recovery = 0 => active
<1> DEFINE n == runCfg.persist
           new == [temp |-> temp, request |-> req]
           next == (head + 1) % n
           full == filled \/ next = 0
           r == [ring EXCEPT ![head] = [temp |-> temp, pwm |-> RepPwm(req)]]
           longer == Append(past, new)
           kept == IF Len(longer) > n THEN Tail(longer) ELSE longer
           active == Condition(r, next, full)
           c == [runCfg EXCEPT !.persist = 1]
<1>1. /\ runCfg \in RunawayCfgs /\ runaway \in Fsms /\ head \in 0 .. n - 1 /\ filled \in BOOLEAN
      /\ ring = [s \in 0 .. n - 1 |-> ring[s]] /\ past \in Seq(Samples)
      /\ latchedTicks \in Counters /\ runHot \in Counters /\ latchedTicks <= runHot
      /\ Holds(n, head, filled, ring, past) /\ n \in Nat \ {0} /\ runCfg' = runCfg
  BY RunCfgFields DEF RunInv, RunTyped, RingHolds, Slots, RunTick
<1>2. /\ ring' = r /\ head' = next /\ filled' = full /\ runaway' = RunawayFsm(active)
      /\ latchedTicks' = LatchedTicks(runaway')
      /\ past' = kept /\ runHot' = IF active THEN Saturating(runHot) ELSE 0
  BY DEF RunTick
<1>3. new \in Samples /\ Sample(new) = [temp |-> temp, pwm |-> RepPwm(req)]
  BY DEF Samples, Sample
<1>4. Holds(n, next, full, r, kept)
  <2> HIDE DEF n, new
  <2> QED BY <1>1, <1>3, HoldsNext
<1>5. next \in 0 .. n - 1
  <2>1. head + 1 \in 0 .. 2 * n - 1
    BY <1>1
  <2> HIDE DEF n
  <2> QED BY <1>1, <2>1, WrappedMod
<1>6. kept \in Seq(Samples)
  BY <1>1, <1>3, SMTT(60)
<1>7. r = [s \in 0 .. n - 1 |-> r[s]]
  BY <1>1
<1>8. active \in BOOLEAN /\ full \in BOOLEAN
  <2>1. full \in BOOLEAN
    BY <1>1
  <2> HIDE DEF full, r, next
  <2> QED BY <2>1 DEF Condition
<1>9. FsmFields(c) /\ c.persist = 1
  BY <1>1, RunCfgFields
<1>10. runaway' \in Fsms /\ Arms(runaway, active, c, runaway')
  <2> HIDE DEF active, c
  <2>1. runaway' = FsmTick(runaway, active, c)
    BY <1>2 DEF RunawayFsm, c
  <2> QED BY <1>1, <1>8, <1>9, <2>1, FsmTickType, FsmTickArms
<1> HIDE DEF r, next, full, longer, kept, active, new
<1>11. runaway'.state = "LATCHED" /\ runaway'.recovery = 0 => active
  <2>1. SUFFICES ASSUME runaway'.state = "LATCHED", runaway'.recovery = 0, ~ active PROVE FALSE
    BY <1>8
  <2>2. runaway.state \in FaultStates /\ runaway.recovery \in Counters /\ runaway.persist \in Counters
    BY <1>1 DEF Fsms
  <2>3. runaway.state = "LATCHED"
    <3>1. Wrapping(runaway.recovery) \in Nat /\ c.recovery \in Nat
      BY <1>9, <2>2, CounterSteps, CounterMaxAssumption DEF FsmFields, Counters
    <3>2. Wrapping(runaway.recovery) >= c.recovery \/ Wrapping(runaway.recovery) < c.recovery
      BY <3>1
    <3> HIDE DEF c
    <3> QED BY <1>10, <2>1, <2>2, <3>2 DEF Arms, FaultStates, ActiveStates, FsmReset
  <2>4. 0 = Saturating(runaway.recovery)
    <3> HIDE DEF c
    <3> QED BY <1>10, <2>1, <2>3 DEF Arms
  <2> QED BY <2>2, <2>4, CounterMaxAssumption DEF Saturating, Counters
<1>12. latchedTicks' \in Counters /\ runHot' \in Counters /\ latchedTicks' <= runHot'
  <2>1. 0 \in Counters /\ Saturating(latchedTicks) \in Counters /\ Saturating(runHot) \in Counters
        /\ Saturating(latchedTicks) <= Saturating(runHot) /\ 0 <= Saturating(runHot) /\ 0 <= 0
    BY <1>1, CounterMaxAssumption DEF Counters, Saturating
  <2>2. CASE active
    <3>1. runHot' = Saturating(runHot) /\ latchedTicks' \in {0, Saturating(latchedTicks)}
      BY <1>2, <2>2 DEF LatchedTicks
    <3> QED BY <2>1, <3>1, Zenon
  <2>3. CASE ~ active
    <3>1. runHot' = 0 /\ latchedTicks' = 0
      BY <1>2, <1>11, <2>3 DEF LatchedTicks
    <3> QED BY <2>1, <3>1, Zenon
  <2> QED BY <1>8, <2>2, <2>3
<1>13. RunInv'
  <2>1. RunTyped'
    <3>1. Slots' = 0 .. n - 1
      BY <1>1 DEF Slots
    <3>2. head' \in Slots'
      BY <1>2, <1>5, <3>1
    <3>3. (ring = [s \in Slots |-> ring[s]])'
      BY <1>2, <1>7, <3>1
    <3>4. filled' \in BOOLEAN /\ past' \in Seq(Samples) /\ runCfg' \in RunawayCfgs
      BY <1>1, <1>2, <1>6, <1>8
    <3> QED BY <1>10, <1>12, <3>2, <3>3, <3>4 DEF RunTyped
  <2>2. RingHolds'
    BY <1>1, <1>2, <1>4 DEF RingHolds
  <2> QED BY <1>12, <2>1, <2>2 DEF RunInv
<1>14. Condition(ring', head', filled') = active
  BY <1>2 DEF active
<1> QED BY <1>2, <1>8, <1>10, <1>11, <1>13, <1>14

\* Ticks, clears and the loss of samples keep the invariant of the runaway detector.
LEMMA NextRunInv == RunInv /\ [RunNext]_runVars => RunInv'
<1> SUFFICES ASSUME RunInv, [RunNext]_runVars PROVE RunInv'
  OBVIOUS
<1>1. CASE \E temp \in Temps, req \in Requests : RunTick(temp, req)
  BY <1>1, RunTickFacts
<1>2. CASE ClearRunaway
  <2>1. /\ runCfg' = runCfg /\ runaway' = FsmReset /\ ring' = Zeros /\ head' = 0 /\ filled' = FALSE
        /\ latchedTicks' = 0 /\ past' = <<>> /\ runHot' = 0
    BY <1>2 DEF ClearRunaway, ClearedRing
  <2>2. runCfg \in RunawayCfgs /\ runCfg.persist \in Nat \ {0}
    BY RunCfgFields DEF RunInv, RunTyped
  <2>3. 0 \in 0 .. runCfg.persist - 1 /\ 0 \in Counters /\ FsmReset \in Fsms /\ 0 <= 0
    BY <2>2, CounterMaxAssumption DEF Counters, FsmReset, Fsms, FaultStates
  <2>4. <<>> \in Seq(Samples) /\ Len(<<>>) = 0
    OBVIOUS
  <2>5. Slots' = 0 .. runCfg.persist - 1 /\ (ring = [s \in Slots |-> ring[s]])'
    BY <2>1 DEF Slots, Zeros
  <2>6. RunTyped'
    <3>1. head' \in Slots' /\ filled' \in BOOLEAN /\ past' \in Seq(Samples) /\ runCfg' \in RunawayCfgs
      BY <2>1, <2>2, <2>3, <2>4, <2>5, Zenon
    <3>2. latchedTicks' \in Counters /\ runHot' \in Counters /\ runaway' \in Fsms
      BY <2>1, <2>3, Zenon
    <3> QED BY <2>5, <3>1, <3>2 DEF RunTyped
  <2>7. RingHolds' /\ latchedTicks' <= runHot'
    BY <2>1, <2>4 DEF RingHolds, Holds
  <2> QED BY <2>6, <2>7 DEF RunInv
<1>3. CASE UNCHANGED runVars
  BY <1>3 DEF runVars, RunInv, RunTyped, Slots, RingHolds
<1> QED BY <1>1, <1>2, <1>3 DEF RunNext

\* The runaway detector keeps its invariant in every behaviour.
LEMMA SpecRunInv == RunSpec => []RunInv
<1> QED BY InitRunInv, NextRunInv, PTL DEF RunSpec

\* A runaway fault is raised only on a rise across persist_ticks samples taken
\* since the last reset, during all of which an actuator of the zone was asked
\* for cooling_pwm_threshold: no empty slot, and none from before a clear, is
\* ever compared.
THEOREM RaiseNeedsRise == RunSpec => RaisedOnlyByRise
<1> DEFINE Rise == /\ Len(past') = runCfg.persist
                   /\ past'[runCfg.persist].temp - past'[1].temp >= runCfg.rise
                   /\ \A i \in 1 .. runCfg.persist : \E a \in DOMAIN past'[i].request :
                        past'[i].request[a] >= runCfg.coolingPwm
<1>1. RunInv /\ [RunNext]_runVars => (Raised => Rise)
  <2> SUFFICES ASSUME RunInv, [RunNext]_runVars, Raised PROVE Rise
    OBVIOUS
  <2>1. CASE \E temp \in Temps, req \in Requests : RunTick(temp, req)
    <3>1. PICK temp \in Temps, req \in Requests : RunTick(temp, req)
      BY <2>1
    <3>2. PICK active \in BOOLEAN :
            /\ active = Condition(ring', head', filled')
            /\ Arms(runaway, active, [runCfg EXCEPT !.persist = 1], runaway')
      BY <3>1, RunTickFacts
    <3>3. active
      BY <3>2 DEF Raised, Arms
    <3> DEFINE n == runCfg.persist
               p == past'
               h == head'
               r == ring'
    <3>4. /\ filled' /\ r[(h + n - 1) % n].temp - r[h].temp >= runCfg.rise
          /\ \A s \in 0 .. n - 1 : r[s].pwm >= runCfg.coolingPwm
      <4>1. runCfg' = runCfg
        BY <3>1 DEF RunTick
      <4> QED BY <3>2, <3>3, <4>1 DEF Condition, Slots
    <3>5. n \in Nat \ {0} /\ h \in 0 .. n - 1 /\ p \in Seq(Samples) /\ Holds(n, h, TRUE, r, p)
      <4>1. runCfg' = runCfg /\ RunInv'
        BY <3>1, RunTickFacts DEF RunTick
      <4> QED BY <3>4, <4>1, RunCfgFields DEF RunInv, RunTyped, RingHolds, Slots
    <3>6. SUFFICES /\ Len(p) = n
                   /\ p[n].temp - p[1].temp >= runCfg.rise
                   /\ \A i \in 1 .. n : \E a \in DOMAIN p[i].request : p[i].request[a] >= runCfg.coolingPwm
      OBVIOUS
    <3> HIDE DEF n, p, h, r
    <3>7. Len(p) = n /\ \A i \in 1 .. n : r[Wrapped(h + i - 1, n)] = Sample(p[i]) /\ p[i] \in Samples
      BY <3>5 DEF Holds, SlotOf
    <3>8. h + n - 1 \in 0 .. 2 * n - 1 /\ Wrapped(h + 1 - 1, n) = h /\ 1 \in 1 .. n /\ n \in 1 .. n
      BY <3>5 DEF Wrapped
    <3>9. (h + n - 1) % n = Wrapped(h + n - 1, n)
      BY <3>5, <3>8, WrappedMod
    <3>10. r[h] = Sample(p[1]) /\ r[(h + n - 1) % n] = Sample(p[n])
      BY <3>7, <3>8, <3>9
    <3>11. r[h].temp = p[1].temp /\ r[(h + n - 1) % n].temp = p[n].temp
      BY <3>10 DEF Sample
    <3>12. ASSUME NEW i \in 1 .. n
           PROVE  \E a \in DOMAIN p[i].request : p[i].request[a] >= runCfg.coolingPwm
      <4>1. h + i - 1 \in 0 .. 2 * n - 1
        BY <3>5
      <4>2. Wrapped(h + i - 1, n) \in 0 .. n - 1
        BY <3>5, <4>1, WrappedMod
      <4>3. Sample(p[i]).pwm >= runCfg.coolingPwm /\ p[i].request \in Requests
        BY <3>4, <3>7, <4>2 DEF n, r, Samples
      <4>4. RepPwm(p[i].request) >= runCfg.coolingPwm
        BY <4>3 DEF Sample
      <4> QED BY <4>3, <4>4, RepIsAsked
    <3> QED BY <3>4, <3>7, <3>11, <3>12 DEF n, p, h, r
  <2>2. CASE ClearRunaway
    BY <2>2 DEF ClearRunaway, Raised, FsmReset
  <2>3. CASE UNCHANGED runVars
    BY <2>3 DEF runVars, Raised
  <2> QED BY <2>1, <2>2, <2>3 DEF RunNext
<1> QED BY <1>1, SpecRunInv, PTL DEF RunSpec, RaisedOnlyByRise

\* A shutdown is asked for only by a REQUEST_SHUTDOWN fault or by a latched
\* runaway whose condition has lasted recovery_ticks without a pause.
THEOREM ShutdownHasCause == RunSpec => ShutdownNeedsCause
<1> DEFINE Cause == \/ runCfg.action = "REQUEST_SHUTDOWN"
                    \/ runCfg.action = "FORCE_PWM_MAX_AND_LATCH" /\ runHot' >= runCfg.recovery
<1>1. RunInv /\ [RunNext]_runVars => (~ shutdown /\ shutdown' => Cause)
  <2> SUFFICES ASSUME RunInv, [RunNext]_runVars, ~ shutdown, shutdown' PROVE Cause
    OBVIOUS
  <2>1. CASE \E temp \in Temps, req \in Requests : RunTick(temp, req)
    <3>1. PICK temp \in Temps, req \in Requests : RunTick(temp, req)
      BY <2>1
    <3>2. RunInv' /\ runCfg' = runCfg /\ runCfg \in RunawayCfgs
      BY <3>1, RunTickFacts DEF RunTick, RunInv, RunTyped
    <3>3. /\ shutdown' = (shutdown \/ Escalates(runaway') \/ RequestsShutdown(runaway'))
          /\ latchedTicks' = LatchedTicks(runaway')
      BY <3>1 DEF RunTick, ShutdownLatched
    <3>4. CASE RequestsShutdown(runaway')
      BY <3>4 DEF RequestsShutdown
    <3>5. CASE Escalates(runaway')
      <4> DEFINE l == latchedTicks'
                 k == runHot'
      <4>1. runCfg.action = "FORCE_PWM_MAX_AND_LATCH" /\ l >= runCfg.recovery
        BY <3>3, <3>5 DEF Escalates
      <4>2. l \in Counters /\ k \in Counters /\ l <= k
        BY <3>2, Zenon DEF RunInv, RunTyped
      <4>3. runCfg.recovery \in Counters
        BY <3>2, RunCfgFields
      <4> HIDE DEF l, k
      <4>4. k >= runCfg.recovery
        BY <4>1, <4>2, <4>3, CounterMaxAssumption DEF Counters
      <4> QED BY <4>1, <4>4 DEF k
    <3> QED BY <3>3, <3>4, <3>5
  <2>2. CASE ClearRunaway
    BY <2>2 DEF ClearRunaway
  <2>3. CASE UNCHANGED runVars
    BY <2>3 DEF runVars
  <2> QED BY <2>1, <2>2, <2>3 DEF RunNext
<1> QED BY <1>1, SpecRunInv, PTL DEF RunSpec, ShutdownNeedsCause

-----------------------------------------------------------------------------
(* The stall detector on a fan that never breaks.  A low tach means that the *)
(* fan was not driven: the last request was then 0, so a request to run arms *)
(* the grace window before the condition is looked at.  Without min_off_ticks *)
(* every request to run drives the fan on the tick it is made.               *)

\* The configurations NoFalseStall is about.
StartsAtOnce == cfg.spinupTicks > 0 /\ cfg.minOff = 0

\* No run of low samples has begun, and a fan that was asked to run is driven.
Unsuspected ==
  /\ StartsAtOnce
  /\ stall.state = "NORMAL" /\ stall \in Fsms /\ FsmFields(stallCfg)
  /\ wasZero \/ duty > 0

\* A request to run gives the fan a duty on its tick: nothing but min_off_ticks
\* holds a fan at 0, and pwm_max is not 0 where there is a spin-up duty.
LEMMA RunsWhenAsked ==
  ASSUME PathInv, StartsAtOnce, NEW req \in 1 .. MaxPwm, NEW safe \in BOOLEAN,
         Drive(req, safe)
  PROVE  duty' > 0
<1>1. /\ cfg.spinupTicks > 0 /\ cfg.minOff = 0 /\ MaxPwm \in Nat
      /\ cfg.pwmMax \in 0 .. MaxPwm /\ cfg.spinupPwm \in 1 .. cfg.pwmMax
      /\ duty \in Nat /\ offTicks \in Nat
  BY CfgNumbers DEF PathInv, StartsAtOnce, TypeOK
<1>2. req \in 0 .. MaxPwm
  BY <1>1
<1>3. Dwell(req, safe) \in 1 .. MaxPwm
  BY <1>1, <1>2, DwellFacts DEF Dwell
<1>4. Target(Dwell(req, safe)) \in 1 .. MaxPwm
  BY <1>1, <1>3 DEF Target
<1>5. ASSUME NEW up \in BOOLEAN PROVE Slew(Target(Dwell(req, safe)), up) \in 1 .. MaxPwm
  <2>1. Target(Dwell(req, safe)) \in 0 .. MaxPwm /\ Target(Dwell(req, safe)) > 0
    BY <1>1, <1>4
  <2>2. /\ Slew(Target(Dwell(req, safe)), up) \in 0 .. MaxPwm
        /\ Slew(Target(Dwell(req, safe)), up) # 0
    BY <2>1, SlewFacts
  <2> QED BY <1>1, <2>2
<1>6. ASSUME NEW pwm \in 1 .. MaxPwm PROVE Clamp(pwm, FALSE) > 0
  <2>1. pwm \in 0 .. MaxPwm /\ pwm > 0 /\ cfg.pwmMax > 0
    BY <1>1
  <2> QED BY <2>1, ClampFacts
<1>7. (Target(Dwell(req, safe)) = 0) = FALSE
  BY <1>1, <1>4
<1>8. (safe \/ Boosted(Dwell(req, safe))) \in BOOLEAN
  BY <1>2, DwellFacts, BoostFacts
<1>9. NextDuty(req, safe) > 0
  BY <1>5, <1>6, <1>7, <1>8 DEF NextDuty
<1> QED BY <1>9 DEF Drive

\* The condition does not hold on a fan that turns when driven.
LEMMA HealthyShowsNothing ==
  ASSUME Unsuspected, PathInv, healthy = TRUE,
         NEW req \in 0 .. MaxPwm, NEW sample \in TachSamples
  PROVE  StallCondition(req, sample) = FALSE
<1>1. duty \in Nat /\ cfg.spinupTicks > 0 /\ StallPwm \in Nat \ {0}
  BY CfgNumbers, StallAssumption DEF PathInv, TypeOK, Unsuspected, StartsAtOnce
<1>2. SUFFICES ASSUME sample = "low", req >= StallPwm, Grace(req) = 0 PROVE FALSE
  BY DEF StallCondition
<1>3. ~(duty > 0)
  BY <1>2 DEF TachSamples
<1>4. wasZero /\ req > 0
  BY <1>1, <1>2, <1>3 DEF Unsuspected
<1>5. Grace(req) = cfg.spinupTicks
  BY <1>4 DEF Grace
<1> QED BY <1>1, <1>2, <1>5

\* A tick on a healthy fan leaves the detector without suspicion.
LEMMA HealthyTick ==
  ASSUME Unsuspected, PathInv, healthy = TRUE,
         NEW req \in 0 .. MaxPwm, NEW safe \in BOOLEAN, NEW sample \in TachSamples,
         FanTick(req, safe, sample)
  PROVE  Unsuspected'
<1>1. stall' = FsmTick(stall, FALSE, stallCfg)
  BY HealthyShowsNothing DEF FanTick
<1>2. stall \in Fsms /\ FsmFields(stallCfg) /\ stall.state = "NORMAL"
  BY DEF Unsuspected
<1>3. stall' \in Fsms
  BY <1>1, <1>2, FsmTickType
<1>4. stall'.state = "NORMAL"
  BY <1>1, <1>2, FsmTickArms DEF Arms
<1>5. ~StallForces(stall')
  BY <1>4 DEF StallForces, FaultActive, ActiveStates
<1>6. Drive(req, safe)
  BY <1>5 DEF FanTick
<1>7. cfg' = cfg /\ stallCfg' = stallCfg /\ wasZero' = (req = 0)
  BY <1>6 DEF Drive, FanTick
<1>8. CASE req = 0
  BY <1>2, <1>3, <1>4, <1>7, <1>8 DEF Unsuspected, StartsAtOnce
<1>9. CASE req # 0
  <2>1. req \in 1 .. MaxPwm
    BY <1>9, PwmAssumption
  <2>2. duty' > 0
    BY <1>6, <2>1, RunsWhenAsked DEF Unsuspected
  <2> QED BY <1>2, <1>3, <1>4, <1>7, <2>2 DEF Unsuspected, StartsAtOnce
<1> QED BY <1>8, <1>9

\* So does every step of the core that starts with a healthy fan: there is
\* nothing to clear, and the other detectors leave this one alone.
LEMMA NextUnsuspected ==
  Unsuspected /\ PathInv /\ healthy /\ [DetectorsNext]_detectorVars => Unsuspected'
<1> SUFFICES ASSUME Unsuspected, PathInv, healthy, [DetectorsNext]_detectorVars
             PROVE  Unsuspected'
  OBVIOUS
<1>1. CASE StallTicks
  <2>1. PICK req \in 0 .. MaxPwm, safe \in BOOLEAN, sample \in TachSamples :
             FanTick(req, safe, sample)
    BY <1>1 DEF StallTicks, Fan, FanTicks
  <2> QED BY <2>1, HealthyTick
<1>2. CASE StallClear
  BY <1>2 DEF StallClear, Fan, ClearStall, ClearAllowed, Unsuspected
<1>3. CASE UNCHANGED <<cfg, stall, stallCfg, wasZero, duty>>
  BY <1>3 DEF Unsuspected, StartsAtOnce
<1>4. CASE FanChanges
  BY <1>3, <1>4 DEF FanChanges, Fan, Break, Repair, vars, detector
<1>5. CASE MachineTicks \/ MachineClear \/ SensorTicks \/ SensorClear \/ ZoneStep \/ SteadyTicks
  BY <1>3, <1>5 DEF MachineTicks, MachineClear, SensorTicks, SensorClear, ZoneStep, SteadyTicks,
                   Machine, Sensor, Zone, Health, fanVars, vars, detector
<1>6. CASE UNCHANGED detectorVars
  BY <1>3, <1>6 DEF detectorVars, fanVars, vars, detector
<1> QED BY <1>1, <1>2, <1>4, <1>5, <1>6 DEF DetectorsNext

\* A fan that never breaks is never reported, whatever it is asked for and
\* whichever of its tach samples go missing, when it has a grace window and no
\* min_off_ticks.
THEOREM HealthyIsNotReported == DetectorsSpec => NoFalseStall
<1>1. DetectorsInit /\ StartsAtOnce => Unsuspected
  <2> SUFFICES ASSUME DetectorsInit, StartsAtOnce PROVE Unsuspected
    OBVIOUS
  <2>1. stall = FsmReset /\ wasZero = TRUE /\ stallCfg \in FsmConfigs
    BY StallAssumption DEF DetectorsInit, FanInit
  <2>2. FsmReset \in Fsms /\ FsmReset.state = "NORMAL"
    BY CounterMaxAssumption DEF FsmReset, Fsms, FaultStates, Counters
  <2> QED BY <2>1, <2>2, ConfigFields DEF Unsuspected
<1>2. Unsuspected => ~FaultActive(stall)
  BY DEF Unsuspected, FaultActive, ActiveStates
<1>3. DetectorsSpec => Spec
  BY DetectorsImplement, PTL
<1>4. StartsAtOnce <=> cfg.spinupTicks > 0 /\ cfg.minOff = 0
  BY DEF StartsAtOnce
<1> QED BY <1>1, <1>2, <1>3, <1>4, SpecPathInv, NextUnsuspected, PTL DEF DetectorsSpec, NoFalseStall

-----------------------------------------------------------------------------
(* The stuck-sensor detector.  Its window always covers the last valid       *)
(* samples, as many as it has counted: its extremes and its contexts are    *)
(* theirs, and nobody else's.                                               *)

SensorSamples == [v : Values, ctx : CtxValues \cup {NoCtx}]

\* The last k samples.
Recent(s, k) == {s[i] : i \in Len(s) - k + 1 .. Len(s)}

\* The sequence of the last n samples, with the oldest dropped when x makes it
\* longer.
Kept(s, x, n) ==
  LET longer == Append(s, x) IN IF Len(longer) > n THEN Tail(longer) ELSE longer

\* The window is that of the samples S.
WindowOf(win, S) ==
  /\ \E x \in S : win.min = x.v
  /\ \E x \in S : win.max = x.v
  /\ \A x \in S : win.min <= x.v /\ x.v <= win.max
  /\ win.ctx = IF stuckCfg.flatOnly THEN {} ELSE {x.ctx : x \in S} \ {NoCtx}

StuckTyped ==
  /\ stuckCfg \in StuckCfgs /\ stuck \in Fsms /\ value \in Values
  /\ samples \in Seq(SensorSamples) /\ Len(samples) <= stuckCfg.window
  /\ w.count \in 0 .. stuckCfg.window - 1 /\ w.count <= Len(samples)

WindowCovers == w.count > 0 => WindowOf(w, Recent(samples, w.count))

StuckInv == StuckTyped /\ WindowCovers

\* The extremes of a set of integers are what Max and Min choose.
LEMMA ExtremesOf ==
  ASSUME NEW S \in SUBSET Int, NEW hi \in S, NEW lo \in S, \A x \in S : lo <= x /\ x <= hi
  PROVE  Max(S) = hi /\ Min(S) = lo /\ Spread(S) = hi - lo
<1>1. \A x \in S : (\A y \in S : x >= y) <=> x = hi
  OBVIOUS
<1>2. \A x \in S : (\A y \in S : x <= y) <=> x = lo
  OBVIOUS
<1>3. Max(S) = hi
  BY <1>1 DEF Max
<1>4. Min(S) = lo
  BY <1>2 DEF Min
<1> QED BY <1>3, <1>4 DEF Spread

\* A sample joins those of a window.
LEMMA RecentNext ==
  ASSUME NEW n \in Nat \ {0, 1}, NEW s \in Seq(SensorSamples), Len(s) <= n,
         NEW x \in SensorSamples, NEW k \in 0 .. n - 1, k <= Len(s)
  PROVE  /\ Kept(s, x, n) \in Seq(SensorSamples)
         /\ Len(Kept(s, x, n)) <= n /\ k + 1 <= Len(Kept(s, x, n))
         /\ Recent(Kept(s, x, n), k + 1) = Recent(s, k) \cup {x}
         /\ Recent(Kept(s, x, n), 1) = {x}
<1> DEFINE longer == Append(s, x)
           l == Len(s)
           kept == IF Len(longer) > n THEN Tail(longer) ELSE longer
           m == Len(kept)
<1>1. /\ longer \in Seq(SensorSamples) /\ Len(longer) = l + 1 /\ l \in Nat /\ l <= n /\ k <= l /\ longer # <<>>
      /\ longer[l + 1] = x /\ \A i \in 1 .. l : longer[i] = s[i]
  OBVIOUS
<1>2. PICK o \in {0, 1} : /\ kept \in Seq(SensorSamples) /\ m = l + 1 - o /\ m <= n /\ k + 1 <= m
                          /\ \A i \in 1 .. m : kept[i] = longer[i + o]
  <2>1. CASE Len(longer) > n
    <3>1. l = n /\ kept = Tail(longer)
      BY <1>1, <2>1
    <3>2. Tail(longer) \in Seq(SensorSamples) /\ Len(Tail(longer)) = l + 1 - 1
          /\ \A i \in 1 .. l + 1 - 1 : Tail(longer)[i] = longer[i + 1]
      <4> HIDE DEF longer, l
      <4> QED BY <1>1
    <3> HIDE DEF longer, l, kept
    <3>3. m = l /\ m <= n /\ k + 1 <= m
      BY <1>1, <3>1, <3>2
    <3> QED BY <3>1, <3>2, <3>3
  <2>2. CASE ~ (Len(longer) > n)
    <3>1. kept = longer /\ l + 1 <= n
      BY <1>1, <2>2
    <3> HIDE DEF longer, l, kept
    <3>2. m = l + 1 - 0 /\ m <= n /\ k + 1 <= m /\ \A i \in 1 .. m : kept[i] = longer[i + 0]
      BY <1>1, <3>1
    <3> QED BY <1>1, <3>1, <3>2
  <2> QED BY <2>1, <2>2
<1> HIDE DEF longer, l, kept, m
<1>3. kept[m] = x /\ \A i \in m - k .. m - 1 : kept[i] = s[i + o]
  BY <1>1, <1>2
<1>4. Recent(kept, k + 1) = Recent(s, k) \cup {x}
  <2>1. m - (k + 1) + 1 = m - k /\ m - k <= m
    BY <1>1, <1>2
  <2>2. Recent(kept, k + 1) = {kept[i] : i \in m - k .. m}
    BY <2>1 DEF Recent, m
  <2>3. Recent(s, k) = {s[i] : i \in l - k + 1 .. l}
    BY DEF Recent, l
  <2>4. ASSUME NEW i \in m - k .. m PROVE kept[i] \in Recent(s, k) \cup {x}
    <3>1. CASE i = m
      BY <1>3, <3>1
    <3>2. CASE i # m
      <4>1. i \in m - k .. m - 1 /\ i + o \in l - k + 1 .. l
        BY <1>1, <1>2, <3>2
      <4> QED BY <1>3, <2>3, <4>1
    <3> QED BY <3>1, <3>2
  <2>5. ASSUME NEW j \in l - k + 1 .. l PROVE s[j] \in Recent(kept, k + 1)
    <3>1. j - o \in m - k .. m - 1 /\ j - o + o = j
      BY <1>1, <1>2
    <3>2. kept[j - o] = s[j]
      BY <1>3, <3>1
    <3>3. j - o \in m - k .. m
      BY <1>1, <1>2, <3>1
    <3> QED BY <2>2, <3>2, <3>3
  <2>6. x \in Recent(kept, k + 1)
    <3>1. m \in m - k .. m
      BY <1>1, <1>2
    <3> QED BY <1>3, <2>2, <3>1
  <2> QED BY <2>2, <2>3, <2>4, <2>5, <2>6
<1>5. Recent(kept, 1) = {x}
  <2>1. \A i : i \in m - 1 + 1 .. m <=> i = m
    BY <1>1, <1>2
  <2> QED BY <1>3, <2>1 DEF Recent, m
<1>6. kept \in Seq(SensorSamples) /\ Len(kept) <= n /\ k + 1 <= Len(kept)
  BY <1>2 DEF m
<1> QED BY <1>4, <1>5, <1>6 DEF Kept, kept, longer

\* What a valid tick adds keeps the window that of the samples it covers.
LEMMA AccumulateCovers ==
  ASSUME StuckInv, NEW x \in SensorSamples
  PROVE  LET win == Accumulate(x.v, TRUE, x.ctx)
         IN  win.count = w.count + 1 /\ WindowOf(win, Recent(samples, w.count) \cup {x})
<1> DEFINE win == Accumulate(x.v, TRUE, x.ctx)
           S == Recent(samples, w.count)
<1>1. /\ w.count \in Nat /\ Len(samples) \in Nat /\ w.count <= Len(samples) /\ x.v \in Int
      /\ samples \in Seq(SensorSamples) /\ (w.count > 0 => WindowOf(w, S))
  <2>1. stuckCfg.window \in Nat /\ w.count \in 0 .. stuckCfg.window - 1
    BY StuckAssumption DEF StuckInv, StuckTyped
  <2>2. samples \in Seq(SensorSamples) /\ w.count <= Len(samples)
    BY DEF StuckInv, StuckTyped
  <2>3. x.v \in Int
    BY ValuesAssumption DEF SensorSamples
  <2>4. w.count > 0 => WindowOf(w, S)
    BY DEF StuckInv, WindowCovers
  <2> QED BY <2>1, <2>2, <2>3, <2>4
<1>2. CtxSeen(x.ctx) = IF stuckCfg.flatOnly THEN {} ELSE {x.ctx} \ {NoCtx}
  BY DEF CtxSeen
<1>3. \A y \in S : y \in SensorSamples /\ y.v \in Int
  <2>1. \A i \in Len(samples) - w.count + 1 .. Len(samples) : i \in 1 .. Len(samples)
    BY <1>1
  <2>2. \A i \in 1 .. Len(samples) : samples[i] \in SensorSamples
    BY <1>1
  <2>3. \A y \in S : y \in SensorSamples
    BY <2>1, <2>2 DEF Recent
  <2> QED BY <2>3, ValuesAssumption DEF SensorSamples
<1>4. CASE w.count = 0
  <2>1. S = {}
    BY <1>1, <1>4 DEF Recent
  <2>2. win = [count |-> 1, min |-> x.v, max |-> x.v, ctx |-> CtxSeen(x.ctx)]
    BY <1>4 DEF Accumulate
  <2>3. WindowOf([count |-> 1, min |-> x.v, max |-> x.v, ctx |-> CtxSeen(x.ctx)], {x})
    <3> DEFINE one == [count |-> 1, min |-> x.v, max |-> x.v, ctx |-> CtxSeen(x.ctx)]
    <3>1. one.min = x.v /\ one.max = x.v /\ x.v <= x.v
      BY <1>1
    <3>2. one.ctx = IF stuckCfg.flatOnly THEN {} ELSE {y.ctx : y \in {x}} \ {NoCtx}
      <4>1. one.ctx = CtxSeen(x.ctx) /\ {y.ctx : y \in {x}} = {x.ctx}
        OBVIOUS
      <4> QED BY <1>2, <4>1
    <3> HIDE DEF one
    <3>3. WindowOf(one, {x})
      BY <3>1, <3>2 DEF WindowOf
    <3> QED BY <3>3 DEF one
  <2>4. win.count = w.count + 1
    <3> HIDE DEF win
    <3>1. win.count = 1
      BY <2>2
    <3> QED BY <1>4, <3>1
  <2>5. S \cup {x} = {x}
    BY <2>1
  <2> QED BY <2>2, <2>3, <2>4, <2>5
<1>5. CASE w.count # 0
  <2>1. win = [count |-> w.count + 1,
               min   |-> IF x.v < w.min THEN x.v ELSE w.min,
               max   |-> IF x.v > w.max THEN x.v ELSE w.max,
               ctx   |-> w.ctx \cup CtxSeen(x.ctx)]
    BY <1>5 DEF Accumulate
  <2>2. WindowOf(w, S)
    BY <1>1, <1>5
  <2> HIDE DEF S, win
  <2>3. w.min \in Int /\ w.max \in Int
    BY <1>3, <2>2 DEF WindowOf
  <2>4. \E y \in S \cup {x} : win.min = y.v
    BY <2>1, <2>2 DEF WindowOf
  <2>5. \E y \in S \cup {x} : win.max = y.v
    BY <2>1, <2>2 DEF WindowOf
  <2>6. \A y \in S \cup {x} : win.min <= y.v /\ y.v <= win.max
    <3>1. ASSUME NEW y \in S PROVE win.min <= y.v /\ y.v <= win.max
      <4>1. w.min <= y.v /\ y.v <= w.max /\ y.v \in Int
        BY <1>3, <2>2 DEF WindowOf
      <4> QED BY <1>1, <2>1, <2>3, <4>1
    <3>2. win.min <= x.v /\ x.v <= win.max
      BY <1>1, <2>1, <2>3
    <3> QED BY <3>1, <3>2
  <2>7. win.ctx = IF stuckCfg.flatOnly THEN {} ELSE {y.ctx : y \in S \cup {x}} \ {NoCtx}
    BY <1>2, <2>1, <2>2 DEF WindowOf
  <2>8. WindowOf(win, S \cup {x})
    BY <2>4, <2>5, <2>6, <2>7 DEF WindowOf
  <2>9. win.count = w.count + 1
    BY <2>1
  <2> QED BY <2>8, <2>9 DEF win, S
<1> QED BY <1>4, <1>5

\* A reset detector has no sample in its window.
LEMMA InitStuckInv == StuckInit => StuckInv
<1> SUFFICES ASSUME StuckInit PROVE StuckInv
  OBVIOUS
<1>1. stuckCfg \in StuckCfgs /\ stuckCfg.window \in Nat \ {0, 1}
  BY StuckAssumption DEF StuckInit
<1>2. FsmReset \in Fsms
  BY CounterMaxAssumption DEF Counters, FsmReset, Fsms, FaultStates
<1>3. <<>> \in Seq(SensorSamples) /\ Len(<<>>) <= stuckCfg.window /\ EmptyWindow.count = 0
      /\ 0 \in 0 .. stuckCfg.window - 1 /\ 0 <= Len(<<>>)
  BY <1>1 DEF EmptyWindow
<1>4. StuckTyped
  BY <1>1, <1>2, <1>3, Zenon DEF StuckInit, StuckTyped
<1>5. WindowCovers
  <2>1. w.count = 0
    BY <1>3 DEF StuckInit
  <2> QED BY <2>1 DEF WindowCovers
<1> QED BY <1>4, <1>5 DEF StuckInv

\* One tick: the machine sees a condition that only a full window can have, and
\* the next window covers the samples it counts.
LEMMA StuckTickFacts ==
  ASSUME StuckInv, NEW v \in Values, NEW ok \in BOOLEAN, NEW ctx \in CtxValues \cup {NoCtx},
         StuckTick(v, ok, ctx)
  PROVE  /\ StuckInv'
         /\ \E active \in BOOLEAN : \E win :
              /\ Arms(stuck, active, stuckCfg, stuck')
              /\ active => /\ Len(samples') = stuckCfg.window /\ Flat(win)
                           /\ WindowOf(win, Recent(samples', Len(samples')))
<1> DEFINE n == stuckCfg.window
           k == w.count
           x == [v |-> v, ctx |-> ctx]
           kept == Kept(samples, x, n)
           new == IF ok THEN v ELSE value
           win == Accumulate(new, ok, ctx)
           active == Full(win) /\ Flat(win)
<1>1. /\ stuckCfg \in StuckCfgs /\ stuck \in Fsms /\ value \in Values
      /\ samples \in Seq(SensorSamples) /\ Len(samples) <= n
      /\ k \in 0 .. n - 1 /\ k <= Len(samples) /\ n \in Nat \ {0, 1}
      /\ FsmFields(stuckCfg)
  BY StuckAssumption DEF StuckInv, StuckTyped, FsmFields
<1>2. /\ value' = new /\ stuckCfg' = stuckCfg
      /\ stuck' = FsmTick(stuck, active, stuckCfg)
      /\ w' = IF Full(win) THEN NextWindow(win, new, ok, ctx) ELSE win
      /\ samples' = IF ok THEN kept ELSE samples
  BY DEF StuckTick, Kept
<1>3. x \in SensorSamples /\ x.v = v /\ x.ctx = ctx
  BY DEF SensorSamples
<1>4. /\ kept \in Seq(SensorSamples) /\ Len(kept) <= n /\ k + 1 <= Len(kept)
      /\ Recent(kept, k + 1) = Recent(samples, k) \cup {x}
      /\ Recent(kept, 1) = {x}
  <2> HIDE DEF n, k, x
  <2> QED BY <1>1, <1>3, RecentNext
<1>5. ok => win.count = k + 1 /\ WindowOf(win, Recent(kept, k + 1))
  <2>1. SUFFICES ASSUME ok PROVE win.count = k + 1 /\ WindowOf(win, Recent(kept, k + 1))
    OBVIOUS
  <2>2. win = Accumulate(x.v, TRUE, x.ctx)
    BY <2>1
  <2>3. Accumulate(x.v, TRUE, x.ctx).count = k + 1
        /\ WindowOf(Accumulate(x.v, TRUE, x.ctx), Recent(samples, k) \cup {x})
    <3> HIDE DEF x
    <3> QED BY <1>3, AccumulateCovers
  <2> HIDE DEF win, x, kept
  <2> QED BY <1>4, <2>2, <2>3
<1>6. ~ ok => win = w /\ ~ Full(win)
  BY <1>1 DEF Accumulate, Full
<1>7. active \in BOOLEAN
  BY DEF Full, Flat
<1>8. stuck' \in Fsms /\ Arms(stuck, active, stuckCfg, stuck')
  <2> HIDE DEF active
  <2> QED BY <1>1, <1>2, <1>7, FsmTickType, FsmTickArms
<1>9. new \in Values
  BY <1>1
<1> HIDE DEF win, kept
<1>10. CASE ok
  <2>1. samples' = kept /\ new = v
    BY <1>2, <1>10
  <2>2. Full(win) <=> k + 1 = n
    BY <1>1, <1>5, <1>10 DEF Full
  <2>3. CASE k + 1 = n
    <3> DEFINE next == NextWindow(win, v, ok, ctx)
    <3>1. w' = next
      BY <1>2, <2>1, <2>2, <2>3
    <3>2. /\ next.count = 1 /\ next.min = v /\ next.max = v /\ next.ctx = CtxSeen(ctx)
      BY <1>10 DEF NextWindow
    <3>3. WindowOf(next, {x})
      <4>1. v \in Int
        BY ValuesAssumption
      <4>2. next.ctx = IF stuckCfg.flatOnly THEN {} ELSE {y.ctx : y \in {x}} \ {NoCtx}
        <5>1. {y.ctx : y \in {x}} = {ctx}
          BY <1>3
        <5> HIDE DEF next
        <5> QED BY <3>2, <5>1 DEF CtxSeen
      <4>3. next.min = x.v /\ next.max = x.v /\ next.min <= x.v /\ x.v <= next.max
        <5> HIDE DEF next, x
        <5> QED BY <1>3, <3>2, <4>1
      <4> HIDE DEF next, x
      <4> QED BY <4>2, <4>3 DEF WindowOf
    <3> HIDE DEF next
    <3>4. StuckTyped'
      <4>1. 1 \in 0 .. n - 1 /\ 1 <= Len(kept)
        BY <1>1, <1>4
      <4>2. next.count \in 0 .. n - 1 /\ next.count <= Len(kept)
        BY <3>2, <4>1, Zenon
      <4> QED BY <1>1, <1>2, <1>4, <1>8, <1>9, <2>1, <3>1, <4>2, Zenon DEF StuckTyped
    <3>5. WindowOf(next, Recent(kept, next.count))
      BY <1>4, <3>2, <3>3
    <3>6. WindowCovers'
      BY <1>2, <2>1, <3>1, <3>5 DEF WindowCovers, WindowOf
    <3>7. active => Len(kept) = n /\ Flat(win) /\ WindowOf(win, Recent(kept, Len(kept)))
      <4>1. Len(kept) = k + 1
        BY <1>1, <1>4, <2>3
      <4> QED BY <1>5, <1>10, <2>3, <4>1
    <3> HIDE DEF active
    <3> QED BY <1>7, <1>8, <2>1, <3>4, <3>6, <3>7 DEF StuckInv
  <2>4. CASE k + 1 # n
    <3>1. w' = win /\ win.count = k + 1 /\ ~ Full(win)
      BY <1>2, <1>5, <1>10, <2>2, <2>4
    <3>2. StuckTyped'
      <4>1. win.count \in 0 .. n - 1 /\ win.count <= Len(kept)
        BY <1>1, <1>4, <2>4, <3>1
      <4> QED BY <1>1, <1>2, <1>4, <1>8, <1>9, <2>1, <3>1, <4>1, Zenon DEF StuckTyped
    <3>3. WindowCovers'
      <4>1. WindowOf(win, Recent(kept, win.count))
        BY <1>5, <1>10, <3>1
      <4> QED BY <1>2, <2>1, <3>1, <4>1 DEF WindowCovers, WindowOf
    <3>4. ~ active
      BY <3>1
    <3> HIDE DEF active
    <3> QED BY <1>7, <1>8, <3>2, <3>3, <3>4 DEF StuckInv
  <2> QED BY <2>3, <2>4
<1>11. CASE ~ ok
  <2>1. w' = w /\ samples' = samples /\ ~ active
    BY <1>2, <1>6, <1>11
  <2>2. StuckTyped'
    BY <1>1, <1>2, <1>8, <1>9, <2>1, Zenon DEF StuckTyped
  <2>3. WindowCovers'
    BY <1>2, <2>1 DEF StuckInv, WindowCovers, WindowOf
  <2> HIDE DEF active
  <2> QED BY <1>7, <1>8, <2>1, <2>2, <2>3 DEF StuckInv
<1> QED BY <1>10, <1>11

\* Ticks and clears keep what the stuck-sensor window says of the samples it covers.
LEMMA NextStuckInv == StuckInv /\ [StuckNext]_stuckVars => StuckInv'
<1> SUFFICES ASSUME StuckInv, [StuckNext]_stuckVars PROVE StuckInv'
  OBVIOUS
<1>1. CASE StuckTicks
  BY <1>1, StuckTickFacts DEF StuckTicks
<1>2. CASE ClearStuck
  <2>1. stuck' = FsmReset /\ w' = EmptyWindow /\ UNCHANGED <<stuckCfg, value, samples>>
    BY <1>2 DEF ClearStuck
  <2>2. FsmReset \in Fsms /\ EmptyWindow.count = 0
    BY CounterMaxAssumption DEF Counters, FsmReset, Fsms, FaultStates, EmptyWindow
  <2>3. stuckCfg.window \in Nat \ {0, 1} /\ samples \in Seq(SensorSamples)
    BY StuckAssumption DEF StuckInv, StuckTyped
  <2>4. 0 \in 0 .. stuckCfg.window - 1 /\ 0 <= Len(samples)
    BY <2>3
  <2>5. StuckTyped'
    BY <2>1, <2>2, <2>4, Zenon DEF StuckInv, StuckTyped
  <2>6. WindowCovers'
    <3>1. w'.count = 0
      BY <2>1, <2>2
    <3> QED BY <3>1 DEF WindowCovers
  <2> QED BY <2>5, <2>6 DEF StuckInv
<1>3. CASE UNCHANGED stuckVars
  BY <1>3 DEF stuckVars, StuckInv, StuckTyped, WindowCovers, WindowOf
<1> QED BY <1>1, <1>2, <1>3 DEF StuckNext

\* The stuck-sensor detector keeps its invariant in every behaviour.
LEMMA SpecStuckInv == StuckSpec => []StuckInv
<1> QED BY InitStuckInv, NextStuckInv, PTL DEF StuckSpec

\* The values of samples a window covers have its extremes.
LEMMA WindowSpread ==
  ASSUME NEW S \in SUBSET SensorSamples, NEW win, WindowOf(win, S)
  PROVE  /\ Spread({x.v : x \in S}) = win.max - win.min
         /\ Max({x.v : x \in S}) = win.max /\ Min({x.v : x \in S}) = win.min
<1> DEFINE V == {x.v : x \in S}
<1>1. V \in SUBSET Int
  BY ValuesAssumption DEF SensorSamples
<1>2. win.max \in V /\ win.min \in V /\ \A y \in V : win.min <= y /\ y <= win.max
  BY DEF WindowOf
<1> HIDE DEF V
<1>3. Spread(V) = win.max - win.min /\ Max(V) = win.max /\ Min(V) = win.min
  BY <1>1, <1>2, ExtremesOf
<1> QED BY <1>3 DEF V

\* The window is exactly what it covers: its extremes are those of the last
\* count valid samples.
THEOREM WindowIsFaithful == StuckSpec => []WindowFaithful
<1>1. StuckInv => WindowFaithful
  <2> SUFFICES ASSUME StuckInv, w.count > 0
               PROVE  LET covered == {samples[i].v : i \in Len(samples) - w.count + 1 .. Len(samples)}
                      IN  w.count <= Len(samples) /\ w.min = Min(covered) /\ w.max = Max(covered)
    BY DEF WindowFaithful
  <2> DEFINE S == Recent(samples, w.count)
             covered == {samples[i].v : i \in Len(samples) - w.count + 1 .. Len(samples)}
  <2>1. w.count <= Len(samples) /\ samples \in Seq(SensorSamples) /\ w.count \in Nat /\ WindowOf(w, S)
    <3>1. stuckCfg.window \in Nat /\ w.count \in 0 .. stuckCfg.window - 1
      BY StuckAssumption DEF StuckInv, StuckTyped
    <3> QED BY <3>1 DEF StuckInv, StuckTyped, WindowCovers
  <2>2. S \in SUBSET SensorSamples
    <3>1. \A i \in Len(samples) - w.count + 1 .. Len(samples) : i \in 1 .. Len(samples)
      BY <2>1
    <3> QED BY <2>1, <3>1 DEF Recent
  <2>3. covered = {x.v : x \in S}
    BY DEF Recent
  <2>4. Max({x.v : x \in S}) = w.max /\ Min({x.v : x \in S}) = w.min
    <3> HIDE DEF S
    <3> QED BY <2>1, <2>2, WindowSpread
  <2> QED BY <2>1, <2>3, <2>4
<1> QED BY <1>1, SpecStuckInv, PTL

\* A stuck-sensor fault is raised only when the last window_ticks valid samples
\* were flat while the context moved among them: neither an extreme of an older
\* window nor a sample from before a clear counts.
THEOREM RaiseNeedsFlat == StuckSpec => RaisedOnlyWhenFlat
<1> DEFINE WasFlat == /\ Len(samples') = stuckCfg.window /\ RecentFlat'
                      /\ stuckCfg.flatOnly \/ Spread(RecentCtx') >= stuckCfg.ctxDelta
<1>1. StuckInv /\ [StuckNext]_stuckVars =>
        (stuck.state = "NORMAL" /\ stuck'.state # "NORMAL" => WasFlat)
  <2> SUFFICES ASSUME StuckInv, [StuckNext]_stuckVars, stuck.state = "NORMAL", stuck'.state # "NORMAL"
               PROVE  WasFlat
    OBVIOUS
  <2>1. CASE StuckTicks
    <3>1. PICK v \in Values, ok \in BOOLEAN, ctx \in CtxValues \cup {NoCtx} : StuckTick(v, ok, ctx)
      BY <2>1 DEF StuckTicks
    <3>2. StuckInv' /\ stuckCfg' = stuckCfg
      BY <3>1, StuckTickFacts DEF StuckTick
    <3>3. PICK active \in BOOLEAN : \E win :
            /\ Arms(stuck, active, stuckCfg, stuck')
            /\ active => /\ Len(samples') = stuckCfg.window /\ Flat(win)
                         /\ WindowOf(win, Recent(samples', Len(samples')))
      BY <3>1, StuckTickFacts
    <3>4. active
      BY <3>3 DEF Arms
    <3> PICK win : /\ Len(samples') = stuckCfg.window /\ Flat(win)
                   /\ WindowOf(win, Recent(samples', Len(samples')))
      BY <3>3, <3>4
    <3> DEFINE s == samples'
               S == Recent(s, Len(s))
    <3>5. s \in Seq(SensorSamples)
      BY <3>2 DEF StuckInv, StuckTyped
    <3>6. Len(s) = stuckCfg.window /\ Flat(win) /\ WindowOf(win, S)
      OBVIOUS
    <3> HIDE DEF s
    <3>7. S = {s[i] : i \in 1 .. Len(s)} /\ S \in SUBSET SensorSamples
      BY <3>5 DEF Recent
    <3> HIDE DEF S
    <3>8. Spread({x.v : x \in S}) = win.max - win.min
      BY <3>6, <3>7, WindowSpread
    <3>9. Spread({s[i].v : i \in 1 .. Len(s)}) < stuckCfg.delta
      <4>1. {s[i].v : i \in 1 .. Len(s)} = {x.v : x \in S}
        BY <3>7
      <4>2. win.max - win.min < stuckCfg.delta
        BY <3>6 DEF Flat
      <4> QED BY <3>8, <4>1, <4>2
    <3>10. stuckCfg.flatOnly \/ Spread({s[i].ctx : i \in 1 .. Len(s)} \ {NoCtx}) >= stuckCfg.ctxDelta
      <4>1. {s[i].ctx : i \in 1 .. Len(s)} = {x.ctx : x \in S}
        BY <3>7
      <4>2. stuckCfg.flatOnly \/ win.ctx = {x.ctx : x \in S} \ {NoCtx}
        BY <3>6 DEF WindowOf
      <4>3. stuckCfg.flatOnly \/ Spread(win.ctx) >= stuckCfg.ctxDelta
        BY <3>6 DEF Flat
      <4> QED BY <4>1, <4>2, <4>3
    <3> QED BY <3>2, <3>6, <3>9, <3>10 DEF s, RecentFlat, RecentCtx
  <2>2. CASE ClearStuck
    BY <2>2 DEF ClearStuck, FsmReset
  <2>3. CASE UNCHANGED stuckVars
    BY <2>3 DEF stuckVars
  <2> QED BY <2>1, <2>2, <2>3 DEF StuckNext
<1> QED BY <1>1, SpecStuckInv, PTL DEF StuckSpec, RaisedOnlyWhenFlat

-----------------------------------------------------------------------------
(* Fan health: rounding, drift and the weighted mean. *)

\* A larger dividend has no smaller quotient.
LEMMA QuotientOrder ==
  ASSUME NEW m \in Nat, NEW n \in Nat, m <= n, NEW b \in Nat, b > 0
  PROVE  m \div b <= n \div b
<1> DEFINE p == m \div b
           q == n \div b
<1>1. p \in Int /\ b * p <= m /\ q \in Int /\ n < b * q + b
  BY Quotient
<1> HIDE DEF p, q
<1>2. SUFFICES ASSUME p >= q + 1 PROVE FALSE
  BY <1>1 DEF p, q
<1>3. b * (p - (q + 1)) >= 0
  BY <1>1, <1>2
<1>4. b * (p - (q + 1)) = b * p - b * q - b
  BY <1>1
<1>5. b * p \in Int /\ b * q \in Int
  BY <1>1
<1> QED BY <1>1, <1>3, <1>4, <1>5

\* Rounding is off by half a unit at most.
LEMMA RoundedFacts ==
  ASSUME NEW n \in Int, NEW den \in Nat, den > 0
  PROVE  /\ RoundedDiv(n, den) \in Int
         /\ 2 * n - den <= 2 * (den * RoundedDiv(n, den))
         /\ 2 * (den * RoundedDiv(n, den)) <= 2 * n + den
         /\ n >= 0 => RoundedDiv(n, den) >= 0
         /\ n < 0 => RoundedDiv(n, den) <= 0
<1>1. ASSUME NEW a \in Nat
      PROVE  LET q == (2 * a + den) \div (2 * den)
             IN  q \in Nat /\ 2 * a - den <= 2 * (den * q) /\ 2 * (den * q) <= 2 * a + den
  <2> DEFINE n2 == 2 * a + den
             b == 2 * den
             q == n2 \div b
  <2>1. n2 \in Nat /\ b \in Nat /\ b > 0
    OBVIOUS
  <2>2. q \in Int /\ b * q <= n2 /\ n2 < b * q + b
    <3> HIDE DEF n2, b
    <3> QED BY <2>1, Quotient
  <2>3. q \in 0 .. n2
    <3>1. n2 <= b * n2
      <4>1. (b - 1) * n2 >= 0 /\ (b - 1) * n2 = b * n2 - n2 /\ b * n2 \in Int
        <5> HIDE DEF n2, b
        <5> QED BY <2>1
      <4> QED BY <2>1, <4>1
    <3> HIDE DEF n2, b
    <3> QED BY <2>1, <3>1, QuotientBelow
  <2> HIDE DEF q
  <2>4. den * q \in Int /\ b * q = 2 * (den * q)
    BY <2>2
  <2>5. 2 * (den * q) <= 2 * a + den /\ 2 * a + den < 2 * (den * q) + 2 * den
    BY <2>2, <2>4
  <2> QED BY <2>3, <2>4, <2>5 DEF q
<1>2. CASE n >= 0
  <2>1. n \in Nat /\ RoundedDiv(n, den) = (2 * n + den) \div (2 * den)
    BY <1>2 DEF RoundedDiv
  <2> QED BY <1>1, <1>2, <2>1
<1>3. CASE n < 0
  <2> DEFINE a == -n
             q == (2 * a + den) \div (2 * den)
  <2>1. a \in Nat
    BY <1>3
  <2>2. q \in Nat /\ 2 * a - den <= 2 * (den * q) /\ 2 * (den * q) <= 2 * a + den
    <3> HIDE DEF a
    <3> QED BY <1>1, <2>1
  <2>3. RoundedDiv(n, den) = -q
    <3>1. -2 * n + den = 2 * a + den
      OBVIOUS
    <3> QED BY <1>3, <3>1 DEF RoundedDiv
  <2> HIDE DEF q
  <2>4. den * q \in Int /\ den * (-q) = -(den * q)
    BY <2>2
  <2> QED BY <1>3, <2>2, <2>3, <2>4
<1> QED BY <1>2, <1>3

\* So the quotient of at least k times the divisor is at least k, and of at
\* most k times the divisor at most k.
LEMMA RoundedBounds ==
  ASSUME NEW n \in Int, NEW den \in Nat, den > 0, NEW k \in Int
  PROVE  /\ n >= k * den => RoundedDiv(n, den) >= k
         /\ n <= k * den => RoundedDiv(n, den) <= k
<1> DEFINE q == RoundedDiv(n, den)
<1>1. q \in Int /\ 2 * n - den <= 2 * (den * q) /\ 2 * (den * q) <= 2 * n + den
  BY RoundedFacts
<1> HIDE DEF q
<1>2. den * q \in Int /\ k * den \in Int
  BY <1>1
<1>3. ASSUME n >= k * den, q <= k - 1 PROVE FALSE
  <2>1. den * (k - 1 - q) >= 0
    BY <1>1, <1>3
  <2>2. den * (k - 1 - q) = k * den - den - den * q
    BY <1>1
  <2> QED BY <1>1, <1>2, <1>3, <2>1, <2>2
<1>4. ASSUME n <= k * den, q >= k + 1 PROVE FALSE
  <2>1. den * (q - k - 1) >= 0
    BY <1>1, <1>4
  <2>2. den * (q - k - 1) = den * q - k * den - den
    BY <1>1
  <2> QED BY <1>1, <1>2, <1>4, <2>1, <2>2
<1> QED BY <1>1, <1>3, <1>4 DEF q

\* Rounding keeps the order.
LEMMA RoundedOrder ==
  ASSUME NEW m \in Int, NEW n \in Int, m <= n, NEW den \in Nat, den > 0
  PROVE  RoundedDiv(m, den) <= RoundedDiv(n, den)
<1>1. CASE m >= 0
  <2>1. RoundedDiv(m, den) = (2 * m + den) \div (2 * den) /\ RoundedDiv(n, den) = (2 * n + den) \div (2 * den)
    BY <1>1 DEF RoundedDiv
  <2>2. 2 * m + den \in Nat /\ 2 * n + den \in Nat /\ 2 * m + den <= 2 * n + den /\ 2 * den \in Nat /\ 2 * den > 0
    BY <1>1
  <2> QED BY <2>1, <2>2, QuotientOrder
<1>2. CASE m < 0 /\ n >= 0
  <2>1. RoundedDiv(m, den) \in Int /\ RoundedDiv(m, den) <= 0
    BY <1>2, RoundedFacts
  <2>2. RoundedDiv(n, den) \in Int /\ RoundedDiv(n, den) >= 0
    BY <1>2, RoundedFacts
  <2> QED BY <2>1, <2>2
<1>3. CASE n < 0
  <2>1. /\ RoundedDiv(m, den) = -((-2 * m + den) \div (2 * den))
        /\ RoundedDiv(n, den) = -((-2 * n + den) \div (2 * den))
    BY <1>3 DEF RoundedDiv
  <2> DEFINE a == -2 * m + den
             b == -2 * n + den
             e == 2 * den
  <2>2. a \in Nat /\ b \in Nat /\ b <= a /\ e \in Nat /\ e > 0
    BY <1>3
  <2>3. RoundedDiv(m, den) = -(a \div e) /\ RoundedDiv(n, den) = -(b \div e)
    BY <2>1
  <2> HIDE DEF a, b, e
  <2>4. b \div e <= a \div e /\ b \div e \in Int /\ a \div e \in Int
    BY <2>2, QuotientOrder, Quotient
  <2> QED BY <2>3, <2>4
<1> QED BY <1>1, <1>2, <1>3

\* The baseline has a positive speed at every duty.
LEMMA BaselineSpeed ==
  ASSUME NEW c \in HealthCfgs, NEW pwm \in Nat
  PROVE  CurveEval(c.baseline, "rpm", pwm) \in Nat /\ CurveEval(c.baseline, "rpm", pwm) > 0
<1> DEFINE b == c.baseline
<1>1. b \in Seq([x : Nat, rpm : Nat \ {0}]) /\ Len(b) >= 2 /\ CurveOrdered(b)
  BY HealthAssumption
<1>2. \A i \in 1 .. Len(b) : b[i].x \in Int /\ b[i].rpm \in Int /\ b[i].rpm > 0
  <2> HIDE DEF b
  <2> SUFFICES ASSUME NEW i \in 1 .. Len(b) PROVE b[i].x \in Int /\ b[i].rpm \in Int /\ b[i].rpm > 0
    OBVIOUS
  <2>1. b[i] \in [x : Nat, rpm : Nat \ {0}]
    BY <1>1, ElementOfSeq
  <2> QED BY <2>1
<1>3. OnIntegers(b, "rpm")
  BY <1>1, <1>2, LenProperties DEF OnIntegers
<1> HIDE DEF b
<1> DEFINE e == CurveEval(b, "rpm", pwm)
<1>4. /\ e \in Int
      /\ \E p, q \in 1 .. Len(b) : b[p]["rpm"] <= e /\ e <= b[q]["rpm"]
  <2>1. pwm \in Int
    OBVIOUS
  <2> QED BY <1>1, <1>3, <2>1, CurveBetween
<1> HIDE DEF e
<1>5. PICK p \in 1 .. Len(b) : b[p].rpm <= e
  BY <1>4
<1>6. e \in Nat /\ e > 0
  BY <1>2, <1>4, <1>5
<1> QED BY <1>6 DEF b, e

\* A slower fan has no larger drift.
LEMMA DriftOrder ==
  ASSUME NEW c \in HealthCfgs, NEW pwm \in Nat, NEW low \in Int, NEW high \in Int, low <= high
  PROVE  /\ Drift(c.baseline, pwm, low) \in Int /\ Drift(c.baseline, pwm, high) \in Int
         /\ Drift(c.baseline, pwm, low) <= Drift(c.baseline, pwm, high)
<1> DEFINE e == CurveEval(c.baseline, "rpm", pwm)
           m == RoundedDiv((low - e) * 100, e)
           n == RoundedDiv((high - e) * 100, e)
<1>1. e \in Nat /\ e > 0
  BY BaselineSpeed
<1>2. m \in Int /\ n \in Int /\ m <= n
  <2> HIDE DEF e
  <2>1. (low - e) * 100 \in Int /\ (high - e) * 100 \in Int /\ (low - e) * 100 <= (high - e) * 100
    BY <1>1
  <2> QED BY <1>1, <2>1, RoundedFacts, RoundedOrder
<1>3. Drift(c.baseline, pwm, low) = Saturated(m, 127) /\ Drift(c.baseline, pwm, high) = Saturated(n, 127)
  BY DEF Drift
<1> HIDE DEF m, n
<1> QED BY <1>2, <1>3 DEF Saturated

\* s sums f up to each number.
Sums(s, f, N) ==
  /\ s \in [0 .. N -> Int]
  /\ \A n \in 0 .. N : s[n] = IF n = 0 THEN 0 ELSE s[n - 1] + f[n]

\* The loop over the points computes sums.
LEMMA TotalSums ==
  ASSUME NEW f, Len(Baseline) \in Nat, f \in [1 .. Len(Baseline) -> Int]
  PROVE  \E s : Sums(s, f, Len(Baseline)) /\ Total(f) = s[Len(Baseline)]
<1> DEFINE N == Len(Baseline)
           D == 0 .. N
           stop == {0}
           rank == [n \in D |-> n]
           base == [n \in stop |-> 0]
           next == [n \in D \ stop |-> n - 1]
           comb == [p \in (D \ stop) \X Int |-> p[2] + f[p[1]]]
           body(g, n) == IF n = 0 THEN 0 ELSE g[n - 1] + f[n]
<1>1. stop \in SUBSET D /\ rank \in [D -> Nat] /\ base \in [stop -> Int]
  OBVIOUS
<1>2. next \in [D \ stop -> D] /\ \A x \in D \ stop : rank[next[x]] < rank[x]
  OBVIOUS
<1>3. comb \in [(D \ stop) \X Int -> Int]
  OBVIOUS
<1>4. PICK g \in [D -> Int] : Solves(g, D, stop, base, next, comb)
  <2> HIDE DEF D, stop, rank, base, next, comb
  <2> QED BY <1>1, <1>2, <1>3, LinearRecursion
<1>5. ASSUME NEW n \in D PROVE g[n] = body(g, n)
  <2>1. CASE n = 0
    BY <1>4, <2>1 DEF Solves
  <2>2. CASE n # 0
    <3>1. n \in D \ stop /\ n - 1 \in D
      <4>1. N \in Nat
        OBVIOUS
      <4> HIDE DEF N
      <4> QED BY <2>2, <4>1
    <3>2. next[n] = n - 1 /\ g[n - 1] \in Int
      BY <1>4, <3>1
    <3>3. g[n] = comb[<<n, g[n - 1]>>]
      BY <1>4, <3>1, <3>2 DEF Solves
    <3> QED BY <2>2, <3>1, <3>2, <3>3
  <2> QED BY <2>1, <2>2
<1> DEFINE s == CHOOSE h : h = [n \in D |-> body(h, n)]
<1>6. s = [n \in D |-> body(s, n)]
  <2>1. g = [n \in D |-> body(g, n)]
    <3> HIDE DEF body
    <3> QED BY <1>4, <1>5
  <2> QED BY <2>1
<1>7. Total(f) = s[N]
  BY DEF Total
<1> HIDE DEF s
<1>8. ASSUME NEW n \in D PROVE s[n] \in Int /\ s[n] = body(s, n)
  <2>1. s[n] = body(s, n)
    BY <1>6
  <2> DEFINE T == {k \in D : s[k] \notin Int}
  <2>2. T = {}
    <3>1. SUFFICES ASSUME T # {} PROVE FALSE
      OBVIOUS
    <3>2. PICK k \in T : \A j \in T : k <= j
      <4>1. T \in SUBSET Nat
        OBVIOUS
      <4> HIDE DEF T
      <4> QED BY <3>1, <4>1, LeastNatural
    <3>3. k \in D /\ s[k] = body(s, k)
      BY <1>6, <3>2
    <3>4. k # 0
      BY <3>2, <3>3
    <3>5. k - 1 \in D /\ k - 1 \notin T /\ f[k] \in Int
      BY <3>2, <3>3, <3>4
    <3> QED BY <3>2, <3>3, <3>4, <3>5
  <2> QED BY <2>1, <2>2
<1>9. Sums(s, f, N)
  <2>1. s \in [D -> Int]
    BY <1>6, <1>8
  <2> QED BY <1>8, <2>1 DEF Sums
<1> QED BY <1>7, <1>9

\* If every value is at least k times its weight, so is the sum.
LEMMA SumsAtLeast ==
  ASSUME NEW N \in Nat, NEW weights \in [1 .. N -> Nat], NEW y \in [1 .. N -> Int], NEW k \in Int,
         NEW s, NEW t, Sums(s, weights, N), Sums(t, y, N), \A n \in 1 .. N : y[n] >= weights[n] * k
  PROVE  s[N] \in Int /\ t[N] \in Int /\ t[N] >= s[N] * k
<1> DEFINE T == {n \in 0 .. N : ~ (t[n] >= s[n] * k)}
<1>1. T = {}
  <2>1. SUFFICES ASSUME T # {} PROVE FALSE
    OBVIOUS
  <2>2. PICK n \in T : \A j \in T : n <= j
    <3>1. T \in SUBSET Nat
      OBVIOUS
    <3> HIDE DEF T
    <3> QED BY <2>1, <3>1, LeastNatural
  <2>3. n \in 0 .. N /\ ~ (t[n] >= s[n] * k)
    BY <2>2
  <2>4. n # 0
    BY <2>3 DEF Sums
  <2>5. n - 1 \in 0 .. N /\ n \in 1 .. N /\ n - 1 \notin T
    BY <2>2, <2>3, <2>4
  <2> DEFINE a == s[n - 1]
             b == t[n - 1]
             c == weights[n]
             yn == y[n]
  <2>6. s[n] = a + c /\ t[n] = b + yn /\ a \in Int /\ b \in Int /\ c \in Int /\ yn \in Int
    BY <2>3, <2>4, <2>5 DEF Sums
  <2>7. b >= a * k /\ yn >= c * k
    BY <2>5
  <2> HIDE DEF a, b, c, yn
  <2>8. (a + c) * k = a * k + c * k /\ a * k \in Int /\ c * k \in Int
    BY <2>6
  <2> QED BY <2>3, <2>6, <2>7, <2>8
<1>2. N \in 0 .. N
  OBVIOUS
<1>3. t[N] >= s[N] * k
  BY <1>1, <1>2
<1>4. s[N] \in Int /\ t[N] \in Int
  BY <1>2 DEF Sums
<1> QED BY <1>3, <1>4

\* And if every value is at most k times its weight, so is the sum.
LEMMA SumsAtMost ==
  ASSUME NEW N \in Nat, NEW weights \in [1 .. N -> Nat], NEW y \in [1 .. N -> Int], NEW k \in Int,
         NEW s, NEW t, Sums(s, weights, N), Sums(t, y, N), \A n \in 1 .. N : y[n] <= weights[n] * k
  PROVE  s[N] \in Int /\ t[N] \in Int /\ t[N] <= s[N] * k
<1> DEFINE T == {n \in 0 .. N : ~ (t[n] <= s[n] * k)}
<1>1. T = {}
  <2>1. SUFFICES ASSUME T # {} PROVE FALSE
    OBVIOUS
  <2>2. PICK n \in T : \A j \in T : n <= j
    <3>1. T \in SUBSET Nat
      OBVIOUS
    <3> HIDE DEF T
    <3> QED BY <2>1, <3>1, LeastNatural
  <2>3. n \in 0 .. N /\ ~ (t[n] <= s[n] * k)
    BY <2>2
  <2>4. n # 0
    BY <2>3 DEF Sums
  <2>5. n - 1 \in 0 .. N /\ n \in 1 .. N /\ n - 1 \notin T
    BY <2>2, <2>3, <2>4
  <2> DEFINE a == s[n - 1]
             b == t[n - 1]
             c == weights[n]
             yn == y[n]
  <2>6. s[n] = a + c /\ t[n] = b + yn /\ a \in Int /\ b \in Int /\ c \in Int /\ yn \in Int
    BY <2>3, <2>4, <2>5 DEF Sums
  <2>7. b <= a * k /\ yn <= c * k
    BY <2>5
  <2> HIDE DEF a, b, c, yn
  <2>8. (a + c) * k = a * k + c * k /\ a * k \in Int /\ c * k \in Int
    BY <2>6
  <2> QED BY <2>3, <2>6, <2>7, <2>8
<1>2. N \in 0 .. N
  OBVIOUS
<1>3. t[N] <= s[N] * k
  BY <1>1, <1>2
<1>4. s[N] \in Int /\ t[N] \in Int
  BY <1>2 DEF Sums
<1> QED BY <1>3, <1>4

\* A sum of weights is at least each of them.
LEMMA SumsWeigh ==
  ASSUME NEW N \in Nat, NEW weights \in [1 .. N -> Nat], NEW s, Sums(s, weights, N), NEW p \in 1 .. N
  PROVE  s[N] >= weights[p]
<1>1. s \in [0 .. N -> Int]
  BY DEF Sums
<1>2. \A n \in 0 .. N : s[n] >= 0
  <2> DEFINE T == {n \in 0 .. N : ~ (s[n] >= 0)}
  <2>1. SUFFICES ASSUME T # {} PROVE FALSE
    OBVIOUS
  <2>2. PICK n \in T : \A j \in T : n <= j
    <3>1. T \in SUBSET Nat
      OBVIOUS
    <3> HIDE DEF T
    <3> QED BY <2>1, <3>1, LeastNatural
  <2>3. n \in 1 .. N /\ n - 1 \in 0 .. N /\ n - 1 \notin T
    <3>1. n \in 0 .. N /\ ~ (s[n] >= 0)
      BY <2>2
    <3>2. n # 0
      BY <3>1 DEF Sums
    <3> QED BY <2>2, <3>1, <3>2
  <2>4. s[n] = s[n - 1] + weights[n] /\ s[n - 1] >= 0 /\ s[n - 1] \in Int /\ weights[n] \in Nat
    BY <1>1, <2>3 DEF Sums
  <2> QED BY <2>2, <2>4
<1>3. s \in [0 .. N -> Nat]
  BY <1>1, <1>2
<1>4. \A n \in 1 .. N : s[n - 1] <= s[n]
  <2> SUFFICES ASSUME NEW n \in 1 .. N PROVE s[n - 1] <= s[n]
    OBVIOUS
  <2>1. s[n] = s[n - 1] + weights[n] /\ s[n - 1] \in Int /\ weights[n] \in Nat
    BY <1>1 DEF Sums
  <2> QED BY <2>1
<1>5. s[p] <= s[N]
  <2>1. p \in 0 .. N /\ N \in 0 .. N /\ p <= N
    OBVIOUS
  <2> QED BY <1>3, <1>4, <2>1, Monotone
<1>6. s[p] = s[p - 1] + weights[p] /\ s[p - 1] \in Nat /\ weights[p] \in Nat /\ s[N] \in Nat
  <2>1. p \in 0 .. N /\ p - 1 \in 0 .. N /\ N \in 0 .. N /\ p # 0
    OBVIOUS
  <2> QED BY <1>3, <2>1 DEF Sums
<1> QED BY <1>5, <1>6

-----------------------------------------------------------------------------
(* Fan health: the grade. *)

\* The averages of a good fan are above the drift that is graded, those of a
\* worn fan are not.
Tells(h, wear) ==
  \A p \in Points : h.samples[p] > 0 =>
    IF wear = "good" THEN h.ema[p] >= (FirstGrade(healthCfg) + 1) * Scale
    ELSE h.ema[p] <= FirstGrade(healthCfg) * Scale

AveragesTyped(h) ==
  h.samples \in [Points -> 0 .. WeightCap] /\ h.ema \in [Points -> Int]

\* The grade of a good fan, and of a worn one of which enough has been seen.
GradeTells(h, wear) ==
  /\ wear = "good" => h.severity = "HEALTHY"
  /\ wear = "worn" /\ h.confidence >= healthCfg.minPoints => h.severity # "HEALTHY"

\* The bounds of a configuration.
LEMMA HealthNumbers ==
  ASSUME healthCfg \in HealthCfgs
  PROVE  /\ Len(Baseline) \in Nat /\ Len(Baseline) >= 2
         /\ Lowest \in Nat
         /\ healthCfg.aging \in Int /\ healthCfg.degraded \in Int /\ healthCfg.failing \in Int
         /\ 0 > healthCfg.aging /\ healthCfg.aging > healthCfg.degraded
         /\ healthCfg.degraded > healthCfg.failing
         /\ FirstGrade(healthCfg) \in Int /\ FirstGrade(healthCfg) < 0
         /\ healthCfg.minPoints \in Nat /\ healthCfg.minPoints > 0
         /\ healthCfg.pwmTolerance \in Nat /\ healthCfg.pwmTicks \in Nat
         /\ healthCfg.rpmTicks \in Nat
         /\ StartLag < healthCfg.pwmTicks + SpinupTicks /\ 1 < healthCfg.pwmTicks
<1>1. Len(Baseline) \in Nat /\ Len(Baseline) >= 2 /\ Baseline \in Seq([x : Nat, rpm : Nat \ {0}])
  BY HealthAssumption, LenProperties DEF Baseline
<1>2. Baseline[1] \in [x : Nat, rpm : Nat \ {0}]
  <2>1. 1 \in 1 .. Len(Baseline)
    BY <1>1
  <2> QED BY <1>1, <2>1, ElementOfSeq
<1>3. Lowest \in Nat
  BY <1>2 DEF Lowest
<1>4. healthCfg.minPoints \in 1 .. Len(Baseline)
  BY HealthAssumption DEF Baseline
<1>5. healthCfg.minPoints \in Nat /\ healthCfg.minPoints > 0
  BY <1>1, <1>4
<1> QED BY <1>1, <1>3, <1>5, HealthAssumption DEF FirstGrade

\* A point's weight.
LEMMA WeightFacts ==
  ASSUME NEW counts \in [Points -> 0 .. WeightCap], NEW p \in Points
  PROVE  /\ Weight(p, counts) \in Nat
         /\ counts[p] = 0 => Weight(p, counts) = 0
         /\ counts[p] > 0 => Weight(p, counts) > 0
<1>1. counts[p] \in Nat
  BY UnitsAssumption
<1> QED BY <1>1 DEF Weight

\* The score lies where the averages lie, and so does the grade.
LEMMA RecomputedTells ==
  ASSUME healthCfg \in HealthCfgs, NEW h, AveragesTyped(h),
         {"samples", "ema", "delta", "severity", "confidence"} \subseteq DOMAIN h,
         NEW wear \in {"good", "worn"}, Tells(h, wear)
  PROVE  GradeTells(Recomputed(h), wear)
<1> DEFINE N == Len(Baseline)
           slow(p) == IF h.ema[p] > 0 THEN 0 ELSE h.ema[p]
           weights == [p \in Points |-> Weight(p, h.samples)]
           y == [p \in Points |-> Weight(p, h.samples) * slow(p)]
           seen == {p \in Points : h.samples[p] > 0}
           delta == IF Total(weights) > 0 THEN RoundedDiv(Total(y), Total(weights) * Scale) ELSE 0
           G == FirstGrade(healthCfg)
<1>1. /\ Recomputed(h).severity = Severity(delta, Cardinality(seen))
      /\ Recomputed(h).confidence = Cardinality(seen)
  BY DEF Recomputed
<1>2. N \in Nat /\ Points = 1 .. N /\ G \in Int /\ G < 0 /\ Scale \in Nat /\ Scale > 0
  BY HealthNumbers, UnitsAssumption DEF Points
<1>3. ASSUME NEW p \in Points
      PROVE  /\ Weight(p, h.samples) \in Nat /\ h.ema[p] \in Int /\ h.samples[p] \in Nat
             /\ h.samples[p] = 0 => Weight(p, h.samples) = 0
             /\ h.samples[p] > 0 => Weight(p, h.samples) > 0
  BY WeightFacts, UnitsAssumption DEF AveragesTyped
<1>4. weights \in [1 .. N -> Nat] /\ y \in [1 .. N -> Int]
  <2>1. \A p \in Points : Weight(p, h.samples) * slow(p) \in Int
    BY <1>3
  <2> QED BY <1>2, <1>3, <2>1
<1>5. PICK s : Sums(s, weights, N) /\ Total(weights) = s[N]
  <2>1. weights \in [1 .. N -> Int]
    BY <1>4
  <2> HIDE DEF weights
  <2> QED BY <1>2, <2>1, TotalSums
<1>6. PICK t : Sums(t, y, N) /\ Total(y) = t[N]
  <2> HIDE DEF y
  <2> QED BY <1>2, <1>4, TotalSums
<1>7. CASE wear = "good"
  <2> DEFINE k == (G + 1) * Scale
  <2>1. k \in Int /\ k <= 0
    <3>1. (-(G + 1)) * Scale >= 0 /\ (-(G + 1)) * Scale = -((G + 1) * Scale)
      BY <1>2
    <3> QED BY <1>2, <3>1
  <2>2. ASSUME NEW p \in 1 .. N PROVE y[p] >= weights[p] * k
    <3> DEFINE a == Weight(p, h.samples)
               b == slow(p)
    <3>1. p \in Points /\ a \in Nat /\ b \in Int /\ y[p] = a * b /\ weights[p] = a
      BY <1>2, <1>3
    <3>2. a = 0 \/ b >= k
      <4>1. h.samples[p] > 0 => h.ema[p] >= k
        BY <1>7, <3>1 DEF Tells
      <4> QED BY <1>3, <2>1, <3>1, <4>1
    <3> HIDE DEF a, b, k, y, weights
    <3>3. CASE a = 0
      BY <2>1, <3>1, <3>3
    <3>4. CASE b >= k
      <4>1. a * (b - k) >= 0 /\ a * (b - k) = a * b - a * k /\ a * b \in Int /\ a * k \in Int
        BY <2>1, <3>1, <3>4
      <4> QED BY <3>1, <4>1
    <3> QED BY <3>2, <3>3, <3>4
  <2>3. s[N] \in Int /\ t[N] \in Int /\ t[N] >= s[N] * k
    <3> HIDE DEF weights, y, k
    <3> QED BY <1>2, <1>4, <1>5, <1>6, <2>1, <2>2, SumsAtLeast
  <2>4. delta > G /\ delta \in Int
    <3>1. CASE Total(weights) > 0
      <4> DEFINE n == t[N]
                 den == s[N] * Scale
      <4>1. n \in Int /\ den \in Nat /\ den > 0
        <5> HIDE DEF weights, y, k
        <5>1. s[N] \in Nat /\ s[N] > 0
          BY <1>5, <2>3, <3>1
        <5> QED BY <1>2, <2>3, <5>1
      <4>2. n >= (G + 1) * den
        <5>1. (G + 1) * den = s[N] * k
          <6> HIDE DEF G
          <6> QED BY <1>2, <2>3
        <5> QED BY <2>3, <5>1
      <4>3. RoundedDiv(n, den) >= G + 1 /\ RoundedDiv(n, den) \in Int
        <5> DEFINE j == G + 1
        <5>1. j \in Int /\ n >= j * den
          BY <1>2, <4>2
        <5> HIDE DEF n, den, j
        <5>2. RoundedDiv(n, den) >= j /\ RoundedDiv(n, den) \in Int
          BY <4>1, <5>1, RoundedBounds, RoundedFacts
        <5> QED BY <5>2 DEF j
      <4>4. delta = RoundedDiv(n, den)
        <5> HIDE DEF weights, y
        <5> QED BY <1>5, <1>6, <3>1
      <4> HIDE DEF delta, n, den, G
      <4> QED BY <1>2, <4>3, <4>4
    <3>2. CASE ~ (Total(weights) > 0)
      BY <1>2, <3>2
    <3> QED BY <3>1, <3>2
  <2> HIDE DEF delta, seen
  <2>5. Severity(delta, Cardinality(seen)) = "HEALTHY"
    BY <2>4, HealthNumbers DEF Severity, FirstGrade
  <2> QED BY <1>1, <1>7, <2>5 DEF GradeTells
<1>8. CASE wear = "worn"
  <2> SUFFICES ASSUME Cardinality(seen) >= healthCfg.minPoints
               PROVE  Severity(delta, Cardinality(seen)) # "HEALTHY"
    BY <1>1, <1>8 DEF GradeTells
  <2> DEFINE k == G * Scale
  <2>1. k \in Int /\ k <= 0
    <3>1. (-G) * Scale >= 0 /\ (-G) * Scale = -(G * Scale)
      BY <1>2
    <3> QED BY <1>2, <3>1
  <2>2. ASSUME NEW p \in 1 .. N PROVE y[p] <= weights[p] * k
    <3> DEFINE a == Weight(p, h.samples)
               b == slow(p)
    <3>1. p \in Points /\ a \in Nat /\ b \in Int /\ y[p] = a * b /\ weights[p] = a
      BY <1>2, <1>3
    <3>2. a = 0 \/ b <= k
      <4>1. h.samples[p] > 0 => h.ema[p] <= k
        BY <1>8, <3>1 DEF Tells
      <4> QED BY <1>3, <2>1, <3>1, <4>1
    <3> HIDE DEF a, b, k, y, weights
    <3>3. CASE a = 0
      BY <2>1, <3>1, <3>3
    <3>4. CASE b <= k
      <4>1. a * (k - b) >= 0 /\ a * (k - b) = a * k - a * b /\ a * b \in Int /\ a * k \in Int
        BY <2>1, <3>1, <3>4
      <4> QED BY <3>1, <4>1
    <3> QED BY <3>2, <3>3, <3>4
  <2>3. s[N] \in Int /\ t[N] \in Int /\ t[N] <= s[N] * k
    <3> HIDE DEF weights, y, k
    <3> QED BY <1>2, <1>4, <1>5, <1>6, <2>1, <2>2, SumsAtMost
  <2>4. Total(weights) > 0
    <3>1. seen # {}
      <4>1. Cardinality({}) = 0
        BY FS_EmptySet
      <4>2. healthCfg.minPoints \in Nat /\ healthCfg.minPoints > 0
        BY HealthNumbers
      <4>3. Cardinality(seen) >= healthCfg.minPoints
        OBVIOUS
      <4> HIDE DEF seen
      <4> QED BY <4>1, <4>2, <4>3
    <3>2. PICK p \in Points : h.samples[p] > 0
      BY <3>1
    <3>3. s[N] >= weights[p] /\ p \in 1 .. N
      <4>1. p \in 1 .. N
        BY <1>2
      <4> HIDE DEF weights
      <4> QED BY <1>2, <1>4, <1>5, <4>1, SumsWeigh
    <3>4. weights[p] > 0 /\ weights[p] \in Nat
      BY <1>3, <3>2
    <3> HIDE DEF weights
    <3> QED BY <1>5, <2>3, <3>3, <3>4
  <2>5. delta <= G /\ delta \in Int
    <3> DEFINE n == t[N]
               den == s[N] * Scale
    <3>1. n \in Int /\ den \in Nat /\ den > 0
      <4> HIDE DEF weights, y, k
      <4>1. s[N] \in Nat /\ s[N] > 0
        BY <1>5, <2>3, <2>4
      <4> QED BY <1>2, <2>3, <4>1
    <3>2. n <= G * den
      <4>1. G * den = s[N] * k
        <5> HIDE DEF G
        <5> QED BY <1>2, <2>3
      <4> QED BY <2>3, <4>1
    <3>3. RoundedDiv(n, den) <= G /\ RoundedDiv(n, den) \in Int
      <4> HIDE DEF n, den, G
      <4> QED BY <1>2, <3>1, <3>2, RoundedBounds, RoundedFacts
    <3>4. delta = RoundedDiv(n, den)
      <4> HIDE DEF weights, y
      <4> QED BY <1>5, <1>6, <2>4
    <3> QED BY <3>3, <3>4
  <2> HIDE DEF delta, seen
  <2> QED BY <2>5, HealthNumbers DEF Severity, FirstGrade
<1> QED BY <1>7, <1>8

-----------------------------------------------------------------------------
(* Fan health: a step of the detector. *)

HealthFields ==
  {"window", "prevLow", "spinup", "prevOverride", "ema", "samples", "delta", "severity", "confidence"}

\* An average and a sample on the same side of a bound leave the average there.
LEMMA Averaged ==
  ASSUME NEW e \in Int, NEW t \in Int, NEW b \in Int
  PROVE  /\ e + TruncDiv(t - e, 8) \in Int
         /\ e >= b /\ t >= b => e + TruncDiv(t - e, 8) >= b
         /\ e <= b /\ t <= b => e + TruncDiv(t - e, 8) <= b
<1> DEFINE rest == t - e
           q == TruncDiv(rest, 8)
<1>1. rest \in Int
  OBVIOUS
<1>2. /\ rest >= 0 => q \in 0 .. rest
      /\ rest < 0 => q \in rest .. 0
  <2> HIDE DEF rest
  <2> QED BY <1>1 DEF TruncDiv
<1> HIDE DEF q
<1> QED BY <1>1, <1>2 DEF q

\* A sample on the fan's own side of the first grade leaves the averages, and
\* so the grade, on that side.
LEMMA FoldedTells ==
  ASSUME healthCfg \in HealthCfgs, NEW h, AveragesTyped(h), DOMAIN h = HealthFields,
         NEW wear \in {"good", "worn"}, Tells(h, wear), NEW pwm, NEW rpm,
         Drift(Baseline, pwm, rpm) \in Int,
         wear = "good" => Drift(Baseline, pwm, rpm) > FirstGrade(healthCfg),
         wear = "worn" => Drift(Baseline, pwm, rpm) <= FirstGrade(healthCfg)
  PROVE  LET r == Folded(h, pwm, rpm)
         IN  /\ DOMAIN r = HealthFields
             /\ r.window = h.window /\ r.prevLow = h.prevLow /\ r.spinup = h.spinup
             /\ AveragesTyped(r) /\ Tells(r, wear) /\ GradeTells(r, wear)
<1> DEFINE G == FirstGrade(healthCfg)
           drift == Drift(Baseline, pwm, rpm)
           target == drift * Scale
           p == NearestPoint(pwm)
           average == IF h.samples[p] = 0 THEN target ELSE h.ema[p] + TruncDiv(target - h.ema[p], 8)
           m == [h EXCEPT !.ema[p] = average,
                          !.samples[p] = IF @ < WeightCap THEN @ + 1 ELSE @]
           r == Folded(h, pwm, rpm)
<1>1. r = Recomputed(m)
  BY DEF Folded
<1>2. /\ G \in Int /\ G < 0 /\ Scale \in Nat /\ Scale > 0 /\ WeightCap \in Nat /\ WeightCap > 0
      /\ target \in Int
  BY HealthNumbers, UnitsAssumption
<1>3. /\ wear = "good" => target >= (G + 1) * Scale
      /\ wear = "worn" => target <= G * Scale
  <2> HIDE DEF G, drift
  <2>1. ASSUME drift \in Int, drift >= G + 1 PROVE drift * Scale >= (G + 1) * Scale
    <3>1. (drift - (G + 1)) * Scale >= 0
      BY <1>2, <2>1
    <3>2. (drift - (G + 1)) * Scale = drift * Scale - (G + 1) * Scale
      BY <1>2, <2>1
    <3>3. drift * Scale \in Int /\ (G + 1) * Scale \in Int
      BY <1>2, <2>1
    <3> QED BY <3>1, <3>2, <3>3
  <2>2. ASSUME drift \in Int, drift <= G PROVE drift * Scale <= G * Scale
    <3>1. (G - drift) * Scale >= 0
      BY <1>2, <2>2
    <3>2. (G - drift) * Scale = G * Scale - drift * Scale
      BY <1>2, <2>2
    <3>3. drift * Scale \in Int /\ G * Scale \in Int
      BY <1>2, <2>2
    <3> QED BY <3>1, <3>2, <3>3
  <2>3. drift \in Int /\ (wear = "good" => drift >= G + 1) /\ (wear = "worn" => drift <= G)
    BY <1>2 DEF G, drift
  <2> QED BY <2>1, <2>2, <2>3
<1> HIDE DEF target, p
<1>4. ASSUME NEW q \in Points
      PROVE  /\ m.ema[q] = IF q = p THEN average ELSE h.ema[q]
             /\ m.samples[q] = IF q = p /\ h.samples[q] < WeightCap THEN h.samples[q] + 1 ELSE h.samples[q]
             /\ h.samples[q] \in 0 .. WeightCap /\ h.ema[q] \in Int
  BY DEF AveragesTyped, HealthFields
<1>5. ASSUME NEW q \in Points
      PROVE  /\ m.ema[q] \in Int /\ m.samples[q] \in 0 .. WeightCap
             /\ m.samples[q] > 0 => IF wear = "good" THEN m.ema[q] >= (G + 1) * Scale
                                    ELSE m.ema[q] <= G * Scale
  <2> DEFINE old == h.ema[q]
  <2>1. old \in Int /\ h.samples[q] \in 0 .. WeightCap
    BY <1>4
  <2>2. m.samples[q] \in 0 .. WeightCap
    BY <1>2, <1>4
  <2>3. h.samples[q] > 0 => IF wear = "good" THEN old >= (G + 1) * Scale ELSE old <= G * Scale
    BY DEF Tells
  <2>4. CASE q # p
    BY <1>4, <2>1, <2>2, <2>3, <2>4
  <2>5. CASE q = p /\ h.samples[q] = 0
    <3>1. m.ema[q] = target
      BY <1>4, <2>5
    <3> QED BY <1>2, <1>3, <2>2, <3>1
  <2>6. CASE q = p /\ h.samples[q] # 0
    <3>1. m.ema[q] = old + TruncDiv(target - old, 8)
      BY <1>4, <2>6
    <3>2. IF wear = "good" THEN old >= (G + 1) * Scale ELSE old <= G * Scale
      BY <2>1, <2>3, <2>6
    <3> DEFINE b == (G + 1) * Scale
               c == G * Scale
    <3>3. b \in Int /\ c \in Int
      <4> HIDE DEF G
      <4> QED BY <1>2
    <3>4. /\ old + TruncDiv(target - old, 8) \in Int
          /\ old >= b /\ target >= b => old + TruncDiv(target - old, 8) >= b
          /\ old <= c /\ target <= c => old + TruncDiv(target - old, 8) <= c
      <4> HIDE DEF b, c, old
      <4> QED BY <1>2, <2>1, <3>3, Averaged
    <3> HIDE DEF m, old
    <3> QED BY <1>3, <2>2, <3>1, <3>2, <3>4
  <2> QED BY <2>4, <2>5, <2>6
<1>6. /\ DOMAIN m = HealthFields
      /\ m.window = h.window /\ m.prevLow = h.prevLow /\ m.spinup = h.spinup
  BY DEF HealthFields
<1>7. AveragesTyped(m)
  <2>1. m.ema = [q \in Points |-> m.ema[q]] /\ m.samples = [q \in Points |-> m.samples[q]]
    BY DEF AveragesTyped, HealthFields
  <2> HIDE DEF m
  <2> QED BY <1>5, <2>1 DEF AveragesTyped
<1> HIDE DEF m
<1>8. Tells(m, wear)
  BY <1>5 DEF Tells
<1>9. GradeTells(r, wear)
  BY <1>1, <1>6, <1>7, <1>8, RecomputedTells DEF HealthFields
<1>10. /\ DOMAIN r = DOMAIN m /\ r.window = m.window /\ r.prevLow = m.prevLow
       /\ r.spinup = m.spinup /\ r.ema = m.ema /\ r.samples = m.samples
  BY <1>1 DEF Recomputed
<1> HIDE DEF r
<1>11. AveragesTyped(r) /\ Tells(r, wear)
  BY <1>7, <1>8, <1>10 DEF AveragesTyped, Tells
<1> QED BY <1>6, <1>9, <1>10, <1>11 DEF r

-----------------------------------------------------------------------------
(* Fan health: the steady window sees a fan that has settled.  A fan that is *)
(* still starting is behind the spin-up grace and the ticks the window needs *)
(* (StartSeen); otherwise what the tach reads belongs to two duties of the   *)
(* window (SpeedSeen), for which the grades tell good from worn.             *)

HealthTyped ==
  /\ healthCfg \in HealthCfgs
  /\ applied.duty \in HealthDuties
  /\ DOMAIN turning = {"wear", "rpm", "lag"}
  /\ turning.wear \in {"good", "worn"} /\ turning.rpm \in Int /\ turning.lag \in 0 .. StartLag
  /\ DOMAIN health = HealthFields /\ health.spinup \in Nat /\ health.prevLow \in BOOLEAN
  /\ AveragesTyped(health)
  /\ health.window.open \in BOOLEAN
  /\ health.window.open => /\ health.window \in [open : BOOLEAN, ref : HealthDuties, pwmRun : Nat,
                                                 rpm : Int, rpmRun : Int]
                           /\ Lowest <= health.window.ref

StartSeen ==
  turning.lag > 0 =>
    /\ Lowest <= applied.duty
    /\ \/ health.prevLow /\ ~ health.window.open
       \/ /\ health.spinup + StartLag >= SpinupTicks + turning.lag
          /\ health.window.open => health.window.pwmRun + SpinupTicks + turning.lag <= StartLag

Between(r, a, b) == (a <= r /\ r <= b) \/ (b <= r /\ r <= a)

SpeedSeen ==
  turning.lag = 0 /\ health.window.open /\ Lowest <= applied.duty =>
    \E before \in HealthDuties :
      /\ Lowest <= before /\ Distance(before, health.window.ref) <= healthCfg.pwmTolerance
      /\ Between(turning.rpm, SettledSpeed(before), SettledSpeed(applied.duty))

HealthInv ==
  /\ HealthTyped /\ StartSeen /\ SpeedSeen
  /\ Tells(health, turning.wear) /\ GradeTells(health, turning.wear)

\* A settled fan has a speed.
LEMMA SettledNumber ==
  ASSUME healthCfg \in HealthCfgs, NEW pwm \in HealthDuties
  PROVE  SettledSpeed(pwm) \in Int
<1> DEFINE e == CurveEval(Baseline, "rpm", pwm)
           share == IF turning.wear = "good" THEN 100 ELSE WornShare
<1>1. e \in Nat /\ share \in Nat
  <2>1. pwm \in Nat
    BY UnitsAssumption
  <2>2. CurveEval(healthCfg.baseline, "rpm", pwm) \in Nat
    BY <2>1, BaselineSpeed
  <2>3. WornShare \in Nat
    BY UnitsAssumption
  <2> QED BY <2>2, <2>3 DEF Baseline
<1> HIDE DEF e, share
<1>2. e * share \in Nat
  BY <1>1
<1>3. (e * share) \div 100 \in Int
  <2> DEFINE n == e * share
  <2>1. n \in Nat
    BY <1>2
  <2> HIDE DEF n
  <2>2. n \div 100 \in Int
    BY <2>1
  <2> QED BY <2>2 DEF n
<1> QED BY <1>3 DEF SettledSpeed, SpeedOf, Lowest, e, share

\* The distance of two duties of a window.
LEMMA WindowDistance ==
  ASSUME NEW a \in Nat, NEW b \in Nat, NEW r \in Nat, NEW tol \in Nat,
         Distance(a, r) <= tol, Distance(b, r) <= tol
  PROVE  Distance(a, b) <= 2 * tol
BY DEF Distance

\* So a sample the detector takes is on the fan's own side of the first grade.
LEMMA DriftTells ==
  ASSUME HealthInv, Lowest <= applied.duty, health.window.open,
         Distance(applied.duty, health.window.ref) <= healthCfg.pwmTolerance,
         health.window.pwmRun + 1 >= healthCfg.pwmTicks
  PROVE  /\ Drift(Baseline, applied.duty, turning.rpm) \in Int
         /\ turning.wear = "good" => Drift(Baseline, applied.duty, turning.rpm) > FirstGrade(healthCfg)
         /\ turning.wear = "worn" => Drift(Baseline, applied.duty, turning.rpm) <= FirstGrade(healthCfg)
<1> DEFINE pwm == applied.duty
           rpm == turning.rpm
           lag == turning.lag
           run == health.window.pwmRun
           D(r) == Drift(Baseline, pwm, r)
           G == FirstGrade(healthCfg)
<1>1. /\ healthCfg \in HealthCfgs /\ pwm \in HealthDuties /\ pwm \in Nat /\ rpm \in Int
      /\ lag \in Nat /\ turning.wear \in {"good", "worn"}
      /\ health.window.ref \in HealthDuties /\ health.window.ref \in Nat /\ run \in Nat
  <2> USE DEF HealthInv, HealthTyped
  <2>1. healthCfg \in HealthCfgs /\ pwm \in HealthDuties /\ rpm \in Int /\ turning.wear \in {"good", "worn"}
    OBVIOUS
  <2>2. lag \in Nat
    <3>1. lag \in 0 .. StartLag
      OBVIOUS
    <3> HIDE DEF lag
    <3> QED BY <3>1, UnitsAssumption
  <2>3. health.window.ref \in HealthDuties /\ run \in Nat
    <3>1. health.window \in [open : BOOLEAN, ref : HealthDuties, pwmRun : Nat, rpm : Int, rpmRun : Int]
      OBVIOUS
    <3> QED BY <3>1
  <2> HIDE DEF HealthInv, HealthTyped
  <2> QED BY <2>1, <2>2, <2>3, UnitsAssumption
<1>2. lag = 0
  <2>1. SUFFICES ASSUME lag > 0 PROVE FALSE
    BY <1>1
  <2>2. run + SpinupTicks + lag <= StartLag
    BY <2>1 DEF HealthInv, StartSeen
  <2>3. /\ StartLag \in Nat /\ SpinupTicks \in Nat /\ healthCfg.pwmTicks \in Nat
        /\ StartLag < healthCfg.pwmTicks + SpinupTicks /\ run + 1 >= healthCfg.pwmTicks
    BY <1>1, HealthNumbers, UnitsAssumption
  <2> HIDE DEF run, lag
  <2> QED BY <1>1, <2>1, <2>2, <2>3
<1>3. PICK before \in HealthDuties :
        /\ Lowest <= before /\ Distance(before, health.window.ref) <= healthCfg.pwmTolerance
        /\ Between(rpm, SettledSpeed(before), SettledSpeed(pwm))
  BY <1>2 DEF HealthInv, SpeedSeen
<1> DEFINE a == SettledSpeed(before)
           b == SettledSpeed(pwm)
<1>4. a \in Int /\ b \in Int
  BY <1>1, SettledNumber
<1>5. ASSUME NEW other \in HealthDuties, Lowest <= other,
             Distance(other, health.window.ref) <= healthCfg.pwmTolerance
      PROVE  /\ turning.wear = "good" => D(SettledSpeed(other)) > G
             /\ turning.wear = "worn" => D(SettledSpeed(other)) <= G
  <2>1. Distance(pwm, other) <= 2 * healthCfg.pwmTolerance
    <3>1. other \in Nat /\ healthCfg.pwmTolerance \in Nat
      BY <1>1, HealthNumbers, UnitsAssumption
    <3> QED BY <1>1, <1>5, <3>1, WindowDistance
  <2>2. healthCfg.baseline[1].x <= pwm /\ healthCfg.baseline[1].x <= other
    BY <1>5 DEF Lowest, Baseline
  <2>3. /\ Drift(healthCfg.baseline, pwm, SpeedOf(healthCfg.baseline, "good", other)) > G
        /\ Drift(healthCfg.baseline, pwm, SpeedOf(healthCfg.baseline, "worn", other)) <= G
    BY <1>1, <2>1, <2>2, WearAssumption
  <2> QED BY <2>3 DEF SettledSpeed, Baseline
<1>6. Distance(pwm, health.window.ref) <= healthCfg.pwmTolerance
  OBVIOUS
<1>7. /\ turning.wear = "good" => D(a) > G /\ D(b) > G
      /\ turning.wear = "worn" => D(a) <= G /\ D(b) <= G
  BY <1>1, <1>3, <1>5, <1>6
<1>8. G \in Int
  BY <1>1, HealthNumbers
<1>9. (a <= rpm /\ rpm <= b) \/ (b <= rpm /\ rpm <= a)
  BY <1>3 DEF Between
<1> HIDE DEF a, b, rpm
<1>10. ASSUME NEW low \in Int, NEW high \in Int, low <= high
       PROVE  D(low) \in Int /\ D(high) \in Int /\ D(low) <= D(high)
  <2>1. pwm \in Nat /\ healthCfg \in HealthCfgs
    BY <1>1
  <2> HIDE DEF pwm
  <2> QED BY <1>10, <2>1, DriftOrder DEF Baseline
<1> HIDE DEF D, G, pwm
<1>11. /\ D(rpm) \in Int
       /\ turning.wear = "good" => D(rpm) > G
       /\ turning.wear = "worn" => D(rpm) <= G
  <2>1. CASE a <= rpm /\ rpm <= b
    <3>1. D(a) \in Int /\ D(rpm) \in Int /\ D(b) \in Int /\ D(a) <= D(rpm) /\ D(rpm) <= D(b)
      BY <1>1, <1>4, <1>10, <2>1
    <3> QED BY <1>7, <1>8, <3>1
  <2>2. CASE b <= rpm /\ rpm <= a
    <3>1. D(a) \in Int /\ D(rpm) \in Int /\ D(b) \in Int /\ D(b) <= D(rpm) /\ D(rpm) <= D(a)
      BY <1>1, <1>4, <1>10, <2>2
    <3> QED BY <1>7, <1>8, <3>1
  <2> QED BY <1>9, <2>1, <2>2
<1> QED BY <1>11 DEF D, G, pwm, rpm

\* What a step of the detector leaves: the start is remembered and its grace
\* counted down, a window is only open on evidence of steady operation, and
\* the averages stay on the fan's own side of the first grade.
LEMMA StepTells ==
  ASSUME HealthInv, NEW ok \in BOOLEAN, NEW forced \in BOOLEAN
  PROVE  LET r    == HealthStep(health, turning.rpm, ok, forced)
             low  == applied.duty < Lowest
             left == SpinupLeft(health, low)
         IN  /\ DOMAIN r = HealthFields /\ r.prevLow = low
             /\ r.spinup = IF left > 0 THEN left - 1 ELSE 0
             /\ AveragesTyped(r) /\ Tells(r, turning.wear) /\ GradeTells(r, turning.wear)
             /\ r.window.open \in BOOLEAN
             /\ r.window.open =>
                  /\ ~ low /\ ~ (left > 0) /\ Lowest <= r.window.ref
                  /\ r.window \in [open : BOOLEAN, ref : HealthDuties, pwmRun : Nat,
                                   rpm : Int, rpmRun : Int]
                  /\ Distance(applied.duty, r.window.ref) <= healthCfg.pwmTolerance
                  /\ \/ r.window.pwmRun = 1
                     \/ health.window.open /\ r.window.pwmRun <= health.window.pwmRun + 1
<1> DEFINE r == HealthStep(health, turning.rpm, ok, forced)
           low == applied.duty < Lowest
           left == SpinupLeft(health, low)
           gated == ~ok \/ low \/ left > 0 \/ applied.slewed \/ forced \/ health.prevOverride
           window == health.window
           rpm == turning.rpm
           wear == turning.wear
           far == ~ window.open \/ Distance(applied.duty, window.ref) > healthCfg.pwmTolerance
           g == [health EXCEPT !.prevLow = low, !.prevOverride = forced,
                               !.spinup = IF left > 0 THEN left - 1 ELSE 0]
           next == Continued(window, rpm)
           short == next.pwmRun < healthCfg.pwmTicks \/ next.rpmRun < healthCfg.rpmTicks
           Seen(h) == [g EXCEPT !.window = h]
<1>1. /\ gated => r = Seen(Window0)
      /\ ~ gated /\ far => r = Seen(OpenAt(applied.duty, rpm))
      /\ ~ gated /\ ~ far => r = IF short THEN Seen(next) ELSE Folded(Seen(next), applied.duty, rpm)
  BY DEF HealthStep, AfterGate
<1>2. /\ healthCfg \in HealthCfgs /\ applied.duty \in HealthDuties /\ applied.duty \in Nat
      /\ rpm \in Int /\ wear \in {"good", "worn"} /\ DOMAIN health = HealthFields
      /\ AveragesTyped(health) /\ Tells(health, wear) /\ GradeTells(health, wear)
  BY UnitsAssumption DEF HealthInv, HealthTyped
<1>3. /\ Lowest \in Nat /\ healthCfg.pwmTolerance \in Nat
      /\ healthCfg.pwmTicks \in Nat /\ healthCfg.rpmTicks \in Nat
  BY <1>2, HealthNumbers
<1>4. ASSUME NEW h
      PROVE  /\ DOMAIN Seen(h) = HealthFields /\ Seen(h).window = h /\ Seen(h).prevLow = low
             /\ Seen(h).spinup = IF left > 0 THEN left - 1 ELSE 0
             /\ AveragesTyped(Seen(h)) /\ Tells(Seen(h), wear) /\ GradeTells(Seen(h), wear)
  <2> DEFINE s == Seen(h)
  <2>1. /\ DOMAIN s = HealthFields /\ s.window = h /\ s.prevLow = low
        /\ s.spinup = IF left > 0 THEN left - 1 ELSE 0
        /\ s.ema = health.ema /\ s.samples = health.samples
        /\ s.severity = health.severity /\ s.confidence = health.confidence
    <3> HIDE DEF low, left
    <3> QED BY <1>2 DEF HealthFields
  <2> HIDE DEF s
  <2>2. AveragesTyped(s) /\ Tells(s, wear) /\ GradeTells(s, wear)
    BY <1>2, <2>1 DEF AveragesTyped, Tells, GradeTells
  <2> QED BY <2>1, <2>2 DEF s
<1> HIDE DEF r, low, left, g, Seen
<1>5. CASE gated
  <2>1. r = Seen(Window0)
    BY <1>1, <1>5
  <2>2. Window0.open = FALSE
    BY DEF Window0
  <2> QED BY <1>4, <2>1, <2>2 DEF r, low, left
<1>6. CASE ~ gated /\ far
  <2> DEFINE o == OpenAt(applied.duty, rpm)
  <2>1. r = Seen(o)
    BY <1>1, <1>6
  <2>2. /\ o \in [open : BOOLEAN, ref : HealthDuties, pwmRun : Nat, rpm : Int, rpmRun : Int]
        /\ o.open = TRUE /\ o.ref = applied.duty /\ o.pwmRun = 1
    BY <1>2 DEF OpenAt
  <2> HIDE DEF o
  <2>3. ~ low /\ ~ (left > 0)
    BY <1>6
  <2>4. Lowest <= applied.duty
    BY <1>2, <1>3, <2>3 DEF low
  <2>5. Distance(applied.duty, applied.duty) <= healthCfg.pwmTolerance
    BY <1>2, <1>3 DEF Distance
  <2>6. /\ DOMAIN r = HealthFields /\ r.window = o /\ r.prevLow = low
        /\ r.spinup = IF left > 0 THEN left - 1 ELSE 0
        /\ AveragesTyped(r) /\ Tells(r, wear) /\ GradeTells(r, wear)
    BY <1>4, <2>1
  <2> QED BY <2>2, <2>3, <2>4, <2>5, <2>6 DEF r, low, left
<1>7. CASE ~ gated /\ ~ far
  <2>1. /\ window.open /\ window \in [open : BOOLEAN, ref : HealthDuties, pwmRun : Nat, rpm : Int, rpmRun : Int]
        /\ Lowest <= window.ref
    BY <1>7 DEF HealthInv, HealthTyped
  <2>2. ~ low /\ ~ (left > 0)
    BY <1>7
  <2>3. window.ref \in Nat
    BY <2>1, UnitsAssumption
  <2>4. Distance(applied.duty, window.ref) <= healthCfg.pwmTolerance
    <3>1. Distance(applied.duty, window.ref) \in Int
      BY <1>2, <2>3 DEF Distance
    <3>2. ~ (Distance(applied.duty, window.ref) > healthCfg.pwmTolerance)
      BY <1>7
    <3> QED BY <1>3, <3>1, <3>2
  <2>5. /\ next \in [open : BOOLEAN, ref : HealthDuties, pwmRun : Nat, rpm : Int, rpmRun : Int]
        /\ next.open = TRUE /\ next.ref = window.ref /\ next.pwmRun <= window.pwmRun + 1
    <3> DEFINE settled == Distance(rpm, window.rpm) * 100 <= healthCfg.rpmTolerance * window.rpm
               a == Extended(window.pwmRun, healthCfg.pwmTicks)
               b == IF settled THEN Extended(window.rpmRun, healthCfg.rpmTicks) ELSE 1
    <3>1. a \in Nat /\ a <= window.pwmRun + 1 /\ b \in Int
      <4>1. window.pwmRun \in Nat /\ window.rpmRun \in Int
        BY <2>1
      <4> HIDE DEF settled
      <4> QED BY <4>1 DEF Extended
    <3>2. next = [window EXCEPT !.pwmRun = a, !.rpm = rpm, !.rpmRun = b]
      BY DEF Continued
    <3> HIDE DEF a, b, next
    <3> QED BY <1>2, <2>1, <3>1, <3>2
  <2>6. /\ DOMAIN r = HealthFields /\ r.window = next /\ r.prevLow = low
        /\ r.spinup = IF left > 0 THEN left - 1 ELSE 0
        /\ AveragesTyped(r) /\ Tells(r, wear) /\ GradeTells(r, wear)
    <3>1. CASE short
      <4>1. r = Seen(next)
        BY <1>1, <1>7, <3>1
      <4> HIDE DEF next
      <4> QED BY <1>4, <4>1
    <3>2. CASE ~ short
      <4> DEFINE s == Seen(next)
      <4>1. r = Folded(s, applied.duty, rpm)
        BY <1>1, <1>7, <3>2
      <4>2. /\ DOMAIN s = HealthFields /\ s.window = next /\ s.prevLow = low
            /\ s.spinup = IF left > 0 THEN left - 1 ELSE 0
            /\ AveragesTyped(s) /\ Tells(s, wear)
        <5> HIDE DEF next
        <5> QED BY <1>4
      <4>3. window.pwmRun + 1 >= healthCfg.pwmTicks
        <5>1. ~ (next.pwmRun < healthCfg.pwmTicks)
          BY <3>2
        <5>2. next.pwmRun \in Nat /\ window.pwmRun \in Nat
          BY <2>1, <2>5
        <5> HIDE DEF next, window
        <5> QED BY <1>3, <2>5, <5>1, <5>2
      <4>4. Lowest <= applied.duty
        BY <1>2, <1>3, <2>2 DEF low
      <4>5. /\ Drift(Baseline, applied.duty, rpm) \in Int
            /\ wear = "good" => Drift(Baseline, applied.duty, rpm) > FirstGrade(healthCfg)
            /\ wear = "worn" => Drift(Baseline, applied.duty, rpm) <= FirstGrade(healthCfg)
        BY <2>1, <2>4, <4>3, <4>4, DriftTells
      <4> HIDE DEF s, next, window, rpm, wear
      <4> QED BY <1>2, <4>1, <4>2, <4>5, FoldedTells
    <3> QED BY <3>1, <3>2
  <2> HIDE DEF next
  <2> QED BY <2>1, <2>2, <2>4, <2>5, <2>6 DEF r, low, left
<1> QED BY <1>5, <1>6, <1>7

\* Counting down: the grace and the periods until the fan has settled.
LEMMA StartArithmetic ==
  ASSUME NEW slow \in Nat, NEW spin \in Nat, NEW lag \in Nat, lag > 0,
         NEW left \in Nat, left + slow >= spin + lag
  PROVE  /\ (IF left > 0 THEN left - 1 ELSE 0) + slow >= spin + (lag - 1)
         /\ \A run, old \in Nat :
              /\ ~ (left > 0)
              /\ run = 1 \/ (old + spin + lag <= slow /\ run <= old + 1)
              => run + spin + (lag - 1) <= slow
OBVIOUS

\* A tick of the detector and the fan keeps the invariant.
LEMMA TickKeepsHealth ==
  ASSUME HealthInv, NEW ok \in BOOLEAN, NEW forced \in BOOLEAN,
         NEW pwm \in HealthDuties, NEW slewed \in BOOLEAN,
         HealthTick(ok, forced, pwm, slewed)
  PROVE  HealthInv'
<1> DEFINE r == HealthStep(health, turning.rpm, ok, forced)
           low == applied.duty < Lowest
           left == SpinupLeft(health, low)
           wear == turning.wear
           lag == turning.lag
           goal == SettledSpeed(pwm)
           rest == IF lag > 0 THEN lag - 1 ELSE 0
           begun == IF pwm >= Lowest /\ low THEN StartLag ELSE rest
           from == IF begun > 0 THEN turning.rpm ELSE SettledSpeed(applied.duty)
           moving == IF pwm >= Lowest /\ (begun > 0 \/ pwm # applied.duty)
                     THEN OnTheWay(from, goal) ELSE {}
<1>1. PICK rpm \in {goal} \cup moving :
        turning' = [turning EXCEPT !.rpm = rpm, !.lag = IF pwm >= Lowest THEN begun ELSE 0]
  BY DEF HealthTick
<1>2. /\ health' = r /\ healthCfg' = healthCfg
      /\ applied' = [duty |-> pwm, slewed |-> slewed]
  BY DEF HealthTick
<1>3. /\ healthCfg \in HealthCfgs /\ applied.duty \in HealthDuties /\ applied.duty \in Nat
      /\ pwm \in Nat /\ turning.rpm \in Int /\ wear \in {"good", "worn"}
      /\ DOMAIN turning = {"wear", "rpm", "lag"} /\ lag \in 0 .. StartLag /\ lag \in Nat
      /\ health.spinup \in Nat /\ health.prevLow \in BOOLEAN
      /\ StartLag \in Nat /\ SpinupTicks \in Nat /\ Lowest \in Nat
  <2>1. lag \in 0 .. StartLag /\ StartLag \in Nat
    BY UnitsAssumption DEF HealthInv, HealthTyped
  <2>2. lag \in Nat
    <3> HIDE DEF lag
    <3> QED BY <2>1
  <2> QED BY <2>1, <2>2, HealthNumbers, UnitsAssumption DEF HealthInv, HealthTyped
<1>4. /\ DOMAIN r = HealthFields /\ r.prevLow = low
      /\ r.spinup = IF left > 0 THEN left - 1 ELSE 0
      /\ AveragesTyped(r) /\ Tells(r, wear) /\ GradeTells(r, wear)
      /\ r.window.open \in BOOLEAN
      /\ r.window.open =>
           /\ ~ low /\ ~ (left > 0) /\ Lowest <= r.window.ref
           /\ r.window \in [open : BOOLEAN, ref : HealthDuties, pwmRun : Nat, rpm : Int, rpmRun : Int]
           /\ Distance(applied.duty, r.window.ref) <= healthCfg.pwmTolerance
           /\ \/ r.window.pwmRun = 1
              \/ health.window.open /\ r.window.pwmRun <= health.window.pwmRun + 1
  BY StepTells
<1>5. left \in Nat
  BY <1>3 DEF SpinupLeft
<1>6. goal \in Int /\ SettledSpeed(applied.duty) \in Int
  BY <1>3, SettledNumber
<1>7. begun \in 0 .. StartLag
  <2> HIDE DEF low, lag
  <2> QED BY <1>3
<1>8. from \in Int
  BY <1>3, <1>6
<1>9. rpm \in Int /\ (~ (begun > 0) /\ pwm >= Lowest => Between(rpm, SettledSpeed(applied.duty), goal))
  <2> HIDE DEF goal, begun, low, lag
  <2>1. CASE rpm = goal
    BY <1>6, <2>1 DEF Between
  <2>2. CASE rpm \in OnTheWay(from, goal)
    <3>1. rpm \in Int /\ Between(rpm, from, goal)
      <4>1. Speeds \subseteq Int
        BY UnitsAssumption
      <4> HIDE DEF from
      <4> QED BY <1>6, <1>8, <2>2, <4>1 DEF OnTheWay, Between
    <3> QED BY <3>1
  <2> QED BY <2>1, <2>2
<1> DEFINE lag2 == IF pwm >= Lowest THEN begun ELSE 0
<1>10. /\ turning'.rpm = rpm /\ turning'.lag = lag2 /\ turning'.wear = wear
       /\ DOMAIN turning' = {"wear", "rpm", "lag"}
  <2> HIDE DEF begun
  <2> QED BY <1>1, <1>3
<1>11. /\ Points' = Points /\ Lowest' = Lowest
       /\ FirstGrade(healthCfg)' = FirstGrade(healthCfg)
       /\ applied'.duty = pwm
  BY <1>2 DEF Points, Lowest, Baseline
<1> HIDE DEF r
<1>12. AveragesTyped(health)' /\ Tells(health, turning.wear)' /\ GradeTells(health, turning.wear)'
  BY <1>2, <1>4, <1>10, <1>11 DEF AveragesTyped, Tells, GradeTells, FirstGrade
<1>13. HealthTyped'
  <2>1. lag2 \in 0 .. StartLag
    <3> HIDE DEF begun
    <3> QED BY <1>3, <1>7
  <2>2. r.spinup \in Nat /\ r.prevLow \in BOOLEAN
    <3> HIDE DEF left
    <3> QED BY <1>4, <1>5
  <2> HIDE DEF lag2, wear, low, left
  <2> QED BY <1>2, <1>3, <1>4, <1>9, <1>10, <1>11, <1>12, <2>1, <2>2 DEF HealthTyped
<1>14. StartSeen'
  <2> DEFINE run == r.window.pwmRun
             Seen(n) == \/ r.prevLow /\ ~ r.window.open
                        \/ /\ r.spinup + StartLag >= SpinupTicks + n
                           /\ r.window.open => run + SpinupTicks + n <= StartLag
  <2>1. ASSUME lag2 > 0 PROVE Lowest <= pwm /\ Seen(lag2)
    <3>1. pwm >= Lowest /\ lag2 = begun /\ begun > 0
      <4> HIDE DEF begun
      <4> QED BY <2>1
    <3>2. CASE low
      BY <1>3, <1>4, <3>1, <3>2
    <3>3. CASE ~ low
      <4>1. lag > 0 /\ lag2 = lag - 1
        <5> HIDE DEF low, lag
        <5> QED BY <1>3, <3>1, <3>3
      <4>2. left + StartLag >= SpinupTicks + lag
        <5>1. CASE health.prevLow
          <6>1. left = SpinupTicks
            BY <3>3, <5>1 DEF SpinupLeft
          <6> HIDE DEF left, lag
          <6> QED BY <1>3, <6>1
        <5>2. CASE ~ health.prevLow
          <6>1. left = health.spinup
            BY <5>2 DEF SpinupLeft
          <6>2. health.spinup + StartLag >= SpinupTicks + lag
            BY <4>1, <5>2 DEF HealthInv, StartSeen
          <6> QED BY <6>1, <6>2
        <5> QED BY <5>1, <5>2
      <4>3. /\ (IF left > 0 THEN left - 1 ELSE 0) + StartLag >= SpinupTicks + (lag - 1)
            /\ \A n, old \in Nat :
                 /\ ~ (left > 0)
                 /\ n = 1 \/ (old + SpinupTicks + lag <= StartLag /\ n <= old + 1)
                 => n + SpinupTicks + (lag - 1) <= StartLag
        <5> HIDE DEF left, lag
        <5> QED BY <1>3, <1>5, <4>1, <4>2, StartArithmetic
      <4>4. ASSUME r.window.open PROVE run + SpinupTicks + (lag - 1) <= StartLag
        <5>1. run \in Nat /\ ~ (left > 0)
          <6>1. r.window \in [open : BOOLEAN, ref : HealthDuties, pwmRun : Nat, rpm : Int, rpmRun : Int]
            BY <1>4, <4>4
          <6> QED BY <1>4, <4>4, <6>1
        <5>2. CASE run = 1
          <6> HIDE DEF run, left, lag
          <6> QED BY <4>3, <5>1, <5>2
        <5>3. CASE run # 1
          <6> DEFINE old == health.window.pwmRun
          <6>1. health.window.open /\ run <= old + 1
            BY <1>4, <4>4, <5>3
          <6>2. old \in Nat
            <7>1. health.window \in [open : BOOLEAN, ref : HealthDuties, pwmRun : Nat, rpm : Int, rpmRun : Int]
              BY <6>1 DEF HealthInv, HealthTyped
            <7> QED BY <7>1
          <6>3. old + SpinupTicks + lag <= StartLag
            BY <4>1, <6>1 DEF HealthInv, StartSeen
          <6> HIDE DEF run, old, left, lag
          <6> QED BY <4>3, <5>1, <6>1, <6>2, <6>3
        <5> QED BY <5>2, <5>3
      <4>5. r.spinup + StartLag >= SpinupTicks + (lag - 1)
        <5> HIDE DEF left, lag
        <5> QED BY <1>4, <4>3
      <4> HIDE DEF run, lag, lag2, left, low
      <4> QED BY <1>3, <3>1, <4>1, <4>4, <4>5
    <3> QED BY <3>2, <3>3
  <2>2. turning'.lag > 0 => lag2 > 0
    BY <1>10
  <2> HIDE DEF lag2, Seen
  <2>3. lag2 > 0 => Lowest <= pwm /\ Seen(lag2)
    BY <2>1
  <2> QED BY <1>2, <1>10, <1>11, <2>3 DEF StartSeen, Seen
<1>15. SpeedSeen'
  <2> SUFFICES ASSUME ~ (lag2 > 0), r.window.open, Lowest <= pwm
               PROVE  \E before \in HealthDuties :
                        /\ Lowest <= before
                        /\ Distance(before, r.window.ref) <= healthCfg.pwmTolerance
                        /\ Between(rpm, SettledSpeed(before), goal)
    <3>1. \A other \in HealthDuties : SettledSpeed(other)' = SettledSpeed(other)
      BY <1>2, <1>10 DEF SettledSpeed, Baseline
    <3>2. turning'.lag = 0 => ~ (lag2 > 0)
      <4> HIDE DEF lag2
      <4> QED BY <1>10
    <3> HIDE DEF lag2
    <3> QED BY <1>2, <1>10, <1>11, <3>1, <3>2 DEF SpeedSeen
  <2>1. ~ low /\ Distance(applied.duty, r.window.ref) <= healthCfg.pwmTolerance
    BY <1>4
  <2>2. Lowest <= applied.duty
    BY <1>3, <2>1
  <2>3. pwm >= Lowest /\ ~ (begun > 0)
    <3> HIDE DEF begun
    <3> QED BY <1>3
  <2>4. Between(rpm, SettledSpeed(applied.duty), goal)
    BY <1>9, <2>3
  <2> QED BY <1>3, <2>1, <2>2, <2>4
<1> QED BY <1>12, <1>13, <1>14, <1>15 DEF HealthInv

\* Nothing but a tick touches the detector and the fan.
LEMMA NextKeepsHealth == HealthInv /\ [DetectorsNext]_detectorVars => HealthInv'
<1> SUFFICES ASSUME HealthInv, [DetectorsNext]_detectorVars PROVE HealthInv'
  OBVIOUS
<1>1. HealthTicks \/ UNCHANGED healthVars
  BY DEF DetectorsNext, detectorVars, MachineTicks, MachineClear, SensorTicks, SensorClear,
         ZoneStep, StallTicks, StallClear, FanChanges, SteadyTicks, Machine, Sensor, Zone, Fan, Health
<1>2. CASE HealthTicks
  BY <1>2, TickKeepsHealth DEF HealthTicks
<1>3. CASE UNCHANGED healthVars
  BY <1>3 DEF healthVars, HealthInv, HealthTyped, StartSeen, SpeedSeen, Tells, GradeTells,
              AveragesTyped, SettledSpeed, Points, Lowest, Baseline
<1> QED BY <1>1, <1>2, <1>3

\* A detector that starts has seen nothing, and its fan is at rest.
LEMMA InitHealthInv == DetectorsInit => HealthInv
<1> SUFFICES ASSUME HealthInit PROVE HealthInv
  BY DEF DetectorsInit
<1>1. /\ healthCfg \in HealthCfgs /\ health = HealthReset
      /\ applied = [duty |-> 0, slewed |-> FALSE]
      /\ turning \in [wear : {"good", "worn"}, rpm : {0}, lag : {0}]
  BY DEF HealthInit
<1>2. 0 \in HealthDuties /\ StartLag \in Nat /\ WeightCap \in Nat
  BY UnitsAssumption
<1>3. /\ health.samples = [p \in Points |-> 0] /\ health.ema = [p \in Points |-> 0]
      /\ health.window.open = FALSE /\ health.prevLow = TRUE /\ health.spinup = 0
      /\ health.severity = "HEALTHY" /\ health.confidence = 0
      /\ DOMAIN health = HealthFields
  BY <1>1 DEF HealthReset, Window0, HealthFields
<1>4. turning.wear \in {"good", "worn"} /\ turning.rpm = 0 /\ turning.lag = 0
      /\ DOMAIN turning = {"wear", "rpm", "lag"}
  BY <1>1
<1>5. AveragesTyped(health)
  BY <1>2, <1>3 DEF AveragesTyped
<1>6. Tells(health, turning.wear)
  BY <1>3 DEF Tells
<1>7. GradeTells(health, turning.wear)
  <2>1. healthCfg.minPoints \in Nat /\ healthCfg.minPoints > 0
    BY <1>1, HealthNumbers
  <2> QED BY <1>3, <2>1 DEF GradeTells
<1>8. HealthTyped
  <2>1. turning.lag \in 0 .. StartLag /\ turning.rpm \in Int
    <3>1. 0 \in 0 .. StartLag /\ 0 \in Int
      BY <1>2
    <3> QED BY <1>4, <3>1
  <2>2. applied.duty \in HealthDuties
    BY <1>1, <1>2
  <2>3. /\ health.spinup \in Nat /\ health.prevLow \in BOOLEAN
        /\ health.window.open \in BOOLEAN /\ ~ health.window.open
    <3>1. health.spinup \in Nat
      BY <1>3, SMT
    <3>2. health.prevLow \in BOOLEAN /\ health.window.open \in BOOLEAN /\ ~ health.window.open
      BY <1>3, Zenon
    <3> QED BY <3>1, <3>2
  <2> QED BY <1>1, <1>3, <1>4, <1>5, <2>1, <2>2, <2>3 DEF HealthTyped
<1>9. StartSeen /\ SpeedSeen
  BY <1>3, <1>4 DEF StartSeen, SpeedSeen
<1> QED BY <1>5, <1>6, <1>7, <1>8, <1>9 DEF HealthInv

\* A grade is about wear: whatever the duties, the missing samples and the
\* starts and stops of the fan, thermal_fan_health_step never grades a good
\* fan, and grades a worn one as soon as enough points of the baseline have
\* been seen.
THEOREM GradesTellWear == DetectorsSpec => []GradeTellsWear
<1>1. HealthInv => GradeTellsWear
  BY DEF HealthInv, GradeTells, GradeTellsWear
<1> QED BY InitHealthInv, NextKeepsHealth, <1>1, PTL DEF DetectorsSpec
=============================================================================
