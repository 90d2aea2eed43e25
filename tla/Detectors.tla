------------------------------ MODULE Detectors ------------------------------
(***************************************************************************)
(* The fault detectors: the shared machine under any condition              *)
(* (FaultDetector), the stuck-sensor detector, the runaway detector, the    *)
(* stall detector with the fan it watches (FanLoop) and the advisory        *)
(* fan-health detector.  The configuration enables each of them,            *)
(* thermal_core_step runs the enabled ones one after the other and they     *)
(* share no state, so a core with one detector enabled shows all there is   *)
(* to see of it.                                                            *)
(***************************************************************************)
EXTENDS FaultDetector, StuckSensor, Runaway, FanLoop, FanHealth

VARIABLE enabled          \* fault_detection.<detector>.enabled, or
                          \* fan_health[].enable

detectorVars == <<machineVars, stuckVars, runVars, fanVars, healthVars, enabled>>

\* A detector that is not enabled keeps the state thermal_core_init gives it.
FirstOf(S) == CHOOSE x \in S : TRUE

DetectorsInit ==
  /\ enabled \in {"machine", "stuck_sensor", "runaway", "stall", "fan_health"}
  /\ enabled = "machine"      \/ machineCfg = FirstOf(MachineConfigs)
  /\ enabled = "stuck_sensor" \/ (stuckCfg = FirstOf(StuckCfgs) /\ value = FirstOf(Values))
  /\ enabled = "runaway"      \/ runCfg = FirstOf(RunawayCfgs)
  /\ enabled = "stall"        \/ (cfg = FirstOf(Configs) /\ stallCfg = FirstOf(StallCfgs))
  /\ enabled = "fan_health"   \/ healthCfg = FirstOf(HealthCfgs)
  /\ MachineInit /\ StuckInit /\ RunInit /\ FanInit /\ HealthInit
  /\ enabled = "fan_health"   \/ turning.wear = "good"

Machine(step) == enabled = "machine" /\ step
                 /\ UNCHANGED <<stuckVars, runVars, fanVars, healthVars, enabled>>
Sensor(step)  == enabled = "stuck_sensor" /\ step
                 /\ UNCHANGED <<machineVars, runVars, fanVars, healthVars, enabled>>
Zone(step)    == enabled = "runaway" /\ step
                 /\ UNCHANGED <<machineVars, stuckVars, fanVars, healthVars, enabled>>
Fan(step)     == enabled = "stall" /\ step
                 /\ UNCHANGED <<machineVars, stuckVars, runVars, healthVars, enabled>>
Health(step)  == enabled = "fan_health" /\ step
                 /\ UNCHANGED <<machineVars, stuckVars, runVars, fanVars, enabled>>

MachineTicks == Machine(\E active \in BOOLEAN : Tick(active))
MachineClear == Machine(ClearFault)
SensorTicks  == Sensor(StuckTicks)
SensorClear  == Sensor(ClearStuck)
ZoneStep     == Zone(RunNext)
StallTicks   == Fan(FanTicks)
StallClear   == Fan(ClearStall)
FanChanges   == Fan(Break \/ Repair)
SteadyTicks  == Health(HealthTicks)

DetectorsNext == MachineTicks \/ MachineClear \/ SensorTicks \/ SensorClear \/ ZoneStep
                 \/ StallTicks \/ StallClear \/ FanChanges \/ SteadyTicks

\* The control loop never stops ticking, and an operator who wants a fault
\* gone keeps sending the clear command.
DetectorsSpec ==
  /\ DetectorsInit /\ [][DetectorsNext]_detectorVars
  /\ WF_detectorVars(MachineTicks) /\ WF_detectorVars(MachineClear)
  /\ WF_detectorVars(SensorTicks) /\ WF_detectorVars(StallTicks)
=============================================================================
