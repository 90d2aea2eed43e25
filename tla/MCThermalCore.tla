---------------------------- MODULE MCThermalCore ----------------------------
(* A step-wise zone and a PID zone that share a blower; the second sensor   *)
(* belongs to both.  Detectors one at a time, and two that interact.        *)
EXTENDS ThermalCore

MCIntMin == -1

MCZones     == {"board", "soc"}
MCSensors   == {"s1", "s2"}
MCActuators == {"fan", "blower"}

MCZoneSensors   == [board |-> {"s1", "s2"}, soc |-> {"s2"}]
MCZoneActuators == [board |-> {"blower"}, soc |-> {"fan", "blower"}]

MCTrip(t, h, sev, st) == [temp |-> t, hyst |-> h, severity |-> sev, state |-> st]

MCZoneCfg ==
  [board |-> [governor |-> "STEP_WISE", fallback |-> 2,
              trips |-> <<MCTrip(1, 1, Warn, 1), MCTrip(2, 0, Critical, 2)>>],
   soc   |-> [governor |-> "PID", fallback |-> 2,
              trips |-> <<MCTrip(2, 1, Critical, 1), MCTrip(3, 0, Shutdown, 2)>>]]

MCActCfg ==
  [fan    |-> [pwmMin |-> 1, pwmMax |-> 3, spinupPwm |-> 2, spinupTicks |-> 1,
               slew |-> 1, minOn |-> 0, minOff |-> 1],
   blower |-> [pwmMin |-> 1, pwmMax |-> 2, spinupPwm |-> 0, spinupTicks |-> 0,
               slew |-> 1, minOn |-> 1, minOff |-> 0]]

MCStatePwm == [fan    |-> [s \in 0 .. 2 |-> <<0, 2, 3>>[s + 1]],
               blower |-> [s \in 0 .. 2 |-> s]]

MCModifiers == {[cap |-> 3, offset |-> 0], [cap |-> 0, offset |-> 1]}

MCFault(on, action) ==
  [enabled |-> on, persist |-> 1, recovery |-> 2, severity |-> "CRITICAL", action |-> action]

MCNone == [k \in Kinds |-> MCFault(FALSE, "NONE")]

MCFaultSets ==
  {[MCNone EXCEPT !["STALL"] = MCFault(TRUE, "FORCE_PWM_MAX_UNTIL_RECOVERED")],
   [MCNone EXCEPT !["STUCK"] = MCFault(TRUE, "USE_ZONE_FALLBACK")],
   [MCNone EXCEPT !["STUCK"] = MCFault(TRUE, "REQUEST_SHUTDOWN")],
   [MCNone EXCEPT !["RUNAWAY"] = MCFault(TRUE, "FORCE_PWM_MAX_AND_LATCH")],
   [MCNone EXCEPT !["STALE"] = MCFault(TRUE, "FORCE_PWM_MAX_UNTIL_RECOVERED"),
                  !["STALL"] = MCFault(TRUE, "REQUEST_SHUTDOWN")]}
=============================================================================
