---------------------------- MODULE MCZoneControl ----------------------------
(* Two zones that share one modifier: a step-wise one with a WARN and a     *)
(* CRITICAL trip, a PID one with a CRITICAL trip; a curve of two points.    *)
EXTENDS ZoneControl

MCZones == {"board", "soc"}

MCTrip(t, h, sev, st) == [temp |-> t, hyst |-> h, severity |-> sev, state |-> st]

MCZoneCfg == [z \in MCZones |->
  IF z = "board"
  THEN [governor |-> "STEP_WISE", fallback |-> 3,
        trips |-> <<MCTrip(1, 1, Warn, 1), MCTrip(3, 1, Critical, 2)>>,
        setpoint |-> 0, setpointMin |-> 0, setpointMax |-> 0]
  ELSE [governor |-> "PID", fallback |-> 3,
        trips |-> <<MCTrip(3, 1, Critical, 2)>>,
        setpoint |-> 3, setpointMin |-> 2, setpointMax |-> 4]]

MCCurveCfg == <<[x |-> 0, cap |-> 2, offset |-> 0], [x |-> 2, cap |-> 2, offset |-> 0]>>

MCStages == {"offset", "cap"}

MCOffsets == {-1, 0, 1}

\* The zones read the same temperature, or one of them has lost its sensors:
\* no step relates what two zones read.
MCSamples ==
  {[z \in MCZones |-> t] : t \in Temps \cup {NoSample}}
=============================================================================
