----------------------------- MODULE MCDetectors -----------------------------
(* The machine with every configuration of small tick counts; windows of    *)
(* two and three samples, with and without a correlated context; a zone     *)
(* with two actuators and rings of one and of three samples; fans with and      *)
(* without spin-up, slew limit and dwells, one of which is longer than the  *)
(* grace; for fan health a good and a worn fan with a baseline of two points,  *)
(* the unit's own and the model's.                                          *)
EXTENDS Detectors

MCMachineConfigs == FsmConfigs

MCStuckCfgs ==
  {c \in [persist : {1, 2}, recovery : {2}, severity : {"DEGRADED"},
           action : {"USE_ZONE_FALLBACK", "FORCE_PWM_MAX_AND_LATCH"},
           window : {2, 3}, delta : {1, 2}, ctxDelta : {1}, flatOnly : BOOLEAN] :
     c.persist + c.window <= 4 /\ c.delta = c.window - 1}

\* A recovery that the quiet ticks between two checks of the window exceed.
MCStuckClearCfgs ==
  {[persist |-> 1, recovery |-> 1, severity |-> "DEGRADED",
    action |-> "FORCE_PWM_MAX_AND_LATCH", window |-> 4, delta |-> 1, ctxDelta |-> 1,
    flatOnly |-> TRUE]}

MCRunawayCfgs ==
  [persist : {1, 3}, recovery : {0, 2}, severity : {"CRITICAL"},
   action : {"FORCE_PWM_MAX_AND_LATCH", "REQUEST_SHUTDOWN",
             "FORCE_PWM_MAX_UNTIL_RECOVERED"},
   rise : {1}, coolingPwm : {1}]

MCRequests == {[a |-> 0, b |-> 0], [a |-> 1, b |-> 0], [a |-> 1, b |-> 1]}

MCStallCfgs ==
  {[persist |-> 1, recovery |-> 2, severity |-> "CRITICAL",
    action |-> "FORCE_PWM_MAX_UNTIL_RECOVERED"],
   [persist |-> 2, recovery |-> 2, severity |-> "CRITICAL",
    action |-> "FORCE_PWM_MAX_AND_LATCH"]}

MCConfigs ==
  [pwmMin : {2}, pwmMax : {3, 4}, spinupPwm : {3}, spinupTicks : {0, 2},
   slew : {0, 1}, minOn : {0, 3}, minOff : {0, 3}]

MCHealthCfgs ==
  LET base == [baseline |-> <<[x |-> 20, rpm |-> 100], [x |-> 40, rpm |-> 200]>>,
               pwmTolerance |-> 1, rpmTolerance |-> 10, pwmTicks |-> 2, rpmTicks |-> 2,
               aging |-> -10, degraded |-> -40, failing |-> -50, minPoints |-> 2,
               source |-> "FIELD"]
  IN  {base, [base EXCEPT !.degraded = -20, !.minPoints = 1, !.source = "MODEL"]}
=============================================================================
