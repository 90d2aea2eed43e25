---------------------------- MODULE ContextSignal ----------------------------
(***************************************************************************)
(* One context signal (vehicle speed, say) from its sample to its users, in *)
(* the order of thermal_core_step: step 4 filters it and dates it, step 5   *)
(* takes the value the modifier's curve is evaluated at, or the fail-safe   *)
(* value, and step 9 runs the stale-context detector on its age.            *)
(*                                                                         *)
(* now_ms is a uint32_t that wraps; it advances by a control period per tick. *)
(***************************************************************************)
EXTENDS Filter, FaultFsm

CONSTANTS ContextCfgs,    \* stale_context_defaults (FsmConfigs) with the
                          \* context's timeout, failSafe and alpha added
          Values,         \* samples of the context
          Wrap,           \* 2^32
          PeriodMs        \* control_period_ms

ASSUME ContextAssumption ==
  /\ Wrap \in Nat \ {0} /\ PeriodMs \in 1 .. Wrap - 1 /\ Values \subseteq Int
  /\ \A c \in ContextCfgs :
       /\ c.persist \in Counters /\ c.recovery \in Counters
       /\ c.severity \in Severities /\ c.action \in FaultActions
       /\ c.timeout \in 1 .. Wrap - 1 /\ c.alpha \in 0 .. One
       /\ c.failSafe \in {"ASSUME_STATIONARY", "HOLD_LAST"}

VARIABLES cfg,
          now,            \* now_ms of the last tick
          filter,         \* context_filters[c]
          everValid,      \* context_ever_valid[c]
          lastValid,      \* context_last_valid_ms[c]
          effective,      \* context_effective_value[c]
          failSafe,       \* context_fail_safe_active[c]
          d,              \* stale_context_states[c]
          age             \* ghost: milliseconds since the last valid sample or
                          \* the start, not wrapped, stopped beyond Wrap

vars == <<cfg, now, filter, everValid, lastValid, effective, failSafe, d, age>>

Init ==
  /\ cfg \in ContextCfgs
  /\ now \in 0 .. Wrap - 1
  /\ filter = FilterReset
  /\ everValid = FALSE /\ lastValid = 0
  /\ effective = 0 /\ failSafe = FALSE
  /\ d = FsmReset
  /\ age = 0

\* A bug the code could have: a missing sample is evaluated as it stands.
EffectiveValueHeld(f, ever) == f.value

\* step5_modifier_eval: the filtered value, or what the fail-safe makes of
\* its absence.
EffectiveValue(f, ever) ==
  IF f.valid \/ (cfg.failSafe = "HOLD_LAST" /\ ever) THEN f.value ELSE 0

\* A bug the code could have: the times subtracted the wrong way round.
AgeSwapped(ever, last, time) == IF ever THEN (last - time + Wrap) % Wrap ELSE Wrap - 1

\* ms_since: modulo 2^32, 0xFFFFFFFF before the first valid sample.
Age(ever, last, time) == IF ever THEN (time - last + Wrap) % Wrap ELSE Wrap - 1

\* A bug the code could have: every sample dates the context.
DatesContextAlways(ok) == TRUE

DatesContext(ok) == ok

Tick(sample, ok) ==
  LET time == (now + PeriodMs) % Wrap
      f    == FilterStep(filter, cfg.alpha, sample, ok)
  IN  /\ now' = time
      /\ filter' = f
      /\ everValid' = (everValid \/ DatesContext(ok))
      /\ lastValid' = IF DatesContext(ok) THEN time ELSE lastValid
      /\ effective' = EffectiveValue(f, everValid')
      /\ failSafe' = ~f.valid
      /\ d' = FsmTick(d, Age(everValid', lastValid', time) >= cfg.timeout, cfg)
      /\ age' = IF ok THEN 0 ELSE IF age < Wrap THEN age + PeriodMs ELSE age
      /\ UNCHANGED cfg

\* CMD_CLEAR_FAULT for the stale-context detector.
ClearStale ==
  /\ ClearAllowed(d, cfg)
  /\ d' = FsmReset
  /\ UNCHANGED <<cfg, now, filter, everValid, lastValid, effective, failSafe, age>>

Next == (\E sample \in Values, ok \in BOOLEAN : Tick(sample, ok)) \/ ClearStale

Spec == Init /\ [][Next]_vars

-----------------------------------------------------------------------------
\* While the stale fault is active the modifier works on the fail-safe
\* value, not on a filtered one: detector and modifier, which keep their own
\* idea of the context's validity, agree.
StaleMeansFailSafe ==
  d.state \in {"DEGRADED", "CRITICAL"} =>
    /\ failSafe
    /\ cfg.failSafe = "ASSUME_STATIONARY" => effective = 0

\* A context is found stale on the persist_ticks-th tick past its timeout,
\* across the wrap of now_ms, as long as it has not been away for a whole
\* wrap of it, and stays so, unless recovery_ticks is 0 and a latched fault
\* may be cleared at any time.
StaleWithinWrap ==
  everValid /\ cfg.persist <= 1 /\ cfg.recovery > 0 /\ cfg.timeout <= age /\ age < Wrap =>
    d.state \in ActiveStates

\* One that is fresh raises nothing: a stale fault needs a timeout's worth
\* of ticks without a valid sample, or none ever.
FreshNotRaised ==
  [][d.state = "NORMAL" /\ d'.state # "NORMAL" => ~everValid' \/ age' >= cfg.timeout]_vars
=============================================================================
