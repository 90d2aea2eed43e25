----------------------------- MODULE MCCanContext -----------------------------
(* A speed with a timeout of one or three periods, asked for every second    *)
(* period by a daemon that may be one period behind; each timeout with both  *)
(* fail-safe policies, one of them where the stale fault latches.            *)
EXTENDS CanContext

Cfg(persist, action, timeout, policy) ==
  [persist |-> persist, recovery |-> 1, severity |-> "DEGRADED", action |-> action,
   timeout |-> timeout, failSafe |-> policy, alpha |-> 2]

MCContextCfgs ==
  {Cfg(1, "MARK_DEGRADED", 1, "ASSUME_STATIONARY"),
   Cfg(1, "MARK_DEGRADED", 3, "HOLD_LAST"),
   Cfg(2, "FORCE_PWM_MAX_AND_LATCH", 1, "HOLD_LAST"),
   Cfg(2, "FORCE_PWM_MAX_AND_LATCH", 3, "ASSUME_STATIONARY")}
=============================================================================
