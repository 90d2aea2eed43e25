----------------------------- MODULE ActuatorPath -----------------------------
(***************************************************************************)
(* Step 10 of thermal_core_step for one actuator (core/thermal_core.c and   *)
(* core/thermal_slew.c): what becomes of the arbitrated request on its way  *)
(* to the duty the platform writes.  Dwell, spin-up, slew and the final     *)
(* clamp each keep or read state of earlier ticks (actuator_prev_duty,      *)
(* actuator_on_ticks, actuator_off_ticks, actuator_spinup_remaining), and   *)
(* a safety override cuts through all of them.                              *)
(*                                                                         *)
(* The configuration is chosen once.  PWM values are steps of an abstract   *)
(* scale; spinupTicks is spinup_ms rounded up to whole ticks, 0 when the    *)
(* boost is off; the reason codes of the output frame are left out.         *)
(***************************************************************************)
EXTENDS Integers, FiniteSets

CONSTANTS Configs,        \* the configurations of the actuator considered
          MaxPwm,         \* 255
          MaxTicks        \* 0xFFFF, where the tick counters saturate

\* validate_actuators, for a control period that rounds spinup_ms to at
\* least one tick; the dwells are 16-bit tick counts.
ConfigLegal(c) ==
  /\ {c.pwmMin, c.pwmMax, c.spinupPwm, c.slew} \subseteq 0 .. MaxPwm
  /\ c.pwmMin <= c.pwmMax
  /\ {c.minOn, c.minOff, c.spinupTicks} \subseteq 0 .. MaxTicks
  /\ c.spinupTicks > 0 => c.spinupPwm \in (c.pwmMin .. c.pwmMax) \ {0}

ASSUME PwmAssumption    == MaxPwm \in Nat /\ MaxTicks \in Nat \ {0}
ASSUME ConfigsAssumption == \A c \in Configs : ConfigLegal(c)

VARIABLES cfg,            \* the actuator's configuration
          duty,           \* actuator_prev_duty: the duty last sent
          onTicks,        \* actuator_on_ticks
          offTicks,       \* actuator_off_ticks
          spinup,         \* actuator_spinup_remaining
          request,        \* arb_pwm of the last tick, after step 9
          override,       \* actuator_prev_safety_override
          lasted          \* ghost: how many ticks the fan has been on, or
                          \* off, without a break, up to MaxTicks

vars == <<cfg, duty, onTicks, offTicks, spinup, request, override, lasted>>

\* thermal_core_init: off for long enough to start at once.
Init ==
  /\ cfg \in Configs
  /\ duty = 0 /\ onTicks = 0 /\ offTicks = cfg.minOff
  /\ spinup = 0 /\ request = 0 /\ override = FALSE
  /\ lasted = cfg.minOff

\* A bug the code could have: a safety override waits for the dwell.
DwellNoBypass(req, safe) ==
  IF req > 0 /\ duty = 0 /\ offTicks < cfg.minOff THEN 0
  ELSE IF req = 0 /\ duty > 0 /\ onTicks < cfg.minOn THEN duty
  ELSE req

\* The request after dwell: held off before min_off_ticks, held at the last
\* duty before min_on_ticks, as it is under a safety override.
Dwell(req, safe) ==
  IF safe THEN req
  ELSE IF req > 0 /\ duty = 0 /\ offTicks < cfg.minOff THEN 0
  ELSE IF req = 0 /\ duty > 0 /\ onTicks < cfg.minOn THEN duty
  ELSE req

\* The spin-up window this tick is in: armed by a start from duty 0, ended
\* by a request for 0.
Window(held) ==
  IF held = 0 THEN 0
  ELSE IF duty = 0 /\ spinup = 0 THEN cfg.spinupTicks
  ELSE spinup

Boosted(held) == Window(held) > 0 /\ cfg.spinupPwm > held

\* A bug the code could have: an override jumps downwards too.
SlewBothWays(req, up) ==
  IF up \/ cfg.slew = 0 THEN req
  ELSE IF req - duty > cfg.slew THEN duty + cfg.slew
  ELSE IF duty - req > cfg.slew THEN duty - cfg.slew
  ELSE req

\* thermal_slew_step: at most slew_per_tick either way, except upwards
\* under an override; 0 means no limit.
Slew(req, up) ==
  IF (up /\ req > duty) \/ cfg.slew = 0 THEN req
  ELSE IF req - duty > cfg.slew THEN duty + cfg.slew
  ELSE IF duty - req > cfg.slew THEN duty - cfg.slew
  ELSE req

\* A bug the code could have: a fan on its way to off is held at pwm_min.
ClampSticks(d, off) ==
  LET raised == IF d # 0 /\ d < cfg.pwmMin THEN cfg.pwmMin ELSE d
  IN  IF raised > cfg.pwmMax THEN cfg.pwmMax ELSE raised

\* A bug the code could have: small requests are passed on.
ClampNoMin(d, off) == IF d > cfg.pwmMax THEN cfg.pwmMax ELSE d

\* The final clamp; a fan commanded off may pass below pwm_min.
Clamp(d, off) ==
  LET raised == IF d # 0 /\ ~off /\ d < cfg.pwmMin THEN cfg.pwmMin ELSE d
  IN  IF raised > cfg.pwmMax THEN cfg.pwmMax ELSE raised

\* A bug the code could have: the counters do not saturate.
RunUnbounded(n, goesOn) == IF goesOn THEN n + 1 ELSE 0

\* A bug the code could have: a run that ends keeps its count.
RunKept(n, goesOn) == IF goesOn /\ n < MaxTicks THEN n + 1 ELSE n

\* The tick counters stop at 0xFFFF and start again with every run.
Run(n, goesOn) == IF ~goesOn THEN 0 ELSE IF n < MaxTicks THEN n + 1 ELSE n

\* What the tick sends: the held request, or the boost over it, slewed and
\* clamped.
Target(held) == IF Boosted(held) THEN cfg.spinupPwm ELSE held

NextDuty(req, safe) ==
  LET held == Dwell(req, safe)
  IN  Clamp(Slew(Target(held), safe \/ Boosted(held)), Target(held) = 0)

\* actuator_spinup_remaining after the tick.
NextSpinup(req, safe) ==
  LET window == Window(Dwell(req, safe)) IN IF window > 0 THEN window - 1 ELSE 0

\* Step 10 with arb_pwm = req and slew_override_up = safe.
Drive(req, safe) ==
  /\ duty'     = NextDuty(req, safe)
  /\ onTicks'  = Run(onTicks, duty' > 0)
  /\ offTicks' = Run(offTicks, duty' = 0)
  /\ spinup'   = NextSpinup(req, safe)
  /\ lasted'   = IF (duty' > 0) # (duty > 0) THEN 1
                 ELSE IF lasted < MaxTicks THEN lasted + 1 ELSE lasted
  /\ request'  = req
  /\ override' = safe
  /\ UNCHANGED cfg

\* A tick below the safety thresholds, one with a CRITICAL zone, and one on
\* which a SHUTDOWN zone or a fault action forces pwm_max (step 9 sets
\* slew_override_up wherever it sets force_pwm_max).
Normal(req)   == Drive(req, FALSE)
Critical(req) == Drive(req, TRUE)
ForcedMax     == Drive(cfg.pwmMax, TRUE)

Next ==
  \/ \E req \in 0 .. MaxPwm : Normal(req)
  \/ \E req \in 0 .. MaxPwm : Critical(req)
  \/ ForcedMax

Spec == Init /\ [][Next]_vars

-----------------------------------------------------------------------------
TypeOK ==
  /\ cfg \in Configs
  /\ duty \in 0 .. cfg.pwmMax
  /\ {onTicks, offTicks, spinup, lasted} \subseteq 0 .. MaxTicks
  /\ request \in 0 .. MaxPwm /\ override \in BOOLEAN

\* The duty sent is off or inside [pwm_min, pwm_max]; only a fan on its way
\* to off is below pwm_min, however overrides, dwell and requests that come
\* back during the ramp are mixed.
DutyLegal == duty \in 1 .. cfg.pwmMin - 1 => request = 0

\* A safety override is never late: on the very tick a zone turns CRITICAL
\* or a fault forces the maximum the duty covers the request, whatever
\* dwell, slew and spin-up were doing.
OverrideCools ==
  [][override' => duty' >= request' \/ duty' = cfg.pwmMax]_vars

\* Changes are gentle: downwards never faster than slew_per_tick, not even
\* under an override; upwards only by an override, a spin-up boost or the
\* step to pwm_min.
SlewHeld ==
  [][cfg.slew > 0 =>
       /\ duty - duty' <= cfg.slew
       /\ \/ duty' - duty <= cfg.slew
          \/ override' \/ duty' = cfg.spinupPwm \/ duty' = cfg.pwmMin]_vars

\* Anti-short-cycle: without an override a fan that has come on is not off
\* again before min_on_ticks, and one that has gone off not on again before
\* min_off_ticks, whatever the counters of earlier runs had reached.
DwellHeld ==
  [][/\ duty > 0 /\ duty' = 0 => override' \/ lasted >= cfg.minOn
     /\ duty = 0 /\ duty' > 0 => override' \/ lasted >= cfg.minOff]_vars

\* A request that stays the same is reached and kept: off when it is 0 (the
\* ramp does not stick at pwm_min), its clamped value otherwise.
SettlesOnRequest ==
  \A r \in 0 .. MaxPwm :
    <>[](request = r) => <>[](duty = Clamp(r, FALSE))
=============================================================================
