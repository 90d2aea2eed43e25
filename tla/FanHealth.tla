------------------------------ MODULE FanHealth ------------------------------
(***************************************************************************)
(* The fan-health detector (core/thermal_fan_health.c): on ticks of free-   *)
(* running, steady operation it compares the measured speed with a baseline *)
(* and grades how far the fan has slowed down.  Its inputs are those        *)
(* thermal_core_step hands it: the duty applied a period ago, the flags of  *)
(* that period, this tick's tach sample and override.                       *)
(*                                                                         *)
(* The fan is external.  It turns at the baseline's speed, or at its share  *)
(* of it once it is worn, except while it is still catching up: one period  *)
(* after the duty moved, StartLag periods after it was started; during      *)
(* these it is anywhere between the speed it had and the one it goes to.    *)
(***************************************************************************)
EXTENDS Curve, FiniteSets

CONSTANTS HealthCfgs,     \* the thermal_fan_health_cfg_t to check
          HealthDuties,   \* duties the actuator path may apply
          Speeds,         \* what the tach may read while the fan catches up,
                          \* besides the two speeds themselves
          StartLag,       \* periods a started fan takes to settle
          SpinupTicks,    \* spinup_ms in periods
          WornShare,      \* a worn fan's speed in percent of the baseline's
          Scale,          \* 256: fixed-point unit of the averages
          WeightCap       \* 16: samples beyond these add no weight

ASSUME UnitsAssumption ==
  /\ StartLag \in Nat /\ SpinupTicks \in Nat /\ WornShare \in 0 .. 100
  /\ Scale \in Nat \ {0} /\ WeightCap \in Nat \ {0}
  /\ 0 \in HealthDuties /\ HealthDuties \subseteq Nat /\ Speeds \subseteq Nat

\* validate_fan_health; and what the configuration's author has to know of the
\* fan for the windows to be long enough.
ASSUME HealthAssumption ==
  \A c \in HealthCfgs :
    /\ c.baseline \in Seq([x : Nat, rpm : Nat \ {0}])
    /\ Len(c.baseline) >= 2 /\ CurveOrdered(c.baseline)
    /\ {c.aging, c.degraded, c.failing} \subseteq Int
    /\ 0 > c.aging /\ c.aging > c.degraded /\ c.degraded > c.failing
    /\ c.minPoints \in 1 .. Len(c.baseline)
    /\ {c.pwmTolerance, c.pwmTicks, c.rpmTicks} \subseteq Nat
    /\ 1 < c.pwmTicks /\ StartLag < c.pwmTicks + SpinupTicks

VARIABLES healthCfg,
          health,         \* thermal_fan_health_state_t
          applied,        \* actuator_prev_duty, actuator_prev_slew_limited
          turning         \* the fan: its wear, the speed the tach reads, the
                          \* periods until it has settled

healthVars == <<healthCfg, health, applied, turning>>

Baseline == healthCfg.baseline
Points   == 1 .. Len(Baseline)
Lowest   == Baseline[1].x

\* div_round_half_away
RoundedDiv(n, d) ==
  IF n >= 0 THEN (2 * n + d) \div (2 * d) ELSE -((-2 * n + d) \div (2 * d))

Distance(a, b) == IF a >= b THEN a - b ELSE b - a

\* nearest_point: the lower one of two that are as close.
NearestPoint(duty) ==
  CHOOSE p \in Points :
    \A q \in Points : LET dp == Distance(duty, Baseline[p].x)
                          dq == Distance(duty, Baseline[q].x)
                      IN  dp < dq \/ (dp = dq /\ p <= q)

Window0 == [open |-> FALSE, ref |-> 0, pwmRun |-> 0, rpm |-> 0, rpmRun |-> 0]

\* thermal_fan_health_reset
HealthReset ==
  [window |-> Window0, prevLow |-> TRUE, spinup |-> 0, prevOverride |-> FALSE,
   ema |-> [p \in Points |-> 0], samples |-> [p \in Points |-> 0],
   delta |-> 0, severity |-> "HEALTHY", confidence |-> 0]

\* Up to the cap nothing reads the count but the weight.
Weight(p, samples) ==
  samples[p] * (IF p \in {1, Len(Baseline)} THEN 1 ELSE 2)

\* A baseline of the model, not of this unit, cannot tell ageing from the
\* spread between units.
Severity(delta, confidence) ==
  CASE confidence < healthCfg.minPoints                -> "HEALTHY"
    [] confidence >= healthCfg.minPoints /\ delta <= healthCfg.failing -> "FAILING"
    [] confidence >= healthCfg.minPoints
         /\ delta \in healthCfg.failing + 1 .. healthCfg.degraded -> "DEGRADED"
    [] confidence >= healthCfg.minPoints /\ healthCfg.source # "MODEL"
         /\ delta \in healthCfg.degraded + 1 .. healthCfg.aging   -> "AGING"
    [] OTHER -> "HEALTHY"

\* The sum over the points of the baseline.
Total(f) ==
  LET sum[n \in 0 .. Len(Baseline)] == IF n = 0 THEN 0 ELSE sum[n - 1] + f[n]
  IN  sum[Len(Baseline)]

\* recompute: the weighted mean of the points that have slowed down; a point
\* above its baseline counts as one on it, one without samples has no weight.
Recomputed(h) ==
  LET slow(p) == IF h.ema[p] > 0 THEN 0 ELSE h.ema[p]
      sumW  == Total([p \in Points |-> Weight(p, h.samples)])
      sumWX == Total([p \in Points |-> Weight(p, h.samples) * slow(p)])
      seen  == Cardinality({p \in Points : h.samples[p] > 0})
      delta == IF sumW > 0 THEN RoundedDiv(sumWX, sumW * Scale) ELSE 0
  IN  [h EXCEPT !.delta = delta, !.confidence = seen, !.severity = Severity(delta, seen)]

Saturated(v, limit) == IF v > limit THEN limit ELSE IF v < -limit THEN -limit ELSE v

\* How far a speed is from the baseline's at that duty, in percent.
Drift(baseline, duty, rpm) ==
  LET expected == CurveEval(baseline, "rpm", duty)
  IN  Saturated(RoundedDiv((rpm - expected) * 100, expected), 127)

\* One sample of a steady window goes into the average of the point next to
\* the duty it was taken at.
Folded(h, duty, rpm) ==
  LET target  == Drift(Baseline, duty, rpm) * Scale
      p       == NearestPoint(duty)
      average == IF h.samples[p] = 0 THEN target
                 ELSE h.ema[p] + TruncDiv(target - h.ema[p], 8)
  IN  Recomputed([h EXCEPT !.ema[p] = average,
                           !.samples[p] = IF @ < WeightCap THEN @ + 1 ELSE @])

OpenAt(duty, rpm) == [open |-> TRUE, ref |-> duty, pwmRun |-> 1, rpm |-> rpm, rpmRun |-> 1]

\* Runs saturate at 0xFFFF in the code; beyond the configured lengths
\* nothing tells them apart.
Extended(run, limit) == IF run < limit THEN run + 1 ELSE run

\* The window after a tick whose duty stayed in the tolerance.
Continued(w, rpm) ==
  LET settled == Distance(rpm, w.rpm) * 100 <= healthCfg.rpmTolerance * w.rpm
  IN  [w EXCEPT !.pwmRun = Extended(@, healthCfg.pwmTicks), !.rpm = rpm,
                !.rpmRun = IF settled THEN Extended(@, healthCfg.rpmTicks) ELSE 1]

\* A bug the code could have: a tick that is no evidence is only skipped.
AfterGateKept(window) == window

\* A tick that is no evidence restarts the steady window.
AfterGate(window) == Window0

\* The grace a start from below the baseline arms.
SpinupLeft(h, low) == IF h.prevLow /\ ~low THEN SpinupTicks ELSE h.spinup

\* thermal_fan_health_step
HealthStep(h, rpm, valid, override) ==
  LET low    == applied.duty < Lowest
      spinup == SpinupLeft(h, low)
      gated  == ~valid \/ low \/ spinup > 0 \/ applied.slewed \/ override \/ h.prevOverride
      w      == h.window
      g      == [h EXCEPT !.prevLow = low, !.prevOverride = override,
                          !.spinup = IF spinup > 0 THEN spinup - 1 ELSE 0]
      next   == Continued(w, rpm)
  IN  CASE gated -> [g EXCEPT !.window = AfterGate(@)]
        [] ~gated /\ (~w.open \/ Distance(applied.duty, w.ref) > healthCfg.pwmTolerance) ->
             [g EXCEPT !.window = OpenAt(applied.duty, rpm)]
        [] OTHER ->
             IF next.pwmRun < healthCfg.pwmTicks \/ next.rpmRun < healthCfg.rpmTicks
             THEN [g EXCEPT !.window = next]
             ELSE Folded([g EXCEPT !.window = next], applied.duty, rpm)

-----------------------------------------------------------------------------
\* The speed of the fan one period after `duty` was applied.
SpeedOf(baseline, wear, duty) ==
  IF duty < baseline[1].x THEN 0
  ELSE (CurveEval(baseline, "rpm", duty) * (IF wear = "good" THEN 100 ELSE WornShare)) \div 100

SettledSpeed(duty) == SpeedOf(Baseline, turning.wear, duty)

\* The drift from which on a fan is graded.
FirstGrade(c) == IF c.source = "MODEL" THEN c.degraded ELSE c.aging

\* The grades have to tell the two fans apart, at any duty and also when the
\* speed belongs to another duty of the same steady window.
ASSUME WearAssumption ==
  \A c \in HealthCfgs, duty, before \in HealthDuties :
    /\ c.baseline[1].x <= duty /\ c.baseline[1].x <= before
    /\ Distance(duty, before) <= 2 * c.pwmTolerance
    => /\ Drift(c.baseline, duty, SpeedOf(c.baseline, "good", before)) > FirstGrade(c)
       /\ Drift(c.baseline, duty, SpeedOf(c.baseline, "worn", before)) <= FirstGrade(c)

OnTheWay(from, goal) ==
  {from} \cup {s \in Speeds : (from < s /\ s < goal) \/ (goal < s /\ s < from)}

HealthInit ==
  /\ healthCfg \in HealthCfgs
  /\ health = HealthReset
  /\ applied = [duty |-> 0, slewed |-> FALSE]
  /\ turning \in [wear : {"good", "worn"}, rpm : {0}, lag : {0}]

\* One control period: the detector sees the last one's duty, then the
\* actuator path applies the next; a slew limit only shows when it moves.
HealthTick(valid, override, duty, slewed) ==
  LET goal  == SettledSpeed(duty)
      left  == IF turning.lag > 0 THEN turning.lag - 1 ELSE 0
      begun == IF duty >= Lowest /\ applied.duty < Lowest THEN StartLag ELSE left
      from  == IF begun > 0 THEN turning.rpm ELSE SettledSpeed(applied.duty)
  IN  /\ health' = HealthStep(health, turning.rpm, valid, override)
      /\ applied' = [duty |-> duty, slewed |-> slewed]
      /\ \E rpm \in {goal} \cup IF duty >= Lowest /\ (begun > 0 \/ duty # applied.duty)
                               THEN OnTheWay(from, goal) ELSE {} :
           turning' = [turning EXCEPT !.rpm = rpm,
                                      !.lag = IF duty >= Lowest THEN begun ELSE 0]
      /\ UNCHANGED healthCfg

\* An override forces the largest duty.
HealthTicks ==
  \E valid, override, slewed \in BOOLEAN, duty \in HealthDuties :
    /\ override => \A other \in HealthDuties : other <= duty
    /\ slewed => duty # applied.duty
    /\ HealthTick(valid, override, duty, slewed)

-----------------------------------------------------------------------------
\* However the duty moves, the fan starts and stops and samples go missing,
\* a grade is about wear: a good fan is never graded, and one that was worn
\* from the start is, as soon as enough points of the baseline have been seen.
GradeTellsWear ==
  /\ turning.wear = "good" => health.severity = "HEALTHY"
  /\ turning.wear = "worn" /\ health.confidence >= healthCfg.minPoints
       => health.severity # "HEALTHY"
=============================================================================
