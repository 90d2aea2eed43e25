------------------------------- MODULE PidLoop -------------------------------
(***************************************************************************)
(* The PID governor of a zone: thermal_pid_step_filtered                    *)
(* (core/thermal_pid.c) once per control period, with whatever the zone     *)
(* reads and wherever the modifier has put the setpoint, and CMD_SET_PID    *)
(* between the periods.  Fixed-point values are integers in units of        *)
(* 1 / One; products are int64_t in the code and do not overflow there.     *)
(* What the zone's trips make of the result is ZoneControl's.               *)
(***************************************************************************)
EXTENDS Curve

CONSTANTS One,            \* 65536
          QMin, QMax,     \* the range of an int32_t
          Second,         \* 1000
          PidMax,         \* 255, the largest pwm_this_tick
          DtMin, DtMax,   \* dt_min_ms, dt_max_ms
          Elapsed,        \* now_ms - prev_now_ms
          PidTemps, PidSetpoints, \* what the zone reads, effective setpoints
          GainMin,        \* kp_min_q16, ki_min_q16, kd_min_q16: any int32_t,
          GainMax,        \* kp_max_q16, ki_max_q16, kd_max_q16  also below 0
          Gains,          \* gains a CMD_SET_PID may carry
          Alphas          \* d_filter_alpha_q16

\* kp_q16, ki_q16, kd_q16
GainRecords == [kp : Int, ki : Int, kd : Int]

ASSUME PidAssumption ==
  /\ One \in Nat \ {0} /\ Second \in Nat \ {0} /\ PidMax \in Nat
  /\ DtMin \in Nat \ {0} /\ DtMax \in Nat /\ DtMin <= DtMax
  /\ QMin \in Int /\ QMax \in Int /\ QMin < 0 /\ QMax >= 2 * (PidMax + 1) * One
  /\ Alphas \subseteq 0 .. One /\ Elapsed \subseteq Nat
  /\ GainMin \in GainRecords /\ GainMax \in GainRecords /\ Gains \subseteq GainRecords
  /\ PidSetpoints \subseteq Int /\ PidTemps \subseteq Int
  /\ \E low, high \in PidTemps : \A t \in PidTemps : low <= t /\ t <= high
  /\ \E low, high \in PidSetpoints : \A s \in PidSetpoints : low <= s /\ s <= high

VARIABLES gains,          \* shadow_pid's kp_q16, ki_q16, kd_q16
          alpha,          \* d_filter_alpha_q16
          pid,            \* thermal_pid_state_t
          demand          \* pwm_this_tick

pidVars == <<gains, alpha, pid, demand>>

GainsTaken(g) == \A k \in DOMAIN g : g[k] \in GainMin[k] .. GainMax[k]

Clamped(v) == IF v > QMax THEN QMax ELSE IF v < QMin THEN QMin ELSE v

\* thermal_pid_reset
PidReset == [integral |-> 0, prev |-> 0, filtered |-> 0, initialized |-> FALSE, filtering |-> FALSE]

PidInit ==
  /\ gains \in {g \in Gains : GainsTaken(g)}
  /\ alpha \in Alphas
  /\ pid = PidReset
  /\ demand = 0

\* The period the step works with: the clock's difference, kept in the
\* configured bounds; dt_min_ms on the first step.
Dt(elapsed) ==
  CASE ~pid.initialized \/ elapsed < DtMin -> DtMin
    [] pid.initialized /\ elapsed > DtMax  -> DtMax
    [] OTHER                               -> elapsed

\* iir_q16_step: the filter's step, rounded half away from zero.
Filtered(prev, sample) ==
  LET product == alpha * (sample - prev)
      delta   == IF product >= 0 THEN (product + One \div 2) \div One
                 ELSE -((-product + One \div 2) \div One)
  IN  Clamped(prev + delta)

\* The derivative on the measurement, filtered when the filter is on.
Derivative(temp, dt) ==
  LET raw == TruncDiv(gains.kd * (temp - pid.prev) * Second, dt)
  IN  CASE ~pid.initialized                                 -> 0
        [] pid.initialized /\ alpha = 0                     -> raw
        [] pid.initialized /\ alpha > 0 /\ pid.filtering    -> Filtered(pid.filtered, Clamped(raw))
        [] pid.initialized /\ alpha > 0 /\ ~pid.filtering   -> Clamped(raw)

\* A bug the code could have: the increment is dropped when it would release
\* the saturation and kept when it deepens it.
DeepensSwapped(output, increment) ==
  (output > PidMax /\ increment < 0) \/ (output < 0 /\ increment > 0)

\* Anti-windup: this increment deepens a saturation.
Deepens(output, increment) ==
  (output > PidMax /\ increment > 0) \/ (output < 0 /\ increment < 0)

PidStep(setpoint, temp, elapsed) ==
  LET dt        == Dt(elapsed)
      error     == temp - setpoint
      increment == TruncDiv(gains.ki * error * dt, Second)
      tentative == Clamped(pid.integral + increment)
      d         == Derivative(temp, dt)
      output    == Clamped(gains.kp * error + tentative + d) \div One
      filters   == pid.initialized /\ alpha > 0
  IN  /\ pid' = [integral    |-> IF Deepens(output, increment) THEN pid.integral ELSE tentative,
                 prev        |-> temp,
                 filtered    |-> IF filters THEN d ELSE pid.filtered,
                 initialized |-> TRUE,
                 filtering   |-> filters]
      /\ demand' = IF output > PidMax THEN PidMax ELSE IF output < 0 THEN 0 ELSE output
      /\ UNCHANGED <<gains, alpha>>

\* CMD_SET_PID: gains inside their bounds are taken and the governor starts
\* afresh; others leave everything as it is.
SetPid(g) ==
  IF GainsTaken(g) THEN gains' = g /\ pid' = PidReset /\ UNCHANGED <<alpha, demand>>
  ELSE UNCHANGED pidVars

PidNext ==
  \/ \E setpoint \in PidSetpoints, temp \in PidTemps, elapsed \in Elapsed :
       PidStep(setpoint, temp, elapsed)
  \/ \E g \in Gains : SetPid(g)

-----------------------------------------------------------------------------
Magnitude(v) == IF v < 0 THEN -v ELSE v

\* How far apart a member of S and one of T can be.
Farthest(S, T) ==
  LET distances == {Magnitude(s - t) : s \in S, t \in T}
  IN  CHOOSE r \in distances : \A x \in distances : r >= x

\* The largest the derivative gets with these gains.
DerivativeBound ==
  TruncDiv(Magnitude(gains.kd) * Farthest(PidTemps, PidTemps) * Second, DtMin)

\* Where kp and ki differ in sign the proportional part works against the
\* integral, which goes further by as much before the output saturates.
ProportionalBound ==
  IF (gains.kp < 0 /\ gains.ki > 0) \/ (gains.kp > 0 /\ gains.ki < 0)
  THEN Magnitude(gains.kp) * Farthest(PidTemps, PidSetpoints)
  ELSE 0

WindupBound == DerivativeBound + ProportionalBound

\* However long the zone stays hot or cold and however the setpoint, the
\* period and the gains move meanwhile, the integral has wound up no further
\* than it takes to hold full duty, or none, against the derivative (and
\* against the proportional part, where the gains' signs make it oppose):
\* what it has to unwind before the duty follows the temperature again is
\* bounded.
WindupBounded ==
  pid.integral \in -WindupBound .. (PidMax + 1) * One + WindupBound
=============================================================================
