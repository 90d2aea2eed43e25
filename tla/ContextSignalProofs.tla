------------------------- MODULE ContextSignalProofs -------------------------
(***************************************************************************)
(* What the two keepers of a context's age, the stale detector and the      *)
(* modifier, agree on, for every configuration, clock and sequence of       *)
(* samples, and therefore for the samples the CAN bus delivers through the  *)
(* daemon's cache: CanContext adds to ContextSignal where a sample comes    *)
(* from, and the proofs never ask.                                          *)
(***************************************************************************)
EXTENDS CanContext, CommonFacts

\* The ranges of the clock and of the machine's counters.
Typed ==
  /\ cfg \in ContextCfgs
  /\ now \in 0 .. Wrap - 1 /\ lastValid \in 0 .. Wrap - 1
  /\ "valid" \in DOMAIN filter
  /\ everValid \in BOOLEAN
  /\ d \in Fsms
  /\ age \in Nat

\* now_ms less the date of the last valid sample is its true age, less a
\* round of the clock when it has wrapped since; beyond a round the ghost
\* only tells that it is old.
Dated ==
  everValid => age >= Wrap \/ now = lastValid + age \/ now + Wrap = lastValid + age

\* What the machine's state tells of the condition at the last tick: a latched
\* fault has counted no quiet tick while the context is stale, and one that
\* needs a single tick to be raised has counted none.
Counted ==
  /\ d.state = "NORMAL" /\ cfg.persist <= 1 => d.persist = 0
  /\ everValid /\ age < Wrap /\ cfg.timeout <= age /\ d.state = "LATCHED" => d.recovery = 0

IInv == Typed /\ Dated /\ Counted /\ StaleMeansFailSafe /\ StaleWithinWrap

-----------------------------------------------------------------------------
(* The clock. *)

\* A number below two rounds, reduced to one.
LEMMA Reduced ==
  ASSUME NEW x \in 0 .. 2 * Wrap - 1
  PROVE  x % Wrap = IF x < Wrap THEN x ELSE x - Wrap
<1>1. Wrap \in Nat \ {0}
  BY ContextAssumption
<1> QED BY <1>1

\* The clock's next value stays in its range.
LEMMA NextTime ==
  ASSUME now \in 0 .. Wrap - 1
  PROVE  /\ (now + PeriodMs) % Wrap \in 0 .. Wrap - 1
         /\ \/ (now + PeriodMs) % Wrap = now + PeriodMs
            \/ (now + PeriodMs) % Wrap = now + PeriodMs - Wrap
<1>1. Wrap \in Nat \ {0} /\ PeriodMs \in 1 .. Wrap - 1
  BY ContextAssumption
<1>2. now + PeriodMs \in 0 .. 2 * Wrap - 1
  BY <1>1
<1> QED BY <1>1, <1>2, Reduced

\* The age the detector computes from two dates in range.
LEMMA AgeOf ==
  ASSUME NEW last \in 0 .. Wrap - 1, NEW time \in 0 .. Wrap - 1
  PROVE  Age(TRUE, last, time) = IF time >= last THEN time - last ELSE time - last + Wrap
<1>1. Wrap \in Nat \ {0}
  BY ContextAssumption
<1>2. time - last + Wrap \in 0 .. 2 * Wrap - 1
  BY <1>1
<1>3. (time - last + Wrap) % Wrap = IF time >= last THEN time - last ELSE time - last + Wrap
  BY <1>1, <1>2, Reduced
<1> QED BY <1>3 DEF Age

-----------------------------------------------------------------------------
(* A tick. *)

\* What a tick makes of the dates and of the filter's validity.
LEMMA TickDates ==
  ASSUME IInv, NEW sample, NEW ok \in BOOLEAN, Tick(sample, ok)
  PROVE  /\ now' \in 0 .. Wrap - 1 /\ lastValid' \in 0 .. Wrap - 1
         /\ everValid' \in BOOLEAN /\ age' \in Nat
         /\ Dated'
         /\ ok  => everValid' /\ age' = 0 /\ Age(everValid', lastValid', now') = 0
         /\ ~ok => everValid' = everValid /\ lastValid' = lastValid
         /\ everValid' /\ age' < Wrap => Age(everValid', lastValid', now') = age'
         /\ everValid' => Age(everValid', lastValid', now') <= age' \/ age' >= Wrap
<1>1. /\ Wrap \in Nat \ {0} /\ PeriodMs \in 1 .. Wrap - 1
      /\ now \in 0 .. Wrap - 1 /\ lastValid \in 0 .. Wrap - 1 /\ age \in Nat
      /\ everValid \in BOOLEAN
  BY ContextAssumption DEF IInv, Typed
<1>2. /\ now' = (now + PeriodMs) % Wrap
      /\ everValid' = (everValid \/ ok)
      /\ lastValid' = IF ok THEN now' ELSE lastValid
      /\ age' = IF ok THEN 0 ELSE IF age < Wrap THEN age + PeriodMs ELSE age
  BY DEF Tick, DatesContext
<1>3. now' \in 0 .. Wrap - 1 /\ (now' = now + PeriodMs \/ now' = now + PeriodMs - Wrap)
  BY <1>1, <1>2, NextTime
<1>4. lastValid' \in 0 .. Wrap - 1 /\ age' \in Nat /\ everValid' \in BOOLEAN
  BY <1>1, <1>2, <1>3
<1>5. Dated'
  BY <1>1, <1>2, <1>3 DEF Dated, IInv
<1>6. everValid' => Age(everValid', lastValid', now') =
                      IF now' >= lastValid' THEN now' - lastValid' ELSE now' - lastValid' + Wrap
  BY <1>3, <1>4, AgeOf
<1>7. ASSUME everValid'
      PROVE  /\ age' < Wrap => Age(everValid', lastValid', now') = age'
             /\ Age(everValid', lastValid', now') <= age' \/ age' >= Wrap
  <2> DEFINE a == Age(everValid', lastValid', now')
  <2>1. a = IF now' >= lastValid' THEN now' - lastValid' ELSE now' - lastValid' + Wrap
    BY <1>6, <1>7
  <2>2. age' >= Wrap \/ now' = lastValid' + age' \/ now' + Wrap = lastValid' + age'
    BY <1>5, <1>7 DEF Dated
  <2> HIDE DEF a
  <2>3. ASSUME age' < Wrap PROVE a = age'
    <3>1. now' = lastValid' + age' \/ now' + Wrap = lastValid' + age'
      BY <1>1, <1>4, <2>2, <2>3
    <3>2. \A n, l, g \in Nat : l < Wrap /\ n < Wrap /\ g < Wrap /\ (n = l + g \/ n + Wrap = l + g) =>
            g = IF n >= l THEN n - l ELSE n - l + Wrap
      BY <1>1
    <3>3. now' \in Nat /\ now' < Wrap /\ lastValid' \in Nat /\ lastValid' < Wrap /\ age' \in Nat
      BY <1>1, <1>3, <1>4
    <3> QED BY <2>1, <2>3, <3>1, <3>2, <3>3
  <2>4. a <= age' \/ age' >= Wrap
    BY <1>1, <1>4, <2>3
  <2> QED BY <2>3, <2>4 DEF a
<1>8. ASSUME ok PROVE everValid' /\ age' = 0 /\ Age(everValid', lastValid', now') = 0
  <2>1. everValid'
    BY <1>2, <1>8, Zenon
  <2>2. age' = 0 /\ age' < Wrap
    BY <1>1, <1>2, <1>8
  <2> QED BY <1>7, <2>1, <2>2
<1>9. ~ok => everValid' = everValid /\ lastValid' = lastValid
  BY <1>1, <1>2
<1> QED BY <1>3, <1>4, <1>5, <1>7, <1>8, <1>9

\* A context's configuration is one for the machine.
LEMMA ContextFields ==
  ASSUME NEW c \in ContextCfgs
  PROVE  FsmFields(c) /\ c.timeout \in 1 .. Wrap - 1
BY ContextAssumption DEF FsmFields

\* Where a tick leaves the machine: in an active state that is not latched
\* only when the condition holds, and in NORMAL only when it does not, or too
\* few ticks for persist_ticks have counted.
LEMMA FsmMoves ==
  ASSUME NEW m \in Fsms, NEW active \in BOOLEAN, NEW c \in ContextCfgs,
         m.state = "NORMAL" /\ c.persist <= 1 => m.persist = 0
  PROVE  LET n == FsmTick(m, active, c) IN
         /\ n.state \in {"DEGRADED", "CRITICAL"} => active
         /\ m.state = "NORMAL" /\ n.state # "NORMAL" => active
         /\ c.persist <= 1 /\ active => n.state \in ActiveStates
         /\ n.state = "NORMAL" /\ c.persist <= 1 => n.persist = 0
         /\ n.state = "LATCHED" /\ active => n.recovery = 0
<1>1. /\ FsmFields(c) /\ ActionToState(c) \in ActiveStates
      /\ m.persist \in Counters /\ m.recovery \in Counters /\ m.state \in FaultStates
  BY ContextFields, TargetState DEF Fsms
<1>2. Arms(m, active, c, FsmTick(m, active, c))
  BY <1>1, FsmTickArms
<1>3. /\ Wrapping(0) = 1 /\ c.persist \in Nat /\ c.recovery \in Nat
      /\ Wrapping(m.persist) \in Nat /\ Wrapping(m.recovery) \in Nat
  BY <1>1, CounterMaxAssumption, CounterSteps DEF Wrapping, FsmFields, Counters
<1> DEFINE n == FsmTick(m, active, c)
<1> HIDE DEF n
<1>4. Arms(m, active, c, n)
  BY <1>2 DEF n
<1>5. CASE m.state = "NORMAL"
  <2>1. CASE ~active
    BY <1>4, <1>5, <2>1 DEF Arms, n
  <2>2. CASE active /\ Wrapping(m.persist) >= c.persist
    BY <1>1, <1>4, <1>5, <2>2 DEF Arms, n, ActiveStates
  <2>3. CASE active /\ Wrapping(m.persist) < c.persist
    <3>1. ~ (c.persist <= 1)
      BY <1>3, <1>5, <2>3
    <3> QED BY <1>4, <1>5, <2>3, <3>1 DEF Arms, n
  <2> QED BY <1>3, <2>1, <2>2, <2>3
<1>6. CASE m.state \in {"DEGRADED", "CRITICAL"}
  BY <1>4, <1>6 DEF Arms, n, ActiveStates
<1>7. CASE m.state = "RECOVERING"
  <2>1. CASE active
    BY <1>1, <1>4, <1>7, <2>1 DEF Arms, n, ActiveStates
  <2>2. CASE ~active /\ Wrapping(m.recovery) >= c.recovery
    BY <1>4, <1>7, <2>2 DEF Arms, n, FsmReset
  <2>3. CASE ~active /\ Wrapping(m.recovery) < c.recovery
    BY <1>4, <1>7, <2>3 DEF Arms, n
  <2> QED BY <1>3, <2>1, <2>2, <2>3
<1>8. CASE m.state = "LATCHED"
  BY <1>4, <1>8 DEF Arms, n, ActiveStates
<1> QED BY <1>1, <1>5, <1>6, <1>7, <1>8 DEF FaultStates, ActiveStates

-----------------------------------------------------------------------------
(* Every step, wherever the samples come from. *)

\* A step of a context signal whose samples are anything.
AnyTick == \E sample : \E ok \in BOOLEAN : Tick(sample, ok)

\* A tick's machine saw a stale context only when no sample came.
LEMMA StaleHasNoSample ==
  ASSUME IInv, NEW sample, NEW ok \in BOOLEAN, Tick(sample, ok),
         Age(everValid', lastValid', now') >= cfg.timeout
  PROVE  ~ok
<1>1. cfg.timeout \in 1 .. Wrap - 1
  BY ContextFields DEF IInv, Typed
<1>2. ok => Age(everValid', lastValid', now') = 0
  BY TickDates
<1> QED BY <1>1, <1>2, ContextAssumption

\* What a tick without a sample makes of the modifier's input.
LEMMA NoSampleFailsSafe ==
  ASSUME IInv, NEW sample, Tick(sample, FALSE)
  PROVE  /\ failSafe'
         /\ cfg.failSafe = "ASSUME_STATIONARY" => effective' = 0
<1>1. filter' = [filter EXCEPT !.valid = FALSE]
  BY DEF Tick, FilterStep
<1>2. filter'.valid = FALSE
  BY <1>1 DEF IInv, Typed
<1>3. failSafe' = ~filter'.valid /\ effective' = EffectiveValue(filter', everValid')
  BY DEF Tick
<1>4. cfg.failSafe = "ASSUME_STATIONARY" => cfg.failSafe # "HOLD_LAST"
  OBVIOUS
<1> QED BY <1>2, <1>3, <1>4 DEF EffectiveValue

\* A tick, with or without a sample, keeps the invariant.
LEMMA TickIInv ==
  ASSUME IInv, NEW sample, NEW ok \in BOOLEAN, Tick(sample, ok)
  PROVE  IInv'
<1> DEFINE stale == Age(everValid', lastValid', now') >= cfg.timeout
<1>1. /\ cfg \in ContextCfgs /\ cfg' = cfg /\ d \in Fsms
      /\ cfg.timeout \in 1 .. Wrap - 1 /\ FsmFields(cfg)
      /\ d' = FsmTick(d, stale, cfg)
  BY ContextFields DEF IInv, Typed, Tick
<1>2. stale \in BOOLEAN
  OBVIOUS
<1>3. /\ d' \in Fsms
      /\ d'.state \in {"DEGRADED", "CRITICAL"} => stale
      /\ cfg.persist <= 1 /\ stale => d'.state \in ActiveStates
      /\ d'.state = "NORMAL" /\ cfg.persist <= 1 => d'.persist = 0
      /\ d'.state = "LATCHED" /\ stale => d'.recovery = 0
  <2>1. d.state = "NORMAL" /\ cfg.persist <= 1 => d.persist = 0
    BY DEF IInv, Counted
  <2> HIDE DEF stale
  <2> QED BY <1>1, <1>2, <2>1, FsmMoves, FsmTickType
<1>4. /\ now' \in 0 .. Wrap - 1 /\ lastValid' \in 0 .. Wrap - 1
      /\ everValid' \in BOOLEAN /\ age' \in Nat /\ Dated'
      /\ everValid' /\ age' < Wrap => Age(everValid', lastValid', now') = age'
  BY TickDates
<1>5. "valid" \in DOMAIN filter'
  <2>1. filter' = FilterStep(filter, cfg.alpha, sample, ok) /\ "valid" \in DOMAIN filter
    BY DEF Tick, IInv, Typed
  <2> QED BY <2>1 DEF FilterStep
<1>6. everValid' /\ age' < Wrap /\ cfg.timeout <= age' => stale
  BY <1>4
<1>7. Counted'
  BY <1>1, <1>3, <1>6 DEF Counted
<1>8. StaleMeansFailSafe'
  <2>1. SUFFICES ASSUME d'.state \in {"DEGRADED", "CRITICAL"}
                 PROVE  failSafe' /\ (cfg.failSafe = "ASSUME_STATIONARY" => effective' = 0)
    BY <1>1 DEF StaleMeansFailSafe
  <2>2. ~ok
    BY <1>3, <2>1, StaleHasNoSample
  <2>3. Tick(sample, FALSE)
    BY <2>2
  <2> QED BY <2>3, NoSampleFailsSafe
<1>9. StaleWithinWrap'
  BY <1>1, <1>3, <1>6 DEF StaleWithinWrap
<1> QED BY <1>1, <1>3, <1>4, <1>5, <1>7, <1>8, <1>9 DEF IInv, Typed

\* CMD_CLEAR_FAULT takes away a latched fault only after quiet ticks, and
\* there are none while the context is stale.
LEMMA ClearIInv ==
  ASSUME IInv, ClearStale
  PROVE  IInv'
<1>1. /\ d' = FsmReset /\ d.state = "LATCHED" /\ d.recovery >= cfg.recovery
      /\ UNCHANGED <<cfg, now, filter, everValid, lastValid, effective, failSafe, age>>
  BY DEF ClearStale, ClearAllowed
<1>2. d' \in Fsms
  BY <1>1, CounterMaxAssumption DEF FsmReset, Fsms, FaultStates, Counters
<1>3. Typed' /\ Dated'
  BY <1>1, <1>2 DEF IInv, Typed, Dated
<1>4. Counted' /\ StaleMeansFailSafe'
  BY <1>1 DEF FsmReset, Counted, StaleMeansFailSafe
<1>5. StaleWithinWrap'
  <2>1. ~ (everValid /\ cfg.recovery > 0 /\ cfg.timeout <= age /\ age < Wrap)
    <3>1. cfg.recovery \in Nat /\ d.recovery \in Nat
      BY ContextFields, CounterMaxAssumption DEF IInv, Typed, FsmFields, Counters, Fsms
    <3> QED BY <1>1, <3>1 DEF IInv, Counted
  <2> QED BY <1>1, <2>1 DEF StaleWithinWrap
<1> QED BY <1>3, <1>4, <1>5 DEF IInv

\* Nothing has been sampled, and nothing raised, at boot.
LEMMA InitIInv == Init => IInv
<1> SUFFICES ASSUME Init PROVE IInv
  OBVIOUS
<1>1. 0 \in 0 .. Wrap - 1 /\ 0 \in Counters
  BY ContextAssumption, CounterMaxAssumption DEF Counters
<1>2. Typed
  BY <1>1 DEF Init, Typed, FilterReset, FsmReset, Fsms, FaultStates
<1> QED BY <1>2 DEF Init, IInv, Dated, Counted, StaleMeansFailSafe, StaleWithinWrap, FsmReset

\* Every step keeps the invariant.
LEMMA StepIInv == IInv /\ (AnyTick \/ ClearStale \/ UNCHANGED vars) => IInv'
<1> SUFFICES ASSUME IInv, AnyTick \/ ClearStale \/ UNCHANGED vars PROVE IInv'
  OBVIOUS
<1>1. CASE AnyTick
  BY <1>1, TickIInv DEF AnyTick
<1>2. CASE ClearStale
  BY <1>2, ClearIInv
<1>3. CASE UNCHANGED vars
  BY <1>3 DEF vars, IInv, Typed, Dated, Counted, StaleMeansFailSafe, StaleWithinWrap
<1> QED BY <1>1, <1>2, <1>3

\* A fault is raised only on an age that has reached the timeout.
FreshStep == d.state = "NORMAL" /\ d'.state # "NORMAL" => ~everValid' \/ age' >= cfg.timeout

\* Every step raises a fault only so.
LEMMA StepFresh == IInv /\ (AnyTick \/ ClearStale \/ UNCHANGED vars) => FreshStep
<1> SUFFICES ASSUME IInv, AnyTick \/ ClearStale \/ UNCHANGED vars PROVE FreshStep
  OBVIOUS
<1>1. CASE AnyTick
  <2>1. PICK sample : \E ok \in BOOLEAN : Tick(sample, ok)
    BY <1>1 DEF AnyTick
  <2>2. PICK ok \in BOOLEAN : Tick(sample, ok)
    BY <2>1
  <2> DEFINE a == Age(everValid', lastValid', now')
             stale == a >= cfg.timeout
  <2>3. d' = FsmTick(d, stale, cfg) /\ stale \in BOOLEAN /\ d \in Fsms /\ cfg \in ContextCfgs
    BY <2>2 DEF Tick, IInv, Typed
  <2>4. d.state = "NORMAL" /\ d'.state # "NORMAL" => stale
    <3>1. d.state = "NORMAL" /\ cfg.persist <= 1 => d.persist = 0
      BY DEF IInv, Counted
    <3> HIDE DEF stale
    <3> QED BY <2>3, <3>1, FsmMoves
  <2>5. everValid' => a <= age' \/ age' >= Wrap
    BY <2>2, TickDates
  <2>6. everValid' => a \in Int /\ age' \in Nat
    <3>1. /\ lastValid' \in 0 .. Wrap - 1 /\ now' \in 0 .. Wrap - 1 /\ age' \in Nat
          /\ Wrap \in Nat
      BY <2>2, TickDates, ContextAssumption
    <3>2. \A l, t \in 0 .. Wrap - 1 : Age(TRUE, l, t) \in Int
      <4>1. \A l, t \in 0 .. Wrap - 1 : (IF t >= l THEN t - l ELSE t - l + Wrap) \in Int
        BY <3>1
      <4> QED BY <4>1, AgeOf
    <3> QED BY <3>1, <3>2
  <2>7. cfg.timeout \in 1 .. Wrap - 1 /\ Wrap \in Nat
    BY <2>3, ContextFields, ContextAssumption
  <2> HIDE DEF a
  <2>8. everValid' /\ stale => age' >= cfg.timeout
    BY <2>5, <2>6, <2>7
  <2> HIDE DEF stale
  <2> QED BY <2>4, <2>8 DEF FreshStep
<1>2. CASE ClearStale
  BY <1>2 DEF ClearStale, ClearAllowed, FreshStep
<1>3. CASE UNCHANGED vars
  BY <1>3 DEF vars, FreshStep
<1> QED BY <1>1, <1>2, <1>3

-----------------------------------------------------------------------------
(* A context by itself, and the vehicle speed on the CAN bus. *)

\* The steps of a context by itself,
LEMMA NextSteps == [Next]_vars => AnyTick \/ ClearStale \/ UNCHANGED vars
BY DEF Next, AnyTick

\* and those of the speed behind the cache are among them.
LEMMA CanSteps == [CanNext]_allVars => AnyTick \/ ClearStale \/ UNCHANGED vars
<1> SUFFICES ASSUME [CanNext]_allVars PROVE AnyTick \/ ClearStale \/ UNCHANGED vars
  OBVIOUS
<1>1. ASSUME NEW outcome, Period(outcome) PROVE AnyTick
  <2> DEFINE time == (now + PeriodMs) % Wrap
  <2>1. Answered(cache', time) \in BOOLEAN
    BY DEF Answered
  <2>2. Tick(IF Answered(cache', time) THEN cache'.value ELSE 0, Answered(cache', time))
    BY <1>1 DEF Period
  <2> HIDE DEF time
  <2> QED BY <2>1, <2>2 DEF AnyTick
<1>2. FallBehind => UNCHANGED vars
  BY DEF FallBehind
<1>3. ASSUME NEW value, EcuSends(value) PROVE UNCHANGED vars
  BY <1>3 DEF EcuSends
<1>4. ClearContext => ClearStale
  BY DEF ClearContext
<1>5. UNCHANGED allVars => UNCHANGED vars
  BY DEF allVars
<1> QED BY <1>1, <1>2, <1>3, <1>4, <1>5 DEF CanNext

\* So the invariant holds of both.
LEMMA SpecIInv == Spec => []IInv
<1> QED BY InitIInv, NextSteps, StepIInv, PTL DEF Spec

\* The bus starts a context like any other.
LEMMA CanIInv == CanSpec => []IInv
<1>1. CanInit => Init
  BY DEF CanInit
<1> QED BY <1>1, InitIInv, CanSteps, StepIInv, PTL DEF CanSpec

\* The modifier never works on a filtered value while the detector says the
\* context is stale: of any context, and of the vehicle speed behind the
\* daemon's cache and its own timeout.
THEOREM StaleFailsSafe == (Spec \/ CanSpec) => []StaleMeansFailSafe
<1>1. IInv => StaleMeansFailSafe
  BY DEF IInv
<1> QED BY <1>1, SpecIInv, CanIInv, PTL

\* A context is found stale in time on a clock of any width and any start,
\* across its wrap.
THEOREM StaleFoundInTime == (Spec \/ CanSpec) => []StaleWithinWrap
<1>1. IInv => StaleWithinWrap
  BY DEF IInv
<1> QED BY <1>1, SpecIInv, CanIInv, PTL

\* No stale fault is raised on a context that is fresh.
THEOREM FreshRaisesNothing == (Spec \/ CanSpec) => FreshNotRaised
<1>1. FreshStep => [d.state = "NORMAL" /\ d'.state # "NORMAL" =>
                      ~everValid' \/ age' >= cfg.timeout]_vars
  BY DEF FreshStep
<1> QED BY <1>1, StepFresh, NextSteps, CanSteps, SpecIInv, CanIInv, PTL
        DEF FreshNotRaised, Spec, CanSpec

-----------------------------------------------------------------------------
(* The cadence of the requests. *)

\* What a whole number of periods adds up to.
Multiples == {k * PeriodMs : k \in Nat}

\* The period divides the cadence, as 100 ms and 1000 ms do.
PeriodFits == Cadence \in Multiples

\* A request that is due at `due` when the clock shows `time`, `since`
\* milliseconds after the last one: the due time is Cadence after that, either
\* still ahead of the clock, a whole number of periods away, or already below
\* it, because the clock is about to wrap: then the request was this period's.
\* At boot it is 0.
OnCadence(time, due, since) ==
  /\ since < Cadence
  /\ \/ /\ time < due /\ due = time - since + Cadence
        /\ Cadence - since \in Multiples
     \/ /\ due <= time /\ since = 0
        /\ due = 0 \/ due = time + Cadence - Wrap

RequestDue ==
  /\ nextRequest \in 0 .. Wrap - 1 /\ sinceRequest \in Nat /\ sendFailed \in BOOLEAN
  /\ ~sendFailed => OnCadence(now, nextRequest, sinceRequest)

\* A whole number of periods that is not 0 is at least one, and one less is
\* such a number again.
LEMMA OneLess ==
  ASSUME NEW m \in Multiples, m > 0
  PROVE  m \in Nat /\ m >= PeriodMs /\ m - PeriodMs \in Multiples
<1>1. PICK k \in Nat : m = k * PeriodMs
  BY DEF Multiples
<1>2. PeriodMs \in Nat \ {0}
  BY ContextAssumption
<1>3. k # 0
  BY <1>1, <1>2
<1>4. PICK j \in Nat : k = j + 1
  <2>1. k - 1 \in Nat /\ k = (k - 1) + 1
    BY <1>3
  <2> QED BY <2>1
<1>5. m = j * PeriodMs + PeriodMs /\ j * PeriodMs \in Nat
  BY <1>1, <1>2, <1>4
<1>6. m - PeriodMs = j * PeriodMs
  BY <1>2, <1>5
<1> QED BY <1>2, <1>5, <1>6 DEF Multiples

\* One period on, a request that is due goes out on the cadence, and one that
\* is not stays on it.
LEMMA CadenceStep ==
  ASSUME PeriodFits, NEW n \in 0 .. Wrap - 1, NEW due \in 0 .. Wrap - 1, NEW since \in Nat,
         OnCadence(n, due, since), NEW t, t = (n + PeriodMs) % Wrap
  PROVE  /\ t \in 0 .. Wrap - 1
         /\ (t + Cadence) % Wrap \in 0 .. Wrap - 1
         /\ t >= due => OnCadence(t, (t + Cadence) % Wrap, 0)
         /\ ~ (t >= due) => since < Wrap /\ OnCadence(t, due, since + PeriodMs)
<1>1. /\ Wrap \in Nat \ {0} /\ PeriodMs \in 1 .. Wrap - 1 /\ Cadence \in 1 .. Wrap - 1
      /\ Cadence \in Multiples
  BY ContextAssumption, CanAssumption DEF PeriodFits
<1>2. /\ t \in 0 .. Wrap - 1
      /\ t = IF n + PeriodMs < Wrap THEN n + PeriodMs ELSE n + PeriodMs - Wrap
  <2>1. n + PeriodMs \in 0 .. 2 * Wrap - 1
    BY <1>1
  <2> QED BY <1>1, <2>1, Reduced
<1> DEFINE again == (t + Cadence) % Wrap
<1>3. again \in 0 .. Wrap - 1 /\ again = IF t + Cadence < Wrap THEN t + Cadence ELSE t + Cadence - Wrap
  <2>1. t + Cadence \in 0 .. 2 * Wrap - 1
    BY <1>1, <1>2
  <2> QED BY <1>1, <2>1, Reduced
<1> HIDE DEF again
<1>4. since < Cadence
  BY DEF OnCadence
<1>5. ASSUME t >= due PROVE OnCadence(t, again, 0)
  BY <1>1, <1>2, <1>3 DEF OnCadence
<1>6. ASSUME ~ (t >= due) PROVE OnCadence(t, due, since + PeriodMs)
  <2>1. CASE n < due
    <3>1. due = n - since + Cadence /\ Cadence - since \in Multiples
      BY <2>1 DEF OnCadence
    <3>2. Cadence - since > 0
      BY <1>1, <1>4
    <3>3. Cadence - since >= PeriodMs /\ Cadence - since - PeriodMs \in Multiples
      BY <3>1, <3>2, OneLess
    <3>4. t = n + PeriodMs
      BY <1>1, <1>2, <3>1, <3>3
    <3>5. due = t - (since + PeriodMs) + Cadence /\ since + PeriodMs < Cadence
      BY <1>1, <1>2, <1>6, <3>1, <3>4
    <3>6. Cadence - (since + PeriodMs) = Cadence - since - PeriodMs
      BY <1>1
    <3> QED BY <1>1, <1>2, <1>6, <3>3, <3>5, <3>6 DEF OnCadence
  <2>2. CASE ~ (n < due)
    <3>1. since = 0 /\ (due = 0 \/ due = n + Cadence - Wrap)
      BY <2>2 DEF OnCadence
    <3>2. due = n + Cadence - Wrap /\ t = n + PeriodMs - Wrap
      BY <1>1, <1>2, <1>6, <2>2, <3>1
    <3>3. Cadence - PeriodMs \in Multiples
      BY <1>1, OneLess
    <3>4. due = t - (since + PeriodMs) + Cadence /\ since + PeriodMs < Cadence
      BY <1>1, <1>2, <1>6, <3>1, <3>2
    <3>5. Cadence - (since + PeriodMs) = Cadence - PeriodMs
      BY <1>1, <3>1
    <3> QED BY <1>1, <1>2, <1>6, <3>3, <3>4, <3>5 DEF OnCadence
  <2> QED BY <2>1, <2>2
<1> QED BY <1>1, <1>2, <1>3, <1>4, <1>5, <1>6 DEF again

\* A period keeps the cadence.
LEMMA PeriodKeepsCadence ==
  ASSUME PeriodFits, now \in 0 .. Wrap - 1, RequestDue, NEW outcome, Period(outcome)
  PROVE  RequestDue'
<1> DEFINE t     == now'
           again == (t + Cadence) % Wrap
           due   == t >= nextRequest
           failed == due /\ outcome = "FAILED"
<1>1. /\ t = (now + PeriodMs) % Wrap
      /\ nextRequest' = IF due /\ ~failed THEN again ELSE nextRequest
      /\ sinceRequest' = IF due THEN 0 ELSE IF sinceRequest < Wrap THEN sinceRequest + PeriodMs
                                            ELSE sinceRequest
      /\ sendFailed' = (sendFailed \/ failed)
  BY DEF Period, Poll, Tick, Due
<1>2. /\ nextRequest \in 0 .. Wrap - 1 /\ sinceRequest \in Nat /\ sendFailed \in BOOLEAN
      /\ PeriodMs \in Nat
  BY ContextAssumption DEF RequestDue
<1>3. again \in 0 .. Wrap - 1
  BY <1>1, ContextAssumption, CanAssumption
<1> HIDE DEF t, again, due, failed
<1>4. nextRequest' \in 0 .. Wrap - 1 /\ sinceRequest' \in Nat /\ sendFailed' \in BOOLEAN
  <2>1. sinceRequest' \in {0, sinceRequest, sinceRequest + PeriodMs}
    BY <1>1
  <2> QED BY <1>1, <1>2, <1>3, <2>1
<1>5. ASSUME ~sendFailed' PROVE OnCadence(t, nextRequest', sinceRequest')
  <2>1. ~sendFailed /\ ~failed
    BY <1>1, <1>5
  <2>2. OnCadence(now, nextRequest, sinceRequest)
    BY <2>1 DEF RequestDue
  <2>3. due => OnCadence(t, again, 0)
    BY <1>1, <1>2, <2>2, CadenceStep DEF due, again
  <2>4. ~due => sinceRequest < Wrap /\ OnCadence(t, nextRequest, sinceRequest + PeriodMs)
    BY <1>1, <1>2, <2>2, CadenceStep DEF due
  <2> QED BY <1>1, <2>1, <2>3, <2>4
<1> QED BY <1>4, <1>5 DEF RequestDue, t

\* A request goes out in the first period that is Cadence after the last one,
\* for a period of any length that divides the cadence, on a clock of any
\* width, as long as requests can be sent, whatever is received.
THEOREM CadenceIsKept ==
  ASSUME PeriodFits
  PROVE  CanSpec => []CadenceKept
<1> DEFINE Inv == IInv /\ RequestDue
<1>1. CanInit => Inv
  <2> SUFFICES ASSUME CanInit PROVE Inv
    OBVIOUS
  <2>1. IInv
    BY InitIInv DEF CanInit
  <2>2. RequestDue
    <3>1. now = 0 /\ nextRequest = 0 /\ sinceRequest = 0 /\ sendFailed = FALSE
      BY DEF CanInit
    <3>2. Cadence \in 1 .. Wrap - 1 /\ Wrap \in Nat \ {0}
      BY ContextAssumption, CanAssumption
    <3>3. OnCadence(0, 0, 0)
      BY <3>2 DEF OnCadence
    <3>4. OnCadence(now, nextRequest, sinceRequest)
      BY <3>1, <3>3
    <3>5. nextRequest \in 0 .. Wrap - 1 /\ sinceRequest \in Nat /\ sendFailed \in BOOLEAN
      <4>1. 0 \in 0 .. Wrap - 1 /\ 0 \in Nat
        BY <3>2
      <4> QED BY <3>1, <4>1, Zenon
    <3> QED BY <3>4, <3>5 DEF RequestDue
  <2> QED BY <2>1, <2>2
<1>2. Inv /\ [CanNext]_allVars => Inv'
  <2> SUFFICES ASSUME IInv, RequestDue, [CanNext]_allVars PROVE IInv' /\ RequestDue'
    OBVIOUS
  <2>1. IInv'
    BY CanSteps, StepIInv
  <2>2. ASSUME NEW outcome, Period(outcome) PROVE RequestDue'
    BY <2>2, PeriodKeepsCadence DEF IInv, Typed
  <2>3. ASSUME UNCHANGED <<now, nextRequest, sinceRequest, sendFailed>> PROVE RequestDue'
    BY <2>3 DEF RequestDue
  <2> QED BY <2>1, <2>2, <2>3
       DEF CanNext, FallBehind, EcuSends, ClearContext, ClearStale, vars, canVars, allVars
<1>3. Inv => CadenceKept
  BY DEF RequestDue, OnCadence, CadenceKept
<1> HIDE DEF Inv
<1> QED BY <1>1, <1>2, <1>3, PTL DEF CanSpec

-----------------------------------------------------------------------------
(* The age of the speed. *)

\* What now_ms has moved on since a date, less the rounds it has made.
Since(time, date) == IF time >= date THEN time - date ELSE time - date + Wrap

\* The true age a of an answer whose date is `since` in the past, when the
\* clock is `behind` periods late: the daemon may have been late already when
\* the answer was dated, and the answer may have waited for its period.
AgeTold(since, behind, a) ==
  /\ since + behind * PeriodMs <= a + MaxLag * PeriodMs
  /\ a <= since + (behind + 1) * PeriodMs

CanTyped ==
  /\ cache.ever \in BOOLEAN /\ cache.ms \in 0 .. Wrap - 1
  /\ lag \in 0 .. MaxLag /\ cacheAge \in Nat /\ busFailed \in BOOLEAN
  /\ inbox \in Seq([value : Values \cup {NoValue}, age : Nat])

\* Every frame waiting has arrived since the last period.
InboxRecent == \A i \in 1 .. Len(inbox) : inbox[i].age <= lag * PeriodMs

\* The cache's date tells the age of the answer, until that is a round of the
\* clock.
CacheDated ==
  cache.ever /\ cacheAge + MaxLag * PeriodMs < Wrap =>
    AgeTold(Since(now, cache.ms), lag, cacheAge)

\* The core has a value only while the cached one is within the timeout.
SampleTimely ==
  filter.valid => cache.ever /\ (BspTimeout = 0 \/ Since(now, cache.ms) <= BspTimeout)

CacheInv == CanTyped /\ SampleTimely /\ (~busFailed => InboxRecent /\ CacheDated)

\* The milliseconds of a lag.
LEMMA LagMs ==
  ASSUME NEW k \in 0 .. MaxLag
  PROVE  /\ k * PeriodMs \in Nat /\ (k + 1) * PeriodMs = k * PeriodMs + PeriodMs
         /\ MaxLag * PeriodMs \in Nat /\ k * PeriodMs <= MaxLag * PeriodMs
<1>1. PeriodMs \in Nat /\ MaxLag \in Nat
  BY ContextAssumption, CanAssumption
<1>2. PICK j \in Nat : MaxLag = k + j
  <2>1. MaxLag - k \in Nat /\ MaxLag = k + (MaxLag - k)
    BY <1>1
  <2> QED BY <2>1
<1>3. MaxLag * PeriodMs = k * PeriodMs + j * PeriodMs
  BY <1>1, <1>2
<1>4. k * PeriodMs \in Nat /\ j * PeriodMs \in Nat
  BY <1>1
<1>5. (k + 1) * PeriodMs = k * PeriodMs + PeriodMs
  BY <1>1
<1> QED BY <1>3, <1>4, <1>5

\* What a period adds to the distance of a date, short of a round.
LEMMA SinceStep ==
  ASSUME NEW n \in 0 .. Wrap - 1, NEW date \in 0 .. Wrap - 1, NEW t, t = (n + PeriodMs) % Wrap
  PROVE  /\ t \in 0 .. Wrap - 1
         /\ Since(n, date) \in 0 .. Wrap - 1 /\ Since(t, date) \in 0 .. Wrap - 1
         /\ Since(t, date) = Since(n, date) + PeriodMs \/ Since(n, date) + PeriodMs >= Wrap
         /\ (t - date + Wrap) % Wrap = Since(t, date)
         /\ Since(t, t) = 0
<1>1. Wrap \in Nat \ {0} /\ PeriodMs \in 1 .. Wrap - 1
  BY ContextAssumption
<1>2. /\ t \in 0 .. Wrap - 1
      /\ t = IF n + PeriodMs < Wrap THEN n + PeriodMs ELSE n + PeriodMs - Wrap
  <2>1. n + PeriodMs \in 0 .. 2 * Wrap - 1
    BY <1>1
  <2> QED BY <1>1, <2>1, Reduced
<1>3. (t - date + Wrap) % Wrap = Since(t, date)
  <2>1. t - date + Wrap \in 0 .. 2 * Wrap - 1
    BY <1>1, <1>2
  <2> QED BY <1>1, <1>2, <2>1, Reduced DEF Since
<1> QED BY <1>1, <1>2, <1>3 DEF Since

\* A late period runs at once: the clock catches up and no time passes.
LEMMA AgeWhenLate ==
  ASSUME NEW k \in 1 .. MaxLag, NEW since \in 0 .. Wrap - 1, NEW later \in 0 .. Wrap - 1,
         later = since + PeriodMs \/ since + PeriodMs >= Wrap,
         NEW a \in Nat, a + MaxLag * PeriodMs < Wrap, AgeTold(since, k, a)
  PROVE  AgeTold(later, k - 1, a)
<1>1. /\ k \in 0 .. MaxLag /\ k - 1 \in 0 .. MaxLag /\ (k - 1) + 1 = k
      /\ Wrap \in Nat /\ PeriodMs \in Nat
  BY ContextAssumption, CanAssumption
<1>2. /\ k * PeriodMs \in Nat /\ (k - 1) * PeriodMs \in Nat /\ MaxLag * PeriodMs \in Nat
      /\ k * PeriodMs = (k - 1) * PeriodMs + PeriodMs
      /\ (k + 1) * PeriodMs = k * PeriodMs + PeriodMs
  BY <1>1, LagMs
<1>3. since + k * PeriodMs <= a + MaxLag * PeriodMs /\ a <= since + (k + 1) * PeriodMs
  BY DEF AgeTold
<1>4. later = since + PeriodMs
  BY <1>1, <1>2, <1>3
<1>5. later + (k - 1) * PeriodMs <= a + MaxLag * PeriodMs /\ a <= later + k * PeriodMs
  BY <1>1, <1>2, <1>3, <1>4
<1> QED BY <1>1, <1>5 DEF AgeTold

\* A period that is on time is a period of time.
LEMMA AgeOnTime ==
  ASSUME NEW since \in 0 .. Wrap - 1, NEW later \in 0 .. Wrap - 1,
         later = since + PeriodMs \/ since + PeriodMs >= Wrap,
         NEW a \in Nat, a + PeriodMs + MaxLag * PeriodMs < Wrap, AgeTold(since, 0, a)
  PROVE  AgeTold(later, 0, a + PeriodMs)
<1>1. 0 \in 0 .. MaxLag /\ Wrap \in Nat /\ PeriodMs \in Nat /\ 0 * PeriodMs = 0
  BY ContextAssumption, CanAssumption
<1>2. MaxLag * PeriodMs \in Nat /\ (0 + 1) * PeriodMs = PeriodMs
  BY <1>1, LagMs
<1>3. since <= a + MaxLag * PeriodMs /\ a <= since + PeriodMs
  BY <1>1, <1>2 DEF AgeTold
<1>4. later = since + PeriodMs
  BY <1>1, <1>2, <1>3
<1> QED BY <1>1, <1>2, <1>3, <1>4 DEF AgeTold

\* A missed deadline puts the clock one period further behind.
LEMMA AgeFallingBehind ==
  ASSUME NEW k \in 0 .. MaxLag - 1, NEW since \in 0 .. Wrap - 1, NEW a \in Nat, AgeTold(since, k, a)
  PROVE  AgeTold(since, k + 1, a + PeriodMs)
<1>1. k \in 0 .. MaxLag /\ k + 1 \in 0 .. MaxLag /\ Wrap \in Nat /\ PeriodMs \in Nat
  BY ContextAssumption, CanAssumption
<1>2. /\ k * PeriodMs \in Nat /\ MaxLag * PeriodMs \in Nat
      /\ (k + 1) * PeriodMs = k * PeriodMs + PeriodMs
      /\ ((k + 1) + 1) * PeriodMs = (k + 1) * PeriodMs + PeriodMs
  BY <1>1, LagMs
<1>3. since + k * PeriodMs <= a + MaxLag * PeriodMs /\ a <= since + (k + 1) * PeriodMs
  BY DEF AgeTold
<1> QED BY <1>1, <1>2, <1>3 DEF AgeTold

\* An answer drained now has waited for no more than this period and the ones
\* missed since the last.
LEMMA AgeWhenDrained ==
  ASSUME NEW k \in 0 .. MaxLag, NEW a \in Nat, a <= (k + 1) * PeriodMs
  PROVE  AgeTold(0, k, a)
<1>1. k * PeriodMs \in Nat /\ MaxLag * PeriodMs \in Nat /\ k * PeriodMs <= MaxLag * PeriodMs
      /\ (k + 1) * PeriodMs = k * PeriodMs + PeriodMs /\ PeriodMs \in Nat
  BY LagMs, ContextAssumption
<1> QED BY <1>1 DEF AgeTold

Waiting == [value : Values \cup {NoValue}, age : Nat]

\* A period's time makes an age older by a period, unless it is past telling.
LEMMA OlderFacts ==
  ASSUME NEW a \in Nat
  PROVE  /\ Older(a) \in Nat /\ a <= Older(a) /\ Older(a) <= a + PeriodMs
         /\ Older(a) + MaxLag * PeriodMs < Wrap =>
              Older(a) = a + PeriodMs /\ a + MaxLag * PeriodMs < Wrap
<1>1. /\ PeriodMs \in Nat /\ MaxLag * PeriodMs \in Nat /\ Wrap \in Nat
  <2>1. 0 \in 0 .. MaxLag
    BY CanAssumption
  <2> QED BY <2>1, LagMs, ContextAssumption
<1> QED BY <1>1 DEF Older

\* The frames after a period's time.
LEMMA PassedFrames ==
  ASSUME inbox \in Seq(Waiting)
  PROVE  /\ PassTime.inbox \in Seq(Waiting) /\ Len(PassTime.inbox) = Len(inbox)
         /\ \A i \in 1 .. Len(inbox) :
              PassTime.inbox[i].age <= inbox[i].age + PeriodMs /\ inbox[i].age \in Nat
<1> DEFINE n == Len(inbox)
           passed == [i \in 1 .. n |-> [inbox[i] EXCEPT !.age = Older(@)]]
<1>1. PassTime.inbox = passed
  BY DEF PassTime
<1>2. n \in Nat /\ \A i \in 1 .. n : inbox[i] \in Waiting
  OBVIOUS
<1>3. ASSUME NEW i \in 1 .. n
      PROVE  passed[i] \in Waiting /\ passed[i].age <= inbox[i].age + PeriodMs /\ inbox[i].age \in Nat
  <2>1. inbox[i] \in Waiting /\ inbox[i].age \in Nat
    BY <1>2, <1>3 DEF Waiting
  <2>2. passed[i] = [inbox[i] EXCEPT !.age = Older(inbox[i].age)]
    BY <1>3
  <2>3. Older(inbox[i].age) \in Nat /\ Older(inbox[i].age) <= inbox[i].age + PeriodMs
    BY <2>1, OlderFacts
  <2> HIDE DEF passed
  <2> QED BY <2>1, <2>2, <2>3 DEF Waiting
<1>4. passed \in [1 .. n -> Waiting]
  <2> HIDE DEF n
  <2> QED BY <1>3
<1>5. passed \in Seq(Waiting) /\ Len(passed) = n
  <2> HIDE DEF passed, n
  <2> QED BY <1>2, <1>4
<1> QED BY <1>1, <1>3, <1>5

\* The frames a drain finds and the age of the cached answer then.
Found == IF lag > 0 THEN NoTime ELSE PassTime

\* What a period finds: frames no older than it and what it is late by, and a
\* cached answer whose date still tells its age.
LEMMA FoundFacts ==
  ASSUME CacheInv, now \in 0 .. Wrap - 1, NEW t, t = (now + PeriodMs) % Wrap,
         NEW k, k = IF lag > 0 THEN lag - 1 ELSE 0
  PROVE  /\ k \in 0 .. MaxLag
         /\ Found.inbox \in Seq(Waiting) /\ Found.cache \in Nat
         /\ ~busFailed => \A i \in 1 .. Len(Found.inbox) : Found.inbox[i].age <= (k + 1) * PeriodMs
         /\ ~busFailed /\ cache.ever /\ Found.cache + MaxLag * PeriodMs < Wrap =>
              AgeTold(Since(t, cache.ms), k, Found.cache)
<1>1. /\ inbox \in Seq(Waiting) /\ lag \in 0 .. MaxLag /\ cacheAge \in Nat
      /\ cache.ms \in 0 .. Wrap - 1 /\ PeriodMs \in Nat /\ MaxLag \in Nat
  BY ContextAssumption, CanAssumption DEF CacheInv, CanTyped, Waiting
<1>2. k \in 0 .. MaxLag
  BY <1>1
<1> DEFINE since == Since(now, cache.ms)
           later == Since(t, cache.ms)
<1>3. since \in 0 .. Wrap - 1 /\ later \in 0 .. Wrap - 1
      /\ (later = since + PeriodMs \/ since + PeriodMs >= Wrap)
  BY <1>1, SinceStep
<1>4. /\ ~busFailed => InboxRecent
      /\ ~busFailed /\ cache.ever /\ cacheAge + MaxLag * PeriodMs < Wrap => AgeTold(since, lag, cacheAge)
  BY DEF CacheInv, CacheDated
<1> HIDE DEF since, later
<1>5. CASE lag > 0
  <2>1. Found.inbox = inbox /\ Found.cache = cacheAge /\ k = lag - 1 /\ lag \in 1 .. MaxLag
    BY <1>1, <1>5 DEF Found, NoTime
  <2>2. (k + 1) * PeriodMs = lag * PeriodMs
    BY <1>1, <2>1
  <2>3. ~busFailed => \A i \in 1 .. Len(Found.inbox) : Found.inbox[i].age <= (k + 1) * PeriodMs
    BY <1>4, <2>1, <2>2 DEF InboxRecent
  <2>4. ASSUME ~busFailed, cache.ever, cacheAge + MaxLag * PeriodMs < Wrap
        PROVE  AgeTold(later, k, cacheAge)
    BY <1>1, <1>3, <1>4, <2>1, <2>4, AgeWhenLate
  <2> QED BY <1>1, <1>2, <2>1, <2>3, <2>4 DEF later
<1>6. CASE ~ (lag > 0)
  <2>1. Found.inbox = PassTime.inbox /\ Found.cache = Older(cacheAge) /\ k = 0 /\ lag = 0
    BY <1>1, <1>6 DEF Found, PassTime
  <2>2. lag * PeriodMs = 0 /\ (k + 1) * PeriodMs = PeriodMs
    BY <1>1, <2>1
  <2>3. ASSUME ~busFailed, NEW i \in 1 .. Len(Found.inbox)
        PROVE  Found.inbox[i].age <= (k + 1) * PeriodMs
    <3>1. i \in 1 .. Len(inbox) /\ Found.inbox[i].age <= inbox[i].age + PeriodMs /\ inbox[i].age \in Nat
      BY <1>1, <2>1, <2>3, PassedFrames
    <3>2. inbox[i].age <= 0
      BY <1>4, <2>2, <2>3, <3>1 DEF InboxRecent
    <3>3. inbox[i].age = 0
      BY <3>1, <3>2
    <3>4. inbox[i].age + PeriodMs = (k + 1) * PeriodMs
      BY <1>1, <2>2, <3>3
    <3> QED BY <3>1, <3>4
  <2>4. ASSUME ~busFailed, cache.ever, Found.cache + MaxLag * PeriodMs < Wrap
        PROVE  AgeTold(later, k, Found.cache)
    <3>1. Found.cache = cacheAge + PeriodMs /\ cacheAge + MaxLag * PeriodMs < Wrap
      BY <1>1, <2>1, <2>4, OlderFacts
    <3>2. AgeTold(since, 0, cacheAge) /\ cacheAge + PeriodMs + MaxLag * PeriodMs < Wrap
      BY <1>4, <2>1, <2>4, <3>1
    <3> QED BY <1>1, <1>3, <2>1, <3>1, <3>2, AgeOnTime
  <2> QED BY <1>1, <1>2, <2>1, <2>3, <2>4, PassedFrames, OlderFacts DEF later
<1> QED BY <1>5, <1>6

\* The last frame that decodes is one of those found.
LEMMA LastDecoded ==
  ASSUME NEW frames \in Seq(Waiting), Decoded(frames) # {}
  PROVE  Max(Decoded(frames)) \in 1 .. Len(frames)
<1>1. Len(frames) \in Nat /\ Decoded(frames) \in SUBSET (0 .. Len(frames))
  BY DEF Decoded
<1>2. Max(Decoded(frames)) \in Decoded(frames)
  BY <1>1, MaxOfBounded
<1> QED BY <1>2 DEF Decoded

\* A period keeps what the dates tell.
LEMMA PeriodKeepsDates ==
  ASSUME IInv, CacheInv, NEW outcome, Period(outcome)
  PROVE  CacheInv'
<1> DEFINE t == now'
           k == IF lag > 0 THEN lag - 1 ELSE 0
           found == Found
<1>1. /\ t = (now + PeriodMs) % Wrap /\ lag' = k /\ cfg' = cfg
      /\ Poll(outcome, t, found)
      /\ filter'.valid => Answered(cache', t)
  <2>1. Tick(IF Answered(cache', t) THEN cache'.value ELSE 0, Answered(cache', t))
        /\ t = (now + PeriodMs) % Wrap
    BY DEF Period, Tick
  <2>2. filter'.valid => Answered(cache', t)
    <3>1. SUFFICES ASSUME ~ Answered(cache', t) PROVE ~ filter'.valid
      OBVIOUS
    <3>2. filter' = [filter EXCEPT !.valid = FALSE] /\ "valid" \in DOMAIN filter
      BY <2>1, <3>1 DEF Tick, FilterStep, IInv, Typed
    <3> QED BY <3>2
  <2> HIDE DEF t
  <2>3. /\ lag' = k /\ cfg' = cfg /\ Poll(outcome, t, found)
    BY <2>1 DEF Period, Tick, Found
  <2> QED BY <2>1, <2>2, <2>3
<1>2. /\ now \in 0 .. Wrap - 1 /\ Wrap \in Nat
      /\ cache.ever \in BOOLEAN /\ cache.ms \in 0 .. Wrap - 1 /\ busFailed \in BOOLEAN
      /\ lag \in 0 .. MaxLag /\ MaxLag \in Nat
  BY ContextAssumption, CanAssumption DEF IInv, Typed, CacheInv, CanTyped
<1> HIDE DEF t, found
<1>3. /\ t \in 0 .. Wrap - 1 /\ Since(t, t) = 0
      /\ \A date \in 0 .. Wrap - 1 : (t - date + Wrap) % Wrap = Since(t, date)
  BY <1>1, <1>2, SinceStep
<1>4. /\ k \in 0 .. MaxLag
      /\ found.inbox \in Seq(Waiting) /\ found.cache \in Nat
      /\ ~busFailed => \A i \in 1 .. Len(found.inbox) : found.inbox[i].age <= (k + 1) * PeriodMs
      /\ ~busFailed /\ cache.ever /\ found.cache + MaxLag * PeriodMs < Wrap =>
           AgeTold(Since(t, cache.ms), k, found.cache)
  BY <1>1, <1>2, FoundFacts DEF found
<1> HIDE DEF k
<1> DEFINE n == Len(found.inbox)
<1>5. PICK read \in 0 .. n :
        /\ Drain(found, read, t)
        /\ busFailed' \in BOOLEAN /\ (~busFailed' => ~busFailed /\ read = n)
  <2>1. n \in Nat
    BY <1>4
  <2>2. \E read \in IF t >= nextRequest /\ outcome = "FAILED" THEN {0} ELSE 0 .. n :
          /\ Drain(found, read, t)
          /\ busFailed' = (busFailed \/ (t >= nextRequest /\ outcome = "FAILED") \/ read < n)
    BY <1>1 DEF Poll
  <2> HIDE DEF n
  <2>3. PICK read \in 0 .. n :
          /\ Drain(found, read, t)
          /\ busFailed' = (busFailed \/ (t >= nextRequest /\ outcome = "FAILED") \/ read < n)
    BY <2>1, <2>2
  <2>4. busFailed' \in BOOLEAN /\ (~busFailed' => ~busFailed /\ ~ (read < n))
    BY <2>3, Zenon
  <2>5. ~ (read < n) => read = n
    BY <2>1
  <2> QED BY <2>3, <2>4, <2>5
<1> DEFINE taken == SubSeq(found.inbox, 1, read)
           left  == SubSeq(found.inbox, read + 1, n)
           last  == Max(Decoded(taken))
<1>6. /\ cache' = Drained(taken, cache, t) /\ inbox' = left
      /\ cacheAge' = IF Decoded(taken) = {} THEN found.cache ELSE taken[last].age
  BY <1>5 DEF Drain
<1>7. /\ taken \in Seq(Waiting) /\ Len(taken) = read
      /\ \A i \in 1 .. read : taken[i] = found.inbox[i] /\ i \in 1 .. n
      /\ left \in Seq(Waiting) /\ (read = n => left = <<>>)
  <2>1. n \in Nat
    BY <1>4
  <2> QED BY <1>4, <2>1
<1> HIDE DEF n, taken, left
<1>8. ASSUME Decoded(taken) # {}
      PROVE  /\ cache'.ever = TRUE /\ cache'.ms = t /\ cacheAge' \in Nat
             /\ ~busFailed => AgeTold(0, k, cacheAge')
  <2>1. last \in 1 .. read /\ cacheAge' = taken[last].age
    BY <1>6, <1>7, <1>8, LastDecoded
  <2> HIDE DEF last
  <2>2. cacheAge' \in Nat
    <3>1. taken[last] \in Waiting
      BY <1>7, <2>1
    <3> QED BY <2>1, <3>1 DEF Waiting
  <2>3. ~busFailed => cacheAge' <= (k + 1) * PeriodMs
    BY <1>4, <1>7, <2>1 DEF n
  <2>4. ~busFailed => AgeTold(0, k, cacheAge')
    BY <1>4, <2>2, <2>3, AgeWhenDrained
  <2>5. cache'.ever = TRUE /\ cache'.ms = t
    BY <1>6, <1>8 DEF Drained
  <2> QED BY <2>2, <2>4, <2>5
<1>9. ASSUME Decoded(taken) = {}
      PROVE  cache' = cache /\ cacheAge' = found.cache
  BY <1>6, <1>9 DEF Drained
<1>10. cache'.ever \in BOOLEAN /\ cache'.ms \in 0 .. Wrap - 1 /\ cacheAge' \in Nat
  BY <1>2, <1>3, <1>4, <1>8, <1>9
<1>11. CanTyped'
  <2>1. lag' \in 0 .. MaxLag /\ inbox' \in Seq(Waiting) /\ busFailed' \in BOOLEAN
    BY <1>1, <1>4, <1>5, <1>6, <1>7
  <2> QED BY <1>10, <2>1 DEF CanTyped, Waiting
<1>12. SampleTimely'
  <2>1. SUFFICES ASSUME filter'.valid
                 PROVE  cache'.ever /\ (BspTimeout' = 0 \/ Since(t, cache'.ms) <= BspTimeout')
    BY DEF SampleTimely, t
  <2>2. BspTimeout' = BspTimeout
    BY <1>1 DEF BspTimeout
  <2>3. Answered(cache', t) /\ (t - cache'.ms + Wrap) % Wrap = Since(t, cache'.ms)
    BY <1>1, <1>3, <1>10, <2>1
  <2> QED BY <2>2, <2>3 DEF Answered
<1>13. ASSUME ~busFailed' PROVE InboxRecent' /\ CacheDated'
  <2>1. ~busFailed /\ inbox' = <<>>
    BY <1>5, <1>6, <1>7, <1>13
  <2>2. InboxRecent'
    BY <2>1 DEF InboxRecent
  <2>3. CASE Decoded(taken) # {}
    <3>1. cache'.ms = t /\ AgeTold(0, k, cacheAge')
      BY <1>8, <2>1, <2>3
    <3>2. AgeTold(Since(t, cache'.ms), lag', cacheAge')
      BY <1>1, <1>3, <3>1
    <3> QED BY <2>2, <3>2, Zenon DEF CacheDated, t
  <2>4. CASE Decoded(taken) = {}
    <3>1. cache' = cache /\ cacheAge' = found.cache
      BY <1>9, <2>4
    <3>2. cache'.ever /\ cacheAge' + MaxLag * PeriodMs < Wrap => AgeTold(Since(t, cache'.ms), lag', cacheAge')
      BY <1>1, <1>4, <2>1, <3>1
    <3> QED BY <2>2, <3>2, Zenon DEF CacheDated, t
  <2> QED BY <2>3, <2>4
<1> QED BY <1>11, <1>12, <1>13 DEF CacheInv

\* The other steps leave the cache alone; a missed deadline makes everything a
\* period older.
LEMMA OthersKeepDates ==
  ASSUME CacheInv, now \in 0 .. Wrap - 1,
                   \/ FallBehind
                   \/ \E value \in {DecodeResponse(f) : f \in Frames} : EcuSends(value)
                   \/ ClearContext \/ UNCHANGED allVars
  PROVE  CacheInv'
<1>1. /\ inbox \in Seq(Waiting) /\ lag \in 0 .. MaxLag /\ cacheAge \in Nat
      /\ busFailed \in BOOLEAN /\ PeriodMs \in Nat /\ MaxLag \in Nat
      /\ CanTyped /\ SampleTimely /\ (~busFailed => InboxRecent /\ CacheDated)
  BY ContextAssumption, CanAssumption DEF CacheInv, CanTyped, Waiting
<1>2. CASE FallBehind
  <2>1. /\ lag < MaxLag /\ lag' = lag + 1 /\ inbox' = PassTime.inbox /\ cacheAge' = Older(cacheAge)
        /\ cfg' = cfg /\ now' = now /\ filter' = filter /\ cache' = cache /\ busFailed' = busFailed
    BY <1>2 DEF FallBehind, vars, PassTime
  <2>2. lag + 1 \in 0 .. MaxLag /\ lag \in 0 .. MaxLag - 1
        /\ (lag + 1) * PeriodMs = lag * PeriodMs + PeriodMs /\ lag * PeriodMs \in Nat
    BY <1>1, <2>1, LagMs
  <2>3. Older(cacheAge) \in Nat
    BY <1>1, OlderFacts
  <2>4. inbox' \in Seq(Waiting)
    BY <1>1, <2>1, PassedFrames
  <2>5. CanTyped'
    BY <1>1, <2>1, <2>2, <2>3, <2>4 DEF CanTyped, Waiting
  <2>6. SampleTimely'
    BY <1>1, <2>1 DEF SampleTimely, BspTimeout
  <2>7. ASSUME ~busFailed PROVE InboxRecent'
    <3>1. ASSUME NEW i \in 1 .. Len(inbox)
          PROVE  PassTime.inbox[i].age <= (lag + 1) * PeriodMs
      <4>1. PassTime.inbox[i].age <= inbox[i].age + PeriodMs /\ inbox[i].age \in Nat
        BY <1>1, PassedFrames
      <4>2. inbox[i].age <= lag * PeriodMs
        BY <1>1, <2>7 DEF InboxRecent
      <4>3. PassTime.inbox[i].age \in Nat
        <5>1. PassTime.inbox[i] \in Waiting
          BY <1>1, PassedFrames
        <5> QED BY <5>1 DEF Waiting
      <4> QED BY <1>1, <2>2, <4>1, <4>2, <4>3
    <3>2. Len(PassTime.inbox) = Len(inbox)
      BY <1>1, PassedFrames
    <3> QED BY <2>1, <3>1, <3>2 DEF InboxRecent
  <2>8. ASSUME ~busFailed PROVE CacheDated'
    <3>1. SUFFICES ASSUME cache.ever, Older(cacheAge) + MaxLag * PeriodMs < Wrap
                   PROVE  AgeTold(Since(now, cache.ms), lag + 1, Older(cacheAge))
      BY <2>1 DEF CacheDated
    <3>2. Older(cacheAge) = cacheAge + PeriodMs /\ cacheAge + MaxLag * PeriodMs < Wrap
      BY <1>1, <3>1, OlderFacts
    <3>3. AgeTold(Since(now, cache.ms), lag, cacheAge)
      BY <1>1, <2>8, <3>1, <3>2 DEF CacheDated
    <3>4. Since(now, cache.ms) \in 0 .. Wrap - 1
      BY <1>1, SinceStep DEF CanTyped
    <3> QED BY <1>1, <2>2, <3>2, <3>3, <3>4, AgeFallingBehind
  <2> QED BY <2>1, <2>5, <2>6, <2>7, <2>8 DEF CacheInv
<1>3. ASSUME NEW f \in Frames, EcuSends(DecodeResponse(f)) PROVE CacheInv'
  <2>1. /\ inbox' = Append(inbox, [value |-> DecodeResponse(f), age |-> 0])
        /\ UNCHANGED <<cfg, now, filter, cache, lag, cacheAge, busFailed>>
    BY <1>3 DEF EcuSends, vars
  <2>2. [value |-> DecodeResponse(f), age |-> 0] \in Waiting
    BY DEF DecodeResponse, Frames, Waiting
  <2>3. CanTyped'
    BY <1>1, <2>1, <2>2 DEF CanTyped, Waiting
  <2>4. 0 <= lag * PeriodMs
    BY <1>1, LagMs
  <2>5. ASSUME ~busFailed PROVE InboxRecent'
    <3>1. ASSUME NEW i \in 1 .. Len(inbox') PROVE inbox'[i].age <= lag * PeriodMs
      <4>1. CASE i \in 1 .. Len(inbox)
        BY <1>1, <2>1, <2>5, <4>1 DEF InboxRecent
      <4>2. CASE i = Len(inbox) + 1
        BY <1>1, <2>1, <2>4, <4>2
      <4> QED BY <1>1, <2>1, <4>1, <4>2
    <3> QED BY <2>1, <3>1 DEF InboxRecent
  <2>6. SampleTimely' /\ (CacheDated' <=> CacheDated)
    BY <1>1, <2>1 DEF SampleTimely, CacheDated, BspTimeout
  <2> QED BY <1>1, <2>1, <2>3, <2>5, <2>6 DEF CacheInv
<1>4. CASE UNCHANGED <<cfg, now, filter, canVars>>
  BY <1>1, <1>4 DEF canVars, CacheInv, CanTyped, SampleTimely, InboxRecent, CacheDated, BspTimeout
<1> QED BY <1>2, <1>3, <1>4 DEF ClearContext, ClearStale, allVars, vars

\* However often the daemon is late, frames come, or do not, and now_ms wraps:
\* the modifier works with no speed older than the timeout, a period and what
\* the daemon was late by, when the driver's 16-bit copy of the timeout is not
\* 0 and the bus works.
THEOREM SpeedAgeIsBounded ==
  ASSUME \A c \in ContextCfgs : c.timeout % TimeoutRange # 0
  PROVE  CanSpec => []SpeedAgeBounded
<1> DEFINE Inv == IInv /\ CacheInv
<1>1. CanInit => Inv
  <2> SUFFICES ASSUME CanInit PROVE Inv
    OBVIOUS
  <2>1. IInv
    BY InitIInv DEF CanInit
  <2>2. /\ cache.ever = FALSE /\ cache.ms = 0 /\ lag = 0 /\ cacheAge = 0 /\ busFailed = FALSE
        /\ inbox = <<>> /\ filter.valid = FALSE
    BY DEF CanInit, Init, FilterReset
  <2>3. 0 \in 0 .. Wrap - 1 /\ 0 \in 0 .. MaxLag /\ 0 \in Nat
    BY ContextAssumption, CanAssumption
  <2>4. CanTyped
    <3>1. inbox \in Seq([value : Values \cup {NoValue}, age : Nat])
      BY <2>2
    <3> QED BY <2>2, <2>3, <3>1, Zenon DEF CanTyped
  <2>5. SampleTimely /\ InboxRecent /\ CacheDated
    BY <2>2 DEF SampleTimely, InboxRecent, CacheDated
  <2> QED BY <2>1, <2>4, <2>5 DEF CacheInv
<1>2. Inv /\ [CanNext]_allVars => Inv'
  <2> SUFFICES ASSUME IInv, CacheInv, [CanNext]_allVars PROVE IInv' /\ CacheInv'
    OBVIOUS
  <2>1. IInv'
    BY CanSteps, StepIInv
  <2>2. CacheInv'
    BY PeriodKeepsDates, OthersKeepDates DEF CanNext, IInv, Typed
  <2> QED BY <2>1, <2>2
<1>3. Inv => SpeedAgeBounded
  <2> SUFFICES ASSUME IInv, CacheInv, filter.valid, ~busFailed, cacheAge + MaxLag * PeriodMs < Wrap
               PROVE  cacheAge <= cfg.timeout + (MaxLag + 1) * PeriodMs
    BY DEF SpeedAgeBounded
  <2> DEFINE since == Since(now, cache.ms)
  <2>1. cache.ever /\ (BspTimeout = 0 \/ since <= BspTimeout) /\ AgeTold(since, lag, cacheAge)
    BY DEF CacheInv, SampleTimely, CacheDated
  <2>2. BspTimeout # 0 /\ BspTimeout <= cfg.timeout /\ BspTimeout \in Nat /\ cfg.timeout \in Nat
    <3>1. cfg \in ContextCfgs /\ cfg.timeout \in 1 .. Wrap - 1 /\ TimeoutRange \in Nat \ {0}
      BY ContextFields, CanAssumption DEF IInv, Typed
    <3>2. \A n \in Nat : n % TimeoutRange \in Nat /\ n % TimeoutRange <= n
      BY <3>1
    <3>3. cfg.timeout \in Nat /\ BspTimeout = cfg.timeout % TimeoutRange
      BY <3>1 DEF BspTimeout
    <3> QED BY <3>1, <3>2, <3>3
  <2>3. /\ lag * PeriodMs \in Nat /\ MaxLag * PeriodMs \in Nat /\ lag * PeriodMs <= MaxLag * PeriodMs
        /\ (lag + 1) * PeriodMs = lag * PeriodMs + PeriodMs
        /\ (MaxLag + 1) * PeriodMs = MaxLag * PeriodMs + PeriodMs
        /\ PeriodMs \in Nat /\ cacheAge \in Nat
    <3>1. lag \in 0 .. MaxLag /\ cacheAge \in Nat /\ MaxLag \in 0 .. MaxLag
      BY CanAssumption DEF CacheInv, CanTyped
    <3> QED BY <3>1, LagMs, ContextAssumption
  <2>4. since \in Nat
    <3>1. now \in 0 .. Wrap - 1 /\ cache.ms \in 0 .. Wrap - 1
      BY DEF IInv, Typed, CacheInv, CanTyped
    <3>2. since \in 0 .. Wrap - 1
      BY <3>1, SinceStep
    <3> QED BY <3>2, ContextAssumption
  <2> HIDE DEF since
  <2>5. cacheAge <= since + (lag + 1) * PeriodMs /\ since <= BspTimeout
    BY <2>1, <2>2 DEF AgeTold
  <2> QED BY <2>2, <2>3, <2>4, <2>5
<1> HIDE DEF Inv
<1> QED BY <1>1, <1>2, <1>3, PTL DEF CanSpec
=============================================================================
