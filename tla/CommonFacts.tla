------------------------------ MODULE CommonFacts ------------------------------
(***************************************************************************)
(* What the proofs of several modules rest on: least elements and maxima of *)
(* sets of naturals, C's truncating division, curves between their points,  *)
(* definition by recursion, and a tick of the machine the fault detectors   *)
(* share.  The well-ordering of Nat stands in for induction: what holds of  *)
(* every number below a least counterexample cannot fail at it.             *)
(***************************************************************************)
EXTENDS Curve, FaultFsm, FiniteSetsExt, WellFoundedInduction, TLAPS

-----------------------------------------------------------------------------
(* Least elements and maxima. *)

\* A non-empty set of naturals has a least element.
LEMMA LeastNatural ==
  ASSUME NEW T \in SUBSET Nat, T # {}
  PROVE  \E n \in T : \A m \in T : n <= m
<1> DEFINE R == OpToRel(<, Nat)
<1>1. IsWellFoundedOn(R, Nat)
  BY NatLessThanWellFounded
<1>2. \A x, y \in Nat : <<x, y>> \in R <=> x < y
  BY DEF OpToRel
<1> HIDE DEF R
<1>3. PICK n \in T : \A m \in T : ~ (<<m, n>> \in R)
  BY <1>1, WFMin
<1>4. ASSUME NEW m \in T PROVE n <= m
  <2>1. m \in Nat /\ n \in Nat /\ ~ (<<m, n>> \in R)
    BY <1>3
  <2>2. ~ (m < n)
    BY <1>2, <2>1
  <2> QED BY <2>1, <2>2
<1> QED BY <1>4

\* A bounded set of naturals has a maximum, which is what Max chooses.
LEMMA MaxOfBounded ==
  ASSUME NEW N \in Nat, NEW S \in SUBSET (0 .. N), S # {}
  PROVE  Max(S) \in S /\ \A s \in S : Max(S) >= s
<1> DEFINE T == {n \in Nat : \A s \in S : n >= s}
<1>1. N \in T /\ T \in SUBSET Nat
  OBVIOUS
<1>2. PICK n \in T : \A m \in T : n <= m
  <2> HIDE DEF T
  <2> QED BY <1>1, LeastNatural
<1>3. n \in S
  <2>1. SUFFICES ASSUME n \notin S PROVE FALSE
    OBVIOUS
  <2>2. \A s \in S : n >= s /\ n # s /\ s \in Nat
    BY <1>2, <2>1
  <2>3. n >= 1
    <3>1. PICK s \in S : TRUE
      OBVIOUS
    <3>2. n >= s /\ n # s /\ s \in Nat /\ n \in Nat
      BY <2>2, <1>2
    <3> QED BY <3>2
  <2>4. n - 1 \in T
    BY <2>2, <2>3
  <2> QED BY <1>2, <2>4
<1>4. n \in S /\ \A s \in S : n >= s
  BY <1>2, <1>3
<1> QED BY <1>4 DEF Max

\* A function on 0 .. N that never falls from one number to the next does not
\* fall between any two.
LEMMA Monotone ==
  ASSUME NEW N \in Nat, NEW f \in [0 .. N -> Nat],
         \A s \in 1 .. N : f[s - 1] <= f[s]
  PROVE  \A i, j \in 0 .. N : i <= j => f[i] <= f[j]
<1> SUFFICES ASSUME NEW i \in 0 .. N PROVE \A j \in 0 .. N : i <= j => f[i] <= f[j]
  OBVIOUS
<1> DEFINE T == {j \in 0 .. N : i <= j /\ ~ (f[i] <= f[j])}
<1>1. SUFFICES ASSUME T # {} PROVE FALSE
  OBVIOUS
<1>2. PICK j \in T : \A m \in T : j <= m
  <2>1. T \in SUBSET Nat
    OBVIOUS
  <2> HIDE DEF T
  <2> QED BY <1>1, <2>1, LeastNatural
<1>3. j \in 1 .. N /\ i <= j - 1 /\ j - 1 \in 0 .. N
  BY <1>2
<1>4. f[i] <= f[j - 1]
  <2>1. j - 1 \notin T
    BY <1>2, <1>3
  <2> QED BY <1>3, <2>1
<1>5. f[j - 1] <= f[j] /\ f[i] \in Nat /\ f[j - 1] \in Nat /\ f[j] \in Nat
  BY <1>3
<1> QED BY <1>2, <1>4, <1>5

-----------------------------------------------------------------------------
(* Division. *)

\* C99 division of naturals: what the interpolation adds never exceeds the
\* difference between the two points.
LEMMA ProductOrder ==
  ASSUME NEW a \in Nat, NEW b \in Nat, NEW d \in Nat, a <= b
  PROVE  a * d \in Nat /\ b * d \in Nat /\ a * d <= b * d
<1>1. (b - a) * d >= 0
  OBVIOUS
<1>2. (b - a) * d = b * d - a * d
  OBVIOUS
<1> QED BY <1>1, <1>2

\* \div rounds down.
LEMMA Quotient ==
  ASSUME NEW n \in Nat, NEW b \in Nat, b > 0
  PROVE  /\ n \div b \in Int
         /\ b * (n \div b) <= n
         /\ n < b * (n \div b) + b
OBVIOUS

\* A quotient of at most b * d by b lies in 0 .. d.
LEMMA QuotientBelow ==
  ASSUME NEW n \in Nat, NEW b \in Nat, b > 0, NEW d \in Nat, n <= b * d
  PROVE  n \div b \in 0 .. d
<1> DEFINE q == n \div b
<1>1. q \in Int /\ b * q <= n /\ n < b * q + b
  BY Quotient
<1> HIDE DEF q
<1>2. q >= 0
  <2>1. SUFFICES ASSUME q + 1 <= 0 PROVE FALSE
    BY <1>1
  <2>2. b * (-(q + 1)) >= 0
    BY <1>1, <2>1
  <2>3. b * (-(q + 1)) = - (b * q + b)
    BY <1>1
  <2>4. b * q \in Int
    BY <1>1
  <2> QED BY <1>1, <2>2, <2>3, <2>4
<1>3. q <= d
  <2>1. SUFFICES ASSUME q >= d + 1 PROVE FALSE
    BY <1>1
  <2>2. b * (q - (d + 1)) >= 0
    BY <1>1, <2>1
  <2>3. b * (q - (d + 1)) = b * q - b * d - b
    BY <1>1
  <2>4. b * q \in Int /\ b * d \in Int
    BY <1>1
  <2> QED BY <1>1, <2>2, <2>3, <2>4
<1> QED BY <1>1, <1>2, <1>3 DEF q

\* Interpolating between two points stays between them, rising or falling.
LEMMA InterpolationBounds ==
  ASSUME NEW a \in Nat, NEW b \in Nat, b > 0, a <= b, NEW d \in Int
  PROVE  /\ d >= 0 => TruncDiv(a * d, b) \in 0 .. d
         /\ d < 0  => TruncDiv(a * d, b) \in d .. 0
<1>1. CASE d >= 0
  <2>1. a * d \in Nat /\ a * d <= b * d
    BY <1>1, ProductOrder
  <2>2. (a * d) \div b \in 0 .. d
    BY <1>1, <2>1, QuotientBelow
  <2> QED BY <1>1, <2>1, <2>2 DEF TruncDiv
<1>2. CASE d < 0
  <2>1. a * (-d) \in Nat /\ a * (-d) <= b * (-d)
    BY <1>2, ProductOrder
  <2>2. (a * (-d)) \div b \in 0 .. -d
    BY <1>2, <2>1, QuotientBelow
  <2>3. a * d = -(a * (-d)) /\ a * d \in Int
    OBVIOUS
  <2>4. CASE a * d >= 0
    <3>1. a * d = 0 /\ a * (-d) = 0
      BY <2>1, <2>3, <2>4
    <3> QED BY <1>2, <2>2, <3>1 DEF TruncDiv
  <2>5. CASE ~ (a * d >= 0)
    <3>1. TruncDiv(a * d, b) = -((-(a * d)) \div b)
      BY <2>5 DEF TruncDiv
    <3>2. -(a * d) = a * (-d)
      BY <2>3
    <3> QED BY <1>2, <2>2, <3>1, <3>2
  <2> QED BY <2>4, <2>5
<1> QED BY <1>1, <1>2

-----------------------------------------------------------------------------
(* Curves. *)

\* A curve of at least two points, with integer coordinates on that axis.
OnIntegers(c, field) ==
  /\ Len(c) \in Nat /\ Len(c) >= 2
  /\ \A i \in 1 .. Len(c) : c[i].x \in Int /\ c[i][field] \in Int

\* Between its ends a rising curve has a segment for every x.
LEMMA SegmentExists ==
  ASSUME NEW c, NEW field, OnIntegers(c, field), CurveOrdered(c), NEW x \in Int,
         ~ x <= c[1].x, ~ x >= c[Len(c)].x
  PROVE  /\ Segment(c, x) \in 1 .. Len(c) - 1
         /\ c[Segment(c, x)].x < x /\ x <= c[Segment(c, x) + 1].x
<1> DEFINE T == {i \in 1 .. Len(c) - 1 : x <= c[i + 1].x}
<1>1. \A i \in 1 .. Len(c) : c[i].x \in Int
  BY DEF OnIntegers
<1>2. Len(c) \in Nat /\ Len(c) - 1 \in T
  BY <1>1 DEF OnIntegers
<1>3. PICK i \in T : \A j \in T : i <= j
  <2>1. T \in SUBSET Nat /\ T # {}
    <3>1. 1 .. Len(c) - 1 \subseteq Nat
      BY <1>2
    <3> QED BY <1>2, <3>1
  <2> HIDE DEF T
  <2> QED BY <2>1, LeastNatural
<1>4. c[i].x < x
  <2>1. CASE i = 1
    BY <1>1, <1>2, <2>1
  <2>2. CASE i # 1
    <3>1. i - 1 \in 1 .. Len(c) - 1 /\ i - 1 \notin T
      BY <1>2, <1>3, <2>2
    <3>2. ~ x <= c[i].x
      BY <3>1
    <3> QED BY <1>1, <1>2, <3>2
  <2> QED BY <2>1, <2>2
<1>5. \E k \in 1 .. Len(c) - 1 : c[k].x < x /\ x <= c[k + 1].x
  BY <1>3, <1>4
<1> QED BY <1>5 DEF Segment

\* What a curve gives at any x lies between what two of its points have.
LEMMA CurveBetween ==
  ASSUME NEW c, NEW field, OnIntegers(c, field), CurveOrdered(c), NEW x \in Int
  PROVE  /\ CurveEval(c, field, x) \in Int
         /\ \E p, q \in 1 .. Len(c) :
              /\ c[p][field] <= CurveEval(c, field, x)
              /\ CurveEval(c, field, x) <= c[q][field]
<1>1. 1 \in 1 .. Len(c) /\ Len(c) \in 1 .. Len(c)
  BY DEF OnIntegers
<1>2. CASE x <= c[1].x
  <2>1. CurveEval(c, field, x) = c[1][field]
    BY <1>2 DEF CurveEval
  <2> QED BY <1>1, <2>1 DEF OnIntegers
<1>3. CASE ~ x <= c[1].x /\ x >= c[Len(c)].x
  <2>1. CurveEval(c, field, x) = c[Len(c)][field]
    BY <1>3 DEF CurveEval
  <2> QED BY <1>1, <2>1 DEF OnIntegers
<1>4. CASE ~ x <= c[1].x /\ ~ x >= c[Len(c)].x
  <2> DEFINE i == Segment(c, x)
             dy == c[i + 1][field] - c[i][field]
             a == x - c[i].x
             b == c[i + 1].x - c[i].x
             e == CurveEval(c, field, x)
  <2>1. /\ i \in 1 .. Len(c) - 1
        /\ c[i].x < x /\ x <= c[i + 1].x
    BY <1>4, SegmentExists
  <2>2. e = c[i][field] + TruncDiv(a * dy, b)
    BY <1>4 DEF CurveEval, Interpolate
  <2> HIDE DEF i, e
  <2>3. i \in 1 .. Len(c) /\ i + 1 \in 1 .. Len(c)
    BY <2>1
  <2>4. /\ c[i].x \in Int /\ c[i + 1].x \in Int
        /\ c[i][field] \in Int /\ c[i + 1][field] \in Int
    BY <2>3 DEF OnIntegers
  <2>5. a \in Nat /\ b \in Nat /\ b > 0 /\ a <= b /\ dy \in Int
    <3>1. c[i].x < x /\ x <= c[i + 1].x
      BY <2>1
    <3>2. dy \in Int
      BY <2>4
    <3>3. a \in Nat /\ b \in Nat /\ b > 0 /\ a <= b
      <4> HIDE DEF dy
      <4>1. \A l, r \in Int : l < x /\ x <= r =>
               x - l \in Nat /\ r - l \in Nat /\ r - l > 0 /\ x - l <= r - l
        OBVIOUS
      <4> QED BY <2>4, <3>1, <4>1
    <3> QED BY <3>2, <3>3
  <2> HIDE DEF a, b
  <2>6. CASE dy >= 0
    <3>1. TruncDiv(a * dy, b) \in 0 .. dy
      <4> HIDE DEF dy
      <4> QED BY <2>5, <2>6, InterpolationBounds
    <3>2. e \in Int /\ c[i][field] <= e /\ e <= c[i + 1][field]
      BY <2>2, <2>4, <3>1
    <3> QED BY <2>3, <3>2 DEF e
  <2>7. CASE dy < 0
    <3>1. TruncDiv(a * dy, b) \in dy .. 0
      <4> HIDE DEF dy
      <4> QED BY <2>5, <2>7, InterpolationBounds
    <3>2. e \in Int /\ c[i + 1][field] <= e /\ e <= c[i][field]
      BY <2>2, <2>4, <3>1
    <3> QED BY <2>3, <3>2 DEF e
  <2> QED BY <2>4, <2>6, <2>7
<1> QED BY <1>2, <1>3, <1>4

-----------------------------------------------------------------------------
(* Recursion. *)

\* f is defined by recursion on D.
Solves(f, D, stop, base, next, comb) ==
  \A x \in D : f[x] = IF x \in stop THEN base[x] ELSE comb[<<x, f[next[x]]>>]

\* A function may be defined by recursion along a step that lowers a rank:
\* where it stops its value is given, elsewhere it is computed from its value
\* at the next argument.
LEMMA LinearRecursion ==
  ASSUME NEW D, NEW R, NEW stop \in SUBSET D, NEW rank \in [D -> Nat],
         NEW base \in [stop -> R], NEW next \in [D \ stop -> D],
         NEW comb \in [(D \ stop) \X R -> R],
         \A x \in D \ stop : rank[next[x]] < rank[x]
  PROVE  \E f \in [D -> R] : Solves(f, D, stop, base, next, comb)
<1> DEFINE Below(n) == {x \in D : rank[x] < n}
           Good(n, f) ==
             /\ f \in [Below(n) -> R]
             /\ \A x \in Below(n) : f[x] = IF x \in stop THEN base[x] ELSE comb[<<x, f[next[x]]>>]
<1>0. \A n \in Nat : \A x \in Below(n) : x \in D /\ rank[x] < n /\ (x \notin stop => next[x] \in Below(n))
  OBVIOUS
<1>1. ASSUME NEW n \in Nat, NEW m \in Nat, NEW f, NEW g, Good(n, f), Good(m, g)
      PROVE  \A x \in D : x \in Below(n) /\ x \in Below(m) => f[x] = g[x]
  <2> DEFINE T == {rank[x] : x \in {x \in D : x \in Below(n) /\ x \in Below(m) /\ f[x] # g[x]}}
  <2>1. SUFFICES ASSUME T # {} PROVE FALSE
    OBVIOUS
  <2>2. T \in SUBSET Nat
    OBVIOUS
  <2>3. PICK k \in T : \A j \in T : k <= j
    <3> HIDE DEF T
    <3> QED BY <2>1, <2>2, LeastNatural
  <2>4. PICK x \in D : x \in Below(n) /\ x \in Below(m) /\ f[x] # g[x] /\ rank[x] = k
    BY <2>3
  <2>5. x \notin stop
    BY <1>1, <2>4
  <2>6. next[x] \in D /\ next[x] \in Below(n) /\ next[x] \in Below(m) /\ rank[next[x]] < rank[x]
    BY <1>0, <2>4, <2>5
  <2>7. rank[next[x]] \notin T
    <3>1. rank[next[x]] \in Nat /\ rank[x] \in Nat
      BY <2>6
    <3> HIDE DEF T
    <3> QED BY <2>3, <2>4, <2>6, <3>1
  <2>8. f[next[x]] = g[next[x]]
    BY <2>6, <2>7
  <2>9. f[x] = comb[<<x, f[next[x]]>>] /\ g[x] = comb[<<x, g[next[x]]>>]
    BY <1>1, <2>4, <2>5
  <2> QED BY <2>4, <2>8, <2>9
<1>2. \A n \in Nat : \E f : Good(n, f)
  <2> DEFINE T == {n \in Nat : ~ \E f : Good(n, f)}
  <2>1. SUFFICES ASSUME T # {} PROVE FALSE
    OBVIOUS
  <2>2. PICK n \in T : \A j \in T : n <= j
    <3>1. T \in SUBSET Nat
      OBVIOUS
    <3> HIDE DEF T
    <3> QED BY <2>1, <3>1, LeastNatural
  <2>3. n \in Nat /\ ~ \E f : Good(n, f)
    BY <2>2
  <2>4. CASE n = 0
    <3>1. Below(n) = {}
      BY <2>4
    <3> DEFINE e == [x \in {} |-> x]
    <3>2. Good(n, e)
      BY <3>1
    <3> QED BY <2>3, <3>2
  <2>5. CASE n # 0
    <3> DEFINE m == n - 1
    <3>1. m \in Nat /\ n = m + 1 /\ m \notin T
      <4>1. m \in Nat /\ n = m + 1 /\ ~ (n <= m)
        BY <2>3, <2>5
      <4> QED BY <2>2, <4>1
    <3>2. PICK g : Good(m, g)
      BY <3>1
    <3> DEFINE f == [x \in Below(n) |-> IF x \in stop THEN base[x] ELSE comb[<<x, g[next[x]]>>]]
    <3>3. ASSUME NEW x \in Below(n), x \notin stop
          PROVE  next[x] \in Below(m)
      <4>1. x \in D /\ rank[x] < n /\ next[x] \in D /\ rank[next[x]] < rank[x]
        BY <3>3
      <4>2. rank[x] \in Nat /\ rank[next[x]] \in Nat
        BY <4>1
      <4> QED BY <3>1, <4>1, <4>2
    <3>4. f \in [Below(n) -> R]
      <4>1. ASSUME NEW x \in Below(n)
            PROVE  (IF x \in stop THEN base[x] ELSE comb[<<x, g[next[x]]>>]) \in R
        BY <3>2, <3>3, <4>1
      <4> QED BY <4>1
    <3>5. ASSUME NEW x \in Below(m) PROVE x \in Below(n) /\ f[x] = g[x]
      <4>1. x \in Below(n)
        BY <3>1, <3>5
      <4>2. g[x] = IF x \in stop THEN base[x] ELSE comb[<<x, g[next[x]]>>]
        BY <3>2
      <4> QED BY <4>1, <4>2
    <3>6. ASSUME NEW x \in Below(n)
          PROVE  f[x] = IF x \in stop THEN base[x] ELSE comb[<<x, f[next[x]]>>]
      BY <3>3, <3>5
    <3>7. Good(n, f)
      BY <3>4, <3>6
    <3> QED BY <2>3, <3>7
  <2> QED BY <2>4, <2>5
<1> DEFINE F(n) == CHOOSE f : Good(n, f)
           h == [x \in D |-> F(rank[x] + 1)[x]]
<1>3. \A n \in Nat : Good(n, F(n))
  BY <1>2
<1>4. \A x \in D : rank[x] + 1 \in Nat /\ x \in Below(rank[x] + 1)
  OBVIOUS
<1>5. ASSUME NEW n \in Nat, NEW x \in Below(n) PROVE h[x] = F(n)[x]
  <2>1. x \in D /\ Good(n, F(n)) /\ Good(rank[x] + 1, F(rank[x] + 1))
    BY <1>3, <1>4, <1>5
  <2> HIDE DEF Good, F
  <2> QED BY <1>1, <1>4, <1>5, <2>1
<1>6. ASSUME NEW x \in D
      PROVE  h[x] \in R /\ h[x] = IF x \in stop THEN base[x] ELSE comb[<<x, h[next[x]]>>]
  <2> DEFINE n == rank[x] + 1
  <2>1. n \in Nat /\ x \in Below(n) /\ (x \notin stop => next[x] \in Below(n))
    BY <1>0, <1>4
  <2>2. F(n) \in [Below(n) -> R] /\ F(n)[x] = IF x \in stop THEN base[x] ELSE comb[<<x, F(n)[next[x]]>>]
    BY <1>3, <2>1
  <2>3. h[x] = F(n)[x] /\ (x \notin stop => h[next[x]] = F(n)[next[x]])
    BY <1>5, <2>1
  <2> HIDE DEF h, F, n
  <2> QED BY <2>1, <2>2, <2>3
<1>7. h \in [D -> R]
  BY <1>6
<1> QED BY <1>6, <1>7 DEF Solves

-----------------------------------------------------------------------------
(* fsm_tick, for every width of its counters: what the proofs about the    *)
(* detectors that share the machine rest on.                                *)

\* What the machine reads of a detector's configuration, which may have more
\* fields than these.
FsmFields(c) == c.persist \in Counters /\ c.recovery \in Counters /\ c.severity \in Severities

\* A configuration of the machine alone has them.
LEMMA ConfigFields ==
  ASSUME NEW c \in FsmConfigs
  PROVE  FsmFields(c)
BY DEF FsmConfigs, FsmFields, Counters

\* The two ways a counter is increased keep it in its range, and below the
\* limit both add one.
LEMMA CounterSteps ==
  ASSUME NEW n \in Counters
  PROVE  /\ Wrapping(n) \in Counters
         /\ Saturating(n) \in Counters
         /\ n < CounterMax => Wrapping(n) = n + 1 /\ Saturating(n) = n + 1
         /\ n = CounterMax => Saturating(n) = n
BY CounterMaxAssumption DEF Counters, Wrapping, Saturating

\* A configuration tells which of the two families its fault belongs to.
LEMMA TargetState ==
  ASSUME NEW c, FsmFields(c)
  PROVE  /\ ActionToState(c) \in ActiveStates
         /\ ActionToState(c) = "LATCHED" <=> c.action \in LatchActions
BY DEF FsmFields, ActionToState, ActiveStates, LatchActions, Severities

\* fsm_tick maps states of the record to states of the record.
LEMMA FsmTickType ==
  ASSUME NEW r \in Fsms, NEW active \in BOOLEAN, NEW c, FsmFields(c)
  PROVE  FsmTick(r, active, c) \in Fsms
<1> DEFINE n == Wrapping(r.persist)
           m == Wrapping(r.recovery)
<1>1. /\ r.persist \in Counters /\ r.recovery \in Counters
      /\ r.state \in FaultStates
      /\ c.persist \in Counters /\ c.recovery \in Counters
  BY DEF Fsms, FsmFields, Counters
<1>2. n \in Counters /\ m \in Counters /\ Saturating(r.recovery) \in Counters /\ 0 \in Counters
  BY <1>1, CounterSteps, CounterMaxAssumption DEF Counters
<1>3. ActionToState(c) \in FaultStates
  BY TargetState DEF FaultStates
<1>4. FsmReset \in Fsms
  BY <1>2 DEF FsmReset, Fsms, FaultStates
<1>5. CASE r.state = "NORMAL"
  <2>1. n >= c.persist \/ n < c.persist
    BY <1>1, <1>2, CounterMaxAssumption DEF Counters
  <2>2. TickNormal(r, active, c) \in Fsms
    BY <1>1, <1>2, <1>3, <2>1 DEF TickNormal, Fsms
  <2> QED BY <1>5, <2>2 DEF FsmTick
<1>6. CASE r.state \in {"DEGRADED", "CRITICAL"}
  <2>1. TickActive(r, active) \in Fsms
    BY <1>1, <1>2 DEF TickActive, Fsms, FaultStates
  <2> QED BY <1>6, <2>1 DEF FsmTick
<1>7. CASE r.state = "RECOVERING"
  <2>1. m >= c.recovery \/ m < c.recovery
    BY <1>1, <1>2, CounterMaxAssumption DEF Counters
  <2>2. TickRecovering(r, active, c) \in Fsms
    BY <1>1, <1>2, <1>3, <1>4, <2>1 DEF TickRecovering, Fsms
  <2> QED BY <1>7, <2>2 DEF FsmTick
<1>8. CASE r.state = "LATCHED"
  <2>1. TickLatched(r, active) \in Fsms
    BY <1>1, <1>2 DEF TickLatched, Fsms
  <2> QED BY <1>8, <2>1 DEF FsmTick
<1> QED BY <1>1, <1>5, <1>6, <1>7, <1>8 DEF FaultStates, ActiveStates

\* A tick of the machine, one arm at a time: what each state makes of the
\* fields of the record, as implications the later proofs expand.
Arms(r, active, c, q) ==
  /\ r.state = "NORMAL" /\ ~active =>
       q.state = "NORMAL" /\ q.persist = 0 /\ q.recovery = r.recovery
  /\ r.state = "NORMAL" /\ active /\ Wrapping(r.persist) >= c.persist =>
       q.state = ActionToState(c) /\ q.persist = Wrapping(r.persist) /\ q.recovery = 0
  /\ r.state = "NORMAL" /\ active /\ Wrapping(r.persist) < c.persist =>
       q.state = "NORMAL" /\ q.persist = Wrapping(r.persist) /\ q.recovery = r.recovery
  /\ r.state \in {"DEGRADED", "CRITICAL"} =>
       q.state = (IF active THEN r.state ELSE "RECOVERING") /\ q.recovery = 0
  /\ r.state = "RECOVERING" /\ active =>
       q.state = ActionToState(c) /\ q.persist = 0 /\ q.recovery = 0
  /\ r.state = "RECOVERING" /\ ~active /\ Wrapping(r.recovery) >= c.recovery =>
       q = FsmReset
  /\ r.state = "RECOVERING" /\ ~active /\ Wrapping(r.recovery) < c.recovery =>
       q.state = "RECOVERING" /\ q.recovery = Wrapping(r.recovery)
  /\ r.state = "LATCHED" =>
       q.state = "LATCHED" /\ q.recovery = (IF active THEN 0 ELSE Saturating(r.recovery))

\* fsm_tick is what its arms say.
LEMMA FsmTickArms ==
  ASSUME NEW r \in Fsms, NEW active \in BOOLEAN, NEW c, FsmFields(c)
  PROVE  Arms(r, active, c, FsmTick(r, active, c))
<1> USE DEF Arms
<1>1. /\ c.persist \in Nat /\ c.recovery \in Nat
      /\ Wrapping(r.persist) \in Nat /\ Wrapping(r.recovery) \in Nat
  BY CounterSteps, CounterMaxAssumption DEF FsmFields, Fsms, Counters
<1>2. /\ ~(Wrapping(r.persist) >= c.persist /\ Wrapping(r.persist) < c.persist)
      /\ ~(Wrapping(r.recovery) >= c.recovery /\ Wrapping(r.recovery) < c.recovery)
  BY <1>1
<1>3. CASE r.state = "NORMAL"
  BY <1>2, <1>3 DEF FsmTick, TickNormal, Fsms
<1>4. CASE r.state \in {"DEGRADED", "CRITICAL"}
  BY <1>4 DEF FsmTick, TickActive, Fsms
<1>5. CASE r.state = "RECOVERING"
  BY <1>2, <1>5 DEF FsmTick, TickRecovering, Fsms
<1>6. CASE r.state = "LATCHED"
  BY <1>6 DEF FsmTick, TickLatched, Fsms
<1> QED BY <1>3, <1>4, <1>5, <1>6 DEF Fsms, FaultStates, ActiveStates
=============================================================================
