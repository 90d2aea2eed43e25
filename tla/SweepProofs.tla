----------------------------- MODULE SweepProofs -----------------------------
(***************************************************************************)
(* Proofs about the sweep and the firmware it talks to, for every ring,     *)
(* line length, duty table and number of attempts.                          *)
(***************************************************************************)
EXTENDS SweepTool, CommonFacts, SequenceTheorems

-----------------------------------------------------------------------------
(* The lines of a sweep. *)

Tokens == {"loop", "off", "on", "pwmset", "rpmget", "pwmget", "ping", EOL} \cup DOMAIN Digit
Openers == {"loop", "pwmset", "rpmget"}

Steps  == 2 * Len(Duties) + 2
WordsOf(n)   == Sweep[n].words
Length(n) == Len(WordsOf(n)) + 1

\* Token q of the line of command n.
Token(n, q) == IF q = Length(n) THEN EOL ELSE WordsOf(n)[q]

\* The duty a command of the sweep is about, and its value.
DutyAt(n) == Duties[n \div 2]
Value(n)  == DigitsValue(DutyAt(n))

\* What is in the list of duties.
LEMMA DutyWords ==
  ASSUME NEW i \in 1 .. Len(Duties)
  PROVE  /\ Duties[i] \in Seq(DOMAIN Digit) /\ Duties[i] # <<>> /\ IsDuty(Duties[i])
         /\ Len(Duties[i]) \in Nat \ {0}
<1>1. Duties \in Seq(Seq(DOMAIN Digit)) /\ i \in DOMAIN Duties
  BY ToolAssumption
<1>2. Duties[i] \in Seq(DOMAIN Digit) /\ IsDuty(Duties[i])
  BY <1>1, ToolAssumption
<1>3. Duties[i] # <<>>
  BY <1>2 DEF IsDuty
<1> QED BY <1>2, <1>3, EmptySeq

\* A digit is none of the words.
LEMMA DigitsAreNoWords ==
  /\ DOMAIN Digit = {"0", "1", "2", "3"}
  /\ DOMAIN Digit \cap {"loop", "off", "on", "pwmset", "rpmget", "pwmget", "ping", EOL} = {}
BY DEF Digit, EOL

\* The line that sets a duty.
LEMMA PwmSetLine ==
  ASSUME NEW ds \in Seq(DOMAIN Digit), ds # <<>>
  PROVE  LET w == <<"pwmset">> \o ds
         IN  /\ w \in Seq(Tokens) /\ Len(w) = Len(ds) + 1 /\ Len(w) > 1
             /\ w[1] = "pwmset" /\ \A j \in 2 .. Len(w) : w[j] \in DOMAIN Digit
             /\ Tail(w) = ds
<1> DEFINE w == <<"pwmset">> \o ds
<1>1. <<"pwmset">> \in Seq(Tokens) /\ Len(<<"pwmset">>) = 1 /\ <<"pwmset">>[1] = "pwmset"
  BY DEF Tokens
<1>2. ds \in Seq(Tokens) /\ Len(ds) \in Nat \ {0}
  BY EmptySeq DEF Tokens
<1>3. w \in Seq(Tokens) /\ Len(w) = 1 + Len(ds)
      /\ \A i \in 1 .. 1 + Len(ds) : w[i] = IF i <= 1 THEN <<"pwmset">>[i] ELSE ds[i - 1]
  BY <1>1, <1>2, ConcatProperties
<1> HIDE DEF w
<1>4. w # <<>> /\ Len(w) > 1 /\ w[1] = "pwmset"
  BY <1>1, <1>2, <1>3
<1>5. \A j \in 2 .. Len(w) : w[j] \in DOMAIN Digit
  <2> TAKE j \in 2 .. Len(w)
  <2>1. j - 1 \in 1 .. Len(ds) /\ w[j] = ds[j - 1]
    BY <1>2, <1>3
  <2> QED BY <2>1
<1>6. Tail(w) = ds
  <2>1. Tail(w) \in Seq(Tokens) /\ Len(Tail(w)) = Len(w) - 1
        /\ \A i \in 1 .. Len(Tail(w)) : Tail(w)[i] = w[i + 1]
    BY <1>3, <1>4, HeadTailProperties
  <2>2. \A i \in 1 .. Len(ds) : Tail(w)[i] = ds[i]
    <3> TAKE i \in 1 .. Len(ds)
    <3>1. i + 1 \in 1 .. 1 + Len(ds) /\ ~ i + 1 <= 1 /\ i + 1 - 1 = i
      BY <1>2
    <3> QED BY <1>2, <1>3, <2>1, <3>1
  <2>3. Len(Tail(w)) = Len(ds)
    BY <1>2, <1>3, <2>1
  <2> QED BY <1>2, <2>1, <2>2, <2>3, SeqEqual
<1> QED BY <1>3, <1>4, <1>5, <1>6 DEF w

\* What every line of the sweep looks like, and what each says.
LEMMA SweepLines ==
  /\ Steps \in Nat /\ Steps >= 4 /\ Steps % 2 = 0
  /\ DOMAIN Sweep = 1 .. Steps /\ Len(Sweep) = Steps
  /\ Sweep[1] = LoopOff /\ Sweep[Steps] = LoopOn
  /\ \A n \in 2 .. Steps - 1 :
       /\ n \div 2 \in 1 .. Len(Duties)
       /\ n % 2 = 0 => Sweep[n] = Measure(DutyAt(n))[1]
       /\ n % 2 = 1 => Sweep[n] = Measure(DutyAt(n))[2]
<1>1. Len(Duties) \in Nat \ {0}
  BY ToolAssumption, EmptySeq
<1>2. Steps \in Nat /\ Steps >= 4 /\ Steps % 2 = 0
  BY <1>1 DEF Steps
<1>3. DOMAIN Sweep = 1 .. Steps
  BY DEF Sweep, Steps
<1>4. Len(Sweep) = Steps
  BY <1>2, <1>3
<1>5. Sweep[1] = LoopOff /\ Sweep[Steps] = LoopOn
  BY <1>2, <1>3 DEF Sweep, Steps
<1>6. ASSUME NEW n \in 2 .. Steps - 1
      PROVE  /\ n \div 2 \in 1 .. Len(Duties)
             /\ n % 2 = 0 => Sweep[n] = Measure(DutyAt(n))[1]
             /\ n % 2 = 1 => Sweep[n] = Measure(DutyAt(n))[2]
  <2>1. n \div 2 \in 1 .. Len(Duties)
    BY <1>1, <1>6 DEF Steps
  <2>2. Sweep[n] = Measure(Duties[n \div 2])[1 + (n % 2)]
    BY <1>1, <1>2 DEF Sweep, Steps
  <2>3. n % 2 = 0 => 1 + (n % 2) = 1
    OBVIOUS
  <2>4. n % 2 = 1 => 1 + (n % 2) = 2
    OBVIOUS
  <2> QED BY <2>1, <2>2, <2>3, <2>4 DEF DutyAt
<1> QED BY <1>2, <1>3, <1>4, <1>5, <1>6

\* Where a step of the sweep stands.
Place(n) ==
  \/ n = 1 /\ WordsOf(n) = <<"loop", "off">> /\ Sweep[n].kind = "loop off"
  \/ n = Steps /\ WordsOf(n) = <<"loop", "on">> /\ Sweep[n].kind = "loop on"
  \/ /\ n \in 2 .. Steps - 1 /\ n % 2 = 0
     /\ WordsOf(n) = <<"pwmset">> \o DutyAt(n) /\ Sweep[n].kind = "pwm"
     /\ DutyAt(n) \in Seq(DOMAIN Digit) /\ DutyAt(n) # <<>> /\ IsDuty(DutyAt(n))
  \/ /\ n \in 2 .. Steps - 1 /\ n % 2 = 1
     /\ WordsOf(n) = <<"rpmget">> /\ Sweep[n].kind = "rpm"

\* The fields of a step.
LEMMA AskFields ==
  ASSUME NEW n, NEW w, NEW k, Sweep[n] = Ask(w, k)
  PROVE  WordsOf(n) = w /\ Sweep[n].kind = k
BY DEF Ask, WordsOf

\* Every step of the sweep has its place.
LEMMA Places ==
  ASSUME NEW n \in 1 .. Steps
  PROVE  Place(n)
<1>1. CASE n = 1
  <2>1. Sweep[n] = Ask(<<"loop", "off">>, "loop off")
    BY <1>1, SweepLines DEF LoopOff
  <2>2. WordsOf(n) = <<"loop", "off">> /\ Sweep[n].kind = "loop off"
    BY <2>1, AskFields
  <2> QED BY <1>1, <2>2 DEF Place
<1>2. CASE n = Steps
  <2>1. Sweep[n] = Ask(<<"loop", "on">>, "loop on")
    BY <1>2, SweepLines DEF LoopOn
  <2>2. WordsOf(n) = <<"loop", "on">> /\ Sweep[n].kind = "loop on"
    BY <2>1, AskFields
  <2> QED BY <1>2, <2>2 DEF Place
<1>3. CASE n \in 2 .. Steps - 1 /\ n % 2 = 0
  <2>1. Sweep[n] = Ask(<<"pwmset">> \o DutyAt(n), "pwm") /\ n \div 2 \in 1 .. Len(Duties)
    BY <1>3, SweepLines DEF Measure
  <2>2. WordsOf(n) = <<"pwmset">> \o DutyAt(n) /\ Sweep[n].kind = "pwm"
    BY <2>1, AskFields
  <2> QED BY <1>3, <2>1, <2>2, DutyWords DEF Place, DutyAt
<1>4. CASE n \in 2 .. Steps - 1 /\ n % 2 = 1
  <2>1. Sweep[n] = Ask(<<"rpmget">>, "rpm")
    BY <1>4, SweepLines DEF Measure
  <2> QED BY <1>4, <2>1 DEF Place, WordsOf, Ask
<1>5. Steps \in Nat /\ (n \in 2 .. Steps - 1 => n % 2 = 0 \/ n % 2 = 1)
  BY SweepLines
<1> QED BY <1>1, <1>2, <1>3, <1>4, <1>5

\* The kind of answer each step waits for.
LEMMA KindAt ==
  ASSUME NEW n \in 1 .. Steps
  PROVE  /\ n = 1 => Sweep[n].kind = "loop off"
         /\ n = Steps => Sweep[n].kind = "loop on"
         /\ n \in 2 .. Steps - 1 /\ n % 2 = 0 => Sweep[n].kind = "pwm"
         /\ n \in 2 .. Steps - 1 /\ n % 2 = 1 => Sweep[n].kind = "rpm"
         /\ n \in 2 .. Steps - 1 => n % 2 = 0 \/ n % 2 = 1
<1>1. Steps \in Nat /\ Steps >= 4
  BY SweepLines
<1>2. n \in 2 .. Steps - 1 => (n % 2 = 0 \/ n % 2 = 1) /\ ~ (n % 2 = 0 /\ n % 2 = 1)
  BY <1>1
<1>3. ~ (n = 1 /\ n = Steps) /\ ~ (n = 1 /\ n \in 2 .. Steps - 1) /\ ~ (n = Steps /\ n \in 2 .. Steps - 1)
  BY <1>1
<1> QED BY <1>2, <1>3, Places DEF Place

\* No step asks for an error, or for nothing.
LEMMA KindsAsked ==
  ASSUME NEW n \in 1 .. Steps
  PROVE  Sweep[n].kind \in {"loop off", "loop on", "pwm", "rpm"}
<1>1. Steps \in Nat /\ Steps >= 4
  BY SweepLines
<1>2. n = 1 \/ n = Steps \/ n \in 2 .. Steps - 1
  BY <1>1
<1> QED BY <1>2, KindAt

\* The shape the lines have in common: a word that opens them, then digits,
\* or on or off as the second and last.
LEMMA LineShape ==
  ASSUME NEW n \in 1 .. Steps
  PROVE  /\ WordsOf(n) \in Seq(Tokens) /\ Len(WordsOf(n)) \in Nat \ {0}
         /\ Length(n) \in Nat /\ Length(n) >= 2
         /\ WordsOf(n)[1] \in Openers
         /\ \A j \in 2 .. Len(WordsOf(n)) :
              \/ WordsOf(n)[j] \in DOMAIN Digit
              \/ WordsOf(n)[j] \in {"on", "off"} /\ WordsOf(n)[1] = "loop" /\ Len(WordsOf(n)) = 2
         /\ \A q \in 1 .. Length(n) : /\ Token(n, q) \in Tokens
                                      /\ Token(n, q) = EOL <=> q = Length(n)
<1> DEFINE w == WordsOf(n)
<1>1. /\ w \in Seq(Tokens) /\ Len(w) \in Nat \ {0} /\ w[1] \in Openers
      /\ \A j \in 2 .. Len(w) : \/ w[j] \in DOMAIN Digit
                                \/ w[j] \in {"on", "off"} /\ w[1] = "loop" /\ Len(w) = 2
  <2>1. CASE w = <<"loop", "off">>
    <3>1. <<"loop", "off">> \in Seq(Tokens)
      BY DEF Tokens
    <3> QED BY <2>1, <3>1 DEF Openers
  <2>2. CASE w = <<"loop", "on">>
    <3>1. <<"loop", "on">> \in Seq(Tokens)
      BY DEF Tokens
    <3> QED BY <2>2, <3>1 DEF Openers
  <2>3. CASE w = <<"rpmget">>
    <3>1. <<"rpmget">> \in Seq(Tokens)
      BY DEF Tokens
    <3> QED BY <2>3, <3>1 DEF Openers
  <2>4. CASE w = <<"pwmset">> \o DutyAt(n) /\ DutyAt(n) \in Seq(DOMAIN Digit) /\ DutyAt(n) # <<>>
    <3> HIDE DEF w
    <3>1. Len(DutyAt(n)) \in Nat
      BY <2>4, EmptySeq
    <3> QED BY <2>4, <3>1, PwmSetLine DEF Openers
  <2> QED BY <2>1, <2>2, <2>3, <2>4, Places DEF Place
<1>2. ASSUME NEW q \in 1 .. Length(n)
      PROVE  Token(n, q) \in Tokens /\ (Token(n, q) = EOL <=> q = Length(n))
  <2> HIDE DEF w
  <2>1. CASE q = Length(n)
    BY <2>1 DEF Token, Tokens
  <2>2. CASE q # Length(n)
    <3>1. q \in 1 .. Len(w) /\ Token(n, q) = w[q]
      BY <1>1, <2>2 DEF Length, Token, w
    <3>2. w[q] \in Openers \cup {"on", "off"} \cup DOMAIN Digit
      BY <1>1, <3>1
    <3>3. w[q] # EOL /\ w[q] \in Tokens
      BY <3>2, DigitsAreNoWords DEF Openers, Tokens, EOL
    <3> QED BY <2>2, <3>1, <3>3
  <2> QED BY <2>1, <2>2
<1> QED BY <1>1, <1>2 DEF Length, w

-----------------------------------------------------------------------------
(* What is on the way to the firmware.  R is the receive ring and Q the     *)
(* wire.  Numbered from 1, what the host wrote and the firmware has not yet *)
(* been fed is a run of tokens, each token p[i] of the line of command      *)
(* c[i]; number 0 is the token fed last.  If g is not 0, the token of that  *)
(* number was lost.                                                         *)

Count(R, Q, g) == Len(R) + Len(Q) + (IF g = 0 THEN 0 ELSE 1)

\* The number of the i-th token that is left.
Skip(g, i) == IF 0 < g /\ g <= i THEN i + 1 ELSE i

Pending(R, Q, i) == IF i <= Len(R) THEN R[i] ELSE Q[i - Len(R)]

\* Token r of a line of command m is written next after token q of one of n.
Follows(n, q, m, r) ==
  IF q < Length(n) THEN m = n /\ r = q + 1 ELSE m >= n /\ r = 1

Stream(R, Q, N, c, p, g) ==
  /\ g \in 0 .. Count(R, Q, g)
  /\ c \in [0 .. Count(R, Q, g) -> 1 .. N] /\ p \in [0 .. Count(R, Q, g) -> Nat]
  /\ \A i \in 0 .. Count(R, Q, g) : p[i] \in 1 .. Length(c[i])
  /\ p[Count(R, Q, g)] = Length(c[Count(R, Q, g)])
  /\ \A i \in 1 .. Count(R, Q, g) : Follows(c[i - 1], p[i - 1], c[i], p[i])
  /\ \A i \in 1 .. Len(R) + Len(Q) : Pending(R, Q, i) = Token(c[Skip(g, i)], p[Skip(g, i)])
  /\ g > 0 => Token(c[g], p[g]) \notin DOMAIN Digit

\* The commands of the run never fall back.
LEMMA Onward ==
  ASSUME NEW R \in Seq(Tokens), NEW Q \in Seq(Tokens), NEW N \in 1 .. Steps,
         NEW c, NEW p, NEW g, Stream(R, Q, N, c, p, g)
  PROVE  /\ Count(R, Q, g) \in Nat
         /\ \A i, j \in 0 .. Count(R, Q, g) : i <= j => c[i] <= c[j]
<1> DEFINE k == Count(R, Q, g)
<1>1. Len(R) \in Nat /\ Len(Q) \in Nat /\ N \in Nat
  BY LenProperties, SweepLines
<1>2. k \in Nat
  BY <1>1 DEF Count
<1> HIDE DEF k
<1>3. c \in [0 .. k -> 1 .. N] /\ \A i \in 1 .. k : Follows(c[i - 1], p[i - 1], c[i], p[i])
  BY DEF Stream, k
<1>4. c \in [0 .. k -> Nat]
  BY <1>1, <1>3
<1>5. \A i \in 1 .. k : c[i - 1] <= c[i]
  <2> TAKE i \in 1 .. k
  <2>1. i - 1 \in 0 .. k /\ i \in 0 .. k
    BY <1>2
  <2>2. c[i - 1] \in Nat /\ c[i] \in Nat
    BY <1>4, <2>1
  <2> QED BY <1>3, <2>2 DEF Follows
<1> QED BY <1>2, <1>4, <1>5, Monotone DEF k

\* A byte that enters the ring changes nothing of it.
LEMMA ByteMoved ==
  ASSUME NEW R \in Seq(Tokens), NEW Q \in Seq(Tokens), Q # <<>>, NEW N,
         NEW c, NEW p, NEW g, Stream(R, Q, N, c, p, g)
  PROVE  Stream(Append(R, Head(Q)), Tail(Q), N, c, p, g)
<1> DEFINE A == Append(R, Head(Q))
           T == Tail(Q)
<1>1. /\ T \in Seq(Tokens) /\ Len(T) = Len(Q) - 1 /\ Len(Q) \in Nat /\ Len(Q) >= 1
      /\ Head(Q) \in Tokens /\ Head(Q) = Q[1]
      /\ \A i \in 1 .. Len(Q) - 1 : T[i] = Q[i + 1]
  BY HeadTailProperties, EmptySeq, LenProperties
<1>2. /\ Len(A) = Len(R) + 1 /\ Len(R) \in Nat
      /\ \A i \in 1 .. Len(R) : A[i] = R[i]
      /\ A[Len(R) + 1] = Head(Q)
  BY <1>1, AppendProperties, LenProperties
<1> HIDE DEF A, T
<1>3. Count(A, T, g) = Count(R, Q, g) /\ Len(A) + Len(T) = Len(R) + Len(Q)
  BY <1>1, <1>2 DEF Count
<1>4. ASSUME NEW i \in 1 .. Len(R) + Len(Q)
      PROVE  Pending(A, T, i) = Pending(R, Q, i)
  <2>1. CASE i <= Len(R)
    BY <1>1, <1>2, <2>1 DEF Pending
  <2>2. CASE i = Len(R) + 1
    BY <1>1, <1>2, <2>2 DEF Pending
  <2>3. CASE i > Len(R) + 1
    <3>1. i - Len(R) - 1 \in 1 .. Len(Q) - 1 /\ ~ i <= Len(A) /\ ~ i <= Len(R)
      BY <1>1, <1>2, <2>3
    <3>2. i - Len(A) = i - Len(R) - 1 /\ i - Len(R) - 1 + 1 = i - Len(R)
      BY <1>1, <1>2
    <3> QED BY <1>1, <3>1, <3>2 DEF Pending
  <2> QED BY <1>1, <1>2, <2>1, <2>2, <2>3
<1> QED BY <1>3, <1>4 DEF Stream, A, T

\* The first byte of the wire that is lost leaves a gap.
LEMMA ByteLost ==
  ASSUME NEW R \in Seq(Tokens), NEW Q \in Seq(Tokens), Q # <<>>, NEW N,
         NEW c, NEW p, Stream(R, Q, N, c, p, 0), Head(Q) \notin DOMAIN Digit
  PROVE  Stream(R, Tail(Q), N, c, p, Len(R) + 1)
<1> DEFINE T == Tail(Q)
           g == Len(R) + 1
<1>1. /\ T \in Seq(Tokens) /\ Len(T) = Len(Q) - 1 /\ Len(Q) \in Nat /\ Len(Q) >= 1
      /\ Head(Q) = Q[1] /\ Len(R) \in Nat
      /\ \A i \in 1 .. Len(Q) - 1 : T[i] = Q[i + 1]
  BY HeadTailProperties, EmptySeq, LenProperties
<1> HIDE DEF T
<1>2. Count(R, T, g) = Count(R, Q, 0) /\ Count(R, Q, 0) = Len(R) + Len(Q) /\ g \in 1 .. Len(R) + Len(Q)
  <2>1. g # 0 /\ g \in 1 .. Len(R) + Len(Q)
    BY <1>1
  <2>2. Count(R, T, g) = Len(R) + Len(T) + 1 /\ Count(R, Q, 0) = Len(R) + Len(Q) + 0
    BY <2>1 DEF Count
  <2> QED BY <1>1, <2>1, <2>2
<1>3. ASSUME NEW i \in 1 .. Len(R) + Len(T)
      PROVE  Pending(R, T, i) = Token(c[Skip(g, i)], p[Skip(g, i)])
  <2>1. Skip(g, i) \in 1 .. Len(R) + Len(Q) /\ Skip(0, Skip(g, i)) = Skip(g, i)
    BY <1>1 DEF Skip
  <2>2. Pending(R, T, i) = Pending(R, Q, Skip(g, i))
    <3>1. CASE i <= Len(R)
      BY <1>1, <3>1 DEF Pending, Skip
    <3>2. CASE i > Len(R)
      <4>1. i - Len(R) \in 1 .. Len(Q) - 1 /\ ~ i <= Len(R) /\ ~ i + 1 <= Len(R)
            /\ Skip(g, i) = i + 1 /\ (i - Len(R)) + 1 = i + 1 - Len(R)
        BY <1>1, <3>2 DEF Skip
      <4> QED BY <1>1, <4>1 DEF Pending
    <3> QED BY <1>1, <3>1, <3>2
  <2> QED BY <2>1, <2>2 DEF Stream
<1>4. Token(c[g], p[g]) \notin DOMAIN Digit
  <2>1. g \in 1 .. Len(R) + Len(Q) /\ Pending(R, Q, g) = Head(Q) /\ Skip(0, g) = g
    BY <1>1, <1>2 DEF Pending, Skip
  <2> QED BY <2>1 DEF Stream
<1> QED BY <1>2, <1>3, <1>4 DEF Stream, T

\* What the firmware is fed next, and the run that is left of it.
LEMMA ByteFed ==
  ASSUME NEW R \in Seq(Tokens), NEW Q \in Seq(Tokens), R # <<>>, NEW N \in 1 .. Steps,
         NEW c, NEW p, NEW g, Stream(R, Q, N, c, p, g)
  PROVE  \E s, h, d, q :
           /\ (g = 0 /\ s = 1 /\ h = 0) \/ (g = 1 /\ s = 2 /\ h = 0) \/ (g > 1 /\ s = 1 /\ h = g - 1)
           /\ s \in 1 .. Count(R, Q, g)
           /\ Count(Tail(R), Q, h) = Count(R, Q, g) - s /\ Count(Tail(R), Q, h) \in Nat
           /\ \A i \in 0 .. Count(Tail(R), Q, h) : d[i] = c[i + s] /\ q[i] = p[i + s]
           /\ Head(R) = Token(c[s], p[s])
           /\ Stream(Tail(R), Q, N, d, q, h)
<1> DEFINE s == Skip(g, 1)
           h == IF g > 1 THEN g - 1 ELSE 0
           T == Tail(R)
           k == Count(T, Q, h)
           n == Count(R, Q, g)
           d == [i \in 0 .. k |-> c[i + s]]
           q == [i \in 0 .. k |-> p[i + s]]
<1>1. /\ T \in Seq(Tokens) /\ Len(T) = Len(R) - 1 /\ Len(R) \in Nat /\ Len(R) >= 1
      /\ Head(R) = R[1] /\ Len(Q) \in Nat
      /\ \A i \in 1 .. Len(R) - 1 : T[i] = R[i + 1]
  BY HeadTailProperties, EmptySeq, LenProperties
<1>2. n \in Nat /\ g \in 0 .. n /\ n = Len(R) + Len(Q) + (IF g = 0 THEN 0 ELSE 1)
  BY Onward DEF Stream, Count
<1>3. /\ c \in [0 .. n -> 1 .. N] /\ p \in [0 .. n -> Nat]
      /\ \A i \in 0 .. n : p[i] \in 1 .. Length(c[i])
      /\ p[n] = Length(c[n])
      /\ \A i \in 1 .. n : Follows(c[i - 1], p[i - 1], c[i], p[i])
      /\ \A i \in 1 .. Len(R) + Len(Q) : Pending(R, Q, i) = Token(c[Skip(g, i)], p[Skip(g, i)])
      /\ g > 0 => Token(c[g], p[g]) \notin DOMAIN Digit
  BY DEF Stream
<1> HIDE DEF n, T
<1>4. s \in {1, 2} /\ s <= n /\ h \in Nat /\ k = n - s /\ k \in Nat /\ h \in 0 .. k
  <2>1. CASE g = 0
    <3>1. s = 1 /\ h = 0
      BY <2>1 DEF Skip
    <3>2. k = Len(T) + Len(Q) + 0
      BY <3>1 DEF Count
    <3> QED BY <1>1, <1>2, <2>1, <3>1, <3>2
  <2>2. CASE g = 1
    <3>1. s = 2 /\ h = 0
      BY <2>2 DEF Skip
    <3>2. k = Len(T) + Len(Q) + 0
      BY <3>1 DEF Count
    <3> QED BY <1>1, <1>2, <2>2, <3>1, <3>2
  <2>3. CASE g > 1
    <3>1. s = 1 /\ h = g - 1 /\ h \in Nat /\ h # 0
      BY <1>2, <2>3 DEF Skip
    <3>2. k = Len(T) + Len(Q) + 1
      BY <3>1 DEF Count
    <3>3. n = Len(R) + Len(Q) + 1 /\ g <= n /\ g \in Nat
      BY <1>2, <2>3
    <3> HIDE DEF h, k, s
    <3> QED BY <1>1, <1>2, <2>3, <3>1, <3>2, <3>3
  <2> QED BY <1>2, <2>1, <2>2, <2>3
<1>5. Head(R) = Token(c[s], p[s])
  <2>1. 1 \in 1 .. Len(R) + Len(Q) /\ Pending(R, Q, 1) = R[1]
    BY <1>1 DEF Pending
  <2> QED BY <1>1, <1>3, <2>1
<1>6. ASSUME NEW i \in 1 .. Len(T) + Len(Q)
      PROVE  /\ Skip(h, i) \in 0 .. k
             /\ Pending(T, Q, i) = Token(c[Skip(h, i) + s], p[Skip(h, i) + s])
  <2>1. i + 1 \in 1 .. Len(R) + Len(Q) /\ i \in Nat
    BY <1>1, <1>6
  <2>2. Skip(h, i) + s = Skip(g, i + 1) /\ Skip(h, i) \in 0 .. k
    <3>1. CASE g = 0
      BY <1>1, <1>2, <1>4, <2>1, <3>1 DEF Skip
    <3>2. CASE g = 1
      BY <1>1, <1>2, <1>4, <2>1, <3>2 DEF Skip
    <3>3. CASE g > 1
      BY <1>1, <1>2, <1>4, <2>1, <3>3 DEF Skip
    <3> QED BY <1>2, <3>1, <3>2, <3>3
  <2>3. Pending(T, Q, i) = Pending(R, Q, i + 1)
    <3>1. CASE i <= Len(T)
      <4>1. i \in 1 .. Len(R) - 1 /\ i + 1 <= Len(R)
        BY <1>1, <2>1, <3>1
      <4> QED BY <1>1, <3>1, <4>1 DEF Pending
    <3>2. CASE ~ i <= Len(T)
      <4>1. ~ i + 1 <= Len(R) /\ i - Len(T) = i + 1 - Len(R)
        BY <1>1, <2>1, <3>2
      <4> QED BY <3>2, <4>1 DEF Pending
    <3> QED BY <3>1, <3>2
  <2> QED BY <1>3, <2>1, <2>2, <2>3
<1> HIDE DEF s, h, k
<1>7. \A i \in 0 .. k : i + s \in 0 .. n /\ d[i] = c[i + s] /\ q[i] = p[i + s]
  BY <1>2, <1>4
<1>8. d \in [0 .. k -> 1 .. N] /\ q \in [0 .. k -> Nat]
  BY <1>3, <1>7
<1>9. \A i \in 1 .. k : Follows(d[i - 1], q[i - 1], d[i], q[i])
  <2> TAKE i \in 1 .. k
  <2>1. i \in 0 .. k /\ i - 1 \in 0 .. k /\ (i - 1) + s = (i + s) - 1 /\ i + s \in 1 .. n
    BY <1>2, <1>4
  <2> HIDE DEF d, q
  <2> QED BY <1>3, <1>7, <2>1
<1>10. /\ \A i \in 0 .. k : q[i] \in 1 .. Length(d[i])
       /\ q[k] = Length(d[k])
  <2>1. k \in 0 .. k /\ k + s = n
    BY <1>2, <1>4
  <2> HIDE DEF d, q
  <2> QED BY <1>3, <1>7, <2>1
<1>11. \A i \in 1 .. Len(T) + Len(Q) : Pending(T, Q, i) = Token(d[Skip(h, i)], q[Skip(h, i)])
  <2> HIDE DEF d, q
  <2> QED BY <1>6, <1>7
<1>12. h > 0 => Token(d[h], q[h]) \notin DOMAIN Digit
  <2>1. h > 0 => g > 0 /\ h + s = g /\ h \in 0 .. k
    BY <1>2, <1>4 DEF h, s, Skip
  <2> HIDE DEF d, q
  <2> QED BY <1>3, <1>7, <2>1
<1>13. Stream(T, Q, N, d, q, h)
  <2> HIDE DEF d, q
  <2> QED BY <1>4, <1>8, <1>9, <1>10, <1>11, <1>12 DEF Stream, k
<1>14. (g = 0 /\ s = 1 /\ h = 0) \/ (g = 1 /\ s = 2 /\ h = 0) \/ (g > 1 /\ s = 1 /\ h = g - 1)
  <2>1. CASE g = 0
    BY <2>1 DEF s, h, Skip
  <2>2. CASE g = 1
    BY <2>2 DEF s, h, Skip
  <2>3. CASE g > 1
    <3>1. g \in Nat /\ ~ (0 < g /\ g <= 1)
      BY <1>2, <2>3
    <3> QED BY <2>3, <3>1 DEF s, h, Skip
  <2> QED BY <1>2, <2>1, <2>2, <2>3
<1> HIDE DEF d, q
<1>15. /\ s \in 1 .. Count(R, Q, g)
       /\ Count(Tail(R), Q, h) = Count(R, Q, g) - s /\ Count(Tail(R), Q, h) \in Nat
       /\ \A i \in 0 .. Count(Tail(R), Q, h) : d[i] = c[i + s] /\ q[i] = p[i + s]
  <2>1. s \in 1 .. n
    BY <1>2, <1>4
  <2> QED BY <2>1, <1>4, <1>7 DEF k, T, n
<1>16. Stream(Tail(R), Q, N, d, q, h)
  BY <1>13 DEF T
<1> QED BY <1>5, <1>14, <1>15, <1>16

\* A line that is written to the wire.
LEMMA LineSent ==
  ASSUME NEW R \in Seq(Tokens), NEW Q \in Seq(Tokens), NEW N \in 1 .. Steps,
         NEW c, NEW p, NEW g, Stream(R, Q, N, c, p, g)
  PROVE  \E d, q :
           /\ d[0] = c[0] /\ q[0] = p[0] /\ d[Count(R, Q \o WordsOf(N) \o <<EOL>>, g)] = N
           /\ Stream(R, Q \o WordsOf(N) \o <<EOL>>, N, d, q, g)
<1> DEFINE w == WordsOf(N)
           E == <<EOL>>
           B == Q \o w
           T == B \o E
           n == Count(R, Q, g)
           m == n + Length(N)
           d == [i \in 0 .. m |-> IF i <= n THEN c[i] ELSE N]
           q == [i \in 0 .. m |-> IF i <= n THEN p[i] ELSE i - n]
<1>1. /\ w \in Seq(Tokens) /\ Len(w) \in Nat /\ Length(N) = Len(w) + 1
      /\ Length(N) >= 2 /\ N \in Nat
      /\ Len(R) \in Nat /\ Len(Q) \in Nat
  BY LineShape, LenProperties, SweepLines DEF Length
<1>2. E \in Seq(Tokens) /\ Len(E) = 1 /\ E[1] = EOL
  BY DEF Tokens
<1> HIDE DEF w, E
<1>3. /\ B \in Seq(Tokens) /\ Len(B) = Len(Q) + Len(w)
      /\ \A i \in 1 .. Len(Q) + Len(w) : B[i] = IF i <= Len(Q) THEN Q[i] ELSE w[i - Len(Q)]
  BY <1>1, ConcatProperties
<1> HIDE DEF B
<1>4. /\ T \in Seq(Tokens) /\ Len(T) = Len(B) + Len(E)
      /\ \A i \in 1 .. Len(B) + Len(E) : T[i] = IF i <= Len(B) THEN B[i] ELSE E[i - Len(B)]
  <2>1. B \in Seq(Tokens) /\ E \in Seq(Tokens)
    BY <1>2, <1>3
  <2> QED BY <2>1, ConcatProperties
<1> HIDE DEF T
<1>5. Len(T) = Len(Q) + Length(N)
      /\ \A i \in 1 .. Len(T) : T[i] = IF i <= Len(Q) THEN Q[i] ELSE Token(N, i - Len(Q))
  <2>1. Len(T) = Len(Q) + Length(N)
    BY <1>1, <1>2, <1>3, <1>4
  <2>2. ASSUME NEW i \in 1 .. Len(T)
        PROVE  T[i] = IF i <= Len(Q) THEN Q[i] ELSE Token(N, i - Len(Q))
    <3>1. CASE i <= Len(B)
      <4>1. i \in 1 .. Len(Q) + Len(w) /\ T[i] = B[i] /\ i - Len(Q) # Length(N)
        BY <1>1, <1>2, <1>3, <1>4, <3>1
      <4> QED BY <1>3, <4>1 DEF Token, w
    <3>2. CASE ~ i <= Len(B)
      <4>1. i = Len(B) + 1 /\ i - Len(B) = 1 /\ i - Len(Q) = Length(N) /\ ~ i <= Len(Q)
        <5>1. /\ Len(B) = Len(Q) + Len(w) /\ Len(T) = Len(B) + 1 /\ Length(N) = Len(w) + 1
              /\ Len(Q) \in Nat /\ Len(w) \in Nat
          BY <1>1, <1>2, <1>3, <1>4
        <5>2. i \in 1 .. Len(B) + 1 /\ Len(B) \in Nat
          BY <2>2, <5>1
        <5>3. i = Len(B) + 1
          BY <3>2, <5>2
        <5> QED BY <5>1, <5>3
      <4> QED BY <1>2, <1>4, <3>2, <4>1 DEF Token
    <3> QED BY <3>1, <3>2
  <2> QED BY <2>1, <2>2
<1>6. n \in Nat /\ g \in 0 .. n /\ n = Len(R) + Len(Q) + (IF g = 0 THEN 0 ELSE 1)
  BY Onward DEF Stream, Count
<1>7. /\ c \in [0 .. n -> 1 .. N] /\ p \in [0 .. n -> Nat]
      /\ \A i \in 0 .. n : p[i] \in 1 .. Length(c[i])
      /\ p[n] = Length(c[n])
      /\ \A i \in 1 .. n : Follows(c[i - 1], p[i - 1], c[i], p[i])
      /\ \A i \in 1 .. Len(R) + Len(Q) : Pending(R, Q, i) = Token(c[Skip(g, i)], p[Skip(g, i)])
      /\ g > 0 => Token(c[g], p[g]) \notin DOMAIN Digit
  BY DEF Stream
<1>8. Count(R, T, g) = m
  BY <1>1, <1>5, <1>6 DEF Count
<1> HIDE DEF n
<1>9. /\ m \in Nat /\ n < m /\ n \in 0 .. m
      /\ \A i \in 0 .. n : i \in 0 .. m /\ d[i] = c[i] /\ q[i] = p[i]
      /\ \A i \in n + 1 .. m : i \in 0 .. m /\ d[i] = N /\ q[i] = i - n
      /\ DOMAIN d = 0 .. m /\ DOMAIN q = 0 .. m
  BY <1>1, <1>6
<1>10. d \in [0 .. m -> 1 .. N] /\ q \in [0 .. m -> Nat]
  <2>1. ASSUME NEW i \in 0 .. m
        PROVE  (IF i <= n THEN c[i] ELSE N) \in 1 .. N /\ (IF i <= n THEN p[i] ELSE i - n) \in Nat
    <3>1. CASE i <= n
      BY <1>6, <1>7, <3>1
    <3>2. CASE ~ i <= n
      BY <1>1, <1>6, <1>9, <3>2
    <3> QED BY <3>1, <3>2
  <2> QED BY <2>1
<1> HIDE DEF d, q, m
<1>11. \A i \in 0 .. m : q[i] \in 1 .. Length(d[i])
  <2> TAKE i \in 0 .. m
  <2>1. CASE i <= n
    BY <1>6, <1>7, <1>9, <2>1
  <2>2. CASE ~ i <= n
    <3>1. i \in n + 1 .. m
      BY <1>6, <1>9, <2>2
    <3> QED BY <1>1, <1>6, <1>9, <3>1 DEF m
  <2> QED BY <2>1, <2>2
<1>12. q[m] = Length(d[m])
  <2>1. m \in n + 1 .. m /\ m - n = Length(N)
    BY <1>1, <1>6, <1>9 DEF m
  <2> QED BY <1>9, <2>1
<1>13. \A i \in 1 .. m : Follows(d[i - 1], q[i - 1], d[i], q[i])
  <2> TAKE i \in 1 .. m
  <2>1. CASE i <= n
    <3>1. i \in 1 .. n /\ i \in 0 .. n /\ i - 1 \in 0 .. n
      BY <1>6, <2>1
    <3> QED BY <1>7, <1>9, <3>1
  <2>2. CASE i = n + 1
    <3>1. i - 1 = n /\ n \in 0 .. n /\ i \in n + 1 .. m /\ i - n = 1
      BY <1>6, <1>9, <2>2
    <3>2. d[i - 1] = c[n] /\ q[i - 1] = p[n] /\ d[i] = N /\ q[i] = 1
      BY <1>9, <3>1
    <3>3. c[n] \in 1 .. N /\ p[n] = Length(c[n]) /\ ~ (p[n] < Length(c[n]))
      <4>1. c[n] \in 1 .. N /\ p[n] \in Nat
        BY <1>7, <3>1
      <4> QED BY <1>7, <4>1
    <3> QED BY <1>1, <3>2, <3>3 DEF Follows
  <2>3. CASE i > n + 1
    <3>1. i \in n + 1 .. m /\ i - 1 \in n + 1 .. m /\ (i - 1) - n + 1 = i - n
          /\ (i - 1) - n < Length(N)
      BY <1>1, <1>6, <1>9, <2>3 DEF m
    <3>2. d[i - 1] = N /\ q[i - 1] = (i - 1) - n /\ d[i] = N /\ q[i] = i - n
      BY <1>9, <3>1
    <3> QED BY <3>1, <3>2 DEF Follows
  <2> QED BY <1>6, <1>9, <2>1, <2>2, <2>3
<1>14. \A i \in 1 .. Len(R) + Len(T) : Pending(R, T, i) = Token(d[Skip(g, i)], q[Skip(g, i)])
  <2> TAKE i \in 1 .. Len(R) + Len(T)
  <2>1. CASE i <= Len(R) + Len(Q)
    <3>1. i \in 1 .. Len(R) + Len(Q) /\ Skip(g, i) \in 0 .. n
      BY <1>1, <1>5, <1>6, <2>1 DEF Skip
    <3>2. Pending(R, T, i) = Pending(R, Q, i)
      <4>1. CASE i <= Len(R)
        BY <4>1 DEF Pending
      <4>2. CASE ~ i <= Len(R)
        <5>1. i - Len(R) \in 1 .. Len(T) /\ i - Len(R) <= Len(Q)
          BY <1>1, <1>5, <3>1, <4>2
        <5> QED BY <1>5, <4>2, <5>1 DEF Pending
      <4> QED BY <4>1, <4>2
    <3> QED BY <1>7, <1>9, <3>1, <3>2
  <2>2. CASE ~ i <= Len(R) + Len(Q)
    <3>1. /\ i - Len(R) \in 1 .. Len(T) /\ ~ i - Len(R) <= Len(Q) /\ ~ i <= Len(R)
          /\ i \in Nat
      BY <1>1, <1>5, <2>2
    <3>2. Pending(R, T, i) = Token(N, (i - Len(R)) - Len(Q))
      BY <1>5, <3>1 DEF Pending
    <3>3. Skip(g, i) \in n + 1 .. m /\ Skip(g, i) - n = (i - Len(R)) - Len(Q)
      <4>1. CASE g = 0
        BY <1>1, <1>5, <1>6, <2>2, <3>1, <4>1 DEF Skip, m
      <4>2. CASE g # 0
        <5>1. 0 < g /\ g <= i /\ Skip(g, i) = i + 1
          BY <1>1, <1>6, <2>2, <3>1, <4>2 DEF Skip
        <5> QED BY <1>1, <1>5, <1>6, <2>2, <3>1, <4>2, <5>1 DEF m
      <4> QED BY <4>1, <4>2
    <3> QED BY <1>9, <3>2, <3>3
  <2> QED BY <2>1, <2>2
<1>15. g \in 0 .. m /\ (g > 0 => Token(d[g], q[g]) \notin DOMAIN Digit)
  BY <1>6, <1>7, <1>9
<1>16. Stream(R, T, N, d, q, g)
  BY <1>8, <1>10, <1>11, <1>12, <1>13, <1>14, <1>15 DEF Stream
<1>17. d[0] = c[0] /\ q[0] = p[0]
  BY <1>6, <1>9
<1>18. d[Count(R, T, g)] = N
  <2>1. m \in n + 1 .. m
    BY <1>9
  <2> QED BY <1>8, <1>9, <2>1
<1> QED BY <1>16, <1>17, <1>18 DEF T, B, w, E

-----------------------------------------------------------------------------
(* What the parser makes of a line.                                         *)

Nothing  == Command("NONE", 0)
Rejected == Command("ERROR", 0)

\* A line no further token can make a command of.
Hopeless(s) ==
  /\ s # <<>>
  /\ \/ s[1] \in {"on", "off"} \cup DOMAIN Digit
     \/ \E j \in 2 .. Len(s) : s[j] \in Openers

\* It stays hopeless.
LEMMA HopelessGrows ==
  ASSUME NEW s \in Seq(Tokens), Hopeless(s), NEW x \in Tokens
  PROVE  Hopeless(Append(s, x))
<1> DEFINE a == Append(s, x)
<1>1. /\ Len(s) \in Nat \ {0} /\ a # <<>> /\ Len(a) = Len(s) + 1
      /\ \A i \in 1 .. Len(s) : a[i] = s[i]
  BY AppendProperties, EmptySeq DEF Hopeless
<1> HIDE DEF a
<1>2. a[1] = s[1] /\ \A j \in 2 .. Len(s) : j \in 2 .. Len(a) /\ a[j] = s[j]
  BY <1>1
<1> QED BY <1>1, <1>2 DEF Hopeless, a

\* It is answered with an error.
LEMMA HopelessIsRejected ==
  ASSUME NEW s \in Seq(Tokens), Hopeless(s)
  PROVE  Parse(s) = Rejected
<1>1. s # <<>> /\ Len(s) \in Nat \ {0}
  BY EmptySeq DEF Hopeless
<1>2. s # <<"pwmget">> /\ s # <<"rpmget">> /\ s # <<"ping">>
  <2> SUFFICES ASSUME Len(s) = 1, s[1] \in {"pwmget", "rpmget", "ping"} PROVE FALSE
    OBVIOUS
  <2> QED BY DigitsAreNoWords DEF Hopeless
<1>3. s # <<"loop", "on">> /\ s # <<"loop", "off">>
  <2> SUFFICES ASSUME Len(s) = 2, s[1] = "loop", s[2] \in {"on", "off"} PROVE FALSE
    OBVIOUS
  <2> QED BY DigitsAreNoWords DEF Hopeless, Openers
<1>4. ~ (Len(s) > 1 /\ s[1] = "pwmset" /\ IsDuty(Tail(s)))
  <2> SUFFICES ASSUME Len(s) > 1, s[1] = "pwmset", IsDuty(Tail(s)) PROVE FALSE
    OBVIOUS
  <2>1. PICK j \in 2 .. Len(s) : s[j] \in Openers
    BY DigitsAreNoWords DEF Hopeless
  <2>2. /\ Tail(s) \in Seq(Tokens) /\ Len(Tail(s)) = Len(s) - 1
        /\ \A i \in 1 .. Len(Tail(s)) : Tail(s)[i] = s[i + 1]
    BY <1>1, HeadTailProperties
  <2>3. DOMAIN Tail(s) = 1 .. Len(s) - 1
    BY <2>2, LenProperties
  <2>4. j - 1 \in 1 .. Len(s) - 1 /\ Tail(s)[j - 1] = s[j]
    BY <1>1, <2>1, <2>2
  <2>5. s[j] \in DOMAIN Digit
    BY <2>3, <2>4 DEF IsDuty
  <2> QED BY <2>1, <2>5, DigitsAreNoWords DEF Openers
<1> QED BY <1>1, <1>2, <1>3, <1>4 DEF Parse, Rejected

\* What each line of the sweep means.
Meaning(n) ==
  IF n = 1 THEN Command("LOOP_OFF", 0)
  ELSE IF n = Steps THEN Command("LOOP_ON", 0)
  ELSE IF n % 2 = 0 THEN Command("PWMSET", Value(n))
  ELSE Command("RPMGET", 0)

\* That is what the parser makes of it.
LEMMA LineIsParsed ==
  ASSUME NEW n \in 1 .. Steps
  PROVE  Parse(WordsOf(n)) = Meaning(n)
<1>0. Steps \in Nat /\ Steps >= 4
  BY SweepLines
<1>1. CASE n = 1 /\ WordsOf(n) = <<"loop", "off">>
  <2>1. Parse(<<"loop", "off">>) = Command("LOOP_OFF", 0)
    BY DEF Parse
  <2> QED BY <1>1, <2>1 DEF Meaning
<1>2. CASE n = Steps /\ WordsOf(n) = <<"loop", "on">>
  <2>1. Parse(<<"loop", "on">>) = Command("LOOP_ON", 0)
    BY DEF Parse
  <2> QED BY <1>0, <1>2, <2>1 DEF Meaning
<1>3. CASE n \in 2 .. Steps - 1 /\ n % 2 = 1 /\ WordsOf(n) = <<"rpmget">>
  <2>1. Parse(<<"rpmget">>) = Command("RPMGET", 0)
    BY DEF Parse
  <2>2. n # 1 /\ n # Steps /\ n % 2 # 0
    BY <1>0, <1>3
  <2> QED BY <1>3, <2>1, <2>2 DEF Meaning
<1>4. CASE /\ n \in 2 .. Steps - 1 /\ n % 2 = 0 /\ WordsOf(n) = <<"pwmset">> \o DutyAt(n)
           /\ DutyAt(n) \in Seq(DOMAIN Digit) /\ DutyAt(n) # <<>> /\ IsDuty(DutyAt(n))
  <2> DEFINE w == WordsOf(n)
  <2>1. Len(w) > 1 /\ w[1] = "pwmset" /\ Tail(w) = DutyAt(n) /\ w \in Seq(Tokens)
    BY <1>4, PwmSetLine
  <2> HIDE DEF w
  <2>2. w # <<>> /\ w # <<"pwmget">> /\ w # <<"rpmget">> /\ w # <<"ping">>
        /\ w # <<"loop", "on">> /\ w # <<"loop", "off">>
    BY <2>1
  <2>3. Parse(w) = Command("PWMSET", DigitsValue(Tail(w)))
    BY <1>4, <2>1, <2>2 DEF Parse
  <2>4. n # 1 /\ n # Steps
    BY <1>0, <1>4
  <2> QED BY <1>4, <2>1, <2>3, <2>4 DEF Meaning, Value, w
<1> QED BY <1>1, <1>2, <1>3, <1>4, Places DEF Place

\* The first word of a loop line alone is no command.
LEMMA LoopAlone == Parse(<<"loop">>) = Rejected
<1> DEFINE s == <<"loop">>
<1>1. s # <<>> /\ Len(s) = 1 /\ s[1] = "loop"
  OBVIOUS
<1> HIDE DEF s
<1>2. s # <<"pwmget">> /\ s # <<"rpmget">> /\ s # <<"ping">> /\ s # <<"loop", "on">>
      /\ s # <<"loop", "off">> /\ ~ (Len(s) > 1)
  BY <1>1
<1>3. Parse(s) = Rejected
  BY <1>1, <1>2 DEF Parse, Rejected
<1> QED BY <1>3 DEF s

\* Nor is an empty one.
LEMMA EmptyLine == Parse(<<>>) = Nothing
BY DEF Parse, Nothing

-----------------------------------------------------------------------------
(* What the firmware has been fed of the line it is in.                     *)

\* The accumulator after token q of the line of command n.  damaged: a token
\* of it, or the end of the line before it, was lost.
Accumulated(acc, n, q, damaged) ==
  /\ damaged => q < Length(n) /\ (acc.overflowed \/ Hopeless(acc.line))
  /\ ~damaged /\ q = Length(n) => acc.line = <<>> /\ ~acc.overflowed
  /\ ~damaged /\ q < Length(n) =>
       IF q < LineMax
       THEN ~acc.overflowed /\ Len(acc.line) = q /\ \A i \in 1 .. q : acc.line[i] = WordsOf(n)[i]
       ELSE acc.overflowed

Accumulators == [line : Seq(Tokens), overflowed : BOOLEAN]

\* The command a token completes.
Heard(acc, token) ==
  IF token # EOL THEN Nothing ELSE IF acc.overflowed THEN Rejected ELSE Parse(acc.line)

\* A token that does not end the line.
LEMMA WordFed ==
  ASSUME NEW acc \in Accumulators, NEW x \in Tokens, x # EOL
  PROVE  /\ Fed(acc, x) \in Accumulators
         /\ Heard(acc, x) = Nothing
         /\ Len(acc.line) < LineMax - 1 =>
              Fed(acc, x).line = Append(acc.line, x) /\ Fed(acc, x).overflowed = acc.overflowed
         /\ ~ (Len(acc.line) < LineMax - 1) => Fed(acc, x).overflowed
         /\ acc.overflowed => Fed(acc, x).overflowed
<1>1. acc.line \in Seq(Tokens) /\ acc.overflowed \in BOOLEAN
  BY DEF Accumulators
<1>2. Append(acc.line, x) \in Seq(Tokens)
  BY <1>1, AppendProperties
<1>3. CASE Len(acc.line) < LineMax - 1
  <2>1. Fed(acc, x) = [acc EXCEPT !.line = Append(acc.line, x)]
    BY <1>3 DEF Fed
  <2> QED BY <1>1, <1>2, <1>3, <2>1 DEF Accumulators, Heard
<1>4. CASE ~ (Len(acc.line) < LineMax - 1)
  <2>1. Fed(acc, x) = [acc EXCEPT !.overflowed = TRUE]
    BY <1>4 DEF Fed
  <2> QED BY <1>1, <1>4, <2>1 DEF Accumulators, Heard
<1> QED BY <1>3, <1>4

\* The end of a line.
LEMMA EndFed ==
  ASSUME NEW acc
  PROVE  /\ Fed(acc, EOL) \in Accumulators
         /\ Fed(acc, EOL).line = <<>> /\ ~Fed(acc, EOL).overflowed
         /\ Heard(acc, EOL) = IF acc.overflowed THEN Rejected ELSE Parse(acc.line)
<1>1. <<>> \in Seq(Tokens)
  BY EmptySeq
<1> QED BY <1>1 DEF Fed, Accumulators, Heard

\* The next token of an undamaged line.
LEMMA FedClean ==
  ASSUME NEW acc \in Accumulators, NEW m \in 1 .. Steps, NEW r \in 1 .. Length(m),
         NEW n \in 1 .. Steps, NEW q \in 1 .. Length(n), Follows(m, r, n, q),
         Accumulated(acc, m, r, FALSE)
  PROVE  /\ Accumulated(Fed(acc, Token(n, q)), n, q, FALSE)
         /\ q < Length(n) => Heard(acc, Token(n, q)) = Nothing
         /\ q = Length(n) => \/ Heard(acc, Token(n, q)) = Rejected /\ ~ Length(n) <= LineMax
                             \/ Heard(acc, Token(n, q)) = Meaning(n)
<1> DEFINE x == Token(n, q)
           f == Fed(acc, x)
<1>1. /\ Length(n) \in Nat /\ Length(n) >= 2 /\ Length(m) \in Nat /\ x \in Tokens
      /\ x = EOL <=> q = Length(n)
      /\ WordsOf(n) \in Seq(Tokens) /\ Len(WordsOf(n)) = Length(n) - 1
  BY LineShape DEF Length
<1>2. LineMax \in Nat /\ LineMax >= 2
  BY FirmwareAssumption
<1>3. acc.line \in Seq(Tokens) /\ acc.overflowed \in BOOLEAN /\ Len(acc.line) \in Nat
  BY LenProperties DEF Accumulators
<1>4. CASE q = 1
  <2>1. r = Length(m)
    BY <1>1, <1>4 DEF Follows
  <2>2. acc.line = <<>> /\ ~acc.overflowed
    BY <2>1 DEF Accumulated
  <2>3. x # EOL /\ x = WordsOf(n)[1] /\ Len(acc.line) = 0
    BY <1>1, <1>4, <2>2 DEF Token
  <2>4. f.line = Append(acc.line, x) /\ f.overflowed = acc.overflowed /\ Heard(acc, x) = Nothing
    BY <1>1, <1>2, <2>3, WordFed
  <2>5. Len(f.line) = 1 /\ f.line[1] = x
    BY <1>1, <1>3, <2>3, <2>4, AppendProperties
  <2> QED BY <1>1, <1>2, <1>4, <2>2, <2>3, <2>4, <2>5 DEF Accumulated
<1>5. CASE q # 1
  <2>1. m = n /\ r < Length(n) /\ q = r + 1 /\ r \in Nat
    BY <1>1, <1>5 DEF Follows
  <2>2. IF r < LineMax
        THEN ~acc.overflowed /\ Len(acc.line) = r /\ \A i \in 1 .. r : acc.line[i] = WordsOf(n)[i]
        ELSE acc.overflowed
    BY <1>1, <2>1 DEF Accumulated
  <2>3. CASE q < Length(n)
    <3>1. x # EOL /\ x = WordsOf(n)[q] /\ Heard(acc, x) = Nothing
      BY <1>1, <2>3, WordFed DEF Token
    <3>2. CASE q < LineMax
      <4>1. r < LineMax /\ Len(acc.line) < LineMax - 1 /\ Len(acc.line) = r
        BY <1>2, <2>1, <2>2, <3>2
      <4>2. f.line = Append(acc.line, x) /\ f.overflowed = acc.overflowed
        BY <1>1, <3>1, <4>1, WordFed
      <4>3. /\ Len(f.line) = q /\ f.line[q] = x
            /\ \A i \in 1 .. r : f.line[i] = acc.line[i]
        <5> DEFINE a == Append(acc.line, x)
        <5>1. /\ Len(a) = Len(acc.line) + 1 /\ a[Len(acc.line) + 1] = x
              /\ \A i \in 1 .. Len(acc.line) : a[i] = acc.line[i]
          BY <1>1, <1>3, AppendProperties
        <5> HIDE DEF a
        <5>2. f.line = a
          BY <4>2 DEF a
        <5> QED BY <2>1, <4>1, <5>1, <5>2
      <4>4. \A i \in 1 .. q : f.line[i] = WordsOf(n)[i]
        <5> TAKE i \in 1 .. q
        <5>1. i = q \/ i \in 1 .. r
          BY <2>1
        <5> QED BY <2>2, <3>1, <4>1, <4>3, <5>1
      <4> QED BY <1>1, <2>2, <2>3, <3>1, <3>2, <4>1, <4>2, <4>3, <4>4 DEF Accumulated
    <3>3. CASE ~ q < LineMax
      <4>1. acc.overflowed \/ ~ (Len(acc.line) < LineMax - 1)
        BY <1>2, <2>1, <2>2, <3>3
      <4>2. f.overflowed
        BY <1>1, <3>1, <4>1, WordFed
      <4> QED BY <1>1, <2>3, <3>1, <3>3, <4>2 DEF Accumulated
    <3> QED BY <3>2, <3>3
  <2>4. CASE q = Length(n)
    <3>1. x = EOL /\ f.line = <<>> /\ ~f.overflowed
          /\ Heard(acc, x) = IF acc.overflowed THEN Rejected ELSE Parse(acc.line)
      BY <1>1, <2>4, EndFed
    <3>2. CASE r < LineMax
      <4>1. acc.line = WordsOf(n)
        BY <1>1, <1>3, <2>1, <2>2, <2>4, <3>2, SeqEqual
      <4>2. Heard(acc, x) = Meaning(n)
        BY <2>2, <3>1, <3>2, <4>1, LineIsParsed
      <4> QED BY <1>1, <2>4, <3>1, <4>2 DEF Accumulated
    <3>3. CASE ~ r < LineMax
      <4>1. Heard(acc, x) = Rejected /\ ~ Length(n) <= LineMax
        BY <1>1, <1>2, <2>1, <2>2, <2>4, <3>1, <3>3
      <4> QED BY <1>1, <2>4, <3>1, <4>1 DEF Accumulated
    <3> QED BY <3>2, <3>3
  <2>5. q < Length(n) \/ q = Length(n)
    BY <1>1
  <2>6. ~ (q < Length(n) /\ q = Length(n))
    BY <1>1
  <2> HIDE DEF f, x
  <2> QED BY <2>3, <2>4, <2>5, <2>6
<1> QED BY <1>4, <1>5

\* The next token of a damaged line.
LEMMA FedDamaged ==
  ASSUME NEW acc \in Accumulators, NEW m \in 1 .. Steps, NEW r \in 1 .. Length(m),
         NEW n \in 1 .. Steps, NEW q \in 1 .. Length(n), Follows(m, r, n, q),
         Accumulated(acc, m, r, TRUE)
  PROVE  /\ \E b \in BOOLEAN : Accumulated(Fed(acc, Token(n, q)), n, q, b)
         /\ Heard(acc, Token(n, q)) \in {Nothing, Rejected}
<1> DEFINE x == Token(n, q)
           f == Fed(acc, x)
<1>1. /\ Length(n) \in Nat /\ Length(n) >= 2 /\ x \in Tokens /\ (x = EOL <=> q = Length(n))
  BY LineShape
<1>2. acc.line \in Seq(Tokens) /\ acc.overflowed \in BOOLEAN
  BY DEF Accumulators
<1>3. acc.overflowed \/ Hopeless(acc.line)
  BY DEF Accumulated
<1>4. CASE q = Length(n)
  <2>1. x = EOL /\ f.line = <<>> /\ ~f.overflowed
        /\ Heard(acc, x) = IF acc.overflowed THEN Rejected ELSE Parse(acc.line)
    BY <1>1, <1>4, EndFed
  <2>2. Heard(acc, x) = Rejected
    BY <1>2, <1>3, <2>1, HopelessIsRejected
  <2>3. Accumulated(f, n, q, FALSE)
    BY <1>1, <1>4, <2>1 DEF Accumulated
  <2> QED BY <2>2, <2>3
<1>5. CASE q # Length(n)
  <2>1. x # EOL /\ Heard(acc, x) = Nothing /\ q < Length(n)
    BY <1>1, <1>5, WordFed
  <2>2. f.overflowed \/ Hopeless(f.line)
    <3>1. CASE acc.overflowed \/ ~ (Len(acc.line) < LineMax - 1)
      BY <1>1, <2>1, <3>1, WordFed
    <3>2. CASE Hopeless(acc.line) /\ Len(acc.line) < LineMax - 1
      <4>1. f.line = Append(acc.line, x)
        BY <1>1, <2>1, <3>2, WordFed
      <4> QED BY <1>1, <1>2, <3>2, <4>1, HopelessGrows
    <3> QED BY <1>3, <3>1, <3>2
  <2>3. Accumulated(f, n, q, TRUE)
    BY <1>1, <2>1, <2>2 DEF Accumulated
  <2> QED BY <2>1, <2>3
<1> QED BY <1>4, <1>5

\* The token after the one that was lost, token y of the line of command l.
LEMMA FedAcross ==
  ASSUME NEW acc \in Accumulators, NEW m \in 1 .. Steps, NEW r \in 1 .. Length(m),
         NEW l \in 1 .. Steps, NEW y \in 1 .. Length(l), Follows(m, r, l, y),
         Token(l, y) \notin DOMAIN Digit,
         NEW n \in 1 .. Steps, NEW q \in 1 .. Length(n), Follows(l, y, n, q),
         Accumulated(acc, m, r, FALSE)
  PROVE  /\ \E b \in BOOLEAN : Accumulated(Fed(acc, Token(n, q)), n, q, b)
         /\ Heard(acc, Token(n, q)) \in {Nothing, Rejected}
<1> DEFINE x == Token(n, q)
           f == Fed(acc, x)
<1>1. /\ Length(n) \in Nat /\ Length(n) >= 2 /\ x \in Tokens /\ (x = EOL <=> q = Length(n))
      /\ Length(m) \in Nat /\ Length(m) >= 2
      /\ Length(l) \in Nat /\ Length(l) >= 2
      /\ WordsOf(l) \in Seq(Tokens) /\ Len(WordsOf(l)) = Length(l) - 1
      /\ WordsOf(n)[1] \in Openers /\ WordsOf(m)[1] \in Openers
      /\ \A j \in 2 .. Len(WordsOf(l)) :
           \/ WordsOf(l)[j] \in DOMAIN Digit
           \/ WordsOf(l)[j] \in {"on", "off"} /\ WordsOf(l)[1] = "loop" /\ Len(WordsOf(l)) = 2
  BY LineShape DEF Length
<1>2. LineMax \in Nat /\ LineMax >= 2
  BY FirmwareAssumption
<1>3. acc.line \in Seq(Tokens) /\ acc.overflowed \in BOOLEAN /\ Len(acc.line) \in Nat
  BY LenProperties DEF Accumulators
\* The end of a line: two lines in one.
<1>4. CASE y = Length(l)
  <2>1. q = 1 /\ x # EOL /\ x \in Openers /\ Heard(acc, x) = Nothing
    <3>1. q = 1
      BY <1>1, <1>4 DEF Follows
    <3>2. x # EOL /\ x = WordsOf(n)[1]
      BY <1>1, <3>1 DEF Token
    <3> QED BY <1>1, <3>1, <3>2, WordFed
  <2>2. m = l /\ r = Length(l) - 1
    BY <1>1, <1>4 DEF Follows
  <2>3. acc.overflowed \/ Len(acc.line) = r
    BY <1>1, <1>2, <2>2 DEF Accumulated
  <2>4. f.overflowed \/ Hopeless(f.line)
    <3>1. CASE acc.overflowed \/ ~ (Len(acc.line) < LineMax - 1)
      BY <1>1, <2>1, <3>1, WordFed
    <3>2. CASE Len(acc.line) = r /\ Len(acc.line) < LineMax - 1
      <4>1. f.line = Append(acc.line, x)
        BY <1>1, <2>1, <3>2, WordFed
      <4>2. /\ f.line # <<>> /\ Len(f.line) = r + 1 /\ f.line[r + 1] = x
        BY <1>1, <1>3, <3>2, <4>1, AppendProperties
      <4>3. r + 1 \in 2 .. Len(f.line)
        BY <1>1, <2>2, <4>2
      <4> QED BY <2>1, <4>2, <4>3 DEF Hopeless
    <3> QED BY <2>3, <3>1, <3>2
  <2>5. Accumulated(f, n, q, TRUE)
    BY <1>1, <2>1, <2>4 DEF Accumulated
  <2> QED BY <2>1, <2>5
\* The first word: the rest begins with none.
<1>5. CASE y = 1
  <2>1. r = Length(m) /\ n = l /\ q = 2
    <3>1. ~ r < Length(m)
      BY <1>1, <1>5 DEF Follows
    <3> QED BY <1>1, <1>5, <3>1 DEF Follows
  <2>2. acc.line = <<>> /\ ~acc.overflowed
    BY <2>1 DEF Accumulated
  <2>3. CASE q = Length(n)
    <3>1. x = EOL /\ f.line = <<>> /\ ~f.overflowed /\ Heard(acc, x) = Parse(<<>>)
      BY <1>1, <2>2, <2>3, EndFed
    <3>2. Accumulated(f, n, q, FALSE)
      BY <1>1, <2>3, <3>1 DEF Accumulated
    <3> QED BY <3>1, <3>2, EmptyLine
  <2>4. CASE q # Length(n)
    <3>1. x # EOL /\ x = WordsOf(n)[2] /\ 2 \in 2 .. Len(WordsOf(l)) /\ q < Length(n)
      BY <1>1, <2>1, <2>4 DEF Token
    <3>2. x \in {"on", "off"} \cup DOMAIN Digit
      BY <1>1, <2>1, <3>1
    <3>3. Len(acc.line) < LineMax - 1
      BY <1>2, <2>2
    <3>4. f.line = Append(acc.line, x) /\ Heard(acc, x) = Nothing
      BY <1>1, <3>1, <3>3, WordFed
    <3>5. f.line # <<>> /\ f.line[1] = x
      <4> DEFINE a == Append(acc.line, x)
      <4>1. a # <<>> /\ a[Len(acc.line) + 1] = x
        BY <1>1, <1>3, AppendProperties, SMTT(60)
      <4>2. Len(acc.line) + 1 = 1
        BY <2>2
      <4> HIDE DEF a
      <4>3. f.line = a
        BY <3>4 DEF a
      <4> QED BY <4>1, <4>2, <4>3
    <3>6. Accumulated(f, n, q, TRUE)
      BY <1>1, <3>1, <3>2, <3>5 DEF Accumulated, Hopeless
    <3> QED BY <3>4, <3>6
  <2> QED BY <2>3, <2>4
\* The second word of two: the first is left.
<1>6. CASE y # 1 /\ y # Length(l)
  <2>1. y \in 2 .. Len(WordsOf(l)) /\ Token(l, y) = WordsOf(l)[y]
    BY <1>1, <1>6 DEF Token
  <2>2. WordsOf(l)[1] = "loop" /\ Len(WordsOf(l)) = 2 /\ y = 2 /\ Length(l) = 3
    BY <1>1, <2>1
  <2>3. m = l /\ r = 1
    BY <1>1, <2>2 DEF Follows
  <2>4. n = l /\ q = 3
    BY <1>1, <2>2 DEF Follows
  <2>5. ~acc.overflowed /\ Len(acc.line) = 1 /\ acc.line[1] = "loop"
    BY <1>2, <2>2, <2>3 DEF Accumulated
  <2>6. acc.line = <<"loop">>
    BY <1>3, <2>5
  <2>7. x = EOL /\ f.line = <<>> /\ ~f.overflowed /\ Heard(acc, x) = Parse(<<"loop">>)
    BY <1>1, <2>2, <2>4, <2>5, <2>6, EndFed
  <2>8. Accumulated(f, n, q, FALSE)
    BY <1>1, <2>2, <2>4, <2>7 DEF Accumulated
  <2> QED BY <2>7, <2>8, LoopAlone
<1> QED BY <1>4, <1>5, <1>6

-----------------------------------------------------------------------------
(* The sorts of the variables.                                              *)

Numbers  == {DigitsValue(ds) : ds \in Seq(DOMAIN Digit)} \cup GovernorDuties \cup {0}
Readings == Numbers \cup SUBSET Numbers
Kinds    == {"loop on", "loop off", "pwm", "rpm", "pong", "err"}
Answers  == [kind : Kinds, arg : Readings]
Rows     == [duty : Numbers, rpm : Readings]

\* The ring and the line are never fuller than the arrays behind them.
FwTypeOK ==
  /\ wire \in Seq(Tokens)
  /\ ring \in Seq(Tokens) /\ Len(ring) < RingSize
  /\ rx \in Accumulators /\ Len(rx.line) < LineMax
  /\ phase \in {"service", "bypassed", "hold"}
  /\ bypass \in BOOLEAN /\ hostDuty \in Numbers /\ duty \in Numbers
  /\ published \in [duty : Numbers, rpm : SUBSET Numbers] /\ spanned \in SUBSET Numbers
  /\ answers \in Seq(Answers)
  /\ losses \in Nat /\ garbled \in BOOLEAN

ToolTypeOK ==
  /\ script \in Scripts /\ at \in 1 .. Len(script)
  /\ mode \in {"send", "wait", "dwell", "over"}
  /\ attempt \in 0 .. MaxAttempts /\ dwelling \in 0 .. Dwell
  /\ rows \in Seq(Rows)
  /\ said \in {"", "ok", "failed", "resumed"}
  /\ stopped \in BOOLEAN /\ haste \in 0 .. MaxHaste

BenchTypeOK == FwTypeOK /\ ToolTypeOK

\* The tokens of a command's line are tokens.
LEMMA ScriptLines ==
  ASSUME NEW s \in Scripts, NEW n \in 1 .. Len(s)
  PROVE  s[n].words \in Seq(Tokens)
<1>1. CASE s = Sweep
  BY <1>1, SweepLines, LineShape DEF WordsOf
<1>2. ASSUME NEW a, s = <<a>>, a.words \in Seq(Tokens) PROVE s[n].words \in Seq(Tokens)
  BY <1>2
<1>3. /\ <<"loop", "off">> \in Seq(Tokens) /\ <<"loop", "on">> \in Seq(Tokens)
      /\ <<"ping">> \in Seq(Tokens) /\ <<"pwmget">> \in Seq(Tokens) /\ <<"rpmget">> \in Seq(Tokens)
  BY DEF Tokens
<1>4. <<"pwmset">> \o Duties[1] \in Seq(Tokens)
  <2>1. 1 \in 1 .. Len(Duties)
    BY ToolAssumption, EmptySeq
  <2> QED BY <2>1, DutyWords, PwmSetLine
<1>5. ASSUME NEW a \in {LoopOff, LoopOn, Ask(<<"ping">>, "pong"), Ask(<<"pwmget">>, "pwm"),
                        Ask(<<"rpmget">>, "rpm"), Measure(Duties[1])[1]}
      PROVE  a.words \in Seq(Tokens)
  <2>1. ASSUME NEW w \in Seq(Tokens), NEW k, a = Ask(w, k) PROVE a.words \in Seq(Tokens)
    BY <2>1 DEF Ask
  <2>2. Measure(Duties[1])[1] = Ask(<<"pwmset">> \o Duties[1], "pwm")
    BY DEF Measure
  <2> QED BY <1>3, <1>4, <1>5, <2>1, <2>2 DEF LoopOff, LoopOn
<1> QED BY <1>1, <1>2, <1>5 DEF Scripts

\* A token is fed to the accumulator without making it too long.
LEMMA FedType ==
  ASSUME NEW acc \in Accumulators, Len(acc.line) < LineMax, NEW x \in Tokens
  PROVE  Fed(acc, x) \in Accumulators /\ Len(Fed(acc, x).line) < LineMax
<1>1. LineMax \in Nat /\ LineMax >= 2 /\ acc.line \in Seq(Tokens) /\ Len(acc.line) \in Nat
      /\ acc.overflowed \in BOOLEAN
  BY FirmwareAssumption, LenProperties DEF Accumulators
<1>2. CASE x = EOL
  <2>1. Len(<<>>) = 0
    OBVIOUS
  <2> QED BY <1>1, <1>2, <2>1, EndFed
<1>3. CASE x # EOL /\ Len(acc.line) < LineMax - 1
  <2>1. Fed(acc, x).line = Append(acc.line, x)
    BY <1>3, WordFed
  <2>2. Len(Append(acc.line, x)) = Len(acc.line) + 1
    BY <1>1, AppendProperties
  <2>3. Len(Fed(acc, x).line) < LineMax
    BY <1>1, <1>3, <2>1, <2>2
  <2> QED BY <1>3, <2>3, WordFed
<1>4. CASE x # EOL /\ ~ (Len(acc.line) < LineMax - 1)
  <2>1. Fed(acc, x).line = acc.line
    BY <1>4 DEF Fed, Accumulators
  <2> QED BY <1>4, <2>1, WordFed
<1> QED BY <1>2, <1>3, <1>4

\* The commands a line can be.
Commands ==
  {Command(t, 0) : t \in {"NONE", "PWMGET", "RPMGET", "PING", "LOOP_ON", "LOOP_OFF", "ERROR"}}
    \cup {Command("PWMSET", DigitsValue(ds)) : ds \in Seq(DOMAIN Digit)}

\* Nothing else is heard.
LEMMA HeardType ==
  ASSUME NEW acc \in Accumulators, NEW x
  PROVE  Heard(acc, x) \in Commands
<1> DEFINE s == acc.line
<1>1. s \in Seq(Tokens)
  BY DEF Accumulators
<1> HIDE DEF s
<1>2. ASSUME Len(s) > 1, IsDuty(Tail(s)) PROVE Tail(s) \in Seq(DOMAIN Digit)
  <2>1. s # <<>>
    BY <1>1, <1>2, EmptySeq
  <2>2. Tail(s) \in Seq(Tokens)
    BY <1>1, <2>1, HeadTailProperties
  <2>3. Len(Tail(s)) \in Nat /\ DOMAIN Tail(s) = 1 .. Len(Tail(s)) /\ Tail(s) \in [1 .. Len(Tail(s)) -> Tokens]
    BY <2>2, LenProperties
  <2>4. Tail(s) \in [1 .. Len(Tail(s)) -> DOMAIN Digit]
    BY <1>2, <2>3 DEF IsDuty
  <2> DEFINE t == Tail(s)
             S == DOMAIN Digit
  <2>5. t \in [1 .. Len(t) -> S] /\ Len(t) \in Nat
    BY <2>3, <2>4
  <2> HIDE DEF t, S
  <2>6. t \in Seq(S)
    BY <2>5, SeqDef
  <2> QED BY <2>6 DEF t, S
<1>3. Parse(s) \in Commands
  BY <1>2 DEF Parse, Commands
<1>4. Nothing \in Commands /\ Rejected \in Commands
  BY DEF Nothing, Rejected, Commands
<1> QED BY <1>3, <1>4 DEF Heard, s

\* The answer to a command has one of the kinds, and there is at most one.
LEMMA ReplyType ==
  ASSUME NEW cmd \in Commands, FwTypeOK
  PROVE  /\ Reply(cmd) \in Seq(Answers)
         /\ Obey(cmd) => hostDuty' \in Numbers /\ bypass' \in BOOLEAN
<1>1. published.duty \in Numbers /\ published.rpm \in SUBSET Numbers /\ hostDuty \in Numbers
      /\ bypass \in BOOLEAN
  BY DEF FwTypeOK
<1>2. 0 \in Numbers /\ \A ds \in Seq(DOMAIN Digit) : DigitsValue(ds) \in Numbers
  BY DEF Numbers
<1>3. \A k \in Kinds, v \in Readings : Answer(k, v) \in Seq(Answers)
  BY DEF Answer, Answers
<1>4. cmd.type = "PWMSET" => cmd.arg \in Numbers
  BY <1>2 DEF Commands, Command
<1>5. <<>> \in Seq(Answers)
  BY EmptySeq
<1>6. Reply(cmd) \in Seq(Answers)
  <2>1. /\ published.duty \in Readings /\ published.rpm \in Readings /\ 0 \in Readings
        /\ cmd.type = "PWMSET" => cmd.arg \in Readings
    BY <1>1, <1>2, <1>4 DEF Readings
  <2>2. cmd.type \in {"NONE", "PWMGET", "RPMGET", "PING", "LOOP_ON", "LOOP_OFF", "ERROR", "PWMSET"}
    BY DEF Commands, Command
  <2>3. {"loop on", "loop off", "pwm", "rpm", "pong", "err"} \subseteq Kinds
    BY DEF Kinds
  <2> QED BY <1>1, <1>3, <1>5, <2>1, <2>2, <2>3 DEF Reply
<1>7. Obey(cmd) => hostDuty' \in Numbers /\ bypass' \in BOOLEAN
  BY <1>1, <1>4 DEF Obey
<1> QED BY <1>6, <1>7

\* A byte of the receive ring.
LEMMA PollType ==
  ASSUME FwTypeOK, Poll
  PROVE  /\ FwTypeOK'
         /\ ring # <<>> /\ rx' = Fed(rx, Head(ring))
         /\ Obey(Heard(rx, Head(ring))) /\ answers' = answers \o Reply(Heard(rx, Head(ring)))
<1> DEFINE x == Head(ring)
           cmd == Heard(rx, x)
<1>1. ring # <<>> /\ ring' = Tail(ring) /\ rx' = Fed(rx, x) /\ Obey(cmd) /\ answers' = answers \o Reply(cmd)
      /\ UNCHANGED <<phase, duty, published, spanned, wire, losses, garbled>>
  BY DEF Poll, Heard, Nothing, Rejected
<1>2. x \in Tokens /\ Tail(ring) \in Seq(Tokens) /\ Len(Tail(ring)) = Len(ring) - 1
      /\ Len(ring) \in Nat /\ RingSize \in Nat
  BY <1>1, HeadTailProperties, LenProperties, FirmwareAssumption DEF FwTypeOK
<1>3. rx \in Accumulators /\ Len(rx.line) < LineMax
  BY DEF FwTypeOK
<1>4. cmd \in Commands
  BY <1>3, HeardType
<1> HIDE DEF cmd, x
<1>5. rx' \in Accumulators /\ Len(rx'.line) < LineMax
  BY <1>1, <1>2, <1>3, FedType
<1>6. Reply(cmd) \in Seq(Answers) /\ hostDuty' \in Numbers /\ bypass' \in BOOLEAN
  BY <1>1, <1>4, ReplyType
<1>7. answers' \in Seq(Answers)
  <2>1. answers \in Seq(Answers)
    BY DEF FwTypeOK
  <2> QED BY <1>1, <1>6, <2>1, ConcatProperties
<1>8. ring' \in Seq(Tokens) /\ Len(ring') < RingSize
  <2>1. Len(ring) < RingSize
    BY DEF FwTypeOK
  <2> QED BY <1>1, <1>2, <2>1
<1>9. FwTypeOK'
  BY <1>1, <1>5, <1>6, <1>7, <1>8 DEF FwTypeOK
<1> QED BY <1>1, <1>9 DEF cmd, x

\* The firmware's other steps.
LEMMA FirmwareType ==
  ASSUME FwTypeOK, Interrupt \/ Noise \/ Windows \/ WindowEnds
  PROVE  FwTypeOK'
<1>1. RingSize \in Nat /\ GovernorDuties \subseteq Numbers
  BY FirmwareAssumption DEF Numbers
<1>2. ASSUME wire # <<>>
      PROVE  Head(wire) \in Tokens /\ Tail(wire) \in Seq(Tokens)
  BY <1>2, HeadTailProperties DEF FwTypeOK
<1>3. \A x : Lose(x) => losses' \in Nat /\ garbled' \in BOOLEAN
  BY DEF Lose, FwTypeOK
<1>4. CASE Interrupt
  <2>1. wire # <<>> /\ wire' = Tail(wire) /\ UNCHANGED <<firmware, answers>>
    BY <1>4 DEF Interrupt
  <2>2. CASE Len(ring) < RingSize - 1
    <3>1. ring' = Append(ring, Head(wire)) /\ UNCHANGED <<losses, garbled>>
      BY <1>4, <2>2 DEF Interrupt
    <3>2. ring \in Seq(Tokens) /\ Len(ring) \in Nat
      BY LenProperties DEF FwTypeOK
    <3>3. ring' \in Seq(Tokens) /\ Len(ring') = Len(ring) + 1
      BY <1>2, <2>1, <3>1, <3>2, AppendProperties
    <3>4. Len(ring') < RingSize
      BY <1>1, <2>2, <3>2, <3>3
    <3> QED BY <1>2, <2>1, <3>1, <3>3, <3>4 DEF FwTypeOK, firmware
  <2>3. CASE ~ (Len(ring) < RingSize - 1)
    <3>1. ring' = ring /\ Lose(Head(wire))
      BY <1>4, <2>3 DEF Interrupt
    <3> QED BY <1>2, <1>3, <2>1, <3>1 DEF FwTypeOK, firmware
  <2> QED BY <2>2, <2>3
<1>5. CASE Noise
  <2>1. wire # <<>> /\ wire' = Tail(wire) /\ UNCHANGED <<firmware, ring, answers>> /\ Lose(Head(wire))
    BY <1>5 DEF Noise
  <2> QED BY <1>2, <1>3, <2>1 DEF FwTypeOK, firmware
<1>6. CASE BypassWindow
  <2>1. /\ duty' = hostDuty /\ spanned' = {hostDuty} /\ published' = [duty |-> hostDuty, rpm |-> spanned]
        /\ phase' = "bypassed" /\ UNCHANGED <<rx, bypass, hostDuty, line>>
    BY <1>6 DEF BypassWindow
  <2>2. hostDuty \in Numbers /\ spanned \in SUBSET Numbers
    BY DEF FwTypeOK
  <2>3. published' \in [duty : Numbers, rpm : SUBSET Numbers] /\ spanned' \in SUBSET Numbers
    BY <2>1, <2>2
  <2> QED BY <2>1, <2>2, <2>3 DEF FwTypeOK, line
<1>7. CASE Regulate
  <2>1. phase' = "hold" /\ UNCHANGED <<rx, bypass, hostDuty, line>>
    BY <1>7 DEF Regulate
  <2>2. PICK d \in GovernorDuties :
          duty' = d /\ spanned' = {duty, d} /\ published' = [duty |-> d, rpm |-> spanned]
    BY <1>7 DEF Regulate
  <2>3. d \in Numbers /\ duty \in Numbers /\ spanned \in SUBSET Numbers
    BY <1>1 DEF FwTypeOK
  <2>4. published' \in [duty : Numbers, rpm : SUBSET Numbers] /\ spanned' \in SUBSET Numbers
    BY <2>2, <2>3
  <2> QED BY <2>1, <2>2, <2>3, <2>4 DEF FwTypeOK, line
<1>8. CASE WindowEnds
  BY <1>8 DEF WindowEnds, FwTypeOK, line
<1> QED BY <1>4, <1>5, <1>6, <1>7, <1>8 DEF Windows

\* What can follow an answer, or none, in a sweep: the end, the first row,
\* the last command, or the next row's first or second command.
Right(answer) == answer.kind = Sweep[at].kind

Outcome(answer) ==
  \/ /\ at = Steps /\ at' = at /\ mode' = "over" /\ rows' = rows
     /\ said' = IF said = "failed" THEN said ELSE "resumed"
  \/ /\ at = 1 /\ rows' = rows
     /\ \/ at' = at /\ mode' = "over" /\ said' = "failed"
        \/ at' = Steps /\ mode' = "send" /\ said' \in {said, "failed"}
        \/ at' = 2 /\ mode' = "send" /\ said' = said /\ Right(answer)
  \/ /\ at \in 2 .. Steps - 1 /\ at % 2 = 0 /\ rows' = rows /\ said' = said
     /\ \/ at' = Steps /\ mode' = "send"
        \/ at' = at + 1 /\ mode' = "dwell" /\ Right(answer)
  \/ /\ at \in 2 .. Steps - 1 /\ at % 2 = 1 /\ mode' = "send" /\ said' = said
     /\ IF Right(answer)
        THEN /\ at' \in {Steps, at + 1}
             /\ rows' = Append(rows, [duty |-> Value(at - 1), rpm |-> answer.arg])
        ELSE at' = Steps /\ rows' = rows

\* Those are the cases.
LEMMA Outcomes ==
  ASSUME NEW answer, Sweeping, at \in 1 .. Steps, Conclude(answer)
  PROVE  /\ Outcome(answer)
         /\ attempt' = 0
         /\ dwelling' = IF mode' = "dwell" THEN Dwell ELSE 0
<1>1. script = Sweep /\ Len(script) = Steps /\ Current = Sweep[at] /\ Steps \in Nat /\ Steps >= 4
  BY SweepLines DEF Sweeping, Current
<1>2. attempt' = 0 /\ dwelling' = IF mode' = "dwell" THEN Dwell ELSE 0
  BY DEF Conclude, Settle
<1>3. CASE at = Steps
  <2>1. Sweep[at].kind = "loop on"
    BY <1>3, KindAt
  <2>2. End(IF said = "failed" THEN said ELSE "resumed")
    <3>1. at = Len(script) /\ at # 1 /\ ~ (at \in 2 .. Len(script) - 1)
      BY <1>1, <1>3
    <3> QED BY <3>1 DEF Conclude
  <2>3. rows' = rows
    BY <1>1, <2>1 DEF Conclude
  <2> QED BY <1>2, <1>3, <2>2, <2>3 DEF Outcome, End
<1>4. CASE at = 1
  <2>1. Sweep[at].kind = "loop off"
    BY <1>4, KindAt
  <2>2. rows' = rows
    BY <1>1, <2>1 DEF Conclude
  <2>3. CASE Right(answer)
    <3>1. GoFailed(Steps) \/ Go(IF stopped THEN Steps ELSE 2)
      BY <1>1, <1>4, <2>3 DEF Conclude, Right
    <3> QED BY <1>2, <1>4, <2>2, <2>3, <3>1 DEF Outcome, Go, GoFailed
  <2>4. CASE ~Right(answer)
    <3>1. End("failed")
      BY <1>1, <1>4, <2>4 DEF Conclude, Right
    <3> QED BY <1>2, <1>4, <2>2, <3>1 DEF Outcome, End
  <2> QED BY <2>3, <2>4
<1>5. CASE at \in 2 .. Steps - 1
  <2>1. at # 1 /\ at # Steps /\ at \in 2 .. Len(script) - 1
    BY <1>1, <1>5
  <2>2. CASE at % 2 = 0 /\ Sweep[at].kind = "pwm"
    <3>1. rows' = rows
      BY <1>1, <2>2 DEF Conclude
    <3>2. CASE Right(answer)
      <4>1. at' = at + 1 /\ mode' = "dwell" /\ said' = said
        BY <1>1, <2>1, <2>2, <3>2 DEF Conclude, Right
      <4> QED BY <1>2, <1>5, <2>2, <3>1, <3>2, <4>1 DEF Outcome
    <3>3. CASE ~Right(answer)
      <4>1. Go(Steps)
        BY <1>1, <2>1, <3>3 DEF Conclude, Right
      <4> QED BY <1>2, <1>5, <2>2, <3>1, <4>1 DEF Outcome, Go
    <3> QED BY <3>2, <3>3
  <2>3. CASE at % 2 = 1 /\ Sweep[at].kind = "rpm"
    <3>1. CASE Right(answer)
      <4>1. Go(IF stopped THEN Steps ELSE at + 1)
        BY <1>1, <2>1, <2>3, <3>1 DEF Conclude, Right
      <4>2. rows' = Append(rows, [duty |-> DigitsValue(Tail(Sweep[at - 1].words)), rpm |-> answer.arg])
        BY <1>1, <2>3, <3>1 DEF Conclude, Right
      <4>3. DigitsValue(Tail(Sweep[at - 1].words)) = Value(at - 1)
        <5>1. at - 1 \in 2 .. Steps - 1 /\ at - 1 \in 1 .. Steps /\ (at - 1) % 2 = 0
          BY <1>1, <1>5, <2>3
        <5>2. /\ WordsOf(at - 1) = <<"pwmset">> \o DutyAt(at - 1)
              /\ DutyAt(at - 1) \in Seq(DOMAIN Digit) /\ DutyAt(at - 1) # <<>>
          <6>1. at - 1 # 1 /\ at - 1 # Steps /\ (at - 1) % 2 # 1
            BY <1>1, <5>1
          <6> QED BY <5>1, <6>1, Places DEF Place
        <5>3. Tail(WordsOf(at - 1)) = DutyAt(at - 1)
          BY <5>2, PwmSetLine
        <5> QED BY <5>3 DEF WordsOf, Value
      <4>4. at' \in {Steps, at + 1} /\ mode' = "send" /\ said' = said
        BY <4>1 DEF Go
      <4>5. rows' = Append(rows, [duty |-> Value(at - 1), rpm |-> answer.arg])
        BY <4>2, <4>3
      <4> QED BY <1>2, <1>5, <2>3, <3>1, <4>4, <4>5 DEF Outcome
    <3>2. CASE ~Right(answer)
      <4>1. Go(Steps) /\ rows' = rows
        BY <1>1, <2>1, <3>2 DEF Conclude, Right
      <4>2. at' = Steps /\ mode' = "send" /\ said' = said /\ rows' = rows
        BY <4>1 DEF Go
      <4> QED BY <1>2, <1>5, <2>3, <3>2, <4>2 DEF Outcome
    <3> QED BY <3>1, <3>2
  <2> QED BY <1>1, <1>5, <2>1, <2>2, <2>3, Places DEF Place
<1>6. at \in 2 .. Steps - 1 \/ at = 1 \/ at = Steps
  BY <1>1
<1> QED BY <1>2, <1>3, <1>4, <1>5, <1>6

\* A single command ends with its answer.
LEMMA SingleOutcome ==
  ASSUME NEW answer, ~Sweeping, Conclude(answer)
  PROVE  /\ attempt' = 0 /\ dwelling' = IF mode' = "dwell" THEN Dwell ELSE 0
         /\ at' = at /\ mode' = "over" /\ said' \in {"ok", "failed"} /\ rows' = rows
<1>1. End(IF answer.kind = Current.kind THEN "ok" ELSE "failed")
  BY DEF Conclude
<1> QED BY <1>1 DEF Conclude, Settle, End

\* The numbers a user may choose.
LEMMA ToolNumbers == MaxAttempts \in Nat \ {0} /\ Dwell \in Nat \ {0} /\ MaxHaste \in Nat
BY ToolAssumption

\* Whatever is concluded, the tool's variables keep their sorts.
LEMMA ConcludeType ==
  ASSUME ToolTypeOK, NEW answer, answer.arg \in Readings, Conclude(answer),
         UNCHANGED <<script, stopped, haste>>
  PROVE  ToolTypeOK'
<1>1. MaxAttempts \in Nat /\ Dwell \in Nat
  BY ToolNumbers
<1>2. CASE ~Sweeping
  <2>1. /\ attempt' = 0 /\ dwelling' = IF mode' = "dwell" THEN Dwell ELSE 0
        /\ at' = at /\ mode' = "over" /\ said' \in {"ok", "failed"} /\ rows' = rows
    BY <1>2, SingleOutcome
  <2>2. attempt' \in 0 .. MaxAttempts /\ dwelling' \in 0 .. Dwell
    BY <1>1, <2>1
  <2> QED BY <2>1, <2>2 DEF ToolTypeOK
<1>3. CASE Sweeping
  <2>1. Len(script) = Steps /\ Steps \in Nat /\ Steps >= 4 /\ at \in 1 .. Steps
    BY <1>3, SweepLines DEF ToolTypeOK, Sweeping
  <2>2. /\ Outcome(answer) /\ attempt' = 0
        /\ dwelling' = IF mode' = "dwell" THEN Dwell ELSE 0
    BY <1>3, <2>1, Outcomes
  <2>3. at' \in 1 .. Steps
    BY <2>1, <2>2 DEF Outcome
  <2>4. rows' \in Seq(Rows)
    <3>1. CASE rows' = rows
      BY <3>1 DEF ToolTypeOK
    <3>2. CASE rows' = Append(rows, [duty |-> Value(at - 1), rpm |-> answer.arg])
               /\ at \in 2 .. Steps - 1 /\ at % 2 = 1
      <4>1. Value(at - 1) \in Numbers
        <5>1. at - 1 \in 2 .. Steps - 1
          BY <2>1, <3>2
        <5>2. (at - 1) \div 2 \in 1 .. Len(Duties)
          BY <5>1, SweepLines
        <5> QED BY <5>2, DutyWords DEF Value, DutyAt, Numbers
      <4> QED BY <3>2, <4>1, AppendProperties DEF ToolTypeOK, Rows
    <3> QED BY <2>2, <3>1, <3>2 DEF Outcome
  <2>5. mode' \in {"send", "dwell", "over"} /\ said' \in {"", "ok", "failed", "resumed"}
    BY <2>2 DEF Outcome, ToolTypeOK
  <2>6. attempt' \in 0 .. MaxAttempts /\ dwelling' \in 0 .. Dwell
    BY <1>1, <2>2
  <2>7. at' \in 1 .. Len(script')
    BY <2>1, <2>3
  <2> QED BY <2>4, <2>5, <2>6, <2>7 DEF ToolTypeOK
<1> QED BY <1>2, <1>3

\* The sorts of every variable of the firmware and the tool, for every run of
\* the tool and whatever the line loses; the receive ring and the line buffer
\* are never fuller than their arrays.
THEOREM BenchTypes == BenchSpec => []BenchTypeOK
<1>1. BenchInit => BenchTypeOK
  <2> SUFFICES ASSUME BenchInit PROVE BenchTypeOK
    OBVIOUS
  <2>1. RingSize \in Nat /\ RingSize > 1 /\ LineMax \in Nat /\ LineMax > 1
    BY FirmwareAssumption
  <2>2. FwTypeOK
    <3>1. <<>> \in Seq(Tokens) /\ <<>> \in Seq(Answers) /\ Len(<<>>) = 0
      BY EmptySeq
    <3>2. 0 \in Numbers /\ {} \in SUBSET Numbers /\ {0} \in SUBSET Numbers
      BY DEF Numbers
    <3>3. rx \in Accumulators /\ rx.line = <<>>
      BY <3>1 DEF BenchInit, FwInit, Accumulators
    <3>4. Len(ring) < RingSize /\ Len(rx.line) < LineMax
      <4>1. ring = <<>>
        BY DEF BenchInit, FwInit
      <4> QED BY <2>1, <3>1, <3>3, <4>1
    <3>5. published \in [duty : Numbers, rpm : SUBSET Numbers]
      BY <3>2 DEF BenchInit, FwInit
    <3> QED BY <3>1, <3>2, <3>3, <3>4, <3>5 DEF BenchInit, FwInit, FwTypeOK
  <2>3. ToolTypeOK
    <3>1. MaxAttempts \in Nat /\ Dwell \in Nat /\ MaxHaste \in Nat /\ <<>> \in Seq(Rows)
      BY ToolNumbers, EmptySeq
    <3>2. Len(script) \in Nat /\ Len(script) >= 1
      <4>1. CASE script = Sweep
        BY <4>1, SweepLines
      <4>2. CASE \E a : script = <<a>>
        BY <4>2
      <4> QED BY <4>1, <4>2 DEF BenchInit, Scripts
    <3>3. /\ at \in 1 .. Len(script) /\ attempt \in 0 .. MaxAttempts
          /\ dwelling \in 0 .. Dwell /\ haste \in 0 .. MaxHaste
      <4>1. at = 1 /\ attempt = 0 /\ dwelling = 0 /\ haste = 0
        BY DEF BenchInit
      <4> QED BY <3>1, <3>2, <4>1
    <3> QED BY <3>1, <3>3 DEF BenchInit, ToolTypeOK
  <2> QED BY <2>2, <2>3 DEF BenchTypeOK
<1>2. BenchTypeOK /\ [BenchNext]_benchVars => BenchTypeOK'
  <2> SUFFICES ASSUME FwTypeOK, ToolTypeOK, [BenchNext]_benchVars PROVE FwTypeOK' /\ ToolTypeOK'
    BY DEF BenchTypeOK
  <2>1. CASE SendAttempt
    <3>1. /\ wire' = wire \o Current.words \o <<EOL>>
          /\ mode' = "wait" /\ attempt' = attempt + 1 /\ attempt < MaxAttempts
          /\ UNCHANGED <<firmware, ring, answers, losses, garbled,
                         script, at, dwelling, rows, said, stopped, haste>>
      BY <2>1 DEF SendAttempt
    <3>2. Current.words \in Seq(Tokens) /\ <<EOL>> \in Seq(Tokens) /\ wire \in Seq(Tokens)
      <4>1. script[at].words \in Seq(Tokens)
        BY ScriptLines DEF ToolTypeOK
      <4>2. EOL \in Tokens
        BY DEF Tokens
      <4> QED BY <4>1, <4>2 DEF FwTypeOK, Current
    <3>3. wire' \in Seq(Tokens)
      BY <3>1, <3>2, ConcatProperties
    <3>4. attempt' \in 0 .. MaxAttempts
      <4>1. attempt \in 0 .. MaxAttempts
        BY DEF ToolTypeOK
      <4> QED BY <3>1, <4>1, ToolNumbers
    <3> QED BY <3>1, <3>3, <3>4 DEF FwTypeOK, ToolTypeOK, firmware
  <2>2. CASE TakeAnswer
    <3>1. /\ answers # <<>> /\ Conclude(Head(answers)) /\ answers' = Tail(answers)
          /\ UNCHANGED <<firmware, wire, ring, losses, garbled, script, stopped, haste>>
      BY <2>2 DEF TakeAnswer
    <3>2. Head(answers) \in Answers /\ Tail(answers) \in Seq(Answers)
      BY <3>1, HeadTailProperties DEF FwTypeOK
    <3>3. ToolTypeOK'
      BY <3>1, <3>2, ConcludeType DEF Answers
    <3> QED BY <3>1, <3>2, <3>3 DEF FwTypeOK, firmware
  <2>3. CASE GiveUp
    <3>1. Conclude([kind |-> "none", arg |-> 0]) /\ UNCHANGED <<fwVars, script, stopped, haste>>
      BY <2>3 DEF GiveUp
    <3>2. [kind |-> "none", arg |-> 0].arg \in Readings
      BY DEF Readings, Numbers
    <3>3. ToolTypeOK'
      BY <3>1, <3>2, ConcludeType
    <3> QED BY <3>1, <3>3 DEF FwTypeOK, fwVars, firmware, line
  <2>4. CASE DwellOver
    BY <2>4 DEF DwellOver, FwTypeOK, ToolTypeOK, fwVars, firmware, line
  <2>5. CASE Timeout
    <3>1. haste' \in 0 .. MaxHaste
      <4>1. haste \in Nat /\ haste' = haste + (IF Underway THEN 1 ELSE 0) /\ haste' <= MaxHaste
        <5>1. haste \in 0 .. MaxHaste
          BY DEF ToolTypeOK
        <5> QED BY <2>5, <5>1 DEF Timeout
      <4> QED BY <4>1, ToolNumbers
    <3> QED BY <2>5, <3>1 DEF Timeout, FwTypeOK, ToolTypeOK, fwVars, firmware, line
  <2>6. CASE Sigint
    BY <2>6 DEF Sigint, FwTypeOK, ToolTypeOK, fwVars, firmware, line
  <2>7. CASE FirmwareStep
    <3>1. UNCHANGED tool /\ (Interrupt \/ Noise \/ Poll \/ WindowEnds)
      BY <2>7 DEF FirmwareStep
    <3>2. FwTypeOK'
      BY <3>1, FirmwareType, PollType
    <3> QED BY <3>1, <3>2 DEF ToolTypeOK, tool
  <2>8. CASE WindowStarts
    <3>1. /\ Windows /\ dwelling' = IF dwelling > 0 THEN dwelling - 1 ELSE 0
          /\ UNCHANGED <<script, at, mode, attempt, rows, said, stopped, haste>>
      BY <2>8 DEF WindowStarts
    <3>2. dwelling' \in 0 .. Dwell
      <4>1. dwelling \in 0 .. Dwell
        BY DEF ToolTypeOK
      <4> QED BY <3>1, <4>1, ToolNumbers
    <3> QED BY <3>1, <3>2, FirmwareType DEF ToolTypeOK
  <2>9. CASE UNCHANGED benchVars
    BY <2>9 DEF benchVars, tool, fwVars, firmware, line, FwTypeOK, ToolTypeOK
  <2> QED BY <2>1, <2>2, <2>3, <2>4, <2>5, <2>6, <2>7, <2>8, <2>9 DEF BenchNext, ToolSteps
<1> QED BY <1>1, <1>2, PTL DEF BenchSpec

-----------------------------------------------------------------------------
(* A sweep over a line that loses at most one byte, and that no digit.      *)

Sound == losses <= 1 /\ ~garbled

\* What was written and not yet fed, and what was fed of a line.
Transit(c, p, g, damaged) ==
  /\ Stream(ring, wire, at, c, p, g)
  /\ damaged \in BOOLEAN /\ Accumulated(rx, c[0], p[0], damaged)
  /\ losses = 0 => g = 0 /\ ~damaged
  /\ g > 0 => ~damaged

\* The number of the token written last.
Final(g) == Count(ring, wire, g)

\* What the firmware can do at the end of a line of command n, or of what is
\* left of it, and its answer a.
Obeyed(n, a) ==
  \/ a.kind = "err" /\ UNCHANGED <<bypass, hostDuty>>
  \/ n = 1 /\ a.kind = "loop off" /\ bypass' = TRUE /\ UNCHANGED hostDuty
  \/ n = Steps /\ a.kind = "loop on" /\ bypass' = FALSE /\ UNCHANGED hostDuty
  \/ n \in 2 .. Steps - 1 /\ n % 2 = 0 /\ a.kind = "pwm" /\ UNCHANGED bypass /\ hostDuty' = Value(n)
  \/ n \in 2 .. Steps - 1 /\ n % 2 = 1 /\ a.kind = "rpm" /\ a.arg = published.rpm
     /\ UNCHANGED <<bypass, hostDuty>>

\* The fields of an answer, and what is appended to the answers.
LEMMA AnswerFields ==
  ASSUME NEW k, NEW v
  PROVE  \E a : Answer(k, v) = <<a>> /\ a.kind = k /\ a.arg = v
<1> DEFINE a == [kind |-> k, arg |-> v]
<1>1. a.kind = k /\ a.arg = v
  OBVIOUS
<1>2. Answer(k, v) = <<a>>
  BY DEF Answer
<1> QED BY <1>1, <1>2

\* An answer of a kind, and what is said of all such answers.
LEMMA SomeAnswer ==
  ASSUME NEW n, NEW cmd, NEW k, NEW v, Reply(cmd) = Answer(k, v),
         \A a : a.kind = k /\ a.arg = v => Obeyed(n, a)
  PROVE  \E a : Reply(cmd) = <<a>> /\ Obeyed(n, a)
<1>1. PICK a : Answer(k, v) = <<a>> /\ a.kind = k /\ a.arg = v
  BY AnswerFields
<1> QED BY <1>1

\* What the firmware does with a line of the sweep or with one that is none.
LEMMA ObeyedOf ==
  ASSUME NEW n \in 1 .. Steps, NEW cmd, cmd \in {Rejected, Meaning(n)}, Obey(cmd)
  PROVE  \E a : Reply(cmd) = <<a>> /\ Obeyed(n, a)
<1>1. Steps \in Nat /\ Steps >= 4
  BY SweepLines
<1>2. CASE cmd = Rejected
  <2>1. cmd.type = "ERROR"
    BY <1>2 DEF Rejected, Command
  <2>2. Reply(cmd) = Answer("err", 0) /\ UNCHANGED <<bypass, hostDuty>>
    BY <2>1 DEF Reply, Obey
  <2>3. \A a : a.kind = "err" => Obeyed(n, a)
    BY <2>2 DEF Obeyed
  <2> QED BY <2>2, <2>3, SomeAnswer
<1>3. CASE cmd = Meaning(n) /\ n = 1
  <2>1. cmd.type = "LOOP_OFF"
    BY <1>3 DEF Meaning, Command
  <2>2. Reply(cmd) = Answer("loop off", 0) /\ bypass' = TRUE /\ UNCHANGED hostDuty
    BY <2>1 DEF Reply, Obey
  <2>3. \A a : a.kind = "loop off" => Obeyed(n, a)
    BY <1>3, <2>2 DEF Obeyed
  <2> QED BY <2>2, <2>3, SomeAnswer
<1>4. CASE cmd = Meaning(n) /\ n = Steps
  <2>1. cmd.type = "LOOP_ON"
    BY <1>1, <1>4 DEF Meaning, Command
  <2>2. Reply(cmd) = Answer("loop on", 0) /\ bypass' = FALSE /\ UNCHANGED hostDuty
    BY <2>1 DEF Reply, Obey
  <2>3. \A a : a.kind = "loop on" => Obeyed(n, a)
    BY <1>4, <2>2 DEF Obeyed
  <2> QED BY <2>2, <2>3, SomeAnswer
<1>5. CASE cmd = Meaning(n) /\ n \in 2 .. Steps - 1 /\ n % 2 = 0
  <2>1. n # 1 /\ n # Steps
    BY <1>1, <1>5
  <2>2. cmd.type = "PWMSET" /\ cmd.arg = Value(n)
    BY <1>5, <2>1 DEF Meaning, Command
  <2>3. CASE bypass
    <3>1. Reply(cmd) = Answer("pwm", Value(n)) /\ UNCHANGED bypass /\ hostDuty' = Value(n)
      BY <2>2, <2>3 DEF Reply, Obey
    <3>2. \A a : a.kind = "pwm" => Obeyed(n, a)
      BY <1>5, <3>1 DEF Obeyed
    <3> QED BY <3>1, <3>2, SomeAnswer
  <2>4. CASE ~bypass
    <3>1. Reply(cmd) = Answer("err", 0) /\ UNCHANGED <<bypass, hostDuty>>
      BY <2>2, <2>4 DEF Reply, Obey
    <3>2. \A a : a.kind = "err" => Obeyed(n, a)
      BY <3>1 DEF Obeyed
    <3> QED BY <3>1, <3>2, SomeAnswer
  <2> QED BY <2>3, <2>4
<1>6. CASE cmd = Meaning(n) /\ n \in 2 .. Steps - 1 /\ n % 2 = 1
  <2>1. n # 1 /\ n # Steps /\ n % 2 # 0
    BY <1>1, <1>6
  <2>2. cmd.type = "RPMGET"
    BY <1>6, <2>1 DEF Meaning, Command
  <2>3. Reply(cmd) = Answer("rpm", published.rpm) /\ UNCHANGED <<bypass, hostDuty>>
    BY <2>2 DEF Reply, Obey
  <2>4. \A a : a.kind = "rpm" /\ a.arg = published.rpm => Obeyed(n, a)
    BY <1>6, <2>3 DEF Obeyed
  <2> QED BY <2>3, <2>4, SomeAnswer
<1>7. n = 1 \/ n = Steps \/ n \in 2 .. Steps - 1
  BY <1>1
<1> QED BY <1>2, <1>3, <1>4, <1>5, <1>6, <1>7, KindAt

\* A byte is fed: the run begins after it.
LEMMA PollTransit ==
  ASSUME FwTypeOK, at \in 1 .. Steps, at' = at, Poll,
         NEW c, NEW p, NEW g, NEW damaged, Transit(c, p, g, damaged)
  PROVE  \E d, q, h, b :
           /\ Transit(d, q, h, b)'
           /\ d[0] \in c[0] .. at /\ d[Final(h)'] = c[Final(g)] /\ d[0] <= c[Final(g)]
           /\ \/ answers' = answers /\ UNCHANGED <<bypass, hostDuty>>
              \/ \E a : answers' = answers \o <<a>> /\ Obeyed(d[0], a)
           /\ losses = 0 /\ LineMax > 2 /\ d[0] = Steps /\ q[0] = Length(Steps) => ~bypass'
<1> DEFINE x == Head(ring)
           n == Count(ring, wire, g)
<1>1. /\ ring # <<>> /\ ring' = Tail(ring) /\ rx' = Fed(rx, x)
      /\ Obey(Heard(rx, x)) /\ answers' = answers \o Reply(Heard(rx, x))
      /\ UNCHANGED <<wire, losses>>
  BY PollType DEF Poll
<1>2. /\ ring \in Seq(Tokens) /\ wire \in Seq(Tokens) /\ rx \in Accumulators
      /\ answers \in Seq(Answers) /\ losses \in Nat
  BY DEF FwTypeOK
<1>3. /\ Stream(ring, wire, at, c, p, g)
      /\ damaged \in BOOLEAN /\ Accumulated(rx, c[0], p[0], damaged)
      /\ losses = 0 => g = 0 /\ ~damaged
      /\ g > 0 => ~damaged
  BY DEF Transit
<1>4. PICK s, h, d, q :
         /\ (g = 0 /\ s = 1 /\ h = 0) \/ (g = 1 /\ s = 2 /\ h = 0) \/ (g > 1 /\ s = 1 /\ h = g - 1)
         /\ s \in 1 .. n
         /\ Count(Tail(ring), wire, h) = n - s /\ Count(Tail(ring), wire, h) \in Nat
         /\ \A i \in 0 .. Count(Tail(ring), wire, h) : d[i] = c[i + s] /\ q[i] = p[i + s]
         /\ x = Token(c[s], p[s])
         /\ Stream(Tail(ring), wire, at, d, q, h)
  BY <1>1, <1>2, <1>3, ByteFed
<1> DEFINE k == Count(Tail(ring), wire, h)
           u == c[s]
           v == p[s]
<1>5. /\ n \in Nat /\ g \in 0 .. n /\ \A i, j \in 0 .. n : i <= j => c[i] <= c[j]
      /\ c \in [0 .. n -> 1 .. at] /\ p \in [0 .. n -> Nat]
      /\ \A i \in 0 .. n : p[i] \in 1 .. Length(c[i])
      /\ \A i \in 1 .. n : Follows(c[i - 1], p[i - 1], c[i], p[i])
      /\ g > 0 => Token(c[g], p[g]) \notin DOMAIN Digit
  BY <1>2, <1>3, Onward DEF Stream
<1> HIDE DEF n, k
<1>6. k = n - s /\ k \in Nat /\ s \in 1 .. n /\ \A i \in 0 .. k : d[i] = c[i + s] /\ q[i] = p[i + s]
  BY <1>4 DEF k
<1>7. d[0] = u /\ q[0] = v /\ d[k] = c[n]
  <2>1. 0 \in 0 .. k /\ k \in 0 .. k /\ 0 + s = s /\ k + s = n
    BY <1>5, <1>6
  <2> QED BY <1>6, <2>1
<1> HIDE DEF x
<1>8. Steps \in Nat /\ \A i \in 0 .. n : c[i] \in 1 .. Steps
  <2>1. Steps \in Nat /\ 1 .. at \subseteq 1 .. Steps
    BY SweepLines
  <2> QED BY <1>5, <2>1
<1>9. /\ c[0] \in 1 .. Steps /\ p[0] \in 1 .. Length(c[0])
      /\ u \in 1 .. Steps /\ v \in 1 .. Length(u)
      /\ d[0] \in c[0] .. at /\ d[0] <= c[n]
  <2>1. 0 \in 0 .. n /\ s \in 0 .. n /\ n \in 0 .. n /\ 0 <= s /\ s <= n
    BY <1>5, <1>6
  <2>2. c[0] <= u /\ u <= c[n] /\ c[0] \in 1 .. at /\ u \in 1 .. at
    BY <1>5, <2>1
  <2>3. p[0] \in 1 .. Length(c[0]) /\ v \in 1 .. Length(u)
    BY <1>5, <2>1
  <2>4. c[0] \in 1 .. Steps /\ u \in 1 .. Steps
    BY <1>8, <2>1
  <2> HIDE DEF u, v
  <2> QED BY <1>7, <2>1, <2>2, <2>3, <2>4
<1>17. x = Token(u, v) /\ x = Head(ring)
  BY <1>4 DEF x
<1>18. g = 0 => h = 0
  BY <1>4
<1> HIDE DEF u, v
<1>10. \E b \in BOOLEAN :
         /\ Accumulated(Fed(rx, x), u, v, b)
         /\ h > 0 => ~b
         /\ g = 0 /\ ~damaged => ~b
         /\ Heard(rx, x) \in {Nothing, Rejected, Meaning(u)}
         /\ g = 0 /\ ~damaged /\ Length(u) <= LineMax /\ v = Length(u) =>
              Heard(rx, x) = Meaning(u)
  <2>1. CASE g # 1 /\ ~damaged
    <3>1. Follows(c[0], p[0], u, v)
      <4>1. s = 1 /\ 1 \in 1 .. n /\ 1 - 1 = 0
        BY <1>4, <1>6, <2>1
      <4>2. Follows(c[1 - 1], p[1 - 1], c[1], p[1])
        BY <1>5, <4>1
      <4> QED BY <4>1, <4>2 DEF u, v
    <3>2. /\ Accumulated(Fed(rx, x), u, v, FALSE)
          /\ v < Length(u) => Heard(rx, x) = Nothing
          /\ v = Length(u) => \/ Heard(rx, x) = Rejected /\ ~ Length(u) <= LineMax
                              \/ Heard(rx, x) = Meaning(u)
      <4> DEFINE m == c[0]
                 r == p[0]
      <4>1. Accumulated(rx, m, r, FALSE)
        BY <1>3, <2>1
      <4>2. m \in 1 .. Steps /\ r \in 1 .. Length(m) /\ Follows(m, r, u, v)
        BY <1>9, <3>1
      <4>3. u \in 1 .. Steps /\ v \in 1 .. Length(u) /\ rx \in Accumulators
        BY <1>2, <1>9
      <4> HIDE DEF m, r
      <4>4. Accumulated(Fed(rx, Token(u, v)), u, v, FALSE)
        BY <4>1, <4>2, <4>3, FedClean
      <4>5. v < Length(u) => Heard(rx, Token(u, v)) = Nothing
        BY <4>1, <4>2, <4>3, FedClean
      <4>6. v = Length(u) => \/ Heard(rx, Token(u, v)) = Rejected /\ ~ Length(u) <= LineMax
                             \/ Heard(rx, Token(u, v)) = Meaning(u)
        BY <4>1, <4>2, <4>3, FedClean
      <4> QED BY <1>17, <4>4, <4>5, <4>6
    <3>3. v < Length(u) \/ v = Length(u)
      BY <1>9, LineShape
    <3> QED BY <1>18, <3>2, <3>3
  <2>2. CASE damaged
    <3>1. g = 0 /\ s = 1 /\ h = 0
      BY <1>3, <1>4, <1>5, <1>18, <2>2
    <3>2. Follows(c[0], p[0], u, v)
      <4>1. 1 \in 1 .. n /\ 1 - 1 = 0
        BY <1>6, <3>1
      <4>2. Follows(c[1 - 1], p[1 - 1], c[1], p[1])
        BY <1>5, <4>1
      <4> QED BY <3>1, <4>1, <4>2 DEF u, v
    <3>3. Accumulated(rx, c[0], p[0], TRUE)
      BY <1>3, <2>2
    <3>4. /\ \E b \in BOOLEAN : Accumulated(Fed(rx, x), u, v, b)
          /\ Heard(rx, x) \in {Nothing, Rejected}
      BY <1>2, <1>9, <1>17, <3>2, <3>3, FedDamaged
    <3> QED BY <2>2, <3>1, <3>4
  <2>3. CASE g = 1 /\ ~damaged
    <3>1. s = 2 /\ h = 0 /\ 1 \in 1 .. n /\ 2 \in 1 .. n /\ 1 \in 0 .. n
      BY <1>4, <1>5, <1>6, <2>3
    <3>2. Follows(c[0], p[0], c[1], p[1]) /\ Follows(c[1], p[1], u, v)
      <4>1. Follows(c[1 - 1], p[1 - 1], c[1], p[1]) /\ Follows(c[2 - 1], p[2 - 1], c[2], p[2])
        BY <1>5, <3>1
      <4>2. 1 - 1 = 0 /\ 2 - 1 = 1
        OBVIOUS
      <4> QED BY <3>1, <4>1, <4>2 DEF u, v
    <3>3. c[1] \in 1 .. Steps /\ p[1] \in 1 .. Length(c[1]) /\ Token(c[1], p[1]) \notin DOMAIN Digit
      BY <1>5, <1>8, <2>3, <3>1
    <3>4. Accumulated(rx, c[0], p[0], FALSE)
      BY <1>3, <2>3
    <3>5. /\ \E b \in BOOLEAN : Accumulated(Fed(rx, x), u, v, b)
          /\ Heard(rx, x) \in {Nothing, Rejected}
      <4> DEFINE m == c[0]
                 r == p[0]
                 l == c[1]
                 y == p[1]
      <4>1. /\ m \in 1 .. Steps /\ r \in 1 .. Length(m) /\ Follows(m, r, l, y)
            /\ Accumulated(rx, m, r, FALSE)
        BY <1>9, <3>2, <3>4
      <4>2. /\ l \in 1 .. Steps /\ y \in 1 .. Length(l) /\ Follows(l, y, u, v)
            /\ Token(l, y) \notin DOMAIN Digit
        BY <3>2, <3>3
      <4>3. u \in 1 .. Steps /\ v \in 1 .. Length(u) /\ rx \in Accumulators
        BY <1>2, <1>9
      <4> HIDE DEF m, r, l, y
      <4>4. /\ \E b \in BOOLEAN : Accumulated(Fed(rx, Token(u, v)), u, v, b)
            /\ Heard(rx, Token(u, v)) \in {Nothing, Rejected}
        BY <4>1, <4>2, <4>3, FedAcross
      <4> QED BY <1>17, <4>4
    <3> QED BY <2>3, <3>1, <3>5
  <2> QED BY <1>3, <2>1, <2>2, <2>3
<1>11. PICK b \in BOOLEAN :
         /\ Accumulated(Fed(rx, x), u, v, b)
         /\ h > 0 => ~b
         /\ g = 0 /\ ~damaged => ~b
         /\ Heard(rx, x) \in {Nothing, Rejected, Meaning(u)}
         /\ g = 0 /\ ~damaged /\ Length(u) <= LineMax /\ v = Length(u) =>
              Heard(rx, x) = Meaning(u)
  BY <1>10
<1>12. Transit(d, q, h, b)'
  <2>1. Stream(ring', wire', at', d, q, h)
    BY <1>1, <1>4
  <2>2. Accumulated(rx', d[0], q[0], b)
    BY <1>1, <1>7, <1>11
  <2>3. losses' = 0 => h = 0 /\ ~b
    BY <1>1, <1>3, <1>11, <1>18
  <2>4. b \in BOOLEAN /\ (h > 0 => ~b)
    BY <1>11
  <2> QED BY <2>1, <2>2, <2>3, <2>4 DEF Transit
<1>13. Final(h)' = k /\ Final(g) = n
  BY <1>1 DEF Final, k, n
<1>14. \/ answers' = answers /\ UNCHANGED <<bypass, hostDuty>>
       \/ \E a : answers' = answers \o <<a>> /\ Obeyed(d[0], a)
  <2>1. CASE Heard(rx, x) = Nothing
    <3>1. Nothing.type = "NONE"
      BY DEF Nothing, Command
    <3>2. Reply(Nothing) = <<>>
      BY <3>1 DEF Reply
    <3>3. Obey(Nothing) => UNCHANGED <<bypass, hostDuty>>
      BY <3>1 DEF Obey
    <3>4. answers \o <<>> = answers
      BY <1>2, ConcatEmptySeq
    <3> QED BY <1>1, <2>1, <3>2, <3>3, <3>4 DEF x
  <2>2. CASE Heard(rx, x) \in {Rejected, Meaning(u)}
    <3>1. \E a : Reply(Heard(rx, x)) = <<a>> /\ Obeyed(u, a)
      BY <1>1, <1>9, <2>2, ObeyedOf DEF x
    <3> QED BY <1>1, <1>7, <3>1 DEF x
  <2> QED BY <1>11, <2>1, <2>2
<1>15. losses = 0 /\ LineMax > 2 /\ d[0] = Steps /\ q[0] = Length(Steps) => ~bypass'
  <2> SUFFICES ASSUME losses = 0, LineMax > 2, d[0] = Steps, q[0] = Length(Steps) PROVE ~bypass'
    OBVIOUS
  <2>1. Length(Steps) = 3
    <3>1. Sweep[Steps] = Ask(<<"loop", "on">>, "loop on")
      BY SweepLines DEF LoopOn
    <3>3. WordsOf(Steps) = <<"loop", "on">>
      BY <3>1, AskFields, ZenonT(60)
    <3>2. Len(WordsOf(Steps)) = 2
      BY <3>3
    <3> QED BY <3>2 DEF Length
  <2>2. Length(u) <= LineMax /\ v = Length(u)
    BY <1>7, <2>1, FirmwareAssumption
  <2>3. Heard(rx, x) = Meaning(Steps)
    BY <1>3, <1>7, <1>11, <2>2
  <2>4. Meaning(Steps).type = "LOOP_ON"
    BY SweepLines DEF Meaning, Command
  <2> QED BY <1>1, <2>3, <2>4 DEF Obey
<1>16. /\ d[0] \in c[0] .. at /\ d[Final(h)'] = c[Final(g)] /\ d[0] <= c[Final(g)]
  BY <1>7, <1>9, <1>13
<1> HIDE DEF k, n
<1> QED BY <1>12, <1>14, <1>15, <1>16

-----------------------------------------------------------------------------
(* What is known while the sweep runs: A[i] is the command the i-th answer   *)
(* on the way is to.                                                        *)

\* Answers come in order, and none is older than the command before.
Labelled(c, A) ==
  /\ A \in [1 .. Len(answers) -> 1 .. at]
  /\ \A i \in 1 .. Len(answers) : A[i] <= c[0] /\ answers[i].kind \in {Sweep[A[i]].kind, "err"}
  /\ \A i, j \in 1 .. Len(answers) : i <= j => A[i] <= A[j]
  /\ at < Steps => c[0] >= at - 1 /\ \A i \in 1 .. Len(answers) : A[i] >= at - 1

\* The answer to a command tells that the firmware has obeyed it.
Setting(A) ==
  /\ at = 1 => \A i \in 1 .. Len(answers) : answers[i].kind = "loop off" => bypass
  /\ at \in 2 .. Steps - 1 => bypass
  /\ at \in 2 .. Steps - 1 /\ at % 2 = 0 =>
       \A i \in 1 .. Len(answers) : A[i] = at /\ answers[i].kind = "pwm" => hostDuty = Value(at)
  /\ at \in 2 .. Steps - 1 /\ at % 2 = 1 =>
       /\ hostDuty = Value(at - 1)
       /\ Dwell > 1 => \A i \in 1 .. Len(answers) :
            A[i] = at /\ answers[i].kind = "rpm" => answers[i].arg = {Value(at - 1)}

\* What a dwell waits for, and that nothing is asked in it.
Dwelling(c, g) ==
  /\ mode = "dwell" => at \in 2 .. Steps - 1 /\ at % 2 = 1 /\ c[Final(g)] <= at - 1
  /\ at \in 2 .. Steps - 1 /\ at % 2 = 1 =>
       /\ mode # "dwell" => dwelling = 0
       /\ dwelling < Dwell => spanned = {hostDuty}
       /\ dwelling < Dwell - 1 => published.rpm = {hostDuty}

\* How the last command gets through.
Resuming(c, p, g) ==
  losses = 0 /\ LineMax > 2 =>
    /\ c[0] = Steps /\ p[0] = Length(Steps) => ~bypass
    /\ at = Steps /\ attempt > 0 => c[Final(g)] = Steps
    /\ said = "resumed" /\ ~stopped => at = Steps /\ c[Final(g)] = Steps

Evidence(c, p, g, damaged, A) ==
  /\ Transit(c, p, g, damaged) /\ Labelled(c, A) /\ Setting(A)
  /\ Dwelling(c, g) /\ Resuming(c, p, g)

\* What is true of the tool whatever is lost.
Manners ==
  /\ mode = "wait" => attempt > 0
  /\ said = "resumed" => mode = "over" /\ Sweeping
  /\ losses = 0 => ~garbled

\* Where the sweep is.
LEMMA Whereabouts ==
  ASSUME ToolTypeOK, Sweeping
  PROVE  /\ Steps \in Nat /\ Steps >= 4 /\ Len(script) = Steps /\ at \in 1 .. Steps
         /\ Current = Sweep[at] /\ Current.words = WordsOf(at)
<1>1. script = Sweep /\ Len(Sweep) = Steps /\ Steps \in Nat /\ Steps >= 4
  BY SweepLines DEF Sweeping
<1> QED BY <1>1 DEF ToolTypeOK, Current, WordsOf

\* A line is written.
LEMMA SendKeeps ==
  ASSUME FwTypeOK, ToolTypeOK, Manners, Sweeping, SendAttempt,
         NEW c, NEW p, NEW g, NEW b, NEW A, Evidence(c, p, g, b, A)
  PROVE  \E d, q : Evidence(d, q, g, b, A)'
<1>1. /\ mode = "send" /\ mode' = "wait" /\ attempt' = attempt + 1 /\ ~stopped
      /\ UNCHANGED <<rx, phase, bypass, hostDuty, duty, published, spanned, ring, answers, losses,
                     garbled, script, at, dwelling, rows, said, stopped, haste>>
  BY DEF SendAttempt, firmware
<1>2. /\ Steps \in Nat /\ Steps >= 4 /\ at \in 1 .. Steps /\ Current.words = WordsOf(at)
  BY Whereabouts
<1>3. wire' = wire \o WordsOf(at) \o <<EOL>>
  BY <1>2 DEF SendAttempt
<1>4. ring \in Seq(Tokens) /\ wire \in Seq(Tokens)
  BY DEF FwTypeOK
<1>5. /\ Stream(ring, wire, at, c, p, g) /\ Accumulated(rx, c[0], p[0], b)
      /\ b \in BOOLEAN
      /\ losses = 0 => g = 0 /\ ~b
      /\ g > 0 => ~b
  BY DEF Evidence, Transit
<1>6. PICK d, q : /\ d[0] = c[0] /\ q[0] = p[0]
                  /\ d[Count(ring, wire', g)] = at
                  /\ Stream(ring, wire', at, d, q, g)
  BY <1>2, <1>3, <1>4, <1>5, LineSent
<1>7. Transit(d, q, g, b)'
  <2>1. Stream(ring', wire', at', d, q, g) /\ Accumulated(rx', d[0], q[0], b)
    BY <1>1, <1>5, <1>6
  <2>2. losses' = 0 => g = 0 /\ ~b
    BY <1>1, <1>5
  <2> QED BY <1>5, <2>1, <2>2 DEF Transit
<1>8. d[Final(g)'] = at
  BY <1>1, <1>6 DEF Final
<1>9. Labelled(d, A)'
  <2>1. Labelled(c, A)
    BY DEF Evidence
  <2> QED BY <1>1, <1>6, <2>1 DEF Labelled
<1>10. Setting(A)'
  BY <1>1 DEF Evidence, Setting
<1>11. Dwelling(d, g)'
  BY <1>1 DEF Evidence, Dwelling
<1>12. Resuming(d, q, g)'
  <2>1. Resuming(c, p, g) /\ said # "resumed"
    BY <1>1 DEF Evidence, Manners
  <2> QED BY <1>1, <1>6, <1>8, <2>1 DEF Resuming
<1> QED BY <1>7, <1>9, <1>10, <1>11, <1>12 DEF Evidence

\* A byte enters the ring, or it is the one that is lost.
LEMMA LineKeeps ==
  ASSUME FwTypeOK, ToolTypeOK, Manners, Sweeping, Interrupt \/ Noise, UNCHANGED tool, Sound',
         NEW c, NEW p, NEW g, NEW b, NEW A, Evidence(c, p, g, b, A)
  PROVE  \E h : Evidence(c, p, h, b, A)'
<1>1. /\ wire # <<>> /\ wire' = Tail(wire)
      /\ UNCHANGED <<rx, phase, bypass, hostDuty, duty, published, spanned, answers,
                     script, at, mode, attempt, dwelling, rows, said, stopped, haste>>
      /\ \/ ring' = Append(ring, Head(wire)) /\ UNCHANGED <<losses, garbled>>
         \/ ring' = ring /\ Lose(Head(wire))
  BY DEF Interrupt, Noise, firmware, tool
<1>2. ring \in Seq(Tokens) /\ wire \in Seq(Tokens) /\ losses \in Nat /\ at \in 1 .. Steps
  BY Whereabouts DEF FwTypeOK
<1>3. /\ Stream(ring, wire, at, c, p, g) /\ Accumulated(rx, c[0], p[0], b)
      /\ b \in BOOLEAN
      /\ losses = 0 => g = 0 /\ ~b
      /\ g > 0 => ~b
  BY DEF Evidence, Transit
<1>4. /\ Head(wire) \in Tokens /\ Tail(wire) \in Seq(Tokens) /\ Len(Tail(wire)) = Len(wire) - 1
      /\ Len(wire) \in Nat /\ Len(ring) \in Nat
  BY <1>1, <1>2, HeadTailProperties, LenProperties
<1>5. Labelled(c, A)' /\ Setting(A)'
  BY <1>1 DEF Evidence, Labelled, Setting
<1>6. ASSUME NEW h, Final(h)' = Final(g), losses' = 0 => losses = 0
      PROVE  Dwelling(c, h)' /\ Resuming(c, p, h)'
  BY <1>1, <1>6 DEF Evidence, Dwelling, Resuming
<1>7. CASE ring' = Append(ring, Head(wire)) /\ UNCHANGED <<losses, garbled>>
  <2>1. Stream(ring', wire', at, c, p, g)
    BY <1>1, <1>2, <1>3, <1>7, ByteMoved
  <2>2. Transit(c, p, g, b)'
    <3>1. Stream(ring', wire', at', c, p, g) /\ Accumulated(rx', c[0], p[0], b)
      BY <1>1, <1>3, <2>1
    <3>2. losses' = 0 => g = 0 /\ ~b
      BY <1>3, <1>7
    <3> QED BY <1>3, <3>1, <3>2 DEF Transit
  <2>3. Final(g)' = Final(g)
    <3>1. Len(ring') = Len(ring) + 1 /\ Len(wire') = Len(wire) - 1
      BY <1>1, <1>2, <1>4, <1>7, AppendProperties
    <3> QED BY <1>4, <3>1 DEF Final, Count
  <2> QED BY <1>5, <1>6, <1>7, <2>2, <2>3 DEF Evidence
<1>8. CASE ring' = ring /\ Lose(Head(wire))
  <2>0. PICK h \in Nat : h = Len(ring) + 1
    BY <1>4
  <2>1. losses' = losses + 1 /\ losses = 0 /\ Head(wire) \notin DOMAIN Digit
    <3>1. losses' = losses + 1 /\ losses' <= 1
      BY <1>8 DEF Lose, Sound
    <3>2. garbled' = (garbled \/ Head(wire) \in DOMAIN Digit) /\ ~garbled'
      BY <1>8 DEF Lose, Sound
    <3>3. losses = 0
      BY <1>2, <3>1
    <3>4. Head(wire) \notin DOMAIN Digit
      BY <3>2
    <3> QED BY <3>1, <3>3, <3>4
  <2>2. g = 0 /\ ~b
    BY <1>3, <2>1
  <2>3. Stream(ring, Tail(wire), at, c, p, h)
    BY <1>1, <1>2, <1>3, <2>0, <2>1, <2>2, ByteLost
  <2>4. Transit(c, p, h, b)'
    <3>1. Stream(ring', wire', at', c, p, h) /\ Accumulated(rx', c[0], p[0], b)
      BY <1>1, <1>3, <1>8, <2>3
    <3>2. losses' # 0
      BY <2>1
    <3> QED BY <1>3, <2>2, <3>1, <3>2 DEF Transit
  <2>5. Final(h)' = Final(g)
    <3>1. Len(ring') = Len(ring) /\ Len(wire') = Len(wire) - 1 /\ h # 0
      BY <1>1, <1>4, <1>8, <2>0
    <3> QED BY <1>4, <2>2, <3>1 DEF Final, Count
  <2>6. losses' = 0 => losses = 0
    BY <2>1
  <2> QED BY <1>5, <1>6, <2>4, <2>5, <2>6 DEF Evidence
<1> QED BY <1>1, <1>7, <1>8

\* A byte is fed, and what it completes is obeyed and answered.
LEMMA PollKeeps ==
  ASSUME FwTypeOK, FwTypeOK', ToolTypeOK, Manners, Sweeping, Poll, UNCHANGED tool,
         NEW c, NEW p, NEW g, NEW b, NEW A, Evidence(c, p, g, b, A)
  PROVE  \E d, q, h, e, B : Evidence(d, q, h, e, B)'
<1>1. /\ UNCHANGED <<phase, duty, published, spanned, wire, losses, garbled,
                     script, at, mode, attempt, dwelling, rows, said, stopped, haste>>
  BY DEF Poll, tool
<1>2. /\ Steps \in Nat /\ Steps >= 4 /\ at \in 1 .. Steps /\ at' = at
  BY <1>1, Whereabouts
<1>3. Transit(c, p, g, b) /\ Labelled(c, A) /\ Setting(A) /\ Dwelling(c, g) /\ Resuming(c, p, g)
  BY DEF Evidence
<1>4. PICK d, q, h, e :
        /\ Transit(d, q, h, e)'
        /\ d[0] \in c[0] .. at /\ d[Final(h)'] = c[Final(g)] /\ d[0] <= c[Final(g)]
        /\ \/ answers' = answers /\ UNCHANGED <<bypass, hostDuty>>
           \/ \E a : answers' = answers \o <<a>> /\ Obeyed(d[0], a)
        /\ losses = 0 /\ LineMax > 2 /\ d[0] = Steps /\ q[0] = Length(Steps) => ~bypass'
  BY <1>2, <1>3, PollTransit
<1> DEFINE u == d[0]
           v == c[0]
<1>5. Resuming(d, q, h)'
  BY <1>1, <1>3, <1>4 DEF Resuming
<1>6. v \in 1 .. at
  <2>1. ring \in Seq(Tokens) /\ wire \in Seq(Tokens) /\ Stream(ring, wire, at, c, p, g)
    BY <1>3 DEF FwTypeOK, Transit
  <2>2. Count(ring, wire, g) \in Nat
    BY <1>2, <2>1, Onward
  <2>3. c \in [0 .. Count(ring, wire, g) -> 1 .. at] /\ 0 \in 0 .. Count(ring, wire, g)
    BY <2>1, <2>2 DEF Stream
  <2> QED BY <2>3
<1>7. u \in v .. at /\ v \in 1 .. at
  BY <1>4, <1>6
<1> HIDE DEF u, v
<1>8. /\ A \in [1 .. Len(answers) -> 1 .. at]
      /\ \A i \in 1 .. Len(answers) : A[i] <= v /\ answers[i].kind \in {Sweep[A[i]].kind, "err"}
      /\ \A i, j \in 1 .. Len(answers) : i <= j => A[i] <= A[j]
      /\ at < Steps => v >= at - 1 /\ \A i \in 1 .. Len(answers) : A[i] >= at - 1
  BY <1>3 DEF Labelled, v
<1>9. CASE answers' = answers /\ UNCHANGED <<bypass, hostDuty>>
  <2>1. \A i \in 1 .. Len(answers) : A[i] <= u
    <3> TAKE i \in 1 .. Len(answers)
    <3>1. A[i] \in 1 .. at /\ A[i] <= v
      BY <1>8
    <3> QED BY <1>2, <1>7, <3>1
  <2>2. at < Steps => u >= at - 1
    BY <1>2, <1>7, <1>8
  <2>3. Labelled(d, A)'
    BY <1>1, <1>8, <1>9, <2>1, <2>2 DEF Labelled, u
  <2>4. Setting(A)'
    BY <1>1, <1>3, <1>9 DEF Setting
  <2>5. Dwelling(d, h)'
    BY <1>1, <1>3, <1>4, <1>9 DEF Dwelling
  <2> QED BY <1>4, <1>5, <2>3, <2>4, <2>5 DEF Evidence
<1>10. ASSUME NEW a, answers' = answers \o <<a>>, Obeyed(u, a)
       PROVE  \E B : Evidence(d, q, h, e, B)'
  <2>0. PICK n \in Nat : n = Len(answers)
    BY LenProperties DEF FwTypeOK
  <2> DEFINE B == [i \in 1 .. n + 1 |-> IF i <= n THEN A[i] ELSE u]
  <2>1. /\ n \in Nat /\ Len(answers') = n + 1
        /\ \A i \in 1 .. n : answers'[i] = answers[i]
        /\ answers'[n + 1] = a
    BY <1>10, <2>0 DEF FwTypeOK
  <2>2. /\ \A i \in 1 .. n : i \in 1 .. n + 1 /\ B[i] = A[i]
        /\ B[n + 1] = u /\ n + 1 \in 1 .. n + 1 /\ B \in [1 .. n + 1 -> 1 .. at]
        /\ \A i \in 1 .. n + 1 : i \in 1 .. n \/ i = n + 1
    BY <1>2, <1>7, <1>8, <2>0, <2>1
  <2> HIDE DEF B
  <2>3. a.kind \in {Sweep[u].kind, "err"}
    <3>1. u \in 1 .. Steps
      BY <1>2, <1>7
    <3> QED BY <1>10, <3>1, KindAt DEF Obeyed
  <2>4. at < Steps => u >= at - 1
    BY <1>2, <1>7, <1>8
  <2>5. Labelled(d, B)'
    <3>1. \A i \in 1 .. n + 1 : B[i] <= u /\ answers'[i].kind \in {Sweep[B[i]].kind, "err"}
      <4> TAKE i \in 1 .. n + 1
      <4>1. CASE i \in 1 .. n
        <5>1. B[i] = A[i] /\ answers'[i] = answers[i] /\ A[i] \in 1 .. at /\ A[i] <= v
              /\ answers[i].kind \in {Sweep[A[i]].kind, "err"}
          BY <1>8, <2>0, <2>1, <2>2, <4>1
        <5> QED BY <1>2, <1>7, <5>1
      <4>2. CASE i = n + 1
        BY <1>2, <1>7, <2>1, <2>2, <2>3, <4>2
      <4> QED BY <2>2, <4>1, <4>2
    <3>2. \A i, j \in 1 .. n + 1 : i <= j => B[i] <= B[j]
      <4> TAKE i, j \in 1 .. n + 1
      <4>1. CASE i \in 1 .. n /\ j \in 1 .. n
        BY <1>8, <2>0, <2>2, <4>1
      <4>2. CASE j = n + 1
        BY <2>2, <3>1, <4>2
      <4>3. i = n + 1 /\ j \in 1 .. n => ~ (i <= j)
        BY <2>1
      <4> QED BY <2>2, <4>1, <4>2, <4>3
    <3>3. at < Steps => \A i \in 1 .. n + 1 : B[i] >= at - 1
      BY <1>8, <2>0, <2>2, <2>4
    <3> QED BY <1>1, <2>1, <2>2, <2>4, <3>1, <3>2, <3>3 DEF Labelled, u
  <2>6. at \in 2 .. Steps - 1 => bypass'
    <3> HAVE at \in 2 .. Steps - 1
    <3>1. u # Steps /\ bypass
      BY <1>2, <1>3, <1>7 DEF Setting
    <3>2. bypass' = TRUE \/ bypass' = bypass
      BY <1>10, <3>1 DEF Obeyed
    <3> QED BY <3>1, <3>2
  <2>7. at = 1 => (bypass => bypass') /\ (a.kind = "loop off" => bypass')
    <3> HAVE at = 1
    <3>1. u = 1 /\ 1 # Steps /\ ~ (1 \in 2 .. Steps - 1)
      BY <1>2, <1>7
    <3>2. (bypass' = TRUE \/ bypass' = bypass) /\ (a.kind = "loop off" => bypass' = TRUE)
      BY <1>10, <3>1 DEF Obeyed
    <3>3. ASSUME bypass PROVE bypass'
      BY <3>2, <3>3
    <3>4. ASSUME a.kind = "loop off" PROVE bypass'
      BY <3>2, <3>4
    <3> QED BY <3>3, <3>4
  <2>8. at \in 2 .. Steps - 1 => u \in {at - 1, at} /\ u # Steps
    BY <1>2, <1>7, <2>4
  <2>9. ASSUME at \in 2 .. Steps - 1, at % 2 = 0
        PROVE  \/ hostDuty' = Value(at)
               \/ UNCHANGED hostDuty /\ ~ (u = at /\ a.kind = "pwm")
    <3>1. u \in 2 .. Steps - 1 /\ u % 2 = 0 => u = at
      BY <1>2, <2>8, <2>9
    <3> QED BY <1>2, <1>10, <2>8, <2>9, <3>1 DEF Obeyed
  <2>10. ASSUME at \in 2 .. Steps - 1, at % 2 = 1
         PROVE  /\ hostDuty' = Value(at - 1) /\ hostDuty = Value(at - 1)
                /\ Dwell > 1 /\ u = at /\ a.kind = "rpm" => a.arg = {Value(at - 1)}
    <3>1. hostDuty = Value(at - 1)
      BY <1>3, <2>10 DEF Setting
    <3>2. u \in 2 .. Steps - 1 /\ u % 2 = 0 => u = at - 1
      BY <1>2, <2>8, <2>10
    <3>3. hostDuty' = Value(at - 1)
      BY <1>10, <3>1, <3>2 DEF Obeyed
    <3>4. ASSUME Dwell > 1, u = at, a.kind = "rpm" PROVE a.arg = {Value(at - 1)}
      <4>1. a.arg = published.rpm
        BY <1>2, <1>10, <2>10, <3>4 DEF Obeyed
      <4>2. mode # "dwell"
        <5>1. at <= c[Final(g)]
          BY <1>4, <3>4 DEF u
        <5>2. c[Final(g)] <= at - 1 => c[Final(g)] \in Nat
          <6>1. ring \in Seq(Tokens) /\ wire \in Seq(Tokens) /\ Stream(ring, wire, at, c, p, g)
            BY <1>3 DEF FwTypeOK, Transit
          <6>2. Count(ring, wire, g) \in Nat
            BY <1>2, <6>1, Onward
          <6>3. Final(g) \in 0 .. Final(g) /\ c \in [0 .. Final(g) -> 1 .. at]
            BY <6>1, <6>2 DEF Stream, Final
          <6> QED BY <1>2, <6>3
        <5> QED BY <1>2, <1>3, <5>1, <5>2 DEF Dwelling
      <4>3. dwelling = 0
        BY <1>3, <2>10, <4>2 DEF Dwelling
      <4>4. published.rpm = {hostDuty}
        <5>1. Dwell \in Nat
          BY ToolNumbers
        <5>2. dwelling < Dwell - 1
          BY <3>4, <4>3, <5>1
        <5> QED BY <1>3, <2>10, <5>2 DEF Dwelling
      <4> QED BY <3>1, <4>1, <4>4
    <3> QED BY <3>1, <3>3, <3>4
  <2>11. Setting(B)'
    <3>1. ASSUME at = 1, NEW i \in 1 .. n + 1, answers'[i].kind = "loop off"
          PROVE  bypass'
      <4>1. CASE i \in 1 .. n
        BY <1>3, <2>0, <2>1, <2>7, <3>1, <4>1 DEF Setting
      <4>2. CASE i = n + 1
        BY <2>1, <2>7, <3>1, <4>2
      <4> QED BY <2>2, <4>1, <4>2
    <3>2. at \in 2 .. Steps - 1 => bypass'
      BY <2>6
    <3>3. ASSUME at \in 2 .. Steps - 1, at % 2 = 0,
                 NEW i \in 1 .. n + 1, B[i] = at, answers'[i].kind = "pwm"
          PROVE  hostDuty' = Value(at)
      <4>1. CASE i \in 1 .. n
        <5>1. hostDuty = Value(at)
          BY <1>3, <2>0, <2>1, <2>2, <3>3, <4>1 DEF Setting
        <5> QED BY <2>9, <3>3, <5>1
      <4>2. CASE i = n + 1
        BY <2>1, <2>2, <2>9, <3>3, <4>2
      <4> QED BY <2>2, <4>1, <4>2
    <3>4. ASSUME at \in 2 .. Steps - 1, at % 2 = 1, Dwell > 1,
                 NEW i \in 1 .. n + 1, B[i] = at, answers'[i].kind = "rpm"
          PROVE  answers'[i].arg = {Value(at - 1)}
      <4>1. CASE i \in 1 .. n
        BY <1>3, <2>0, <2>1, <2>2, <3>4, <4>1 DEF Setting
      <4>2. CASE i = n + 1
        BY <2>1, <2>2, <2>10, <3>4, <4>2
      <4> QED BY <2>2, <4>1, <4>2
    <3>5. at \in 2 .. Steps - 1 /\ at % 2 = 1 => hostDuty' = Value(at - 1)
      BY <2>10
    <3> QED BY <1>2, <2>1, <3>1, <3>2, <3>3, <3>4, <3>5 DEF Setting
  <2>12. Dwelling(d, h)'
    <3>1. at \in 2 .. Steps - 1 /\ at % 2 = 1 => hostDuty' = hostDuty
      BY <2>10
    <3> QED BY <1>1, <1>3, <1>4, <3>1 DEF Dwelling
  <2> QED BY <1>4, <1>5, <2>5, <2>11, <2>12 DEF Evidence
<1> QED BY <1>4, <1>9, <1>10 DEF u

\* A run that ends with command N also ends no later than M.
LEMMA Widened ==
  ASSUME NEW R \in Seq(Tokens), NEW Q \in Seq(Tokens), NEW N \in 1 .. Steps, NEW M \in 1 .. Steps,
         N <= M, NEW c, NEW p, NEW g, Stream(R, Q, N, c, p, g)
  PROVE  Stream(R, Q, M, c, p, g) /\ c[Count(R, Q, g)] <= N /\ c[Count(R, Q, g)] \in Nat /\ c[0] \in 1 .. N
<1>1. Count(R, Q, g) \in Nat /\ Steps \in Nat
  BY Onward, SweepLines
<1>2. c \in [0 .. Count(R, Q, g) -> 1 .. N] /\ 1 .. N \subseteq 1 .. M /\ 1 .. N \subseteq Nat
  BY <1>1 DEF Stream
<1>3. c \in [0 .. Count(R, Q, g) -> 1 .. M]
  BY <1>2
<1>4. Stream(R, Q, M, c, p, g)
  BY <1>3 DEF Stream
<1>5. Count(R, Q, g) \in 0 .. Count(R, Q, g) /\ 0 \in 0 .. Count(R, Q, g)
  BY <1>1
<1> QED BY <1>2, <1>4, <1>5

\* The tool concludes from an answer, or from none.  B labels the answers
\* that are left; an answer of the right kind is the command's own.
LEMMA ConcludeKeeps ==
  ASSUME FwTypeOK, ToolTypeOK, Manners, Sweeping, mode \in {"send", "wait"},
         stopped \/ attempt > 0,
         UNCHANGED <<firmware, wire, ring, losses, garbled, script, stopped, haste>>,
         NEW answer, Conclude(answer),
         NEW c, NEW p, NEW g, NEW b, NEW A, Evidence(c, p, g, b, A),
         NEW B \in [1 .. Len(answers') -> 1 .. at],
         \A i \in 1 .. Len(answers') : \E j \in 1 .. Len(answers) : B[i] = A[j] /\ answers'[i] = answers[j],
         \A i, j \in 1 .. Len(answers') : i <= j => B[i] <= B[j],
         Right(answer) /\ at < Steps =>
           /\ c[0] >= at /\ \A i \in 1 .. Len(answers') : B[i] >= at
           /\ \E j \in 1 .. Len(answers) : A[j] = at /\ answers[j] = answer
  PROVE  /\ Evidence(c, p, g, b, B)'
         /\ \/ rows' = rows
            \/ \E r : rows' = Append(rows, r) /\ (Dwell > 1 => r.rpm = {r.duty})
<1>1. UNCHANGED <<rx, bypass, hostDuty, duty, published, spanned, wire, ring, losses, stopped>>
  BY DEF firmware
<1>2. Steps \in Nat /\ Steps >= 4 /\ at \in 1 .. Steps /\ Steps % 2 = 0
  BY Whereabouts, SweepLines
<1>3. Outcome(answer) /\ attempt' = 0 /\ dwelling' = IF mode' = "dwell" THEN Dwell ELSE 0
  BY <1>2, Outcomes
<1>4. Transit(c, p, g, b) /\ Labelled(c, A) /\ Setting(A) /\ Dwelling(c, g) /\ Resuming(c, p, g)
  BY DEF Evidence
<1>5. Dwell \in Nat
  BY ToolNumbers
<1>6. \/ at' = at /\ mode' = "over" /\ at = 1
      \/ at' = Steps /\ mode' \in {"send", "over"}
      \/ at' = at + 1 /\ at < Steps - 1 /\ Right(answer) /\ mode' = IF at % 2 = 0 THEN "dwell" ELSE "send"
  <2>1. CASE at = 1
    <3>1. ~ (at \in 2 .. Steps - 1) /\ at # Steps /\ at % 2 # 0 /\ at + 1 = 2 /\ at < Steps - 1
      BY <1>2, <2>1
    <3> QED BY <1>3, <2>1, <3>1 DEF Outcome
  <2>2. CASE at = Steps
    <3>1. ~ (at \in 2 .. Steps - 1) /\ at # 1
      BY <1>2, <2>2
    <3> QED BY <1>3, <2>2, <3>1 DEF Outcome
  <2>3. CASE at \in 2 .. Steps - 1 /\ at % 2 = 0
    <3>1. at # 1 /\ at # Steps /\ at < Steps - 1 /\ at % 2 # 1
      <4>1. (Steps - 1) % 2 = 1
        BY <1>2
      <4>2. at # Steps - 1
        BY <2>3, <4>1
      <4> QED BY <1>2, <2>3, <4>2
    <3> QED BY <1>3, <2>3, <3>1 DEF Outcome
  <2>4. CASE at \in 2 .. Steps - 1 /\ at % 2 = 1
    <3>1. at # 1 /\ at # Steps /\ at % 2 # 0 /\ (at < Steps - 1 \/ at + 1 = Steps)
      BY <1>2, <2>4
    <3> QED BY <1>3, <2>4, <3>1 DEF Outcome
  <2> QED BY <1>2, <2>1, <2>2, <2>3, <2>4
<1>10. at' \in 1 .. Steps /\ at <= at'
  BY <1>2, <1>6
<1>7. /\ Stream(ring, wire, at', c, p, g) /\ c[0] \in 1 .. at
      /\ c[Final(g)] <= at /\ c[Final(g)] \in Nat
  <2>1. ring \in Seq(Tokens) /\ wire \in Seq(Tokens) /\ Stream(ring, wire, at, c, p, g)
    BY <1>4 DEF FwTypeOK, Transit
  <2> DEFINE m == at'
  <2>2. m \in 1 .. Steps /\ at <= m
    BY <1>10
  <2> HIDE DEF m
  <2>3. Stream(ring, wire, m, c, p, g) /\ c[0] \in 1 .. at
        /\ c[Count(ring, wire, g)] <= at /\ c[Count(ring, wire, g)] \in Nat
    BY <1>2, <2>1, <2>2, Widened
  <2> QED BY <2>3 DEF m, Final
<1>8. Transit(c, p, g, b)'
  <2>1. Stream(ring', wire', at', c, p, g)
    BY <1>1, <1>7
  <2> QED BY <1>1, <1>4, <2>1 DEF Transit
<1>9. Final(g)' = Final(g)
  BY <1>1 DEF Final
<1>11. Labelled(c, B)'
  <2>1. B \in [1 .. Len(answers') -> 1 .. at']
    BY <1>2, <1>10
  <2>2. \A i \in 1 .. Len(answers') : B[i] <= c[0] /\ answers'[i].kind \in {Sweep[B[i]].kind, "err"}
    BY <1>4 DEF Labelled
  <2>3. at' < Steps => c[0] >= at' - 1 /\ \A i \in 1 .. Len(answers') : B[i] >= at' - 1
    <3>1. CASE at' = at
      BY <1>4, <3>1 DEF Labelled
    <3>2. CASE at' = at + 1 /\ at < Steps - 1 /\ Right(answer)
      <4>1. at < Steps /\ at' - 1 = at
        BY <1>2, <3>2
      <4> QED BY <3>2, <4>1
    <3>3. CASE at' = Steps
      BY <1>2, <3>3
    <3> QED BY <1>6, <3>1, <3>2, <3>3
  <2> QED BY <2>1, <2>2, <2>3 DEF Labelled
<1>12. Setting(B)'
  <2>1. CASE at' = at /\ at = 1
    <3>1. ~ (at' \in 2 .. Steps - 1)
      BY <1>2, <2>1
    <3>2. \A i \in 1 .. Len(answers') : answers'[i].kind = "loop off" => bypass'
      BY <1>1, <1>4, <2>1 DEF Setting
    <3> QED BY <3>1, <3>2 DEF Setting
  <2>2. CASE at' = Steps
    <3>1. ~ (at' \in 2 .. Steps - 1) /\ at' # 1
      BY <1>2, <2>2
    <3> QED BY <3>1 DEF Setting
  <2>3. CASE at' = at + 1 /\ at < Steps - 1 /\ Right(answer)
    <3>1. PICK j \in 1 .. Len(answers) : A[j] = at /\ answers[j] = answer
      BY <1>2, <2>3
    <3>2. answer.kind = Sweep[at].kind /\ at' \in 2 .. Steps - 1 /\ at' # 1 /\ at' - 1 = at
      BY <1>2, <2>3 DEF Right
    <3>3. \A i \in 1 .. Len(answers') : B[i] # at'
      <4> TAKE i \in 1 .. Len(answers')
      <4>1. B[i] \in 1 .. at /\ at' = at + 1
        BY <2>3
      <4> QED BY <1>2, <4>1
    <3>4. CASE at = 1
      <4>1. bypass
        BY <1>4, <3>1, <3>2, <3>4, KindAt, <1>2 DEF Setting
      <4>2. at' % 2 = 0 /\ ~ (at' % 2 = 1)
        BY <2>3, <3>4
      <4> QED BY <1>1, <3>2, <3>3, <4>1, <4>2 DEF Setting
    <3>5. CASE at \in 2 .. Steps - 1 /\ at % 2 = 0
      <4>1. bypass /\ hostDuty = Value(at)
        BY <1>2, <1>4, <3>1, <3>2, <3>5, KindAt DEF Setting
      <4>2. at' % 2 # 0
        BY <1>2, <2>3, <3>5
      <4> QED BY <1>1, <3>2, <3>3, <4>1, <4>2 DEF Setting
    <3>6. CASE at \in 2 .. Steps - 1 /\ at % 2 = 1
      <4>1. bypass
        BY <1>4, <3>6 DEF Setting
      <4>2. at' % 2 # 1
        BY <1>2, <2>3, <3>6
      <4> QED BY <1>1, <3>2, <3>3, <4>1, <4>2 DEF Setting
    <3> QED BY <1>2, <2>3, <3>4, <3>5, <3>6
  <2> QED BY <1>6, <2>1, <2>2, <2>3
<1>13. Dwelling(c, g)'
  <2>1. CASE mode' # "dwell"
    <3>1. dwelling' = 0
      BY <1>3, <2>1
    <3>2. at' \in 2 .. Steps - 1 /\ at' % 2 = 1 => FALSE
      <4>1. CASE at' = at + 1 /\ at < Steps - 1 /\ mode' = IF at % 2 = 0 THEN "dwell" ELSE "send"
        BY <1>2, <2>1, <4>1, SMTT(60)
      <4> QED BY <1>2, <1>6, <4>1
    <3> QED BY <2>1, <3>2 DEF Dwelling
  <2>2. CASE mode' = "dwell"
    <3>1. at' = at + 1 /\ at < Steps - 1 /\ at % 2 = 0 /\ dwelling' = Dwell
      BY <1>3, <1>6, <2>2
    <3>2. at' \in 2 .. Steps - 1 /\ at' % 2 = 1 /\ at' - 1 = at
      <4>1. ASSUME NEW m, m = at + 1
            PROVE  m \in 2 .. Steps - 1 /\ m % 2 = 1 /\ m - 1 = at
        BY <1>2, <3>1, <4>1
      <4> QED BY <3>1, <4>1
    <3>3. ~ (dwelling' < Dwell) /\ ~ (dwelling' < Dwell - 1)
      BY <1>5, <3>1
    <3> QED BY <1>7, <1>9, <2>2, <3>2, <3>3 DEF Dwelling
  <2> QED BY <2>1, <2>2
<1>14. Resuming(c, p, g)'
  <2>1. said # "resumed"
    BY DEF Manners
  <2>2. said' = "resumed" => at = Steps /\ at' = Steps
    BY <1>2, <1>3, <2>1 DEF Outcome
  <2>3. attempt > 0 \/ stopped'
    BY <1>1
  <2> QED BY <1>1, <1>3, <1>4, <1>9, <2>2, <2>3 DEF Resuming
<1>15. \/ rows' = rows
       \/ \E r : rows' = Append(rows, r) /\ (Dwell > 1 => r.rpm = {r.duty})
  <2> DEFINE r == [duty |-> Value(at - 1), rpm |-> answer.arg]
  <2>1. rows' = rows \/ (at \in 2 .. Steps - 1 /\ at % 2 = 1 /\ Right(answer) /\ rows' = Append(rows, r))
    BY <1>3 DEF Outcome
  <2>2. ASSUME at \in 2 .. Steps - 1, at % 2 = 1, Right(answer), Dwell > 1
        PROVE  r.rpm = {r.duty}
    <3>1. PICK j \in 1 .. Len(answers) : A[j] = at /\ answers[j] = answer
      BY <1>2, <2>2
    <3>2. answers[j].kind = "rpm"
      BY <1>2, <2>2, <3>1, KindAt DEF Right
    <3>3. answer.arg = {Value(at - 1)}
      BY <1>4, <2>2, <3>1, <3>2 DEF Setting
    <3> QED BY <3>3
  <2> HIDE DEF r
  <2> QED BY <2>1, <2>2
<1> QED BY <1>8, <1>11, <1>12, <1>13, <1>14, <1>15 DEF Evidence

\* An answer of the right kind is to the command itself: the command before
\* is answered otherwise.
LEMMA OwnAnswer ==
  ASSUME ToolTypeOK, Sweeping, at < Steps, answers # <<>>, answers \in Seq(Answers),
         NEW c, NEW A, Labelled(c, A), Right(answers[1])
  PROVE  1 \in 1 .. Len(answers) /\ A[1] = at
<1>1. Steps \in Nat /\ Steps >= 4 /\ at \in 1 .. Steps /\ Len(answers) \in Nat \ {0}
  BY Whereabouts, EmptySeq
<1>2. 1 \in 1 .. Len(answers)
  BY <1>1
<1>3. /\ A[1] \in 1 .. at /\ A[1] >= at - 1
      /\ answers[1].kind \in {Sweep[A[1]].kind, "err"} /\ answers[1].kind = Sweep[at].kind
  BY <1>2 DEF Labelled, Right
<1>4. ASSUME NEW n \in 1 .. Steps, n + 1 = at PROVE Sweep[n].kind # Sweep[at].kind
  <2>1. CASE n = 1
    <3>1. at \in 2 .. Steps - 1 /\ at % 2 = 0
      BY <1>1, <1>4, <2>1
    <3> QED BY <1>1, <2>1, <3>1, KindAt
  <2>2. CASE n # 1 /\ n % 2 = 0
    <3>1. at \in 2 .. Steps - 1 /\ at % 2 = 1 /\ n \in 2 .. Steps - 1
      BY <1>1, <1>4, <2>2
    <3> QED BY <1>1, <2>2, <3>1, KindAt
  <2>3. CASE n # 1 /\ n % 2 = 1
    <3>1. at \in 2 .. Steps - 1 /\ at % 2 = 0 /\ n \in 2 .. Steps - 1
      BY <1>1, <1>4, <2>3
    <3> QED BY <1>1, <2>3, <3>1, KindAt
  <2> QED BY <1>1, <2>1, <2>2, <2>3
<1>5. Sweep[at].kind # "err"
  BY <1>1, KindsAsked
<1>6. A[1] \in 1 .. Steps /\ (A[1] + 1 = at \/ A[1] = at)
  BY <1>1, <1>3
<1> QED BY <1>2, <1>3, <1>4, <1>5, <1>6

\* An answer is taken.
LEMMA AnswerKeeps ==
  ASSUME FwTypeOK, ToolTypeOK, Manners, Sweeping, TakeAnswer,
         NEW c, NEW p, NEW g, NEW b, NEW A, Evidence(c, p, g, b, A)
  PROVE  /\ \E B : Evidence(c, p, g, b, B)'
         /\ \/ rows' = rows
            \/ \E r : rows' = Append(rows, r) /\ (Dwell > 1 => r.rpm = {r.duty})
<1>1. /\ mode = "wait" /\ answers # <<>> /\ Conclude(Head(answers)) /\ answers' = Tail(answers)
      /\ UNCHANGED <<firmware, wire, ring, losses, garbled, script, stopped, haste>>
  BY DEF TakeAnswer
<1>2. attempt > 0
  BY <1>1 DEF Manners
<1>3. Steps \in Nat /\ at \in 1 .. Steps /\ answers \in Seq(Answers)
  BY Whereabouts DEF FwTypeOK
<1>4. PICK n \in Nat : n + 1 = Len(answers)
  BY <1>1, <1>3, EmptySeq
<1>5. /\ Len(answers') = n /\ Head(answers) = answers[1]
      /\ \A i \in 1 .. n : answers'[i] = answers[i + 1]
  <2> DEFINE t == Tail(answers)
  <2>1. Len(t) = Len(answers) - 1 /\ \A i \in 1 .. Len(t) : t[i] = answers[i + 1]
    BY <1>1, <1>3, HeadTailProperties
  <2>2. Head(answers) = answers[1] /\ answers' = t
    BY <1>1, <1>3, HeadTailProperties
  <2> HIDE DEF t
  <2> QED BY <1>4, <2>1, <2>2
<1>6. Labelled(c, A)
  BY DEF Evidence
<1> DEFINE B == [i \in 1 .. n |-> A[i + 1]]
<1>7. /\ \A i \in 1 .. n : i + 1 \in 1 .. Len(answers) /\ B[i] = A[i + 1]
      /\ B \in [1 .. Len(answers') -> 1 .. at]
  BY <1>4, <1>5, <1>6 DEF Labelled
<1> HIDE DEF B
<1>8. \A i \in 1 .. Len(answers') : \E j \in 1 .. Len(answers) : B[i] = A[j] /\ answers'[i] = answers[j]
  BY <1>5, <1>7
<1>9. \A i, j \in 1 .. Len(answers') : i <= j => B[i] <= B[j]
  BY <1>4, <1>5, <1>6, <1>7 DEF Labelled
<1>10. Right(Head(answers)) /\ at < Steps =>
         /\ c[0] >= at /\ \A i \in 1 .. Len(answers') : B[i] >= at
         /\ \E j \in 1 .. Len(answers) : A[j] = at /\ answers[j] = Head(answers)
  <2> HAVE Right(Head(answers)) /\ at < Steps
  <2>1. 1 \in 1 .. Len(answers) /\ A[1] = at
    BY <1>1, <1>3, <1>5, <1>6, OwnAnswer DEF Right
  <2>2. c[0] >= at
    BY <1>6, <2>1 DEF Labelled
  <2>3. \A i \in 1 .. Len(answers') : B[i] >= at
    <3> TAKE i \in 1 .. Len(answers')
    <3>1. i + 1 \in 1 .. Len(answers) /\ 1 <= i + 1 /\ B[i] = A[i + 1]
      BY <1>5, <1>7
    <3>2. A[1] <= A[i + 1]
      BY <1>6, <2>1, <3>1 DEF Labelled
    <3> QED BY <2>1, <3>1, <3>2
  <2> QED BY <1>5, <2>1, <2>2, <2>3
<1>11. PICK a : a = Head(answers)
  OBVIOUS
<1>12. Right(a) /\ at < Steps =>
         /\ c[0] >= at /\ \A i \in 1 .. Len(answers') : B[i] >= at
         /\ \E j \in 1 .. Len(answers) : A[j] = at /\ answers[j] = a
  BY <1>11, <1>10
<1>13. /\ Conclude(a) /\ mode \in {"send", "wait"} /\ (stopped \/ attempt > 0)
       /\ UNCHANGED <<firmware, wire, ring, losses, garbled, script, stopped, haste>>
  BY <1>11, <1>1, <1>2
<1>14. B \in [1 .. Len(answers') -> 1 .. at]
  BY <1>7
<1>15. /\ Evidence(c, p, g, b, B)'
       /\ \/ rows' = rows
          \/ \E r : rows' = Append(rows, r) /\ (Dwell > 1 => r.rpm = {r.duty})
  BY <1>8, <1>9, <1>12, <1>13, <1>14, ConcludeKeeps, SMTT(60)
<1> QED BY <1>15

\* No answer is waited for any longer.
LEMMA GiveUpKeeps ==
  ASSUME FwTypeOK, ToolTypeOK, Manners, Sweeping, GiveUp,
         NEW c, NEW p, NEW g, NEW b, NEW A, Evidence(c, p, g, b, A)
  PROVE  /\ Evidence(c, p, g, b, A)'
         /\ \/ rows' = rows
            \/ \E r : rows' = Append(rows, r) /\ (Dwell > 1 => r.rpm = {r.duty})
<1> DEFINE none == [kind |-> "none", arg |-> 0]
<1>1. /\ mode \in {"send", "wait"} /\ (stopped \/ attempt = MaxAttempts) /\ Conclude(none)
      /\ UNCHANGED <<firmware, wire, ring, answers, losses, garbled, script, stopped, haste>>
  BY DEF GiveUp, fwVars, line
<1>2. stopped \/ attempt > 0
  BY <1>1, ToolNumbers
<1>3. none.kind = "none"
  OBVIOUS
<1> HIDE DEF none
<1>4. ~ Right(none)
  <2>1. at \in 1 .. Steps /\ Steps \in Nat
    BY Whereabouts
  <2>2. Sweep[at].kind # "none"
    BY <2>1, KindsAsked
  <2> QED BY <1>3, <2>2 DEF Right
<1>5. Labelled(c, A)
  BY DEF Evidence
<1>6. /\ A \in [1 .. Len(answers') -> 1 .. at]
      /\ \A i \in 1 .. Len(answers') : \E j \in 1 .. Len(answers) : A[i] = A[j] /\ answers'[i] = answers[j]
      /\ \A i, j \in 1 .. Len(answers') : i <= j => A[i] <= A[j]
  BY <1>1, <1>5 DEF Labelled
<1> QED BY <1>1, <1>2, <1>4, <1>6, ConcludeKeeps, ZenonT(40)

\* The dwell is over, an attempt is, the user interrupts, or nothing.
LEMMA QuietKeeps ==
  ASSUME Manners, Sweeping,
         DwellOver \/ Timeout \/ Sigint \/ (WindowEnds /\ UNCHANGED tool) \/ UNCHANGED benchVars,
         NEW c, NEW p, NEW g, NEW b, NEW A, Evidence(c, p, g, b, A)
  PROVE  Evidence(c, p, g, b, A)' /\ rows' = rows
<1>1. /\ UNCHANGED <<rx, bypass, hostDuty, published, spanned, wire, ring, answers, losses,
                     at, attempt, dwelling, rows, said>>
      /\ stopped' = stopped \/ mode # "over"
      /\ mode' = "dwell" => mode = "dwell"
      /\ mode = "dwell" /\ mode' # "dwell" => dwelling = 0
  BY DEF DwellOver, Timeout, Sigint, WindowEnds, benchVars, fwVars, firmware, line, tool
<1>2. Transit(c, p, g, b)' /\ Labelled(c, A)' /\ Setting(A)'
  BY <1>1 DEF Evidence, Transit, Labelled, Setting
<1>3. Final(g)' = Final(g)
  BY <1>1 DEF Final
<1>4. Dwelling(c, g)'
  BY <1>1, <1>3 DEF Evidence, Dwelling
<1>5. Resuming(c, p, g)'
  BY <1>1, <1>3 DEF Evidence, Resuming, Manners
<1> QED BY <1>1, <1>2, <1>4, <1>5 DEF Evidence

\* A window starts.
LEMMA WindowKeeps ==
  ASSUME ToolTypeOK, Sweeping, WindowStarts,
         NEW c, NEW p, NEW g, NEW b, NEW A, Evidence(c, p, g, b, A)
  PROVE  Evidence(c, p, g, b, A)' /\ rows' = rows
<1>1. /\ UNCHANGED <<rx, bypass, hostDuty, wire, ring, answers, losses,
                     at, mode, attempt, rows, said, stopped>>
      /\ dwelling' = IF dwelling > 0 THEN dwelling - 1 ELSE 0
      /\ BypassWindow \/ Regulate
  BY DEF WindowStarts, Windows, BypassWindow, Regulate, line
<1>2. Transit(c, p, g, b)' /\ Labelled(c, A)' /\ Setting(A)'
  BY <1>1 DEF Evidence, Transit, Labelled, Setting
<1>3. Final(g)' = Final(g)
  BY <1>1 DEF Final
<1>4. Resuming(c, p, g)'
  BY <1>1, <1>3 DEF Evidence, Resuming
<1>5. Dwelling(c, g)'
  <2>1. Dwelling(c, g) /\ Setting(A) /\ dwelling \in 0 .. Dwell /\ Dwell \in Nat
    BY ToolNumbers DEF Evidence, ToolTypeOK
  <2>2. ASSUME at \in 2 .. Steps - 1, at % 2 = 1
        PROVE  /\ mode # "dwell" => dwelling' = 0
               /\ spanned' = {hostDuty}
               /\ dwelling' < Dwell - 1 => published'.rpm = {hostDuty}
    <3>1. bypass
      BY <2>1, <2>2 DEF Setting
    <3>2. spanned' = {hostDuty} /\ published' = [duty |-> hostDuty, rpm |-> spanned]
      BY <1>1, <3>1 DEF BypassWindow, Regulate
    <3>3. dwelling' < Dwell - 1 => dwelling < Dwell
      BY <1>1, <2>1
    <3>4. published'.rpm = spanned
      BY <3>2
    <3> QED BY <1>1, <2>1, <2>2, <3>2, <3>3, <3>4 DEF Dwelling
  <2> QED BY <1>1, <1>3, <2>1, <2>2 DEF Dwelling
<1> QED BY <1>1, <1>2, <1>4, <1>5 DEF Evidence

\* What is concluded keeps the manners.
LEMMA ConcludeManners ==
  ASSUME ToolTypeOK, Manners, mode \in {"send", "wait"}, NEW answer, Conclude(answer)
  PROVE  /\ mode' # "wait"
         /\ said' = "resumed" => mode' = "over" /\ Sweeping
<1>1. said # "resumed"
  BY DEF Manners
<1>2. CASE ~Sweeping
  BY <1>2, SingleOutcome
<1>3. CASE Sweeping
  <2>1. Outcome(answer)
    BY <1>3, Whereabouts, Outcomes
  <2> QED BY <1>1, <1>3, <2>1 DEF Outcome
<1> QED BY <1>2, <1>3

\* What every step keeps, whatever is lost.
LEMMA MannersKept ==
  ASSUME BenchTypeOK, Manners, BenchNext \/ UNCHANGED benchVars
  PROVE  /\ Manners' /\ (Sweeping' <=> Sweeping)
         /\ garbled => garbled'
         /\ losses \in Nat /\ (losses' = losses \/ losses' = losses + 1)
<1>1. FwTypeOK /\ ToolTypeOK /\ losses \in Nat /\ garbled \in BOOLEAN
  BY DEF BenchTypeOK, FwTypeOK
<1>2. ASSUME \/ UNCHANGED <<losses, garbled>>
             \/ \E x : Lose(x)
      PROVE  /\ losses = 0 => ~garbled
             /\ losses' = 0 => ~garbled'
             /\ garbled => garbled'
             /\ losses' = losses \/ losses' = losses + 1
  BY <1>1, <1>2 DEF Manners, Lose
<1>3. ASSUME script' = script, mode' = "wait" => attempt' > 0,
             said' = "resumed" => mode' = "over" /\ Sweeping,
             \/ UNCHANGED <<losses, garbled>>
             \/ \E x : Lose(x)
      PROVE  /\ Manners' /\ (Sweeping' <=> Sweeping)
             /\ garbled => garbled'
             /\ losses' = losses \/ losses' = losses + 1
  BY <1>2, <1>3 DEF Manners, Sweeping
<1>4. CASE SendAttempt
  <2>1. attempt \in Nat
    <3>1. attempt \in 0 .. MaxAttempts
      BY <1>1 DEF ToolTypeOK
    <3> QED BY <3>1, ToolNumbers
  <2>2. attempt' > 0
    BY <1>4, <2>1 DEF SendAttempt
  <2> QED BY <1>1, <1>3, <1>4, <2>2 DEF SendAttempt, Manners
<1>5. CASE TakeAnswer
  BY <1>1, <1>3, <1>5, ConcludeManners DEF TakeAnswer
<1>6. CASE GiveUp
  BY <1>1, <1>3, <1>6, ConcludeManners DEF GiveUp, fwVars, line
<1>7. CASE DwellOver
  BY <1>1, <1>3, <1>7 DEF DwellOver, Manners, fwVars, line
<1>8. CASE Timeout
  BY <1>1, <1>3, <1>8 DEF Timeout, Manners, fwVars, line
<1>9. CASE Sigint
  BY <1>1, <1>3, <1>9 DEF Sigint, Manners, fwVars, line
<1>10. CASE FirmwareStep
  <2>1. \/ UNCHANGED <<losses, garbled>>
        \/ \E x : Lose(x)
    BY <1>10 DEF FirmwareStep, Interrupt, Noise, Poll, WindowEnds, line
  <2> QED BY <1>1, <1>3, <1>10, <2>1 DEF FirmwareStep, Manners, tool
<1>11. CASE WindowStarts
  <2>1. UNCHANGED <<losses, garbled>>
    BY <1>11 DEF WindowStarts, Windows, BypassWindow, Regulate, line
  <2> QED BY <1>1, <1>3, <1>11, <2>1 DEF WindowStarts, Manners
<1>12. CASE UNCHANGED benchVars
  BY <1>1, <1>3, <1>12 DEF benchVars, fwVars, line, tool, Manners
<1> QED BY <1>4, <1>5, <1>6, <1>7, <1>8, <1>9, <1>10, <1>11, <1>12 DEF BenchNext, ToolSteps

\* What is known of the sweep is known after each step of it, and a row that
\* is added is measured.
LEMMA EvidenceKept ==
  ASSUME BenchTypeOK, BenchTypeOK', Manners, Sweeping, Sound',
         BenchNext \/ UNCHANGED benchVars,
         NEW c, NEW p, NEW g, NEW b, NEW A, Evidence(c, p, g, b, A)
  PROVE  /\ \E d, q, h, e, B : Evidence(d, q, h, e, B)'
         /\ \/ rows' = rows
            \/ \E r : rows' = Append(rows, r) /\ (Dwell > 1 => r.rpm = {r.duty})
<1>1. FwTypeOK /\ ToolTypeOK /\ FwTypeOK'
  BY DEF BenchTypeOK
<1>2. CASE SendAttempt
  <2>1. \E d, q : Evidence(d, q, g, b, A)'
    BY <1>1, <1>2, SendKeeps
  <2> QED BY <1>2, <2>1 DEF SendAttempt
<1>3. CASE TakeAnswer
  BY <1>1, <1>3, AnswerKeeps
<1>4. CASE GiveUp
  BY <1>1, <1>4, GiveUpKeeps
<1>5. CASE FirmwareStep
  <2>1. UNCHANGED tool /\ rows' = rows
    BY <1>5 DEF FirmwareStep, tool
  <2>2. CASE Interrupt \/ Noise
    <3>1. \E h : Evidence(c, p, h, b, A)'
      BY <1>1, <2>1, <2>2, LineKeeps
    <3> QED BY <2>1, <3>1
  <2>3. CASE Poll
    <3>1. \E d, q, h, e, B : Evidence(d, q, h, e, B)'
      BY <1>1, <2>1, <2>3, PollKeeps
    <3> QED BY <2>1, <3>1
  <2>4. CASE WindowEnds
    <3>1. Evidence(c, p, g, b, A)'
      BY <2>1, <2>4, QuietKeeps
    <3> QED BY <2>1, <3>1
  <2> QED BY <1>5, <2>2, <2>3, <2>4 DEF FirmwareStep
<1>6. CASE WindowStarts
  <2>1. Evidence(c, p, g, b, A)' /\ rows' = rows
    BY <1>1, <1>6, WindowKeeps
  <2> QED BY <2>1
<1>7. CASE DwellOver \/ Timeout \/ Sigint \/ UNCHANGED benchVars
  <2>1. Evidence(c, p, g, b, A)' /\ rows' = rows
    BY <1>7, QuietKeeps
  <2> QED BY <2>1
<1> QED BY <1>2, <1>3, <1>4, <1>5, <1>6, <1>7 DEF BenchNext, ToolSteps

\* A script that is no sweep writes no table.
LEMMA OtherRows ==
  ASSUME ~Sweeping, BenchNext \/ UNCHANGED benchVars
  PROVE  rows' = rows
<1>1. ASSUME NEW answer, Conclude(answer) PROVE rows' = rows
  BY <1>1, SingleOutcome
<1> QED BY <1>1 DEF BenchNext, FirmwareStep, WindowStarts, ToolSteps, SendAttempt, TakeAnswer, GiveUp,
                    DwellOver, Timeout, Sigint, benchVars, tool

-----------------------------------------------------------------------------
(* The theorems.                                                            *)

SweepInv ==
  /\ Manners
  /\ losses <= 1 /\ Dwell > 1 => RowsMeasured
  /\ Sweeping /\ Sound => \E c, p, g, b, A : Evidence(c, p, g, b, A)

\* At first nothing is on the way and nothing is said.
LEMMA SweepInvInit == BenchInit /\ BenchTypeOK => SweepInv
<1> SUFFICES ASSUME BenchInit, BenchTypeOK PROVE SweepInv
  OBVIOUS
<1>1. /\ wire = <<>> /\ ring = <<>> /\ answers = <<>> /\ losses = 0 /\ garbled = FALSE
      /\ rx = [line |-> <<>>, overflowed |-> FALSE] /\ bypass = FALSE
      /\ at = 1 /\ mode = "send" /\ attempt = 0 /\ dwelling = 0 /\ rows = <<>> /\ said = ""
  BY DEF BenchInit, FwInit
<1>2. Manners /\ RowsMeasured
  <2>1. Manners
    BY <1>1 DEF Manners
  <2>2. rows = <<>>
    BY <1>1
  <2>3. DOMAIN rows = 1 .. 0
    <3>1. DOMAIN <<>> = 1 .. 0
      OBVIOUS
    <3> QED BY <2>2, <3>1
  <2> QED BY <2>1, <2>3 DEF RowsMeasured
<1>3. Sweeping => \E c, p, g, b, A : Evidence(c, p, g, b, A)
  <2> HAVE Sweeping
  <2> DEFINE c == [i \in 0 .. 0 |-> 1]
             p == [i \in 0 .. 0 |-> Length(1)]
             A == [i \in 1 .. 0 |-> 1]
  <2>1. Steps \in Nat /\ Steps >= 4 /\ 1 \in 1 .. Steps
    BY SweepLines
  <2>2. Length(1) \in Nat /\ Length(1) >= 2
    BY <2>1, LineShape
  <2>3. Len(ring) = 0 /\ Len(wire) = 0 /\ Len(answers) = 0
    BY <1>1
  <2>4. Count(ring, wire, 0) = 0
    BY <2>3 DEF Count
  <2>13. at = 1 /\ 1 .. Len(answers) = {}
    <3>1. at = 1
      BY <1>1
    <3>2. 1 .. 0 = {}
      OBVIOUS
    <3>3. 1 .. Len(answers) = {}
      BY <2>3, <3>2
    <3> QED BY <3>1, <3>3
  <2>14. ~ (at \in 2 .. Steps - 1) /\ at # Steps
    BY <2>1, <2>13
  <2>5. /\ c[0] = 1 /\ p[0] = Length(1) /\ c \in [0 .. 0 -> 1 .. 1] /\ p \in [0 .. 0 -> Nat]
        /\ A \in [1 .. 0 -> 1 .. 1]
    BY <2>2
  <2> HIDE DEF c, p, A
  <2>6. Stream(ring, wire, at, c, p, 0)
    <3>1. 0 .. 0 = {0} /\ 1 .. 0 = {} /\ 1 .. 1 = {1}
      OBVIOUS
    <3>2. c \in [0 .. 0 -> 1 .. at]
      BY <1>1, <2>5
    <3>3. p[0] \in 1 .. Length(c[0])
      BY <2>2, <2>5
    <3>4. Len(ring) + Len(wire) = 0
      BY <2>3
    <3> QED BY <2>4, <2>5, <3>1, <3>2, <3>3, <3>4 DEF Stream
  <2>7. Accumulated(rx, c[0], p[0], FALSE)
    <3>1. rx.line = <<>> /\ ~rx.overflowed
      BY <1>1
    <3> QED BY <2>5, <3>1 DEF Accumulated
  <2>8. Transit(c, p, 0, FALSE)
    BY <2>6, <2>7 DEF Transit
  <2>9. Labelled(c, A)
    <3>1. A \in [1 .. Len(answers) -> 1 .. at]
      BY <2>3, <2>5, <2>13
    <3>2. c[0] >= at - 1
      BY <2>5, <2>13
    <3> QED BY <2>13, <3>1, <3>2 DEF Labelled
  <2>10. Setting(A)
    BY <2>13, <2>14 DEF Setting
  <2>11. Dwelling(c, 0)
    BY <1>1, <2>14 DEF Dwelling
  <2>12. Resuming(c, p, 0)
    <3>1. c[0] # Steps
      BY <2>1, <2>5
    <3> QED BY <1>1, <2>14, <3>1 DEF Resuming
  <2> QED BY <2>8, <2>9, <2>10, <2>11, <2>12 DEF Evidence
<1> QED BY <1>2, <1>3 DEF SweepInv

\* A step of the bench.
LEMMA SweepInvStep ==
  SweepInv /\ BenchTypeOK /\ BenchTypeOK' /\ [BenchNext]_benchVars => SweepInv'
<1> SUFFICES ASSUME SweepInv, BenchTypeOK, BenchTypeOK', BenchNext \/ UNCHANGED benchVars
             PROVE  SweepInv'
  OBVIOUS
<1>1. /\ Manners' /\ (Sweeping' <=> Sweeping)
      /\ garbled => garbled'
      /\ losses \in Nat /\ (losses' = losses \/ losses' = losses + 1)
  BY MannersKept DEF SweepInv
<1>2. losses' <= 1 => losses <= 1
  BY <1>1
<1>3. Sound' => Sound
  BY <1>1, <1>2 DEF Sound
<1>4. ASSUME Sweeping, Sound'
      PROVE  /\ \E c, p, g, b, A : Evidence(c, p, g, b, A)'
             /\ \/ rows' = rows
                \/ \E r : rows' = Append(rows, r) /\ (Dwell > 1 => r.rpm = {r.duty})
  <2>1. PICK c, p, g, b, A : Evidence(c, p, g, b, A)
    BY <1>3, <1>4 DEF SweepInv
  <2> QED BY <1>4, <2>1, EvidenceKept DEF SweepInv
<1>5. ASSUME losses' <= 1, Dwell > 1 PROVE RowsMeasured'
  <2>1. CASE garbled'
    BY <2>1 DEF RowsMeasured
  <2>2. CASE ~garbled'
    <3>1. Sound' /\ ~garbled
      BY <1>1, <1>5, <2>2 DEF Sound
    <3>2. \A i \in DOMAIN rows : rows[i].rpm = {rows[i].duty}
      BY <1>2, <1>5, <3>1 DEF SweepInv, RowsMeasured
    <3>3. \/ rows' = rows
          \/ \E r : rows' = Append(rows, r) /\ (Dwell > 1 => r.rpm = {r.duty})
      BY <1>4, <3>1, OtherRows
    <3>4. CASE rows' = rows
      BY <3>2, <3>4 DEF RowsMeasured
    <3>5. ASSUME NEW r, rows' = Append(rows, r), r.rpm = {r.duty}
          PROVE  RowsMeasured'
      <4>1. rows \in Seq(Rows) /\ rows' \in Seq(Rows) /\ Len(rows) \in Nat
        BY LenProperties DEF BenchTypeOK, ToolTypeOK
      <4>2. DOMAIN rows = 1 .. Len(rows) /\ DOMAIN rows' = 1 .. Len(rows) + 1
        BY <3>5, <4>1
      <4>3. (\A i \in 1 .. Len(rows) : rows'[i] = rows[i]) /\ rows'[Len(rows) + 1] = r
        BY <3>5, <4>1
      <4>4. \A i \in 1 .. Len(rows) + 1 : i \in 1 .. Len(rows) \/ i = Len(rows) + 1
        BY <4>1
      <4> QED BY <3>2, <3>5, <4>2, <4>3, <4>4 DEF RowsMeasured
    <3> QED BY <1>5, <3>3, <3>4, <3>5
  <2> QED BY <2>1, <2>2
<1> QED BY <1>1, <1>4, <1>5 DEF SweepInv

\* With a dwell of two windows or more, each row of the sweep's table is the
\* speed of the fan at that row's duty alone, for any ring, line length, list
\* of duties and number of attempts, while at most one byte was lost and no
\* digit (Sound).
THEOREM RowsAreMeasured ==
  ASSUME Dwell > 1
  PROVE  BenchSpec => [](losses <= 1 => RowsMeasured)
<1>1. BenchInit /\ BenchTypeOK => SweepInv
  BY SweepInvInit
<1>2. SweepInv /\ BenchTypeOK /\ BenchTypeOK' /\ [BenchNext]_benchVars => SweepInv'
  BY SweepInvStep
<1>3. SweepInv => (losses <= 1 => RowsMeasured)
  BY DEF SweepInv
<1>4. BenchSpec => []BenchTypeOK
  BY BenchTypes
<1> QED BY <1>1, <1>2, <1>3, <1>4, PTL DEF BenchSpec

\* When the tool says that the loop is resumed, on a line that lost nothing
\* and not interrupted, the firmware regulates or the command is on its way.
THEOREM ResumedUnlessStopped ==
  ASSUME LineMax > 2
  PROVE  BenchSpec => [](losses = 0 /\ ~stopped /\ said = "resumed" => ~bypass \/ Underway)
<1>1. BenchInit /\ BenchTypeOK => SweepInv
  BY SweepInvInit
<1>2. SweepInv /\ BenchTypeOK /\ BenchTypeOK' /\ [BenchNext]_benchVars => SweepInv'
  BY SweepInvStep
<1>3. SweepInv /\ BenchTypeOK => (losses = 0 /\ ~stopped /\ said = "resumed" => ~bypass \/ Underway)
  <2> SUFFICES ASSUME SweepInv, BenchTypeOK, losses = 0, ~stopped, said = "resumed", ~Underway
               PROVE  ~bypass
    OBVIOUS
  <2>1. Sweeping /\ Sound
    BY DEF SweepInv, Manners, Sound
  <2>2. PICK c, p, g, b, A : Evidence(c, p, g, b, A)
    BY <2>1 DEF SweepInv
  <2>3. g = 0 /\ Stream(ring, wire, at, c, p, g) /\ Resuming(c, p, g)
    BY <2>2 DEF Evidence, Transit
  <2>4. Count(ring, wire, g) = 0
    <3>1. wire = <<>> /\ ring = <<>>
      BY DEF Underway
    <3>2. Len(ring) = 0 /\ Len(wire) = 0
      BY <3>1
    <3> QED BY <2>3, <3>2 DEF Count
  <2>5. p[0] = Length(c[0])
    BY <2>3, <2>4 DEF Stream
  <2> QED BY <2>3, <2>4, <2>5 DEF Resuming, Final
<1>4. BenchSpec => []BenchTypeOK
  BY BenchTypes
<1> QED BY <1>1, <1>2, <1>3, <1>4, PTL DEF BenchSpec
=============================================================================
