----------------------------- MODULE HilLinkProofs -----------------------------
(***************************************************************************)
(* What the daemon can rely on however the serial line cuts, damages or     *)
(* loses its frames: the receive buffer never fills up (RoomLeft), no       *)
(* damaged frame becomes a reading (ReadingsReal) and a peripheral that has *)
(* gone silent is noticed (SilenceNoticed).                                  *)
(*                                                                         *)
(* The sliding window is a recursive function: that it is defined for every *)
(* buffer comes from LinearRecursion, and what it leaves and dispatches     *)
(* from the shortest buffer that would be a counterexample.                  *)
(***************************************************************************)
EXTENDS HilLink, CommonFacts, SequenceTheorems

Sorts == {Temp, Other, Noise}

\* What the window makes of a buffer.
Verdicts == [left : Seq(Units), got : Seq(Sorts)]

\* A buffer the window waits on: empty, or the beginning of a frame.
Waits(buf) == buf = <<>> \/ (Claim(buf) /\ Len(buf) < Need(buf))

\* A frame it dispatches is at the head of the buffer.
Whole(buf) == ~ Waits(buf) /\ Claim(buf) /\ Intact(buf)

\* Where it goes on.
Rest(buf) == IF Whole(buf) THEN SubSeq(buf, Need(buf) + 1, Len(buf)) ELSE AfterBad(buf)

-----------------------------------------------------------------------------
(* The window. *)

\* The units are headers, bodies and checksums.
LEMMA UnitForms ==
  ASSUME NEW u \in Units
  PROVE  /\ IsHeaderer(u) => u[2] \in 1 .. MaxPayload + 1
         /\ ~ IsHeaderer(u) => u[1] \in {"body", "check"} /\ u[2] \in Sorts
         /\ u = <<u[1], u[2]>>
BY DEF Units, IsHeaderer, Sorts

\* A whole frame is a header, a body and the checksum of that body.
LEMMA WholeFrame ==
  ASSUME NEW buf \in Seq(Units), Whole(buf)
  PROVE  /\ Len(buf) >= 3 /\ Need(buf) = 3
         /\ buf[2][2] \in Sorts /\ buf[3] = Check(buf[2][2])
<1>1. buf # <<>> /\ Claim(buf) /\ Intact(buf) /\ ~ (Len(buf) < Need(buf))
  BY DEF Whole, Waits
<1>2. Len(buf) \in Nat /\ Len(buf) >= 1 /\ buf[1] \in Units
  BY <1>1
<1>3. IsHeaderer(buf[1]) /\ buf[1][2] \in 1 .. MaxPayload + 1 /\ MaxPayload \in Nat
  BY <1>1, <1>2, UnitForms, LinkAssumption DEF Claim
<1>4. Need(buf) \in Nat /\ Need(buf) >= 3 /\ Len(buf) >= Need(buf)
  BY <1>1, <1>2, <1>3 DEF Need
<1> DEFINE n == Need(buf)
           x == buf[2][2]
<1>5. SubSeq(buf, 1, n) = <<Header(1), Body(x), Check(x)>>
  BY <1>1 DEF Intact, Frame
<1>6. Len(SubSeq(buf, 1, n)) = n /\ \A i \in 1 .. n : SubSeq(buf, 1, n)[i] = buf[i]
  <2>1. n \in Nat /\ 1 <= n /\ \A i \in 1 .. n : buf[i] \in Units
    BY <1>2, <1>4
  <2> HIDE DEF n
  <2>2. Len(SubSeq(buf, 1, n)) = n
    BY <2>1, SubSeqProperties
  <2>3. \A i \in 1 .. n : SubSeq(buf, 1, n)[i] = buf[i]
    BY <2>1, SubSeqProperties
  <2> QED BY <2>2, <2>3
<1>7. n = 3
  BY <1>5, <1>6
<1>8. buf[2] = Body(x) /\ buf[3] = Check(x)
  <2>1. SubSeq(buf, 1, n)[2] = Body(x) /\ SubSeq(buf, 1, n)[3] = Check(x)
    <3> DEFINE s == SubSeq(buf, 1, n)
    <3>1. s = <<Header(1), Body(x), Check(x)>>
      BY <1>5
    <3> HIDE DEF s
    <3>2. s[2] = Body(x) /\ s[3] = Check(x)
      BY <3>1
    <3> QED BY <3>2 DEF s
  <2> HIDE DEF n, x
  <2> QED BY <1>6, <1>7, <2>1
<1>9. buf[2] \in Units
  BY <1>2, <1>4, <1>7
<1>10. ~ IsHeaderer(buf[2])
  BY <1>8 DEF Body, IsHeaderer
<1>11. x \in Sorts
  BY <1>9, <1>10, UnitForms
<1> QED BY <1>4, <1>7, <1>8, <1>11

\* The window moves on to a shorter buffer, made of units of this one.
LEMMA RestShorter ==
  ASSUME NEW buf \in Seq(Units), ~ Waits(buf)
  PROVE  /\ Rest(buf) \in Seq(Units) /\ Len(Rest(buf)) < Len(buf)
         /\ \A i \in 1 .. Len(Rest(buf)) : \E j \in 1 .. Len(buf) : Rest(buf)[i] = buf[j]
<1>1. buf # <<>> /\ Len(buf) \in Nat /\ Len(buf) >= 1
  BY DEF Waits
<1>2. CASE Whole(buf)
  <2> DEFINE n == Len(buf)
  <2>1. Rest(buf) = SubSeq(buf, 4, n) /\ n >= 3
    BY <1>2, WholeFrame DEF Rest
  <2>2. n \in Nat /\ \A i \in 4 .. n : buf[i] \in Units
    BY <1>1
  <2>3. SubSeq(buf, 4, n) \in Seq(Units)
    BY <2>2, SubSeqProperties, <2>1
  <2>4. Len(SubSeq(buf, 4, n)) = n - 3
    <3>1. Len(SubSeq(buf, 4, n)) = IF 4 <= n THEN n - 4 + 1 ELSE 0
      BY <2>2, SubSeqProperties
    <3> HIDE DEF n
    <3> QED BY <2>1, <2>2, <3>1
  <2>5. \A i \in 1 .. n - 3 : SubSeq(buf, 4, n)[i] = buf[i + 3] /\ i + 3 \in 1 .. n
    BY <2>1, <2>2, SubSeqProperties
  <2> HIDE DEF n
  <2> QED BY <2>1, <2>2, <2>3, <2>4, <2>5 DEF n
<1>3. CASE ~ Whole(buf)
  <2>1. Rest(buf) = Tail(buf)
    BY <1>3 DEF Rest, AfterBad
  <2>2. Tail(buf) \in Seq(Units) /\ Len(Tail(buf)) = Len(buf) - 1
    BY <1>1
  <2>3. \A i \in 1 .. Len(buf) - 1 : Tail(buf)[i] = buf[i + 1] /\ i + 1 \in 1 .. Len(buf)
    BY <1>1
  <2> QED BY <1>1, <2>1, <2>2, <2>3
<1> QED BY <1>2, <1>3

-----------------------------------------------------------------------------
(* The recursion. *)

\* The window is defined for every buffer.
LEMMA ScanRecursion ==
  Scan = [buf \in Seq(Units) |->
    IF buf = <<>> \/ (Claim(buf) /\ Len(buf) < Need(buf))
    THEN [left |-> buf, got |-> <<>>]
    ELSE IF Claim(buf) /\ Intact(buf)
    THEN [Scan[SubSeq(buf, Need(buf) + 1, Len(buf))] EXCEPT !.got = <<buf[2][2]>> \o @]
    ELSE Scan[AfterBad(buf)]]
<1> DEFINE D == Seq(Units)
           stop == {buf \in D : Waits(buf)}
           rank == [buf \in D |-> Len(buf)]
           base == [buf \in stop |-> [left |-> buf, got |-> <<>>]]
           next == [buf \in D \ stop |-> Rest(buf)]
           comb == [p \in (D \ stop) \X Verdicts |->
                      IF Whole(p[1]) THEN [p[2] EXCEPT !.got = <<p[1][2][2]>> \o @] ELSE p[2]]
<1>1. stop \in SUBSET D /\ rank \in [D -> Nat] /\ base \in [stop -> Verdicts]
  BY DEF Verdicts
<1>2. next \in [D \ stop -> D] /\ \A x \in D \ stop : rank[next[x]] < rank[x]
  BY RestShorter
<1>3. comb \in [(D \ stop) \X Verdicts -> Verdicts]
  <2>1. ASSUME NEW buf \in D \ stop, NEW v \in Verdicts
        PROVE  (IF Whole(buf) THEN [v EXCEPT !.got = <<buf[2][2]>> \o @] ELSE v) \in Verdicts
    <3>1. CASE Whole(buf)
      <4>1. buf[2][2] \in Sorts
        BY <3>1, WholeFrame
      <4>2. v.got \in Seq(Sorts) /\ <<buf[2][2]>> \o v.got \in Seq(Sorts)
        BY <4>1 DEF Verdicts
      <4> QED BY <3>1, <4>2 DEF Verdicts
    <3> QED BY <3>1
  <2> HIDE DEF D, stop
  <2> QED BY <2>1
<1>4. PICK f \in [D -> Verdicts] : Solves(f, D, stop, base, next, comb)
  <2> HIDE DEF D, stop, rank, base, next, comb
  <2> QED BY <1>1, <1>2, <1>3, LinearRecursion
<1> DEFINE body(g, buf) ==
      IF buf = <<>> \/ (Claim(buf) /\ Len(buf) < Need(buf))
      THEN [left |-> buf, got |-> <<>>]
      ELSE IF Claim(buf) /\ Intact(buf)
      THEN [g[SubSeq(buf, Need(buf) + 1, Len(buf))] EXCEPT !.got = <<buf[2][2]>> \o @]
      ELSE g[AfterBad(buf)]
<1>5. ASSUME NEW x \in D PROVE f[x] = body(f, x)
  <2>1. CASE Waits(x)
    <3>1. f[x] = [left |-> x, got |-> <<>>]
      BY <1>4, <2>1 DEF Solves
    <3> QED BY <2>1, <3>1 DEF Waits
  <2>2. CASE ~ Waits(x)
    <3>1. x \in D \ stop /\ Rest(x) \in D
      BY <2>2, RestShorter
    <3>2. f[Rest(x)] \in Verdicts
      BY <1>4, <3>1
    <3>3. f[x] = comb[<<x, f[Rest(x)]>>]
      BY <1>4, <3>1 DEF Solves
    <3>4. f[x] = IF Whole(x) THEN [f[Rest(x)] EXCEPT !.got = <<x[2][2]>> \o @] ELSE f[Rest(x)]
      BY <3>1, <3>2, <3>3
    <3> QED BY <2>2, <3>4 DEF Waits, Whole, Rest
  <2> QED BY <2>1, <2>2
<1>6. f = [buf \in D |-> body(f, buf)]
  <2> HIDE DEF body
  <2> QED BY <1>4, <1>5
<1>7. \E g : g = [buf \in Seq(Units) |-> body(g, buf)]
  BY <1>6
<1> QED BY <1>7 DEF Scan

\* What it computes from a buffer.
LEMMA ScanStep ==
  ASSUME NEW buf \in Seq(Units)
  PROVE  /\ Waits(buf) => Scan[buf] = [left |-> buf, got |-> <<>>]
         /\ Whole(buf) => Scan[buf] = [Scan[Rest(buf)] EXCEPT !.got = <<buf[2][2]>> \o @]
         /\ ~ Waits(buf) /\ ~ Whole(buf) => Scan[buf] = Scan[Rest(buf)]
<1>1. Scan[buf] = IF Waits(buf) THEN [left |-> buf, got |-> <<>>]
                  ELSE IF Claim(buf) /\ Intact(buf)
                  THEN [Scan[SubSeq(buf, Need(buf) + 1, Len(buf))] EXCEPT !.got = <<buf[2][2]>> \o @]
                  ELSE Scan[AfterBad(buf)]
  BY ScanRecursion DEF Waits
<1> QED BY <1>1 DEF Whole, Rest

\* A property of the verdicts that the window's steps keep holds of every
\* verdict, for a set Proper of verdicts and a set From of buffers.
LEMMA ScanInduction ==
  ASSUME NEW From \in SUBSET Seq(Units), NEW Proper \in SUBSET Verdicts,
         \A buf \in From : Waits(buf) => [left |-> buf, got |-> <<>>] \in Proper,
         \A buf \in From : ~ Waits(buf) => Rest(buf) \in From,
         \A buf \in From : Whole(buf) => \A v \in Proper : [v EXCEPT !.got = <<buf[2][2]>> \o @] \in Proper
  PROVE  \A buf \in From : Scan[buf] \in Proper
<1> DEFINE T == {Len(buf) : buf \in {buf \in From : Scan[buf] \notin Proper}}
<1>1. SUFFICES ASSUME T # {} PROVE FALSE
  OBVIOUS
<1>2. T \in SUBSET Nat
  OBVIOUS
<1>3. PICK n \in T : \A m \in T : n <= m
  <2> HIDE DEF T
  <2> QED BY <1>1, <1>2, LeastNatural
<1>4. PICK buf \in From : Scan[buf] \notin Proper /\ Len(buf) = n
  BY <1>3
<1>5. ~ Waits(buf)
  BY <1>4, ScanStep
<1>6. Rest(buf) \in From /\ Len(Rest(buf)) < Len(buf)
  BY <1>5, RestShorter
<1>7. Scan[Rest(buf)] \in Proper
  <2>1. SUFFICES ASSUME Scan[Rest(buf)] \notin Proper PROVE FALSE
    OBVIOUS
  <2>2. Len(Rest(buf)) \in T
    BY <1>6, <2>1
  <2>3. Len(buf) <= Len(Rest(buf)) /\ Len(buf) \in Nat /\ Len(Rest(buf)) \in Nat
    <3>1. Len(buf) \in Nat /\ Len(Rest(buf)) \in Nat
      BY <1>6
    <3> HIDE DEF T
    <3> QED BY <1>3, <1>4, <2>2, <3>1
  <2> QED BY <1>6, <2>3
<1>8. Scan[buf] \in Proper
  <2>1. CASE Whole(buf)
    <3>1. Scan[buf] = [Scan[Rest(buf)] EXCEPT !.got = <<buf[2][2]>> \o @]
      BY <2>1, ScanStep
    <3> QED BY <1>7, <2>1, <3>1
  <2>2. CASE ~ Whole(buf)
    BY <1>5, <1>7, <2>2, ScanStep
  <2> QED BY <2>1, <2>2
<1> QED BY <1>4, <1>8

\* A drain leaves the beginning of a frame at most.
LEMMA ScanLeavesWaiting ==
  ASSUME NEW buf \in Seq(Units)
  PROVE  Scan[buf] \in Verdicts /\ Waits(Scan[buf].left)
<1> DEFINE From == Seq(Units)
           Proper == {v \in Verdicts : Waits(v.left)}
<1>1. ASSUME NEW b \in From, Waits(b) PROVE [left |-> b, got |-> <<>>] \in Proper
  BY <1>1 DEF Verdicts
<1>2. ASSUME NEW b \in From, ~ Waits(b) PROVE Rest(b) \in From
  BY <1>2, RestShorter
<1>3. ASSUME NEW b \in From, Whole(b), NEW v \in Proper
      PROVE  [v EXCEPT !.got = <<b[2][2]>> \o @] \in Proper
  <2>1. b[2][2] \in Sorts
    BY <1>3, WholeFrame
  <2>2. <<b[2][2]>> \o v.got \in Seq(Sorts)
    BY <2>1 DEF Verdicts
  <2> QED BY <2>2 DEF Verdicts
<1>4. \A b \in From : Scan[b] \in Proper
  <2>1. From \in SUBSET Seq(Units) /\ Proper \in SUBSET Verdicts
    OBVIOUS
  <2> HIDE DEF From, Proper
  <2> QED BY <1>1, <1>2, <1>3, <2>1, ScanInduction
<1> QED BY <1>4

\* Units of which none is the checksum of noise.
NoNoiseIn(units) == \A i \in 1 .. Len(units) : units[i] # Check(Noise)

\* From such units no frame of noise is dispatched.
LEMMA ScanIsReal ==
  ASSUME NEW buf \in Seq(Units), NoNoiseIn(buf)
  PROVE  /\ NoNoiseIn(Scan[buf].left)
         /\ \A i \in 1 .. Len(Scan[buf].got) : Scan[buf].got[i] # Noise
<1> DEFINE From == {b \in Seq(Units) : NoNoiseIn(b)}
           Proper == {v \in Verdicts : /\ NoNoiseIn(v.left)
                                       /\ \A i \in 1 .. Len(v.got) : v.got[i] # Noise}
<1>1. ASSUME NEW b \in From, Waits(b) PROVE [left |-> b, got |-> <<>>] \in Proper
  BY <1>1 DEF Verdicts
<1>2. ASSUME NEW b \in From, ~ Waits(b) PROVE Rest(b) \in From
  BY <1>2, RestShorter DEF NoNoiseIn
<1>3. ASSUME NEW b \in From, Whole(b), NEW v \in Proper
      PROVE  [v EXCEPT !.got = <<b[2][2]>> \o @] \in Proper
  <2> DEFINE x == b[2][2]
  <2>1. x \in Sorts /\ b[3] = Check(x) /\ Len(b) >= 3
    BY <1>3, WholeFrame
  <2>2. x # Noise
    BY <2>1 DEF NoNoiseIn
  <2>3. v.got \in Seq(Sorts) /\ v \in Verdicts
    BY DEF Verdicts
  <2> HIDE DEF x
  <2>4. <<x>> \o v.got \in Seq(Sorts)
    BY <2>1, <2>3
  <2>5. \A i \in 1 .. Len(<<x>> \o v.got) : (<<x>> \o v.got)[i] # Noise
    BY <2>1, <2>2, <2>3
  <2>6. [v EXCEPT !.got = <<x>> \o @] \in Proper
    BY <2>3, <2>4, <2>5 DEF Verdicts
  <2> QED BY <2>6 DEF x
<1>4. \A b \in From : Scan[b] \in Proper
  <2>1. From \in SUBSET Seq(Units) /\ Proper \in SUBSET Verdicts
    OBVIOUS
  <2> HIDE DEF From, Proper
  <2> QED BY <1>1, <1>2, <1>3, <2>1, ScanInduction
<1> QED BY <1>4

-----------------------------------------------------------------------------
(* The invariant. *)

LinkTyped ==
  /\ pc \in {"emit", "tach", "drain", "ack"} /\ fan \in Duties
  /\ commands \in Seq(Duties) /\ Len(commands) <= MaxCmds
  /\ pipe \in Seq(Units) /\ Len(pipe) <= PipeCap
  /\ up \in BOOLEAN /\ duty \in Duties
  /\ rx \in Seq(Units)
  /\ cell \in [value : {None, Temp, Noise}, age : 0 .. Patience + 1]
  /\ quiet \in 0 .. Patience + 1

\* What has reached the daemon's buffer was taken apart as far as it goes.
WindowDrained == Waits(rx)

\* No checksum on its way is that of noise.
StreamReal == NoNoiseIn(pipe) /\ NoNoiseIn(rx) /\ cell.value # Noise

\* The line is emptied at a unit a period at least.
LineDrains == pipe # <<>> => quiet + Len(pipe) <= PipeCap

\* The reading is no older than the silence, but for the time the line takes to
\* be emptied.
ReadingDated == cell.value # None => quiet <= cell.age + PipeCap \/ cell.age > Patience

LinkInv == LinkTyped /\ WindowDrained /\ StreamReal /\ LineDrains /\ ReadingDated

\* The assumptions on the sizes of the link, as numbers.
LEMMA LinkNumbers ==
  /\ MaxPayload \in Nat \ {0, 1} /\ RxCap \in Nat /\ RxCap = MaxPayload + 2
  /\ PipeCap \in Nat /\ Staleness \in Nat /\ Patience \in Nat /\ Patience = Staleness + PipeCap
BY LinkAssumption DEF RxCap, Patience

\* A count of periods grows by one, up to its cap.
LEMMA LaterTyped ==
  ASSUME NEW n \in 0 .. Patience + 1
  PROVE  /\ Later(n) \in 0 .. Patience + 1 /\ Later(n) <= n + 1 /\ Later(n) >= n
         /\ Later(n) = n + 1 \/ n > Patience
BY LinkNumbers DEF Later

\* A window that waits leaves room in the buffer.
LEMMA WaitingLeavesRoom ==
  ASSUME rx \in Seq(Units), Waits(rx)
  PROVE  Len(rx) \in Nat /\ Len(rx) < RxCap
<1>1. Len(rx) \in Nat
  OBVIOUS
<1>2. CASE rx = <<>>
  BY <1>1, <1>2, LinkNumbers
<1>3. CASE rx # <<>>
  <2>1. Claim(rx) /\ Len(rx) < Need(rx) /\ rx[1] \in Units
    BY <1>3 DEF Waits
  <2>2. rx[1][2] \in 1 .. MaxPayload + 1 /\ rx[1][2] <= MaxPayload
    BY <2>1, UnitForms DEF Claim
  <2> QED BY <1>1, <2>1, <2>2, LinkNumbers DEF Need
<1> QED BY <1>2, <1>3

\* One read: while there is room it takes at least a unit of what has arrived.
LEMMA ReadTakes ==
  ASSUME rx \in Seq(Units), pipe \in Seq(Units), Len(rx) < RxCap, NEW r \in Received
  PROVE  \E n \in 0 .. Len(pipe) :
           /\ r.rx = rx \o SubSeq(pipe, 1, n) /\ r.pipe = SubSeq(pipe, n + 1, Len(pipe))
           /\ n = 0 => pipe = <<>>
<1>1. Len(rx) \in Nat /\ Len(pipe) \in Nat /\ Len(rx) # RxCap
  BY LinkNumbers
<1> DEFINE room == RxCap - Len(rx)
           most == IF Len(pipe) < room THEN Len(pipe) ELSE room
<1>2. room \in Nat /\ room >= 1 /\ most \in 0 .. Len(pipe) /\ (most = 0 => Len(pipe) = 0)
  BY <1>1, LinkNumbers
<1>3. PICK n \in IF most = 0 THEN {0} ELSE 1 .. most :
        r = [rx |-> rx \o SubSeq(pipe, 1, n), pipe |-> SubSeq(pipe, n + 1, Len(pipe))]
  BY <1>1 DEF Received
<1>4. n \in 0 .. Len(pipe) /\ (n = 0 => most = 0)
  BY <1>2
<1>5. n = 0 => pipe = <<>>
  BY <1>2, <1>4
<1> QED BY <1>3, <1>4, <1>5

\* The parts of a sequence of units are sequences of its units.
LEMMA PartOfUnits ==
  ASSUME NEW s \in Seq(Units), NEW a \in 1 .. Len(s) + 1, NEW b \in 0 .. Len(s)
  PROVE  /\ SubSeq(s, a, b) \in Seq(Units)
         /\ Len(SubSeq(s, a, b)) = IF a <= b THEN b - a + 1 ELSE 0
         /\ NoNoiseIn(s) => NoNoiseIn(SubSeq(s, a, b))
<1>1. \A i \in a .. b : s[i] \in Units
  OBVIOUS
<1>2. a \in Int /\ b \in Int /\ Len(s) \in Nat
  OBVIOUS
<1>3. SubSeq(s, a, b) \in Seq(Units)
  BY <1>1, <1>2, SubSeqProperties
<1>4. Len(SubSeq(s, a, b)) = IF a <= b THEN b - a + 1 ELSE 0
  BY <1>1, <1>2, SubSeqProperties
<1>5. \A i \in 1 .. b - a + 1 : SubSeq(s, a, b)[i] = s[a + i - 1]
  BY <1>1, <1>2, SubSeqProperties
<1> DEFINE t == SubSeq(s, a, b)
<1>6. NoNoiseIn(s) => NoNoiseIn(t)
  <2>1. \A i \in 1 .. Len(t) : t[i] = s[a + i - 1] /\ a + i - 1 \in 1 .. Len(s)
    <3>1. Len(t) = IF a <= b THEN b - a + 1 ELSE 0
      BY <1>4
    <3>2. \A i \in 1 .. b - a + 1 : t[i] = s[a + i - 1]
      BY <1>5
    <3> HIDE DEF t
    <3> QED BY <1>2, <3>1, <3>2
  <2> HIDE DEF t
  <2> QED BY <2>1 DEF NoNoiseIn
<1> QED BY <1>3, <1>4, <1>6

\* So is what two of them make.
LEMMA JoinedUnits ==
  ASSUME NEW s \in Seq(Units), NEW t \in Seq(Units)
  PROVE  /\ s \o t \in Seq(Units) /\ Len(s \o t) = Len(s) + Len(t)
         /\ NoNoiseIn(s) /\ NoNoiseIn(t) => NoNoiseIn(s \o t)
<1>1. s \o t \in Seq(Units) /\ Len(s \o t) = Len(s) + Len(t)
  OBVIOUS
<1>2. \A i \in 1 .. Len(s \o t) : (s \o t)[i] = IF i <= Len(s) THEN s[i] ELSE t[i - Len(s)]
  OBVIOUS
<1>3. Len(s) \in Nat /\ Len(t) \in Nat
  OBVIOUS
<1> DEFINE j == s \o t
<1>4. NoNoiseIn(s) /\ NoNoiseIn(t) => NoNoiseIn(j)
  <2>1. Len(j) = Len(s) + Len(t) /\ \A i \in 1 .. Len(j) : j[i] = IF i <= Len(s) THEN s[i] ELSE t[i - Len(s)]
    BY <1>1, <1>2
  <2> HIDE DEF j
  <2> QED BY <1>3, <2>1 DEF NoNoiseIn
<1> QED BY <1>1, <1>4

\* The cache after a drain: a sample dispatched is a real one and new, otherwise
\* the one it held is a period older.
LEMMA CachedTyped ==
  ASSUME NEW got \in Seq(Sorts), \A i \in 1 .. Len(got) : got[i] # Noise,
         cell \in [value : {None, Temp, Noise}, age : 0 .. Patience + 1]
  PROVE  /\ Cached(got) \in [value : {None, Temp, Noise}, age : 0 .. Patience + 1]
         /\ \/ Cached(got).value = Temp /\ Cached(got).age = 0 /\ got # <<>>
            \/ Cached(got).value = cell.value /\ Cached(got).age = Later(cell.age)
<1> DEFINE samples == {i \in DOMAIN got : got[i] # Other}
<1>1. Len(got) \in Nat /\ DOMAIN got = 1 .. Len(got) /\ samples \in SUBSET (0 .. Len(got))
  OBVIOUS
<1>2. CASE samples = {}
  <2>1. Cached(got) = [cell EXCEPT !.age = Later(@)]
    BY <1>2 DEF Cached
  <2> QED BY <2>1, LaterTyped
<1>3. CASE samples # {}
  <2>1. Max(samples) \in samples
    <3> HIDE DEF samples
    <3> QED BY <1>1, <1>3, MaxOfBounded
  <2>2. Cached(got) = [value |-> got[Max(samples)], age |-> 0]
    BY <1>3 DEF Cached
  <2> DEFINE k == Max(samples)
  <2>3. k \in 1 .. Len(got) /\ got[k] # Other /\ got[k] # Noise /\ got[k] \in Sorts
    <3>1. k \in DOMAIN got /\ got[k] # Other
      BY <2>1
    <3> HIDE DEF k
    <3> QED BY <1>1, <3>1
  <2>4. got[k] = Temp
    <3> HIDE DEF k
    <3> QED BY <2>3 DEF Sorts
  <2>5. 0 \in 0 .. Patience + 1 /\ got # <<>>
    <3>1. Len(got) >= 1
      <4> HIDE DEF k
      <4> QED BY <1>1, <2>3
    <3> QED BY <3>1, LinkNumbers
  <2>6. Cached(got) = [value |-> Temp, age |-> 0]
    BY <2>2, <2>4
  <2> QED BY <2>5, <2>6
<1> QED BY <1>2, <1>3

\* What the peripheral may put on the line for a sample, a count or an
\* acknowledgement.
LEMMA SentIsUnits ==
  ASSUME NEW x \in {Temp, Other}, NEW f \in {Frame(x)} \cup Damaged(x)
  PROVE  f \in Seq(Units) /\ NoNoiseIn(f) /\ Len(f) \in 2 .. 3
<1>1. /\ Header(1) \in Units /\ Header(MaxPayload) \in Units /\ Header(MaxPayload + 1) \in Units
      /\ Body(x) \in Units /\ Body(Noise) \in Units /\ Check(x) \in Units
  <2>1. {1, MaxPayload, MaxPayload + 1} \subseteq 1 .. MaxPayload + 1
    BY LinkNumbers
  <2> QED BY <2>1 DEF Units, Header, Body, Check
<1>2. /\ Header(1) # Check(Noise) /\ Header(MaxPayload) # Check(Noise)
      /\ Header(MaxPayload + 1) # Check(Noise)
      /\ Body(x) # Check(Noise) /\ Body(Noise) # Check(Noise) /\ Check(x) # Check(Noise)
  BY DEF Header, Body, Check, Temp, Other, Noise
<1>3. \/ f = <<Header(1), Body(x), Check(x)>> \/ f = <<Header(1), Body(x)>>
      \/ f = <<Header(1), Body(Noise), Check(x)>> \/ f = <<Header(MaxPayload), Body(x), Check(x)>>
      \/ f = <<Header(MaxPayload + 1), Body(x), Check(x)>>
  BY DEF Frame, Damaged
<1>4. ASSUME NEW a \in Units, NEW b \in Units, NEW c \in Units,
             a # Check(Noise), b # Check(Noise), c # Check(Noise)
      PROVE  /\ <<a, b>> \in Seq(Units) /\ NoNoiseIn(<<a, b>>) /\ Len(<<a, b>>) \in 2 .. 3
             /\ <<a, b, c>> \in Seq(Units) /\ NoNoiseIn(<<a, b, c>>) /\ Len(<<a, b, c>>) \in 2 .. 3
  BY <1>4 DEF NoNoiseIn
<1> QED BY <1>1, <1>2, <1>3, <1>4

-----------------------------------------------------------------------------
(* The steps. *)

\* Both sides start with empty buffers, an empty line and no reading.
LEMMA InitLinkInv == Init => LinkInv
<1> SUFFICES ASSUME Init PROVE LinkInv
  OBVIOUS
<1>1. 0 \in 0 .. Patience + 1 /\ 0 \in Duties /\ <<>> \in Seq(Duties) /\ <<>> \in Seq(Units)
  BY LinkNumbers, LinkAssumption
<1>2. LinkTyped
  <2>1. /\ pc = "emit" /\ fan = 0 /\ pipe = <<>> /\ commands = <<>>
        /\ up = FALSE /\ rx = <<>> /\ cell = [value |-> None, age |-> 0] /\ duty = 0 /\ quiet = 0
    BY DEF Init, NoReading
  <2>2. Len(<<>>) = 0 /\ 0 <= MaxCmds /\ 0 <= PipeCap
    BY LinkNumbers, LinkAssumption
  <2>3. [value |-> None, age |-> 0] \in [value : {None, Temp, Noise}, age : 0 .. Patience + 1]
    BY <1>1
  <2> QED BY <1>1, <2>1, <2>2, <2>3, Zenon DEF LinkTyped
<1> QED BY <1>2 DEF Init, LinkInv, WindowDrained, Waits, StreamReal, NoNoiseIn, LineDrains,
       ReadingDated, NoReading, None, Noise

\* A period of the daemon.
LEMMA HostTickKeeps == ASSUME LinkInv, HostTick PROVE LinkInv'
<1>1. /\ LinkTyped /\ Waits(rx) /\ NoNoiseIn(pipe) /\ NoNoiseIn(rx) /\ cell.value # Noise
      /\ (pipe # <<>> => quiet + Len(pipe) <= PipeCap)
      /\ (cell.value # None => quiet <= cell.age + PipeCap \/ cell.age > Patience)
  BY DEF LinkInv, WindowDrained, StreamReal, LineDrains, ReadingDated
<1>2. /\ rx \in Seq(Units) /\ pipe \in Seq(Units) /\ Len(pipe) <= PipeCap /\ Len(pipe) \in Nat
      /\ cell \in [value : {None, Temp, Noise}, age : 0 .. Patience + 1]
      /\ quiet \in 0 .. Patience + 1 /\ commands \in Seq(Duties) /\ Len(commands) <= MaxCmds
  BY <1>1 DEF LinkTyped
<1>3. PICK r \in Received : rx' = Scan[r.rx].left /\ pipe' = r.pipe /\ cell' = Cached(Scan[r.rx].got)
  BY DEF HostTick
<1>4. PICK n \in 0 .. Len(pipe) :
        /\ r.rx = rx \o SubSeq(pipe, 1, n) /\ r.pipe = SubSeq(pipe, n + 1, Len(pipe))
        /\ n = 0 => pipe = <<>>
  BY <1>1, <1>2, ReadTakes, WaitingLeavesRoom
<1>5. /\ SubSeq(pipe, 1, n) \in Seq(Units) /\ NoNoiseIn(SubSeq(pipe, 1, n))
      /\ r.pipe \in Seq(Units) /\ NoNoiseIn(r.pipe) /\ Len(r.pipe) = Len(pipe) - n
  <2>1. n + 1 \in 1 .. Len(pipe) + 1 /\ Len(pipe) \in 0 .. Len(pipe) /\ 1 \in 1 .. Len(pipe) + 1
    BY <1>2
  <2>2. Len(SubSeq(pipe, n + 1, Len(pipe))) = IF n + 1 <= Len(pipe) THEN Len(pipe) - (n + 1) + 1 ELSE 0
    BY <1>2, <2>1, PartOfUnits
  <2>3. Len(SubSeq(pipe, n + 1, Len(pipe))) = Len(pipe) - n
    BY <1>2, <2>2
  <2>4. SubSeq(pipe, 1, n) \in Seq(Units) /\ NoNoiseIn(SubSeq(pipe, 1, n))
    BY <1>1, <1>2, <2>1, PartOfUnits
  <2>5. r.pipe \in Seq(Units) /\ NoNoiseIn(r.pipe)
    <3> DEFINE p == SubSeq(pipe, n + 1, Len(pipe))
    <3>1. p \in Seq(Units) /\ (NoNoiseIn(pipe) => NoNoiseIn(p))
      BY <1>2, <2>1, PartOfUnits
    <3> QED BY <1>1, <1>4, <3>1, Zenon
  <2> QED BY <1>4, <2>3, <2>4, <2>5
<1>6. r.rx \in Seq(Units) /\ NoNoiseIn(r.rx)
  BY <1>1, <1>2, <1>4, <1>5, JoinedUnits
<1> DEFINE s == Scan[r.rx]
<1>7. s \in Verdicts /\ Waits(s.left) /\ NoNoiseIn(s.left) /\ \A i \in 1 .. Len(s.got) : s.got[i] # Noise
  BY <1>6, ScanLeavesWaiting, ScanIsReal
<1>8. s.left \in Seq(Units) /\ s.got \in Seq(Sorts)
  BY <1>7 DEF Verdicts
<1>9. /\ cell' \in [value : {None, Temp, Noise}, age : 0 .. Patience + 1]
      /\ \/ cell'.value = Temp /\ cell'.age = 0 /\ s.got # <<>>
         \/ cell'.value = cell.value /\ cell'.age = Later(cell.age)
  <2> HIDE DEF s
  <2> QED BY <1>2, <1>3, <1>7, <1>8, CachedTyped DEF s
<1>10. s.got # <<>> => n # 0
  <2>1. SUFFICES ASSUME n = 0 PROVE s.got = <<>>
    OBVIOUS
  <2>2. SubSeq(pipe, 1, 0) = <<>>
    BY SubSeqEmpty
  <2>3. r.rx = rx
    BY <1>2, <1>4, <2>1, <2>2
  <2>4. Scan[rx] = [left |-> rx, got |-> <<>>]
    BY <1>1, <1>2, ScanStep
  <2> QED BY <2>3, <2>4
<1>11. quiet' = Later(quiet)
  BY DEF HostTick
<1>12. LinkTyped'
  <2>1. duty' \in Duties
    BY LinkAssumption DEF HostTick
  <2>2. commands' \in Seq(Duties) /\ Len(commands') <= MaxCmds
    <3>1. PICK c \in Duties : Delivered(c) \/ NotDelivered(c)
      BY LinkAssumption DEF HostTick
    <3>2. CASE Delivered(c)
      <4>1. commands' = Append(commands, c) /\ Len(commands) < MaxCmds /\ MaxCmds \in Nat
        BY <3>2, LinkAssumption DEF Delivered
      <4> QED BY <1>2, <4>1
    <3>3. CASE NotDelivered(c)
      BY <1>2, <3>3 DEF NotDelivered
    <3> QED BY <3>1, <3>2, <3>3
  <2>3. pipe' \in Seq(Units) /\ Len(pipe') <= PipeCap
    <3>1. Len(r.pipe) <= PipeCap
      BY <1>2, <1>5, LinkNumbers
    <3> QED BY <1>3, <1>5, <3>1
  <2>4. quiet' \in 0 .. Patience + 1
    BY <1>2, <1>11, LaterTyped
  <2>5. rx' \in Seq(Units)
    BY <1>3, <1>8
  <2>6. UNCHANGED <<pc, fan, up>>
    BY DEF HostTick, peripheral
  <2> QED BY <1>1, <1>9, <2>1, <2>2, <2>3, <2>4, <2>5, <2>6 DEF LinkTyped
<1>13. Waits(rx)' /\ NoNoiseIn(rx)' /\ NoNoiseIn(pipe)'
  BY <1>3, <1>5, <1>7 DEF Waits, Claim, Need, NoNoiseIn
<1>14. cell'.value # Noise
  BY <1>1, <1>9 DEF Temp, Noise
<1>15. LineDrains'
  <2>1. r.pipe # <<>> => Later(quiet) + Len(r.pipe) <= PipeCap
    <3>1. SUFFICES ASSUME r.pipe # <<>> PROVE Later(quiet) + Len(r.pipe) <= PipeCap
      OBVIOUS
    <3>2. Len(r.pipe) >= 1
      BY <1>5, <3>1
    <3>3. n # 0 /\ pipe # <<>>
      BY <1>2, <1>4, <1>5, <3>2
    <3>4. quiet + Len(pipe) <= PipeCap /\ Later(quiet) <= quiet + 1
      BY <1>1, <1>2, <3>3, LaterTyped
    <3>5. Later(quiet) \in Nat /\ quiet \in Nat
      BY <1>2, LaterTyped
    <3> QED BY <1>2, <1>5, <3>3, <3>4, <3>5, LinkNumbers
  <2>2. pipe' = r.pipe /\ quiet' = Later(quiet)
    BY <1>3, <1>11
  <2> QED BY <2>1, <2>2, Zenon DEF LineDrains
<1>16. ReadingDated'
  <2>1. CASE cell'.value = Temp /\ cell'.age = 0 /\ s.got # <<>>
    <3>1. Len(pipe) >= 1 /\ pipe # <<>>
      BY <1>2, <1>4, <1>10, <2>1
    <3>2. Later(quiet) <= 0 + PipeCap
      <4>1. quiet + Len(pipe) <= PipeCap /\ Later(quiet) <= quiet + 1 /\ Later(quiet) \in Nat /\ quiet \in Nat
        BY <1>1, <1>2, <3>1, LaterTyped
      <4> QED BY <1>2, <3>1, <4>1, LinkNumbers
    <3> QED BY <1>11, <2>1, <3>2, Zenon DEF ReadingDated
  <2>2. CASE cell'.value = cell.value /\ cell'.age = Later(cell.age)
    <3>1. cell.value # None => Later(quiet) <= Later(cell.age) + PipeCap \/ Later(cell.age) > Patience
      <4>1. /\ Later(quiet) <= quiet + 1 /\ Later(quiet) \in Nat /\ quiet \in Nat
            /\ cell.age \in 0 .. Patience + 1
        BY <1>2, LaterTyped
      <4>2. Later(cell.age) \in Nat /\ (Later(cell.age) = cell.age + 1 \/ cell.age > Patience)
        BY <4>1, LaterTyped
      <4>3. Later(cell.age) >= cell.age
        BY <4>1, LaterTyped
      <4> QED BY <1>1, <4>1, <4>2, <4>3, LinkNumbers
    <3> QED BY <1>11, <2>2, <3>1, Zenon DEF ReadingDated
  <2> QED BY <1>9, <2>1, <2>2
<1> QED BY <1>12, <1>13, <1>14, <1>15, <1>16 DEF LinkInv, WindowDrained, StreamReal

\* The daemon stops or is started: its memory of the link is gone, and part of
\* what was on the line may be.
LEMMA RestartKeeps == ASSUME LinkInv, HostStop \/ HostStart PROVE LinkInv'
<1>1. /\ LinkTyped /\ NoNoiseIn(pipe) /\ pipe \in Seq(Units) /\ Len(pipe) <= PipeCap /\ Len(pipe) \in Nat
      /\ (pipe # <<>> => quiet + Len(pipe) <= PipeCap)
  BY DEF LinkInv, StreamReal, LinkTyped, LineDrains
<1>2. /\ rx' = <<>> /\ cell' = NoReading /\ quiet' = 0 /\ up' \in BOOLEAN
      /\ UNCHANGED <<duty, pc, fan, commands>>
  BY DEF HostStop, HostStart, peripheral
<1>3. pipe' \in Seq(Units) /\ Len(pipe') <= PipeCap /\ NoNoiseIn(pipe)'
  <2>1. CASE pipe' = pipe
    BY <1>1, <2>1 DEF NoNoiseIn
  <2>2. CASE \E n \in 0 .. Len(pipe) : pipe' = SubSeq(pipe, n + 1, Len(pipe))
    <3>1. PICK n \in 0 .. Len(pipe) : pipe' = SubSeq(pipe, n + 1, Len(pipe))
      BY <2>2
    <3> DEFINE p == SubSeq(pipe, n + 1, Len(pipe))
    <3>2. n + 1 \in 1 .. Len(pipe) + 1 /\ Len(pipe) \in 0 .. Len(pipe)
      BY <1>1
    <3>3. p \in Seq(Units) /\ (NoNoiseIn(pipe) => NoNoiseIn(p))
          /\ Len(p) = IF n + 1 <= Len(pipe) THEN Len(pipe) - (n + 1) + 1 ELSE 0
      BY <1>1, <3>2, PartOfUnits
    <3>4. Len(p) <= PipeCap
      <4> HIDE DEF p
      <4> QED BY <1>1, <3>2, <3>3, LinkNumbers
    <3>5. pipe' = p
      BY <3>1
    <3> HIDE DEF p
    <3> QED BY <1>1, <3>3, <3>4, <3>5 DEF NoNoiseIn
  <2> QED BY <2>1, <2>2 DEF HostStop, HostStart
<1>4. 0 \in 0 .. Patience + 1 /\ NoReading \in [value : {None, Temp, Noise}, age : 0 .. Patience + 1]
      /\ <<>> \in Seq(Units) /\ NoReading.value = None
  BY LinkNumbers DEF NoReading
<1>5. LinkTyped'
  <2>1. quiet' \in 0 .. Patience + 1 /\ rx' \in Seq(Units)
        /\ cell' \in [value : {None, Temp, Noise}, age : 0 .. Patience + 1]
    BY <1>2, <1>4, Zenon
  <2> QED BY <1>1, <1>2, <1>3, <2>1 DEF LinkTyped
<1>6. WindowDrained' /\ StreamReal'
  BY <1>2, <1>3, <1>4 DEF WindowDrained, Waits, StreamReal, NoNoiseIn, None, Noise
<1>7. LineDrains' /\ ReadingDated'
  <2>1. LineDrains'
    <3> DEFINE p == pipe'
    <3>1. Len(p) <= PipeCap /\ p \in Seq(Units)
      BY <1>3
    <3> HIDE DEF p
    <3>2. 0 + Len(p) <= PipeCap
      BY <3>1, LinkNumbers
    <3> QED BY <1>2, <3>2, Zenon DEF LineDrains, p
  <2> QED BY <1>2, <1>4, <2>1 DEF ReadingDated
<1> QED BY <1>5, <1>6, <1>7 DEF LinkInv

\* A frame is put on the line: the silence ends.
LEMMA SendKeeps ==
  ASSUME LinkInv, NEW x \in {Temp, Other}, Sends(x),
         pc' \in {"emit", "tach", "drain", "ack"}, UNCHANGED <<fan, commands, daemon>>
  PROVE  LinkInv'
<1>1. /\ LinkTyped /\ StreamReal /\ NoNoiseIn(pipe) /\ pipe \in Seq(Units) /\ Len(pipe) \in Nat
      /\ WindowDrained /\ cell.age \in Nat /\ cell' = cell
  BY DEF LinkInv, StreamReal, LinkTyped, daemon
<1>2. PICK f \in {Frame(x)} \cup Damaged(x) : pipe' = pipe \o f
  BY DEF Sends
<1>3. f \in Seq(Units) /\ NoNoiseIn(f) /\ Len(f) \in 2 .. 3
  BY SentIsUnits
<1>4. Len(pipe) + 3 <= PipeCap
  BY DEF Sends, Frame
<1> DEFINE p == pipe \o f
<1>5. p \in Seq(Units) /\ NoNoiseIn(p) /\ Len(p) = Len(pipe) + Len(f)
  BY <1>1, <1>3, JoinedUnits
<1>6. pipe' = p /\ quiet' = 0
  BY <1>2 DEF Sends
<1> HIDE DEF p
<1>7. Len(p) <= PipeCap /\ Len(p) \in Nat
  <2> DEFINE a == Len(pipe)
             b == Len(f)
  <2>1. a \in Nat /\ b \in 2 .. 3 /\ a + 3 <= PipeCap /\ Len(p) = a + b
    BY <1>1, <1>3, <1>4, <1>5
  <2> HIDE DEF a, b
  <2> QED BY <2>1, LinkNumbers
<1>8. 0 \in 0 .. Patience + 1
  BY LinkNumbers
<1>9. LinkTyped'
  <2>1. quiet' \in 0 .. Patience + 1
    BY <1>6, <1>8, Zenon
  <2> QED BY <1>1, <1>5, <1>6, <1>7, <2>1 DEF LinkTyped, daemon
<1>10. WindowDrained' /\ StreamReal'
  BY <1>1, <1>5, <1>6 DEF WindowDrained, Waits, Claim, Need, StreamReal, NoNoiseIn, daemon
<1>11. LineDrains'
  <2>1. 0 + Len(p) <= PipeCap
    BY <1>7, LinkNumbers
  <2> QED BY <1>6, <2>1, Zenon DEF LineDrains
<1>12. ReadingDated'
  <2>1. 0 <= cell.age + PipeCap
    BY <1>1, LinkNumbers
  <2> QED BY <1>1, <1>6, <2>1, Zenon DEF ReadingDated
<1> QED BY <1>9, <1>10, <1>11, <1>12 DEF LinkInv

\* The peripheral's other steps: what is on the line stays, or its end is lost.
LEMMA QuietStepKeeps ==
  ASSUME LinkInv, pc' \in {"emit", "tach", "drain", "ack"}, fan' \in Duties,
         commands' \in Seq(Duties), Len(commands') <= MaxCmds,
         pipe' = pipe \/ \E n \in 0 .. Len(pipe) : pipe' = SubSeq(pipe, 1, n),
         UNCHANGED <<daemon, quiet>>
  PROVE  LinkInv'
<1>1. /\ LinkTyped /\ StreamReal /\ NoNoiseIn(pipe) /\ pipe \in Seq(Units) /\ Len(pipe) \in Nat
      /\ Len(pipe) <= PipeCap /\ WindowDrained /\ LineDrains /\ ReadingDated /\ quiet \in Nat
  BY DEF LinkInv, StreamReal, LinkTyped
<1>2. PICK p \in Seq(Units) : pipe' = p /\ NoNoiseIn(p) /\ Len(p) <= Len(pipe)
  <2>1. CASE pipe' = pipe
    BY <1>1, <2>1
  <2>2. CASE \E n \in 0 .. Len(pipe) : pipe' = SubSeq(pipe, 1, n)
    <3>1. PICK n \in 0 .. Len(pipe) : pipe' = SubSeq(pipe, 1, n)
      BY <2>2
    <3> DEFINE q == SubSeq(pipe, 1, n)
    <3>2. 1 \in 1 .. Len(pipe) + 1 /\ n \in Nat /\ n <= Len(pipe)
      BY <1>1
    <3>3. q \in Seq(Units) /\ NoNoiseIn(q) /\ Len(q) = IF 1 <= n THEN n - 1 + 1 ELSE 0
      BY <1>1, <3>2, PartOfUnits
    <3>4. Len(q) <= Len(pipe)
      <4> HIDE DEF q
      <4> QED BY <1>1, <3>2, <3>3
    <3> QED BY <3>1, <3>3, <3>4
  <2> QED BY <2>1, <2>2
<1>3. Len(p) \in Nat /\ (p # <<>> => Len(p) >= 1) /\ (Len(pipe) >= 1 => pipe # <<>>)
  BY <1>1
<1>4. LinkTyped'
  <2>1. Len(p) <= PipeCap
    BY <1>1, <1>2, <1>3, LinkNumbers
  <2> QED BY <1>1, <1>2, <2>1 DEF LinkTyped, daemon
<1>5. WindowDrained' /\ StreamReal' /\ ReadingDated'
  BY <1>1, <1>2 DEF WindowDrained, Waits, Claim, Need, StreamReal, NoNoiseIn, ReadingDated, daemon
<1>6. LineDrains'
  <2>1. p # <<>> => quiet + Len(p) <= PipeCap
    BY <1>1, <1>2, <1>3, LinkNumbers DEF LineDrains
  <2> QED BY <1>2, <2>1, Zenon DEF LineDrains
<1> QED BY <1>4, <1>5, <1>6 DEF LinkInv

\* Every step of the daemon, the peripheral and the line keeps the invariant.
LEMMA NextLinkInv == LinkInv /\ [Next]_vars => LinkInv'
<1> SUFFICES ASSUME LinkInv, [Next]_vars PROVE LinkInv'
  OBVIOUS
<1>1. /\ pc \in {"emit", "tach", "drain", "ack"} /\ fan \in Duties
      /\ commands \in Seq(Duties) /\ Len(commands) <= MaxCmds /\ MaxCmds \in Nat
  BY LinkAssumption DEF LinkInv, LinkTyped
<1>2. CASE HostTick
  BY <1>2, HostTickKeeps
<1>3. CASE HostStop \/ HostStart
  BY <1>3, RestartKeeps
<1>4. CASE EmitSample
  <2>1. CASE Sends(Temp)
    BY <1>4, <2>1, SendKeeps DEF EmitSample
  <2>2. CASE UNCHANGED <<pipe, quiet>>
    BY <1>1, <1>4, <2>2, QuietStepKeeps DEF EmitSample
  <2> QED BY <1>4, <2>1, <2>2 DEF EmitSample
<1>5. CASE EmitTach
  BY <1>5, SendKeeps DEF EmitTach
<1>6. CASE SendAck
  BY <1>6, SendKeeps DEF SendAck
<1>7. CASE DrainCommand
  <2>1. pc' \in {"emit", "tach", "drain", "ack"} /\ UNCHANGED <<pipe, daemon, quiet>>
    BY <1>7 DEF DrainCommand
  <2>2. fan' \in Duties /\ commands' \in Seq(Duties) /\ Len(commands') <= MaxCmds
    <3>1. CASE commands = <<>>
      BY <1>1, <1>7, <3>1 DEF DrainCommand
    <3>2. CASE commands # <<>>
      <4>1. fan' = commands[1] /\ commands' = Tail(commands)
        BY <1>7, <3>2 DEF DrainCommand
      <4>2. Len(commands) >= 1 /\ Len(commands) \in Nat /\ commands[1] \in Duties
            /\ Tail(commands) \in Seq(Duties) /\ Len(Tail(commands)) = Len(commands) - 1
        BY <1>1, <3>2
      <4>3. Len(Tail(commands)) <= MaxCmds
        BY <1>1, <4>2
      <4> QED BY <4>1, <4>2, <4>3
    <3> QED BY <3>1, <3>2
  <2> QED BY <2>1, <2>2, QuietStepKeeps
<1>8. CASE PeripheralReset
  <2>1. /\ pc' = "emit" /\ fan' = 0 /\ commands' = <<>> /\ UNCHANGED <<daemon, quiet>>
        /\ \E n \in 0 .. Len(pipe) : pipe' = SubSeq(pipe, 1, n)
    BY <1>8 DEF PeripheralReset
  <2>2. 0 \in Duties /\ <<>> \in Seq(Duties) /\ Len(<<>>) <= MaxCmds
    BY <1>1, LinkAssumption
  <2>3. fan' \in Duties /\ commands' \in Seq(Duties) /\ Len(commands') <= MaxCmds
    BY <2>1, <2>2, Zenon
  <2> QED BY <2>1, <2>3, QuietStepKeeps
<1>9. CASE UNCHANGED vars
  BY <1>1, <1>9, QuietStepKeeps DEF vars, peripheral
<1> QED BY <1>2, <1>3, <1>4, <1>5, <1>6, <1>7, <1>8, <1>9 DEF Next, PeripheralLoop

\* The link keeps its invariant in every behaviour.
LEMMA SpecLinkInv == Spec => []LinkInv
<1> QED BY InitLinkInv, NextLinkInv, PTL DEF Spec

-----------------------------------------------------------------------------
(* What follows. *)

\* Whatever the line does to the frames, the drain of the daemon never finds its
\* buffer full: no period passes without reading (bsp_hil_serial_drain).
THEOREM RoomIsLeft == Spec => []RoomLeft
<1>1. LinkInv => RoomLeft
  BY WaitingLeavesRoom DEF LinkInv, LinkTyped, WindowDrained, RoomLeft
<1> QED BY <1>1, SpecLinkInv, PTL

\* No damaged frame becomes a reading: what hil_dispatch_frame stores was sent
\* as a sample, for every cut and every damage of the stream.
THEOREM ReadingsAreReal == Spec => []ReadingsReal
<1>1. LinkInv => ReadingsReal
  BY DEF LinkInv, LinkTyped, StreamReal, ReadingsReal
<1> QED BY <1>1, SpecLinkInv, PTL

\* A peripheral that has sent nothing for Patience periods of the daemon is
\* noticed: bsp_hil_serial_read_sensor refuses the reading as stale.
THEOREM SilenceIsNoticed == Spec => []SilenceNoticed
<1>1. LinkInv => SilenceNoticed
  <2>1. SUFFICES ASSUME LinkInv, quiet > Patience, Valid(cell) PROVE FALSE
    BY DEF SilenceNoticed
  <2>2. /\ cell.value # None /\ cell.age <= Staleness
        /\ cell.age \in 0 .. Patience + 1 /\ quiet \in 0 .. Patience + 1
        /\ (quiet <= cell.age + PipeCap \/ cell.age > Patience)
    BY <2>1 DEF LinkInv, LinkTyped, ReadingDated, Valid
  <2> QED BY <2>1, <2>2, LinkNumbers
<1> QED BY <1>1, SpecLinkInv, PTL
=============================================================================
