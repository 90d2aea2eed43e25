--------------------------- MODULE ConfigLoaderProofs ---------------------------
(***************************************************************************)
(* Every configuration the loader accepts says what the document says, for  *)
(* any set of documents: sections in any order, missing, repeated, and with *)
(* any values (LoadedMeansWritten).                                         *)
(*                                                                         *)
(* The invariant follows the tables through both passes.  After pass A they *)
(* are what the last "actuators" section left; pass B resolves names in     *)
(* them and does not touch them any more, so what the last "zones" section  *)
(* resolved stays true until the end.  What a repeated section overlays is  *)
(* kept or replaced slot by slot: past the new count the old slots stay,    *)
(* and no lookup reaches them.                                              *)
(*                                                                         *)
(* And wherever the sections stand, the loader accepts the same documents   *)
(* and makes the same of them (OrderIrrelevant): the fields a section is    *)
(* read from are those of earlier stages, its own excepted, and it fills no *)
(* other.                                                                   *)
(***************************************************************************)
EXTENDS ConfigLoader, CommonFacts, SequenceTheorems
-----------------------------------------------------------------------------
(* Tables. *)

\* A table the loader has written: slots, of which the first count are in use.
IsTable(t) == IsSequence(t.slot) /\ t.count \in 0 .. Len(t.slot)

\* A sequence is a function on its positions.
LEMMA SequenceDomain ==
  ASSUME NEW s, IsSequence(s)
  PROVE  DOMAIN s = 1 .. Len(s) /\ Len(s) \in Nat
BY DEF IsSequence

\* A function on 1 .. n is a sequence of length n.
LEMMA SequenceOf ==
  ASSUME NEW n \in Nat, NEW s, DOMAIN s = 1 .. n, s = [i \in 1 .. n |-> s[i]]
  PROVE  IsSequence(s) /\ Len(s) = n
<1> DEFINE S == {s[i] : i \in 1 .. n}
<1>1. s \in Seq(S)
  <2>1. s \in [1 .. n -> S]
    OBVIOUS
  <2> QED BY <2>1, SeqDef
<1>2. Len(s) = n
  <2>1. Len(s) \in Nat /\ DOMAIN s = 1 .. Len(s)
    BY <1>1, LenProperties
  <2> QED BY <2>1
<1> QED BY <1>2 DEF IsSequence

\* The rows of a table are its slots in use.
LEMMA RowsFacts ==
  ASSUME NEW t, IsTable(t)
  PROVE  /\ t.count \in Nat /\ Len(Rows(t)) = t.count
         /\ \A i \in 1 .. t.count : Rows(t)[i] = t.slot[i]
<1> DEFINE S == {t.slot[i] : i \in 1 .. t.count}
           n == t.count
           s == t.slot
<1>1. n \in Int /\ n >= 0 /\ \A i \in 1 .. n : s[i] \in S
  BY DEF IsTable, IsSequence
<1> HIDE DEF S, n, s
<1>2. /\ Len(SubSeq(s, 1, n)) = n
      /\ \A i \in 1 .. n : SubSeq(s, 1, n)[i] = s[i]
  BY <1>1, SubSeqProperties
<1> QED BY <1>1, <1>2 DEF Rows, n, s

\* The slot a lookup finds has what it looked for.
LEMMA SlotFacts ==
  ASSUME NEW t, IsTable(t), NEW key, NEW v, Has(Rows(t), key, v)
  PROVE  /\ SlotOf(Rows(t), key, v) \in 1 .. t.count
         /\ t.slot[SlotOf(Rows(t), key, v)][key] = v
<1> DEFINE T == {i \in 1 .. Len(Rows(t)) : Rows(t)[i][key] = v}
<1>1. T # {} /\ T \in SUBSET Nat
  BY RowsFacts DEF Has
<1>2. PICK n \in T : \A m \in T : n <= m
  <2> HIDE DEF T
  <2> QED BY <1>1, LeastNatural
<1>3. Min(T) \in T
  <2> HIDE DEF T
  <2> QED BY <1>2 DEF Min
<1>4. SlotOf(Rows(t), key, v) \in T
  BY <1>3 DEF SlotOf
<1> QED BY <1>4, RowsFacts

\* Where ids are unique, the id a name is resolved to leads back to a slot of
\* that name, the one that was resolved.
LEMMA ResolvedLeads ==
  ASSUME NEW t, IsTable(t), IdsUnique(Rows(t)), NEW name, Resolves(t, name)
  PROVE  /\ LeadsTo(t, IdOf(t, name), name)
         /\ SlotOf(Rows(t), "id", IdOf(t, name)) \in 1 .. t.count
<1> DEFINE j == SlotOf(Rows(t), "name", name)
           id == IdOf(t, name)
           i == SlotOf(Rows(t), "id", id)
<1>1. j \in 1 .. t.count /\ t.slot[j].name = name
  BY SlotFacts DEF Resolves
<1>2. t.slot[j].id = id
  BY DEF IdOf
<1>3. Has(Rows(t), "id", id)
  <2>1. Rows(t)[j]["id"] = id /\ j \in 1 .. Len(Rows(t))
    BY <1>1, <1>2, RowsFacts
  <2> HIDE DEF j, id
  <2> QED BY <2>1 DEF Has
<1>4. i \in 1 .. t.count /\ t.slot[i]["id"] = id
  <2> HIDE DEF id
  <2> QED BY <1>3, SlotFacts
<1>5. i = j
  <2> HIDE DEF i, j, id
  <2>1. Rows(t)[i].id = Rows(t)[j].id
    BY <1>1, <1>2, <1>4, RowsFacts
  <2> QED BY <1>1, <1>4, <2>1, RowsFacts DEF IdsUnique
<1> QED BY <1>1, <1>3, <1>4, <1>5 DEF LeadsTo

\* What is written over a sequence is there, and the result is a sequence.
LEMMA OverlayFacts ==
  ASSUME NEW new, NEW old, IsSequence(new), IsSequence(old)
  PROVE  /\ IsSequence(Overlay(new, old))
         /\ Len(new) <= Len(Overlay(new, old))
         /\ \A j \in 1 .. Len(new) : Overlay(new, old)[j] = new[j]
<1> DEFINE both == Overlay(new, old)
           n == IF Len(new) >= Len(old) THEN Len(new) ELSE Len(old)
<1>1. /\ DOMAIN new = 1 .. Len(new) /\ DOMAIN old = 1 .. Len(old)
      /\ Len(new) \in Nat /\ Len(old) \in Nat
  BY SequenceDomain
<1>2. n \in Nat /\ Len(new) <= n /\ DOMAIN new \cup DOMAIN old = 1 .. n
  BY <1>1
<1>3. both = [i \in 1 .. n |-> both[i]] /\ DOMAIN both = 1 .. n
  <2> HIDE DEF n
  <2> QED BY <1>2 DEF Overlay
<1>4. \A j \in 1 .. Len(new) : both[j] = new[j]
  BY <1>1 DEF Overlay
<1>5. IsSequence(both) /\ Len(both) = n
  <2> HIDE DEF both, n
  <2> QED BY <1>2, <1>3, SequenceOf
<1> QED BY <1>2, <1>4, <1>5

\* So a section written over a table leaves a table: as many rows as it has
\* objects, each with its own slot.
LEMMA WrittenFacts ==
  ASSUME NEW t, IsTable(t), NEW slots, IsSequence(slots)
  PROVE  /\ IsTable(Written(t, slots)) /\ Written(t, slots).count = Len(slots)
         /\ \A j \in 1 .. Len(slots) : Written(t, slots).slot[j] = slots[j]
<1>1. IsSequence(t.slot) /\ Len(slots) \in Nat
  BY DEF IsTable, IsSequence
<1>2. /\ Written(t, slots).slot = Overlay(slots, t.slot)
      /\ Written(t, slots).count = Len(slots)
  BY DEF Written
<1>3. /\ IsSequence(Overlay(slots, t.slot)) /\ Len(slots) <= Len(Overlay(slots, t.slot))
      /\ \A j \in 1 .. Len(slots) : Overlay(slots, t.slot)[j] = slots[j]
  BY <1>1, OverlayFacts
<1>4. Len(Overlay(slots, t.slot)) \in Nat
  BY <1>3 DEF IsSequence
<1> QED BY <1>1, <1>2, <1>3, <1>4 DEF IsTable

-----------------------------------------------------------------------------
(* What the loader has made of the sections so far. *)

Tables(c) ==
  /\ {"sensors", "contexts", "actuators", "zones", "lens"} \subseteq DOMAIN c
  /\ IsTable(c.sensors) /\ IsTable(c.actuators) /\ IsTable(c.zones) /\ IsSequence(c.lens)

\* The actuators are as many as v has, the recorded lengths those of their
\* state_pwm.
ActuatorsSay(c, v) ==
  /\ c.actuators.count = Len(v)
  /\ \A i \in 1 .. Len(v) : c.lens[i] = Len(v[i].state_pwm)

\* A zone's slot has the trips that were written and the ids its names resolve
\* to.
ZoneSays(c, slot, o) ==
  /\ ZoneReads(c, o)
  /\ slot.sensors = IdsOf(c.sensors, o.sensors)
  /\ slot.actuators = IdsOf(c.actuators, o.actuators)
  /\ slot.trips = [t \in 1 .. Len(o.trips) |-> Trip(o.trips[t])]

ZonesSay(c, v) ==
  /\ c.zones.count = Len(v)
  /\ \A z \in 1 .. Len(v) : ZoneSays(c, c.zones.slot[z], v[z])

\* The sections of that name before the n-th member.
Positions(key, n) == {i \in 1 .. n - 1 : doc[i].key = key}

ActuatorsSaid(n) ==
  Positions("actuators", n) # {} => ActuatorsSay(cfg, doc[Max(Positions("actuators", n))].value)

ZonesSaid(n) ==
  Positions("zones", n) # {} => ZonesSay(cfg, doc[Max(Positions("zones", n))].value)

\* Pass A leaves the tables the document's last actuators section describes;
\* pass B, which resolves names in them, does not change them any more.
LoaderInv ==
  /\ doc \in Documents
  /\ pass \in {"text", "A", "B", "accepted", "rejected"}
  /\ pass = "text" => at = 1
  /\ pass \in {"A", "B"} => doc # Unreadable /\ at \in 1 .. Len(doc) + 1
  /\ Tables(cfg)
  /\ pass = "A" => ActuatorsSaid(at)
  /\ pass = "B" => ActuatorsSaid(Len(doc) + 1) /\ ZonesSaid(at)
  /\ pass = "accepted" => /\ doc # Unreadable /\ Legal(cfg)
                          /\ ActuatorsSaid(Len(doc) + 1) /\ ZonesSaid(Len(doc) + 1)

\* The last section of a name is the one just read, or the one it was.
LEMMA LastPosition ==
  ASSUME NEW key, NEW n \in Nat \ {0}
  PROVE  /\ doc[n].key = key => Positions(key, n + 1) # {} /\ Max(Positions(key, n + 1)) = n
         /\ doc[n].key # key => Positions(key, n + 1) = Positions(key, n)
<1> DEFINE P == Positions(key, n + 1)
<1>1. \A i : i \in P <=> i \in 1 .. n /\ doc[i].key = key
  BY DEF Positions
<1>2. ASSUME doc[n].key = key PROVE P # {} /\ Max(P) = n
  <2>1. n \in P /\ P \in SUBSET (0 .. n)
    BY <1>1, <1>2
  <2>2. Max(P) \in P /\ \A s \in P : Max(P) >= s
    <3> HIDE DEF P
    <3> QED BY <2>1, MaxOfBounded
  <2>3. Max(P) >= n /\ Max(P) \in 0 .. n
    BY <2>1, <2>2
  <2> QED BY <2>1, <2>3
<1>3. ASSUME doc[n].key # key PROVE P = Positions(key, n)
  BY <1>3 DEF Positions
<1> QED BY <1>2, <1>3

-----------------------------------------------------------------------------
(* A section of either pass. *)

\* The members of a document's arrays.
LEMMA ArraysAreSequences ==
  ASSUME doc \in Documents, doc # Unreadable, NEW i \in 1 .. Len(doc),
         doc[i].key \in Arrays, doc[i].value # Bad
  PROVE  IsSequence(doc[i].value)
BY DocumentsAssumption

\* What pass A makes of a member it accepts: only "actuators" touches the
\* actuators and the lengths of their state_pwm.
AfterA(c, r, key, v) ==
  /\ Tables(r)
  /\ key # "actuators" => r.actuators = c.actuators /\ r.lens = c.lens
  /\ key = "actuators" => ActuatorsSay(r, v)

\* Reading a member in pass A has these effects.
LEMMA PassAFacts ==
  ASSUME NEW c, Tables(c), NEW key, NEW v,
         key \in Arrays /\ v # Bad => IsSequence(v),
         PassA(c, key, v).ok = TRUE
  PROVE  AfterA(c, PassA(c, key, v).cfg, key, v)
<1> DEFINE r == PassA(c, key, v).cfg
<1>1. CASE key = "sensors"
  <2> DEFINE slots == [j \in 1 .. Len(v) |-> Overlay(v[j], Old(c.sensors, j))]
  <2>1. v # Bad /\ r = [c EXCEPT !.sensors = Written(@, slots)]
    BY <1>1 DEF PassA, Done, Refused, IsArray
  <2>2. IsSequence(slots)
    <3>1. Len(v) \in Nat
      BY <1>1, <2>1 DEF Arrays, IsSequence
    <3>2. DOMAIN slots = 1 .. Len(v) /\ slots = [j \in 1 .. Len(v) |-> slots[j]]
      OBVIOUS
    <3> HIDE DEF slots
    <3> QED BY <3>1, <3>2, SequenceOf
  <2> HIDE DEF slots
  <2>3. IsTable(Written(c.sensors, slots))
    BY <2>2, WrittenFacts DEF Tables
  <2>4. /\ r.sensors = Written(c.sensors, slots) /\ r.actuators = c.actuators
        /\ r.zones = c.zones /\ r.lens = c.lens /\ DOMAIN r = DOMAIN c
    <3> HIDE DEF r
    <3> QED BY <2>1 DEF Tables
  <2> HIDE DEF r
  <2>5. Tables(r)
    BY <2>3, <2>4 DEF Tables
  <2> QED BY <1>1, <2>4, <2>5 DEF r, AfterA
<1>2. CASE key = "context_signals"
  <2> DEFINE slots == [j \in 1 .. Len(v) |-> Overlay(v[j], Old(c.contexts, j))]
  <2>1. r = [c EXCEPT !.contexts = Written(@, slots)]
    BY <1>2 DEF PassA, Done, Refused
  <2>2. /\ r.sensors = c.sensors /\ r.actuators = c.actuators
        /\ r.zones = c.zones /\ r.lens = c.lens /\ DOMAIN r = DOMAIN c
    <3> HIDE DEF r, slots
    <3> QED BY <2>1 DEF Tables
  <2> HIDE DEF r, slots
  <2>3. Tables(r)
    BY <2>2 DEF Tables
  <2> QED BY <1>2, <2>2, <2>3 DEF r, AfterA
<1>3. CASE key = "actuators"
  <2> DEFINE slots == [j \in 1 .. Len(v) |-> ActuatorSlot(v[j], Old(c.actuators, j))]
             lens  == [j \in 1 .. Len(v) |-> Len(v[j].state_pwm)]
  <2>1. v # Bad /\ r = [c EXCEPT !.actuators = Written(@, slots), !.lens = Overlay(lens, @)]
    BY <1>3 DEF PassA, Done, Refused, IsArray, LensWritten
  <2>2. Len(v) \in Nat
    BY <1>3, <2>1 DEF Arrays, IsSequence
  <2>3. IsSequence(slots) /\ Len(slots) = Len(v)
    <3>1. DOMAIN slots = 1 .. Len(v) /\ slots = [j \in 1 .. Len(v) |-> slots[j]]
      OBVIOUS
    <3> HIDE DEF slots
    <3> QED BY <2>2, <3>1, SequenceOf
  <2>4. IsSequence(lens) /\ Len(lens) = Len(v)
    <3>1. DOMAIN lens = 1 .. Len(v) /\ lens = [j \in 1 .. Len(v) |-> lens[j]]
      OBVIOUS
    <3> HIDE DEF lens
    <3> QED BY <2>2, <3>1, SequenceOf
  <2>5. \A j \in 1 .. Len(v) : lens[j] = Len(v[j].state_pwm)
    OBVIOUS
  <2> HIDE DEF slots, lens
  <2>6. /\ IsTable(Written(c.actuators, slots)) /\ Written(c.actuators, slots).count = Len(v)
    BY <2>3, WrittenFacts DEF Tables
  <2>7. /\ IsSequence(Overlay(lens, c.lens))
        /\ \A j \in 1 .. Len(v) : Overlay(lens, c.lens)[j] = lens[j]
    BY <2>4, OverlayFacts DEF Tables
  <2>8. /\ r.sensors = c.sensors /\ r.actuators = Written(c.actuators, slots)
        /\ r.zones = c.zones /\ r.lens = Overlay(lens, c.lens) /\ DOMAIN r = DOMAIN c
    <3> HIDE DEF r
    <3> QED BY <2>1 DEF Tables
  <2> HIDE DEF r
  <2>9. Tables(r)
    BY <2>6, <2>7, <2>8 DEF Tables
  <2>10. ActuatorsSay(r, v)
    BY <2>5, <2>6, <2>7, <2>8 DEF ActuatorsSay
  <2> QED BY <1>3, <2>9, <2>10 DEF r, AfterA
<1>4. CASE key \notin {"sensors", "context_signals", "actuators"}
  <2>1. r = c
    BY <1>4 DEF PassA, Done
  <2> QED BY <1>4, <2>1 DEF AfterA
<1> QED BY <1>1, <1>2, <1>3, <1>4

\* What a zone's object is read as depends on the tables of pass A only.
LEMMA ZoneReadsSame ==
  ASSUME NEW c, NEW r, NEW o, r.sensors = c.sensors, r.actuators = c.actuators, r.lens = c.lens
  PROVE  ZoneReads(r, o) = ZoneReads(c, o)
BY DEF ZoneReads, TripsListed

\* The slot a zone is written to says what its object says.
LEMMA ZoneSlotSays ==
  ASSUME NEW c, NEW o, NEW old, ZoneReads(c, o)
  PROVE  ZoneSays(c, ZoneSlot(c, o, old), o)
<1> DEFINE new == [sensors   |-> IdsOf(c.sensors, o.sensors),
                   actuators |-> IdsOf(c.actuators, o.actuators),
                   trips     |-> [t \in 1 .. Len(o.trips) |-> Trip(o.trips[t])],
                   pid       |-> Overlay(List(o, "pid"), List(old, "pid"))]
           slot == ZoneSlot(c, o, old)
<1>1. slot = Overlay(new, Overlay(o, old))
  BY DEF ZoneSlot
<1>2. {"sensors", "actuators", "trips"} \subseteq DOMAIN new
  OBVIOUS
<1>3. slot.sensors = new.sensors /\ slot.actuators = new.actuators /\ slot.trips = new.trips
  <2> HIDE DEF slot, new
  <2> QED BY <1>1, <1>2 DEF Overlay
<1> QED BY <1>3 DEF ZoneSays

\* What pass B makes of a member it accepts: only "zones" touches the zones,
\* nothing touches the tables of pass A.
AfterB(c, r, key, v) ==
  /\ Tables(r)
  /\ r.sensors = c.sensors /\ r.actuators = c.actuators /\ r.lens = c.lens
  /\ key # "zones" => r.zones = c.zones
  /\ key = "zones" => ZonesSay(r, v)

\* Reading a member in pass B has these effects.
LEMMA PassBFacts ==
  ASSUME NEW c, Tables(c), NEW key, NEW v,
         key \in Arrays /\ v # Bad => IsSequence(v),
         PassB(c, key, v).ok = TRUE
  PROVE  AfterB(c, PassB(c, key, v).cfg, key, v)
<1> DEFINE r == PassB(c, key, v).cfg
<1>1. CASE key = "zones"
  <2> DEFINE slots == [j \in 1 .. Len(v) |-> ZoneSlot(c, v[j], Old(c.zones, j))]
  <2>1. v # Bad /\ r = [c EXCEPT !.zones = Written(@, slots)]
    BY <1>1 DEF PassB, Done, Refused, IsArray
  <2>2. \A j \in 1 .. Len(v) : ZoneReads(c, v[j])
    BY <1>1 DEF PassB, Done, Refused, All
  <2>3. IsSequence(slots) /\ Len(slots) = Len(v)
    <3>1. Len(v) \in Nat
      BY <1>1, <2>1 DEF Arrays, IsSequence
    <3>2. DOMAIN slots = 1 .. Len(v) /\ slots = [j \in 1 .. Len(v) |-> slots[j]]
      OBVIOUS
    <3> HIDE DEF slots
    <3> QED BY <3>1, <3>2, SequenceOf
  <2>4. \A j \in 1 .. Len(v) : slots[j] = ZoneSlot(c, v[j], Old(c.zones, j))
    OBVIOUS
  <2> HIDE DEF slots
  <2>5. /\ IsTable(Written(c.zones, slots)) /\ Written(c.zones, slots).count = Len(v)
        /\ \A j \in 1 .. Len(v) : Written(c.zones, slots).slot[j] = slots[j]
    BY <2>3, WrittenFacts DEF Tables
  <2>6. /\ r.sensors = c.sensors /\ r.actuators = c.actuators
        /\ r.zones = Written(c.zones, slots) /\ r.lens = c.lens /\ DOMAIN r = DOMAIN c
    <3> HIDE DEF r
    <3> QED BY <2>1 DEF Tables
  <2> HIDE DEF r
  <2>7. Tables(r)
    BY <2>5, <2>6 DEF Tables
  <2>8. ASSUME NEW z \in 1 .. Len(v) PROVE ZoneSays(r, r.zones.slot[z], v[z])
    <3>1. ZoneSays(c, r.zones.slot[z], v[z])
      BY <2>2, <2>4, <2>5, <2>6, ZoneSlotSays
    <3> QED BY <2>6, <3>1, ZoneReadsSame DEF ZoneSays
  <2>9. ZonesSay(r, v)
    BY <2>5, <2>6, <2>8 DEF ZonesSay
  <2> QED BY <1>1, <2>6, <2>7, <2>9 DEF r, AfterB
<1>2. CASE key # "zones"
  <2>1. /\ r.sensors = c.sensors /\ r.actuators = c.actuators
        /\ r.zones = c.zones /\ r.lens = c.lens /\ DOMAIN r = DOMAIN c
    <3>1. CASE key \in {"config_version", "control_period_ms", "period_relative_to_ms"}
      BY <3>1 DEF PassB, Done, Refused, Tables
    <3>2. CASE key = "policy_modifiers"
      BY <3>2 DEF PassB, Done, Refused, Tables
    <3>3. CASE key = "fault_detection"
      BY <3>3 DEF PassB, Done, Refused, Tables
    <3>4. CASE key = "telemetry"
      BY <3>4 DEF PassB, Done, Refused, Tables
    <3>5. CASE key \in {"control", "hil"}
      BY <3>5 DEF PassB, Done, Refused, Tables
    <3>6. key \in {"config_version", "control_period_ms", "period_relative_to_ms",
                   "policy_modifiers", "fault_detection", "telemetry", "control", "hil"}
      BY <1>2 DEF PassB, Refused
    <3> QED BY <3>1, <3>2, <3>3, <3>4, <3>5, <3>6
  <2> HIDE DEF r
  <2>2. Tables(r)
    BY <2>1 DEF Tables
  <2> QED BY <1>2, <2>1, <2>2 DEF r, AfterB
<1> QED BY <1>1, <1>2

-----------------------------------------------------------------------------
(* The steps. *)

\* The loader starts with empty tables.
LEMMA InitLoaderInv == Init => LoaderInv
<1> SUFFICES ASSUME Init PROVE LoaderInv
  OBVIOUS
<1>1. IsSequence(<< >>) /\ Len(<< >>) = 0
  <2>1. << >> \in Seq({}) /\ Len(<< >>) = 0
    BY EmptySeq
  <2> QED BY <2>1, LenProperties DEF IsSequence
<1>2. IsTable(NoRows)
  BY <1>1 DEF NoRows, IsTable
<1>3. Tables(cfg)
  BY <1>1, <1>2 DEF Init, Zeroed, Tables
<1> QED BY <1>3 DEF Init, LoaderInv

\* A section of pass A.
LEMMA PassAKeeps == LoaderInv /\ Pass("A") => LoaderInv'
<1> SUFFICES ASSUME LoaderInv, Pass("A") PROVE LoaderInv'
  OBVIOUS
<1> DEFINE m == doc[at]
           r == Read(cfg, "A", m)
<1>1. /\ pass = "A" /\ at <= Len(doc) /\ doc' = doc /\ cfg' = r.cfg
      /\ at' = (IF r.ok THEN at + 1 ELSE at)
      /\ pass' = (IF r.ok THEN "A" ELSE "rejected")
  BY DEF Pass
<1>2. /\ doc \in Documents /\ doc # Unreadable /\ Len(doc) \in Nat /\ Tables(cfg)
      /\ at \in 1 .. Len(doc) /\ ActuatorsSaid(at)
  BY <1>1, DocumentsAssumption DEF LoaderInv, IsSequence
<1>3. m.key \in Arrays /\ m.value # Bad => IsSequence(m.value)
  BY <1>2, ArraysAreSequences
<1>4. CASE r.ok = TRUE
  <2>1. /\ Tables(cfg')
        /\ m.key # "actuators" => cfg'.actuators = cfg.actuators /\ cfg'.lens = cfg.lens
        /\ m.key = "actuators" => ActuatorsSay(cfg', m.value)
    <3>1. CASE m.key \in HandledFirst
      <4>1. r = PassA(cfg, m.key, m.value)
        BY <3>1 DEF Read, HandledFirst
      <4> DEFINE key == m.key
                 v   == m.value
      <4>2. /\ PassA(cfg, key, v).ok = TRUE /\ cfg' = PassA(cfg, key, v).cfg
            /\ key \in Arrays /\ v # Bad => IsSequence(v)
        BY <1>1, <1>3, <1>4, <4>1
      <4> HIDE DEF key, v
      <4>3. AfterA(cfg, PassA(cfg, key, v).cfg, key, v)
        BY <1>2, <4>2, PassAFacts
      <4>4. AfterA(cfg, cfg', key, v)
        BY <4>2, <4>3
      <4> QED BY <4>4 DEF AfterA, key, v
    <3>2. CASE m.key \notin HandledFirst
      <4>1. r = Done(cfg)
        BY <3>2 DEF Read
      <4>2. m.key # "actuators" /\ cfg' = cfg
        BY <1>1, <3>2, <4>1 DEF Done, HandledFirst
      <4> QED BY <1>2, <4>2
    <3> QED BY <3>1, <3>2
  <2>2. at' = at + 1 /\ pass' = "A" /\ doc' = doc
    BY <1>1, <1>4
  <2>3. ActuatorsSaid(at)'
    <3>1. Positions("actuators", at)' = Positions("actuators", at + 1)
      BY <2>2 DEF Positions
    <3>2. CASE m.key = "actuators"
      <4>1. Max(Positions("actuators", at + 1)) = at
        <5>1. at \in Nat \ {0} /\ doc[at].key = "actuators"
          BY <1>2, <3>2
        <5> HIDE DEF m, r
        <5> QED BY <5>1, LastPosition
      <4> QED BY <2>1, <2>2, <3>1, <3>2, <4>1 DEF ActuatorsSaid
    <3>3. CASE m.key # "actuators"
      <4>1. Positions("actuators", at + 1) = Positions("actuators", at)
        <5>1. at \in Nat \ {0} /\ doc[at].key # "actuators"
          BY <1>2, <3>3
        <5> HIDE DEF m, r
        <5> QED BY <5>1, LastPosition
      <4> QED BY <1>2, <2>1, <2>2, <3>1, <3>3, <4>1 DEF ActuatorsSaid, ActuatorsSay
    <3> QED BY <3>2, <3>3
  <2> QED BY <1>2, <2>1, <2>2, <2>3 DEF LoaderInv
<1>5. CASE r.ok # TRUE
  <2>1. pass' = "rejected" /\ cfg' = cfg
    <3>1. r.ok = FALSE /\ r.cfg = cfg
      BY <1>5 DEF Read, PassA, Done, Refused, HandledFirst
    <3> QED BY <1>1, <3>1
  <2> QED BY <1>1, <1>2, <2>1 DEF LoaderInv
<1> QED BY <1>4, <1>5

\* A section of pass B.
LEMMA PassBKeeps == LoaderInv /\ Pass("B") => LoaderInv'
<1> SUFFICES ASSUME LoaderInv, Pass("B") PROVE LoaderInv'
  OBVIOUS
<1> DEFINE m == doc[at]
           r == Read(cfg, "B", m)
           end == Len(doc) + 1
<1>1. /\ pass = "B" /\ at <= Len(doc) /\ doc' = doc /\ cfg' = r.cfg
      /\ at' = (IF r.ok THEN at + 1 ELSE at)
      /\ pass' = (IF r.ok THEN "B" ELSE "rejected")
  BY DEF Pass
<1>2. /\ doc \in Documents /\ doc # Unreadable /\ Len(doc) \in Nat /\ Tables(cfg)
      /\ at \in 1 .. Len(doc) /\ ActuatorsSaid(end) /\ ZonesSaid(at)
  BY <1>1, DocumentsAssumption DEF LoaderInv, IsSequence
<1>3. m.key \in Arrays /\ m.value # Bad => IsSequence(m.value)
  BY <1>2, ArraysAreSequences
<1>4. CASE r.ok = TRUE
  <2>1. /\ Tables(cfg')
        /\ cfg'.sensors = cfg.sensors /\ cfg'.actuators = cfg.actuators /\ cfg'.lens = cfg.lens
        /\ m.key # "zones" => cfg'.zones = cfg.zones
        /\ m.key = "zones" => ZonesSay(cfg', m.value)
    <3>1. CASE m.key \notin HandledFirst
      <4>1. r = PassB(cfg, m.key, m.value)
        BY <3>1 DEF Read, HandledFirst
      <4> DEFINE key == m.key
                 v   == m.value
      <4>2. /\ PassB(cfg, key, v).ok = TRUE /\ cfg' = PassB(cfg, key, v).cfg
            /\ key \in Arrays /\ v # Bad => IsSequence(v)
        BY <1>1, <1>3, <1>4, <4>1
      <4> HIDE DEF key, v
      <4>3. AfterB(cfg, PassB(cfg, key, v).cfg, key, v)
        BY <1>2, <4>2, PassBFacts
      <4>4. AfterB(cfg, cfg', key, v)
        BY <4>2, <4>3
      <4> QED BY <4>4 DEF AfterB, key, v
    <3>2. CASE m.key \in HandledFirst
      <4>1. r = Done(cfg)
        BY <3>2 DEF Read
      <4>2. m.key # "zones" /\ cfg' = cfg
        BY <1>1, <3>2, <4>1 DEF Done, HandledFirst
      <4> QED BY <1>2, <4>2
    <3> QED BY <3>1, <3>2
  <2>2. at' = at + 1 /\ pass' = "B" /\ doc' = doc
    BY <1>1, <1>4
  <2>3. ActuatorsSaid(end)'
    BY <1>2, <2>1, <2>2 DEF ActuatorsSaid, ActuatorsSay, Positions
  <2>4. ZonesSaid(at)'
    <3>1. Positions("zones", at)' = Positions("zones", at + 1)
      BY <2>2 DEF Positions
    <3>2. CASE m.key = "zones"
      <4>1. Max(Positions("zones", at + 1)) = at
        <5>1. at \in Nat \ {0} /\ doc[at].key = "zones"
          BY <1>2, <3>2
        <5> HIDE DEF m, r
        <5> QED BY <5>1, LastPosition
      <4> QED BY <2>1, <2>2, <3>1, <3>2, <4>1 DEF ZonesSaid
    <3>3. CASE m.key # "zones"
      <4>1. Positions("zones", at + 1) = Positions("zones", at)
        <5>1. at \in Nat \ {0} /\ doc[at].key # "zones"
          BY <1>2, <3>3
        <5> HIDE DEF m, r
        <5> QED BY <5>1, LastPosition
      <4>2. SUFFICES ASSUME Positions("zones", at) # {}
                     PROVE  ZonesSay(cfg', doc[Max(Positions("zones", at))].value)
        BY <2>2, <3>1, <4>1 DEF ZonesSaid
      <4> DEFINE v == doc[Max(Positions("zones", at))].value
      <4>3. ZonesSay(cfg, v)
        BY <1>2, <4>2 DEF ZonesSaid
      <4> HIDE DEF v
      <4>4. cfg'.zones = cfg.zones
        BY <2>1, <3>3
      <4>5. ASSUME NEW z \in 1 .. Len(v) PROVE ZoneSays(cfg', cfg.zones.slot[z], v[z])
        BY <2>1, <4>3, ZoneReadsSame DEF ZonesSay, ZoneSays
      <4>6. ZonesSay(cfg', v)
        BY <4>3, <4>4, <4>5 DEF ZonesSay
      <4> QED BY <4>6 DEF v
    <3> QED BY <3>2, <3>3
  <2> QED BY <1>2, <2>1, <2>2, <2>3, <2>4 DEF LoaderInv
<1>5. CASE r.ok # TRUE
  <2>1. pass' = "rejected" /\ cfg' = cfg
    <3>1. r.ok = FALSE /\ r.cfg = cfg
      BY <1>5 DEF Read, PassB, Done, Refused, HandledFirst
    <3> QED BY <1>1, <3>1
  <2> QED BY <1>1, <1>2, <2>1 DEF LoaderInv
<1> QED BY <1>4, <1>5

\* Every step keeps the invariant.
LEMMA NextLoaderInv == LoaderInv /\ [Next]_vars => LoaderInv'
<1> SUFFICES ASSUME LoaderInv, [Next]_vars PROVE LoaderInv'
  OBVIOUS
<1>1. CASE Tokenize
  <2>1. CASE doc = Unreadable
    BY <1>1, <2>1 DEF Tokenize, LoaderInv
  <2>2. CASE doc # Unreadable
    <3>1. Positions("actuators", 1) = {}
      BY DEF Positions
    <3>2. at = 1 /\ pass' = "A" /\ UNCHANGED <<doc, at, cfg>>
      BY <1>1, <2>2 DEF Tokenize, LoaderInv
    <3>3. Len(doc) \in Nat
      BY <2>2, DocumentsAssumption DEF LoaderInv, IsSequence
    <3> QED BY <2>2, <3>1, <3>2, <3>3 DEF LoaderInv, ActuatorsSaid, Positions
  <2> QED BY <2>1, <2>2
<1>2. CASE Pass("A") \/ Pass("B")
  BY <1>2, PassAKeeps, PassBKeeps
<1>3. CASE NextPass
  <2>1. /\ pass = "A" /\ at > Len(doc) /\ pass' = "B" /\ at' = 1 /\ UNCHANGED <<doc, cfg>>
        /\ doc # Unreadable /\ doc \in Documents /\ at \in 1 .. Len(doc) + 1 /\ ActuatorsSaid(at)
    BY <1>3 DEF NextPass, LoaderInv
  <2>2. Len(doc) \in Nat
    BY <2>1, DocumentsAssumption DEF IsSequence
  <2>3. at = Len(doc) + 1
    BY <2>1, <2>2
  <2>4. Positions("zones", 1)' = {}
    BY DEF Positions
  <2>5. ZonesSaid(at)'
    BY <2>1, <2>4 DEF ZonesSaid
  <2>6. ActuatorsSaid(Len(doc) + 1)'
    BY <2>1, <2>3 DEF ActuatorsSaid, Positions
  <2> QED BY <2>1, <2>2, <2>5, <2>6 DEF LoaderInv
<1>4. CASE Finish
  <2>1. /\ pass = "B" /\ at > Len(doc) /\ UNCHANGED <<doc, at, cfg>>
        /\ doc # Unreadable /\ doc \in Documents /\ at \in 1 .. Len(doc) + 1
        /\ ActuatorsSaid(Len(doc) + 1) /\ ZonesSaid(at)
    BY <1>4 DEF Finish, LoaderInv
  <2>2. Len(doc) \in Nat
    BY <2>1, DocumentsAssumption DEF IsSequence
  <2>3. at = Len(doc) + 1
    BY <2>1, <2>2
  <2>4. (ActuatorsSaid(Len(doc) + 1) /\ ZonesSaid(Len(doc) + 1))'
    BY <2>1, <2>3 DEF ActuatorsSaid, ZonesSaid, Positions
  <2>5. pass' = "rejected" \/ (pass' = "accepted" /\ Legal(cfg))
    BY <1>4 DEF Finish
  <2> QED BY <2>1, <2>4, <2>5 DEF LoaderInv
<1>5. CASE UNCHANGED vars
  BY <1>5 DEF vars, LoaderInv, ActuatorsSaid, ZonesSaid, Positions
<1> QED BY <1>1, <1>2, <1>3, <1>4, <1>5 DEF Next

\* So the loader keeps it.
LEMMA SpecLoaderInv == Spec => []LoaderInv
<1> QED BY InitLoaderInv, NextLoaderInv, PTL DEF Spec

-----------------------------------------------------------------------------
(* What follows for an accepted document. *)

\* Names and states are lists: what Reads asks of a zone.
LEMMA ZoneLists ==
  ASSUME NEW c, NEW o, ZoneReads(c, o)
  PROVE  /\ Len(o.sensors) \in Nat /\ Len(o.actuators) \in Nat /\ Len(o.trips) \in Nat
<1>1. /\ o.sensors \in ZoneFields["sensors"] /\ o.actuators \in ZoneFields["actuators"]
      /\ o.trips \in ZoneFields["trips"]
  BY DEF ZoneReads, Reads, ZoneRequired, ZoneFields
<1>2. o.sensors \in Seq(Names) /\ o.actuators \in Seq(Names) /\ o.trips \in Seq(TripObjects)
  BY <1>1 DEF ZoneFields, Lists
<1> QED BY <1>2, LenProperties

\* A list of ids, or of trips, is as long as the list it was made from.
LEMMA ListLengths ==
  ASSUME NEW c, NEW slot, NEW o, ZoneSays(c, slot, o)
  PROVE  Len(slot.actuators) = Len(o.actuators) /\ Len(slot.trips) = Len(o.trips)
<1>1. Len(o.actuators) \in Nat /\ Len(o.trips) \in Nat
  BY ZoneLists DEF ZoneSays
<1>2. /\ slot.actuators = [n \in 1 .. Len(o.actuators) |-> IdOf(c.actuators, o.actuators[n])]
      /\ slot.trips = [t \in 1 .. Len(o.trips) |-> Trip(o.trips[t])]
  BY DEF ZoneSays, IdsOf
<1>3. Len(slot.actuators) = Len(o.actuators)
  <2>1. /\ DOMAIN slot.actuators = 1 .. Len(o.actuators)
        /\ slot.actuators = [n \in 1 .. Len(o.actuators) |-> slot.actuators[n]]
    BY <1>2
  <2> QED BY <1>1, <2>1, SequenceOf
<1>4. Len(slot.trips) = Len(o.trips)
  <2>1. /\ DOMAIN slot.trips = 1 .. Len(o.trips)
        /\ slot.trips = [t \in 1 .. Len(o.trips) |-> slot.trips[t]]
    BY <1>2
  <2> QED BY <1>1, <2>1, SequenceOf
<1> QED BY <1>3, <1>4

\* The sections an accepted document's tables come from are its last ones.
LEMMA AcceptedSays ==
  ASSUME LoaderInv, pass = "accepted"
  PROVE  /\ Tables(cfg) /\ IdsUnique(Rows(cfg.sensors)) /\ IdsUnique(Rows(cfg.actuators))
         /\ "zones" \in Keys(doc) => ZonesSay(cfg, WrittenLast(doc, "zones"))
         /\ "actuators" \in Keys(doc) => ActuatorsSay(cfg, WrittenLast(doc, "actuators"))
<1>1. /\ Tables(cfg) /\ Legal(cfg) /\ doc \in Documents /\ doc # Unreadable
      /\ ActuatorsSaid(Len(doc) + 1) /\ ZonesSaid(Len(doc) + 1)
  BY DEF LoaderInv
<1>2. Len(doc) \in Nat
  BY <1>1, DocumentsAssumption DEF IsSequence
<1>3. ASSUME NEW key
      PROVE  /\ Positions(key, Len(doc) + 1) = {i \in 1 .. Len(doc) : doc[i].key = key}
             /\ key \in Keys(doc) => Positions(key, Len(doc) + 1) # {}
  BY <1>2 DEF Positions, Keys
<1>4. IdsUnique(Rows(cfg.sensors)) /\ IdsUnique(Rows(cfg.actuators))
  BY <1>1 DEF Legal, SensorsLegal, ActuatorsLegal
<1>5. "zones" \in Keys(doc) => ZonesSay(cfg, WrittenLast(doc, "zones"))
  BY <1>1, <1>3 DEF ZonesSaid, WrittenLast
<1>6. "actuators" \in Keys(doc) => ActuatorsSay(cfg, WrittenLast(doc, "actuators"))
  BY <1>1, <1>3 DEF ActuatorsSaid, WrittenLast
<1> QED BY <1>1, <1>4, <1>5, <1>6

\* Every configuration the daemon starts with says what the document says:
\* whatever the order of its sections, whatever is repeated, the ids of a zone
\* lead to what it names and its trips ask for listed cooling states.
THEOREM LoadedIsWritten == Spec => []LoadedMeansWritten
<1>1. LoaderInv => LoadedMeansWritten
  <2> SUFFICES ASSUME LoaderInv, pass = "accepted"
               PROVE  NamesLead(cfg, doc) /\ StatesListed(cfg, doc)
    BY DEF LoadedMeansWritten
  <2>1. Tables(cfg) /\ IdsUnique(Rows(cfg.sensors)) /\ IdsUnique(Rows(cfg.actuators))
    BY AcceptedSays
  <2>2. ASSUME "zones" \in Keys(doc), NEW z \in 1 .. cfg.zones.count
        PROVE  ZoneSays(cfg, cfg.zones.slot[z], WrittenLast(doc, "zones")[z])
    BY <2>2, AcceptedSays DEF ZonesSay
  <2>3. NamesLead(cfg, doc)
    <3> SUFFICES ASSUME "zones" \in Keys(doc), NEW z \in 1 .. cfg.zones.count
                 PROVE  LET o == WrittenLast(doc, "zones")[z] IN
                        /\ \A i \in 1 .. Len(o.sensors) :
                             LeadsTo(cfg.sensors, cfg.zones.slot[z].sensors[i], o.sensors[i])
                        /\ \A i \in 1 .. Len(o.actuators) :
                             LeadsTo(cfg.actuators, cfg.zones.slot[z].actuators[i], o.actuators[i])
      BY DEF NamesLead
    <3> DEFINE o == WrittenLast(doc, "zones")[z]
               slot == cfg.zones.slot[z]
    <3>1. ZoneSays(cfg, slot, o)
      BY <2>2
    <3> HIDE DEF o, slot
    <3>2. ASSUME NEW i \in 1 .. Len(o.sensors)
          PROVE  LeadsTo(cfg.sensors, slot.sensors[i], o.sensors[i])
      <4>1. Resolves(cfg.sensors, o.sensors[i]) /\ slot.sensors[i] = IdOf(cfg.sensors, o.sensors[i])
        BY <3>1 DEF ZoneSays, ZoneReads, IdsOf
      <4> QED BY <2>1, <4>1, ResolvedLeads DEF Tables
    <3>3. ASSUME NEW i \in 1 .. Len(o.actuators)
          PROVE  LeadsTo(cfg.actuators, slot.actuators[i], o.actuators[i])
      <4>1. /\ Resolves(cfg.actuators, o.actuators[i])
            /\ slot.actuators[i] = IdOf(cfg.actuators, o.actuators[i])
        BY <3>1 DEF ZoneSays, ZoneReads, IdsOf
      <4> QED BY <2>1, <4>1, ResolvedLeads DEF Tables
    <3> QED BY <3>2, <3>3 DEF o, slot
  <2>4. StatesListed(cfg, doc)
    <3> DEFINE slot(z) == cfg.zones.slot[z]
               Slot(id) == SlotOf(Rows(cfg.actuators), "id", id)
    <3> SUFFICES ASSUME "zones" \in Keys(doc), "actuators" \in Keys(doc),
                        NEW z \in 1 .. cfg.zones.count, NEW i \in 1 .. cfg.actuators.count,
                        NEW n \in 1 .. Len(slot(z).actuators), i = Slot(slot(z).actuators[n]),
                        NEW t \in 1 .. Len(slot(z).trips)
                 PROVE  slot(z).trips[t].state < Len(WrittenLast(doc, "actuators")[i].state_pwm)
      BY DEF StatesListed
    <3> DEFINE o == WrittenLast(doc, "zones")[z]
    <3>1. ZoneSays(cfg, slot(z), o)
      BY <2>2
    <3>2. n \in 1 .. Len(o.actuators) /\ t \in 1 .. Len(o.trips)
      <4> HIDE DEF o
      <4> QED BY <3>1, ListLengths
    <3>3. /\ slot(z).actuators[n] = IdOf(cfg.actuators, o.actuators[n])
          /\ slot(z).trips[t].state = o.trips[t].cooling_state
      <4> HIDE DEF o
      <4> QED BY <3>1, <3>2 DEF ZoneSays, IdsOf, Trip
    <3>4. o.trips[t].cooling_state < cfg.lens[Slot(IdOf(cfg.actuators, o.actuators[n]))]
      <4> HIDE DEF o
      <4> QED BY <3>1, <3>2 DEF ZoneSays, ZoneReads, TripsListed
    <3>5. cfg.lens[i] = Len(WrittenLast(doc, "actuators")[i].state_pwm)
      BY AcceptedSays DEF ActuatorsSay
    <3> HIDE DEF o, slot
    <3> QED BY <3>3, <3>4, <3>5
  <2> QED BY <2>3, <2>4
<1> QED BY <1>1, SpecLoaderInv, PTL

-----------------------------------------------------------------------------
(* The order of the sections.  What a section is read as depends on the      *)
(* fields it fills and on those it resolves names in (Needs), and it fills   *)
(* no other (Local).                                                         *)

Fields == DOMAIN Zeroed

IsConfig(c) == c = [f \in Fields |-> c[f]]

\* The fields the reading of a section depends on.
Needs(key) ==
  {f \in Fields : \/ Section[f] = key
                  \/ key \notin HandledFirst /\ Section[f] \in HandledFirst
                  \/ key = "telemetry" /\ Section[f] \in {"zones", "policy_modifiers"}}

\* x and y are what the same section makes of two configurations, x of c.
Local(x, y, c, key) ==
  /\ x.ok = y.ok /\ IsConfig(x.cfg)
  /\ \A f \in Fields : /\ Section[f] = key => x.cfg[f] = y.cfg[f]
                       /\ Section[f] # key => x.cfg[f] = c[f]

\* The fields by name.
LEMMA FieldFacts ==
  /\ Fields = {"version", "period", "relative", "sensors", "contexts", "actuators", "lens",
               "zones", "modifiers", "faults", "telemetry", "signals", "control", "hil"}
  /\ DOMAIN Section = Fields
BY DEF Fields, Zeroed, Section

\* A section that fills one field, from what it needs.
LEMMA OneField ==
  ASSUME NEW c, NEW r, IsConfig(c), IsConfig(r), NEW key, NEW g \in Fields,
         \A f \in Fields : Section[f] = key <=> f = g,
         c[g] = r[g], NEW good, NEW new, NEW x, NEW y,
         x = IF good THEN Done([c EXCEPT ![g] = new]) ELSE Refused(c),
         y = IF good THEN Done([r EXCEPT ![g] = new]) ELSE Refused(r)
  PROVE  Local(x, y, c, key)
<1>1. CASE good
  <2>1. x.ok = TRUE /\ y.ok = TRUE /\ x.cfg = [c EXCEPT ![g] = new] /\ y.cfg = [r EXCEPT ![g] = new]
    BY <1>1 DEF Done
  <2>2. IsConfig(x.cfg)
    BY <2>1 DEF IsConfig
  <2>3. DOMAIN c = Fields /\ DOMAIN r = Fields
    BY DEF IsConfig
  <2> QED BY <2>1, <2>2, <2>3, ZenonT(60) DEF Local
<1>2. CASE ~ good
  <2>1. x.ok = FALSE /\ y.ok = FALSE /\ x.cfg = c /\ y.cfg = r
    BY <1>2 DEF Refused
  <2>2. IsConfig(x.cfg)
    BY <2>1 DEF IsConfig
  <2>3. DOMAIN c = Fields /\ DOMAIN r = Fields
    BY DEF IsConfig
  <2> QED BY <2>1, <2>2, <2>3 DEF Local
<1> QED BY <1>1, <1>2

\* A section that fills two.
LEMMA TwoFields ==
  ASSUME NEW c, NEW r, IsConfig(c), IsConfig(r), NEW key,
         NEW g \in Fields, NEW h \in Fields, g # h,
         \A f \in Fields : Section[f] = key <=> f \in {g, h},
         c[g] = r[g], c[h] = r[h], NEW good, NEW new, NEW also, NEW x, NEW y,
         x = IF good THEN Done([c EXCEPT ![g] = new, ![h] = also]) ELSE Refused(c),
         y = IF good THEN Done([r EXCEPT ![g] = new, ![h] = also]) ELSE Refused(r)
  PROVE  Local(x, y, c, key)
<1>1. CASE good
  <2>1. /\ x.ok = TRUE /\ y.ok = TRUE
        /\ x.cfg = [c EXCEPT ![g] = new, ![h] = also] /\ y.cfg = [r EXCEPT ![g] = new, ![h] = also]
    BY <1>1 DEF Done
  <2>2. IsConfig(x.cfg)
    BY <2>1 DEF IsConfig
  <2>3. DOMAIN c = Fields /\ DOMAIN r = Fields
    BY DEF IsConfig
  <2> QED BY <2>1, <2>2, <2>3, ZenonT(60) DEF Local
<1>2. CASE ~ good
  <2>1. x.ok = FALSE /\ y.ok = FALSE /\ x.cfg = c /\ y.cfg = r
    BY <1>2 DEF Refused
  <2>2. IsConfig(x.cfg)
    BY <2>1 DEF IsConfig
  <2>3. DOMAIN c = Fields /\ DOMAIN r = Fields
    BY DEF IsConfig
  <2> QED BY <2>1, <2>2, <2>3 DEF Local
<1> QED BY <1>1, <1>2

\* The sections of pass A are read on their own.
LEMMA PassALocal ==
  ASSUME NEW c, NEW r, IsConfig(c), IsConfig(r),
         NEW key \in HandledFirst, NEW v, \A f \in Needs(key) : c[f] = r[f]
  PROVE  Local(PassA(c, key, v), PassA(r, key, v), c, key)
<1>1. \A f \in Fields : Section[f] = key => c[f] = r[f]
  BY DEF Needs
<1>2. CASE key = "sensors"
  <2> DEFINE slots == [j \in 1 .. Len(v) |-> Overlay(v[j], Old(c.sensors, j))]
             good == IsArray(v, MaxSensors) /\ All(v, SensorReads)
             new == Written(c.sensors, slots)
  <2>1. c.sensors = r.sensors /\ \A f \in Fields : Section[f] = key <=> f = "sensors"
    BY <1>1, <1>2, FieldFacts DEF Section
  <2>2. PassA(c, key, v) = IF good THEN Done([c EXCEPT !["sensors"] = new]) ELSE Refused(c)
    BY <1>2 DEF PassA
  <2>3. PassA(r, key, v) = IF good THEN Done([r EXCEPT !["sensors"] = new]) ELSE Refused(r)
    BY <1>2, <2>1 DEF PassA
  <2> HIDE DEF good, new
  <2> QED BY <2>1, <2>2, <2>3, FieldFacts, OneField
<1>3. CASE key = "context_signals"
  <2> DEFINE slots == [j \in 1 .. Len(v) |-> Overlay(v[j], Old(c.contexts, j))]
             good == IsArray(v, MaxContexts) /\ All(v, ContextReads)
             new == Written(c.contexts, slots)
  <2>1. c.contexts = r.contexts /\ \A f \in Fields : Section[f] = key <=> f = "contexts"
    BY <1>1, <1>3, FieldFacts DEF Section
  <2>2. PassA(c, key, v) = IF good THEN Done([c EXCEPT !["contexts"] = new]) ELSE Refused(c)
    BY <1>3 DEF PassA
  <2>3. PassA(r, key, v) = IF good THEN Done([r EXCEPT !["contexts"] = new]) ELSE Refused(r)
    BY <1>3, <2>1 DEF PassA
  <2> HIDE DEF good, new
  <2> QED BY <2>1, <2>2, <2>3, FieldFacts, OneField
<1>4. CASE key = "actuators"
  <2> DEFINE slots == [j \in 1 .. Len(v) |-> ActuatorSlot(v[j], Old(c.actuators, j))]
             good == IsArray(v, MaxActuators) /\ All(v, ActuatorReads)
             new == Written(c.actuators, slots)
             also == LensWritten(c.lens, v)
  <2>1. /\ c.actuators = r.actuators /\ c.lens = r.lens
        /\ \A f \in Fields : Section[f] = key <=> f \in {"actuators", "lens"}
    BY <1>1, <1>4, FieldFacts DEF Section
  <2>2. PassA(c, key, v) = IF good THEN Done([c EXCEPT !["actuators"] = new, !["lens"] = also])
                           ELSE Refused(c)
    BY <1>4 DEF PassA
  <2>3. PassA(r, key, v) = IF good THEN Done([r EXCEPT !["actuators"] = new, !["lens"] = also])
                           ELSE Refused(r)
    BY <1>4, <2>1 DEF PassA
  <2>4. "actuators" \in Fields /\ "lens" \in Fields /\ "actuators" # "lens"
    BY FieldFacts
  <2> HIDE DEF good, new, also
  <2> QED BY <2>1, <2>2, <2>3, <2>4, TwoFields
<1> QED BY <1>2, <1>3, <1>4 DEF HandledFirst

\* A selector of telemetry is expanded from the tables it names.
SameTables(c, r) ==
  /\ c.sensors = r.sensors /\ c.contexts = r.contexts /\ c.actuators = r.actuators
  /\ c.zones = r.zones /\ c.modifiers = r.modifiers

\* A selector finds the same in tables that are the same.
LEMMA ExpandSame ==
  ASSUME NEW c, NEW r, SameTables(c, r), NEW sel
  PROVE  Expand(c, sel) = Expand(r, sel)
<1>1. ASSUME NEW family \in Wildcards \cup Named \cup {FaultFamilies[f] : f \in 1 .. Len(FaultFamilies)}
      PROVE  c[SignalTable[family]] = r[SignalTable[family]]
  <2>1. family \in {"zone_temp", "zone_cooling_state", "zone_aggregation_valid", "actuator_pwm",
                    "actuator_rpm", "pid_terms", "modifier_pwm_cap", "fan_health", "context",
                    "stall", "stuck_sensor", "runaway", "stale_context"}
    <3>1. \A f \in 1 .. Len(FaultFamilies) :
            FaultFamilies[f] \in {"stall", "stuck_sensor", "runaway", "stale_context"}
      BY DEF FaultFamilies
    <3> QED BY <3>1 DEF Wildcards, Named
  <2>2. SignalTable[family] \in {"sensors", "contexts", "actuators", "zones", "modifiers"}
    BY <2>1 DEF SignalTable
  <2> QED BY <2>2 DEF SameTables
<1>2. ASSUME NEW family \in Wildcards \cup Named \cup {FaultFamilies[f] : f \in 1 .. Len(FaultFamilies)}
      PROVE  EverySlot(c, family) = EverySlot(r, family)
  BY <1>1 DEF EverySlot
<1>3. CASE sel.name = "*" /\ sel.family = "fault"
  <2>1. \A f \in 1 .. Len(FaultFamilies) :
          EverySlot(c, FaultFamilies[f]) = EverySlot(r, FaultFamilies[f])
    BY <1>2
  <2>2. [f \in 1 .. Len(FaultFamilies) |-> EverySlot(c, FaultFamilies[f])]
          = [f \in 1 .. Len(FaultFamilies) |-> EverySlot(r, FaultFamilies[f])]
    BY <2>1
  <2>3. "fault" \notin Wildcards
    BY DEF Wildcards
  <2> QED BY <1>3, <2>2, <2>3 DEF Expand
<1>4. CASE sel.name = "*" /\ sel.family \in Wildcards
  <2>1. EverySlot(c, sel.family) = EverySlot(r, sel.family)
    BY <1>2, <1>4
  <2>2. sel.family # "fault"
    BY <1>4 DEF Wildcards
  <2> QED BY <1>4, <2>1, <2>2 DEF Expand
<1>5. CASE sel.name # "*" /\ sel.family \in Named
  BY <1>1, <1>5 DEF Expand
<1>6. CASE /\ ~ (sel.name = "*" /\ sel.family = "fault")
           /\ ~ (sel.name = "*" /\ sel.family \in Wildcards)
           /\ ~ (sel.name # "*" /\ sel.family \in Named)
  BY <1>6 DEF Expand
<1> QED BY <1>3, <1>4, <1>5, <1>6

\* The zone's slot, like what it is read as, depends on the tables of pass A.
LEMMA ZoneSlotSame ==
  ASSUME NEW c, NEW r, NEW o, NEW old, r.sensors = c.sensors, r.actuators = c.actuators
  PROVE  ZoneSlot(r, o, old) = ZoneSlot(c, o, old)
BY DEF ZoneSlot

\* Modifiers and detectors look up contexts.
LEMMA ContextsSame ==
  ASSUME NEW c, NEW r, r.contexts = c.contexts, NEW o, NEW old, NEW kind
  PROVE  /\ ModifierReads(r, o) = ModifierReads(c, o)
         /\ ModifierSlot(r, o, old) = ModifierSlot(c, o, old)
         /\ DetectorReads(r, kind, o, old) = DetectorReads(c, kind, o, old)
         /\ DetectorSlot(r, o, old) = DetectorSlot(c, o, old)
<1>1. Correlated(r, o) = Correlated(c, o)
  BY DEF Correlated
<1>2. DetectorSlot(r, o, old) = DetectorSlot(c, o, old)
  BY <1>1 DEF DetectorSlot
<1>3. DetectorReads(r, kind, o, old) = DetectorReads(c, kind, o, old)
  BY <1>1, <1>2 DEF DetectorReads
<1> QED BY <1>2, <1>3 DEF ModifierReads, ModifierSlot

\* The sections of pass B are read on the tables they resolve names in.
LEMMA PassBLocal ==
  ASSUME NEW c, NEW r, IsConfig(c), IsConfig(r),
         NEW key, key \notin HandledFirst, NEW v, \A f \in Needs(key) : c[f] = r[f]
  PROVE  Local(PassB(c, key, v), PassB(r, key, v), c, key)
<1>1. \A f \in Fields : Section[f] = key => c[f] = r[f]
  BY DEF Needs
<1>2. /\ c.sensors = r.sensors /\ c.contexts = r.contexts
      /\ c.actuators = r.actuators /\ c.lens = r.lens
  <2>1. {"sensors", "contexts", "actuators", "lens"} \subseteq Needs(key)
    BY FieldFacts DEF Needs, Section, HandledFirst
  <2> QED BY <2>1
<1>3. ASSUME NEW g \in {"version", "period", "relative"}, key = Section[g]
      PROVE  Local(PassB(c, key, v), PassB(r, key, v), c, key)
  <2>1. c[g] = r[g] /\ g \in Fields /\ \A f \in Fields : Section[f] = key <=> f = g
    BY <1>1, <1>3, FieldFacts DEF Section
  <2>2. ASSUME NEW b
        PROVE  PassB(b, key, v) = IF v \in Uint16 THEN Done([b EXCEPT ![g] = v]) ELSE Refused(b)
    <3>1. CASE g = "version"
      <4>1. key = "config_version"
        BY <1>3, <3>1 DEF Section
      <4> QED BY <3>1, <4>1 DEF PassB
    <3>2. CASE g = "period"
      <4>1. key = "control_period_ms"
        BY <1>3, <3>2 DEF Section
      <4> QED BY <3>2, <4>1 DEF PassB
    <3>3. CASE g = "relative"
      <4>1. key = "period_relative_to_ms"
        BY <1>3, <3>3 DEF Section
      <4> QED BY <3>3, <4>1 DEF PassB
    <3> QED BY <3>1, <3>2, <3>3
  <2> QED BY <2>1, <2>2, OneField
<1>4. CASE key = "zones"
  <2> DEFINE slots == [j \in 1 .. Len(v) |-> ZoneSlot(c, v[j], Old(c.zones, j))]
             good == IsArray(v, MaxZones) /\ \A j \in 1 .. Len(v) : ZoneReads(c, v[j])
             new == Written(c.zones, slots)
  <2>1. c.zones = r.zones /\ \A f \in Fields : Section[f] = key <=> f = "zones"
    BY <1>1, <1>4, FieldFacts DEF Section
  <2>2. PassB(c, key, v) = IF good THEN Done([c EXCEPT !["zones"] = new]) ELSE Refused(c)
    BY <1>4 DEF PassB, All
  <2>3. PassB(r, key, v) = IF good THEN Done([r EXCEPT !["zones"] = new]) ELSE Refused(r)
    <3>1. \A o : ZoneReads(r, o) = ZoneReads(c, o)
      BY <1>2, ZoneReadsSame
    <3>2. slots = [j \in 1 .. Len(v) |-> ZoneSlot(r, v[j], Old(r.zones, j))]
      BY <1>2, <2>1, ZoneSlotSame
    <3>3. PassB(r, key, v) =
            IF IsArray(v, MaxZones) /\ \A j \in 1 .. Len(v) : ZoneReads(r, v[j])
            THEN Done([r EXCEPT !["zones"] = Written(r.zones, [j \in 1 .. Len(v) |->
                                               ZoneSlot(r, v[j], Old(r.zones, j))])])
            ELSE Refused(r)
      BY <1>4 DEF PassB, All
    <3> HIDE DEF slots
    <3> QED BY <2>1, <3>1, <3>2, <3>3
  <2> HIDE DEF good, new
  <2> QED BY <2>1, <2>2, <2>3, FieldFacts, OneField
<1>5. CASE key = "policy_modifiers"
  <2> DEFINE slots == [j \in 1 .. Len(v) |-> ModifierSlot(c, v[j], Old(c.modifiers, j))]
             good == IsArray(v, MaxModifiers) /\ \A j \in 1 .. Len(v) : ModifierReads(c, v[j])
             new == Written(c.modifiers, slots)
  <2>1. c.modifiers = r.modifiers /\ \A f \in Fields : Section[f] = key <=> f = "modifiers"
    BY <1>1, <1>5, FieldFacts DEF Section
  <2>2. PassB(c, key, v) = IF good THEN Done([c EXCEPT !["modifiers"] = new]) ELSE Refused(c)
    BY <1>5 DEF PassB, All
  <2>3. PassB(r, key, v) = IF good THEN Done([r EXCEPT !["modifiers"] = new]) ELSE Refused(r)
    <3>1. \A o : ModifierReads(r, o) = ModifierReads(c, o)
      BY <1>2, ContextsSame
    <3>2. slots = [j \in 1 .. Len(v) |-> ModifierSlot(r, v[j], Old(r.modifiers, j))]
      BY <1>2, <2>1, ContextsSame
    <3>3. PassB(r, key, v) =
            IF IsArray(v, MaxModifiers) /\ \A j \in 1 .. Len(v) : ModifierReads(r, v[j])
            THEN Done([r EXCEPT !["modifiers"] = Written(r.modifiers, [j \in 1 .. Len(v) |->
                                               ModifierSlot(r, v[j], Old(r.modifiers, j))])])
            ELSE Refused(r)
      BY <1>5 DEF PassB, All
    <3> HIDE DEF slots
    <3> QED BY <2>1, <3>1, <3>2, <3>3
  <2> HIDE DEF good, new
  <2> QED BY <2>1, <2>2, <2>3, FieldFacts, OneField
<1>6. CASE key = "fault_detection"
  <2>1. c.faults = r.faults /\ \A f \in Fields : Section[f] = key <=> f = "faults"
    BY <1>1, <1>6, FieldFacts DEF Section
  <2>2. FaultsRead(r, v) = FaultsRead(c, v)
    BY <1>2, <2>1, ContextsSame DEF FaultsRead
  <2>3. FaultsWritten(r, v) = FaultsWritten(c, v)
    <3>1. [kind \in DOMAIN v |-> DetectorSlot(r, v[kind], List(r.faults, kind))]
            = [kind \in DOMAIN v |-> DetectorSlot(c, v[kind], List(c.faults, kind))]
      BY <1>2, <2>1, ContextsSame
    <3> QED BY <2>1, <3>1 DEF FaultsWritten
  <2>4. PassB(c, key, v) = IF FaultsRead(c, v) THEN Done([c EXCEPT !["faults"] = FaultsWritten(c, v)])
                           ELSE Refused(c)
    BY <1>6 DEF PassB
  <2>5. PassB(r, key, v) = IF FaultsRead(r, v) THEN Done([r EXCEPT !["faults"] = FaultsWritten(r, v)])
                           ELSE Refused(r)
    BY <1>6 DEF PassB
  <2> QED BY <2>1, <2>2, <2>3, <2>4, <2>5, FieldFacts, OneField
<1>7. CASE key = "telemetry"
  <2>1. /\ c.telemetry = r.telemetry /\ c.signals = r.signals
        /\ \A f \in Fields : Section[f] = key <=> f \in {"telemetry", "signals"}
    BY <1>1, <1>7, FieldFacts DEF Section
  <2>2. c.zones = r.zones /\ c.modifiers = r.modifiers
    <3>1. {"zones", "modifiers"} \subseteq Needs(key)
      BY <1>7, FieldFacts DEF Needs, Section
    <3> QED BY <3>1
  <2>3. \A sel : Expand(c, sel) = Expand(r, sel)
    BY <1>2, <2>2, ExpandSame DEF SameTables
  <2>4. Expanded(r, v) = Expanded(c, v)
    <3>1. [i \in 1 .. Len(List(v, "signals")) |-> Expand(r, v.signals[i])]
            = [i \in 1 .. Len(List(v, "signals")) |-> Expand(c, v.signals[i])]
      BY <2>3
    <3> QED BY <3>1 DEF Expanded
  <2>5. TelemetryReads(r, v) = TelemetryReads(c, v)
    BY <2>1, <2>3, <2>4 DEF TelemetryReads
  <2> DEFINE new == Overlay(v, c.telemetry)
             also == c.signals \o Expanded(c, v)
             good == TelemetryReads(c, v)
  <2>6. PassB(c, key, v) = IF good THEN Done([c EXCEPT !["telemetry"] = new, !["signals"] = also])
                           ELSE Refused(c)
    BY <1>7 DEF PassB
  <2>7. PassB(r, key, v) = IF good THEN Done([r EXCEPT !["telemetry"] = new, !["signals"] = also])
                           ELSE Refused(r)
    <3>1. PassB(r, key, v) = IF TelemetryReads(r, v)
                             THEN Done([r EXCEPT !["telemetry"] = Overlay(v, r.telemetry),
                                                 !["signals"] = r.signals \o Expanded(r, v)])
                             ELSE Refused(r)
      BY <1>7 DEF PassB
    <3> QED BY <2>1, <2>4, <2>5, <3>1
  <2>8. "telemetry" \in Fields /\ "signals" \in Fields /\ "telemetry" # "signals"
    BY FieldFacts
  <2> HIDE DEF good, new, also
  <2> QED BY <2>1, <2>6, <2>7, <2>8, TwoFields
<1>8. CASE key = "control"
  <2> DEFINE good == Reads(v, {}, ControlFields, {})
             new == Overlay(v, c.control)
  <2>1. c.control = r.control /\ \A f \in Fields : Section[f] = key <=> f = "control"
    BY <1>1, <1>8, FieldFacts DEF Section
  <2>2. PassB(c, key, v) = IF good THEN Done([c EXCEPT !["control"] = new]) ELSE Refused(c)
    BY <1>8 DEF PassB
  <2>3. PassB(r, key, v) = IF good THEN Done([r EXCEPT !["control"] = new]) ELSE Refused(r)
    BY <1>8, <2>1 DEF PassB
  <2> HIDE DEF good, new
  <2> QED BY <2>1, <2>2, <2>3, FieldFacts, OneField
<1>9. CASE key = "hil"
  <2> DEFINE good == Reads(v, {}, HilFields, {})
             new == Overlay(v, c.hil)
  <2>1. c.hil = r.hil /\ \A f \in Fields : Section[f] = key <=> f = "hil"
    BY <1>1, <1>9, FieldFacts DEF Section
  <2>2. PassB(c, key, v) = IF good THEN Done([c EXCEPT !["hil"] = new]) ELSE Refused(c)
    BY <1>9 DEF PassB
  <2>3. PassB(r, key, v) = IF good THEN Done([r EXCEPT !["hil"] = new]) ELSE Refused(r)
    BY <1>9, <2>1 DEF PassB
  <2> HIDE DEF good, new
  <2> QED BY <2>1, <2>2, <2>3, FieldFacts, OneField
<1>10. CASE key \notin {"config_version", "control_period_ms", "period_relative_to_ms", "zones",
                        "policy_modifiers", "fault_detection", "telemetry", "control", "hil"}
  <2>1. PassB(c, key, v) = Refused(c) /\ PassB(r, key, v) = Refused(r)
    BY <1>10 DEF PassB
  <2> QED BY <1>1, <2>1 DEF Refused, Local
<1>11. CASE key \in {"config_version", "control_period_ms", "period_relative_to_ms"}
  <2>1. PICK g \in {"version", "period", "relative"} : key = Section[g]
    BY <1>11 DEF Section
  <2> QED BY <1>3, <2>1
<1> QED BY <1>4, <1>5, <1>6, <1>7, <1>8, <1>9, <1>10, <1>11

\* So a member is read alike where what it needs is alike.
LEMMA ReadLocal ==
  ASSUME NEW c, NEW r, IsConfig(c), IsConfig(r), NEW p, NEW m,
         (m.key \in HandledFirst /\ p = "A") \/ (m.key \notin HandledFirst /\ p = "B"),
         \A f \in Needs(m.key) : c[f] = r[f]
  PROVE  Local(Read(c, p, m), Read(r, p, m), c, m.key)
<1>1. CASE m.key \in HandledFirst /\ p = "A"
  <2>1. Read(c, p, m) = PassA(c, m.key, m.value) /\ Read(r, p, m) = PassA(r, m.key, m.value)
    BY <1>1 DEF Read, HandledFirst
  <2> QED BY <1>1, <2>1, PassALocal
<1>2. CASE m.key \notin HandledFirst /\ p = "B"
  <2>1. Read(c, p, m) = PassB(c, m.key, m.value) /\ Read(r, p, m) = PassB(r, m.key, m.value)
    BY <1>2 DEF Read, HandledFirst
  <2> QED BY <1>2, <2>1, PassBLocal
<1> QED BY <1>1, <1>2

\* A member of the other pass is skipped.
LEMMA ReadSkips ==
  ASSUME NEW c, NEW p, NEW m,
         (m.key \notin HandledFirst /\ p = "A") \/ (m.key \in HandledFirst /\ p = "B")
  PROVE  Read(c, p, m) = Done(c)
BY DEF Read

\* The stages of a document's meaning, field by field.
LEMMA StageFacts ==
  /\ IsConfig(Zeroed) /\ IsConfig(Things(doc)) /\ IsConfig(Tabled(doc)) /\ IsConfig(Filled(doc))
  /\ \A f \in Fields :
       /\ Section[f] \notin HandledFirst \/ Section[f] \notin Keys(doc) => Things(doc)[f] = Zeroed[f]
       /\ \/ Section[f] \in HandledFirst \/ Section[f] \notin Keys(doc) \/ Section[f] = "telemetry"
          => Tabled(doc)[f] = Things(doc)[f]
       /\ Section[f] # "telemetry" \/ Section[f] \notin Keys(doc) => Filled(doc)[f] = Tabled(doc)[f]
<1>1. /\ IsConfig(Zeroed) /\ IsConfig(Things(doc)) /\ IsConfig(Tabled(doc)) /\ IsConfig(Filled(doc))
  <2>1. IsConfig(Zeroed)
    BY DEF IsConfig, Fields, Zeroed
  <2>2. ASSUME NEW c, NEW p, NEW keys, IsConfig(c) PROVE IsConfig(Taken(c, p, doc, keys))
    <3>1. DOMAIN c = Fields
      BY <2>2 DEF IsConfig
    <3> QED BY <3>1 DEF IsConfig, Taken
  <2> QED BY <2>1, <2>2 DEF Things, Tabled, Filled
<1> SUFFICES ASSUME NEW f \in Fields
             PROVE  /\ Section[f] \notin HandledFirst \/ Section[f] \notin Keys(doc)
                         => Things(doc)[f] = Zeroed[f]
                    /\ \/ Section[f] \in HandledFirst \/ Section[f] \notin Keys(doc)
                       \/ Section[f] = "telemetry"
                       => Tabled(doc)[f] = Things(doc)[f]
                    /\ Section[f] # "telemetry" \/ Section[f] \notin Keys(doc)
                         => Filled(doc)[f] = Tabled(doc)[f]
  BY <1>1
<1>2. ASSUME NEW c, NEW p, NEW keys, IsConfig(c), Section[f] \notin keys \cap Keys(doc)
      PROVE  Taken(c, p, doc, keys)[f] = c[f]
  BY <1>2 DEF Taken, IsConfig
<1> QED BY <1>1, <1>2 DEF Things, Tabled, Filled, Others

\* The stage a member of pass B is read on.
Base(key) == IF key = "telemetry" THEN Tabled(doc) ELSE Things(doc)

\* A field of the document's meaning is what the member it comes from fills in.
LEMMA MemberFills ==
  ASSUME Unrepeated(doc), NEW i \in 1 .. Len(doc), NEW f \in Fields, Section[f] = doc[i].key
  PROVE  /\ doc[i].key \in HandledFirst => Things(doc)[f] = Read(Zeroed, "A", doc[i]).cfg[f]
         /\ doc[i].key \notin HandledFirst
              => Filled(doc)[f] = Read(Base(doc[i].key), "B", doc[i]).cfg[f]
<1>1. MemberOf(doc, doc[i].key) = doc[i]
  BY DEF MemberOf, Unrepeated
<1>2. doc[i].key \in Keys(doc)
  BY DEF Keys
<1>3. ASSUME NEW c, NEW p, NEW keys, IsConfig(c), doc[i].key \in keys
      PROVE  Taken(c, p, doc, keys)[f] = Read(c, p, doc[i]).cfg[f]
  BY <1>1, <1>2, <1>3 DEF Taken, IsConfig
<1>4. doc[i].key \in HandledFirst => Things(doc)[f] = Read(Zeroed, "A", doc[i]).cfg[f]
  BY <1>3, StageFacts DEF Things
<1>5. doc[i].key = "telemetry" => Filled(doc)[f] = Read(Tabled(doc), "B", doc[i]).cfg[f]
  BY <1>3, StageFacts DEF Filled
<1>6. doc[i].key \notin HandledFirst /\ doc[i].key # "telemetry"
        => Filled(doc)[f] = Read(Things(doc), "B", doc[i]).cfg[f]
  <2>1. doc[i].key \notin HandledFirst /\ doc[i].key # "telemetry" => doc[i].key \in Others(doc)
    BY <1>2 DEF Others
  <2> QED BY <1>3, <2>1, StageFacts DEF Tabled
<1> QED BY <1>4, <1>5, <1>6 DEF Base

\* The keys before the n-th member, and a configuration whose fields are the
\* new ones as far as their sections are among them.
Before(n) == {doc[i].key : i \in 1 .. n - 1}

Mixed(old, new, n) == [f \in Fields |-> IF Section[f] \in Before(n) THEN new[f] ELSE old[f]]

\* Each member adds its own key to those before it, up to all of them.
LEMMA BeforeFacts ==
  ASSUME NEW n \in 1 .. Len(doc), Len(doc) \in Nat, Unrepeated(doc)
  PROVE  /\ Before(n + 1) = Before(n) \cup {doc[n].key} /\ doc[n].key \notin Before(n)
         /\ Before(1) = {} /\ Before(Len(doc) + 1) = Keys(doc) /\ Before(n) \subseteq Keys(doc)
<1>1. 1 .. (n + 1) - 1 = (1 .. n - 1) \cup {n} /\ n \notin 1 .. n - 1 /\ 1 .. n - 1 \subseteq 1 .. Len(doc)
  OBVIOUS
<1>2. 1 .. 1 - 1 = {} /\ 1 .. (Len(doc) + 1) - 1 = 1 .. Len(doc)
  OBVIOUS
<1>3. doc[n].key \notin Before(n)
  BY <1>1 DEF Before, Unrepeated
<1> QED BY <1>1, <1>2, <1>3 DEF Before, Keys

\* One member more.
LEMMA MixedNext ==
  ASSUME NEW n \in 1 .. Len(doc), Len(doc) \in Nat, Unrepeated(doc), NEW old, NEW new, NEW c,
         IsConfig(c),
         \A f \in Fields : c[f] = IF Section[f] = doc[n].key THEN new[f] ELSE Mixed(old, new, n)[f]
  PROVE  c = Mixed(old, new, n + 1)
<1>1. ASSUME NEW f \in Fields
      PROVE  c[f] = IF Section[f] \in Before(n + 1) THEN new[f] ELSE old[f]
  <2>1. Mixed(old, new, n)[f] = IF Section[f] \in Before(n) THEN new[f] ELSE old[f]
    BY DEF Mixed
  <2> QED BY <2>1, BeforeFacts
<1>2. c = [f \in Fields |-> c[f]]
  BY DEF IsConfig
<1> QED BY <1>1, <1>2 DEF Mixed

\* The document is one whose meaning is free of the order.
Free == doc # Unreadable /\ Unrepeated(doc) /\ TelemetryAfter(doc)

\* Through both passes the configuration is the document's meaning as far as
\* its sections have been read, and all of those were taken.
OrderInv ==
  Free =>
    /\ pass = "text" => cfg = Zeroed
    /\ pass = "A" =>
         /\ cfg = Mixed(Zeroed, Things(doc), at)
         /\ \A i \in 1 .. at - 1 : doc[i].key \in HandledFirst => Read(Zeroed, "A", doc[i]).ok
    /\ pass = "B" =>
         /\ cfg = Mixed(Things(doc), Filled(doc), at)
         /\ Takes(Zeroed, "A", doc, HandledFirst)
         /\ \A i \in 1 .. at - 1 :
              doc[i].key \notin HandledFirst => Read(Base(doc[i].key), "B", doc[i]).ok
    /\ pass = "accepted" => Sensible(doc) /\ cfg = Filled(doc)
    /\ pass = "rejected" => ~ Sensible(doc)

\* What the loader knows of the document it is reading.
LEMMA Reading ==
  ASSUME LoaderInv, pass \in {"A", "B"}
  PROVE  Len(doc) \in Nat /\ at \in 1 .. Len(doc) + 1 /\ at \in Nat
<1>1. doc \in Documents \ {Unreadable} /\ at \in 1 .. Len(doc) + 1
  BY DEF LoaderInv
<1>2. Len(doc) \in Nat
  BY <1>1, DocumentsAssumption DEF IsSequence
<1> QED BY <1>1, <1>2

\* A section of pass A finds its own fields as they were at the start.
LEMMA OrderPassA == LoaderInv /\ OrderInv /\ Pass("A") => OrderInv'
<1> SUFFICES ASSUME LoaderInv, OrderInv, Pass("A"), Free PROVE OrderInv'
  BY DEF OrderInv, Free, Pass
<1> DEFINE m == doc[at]
           r == Read(cfg, "A", m)
           z == Read(Zeroed, "A", m)
<1>1. /\ pass = "A" /\ at <= Len(doc) /\ doc' = doc /\ cfg' = r.cfg
      /\ at' = (IF r.ok THEN at + 1 ELSE at)
      /\ pass' = (IF r.ok THEN "A" ELSE "rejected")
  BY DEF Pass
<1>2. at \in 1 .. Len(doc) /\ Len(doc) \in Nat /\ Unrepeated(doc)
  BY <1>1, Reading DEF Free
<1>3. /\ cfg = Mixed(Zeroed, Things(doc), at)
      /\ \A i \in 1 .. at - 1 : doc[i].key \in HandledFirst => Read(Zeroed, "A", doc[i]).ok
  BY <1>1 DEF OrderInv
<1>4. m.key \notin Before(at) /\ m.key \in Keys(doc)
  BY <1>2, BeforeFacts DEF Keys
<1>5. IsConfig(cfg) /\ IsConfig(Zeroed) /\ \A f \in Fields : Section[f] = m.key => cfg[f] = Zeroed[f]
  BY <1>3, <1>4, StageFacts DEF Mixed, IsConfig
<1>6. CASE m.key \in HandledFirst
  <2>1. Local(r, z, cfg, m.key)
    <3>1. \A f \in Needs(m.key) : cfg[f] = Zeroed[f]
      <4>1. \A f \in Needs(m.key) : f \in Fields /\ Section[f] = m.key
        BY <1>6 DEF Needs, HandledFirst
      <4> QED BY <1>5, <4>1
    <3> QED BY <1>5, <1>6, <3>1, ReadLocal
  <2>2. CASE r.ok
    <3>1. z.ok
      BY <2>1, <2>2 DEF Local
    <3>2. cfg' = Mixed(Zeroed, Things(doc), at + 1)
      <4>1. IsConfig(r.cfg)
        BY <2>1 DEF Local
      <4>2. \A f \in Fields : r.cfg[f] = IF Section[f] = m.key THEN Things(doc)[f]
                                         ELSE Mixed(Zeroed, Things(doc), at)[f]
        <5>1. ASSUME NEW f \in Fields, Section[f] = m.key PROVE r.cfg[f] = Things(doc)[f]
          BY <1>2, <1>6, <2>1, <5>1, MemberFills DEF Local
        <5>2. ASSUME NEW f \in Fields, Section[f] # m.key
              PROVE  r.cfg[f] = Mixed(Zeroed, Things(doc), at)[f]
          BY <1>3, <2>1, <5>2 DEF Local
        <5> HIDE DEF r, m
        <5> QED BY <5>1, <5>2
      <4>3. r.cfg = Mixed(Zeroed, Things(doc), at + 1)
        <5> HIDE DEF r
        <5> QED BY <1>2, <4>1, <4>2, MixedNext
      <4> QED BY <1>1, <4>3
    <3>3. \A i \in 1 .. (at + 1) - 1 : doc[i].key \in HandledFirst => Read(Zeroed, "A", doc[i]).ok
      <4>1. \A i \in 1 .. (at + 1) - 1 : i \in 1 .. at - 1 \/ i = at
        BY <1>2
      <4> QED BY <1>3, <3>1, <4>1
    <3>4. pass' = "A" /\ at' = at + 1 /\ doc' = doc
      BY <1>1, <2>2
    <3> HIDE DEF r, z, m
    <3> QED BY <3>2, <3>3, <3>4 DEF OrderInv, Mixed, Before, Things, Taken, Keys, MemberOf
  <2>3. CASE ~ r.ok
    <3>1. ~ z.ok
      BY <2>1, <2>3 DEF Local
    <3>2. ~ Takes(Zeroed, "A", doc, HandledFirst)
      BY <1>2, <1>6, <3>1 DEF Takes
    <3>3. ~ Sensible(doc)
      BY <3>2 DEF Sensible
    <3>4. pass' = "rejected" /\ doc' = doc
      BY <1>1, <2>3
    <3> QED BY <3>3, <3>4 DEF OrderInv
  <2> QED BY <2>2, <2>3
<1>7. CASE m.key \notin HandledFirst
  <2>1. r = Done(cfg)
    BY <1>7, ReadSkips
  <2>2. cfg' = cfg /\ pass' = "A" /\ at' = at + 1 /\ doc' = doc
    BY <1>1, <2>1 DEF Done
  <2>3. cfg = Mixed(Zeroed, Things(doc), at + 1)
    <3>1. \A f \in Fields : cfg[f] = IF Section[f] = m.key THEN Things(doc)[f]
                                     ELSE Mixed(Zeroed, Things(doc), at)[f]
      <4>1. ASSUME NEW f \in Fields, Section[f] = m.key PROVE cfg[f] = Things(doc)[f]
        BY <1>5, <1>7, <4>1, StageFacts
      <4> HIDE DEF m
      <4> QED BY <1>3, <4>1
    <3> QED BY <1>2, <1>5, <3>1, MixedNext
  <2>4. \A i \in 1 .. (at + 1) - 1 : doc[i].key \in HandledFirst => Read(Zeroed, "A", doc[i]).ok
    <3>1. \A i \in 1 .. (at + 1) - 1 : i \in 1 .. at - 1 \/ i = at
      BY <1>2
    <3> QED BY <1>3, <1>7, <3>1
  <2> HIDE DEF r, z, m
  <2> QED BY <2>2, <2>3, <2>4 DEF OrderInv, Mixed, Before
<1> QED BY <1>6, <1>7

\* A section of pass B finds the tables it looks names up in complete: those of
\* pass A, and for telemetry the zones and modifiers before it.
LEMMA OrderPassB == LoaderInv /\ OrderInv /\ Pass("B") => OrderInv'
<1> SUFFICES ASSUME LoaderInv, OrderInv, Pass("B"), Free PROVE OrderInv'
  BY DEF OrderInv, Free, Pass
<1> DEFINE m == doc[at]
           base == Base(m.key)
           r == Read(cfg, "B", m)
           z == Read(base, "B", m)
<1>1. /\ pass = "B" /\ at <= Len(doc) /\ doc' = doc /\ cfg' = r.cfg
      /\ at' = (IF r.ok THEN at + 1 ELSE at)
      /\ pass' = (IF r.ok THEN "B" ELSE "rejected")
  BY DEF Pass
<1>2. at \in 1 .. Len(doc) /\ Len(doc) \in Nat /\ Unrepeated(doc) /\ TelemetryAfter(doc)
  BY <1>1, Reading DEF Free
<1>3. /\ cfg = Mixed(Things(doc), Filled(doc), at)
      /\ Takes(Zeroed, "A", doc, HandledFirst)
      /\ \A i \in 1 .. at - 1 :
           doc[i].key \notin HandledFirst => Read(Base(doc[i].key), "B", doc[i]).ok
  BY <1>1 DEF OrderInv
<1>4. m.key \notin Before(at) /\ m.key \in Keys(doc) /\ Before(at) \subseteq Keys(doc)
  BY <1>2, BeforeFacts DEF Keys
<1>5. /\ IsConfig(cfg) /\ IsConfig(base)
      /\ \A f \in Fields : cfg[f] = IF Section[f] \in Before(at) THEN Filled(doc)[f] ELSE Things(doc)[f]
  BY <1>3, StageFacts DEF Mixed, IsConfig, Base
<1>6. CASE m.key \notin HandledFirst
  <2>1. \A f \in Needs(m.key) : cfg[f] = base[f]
    <3> SUFFICES ASSUME NEW f \in Needs(m.key) PROVE cfg[f] = base[f]
      OBVIOUS
    <3>0. f \in Fields
      BY DEF Needs
    <3>1. CASE Section[f] = m.key
      <4>1. cfg[f] = Things(doc)[f]
        BY <1>4, <1>5, <3>0, <3>1
      <4>2. base[f] = Things(doc)[f]
        BY <3>0, <3>1, StageFacts DEF Base
      <4> QED BY <4>1, <4>2
    <3>2. CASE Section[f] \in HandledFirst
      <4>1. Section[f] # "telemetry"
        BY <3>2 DEF HandledFirst
      <4>2. Filled(doc)[f] = Tabled(doc)[f] /\ Tabled(doc)[f] = Things(doc)[f]
        BY <3>0, <3>2, <4>1, StageFacts
      <4> QED BY <1>5, <3>0, <4>2 DEF Base
    <3>3. CASE m.key = "telemetry" /\ Section[f] \in {"zones", "policy_modifiers"}
      <4>1. Filled(doc)[f] = Tabled(doc)[f]
        BY <3>0, <3>3, StageFacts
      <4>2. CASE Section[f] \in Keys(doc)
        <5>1. PICK i \in 1 .. Len(doc) : doc[i].key = Section[f]
          BY <4>2 DEF Keys
        <5>2. i < at
          BY <1>2, <3>3, <5>1 DEF TelemetryAfter
        <5>3. i \in 1 .. at - 1
          BY <1>2, <5>2
        <5>4. Section[f] \in Before(at)
          BY <5>1, <5>3 DEF Before
        <5> QED BY <1>5, <3>0, <3>3, <4>1, <5>4 DEF Base
      <4>3. CASE Section[f] \notin Keys(doc)
        <5>1. Section[f] \notin Before(at)
          BY <1>4, <4>3
        <5>2. Tabled(doc)[f] = Things(doc)[f]
          BY <3>0, <4>3, StageFacts
        <5> QED BY <1>5, <3>0, <3>3, <5>1, <5>2 DEF Base
      <4> QED BY <4>2, <4>3
    <3> QED BY <3>1, <3>2, <3>3 DEF Needs
  <2>2. Local(r, z, cfg, m.key)
    <3> HIDE DEF base
    <3> QED BY <1>5, <1>6, <2>1, ReadLocal
  <2>3. CASE r.ok
    <3>1. z.ok
      BY <2>2, <2>3 DEF Local
    <3>2. cfg' = Mixed(Things(doc), Filled(doc), at + 1)
      <4>1. IsConfig(r.cfg)
        BY <2>2 DEF Local
      <4>2. \A f \in Fields : r.cfg[f] = IF Section[f] = m.key THEN Filled(doc)[f]
                                         ELSE Mixed(Things(doc), Filled(doc), at)[f]
        <5>1. ASSUME NEW f \in Fields, Section[f] = m.key PROVE r.cfg[f] = Filled(doc)[f]
          BY <1>2, <1>6, <2>2, <5>1, MemberFills DEF Local
        <5>2. ASSUME NEW f \in Fields, Section[f] # m.key
              PROVE  r.cfg[f] = Mixed(Things(doc), Filled(doc), at)[f]
          BY <1>3, <2>2, <5>2 DEF Local
        <5> HIDE DEF r, m
        <5> QED BY <5>1, <5>2
      <4>3. r.cfg = Mixed(Things(doc), Filled(doc), at + 1)
        <5> HIDE DEF r
        <5> QED BY <1>2, <4>1, <4>2, MixedNext
      <4> QED BY <1>1, <4>3
    <3>3. \A i \in 1 .. (at + 1) - 1 :
            doc[i].key \notin HandledFirst => Read(Base(doc[i].key), "B", doc[i]).ok
      <4>1. \A i \in 1 .. (at + 1) - 1 : i \in 1 .. at - 1 \/ i = at
        BY <1>2
      <4> QED BY <1>3, <3>1, <4>1
    <3>4. pass' = "B" /\ at' = at + 1 /\ doc' = doc
      BY <1>1, <2>3
    <3> HIDE DEF r, z, m
    <3> QED BY <1>3, <3>2, <3>3, <3>4 DEF OrderInv, Mixed, Before, Base
  <2>4. CASE ~ r.ok
    <3>1. ~ z.ok
      BY <2>2, <2>4 DEF Local
    <3>2. ~ Sensible(doc)
      <4>1. CASE m.key = "telemetry"
        <5>1. ~ Takes(Tabled(doc), "B", doc, {"telemetry"})
          BY <1>2, <3>1, <4>1 DEF Takes, Base
        <5> QED BY <5>1 DEF Sensible
      <4>2. CASE m.key # "telemetry"
        <5>1. m.key \in Others(doc)
          BY <1>4, <1>6, <4>2 DEF Others
        <5>2. ~ Takes(Things(doc), "B", doc, Others(doc))
          BY <1>2, <3>1, <4>2, <5>1 DEF Takes, Base
        <5> QED BY <5>2 DEF Sensible
      <4> QED BY <4>1, <4>2
    <3>3. pass' = "rejected" /\ doc' = doc
      BY <1>1, <2>4
    <3> QED BY <3>2, <3>3 DEF OrderInv
  <2> QED BY <2>3, <2>4
<1>7. CASE m.key \in HandledFirst
  <2>1. r = Done(cfg)
    BY <1>7, ReadSkips
  <2>2. cfg' = cfg /\ pass' = "B" /\ at' = at + 1 /\ doc' = doc
    BY <1>1, <2>1 DEF Done
  <2>3. cfg = Mixed(Things(doc), Filled(doc), at + 1)
    <3>1. \A f \in Fields : cfg[f] = IF Section[f] = m.key THEN Filled(doc)[f]
                                     ELSE Mixed(Things(doc), Filled(doc), at)[f]
      <4>1. ASSUME NEW f \in Fields, Section[f] = m.key PROVE cfg[f] = Filled(doc)[f]
        <5>1. Section[f] \in HandledFirst /\ Section[f] # "telemetry"
          BY <1>7, <4>1 DEF HandledFirst
        <5>2. Filled(doc)[f] = Things(doc)[f]
          BY <5>1, StageFacts
        <5> QED BY <1>5, <5>2
      <4> HIDE DEF m
      <4> QED BY <1>3, <4>1
    <3> QED BY <1>2, <1>5, <3>1, MixedNext
  <2>4. \A i \in 1 .. (at + 1) - 1 :
          doc[i].key \notin HandledFirst => Read(Base(doc[i].key), "B", doc[i]).ok
    <3>1. \A i \in 1 .. (at + 1) - 1 : i \in 1 .. at - 1 \/ i = at
      BY <1>2
    <3> QED BY <1>3, <1>7, <3>1
  <2> HIDE DEF r, z, m
  <2> QED BY <1>3, <2>2, <2>3, <2>4 DEF OrderInv, Mixed, Before, Base
<1> QED BY <1>6, <1>7

\* Before the first member, and after the last.
LEMMA MixedEnds ==
  ASSUME Len(doc) \in Nat, NEW old, NEW new, IsConfig(old), IsConfig(new),
         \A f \in Fields : Section[f] \notin Keys(doc) => new[f] = old[f]
  PROVE  Mixed(old, new, 1) = old /\ Mixed(old, new, Len(doc) + 1) = new
<1>1. Before(1) = {} /\ Before(Len(doc) + 1) = Keys(doc)
  <2>1. 1 .. 1 - 1 = {} /\ 1 .. (Len(doc) + 1) - 1 = 1 .. Len(doc)
    OBVIOUS
  <2> QED BY <2>1 DEF Before, Keys
<1> QED BY <1>1 DEF Mixed, IsConfig

\* At the end of pass B the tables are what the semantic gate has to judge.
LEMMA OrderNext == LoaderInv /\ OrderInv /\ [Next]_vars => OrderInv'
<1> SUFFICES ASSUME LoaderInv, OrderInv, [Next]_vars, Free PROVE OrderInv'
  <2>1. [Next]_vars => doc' = doc
    BY DEF Next, Tokenize, Pass, NextPass, Finish, vars
  <2>2. doc' = doc => (Free' <=> Free)
    BY DEF Free
  <2> QED BY <2>1, <2>2 DEF OrderInv
<1>1. ASSUME Len(doc) \in Nat
      PROVE  /\ Mixed(Zeroed, Things(doc), 1) = Zeroed
             /\ Mixed(Zeroed, Things(doc), Len(doc) + 1) = Things(doc)
             /\ Mixed(Things(doc), Filled(doc), 1) = Things(doc)
             /\ Mixed(Things(doc), Filled(doc), Len(doc) + 1) = Filled(doc)
  <2>1. /\ \A f \in Fields : Section[f] \notin Keys(doc) => Things(doc)[f] = Zeroed[f]
        /\ \A f \in Fields : Section[f] \notin Keys(doc) => Filled(doc)[f] = Things(doc)[f]
    BY StageFacts
  <2> QED BY <1>1, <2>1, StageFacts, MixedEnds
<1>2. CASE Tokenize
  <2>1. doc # Unreadable /\ pass = "text" /\ at = 1
    BY <1>2 DEF Tokenize, LoaderInv, Free
  <2>2. pass' = "A" /\ at' = 1 /\ cfg' = Zeroed /\ doc' = doc
    BY <1>2, <2>1 DEF Tokenize, OrderInv
  <2>3. Len(doc) \in Nat
    BY <2>1, DocumentsAssumption DEF LoaderInv, IsSequence
  <2>4. cfg' = Mixed(Zeroed, Things(doc), 1)
    BY <1>1, <2>2, <2>3
  <2>5. \A i \in 1 .. 1 - 1 : doc[i].key \in HandledFirst => Read(Zeroed, "A", doc[i]).ok
    OBVIOUS
  <2> QED BY <2>2, <2>4, <2>5 DEF OrderInv, Mixed, Before
<1>3. CASE Pass("A") \/ Pass("B")
  BY <1>3, OrderPassA, OrderPassB
<1>4. CASE NextPass
  <2>1. /\ pass = "A" /\ at > Len(doc) /\ pass' = "B" /\ at' = 1 /\ doc' = doc /\ cfg' = cfg
    BY <1>4 DEF NextPass
  <2>2. Len(doc) \in Nat /\ at = Len(doc) + 1
    <3>1. Len(doc) \in Nat /\ at \in 1 .. Len(doc) + 1
      BY <2>1, Reading
    <3> QED BY <2>1, <3>1
  <2>3. cfg' = Mixed(Things(doc), Filled(doc), 1)
    BY <1>1, <2>1, <2>2 DEF OrderInv
  <2>4. Takes(Zeroed, "A", doc, HandledFirst)
    <3>1. \A i \in 1 .. at - 1 : doc[i].key \in HandledFirst => Read(Zeroed, "A", doc[i]).ok
      BY <2>1 DEF OrderInv
    <3>2. 1 .. at - 1 = 1 .. Len(doc)
      BY <2>2
    <3> QED BY <3>1, <3>2 DEF Takes
  <2>5. \A i \in 1 .. 1 - 1 :
          doc[i].key \notin HandledFirst => Read(Base(doc[i].key), "B", doc[i]).ok
    OBVIOUS
  <2> QED BY <2>1, <2>3, <2>4, <2>5 DEF OrderInv, Mixed, Before, Base
<1>5. CASE Finish
  <2>1. /\ pass = "B" /\ at > Len(doc) /\ doc' = doc /\ cfg' = cfg
        /\ pass' = IF Required(doc) /\ Legal(cfg) THEN "accepted" ELSE "rejected"
    BY <1>5 DEF Finish
  <2>2. Len(doc) \in Nat /\ at = Len(doc) + 1
    <3>1. Len(doc) \in Nat /\ at \in 1 .. Len(doc) + 1
      BY <2>1, Reading
    <3> QED BY <2>1, <3>1
  <2>3. cfg = Filled(doc)
    BY <1>1, <2>1, <2>2 DEF OrderInv
  <2>4. /\ Takes(Zeroed, "A", doc, HandledFirst)
        /\ Takes(Things(doc), "B", doc, Others(doc))
        /\ Takes(Tabled(doc), "B", doc, {"telemetry"})
    <3>1. \A i \in 1 .. at - 1 :
            doc[i].key \notin HandledFirst => Read(Base(doc[i].key), "B", doc[i]).ok
      BY <2>1 DEF OrderInv
    <3>2. 1 .. at - 1 = 1 .. Len(doc)
      BY <2>2
    <3>3. Takes(Things(doc), "B", doc, Others(doc))
      BY <3>1, <3>2 DEF Takes, Others, Base
    <3>4. Takes(Tabled(doc), "B", doc, {"telemetry"})
      <4>1. "telemetry" \notin HandledFirst
        BY DEF HandledFirst
      <4> QED BY <3>1, <3>2, <4>1 DEF Takes, Base
    <3> QED BY <2>1, <3>3, <3>4 DEF OrderInv
  <2>5. Sensible(doc) <=> Required(doc) /\ Legal(cfg)
    BY <2>3, <2>4 DEF Sensible
  <2>6. \/ pass' = "accepted" /\ Sensible(doc)
        \/ pass' = "rejected" /\ ~ Sensible(doc)
    BY <2>1, <2>5
  <2> QED BY <2>1, <2>3, <2>6 DEF OrderInv
<1>6. CASE UNCHANGED vars
  BY <1>6 DEF vars, OrderInv, Mixed, Before, Base
<1> QED BY <1>2, <1>3, <1>4, <1>5, <1>6 DEF Next

\* The members of a JSON object have no order: for any document whose keys do
\* not repeat and whose telemetry follows what it selects from, the loader
\* accepts it when its sections are sound, each on what the others name, and
\* fills the tables with what they say, wherever they stand.
THEOREM OrderDoesNotMatter == Spec => []OrderIrrelevant
<1>1. Init => OrderInv
  BY DEF Init, OrderInv
<1>2. OrderInv => OrderIrrelevant
  <2> SUFFICES ASSUME OrderInv, Free, pass \in {"accepted", "rejected"}
               PROVE  /\ (pass = "accepted") = Sensible(doc)
                      /\ pass = "accepted" => cfg = Filled(doc)
    BY DEF OrderIrrelevant, Free
  <2>1. CASE pass = "accepted"
    <3>1. Sensible(doc) /\ cfg = Filled(doc)
      BY <2>1 DEF OrderInv
    <3>2. Sensible(doc) \in BOOLEAN
      BY DEF Sensible
    <3> QED BY <2>1, <3>1, <3>2
  <2>2. CASE pass = "rejected"
    <3>1. ~ Sensible(doc)
      BY <2>2 DEF OrderInv
    <3>2. Sensible(doc) \in BOOLEAN
      BY DEF Sensible
    <3>3. pass # "accepted"
      BY <2>2
    <3> QED BY <3>1, <3>2, <3>3
  <2> QED BY <2>1, <2>2
<1> QED BY InitLoaderInv, NextLoaderInv, OrderNext, <1>1, <1>2, PTL DEF Spec
=================================================================================
