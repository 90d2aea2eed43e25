------------------------ MODULE CommandChannelProofs ------------------------
(***************************************************************************)
(* Proofs about ZoneControl and about the channel in front of it.           *)
(*                                                                         *)
(* ZoneControl, for every accepted configuration and every set of           *)
(* temperatures, curve points and samples: TypeOK, ShadowsAccepted and      *)
(* SetpointsBounded together are inductive; what a step leaves behind       *)
(* follows from them.                                                       *)
(*                                                                         *)
(* The channel implements ZoneControl: whatever is sent, queued, lost,      *)
(* repeated or answered late, the core sees tuning commands and control     *)
(* steps, so what is proved of ZoneControl holds behind the channel.  The   *)
(* tool's verdict is true, for any number of runs, ports and datagrams.     *)
(* And the governor whose gains come with the commands does not wind up.    *)
(***************************************************************************)
EXTENDS CommandChannel, CommonFacts, SequenceTheorems

-----------------------------------------------------------------------------
(* Zones, trips and tuning commands. *)

\* The rows of a table and the points of a curve.
LEMMA Rows ==
  ASSUME NEW table \in Seq(Trips), NEW i \in 1 .. Len(table)
  PROVE  /\ table[i] \in Trips
         /\ table[i].temp \in Int /\ table[i].hyst \in Int
         /\ table[i].temp \in IntMin .. IntMax
         /\ table[i].severity \in 1 .. 3
         /\ table[i].state \in 0 .. MaxState
<1>1. table[i] \in Trips
  BY ElementOfSeq
<1> QED BY <1>1, IntAssumption DEF Trips, Warn, Shutdown

\* The points of a curve have integer coordinates.
LEMMA PointsOf ==
  ASSUME NEW c \in Seq(Points), NEW i \in 1 .. Len(c)
  PROVE  c[i] \in Points /\ c[i].x \in Int /\ c[i].cap \in Int /\ c[i].offset \in Int
<1>1. c[i] \in Points
  BY ElementOfSeq
<1> QED BY <1>1 DEF Points

\* The cooling state of a non-empty set of trips is the largest of theirs.
LEMMA HighestStateBounds ==
  ASSUME NEW table \in Seq(Trips), NEW active \in SUBSET (1 .. Len(table)),
         NEW t \in active
  PROVE  HighestState(table, active) >= table[t].state
<1> DEFINE S == {table[i].state : i \in active}
<1>1. S \subseteq 0 .. MaxState /\ MaxState \in Nat /\ table[t].state \in S
  BY TypeAssumption, Rows
<1>2. \A s \in S : Max(S) >= s
  <2> HIDE DEF S
  <2> QED BY <1>1, MaxOfBounded
<1> QED BY <1>1, <1>2 DEF HighestState

\* The offset of a curve at any x lies between the offsets of two of its
\* points.
LEMMA OffsetBetween ==
  ASSUME NEW c \in Seq(Points), Len(c) >= 2, CurveOrdered(c), NEW x \in Int
  PROVE  /\ CurveEval(c, "offset", x) \in Int
         /\ \E p, q \in 1 .. Len(c) :
              /\ c[p].offset <= CurveEval(c, "offset", x)
              /\ CurveEval(c, "offset", x) <= c[q].offset
<1>1. OnIntegers(c, "offset")
  BY PointsOf DEF OnIntegers
<1> QED BY <1>1, CurveBetween

-----------------------------------------------------------------------------
\* A PID zone's setpoint stays in its configured bounds also where the curve
\* shifts nothing.
SetpointsBounded ==
  \A z \in Zones : IsPid(z) =>
    setpoint[z] \in ZoneCfg[z].setpointMin .. ZoneCfg[z].setpointMax

IInv == TypeOK /\ ShadowsAccepted /\ SetpointsBounded

\* The sorts of a zone's configuration.
LEMMA ConfigTypes ==
  ASSUME NEW z \in Zones
  PROVE  /\ ZoneCfg[z].trips \in Seq(Trips)
         /\ ZoneCfg[z].fallback \in Int /\ ZoneCfg[z].setpoint \in Int
         /\ ZoneCfg[z].setpointMin \in Int /\ ZoneCfg[z].setpointMax \in Int
BY TypeAssumption DEF ZoneCfgs

\* The configured tables establish the invariant.
LEMMA InitIInv == Init => IInv
<1> SUFFICES ASSUME Init PROVE IInv
  OBVIOUS
<1>1. /\ trips = [z \in Zones |-> ZoneCfg[z].trips]
      /\ setpoint = [z \in Zones |-> ZoneCfg[z].setpoint]
      /\ curve = CurveCfg
  BY DEF Init
<1>2. TypeOK
  BY <1>1, ConfigTypes, TypeAssumption, ConfigAssumption DEF Init, TypeOK, ConfigAccepted
<1>3. ShadowsAccepted
  BY <1>1, ConfigAssumption DEF ShadowsAccepted, ConfigAccepted
<1>4. SetpointsBounded
  BY <1>1, ConfigAssumption DEF SetpointsBounded, ConfigAccepted
<1> QED BY <1>2, <1>3, <1>4 DEF IInv

\* A command on a trip: the table it proposes is a table, and when it is
\* accepted it is ordered.
LEMMA ProposedTable ==
  ASSUME TypeOK, NEW z \in Zones, NEW t \in 1 .. Len(trips[z]),
         NEW temp \in Temps, NEW hyst \in Hysts,
         NEW table, table = [trips[z] EXCEPT ![t].temp = temp, ![t].hyst = hyst]
  PROVE  /\ table \in Seq(Trips) /\ Len(table) = Len(trips[z])
         /\ \A i \in 1 .. Len(table) : i # t => table[i] = trips[z][i]
<1> DEFINE row == [trips[z][t] EXCEPT !.temp = temp, !.hyst = hyst]
<1>1. trips[z] \in Seq(Trips)
  BY DEF TypeOK
<1>2. trips[z][t] \in Trips
  BY <1>1, Rows
<1>3. row \in Trips
  BY <1>2, TypeAssumption DEF Trips
<1>4. table = [trips[z] EXCEPT ![t] = row]
  BY <1>1, <1>2 DEF Trips
<1> HIDE DEF row
<1>5. /\ [trips[z] EXCEPT ![t] = row] \in Seq(Trips)
      /\ Len([trips[z] EXCEPT ![t] = row]) = Len(trips[z])
      /\ \A i \in 1 .. Len(trips[z]) :
           [trips[z] EXCEPT ![t] = row][i] = IF i = t THEN row ELSE trips[z][i]
  BY <1>1, <1>3, ExceptSeq
<1>6. table \in Seq(Trips) /\ Len(table) = Len(trips[z])
  BY <1>4, <1>5
<1>7. \A i \in 1 .. Len(trips[z]) : i # t => table[i] = trips[z][i]
  BY <1>4, <1>5
<1> QED BY <1>6, <1>7

\* The neighbour tests of a trip command keep the whole table in order.
LEMMA ProposedTableOrdered ==
  ASSUME TypeOK, NEW z \in Zones, NEW t \in 1 .. Len(trips[z]),
         NEW temp \in Temps, NEW hyst \in Hysts,
         NEW table, table = [trips[z] EXCEPT ![t].temp = temp, ![t].hyst = hyst],
         TripsOrdered(trips[z]), SetTripAccepted(z, t, table)
  PROVE  TripsOrdered(table)
<1>1. /\ Len(table) = Len(trips[z]) /\ Len(table) \in Nat
      /\ \A i \in 1 .. Len(table) : i # t => table[i] = trips[z][i]
  BY ProposedTable DEF TypeOK
<1>2. SUFFICES ASSUME NEW i \in 1 .. Len(table) - 1
               PROVE  NeighboursOrdered(table[i], table[i + 1])
  BY DEF TripsOrdered
<1>3. i \in 1 .. Len(table) /\ i + 1 \in 1 .. Len(table) /\ i \in 1 .. Len(trips[z]) - 1
  BY <1>1
<1>4. CASE t = i
  BY <1>1, <1>3, <1>4 DEF SetTripAccepted
<1>5. CASE t = i + 1
  <2>1. NeighboursOrdered(table[t - 1], table[t]) /\ t - 1 = i
    BY <1>3, <1>5 DEF SetTripAccepted
  <2> QED BY <2>1, <1>5
<1>6. CASE t # i /\ t # i + 1
  BY <1>1, <1>3, <1>6 DEF TripsOrdered
<1> QED BY <1>4, <1>5, <1>6

\* A shifted table has the rows of the table, each at its new threshold.
LEMMA ShiftRows ==
  ASSUME NEW table \in Seq(Trips), NEW offset
  PROVE  /\ Len(Shift(table, offset)) = Len(table)
         /\ \A i \in 1 .. Len(table) :
              /\ Shift(table, offset)[i].temp = table[i].temp + offset
              /\ Shift(table, offset)[i].hyst = table[i].hyst
<1>1. \A i \in 1 .. Len(table) :
        Shift(table, offset)[i] = [table[i] EXCEPT !.temp = @ + offset]
  BY DEF Shift
<1>2. Len(Shift(table, offset)) = Len(table)
  BY DEF Shift
<1>3. \A i \in 1 .. Len(table) : table[i] \in Trips
  BY Rows
<1> QED BY <1>1, <1>2, <1>3 DEF Trips

\* The offset and the zones' temperatures are integers.
LEMMA StepTypes ==
  ASSUME IInv, NEW x \in Xs, NEW sample \in Samples
  PROVE  /\ OffsetAt(x) \in Int
         /\ \A z \in Zones : ZoneTemp(z, sample[z]) \in Int
<1>1. OffsetAt(x) \in Int
  <2>1. curve \in Seq(Points) /\ Len(curve) >= 2 /\ CurveOrdered(curve) /\ x \in Int
    BY TypeAssumption DEF IInv, TypeOK, ShadowsAccepted
  <2>2. CurveEval(curve, "offset", x) \in Int
    BY <2>1, OffsetBetween
  <2> QED BY <2>2 DEF OffsetAt
<1>2. ASSUME NEW z \in Zones PROVE ZoneTemp(z, sample[z]) \in Int
  <2>1. sample[z] \in Temps \cup {NoSample}
    BY TypeAssumption
  <2>2. Temps \subseteq IntMin .. IntMax /\ IntMin .. IntMax \subseteq Int
    BY TypeAssumption, IntAssumption
  <2>3. sample[z] # NoSample => sample[z] \in Int
    BY <2>1, <2>2
  <2> QED BY <2>3, ConfigTypes DEF ZoneTemp
<1> QED BY <1>1, <1>2

\* A control tick changes no table.
LEMMA StepKeepsIInv ==
  ASSUME IInv, NEW x \in Xs, NEW sample \in Samples, Step(x, sample)
  PROVE  IInv'
<1>1. UNCHANGED <<trips, setpoint, curve>>
  BY DEF Step, tuning
<1>2. mask' \in [Zones -> SUBSET Nat]
  <2>1. ASSUME NEW z \in Zones
        PROVE  StepWise(Shift(trips[z], OffsetAt(x)), ZoneTemp(z, sample[z]), mask[z]) \in SUBSET Nat
    <3>1. trips[z] \in Seq(Trips) /\ Len(trips[z]) \in Nat
      BY DEF IInv, TypeOK
    <3>2. Len(Shift(trips[z], OffsetAt(x))) \in Nat
      BY <3>1, ShiftRows
    <3> QED BY <3>2 DEF StepWise
  <2> QED BY <2>1 DEF Step
<1>3. last' \in Steps
  BY StepTypes DEF Step, Steps
<1>4. TypeOK'
  BY <1>1, <1>2, <1>3 DEF IInv, TypeOK
<1>5. ShadowsAccepted'
  BY <1>1 DEF IInv, ShadowsAccepted
<1>6. SetpointsBounded'
  BY <1>1 DEF IInv, SetpointsBounded
<1> QED BY <1>4, <1>5, <1>6 DEF IInv

\* A refused command changes nothing the invariant reads.
LEMMA RefusedKeepsIInv ==
  ASSUME IInv, UNCHANGED <<trips, setpoint, curve, mask, last>>
  PROVE  IInv'
BY DEF IInv, TypeOK, ShadowsAccepted, SetpointsBounded

\* An accepted trip command leaves an accepted table.
LEMMA SetTripKeepsIInv ==
  ASSUME IInv, NEW z \in Zones, NEW t \in 1 .. Len(trips[z]),
         NEW temp \in Temps, NEW hyst \in Hysts, SetTrip(z, t, temp, hyst)
  PROVE  IInv'
<1> DEFINE table == [trips[z] EXCEPT ![t].temp = temp, ![t].hyst = hyst]
<1>1. CASE SetTripAccepted(z, t, table)
  <2>1. /\ trips' = [trips EXCEPT ![z] = table] /\ last' = NoStep
        /\ UNCHANGED <<setpoint, curve, mask>>
    BY <1>1 DEF SetTrip, Answer
  <2>2. TypeOK /\ TripsOrdered(trips[z])
    BY DEF IInv, ShadowsAccepted
  <2>3. table \in Seq(Trips)
    BY <2>2, ProposedTable
  <2>4. TripsOrdered(table)
    BY <2>2, <1>1, ProposedTableOrdered
  <2> HIDE DEF table
  <2>5. trips'[z] = table /\ \A y \in Zones : y # z => trips'[y] = trips[y]
    BY <2>1, <2>2 DEF TypeOK
  <2>6. TypeOK'
    BY <2>1, <2>2, <2>3 DEF TypeOK
  <2>7. \A y \in Zones : TripsOrdered(trips'[y]) /\ FallbackReachesFloor(ZoneCfg[y].fallback, trips'[y])
    BY <2>4, <2>5, <1>1 DEF IInv, ShadowsAccepted, SetTripAccepted
  <2>8. CurveFits(curve, trips', setpoint)
    <3>1. ASSUME NEW p \in 1 .. Len(curve), "offset" \in Stages, NEW y \in Zones
          PROVE  AdjustedTripsValid(trips'[y], curve[p].offset)
      <4>1. CASE y = z
        BY <4>1, <3>1, <2>5, <1>1 DEF SetTripAccepted, OffsetsTake
      <4>2. CASE y # z
        BY <4>2, <3>1, <2>5 DEF IInv, ShadowsAccepted, CurveFits, OffsetFits
      <4> QED BY <4>1, <4>2
    <3> QED BY <3>1 DEF IInv, ShadowsAccepted, CurveFits, OffsetFits
  <2>9. ShadowsAccepted'
    BY <2>1, <2>7, <2>8 DEF IInv, ShadowsAccepted
  <2>10. SetpointsBounded'
    BY <2>1 DEF IInv, SetpointsBounded
  <2> QED BY <2>6, <2>9, <2>10 DEF IInv
<1>2. CASE ~ SetTripAccepted(z, t, table)
  BY <1>2, RefusedKeepsIInv DEF SetTrip, Answer
<1> QED BY <1>1, <1>2

\* An accepted setpoint stays in bounds under every offset of the curve.
LEMMA SetSetpointKeepsIInv ==
  ASSUME IInv, NEW z \in Zones, NEW new \in Temps, SetSetpoint(z, new)
  PROVE  IInv'
<1>1. CASE IsPid(z) /\ SetpointAccepted(z, new)
  <2>1. /\ setpoint' = [setpoint EXCEPT ![z] = new] /\ last' = NoStep
        /\ UNCHANGED <<trips, curve, mask>>
    BY <1>1 DEF SetSetpoint, Answer
  <2>2. new \in Int
    BY TypeAssumption, IntAssumption
  <2>3. setpoint'[z] = new /\ \A y \in Zones : y # z => setpoint'[y] = setpoint[y]
    BY <2>1 DEF IInv, TypeOK
  <2>4. TypeOK'
    BY <2>1, <2>2 DEF IInv, TypeOK
  <2>5. SetpointsBounded'
    BY <2>1, <2>3, <1>1 DEF IInv, SetpointsBounded, SetpointAccepted, IsPid
  <2>6. CurveFits(curve, trips, setpoint')
    <3>1. ASSUME NEW p \in 1 .. Len(curve), "offset" \in Stages, NEW y \in Zones, IsPid(y)
          PROVE  SetpointTakes(y, setpoint'[y], curve[p].offset)
      <4>1. CASE y = z
        BY <4>1, <3>1, <2>3, <1>1 DEF SetpointAccepted
      <4>2. CASE y # z
        BY <4>2, <3>1, <2>3 DEF IInv, ShadowsAccepted, CurveFits, OffsetFits
      <4> QED BY <4>1, <4>2
    <3> QED BY <3>1 DEF IInv, ShadowsAccepted, CurveFits, OffsetFits
  <2>7. ShadowsAccepted'
    BY <2>1, <2>6 DEF IInv, ShadowsAccepted
  <2> QED BY <2>4, <2>5, <2>7 DEF IInv
<1>2. CASE ~ (IsPid(z) /\ SetpointAccepted(z, new))
  BY <1>2, RefusedKeepsIInv DEF SetSetpoint, Answer
<1> QED BY <1>1, <1>2

\* An accepted curve point fits every table and setpoint.
LEMMA SetCurvePointKeepsIInv ==
  ASSUME IInv, NEW p \in 1 .. Len(curve), NEW point \in CurvePoints, SetCurvePoint(p, point)
  PROVE  IInv'
<1> DEFINE new == [curve EXCEPT ![p] = point]
<1>1. CASE CurvePointAccepted(p, point)
  <2>1. /\ curve' = new /\ last' = NoStep /\ UNCHANGED <<trips, setpoint, mask>>
    BY <1>1 DEF SetCurvePoint, Answer
  <2>2. curve \in Seq(Points) /\ point \in Points /\ Len(curve) \in Nat
    <3>1. point.x \in Int /\ point.cap \in Int /\ point.offset \in Int
      BY TypeAssumption DEF CurvePoints
    <3> QED BY <3>1 DEF IInv, TypeOK, CurvePoints, Points
  <2>3. /\ new \in Seq(Points) /\ Len(new) = Len(curve)
        /\ \A i \in 1 .. Len(curve) : new[i] = IF i = p THEN point ELSE curve[i]
    BY <2>2, ExceptSeq
  <2>4. CurveFits(new, trips, setpoint)
    BY <1>1 DEF CurvePointAccepted
  <2> HIDE DEF new
  <2>5. TypeOK'
    BY <2>1, <2>3 DEF IInv, TypeOK
  <2>6. CurveOrdered(new)
    <3>1. SUFFICES ASSUME NEW i \in 1 .. Len(curve) - 1 PROVE new[i].x < new[i + 1].x
      BY <2>3 DEF CurveOrdered
    <3>2. i \in 1 .. Len(curve) /\ i + 1 \in 1 .. Len(curve)
      BY <2>2
    <3>3. CASE p = i
      BY <1>1, <2>3, <3>2, <3>3 DEF CurvePointAccepted
    <3>4. CASE p = i + 1
      <4>1. curve[p - 1].x < point.x /\ p - 1 = i
        BY <1>1, <3>2, <3>4 DEF CurvePointAccepted
      <4> QED BY <2>3, <3>2, <3>4, <4>1
    <3>5. CASE p # i /\ p # i + 1
      BY <2>3, <3>2, <3>5 DEF IInv, ShadowsAccepted, CurveOrdered
    <3> QED BY <3>3, <3>4, <3>5
  <2>7. ShadowsAccepted'
    BY <2>1, <2>4, <2>6 DEF IInv, ShadowsAccepted
  <2>8. SetpointsBounded'
    BY <2>1 DEF IInv, SetpointsBounded
  <2> QED BY <2>5, <2>7, <2>8 DEF IInv
<1>2. CASE ~ CurvePointAccepted(p, point)
  BY <1>2, RefusedKeepsIInv DEF SetCurvePoint, Answer
<1> QED BY <1>1, <1>2

\* Ticks and commands keep the invariant.
LEMMA NextKeepsIInv == IInv /\ [Next]_vars => IInv'
<1> SUFFICES ASSUME IInv, [Next]_vars PROVE IInv'
  OBVIOUS
<1>1. ASSUME NEW x \in Xs, NEW sample \in Samples, Step(x, sample) PROVE IInv'
  BY <1>1, StepKeepsIInv
<1>2. ASSUME NEW z \in Zones, NEW t \in 1 .. Len(trips[z]), NEW temp \in Temps,
             NEW hyst \in Hysts, SetTrip(z, t, temp, hyst)
      PROVE  IInv'
  BY <1>2, SetTripKeepsIInv
<1>3. ASSUME NEW z \in Zones, NEW new \in Temps, SetSetpoint(z, new) PROVE IInv'
  BY <1>3, SetSetpointKeepsIInv
<1>4. ASSUME NEW p \in 1 .. Len(curve), NEW point \in CurvePoints, SetCurvePoint(p, point)
      PROVE  IInv'
  BY <1>4, SetCurvePointKeepsIInv
<1>5. CASE UNCHANGED vars
  BY <1>5, RefusedKeepsIInv DEF vars, tuning
<1> QED BY <1>1, <1>2, <1>3, <1>4, <1>5 DEF Next

\* The shadows and the other variables keep their types for every accepted
\* configuration and every set of commands.
THEOREM TypeCorrect == Spec => []TypeOK
<1>1. IInv => TypeOK
  BY DEF IInv
<1> QED BY <1>1, InitIInv, NextKeepsIInv, PTL DEF Spec

\* Whatever CMD_SET_TRIP, CMD_SET_SETPOINT and CMD_SET_CURVE_POINT came in,
\* in whatever order, the shadows stay a configuration that
\* thermal_core_validate_config would accept.
THEOREM ShadowsStayAccepted == Spec => []ShadowsAccepted
<1>1. IInv => ShadowsAccepted
  BY DEF IInv
<1> QED BY <1>1, InitIInv, NextKeepsIInv, PTL DEF Spec

-----------------------------------------------------------------------------
\* What a command leaves of the last step: nothing when it is accepted,
\* everything when it is refused.
LEMMA CommandsForget ==
  ASSUME IInv, [Next]_vars,
         ~ \E x \in Xs, sample \in Samples : Step(x, sample)
  PROVE  \/ UNCHANGED vars
         \/ /\ last' = NoStep /\ mask' = mask
            /\ \A z \in Zones : Len(trips'[z]) = Len(trips[z])
<1>1. ASSUME NEW z \in Zones, NEW t \in 1 .. Len(trips[z]), NEW temp \in Temps,
             NEW hyst \in Hysts, SetTrip(z, t, temp, hyst)
      PROVE  \/ UNCHANGED vars
             \/ /\ last' = NoStep /\ mask' = mask
                /\ \A y \in Zones : Len(trips'[y]) = Len(trips[y])
  <2> DEFINE table == [trips[z] EXCEPT ![t].temp = temp, ![t].hyst = hyst]
  <2>1. Len(table) = Len(trips[z])
    BY ProposedTable DEF IInv
  <2>2. CASE SetTripAccepted(z, t, table)
    <3>1. trips' = [trips EXCEPT ![z] = table] /\ last' = NoStep /\ mask' = mask
      BY <1>1, <2>2 DEF SetTrip, Answer
    <3> HIDE DEF table
    <3> QED BY <2>1, <3>1 DEF IInv, TypeOK
  <2>3. CASE ~ SetTripAccepted(z, t, table)
    BY <1>1, <2>3 DEF SetTrip, Answer, vars, tuning
  <2> QED BY <2>2, <2>3
<1>2. ASSUME NEW z \in Zones, NEW new \in Temps, SetSetpoint(z, new)
      PROVE  UNCHANGED vars \/ (last' = NoStep /\ mask' = mask /\ trips' = trips)
  BY <1>2 DEF SetSetpoint, Answer, vars, tuning
<1>3. ASSUME NEW p \in 1 .. Len(curve), NEW point \in CurvePoints, SetCurvePoint(p, point)
      PROVE  UNCHANGED vars \/ (last' = NoStep /\ mask' = mask /\ trips' = trips)
  BY <1>3 DEF SetCurvePoint, Answer, vars, tuning
<1> QED BY <1>1, <1>2, <1>3 DEF Next

\* The trips a step activates: those of the shifted table that the
\* temperature has reached, and those it has not left.
LEMMA StepMask ==
  ASSUME IInv, NEW x \in Xs, NEW sample \in Samples, Step(x, sample), NEW z \in Zones
  PROVE  /\ trips' = trips
         /\ trips[z] \in Seq(Trips) /\ Len(trips[z]) \in Nat
         /\ last'.stepped /\ last'.offset = OffsetAt(x) /\ last'.offset \in Int
         /\ last'.temp[z] = ZoneTemp(z, sample[z]) /\ last'.temp[z] \in Int
         /\ last'.valid[z] = (sample[z] # NoSample)
         /\ mask'[z] \subseteq 1 .. Len(trips[z])
         /\ \A i \in 1 .. Len(trips[z]) :
              i \in mask'[z] <=>
                \/ last'.temp[z] >= trips[z][i].temp + last'.offset
                \/ /\ last'.temp[z] >= (trips[z][i].temp + last'.offset) - trips[z][i].hyst
                   /\ i \in mask[z]
<1> DEFINE o == OffsetAt(x)
           e == ZoneTemp(z, sample[z])
<1>1. /\ trips' = trips /\ trips[z] \in Seq(Trips) /\ Len(trips[z]) \in Nat
  BY DEF Step, tuning, IInv, TypeOK
<1>2. /\ last'.stepped /\ last'.offset = o /\ last'.temp[z] = e
      /\ last'.valid[z] = (sample[z] # NoSample)
  BY DEF Step
<1>3. o \in Int /\ e \in Int
  BY StepTypes
<1>4. mask'[z] = StepWise(Shift(trips[z], o), e, mask[z])
  BY DEF Step
<1> HIDE DEF o, e
<1>5. mask'[z] = {i \in 1 .. Len(trips[z]) : TripActive(Shift(trips[z], o)[i], e, i \in mask[z])}
  BY <1>1, <1>4, ShiftRows DEF StepWise
<1>6. \A i \in 1 .. Len(trips[z]) :
        i \in mask'[z] <=> TripActive(Shift(trips[z], o)[i], e, i \in mask[z])
  BY <1>5
<1>7. \A i \in 1 .. Len(trips[z]) :
        /\ Shift(trips[z], o)[i].temp = trips[z][i].temp + o
        /\ Shift(trips[z], o)[i].hyst = trips[z][i].hyst
  BY <1>1, ShiftRows
<1>8. ASSUME NEW i \in 1 .. Len(trips[z])
      PROVE  i \in mask'[z] <=>
               \/ e >= trips[z][i].temp + o
               \/ e >= (trips[z][i].temp + o) - trips[z][i].hyst /\ i \in mask[z]
  BY <1>6, <1>7 DEF TripActive
<1> QED BY <1>1, <1>2, <1>3, <1>5, <1>8 DEF o, e

\* The active trips of a zone stay a prefix of its table, whatever offset the
\* curve has and whatever commands came between two steps.
THEOREM TripsNested == Spec => []ActiveTripsNested
<1>1. Init => ActiveTripsNested
  BY DEF Init, ActiveTripsNested
<1>2. IInv /\ ActiveTripsNested /\ [Next]_vars => ActiveTripsNested'
  <2> SUFFICES ASSUME IInv, ActiveTripsNested, [Next]_vars PROVE ActiveTripsNested'
    OBVIOUS
  <2>1. ASSUME NEW x \in Xs, NEW sample \in Samples, Step(x, sample)
        PROVE  ActiveTripsNested'
    <3>1. SUFFICES ASSUME NEW z \in Zones, NEW i \in 1 .. Len(trips[z]) - 1, i + 1 \in mask'[z]
                   PROVE  i \in mask'[z]
      <4>1. trips' = trips
        BY <2>1 DEF Step, tuning
      <4> QED BY <4>1 DEF ActiveTripsNested
    <3>2. trips[z] \in Seq(Trips) /\ Len(trips[z]) \in Nat
      BY DEF IInv, TypeOK
    <3>3. i \in 1 .. Len(trips[z]) /\ i + 1 \in 1 .. Len(trips[z])
      BY <3>2
    <3>4. /\ trips[z][i].temp \in Int /\ trips[z][i + 1].temp \in Int
          /\ trips[z][i].hyst \in Int /\ trips[z][i + 1].hyst \in Int
      BY <3>2, <3>3, Rows
    <3>5. NeighboursOrdered(trips[z][i], trips[z][i + 1])
      BY DEF IInv, ShadowsAccepted, TripsOrdered
    <3>6. last'.offset \in Int /\ last'.temp[z] \in Int
      BY <2>1, StepMask
    <3>7. \/ last'.temp[z] >= trips[z][i + 1].temp + last'.offset
          \/ last'.temp[z] >= (trips[z][i + 1].temp + last'.offset) - trips[z][i + 1].hyst
      BY <2>1, <3>1, <3>3, StepMask
    <3>8. last'.temp[z] >= trips[z][i].temp + last'.offset
      BY <3>4, <3>5, <3>6, <3>7, SMTT(60) DEF NeighboursOrdered
    <3> QED BY <2>1, <3>3, <3>8, StepMask
  <2>2. CASE ~ \E x \in Xs, sample \in Samples : Step(x, sample)
    <3>1. mask' = mask /\ \A z \in Zones : Len(trips'[z]) = Len(trips[z])
      BY <2>2, CommandsForget DEF vars, tuning
    <3> QED BY <3>1 DEF ActiveTripsNested
  <2> QED BY <2>1, <2>2
<1> QED BY <1>1, <1>2, InitIInv, NextKeepsIInv, PTL DEF Spec

\* A step that finds a zone at or above a CRITICAL or SHUTDOWN trip leaves it
\* with at least that trip's cooling state, under both governors.
THEOREM FloorHeld == Spec => []SafetyFloorHeld
<1>1. Init => SafetyFloorHeld
  BY DEF Init, NoStep, SafetyFloorHeld
<1>2. IInv /\ SafetyFloorHeld /\ [Next]_vars => SafetyFloorHeld'
  <2> SUFFICES ASSUME IInv, SafetyFloorHeld, [Next]_vars PROVE SafetyFloorHeld'
    OBVIOUS
  <2>1. ASSUME NEW x \in Xs, NEW sample \in Samples, Step(x, sample)
        PROVE  SafetyFloorHeld'
    <3>1. SUFFICES ASSUME NEW z \in Zones, NEW t \in 1 .. Len(trips[z]),
                          trips[z][t].severity >= Critical,
                          last'.temp[z] >= trips[z][t].temp + last'.offset
                   PROVE  CoolingState(z)' >= trips[z][t].state
      <4>1. trips' = trips
        BY <2>1 DEF Step, tuning
      <4> QED BY <4>1 DEF SafetyFloorHeld
    <3> DEFINE asked == IF IsPid(z) THEN SafetyTrips(trips[z], mask'[z]) ELSE mask'[z]
    <3>2. /\ trips' = trips /\ trips[z] \in Seq(Trips)
          /\ mask'[z] \subseteq 1 .. Len(trips[z]) /\ t \in mask'[z]
      BY <2>1, <3>1, StepMask
    <3>3. trips[z][t].severity \in {Critical, Shutdown}
      BY <3>1, <3>2, Rows DEF Critical, Shutdown
    <3>4. t \in asked /\ asked \in SUBSET (1 .. Len(trips[z]))
      BY <3>2, <3>3 DEF SafetyTrips
    <3>5. CoolingState(z)' = HighestState(trips[z], asked)
      BY <3>2 DEF CoolingState, IsPid
    <3> HIDE DEF asked
    <3> QED BY <3>2, <3>4, <3>5, HighestStateBounds
  <2>2. CASE ~ \E x \in Xs, sample \in Samples : Step(x, sample)
    <3>1. CASE UNCHANGED vars
      BY <3>1 DEF vars, tuning, SafetyFloorHeld, CoolingState
    <3>2. CASE last' = NoStep
      BY <3>2 DEF NoStep, SafetyFloorHeld
    <3> QED BY <2>2, <3>1, <3>2, CommandsForget
  <2> QED BY <2>1, <2>2
<1> QED BY <1>1, <1>2, InitIInv, NextKeepsIInv, PTL DEF Spec

\* A step in which a zone has no valid sample activates all its CRITICAL
\* trips, however commands have moved them, unless the offset raises them.
THEOREM LossCools == Spec => []UnraisedLossCools
<1>1. Init => UnraisedLossCools
  BY DEF Init, NoStep, UnraisedLossCools
<1>2. IInv /\ UnraisedLossCools /\ [Next]_vars => UnraisedLossCools'
  <2> SUFFICES ASSUME IInv, UnraisedLossCools, [Next]_vars PROVE UnraisedLossCools'
    OBVIOUS
  <2>1. ASSUME NEW x \in Xs, NEW sample \in Samples, Step(x, sample)
        PROVE  UnraisedLossCools'
    <3>1. SUFFICES ASSUME NEW z \in Zones, NEW t \in 1 .. Len(trips[z]), last'.offset <= 0,
                          ~ last'.valid[z], trips[z][t].severity = Critical
                   PROVE  t \in mask'[z]
      <4>1. trips' = trips
        BY <2>1 DEF Step, tuning
      <4> QED BY <4>1 DEF UnraisedLossCools, FallbackCools
    <3>2. /\ trips[z] \in Seq(Trips) /\ last'.offset \in Int
          /\ last'.temp[z] = ZoneTemp(z, sample[z]) /\ sample[z] = NoSample
      BY <2>1, <3>1, StepMask
    <3>3. last'.temp[z] = ZoneCfg[z].fallback
      BY <3>2 DEF ZoneTemp
    <3>4. ZoneCfg[z].fallback >= trips[z][t].temp
      BY <3>1 DEF IInv, ShadowsAccepted, FallbackReachesFloor
    <3>5. ZoneCfg[z].fallback \in Int /\ trips[z][t].temp \in Int
      BY <3>2, ConfigTypes, Rows
    <3>6. last'.temp[z] >= trips[z][t].temp + last'.offset
      BY <3>1, <3>2, <3>3, <3>4, <3>5
    <3> QED BY <2>1, <3>6, StepMask
  <2>2. CASE ~ \E x \in Xs, sample \in Samples : Step(x, sample)
    <3>1. CASE UNCHANGED vars
      BY <3>1 DEF vars, tuning, UnraisedLossCools, FallbackCools
    <3>2. CASE last' = NoStep
      BY <3>2 DEF NoStep, UnraisedLossCools
    <3> QED BY <2>2, <3>1, <3>2, CommandsForget
  <2> QED BY <2>1, <2>2
<1> QED BY <1>1, <1>2, InitIInv, NextKeepsIInv, PTL DEF Spec

\* A sum whose second term lies between two lies between their sums.
LEMMA BetweenTwo ==
  ASSUME NEW lo \in Int, NEW hi \in Int, NEW n \in Int, NEW a \in Int, NEW o \in Int,
         NEW b \in Int, a <= o, o <= b, n + a \in lo .. hi, n + b \in lo .. hi
  PROVE  n + o \in lo .. hi
OBVIOUS

\* Two neighbours shifted alike keep their order and dead bands.
LEMMA ShiftedNeighbours ==
  ASSUME NEW low \in Int, NEW high \in Int, NEW hyst \in Int, NEW o \in Int,
         low < high, high - hyst >= low
  PROVE  low + o < high + o /\ (high + o) - hyst >= low + o
OBVIOUS

\* The offset of the curve at any x shifts tables and setpoints as legally as
\* the offsets of its points, against which the commands were checked.
LEMMA OffsetsLegal ==
  ASSUME IInv, NEW x \in Int, NEW z \in Zones
  PROVE  /\ AdjustedTripsValid(trips[z], OffsetAt(x))
         /\ IsPid(z) => setpoint[z] + OffsetAt(x) \in ZoneCfg[z].setpointMin .. ZoneCfg[z].setpointMax
<1> DEFINE o == OffsetAt(x)
<1>1. /\ trips[z] \in Seq(Trips) /\ Len(trips[z]) \in Nat /\ setpoint[z] \in Int
      /\ curve \in Seq(Points) /\ Len(curve) >= 2 /\ CurveOrdered(curve)
  BY DEF IInv, TypeOK, ShadowsAccepted
<1>2. IntMin \in Int /\ IntMax \in Int /\ ZoneCfg[z].setpointMin \in Int /\ ZoneCfg[z].setpointMax \in Int
  BY IntAssumption, ConfigTypes
<1>3. /\ o \in Int
      /\ \A i \in 1 .. Len(trips[z]) : trips[z][i].temp + o \in IntMin .. IntMax
      /\ IsPid(z) => setpoint[z] + o \in ZoneCfg[z].setpointMin .. ZoneCfg[z].setpointMax
  <2>1. CASE "offset" \notin Stages
    <3>1. o = 0
      BY <2>1 DEF OffsetAt
    <3>2. \A i \in 1 .. Len(trips[z]) : trips[z][i].temp + 0 \in IntMin .. IntMax
      BY <1>1, <1>2, Rows
    <3> HIDE DEF o
    <3> QED BY <1>1, <1>2, <3>1, <3>2 DEF IInv, SetpointsBounded
  <2>2. CASE "offset" \in Stages
    <3>1. o = CurveEval(curve, "offset", x)
      BY <2>2 DEF OffsetAt
    <3>2. PICK p, q \in 1 .. Len(curve) : curve[p].offset <= o /\ o <= curve[q].offset
      BY <1>1, <3>1, OffsetBetween
    <3>3. o \in Int
      BY <1>1, <3>1, OffsetBetween
    <3> HIDE DEF o
    <3>4. curve[p].offset \in Int /\ curve[q].offset \in Int
      BY <1>1, PointsOf
    <3>5. OffsetFits(curve[p].offset, trips, setpoint) /\ OffsetFits(curve[q].offset, trips, setpoint)
      BY DEF IInv, ShadowsAccepted, CurveFits
    <3>6. ASSUME NEW i \in 1 .. Len(trips[z])
          PROVE  trips[z][i].temp + o \in IntMin .. IntMax
      <4>1. /\ trips[z][i].temp + curve[p].offset \in IntMin .. IntMax
            /\ trips[z][i].temp + curve[q].offset \in IntMin .. IntMax
        BY <2>2, <3>5 DEF OffsetFits, AdjustedTripsValid
      <4>2. trips[z][i].temp \in Int
        BY <1>1, Rows
      <4> QED BY <1>2, <3>2, <3>3, <3>4, <4>1, <4>2, BetweenTwo
    <3>7. ASSUME IsPid(z)
          PROVE  setpoint[z] + o \in ZoneCfg[z].setpointMin .. ZoneCfg[z].setpointMax
      <4>1. /\ setpoint[z] + curve[p].offset \in ZoneCfg[z].setpointMin .. ZoneCfg[z].setpointMax
            /\ setpoint[z] + curve[q].offset \in ZoneCfg[z].setpointMin .. ZoneCfg[z].setpointMax
        BY <2>2, <3>5, <3>7 DEF OffsetFits, SetpointTakes
      <4> QED BY <1>1, <1>2, <3>2, <3>3, <3>4, <4>1, BetweenTwo
    <3> QED BY <3>3, <3>6, <3>7
  <2> QED BY <2>1, <2>2
<1> HIDE DEF o
<1>4. TripsOrdered(Shift(trips[z], o))
  <2>1. SUFFICES ASSUME NEW i \in 1 .. Len(trips[z]) - 1
                 PROVE  NeighboursOrdered(Shift(trips[z], o)[i], Shift(trips[z], o)[i + 1])
    BY <1>1, ShiftRows DEF TripsOrdered
  <2>2. i \in 1 .. Len(trips[z]) /\ i + 1 \in 1 .. Len(trips[z])
    BY <1>1
  <2>3. /\ trips[z][i].temp \in Int /\ trips[z][i + 1].temp \in Int
        /\ trips[z][i + 1].hyst \in Int
    BY <1>1, <2>2, Rows
  <2>4. NeighboursOrdered(trips[z][i], trips[z][i + 1])
    BY DEF IInv, ShadowsAccepted, TripsOrdered
  <2>5. /\ Shift(trips[z], o)[i].temp = trips[z][i].temp + o
        /\ Shift(trips[z], o)[i + 1].temp = trips[z][i + 1].temp + o
        /\ Shift(trips[z], o)[i + 1].hyst = trips[z][i + 1].hyst
    BY <1>1, <2>2, ShiftRows
  <2>6. /\ trips[z][i].temp + o < trips[z][i + 1].temp + o
        /\ (trips[z][i + 1].temp + o) - trips[z][i + 1].hyst >= trips[z][i].temp + o
    BY <1>3, <2>3, <2>4, ShiftedNeighbours DEF NeighboursOrdered
  <2> QED BY <2>5, <2>6 DEF NeighboursOrdered
<1> QED BY <1>3, <1>4 DEF o, AdjustedTripsValid

\* What a step uses between the points of the curve: shifted thresholds are
\* int32_t values in rising order, a PID zone's effective setpoint is inside
\* its bounds.
THEOREM TablesLegal == Spec => []EffectiveTablesLegal
<1>1. Init => EffectiveTablesLegal
  BY DEF Init, NoStep, EffectiveTablesLegal
<1>2. IInv /\ EffectiveTablesLegal /\ [Next]_vars => EffectiveTablesLegal'
  <2> SUFFICES ASSUME IInv, EffectiveTablesLegal, [Next]_vars PROVE EffectiveTablesLegal'
    OBVIOUS
  <2>1. ASSUME NEW x \in Xs, NEW sample \in Samples, Step(x, sample)
        PROVE  EffectiveTablesLegal'
    <3>1. trips' = trips /\ setpoint' = setpoint /\ last'.offset = OffsetAt(x) /\ x \in Int
      BY <2>1, TypeAssumption DEF Step, tuning
    <3>2. ASSUME NEW z \in Zones
          PROVE  /\ AdjustedTripsValid(trips'[z], last'.offset)
                 /\ IsPid(z) => setpoint'[z] + last'.offset
                                 \in ZoneCfg[z].setpointMin .. ZoneCfg[z].setpointMax
      BY <3>1, OffsetsLegal
    <3> QED BY <3>2 DEF EffectiveTablesLegal, EffectiveSetpoint, IsPid
  <2>2. CASE ~ \E x \in Xs, sample \in Samples : Step(x, sample)
    <3>1. CASE UNCHANGED vars
      BY <3>1 DEF vars, tuning, EffectiveTablesLegal, EffectiveSetpoint
    <3>2. CASE last' = NoStep
      BY <3>2 DEF NoStep, EffectiveTablesLegal
    <3> QED BY <2>2, <3>1, <3>2, CommandsForget
  <2> QED BY <2>1, <2>2
<1> QED BY <1>1, <1>2, InitIInv, NextKeepsIInv, PTL DEF Spec

-----------------------------------------------------------------------------
(* The channel implements ZoneControl. *)

Forms == {"request"} \cup ForeignForms
Datagrams == [form : Forms, seq : Nat, port : Ports, cmd : ToolCommands \cup {NoCommand}]

\* What is in the queue, and that a table never changes its length.
QueueTyped ==
  /\ queue \in Seq(Datagrams)
  /\ \A i \in 1 .. Len(queue) : queue[i].form = "request" => queue[i].cmd \in ToolCommands
LengthsKept == \A z \in Zones : Len(trips[z]) = Len(ZoneCfg[z].trips)

\* What the tool holds; it has sent something before it waits.
Answers == [op : {"CMD_ACK", "CMD_NACK"}, seq : Nat]
ToolTyped ==
  /\ tool \in [port : Ports \cup {0}, seq : Nat, cmd : ToolCommands \cup {NoCommand},
               inbox : Answers \cup {NoAnswer},
               verdict : {"none", "waiting", "acked", "nacked", "unknown"}]
  /\ tool.verdict # "none" => tool.seq > 0 /\ tool.cmd \in ToolCommands
  /\ tool.inbox # NoAnswer => tool.verdict # "none"
  /\ applied \in Seq(Nat)

ZInv == IInv /\ QueueTyped /\ ToolTyped /\ LengthsKept

\* A datagram joins the queue or is lost.
LEMMA DeliverTyped ==
  ASSUME QueueTyped, NEW g \in Datagrams, g.form = "request" => g.cmd \in ToolCommands,
         Deliver(g)
  PROVE  QueueTyped'
<1>1. queue' = queue \/ queue' = Append(queue, g)
  BY DEF Deliver
<1> QED BY <1>1 DEF QueueTyped

\* The daemon takes the first one.
LEMMA TailTyped ==
  ASSUME QueueTyped, queue # <<>>, queue' = Tail(queue)
  PROVE  QueueTyped'
<1>1. /\ Tail(queue) \in Seq(Datagrams)
      /\ \A i \in 1 .. Len(Tail(queue)) :
           i + 1 \in 1 .. Len(queue) /\ Tail(queue)[i] = queue[i + 1]
  BY DEF QueueTyped
<1> QED BY <1>1 DEF QueueTyped

\* A command keeps the lengths, like any other step of ZoneControl.
LEMMA NextKeepsLengths == IInv /\ LengthsKept /\ [Next]_vars => LengthsKept'
<1> SUFFICES ASSUME IInv, LengthsKept, [Next]_vars PROVE LengthsKept'
  OBVIOUS
<1>1. ASSUME NEW z \in Zones, NEW t \in 1 .. Len(trips[z]), NEW newTemp \in Temps,
             NEW newHyst \in Hysts, SetTrip(z, t, newTemp, newHyst)
      PROVE  LengthsKept'
  <2> DEFINE table == [trips[z] EXCEPT ![t].temp = newTemp, ![t].hyst = newHyst]
  <2>1. TypeOK
    BY DEF IInv
  <2>2. trips' = [trips EXCEPT ![z] = table] \/ trips' = trips
    BY <1>1 DEF SetTrip
  <2>3. Len(table) = Len(trips[z])
    BY <2>1, ProposedTable
  <2> HIDE DEF table
  <2> QED BY <2>1, <2>2, <2>3 DEF LengthsKept, TypeOK
<1>2. (\E x \in Xs, sample \in Samples : Step(x, sample)) => LengthsKept'
  BY DEF Step, tuning, LengthsKept
<1>3. (\E z \in Zones, new \in Temps : SetSetpoint(z, new)) => LengthsKept'
  BY DEF SetSetpoint, LengthsKept
<1>4. (\E p \in 1 .. Len(curve), point \in CurvePoints : SetCurvePoint(p, point)) => LengthsKept'
  BY DEF SetCurvePoint, LengthsKept
<1>5. UNCHANGED vars => LengthsKept'
  BY DEF vars, tuning, LengthsKept
<1> QED BY <1>1, <1>2, <1>3, <1>4, <1>5 DEF Next

\* A step of the channel is a step of ZoneControl or none.
LEMMA ChannelSteps == ZInv /\ [ChannelNext]_channelVars => [Next]_vars
<1> SUFFICES ASSUME ZInv, [ChannelNext]_channelVars PROVE [Next]_vars
  OBVIOUS
<1>1. CASE DaemonReceives
  <2> DEFINE g == Head(queue)
  <2>1. g \in Datagrams /\ (g.form = "request" => g.cmd \in ToolCommands)
    BY <1>1 DEF DaemonReceives, ZInv, QueueTyped
  <2>2. \/ UNCHANGED vars
        \/ /\ g.form = "request"
           /\ SetTrip(g.cmd.zone, g.cmd.trip, g.cmd.temp, g.cmd.hyst)
    BY <1>1 DEF DaemonReceives
  <2>3. ASSUME g.form = "request"
        PROVE  /\ g.cmd.zone \in Zones /\ g.cmd.trip \in 1 .. Len(trips[g.cmd.zone])
               /\ g.cmd.temp \in Temps /\ g.cmd.hyst \in Hysts
    BY <2>1, <2>3, ChannelAssumption DEF ZInv, LengthsKept
  <2> HIDE DEF g
  <2> QED BY <2>2, <2>3 DEF Next
<1>2. UNCHANGED channelVars => UNCHANGED vars
  BY DEF channelVars
<1> QED BY <1>1, <1>2 DEF ChannelNext

\* The sorts of the queue and of the tool are kept.
LEMMA SendTyped ==
  ASSUME QueueTyped, ToolTyped,
         NEW cmd \in ToolCommands, NEW port \in Ports, NEW form \in {"request", "alien"},
         ToolSends(cmd, port, form)
  PROVE  QueueTyped' /\ ToolTyped'
<1> DEFINE g == [form |-> form, seq |-> tool.seq + 1, port |-> port, cmd |-> cmd]
<1>1. tool.seq \in Nat
  BY DEF ToolTyped
<1>2. g \in Datagrams /\ g.cmd \in ToolCommands
  BY <1>1 DEF Datagrams, Forms, ForeignForms
<1>3. Deliver(g)
  BY DEF ToolSends
<1>4. QueueTyped'
  <2> HIDE DEF g
  <2> QED BY <1>2, <1>3, DeliverTyped
<1>5. ToolTyped'
  BY <1>1 DEF ToolTyped, ToolSends
<1> QED BY <1>4, <1>5

\* Another program's datagram names no command.
LEMMA ForeignTyped ==
  ASSUME QueueTyped, ToolTyped, NEW form \in ForeignForms, NEW port \in Ports,
         ForeignSends(form, port)
  PROVE  QueueTyped' /\ ToolTyped'
<1> DEFINE g == [form |-> form, seq |-> 0, port |-> port, cmd |-> NoCommand]
<1>1. g \in Datagrams /\ g.form # "request"
  BY DEF Datagrams, Forms, ForeignForms
<1>2. Deliver(g)
  BY DEF ForeignSends
<1>3. QueueTyped'
  <2> HIDE DEF g
  <2> QED BY <1>1, <1>2, DeliverTyped
<1>4. ToolTyped'
  BY DEF ToolTyped, ForeignSends
<1> QED BY <1>3, <1>4

\* An answer changes nothing of the tool but its inbox, which takes the first.
LEMMA ReplyTool ==
  ASSUME ToolTyped, NEW g \in Datagrams, NEW op \in {"CMD_ACK", "CMD_NACK"}, Reply(g, op)
  PROVE  /\ \/ tool' = tool
            \/ /\ tool' = [tool EXCEPT !.inbox = [op |-> op, seq |-> g.seq]]
               /\ tool.verdict = "waiting" /\ tool.inbox = NoAnswer
               /\ tool'.inbox = [op |-> op, seq |-> g.seq]
         /\ tool'.seq = tool.seq /\ tool'.cmd = tool.cmd /\ tool'.verdict = tool.verdict
         /\ applied' \in Seq(Nat) => ToolTyped'
<1>1. [op |-> op, seq |-> g.seq] \in Answers
  BY DEF Answers, Datagrams
<1>2. CASE tool' = tool
  BY <1>2 DEF ToolTyped
<1>3. CASE /\ tool' = [tool EXCEPT !.inbox = [op |-> op, seq |-> g.seq]]
           /\ tool.verdict = "waiting" /\ tool.inbox = NoAnswer
  BY <1>1, <1>3 DEF ToolTyped
<1> QED BY <1>2, <1>3 DEF Reply

\* The daemon answers with the number of what it read.
LEMMA DaemonTyped ==
  ASSUME ZInv, DaemonReceives
  PROVE  QueueTyped' /\ ToolTyped'
<1> USE DEF ZInv
<1> DEFINE g == Head(queue)
<1>1. QueueTyped' /\ g \in Datagrams
  BY TailTyped DEF DaemonReceives, QueueTyped
<1>2. applied' \in Seq(Nat)
  <2>1. applied' = applied \/ applied' = Append(applied, g.seq)
    BY DEF DaemonReceives
  <2>2. g.seq \in Nat /\ applied \in Seq(Nat)
    BY <1>1 DEF Datagrams, ToolTyped
  <2> HIDE DEF g
  <2> QED BY <2>1, <2>2
<1>3. CASE tool' = tool
  <2>1. ToolTyped
    OBVIOUS
  <2> HIDE DEF ZInv, g
  <2> QED BY <1>1, <1>2, <1>3, <2>1 DEF ToolTyped
<1>4. CASE \E op \in {"CMD_ACK", "CMD_NACK"} : Reply(g, op)
  <2> HIDE DEF g
  <2> QED BY <1>1, <1>2, <1>4, ReplyTool
<1> QED BY <1>1, <1>3, <1>4 DEF DaemonReceives

\* The tool ends with a verdict.
LEMMA EndTyped ==
  ASSUME ToolTyped, ToolEnds
  PROVE  ToolTyped'
<1>1. Verdict(tool.inbox) \in {"acked", "nacked", "unknown"}
  BY DEF Verdict
<1> QED BY <1>1 DEF ToolTyped, ToolEnds

\* Every step keeps the sorts.
LEMMA ZInvKept == ZInv /\ [ChannelNext]_channelVars => ZInv'
<1> SUFFICES ASSUME ZInv, [ChannelNext]_channelVars PROVE ZInv'
  OBVIOUS
<1>1. IInv' /\ LengthsKept'
  BY ChannelSteps, NextKeepsIInv, NextKeepsLengths DEF ZInv
<1>2. QueueTyped' /\ ToolTyped'
  <2> USE DEF ZInv
  <2>1. CASE UNCHANGED <<queue, tool, applied>>
    BY <2>1 DEF QueueTyped, ToolTyped
  <2>2. CASE DaemonReceives
    BY <2>2, DaemonTyped
  <2>3. ASSUME NEW cmd \in ToolCommands, NEW port \in Ports, NEW form \in {"request", "alien"},
               ToolSends(cmd, port, form)
        PROVE  QueueTyped' /\ ToolTyped'
    BY <2>3, SendTyped
  <2>4. ASSUME NEW form \in ForeignForms, NEW port \in Ports, ForeignSends(form, port)
        PROVE  QueueTyped' /\ ToolTyped'
    BY <2>4, ForeignTyped
  <2>5. CASE ToolEnds
    BY <2>5, EndTyped DEF ToolEnds, QueueTyped
  <2>6. CASE UNCHANGED channelVars
    BY <2>6, <2>1 DEF channelVars
  <2> QED BY <2>1, <2>2, <2>3, <2>4, <2>5, <2>6 DEF ChannelNext
<1> QED BY <1>1, <1>2 DEF ZInv

\* The sorts at the start.
LEMMA InitZInv == ChannelInit => ZInv
<1> SUFFICES ASSUME ChannelInit PROVE ZInv
  OBVIOUS
<1>1. IInv
  BY InitIInv DEF ChannelInit
<1>2. QueueTyped
  BY DEF ChannelInit, QueueTyped
<1>3. ToolTyped
  BY DEF ChannelInit, ToolTyped, NoAnswer, NoCommand
<1>4. LengthsKept
  BY DEF ChannelInit, Init, LengthsKept
<1> QED BY <1>1, <1>2, <1>3, <1>4 DEF ZInv

\* Whatever becomes of the datagrams, the zones behind the channel behave as
\* ZoneControl says.
THEOREM ChannelImplementsZoneControl == ChannelSpec => Spec
<1>1. ChannelInit => Init
  BY DEF ChannelInit
<1> QED BY <1>1, InitZInv, ZInvKept, ChannelSteps, PTL DEF ChannelSpec, Spec

\* So the tables tuned through the channel stay acceptable,
THEOREM ChannelKeepsShadows == ChannelSpec => []ShadowsAccepted
BY ChannelImplementsZoneControl, ShadowsStayAccepted, PTL

-----------------------------------------------------------------------------
(* The tool's verdict. *)

IsRequest(i) == queue[i].form = "request"

\* Requests are in the order of their runs, the newest is the tool's own, the
\* core has taken some of those before them, in their order; what other
\* programs send cannot be taken for an answer to a request.
Chronology ==
  /\ \A i \in 1 .. Len(queue) :
       /\ IsRequest(i) => queue[i].seq \in 1 .. tool.seq
       /\ IsRequest(i) /\ queue[i].seq = tool.seq => queue[i].cmd = tool.cmd
       /\ queue[i].form = "misuse" => queue[i].seq = 0
  /\ \A i, j \in 1 .. Len(queue) :
       i < j /\ IsRequest(i) /\ IsRequest(j) => queue[i].seq < queue[j].seq
  /\ \A k \in 1 .. Len(applied) :
       /\ applied[k] <= tool.seq
       /\ \A i \in 1 .. Len(queue) : IsRequest(i) => applied[k] < queue[i].seq
  /\ \A j, k \in 1 .. Len(applied) : j < k => applied[j] < applied[k]

\* An answer to the tool's request has been waited for by nobody else: the
\* request was the last one, so no later one can have undone it.
AnswerTrue ==
  tool.inbox # NoAnswer /\ tool.inbox.seq = tool.seq =>
    /\ \A i \in 1 .. Len(queue) : ~IsRequest(i)
    /\ tool.inbox.op = "CMD_ACK"  => /\ InForce(tool.cmd)
                                     /\ applied # <<>> /\ applied[Len(applied)] = tool.seq
    /\ tool.inbox.op = "CMD_NACK" => \A k \in 1 .. Len(applied) : applied[k] # tool.seq

\* A verdict is what the answer in the inbox says.
VerdictGiven ==
  \A v \in {<<"acked", "CMD_ACK">>, <<"nacked", "CMD_NACK">>} :
    tool.verdict = v[1] =>
      tool.inbox # NoAnswer /\ tool.inbox.seq = tool.seq /\ tool.inbox.op = v[2]

\* The channel is silent where it is not used.
Silent == entry # "network" => queue = <<>> /\ tool.verdict = "none"

VInv == ZInv /\ Chronology /\ AnswerTrue /\ VerdictGiven /\ Silent

\* What a delivery does to the queue.
LEMMA Delivered ==
  ASSUME QueueTyped, NEW g, Deliver(g)
  PROVE  /\ Len(queue) \in Nat /\ Len(queue') \in Nat
         /\ \/ queue' = queue
            \/ /\ Len(queue') = Len(queue) + 1
               /\ queue'[Len(queue')] = g
               /\ \A i \in 1 .. Len(queue) : queue'[i] = queue[i]
BY DEF QueueTyped, Deliver

\* Nothing is sent or answered at the start.
LEMMA InitVInv == ChannelInit => VInv
<1> SUFFICES ASSUME ChannelInit PROVE VInv
  OBVIOUS
<1>1. Chronology
  BY DEF ChannelInit, Chronology
<1>2. AnswerTrue /\ VerdictGiven /\ Silent
  BY DEF ChannelInit, AnswerTrue, VerdictGiven, Silent
<1> QED BY <1>1, <1>2, InitZInv DEF VInv

\* A new run's request is newer than all there are.
LEMMA SendVInv ==
  ASSUME VInv, NEW cmd \in ToolCommands, NEW port \in Ports, NEW form \in {"request", "alien"},
         ToolSends(cmd, port, form), entry = "network", entry' = entry, UNCHANGED trips
  PROVE  Chronology' /\ AnswerTrue' /\ VerdictGiven' /\ Silent'
<1> DEFINE g == [form |-> form, seq |-> tool.seq + 1, port |-> port, cmd |-> cmd]
<1>1. /\ tool.seq \in Nat /\ applied' = applied /\ applied \in Seq(Nat)
      /\ tool'.seq = tool.seq + 1 /\ tool'.cmd = cmd
      /\ tool'.inbox = NoAnswer /\ tool'.verdict = "waiting"
      /\ QueueTyped
  BY DEF VInv, ZInv, ToolTyped, ToolSends
<1>2. /\ Len(queue) \in Nat /\ Len(queue') \in Nat
      /\ \/ queue' = queue
         \/ /\ Len(queue') = Len(queue) + 1
            /\ queue'[Len(queue')] = g
            /\ \A i \in 1 .. Len(queue) : queue'[i] = queue[i]
  <2>1. Deliver(g)
    BY DEF ToolSends
  <2> HIDE DEF g
  <2> QED BY <1>1, <2>1, Delivered
<1>3. g.form = form /\ g.seq = tool.seq + 1 /\ g.cmd = cmd
  OBVIOUS
<1>4. /\ \A i \in 1 .. Len(queue) : queue[i].seq \in Nat
      /\ \A k \in 1 .. Len(applied) : applied[k] \in Nat
  <2>1. \A i \in 1 .. Len(queue) : queue[i] \in Datagrams
    BY <1>1 DEF QueueTyped
  <2> QED BY <1>1, <2>1 DEF Datagrams
<1>5. /\ \A i \in 1 .. Len(queue) :
           /\ queue[i].form = "request" => queue[i].seq <= tool.seq /\ queue[i].seq > 0
           /\ queue[i].form = "misuse" => queue[i].seq = 0
      /\ \A i, j \in 1 .. Len(queue) :
           i < j /\ queue[i].form = "request" /\ queue[j].form = "request" =>
             queue[i].seq < queue[j].seq
      /\ \A k \in 1 .. Len(applied) :
           /\ applied[k] <= tool.seq
           /\ \A i \in 1 .. Len(queue) :
                queue[i].form = "request" => applied[k] < queue[i].seq
      /\ \A j, k \in 1 .. Len(applied) : j < k => applied[j] < applied[k]
  <2>1. Chronology
    BY DEF VInv
  <2>2. \A i \in 1 .. Len(queue) :
          /\ queue[i].form = "request" => queue[i].seq \in 1 .. tool.seq
          /\ queue[i].form = "misuse" => queue[i].seq = 0
    BY <2>1 DEF Chronology, IsRequest
  <2>3. \A i \in 1 .. Len(queue) :
          /\ queue[i].form = "request" => queue[i].seq <= tool.seq /\ queue[i].seq > 0
          /\ queue[i].form = "misuse" => queue[i].seq = 0
    BY <1>1, <2>2
  <2> QED BY <2>1, <2>3 DEF Chronology, IsRequest
<1>6. AnswerTrue' /\ VerdictGiven' /\ Silent'
  BY <1>1 DEF AnswerTrue, VerdictGiven, Silent
<1> HIDE DEF g
<1>7. CASE queue' = queue
  <2>1. \A i \in 1 .. Len(queue') :
          /\ queue'[i].form = "request" => queue'[i].seq \in 1 .. tool'.seq
          /\ queue'[i].form = "request" /\ queue'[i].seq = tool'.seq => queue'[i].cmd = tool'.cmd
          /\ queue'[i].form = "misuse" => queue'[i].seq = 0
    BY <1>1, <1>4, <1>5, <1>7
  <2>2. \A k \in 1 .. Len(applied') :
          /\ applied'[k] <= tool'.seq
          /\ \A i \in 1 .. Len(queue') : queue'[i].form = "request" => applied'[k] < queue'[i].seq
    <3>1. \A k \in 1 .. Len(applied) : applied[k] <= tool.seq + 1
      BY <1>1, <1>4, <1>5
    <3> QED BY <1>1, <1>5, <1>7, <3>1
  <2> QED BY <1>1, <1>5, <1>6, <1>7, <2>1, <2>2 DEF Chronology, IsRequest
<1>8. CASE /\ Len(queue') = Len(queue) + 1
           /\ queue'[Len(queue')] = g
           /\ \A i \in 1 .. Len(queue) : queue'[i] = queue[i]
  <2>1. \A i \in 1 .. Len(queue') : i \in 1 .. Len(queue) \/ i = Len(queue')
    BY <1>2, <1>8
  <2>2. \A i \in 1 .. Len(queue') :
          /\ queue'[i].form = "request" => queue'[i].seq \in 1 .. tool'.seq
          /\ queue'[i].form = "request" /\ queue'[i].seq = tool'.seq => queue'[i].cmd = tool'.cmd
          /\ queue'[i].form = "misuse" => queue'[i].seq = 0
    BY <1>1, <1>3, <1>4, <1>5, <1>8, <2>1
  <2>3. \A i, j \in 1 .. Len(queue') :
          i < j /\ queue'[i].form = "request" /\ queue'[j].form = "request" =>
            queue'[i].seq < queue'[j].seq
    <3> SUFFICES ASSUME NEW i \in 1 .. Len(queue'), NEW j \in 1 .. Len(queue'), i < j,
                        queue'[i].form = "request", queue'[j].form = "request"
                 PROVE  queue'[i].seq < queue'[j].seq
      OBVIOUS
    <3>1. i \in 1 .. Len(queue) /\ queue'[i] = queue[i]
      BY <1>2, <1>8
    <3>2. CASE j \in 1 .. Len(queue)
      BY <1>5, <1>8, <3>1, <3>2
    <3>3. CASE j = Len(queue')
      <4>1. queue'[j].seq = tool.seq + 1
        BY <1>3, <1>8, <3>3
      <4>2. queue[i].seq <= tool.seq /\ queue[i].seq \in Nat
        BY <1>4, <1>5, <3>1
      <4> QED BY <1>1, <3>1, <4>1, <4>2
    <3> QED BY <2>1, <3>2, <3>3
  <2>4. \A k \in 1 .. Len(applied') :
          /\ applied'[k] <= tool'.seq
          /\ \A i \in 1 .. Len(queue') : queue'[i].form = "request" => applied'[k] < queue'[i].seq
    <3>1. \A k \in 1 .. Len(applied) : applied[k] <= tool.seq + 1 /\ applied[k] < tool.seq + 1
      BY <1>1, <1>4, <1>5
    <3> QED BY <1>1, <1>3, <1>5, <1>8, <2>1, <3>1
  <2>5. \A j, k \in 1 .. Len(applied') : j < k => applied'[j] < applied'[k]
    BY <1>1, <1>5
  <2> QED BY <1>6, <2>2, <2>3, <2>4, <2>5 DEF Chronology, IsRequest
<1> QED BY <1>2, <1>7, <1>8

\* What other programs send comes between the requests.
LEMMA ForeignVInv ==
  ASSUME VInv, NEW form \in ForeignForms, NEW port \in Ports,
         ForeignSends(form, port), entry = "network", entry' = entry, UNCHANGED trips
  PROVE  Chronology' /\ AnswerTrue' /\ VerdictGiven' /\ Silent'
<1> DEFINE g == [form |-> form, seq |-> 0, port |-> port, cmd |-> NoCommand]
<1>1. tool' = tool /\ applied' = applied /\ QueueTyped
  BY DEF VInv, ZInv, ForeignSends
<1>2. /\ Len(queue) \in Nat /\ Len(queue') \in Nat
      /\ \/ queue' = queue
         \/ /\ Len(queue') = Len(queue) + 1
            /\ queue'[Len(queue')] = g
            /\ \A i \in 1 .. Len(queue) : queue'[i] = queue[i]
  <2>1. Deliver(g)
    BY DEF ForeignSends
  <2> HIDE DEF g
  <2> QED BY <1>1, <2>1, Delivered
<1>3. g.form # "request" /\ g.seq = 0
  BY DEF ForeignForms
<1>4. Chronology /\ AnswerTrue /\ VerdictGiven
  BY DEF VInv
<1> HIDE DEF g
<1>5. \A i \in 1 .. Len(queue') :
        \/ i \in 1 .. Len(queue) /\ queue'[i] = queue[i]
        \/ queue'[i].form # "request" /\ queue'[i].seq = 0
  BY <1>2, <1>3
<1>6. Chronology'
  BY <1>1, <1>4, <1>5 DEF Chronology, IsRequest
<1>7. AnswerTrue'
  BY <1>1, <1>4, <1>5 DEF AnswerTrue, IsRequest, InForce
<1>8. VerdictGiven' /\ Silent'
  BY <1>1, <1>4 DEF VerdictGiven, Silent
<1> QED BY <1>6, <1>7, <1>8

\* The daemon takes the first datagram; when the core took its request, the
\* request is the latest it took.
LEMMA TakenInOrder ==
  ASSUME VInv, DaemonReceives, tool'.seq = tool.seq, tool'.cmd = tool.cmd,
         applied' = applied \/ (Head(queue).form = "request" /\ applied' = Append(applied, Head(queue).seq))
  PROVE  Chronology'
<1>1. /\ Chronology /\ queue \in Seq(Datagrams) /\ applied \in Seq(Nat) /\ tool.seq \in Nat
      /\ queue # <<>> /\ queue' = Tail(queue)
  BY DEF VInv, ZInv, QueueTyped, ToolTyped, DaemonReceives
<1>2. /\ Len(queue') = Len(queue) - 1 /\ Len(queue) \in Nat
      /\ 1 \in 1 .. Len(queue) /\ Head(queue) = queue[1]
      /\ \A i \in 1 .. Len(queue') :
           i + 1 \in 1 .. Len(queue) /\ 1 < i + 1 /\ queue'[i] = queue[i + 1]
  BY <1>1
<1>3. /\ \A i \in 1 .. Len(queue') :
           /\ queue'[i].form = "request" => queue'[i].seq \in 1 .. tool'.seq
           /\ queue'[i].form = "request" /\ queue'[i].seq = tool'.seq => queue'[i].cmd = tool'.cmd
           /\ queue'[i].form = "misuse" => queue'[i].seq = 0
  BY <1>1, <1>2 DEF Chronology, IsRequest
<1>4. \A i, j \in 1 .. Len(queue') :
        i < j /\ queue'[i].form = "request" /\ queue'[j].form = "request" =>
          queue'[i].seq < queue'[j].seq
  <2>1. \A i, j \in 1 .. Len(queue') : i < j => i + 1 < j + 1
    OBVIOUS
  <2> QED BY <1>1, <1>2, <2>1 DEF Chronology, IsRequest
<1>5. /\ \A k \in 1 .. Len(applied) :
           /\ applied[k] <= tool'.seq
           /\ \A i \in 1 .. Len(queue') : queue'[i].form = "request" => applied[k] < queue'[i].seq
           /\ Head(queue).form = "request" => applied[k] < Head(queue).seq
      /\ \A j, k \in 1 .. Len(applied) : j < k => applied[j] < applied[k]
  BY <1>1, <1>2 DEF Chronology, IsRequest
<1>6. ASSUME Head(queue).form = "request"
      PROVE  /\ Head(queue).seq \in 1 .. tool'.seq
             /\ \A i \in 1 .. Len(queue') :
                  queue'[i].form = "request" => Head(queue).seq < queue'[i].seq
  BY <1>1, <1>2, <1>6 DEF Chronology, IsRequest
<1>7. /\ \A k \in 1 .. Len(applied') :
           /\ applied'[k] <= tool'.seq
           /\ \A i \in 1 .. Len(queue') : queue'[i].form = "request" => applied'[k] < queue'[i].seq
      /\ \A j, k \in 1 .. Len(applied') : j < k => applied'[j] < applied'[k]
  <2>1. CASE applied' = applied
    BY <1>5, <2>1
  <2>2. CASE Head(queue).form = "request" /\ applied' = Append(applied, Head(queue).seq)
    <3>1. /\ Len(applied') = Len(applied) + 1 /\ Len(applied) \in Nat
          /\ applied'[Len(applied')] = Head(queue).seq
          /\ \A k \in 1 .. Len(applied) : applied'[k] = applied[k]
      BY <1>1, <2>2
    <3>2. \A k \in 1 .. Len(applied') : k \in 1 .. Len(applied) \/ k = Len(applied')
      BY <3>1
    <3>3. Head(queue).seq <= tool'.seq
      BY <1>1, <1>6, <2>2
    <3>4. \A k \in 1 .. Len(applied') :
            /\ applied'[k] <= tool'.seq
            /\ \A i \in 1 .. Len(queue') : queue'[i].form = "request" => applied'[k] < queue'[i].seq
      BY <1>5, <1>6, <2>2, <3>1, <3>2, <3>3
    <3>5. \A j, k \in 1 .. Len(applied') : j < k => applied'[j] < applied'[k]
      <4>1. \A j, k \in 1 .. Len(applied') : j < k => j \in 1 .. Len(applied)
        BY <3>1
      <4> QED BY <1>5, <2>2, <3>1, <3>2, <4>1
    <3> QED BY <3>4, <3>5
  <2> QED BY <2>1, <2>2
<1> QED BY <1>3, <1>4, <1>7 DEF Chronology, IsRequest

\* A request that was taken is in force.
LEMMA TakenInForce ==
  ASSUME ZInv, NEW cmd \in ToolCommands, SetTrip(cmd.zone, cmd.trip, cmd.temp, cmd.hyst),
         CommandTaken(cmd)
  PROVE  /\ trips'[cmd.zone][cmd.trip].temp = cmd.temp
         /\ trips'[cmd.zone][cmd.trip].hyst = cmd.hyst
<1> DEFINE z == cmd.zone
           table == [trips[z] EXCEPT ![cmd.trip].temp = cmd.temp, ![cmd.trip].hyst = cmd.hyst]
<1>1. /\ z \in Zones /\ cmd.trip \in 1 .. Len(trips[z])
      /\ trips \in [Zones -> Seq(Trips)]
  BY ChannelAssumption DEF ZInv, LengthsKept, IInv, TypeOK
<1>2. trips' = [trips EXCEPT ![z] = table]
  BY DEF SetTrip, CommandTaken
<1>3. trips[z][cmd.trip] \in Trips
  BY <1>1, Rows
<1>4. table[cmd.trip].temp = cmd.temp /\ table[cmd.trip].hyst = cmd.hyst
  BY <1>1, <1>3 DEF Trips
<1> HIDE DEF table
<1>5. trips'[cmd.zone] = table
  BY <1>1, <1>2
<1> QED BY <1>4, <1>5

\* The daemon's answer to the tool's own request is true when it is sent.
LEMMA DaemonVInv ==
  ASSUME VInv, DaemonReceives, entry = "network", entry' = entry
  PROVE  Chronology' /\ AnswerTrue' /\ VerdictGiven' /\ Silent'
<1> DEFINE g == Head(queue)
<1>1. /\ ZInv /\ Chronology /\ AnswerTrue /\ VerdictGiven
      /\ ToolTyped /\ QueueTyped /\ tool.seq \in Nat /\ applied \in Seq(Nat)
  BY DEF VInv, ZInv, ToolTyped
<1>2. /\ queue # <<>> /\ queue' = Tail(queue)
      /\ 1 \in 1 .. Len(queue) /\ g = queue[1] /\ g \in Datagrams
      /\ \A i \in 1 .. Len(queue') :
           i + 1 \in 1 .. Len(queue) /\ 1 < i + 1 /\ queue'[i] = queue[i + 1]
  BY <1>1 DEF QueueTyped, DaemonReceives
<1>3. /\ g.form = "request" => g.seq \in 1 .. tool.seq /\ g.cmd \in ToolCommands
      /\ g.form = "request" /\ g.seq = tool.seq => g.cmd = tool.cmd
      /\ g.form = "misuse" => g.seq = 0
  BY <1>1, <1>2 DEF Chronology, IsRequest, QueueTyped
<1>4. Silent'
  BY DEF Silent
<1>5. CASE UNCHANGED <<vars, tool, applied>>
  <2>1. Chronology'
    BY <1>5, TakenInOrder
  <2>2. AnswerTrue'
    BY <1>1, <1>2, <1>5 DEF AnswerTrue, IsRequest, InForce, vars, tuning
  <2>3. VerdictGiven'
    BY <1>1, <1>5 DEF VerdictGiven
  <2> QED BY <1>4, <2>1, <2>2, <2>3
<1>6. CASE g.form = "misuse" /\ Reply(g, "CMD_NACK") /\ UNCHANGED <<vars, applied>>
  <2>1. CASE tool' = tool
    BY <1>5, <1>6, <2>1
  <2>2. CASE /\ tool' = [tool EXCEPT !.inbox = [op |-> "CMD_NACK", seq |-> g.seq]]
             /\ tool.verdict = "waiting"
             /\ tool'.inbox = [op |-> "CMD_NACK", seq |-> g.seq]
             /\ tool'.seq = tool.seq /\ tool'.cmd = tool.cmd /\ tool'.verdict = tool.verdict
    <3>1. Chronology'
      BY <1>6, <2>2, TakenInOrder
    <3>2. tool'.inbox.seq = 0 /\ tool'.seq # 0
      BY <1>1, <1>3, <1>6, <2>2 DEF ToolTyped
    <3>3. AnswerTrue' /\ VerdictGiven'
      BY <2>2, <3>2 DEF AnswerTrue, VerdictGiven
    <3> QED BY <1>4, <3>1, <3>3
  <2> HIDE DEF g
  <2> QED BY <1>1, <1>2, <1>6, <2>1, <2>2, ReplyTool
<1>7. CASE /\ g.form = "request"
           /\ SetTrip(g.cmd.zone, g.cmd.trip, g.cmd.temp, g.cmd.hyst)
           /\ Reply(g, IF CommandTaken(g.cmd) THEN "CMD_ACK" ELSE "CMD_NACK")
           /\ applied' = IF CommandTaken(g.cmd) THEN Append(applied, g.seq) ELSE applied
  <2> DEFINE op == IF CommandTaken(g.cmd) THEN "CMD_ACK" ELSE "CMD_NACK"
  <2>1. /\ \/ tool' = tool
           \/ /\ tool.verdict = "waiting"
              /\ tool'.inbox = [op |-> op, seq |-> g.seq]
        /\ tool'.seq = tool.seq /\ tool'.cmd = tool.cmd /\ tool'.verdict = tool.verdict
    <3>1. op \in {"CMD_ACK", "CMD_NACK"} /\ Reply(g, op)
      BY <1>7
    <3> HIDE DEF g, op
    <3> QED BY <1>1, <1>2, <3>1, ReplyTool
  <2>2. Chronology'
    BY <1>7, <2>1, TakenInOrder
  <2>3. ~ (tool.inbox # NoAnswer /\ tool.inbox.seq = tool.seq)
    BY <1>1, <1>2, <1>7 DEF AnswerTrue, IsRequest
  <2>4. VerdictGiven'
    BY <1>1, <2>1, <2>3 DEF VerdictGiven
  <2>5. ASSUME tool'.inbox # NoAnswer, tool'.inbox.seq = tool'.seq
        PROVE  /\ \A i \in 1 .. Len(queue') : queue'[i].form # "request"
               /\ tool'.inbox.op = "CMD_ACK" =>
                    InForce(tool.cmd)' /\ applied' # <<>> /\ applied'[Len(applied')] = tool'.seq
               /\ tool'.inbox.op = "CMD_NACK" =>
                    \A k \in 1 .. Len(applied') : applied'[k] # tool'.seq
    <3>1. tool'.inbox = [op |-> op, seq |-> g.seq] /\ g.seq = tool.seq
      BY <2>1, <2>3, <2>5
    <3>2. g.cmd = tool.cmd /\ g.cmd \in ToolCommands
      BY <1>3, <1>7, <3>1
    <3>3. \A i \in 1 .. Len(queue') : queue'[i].form # "request"
      <4>1. SUFFICES ASSUME NEW i \in 1 .. Len(queue'), queue'[i].form = "request" PROVE FALSE
        OBVIOUS
      <4>2. queue[1].seq < queue[i + 1].seq /\ queue[i + 1].seq \in 1 .. tool.seq
        BY <1>1, <1>2, <1>7, <4>1 DEF Chronology, IsRequest
      <4> QED BY <1>1, <1>2, <3>1, <4>2
    <3>4. ASSUME CommandTaken(g.cmd)
          PROVE  InForce(tool.cmd)' /\ applied' # <<>> /\ applied'[Len(applied')] = tool'.seq
      <4>1. /\ trips'[g.cmd.zone][g.cmd.trip].temp = g.cmd.temp
            /\ trips'[g.cmd.zone][g.cmd.trip].hyst = g.cmd.hyst
        <5> HIDE DEF g
        <5> QED BY <1>1, <1>7, <3>2, <3>4, TakenInForce
      <4>2. InForce(tool.cmd)'
        BY <2>1, <3>2, <4>1 DEF InForce
      <4>3. applied' = Append(applied, g.seq)
        BY <1>7, <3>4
      <4>4. applied' # <<>> /\ applied'[Len(applied')] = g.seq
        BY <1>1, <4>3
      <4> QED BY <2>1, <3>1, <4>2, <4>4
    <3>5. ASSUME ~CommandTaken(g.cmd)
          PROVE  \A k \in 1 .. Len(applied') : applied'[k] # tool'.seq
      <4>1. applied' = applied
        BY <1>7, <3>5
      <4>2. \A k \in 1 .. Len(applied) : applied[k] < g.seq
        BY <1>1, <1>2, <1>7 DEF Chronology, IsRequest
      <4>3. \A k \in 1 .. Len(applied) : applied[k] \in Nat
        BY <1>1
      <4> QED BY <1>1, <2>1, <3>1, <4>1, <4>2, <4>3
    <3>6. tool'.inbox.op = op
      BY <3>1
    <3> QED BY <3>3, <3>4, <3>5, <3>6
  <2>6. AnswerTrue'
    BY <2>1, <2>5 DEF AnswerTrue, IsRequest, InForce
  <2> QED BY <1>4, <2>2, <2>4, <2>6
<1> QED BY <1>5, <1>6, <1>7 DEF DaemonReceives

\* The verdict repeats the answer.
LEMMA EndVInv ==
  ASSUME VInv, ToolEnds, UNCHANGED trips, entry = "network", entry' = entry
  PROVE  Chronology' /\ AnswerTrue' /\ VerdictGiven' /\ Silent'
<1>1. /\ queue' = queue /\ applied' = applied
      /\ tool'.seq = tool.seq /\ tool'.cmd = tool.cmd /\ tool'.inbox = tool.inbox
      /\ tool'.verdict = IF tool.inbox = NoAnswer THEN "unknown" ELSE Verdict(tool.inbox)
      /\ Chronology /\ AnswerTrue
  BY DEF VInv, ZInv, ToolTyped, ToolEnds
<1>2. tool.inbox # NoAnswer => tool.inbox.op \in {"CMD_ACK", "CMD_NACK"}
  BY DEF VInv, ZInv, ToolTyped, Answers
<1>3. Chronology' /\ Silent'
  BY <1>1 DEF Chronology, IsRequest, Silent
<1>4. AnswerTrue'
  BY <1>1 DEF AnswerTrue, IsRequest, InForce
<1>5. VerdictGiven'
  <2>1. Verdict(tool.inbox) = "acked" => tool.inbox.seq = tool.seq /\ tool.inbox.op = "CMD_ACK"
    BY DEF Verdict
  <2>2. ASSUME tool.inbox # NoAnswer, Verdict(tool.inbox) = "nacked"
        PROVE  tool.inbox.seq = tool.seq /\ tool.inbox.op = "CMD_NACK"
    BY <1>2, <2>2 DEF Verdict
  <2> QED BY <1>1, <2>1, <2>2 DEF VerdictGiven
<1> QED BY <1>3, <1>4, <1>5

\* Where no datagrams are sent there is no verdict.
LEMMA SilentVInv ==
  ASSUME VInv, UNCHANGED <<entry, queue, tool, applied>>, entry # "network" \/ UNCHANGED trips
  PROVE  Chronology' /\ AnswerTrue' /\ VerdictGiven' /\ Silent'
<1>1. Chronology' /\ VerdictGiven' /\ Silent'
  BY DEF VInv, Chronology, IsRequest, VerdictGiven, Silent
<1>2. AnswerTrue'
  <2>1. CASE entry # "network"
    BY <2>1 DEF VInv, ZInv, ToolTyped, Silent, AnswerTrue
  <2>2. CASE UNCHANGED trips
    BY <2>2 DEF VInv, AnswerTrue, IsRequest, InForce
  <2> QED BY <2>1, <2>2
<1> QED BY <1>1, <1>2

\* Every step keeps the chronology.
LEMMA VInvKept == VInv /\ [ChannelNext]_channelVars => VInv'
<1> SUFFICES ASSUME VInv, [ChannelNext]_channelVars PROVE VInv'
  OBVIOUS
<1>1. ZInv'
  BY ZInvKept DEF VInv
<1>2. CASE UNCHANGED channelVars
  BY <1>1, <1>2, SilentVInv DEF VInv, channelVars, vars, tuning
<1>3. CASE ChannelNext /\ entry # "network"
  <2>1. UNCHANGED <<entry, queue, tool, applied>>
    BY <1>3 DEF ChannelNext
  <2> QED BY <1>1, <1>3, <2>1, SilentVInv DEF VInv
<1>4. CASE ChannelNext /\ entry = "network"
  <2>1. entry' = entry
    BY <1>4 DEF ChannelNext
  <2>2. CASE DaemonReceives
    BY <1>1, <1>4, <2>1, <2>2, DaemonVInv DEF VInv
  <2>3. CASE /\ UNCHANGED <<vars, pidVars>>
             /\ \/ \E cmd \in ToolCommands, port \in Ports, form \in {"request", "alien"} :
                     ToolSends(cmd, port, form)
                \/ \E form \in ForeignForms, port \in Ports : ForeignSends(form, port)
                \/ ToolEnds
    <3>1. UNCHANGED trips
      BY <2>3 DEF vars, tuning
    <3> QED BY <1>1, <1>4, <2>1, <2>3, <3>1, SendVInv, ForeignVInv, EndVInv DEF VInv
  <2> QED BY <1>4, <2>2, <2>3 DEF ChannelNext
<1> QED BY <1>2, <1>3, <1>4

\* A tool that reports OK has set what it was told to set, last and once; one
\* that reports a refusal has changed nothing, now or later.
THEOREM VerdictIsTrue == ChannelSpec => []VerdictTrue
<1>1. VInv => VerdictTrue
  <2> SUFFICES ASSUME VInv PROVE VerdictTrue
    OBVIOUS
  <2>1. tool.verdict = "acked" => InForce(tool.cmd) /\ applied[Len(applied)] = tool.seq
    BY DEF VInv, AnswerTrue, VerdictGiven
  <2>2. tool.verdict = "nacked" => \A i \in 1 .. Len(applied) : applied[i] # tool.seq
    BY DEF VInv, AnswerTrue, VerdictGiven
  <2>3. \A i, j \in 1 .. Len(applied) : applied[i] = applied[j] => i = j
    <3>1. Len(applied) \in Nat /\ \A i \in 1 .. Len(applied) : applied[i] \in Nat
      BY DEF VInv, ZInv, ToolTyped
    <3>2. \A i, j \in 1 .. Len(applied) : i < j => applied[i] < applied[j]
      BY DEF VInv, Chronology
    <3> QED BY <3>1, <3>2
  <2> QED BY <2>1, <2>2, <2>3 DEF VerdictTrue
<1> QED BY <1>1, InitVInv, VInvKept, PTL DEF ChannelSpec

-----------------------------------------------------------------------------
(* The PID governor's integral. *)

\* A quotient of less than b * d + b by b lies in 0 .. d.
LEMMA QuotientUnder ==
  ASSUME NEW n \in Nat, NEW b \in Nat, b > 0, NEW d \in Nat, n < b * d + b
  PROVE  n \div b \in 0 .. d
<1> DEFINE q == n \div b
<1>1. q \in Int /\ b * q <= n /\ n < b * q + b
  BY Quotient
<1>2. n <= b * n
  <2>1. (b - 1) * n >= 0
    OBVIOUS
  <2> QED BY <2>1
<1>3. q >= 0
  BY <1>2, QuotientBelow
<1> HIDE DEF q
<1>4. q <= d
  <2>1. SUFFICES ASSUME q >= d + 1 PROVE FALSE
    BY <1>1
  <2>2. b * (q - (d + 1)) >= 0
    BY <1>1, <2>1
  <2>3. b * (q - (d + 1)) = b * q - (b * d + b) /\ b * q \in Int /\ b * d \in Int
    BY <1>1
  <2> QED BY <1>1, <2>2, <2>3
<1> QED BY <1>1, <1>3, <1>4 DEF q

\* Less by more is no more, and truncation is symmetric.
LEMMA TruncBound ==
  ASSUME NEW n \in Int, NEW m \in Nat, -m <= n, n <= m,
         NEW b \in Nat \ {0}, NEW c \in Nat, b <= c
  PROVE  /\ TruncDiv(m, b) \in Nat
         /\ TruncDiv(n, c) \in -TruncDiv(m, b) .. TruncDiv(m, b)
<1> DEFINE d == m \div b
<1>1. d \in Int /\ m < b * d + b
  BY Quotient
<1>2. d >= 0
  <2>1. m <= b * m
    <3>1. (b - 1) * m >= 0
      OBVIOUS
    <3> QED BY <3>1
  <2> QED BY <2>1, QuotientBelow
<1>3. TruncDiv(m, b) = d
  BY DEF TruncDiv
<1> HIDE DEF d
<1>4. b * d <= c * d /\ b * d \in Int /\ c * d \in Int
  BY <1>1, <1>2, ProductOrder
<1>5. ASSUME NEW k \in Nat, k <= m PROVE k \div c \in 0 .. d
  <2>1. k < c * d + c
    BY <1>1, <1>4, <1>5
  <2> QED BY <1>1, <1>2, <2>1, QuotientUnder
<1>6. CASE n >= 0
  BY <1>1, <1>2, <1>3, <1>5, <1>6 DEF TruncDiv
<1>7. CASE n < 0
  <2>1. (-n) \div c \in 0 .. d
    BY <1>5, <1>7
  <2>2. TruncDiv(n, c) = -((-n) \div c)
    BY <1>7 DEF TruncDiv
  <2> QED BY <1>1, <1>2, <1>3, <2>1, <2>2
<1> QED BY <1>6, <1>7

\* A quotient has the sign of its dividend.
LEMMA TruncSign ==
  ASSUME NEW n \in Int, NEW c \in Nat \ {0}
  PROVE  /\ TruncDiv(n, c) \in Int
         /\ n >= 0 => TruncDiv(n, c) >= 0
         /\ n <= 0 => TruncDiv(n, c) <= 0
<1>1. ASSUME NEW k \in Nat PROVE k \div c \in 0 .. k
  <2>1. (c - 1) * k >= 0
    OBVIOUS
  <2>2. k <= c * k
    BY <2>1
  <2> QED BY <2>2, QuotientBelow
<1>2. CASE n >= 0
  <2>1. TruncDiv(n, c) \in 0 .. n
    BY <1>1, <1>2 DEF TruncDiv
  <2> QED BY <1>2, <2>1
<1>3. CASE n < 0
  <2>1. (-n) \div c \in 0 .. -n
    BY <1>1, <1>3
  <2>2. TruncDiv(n, c) = -((-n) \div c)
    BY <1>3 DEF TruncDiv
  <2> QED BY <1>3, <2>1, <2>2
<1> QED BY <1>2, <1>3

\* A product with a bounded number, k * x * s as the code orders it, for any
\* sign of k.
LEMMA ProductBound ==
  ASSUME NEW k \in Int, NEW x \in Int, NEW r \in Nat, -r <= x, x <= r, NEW s \in Nat
  PROVE  /\ Magnitude(k) * r * s \in Nat /\ k * x * s \in Int
         /\ -(Magnitude(k) * r * s) <= k * x * s /\ k * x * s <= Magnitude(k) * r * s
<1> DEFINE m == Magnitude(k)
<1>1. m \in Nat /\ (k = m \/ k = -m)
  BY DEF Magnitude
<1> HIDE DEF m
<1>2. (r - x) * (m * s) >= 0 /\ (r + x) * (m * s) >= 0
  <2>1. m * s \in Nat /\ r - x \in Nat /\ r + x \in Nat
    BY <1>1
  <2> QED BY <2>1
<1>3. (r - x) * (m * s) = m * r * s - m * x * s
  BY <1>1
<1>4. (r + x) * (m * s) = m * r * s + m * x * s
  BY <1>1
<1>5. m * r * s \in Nat /\ m * x * s \in Int
  BY <1>1
<1>6. -(m * r * s) <= m * x * s /\ m * x * s <= m * r * s
  BY <1>2, <1>3, <1>4, <1>5
<1>7. k * x * s = m * x * s \/ k * x * s = -(m * x * s)
  <2>1. CASE k = m
    BY <2>1
  <2>2. CASE k = -m
    <3>1. (-m) * x * s = -(m * x * s)
      BY <1>1
    <3> QED BY <2>2, <3>1
  <2> QED BY <1>1, <2>1, <2>2
<1> QED BY <1>5, <1>6, <1>7 DEF m

\* A product with naturals has the sign of its factor.
LEMMA ProductSign ==
  ASSUME NEW k \in Nat, NEW x \in Int, NEW s \in Nat
  PROVE  /\ k * x * s \in Int
         /\ x >= 0 => k * x * s >= 0
         /\ x <= 0 => k * x * s <= 0
<1>1. CASE x >= 0
  <2>1. k * x \in Nat
    BY <1>1
  <2>2. (k * x) * s \in Nat
    BY <2>1
  <2>3. x <= 0 => k * x * s = 0
    BY <1>1
  <2> QED BY <1>1, <2>2, <2>3
<1>2. CASE x < 0
  <2>1. k * (-x) \in Nat
    BY <1>2
  <2>2. (k * (-x)) * s \in Nat
    BY <2>1
  <2>3. (k * (-x)) * s = -(k * x * s)
    OBVIOUS
  <2> QED BY <1>2, <2>2, <2>3
<1> QED BY <1>1, <1>2

\* Clamping to an int32_t leads toward zero.
LEMMA ClampedToward ==
  ASSUME NEW v \in Int
  PROVE  /\ Clamped(v) \in Int
         /\ v >= 0 => Clamped(v) \in 0 .. v
         /\ v <= 0 => Clamped(v) \in v .. 0
<1>1. QMin \in Int /\ QMax \in Int /\ QMin < 0 /\ QMax >= 0
  <2>1. 2 * (PidMax + 1) * One \in Nat
    BY PidAssumption
  <2> QED BY <2>1, PidAssumption
<1> QED BY <1>1 DEF Clamped

\* The filter stays between its last value and the sample.
LEMMA FilteredBetween ==
  ASSUME NEW D \in Nat, NEW prev \in -D .. D, NEW sample \in -D .. D, alpha \in 0 .. One
  PROVE  Filtered(prev, sample) \in -D .. D
<1> DEFINE h == sample - prev
           product == alpha * h
           delta == IF product >= 0 THEN (product + One \div 2) \div One
                    ELSE -((-product + One \div 2) \div One)
<1>1. One \in Nat \ {0} /\ One \div 2 \in Nat /\ One \div 2 < One /\ alpha \in Nat /\ alpha <= One
  BY PidAssumption
<1>2. ASSUME NEW g \in Nat
      PROVE  alpha * g \in Nat /\ (alpha * g + One \div 2) \div One \in 0 .. g
  <2>1. alpha * g \in Nat /\ One * g \in Nat /\ alpha * g <= One * g
    BY <1>1, ProductOrder
  <2>2. alpha * g + One \div 2 \in Nat /\ alpha * g + One \div 2 < One * g + One
    BY <1>1, <2>1
  <2> QED BY <1>1, <2>1, <2>2, QuotientUnder
<1>3. h \in Int
  OBVIOUS
<1>4. (h >= 0 => delta \in 0 .. h) /\ (h < 0 => delta \in h .. 0)
  <2>1. CASE h >= 0
    <3>1. product \in Nat /\ (product + One \div 2) \div One \in 0 .. h
      BY <1>2, <1>3, <2>1
    <3> QED BY <2>1, <3>1
  <2>2. CASE h < 0
    <3>1. -h \in Nat /\ alpha * (-h) = -product /\ product \in Int
      BY <1>1, <1>3, <2>2
    <3>2. -product \in Nat /\ (-product + One \div 2) \div One \in 0 .. -h
      BY <1>2, <3>1
    <3>3. CASE product >= 0
      <4>1. product = 0
        BY <3>1, <3>2, <3>3
      <4>2. (product + One \div 2) \div One \in 0 .. 0
        <5>1. One \div 2 < One * 0 + One
          BY <1>1
        <5>2. (One \div 2) \div One \in 0 .. 0
          BY <1>1, <5>1, QuotientUnder
        <5> QED BY <1>1, <4>1, <5>2
      <4> QED BY <1>3, <2>2, <3>3, <4>2
    <3>4. CASE ~ (product >= 0)
      <4> HIDE DEF product, h
      <4> QED BY <1>3, <2>2, <3>2, <3>4
    <3> QED BY <3>3, <3>4
  <2> QED BY <1>3, <2>1, <2>2
<1>5. Filtered(prev, sample) = Clamped(prev + delta)
  BY DEF Filtered
<1> HIDE DEF delta
<1>6. prev + delta \in -D .. D
  BY <1>3, <1>4
<1> QED BY <1>5, <1>6, ClampedToward

GainsTyped == gains \in GainRecords /\ GainsTaken(gains)
PidTyped ==
  /\ alpha \in Alphas
  /\ pid \in [integral : Int, prev : Int, filtered : Int,
              initialized : BOOLEAN, filtering : BOOLEAN]
  /\ pid.initialized => pid.prev \in PidTemps

\* The filter's memory is within the bound too.
FilterBounded == pid.filtering => pid.filtered \in -DerivativeBound .. DerivativeBound

PInv == GainsTyped /\ PidTyped /\ FilterBounded /\ WindupBounded

\* The largest distance is one for every pair.
LEMMA FarthestHolds ==
  ASSUME NEW S, NEW T, S \subseteq Int, T \subseteq Int,
         \E low, high \in S : \A x \in S : low <= x /\ x <= high,
         \E low, high \in T : \A x \in T : low <= x /\ x <= high
  PROVE  /\ Farthest(S, T) \in Nat
         /\ \A s \in S, t \in T :
              s - t \in Int /\ -Farthest(S, T) <= s - t /\ s - t <= Farthest(S, T)
<1> DEFINE D == {Magnitude(s - t) : s \in S, t \in T}
           Above(r) == \A x \in D : r >= x
<1>1. PICK ls, hs \in S : \A x \in S : ls <= x /\ x <= hs
  OBVIOUS
<1>2. PICK lt, ht \in T : \A x \in T : lt <= x /\ x <= ht
  OBVIOUS
<1>3. ls \in Int /\ hs \in Int /\ lt \in Int /\ ht \in Int
  BY <1>1, <1>2
<1>4. ASSUME NEW s \in S, NEW t \in T
      PROVE  /\ s - t \in Int /\ Magnitude(s - t) \in Nat
             /\ -Magnitude(s - t) <= s - t /\ s - t <= Magnitude(s - t)
             /\ Magnitude(s - t) <= Magnitude(hs - lt) \/ Magnitude(s - t) <= Magnitude(ls - ht)
  <2>1. s \in Int /\ t \in Int /\ ls <= s /\ s <= hs /\ lt <= t /\ t <= ht
    BY <1>1, <1>2, <1>4
  <2> QED BY <1>3, <2>1 DEF Magnitude
<1>5. \E r \in D : Above(r)
  <2>1. Magnitude(hs - lt) \in D /\ Magnitude(ls - ht) \in D
    BY <1>1, <1>2
  <2>2. Magnitude(hs - lt) \in Nat /\ Magnitude(ls - ht) \in Nat
    BY <1>3 DEF Magnitude
  <2>3. \A x \in D : x \in Nat /\ (x <= Magnitude(hs - lt) \/ x <= Magnitude(ls - ht))
    BY <1>4
  <2> HIDE DEF D
  <2> QED BY <2>1, <2>2, <2>3
<1> DEFINE far == CHOOSE r \in D : Above(r)
<1>6. far \in D /\ Above(far)
  <2> HIDE DEF D, Above
  <2> QED BY <1>5
<1>7. Farthest(S, T) = far
  BY DEF Farthest
<1>8. \A x \in D : x \in Nat
  BY <1>4
<1> HIDE DEF far
<1>9. ASSUME NEW s \in S, NEW t \in T
      PROVE  s - t \in Int /\ -far <= s - t /\ s - t <= far
  <2>1. Magnitude(s - t) \in D
    BY <1>9
  <2> HIDE DEF D
  <2> QED BY <1>4, <1>6, <1>8, <1>9, <2>1
<1> QED BY <1>6, <1>7, <1>8, <1>9

\* What the readings and the setpoints are to each other.
LEMMA Distances ==
  /\ Farthest(PidTemps, PidTemps) \in Nat
  /\ \A s, t \in PidTemps :
       /\ s - t \in Int
       /\ -Farthest(PidTemps, PidTemps) <= s - t /\ s - t <= Farthest(PidTemps, PidTemps)
  /\ Farthest(PidTemps, PidSetpoints) \in Nat
  /\ \A t \in PidTemps, s \in PidSetpoints :
       /\ t - s \in Int
       /\ -Farthest(PidTemps, PidSetpoints) <= t - s /\ t - s <= Farthest(PidTemps, PidSetpoints)
<1>1. /\ PidTemps \subseteq Int /\ PidSetpoints \subseteq Int
      /\ \E low, high \in PidTemps : \A x \in PidTemps : low <= x /\ x <= high
      /\ \E low, high \in PidSetpoints : \A x \in PidSetpoints : low <= x /\ x <= high
  BY PidAssumption
<1> QED BY <1>1, FarthestHolds

\* The bound is one for every two readings and every period.
LEMMA BoundHolds ==
  ASSUME GainsTyped
  PROVE  /\ DerivativeBound \in Nat
         /\ \A s, t \in PidTemps, dt \in DtMin .. DtMax :
              TruncDiv(gains.kd * (s - t) * Second, dt) \in -DerivativeBound .. DerivativeBound
<1> DEFINE rise == Farthest(PidTemps, PidTemps)
<1>1. rise \in Nat /\ \A s, t \in PidTemps : -rise <= s - t /\ s - t <= rise /\ s - t \in Int
  BY Distances
<1>2. DerivativeBound = TruncDiv(Magnitude(gains.kd) * rise * Second, DtMin)
  BY DEF DerivativeBound
<1> HIDE DEF rise
<1>3. gains.kd \in Int /\ Second \in Nat /\ DtMin \in Nat \ {0} /\ DtMax \in Nat /\ DtMin <= DtMax
  BY PidAssumption DEF GainsTyped, GainRecords
<1>4. ASSUME NEW s \in PidTemps, NEW t \in PidTemps, NEW dt \in DtMin .. DtMax
      PROVE  /\ DerivativeBound \in Nat
             /\ TruncDiv(gains.kd * (s - t) * Second, dt) \in -DerivativeBound .. DerivativeBound
  <2> DEFINE m == Magnitude(gains.kd) * rise * Second
             n == gains.kd * (s - t) * Second
  <2>1. m \in Nat /\ n \in Int /\ -m <= n /\ n <= m
    BY <1>1, <1>3, ProductBound
  <2>2. dt \in Nat /\ DtMin <= dt
    BY <1>3
  <2> HIDE DEF m, n
  <2>3. TruncDiv(m, DtMin) \in Nat /\ TruncDiv(n, dt) \in -TruncDiv(m, DtMin) .. TruncDiv(m, DtMin)
    BY <1>3, <2>1, <2>2, TruncBound
  <2> QED BY <1>2, <2>3 DEF m, n
<1>5. DtMin \in DtMin .. DtMax /\ \E t \in PidTemps : TRUE
  BY <1>3, PidAssumption
<1> QED BY <1>4, <1>5

\* The period is within its configured bounds, whatever the clock says.
LEMMA DtBounded ==
  ASSUME NEW elapsed \in Elapsed
  PROVE  Dt(elapsed) \in DtMin .. DtMax /\ Dt(elapsed) \in Nat \ {0}
<1>1. elapsed \in Nat /\ DtMin \in Nat \ {0} /\ DtMax \in Nat /\ DtMin <= DtMax
  BY PidAssumption
<1>2. Dt(elapsed) \in DtMin .. DtMax
  BY <1>1 DEF Dt
<1> QED BY <1>1, <1>2

\* The derivative of a step, filtered or not, is within the bound.
LEMMA DerivativeBounded ==
  ASSUME PInv, NEW temp \in PidTemps, NEW elapsed \in Elapsed
  PROVE  Derivative(temp, Dt(elapsed)) \in -DerivativeBound .. DerivativeBound
<1> DEFINE dt  == Dt(elapsed)
           raw == TruncDiv(gains.kd * (temp - pid.prev) * Second, dt)
           D   == DerivativeBound
<1>1. D \in Nat /\ dt \in DtMin .. DtMax
  BY BoundHolds, DtBounded DEF PInv
<1>2. pid.initialized => raw \in -D .. D
  BY BoundHolds, <1>1 DEF PInv, PidTyped
<1>3. alpha \in 0 .. One /\ alpha \in Int
  <2>1. Alphas \subseteq 0 .. One /\ One \in Nat
    BY PidAssumption
  <2> QED BY <2>1 DEF PInv, PidTyped
<1>4. pid.initialized \in BOOLEAN /\ pid.filtering \in BOOLEAN
  BY DEF PInv, PidTyped
<1>5. pid.filtering => pid.filtered \in -D .. D
  BY DEF PInv, FilterBounded
<1>6. Derivative(temp, dt) =
        CASE ~pid.initialized                                 -> 0
          [] pid.initialized /\ alpha = 0                     -> raw
          [] pid.initialized /\ alpha > 0 /\ pid.filtering    -> Filtered(pid.filtered, Clamped(raw))
          [] pid.initialized /\ alpha > 0 /\ ~pid.filtering   -> Clamped(raw)
  BY DEF Derivative
<1> HIDE DEF D, raw
<1>7. ASSUME pid.initialized
      PROVE  /\ Clamped(raw) \in -D .. D
             /\ pid.filtering => Filtered(pid.filtered, Clamped(raw)) \in -D .. D
  <2>1. Clamped(raw) \in -D .. D
    BY <1>1, <1>2, <1>7, ClampedToward
  <2> QED BY <1>1, <1>3, <1>5, <2>1, FilteredBetween
<1>8. CASE ~pid.initialized
  <2>1. Derivative(temp, dt) = 0
    BY <1>6, <1>8
  <2> QED BY <1>1, <2>1 DEF D
<1>9. CASE pid.initialized /\ alpha = 0
  <2>1. Derivative(temp, dt) = raw
    BY <1>6, <1>9
  <2> QED BY <1>2, <1>9, <2>1 DEF D
<1>10. CASE pid.initialized /\ alpha > 0 /\ pid.filtering
  <2>1. Derivative(temp, dt) = Filtered(pid.filtered, Clamped(raw))
    BY <1>6, <1>10
  <2> QED BY <1>7, <1>10, <2>1 DEF D
<1>11. CASE pid.initialized /\ alpha > 0 /\ ~pid.filtering
  <2>1. Derivative(temp, dt) = Clamped(raw)
    BY <1>6, <1>11
  <2> QED BY <1>7, <1>11, <2>1 DEF D
<1> QED BY <1>3, <1>4, <1>8, <1>9, <1>10, <1>11

\* An increment has the sign of the proportional part where the gains' signs
\* agree; where they differ the proportional part is within its bound.
LEMMA OppositionBounded ==
  ASSUME GainsTyped, NEW target \in PidSetpoints, NEW temp \in PidTemps, NEW dt \in Nat
  PROVE  /\ ProportionalBound \in Nat /\ gains.kp * (temp - target) \in Int
         /\ TruncDiv(gains.ki * (temp - target) * dt, Second) \in Int
         /\ TruncDiv(gains.ki * (temp - target) * dt, Second) > 0 =>
              gains.kp * (temp - target) >= -ProportionalBound
         /\ TruncDiv(gains.ki * (temp - target) * dt, Second) < 0 =>
              gains.kp * (temp - target) <= ProportionalBound
<1> DEFINE kp == gains.kp
           ki == gains.ki
           e  == temp - target
           E  == Farthest(PidTemps, PidSetpoints)
           P  == ProportionalBound
           increment == TruncDiv(ki * e * dt, Second)
           n  == ki * e * dt
           p  == kp * e
<1>1. kp \in Int /\ ki \in Int
  BY DEF GainsTyped, GainRecords
<1>2. E \in Nat /\ e \in Int /\ -E <= e /\ e <= E
  BY Distances
<1>3. P = IF (kp < 0 /\ ki > 0) \/ (kp > 0 /\ ki < 0) THEN Magnitude(kp) * E ELSE 0
  BY DEF ProportionalBound
<1> HIDE DEF kp, ki, e, E, P
<1>4. p \in Int /\ n \in Int
  BY <1>1, <1>2
<1>5. increment \in Int /\ (increment > 0 => n > 0) /\ (increment < 0 => n < 0)
  <2>1. Second \in Nat \ {0} /\ increment = TruncDiv(n, Second)
    BY PidAssumption
  <2> HIDE DEF n
  <2> QED BY <1>4, <2>1, TruncSign
<1>6. P \in Nat /\ (n > 0 => p >= -P) /\ (n < 0 => p <= P)
  <2>1. CASE (kp < 0 /\ ki > 0) \/ (kp > 0 /\ ki < 0)
    <3>1. /\ Magnitude(kp) * E * 1 \in Nat
          /\ -(Magnitude(kp) * E * 1) <= kp * e * 1 /\ kp * e * 1 <= Magnitude(kp) * E * 1
      BY <1>1, <1>2, ProductBound
    <3>2. Magnitude(kp) \in Nat
      BY <1>1 DEF Magnitude
    <3>3. P = Magnitude(kp) * E * 1 /\ kp * e * 1 = p
      BY <1>1, <1>2, <1>3, <2>1, <3>2
    <3> HIDE DEF n, p
    <3> QED BY <3>1, <3>3
  <2>2. CASE kp >= 0 /\ ki >= 0
    <3>1. (e >= 0 => n >= 0) /\ (e <= 0 => n <= 0)
      BY <1>1, <1>2, <2>2, ProductSign
    <3>2. (e >= 0 => kp * e * 1 >= 0) /\ (e <= 0 => kp * e * 1 <= 0)
      BY <1>1, <1>2, <2>2, ProductSign
    <3>3. P = 0 /\ kp * e * 1 = p
      BY <1>1, <1>2, <1>3, <2>2
    <3> HIDE DEF n, p
    <3> QED BY <1>2, <1>4, <3>1, <3>2, <3>3
  <2>3. CASE kp <= 0 /\ ki <= 0
    <3>1. (e >= 0 => (-ki) * e * dt >= 0) /\ (e <= 0 => (-ki) * e * dt <= 0)
      BY <1>1, <1>2, <2>3, ProductSign
    <3>2. (e >= 0 => (-kp) * e * 1 >= 0) /\ (e <= 0 => (-kp) * e * 1 <= 0)
      BY <1>1, <1>2, <2>3, ProductSign
    <3>3. P = 0 /\ (-kp) * e * 1 = -p /\ (-ki) * e * dt = -n
      BY <1>1, <1>2, <1>3, <2>3
    <3> HIDE DEF n, p
    <3> QED BY <1>2, <1>4, <3>1, <3>2, <3>3
  <2> QED BY <1>1, <2>1, <2>2, <2>3
<1> HIDE DEF n, p, increment
<1>7. p \in Int /\ P \in Nat /\ increment \in Int
      /\ (increment > 0 => p >= -P) /\ (increment < 0 => p <= P)
  BY <1>4, <1>5, <1>6
<1> QED BY <1>7 DEF kp, ki, e, P, p, increment

\* An increment that deepens no saturation leaves the integral within bounds.
LEMMA IntegralBounded ==
  ASSUME NEW D \in Nat, NEW P \in Nat, NEW W \in Nat, W = D + P,
         NEW integral \in -W .. (PidMax + 1) * One + W,
         NEW p \in Int, NEW increment \in Int, NEW d \in -D .. D,
         increment > 0 => p >= -P, increment < 0 => p <= P,
         ~Deepens(Clamped(p + Clamped(integral + increment) + d) \div One, increment)
  PROVE  Clamped(integral + increment) \in -W .. (PidMax + 1) * One + W
<1> DEFINE tentative == Clamped(integral + increment)
           sum       == p + tentative + d
           top       == (PidMax + 1) * One
           output    == Clamped(sum) \div One
<1>1. /\ PidMax \in Nat /\ One \in Nat \ {0} /\ QMin \in Int /\ QMax \in Int /\ QMin < 0
      /\ top \in Nat /\ 2 * top <= QMax
  <2>1. 2 * (PidMax + 1) * One = 2 * top
    BY PidAssumption
  <2> QED BY <2>1, PidAssumption
<1>2. ~Deepens(output, increment)
  OBVIOUS
<1>3. top = One * PidMax + One
  BY <1>1
<1> HIDE DEF top
<1>4. tentative \in Int /\ integral + increment \in Int
  BY <1>1, ClampedToward
<1>5. /\ integral + increment >= 0 => tentative \in 0 .. integral + increment
      /\ integral + increment <= 0 => tentative \in integral + increment .. 0
  BY <1>1, ClampedToward
<1>6. integral \in -W .. top + W
  BY DEF top
<1> HIDE DEF tentative
<1>7. sum \in Int /\ Clamped(sum) \in Int
  BY <1>4, ClampedToward
<1>8. CASE increment = 0
  BY <1>1, <1>4, <1>5, <1>6, <1>8 DEF top, tentative
<1>9. CASE increment > 0
  <2>1. ~ (output > PidMax)
    BY <1>2, <1>9 DEF Deepens
  <2>2. Clamped(sum) < top
    <3>1. SUFFICES ASSUME Clamped(sum) >= top PROVE FALSE
      BY <1>1, <1>7
    <3> DEFINE v == Clamped(sum)
    <3>2. v \in Nat /\ v >= top
      BY <1>1, <1>7, <3>1
    <3> HIDE DEF v
    <3>3. v \div One \in Int /\ v < One * (v \div One) + One
      BY <1>1, <3>2, Quotient
    <3> DEFINE q == v \div One
    <3> HIDE DEF q
    <3>4. q \in Int /\ One * PidMax + One < One * q + One
      <4>1. One * q \in Int /\ One * PidMax \in Int
        BY <1>1, <3>3 DEF q
      <4> QED BY <1>1, <1>3, <3>2, <3>3, <4>1 DEF q
    <3>5. q > PidMax
      <4>1. SUFFICES ASSUME PidMax - q >= 0 PROVE FALSE
        BY <1>1, <3>4
      <4>2. One * (PidMax - q) >= 0
        BY <1>1, <3>4, <4>1
      <4>3. One * (PidMax - q) = One * PidMax - One * q /\ One * PidMax \in Int /\ One * q \in Int
        BY <1>1, <3>4
      <4> QED BY <1>1, <3>4, <4>2, <4>3
    <3> QED BY <2>1, <3>5 DEF q, v
  <2>3. sum < top
    BY <1>1, <1>7, <2>2 DEF Clamped
  <2>4. tentative <= top + W
    <3>1. p >= -P
      BY <1>9
    <3> QED BY <1>1, <1>4, <2>3, <3>1
  <2>5. tentative >= -W
    BY <1>4, <1>5, <1>6, <1>9, <1>1
  <2> QED BY <1>1, <1>4, <2>4, <2>5 DEF top, tentative
<1>10. CASE increment < 0
  <2>1. ~ (output < 0)
    BY <1>2, <1>10 DEF Deepens
  <2>2. Clamped(sum) >= 0
    <3>1. SUFFICES ASSUME Clamped(sum) < 0 PROVE FALSE
      BY <1>7
    <3>2. Clamped(sum) \div One < 0
      <4> DEFINE v == Clamped(sum)
      <4>1. v \in Int /\ v < 0
        BY <1>7, <3>1
      <4> HIDE DEF v
      <4>2. \A o \in Nat \ {0} : v \div o < 0
        BY <4>1
      <4> QED BY <1>1, <4>2 DEF v
    <3> QED BY <2>1, <3>2
  <2>3. sum >= 0
    BY <1>1, <1>7, <2>2 DEF Clamped
  <2>4. tentative >= -W
    <3>1. p <= P
      BY <1>10
    <3> QED BY <1>4, <2>3, <3>1
  <2>5. tentative <= top + W
    BY <1>4, <1>5, <1>6, <1>10, <1>1
  <2> QED BY <1>1, <1>4, <2>4, <2>5 DEF top, tentative
<1> QED BY <1>8, <1>9, <1>10

\* One control period.
LEMMA StepPInv ==
  ASSUME PInv, NEW target \in PidSetpoints, NEW temp \in PidTemps, NEW elapsed \in Elapsed,
         PidStep(target, temp, elapsed)
  PROVE  PInv'
<1> DEFINE dt        == Dt(elapsed)
           error     == temp - target
           increment == TruncDiv(gains.ki * error * dt, Second)
           tentative == Clamped(pid.integral + increment)
           d         == Derivative(temp, dt)
           output    == Clamped(gains.kp * error + tentative + d) \div One
           D         == DerivativeBound
           P         == ProportionalBound
           W         == WindupBound
<1>1. UNCHANGED <<gains, alpha>>
  BY DEF PidStep
<1>2. GainsTyped /\ GainsTyped' /\ DerivativeBound' = D /\ WindupBound' = W
  BY <1>1 DEF PInv, GainsTyped, DerivativeBound, ProportionalBound, WindupBound
<1>3. /\ D \in Nat /\ dt \in Nat \ {0} /\ d \in -D .. D
      /\ gains.kp \in Int /\ gains.ki \in Int
  BY <1>2, BoundHolds, DtBounded, DerivativeBounded DEF GainsTyped, GainRecords
<1>4. /\ pid.integral \in Int /\ pid.filtered \in Int /\ pid.initialized \in BOOLEAN
      /\ pid.integral \in -W .. (PidMax + 1) * One + W
      /\ alpha \in Alphas
  BY DEF PInv, PidTyped, WindupBounded
<1>5. /\ pid' = [integral    |-> IF Deepens(output, increment) THEN pid.integral ELSE tentative,
                 prev        |-> temp,
                 filtered    |-> IF pid.initialized /\ alpha > 0 THEN d ELSE pid.filtered,
                 initialized |-> TRUE,
                 filtering   |-> pid.initialized /\ alpha > 0]
  BY DEF PidStep
<1>6. /\ P \in Nat /\ increment \in Int /\ gains.kp * error \in Int
      /\ increment > 0 => gains.kp * error >= -P
      /\ increment < 0 => gains.kp * error <= P
  BY <1>2, <1>3, OppositionBounded
<1>7. W \in Nat /\ W = D + P
  BY <1>3, <1>6 DEF WindupBound
<1> HIDE DEF dt, error, increment, d, D, P, W
<1>8. pid'.integral \in -W .. (PidMax + 1) * One + W
  <2>1. CASE Deepens(output, increment)
    BY <1>4, <1>5, <2>1
  <2>2. CASE ~Deepens(output, increment)
    <3>1. tentative \in -W .. (PidMax + 1) * One + W
      BY <1>3, <1>4, <1>6, <1>7, <2>2, IntegralBounded
    <3> QED BY <1>5, <2>2, <3>1
  <2> QED BY <2>1, <2>2
<1>9. PidTyped'
  <2>1. pid'.integral \in Int
    <3>1. (PidMax + 1) * One \in Int
      BY PidAssumption
    <3> QED BY <1>7, <1>8, <3>1
  <2>2. temp \in Int /\ d \in Int
    <3>1. PidTemps \subseteq Int
      BY PidAssumption
    <3> QED BY <1>3, <3>1
  <2>3. (alpha > 0) \in BOOLEAN
    OBVIOUS
  <2> HIDE DEF output, tentative
  <2>4. /\ DOMAIN pid' = {"integral", "prev", "filtered", "initialized", "filtering"}
        /\ pid'.prev = temp /\ pid'.initialized = TRUE
        /\ pid' \in [integral : Int, prev : Int, filtered : Int,
                     initialized : BOOLEAN, filtering : BOOLEAN]
    BY <1>4, <1>5, <2>1, <2>2, <2>3
  <2> QED BY <1>1, <1>4, <2>4 DEF PidTyped
<1>10. FilterBounded'
  BY <1>2, <1>3, <1>5 DEF FilterBounded, D
<1>11. WindupBounded'
  BY <1>2, <1>8 DEF WindupBounded, W
<1> QED BY <1>2, <1>9, <1>10, <1>11 DEF PInv

\* The governor at rest.
LEMMA RestPInv ==
  ASSUME GainsTyped, alpha \in Alphas, pid = PidReset
  PROVE  PInv
<1>1. WindupBound \in Nat
  <2>1. gains.kp \in Int /\ Magnitude(gains.kp) \in Nat
    BY DEF GainsTyped, GainRecords, Magnitude
  <2>2. ProportionalBound \in Nat
    BY <2>1, Distances DEF ProportionalBound
  <2> QED BY <2>2, BoundHolds DEF WindupBound
<1>2. (PidMax + 1) * One \in Nat
  BY PidAssumption
<1>3. WindupBounded
  BY <1>1, <1>2 DEF WindupBounded, PidReset
<1> QED BY <1>3 DEF PInv, PidTyped, FilterBounded, PidReset

\* In the channel the governor steps, is given gains, or is left alone.
LEMMA KeepsPInv == PInv /\ [ChannelNext]_channelVars => PInv'
<1> SUFFICES ASSUME PInv, [ChannelNext]_channelVars PROVE PInv'
  OBVIOUS
<1>1. CASE UNCHANGED pidVars
  BY <1>1 DEF pidVars, PInv, GainsTyped, PidTyped, FilterBounded, WindupBounded, WindupBound,
              DerivativeBound, ProportionalBound
<1>2. ASSUME NEW target \in PidSetpoints, NEW temp \in PidTemps, NEW elapsed \in Elapsed,
             PidStep(target, temp, elapsed)
      PROVE  PInv'
  BY <1>2, StepPInv
<1>3. ASSUME NEW g \in Gains, SetPid(g)
      PROVE  PInv'
  <2>1. CASE GainsTaken(g)
    <3>1. gains' = g /\ pid' = PidReset /\ alpha' = alpha
      BY <1>3, <2>1 DEF SetPid
    <3>2. g \in GainRecords /\ alpha \in Alphas
      BY PidAssumption DEF PInv, PidTyped
    <3>3. GainsTyped' /\ alpha' \in Alphas
      BY <2>1, <3>1, <3>2 DEF GainsTyped, GainsTaken
    <3>4. (GainsTyped /\ alpha \in Alphas /\ pid = PidReset => PInv)'
      BY RestPInv, PTL
    <3> QED BY <3>1, <3>3, <3>4 DEF PidReset
  <2> QED BY <1>1, <1>3, <2>1 DEF SetPid
<1>4. UNCHANGED channelVars \/ ~PidNext => UNCHANGED pidVars
  BY DEF ChannelNext, channelVars, pidVars, DaemonReceives
<1> QED BY <1>1, <1>2, <1>3, <1>4 DEF PidNext

\* However long a zone stays hot or cold, the integral winds up no further than
\* holding full duty, or none, takes against the derivative and, where the signs
\* of kp and ki differ, the proportional part; for any gains of either sign
\* inside their configured bounds, any period and any filter.
THEOREM WindupStaysBounded == ChannelSpec => []WindupBounded
<1>1. ChannelInit => PInv
  <2> SUFFICES ASSUME ChannelInit PROVE PInv
    OBVIOUS
  <2>1. gains \in GainRecords /\ GainsTaken(gains) /\ alpha \in Alphas /\ pid = PidReset
    BY PidAssumption DEF ChannelInit, PidInit
  <2> QED BY <2>1, RestPInv DEF GainsTyped
<1>2. PInv => WindupBounded
  BY DEF PInv
<1> QED BY <1>1, <1>2, KeepsPInv, PTL DEF ChannelSpec
=============================================================================
