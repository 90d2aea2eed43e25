-------------------------- MODULE ThermalCoreProofs --------------------------
(***************************************************************************)
(* Proofs about ThermalCore, for every accepted configuration: any number   *)
(* of zones, sensors and actuators, shared in any way.  A step recomputes   *)
(* duties, reasons and the latch from the masks and detectors it settles    *)
(* on, so most of what it promises follows within the step; between steps   *)
(* a clear may only take active faults away.  In the end, each part of the  *)
(* core is shown to be the component its own module describes.              *)
(***************************************************************************)
EXTENDS ThermalCore, CommonFacts, SequenceTheorems, TLAPS

\* The duty step 10 chooses: never above pwm_max, and under a safety override
\* at least what was asked, or pwm_max.
LEMMA PathBounds ==
  ASSUME NEW a \in Actuators, path[a].duty \in 0 .. MaxPwm,
         NEW req \in 0 .. MaxPwm, NEW safe \in BOOLEAN
  PROVE  /\ A(a)!NextDuty(req, safe) \in 0 .. MaxPwm
         /\ A(a)!NextDuty(req, safe) <= ActCfg[a].pwmMax
         /\ safe => \/ A(a)!NextDuty(req, safe) >= req
                    \/ A(a)!NextDuty(req, safe) = ActCfg[a].pwmMax
<1> DEFINE c == ActCfg[a]
           held == A(a)!Dwell(req, safe)
           boost == A(a)!Boosted(held)
           target == A(a)!Target(held)
           slewed == A(a)!Slew(target, safe \/ boost)
<1>1. /\ MaxPwm \in Nat
      /\ c.pwmMin \in 0 .. MaxPwm /\ c.pwmMax \in 0 .. MaxPwm /\ c.pwmMin <= c.pwmMax
      /\ c.slew \in 0 .. MaxPwm /\ c.spinupPwm \in 0 .. MaxPwm
  BY ConfigAssumption, TypeAssumption DEF ConfigAccepted, A!ConfigLegal
<1>2. held \in 0 .. MaxPwm /\ (safe => held = req)
  BY DEF A!Dwell
<1>3. boost \in BOOLEAN /\ (boost => c.spinupPwm > held)
  BY DEF A!Boosted
<1>4. A(a)!NextDuty(req, safe) = A(a)!Clamp(slewed, target = 0)
  BY DEF A!NextDuty
<1>5. target \in 0 .. MaxPwm /\ target >= held
  <2>1. target = IF boost THEN c.spinupPwm ELSE held
    BY DEF A!Target
  <2> HIDE DEF held, boost, target
  <2> QED BY <1>1, <1>2, <1>3, <2>1
<1>6. slewed \in 0 .. MaxPwm /\ (safe => slewed >= target)
  <2> HIDE DEF held, boost, target
  <2> QED BY <1>1, <1>3, <1>5 DEF A!Slew
<1> HIDE DEF held, boost, target, slewed
<1>7. /\ A(a)!Clamp(slewed, target = 0) \in 0 .. MaxPwm
      /\ A(a)!Clamp(slewed, target = 0) <= c.pwmMax
      /\ A(a)!Clamp(slewed, target = 0) >= slewed \/ A(a)!Clamp(slewed, target = 0) = c.pwmMax
  BY <1>1, <1>6 DEF A!Clamp
<1> QED BY <1>1, <1>2, <1>4, <1>5, <1>6, <1>7

-----------------------------------------------------------------------------
(* What a zone asks of its actuators. *)

\* A row of a zone's trip table.
LEMMA TripRow ==
  ASSUME NEW z \in Zones, NEW t \in 1 .. Len(ZoneCfg[z].trips)
  PROVE  /\ ZoneCfg[z].trips[t].temp \in Int
         /\ ZoneCfg[z].trips[t].hyst \in Int
         /\ ZoneCfg[z].trips[t].severity \in 1 .. 3
         /\ ZoneCfg[z].trips[t].state \in 0 .. MaxState
<1>1. ZoneCfg[z].trips[t] \in TripRecords
  BY TypeAssumption, ElementOfSeq
<1> QED BY <1>1 DEF TripRecords, Warn, Shutdown

\* The indices of a zone's trips.
Indices(z) == 1 .. Len(ZoneCfg[z].trips)

\* The cooling state is one the zone's trips ask for, or 0, and no lower than
\* that of any safety trip that is active.
LEMMA CoolingStateBounds ==
  ASSUME NEW z \in Zones, NEW m \in SUBSET Indices(z)
  PROVE  /\ CoolingState(z, m) \in 0 .. MaxState
         /\ CoolingState(z, m) \in {0} \cup {ZoneCfg[z].trips[t].state : t \in Indices(z)}
         /\ \A t \in m : ZoneCfg[z].trips[t].severity >= Critical =>
              CoolingState(z, m) >= ZoneCfg[z].trips[t].state
<1> DEFINE trips == ZoneCfg[z].trips
           asked == IF ZoneCfg[z].governor = "PID" THEN SafetyTrips(trips, m) ELSE m
           states == {trips[i].state : i \in asked}
<1>1. asked \in SUBSET Indices(z)
  BY DEF SafetyTrips
<1>2. states \in SUBSET (0 .. MaxState) /\ MaxState \in Nat
  BY <1>1, TripRow, TypeAssumption DEF Indices
<1>3. CoolingState(z, m) = IF asked = {} THEN 0 ELSE Max(states)
  BY DEF CoolingState, HighestState
<1>4. \A t \in m : trips[t].severity >= Critical => t \in asked
  BY TripRow DEF Indices, SafetyTrips, Critical, Shutdown
<1>5. asked # {} => Max(states) \in states /\ \A s \in states : Max(states) >= s
  <2>1. asked # {} => states # {}
    OBVIOUS
  <2> HIDE DEF states, asked
  <2> QED BY <1>2, <2>1, MaxOfBounded
<1>6. states \subseteq {trips[t].state : t \in Indices(z)}
  BY <1>1
<1>7. \A t \in asked : trips[t].state \in states
  OBVIOUS
<1> HIDE DEF asked, states
<1>8. CoolingState(z, m) \in 0 .. MaxState
  <2>1. CASE asked = {}
    BY <1>2, <1>3, <2>1
  <2>2. CASE asked # {}
    BY <1>2, <1>3, <1>5, <2>2
  <2> QED BY <2>1, <2>2
<1> QED BY <1>3, <1>4, <1>5, <1>6, <1>7, <1>8

\* The severity of a zone is that of its worst active trip.
LEMMA ZoneSeverityBounds ==
  ASSUME NEW z \in Zones, NEW m \in SUBSET Indices(z)
  PROVE  /\ ZoneSeverity(z, m) \in 0 .. 3
         /\ \A t \in m : ZoneSeverity(z, m) >= ZoneCfg[z].trips[t].severity
<1> DEFINE severities == {ZoneCfg[z].trips[i].severity : i \in m}
<1>1. severities \in SUBSET (0 .. 3)
  BY TripRow DEF Indices
<1>2. ZoneSeverity(z, m) = IF m = {} THEN 0 ELSE Max(severities)
  BY DEF ZoneSeverity, MaxSeverity
<1>3. m # {} => severities # {}
  OBVIOUS
<1>4. \A t \in m : ZoneCfg[z].trips[t].severity \in severities
  OBVIOUS
<1> HIDE DEF severities
<1>5. m # {} => Max(severities) \in severities /\ \A s \in severities : Max(severities) >= s
  BY <1>1, <1>3, MaxOfBounded
<1>6. CASE m = {}
  BY <1>2, <1>6
<1>7. CASE m # {}
  BY <1>1, <1>2, <1>4, <1>5, <1>7
<1> QED BY <1>6, <1>7

\* What the masks of a step are.
Masks == {m \in [Zones -> SUBSET Nat] : \A z \in Zones : m[z] \subseteq Indices(z)}

\* The severity of an actuator is that of its worst zone.
LEMMA ActuatorSeverityBounds ==
  ASSUME NEW a \in Actuators, NEW m \in Masks
  PROVE  /\ ActuatorSeverity(a, m) \in 0 .. 3
         /\ \A z \in ZonesOf(a) : ActuatorSeverity(a, m) >= ZoneSeverity(z, m[z])
         /\ \/ ActuatorSeverity(a, m) = 0
            \/ \E z \in ZonesOf(a) : ActuatorSeverity(a, m) = ZoneSeverity(z, m[z])
<1> DEFINE severities == {0} \cup {ZoneSeverity(z, m[z]) : z \in ZonesOf(a)}
<1>1. \A z \in ZonesOf(a) : ZoneSeverity(z, m[z]) \in 0 .. 3
  BY ZoneSeverityBounds DEF Masks, ZonesOf
<1>2. severities \in SUBSET (0 .. 3) /\ severities # {}
  BY <1>1
<1>3. ActuatorSeverity(a, m) = Max(severities)
  BY DEF ActuatorSeverity
<1>4. \A z \in ZonesOf(a) : ZoneSeverity(z, m[z]) \in severities
  OBVIOUS
<1>5. \A s \in severities : s = 0 \/ \E z \in ZonesOf(a) : s = ZoneSeverity(z, m[z])
  OBVIOUS
<1> HIDE DEF severities
<1>6. Max(severities) \in severities /\ \A s \in severities : Max(severities) >= s
  BY <1>2, MaxOfBounded
<1> QED BY <1>2, <1>3, <1>4, <1>5, <1>6

\* state_pwm of an actuator: rising over the states its zones use, and each
\* within its range.
LEMMA StatePwmRises ==
  ASSUME NEW a \in Actuators,
         NEW i \in {0} \cup StatesOf(a), NEW j \in {0} \cup StatesOf(a), i <= j
  PROVE  /\ StatePwm[a][i] \in 0 .. MaxPwm /\ StatePwm[a][j] \in 0 .. MaxPwm
         /\ StatePwm[a][i] <= StatePwm[a][j]
<1> DEFINE used == {0} \cup StatesOf(a)
           N == Max(used)
           f == [s \in 0 .. N |-> StatePwm[a][s]]
<1>1. used \in SUBSET (0 .. MaxState) /\ used # {} /\ MaxState \in Nat
  <2>1. StatesOf(a) \subseteq 0 .. MaxState
    BY TripRow DEF StatesOf
  <2> QED BY <2>1, TypeAssumption
<1>2. N \in used /\ \A s \in used : N >= s
  <2> HIDE DEF used
  <2> QED BY <1>1, MaxOfBounded
<1>3. N \in 0 .. MaxState
  BY <1>1, <1>2
<1>4. \A s \in 1 .. N : StatePwm[a][s - 1] <= StatePwm[a][s]
  BY ConfigAssumption DEF ConfigAccepted
<1>5. i \in 0 .. N /\ j \in 0 .. N
  <2>1. i \in used /\ j \in used
    OBVIOUS
  <2> HIDE DEF used, N
  <2> QED BY <1>1, <1>2, <2>1
<1> HIDE DEF N
<1>6. \A s \in 0 .. N : StatePwm[a][s] \in 0 .. MaxPwm
  BY <1>3, <1>1, TypeAssumption
<1>7. f \in [0 .. N -> Nat] /\ N \in Nat
  BY <1>3, <1>6, TypeAssumption
<1>8. \A s \in 1 .. N : f[s - 1] <= f[s]
  BY <1>3, <1>4
<1>9. f[i] = StatePwm[a][i] /\ f[j] = StatePwm[a][j]
  BY <1>5
<1> HIDE DEF f
<1>10. f[i] <= f[j]
  BY <1>5, <1>7, <1>8, Monotone
<1> QED BY <1>5, <1>6, <1>9, <1>10

\* An actuator gets at least what a zone demands of it, and a zone at least
\* the state_pwm of every safety trip of its that is active.
LEMMA ArbitrationBounds ==
  ASSUME NEW a \in Actuators, NEW m \in Masks, NEW pid \in PidOutputs
  PROVE  /\ Arbitrated(a, m, pid) \in 0 .. MaxPwm
         /\ \A z \in ZonesOf(a) : \A t \in m[z] :
              ZoneCfg[z].trips[t].severity >= Critical =>
                Arbitrated(a, m, pid) >= StatePwm[a][ZoneCfg[z].trips[t].state]
<1> DEFINE demands == {0} \cup {Demand(z, a, m[z], pid) : z \in ZonesOf(a)}
<1>1. pid \in 0 .. MaxPwm /\ MaxPwm \in Nat
  BY TypeAssumption
<1>2. ASSUME NEW z \in ZonesOf(a)
      PROVE  /\ Demand(z, a, m[z], pid) \in 0 .. MaxPwm
             /\ \A t \in m[z] : ZoneCfg[z].trips[t].severity >= Critical =>
                  Demand(z, a, m[z], pid) >= StatePwm[a][ZoneCfg[z].trips[t].state]
  <2> DEFINE floor == StatePwm[a][CoolingState(z, m[z])]
  <2>1. z \in Zones /\ m[z] \in SUBSET Indices(z)
    BY DEF ZonesOf, Masks
  <2>2. {ZoneCfg[z].trips[t].state : t \in Indices(z)} \subseteq StatesOf(a)
    BY DEF StatesOf, ZonesOf, Indices
  <2>3. CoolingState(z, m[z]) \in {0} \cup StatesOf(a)
    BY <2>1, <2>2, CoolingStateBounds
  <2>4. floor \in 0 .. MaxPwm
    <3>1. 0 <= CoolingState(z, m[z]) /\ 0 \in {0} \cup StatesOf(a)
      BY <2>1, CoolingStateBounds, TripRow DEF Indices
    <3> QED BY <2>3, <3>1, StatePwmRises
  <2>5. ASSUME NEW t \in m[z], ZoneCfg[z].trips[t].severity >= Critical
        PROVE  StatePwm[a][ZoneCfg[z].trips[t].state] \in 0 .. MaxPwm
               /\ StatePwm[a][ZoneCfg[z].trips[t].state] <= floor
    <3>1. ZoneCfg[z].trips[t].state \in {0} \cup StatesOf(a)
      BY <2>1, <2>2
    <3>2. ZoneCfg[z].trips[t].state <= CoolingState(z, m[z])
      <4>1. CoolingState(z, m[z]) >= ZoneCfg[z].trips[t].state
        BY <2>1, <2>5, CoolingStateBounds
      <4>2. t \in Indices(z)
        BY <2>1
      <4>3. ZoneCfg[z].trips[t].state \in 0 .. MaxState
        BY <2>1, <4>2, TripRow DEF Indices
      <4>4. CoolingState(z, m[z]) \in 0 .. MaxState
        BY <2>1, CoolingStateBounds
      <4> QED BY <4>1, <4>3, <4>4, TypeAssumption
    <3> QED BY <2>3, <3>1, <3>2, StatePwmRises
  <2> HIDE DEF floor
  <2>6. Demand(z, a, m[z], pid) = IF ZoneCfg[z].governor = "PID" THEN Max({floor, pid}) ELSE floor
    BY DEF Demand, floor
  <2>7. Max({floor, pid}) \in {floor, pid} /\ \A s \in {floor, pid} : Max({floor, pid}) >= s
    <3>1. {floor, pid} \in SUBSET (0 .. MaxPwm) /\ {floor, pid} # {}
      BY <1>1, <2>4
    <3> QED BY <1>1, <3>1, MaxOfBounded
  <2>8. Demand(z, a, m[z], pid) \in 0 .. MaxPwm /\ Demand(z, a, m[z], pid) >= floor
    BY <1>1, <2>4, <2>6, <2>7
  <2> QED BY <1>1, <2>4, <2>5, <2>8
<1>3. demands \in SUBSET (0 .. MaxPwm) /\ demands # {}
  BY <1>1, <1>2
<1>4. Arbitrated(a, m, pid) = Max(demands)
  BY DEF Arbitrated
<1>5. \A z \in ZonesOf(a) : Demand(z, a, m[z], pid) \in demands
  OBVIOUS
<1> HIDE DEF demands
<1>6. Max(demands) \in demands /\ \A s \in demands : Max(demands) >= s
  BY <1>1, <1>3, MaxOfBounded
<1>7. ASSUME NEW z \in ZonesOf(a), NEW t \in m[z], ZoneCfg[z].trips[t].severity >= Critical
      PROVE  Arbitrated(a, m, pid) >= StatePwm[a][ZoneCfg[z].trips[t].state]
  <2>1. /\ Demand(z, a, m[z], pid) \in 0 .. MaxPwm
        /\ Demand(z, a, m[z], pid) >= StatePwm[a][ZoneCfg[z].trips[t].state]
    BY <1>2, <1>7
  <2>2. StatePwm[a][ZoneCfg[z].trips[t].state] \in Int
    <3>1. z \in Zones /\ t \in Indices(z) /\ ZoneCfg[z].trips[t].state \in 0 .. MaxState
      BY TripRow DEF ZonesOf, Masks, Indices
    <3> QED BY <3>1, TypeAssumption
  <2>3. Arbitrated(a, m, pid) \in 0 .. MaxPwm /\ Arbitrated(a, m, pid) >= Demand(z, a, m[z], pid)
    BY <1>3, <1>4, <1>5, <1>6
  <2> QED BY <1>1, <2>1, <2>2, <2>3
<1> QED BY <1>3, <1>4, <1>6, <1>7

-----------------------------------------------------------------------------
(* The inductive invariant. *)

\* Every detector has a machine for each of its targets, every duty is a PWM.
Domains ==
  /\ \A k \in Kinds : fault[k] = [x \in Targets[k] |-> fault[k][x]]
  /\ fault = [k \in Kinds |-> fault[k]]
  /\ \A a \in Actuators : path[a].duty \in 0 .. MaxPwm
  /\ mask \in Masks
  /\ severity = [z \in Zones |-> ZoneSeverity(z, mask[z])]

\* What asked for a shutdown and still does has set the latch.
LatchKept ==
  /\ \A z \in Zones : severity[z] >= Shutdown => shutdown
  /\ \A k \in Kinds : \A x \in ActiveTargets(k, fault) :
       RequestsShutdown(k) /\ Affected(k, x) # {} => shutdown
  /\ \A z \in Zones : escalated[z] => shutdown

\* A zone that runs on its fallback, its trips not raised, has its CRITICAL
\* trips active.
FallbackActivates ==
  \A z \in Zones : \A t \in Indices(z) :
    source[z] = "fallback" /\ offset <= 0 /\ ZoneCfg[z].trips[t].severity = Critical => t \in mask[z]

IInv == Domains /\ LatchKept /\ FallbackActivates /\ CriticalCooled /\ ForcedHoldsMax /\ ReasonTruthful

\* What a step settles: masks of the zones' trips, which in a zone without a
\* usable sensor come of the fallback, and a machine for every target.
Settled(left, m, new, modifier) ==
  /\ m \in Masks
  /\ modifier.offset \in Int
  /\ \A k \in Kinds : new[k] = [x \in Targets[k] |-> new[k][x]]
  /\ new = [k \in Kinds |-> new[k]]
  /\ \A z \in Zones : left[z] = {} => m[z] = NewMask(z, ZoneCfg[z].fallback, modifier.offset)

\* A step, its intermediate values named.
LEMMA StepSettles ==
  ASSUME NEW reading, NEW modifier \in Modifiers, NEW pid, NEW seen,
         Step(reading, modifier, pid, seen)
  PROVE  \E left, m, new :
           /\ Settled(left, m, new, modifier)
           /\ Settle(left, m, Asked(m, modifier, pid), new, modifier, pid)
<1>1. PICK stuck, left, m, asked, new :
        /\ stuck = Stepped("STUCK", seen["STUCK"])
        /\ m = NewMasks(reading, left, modifier.offset)
        /\ asked = Asked(m, modifier, pid)
        /\ new = NewFault(stuck, asked, seen)
        /\ Settle(left, m, asked, new, modifier, pid)
  BY DEF Step
<1>2. m \in Masks
  <2>1. \A z \in Zones : Len(Shift(ZoneCfg[z].trips, modifier.offset)) = Len(ZoneCfg[z].trips)
    BY TypeAssumption DEF Shift
  <2>2. \A z \in Zones : Indices(z) \subseteq Nat
    BY DEF Indices
  <2>3. \A z \in Zones : m[z] \subseteq Indices(z)
    BY <1>1, <2>1 DEF NewMasks, NewMask, StepWise, Indices
  <2>4. m = [z \in Zones |-> m[z]]
    BY <1>1 DEF NewMasks
  <2> QED BY <2>2, <2>3, <2>4 DEF Masks
<1>3. \A k \in Kinds : new[k] = [x \in Targets[k] |-> new[k][x]]
  <2>1. \A k, active : Stepped(k, active) = [x \in Targets[k] |-> Stepped(k, active)[x]]
    BY DEF Stepped
  <2>2. \A k \in Kinds : \E active : new[k] = Stepped(k, active)
    BY <1>1 DEF NewFault, Kinds
  <2> QED BY <2>1, <2>2
<1>4. new = [k \in Kinds |-> new[k]]
  <2> DEFINE machines(k) ==
               CASE k = "STUCK"   -> stuck
                 [] k = "STALL"   -> Stepped(k, {a \in seen[k] : asked[a] >= StallPwm})
                 [] k = "RUNAWAY" -> Stepped(k, {z \in seen[k] :
                                       \E a \in ZoneActuators[z] : asked[a] >= CoolingPwm})
                 [] k = "STALE"   -> Stepped(k, seen[k])
  <2>1. new = [k \in Kinds |-> machines(k)]
    BY <1>1, Zenon DEF NewFault
  <2> HIDE DEF machines
  <2> QED BY <2>1
<1>5. \A z \in Zones : left[z] = {} => m[z] = NewMask(z, ZoneCfg[z].fallback, modifier.offset)
  BY <1>1 DEF NewMasks, Aggregate
<1>6. modifier.offset \in Int
  BY TypeAssumption
<1> QED BY <1>1, <1>2, <1>3, <1>4, <1>5, <1>6 DEF Settled

\* What a step assigns, actuator by actuator.
LEMMA SettleParts ==
  ASSUME NEW left, NEW m, NEW new, NEW modifier, NEW pid,
         Settle(left, m, Asked(m, modifier, pid), new, modifier, pid)
  PROVE  /\ fault' = new /\ faults' = faults /\ mask' = m /\ offset' = modifier.offset
         /\ source' = [z \in Zones |-> IF left[z] = {} THEN "fallback" ELSE "sensors"]
         /\ severity' = [z \in Zones |-> ZoneSeverity(z, m[z])]
         /\ escalated' = [z \in Zones |-> /\ z \in ActiveTargets("RUNAWAY", new)
                                          /\ escalated[z] \/ z \in Escalating(new)]
         /\ announced' = AnnouncementsOfZones(m) \cup AnnouncementsOfFaults(new)
         /\ shutdown' = ShutdownLatched(m, new)
         /\ \A a \in Actuators :
              \E req, safe :
                /\ req = IF a \in Forced(m, new) THEN ActCfg[a].pwmMax
                         ELSE Asked(m, modifier, pid)[a]
                /\ safe = (a \in Overridden(m, new))
                /\ path'[a].duty = A(a)!NextDuty(req, safe)
                /\ reason'[a] = Reason(a, m, new, req, safe, path'[a].duty,
                                       CapApplies(a, m, Arbitrated(a, m, pid), modifier.cap))
<1> DEFINE forced == Forced(m, new)
           safe == Overridden(m, new)
           asked == Asked(m, modifier, pid)
           req(a) == IF a \in forced THEN ActCfg[a].pwmMax ELSE asked[a]
<1>1. /\ fault' = new /\ faults' = faults /\ mask' = m /\ offset' = modifier.offset
      /\ source' = [z \in Zones |-> IF left[z] = {} THEN "fallback" ELSE "sensors"]
      /\ severity' = [z \in Zones |-> ZoneSeverity(z, m[z])]
      /\ escalated' = [z \in Zones |-> /\ z \in ActiveTargets("RUNAWAY", new)
                                       /\ escalated[z] \/ z \in Escalating(new)]
      /\ announced' = AnnouncementsOfZones(m) \cup AnnouncementsOfFaults(new)
      /\ shutdown' = ShutdownLatched(m, new)
  BY DEF Settle
<1>2. /\ path' = [a \in Actuators |-> NewPath(a, req(a), a \in safe)]
      /\ reason' = [a \in Actuators |->
                     Reason(a, m, new, req(a), a \in safe, NewPath(a, req(a), a \in safe).duty,
                            CapApplies(a, m, Arbitrated(a, m, pid), modifier.cap))]
  BY DEF Settle
<1> HIDE DEF forced, safe, asked, req
<1>3. \A a \in Actuators :
        /\ path'[a].duty = A(a)!NextDuty(req(a), a \in safe)
        /\ reason'[a] = Reason(a, m, new, req(a), a \in safe, path'[a].duty,
                               CapApplies(a, m, Arbitrated(a, m, pid), modifier.cap))
  BY <1>2 DEF NewPath
<1> QED BY <1>1, <1>3 DEF forced, safe, asked, req

-----------------------------------------------------------------------------
(* What a step makes of one actuator. *)

\* What the accepted configuration says of a zone's actuators and of an
\* actuator's range.
LEMMA ConfigFacts ==
  /\ \A z \in Zones : ZoneActuators[z] \subseteq Actuators /\ ZoneActuators[z] # {}
  /\ \A a \in Actuators : ActCfg[a].pwmMax \in 0 .. MaxPwm /\ MaxPwm \in Nat
  /\ \A a \in Actuators : \A s \in StatesOf(a) : StatePwm[a][s] <= ActCfg[a].pwmMax
<1>1. ASSUME NEW z \in Zones
      PROVE  ZoneActuators[z] \subseteq Actuators /\ ZoneActuators[z] # {}
  <2>1. ZoneActuators[z] \in (SUBSET Actuators) \ {{}}
    BY ConfigAssumption DEF ConfigAccepted
  <2> QED BY <2>1
<1>2. ASSUME NEW a \in Actuators
      PROVE  ActCfg[a].pwmMin \in 0 .. MaxPwm /\ ActCfg[a].pwmMax \in 0 .. MaxPwm /\ MaxPwm \in Nat
  BY ConfigAssumption, TypeAssumption DEF ConfigAccepted, A!ConfigLegal
<1>3. ASSUME NEW a \in Actuators, NEW s \in StatesOf(a)
      PROVE  StatePwm[a][s] <= ActCfg[a].pwmMax
  <2>1. StatePwm[a][s] \in {0} \cup (ActCfg[a].pwmMin .. ActCfg[a].pwmMax)
    BY <1>3, ConfigAssumption DEF ConfigAccepted
  <2> QED BY <1>2, <2>1
<1> QED BY <1>1, <1>2, <1>3

\* The request after the cap is a PWM, and at CRITICAL severity it is the
\* arbitrated one.
LEMMA AskedBounds ==
  ASSUME NEW a \in Actuators, NEW m \in Masks, NEW modifier \in Modifiers, NEW pid \in PidOutputs
  PROVE  /\ Asked(m, modifier, pid)[a] \in 0 .. MaxPwm
         /\ ActuatorSeverity(a, m) >= Critical =>
              /\ Asked(m, modifier, pid)[a] = Arbitrated(a, m, pid)
              /\ ~ CapApplies(a, m, Arbitrated(a, m, pid), modifier.cap)
<1> DEFINE pwm == Arbitrated(a, m, pid)
<1>1. pwm \in 0 .. MaxPwm /\ modifier.cap \in Int /\ ActCfg[a].pwmMax \in 0 .. MaxPwm /\ MaxPwm \in Nat
  BY ArbitrationBounds, TypeAssumption, ConfigFacts
<1>2. Asked(m, modifier, pid)[a] = IF CapApplies(a, m, pwm, modifier.cap) THEN modifier.cap ELSE pwm
  BY DEF Asked, Capped
<1>3. CapApplies(a, m, pwm, modifier.cap) =>
        ActuatorSeverity(a, m) < Critical /\ modifier.cap >= 0 /\ modifier.cap < ActCfg[a].pwmMax
  BY DEF CapApplies
<1>4. ActuatorSeverity(a, m) \in 0 .. 3
  BY ActuatorSeverityBounds
<1> HIDE DEF pwm
<1>5. Asked(m, modifier, pid)[a] \in 0 .. MaxPwm
  BY <1>1, <1>2, <1>3
<1>6. ActuatorSeverity(a, m) >= Critical => ~ CapApplies(a, m, pwm, modifier.cap)
  BY <1>3, <1>4 DEF Critical
<1> QED BY <1>2, <1>5, <1>6 DEF pwm

\* Forced to the maximum, an actuator gets it; overridden, at least what was
\* asked.
LEMMA Driven ==
  ASSUME Domains, NEW left, NEW m, NEW new, NEW modifier \in Modifiers, NEW pid \in PidOutputs,
         Settled(left, m, new, modifier),
         Settle(left, m, Asked(m, modifier, pid), new, modifier, pid),
         NEW a \in Actuators
  PROVE  /\ path'[a].duty \in 0 .. MaxPwm
         /\ a \in Forced(m, new) => path'[a].duty = ActCfg[a].pwmMax
         /\ a \in Overridden(m, new) => \/ path'[a].duty >= Asked(m, modifier, pid)[a]
                                        \/ path'[a].duty = ActCfg[a].pwmMax
<1>1. m \in Masks
  BY DEF Settled
<1>2. PICK req, safe :
        /\ req = IF a \in Forced(m, new) THEN ActCfg[a].pwmMax ELSE Asked(m, modifier, pid)[a]
        /\ safe = (a \in Overridden(m, new))
        /\ path'[a].duty = A(a)!NextDuty(req, safe)
  BY SettleParts
<1>3. ActCfg[a].pwmMax \in 0 .. MaxPwm /\ MaxPwm \in Nat
  BY ConfigFacts
<1>4. req \in 0 .. MaxPwm /\ safe \in BOOLEAN
  BY <1>1, <1>2, <1>3, AskedBounds
<1>5. path[a].duty \in 0 .. MaxPwm
  BY DEF Domains
<1>6. /\ path'[a].duty \in 0 .. MaxPwm /\ path'[a].duty <= ActCfg[a].pwmMax
      /\ safe => path'[a].duty >= req \/ path'[a].duty = ActCfg[a].pwmMax
  BY <1>2, <1>4, <1>5, PathBounds
<1>7. a \in Forced(m, new) => a \in Overridden(m, new)
  <2>1. ActuatorSeverity(a, m) \in 0 .. 3
    BY <1>1, ActuatorSeverityBounds
  <2> QED BY <2>1 DEF Forced, Overridden, Shutdown, Critical
<1>8. CASE a \in Forced(m, new)
  <2>1. safe /\ req = ActCfg[a].pwmMax
    BY <1>2, <1>7, <1>8
  <2>2. path'[a].duty = ActCfg[a].pwmMax
    BY <1>3, <1>6, <2>1
  <2> QED BY <1>6, <2>2
<1>9. CASE a \notin Forced(m, new)
  <2>1. req = Asked(m, modifier, pid)[a]
    BY <1>2, <1>9
  <2> QED BY <1>2, <1>6, <1>9, <2>1
<1> QED BY <1>8, <1>9

\* The fault part of the reason is there exactly when the maximum is forced.
LEMMA ReasonFacts ==
  ASSUME NEW left, NEW m \in Masks, NEW new, NEW modifier, NEW pid,
         Settle(left, m, Asked(m, modifier, pid), new, modifier, pid),
         NEW a \in Actuators
  PROVE  /\ reason'[a] \in FaultReasons <=> a \in Forced(m, new)
         /\ reason'[a] = "SAFETY_SHUTDOWN" =>
              ActuatorSeverity(a, m) >= Shutdown \/ a \in ShutdownActions(new)
         /\ reason'[a] = "MODIFIER_ACOUSTIC_CAP" =>
              CapApplies(a, m, Arbitrated(a, m, pid), modifier.cap)
<1> DEFINE capped == CapApplies(a, m, Arbitrated(a, m, pid), modifier.cap)
           byFault == FaultReason(a, m, new, capped)
<1>1. PICK req, safe :
        reason'[a] = Reason(a, m, new, req, safe, path'[a].duty, capped)
  BY SettleParts
<1>2. /\ byFault # "NONE" <=> a \in Forced(m, new)
      /\ byFault \in FaultReasons \cup {"NONE"}
      /\ byFault = "SAFETY_SHUTDOWN" =>
           ActuatorSeverity(a, m) >= Shutdown \/ a \in ShutdownActions(new)
  BY DEF FaultReason, FaultReasons, Forced, Faulted, Kinds
<1> DEFINE byPath == PathReason(a, req, safe, path'[a].duty, capped)
<1>3. /\ byPath \in {"DWELL", "NONE", "SPINUP", "MODIFIER_ACOUSTIC_CAP", "GOVERNOR"}
      /\ byPath = "MODIFIER_ACOUSTIC_CAP" => capped
  BY DEF PathReason
<1>4. reason'[a] = IF byFault # "NONE" THEN byFault ELSE byPath
  BY <1>1 DEF Reason
<1> HIDE DEF byFault, byPath, capped
<1>5. /\ reason'[a] \in FaultReasons <=> a \in Forced(m, new)
      /\ reason'[a] = "SAFETY_SHUTDOWN" =>
           ActuatorSeverity(a, m) >= Shutdown \/ a \in ShutdownActions(new)
      /\ reason'[a] = "MODIFIER_ACOUSTIC_CAP" => capped
  BY <1>2, <1>3, <1>4 DEF FaultReasons
<1> QED BY <1>5 DEF capped

-----------------------------------------------------------------------------
(* A step keeps every part of the invariant. *)

\* thermal_core_init establishes the invariant.
LEMMA InitIInv == Init => IInv
<1> SUFFICES ASSUME Init PROVE IInv
  OBVIOUS
<1>1. /\ fault = [k \in Kinds |-> [x \in Targets[k] |-> FsmReset]]
      /\ mask = [z \in Zones |-> {}] /\ source = [z \in Zones |-> "none"]
      /\ severity = [z \in Zones |-> 0] /\ escalated = [z \in Zones |-> FALSE]
      /\ \A a \in Actuators : path[a].duty = 0 /\ reason[a] = "NONE"
  BY DEF Init
<1>2. \A k \in Kinds : ActiveTargets(k, fault) = {}
  BY <1>1 DEF ActiveTargets, FaultActive, FsmReset
<1>3. Domains
  <2>1. MaxPwm \in Nat
    BY TypeAssumption
  <2>2. \A z \in Zones : ZoneSeverity(z, mask[z]) = 0
    BY <1>1 DEF ZoneSeverity, MaxSeverity
  <2>3. mask \in Masks
    BY <1>1 DEF Masks
  <2>4. \A a \in Actuators : path[a].duty \in 0 .. MaxPwm
    BY <1>1, <2>1
  <2>5. severity = [z \in Zones |-> ZoneSeverity(z, mask[z])]
    BY <1>1, <2>2
  <2>6. fault = [k \in Kinds |-> fault[k]] /\ \A k \in Kinds : fault[k] = [x \in Targets[k] |-> fault[k][x]]
    BY <1>1
  <2> QED BY <2>3, <2>4, <2>5, <2>6 DEF Domains
<1>4. LatchKept
  BY <1>1, <1>2 DEF LatchKept, Shutdown
<1>5. FallbackActivates
  BY <1>1 DEF FallbackActivates
<1>6. CriticalCooled
  BY <1>1 DEF CriticalCooled
<1>7. ForcedHoldsMax
  BY <1>1, <1>2, ConfigFacts DEF ForcedHoldsMax, Shutdown
<1>8. ReasonTruthful
  BY <1>1, <1>2 DEF ReasonTruthful, FaultReasons
<1> QED BY <1>3, <1>4, <1>5, <1>6, <1>7, <1>8 DEF IInv

\* A fault concerns actuators only.
LEMMA AffectedActuators ==
  ASSUME NEW k \in Kinds, NEW x \in Targets[k]
  PROVE  Affected(k, x) \subseteq Actuators
BY ConfigFacts DEF Kinds, Targets, Affected

\* Who asks for a shutdown: the targets of a kind whose action says so, and
\* an escalating runaway.
LEMMA ShutdownSources ==
  ASSUME NEW new
  PROVE  /\ \A k \in Kinds : \A x \in ActiveTargets(k, new) :
              RequestsShutdown(k) => Affected(k, x) \subseteq ShutdownActions(new)
         /\ \A z \in Escalating(new) : ZoneActuators[z] \subseteq ShutdownActions(new)
<1>1. \A k \in Kinds : \A x \in ActiveTargets(k, new) : Affected(k, x) \subseteq Actuators
  BY AffectedActuators DEF ActiveTargets
<1>2. \A z \in Escalating(new) : ZoneActuators[z] \subseteq Actuators
  BY ConfigFacts DEF Escalating, ActiveTargets, Targets
<1> QED BY <1>1, <1>2 DEF ShutdownActions

\* A target whose fault is active and whose action forces the maximum or asks
\* for a shutdown has all its actuators faulted.
LEMMA ActiveMeansFaulted ==
  ASSUME NEW new, NEW k \in Kinds, NEW x \in ActiveTargets(k, new),
         ForcesMax(k) \/ RequestsShutdown(k)
  PROVE  Affected(k, x) \subseteq Faulted(new)
<1>1. CASE RequestsShutdown(k)
  <2>1. Affected(k, x) \subseteq ShutdownActions(new)
    BY <1>1, ShutdownSources
  <2> QED BY <2>1 DEF Faulted
<1>2. CASE k = "RUNAWAY" /\ x \in Escalating(new)
  <2>1. Affected(k, x) = ZoneActuators[x]
    BY <1>2 DEF Affected
  <2>2. Affected(k, x) \subseteq ShutdownActions(new)
    BY <1>2, <2>1, ShutdownSources
  <2> QED BY <2>2 DEF Faulted
<1>3. CASE ForcesMax(k) /\ ~ (k = "RUNAWAY" /\ x \in Escalating(new))
  <2>1. Affected(k, x) \subseteq Causes(k, new)
    BY <1>3 DEF Causes
  <2> QED BY <2>1 DEF Faulted
<1> QED BY <1>1, <1>2, <1>3

\* A step keeps every part of the invariant, most of them by making them true
\* again.
LEMMA StepKeepsIInv ==
  ASSUME IInv, NEW left, NEW m, NEW new, NEW modifier \in Modifiers, NEW pid \in PidOutputs,
         Settled(left, m, new, modifier),
         Settle(left, m, Asked(m, modifier, pid), new, modifier, pid)
  PROVE  IInv'
<1>1. /\ fault' = new /\ faults' = faults /\ mask' = m /\ offset' = modifier.offset
      /\ source' = [z \in Zones |-> IF left[z] = {} THEN "fallback" ELSE "sensors"]
      /\ severity' = [z \in Zones |-> ZoneSeverity(z, m[z])]
      /\ escalated' = [z \in Zones |-> /\ z \in ActiveTargets("RUNAWAY", new)
                                       /\ escalated[z] \/ z \in Escalating(new)]
      /\ shutdown' = ShutdownLatched(m, new)
  BY SettleParts
<1>2. /\ m \in Masks /\ modifier.offset \in Int
      /\ \A z \in Zones : left[z] = {} => m[z] = NewMask(z, ZoneCfg[z].fallback, modifier.offset)
  BY DEF Settled
<1>3. ASSUME NEW a \in Actuators
      PROVE  /\ path'[a].duty \in 0 .. MaxPwm
             /\ a \in Forced(m, new) => path'[a].duty = ActCfg[a].pwmMax
             /\ a \in Overridden(m, new) => \/ path'[a].duty >= Asked(m, modifier, pid)[a]
                                            \/ path'[a].duty = ActCfg[a].pwmMax
  BY Driven DEF IInv
<1>4. \A k \in Kinds :
        /\ ActiveTargets(k, fault)' = ActiveTargets(k, new)
        /\ ForcesMax(k)' = ForcesMax(k) /\ RequestsShutdown(k)' = RequestsShutdown(k)
  BY <1>1 DEF ActiveTargets, ForcesMax, RequestsShutdown
<1>5. Domains'
  BY <1>1, <1>2, <1>3 DEF Domains, Settled
<1>6. LatchKept'
  <2>1. ASSUME NEW z \in Zones, severity'[z] >= Shutdown PROVE shutdown'
    BY <1>1, <2>1 DEF ShutdownLatched
  <2>2. ASSUME NEW k \in Kinds, NEW x \in ActiveTargets(k, new), RequestsShutdown(k), Affected(k, x) # {}
        PROVE  shutdown'
    BY <1>1, <2>2, ShutdownSources DEF ShutdownLatched
  <2>3. ASSUME NEW z \in Zones, escalated'[z] PROVE shutdown'
    <3>1. CASE escalated[z]
      BY <1>1, <3>1 DEF IInv, LatchKept, ShutdownLatched
    <3>2. CASE z \in Escalating(new)
      BY <1>1, <2>3, <3>2, ConfigFacts, ShutdownSources DEF ShutdownLatched
    <3> QED BY <1>1, <2>3, <3>1, <3>2
  <2>4. \A k \in Kinds : \A x \in ActiveTargets(k, fault)' :
          RequestsShutdown(k)' /\ Affected(k, x) # {} => shutdown'
    BY <1>4, <2>2
  <2> QED BY <2>1, <2>3, <2>4 DEF LatchKept
<1>7. FallbackActivates'
  <2>1. SUFFICES ASSUME NEW z \in Zones, NEW t \in Indices(z), left[z] = {}, modifier.offset <= 0,
                        ZoneCfg[z].trips[t].severity = Critical
                 PROVE  t \in m[z]
    BY <1>1 DEF FallbackActivates
  <2> DEFINE trips == ZoneCfg[z].trips
             shifted == Shift(trips, modifier.offset)
  <2>2. trips[t].temp \in Int /\ ZoneCfg[z].fallback \in Int /\ modifier.offset \in Int
    BY <1>2, TripRow, TypeAssumption DEF Indices
  <2>3. trips[t] \in TripRecords /\ t \in 1 .. Len(trips)
    BY TypeAssumption, ElementOfSeq DEF Indices
  <2>4. shifted[t].temp = trips[t].temp + modifier.offset
    BY <2>3 DEF Shift, TripRecords
  <2>5. Len(shifted) = Len(trips)
    BY TypeAssumption DEF Shift
  <2>6. ZoneCfg[z].fallback >= trips[t].temp
    BY <2>1, <2>3, ConfigAssumption DEF ConfigAccepted, FallbackReachesFloor
  <2> HIDE DEF shifted
  <2>7. ZoneCfg[z].fallback >= shifted[t].temp
    BY <2>1, <2>2, <2>4, <2>6
  <2>8. t \in StepWise(shifted, ZoneCfg[z].fallback, mask[z])
    BY <2>3, <2>5, <2>7 DEF StepWise, TripActive
  <2> QED BY <1>2, <2>1, <2>8 DEF NewMask, shifted
<1>8. CriticalCooled'
  <2>1. SUFFICES ASSUME NEW z \in Zones, NEW t \in m[z], NEW a \in ZoneActuators[z],
                        ZoneCfg[z].trips[t].severity >= Critical
                 PROVE  path'[a].duty >= StatePwm[a][ZoneCfg[z].trips[t].state]
    BY <1>1 DEF CriticalCooled
  <2>2. a \in Actuators /\ z \in ZonesOf(a)
    BY <2>1, ConfigFacts DEF ZonesOf
  <2>3. m[z] \in SUBSET Indices(z) /\ t \in Indices(z)
    BY <1>2, <2>1 DEF Masks
  <2>4. ActuatorSeverity(a, m) >= Critical
    <3>1. ZoneSeverity(z, m[z]) >= ZoneCfg[z].trips[t].severity /\ ZoneSeverity(z, m[z]) \in 0 .. 3
      BY <2>1, <2>3, ZoneSeverityBounds
    <3>2. ActuatorSeverity(a, m) >= ZoneSeverity(z, m[z]) /\ ActuatorSeverity(a, m) \in 0 .. 3
      BY <1>2, <2>2, ActuatorSeverityBounds
    <3>3. ZoneCfg[z].trips[t].severity \in 1 .. 3
      BY <2>3, TripRow DEF Indices
    <3> QED BY <2>1, <3>1, <3>2, <3>3 DEF Critical
  <2>5. Asked(m, modifier, pid)[a] = Arbitrated(a, m, pid)
    BY <1>2, <2>2, <2>4, AskedBounds
  <2>6. /\ Arbitrated(a, m, pid) >= StatePwm[a][ZoneCfg[z].trips[t].state]
        /\ Arbitrated(a, m, pid) \in 0 .. MaxPwm
    BY <1>2, <2>1, <2>2, ArbitrationBounds
  <2>7. ZoneCfg[z].trips[t].state \in StatesOf(a) /\ ZoneCfg[z].trips[t].state \in 0 .. MaxState
    BY <2>2, <2>3, TripRow DEF StatesOf, ZonesOf, Indices
  <2>8. /\ StatePwm[a][ZoneCfg[z].trips[t].state] \in 0 .. MaxPwm
        /\ StatePwm[a][ZoneCfg[z].trips[t].state] <= ActCfg[a].pwmMax
        /\ ActCfg[a].pwmMax \in 0 .. MaxPwm /\ MaxPwm \in Nat
    BY <2>2, <2>7, ConfigFacts, TypeAssumption
  <2>9. a \in Overridden(m, new)
    BY <2>2, <2>4 DEF Overridden
  <2>10. path'[a].duty \in 0 .. MaxPwm
         /\ (path'[a].duty >= Arbitrated(a, m, pid) \/ path'[a].duty = ActCfg[a].pwmMax)
    BY <1>3, <2>2, <2>5, <2>9
  <2> QED BY <2>6, <2>8, <2>10
<1>9. ASSUME NEW k \in Kinds, NEW x \in ActiveTargets(k, new), NEW a \in Actuators,
             a \in Affected(k, x), ForcesMax(k) \/ RequestsShutdown(k)
      PROVE  a \in Forced(m, new)
  <2>1. a \in Faulted(new)
    BY <1>9, ActiveMeansFaulted
  <2> QED BY <2>1 DEF Forced
<1>10. ForcedHoldsMax'
  <2>1. ASSUME NEW k \in Kinds, NEW x \in ActiveTargets(k, new), NEW a \in Affected(k, x),
               ForcesMax(k) \/ RequestsShutdown(k)
        PROVE  path'[a].duty = ActCfg[a].pwmMax
    <3>1. x \in Targets[k]
      BY DEF ActiveTargets
    <3> QED BY <1>3, <1>9, AffectedActuators, <2>1, <3>1
  <2>2. ASSUME NEW z \in Zones, NEW a \in ZoneActuators[z], severity'[z] >= Shutdown
        PROVE  path'[a].duty = ActCfg[a].pwmMax
    <3>1. a \in Actuators /\ z \in ZonesOf(a) /\ m[z] \in SUBSET Indices(z)
      BY <1>2, <2>2, ConfigFacts DEF ZonesOf, Masks
    <3>2. ActuatorSeverity(a, m) >= ZoneSeverity(z, m[z]) /\ ActuatorSeverity(a, m) \in 0 .. 3
      BY <1>2, <3>1, ActuatorSeverityBounds
    <3>3. ZoneSeverity(z, m[z]) \in 0 .. 3 /\ ZoneSeverity(z, m[z]) >= Shutdown
      BY <1>1, <2>2, <3>1, ZoneSeverityBounds
    <3>4. a \in Forced(m, new)
      BY <3>1, <3>2, <3>3 DEF Forced, Shutdown
    <3> QED BY <1>3, <3>1, <3>4
  <2>3. \A k \in Kinds : \A x \in ActiveTargets(k, fault)' : \A a \in Affected(k, x) :
          ForcesMax(k)' \/ RequestsShutdown(k)' => path'[a].duty = ActCfg[a].pwmMax
    BY <1>4, <2>1
  <2> QED BY <2>2, <2>3 DEF ForcedHoldsMax
<1>11. ReasonTruthful'
  <2> SUFFICES ASSUME NEW a \in Actuators
               PROVE  /\ reason'[a] \in FaultReasons => path'[a].duty = ActCfg[a].pwmMax
                      /\ reason'[a] = "SAFETY_SHUTDOWN" => shutdown'
                      /\ \A k \in Kinds : \A x \in ActiveTargets(k, fault)' :
                           a \in Affected(k, x) /\ (ForcesMax(k)' \/ RequestsShutdown(k)') =>
                             reason'[a] \in FaultReasons
                      /\ reason'[a] = "MODIFIER_ACOUSTIC_CAP" =>
                           \A z \in ZonesOf(a) : severity'[z] < Critical
    BY DEF ReasonTruthful
  <2>1. /\ reason'[a] \in FaultReasons <=> a \in Forced(m, new)
        /\ reason'[a] = "SAFETY_SHUTDOWN" =>
             ActuatorSeverity(a, m) >= Shutdown \/ a \in ShutdownActions(new)
        /\ reason'[a] = "MODIFIER_ACOUSTIC_CAP" =>
             CapApplies(a, m, Arbitrated(a, m, pid), modifier.cap)
    BY <1>2, ReasonFacts
  <2>2. reason'[a] \in FaultReasons => path'[a].duty = ActCfg[a].pwmMax
    BY <1>3, <2>1
  <2>3. reason'[a] = "SAFETY_SHUTDOWN" => shutdown'
    <3>1. CASE ActuatorSeverity(a, m) >= Shutdown
      <4>1. PICK z \in ZonesOf(a) : ActuatorSeverity(a, m) = ZoneSeverity(z, m[z])
        BY <1>2, <3>1, ActuatorSeverityBounds DEF Shutdown
      <4> QED BY <1>1, <3>1, <4>1 DEF ShutdownLatched, ZonesOf
    <3>2. CASE a \in ShutdownActions(new)
      BY <1>1, <3>2 DEF ShutdownLatched
    <3> QED BY <2>1, <3>1, <3>2
  <2>4. \A k \in Kinds : \A x \in ActiveTargets(k, fault)' :
          a \in Affected(k, x) /\ (ForcesMax(k)' \/ RequestsShutdown(k)') => reason'[a] \in FaultReasons
    BY <1>4, <1>9, <2>1
  <2>5. ASSUME reason'[a] = "MODIFIER_ACOUSTIC_CAP", NEW z \in ZonesOf(a)
        PROVE  severity'[z] < Critical
    <3>1. ActuatorSeverity(a, m) < Critical
      BY <2>1, <2>5 DEF CapApplies
    <3>2. z \in Zones /\ m[z] \in SUBSET Indices(z)
      BY <1>2 DEF ZonesOf, Masks
    <3>3. /\ ActuatorSeverity(a, m) >= ZoneSeverity(z, m[z]) /\ ActuatorSeverity(a, m) \in 0 .. 3
          /\ ZoneSeverity(z, m[z]) \in 0 .. 3
      BY <1>2, <3>2, ActuatorSeverityBounds, ZoneSeverityBounds
    <3> QED BY <1>1, <3>1, <3>2, <3>3 DEF Critical
  <2> QED BY <2>2, <2>3, <2>4, <2>5
<1> QED BY <1>5, <1>6, <1>7, <1>8, <1>10, <1>11 DEF IInv

\* A clear makes one machine NORMAL and leaves the outputs as they are.
LEMMA ClearKeepsIInv ==
  ASSUME IInv, NEW k \in Kinds, NEW x \in Targets[k], ClearFault(k, x)
  PROVE  IInv'
<1>1. /\ UNCHANGED <<faults, mask, source, offset, severity, shutdown, path, reason>>
      /\ fault' = [fault EXCEPT ![k][x] = FsmReset]
      /\ escalated' = IF k = "RUNAWAY" THEN [escalated EXCEPT ![x] = FALSE] ELSE escalated
  BY DEF ClearFault, control
<1>2. /\ fault' = [j \in Kinds |-> fault'[j]]
      /\ \A j \in Kinds : fault'[j] = [y \in Targets[j] |-> fault'[j][y]]
      /\ \A j \in Kinds : \A y \in Targets[j] :
           fault'[j][y] = fault[j][y] \/ fault'[j][y] = FsmReset
  <2>1. /\ fault = [j \in Kinds |-> fault[j]]
        /\ \A j \in Kinds : fault[j] = [y \in Targets[j] |-> fault[j][y]]
    BY DEF IInv, Domains
  <2> QED BY <1>1, <2>1
<1>3. \A j \in Kinds : ActiveTargets(j, fault)' \subseteq ActiveTargets(j, fault)
  BY <1>1, <1>2 DEF ActiveTargets, FaultActive, FsmReset
<1>4. \A j \in Kinds : ForcesMax(j)' = ForcesMax(j) /\ RequestsShutdown(j)' = RequestsShutdown(j)
  BY <1>1 DEF ForcesMax, RequestsShutdown
<1>5. Domains'
  BY <1>1, <1>2 DEF IInv, Domains
<1>6. LatchKept'
  <2>1. ASSUME NEW z \in Zones, escalated'[z] PROVE escalated[z]
    BY <1>1, <2>1
  <2> QED BY <1>1, <1>3, <1>4, <2>1 DEF IInv, LatchKept
<1>7. FallbackActivates' /\ CriticalCooled'
  BY <1>1 DEF IInv, FallbackActivates, CriticalCooled
<1>8. ForcedHoldsMax'
  BY <1>1, <1>3, <1>4 DEF IInv, ForcedHoldsMax
<1>9. ReasonTruthful'
  BY <1>1, <1>3, <1>4 DEF IInv, ReasonTruthful
<1> QED BY <1>5, <1>6, <1>7, <1>8, <1>9 DEF IInv

\* A step, whatever its inputs, is one of the settled ones.
LEMMA StepsSettle ==
  ASSUME Steps
  PROVE  \E left, m, new : \E modifier \in Modifiers, pid \in PidOutputs :
           /\ Settled(left, m, new, modifier)
           /\ Settle(left, m, Asked(m, modifier, pid), new, modifier, pid)
<1>1. PICK reading \in [Sensors -> Temps \cup {NoSample}], modifier \in Modifiers, pid \in PidOutputs,
           stall \in SUBSET Watched("STALL"), stuck \in SUBSET Watched("STUCK"),
           runaway \in SUBSET Watched("RUNAWAY"), stale \in SUBSET Watched("STALE") :
        Step(reading, modifier, pid,
             [STALL |-> stall, STUCK |-> stuck, RUNAWAY |-> runaway, STALE |-> stale])
  BY DEF Steps
<1> QED BY <1>1, StepSettles

\* Steps and clears keep the invariant.
LEMMA NextKeepsIInv == IInv /\ [Next]_vars => IInv'
<1> SUFFICES ASSUME IInv, [Next]_vars PROVE IInv'
  OBVIOUS
<1>1. CASE Steps
  BY <1>1, StepsSettle, StepKeepsIInv
<1>2. ASSUME NEW k \in Kinds, NEW x \in Targets[k], ClearFault(k, x) PROVE IInv'
  BY <1>2, ClearKeepsIInv
<1>3. CASE UNCHANGED vars
  BY <1>3 DEF vars, detectors, control, IInv, Domains, LatchKept, FallbackActivates, CriticalCooled,
              ForcedHoldsMax, ReasonTruthful, ActiveTargets, ForcesMax, RequestsShutdown
<1> QED BY <1>1, <1>2, <1>3 DEF Next

\* The invariant holds in every reachable state.
LEMMA Inductive == Spec => []IInv
BY InitIInv, NextKeepsIInv, PTL DEF Spec

-----------------------------------------------------------------------------
\* A zone at or above a CRITICAL trip is cooled for it on the very tick by
\* every actuator it has, whatever cap, dwell, slew and other zones ask for.
THEOREM CriticalIsCooled == Spec => []CriticalCooled
<1>1. IInv => CriticalCooled
  BY DEF IInv
<1> QED BY <1>1, Inductive, PTL

\* A zone without a usable sensor is cooled as a CRITICAL one.
THEOREM LossIsCooled == Spec => []LossCools
<1>1. IInv => LossCools
  BY DEF IInv, FallbackActivates, CriticalCooled, LossCools, Indices, Critical
<1> QED BY <1>1, Inductive, PTL

\* An active fault that forces the maximum or asks for a shutdown, and a zone
\* at SHUTDOWN, hold every actuator they concern at pwm_max.
THEOREM ForcedHolds == Spec => []ForcedHoldsMax
<1>1. IInv => ForcedHoldsMax
  BY DEF IInv
<1> QED BY <1>1, Inductive, PTL

\* The reason code of an actuator agrees with its duty, the latch and the
\* faults.
THEOREM ReasonIsTrue == Spec => []ReasonTruthful
<1>1. IInv => ReasonTruthful
  BY DEF IInv
<1> QED BY <1>1, Inductive, PTL

\* The shutdown latch never rises in silence, and no shutdown event leaves it
\* down when every sensor belongs to a zone and there is an actuator.
THEOREM ShutdownIsAnnounced ==
  ASSUME \A s \in Sensors : \E z \in Zones : s \in ZoneSensors[z], Actuators # {}
  PROVE  Spec => ShutdownAnnounced
<1> DEFINE Agree == /\ ~ shutdown /\ shutdown' => announced' # {}
                    /\ announced' # announced /\ announced' # {} => shutdown'
<1>1. IInv /\ [Next]_vars => [Agree]_vars
  <2> SUFFICES ASSUME IInv, [Next]_vars PROVE [Agree]_vars
    OBVIOUS
  <2>1. CASE Steps
    <3>1. PICK left, m, new : \E modifier \in Modifiers, pid \in PidOutputs :
            /\ Settled(left, m, new, modifier)
            /\ Settle(left, m, Asked(m, modifier, pid), new, modifier, pid)
      BY <2>1, StepsSettle
    <3>2. /\ announced' = AnnouncementsOfZones(m) \cup AnnouncementsOfFaults(new)
          /\ shutdown' = ShutdownLatched(m, new) /\ m \in Masks
      BY <3>1, SettleParts DEF Settled
    <3> DEFINE byKind == UNION {Raised(k, new) : k \in {j \in Kinds : RequestsShutdown(j)}}
               escalating == {<<"RUNAWAY", z>> : z \in {y \in Escalating(new) : ~ escalated[y]}}
    <3>3. AnnouncementsOfFaults(new) = byKind \cup escalating
      BY DEF AnnouncementsOfFaults
    <3>4. \A e : e \in byKind <=> \E k \in Kinds : RequestsShutdown(k) /\ e \in Raised(k, new)
      BY Zenon
    <3>5. ASSUME ~ shutdown, shutdown' PROVE announced' # {}
      <4>1. ASSUME NEW z \in Zones, ZoneSeverity(z, m[z]) >= Shutdown
            PROVE  AnnouncementsOfZones(m) # {}
        <5>1. severity[z] \in 0 .. 3
          BY ZoneSeverityBounds DEF IInv, Domains, Masks
        <5>2. severity[z] < Shutdown
          BY <3>5, <5>1 DEF IInv, LatchKept, Shutdown
        <5> QED BY <4>1, <5>2 DEF AnnouncementsOfZones
      <4>2. ASSUME NEW k \in Kinds, RequestsShutdown(k), NEW x \in ActiveTargets(k, new),
                   NEW a \in Affected(k, x)
            PROVE  AnnouncementsOfFaults(new) # {}
        <5>1. x \notin ActiveTargets(k, fault)
          BY <3>5, <4>2 DEF IInv, LatchKept
        <5>2. fault[k][x].state = "NORMAL"
          BY <4>2, <5>1 DEF ActiveTargets, FaultActive
        <5>3. <<k, x>> \in Raised(k, new)
          BY <4>2, <5>2 DEF Raised
        <5>4. <<k, x>> \in byKind
          BY <3>4, <4>2, <5>3
        <5> HIDE DEF byKind, escalating
        <5> QED BY <3>3, <5>4
      <4>3. ASSUME NEW z \in Escalating(new)
            PROVE  AnnouncementsOfFaults(new) # {}
        <5>1. ~ escalated[z]
          BY <3>5, <4>3 DEF IInv, LatchKept, Escalating, ActiveTargets, Targets
        <5>2. <<"RUNAWAY", z>> \in escalating
          BY <5>1
        <5> HIDE DEF byKind, escalating
        <5> QED BY <3>3, <5>2
      <4>4. \/ \E z \in Zones : ZoneSeverity(z, m[z]) >= Shutdown
            \/ ShutdownActions(new) # {}
        BY <3>2, <3>5 DEF ShutdownLatched
      <4>5. CASE ShutdownActions(new) # {}
        <5>1. PICK a \in ShutdownActions(new) : TRUE
          BY <4>5
        <5>2. \/ \E k \in Kinds : RequestsShutdown(k)
                                  /\ \E x \in ActiveTargets(k, new) : a \in Affected(k, x)
              \/ \E z \in Escalating(new) : a \in ZoneActuators[z]
          BY <5>1 DEF ShutdownActions
        <5>3. AnnouncementsOfFaults(new) # {}
          BY <4>2, <4>3, <5>2
        <5> QED BY <3>2, <5>3
      <4> QED BY <3>2, <4>1, <4>4, <4>5
    <3>6. ASSUME announced' # {} PROVE shutdown'
      <4>1. CASE AnnouncementsOfZones(m) # {}
        BY <3>2, <4>1 DEF AnnouncementsOfZones, ShutdownLatched
      <4>2. ASSUME NEW k \in Kinds, NEW x \in ActiveTargets(k, new) PROVE Affected(k, x) # {}
        <5>1. x \in Targets[k]
          BY DEF ActiveTargets
        <5>2. CASE k = "STUCK"
          <6>1. PICK z \in Zones : x \in ZoneSensors[z]
            BY <5>1, <5>2 DEF Targets, Kinds
          <6>2. PICK a \in ZoneActuators[z] : TRUE
            BY ConfigFacts
          <6> DEFINE of == {ZoneActuators[y] : y \in {y \in Zones : x \in ZoneSensors[y]}}
          <6>3. ZoneActuators[z] \in of /\ a \in ZoneActuators[z]
            BY <6>1, <6>2
          <6>4. Affected(k, x) = UNION of
            BY <5>2 DEF Affected
          <6> HIDE DEF of
          <6> QED BY <6>3, <6>4
        <5>3. CASE k # "STUCK"
          BY <5>1, <5>3, ConfigFacts DEF Kinds, Targets, Affected
        <5> QED BY <5>2, <5>3
      <4>3. ASSUME NEW e \in byKind PROVE ShutdownActions(new) # {}
        <5>1. PICK k \in Kinds : RequestsShutdown(k) /\ e \in Raised(k, new)
          BY <3>4
        <5>2. PICK x \in ActiveTargets(k, new) : TRUE
          BY <5>1 DEF Raised
        <5>3. k \in Kinds /\ RequestsShutdown(k)
          BY <5>1
        <5> QED BY <4>2, <5>2, <5>3, ShutdownSources
      <4>4. ASSUME NEW e \in escalating PROVE ShutdownActions(new) # {}
        <5>1. PICK z \in Escalating(new) : TRUE
          OBVIOUS
        <5>2. ZoneActuators[z] # {}
          BY ConfigFacts DEF Escalating, ActiveTargets, Targets
        <5> QED BY <5>1, <5>2, ShutdownSources
      <4>5. CASE AnnouncementsOfFaults(new) # {}
        <5>1. ShutdownActions(new) # {}
          <6> HIDE DEF byKind, escalating
          <6> QED BY <3>3, <4>3, <4>4, <4>5
        <5> QED BY <3>2, <5>1 DEF ShutdownLatched
      <4> QED BY <3>2, <3>6, <4>1, <4>5
    <3> QED BY <3>5, <3>6
  <2>2. ASSUME NEW k \in Kinds, NEW x \in Targets[k], ClearFault(k, x) PROVE Agree
    BY <2>2 DEF ClearFault
  <2> QED BY <2>1, <2>2 DEF Next
<1> QED BY <1>1, Inductive, PTL DEF Spec, ShutdownAnnounced

-----------------------------------------------------------------------------
(* Gentle changes, of all actuators at once. *)

\* What a step makes of one actuator's path.
LEMMA PathDriven ==
  ASSUME Steps, NEW a \in Actuators
  PROVE  \E modifier \in Modifiers, pid \in PidOutputs : \E m \in Masks : \E new :
           /\ mask' = m /\ fault' = new
           /\ path'[a] = NewPath(a, IF a \in Forced(m, new) THEN ActCfg[a].pwmMax
                                    ELSE Asked(m, modifier, pid)[a],
                                 a \in Overridden(m, new))
<1>1. PICK left, m, new : \E modifier \in Modifiers, pid \in PidOutputs :
        /\ Settled(left, m, new, modifier)
        /\ Settle(left, m, Asked(m, modifier, pid), new, modifier, pid)
  BY StepsSettle
<1>2. PICK modifier \in Modifiers, pid \in PidOutputs :
        /\ Settled(left, m, new, modifier)
        /\ Settle(left, m, Asked(m, modifier, pid), new, modifier, pid)
  BY <1>1
<1> DEFINE forced == Forced(m, new)
           safe == Overridden(m, new)
           asked == Asked(m, modifier, pid)
           req(b) == IF b \in forced THEN ActCfg[b].pwmMax ELSE asked[b]
<1>3. path' = [b \in Actuators |-> NewPath(b, req(b), b \in safe)]
  BY <1>2 DEF Settle
<1>4. m \in Masks /\ mask' = m /\ fault' = new
  BY <1>2, SettleParts DEF Settled
<1> HIDE DEF forced, safe, asked, req
<1>5. path'[a] = NewPath(a, req(a), a \in safe)
  BY <1>3
<1> QED BY <1>4, <1>5 DEF forced, safe, asked, req

\* The request of a step to an actuator, and whether it is an override.
LEMMA StepRequests ==
  ASSUME Steps, NEW a \in Actuators
  PROVE  \E req \in 0 .. MaxPwm, safe \in BOOLEAN :
           /\ path'[a] = NewPath(a, req, safe)
           /\ safe = (a \in Overridden(mask', fault'))
<1>1. PICK modifier \in Modifiers, pid \in PidOutputs : \E m \in Masks : \E new :
        /\ mask' = m /\ fault' = new
        /\ path'[a] = NewPath(a, IF a \in Forced(m, new) THEN ActCfg[a].pwmMax
                                 ELSE Asked(m, modifier, pid)[a],
                              a \in Overridden(m, new))
  BY PathDriven
<1>2. PICK m \in Masks, new \in {fault'} :
        /\ mask' = m /\ fault' = new
        /\ path'[a] = NewPath(a, IF a \in Forced(m, new) THEN ActCfg[a].pwmMax
                                 ELSE Asked(m, modifier, pid)[a],
                              a \in Overridden(m, new))
  BY <1>1
<1> DEFINE req == IF a \in Forced(m, new) THEN ActCfg[a].pwmMax ELSE Asked(m, modifier, pid)[a]
           safe == a \in Overridden(m, new)
<1>3. req \in 0 .. MaxPwm
  BY AskedBounds, ConfigFacts
<1>4. safe \in BOOLEAN /\ safe = (a \in Overridden(mask', fault'))
  BY <1>2
<1>5. path'[a] = NewPath(a, req, safe)
  BY <1>2
<1> HIDE DEF req, safe
<1> QED BY <1>3, <1>4, <1>5

\* Between steps every duty is within its actuator's maximum, and an open
\* spin-up window within the configured one.
PathsConfigured ==
  \A a \in Actuators :
    /\ path[a].duty \in 0 .. MaxPwm /\ path[a].duty <= ActCfg[a].pwmMax
    /\ path[a].spinup \in 0 .. ActCfg[a].spinupTicks

\* What the configuration of an actuator says of its numbers.
LEMMA PathNumbers ==
  ASSUME NEW a \in Actuators
  PROVE  /\ MaxPwm \in Nat /\ MaxTicks \in Nat
         /\ ActCfg[a].pwmMin \in 0 .. MaxPwm /\ ActCfg[a].pwmMax \in 0 .. MaxPwm
         /\ ActCfg[a].pwmMin <= ActCfg[a].pwmMax
         /\ ActCfg[a].slew \in 0 .. MaxPwm /\ ActCfg[a].spinupTicks \in 0 .. MaxTicks
         /\ ActCfg[a].spinupPwm \in 0 .. MaxPwm
         /\ ActCfg[a].spinupTicks > 0 =>
              ActCfg[a].pwmMin <= ActCfg[a].spinupPwm /\ ActCfg[a].spinupPwm <= ActCfg[a].pwmMax
<1> DEFINE c == ActCfg[a]
<1>1. MaxPwm \in Nat /\ MaxTicks \in Nat
  BY TypeAssumption
<1>2. A(a)!ConfigLegal(c)
  BY ConfigAssumption DEF ConfigAccepted
<1>3. /\ c.pwmMin \in 0 .. MaxPwm /\ c.pwmMax \in 0 .. MaxPwm /\ c.pwmMin <= c.pwmMax
      /\ c.slew \in 0 .. MaxPwm /\ c.spinupTicks \in 0 .. MaxTicks /\ c.spinupPwm \in 0 .. MaxPwm
      /\ c.spinupTicks > 0 => c.spinupPwm \in c.pwmMin .. c.pwmMax
  BY <1>2 DEF A!ConfigLegal
<1> HIDE DEF c
<1>4. c.spinupTicks > 0 => c.pwmMin <= c.spinupPwm /\ c.spinupPwm <= c.pwmMax
  BY <1>1, <1>3
<1> QED BY <1>1, <1>3, <1>4 DEF c

\* A window is a whole one or what is left of the last.
LEMMA WindowBounds ==
  ASSUME PathsConfigured, NEW a \in Actuators, NEW req, NEW safe
  PROVE  /\ A(a)!Window(A(a)!Dwell(req, safe)) \in 0 .. ActCfg[a].spinupTicks
         /\ A(a)!NextSpinup(req, safe) \in 0 .. ActCfg[a].spinupTicks
<1> DEFINE window == A(a)!Window(A(a)!Dwell(req, safe))
<1>1. ActCfg[a].spinupTicks \in Nat /\ path[a].spinup \in 0 .. ActCfg[a].spinupTicks
  BY PathNumbers DEF PathsConfigured
<1>2. window \in 0 .. ActCfg[a].spinupTicks
  BY <1>1 DEF A!Window
<1>3. A(a)!NextSpinup(req, safe) = IF window > 0 THEN window - 1 ELSE 0
  BY DEF A!NextSpinup
<1> HIDE DEF window
<1>4. A(a)!NextSpinup(req, safe) \in 0 .. ActCfg[a].spinupTicks
  BY <1>1, <1>2, <1>3
<1> QED BY <1>2, <1>4 DEF window

\* What slew makes of a target: no more than the limit down; up no more,
\* unless the limit is lifted and the target reached.
LEMMA SlewBounds ==
  ASSUME PathsConfigured, NEW a \in Actuators, ActCfg[a].slew > 0,
         NEW target \in 0 .. MaxPwm, NEW up \in BOOLEAN
  PROVE  /\ A(a)!Slew(target, up) \in 0 .. MaxPwm
         /\ path[a].duty - A(a)!Slew(target, up) <= ActCfg[a].slew
         /\ \/ A(a)!Slew(target, up) - path[a].duty <= ActCfg[a].slew
            \/ up /\ A(a)!Slew(target, up) = target
BY PathNumbers DEF PathsConfigured, A!Slew

\* What the clamp makes of a slewed duty: it stays, or goes up to pwm_min, or
\* down to pwm_max.
LEMMA ClampBounds ==
  ASSUME NEW a \in Actuators, NEW d \in 0 .. MaxPwm, NEW off
  PROVE  \/ A(a)!Clamp(d, off) = d
         \/ A(a)!Clamp(d, off) = ActCfg[a].pwmMin /\ d < ActCfg[a].pwmMin
         \/ A(a)!Clamp(d, off) = ActCfg[a].pwmMax /\ d > ActCfg[a].pwmMax
BY PathNumbers DEF A!Clamp

\* A tick of a path is gentle unless it is an override.
LEMMA PathIsGentle ==
  ASSUME PathsConfigured, NEW a \in Actuators, ActCfg[a].slew > 0,
         NEW req \in 0 .. MaxPwm, NEW safe \in BOOLEAN
  PROVE  LET d == A(a)!NextDuty(req, safe)
         IN  /\ path[a].duty - d <= ActCfg[a].slew
             /\ \/ d - path[a].duty <= ActCfg[a].slew
                \/ safe \/ d = ActCfg[a].spinupPwm \/ d = ActCfg[a].pwmMin
<1> DEFINE c == ActCfg[a]
           held == A(a)!Dwell(req, safe)
           boost == A(a)!Boosted(held)
           target == A(a)!Target(held)
           slewed == A(a)!Slew(target, safe \/ boost)
           d == A(a)!NextDuty(req, safe)
<1>1. /\ MaxPwm \in Nat /\ c.slew \in 0 .. MaxPwm /\ c.pwmMin \in 0 .. MaxPwm
      /\ c.pwmMax \in 0 .. MaxPwm /\ c.pwmMin <= c.pwmMax /\ c.spinupPwm \in 0 .. MaxPwm
      /\ path[a].duty \in 0 .. MaxPwm /\ path[a].duty <= c.pwmMax
  BY PathNumbers DEF PathsConfigured
<1>2. held \in 0 .. MaxPwm
  BY <1>1 DEF A!Dwell
<1>3. boost \in BOOLEAN /\ (boost => c.pwmMin <= c.spinupPwm /\ c.spinupPwm <= c.pwmMax)
  <2>1. A(a)!Window(held) \in 0 .. c.spinupTicks /\ c.spinupTicks \in Nat
    BY WindowBounds, PathNumbers
  <2>2. boost = (A(a)!Window(held) > 0 /\ c.spinupPwm > held)
    BY DEF A!Boosted
  <2>3. boost => c.spinupTicks > 0
    <3> DEFINE window == A(a)!Window(held)
    <3>1. window \in 0 .. c.spinupTicks /\ c.spinupTicks \in Nat /\ (boost => window > 0)
      BY <2>1, <2>2
    <3> HIDE DEF window, boost
    <3> QED BY <3>1
  <2> QED BY <2>2, <2>3, PathNumbers
<1>4. target = IF boost THEN c.spinupPwm ELSE held
  BY DEF A!Target
<1>5. d = A(a)!Clamp(slewed, target = 0)
  BY DEF A!NextDuty
<1> HIDE DEF held, boost, target, d
<1>6. target \in 0 .. MaxPwm
  BY <1>1, <1>2, <1>3, <1>4
<1>7. /\ slewed \in 0 .. MaxPwm /\ path[a].duty - slewed <= c.slew
      /\ slewed - path[a].duty <= c.slew \/ ((safe \/ boost) /\ slewed = target)
  BY <1>3, <1>6, SlewBounds
<1> HIDE DEF slewed
<1>8. \/ d = slewed
      \/ d = c.pwmMin /\ slewed < c.pwmMin
      \/ d = c.pwmMax /\ slewed > c.pwmMax
  BY <1>5, <1>7, ClampBounds
<1>9. path[a].duty - d <= c.slew
  BY <1>1, <1>7, <1>8
<1>10. \/ d - path[a].duty <= c.slew
       \/ safe \/ d = c.spinupPwm \/ d = c.pwmMin
  BY <1>1, <1>3, <1>4, <1>7, <1>8
<1> QED BY <1>9, <1>10 DEF d

\* The windows and duties stay so.
LEMMA PathsStayConfigured == Spec => []PathsConfigured
<1>1. Init => PathsConfigured
  <2> SUFFICES ASSUME Init, NEW a \in Actuators
               PROVE  /\ path[a].duty \in 0 .. MaxPwm /\ path[a].duty <= ActCfg[a].pwmMax
                      /\ path[a].spinup \in 0 .. ActCfg[a].spinupTicks
    BY DEF PathsConfigured
  <2> QED BY PathNumbers DEF Init
<1>2. PathsConfigured /\ [Next]_vars => PathsConfigured'
  <2> SUFFICES ASSUME PathsConfigured, [Next]_vars, NEW a \in Actuators
               PROVE  /\ path'[a].duty \in 0 .. MaxPwm /\ path'[a].duty <= ActCfg[a].pwmMax
                      /\ path'[a].spinup \in 0 .. ActCfg[a].spinupTicks
    BY DEF PathsConfigured
  <2>1. CASE Steps
    <3>1. PICK req \in 0 .. MaxPwm, safe \in BOOLEAN : path'[a] = NewPath(a, req, safe)
      BY <2>1, StepRequests
    <3>2. path[a].duty \in 0 .. MaxPwm
      BY DEF PathsConfigured
    <3>3. path'[a].duty = A(a)!NextDuty(req, safe) /\ path'[a].spinup = A(a)!NextSpinup(req, safe)
      BY <3>1 DEF NewPath
    <3> QED BY <3>2, <3>3, PathBounds, WindowBounds
  <2>2. CASE UNCHANGED path
    BY <2>2 DEF PathsConfigured
  <2>3. ASSUME NEW k \in Kinds, NEW x \in Targets[k], ClearFault(k, x) PROVE UNCHANGED path
    BY <2>3 DEF ClearFault
  <2>4. CASE UNCHANGED vars
    BY <2>2, <2>4 DEF vars
  <2> QED BY <2>1, <2>2, <2>3, <2>4 DEF Next
<1> QED BY <1>1, <1>2, PTL DEF Spec

\* No actuator's duty falls faster than its slew limit, whatever zones,
\* faults, cap and clears do to it, and one that rises faster is overridden on
\* that tick, is boosted, or takes the step to pwm_min.
DutiesGentle ==
  [][\A a \in Actuators : ActCfg[a].slew > 0 =>
       /\ path[a].duty - path'[a].duty <= ActCfg[a].slew
       /\ \/ path'[a].duty - path[a].duty <= ActCfg[a].slew
          \/ a \in Overridden(mask', fault')
          \/ path'[a].duty = ActCfg[a].spinupPwm \/ path'[a].duty = ActCfg[a].pwmMin]_vars

\* Steps and clears change every duty gently.
THEOREM DutiesChangeGently == Spec => DutiesGentle
<1> DEFINE Gentle == \A a \in Actuators : ActCfg[a].slew > 0 =>
             /\ path[a].duty - path'[a].duty <= ActCfg[a].slew
             /\ \/ path'[a].duty - path[a].duty <= ActCfg[a].slew
                \/ a \in Overridden(mask', fault')
                \/ path'[a].duty = ActCfg[a].spinupPwm \/ path'[a].duty = ActCfg[a].pwmMin
<1>1. PathsConfigured /\ [Next]_vars => [Gentle]_vars
  <2> SUFFICES ASSUME PathsConfigured, Next, NEW a \in Actuators, ActCfg[a].slew > 0
               PROVE  /\ path[a].duty - path'[a].duty <= ActCfg[a].slew
                      /\ \/ path'[a].duty - path[a].duty <= ActCfg[a].slew
                         \/ a \in Overridden(mask', fault')
                         \/ path'[a].duty = ActCfg[a].spinupPwm
                         \/ path'[a].duty = ActCfg[a].pwmMin
    OBVIOUS
  <2>1. CASE Steps
    <3>1. PICK req \in 0 .. MaxPwm, safe \in BOOLEAN :
            path'[a] = NewPath(a, req, safe) /\ safe = (a \in Overridden(mask', fault'))
      BY <2>1, StepRequests
    <3>2. path'[a].duty = A(a)!NextDuty(req, safe)
      BY <3>1 DEF NewPath
    <3> QED BY <3>1, <3>2, PathIsGentle
  <2>2. ASSUME NEW k \in Kinds, NEW x \in Targets[k], ClearFault(k, x) PROVE path' = path
    BY <2>2 DEF ClearFault
  <2>3. path[a].duty \in 0 .. MaxPwm /\ ActCfg[a].slew \in Nat /\ MaxPwm \in Nat
    BY PathNumbers DEF PathsConfigured
  <2>4. CASE path' = path
    BY <2>3, <2>4
  <2> QED BY <2>1, <2>2, <2>4 DEF Next
<1> QED BY <1>1, PathsStayConfigured, PTL DEF Spec, DutiesGentle

-----------------------------------------------------------------------------
(* What the parts of the core promise by themselves they promise in the     *)
(* core: one actuator, whichever, is an ActuatorPath, and one detector,     *)
(* whichever, is a FaultDetector.  The core does not keep all that those    *)
(* modules look at; history variables, which a step only writes, do.  A     *)
(* step always finds what to write: PathDriven and MachineTicked say so.    *)

CONSTANTS Watch,                \* an actuator
          WatchKind, WatchTarget \* a detector

VARIABLES request, override, lasted,    \* of ActuatorPath, for Watch
          event, status, hot, quiet     \* of FaultDetector

pathHistory    == <<request, override, lasted>>
machineHistory == <<event, status, hot, quiet>>

\* The path of the actuator.
W == INSTANCE ActuatorPath WITH
  Configs <- {ActCfg[Watch]}, cfg <- ActCfg[Watch],
  duty <- path[Watch].duty, onTicks <- path[Watch].on, offTicks <- path[Watch].off,
  spinup <- path[Watch].spinup

\* What a kind's machines are configured with, without `enabled`.
MachineCfg(k) ==
  [persist  |-> FsmCfg(k).persist,  recovery |-> FsmCfg(k).recovery,
   severity |-> FsmCfg(k).severity, action   |-> FsmCfg(k).action]

\* The detector; run lengths stop one above the counters.
D == INSTANCE FaultDetector WITH
  MachineConfigs <- FsmConfigs, Horizon <- CounterMax + 1,
  machineCfg <- MachineCfg(WatchKind), d <- fault[WatchKind][WatchTarget]

\* Steps 7 to 9 of this tick: what they ask of the actuator and whether it is
\* an override.
RecordPath ==
  /\ \E modifier \in Modifiers, pid \in PidOutputs :
       request' = IF Watch \in Forced(mask', fault') THEN ActCfg[Watch].pwmMax
                  ELSE Asked(mask', modifier, pid)[Watch]
  /\ override' = (Watch \in Overridden(mask', fault'))
  /\ path'[Watch] = NewPath(Watch, request', override')
  /\ lasted' = IF (path'[Watch].duty > 0) # (path[Watch].duty > 0) THEN 1
               ELSE IF lasted < MaxTicks THEN lasted + 1 ELSE lasted

\* A tick of the detector; one of a disabled kind is not stepped.
RecordTick ==
  IF faults[WatchKind].enabled
  THEN \E active \in BOOLEAN :
         /\ fault'[WatchKind][WatchTarget] =
              FsmTick(fault[WatchKind][WatchTarget], active, FsmCfg(WatchKind))
         /\ event' = TransitionEvent(fault[WatchKind][WatchTarget].state,
                                     fault'[WatchKind][WatchTarget].state)
         /\ status' = "none"
         /\ hot'   = IF active THEN D!Longer(hot) ELSE 0
         /\ quiet' = IF active THEN 0 ELSE D!Longer(quiet)
  ELSE UNCHANGED machineHistory

\* A clear of the detector, or of another.
RecordClear(k, x) ==
  IF k = WatchKind /\ x = WatchTarget
  THEN event' = "COMMAND_APPLIED" /\ status' = "OK" /\ UNCHANGED <<hot, quiet>>
  ELSE UNCHANGED machineHistory

\* The core with its history.
RecordedInit ==
  /\ Init
  /\ request = 0 /\ override = FALSE /\ lasted = ActCfg[Watch].minOff
  /\ event = "none" /\ status = "none" /\ hot = 0 /\ quiet = 0

RecordedNext ==
  \/ Steps /\ RecordPath /\ RecordTick
  \/ \E k \in Kinds : \E x \in Targets[k] :
       ClearFault(k, x) /\ RecordClear(k, x) /\ UNCHANGED pathHistory

recordedVars == <<vars, pathHistory, machineHistory>>

RecordedSpec == RecordedInit /\ [][RecordedNext]_recordedVars

\* What a step makes of one detector: a tick with some condition, or nothing
\* when its kind is disabled.
LEMMA MachineTicked ==
  ASSUME Steps, NEW k \in Kinds, NEW x \in Targets[k]
  PROVE  /\ faults' = faults
         /\ faults[k].enabled =>
              \E active \in BOOLEAN : fault'[k][x] = FsmTick(fault[k][x], active, FsmCfg(k))
         /\ ~ faults[k].enabled => fault'[k][x] = fault[k][x]
<1>1. PICK reading \in [Sensors -> Temps \cup {NoSample}], modifier \in Modifiers, pid \in PidOutputs,
           stall \in SUBSET Watched("STALL"), stuck \in SUBSET Watched("STUCK"),
           runaway \in SUBSET Watched("RUNAWAY"), stale \in SUBSET Watched("STALE") :
        Step(reading, modifier, pid,
             [STALL |-> stall, STUCK |-> stuck, RUNAWAY |-> runaway, STALE |-> stale])
  BY DEF Steps
<1> DEFINE seen == [STALL |-> stall, STUCK |-> stuck, RUNAWAY |-> runaway, STALE |-> stale]
<1>2. PICK stucks, left, m, asked, new :
        /\ stucks = Stepped("STUCK", seen["STUCK"])
        /\ asked = Asked(m, modifier, pid)
        /\ new = NewFault(stucks, asked, seen)
        /\ Settle(left, m, asked, new, modifier, pid)
  <2> HIDE DEF seen
  <2> QED BY <1>1 DEF Step, seen
<1>3. fault' = new /\ faults' = faults
  BY <1>2, SettleParts
<1>4. \E conditions : new[k] = Stepped(k, conditions)
  BY <1>2 DEF NewFault, Kinds
<1>5. PICK conditions : new[k] = Stepped(k, conditions)
  BY <1>4
<1>6. new[k][x] = IF faults[k].enabled THEN FsmTick(fault[k][x], x \in conditions, FsmCfg(k))
                  ELSE fault[k][x]
  BY <1>5 DEF Stepped
<1>7. (x \in conditions) \in BOOLEAN
  OBVIOUS
<1>8. fault'[k][x] = new[k][x]
  BY <1>3
<1>9. faults[k].enabled => fault'[k][x] = FsmTick(fault[k][x], x \in conditions, FsmCfg(k))
  BY <1>6, <1>8
<1>10. faults[k].enabled =>
         \E active \in BOOLEAN : fault'[k][x] = FsmTick(fault[k][x], active, FsmCfg(k))
  BY <1>7, <1>9, Zenon
<1>11. ~ faults[k].enabled => fault'[k][x] = fault[k][x]
  BY <1>6, <1>8
<1> QED BY <1>3, <1>10, <1>11

-----------------------------------------------------------------------------
(* The path of the actuator. *)

\* The operators of the path are those the step uses.
LEMMA NewPathIsW ==
  ASSUME NEW req, NEW safe
  PROVE  NewPath(Watch, req, safe) =
           [duty |-> W!NextDuty(req, safe),
            on |-> W!Run(path[Watch].on, W!NextDuty(req, safe) > 0),
            off |-> W!Run(path[Watch].off, W!NextDuty(req, safe) = 0),
            spinup |-> W!NextSpinup(req, safe)]
<1>1. A(Watch)!NextDuty(req, safe) = W!NextDuty(req, safe)
  BY DEF A!NextDuty, A!Dwell, A!Window, A!Boosted, A!Target, A!Slew, A!Clamp,
         W!NextDuty, W!Dwell, W!Window, W!Boosted, W!Target, W!Slew, W!Clamp
<1>2. A(Watch)!NextSpinup(req, safe) = W!NextSpinup(req, safe)
  BY DEF A!NextSpinup, A!Dwell, A!Window, W!NextSpinup, W!Dwell, W!Window
<1>3. \A n, goesOn : A(Watch)!Run(n, goesOn) = W!Run(n, goesOn)
  BY DEF A!Run, W!Run
<1> QED BY <1>1, <1>2, <1>3 DEF NewPath

\* A step of the core is a tick of the path, with a request that is a PWM.
LEMMA StepDrivesPath ==
  ASSUME Watch \in Actuators, Steps, RecordPath
  PROVE  W!Next
<1>1. PICK left, m, new : \E modifier \in Modifiers, pid \in PidOutputs :
        /\ Settled(left, m, new, modifier)
        /\ Settle(left, m, Asked(m, modifier, pid), new, modifier, pid)
  BY StepsSettle
<1>2. m \in Masks /\ mask' = m /\ fault' = new
  BY <1>1, SettleParts DEF Settled
<1>3. PICK modifier \in Modifiers, pid \in PidOutputs :
        request' = IF Watch \in Forced(m, new) THEN ActCfg[Watch].pwmMax
                   ELSE Asked(m, modifier, pid)[Watch]
  BY <1>2 DEF RecordPath
<1>4. request' \in 0 .. MaxPwm
  BY <1>2, <1>3, AskedBounds, ConfigFacts
<1>5. override' \in BOOLEAN
  BY DEF RecordPath
<1>6. path'[Watch] = [duty |-> W!NextDuty(request', override'),
                      on |-> W!Run(path[Watch].on, W!NextDuty(request', override') > 0),
                      off |-> W!Run(path[Watch].off, W!NextDuty(request', override') = 0),
                      spinup |-> W!NextSpinup(request', override')]
  BY NewPathIsW DEF RecordPath
<1>7. W!Drive(request', override')
  <2>1. /\ path'[Watch].duty = W!NextDuty(request', override')
        /\ path'[Watch].on = W!Run(path[Watch].on, path'[Watch].duty > 0)
        /\ path'[Watch].off = W!Run(path[Watch].off, path'[Watch].duty = 0)
        /\ path'[Watch].spinup = W!NextSpinup(request', override')
    BY <1>6
  <2>2. lasted' = IF (path'[Watch].duty > 0) # (path[Watch].duty > 0) THEN 1
                  ELSE IF lasted < MaxTicks THEN lasted + 1 ELSE lasted
    BY DEF RecordPath
  <2> QED BY <2>1, <2>2 DEF W!Drive
<1>8. CASE override'
  BY <1>4, <1>7, <1>8 DEF W!Next, W!Critical
<1>9. CASE ~ override'
  BY <1>4, <1>5, <1>7, <1>9 DEF W!Next, W!Normal
<1> QED BY <1>8, <1>9

\* The configuration of the actuator is one ActuatorPath is about.
LEMMA WatchConfigured ==
  ASSUME Watch \in Actuators
  PROVE  W!ConfigLegal(ActCfg[Watch])
<1>1. A(Watch)!ConfigLegal(ActCfg[Watch])
  BY ConfigAssumption DEF ConfigAccepted
<1> QED BY <1>1 DEF A!ConfigLegal, W!ConfigLegal

\* Every actuator of the core, shared by zones or not, is an ActuatorPath:
\* what is proved of one path holds of each of them under everything the core
\* does (no two zones, no cap, fault or clear makes it jump or cut a dwell).
THEOREM CoreDrivesPath == ASSUME Watch \in Actuators PROVE RecordedSpec => W!Spec
<1>1. RecordedInit => W!Init
  BY DEF RecordedInit, Init, W!Init
<1>2. [RecordedNext]_recordedVars => [W!Next]_(W!vars)
  <2> SUFFICES ASSUME [RecordedNext]_recordedVars PROVE [W!Next]_(W!vars)
    OBVIOUS
  <2>1. CASE Steps /\ RecordPath
    BY <2>1, StepDrivesPath
  <2>2. CASE UNCHANGED <<path, pathHistory>>
    BY <2>2 DEF pathHistory, W!vars
  <2>3. ASSUME NEW k \in Kinds, NEW x \in Targets[k],
               ClearFault(k, x) /\ RecordClear(k, x) /\ UNCHANGED pathHistory
        PROVE  UNCHANGED <<path, pathHistory>>
    BY <2>3 DEF ClearFault
  <2>4. CASE UNCHANGED recordedVars
    BY <2>2, <2>4 DEF recordedVars, vars
  <2> QED BY <2>1, <2>2, <2>3, <2>4 DEF RecordedNext
<1> QED BY <1>1, <1>2, PTL DEF RecordedSpec, W!Spec

-----------------------------------------------------------------------------
(* The machine of the detector. *)

\* The configuration stays the one chosen at the start.
LEMMA FaultsConfigured == Spec => [](faults \in FaultSets)
<1>1. Init => faults \in FaultSets
  BY DEF Init
<1>2. faults \in FaultSets /\ [Next]_vars => (faults \in FaultSets)'
  <2> SUFFICES ASSUME faults \in FaultSets, [Next]_vars PROVE faults' = faults
    OBVIOUS
  <2>1. CASE Steps
    <3>1. PICK left, m, new : \E modifier \in Modifiers, pid \in PidOutputs :
            /\ Settled(left, m, new, modifier)
            /\ Settle(left, m, Asked(m, modifier, pid), new, modifier, pid)
      BY <2>1, StepsSettle
    <3> QED BY <3>1, SettleParts
  <2>2. ASSUME NEW k \in Kinds, NEW x \in Targets[k], ClearFault(k, x) PROVE faults' = faults
    BY <2>2 DEF ClearFault
  <2>3. CASE UNCHANGED vars
    BY <2>3 DEF vars, detectors
  <2> QED BY <2>1, <2>2, <2>3 DEF Next
<1> QED BY <1>1, <1>2, PTL DEF Spec

\* Its machine's configuration is one the shared machine is about; a runaway
\* differs only in its persistence.
LEMMA MachineConfigured ==
  ASSUME WatchKind \in Kinds, faults \in FaultSets
  PROVE  /\ MachineCfg(WatchKind) \in FsmConfigs
         /\ MachineCfg(WatchKind).recovery = faults[WatchKind].recovery
         /\ MachineCfg(WatchKind).action = faults[WatchKind].action
<1>1. faults[WatchKind] \in FaultRecords
  BY FaultAssumption
<1>2. 1 \in Counters
  BY CounterMaxAssumption DEF Counters
<1>3. /\ FsmCfg(WatchKind).persist \in Counters
      /\ FsmCfg(WatchKind).recovery = faults[WatchKind].recovery
      /\ FsmCfg(WatchKind).severity = faults[WatchKind].severity
      /\ FsmCfg(WatchKind).action = faults[WatchKind].action
  BY <1>1, <1>2 DEF FsmCfg, FaultRecords
<1> QED BY <1>1, <1>3 DEF MachineCfg, FaultRecords, FsmConfigs, Counters

\* The machine reads nothing of its configuration but these fields.
LEMMA TickIsD ==
  ASSUME NEW machine, NEW active
  PROVE  FsmTick(machine, active, FsmCfg(WatchKind)) =
           D!FsmTick(machine, active, MachineCfg(WatchKind))
<1>1. /\ ActionToState(FsmCfg(WatchKind)) = D!ActionToState(MachineCfg(WatchKind))
      /\ \A n : Wrapping(n) = D!Wrapping(n) /\ Saturating(n) = D!Saturating(n)
      /\ FsmReset = D!FsmReset
  BY DEF ActionToState, LatchActions, Wrapping, Saturating, FsmReset, MachineCfg,
         D!ActionToState, D!LatchActions, D!Wrapping, D!Saturating, D!FsmReset
<1>2. TickNormal(machine, active, FsmCfg(WatchKind)) =
        D!TickNormal(machine, active, MachineCfg(WatchKind))
  BY <1>1 DEF TickNormal, D!TickNormal, MachineCfg
<1>3. TickActive(machine, active) = D!TickActive(machine, active)
  BY DEF TickActive, D!TickActive
<1>4. TickRecovering(machine, active, FsmCfg(WatchKind)) =
        D!TickRecovering(machine, active, MachineCfg(WatchKind))
  BY <1>1 DEF TickRecovering, D!TickRecovering, MachineCfg
<1>5. TickLatched(machine, active) = D!TickLatched(machine, active)
  BY <1>1 DEF TickLatched, D!TickLatched
<1> QED BY <1>2, <1>3, <1>4, <1>5 DEF FsmTick, D!FsmTick

\* A step of the core is a tick of the machine, or nothing to it.
LEMMA StepTicksMachine ==
  ASSUME WatchKind \in Kinds, WatchTarget \in Targets[WatchKind], Steps, RecordTick
  PROVE  D!MachineNext \/ UNCHANGED D!machineVars
<1>1. faults' = faults
  BY MachineTicked
<1>2. MachineCfg(WatchKind)' = MachineCfg(WatchKind)
  BY <1>1 DEF MachineCfg, FsmCfg
<1>3. CASE faults[WatchKind].enabled
  <2>1. PICK active \in BOOLEAN :
          /\ fault'[WatchKind][WatchTarget] =
               FsmTick(fault[WatchKind][WatchTarget], active, FsmCfg(WatchKind))
          /\ event' = TransitionEvent(fault[WatchKind][WatchTarget].state,
                                      fault'[WatchKind][WatchTarget].state)
          /\ status' = "none"
          /\ hot'   = IF active THEN D!Longer(hot) ELSE 0
          /\ quiet' = IF active THEN 0 ELSE D!Longer(quiet)
    BY <1>3 DEF RecordTick
  <2>2. \A old, now : TransitionEvent(old, now) = D!TransitionEvent(old, now)
    BY DEF TransitionEvent, ActiveStates, D!TransitionEvent, D!ActiveStates
  <2>3. D!Tick(active)
    BY <1>2, <2>1, <2>2, TickIsD DEF D!Tick
  <2> QED BY <2>3 DEF D!MachineNext
<1>4. CASE ~ faults[WatchKind].enabled
  <2>1. fault'[WatchKind][WatchTarget] = fault[WatchKind][WatchTarget] /\ UNCHANGED machineHistory
    BY <1>4, MachineTicked DEF RecordTick
  <2> QED BY <1>2, <2>1 DEF machineHistory, D!machineVars
<1> QED BY <1>3, <1>4

\* A clear that reaches the machine is one the machine may be cleared by; any
\* other is nothing to it.
LEMMA ClearReachesMachine ==
  ASSUME Domains, faults \in FaultSets,
         WatchKind \in Kinds, WatchTarget \in Targets[WatchKind],
         NEW k \in Kinds, NEW x \in Targets[k], ClearFault(k, x), RecordClear(k, x)
  PROVE  D!MachineNext \/ UNCHANGED D!machineVars
<1>1. faults' = faults /\ fault' = [fault EXCEPT ![k][x] = FsmReset]
  BY DEF ClearFault
<1>2. MachineCfg(WatchKind)' = MachineCfg(WatchKind)
  BY <1>1 DEF MachineCfg, FsmCfg
<1>3. /\ fault = [j \in Kinds |-> fault[j]]
      /\ \A j \in Kinds : fault[j] = [y \in Targets[j] |-> fault[j][y]]
  BY DEF Domains
<1>4. CASE k = WatchKind /\ x = WatchTarget
  <2>1. fault'[WatchKind][WatchTarget] = FsmReset
    BY <1>1, <1>3, <1>4
  <2>2. /\ fault[WatchKind][WatchTarget].state = "LATCHED"
        /\ D!ClearAllowed(fault[WatchKind][WatchTarget], MachineCfg(WatchKind))
    BY <1>4, MachineConfigured DEF ClearFault, ClearAllowed, D!ClearAllowed
  <2>3. event' = "COMMAND_APPLIED" /\ status' = "OK" /\ hot' = hot /\ quiet' = quiet
    BY <1>4 DEF RecordClear
  <2>4. D!ClearFault
    BY <1>2, <2>1, <2>2, <2>3 DEF D!ClearFault, FsmReset, D!FsmReset
  <2> QED BY <2>4 DEF D!MachineNext
<1>5. CASE ~ (k = WatchKind /\ x = WatchTarget)
  <2>1. fault'[WatchKind][WatchTarget] = fault[WatchKind][WatchTarget]
    BY <1>1, <1>3, <1>5
  <2>2. UNCHANGED machineHistory
    BY <1>5 DEF RecordClear
  <2> QED BY <1>2, <2>1, <2>2 DEF machineHistory, D!machineVars
<1> QED BY <1>4, <1>5

\* Every detector of the core, enabled or not, is a FaultDetector: what is
\* proved of one machine (persistence, latching, recovery) holds of each of
\* them among the others, with clears for any of them in between.
THEOREM CoreTicksMachine ==
  ASSUME WatchKind \in Kinds, WatchTarget \in Targets[WatchKind]
  PROVE  RecordedSpec => D!MachineSpec
<1>1. RecordedInit => D!MachineInit
  <2> SUFFICES ASSUME RecordedInit PROVE D!MachineInit
    OBVIOUS
  <2>1. fault[WatchKind][WatchTarget] = FsmReset
    BY DEF RecordedInit, Init
  <2>2. MachineCfg(WatchKind) \in FsmConfigs
    BY MachineConfigured DEF RecordedInit, Init
  <2> QED BY <2>1, <2>2 DEF RecordedInit, D!MachineInit, FsmReset, D!FsmReset
<1>2. IInv /\ faults \in FaultSets /\ [RecordedNext]_recordedVars =>
        [D!MachineNext]_(D!machineVars)
  <2> SUFFICES ASSUME IInv, faults \in FaultSets, [RecordedNext]_recordedVars
               PROVE  D!MachineNext \/ UNCHANGED D!machineVars
    OBVIOUS
  <2>1. CASE Steps /\ RecordTick
    BY <2>1, StepTicksMachine
  <2>2. ASSUME NEW k \in Kinds, NEW x \in Targets[k], ClearFault(k, x), RecordClear(k, x)
        PROVE  D!MachineNext \/ UNCHANGED D!machineVars
    BY <2>2, ClearReachesMachine DEF IInv
  <2>3. CASE UNCHANGED recordedVars
    BY <2>3 DEF recordedVars, vars, detectors, machineHistory, D!machineVars, MachineCfg, FsmCfg
  <2> QED BY <2>1, <2>2, <2>3 DEF RecordedNext
<1>3. RecordedInit => Init
  BY DEF RecordedInit
<1>4. [RecordedNext]_recordedVars => [Next]_vars
  BY DEF RecordedNext, recordedVars, Next
<1>5. RecordedSpec => Spec
  BY <1>3, <1>4, PTL DEF RecordedSpec, Spec
<1> QED BY <1>1, <1>2, <1>5, Inductive, FaultsConfigured, PTL DEF RecordedSpec, D!MachineSpec
=============================================================================
