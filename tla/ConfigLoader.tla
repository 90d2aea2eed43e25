------------------------------ MODULE ConfigLoader ------------------------------
(***************************************************************************)
(* platform/linux/config_jsmn.c: the loader that walks the tokens of a JSON *)
(* document twice, in document order, and fills the configuration tables.   *)
(* Pass A reads the sections that give things their names, pass B the rest, *)
(* whose names it looks up in the tables as they are by then.               *)
(*                                                                         *)
(* A document is the sequence of its top-level members [key, value]; a      *)
(* section is a sequence of objects, an object a function from keys to      *)
(* values.  Bad is a value its key's parser refuses: another JSON type, a   *)
(* number outside the range, an unknown enum, a string too long.  A section *)
(* may come twice: its objects are then written over the same slots, and    *)
(* the fields they do not have keep what the first ones left.               *)
(* A refused document leaves a half-filled configuration its caller throws  *)
(* away; here the configuration stays as it was.                            *)
(***************************************************************************)
EXTENDS ConfigRules, SequencesExt, TLC

CONSTANTS Documents,      \* what may be in the file
          Names, Paths,   \* strings that fit a name, a path
          Bad,            \* a value the key's parser refuses
          Null,           \* the JSON null
          Unreadable,     \* a file the tokenizer refuses
          MaxSignals      \* THERMAL_MAX_TELEMETRY_SIGNALS, 128 in the code

MaxSensors   == 8
MaxContexts  == 4
MaxActuators == 2
MaxZones     == 4
MaxModifiers == 2
MaxPerZone   == 4         \* sensors and trips of a zone
MaxPoints    == 8         \* of a curve, a linearization, a baseline

Byte   == 0 .. 255
Uint16 == 0 .. 65535
Int32  == IntMin .. IntMax      \* also stands in for uint32_t
Bool   == 0 .. 1

Lists(set, most) == {s \in Seq(set) : Len(s) <= most}

\* The arrays of a document are finite sequences: the document itself and what
\* stands for a section that is one.
IsSequence(v) == Len(v) \in Nat /\ v = [i \in 1 .. Len(v) |-> v[i]]

Arrays == {"sensors", "context_signals", "actuators", "zones", "policy_modifiers"}

ASSUME DocumentsAssumption ==
  \A d \in Documents \ {Unreadable} :
    /\ IsSequence(d)
    /\ \A i \in 1 .. Len(d) :
         d[i].key \in Arrays /\ d[i].value # Bad => IsSequence(d[i].value)

VARIABLES doc,            \* the document
          pass,           \* "text", "A", "B", then "accepted" or "rejected"
          at,             \* the member to read next
          cfg             \* thermal_config_t, the runtime fields in its slots,
                          \* and state_pwm_lens of the parse context

vars == <<doc, pass, at, cfg>>

NoRows == [slot |-> << >>, count |-> 0]

\* memset of the configuration at the start.
Zeroed ==
  [version |-> 0, period |-> 0, relative |-> 0, sensors |-> NoRows, contexts |-> NoRows,
   actuators |-> NoRows, zones |-> NoRows, modifiers |-> NoRows, lens |-> << >>,
   faults |-> << >>, telemetry |-> << >>, signals |-> << >>, control |-> << >>, hil |-> << >>]

Done(c)    == [ok |-> TRUE, cfg |-> c]
Refused(c) == [ok |-> FALSE, cfg |-> c]

\* The shape all the object parsers share: no unknown key, no required key
\* missing, every value taken by its key.  `nested` are the keys whose values
\* have a parser of their own.
Reads(obj, required, fields, nested) ==
  /\ obj # Bad
  /\ required \subseteq DOMAIN obj
  /\ DOMAIN obj \subseteq DOMAIN fields \cup nested
  /\ \A k \in DOMAIN obj \cap DOMAIN fields : obj[k] \in fields[k]

IsArray(value, most) == value # Bad /\ Len(value) <= most

\* What is written over what was there: an object's fields over the slot's,
\* a section's objects over the table from the first slot on.  What is not
\* written stays, past the new count of a table too.
Overlay(new, old) ==
  [k \in DOMAIN new \cup DOMAIN old |-> IF k \in DOMAIN new THEN new[k] ELSE old[k]]

Old(table, j) == IF j <= Len(table.slot) THEN table.slot[j] ELSE << >>

Written(table, slots) == [slot |-> Overlay(slots, table.slot), count |-> Len(slots)]

All(objs, Good(_)) == \A j \in 1 .. Len(objs) : Good(objs[j])

-----------------------------------------------------------------------------
\* Pass A: sensors, context signals, actuators.
SensorFields ==
  [id |-> Uint16, name |-> Names, iir_alpha_q16 |-> 0 .. IntMax,
   max_staleness_ms |-> 1 .. IntMax, source |-> Paths]

SensorReads(o) == Reads(o, DOMAIN SensorFields \ {"source"}, SensorFields, {})

ContextFields ==
  [id |-> Uint16, name |-> Names, unit |-> {"none", "kmh", "bool", "rpm", "celsius_mc"},
   iir_alpha_q16 |-> 0 .. IntMax, timeout_ms |-> 1 .. IntMax,
   fail_safe |-> {"assume_stationary", "hold_last", "assume_value"},
   source |-> Paths, fail_safe_value |-> Int32]

ContextReads(o) ==
  Reads(o, DOMAIN ContextFields \ {"source", "fail_safe_value"}, ContextFields, {})

SeverityPct == [aging : -100 .. -1, degraded : -100 .. -1, failing : -100 .. -1]

FanHealthFields ==
  [enable |-> Bool, fan_model |-> Names, baseline_source |-> {"field", "factory", "model"},
   baseline |-> Lists(Byte \X (1 .. 65535), MaxPoints),
   stable_pwm_ticks |-> 1 .. 65535, stable_pwm_tolerance |-> Byte,
   stable_rpm_ticks |-> 1 .. 65535, stable_rpm_tolerance_pct |-> 0 .. 100,
   min_points_observed |-> 1 .. MaxPoints, severity_pct |-> SeverityPct]

\* An enabled block needs every field but the fan's model.
FanHealthReads(o) ==
  /\ Reads(o, {}, FanHealthFields, {})
  /\ Field(o, "enable") = 1 => DOMAIN FanHealthFields \ {"fan_model"} \subseteq DOMAIN o

LinearizationPoints == Lists(Byte \X Byte, MaxPoints)

ActuatorRequired == {"id", "name", "pwm_min", "pwm_max", "state_pwm"}

ActuatorFields ==
  [id |-> Uint16, name |-> Names, pwm_min |-> Byte, pwm_max |-> Byte,
   slew_per_tick |-> Byte, spinup_pwm |-> Byte, spinup_ms |-> 0 .. IntMax,
   min_on_ticks |-> Uint16, min_off_ticks |-> Uint16, state_pwm |-> Lists(Byte, MaxStates),
   duty_linearization |-> LinearizationPoints, pwm |-> Paths, tach |-> Paths,
   pwm_freq_hz |-> 0 .. IntMax, tach_pulses_per_rev |-> Uint16]

\* parse_actuator: enabled fan health needs a tach.
ActuatorReads(o) ==
  /\ Reads(o, ActuatorRequired, ActuatorFields, {"fan_health"})
  /\ "fan_health" \in DOMAIN o =>
       /\ FanHealthReads(o.fan_health)
       /\ Field(o.fan_health, "enable") = 1 => "tach" \in DOMAIN o

\* What it writes: the tail of a longer state_pwm stays, the fan health of the
\* slot does not.
ActuatorSlot(o, old) ==
  Overlay([state_pwm |-> Overlay(o.state_pwm, List(old, "state_pwm"))],
          Overlay(o, [k \in DOMAIN old \ {"fan_health"} |-> old[k]]))

\* state_pwm_lens, by slot.
LensWritten(lens, objs) == Overlay([j \in 1 .. Len(objs) |-> Len(objs[j].state_pwm)], lens)

PassA(c, key, value) ==
  LET AsIs(table) == [j \in 1 .. Len(value) |-> Overlay(value[j], Old(table, j))]
  IN  CASE key = "sensors" ->
             IF IsArray(value, MaxSensors) /\ All(value, SensorReads)
             THEN Done([c EXCEPT !.sensors = Written(@, AsIs(@))]) ELSE Refused(c)
        [] key = "context_signals" ->
             IF IsArray(value, MaxContexts) /\ All(value, ContextReads)
             THEN Done([c EXCEPT !.contexts = Written(@, AsIs(@))]) ELSE Refused(c)
        [] key = "actuators" ->
             IF IsArray(value, MaxActuators) /\ All(value, ActuatorReads)
             THEN Done([c EXCEPT !.actuators = Written(@,
                                   [j \in 1 .. Len(value) |-> ActuatorSlot(value[j], Old(@, j))]),
                                 !.lens      = LensWritten(@, value)]) ELSE Refused(c)
        [] OTHER -> Done(c)

-----------------------------------------------------------------------------
\* Pass B: zones.
TripSeverities == [warn |-> Warn, critical |-> Critical, shutdown |-> Shutdown]

\* parse_trip: all four fields, no other.
TripObjects ==
  [temp_mc : Int32, hyst_mc : 0 .. IntMax, severity : DOMAIN TripSeverities,
   cooling_state : 0 .. MaxStates - 1]

Trip(o) ==
  [temp |-> o.temp_mc, hyst |-> o.hyst_mc, severity |-> TripSeverities[o.severity],
   state |-> o.cooling_state]

PidKeys ==
  UNION {{b[1], b[2], b[3]} : b \in PidBounds} \cup {"d_filter_alpha_q16", "dt_min_ms", "dt_max_ms"}

PidFields ==
  [k \in PidKeys |-> IF k \in {"dt_min_ms", "dt_max_ms"} THEN Uint16 ELSE Int32]

PidReads(o) == Reads(o, {}, PidFields, {})

ZoneRequired ==
  {"name", "sensors", "aggregation", "governor", "fallback_temp_mc", "actuators", "trips"}

ZoneFields ==
  [name |-> Names, sensors |-> Lists(Names, MaxPerZone),
   sensor_weights_q16 |-> Lists(Int32, MaxPerZone),
   aggregation |-> {"max", "avg", "weighted"}, fallback_temp_mc |-> Int32,
   governor |-> {"step_wise", "pid"}, actuators |-> Lists(Names, MaxActuators),
   trips |-> Lists(TripObjects, MaxPerZone)]

\* resolve_name_in_*: the id of the first row with that name.
Resolves(table, name) == Has(Rows(table), "name", name)
IdOf(table, name)     == table.slot[SlotOf(Rows(table), "name", name)].id
IdsOf(table, names)   == [i \in 1 .. Len(names) |-> IdOf(table, names[i])]

\* Every state a trip asks for is one the actuators' JSON lists.
TripsListed(c, o) ==
  \A t \in 1 .. Len(o.trips), n \in 1 .. Len(o.actuators) :
    o.trips[t].cooling_state
      < c.lens[SlotOf(Rows(c.actuators), "id", IdOf(c.actuators, o.actuators[n]))]

ZoneReads(c, o) ==
  /\ Reads(o, ZoneRequired, ZoneFields, {"pid"})
  /\ \A i \in 1 .. Len(o.sensors)   : Resolves(c.sensors, o.sensors[i])
  /\ \A i \in 1 .. Len(o.actuators) : Resolves(c.actuators, o.actuators[i])
  /\ "pid" \in DOMAIN o => PidReads(o.pid)
  /\ o.aggregation = "weighted" =>
       "sensor_weights_q16" \in DOMAIN o /\ Len(o.sensor_weights_q16) = Len(o.sensors)
  /\ TripsListed(c, o)

ZoneSlot(c, o, old) ==
  Overlay([sensors   |-> IdsOf(c.sensors, o.sensors),
           actuators |-> IdsOf(c.actuators, o.actuators),
           trips     |-> [t \in 1 .. Len(o.trips) |-> Trip(o.trips[t])],
           pid       |-> Overlay(List(o, "pid"), List(old, "pid"))], Overlay(o, old))

-----------------------------------------------------------------------------
\* Pass B: modifiers and fault detectors.
CurvePointObjects == [x : Int32, value0 : Int32, value1 : Int32]

ModifierFields ==
  [name |-> Names, context |-> Names,
   stages |-> Seq({"pre_governor_trip_offset", "post_governor_pwm_cap"}),
   curve |-> Lists(CurvePointObjects, MaxPoints), fail_safe |-> ContextFields.fail_safe]

ModifierReads(c, o) ==
  Reads(o, DOMAIN ModifierFields, ModifierFields, {}) /\ Resolves(c.contexts, o.context)

ModifierSlot(c, o, old) ==
  Overlay([context |-> IdOf(c.contexts, o.context),
           stages  |-> {o.stages[i] : i \in 1 .. Len(o.stages)}], Overlay(o, old))

DetectorFields ==
  [enabled |-> Bool, severity |-> {"degraded", "critical"},
   action |-> {"none", "mark_degraded", "use_zone_fallback", "force_pwm_max_until_recovered",
               "force_pwm_max_and_latch", "request_shutdown"},
   persist_ticks |-> Uint16, recovery_ticks |-> Uint16]

\* The thresholds, by the kind of detector they are allowed in.
Thresholds ==
  [stall         |-> [stall_rpm |-> Int32, stall_pwm_threshold |-> Int32],
   stuck_sensor  |-> [delta_mc |-> Int32, window_ticks |-> 0 .. IntMax,
                      correlated_delta_threshold |-> 1 .. IntMax],
   runaway       |-> [rise_mc_threshold |-> Int32, cooling_pwm_threshold |-> Int32],
   stale_context |-> << >>]

Correlated(c, o) ==
  IF "correlated_context" \notin DOMAIN o \/ o.correlated_context = Null THEN NoContext
  ELSE IdOf(c.contexts, o.correlated_context)

DetectorSlot(c, o, old) == 
  Overlay([correlated_context |-> Correlated(c, o)], Overlay(o, old))

DetectorReads(c, kind, o, old) ==
  /\ Reads(o, {}, Overlay(DetectorFields, Thresholds[kind]),
           IF kind = "stuck_sensor" THEN {"correlated_context"} ELSE {})
  /\ "correlated_context" \in DOMAIN o =>
       \/ o.correlated_context = Null
       \/ o.correlated_context \in Names /\ Resolves(c.contexts, o.correlated_context)
  /\ Correlated(c, o) # NoContext => Field(DetectorSlot(c, o, old), "correlated_delta_threshold") > 0

FaultsRead(c, value) ==
  /\ value # Bad
  /\ DOMAIN value \subseteq DOMAIN Thresholds
  /\ \A kind \in DOMAIN value : DetectorReads(c, kind, value[kind], List(c.faults, kind))

FaultsWritten(c, value) ==
  Overlay([kind \in DOMAIN value |-> DetectorSlot(c, value[kind], List(c.faults, kind))], c.faults)

-----------------------------------------------------------------------------
\* Pass B: telemetry.  A selector is [family, name]; "*" is the wildcard, and
\* "speed_kmh" is the context "vehicle_speed".
Wildcards ==
  {"zone_temp", "zone_cooling_state", "zone_aggregation_valid", "actuator_pwm",
   "actuator_rpm", "pid_terms", "modifier_pwm_cap", "fan_health"}
Named ==
  {"context", "zone_temp", "zone_aggregation_valid", "actuator_pwm", "actuator_rpm", "pid_terms"}
FaultFamilies == <<"stall", "stuck_sensor", "runaway", "stale_context">>

Terms(family) == IF family \in {"pid_terms", "fan_health"} THEN 4 ELSE 1

Signals(family, slot) ==
  [n \in 1 .. Terms(family) |-> [family |-> family, slot |-> slot, term |-> n]]

EverySlot(c, family) ==
  FlattenSeq([s \in 1 .. c[SignalTable[family]].count |-> Signals(family, s)])

\* telemetry_expand_one: the signals of a selector, none when it is refused.
Expand(c, sel) ==
  CASE sel.name = "*" /\ sel.family = "fault" ->
         FlattenSeq([f \in 1 .. Len(FaultFamilies) |-> EverySlot(c, FaultFamilies[f])])
    [] sel.name = "*" /\ sel.family \in Wildcards -> EverySlot(c, sel.family)
    [] sel.name # "*" /\ sel.family \in Named ->
         LET table == c[SignalTable[sel.family]]
         IN  IF Resolves(table, sel.name)
             THEN Signals(sel.family, SlotOf(Rows(table), "name", sel.name)) ELSE << >>
    [] OTHER -> << >>

TelemetryFields ==
  [enable |-> Bool, period_ticks |-> Uint16, transport |-> Paths]

Expanded(c, value) ==
  FlattenSeq([i \in 1 .. Len(List(value, "signals")) |-> Expand(c, value.signals[i])])

TelemetryReads(c, value) ==
  /\ Reads(value, {}, TelemetryFields, {"signals"})
  /\ "signals" \in DOMAIN value =>
       /\ value.signals # Bad
       /\ \A i \in 1 .. Len(value.signals) :
            value.signals[i] # Bad /\ Expand(c, value.signals[i]) # << >>
       /\ Len(c.signals) + Len(Expanded(c, value)) <= MaxSignals

ControlFields == [listen |-> Paths, enable |-> Bool]
HilFields     == [transport |-> Paths]

PassB(c, key, value) ==
  LET ZoneIsRead(o)          == ZoneReads(c, o)
      ZoneSlots              == [j \in 1 .. Len(value) |-> ZoneSlot(c, value[j], Old(c.zones, j))]
      ModifierIsRead(o)      == ModifierReads(c, o)
      ModifierSlots          == [j \in 1 .. Len(value) |->
                                   ModifierSlot(c, value[j], Old(c.modifiers, j))]
      Number(field) == IF value \in Uint16 THEN Done([c EXCEPT ![field] = value]) ELSE Refused(c)
  IN  CASE key = "config_version"        -> Number("version")
        [] key = "control_period_ms"     -> Number("period")
        [] key = "period_relative_to_ms" -> Number("relative")
        [] key = "zones" ->
             IF IsArray(value, MaxZones) /\ All(value, ZoneIsRead)
             THEN Done([c EXCEPT !.zones = Written(@, ZoneSlots)]) ELSE Refused(c)
        [] key = "policy_modifiers" ->
             IF IsArray(value, MaxModifiers) /\ All(value, ModifierIsRead)
             THEN Done([c EXCEPT !.modifiers = Written(@, ModifierSlots)]) ELSE Refused(c)
        [] key = "fault_detection" ->
             IF FaultsRead(c, value)
             THEN Done([c EXCEPT !.faults = FaultsWritten(c, value)]) ELSE Refused(c)
        [] key = "telemetry" ->
             IF TelemetryReads(c, value)
             THEN Done([c EXCEPT !.telemetry = Overlay(value, @), !.signals = @ \o Expanded(c, value)])
             ELSE Refused(c)
        [] key = "control" ->
             IF Reads(value, {}, ControlFields, {})
             THEN Done([c EXCEPT !.control = Overlay(value, @)]) ELSE Refused(c)
        [] key = "hil" ->
             IF Reads(value, {}, HilFields, {})
             THEN Done([c EXCEPT !.hil = Overlay(value, @)]) ELSE Refused(c)
        [] OTHER -> Refused(c)

-----------------------------------------------------------------------------
\* A bug the code could have: pass A leaves the actuators to pass B.
HandledFirstNoActuators == {"sensors", "context_signals"}

\* The sections pass A reads and pass B skips; pass A skips all others, the
\* unknown ones included.
HandledFirst == {"sensors", "context_signals", "actuators"}

Read(c, p, m) ==
  IF (m.key \in HandledFirst) # (p = "A") THEN Done(c)
  ELSE IF m.key \in {"sensors", "context_signals", "actuators"} THEN PassA(c, m.key, m.value)
  ELSE PassB(c, m.key, m.value)

Keys(d) == {d[i].key : i \in 1 .. Len(d)}

Required(d) == {"config_version", "control_period_ms"} \subseteq Keys(d)

Init ==
  /\ doc \in Documents
  /\ pass = "text" /\ at = 1 /\ cfg = Zeroed

\* jsmn_parse, and its four ways to fail.
Tokenize ==
  /\ pass = "text"
  /\ pass' = IF doc = Unreadable THEN "rejected" ELSE "A"
  /\ UNCHANGED <<doc, at, cfg>>

Pass(p) ==
  /\ pass = p /\ at <= Len(doc)
  /\ LET r == Read(cfg, p, doc[at]) IN
       /\ cfg'  = r.cfg
       /\ at'   = IF r.ok THEN at + 1 ELSE at
       /\ pass' = IF r.ok THEN p ELSE "rejected"
  /\ UNCHANGED doc

NextPass ==
  /\ pass = "A" /\ at > Len(doc)
  /\ pass' = "B" /\ at' = 1
  /\ UNCHANGED <<doc, cfg>>

\* The end of pass B and the semantic gate.
Finish ==
  /\ pass = "B" /\ at > Len(doc)
  /\ pass' = IF Required(doc) /\ Legal(cfg) THEN "accepted" ELSE "rejected"
  /\ UNCHANGED <<doc, at, cfg>>

Next == Tokenize \/ Pass("A") \/ NextPass \/ Pass("B") \/ Finish

Spec == Init /\ [][Next]_vars

-----------------------------------------------------------------------------
Unrepeated(d) == \A i, j \in 1 .. Len(d) : d[i].key = d[j].key => i = j

\* Telemetry selectors are the one thing pass B expands from what it has read
\* so far.
TelemetryAfter(d) ==
  \A i, j \in 1 .. Len(d) :
    d[i].key \in {"zones", "policy_modifiers"} /\ d[j].key = "telemetry" => i < j

\* The section each field of the configuration is filled from.
Section ==
  [version |-> "config_version", period |-> "control_period_ms",
   relative |-> "period_relative_to_ms", sensors |-> "sensors", contexts |-> "context_signals",
   actuators |-> "actuators", lens |-> "actuators", zones |-> "zones",
   modifiers |-> "policy_modifiers", faults |-> "fault_detection", telemetry |-> "telemetry",
   signals |-> "telemetry", control |-> "control", hil |-> "hil"]

MemberOf(d, key) == d[CHOOSE i \in 1 .. Len(d) : d[i].key = key]

\* c takes every section of that name; and what it is then, each field as its
\* section fills it when it comes first.
Takes(c, p, d, keys) ==
  \A i \in 1 .. Len(d) : d[i].key \in keys => Read(c, p, d[i]).ok

Taken(c, p, d, keys) ==
  [f \in DOMAIN c |-> IF Section[f] \in keys \cap Keys(d)
                     THEN Read(c, p, MemberOf(d, Section[f])).cfg[f] ELSE c[f]]

\* The meaning of a document, whatever the order of its members: what has a
\* name, the tables in which these names are looked up, and the signals
\* selected from all of them.
Others(d) == Keys(d) \ (HandledFirst \cup {"telemetry"})
Things(d) == Taken(Zeroed, "A", d, HandledFirst)
Tabled(d) == Taken(Things(d), "B", d, Others(d))
Filled(d) == Taken(Tabled(d), "B", d, {"telemetry"})

Sensible(d) ==
  /\ Takes(Zeroed, "A", d, HandledFirst)
  /\ Takes(Things(d), "B", d, Others(d))
  /\ Takes(Tabled(d), "B", d, {"telemetry"})
  /\ Required(d) /\ Legal(Filled(d))

\* The members of a JSON object have no order: wherever the sections stand,
\* the document is accepted or refused alike, and an accepted one fills the
\* same tables.  Only "telemetry" has to follow what its selectors name.
OrderIrrelevant ==
  pass \in {"accepted", "rejected"} /\ doc # Unreadable =>
    (Unrepeated(doc) /\ TelemetryAfter(doc) =>
       /\ (pass = "accepted") = Sensible(doc)
       /\ pass = "accepted" => cfg = Filled(doc))

\* The last section of that name, as the document has it.
WrittenLast(d, key) == d[Max({i \in 1 .. Len(d) : d[i].key = key})].value

\* An id the core will look up leads to a slot with the name that was written.
LeadsTo(table, id, name) ==
  Has(Rows(table), "id", id) /\ table.slot[SlotOf(Rows(table), "id", id)].name = name

NamesLead(c, d) ==
  "zones" \in Keys(d) =>
    \A z \in 1 .. c.zones.count : LET o == WrittenLast(d, "zones")[z] IN
      /\ \A i \in 1 .. Len(o.sensors) :
           LeadsTo(c.sensors, c.zones.slot[z].sensors[i], o.sensors[i])
      /\ \A i \in 1 .. Len(o.actuators) :
           LeadsTo(c.actuators, c.zones.slot[z].actuators[i], o.actuators[i])

\* thermal-core-prd.md section 5.3: "state_pwm has an entry for every
\* referenced cooling_state", in the text and not in the padding.
StatesListed(c, d) ==
  "zones" \in Keys(d) /\ "actuators" \in Keys(d) =>
    \A z \in 1 .. c.zones.count, i \in 1 .. c.actuators.count : LET o == WrittenLast(d, "actuators")[i] IN
      i \in {SlotOf(Rows(c.actuators), "id", c.zones.slot[z].actuators[n]) :
               n \in 1 .. Len(c.zones.slot[z].actuators)}
      => \A t \in 1 .. Len(c.zones.slot[z].trips) :
           c.zones.slot[z].trips[t].state < Len(o.state_pwm)

\* A configuration the daemon starts with says what the document says, also
\* when a section comes twice: the ids in its zones are those of the sensors
\* and actuators the zone names, and no trip asks for a cooling state its
\* fan's table does not list.
LoadedMeansWritten ==
  pass = "accepted" => NamesLead(cfg, doc) /\ StatesListed(cfg, doc)
=============================================================================
