# thermal-core: a TLA+ development

thermal-core is a fan and thermal controller written in C: a portable core
(`core/`) that turns sensor, context and tach samples into actuator duties once
per control period, a wire protocol (`protocol/`), platforms that run the core
(`platform/linux`, `platform/esp32_idf`, `platform/ch32v003`) and host tools
(`tools/`). This directory holds TLA+ modules of it, the TLC configurations that
check them and the proofs that TLAPS checks. `PROJECT.json` lists the runs, the
theorems, the hazards the properties are aimed at, and the source lines of every
definition.

## The system

### The core

`thermal_core_step` (`core/thermal_core.c`) is called once per control period
with a snapshot of samples and returns a duty for every actuator. It runs ten
steps in a fixed order; `thermal_core_apply_command` runs between two steps. It
is sequential C without allocation: what is hard is not concurrency but the
long sequences of ticks and commands that lead to a state, and the number of
parts that want something from the same actuator.

| part | state | operations | what makes it correct |
|---|---|---|---|
| sensor and context filters (`thermal_filter.c`, steps 3 and 4) | filtered value, validity, time of the last valid sample | a sample, or none, per tick | staleness is noticed on every clock; a gap does not leak an old value |
| modifier (`thermal_modifier.c`, `thermal_curve.c`, steps 5 and 8) | the shadow curve | interpolation, offset on trips, cap on PWM; `CMD_SET_CURVE_POINT` | what lies between two legal points is legal; a cap never holds back safety |
| zones and governors (`thermal_zone.c`, `thermal_governor.c`, step 6) | shadow trips, setpoint, active-trip mask | aggregation, step-wise governor, PID with a safety floor; `CMD_SET_TRIP`, `CMD_SET_SETPOINT` | tuning in any order leaves a legal configuration; a hot or blind zone is cooled |
| PID (`thermal_pid.c`) | gains, integral, last error, filtered derivative, last time | one step per period; `CMD_SET_PID_GAINS` | the integral does not wind up while the output is saturated |
| fault detectors (`thermal_fault.c`, steps 5 and 9) | per detector the shared machine, and a grace window, sample window, ring or age | a tick; `CMD_CLEAR_FAULT` | persistence, latching and recovery count consecutive ticks; no false and no missing report |
| fan health (`thermal_fan_health.c`) | gate, steady window, average and weight per baseline point | a sample per steady tick; advisory only | it grades wear, and nothing but wear |
| arbitration, overrides, shutdown latch, reasons (`thermal_arbitrator.c`, steps 7 to 9) | shutdown latch, reported severities | one request per actuator | the most demanding zone or fault wins; events, latch and reasons agree |
| actuator path (`thermal_slew.c`, step 10) | last duty, on and off ticks, spin-up window | dwell, boost, slew, clamp | immediate overrides, dwells kept, a steady request is reached |
| configuration (`thermal_core_validate_config`) | none after start | accepts or rejects tables | the assumptions of everything above |

### Around the core

| part | state | how it interacts | what is hard |
|---|---|---|---|
| wire codec (`protocol/thermal_wire.c`) | none | frames of header, payload and CRC; used by daemon, HIL link and tools | finding the next frame in a damaged stream |
| Linux daemon (`thermalcored.c`) | clock deadline, sockets | each period: commands, CAN, HIL drain, snapshot, step, writes | late answers to repeated commands, catching up late periods |
| tuning tool (`tools/thermalcore-tune`) | one request, one timeout | a datagram to the daemon's control socket and one back | believing an answer that is for somebody else |
| HIL link (`bsp_hil_serial.c`) and ESP32 peripheral (`esp32_idf/main/main.c`) | receive buffers, sample cache, the duty on the fan | a serial stream up (samples, tach, acknowledgements), duty frames down, two independent loops | damage, loss, blocking writes, restarts of either side, staleness |
| OBD-II (`bsp_socketcan.c`, `protocol/obd2.c`) | last value and its time, next request | a request each second, answers drained each period, feeds a context | a second staleness clock in front of the core's, on a clock that wraps |
| CH32V003 firmware (`platform/ch32v003`) | receive ring, line buffer, loop bypass, tach window | an interrupt fills the ring, the main loop polls it inside its period | ring and line at their limits, control suspended by the bypass |
| sweep (`tools/thermal-telemetry-tool`) | the command it waits on, the table it fills | switches the firmware's loop off, sets duties, reads speeds, switches it on | repeats, late answers, Ctrl-C between any two commands |
| loader (`config_jsmn.c`) | the tables it fills | two passes over the document at start | references by name to sections that stand elsewhere, sections that come twice |
| ESP32 standalone and replay, hash, mock BSP, board drivers, other tools | none across periods | the core in a loop, or pure input and output | |

## Modules

`A <- B` reads "B extends or instantiates A".

    FaultFsm <- FaultDetector
    FaultFsm, ActuatorPath <- FanLoop
    FaultFsm <- StuckSensor, Runaway
    Curve <- FanHealth
    FaultDetector, StuckSensor, Runaway, FanLoop, FanHealth <- Detectors <- MCDetectors
    Filter, FaultFsm <- ContextSignal <- CanContext <- MCCanContext
    Governor, Curve <- ZoneControl <- MCZoneControl
    Curve <- PidLoop
    ZoneControl, PidLoop <- CommandChannel <- MCCommandChannel
    Governor, FaultFsm, ActuatorPath (one per actuator) <- ThermalCore <- MCThermalCore
    HilLink <- MCHilLink
    Ch32Firmware <- SweepTool <- MCSweepTool
    Governor <- ConfigRules <- ConfigLoader <- MCConfigLoader

    Curve <- CommonFacts
    Detectors, CommonFacts <- DetectorsProofs
    CanContext, CommonFacts <- ContextSignalProofs
    CommandChannel, CommonFacts <- CommandChannelProofs
    ThermalCore, FaultDetector, CommonFacts <- ThermalCoreProofs
    HilLink, CommonFacts <- HilLinkProofs
    SweepTool, CommonFacts <- SweepProofs
    ConfigLoader, CommonFacts <- ConfigLoaderProofs

| module | models | correspondence |
|---|---|---|
| `FaultFsm` | `fsm_tick`, `action_to_state`, `clear_allowed`, the event a transition reports | a record [state, persist, recovery] and the function one tick applies to it; `persist_count` wraps, the quiet count of a latched fault saturates, at `CounterMax` for 0xFFFF |
| `FaultDetector` | one detector with an arbitrary condition | `Tick(active)` is `fsm_tick` with its event; `ClearFault` is `CMD_CLEAR_FAULT` with its status. Ghosts `hot` and `quiet` measure the current run of ticks, up to `Horizon` |
| `StuckSensor` | `thermal_fault_stuck_sensor_step` | the window's extremes, counts and context extremes; ghost `recent` keeps the samples themselves |
| `Runaway` | `thermal_fault_runaway_step` and its dispatch in step 9 | ring, head and filled flag; escalation counter; shutdown latch and event |
| `FanLoop` | step 10 with the stall detector and a fan | the fan breaks and is repaired; its tach answers the duty, or no sample comes |
| `FanHealth` | `thermal_fan_health_step` and the inputs step 9 gives it | gate, steady window, averages, score and grade; the fan is good or worn and follows its duty late |
| `Detectors` | the detectors' place in the core | the configuration enables each detector and they share no state: a behaviour has one of them, with the fan where it needs one |
| `Filter`, `ContextSignal` | `thermal_filter_step`; steps 4 and 5 for a context and its stale detector | `now_ms` is modulo `Wrap`; ghost `age` is the true age |
| `CanContext` | `bsp_socketcan_poll`, its cache and timeout, `obd2_decode`, and `wall_clock_next` of the daemon | the free samples of `ContextSignal` replaced by what the cache gives; `lag` is how far `now_ms`, a deadline, is behind the clock; ghosts measure the true age of a speed and the time since a request |
| `Curve`, `Governor` | `curve_eval_axis`; trips, hysteresis, the clauses of `validate_zone` | operators on sequences of points and trips |
| `ZoneControl` | tuning commands against steps 5 and 6 | shadow tables as functions of the zone; each command action has the guard chain of its handler; `last` keeps what the last step used |
| `PidLoop` | `thermal_pid_step_filtered` and `CMD_SET_PID_GAINS` | the function in the order of the code, in units of 1/`One` |
| `CommandChannel` | `drain_commands`, the decoder's verdicts and `thermalcore-tune` | the socket is a bounded queue of datagrams, the tool one request at a time; the way in (`entry`) is direct, network or gains |
| `ActuatorPath` | step 10 for one actuator | `Dwell`, `Window`, `Boosted`, `Slew`, `Clamp` in the order of the code |
| `ThermalCore` | the whole step and `CMD_CLEAR_FAULT` | every named value of the step is an operator of the values before it; `Settle` is what the step assigns; detector conditions, filtered samples, modifier results and PID outputs are inputs; an `ActuatorPath` per actuator |
| `HilLink` | daemon, serial line, ESP32 peripheral | `HostTick` is a period of the daemon, the peripheral's loop has a step per blocking point; frames are header, body and checksum units, a damaged frame keeps only what the decoder can tell |
| `Ch32Firmware` | ring, line editor, parser, bypass, main loop | bytes are tokens; a tach reading is the set of duties it covers |
| `SweepTool` | one invocation of the tool: a command, or the sweep | `send_command`'s repeats and its choice of an answer; Ctrl-C is an action; without a table to write it sends "loop on" and ends as a failure |
| `ConfigRules` | `thermal_core_validate_config` | a named clause per rule, over tables of slots |
| `ConfigLoader` | `config_jsmn.c` | an action per section of a pass; a parser per kind of section, with its fields, ranges, defaults, selectors and references |
| `CommonFacts` | lemmas only | maxima, truncating division, curves, recursion; a tick of the shared machine, by its state |

Left out everywhere: log text, telemetry frames, the meaning of signal
identifiers. Milliseconds are ticks, PWM and temperatures are small integers;
int32 limits are `IntMin` and `IntMax` where the code checks them. Components
meet through what the neighbour promises: `HilLink` lets the core ask for any
duty while the reading is valid and for the fallback's duty otherwise, which is
what `LossCools` says of `ThermalCore`; `ThermalCore` takes modifier results
whose offsets keep tables legal, which `EffectiveTablesLegal` says of
`ZoneControl`.

What the abstractions leave open, module by module:

- `CanContext`: the ECU may answer at any time, asked or not. A poll may end in a
  send or in a receive that fails, and what it has not read stays in the socket;
  `SpeedAgeBounded` is said of runs in which that has not happened,
  `CadenceKept` of runs in which every send went through. The age of a speed is
  bounded by the timeouts and the daemon's lag, not by the clock: after a
  whole wrap of silence an old answer looks fresh again.
- `CommandChannel`: undecodable frames are dropped, an empty datagram ends a
  drain. The tool's sequence numbers are taken as fresh; they are random 16-bit
  numbers in the code, so one late answer in 65536 on a reused port would be
  believed. `CMD_CLEAR_FAULT` is `FaultDetector`'s and `ThermalCore`'s.
- `PidLoop`: an `int32_t` overflow of `temp - setpoint` at the ends of the range
  is left out. The bounds of the gains (`GainMin`, `GainMax`) are any integers, as
  in the code, which takes negative ones.
- `FanHealth`: the fan is assumed to follow a moved duty within a period and a
  start within `StartLag`, which is less than the gate's steady ticks plus the
  spin-up; without that no detector could tell lag from wear. What a grade means
  depends on the thresholds: `WearAssumption` asks of a configuration that one
  steady reading of a good fan lies above its first threshold and one of a worn
  fan does not, also when the speed belongs to another duty of the same window.
  What is left to the detector, and proved, is everything between a reading and
  the grade.
- `Ch32Firmware`: no electrical noise but the loss of bytes; a lost digit turns a
  duty into another one, which the firmware obeys and the tool cannot tell. Bytes
  are lost on the way to the firmware only: its answers arrive whole, late or in
  time, so a row with a digit of its speed missing is not covered.
- `ConfigLoader`: what a refused document leaves in the tables is not kept, its
  caller discards it. jsmn is external. A section may come twice, a key inside
  one JSON object may not: an object is a record of its fields. The meaning a document has without an
  order (`Filled`, `Sensible`) is stated section by section: each field as its
  section fills it on the tables the names in it refer to.

## What the runs check

| run | question | instance and why it is enough |
|---|---|---|
| `detectors` | does a fault go up, latch, recover and clear by consecutive ticks only; is the stuck window what it covers; does only a rise raise a runaway and only a cause shut down; does the stall detector report dead fans and no others while the path drives them; does the grade tell wear? | machine: every action, severity and tick count to 3, so counters wrap and saturate and thresholds 0, 1 and more occur, with a horizon beyond them. Windows of 2 and 3 (4 in `stuck_clear`), with and without a correlated context. Rings of 1 and 3, an idle actuator beside a busy one. Fans with spin-up, slew and both dwells on and off. A baseline of two points, of the unit and of the model |
| `zone_control` | do tuning commands in any order, direct or by datagram, leave legal tables, nested trips and the safety floor; is the tool's verdict true; does the integral stay bounded? | a step-wise and a PID zone behind one curve, so a command to one is checked against the other; temperatures below, in, at and above every dead band; offsets of both signs; three runs of the tool over two ports, so a port is reused while an answer is late; gains of both signs, opposed and alike, inside, above and below their bounds |
| `can_context` | how old a speed may the modifier use behind two timeouts, is a request due whenever it should be, does the detector agree with the modifier? | a clock of 6 ticks, which wraps; a period and a cadence that divides the wrap; timeouts on both sides of the cadence; a daemon one period late; sends that fail and receives that fail after any number of frames |
| `core` | does the composed step cool what is critical or blind, force what faults ask for, and say so? | a step-wise and a PID zone sharing a blower, a sensor in both, caps and offsets; each detector alone, and two at once |
| `hil_link` | can damage become a reading, is silence noticed, does the link heal, do duties get through? | a line that holds more than one frame, so reads cut frames anywhere; a claim as long as the buffer and one longer; restarts of either side at any point |
| `ch32` | does every row of the sweep's table belong to its duty, and does the loop regulate again? | two duties of two and one digits, one byte lost at any place, answers late at any place, two attempts per command, a ring that a repeated command fills, a line limit that a lost end of line exceeds |
| `loader` | does the order of a document's sections change what is loaded, and does what is loaded say what the document says? | one sound configuration with both governors, a modifier and every detector, its sections in every order; one thing wrong in one section; a section twice |
| `zone_fallback`, `fan_dwell`, `stuck_clear`, `can_cadence`, `sweep_interrupt` | see below | the instances of the runs above |

Bounds. Temperatures and PWM values have one value per case the comparisons
distinguish. Counters saturate or wrap at `CounterMax` and `MaxTicks` as they do
at 0xFFFF. Ghosts are capped above every threshold they are compared with
(`Horizon`, `Wrap`, `Patience`). The environment is bounded in `MaxRuns` (runs of
the tuning tool), `QueueLength` and `InboxRoom` (the sockets' queues, whose
overflow is a loss the code meets too), `MaxLoss` (lost bytes), `MaxHaste` (waits
of the tool that end too early), `MaxLag` and `MaxCmds`. No run uses a state
constraint. Deadlock is checked in every run but `loader`, whose program ends.

Fairness. Control steps come from a loop on a timer, so ticks are weakly fair
(`Detectors`). The machine's part adds that an operator who may clear a fault
does so in the end; `EventuallyNormal` is the only property that needs it. In
`HilLink` both loops are weakly fair; starting the daemon is not, and what a
liveness property needs of the environment (the daemon stays up, resets or noise
end) is its hypothesis. In `SweepTool` the interrupt, the poll, the tach window
and the tool's process are weakly fair; that the operator presses Ctrl-C or that
a byte gets lost never is. No fan, line, ECU or sensor is ever assumed to
recover.

### Five statements that the code does not meet

Each of these runs checks one statement of the documents or comments; TLC finds
a behaviour of the code that violates it. A statement weakened by the missing
condition is checked in the passing run beside it.

- `zone_fallback`: the fallback temperature is validated against the trips
  without the modifier's offset (`zone_fallback_reaches_safety_floor`) but
  evaluated against trips the offset has raised, so losing every sensor can
  leave a CRITICAL trip inactive. `UnraisedLossCools` and `LossCools` hold.
- `fan_dwell`: the stall detector's grace window starts with the request and
  runs out while `min_off_ticks` holds the fan off, so a healthy fan is
  reported. `NoFalseStall` holds without `min_off_ticks`.
- `stuck_clear`: a window is judged on the tick that completes it, and every tick
  between two of those is quiet to the state machine. Where `recovery_ticks` is
  less than that distance, a latched stuck-sensor fault is cleared while every
  sample is valid and the same. The run has a window of four samples, judged
  every third tick, and `recovery_ticks` 1: four flat samples latch the fault, one
  more counts as recovery and the clear is taken
  (`test/integration/scenario-config-stuck_sensor.json` has 50 and 10).
  `StuckForeverCaught` says that the fault is then reported again.
- `can_cadence`: the request cadence compares absolute times. When a send fails
  across a wrap of `now_ms`, the next request is due at a time the clock has
  passed, and none goes out for 49 days. The same happens without a failure
  when the period does not divide 1000 ms. `CadenceKept` holds when sends
  succeed and the period fits, whatever is received; `SpeedAgeBounded` holds whatever the requests do,
  while the bus works and the driver's timeout is not read as 0.
- `sweep_interrupt`: after Ctrl-C `send_command` returns before it writes
  anything, so the "loop on" meant to restore regulation is never sent, and the
  tool says it was. `LoopComesBack` holds for sweeps that end by themselves over
  a line that loses nothing, when no wait of the tool ends too early.

### Other differences between documents and code

Noted while modelling; the modules follow the code. `PRD` is
`docs/thermal-core-prd.md`.

Core:

- PRD:620 asks for an event whenever a detector enters or leaves a state. A
  relapse from RECOVERING has none (`emit_fault_transition`).
- PRD:673 lets a clear succeed only when the condition is gone. With
  `recovery_ticks` 0 a latched fault is cleared while it is present.
- PRD:647 asks for a tach above threshold during recovery. A missing tach sample
  counts as quiet.
- PRD:614 describes a boost of at least `spinup_pwm`. The window opens for
  larger requests too, but is then neither a boost nor reported as one, and such
  a start is subject to the slew limit.
- PRD:643 keeps RECOVERING for a signal that is normal again. The stuck-sensor
  detector enters it on the ticks between two flat windows.
- PRD:677 compares samples `persist_ticks` apart and the smallest PWM of the
  actuators. The ring spans `persist_ticks - 1`, and the PWM is the largest of
  the zone's actuators, smallest over the window.
- PRD:673 again: where `recovery_ticks` is 0 a stale context's latched fault may be
  cleared while the context is stale, so `StaleWithinWrap` asks for more than 0.
- PRD:650: an age of a whole round of the 32-bit clock reads as fresh, so a
  fault whose state was lost by then is not raised again until the timeout.
- A stuck sensor that belongs to no zone and asks for shutdown sends the event
  and leaves the latch down (`ShutdownIsAnnounced` has the hypothesis).

HIL link and CAN:

- `bsp_hil_serial.h:50` promises every byte waiting; the drain makes one read of
  the free space. `now_ms` is said to be for log lines only; it dates the
  samples.
- `bsp_hil_serial.c:302`: after a restart of the daemon, frames that waited in
  the peripheral's ring are dated when they are read, so a reading of any age is
  used for up to `max_staleness_ms`. The peripheral, whose writes block for
  ever, drives the last duty all that time.
- `bsp_socketcan.c`: a request refused by a full queue is said to be retried on
  the next tick; the next one is sent a second later. The daemon ignores a poll
  that reports a dead socket and never opens it again.
- `thermalcored.c:870` passes a 32-bit `timeout_ms` to a 16-bit parameter: 65536
  becomes 0, which disables the driver's staleness.

Commands and configuration:

- PRD:976 answers every command with an ACK or a NACK; a datagram the decoder
  rejects gets neither.
- PRD:916 expands selectors after zones are registered. The loader expands them
  where `telemetry` stands: before `zones` or `policy_modifiers` a zone or
  modifier selector is refused, and `fault_*` leaves out the runaway signals in
  silence. `OrderIrrelevant` holds for the other sections.
- PRD §5.3 asks for unique names; duplicates are accepted and resolve to the
  first.
- The curve keys and `control.scope` of the PRD's example are refused, as is
  `mcu_pinmap`; no modifier at all is accepted where the PRD has exactly one.
- A context whose id is 65535 cannot be told from no correlated context.

CH32V003 and sweep:

- One lost byte can make the firmware answer "-err" to "loop on"; the tool takes
  it for the answer and stays silent. After a refused "loop off" it exits without
  restoring anything.
- `--dwell=1` reads the speed of the duty before; `ch32` has the default order
  of wait and window. After a bypass the window of the first control tick is
  over at once (its start dates from before the bypass), so the second tick's
  tach delta, taken for that of a second, counts next to no pulses.

## What is proved

TLAPS proves these for every value of the constants, under the named ASSUMEs of
the modules (ranges and accepted configurations; TLC evaluates them in every
run).

`DetectorsProofs`. Machine, path, runaway and stuck sensor are proved of their
own specifications; `DetectorsImplement` carries that over to the core that has
them all, step by step.

| theorem | argument |
|---|---|
| `MachineTypeCorrect`, `CountersCorrect` | `MachineInv`: the counters alone say nothing of the past, so the invariant ties them to the runs of ticks. One step per state of the machine for a tick, one for the clear |
| `RaiseNeedsPersistence`, `LatchHeld`, `RecoveryNeedsQuiet` | each is a fact about one step from a state that satisfies `MachineInv` |
| `PathTypeCorrect`, `DutyAlwaysLegal` | `PathInv`: types, `DutyLegal`, that the tick counter in use is the length of the current run (`RunsCounted`), and that an open window is no longer than the configured one (`WindowConfigured`); without the last, slew could leave a duty below `pwm_min` unexplained |
| `OverrideIsImmediate`, `SlewIsHeld`, `DwellIsHeld` | lemmas state what dwell, boost, slew and clamp each return; a tick composes them in the order of the code |
| `HealthyIsNotReported` | `Unsuspected`, beside `PathInv`: a fan that was asked to run has a duty, so a low tach belongs to a request of 0 and the next start arms the grace window first. Without `min_off_ticks` nothing separates the request from the duty, which is where `fan_dwell` finds the report |
| `RaiseNeedsRise`, `ShutdownHasCause` | `RunInv`: the slots of the ring, read from the oldest, are the samples of the ghost `past` (`RingHolds`), also while the head wraps and before the ring is full; escalation counts ticks of one uninterrupted run (`latchedTicks <= runHot`) |
| `WindowIsFaithful`, `RaiseNeedsFlat` | `StuckInv`: the window's extremes and contexts are those of the last `count` samples (`WindowCovers`). A window that becomes full and flat is, by this, what the ghost calls flat |
| `GradesTellWear` | `HealthInv`: a fan that is still starting is behind the spin-up grace and the ticks a window needs (`StartSeen`); once settled, the tach reads between the speeds of two duties of the window (`SpeedSeen`); every average is on its fan's side of the thresholds (`Tells`), and so is the grade (`GradeTells`). The drift rises with the speed, a step of the average by an eighth stays between the old average and the sample, and a rounded weighted mean between the smallest and the largest point |

`CommandChannelProofs`, of `ZoneControl` and of the channel in front of it.

| theorem | argument |
|---|---|
| `TypeCorrect`, `ShadowsStayAccepted` | `IInv == TypeOK /\ ShadowsAccepted /\ SetpointsBounded` is inductive. The code checks only the neighbours of a changed trip and the points of the curve; the last conjunct covers setpoints where no curve shifts them. One lemma per command |
| `TripsNested`, `FloorHeld`, `LossCools` | from `IInv` and the rows of a shifted table: a step that passes an upper trip, or is inside its dead band, has passed the lower one; the largest state of the active trips is at least each of theirs |
| `TablesLegal` | the offset between two curve points lies between theirs: a segment exists (least element of a set of naturals), and a truncating division of a share of a difference stays inside it |
| `ChannelImplementsZoneControl`, `ChannelKeepsShadows` | refinement, with the identity as its mapping: a taken request is a tuning command, everything else a stutter. It needs that a command names an existing trip (`LengthsKept`: no command changes a table's length). What is proved of `ZoneControl` follows behind the channel |
| `VerdictIsTrue` | `Chronology`: requests wait in the order of their runs and the core has taken some of those before them. `AnswerTrue`: when the tool's own request has been answered none is behind it, so nothing undoes it before the tool ends |
| `WindupStaysBounded` | a step that deepens no saturation has an output inside 0 .. 255 on the side it moves to, the proportional part has the sign of the increment or is within `ProportionalBound`, and the derivative, filtered or not, is within `DerivativeBound` (`FilterBounded`); truncation and the clamp lead toward zero. Only gains of one sign make the proportional part go with the increment: where the configured bounds let kp and ki differ in sign it can oppose the integral by `ProportionalBound`, which `WindupBound` then adds (`OppositionBounded`); without that term TLC finds the integral beyond the bound |

`ThermalCoreProofs`, of the composed step.

| theorem | argument |
|---|---|
| `CriticalIsCooled`, `LossIsCooled`, `ForcedHolds`, `ReasonIsTrue` | `IInv`: `Domains` (machines for every target, duties are PWMs, severities are those of the masks), `LatchKept`, `FallbackActivates` and the properties themselves. A chain of bounds through the step: severity of a zone, of an actuator; cooling state, `state_pwm` (rising, by least counterexample), demand, arbitration, cap, path. A clear only takes active faults away |
| `ShutdownIsAnnounced` | needs `LatchKept`: what asks for a shutdown and is not new (a severity, an active target, an escalated runaway) has latched it before. Under the hypothesis that every sensor belongs to a zone |
| `DutiesChangeGently` | `PathsConfigured`: duties are within the maximum and an open spin-up window is no longer than the configured one, so a boost is a duty the clamp lets through. Then slew and clamp, for every actuator and whatever asked |
| `CoreDrivesPath`, `CoreTicksMachine` | refinement: any one actuator (`Watch`) is an `ActuatorPath`, any one detector (`WatchKind`, `WatchTarget`) a `FaultDetector`. `RecordedSpec` adds the variables these modules look at and the core does not keep, as history: they are written and never read. That a step always has something to write is `PathDriven` and `MachineTicked`. A step is a tick of the path with the request of steps 7 to 9, and of the machine with the condition it saw; a clear of another detector is a stutter |

`ContextSignalProofs`, of a context by itself (for any samples) and of the speed
behind the CAN cache.

| theorem | argument |
|---|---|
| `StaleFailsSafe`, `StaleFoundInTime`, `FreshRaisesNothing` | `IInv`: `Dated` says what the difference of two dates on a wrapping clock tells of the true age, `Counted` that a latched fault counts no quiet tick while the context is stale, so no clear can take it away. `StaleWithinWrap` is said for `persist_ticks` of at most 1 and `recovery_ticks` above 0 |
| `CadenceIsKept` | `RequestDue`: the due time is ahead of the clock by a whole number of periods, or below it because the clock is about to wrap, and then the request was this period's. Under the hypothesis that the period divides the cadence |
| `SpeedAgeIsBounded` | `CacheInv`: what waits in the socket arrived since the last period (`InboxRecent`), and the cache's date, taken from a clock that is up to `MaxLag` periods late, tells the true age up to that lag (`CacheDated`). Under the hypothesis that no timeout is a multiple of 65536, which the driver reads as none |

`HilLinkProofs`, of the serial link.

| theorem | argument |
|---|---|
| `RoomIsLeft` | the sliding window leaves nothing, or the beginning of a frame whose length it believes (`WindowDrained`): less than the buffer, so a read always has room |
| `ReadingsAreReal` | no checksum on its way is that of noise (`StreamReal`), and what the window dispatches stood in its buffer. `ScanInduction`: what holds of a buffer if it holds of the shorter one the window goes on with, holds of all |
| `SilenceIsNoticed` | the line is emptied by a unit a period (`LineDrains`), so a reading is no older than the silence but for the time that takes (`ReadingDated`) |

`ConfigLoaderProofs`, of the loader.

| theorem | argument |
|---|---|
| `LoadedIsWritten` | `LoaderInv`: after pass A the tables are what the last "actuators" section left, pass B resolves names in them and does not touch them, so what the last "zones" section resolved stays true. Past a new count the old slots of a repeated section stay, and no lookup reaches them |
| `OrderDoesNotMatter` | `OrderInv`: at any point of a pass the configuration has, field by field, the document's meaning where the section has been read and the stage before where it has not (`Mixed`). A lemma per kind of section: the fields it reads are those of earlier stages, and it fills only its own |

`SweepProofs`, of the sweep tool, the serial line and the firmware.

| theorem | argument |
|---|---|
| `BenchTypes` | ring and line buffer stay within their sizes, the table within the list of duties |
| `RowsAreMeasured` | `SweepInv`. What is under way is a run of lines, a token after the other, of commands in the order they were sent, each as often as it was repeated, with at most one gap where the lost byte was (`Transit`). A line with a gap is hopeless: the firmware makes nothing of it, or, when its end is lost and the next line runs into it, refuses both. So an answer carries the label of one command and labels never fall (`Labelled`), the duty in force is that of the last line taken (`Setting`), a window that opens after the dwell began belongs to it (`Dwelling`), and a row is written on the label it waits for. A lost digit makes another duty of one and is excluded (`garbled`). Under the hypotheses that a dwell is more than one window and at most one byte is lost |
| `ResumedUnlessStopped` | the last command of a sweep that was not interrupted is "loop on"; with nothing lost and nothing under way every token of it has been read (`Resuming`). Under the hypothesis that the line buffer holds that line (`LineMax > 2`). It is the other half of `sweep_interrupt`: only the interrupt breaks the promise |

`CommonFacts` holds lemmas only. The library's induction
theorems are out of the provers' reach here, so `CommonFacts` starts from the
well-ordering of the naturals: a least element, hence the maximum of a bounded
set, functions that never fall, what holds of a curve between its points, and
`LinearRecursion`, by which a function defined by recursion along a falling rank
exists. What such a function computes follows from the smallest argument that
would be a counterexample; this is how the sums of `FanHealth` and the window of
`HilLink` are reasoned about. The last part of it is what a tick does to the
shared machine.

Every safety and action property the passing runs check is a theorem.
`DutyLegal`, `SlewHeld`, `CountersTellRuns`, `RoomLeft` and `WindowFaithful` are
proved and not run again; `DutiesGentle` and the two refinements of
`ThermalCore` were explored on the instance of `core` before they were proved.
Five theorems have hypotheses beyond the assumptions of their modules
(`CadenceIsKept`, `SpeedAgeIsBounded`, `ShutdownIsAnnounced`, `RowsAreMeasured`,
`ResumedUnlessStopped`); the configurations of the runs satisfy them.

The hypotheses of `RowsAreMeasured` cannot be dropped. A dwell of one window
reads the speed of the duty before. Two lost bytes can fuse two commands into a
third: of a repeated "pwmset 1" the end of line and the next "pwmset" are lost,
the firmware takes "pwmset 11" and answers "pwm", and the tool writes a row of
duty 1 with the speed of 11. TLC finds that behaviour when `MaxLoss` is 2; the
program has no checksum, echo or number that would tell.

An instance of a proof module cannot be cited with what its variables stand for,
so what `DetectorsProofs` proves of `ActuatorPath` and `FaultDetector` is not
stated again of each part of the core: `CoreDrivesPath` and `CoreTicksMachine`
are the step between the two, and the rest is substitution.

Liveness under fairness stays with TLC (`EventuallyNormal`, `StuckForeverCaught`,
`SettlesOnRequest`, `DeadFanReported`, `LinkHeals`, `DeadSensorCools`,
`DutyConverges`, `LoopComesBack`), and so does ENABLED.

## Not modelled

- ESP32 standalone and replay modes: the core in a loop with local drivers. What
  is left is the tach counter read and zeroed beside its interrupt
  (`bsp_esp32_tach.c`), where edges of one instant are lost.
- Configuration hash (`sha256.c`, `thermal_config_hash.c`): a digest of bytes.
- Mock BSP and board drivers: file and register access.
- jsmn: third-party; `json2static.py`, probe and plots: no state of the running
  system.
- Telemetry frames and events other than those a property reads; the text
  protocol of the CH32V003's telemetry; options and signals of the daemon.

## What would come next

1. A daemon that restarts in front of a filled ring, with a clock that runs on.
2. `ThermalCore` with `ZoneControl`'s tables in place of constant ones.
3. The detectors of `ThermalCore` with the conditions of `StuckSensor` and
   `Runaway` in place of free ones.
