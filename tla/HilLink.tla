-------------------------------- MODULE HilLink --------------------------------
(***************************************************************************)
(* The hardware-in-the-loop link: the Linux daemon, which runs the core     *)
(* (platform/linux/bsp_hil_serial.c and the loop of thermalcored.c), and    *)
(* the ESP32 peripheral with the sensor and the fan                         *)
(* (app_main_hil_peripheral in platform/esp32_idf/main/main.c), each in a   *)
(* loop of its own, with a serial line between them that damages and loses  *)
(* what it carries.  One sensor, one fan.                                   *)
(*                                                                         *)
(* Samples, tach counts and acknowledgements travel up as a stream of units *)
(* that the daemon's sliding window takes apart: a frame is a header, which *)
(* claims a payload length, the payload and a checksum.  Duties travel down *)
(* frame by frame: the peripheral's window is the same code, so a short     *)
(* write or a damaged frame loses that frame.  Ages count the daemon's      *)
(* periods, within one round of its clock.                                  *)
(***************************************************************************)
EXTENDS Integers, SequencesExt

CONSTANTS MaxPayload,   \* THERMAL_WIRE_MAX_LINUX, in units
          PipeCap,      \* the units the line and its drivers hold
          Staleness,    \* max_staleness_ms of the sensor, in periods
          Duties,       \* the duties the core asks for
          Fallback,     \* the duty it asks for while the sensor is invalid
          MaxCmds       \* duty frames in flight

ASSUME LinkAssumption ==
  /\ MaxPayload \in Nat \ {0, 1} /\ Staleness \in Nat
  /\ PipeCap \in Nat /\ PipeCap >= 3 /\ MaxCmds \in Nat \ {0}
  /\ Duties \subseteq 0 .. 255 /\ {0, Fallback} \subseteq Duties

VARIABLES pc,           \* where the peripheral's loop is
          fan,          \* the duty the peripheral drives
          pipe,         \* units on their way up
          commands,     \* duty frames on their way down
          up,           \* the daemon runs
          rx,           \* its s_rx_buf
          cell,         \* its s_sensor_cache: the value and its age
          duty,         \* the duty it commanded last
          quiet         \* ghost: the daemon's periods since a frame was sent

peripheral == <<pc, fan>>
daemon     == <<up, rx, cell, duty>>
vars       == <<peripheral, pipe, commands, daemon, quiet>>

RxCap == MaxPayload + 2

\* By then even a full line, read a unit a period, has been read, and what was
\* on it is stale.
Patience == Staleness + PipeCap

\* Ages and the ghost are counted no further.
Later(n) == IF n > Patience THEN n ELSE n + 1

-----------------------------------------------------------------------------
(* Frames. *)

\* What a body or a checksum is of: nothing, a sample, a tach count or an
\* acknowledgement, noise.
None  == 0
Temp  == 1
Other == 2
Noise == 3

Header(n)  == <<"head", n>>
Body(x)  == <<"body", x>>
Check(x) == <<"check", x>>

Units == ({"head"} \X (1 .. MaxPayload + 1)) \cup ({"body", "check"} \X {Temp, Other, Noise})

\* The payload is one unit.
Frame(x) == <<Header(1), Body(x), Check(x)>>

\* What may become of it: its end is lost, the payload is garbled, or the
\* header claims a longer payload, within the receive cap or over it.
Damaged(x) == {<<Header(1), Body(x)>>, <<Header(1), Body(Noise), Check(x)>>,
               <<Header(MaxPayload), Body(x), Check(x)>>,
               <<Header(MaxPayload + 1), Body(x), Check(x)>>}

-----------------------------------------------------------------------------
(* The sliding window: thermal_wire_decode_frame at the head of the buffer, *)
(* and what bsp_hil_serial_drain does with its verdict.                      *)

IsHeaderer(u) == u[1] = "head"

\* A bug the code could have: the payload length is not checked.
ClaimAnyLength(buf) == IsHeaderer(buf[1])

\* Magic, version and opcode are good and the length is within the receive cap.
Claim(buf) == IsHeaderer(buf[1]) /\ buf[1][2] <= MaxPayload

\* The header, the payload it claims and the checksum.
Need(buf) == buf[1][2] + 2

\* A bug the code could have: the checksum is not looked at.
IntactUnchecked(buf) == TRUE

\* The checksum is that of the header and the payload.
Intact(buf) == SubSeq(buf, 1, Need(buf)) = Frame(buf[2][2])

\* A bug the code could have: everything received is thrown away.
AfterBadFlushes(buf) == <<>>

\* One unit is dropped, to find the next frame.
AfterBad(buf) == Tail(buf)

\* The loop of the drain: what it leaves in the buffer, and what the frames it
\* dispatches are of.
Scan[buf \in Seq(Units)] ==
  IF buf = <<>> \/ (Claim(buf) /\ Len(buf) < Need(buf))
  THEN [left |-> buf, got |-> <<>>]
  ELSE IF Claim(buf) /\ Intact(buf)
  THEN [Scan[SubSeq(buf, Need(buf) + 1, Len(buf))] EXCEPT !.got = <<buf[2][2]>> \o @]
  ELSE Scan[AfterBad(buf)]

-----------------------------------------------------------------------------
(* The daemon. *)

\* A bug the code could have: the age is not compared.
ValidForever(c) == c.value # None

\* bsp_hil_serial_read_sensor.
Valid(c) == c.value # None /\ c.age <= Staleness

\* The cache after the frames: the last sample dispatched is the one read.
Cached(got) ==
  LET samples == {i \in DOMAIN got : got[i] # Other}
  IN  IF samples = {} THEN [cell EXCEPT !.age = Later(@)]
      ELSE [value |-> got[Max(samples)], age |-> 0]

\* One read takes what has arrived, up to the free space; a full buffer only
\* loses its oldest unit.
Received ==
  IF Len(rx) = RxCap THEN {[rx |-> Tail(rx), pipe |-> pipe]}
  ELSE LET most == IF Len(pipe) < RxCap - Len(rx) THEN Len(pipe) ELSE RxCap - Len(rx)
       IN  {[rx |-> rx \o SubSeq(pipe, 1, n), pipe |-> SubSeq(pipe, n + 1, Len(pipe))] :
              n \in IF most = 0 THEN {0} ELSE 1 .. most}

\* A bug the code could have: a duty is sent only when it changes.
WritesOnChange(d) == d # duty

\* Every period writes the duty.
Writes(d) == TRUE

\* The line takes the frame; it is refused while MaxCmds are in flight.
Delivered(d) == Writes(d) /\ Len(commands) < MaxCmds /\ commands' = Append(commands, d)

\* The frame is lost on the line, or there was none or no room for it.
NotDelivered(d) == commands' = commands

\* A period of the loop: drain, snapshot, step, write.
HostTick ==
  /\ up
  /\ \E r \in Received : \E s \in {Scan[r.rx]} :
       /\ rx' = s.left /\ pipe' = r.pipe /\ cell' = Cached(s.got)
  /\ \E d \in IF Valid(cell') THEN Duties ELSE {Fallback} :
       /\ duty' = d
       /\ Delivered(d) \/ NotDelivered(d)
  /\ quiet' = Later(quiet)
  /\ UNCHANGED <<peripheral, up>>

NoReading == [value |-> None, age |-> 0]

\* The daemon stops: its memory is gone, the last duty stays where it is.
HostStop ==
  /\ up /\ up' = FALSE
  /\ rx' = <<>> /\ cell' = NoReading /\ quiet' = 0
  /\ UNCHANGED <<duty, peripheral, pipe, commands>>

\* The device is opened: the module's state is reset, and the host's driver may
\* have dropped part of what had arrived; the peripheral's has kept the rest.
HostStart ==
  /\ ~up /\ up' = TRUE
  /\ rx' = <<>> /\ cell' = NoReading /\ quiet' = 0
  /\ \E n \in 0 .. Len(pipe) : pipe' = SubSeq(pipe, n + 1, Len(pipe))
  /\ UNCHANGED <<duty, peripheral, commands>>

-----------------------------------------------------------------------------
(* The peripheral. *)

\* A write returns once the whole frame is in the ring: the loop waits there.
Sends(x) ==
  /\ Len(pipe) + Len(Frame(x)) <= PipeCap
  /\ \E f \in {Frame(x)} \cup Damaged(x) : pipe' = pipe \o f
  /\ quiet' = 0

\* The sample, when the sensor could be read.
EmitSample ==
  /\ pc = "emit" /\ pc' = "tach"
  /\ Sends(Temp) \/ UNCHANGED <<pipe, quiet>>
  /\ UNCHANGED <<fan, commands, daemon>>

EmitTach ==
  /\ pc = "tach" /\ pc' = "drain" /\ Sends(Other)
  /\ UNCHANGED <<fan, commands, daemon>>

\* hil_drain_commands, a frame at a time: one that arrives later is for the
\* next round.
DrainCommand ==
  /\ pc = "drain"
  /\ IF commands = <<>> THEN pc' = "emit" /\ UNCHANGED <<fan, commands>>
     ELSE pc' = "ack" /\ fan' = commands[1] /\ commands' = Tail(commands)
  /\ UNCHANGED <<pipe, daemon, quiet>>

\* The end of hil_dispatch_frame.
SendAck ==
  /\ pc = "ack" /\ pc' = "emit" /\ Sends(Other)
  /\ UNCHANGED <<fan, commands, daemon>>

\* The peripheral restarts: it parks its fan, and what its drivers held is
\* lost, the end of a frame with it.
PeripheralReset ==
  /\ pc' = "emit" /\ fan' = 0 /\ commands' = <<>>
  /\ \E n \in 0 .. Len(pipe) : pipe' = SubSeq(pipe, 1, n)
  /\ UNCHANGED <<daemon, quiet>>

PeripheralLoop == EmitSample \/ EmitTach \/ DrainCommand \/ SendAck

-----------------------------------------------------------------------------
Init ==
  /\ pc = "emit" /\ fan = 0
  /\ pipe = <<>> /\ commands = <<>>
  /\ up = FALSE /\ rx = <<>> /\ cell = NoReading /\ duty = 0
  /\ quiet = 0

Next == HostTick \/ HostStop \/ HostStart \/ PeripheralLoop \/ PeripheralReset

\* Both loops run on timers; whether the daemon is started is not theirs to say.
Spec == Init /\ [][Next]_vars /\ WF_vars(HostTick) /\ WF_vars(PeripheralLoop)

-----------------------------------------------------------------------------
(* Properties. *)

\* Whatever the line does to the frames, a drain leaves room in the receive
\* buffer: a period never passes without reading (the buffer-full branch of
\* bsp_hil_serial_drain is never taken).
RoomLeft == Len(rx) < RxCap

\* No damaged frame ever becomes a reading, wherever it is cut and whatever
\* follows it.
ReadingsReal == cell.value \in {None, Temp}

\* A peripheral that has sent nothing for Patience periods of a running daemon
\* is noticed: the reading is not valid any more (bsp_hil_serial_read_sensor).
SilenceNoticed == up /\ quiet > Patience => ~Valid(cell)

\* Conditions on the environment, from some time on.
StaysUp      == <>[]up
NoReset      == <>[][~ PeripheralReset]_vars
NoSample     == <>[][~ (EmitSample /\ pipe' = pipe \o Frame(Temp))]_vars
NoNoise      == <>[][\A x \in {Temp, Other} : \A f \in Damaged(x) : pipe' # pipe \o f]_vars
SensorReads  == <>[][pc = "emit" /\ pc' = "tach" => pipe' # pipe]_vars
NoDutyLost   == <>[][\A d \in Duties : HostTick /\ duty' = d /\ Writes(d)
                       => Delivered(d) \/ Len(commands) = MaxCmds]_vars

\* A link that is left alone heals: whatever damage came before, and however
\* the stream is cut into reads, readings are valid again and again.
LinkHeals == StaysUp /\ NoReset /\ NoNoise /\ SensorReads => []<>Valid(cell)

\* A sensor that no longer answers, or a line that lets no sample through,
\* ends with the fan on the fallback although the peripheral knows nothing of
\* the failure.
DeadSensorCools == StaysUp /\ NoReset /\ NoSample /\ NoDutyLost => <>[](fan = Fallback)

\* A steady duty ends on the fan, whatever duties were lost and however often
\* the peripheral was reset before: every period sends it again.
DutyConverges ==
  StaysUp /\ NoReset /\ NoDutyLost => \A d \in Duties : <>[](duty = d) => <>[](fan = d)
=============================================================================
