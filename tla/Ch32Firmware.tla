----------------------------- MODULE Ch32Firmware -----------------------------
(***************************************************************************)
(* The CH32V003 firmware built with its host-command channel: the receive   *)
(* interrupt and its ring (bsp_ch32_uart.c), the line parser                *)
(* (ch32_command.c), and the main loop, which regulates or, in bypass, lets *)
(* the host set the duty (main.c).                                          *)
(*                                                                         *)
(* A byte is a token: a word of the grammar, a digit or the end of a line.  *)
(* The core's tick is one choice of a duty.  A tach reading is the set of   *)
(* duties the fan was given since the reading before: a singleton tells     *)
(* that duty's speed.                                                       *)
(***************************************************************************)
EXTENDS Integers, SequencesExt

CONSTANTS RingSize,       \* UART_RX_RING_SZ
          LineMax,        \* CH32_CMD_LINE_MAX
          MaxDuty,        \* 255
          GovernorDuties, \* what the core may ask for
          MaxLoss         \* bound on the bytes noise destroys

ASSUME FirmwareAssumption ==
  /\ RingSize \in Nat \ {0, 1} /\ LineMax \in Nat \ {0, 1}
  /\ MaxDuty \in Nat /\ GovernorDuties \subseteq 0 .. MaxDuty /\ MaxLoss \in Nat

VARIABLES wire,           \* tokens on the way to the firmware
          ring,           \* rx_ring from rx_tail to rx_head
          rx,             \* ch32_command_rx_t: [line, overflowed]
          phase,          \* where main() is
          bypass,         \* loop_bypass
          hostDuty,       \* host_duty
          duty,           \* the duty the PWM is set to
          published,      \* [duty, rpm]: last_duty and last_rpm
          spanned,        \* duties given since the tach was last read
          answers,        \* lines on the way to the host
          losses,         \* ghost: bytes lost on the way
          garbled         \* ghost: a digit was among them

firmware == <<rx, phase, bypass, hostDuty, duty, published, spanned>>
line     == <<wire, ring, answers, losses, garbled>>
fwVars   == <<firmware, line>>

EOL   == "\n"
Digit == [d \in {"0", "1", "2", "3"} |->
           CASE d = "0" -> 0 [] d = "1" -> 1 [] d = "2" -> 2 [] d = "3" -> 3]

FwInit ==
  /\ wire = <<>> /\ ring = <<>> /\ answers = <<>> /\ losses = 0 /\ garbled = FALSE
  /\ rx = [line |-> <<>>, overflowed |-> FALSE]
  /\ phase = "service"
  /\ bypass = FALSE /\ hostDuty = 0
  /\ duty = 0 /\ spanned = {0}
  /\ published = [duty |-> 0, rpm |-> {}]

-----------------------------------------------------------------------------
Lose(token) == losses' = losses + 1 /\ garbled' = (garbled \/ token \in DOMAIN Digit)

\* USART1_IRQHandler: a byte enters the ring unless the ring is full.
Interrupt ==
  /\ wire # <<>>
  /\ wire' = Tail(wire)
  /\ IF Len(ring) < RingSize - 1
     THEN ring' = Append(ring, Head(wire)) /\ UNCHANGED <<losses, garbled>>
     ELSE ring' = ring /\ Lose(Head(wire))
  /\ UNCHANGED <<firmware, answers>>

\* A byte with a framing, noise, parity or overrun error is dropped.
Noise ==
  /\ wire # <<>> /\ losses < MaxLoss
  /\ wire' = Tail(wire) /\ Lose(Head(wire))
  /\ UNCHANGED <<firmware, ring, answers>>

\* parse_u8
DigitsValue(digits) == FoldLeft(LAMBDA v, d : 10 * v + Digit[d], 0, digits)

IsDuty(digits) ==
  /\ digits # <<>> /\ \A i \in DOMAIN digits : digits[i] \in DOMAIN Digit
  /\ DigitsValue(digits) <= MaxDuty

Command(type, arg) == [type |-> type, arg |-> arg]

\* ch32_command_parse
Parse(tokens) ==
  CASE tokens = <<>>               -> Command("NONE", 0)
    [] tokens = <<"pwmget">>       -> Command("PWMGET", 0)
    [] tokens = <<"rpmget">>       -> Command("RPMGET", 0)
    [] tokens = <<"ping">>         -> Command("PING", 0)
    [] tokens = <<"loop", "on">>   -> Command("LOOP_ON", 0)
    [] tokens = <<"loop", "off">>  -> Command("LOOP_OFF", 0)
    [] Len(tokens) > 1 /\ tokens[1] = "pwmset" /\ IsDuty(Tail(tokens)) ->
                                      Command("PWMSET", DigitsValue(Tail(tokens)))
    [] OTHER                       -> Command("ERROR", 0)

\* ch32_command_feed: the accumulator after a byte.
Fed(acc, token) ==
  IF token = EOL THEN [line |-> <<>>, overflowed |-> FALSE]
  ELSE IF Len(acc.line) < LineMax - 1 THEN [acc EXCEPT !.line = Append(@, token)]
  ELSE [acc EXCEPT !.overflowed = TRUE]

Answer(kind, arg) == <<[kind |-> kind, arg |-> arg]>>

\* The line a command is answered with, if any.
Reply(cmd) ==
  CASE cmd.type = "LOOP_ON"  -> Answer("loop on", 0)
    [] cmd.type = "LOOP_OFF" -> Answer("loop off", 0)
    [] cmd.type = "PWMSET"   -> IF bypass THEN Answer("pwm", cmd.arg) ELSE Answer("err", 0)
    [] cmd.type = "PWMGET"   -> Answer("pwm", published.duty)
    [] cmd.type = "RPMGET"   -> Answer("rpm", published.rpm)
    [] cmd.type = "PING"     -> Answer("pong", 0)
    [] cmd.type = "NONE"     -> <<>>
    [] cmd.type = "ERROR"    -> Answer("err", 0)

\* A bug the code could have: LOOP_ON falls through into LOOP_OFF.
ObeyWithoutBreak(cmd) ==
  /\ bypass' = (bypass \/ cmd.type \in {"LOOP_ON", "LOOP_OFF"})
  /\ hostDuty' = IF cmd.type = "PWMSET" /\ bypass THEN cmd.arg ELSE hostDuty

\* What the command does to loop_bypass and host_duty.
Obey(cmd) ==
  /\ bypass' = CASE cmd.type = "LOOP_ON" -> FALSE [] cmd.type = "LOOP_OFF" -> TRUE
                 [] OTHER -> bypass
  /\ hostDuty' = IF cmd.type = "PWMSET" /\ bypass THEN cmd.arg ELSE hostDuty

\* ch32_command_poll, one byte of it: bsp_ch32_uart_getc, the feed and, at
\* the end of a line, the command and its answer.
Poll ==
  /\ phase \in {"service", "bypassed", "hold"} /\ ring # <<>>
  /\ LET token == Head(ring)
         cmd   == IF token # EOL THEN Command("NONE", 0)
                  ELSE IF rx.overflowed THEN Command("ERROR", 0) ELSE Parse(rx.line)
     IN  /\ ring' = Tail(ring)
         /\ rx' = Fed(rx, token)
         /\ Obey(cmd)
         /\ answers' = answers \o Reply(cmd)
  /\ UNCHANGED <<phase, duty, published, spanned, wire, losses, garbled>>

\* A window of the bypass loop starts: the duty is set and the tach,
\* which has counted since the window before, read.
BypassWindow ==
  /\ bypass
  /\ \/ phase = "service" /\ ring = <<>>
     \/ phase = "bypassed"
  /\ phase' = "bypassed"
  /\ duty' = hostDuty /\ spanned' = {hostDuty}
  /\ published' = [duty |-> hostDuty, rpm |-> spanned]
  /\ UNCHANGED <<rx, bypass, hostDuty, line>>

\* A regulating tick, from the sensor's conversion to the publication of its
\* results.  No byte is polled in it.
Regulate ==
  /\ ~bypass
  /\ \/ phase = "service" /\ ring = <<>>
     \/ phase = "bypassed"
  /\ phase' = "hold"
  /\ \E d \in GovernorDuties :
       /\ duty' = d /\ spanned' = {duty, d}
       /\ published' = [duty |-> d, rpm |-> spanned]
  /\ UNCHANGED <<rx, bypass, hostDuty, line>>

\* The window of a regulating tick is over.
WindowEnds ==
  /\ phase = "hold" /\ phase' = "service"
  /\ UNCHANGED <<rx, bypass, hostDuty, duty, published, spanned, line>>

Windows == BypassWindow \/ Regulate

FwNext == Interrupt \/ Noise \/ Poll \/ Windows \/ WindowEnds
=============================================================================
