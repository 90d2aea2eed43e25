--------------------------- MODULE CommandChannel ---------------------------
(***************************************************************************)
(* How a tuning command reaches the core.  An embedder calls                *)
(* thermal_core_apply_command itself (entry "direct": the behaviours of     *)
(* ZoneControl).  On Linux tools/thermalcore-tune sends one datagram to the *)
(* daemon's control socket, waits for one answer and gives its verdict;     *)
(* drain_commands in platform/linux/thermalcored.c decodes, applies and     *)
(* answers (entry "network").                                               *)
(*                                                                         *)
(* An operator runs the tool again and again, one at a time, also after it  *)
(* gave up; each run binds an ephemeral port, perhaps one that was in use a *)
(* moment ago.  Other programs send the daemon datagrams too.  Loopback     *)
(* keeps the order of what it delivers; what finds the socket's queue full, *)
(* or nobody at its port, is lost.                                          *)
(*                                                                         *)
(* CMD_SET_PID changes nothing the other commands read: its zone (entry     *)
(* "gains") is PidLoop's.                                                   *)
(***************************************************************************)
EXTENDS ZoneControl, PidLoop

CONSTANTS ToolCommands,   \* the CMD_SET_TRIPs the operator gives
          Ports,          \* ephemeral ports
          MaxRuns,        \* bound: runs of the tool
          QueueLength     \* bound: datagrams the daemon's socket holds

ASSUME ChannelAssumption ==
  /\ \A c \in ToolCommands : /\ c.zone \in Zones /\ c.trip \in 1 .. Len(ZoneCfg[c.zone].trips)
                             /\ c.temp \in Temps /\ c.hyst \in Hysts
  /\ MaxRuns \in Nat /\ QueueLength \in Nat \ {0}

VARIABLES entry,          \* "direct", "network" or "gains"
          queue,          \* the datagrams in the daemon's control socket
          tool,           \* the tool's port, command, seq, socket and verdict
          applied         \* history: the seqs of the commands the core took

channelVars == <<vars, pidVars, entry, queue, tool, applied>>

\* Requests carry the seq of their run: drawn at random by the tool, taken
\* here to differ from those still in the queue.  The datagrams of other
\* programs carry seq 0.
ForeignForms == {"empty",    \* a datagram of no bytes: recvfrom returns 0
                 "alien",    \* no frame, a bad CRC, a short one: no seq to trust
                 "misuse"}   \* a seq to trust, but no request to apply: unknown
                             \* opcode, over the cap, telemetry, bad payload

NoCommand == [zone |-> "none"]
NoAnswer == [op |-> "none"]

ChannelInit ==
  /\ Init /\ PidInit
  /\ entry \in {"direct", "network", "gains"}
  /\ \/ entry = "gains"
     \/ /\ gains = CHOOSE g \in Gains : GainsTaken(g)
        /\ alpha = CHOOSE a \in Alphas : TRUE
  /\ queue = <<>>
  /\ tool = [port |-> 0, seq |-> 0, cmd |-> NoCommand, inbox |-> NoAnswer, verdict |-> "none"]
  /\ applied = <<>>

Deliver(datagram) ==
  queue' = IF Len(queue) < QueueLength THEN Append(queue, datagram) ELSE queue

\* The tool is run: it binds a port and sends its one request; with --no-crc
\* the daemon, which always checks, will find the CRC bad.
ToolSends(cmd, port, form) ==
  /\ tool.verdict # "waiting" /\ tool.seq < MaxRuns
  /\ tool' = [port |-> port, seq |-> tool.seq + 1, cmd |-> cmd,
              inbox |-> NoAnswer, verdict |-> "waiting"]
  /\ Deliver([form |-> form, seq |-> tool.seq + 1, port |-> port, cmd |-> cmd])
  /\ UNCHANGED applied

\* Another program sends something and closes its socket; the port may be
\* the next one the tool is given.
ForeignSends(form, port) ==
  /\ tool.verdict = "waiting" => port # tool.port
  /\ Deliver([form |-> form, seq |-> 0, port |-> port, cmd |-> NoCommand])
  /\ UNCHANGED <<tool, applied>>

\* send_acknack: to the port the datagram came from, if a tool is there; the
\* tool reads only the first answer.
Reply(datagram, op) ==
  tool' = IF tool.verdict = "waiting" /\ tool.port = datagram.port /\ tool.inbox = NoAnswer
          THEN [tool EXCEPT !.inbox = [op |-> op, seq |-> datagram.seq]]
          ELSE tool

CommandTaken(cmd) ==
  SetTripAccepted(cmd.zone, cmd.trip,
    [trips[cmd.zone] EXCEPT ![cmd.trip].temp = cmd.temp, ![cmd.trip].hyst = cmd.hyst])

\* One turn of drain_commands' loop.  A datagram of no bytes ends the loop
\* until the next tick, which changes when, not whether, the rest is read.
DaemonReceives ==
  /\ queue # <<>>
  /\ queue' = Tail(queue)
  /\ LET d == Head(queue) IN
     \/ /\ d.form \in {"empty", "alien"}
        /\ UNCHANGED <<vars, tool, applied>>
     \/ /\ d.form = "misuse" /\ Reply(d, "CMD_NACK")
        /\ UNCHANGED <<vars, applied>>
     \/ /\ d.form = "request"
        /\ SetTrip(d.cmd.zone, d.cmd.trip, d.cmd.temp, d.cmd.hyst)
        /\ Reply(d, IF CommandTaken(d.cmd) THEN "CMD_ACK" ELSE "CMD_NACK")
        /\ applied' = IF CommandTaken(d.cmd) THEN Append(applied, d.seq) ELSE applied

\* A bug the code could have: any ACK will do.
VerdictOfAny(answer) == IF answer.op = "CMD_ACK" THEN "acked" ELSE "nacked"

\* The tool's verdict on the first answer: exit code 0, 1, or 2 for one that
\* answers another request.
Verdict(answer) ==
  CASE answer.seq # tool.seq                           -> "unknown"
    [] answer.seq = tool.seq /\ answer.op = "CMD_ACK" -> "acked"
    [] OTHER                                           -> "nacked"

ToolEnds ==
  /\ tool.verdict = "waiting"
  /\ tool' = [tool EXCEPT !.verdict =
                IF tool.inbox = NoAnswer THEN "unknown" ELSE Verdict(tool.inbox)]
  /\ UNCHANGED <<queue, applied>>

ChannelNext ==
  /\ UNCHANGED entry
  /\ \/ entry = "gains"   /\ PidNext /\ UNCHANGED <<vars, queue, tool, applied>>
     \/ entry = "direct"  /\ Next /\ UNCHANGED <<pidVars, queue, tool, applied>>
     \/ entry = "network" /\ DaemonReceives /\ UNCHANGED pidVars
     \/ /\ entry = "network" /\ UNCHANGED <<vars, pidVars>>
        /\ \/ \E cmd \in ToolCommands, port \in Ports, form \in {"request", "alien"} :
                ToolSends(cmd, port, form)
           \/ \E form \in ForeignForms, port \in Ports : ForeignSends(form, port)
           \/ ToolEnds

ChannelSpec == ChannelInit /\ [][ChannelNext]_channelVars

-----------------------------------------------------------------------------
InForce(cmd) ==
  /\ trips[cmd.zone][cmd.trip].temp = cmd.temp
  /\ trips[cmd.zone][cmd.trip].hyst = cmd.hyst

\* thermal-core-prd.md section 7.5, "Every command receives an ACK or NACK.":
\* whatever was sent before, given up and answered late, a tool that reports
\* OK has set what it was told to set, as the last command and once; one that
\* reports a NACK has changed nothing, now or later.
VerdictTrue ==
  /\ tool.verdict = "acked"  => /\ InForce(tool.cmd)
                                /\ applied[Len(applied)] = tool.seq
  /\ tool.verdict = "nacked" => \A i \in 1 .. Len(applied) : applied[i] # tool.seq
  /\ \A i, j \in 1 .. Len(applied) : applied[i] = applied[j] => i = j
=============================================================================
