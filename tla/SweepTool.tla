------------------------------ MODULE SweepTool ------------------------------
(***************************************************************************)
(* thermal-telemetry-tool at the other end of the serial line, one          *)
(* invocation of it: a single command, or the sweep that bypasses the       *)
(* control loop, measures the fan at one duty after the other and resumes   *)
(* the loop (tools/thermal-telemetry-tool/main.cpp).  send_command repeats  *)
(* a command that is not answered in time and takes the next line that      *)
(* begins with + or - for its answer.                                       *)
(***************************************************************************)
EXTENDS Ch32Firmware

CONSTANTS Duties,         \* the duties of the sweep, in order, as digits
          Dwell,          \* windows that start in --dwell seconds
          MaxAttempts,    \* attempts of send_command
          MaxHaste        \* bound on the attempts given up under way

ASSUME ToolAssumption ==
  /\ Duties \in Seq(Seq(DOMAIN Digit)) \ {<<>>} /\ \A i \in DOMAIN Duties : IsDuty(Duties[i])
  /\ Dwell \in Nat \ {0} /\ MaxAttempts \in Nat \ {0} /\ MaxHaste \in Nat

VARIABLES script,         \* the commands of this invocation
          at,             \* the one it is at
          mode,           \* "send", "wait", "dwell" or "over"
          attempt,        \* a of send_command
          dwelling,       \* windows left of the dwell
          rows,           \* the table written: [duty, rpm]
          said,           \* what it tells the user in the end
          stopped,        \* g_stop
          haste           \* ghost: attempts given up under way

tool      == <<script, at, mode, attempt, dwelling, rows, said, stopped, haste>>
benchVars == <<fwVars, tool>>

Ask(words, kind) == [words |-> words, kind |-> kind]

LoopOff == Ask(<<"loop", "off">>, "loop off")
LoopOn  == Ask(<<"loop", "on">>, "loop on")
Measure(digits) == <<Ask(<<"pwmset">> \o digits, "pwm"), Ask(<<"rpmget">>, "rpm")>>

\* The steps of action_pwmsweep in order.
Sweep ==
  [n \in 1 .. 2 * Len(Duties) + 2 |->
     IF n = 1 THEN LoopOff
     ELSE IF n = 2 * Len(Duties) + 2 THEN LoopOn
     ELSE Measure(Duties[n \div 2])[1 + (n % 2)]]

Scripts ==
  {Sweep} \cup
  {<<a>> : a \in {LoopOff, LoopOn, Ask(<<"ping">>, "pong"), Ask(<<"pwmget">>, "pwm"),
                  Ask(<<"rpmget">>, "rpm"), Measure(Duties[1])[1]}}

Sweeping == script = Sweep
Current  == script[at]

BenchInit ==
  /\ FwInit
  /\ script \in Scripts /\ at = 1 /\ mode = "send" /\ attempt = 0 /\ dwelling = 0
  /\ rows = <<>> /\ said = "" /\ stopped = FALSE /\ haste = 0

-----------------------------------------------------------------------------
\* send_command, an attempt: the line is written.
SendAttempt ==
  /\ mode = "send" /\ attempt < MaxAttempts /\ ~stopped
  /\ wire' = wire \o Current.words \o <<EOL>>
  /\ mode' = "wait" /\ attempt' = attempt + 1
  /\ UNCHANGED <<firmware, ring, answers, losses, garbled,
                 script, at, dwelling, rows, said, stopped, haste>>

Underway == wire # <<>> \/ ring # <<>> \/ rx.line # <<>> \/ answers # <<>>

\* per_attempt_ms is over.
Timeout ==
  /\ mode = "wait" /\ mode' = "send"
  /\ haste' = haste + (IF Underway THEN 1 ELSE 0) /\ haste' <= MaxHaste
  /\ UNCHANGED <<fwVars, script, at, attempt, dwelling, rows, said, stopped>>

\* The next command, or the end, of this invocation.
Go(to) == at' = to /\ mode' = "send" /\ said' = said
GoFailed(to) == at' = to /\ mode' = "send" /\ said' = "failed"
End(message) == at' = at /\ mode' = "over" /\ said' = message

\* A bug the code could have: the speed is asked for at once.
SettleNotAtAll == 0

\* sleep_for(seconds(dwell_s))
Settle == Dwell

\* What the caller of send_command does with the answer, which is kind
\* "none" without one: the actions, and action_pwmsweep's steps.
Conclude(answer) ==
  LET right == answer.kind = Current.kind
      last  == Len(script)
  IN  /\ attempt' = 0
      /\ CASE ~Sweeping -> End(IF right THEN "ok" ELSE "failed")
              \* without a table it has reported that and says no more
           [] Sweeping /\ at = last -> End(IF said = "failed" THEN said ELSE "resumed")
           [] Sweeping /\ at = 1 /\ ~right -> End("failed")
              \* the table cannot be opened, or can
           [] Sweeping /\ at = 1 /\ right -> GoFailed(last) \/ Go(IF stopped THEN last ELSE 2)
           [] Sweeping /\ at \in 2 .. last - 1 /\ ~right -> Go(last)
           [] Sweeping /\ at \in 2 .. last - 1 /\ right /\ Current.kind = "pwm" ->
                at' = at + 1 /\ mode' = "dwell" /\ said' = said
           [] Sweeping /\ at \in 2 .. last - 1 /\ right /\ Current.kind = "rpm" ->
                Go(IF stopped THEN last ELSE at + 1)
      /\ dwelling' = IF mode' = "dwell" THEN Settle ELSE 0
      /\ rows' = IF Sweeping /\ right /\ Current.kind = "rpm"
                 THEN Append(rows, [duty |-> DigitsValue(Tail(script[at - 1].words)),
                                    rpm |-> answer.arg])
                 ELSE rows

\* A line that begins with + or - is read.
TakeAnswer ==
  /\ mode = "wait" /\ answers # <<>>
  /\ Conclude(Head(answers)) /\ answers' = Tail(answers)
  /\ UNCHANGED <<firmware, wire, ring, losses, garbled, script, stopped, haste>>

\* No attempt is left, or g_stop ends them.
GiveUp ==
  /\ \/ mode = "send" /\ (attempt = MaxAttempts \/ stopped)
     \/ mode = "wait" /\ stopped
  /\ Conclude([kind |-> "none", arg |-> 0])
  /\ UNCHANGED <<fwVars, script, stopped, haste>>

\* sleep_for is over.
DwellOver ==
  /\ mode = "dwell" /\ dwelling = 0 /\ mode' = "send"
  /\ UNCHANGED <<fwVars, script, at, attempt, dwelling, rows, said, stopped, haste>>

\* Ctrl-C: on_sigint.
Sigint ==
  /\ mode # "over" /\ ~stopped /\ stopped' = TRUE
  /\ UNCHANGED <<fwVars, script, at, mode, attempt, dwelling, rows, said, haste>>

\* The firmware's steps; a window that starts is a second of the dwell.
FirmwareStep ==
  /\ Interrupt \/ Noise \/ Poll \/ WindowEnds
  /\ UNCHANGED tool

WindowStarts ==
  /\ Windows
  /\ dwelling' = IF dwelling > 0 THEN dwelling - 1 ELSE 0
  /\ UNCHANGED <<script, at, mode, attempt, rows, said, stopped, haste>>

ToolSteps == SendAttempt \/ TakeAnswer \/ GiveUp \/ DwellOver

BenchNext == FirmwareStep \/ WindowStarts \/ ToolSteps \/ Timeout \/ Sigint

\* The interrupt is served, main() never blocks for ever, the tool runs.
BenchSpec ==
  /\ BenchInit /\ [][BenchNext]_benchVars
  /\ WF_benchVars(Interrupt /\ UNCHANGED tool) /\ WF_benchVars(Poll /\ UNCHANGED tool)
  /\ WF_benchVars(WindowEnds /\ UNCHANGED tool) /\ WF_benchVars(WindowStarts)
  /\ WF_benchVars(ToolSteps)

-----------------------------------------------------------------------------
\* Every row of the table is the fan's speed at the row's duty alone: not at
\* the duty before it, not across a change, not the late answer to another
\* row, whatever is repeated or lost, unless the loss makes one number of
\* another.
RowsMeasured == \A i \in DOMAIN rows : garbled \/ rows[i].rpm = {rows[i].duty}

\* After a sweep over a clean line the loop regulates again, for good.
LoopComesBack ==
  Sweeping /\ []~stopped /\ [](haste = 0) /\ [](losses = 0) => <>[](mode = "over" /\ ~bypass)

\* main.cpp:430 "Always restore regulation -- bypass leaves the fan
\* unprotected" and its "control loop resumed": on a clean line the loop has
\* been resumed, or is about to be, when the tool says so.
ResumedIsTrue ==
  said = "resumed" /\ losses = 0 => ~bypass \/ Underway
=============================================================================
