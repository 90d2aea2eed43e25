------------------------------ MODULE CanContext ------------------------------
(***************************************************************************)
(* The vehicle speed on the Linux daemon: the ECU's answers wait in the CAN *)
(* socket, bsp_socketcan_poll asks and drains once per control period, the  *)
(* cached answer becomes a sample until timeout_ms, and ContextSignal is    *)
(* what the core makes of the sample.  Two clocks of staleness, one behind  *)
(* the other, over a now_ms that is the deadline of the period and not the  *)
(* time: a late daemon runs the periods it missed back to back              *)
(* (wall_clock_next).                                                       *)
(*                                                                         *)
(* The ECU is external and may answer, answer with an error or stay silent, *)
(* whether it was asked or not (a recording may be replayed on the bus).    *)
(***************************************************************************)
EXTENDS ContextSignal, Sequences, FiniteSetsExt

CONSTANTS Cadence,        \* 1000 ms
          TimeoutRange,   \* 2^16, the range of the timeout_ms that
                          \* bsp_socketcan_state_init takes
          MaxLag,         \* periods the daemon may be behind
          InboxRoom,      \* frames the socket holds
          NoValue         \* the value of a frame that
                          \* obd2_decode_response_byte rejects

ASSUME CanAssumption ==
  /\ Cadence \in 1 .. Wrap - 1 /\ TimeoutRange \in Nat \ {0}
  /\ MaxLag \in Nat /\ InboxRoom \in Nat \ {0} /\ NoValue \notin Values

VARIABLES cache,          \* bsp_socketcan_state_t: [ever, value, ms]
          nextRequest,    \* g_canbus_next_request_ms
          inbox,          \* answers in the socket: [value, age]; age is a
                          \* ghost, the milliseconds since it was sent
          lag,            \* periods the deadline is behind the time
          cacheAge,       \* ghost: milliseconds since the cached answer was sent
          sinceRequest,   \* ghost: milliseconds since a request was last tried
          sendFailed,     \* ghost: a request could not be sent
          busFailed       \* ghost: a poll has ended with an error

canVars == <<cache, nextRequest, inbox, lag, cacheAge, sinceRequest, sendFailed, busFailed>>
allVars == <<vars, canVars>>

\* Nothing compares an age beyond this.
Older(a) == IF a < Wrap + MaxLag * PeriodMs THEN a + PeriodMs ELSE a

CanInit ==
  /\ Init /\ now = 0
  /\ cache = [ever |-> FALSE, value |-> 0, ms |-> 0]
  /\ nextRequest = 0 /\ inbox = <<>> /\ lag = 0
  /\ cacheAge = 0 /\ sinceRequest = 0 /\ sendFailed = FALSE /\ busFailed = FALSE

\* Time passes while the daemon is held up, or (lag 0) until its next tick.
PassTime ==
  [inbox |-> [i \in 1 .. Len(inbox) |-> [inbox[i] EXCEPT !.age = Older(@)]],
   cache |-> Older(cacheAge)]
NoTime == [inbox |-> inbox, cache |-> cacheAge]

\* The daemon misses a deadline.
FallBehind ==
  /\ lag < MaxLag
  /\ lag' = lag + 1
  /\ inbox' = PassTime.inbox /\ cacheAge' = PassTime.cache
  /\ UNCHANGED <<vars, cache, nextRequest, sinceRequest, sendFailed, busFailed>>

\* Frames with the ECU's identifier, by what obd2_decode_response_byte looks at.
Frames == [dlc : {8, 7}, single : BOOLEAN, service : {"answer", "negative", "other"},
           length : {3, 4}, pidEchoed : BOOLEAN, value : Values]

\* obd2_decode_response_byte; every rejection is the same to the cache.
DecodeResponse(f) ==
  IF f.dlc = 8 /\ f.single /\ f.service = "answer" /\ f.length = 3 /\ f.pidEchoed
  THEN f.value ELSE NoValue

\* A frame reaches the socket; what it decodes to is settled by then.
EcuSends(value) ==
  /\ Len(inbox) < InboxRoom
  /\ inbox' = Append(inbox, [value |-> value, age |-> 0])
  /\ UNCHANGED <<vars, cache, nextRequest, lag, cacheAge, sinceRequest, sendFailed, busFailed>>

\* A bug the code could have: a rejected frame dates the cache as well.
DrainedDatesAll(frames, c, time) ==
  IF frames = <<>> THEN c
  ELSE LET last == frames[Len(frames)].value
       IN  [ever |-> (c.ever \/ last # NoValue),
            value |-> IF last = NoValue THEN c.value ELSE last, ms |-> time]

\* Where the answers that decode stand among the frames waiting.
Decoded(frames) == {i \in 1 .. Len(frames) : frames[i].value # NoValue}

\* bsp_socketcan_handle_frame over every frame waiting: the last answer that
\* decodes is cached and dated, the others leave the cache alone.
Drained(frames, c, time) ==
  IF Decoded(frames) = {} THEN c
  ELSE [ever |-> TRUE, value |-> frames[Max(Decoded(frames))].value, ms |-> time]

\* A bug the code could have: the next request is timed without the wrap.
DueUnwrapped(time) == time + Cadence

\* When the next request is due.
Due(time) == (time + Cadence) % Wrap

\* The drain reads some of the frames waiting: all of them, or those before
\* recv fails; the others stay in the socket.
Drain(waiting, read, time) ==
  LET taken == SubSeq(waiting.inbox, 1, read)
  IN  /\ cache' = Drained(taken, cache, time)
      /\ inbox' = SubSeq(waiting.inbox, read + 1, Len(waiting.inbox))
      /\ cacheAge' = IF Decoded(taken) = {} THEN waiting.cache
                     ELSE taken[Max(Decoded(taken))].age

\* bsp_socketcan_poll: a request when one is due, then the drain.  A full
\* transmit queue counts as sent; a send that fails ends the poll, so neither
\* the cadence nor the drain goes on.
Poll(outcome, time, waiting) ==
  LET due    == time >= nextRequest
      failed == due /\ outcome = "FAILED"
  IN  /\ nextRequest' = IF due /\ ~failed THEN Due(time) ELSE nextRequest
      /\ sinceRequest' = IF due THEN 0 ELSE IF sinceRequest < Wrap THEN sinceRequest + PeriodMs
                                            ELSE sinceRequest
      /\ sendFailed' = (sendFailed \/ failed)
      /\ \E read \in IF failed THEN {0} ELSE 0 .. Len(waiting.inbox) :
           /\ Drain(waiting, read, time)
           /\ busFailed' = (busFailed \/ failed \/ read < Len(waiting.inbox))

\* state->timeout_ms, a uint16_t made from a uint32_t.
BspTimeout == cfg.timeout % TimeoutRange

\* bsp_socketcan_read_into_sample: the cached answer until it is older than
\* the timeout; a timeout of zero is none.
Answered(c, time) ==
  /\ c.ever
  /\ BspTimeout = 0 \/ (time - c.ms + Wrap) % Wrap <= BspTimeout

\* A period of the daemon.  One that is late runs at once.
Period(outcome) ==
  LET time == (now + PeriodMs) % Wrap
  IN  /\ lag' = IF lag > 0 THEN lag - 1 ELSE 0
      /\ Poll(outcome, time, IF lag > 0 THEN NoTime ELSE PassTime)
      /\ Tick(IF Answered(cache', time) THEN cache'.value ELSE 0, Answered(cache', time))

ClearContext == ClearStale /\ UNCHANGED canVars

CanNext ==
  \/ \E outcome \in {"SENT", "AGAIN", "FAILED"} : Period(outcome)
  \/ FallBehind
  \/ \E value \in {DecodeResponse(f) : f \in Frames} : EcuSends(value)
  \/ ClearContext

CanSpec == CanInit /\ [][CanNext]_allVars

-----------------------------------------------------------------------------
\* How old can the speed be that the modifier works with?  As long as the bus
\* works and the last answer is not a whole wrap of now_ms away: the timeout,
\* the period it waited for the drain and what the daemon was behind.  No
\* later answer, error frame or wrap in between makes an older one fresh.
SpeedAgeBounded ==
  filter.valid /\ ~busFailed /\ cacheAge + MaxLag * PeriodMs < Wrap =>
    cacheAge <= cfg.timeout + (MaxLag + 1) * PeriodMs

\* As long as requests can be sent, whatever is received, and the period
\* divides the cadence, a request is tried in the first period that is Cadence
\* after the last one, across the wrap of now_ms.
CadenceKept == ~sendFailed => sinceRequest < Cadence

\* PRD: "Sends OBD-II request at 1 Hz", with the rollover of now_ms "handled
\* with (uint32_t)(a - b) subtraction throughout": whatever the bus does, a
\* request is tried again within the second.
RequestsKeepCadence == sinceRequest < Cadence
=============================================================================
