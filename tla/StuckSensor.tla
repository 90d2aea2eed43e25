----------------------------- MODULE StuckSensor -----------------------------
(***************************************************************************)
(* The stuck-sensor detector of one sensor (thermal_fault_stuck_sensor_step *)
(* in core/thermal_fault.c): a window over the filtered value and the       *)
(* correlated context, checked once per window_ticks valid samples, feeding *)
(* the shared fault machine on every tick.                                  *)
(*                                                                         *)
(* The thresholds are valid ones: a window of at least two samples (one     *)
(* sample is always flat), a positive context delta (rule 46).              *)
(***************************************************************************)
EXTENDS FaultFsm, Integers, SequencesExt

CONSTANTS StuckCfgs,      \* stuck_sensor_defaults considered: FsmConfigs with
                          \* window, delta, ctxDelta and flatOnly added
          Values,         \* filtered values of the sensor
          CtxValues,      \* values of the correlated context
          NoCtx           \* the context is invalid this tick

ASSUME StuckAssumption ==
  \A c \in StuckCfgs :
    /\ c.persist \in Counters /\ c.recovery \in Counters
    /\ c.severity \in Severities /\ c.action \in FaultActions
    /\ c.window \in Nat \ {0, 1} /\ c.delta \in Nat /\ c.ctxDelta \in Nat \ {0}
    /\ c.flatOnly \in BOOLEAN

ASSUME ValuesAssumption == Values \subseteq Int

VARIABLES stuckCfg,       \* stuck_sensor_defaults
          stuck,          \* the shared machine
          value, valid,   \* the sensor's filter as of this tick
          w,              \* the window: [count, min, max, ctx] with ctx the
                          \* context values seen in it (their min, max, count)
          samples         \* ghost: the last window valid samples, oldest first

stuckVars == <<stuckCfg, stuck, value, valid, w, samples>>

Spread(S) == IF S = {} THEN 0 ELSE Max(S) - Min(S)

EmptyWindow == [count |-> 0, min |-> 0, max |-> 0, ctx |-> {}]

StuckInit ==
  /\ stuckCfg \in StuckCfgs
  /\ stuck = FsmReset
  /\ value \in Values /\ valid = FALSE
  /\ w = EmptyWindow
  /\ samples = <<>>

\* The context values a tick adds to the window.
CtxSeen(ctx) == IF stuckCfg.flatOnly \/ ctx = NoCtx THEN {} ELSE {ctx}

\* The window after a tick with the filtered value v; an invalid tick leaves
\* it alone.
Accumulate(v, ok, ctx) ==
  IF ~ok THEN w
  ELSE IF w.count = 0 THEN [count |-> 1, min |-> v, max |-> v, ctx |-> CtxSeen(ctx)]
  ELSE [count |-> w.count + 1,
        min   |-> IF v < w.min THEN v ELSE w.min,
        max   |-> IF v > w.max THEN v ELSE w.max,
        ctx   |-> w.ctx \cup CtxSeen(ctx)]

Full(win) == win.count >= stuckCfg.window

\* A bug the code could have: the context of the window is not looked at.
FlatWhateverContext(win) == win.max - win.min < stuckCfg.delta

\* A bug the code could have: without a correlated context nothing is flat.
FlatNeedsContext(win) ==
  Spread(win.ctx) >= stuckCfg.ctxDelta /\ win.max - win.min < stuckCfg.delta

\* The condition of a full window: flat while the context moved, or flat at
\* all in flatness-only mode.
Flat(win) ==
  /\ stuckCfg.flatOnly \/ Spread(win.ctx) >= stuckCfg.ctxDelta
  /\ win.max - win.min < stuckCfg.delta

\* A bug the code could have: the next window keeps the old extremes.
NextWindowKeeps(win, v, ok, ctx) == [win EXCEPT !.count = IF ok THEN 1 ELSE 0]

\* The window that follows a check starts with the sample of the check.
NextWindow(win, v, ok, ctx) ==
  [count |-> IF ok THEN 1 ELSE 0, min |-> v, max |-> v,
   ctx   |-> IF ok THEN CtxSeen(ctx) ELSE {}]

\* One tick; on an invalid one the filter keeps its value.
StuckTick(v, ok, ctx) ==
  LET new == IF ok THEN v ELSE value
      win == Accumulate(new, ok, ctx)
  IN  /\ value' = new /\ valid' = ok
      /\ stuck' = FsmTick(stuck, Full(win) /\ Flat(win), stuckCfg)
      /\ w' = IF Full(win) THEN NextWindow(win, new, ok, ctx) ELSE win
      /\ samples' = IF ~ok THEN samples
                   ELSE LET longer == Append(samples, [v |-> v, ctx |-> ctx])
                        IN  IF Len(longer) > stuckCfg.window THEN Tail(longer) ELSE longer
      /\ UNCHANGED stuckCfg

\* CMD_CLEAR_FAULT: thermal_fault_stuck_sensor_reset also drops the window.
ClearStuck ==
  /\ ClearAllowed(stuck, stuckCfg)
  /\ stuck' = FsmReset /\ w' = EmptyWindow
  /\ UNCHANGED <<stuckCfg, value, valid, samples>>

StuckTicks ==
  \E v \in Values, ok \in BOOLEAN, ctx \in CtxValues \cup {NoCtx} : StuckTick(v, ok, ctx)

StuckNext == StuckTicks \/ ClearStuck

StuckSpec == StuckInit /\ [][StuckNext]_stuckVars

-----------------------------------------------------------------------------
RecentFlat == Spread({samples[i].v : i \in 1 .. Len(samples)}) < stuckCfg.delta

RecentCtx == {samples[i].ctx : i \in 1 .. Len(samples)} \ {NoCtx}

\* A fault is only raised on a sensor whose last window_ticks valid samples
\* were flat, with the context moving by its delta among them: no extreme of
\* an older window, no sample from before a clear, counts.
RaisedOnlyWhenFlat ==
  [][stuck.state = "NORMAL" /\ stuck'.state # "NORMAL" =>
       /\ Len(samples') = stuckCfg.window /\ RecentFlat'
       /\ stuckCfg.flatOnly \/ Spread(RecentCtx') >= stuckCfg.ctxDelta]_stuckVars

\* The window is exactly what it covers: its extremes are those of the last
\* count valid samples.
WindowFaithful ==
  w.count > 0 =>
    LET covered == {samples[i].v : i \in Len(samples) - w.count + 1 .. Len(samples)}
    IN  w.count <= Len(samples) /\ w.min = Min(covered) /\ w.max = Max(covered)

\* A sensor that delivers the same value for ever is found, again and again,
\* where one flat window is enough (persist_ticks <= 1).
StuckForeverCaught ==
  \A x \in Values :
    /\ stuckCfg.flatOnly /\ stuckCfg.persist <= 1 /\ stuckCfg.delta > 0
    /\ <>[](valid /\ value = x)
    => []<>(stuck.state \in ActiveStates)

\* The condition as of now: the sensor delivers, and its last window_ticks
\* samples were flat, with the context moving by its delta among them.
StillStuck ==
  /\ valid /\ Len(samples) = stuckCfg.window /\ RecentFlat
  /\ stuckCfg.flatOnly \/ Spread(RecentCtx) >= stuckCfg.ctxDelta

\* thermal-core-prd.md section 4.7: CMD_CLEAR_FAULT "succeeds only when the
\* underlying detector condition is no longer present".
ClearedHasMoved ==
  [][stuck.state = "LATCHED" /\ stuck'.state = "NORMAL" => ~StillStuck]_stuckVars
=============================================================================
