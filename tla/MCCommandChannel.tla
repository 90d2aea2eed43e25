-------------------------- MODULE MCCommandChannel --------------------------
(* The zones of MCZoneControl; an operator who moves the board's CRITICAL    *)
(* trip up and down, and once beyond what the fallback reaches.              *)
EXTENDS MCZoneControl, CommandChannel

MCToolCommands == {[zone |-> "board", trip |-> 2, temp |-> t, hyst |-> 0] : t \in {2, 3, 4}}

\* Proportional, integral and derivative gains by themselves and together,
\* also negative, and with a proportional part that works against the
\* integral; the last two are out of bounds, above and below.
MCGain(p, i, d) == [kp |-> p, ki |-> i, kd |-> d]
MCGainMin == MCGain(-2, -3, -1)
MCGainMax == MCGain(2, 3, 1)
MCGains == {MCGain(0, 2, 0), MCGain(2, 3, 0), MCGain(0, 3, 1), MCGain(1, 2, 1),
            MCGain(-2, 3, 0), MCGain(2, -3, 1), MCGain(-1, -2, -1),
            MCGain(1, 4, 0), MCGain(-3, 2, 0)}
MCQMin == -64
=============================================================================
