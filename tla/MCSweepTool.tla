----------------------------- MODULE MCSweepTool -----------------------------
(* A sweep over the duties 12 and 3, on a line that may lose a byte.        *)
EXTENDS SweepTool

MCDuties == <<<<"1", "2">>, <<"3">>>>
=============================================================================
