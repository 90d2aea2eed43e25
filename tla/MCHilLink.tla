------------------------------- MODULE MCHilLink -------------------------------
(***************************************************************************)
(* The link with headers that may claim two units, so that a bad claim      *)
(* swallows part of the frame behind it, and room for a frame and a part of  *)
(* the next on the line, so that reads may cut frames anywhere.              *)
(***************************************************************************)
EXTENDS HilLink

MCDuties == {0, 255}
=============================================================================
