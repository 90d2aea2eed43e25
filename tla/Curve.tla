-------------------------------- MODULE Curve --------------------------------
(***************************************************************************)
(* core/thermal_curve.c: integer linear interpolation over a curve of       *)
(* points with two outputs.  A point is [x, cap, offset]; `field` plays the *)
(* part of curve_eval_axis's axis argument ("cap" is value0, "offset" is    *)
(* value1).  Curves here are not empty: every curve the program evaluates   *)
(* has been validated to have at least two points.                          *)
(***************************************************************************)
EXTENDS Integers, Sequences

\* C99 division truncates toward zero.
TruncDiv(n, m) == IF n >= 0 THEN n \div m ELSE -((-n) \div m)

\* The x axis is strictly increasing.
CurveOrdered(curve) ==
  \A i \in 1 .. Len(curve) - 1 : curve[i].x < curve[i + 1].x

\* The segment the scan stops at: curve[i].x < x <= curve[i + 1].x.
Segment(curve, x) ==
  CHOOSE i \in 1 .. Len(curve) - 1 : curve[i].x < x /\ x <= curve[i + 1].x

Interpolate(p, q, field, x) ==
  p[field] + TruncDiv((x - p.x) * (q[field] - p[field]), q.x - p.x)

CurveEval(curve, field, x) ==
  IF x <= curve[1].x THEN curve[1][field]
  ELSE IF x >= curve[Len(curve)].x THEN curve[Len(curve)][field]
  ELSE LET i == Segment(curve, x) IN Interpolate(curve[i], curve[i + 1], field, x)
=============================================================================
