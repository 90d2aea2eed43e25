-------------------------------- MODULE Filter --------------------------------
(***************************************************************************)
(* core/thermal_filter.c: the IIR filter of sensors and contexts and its    *)
(* validity.  A filter is [value, valid, initialized]; One stands for 2^16, *)
(* an even scale, and alpha for the coefficient on it.  Values stay far     *)
(* from the limits of int32_t here, so the final saturation is left out.    *)
(***************************************************************************)
EXTENDS Integers

CONSTANT One              \* Q16_ONE

ASSUME OneAssumption == One \in Nat \ {0} /\ One % 2 = 0

FilterReset == [value |-> 0, valid |-> FALSE, initialized |-> FALSE]

\* Division by One, rounded half away from zero.
Round(product) ==
  IF product >= 0 THEN (product + One \div 2) \div One
  ELSE -((-product + One \div 2) \div One)

\* A bug the code could have: the first sample is filtered from the reset
\* value.
FilterStepFromZero(f, alpha, sample, ok) ==
  IF ok THEN [value |-> f.value + Round(alpha * (sample - f.value)),
              valid |-> TRUE, initialized |-> TRUE]
  ELSE [f EXCEPT !.valid = FALSE]

\* thermal_filter_step: an invalid sample keeps the value, the first valid
\* one sets it, later ones move it.
FilterStep(f, alpha, sample, ok) ==
  CASE ~ok                  -> [f EXCEPT !.valid = FALSE]
    [] ok /\ ~f.initialized -> [value |-> sample, valid |-> TRUE, initialized |-> TRUE]
    [] ok /\ f.initialized  -> [f EXCEPT !.valid = TRUE,
                                         !.value = @ + Round(alpha * (sample - @))]
=============================================================================
