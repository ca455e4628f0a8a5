----------------------------- MODULE MCKeyPress -----------------------------
(***************************************************************************)
(* Model-checking instances of KeyPress.  The clock has 8 values instead   *)
(* of 2^32, the threshold is 2 ticks instead of 500000 us and a hold lasts *)
(* up to one tick short of half the clock's range; with three buttons and  *)
(* the stream's hazards the clock has 5 values and a hold at most 2 ticks. *)
(***************************************************************************)
EXTENDS KeyPress, TLC

(* The buttons are interchangeable: used where no liveness is checked.     *)
KeySymmetry == Permutations(Keys)
=============================================================================
