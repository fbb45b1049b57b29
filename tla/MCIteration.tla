------------------------------ MODULE MCIteration ------------------------------
(* Two loops, one in the other, over three features or three elements. *)
EXTENDS Iteration
===============================================================================
