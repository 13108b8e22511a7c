----------------------------- MODULE MCInference -----------------------------
(***************************************************************************)
(* Three frames of one device, each long enough to fire alone.             *)
(***************************************************************************)
EXTENDS Inference

CONSTANTS d1, f1, f2, f3

AllFromOne == [f \in Frames |-> d1]

Times == [f \in Frames |-> CASE f = f1 -> 1 [] f = f2 -> 3 [] OTHER -> 2]

Lengths == [f \in Frames |-> 2]
=============================================================================
