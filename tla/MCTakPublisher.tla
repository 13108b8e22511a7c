---------------------------- MODULE MCTakPublisher ----------------------------
(***************************************************************************)
(* A few detections for TLC, one of them published twice.                  *)
(***************************************************************************)
EXTENDS TakPublisher

CONSTANTS m1, m2, m3, d1, d2

\* m1 and m2 are two copies of one detection.
Twins == [m \in Messages |-> IF m \in {m1, m2} THEN d1 ELSE d2]
=============================================================================
