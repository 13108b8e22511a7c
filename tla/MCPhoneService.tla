----------------------------- MODULE MCPhoneService -----------------------------
(* PhoneService for TLC: without a network, and with cellular data. *)
EXTENDS PhoneService

TwoNetworks ==
  {[wifi |-> FALSE, cellular |-> FALSE, validated |-> FALSE, sim |-> TRUE],
   [wifi |-> FALSE, cellular |-> TRUE, validated |-> TRUE, sim |-> TRUE]}
=============================================================================
