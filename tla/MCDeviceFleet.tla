---------------------------- MODULE MCDeviceFleet ----------------------------
(***************************************************************************)
(* Small fleets for TLC.                                                   *)
(***************************************************************************)
EXTENDS DeviceFleet, TLC

\* Handlers are interchangeable, and so are requests in flight.
Symmetry == Permutations(Sessions) \cup Permutations(Admins)
=============================================================================
