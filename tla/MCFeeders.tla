------------------------------- MODULE MCFeeders -------------------------------
(***************************************************************************)
(* Two flybys, one right after the other or within it; one flyby alone     *)
(* comes from the labels.                                                  *)
(***************************************************************************)
EXTENDS Feeders

TwoLists == {{<<0, 1>>, <<1, 2>>}, {<<0, 2>>, <<1, 2>>}}
=============================================================================
