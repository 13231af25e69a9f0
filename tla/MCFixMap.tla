------------------------------ MODULE MCFixMap ------------------------------
(***************************************************************************)
(* Instances of FJFixMap for TLC.                                          *)
(***************************************************************************)
EXTENDS FJFixMap

FiveKeys == 1 .. 5
TwoValues == {0, 1}
=============================================================================
