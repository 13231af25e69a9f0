-------------------------- MODULE MCDispatchLite --------------------------
(***************************************************************************)
(* Instances of FJDispatchLite for TLC.                                    *)
(***************************************************************************)
EXTENDS FJDispatchLite

CONSTANTS c1, o1

OneClient == {c1}
OneObj == {o1}
SeqAndPar == BOOLEAN
=============================================================================
