-------------------------- MODULE MCDispatchPool --------------------------
(***************************************************************************)
(* Instances of FJDispatchPool for TLC.                                    *)
(***************************************************************************)
EXTENDS FJDispatchPool

CONSTANTS o1, o2, s1, s2, p1

TwoObjs == {o1, o2}
TwoSeq == {s1, s2}
TwoSeqOnePar == {s1, s2, p1}
=============================================================================
