--------------------------- MODULE MCSharedRegion ---------------------------
(***************************************************************************)
(* Instances of FJSharedRegion for TLC.                                    *)
(***************************************************************************)
EXTENDS FJSharedRegion

CONSTANTS a, b, r1, r2

Pids == [o \in Objs |-> IF o = a THEN 1 ELSE 2]
TwoNames == [o \in Objs |-> IF o = b THEN "other" ELSE "extra"]
=============================================================================
