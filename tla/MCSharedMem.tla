---------------------------- MODULE MCSharedMem ----------------------------
(***************************************************************************)
(* Instances of FJSharedMem for TLC.                                       *)
(***************************************************************************)
EXTENDS FJSharedMem

CONSTANTS a, b, c, s1

Pids == [o \in Objs |-> IF o = a THEN 1 ELSE 2]
Distinct == [o \in Objs |-> IF o = a THEN 1 ELSE IF o = b THEN 2 ELSE 3]
AcrossProcesses == [o \in Objs |-> IF o = b THEN 2 ELSE 1]
Lists == [o \in Objs |-> {1}]
TwoLists == [o \in Objs |-> IF o = a THEN {2} ELSE {1}]
OnlyB == [o \in Objs |-> IF o = b THEN {1} ELSE {}]
=============================================================================
