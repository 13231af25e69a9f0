---------------------------- MODULE MCFixVector ----------------------------
(***************************************************************************)
(* Instances of FJFixVector for TLC.                                       *)
(***************************************************************************)
EXTENDS FJFixVector

(* Two items that sort cannot tell apart, one before and one after them.   *)
FourItems == {[msg |-> 1, id |-> 0], [msg |-> 2, id |-> 0],
              [msg |-> 2, id |-> 1], [msg |-> 3, id |-> 0]}
=============================================================================
