---------------------------- MODULE MCTimerLite ----------------------------
(***************************************************************************)
(* Instances of FJTimerLite for TLC.                                       *)
(***************************************************************************)
EXTENDS FJTimerLite

CONSTANTS h1, h2, h3

TwoHandles == {h1, h2}
ThreeHandles == {h1, h2, h3}
ShortAndLong == {15, 30}
TooShortAndShort == {14, 15}
NoBase == {}
Bases == {14, 100, 3000}
=============================================================================
