------------------------------ MODULE FJList ------------------------------
(***************************************************************************)
(* What FJFixVector promises: a list of at most Capacity items, ordered by *)
(* their field msg when it is sorted.                                      *)
(***************************************************************************)
EXTENDS Integers, SequencesExt

CONSTANTS Items, Capacity

VARIABLES list,   \* the items, in order
          result  \* what the last push returned

vars == <<list, result>>

(* A list may be made over items that are there already.                   *)
Init == (\E n \in 0 .. Capacity : list \in [1 .. n -> Items]) /\ result = TRUE

(* A push is refused when and only when the list is full.                  *)
Refuse == Len(list) = Capacity /\ result' = FALSE /\ UNCHANGED list

PushBack(item) ==
    /\ Len(list) < Capacity
    /\ list' = Append(list, item)
    /\ result' = TRUE

PushFront(item) ==
    /\ Len(list) < Capacity
    /\ list' = <<item>> \o list
    /\ result' = TRUE

(* Remove n items, or as many as there are, from 0-based index start on.   *)
Splice(start, n) ==
    /\ start < Len(list)
    /\ list' = SubSeq(list, 1, start) \o SubSeq(list, start + n + 1, Len(list))
    /\ UNCHANGED result

(* Any order of the same items without an inversion.                       *)
Occurrences(s, item) == Cardinality({i \in DOMAIN s : s[i] = item})
Sort ==
    /\ Len(list') = Len(list)
    /\ \A item \in Items : Occurrences(list', item) = Occurrences(list, item)
    /\ \A i, j \in DOMAIN list : i < j => list'[i].msg <= list'[j].msg
    /\ UNCHANGED result

Next ==
    \/ Refuse
    \/ \E item \in Items : PushBack(item) \/ PushFront(item)
    \/ \E start, n \in 0 .. Capacity + 1 : Splice(start, n)
    \/ Sort

Spec == Init /\ [][Next]_vars
=============================================================================
