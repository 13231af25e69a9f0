------------------------------- MODULE FJMap -------------------------------
(***************************************************************************)
(* What FJFixMap promises: a map of at most Capacity keys.  The value of a *)
(* key that was just inserted is undefined until somebody stores one.      *)
(***************************************************************************)
EXTENDS FiniteSets, Integers

CONSTANTS Keys, Values, Capacity

VARIABLES map,    \* a function from the keys in the map to their values
          failed  \* an insertion found the map full

vars == <<map, failed>>

Init == map = << >> /\ failed = FALSE

Insert(key) ==
    /\ ~failed /\ key \notin DOMAIN map
    /\ Cardinality(DOMAIN map) < Capacity
    /\ \E v \in Values :
           map' = [k \in DOMAIN map \cup {key} |-> IF k = key THEN v ELSE map[k]]
    /\ UNCHANGED failed

InsertFails ==
    /\ ~failed /\ Cardinality(DOMAIN map) = Capacity
    /\ failed' = TRUE
    /\ UNCHANGED map

Store(key, v) ==
    /\ ~failed /\ key \in DOMAIN map
    /\ map' = [map EXCEPT ![key] = v]
    /\ UNCHANGED failed

Unset(key) ==
    /\ ~failed /\ key \in DOMAIN map
    /\ map' = [k \in DOMAIN map \ {key} |-> map[k]]
    /\ UNCHANGED failed

Clear == ~failed /\ map' = << >> /\ UNCHANGED failed

Next ==
    \/ \E key \in Keys : Insert(key) \/ Unset(key)
    \/ \E key \in Keys, v \in Values : Store(key, v)
    \/ InsertFails
    \/ Clear

Spec == Init /\ [][Next]_vars
=============================================================================
