----------------------------- MODULE FJFixMap -----------------------------
(***************************************************************************)
(* FJFixMap: a map in an array of entries with ascending keys, found by    *)
(* binary search.  insert and find return a pointer into the array, which  *)
(* is good until the next insert, unset or clear moves entries: a caller's *)
(* pointer is modelled for that long.                                      *)
(***************************************************************************)
EXTENDS Integers, FiniteSetsExt

CONSTANTS Keys, Values, Capacity,
          None  \* no pointer

ASSUME MapAssumption == Keys \subseteq Nat /\ Capacity \in Nat \ {0}

VARIABLES entries,  \* entries_, the memory: also beyond count
          count,    \* *count_ptr_
          ptr,      \* the entry a caller's pointer points into
          aborted   \* insert's assertion has failed

vars == <<entries, count, ptr, aborted>>

Slots == 0 .. Capacity - 1

(* The memory that the map is built in may hold anything.                  *)
Init ==
    /\ \E key \in Keys, v \in Values : entries = [i \in Slots |-> [key |-> key, value |-> v]]
    /\ count = 0
    /\ ptr = None
    /\ aborted = FALSE

-----------------------------------------------------------------------------
(* _find_index: the index of key, or -1.                                   *)
SearchSkipsMid(key) ==
    LET search[range \in (0 .. count) \X (-1 .. count)] ==
            LET left == range[1]
                right == range[2]
                mid == (left + right) \div 2
            IN  IF left >= right THEN -1
                ELSE IF entries[mid].key = key THEN mid
                ELSE IF entries[mid].key < key THEN search[<<mid + 1, right>>]
                ELSE search[<<left, mid - 1>>]
    IN  search[<<0, count>>]
FindIndex(key) ==
    LET search[range \in (0 .. count) \X (0 .. count)] ==
            LET left == range[1]
                right == range[2]
                mid == (left + right) \div 2
            IN  IF left >= right THEN -1
                ELSE IF entries[mid].key = key THEN mid
                ELSE IF entries[mid].key < key THEN search[<<mid + 1, right>>]
                ELSE search[<<left, mid>>]
    IN  search[<<0, count>>]

InsertPosEnd(key) == count
InsertPos(key) == Min({count} \cup {i \in 0 .. count - 1 : ~(entries[i].key < key)})

FullLate == count > Capacity
Full == count >= Capacity

(* The new entry keeps the value that its slot happens to hold.            *)
Inserted(key) ==
    LET pos == InsertPos(key) IN
    [i \in Slots |-> IF i > pos /\ i <= count THEN entries[i - 1]
                     ELSE IF i = pos THEN [entries[i] EXCEPT !.key = key]
                     ELSE entries[i]]

Insert(key) ==
    /\ ~aborted
    /\ FindIndex(key) < 0
    /\ ~Full
    /\ entries' = Inserted(key)
    /\ count' = count + 1
    /\ ptr' = InsertPos(key)
    /\ UNCHANGED aborted

InsertAborts(key) ==
    /\ ~aborted
    /\ FindIndex(key) < 0
    /\ Full
    /\ aborted' = TRUE
    /\ UNCHANGED <<entries, count, ptr>>

(* find, and insert of a key that is there.                                *)
Find(key) ==
    /\ ~aborted
    /\ FindIndex(key) >= 0
    /\ ptr' = FindIndex(key)
    /\ UNCHANGED <<entries, count, aborted>>

ShiftTooFew(idx) == [i \in Slots |-> IF i >= idx /\ i + 2 < count THEN entries[i + 1] ELSE entries[i]]
ShiftDown(idx) == [i \in Slots |-> IF i >= idx /\ i + 1 < count THEN entries[i + 1] ELSE entries[i]]

Unset(key) ==
    /\ ~aborted
    /\ FindIndex(key) >= 0
    /\ entries' = ShiftDown(FindIndex(key))
    /\ count' = count - 1
    /\ ptr' = None
    /\ UNCHANGED aborted

Clear ==
    /\ ~aborted
    /\ count' = 0
    /\ ptr' = None
    /\ UNCHANGED <<entries, aborted>>

(* The caller writes through its pointer, before any other call can move   *)
(* the entry.                                                              *)
Store(v) ==
    /\ ~aborted
    /\ ptr # None
    /\ entries' = [entries EXCEPT ![ptr].value = v]
    /\ UNCHANGED <<count, ptr, aborted>>

Next ==
    \/ \E key \in Keys :
        Insert(key) \/ InsertAborts(key) \/ Find(key) \/ Unset(key)
    \/ \E v \in Values : Store(v)
    \/ Clear

Spec == Init /\ [][Next]_vars

-----------------------------------------------------------------------------
KeysIn == {entries[i].key : i \in 0 .. count - 1}

TypeOK ==
    /\ entries \in [Slots -> [key : Keys, value : Values]]
    /\ count \in 0 .. Capacity
    /\ ptr \in Slots \cup {None}

(* Over any sequence of insert and unset the keys stay strictly ascending, *)
(* which binary search relies on.                                          *)
KeysAscending ==
    \A i, j \in 0 .. count - 1 : i < j => entries[i].key < entries[j].key

(* Binary search finds exactly what a linear search would find.            *)
SearchFinds ==
    \A key \in Keys :
        IF key \in KeysIn THEN \E i \in 0 .. count - 1 : entries[i].key = key /\ FindIndex(key) = i
        ELSE FindIndex(key) = -1

Abstract == INSTANCE FJMap WITH
    map <- [key \in KeysIn |->
               (CHOOSE e \in {entries[i] : i \in 0 .. count - 1} : e.key = key).value],
    failed <- aborted

(* The sorted array implements a map: shifting entries never loses,        *)
(* duplicates or mixes up the values of the other keys, and an insertion   *)
(* fails only when the map is full.                                        *)
ImplementsMap == Abstract!Spec
=============================================================================
