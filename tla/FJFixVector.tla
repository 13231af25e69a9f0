---------------------------- MODULE FJFixVector ----------------------------
(***************************************************************************)
(* FJFixVector: a vector in memory that is given to it, with its item      *)
(* count in a variable of the caller's.                                    *)
(***************************************************************************)
EXTENDS Integers, SequencesExt

CONSTANTS Items,      \* records with a field msg, which sort compares
          Capacity,
          SizeMod,    \* SIZE_MAX + 1, where size_t wraps
          MaxErased   \* bound: the largest count that callers pass to splice

ASSUME VectorAssumption ==
    /\ Items # {}
    /\ Capacity \in Nat \ {0} /\ SizeMod \in Nat /\ MaxErased \in Nat
    /\ Capacity < SizeMod /\ MaxErased < SizeMod

VARIABLES buffer,  \* buffer_: the memory, also beyond count
          count,   \* *count_ptr_
          result   \* what the last push returned

vars == <<buffer, count, result>>

Slots == 0 .. Capacity - 1

(* The constructor: memory that may have been used before, and the caller's *)
(* count, any size_t, cut down to what the memory holds.                    *)
Inherited(given) == IF given > Capacity THEN Capacity ELSE given

Init ==
    /\ buffer \in [Slots -> Items]
    /\ \E given \in 0 .. SizeMod - 1 : count = Inherited(given)
    /\ result = TRUE

-----------------------------------------------------------------------------
FullLate == count > Capacity
Full == count >= Capacity

Refuse ==
    /\ Full
    /\ result' = FALSE
    /\ UNCHANGED <<buffer, count>>

PushBack(item) ==
    /\ ~Full
    /\ buffer' = [buffer EXCEPT ![count] = item]
    /\ count' = count + 1
    /\ result' = TRUE

(* memmove of n items within the buffer.                                   *)
MovedTooFew(dst, src, n) ==
    [i \in Slots |-> IF i >= dst /\ i + 1 < dst + n THEN buffer[i - dst + src] ELSE buffer[i]]
Moved(dst, src, n) ==
    [i \in Slots |-> IF i >= dst /\ i < dst + n THEN buffer[i - dst + src] ELSE buffer[i]]

PushFront(item) ==
    /\ ~Full
    /\ buffer' = [Moved(1, 0, count) EXCEPT ![0] = item]
    /\ count' = count + 1
    /\ result' = TRUE

Clamped(start, n) == IF (start + n) % SizeMod > count THEN count - start ELSE n

Splice(start, n) ==
    LET erased == Clamped(start, n)
        from == (start + erased) % SizeMod
    IN  /\ start < count
        /\ buffer' = Moved(start, from, count - from)
        /\ count' = (count - erased) % SizeMod
        /\ UNCHANGED result

(* std::sort is not stable: any sorted order of the items.                 *)
Sort ==
    /\ \E p \in SetToSeqs(0 .. count - 1) :
        /\ \A i, j \in 1 .. count : i < j => buffer[p[i]].msg <= buffer[p[j]].msg
        /\ buffer' = [i \in Slots |-> IF i < count THEN buffer[p[i + 1]] ELSE buffer[i]]
    /\ UNCHANGED <<count, result>>

Next ==
    \/ Refuse
    \/ \E item \in Items : PushBack(item) \/ PushFront(item)
    \/ \E start \in 0 .. Capacity, n \in 0 .. MaxErased : Splice(start, n)
    \/ Sort

Spec == Init /\ [][Next]_vars

-----------------------------------------------------------------------------
TypeOK ==
    /\ buffer \in [Slots -> Items]
    /\ count \in 0 .. Capacity
    /\ result \in BOOLEAN

Abstract == INSTANCE FJList WITH list <- [i \in 1 .. count |-> buffer[i - 1]]

(* The shifting of memory implements a list, of which splice erases some   *)
(* items from start on - as long as MaxErased rules out counts so huge     *)
(* that start + count wraps.                                               *)
ImplementsList == Abstract!Spec
=============================================================================
