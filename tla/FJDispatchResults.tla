------------------------- MODULE FJDispatchResults -------------------------
(***************************************************************************)
(* Handles and the result table of FJDispatchLite: what getHandle does     *)
(* under mutex_, and what _new_resultitem, _post_resultitem and the body   *)
(* of waitResult's loop do under result_mutex_.  FJDispatchLite.tla        *)
(* extends this module and composes these actions with the worker pool.    *)
(***************************************************************************)
EXTENDS Integers, SequencesExt

CONSTANTS HandleMax,   \* INT64_MAX, where handle_counter_ wraps
          MaxResults,  \* FJDISPATCHLITE_MAX_RESULTS
          NoItem       \* the handle is not in results_

ASSUME ResultsAssumption ==
    /\ HandleMax \in Nat /\ HandleMax > 1
    /\ MaxResults \in Nat \ {0}
    /\ NoItem \notin [ready : BOOLEAN, value : Nat]

Handles == 1 .. HandleMax

VARIABLES handle_counter,  \* handle_counter_
          results,         \* results_
          result_order     \* result_order_

tableVars == <<results, result_order>>

(* A ResultItem.  The value a task returns is abstracted to the handle of  *)
(* the task, so that one task's result cannot pass for another's.          *)
Pending == [ready |-> FALSE, value |-> 0]
Posted(v) == [ready |-> TRUE, value |-> v]
Items == {Pending} \cup {Posted(v) : v \in Handles}

ResultsInit ==
    /\ handle_counter = 0
    /\ results = [h \in Handles |-> NoItem]
    /\ result_order = <<>>

(* getHandle: the counter wraps to 1, so 1 is given out only once.         *)
NextHandle == handle_counter + 1
GetHandle ==
    handle_counter' = IF NextHandle >= HandleMax THEN 1 ELSE NextHandle

TooManyLate(order) == Len(order) > MaxResults + 1
TooMany(order) == Len(order) > MaxResults

(* _new_resultitem: register h and drop the oldest result, ready or not,   *)
(* when there are too many.                                                *)
NewResultItem(h) ==
    LET added == [results EXCEPT ![h] = Pending]
        order == Append(result_order, h)
    IN  IF TooMany(order)
        THEN /\ result_order' = Tail(order)
             /\ results' = [added EXCEPT ![Head(order)] = NoItem]
        ELSE /\ result_order' = order
             /\ results' = added

PostResultItemNotReady(h, v) ==
    /\ results' = IF results[h] # NoItem THEN [results EXCEPT ![h].value = v]
                  ELSE results
    /\ UNCHANGED result_order

(* _post_resultitem: nothing happens when h was evicted meanwhile.         *)
PostResultItem(h, v) ==
    /\ results' = IF results[h] # NoItem THEN [results EXCEPT ![h] = Posted(v)]
                  ELSE results
    /\ UNCHANGED result_order

(* The test of waitResult's loop.                                          *)
Available(h) == results[h] # NoItem /\ results[h].ready

-----------------------------------------------------------------------------
ResultsTypeOK ==
    /\ handle_counter \in 0 .. HandleMax - 1
    /\ results \in [Handles -> Items \cup {NoItem}]
    /\ result_order \in Seq(Handles)

(* The table and its eviction order never drift apart: the registered      *)
(* handles are those in result_order_, each once, and at most MaxResults.  *)
TableConsistent ==
    /\ Len(result_order) <= MaxResults
    /\ \A h \in Handles : results[h] # NoItem <=> h \in ToSet(result_order)
    /\ \A i, j \in DOMAIN result_order : result_order[i] = result_order[j] => i = j
=============================================================================
