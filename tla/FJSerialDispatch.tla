------------------------- MODULE FJSerialDispatch -------------------------
(***************************************************************************)
(* What the dispatcher promises to the users of an FJUnitFrames object,    *)
(* with no threads, no mutex and no ready queue: every object has a FIFO   *)
(* of tasks; tasks leave it in the order they were posted; and as long as  *)
(* only sequential tasks (isseq = true) are outstanding on the object, one *)
(* task of it is executed at a time.  FJDispatchPool implements this.      *)
(***************************************************************************)
EXTENDS SequencesExt

CONSTANTS Objs,   \* the FJUnitFrames objects
          Tasks   \* identities of outstanding tasks

VARIABLES queue,      \* queue[o]: posted tasks of o that have not started
          executing,  \* executing[o]: tasks of o being executed
          mixed       \* objects that may have a parallel task outstanding

vars == <<queue, executing, mixed>>

Outstanding == UNION {ToSet(queue[o]) \cup executing[o] : o \in Objs}

Init ==
    /\ queue = [o \in Objs |-> <<>>]
    /\ executing = [o \in Objs |-> {}]
    /\ mixed = {}

(* A parallel post makes the object mixed; it may stop being mixed only    *)
(* with a sequential post that finds nothing outstanding on the object.    *)
Post(o, t, isseq) ==
    /\ t \notin Outstanding
    /\ queue' = [queue EXCEPT ![o] = Append(@, t)]
    /\ \/ ~isseq /\ mixed' = mixed \cup {o}
       \/ isseq /\ mixed' = mixed
       \/ /\ isseq /\ queue[o] = <<>> /\ executing[o] = {}
          /\ mixed' = mixed \ {o}
    /\ UNCHANGED executing

Start(o) ==
    /\ queue[o] # <<>>
    /\ o \in mixed \/ executing[o] = {}
    /\ executing' = [executing EXCEPT ![o] = @ \cup {Head(queue[o])}]
    /\ queue' = [queue EXCEPT ![o] = Tail(@)]
    /\ UNCHANGED mixed

Complete(o, t) ==
    /\ t \in executing[o]
    /\ executing' = [executing EXCEPT ![o] = @ \ {t}]
    /\ UNCHANGED <<queue, mixed>>

Next ==
    \E o \in Objs :
        \/ \E t \in Tasks, isseq \in BOOLEAN : Post(o, t, isseq)
        \/ Start(o)
        \/ \E t \in Tasks : Complete(o, t)

Spec == Init /\ [][Next]_vars
=============================================================================
