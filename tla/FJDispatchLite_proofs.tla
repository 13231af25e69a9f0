----------------------- MODULE FJDispatchLite_proofs -----------------------
(***************************************************************************)
(* Proofs about FJDispatchLite for any callers, objects, numbers of        *)
(* threads, handles and kept results: type correctness, the result table,  *)
(* waitResult, the monitor and the shutdown.                               *)
(***************************************************************************)
EXTENDS FJDispatchLite, SequenceTheorems, FiniteSetTheorems, TLAPS

PoolProofs == INSTANCE FJDispatchPool_proofs WITH Tasks <- Handles, SeqTasks <- Handles

-----------------------------------------------------------------------------
(* The inductive invariant.                                                *)

(* A call that has its handle but has not yet queued its task is the only  *)
(* place where that handle is: no other post has it, no task with it is    *)
(* queued, executed or completed, and before Register no result is there.  *)
PostingNow(t) == call[t].phase \in {"Handle", "Item"}
Private(t) ==
    /\ call[t].h \in Handles /\ call[t].obj \in Objs
    /\ call[t].h \notin Pool!Outstanding \cup completed
    /\ call[t].phase = "Handle" => results[call[t].h] = NoItem /\ call[t].h \notin untracked
PostingInv ==
    /\ \A t \in Callers : PostingNow(t) => Private(t)
    /\ \A t, u \in Callers :
        PostingNow(t) /\ PostingNow(u) /\ call[t].h = call[u].h => t = u

(* waitResult waits for handles.                                           *)
WaitingInv == \A t \in Callers : call[t].phase = "Wait" => call[t].h \in Handles

(* A result is ready only with the value of its own task, which has        *)
(* completed; tasks of enqueueTask have none.                              *)
ReadyInv ==
    \A h \in Handles : Available(h) => results[h] = Posted(h) /\ h \in completed
UntrackedInv == \A h \in untracked : results[h] = NoItem

(* Once stop_ is set, workers that the joins do not cover hold no task.    *)
Late(w) == dtor \in {"JoinWorkers", "Destroyed"} /\ w > joining
ShutdownInv ==
    /\ dtor # "Live" => stop
    /\ \A w \in Workers : Late(w) => pc[w] \notin Pool!Holding
    /\ dtor = "Destroyed" => \A w \in 1 .. joining : pc[w] = "Exited"

ResultsInv ==
    /\ PostingInv /\ WaitingInv
    /\ TableConsistent /\ ReadyInv /\ UntrackedInv /\ ResultNotLost /\ WaitHonest
WorkersInv == MonitorNamesCurrent /\ ShutdownInv
IInv == TypeOK /\ ResultsInv /\ WorkersInv

-----------------------------------------------------------------------------
(* What a step of the pool does to the workers and to the tasks that are   *)
(* outstanding; its types come from the proofs about the pool alone.       *)

Stays(w) == pc'[w] = pc[w] /\ task'[w] = task[w]
Moves(w) ==
    /\ pc[w] \notin {"Running", "Finishing", "Exited"} /\ pc'[w] \notin {"Running", "Finishing"}
    /\ pc'[w] \in Pool!Holding => pc[w] \in Pool!Holding \/ ~stop

(* The pool of this module and the one of the pool's proofs are the same.  *)
LEMMA SamePool ==
    /\ PoolProofs!PoolAssumption <=> Pool!PoolAssumption
    /\ PoolProofs!TypeOK <=> Pool!TypeOK
    /\ PoolProofs!TypeOK' <=> Pool!TypeOK'
    /\ PoolProofs!Holding = Pool!Holding /\ PoolProofs!Workers = Workers
  BY DEF Workers, Pool!PoolAssumption, PoolProofs!PoolAssumption, Pool!TypeOK,
     PoolProofs!TypeOK, Pool!Workers, PoolProofs!Workers, Pool!Locations,
     PoolProofs!Locations, Pool!Holding, PoolProofs!Holding

(* ... and so are their posts, their workers' steps and their stops.       *)
LEMMA SamePost ==
    ASSUME NEW o, NEW h, NEW isseq, Pool!Post(o, h, isseq)
    PROVE  PoolProofs!Post(o, h, isseq)
  BY DEF ToSet, Pool!ToSet, PoolProofs!ToSet, Pool!Post, PoolProofs!Post,
     Pool!Outstanding, PoolProofs!Outstanding, Pool!Activates, PoolProofs!Activates,
     Pool!SignalCv, PoolProofs!SignalCv, Pool!AdjustWorkers,
     PoolProofs!AdjustWorkers, Pool!SpawnNeeded, PoolProofs!SpawnNeeded,
     Pool!Holders, PoolProofs!Holders, Pool!InReady, PoolProofs!InReady,
     Pool!Workers, PoolProofs!Workers, Pool!Holding, PoolProofs!Holding

LEMMA SameSteps ==
    ASSUME NEW w
    PROVE  /\ Pool!WorkerStep(w) => PoolProofs!WorkerStep(w)
           /\ Pool!Wake(w) => PoolProofs!Wake(w)
  BY DEF Pool!WorkerStep, PoolProofs!WorkerStep, Pool!Sleep, PoolProofs!Sleep,
     Pool!Wake, PoolProofs!Wake, Pool!Exit, PoolProofs!Exit, Pool!Skip,
     PoolProofs!Skip, Pool!Take, PoolProofs!Take, Pool!Begin, PoolProofs!Begin,
     Pool!Return, PoolProofs!Return, Pool!Finish, PoolProofs!Finish, Pool!Rearm,
     PoolProofs!Rearm, Pool!SignalCv, PoolProofs!SignalCv, Pool!Workers,
     PoolProofs!Workers, Pool!Holding, PoolProofs!Holding

LEMMA SameStop == Pool!Stop => PoolProofs!Stop
  BY DEF Pool!Stop, PoolProofs!Stop, Pool!BroadcastCv, PoolProofs!BroadcastCv,
     Pool!Workers, PoolProofs!Workers

(* A post wakes or spawns workers, and its task is the only new one.       *)
LEMMA PoolPost ==
    ASSUME TypeOK, NEW o \in Objs, NEW h \in Handles, NEW isseq, Pool!Post(o, h, isseq)
    PROVE  /\ Pool!TypeOK'
           /\ \A w \in Workers : Stays(w) \/ Moves(w)
           /\ UNCHANGED stop
           /\ Pool!Outstanding' \subseteq Pool!Outstanding \cup {h}
  <1> USE CallAssumption
  <1>1. PoolProofs!PoolAssumption /\ PoolProofs!TypeOK /\ PoolProofs!Post(o, h, isseq)
    BY SamePool, SamePost DEF CallAssumption, TypeOK
  <1>2. Pool!TypeOK'
    BY <1>1, PoolProofs!PostTypeOK, SamePool
  <1>3. \A w \in Workers : pc'[w] # pc[w] => pc[w] \in {"Waiting", "Unborn"} /\ pc'[w] = "Lock"
    BY <1>1, PoolProofs!PostWakes, SamePool DEF PoolProofs!OnlyLock
  <1>4. /\ task_queue' = [task_queue EXCEPT ![o] = Append(@, h)]
        /\ UNCHANGED <<stop, task>>
    BY DEF Pool!Post
  <1>5. \A w \in Workers : Stays(w) \/ Moves(w)
    BY <1>3, <1>4 DEF Stays, Moves, Pool!Holding
  <1>6. \A x \in Objs : ToSet(task_queue'[x]) \subseteq ToSet(task_queue[x]) \cup {h}
    <2> SUFFICES ASSUME NEW x \in Objs
                 PROVE  ToSet(task_queue'[x]) \subseteq ToSet(task_queue[x]) \cup {h}
      OBVIOUS
    <2>1. task_queue[x] \in Seq(Handles)
      BY DEF TypeOK, Pool!TypeOK
    <2>2. CASE x = o
      <3>1. task_queue'[x] = Append(task_queue[x], h)
        BY <1>4, <2>2 DEF TypeOK, Pool!TypeOK
      <3> QED
        BY <2>1, <3>1, AppendProperties DEF ToSet
    <2>3. CASE x # o
      BY <1>4, <2>3 DEF TypeOK, Pool!TypeOK
    <2> QED
      BY <2>2, <2>3
  <1>7. \A w \in Pool!Workers : pc'[w] \in Pool!Holding => pc[w] \in Pool!Holding /\ task'[w] = task[w]
    BY <1>3, <1>4 DEF Pool!Holding, Pool!Workers, Workers
  <1> QED
    BY <1>2, <1>4, <1>5, <1>6, <1>7 DEF Pool!Outstanding, Pool!ToSet, ToSet

(* Taking the head from a sequence.                                        *)
LEMMA PoppedSet ==
    ASSUME NEW S, NEW s \in Seq(S), s # <<>>
    PROVE  /\ Head(s) \in ToSet(s)
           /\ ToSet(Tail(s)) \subseteq ToSet(s)
           /\ \A x \in ToSet(s) : x = Head(s) \/ x \in ToSet(Tail(s))
  <1>1. /\ DOMAIN s = 1 .. Len(s) /\ Len(s) \in Nat \ {0} /\ Head(s) = s[1]
    BY LenProperties, EmptySeq
  <1>2. /\ Tail(s) \in Seq(S) /\ Len(Tail(s)) = Len(s) - 1
        /\ \A i \in 1 .. Len(Tail(s)) : Tail(s)[i] = s[i + 1]
    BY HeadTailProperties
  <1>3. DOMAIN Tail(s) = 1 .. Len(s) - 1
    BY <1>2, LenProperties
  <1>4. ASSUME NEW x \in ToSet(s)
        PROVE  x = Head(s) \/ x \in ToSet(Tail(s))
    <2>1. PICK i \in 1 .. Len(s) : x = s[i]
      BY <1>1 DEF ToSet
    <2>2. CASE i # 1
      <3>1. i - 1 \in DOMAIN Tail(s) /\ Tail(s)[i - 1] = s[i]
        BY <1>1, <1>2, <1>3, <2>2
      <3> QED
        BY <2>1, <3>1 DEF ToSet
    <2> QED
      BY <1>1, <2>1, <2>2
  <1> QED
    BY <1>1, <1>2, <1>3, <1>4 DEF ToSet

(* Every step of a worker preserves the pool's types.                      *)
LEMMA PoolTypes ==
    ASSUME TypeOK, NEW w \in Workers, Pool!WorkerStep(w) \/ Pool!Wake(w)
    PROVE  Pool!TypeOK'
  BY CallAssumption, SameSteps, SamePool, PoolProofs!WorkerTypeOK DEF CallAssumption, TypeOK

(* No task becomes outstanding when none is queued.                        *)
LEMMA NoNewTask ==
    ASSUME \A x \in Objs : ToSet(task_queue'[x]) \subseteq ToSet(task_queue[x]),
           \A w \in Workers : pc'[w] \in Pool!Holding => pc[w] \in Pool!Holding /\ task'[w] = task[w]
    PROVE  Pool!Outstanding' \subseteq Pool!Outstanding
  BY DEF Pool!Outstanding, Pool!ToSet, ToSet, Pool!Workers, Workers

(* A step of a worker outside a task: no task appears or disappears.       *)
LEMMA PoolScheduling ==
    ASSUME TypeOK, NEW w \in Workers,
           Pool!Sleep(w) \/ Pool!Wake(w) \/ Pool!Exit(w) \/ Pool!Skip(w) \/ Pool!Take(w)
    PROVE  /\ Pool!TypeOK'
           /\ \A v \in Workers : Stays(v) \/ Moves(v)
           /\ UNCHANGED stop
           /\ Pool!Outstanding' \subseteq Pool!Outstanding
  <1>1. Pool!TypeOK'
    BY PoolTypes DEF Pool!WorkerStep
  <1>2. pc \in [Workers -> Pool!Locations] /\ task \in [Workers -> Handles \cup {None}]
    BY DEF TypeOK, Pool!TypeOK, Pool!Workers, Workers
  <1>3. CASE Pool!Sleep(w) \/ Pool!Wake(w) \/ Pool!Exit(w) \/ Pool!Skip(w)
    <2>1. /\ UNCHANGED <<stop, task_queue, task>>
          /\ \A v \in Workers : pc'[v] # pc[v] =>
                 pc[v] \in {"Lock", "Waiting"} /\ pc'[v] \in {"Lock", "Waiting", "Exited"}
      BY <1>2, <1>3 DEF Pool!Sleep, Pool!Wake, Pool!Exit, Pool!Skip
    <2>2. Pool!Outstanding' \subseteq Pool!Outstanding
      BY <2>1, NoNewTask DEF Pool!Holding
    <2> QED
      BY <1>1, <2>1, <2>2 DEF Stays, Moves, Pool!Holding
  <1>4. CASE Pool!Take(w)
    <2>1. PICK o \in Objs : o = Head(ready_instances)
      BY <1>4, HeadTailProperties DEF Pool!Take, TypeOK, Pool!TypeOK
    <2>2. /\ pc[w] = "Lock" /\ ~stop /\ task_queue[o] # <<>>
          /\ pc' = [pc EXCEPT ![w] = "Taken"]
          /\ task' = [task EXCEPT ![w] = Head(task_queue[o])]
          /\ task_queue' = [task_queue EXCEPT ![o] = Tail(@)]
          /\ UNCHANGED stop
      BY <1>4, <2>1 DEF Pool!Take
    <2>3. task_queue \in [Objs -> Seq(Handles)]
      BY DEF TypeOK, Pool!TypeOK
    <2>4. /\ Head(task_queue[o]) \in ToSet(task_queue[o])
          /\ ToSet(Tail(task_queue[o])) \subseteq ToSet(task_queue[o])
      BY <2>2, <2>3, PoppedSet
    <2>5. \A x \in Objs : ToSet(task_queue'[x]) \subseteq ToSet(task_queue[x])
      BY <2>2, <2>3, <2>4
    <2>6. Pool!Outstanding' \subseteq Pool!Outstanding
      <3>1. \A v \in Workers : pc'[v] \in Pool!Holding =>
                \/ v = w /\ task'[v] \in ToSet(task_queue[o])
                \/ pc[v] \in Pool!Holding /\ task'[v] = task[v]
        BY <1>2, <2>2, <2>4 DEF Pool!Holding
      <3> QED
        BY <2>5, <3>1 DEF Pool!Outstanding, Pool!ToSet, ToSet, Pool!Workers, Workers
    <2> QED
      BY <1>1, <1>2, <2>2, <2>6 DEF Stays, Moves, Pool!Holding
  <1> QED
    BY <1>3, <1>4

(* The beginning and the return of a method stay with the worker's task.   *)
LEMMA PoolInTask ==
    ASSUME TypeOK, NEW w \in Workers, Pool!Begin(w) \/ Pool!Return(w)
    PROVE  /\ Pool!TypeOK'
           /\ pc[w] \in Pool!Holding /\ task[w] \in Handles /\ task[w] \in Pool!Outstanding
           /\ \A v \in Workers : v # w => Stays(v)
           /\ task'[w] = task[w]
           /\ pc'[w] = IF pc[w] = "Taken" THEN "Running" ELSE "Finishing"
           /\ UNCHANGED stop
           /\ Pool!Outstanding' \subseteq Pool!Outstanding
  <1>1. Pool!TypeOK'
    BY PoolTypes DEF Pool!WorkerStep
  <1>2. pc \in [Workers -> Pool!Locations]
    BY DEF TypeOK, Pool!TypeOK, Pool!Workers, Workers
  <1>3. /\ pc[w] \in {"Taken", "Running"} /\ UNCHANGED <<stop, task_queue, task>>
        /\ pc' = [pc EXCEPT ![w] = IF pc[w] = "Taken" THEN "Running" ELSE "Finishing"]
    BY DEF Pool!Begin, Pool!Return
  <1>4. Pool!Outstanding' \subseteq Pool!Outstanding
    BY <1>2, <1>3, NoNewTask DEF Pool!Holding
  <1>5. task[w] \in Handles /\ task[w] \in Pool!Outstanding
    BY <1>3 DEF TypeOK, Pool!TypeOK, Pool!Outstanding, Pool!Holding, Pool!Workers, Workers
  <1> QED
    BY <1>1, <1>2, <1>3, <1>4, <1>5 DEF Stays, Pool!Holding

(* A worker gives its task up, and may wake another.                       *)
LEMMA PoolFinish ==
    ASSUME TypeOK, NEW w \in Workers, Pool!Finish(w)
    PROVE  /\ Pool!TypeOK'
           /\ \A v \in Workers : v # w => Stays(v) \/ Moves(v)
           /\ pc[w] = "Finishing" /\ pc'[w] = "Lock"
           /\ UNCHANGED stop
           /\ Pool!Outstanding' \subseteq Pool!Outstanding
  <1>1. Pool!TypeOK'
    BY PoolTypes DEF Pool!WorkerStep
  <1>2. pc \in [Workers -> Pool!Locations] /\ task \in [Workers -> Handles \cup {None}]
    BY DEF TypeOK, Pool!TypeOK, Pool!Workers, Workers
  <1>3. PICK p \in Pool!SignalCv(pc) \cup {pc} : pc' = [p EXCEPT ![w] = "Lock"]
    BY DEF Pool!Finish
  <1>4. /\ p \in [Workers -> Pool!Locations]
        /\ \A v \in Workers : p[v] # pc[v] => pc[v] = "Waiting" /\ p[v] = "Lock"
    BY <1>2, <1>3 DEF Pool!SignalCv, Pool!Locations, Pool!Workers, Workers
  <1>5. /\ pc[w] = "Finishing" /\ task' = [task EXCEPT ![w] = None]
        /\ UNCHANGED <<stop, task_queue>>
    BY DEF Pool!Finish
  <1>6. /\ \A v \in Workers : v # w => pc'[v] = p[v] /\ task'[v] = task[v]
        /\ pc'[w] = "Lock"
    BY <1>2, <1>3, <1>4, <1>5
  <1>7. Pool!Outstanding' \subseteq Pool!Outstanding
    BY <1>4, <1>5, <1>6, NoNewTask DEF Pool!Holding
  <1> QED
    BY <1>1, <1>4, <1>5, <1>6, <1>7 DEF Stays, Moves, Pool!Holding

(* Stop only wakes workers.                                                *)
LEMMA PoolStop ==
    ASSUME TypeOK, Pool!Stop
    PROVE  /\ Pool!TypeOK'
           /\ \A v \in Workers : Stays(v) \/ Moves(v)
           /\ stop'
           /\ Pool!Outstanding' \subseteq Pool!Outstanding
  <1>1. Pool!TypeOK'
    <2>1. PoolProofs!PoolAssumption /\ PoolProofs!TypeOK /\ PoolProofs!Stop
      BY CallAssumption, SameStop, SamePool DEF CallAssumption, TypeOK
    <2>2. PoolProofs!TypeOK'
      BY <2>1, PoolProofs!StopTypeOK
    <2> QED
      BY <2>2, SamePool
  <1>2. /\ stop' /\ UNCHANGED <<task, task_queue>>
        /\ \A v \in Workers : pc'[v] # pc[v] => pc[v] = "Waiting" /\ pc'[v] = "Lock"
    BY DEF Pool!Stop, Pool!BroadcastCv, Pool!Workers, Workers
  <1>3. Pool!Outstanding' \subseteq Pool!Outstanding
    BY <1>2, NoNewTask DEF Pool!Holding
  <1> QED
    BY <1>1, <1>2, <1>3 DEF Stays, Moves, Pool!Holding

-----------------------------------------------------------------------------
(* Steps that leave the result table and the posts in progress alone.      *)

(* A caller is where it was, or no longer in a post, a wait or with what   *)
(* it got.                                                                 *)
Quiet(t) ==
    \/ call'[t] = call[t]
    \/ call'[t].phase = "Idle"
    \/ call'[t].phase = "Wait" /\ call'[t].h \in Handles

(* Such a step keeps everything about posts, waits and results ...         *)
LEMMA QuietResults ==
    ASSUME ResultsInv, UNCHANGED <<tableVars, untracked, completed>>,
           Pool!Outstanding' \subseteq Pool!Outstanding,
           \A t \in Callers : Quiet(t)
    PROVE  ResultsInv'
  <1>1. PostingInv'
    BY DEF ResultsInv, PostingInv, PostingNow, Private, Quiet, tableVars
  <1>2. WaitingInv'
    BY DEF ResultsInv, WaitingInv, Quiet
  <1>3. (TableConsistent /\ ReadyInv /\ UntrackedInv /\ ResultNotLost)'
    BY DEF ResultsInv, TableConsistent, ReadyInv, UntrackedInv, ResultNotLost,
       Available, tableVars
  <1>4. WaitHonest'
    BY DEF ResultsInv, WaitHonest, Quiet
  <1> QED
    BY <1>1, <1>2, <1>3, <1>4 DEF ResultsInv

(* ... and, where workers stay or move outside tasks, the rest.            *)
LEMMA QuietWorkers ==
    ASSUME TypeOK, WorkersInv, UNCHANGED <<task_srcfunc, dtor, joining, stop>>,
           \A w \in Workers : Stays(w) \/ Moves(w)
    PROVE  WorkersInv'
  <1>1. MonitorNamesCurrent'
    BY DEF WorkersInv, MonitorNamesCurrent, Stays, Moves
  <1>2. \A w \in Workers : Late(w)' => pc'[w] \notin Pool!Holding
    BY DEF WorkersInv, ShutdownInv, Late, Stays, Moves
  <1>3. dtor' = "Destroyed" => \A w \in 1 .. joining' : pc'[w] = "Exited"
    <2>1. 1 .. joining \subseteq Workers
      BY CallAssumption DEF CallAssumption, Pool!PoolAssumption, TypeOK, Workers
    <2> QED
      BY <2>1 DEF WorkersInv, ShutdownInv, Stays, Moves
  <1> QED
    BY <1>1, <1>2, <1>3 DEF WorkersInv, ShutdownInv

(* A worker that goes on with its task, or ends it.                        *)
LEMMA InTaskShutdown ==
    ASSUME TypeOK, ShutdownInv, UNCHANGED <<dtor, joining, stop>>, NEW w \in Workers,
           pc[w] \in Pool!Holding,
           \A v \in Workers : v # w => Stays(v) \/ Moves(v)
    PROVE  ShutdownInv'
  <1>1. ~Late(w) /\ pc[w] # "Exited"
    BY DEF ShutdownInv, Pool!Holding
  <1>2. \A v \in Workers : Late(v)' => pc'[v] \notin Pool!Holding
    BY <1>1 DEF ShutdownInv, Late, Stays, Moves
  <1>3. 1 .. joining \subseteq Workers
    BY CallAssumption DEF CallAssumption, Pool!PoolAssumption, TypeOK, Workers
  <1>4. dtor' = "Destroyed" => \A v \in 1 .. joining' : pc'[v] = "Exited"
    BY <1>1, <1>3 DEF ShutdownInv, Stays, Moves
  <1> QED
    BY <1>2, <1>4 DEF ShutdownInv

(* Steps that do not touch the pool.                                       *)
LEMMA SamePoolVars ==
    ASSUME TypeOK, UNCHANGED poolVars
    PROVE  /\ Pool!TypeOK' /\ Pool!Outstanding' = Pool!Outstanding
           /\ \A w \in Workers : Stays(w)
           /\ UNCHANGED stop
  <1>1. Pool!TypeOK'
    BY DEF poolVars, TypeOK, Pool!TypeOK
  <1>2. Pool!Outstanding' = Pool!Outstanding
    BY DEF poolVars, Pool!Outstanding
  <1> QED
    BY <1>1, <1>2 DEF poolVars, Stays

-----------------------------------------------------------------------------
(* The result table.                                                       *)

Distinct(s) == \A i, j \in DOMAIN s : s[i] = s[j] => i = j

(* Adding a new value to a sequence without repetitions.                   *)
LEMMA AppendDistinct ==
    ASSUME NEW S, NEW s \in Seq(S), Distinct(s), NEW x \in S, x \notin ToSet(s)
    PROVE  /\ Append(s, x) \in Seq(S) /\ Len(Append(s, x)) = Len(s) + 1
           /\ ToSet(Append(s, x)) = ToSet(s) \cup {x}
           /\ Distinct(Append(s, x))
  <1> DEFINE t == Append(s, x)
  <1>1. DOMAIN s = 1 .. Len(s) /\ Len(s) \in Nat
    BY LenProperties
  <1>2. /\ t \in Seq(S) /\ Len(t) = Len(s) + 1
        /\ \A i \in 1 .. Len(s) : t[i] = s[i]
        /\ t[Len(s) + 1] = x
    BY <1>1, AppendProperties
  <1>3. DOMAIN t = 1 .. Len(s) + 1
    BY <1>2, LenProperties
  <1> HIDE DEF t
  <1>4. ToSet(t) = ToSet(s) \cup {x}
    <2>1. ASSUME NEW y \in ToSet(t)
          PROVE  y \in ToSet(s) \cup {x}
      <3>1. PICK i \in 1 .. Len(s) + 1 : y = t[i]
        BY <1>3 DEF ToSet
      <3>2. CASE i = Len(s) + 1
        BY <1>2, <3>1, <3>2
      <3>3. CASE i # Len(s) + 1
        BY <1>1, <1>2, <3>1, <3>3 DEF ToSet
      <3> QED
        BY <3>2, <3>3
    <2>2. x \in ToSet(t)
      BY <1>1, <1>2, <1>3 DEF ToSet
    <2>3. ToSet(s) \subseteq ToSet(t)
      BY <1>1, <1>2, <1>3 DEF ToSet
    <2> QED
      BY <2>1, <2>2, <2>3
  <1>5. Distinct(t)
    <2> SUFFICES ASSUME NEW i \in 1 .. Len(s) + 1, NEW j \in 1 .. Len(s) + 1, t[i] = t[j]
                 PROVE  i = j
      BY <1>3 DEF Distinct
    <2>1. CASE i \in 1 .. Len(s) /\ j \in 1 .. Len(s)
      BY <1>1, <1>2, <2>1 DEF Distinct
    <2>2. CASE i = Len(s) + 1 /\ j \in 1 .. Len(s)
      BY <1>1, <1>2, <2>2 DEF ToSet
    <2>3. CASE j = Len(s) + 1 /\ i \in 1 .. Len(s)
      BY <1>1, <1>2, <2>3 DEF ToSet
    <2> QED
      BY <1>1, <2>1, <2>2, <2>3
  <1> QED
    BY <1>2, <1>4, <1>5 DEF t

(* Taking the head from a sequence without repetitions.                    *)
LEMMA TailDistinct ==
    ASSUME NEW S, NEW s \in Seq(S), s # <<>>, Distinct(s)
    PROVE  /\ Tail(s) \in Seq(S) /\ Len(Tail(s)) = Len(s) - 1
           /\ ToSet(Tail(s)) = ToSet(s) \ {Head(s)}
           /\ Distinct(Tail(s))
  <1>1. /\ DOMAIN s = 1 .. Len(s) /\ Len(s) \in Nat \ {0} /\ Head(s) = s[1]
    BY LenProperties, EmptySeq
  <1>2. /\ Tail(s) \in Seq(S) /\ Len(Tail(s)) = Len(s) - 1
        /\ \A i \in 1 .. Len(Tail(s)) : Tail(s)[i] = s[i + 1]
    BY HeadTailProperties
  <1>3. DOMAIN Tail(s) = 1 .. Len(s) - 1
    BY <1>2, LenProperties
  <1>4. Head(s) \notin ToSet(Tail(s))
    <2> SUFFICES ASSUME NEW i \in 1 .. Len(s) - 1, Tail(s)[i] = Head(s)
                 PROVE  FALSE
      BY <1>3 DEF ToSet
    <2>1. i + 1 \in DOMAIN s /\ 1 \in DOMAIN s /\ s[i + 1] = s[1]
      BY <1>1, <1>2
    <2> QED
      BY <2>1 DEF Distinct
  <1>5. ToSet(Tail(s)) = ToSet(s) \ {Head(s)}
    BY <1>4, PoppedSet
  <1>6. Distinct(Tail(s))
    <2> SUFFICES ASSUME NEW i \in 1 .. Len(s) - 1, NEW j \in 1 .. Len(s) - 1,
                        Tail(s)[i] = Tail(s)[j]
                 PROVE  i = j
      BY <1>3 DEF Distinct
    <2>1. i + 1 \in DOMAIN s /\ j + 1 \in DOMAIN s /\ s[i + 1] = s[j + 1]
      BY <1>1, <1>2
    <2>2. i + 1 = j + 1
      BY <2>1 DEF Distinct
    <2> QED
      BY <2>2
  <1> QED
    BY <1>2, <1>5, <1>6

(* _new_resultitem keeps the table and its order alike, whether or not it  *)
(* has to drop the oldest result.                                          *)
LEMMA NewItem ==
    ASSUME ResultsTypeOK, TableConsistent, NEW h \in Handles, results[h] = NoItem,
           NewResultItem(h), UNCHANGED handle_counter
    PROVE  /\ ResultsTypeOK' /\ TableConsistent'
           /\ \A x \in Handles : x # h => results'[x] \in {results[x], NoItem}
           /\ results'[h] \in {Pending, NoItem}
  <1> USE ResultsAssumption
  <1> DEFINE order == Append(result_order, h)
             added == [results EXCEPT ![h] = Pending]
  <1>1. result_order \in Seq(Handles) /\ Distinct(result_order) /\ h \notin ToSet(result_order)
    BY DEF ResultsTypeOK, TableConsistent, Distinct
  <1>2. /\ order \in Seq(Handles) /\ Len(order) = Len(result_order) + 1
        /\ ToSet(order) = ToSet(result_order) \cup {h}
        /\ Distinct(order)
    BY <1>1, AppendDistinct
  <1>3. Len(result_order) \in Nat /\ Len(result_order) <= MaxResults /\ MaxResults \in Nat
    BY <1>1, LenProperties DEF TableConsistent, ResultsAssumption
  <1>4. Pending \in Items /\ Pending # NoItem
    <2>1. Pending \in [ready : BOOLEAN, value : Nat]
      BY DEF Pending
    <2> QED
      BY <2>1 DEF Items, ResultsAssumption
  <1>5. /\ added \in [Handles -> Items \cup {NoItem}]
        /\ \A x \in Handles : added[x] # NoItem <=> x \in ToSet(order)
        /\ \A x \in Handles : x # h => added[x] = results[x]
        /\ added[h] = Pending
    BY <1>2, <1>4 DEF ResultsTypeOK, TableConsistent
  <1>6. IF TooMany(order)
        THEN result_order' = Tail(order) /\ results' = [added EXCEPT ![Head(order)] = NoItem]
        ELSE result_order' = order /\ results' = added
    BY DEF NewResultItem
  <1> HIDE DEF order, added
  <1>7. CASE TooMany(order)
    <2>1. order # <<>>
      BY <1>2, <1>3, EmptySeq
    <2>2. /\ result_order' \in Seq(Handles) /\ Len(result_order') = Len(order) - 1
          /\ ToSet(result_order') = ToSet(order) \ {Head(order)}
          /\ Distinct(result_order')
      BY <1>2, <1>6, <1>7, <2>1, TailDistinct
    <2>3. Head(order) \in Handles
      BY <1>2, <2>1, HeadTailProperties
    <2>4. /\ results' \in [Handles -> Items \cup {NoItem}]
          /\ \A x \in Handles : results'[x] = IF x = Head(order) THEN NoItem ELSE added[x]
      BY <1>5, <1>6, <1>7, <2>3
    <2>5. TableConsistent'
      BY <1>2, <1>3, <1>5, <2>2, <2>4 DEF TableConsistent, Distinct
    <2> QED
      BY <1>5, <2>2, <2>4, <2>5 DEF ResultsTypeOK
  <1>8. CASE ~TooMany(order)
    <2>1. result_order' = order /\ results' = added
      BY <1>6, <1>8
    <2>2. TableConsistent'
      BY <1>2, <1>3, <1>5, <1>8, <2>1 DEF TableConsistent, Distinct, TooMany
    <2> QED
      BY <1>2, <1>5, <2>1, <2>2 DEF ResultsTypeOK
  <1> QED
    BY <1>7, <1>8

-----------------------------------------------------------------------------
(* Posts.                                                                  *)

Phases == {"Idle", "Handle", "Item", "Wait", "Got"}
Calls == [phase : Phases, h : Handles \cup {0}, obj : Objs \cup {None},
          isseq : BOOLEAN, left : 0 .. MaxTimeout, result_out : Handles \cup {0}]

(* getHandle takes a handle that is nowhere else.                          *)
LEMMA PostHandleStep ==
    ASSUME IInv, NEW t \in Callers, NEW o \in Objs, NEW isseq \in BOOLEAN,
           NEW tracked \in BOOLEAN, PostHandle(t, o, isseq, tracked)
    PROVE  IInv'
  <1> USE ResultsAssumption DEF IInv
  <1> DEFINE h == NextHandle
             post == Posting(IF tracked THEN "Handle" ELSE "Item", h, o, isseq)
  <1>1. h \in Handles /\ handle_counter' \in 0 .. HandleMax - 1
    BY DEF PostHandle, GetHandle, NextHandle, Handles, TypeOK, ResultsTypeOK,
       ResultsAssumption
  <1>2. /\ HandleGap(h) /\ call' = [call EXCEPT ![t] = post]
        /\ untracked' = IF tracked THEN untracked \ {h} ELSE untracked \cup {h}
        /\ completed' = completed \ {h}
        /\ UNCHANGED <<poolVars, tableVars, task_srcfunc, shutdownVars>>
    BY DEF PostHandle
  <1> HIDE DEF h
  <1>3. post \in Calls
    BY <1>1, CallAssumption DEF CallAssumption, Posting, Calls, Phases
  <1>4. /\ call \in [Callers -> Calls]
        /\ untracked \subseteq Handles /\ completed \subseteq Handles
    BY DEF TypeOK, Calls, Phases
  <1>5. /\ call'[t] = post /\ post.h = h /\ post.obj = o /\ post.phase \in {"Handle", "Item"}
        /\ post.phase = "Handle" <=> tracked
        /\ \A u \in Callers : u # t => call'[u] = call[u]
    BY <1>2, <1>4 DEF Posting
  <1>6. call' \in [Callers -> Calls]
    BY <1>2, <1>3, <1>4
  <1> HIDE DEF post
  <1>7. /\ Pool!TypeOK' /\ Pool!Outstanding' = Pool!Outstanding
        /\ \A w \in Workers : Stays(w)
        /\ UNCHANGED stop
    BY <1>2, SamePoolVars
  <1>8. TypeOK'
    BY <1>1, <1>2, <1>4, <1>6, <1>7
    DEF TypeOK, ResultsTypeOK, tableVars, shutdownVars, Calls, Phases
  <1>9. /\ h \notin Pool!Outstanding /\ results[h] = NoItem
        /\ \A u \in Callers : call[u].h # h
    BY <1>2 DEF HandleGap
  <1>10. UNCHANGED <<results, result_order>>
    BY <1>2 DEF tableVars
  <1>11. PostingInv'
    <2>1. ASSUME NEW u \in Callers, PostingNow(u)'
          PROVE  Private(u)'
      <3>1. CASE u = t
        BY <1>1, <1>2, <1>5, <1>7, <1>9, <1>10, <3>1 DEF Private
      <3>2. CASE u # t
        <4>1. Private(u)
          BY <1>5, <2>1, <3>2 DEF ResultsInv, PostingInv, PostingNow
        <4> QED
          BY <1>2, <1>5, <1>7, <1>9, <1>10, <3>2, <4>1 DEF Private
      <3> QED
        BY <3>1, <3>2
    <2>2. ASSUME NEW u \in Callers, NEW v \in Callers, PostingNow(u)', PostingNow(v)',
                 call'[u].h = call'[v].h
          PROVE  u = v
      BY <1>5, <1>9, <2>2 DEF ResultsInv, PostingInv, PostingNow
    <2> QED
      BY <2>1, <2>2 DEF PostingInv
  <1>12. WaitingInv' /\ WaitHonest'
    BY <1>2, <1>5, <1>9 DEF ResultsInv, WaitingInv, WaitHonest
  <1>13. (TableConsistent /\ ReadyInv /\ UntrackedInv /\ ResultNotLost)'
    <2>1. TableConsistent'
      BY <1>10 DEF ResultsInv, TableConsistent
    <2>2. ReadyInv'
      BY <1>2, <1>9, <1>10 DEF ResultsInv, ReadyInv, Available
    <2>3. UntrackedInv' /\ ResultNotLost'
      BY <1>2, <1>9, <1>10 DEF ResultsInv, UntrackedInv, ResultNotLost
    <2> QED
      BY <2>1, <2>2, <2>3
  <1>14. WorkersInv'
    BY <1>2, <1>7, QuietWorkers DEF shutdownVars
  <1> QED
    BY <1>8, <1>11, <1>12, <1>13, <1>14 DEF ResultsInv

(* _new_resultitem registers a result that is not there, for a task that   *)
(* nobody can have begun.                                                  *)
LEMMA RegisterStep ==
    ASSUME IInv, NEW t \in Callers, Register(t)
    PROVE  IInv'
  <1> USE DEF IInv
  <1> DEFINE h == call[t].h
  <1>1. /\ call[t].phase = "Handle" /\ NewResultItem(h)
        /\ call' = [call EXCEPT ![t].phase = "Item"]
        /\ UNCHANGED <<poolVars, handle_counter, task_srcfunc, shutdownVars,
                       untracked, completed>>
    BY DEF Register
  <1>2. /\ h \in Handles /\ results[h] = NoItem /\ h \notin untracked /\ h \notin completed
    BY <1>1 DEF ResultsInv, PostingInv, PostingNow, Private
  <1>3. /\ ResultsTypeOK' /\ TableConsistent'
        /\ \A x \in Handles : x # h => results'[x] \in {results[x], NoItem}
        /\ results'[h] \in {Pending, NoItem}
    BY <1>1, <1>2, NewItem DEF TypeOK, ResultsInv
  <1>4. /\ call \in [Callers -> Calls]
        /\ call'[t].phase = "Item" /\ call'[t].h = h /\ call'[t].obj = call[t].obj
        /\ \A u \in Callers : u # t => call'[u] = call[u]
        /\ call' \in [Callers -> Calls]
    BY <1>1 DEF TypeOK, Calls, Phases
  <1> HIDE DEF h
  <1>5. /\ Pool!TypeOK' /\ Pool!Outstanding' = Pool!Outstanding
        /\ \A w \in Workers : Stays(w)
        /\ UNCHANGED stop
    BY <1>1, SamePoolVars
  <1>6. TypeOK'
    BY <1>1, <1>3, <1>4, <1>5 DEF TypeOK, shutdownVars, Calls, Phases
  <1>7. h = call[t].h
    BY DEF h
  <1>8. PostingInv'
    <2>1. \A u \in Callers : PostingNow(u)' => PostingNow(u) /\ call'[u].h = call[u].h
                                               /\ call'[u].obj = call[u].obj
      BY <1>1, <1>4, <1>7 DEF PostingNow
    <2>2. ASSUME NEW u \in Callers, PostingNow(u)'
          PROVE  Private(u)'
      <3>1. Private(u) /\ (u # t => call[u].h # h)
        BY <1>1, <1>7, <2>1, <2>2 DEF ResultsInv, PostingInv, PostingNow
      <3> QED
        BY <1>1, <1>3, <1>4, <1>5, <2>1, <2>2, <3>1 DEF Private
    <2> QED
      BY <2>1, <2>2 DEF ResultsInv, PostingInv
  <1>9. WaitingInv' /\ WaitHonest'
    BY <1>1, <1>4 DEF ResultsInv, WaitingInv, WaitHonest
  <1>10. ReadyInv'
    <2>1. ~Pending.ready
      BY DEF Pending
    <2> QED
      BY <1>1, <1>3, <2>1 DEF ResultsInv, ReadyInv, Available
  <1>11. UntrackedInv' /\ ResultNotLost'
    BY <1>1, <1>2, <1>3 DEF ResultsInv, UntrackedInv, ResultNotLost, TypeOK
  <1>12. WorkersInv'
    BY <1>1, <1>5, QuietWorkers DEF shutdownVars
  <1> QED
    BY <1>3, <1>6, <1>8, <1>9, <1>10, <1>11, <1>12 DEF ResultsInv

(* The task is queued: its handle is no longer private.                    *)
LEMMA SubmitStep ==
    ASSUME IInv, NEW t \in Callers, Submit(t)
    PROVE  IInv'
  <1> USE DEF IInv
  <1> DEFINE h == call[t].h
  <1>1. /\ call[t].phase = "Item" /\ Pool!Post(call[t].obj, h, call[t].isseq)
        /\ call' = [call EXCEPT ![t] = Idle]
        /\ UNCHANGED <<handle_counter, tableVars, task_srcfunc, shutdownVars,
                       untracked, completed>>
    BY DEF Submit
  <1>2. h \in Handles /\ call[t].obj \in Objs
    BY <1>1 DEF ResultsInv, PostingInv, PostingNow, Private
  <1>3. /\ Pool!TypeOK'
        /\ \A w \in Workers : Stays(w) \/ Moves(w)
        /\ UNCHANGED stop
        /\ Pool!Outstanding' \subseteq Pool!Outstanding \cup {h}
    BY <1>1, <1>2, PoolPost
  <1>4. h = call[t].h
    OBVIOUS
  <1> HIDE DEF h
  <1>5. /\ call \in [Callers -> Calls] /\ Idle \in Calls /\ Idle.phase = "Idle"
        /\ call'[t] = Idle /\ \A u \in Callers : u # t => call'[u] = call[u]
        /\ call' \in [Callers -> Calls]
    BY <1>1, CallAssumption DEF CallAssumption, TypeOK, Calls, Phases, Idle, Waiting
  <1>6. TypeOK'
    BY <1>1, <1>3, <1>5 DEF TypeOK, ResultsTypeOK, tableVars, shutdownVars, Calls, Phases
  <1>7. PostingInv'
    <2>1. \A u \in Callers : PostingNow(u)' => u # t /\ PostingNow(u) /\ call'[u] = call[u]
      BY <1>5 DEF PostingNow
    <2>2. ASSUME NEW u \in Callers, PostingNow(u)'
          PROVE  Private(u)'
      <3>1. Private(u) /\ call[u].h # h
        BY <1>1, <1>4, <2>1, <2>2 DEF ResultsInv, PostingInv, PostingNow
      <3> QED
        BY <1>1, <1>3, <2>1, <2>2, <3>1 DEF Private, tableVars
    <2> QED
      BY <2>1, <2>2 DEF ResultsInv, PostingInv
  <1>8. WaitingInv' /\ WaitHonest'
    BY <1>1, <1>5 DEF ResultsInv, WaitingInv, WaitHonest
  <1>9. (TableConsistent /\ ReadyInv /\ UntrackedInv /\ ResultNotLost)'
    BY <1>1
    DEF ResultsInv, TableConsistent, ReadyInv, UntrackedInv, ResultNotLost,
        Available, tableVars
  <1>10. WorkersInv'
    BY <1>1, <1>3, QuietWorkers DEF shutdownVars
  <1> QED
    BY <1>6, <1>7, <1>8, <1>9, <1>10 DEF ResultsInv

-----------------------------------------------------------------------------
(* waitResult.                                                             *)

(* A wait begins, goes on, or ends without a result.                       *)
LEMMA WaitStep ==
    ASSUME IInv, NEW t \in Callers,
           \/ \E h \in Handles, timeout \in 0 .. MaxTimeout : Wait(t, h, timeout)
           \/ Poll(t) \/ WaitFalse(t)
    PROVE  IInv'
  <1> USE DEF IInv
  <1>1. PICK c \in Calls : /\ c.phase = "Idle" \/ (c.phase = "Wait" /\ c.h \in Handles)
                           /\ call' = [call EXCEPT ![t] = c]
    <2>1. Idle \in Calls /\ Idle.phase = "Idle"
      BY CallAssumption DEF CallAssumption, Idle, Waiting, Calls, Phases
    <2>2. \A h \in Handles, timeout \in 0 .. MaxTimeout :
            /\ Waiting("Wait", h, timeout, 0) \in Calls
            /\ Waiting("Wait", h, timeout, 0).phase = "Wait"
            /\ Waiting("Wait", h, timeout, 0).h = h
      BY DEF Waiting, Calls, Phases
    <2>3. CASE WaitFalse(t)
      BY <2>1, <2>3 DEF WaitFalse
    <2>4. CASE \E h \in Handles, timeout \in 0 .. MaxTimeout : Wait(t, h, timeout)
      BY <2>2, <2>4 DEF Wait
    <2>5. CASE Poll(t)
      <3> DEFINE c == [call[t] EXCEPT !.left = @ - 1]
      <3>1. /\ call[t] \in Calls /\ call[t].phase = "Wait" /\ call[t].left > 0
            /\ call' = [call EXCEPT ![t] = c]
        BY <2>5 DEF Poll, TypeOK, Calls, Phases
      <3>2. call[t].left - 1 \in 0 .. MaxTimeout
        BY <3>1, CallAssumption DEF CallAssumption, Calls
      <3>3. c \in Calls /\ c.phase = "Wait" /\ c.h = call[t].h
        BY <3>1, <3>2 DEF Calls
      <3>4. call[t].h \in Handles
        BY <3>1 DEF ResultsInv, WaitingInv
      <3> QED
        BY <3>1, <3>3, <3>4
    <2> QED
      BY <2>3, <2>4, <2>5
  <1>2. UNCHANGED <<poolVars, handle_counter, tableVars, task_srcfunc, shutdownVars,
                    untracked, completed>>
    BY DEF Wait, Poll, WaitFalse
  <1>3. call \in [Callers -> Calls] /\ call' \in [Callers -> Calls]
    BY <1>1 DEF TypeOK, Calls, Phases
  <1>4. \A u \in Callers : Quiet(u)
    BY <1>1, <1>3 DEF Quiet
  <1> QED
    BY <1>2, <1>3, <1>4, SamePoolVars, QuietResults, QuietWorkers
    DEF TypeOK, ResultsTypeOK, tableVars, shutdownVars, Calls, Phases

(* What waitResult gives back was ready, hence is the value of its task.   *)
LEMMA WaitTrueStep ==
    ASSUME IInv, NEW t \in Callers, WaitTrue(t)
    PROVE  IInv'
  <1> USE DEF IInv
  <1> DEFINE h == call[t].h
  <1>1. /\ call[t].phase = "Wait" /\ Available(h)
        /\ call' = [call EXCEPT ![t] = Waiting("Got", h, 0, results[h].value)]
        /\ UNCHANGED <<poolVars, handle_counter, tableVars, task_srcfunc,
                       shutdownVars, untracked, completed>>
    BY DEF WaitTrue
  <1>2. h \in Handles /\ results[h] = Posted(h) /\ h \in completed
    BY <1>1 DEF ResultsInv, WaitingInv, ReadyInv
  <1>3. results[h].value = h
    BY <1>2 DEF Posted
  <1> HIDE DEF h
  <1>4. call \in [Callers -> Calls]
    BY DEF TypeOK, Calls, Phases
  <1>5. /\ Waiting("Got", h, 0, h) \in Calls /\ Waiting("Got", h, 0, h).phase = "Got"
        /\ Waiting("Got", h, 0, h).h = h /\ Waiting("Got", h, 0, h).result_out = h
    BY <1>2, CallAssumption DEF CallAssumption, Waiting, Calls, Phases
  <1>6. /\ call' \in [Callers -> Calls] /\ call'[t] = Waiting("Got", h, 0, h)
        /\ \A u \in Callers : u # t => call'[u] = call[u]
    BY <1>1, <1>3, <1>4, <1>5
  <1>7. /\ Pool!TypeOK' /\ Pool!Outstanding' = Pool!Outstanding
        /\ \A w \in Workers : Stays(w)
        /\ UNCHANGED stop
    BY <1>1, SamePoolVars
  <1>8. TypeOK'
    BY <1>1, <1>6, <1>7 DEF TypeOK, ResultsTypeOK, tableVars, shutdownVars, Calls, Phases
  <1>9. PostingInv'
    <2>1. \A u \in Callers : PostingNow(u)' => PostingNow(u) /\ call'[u] = call[u]
      BY <1>5, <1>6 DEF PostingNow
    <2> QED
      BY <1>1, <1>7, <2>1 DEF ResultsInv, PostingInv, Private, PostingNow, tableVars
  <1>10. WaitingInv' /\ WaitHonest'
    BY <1>1, <1>2, <1>5, <1>6 DEF ResultsInv, WaitingInv, WaitHonest
  <1>11. (TableConsistent /\ ReadyInv /\ UntrackedInv /\ ResultNotLost)'
    BY <1>1
    DEF ResultsInv, TableConsistent, ReadyInv, UntrackedInv, ResultNotLost,
        Available, tableVars
  <1>12. WorkersInv'
    BY <1>1, <1>7, QuietWorkers DEF shutdownVars
  <1> QED
    BY <1>8, <1>9, <1>10, <1>11, <1>12 DEF ResultsInv

-----------------------------------------------------------------------------
(* Workers.                                                                *)

(* A worker between two tasks.                                             *)
LEMMA SchedulingStep ==
    ASSUME IInv, NEW w \in Workers, Scheduling(w)
    PROVE  IInv'
  <1> USE DEF IInv
  <1>1. /\ Pool!TypeOK'
        /\ \A v \in Workers : Stays(v) \/ Moves(v)
        /\ UNCHANGED stop
        /\ Pool!Outstanding' \subseteq Pool!Outstanding
    BY PoolScheduling DEF Scheduling
  <1>2. UNCHANGED <<handle_counter, tableVars, call, task_srcfunc, shutdownVars,
                    untracked, completed>>
    BY DEF Scheduling
  <1>3. TypeOK'
    BY <1>1, <1>2 DEF TypeOK, ResultsTypeOK, tableVars, shutdownVars
  <1>4. ResultsInv'
    BY <1>1, <1>2, QuietResults DEF Quiet
  <1>5. WorkersInv'
    BY <1>1, <1>2, QuietWorkers DEF shutdownVars
  <1> QED
    BY <1>3, <1>4, <1>5

(* The task that a worker begins is the one its monitor entry names.       *)
LEMMA BeginStep ==
    ASSUME IInv, NEW w \in Workers, Begin(w)
    PROVE  IInv'
  <1> USE DEF IInv
  <1>1. /\ Pool!TypeOK'
        /\ pc[w] = "Taken" /\ pc'[w] = "Running"
        /\ task[w] \in Handles /\ task'[w] = task[w]
        /\ \A v \in Workers : v # w => Stays(v)
        /\ UNCHANGED stop
        /\ Pool!Outstanding' \subseteq Pool!Outstanding
    BY PoolInTask DEF Begin, Pool!Begin
  <1>2. /\ task_srcfunc' \in {task_srcfunc, [task_srcfunc EXCEPT ![w] = task[w]]}
        /\ UNCHANGED <<handle_counter, tableVars, call, shutdownVars, untracked, completed>>
    BY DEF Begin
  <1>3. TypeOK'
    BY <1>1, <1>2 DEF TypeOK, ResultsTypeOK, tableVars, shutdownVars
  <1>4. ResultsInv'
    BY <1>1, <1>2, QuietResults DEF Quiet
  <1>5. MonitorNamesCurrent'
    <2>1. task_srcfunc \in [Workers -> Handles \cup {0}] /\ task_srcfunc[w] = 0
      BY <1>1 DEF TypeOK, WorkersInv, MonitorNamesCurrent
    <2> QED
      BY <1>1, <1>2, <2>1 DEF WorkersInv, MonitorNamesCurrent, Stays
  <1>6. ShutdownInv'
    BY <1>1, <1>2, InTaskShutdown DEF WorkersInv, shutdownVars, Pool!Holding
  <1> QED
    BY <1>3, <1>4, <1>5, <1>6 DEF WorkersInv

(* The method returns: the result goes to the handle of this very task, or *)
(* nowhere.                                                                *)
LEMMA ReturnStep ==
    ASSUME IInv, NEW w \in Workers, Return(w)
    PROVE  IInv'
  <1> USE DEF IInv
  <1> DEFINE h == task[w]
  <1>1. /\ Pool!TypeOK'
        /\ pc[w] = "Running" /\ pc'[w] = "Finishing"
        /\ h \in Handles /\ task'[w] = h /\ h \in Pool!Outstanding
        /\ \A v \in Workers : v # w => Stays(v)
        /\ UNCHANGED stop
        /\ Pool!Outstanding' \subseteq Pool!Outstanding
    BY PoolInTask DEF Return, Pool!Return
  <1>2. /\ IF h \in untracked THEN UNCHANGED tableVars ELSE PostResultItem(h, h)
        /\ completed' = completed \cup {h}
        /\ call' = [call EXCEPT ![w] = Idle]
        /\ UNCHANGED <<handle_counter, task_srcfunc, shutdownVars, untracked>>
    BY DEF Return
  <1> HIDE DEF h
  <1>3. Posted(h) \in Items /\ Posted(h) # NoItem
    <2>1. Posted(h) \in [ready : BOOLEAN, value : Nat]
      BY <1>1, ResultsAssumption DEF Posted, Handles, ResultsAssumption
    <2> QED
      BY <1>1, <2>1, ResultsAssumption DEF Items, ResultsAssumption
  <1>4. /\ UNCHANGED result_order
        /\ results' \in [Handles -> Items \cup {NoItem}]
        /\ \A x \in Handles : x # h => results'[x] = results[x]
        /\ \/ results'[h] = NoItem /\ results[h] = NoItem
           \/ results'[h] = Posted(h) /\ results[h] # NoItem
    <2>1. results \in [Handles -> Items \cup {NoItem}]
      BY DEF TypeOK, ResultsTypeOK
    <2>2. CASE h \in untracked
      BY <1>2, <2>1, <2>2 DEF tableVars, ResultsInv, UntrackedInv
    <2>3. CASE h \notin untracked
      BY <1>1, <1>2, <1>3, <2>1, <2>3 DEF PostResultItem
    <2> QED
      BY <2>2, <2>3
  <1>5. w \in Callers /\ call \in [Callers -> Calls] /\ Idle \in Calls /\ Idle.phase = "Idle"
    BY CallAssumption DEF CallAssumption, Callers, TypeOK, Calls, Phases, Idle, Waiting
  <1>6. /\ call' \in [Callers -> Calls] /\ call'[w] = Idle
        /\ \A u \in Callers : u # w => call'[u] = call[u]
    BY <1>2, <1>5
  <1>7. TypeOK'
    BY <1>1, <1>2, <1>4, <1>6 DEF TypeOK, ResultsTypeOK, shutdownVars, Calls, Phases
  <1>8. PostingInv'
    <2>1. \A u \in Callers : PostingNow(u)' => PostingNow(u) /\ call'[u] = call[u]
      BY <1>5, <1>6 DEF PostingNow
    <2>2. ASSUME NEW u \in Callers, PostingNow(u)'
          PROVE  Private(u)'
      <3>1. Private(u) /\ call[u].h # h
        BY <1>1, <2>1, <2>2 DEF ResultsInv, PostingInv, Private
      <3> QED
        BY <1>1, <1>2, <1>4, <2>1, <2>2, <3>1 DEF Private
    <2> QED
      BY <2>1, <2>2 DEF ResultsInv, PostingInv
  <1>9. WaitingInv' /\ WaitHonest'
    BY <1>2, <1>5, <1>6 DEF ResultsInv, WaitingInv, WaitHonest
  <1>10. TableConsistent'
    BY <1>3, <1>4 DEF ResultsInv, TableConsistent
  <1>11. ReadyInv'
    BY <1>2, <1>4 DEF ResultsInv, ReadyInv, Available
  <1>12. UntrackedInv' /\ ResultNotLost'
    BY <1>2, <1>4 DEF ResultsInv, UntrackedInv, ResultNotLost, TypeOK
  <1>13. MonitorNamesCurrent'
    BY <1>1, <1>2 DEF WorkersInv, MonitorNamesCurrent, Stays, h
  <1>14. ShutdownInv'
    BY <1>1, <1>2, InTaskShutdown DEF WorkersInv, shutdownVars, Pool!Holding
  <1> QED
    BY <1>7, <1>8, <1>9, <1>10, <1>11, <1>12, <1>13, <1>14 DEF ResultsInv, WorkersInv

(* The method throws: nothing is posted.                                   *)
LEMMA ThrowStep ==
    ASSUME IInv, NEW w \in Workers, Throw(w)
    PROVE  IInv'
  <1> USE DEF IInv
  <1>1. /\ Pool!TypeOK'
        /\ pc[w] = "Running" /\ pc'[w] = "Finishing" /\ task'[w] = task[w]
        /\ \A v \in Workers : v # w => Stays(v)
        /\ UNCHANGED stop
        /\ Pool!Outstanding' \subseteq Pool!Outstanding
    BY PoolInTask DEF Throw, Pool!Return
  <1>2. /\ call' = [call EXCEPT ![w] = Idle]
        /\ UNCHANGED <<handle_counter, tableVars, task_srcfunc, shutdownVars,
                       untracked, completed>>
    BY DEF Throw
  <1>3. /\ call \in [Callers -> Calls] /\ Idle \in Calls /\ Idle.phase = "Idle"
        /\ w \in Callers
    BY CallAssumption DEF CallAssumption, Callers, TypeOK, Calls, Phases, Idle, Waiting
  <1>4. TypeOK'
    BY <1>1, <1>2, <1>3 DEF TypeOK, ResultsTypeOK, tableVars, shutdownVars, Calls, Phases
  <1>5. ResultsInv'
    BY <1>1, <1>2, <1>3, QuietResults DEF Quiet
  <1>6. MonitorNamesCurrent'
    BY <1>1, <1>2 DEF WorkersInv, MonitorNamesCurrent, Stays
  <1>7. ShutdownInv'
    BY <1>1, <1>2, InTaskShutdown DEF WorkersInv, shutdownVars, Pool!Holding
  <1> QED
    BY <1>4, <1>5, <1>6, <1>7 DEF WorkersInv

(* The worker gives its task up, and the monitor's name of it with it.     *)
LEMMA FinishStep ==
    ASSUME IInv, NEW w \in Workers, Finish(w)
    PROVE  IInv'
  <1> USE DEF IInv
  <1>1. /\ Pool!TypeOK'
        /\ \A v \in Workers : v # w => Stays(v) \/ Moves(v)
        /\ pc[w] = "Finishing" /\ pc'[w] = "Lock"
        /\ UNCHANGED stop
        /\ Pool!Outstanding' \subseteq Pool!Outstanding
    BY PoolFinish DEF Finish
  <1>2. /\ task_srcfunc' = [task_srcfunc EXCEPT ![w] = 0]
        /\ UNCHANGED <<handle_counter, tableVars, call, shutdownVars, untracked, completed>>
    BY DEF Finish
  <1>3. TypeOK'
    BY <1>1, <1>2 DEF TypeOK, ResultsTypeOK, tableVars, shutdownVars
  <1>4. ResultsInv'
    BY <1>1, <1>2, QuietResults DEF Quiet
  <1>5. MonitorNamesCurrent'
    BY <1>1, <1>2 DEF TypeOK, WorkersInv, MonitorNamesCurrent, Stays, Moves
  <1>6. ShutdownInv'
    BY <1>1, <1>2, InTaskShutdown DEF WorkersInv, shutdownVars, Pool!Holding
  <1> QED
    BY <1>3, <1>4, <1>5, <1>6 DEF WorkersInv

-----------------------------------------------------------------------------
(* The monitor and the destructor.                                         *)

(* monitorFunc changes nothing but its own place.                          *)
LEMMA MonitorStepInv ==
    ASSUME IInv, MonitorStep
    PROVE  IInv'
  <1> USE DEF IInv
  <1>1. /\ monitor' \in {"Check", "Sleep", "Exited"}
        /\ UNCHANGED <<poolVars, handle_counter, tableVars, call, task_srcfunc,
                       dtor, joining, untracked, completed>>
    BY DEF MonitorStep
  <1>2. /\ Pool!TypeOK' /\ Pool!Outstanding' = Pool!Outstanding
        /\ \A w \in Workers : Stays(w)
        /\ UNCHANGED stop
    BY <1>1, SamePoolVars
  <1>3. TypeOK'
    BY <1>1, <1>2 DEF TypeOK, ResultsTypeOK, tableVars
  <1>4. ResultsInv'
    BY <1>1, <1>2, QuietResults DEF Quiet
  <1>5. WorkersInv'
    BY <1>1, <1>2, QuietWorkers
  <1> QED
    BY <1>3, <1>4, <1>5

(* stop_ is set before the destructor joins anybody.                       *)
LEMMA DtorStopStep ==
    ASSUME IInv, DtorStop
    PROVE  IInv'
  <1> USE DEF IInv
  <1>1. /\ Pool!Stop /\ dtor' = "JoinMonitor"
        /\ UNCHANGED <<handle_counter, tableVars, call, task_srcfunc, monitor,
                       joining, untracked, completed>>
    BY DEF DtorStop
  <1>2. /\ Pool!TypeOK'
        /\ \A w \in Workers : Stays(w) \/ Moves(w)
        /\ stop'
        /\ Pool!Outstanding' \subseteq Pool!Outstanding
    BY <1>1, PoolStop
  <1>3. TypeOK'
    BY <1>1, <1>2 DEF TypeOK, ResultsTypeOK, tableVars
  <1>4. ResultsInv'
    BY <1>1, <1>2, QuietResults DEF Quiet
  <1>5. MonitorNamesCurrent'
    BY <1>1, <1>2 DEF WorkersInv, MonitorNamesCurrent, Stays, Moves
  <1>6. ShutdownInv'
    BY <1>1, <1>2 DEF ShutdownInv, Late
  <1> QED
    BY <1>3, <1>4, <1>5, <1>6 DEF WorkersInv

(* The join loop covers every worker there is: those above are not born.   *)
LEMMA DtorJoinMonitorStep ==
    ASSUME IInv, DtorJoinMonitor
    PROVE  IInv'
  <1> USE DEF IInv
  <1>1. /\ dtor = "JoinMonitor" /\ dtor' = "JoinWorkers" /\ joining' = num_of_threads
        /\ UNCHANGED <<poolVars, handle_counter, tableVars, call, task_srcfunc,
                       monitor, untracked, completed>>
    BY DEF DtorJoinMonitor
  <1>2. /\ Pool!TypeOK' /\ Pool!Outstanding' = Pool!Outstanding
        /\ \A w \in Workers : Stays(w)
        /\ UNCHANGED stop
    BY <1>1, SamePoolVars
  <1>3. /\ num_of_threads \in 0 .. MaxThreads
        /\ \A w \in Workers : w > num_of_threads => pc[w] = "Unborn"
    BY CallAssumption
    DEF CallAssumption, Pool!PoolAssumption, TypeOK, Pool!TypeOK, Pool!Workers, Workers
  <1>4. TypeOK'
    BY <1>1, <1>2, <1>3 DEF TypeOK, ResultsTypeOK, tableVars
  <1>5. ResultsInv'
    BY <1>1, <1>2, QuietResults DEF Quiet
  <1>6. MonitorNamesCurrent'
    BY <1>1, <1>2 DEF WorkersInv, MonitorNamesCurrent, Stays
  <1>7. ShutdownInv'
    BY <1>1, <1>2, <1>3 DEF WorkersInv, ShutdownInv, Late, Stays, Pool!Holding
  <1> QED
    BY <1>4, <1>5, <1>6, <1>7 DEF WorkersInv

(* All workers that the loop covers have exited.                           *)
LEMMA DtorDestroyStep ==
    ASSUME IInv, DtorDestroy
    PROVE  IInv'
  <1> USE DEF IInv
  <1>1. /\ dtor = "JoinWorkers" /\ \A w \in 1 .. joining : pc[w] = "Exited"
        /\ dtor' = "Destroyed"
        /\ UNCHANGED <<poolVars, handle_counter, tableVars, call, task_srcfunc,
                       monitor, joining, untracked, completed>>
    BY DEF DtorDestroy, DtorJoined
  <1>2. /\ Pool!TypeOK' /\ Pool!Outstanding' = Pool!Outstanding
        /\ \A w \in Workers : Stays(w)
        /\ UNCHANGED stop
    BY <1>1, SamePoolVars
  <1>3. TypeOK'
    BY <1>1, <1>2 DEF TypeOK, ResultsTypeOK, tableVars
  <1>4. ResultsInv'
    BY <1>1, <1>2, QuietResults DEF Quiet
  <1>5. MonitorNamesCurrent'
    BY <1>1, <1>2 DEF WorkersInv, MonitorNamesCurrent, Stays
  <1>6. 1 .. joining \subseteq Workers
    BY CallAssumption DEF CallAssumption, Pool!PoolAssumption, TypeOK, Workers
  <1>7. ShutdownInv'
    BY <1>1, <1>2, <1>6 DEF WorkersInv, ShutdownInv, Late, Stays
  <1> QED
    BY <1>3, <1>4, <1>5, <1>7 DEF WorkersInv

-----------------------------------------------------------------------------
(* The invariant.                                                          *)

(* The constructor establishes the invariant ...                           *)
LEMMA InitIInv == Init => IInv
  <1> SUFFICES ASSUME Init PROVE IInv
    OBVIOUS
  <1>1. PoolProofs!PoolAssumption /\ PoolProofs!Init
    BY SamePool, CallAssumption
    DEF CallAssumption, Init, Pool!Init, PoolProofs!Init, Pool!Workers, PoolProofs!Workers
  <1>2. Pool!TypeOK
    BY <1>1, PoolProofs!InitTypeOK, SamePool
  <1>3. /\ \A w \in Workers : pc[w] \notin Pool!Holding
        /\ joining \in 0 .. MaxThreads
    BY CallAssumption
    DEF CallAssumption, Pool!PoolAssumption, Init, Pool!Init, Pool!Holding, Pool!Workers, Workers
  <1>4. /\ Idle \in Calls /\ Idle.phase = "Idle"
        /\ call = [t \in Callers |-> Idle]
    BY CallAssumption DEF CallAssumption, Init, Idle, Waiting, Calls, Phases
  <1>5. ResultsTypeOK /\ TableConsistent
    <2>1. /\ handle_counter = 0 /\ results = [h \in Handles |-> NoItem] /\ result_order = <<>>
          /\ HandleMax \in Nat \ {0} /\ MaxResults \in Nat
      BY ResultsAssumption DEF Init, ResultsInit, ResultsAssumption
    <2>2. ToSet(result_order) = {} /\ Len(result_order) = 0 /\ result_order \in Seq(Handles)
      BY <2>1, EmptySeq DEF ToSet
    <2> QED
      BY <2>1, <2>2 DEF ResultsTypeOK, TableConsistent
  <1>6. TypeOK
    BY <1>2, <1>3, <1>4, <1>5 DEF TypeOK, Init, Calls, Phases
  <1>7. ResultsInv
    BY <1>4, <1>5
    DEF ResultsInv, Init, ResultsInit, PostingInv, PostingNow, WaitingInv, ReadyInv, Available,
        UntrackedInv, ResultNotLost, WaitHonest
  <1>8. WorkersInv
    BY <1>3 DEF WorkersInv, Init, MonitorNamesCurrent, ShutdownInv, Late
  <1> QED
    BY <1>6, <1>7, <1>8 DEF IInv

(* ... every step keeps it ...                                             *)
LEMMA NextIInv == IInv /\ [Next]_vars => IInv'
  <1> SUFFICES ASSUME IInv, [Next]_vars PROVE IInv'
    OBVIOUS
  <1>1. ASSUME NEW t \in Callers, NEW o \in Objs, NEW isseq \in PostModes, PostQueue(t, o, isseq)
        PROVE  IInv'
    BY <1>1, PostHandleStep, CallAssumption DEF PostQueue, CallAssumption
  <1>2. ASSUME NEW t \in Callers, NEW o \in Objs, PostEvent(t, o) \/ EnqueueTask(t, o)
        PROVE  IInv'
    BY <1>2, PostHandleStep DEF PostEvent, EnqueueTask
  <1>3. ASSUME NEW t \in Callers, NEW h \in Handles, NEW timeout \in 0 .. MaxTimeout,
               Wait(t, h, timeout)
        PROVE  IInv'
    BY <1>3, WaitStep
  <1>4. ASSUME NEW t \in Callers, CallStep(t)
        PROVE  IInv'
    BY <1>4, RegisterStep, SubmitStep, WaitTrueStep, WaitStep DEF CallStep
  <1>5. ASSUME NEW w \in Workers,
               Scheduling(w) \/ Begin(w) \/ Return(w) \/ Throw(w) \/ Finish(w)
        PROVE  IInv'
    BY <1>5, SchedulingStep, BeginStep, ReturnStep, ThrowStep, FinishStep
  <1>6. CASE MonitorStep \/ DtorStop \/ DtorStep
    BY <1>6, MonitorStepInv, DtorStopStep, DtorJoinMonitorStep, DtorDestroyStep DEF DtorStep
  <1>7. CASE UNCHANGED vars
    <2>1. /\ UNCHANGED <<poolVars, handle_counter, tableVars, call, task_srcfunc,
                         shutdownVars, untracked, completed>>
      BY <1>7 DEF vars
    <2>2. /\ Pool!TypeOK' /\ Pool!Outstanding' = Pool!Outstanding
          /\ \A w \in Workers : Stays(w)
          /\ UNCHANGED stop
      BY <2>1, SamePoolVars DEF IInv
    <2>3. TypeOK'
      BY <2>1, <2>2 DEF IInv, TypeOK, ResultsTypeOK, tableVars, shutdownVars
    <2>4. ResultsInv' /\ WorkersInv'
      BY <2>1, <2>2, QuietResults, QuietWorkers DEF IInv, Quiet, shutdownVars
    <2> QED
      BY <2>3, <2>4 DEF IInv
  <1> QED
    BY <1>1, <1>2, <1>3, <1>4, <1>5, <1>6, <1>7 DEF Next

(* ... and so it always holds.                                             *)
LEMMA Invariant == Spec => []IInv
  BY InitIInv, NextIInv, PTL DEF Spec

-----------------------------------------------------------------------------
(* Type correctness of the dispatcher: its pool, its result table, the     *)
(* calls in progress, the monitor's names and the destructor.              *)
THEOREM TypeCorrect == Spec => []TypeOK
  <1>1. IInv => TypeOK
    BY DEF IInv
  <1> QED
    BY <1>1, Invariant, PTL

(* results_ and result_order_ name the same handles, each once, and never  *)
(* more than FJDISPATCHLITE_MAX_RESULTS, whatever the callers and workers  *)
(* interleave (_new_resultitem, _post_resultitem).                         *)
THEOREM ResultTableConsistent == Spec => []TableConsistent
  <1>1. IInv => TableConsistent
    BY DEF IInv, ResultsInv
  <1> QED
    BY <1>1, Invariant, PTL

(* The result of a completed task is in the table as long as its handle    *)
(* is: the item is registered before the task can run.                     *)
THEOREM ResultsAreKept == Spec => []ResultNotLost
  <1>1. IInv => ResultNotLost
    BY DEF IInv, ResultsInv
  <1> QED
    BY <1>1, Invariant, PTL

(* waitResult returns true only with the value of the task asked for, and  *)
(* only once that task has returned.                                       *)
THEOREM WaitIsHonest == Spec => []WaitHonest
  <1>1. IInv => WaitHonest
    BY DEF IInv, ResultsInv
  <1> QED
    BY <1>1, Invariant, PTL

(* A worker that monitorFunc reports as stuck in a task is inside it.      *)
THEOREM MonitorIsRight == Spec => []MonitorNamesCurrent
  <1>1. IInv => MonitorNamesCurrent
    BY DEF IInv, WorkersInv
  <1> QED
    BY <1>1, Invariant, PTL

(* After ~FJDispatchLite no worker is in, or has taken, a user's method,   *)
(* although workers spawned while it joined were not joined.               *)
THEOREM ShutdownIsClean == Spec => []NoMethodAfterDestroy
  <1>1. IInv => NoMethodAfterDestroy
    <2> SUFFICES ASSUME IInv, dtor = "Destroyed", NEW w \in Workers
                 PROVE  pc[w] \notin Pool!Holding
      BY DEF NoMethodAfterDestroy
    <2>1. joining \in 0 .. MaxThreads
      BY DEF IInv, TypeOK
    <2>2. w \in 1 .. joining \/ Late(w)
      BY <2>1 DEF Late, Workers
    <2> QED
      BY <2>2 DEF IInv, WorkersInv, ShutdownInv, Pool!Holding
  <1> QED
    BY <1>1, Invariant, PTL
=============================================================================
