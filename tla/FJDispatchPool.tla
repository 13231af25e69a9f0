-------------------------- MODULE FJDispatchPool --------------------------
(***************************************************************************)
(* The scheduling half of FJDispatchLite: everything that mutex_ protects. *)
(* Each object owns a task queue and a "running" flag; ready_instances_ is *)
(* the queue of objects that have work; worker threads sleep on cv_, take  *)
(* an object, run ONE of its tasks outside the mutex and put the object    *)
(* back when it has more.                                                  *)
(*                                                                         *)
(* Every critical section of mutex_ is one action: no section acquires     *)
(* another lock, and cv_ is the only place where mutex_ is released        *)
(* inside one (actions Sleep and Wake).                                    *)
(***************************************************************************)
EXTENDS Integers, FiniteSets, SequencesExt

CONSTANTS Objs,            \* FJUnitFrames objects that tasks are posted to
          Tasks,           \* identities of the tasks outstanding at a time
          None,            \* no object, no task
          DefaultThreads,  \* FJDISPATCHLITE_DEFAULT_THREADS
          MaxThreads,      \* FJDISPATCHLITE_MAX_THREADS
          SeqTasks,        \* those of them posted with isseq = true
          ReadyBound       \* bound: posts only while ready_instances_ is shorter

ASSUME PoolAssumption ==
    /\ DefaultThreads \in Nat \ {0}
    /\ MaxThreads \in Nat
    /\ DefaultThreads <= MaxThreads
    /\ SeqTasks \subseteq Tasks
    /\ ReadyBound \in Nat

Workers == 1 .. MaxThreads

VARIABLES stop,             \* stop_
          task_queue,       \* instance_map_[o].task_queue
          running,          \* instance_map_[o].running
          ready_instances,  \* ready_instances_
          num_of_threads,   \* num_of_threads_ = workers_.size()
          pc,               \* where each worker thread is
          inst,             \* workerThread's local inst
          task,             \* workerThread's local task
          parallel          \* history: objects with a parallel post since
                            \* they last had nothing outstanding

vars == <<stop, task_queue, running, ready_instances, num_of_threads,
          pc, inst, task, parallel>>

(* Unborn: not spawned.  Lock: about to lock mutex_ at the loop's top.     *)
(* Waiting: asleep in pthread_cond_wait.  Taken: owns a task.  Running: in *)
(* the user's method.  Finishing: task over, about to lock mutex_ again.   *)
Locations == {"Unborn", "Lock", "Waiting", "Taken", "Running", "Finishing", "Exited"}
Holding == {"Taken", "Running", "Finishing"}

Holders(o) == {w \in Workers : pc[w] \in Holding /\ inst[w] = o}
InReady(o) == {i \in DOMAIN ready_instances : ready_instances[i] = o}
Executing(o) == {w \in Holders(o) : pc[w] # "Finishing"}

Outstanding ==
    (UNION {ToSet(task_queue[o]) : o \in Objs})
        \cup {task[w] : w \in {v \in Workers : pc[v] \in Holding}}

Init ==
    /\ stop = FALSE
    /\ task_queue = [o \in Objs |-> <<>>]
    /\ running = [o \in Objs |-> FALSE]
    /\ ready_instances = <<>>
    /\ num_of_threads = DefaultThreads
    /\ pc = [w \in Workers |-> IF w <= DefaultThreads THEN "Lock" ELSE "Unborn"]
    /\ inst = [w \in Workers |-> None]
    /\ task = [w \in Workers |-> None]
    /\ parallel = {}

-----------------------------------------------------------------------------
(* pthread_cond_signal wakes one sleeper, if there is one.                 *)
SignalLost(p) == {p}
SignalCv(p) ==
    LET sleepers == {w \in Workers : p[w] = "Waiting"}
    IN  IF sleepers = {} THEN {p} ELSE {[p EXCEPT ![w] = "Lock"] : w \in sleepers}

SpawnUnbounded(n) == n > num_of_threads
SpawnNeeded(n) == n > num_of_threads /\ num_of_threads < MaxThreads

(* _adjust_workers: one more worker when n entries of ready_instances_     *)
(* outnumber the workers.  p is pc after the signal.                       *)
AdjustWorkers(n, p) ==
    /\ num_of_threads' = IF SpawnNeeded(n) THEN num_of_threads + 1 ELSE num_of_threads
    /\ pc' = IF SpawnNeeded(n) THEN [p EXCEPT ![num_of_threads + 1] = "Lock"] ELSE p

ActivatesAlways(o, isseq) == TRUE
Activates(o, isseq) == ~running[o] \/ ~isseq

(* The critical section that ends postQueue, postEvent and enqueueTask     *)
(* (the last two with isseq = TRUE): queue the task, make the object ready *)
(* unless it already is, wake a worker, perhaps spawn one.                 *)
Post(o, t, isseq) ==
    /\ t \notin Outstanding
    /\ task_queue' = [task_queue EXCEPT ![o] = Append(@, t)]
    /\ IF Activates(o, isseq)
       THEN /\ ready_instances' = Append(ready_instances, o)
            /\ running' = [running EXCEPT ![o] = TRUE]
            /\ \E p \in SignalCv(pc) : AdjustWorkers(Len(ready_instances) + 1, p)
       ELSE /\ UNCHANGED <<ready_instances, running>>
            /\ AdjustWorkers(Len(ready_instances), pc)
    /\ parallel' = IF ~isseq THEN parallel \cup {o}
                   ELSE IF Holders(o) = {} /\ InReady(o) = {} THEN parallel \ {o}
                   ELSE parallel
    /\ UNCHANGED <<stop, inst, task>>

-----------------------------------------------------------------------------
(* workerThread.                                                           *)

Sleep(w) ==
    /\ pc[w] = "Lock" /\ ~stop /\ ready_instances = <<>>
    /\ pc' = [pc EXCEPT ![w] = "Waiting"]
    /\ UNCHANGED <<stop, task_queue, running, ready_instances, num_of_threads,
                   inst, task, parallel>>

(* A spurious wakeup, which pthread_cond_wait permits.                     *)
Wake(w) ==
    /\ pc[w] = "Waiting"
    /\ pc' = [pc EXCEPT ![w] = "Lock"]
    /\ UNCHANGED <<stop, task_queue, running, ready_instances, num_of_threads,
                   inst, task, parallel>>

Exit(w) ==
    /\ pc[w] = "Lock" /\ stop
    /\ pc' = [pc EXCEPT ![w] = "Exited"]
    /\ UNCHANGED <<stop, task_queue, running, ready_instances, num_of_threads,
                   inst, task, parallel>>

(* The object at the head of ready_instances_ has no task left: another    *)
(* worker, woken by a parallel post, was faster.                           *)
Skip(w) ==
    /\ pc[w] = "Lock" /\ ~stop /\ ready_instances # <<>>
    /\ LET o == Head(ready_instances) IN
        /\ task_queue[o] = <<>>
        /\ running' = [running EXCEPT ![o] = FALSE]
    /\ ready_instances' = Tail(ready_instances)
    /\ UNCHANGED <<stop, task_queue, num_of_threads, pc, inst, task, parallel>>

Take(w) ==
    /\ pc[w] = "Lock" /\ ~stop /\ ready_instances # <<>>
    /\ LET o == Head(ready_instances) IN
        /\ task_queue[o] # <<>>
        /\ inst' = [inst EXCEPT ![w] = o]
        /\ task' = [task EXCEPT ![w] = Head(task_queue[o])]
        /\ task_queue' = [task_queue EXCEPT ![o] = Tail(@)]
    /\ ready_instances' = Tail(ready_instances)
    /\ pc' = [pc EXCEPT ![w] = "Taken"]
    /\ UNCHANGED <<stop, running, num_of_threads, parallel>>

(* The lambda's prologue is over and the user's method begins.             *)
Begin(w) ==
    /\ pc[w] = "Taken"
    /\ pc' = [pc EXCEPT ![w] = "Running"]
    /\ UNCHANGED <<stop, task_queue, running, ready_instances, num_of_threads,
                   inst, task, parallel>>

Return(w) ==
    /\ pc[w] = "Running"
    /\ pc' = [pc EXCEPT ![w] = "Finishing"]
    /\ UNCHANGED <<stop, task_queue, running, ready_instances, num_of_threads,
                   inst, task, parallel>>

RearmNever(o) == FALSE
Rearm(o) == task_queue[o] # <<>>

(* The critical section after the task: the object goes back to the ready  *)
(* queue when it has more tasks, otherwise it stops running.               *)
Finish(w) ==
    /\ pc[w] = "Finishing"
    /\ LET o == inst[w] IN
        IF Rearm(o)
        THEN /\ ready_instances' = Append(ready_instances, o)
             /\ \E p \in SignalCv(pc) : pc' = [p EXCEPT ![w] = "Lock"]
             /\ UNCHANGED running
        ELSE /\ running' = [running EXCEPT ![o] = FALSE]
             /\ pc' = [pc EXCEPT ![w] = "Lock"]
             /\ UNCHANGED ready_instances
    /\ inst' = [inst EXCEPT ![w] = None]
    /\ task' = [task EXCEPT ![w] = None]
    /\ UNCHANGED <<stop, task_queue, num_of_threads, parallel>>

WorkerStep(w) ==
    \/ Sleep(w) \/ Exit(w) \/ Skip(w) \/ Take(w) \/ Begin(w) \/ Return(w) \/ Finish(w)

(* ~FJDispatchLite: stop_ is set and every sleeper is woken.               *)
BroadcastNone(p) == p
BroadcastCv(p) == [w \in Workers |-> IF p[w] = "Waiting" THEN "Lock" ELSE p[w]]

Stop ==
    /\ ~stop
    /\ stop' = TRUE
    /\ pc' = BroadcastCv(pc)
    /\ UNCHANGED <<task_queue, running, ready_instances, num_of_threads,
                   inst, task, parallel>>

-----------------------------------------------------------------------------
(* Posts come from any thread at any time.                                 *)
Submit(o, t) ==
    /\ Len(ready_instances) < ReadyBound
    /\ Post(o, t, t \in SeqTasks)

Next ==
    \/ \E o \in Objs, t \in Tasks : Submit(o, t)
    \/ \E w \in Workers : WorkerStep(w) \/ Wake(w)
    \/ Stop

(* Workers are scheduled, user methods return, and mutex_ starves no one.  *)
(* Nobody has to post, to stop the dispatcher or to wake up spuriously.    *)
Fairness == \A w \in Workers : WF_vars(WorkerStep(w))

Spec == Init /\ [][Next]_vars /\ Fairness

-----------------------------------------------------------------------------
TypeOK ==
    /\ stop \in BOOLEAN
    /\ task_queue \in [Objs -> Seq(Tasks)]
    /\ running \in [Objs -> BOOLEAN]
    /\ ready_instances \in Seq(Objs)
    /\ num_of_threads \in DefaultThreads .. MaxThreads
    /\ pc \in [Workers -> Locations]
    /\ inst \in [Workers -> Objs \cup {None}]
    /\ task \in [Workers -> Tasks \cup {None}]
    /\ parallel \subseteq Objs
    /\ \A w \in Workers : pc[w] = "Unborn" <=> w > num_of_threads
    /\ \A w \in Workers : pc[w] \in Holding => inst[w] \in Objs /\ task[w] \in Tasks

(* An object with queued tasks is never forgotten: it waits in the ready   *)
(* queue, or a worker that will put it back there is holding it.           *)
NoLostTask ==
    \A o \in Objs : task_queue[o] # <<>> => InReady(o) # {} \/ Holders(o) # {}

(* isseq = true ("sequential per obj"): while no parallel post is          *)
(* outstanding on an object, two workers never execute tasks of it at the  *)
(* same time, whatever is posted to the other objects.                     *)
SerialPerObject ==
    \A o \in Objs \ parallel : \A v, w \in Executing(o) : v = w

(* No wakeup is lost: while a worker sleeps on cv_, every entry of the     *)
(* ready queue has an awake worker of its own on its way to take it.       *)
Heading == {w \in Workers : pc[w] = "Lock"}
NoLostWakeup ==
    (\E w \in Workers : pc[w] = "Waiting") => Len(ready_instances) <= Cardinality(Heading)

(* What postQueue's documentation says of isseq (fjdispatchlite.h:152),    *)
(* taken literally: tasks posted with isseq = true are executed one at a   *)
(* time per object.  Parallel tasks may overlap with anything.             *)
SeqTasksExclusive ==
    \A o \in Objs : \A v, w \in Executing(o) :
        task[v] \in SeqTasks /\ task[w] \in SeqTasks => v = w

(* Every queued task is eventually started, under any continuing load of   *)
(* posts to its own and to the other objects, unless the dispatcher is     *)
(* destroyed first.                                                        *)
QueuedTaskStarts ==
    \A o \in Objs, t \in Tasks :
        t \in ToSet(task_queue[o]) ~> t \notin ToSet(task_queue[o]) \/ stop

(* Once stop_ is set every worker thread that was ever spawned leaves its  *)
(* loop, so that pthread_join in the destructor returns.                   *)
WorkersExitAfterStop ==
    stop ~> [](\A w \in 1 .. num_of_threads : pc[w] = "Exited")

-----------------------------------------------------------------------------
Abstract == INSTANCE FJSerialDispatch WITH
    queue <- task_queue,
    executing <- [o \in Objs |-> {task[w] : w \in Executing(o)}],
    mixed <- parallel

(* The pool implements one FIFO executor per object: tasks of an object    *)
(* start in the order of their posts, one at a time unless parallel.       *)
ImplementsSerialDispatch == Abstract!Spec
=============================================================================
