-------------------------- MODULE FJDispatchLite --------------------------
(***************************************************************************)
(* The whole dispatcher: threads that call postQueue / postEvent /         *)
(* enqueueTask and waitResult, the worker pool that runs the tasks (which  *)
(* may make the same calls), the result table, the monitor thread and the  *)
(* destructor.  A call is several critical sections of two mutexes; each   *)
(* is one action, built from the actions of the two component modules.     *)
(***************************************************************************)
EXTENDS FJDispatchResults, FiniteSets

CONSTANTS Clients,         \* threads outside the pool that call the dispatcher
          Objs, None, DefaultThreads, MaxThreads, ReadyBound,
          PostModes,       \* the values of isseq that callers pass
          MaxTimeout       \* bound: the largest timeout_msec, in polls

VARIABLES stop, task_queue, running, ready_instances, num_of_threads,
          pc, inst, task, parallel,               \* the pool
          call,          \* where each caller is inside the dispatcher's API
          task_srcfunc,  \* WorkerInfo::task_srcfunc: the task it names, or 0
          monitor,       \* where monitorFunc is
          dtor,          \* where ~FJDispatchLite is
          joining,       \* the workers its join loop ranges over
          untracked,     \* history: handles returned by enqueueTask
          completed      \* history: handles whose task has returned

poolVars == <<stop, task_queue, running, ready_instances, num_of_threads,
              pc, inst, task, parallel>>
shutdownVars == <<monitor, dtor, joining>>
vars == <<poolVars, handle_counter, tableVars, call, task_srcfunc,
          shutdownVars, untracked, completed>>

Workers == 1 .. MaxThreads

Pool == INSTANCE FJDispatchPool WITH Tasks <- Handles, SeqTasks <- Handles

ASSUME CallAssumption ==
    /\ Pool!PoolAssumption
    /\ PostModes \subseteq BOOLEAN /\ Clients \cap Workers = {}
    /\ MaxTimeout \in Nat

Callers == Clients \cup Workers

(* A call in progress: "Handle" after getHandle, "Item" after the result   *)
(* item was registered, "Wait" in waitResult's loop, "Got" with the value  *)
(* that waitResult returned.  "left" is what is left of the timeout.       *)
Posting(phase, h, o, isseq) ==
    [phase |-> phase, h |-> h, obj |-> o, isseq |-> isseq, left |-> 0, result_out |-> 0]
Waiting(phase, h, left, out) ==
    [phase |-> phase, h |-> h, obj |-> None, isseq |-> TRUE, left |-> left, result_out |-> out]
Idle == Waiting("Idle", 0, 0, 0)
Busy(t) == call[t].phase \in {"Handle", "Item", "Wait"}

(* Who may call: a client until the destructor runs, a worker from inside  *)
(* the user's method.                                                      *)
MayCall(t) ==
    /\ ~Busy(t)
    /\ IF t \in Clients THEN dtor = "Live" ELSE pc[t] = "Running"

Init ==
    /\ Pool!Init
    /\ ResultsInit
    /\ call = [t \in Callers |-> Idle]
    /\ task_srcfunc = [w \in Workers |-> 0]
    /\ monitor = "Check"
    /\ dtor = "Live"
    /\ joining = 0
    /\ untracked = {}
    /\ completed = {}

-----------------------------------------------------------------------------
(* Two bounds: posts begin only while ready_instances_ is shorter than     *)
(* ReadyBound, and no handle repeats while anyone still uses it: HandleMax *)
(* stands for INT64_MAX posts between two uses of the same handle.         *)
HandleGap(h) ==
    /\ h \notin Pool!Outstanding
    /\ results[h] = NoItem
    /\ \A t \in Callers : call[t].h # h

(* The first critical section of a post: getHandle under mutex_.           *)
PostHandle(t, o, isseq, tracked) ==
    LET h == NextHandle IN
    /\ MayCall(t)
    /\ Len(ready_instances) < ReadyBound
    /\ HandleGap(h)
    /\ GetHandle
    /\ call' = [call EXCEPT ![t] = Posting(IF tracked THEN "Handle" ELSE "Item", h, o, isseq)]
    /\ untracked' = IF tracked THEN untracked \ {h} ELSE untracked \cup {h}
    /\ completed' = completed \ {h}
    /\ UNCHANGED <<poolVars, tableVars, task_srcfunc, shutdownVars>>

PostQueue(t, o, isseq) == PostHandle(t, o, isseq, TRUE)

(* postEvent's method takes no data and is always sequential.              *)
PostEvent(t, o) == PostHandle(t, o, TRUE, TRUE)

(* enqueueTask registers no result item.                                   *)
EnqueueTask(t, o) == PostHandle(t, o, TRUE, FALSE)

Register(t) ==
    /\ call[t].phase = "Handle"
    /\ NewResultItem(call[t].h)
    /\ call' = [call EXCEPT ![t].phase = "Item"]
    /\ UNCHANGED <<poolVars, handle_counter, task_srcfunc, shutdownVars,
                   untracked, completed>>

(* The last critical section of a post.                                    *)
Submit(t) ==
    /\ call[t].phase = "Item"
    /\ Pool!Post(call[t].obj, call[t].h, call[t].isseq)
    /\ call' = [call EXCEPT ![t] = Idle]
    /\ UNCHANGED <<handle_counter, tableVars, task_srcfunc, shutdownVars,
                   untracked, completed>>

(* waitResult polls the table until the timeout, counted from "start", has *)
(* elapsed; the handle may be any number.                                  *)
Wait(t, h, timeout) ==
    /\ MayCall(t)
    /\ call' = [call EXCEPT ![t] = Waiting("Wait", h, timeout, 0)]
    /\ UNCHANGED <<poolVars, handle_counter, tableVars, task_srcfunc,
                   shutdownVars, untracked, completed>>

WaitTrueUnready(t) ==
    /\ call[t].phase = "Wait" /\ results[call[t].h] # NoItem
    /\ call' = [call EXCEPT ![t] = Waiting("Got", @.h, 0, results[@.h].value)]
    /\ UNCHANGED <<poolVars, handle_counter, tableVars, task_srcfunc,
                   shutdownVars, untracked, completed>>

WaitTrue(t) ==
    /\ call[t].phase = "Wait" /\ Available(call[t].h)
    /\ call' = [call EXCEPT ![t] = Waiting("Got", @.h, 0, results[@.h].value)]
    /\ UNCHANGED <<poolVars, handle_counter, tableVars, task_srcfunc,
                   shutdownVars, untracked, completed>>

(* No result yet and time left: a timed wait, which releases and takes the *)
(* mutex again.  A poll stands for as many as happen before the clock has  *)
(* gone on.                                                                *)
PollRestarts(t) ==
    /\ call[t].phase = "Wait" /\ ~Available(call[t].h) /\ call[t].left > 0
    /\ UNCHANGED vars
Poll(t) ==
    /\ call[t].phase = "Wait" /\ ~Available(call[t].h) /\ call[t].left > 0
    /\ call' = [call EXCEPT ![t].left = @ - 1]
    /\ UNCHANGED <<poolVars, handle_counter, tableVars, task_srcfunc,
                   shutdownVars, untracked, completed>>

(* timeout_msec has elapsed and the loop finds no result: false.           *)
WaitNever(t) == FALSE
WaitFalse(t) ==
    /\ call[t].phase = "Wait" /\ ~Available(call[t].h) /\ call[t].left = 0
    /\ call' = [call EXCEPT ![t] = Idle]
    /\ UNCHANGED <<poolVars, handle_counter, tableVars, task_srcfunc,
                   shutdownVars, untracked, completed>>

CallStep(t) == Register(t) \/ Submit(t) \/ WaitTrue(t) \/ Poll(t) \/ WaitFalse(t)

-----------------------------------------------------------------------------
(* The worker threads.                                                     *)

Scheduling(w) ==
    /\ Pool!Sleep(w) \/ Pool!Wake(w) \/ Pool!Exit(w) \/ Pool!Skip(w) \/ Pool!Take(w)
    /\ UNCHANGED <<handle_counter, tableVars, call, task_srcfunc, shutdownVars,
                   untracked, completed>>

(* The lambda of postQueue and postEvent tells the monitor which task runs *)
(* on this worker; a task of enqueueTask has no such prologue.             *)
Begin(w) ==
    /\ Pool!Begin(w)
    /\ task_srcfunc' = IF task[w] \in untracked THEN task_srcfunc
                       ELSE [task_srcfunc EXCEPT ![w] = task[w]]
    /\ UNCHANGED <<handle_counter, tableVars, call, shutdownVars, untracked, completed>>

(* The user's method returns and the lambda posts its result.              *)
Return(w) ==
    /\ ~Busy(w)
    /\ Pool!Return(w)
    /\ IF task[w] \in untracked THEN UNCHANGED tableVars
       ELSE PostResultItem(task[w], task[w])
    /\ completed' = completed \cup {task[w]}
    /\ call' = [call EXCEPT ![w] = Idle]
    /\ UNCHANGED <<handle_counter, task_srcfunc, shutdownVars, untracked>>

(* The user's method throws: packaged_task keeps the exception and the     *)
(* rest of the lambda, _post_resultitem included, does not run.            *)
Throw(w) ==
    /\ ~Busy(w)
    /\ Pool!Return(w)
    /\ call' = [call EXCEPT ![w] = Idle]
    /\ UNCHANGED <<handle_counter, tableVars, task_srcfunc, shutdownVars,
                   untracked, completed>>

FinishKeepsName(w) ==
    /\ Pool!Finish(w)
    /\ UNCHANGED <<handle_counter, tableVars, call, task_srcfunc, shutdownVars,
                   untracked, completed>>
Finish(w) ==
    /\ Pool!Finish(w)
    /\ task_srcfunc' = [task_srcfunc EXCEPT ![w] = 0]
    /\ UNCHANGED <<handle_counter, tableVars, call, shutdownVars, untracked, completed>>

-----------------------------------------------------------------------------
(* monitorFunc reads stop_ without the mutex, scans the workers under it   *)
(* and sleeps.                                                             *)
MonitorStep ==
    /\ \/ monitor = "Check" /\ monitor' = IF stop THEN "Exited" ELSE "Sleep"
       \/ monitor = "Sleep" /\ monitor' = "Check"
    /\ UNCHANGED <<poolVars, handle_counter, tableVars, call, task_srcfunc,
                   dtor, joining, untracked, completed>>

(* ~FJDispatchLite runs when no client is inside a call any more.          *)
DtorStop ==
    /\ dtor = "Live" /\ \A c \in Clients : ~Busy(c)
    /\ Pool!Stop
    /\ dtor' = "JoinMonitor"
    /\ UNCHANGED <<handle_counter, tableVars, call, task_srcfunc, monitor,
                   joining, untracked, completed>>

DtorJoinMonitor ==
    /\ dtor = "JoinMonitor" /\ monitor = "Exited"
    /\ dtor' = "JoinWorkers"
    /\ joining' = num_of_threads
    /\ UNCHANGED <<poolVars, handle_counter, tableVars, call, task_srcfunc,
                   monitor, untracked, completed>>

(* Every pthread_join of the loop has returned; mutex_ is destroyed.  The  *)
(* loop's range was fixed when it began: a worker that a task's post still *)
(* spawns is not joined.                                                   *)
DtorJoinNone == dtor = "JoinWorkers"
DtorJoined == dtor = "JoinWorkers" /\ \A w \in 1 .. joining : pc[w] = "Exited"
DtorDestroy ==
    /\ DtorJoined
    /\ dtor' = "Destroyed"
    /\ UNCHANGED <<poolVars, handle_counter, tableVars, call, task_srcfunc,
                   monitor, joining, untracked, completed>>

DtorStep == DtorJoinMonitor \/ DtorDestroy

-----------------------------------------------------------------------------
Next ==
    \/ \E t \in Callers :
        \/ \E o \in Objs, isseq \in PostModes : PostQueue(t, o, isseq)
        \/ \E o \in Objs : PostEvent(t, o) \/ EnqueueTask(t, o)
        \/ \E h \in Handles, timeout \in 0 .. MaxTimeout : Wait(t, h, timeout)
        \/ CallStep(t)
    \/ \E w \in Workers : Scheduling(w) \/ Begin(w) \/ Return(w) \/ Throw(w) \/ Finish(w)
    \/ MonitorStep
    \/ DtorStop
    \/ DtorStep

(* Threads run, the clock goes on, user methods return even if they go on    *)
(* making calls for a while; nobody has to call, stop or wake spuriously.  *)
Fairness ==
    /\ \A t \in Callers : WF_vars(CallStep(t))
    /\ \A w \in Workers :
        /\ WF_vars((Scheduling(w) /\ ~Pool!Wake(w)) \/ Begin(w) \/ Finish(w))
        /\ SF_vars(Return(w) \/ Throw(w))
    /\ WF_vars(MonitorStep)
    /\ WF_vars(DtorStep)

Spec == Init /\ [][Next]_vars /\ Fairness

-----------------------------------------------------------------------------
TypeOK ==
    /\ Pool!TypeOK
    /\ ResultsTypeOK
    /\ call \in [Callers -> [phase : {"Idle", "Handle", "Item", "Wait", "Got"},
                             h : Handles \cup {0}, obj : Objs \cup {None},
                             isseq : BOOLEAN, left : 0 .. MaxTimeout,
                             result_out : Handles \cup {0}]]
    /\ task_srcfunc \in [Workers -> Handles \cup {0}]
    /\ monitor \in {"Check", "Sleep", "Exited"}
    /\ dtor \in {"Live", "JoinMonitor", "JoinWorkers", "Destroyed"}
    /\ joining \in 0 .. MaxThreads
    /\ untracked \subseteq Handles
    /\ completed \subseteq Handles

(* The result of a completed task is never lost: as long as its handle is  *)
(* in the table, the table holds the value that this very task returned.   *)
(* This needs the item to be registered before the task can run.           *)
ResultNotLost ==
    \A h \in completed : results[h] # NoItem => results[h] = Posted(h)

(* waitResult returns true only with the value returned by the task the    *)
(* caller asked for, and only after that task has completed.               *)
WaitHonest ==
    \A t \in Callers : call[t].phase = "Got" =>
        call[t].result_out = call[t].h /\ call[t].h \in completed

(* The monitor blames the task that really occupies the worker: a worker   *)
(* with a task_srcfunc is inside that task.                                *)
MonitorNamesCurrent ==
    \A w \in Workers : task_srcfunc[w] # 0 =>
        pc[w] \in {"Running", "Finishing"} /\ task[w] = task_srcfunc[w]

(* Once the destructor has destroyed the mutexes no worker is inside a     *)
(* user's method and none will enter one, although a worker spawned by a   *)
(* post that a task made during the joins may still be on its way out.     *)
NoMethodAfterDestroy ==
    dtor = "Destroyed" => \A w \in Workers : pc[w] \notin Pool!Holding

(* waitResult returns, even when the task it waits for can never run: its  *)
(* polls, between which results may come and be evicted, use up one and    *)
(* the same timeout.                                                       *)
WaitReturns ==
    \A t \in Callers : call[t].phase = "Wait" ~> call[t].phase # "Wait"

(* Every posted task runs to its end unless the dispatcher is destroyed,   *)
(* even if tasks wait for the results of tasks queued behind themselves.   *)
PostedCompletes ==
    \A o \in Objs, h \in Handles :
        h \in ToSet(task_queue[o]) ~> h \notin Pool!Outstanding \/ stop

(* The destructor terminates: its joins never wait forever.                *)
DestructorReturns == dtor = "JoinMonitor" ~> dtor = "Destroyed"
=============================================================================
