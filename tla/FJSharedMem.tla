---------------------------- MODULE FJSharedMem ----------------------------
(***************************************************************************)
(* FJSharedMem: objects of several processes that notify each other        *)
(* through a shared region, and one worker thread per process that         *)
(* delivers.  Every critical section of the region's mutex_ is one action; *)
(* only the destructor's first one is several, because it polls inside.    *)
(*                                                                         *)
(* The worker table protbl_ is modelled as the memory it is: inserting or  *)
(* removing a process moves the entries of others, together with their     *)
(* condition variables, while their workers keep a pointer to the old      *)
(* place.                                                                  *)
(***************************************************************************)
EXTENDS Integers, SequencesExt

CONSTANTS Msgs,      \* message ids
          Objs,      \* places for FJSharedMem objects, used again and again
          Proc,      \* the pid of each object's process
          Addr,      \* the address of each object in its process
          List,      \* the messages each object's constructor registers
          ProMax,    \* the capacity of protbl_
          ListenMax, \* C_FJNT_LISTEN_MAX
          QueueMax,  \* C_FJNT_QUEUE_MAX
          PayloadSlots,     \* the payload slots
          None,      \* no object, no slot
          Closable   \* bound: the objects that are ever destroyed

Procs == Range(Proc)

ASSUME SharedAssumption ==
    /\ IsFiniteSet(Msgs) /\ Msgs \subseteq Nat \ {0} /\ IsFiniteSet(Objs)
    /\ Proc \in [Objs -> Nat \ {0}] /\ DOMAIN Addr = Objs /\ List \in [Objs -> SUBSET Msgs]
    /\ \A o1, o2 \in Objs : o1 # o2 => <<Proc[o1], Addr[o1]>> # <<Proc[o2], Addr[o2]>>
    /\ ProMax \in Nat \ {0} /\ Cardinality(Procs) <= ProMax
    /\ ListenMax \in Nat /\ QueueMax \in Nat
    /\ None \notin Objs \cup PayloadSlots /\ Closable \subseteq Objs

VARIABLES status,      \* how far the life of each object is
          needworker,  \* needworker_ of each object
          holder,      \* the destructor that keeps shared_region_->mutex_, or None
          protbl,      \* protbl_, also beyond proptr
          proptr,      \* proptr_
          listen,      \* listen_ up to lptr_
          queue,       \* queue_ up to qptr_
          payload,     \* payload_
          self,        \* the object whose workerThread the process's worker runs
          wpc,         \* where the worker of each process is
          p,           \* the index of the entry that its local p points to
          locals       \* its local locals, without the mails already delivered

vars == <<status, needworker, holder, protbl, proptr, listen, queue, payload,
          self, wpc, p, locals>>
tableVars == <<protbl, proptr>>
mailVars == <<listen, queue, payload>>
workerVars == <<self, wpc, p, locals>>

Entry == [key : Procs \cup {0},
          value : [refcount : Nat, running : BOOLEAN, worker_done : BOOLEAN]]
Payload == [state : {"Free", "Unread", "Processed"}, msg : Msgs \cup {0}, to : Procs \cup {0}]
FreePayload == [state |-> "Free", msg |-> 0, to |-> 0]
SlotsIn(state) == {s \in PayloadSlots : payload[s].state = state}

(* The region has just been initialised.                                   *)
Init ==
    /\ status = [o \in Objs |-> "Gone"]
    /\ needworker = [o \in Objs |-> FALSE]
    /\ holder = None
    /\ protbl = [i \in 0 .. ProMax - 1 |->
           [key |-> 0, value |-> [refcount |-> 0, running |-> FALSE, worker_done |-> FALSE]]]
    /\ proptr = 0
    /\ listen = <<>> /\ queue = <<>>
    /\ payload = [s \in PayloadSlots |-> FreePayload]
    /\ self = [k \in Procs |-> None]
    /\ wpc = [k \in Procs |-> "Exited"]
    /\ p = [k \in Procs |-> 0]
    /\ locals = [k \in Procs |-> <<>>]

-----------------------------------------------------------------------------
(* Shared helpers.                                                         *)

Map == INSTANCE FJFixMap WITH Keys <- Procs, Values <- {}, Capacity <- ProMax,
                              entries <- protbl, count <- proptr, ptr <- None, aborted <- FALSE

RegionFree == holder = None
Crashed(k) == wpc[k] = "Crashed"

(* Every arrangement of the mails at some indices of queue_.               *)
Arranged(orders) == {[i \in DOMAIN o |-> queue[o[i]]] : o \in orders}

(* std::sort by message leaves the order of equal messages open.           *)
InQueueOrder(indices) ==
    {o \in SetToSeqs(indices) : \A i, j \in DOMAIN o : i < j => o[i] < o[j]}
SortedByMsg(indices) ==
    {o \in SetToSeqs(indices) : \A i, j \in DOMAIN o : i < j => queue[o[i]].msg <= queue[o[j]].msg}

(* A sorted listen_, which has no two equal entries, is the one by message,*)
(* process and address: in which order listeners of the same message get   *)
(* their mail is chosen when they do.                                      *)
Key(l) == <<l.msg, Proc[l.obj], Addr[l.obj]>>
Less(l, m) ==
    \E i \in 1 .. 3 : Key(l)[i] < Key(m)[i] /\ \A j \in 1 .. i - 1 : Key(l)[j] = Key(m)[j]
AnyOrder(listeners) == SetToSeqs(listeners)
SortedListen(listeners) ==
    {t \in SetToSeqs(listeners) : \A i, j \in DOMAIN t : i < j => Less(t[i], t[j])}

(* A worker that sleeps on the condition variable of an overwritten entry  *)
(* is adrift: a broadcast there may reach it or not.                       *)
Drift(indices) ==
    [k \in Procs |-> IF wpc[k] = "Waiting" /\ p[k] \in indices THEN "Adrift" ELSE wpc[k]]

BroadcastTo(indices) ==
    \E reached \in SUBSET {k \in Procs : wpc[k] = "Adrift"} :
        wpc' = [k \in Procs |->
            IF p[k] \in indices /\ (wpc[k] = "Waiting" \/ k \in reached) THEN "Woken" ELSE wpc[k]]

-----------------------------------------------------------------------------
(* Constructor and addListen.                                              *)

(* _addListen: what is not registered yet, as far as there is room.        *)
Unregistered(o, msgs) == [msg : msgs, obj : {o}] \ Range(listen)
Registered(o, msgs) ==
    LET new == Unregistered(o, msgs)
    IN  {S \in SUBSET new : Cardinality(S) = Min({Cardinality(new), ListenMax - Len(listen)})}

(* The object's process gets an entry and a worker, or another reference.  *)
Attach(o, k) ==
    LET found == Map!FindIndex(k)
        i == IF found < 0 THEN Map!InsertPos(k) ELSE found
        table == IF found < 0 THEN Map!Inserted(k) ELSE protbl
        refs == IF found < 0 THEN 1 ELSE protbl[found].value.refcount + 1
    IN  /\ proptr' = IF found < 0 THEN proptr + 1 ELSE proptr
        /\ IF refs = 1
           THEN /\ wpc[k] = "Exited"
                /\ protbl' = [table EXCEPT ![i].value =
                       [refcount |-> 1, running |-> TRUE, worker_done |-> FALSE]]
                /\ wpc' = [Drift(i .. proptr) EXCEPT ![k] = "Start"]
                /\ self' = [self EXCEPT ![k] = o]
           ELSE /\ protbl' = [table EXCEPT ![i].value.refcount = refs]
                /\ UNCHANGED <<wpc, self>>

(* Bound: a process with a worker that outlived a destructor makes no new  *)
(* object in the place of the one that the worker runs, nor (in Attach) a  *)
(* second worker.                                                          *)
Construct(o) ==
    /\ status[o] = "Gone" /\ ~Crashed(Proc[o]) /\ RegionFree
    /\ self[Proc[o]] = o => wpc[Proc[o]] = "Exited"
    /\ \E new \in Registered(o, List[o]) :
        /\ listen' \in SortedListen(Range(listen) \cup new)
        /\ needworker' = [needworker EXCEPT ![o] = new # {}]
        /\ IF new = {} THEN UNCHANGED <<tableVars, wpc, self>> ELSE Attach(o, Proc[o])
    /\ status' = [status EXCEPT ![o] = "Up"]
    /\ UNCHANGED <<holder, queue, payload, p, locals>>

(* The listener is the object itself, as the parameter's comment has it;   *)
(* message 0 marks an empty mail and is not registered.                    *)
AddListen(o, msg) ==
    /\ status[o] = "Up" /\ RegionFree
    /\ needworker[o]
    /\ \E new \in Registered(o, {msg}) : listen' \in SortedListen(Range(listen) \cup new)
    /\ UNCHANGED <<status, needworker, holder, tableVars, queue, payload, workerVars>>

-----------------------------------------------------------------------------
(* notify.                                                                 *)

(* The 1-based index of the first listener whose message is not less.      *)
LowerBound(msg) ==
    LET search[range \in (0 .. Len(listen)) \X (0 .. Len(listen))] ==
            LET left == range[1]
                right == range[2]
                mid == left + (right - left) \div 2
            IN  IF left >= right THEN left
                ELSE IF listen[mid + 1].msg < msg THEN search[<<mid + 1, right>>]
                ELSE search[<<left, mid>>]
    IN  search[<<0, Len(listen)>>] + 1

(* The places of the listeners from there on until another message appears.*)
Targets(from, msg) ==
    LET start == LowerBound(msg)
        ends == {i \in start .. Len(listen) : listen[i].msg # msg} \cup {Len(listen) + 1}
    IN  {i \in start .. Min(ends) - 1 : Addr[listen[i].obj] # Addr[from]}

RoomTooMuch == QueueMax + 1 - Len(queue)
Room == QueueMax - Len(queue)

(* Mails for the chosen targets are pushed, and their processes' workers   *)
(* are broadcast to if they run.                                           *)
Send(chosen, slot) ==
    LET mail(i) == [msg |-> listen[i].msg, obj |-> listen[i].obj, slot |-> slot[i]]
        indices == {Map!FindIndex(Proc[listen[i].obj]) : i \in chosen} \ {-1}
        live == {i \in indices : protbl[i].value.running /\ ~protbl[i].value.worker_done}
    IN  /\ \E order \in SetToSeqs(chosen) : queue' = queue \o [i \in DOMAIN order |-> mail(order[i])]
        /\ BroadcastTo(live)

Notify(from, msg) ==
    LET targets == Targets(from, msg) IN
    /\ status[from] = "Up" /\ RegionFree
    /\ targets # {}
    /\ \E chosen \in kSubset(Min({Cardinality(targets), Room}), targets) :
           Send(chosen, [i \in chosen |-> None])
    /\ UNCHANGED <<status, needworker, holder, tableVars, listen, payload, self, p, locals>>

(* With payload each mail needs a slot: a free one or one that has been    *)
(* processed long ago.  A target goes without when there is none, or when  *)
(* the queue is full; then its slot is freed again.                        *)
ReusableAny == PayloadSlots
Reusable == SlotsIn("Free") \cup SlotsIn("Processed")

NotifyPayload(from, msg) ==
    LET targets == Targets(from, msg) IN
    /\ status[from] = "Up" /\ RegionFree
    /\ targets # {}
    /\ \E chosen \in SUBSET targets :
       \E slot \in {f \in [chosen -> Reusable] : IsInjective(f)} :
       \E freed \in SUBSET (SlotsIn("Processed") \ Range(slot)) :
        /\ Cardinality(chosen) <= Room
        /\ \/ chosen = targets
           \/ Cardinality(chosen) = Room
           \/ SlotsIn("Free") \subseteq Range(slot)
        /\ freed # {} => Cardinality(chosen) = Room
        /\ Cardinality(chosen) + Cardinality(freed) <= Cardinality(targets)
        /\ Send(chosen, slot)
        /\ payload' = [s \in PayloadSlots |->
               IF s \in Range(slot)
               THEN [state |-> "Unread", msg |-> msg,
                     to |-> Proc[listen[CHOOSE i \in chosen : slot[i] = s].obj]]
               ELSE IF s \in freed THEN FreePayload ELSE payload[s]]
    /\ UNCHANGED <<status, needworker, holder, tableVars, listen, self, p, locals>>

(* How long ago slots were sent is left open.                              *)
ProfileAndGC ==
    /\ \E o \in Objs : status[o] = "Up"
    /\ RegionFree
    /\ \E old \in SUBSET SlotsIn("Processed") :
           payload' = [s \in PayloadSlots |-> IF s \in old THEN FreePayload ELSE payload[s]]
    /\ UNCHANGED <<status, needworker, holder, tableVars, listen, queue, workerVars>>

-----------------------------------------------------------------------------
(* The destructor.                                                         *)

(* The first section.  For the last object of a process it goes on to poll *)
(* with the mutex held.                                                    *)
BeginDestroy(o) ==
    LET i == Map!FindIndex(Proc[o])
        refs == protbl[i].value.refcount - 1
    IN  /\ o \in Closable /\ status[o] = "Up" /\ RegionFree
        /\ IF ~needworker[o] \/ i < 0
           THEN /\ status' = [status EXCEPT ![o] = "Leaving"]
                /\ UNCHANGED <<holder, protbl, wpc>>
           ELSE IF refs > 0
           THEN /\ status' = [status EXCEPT ![o] = "Leaving"]
                /\ protbl' = [protbl EXCEPT ![i].value.refcount = refs]
                /\ UNCHANGED <<holder, wpc>>
           ELSE /\ status' = [status EXCEPT ![o] = "Joining"]
                /\ holder' = o
                /\ protbl' = [protbl EXCEPT ![i].value.refcount = 0, ![i].value.running = FALSE]
                /\ BroadcastTo({i})
        /\ UNCHANGED <<needworker, proptr, mailVars, self, p, locals>>

(* _proAtomDestroy and unset.                                              *)
Detach(o) ==
    LET i == Map!FindIndex(Proc[o]) IN
    /\ protbl' = Map!ShiftDown(i)
    /\ proptr' = proptr - 1
    /\ wpc' = Drift(i .. proptr - 2)
    /\ holder' = None
    /\ status' = [status EXCEPT ![o] = "Leaving"]
    /\ UNCHANGED <<needworker, mailVars, self, p, locals>>

WorkerDone(o) == protbl[Map!FindIndex(Proc[o])].value.worker_done

Join(o) ==
    /\ status[o] = "Joining" /\ WorkerDone(o) /\ wpc[Proc[o]] = "Exited"
    /\ Detach(o)

(* pthread_cond_destroy may hang when somebody waits: this step is only    *)
(* fair when nobody does.                                                  *)
JoinNoTimeout(o) == FALSE
JoinTimeout(o) ==
    /\ status[o] = "Joining" /\ ~WorkerDone(o)
    /\ Detach(o)

(* The second section, and the unmapping.                                  *)
Purge(o) ==
    LET isOther(m) == Addr[m.obj] # Addr[o] IN
    /\ status[o] = "Leaving" /\ RegionFree
    /\ IF needworker[o]
       THEN /\ queue' \in Arranged(SortedByMsg({i \in DOMAIN queue : isOther(queue[i])}))
            /\ listen' \in SortedListen({l \in Range(listen) : isOther(l)})
       ELSE UNCHANGED <<queue, listen>>
    /\ status' = [status EXCEPT ![o] = "Gone"]
    /\ UNCHANGED <<needworker, holder, tableVars, payload, workerVars>>

-----------------------------------------------------------------------------
(* workerThread.  It works in the mapping of the object that started it.   *)

Mapped(k) == status[self[k]] # "Gone"
Goto(k, pc) == wpc' = [wpc EXCEPT ![k] = pc]

Start(k) ==
    /\ wpc[k] = "Start" /\ Mapped(k) /\ RegionFree
    /\ Map!FindIndex(k) >= 0
    /\ p' = [p EXCEPT ![k] = Map!FindIndex(k)]
    /\ Goto(k, "Check")
    /\ UNCHANGED <<status, needworker, holder, tableVars, mailVars, self, locals>>

(* running_ is read with p->mutex_ not held at the loop's top, and held    *)
(* after the wait.                                                         *)
CheckRunning(k) ==
    /\ wpc[k] \in {"Check", "Woken"} /\ Mapped(k)
    /\ Goto(k, IF ~protbl[p[k]].value.running THEN "Finish"
               ELSE IF wpc[k] = "Check" THEN "Wait" ELSE "Drain")
    /\ UNCHANGED <<status, needworker, holder, tableVars, mailVars, self, p, locals>>

Wait(k) ==
    /\ wpc[k] = "Wait" /\ Mapped(k)
    /\ Goto(k, "Waiting")
    /\ UNCHANGED <<status, needworker, holder, tableVars, mailVars, self, p, locals>>

SpuriousWakeup(k) ==
    /\ wpc[k] \in {"Waiting", "Adrift"}
    /\ Goto(k, "Woken")
    /\ UNCHANGED <<status, needworker, holder, tableVars, mailVars, self, p, locals>>

NextMail(k, mails) ==
    /\ locals' = [locals EXCEPT ![k] = mails]
    /\ Goto(k, IF mails = <<>> THEN "Check" ELSE "Deliver")

IsForAnybody(k, m) == TRUE
IsForNobody(k, m) == FALSE
IsFor(k, m) == Proc[m.obj] = k

Drain(k) ==
    LET mine == {i \in DOMAIN queue : IsFor(k, queue[i])} IN
    /\ wpc[k] = "Drain" /\ Mapped(k) /\ RegionFree
    /\ \E mails \in Arranged(InQueueOrder(mine)) : NextMail(k, mails)
    /\ queue' \in Arranged(SortedByMsg(DOMAIN queue \ mine))
    /\ UNCHANGED <<status, needworker, holder, tableVars, listen, payload, self, p>>

HasPayload(k, m) ==
    /\ m.slot # None
    /\ payload[m.slot].state # "Free" /\ payload[m.slot].msg = m.msg /\ payload[m.slot].to = k

(* The callback begins, with the slot's data or without.                   *)
Deliver(k) ==
    LET m == Head(locals[k]) IN
    /\ wpc[k] = "Deliver"
    /\ m.slot # None => Mapped(k) /\ RegionFree
    /\ Goto(k, IF HasPayload(k, m) THEN "UpdateWithData" ELSE "Update")
    /\ UNCHANGED <<status, needworker, holder, tableVars, mailVars, self, p, locals>>

Updated(k) ==
    /\ wpc[k] = "Update"
    /\ NextMail(k, Tail(locals[k]))
    /\ UNCHANGED <<status, needworker, holder, tableVars, mailVars, self, p>>

UpdatedWithData(k) ==
    LET s == Head(locals[k]).slot IN
    /\ wpc[k] = "UpdateWithData" /\ Mapped(k) /\ RegionFree
    /\ payload' = IF payload[s].state = "Free" THEN payload
                  ELSE [payload EXCEPT ![s].state = "Processed"]
    /\ NextMail(k, Tail(locals[k]))
    /\ UNCHANGED <<status, needworker, holder, tableVars, listen, queue, self, p>>

Finish(k) ==
    /\ wpc[k] = "Finish" /\ Mapped(k)
    /\ protbl' = [protbl EXCEPT ![p[k]].value.worker_done = TRUE]
    /\ Goto(k, "Exited")
    /\ UNCHANGED <<status, needworker, holder, proptr, mailVars, self, p, locals>>

(* The worker touches the region after its object has unmapped it, or      *)
(* finds no entry and leaves through a null pointer: the process dies, and *)
(* whatever it holds stays locked.                                         *)
Crash(k) ==
    /\ \/ /\ \/ wpc[k] \in {"Start", "Check", "Wait", "Woken", "Drain",
                             "UpdateWithData", "Finish"}
             \/ wpc[k] = "Deliver" /\ Head(locals[k]).slot # None
          /\ ~Mapped(k)
       \/ wpc[k] = "Start" /\ RegionFree /\ Map!FindIndex(k) < 0
    /\ Goto(k, "Crashed")
    /\ status' = [o \in Objs |-> IF Proc[o] = k THEN "Dead" ELSE status[o]]
    /\ locals' = [locals EXCEPT ![k] = <<>>]
    /\ UNCHANGED <<needworker, holder, tableVars, mailVars, self, p>>

WorkerStep(k) ==
    \/ Start(k) \/ CheckRunning(k) \/ Wait(k) \/ Drain(k)
    \/ Deliver(k) \/ Updated(k) \/ UpdatedWithData(k) \/ Finish(k) \/ Crash(k)

Next ==
    \/ \E o \in Objs : Construct(o) \/ BeginDestroy(o) \/ Join(o) \/ JoinTimeout(o) \/ Purge(o)
    \/ \E o \in Objs, msg \in Msgs : AddListen(o, msg) \/ Notify(o, msg) \/ NotifyPayload(o, msg)
    \/ ProfileAndGC
    \/ \E k \in Procs : WorkerStep(k) \/ SpuriousWakeup(k)

(* Somebody waits on the condition variable in the entry that o's process  *)
(* is about to destroy, or did when the entry was elsewhere.               *)
Awaited(o) ==
    \/ wpc[Proc[o]] \in {"Waiting", "Adrift"}
    \/ \E k \in Procs : wpc[k] = "Waiting" /\ p[k] = Map!FindIndex(Proc[o])

(* Workers run, callbacks return, a destructor goes on, the polling ends,  *)
(* and nobody is passed over for ever at the region's mutex.               *)
Fairness ==
    /\ \A k \in Procs : SF_vars(WorkerStep(k))
    /\ \A o \in Objs : /\ SF_vars(Join(o) \/ Purge(o))
                       /\ WF_vars(JoinTimeout(o) /\ ~Awaited(o))

Spec == Init /\ [][Next]_vars /\ Fairness

-----------------------------------------------------------------------------
Mail == [msg : Msgs, obj : Objs, slot : PayloadSlots \cup {None}]

TypeOK ==
    /\ status \in [Objs -> {"Gone", "Up", "Joining", "Leaving", "Dead"}]
    /\ needworker \in [Objs -> BOOLEAN]
    /\ holder \in Objs \cup {None}
    /\ protbl \in [0 .. ProMax - 1 -> Entry] /\ proptr \in 0 .. ProMax
    /\ listen \in Seq([msg : Msgs, obj : Objs]) /\ Len(listen) <= ListenMax
    /\ queue \in Seq(Mail) /\ Len(queue) <= QueueMax
    /\ payload \in [PayloadSlots -> Payload]
    /\ self \in [Procs -> Objs \cup {None}]
    /\ wpc \in [Procs -> {"Start", "Check", "Wait", "Waiting", "Adrift", "Woken", "Drain",
                          "Deliver", "Update", "UpdateWithData", "Finish", "Exited", "Crashed"}]
    /\ p \in [Procs -> 0 .. ProMax - 1]
    /\ locals \in [Procs -> Seq(Mail)]

(* The mails that nobody has been given yet, queued or taken by a worker,  *)
(* each as a queue (0 or a process) and an index into it.                  *)
Undelivered == ({0} \X DOMAIN queue) \cup UNION {{k} \X DOMAIN locals[k] : k \in Procs}
MailAt(x) == IF x[1] = 0 THEN queue[x[2]] ELSE locals[x[1]][x[2]]

(* The reference counts survive whatever moves the entries: a process has  *)
(* an entry exactly while it has objects that listen, and counts them.     *)
EntryCountsObjects ==
    \A k \in Procs : ~Crashed(k) =>
        LET up == {o \in Objs : Proc[o] = k /\ needworker[o] /\ status[o] = "Up"}
            joining == {o \in Objs : Proc[o] = k /\ status[o] = "Joining"}
            i == Map!FindIndex(k)
        IN  /\ i >= 0 <=> up \cup joining # {}
            /\ i >= 0 => protbl[i].value.refcount = Cardinality(up)

(* A payload slot belongs to one undelivered mail, holds what was sent     *)
(* with it, and is not reused before the callback has returned: the        *)
(* callback reads it with no mutex held.                                   *)
SlotsOwned ==
    \A x, y \in Undelivered :
        LET m == MailAt(x) IN
        m.slot # None =>
            /\ payload[m.slot] = [state |-> "Unread", msg |-> m.msg, to |-> Proc[m.obj]]
            /\ MailAt(y).slot = m.slot => x = y

(* Whatever has been registered and removed, notify finds every listener   *)
(* of the message at another address than the sender's, and nobody else.   *)
NotifyFindsListeners ==
    \A from \in Objs, msg \in Msgs :
        {listen[i] : i \in Targets(from, msg)}
            = {l \in Range(listen) : l.msg = msg /\ Addr[l.obj] # Addr[from]}

CountIn(s, m) == Cardinality({i \in DOMAIN s : s[i].msg = m.msg /\ s[i].obj = m.obj})
Mailbox == INSTANCE FJMailbox WITH
    listeners <- Range(listen),
    queued <- [m \in [msg : Msgs, obj : Objs] |-> CountIn(queue, m)],
    taken <- [m \in [msg : Msgs, obj : Objs] |-> CountIn(locals[Proc[m.obj]], m)]

(* Sorting, draining, purging and delivering neither lose nor duplicate a  *)
(* mail, nor give it to another object or process, except that a purge     *)
(* also drops what is for an object at the same address elsewhere.         *)
ImplementsMailbox == Mailbox!Spec

(* A destructor keeps the region's mutex, perhaps for ever: its process    *)
(* has died, it destroys a condition variable that somebody waits on, or   *)
(* another process's worker has set worker_done_ and it joins its own.     *)
Hung ==
    /\ holder # None
    /\ \/ status[holder] = "Dead"
       \/ Awaited(holder)
       \/ WorkerDone(holder) /\ wpc[Proc[holder]] # "Exited"

Pending(k) == \E i \in DOMAIN queue : Proc[queue[i].obj] = k

(* A worker that a broadcast has reached takes all mails of its process,   *)
(* those left over by earlier lost broadcasts included.                    *)
WakeupDrains ==
    \A k \in Procs :
        Pending(k) /\ wpc[k] = "Woken"
            ~> ~Pending(k) \/ wpc[k] \in {"Finish", "Exited", "Crashed"} \/ Hung

(* A destructor returns, although it polls with the mutex held that the    *)
(* worker may need in order to end.                                        *)
SharedDestructorReturns ==
    \A o \in Objs : status[o] \in {"Joining", "Leaving"} ~> status[o] \in {"Gone", "Dead"} \/ Hung

(* A queued mail is taken, or its object leaves.                           *)
MailIsTaken == \A k \in Procs : Pending(k) ~> ~Pending(k)
=============================================================================
