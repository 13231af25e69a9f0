----------------------- MODULE FJDispatchPool_proofs -----------------------
(***************************************************************************)
(* Proofs about FJDispatchPool for every set of objects and tasks and any  *)
(* numbers of threads: type correctness and the invariant of the ready     *)
(* queue, from which no queued task is lost and sequential tasks of one    *)
(* object exclude each other.                                              *)
(***************************************************************************)
EXTENDS FJDispatchPool, SequenceTheorems, FiniteSetTheorems, TLAPS

-----------------------------------------------------------------------------
(* A "token" of an object is its entry in ready_instances_ or a worker     *)
(* that holds it.                                                          *)

(* Tasks are queued only on objects whose running flag is set.             *)
QueuedIsRunning == \A o \in Objs : task_queue[o] # <<>> => running[o]

(* A running object has a token.                                           *)
RunningHasToken == \A o \in Objs : running[o] => InReady(o) # {} \/ Holders(o) # {}

(* A token of an object without parallel posts means that it is running,   *)
(* and there is only one.                                                  *)
TokenIsRunning ==
    \A o \in Objs \ parallel : InReady(o) # {} \/ Holders(o) # {} => running[o]
AtMostOne(S) == \A a, b \in S : a = b
OneToken ==
    \A o \in Objs \ parallel :
        /\ AtMostOne(InReady(o)) /\ AtMostOne(Holders(o))
        /\ InReady(o) = {} \/ Holders(o) = {}

TokenInv == QueuedIsRunning /\ RunningHasToken /\ TokenIsRunning /\ OneToken

-----------------------------------------------------------------------------
(* Signalling cv_ and spawning workers only ever put sleeping or unborn    *)
(* workers at the top of workerThread's loop.                              *)
OnlyLock(p, q) ==
    \A w \in Workers : q[w] # p[w] => p[w] \in {"Waiting", "Unborn"} /\ q[w] = "Lock"

(* pthread_cond_signal moves at most a sleeper to the loop's top.          *)
LEMMA SignalWakes ==
    ASSUME TypeOK, NEW p \in SignalCv(pc)
    PROVE  /\ p \in [Workers -> Locations]
           /\ OnlyLock(pc, p)
           /\ \A w \in Workers : pc[w] = "Unborn" <=> p[w] = "Unborn"
  BY DEF TypeOK, SignalCv, OnlyLock, Locations

(* _adjust_workers spawns at most the next unborn worker, and never more   *)
(* than MaxThreads.                                                        *)
LEMMA AdjustSpawns ==
    ASSUME PoolAssumption, TypeOK, NEW n, NEW p \in [Workers -> Locations],
           OnlyLock(pc, p), \A w \in Workers : pc[w] = "Unborn" <=> p[w] = "Unborn",
           AdjustWorkers(n, p)
    PROVE  /\ num_of_threads' \in DefaultThreads .. MaxThreads
           /\ pc' \in [Workers -> Locations]
           /\ OnlyLock(pc, pc')
           /\ \A w \in Workers : pc'[w] = "Unborn" <=> w > num_of_threads'
  <1>1. num_of_threads \in DefaultThreads .. MaxThreads
        /\ \A w \in Workers : p[w] = "Unborn" <=> w > num_of_threads
    BY DEF TypeOK
  <1>2. CASE SpawnNeeded(n)
    <2>1. num_of_threads + 1 \in Workers /\ num_of_threads' = num_of_threads + 1
      BY <1>1, <1>2 DEF AdjustWorkers, SpawnNeeded, PoolAssumption, Workers
    <2>2. pc' = [p EXCEPT ![num_of_threads + 1] = "Lock"]
      BY <1>2 DEF AdjustWorkers
    <2>3. pc[num_of_threads + 1] = "Unborn"
      BY <2>1, <1>1 DEF Workers, PoolAssumption
    <2> QED
      BY <1>1, <2>1, <2>2, <2>3 DEF OnlyLock, Locations, Workers, PoolAssumption
  <1>3. CASE ~SpawnNeeded(n)
    BY <1>1, <1>3 DEF AdjustWorkers
  <1> QED BY <1>2, <1>3

(* A post leaves the workers that are not asleep or unborn where they are. *)
LEMMA PostWakes ==
    ASSUME PoolAssumption, TypeOK, NEW o \in Objs, NEW t \in Tasks, NEW isseq,
           Post(o, t, isseq)
    PROVE  /\ num_of_threads' \in DefaultThreads .. MaxThreads
           /\ pc' \in [Workers -> Locations]
           /\ OnlyLock(pc, pc')
           /\ \A w \in Workers : pc'[w] = "Unborn" <=> w > num_of_threads'
  <1>1. CASE Activates(o, isseq)
    <2>1. PICK p \in SignalCv(pc) : AdjustWorkers(Len(ready_instances) + 1, p)
      BY <1>1 DEF Post
    <2> QED BY <2>1, SignalWakes, AdjustSpawns
  <1>2. CASE ~Activates(o, isseq)
    <2>1. AdjustWorkers(Len(ready_instances), pc)
      BY <1>2 DEF Post
    <2>2. pc \in [Workers -> Locations] /\ OnlyLock(pc, pc)
      BY DEF TypeOK, OnlyLock
    <2> QED BY <2>1, <2>2, AdjustSpawns
  <1> QED BY <1>1, <1>2

-----------------------------------------------------------------------------
(* The constructor's state is well typed.                                  *)
LEMMA InitTypeOK == PoolAssumption /\ Init => TypeOK
  <1> SUFFICES ASSUME PoolAssumption, Init PROVE TypeOK
    OBVIOUS
  <1>1. /\ pc \in [Workers -> Locations]
        /\ \A w \in Workers : pc[w] = "Unborn" <=> w > num_of_threads
        /\ \A w \in Workers : pc[w] \notin Holding
    BY DEF Init, PoolAssumption, Workers, Locations, Holding
  <1>2. num_of_threads \in DefaultThreads .. MaxThreads
    BY DEF Init, PoolAssumption
  <1>3. <<>> \in Seq(Objs) /\ <<>> \in Seq(Tasks)
    BY EmptySeq
  <1> QED BY <1>1, <1>2, <1>3 DEF Init, TypeOK

(* postQueue, postEvent and enqueueTask preserve the types.                *)
LEMMA PostTypeOK ==
    ASSUME PoolAssumption, TypeOK, NEW o \in Objs, NEW t \in Tasks, NEW isseq,
           Post(o, t, isseq)
    PROVE  TypeOK'
  <1>1. task_queue' \in [Objs -> Seq(Tasks)]
    <2>1. Append(task_queue[o], t) \in Seq(Tasks)
      BY AppendProperties DEF TypeOK
    <2> QED BY <2>1 DEF Post, TypeOK
  <1>2. ready_instances' \in Seq(Objs)
    <2>1. ready_instances' \in {Append(ready_instances, o), ready_instances}
      BY DEF Post
    <2>2. ready_instances \in Seq(Objs)
      BY DEF TypeOK
    <2>3. Append(ready_instances, o) \in Seq(Objs)
      BY <2>2, AppendProperties
    <2> QED BY <2>1, <2>2, <2>3
  <1>3. running' \in [Objs -> BOOLEAN] /\ parallel' \subseteq Objs
    BY DEF Post, TypeOK
  <1>4. \A w \in Workers : pc'[w] \in Holding => inst'[w] \in Objs /\ task'[w] \in Tasks
    <2>1. \A w \in Workers : pc'[w] \in Holding => pc[w] \in Holding
      BY PostWakes DEF OnlyLock, Holding
    <2>2. UNCHANGED <<inst, task>>
      BY DEF Post
    <2> QED BY <2>1, <2>2 DEF TypeOK
  <1>5. UNCHANGED <<stop, inst, task>>
    BY DEF Post
  <1> QED
    BY <1>1, <1>2, <1>3, <1>4, <1>5, PostWakes DEF TypeOK

(* Every step of workerThread preserves the types.                         *)
LEMMA WorkerTypeOK ==
    ASSUME PoolAssumption, TypeOK, NEW w \in Workers, WorkerStep(w) \/ Wake(w)
    PROVE  TypeOK'
  <1>1. CASE Sleep(w) \/ Exit(w) \/ Wake(w) \/ Begin(w) \/ Return(w)
    BY <1>1 DEF Sleep, Exit, Wake, Begin, Return, TypeOK, Locations, Holding
  <1>2. CASE Skip(w)
    BY <1>2, HeadTailProperties DEF Skip, TypeOK
  <1>3. CASE Take(w)
    <2> DEFINE o == Head(ready_instances)
    <2>1. o \in Objs /\ ready_instances' \in Seq(Objs)
      BY <1>3, HeadTailProperties DEF Take, TypeOK
    <2>2. task_queue[o] \in Seq(Tasks) /\ task_queue[o] # <<>>
      BY <1>3, <2>1 DEF Take, TypeOK
    <2>3. Head(task_queue[o]) \in Tasks /\ Tail(task_queue[o]) \in Seq(Tasks)
      BY <2>2, HeadTailProperties
    <2> QED
      BY <1>3, <2>1, <2>3 DEF Take, TypeOK, Locations, Holding
  <1>4. CASE Finish(w)
    <2>1. inst[w] \in Objs
      BY <1>4 DEF Finish, TypeOK, Holding
    <2>2. /\ ready_instances' \in Seq(Objs)
          /\ running' \in [Objs -> BOOLEAN]
      <3>1. Append(ready_instances, inst[w]) \in Seq(Objs)
        BY <2>1, AppendProperties DEF TypeOK
      <3>2. \/ ready_instances' = Append(ready_instances, inst[w]) /\ UNCHANGED running
            \/ running' = [running EXCEPT ![inst[w]] = FALSE] /\ UNCHANGED ready_instances
        BY <1>4 DEF Finish
      <3> QED BY <3>1, <3>2 DEF TypeOK
    <2>3. PICK p \in SignalCv(pc) \cup {pc} : pc' = [p EXCEPT ![w] = "Lock"]
      BY <1>4 DEF Finish
    <2>4. /\ p \in [Workers -> Locations] /\ OnlyLock(pc, p)
          /\ \A v \in Workers : pc[v] = "Unborn" <=> p[v] = "Unborn"
      BY <2>3, SignalWakes DEF TypeOK, OnlyLock
    <2>5. pc[w] = "Finishing"
      BY <1>4 DEF Finish
    <2>6. /\ pc' \in [Workers -> Locations]
          /\ \A v \in Workers : v # w => pc'[v] = p[v]
          /\ pc'[w] = "Lock"
      BY <2>3, <2>4 DEF Locations
    <2>7. \A v \in Workers : pc'[v] = "Unborn" <=> v > num_of_threads
      BY <2>4, <2>5, <2>6 DEF TypeOK
    <2>8. \A v \in Workers : pc'[v] \in Holding => v # w /\ pc[v] \in Holding
      BY <2>4, <2>6 DEF OnlyLock, Holding
    <2>9. /\ inst' = [inst EXCEPT ![w] = None] /\ task' = [task EXCEPT ![w] = None]
          /\ UNCHANGED <<stop, task_queue, num_of_threads, parallel>>
      BY <1>4 DEF Finish
    <2> QED
      BY <2>2, <2>6, <2>7, <2>8, <2>9 DEF TypeOK
  <1> QED BY <1>1, <1>2, <1>3, <1>4 DEF WorkerStep

(* So does setting stop_ in the destructor.                                *)
LEMMA StopTypeOK == ASSUME TypeOK, Stop PROVE TypeOK'
  BY DEF Stop, BroadcastCv, TypeOK, Locations, Holding

(* So does every step.                                                     *)
LEMMA NextTypeOK == PoolAssumption /\ TypeOK /\ [Next]_vars => TypeOK'
  <1> SUFFICES ASSUME PoolAssumption, TypeOK, [Next]_vars PROVE TypeOK'
    OBVIOUS
  <1>1. CASE \E o \in Objs, t \in Tasks : Submit(o, t)
    BY <1>1, PostTypeOK DEF Submit
  <1>2. CASE \E w \in Workers : WorkerStep(w) \/ Wake(w)
    BY <1>2, WorkerTypeOK
  <1>3. CASE Stop
    BY <1>3, StopTypeOK
  <1>4. CASE UNCHANGED vars
    BY <1>4 DEF vars, TypeOK
  <1> QED BY <1>1, <1>2, <1>3, <1>4 DEF Next

(* Type correctness: among others, a worker that holds an object holds one *)
(* of its tasks too, there are never more than MaxThreads workers, and the *)
(* ready queue names objects only (fjdispatchlite.h:388-401, 546-553).     *)
THEOREM TypeCorrect == Spec => []TypeOK
  BY PoolAssumption, InitTypeOK, NextTypeOK, PTL DEF Spec

-----------------------------------------------------------------------------
(* How a step moves the tokens of an object.                               *)

(* Pushing an object on ready_instances_ adds one entry of that object, at *)
(* the end, and no entry of another one.                                   *)
LEMMA InReadyOfAppend ==
    ASSUME TypeOK, NEW o \in Objs, ready_instances' = Append(ready_instances, o),
           NEW x \in Objs
    PROVE  InReady(x)' = IF x = o THEN InReady(x) \cup {Len(ready_instances) + 1}
                         ELSE InReady(x)
  <1> DEFINE r == ready_instances
  <1>1. r \in Seq(Objs) /\ DOMAIN r = 1 .. Len(r) /\ Len(r) \in Nat
    BY LenProperties DEF TypeOK
  <1>2. /\ r' \in Seq(Objs) /\ Len(r') = Len(r) + 1
        /\ \A i \in 1 .. Len(r) : r'[i] = r[i]
        /\ r'[Len(r) + 1] = o
    BY <1>1, AppendProperties
  <1>3. DOMAIN r' = 1 .. Len(r) + 1
    BY <1>2, LenProperties
  <1> HIDE DEF r
  <1>4. InReady(x) = {i \in DOMAIN r : r[i] = x} /\ InReady(x)' = {i \in DOMAIN r' : r'[i] = x}
    BY DEF InReady, r
  <1>5. Len(r) + 1 \notin 1 .. Len(r) /\ 1 .. Len(r) + 1 = 1 .. Len(r) \cup {Len(r) + 1}
    BY <1>1
  <1>6. Len(ready_instances) + 1 = Len(r) + 1
    BY DEF r
  <1>7. CASE x = o
    BY <1>1, <1>2, <1>3, <1>4, <1>5, <1>6, <1>7
  <1>8. CASE x # o
    BY <1>1, <1>2, <1>3, <1>4, <1>5, <1>6, <1>8
  <1> QED BY <1>7, <1>8

(* Popping the head of ready_instances_ removes one entry of that object   *)
(* and shifts the others.                                                  *)
LEMMA InReadyOfTail ==
    ASSUME TypeOK, ready_instances # <<>>, ready_instances' = Tail(ready_instances),
           NEW x \in Objs
    PROVE  /\ 1 \in InReady(x) <=> x = Head(ready_instances)
           /\ InReady(x) \subseteq Nat
           /\ \A i \in InReady(x)' : i + 1 \in InReady(x) /\ i \in Nat \ {0}
           /\ \A i \in InReady(x) : i # 1 => i - 1 \in InReady(x)'
  <1> DEFINE r == ready_instances
  <1>1. /\ r \in Seq(Objs) /\ DOMAIN r = 1 .. Len(r) /\ Len(r) \in Nat \ {0}
        /\ Head(r) = r[1]
    BY LenProperties, EmptySeq DEF TypeOK
  <1>2. /\ r' \in Seq(Objs) /\ Len(r') = Len(r) - 1
        /\ \A i \in 1 .. Len(r') : r'[i] = r[i + 1]
    BY <1>1, HeadTailProperties
  <1>3. DOMAIN r' = 1 .. Len(r) - 1
    BY <1>2, LenProperties
  <1>4. Head(ready_instances) = r[1]
    BY <1>1
  <1> HIDE DEF r
  <1>5. InReady(x) = {i \in DOMAIN r : r[i] = x} /\ InReady(x)' = {i \in DOMAIN r' : r'[i] = x}
    BY DEF InReady, r
  <1> QED BY <1>1, <1>2, <1>3, <1>4, <1>5

(* The same for the three things TokenInv asks of InReady.                 *)
LEMMA PoppedReady ==
    ASSUME TypeOK, ready_instances # <<>>, ready_instances' = Tail(ready_instances),
           NEW x \in Objs
    PROVE  /\ x = Head(ready_instances) => InReady(x) # {}
           /\ x # Head(ready_instances) => (InReady(x)' = {} <=> InReady(x) = {})
           /\ AtMostOne(InReady(x)) =>
                  /\ AtMostOne(InReady(x)')
                  /\ x = Head(ready_instances) => InReady(x)' = {}
  <1>1. PICK A, B : A = InReady(x) /\ B = InReady(x)'
    OBVIOUS
  <1>2. /\ 1 \in A <=> x = Head(ready_instances)
        /\ A \subseteq Nat
        /\ \A i \in B : i + 1 \in A /\ i \in Nat \ {0}
        /\ \A i \in A : i # 1 => i - 1 \in B
    BY <1>1, InReadyOfTail
  <1>3. x # Head(ready_instances) => (B = {} <=> A = {})
    BY <1>2
  <1>4. ASSUME AtMostOne(A)
        PROVE  AtMostOne(B) /\ (1 \in A => B = {})
    <2>1. ASSUME NEW i \in B, NEW j \in B PROVE i = j
      <3>1. i + 1 = j + 1
        BY <1>2, <1>4, <2>1 DEF AtMostOne
      <3> QED BY <1>2, <2>1, <3>1
    <2>2. ASSUME 1 \in A, NEW i \in B PROVE FALSE
      <3>1. i + 1 = 1
        BY <1>2, <1>4, <2>2 DEF AtMostOne
      <3> QED BY <1>2, <2>2, <3>1
    <2> QED BY <2>1, <2>2 DEF AtMostOne
  <1> QED BY <1>1, <1>2, <1>3, <1>4

(* Waking and spawning workers changes nobody's object.                    *)
LEMMA HoldersKept ==
    ASSUME NEW o \in Objs, OnlyLock(pc, pc'), UNCHANGED inst
    PROVE  Holders(o)' = Holders(o)
  <1>1. \A w \in Workers : pc'[w] \in Holding <=> pc[w] \in Holding
    BY DEF OnlyLock, Holding
  <1> QED BY <1>1 DEF Holders

-----------------------------------------------------------------------------
(* No object has a token at first, and none is running.                    *)
LEMMA InitTokenInv == Init => TokenInv
  <1> SUFFICES ASSUME Init PROVE TokenInv
    OBVIOUS
  <1>1. \A o \in Objs : InReady(o) = {} /\ Holders(o) = {}
    BY DEF Init, InReady, Holders, Holding
  <1> QED
    BY <1>1
    DEF Init, TokenInv, QueuedIsRunning, RunningHasToken, TokenIsRunning, OneToken, AtMostOne

(* A post hands out a token only to an object that is not running, or with *)
(* isseq = false.                                                          *)
LEMMA PostTokenInv ==
    ASSUME PoolAssumption, TypeOK, TokenInv, NEW o \in Objs, NEW t \in Tasks,
           NEW isseq \in BOOLEAN, Post(o, t, isseq)
    PROVE  TokenInv'
  <1>1. \A x \in Objs : Holders(x)' = Holders(x)
    BY PostWakes, HoldersKept DEF Post
  <1>2. /\ task_queue \in [Objs -> Seq(Tasks)] /\ running \in [Objs -> BOOLEAN]
        /\ \A x \in Objs : x # o => task_queue'[x] = task_queue[x]
    BY DEF TypeOK, Post
  <1>3. /\ parallel \subseteq Objs
        /\ \A x \in Objs \ {o} : x \in parallel' <=> x \in parallel
        /\ o \notin parallel' => isseq /\ (o \in parallel => Holders(o) = {} /\ InReady(o) = {})
    BY DEF Post, TypeOK
  <1>4. CASE Activates(o, isseq)
    <2>1. /\ ready_instances' = Append(ready_instances, o)
          /\ running' = [running EXCEPT ![o] = TRUE]
      BY <1>4 DEF Post
    <2>2. \A x \in Objs : InReady(x)' = IF x = o THEN InReady(x) \cup {Len(ready_instances) + 1}
                                        ELSE InReady(x)
      BY <2>1, InReadyOfAppend
    <2>3. o \notin parallel' => ~running[o] /\ InReady(o) = {} /\ Holders(o) = {}
      BY <1>3, <1>4 DEF Activates, TokenInv, TokenIsRunning
    <2>4. QueuedIsRunning' /\ RunningHasToken' /\ TokenIsRunning'
      BY <1>1, <1>2, <1>3, <2>1, <2>2
      DEF TokenInv, QueuedIsRunning, RunningHasToken, TokenIsRunning
    <2>5. OneToken'
      BY <1>1, <1>3, <2>2, <2>3 DEF TokenInv, OneToken, AtMostOne
    <2> QED BY <2>4, <2>5 DEF TokenInv
  <1>5. CASE ~Activates(o, isseq)
    <2>1. UNCHANGED <<ready_instances, running>> /\ running[o]
      BY <1>2, <1>5 DEF Post, Activates
    <2>2. \A x \in Objs : InReady(x)' = InReady(x)
      BY <2>1 DEF InReady
    <2>3. o \in parallel => o \in parallel'
      BY <1>3, <2>1 DEF TokenInv, RunningHasToken
    <2>4. QueuedIsRunning'
      BY <1>2, <2>1 DEF TokenInv, QueuedIsRunning
    <2>5. RunningHasToken'
      BY <1>1, <2>1, <2>2 DEF TokenInv, RunningHasToken
    <2>6. \A x \in Objs \ parallel' : x \in Objs \ parallel
      BY <1>3, <2>3
    <2>7. TokenIsRunning' /\ OneToken'
      BY <1>1, <2>1, <2>2, <2>6 DEF TokenInv, TokenIsRunning, OneToken
    <2> QED BY <2>4, <2>5, <2>7 DEF TokenInv
  <1> QED BY <1>4, <1>5
(* Sleep, Wake, Exit, Begin and Return move a worker without touching what *)
(* it holds, and so does Stop.                                             *)
LEMMA StillTokenInv ==
    ASSUME TokenInv, UNCHANGED <<task_queue, running, ready_instances, parallel>>,
           \A x \in Objs : Holders(x)' = Holders(x)
    PROVE  TokenInv'
  <1>1. \A x \in Objs : InReady(x)' = InReady(x)
    BY DEF InReady
  <1> QED
    BY <1>1 DEF TokenInv, QueuedIsRunning, RunningHasToken, TokenIsRunning, OneToken

(* Steps of workerThread outside its two critical sections on an object    *)
(* move no token.                                                          *)
LEMMA MoveTokenInv ==
    ASSUME TypeOK, TokenInv, NEW w \in Workers,
           Sleep(w) \/ Wake(w) \/ Exit(w) \/ Begin(w) \/ Return(w)
    PROVE  TokenInv'
  <1>1. \A v \in Workers : pc'[v] \in Holding <=> pc[v] \in Holding
    BY DEF TypeOK, Sleep, Wake, Exit, Begin, Return, Holding
  <1>2. UNCHANGED <<task_queue, running, ready_instances, parallel, inst>>
    BY DEF Sleep, Wake, Exit, Begin, Return
  <1>3. \A x \in Objs : Holders(x)' = Holders(x)
    BY <1>1, <1>2 DEF Holders
  <1> QED BY <1>2, <1>3, StillTokenInv

(* Neither does setting stop_.                                             *)
LEMMA StopTokenInv == ASSUME TypeOK, TokenInv, Stop PROVE TokenInv'
  <1>1. \A v \in Workers : pc'[v] \in Holding <=> pc[v] \in Holding
    BY DEF TypeOK, Stop, BroadcastCv, Holding
  <1>2. UNCHANGED <<task_queue, running, ready_instances, parallel, inst>>
    BY DEF Stop
  <1>3. \A x \in Objs : Holders(x)' = Holders(x)
    BY <1>1, <1>2 DEF Holders
  <1> QED BY <1>2, <1>3, StillTokenInv

(* The object loses its place in the ready queue and stops running.        *)
LEMMA SkipTokenInv ==
    ASSUME TypeOK, TokenInv, NEW w \in Workers, Skip(w)
    PROVE  TokenInv'
  <1>1. PICK o \in Objs : o = Head(ready_instances)
    BY HeadTailProperties DEF Skip, TypeOK
  <1>2. /\ task_queue[o] = <<>>
        /\ running' = [running EXCEPT ![o] = FALSE]
        /\ ready_instances # <<>> /\ ready_instances' = Tail(ready_instances)
        /\ UNCHANGED <<task_queue, pc, inst, parallel>>
    BY <1>1 DEF Skip
  <1>3. \A x \in Objs :
            /\ x # o => (InReady(x)' = {} <=> InReady(x) = {})
            /\ AtMostOne(InReady(x)) =>
                   /\ AtMostOne(InReady(x)')
                   /\ x = o => InReady(x)' = {}
    BY <1>1, <1>2, PoppedReady
  <1>4. InReady(o) # {} /\ \A x \in Objs : Holders(x)' = Holders(x)
    BY <1>1, <1>2, PoppedReady DEF Holders
  <1>5. running \in [Objs -> BOOLEAN]
    BY DEF TypeOK
  <1>6. \A x \in Objs : running'[x] = IF x = o THEN FALSE ELSE running[x]
    BY <1>2, <1>5
  <1>7. QueuedIsRunning'
    BY <1>1, <1>2, <1>6 DEF TokenInv, QueuedIsRunning
  <1>8. RunningHasToken'
    BY <1>3, <1>4, <1>6 DEF TokenInv, RunningHasToken
  <1>9. o \notin parallel => InReady(o)' = {} /\ Holders(o)' = {}
    BY <1>1, <1>3, <1>4 DEF TokenInv, OneToken
  <1>10. ASSUME NEW x \in Objs \ parallel
         PROVE  /\ InReady(x)' # {} \/ Holders(x)' # {} => running'[x]
                /\ AtMostOne(InReady(x)') /\ AtMostOne(Holders(x)')
                /\ InReady(x)' = {} \/ Holders(x)' = {}
    <2>1. CASE x = o
      BY <1>9, <1>10, <2>1 DEF AtMostOne
    <2>2. CASE x # o
      BY <1>3, <1>4, <1>6, <1>10, <2>2 DEF TokenInv, TokenIsRunning, OneToken
    <2> QED BY <2>1, <2>2
  <1>11. TokenIsRunning' /\ OneToken'
    BY <1>2, <1>10 DEF TokenIsRunning, OneToken
  <1> QED BY <1>7, <1>8, <1>11 DEF TokenInv

(* The object's token passes from the ready queue to the worker.           *)
LEMMA TakeTokenInv ==
    ASSUME TypeOK, TokenInv, NEW w \in Workers, Take(w)
    PROVE  TokenInv'
  <1>1. PICK o \in Objs : o = Head(ready_instances)
    BY HeadTailProperties DEF Take, TypeOK
  <1>2. /\ pc[w] = "Lock" /\ pc' = [pc EXCEPT ![w] = "Taken"]
        /\ task_queue[o] # <<>>
        /\ inst' = [inst EXCEPT ![w] = o]
        /\ task_queue' = [task_queue EXCEPT ![o] = Tail(@)]
        /\ ready_instances # <<>> /\ ready_instances' = Tail(ready_instances)
        /\ UNCHANGED <<running, parallel>>
    BY <1>1 DEF Take
  <1>3. \A x \in Objs :
            /\ x # o => (InReady(x)' = {} <=> InReady(x) = {})
            /\ AtMostOne(InReady(x)) =>
                   /\ AtMostOne(InReady(x)')
                   /\ x = o => InReady(x)' = {}
    BY <1>1, <1>2, PoppedReady
  <1>4. InReady(o) # {}
    BY <1>1, <1>2, PoppedReady
  <1>5. \A x \in Objs : Holders(x)' = IF x = o THEN Holders(x) \cup {w} ELSE Holders(x)
    BY <1>2 DEF Holders, Holding, TypeOK
  <1>6. QueuedIsRunning'
    <2>1. \A x \in Objs \ {o} : task_queue'[x] = task_queue[x]
      BY <1>2 DEF TypeOK
    <2>2. running[o]
      BY <1>1, <1>2 DEF TokenInv, QueuedIsRunning
    <2> QED BY <1>2, <2>1, <2>2 DEF TokenInv, QueuedIsRunning
  <1>7. RunningHasToken'
    BY <1>2, <1>3, <1>5 DEF TokenInv, RunningHasToken
  <1>8. ASSUME NEW x \in Objs \ parallel
        PROVE  /\ InReady(x)' # {} \/ Holders(x)' # {} => running'[x]
               /\ AtMostOne(InReady(x)') /\ AtMostOne(Holders(x)')
               /\ InReady(x)' = {} \/ Holders(x)' = {}
    <2>1. CASE x = o
      <3>1. InReady(o)' = {} /\ Holders(o) = {} /\ running[o]
        BY <1>3, <1>4, <1>8, <2>1 DEF TokenInv, TokenIsRunning, OneToken
      <3>2. Holders(o)' = {w}
        BY <1>1, <1>5, <3>1
      <3>3. AtMostOne({}) /\ AtMostOne({w})
        BY DEF AtMostOne
      <3> QED BY <1>2, <2>1, <3>1, <3>2, <3>3
    <2>2. CASE x # o
      BY <1>2, <1>3, <1>5, <1>8, <2>2 DEF TokenInv, TokenIsRunning, OneToken
    <2> QED BY <2>1, <2>2
  <1>9. TokenIsRunning' /\ OneToken'
    BY <1>2, <1>8 DEF TokenIsRunning, OneToken
  <1> QED BY <1>6, <1>7, <1>9 DEF TokenInv
(* The worker gives its token back to the ready queue, or the object has   *)
(* no task left and stops running.                                         *)
LEMMA FinishTokenInv ==
    ASSUME TypeOK, TokenInv, NEW w \in Workers, Finish(w)
    PROVE  TokenInv'
  <1>1. PICK o \in Objs : o = inst[w]
    BY DEF Finish, TypeOK, Holding
  <1>2. /\ pc[w] = "Finishing"
        /\ inst' = [inst EXCEPT ![w] = None]
        /\ UNCHANGED <<task_queue, parallel>>
    BY DEF Finish
  <1>3. w \in Holders(o) /\ running \in [Objs -> BOOLEAN]
    BY <1>1, <1>2 DEF Holders, Holding, TypeOK
  <1>4. \A x \in Objs : Holders(x)' = Holders(x) \ {w}
    <2>1. PICK p \in SignalCv(pc) \cup {pc} : pc' = [p EXCEPT ![w] = "Lock"]
      BY <1>1 DEF Finish
    <2>2. p \in [Workers -> Locations] /\ OnlyLock(pc, p)
      BY <2>1, SignalWakes DEF TypeOK, OnlyLock
    <2>3. \A v \in Workers : pc'[v] \in Holding <=> pc[v] \in Holding /\ v # w
      BY <2>1, <2>2 DEF OnlyLock, Holding
    <2>4. \A v \in Workers : v # w => inst'[v] = inst[v]
      BY <1>2 DEF TypeOK
    <2> QED BY <2>3, <2>4 DEF Holders
  <1>5. \A x \in Objs : x # o => Holders(x)' = Holders(x)
    BY <1>1, <1>4 DEF Holders
  <1>6. o \notin parallel => InReady(o) = {} /\ Holders(o)' = {} /\ running[o]
    BY <1>1, <1>3, <1>4 DEF TokenInv, TokenIsRunning, OneToken, AtMostOne
  <1>7. CASE Rearm(o)
    <2>1. ready_instances' = Append(ready_instances, o) /\ UNCHANGED running
      BY <1>1, <1>7 DEF Finish
    <2>2. \A x \in Objs : InReady(x)' = IF x = o THEN InReady(x) \cup {Len(ready_instances) + 1}
                                        ELSE InReady(x)
      BY <2>1, InReadyOfAppend
    <2>3. QueuedIsRunning' /\ RunningHasToken'
      BY <1>2, <1>5, <2>1, <2>2 DEF TokenInv, QueuedIsRunning, RunningHasToken
    <2>4. o \notin parallel => AtMostOne(InReady(o)') /\ AtMostOne(Holders(o)')
      BY <1>6, <2>2 DEF AtMostOne
    <2>5. TokenIsRunning' /\ OneToken'
      BY <1>2, <1>5, <1>6, <2>1, <2>2, <2>4 DEF TokenInv, TokenIsRunning, OneToken
    <2> QED BY <2>3, <2>5 DEF TokenInv
  <1>8. CASE ~Rearm(o)
    <2>1. /\ running' = [running EXCEPT ![o] = FALSE] /\ UNCHANGED ready_instances
          /\ task_queue[o] = <<>>
      BY <1>1, <1>8 DEF Finish, Rearm
    <2>2. \A x \in Objs : InReady(x)' = InReady(x)
      BY <2>1 DEF InReady
    <2>3. \A x \in Objs : running'[x] = IF x = o THEN FALSE ELSE running[x]
      BY <1>3, <2>1
    <2>4. QueuedIsRunning' /\ RunningHasToken'
      BY <1>2, <1>5, <2>1, <2>2, <2>3 DEF TokenInv, QueuedIsRunning, RunningHasToken
    <2>5. o \notin parallel => InReady(o)' = {} /\ Holders(o)' = {} /\ AtMostOne({})
      BY <1>6, <2>2 DEF AtMostOne
    <2>6. TokenIsRunning' /\ OneToken'
      BY <1>2, <1>5, <2>2, <2>3, <2>5 DEF TokenInv, TokenIsRunning, OneToken
    <2> QED BY <2>4, <2>6 DEF TokenInv
  <1> QED BY <1>7, <1>8

(* Every step preserves the invariant.                                     *)
LEMMA NextTokenInv == PoolAssumption /\ TypeOK /\ TokenInv /\ [Next]_vars => TokenInv'
  <1> SUFFICES ASSUME PoolAssumption, TypeOK, TokenInv, [Next]_vars PROVE TokenInv'
    OBVIOUS
  <1>1. ASSUME NEW o \in Objs, NEW t \in Tasks, Submit(o, t) PROVE TokenInv'
    <2>1. Post(o, t, t \in SeqTasks) /\ (t \in SeqTasks) \in BOOLEAN
      BY <1>1 DEF Submit
    <2> QED BY <2>1, PostTokenInv
  <1>2. ASSUME NEW w \in Workers, WorkerStep(w) \/ Wake(w) PROVE TokenInv'
    BY <1>2, MoveTokenInv, SkipTokenInv, TakeTokenInv, FinishTokenInv DEF WorkerStep
  <1>3. CASE Stop
    BY <1>3, StopTokenInv
  <1>4. CASE UNCHANGED vars
    <2>1. UNCHANGED <<task_queue, running, ready_instances, parallel>>
          /\ \A x \in Objs : Holders(x)' = Holders(x)
      BY <1>4 DEF vars, Holders
    <2> QED BY <2>1, StillTokenInv
  <1> QED BY <1>1, <1>2, <1>3, <1>4 DEF Next

(* The invariant of the scheduling state: all of the critical sections of  *)
(* mutex_ agree on who has to look at an object next.                      *)
LEMMA SchedulingInvariant == Spec => [](TypeOK /\ TokenInv)
  <1>1. Init => TypeOK /\ TokenInv
    BY PoolAssumption, InitTypeOK, InitTokenInv
  <1>2. TypeOK /\ TokenInv /\ [Next]_vars => (TypeOK /\ TokenInv)'
    BY PoolAssumption, NextTypeOK, NextTokenInv
  <1> QED BY <1>1, <1>2, PTL DEF Spec

(* postQueue, postEvent, enqueueTask and workerThread together never leave *)
(* a task on a queue that no worker will look at again.                    *)
THEOREM NoTaskIsLost == Spec => []NoLostTask
  <1>1. TypeOK /\ TokenInv => NoLostTask
    BY DEF TokenInv, QueuedIsRunning, RunningHasToken, NoLostTask
  <1> QED BY <1>1, SchedulingInvariant, PTL

(* However many threads post and work, tasks of an object that has had no  *)
(* parallel post since it was last idle are executed one at a time.        *)
THEOREM SequentialPerObject == Spec => []SerialPerObject
  <1>1. TypeOK /\ TokenInv => SerialPerObject
    BY DEF TokenInv, OneToken, AtMostOne, SerialPerObject, Executing
  <1> QED BY <1>1, SchedulingInvariant, PTL
-----------------------------------------------------------------------------
(* Nobody sleeps on cv_ once stop_ is set.                                 *)
StopWakesAll == stop => \A w \in Workers : pc[w] # "Waiting"

WakeInv == StopWakesAll /\ NoLostWakeup

(* The workers at the loop's top are finitely many, so that they can be    *)
(* counted.                                                                *)
LEMMA HeadingFinite ==
    ASSUME PoolAssumption
    PROVE  /\ IsFiniteSet(Heading) /\ Cardinality(Heading) \in Nat
           /\ IsFiniteSet(Heading') /\ Cardinality(Heading') \in Nat
  <1>1. IsFiniteSet(Workers)
    BY FS_Interval DEF PoolAssumption, Workers
  <1>2. ASSUME NEW S \in SUBSET Workers
        PROVE  IsFiniteSet(S) /\ Cardinality(S) \in Nat
    BY <1>1, FS_Subset, FS_CardinalityType
  <1>3. Heading \in SUBSET Workers /\ Heading' \in SUBSET Workers
    BY DEF Heading
  <1> QED BY <1>2, <1>3

(* A signal that finds a sleeper adds a worker to those at the loop's top. *)
LEMMA HeadingGrows ==
    ASSUME PoolAssumption, Heading \subseteq Heading'
    PROVE  /\ Cardinality(Heading) <= Cardinality(Heading')
           /\ \A w \in Heading' \ Heading : Cardinality(Heading) + 1 <= Cardinality(Heading')
  <1>1. IsFiniteSet(Heading) /\ Cardinality(Heading) \in Nat
    BY HeadingFinite
  <1>2. IsFiniteSet(Heading') /\ Cardinality(Heading') \in Nat
    BY HeadingFinite
  <1>3. PICK S, T : S = Heading /\ T = Heading'
    OBVIOUS
  <1>4. Cardinality(S) <= Cardinality(T)
    BY <1>2, <1>3, FS_Subset
  <1>5. ASSUME NEW w \in T \ S PROVE Cardinality(S) + 1 <= Cardinality(T)
    <2>1. S \cup {w} \in SUBSET T
      BY <1>3, <1>5
    <2>2. Cardinality(S \cup {w}) = Cardinality(S) + 1
      BY <1>1, <1>3, <1>5, FS_AddElement
    <2> QED BY <1>2, <1>3, <2>1, <2>2, FS_Subset
  <1> QED BY <1>3, <1>4, <1>5

(* A step that adds one entry to the ready queue and signals, or adds none.*)
LEMMA SignalledWakeInv ==
    ASSUME PoolAssumption, TypeOK, WakeInv, NEW p \in SignalCv(pc),
           Len(ready_instances') <= Len(ready_instances) + 1,
           Len(ready_instances') \in Nat, UNCHANGED stop,
           \A w \in Workers : pc'[w] = "Waiting" => p[w] = "Waiting",
           \A w \in Workers : p[w] = "Lock" => pc'[w] = "Lock"
    PROVE  WakeInv'
  <1>1. Len(ready_instances) \in Nat
    BY LenProperties DEF TypeOK
  <1>2. StopWakesAll'
    BY SignalWakes DEF WakeInv, StopWakesAll, OnlyLock
  <1>3. Heading \subseteq Heading'
    BY SignalWakes DEF Heading, OnlyLock
  <1>4. CASE \A w \in Workers : pc[w] # "Waiting"
    <2>1. \A w \in Workers : pc'[w] # "Waiting"
      BY <1>4, SignalWakes DEF OnlyLock
    <2> QED BY <1>2, <2>1 DEF WakeInv, NoLostWakeup
  <1>5. CASE \E w \in Workers : pc[w] = "Waiting"
    <2>1. PICK w \in Workers : pc[w] = "Waiting" /\ p = [pc EXCEPT ![w] = "Lock"]
      BY <1>5 DEF SignalCv
    <2>2. w \in Heading' \ Heading
      BY <2>1 DEF Heading, TypeOK
    <2>3. Cardinality(Heading) + 1 <= Cardinality(Heading')
      BY <1>3, <2>2, HeadingGrows
    <2>4. Len(ready_instances) <= Cardinality(Heading)
      BY <1>5 DEF WakeInv, NoLostWakeup
    <2>5. Cardinality(Heading) \in Nat /\ Cardinality(Heading') \in Nat
      BY HeadingFinite
    <2>6. Len(ready_instances') <= Cardinality(Heading')
      BY <1>1, <2>3, <2>4, <2>5
    <2> QED BY <1>2, <2>6 DEF WakeInv, NoLostWakeup
  <1> QED BY <1>4, <1>5
(* A step that leaves the ready queue alone and puts nobody to sleep.      *)
LEMMA QuietWakeInv ==
    ASSUME PoolAssumption, TypeOK, WakeInv, UNCHANGED <<stop, ready_instances>>,
           \A w \in Workers : pc'[w] = "Waiting" => pc[w] = "Waiting",
           \A w \in Workers : pc[w] = "Lock" => pc'[w] = "Lock"
    PROVE  WakeInv'
  <1>1. StopWakesAll'
    BY DEF WakeInv, StopWakesAll
  <1>2. Heading \subseteq Heading'
    BY DEF Heading
  <1>3. Cardinality(Heading) <= Cardinality(Heading')
    BY <1>2, HeadingGrows
  <1>4. Cardinality(Heading) \in Nat /\ Cardinality(Heading') \in Nat
    BY HeadingFinite
  <1>5. Len(ready_instances) \in Nat
    BY LenProperties DEF TypeOK
  <1>6. NoLostWakeup'
    BY <1>3, <1>4, <1>5 DEF WakeInv, NoLostWakeup
  <1> QED BY <1>1, <1>6 DEF WakeInv

(* A post pushes one entry and sends one signal.                           *)
LEMMA PostWakeInv ==
    ASSUME PoolAssumption, TypeOK, WakeInv, NEW o \in Objs, NEW t \in Tasks, NEW isseq,
           Post(o, t, isseq)
    PROVE  WakeInv'
  <1>1. ASSUME NEW n, NEW p \in [Workers -> Locations], OnlyLock(pc, p),
               \A w \in Workers : pc[w] = "Unborn" <=> p[w] = "Unborn", AdjustWorkers(n, p)
        PROVE  /\ \A w \in Workers : pc'[w] = "Waiting" => p[w] = "Waiting"
               /\ \A w \in Workers : p[w] = "Lock" => pc'[w] = "Lock"
    BY <1>1 DEF AdjustWorkers
  <1>2. ready_instances \in Seq(Objs) /\ Len(ready_instances) \in Nat
    BY LenProperties DEF TypeOK
  <1>3. CASE Activates(o, isseq)
    <2>1. PICK p \in SignalCv(pc) : AdjustWorkers(Len(ready_instances) + 1, p)
      BY <1>3 DEF Post
    <2>2. Len(ready_instances') = Len(ready_instances) + 1
      BY <1>2, <1>3, AppendProperties DEF Post
    <2>3. UNCHANGED stop
      BY DEF Post
    <2>4. /\ \A w \in Workers : pc'[w] = "Waiting" => p[w] = "Waiting"
          /\ \A w \in Workers : p[w] = "Lock" => pc'[w] = "Lock"
      BY <1>1, <2>1, SignalWakes
    <2> QED BY <1>2, <2>2, <2>3, <2>4, SignalledWakeInv
  <1>4. CASE ~Activates(o, isseq)
    <2>1. /\ AdjustWorkers(Len(ready_instances), pc)
          /\ UNCHANGED <<stop, ready_instances>>
      BY <1>4 DEF Post
    <2>2. pc \in [Workers -> Locations] /\ OnlyLock(pc, pc)
      BY DEF TypeOK, OnlyLock
    <2> QED BY <1>1, <2>1, <2>2, QuietWakeInv
  <1> QED BY <1>3, <1>4

(* Popping the ready queue costs at most one awake worker.                 *)
LEMMA PopWakeInv ==
    ASSUME PoolAssumption, TypeOK, WakeInv, NEW w \in Workers, Skip(w) \/ Take(w)
    PROVE  WakeInv'
  <1>1. StopWakesAll'
    BY DEF WakeInv, StopWakesAll, Skip, Take
  <1>2. /\ ready_instances \in Seq(Objs) /\ Len(ready_instances) \in Nat
        /\ Len(ready_instances') = Len(ready_instances) - 1
    BY LenProperties, HeadTailProperties DEF TypeOK, Skip, Take
  <1>3. Heading \ {w} \subseteq Heading' /\ Heading' \subseteq Workers
    BY DEF Heading, Skip, Take, TypeOK
  <1>4. PICK S, T : S = Heading /\ T = Heading'
    OBVIOUS
  <1>5. IsFiniteSet(S) /\ Cardinality(S) \in Nat
    BY <1>4, HeadingFinite
  <1>6. IsFiniteSet(T) /\ Cardinality(T) \in Nat
    BY <1>4, HeadingFinite
  <1>7. Cardinality(S \ {w}) <= Cardinality(T)
    BY <1>3, <1>4, <1>6, FS_Subset
  <1>8. Cardinality(S) - 1 <= Cardinality(T)
    <2>1. Cardinality(S \ {w}) = IF w \in S THEN Cardinality(S) - 1 ELSE Cardinality(S)
      BY <1>5, FS_RemoveElement
    <2> QED BY <1>5, <1>6, <1>7, <2>1
  <1>9. (\E v \in Workers : pc'[v] = "Waiting") => \E v \in Workers : pc[v] = "Waiting"
    BY DEF Skip, Take, TypeOK
  <1>10. NoLostWakeup'
    BY <1>2, <1>4, <1>5, <1>6, <1>8, <1>9 DEF WakeInv, NoLostWakeup
  <1> QED BY <1>1, <1>10 DEF WakeInv

(* A worker that leaves the loop's top takes an entry with it, or finds    *)
(* none; one that re-arms its object signals, and returns to the top       *)
(* itself.                                                                 *)
LEMMA WorkerWakeInv ==
    ASSUME PoolAssumption, TypeOK, WakeInv, NEW w \in Workers, WorkerStep(w) \/ Wake(w)
    PROVE  WakeInv'
  <1>1. CASE Sleep(w)
    <2>1. ready_instances' = <<>> /\ ~stop'
      BY <1>1 DEF Sleep
    <2>2. Len(ready_instances') = 0 /\ Cardinality(Heading') \in Nat
      BY <2>1, EmptySeq, HeadingFinite
    <2> QED BY <2>1, <2>2 DEF WakeInv, StopWakesAll, NoLostWakeup
  <1>2. CASE Exit(w)
    <2>1. \A v \in Workers : pc'[v] # "Waiting"
      BY <1>2 DEF Exit, WakeInv, StopWakesAll, TypeOK
    <2> QED BY <2>1 DEF WakeInv, StopWakesAll, NoLostWakeup
  <1>3. CASE Wake(w) \/ Begin(w) \/ Return(w)
    <2>1. /\ UNCHANGED <<stop, ready_instances>>
          /\ \A v \in Workers : pc'[v] = "Waiting" => pc[v] = "Waiting"
          /\ \A v \in Workers : pc[v] = "Lock" => pc'[v] = "Lock"
      BY <1>3 DEF Wake, Begin, Return, TypeOK
    <2> QED BY <2>1, QuietWakeInv
  <1>4. CASE Skip(w) \/ Take(w)
    BY <1>4, PopWakeInv
  <1>5. CASE Finish(w)
    <2>1. PICK o \in Objs : o = inst[w]
      BY <1>5 DEF Finish, TypeOK, Holding
    <2>2. ready_instances \in Seq(Objs) /\ Len(ready_instances) \in Nat
      BY LenProperties DEF TypeOK
    <2>3. UNCHANGED stop
      BY <1>5 DEF Finish
    <2>4. CASE Rearm(o)
      <3>1. PICK p \in SignalCv(pc) : pc' = [p EXCEPT ![w] = "Lock"]
        BY <1>5, <2>1, <2>4 DEF Finish
      <3>2. Len(ready_instances') = Len(ready_instances) + 1
        BY <1>5, <2>1, <2>2, <2>4, AppendProperties DEF Finish
      <3>3. /\ \A v \in Workers : pc'[v] = "Waiting" => p[v] = "Waiting"
            /\ \A v \in Workers : p[v] = "Lock" => pc'[v] = "Lock"
        BY <3>1, SignalWakes
      <3> QED BY <2>2, <2>3, <3>2, <3>3, SignalledWakeInv
    <2>5. CASE ~Rearm(o)
      <3>1. pc' = [pc EXCEPT ![w] = "Lock"] /\ UNCHANGED ready_instances
        BY <1>5, <2>1, <2>5 DEF Finish
      <3>2. /\ \A v \in Workers : pc'[v] = "Waiting" => pc[v] = "Waiting"
            /\ \A v \in Workers : pc[v] = "Lock" => pc'[v] = "Lock"
        BY <3>1 DEF TypeOK
      <3> QED BY <2>3, <3>1, <3>2, QuietWakeInv
    <2> QED BY <2>4, <2>5
  <1> QED BY <1>1, <1>2, <1>3, <1>4, <1>5 DEF WorkerStep

(* The destructor's broadcast leaves no worker asleep.                     *)
LEMMA StopWakeInv == ASSUME TypeOK, Stop PROVE WakeInv'
  <1>1. \A w \in Workers : pc'[w] # "Waiting"
    BY DEF Stop, BroadcastCv
  <1> QED BY <1>1 DEF WakeInv, StopWakesAll, NoLostWakeup

(* pthread_cond_signal once per entry pushed to ready_instances_ is enough,*)
(* although one signal wakes one sleeper only, wakeups may be spurious and *)
(* a woken worker may find the entry gone: a worker never sleeps while     *)
(* there are more ready objects than awake workers to take them.           *)
THEOREM NoWakeupIsLost == Spec => []NoLostWakeup
  <1>1. Init => WakeInv
    <2> SUFFICES ASSUME Init PROVE WakeInv
      OBVIOUS
    <2>1. \A w \in Workers : pc[w] # "Waiting"
      BY DEF Init
    <2> QED BY <2>1 DEF WakeInv, StopWakesAll, NoLostWakeup
  <1>2. TypeOK /\ WakeInv /\ [Next]_vars => WakeInv'
    <2> SUFFICES ASSUME TypeOK, WakeInv, [Next]_vars PROVE WakeInv'
      OBVIOUS
    <2>1. CASE \E o \in Objs, t \in Tasks : Submit(o, t)
      BY <2>1, PoolAssumption, PostWakeInv DEF Submit
    <2>2. CASE \E w \in Workers : WorkerStep(w) \/ Wake(w)
      BY <2>2, PoolAssumption, WorkerWakeInv
    <2>3. CASE Stop
      BY <2>3, StopWakeInv
    <2>4. CASE UNCHANGED vars
      BY <2>4, PoolAssumption, QuietWakeInv DEF vars
    <2> QED BY <2>1, <2>2, <2>3, <2>4 DEF Next
  <1> QED BY <1>1, <1>2, TypeCorrect, PTL DEF Spec, WakeInv

-----------------------------------------------------------------------------
(* The proof that FJDispatchPool implements FJSerialDispatch, for every    *)
(* set of objects and tasks and any numbers of threads.                    *)

(* An outstanding task is outstanding once: held by one worker, or at one  *)
(* place of one queue.                                                     *)
HeldOnce ==
    \A v, w \in Workers :
        pc[v] \in Holding /\ pc[w] \in Holding /\ task[v] = task[w] => v = w
QueuedNotHeld ==
    \A o \in Objs, w \in Workers :
        pc[w] \in Holding => \A i \in DOMAIN task_queue[o] : task_queue[o][i] # task[w]
QueuedOnce ==
    \A a, b \in Objs : \A i \in DOMAIN task_queue[a], j \in DOMAIN task_queue[b] :
        task_queue[a][i] = task_queue[b][j] => a = b /\ i = j
DistinctInv == HeldOnce /\ QueuedNotHeld /\ QueuedOnce

(* What is queued or held is outstanding.                                  *)
LEMMA OutstandingTasks ==
    ASSUME NEW t, t \notin Outstanding
    PROVE  /\ \A w \in Workers : pc[w] \in Holding => task[w] # t
           /\ \A o \in Objs : t \notin ToSet(task_queue[o])
  <1> DEFINE held == {task[w] : w \in {v \in Workers : pc[v] \in Holding}}
             queued == UNION {ToSet(task_queue[o]) : o \in Objs}
  <1>1. t \notin queued /\ t \notin held
    <2>1. t \notin queued \cup held
      BY DEF Outstanding
    <2> HIDE DEF queued, held
    <2> QED
      BY <2>1
  <1>2. \A w \in Workers : pc[w] \in Holding => task[w] # t
    BY <1>1
  <1>3. \A o \in Objs : t \notin ToSet(task_queue[o])
    BY <1>1
  <1> QED
    BY <1>2, <1>3

(* Images of sets with one element more or less.                           *)
LEMMA ImageAdd ==
    ASSUME NEW S, NEW f, NEW g, NEW w, \A v \in S : g[v] = f[v]
    PROVE  {g[v] : v \in S \cup {w}} = {f[v] : v \in S} \cup {g[w]}
  OBVIOUS

LEMMA ImageRemove ==
    ASSUME NEW S, NEW f, NEW w \in S, \A v \in S : v # w => f[v] # f[w]
    PROVE  {f[v] : v \in S \ {w}} = {f[v] : v \in S} \ {f[w]}
  OBVIOUS

LEMMA InitDistinct == Init => DistinctInv
  BY DEF Init, DistinctInv, HeldOnce, QueuedNotHeld, QueuedOnce, Holding

(* Steps that neither queue a task nor take one.                           *)
LEMMA KeptDistinct ==
    ASSUME DistinctInv, UNCHANGED task_queue,
           \A w \in Workers : pc'[w] \in Holding => pc[w] \in Holding /\ task'[w] = task[w]
    PROVE  DistinctInv'
  BY DEF DistinctInv, HeldOnce, QueuedNotHeld, QueuedOnce

(* A post appends a task that is not outstanding.                          *)
LEMMA PostDistinct ==
    ASSUME PoolAssumption, TypeOK, DistinctInv, NEW o \in Objs, NEW t \in Tasks, NEW isseq,
           Post(o, t, isseq)
    PROVE  DistinctInv'
  <1>1. \A w \in Workers :
            (pc'[w] \in Holding => pc[w] \in Holding) /\ task'[w] = task[w]
    <2>1. \A w \in Workers : pc'[w] \in Holding => pc[w] \in Holding
      BY PostWakes DEF OnlyLock, Holding
    <2>2. task' = task
      BY DEF Post
    <2> QED
      BY <2>1, <2>2
  <1>2. /\ \A w \in Workers : pc[w] \in Holding => task[w] # t
        /\ \A x \in Objs : \A i \in DOMAIN task_queue[x] : task_queue[x][i] # t
    <2>1. t \notin Outstanding
      BY DEF Post
    <2>2. \A x \in Objs : \A i \in DOMAIN task_queue[x] : task_queue[x][i] \in ToSet(task_queue[x])
      BY DEF ToSet
    <2> QED
      BY <2>1, <2>2, OutstandingTasks
  <1> DEFINE n == Len(task_queue[o]) + 1
  <1>3. /\ \A x \in Objs : x # o => task_queue'[x] = task_queue[x]
        /\ DOMAIN task_queue'[o] = DOMAIN task_queue[o] \cup {n}
        /\ task_queue'[o][n] = t
        /\ \A i \in DOMAIN task_queue[o] : task_queue'[o][i] = task_queue[o][i]
    <2>1. /\ task_queue[o] \in Seq(Tasks)
          /\ task_queue' = [task_queue EXCEPT ![o] = Append(task_queue[o], t)]
      BY DEF TypeOK, Post
    <2>2. task_queue'[o] = Append(task_queue[o], t)
      BY <2>1 DEF TypeOK
    <2>3. \A x \in Objs : x # o => task_queue'[x] = task_queue[x]
      BY <2>1 DEF TypeOK
    <2>4. /\ Len(task_queue[o]) \in Nat
          /\ DOMAIN task_queue[o] = 1 .. Len(task_queue[o])
          /\ DOMAIN Append(task_queue[o], t) = 1 .. Len(task_queue[o]) + 1
          /\ \A i \in 1 .. Len(task_queue[o]) : Append(task_queue[o], t)[i] = task_queue[o][i]
          /\ Append(task_queue[o], t)[Len(task_queue[o]) + 1] = t
      BY <2>1, AppendProperties, LenProperties
    <2> QED
      BY <2>2, <2>3, <2>4
  <1> HIDE DEF n
  <1>4. HeldOnce'
    BY <1>1 DEF DistinctInv, HeldOnce
  <1>5. QueuedNotHeld'
    BY <1>1, <1>2, <1>3 DEF DistinctInv, QueuedNotHeld
  <1>6. QueuedOnce'
    BY <1>2, <1>3 DEF DistinctInv, QueuedOnce
  <1> QED
    BY <1>4, <1>5, <1>6 DEF DistinctInv

(* A worker takes the task from the head of its object's queue.            *)
LEMMA TakeDistinct ==
    ASSUME TypeOK, DistinctInv, NEW w \in Workers, Take(w)
    PROVE  DistinctInv'
  <1> DEFINE o == Head(ready_instances)
             q == task_queue[o]
  <1>1. /\ o \in Objs /\ q \in Seq(Tasks) /\ q # <<>>
        /\ task_queue' = [task_queue EXCEPT ![o] = Tail(q)]
        /\ task'[w] = Head(q)
        /\ \A v \in Workers : v # w => (pc'[v] = pc[v] /\ task'[v] = task[v])
    BY HeadTailProperties DEF Take, TypeOK
  <1>2. /\ Len(q) \in Nat \ {0} /\ DOMAIN q = 1 .. Len(q) /\ Head(q) = q[1]
        /\ DOMAIN Tail(q) = 1 .. Len(q) - 1
        /\ \A i \in 1 .. Len(q) - 1 : Tail(q)[i] = q[i + 1]
    BY <1>1, HeadTailProperties, LenProperties, EmptySeq
  <1>3. task_queue'[o] = Tail(q) /\ \A x \in Objs : x # o => task_queue'[x] = task_queue[x]
    BY <1>1 DEF TypeOK
  <1> HIDE DEF o
  (* Each place of a queue after the step is one before it, not the first. *)
  <1>4. /\ \A x \in Objs : x # o =>
               \A i \in DOMAIN task_queue'[x] :
                   i \in DOMAIN task_queue[x] /\ task_queue'[x][i] = task_queue[x][i]
        /\ \A i \in DOMAIN task_queue'[o] :
               /\ i \in Nat \ {0} /\ i + 1 \in DOMAIN task_queue[o]
               /\ task_queue'[o][i] = task_queue[o][i + 1]
        /\ 1 \in DOMAIN task_queue[o] /\ task'[w] = task_queue[o][1]
    <2>1. \A i \in 1 .. Len(q) - 1 : i \in Nat \ {0} /\ i + 1 \in 1 .. Len(q)
      BY <1>2
    <2> HIDE DEF q
    <2>2. DOMAIN task_queue'[o] = 1 .. Len(q) - 1
      BY <1>2, <1>3
    <2>3. /\ \A i \in DOMAIN task_queue'[o] :
               /\ i \in Nat \ {0} /\ i + 1 \in DOMAIN q
               /\ task_queue'[o][i] = q[i + 1]
          /\ 1 \in DOMAIN q /\ task'[w] = q[1]
      BY <1>1, <1>2, <1>3, <2>1, <2>2
    <2> QED
      BY <1>3, <2>3 DEF q
  <1>5. HeldOnce'
    <2>1. \A v \in Workers : v # w /\ pc'[v] \in Holding => task'[v] # task'[w]
      <3>1. \A v \in Workers : pc[v] \in Holding => task_queue[o][1] # task[v]
        BY <1>1, <1>4 DEF DistinctInv, QueuedNotHeld
      <3> QED
        BY <1>1, <1>4, <3>1
    <2> QED
      BY <1>1, <2>1 DEF DistinctInv, HeldOnce
  <1> HIDE DEF q
  <1>6. QueuedNotHeld'
    <2>1. ASSUME NEW x \in Objs, NEW i \in DOMAIN task_queue'[x]
          PROVE  task_queue'[x][i] # task'[w]
      <3>1. CASE x # o
        BY <1>1, <1>4, <2>1, <3>1 DEF DistinctInv, QueuedOnce
      <3>2. CASE x = o
        <4>1. /\ i + 1 \in DOMAIN task_queue[o] /\ i \in Nat \ {0}
              /\ task_queue'[x][i] = task_queue[o][i + 1]
          BY <1>4, <2>1, <3>2
        <4>2. task_queue[o][i + 1] = task_queue[o][1] => i + 1 = 1
          BY <1>1, <1>4, <4>1 DEF DistinctInv, QueuedOnce
        <4> QED
          BY <1>4, <4>1, <4>2
      <3> QED
        BY <3>1, <3>2
    <2>2. ASSUME NEW x \in Objs, NEW i \in DOMAIN task_queue'[x], NEW v \in Workers,
                 v # w, pc'[v] \in Holding
          PROVE  task_queue'[x][i] # task'[v]
      BY <1>1, <1>4, <2>2 DEF DistinctInv, QueuedNotHeld
    <2> QED
      BY <2>1, <2>2 DEF QueuedNotHeld
  <1>7. QueuedOnce'
    <2>1. ASSUME NEW a \in Objs, NEW b \in Objs,
                 NEW i \in DOMAIN task_queue'[a], NEW j \in DOMAIN task_queue'[b],
                 task_queue'[a][i] = task_queue'[b][j]
          PROVE  a = b /\ i = j
      <3>1. CASE a # o /\ b # o
        BY <1>4, <2>1, <3>1 DEF DistinctInv, QueuedOnce
      <3>2. CASE a = o /\ b # o
        BY <1>1, <1>4, <2>1, <3>2 DEF DistinctInv, QueuedOnce
      <3>3. CASE a # o /\ b = o
        BY <1>1, <1>4, <2>1, <3>3 DEF DistinctInv, QueuedOnce
      <3>4. CASE a = o /\ b = o
        <4>1. i + 1 = j + 1
          BY <1>1, <1>4, <2>1, <3>4 DEF DistinctInv, QueuedOnce
        <4> QED
          BY <1>4, <2>1, <3>4, <4>1
      <3> QED
        BY <3>1, <3>2, <3>3, <3>4
    <2> QED
      BY <2>1 DEF QueuedOnce
  <1> QED
    BY <1>5, <1>6, <1>7 DEF DistinctInv

LEMMA NextDistinct ==
    ASSUME PoolAssumption, TypeOK, DistinctInv, [Next]_vars
    PROVE  DistinctInv'
  <1>1. CASE \E o \in Objs, t \in Tasks : Submit(o, t)
    BY <1>1, PostDistinct DEF Submit
  <1>2. ASSUME NEW w \in Workers, Take(w)
        PROVE  DistinctInv'
    BY <1>2, TakeDistinct
  <1>3. ASSUME NEW w \in Workers,
               Sleep(w) \/ Exit(w) \/ Wake(w) \/ Begin(w) \/ Return(w) \/ Skip(w)
        PROVE  DistinctInv'
    BY <1>3, KeptDistinct DEF Sleep, Exit, Wake, Begin, Return, Skip, TypeOK, Holding
  <1>4. ASSUME NEW w \in Workers, Finish(w)
        PROVE  DistinctInv'
    <2>1. PICK p \in SignalCv(pc) \cup {pc} : pc' = [p EXCEPT ![w] = "Lock"]
      BY <1>4 DEF Finish
    <2>2. p \in [Workers -> Locations] /\ OnlyLock(pc, p)
      BY <2>1, SignalWakes DEF TypeOK, OnlyLock
    <2>3. \A v \in Workers : pc'[v] \in Holding => v # w /\ pc[v] \in Holding
      BY <2>1, <2>2 DEF OnlyLock, Holding
    <2>4. task' = [task EXCEPT ![w] = None] /\ UNCHANGED task_queue
      BY <1>4 DEF Finish
    <2> QED
      BY <2>3, <2>4, KeptDistinct DEF TypeOK
  <1>5. CASE Stop \/ UNCHANGED vars
    BY <1>5, KeptDistinct DEF Stop, BroadcastCv, Holding, TypeOK, vars
  <1> QED
    BY <1>1, <1>2, <1>3, <1>4, <1>5 DEF Next, WorkerStep

LEMMA DistinctInvariant == Spec => []DistinctInv
  <1> USE PoolAssumption
  <1>1. TypeOK /\ DistinctInv /\ [Next]_vars => DistinctInv'
    BY NextDistinct
  <1> QED
    BY <1>1, InitDistinct, TypeCorrect, PTL DEF Spec

-----------------------------------------------------------------------------
(* The steps of the pool under the refinement mapping.                     *)
ExecutingTasks == [o \in Objs |-> {task[w] : w \in Executing(o)}]

(* Waking and spawning workers starts or ends no task.                     *)
LEMMA ExecutingKept ==
    ASSUME OnlyLock(pc, pc'), UNCHANGED <<inst, task>>
    PROVE  UNCHANGED ExecutingTasks
  <1>1. ASSUME NEW o \in Objs
        PROVE  Executing(o)' = Executing(o)
    BY DEF OnlyLock, Executing, Holders, Holding
  <1> QED
    BY <1>1 DEF ExecutingTasks

(* Who executes tasks of an object, and what they execute.                 *)
LEMMA ExecutingIs ==
    ASSUME NEW o \in Objs
    PROVE  /\ \A w : w \in Executing(o) <=>
                   w \in Workers /\ pc[w] \in {"Taken", "Running"} /\ inst[w] = o
           /\ \A w : w \in Executing(o)' <=>
                   w \in Workers /\ pc'[w] \in {"Taken", "Running"} /\ inst'[w] = o
           /\ ExecutingTasks[o] = {task[w] : w \in Executing(o)}
           /\ ExecutingTasks'[o] = {task'[w] : w \in Executing(o)'}
  BY DEF Executing, Holders, Holding, ExecutingTasks

(* Nothing changes for the abstract specification when the same workers    *)
(* execute the same tasks.                                                 *)
LEMMA SameExecuting ==
    ASSUME NEW o \in Objs,
           \A w \in Workers :
               /\ pc'[w] \in {"Taken", "Running"} <=> pc[w] \in {"Taken", "Running"}
               /\ pc[w] \in {"Taken", "Running"} => inst'[w] = inst[w] /\ task'[w] = task[w]
    PROVE  ExecutingTasks'[o] = ExecutingTasks[o]
  <1>1. \A w : w \in Executing(o)' <=> w \in Executing(o)
    <2>1. SUFFICES ASSUME NEW w \in Workers
                   PROVE  w \in Executing(o)' <=> w \in Executing(o)
      BY ExecutingIs
    <2>2. /\ w \in Executing(o)' <=> pc'[w] \in {"Taken", "Running"} /\ inst'[w] = o
          /\ w \in Executing(o) <=> pc[w] \in {"Taken", "Running"} /\ inst[w] = o
      BY ExecutingIs
    <2> QED
      BY <2>2
  <1>2. Executing(o)' = Executing(o)
    BY <1>1
  <1>3. \A w \in Executing(o) : task'[w] = task[w]
    <2>1. \A w \in Executing(o) : w \in Workers /\ pc[w] \in {"Taken", "Running"}
      BY ExecutingIs
    <2> QED
      BY <2>1
  <1>4. ExecutingTasks'[o] = {task'[w] : w \in Executing(o)}
    BY <1>2, ExecutingIs
  <1>5. {task'[w] : w \in Executing(o)} = {task[w] : w \in Executing(o)}
    BY <1>3
  <1> QED
    BY <1>4, <1>5, ExecutingIs

LEMMA PostRefines ==
    ASSUME PoolAssumption, TypeOK, TokenInv, NEW o \in Objs, NEW t \in Tasks,
           NEW isseq \in BOOLEAN, Post(o, t, isseq)
    PROVE  Abstract!Post(o, t, isseq)
  <1>1. t \notin Abstract!Outstanding
    <2>1. t \notin Outstanding
      BY DEF Post
    <2>2. ASSUME NEW x \in Objs
          PROVE  t \notin ToSet(task_queue[x]) /\ t \notin ExecutingTasks[x]
      <3>1. \A w \in Executing(x) : w \in Workers /\ pc[w] \in Holding
        BY DEF Executing, Holders
      <3>2. t \notin {task[w] : w \in Executing(x)}
        BY <2>1, <3>1, OutstandingTasks
      <3> QED
        BY <2>1, <3>2, OutstandingTasks DEF ExecutingTasks
    <2>3. ASSUME t \in Abstract!Outstanding
          PROVE  \E x \in Objs : t \in ToSet(task_queue[x]) \/ t \in ExecutingTasks[x]
      <3>1. PICK x \in Objs : t \in Abstract!ToSet(task_queue[x]) \cup ExecutingTasks[x]
        BY <2>3 DEF Abstract!Outstanding, ExecutingTasks
      <3> QED
        BY <3>1 DEF ToSet, Abstract!ToSet
    <2> QED
      BY <2>2, <2>3
  <1>2. UNCHANGED ExecutingTasks
    BY PostWakes, ExecutingKept DEF Post
  <1>3. \/ ~isseq /\ parallel' = parallel \cup {o}
        \/ isseq /\ parallel' = parallel
        \/ /\ isseq /\ task_queue[o] = <<>> /\ ExecutingTasks[o] = {}
           /\ parallel' = parallel \ {o}
    <2>1. CASE isseq /\ Holders(o) = {} /\ InReady(o) = {}
      <3>1. task_queue[o] = <<>>
        BY <2>1 DEF TokenInv, QueuedIsRunning, RunningHasToken
      <3>2. ExecutingTasks[o] = {}
        BY <2>1 DEF ExecutingTasks, Executing
      <3> QED
        BY <2>1, <3>1, <3>2 DEF Post
    <2>2. CASE ~(isseq /\ Holders(o) = {} /\ InReady(o) = {})
      BY <2>2 DEF Post
    <2> QED
      BY <2>1, <2>2
  <1>4. task_queue' = [task_queue EXCEPT ![o] = Append(@, t)]
    BY DEF Post
  <1> QED
    BY <1>1, <1>2, <1>3, <1>4 DEF Abstract!Post, ExecutingTasks

LEMMA TakeRefines ==
    ASSUME TypeOK, TokenInv, NEW w \in Workers, Take(w)
    PROVE  \E o \in Objs : Abstract!Start(o)
  <1>0. PICK o \in Objs : o = Head(ready_instances)
    BY HeadTailProperties DEF Take, TypeOK
  <1>1. /\ InReady(o) # {} /\ task_queue[o] # <<>>
        /\ task_queue' = [task_queue EXCEPT ![o] = Tail(task_queue[o])]
        /\ pc[w] = "Lock" /\ pc' = [pc EXCEPT ![w] = "Taken"]
        /\ inst' = [inst EXCEPT ![w] = o]
        /\ task' = [task EXCEPT ![w] = Head(task_queue[o])]
        /\ UNCHANGED parallel
    <2>1. ready_instances # <<>> /\ ready_instances' = Tail(ready_instances)
      BY DEF Take
    <2> QED
      BY <1>0, <2>1, PoppedReady DEF Take
  <1>2. o \in parallel \/ ExecutingTasks[o] = {}
    BY <1>1 DEF TokenInv, OneToken, ExecutingTasks, Executing
  <1>3. Executing(o)' = Executing(o) \cup {w} /\ w \notin Executing(o)
    <2>1. \A v \in Workers : v # w => pc'[v] = pc[v] /\ inst'[v] = inst[v]
      BY <1>1 DEF TypeOK
    <2>2. pc'[w] = "Taken" /\ inst'[w] = o
      BY <1>1 DEF TypeOK
    <2>3. \A v : v \in Executing(o)' <=> v \in Executing(o) \/ v = w
      BY <1>1, <2>1, <2>2, ExecutingIs
    <2>4. w \notin Executing(o)
      BY <1>1, ExecutingIs
    <2> QED
      BY <2>3, <2>4
  <1>4. \A x \in Objs : x # o => Executing(x)' = Executing(x) /\ w \notin Executing(x)
    BY <1>1 DEF Executing, Holders, Holding, TypeOK
  <1>5. task'[w] = Head(task_queue[o]) /\ \A v \in Workers : v # w => task'[v] = task[v]
    BY <1>1 DEF TypeOK
  <1>6. \A x \in Objs : Executing(x) \subseteq Workers
    BY DEF Executing, Holders
  <1>7. ExecutingTasks' = [ExecutingTasks EXCEPT ![o] = @ \cup {Head(task_queue[o])}]
    <2>1. ExecutingTasks'[o] = ExecutingTasks[o] \cup {Head(task_queue[o])}
      <3>1. ExecutingTasks'[o] = {task'[v] : v \in Executing(o) \cup {w}}
        BY <1>1, <1>3, ExecutingIs
      <3>2. {task'[v] : v \in Executing(o) \cup {w}}
                = {task[v] : v \in Executing(o)} \cup {task'[w]}
        BY <1>3, <1>5, <1>6, <1>1, ImageAdd
      <3> QED
        BY <1>1, <1>5, <3>1, <3>2 DEF ExecutingTasks
    <2>2. \A x \in Objs : x # o => ExecutingTasks'[x] = ExecutingTasks[x]
      BY <1>4, <1>5, <1>6 DEF ExecutingTasks
    <2> QED
      BY <1>1, <2>1, <2>2 DEF ExecutingTasks
  <1> QED
    BY <1>1, <1>2, <1>7 DEF Abstract!Start, ExecutingTasks

LEMMA ReturnRefines ==
    ASSUME TypeOK, HeldOnce, NEW w \in Workers, Return(w)
    PROVE  \E o \in Objs : \E t \in Tasks : Abstract!Complete(o, t)
  <1>0. PICK o \in Objs, t \in Tasks : o = inst[w] /\ t = task[w]
    BY DEF Return, TypeOK, Holding
  <1>1. /\ pc[w] = "Running" /\ pc' = [pc EXCEPT ![w] = "Finishing"]
        /\ UNCHANGED <<task_queue, inst, task, parallel>>
    BY DEF Return, TypeOK, Holding
  <1>2. w \in Executing(o) /\ Executing(o)' = Executing(o) \ {w}
    BY <1>0, <1>1 DEF Executing, Holders, Holding, TypeOK
  <1>3. \A x \in Objs : x # o => Executing(x)' = Executing(x)
    BY <1>0, <1>1 DEF Executing, Holders, Holding, TypeOK
  <1>4. \A v \in Executing(o) : v # w => task[v] # t
    BY <1>0, <1>1 DEF HeldOnce, Executing, Holders, Holding
  <1>5. t \in ExecutingTasks[o] /\ ExecutingTasks' = [ExecutingTasks EXCEPT ![o] = @ \ {t}]
    <2>1. t \in ExecutingTasks[o] /\ ExecutingTasks'[o] = ExecutingTasks[o] \ {t}
      <3>1. ExecutingTasks'[o] = {task[v] : v \in Executing(o) \ {w}}
        BY <1>1, <1>2, ExecutingIs
      <3>2. {task[v] : v \in Executing(o) \ {w}} = {task[v] : v \in Executing(o)} \ {task[w]}
        BY <1>2, <1>4, <1>0, ImageRemove
      <3>3. task[w] \in {task[v] : v \in Executing(o)}
        BY <1>2
      <3> QED
        BY <1>0, <1>1, <3>1, <3>2, <3>3 DEF ExecutingTasks
    <2>2. \A x \in Objs : x # o => ExecutingTasks'[x] = ExecutingTasks[x]
      BY <1>1, <1>3 DEF ExecutingTasks
    <2> QED
      BY <1>1, <2>1, <2>2 DEF ExecutingTasks
  <1> QED
    BY <1>1, <1>5 DEF Abstract!Complete, ExecutingTasks

(* All other steps change nothing that the abstract specification sees.    *)
LEMMA QuietRefines ==
    ASSUME TypeOK, NEW w \in Workers,
           Sleep(w) \/ Exit(w) \/ Wake(w) \/ Skip(w) \/ Begin(w) \/ Finish(w)
    PROVE  UNCHANGED <<task_queue, ExecutingTasks, parallel>>
  <1>1. CASE Sleep(w) \/ Exit(w) \/ Wake(w) \/ Skip(w) \/ Begin(w)
    <2>1. UNCHANGED <<task_queue, inst, task, parallel>>
      BY <1>1 DEF Sleep, Exit, Wake, Skip, Begin
    <2>2. \A v \in Workers : pc'[v] \in {"Taken", "Running"} <=> pc[v] \in {"Taken", "Running"}
      BY <1>1 DEF Sleep, Exit, Wake, Skip, Begin, TypeOK
    <2>3. ASSUME NEW o \in Objs
          PROVE  ExecutingTasks'[o] = ExecutingTasks[o]
      BY <2>1, <2>2, SameExecuting
    <2> QED
      BY <2>1, <2>3 DEF ExecutingTasks
  <1>2. CASE Finish(w)
    <2>1. PICK p \in SignalCv(pc) \cup {pc} : pc' = [p EXCEPT ![w] = "Lock"]
      BY <1>2 DEF Finish
    <2>2. p \in [Workers -> Locations] /\ OnlyLock(pc, p)
      BY <2>1, SignalWakes DEF TypeOK, OnlyLock
    <2>3. /\ pc[w] = "Finishing" /\ UNCHANGED <<task_queue, parallel>>
          /\ inst' = [inst EXCEPT ![w] = None] /\ task' = [task EXCEPT ![w] = None]
      BY <1>2 DEF Finish
    <2>4. \A v \in Workers : pc'[v] \in {"Taken", "Running"} <=> pc[v] \in {"Taken", "Running"}
      BY <2>1, <2>2, <2>3 DEF OnlyLock
    <2>5. \A v \in Workers : v # w => inst'[v] = inst[v] /\ task'[v] = task[v]
      BY <2>3 DEF TypeOK
    <2>6. ASSUME NEW o \in Objs
          PROVE  ExecutingTasks'[o] = ExecutingTasks[o]
      BY <2>3, <2>4, <2>5, SameExecuting
    <2> QED
      BY <2>3, <2>6 DEF ExecutingTasks
  <1> QED
    BY <1>1, <1>2

LEMMA StopRefines ==
    ASSUME TypeOK, Stop
    PROVE  UNCHANGED <<task_queue, ExecutingTasks, parallel>>
  <1>1. OnlyLock(pc, pc') /\ UNCHANGED <<task_queue, inst, task, parallel>>
    BY DEF Stop, BroadcastCv, OnlyLock, TypeOK
  <1> QED
    BY <1>1, ExecutingKept

(* FJSerialDispatch's queues, executions and mixed objects are what the    *)
(* pool's task queues, workers and parallel posts implement: tasks of an   *)
(* object start in the order of their posts, and one at a time as long as  *)
(* no parallel post is about (fjdispatchlite.h:152, 212-228, 476-541).     *)
THEOREM PoolImplementsSerialDispatch == Spec => ImplementsSerialDispatch
  <1> USE PoolAssumption
  <1>1. Init => Abstract!Init
    BY DEF Init, Abstract!Init, Executing, Holders, Holding
  <1>2. TypeOK /\ TokenInv /\ DistinctInv /\ [Next]_vars => [Abstract!Next]_(Abstract!vars)
    <2> SUFFICES ASSUME TypeOK, TokenInv, DistinctInv, [Next]_vars
                 PROVE  Abstract!Next \/ UNCHANGED <<task_queue, ExecutingTasks, parallel>>
      BY DEF Abstract!vars, ExecutingTasks
    <2>1. ASSUME NEW o \in Objs, NEW t \in Tasks, Submit(o, t)
          PROVE  Abstract!Next
      <3>1. PICK isseq \in BOOLEAN : isseq <=> t \in SeqTasks
        OBVIOUS
      <3>2. Post(o, t, isseq)
        BY <2>1, <3>1 DEF Submit, Post, Activates
      <3>3. Abstract!Post(o, t, isseq)
        BY <3>2, PostRefines
      <3> QED
        BY <3>3 DEF Abstract!Next
    <2>2. ASSUME NEW w \in Workers, Take(w)
          PROVE  Abstract!Next
      BY <2>2, TakeRefines DEF Abstract!Next
    <2>3. ASSUME NEW w \in Workers, Return(w)
          PROVE  Abstract!Next
      BY <2>3, ReturnRefines DEF Abstract!Next, DistinctInv
    <2>4. CASE UNCHANGED vars
      BY <2>4 DEF vars, ExecutingTasks, Executing, Holders
    <2> QED
      BY <2>1, <2>2, <2>3, <2>4, QuietRefines, StopRefines DEF Next, WorkerStep
  <1> QED
    BY <1>1, <1>2, SchedulingInvariant, DistinctInvariant, PTL
    DEF Spec, ImplementsSerialDispatch, Abstract!Spec
=============================================================================
