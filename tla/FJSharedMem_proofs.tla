------------------------- MODULE FJSharedMem_proofs -------------------------
(***************************************************************************)
(* Proofs about FJSharedMem for any objects, processes, messages and       *)
(* capacities: its type correctness, the reference counts in the worker    *)
(* table, what notify finds, the owners of payload slots, and that the     *)
(* messages implement FJMailbox.                                           *)
(***************************************************************************)
EXTENDS FJSharedMem, DataLemmas

Table == INSTANCE FJFixMap_proofs WITH
    Keys <- Procs, Values <- {}, Capacity <- ProMax,
    entries <- protbl, count <- proptr, ptr <- None, aborted <- FALSE

-----------------------------------------------------------------------------
(* The worker table as the map that it stands for.                         *)

Worker == [refcount : Nat, running : BOOLEAN, worker_done : BOOLEAN]
Tables == Table!Arrays(Procs \cup {0}, Worker)
Known(tbl, n) == Table!KeysOf(tbl, n)
WorkerMap(tbl, n) == Table!MapIn(tbl, n)

TableOK(tbl, n) ==
    /\ tbl \in Tables /\ n \in 0 .. ProMax
    /\ Table!Sorted(tbl, n) /\ Known(tbl, n) \subseteq Procs

LEMMA ProcsFinite ==
    /\ Procs \subseteq Nat \ {0} /\ ProMax \in Nat \ {0}
    /\ IsFiniteSet(Procs) /\ Cardinality(Procs) \in Nat /\ Cardinality(Procs) <= ProMax
    /\ \A o \in Objs : Proc[o] \in Procs
  <1>1. Procs = {Proc[o] : o \in Objs} /\ \A o \in Objs : Proc[o] \in Nat \ {0}
    BY SharedAssumption DEF Procs, Range
  <1>2. IsFiniteSet(Procs)
    <2>1. Proc \in Surjection(Objs, Procs)
      BY <1>1, SharedAssumption DEF Surjection
    <2> QED BY <2>1, SharedAssumption, FS_Surjection
  <1> QED BY <1>1, <1>2, FS_CardinalityType, SharedAssumption

LEMMA TableAssumption == Procs \subseteq Nat /\ ProMax \in Nat \ {0}
  BY ProcsFinite

LEMMA TableOperators ==
    /\ \A k : /\ Map!FindIndex(k) = Table!SearchIn(protbl, proptr, k)
              /\ Map!InsertPos(k) = Table!InsertPosIn(protbl, proptr, k)
              /\ Map!Inserted(k) = Table!InsertedIn(protbl, proptr, k)
    /\ \A i : Map!ShiftDown(i) = Table!RemovedIn(protbl, proptr, i)
  <1>1. \A k : Map!FindIndex(k) = Table!SearchIn(protbl, proptr, k)
    BY DEF Map!FindIndex, Table!SearchIn
  <1>2. \A k : Map!InsertPos(k) = Table!InsertPosIn(protbl, proptr, k)
    BY DEF Map!InsertPos, Table!InsertPosIn, Map!Min, Table!Min
  <1>3. \A k : Map!Inserted(k) = Table!InsertedIn(protbl, proptr, k)
    BY <1>2 DEF Map!Inserted, Table!InsertedIn, Map!Slots, Table!Slots
  <1>4. \A i : Map!ShiftDown(i) = Table!RemovedIn(protbl, proptr, i)
    BY DEF Map!ShiftDown, Table!RemovedIn, Map!Slots, Table!Slots
  <1> QED BY <1>1, <1>2, <1>3, <1>4

(* A process's index, and its entry as a value of the map.                 *)
LEMMA IndexOf ==
    ASSUME NEW tbl, NEW n, TableOK(tbl, n), NEW k \in Procs
    PROVE  LET i == Table!SearchIn(tbl, n, k) IN
           /\ i \in -1 .. n - 1
           /\ k \in Known(tbl, n) <=> i >= 0
           /\ i >= 0 => /\ i \in 0 .. ProMax - 1 /\ tbl[i].key = k
                        /\ WorkerMap(tbl, n)[k] = tbl[i].value
  <1> DEFINE i == Table!SearchIn(tbl, n, k)
  <1>0. k \in Nat /\ n \in Nat /\ ProMax \in Nat /\ n <= ProMax /\ Table!Sorted(tbl, n)
    BY ProcsFinite DEF TableOK
  <1>1. \A j \in 0 .. ProMax - 1 : tbl[j].key \in Procs \cup {0}
    BY DEF TableOK, Tables, Table!Arrays, Table!Slots
  <1>2. \A j \in 0 .. n - 1 : tbl[j].key \in Nat
    <2>1. \A j \in 0 .. n - 1 : j \in 0 .. ProMax - 1
      BY <1>0
    <2>2. \A x \in Procs \cup {0} : x \in Nat
      BY ProcsFinite
    <2> QED BY <1>1, <2>1, <2>2
  <1>3. /\ i \in -1 .. n - 1
        /\ \A j \in 0 .. n - 1 : tbl[j].key = k <=> i = j
        /\ k \in Known(tbl, n) <=> i # -1
    <2>1. \A j \in 0 .. n - 1 : tbl[j].key = k <=> i = j
      BY <1>0, <1>2, TableAssumption, Table!SearchSorted
    <2>2. i \in -1 .. n - 1 /\ (k \in Known(tbl, n) <=> i # -1)
      BY <1>0, <1>2, TableAssumption, Table!SearchSorted DEF Known
    <2> QED BY <2>1, <2>2
  <1> HIDE DEF i
  <1>4. ASSUME i >= 0 PROVE WorkerMap(tbl, n)[tbl[i].key] = tbl[i].value
    <2>1. /\ Procs \cup {0} \in SUBSET Nat /\ tbl \in Table!Arrays(Procs \cup {0}, Worker)
          /\ n \in 0 .. ProMax /\ i \in 0 .. n - 1 /\ Table!Sorted(tbl, n)
      BY <1>0, <1>3, <1>4, ProcsFinite DEF TableOK, Tables
    <2> DEFINE K == Procs \cup {0}
    <2>3. K \in SUBSET Nat /\ tbl \in Table!Arrays(K, Worker)
      BY <2>1
    <2> HIDE DEF K
    <2>2. tbl[i].key \in Table!KeysOf(tbl, n) /\ Table!MapIn(tbl, n)[tbl[i].key] = tbl[i].value
      BY <2>1, <2>3, TableAssumption, Table!ValueAt
    <2> QED BY <2>2 DEF WorkerMap
  <1>5. i >= 0 => i \in 0 .. ProMax - 1 /\ tbl[i].key = k
    BY <1>0, <1>3
  <1>6. i >= 0 => WorkerMap(tbl, n)[k] = tbl[i].value
    BY <1>4, <1>5
  <1>7. k \in Known(tbl, n) <=> i >= 0
    BY <1>0, <1>3
  <1> QED BY <1>3, <1>5, <1>6, <1>7 DEF i

(* A value stored at an index changes the map at the key there, or nothing *)
(* when the index is beyond the entries in use.                            *)
LEMMA Storing ==
    ASSUME NEW tbl, NEW n, TableOK(tbl, n), NEW i \in 0 .. ProMax - 1, NEW v \in Worker
    PROVE  LET f == Table!StoredIn(tbl, i, v) IN
           /\ TableOK(f, n) /\ Known(f, n) = Known(tbl, n)
           /\ i < n => WorkerMap(f, n) = Table!Put(WorkerMap(tbl, n), tbl[i].key, v)
           /\ i >= n => WorkerMap(f, n) = WorkerMap(tbl, n)
  <1> DEFINE K == Procs \cup {0}
             f == Table!StoredIn(tbl, i, v)
  <1>1. K \in SUBSET Nat /\ tbl \in Table!Arrays(K, Worker) /\ Tables = Table!Arrays(K, Worker)
        /\ n \in 0 .. ProMax /\ Table!Sorted(tbl, n) /\ i \in Table!Slots
        /\ Known(tbl, n) \subseteq Procs
    BY ProcsFinite DEF TableOK, Tables, Table!Slots
  <1> HIDE DEF K
  <1>a. f \in Table!Arrays(K, Worker) /\ Table!IsStore(tbl, n, i, v, f)
    BY <1>1, TableAssumption, Table!StoredKeeps
  <1> HIDE DEF f
  <1>2. /\ Table!Sorted(f, n) /\ Table!KeysOf(f, n) = Table!KeysOf(tbl, n)
        /\ i < n => Table!MapIn(f, n) = Table!Put(Table!MapIn(tbl, n), tbl[i].key, v)
        /\ i >= n => Table!MapIn(f, n) = Table!MapIn(tbl, n)
    BY <1>a DEF Table!IsStore
  <1>3. TableOK(f, n)
    BY <1>1, <1>a, <1>2 DEF TableOK, Known
  <1>4. /\ i < n => WorkerMap(f, n) = Table!Put(WorkerMap(tbl, n), tbl[i].key, v)
        /\ i >= n => WorkerMap(f, n) = WorkerMap(tbl, n)
    BY <1>2 DEF WorkerMap
  <1> QED BY <1>2, <1>3, <1>4 DEF f, Known

(* A process without an entry gets one, whose value is stored at once.     *)
LEMMA Inserting ==
    ASSUME NEW tbl, NEW n, TableOK(tbl, n), n < ProMax,
           NEW k \in Procs, k \notin Known(tbl, n), NEW v \in Worker
    PROVE  LET i == Table!InsertPosIn(tbl, n, k)
               f == Table!StoredIn(Table!InsertedIn(tbl, n, k), i, v) IN
           /\ i \in 0 .. n /\ Table!InsertedIn(tbl, n, k) \in Tables
           /\ TableOK(f, n + 1)
           /\ WorkerMap(f, n + 1) = Table!Put(WorkerMap(tbl, n), k, v)
  <1> DEFINE K == Procs \cup {0}
             i == Table!InsertPosIn(tbl, n, k)
             g == Table!InsertedIn(tbl, n, k)
             f == Table!StoredIn(g, i, v)
             m == WorkerMap(tbl, n)
  <1>1. K \in SUBSET Nat /\ tbl \in Table!Arrays(K, Worker) /\ Tables = Table!Arrays(K, Worker)
        /\ n \in 0 .. ProMax - 1 /\ Table!Sorted(tbl, n) /\ Known(tbl, n) \subseteq Procs
        /\ k \in K /\ k \notin Table!KeysOf(tbl, n) /\ ProMax \in Nat \ {0}
    BY ProcsFinite DEF TableOK, Tables, Known
  <1> HIDE DEF K
  <1>2. g \in Table!Arrays(K, Worker) /\ Table!IsInsertion(tbl, n, k, i, g)
    BY <1>1, TableAssumption, Table!InsertedKeeps
  <1> HIDE DEF g, i
  <1>3. /\ i \in 0 .. n /\ g[i].key = k /\ Table!Sorted(g, n + 1)
        /\ Table!KeysOf(g, n + 1) = Table!KeysOf(tbl, n) \cup {k}
    BY <1>2 DEF Table!IsInsertion
  <1>4. TableOK(g, n + 1)
    BY <1>1, <1>2, <1>3 DEF TableOK, Known
  <1>5. Table!MapIn(g, n + 1) = Table!Put(Table!MapIn(tbl, n), k, tbl[i].value)
    BY <1>1, <1>2, TableAssumption, Table!InsertionInMap
  <1>6. i \in 0 .. ProMax - 1 /\ i < n + 1
    BY <1>1, <1>3
  <1>7. TableOK(f, n + 1) /\ WorkerMap(f, n + 1) = Table!Put(WorkerMap(g, n + 1), k, v)
    BY <1>3, <1>4, <1>6, Storing
  <1>8. WorkerMap(g, n + 1) = Table!Put(m, k, tbl[i].value)
    BY <1>5 DEF WorkerMap
  <1> HIDE DEF m, f
  <1>9. WorkerMap(f, n + 1) = Table!Put(m, k, v)
    BY <1>7, <1>8 DEF Table!Put
  <1> QED BY <1>1, <1>2, <1>3, <1>7, <1>9 DEF f, g, i, m

LEMMA Removing ==
    ASSUME NEW tbl, NEW n, TableOK(tbl, n), NEW i \in 0 .. n - 1
    PROVE  LET f == Table!RemovedIn(tbl, n, i) IN
           /\ TableOK(f, n - 1)
           /\ WorkerMap(f, n - 1) = Table!Without(WorkerMap(tbl, n), tbl[i].key)
  <1> DEFINE K == Procs \cup {0}
             f == Table!RemovedIn(tbl, n, i)
  <1>1. K \in SUBSET Nat /\ tbl \in Table!Arrays(K, Worker) /\ Tables = Table!Arrays(K, Worker)
        /\ n \in 1 .. ProMax /\ Table!Sorted(tbl, n) /\ Known(tbl, n) \subseteq Procs
        /\ ProMax \in Nat \ {0}
    BY ProcsFinite DEF TableOK, Tables
  <1> HIDE DEF K
  <1>2. f \in Table!Arrays(K, Worker) /\ Table!IsRemoval(tbl, n, i, f)
    BY <1>1, TableAssumption, Table!RemovedKeeps
  <1> HIDE DEF f
  <1>3. Table!Sorted(f, n - 1) /\ Table!KeysOf(f, n - 1) = Table!KeysOf(tbl, n) \ {tbl[i].key}
    BY <1>2 DEF Table!IsRemoval
  <1>4. TableOK(f, n - 1)
    BY <1>1, <1>2, <1>3 DEF TableOK, Known
  <1>5. Table!MapIn(f, n - 1) = Table!Without(Table!MapIn(tbl, n), tbl[i].key)
    BY <1>1, <1>2, TableAssumption, Table!RemovalInMap
  <1> QED BY <1>4, <1>5 DEF f, WorkerMap

(* There is room in the table for a process that has no entry.             *)
LEMMA RoomInTable ==
    ASSUME NEW tbl, NEW n, TableOK(tbl, n), NEW k \in Procs, k \notin Known(tbl, n)
    PROVE  n < ProMax
  <1> DEFINE K == Procs \cup {0}
  <1>1. K \in SUBSET Nat /\ tbl \in Table!Arrays(K, Worker)
        /\ n \in 0 .. ProMax /\ Table!Sorted(tbl, n) /\ ProMax \in Nat
        /\ Known(tbl, n) \cup {k} \subseteq Procs /\ IsFiniteSet(Known(tbl, n))
    BY ProcsFinite, FS_Subset DEF TableOK, Tables
  <1> HIDE DEF K
  <1>2. Table!Cardinality(Table!KeysOf(tbl, n)) = n
    BY <1>1, TableAssumption, Table!KeysCounted
  <1>3. \A S : Table!Cardinality(S) = Cardinality(S)
    BY DEF Table!Cardinality, Cardinality, Table!IsFiniteSet, IsFiniteSet
  <1>4. Cardinality(Known(tbl, n) \cup {k}) = n + 1
    BY <1>1, <1>2, <1>3, FS_AddElement DEF Known
  <1>5. Cardinality(Known(tbl, n) \cup {k}) <= Cardinality(Procs)
    BY <1>1, ProcsFinite, FS_Subset
  <1> QED BY <1>1, <1>4, <1>5, ProcsFinite

-----------------------------------------------------------------------------
(* The queue and the listeners as sequences.                               *)

(* q is the mails of queue_ at the indices I, in the order o.              *)
ArrangedBy(q, I, o) ==
    /\ q \in Seq(Mail) /\ Len(q) = Cardinality(I) /\ Len(q) <= Len(queue)
    /\ \A i \in 1 .. Len(q) : o[i] \in I /\ q[i] = queue[o[i]]
    /\ \A i, j \in 1 .. Len(q) : o[i] = o[j] => i = j

LEMMA ArrangedMails ==
    ASSUME queue \in Seq(Mail), NEW I \in SUBSET DOMAIN queue,
           NEW orders \in SUBSET SetToSeqs(I), NEW q \in Arranged(orders)
    PROVE  \E o \in SetToSeqs(I) : ArrangedBy(q, I, o)
  <1>1. PICK o \in SetToSeqs(I) : q = [i \in DOMAIN o |-> queue[o[i]]]
    BY DEF Arranged
  <1>2. /\ Len(queue) \in Nat /\ DOMAIN queue = 1 .. Len(queue)
        /\ \A i \in 1 .. Len(queue) : queue[i] \in Mail
    OBVIOUS
  <1>3. IsFiniteSet(1 .. Len(queue)) /\ Cardinality(1 .. Len(queue)) = Len(queue)
    BY <1>2, FS_Interval
  <1>4. IsFiniteSet(I) /\ Cardinality(I) <= Len(queue)
    BY <1>2, <1>3, FS_Subset
  <1>5. /\ Cardinality(I) \in Nat /\ o \in [1 .. Cardinality(I) -> I]
        /\ \A i, j \in 1 .. Cardinality(I) : o[i] = o[j] => i = j
    BY <1>4, OrderIsBijection
  <1>6. q \in [1 .. Cardinality(I) -> Mail]
        /\ \A i \in 1 .. Cardinality(I) : q[i] = queue[o[i]] /\ o[i] \in I
    BY <1>1, <1>2, <1>5
  <1>7. q \in Seq(Mail) /\ Len(q) = Cardinality(I)
    BY <1>5, <1>6
  <1>8. Len(q) <= Len(queue) /\ \A i \in 1 .. Len(q) : o[i] \in I /\ q[i] = queue[o[i]]
    BY <1>4, <1>6, <1>7
  <1>9. \A i, j \in 1 .. Len(q) : o[i] = o[j] => i = j
    BY <1>5, <1>7
  <1> QED BY <1>7, <1>8, <1>9 DEF ArrangedBy

LEMMA SortedIsAnOrder ==
    ASSUME NEW I
    PROVE  /\ SortedByMsg(I) \in SUBSET SetToSeqs(I)
           /\ InQueueOrder(I) \in SUBSET SetToSeqs(I)
  BY DEF SortedByMsg, InQueueOrder

(* The queue after mails for the listeners at the chosen places have been  *)
(* pushed in some order.                                                   *)
Pushed(chosen, slot, order) ==
    /\ queue' \in Seq(Mail) /\ Cardinality(chosen) \in Nat
    /\ Len(queue') = Len(queue) + Cardinality(chosen)
    /\ \A i \in 1 .. Len(queue) : queue'[i] = queue[i]
    /\ \A i \in Len(queue) + 1 .. Len(queue') :
           LET l == order[i - Len(queue)] IN
           l \in chosen /\ queue'[i] = [msg |-> listen[l].msg, obj |-> listen[l].obj,
                                        slot |-> slot[l]]
    /\ \A i, j \in 1 .. Cardinality(chosen) : order[i] = order[j] => i = j

LEMMA SendPushes ==
    ASSUME queue \in Seq(Mail), listen \in Seq([msg : Msgs, obj : Objs]),
           NEW chosen \in SUBSET DOMAIN listen, NEW slot,
           \A i \in chosen : slot[i] \in PayloadSlots \cup {None},
           Send(chosen, slot)
    PROVE  \E order \in SetToSeqs(chosen) : Pushed(chosen, slot, order)
  <1> DEFINE mail(i) == [msg |-> listen[i].msg, obj |-> listen[i].obj, slot |-> slot[i]]
             n == Cardinality(chosen)
  <1>1. PICK order \in SetToSeqs(chosen) :
            queue' = queue \o [i \in DOMAIN order |-> mail(order[i])]
    BY DEF Send
  <1>2. IsFiniteSet(DOMAIN listen)
    <2>1. Len(listen) \in Nat /\ DOMAIN listen = 1 .. Len(listen)
      OBVIOUS
    <2> QED BY <2>1, FS_Interval
  <1>3. IsFiniteSet(chosen)
    BY <1>2, FS_Subset
  <1>4. /\ n \in Nat /\ order \in [1 .. n -> chosen]
        /\ \A i, j \in 1 .. n : order[i] = order[j] => i = j
    BY <1>3, OrderIsBijection
  <1> DEFINE t == [i \in DOMAIN order |-> mail(order[i])]
  <1>5. \A i \in chosen : mail(i) \in Mail
    <2> SUFFICES ASSUME NEW i \in chosen PROVE mail(i) \in Mail
      OBVIOUS
    <2>1. i \in 1 .. Len(listen)
      OBVIOUS
    <2>2. listen[i] \in [msg : Msgs, obj : Objs]
      BY <2>1, ElementOfSeq
    <2> QED BY <2>2 DEF Mail
  <1> HIDE DEF mail, n
  <1>6. /\ t \in [1 .. n -> Mail] /\ \A i \in 1 .. n : order[i] \in chosen /\ t[i] = mail(order[i])
    BY <1>4, <1>5
  <1> HIDE DEF t
  <1>7. t \in Seq(Mail) /\ Len(t) = n
    BY <1>4, <1>6
  <1>8. /\ queue' \in Seq(Mail) /\ Len(queue') = Len(queue) + n /\ Len(queue) \in Nat
        /\ \A i \in 1 .. Len(queue) + n :
               queue'[i] = IF i <= Len(queue) THEN queue[i] ELSE t[i - Len(queue)]
    <2>1. queue' = queue \o t
      BY <1>1 DEF t
    <2> QED BY <1>7, <2>1, ConcatProperties, LenProperties
  <1>9. \A i \in 1 .. Len(queue) : queue'[i] = queue[i]
    BY <1>4, <1>8
  <1>10. ASSUME NEW i \in Len(queue) + 1 .. Len(queue')
         PROVE  order[i - Len(queue)] \in chosen /\ queue'[i] = mail(order[i - Len(queue)])
    <2>1. i - Len(queue) \in 1 .. n /\ i \in 1 .. Len(queue) + n /\ ~(i <= Len(queue))
      BY <1>4, <1>8
    <2> QED BY <1>6, <1>8, <2>1
  <1> QED BY <1>4, <1>8, <1>9, <1>10 DEF Pushed, mail, n

(* t has the listeners L in the order of std::sort.                        *)
ListenedBy(t, L) ==
    /\ t \in Seq(L) /\ Len(t) = Cardinality(L) /\ Range(t) = L
    /\ \A i, j \in 1 .. Len(t) : i < j => Less(t[i], t[j])
    /\ \A i, j \in 1 .. Len(t) : t[i] = t[j] => i = j

LEMMA SortedListeners ==
    ASSUME NEW L, IsFiniteSet(L), NEW t \in SortedListen(L)
    PROVE  ListenedBy(t, L)
  <1>1. t \in SetToSeqs(L) /\ \A i, j \in DOMAIN t : i < j => Less(t[i], t[j])
    BY DEF SortedListen
  <1> DEFINE n == Cardinality(L)
  <1>2. /\ n \in Nat /\ t \in [1 .. n -> L]
        /\ \A i, j \in 1 .. n : t[i] = t[j] => i = j
        /\ \A x \in L : \E i \in 1 .. n : t[i] = x
    BY <1>1, OrderIsBijection
  <1>3. t \in Seq(L) /\ Len(t) = n
    BY <1>2
  <1>4. Range(t) = L
    BY <1>2 DEF Range
  <1> HIDE DEF n
  <1> QED BY <1>1, <1>2, <1>3, <1>4 DEF ListenedBy, n

Listener == [msg : Msgs, obj : Objs]

LEMMA ListenersCounted ==
    ASSUME listen \in Seq(Listener)
    PROVE  /\ Range(listen) \subseteq Listener /\ IsFiniteSet(Range(listen))
           /\ Cardinality(Range(listen)) \in Nat /\ Cardinality(Range(listen)) <= Len(listen)
  <1>1. Len(listen) \in Nat /\ listen \in [1 .. Len(listen) -> Listener]
    BY LenProperties
  <1>2. listen \in Surjection(1 .. Len(listen), Range(listen)) /\ Range(listen) \subseteq Listener
    BY <1>1 DEF Surjection, Range
  <1>3. IsFiniteSet(1 .. Len(listen)) /\ Cardinality(1 .. Len(listen)) = Len(listen)
    BY <1>1, FS_Interval
  <1>4. IsFiniteSet(Range(listen)) /\ Cardinality(Range(listen)) <= Len(listen)
    BY <1>2, <1>3, FS_Surjection
  <1> QED BY <1>2, <1>4, FS_CardinalityType

(* Whatever is registered, listen_ has room for it.                        *)
LEMMA RegisteredFits ==
    ASSUME listen \in Seq(Listener), Len(listen) <= ListenMax,
           NEW o \in Objs, NEW msgs \in SUBSET Msgs, NEW new \in Registered(o, msgs)
    PROVE  LET L == Range(listen) \cup new IN
           /\ new \subseteq [msg : msgs, obj : {o}]
           /\ L \in SUBSET Listener /\ IsFiniteSet(L)
           /\ Cardinality(L) \in Nat /\ Cardinality(L) <= ListenMax
  <1> DEFINE all == Unregistered(o, msgs)
             room == ListenMax - Len(listen)
  <1>1. Len(listen) \in Nat /\ ListenMax \in Nat /\ room \in Nat
    BY LenProperties, SharedAssumption
  <1>2. all \subseteq [msg : msgs, obj : {o}] /\ new \subseteq all
    BY DEF Registered, Unregistered
  <1>3. IsFiniteSet(msgs)
    BY SharedAssumption, FS_Subset
  <1>4. IsFiniteSet([msg : msgs, obj : {o}])
    <2> DEFINE f == [m \in msgs |-> [msg |-> m, obj |-> o]]
    <2>1. f \in Surjection(msgs, [msg : msgs, obj : {o}])
      BY DEF Surjection
    <2> QED BY <1>3, <2>1, FS_Surjection
  <1>5. IsFiniteSet(all) /\ IsFiniteSet(new)
    <2>1. IsFiniteSet(all)
      BY <1>2, <1>4, FS_Subset
    <2> QED BY <1>2, <2>1, FS_Subset
  <1>6. Cardinality(new) \in Nat /\ Cardinality(all) \in Nat
    BY <1>5, FS_CardinalityType
  <1>7. Cardinality(new) <= room
    <2>1. Cardinality(new) = Min({Cardinality(all), room})
      BY DEF Registered
    <2>2. {Cardinality(all), room} \in SUBSET Nat /\ {Cardinality(all), room} # {}
      BY <1>1, <1>6
    <2> HIDE DEF room, all
    <2>3. Min({Cardinality(all), room}) <= room
      BY <2>2, MinIsLeast
    <2> QED BY <2>1, <2>3
  <1> DEFINE L == Range(listen) \cup new
  <1>8. /\ IsFiniteSet(L) /\ Cardinality(L) \in Nat
        /\ Cardinality(L) <= Cardinality(Range(listen)) + Cardinality(new)
    <2>1. /\ IsFiniteSet(L) /\ IsFiniteSet(Range(listen) \cap new)
          /\ Cardinality(L) = Cardinality(Range(listen)) + Cardinality(new)
                                  - Cardinality(Range(listen) \cap new)
      BY <1>5, ListenersCounted, FS_Union, FS_Subset
    <2>2. Cardinality(Range(listen) \cap new) \in Nat /\ Cardinality(L) \in Nat
      BY <2>1, FS_CardinalityType
    <2> QED BY <1>6, <2>1, <2>2, ListenersCounted
  <1>9. L \in SUBSET Listener
    BY <1>2, ListenersCounted DEF Listener
  <1> QED BY <1>1, <1>2, <1>6, <1>7, <1>8, <1>9, ListenersCounted

-----------------------------------------------------------------------------
(* The inductive invariant.                                                *)

UpOf(k) == {o \in Objs : Proc[o] = k /\ needworker[o] /\ status[o] = "Up"}
JoiningOf(k) == {o \in Objs : Proc[o] = k /\ status[o] = "Joining"}
Workers == WorkerMap(protbl, proptr)

TableInv == TableOK(protbl, proptr)

(* A living process has an entry exactly while it has objects that listen, *)
(* or one that joins the worker, and its entry counts those that listen.   *)
CountInv ==
    \A k \in Procs : ~Crashed(k) =>
        /\ k \in DOMAIN Workers <=> UpOf(k) \cup JoiningOf(k) # {}
        /\ k \in DOMAIN Workers => Workers[k].refcount = Cardinality(UpOf(k))

(* Who joins keeps the region's mutex, and is its process's last object.   *)
JoinInv == \A o \in Objs : status[o] = "Joining" => holder = o /\ UpOf(Proc[o]) = {}

CrashInv == \A o \in Objs : Crashed(Proc[o]) => status[o] = "Dead"

(* A worker has mails exactly while it delivers them.                      *)
WorkerInv ==
    \A k \in Procs :
        /\ locals[k] # <<>> <=> wpc[k] \in {"Deliver", "Update", "UpdateWithData"}
        /\ wpc[k] = "UpdateWithData" => Head(locals[k]).slot # None

ListenInv ==
    /\ \A i, j \in 1 .. Len(listen) : i < j => Less(listen[i], listen[j])
    /\ \A i, j \in 1 .. Len(listen) : listen[i] = listen[j] => i = j

IInv == TypeOK /\ TableInv /\ CountInv /\ JoinInv /\ CrashInv /\ WorkerInv /\ ListenInv

Pcs == {"Start", "Check", "Wait", "Waiting", "Adrift", "Woken", "Drain",
        "Deliver", "Update", "UpdateWithData", "Finish", "Exited", "Crashed"}

(* Of the workers only some that sleep have been moved.                    *)
OnlySleepers(new) ==
    /\ new \in [Procs -> Pcs]
    /\ \A k \in Procs :
           \/ new[k] = wpc[k]
           \/ wpc[k] \in {"Waiting", "Adrift"} /\ new[k] \in {"Adrift", "Woken"}

LEMMA DriftMovesSleepers == ASSUME TypeOK, NEW indices PROVE OnlySleepers(Drift(indices))
  BY DEF TypeOK, Drift, OnlySleepers, Pcs

LEMMA BroadcastMovesSleepers ==
    ASSUME TypeOK, NEW indices, BroadcastTo(indices) PROVE OnlySleepers(wpc')
  <1>1. PICK reached \in SUBSET {k \in Procs : wpc[k] = "Adrift"} :
            wpc' = [k \in Procs |-> IF p[k] \in indices /\ (wpc[k] = "Waiting" \/ k \in reached)
                                    THEN "Woken" ELSE wpc[k]]
    BY DEF BroadcastTo
  <1> QED BY <1>1 DEF TypeOK, OnlySleepers, Pcs

LEMMA TableTypes ==
    /\ [0 .. ProMax - 1 -> Entry] = Tables
    /\ TypeOK => proptr \in Nat /\ proptr <= ProMax
    /\ TypeOK => \A i \in 0 .. ProMax - 1 : protbl[i].value \in Worker
    /\ DOMAIN Workers = Known(protbl, proptr)
  <1>1. [0 .. ProMax - 1 -> Entry] = Tables
    BY DEF Tables, Table!Arrays, Table!Slots, Entry, Worker
  <1>2. DOMAIN Workers = Known(protbl, proptr)
    BY DEF Workers, WorkerMap, Known, Table!MapIn
  <1>3. TypeOK => proptr \in Nat /\ proptr <= ProMax
    BY ProcsFinite DEF TypeOK
  <1>4. TypeOK => \A i \in 0 .. ProMax - 1 : protbl[i].value \in Worker
    BY DEF TypeOK, Entry, Worker
  <1> QED BY <1>1, <1>2, <1>3, <1>4

(* Where FindIndex finds the entry of a process.                           *)
LEMMA EntryOf ==
    ASSUME TypeOK, TableInv, NEW k \in Procs
    PROVE  LET i == Map!FindIndex(k) IN
           /\ i \in -1 .. proptr - 1
           /\ k \in DOMAIN Workers <=> i >= 0
           /\ i >= 0 => /\ i \in 0 .. ProMax - 1 /\ protbl[i].key = k
                        /\ Workers[k] = protbl[i].value
  <1> DEFINE i == Map!FindIndex(k)
  <1>1. /\ i \in -1 .. proptr - 1
        /\ k \in Known(protbl, proptr) <=> i >= 0
        /\ i >= 0 => /\ i \in 0 .. ProMax - 1 /\ protbl[i].key = k
                     /\ WorkerMap(protbl, proptr)[k] = protbl[i].value
    BY TableOperators, IndexOf DEF TableInv
  <1> HIDE DEF i
  <1> QED BY <1>1, TableTypes DEF i, Workers

-----------------------------------------------------------------------------
(* What the actions do to the worker table.                                *)

LEMMA AttachStep ==
    ASSUME TypeOK, TableInv, NEW o \in Objs, NEW k \in Procs, Attach(o, k)
    PROVE  /\ TableInv' /\ self' \in [Procs -> Objs \cup {None}] /\ wpc' \in [Procs -> Pcs]
           /\ \E v \in Worker :
                  /\ Workers' = Table!Put(Workers, k, v)
                  /\ v.refcount = IF k \in DOMAIN Workers THEN Workers[k].refcount + 1 ELSE 1
           /\ \/ UNCHANGED wpc
              \/ /\ wpc[k] = "Exited" /\ wpc'[k] = "Start"
                 /\ OnlySleepers([wpc' EXCEPT ![k] = "Exited"])
  <1> DEFINE found == Map!FindIndex(k)
             i == IF found < 0 THEN Map!InsertPos(k) ELSE found
             table == IF found < 0 THEN Map!Inserted(k) ELSE protbl
             refs == IF found < 0 THEN 1 ELSE protbl[found].value.refcount + 1
             v == IF refs = 1 THEN [refcount |-> 1, running |-> TRUE, worker_done |-> FALSE]
                  ELSE [table[i].value EXCEPT !.refcount = refs]
  <1>0. /\ found \in -1 .. proptr - 1
        /\ k \in DOMAIN Workers <=> found >= 0
        /\ found >= 0 => /\ found \in 0 .. ProMax - 1 /\ protbl[found].key = k
                         /\ Workers[k] = protbl[found].value
    BY EntryOf
  <1>00. /\ protbl \in Tables /\ proptr \in Nat /\ proptr <= ProMax /\ ProMax \in Nat
    BY TableTypes, ProcsFinite DEF TypeOK
  <1>1. /\ proptr' = IF found < 0 THEN proptr + 1 ELSE proptr
        /\ IF refs = 1
           THEN /\ wpc[k] = "Exited"
                /\ protbl' = [table EXCEPT ![i].value =
                       [refcount |-> 1, running |-> TRUE, worker_done |-> FALSE]]
                /\ wpc' = [Drift(i .. proptr) EXCEPT ![k] = "Start"]
                /\ self' = [self EXCEPT ![k] = o]
           ELSE /\ protbl' = [table EXCEPT ![i].value.refcount = refs]
                /\ UNCHANGED <<wpc, self>>
    BY DEF Attach
  <1> HIDE DEF found
  <1>2. refs \in Nat /\ refs = IF k \in DOMAIN Workers THEN Workers[k].refcount + 1 ELSE 1
    <2>1. found >= 0 => protbl[found].value \in Worker
      BY <1>0, TableTypes
    <2> QED BY <1>0, <2>1 DEF Worker
  <1>3. ASSUME found < 0
        PROVE  /\ table = Table!InsertedIn(protbl, proptr, k) /\ k \notin Known(protbl, proptr)
               /\ i = Table!InsertPosIn(protbl, proptr, k) /\ proptr < ProMax
    <2>1. k \notin Known(protbl, proptr)
      BY <1>0, <1>3, TableTypes
    <2>2. proptr < ProMax
      BY <2>1, RoomInTable DEF TableInv
    <2> QED BY <1>3, <2>1, <2>2, TableOperators
  <1>4. table \in Tables /\ i \in 0 .. ProMax - 1
    <2>1. CASE found < 0
      <3>1. [refcount |-> 1, running |-> TRUE, worker_done |-> FALSE] \in Worker
        BY DEF Worker
      <3>2. Table!InsertPosIn(protbl, proptr, k) \in 0 .. proptr
            /\ Table!InsertedIn(protbl, proptr, k) \in Tables
        BY <1>3, <2>1, <3>1, Inserting DEF TableInv
      <3> QED BY <1>00, <1>3, <2>1, <3>2
    <2>2. CASE found >= 0
      BY <1>0, <1>00, <2>2
    <2> QED BY <1>0, <2>1, <2>2
  <1> HIDE DEF table, i, refs
  <1>5. v \in Worker /\ v.refcount = refs
    <2>1. table[i].value \in Worker
      BY <1>4 DEF Tables, Table!Arrays, Table!Slots
    <2> QED BY <1>2, <2>1 DEF Worker
  <1>6. protbl' = Table!StoredIn(table, i, v)
    <2>1. CASE refs = 1
      BY <1>1, <2>1 DEF Table!StoredIn
    <2>2. CASE refs # 1
      <3>1. protbl' = [table EXCEPT ![i].value.refcount = refs]
        BY <1>1, <2>2
      <3>2. [table EXCEPT ![i].value.refcount = refs]
              = [table EXCEPT ![i].value = [table[i].value EXCEPT !.refcount = refs]]
        BY <1>4 DEF Tables, Table!Arrays, Table!Slots
      <3> QED BY <2>2, <3>1, <3>2 DEF Table!StoredIn
    <2> QED BY <2>1, <2>2
  <1> HIDE DEF v
  <1>7. TableOK(protbl', proptr')
        /\ WorkerMap(protbl', proptr') = Table!Put(WorkerMap(protbl, proptr), k, v)
    <2>1. CASE found < 0
      <3>1. proptr' = proptr + 1
        BY <1>1, <2>1
      <3> QED BY <1>3, <1>5, <1>6, <2>1, <3>1, Inserting DEF TableInv
    <2>2. CASE found >= 0
      <3>1. proptr' = proptr /\ table = protbl /\ i = found
        BY <1>0, <1>1, <2>2 DEF table, i
      <3>2. i < proptr /\ protbl[i].key = k
        BY <1>0, <1>00, <2>2, <3>1
      <3> QED BY <1>4, <1>5, <1>6, <3>1, <3>2, Storing DEF TableInv
    <2> QED BY <1>0, <2>1, <2>2
  <1>8. /\ wpc' \in [Procs -> Pcs]
        /\ \/ UNCHANGED wpc
           \/ /\ wpc[k] = "Exited" /\ wpc'[k] = "Start"
              /\ OnlySleepers([wpc' EXCEPT ![k] = "Exited"])
    <2>1. CASE refs = 1
      <3>1. OnlySleepers(Drift(i .. proptr))
        BY DriftMovesSleepers
      <3>2. wpc[k] = "Exited" /\ wpc' = [Drift(i .. proptr) EXCEPT ![k] = "Start"]
        BY <1>1, <2>1
      <3> QED BY <3>1, <3>2 DEF OnlySleepers, Pcs
    <2>2. CASE refs # 1
      BY <1>1, <2>2 DEF TypeOK, Pcs
    <2> QED BY <2>1, <2>2
  <1>9. self' \in [Procs -> Objs \cup {None}]
    BY <1>1 DEF TypeOK
  <1>10. TableInv' /\ Workers' = Table!Put(Workers, k, v)
    BY <1>7 DEF TableInv, Workers
  <1> QED BY <1>2, <1>5, <1>8, <1>9, <1>10

LEMMA ObjectsCounted ==
    ASSUME NEW k, NEW o
    PROVE  /\ Cardinality(UpOf(k)) \in Nat
           /\ Cardinality(UpOf(k) \cup {o})
                  = IF o \in UpOf(k) THEN Cardinality(UpOf(k)) ELSE Cardinality(UpOf(k)) + 1
           /\ Cardinality(UpOf(k) \ {o})
                  = IF o \in UpOf(k) THEN Cardinality(UpOf(k)) - 1 ELSE Cardinality(UpOf(k))
           /\ Cardinality(UpOf(k) \ {o}) = 0 <=> UpOf(k) \ {o} = {}
  <1>1. UpOf(k) \subseteq Objs /\ IsFiniteSet(UpOf(k))
    BY SharedAssumption, FS_Subset DEF UpOf
  <1>2. IsFiniteSet(UpOf(k) \ {o})
    BY <1>1, FS_RemoveElement
  <1> QED BY <1>1, <1>2, FS_CardinalityType, FS_AddElement, FS_RemoveElement, FS_EmptySet

(* The destructor's first section finds the object counted: it leaves the  *)
(* table, one reference less, or none and itself to join the worker.       *)
LEMMA DestroyStep ==
    ASSUME TypeOK, TableInv, CountInv, CrashInv, NEW o \in Objs, BeginDestroy(o)
    PROVE  /\ TableInv' /\ ~Crashed(Proc[o]) /\ OnlySleepers(wpc')
           /\ \/ /\ ~needworker[o] /\ Workers' = Workers
                 /\ status' = [status EXCEPT ![o] = "Leaving"] /\ holder' = holder
              \/ /\ o \in UpOf(Proc[o]) /\ UpOf(Proc[o]) # {o}
                 /\ status' = [status EXCEPT ![o] = "Leaving"] /\ holder' = holder
                 /\ \E v \in Worker : /\ Workers' = Table!Put(Workers, Proc[o], v)
                                      /\ v.refcount = Cardinality(UpOf(Proc[o])) - 1
              \/ /\ UpOf(Proc[o]) = {o}
                 /\ status' = [status EXCEPT ![o] = "Joining"] /\ holder' = o
                 /\ \E v \in Worker : /\ Workers' = Table!Put(Workers, Proc[o], v)
                                      /\ v.refcount = 0
  <1> DEFINE k == Proc[o]
             i == Map!FindIndex(k)
             refs == protbl[i].value.refcount - 1
             old == protbl[i].value
  <1>0. k \in Procs /\ status[o] = "Up" /\ ~Crashed(k) /\ proptr' = proptr
    BY ProcsFinite DEF BeginDestroy, CrashInv
  <1>1. IF ~needworker[o] \/ i < 0
        THEN /\ status' = [status EXCEPT ![o] = "Leaving"]
             /\ UNCHANGED <<holder, protbl, wpc>>
        ELSE IF refs > 0
        THEN /\ status' = [status EXCEPT ![o] = "Leaving"]
             /\ protbl' = [protbl EXCEPT ![i].value.refcount = refs]
             /\ UNCHANGED <<holder, wpc>>
        ELSE /\ status' = [status EXCEPT ![o] = "Joining"]
             /\ holder' = o
             /\ protbl' = [protbl EXCEPT ![i].value.refcount = 0, ![i].value.running = FALSE]
             /\ BroadcastTo({i})
    BY DEF BeginDestroy
  <1>2. /\ i \in -1 .. proptr - 1
        /\ k \in DOMAIN Workers <=> i >= 0
        /\ i >= 0 => i \in 0 .. ProMax - 1 /\ protbl[i].key = k /\ Workers[k] = old
    BY <1>0, EntryOf
  <1>3. protbl \in Tables /\ proptr \in Nat
    BY TableTypes DEF TypeOK
  <1> HIDE DEF i
  <1>4. CASE ~needworker[o]
    <2>1. UNCHANGED <<holder, protbl, wpc, proptr>> /\ status' = [status EXCEPT ![o] = "Leaving"]
      BY <1>0, <1>1, <1>4
    <2>2. TableInv' /\ Workers' = Workers /\ OnlySleepers(wpc')
      BY <2>1 DEF TableInv, Workers, OnlySleepers, TypeOK, Pcs
    <2> QED BY <1>0, <1>4, <2>1, <2>2
  <1>5. CASE needworker[o]
    <2>1. o \in UpOf(k)
      BY <1>0, <1>5 DEF UpOf
    <2>2. k \in DOMAIN Workers /\ Workers[k].refcount = Cardinality(UpOf(k))
      BY <1>0, <2>1 DEF CountInv
    <2>3. /\ i >= 0 /\ i \in 0 .. ProMax - 1 /\ i < proptr /\ old \in Worker
          /\ protbl[i].key = k /\ refs = Cardinality(UpOf(k)) - 1
      BY <1>2, <1>3, <2>2, TableTypes
    <2>4. /\ Cardinality(UpOf(k)) \in Nat
          /\ Cardinality(UpOf(k)) - 1 = Cardinality(UpOf(k) \ {o})
          /\ Cardinality(UpOf(k) \ {o}) = 0 <=> UpOf(k) = {o}
      <3> DEFINE up == UpOf(k)
      <3>1. /\ Cardinality(up) \in Nat
            /\ Cardinality(up \ {o}) = IF o \in up THEN Cardinality(up) - 1 ELSE Cardinality(up)
            /\ Cardinality(up \ {o}) = 0 <=> up \ {o} = {}
        BY ObjectsCounted
      <3> HIDE DEF up
      <3>2. o \in up
        BY <2>1 DEF up
      <3>3. up \ {o} = {} <=> up = {o}
        BY <3>2
      <3> QED BY <3>1, <3>2, <3>3 DEF up
    <2>5. old.refcount \in Nat /\ refs \in Int
      BY <2>3 DEF Worker
    <2>6. Cardinality(UpOf(k) \ {o}) \in Nat
      BY SharedAssumption, FS_Subset, FS_CardinalityType DEF UpOf
    <2>7. CASE refs > 0
      <3> DEFINE v == [old EXCEPT !.refcount = refs]
      <3>1. v \in Worker /\ v.refcount = refs
        BY <2>3, <2>5, <2>7 DEF Worker
      <3>2. protbl' = [protbl EXCEPT ![i].value.refcount = refs] /\ UNCHANGED <<holder, wpc>>
            /\ status' = [status EXCEPT ![o] = "Leaving"]
        BY <1>1, <1>5, <2>3, <2>7
      <3>3. protbl' = Table!StoredIn(protbl, i, v)
        BY <1>3, <2>3, <3>2 DEF Table!StoredIn, Tables, Table!Arrays, Table!Slots
      <3> HIDE DEF v, refs
      <3>4. TableInv' /\ Workers' = Table!Put(Workers, k, v)
        BY <1>0, <2>3, <3>1, <3>3, Storing DEF TableInv, Workers
      <3>5. OnlySleepers(wpc')
        BY <3>2 DEF OnlySleepers, TypeOK, Pcs
      <3> QED BY <1>0, <2>1, <2>3, <2>4, <2>6, <2>7, <3>1, <3>2, <3>4, <3>5
    <2>8. CASE ~(refs > 0)
      <3> DEFINE v == [old EXCEPT !.refcount = 0, !.running = FALSE]
      <3>1. v \in Worker /\ v.refcount = 0
        BY <2>3 DEF Worker
      <3>2. /\ protbl' = [protbl EXCEPT ![i].value.refcount = 0, ![i].value.running = FALSE]
            /\ BroadcastTo({i}) /\ status' = [status EXCEPT ![o] = "Joining"] /\ holder' = o
        BY <1>1, <1>5, <2>3, <2>8
      <3>3. protbl' = Table!StoredIn(protbl, i, v)
        BY <1>3, <2>3, <3>2 DEF Table!StoredIn, Tables, Table!Arrays, Table!Slots
      <3> HIDE DEF v
      <3>4. TableInv' /\ Workers' = Table!Put(Workers, k, v)
        BY <1>0, <2>3, <3>1, <3>3, Storing DEF TableInv, Workers
      <3>5. OnlySleepers(wpc')
        BY <3>2, BroadcastMovesSleepers
      <3>6. UpOf(k) = {o}
        BY <2>3, <2>4, <2>5, <2>6, <2>8
      <3> QED BY <1>0, <3>1, <3>2, <3>4, <3>5, <3>6
    <2> QED BY <2>7, <2>8
  <1> QED BY <1>4, <1>5

(* The joining object's process has an entry, which goes.                  *)
LEMMA DetachStep ==
    ASSUME TypeOK, TableInv, CountInv, CrashInv, NEW o \in Objs, status[o] = "Joining", Detach(o)
    PROVE  /\ TableInv' /\ proptr' \in 0 .. ProMax /\ ~Crashed(Proc[o]) /\ OnlySleepers(wpc')
           /\ Workers' = Table!Without(Workers, Proc[o])
  <1> DEFINE k == Proc[o]
             i == Map!FindIndex(k)
  <1>1. k \in Procs /\ ~Crashed(k) /\ k \in DOMAIN Workers
    <2>1. k \in Procs /\ ~Crashed(k) /\ o \in JoiningOf(k)
      BY ProcsFinite DEF CrashInv, JoiningOf
    <2> QED BY <2>1 DEF CountInv
  <1>2. i \in 0 .. proptr - 1 /\ protbl[i].key = k
    BY <1>1, EntryOf, TableTypes
  <1>3. protbl' = Table!RemovedIn(protbl, proptr, i) /\ proptr' = proptr - 1
    BY TableOperators DEF Detach
  <1>4. OnlySleepers(wpc')
    BY DriftMovesSleepers DEF Detach
  <1> HIDE DEF i
  <1>5. /\ TableOK(protbl', proptr')
        /\ WorkerMap(protbl', proptr') = Table!Without(WorkerMap(protbl, proptr), k)
    BY <1>2, <1>3, Removing DEF TableInv
  <1> QED BY <1>1, <1>4, <1>5 DEF TableInv, Workers, TableOK

SameCounts ==
    /\ DOMAIN Workers' = DOMAIN Workers
    /\ \A k \in DOMAIN Workers : Workers'[k].refcount = Workers[k].refcount

(* worker_done_ may be written to another process's entry, or to one that  *)
(* is not in use: the counts stay.                                         *)
LEMMA FinishStep ==
    ASSUME TypeOK, TableInv, NEW k \in Procs, Finish(k)
    PROVE  TableInv' /\ SameCounts
  <1> DEFINE i == p[k]
             v == [protbl[i].value EXCEPT !.worker_done = TRUE]
             key == protbl[i].key
  <1>1. protbl \in Tables /\ i \in 0 .. ProMax - 1 /\ proptr \in Nat /\ i \in Nat
    BY TableTypes, ProcsFinite DEF TypeOK
  <1>2. v \in Worker /\ v.refcount = protbl[i].value.refcount
    BY <1>1, TableTypes DEF Worker
  <1>3. protbl' = Table!StoredIn(protbl, i, v) /\ proptr' = proptr
    BY <1>1 DEF Finish, Table!StoredIn, Tables, Table!Arrays, Table!Slots
  <1> HIDE DEF v
  <1>4. /\ TableOK(protbl', proptr') /\ Known(protbl', proptr') = Known(protbl, proptr)
        /\ i < proptr => Workers' = Table!Put(Workers, key, v)
        /\ i >= proptr => Workers' = Workers
    BY <1>1, <1>2, <1>3, Storing DEF TableInv, Workers
  <1>5. ASSUME i < proptr PROVE key \in DOMAIN Workers /\ Workers[key] = protbl[i].value
    <2>1. key \in Procs
      BY <1>1, <1>5 DEF TableInv, TableOK, Known, Table!KeysOf
    <2>2. key \in Known(protbl, proptr)
      BY <1>1, <1>5 DEF Known, Table!KeysOf
    <2> DEFINE j == Map!FindIndex(key)
    <2>3. j \in 0 .. proptr - 1 /\ protbl[j].key = key /\ Workers[key] = protbl[j].value
      BY <2>1, <2>2, EntryOf, TableTypes
    <2>4. j = i
      <3> HIDE DEF j
      <3>1. \A x \in 0 .. proptr - 1 : protbl[x].key \in Nat
        BY ProcsFinite DEF TableInv, TableOK, Known, Table!KeysOf
      <3>2. \A x, y \in 0 .. proptr - 1 : x < y => protbl[x].key < protbl[y].key
        BY DEF TableInv, TableOK, Table!Sorted
      <3> QED BY <1>1, <1>5, <2>3, <3>1, <3>2
    <2> QED BY <2>2, <2>3, <2>4, TableTypes
  <1>6. SameCounts
    <2>1. CASE i < proptr
      BY <1>2, <1>4, <1>5, <2>1 DEF SameCounts, Table!Put
    <2>2. CASE i >= proptr
      BY <1>4, <2>2 DEF SameCounts
    <2> QED BY <1>1, <2>1, <2>2
  <1> QED BY <1>4, <1>6 DEF TableInv

-----------------------------------------------------------------------------
(* What binary search in the listeners returns.                            *)

LEMMA ListenByMsg ==
    ASSUME listen \in Seq(Listener), ListenInv
    PROVE  /\ \A i \in 1 .. Len(listen) : listen[i].msg \in Nat /\ listen[i] \in Listener
           /\ \A i, j \in 1 .. Len(listen) : i < j => listen[i].msg <= listen[j].msg
  <1>1. \A i \in 1 .. Len(listen) : listen[i].msg \in Nat /\ listen[i] \in Listener
    <2> SUFFICES ASSUME NEW i \in 1 .. Len(listen)
                 PROVE  listen[i].msg \in Nat /\ listen[i] \in Listener
      OBVIOUS
    <2>1. listen[i] \in Listener /\ \A m \in Msgs : m \in Nat
      BY SharedAssumption, ElementOfSeq
    <2> QED BY <2>1 DEF Listener
  <1>2. ASSUME NEW i \in 1 .. Len(listen), NEW j \in 1 .. Len(listen), i < j
        PROVE  listen[i].msg <= listen[j].msg
    <2>1. Less(listen[i], listen[j])
      BY <1>2 DEF ListenInv
    <2>2. listen[i].msg < listen[j].msg \/ listen[i].msg = listen[j].msg
      BY <2>1 DEF Less, Key
    <2> QED BY <1>1, <2>2
  <1> QED BY <1>1, <1>2

(* Binary search returns the first listener whose message is not less.     *)
IsLowerBound(s, msg) ==
    /\ s \in 1 .. Len(listen) + 1
    /\ \A i \in 1 .. s - 1 : listen[i].msg < msg
    /\ \A i \in s .. Len(listen) : ~(listen[i].msg < msg)

LEMMA LowerBoundFirst ==
    ASSUME listen \in Seq(Listener), ListenInv, NEW msg \in Nat
    PROVE  IsLowerBound(LowerBound(msg), msg)
  <1> DEFINE
        n == Len(listen)
        lt(i) == listen[i + 1].msg < msg
        Body(f) == [range \in (0 .. n) \X (0 .. n) |->
            LET left == range[1]
                right == range[2]
                mid == left + (right - left) \div 2
            IN  IF left >= right THEN left
                ELSE IF listen[mid + 1].msg < msg THEN f[<<mid + 1, right>>]
                ELSE f[<<left, mid>>]]
        F == Min({n} \cup {i \in 0 .. n - 1 : ~lt(i)})
        Clamp(l, r) == IF F <= l \/ l >= r THEN l ELSE IF F >= r THEN r ELSE F
        g == [range \in (0 .. n) \X (0 .. n) |-> Clamp(range[1], range[2])]
  <1>1. n \in Nat
    BY LenProperties
  <1>2. F \in 0 .. n /\ \A i \in 0 .. n - 1 : lt(i) <=> i < F
    <2> DEFINE T == {n} \cup {i \in 0 .. n - 1 : ~lt(i)}
    <2>1. T \in SUBSET Nat /\ T # {}
      BY <1>1
    <2>2. F \in T /\ \A i \in T : F <= i
      <3> HIDE DEF T
      <3>1. F = Min(T)
        BY DEF T
      <3> QED BY <2>1, <3>1, MinIsLeast
    <2> HIDE DEF F
    <2>3. F \in 0 .. n
      BY <1>1, <2>2
    <2>4. \A i \in 0 .. n - 1 : ~lt(i) => F <= i
      BY <2>2
    <2>5. ASSUME NEW i \in 0 .. n - 1, F <= i PROVE ~lt(i)
      <3>1. F \in 0 .. n - 1 /\ ~lt(F)
        BY <1>1, <2>2, <2>3, <2>5
      <3>2. F + 1 \in 1 .. n /\ i + 1 \in 1 .. n /\ (F = i \/ F + 1 < i + 1)
        BY <1>1, <2>5, <3>1
      <3>3. F = i \/ listen[F + 1].msg <= listen[i + 1].msg
        BY <3>2, ListenByMsg
      <3>4. listen[F + 1].msg \in Nat /\ listen[i + 1].msg \in Nat
        BY <3>2, ListenByMsg
      <3> QED BY <3>1, <3>3, <3>4
    <2> QED BY <1>1, <2>3, <2>4, <2>5
  <1> HIDE DEF F
  <1>3. ASSUME NEW l \in 0 .. n, NEW r \in 0 .. n, l < r
        PROVE  LET mid == l + (r - l) \div 2 IN
               /\ mid \in l .. r - 1
               /\ lt(mid) => Clamp(l, r) = Clamp(mid + 1, r)
               /\ ~lt(mid) => Clamp(l, r) = Clamp(l, mid)
    <2> DEFINE mid == l + (r - l) \div 2
    <2>1. mid \in l .. r - 1
      BY <1>1, <1>3
    <2>2. mid \in 0 .. n - 1
      BY <1>1, <2>1
    <2> HIDE DEF mid
    <2>3. lt(mid) <=> mid < F
      BY <1>2, <2>2
    <2> HIDE DEF lt
    <2> QED BY <1>1, <1>2, <1>3, <2>1, <2>3 DEF mid
  <1> HIDE DEF Clamp, lt
  <1>b. ASSUME NEW h, NEW l \in 0 .. n, NEW r \in 0 .. n, l < r
        PROVE  LET mid == l + (r - l) \div 2 IN
               Body(h)[<<l, r>>] = IF lt(mid) THEN h[<<mid + 1, r>>] ELSE h[<<l, mid>>]
    <2> DEFINE x == <<l, r>>
    <2>1. x \in (0 .. n) \X (0 .. n) /\ x[1] = l /\ x[2] = r
      OBVIOUS
    <2> HIDE DEF x
    <2>2. Body(h)[x] = LET left == x[1]
                           right == x[2]
                           mid == left + (right - left) \div 2
                       IN  IF left >= right THEN left
                           ELSE IF listen[mid + 1].msg < msg THEN h[<<mid + 1, right>>]
                           ELSE h[<<left, mid>>]
      BY <2>1
    <2> HIDE DEF Body
    <2>3. ~(l >= r)
      BY <1>1, <1>b
    <2>4. Body(h)[x] = LET mid == l + (r - l) \div 2
                       IN  IF listen[mid + 1].msg < msg THEN h[<<mid + 1, r>>]
                           ELSE h[<<l, mid>>]
      BY <2>1, <2>2, <2>3
    <2> QED BY <2>4 DEF lt, x
  <1>4. g = Body(g)
    <2>1. ASSUME NEW l \in 0 .. n, NEW r \in 0 .. n PROVE g[<<l, r>>] = Body(g)[<<l, r>>]
      <3>1. CASE l >= r
        BY <3>1, <1>1 DEF Clamp
      <3>2. CASE l < r
        <4> DEFINE mid == l + (r - l) \div 2
        <4>1. mid \in l .. r - 1 /\ mid \in 0 .. n /\ mid + 1 \in 0 .. n
          BY <1>1, <3>2
        <4>2. /\ g[<<l, r>>] = Clamp(l, r)
              /\ g[<<mid + 1, r>>] = Clamp(mid + 1, r)
              /\ g[<<l, mid>>] = Clamp(l, mid)
          <5> HIDE DEF mid
          <5> QED BY <4>1
        <4>3. Body(g)[<<l, r>>] = IF lt(mid) THEN g[<<mid + 1, r>>] ELSE g[<<l, mid>>]
          <5> HIDE DEF g, Body
          <5> QED BY <1>b, <3>2
        <4>4. /\ lt(mid) => Clamp(l, r) = Clamp(mid + 1, r)
              /\ ~lt(mid) => Clamp(l, r) = Clamp(l, mid)
          BY <1>3, <3>2
        <4> HIDE DEF g, mid, Body
        <4> QED BY <4>2, <4>3, <4>4
      <3> QED BY <1>1, <3>1, <3>2
    <2>2. \A x \in (0 .. n) \X (0 .. n) : g[x] = Body(g)[x]
      <3> DEFINE b == Body(g)
      <3>1. \A l, r \in 0 .. n : g[<<l, r>>] = b[<<l, r>>]
        BY <2>1
      <3> SUFFICES ASSUME NEW x \in (0 .. n) \X (0 .. n) PROVE g[x] = b[x]
        OBVIOUS
      <3>2. PICK l \in 0 .. n, r \in 0 .. n : x = <<l, r>>
        OBVIOUS
      <3> HIDE DEF b, g
      <3> QED BY <3>1, <3>2
    <2> QED BY <2>2
  <1> DEFINE f == CHOOSE h : h = Body(h)
  <1>5. f = Body(f)
    BY <1>4
  <1> HIDE DEF f, g
  <1> DEFINE Wrong == {m \in Nat : \E x \in (0 .. n) \X (0 .. n) :
                          m = x[2] - x[1] /\ f[x] # Clamp(x[1], x[2])}
  <1>6. ASSUME NEW l \in 0 .. n, NEW r \in 0 .. n, f[<<l, r>>] # Clamp(l, r)
        PROVE  r - l \in Wrong /\ \E m \in Wrong : m < r - l
    <2>1. l < r
      <3> SUFFICES ASSUME l >= r PROVE FALSE
        OBVIOUS
      <3>1. f[<<l, r>>] = l
        BY <1>5
      <3>2. Clamp(l, r) = l
        BY <1>1 DEF Clamp
      <3> QED BY <1>6, <3>1, <3>2
    <2> DEFINE mid == l + (r - l) \div 2
    <2>2. mid \in l .. r - 1 /\ mid + 1 \in 0 .. n /\ mid \in 0 .. n
      BY <1>1, <2>1
    <2>3. f[<<l, r>>] = IF lt(mid) THEN f[<<mid + 1, r>>] ELSE f[<<l, mid>>]
      <3> HIDE DEF Body
      <3> QED BY <1>b, <1>5, <2>1
    <2>4. /\ lt(mid) => Clamp(l, r) = Clamp(mid + 1, r)
          /\ ~lt(mid) => Clamp(l, r) = Clamp(l, mid)
      BY <1>3, <2>1
    <2> HIDE DEF mid
    <2>5. \/ f[<<mid + 1, r>>] # Clamp(mid + 1, r)
          \/ f[<<l, mid>>] # Clamp(l, mid)
      BY <1>6, <2>3, <2>4
    <2>6. \A ll, rr \in 0 .. n :
              ll <= rr /\ f[<<ll, rr>>] # Clamp(ll, rr) => rr - ll \in Wrong
      <3> SUFFICES ASSUME NEW ll \in 0 .. n, NEW rr \in 0 .. n,
                          ll <= rr, f[<<ll, rr>>] # Clamp(ll, rr)
                   PROVE  rr - ll \in Wrong
        OBVIOUS
      <3> DEFINE x == <<ll, rr>>
      <3>1. rr - ll \in Nat /\ x \in (0 .. n) \X (0 .. n)
        BY <1>1
      <3>2. rr - ll = x[2] - x[1] /\ f[x] # Clamp(x[1], x[2])
        OBVIOUS
      <3> HIDE DEF x
      <3> QED BY <3>1, <3>2
    <2>7. \/ r - (mid + 1) \in Wrong
          \/ mid - l \in Wrong
      BY <1>1, <2>2, <2>5, <2>6
    <2>8. r - l \in Wrong
      BY <1>1, <1>6, <2>1, <2>6
    <2> HIDE DEF Wrong
    <2> QED BY <1>1, <2>1, <2>2, <2>7, <2>8
  <1> HIDE DEF Wrong
  <1>7. \A l, r \in 0 .. n : f[<<l, r>>] = Clamp(l, r)
    <2> SUFFICES ASSUME NEW l \in 0 .. n, NEW r \in 0 .. n, f[<<l, r>>] # Clamp(l, r) PROVE FALSE
      OBVIOUS
    <2>1. Wrong # {} /\ Wrong \subseteq Nat
      BY <1>6 DEF Wrong
    <2>2. PICK m \in Wrong : \A k \in Wrong : m <= k
      BY <2>1, LeastNat
    <2>3. PICK x \in (0 .. n) \X (0 .. n) : m = x[2] - x[1] /\ f[x] # Clamp(x[1], x[2])
      BY <2>2 DEF Wrong
    <2>4. PICK ll \in 0 .. n, rr \in 0 .. n : x = <<ll, rr>>
      OBVIOUS
    <2>5. PICK k \in Wrong : k < m
      BY <1>6, <2>3, <2>4
    <2> QED BY <2>1, <2>2, <2>5
  <1>8. LowerBound(msg) = f[<<0, n>>] + 1
    BY DEF LowerBound, f
  <1>9. LowerBound(msg) = F + 1
    BY <1>1, <1>2, <1>7, <1>8 DEF Clamp
  <1>10. \A i \in 1 .. n : listen[i].msg < msg <=> i - 1 < F
    <2> SUFFICES ASSUME NEW i \in 1 .. n PROVE listen[i].msg < msg <=> i - 1 < F
      OBVIOUS
    <2>1. i - 1 \in 0 .. n - 1 /\ (i - 1) + 1 = i
      BY <1>1
    <2>2. lt(i - 1) <=> i - 1 < F
      BY <1>2, <2>1
    <2> QED BY <2>1, <2>2 DEF lt
  <1> HIDE DEF n
  <1>11. IsLowerBound(F + 1, msg)
    <2>1. F + 1 \in 1 .. n + 1
      BY <1>1, <1>2
    <2>2. \A i \in 1 .. F : listen[i].msg < msg
      BY <1>1, <1>2, <1>10
    <2>3. \A i \in F + 1 .. n : ~(listen[i].msg < msg)
      BY <1>1, <1>2, <1>10
    <2>4. (F + 1) - 1 = F
      BY <1>1, <1>2
    <2> QED BY <2>1, <2>2, <2>3, <2>4 DEF IsLowerBound, n
  <1> QED BY <1>9, <1>11

(* The targets of a notification: every listener of the message whose      *)
(* address is not the sender's.                                            *)
LEMMA TargetsFound ==
    ASSUME listen \in Seq(Listener), ListenInv, NEW msg \in Msgs, NEW from
    PROVE  Targets(from, msg) = {i \in 1 .. Len(listen) :
                                    listen[i].msg = msg /\ Addr[listen[i].obj] # Addr[from]}
  <1> DEFINE n == Len(listen)
             start == LowerBound(msg)
             ends == {i \in start .. n : listen[i].msg # msg} \cup {n + 1}
             e == Min(ends)
  <1>1. n \in Nat /\ msg \in Nat
    BY LenProperties, SharedAssumption
  <1>2. /\ start \in 1 .. n + 1
        /\ \A i \in 1 .. start - 1 : listen[i].msg < msg
        /\ \A i \in start .. n : ~(listen[i].msg < msg)
    BY <1>1, LowerBoundFirst DEF IsLowerBound
  <1>3. /\ \A i \in 1 .. n : listen[i].msg \in Nat
        /\ \A i, j \in 1 .. n : i < j => listen[i].msg <= listen[j].msg
    BY ListenByMsg
  <1> HIDE DEF start, n
  <1>4. e \in ends /\ \A i \in ends : e <= i
    <2>1. ends \in SUBSET Nat /\ ends # {}
      BY <1>1, <1>2
    <2> HIDE DEF ends
    <2> QED BY <2>1, MinIsLeast
  <1>5. Targets(from, msg) = {i \in start .. e - 1 : Addr[listen[i].obj] # Addr[from]}
    BY DEF Targets, start, n
  <1> HIDE DEF e
  <1>6. ASSUME NEW i \in 1 .. n PROVE i \in start .. e - 1 <=> listen[i].msg = msg
    <2>1. CASE i < start
      BY <1>1, <1>2, <1>3, <2>1
    <2>2. CASE i >= start /\ i < e
      <3>1. i \notin ends
        BY <1>1, <1>2, <1>4, <2>2
      <3>2. e \in Int /\ listen[i].msg = msg
        BY <1>1, <1>2, <1>4, <2>2, <3>1
      <3> QED BY <1>1, <1>2, <2>2, <3>2
    <2>3. CASE i >= start /\ i >= e
      <3>1. e \in start .. n /\ listen[e].msg # msg
        BY <1>1, <1>2, <1>4, <2>3
      <3>2. listen[e].msg \in Nat /\ listen[i].msg \in Nat /\ listen[e].msg <= listen[i].msg
        BY <1>1, <1>2, <1>3, <2>3, <3>1
      <3>3. msg < listen[e].msg
        BY <1>1, <1>2, <3>1, <3>2
      <3> QED BY <1>1, <1>2, <2>3, <3>1, <3>2, <3>3
    <2> QED BY <1>1, <1>2, <1>4, <2>1, <2>2, <2>3
  <1>7. \A i \in start .. e - 1 : i \in 1 .. n
    BY <1>1, <1>2, <1>4
  <1>8. {i \in start .. e - 1 : Addr[listen[i].obj] # Addr[from]}
            = {i \in 1 .. n : listen[i].msg = msg /\ Addr[listen[i].obj] # Addr[from]}
    BY <1>6, <1>7
  <1> QED BY <1>5, <1>8 DEF n

-----------------------------------------------------------------------------
(* Every step keeps the types, the table sorted and the listeners in order.*)

LEMMA ListenStep ==
    ASSUME NEW L \in SUBSET Listener, IsFiniteSet(L), Cardinality(L) <= ListenMax,
           listen' \in SortedListen(L)
    PROVE  /\ listen' \in Seq([msg : Msgs, obj : Objs]) /\ Len(listen') <= ListenMax
           /\ Range(listen') = L /\ ListenInv'
  <1>1. ListenedBy(listen', L)
    BY SortedListeners
  <1>2. listen' \in Seq(L) /\ Len(listen') = Cardinality(L) /\ Range(listen') = L
    BY <1>1 DEF ListenedBy
  <1>3. listen' \in Seq(Listener)
    BY <1>2, SeqMonotonic
  <1> QED BY <1>1, <1>2, <1>3 DEF ListenedBy, ListenInv, Listener

(* What notify with payload does, without its reasons for it.              *)
SentWith(from, msg, chosen, slot, freed) ==
    /\ chosen \in SUBSET Targets(from, msg) /\ slot \in [chosen -> Reusable]
    /\ IsInjective(slot) /\ freed \in SUBSET (SlotsIn("Processed") \ Range(slot))
    /\ Cardinality(chosen) <= Room
    /\ Send(chosen, slot)
    /\ payload' = [s \in PayloadSlots |->
           IF s \in Range(slot)
           THEN [state |-> "Unread", msg |-> msg,
                 to |-> Proc[listen[CHOOSE i \in chosen : slot[i] = s].obj]]
           ELSE IF s \in freed THEN FreePayload ELSE payload[s]]

LEMMA PayloadSent ==
    ASSUME NEW from, NEW msg, NotifyPayload(from, msg)
    PROVE  \E chosen, slot, freed : SentWith(from, msg, chosen, slot, freed)
  <1> DEFINE new(chosen, slot, freed) == [s \in PayloadSlots |->
                   IF s \in Range(slot)
                   THEN [state |-> "Unread", msg |-> msg,
                         to |-> Proc[listen[CHOOSE i \in chosen : slot[i] = s].obj]]
                   ELSE IF s \in freed THEN FreePayload ELSE payload[s]]
  <1>1. PICK chosen \in SUBSET Targets(from, msg) :
            \E slot \in {f \in [chosen -> Reusable] : IsInjective(f)} :
            \E freed \in SUBSET (SlotsIn("Processed") \ Range(slot)) :
                /\ Cardinality(chosen) <= Room
                /\ Send(chosen, slot)
                /\ payload' = new(chosen, slot, freed)
    BY SMTT(30) DEF NotifyPayload
  <1>2. PICK slot \in {f \in [chosen -> Reusable] : IsInjective(f)} :
            \E freed \in SUBSET (SlotsIn("Processed") \ Range(slot)) :
                /\ Cardinality(chosen) <= Room
                /\ Send(chosen, slot)
                /\ payload' = new(chosen, slot, freed)
    BY <1>1
  <1>3. PICK freed \in SUBSET (SlotsIn("Processed") \ Range(slot)) :
                /\ Cardinality(chosen) <= Room
                /\ Send(chosen, slot)
                /\ payload' = new(chosen, slot, freed)
    BY <1>2
  <1>4. slot \in [chosen -> Reusable] /\ IsInjective(slot)
    OBVIOUS
  <1>5. payload' = new(chosen, slot, freed)
    BY <1>3
  <1> HIDE DEF new
  <1>6. SentWith(from, msg, chosen, slot, freed)
    BY <1>3, <1>4, <1>5 DEF new, SentWith
  <1> QED BY <1>6

LEMMA ShapeNext == IInv /\ [Next]_vars => TypeOK' /\ TableInv' /\ ListenInv'
  <1> SUFFICES ASSUME IInv, [Next]_vars PROVE TypeOK' /\ TableInv' /\ ListenInv'
    OBVIOUS
  <1> USE DEF IInv
  <1>0. /\ protbl \in Tables /\ proptr \in 0 .. ProMax
        /\ listen \in Seq(Listener) /\ Len(listen) <= ListenMax
        /\ queue \in Seq(Mail) /\ Len(queue) <= QueueMax
    BY TableTypes DEF TypeOK, Listener
  <1>00. /\ UNCHANGED tableVars => TableInv' /\ protbl' \in Tables /\ proptr' \in 0 .. ProMax
         /\ UNCHANGED listen => /\ ListenInv' /\ listen' \in Seq(Listener)
                                /\ Len(listen') <= ListenMax
         /\ UNCHANGED queue => queue' \in Seq(Mail) /\ Len(queue') <= QueueMax
         /\ UNCHANGED wpc => OnlySleepers(wpc')
         /\ \A new : OnlySleepers(new) => new \in [Procs -> Pcs]
    BY <1>0 DEF TableInv, ListenInv, tableVars, OnlySleepers, TypeOK, Pcs
  <1> DEFINE Rest ==
        /\ status' \in [Objs -> {"Gone", "Up", "Joining", "Leaving", "Dead"}]
        /\ needworker' \in [Objs -> BOOLEAN] /\ holder' \in Objs \cup {None}
        /\ payload' \in [PayloadSlots -> Payload]
        /\ self' \in [Procs -> Objs \cup {None}] /\ wpc' \in [Procs -> Pcs]
        /\ p' \in [Procs -> 0 .. ProMax - 1] /\ locals' \in [Procs -> Seq(Mail)]
  <1>000. ASSUME Rest, TableInv', listen' \in Seq(Listener), Len(listen') <= ListenMax,
                 queue' \in Seq(Mail), Len(queue') <= QueueMax
          PROVE  TypeOK'
    <2>1. protbl' \in [0 .. ProMax - 1 -> Entry] /\ proptr' \in 0 .. ProMax
      BY <1>000, TableTypes DEF TableInv, TableOK
    <2> QED BY <1>000, <2>1 DEF TypeOK, Listener, Pcs
  <1>1. ASSUME NEW o \in Objs, Construct(o) PROVE TypeOK' /\ TableInv' /\ ListenInv'
    <2>1. PICK new \in Registered(o, List[o]) :
            /\ listen' \in SortedListen(Range(listen) \cup new)
            /\ needworker' = [needworker EXCEPT ![o] = new # {}]
            /\ IF new = {} THEN UNCHANGED <<tableVars, wpc, self>> ELSE Attach(o, Proc[o])
      BY <1>1 DEF Construct
    <2>2. List[o] \in SUBSET Msgs /\ Proc[o] \in Procs
      BY SharedAssumption, ProcsFinite
    <2>3. /\ listen' \in Seq(Listener) /\ Len(listen') <= ListenMax /\ ListenInv'
      <3> DEFINE L == Range(listen) \cup new
      <3>1. L \in SUBSET Listener /\ IsFiniteSet(L) /\ Cardinality(L) <= ListenMax
        BY <1>0, <2>2, RegisteredFits
      <3> HIDE DEF L
      <3> QED BY <2>1, <3>1, ListenStep DEF L, Listener
    <2>4. TableInv' /\ self' \in [Procs -> Objs \cup {None}] /\ wpc' \in [Procs -> Pcs]
      <3>1. CASE new = {}
        BY <1>00, <2>1, <3>1 DEF TypeOK
      <3>2. CASE new # {}
        BY <2>1, <2>2, <3>2, AttachStep
      <3> QED BY <3>1, <3>2
    <2>5. Rest
      BY <1>1, <2>1, <2>4 DEF Construct, TypeOK
    <2> QED BY <1>00, <1>000, <1>1, <2>3, <2>4, <2>5 DEF Construct
  <1>2. ASSUME NEW o \in Objs, NEW msg \in Msgs, AddListen(o, msg)
        PROVE  TypeOK' /\ TableInv' /\ ListenInv'
    <2>1. PICK new \in Registered(o, {msg}) : listen' \in SortedListen(Range(listen) \cup new)
      BY <1>2 DEF AddListen
    <2>2. /\ listen' \in Seq(Listener) /\ Len(listen') <= ListenMax /\ ListenInv'
      <3> DEFINE L == Range(listen) \cup new
                 msgs == {msg}
      <3>0. msgs \in SUBSET Msgs /\ new \in Registered(o, msgs)
        OBVIOUS
      <3> HIDE DEF msgs
      <3>1. L \in SUBSET Listener /\ IsFiniteSet(L) /\ Cardinality(L) <= ListenMax
        BY <1>0, <3>0, RegisteredFits
      <3> HIDE DEF L
      <3> QED BY <2>1, <3>1, ListenStep DEF L, Listener
    <2>3. Rest
      BY <1>2, <1>00 DEF AddListen, TypeOK, workerVars, Pcs
    <2> QED BY <1>00, <1>000, <1>2, <2>2, <2>3 DEF AddListen
  <1>a. ASSUME NEW from, NEW msg \in Msgs, NEW chosen \in SUBSET Targets(from, msg),
               NEW slot, \A i \in chosen : slot[i] \in PayloadSlots \cup {None},
               Send(chosen, slot), Cardinality(chosen) <= Room
        PROVE  queue' \in Seq(Mail) /\ Len(queue') <= QueueMax /\ wpc' \in [Procs -> Pcs]
    <2>1. chosen \in SUBSET DOMAIN listen
      BY <1>0, TargetsFound, LenProperties
    <2>2. PICK order \in SetToSeqs(chosen) : Pushed(chosen, slot, order)
      BY <1>0, <1>a, <2>1, SendPushes DEF Listener
    <2>3. queue' \in Seq(Mail) /\ Len(queue') = Len(queue) + Cardinality(chosen)
      BY <2>2 DEF Pushed
    <2>4. Len(queue') <= QueueMax
      BY <1>0, <1>a, <2>2, <2>3, LenProperties, SharedAssumption DEF Pushed, Room
    <2>5. PICK indices : BroadcastTo(indices)
      BY <1>a DEF Send
    <2> QED BY <1>00, <2>3, <2>4, <2>5, BroadcastMovesSleepers
  <1>b. ASSUME NEW I \in SUBSET DOMAIN queue, NEW orders \in SUBSET SetToSeqs(I),
               NEW q \in Arranged(orders)
        PROVE  q \in Seq(Mail) /\ Len(q) <= QueueMax
    <2>1. PICK o \in SetToSeqs(I) : ArrangedBy(q, I, o)
      BY <1>0, ArrangedMails
    <2> QED BY <1>0, <2>1, LenProperties, SharedAssumption DEF ArrangedBy
  <1>3. ASSUME NEW from \in Objs, NEW msg \in Msgs, Notify(from, msg)
        PROVE  TypeOK' /\ TableInv' /\ ListenInv'
    <2> DEFINE targets == Targets(from, msg)
               n == Min({Cardinality(targets), Room})
    <2>1. PICK chosen \in kSubset(n, targets) : Send(chosen, [i \in chosen |-> None])
      BY <1>3 DEF Notify
    <2>2. chosen \in SUBSET targets /\ Cardinality(chosen) = n
      BY DEF kSubset
    <2>3. n <= Room
      <3>1. IsFiniteSet(targets)
        <4>1. targets \subseteq 1 .. Len(listen) /\ Len(listen) \in Nat
          BY <1>0, TargetsFound, LenProperties
        <4>2. IsFiniteSet(1 .. Len(listen))
          BY <4>1, FS_Interval
        <4> HIDE DEF targets
        <4> QED BY <4>1, <4>2, FS_Subset
      <3>2. {Cardinality(targets), Room} \in SUBSET Nat /\ {Cardinality(targets), Room} # {}
        BY <1>0, <3>1, FS_CardinalityType, LenProperties, SharedAssumption DEF Room
      <3> HIDE DEF targets
      <3> QED BY <3>2, MinIsLeast
    <2> DEFINE slot == [i \in chosen |-> None]
    <2>4. \A i \in chosen : slot[i] \in PayloadSlots \cup {None}
      OBVIOUS
    <2> HIDE DEF slot, n, targets
    <2>5. queue' \in Seq(Mail) /\ Len(queue') <= QueueMax /\ wpc' \in [Procs -> Pcs]
      BY <1>a, <2>1, <2>2, <2>3, <2>4 DEF slot, targets
    <2>6. Rest
      BY <1>3, <2>5 DEF Notify, TypeOK
    <2> QED BY <1>00, <1>000, <1>3, <2>5, <2>6 DEF Notify
  <1>4. ASSUME NEW from \in Objs, NEW msg \in Msgs, NotifyPayload(from, msg)
        PROVE  TypeOK' /\ TableInv' /\ ListenInv'
    <2>0. PICK chosen, slot, freed : SentWith(from, msg, chosen, slot, freed)
      BY <1>4, PayloadSent
    <2>1. /\ chosen \in SUBSET Targets(from, msg) /\ slot \in [chosen -> Reusable]
          /\ Cardinality(chosen) <= Room
          /\ Send(chosen, slot)
          /\ payload' = [s \in PayloadSlots |->
                 IF s \in Range(slot)
                 THEN [state |-> "Unread", msg |-> msg,
                       to |-> Proc[listen[CHOOSE i \in chosen : slot[i] = s].obj]]
                 ELSE IF s \in freed THEN FreePayload ELSE payload[s]]
      BY <2>0 DEF SentWith
    <2>2. \A i \in chosen : slot[i] \in PayloadSlots \cup {None}
      BY <2>1 DEF Reusable, SlotsIn
    <2>3. queue' \in Seq(Mail) /\ Len(queue') <= QueueMax /\ wpc' \in [Procs -> Pcs]
      BY <1>a, <2>1, <2>2
    <2>4. payload' \in [PayloadSlots -> Payload]
      <3>1. ASSUME NEW s \in PayloadSlots PROVE payload'[s] \in Payload
        <4>1. CASE s \in Range(slot)
          <5>1. (CHOOSE i \in chosen : slot[i] = s) \in chosen
            BY <2>1, <4>1 DEF Range
          <5>2. PICK i \in chosen : payload'[s] = [state |-> "Unread", msg |-> msg,
                                                   to |-> Proc[listen[i].obj]]
            BY <2>1, <4>1, <5>1
          <5>3. listen[i].obj \in Objs
            <6>1. i \in 1 .. Len(listen)
              BY <1>0, <2>1, TargetsFound
            <6>2. listen[i] \in Listener
              BY <1>0, <6>1, ElementOfSeq
            <6> QED BY <6>2 DEF Listener
          <5> QED BY <5>2, <5>3, ProcsFinite DEF Payload
        <4>2. CASE s \notin Range(slot)
          BY <2>1, <4>2 DEF TypeOK, Payload, FreePayload
        <4> QED BY <4>1, <4>2
      <3> QED BY <2>1, <3>1
    <2>5. Rest
      BY <1>4, <2>3, <2>4 DEF NotifyPayload, TypeOK
    <2> QED BY <1>00, <1>000, <1>4, <2>3, <2>5 DEF NotifyPayload
  <1>5. ASSUME ProfileAndGC PROVE TypeOK' /\ TableInv' /\ ListenInv'
    <2>1. payload' \in [PayloadSlots -> Payload]
      BY <1>5 DEF ProfileAndGC, TypeOK, Payload, FreePayload
    <2>2. Rest
      BY <1>5, <2>1 DEF ProfileAndGC, TypeOK, workerVars, Pcs
    <2> QED BY <1>00, <1>000, <1>5, <2>2 DEF ProfileAndGC
  <1>6. ASSUME NEW o \in Objs, BeginDestroy(o) PROVE TypeOK' /\ TableInv' /\ ListenInv'
    <2>1. /\ TableInv' /\ OnlySleepers(wpc')
          /\ status' \in [Objs -> {"Gone", "Up", "Joining", "Leaving", "Dead"}]
          /\ holder' \in Objs \cup {None}
      BY <1>6, DestroyStep DEF TypeOK
    <2>2. Rest
      BY <1>00, <1>6, <2>1 DEF BeginDestroy, TypeOK, mailVars
    <2> QED BY <1>00, <1>000, <1>6, <2>1, <2>2 DEF BeginDestroy, mailVars
  <1>7. ASSUME NEW o \in Objs, status[o] = "Joining", Detach(o)
        PROVE  TypeOK' /\ TableInv' /\ ListenInv'
    <2>1. TableInv' /\ OnlySleepers(wpc')
      BY <1>7, DetachStep
    <2>2. Rest
      BY <1>00, <1>7, <2>1 DEF Detach, TypeOK, mailVars
    <2> QED BY <1>00, <1>000, <1>7, <2>1, <2>2 DEF Detach, mailVars
  <1>8. ASSUME NEW o \in Objs, Purge(o) PROVE TypeOK' /\ TableInv' /\ ListenInv'
    <2> DEFINE isOther(m) == Addr[m.obj] # Addr[o]
               I == {i \in DOMAIN queue : isOther(queue[i])}
               L == {l \in Range(listen) : isOther(l)}
    <2>1. queue' \in Seq(Mail) /\ Len(queue') <= QueueMax
      <3>1. queue' = queue \/ queue' \in Arranged(SortedByMsg(I))
        BY <1>8 DEF Purge
      <3> HIDE DEF isOther
      <3>2. I \in SUBSET DOMAIN queue
        OBVIOUS
      <3> HIDE DEF I
      <3> QED BY <1>0, <1>b, <3>1, <3>2, SortedIsAnOrder
    <2>2. listen' \in Seq(Listener) /\ Len(listen') <= ListenMax /\ ListenInv'
      <3>1. UNCHANGED listen \/ listen' \in SortedListen(L)
        BY <1>8 DEF Purge
      <3>2. L \in SUBSET Range(listen)
        OBVIOUS
      <3> HIDE DEF L
      <3>3. IsFiniteSet(L) /\ Cardinality(L) <= Cardinality(Range(listen)) /\ L \in SUBSET Listener
        BY <1>0, <3>2, ListenersCounted, FS_Subset
      <3>4. Cardinality(L) <= ListenMax
        BY <1>0, <3>3, ListenersCounted, FS_CardinalityType, LenProperties, SharedAssumption
      <3> QED BY <1>00, <3>1, <3>3, <3>4, ListenStep DEF Listener
    <2>3. Rest
      BY <1>8, <1>00 DEF Purge, TypeOK, workerVars, Pcs
    <2> QED BY <1>00, <1>000, <1>8, <2>1, <2>2, <2>3 DEF Purge
  <1>9. ASSUME NEW k \in Procs, Start(k) PROVE TypeOK' /\ TableInv' /\ ListenInv'
    <2>1. Map!FindIndex(k) \in 0 .. ProMax - 1
      BY <1>9, EntryOf DEF Start
    <2>2. Rest
      BY <1>9, <2>1 DEF Start, TypeOK, Goto, mailVars, Pcs
    <2> QED BY <1>00, <1>000, <1>9, <2>2 DEF Start, mailVars
  <1>10. ASSUME NEW k \in Procs, CheckRunning(k) \/ Wait(k) \/ SpuriousWakeup(k) \/ Deliver(k)
         PROVE  TypeOK' /\ TableInv' /\ ListenInv'
    <2>0. UNCHANGED <<tableVars, mailVars, locals>>
      BY <1>10 DEF CheckRunning, Wait, SpuriousWakeup, Deliver
    <2>1. Rest
      <3>1. wpc' \in [Procs -> Pcs]
        BY <1>10 DEF CheckRunning, Wait, SpuriousWakeup, Deliver, TypeOK, Goto, Pcs
      <3> QED BY <1>10, <3>1 DEF CheckRunning, Wait, SpuriousWakeup, Deliver, TypeOK, mailVars
    <2> QED BY <1>00, <1>000, <2>0, <2>1 DEF mailVars
  <1>11. ASSUME NEW k \in Procs, Drain(k) PROVE TypeOK' /\ TableInv' /\ ListenInv'
    <2> DEFINE mine == {i \in DOMAIN queue : IsFor(k, queue[i])}
    <2>1. PICK mails \in Arranged(InQueueOrder(mine)) : NextMail(k, mails)
      BY <1>11 DEF Drain
    <2>2. queue' \in Arranged(SortedByMsg(DOMAIN queue \ mine))
      BY <1>11 DEF Drain
    <2>3. mine \in SUBSET DOMAIN queue
      OBVIOUS
    <2> HIDE DEF mine
    <2>4. mails \in Seq(Mail) /\ queue' \in Seq(Mail) /\ Len(queue') <= QueueMax
      BY <1>b, <2>2, <2>3, SortedIsAnOrder
    <2>5. Rest
      BY <1>11, <2>1, <2>4 DEF Drain, TypeOK, NextMail, Goto, Pcs
    <2> QED BY <1>00, <1>000, <1>11, <2>4, <2>5 DEF Drain
  <1>12. ASSUME NEW k \in Procs, Updated(k) \/ UpdatedWithData(k)
         PROVE  TypeOK' /\ TableInv' /\ ListenInv'
    <2>1. locals[k] \in Seq(Mail) /\ locals[k] # <<>> /\ Tail(locals[k]) \in Seq(Mail)
      <3>1. locals[k] \in Seq(Mail) /\ locals[k] # <<>>
        BY <1>12 DEF Updated, UpdatedWithData, TypeOK, WorkerInv
      <3> QED BY <3>1, HeadTailProperties
    <2>2. NextMail(k, Tail(locals[k]))
      BY <1>12 DEF Updated, UpdatedWithData
    <2>3. payload' \in [PayloadSlots -> Payload]
      <3> DEFINE s == Head(locals[k]).slot
      <3>1. \/ payload' = payload
            \/ payload' = [payload EXCEPT ![s].state = "Processed"]
        BY <1>12 DEF Updated, UpdatedWithData, mailVars
      <3> HIDE DEF s
      <3>2. payload \in [PayloadSlots -> Payload]
        BY DEF TypeOK
      <3>3. \A x \in PayloadSlots : [payload[x] EXCEPT !.state = "Processed"] \in Payload
        BY <3>2 DEF Payload
      <3>4. [payload EXCEPT ![s].state = "Processed"]
                = [payload EXCEPT ![s] = [payload[s] EXCEPT !.state = "Processed"]]
        OBVIOUS
      <3> DEFINE new(x) == [payload[x] EXCEPT !.state = "Processed"]
      <3>5. \A x \in PayloadSlots : new(x) \in Payload
        BY <3>3
      <3> HIDE DEF new
      <3>6. [payload EXCEPT ![s] = new(s)] \in [PayloadSlots -> Payload]
        BY <3>2, <3>5
      <3> QED BY <3>1, <3>2, <3>4, <3>6 DEF new
    <2>4. Rest
      BY <1>12, <2>1, <2>2, <2>3 DEF Updated, UpdatedWithData, TypeOK, NextMail, Goto, Pcs
    <2> QED BY <1>00, <1>000, <1>12, <2>4 DEF Updated, UpdatedWithData, mailVars
  <1>13. ASSUME NEW k \in Procs, Finish(k) PROVE TypeOK' /\ TableInv' /\ ListenInv'
    <2>1. TableInv'
      BY <1>13, FinishStep
    <2>2. Rest
      BY <1>13 DEF Finish, TypeOK, Goto, mailVars, Pcs
    <2> QED BY <1>00, <1>000, <1>13, <2>1, <2>2 DEF Finish, mailVars
  <1>14. ASSUME NEW k \in Procs, Crash(k) PROVE TypeOK' /\ TableInv' /\ ListenInv'
    <2>1. Rest
      BY <1>14, EmptySeq DEF Crash, TypeOK, Goto, mailVars, Pcs
    <2> QED BY <1>00, <1>000, <1>14, <2>1 DEF Crash, mailVars
  <1>15. CASE UNCHANGED vars
    <2>1. Rest
      BY <1>15 DEF vars, TypeOK, mailVars, workerVars, tableVars, Pcs
    <2> QED BY <1>00, <1>000, <1>15, <2>1 DEF vars, mailVars, tableVars
  <1> QED
    BY <1>1, <1>2, <1>3, <1>4, <1>5, <1>6, <1>7, <1>8, <1>9, <1>10, <1>11, <1>12, <1>13, <1>14,
       <1>15 DEF Next, WorkerStep, Join, JoinTimeout

-----------------------------------------------------------------------------
(* Every step keeps the counts.                                            *)

LifeInv == CountInv /\ JoinInv /\ CrashInv
SameCrashed == \A k \in Procs : Crashed(k)' <=> Crashed(k)

LEMMA SleepersLive == ASSUME OnlySleepers(wpc') PROVE SameCrashed
  BY DEF OnlySleepers, SameCrashed, Crashed

LEMMA MovedLives ==
    ASSUME TypeOK, NEW k \in Procs, NEW pc, Goto(k, pc), wpc[k] # "Crashed", pc # "Crashed"
    PROVE  SameCrashed
  BY DEF Goto, SameCrashed, Crashed, TypeOK

LEMMA LifeUnchanged ==
    ASSUME LifeInv, UNCHANGED <<status, needworker, holder>>, SameCounts, SameCrashed
    PROVE  LifeInv'
  <1>1. \A k : UpOf(k)' = UpOf(k) /\ JoiningOf(k)' = JoiningOf(k)
    BY DEF UpOf, JoiningOf
  <1>2. CountInv'
    BY <1>1 DEF LifeInv, CountInv, SameCounts, SameCrashed
  <1>3. JoinInv'
    BY <1>1 DEF LifeInv, JoinInv
  <1>4. CrashInv'
    BY ProcsFinite DEF LifeInv, CrashInv, SameCrashed
  <1> QED BY <1>2, <1>3, <1>4 DEF LifeInv

LEMMA ConstructLife ==
    ASSUME TypeOK, TableInv, LifeInv, NEW o \in Objs, Construct(o)
    PROVE  LifeInv'
  <1> DEFINE k == Proc[o]
  <1> USE DEF LifeInv
  <1>1. PICK new \in Registered(o, List[o]) :
            /\ needworker' = [needworker EXCEPT ![o] = new # {}]
            /\ IF new = {} THEN UNCHANGED <<tableVars, wpc, self>> ELSE Attach(o, k)
    BY DEF Construct
  <1>2. /\ status[o] = "Gone" /\ ~Crashed(k) /\ holder = None /\ holder' = holder
        /\ status' = [status EXCEPT ![o] = "Up"] /\ k \in Procs
    BY ProcsFinite DEF Construct, RegionFree
  <1>3. /\ \A j : j # k => UpOf(j)' = UpOf(j)
        /\ UpOf(k)' = IF new = {} THEN UpOf(k) ELSE UpOf(k) \cup {o}
        /\ o \notin UpOf(k)
        /\ \A j : JoiningOf(j)' = JoiningOf(j)
    <2>1. \A x \in Objs : /\ needworker'[x] = IF x = o THEN new # {} ELSE needworker[x]
                          /\ status'[x] = IF x = o THEN "Up" ELSE status[x]
      BY <1>1, <1>2 DEF TypeOK
    <2>2. \A j : j # k => UpOf(j)' = UpOf(j)
      BY <1>2, <2>1 DEF UpOf
    <2>3. o \notin UpOf(k) /\ UpOf(k)' = IF new = {} THEN UpOf(k) ELSE UpOf(k) \cup {o}
      BY <1>2, <2>1 DEF UpOf
    <2>4. \A j : JoiningOf(j)' = JoiningOf(j)
      BY <1>2, <2>1 DEF JoiningOf
    <2> QED BY <2>2, <2>3, <2>4
  <1>4. \A x \in Objs : status[x] # "Joining" /\ status'[x] # "Joining"
    <2>1. \A x \in Objs : status[x] # "Joining"
      BY <1>2, SharedAssumption DEF JoinInv
    <2> QED BY <1>2, <2>1 DEF TypeOK
  <1>5. SameCrashed
    <2>1. CASE new = {}
      BY <1>1, <2>1 DEF SameCrashed, Crashed
    <2>2. CASE new # {}
      <3>1. \/ UNCHANGED wpc
            \/ /\ wpc[k] = "Exited" /\ wpc'[k] = "Start"
               /\ OnlySleepers([wpc' EXCEPT ![k] = "Exited"])
        BY <1>1, <1>2, <2>2, AttachStep
      <3>2. wpc' \in [Procs -> Pcs]
        BY <1>1, <1>2, <2>2, AttachStep
      <3> QED BY <1>2, <3>1, <3>2 DEF OnlySleepers, SameCrashed, Crashed
    <2> QED BY <2>1, <2>2
  <1>6. CrashInv'
    BY <1>2, <1>5, ProcsFinite DEF CrashInv, SameCrashed, TypeOK
  <1>7. CountInv'
    <2>1. CASE new = {}
      <3>1. Workers' = Workers
        BY <1>1, <2>1 DEF Workers, tableVars
      <3>2. \A j : UpOf(j)' = UpOf(j)
        BY <1>3, <2>1
      <3> QED BY <1>3, <1>5, <3>1, <3>2 DEF CountInv, SameCrashed
    <2>2. CASE new # {}
      <3>1. PICK v \in Worker :
                /\ Workers' = Table!Put(Workers, k, v)
                /\ v.refcount = IF k \in DOMAIN Workers THEN Workers[k].refcount + 1 ELSE 1
        BY <1>1, <1>2, <2>2, AttachStep
      <3>2. /\ DOMAIN Workers' = DOMAIN Workers \cup {k}
            /\ \A j \in DOMAIN Workers' : Workers'[j] = IF j = k THEN v ELSE Workers[j]
        BY <3>1 DEF Table!Put
      <3>3. /\ UpOf(k)' = UpOf(k) \cup {o}
            /\ Cardinality(UpOf(k) \cup {o}) = Cardinality(UpOf(k)) + 1
        BY <1>3, <2>2, ObjectsCounted
      <3>4. v.refcount = Cardinality(UpOf(k)')
        <4>1. CASE k \in DOMAIN Workers
          BY <1>2, <3>1, <3>3, <4>1 DEF CountInv
        <4>2. CASE k \notin DOMAIN Workers
          <5>1. UpOf(k) = {}
            BY <1>2, <4>2 DEF CountInv
          <5> QED BY <3>1, <3>3, <4>2, <5>1, FS_EmptySet
        <4> QED BY <4>1, <4>2
      <3> SUFFICES ASSUME NEW j \in Procs, ~Crashed(j)'
                   PROVE  /\ j \in DOMAIN Workers' <=> UpOf(j)' \cup JoiningOf(j)' # {}
                          /\ j \in DOMAIN Workers' => Workers'[j].refcount = Cardinality(UpOf(j)')
        BY DEF CountInv
      <3>5. CASE j = k
        BY <3>2, <3>3, <3>4, <3>5
      <3>6. CASE j # k
        BY <1>3, <1>5, <3>2, <3>6 DEF CountInv, SameCrashed
      <3> QED BY <3>5, <3>6
    <2> QED BY <2>1, <2>2
  <1> QED BY <1>4, <1>6, <1>7 DEF JoinInv

LEMMA DestroyLife ==
    ASSUME TypeOK, TableInv, LifeInv, NEW o \in Objs, BeginDestroy(o)
    PROVE  LifeInv'
  <1> DEFINE k == Proc[o]
  <1> USE DEF LifeInv
  <1>1. /\ status[o] = "Up" /\ holder = None /\ needworker' = needworker /\ k \in Procs
    BY ProcsFinite DEF BeginDestroy, RegionFree
  <1>2. \A x \in Objs : status[x] # "Joining"
    BY <1>1, SharedAssumption DEF JoinInv
  <1>3. ~Crashed(k) /\ SameCrashed
    BY DestroyStep, SleepersLive
  <1>4. ASSUME NEW new, new # "Up", status' = [status EXCEPT ![o] = new]
        PROVE  /\ \A j : j # k => UpOf(j)' = UpOf(j) /\ JoiningOf(j)' = {}
               /\ \A j : JoiningOf(j) = {}
               /\ UpOf(k)' = UpOf(k) \ {o}
               /\ JoiningOf(k)' = IF new = "Joining" THEN {o} ELSE {}
               /\ CrashInv'
    <2>1. \A x \in Objs : status'[x] = IF x = o THEN new ELSE status[x]
      BY <1>4 DEF TypeOK
    <2>2. CrashInv'
      BY <1>3, <2>1, ProcsFinite DEF CrashInv, SameCrashed
    <2>3. \A j : j # k => UpOf(j)' = UpOf(j) /\ JoiningOf(j)' = {}
      BY <1>1, <1>2, <2>1 DEF UpOf, JoiningOf
    <2>4. UpOf(k)' = UpOf(k) \ {o}
      BY <1>1, <1>4, <2>1 DEF UpOf
    <2>5. JoiningOf(k)' = IF new = "Joining" THEN {o} ELSE {}
      BY <1>2, <2>1 DEF JoiningOf
    <2>6. \A j : JoiningOf(j) = {}
      BY <1>2 DEF JoiningOf
    <2> QED BY <2>2, <2>3, <2>4, <2>5, <2>6
  <1>5. CASE /\ ~needworker[o] /\ Workers' = Workers
             /\ status' = [status EXCEPT ![o] = "Leaving"] /\ holder' = holder
    <2>1. o \notin UpOf(k)
      BY <1>5 DEF UpOf
    <2>2. \A j : UpOf(j)' = UpOf(j) /\ JoiningOf(j)' = JoiningOf(j)
      <3>1. /\ \A j : j # k => UpOf(j)' = UpOf(j) /\ JoiningOf(j)' = {}
            /\ UpOf(k)' = UpOf(k) \ {o} /\ JoiningOf(k)' = {}
            /\ \A j : JoiningOf(j) = {}
        <4>1. \A j : j # k => UpOf(j)' = UpOf(j) /\ JoiningOf(j)' = {}
          BY <1>4, <1>5
        <4>2. \A j : JoiningOf(j) = {}
          BY <1>4, <1>5
        <4>3. UpOf(k)' = UpOf(k) \ {o}
          BY <1>4, <1>5
        <4>4. JoiningOf(k)' = {}
          <5> DEFINE new == "Leaving"
          <5>1. new # "Up" /\ new # "Joining" /\ status' = [status EXCEPT ![o] = new]
            BY <1>5
          <5> HIDE DEF new
          <5> QED BY <1>4, <5>1
        <4> QED BY <4>1, <4>2, <4>3, <4>4
      <3>2. UpOf(k)' = UpOf(k)
        BY <2>1, <3>1
      <3> SUFFICES ASSUME NEW j PROVE UpOf(j)' = UpOf(j) /\ JoiningOf(j)' = JoiningOf(j)
        OBVIOUS
      <3> QED BY <3>1, <3>2
    <2>3. CountInv'
      BY <1>3, <1>5, <2>2 DEF CountInv, SameCrashed
    <2>4. JoinInv'
      BY <1>2, <1>5 DEF JoinInv, TypeOK
    <2> QED BY <1>4, <1>5, <2>3, <2>4
  <1>6. ASSUME NEW v \in Worker, Workers' = Table!Put(Workers, k, v), k \in DOMAIN Workers,
               v.refcount = Cardinality(UpOf(k)'),
               UpOf(k)' \cup JoiningOf(k)' # {},
               \A j : j # k => UpOf(j)' = UpOf(j) /\ JoiningOf(j)' = JoiningOf(j)
        PROVE  CountInv'
    <2>2. /\ DOMAIN Workers' = DOMAIN Workers
          /\ \A j \in DOMAIN Workers' : Workers'[j] = IF j = k THEN v ELSE Workers[j]
      BY <1>6 DEF Table!Put
    <2> SUFFICES ASSUME NEW j \in Procs, ~Crashed(j)'
                 PROVE  /\ j \in DOMAIN Workers' <=> UpOf(j)' \cup JoiningOf(j)' # {}
                        /\ j \in DOMAIN Workers' => Workers'[j].refcount = Cardinality(UpOf(j)')
      BY DEF CountInv
    <2>3. CASE j = k
      BY <1>6, <2>2, <2>3
    <2>4. CASE j # k
      BY <1>3, <1>6, <2>2, <2>4 DEF CountInv, SameCrashed
    <2> QED BY <2>3, <2>4
  <1>7. CASE /\ o \in UpOf(k) /\ UpOf(k) # {o}
             /\ status' = [status EXCEPT ![o] = "Leaving"] /\ holder' = holder
             /\ \E v \in Worker : /\ Workers' = Table!Put(Workers, k, v)
                                  /\ v.refcount = Cardinality(UpOf(k)) - 1
    <2>1. PICK v \in Worker : /\ Workers' = Table!Put(Workers, k, v)
                              /\ v.refcount = Cardinality(UpOf(k)) - 1
      BY <1>7
    <2>2. UpOf(k)' = UpOf(k) \ {o} /\ CrashInv'
          /\ \A j : j # k => UpOf(j)' = UpOf(j) /\ JoiningOf(j)' = JoiningOf(j)
      BY <1>4, <1>7
    <2>3. v.refcount = Cardinality(UpOf(k)')
      BY <1>7, <2>1, <2>2, ObjectsCounted
    <2>4. UpOf(k)' # {} /\ k \in DOMAIN Workers
      BY <1>1, <1>3, <1>7, <2>2 DEF CountInv
    <2>5. CountInv'
      BY <1>6, <2>1, <2>2, <2>3, <2>4
    <2>6. JoinInv'
      BY <1>2, <1>7 DEF JoinInv, TypeOK
    <2> QED BY <2>2, <2>5, <2>6
  <1>8. CASE /\ UpOf(k) = {o}
             /\ status' = [status EXCEPT ![o] = "Joining"] /\ holder' = o
             /\ \E v \in Worker : Workers' = Table!Put(Workers, k, v) /\ v.refcount = 0
    <2>1. PICK v \in Worker : Workers' = Table!Put(Workers, k, v) /\ v.refcount = 0
      BY <1>8
    <2>2. /\ UpOf(k)' = {} /\ JoiningOf(k)' = {o} /\ CrashInv'
          /\ \A j : j # k => UpOf(j)' = UpOf(j) /\ JoiningOf(j)' = JoiningOf(j)
      BY <1>4, <1>8
    <2>3. k \in DOMAIN Workers
      BY <1>1, <1>3, <1>8 DEF CountInv
    <2>4. CountInv'
      BY <1>6, <2>1, <2>2, <2>3, FS_EmptySet
    <2>5. JoinInv'
      <3>1. \A x \in Objs : status'[x] = "Joining" => x = o
        BY <1>2, <1>8 DEF TypeOK
      <3> QED BY <1>8, <2>2, <3>1 DEF JoinInv
    <2> QED BY <2>2, <2>4, <2>5
  <1> QED BY <1>5, <1>7, <1>8, DestroyStep

LEMMA DetachLife ==
    ASSUME TypeOK, TableInv, LifeInv, NEW o \in Objs, status[o] = "Joining", Detach(o)
    PROVE  LifeInv'
  <1> DEFINE k == Proc[o]
  <1> USE DEF LifeInv
  <1>1. SameCrashed /\ ~Crashed(k) /\ k \in Procs /\ Workers' = Table!Without(Workers, k)
    BY DetachStep, SleepersLive, ProcsFinite
  <1>2. \A x \in Objs : status'[x] = IF x = o THEN "Leaving" ELSE status[x]
    BY DEF Detach, TypeOK
  <1>3. UpOf(k) = {} /\ \A x \in Objs : status[x] = "Joining" => x = o
    BY DEF JoinInv
  <1>4. \A j : UpOf(j)' = UpOf(j)
    BY <1>2 DEF UpOf, Detach
  <1>5. /\ JoiningOf(k)' = {}
        /\ \A j : j # k => JoiningOf(j)' = JoiningOf(j)
    BY <1>2, <1>3 DEF JoiningOf
  <1>6. CountInv'
    <2>1. /\ DOMAIN Workers' = DOMAIN Workers \ {k}
          /\ \A j \in DOMAIN Workers' : Workers'[j] = Workers[j]
      BY <1>1 DEF Table!Without
    <2> SUFFICES ASSUME NEW j \in Procs, ~Crashed(j)'
                 PROVE  /\ j \in DOMAIN Workers' <=> UpOf(j)' \cup JoiningOf(j)' # {}
                        /\ j \in DOMAIN Workers' => Workers'[j].refcount = Cardinality(UpOf(j)')
      BY DEF CountInv
    <2>2. CASE j = k
      BY <1>3, <1>4, <1>5, <2>1, <2>2
    <2>3. CASE j # k
      BY <1>1, <1>4, <1>5, <2>1, <2>3 DEF CountInv, SameCrashed
    <2> QED BY <2>2, <2>3
  <1>7. JoinInv'
    BY <1>2, <1>3 DEF JoinInv
  <1>8. CrashInv'
    BY <1>1, <1>2, ProcsFinite DEF CrashInv, SameCrashed
  <1> QED BY <1>6, <1>7, <1>8

LEMMA CrashLife ==
    ASSUME TypeOK, LifeInv, NEW k \in Procs, Crash(k)
    PROVE  LifeInv'
  <1> USE DEF LifeInv
  <1>1. /\ \A x \in Objs : status'[x] = IF Proc[x] = k THEN "Dead" ELSE status[x]
        /\ UNCHANGED <<needworker, holder>> /\ Workers' = Workers
        /\ \A j \in Procs : Crashed(j)' <=> j = k \/ Crashed(j)
    BY DEF Crash, Goto, TypeOK, Crashed, Workers, tableVars
  <1>2. \A j : j # k => UpOf(j)' = UpOf(j) /\ JoiningOf(j)' = JoiningOf(j)
    BY <1>1 DEF UpOf, JoiningOf
  <1>3. CountInv'
    BY <1>1, <1>2 DEF CountInv
  <1>4. JoinInv'
    BY <1>1, <1>2 DEF JoinInv
  <1>5. CrashInv'
    BY <1>1, ProcsFinite DEF CrashInv
  <1> QED BY <1>3, <1>4, <1>5

LEMMA LifeNext == IInv /\ [Next]_vars => LifeInv'
  <1> SUFFICES ASSUME IInv, [Next]_vars PROVE LifeInv'
    OBVIOUS
  <1>0. TypeOK /\ TableInv /\ LifeInv
    BY DEF IInv, LifeInv
  <1>1. UNCHANGED tableVars => SameCounts
    BY DEF SameCounts, Workers, tableVars
  <1>2. UNCHANGED wpc => SameCrashed
    BY DEF SameCrashed, Crashed
  <1>3. ASSUME NEW o \in Objs, NEW msg \in Msgs, AddListen(o, msg) PROVE LifeInv'
    BY <1>0, <1>1, <1>2, <1>3, LifeUnchanged DEF AddListen, workerVars
  <1>4. ASSUME NEW o \in Objs, NEW msg \in Msgs, Notify(o, msg) \/ NotifyPayload(o, msg)
        PROVE  LifeInv'
    <2>1. PICK chosen, slot : Send(chosen, slot)
      <3>1. CASE Notify(o, msg)
        BY <3>1 DEF Notify
      <3>2. CASE NotifyPayload(o, msg)
        BY <3>2, PayloadSent DEF SentWith
      <3> QED BY <1>4, <3>1, <3>2
    <2>2. PICK indices : BroadcastTo(indices)
      BY <2>1 DEF Send
    <2>3. SameCrashed
      BY <1>0, <2>2, BroadcastMovesSleepers, SleepersLive
    <2>4. UNCHANGED <<status, needworker, holder, tableVars>>
      BY <1>4 DEF Notify, NotifyPayload
    <2> QED BY <1>0, <1>1, <2>3, <2>4, LifeUnchanged
  <1>5. ASSUME ProfileAndGC PROVE LifeInv'
    BY <1>0, <1>1, <1>2, <1>5, LifeUnchanged DEF ProfileAndGC, workerVars
  <1>6. ASSUME NEW o \in Objs, Purge(o) PROVE LifeInv'
    <2>1. /\ status[o] = "Leaving" /\ UNCHANGED <<needworker, holder, tableVars, wpc>>
          /\ \A x \in Objs : status'[x] = IF x = o THEN "Gone" ELSE status[x]
      BY <1>0, <1>6 DEF Purge, TypeOK, workerVars
    <2>2. \A j : UpOf(j)' = UpOf(j) /\ JoiningOf(j)' = JoiningOf(j)
      <3>1. \A j : UpOf(j)' = UpOf(j)
        BY <2>1 DEF UpOf
      <3>2. \A j : JoiningOf(j)' = JoiningOf(j)
        BY <2>1 DEF JoiningOf
      <3> QED BY <3>1, <3>2
    <2>3. SameCounts /\ SameCrashed
      BY <1>1, <1>2, <2>1
    <2>4. CountInv'
      BY <1>0, <2>2, <2>3 DEF LifeInv, CountInv, SameCounts, SameCrashed
    <2>5. JoinInv'
      BY <1>0, <2>1, <2>2 DEF LifeInv, JoinInv
    <2>6. CrashInv'
      BY <1>0, <2>1, <2>3, ProcsFinite DEF LifeInv, CrashInv, SameCrashed
    <2> QED BY <2>4, <2>5, <2>6 DEF LifeInv
  <1>7. ASSUME NEW k \in Procs, Start(k) \/ Wait(k) \/ SpuriousWakeup(k) PROVE LifeInv'
    <2>1. SameCrashed
      BY <1>0, <1>7, MovedLives DEF Start, Wait, SpuriousWakeup
    <2> QED BY <1>0, <1>1, <1>7, <2>1, LifeUnchanged DEF Start, Wait, SpuriousWakeup
  <1>8. ASSUME NEW k \in Procs, CheckRunning(k) \/ Deliver(k) PROVE LifeInv'
    <2>1. SameCrashed
      BY <1>0, <1>8 DEF CheckRunning, Deliver, Goto, SameCrashed, Crashed, TypeOK
    <2> QED BY <1>0, <1>1, <1>8, <2>1, LifeUnchanged DEF CheckRunning, Deliver
  <1>9. ASSUME NEW k \in Procs, Drain(k) \/ Updated(k) \/ UpdatedWithData(k) PROVE LifeInv'
    <2>1. wpc[k] # "Crashed" /\ \E mails : NextMail(k, mails)
      BY <1>9 DEF Drain, Updated, UpdatedWithData
    <2>2. SameCrashed
      BY <1>0, <2>1 DEF NextMail, Goto, SameCrashed, Crashed, TypeOK
    <2> QED BY <1>0, <1>1, <1>9, <2>2, LifeUnchanged DEF Drain, Updated, UpdatedWithData
  <1>10. ASSUME NEW k \in Procs, Finish(k) PROVE LifeInv'
    <2>1. SameCrashed
      BY <1>0, <1>10, MovedLives DEF Finish
    <2> QED BY <1>0, <1>10, <2>1, FinishStep, LifeUnchanged DEF Finish
  <1>11. CASE UNCHANGED vars
    BY <1>0, <1>1, <1>2, <1>11, LifeUnchanged DEF vars, tableVars
  <1>12. ASSUME NEW o \in Objs, Join(o) \/ JoinTimeout(o) PROVE LifeInv'
    BY <1>0, <1>12, DetachLife DEF Join, JoinTimeout
  <1> QED
    BY <1>0, <1>3, <1>4, <1>5, <1>6, <1>7, <1>8, <1>9, <1>10, <1>11, <1>12, ConstructLife,
       DestroyLife, CrashLife DEF Next, WorkerStep

LEMMA WorkerNext == IInv /\ [Next]_vars => WorkerInv'
  <1> SUFFICES ASSUME IInv, [Next]_vars PROVE WorkerInv'
    OBVIOUS
  <1> DEFINE delivering == {"Deliver", "Update", "UpdateWithData"}
  <1>0. TypeOK /\ WorkerInv
    BY DEF IInv
  <1>1. ASSUME OnlySleepers(wpc'), UNCHANGED locals PROVE WorkerInv'
    BY <1>0, <1>1 DEF WorkerInv, OnlySleepers
  <1>2. ASSUME UNCHANGED <<wpc, locals>> PROVE WorkerInv'
    BY <1>0, <1>2 DEF WorkerInv
  <1>3. ASSUME NEW k \in Procs, NEW pc, Goto(k, pc), UNCHANGED locals,
               wpc[k] \notin delivering, pc \notin delivering
        PROVE  WorkerInv'
    BY <1>0, <1>3 DEF WorkerInv, Goto, TypeOK
  <1>4. ASSUME NEW o \in Objs, Construct(o) PROVE WorkerInv'
    <2> DEFINE k == Proc[o]
    <2>1. k \in Procs /\ UNCHANGED locals
      BY <1>4, ProcsFinite DEF Construct
    <2>2. \/ UNCHANGED wpc
          \/ /\ wpc[k] = "Exited" /\ wpc'[k] = "Start"
             /\ wpc' \in [Procs -> Pcs] /\ OnlySleepers([wpc' EXCEPT ![k] = "Exited"])
      BY <1>0, <1>4, <2>1, AttachStep DEF Construct, IInv
    <2>3. CASE wpc[k] = "Exited" /\ wpc'[k] = "Start" /\ wpc' \in [Procs -> Pcs]
               /\ OnlySleepers([wpc' EXCEPT ![k] = "Exited"])
      BY <1>0, <2>1, <2>3 DEF WorkerInv, OnlySleepers
    <2> QED BY <1>2, <2>1, <2>2, <2>3
  <1>5. ASSUME NEW o \in Objs, NEW msg \in Msgs, AddListen(o, msg) PROVE WorkerInv'
    BY <1>2, <1>5 DEF AddListen, workerVars
  <1>6. ASSUME NEW o \in Objs, NEW msg \in Msgs, Notify(o, msg) \/ NotifyPayload(o, msg)
        PROVE  WorkerInv'
    <2>1. PICK chosen, slot : Send(chosen, slot)
      <3>1. CASE Notify(o, msg)
        BY <3>1 DEF Notify
      <3>2. CASE NotifyPayload(o, msg)
        BY <3>2, PayloadSent DEF SentWith
      <3> QED BY <1>6, <3>1, <3>2
    <2>2. PICK indices : BroadcastTo(indices)
      BY <2>1 DEF Send
    <2>3. UNCHANGED locals
      BY <1>6 DEF Notify, NotifyPayload
    <2> QED BY <1>0, <1>1, <2>2, <2>3, BroadcastMovesSleepers
  <1>7. ASSUME ProfileAndGC PROVE WorkerInv'
    BY <1>2, <1>7 DEF ProfileAndGC, workerVars
  <1>8. ASSUME NEW o \in Objs, BeginDestroy(o) PROVE WorkerInv'
    <2>1. OnlySleepers(wpc')
      BY <1>8, DestroyStep DEF IInv
    <2> QED BY <1>1, <1>8, <2>1 DEF BeginDestroy
  <1>9. ASSUME NEW o \in Objs, Join(o) \/ JoinTimeout(o) PROVE WorkerInv'
    <2>1. Detach(o)
      BY <1>9 DEF Join, JoinTimeout
    <2> QED BY <1>0, <1>1, <2>1, DriftMovesSleepers DEF Detach
  <1>10. ASSUME NEW o \in Objs, Purge(o) PROVE WorkerInv'
    BY <1>2, <1>10 DEF Purge, workerVars
  <1>11. ASSUME NEW k \in Procs, Start(k) PROVE WorkerInv'
    BY <1>3, <1>11 DEF Start
  <1>12. ASSUME NEW k \in Procs, CheckRunning(k) PROVE WorkerInv'
    <2>1. wpc[k] \notin delivering /\ UNCHANGED locals
      BY <1>12 DEF CheckRunning
    <2>2. \E pc \in {"Finish", "Wait", "Drain"} : Goto(k, pc)
      BY <1>12 DEF CheckRunning
    <2> QED BY <1>3, <2>1, <2>2
  <1>13. ASSUME NEW k \in Procs, Wait(k) \/ SpuriousWakeup(k) \/ Finish(k) PROVE WorkerInv'
    BY <1>3, <1>13 DEF Wait, SpuriousWakeup, Finish
  <1>14. ASSUME NEW k \in Procs, NEW mails, NextMail(k, mails) PROVE WorkerInv'
    <2>1. \A j \in Procs : /\ locals'[j] = IF j = k THEN mails ELSE locals[j]
                           /\ wpc'[j] = IF j = k THEN IF mails = <<>> THEN "Check" ELSE "Deliver"
                                        ELSE wpc[j]
      BY <1>0, <1>14 DEF NextMail, Goto, TypeOK
    <2> QED BY <1>0, <2>1 DEF WorkerInv
  <1>15. ASSUME NEW k \in Procs, Drain(k) \/ Updated(k) \/ UpdatedWithData(k) PROVE WorkerInv'
    BY <1>14, <1>15 DEF Drain, Updated, UpdatedWithData
  <1>16. ASSUME NEW k \in Procs, Deliver(k) PROVE WorkerInv'
    <2> DEFINE m == Head(locals[k])
    <2>1. /\ wpc[k] = "Deliver" /\ UNCHANGED locals
          /\ wpc' = [wpc EXCEPT ![k] = IF HasPayload(k, m) THEN "UpdateWithData" ELSE "Update"]
      BY <1>16 DEF Deliver, Goto
    <2>2. HasPayload(k, m) => m.slot # None
      BY DEF HasPayload
    <2> HIDE DEF m
    <2>3. /\ wpc'[k] \in {"Update", "UpdateWithData"}
          /\ wpc'[k] = "UpdateWithData" => m.slot # None
          /\ \A j \in Procs \ {k} : wpc'[j] = wpc[j]
      BY <1>0, <2>1, <2>2 DEF TypeOK
    <2> QED BY <1>0, <2>1, <2>3 DEF WorkerInv, m
  <1>17. ASSUME NEW k \in Procs, Crash(k) PROVE WorkerInv'
    BY <1>0, <1>17 DEF Crash, Goto, WorkerInv, TypeOK
  <1>18. CASE UNCHANGED vars
    BY <1>2, <1>18 DEF vars
  <1> QED
    BY <1>4, <1>5, <1>6, <1>7, <1>8, <1>9, <1>10, <1>11, <1>12, <1>13, <1>15, <1>16, <1>17, <1>18
    DEF Next, WorkerStep

LEMMA IInvInit == Init => IInv
  <1> SUFFICES ASSUME Init PROVE IInv
    OBVIOUS
  <1>1. /\ status = [o \in Objs |-> "Gone"] /\ needworker = [o \in Objs |-> FALSE]
        /\ holder = None /\ proptr = 0 /\ listen = <<>> /\ queue = <<>>
        /\ payload = [s \in PayloadSlots |-> FreePayload]
        /\ self = [k \in Procs |-> None] /\ wpc = [k \in Procs |-> "Exited"]
        /\ p = [k \in Procs |-> 0] /\ locals = [k \in Procs |-> <<>>]
        /\ protbl = [i \in 0 .. ProMax - 1 |->
               [key |-> 0, value |-> [refcount |-> 0, running |-> FALSE, worker_done |-> FALSE]]]
    BY DEF Init
  <1>2. protbl \in [0 .. ProMax - 1 -> Entry]
    BY <1>1 DEF Entry
  <1>3. payload \in [PayloadSlots -> Payload]
    BY <1>1 DEF Payload, FreePayload
  <1>4. TypeOK
    <2>1. listen \in Seq([msg : Msgs, obj : Objs]) /\ Len(listen) = 0
          /\ queue \in Seq(Mail) /\ Len(queue) = 0
      BY <1>1, EmptySeq
    <2>2. locals \in [Procs -> Seq(Mail)]
      BY <1>1, EmptySeq
    <2>3. p \in [Procs -> 0 .. ProMax - 1] /\ proptr \in 0 .. ProMax
      BY <1>1, ProcsFinite
    <2>4. Len(listen) <= ListenMax /\ Len(queue) <= QueueMax
      BY <2>1, SharedAssumption
    <2>5. /\ status \in [Objs -> {"Gone", "Up", "Joining", "Leaving", "Dead"}]
          /\ needworker \in [Objs -> BOOLEAN] /\ holder \in Objs \cup {None}
          /\ self \in [Procs -> Objs \cup {None}] /\ wpc \in [Procs -> Pcs]
      BY <1>1 DEF Pcs
    <2> QED BY <1>2, <1>3, <2>1, <2>2, <2>3, <2>4, <2>5 DEF TypeOK, Pcs
  <1>5. TableInv /\ DOMAIN Workers = {}
    <2>1. Known(protbl, proptr) = {}
      BY <1>1 DEF Known, Table!KeysOf
    <2>2. Table!Sorted(protbl, proptr)
      <3>1. \A i \in 0 .. proptr - 1 : FALSE
        BY <1>1
      <3> QED BY <3>1 DEF Table!Sorted
    <2>3. protbl \in Tables /\ proptr \in 0 .. ProMax
      <3>1. proptr \in 0 .. ProMax
        BY <1>1, ProcsFinite
      <3>2. protbl \in Tables
        BY <1>2, TableTypes
      <3> QED BY <3>1, <3>2
    <2> QED BY <2>1, <2>2, <2>3, TableTypes DEF TableInv, TableOK
  <1>6. \A k : UpOf(k) = {} /\ JoiningOf(k) = {}
    BY <1>1 DEF UpOf, JoiningOf
  <1>7. CountInv
    BY <1>5, <1>6 DEF CountInv
  <1>8. JoinInv /\ CrashInv /\ WorkerInv
    BY <1>1, ProcsFinite DEF JoinInv, CrashInv, WorkerInv, Crashed
  <1>9. ListenInv
    BY <1>1, EmptySeq DEF ListenInv
  <1> QED BY <1>4, <1>5, <1>7, <1>8, <1>9 DEF IInv

LEMMA IInvNext == IInv /\ [Next]_vars => IInv'
  BY ShapeNext, LifeNext, WorkerNext DEF IInv, LifeInv

LEMMA AlwaysIInv == Spec => []IInv
  BY IInvInit, IInvNext, PTL DEF Spec

(* The types: among them that listen_, the queue and the worker table stay *)
(* within their capacities, and that workers point into the table.         *)
THEOREM TypeCorrect == Spec => []TypeOK
  <1>1. IInv => TypeOK
    BY DEF IInv
  <1> QED BY <1>1, AlwaysIInv, PTL

(* For any number of processes and objects, each process's entry counts    *)
(* its objects that listen, however entries are moved.                     *)
THEOREM CountsRight == Spec => []EntryCountsObjects
  <1>1. IInv => EntryCountsObjects
    <2> SUFFICES ASSUME IInv, NEW k \in Procs, ~Crashed(k)
                 PROVE  LET up == {o \in Objs : Proc[o] = k /\ needworker[o] /\ status[o] = "Up"}
                            joining == {o \in Objs : Proc[o] = k /\ status[o] = "Joining"}
                            i == Map!FindIndex(k)
                        IN  /\ i >= 0 <=> up \cup joining # {}
                            /\ i >= 0 => protbl[i].value.refcount = Cardinality(up)
      BY DEF EntryCountsObjects
    <2> DEFINE i == Map!FindIndex(k)
    <2>1. /\ k \in DOMAIN Workers <=> i >= 0
          /\ i >= 0 => Workers[k] = protbl[i].value
      BY EntryOf DEF IInv
    <2>2. /\ k \in DOMAIN Workers <=> UpOf(k) \cup JoiningOf(k) # {}
          /\ k \in DOMAIN Workers => Workers[k].refcount = Cardinality(UpOf(k))
      BY DEF IInv, CountInv
    <2> HIDE DEF i
    <2>3. /\ i >= 0 <=> UpOf(k) \cup JoiningOf(k) # {}
          /\ i >= 0 => protbl[i].value.refcount = Cardinality(UpOf(k))
      BY <2>1, <2>2
    <2> QED BY <2>3 DEF i, UpOf, JoiningOf
  <1> QED BY <1>1, AlwaysIInv, PTL

(* Whatever the addresses, the binary search and the scan after it find    *)
(* every listener of the message that is at another address than the       *)
(* sender, and nobody else.                                                *)
THEOREM NotifySearchRight == Spec => []NotifyFindsListeners
  <1>1. IInv => NotifyFindsListeners
    <2> SUFFICES ASSUME IInv, NEW from \in Objs, NEW msg \in Msgs
                 PROVE  {listen[i] : i \in Targets(from, msg)}
                            = {l \in Range(listen) : l.msg = msg /\ Addr[l.obj] # Addr[from]}
      BY DEF NotifyFindsListeners
    <2>1. listen \in Seq(Listener) /\ ListenInv /\ DOMAIN listen = 1 .. Len(listen)
      BY LenProperties DEF IInv, TypeOK, Listener
    <2>2. Targets(from, msg) = {i \in 1 .. Len(listen) :
                                    listen[i].msg = msg /\ Addr[listen[i].obj] # Addr[from]}
      BY <2>1, TargetsFound
    <2> QED BY <2>1, <2>2 DEF Range
  <1> QED BY <1>1, AlwaysIInv, PTL

-----------------------------------------------------------------------------
(* The owners of payload slots.                                            *)

Holds(m) == m.slot # None =>
    payload[m.slot] = [state |-> "Unread", msg |-> m.msg, to |-> Proc[m.obj]]
Shared(m, n) == m.slot # None /\ n.slot = m.slot

(* SlotsOwned, queue by queue.                                             *)
SlotInv ==
    /\ \A i \in DOMAIN queue : Holds(queue[i])
    /\ \A k \in Procs : \A i \in DOMAIN locals[k] : Holds(locals[k][i])
    /\ \A i, j \in DOMAIN queue : Shared(queue[i], queue[j]) => i = j
    /\ \A i \in DOMAIN queue, k \in Procs : \A j \in DOMAIN locals[k] :
           ~Shared(queue[i], locals[k][j])
    /\ \A k, l \in Procs : \A i \in DOMAIN locals[k], j \in DOMAIN locals[l] :
           Shared(locals[k][i], locals[l][j]) => k = l /\ i = j

LEMMA SlotInvOwns == SlotInv => SlotsOwned
  <1> SUFFICES ASSUME SlotInv, NEW x \in Undelivered, NEW y \in Undelivered,
                      MailAt(x).slot # None
               PROVE  /\ Holds(MailAt(x))
                      /\ MailAt(y).slot = MailAt(x).slot => x = y
    BY DEF SlotsOwned, Holds
  <1>0. 0 \notin Procs
    BY ProcsFinite
  <1>1. ASSUME NEW z \in Undelivered
        PROVE  \/ \E i \in DOMAIN queue : z = <<0, i>> /\ MailAt(z) = queue[i]
               \/ \E k \in Procs : \E i \in DOMAIN locals[k] :
                      z = <<k, i>> /\ MailAt(z) = locals[k][i]
    <2>1. CASE z \in {0} \X DOMAIN queue
      BY <2>1 DEF MailAt
    <2>2. CASE z \in UNION {{k} \X DOMAIN locals[k] : k \in Procs}
      BY <1>0, <2>2 DEF MailAt
    <2> QED BY <2>1, <2>2 DEF Undelivered
  <1>2. CASE \E i \in DOMAIN queue : x = <<0, i>> /\ MailAt(x) = queue[i]
    <2>1. PICK i \in DOMAIN queue : x = <<0, i>> /\ MailAt(x) = queue[i]
      BY <1>2
    <2> QED BY <1>1, <2>1 DEF SlotInv, Shared
  <1>3. CASE \E k \in Procs : \E i \in DOMAIN locals[k] :
                 x = <<k, i>> /\ MailAt(x) = locals[k][i]
    <2>1. PICK k \in Procs : \E i \in DOMAIN locals[k] : x = <<k, i>> /\ MailAt(x) = locals[k][i]
      BY <1>3
    <2>2. PICK i \in DOMAIN locals[k] : x = <<k, i>> /\ MailAt(x) = locals[k][i]
      BY <2>1
    <2>3. CASE \E j \in DOMAIN queue : y = <<0, j>> /\ MailAt(y) = queue[j]
      BY <2>2, <2>3 DEF SlotInv, Shared
    <2>4. CASE \E l \in Procs : \E j \in DOMAIN locals[l] :
                   y = <<l, j>> /\ MailAt(y) = locals[l][j]
      BY <2>2, <2>4 DEF SlotInv, Shared
    <2> QED BY <1>1, <2>3, <2>4
  <1> QED BY <1>1, <1>2, <1>3

LEMMA SlotNext == IInv /\ IInv' /\ SlotInv /\ [Next]_vars => SlotInv'
  <1> SUFFICES ASSUME IInv, IInv', SlotInv, [Next]_vars PROVE SlotInv'
    OBVIOUS
  <1>0. /\ DOMAIN queue = 1 .. Len(queue) /\ DOMAIN queue' = 1 .. Len(queue')
        /\ Len(queue) \in Nat /\ Len(queue') \in Nat /\ queue \in Seq(Mail)
        /\ listen \in Seq(Listener) /\ ListenInv
        /\ \A i \in DOMAIN queue : queue[i].slot \in PayloadSlots \cup {None}
    <2>1. queue \in Seq(Mail) /\ queue' \in Seq(Mail) /\ listen \in Seq(Listener) /\ ListenInv
      BY DEF IInv, TypeOK, Listener
    <2>2. \A i \in DOMAIN queue : queue[i] \in Mail
      BY <2>1
    <2> QED BY <2>1, <2>2, LenProperties DEF Mail
  <1>00. \A k \in Procs : /\ locals[k] \in Seq(Mail) /\ Len(locals[k]) \in Nat
                          /\ DOMAIN locals[k] = 1 .. Len(locals[k])
    BY LenProperties DEF IInv, TypeOK
  <1>1. ASSUME UNCHANGED <<queue, payload, locals>> PROVE SlotInv'
    BY <1>1 DEF SlotInv, Holds
  <1>2. ASSUME UNCHANGED <<queue, locals>>,
               \A s \in PayloadSlots : payload[s].state = "Unread" => payload'[s] = payload[s]
        PROVE  SlotInv'
    <2>1. ASSUME NEW m, m.slot \in PayloadSlots \cup {None}, Holds(m) PROVE Holds(m)'
      BY <1>2, <2>1 DEF Holds
    <2>2. \A k \in Procs : \A i \in DOMAIN locals[k] :
              locals[k][i].slot \in PayloadSlots \cup {None}
      <3> SUFFICES ASSUME NEW k \in Procs, NEW i \in DOMAIN locals[k]
                   PROVE  locals[k][i].slot \in PayloadSlots \cup {None}
        OBVIOUS
      <3>1. locals[k][i] \in Mail
        BY <1>00, ElementOfSeq
      <3> QED BY <3>1 DEF Mail
    <2>3. \A i \in DOMAIN queue : Holds(queue[i])'
      BY <1>0, <1>2, <2>1 DEF SlotInv
    <2>4. \A k \in Procs : \A i \in DOMAIN locals[k] : Holds(locals[k][i])'
      BY <1>2, <2>1, <2>2 DEF SlotInv
    <2> QED BY <1>2, <2>3, <2>4 DEF SlotInv
  (* Mails of the queue are rearranged, dropped, or taken by one worker.   *)
  <1>3. ASSUME NEW I \in SUBSET DOMAIN queue, NEW o, ArrangedBy(queue', I, o),
               UNCHANGED <<payload, locals>>
        PROVE  SlotInv'
    <2>1. /\ \A i \in DOMAIN queue' : o[i] \in DOMAIN queue /\ queue'[i] = queue[o[i]]
          /\ \A i, j \in DOMAIN queue' : o[i] = o[j] => i = j
      BY <1>0, <1>3 DEF ArrangedBy
    <2> QED BY <1>3, <2>1 DEF SlotInv, Holds
  <1>4. ASSUME NEW I \in SUBSET DOMAIN queue, NEW o, ArrangedBy(queue', DOMAIN queue \ I, o),
               NEW mails, NEW u, ArrangedBy(mails, I, u),
               NEW k \in Procs, locals' = [locals EXCEPT ![k] = mails], UNCHANGED payload
        PROVE  SlotInv'
    <2>1. /\ \A i \in DOMAIN queue' : /\ o[i] \in DOMAIN queue /\ o[i] \notin I
                                      /\ queue'[i] = queue[o[i]]
          /\ \A i, j \in DOMAIN queue' : o[i] = o[j] => i = j
      BY <1>0, <1>4 DEF ArrangedBy
    <2>2. /\ \A i \in DOMAIN mails : u[i] \in DOMAIN queue /\ u[i] \in I /\ mails[i] = queue[u[i]]
          /\ \A i, j \in DOMAIN mails : u[i] = u[j] => i = j
      BY <1>4, LenProperties DEF ArrangedBy
    <2>3. locals'[k] = mails /\ \A l \in Procs : l # k => locals'[l] = locals[l]
      BY <1>4 DEF IInv, TypeOK
    <2>4. \A i \in DOMAIN queue' : Holds(queue[i])'
      BY <1>4, <2>1 DEF SlotInv, Holds
    <2>5. \A l \in Procs : \A i \in DOMAIN locals'[l] : Holds(locals[l][i])'
      BY <1>4, <2>2, <2>3 DEF SlotInv, Holds
    <2>6. \A i, j \in DOMAIN queue' : Shared(queue'[i], queue'[j]) => i = j
      BY <2>1 DEF SlotInv
    <2>7. \A i \in DOMAIN queue', l \in Procs : \A j \in DOMAIN locals'[l] :
              ~Shared(queue'[i], locals'[l][j])
      BY <2>1, <2>2, <2>3 DEF SlotInv
    <2>8. \A h, l \in Procs : \A i \in DOMAIN locals'[h], j \in DOMAIN locals'[l] :
              Shared(locals'[h][i], locals'[l][j]) => h = l /\ i = j
      <3>1. \A i, j : Shared(i, j) => Shared(j, i)
        BY DEF Shared
      <3> QED BY <2>2, <2>3, <3>1 DEF SlotInv
    <2> QED BY <2>4, <2>5, <2>6, <2>7, <2>8 DEF SlotInv, Shared
  (* One worker's mails lose the first one, or all.                        *)
  <1>5. ASSUME NEW k \in Procs, UNCHANGED queue,
               \A l \in Procs : l # k => locals'[l] = locals[l],
               \/ locals'[k] = <<>>
               \/ locals[k] # <<>> /\ locals'[k] = Tail(locals[k]),
               \/ UNCHANGED payload
               \/ /\ locals[k] # <<>> /\ locals'[k] = Tail(locals[k])
                  /\ Head(locals[k]).slot # None
                  /\ \A s \in PayloadSlots :
                         s # Head(locals[k]).slot => payload'[s] = payload[s]
        PROVE  SlotInv'
    <2>1. \A i \in DOMAIN locals'[k] : /\ i + 1 \in DOMAIN locals[k] /\ i \in Nat \ {0}
                                       /\ locals'[k][i] = locals[k][i + 1]
      <3>1. CASE locals'[k] = <<>>
        BY <3>1
      <3>2. CASE locals[k] # <<>> /\ locals'[k] = Tail(locals[k])
        <4>1. /\ Tail(locals[k]) \in Seq(Mail) /\ Len(Tail(locals[k])) = Len(locals[k]) - 1
              /\ \A i \in 1 .. Len(Tail(locals[k])) : Tail(locals[k])[i] = locals[k][i + 1]
          BY <1>00, <3>2, HeadTailProperties
        <4>2. DOMAIN locals'[k] = 1 .. Len(locals[k]) - 1
          BY <3>2, <4>1, LenProperties
        <4> QED BY <1>00, <3>2, <4>1, <4>2
      <3> QED BY <1>5, <3>1, <3>2
    <2>2. ASSUME NEW m, NEW s \in PayloadSlots, m.slot = s, Holds(m),
                 payload'[s] = payload[s]
          PROVE  Holds(m)'
      BY <2>2 DEF Holds
    <2>3. CASE UNCHANGED payload
      <3>1. \A i \in DOMAIN queue' : Holds(queue[i])'
        BY <1>5, <2>3 DEF SlotInv, Holds
      <3>2. ASSUME NEW l \in Procs, NEW i \in DOMAIN locals'[l] PROVE Holds(locals[l][i])'
        <4>1. PICK j \in DOMAIN locals[l] : locals'[l][i] = locals[l][j]
          BY <1>5, <2>1
        <4>2. Holds(locals[l][j])
          BY DEF SlotInv
        <4> QED BY <2>3, <4>1, <4>2 DEF Holds
      <3>3. \A i \in DOMAIN queue', l \in Procs : \A j \in DOMAIN locals'[l] :
                ~Shared(queue'[i], locals'[l][j])
        BY <1>5, <2>1 DEF SlotInv
      <3>4. \A h, l \in Procs : \A i \in DOMAIN locals'[h], j \in DOMAIN locals'[l] :
                Shared(locals'[h][i], locals'[l][j]) => h = l /\ i = j
        BY <1>5, <2>1 DEF SlotInv
      <3> QED BY <1>5, <3>1, <3>2, <3>3, <3>4 DEF SlotInv, Shared
    <2>4. CASE /\ locals[k] # <<>> /\ locals'[k] = Tail(locals[k])
               /\ Head(locals[k]).slot # None
               /\ \A s \in PayloadSlots : s # Head(locals[k]).slot => payload'[s] = payload[s]
      <3> DEFINE h == locals[k][1]
      <3>1. h = Head(locals[k]) /\ 1 \in DOMAIN locals[k] /\ h.slot # None
        BY <1>00, <2>4
      <3>2. \A i \in DOMAIN queue : queue[i].slot # h.slot
        BY <3>1 DEF SlotInv, Shared
      <3>3. \A l \in Procs : \A i \in DOMAIN locals'[l] : locals'[l][i].slot # h.slot
        BY <1>5, <2>1, <3>1 DEF SlotInv, Shared
      <3>4. ASSUME NEW m \in Mail, m.slot # h.slot, Holds(m) PROVE Holds(m)'
        BY <2>4, <3>1, <3>4 DEF Holds, Mail
      <3>5. ASSUME NEW i \in DOMAIN queue' PROVE Holds(queue[i])'
        <4>1. /\ queue'[i] = queue[i] /\ queue[i] \in Mail
              /\ queue[i].slot # h.slot /\ Holds(queue[i])
          BY <1>0, <1>5, <3>2, ElementOfSeq DEF SlotInv
        <4> QED BY <2>4, <3>1, <4>1 DEF Holds, Mail
      <3>6. ASSUME NEW l \in Procs, NEW i \in DOMAIN locals'[l] PROVE Holds(locals[l][i])'
        <4>1. PICK j \in DOMAIN locals[l] : locals'[l][i] = locals[l][j]
          BY <1>5, <2>1
        <4>2. /\ locals'[l][i] \in Mail /\ locals'[l][i].slot # h.slot
              /\ Holds(locals[l][j])
          BY <1>00, <3>3, <4>1, ElementOfSeq DEF SlotInv
        <4> QED BY <2>4, <3>1, <4>1, <4>2 DEF Holds, Mail
      <3>7. \A i \in DOMAIN queue', l \in Procs : \A j \in DOMAIN locals'[l] :
                ~Shared(queue'[i], locals'[l][j])
        BY <1>5, <2>1 DEF SlotInv
      <3>8. \A g, l \in Procs : \A i \in DOMAIN locals'[g], j \in DOMAIN locals'[l] :
                Shared(locals'[g][i], locals'[l][j]) => g = l /\ i = j
        BY <1>5, <2>1 DEF SlotInv
      <3> QED BY <1>5, <3>5, <3>6, <3>7, <3>8 DEF SlotInv, Shared
    <2> QED BY <1>5, <2>3, <2>4
  (* Mails are pushed, without slots or with slots that nobody owned.      *)
  <1>6. ASSUME NEW chosen \in SUBSET DOMAIN listen, NEW slot, NEW order,
               Pushed(chosen, slot, order), UNCHANGED locals,
               \A s \in PayloadSlots : payload[s].state = "Unread" => payload'[s] = payload[s],
               \A i, j \in chosen : slot[i] = slot[j] /\ slot[i] # None => i = j,
               \A i \in chosen : slot[i] # None =>
                   /\ slot[i] \in PayloadSlots /\ payload[slot[i]].state # "Unread"
                   /\ payload'[slot[i]] = [state |-> "Unread", msg |-> listen[i].msg,
                                           to |-> Proc[listen[i].obj]]
        PROVE  SlotInv'
    <2>1. ASSUME NEW i \in DOMAIN queue'
          PROVE  \/ i \in DOMAIN queue /\ queue'[i] = queue[i]
                 \/ /\ i - Len(queue) \in 1 .. Cardinality(chosen)
                    /\ order[i - Len(queue)] \in chosen
                    /\ LET l == order[i - Len(queue)] IN
                       queue'[i] = [msg |-> listen[l].msg, obj |-> listen[l].obj, slot |-> slot[l]]
      <3>1. CASE i <= Len(queue)
        BY <1>0, <1>6, <3>1 DEF Pushed
      <3>2. CASE i > Len(queue)
        <4>1. /\ Cardinality(chosen) \in Nat /\ Len(queue') = Len(queue) + Cardinality(chosen)
              /\ i \in 1 .. Len(queue')
          BY <1>0, <1>6 DEF Pushed
        <4>2. i \in Len(queue) + 1 .. Len(queue') /\ i - Len(queue) \in 1 .. Cardinality(chosen)
          BY <1>0, <3>2, <4>1
        <4> QED BY <1>6, <4>2 DEF Pushed
      <3> QED BY <1>0, <3>1, <3>2
    <2>2. ASSUME NEW m \in Mail, Holds(m), m.slot # None
          PROVE  m.slot \in PayloadSlots /\ payload[m.slot].state = "Unread" /\ Holds(m)'
      BY <1>6, <2>2 DEF Holds, Mail
    <2> DEFINE New(i) == /\ i - Len(queue) \in 1 .. Cardinality(chosen)
                         /\ order[i - Len(queue)] \in chosen
                         /\ LET l == order[i - Len(queue)] IN
                            queue'[i] = [msg |-> listen[l].msg, obj |-> listen[l].obj,
                                         slot |-> slot[l]]
    <2>3. \A i \in DOMAIN queue : queue[i] \in Mail /\ Holds(queue[i])
      BY <1>0, ElementOfSeq DEF SlotInv
    <2>4. \A k \in Procs : \A i \in DOMAIN locals[k] : locals[k][i] \in Mail /\ Holds(locals[k][i])
      BY <1>00, ElementOfSeq DEF SlotInv
    <2>5. ASSUME NEW i \in DOMAIN queue', New(i), queue'[i].slot # None
          PROVE  /\ queue'[i].slot \in PayloadSlots
                 /\ payload[queue'[i].slot].state # "Unread" /\ Holds(queue[i])'
      <3> DEFINE l == order[i - Len(queue)]
      <3>1. /\ l \in chosen /\ queue'[i].msg = listen[l].msg /\ queue'[i].obj = listen[l].obj
            /\ queue'[i].slot = slot[l]
        BY <2>5
      <3> HIDE DEF l
      <3> QED BY <1>6, <2>5, <3>1 DEF Holds
    <2>6. ASSUME NEW i \in DOMAIN queue', NEW j \in DOMAIN queue', New(i), New(j),
                 Shared(queue'[i], queue'[j])
          PROVE  i = j
      <3>1. order[i - Len(queue)] = order[j - Len(queue)]
        BY <1>6, <2>6 DEF Shared
      <3>2. i - Len(queue) = j - Len(queue)
        BY <1>6, <2>6, <3>1 DEF Pushed
      <3> QED BY <1>0, <3>2
    <2>7. ASSUME NEW i \in DOMAIN queue' PROVE Holds(queue[i])'
      <3>1. CASE i \in DOMAIN queue /\ queue'[i] = queue[i]
        <4>1. queue[i] \in Mail /\ Holds(queue[i])
          BY <2>3, <3>1
        <4>2. queue[i].slot # None => payload'[queue[i].slot] = payload[queue[i].slot]
          BY <1>6, <4>1 DEF Holds, Mail
        <4> QED BY <3>1, <4>1, <4>2 DEF Holds
      <3>2. CASE New(i)
        <4>1. CASE queue'[i].slot = None
          BY <4>1 DEF Holds
        <4>2. CASE queue'[i].slot # None
          BY <2>5, <3>2, <4>2
        <4> QED BY <4>1, <4>2
      <3> QED BY <2>1, <3>1, <3>2
    <2>8. ASSUME NEW k \in Procs, NEW i \in DOMAIN locals'[k] PROVE Holds(locals[k][i])'
      <3>1. locals'[k][i] = locals[k][i] /\ locals[k][i] \in Mail /\ Holds(locals[k][i])
        BY <1>6, <2>4
      <3>2. locals[k][i].slot # None => payload'[locals[k][i].slot] = payload[locals[k][i].slot]
        BY <1>6, <3>1 DEF Holds, Mail
      <3> QED BY <3>1, <3>2 DEF Holds
    <2> HIDE DEF New
    <2>9. \A i \in DOMAIN queue' :
              \/ i \in DOMAIN queue /\ queue'[i] = queue[i]
              \/ New(i)
      BY <2>1 DEF New
    <2>10. \A m, n : Shared(m, n) => Shared(n, m) /\ m.slot # None /\ n.slot = m.slot
      BY DEF Shared
    <2>11. \A i, j \in DOMAIN queue' : Shared(queue'[i], queue'[j]) => i = j
      <3> SUFFICES ASSUME NEW i \in DOMAIN queue', NEW j \in DOMAIN queue',
                          Shared(queue'[i], queue'[j])
                   PROVE  i = j
        OBVIOUS
      <3>1. CASE /\ i \in DOMAIN queue /\ queue'[i] = queue[i]
                 /\ j \in DOMAIN queue /\ queue'[j] = queue[j]
        BY <3>1 DEF SlotInv
      <3>2. CASE New(i) /\ New(j)
        BY <2>6, <3>2
      <3>3. CASE (i \in DOMAIN queue /\ queue'[i] = queue[i]) /\ New(j)
        BY <2>2, <2>3, <2>5, <2>10, <3>3
      <3>4. CASE New(i) /\ (j \in DOMAIN queue /\ queue'[j] = queue[j])
        BY <2>2, <2>3, <2>5, <2>10, <3>4
      <3> QED BY <2>9, <3>1, <3>2, <3>3, <3>4
    <2>12. \A i \in DOMAIN queue', k \in Procs : \A j \in DOMAIN locals'[k] :
               ~Shared(queue'[i], locals'[k][j])
      <3> SUFFICES ASSUME NEW i \in DOMAIN queue', NEW k \in Procs, NEW j \in DOMAIN locals'[k],
                          Shared(queue'[i], locals'[k][j])
                   PROVE  FALSE
        OBVIOUS
      <3>1. locals'[k] = locals[k] /\ locals[k][j] \in Mail /\ Holds(locals[k][j])
        BY <1>6, <2>4
      <3>2. CASE i \in DOMAIN queue /\ queue'[i] = queue[i]
        BY <3>1, <3>2 DEF SlotInv
      <3>3. CASE New(i)
        BY <2>2, <2>5, <2>10, <3>1, <3>3
      <3> QED BY <2>9, <3>2, <3>3
    <2> QED BY <1>6, <2>7, <2>8, <2>11, <2>12 DEF SlotInv, Shared
  <1>7. ASSUME NEW o \in Objs, \/ Construct(o) \/ BeginDestroy(o) \/ Join(o) \/ JoinTimeout(o)
        PROVE  SlotInv'
    BY <1>1, <1>7 DEF Construct, BeginDestroy, Join, JoinTimeout, Detach, mailVars
  <1>8. ASSUME NEW o \in Objs, NEW msg \in Msgs, AddListen(o, msg) PROVE SlotInv'
    BY <1>1, <1>8 DEF AddListen, workerVars
  <1>9. ASSUME NEW k \in Procs,
               \/ Start(k) \/ CheckRunning(k) \/ Wait(k)
               \/ SpuriousWakeup(k) \/ Deliver(k) \/ Finish(k)
        PROVE  SlotInv'
    BY <1>1, <1>9 DEF Start, CheckRunning, Wait, SpuriousWakeup, Deliver, Finish, mailVars
  <1>10. CASE UNCHANGED vars
    BY <1>1, <1>10 DEF vars
  <1>11. ASSUME ProfileAndGC PROVE SlotInv'
    <2>1. PICK old \in SUBSET SlotsIn("Processed") :
              payload' = [s \in PayloadSlots |-> IF s \in old THEN FreePayload ELSE payload[s]]
      BY <1>11 DEF ProfileAndGC
    <2>2. \A s \in old : payload[s].state = "Processed"
      BY DEF SlotsIn
    <2>3. \A s \in PayloadSlots : payload[s].state = "Unread" => payload'[s] = payload[s]
      BY <2>1, <2>2
    <2> QED BY <1>2, <1>11, <2>3 DEF ProfileAndGC, workerVars
  <1>12. ASSUME NEW o \in Objs, Purge(o) PROVE SlotInv'
    <2>1. UNCHANGED <<payload, locals>>
      BY <1>12 DEF Purge, workerVars
    <2>2. CASE needworker[o]
      <3> DEFINE I == {i \in DOMAIN queue : Addr[queue[i].obj] # Addr[o]}
      <3>1. queue' \in Arranged(SortedByMsg(I)) /\ I \in SUBSET DOMAIN queue
        BY <1>12, <2>2 DEF Purge
      <3> HIDE DEF I
      <3>2. PICK order : ArrangedBy(queue', I, order)
        BY <1>0, <3>1, SortedIsAnOrder, ArrangedMails
      <3> QED BY <1>3, <2>1, <3>1, <3>2
    <2>3. CASE ~needworker[o]
      BY <1>1, <1>12, <2>1, <2>3 DEF Purge
    <2> QED BY <2>2, <2>3
  <1>13. ASSUME NEW k \in Procs, Drain(k) PROVE SlotInv'
    <2> DEFINE I == {i \in DOMAIN queue : IsFor(k, queue[i])}
    <2>1. PICK mails \in Arranged(InQueueOrder(I)) : NextMail(k, mails)
      BY <1>13 DEF Drain
    <2>2. queue' \in Arranged(SortedByMsg(DOMAIN queue \ I)) /\ UNCHANGED payload
      BY <1>13 DEF Drain
    <2>3. I \in SUBSET DOMAIN queue /\ DOMAIN queue \ I \in SUBSET DOMAIN queue
      OBVIOUS
    <2> HIDE DEF I
    <2>4. PICK u : ArrangedBy(mails, I, u)
      BY <1>0, <2>1, <2>3, SortedIsAnOrder, ArrangedMails
    <2>5. PICK order : ArrangedBy(queue', DOMAIN queue \ I, order)
      BY <1>0, <2>2, <2>3, SortedIsAnOrder, ArrangedMails
    <2>6. locals' = [locals EXCEPT ![k] = mails]
      BY <2>1 DEF NextMail
    <2> QED BY <1>4, <2>2, <2>3, <2>4, <2>5, <2>6
  <1>14. ASSUME NEW k \in Procs, Updated(k) PROVE SlotInv'
    <2>1. /\ wpc[k] = "Update" /\ locals' = [locals EXCEPT ![k] = Tail(locals[k])]
          /\ UNCHANGED <<queue, payload>>
      BY <1>14 DEF Updated, NextMail, mailVars
    <2>2. /\ locals[k] # <<>>
          /\ \A l \in Procs : locals'[l] = IF l = k THEN Tail(locals[k]) ELSE locals[l]
      BY <2>1 DEF IInv, TypeOK, WorkerInv
    <2> QED BY <1>5, <2>1, <2>2
  <1>15. ASSUME NEW k \in Procs, UpdatedWithData(k) PROVE SlotInv'
    <2>1. /\ wpc[k] = "UpdateWithData" /\ locals' = [locals EXCEPT ![k] = Tail(locals[k])]
          /\ UNCHANGED queue
      BY <1>15 DEF UpdatedWithData, NextMail
    <2>2. /\ locals[k] # <<>> /\ Head(locals[k]).slot # None
          /\ \A l \in Procs : locals'[l] = IF l = k THEN Tail(locals[k]) ELSE locals[l]
      BY <2>1 DEF IInv, TypeOK, WorkerInv
    <2>3. \A s \in PayloadSlots : s # Head(locals[k]).slot => payload'[s] = payload[s]
      BY <1>15 DEF UpdatedWithData, IInv, TypeOK
    <2> QED BY <1>5, <2>1, <2>2, <2>3
  <1>16. ASSUME NEW k \in Procs, Crash(k) PROVE SlotInv'
    <2>1. UNCHANGED <<queue, payload>> /\ locals' = [locals EXCEPT ![k] = <<>>]
      BY <1>16 DEF Crash, mailVars
    <2>2. \A l \in Procs : locals'[l] = IF l = k THEN <<>> ELSE locals[l]
      BY <2>1 DEF IInv, TypeOK
    <2> QED BY <1>5, <2>1, <2>2
  <1>17. ASSUME NEW from \in Objs, NEW msg \in Msgs
         PROVE  Targets(from, msg) \in SUBSET {i \in DOMAIN listen : listen[i].msg = msg}
    BY <1>0, TargetsFound, LenProperties
  <1>18. ASSUME NEW from \in Objs, NEW msg \in Msgs, Notify(from, msg) PROVE SlotInv'
    <2>1. PICK chosen \in SUBSET Targets(from, msg) : Send(chosen, [i \in chosen |-> None])
      BY <1>18 DEF Notify, kSubset
    <2> DEFINE slot == [i \in chosen |-> None]
    <2>2. chosen \in SUBSET DOMAIN listen /\ \A i \in chosen : slot[i] = None
      BY <1>17
    <2>3. Send(chosen, slot) /\ UNCHANGED <<payload, locals>>
      BY <1>18, <2>1 DEF Notify
    <2> HIDE DEF slot
    <2>4. PICK order : Pushed(chosen, slot, order)
      BY <1>0, <2>2, <2>3, SendPushes DEF Listener
    <2> QED BY <1>6, <2>2, <2>3, <2>4
  <1>19. ASSUME NEW from \in Objs, NEW msg \in Msgs, NotifyPayload(from, msg) PROVE SlotInv'
    <2>0. PICK chosen, slot, freed : SentWith(from, msg, chosen, slot, freed)
      BY <1>19, PayloadSent
    <2>1. /\ chosen \in SUBSET Targets(from, msg) /\ slot \in [chosen -> Reusable]
          /\ IsInjective(slot) /\ freed \in SUBSET (SlotsIn("Processed") \ Range(slot))
          /\ Send(chosen, slot)
          /\ payload' = [s \in PayloadSlots |->
                 IF s \in Range(slot)
                 THEN [state |-> "Unread", msg |-> msg,
                       to |-> Proc[listen[CHOOSE i \in chosen : slot[i] = s].obj]]
                 ELSE IF s \in freed THEN FreePayload ELSE payload[s]]
      BY <2>0 DEF SentWith
    <2>2. UNCHANGED locals /\ chosen \in SUBSET DOMAIN listen
          /\ \A i \in chosen : listen[i].msg = msg
      BY <1>17, <1>19, <2>1 DEF NotifyPayload
    <2>3. /\ \A i \in chosen : slot[i] \in PayloadSlots /\ payload[slot[i]].state # "Unread"
          /\ \A i, j \in chosen : slot[i] = slot[j] => i = j
          /\ \A s \in freed : payload[s].state # "Unread"
      BY <2>1 DEF Reusable, SlotsIn, IsInjective
    <2>4. \A s \in PayloadSlots : payload[s].state = "Unread" => payload'[s] = payload[s]
      BY <2>1, <2>3 DEF Range
    <2>5. ASSUME NEW i \in chosen
          PROVE  payload'[slot[i]] = [state |-> "Unread", msg |-> listen[i].msg,
                                      to |-> Proc[listen[i].obj]]
      <3>1. (CHOOSE j \in chosen : slot[j] = slot[i]) = i
        BY <2>3
      <3>2. slot[i] \in Range(slot)
        BY <2>1 DEF Range
      <3> QED BY <2>1, <2>2, <2>3, <3>1, <3>2
    <2>6. PICK order : Pushed(chosen, slot, order)
      BY <1>0, <2>1, <2>2, <2>3, SendPushes DEF Listener
    <2> QED BY <1>6, <2>2, <2>3, <2>4, <2>5, <2>6
  <1> QED
    BY <1>7, <1>8, <1>9, <1>10, <1>11, <1>12, <1>13, <1>14, <1>15, <1>16, <1>18, <1>19
    DEF Next, WorkerStep

(* A payload slot belongs to one undelivered mail until its callback has   *)
(* returned, for any number of slots, processes and mails.                 *)
THEOREM SlotsRight == Spec => []SlotsOwned
  <1>1. Init => SlotInv
    BY EmptySeq DEF Init, SlotInv
  <1>2. IInv /\ IInv' /\ SlotInv /\ [Next]_vars => SlotInv'
    BY SlotNext
  <1>3. Spec => []SlotInv
    BY <1>1, <1>2, AlwaysIInv, PTL DEF Spec
  <1> QED BY <1>3, SlotInvOwns, PTL

-----------------------------------------------------------------------------
(* The mailbox: how many mails of each kind are queued and taken.          *)

Of(s, m) == {i \in DOMAIN s : s[i].msg = m.msg /\ s[i].obj = m.obj}

LEMMA CountIsCardinality ==
    ASSUME NEW s \in Seq(Mail), NEW m
    PROVE  /\ IsFiniteSet(Of(s, m)) /\ CountIn(s, m) = Cardinality(Of(s, m))
           /\ CountIn(s, m) \in Nat
           /\ Of(s, m) \subseteq 1 .. Len(s) /\ Len(s) \in Nat /\ DOMAIN s = 1 .. Len(s)
  <1>1. Len(s) \in Nat /\ DOMAIN s = 1 .. Len(s)
    BY LenProperties
  <1>2. IsFiniteSet(1 .. Len(s))
    BY <1>1, FS_Interval
  <1>3. Of(s, m) \subseteq 1 .. Len(s)
    BY <1>1 DEF Of
  <1>4. IsFiniteSet(Of(s, m))
    BY <1>2, <1>3, FS_Subset
  <1>5. CountIn(s, m) = Cardinality(Of(s, m))
    BY DEF CountIn, Of
  <1> QED BY <1>1, <1>3, <1>4, <1>5, FS_CardinalityType

LEMMA ArrangedCount ==
    ASSUME queue \in Seq(Mail), NEW I \in SUBSET DOMAIN queue, NEW o \in SetToSeqs(I),
           NEW q, ArrangedBy(q, I, o), NEW m
    PROVE  CountIn(q, m) = Cardinality(I \cap Of(queue, m))
  <1>1. IsFiniteSet(I) /\ q \in Seq(Mail) /\ Len(q) = Cardinality(I)
    <2>1. Len(queue) \in Nat /\ DOMAIN queue = 1 .. Len(queue)
      BY LenProperties
    <2>2. IsFiniteSet(DOMAIN queue)
      BY <2>1, FS_Interval
    <2> QED BY <2>2, FS_Subset DEF ArrangedBy
  <1>2. Of(q, m) = {i \in 1 .. Cardinality(I) : o[i] \in Of(queue, m)}
    <2>1. DOMAIN q = 1 .. Cardinality(I)
      BY <1>1, LenProperties
    <2>2. \A i \in 1 .. Cardinality(I) : o[i] \in DOMAIN queue /\ q[i] = queue[o[i]]
      BY <1>1 DEF ArrangedBy
    <2> QED BY <2>1, <2>2 DEF Of
  <1>3. CountIn(q, m) = Cardinality(Of(q, m))
    BY <1>1, CountIsCardinality
  <1> DEFINE M == Of(queue, m)
  <1> HIDE DEF M
  <1>4. Cardinality({i \in 1 .. Cardinality(I) : o[i] \in M}) = Cardinality(I \cap M)
    BY <1>1, OrderKeepsCount
  <1> QED BY <1>2, <1>3, <1>4 DEF M

LEMMA TailCount ==
    ASSUME NEW s \in Seq(Mail), s # <<>>, NEW m
    PROVE  CountIn(Tail(s), m) = IF Head(s).msg = m.msg /\ Head(s).obj = m.obj
                                 THEN CountIn(s, m) - 1 ELSE CountIn(s, m)
  <1> DEFINE A == Of(Tail(s), m)
             B == Of(s, m) \ {1}
             f == [i \in A |-> i + 1]
  <1>1. /\ Tail(s) \in Seq(Mail) /\ Len(s) \in Nat \ {0} /\ Len(Tail(s)) = Len(s) - 1
        /\ Head(s) = s[1] /\ \A i \in 1 .. Len(s) - 1 : Tail(s)[i] = s[i + 1]
        /\ DOMAIN s = 1 .. Len(s) /\ DOMAIN Tail(s) = 1 .. Len(s) - 1
    <2>1. /\ Tail(s) \in Seq(Mail) /\ Len(Tail(s)) = Len(s) - 1 /\ Head(s) = s[1]
          /\ \A i \in 1 .. Len(Tail(s)) : Tail(s)[i] = s[i + 1]
      BY HeadTailProperties
    <2>2. Len(s) \in Nat /\ Len(s) # 0 /\ DOMAIN s = 1 .. Len(s)
      BY LenProperties, EmptySeq
    <2>3. DOMAIN Tail(s) = 1 .. Len(Tail(s))
      BY <2>1, LenProperties
    <2> QED BY <2>1, <2>2, <2>3
  <1>2. /\ A \subseteq 1 .. Len(s) - 1 /\ B \subseteq 2 .. Len(s)
        /\ \A i \in 1 .. Len(s) - 1 : i \in A <=> i + 1 \in B
    BY <1>1 DEF Of
  <1>3. f \in Bijection(A, B)
    <2> HIDE DEF A, B
    <2>1. f \in [A -> B] /\ \A i, j \in A : f[i] = f[j] => i = j
      BY <1>1, <1>2
    <2>2. ASSUME NEW j \in B PROVE \E i \in A : f[i] = j
      <3>1. j - 1 \in 1 .. Len(s) - 1 /\ (j - 1) + 1 = j
        BY <1>1, <1>2
      <3> QED BY <1>2, <3>1
    <2> HIDE DEF f
    <2> QED BY <2>1, <2>2 DEF Bijection, Injection, Surjection, IsInjective
  <1>4. /\ IsFiniteSet(A) /\ CountIn(Tail(s), m) = Cardinality(A)
        /\ IsFiniteSet(Of(s, m)) /\ CountIn(s, m) = Cardinality(Of(s, m))
    BY <1>1, CountIsCardinality
  <1> HIDE DEF A, f
  <1>5. Cardinality(B) = Cardinality(A)
    BY <1>3, <1>4, FS_Bijection DEF ExistsBijection
  <1>6. Cardinality(B) = IF 1 \in Of(s, m) THEN Cardinality(Of(s, m)) - 1
                                          ELSE Cardinality(Of(s, m))
    BY <1>4, FS_RemoveElement
  <1>7. 1 \in Of(s, m) <=> Head(s).msg = m.msg /\ Head(s).obj = m.obj
    BY <1>1 DEF Of
  <1> QED BY <1>4, <1>5, <1>6, <1>7

LEMMA PushCount ==
    ASSUME queue \in Seq(Mail), listen \in Seq(Listener), ListenInv,
           NEW chosen \in SUBSET DOMAIN listen, NEW slot,
           NEW order \in SetToSeqs(chosen), Pushed(chosen, slot, order), NEW m \in Listener
    PROVE  CountIn(queue', m) = IF m \in {listen[i] : i \in chosen}
                                THEN CountIn(queue, m) + 1 ELSE CountIn(queue, m)
  <1> DEFINE n == Cardinality(chosen)
             l == Len(queue)
             Q == Of(queue, m)
             R == Of(queue', m)
  <1>0. /\ DOMAIN listen = 1 .. Len(listen) /\ Len(listen) \in Nat
        /\ \A i \in DOMAIN listen : listen[i] \in Listener
    BY LenProperties, ElementOfSeq
  <1>1. IsFiniteSet(chosen)
    <2>1. IsFiniteSet(DOMAIN listen)
      BY <1>0, FS_Interval
    <2> QED BY <2>1, FS_Subset
  <1>2. /\ n \in Nat /\ order \in [1 .. n -> chosen]
        /\ \A i, j \in 1 .. n : order[i] = order[j] => i = j
        /\ \A x \in chosen : \E i \in 1 .. n : order[i] = x
    BY <1>1, OrderIsBijection
  <1>3. /\ queue' \in Seq(Mail) /\ Len(queue') = l + n
        /\ \A i \in 1 .. l : queue'[i] = queue[i]
    BY DEF Pushed
  <1>4. \A i \in 1 .. n : /\ queue'[l + i].msg = listen[order[i]].msg
                          /\ queue'[l + i].obj = listen[order[i]].obj
    <2> SUFFICES ASSUME NEW i \in 1 .. n
                 PROVE  /\ queue'[l + i].msg = listen[order[i]].msg
                        /\ queue'[l + i].obj = listen[order[i]].obj
      OBVIOUS
    <2>1. l + i \in l + 1 .. Len(queue') /\ (l + i) - l = i
      BY <1>2, <1>3, LenProperties
    <2> HIDE DEF l
    <2>2. LET x == order[(l + i) - l] IN
          queue'[l + i] = [msg |-> listen[x].msg, obj |-> listen[x].obj, slot |-> slot[x]]
      BY <2>1 DEF Pushed, l
    <2> QED BY <2>1, <2>2
  <1>5. /\ IsFiniteSet(Q) /\ CountIn(queue, m) = Cardinality(Q) /\ CountIn(queue, m) \in Nat
        /\ CountIn(queue', m) = Cardinality(R) /\ Q \subseteq 1 .. l /\ l \in Nat
        /\ DOMAIN queue = 1 .. l /\ DOMAIN queue' = 1 .. l + n
    <2>1. /\ IsFiniteSet(Q) /\ CountIn(queue, m) = Cardinality(Q) /\ CountIn(queue, m) \in Nat
          /\ Q \subseteq 1 .. l /\ l \in Nat /\ DOMAIN queue = 1 .. l
      BY CountIsCardinality
    <2>2. CountIn(queue', m) = Cardinality(R) /\ DOMAIN queue' = 1 .. l + n
      BY <1>3, CountIsCardinality
    <2> QED BY <2>1, <2>2
  <1>6. \A i \in 1 .. l : i \in R <=> i \in Q
    BY <1>2, <1>3, <1>5 DEF Of
  <1>7. ASSUME NEW i \in 1 .. n PROVE l + i \in R <=> listen[order[i]] = m
    <2>1. l + i \in DOMAIN queue' /\ listen[order[i]] \in Listener
      BY <1>0, <1>2, <1>5
    <2>2. l + i \in R <=> listen[order[i]].msg = m.msg /\ listen[order[i]].obj = m.obj
      BY <1>4, <2>1 DEF Of
    <2> QED BY <2>1, <2>2 DEF Listener
  <1>8. \A j \in R : j \in 1 .. l \/ \E i \in 1 .. n : j = l + i
    <2> SUFFICES ASSUME NEW j \in R, j \notin 1 .. l PROVE \E i \in 1 .. n : j = l + i
      OBVIOUS
    <2>1. j \in 1 .. l + n
      BY <1>5 DEF Of
    <2>2. j - l \in 1 .. n /\ j = l + (j - l)
      BY <1>2, <1>5, <2>1
    <2> QED BY <2>2
  <1> HIDE DEF Q, R, l, n
  <1>9. CASE m \notin {listen[i] : i \in chosen}
    <2>1. \A i \in 1 .. n : l + i \notin R
      BY <1>2, <1>7, <1>9
    <2>2. R = Q
      BY <1>5, <1>6, <1>8, <2>1
    <2> QED BY <1>5, <1>9, <2>2
  <1>10. CASE m \in {listen[i] : i \in chosen}
    <2>1. PICK x \in chosen : listen[x] = m
      BY <1>10
    <2>2. PICK i \in 1 .. n : order[i] = x
      BY <1>2
    <2>3. \A j \in 1 .. n : l + j \in R => j = i
      <3>1. \A j \in 1 .. n : l + j \in R => order[j] = x
        BY <1>0, <1>2, <1>7, <2>1 DEF ListenInv
      <3> QED BY <1>2, <2>2, <3>1
    <2>4. l + i \in R /\ l + i \notin Q
      BY <1>2, <1>5, <1>7, <2>1, <2>2
    <2>5. R = Q \cup {l + i}
      BY <1>5, <1>6, <1>8, <2>3, <2>4
    <2>6. Cardinality(R) = Cardinality(Q) + 1
      BY <1>5, <2>4, <2>5, FS_AddElement
    <2> QED BY <1>5, <1>10, <2>6
  <1> QED BY <1>9, <1>10

(* A worker holds only mails of its own process.                           *)
OwnInv == \A k \in Procs : \A i \in DOMAIN locals[k] : Proc[locals[k][i].obj] = k

(* The abstract actions, mail kind by mail kind.                           *)
LEMMA ListenView ==
    ASSUME NEW o, NEW new \in SUBSET Msgs,
           Range(listen') = Range(listen) \cup [msg : new, obj : {o}],
           UNCHANGED <<queue, locals>>
    PROVE  Mailbox!Listen(o)
  BY DEF Mailbox!Listen

LEMMA NotifyView ==
    ASSUME NEW from, NEW msg,
           NEW receivers \in SUBSET {m \in Range(listen) : m.msg = msg /\ Addr[m.obj] # Addr[from]},
           \A m \in [msg : Msgs, obj : Objs] :
               CountIn(queue', m) = CountIn(queue, m) + IF m \in receivers THEN 1 ELSE 0,
           UNCHANGED <<listen, locals>>
    PROVE  Mailbox!Notify(from, msg)
  <1>1. [m \in [msg : Msgs, obj : Objs] |-> CountIn(queue', m)] =
            [m \in [msg : Msgs, obj : Objs] |->
               [n \in [msg : Msgs, obj : Objs] |-> CountIn(queue, n)][m]
               + IF m \in receivers THEN 1 ELSE 0]
    OBVIOUS
  <1> QED BY <1>1 DEF Mailbox!Notify, Mailbox!Mail, Mailbox!SameAddr

LEMMA TakeView ==
    ASSUME NEW k,
           \A m \in [msg : Msgs, obj : Objs] :
               CountIn(queue', m) = IF Proc[m.obj] = k THEN 0 ELSE CountIn(queue, m),
           \A m \in [msg : Msgs, obj : Objs] :
               CountIn(locals'[Proc[m.obj]], m) =
                   CountIn(locals[Proc[m.obj]], m)
                     + IF Proc[m.obj] = k THEN CountIn(queue, m) ELSE 0,
           UNCHANGED listen
    PROVE  Mailbox!Take(k)
  <1> DEFINE own == Mailbox!MailOf(k)
  <1>1. \A m \in [msg : Msgs, obj : Objs] : m \in own <=> Proc[m.obj] = k
    BY DEF Mailbox!MailOf, Mailbox!Mail
  <1> HIDE DEF own
  <1>2. [m \in [msg : Msgs, obj : Objs] |-> CountIn(queue', m)] =
            [m \in [msg : Msgs, obj : Objs] |->
               IF m \in own THEN 0
               ELSE [n \in [msg : Msgs, obj : Objs] |-> CountIn(queue, n)][m]]
    BY <1>1
  <1>3. [m \in [msg : Msgs, obj : Objs] |-> CountIn(locals'[Proc[m.obj]], m)] =
            [m \in [msg : Msgs, obj : Objs] |->
               [n \in [msg : Msgs, obj : Objs] |-> CountIn(locals[Proc[n.obj]], n)][m]
               + IF m \in own
                 THEN [n \in [msg : Msgs, obj : Objs] |-> CountIn(queue, n)][m] ELSE 0]
    BY <1>1
  <1>4. UNCHANGED Range(listen)
    OBVIOUS
  <1> QED BY <1>2, <1>3, <1>4 DEF Mailbox!Take, Mailbox!Mail, own

LEMMA DeliverView ==
    ASSUME NEW d \in [msg : Msgs, obj : Objs], CountIn(locals[Proc[d.obj]], d) > 0,
           \A m \in [msg : Msgs, obj : Objs] :
               CountIn(locals'[Proc[m.obj]], m) =
                   IF m = d THEN CountIn(locals[Proc[m.obj]], m) - 1
                            ELSE CountIn(locals[Proc[m.obj]], m),
           UNCHANGED <<listen, queue>>
    PROVE  Mailbox!Deliver(d)
  <1> DEFINE t == [m \in [msg : Msgs, obj : Objs] |-> CountIn(locals[Proc[m.obj]], m)]
  <1>1. [m \in [msg : Msgs, obj : Objs] |-> CountIn(locals'[Proc[m.obj]], m)] =
            [t EXCEPT ![d] = @ - 1]
    OBVIOUS
  <1>2. t[d] > 0
    OBVIOUS
  <1> QED BY <1>1, <1>2 DEF Mailbox!Deliver

LEMMA LeaveView ==
    ASSUME NEW o, Range(listen') = {l \in Range(listen) : Addr[l.obj] # Addr[o]},
           \A m \in [msg : Msgs, obj : Objs] :
               CountIn(queue', m) = IF Addr[m.obj] = Addr[o] THEN 0 ELSE CountIn(queue, m),
           UNCHANGED locals
    PROVE  Mailbox!Leave(o)
  <1>1. [m \in [msg : Msgs, obj : Objs] |-> CountIn(queue', m)] =
            [m \in [msg : Msgs, obj : Objs] |->
               IF Addr[m.obj] = Addr[o] THEN 0
               ELSE [n \in [msg : Msgs, obj : Objs] |-> CountIn(queue, n)][m]]
    OBVIOUS
  <1> QED BY <1>1 DEF Mailbox!Leave, Mailbox!Mail, Mailbox!SameAddr

LEMMA DieView ==
    ASSUME NEW k,
           \A m \in [msg : Msgs, obj : Objs] :
               CountIn(locals'[Proc[m.obj]], m) =
                   IF Proc[m.obj] = k THEN 0 ELSE CountIn(locals[Proc[m.obj]], m),
           UNCHANGED <<listen, queue>>
    PROVE  Mailbox!Die(k)
  <1> DEFINE own == Mailbox!MailOf(k)
  <1>1. \A m \in [msg : Msgs, obj : Objs] : m \in own <=> Proc[m.obj] = k
    BY DEF Mailbox!MailOf, Mailbox!Mail
  <1> HIDE DEF own
  <1>2. [m \in [msg : Msgs, obj : Objs] |-> CountIn(locals'[Proc[m.obj]], m)] =
            [m \in [msg : Msgs, obj : Objs] |->
               IF m \in own THEN 0
               ELSE [n \in [msg : Msgs, obj : Objs] |-> CountIn(locals[Proc[n.obj]], n)][m]]
    BY <1>1
  <1> QED BY <1>2 DEF Mailbox!Die, Mailbox!Mail, own

(* Mails are taken from the queue by the worker that had none.             *)
LEMMA DrainTakes ==
    ASSUME IInv, OwnInv, NEW k \in Procs, Drain(k)
    PROVE  OwnInv' /\ Mailbox!Take(k)
  <1> DEFINE I == {i \in DOMAIN queue : IsFor(k, queue[i])}
  <1>0. queue \in Seq(Mail) /\ locals \in [Procs -> Seq(Mail)] /\ locals[k] = <<>>
    BY DEF IInv, TypeOK, WorkerInv, Drain
  <1>1. PICK mails \in Arranged(InQueueOrder(I)) : NextMail(k, mails)
    BY DEF Drain
  <1>2. queue' \in Arranged(SortedByMsg(DOMAIN queue \ I)) /\ UNCHANGED listen
    BY DEF Drain
  <1>3. /\ I \in SUBSET DOMAIN queue /\ DOMAIN queue \ I \in SUBSET DOMAIN queue
        /\ \A i \in DOMAIN queue : i \in I <=> Proc[queue[i].obj] = k
    BY DEF IsFor
  <1> HIDE DEF I
  <1>4. PICK u \in SetToSeqs(I) : ArrangedBy(mails, I, u)
    BY <1>0, <1>1, <1>3, SortedIsAnOrder, ArrangedMails
  <1>5. PICK o \in SetToSeqs(DOMAIN queue \ I) : ArrangedBy(queue', DOMAIN queue \ I, o)
    BY <1>0, <1>2, <1>3, SortedIsAnOrder, ArrangedMails
  <1>6. \A l \in Procs : locals'[l] = IF l = k THEN mails ELSE locals[l]
    BY <1>0, <1>1 DEF NextMail
  <1>7. \A i \in DOMAIN mails : Proc[mails[i].obj] = k
    BY <1>3, <1>4, LenProperties DEF ArrangedBy
  <1>8. OwnInv'
    BY <1>6, <1>7 DEF OwnInv
  <1>9. ASSUME NEW m \in Listener
        PROVE  /\ CountIn(queue', m) = IF Proc[m.obj] = k THEN 0 ELSE CountIn(queue, m)
               /\ CountIn(mails, m) = IF Proc[m.obj] = k THEN CountIn(queue, m) ELSE 0
    <2>1. CountIn(queue', m) = Cardinality((DOMAIN queue \ I) \cap Of(queue, m))
      BY <1>0, <1>3, <1>5, ArrangedCount
    <2>2. CountIn(mails, m) = Cardinality(I \cap Of(queue, m))
      BY <1>0, <1>3, <1>4, ArrangedCount
    <2>3. CountIn(queue, m) = Cardinality(Of(queue, m))
      BY <1>0, CountIsCardinality
    <2>4. CASE Proc[m.obj] = k
      <3>1. I \cap Of(queue, m) = Of(queue, m) /\ (DOMAIN queue \ I) \cap Of(queue, m) = {}
        BY <1>3, <2>4 DEF Of
      <3> QED BY <2>1, <2>2, <2>3, <2>4, <3>1, FS_EmptySet
    <2>5. CASE Proc[m.obj] # k
      <3>1. I \cap Of(queue, m) = {} /\ (DOMAIN queue \ I) \cap Of(queue, m) = Of(queue, m)
        BY <1>3, <2>5 DEF Of
      <3> QED BY <2>1, <2>2, <2>3, <2>5, <3>1, FS_EmptySet
    <2> QED BY <2>4, <2>5
  <1>10. ASSUME NEW m \in Listener
         PROVE  CountIn(locals'[Proc[m.obj]], m) =
                    CountIn(locals[Proc[m.obj]], m)
                      + IF Proc[m.obj] = k THEN CountIn(queue, m) ELSE 0
    <2>1. Proc[m.obj] \in Procs
      BY ProcsFinite DEF Listener
    <2>2. CountIn(locals[Proc[m.obj]], m) \in Nat /\ CountIn(queue, m) \in Nat
      BY <1>0, <2>1, CountIsCardinality
    <2>3. CASE Proc[m.obj] = k
      <3>1. CountIn(locals[k], m) = 0
        BY <1>0, FS_EmptySet, EmptySeq DEF CountIn
      <3> QED BY <1>6, <1>9, <2>1, <2>2, <2>3, <3>1
    <2>4. CASE Proc[m.obj] # k
      BY <1>6, <1>9, <2>1, <2>2, <2>4
    <2> QED BY <2>3, <2>4
  <1>11. Mailbox!Take(k)
    BY <1>2, <1>9, <1>10, TakeView DEF Listener
  <1> QED BY <1>8, <1>11

(* A listener is registered.                                               *)
LEMMA RegisterListens ==
    ASSUME IInv, NEW o \in Objs, NEW msgs \in SUBSET Msgs, NEW new \in Registered(o, msgs),
           listen' \in SortedListen(Range(listen) \cup new), UNCHANGED <<queue, locals>>
    PROVE  Mailbox!Listen(o)
  <1> DEFINE L == Range(listen) \cup new
             m == {l.msg : l \in new}
  <1>1. listen \in Seq(Listener) /\ Len(listen) <= ListenMax
    BY DEF IInv, TypeOK, Listener
  <1>2. /\ new \subseteq [msg : msgs, obj : {o}]
        /\ L \in SUBSET Listener /\ IsFiniteSet(L) /\ Cardinality(L) <= ListenMax
    BY <1>1, RegisteredFits
  <1>3. m \in SUBSET Msgs /\ new = [msg : m, obj : {o}]
    <2>1. \A l \in new : l = [msg |-> l.msg, obj |-> o] /\ l.msg \in Msgs
      BY <1>2
    <2>2. \A n \in m : [msg |-> n, obj |-> o] \in new
      BY <2>1
    <2> HIDE DEF m
    <2>3. \A l \in new : l.msg \in m
      BY DEF m
    <2>4. \A l \in [msg : m, obj : {o}] : l = [msg |-> l.msg, obj |-> o] /\ l.msg \in m
      OBVIOUS
    <2>5. [msg : m, obj : {o}] \subseteq new
      BY <2>2, <2>4
    <2>6. new \subseteq [msg : m, obj : {o}]
      BY <2>1, <2>3
    <2>7. m \in SUBSET Msgs
      BY <2>1 DEF m
    <2> QED BY <2>5, <2>6, <2>7
  <1> HIDE DEF L, m
  <1>4. Range(listen') = L
    BY <1>2, ListenStep DEF L
  <1>5. Range(listen') = Range(listen) \cup [msg : m, obj : {o}]
    BY <1>3, <1>4 DEF L
  <1> QED BY <1>3, <1>5, ListenView

(* Mails are pushed for listeners of the message.                          *)
LEMMA SendNotifies ==
    ASSUME IInv, NEW from \in Objs, NEW msg \in Msgs,
           NEW chosen \in SUBSET Targets(from, msg),
           NEW slot, \A i \in chosen : slot[i] \in PayloadSlots \cup {None},
           Send(chosen, slot), UNCHANGED <<listen, locals>>
    PROVE  Mailbox!Notify(from, msg)
  <1> DEFINE receivers == {listen[i] : i \in chosen}
  <1>1. /\ queue \in Seq(Mail) /\ listen \in Seq(Listener) /\ ListenInv
        /\ DOMAIN listen = 1 .. Len(listen)
    BY LenProperties DEF IInv, TypeOK, Listener
  <1>2. Targets(from, msg) = {i \in 1 .. Len(listen) :
                                  listen[i].msg = msg /\ Addr[listen[i].obj] # Addr[from]}
    BY <1>1, TargetsFound
  <1>3. receivers \in SUBSET {m \in Range(listen) : m.msg = msg /\ Addr[m.obj] # Addr[from]}
    BY <1>1, <1>2 DEF Range
  <1>4. PICK order \in SetToSeqs(chosen) : Pushed(chosen, slot, order)
    BY <1>1, <1>2, SendPushes DEF Listener
  <1> HIDE DEF receivers
  <1>5. ASSUME NEW m \in [msg : Msgs, obj : Objs]
        PROVE  CountIn(queue', m) = CountIn(queue, m) + IF m \in receivers THEN 1 ELSE 0
    <2>1. CountIn(queue', m) = IF m \in receivers THEN CountIn(queue, m) + 1
                                                  ELSE CountIn(queue, m)
      BY <1>1, <1>2, <1>4, PushCount DEF receivers, Listener
    <2>2. CountIn(queue, m) \in Nat
      BY <1>1, CountIsCardinality
    <2> QED BY <2>1, <2>2
  <1> QED BY <1>3, <1>5, NotifyView

(* The destructor's second section drops what belongs to the object.       *)
LEMMA PurgeLeaves ==
    ASSUME IInv, NEW o \in Objs, Purge(o), needworker[o]
    PROVE  Mailbox!Leave(o)
  <1> DEFINE I == {i \in DOMAIN queue : Addr[queue[i].obj] # Addr[o]}
             L == {l \in Range(listen) : Addr[l.obj] # Addr[o]}
  <1>1. /\ queue \in Seq(Mail) /\ listen \in Seq(Listener) /\ Len(listen) <= ListenMax
        /\ ListenInv
    BY DEF IInv, TypeOK, Listener
  <1>2. /\ queue' \in Arranged(SortedByMsg(I)) /\ listen' \in SortedListen(L)
        /\ UNCHANGED locals /\ I \in SUBSET DOMAIN queue
    BY DEF Purge, workerVars
  <1>3. \A i \in DOMAIN queue : i \in I <=> Addr[queue[i].obj] # Addr[o]
    OBVIOUS
  <1>4. L = {l \in Range(listen) : Addr[l.obj] # Addr[o]} /\ L \in SUBSET Range(listen)
    OBVIOUS
  <1> HIDE DEF I, L
  <1>5. Range(listen') = L
    <2>1. IsFiniteSet(L) /\ Cardinality(L) <= Cardinality(Range(listen)) /\ L \in SUBSET Listener
      BY <1>1, <1>4, ListenersCounted, FS_Subset
    <2>2. Cardinality(L) <= ListenMax
      BY <1>1, <2>1, ListenersCounted, FS_CardinalityType, LenProperties, SharedAssumption
    <2> QED BY <1>2, <2>1, <2>2, ListenStep
  <1>6. PICK order \in SetToSeqs(I) : ArrangedBy(queue', I, order)
    BY <1>1, <1>2, SortedIsAnOrder, ArrangedMails
  <1>7. ASSUME NEW m \in [msg : Msgs, obj : Objs]
        PROVE  CountIn(queue', m) = IF Addr[m.obj] = Addr[o] THEN 0 ELSE CountIn(queue, m)
    <2>1. CountIn(queue', m) = Cardinality(I \cap Of(queue, m))
      BY <1>1, <1>2, <1>6, ArrangedCount
    <2>2. CountIn(queue, m) = Cardinality(Of(queue, m))
      BY <1>1, CountIsCardinality
    <2>3. I \cap Of(queue, m) = IF Addr[m.obj] = Addr[o] THEN {} ELSE Of(queue, m)
      BY <1>2, <1>3 DEF Of
    <2> QED BY <2>1, <2>2, <2>3, FS_EmptySet
  <1> QED BY <1>2, <1>4, <1>5, <1>7, LeaveView

(* A worker has delivered its first mail.                                  *)
LEMMA UpdatedDelivers ==
    ASSUME IInv, OwnInv, NEW k \in Procs, locals[k] # <<>>,
           locals' = [locals EXCEPT ![k] = Tail(locals[k])], UNCHANGED <<listen, queue>>
    PROVE  OwnInv' /\ Mailbox!Deliver([msg |-> Head(locals[k]).msg, obj |-> Head(locals[k]).obj])
  <1> DEFINE h == Head(locals[k])
             d == [msg |-> h.msg, obj |-> h.obj]
  <1>1. locals \in [Procs -> Seq(Mail)] /\ locals[k] \in Seq(Mail)
    BY DEF IInv, TypeOK
  <1>2. \A l \in Procs : locals'[l] = IF l = k THEN Tail(locals[k]) ELSE locals[l]
    BY <1>1
  <1>3. /\ Len(locals[k]) \in Nat \ {0} /\ DOMAIN locals[k] = 1 .. Len(locals[k])
        /\ h = locals[k][1] /\ DOMAIN Tail(locals[k]) = 1 .. Len(locals[k]) - 1
        /\ \A i \in 1 .. Len(locals[k]) - 1 : Tail(locals[k])[i] = locals[k][i + 1]
    <2>1. /\ Tail(locals[k]) \in Seq(Mail) /\ Len(Tail(locals[k])) = Len(locals[k]) - 1
          /\ \A i \in 1 .. Len(Tail(locals[k])) : Tail(locals[k])[i] = locals[k][i + 1]
          /\ h = locals[k][1]
      BY <1>1, HeadTailProperties
    <2>2. /\ Len(locals[k]) \in Nat /\ Len(locals[k]) # 0
          /\ DOMAIN locals[k] = 1 .. Len(locals[k])
      BY <1>1, LenProperties, EmptySeq
    <2>3. DOMAIN Tail(locals[k]) = 1 .. Len(Tail(locals[k]))
      BY <2>1, LenProperties
    <2> QED BY <2>1, <2>2, <2>3
  <1>4. Proc[h.obj] = k /\ h \in Mail
    BY <1>1, <1>3, ElementOfSeq DEF OwnInv
  <1>5. OwnInv'
    <2>1. \A i \in DOMAIN Tail(locals[k]) : Proc[Tail(locals[k])[i].obj] = k
      BY <1>3 DEF OwnInv
    <2> QED BY <1>2, <2>1 DEF OwnInv
  <1>6. d \in [msg : Msgs, obj : Objs] /\ d.msg = h.msg /\ d.obj = h.obj /\ Proc[d.obj] = k
    BY <1>4 DEF Mail
  <1> HIDE DEF h, d
  <1>7. ASSUME NEW m \in [msg : Msgs, obj : Objs]
        PROVE  CountIn(locals'[Proc[m.obj]], m) =
                   IF m = d THEN CountIn(locals[Proc[m.obj]], m) - 1
                            ELSE CountIn(locals[Proc[m.obj]], m)
    <2>1. CountIn(Tail(locals[k]), m) = IF h.msg = m.msg /\ h.obj = m.obj
                                        THEN CountIn(locals[k], m) - 1 ELSE CountIn(locals[k], m)
      BY <1>1, TailCount DEF h
    <2>2. m = d <=> h.msg = m.msg /\ h.obj = m.obj
      BY <1>6
    <2>3. Proc[m.obj] \in Procs
      BY ProcsFinite
    <2>4. CASE Proc[m.obj] = k
      BY <1>2, <2>1, <2>2, <2>4
    <2>5. CASE Proc[m.obj] # k
      BY <1>2, <1>6, <2>3, <2>5
    <2> QED BY <2>4, <2>5
  <1>8. CountIn(locals[Proc[d.obj]], d) > 0
    <2>1. 1 \in Of(locals[k], d)
      BY <1>3, <1>6 DEF Of
    <2>2. /\ IsFiniteSet(Of(locals[k], d)) /\ CountIn(locals[k], d) \in Nat
          /\ CountIn(locals[k], d) = Cardinality(Of(locals[k], d))
      BY <1>1, CountIsCardinality
    <2>3. Cardinality(Of(locals[k], d)) # 0
      BY <2>1, <2>2, FS_EmptySet
    <2> QED BY <1>6, <2>2, <2>3
  <1>9. Mailbox!Deliver(d)
    BY <1>6, <1>7, <1>8, DeliverView
  <1> QED BY <1>5, <1>9 DEF d, h

LEMMA MailboxNext ==
    ASSUME IInv, IInv', OwnInv, [Next]_vars
    PROVE  OwnInv' /\ [Mailbox!Next]_(Mailbox!vars)
  <1> DEFINE Goal == OwnInv' /\ [Mailbox!Next]_(Mailbox!vars)
  <1>1. ASSUME UNCHANGED <<listen, queue, locals>> PROVE Goal
    BY <1>1 DEF OwnInv, Mailbox!vars
  <1>2. ASSUME NEW o \in Objs, Mailbox!Listen(o) \/ Mailbox!Leave(o), UNCHANGED locals PROVE Goal
    BY <1>2 DEF OwnInv, Mailbox!Next
  <1>3. ASSUME NEW o \in Objs, Construct(o) PROVE Goal
    <2>1. PICK new \in Registered(o, List[o]) : listen' \in SortedListen(Range(listen) \cup new)
      BY <1>3 DEF Construct
    <2>2. UNCHANGED <<queue, locals>> /\ List[o] \in SUBSET Msgs
      BY <1>3, SharedAssumption DEF Construct
    <2> QED BY <1>2, <2>1, <2>2, RegisterListens
  <1>4. ASSUME NEW o \in Objs, NEW msg \in Msgs, AddListen(o, msg) PROVE Goal
    <2>1. PICK new \in Registered(o, {msg}) : listen' \in SortedListen(Range(listen) \cup new)
      BY <1>4 DEF AddListen
    <2>2. UNCHANGED <<queue, locals>> /\ {msg} \in SUBSET Msgs
      BY <1>4 DEF AddListen, workerVars
    <2> QED BY <1>2, <2>1, <2>2, RegisterListens
  <1>5. ASSUME NEW o \in Objs, Purge(o) PROVE Goal
    <2>1. UNCHANGED locals
      BY <1>5 DEF Purge, workerVars
    <2>2. CASE needworker[o]
      BY <1>2, <1>5, <2>1, <2>2, PurgeLeaves
    <2>3. CASE ~needworker[o]
      BY <1>1, <1>5, <2>1, <2>3 DEF Purge
    <2> QED BY <2>2, <2>3
  <1>6. ASSUME NEW from \in Objs, NEW msg \in Msgs, Mailbox!Notify(from, msg), UNCHANGED locals
        PROVE  Goal
    BY <1>6 DEF OwnInv, Mailbox!Next
  <1>7. ASSUME NEW from \in Objs, NEW msg \in Msgs, Notify(from, msg) PROVE Goal
    <2>1. PICK chosen \in SUBSET Targets(from, msg) : Send(chosen, [i \in chosen |-> None])
      BY <1>7 DEF Notify, kSubset
    <2> DEFINE slot == [i \in chosen |-> None]
    <2>2. \A i \in chosen : slot[i] \in PayloadSlots \cup {None}
      OBVIOUS
    <2>3. Send(chosen, slot) /\ UNCHANGED <<listen, locals>>
      BY <1>7, <2>1 DEF Notify
    <2> HIDE DEF slot
    <2> QED BY <1>6, <2>2, <2>3, SendNotifies
  <1>8. ASSUME NEW from \in Objs, NEW msg \in Msgs, NotifyPayload(from, msg) PROVE Goal
    <2>1. PICK chosen, slot, freed : SentWith(from, msg, chosen, slot, freed)
      BY <1>8, PayloadSent
    <2>2. /\ chosen \in SUBSET Targets(from, msg) /\ Send(chosen, slot)
          /\ \A i \in chosen : slot[i] \in PayloadSlots \cup {None}
      BY <2>1 DEF SentWith, Reusable, SlotsIn
    <2>3. UNCHANGED <<listen, locals>>
      BY <1>8 DEF NotifyPayload
    <2> QED BY <1>6, <2>2, <2>3, SendNotifies
  <1>9. ASSUME NEW o \in Objs, BeginDestroy(o) \/ Join(o) \/ JoinTimeout(o) PROVE Goal
    BY <1>1, <1>9 DEF BeginDestroy, Join, JoinTimeout, Detach, mailVars
  <1>10. ASSUME ProfileAndGC PROVE Goal
    BY <1>1, <1>10 DEF ProfileAndGC, workerVars
  <1>11. ASSUME NEW k \in Procs,
                \/ Start(k) \/ CheckRunning(k) \/ Wait(k)
                \/ SpuriousWakeup(k) \/ Deliver(k) \/ Finish(k)
         PROVE  Goal
    BY <1>1, <1>11 DEF Start, CheckRunning, Wait, SpuriousWakeup, Deliver, Finish, mailVars
  <1>12. ASSUME NEW k \in Procs PROVE \E o \in Objs : Proc[o] = k
    BY SharedAssumption DEF Procs, Range
  <1>13. ASSUME NEW k \in Procs, Drain(k) PROVE Goal
    <2>1. PICK o \in Objs : Proc[o] = k
      BY <1>12
    <2>2. OwnInv' /\ Mailbox!Take(k)
      BY <1>13, DrainTakes
    <2> QED BY <2>1, <2>2 DEF Mailbox!Next
  <1>14. ASSUME NEW k \in Procs, Updated(k) \/ UpdatedWithData(k) PROVE Goal
    <2> DEFINE d == [msg |-> Head(locals[k]).msg, obj |-> Head(locals[k]).obj]
    <2>1. /\ locals' = [locals EXCEPT ![k] = Tail(locals[k])] /\ UNCHANGED <<listen, queue>>
          /\ wpc[k] \in {"Update", "UpdateWithData"}
      BY <1>14 DEF Updated, UpdatedWithData, NextMail, mailVars
    <2>2. locals[k] # <<>>
      BY <2>1 DEF IInv, WorkerInv
    <2>3. OwnInv' /\ Mailbox!Deliver(d)
      BY <2>1, <2>2, UpdatedDelivers
    <2>4. d \in Mailbox!Mail
      <3>1. locals[k] \in Seq(Mail)
        BY DEF IInv, TypeOK
      <3>2. Head(locals[k]) \in Mail
        BY <2>2, <3>1, HeadTailProperties
      <3> QED BY <3>2 DEF Mail, Mailbox!Mail
    <2> HIDE DEF d
    <2> QED BY <2>3, <2>4 DEF Mailbox!Next
  <1>15. ASSUME NEW k \in Procs, Crash(k) PROVE Goal
    <2>1. PICK o \in Objs : Proc[o] = k
      BY <1>12
    <2>2. locals' = [locals EXCEPT ![k] = <<>>] /\ UNCHANGED <<listen, queue>>
      BY <1>15 DEF Crash, mailVars
    <2>3. \A l \in Procs : locals'[l] = IF l = k THEN <<>> ELSE locals[l]
      BY <2>2 DEF IInv, TypeOK
    <2>4. OwnInv'
      BY <2>3 DEF OwnInv
    <2>5. ASSUME NEW m \in [msg : Msgs, obj : Objs]
          PROVE  CountIn(locals'[Proc[m.obj]], m) =
                     IF Proc[m.obj] = k THEN 0 ELSE CountIn(locals[Proc[m.obj]], m)
      <3>1. Proc[m.obj] \in Procs
        BY ProcsFinite
      <3>2. CountIn(<<>>, m) = 0
        BY FS_EmptySet, EmptySeq DEF CountIn
      <3> QED BY <2>3, <3>1, <3>2
    <2>6. Mailbox!Die(k)
      BY <2>2, <2>5, DieView
    <2> QED BY <2>1, <2>4, <2>6 DEF Mailbox!Next
  <1>16. ASSUME UNCHANGED vars PROVE Goal
    BY <1>1, <1>16 DEF vars
  <1> HIDE DEF Goal
  <1>17. Goal
    BY <1>3, <1>4, <1>5, <1>7, <1>8, <1>9, <1>10, <1>11, <1>13, <1>14, <1>15, <1>16
    DEF Next, WorkerStep
  <1> QED BY <1>17 DEF Goal

LEMMA MailboxInit == Init => OwnInv /\ Mailbox!Init
  <1> SUFFICES ASSUME Init PROVE OwnInv /\ Mailbox!Init
    OBVIOUS
  <1>1. listen = <<>> /\ queue = <<>> /\ locals = [k \in Procs |-> <<>>]
    BY DEF Init
  <1>2. OwnInv
    BY <1>1, EmptySeq DEF OwnInv
  <1>3. \A m : CountIn(<<>>, m) = 0
    BY FS_EmptySet, EmptySeq DEF CountIn
  <1>4. \A m \in [msg : Msgs, obj : Objs] :
            CountIn(queue, m) = 0 /\ CountIn(locals[Proc[m.obj]], m) = 0
    BY <1>1, <1>3, ProcsFinite
  <1>5. Range(listen) = {}
    BY <1>1, EmptySeq DEF Range
  <1> QED BY <1>2, <1>4, <1>5 DEF Mailbox!Init, Mailbox!Nothing, Mailbox!Mail

(* Whatever the addresses, sorting, draining, purging and delivering       *)
(* neither lose nor duplicate a mail, nor give it to another object or     *)
(* process, except that a purge drops all that is for the address of the   *)
(* object that leaves, in other processes too.                             *)
THEOREM MailboxImplemented == Spec => ImplementsMailbox
  <1>1. Init => OwnInv /\ Mailbox!Init
    BY MailboxInit
  <1>2. IInv /\ IInv' /\ OwnInv /\ [Next]_vars => OwnInv' /\ [Mailbox!Next]_(Mailbox!vars)
    BY MailboxNext
  <1>3. Spec => Mailbox!Spec
    BY <1>1, <1>2, AlwaysIInv, PTL DEF Spec, Mailbox!Spec
  <1> QED BY <1>3 DEF ImplementsMailbox
=============================================================================
