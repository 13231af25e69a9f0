------------------------ MODULE FJTimerLite_proofs ------------------------
(***************************************************************************)
(* Proofs about FJTimerLite for every set of timers and all intervals:     *)
(* type correctness, that the table is never cleared under a callback, and *)
(* that a deactivated timer is called back at most once more, when it      *)
(* had been picked before.                                                 *)
(***************************************************************************)
EXTENDS FJTimerLite, FiniteSetTheorems, TLAPS

-----------------------------------------------------------------------------
(* The inductive invariants.                                               *)

(* The table is finite: emplace adds one entry at a time.                  *)
FiniteTable == IsFiniteSet(Present)

TypeInv == TypeOK /\ FiniteTable

(* running_ covers every callback, until the loop's top clears it.         *)
RunningInv == InCallback => running

(* The thread's iterator is at end() or at a node, in the table or freed;  *)
(* a handle once deactivated has such a node for ever, and it is inactive. *)
(* No handle has two nodes, for none is given out twice.                   *)
Known(h) == timers[h] # Absent \/ freed[h] # Absent
OneNode(h) == timers[h] = Absent \/ freed[h] = Absent
Inactive(h) ==
    /\ timers[h] # Absent => ~timers[h].active
    /\ freed[h] # Absent => ~freed[h].active
RemovedInv ==
    /\ \A h \in Handles : OneNode(h)
    /\ it # End => Known(it)
    /\ \A h \in removed : Known(h) /\ Inactive(h)

(* What is picked but not yet called is not beyond its last callback.      *)
FinishedInv == finished \cap Picked = {}

IInv == TypeInv /\ RunningInv /\ RemovedInv /\ FinishedInv

-----------------------------------------------------------------------------
(* Lemmas about the iteration order.                                       *)

(* An order of a finite set is a sequence over it.                         *)
LEMMA OrderIsSequence ==
    ASSUME NEW S, IsFiniteSet(S), NEW s \in SetToSeqs(S)
    PROVE  s \in Seq(S) /\ Len(s) \in Nat /\ DOMAIN s = 1 .. Len(s)
  <1>1. Cardinality(S) \in Nat
    BY FS_CardinalityType
  <1>2. s \in [1 .. Cardinality(S) -> S]
    BY DEF SetToSeqs
  <1> QED
    BY <1>1, <1>2

(* An empty table has one order.                                           *)
LEMMA EmptyOrder == <<>> \in SetToSeqs({})
  <1>1. Cardinality({}) = 0
    BY FS_EmptySet
  <1> QED
    BY <1>1 DEF SetToSeqs

(* ++it leads to end() or to a node.                                       *)
LEMMA SuccessorsAreNodes ==
    ASSUME TypeOK, FiniteTable, NEW next \in Successors
    PROVE  next = End \/ (next \in Handles /\ Known(next))
  <1>1. CASE Dangling
    BY <1>1 DEF Successors, Known
  <1>2. CASE ~Dangling
    <2>1. PICK i \in DOMAIN order : next = IF i = Len(order) THEN End ELSE order[i + 1]
      BY <1>2 DEF Successors
    <2>2. /\ order \in Seq(Present) /\ Len(order) \in Nat
          /\ DOMAIN order = 1 .. Len(order)
      BY OrderIsSequence DEF TypeOK, FiniteTable
    <2>3. CASE i # Len(order)
      <3>1. i + 1 \in 1 .. Len(order)
        BY <2>2, <2>3
      <3>2. order[i + 1] \in Present
        BY <2>2, <3>1
      <3> QED
        BY <2>1, <2>3, <3>2 DEF Present, Known
    <2> QED
      BY <2>1, <2>3
  <1> QED
    BY <1>1, <1>2

(* The walk begins at end() or at an entry of the table.                   *)
LEMMA BegunIsNode ==
    ASSUME TypeOK, FiniteTable
    PROVE  Begun = End \/ (Begun \in Handles /\ Known(Begun))
  <1>1. order \in Seq(Present)
    BY OrderIsSequence DEF TypeOK, FiniteTable
  <1>2. CASE order # <<>>
    <2>1. Begun \in Present
      BY <1>1, <1>2 DEF Begun
    <2> QED
      BY <2>1 DEF Present, Known
  <1> QED
    BY <1>2 DEF Begun

-----------------------------------------------------------------------------
(* Lemmas about entries.                                                   *)

(* A new entry is one.                                                     *)
LEMMA NewEntry ==
    ASSUME TimerAssumption, NEW interval \in Intervals
    PROVE  TimerInfo(interval) \in TimerInfos /\ TimerInfo(interval) # Absent
  <1>1. interval \in Nat
    BY DEF TimerAssumption
  <1>2. TimerInfo(interval) \in TimerInfos
    BY <1>1 DEF TimerInfo, TimerInfos
  <1> QED
    BY <1>2 DEF TimerAssumption, TimerInfos

(* So is a deactivated one.                                                *)
LEMMA DeactivatedEntry ==
    ASSUME TimerAssumption, NEW t \in TimerInfos
    PROVE  /\ [t EXCEPT !.active = FALSE] \in TimerInfos
           /\ [t EXCEPT !.active = FALSE] # Absent
           /\ ~[t EXCEPT !.active = FALSE].active
  <1>1. [t EXCEPT !.active = FALSE] \in TimerInfos /\ ~[t EXCEPT !.active = FALSE].active
    BY DEF TimerInfos
  <1> QED
    BY <1>1 DEF TimerAssumption, TimerInfos

(* And one that is re-armed, which stays as active as it was.              *)
LEMMA RearmedEntry ==
    ASSUME TimerAssumption, NEW t \in TimerInfos
    PROVE  /\ [t EXCEPT !.remaining = t.interval] \in TimerInfos
           /\ [t EXCEPT !.remaining = t.interval] # Absent
           /\ [t EXCEPT !.remaining = t.interval].active = t.active
  <1>1. /\ [t EXCEPT !.remaining = t.interval] \in TimerInfos
        /\ [t EXCEPT !.remaining = t.interval].active = t.active
    BY DEF TimerInfos
  <1> QED
    BY <1>1 DEF TimerAssumption, TimerInfos

-----------------------------------------------------------------------------
(* Type correctness.                                                       *)

(* Steps that leave the set of timers alone keep the order one of them.    *)
LEMMA TableKept ==
    ASSUME TypeInv, Present' = Present, order' = order
    PROVE  FiniteTable' /\ (order \in SetToSeqs(Present))'
  <1>1. FiniteTable' /\ order' \in SetToSeqs(Present')
    BY DEF TypeInv, TypeOK, FiniteTable
  <1> QED
    BY <1>1

(* createTimer adds one entry of the right type.                           *)
LEMMA CreateTimerType ==
    ASSUME TimerAssumption, TypeInv,
           NEW h \in Handles, NEW interval \in Intervals, CreateTimer(h, interval)
    PROVE  TypeInv' /\ Present \subseteq Present'
  <1> USE DEF TypeInv
  <1>1. TimerInfo(interval) \in TimerInfos /\ TimerInfo(interval) # Absent
    BY NewEntry
  <1>2. timers' \in [Handles -> TimerInfos \cup {Absent}]
    BY <1>1 DEF TypeOK, CreateTimer
  <1>3. Present' = Present \cup {h}
    BY <1>1 DEF TypeOK, CreateTimer, Present
  <1>4. FiniteTable'
    BY <1>3, FS_AddElement DEF FiniteTable
  <1>5. (order \in SetToSeqs(Present))'
    <2>1. order' \in SetToSeqs(Present')
      BY <1>3 DEF CreateTimer, Orders
    <2> QED
      BY <2>1
  <1>6. base_interval_msec' \in 0 .. MaxTick
    BY DEF CreateTimer, TypeOK, TimerAssumption
  <1> QED
    BY <1>3, <1>2, <1>4, <1>5, <1>6 DEF TypeOK, CreateTimer, threadVars, history

(* removeTimer(void) and the destructor empty the table.                   *)
LEMMA ClearType ==
    ASSUME TimerAssumption, TypeInv, Clear, dtor' \in {dtor, "Cleared"}
    PROVE  TypeInv'
  <1> USE DEF TypeInv
  <1>1. /\ timers' \in [Handles -> TimerInfos \cup {Absent}]
        /\ freed' \in [Handles -> TimerInfos \cup {Absent}]
    BY DEF TypeOK, Clear, Present
  <1>2. Present' = {}
    BY DEF Clear, Present
  <1>3. FiniteTable'
    BY <1>2, FS_EmptySet DEF FiniteTable
  <1>4. (order \in SetToSeqs(Present))'
    <2>1. order' \in SetToSeqs(Present')
      BY <1>2, EmptyOrder DEF Clear
    <2> QED
      BY <2>1
  <1> QED
    BY <1>1, <1>3, <1>4 DEF TypeOK, Clear, threadVars, history, TimerAssumption

(* Deactivating or re-arming an entry keeps the table's keys.              *)
LEMMA EntryUpdated ==
    ASSUME TimerAssumption, TypeInv, NEW h \in Handles, NEW t \in TimerInfos,
           timers[h] # Absent, timers' = [timers EXCEPT ![h] = t]
    PROVE  Present' = Present /\ timers' \in [Handles -> TimerInfos \cup {Absent}]
  <1>1. t # Absent
    BY DEF TimerAssumption, TimerInfos
  <1> QED
    BY <1>1 DEF TypeInv, TypeOK, Present

LEMMA RemoveTimerType ==
    ASSUME TimerAssumption, TypeInv, NEW h \in Handles, RemoveTimer(h)
    PROVE  TypeInv' /\ Present \subseteq Present'
  <1>1. timers[h] \in TimerInfos /\ timers[h] # Absent
    BY DEF RemoveTimer, TypeInv, TypeOK, Present
  <1>2. [timers[h] EXCEPT !.active = FALSE] \in TimerInfos
    BY <1>1, DeactivatedEntry
  <1>3. Present' = Present /\ timers' \in [Handles -> TimerInfos \cup {Absent}]
    BY <1>1, <1>2, EntryUpdated DEF RemoveTimer
  <1>4. FiniteTable' /\ (order \in SetToSeqs(Present))'
    BY <1>3, TableKept DEF RemoveTimer
  <1> QED
    BY <1>3, <1>4 DEF TypeInv, TypeOK, RemoveTimer, threadVars, history

(* Re-arming writes to the entry, or to the memory of a freed one.         *)
LEMMA FireType ==
    ASSUME TimerAssumption, TypeInv, RemovedInv, Fire
    PROVE  TypeInv' /\ Present \subseteq Present'
  <1>1. it \in Handles /\ Known(it)
    BY DEF Fire, RemovedInv, TypeInv, TypeOK
  <1>2. Node \in TimerInfos
    BY <1>1 DEF Node, Dangling, Known, TypeInv, TypeOK, Fire
  <1>3. [Node EXCEPT !.remaining = Node.interval] \in TimerInfos
    BY <1>2, RearmedEntry
  <1>4. /\ timers' \in [Handles -> TimerInfos \cup {Absent}]
        /\ freed' \in [Handles -> TimerInfos \cup {Absent}]
        /\ Present' = Present
    <2>1. CASE Dangling
      BY <1>1, <1>3, <2>1 DEF Fire, Node, TypeInv, TypeOK, Present
    <2>2. CASE ~Dangling
      <3>1. timers[it] # Absent
        BY <2>2 DEF Dangling, Fire
      <3>2. timers' = [timers EXCEPT ![it] = [Node EXCEPT !.remaining = Node.interval]]
        BY <2>2 DEF Fire, Node, history
      <3> QED
        BY <1>1, <1>3, <2>2, <3>1, <3>2, EntryUpdated DEF Fire, TypeInv, TypeOK, history
    <2> QED
      BY <2>1, <2>2
  <1>5. FiniteTable' /\ (order \in SetToSeqs(Present))'
    BY <1>4, TableKept DEF Fire
  <1> QED
    BY <1>1, <1>4, <1>5 DEF TypeInv, TypeOK, Fire, history

(* After the callback the entry may be deactivated; ++it.                  *)
LEMMA AdvanceType ==
    ASSUME TimerAssumption, TypeInv, Advance
    PROVE  TypeInv' /\ Present \subseteq Present'
  <1>1. it' \in Handles \cup {End}
    BY SuccessorsAreNodes DEF Advance, TypeInv
  <1>2. timers' \in [Handles -> TimerInfos \cup {Absent}] /\ Present' = Present
        /\ removed' \subseteq Handles /\ finished' \subseteq removed'
    <2>1. CASE tpc = "Deactivate" /\ handle \in Present
      <3>1. /\ handle \in Handles
            /\ timers[handle] \in TimerInfos /\ timers[handle] # Absent
        BY <2>1 DEF TypeInv, TypeOK, Present
      <3>2. [timers[handle] EXCEPT !.active = FALSE] \in TimerInfos
        BY <3>1, DeactivatedEntry
      <3> QED
        BY <2>1, <3>1, <3>2, EntryUpdated DEF Advance, TypeInv, TypeOK
    <2>2. CASE ~(tpc = "Deactivate" /\ handle \in Present)
      BY <2>2 DEF Advance, TypeInv, TypeOK, Present, history
    <2> QED
      BY <2>1, <2>2
  <1>3. FiniteTable' /\ (order \in SetToSeqs(Present))'
    BY <1>2, TableKept DEF Advance
  <1> QED
    BY <1>1, <1>2, <1>3 DEF TypeInv, TypeOK, Advance

(* The clock touches only the time that remains.                           *)
LEMMA ElapseType ==
    ASSUME TimerAssumption, NEW t \in TimerInfos \cup {Absent}
    PROVE  /\ Elapse(t) \in TimerInfos \cup {Absent}
           /\ Elapse(t) = Absent <=> t = Absent
           /\ t # Absent => Elapse(t).active = t.active
  <1>1. CASE t = Absent
    BY <1>1 DEF Elapse
  <1>2. CASE t # Absent
    <2>1. t \in TimerInfos /\ t.remaining \in Nat
      BY <1>2 DEF TimerInfos
    <2>2. (IF t.remaining > Tick THEN t.remaining - Tick ELSE 0) \in Nat
      BY <2>1 DEF TimerAssumption
    <2>3. Elapse(t) \in TimerInfos /\ Elapse(t).active = t.active
      BY <1>2, <2>1, <2>2 DEF Elapse, TimerInfos
    <2> QED
      BY <1>2, <2>3 DEF TimerAssumption, TimerInfos
  <1> QED
    BY <1>1, <1>2

LEMMA TimePassesType ==
    ASSUME TimerAssumption, TypeInv, TimePasses
    PROVE  TypeInv' /\ Present \subseteq Present'
  <1>1. \A h \in Handles : timers[h] \in TimerInfos \cup {Absent}
                          /\ freed[h] \in TimerInfos \cup {Absent}
    BY DEF TypeInv, TypeOK
  <1>2. /\ timers' \in [Handles -> TimerInfos \cup {Absent}]
        /\ freed' \in [Handles -> TimerInfos \cup {Absent}]
    BY <1>1, ElapseType DEF TimePasses
  <1>3. Present' = Present
    BY <1>1, ElapseType DEF TimePasses, Present
  <1>4. FiniteTable' /\ (order \in SetToSeqs(Present))'
    BY <1>3, TableKept DEF TimePasses
  <1> QED
    BY <1>3, <1>2, <1>4 DEF TypeInv, TypeOK, TimePasses, threadVars, history

(* The steps that touch neither the table nor who is deactivated.          *)
Elsewhere ==
    \/ \E msec \in BaseIntervals : SetBaseIntervalMs(msec)
    \/ DtorStop \/ DtorJoined
    \/ Start \/ Sleep \/ Exit \/ Restart \/ PassOver \/ Call \/ Crash
    \/ \E negative \in BOOLEAN : Return(negative)

(* There the iterator, if it moves, moves to end() or to a node.           *)
LEMMA IteratorMoves ==
    ASSUME TypeInv, Elsewhere
    PROVE  it' = it \/ it' = End \/ (it' \in Handles /\ Known(it'))
  <1>1. CASE Start
    BY <1>1, BegunIsNode DEF Start, TypeInv
  <1>2. CASE Restart
    BY <1>2, BegunIsNode DEF Restart, StartOver, TypeInv
  <1>3. CASE PassOver
    BY <1>3, SuccessorsAreNodes DEF PassOver, TypeInv
  <1> QED
    BY <1>1, <1>2, <1>3 DEF Elsewhere, SetBaseIntervalMs, DtorStop, DtorJoined,
       Sleep, Exit, Call, Crash, Return, threadVars, history

LEMMA ElsewhereType ==
    ASSUME TimerAssumption, TypeInv, Elsewhere
    PROVE  TypeInv' /\ UNCHANGED <<tableVars, removed>>
  <1>1. UNCHANGED <<tableVars, removed>>
    BY DEF Elsewhere, SetBaseIntervalMs, DtorStop, DtorJoined, Start, Sleep, Exit,
       Restart, PassOver, Call, Crash, Return, history
  <1>2. FiniteTable' /\ (order \in SetToSeqs(Present))'
    <2>1. Present' = Present
      BY <1>1 DEF Present, tableVars
    <2> QED
      BY <1>1, <2>1, TableKept DEF tableVars
  <1>3. it' \in Handles \cup {End}
    BY IteratorMoves DEF TypeInv, TypeOK
  <1>4. base_interval_msec' \in 0 .. MaxTick
    BY DEF Elsewhere, SetBaseIntervalMs, DtorStop, DtorJoined, Start, Sleep, Exit,
       Restart, PassOver, Call, Crash, Return, TypeInv, TypeOK, TimerAssumption
  <1>5. /\ running' \in BOOLEAN /\ stop' \in BOOLEAN
        /\ handle' \in Handles \cup {End}
        /\ tpc' \in {"Start", "Top", "Waiting", "Firing", "Callback", "Deactivate",
                     "Continue", "Exited", "Crashed"}
        /\ dtor' \in {"Live", "Cleared", "Joining", "Destroyed"}
        /\ finished' \subseteq removed'
    BY DEF Elsewhere, SetBaseIntervalMs, DtorStop, DtorJoined, Start, Sleep, Exit,
       Restart, PassOver, Call, Crash, Return, TypeInv, TypeOK, threadVars, history
  <1> QED
    BY <1>1, <1>2, <1>3, <1>4, <1>5 DEF TypeInv, TypeOK, tableVars

-----------------------------------------------------------------------------
(* running_ is true throughout a callback.                                 *)
LEMMA RunningStep ==
    ASSUME RunningInv, Next
    PROVE  RunningInv'
  <1>1. CASE UserStep
    BY <1>1 DEF UserStep, CreateTimer, RemoveTimer, SetBaseIntervalMs, RemoveAllTimers,
       Clear, threadVars, history, RunningInv, InCallback
  <1>2. CASE DtorClear \/ DtorStep
    BY <1>2 DEF DtorClear, Clear, DtorStep, DtorStop, DtorJoined, threadVars, history, RunningInv,
       InCallback
  <1>3. CASE ThreadStep
    BY <1>3 DEF ThreadStep, Start, Sleep, Exit, Restart, PassOver, Fire, Call, Crash, Return,
       Advance, RunningInv, InCallback
  <1>4. CASE TimePasses
    BY <1>4 DEF TimePasses, threadVars, history, RunningInv, InCallback
  <1> QED
    BY <1>1, <1>2, <1>3, <1>4 DEF Next

-----------------------------------------------------------------------------
(* Deactivated handles stay known and inactive.                            *)

(* What is left to show when nodes stay known and inactive nodes inactive. *)
LEMMA NodesKept ==
    ASSUME TypeInv, RemovedInv,
           \A h \in Handles : OneNode(h) => OneNode(h)',
           \A h \in Handles : Known(h) => Known(h)',
           \A h \in Handles : Known(h) /\ Inactive(h) => Inactive(h)',
           it' = it \/ it' = End \/ (it' \in Handles /\ Known(it')),
           \A h \in removed' : h \in removed \/ (h \in Handles /\ Known(h)' /\ Inactive(h)')
    PROVE  RemovedInv'
  <1>1. it' # End => Known(it)'
    <2>1. it' # End => it' \in Handles /\ Known(it')
      BY DEF RemovedInv, TypeInv, TypeOK
    <2>2. it' # End => timers'[it'] # Absent \/ freed'[it'] # Absent
      BY <2>1 DEF Known
    <2> QED
      BY <2>2 DEF Known
  <1>2. \A h \in removed' : Known(h)' /\ Inactive(h)'
    BY DEF RemovedInv, TypeInv, TypeOK
  <1> QED
    BY <1>1, <1>2 DEF RemovedInv, Known, Inactive, OneNode

(* Deactivating an entry keeps all nodes known and inactive ones inactive. *)
LEMMA Deactivated ==
    ASSUME TimerAssumption, TypeInv, NEW h \in Handles, timers[h] # Absent,
           timers' = [timers EXCEPT ![h].active = FALSE], freed' = freed,
           RemovedInv
    PROVE  /\ \A k \in Handles : Known(k) => Known(k)'
           /\ \A k \in Handles : Known(k) /\ Inactive(k) => Inactive(k)'
           /\ \A k \in Handles : OneNode(k) => OneNode(k)'
           /\ Known(h)' /\ Inactive(h)'
  <1>1. timers[h] \in TimerInfos
    BY DEF TypeInv, TypeOK
  <1>2. timers'[h] # Absent /\ ~timers'[h].active
    BY <1>1, DeactivatedEntry DEF TypeInv, TypeOK
  <1>3. \A k \in Handles \ {h} : timers'[k] = timers[k]
    BY DEF TypeInv, TypeOK
  <1> QED
    BY <1>2, <1>3 DEF Known, Inactive, OneNode, RemovedInv

LEMMA RemovedStep ==
    ASSUME TimerAssumption, TypeInv, RemovedInv, Next
    PROVE  RemovedInv'
  <1>1. ASSUME NEW h \in Handles, NEW interval \in Intervals, CreateTimer(h, interval)
        PROVE  RemovedInv'
    <2>1. TimerInfo(interval) # Absent
      BY NewEntry
    <2> QED
      BY <1>1, <2>1, NodesKept DEF CreateTimer, Known, Inactive, OneNode, TypeInv, TypeOK, threadVars, history
  <1>2. ASSUME NEW h \in Handles, RemoveTimer(h)
        PROVE  RemovedInv'
    BY <1>2, Deactivated, NodesKept DEF RemoveTimer, Present, threadVars, history
  <1>3. CASE Clear
    BY <1>3, NodesKept DEF Clear, Present, Known, Inactive, OneNode, TypeInv, TypeOK, threadVars, history
  <1>4. CASE Elsewhere
    <2>1. UNCHANGED <<timers, freed, removed>>
      BY <1>4, ElsewhereType DEF tableVars
    <2> QED
      BY <1>4, <2>1, IteratorMoves, NodesKept DEF Known, Inactive, OneNode
  <1>5. CASE Fire
    <2>1. it \in Handles /\ Known(it)
      BY <1>5 DEF Fire, RemovedInv, TypeInv, TypeOK
    <2>2. Node \in TimerInfos
      BY <1>5, <2>1 DEF Node, Dangling, Known, TypeInv, TypeOK, Fire
    <2> DEFINE rearmed == [Node EXCEPT !.remaining = Node.interval]
    <2>3. rearmed # Absent /\ rearmed.active = Node.active
      BY <2>2, RearmedEntry
    <2>4. CASE Dangling
      <3>1. UNCHANGED <<timers, it, removed>> /\ freed' = [freed EXCEPT ![it] = rearmed]
        BY <1>5, <2>4 DEF Fire, Node, history
      <3>2. Node = freed[it] /\ freed[it] # Absent
        BY <2>1, <2>4 DEF Node, Known, Dangling
      <3> HIDE DEF rearmed
      <3>3. /\ freed'[it] = rearmed
            /\ \A h \in Handles \ {it} : freed'[h] = freed[h]
        BY <2>1, <3>1 DEF TypeInv, TypeOK
      <3> QED
        BY <2>1, <2>3, <3>1, <3>2, <3>3, NodesKept DEF Known, Inactive, OneNode
    <2>5. CASE ~Dangling
      <3>1. UNCHANGED <<freed, it, removed>> /\ timers' = [timers EXCEPT ![it] = rearmed]
        BY <1>5, <2>5 DEF Fire, Node, history
      <3>2. Node = timers[it] /\ timers[it] # Absent
        BY <1>5, <2>5 DEF Node, Dangling, Fire
      <3> HIDE DEF rearmed
      <3>3. /\ timers'[it] = rearmed
            /\ \A h \in Handles \ {it} : timers'[h] = timers[h]
        BY <2>1, <3>1 DEF TypeInv, TypeOK
      <3> QED
        BY <2>1, <2>3, <3>1, <3>2, <3>3, NodesKept DEF Known, Inactive, OneNode
    <2> QED
      BY <2>4, <2>5
  <1>6. CASE Advance
    <2>1. it' = End \/ (it' \in Handles /\ Known(it'))
      BY <1>6, SuccessorsAreNodes DEF Advance, TypeInv
    <2>2. CASE tpc = "Deactivate" /\ handle \in Present
      BY <1>6, <2>1, <2>2, Deactivated, NodesKept DEF Advance, Present
    <2>3. CASE ~(tpc = "Deactivate" /\ handle \in Present)
      BY <1>6, <2>1, <2>3, NodesKept DEF Advance, Known, Inactive, OneNode, history
    <2> QED
      BY <2>2, <2>3
  <1>7. CASE TimePasses
    <2>1. ASSUME NEW h \in Handles
          PROVE  /\ timers'[h] = Absent <=> timers[h] = Absent
                 /\ freed'[h] = Absent <=> freed[h] = Absent
                 /\ timers[h] # Absent => timers'[h].active = timers[h].active
                 /\ freed[h] # Absent => freed'[h].active = freed[h].active
      <3>1. timers[h] \in TimerInfos \cup {Absent} /\ freed[h] \in TimerInfos \cup {Absent}
        BY DEF TypeInv, TypeOK
      <3>2. timers'[h] = Elapse(timers[h]) /\ freed'[h] = Elapse(freed[h])
        BY <1>7 DEF TimePasses
      <3> QED
        BY <3>1, <3>2, ElapseType
    <2>2. \A h \in Handles :
            (OneNode(h) => OneNode(h)') /\ (Known(h) => Known(h)') /\ (Inactive(h) => Inactive(h)')
      BY <2>1 DEF Known, Inactive, OneNode
    <2> QED
      BY <1>7, <2>2, NodesKept DEF TimePasses, threadVars, history
  <1> QED
    BY <1>1, <1>2, <1>3, <1>4, <1>5, <1>6, <1>7 DEF Next, UserStep, RemoveAllTimers,
       DtorClear, DtorStep, ThreadStep, Elsewhere

-----------------------------------------------------------------------------
(* Only an active entry is picked, so none whose last callback has begun.  *)
LEMMA FinishedStep ==
    ASSUME TypeInv, RemovedInv, FinishedInv, Next
    PROVE  FinishedInv'
  <1>1. CASE Fire
    <2>1. finished' = finished /\ Picked' = {it} /\ it # End /\ Node.active
      BY <1>1 DEF Fire, Picked, Due, history
    <2>2. it \notin removed
      <3>1. it \in removed => Known(it) /\ Inactive(it)
        BY DEF RemovedInv
      <3> QED
        BY <1>1, <2>1, <3>1 DEF Node, Dangling, Known, Inactive, Fire
    <2> QED
      BY <2>1, <2>2 DEF FinishedInv, TypeInv, TypeOK
  <1>2. ASSUME NEW h \in Handles, RemoveTimer(h)
        PROVE  FinishedInv'
    <2>1. Picked' = Picked /\ finished' = finished \cup ({h} \ Picked)
      BY <1>2 DEF RemoveTimer, Picked, threadVars
    <2> QED
      BY <2>1 DEF FinishedInv
  <1>3. CASE Call \/ Advance
    <2>1. Picked' = {}
      BY <1>3 DEF Call, Advance, Picked
    <2> QED
      BY <2>1 DEF FinishedInv
  <1>4. ASSUME finished' = finished, Picked' \subseteq Picked
        PROVE  FinishedInv'
    BY <1>4 DEF FinishedInv
  <1>5. CASE UserStep /\ ~(\E h \in Handles : RemoveTimer(h))
    BY <1>4, <1>5 DEF UserStep, CreateTimer, SetBaseIntervalMs, RemoveAllTimers, Clear,
       Picked, threadVars, history
  <1>6. CASE DtorClear \/ DtorStep \/ TimePasses
    BY <1>4, <1>6 DEF DtorClear, Clear, DtorStep, DtorStop, DtorJoined, TimePasses,
       Picked, threadVars, history
  <1>7. CASE ThreadStep /\ ~Fire /\ ~Call /\ ~Advance
    BY <1>4, <1>7 DEF ThreadStep, Start, Sleep, Exit, Restart, PassOver, Crash, Return,
       Picked, history
  <1> QED
    BY <1>1, <1>2, <1>3, <1>5, <1>6, <1>7 DEF Next, UserStep

-----------------------------------------------------------------------------
(* The invariant.                                                          *)

LEMMA InitIInv ==
    ASSUME TimerAssumption, Init
    PROVE  IInv
  <1>1. Present = {}
    BY DEF Init, Present
  <1>2. FiniteTable /\ order \in SetToSeqs(Present)
    BY <1>1, EmptyOrder, FS_EmptySet DEF Init, FiniteTable
  <1>3. TypeOK
    <2>1. /\ timers \in [Handles -> TimerInfos \cup {Absent}]
          /\ freed \in [Handles -> TimerInfos \cup {Absent}]
      BY DEF Init
    <2>2. base_interval_msec \in 0 .. MaxTick
      BY DEF Init, TimerAssumption
    <2> QED
      BY <1>2, <2>1, <2>2 DEF Init, TypeOK
  <1> QED
    <2>1. RunningInv
      BY DEF Init, RunningInv, InCallback
    <2>2. RemovedInv
      BY DEF Init, RemovedInv, OneNode
    <2>3. FinishedInv
      BY DEF Init, FinishedInv
    <2> QED
      BY <1>2, <1>3, <2>1, <2>2, <2>3 DEF IInv, TypeInv

LEMMA TypeStep ==
    ASSUME TimerAssumption, TypeInv, RemovedInv, Next
    PROVE  TypeInv'
  <1>1. CASE RemoveAllTimers \/ DtorClear
    BY <1>1, ClearType DEF RemoveAllTimers, DtorClear
  <1>2. CASE Elsewhere
    BY <1>2, ElsewhereType
  <1> QED
    BY <1>1, <1>2, CreateTimerType, RemoveTimerType, FireType, AdvanceType, TimePassesType
       DEF Next, UserStep, DtorStep, ThreadStep, Elsewhere

(* Entries are erased by clear() alone.                                    *)
LEMMA OnlyClearErases ==
    ASSUME TimerAssumption, TypeInv, RemovedInv, Next, ~Clear
    PROVE  Present \subseteq Present'
  <1>1. CASE Elsewhere
    BY <1>1, ElsewhereType DEF Present, tableVars
  <1> QED
    BY <1>1, CreateTimerType, RemoveTimerType, FireType, AdvanceType, TimePassesType
       DEF Next, UserStep, RemoveAllTimers, DtorClear, DtorStep, ThreadStep, Elsewhere

LEMMA StutterIInv ==
    ASSUME IInv, UNCHANGED vars
    PROVE  IInv'
  <1>1. Present' = Present
    BY DEF vars, Present
  <1>2. TypeInv'
    <2>1. FiniteTable' /\ (order \in SetToSeqs(Present))'
      BY <1>1, TableKept DEF IInv, vars
    <2> QED
      BY <2>1 DEF IInv, TypeInv, TypeOK, vars
  <1> QED
    BY <1>2 DEF IInv, RunningInv, InCallback, RemovedInv, Known, Inactive, OneNode,
       FinishedInv, Picked, vars

(* Every reachable state satisfies the inductive invariant.                *)
LEMMA Invariant == Spec => []IInv
  <1> USE TimerAssumption
  <1>1. Init => IInv
    BY InitIInv
  <1>2. IInv /\ [Next]_vars => IInv'
    BY TypeStep, RunningStep, RemovedStep, FinishedStep, StutterIInv DEF IInv
  <1> QED
    BY <1>1, <1>2, PTL DEF Spec

(* The values of the variables are those the code's types and tests allow: *)
(* in particular the iteration order is always one of the table's entries, *)
(* and the iterator at one of them, at end() or at a freed one.            *)
THEOREM TypeCorrect == Spec => []TypeOK
  <1>1. IInv => TypeOK
    BY DEF IInv, TypeInv
  <1> QED
    BY <1>1, Invariant, PTL

(* fjtimerlite.h:59-73: removeTimer(void) and the destructor erase entries *)
(* only while the timer thread is not in a callback.                       *)
THEOREM TableClearedOutsideCallbacks == Spec => ClearWaitsForCallback
  <1> USE TimerAssumption
  <1> DEFINE Cleared == \E h \in Handles : timers[h] # Absent /\ timers'[h] = Absent
  <1>1. IInv /\ IInv' /\ [Next]_vars => [Cleared => ~InCallback]_vars
    <2> SUFFICES ASSUME IInv, IInv', Next, Cleared
                 PROVE  ~InCallback
      OBVIOUS
    <2>1. CASE Clear
      BY <2>1 DEF Clear, Quiescent, IInv, RunningInv
    <2>2. CASE ~Clear
      <3>1. Present \subseteq Present'
        BY <2>2, OnlyClearErases DEF IInv
      <3> QED
        BY <3>1 DEF Present
    <2> QED
      BY <2>1, <2>2
  <1> QED
    BY <1>1, Invariant, PTL DEF Spec, ClearWaitsForCallback

(* fjtimerlite.h:147-156, 290, 305-327: a timer that removeTimer(handle)   *)
(* has deactivated is called back once more only if the thread had copied  *)
(* its entry before; one whose result was negative is not.                 *)
THEOREM AtMostOneLateCall == Spec => LastCallIsLast
  <1>1. IInv /\ [Next]_vars => [\A h \in finished : ~Begins(h)]_vars
    BY DEF IInv, FinishedInv, Picked, Begins
  <1> QED
    BY <1>1, Invariant, PTL DEF Spec, LastCallIsLast
=============================================================================
