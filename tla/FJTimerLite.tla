---------------------------- MODULE FJTimerLite ----------------------------
(***************************************************************************)
(* FJTimerLite: one thread that walks over the timer table, one entry per  *)
(* wakeup, and calls back those that are due; user threads (and callbacks) *)
(* that create, remove and inspect timers; and the destructor.             *)
(*                                                                         *)
(* Every critical section of mutex_ is one action.  The walk keeps its     *)
(* iterator "it" from one critical section to the next: removeTimer(void)  *)
(* may have emptied the table in between.                                  *)
(***************************************************************************)
EXTENDS Integers, SequencesExt

CONSTANTS Handles,       \* the timers that may be created, each once
          Intervals,     \* the values of interval_msec that callers pass
          BaseIntervals, \* the values callers pass to setBaseIntervalMs
          MinTick,       \* FJTIMERLITE_MIN_TICK_MSEC
          MaxTick,       \* FJTIMERLITE_MAX_TICK_MSEC
          Tick,          \* bound: how far the clock advances in one step
          End,           \* timers_.end()
          Absent,        \* the handle is not in timers_
          MayRemoveAll   \* bound: whether removeTimer(void) is called

ASSUME TimerAssumption ==
    /\ Intervals \subseteq Nat /\ BaseIntervals \subseteq Nat
    /\ MinTick \in Nat \ {0} /\ MaxTick \in Nat /\ MinTick <= MaxTick
    /\ Tick \in Nat \ {0}
    /\ End \notin Handles
    /\ Absent \notin [interval : Nat, remaining : Nat, active : BOOLEAN]
    /\ MayRemoveAll \in BOOLEAN

VARIABLES base_interval_msec,  \* base_interval_msec_
          running,             \* running_
          stop,                \* stop_
          timers,              \* timers_
          order,               \* the order in which timers_ is iterated
          freed,               \* what erased nodes of timers_ last held
          it,                  \* timerThread's iterator: the node it points at
          handle,              \* timerThread's local handle
          tpc,                 \* where the timer thread is
          dtor,                \* where ~FJTimerLite is
          removed,             \* history: handles that removeTimer(handle)
                               \* or a negative result has deactivated
          finished             \* history: those of them whose last callback
                               \* had begun by then, or has begun since

vars == <<base_interval_msec, running, stop, timers, order, freed, it, handle,
          tpc, dtor, removed, finished>>
tableVars == <<timers, order, freed>>
threadVars == <<it, handle, tpc>>
history == <<removed, finished>>

(* TimerInfo.  next_time is kept relative to the clock: "remaining" is   *)
(* how long it is until next_time, 0 when that has been reached.           *)
TimerInfos == [interval : Nat, remaining : Nat, active : BOOLEAN]
TimerInfo(interval) == [interval |-> interval, remaining |-> interval, active |-> TRUE]
Present == {h \in Handles : timers[h] # Absent}
Begun == IF order = <<>> THEN End ELSE Head(order)

Init ==
    /\ base_interval_msec = MaxTick
    /\ running = FALSE
    /\ stop = FALSE
    /\ timers = [h \in Handles |-> Absent]
    /\ order = <<>>
    /\ freed = [h \in Handles |-> Absent]
    /\ it = End
    /\ handle = End
    /\ tpc = "Start"
    /\ dtor = "Live"
    /\ removed = {}
    /\ finished = {}

-----------------------------------------------------------------------------
(* User calls.  They may come from any thread, callbacks included, until   *)
(* the destructor runs or the program has crashed.                         *)

Alive == tpc # "Crashed"
Callable == Alive /\ dtor = "Live"

(* emplace may rehash timers_, so the new iteration order is any order.  A *)
(* rehash invalidates timerThread's iterator by the standard; in libstdc++ *)
(* it still points at its node, and the model follows that.                *)
Orders(S) == SetToSeqs(S)

CreateTimer(h, interval) ==
    /\ Callable
    /\ timers[h] = Absent /\ freed[h] = Absent
    /\ interval >= MinTick
    /\ timers' = [timers EXCEPT ![h] = TimerInfo(interval)]
    /\ order' \in Orders(Present \cup {h})
    /\ base_interval_msec' = IF base_interval_msec > interval \div 5 THEN interval \div 5
                             ELSE base_interval_msec
    /\ UNCHANGED <<running, stop, freed, threadVars, dtor, history>>

(* What timerThread has copied under the mutex but not yet called.         *)
Picked == IF tpc = "Firing" THEN {handle} ELSE {}

(* removeTimer(handle) deactivates; the entry stays in the table.          *)
RemoveTimer(h) ==
    /\ Callable
    /\ h \in Present
    /\ timers' = [timers EXCEPT ![h].active = FALSE]
    /\ removed' = removed \cup {h}
    /\ finished' = finished \cup ({h} \ Picked)
    /\ UNCHANGED <<base_interval_msec, running, stop, order, freed, threadVars, dtor>>

IsActiveTimer(h) == h \in Present /\ timers[h].active

SetBaseIntervalMsAnyMax(msec) ==
    /\ Callable
    /\ msec >= MinTick
    /\ base_interval_msec' = msec
    /\ UNCHANGED <<running, stop, tableVars, threadVars, dtor, history>>
SetBaseIntervalMs(msec) ==
    /\ Callable
    /\ msec \in MinTick .. MaxTick
    /\ base_interval_msec' = msec
    /\ UNCHANGED <<running, stop, tableVars, threadVars, dtor, history>>

(* removeTimer(void) polls until no callback is running, then clears.      *)
QuiescentAlways == TRUE
Quiescent == ~running

Clear ==
    /\ Quiescent
    /\ freed' = [h \in Handles |-> IF h \in Present THEN timers[h] ELSE freed[h]]
    /\ timers' = [h \in Handles |-> Absent]
    /\ order' = <<>>
    /\ base_interval_msec' = MaxTick
    /\ UNCHANGED <<running, stop, threadVars, history>>

RemoveAllTimers ==
    /\ MayRemoveAll /\ Callable
    /\ Clear
    /\ UNCHANGED dtor

-----------------------------------------------------------------------------
(* The destructor.                                                         *)

DtorClear ==
    /\ MayRemoveAll /\ Callable
    /\ Clear
    /\ dtor' = "Cleared"

DtorStop ==
    /\ Alive /\ dtor = "Cleared"
    /\ stop' = TRUE
    /\ dtor' = "Joining"
    /\ UNCHANGED <<base_interval_msec, running, tableVars, threadVars, history>>

DtorJoined ==
    /\ dtor = "Joining" /\ tpc = "Exited"
    /\ dtor' = "Destroyed"
    /\ UNCHANGED <<base_interval_msec, running, stop, tableVars, threadVars, history>>

-----------------------------------------------------------------------------
(* timerThread.                                                            *)

(* The node that it points at: in the table, or freed with whatever is     *)
(* still in its memory.                                                    *)
Dangling == it # End /\ timers[it] = Absent
Node == IF Dangling THEN freed[it] ELSE timers[it]
DueAnyway(t) == t.remaining = 0
Due(t) == t.active /\ t.remaining = 0

(* ++it: of a freed node the successor is any other one or the end.        *)
Successors ==
    IF Dangling THEN {End} \cup {h \in Handles : freed[h] # Absent}
    ELSE {IF i = Len(order) THEN End ELSE order[i + 1] :
             i \in {j \in DOMAIN order : order[j] = it}}

Start ==
    /\ tpc = "Start"
    /\ it' = Begun
    /\ tpc' = "Top"
    /\ UNCHANGED <<base_interval_msec, running, stop, tableVars, handle, dtor, history>>

(* The loop's top: clear running_ and sleep on cv_ for some time.          *)
Sleep ==
    /\ tpc = "Top"
    /\ running' = FALSE
    /\ tpc' = "Waiting"
    /\ UNCHANGED <<base_interval_msec, stop, tableVars, it, handle, dtor, history>>

(* The rest of the critical section begins when the timed wait returns,    *)
(* because of its timeout, a broadcast or spuriously: at any time.  What   *)
(* it does depends on stop_, on the iterator and on the entry.             *)
StopSeenNever == FALSE
StopSeen == stop

Exit ==
    /\ tpc = "Waiting" /\ StopSeen
    /\ tpc' = "Exited"
    /\ UNCHANGED <<base_interval_msec, running, stop, tableVars, it, handle, dtor, history>>

StartOverNever == End
StartOver == Begun

Restart ==
    /\ tpc = "Waiting" /\ ~StopSeen /\ it = End
    /\ it' = StartOver
    /\ base_interval_msec' = IF Present = {} THEN MaxTick ELSE base_interval_msec
    /\ tpc' = "Top"
    /\ UNCHANGED <<running, stop, tableVars, handle, dtor, history>>

PassOver ==
    /\ tpc = "Waiting" /\ ~StopSeen /\ it # End /\ ~Due(Node)
    /\ it' \in Successors
    /\ tpc' = "Top"
    /\ UNCHANGED <<base_interval_msec, running, stop, tableVars, handle, dtor, history>>

(* The entry is copied and re-armed, and the mutex released.               *)
Fire ==
    /\ tpc = "Waiting" /\ ~StopSeen /\ it # End /\ Due(Node)
    /\ running' = TRUE
    /\ handle' = it
    /\ IF Dangling
       THEN freed' = [freed EXCEPT ![it].remaining = Node.interval] /\ UNCHANGED timers
       ELSE timers' = [timers EXCEPT ![it].remaining = Node.interval] /\ UNCHANGED freed
    /\ tpc' = "Firing"
    /\ UNCHANGED <<base_interval_msec, stop, order, it, dtor, history>>

(* The callback begins, whatever has become of the timer meanwhile.        *)
Call ==
    /\ tpc = "Firing"
    /\ tpc' = "Callback"
    /\ finished' = finished \cup (removed \cap {handle})
    /\ UNCHANGED <<base_interval_msec, running, stop, tableVars, it, handle, dtor, removed>>

(* Dereferencing a freed node may also crash the program.                  *)
Crash ==
    /\ tpc = "Waiting" /\ ~StopSeen /\ Dangling
    /\ tpc' = "Crashed"
    /\ UNCHANGED <<base_interval_msec, running, stop, tableVars, it, handle, dtor, history>>

(* The callback returns; negative tells whether its result is below 0.     *)
Return(negative) ==
    /\ tpc = "Callback"
    /\ tpc' = IF negative THEN "Deactivate" ELSE "Continue"
    /\ UNCHANGED <<base_interval_msec, running, stop, tableVars, it, handle, dtor, history>>

Advance ==
    /\ tpc \in {"Deactivate", "Continue"}
    /\ IF tpc = "Deactivate" /\ handle \in Present
       THEN /\ timers' = [timers EXCEPT ![handle].active = FALSE]
            /\ removed' = removed \cup {handle}
            /\ finished' = finished \cup {handle}
       ELSE UNCHANGED <<timers, history>>
    /\ it' \in Successors
    /\ tpc' = "Top"
    /\ UNCHANGED <<base_interval_msec, running, stop, order, freed, handle, dtor>>

ThreadStep ==
    \/ Start \/ Sleep \/ Exit \/ Restart \/ PassOver \/ Fire \/ Call \/ Crash
    \/ \E negative \in BOOLEAN : Return(negative)
    \/ Advance

-----------------------------------------------------------------------------
(* The clock advances.                                                     *)
Elapse(t) ==
    IF t = Absent THEN t
    ELSE [t EXCEPT !.remaining = IF @ > Tick THEN @ - Tick ELSE 0]

TimePasses ==
    /\ Alive
    /\ timers' = [h \in Handles |-> Elapse(timers[h])]
    /\ freed' = [h \in Handles |-> Elapse(freed[h])]
    /\ UNCHANGED <<base_interval_msec, running, stop, order, threadVars, dtor, history>>

UserStep ==
    \/ \E h \in Handles, interval \in Intervals : CreateTimer(h, interval)
    \/ \E h \in Handles : RemoveTimer(h)
    \/ \E msec \in BaseIntervals : SetBaseIntervalMs(msec)
    \/ RemoveAllTimers

DtorStep == DtorStop \/ DtorJoined

Next == UserStep \/ DtorClear \/ DtorStep \/ ThreadStep \/ TimePasses

(* The timer thread runs, its timed waits end, callbacks return and time   *)
(* passes; the destructor, once begun, goes on.                            *)
Fairness == WF_vars(ThreadStep) /\ WF_vars(TimePasses) /\ WF_vars(DtorStep)

Spec == Init /\ [][Next]_vars /\ Fairness

-----------------------------------------------------------------------------
InCallback == tpc \in {"Firing", "Callback", "Deactivate", "Continue"}

TypeOK ==
    /\ base_interval_msec \in 0 .. MaxTick
    /\ running \in BOOLEAN /\ stop \in BOOLEAN
    /\ timers \in [Handles -> TimerInfos \cup {Absent}]
    /\ freed \in [Handles -> TimerInfos \cup {Absent}]
    /\ order \in SetToSeqs(Present)
    /\ it \in Handles \cup {End} /\ handle \in Handles \cup {End}
    /\ tpc \in {"Start", "Top", "Waiting", "Firing", "Callback", "Deactivate",
                "Continue", "Exited", "Crashed"}
    /\ dtor \in {"Live", "Cleared", "Joining", "Destroyed"}
    /\ removed \subseteq Handles /\ finished \subseteq removed

(* removeTimer(void) never pulls the table away from under a callback: the *)
(* entries are erased only while the timer thread is neither in one nor    *)
(* between the copy of an entry and the call, which outlives the mutex.    *)
(* It does not say that the cleared timers are never called afterwards.    *)
ClearWaitsForCallback ==
    [][(\E h \in Handles : timers[h] # Absent /\ timers'[h] = Absent) => ~InCallback]_vars

(* A deactivated timer is called back at most once more, and only when the *)
(* thread had already copied its entry; it never is after a negative       *)
(* result, if its entry was in the table then.  The thread's iterator may  *)
(* stand on the entry all the while, and the entry may be freed later.     *)
(* That removeTimer(handle) returns true does not mean more than this.     *)
Begins(h) == tpc = "Firing" /\ tpc' = "Callback" /\ handle = h
LastCallIsLast == [][\A h \in finished : ~Begins(h)]_vars

(* removeTimer(void) is documented as the deletion of all timers           *)
(* (fjtimerlite.h:57): no callback of a deleted timer begins afterwards.   *)
AllRemovedNeverStart == [][\A h \in Handles : freed[h] # Absent => ~Begins(h)]_vars

(* Every active timer is called back again and again until it is           *)
(* deactivated or deleted, however many others are due all the time and    *)
(* although only one entry is looked at per wakeup - unless removeTimer    *)
(* (void) has left the walk with an iterator to a freed entry.             *)
TimerFires ==
    \A h \in Handles :
        IsActiveTimer(h)
            ~> (tpc = "Callback" /\ handle = h) \/ ~IsActiveTimer(h) \/ Dangling

(* The destructor's join returns, although its broadcast may come while    *)
(* the timer thread is in a callback or just about to sleep.               *)
TimerDestructorReturns == dtor = "Cleared" ~> dtor = "Destroyed" \/ tpc = "Crashed"
=============================================================================
