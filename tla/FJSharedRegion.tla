--------------------------- MODULE FJSharedRegion ---------------------------
(***************************************************************************)
(* FJSharedMem: how the shared region comes and goes.  Every constructor   *)
(* opens it by its name or creates it, waits a while for the creator to    *)
(* initialise it and counts its object in; the destructor that counts down *)
(* to 0 removes the name.  FJSyncGuard borrows the region's mutex.         *)
(*                                                                         *)
(* Every call of the operating system is an action, so that constructors   *)
(* and destructors overlap at all of them: two may create the region, a    *)
(* slave may go on before it is initialised or die of a region that has no *)
(* size yet, and a name may be removed that is somebody else's by now.     *)
(* Listeners, mails and workers are in FJSharedMem.tla.                    *)
(***************************************************************************)
EXTENDS Integers, FiniteSets

CONSTANTS Objs,     \* FJSharedMem objects, constructed again and again
          Proc,     \* the process of each object
          ShmName,  \* shm_name_ of each object, the name of its extra area
          Regions,  \* memory for regions, reused when nobody maps it any more
          None,     \* no region, no object
          UintMax   \* the largest value of initialized_

Procs == {Proc[o] : o \in Objs}

ASSUME RegionAssumption ==
    /\ DOMAIN Proc = Objs /\ DOMAIN ShmName = Objs
    /\ None \notin Regions \cup Objs
    /\ IsFiniteSet(Objs) /\ Objs # {} /\ UintMax \in Nat /\ Cardinality(Objs) <= UintMax

VARIABLES name,      \* the region that C_FJNT_SHAREDREGION_NAME names, or None
          extra,     \* the names of the extra areas that exist
          region,    \* what each region holds
          static,    \* the static "initialized" of initSharedRegion, per process
          pc,        \* where each object's constructor or destructor is
          is_create, \* the constructor's local is_create, until it is read
          mapped,    \* shared_region_: the region each object has opened
          lock,      \* lock_ of the FJSyncGuard on each object, "None" without one
          spoiled    \* history: regions initialised while in use, or in which
                     \* a process has died

vars == <<name, extra, region, static, pc, is_create, mapped, lock, spoiled>>
localVars == <<static, is_create>>
systemVars == <<name, extra>>

(* New memory is zero - no object, and a mutex that is free and not shared *)
(* - and there is none before ftruncate.                                   *)
New == [sized |-> FALSE, initialized |-> 0, shared |-> FALSE, owner |-> None]

Init ==
    /\ name = None
    /\ extra = {}
    /\ region = [r \in Regions |-> New]
    /\ static = [k \in Procs |-> FALSE]
    /\ pc = [o \in Objs |-> "Gone"]
    /\ is_create = [o \in Objs |-> FALSE]
    /\ mapped = [o \in Objs |-> None]
    /\ lock = [o \in Objs |-> "None"]
    /\ spoiled = {}

At(pcs) == {o \in Objs : pc[o] \in pcs}
Goto(o, where) == pc' = [pc EXCEPT ![o] = where]
Mine(o) == region[mapped[o]]

-----------------------------------------------------------------------------
(* The constructor.                                                        *)

(* shm_open without O_CREAT.                                               *)
Open(o) ==
    /\ pc[o] = "Gone"
    /\ IF name = None
       THEN Goto(o, "Create") /\ UNCHANGED mapped
       ELSE Goto(o, "OpenExtra") /\ mapped' = [mapped EXCEPT ![o] = name]
    /\ UNCHANGED <<systemVars, region, localVars, lock, spoiled>>

(* shm_open with O_CREAT but not O_EXCL: it may find a region after all.   *)
Create(o) ==
    /\ pc[o] = "Create"
    /\ Goto(o, "Truncate")
    /\ IF name # None
       THEN mapped' = [mapped EXCEPT ![o] = name] /\ UNCHANGED <<name, region, spoiled>>
       ELSE \E r \in {r \in Regions : \A other \in Objs : mapped[other] # r} :
                /\ name' = r
                /\ region' = [region EXCEPT ![r] = New]
                /\ mapped' = [mapped EXCEPT ![o] = r]
                /\ spoiled' = spoiled \ {r}
    /\ UNCHANGED <<extra, localVars, lock>>

Truncate(o) ==
    /\ pc[o] = "Truncate"
    /\ region' = [region EXCEPT ![mapped[o]].sized = TRUE]
    /\ is_create' = [is_create EXCEPT ![o] = TRUE]
    /\ Goto(o, "OpenExtra")
    /\ UNCHANGED <<systemVars, static, mapped, lock, spoiled>>

(* The extra area: the same two calls, and then the creator initialises    *)
(* the region and the slave waits for that.                                *)
AfterExtra(o) ==
    /\ Goto(o, IF is_create[o] THEN "Init" ELSE "Spin")
    /\ is_create' = [is_create EXCEPT ![o] = FALSE]

OpenExtra(o) ==
    /\ pc[o] = "OpenExtra"
    /\ IF ShmName[o] \in extra THEN AfterExtra(o)
       ELSE Goto(o, "CreateExtra") /\ UNCHANGED is_create
    /\ UNCHANGED <<systemVars, region, static, mapped, lock, spoiled>>

CreateExtra(o) ==
    /\ pc[o] = "CreateExtra"
    /\ extra' = extra \cup {ShmName[o]}
    /\ AfterExtra(o)
    /\ UNCHANGED <<name, region, static, mapped, lock, spoiled>>

(* initSharedRegion: the static flag makes it a no-op for every region but *)
(* the first that a process creates; another is used as the zeros it is.   *)
(* The flag is tested and set without a lock.                              *)
TestStatic(o) ==
    /\ pc[o] = "Init"
    /\ Goto(o, IF static[Proc[o]] THEN "Lock" ELSE "InitMutex")
    /\ UNCHANGED <<systemVars, region, localVars, mapped, lock, spoiled>>

(* Whoever uses the region now is not asked.                               *)
Spoil(o) ==
    spoiled' = IF Mine(o).initialized # 0 \/ Mine(o).owner # None
               THEN spoiled \cup {mapped[o]} ELSE spoiled

InitMutex(o) ==
    /\ pc[o] = "InitMutex"
    /\ static' = [static EXCEPT ![Proc[o]] = TRUE]
    /\ region' = [region EXCEPT ![mapped[o]].shared = TRUE, ![mapped[o]].owner = None]
    /\ Spoil(o)
    /\ Goto(o, "InitCount")
    /\ UNCHANGED <<systemVars, is_create, mapped, lock>>

InitCount(o) ==
    /\ pc[o] = "InitCount"
    /\ region' = [region EXCEPT ![mapped[o]].initialized = 0]
    /\ Spoil(o)
    /\ Goto(o, "Lock")
    /\ UNCHANGED <<systemVars, localVars, mapped, lock>>

(* A slave polls initialized_ for 100 ms and goes on whatever it has read. *)
Spin(o) ==
    /\ pc[o] = "Spin" /\ Mine(o).sized
    /\ Goto(o, "Lock")
    /\ UNCHANGED <<systemVars, region, localVars, mapped, lock, spoiled>>

(* To read a region that has no size kills the process.                    *)
Crash(o) ==
    LET killed == {p \in Objs : Proc[p] = Proc[o]}
    IN  /\ pc[o] = "Spin" /\ ~Mine(o).sized
        /\ pc' = [p \in Objs |-> IF p \in killed THEN "Dead" ELSE pc[p]]
        /\ is_create' = [p \in Objs |-> IF p \in killed THEN FALSE ELSE is_create[p]]
        /\ mapped' = [p \in Objs |-> IF p \in killed THEN None ELSE mapped[p]]
        /\ lock' = [p \in Objs |-> IF p \in killed THEN "None" ELSE lock[p]]
        /\ spoiled' = (spoiled \cup {name} \cup {mapped[p] : p \in killed}) \ {None}
        /\ UNCHANGED <<systemVars, region, static>>

-----------------------------------------------------------------------------
(* The critical sections of line 184 and of line 259, each in two steps:   *)
(* the mutex may be initialised between them.                              *)

MutexFreeAlways(o) == TRUE
MutexFree(o) == Mine(o).owner = None

Lock(o) ==
    /\ pc[o] \in {"Lock", "Down"} /\ MutexFree(o)
    /\ region' = [region EXCEPT ![mapped[o]].owner = o]
    /\ Goto(o, IF pc[o] = "Lock" THEN "Register" ELSE "Deregister")
    /\ UNCHANGED <<systemVars, localVars, mapped, lock, spoiled>>

Inside == {"Register", "Deregister"}

(* Two that are in the critical section together may lose an update.       *)
Written(o, count) ==
    {count} \cup {Mine(p).initialized : p \in {p \in At(Inside) \ {o} : mapped[p] = mapped[o]}}

Register(o) ==
    /\ pc[o] = "Register"
    /\ \E count \in Written(o, (Mine(o).initialized + 1) % (UintMax + 1)) :
        region' = [region EXCEPT ![mapped[o]].initialized = count, ![mapped[o]].owner = None]
    /\ Goto(o, "Up")
    /\ UNCHANGED <<systemVars, localVars, mapped, lock, spoiled>>

(* The destructor, after the guards on its object; its first critical      *)
(* section is not told apart from other uses of the mutex.                 *)
Leave(o) ==
    /\ pc[o] = "Up" /\ lock[o] = "None"
    /\ Goto(o, "Down")
    /\ UNCHANGED <<systemVars, region, localVars, mapped, lock, spoiled>>

LastOne(count) == count = 0

MunmapNone(o) == UNCHANGED mapped
Munmap(o) == mapped' = [mapped EXCEPT ![o] = None]

Deregister(o) ==
    /\ pc[o] = "Deregister"
    /\ \E count \in Written(o, (Mine(o).initialized + UintMax) % (UintMax + 1)) :
        /\ region' = [region EXCEPT ![mapped[o]].initialized = count, ![mapped[o]].owner = None]
        /\ Goto(o, IF LastOne(count) THEN "UnlinkExtra" ELSE "Gone")
    /\ Munmap(o)
    /\ UNCHANGED <<systemVars, localVars, lock, spoiled>>

(* The names go whoever else has opened or created them meanwhile.         *)
UnlinkExtra(o) ==
    /\ pc[o] = "UnlinkExtra"
    /\ extra' = extra \ {ShmName[o]}
    /\ Goto(o, "UnlinkName")
    /\ UNCHANGED <<name, region, localVars, mapped, lock, spoiled>>

UnlinkNameForgotten(o) ==
    /\ pc[o] = "UnlinkName"
    /\ Goto(o, "Gone")
    /\ UNCHANGED <<systemVars, region, localVars, mapped, lock, spoiled>>
UnlinkName(o) ==
    /\ pc[o] = "UnlinkName"
    /\ name' = None
    /\ Goto(o, "Gone")
    /\ UNCHANGED <<extra, region, localVars, mapped, lock, spoiled>>

(* A process ends without objects, or has died, and is started again.      *)
Restart(k) ==
    /\ \A o \in Objs : Proc[o] = k => pc[o] \in {"Gone", "Dead"}
    /\ static' = [static EXCEPT ![k] = FALSE]
    /\ pc' = [o \in Objs |-> IF Proc[o] = k THEN "Gone" ELSE pc[o]]
    /\ UNCHANGED <<systemVars, region, is_create, mapped, lock, spoiled>>

-----------------------------------------------------------------------------
(* FJSyncGuard, one at a time on each object.  When the mutex is taken its *)
(* constructor does not wait, and whoever made it goes on without a lock.  *)

TryLock(o) == Mine(o).initialized > 0 /\ MutexFree(o)

Guard(o) ==
    /\ pc[o] = "Up" /\ lock[o] = "None"
    /\ lock' = [lock EXCEPT ![o] = IF TryLock(o) THEN "Locked" ELSE "Refused"]
    /\ region' = IF TryLock(o) THEN [region EXCEPT ![mapped[o]].owner = o] ELSE region
    /\ UNCHANGED <<systemVars, localVars, pc, mapped, spoiled>>

EndGuardKeeps(o) ==
    /\ lock[o] # "None"
    /\ lock' = [lock EXCEPT ![o] = "None"]
    /\ UNCHANGED <<systemVars, region, localVars, pc, mapped, spoiled>>
EndGuard(o) ==
    /\ lock[o] # "None"
    /\ lock' = [lock EXCEPT ![o] = "None"]
    /\ region' = IF lock[o] = "Locked" /\ Mine(o).initialized > 0
                 THEN [region EXCEPT ![mapped[o]].owner = None] ELSE region
    /\ UNCHANGED <<systemVars, localVars, pc, mapped, spoiled>>

-----------------------------------------------------------------------------
Construction(o) ==
    \/ Create(o) \/ Truncate(o) \/ OpenExtra(o) \/ CreateExtra(o)
    \/ TestStatic(o) \/ InitMutex(o) \/ InitCount(o)
    \/ Spin(o) \/ Crash(o) \/ Register(o)
Destruction(o) == Deregister(o) \/ UnlinkExtra(o) \/ UnlinkName(o)

Next ==
    \/ \E o \in Objs :
        \/ Open(o) \/ Construction(o) \/ Lock(o)
        \/ Leave(o) \/ Destruction(o)
        \/ Guard(o) \/ EndGuard(o)
    \/ \E k \in Procs : Restart(k)

(* Constructors and destructors go on, guards end, and nobody is passed    *)
(* over for ever at a mutex that is shared by processes.  One that is not  *)
(* excludes them as well, but need not wake up those of other processes.   *)
Fairness ==
    \A o \in Objs :
        /\ WF_vars(Construction(o)) /\ WF_vars(Destruction(o)) /\ WF_vars(EndGuard(o))
        /\ SF_vars(Lock(o) /\ Mine(o).shared)

Spec == Init /\ [][Next]_vars /\ Fairness

-----------------------------------------------------------------------------
(* In particular an object has mapped a region exactly from its shm_open   *)
(* to its munmap, or to the death of its process.                          *)
TypeOK ==
    /\ name \in Regions \cup {None}
    /\ extra \subseteq {ShmName[o] : o \in Objs}
    /\ region \in [Regions -> [sized : BOOLEAN, initialized : 0 .. UintMax,
                               shared : BOOLEAN, owner : Objs \cup {None}]]
    /\ static \in [Procs -> BOOLEAN]
    /\ pc \in [Objs -> {"Gone", "Create", "Truncate", "OpenExtra", "CreateExtra", "Init",
                        "InitMutex", "InitCount", "Spin", "Lock", "Register", "Up",
                        "Down", "Deregister", "UnlinkExtra", "UnlinkName", "Dead"}]
    /\ is_create \in [Objs -> BOOLEAN]
    /\ mapped \in [Objs -> Regions \cup {None}]
    /\ \A o \in Objs : mapped[o] = None <=>
           pc[o] \in {"Gone", "Create", "UnlinkExtra", "UnlinkName", "Dead"}
    /\ lock \in [Objs -> {"None", "Locked", "Refused"}]
    /\ spoiled \subseteq Regions

(* Those that initialized_ counts: from ++ to --.                          *)
Counted(r) == {o \in At({"Up", "Down", "Deregister"}) : mapped[o] = r}

(* initialized_ is the number of objects that have registered and not yet  *)
(* left, whatever constructors and destructors of whichever processes      *)
(* overlap, also in regions that have lost their name or have been found   *)
(* by two creators - unless the region was initialised while a registered  *)
(* object or a held mutex was there, or a process died in it.              *)
CountExact == \A r \in Regions \ spoiled : region[r].initialized = Cardinality(Counted(r))

(* The mutex of such a region is held exactly by the one critical section  *)
(* or guard that took it: no two overlap, and none leaves it locked, be it *)
(* process-shared or not, although _unlock looks at initialized_ before it *)
(* unlocks and everybody unlocks whoever has locked.                       *)
Holds(o) == lock[o] = "Locked" \/ pc[o] \in Inside
MutexOwned ==
    \A r \in Regions \ spoiled, o \in Objs :
        region[r].owner = o <=> mapped[o] = r /\ Holds(o)

(* When the last object has gone the region's name has, and of the extra   *)
(* areas at least the one of the object that left last, although a name is *)
(* unlinked after the mutex was released and may be another region's then. *)
NothingLeft ==
    At({"Gone", "Dead"}) = Objs /\ spoiled = {} =>
        name = None /\ \E o \in Objs : ShmName[o] \notin extra


=============================================================================
