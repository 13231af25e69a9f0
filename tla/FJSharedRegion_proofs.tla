----------------------- MODULE FJSharedRegion_proofs -----------------------
(***************************************************************************)
(* Proofs about FJSharedRegion for any number of objects, processes and    *)
(* regions, with every overlap of constructors and destructors: as long as *)
(* a region is not spoiled, initialized_ counts its objects, its mutex is  *)
(* owned by those who have locked it, and its name is not left behind.     *)
(***************************************************************************)
EXTENDS FJSharedRegion, FiniteSetTheorems, TLAPS

-----------------------------------------------------------------------------
(* The inductive invariant.                                                *)

Places == {"Gone", "Create", "Truncate", "OpenExtra", "CreateExtra", "Init", "InitMutex",
           "InitCount", "Spin", "Lock", "Register", "Up", "Down", "Deregister",
           "UnlinkExtra", "UnlinkName", "Dead"}
Unlinking == {"UnlinkExtra", "UnlinkName"}
Away == {"Gone", "Create", "Dead"} \cup Unlinking
Registered == {"Up", "Down", "Deregister"}
Cells == [sized : BOOLEAN, initialized : 0 .. UintMax, shared : BOOLEAN,
          owner : Objs \cup {None}]

(* A guard ends before its object.                                         *)
LockedIsUp == \A o \in Objs : lock[o] # "None" => pc[o] = "Up"

(* The conjuncts of CountExact and MutexOwned for one region.              *)
CountOf(r) == region[r].initialized = Cardinality(Counted(r))
OwnerOf(r) == \A o \in Objs : region[r].owner = o <=> mapped[o] = r /\ Holds(o)
Sound == \A r \in Regions \ spoiled : CountOf(r) /\ OwnerOf(r)

(* A name is there only as long as somebody is who will remove it.         *)
NameKept ==
    name # None /\ name \notin spoiled => \E o \in Objs : mapped[o] = name \/ pc[o] \in Unlinking
AreaKept ==
    (\A o \in Objs : ShmName[o] \in extra) /\ spoiled = {} =>
        \E o \in Objs : mapped[o] # None \/ pc[o] = "UnlinkExtra"

IInv == TypeOK /\ LockedIsUp /\ Sound /\ NameKept /\ AreaKept

-----------------------------------------------------------------------------
(* Types.                                                                  *)

LEMMA TypeFacts ==
    ASSUME TypeOK
    PROVE  /\ region \in [Regions -> Cells] /\ pc \in [Objs -> Places]
           /\ \A o \in Objs : mapped[o] = None <=> pc[o] \in Away
           /\ \A o \in Objs : pc[o] \notin Away => mapped[o] \in Regions
  BY DEF TypeOK, Cells, Places, Away, Unlinking

LEMMA CellUpdated ==
    ASSUME TypeOK, NEW r \in Regions, NEW c \in Cells, region' = [region EXCEPT ![r] = c]
    PROVE  /\ region' \in [Regions -> Cells] /\ region'[r] = c
           /\ \A q \in Regions : q # r => region'[q] = region[q]
  BY TypeFacts

LEMMA GotoType ==
    ASSUME TypeOK, NEW o \in Objs, NEW where \in Places, Goto(o, where)
    PROVE  /\ pc' \in [Objs -> Places] /\ pc'[o] = where
           /\ \A p \in Objs : p # o => pc'[p] = pc[p]
  BY TypeFacts DEF Goto

(* The types after a step of one object that leaves the names alone.       *)
LEMMA StepType ==
    ASSUME TypeOK, NEW o \in Objs,
           name' \in Regions \cup {None}, extra' \subseteq {ShmName[p] : p \in Objs},
           region' \in [Regions -> Cells], static' \in [Procs -> BOOLEAN],
           is_create' \in [Objs -> BOOLEAN], spoiled' \subseteq Regions,
           NEW where \in Places, Goto(o, where),
           NEW m \in Regions \cup {None}, mapped' = [mapped EXCEPT ![o] = m],
           m = None <=> where \in Away,
           lock' \in [Objs -> {"None", "Locked", "Refused"}]
    PROVE  TypeOK'
  <1>1. pc' \in [Objs -> Places] /\ pc'[o] = where
        /\ \A p \in Objs : p # o => pc'[p] = pc[p]
    BY GotoType
  <1>2. mapped' \in [Objs -> Regions \cup {None}] /\ mapped'[o] = m
        /\ \A p \in Objs : p # o => mapped'[p] = mapped[p]
    BY DEF TypeOK
  <1>3. \A p \in Objs : mapped'[p] = None <=> pc'[p] \in Away
    BY <1>1, <1>2, TypeFacts
  <1> QED
    BY <1>1, <1>2, <1>3 DEF TypeOK, Cells, Places, Away, Unlinking

-----------------------------------------------------------------------------
(* Counting, and what keeps a region sound.                                *)

LEMMA CountedFacts ==
    ASSUME RegionAssumption, NEW r
    PROVE  /\ IsFiniteSet(Counted(r)) /\ Cardinality(Counted(r)) \in Nat
           /\ Cardinality(Counted(r)) <= UintMax
           /\ Cardinality(Counted(r)) = 0 <=> Counted(r) = {}
           /\ Counted(r) # Objs => Cardinality(Counted(r)) < UintMax
  <1>1. Counted(r) \in SUBSET Objs /\ IsFiniteSet(Objs)
    BY DEF Counted, At, RegionAssumption
  <1>2. /\ IsFiniteSet(Counted(r)) /\ Cardinality(Counted(r)) <= Cardinality(Objs)
        /\ Cardinality(Objs) = Cardinality(Counted(r)) => Objs = Counted(r)
    BY <1>1, FS_Subset
  <1>3. Cardinality(Counted(r)) \in Nat /\ Cardinality(Objs) \in Nat
    BY <1>1, <1>2, FS_CardinalityType
  <1>4. Cardinality(Counted(r)) = 0 <=> Counted(r) = {}
    BY <1>2, FS_EmptySet
  <1> QED
    BY <1>2, <1>3, <1>4 DEF RegionAssumption

Alike(r) ==
    /\ region'[r].initialized = region[r].initialized /\ region'[r].owner = region[r].owner
    /\ \A p \in Objs : mapped'[p] = r /\ pc'[p] \in Registered
                       <=> mapped[p] = r /\ pc[p] \in Registered
    /\ \A p \in Objs : mapped'[p] = r /\ Holds(p)' <=> mapped[p] = r /\ Holds(p)

LEMMA AlikeSound ==
    ASSUME NEW r, Alike(r), CountOf(r), OwnerOf(r)
    PROVE  CountOf(r)' /\ OwnerOf(r)'
  <1>1. Counted(r)' = Counted(r)
    BY DEF Alike, Counted, At, Registered
  <1>2. CountOf(r)'
    BY <1>1 DEF CountOf, Alike
  <1>3. OwnerOf(r)'
    BY DEF OwnerOf, Alike
  <1> QED
    BY <1>2, <1>3

(* What one object does elsewhere.                                         *)
OnlyMoves(o) ==
    \A p \in Objs : p # o => pc'[p] = pc[p] /\ mapped'[p] = mapped[p] /\ lock'[p] = lock[p]

LEMMA Elsewhere ==
    ASSUME NEW o \in Objs, OnlyMoves(o), NEW r, mapped[o] # r, mapped'[o] # r,
           region'[r] = region[r]
    PROVE  Alike(r)
  <1>1. ASSUME NEW p \in Objs, p # o
        PROVE  pc'[p] = pc[p] /\ mapped'[p] = mapped[p] /\ (Holds(p)' <=> Holds(p))
    BY <1>1 DEF OnlyMoves, Holds
  <1> QED
    BY <1>1 DEF Alike

(* A step that neither registers nor touches mutex and guard.              *)
LEMMA Harmless ==
    ASSUME NEW o \in Objs, OnlyMoves(o), NEW r,
           region'[r].initialized = region[r].initialized, region'[r].owner = region[r].owner,
           mapped'[o] = r /\ pc'[o] \in Registered <=> mapped[o] = r /\ pc[o] \in Registered,
           mapped'[o] = r /\ Holds(o)' <=> mapped[o] = r /\ Holds(o)
    PROVE  Alike(r)
  <1>1. ASSUME NEW p \in Objs, p # o
        PROVE  pc'[p] = pc[p] /\ mapped'[p] = mapped[p] /\ (Holds(p)' <=> Holds(p))
    BY <1>1 DEF OnlyMoves, Holds
  <1> QED
    BY <1>1 DEF Alike

(* Names outlive every step that unmaps and unlinks nothing.               *)
LEMMA NamesOutlive ==
    ASSUME NameKept, AreaKept, name' \in {None, name}, extra' \subseteq extra,
           spoiled \subseteq spoiled',
           \A p \in Objs : mapped[p] # None => mapped'[p] = mapped[p],
           \A p \in Objs : pc[p] \in Unlinking => pc'[p] = pc[p]
    PROVE  NameKept' /\ AreaKept'
  <1>1. NameKept'
    BY DEF NameKept
  <1>2. AreaKept'
    BY DEF AreaKept, Unlinking
  <1> QED
    BY <1>1, <1>2

(* An object that goes from one place to another without its guard.        *)
LEMMA GuardsLeft ==
    ASSUME TypeOK, LockedIsUp, NEW o \in Objs, NEW where \in Places, Goto(o, where),
           pc[o] # "Up", lock' = lock
    PROVE  /\ LockedIsUp' /\ lock[o] = "None"
           /\ \A p \in Objs : p # o => pc'[p] = pc[p]
           /\ pc'[o] = where /\ (Holds(o)' <=> where \in Inside)
           /\ Holds(o) <=> pc[o] \in Inside
  BY GotoType DEF LockedIsUp, Holds

-----------------------------------------------------------------------------
(* Initially there is nothing.                                             *)
LEMMA InitIInv ==
    ASSUME RegionAssumption, Init
    PROVE  IInv
  <1>1. TypeOK
    BY DEF Init, TypeOK, New, RegionAssumption
  <1>2. ASSUME NEW r \in Regions
        PROVE  CountOf(r) /\ OwnerOf(r)
    <2>1. Counted(r) = {} /\ region[r].initialized = 0 /\ region[r].owner = None
      BY DEF Init, Counted, At, New
    <2>2. CountOf(r)
      BY <2>1, FS_EmptySet DEF CountOf
    <2>3. OwnerOf(r)
      BY <2>1 DEF OwnerOf, Holds, Inside, Init, RegionAssumption
    <2> QED
      BY <2>2, <2>3
  <1> QED
    BY <1>1, <1>2 DEF Init, IInv, LockedIsUp, Sound, NameKept, AreaKept

-----------------------------------------------------------------------------
(* The constructor up to its critical section.                             *)

(* The common part of the steps that only move an object.                  *)
LEMMA Moves ==
    ASSUME IInv, NEW o \in Objs, NEW where \in Places \ (Registered \cup Inside),
           pc[o] \notin Registered \cup Inside \cup Unlinking, Goto(o, where),
           \A p \in Objs : p # o => mapped'[p] = mapped[p], lock' = lock,
           \A r \in Regions \ spoiled' :
               r \notin spoiled /\ region'[r].initialized = region[r].initialized
                                /\ region'[r].owner = region[r].owner
    PROVE  LockedIsUp' /\ Sound' /\ (\A p \in Objs : pc[p] \in Unlinking => pc'[p] = pc[p])
  <1>1. /\ LockedIsUp' /\ lock[o] = "None"
        /\ \A p \in Objs : p # o => pc'[p] = pc[p]
        /\ pc'[o] = where /\ ~Holds(o)' /\ ~Holds(o)
    BY GuardsLeft DEF IInv, Registered
  <1>2. OnlyMoves(o)
    BY <1>1 DEF OnlyMoves
  <1>3. ASSUME NEW r \in Regions \ spoiled'
        PROVE  CountOf(r)' /\ OwnerOf(r)'
    <2>1. Alike(r)
      BY <1>1, <1>2, Harmless
    <2> QED
      BY <2>1, AlikeSound DEF IInv, Sound
  <1> QED
    BY <1>1, <1>3 DEF Sound

LEMMA OpenIInv ==
    ASSUME RegionAssumption, IInv, NEW o \in Objs, Open(o)
    PROVE  IInv'
  <1> DEFINE where == IF name = None THEN "Create" ELSE "OpenExtra"
             m == name
  <1>1. where \in Places \ (Registered \cup Inside) /\ Goto(o, where)
        /\ pc[o] \notin Registered \cup Inside \cup Unlinking
    BY DEF Open, Places, Registered, Inside, Unlinking
  <1>2. mapped[o] = None /\ mapped \in [Objs -> Regions \cup {None}]
    BY DEF IInv, TypeOK, Open
  <1>3. mapped' = [mapped EXCEPT ![o] = m] /\ m \in Regions \cup {None}
        /\ (m = None <=> where \in Away)
    <2>1. CASE name = None
      BY <2>1, <1>2 DEF Open, IInv, TypeOK, Away, Unlinking
    <2>2. CASE name # None
      BY <2>2, <1>2 DEF Open, IInv, TypeOK, Away, Unlinking
    <2> QED
      BY <2>1, <2>2
  <1>4. UNCHANGED <<name, extra, region, static, is_create, lock, spoiled>>
    BY DEF Open, systemVars, localVars
  <1> HIDE DEF where, m
  <1>5. TypeOK'
    BY <1>1, <1>3, <1>4, StepType, TypeFacts DEF IInv, TypeOK
  <1>6. \A p \in Objs : p # o => mapped'[p] = mapped[p]
    BY <1>2, <1>3
  <1>7. LockedIsUp' /\ Sound' /\ (\A p \in Objs : pc[p] \in Unlinking => pc'[p] = pc[p])
    BY <1>1, <1>4, <1>6, Moves
  <1>8. NameKept' /\ AreaKept'
    BY <1>2, <1>4, <1>6, <1>7, NamesOutlive DEF IInv
  <1> QED
    BY <1>5, <1>7, <1>8 DEF IInv

(* Steps before the critical section that leave the region's memory alone. *)
LEMMA WaitingIInv ==
    ASSUME RegionAssumption, IInv, NEW o \in Objs,
           OpenExtra(o) \/ CreateExtra(o) \/ TestStatic(o) \/ Spin(o)
    PROVE  IInv'
  <1> DEFINE where == pc'[o]
  <1>1. pc \in [Objs -> Places] /\ pc[o] \notin Away /\ pc[o] \notin Registered \cup Inside
    BY TypeFacts DEF IInv, OpenExtra, CreateExtra, TestStatic, Spin, Away, Unlinking,
       Registered, Inside
  <1>2. /\ where \in {"CreateExtra", "Init", "Spin", "Lock", "InitMutex"} /\ Goto(o, where)
        /\ is_create' \in [Objs -> BOOLEAN]
        /\ UNCHANGED <<name, region, static, mapped, lock, spoiled>>
        /\ extra \subseteq extra' /\ extra' \subseteq {ShmName[p] : p \in Objs}
    <2>1. CASE OpenExtra(o)
      BY <2>1, <1>1 DEF OpenExtra, AfterExtra, Goto, systemVars, IInv, TypeOK
    <2>2. CASE CreateExtra(o)
      BY <2>2, <1>1 DEF CreateExtra, AfterExtra, Goto, IInv, TypeOK
    <2>3. CASE TestStatic(o)
      BY <2>3, <1>1 DEF TestStatic, Goto, systemVars, localVars, IInv, TypeOK
    <2>4. CASE Spin(o)
      BY <2>4, <1>1 DEF Spin, Goto, systemVars, localVars, IInv, TypeOK
    <2> QED
      BY <2>1, <2>2, <2>3, <2>4
  <1>3. where \in Places \ (Registered \cup Inside) /\ where \notin Away /\ where \notin Unlinking
    BY <1>2 DEF Places, Registered, Inside, Away, Unlinking
  <1> HIDE DEF where
  <1>4. mapped[o] \in Regions /\ mapped[o] # None /\ mapped' = [mapped EXCEPT ![o] = mapped[o]]
    BY <1>1, <1>2, TypeFacts DEF IInv, RegionAssumption, TypeOK
  <1>5. TypeOK'
    BY <1>2, <1>3, <1>4, StepType, TypeFacts, ZenonT(30) DEF IInv, TypeOK
  <1>6. LockedIsUp' /\ Sound' /\ (\A p \in Objs : pc[p] \in Unlinking => pc'[p] = pc[p])
    BY <1>1, <1>2, <1>3, Moves DEF Away
  <1>7. NameKept'
    BY <1>2, <1>6 DEF IInv, NameKept
  <1>8. AreaKept'
    BY <1>2, <1>4 DEF AreaKept
  <1> QED
    BY <1>5, <1>6, <1>7, <1>8 DEF IInv

(* A new region is sound because nobody else has mapped it.                *)
LEMMA CreateIInv ==
    ASSUME RegionAssumption, IInv, NEW o \in Objs, Create(o)
    PROVE  IInv'
  <1>1. /\ pc[o] = "Create" /\ mapped[o] = None /\ Goto(o, "Truncate")
        /\ UNCHANGED <<extra, static, is_create, lock>>
    BY DEF Create, localVars, IInv, TypeOK
  <1>2. PICK r \in Regions :
            /\ mapped' = [mapped EXCEPT ![o] = r] /\ name' = r
            /\ \/ name = r /\ UNCHANGED <<name, region, spoiled>>
               \/ /\ name = None /\ \A other \in Objs : mapped[other] # r
                  /\ region' = [region EXCEPT ![r] = New] /\ spoiled' = spoiled \ {r}
    <2>1. CASE name # None
      BY <2>1 DEF Create, IInv, TypeOK
    <2>2. CASE name = None
      BY <2>2 DEF Create
    <2> QED
      BY <2>1, <2>2
  <1>3. /\ LockedIsUp' /\ lock[o] = "None" /\ pc'[o] = "Truncate" /\ ~Holds(o)' /\ ~Holds(o)
        /\ \A p \in Objs : p # o => pc'[p] = pc[p]
    BY <1>1, GuardsLeft DEF IInv, Places, Inside
  <1>4. mapped'[o] = r /\ r # None /\ \A p \in Objs : p # o => mapped'[p] = mapped[p]
    BY <1>2 DEF IInv, TypeOK, RegionAssumption
  <1>5. New \in Cells /\ New.initialized = 0 /\ New.owner = None
    BY DEF New, Cells, RegionAssumption
  <1>6. region' \in [Regions -> Cells] /\ spoiled' \subseteq Regions
    BY <1>2, <1>5, TypeFacts DEF IInv, TypeOK
  <1>7. TypeOK'
    BY <1>1, <1>2, <1>4, <1>6, StepType DEF IInv, TypeOK, Places, Away, Unlinking
  <1>8. ASSUME NEW q \in Regions \ spoiled', q # r \/ name = r
        PROVE  CountOf(q)' /\ OwnerOf(q)'
    <2>1. q \notin spoiled /\ region'[q] = region[q]
      <3>1. CASE q = r
        BY <1>2, <1>8, <3>1 DEF RegionAssumption
      <3>2. CASE q # r
        BY <1>2, <1>8, <3>2, TypeFacts DEF IInv
      <3> QED
        BY <3>1, <3>2
    <2>2. OnlyMoves(o)
      BY <1>1, <1>3, <1>4 DEF OnlyMoves
    <2>3. Alike(q)
      BY <1>1, <1>3, <2>1, <2>2, Harmless DEF Registered
    <2> QED
      BY <2>1, <2>3, AlikeSound DEF IInv, Sound
  <1>9. CASE name = r
    BY <1>2, <1>3, <1>4, <1>7, <1>8, <1>9 DEF IInv, Sound, NameKept, AreaKept
  <1>10. CASE name # r
    <2>1. \A p \in Objs : p # o => mapped'[p] # r
      BY <1>2, <1>4, <1>10
    <2>2. region'[r] = New
      BY <1>2, <1>10 DEF IInv, TypeOK
    <2>3. Counted(r)' = {}
      BY <1>3, <2>1 DEF Counted, At
    <2>4. CountOf(r)'
      BY <2>2, <2>3, <1>5, FS_EmptySet DEF CountOf
    <2>5. OwnerOf(r)'
      BY <2>1, <2>2, <1>3, <1>5 DEF OwnerOf, RegionAssumption
    <2> QED
      BY <1>2, <1>3, <1>4, <1>7, <1>8, <2>4, <2>5 DEF IInv, Sound, NameKept, AreaKept
  <1> QED
    BY <1>9, <1>10

LEMMA TruncateIInv ==
    ASSUME RegionAssumption, IInv, NEW o \in Objs, Truncate(o)
    PROVE  IInv'
  <1>1. /\ pc[o] = "Truncate" /\ pc[o] \notin Away \cup Registered \cup Inside \cup Unlinking
        /\ Goto(o, "OpenExtra")
        /\ UNCHANGED <<name, extra, static, mapped, lock, spoiled>>
        /\ is_create' \in [Objs -> BOOLEAN]
    BY DEF Truncate, systemVars, Away, Registered, Inside, Unlinking, IInv, TypeOK
  <1>2. mapped[o] \in Regions /\ mapped[o] # None /\ mapped' = [mapped EXCEPT ![o] = mapped[o]]
    BY <1>1, TypeFacts DEF IInv, RegionAssumption, TypeOK
  <1>3. region[mapped[o]] \in Cells
    BY <1>2, TypeFacts DEF IInv
  <1> DEFINE c == [region[mapped[o]] EXCEPT !.sized = TRUE]
  <1>4. /\ c \in Cells /\ c.initialized = region[mapped[o]].initialized
        /\ c.owner = region[mapped[o]].owner
    BY <1>3 DEF Cells
  <1>11. region' = [region EXCEPT ![mapped[o]] = c]
    BY <1>2 DEF Truncate
  <1> HIDE DEF c
  <1>5. /\ region' \in [Regions -> Cells]
        /\ region'[mapped[o]].initialized = region[mapped[o]].initialized
        /\ region'[mapped[o]].owner = region[mapped[o]].owner
        /\ \A q \in Regions : q # mapped[o] => region'[q] = region[q]
    BY <1>2, <1>4, <1>11, CellUpdated DEF IInv
  <1>6. "OpenExtra" \in Places \ (Registered \cup Inside) /\ "OpenExtra" \notin Away
    BY DEF Places, Registered, Inside, Away, Unlinking
  <1>7. TypeOK'
    <2>1. /\ name' \in Regions \cup {None} /\ extra' \subseteq {ShmName[p] : p \in Objs}
          /\ static' \in [Procs -> BOOLEAN] /\ lock' \in [Objs -> {"None", "Locked", "Refused"}]
          /\ spoiled' \subseteq Regions
      BY <1>1 DEF IInv, TypeOK
    <2>2. (mapped[o] = None <=> "OpenExtra" \in Away) /\ "OpenExtra" \in Places
      BY <1>2, <1>6
    <2>3. mapped[o] \in Regions \cup {None} /\ TypeOK
      BY <1>2 DEF IInv
    <2> QED
      BY <1>1, <1>2, <1>5, <2>1, <2>2, <2>3, StepType
  <1>8. \A r \in Regions : region'[r].initialized = region[r].initialized
                           /\ region'[r].owner = region[r].owner
    BY <1>5
  <1>9. LockedIsUp' /\ Sound' /\ (\A p \in Objs : pc[p] \in Unlinking => pc'[p] = pc[p])
    BY <1>1, <1>6, <1>8, Moves
  <1>10. NameKept' /\ AreaKept'
    BY <1>1, <1>9, NamesOutlive DEF IInv
  <1> QED
    BY <1>7, <1>9, <1>10 DEF IInv

(* What a region that does not get spoiled loses to its initialisation.    *)
LEMMA InitialiseIInv ==
    ASSUME RegionAssumption, IInv, NEW o \in Objs, InitMutex(o) \/ InitCount(o)
    PROVE  IInv'
  <1> DEFINE where == IF pc[o] = "InitMutex" THEN "InitCount" ELSE "Lock"
  <1>1. /\ pc[o] \in {"InitMutex", "InitCount"}
        /\ pc[o] \notin Away \cup Registered \cup Inside \cup Unlinking
        /\ Goto(o, where) /\ Spoil(o)
        /\ UNCHANGED <<name, extra, is_create, mapped, lock>>
        /\ static' \in [Procs -> BOOLEAN]
    BY DEF InitMutex, InitCount, systemVars, localVars, Away, Registered, Inside, Unlinking,
       IInv, TypeOK, Procs
  <1>2. mapped[o] \in Regions /\ mapped[o] # None /\ mapped' = [mapped EXCEPT ![o] = mapped[o]]
    BY <1>1, TypeFacts DEF IInv, RegionAssumption, TypeOK
  <1>3. region[mapped[o]] \in Cells
    BY <1>2, TypeFacts DEF IInv
  <1>4. /\ region' \in [Regions -> Cells]
        /\ \/ /\ region'[mapped[o]].initialized = region[mapped[o]].initialized
              /\ region'[mapped[o]].owner = None
           \/ /\ region'[mapped[o]].initialized = 0
              /\ region'[mapped[o]].owner = region[mapped[o]].owner
        /\ \A q \in Regions : q # mapped[o] => region'[q] = region[q]
    <2>1. CASE InitMutex(o)
      <3> DEFINE c == [region[mapped[o]] EXCEPT !.shared = TRUE, !.owner = None]
      <3>1. /\ c \in Cells /\ c.initialized = region[mapped[o]].initialized /\ c.owner = None
        BY <1>3 DEF Cells
      <3>2. region' = [region EXCEPT ![mapped[o]] = c]
        BY <1>2, <2>1 DEF InitMutex
      <3> HIDE DEF c
      <3> QED
        BY <1>2, <3>1, <3>2, CellUpdated DEF IInv
    <2>2. CASE InitCount(o)
      <3> DEFINE c == [region[mapped[o]] EXCEPT !.initialized = 0]
      <3>1. /\ c \in Cells /\ c.initialized = 0 /\ c.owner = region[mapped[o]].owner
        BY <1>3 DEF Cells, RegionAssumption
      <3>2. region' = [region EXCEPT ![mapped[o]] = c]
        BY <1>2, <2>2 DEF InitCount
      <3> HIDE DEF c
      <3> QED
        BY <1>2, <3>1, <3>2, CellUpdated DEF IInv
    <2> QED
      BY <2>1, <2>2
  <1>5. where \in Places \ (Registered \cup Inside) /\ where \notin Away
    BY DEF Places, Registered, Inside, Away, Unlinking
  <1> HIDE DEF where
  <1>6. /\ spoiled \subseteq spoiled' /\ spoiled' \subseteq Regions
        /\ mapped[o] \notin spoiled' =>
               region[mapped[o]].initialized = 0 /\ region[mapped[o]].owner = None
    BY <1>1, <1>2 DEF Spoil, Mine, IInv, TypeOK
  <1>7. TypeOK'
    <2>1. /\ name' \in Regions \cup {None} /\ extra' \subseteq {ShmName[p] : p \in Objs}
          /\ is_create' \in [Objs -> BOOLEAN] /\ lock' \in [Objs -> {"None", "Locked", "Refused"}]
      BY <1>1 DEF IInv, TypeOK
    <2>2. (mapped[o] = None <=> where \in Away) /\ where \in Places
      BY <1>2, <1>5
    <2>3. mapped[o] \in Regions \cup {None} /\ TypeOK
      BY <1>2 DEF IInv
    <2> QED
      BY <1>1, <1>2, <1>4, <1>6, <2>1, <2>2, <2>3, StepType
  <1>8. \A r \in Regions \ spoiled' :
            r \notin spoiled /\ region'[r].initialized = region[r].initialized
                             /\ region'[r].owner = region[r].owner
    BY <1>4, <1>6
  <1>9. LockedIsUp' /\ Sound' /\ (\A p \in Objs : pc[p] \in Unlinking => pc'[p] = pc[p])
    BY <1>1, <1>5, <1>8, Moves
  <1>10. NameKept' /\ AreaKept'
    BY <1>1, <1>6, <1>9, NamesOutlive DEF IInv
  <1> QED
    BY <1>7, <1>9, <1>10 DEF IInv

(* The death of a process spoils everything that it had mapped.            *)
LEMMA CrashIInv ==
    ASSUME RegionAssumption, IInv, NEW o \in Objs, Crash(o)
    PROVE  IInv'
  <1> DEFINE killed == {p \in Objs : Proc[p] = Proc[o]}
  <1>1. /\ pc' = [p \in Objs |-> IF p \in killed THEN "Dead" ELSE pc[p]]
        /\ is_create' = [p \in Objs |-> IF p \in killed THEN FALSE ELSE is_create[p]]
        /\ mapped' = [p \in Objs |-> IF p \in killed THEN None ELSE mapped[p]]
        /\ lock' = [p \in Objs |-> IF p \in killed THEN "None" ELSE lock[p]]
        /\ spoiled' = (spoiled \cup {name} \cup {mapped[p] : p \in killed}) \ {None}
        /\ UNCHANGED <<name, extra, region, static>>
    BY DEF Crash, systemVars
  <1>2. o \in killed /\ mapped[o] \in Regions /\ mapped[o] # None
    BY TypeFacts DEF Crash, Away, Unlinking, IInv, RegionAssumption
  <1>3. \A p \in killed : mapped[p] \in spoiled' \cup {None}
    BY <1>1
  <1> HIDE DEF killed
  <1>4. TypeOK'
    <2>1. /\ pc' \in [Objs -> Places] /\ mapped' \in [Objs -> Regions \cup {None}]
          /\ lock' \in [Objs -> {"None", "Locked", "Refused"}]
      BY <1>1, TypeFacts DEF IInv, TypeOK, Places
    <2>2. is_create' \in [Objs -> BOOLEAN]
      BY <1>1, Zenon DEF IInv, TypeOK
    <2>3. \A p \in Objs : mapped'[p] = None <=> pc'[p] \in Away
      BY <1>1, TypeFacts DEF IInv, TypeOK, Away
    <2>4. spoiled' \subseteq Regions
      <3>1. \A p \in killed : mapped[p] \in Regions \cup {None}
        BY DEF killed, IInv, TypeOK
      <3> QED
        BY <1>1, <3>1 DEF IInv, TypeOK
    <2> QED
      BY <1>1, <2>1, <2>2, <2>3, <2>4 DEF IInv, TypeOK, Places, Away, Unlinking
  <1>5. LockedIsUp'
    BY <1>1 DEF IInv, LockedIsUp
  <1>6. ASSUME NEW r \in Regions \ spoiled'
        PROVE  CountOf(r)' /\ OwnerOf(r)'
    <2>1. r \in Regions \ spoiled /\ r # None
      BY <1>1 DEF RegionAssumption
    <2>2. \A p \in Objs : p \in killed => mapped[p] # r /\ mapped'[p] # r
      BY <1>1, <1>3, <2>1
    <2>3. \A p \in Objs : p \notin killed =>
              pc'[p] = pc[p] /\ mapped'[p] = mapped[p] /\ (Holds(p)' <=> Holds(p))
      BY <1>1 DEF Holds
    <2>4. Alike(r)
      BY <1>1, <2>2, <2>3 DEF Alike
    <2> QED
      BY <2>1, <2>4, AlikeSound DEF IInv, Sound
  <1>7. NameKept'
    BY <1>1 DEF NameKept
  <1>8. AreaKept'
    BY <1>1, <1>2 DEF AreaKept
  <1> QED
    BY <1>4, <1>5, <1>6, <1>7, <1>8 DEF IInv, Sound

-----------------------------------------------------------------------------
(* The critical sections.                                                  *)

(* A step that changes the region of o only: its count, its owner, and     *)
(* where o is.  What remains to be shown is that its region stays sound.   *)
LEMMA InMine ==
    ASSUME RegionAssumption, IInv, NEW o \in Objs, NEW r \in Regions, r = mapped[o],
           OnlyMoves(o), NEW count \in 0 .. UintMax, NEW owner \in Objs \cup {None},
           region' = [region EXCEPT ![r] =
               [region[r] EXCEPT !.initialized = count, !.owner = owner]],
           mapped'[o] \in {None, r}, spoiled' = spoiled,
           r \notin spoiled /\ region'[r].initialized = count /\ region'[r].owner = owner
               => CountOf(r)' /\ OwnerOf(r)'
    PROVE  /\ region' \in [Regions -> Cells] /\ Sound'
           /\ \A p \in Objs : pc[p] \in Unlinking => pc'[p] = pc[p]
  <1> DEFINE c == [region[r] EXCEPT !.initialized = count, !.owner = owner]
  <1>1. region[r] \in Cells
    BY TypeFacts DEF IInv
  <1>2. c \in Cells /\ c.initialized = count /\ c.owner = owner /\ region' = [region EXCEPT ![r] = c]
    BY <1>1 DEF Cells
  <1> HIDE DEF c
  <1>3. /\ region' \in [Regions -> Cells]
        /\ region'[r].initialized = count /\ region'[r].owner = owner
        /\ \A q \in Regions : q # r => region'[q] = region[q]
    BY <1>1, <1>2, CellUpdated DEF IInv
  <1>4. ASSUME NEW q \in Regions \ spoiled', q # r
        PROVE  CountOf(q)' /\ OwnerOf(q)'
    <2>1. Alike(q)
      BY <1>3, <1>4, Elsewhere DEF RegionAssumption
    <2> QED
      BY <1>4, <2>1, AlikeSound DEF IInv, Sound
  <1>5. \A p \in Objs : pc[p] \in Unlinking => pc'[p] = pc[p]
    BY TypeFacts DEF OnlyMoves, IInv, Away, RegionAssumption
  <1> QED
    BY <1>3, <1>4, <1>5 DEF Sound

(* Who stands where in the region of o, when only o changes.               *)
LEMMA CountedThere ==
    ASSUME NEW o \in Objs, OnlyMoves(o), NEW r
    PROVE  /\ Counted(r)' \ {o} = Counted(r) \ {o}
           /\ o \in Counted(r) <=> mapped[o] = r /\ pc[o] \in Registered
           /\ o \in Counted(r)' <=> mapped'[o] = r /\ pc'[o] \in Registered
           /\ \A p \in Objs : p # o =>
                  (mapped'[p] = r /\ Holds(p)' <=> mapped[p] = r /\ Holds(p))
  BY DEF OnlyMoves, Counted, At, Registered, Holds

LEMMA LockIInv ==
    ASSUME RegionAssumption, IInv, NEW o \in Objs, Lock(o)
    PROVE  IInv'
  <1>12. PICK r \in Regions : r = mapped[o]
    BY TypeFacts DEF IInv, Lock, Away, Unlinking
  <1> DEFINE where == IF pc[o] = "Lock" THEN "Register" ELSE "Deregister"
             cell == region[r]
  <1>1. /\ pc[o] \in {"Lock", "Down"} /\ pc[o] \notin Away \cup Unlinking \cup Inside
        /\ region[r].owner = None /\ Goto(o, where)
        /\ UNCHANGED <<name, extra, static, is_create, mapped, lock, spoiled>>
    BY <1>12 DEF Lock, MutexFree, Mine, systemVars, localVars, Away, Unlinking, Inside
  <1>2. where \in Places /\ where \in Inside /\ where \notin Away
        /\ (pc[o] \in Registered <=> where \in Registered)
    BY <1>1 DEF Places, Inside, Away, Unlinking, Registered
  <1>3. r # None /\ mapped' = [mapped EXCEPT ![o] = r] /\ cell \in Cells
    BY <1>1, <1>12, TypeFacts DEF IInv, RegionAssumption, TypeOK
  <1>4. region' = [region EXCEPT ![r] = [cell EXCEPT !.initialized = cell.initialized, !.owner = o]]
    <2>1. region' = [region EXCEPT ![r] = [cell EXCEPT !.owner = o]]
      BY <1>3, <1>12 DEF Lock
    <2>2. [cell EXCEPT !.owner = o] = [cell EXCEPT !.initialized = cell.initialized, !.owner = o]
      BY <1>3 DEF Cells
    <2> QED
      BY <2>1, <2>2
  <1> HIDE DEF where
  <1>5. /\ LockedIsUp' /\ Holds(o)' /\ ~Holds(o) /\ pc'[o] = where
        /\ \A p \in Objs : p # o => pc'[p] = pc[p]
    BY <1>1, <1>2, GuardsLeft DEF IInv
  <1>6. OnlyMoves(o)
    BY <1>1, <1>5 DEF OnlyMoves
  <1>7. ASSUME r \notin spoiled, region'[r].initialized = cell.initialized, region'[r].owner = o
        PROVE  CountOf(r)' /\ OwnerOf(r)'
    <2>1. CountOf(r) /\ OwnerOf(r)
      BY <1>3, <1>7 DEF IInv, Sound
    <2>2. Counted(r)' = Counted(r)
      BY <1>1, <1>2, <1>5, <1>6, <1>12, CountedThere
    <2>3. CountOf(r)'
      BY <1>1, <1>7, <2>1, <2>2 DEF CountOf
    <2>4. \A p \in Objs : ~(mapped[p] = r /\ Holds(p))
      BY <1>1, <2>1 DEF OwnerOf, RegionAssumption
    <2>5. OwnerOf(r)'
      BY <1>1, <1>5, <1>6, <1>7, <1>12, <2>4, CountedThere DEF OwnerOf
    <2> QED
      BY <2>3, <2>5
  <1>8. cell.initialized \in 0 .. UintMax
    BY <1>3 DEF Cells
  <1>9. /\ region' \in [Regions -> Cells] /\ Sound'
        /\ \A p \in Objs : pc[p] \in Unlinking => pc'[p] = pc[p]
    BY <1>1, <1>4, <1>6, <1>7, <1>8, <1>12, InMine
  <1>10. TypeOK'
    <2>1. r \in Regions \cup {None} /\ (r = None <=> where \in Away)
      BY <1>2, <1>3
    <2>2. /\ name' \in Regions \cup {None} /\ extra' \subseteq {ShmName[p] : p \in Objs}
          /\ static' \in [Procs -> BOOLEAN] /\ is_create' \in [Objs -> BOOLEAN]
          /\ lock' \in [Objs -> {"None", "Locked", "Refused"}] /\ spoiled' \subseteq Regions
      BY <1>1 DEF IInv, TypeOK
    <2> QED
      BY <1>1, <1>2, <1>3, <1>9, <2>1, <2>2, StepType DEF IInv
  <1>11. NameKept' /\ AreaKept'
    BY <1>1, <1>9, NamesOutlive DEF IInv
  <1> QED
    BY <1>5, <1>9, <1>10, <1>11 DEF IInv

(* In a sound region whoever is inside is there alone.                     *)
LEMMA InsideAlone ==
    ASSUME RegionAssumption, IInv, NEW o \in Objs, pc[o] \in Inside, mapped[o] \notin spoiled,
           NEW count
    PROVE  Written(o, count) = {count} /\ region[mapped[o]].owner = o
  <1>1. mapped[o] \in Regions
    BY TypeFacts DEF IInv, Inside, Away, Unlinking
  <1>2. OwnerOf(mapped[o])
    BY <1>1 DEF IInv, Sound
  <1>3. region[mapped[o]].owner = o
    BY <1>2 DEF OwnerOf, Holds
  <1>4. {p \in At(Inside) \ {o} : mapped[p] = mapped[o]} = {}
    BY <1>2, <1>3 DEF OwnerOf, Holds, At
  <1> QED
    BY <1>3, <1>4 DEF Written

LEMMA RegisterIInv ==
    ASSUME RegionAssumption, IInv, NEW o \in Objs, Register(o)
    PROVE  IInv'
  <1>13. PICK r \in Regions : r = mapped[o]
    BY TypeFacts DEF IInv, Register, Away, Unlinking
  <1> DEFINE cell == region[r]
             more == (Mine(o).initialized + 1) % (UintMax + 1)
  <1>1. /\ pc[o] = "Register" /\ pc[o] \notin Away \cup Unlinking /\ pc[o] \in Inside
        /\ Goto(o, "Up") /\ "Up" \in Places
        /\ UNCHANGED <<name, extra, static, is_create, mapped, lock, spoiled>>
    BY DEF Register, systemVars, localVars, Away, Unlinking, Inside, Places
  <1>2. r # None /\ mapped' = [mapped EXCEPT ![o] = r] /\ cell \in Cells
    BY <1>1, <1>13, TypeFacts DEF IInv, RegionAssumption, TypeOK
  <1>3. PICK count \in Written(o, more) :
            region' = [region EXCEPT ![r].initialized = count, ![r].owner = None]
    BY <1>13 DEF Register
  <1>4. more \in 0 .. UintMax
    BY <1>2, <1>13 DEF Mine, Cells, RegionAssumption
  <1>5. count \in 0 .. UintMax
    <2>1. \A p \in At(Inside) : region[mapped[p]].initialized \in 0 .. UintMax
      BY TypeFacts DEF At, Inside, Away, Unlinking, IInv, Cells
    <2> QED
      BY <1>3, <1>4, <2>1 DEF Written, Mine
  <1>6. region' = [region EXCEPT ![r] = [cell EXCEPT !.initialized = count, !.owner = None]]
    BY <1>2, <1>3
  <1>7. /\ LockedIsUp' /\ ~Holds(o)' /\ pc'[o] = "Up"
        /\ \A p \in Objs : p # o => pc'[p] = pc[p]
    BY <1>1, GuardsLeft DEF IInv, Inside
  <1>8. OnlyMoves(o)
    BY <1>1, <1>7 DEF OnlyMoves
  <1> HIDE DEF more
  <1>9. ASSUME r \notin spoiled, region'[r].initialized = count, region'[r].owner = None
        PROVE  CountOf(r)' /\ OwnerOf(r)'
    <2>1. CountOf(r) /\ OwnerOf(r)
      BY <1>2, <1>9 DEF IInv, Sound
    <2>2. count = more /\ cell.owner = o
      BY <1>1, <1>3, <1>9, <1>13, InsideAlone
    <2>3. o \notin Counted(r) /\ o \in Counted(r)' /\ Counted(r)' = Counted(r) \cup {o}
      BY <1>1, <1>7, <1>8, <1>13, CountedThere DEF Registered
    <2>4. more = Cardinality(Counted(r)) + 1
      <3>1. Cardinality(Counted(r)) < UintMax /\ Cardinality(Counted(r)) \in Nat
        BY <2>3, CountedFacts
      <3> QED
        BY <1>13, <2>1, <3>1 DEF more, CountOf, Mine, RegionAssumption
    <2>5. Cardinality(Counted(r)') = Cardinality(Counted(r)) + 1
      BY <2>3, CountedFacts, FS_AddElement
    <2>6. CountOf(r)'
      BY <1>1, <1>9, <2>2, <2>4, <2>5 DEF CountOf
    <2>7. \A p \in Objs : mapped[p] = r /\ Holds(p) => p = o
      BY <2>1, <2>2 DEF OwnerOf
    <2>8. OwnerOf(r)'
      BY <1>1, <1>7, <1>8, <1>9, <1>13, <2>7, CountedThere DEF OwnerOf, RegionAssumption
    <2> QED
      BY <2>6, <2>8
  <1>10. /\ region' \in [Regions -> Cells] /\ Sound'
         /\ \A p \in Objs : pc[p] \in Unlinking => pc'[p] = pc[p]
    BY <1>1, <1>2, <1>5, <1>6, <1>8, <1>9, <1>13, InMine
  <1>11. TypeOK'
    <2>1. r \in Regions \cup {None} /\ (r = None <=> "Up" \in Away)
      BY <1>2 DEF Away, Unlinking
    <2>2. /\ name' \in Regions \cup {None} /\ extra' \subseteq {ShmName[p] : p \in Objs}
          /\ static' \in [Procs -> BOOLEAN] /\ is_create' \in [Objs -> BOOLEAN]
          /\ lock' \in [Objs -> {"None", "Locked", "Refused"}] /\ spoiled' \subseteq Regions
      BY <1>1 DEF IInv, TypeOK
    <2> QED
      BY <1>1, <1>2, <1>10, <2>1, <2>2, StepType DEF IInv
  <1>12. NameKept' /\ AreaKept'
    BY <1>1, <1>10, NamesOutlive DEF IInv
  <1> QED
    BY <1>7, <1>10, <1>11, <1>12 DEF IInv

(* The last one that is counted goes on to remove the names.               *)
LEMMA DeregisterIInv ==
    ASSUME RegionAssumption, IInv, NEW o \in Objs, Deregister(o)
    PROVE  IInv'
  <1>1. PICK r \in Regions : r = mapped[o]
    BY TypeFacts DEF IInv, Deregister, Away, Unlinking
  <1> DEFINE cell == region[r]
             less == (Mine(o).initialized + UintMax) % (UintMax + 1)
  <1>2. /\ pc[o] = "Deregister" /\ pc[o] \in Inside /\ pc[o] \notin Unlinking
        /\ mapped' = [mapped EXCEPT ![o] = None] /\ mapped'[o] = None /\ r # None
        /\ \A p \in Objs : p # o => mapped'[p] = mapped[p]
        /\ UNCHANGED <<name, extra, static, is_create, lock, spoiled>>
    BY DEF Deregister, Munmap, systemVars, localVars, Inside, Unlinking, IInv, TypeOK,
       RegionAssumption
  <1>3. cell \in Cells
    BY TypeFacts DEF IInv
  <1>4. PICK count \in Written(o, less) :
            /\ region' = [region EXCEPT ![r].initialized = count, ![r].owner = None]
            /\ Goto(o, IF LastOne(count) THEN "UnlinkExtra" ELSE "Gone")
    BY <1>1 DEF Deregister
  <1> DEFINE where == IF LastOne(count) THEN "UnlinkExtra" ELSE "Gone"
  <1>5. where \in Places /\ where \in Away /\ where \notin Inside /\ Goto(o, where)
        /\ (count = 0 => where = "UnlinkExtra")
    BY <1>4 DEF Places, Away, Unlinking, Inside, LastOne
  <1> HIDE DEF where
  <1>6. less \in 0 .. UintMax
    BY <1>1, <1>3 DEF Mine, Cells, RegionAssumption
  <1>7. count \in 0 .. UintMax
    <2>1. \A p \in At(Inside) : region[mapped[p]].initialized \in 0 .. UintMax
      BY TypeFacts DEF At, Inside, Away, Unlinking, IInv, Cells
    <2> QED
      BY <1>4, <1>6, <2>1 DEF Written, Mine
  <1>8. region' = [region EXCEPT ![r] = [cell EXCEPT !.initialized = count, !.owner = None]]
    BY <1>3, <1>4
  <1>9. /\ LockedIsUp' /\ ~Holds(o)' /\ pc'[o] = where
        /\ \A p \in Objs : p # o => pc'[p] = pc[p]
    BY <1>2, <1>5, GuardsLeft DEF IInv
  <1>10. OnlyMoves(o)
    BY <1>2, <1>9 DEF OnlyMoves
  <1> HIDE DEF less
  <1>11. ASSUME r \notin spoiled
         PROVE  /\ CountOf(r) /\ OwnerOf(r) /\ count = less /\ cell.owner = o
                /\ Counted(r)' = Counted(r) \ {o}
                /\ Cardinality(Counted(r)') = count
    <2>1. CountOf(r) /\ OwnerOf(r)
      BY <1>11 DEF IInv, Sound
    <2>2. count = less /\ cell.owner = o
      BY <1>1, <1>2, <1>4, <1>11, InsideAlone
    <2>3. o \in Counted(r) /\ o \notin Counted(r)' /\ Counted(r)' = Counted(r) \ {o}
      BY <1>1, <1>2, <1>10, CountedThere DEF Registered
    <2>4. Cardinality(Counted(r)') = Cardinality(Counted(r)) - 1
      BY <2>3, CountedFacts, FS_RemoveElement, ZenonT(30)
    <2>5. less = Cardinality(Counted(r)) - 1
      <3>1. Cardinality(Counted(r)) \in 1 .. UintMax /\ UintMax \in Nat
        BY <2>3, CountedFacts DEF RegionAssumption
      <3>2. Mine(o).initialized = Cardinality(Counted(r))
        BY <1>1, <2>1 DEF CountOf, Mine
      <3> QED
        BY <3>1, <3>2 DEF less
    <2> QED
      BY <2>1, <2>2, <2>3, <2>4, <2>5
  <1>12. ASSUME r \notin spoiled, region'[r].initialized = count, region'[r].owner = None
         PROVE  CountOf(r)' /\ OwnerOf(r)'
    <2>1. CountOf(r)'
      BY <1>11, <1>12 DEF CountOf
    <2>2. \A p \in Objs : mapped[p] = r /\ Holds(p) => p = o
      BY <1>11, <1>12 DEF OwnerOf
    <2>3. OwnerOf(r)'
      BY <1>2, <1>9, <1>10, <1>12, <2>2, CountedThere DEF OwnerOf, RegionAssumption
    <2> QED
      BY <2>1, <2>3
  <1>13. /\ region' \in [Regions -> Cells] /\ Sound'
         /\ \A p \in Objs : pc[p] \in Unlinking => pc'[p] = pc[p]
    BY <1>1, <1>2, <1>7, <1>8, <1>10, <1>12, InMine DEF RegionAssumption
  <1>14. TypeOK'
    <2>1. /\ name' \in Regions \cup {None} /\ extra' \subseteq {ShmName[p] : p \in Objs}
          /\ static' \in [Procs -> BOOLEAN] /\ is_create' \in [Objs -> BOOLEAN]
          /\ lock' \in [Objs -> {"None", "Locked", "Refused"}] /\ spoiled' \subseteq Regions
      BY <1>2 DEF IInv, TypeOK
    <2> QED
      BY <1>2, <1>5, <1>13, <2>1, StepType DEF IInv
  <1>15. r \notin spoiled =>
             where = "UnlinkExtra" \/ \E p \in Objs : p # o /\ mapped[p] = r
    <2>1. CASE count = 0
      BY <1>5, <2>1
    <2>2. CASE r \notin spoiled /\ count # 0
      <3>1. Cardinality(Counted(r)') # 0 /\ Counted(r)' = Counted(r) \ {o}
        BY <1>11, <2>2
      <3>2. Counted(r) \ {o} # {}
        BY <3>1, FS_EmptySet
      <3> QED
        BY <3>2 DEF Counted, At
    <2> QED
      BY <2>1, <2>2
  <1>16. NameKept'
    BY <1>1, <1>2, <1>9, <1>13, <1>15 DEF IInv, NameKept, Unlinking
  <1>17. AreaKept'
    BY <1>2, <1>9, <1>15 DEF AreaKept
  <1> QED
    BY <1>9, <1>13, <1>14, <1>16, <1>17 DEF IInv

-----------------------------------------------------------------------------
(* The rest of the destructor, and a new process.                          *)

LEMMA LeaveIInv ==
    ASSUME RegionAssumption, IInv, NEW o \in Objs, Leave(o)
    PROVE  IInv'
  <1>1. /\ pc[o] = "Up" /\ lock[o] = "None" /\ Goto(o, "Down")
        /\ UNCHANGED <<name, extra, region, static, is_create, mapped, lock, spoiled>>
    BY DEF Leave, systemVars, localVars
  <1>2. pc'[o] = "Down" /\ \A p \in Objs : p # o => pc'[p] = pc[p]
    BY <1>1, GotoType DEF IInv, Places
  <1>3. OnlyMoves(o) /\ LockedIsUp'
    BY <1>1, <1>2 DEF OnlyMoves, IInv, LockedIsUp
  <1>4. ASSUME NEW r \in Regions \ spoiled'
        PROVE  CountOf(r)' /\ OwnerOf(r)'
    <2>1. Holds(o)' <=> Holds(o)
      BY <1>1, <1>2 DEF Holds, Inside
    <2>2. Alike(r)
      BY <1>1, <1>2, <1>3, <2>1, Harmless DEF Registered
    <2> QED
      BY <1>1, <2>2, AlikeSound DEF IInv, Sound
  <1>5. TypeOK'
    <2>1. /\ mapped' = [mapped EXCEPT ![o] = mapped[o]] /\ mapped[o] \in Regions \cup {None}
          /\ (mapped[o] = None <=> "Down" \in Away) /\ "Down" \in Places
      BY <1>1, TypeFacts DEF IInv, TypeOK, Away, Unlinking, Places, RegionAssumption
    <2>2. /\ name' \in Regions \cup {None} /\ extra' \subseteq {ShmName[p] : p \in Objs}
          /\ static' \in [Procs -> BOOLEAN] /\ is_create' \in [Objs -> BOOLEAN]
          /\ lock' \in [Objs -> {"None", "Locked", "Refused"}] /\ spoiled' \subseteq Regions
          /\ region' \in [Regions -> Cells]
      BY <1>1, TypeFacts DEF IInv, TypeOK
    <2> QED
      BY <1>1, <2>1, <2>2, StepType DEF IInv
  <1>6. NameKept' /\ AreaKept'
    BY <1>1, <1>2, NamesOutlive DEF IInv, Unlinking
  <1> QED
    BY <1>3, <1>4, <1>5, <1>6 DEF IInv, Sound

LEMMA UnlinkIInv ==
    ASSUME RegionAssumption, IInv, NEW o \in Objs, UnlinkExtra(o) \/ UnlinkName(o)
    PROVE  IInv'
  <1> DEFINE where == IF pc[o] = "UnlinkExtra" THEN "UnlinkName" ELSE "Gone"
  <1>1. /\ pc[o] \in Unlinking /\ Goto(o, where)
        /\ \/ UnlinkExtra(o) /\ UNCHANGED name /\ extra' = extra \ {ShmName[o]}
           \/ UnlinkName(o) /\ name' = None /\ UNCHANGED extra
        /\ UNCHANGED <<region, static, is_create, mapped, lock, spoiled>>
    BY DEF UnlinkExtra, UnlinkName, localVars, Unlinking
  <1>2. where \in Places /\ where \in Away /\ where \notin Inside \cup Registered
        /\ (UnlinkExtra(o) => where = "UnlinkName")
    BY DEF Places, Away, Unlinking, Inside, Registered, UnlinkExtra
  <1>3. pc[o] \notin Inside \cup Registered /\ mapped[o] = None
    BY <1>1, TypeFacts DEF Unlinking, Inside, Registered, IInv, Away
  <1> HIDE DEF where
  <1>4. /\ LockedIsUp' /\ ~Holds(o)' /\ ~Holds(o) /\ pc'[o] = where
        /\ \A p \in Objs : p # o => pc'[p] = pc[p]
    BY <1>1, <1>2, <1>3, GuardsLeft DEF IInv, Registered
  <1>5. OnlyMoves(o)
    BY <1>1, <1>4 DEF OnlyMoves
  <1>6. ASSUME NEW r \in Regions \ spoiled'
        PROVE  CountOf(r)' /\ OwnerOf(r)'
    <2>1. Alike(r)
      BY <1>1, <1>2, <1>3, <1>4, <1>5, Harmless
    <2> QED
      BY <1>1, <2>1, AlikeSound DEF IInv, Sound
  <1>7. TypeOK'
    <2>1. mapped' = [mapped EXCEPT ![o] = None] /\ None \in Regions \cup {None}
      BY <1>1, <1>3 DEF IInv, TypeOK
    <2>2. /\ name' \in Regions \cup {None} /\ extra' \subseteq {ShmName[p] : p \in Objs}
          /\ static' \in [Procs -> BOOLEAN] /\ is_create' \in [Objs -> BOOLEAN]
          /\ lock' \in [Objs -> {"None", "Locked", "Refused"}] /\ spoiled' \subseteq Regions
          /\ region' \in [Regions -> Cells]
      BY <1>1, TypeFacts DEF IInv, TypeOK
    <2> QED
      BY <1>1, <1>2, <2>1, <2>2, StepType DEF IInv
  <1>8. CASE UnlinkExtra(o)
    <2>1. NameKept'
      BY <1>1, <1>2, <1>4, <1>8 DEF IInv, NameKept, Unlinking, UnlinkExtra, UnlinkName
    <2>2. AreaKept'
      BY <1>8 DEF AreaKept, UnlinkExtra
    <2> QED
      BY <1>4, <1>6, <1>7, <2>1, <2>2 DEF IInv, Sound
  <1>9. CASE UnlinkName(o)
    <2>1. NameKept'
      BY <1>9 DEF NameKept, UnlinkName
    <2>2. AreaKept'
      BY <1>3, <1>4, <1>9 DEF IInv, AreaKept, UnlinkName, localVars
    <2> QED
      BY <1>4, <1>6, <1>7, <2>1, <2>2 DEF IInv, Sound
  <1> QED
    BY <1>8, <1>9

LEMMA RestartIInv ==
    ASSUME RegionAssumption, IInv, NEW k \in Procs, Restart(k)
    PROVE  IInv'
  <1>1. /\ \A o \in Objs : pc'[o] = pc[o] \/ (pc[o] \in {"Gone", "Dead"} /\ pc'[o] = "Gone")
        /\ UNCHANGED <<name, extra, region, is_create, mapped, lock, spoiled>>
        /\ static' \in [Procs -> BOOLEAN] /\ pc' \in [Objs -> Places]
    BY TypeFacts DEF Restart, systemVars, IInv, TypeOK, Places
  <1>2. TypeOK'
    <2>1. \A o \in Objs : pc'[o] \in Away <=> pc[o] \in Away
      BY <1>1 DEF Away
    <2>2. \A o \in Objs : mapped'[o] = None <=> pc'[o] \in Away
      BY <1>1, <2>1, TypeFacts DEF IInv
    <2> QED
      BY <1>1, <2>2 DEF IInv, TypeOK, Places, Away, Unlinking
  <1>3. LockedIsUp'
    BY <1>1 DEF IInv, LockedIsUp
  <1>4. ASSUME NEW r \in Regions \ spoiled'
        PROVE  CountOf(r)' /\ OwnerOf(r)'
    <2>1. Alike(r)
      BY <1>1 DEF Alike, Holds, Inside, Registered
    <2> QED
      BY <1>1, <2>1, AlikeSound DEF IInv, Sound
  <1>5. NameKept' /\ AreaKept'
    BY <1>1, NamesOutlive DEF IInv, Unlinking
  <1> QED
    BY <1>2, <1>3, <1>4, <1>5 DEF IInv, Sound

-----------------------------------------------------------------------------
(* FJSyncGuard.                                                            *)

(* The common part of the steps of a guard.                                *)
LEMMA GuardStep ==
    ASSUME RegionAssumption, IInv, NEW o \in Objs, pc[o] = "Up",
           NEW r \in Regions, r = mapped[o],
           NEW state \in {"None", "Locked", "Refused"}, lock' = [lock EXCEPT ![o] = state],
           NEW owner \in Objs \cup {None}, region' = [region EXCEPT ![r].owner = owner],
           UNCHANGED <<name, extra, static, is_create, pc, mapped, spoiled>>,
           r \notin spoiled /\ region'[r].owner = owner => OwnerOf(r)'
    PROVE  IInv'
  <1> DEFINE cell == region[r]
  <1>1. cell \in Cells
    BY TypeFacts DEF IInv
  <1>2. lock' \in [Objs -> {"None", "Locked", "Refused"}]
        /\ \A p \in Objs : p # o => lock'[p] = lock[p]
    BY DEF IInv, TypeOK
  <1>3. region' = [region EXCEPT ![r] =
            [cell EXCEPT !.initialized = cell.initialized, !.owner = owner]]
    <2>1. [cell EXCEPT !.owner = owner]
              = [cell EXCEPT !.initialized = cell.initialized, !.owner = owner]
      BY <1>1 DEF Cells
    <2>2. region' = [region EXCEPT ![r] = [cell EXCEPT !.owner = owner]]
      BY <1>1
    <2> QED
      BY <2>1, <2>2
  <1>4. OnlyMoves(o) /\ LockedIsUp'
    BY <1>2 DEF OnlyMoves, IInv, LockedIsUp
  <1>5. ASSUME r \notin spoiled, region'[r].initialized = cell.initialized
        PROVE  CountOf(r)'
    <2>1. CountOf(r) /\ Counted(r)' = Counted(r)
      BY <1>5 DEF IInv, Sound, Counted, At
    <2> QED
      BY <1>5, <2>1 DEF CountOf
  <1>6. cell.initialized \in 0 .. UintMax
    BY <1>1 DEF Cells
  <1>7. mapped'[o] \in {None, r}
    OBVIOUS
  <1> HIDE DEF cell
  <1>8. region' \in [Regions -> Cells] /\ Sound'
    BY <1>3, <1>4, <1>5, <1>6, <1>7, InMine DEF cell
  <1>9. TypeOK'
    BY <1>2, <1>8 DEF IInv, TypeOK, Cells
  <1>10. NameKept' /\ AreaKept'
    BY NamesOutlive DEF IInv
  <1> QED
    BY <1>4, <1>8, <1>9, <1>10 DEF IInv

LEMMA GuardIInv ==
    ASSUME RegionAssumption, IInv, NEW o \in Objs, Guard(o)
    PROVE  IInv'
  <1>1. PICK r \in Regions : r = mapped[o]
    BY TypeFacts DEF IInv, Guard, Away, Unlinking
  <1>2. /\ pc[o] = "Up" /\ lock[o] = "None" /\ ~Holds(o)
        /\ UNCHANGED <<name, extra, static, is_create, pc, mapped, spoiled>>
    BY DEF Guard, systemVars, localVars, Holds, Inside
  <1>3. region \in [Regions -> Cells] /\ region[r].owner \in Objs \cup {None}
        /\ lock \in [Objs -> {"None", "Locked", "Refused"}]
    BY TypeFacts DEF IInv, TypeOK, Cells
  <1>4. ASSUME r \notin spoiled
        PROVE  OwnerOf(r)
    BY <1>4 DEF IInv, Sound
  <1>5. CASE TryLock(o)
    <2>1. /\ lock' = [lock EXCEPT ![o] = "Locked"] /\ region[r].owner = None
          /\ region' = [region EXCEPT ![r].owner = o]
      BY <1>1, <1>5 DEF Guard, TryLock, MutexFree, Mine
    <2>2. ASSUME r \notin spoiled, region'[r].owner = o
          PROVE  OwnerOf(r)'
      <3>1. \A p \in Objs : ~(mapped[p] = r /\ Holds(p))
        BY <1>4, <2>1, <2>2 DEF OwnerOf, RegionAssumption
      <3>2. Holds(o)' /\ \A p \in Objs : p # o => (Holds(p)' <=> Holds(p))
        BY <1>2, <1>3, <2>1 DEF Holds
      <3> QED
        BY <1>1, <1>2, <2>2, <3>1, <3>2 DEF OwnerOf
    <2> QED
      BY <1>1, <1>2, <2>1, <2>2, GuardStep
  <1>6. CASE ~TryLock(o)
    <2>1. /\ lock' = [lock EXCEPT ![o] = "Refused"] /\ region' = region
      BY <1>6 DEF Guard
    <2>2. region' = [region EXCEPT ![r].owner = region[r].owner]
      BY <1>3, <2>1 DEF Cells
    <2>3. ASSUME r \notin spoiled
          PROVE  OwnerOf(r)'
      <3>1. \A p \in Objs : Holds(p)' <=> Holds(p)
        BY <1>2, <1>3, <2>1 DEF Holds, Inside
      <3> QED
        BY <1>2, <1>4, <2>1, <2>3, <3>1 DEF OwnerOf
    <2>4. PICK owner \in Objs \cup {None} : owner = region[r].owner
      BY <1>3
    <2> QED
      BY <1>1, <1>2, <2>1, <2>2, <2>3, <2>4, GuardStep
  <1> QED
    BY <1>5, <1>6

(* The guard's own object counts, so that _unlock does unlock.             *)
LEMMA EndGuardIInv ==
    ASSUME RegionAssumption, IInv, NEW o \in Objs, EndGuard(o)
    PROVE  IInv'
  <1>1. pc[o] = "Up" /\ lock[o] # "None"
    BY DEF EndGuard, IInv, LockedIsUp
  <1>2. PICK r \in Regions : r = mapped[o]
    BY <1>1, TypeFacts DEF IInv, Away, Unlinking
  <1>3. /\ lock' = [lock EXCEPT ![o] = "None"]
        /\ UNCHANGED <<name, extra, static, is_create, pc, mapped, spoiled>>
    BY DEF EndGuard, systemVars, localVars
  <1>4. region \in [Regions -> Cells] /\ region[r].owner \in Objs \cup {None}
        /\ lock \in [Objs -> {"None", "Locked", "Refused"}]
    BY TypeFacts DEF IInv, TypeOK, Cells
  <1>5. ~Holds(o)' /\ \A p \in Objs : p # o => (Holds(p)' <=> Holds(p))
    BY <1>1, <1>3, <1>4 DEF Holds, Inside
  <1>6. ASSUME r \notin spoiled
        PROVE  OwnerOf(r) /\ region[r].initialized > 0
    <2>1. OwnerOf(r) /\ CountOf(r)
      BY <1>6 DEF IInv, Sound
    <2>2. o \in Counted(r)
      BY <1>1, <1>2 DEF Counted, At
    <2>3. Cardinality(Counted(r)) \in Nat /\ Cardinality(Counted(r)) # 0
      BY <2>2, CountedFacts
    <2> QED
      BY <2>1, <2>3 DEF CountOf
  <1>7. CASE lock[o] = "Locked" /\ region[r].initialized > 0
    <2>1. region' = [region EXCEPT ![r].owner = None]
      BY <1>2, <1>7 DEF EndGuard, Mine
    <2>2. ASSUME r \notin spoiled, region'[r].owner = None
          PROVE  OwnerOf(r)'
      <3>1. region[r].owner = o
        BY <1>2, <1>6, <1>7, <2>2 DEF OwnerOf, Holds
      <3>2. \A p \in Objs : p # o => ~(mapped[p] = r /\ Holds(p))
        BY <1>6, <2>2, <3>1 DEF OwnerOf
      <3> QED
        BY <1>3, <1>5, <2>2, <3>2 DEF OwnerOf, RegionAssumption
    <2> QED
      BY <1>1, <1>2, <1>3, <2>1, <2>2, GuardStep
  <1>8. CASE ~(lock[o] = "Locked" /\ region[r].initialized > 0)
    <2>1. region' = region
      BY <1>2, <1>8 DEF EndGuard, Mine
    <2>2. region' = [region EXCEPT ![r].owner = region[r].owner]
      BY <1>4, <2>1 DEF Cells
    <2>3. ASSUME r \notin spoiled
          PROVE  OwnerOf(r)'
      <3>1. ~Holds(o)
        BY <1>1, <1>6, <1>8, <2>3 DEF Holds, Inside
      <3> QED
        BY <1>3, <1>5, <1>6, <2>1, <2>3, <3>1 DEF OwnerOf
    <2>4. PICK owner \in Objs \cup {None} : owner = region[r].owner
      BY <1>4
    <2> QED
      BY <1>1, <1>2, <1>3, <2>2, <2>3, <2>4, GuardStep
  <1> QED
    BY <1>7, <1>8

-----------------------------------------------------------------------------
(* Every step keeps the invariant.                                         *)
LEMMA NextIInv ==
    ASSUME RegionAssumption, IInv, [Next]_vars
    PROVE  IInv'
  <1>1. ASSUME NEW o \in Objs, Construction(o)
        PROVE  IInv'
    BY <1>1, CreateIInv, TruncateIInv, WaitingIInv, InitialiseIInv, CrashIInv, RegisterIInv
       DEF Construction
  <1>2. ASSUME NEW o \in Objs, Destruction(o)
        PROVE  IInv'
    BY <1>2, DeregisterIInv, UnlinkIInv DEF Destruction
  <1>3. ASSUME NEW o \in Objs, Open(o) \/ Lock(o) \/ Leave(o) \/ Guard(o) \/ EndGuard(o)
        PROVE  IInv'
    BY <1>3, OpenIInv, LockIInv, LeaveIInv, GuardIInv, EndGuardIInv
  <1>4. ASSUME NEW k \in Procs, Restart(k)
        PROVE  IInv'
    BY <1>4, RestartIInv
  <1>5. CASE UNCHANGED vars
    <2>1. TypeOK'
      BY <1>5 DEF vars, IInv, TypeOK
    <2>2. ASSUME NEW r \in Regions \ spoiled'
          PROVE  CountOf(r)' /\ OwnerOf(r)'
      <3>1. Alike(r)
        BY <1>5 DEF vars, Alike, Holds
      <3> QED
        BY <1>5, <3>1, AlikeSound DEF vars, IInv, Sound
    <2>3. LockedIsUp' /\ NameKept' /\ AreaKept'
      BY <1>5 DEF vars, IInv, LockedIsUp, NameKept, AreaKept
    <2> QED
      BY <2>1, <2>2, <2>3 DEF IInv, Sound
  <1> QED
    BY <1>1, <1>2, <1>3, <1>4, <1>5 DEF Next

LEMMA AlwaysIInv == Spec => []IInv
  <1>1. Init => IInv
    BY InitIInv, RegionAssumption
  <1>2. IInv /\ [Next]_vars => IInv'
    BY NextIInv, RegionAssumption
  <1> QED
    BY <1>1, <1>2, PTL DEF Spec

-----------------------------------------------------------------------------
(* The state stays well typed, with every race of constructors and         *)
(* destructors: an object has mapped a region exactly from its shm_open to *)
(* its munmap or the death of its process.                                 *)
THEOREM TypeCorrect == Spec => []TypeOK
  <1>1. IInv => TypeOK
    BY DEF IInv
  <1> QED
    BY <1>1, AlwaysIInv, PTL

(* In a region that is not spoiled initialized_ is the number of objects   *)
(* that have registered and not left, for any number of them and however   *)
(* their constructors and destructors overlap; 100 ms waits that end too   *)
(* early, regions without a name and regions with two creators included.   *)
THEOREM CountIsExact == Spec => []CountExact
  <1>1. IInv => CountExact
    BY DEF IInv, Sound, CountOf, CountExact
  <1> QED
    BY <1>1, AlwaysIInv, PTL

(* In such a region the mutex belongs to the one critical section or guard *)
(* that has locked it, and to nobody when there is none.                   *)
THEOREM MutexIsOwned == Spec => []MutexOwned
  <1>1. IInv => MutexOwned
    BY DEF IInv, Sound, OwnerOf, MutexOwned
  <1> QED
    BY <1>1, AlwaysIInv, PTL

(* When the last object has gone and no region was ever spoiled, the name  *)
(* of the region and at least one extra area's have gone as well.          *)
THEOREM NothingStays == Spec => []NothingLeft
  <1>1. IInv => NothingLeft
    <2>1. SUFFICES ASSUME IInv, At({"Gone", "Dead"}) = Objs, spoiled = {}
                   PROVE  name = None /\ \E o \in Objs : ShmName[o] \notin extra
      BY DEF NothingLeft
    <2>2. \A o \in Objs : pc[o] \in {"Gone", "Dead"} /\ mapped[o] = None
      BY <2>1, TypeFacts DEF At, IInv, Away
    <2>3. name = None
      <3>1. CASE name # None
        <4>1. PICK o \in Objs : mapped[o] = name \/ pc[o] \in Unlinking
          BY <2>1, <3>1 DEF IInv, NameKept
        <4> QED
          BY <2>2, <3>1, <4>1 DEF Unlinking
      <3> QED
        BY <3>1
    <2>4. \E o \in Objs : ShmName[o] \notin extra
      BY <2>1, <2>2 DEF IInv, AreaKept
    <2> QED
      BY <2>3, <2>4
  <1> QED
    BY <1>1, AlwaysIInv, PTL
=============================================================================
