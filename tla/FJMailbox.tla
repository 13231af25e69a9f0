----------------------------- MODULE FJMailbox -----------------------------
(***************************************************************************)
(* What the messages of FJSharedMem promise: a notification gives each     *)
(* listener of the message, other than its sender, at most one mail; a     *)
(* process takes its mails all at once and delivers each of them once.     *)
(*                                                                         *)
(* A sender and an object that leaves are told from others by address      *)
(* only: an object of another process at the same address is not sent to   *)
(* either, and stops listening with the one that leaves.                   *)
(***************************************************************************)
EXTENDS FiniteSets, Integers

CONSTANTS Msgs, Objs,
          Proc, \* the process of each object
          Addr  \* its address in the process

VARIABLES listeners,  \* who listens to what
          queued,     \* how many mails of each kind no process has taken
          taken       \* how many have been taken and not yet delivered

vars == <<listeners, queued, taken>>

Mail == [msg : Msgs, obj : Objs]
MailOf(p) == {m \in Mail : Proc[m.obj] = p}
SameAddr(m, o) == Addr[m.obj] = Addr[o]
Nothing == [m \in Mail |-> 0]

Init == listeners = {} /\ queued = Nothing /\ taken = Nothing

Listen(o) ==
    /\ \E new \in SUBSET Msgs : listeners' = listeners \cup [msg : new, obj : {o}]
    /\ UNCHANGED <<queued, taken>>

Notify(from, msg) ==
    /\ \E receivers \in SUBSET {m \in listeners : m.msg = msg /\ ~SameAddr(m, from)} :
           queued' = [m \in Mail |-> queued[m] + IF m \in receivers THEN 1 ELSE 0]
    /\ UNCHANGED <<listeners, taken>>

Take(p) ==
    /\ queued' = [m \in Mail |-> IF m \in MailOf(p) THEN 0 ELSE queued[m]]
    /\ taken' = [m \in Mail |-> taken[m] + IF m \in MailOf(p) THEN queued[m] ELSE 0]
    /\ UNCHANGED listeners

Deliver(m) ==
    /\ taken[m] > 0
    /\ taken' = [taken EXCEPT ![m] = @ - 1]
    /\ UNCHANGED <<listeners, queued>>

(* An object leaves: it no longer listens, and its mails are dropped as    *)
(* far as its process has not taken them.                                  *)
Leave(o) ==
    /\ listeners' = {m \in listeners : ~SameAddr(m, o)}
    /\ queued' = [m \in Mail |-> IF SameAddr(m, o) THEN 0 ELSE queued[m]]
    /\ UNCHANGED taken

(* A process dies with the mails it has taken.                             *)
Die(p) ==
    /\ taken' = [m \in Mail |-> IF m \in MailOf(p) THEN 0 ELSE taken[m]]
    /\ UNCHANGED <<listeners, queued>>

Next ==
    \/ \E o \in Objs : Listen(o) \/ Leave(o) \/ \E msg \in Msgs : Notify(o, msg)
    \/ \E o \in Objs : Take(Proc[o]) \/ Die(Proc[o])
    \/ \E m \in Mail : Deliver(m)

Spec == Init /\ [][Next]_vars
=============================================================================
