---------------------------- MODULE InstanceLock ----------------------------
(***************************************************************************)
(* What the lock of an instance promises to the requests that take it:     *)
(* the handler of a request runs for an instance while it is the owner of  *)
(* the lock, and a lock has one owner at a time, until that one leaves.    *)
(*                                                                         *)
(* A lock can be revoked, its owner or a request in its queue being left   *)
(* with a mutex nobody else will see: the strays.  Dispatch implements     *)
(* this specification.                                                     *)
(***************************************************************************)

CONSTANTS Instances,  \* each has a lock
          Workers,    \* tasks that serve a request
          None        \* no owner, or no instance

VARIABLES inside,     \* the instance for which the handler of each worker runs
          owner,      \* the worker that has the lock of each instance
          strays      \* workers inside that have lost their lock, or never had it

lockVars == <<inside, owner, strays>>

LockInit ==
    /\ inside = [w \in Workers |-> None]
    /\ owner = [i \in Instances |-> None]
    /\ strays = {}

Enter(w, i) ==
    /\ inside[w] = None /\ owner[i] = None
    /\ inside' = [inside EXCEPT ![w] = i]
    /\ owner' = [owner EXCEPT ![i] = w]
    /\ UNCHANGED strays

Leave(w, i) ==
    /\ inside[w] = i
    /\ inside' = [inside EXCEPT ![w] = None]
    /\ owner' = IF owner[i] = w THEN [owner EXCEPT ![i] = None] ELSE owner
    /\ strays' = strays \ {w}

\* The lock is taken from its owner, which stays inside.
Revoke(i) ==
    /\ owner[i] # None
    /\ owner' = [owner EXCEPT ![i] = None]
    /\ strays' = strays \cup {owner[i]}
    /\ UNCHANGED inside

\* A worker that has waited for a lock since revoked.
EnterRevoked(w, i) ==
    /\ inside[w] = None
    /\ inside' = [inside EXCEPT ![w] = i]
    /\ strays' = strays \cup {w}
    /\ UNCHANGED owner

LockNext ==
    \/ \E w \in Workers, i \in Instances : Enter(w, i) \/ Leave(w, i) \/ EnterRevoked(w, i)
    \/ \E i \in Instances : Revoke(i)
    \/ LockInit'    \* the daemon is killed

LockSpec == LockInit /\ [][LockNext]_lockVars
=============================================================================
