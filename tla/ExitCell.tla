------------------------------ MODULE ExitCell ------------------------------
(***************************************************************************)
(* What a GuestHandle promises to the threads that share it: the exit of   *)
(* the guest is learnt once, and every thread that is told an exit is told *)
(* that one.  How the promise is kept (a mutex, waitpid, a cached status)  *)
(* is the business of GuestHandle, which implements this specification.    *)
(***************************************************************************)

CONSTANTS Threads,    \* the threads that share the handle
          Statuses,   \* the exit statuses a guest can have
          NoStatus    \* "not known yet"

VARIABLES cell,       \* the exit the handle knows
          told        \* what each thread has been told

cellVars == <<cell, told>>

CellTypeOK ==
    /\ cell \in Statuses \cup {NoStatus}
    /\ told \in [Threads -> Statuses \cup {NoStatus}]

CellInit ==
    /\ cell = NoStatus
    /\ told = [t \in Threads |-> NoStatus]

\* The first thread to find the guest dead records the status and is told it.
Learn(t) ==
    /\ cell = NoStatus
    /\ cell' \in Statuses
    /\ told' = [told EXCEPT ![t] = cell']

\* Every later thread is told the recorded status.
Recall(t) ==
    /\ cell # NoStatus
    /\ told' = [told EXCEPT ![t] = cell]
    /\ UNCHANGED cell

CellNext == \E t \in Threads : Learn(t) \/ Recall(t)

CellSpec == CellInit /\ [][CellNext]_cellVars
=============================================================================
