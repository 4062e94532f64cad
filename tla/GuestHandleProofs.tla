-------------------------- MODULE GuestHandleProofs --------------------------
(***************************************************************************)
(* The safety properties of GuestHandle for any number of watchers,        *)
(* terminators and pollers and any set of exit statuses, and that the      *)
(* handle implements the write-once cell of ExitCell.                      *)
(***************************************************************************)
EXTENDS GuestHandle, TLAPS

\* The mutex is held between two steps by a thread in the waitpid of wait only.
MutexInv == \A t \in Threads : mutex = t <=> pc[t] = "wait_child"

\* Child and exit: the Child is present until somebody takes it; an absent Child
\* means that its exit is cached or that the thread holding the mutex will cache it.
ChildInv ==
    /\ child => mutex = NoThread /\ exit = NoStatus
    /\ ~child => mutex # NoThread \/ exit # NoStatus
    /\ mutex # NoThread => exit = NoStatus

\* The kernel's view: an exited guest has a status, which is cached when it is reaped.
ProcInv ==
    /\ status = NoStatus <=> proc = "running"
    /\ proc = "reaped" <=> exit # NoStatus
    /\ exit # NoStatus => exit = status

\* No thread is told an exit that is not the cached one.
AnswerInv == \A t \in Threads : answer[t] # NoStatus => answer[t] = exit

IInv ==
    /\ TypeOK
    /\ MutexInv
    /\ ChildInv
    /\ ProcInv
    /\ AnswerInv
    /\ NeverAlreadyAwaited

-----------------------------------------------------------------------------
LEMMA InitIInv == Init => IInv
  BY RolesAssumption
     DEF Init, IInv, TypeOK, MutexInv, ChildInv, ProcInv, AnswerInv, NeverAlreadyAwaited,
         Threads, Returned

\* What one try_wait does to an invariant state, for every loop that calls it.
LEMMA TryWaitFacts ==
  ASSUME IInv, TryWait
  PROVE  /\ proc' \in {"running", "zombie", "reaped"}
         /\ child' \in BOOLEAN
         /\ exit' \in Statuses \cup {NoStatus}
         /\ UNCHANGED <<status, pending, mutex>>
         /\ ChildInv'
         /\ ProcInv'
         /\ exit # NoStatus => exit' = exit
         /\ mutex = NoThread
  BY RolesAssumption DEF IInv, TypeOK, MutexInv, ChildInv, ProcInv, TryWait

\* The threads other than the one that moves keep their place and their answer.
LEMMA StepIInv ==
  ASSUME IInv, [Next]_vars
  PROVE  IInv'
<1> USE RolesAssumption
<1>1. CASE GuestExits
  BY <1>1 DEF GuestExits, IInv, TypeOK, MutexInv, ChildInv, ProcInv, AnswerInv,
              NeverAlreadyAwaited
<1>2. ASSUME NEW t \in Threads, WaitLock(t)
      PROVE  IInv'
  <2>1. /\ pc[t] = "wait_lock" /\ mutex = NoThread
        /\ UNCHANGED <<proc, status, pending, exit>>
    BY <1>2 DEF WaitLock
  <2>2. CASE exit # NoStatus
    <3>1. /\ pc' = [pc EXCEPT ![t] = "told"]
          /\ answer' = [answer EXCEPT ![t] = exit]
          /\ UNCHANGED <<mutex, child>>
      BY <1>2, <2>2 DEF WaitLock, Goto
    <3>2. QED
      BY <2>1, <2>2, <3>1
         DEF IInv, TypeOK, MutexInv, ChildInv, ProcInv, AnswerInv, NeverAlreadyAwaited,
             Returned
  <2>3. CASE exit = NoStatus
    <3>1. child = TRUE
      BY <2>1, <2>3 DEF IInv, TypeOK, ChildInv
    <3>2. /\ pc' = [pc EXCEPT ![t] = "wait_child"]
          /\ child' = FALSE
          /\ mutex' = t
          /\ UNCHANGED answer
      BY <1>2, <2>3, <3>1 DEF WaitLock, Goto
    <3>3. TypeOK'
      BY <2>1, <3>2 DEF IInv, TypeOK
    <3>4. MutexInv' /\ AnswerInv' /\ NeverAlreadyAwaited'
      BY <2>1, <3>2 DEF IInv, TypeOK, MutexInv, AnswerInv, NeverAlreadyAwaited
    <3>5. ChildInv' /\ ProcInv'
      BY <2>1, <2>3, <3>2 DEF IInv, ChildInv, ProcInv
    <3>6. QED
      BY <3>3, <3>4, <3>5 DEF IInv
  <2>4. QED
    BY <2>2, <2>3
<1>3. ASSUME NEW t \in Threads, WaitReturns(t)
      PROVE  IInv'
  BY <1>3 DEF WaitReturns, Goto, IInv, TypeOK, MutexInv, ChildInv, ProcInv, AnswerInv,
              NeverAlreadyAwaited, Returned
<1>4. ASSUME NEW t \in Threads, Observes(t)
      PROVE  IInv'
  <2>1. TryWait
    BY <1>4 DEF Observes
  <2>2. QED
    BY <1>4, <2>1, TryWaitFacts
       DEF Observes, Goto, IInv, TypeOK, MutexInv, AnswerInv, NeverAlreadyAwaited, Returned
<1>5. ASSUME NEW t \in Threads, NEW label \in {"ready", "term", "kill", "gave_up"},
             pc[t] # "wait_child", TryWait, Goto(t, label), UNCHANGED answer
      PROVE  IInv'
  BY <1>5, TryWaitFacts
     DEF Goto, IInv, TypeOK, MutexInv, AnswerInv, NeverAlreadyAwaited, Returned
<1>6. ASSUME NEW t \in Threads,
             PollReady(t) \/ PollDeadline(t) \/ GraceExpires(t) \/ KillGraceExpires(t)
      PROVE  IInv'
  BY <1>5, <1>6 DEF PollReady, PollDeadline, GraceExpires, KillGraceExpires
<1>7. ASSUME NEW t \in Threads, SendTerm(t) \/ SendKill(t)
      PROVE  IInv'
  <2>1. PICK label \in {"grace", "kill_grace"} :
          /\ pc[t] # "wait_child"
          /\ pc' = [pc EXCEPT ![t] = label]
    BY <1>7 DEF SendTerm, SendKill, Goto
  <2>2. /\ pending' \in SUBSET {"TERM", "KILL"}
        /\ UNCHANGED <<proc, status, mutex, child, exit, answer>>
    BY <1>7 DEF SendTerm, SendKill, Signal, IInv, TypeOK
  <2>3. QED
    BY <2>1, <2>2
       DEF IInv, TypeOK, MutexInv, ChildInv, ProcInv, AnswerInv, NeverAlreadyAwaited
<1>8. ASSUME NEW t \in Threads, SignalFails(t)
      PROVE  IInv'
  BY <1>8 DEF SignalFails, Goto, IInv, TypeOK, MutexInv, ChildInv, ProcInv, AnswerInv,
              NeverAlreadyAwaited, Returned
<1>9. CASE UNCHANGED vars
  BY <1>9 DEF vars, IInv, TypeOK, MutexInv, ChildInv, ProcInv, AnswerInv,
              NeverAlreadyAwaited
<1>10. QED
  BY <1>1, <1>2, <1>3, <1>4, <1>6, <1>7, <1>8, <1>9 DEF Next, Step

\* The inductive invariant holds in every reachable state.
THEOREM Invariance == Spec => []IInv
<1>1. Init => IInv
  BY InitIInv
<1>2. IInv /\ [Next]_vars => IInv'
  BY StepIInv
<1>3. QED
  BY <1>1, <1>2, PTL DEF Spec

-----------------------------------------------------------------------------
\* guest.rs keeps its types.
THEOREM TypeCorrect == Spec => []TypeOK
<1>1. IInv => TypeOK
  BY DEF IInv
<1>2. QED
  BY <1>1, Invariance, PTL

\* "guest process already awaited" (guest.rs:109) is unreachable.
THEOREM NeverAwaitedTwice == Spec => []NeverAlreadyAwaited
<1>1. IInv => NeverAlreadyAwaited
  BY DEF IInv
<1>2. QED
  BY <1>1, Invariance, PTL

\* The cached exit is the guest's own (guest.rs try_wait, wait).
THEOREM CachedExitTrue == Spec => []ExitIsTrue
<1>1. IInv => ExitIsTrue
  BY DEF IInv, ProcInv, ExitIsTrue
<1>2. QED
  BY <1>1, Invariance, PTL

\* All threads that are told an exit are told the guest's own.
THEOREM ObserversAgree == Spec => []AnswersAgree
<1>1. IInv => AnswersAgree
  BY DEF IInv, ProcInv, AnswerInv, AnswersAgree
<1>2. QED
  BY <1>1, Invariance, PTL

\* waitpid is never called on a pid the kernel may have reused.
THEOREM WaitpidFresh == Spec => []NoStaleWaitpid
<1>1. IInv => NoStaleWaitpid
  BY RolesAssumption DEF IInv, MutexInv, ChildInv, ProcInv, NoStaleWaitpid
<1>2. QED
  BY <1>1, Invariance, PTL

-----------------------------------------------------------------------------
\* A step of the handle is a step of the cell, or leaves the cell alone.
LEMMA StepRefines ==
  ASSUME IInv, [Next]_vars
  PROVE  [Cell!CellNext]_<<exit, answer>>
<1> USE RolesAssumption
<1>1. ASSUME NEW t \in Threads, WaitLock(t)
      PROVE  [Cell!CellNext]_<<exit, answer>>
  BY <1>1 DEF WaitLock, Cell!CellNext, Cell!Recall
<1>2. ASSUME NEW t \in Threads, WaitReturns(t)
      PROVE  Cell!Learn(t)
  BY <1>2 DEF WaitReturns, Cell!Learn, IInv, TypeOK, ProcInv
<1>3. ASSUME NEW t \in Threads, Observes(t)
      PROVE  Cell!Learn(t) \/ Cell!Recall(t)
  BY <1>3, TryWaitFacts DEF Observes, Cell!Learn, Cell!Recall
<1>4. ASSUME NEW t \in Threads,
             PollReady(t) \/ PollDeadline(t) \/ GraceExpires(t) \/ KillGraceExpires(t)
      PROVE  UNCHANGED <<exit, answer>>
  BY <1>4, TryWaitFacts DEF PollReady, PollDeadline, GraceExpires, KillGraceExpires
<1>5. ASSUME NEW t \in Threads, SendTerm(t) \/ SendKill(t) \/ SignalFails(t)
      PROVE  UNCHANGED <<exit, answer>>
  BY <1>5 DEF SendTerm, SendKill, Signal, SignalFails
<1>6. CASE GuestExits \/ UNCHANGED vars
  BY <1>6 DEF GuestExits, vars
<1>7. QED
  BY <1>1, <1>2, <1>3, <1>4, <1>5, <1>6 DEF Next, Step, Cell!CellNext

\* GuestHandle implements ExitCell.
THEOREM Refinement == Spec => ImplementsExitCell
<1>1. Init => Cell!CellInit
  BY DEF Init, Cell!CellInit, Threads
<1>2. IInv /\ [Next]_vars => [Cell!CellNext]_<<exit, answer>>
  BY StepRefines
<1>3. QED
  BY <1>1, <1>2, Invariance, PTL DEF Spec, ImplementsExitCell, Cell!CellSpec, Cell!cellVars
=============================================================================
