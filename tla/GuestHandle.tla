----------------------------- MODULE GuestHandle -----------------------------
(***************************************************************************)
(* One GuestHandle of the cfctl daemon (cfctl/src/daemon/guest.rs) and the *)
(* threads that share it: exit watchers (spawn_exit_watcher, which call    *)
(* GuestHandle::wait), terminators (terminate_guest: SIGTERM, a grace      *)
(* period, SIGKILL, five more seconds) and pollers (the wait_for_adb loop, *)
(* which calls try_wait until adb answers or a deadline passes, and then   *)
(* terminates the guest).                                                  *)
(*                                                                         *)
(* GuestHandle.state is a Mutex around a Child and a cached exit status.   *)
(* try_wait holds the mutex for one waitpid(WNOHANG), so it is one step    *)
(* here; wait keeps it for as long as the guest runs, so taking it and     *)
(* returning are two steps.  A loop round that finds the guest alive and   *)
(* the deadline not reached changes nothing: it is a stuttering step.      *)
(*                                                                         *)
(* An error of waitpid in try_wait or wait would end the call without an   *)
(* exit.  There is none: std retries EINTR, and the daemon never ignores   *)
(* SIGCHLD and calls waitpid nowhere else, so that waitpid fails only on a *)
(* child that this handle has reaped (NoStaleWaitpid).                     *)
(***************************************************************************)

CONSTANTS Watchers,     \* threads that call GuestHandle::wait
          Terminators,  \* threads that run terminate_guest
          Pollers,      \* threads that run the wait_for_adb loop
          Statuses,     \* the exit statuses a guest can have
          NoStatus,     \* Option::None for a status
          NoThread,     \* the mutex is free
          ObeysTerm     \* does the guest exit when it gets SIGTERM?

Threads == Watchers \cup Terminators \cup Pollers

ASSUME RolesAssumption ==
    /\ Watchers \cap (Terminators \cup Pollers) = {}
    /\ Terminators \cap Pollers = {}
    /\ NoThread \notin Threads
    /\ NoStatus \notin Statuses
    /\ ObeysTerm \in BOOLEAN

VARIABLES proc,     \* the guest process, as the kernel sees it
          status,   \* the status it exited with
          pending,  \* signals sent to it
          mutex,    \* the thread that holds GuestHandle.state
          child,    \* ChildState.child is Some
          exit,     \* ChildState.exit
          pc,       \* where each thread is
          answer    \* the exit each thread has been told

vars == <<proc, status, pending, mutex, child, exit, pc, answer>>

Returned == {"told", "ready", "gave_up", "signal_failed", "already_awaited"}

TypeOK ==
    /\ proc \in {"running", "zombie", "reaped"}
    /\ status \in Statuses \cup {NoStatus}
    /\ pending \in SUBSET {"TERM", "KILL"}
    /\ mutex \in Threads \cup {NoThread}
    /\ child \in BOOLEAN
    /\ exit \in Statuses \cup {NoStatus}
    /\ pc \in [Threads -> {"wait_lock", "wait_child", "poll", "term", "grace",
                           "kill", "kill_grace"} \cup Returned]
    /\ answer \in [Threads -> Statuses \cup {NoStatus}]

Init ==
    /\ proc = "running"
    /\ status = NoStatus
    /\ pending = {}
    /\ mutex = NoThread
    /\ child = TRUE
    /\ exit = NoStatus
    /\ pc = [t \in Threads |-> IF t \in Watchers THEN "wait_lock"
                               ELSE IF t \in Pollers THEN "poll" ELSE "term"]
    /\ answer = [t \in Threads |-> NoStatus]

Goto(t, label) == pc' = [pc EXCEPT ![t] = label]

-----------------------------------------------------------------------------
\* The guest exits: by itself, on a signal, or killed by somebody else.
GuestExits ==
    /\ proc = "running"
    /\ proc' = "zombie"
    /\ status' \in Statuses
    /\ UNCHANGED <<pending, mutex, child, exit, pc, answer>>

\* Seeded fault of TryWait: the status is reaped but not cached.
TryWaitUncached ==
    /\ mutex = NoThread
    /\ IF exit = NoStatus /\ child /\ proc = "zombie"
       THEN proc' = "reaped" /\ child' = FALSE /\ UNCHANGED exit
       ELSE UNCHANGED <<proc, child, exit>>
    /\ UNCHANGED <<status, pending, mutex>>

\* Seeded fault of TryWait: waitpid's "not yet" is read as an exit.
TryWaitMisread ==
    /\ mutex = NoThread
    /\ IF exit = NoStatus /\ child
       THEN proc' = proc /\ child' = FALSE /\ exit' \in Statuses
       ELSE UNCHANGED <<proc, child, exit>>
    /\ UNCHANGED <<status, pending, mutex>>

\* Seeded fault of TryWait: the Child is left in the state after it was reaped.
TryWaitKeepsChild ==
    /\ mutex = NoThread
    /\ IF exit = NoStatus /\ child /\ proc = "zombie"
       THEN proc' = "reaped" /\ exit' = status /\ UNCHANGED child
       ELSE UNCHANGED <<proc, child, exit>>
    /\ UNCHANGED <<status, pending, mutex>>

\* GuestHandle::try_wait.  exit' is what it returns.
TryWait ==
    /\ mutex = NoThread
    /\ IF exit = NoStatus /\ child /\ proc = "zombie"
       THEN /\ proc' = "reaped"
            /\ child' = FALSE
            /\ exit' = status
       ELSE UNCHANGED <<proc, child, exit>>
    /\ UNCHANGED <<status, pending, mutex>>

\* Seeded fault of Signal: another signal than the one asked for.
SignalHup(s) ==
    /\ pending' = pending \cup {"HUP"}
    /\ UNCHANGED <<proc, status, mutex, child, exit>>

\* GuestHandle::signal: kill(pid) succeeds, or fails with ESRCH (the guest is gone), which
\* is no error.
Signal(s) ==
    /\ pending' = IF proc = "running" THEN pending \cup {s} ELSE pending
    /\ UNCHANGED <<proc, status, mutex, child, exit>>

-----------------------------------------------------------------------------
\* GuestHandle::wait up to the blocking waitpid: the cached exit if there is
\* one; otherwise the Child is taken out of the state, the mutex kept; an
\* error if another thread has taken it.
WaitLock(t) ==
    /\ pc[t] = "wait_lock"
    /\ mutex = NoThread
    /\ IF exit # NoStatus
       THEN /\ Goto(t, "told")
            /\ answer' = [answer EXCEPT ![t] = exit]
            /\ UNCHANGED <<mutex, child>>
       ELSE /\ child' = FALSE
            /\ Goto(t, IF child THEN "wait_child" ELSE "already_awaited")
            /\ mutex' = IF child THEN t ELSE NoThread
            /\ UNCHANGED answer
    /\ UNCHANGED <<proc, status, pending, exit>>

\* Seeded fault of WaitReturns: the watcher does not cache what it learnt.
WaitReturnsUncached(t) ==
    /\ pc[t] = "wait_child"
    /\ proc = "zombie"
    /\ proc' = "reaped"
    /\ mutex' = NoThread
    /\ answer' = [answer EXCEPT ![t] = status]
    /\ Goto(t, "told")
    /\ UNCHANGED <<status, pending, child, exit>>

\* Seeded fault of WaitReturns: the mutex is never released.
WaitReturnsLocked(t) ==
    /\ pc[t] = "wait_child"
    /\ proc = "zombie"
    /\ proc' = "reaped"
    /\ exit' = status
    /\ answer' = [answer EXCEPT ![t] = status]
    /\ Goto(t, "told")
    /\ UNCHANGED <<status, pending, child, mutex>>

\* The waitpid of GuestHandle::wait returns; the mutex is released.
WaitReturns(t) ==
    /\ pc[t] = "wait_child"
    /\ proc = "zombie"
    /\ proc' = "reaped"
    /\ exit' = status
    /\ mutex' = NoThread
    /\ answer' = [answer EXCEPT ![t] = status]
    /\ Goto(t, "told")
    /\ UNCHANGED <<status, pending, child>>

-----------------------------------------------------------------------------
\* Seeded fault of Observes: the exit is guessed from the signal that was sent.
ObservesGuess(t) ==
    /\ pc[t] \in {"poll", "grace", "kill_grace"}
    /\ TryWait
    /\ exit' # NoStatus
    /\ \E s \in Statuses : answer' = [answer EXCEPT ![t] = s]
    /\ Goto(t, "told")

\* try_wait found the guest dead: every loop that calls it ends there.
Observes(t) ==
    /\ pc[t] \in {"poll", "grace", "kill_grace"}
    /\ TryWait
    /\ exit' # NoStatus
    /\ answer' = [answer EXCEPT ![t] = exit']
    /\ Goto(t, "told")

\* wait_for_adb: the guest is alive and adb answers.
PollReady(t) ==
    /\ pc[t] = "poll"
    /\ TryWait
    /\ exit' = NoStatus
    /\ Goto(t, "ready")
    /\ UNCHANGED answer

\* wait_for_adb: the guest is alive, adb does not answer and the deadline has
\* passed, so the guest is terminated.
PollDeadline(t) ==
    /\ pc[t] = "poll"
    /\ TryWait
    /\ exit' = NoStatus
    /\ Goto(t, "term")
    /\ UNCHANGED answer

\* terminate_guest: SIGTERM, then wait_timeout(grace).
SendTerm(t) ==
    /\ pc[t] = "term"
    /\ Signal("TERM")
    /\ Goto(t, "grace")
    /\ UNCHANGED answer

\* wait_timeout returns None: the grace period is over, the guest alive.
GraceExpires(t) ==
    /\ pc[t] = "grace"
    /\ TryWait
    /\ exit' = NoStatus
    /\ Goto(t, "kill")
    /\ UNCHANGED answer

\* terminate_guest: SIGKILL, then wait_timeout(5 s).
SendKill(t) ==
    /\ pc[t] = "kill"
    /\ Signal("KILL")
    /\ Goto(t, "kill_grace")
    /\ UNCHANGED answer

\* GuestHandle::signal fails otherwise, say with EPERM where sudo runs as root and the daemon
\* does not: terminate_guest returns the error.
SignalFails(t) ==
    /\ pc[t] \in {"term", "kill"}
    /\ Goto(t, "signal_failed")
    /\ UNCHANGED <<proc, status, pending, mutex, child, exit, answer>>

\* "still running after SIGKILL": five seconds later terminate_guest gives up.
KillGraceExpires(t) ==
    /\ pc[t] = "kill_grace"
    /\ TryWait
    /\ exit' = NoStatus
    /\ Goto(t, "gave_up")
    /\ UNCHANGED answer

-----------------------------------------------------------------------------
Step(t) ==
    \/ WaitLock(t) \/ WaitReturns(t)
    \/ Observes(t)
    \/ PollDeadline(t)
    \/ SendTerm(t) \/ GraceExpires(t) \/ SendKill(t) \/ KillGraceExpires(t)
    \/ SignalFails(t)

Next == GuestExits \/ \E t \in Threads : Step(t) \/ PollReady(t)

Spec == Init /\ [][Next]_vars

\* The kernel delivers SIGKILL; SIGTERM ends a guest that obeys it.
SignalledExit ==
    /\ GuestExits
    /\ "KILL" \in pending \/ ("TERM" \in pending /\ ObeysTerm)

\* Threads are scheduled, and time passes: a deadline is reached in the end.
\* Nothing makes adb answer.
FairSpec ==
    /\ Spec
    /\ \A t \in Threads : WF_vars(Step(t))
    /\ WF_vars(SignalledExit)

-----------------------------------------------------------------------------
\* The status cached in the handle is the guest's own, and there is one only
\* after the guest was reaped (guest.rs try_wait, wait).
ExitIsTrue ==
    exit # NoStatus => proc = "reaped" /\ exit = status

\* Whatever the threads race for, those that are told an exit are told the
\* guest's own: the watcher and a terminator never record different outcomes.
AnswersAgree ==
    \A t \in Threads : answer[t] # NoStatus => answer[t] = status

\* "guest process already awaited" (guest.rs:109) is never returned, however
\* many watchers and terminators share the handle.
NeverAlreadyAwaited ==
    \A t \in Threads : pc[t] # "already_awaited"

\* No thread can call waitpid on a process that has been reaped, whose pid the
\* kernel may have given to another process.
NoStaleWaitpid ==
    proc = "reaped" => ~child /\ \A t \in Threads : pc[t] # "wait_child"

\* The handle is a write-once cell to the threads that share it.
Cell == INSTANCE ExitCell WITH cell <- exit, told <- answer
ImplementsExitCell == Cell!CellSpec

\* terminate_guest returns, whatever the other threads do.
TerminatorsReturn ==
    \A t \in Terminators : <>(pc[t] \in Returned)

\* A wait_for_adb call returns: its --timeout-secs is a ceiling.
PollersReturn ==
    \A t \in Pollers : <>(pc[t] \in Returned)

\* Every exit watcher of a guest that dies is told so.
WatchersLearn ==
    \A t \in Watchers : proc # "running" ~> answer[t] # NoStatus
=============================================================================
