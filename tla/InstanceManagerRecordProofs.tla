---------------------- MODULE InstanceManagerRecordProofs ----------------------
(***************************************************************************)
(* That the records of InstanceManager are true, that "starting" ends, and *)
(* that no guest is orphaned.  Each theorem names the requests under which *)
(* it holds: the code has races outside them.                              *)
(*                                                                         *)
(* A record is not true at each moment; it is Right: no killable guest     *)
(* runs, or a thread is on its way to kill the guests (Kills) or to write  *)
(* what became of them (Reports).  A copy that hold or deploy will write   *)
(* back must be Right too, which needs the lock to keep starts away.       *)
(***************************************************************************)
EXTENDS InstanceManagerProofs

-----------------------------------------------------------------------------
(* Who will correct the record of an instance. *)

\* No request copies a record and writes it back, or none starts without the instance's
\* lock, which is kept.
UpdatesLocked ==
    Ops \cap {"Hold", "Deploy"} = {} \/ ("CreateStart" \notin Ops /\ LockKept)

\* A thread will kill what runs for instance i, or write what became of it.
Corrected(i) == \E t \in Threads : thread[t].id = i /\ (Kills(thread[t]) \/ Reports(thread[t]))

\* It is right, or will be, that no guest of i runs.
Right(i) == Alive(i) \subseteq Unkillable \/ Corrected(i)

\* A start of i is before the step that writes what became of it.
Beginning(i) ==
    \E w \in Workers : /\ thread[w].id = i /\ thread[w].op \in Starts
                       /\ thread[w].pc \in {"preflight", "spawn"} \/ Reports(thread[w])

Settled == {"stopped", "destroyed"}

\* A record, and a copy that will be written back, is right or will be corrected.
SettledInv == \A i \in Ids : Has(i) /\ disk[i].state \in Settled => Right(i)
CopyInv ==
    \A w \in Workers : At(w, "rmw_write") /\ thread[w].md.state \in Settled
                           => Right(thread[w].id)

\* "starting" is written before the start reports, and never written back.
StartInv == \A i \in Ids : Has(i) /\ disk[i].state = "starting" => Beginning(i)
CopyStartInv == \A w \in Workers : At(w, "rmw_write") => thread[w].md.state # "starting"

\* Corrected(i), Beginning(i) and Has(i) in the next state.
CorrectedNext(i) ==
    \E t \in Threads : thread'[t].id = i /\ (Kills(thread'[t]) \/ Reports(thread'[t]))
RightNext(i) == StillAlive(i) \subseteq Unkillable \/ CorrectedNext(i)
BeginningNext(i) ==
    \E w \in Workers : /\ thread'[w].id = i /\ thread'[w].op \in Starts
                       /\ thread'[w].pc \in {"preflight", "spawn"} \/ Reports(thread'[w])

\* The steps that write what became of a start.
Reporting(w) == SkipAdb(w) \/ WriteRunning(w) \/ RecordFailure(w)

\* The end of a start or of a wait_for_adb writes "running" or "failed".
LEMMA ReportingWrites ==
  ASSUME TypeOK, ControlInv, NEW w \in Workers, Reporting(w) \/ SpawnFails(w)
  PROVE  thread[w].id \in Ids /\ disk'[thread[w].id].state \in {"running", "failed"}
<1>1. thread[w].pc \in {"skip_adb", "running", "record", "spawn"} /\ w \in Threads
  BY KindFacts DEF Reporting, SkipAdb, WriteRunning, RecordFailure, SpawnFails, At
<1>2. thread[w].id \in Ids /\ thread[w].md \in Metadata
  BY <1>1 DEF ControlInv, Good, Fields
<1>3. \E s \in {"running", "failed"} : Write(w, s)
  BY DEF Reporting, SkipAdb, WriteRunning, RecordFailure, SpawnFails
<1>4. QED
  BY <1>1, <1>2, <1>3, WriteEffect DEF States

\* A thread that corrects goes on to do so, or does so.
LEMMA CorrectingStep ==
  ASSUME Inv, OwnInv, Next, ~Restart, NEW t \in Threads, NEW i \in Ids,
         thread[t].id = i, Kills(thread[t]) \/ Reports(thread[t])
  PROVE  RightNext(i) \/ \E w \in Workers : thread[w].id = i /\ Reporting(w)
<1> USE DEF Inv
<1>1. thread[t].pc \notin {"idle", "lock", "id_lock", "spawn", "watch", "destroy_spawn",
                           "destroy_wait", "done"}
  BY DEF Kills, Reports, Terminating
<1>2. CASE thread'[t] = thread[t]
  BY <1>2 DEF RightNext, CorrectedNext
<1>3. ASSUME NEW u \in Threads, Single(u) PROVE
          RightNext(i) \/ \E w \in Workers : thread[w].id = i /\ Reporting(w)
  <2>1. CASE u # t
    BY <1>2, <1>3, <2>1, SingleAdvances DEF Advances, Others
  <2>2. CASE u = t /\ thread[t].pc \in {"clean_kill", "prep_kill"}
    <3>1. Killed(Alive(i)) /\ home' = home
      BY <1>3, <2>2, StepTaken DEF At, CleanKill, PrepareKill
    <3>2. QED
      BY <3>1 DEF Killed, Alive, StillAlive, RightNext
  <2>3. CASE u = t /\ thread[t].pc \in {"skip_adb", "running", "record"}
    <3>1. Good(t, thread[t])
      BY DEF ControlInv
    <3>2. t \in Workers
      BY <2>3, <3>1, KindFacts DEF Good, JobFlow, WatcherFlow, Cleaning
    <3>3. QED
      BY <1>3, <2>3, <3>2, StepTaken DEF At, Reporting
  <2>4. CASE u = t /\ thread[t].pc \notin {"clean_kill", "prep_kill", "skip_adb", "running",
                                           "record"}
    <3>1. Steady(thread[t], thread'[t])
      BY <1>3, <2>4, SingleAdvances
    <3>2. thread'[t].id = i /\ (Kills(thread'[t]) \/ Reports(thread'[t]))
      BY <2>4, <3>1 DEF Steady
    <3>3. QED
      BY <3>2 DEF RightNext, CorrectedNext
  <2>5. QED
    BY <2>1, <2>2, <2>3, <2>4
<1>4. ASSUME NEW w \in Workers, Request(w) PROVE thread'[t] = thread[t]
  BY <1>1, <1>4, RequestAdvances DEF Advances, Others, At
<1>5. ASSUME NEW w \in Workers, LockInstance(w) PROVE thread'[t] = thread[t]
  BY <1>1, <1>5, LockInstanceAdvances DEF Advances, Others, At
<1>6. ASSUME NEW w \in Workers, LockId(w) PROVE thread'[t] = thread[t]
  BY <1>1, <1>6, LockIdAdvances DEF Advances, Others, At
<1>7. ASSUME NEW w \in Workers, Spawn(w) PROVE thread'[t] = thread[t]
  BY <1>1, <1>7, SpawnAdvances DEF Advances, Others, At
<1>8. ASSUME NEW w \in Workers, SpawnWatcher(w) PROVE thread'[t] = thread[t]
  BY <1>1, <1>8, SpawnWatcherAdvances DEF At, OwnInv
<1>9. ASSUME NEW w \in Workers, SpawnJob(w) PROVE thread'[t] = thread[t]
  BY <1>1, <1>9, SpawnJobAdvances DEF At
<1>10. ASSUME NEW w \in Workers, DestroyReply(w) PROVE thread'[t] = thread[t]
  BY <1>1, <1>10, DestroyReplyAdvances DEF At
<1>11. ASSUME NEW j \in Jobs, JobEnds(j) PROVE thread'[t] = thread[t]
  BY <1>1, <1>11, JobEndsAdvances DEF At, Others
<1>12. ASSUME NEW g \in Guests, GuestExits(g) PROVE thread'[t] = thread[t]
  BY <1>12 DEF GuestExits
<1>13. QED
  BY NextCases, <1>2, <1>3, <1>4, <1>5, <1>6, <1>7, <1>8, <1>9, <1>10, <1>11, <1>12

\* What is right of an instance stays right until a start of it reports.
LEMMA RightStep ==
  ASSUME Inv, OwnInv, Next, ~Restart, NEW i \in Ids, Right(i)
  PROVE  RightNext(i) \/ \E w \in Workers : thread[w].id = i /\ Reporting(w)
<1>1. CASE Corrected(i)
  BY <1>1, CorrectingStep DEF Corrected
<1>2. CASE Alive(i) \subseteq Unkillable
  <2>1. CASE StillAlive(i) \subseteq Alive(i)
    BY <1>2, <2>1 DEF RightNext
  <2>2. CASE \E w \in Workers : Spawn(w) /\ thread[w].id = i
    <3>1. PICK w \in Workers : Spawn(w) /\ thread[w].id = i
      BY <2>2
    <3>2. w \in Threads /\ thread'[w].id = i /\ thread'[w].pc = "insert"
      BY <3>1, KindFacts, SpawnAdvances DEF Inv
    <3>3. QED
      BY <3>2 DEF RightNext, CorrectedNext, Reports
  <2>3. QED
    BY <2>1, <2>2, AliveStep, SpawnAlive DEF Inv
<1>3. QED
  BY <1>1, <1>2 DEF Right

\* No start or wait_for_adb is past its lock while a record is copied and written back.
LEMMA UpdateExcludes ==
  ASSUME Inv, LockInv, UpdatesLocked, NEW w \in Workers, NEW u \in Workers,
         thread[w].pc \in {"rmw_read", "rmw_write"},
         thread[u].pc \notin {"idle", "lock", "rmw_read", "rmw_write"},
         thread[u].op \in Starts \cup {"WaitForAdb"}
  PROVE  thread[u].id # thread[w].id
<1>1. w \in Threads /\ u \in Threads
  BY KindFacts
<1>2. thread[w].op \in {"Hold", "Deploy"}
  BY <1>1 DEF Inv, ControlInv, Good, WorkerFlow
<1>3. thread[w].op \in Ops /\ thread[u].op \in Ops
  BY <1>1, <1>2, KindFacts, ManagerAssumption
     DEF Inv, TypeOK, ThreadType, Starts, Requests, Creating, Locked
<1>4. LockKept /\ thread[u].op \in {"Start", "WaitForAdb"}
  BY <1>2, <1>3 DEF UpdatesLocked, Starts
<1>5. lock[thread[w].id] = w
  BY <1>2, <1>4 DEF LockInv, Locked
<1>6. lock[thread[u].id] = u
  BY <1>4 DEF LockInv, Locked
<1>7. QED
  BY <1>5, <1>6

-----------------------------------------------------------------------------
(* Settled records are right. *)

\* Every step but a restart keeps SettledInv.
LEMMA SettledStep ==
  ASSUME Inv, OwnInv, SettledInv, CopyInv, Next, ~Restart
  PROVE  SettledInv'
<1> SUFFICES ASSUME NEW i \in Ids, disk'[i] \notin {None, EmptyDir}, disk'[i].state \in Settled
             PROVE  RightNext(i)
  BY DEF SettledInv, Right, RightNext, Corrected, CorrectedNext, Alive, StillAlive, Has
<1> USE DEF Inv
<1>1. \A w \in Workers : Reporting(w) => thread[w].id # i
  BY ReportingWrites DEF Settled
<1>2. CASE disk'[i] = disk[i]
  BY <1>1, <1>2, RightStep DEF SettledInv, Has
<1>3. ASSUME NEW w \in Workers, StopWrite(w), thread[w].id = i PROVE RightNext(i)
  <2>1. w \in Threads /\ "clean_kill" \in Steps /\ Forget(w, "clean_kill")
    BY <1>3, KindFacts DEF StopWrite, Steps
  <2>2. thread'[w].pc = "clean_kill" /\ thread'[w].id = i
    BY <1>3, <2>1, ForgetMoves DEF Moves
  <2>3. QED
    BY <2>1, <2>2 DEF RightNext, CorrectedNext, Kills
<1>4. ASSUME NEW w \in Workers, PrepareWrite(w), thread[w].id = i PROVE RightNext(i)
  <2>1. w \in Threads /\ CallTerminate(w, "prep_kill", thread[w].md)
        /\ thread[w].md \in Metadata \cup {None} /\ "prep_kill" \in Callers
    BY <1>4, KindFacts, FieldTypes DEF PrepareWrite, Callers
  <2>2. thread'[w].pc = "term_get" /\ thread'[w].id = i /\ thread'[w].ret = "prep_kill"
    BY <1>4, <2>1, CallTerminateMoves DEF Moves
  <2>3. QED
    BY <2>1, <2>2 DEF RightNext, CorrectedNext, Kills, Terminating
<1>5. ASSUME NEW g \in Guests, ExitWrite(g), thread[g].id = i PROVE RightNext(i)
  <2>1. g \in Threads /\ thread'[g].pc = "clean_kill" /\ thread'[g].id = i
    BY <1>5, KindFacts, ExitWriteMoves DEF Moves
  <2>2. QED
    BY <2>1 DEF RightNext, CorrectedNext, Kills
<1>6. ASSUME NEW w \in Workers, UpdateWrite(w), thread[w].id = i,
             disk'[i].state = thread[w].md.state
      PROVE  RightNext(i)
  <2>1. Right(i)
    BY <1>6 DEF UpdateWrite, CopyInv
  <2>2. QED
    BY <1>1, <2>1, RightStep
<1>7. DiskChange(i)
  BY DiskStep DEF DiskChanges
<1>8. QED
  BY <1>2, <1>3, <1>4, <1>5, <1>6, <1>7 DEF DiskChange, Settled

\* The way to rmw_write.
LEMMA CopyTaken ==
  ASSUME Inv, Next, NEW w \in Workers, thread'[w].pc = "rmw_write", thread'[w] # thread[w]
  PROVE  /\ thread[w].pc = "rmw_read"
         /\ thread'[w].id = thread[w].id /\ thread[w].id \in Ids
         /\ Has(thread[w].id) /\ thread'[w].md = disk[thread[w].id]
         /\ disk' = disk
<1> USE DEF Inv
<1>1. w \in Threads /\ Idle.pc = "idle"
  BY KindFacts, IdleGood
<1>2. Single(w)
  BY <1>1, ReachedAlone
<1>3. thread[w].pc = "rmw_read"
  BY <1>1, <1>2, SingleAdvances DEF Advances, Entered
<1>4. UpdateRead(w) /\ thread[w].id \in Ids
  BY <1>1, <1>2, <1>3, StepTaken DEF At, ControlInv, Good, Fields
<1>5. disk' = disk /\ ~Return(w)
  BY <1>1, <1>4, ReturnMoves DEF UpdateRead, Returns
<1>6. Has(thread[w].id) /\ Copy(w, "rmw_write", disk[thread[w].id])
  BY <1>4, <1>5 DEF UpdateRead
<1>7. thread'[w].id = thread[w].id /\ thread'[w].md = disk[thread[w].id]
  <2>1. disk[thread[w].id] \in Metadata /\ "rmw_write" \in Steps
    BY <1>4, <1>6, CopyFacts DEF Steps
  <2>2. QED
    BY <1>1, <1>6, <2>1, CopyMoves DEF Moves
<1>8. QED
  BY <1>3, <1>4, <1>5, <1>6, <1>7

\* Every step but a restart keeps CopyInv.
LEMMA CopyStep ==
  ASSUME UpdatesLocked, Inv, LockInv, OwnInv, SettledInv, CopyInv, Next, ~Restart
  PROVE  CopyInv'
<1> SUFFICES ASSUME NEW w \in Workers, thread'[w].pc = "rmw_write",
                    thread'[w].md.state \in Settled
             PROVE  RightNext(thread'[w].id)
  BY DEF CopyInv, Right, RightNext, Corrected, CorrectedNext, Alive, StillAlive, At
<1>1. w \in Threads
  BY KindFacts
<1>2. CASE thread'[w] = thread[w]
  <2>1. thread[w].id \in Ids /\ Right(thread[w].id)
    BY <1>1, <1>2 DEF Inv, ControlInv, Good, Fields, CopyInv, At
  <2>2. ASSUME NEW u \in Workers, Reporting(u) PROVE thread[u].id # thread[w].id
    <3>1. thread[u].pc \in {"skip_adb", "running", "record"} /\ u \in Threads
      BY <2>2, KindFacts DEF Reporting, SkipAdb, WriteRunning, RecordFailure, At
    <3>2. thread[u].op \in Starts \cup {"WaitForAdb"}
      BY <3>1 DEF Inv, ControlInv, Good, WorkerFlow
    <3>3. QED
      BY <1>2, <3>1, <3>2, UpdateExcludes
  <2>3. QED
    BY <1>2, <2>1, <2>2, RightStep
<1>3. CASE thread'[w] # thread[w]
  <2>1. /\ thread'[w].id = thread[w].id /\ thread[w].id \in Ids /\ Has(thread[w].id)
        /\ thread'[w].md = disk[thread[w].id] /\ disk' = disk
    BY <1>3, CopyTaken
  <2>2. Right(thread[w].id)
    BY <2>1 DEF SettledInv
  <2>3. \A u \in Workers : Reporting(u) => thread[u].id # thread[w].id
    BY <2>1, ReportingWrites DEF Inv, Settled
  <2>4. QED
    BY <2>1, <2>2, <2>3, RightStep
<1>4. QED
  BY <1>2, <1>3

\* No restart has happened yet.
LEMMA UncrashedStep ==
  ASSUME Inv, Next, crashes' = 0
  PROVE  crashes = 0 /\ ~Restart
<1>1. crashes \in Nat /\ crashes' >= crashes
  BY CountersStep, ManagerAssumption DEF Inv, TypeOK
<1>2. QED
  BY <1>1 DEF Restart

RecordInv ==
    Inv /\ LockInv /\ OwnInv /\ (crashes = 0 => SettledInv /\ CopyInv)

\* At first no thread works and no record exists.
LEMMA NobodyAtFirst ==
  ASSUME Init
  PROVE  /\ Inv /\ LockInv /\ OwnInv
         /\ \A t \in Threads : thread[t].pc = "idle"
         /\ \A i \in Ids : ~Has(i)
<1>1. \A t \in Threads : thread[t] = Idle
  BY DEF Init
<1>2. \A i \in Ids : ~Has(i)
  BY DEF Init, Has
<1>3. QED
  BY <1>1, <1>2, InitInv, IdleGood, KindFacts, NoneFacts DEF LockInv, OwnInv

\* Every step keeps RecordInv.
LEMMA RecordInvNext ==
  ASSUME UpdatesLocked, RecordInv, [Next]_vars
  PROVE  RecordInv'
<1>1. Inv' /\ LockInv' /\ OwnInv'
  BY NextInv, LockStep, OwnStep DEF RecordInv
<1>2. CASE Next
  BY <1>1, <1>2, UncrashedStep, SettledStep, CopyStep DEF RecordInv
<1>3. CASE UNCHANGED vars
  <2>1. (SettledInv /\ CopyInv) => (SettledInv /\ CopyInv)'
    BY <1>3 DEF SettledInv, CopyInv, Right, Corrected, Has, Alive, At, vars, guestVars
  <2>2. QED
    BY <1>1, <1>3, <2>1 DEF RecordInv, vars
<1>4. QED
  BY <1>2, <1>3

\* Unless a hold or deploy meets a create-start, which takes no instance lock, or a start
\* whose lock was reclaimed (cleanup_instance_lock in dispatch), a record that says
\* "stopped" or "destroyed" is true once nothing works on its instance, in the lifetime of
\* one daemon: whoever writes it kills afterwards, whoever starts a guest writes afterwards,
\* and no copy made before is written back (stop_instance, prepare_destroy,
\* handle_guest_exit, cleanup_host_state, start_instance).
THEOREM SettledIsTrue ==
  ASSUME UpdatesLocked
  PROVE  Spec => [](crashes = 0 => SettledStateTrue)
<1>1. Init => RecordInv
  BY NobodyAtFirst, KindFacts DEF RecordInv, SettledInv, CopyInv, At
<1>2. Spec => []RecordInv
  BY <1>1, RecordInvNext, PTL DEF Spec
<1>3. RecordInv => (crashes = 0 => SettledStateTrue)
  <2> SUFFICES ASSUME SettledInv, NEW i \in Ids, Busy(i) = {}, Has(i),
                      disk[i].state \in {"stopped", "destroyed"}
               PROVE  Alive(i) \subseteq Unkillable
    BY DEF RecordInv, SettledStateTrue
  <2>1. Right(i)
    BY DEF SettledInv, Settled
  <2>2. ASSUME NEW t \in Threads, thread[t].id = i, Kills(thread[t]) \/ Reports(thread[t])
        PROVE  t \in Busy(i)
    BY <2>2 DEF Busy, Kills, Reports, Terminating
  <2>3. QED
    BY <2>1, <2>2 DEF Right, Corrected
<1>4. QED
  BY <1>2, <1>3, PTL

-----------------------------------------------------------------------------
(* An instance is "starting" only while a start of it goes on. *)

\* A start that is under way goes on, or writes what became of it.
LEMMA BeginningStep ==
  ASSUME Inv, OwnInv, Next, ~Restart, "prepare_fails" \notin Options,
         NEW i \in Ids, Beginning(i)
  PROVE  BeginningNext(i) \/ \E w \in Workers : /\ thread[w].id = i
                                                /\ Reporting(w) \/ SpawnFails(w)
<1> USE DEF Inv
<1>1. PICK w \in Workers : /\ thread[w].id = i /\ thread[w].op \in Starts
                           /\ thread[w].pc \in {"preflight", "spawn"} \/ Reports(thread[w])
  BY DEF Beginning
<1>2. /\ w \in Threads
      /\ thread[w].pc \notin {"idle", "lock", "id_lock", "watch", "destroy_spawn",
                              "destroy_wait", "done"}
  BY <1>1, KindFacts DEF Reports, Terminating
<1>3. CASE thread'[w] = thread[w]
  BY <1>1, <1>3 DEF BeginningNext
<1>4. ASSUME NEW t \in Threads, Single(t)
      PROVE  BeginningNext(i) \/ \E u \in Workers : /\ thread[u].id = i
                                                    /\ Reporting(u) \/ SpawnFails(u)
  <2>1. CASE t # w
    BY <1>2, <1>3, <1>4, <2>1, SingleAdvances DEF Advances, Others
  <2>2. CASE t = w /\ thread[w].pc \in {"skip_adb", "running", "record"}
    BY <1>1, <1>4, <2>2, StepTaken DEF At, Reporting
  <2>3. CASE t = w /\ thread[w].pc = "spawn"
    BY <1>1, <1>4, <2>3, StepTaken DEF At, PrepareFails
  <2>4. CASE t = w /\ thread[w].pc \notin {"skip_adb", "running", "record", "spawn"}
    <3>1. Steady(thread[w], thread'[w])
      BY <1>4, <2>4, SingleAdvances
    <3>2. thread'[w].id = i /\ thread'[w].op \in Starts
          /\ (thread'[w].pc = "spawn" \/ Reports(thread'[w]))
      BY <1>1, <2>4, <3>1 DEF Steady
    <3>3. QED
      BY <3>2 DEF BeginningNext
  <2>5. QED
    BY <2>1, <2>2, <2>3, <2>4
<1>5. ASSUME NEW v \in Workers, Request(v) PROVE thread'[w] = thread[w]
  BY <1>2, <1>5, RequestAdvances DEF Advances, Others, At
<1>6. ASSUME NEW v \in Workers, LockInstance(v) PROVE thread'[w] = thread[w]
  BY <1>2, <1>6, LockInstanceAdvances DEF Advances, Others, At
<1>7. ASSUME NEW v \in Workers, LockId(v) PROVE thread'[w] = thread[w]
  BY <1>2, <1>7, LockIdAdvances DEF Advances, Others, At
<1>8. ASSUME NEW v \in Workers, Spawn(v) PROVE BeginningNext(i)
  <2>1. CASE v = w
    <3>1. thread'[w].id = i /\ thread'[w].op \in Starts /\ thread'[w].pc = "insert"
      BY <1>1, <1>8, <2>1, SpawnAdvances
    <3>2. QED
      BY <3>1 DEF BeginningNext, Reports
  <2>2. CASE v # w
    BY <1>1, <1>2, <1>8, <2>2, SpawnAdvances DEF Advances, Others, BeginningNext
  <2>3. QED
    BY <2>1, <2>2
<1>9. ASSUME NEW v \in Workers, SpawnWatcher(v) PROVE thread'[w] = thread[w]
  BY <1>2, <1>9, KindFacts, SpawnWatcherAdvances DEF At
<1>10. ASSUME NEW v \in Workers, SpawnJob(v) PROVE thread'[w] = thread[w]
  BY <1>2, <1>10, KindFacts, SpawnJobAdvances DEF At
<1>11. ASSUME NEW v \in Workers, DestroyReply(v) PROVE thread'[w] = thread[w]
  BY <1>2, <1>11, DestroyReplyAdvances DEF At
<1>12. ASSUME NEW j \in Jobs, JobEnds(j) PROVE thread'[w] = thread[w]
  BY <1>2, <1>12, KindFacts, JobEndsAdvances DEF Others
<1>13. ASSUME NEW g \in Guests, GuestExits(g) PROVE thread'[w] = thread[w]
  BY <1>13 DEF GuestExits
<1>14. QED
  BY NextCases, <1>3, <1>4, <1>5, <1>6, <1>7, <1>8, <1>9, <1>10, <1>11, <1>12, <1>13

\* Every step but a restart keeps StartInv.
LEMMA StartStep ==
  ASSUME Inv, OwnInv, StartInv, CopyStartInv, Next, ~Restart, "prepare_fails" \notin Options
  PROVE  StartInv'
<1> SUFFICES ASSUME NEW i \in Ids, disk'[i] \notin {None, EmptyDir}, disk'[i].state = "starting"
             PROVE  BeginningNext(i)
  BY DEF StartInv, Beginning, BeginningNext, Has
<1> USE DEF Inv
<1>1. \A w \in Workers : Reporting(w) \/ SpawnFails(w) => thread[w].id # i
  BY ReportingWrites
<1>2. CASE disk'[i] = disk[i]
  BY <1>1, <1>2, BeginningStep DEF StartInv, Has
<1>3. ASSUME NEW w \in Workers, StartWrite(w), thread[w].id = i PROVE BeginningNext(i)
  <2>1. w \in Threads /\ "preflight" \in Steps /\ Goto(w, "preflight") /\ thread[w].op \in Starts
    BY <1>3, KindFacts DEF StartWrite, At, Steps, ControlInv, Good, WorkerFlow
  <2>2. thread'[w].pc = "preflight" /\ thread'[w].id = i /\ thread'[w].op \in Starts
    BY <1>3, <2>1, GotoMoves DEF Moves
  <2>3. QED
    BY <2>2 DEF BeginningNext
<1>4. ASSUME NEW w \in Workers, UpdateWrite(w) PROVE thread[w].md.state # "starting"
  BY <1>4 DEF UpdateWrite, CopyStartInv
<1>5. DiskChange(i)
  BY DiskStep DEF DiskChanges
<1>6. QED
  BY <1>2, <1>3, <1>4, <1>5 DEF DiskChange

\* A hold or deploy never copies a record that says "starting".
LEMMA CopyStartStep ==
  ASSUME UpdatesLocked, Inv, LockInv, StartInv, CopyStartInv, Next
  PROVE  CopyStartInv'
<1> SUFFICES ASSUME NEW w \in Workers, thread'[w].pc = "rmw_write"
             PROVE  thread'[w].md.state # "starting"
  BY DEF CopyStartInv, At
<1>1. CASE thread'[w] = thread[w]
  BY <1>1 DEF CopyStartInv, At
<1>2. CASE thread'[w] # thread[w]
  <2>1. /\ thread[w].pc = "rmw_read" /\ thread[w].id \in Ids /\ Has(thread[w].id)
        /\ thread'[w].md = disk[thread[w].id]
    BY <1>2, CopyTaken
  <2>2. ASSUME NEW u \in Workers, thread[u].op \in Starts,
               thread[u].pc \in {"preflight", "spawn"} \/ Reports(thread[u])
        PROVE  thread[u].id # thread[w].id
    BY <2>1, <2>2, UpdateExcludes DEF Reports, Terminating
  <2>3. ~Beginning(thread[w].id)
    BY <2>2 DEF Beginning
  <2>4. QED
    BY <2>1, <2>3 DEF StartInv
<1>3. QED
  BY <1>1, <1>2

StartingInv ==
    Inv /\ LockInv /\ OwnInv /\ (crashes = 0 => StartInv /\ CopyStartInv)

\* Every step keeps StartingInv.
LEMMA StartingInvNext ==
  ASSUME UpdatesLocked, "prepare_fails" \notin Options, StartingInv, [Next]_vars
  PROVE  StartingInv'
<1>1. Inv' /\ LockInv' /\ OwnInv'
  BY NextInv, LockStep, OwnStep DEF StartingInv
<1>2. CASE Next
  BY <1>1, <1>2, UncrashedStep, StartStep, CopyStartStep DEF StartingInv
<1>3. CASE UNCHANGED vars
  <2>1. (StartInv /\ CopyStartInv) => (StartInv /\ CopyStartInv)'
    BY <1>3 DEF StartInv, CopyStartInv, Beginning, Has, At, vars
  <2>2. QED
    BY <1>1, <1>3, <2>1 DEF StartingInv, vars
<1>4. QED
  BY <1>2, <1>3

\* Unless a hold or deploy meets a create-start, or a start whose lock was reclaimed, and
\* provided that the host can be prepared, an instance is "starting" only while a start of
\* it goes on, in the lifetime of one daemon (start_instance, record_launch_failure).
THEOREM StartingGoesOn ==
  ASSUME UpdatesLocked, "prepare_fails" \notin Options
  PROVE  Spec => [](crashes = 0 => StartingInProgress)
<1>1. Init => StartingInv
  BY NobodyAtFirst, KindFacts DEF StartingInv, StartInv, CopyStartInv, At
<1>2. Spec => []StartingInv
  BY <1>1, StartingInvNext, PTL DEF Spec
<1>3. StartingInv => (crashes = 0 => StartingInProgress)
  <2> SUFFICES ASSUME StartInv, NEW i \in Ids, Has(i), disk[i].state = "starting"
               PROVE  \E w \in Workers : thread[w].op \in {"Start", "CreateStart"} /\ w \in Busy(i)
    BY DEF StartingInv, StartingInProgress
  <2>1. Beginning(i)
    BY DEF StartInv
  <2>2. QED
    BY <2>1, KindFacts DEF Beginning, Busy, Reports, Terminating, Starts
<1>4. QED
  BY <1>2, <1>3, PTL

-----------------------------------------------------------------------------
(* No guest runs for an instance whose directory is gone. *)

\* Every start and every removal comes under the lock of its instance, which is kept.
RemovalLocked ==
    Ops \subseteq Locked \cup {"Create"} /\ "destroy_timeout" \notin Options /\ LockKept

\* The request that started a job waits for it, with its lock.
WaiterInv ==
    \A j \in Jobs : thread[j].pc \in Cleaning =>
        \E w \in Workers : /\ thread[w].pc = "destroy_wait"
                           /\ thread[w].job = j /\ thread[w].id = thread[j].id
EmptyInv == \A j \in Jobs : At(j, "artifacts") => Alive(thread[j].id) = {}
PresentInv ==
    \A w \in Workers : thread[w].pc \in {"preflight", "spawn"} => disk[thread[w].id] # None

OrphanInv == Inv /\ LockInv /\ WaiterInv /\ EmptyInv /\ PresentInv /\ NoOrphanedGuest

\* While a job cleans up for an instance, no start of it is about to spawn.
LEMMA RemovalExcludes ==
  ASSUME RemovalLocked, Inv, LockInv, WaiterInv, NEW j \in Jobs, thread[j].pc \in Cleaning,
         NEW u \in Workers, thread[u].pc \in {"start_write", "preflight", "spawn"}
  PROVE  thread[u].id # thread[j].id
<1>1. PICK w \in Workers : /\ thread[w].pc = "destroy_wait"
                           /\ thread[w].job = j /\ thread[w].id = thread[j].id
  BY DEF WaiterInv
<1>2. u \in Threads /\ w \in Threads
  BY KindFacts
<1>3. thread[w].op = "Destroy" /\ thread[u].op \in Starts
  BY <1>1, <1>2 DEF Inv, ControlInv, Good, WorkerFlow
<1>4. thread[u].op \in Ops
  BY <1>2, <1>3, OpFacts DEF Inv, Starts, Requests, Locked, Creating
<1>5. LockKept /\ thread[u].op = "Start"
  BY <1>3, <1>4 DEF RemovalLocked, Starts, Locked
<1>6. QED
  BY <1>1, <1>3, <1>5 DEF LockInv, Locked

\* Only a job removes a directory when nothing prunes.
LEMMA RemovedBy ==
  ASSUME RemovalLocked, Inv, NEW t \in Threads, At(t, "artifacts")
  PROVE  t \in Jobs
<1>1. t \in Workers => thread[t].op \in Pruning
  BY DEF Inv, ControlInv, Good, WorkerFlow, At
<1>2. t \in Workers => thread[t].op \in Ops
  BY <1>1, OpFacts DEF Inv, Requests
<1>3. QED
  BY <1>1, <1>2, KindFacts
     DEF Inv, ControlInv, Good, WatcherFlow, At, RemovalLocked, Locked, Pruning

\* Every step keeps WaiterInv.
LEMMA WaiterStep ==
  ASSUME RemovalLocked, Inv, WaiterInv, Next
  PROVE  WaiterInv'
<1> SUFFICES ASSUME NEW j \in Jobs, thread'[j].pc \in Cleaning
             PROVE  \E w \in Workers : /\ thread'[w].pc = "destroy_wait"
                                       /\ thread'[w].job = j /\ thread'[w].id = thread'[j].id
  BY DEF WaiterInv
<1> DEFINE Goal == \E w \in Workers : /\ thread'[w].pc = "destroy_wait"
                                      /\ thread'[w].job = j /\ thread'[w].id = thread'[j].id
<1> USE DEF Inv
<1>1. /\ j \in Threads /\ j \notin Workers /\ j \notin Guests
      /\ \A w \in Workers : w \in Threads
      /\ Idle.pc = "idle"
      /\ "idle" \notin Cleaning /\ "done" \notin Cleaning
  BY KindFacts, IdleGood DEF Cleaning
<1>2. ASSUME thread[j].pc \in Cleaning, thread'[j].id = thread[j].id,
             \A w \in Workers : thread[w].pc = "destroy_wait" /\ thread[w].job = j
                                    => thread'[w] = thread[w]
      PROVE  Goal
  BY <1>2 DEF WaiterInv
<1>3. ASSUME NEW t \in Threads, Single(t) PROVE Goal
  <2>1. Advances(t) /\ Keeps(t)
    BY <1>3, SingleAdvances
  <2>2. \A w \in Workers : thread[w].pc = "destroy_wait" => w # t
    BY <1>3, StepTaken DEF At, DestroyTimeout, RemovalLocked
  <2>3. thread[j].pc \in Cleaning /\ thread'[j].id = thread[j].id
    <3>1. CASE t = j
      BY <1>1, <2>1, <3>1 DEF Keeps, ControlInv, Good, JobFlow
    <3>2. CASE t # j
      BY <1>1, <2>1, <3>2 DEF Advances, Others
    <3>3. QED
      BY <3>1, <3>2
  <2>4. QED
    BY <1>1, <1>2, <2>1, <2>2, <2>3 DEF Advances, Others
<1>4. ASSUME NEW v \in Workers, Request(v) PROVE Goal
  BY <1>1, <1>2, <1>4, RequestAdvances DEF Advances, Others, At
<1>5. ASSUME NEW v \in Workers, LockInstance(v) PROVE Goal
  BY <1>1, <1>2, <1>5, LockInstanceAdvances DEF Advances, Others, At
<1>6. ASSUME NEW v \in Workers, LockId(v) PROVE Goal
  BY <1>1, <1>2, <1>6, LockIdAdvances DEF Advances, Others, At
<1>7. ASSUME NEW v \in Workers, Spawn(v) PROVE Goal
  BY <1>1, <1>2, <1>7, SpawnAdvances DEF Advances, Others, At
<1>8. ASSUME NEW v \in Workers, SpawnWatcher(v) PROVE Goal
  BY <1>1, <1>2, <1>8, KindFacts, SpawnWatcherAdvances DEF At
<1>9. ASSUME NEW v \in Workers, SpawnJob(v) PROVE Goal
  <2>1. PICK k \in Jobs :
          /\ At(k, "idle") /\ thread'[k].id = thread[v].id
          /\ thread'[v].pc = "destroy_wait" /\ thread'[v].job = k /\ thread'[v].id = thread[v].id
          /\ \A u \in Threads \ {v, k} : thread'[u] = thread[u]
    BY <1>9, SpawnJobAdvances
  <2>2. thread[v].pc = "destroy_spawn"
    BY <1>9, SpawnJobAdvances DEF At
  <2>3. CASE k = j
    BY <2>1, <2>3
  <2>4. CASE k # j
    BY <1>1, <1>2, <2>1, <2>2, <2>4, KindFacts
  <2>5. QED
    BY <2>3, <2>4
<1>10. ASSUME NEW v \in Workers, DestroyReply(v) PROVE Goal
  <2>1. /\ thread[v].pc = "destroy_wait" /\ thread[thread[v].job].pc = "done"
        /\ thread'[v] = Idle
        /\ \A u \in Threads \ {v} :
              thread'[u] = thread[u] \/ (u = thread[v].job /\ thread'[u] = Idle)
    BY <1>10, DestroyReplyAdvances DEF At
  <2>2. thread'[j] = thread[j] /\ thread[v].job # j
    BY <1>1, <2>1
  <2>3. \A w \in Workers : thread[w].pc = "destroy_wait" /\ thread[w].job = j
                               => thread'[w] = thread[w]
    BY <1>1, <2>1, <2>2
  <2>4. QED
    BY <1>2, <2>2, <2>3
<1>11. ASSUME NEW k \in Jobs, JobEnds(k) PROVE Goal
  BY <1>1, <1>2, <1>11, KindFacts, JobEndsAdvances DEF Others, At
<1>12. CASE Restart
  BY <1>1, <1>12 DEF Restart
<1>13. CASE \E g \in Guests : GuestExits(g)
  BY <1>2, <1>13 DEF GuestExits
<1>14. QED
  BY NextCases, <1>3, <1>4, <1>5, <1>6, <1>7, <1>8, <1>9, <1>10, <1>11, <1>12, <1>13

\* Every step keeps EmptyInv: a job removes a directory only after it has looked for
\* guests and found none, and none can be spawned before the removal.
LEMMA EmptyStep ==
  ASSUME RemovalLocked, Inv, LockInv, WaiterInv, EmptyInv, Next
  PROVE  EmptyInv'
<1> SUFFICES ASSUME NEW j \in Jobs, thread'[j].pc = "artifacts"
             PROVE  StillAlive(thread'[j].id) = {}
  BY DEF EmptyInv, At, Alive, StillAlive
<1> USE DEF Inv
<1>1. j \in Threads /\ j \notin Workers /\ j \notin Guests
  BY KindFacts
<1>2. CASE thread'[j] = thread[j]
  <2>1. thread[j].pc \in Cleaning /\ thread[j].id \in Ids /\ Alive(thread[j].id) = {}
    BY <1>1, <1>2 DEF Cleaning, ControlInv, Good, Fields, EmptyInv, At
  <2>2. \A w \in Workers : Spawn(w) => thread[w].id # thread[j].id
    BY <2>1, RemovalExcludes, SpawnAdvances DEF At
  <2>3. QED
    BY <1>2, <2>1, <2>2, AliveStep, SpawnAlive
<1>3. CASE thread'[j] # thread[j]
  <2>1. Single(j)
    BY <1>1, <1>3, ReachedAlone
  <2>2. thread[j].pc = "clean_collect" /\ thread'[j].id = thread[j].id
    BY <1>1, <2>1, SingleAdvances DEF Advances, Entered, Keeps, Cleaning
  <2>3. CleanCollect(j) /\ thread[j].op = "finish"
    BY <1>1, <2>1, <2>2, StepTaken DEF At, ControlInv, Good, JobFlow, Cleaning
  <2>4. Goto(j, IF Alive(thread[j].id) = {} THEN "artifacts" ELSE "mark_read")
        /\ home' = home /\ proc' = proc
    BY <1>1, <2>3 DEF CleanCollect, guestVars
  <2>5. Alive(thread[j].id) = {}
    <3>1. CASE Alive(thread[j].id) # {}
      <4>1. Goto(j, "mark_read") /\ "mark_read" \in Steps
        BY <2>4, <3>1 DEF Steps
      <4>2. QED
        BY <1>1, <4>1, GotoMoves DEF Moves
    <3>2. QED
      BY <3>1
  <2>6. QED
    BY <2>2, <2>4, <2>5 DEF Alive, StillAlive
<1>4. QED
  BY <1>2, <1>3

\* A directory goes only where no start is about to spawn, and no guest runs.
LEMMA RemovedWhere ==
  ASSUME RemovalLocked, Inv, LockInv, WaiterInv, EmptyInv, NEW t \in Threads, RemoveArtifacts(t)
  PROVE  /\ Alive(thread[t].id) = {} /\ home' = home /\ proc' = proc
         /\ \A u \in Workers : thread[u].pc \in {"start_write", "preflight", "spawn"}
                                   => thread[u].id # thread[t].id
<1>1. thread[t].pc = "artifacts" /\ t \in Jobs /\ home' = home /\ proc' = proc
  BY RemovedBy DEF RemoveArtifacts, At, guestVars
<1>2. QED
  BY <1>1, RemovalExcludes DEF EmptyInv, At, Cleaning

\* Every step keeps PresentInv: no directory goes between the write of "starting" and
\* the spawn.
LEMMA PresentStep ==
  ASSUME RemovalLocked, Inv, LockInv, WaiterInv, EmptyInv, PresentInv, Next
  PROVE  PresentInv'
<1> SUFFICES ASSUME NEW w \in Workers, thread'[w].pc \in {"preflight", "spawn"}
             PROVE  disk'[thread'[w].id] # None
  BY DEF PresentInv
<1> USE DEF Inv
<1>1. w \in Threads
  BY KindFacts
<1>2. CASE thread[w].pc \in {"preflight", "spawn"} /\ thread'[w].id = thread[w].id
  <2>1. thread[w].id \in Ids /\ disk[thread[w].id] # None
    BY <1>1, <1>2 DEF ControlInv, Good, Fields, PresentInv
  <2>2. ~ \E t \in Threads : RemoveArtifacts(t) /\ thread[t].id = thread[w].id
    BY <1>2, RemovedWhere
  <2>3. QED
    BY <1>2, <2>1, <2>2, DiskStep, NoneFacts
       DEF DiskChanges, DiskChange
<1>3. CASE thread'[w] # thread[w] /\ thread'[w].pc = "preflight"
  <2>1. Single(w) /\ thread[w].pc = "start_write"
    BY <1>1, <1>3, ReachedAlone, SingleAdvances DEF Advances, Entered
  <2>2. StartWrite(w) /\ thread[w].id \in Ids /\ thread[w].md \in Metadata
    BY <1>1, <2>1, StepTaken DEF At, ControlInv, Good, Fields
  <2>3. thread'[w].id = thread[w].id
    <3>1. Goto(w, "preflight") /\ "preflight" \in Steps
      BY <2>2 DEF StartWrite, Steps
    <3>2. QED
      BY <1>1, <3>1, GotoMoves DEF Moves
  <2>4. disk'[thread[w].id] \in Metadata
    BY <1>1, <2>2, WriteEffect DEF StartWrite, States
  <2>5. QED
    BY <2>3, <2>4, NoneFacts
<1>4. CASE thread'[w] # thread[w] /\ thread'[w].pc = "spawn"
  <2>1. Single(w) /\ thread[w].pc = "preflight"
    BY <1>1, <1>4, ReachedAlone, SingleAdvances DEF Advances, Entered
  <2>2. thread'[w].id = thread[w].id
    BY <1>1, <2>1, SingleAdvances DEF Steady
  <2>3. QED
    BY <1>2, <2>1, <2>2
<1>5. QED
  BY <1>2, <1>3, <1>4

\* Every step keeps NoOrphanedGuest.
LEMMA OrphanStep ==
  ASSUME RemovalLocked, OrphanInv, Next
  PROVE  NoOrphanedGuest'
<1> SUFFICES ASSUME NEW i \in Ids, disk'[i] = None
             PROVE  StillAlive(i) = {}
  BY DEF NoOrphanedGuest, Alive, StillAlive
<1> USE DEF Inv, OrphanInv
<1>1. CASE disk[i] = None
  <2>1. Alive(i) = {}
    BY <1>1 DEF NoOrphanedGuest
  <2>2. \A w \in Workers : Spawn(w) => thread[w].id # i
    BY <1>1, SpawnAdvances DEF PresentInv, At
  <2>3. QED
    BY <2>1, <2>2, AliveStep, SpawnAlive
<1>2. CASE \E t \in Threads : RemoveArtifacts(t) /\ thread[t].id = i
  BY <1>2, RemovedWhere DEF Alive, StillAlive
<1>3. QED
  BY <1>1, <1>2, DiskStep, NoneFacts DEF DiskChanges, DiskChange

\* Every step keeps OrphanInv.
LEMMA OrphanInvNext ==
  ASSUME RemovalLocked, OrphanInv, [Next]_vars
  PROVE  OrphanInv'
<1>1. Inv' /\ LockInv'
  BY NextInv, LockStep DEF OrphanInv
<1>2. CASE Next
  BY <1>1, <1>2, WaiterStep, EmptyStep, PresentStep, OrphanStep DEF OrphanInv
<1>3. CASE UNCHANGED vars
  BY <1>1, <1>3 DEF OrphanInv, WaiterInv, EmptyInv, PresentInv, NoOrphanedGuest, Alive, At,
                    vars, guestVars
<1>4. QED
  BY <1>2, <1>3

\* Provided that nothing prunes, that every start comes under the lock of its instance, that
\* this lock is not reclaimed while in use and that destroys are waited for, no guest runs
\* for an instance whose directory is gone, restarts of the daemon included
\* (finish_destroy, cleanup_host_state, dispatch).
THEOREM NoGuestOrphaned ==
  ASSUME RemovalLocked
  PROVE  Spec => []NoOrphanedGuest
<1>1. Init => OrphanInv
  <2> SUFFICES ASSUME Init PROVE OrphanInv
    OBVIOUS
  <2>1. \A i \in Ids : Alive(i) = {}
    BY DEF Init, Alive
  <2>2. QED
    BY <2>1, NobodyAtFirst, KindFacts
       DEF OrphanInv, WaiterInv, EmptyInv, PresentInv, NoOrphanedGuest, At, Cleaning
<1>2. Spec => []OrphanInv
  BY <1>1, OrphanInvNext, PTL DEF Spec
<1>3. OrphanInv => NoOrphanedGuest
  BY DEF OrphanInv
<1>4. QED
  BY <1>2, <1>3, PTL

=============================================================================
