------------------------- MODULE InstanceManagerSteps -------------------------
(***************************************************************************)
(* What one step of a thread of InstanceManager does to that thread.        *)
(*                                                                         *)
(* ControlInv says at which steps each kind of thread may be for each      *)
(* request, and what its record holds there.  The lemmas Moves and Returns *)
(* turn the operators by which an action changes a thread's record into    *)
(* facts about its fields; WorkerAdvances, SharedAdvances and              *)
(* WatcherAdvances use them, an action each, to show that a step keeps     *)
(* ControlInv for its thread and enters, leaves and names only what it     *)
(* may.  The proofs of the invariants then need no action's record update. *)
(***************************************************************************)
EXTENDS InstanceManager, FiniteSetTheorems, TLAPS

-----------------------------------------------------------------------------
(* Where a thread may be, and what its record then holds.                  *)

Starts == {"Start", "CreateStart"}
Destroying == {"Destroy"} \cup Pruning
Terminating == {"term_get", "term_wait", "kill_wait", "remove", "remove_entry"}

\* The steps of each request.
WorkerFlow(r) ==
    /\ r.pc \notin {"done", "wait_lock", "wait", "exit_read", "exit_write"}
    /\ r.pc = "lock" => r.op \in Locked
    /\ r.pc \in {"id_lock", "allocate", "mkdir", "create_write"} => r.op \in Creating
    /\ r.pc \in {"contains", "start_read", "start_write", "preflight", "spawn", "insert",
                 "skip_adb", "verify", "watch", "start_failed"} => r.op \in Starts
    /\ r.pc = "adb_read" => r.op = "WaitForAdb"
    /\ r.pc \in {"adb_get", "adb_try", "running", "record"} => r.op \in Starts \cup {"WaitForAdb"}
    /\ r.pc \in {"stop_read", "stop_write", "stop_incomplete"} => r.op = "Stop"
    /\ r.pc \in {"rmw_read", "rmw_write"} => r.op \in {"Hold", "Deploy"}
    /\ r.pc \in {"prep_read", "prep_exists", "prep_write", "prep_kill"} => r.op \in Destroying
    /\ r.pc \in {"destroy_spawn", "destroy_wait"} => r.op = "Destroy"
    /\ r.pc \in {"scan", "prune_next", "artifacts", "mark_read", "mark_write"} => r.op \in Pruning
    /\ r.pc \in {"clean_kill", "clean_collect"} => r.op \in {"Stop"} \cup Pruning
    /\ r.pc \in Terminating =>
          \/ r.ret = "record" /\ r.op \in Starts \cup {"WaitForAdb"}
          \/ r.ret = "start_failed" /\ r.op \in Starts
          \/ r.ret = "stop_write" /\ r.op = "Stop"
          \/ r.ret = "prep_kill" /\ r.op \in Destroying
    /\ r.pc \in {"clean_kill", "clean_collect"} /\ r.op = "Stop" => r.md \in Metadata

\* The background half of a destroy.
Cleaning == {"clean_kill", "clean_collect", "artifacts", "mark_read", "mark_write"}
JobFlow(r) == r.pc \in {"idle", "done"} \cup Cleaning /\ (r.pc \in Cleaning => r.op = "finish")

WatcherFlow(r) ==
    /\ r.pc \in {"idle", "wait_lock", "wait", "remove", "remove_entry", "exit_read",
                 "exit_write", "clean_kill", "clean_collect"}
    /\ r.pc \in {"remove", "remove_entry"} => r.ret = "exit_read"

\* What the record holds by then: the id, the copy of the metadata, the guest, the handle.
Fields(r) ==
    /\ r.pc \notin {"idle", "id_lock", "allocate", "scan", "prune_next", "done"} => r.id \in Ids
    /\ r.pc \in {"id_lock", "allocate", "mkdir", "create_write", "start_write", "preflight",
                 "spawn", "insert", "skip_adb", "adb_get", "adb_try", "running", "record",
                 "stop_write", "stop_incomplete", "rmw_write", "prep_exists", "prep_write",
                 "prep_kill", "destroy_spawn", "destroy_wait", "mark_write", "exit_write"} => r.md \in Metadata
    /\ r.pc \in Terminating /\ r.ret \in {"record", "stop_write", "prep_kill"} => r.md \in Metadata
    /\ r.pc \in {"insert", "skip_adb", "verify", "watch"} => r.guest \in Guests
    /\ r.pc \in {"adb_get", "adb_try", "running"} /\ r.op \in Starts => r.guest \in Guests
    /\ r.pc \in {"adb_try", "term_wait", "kill_wait"} => r.handle \in Guests

Good(t, r) ==
    /\ t \in Workers => WorkerFlow(r)
    /\ t \in Jobs => JobFlow(r)
    /\ t \in Guests => WatcherFlow(r)
    /\ Fields(r)

ControlInv == \A t \in Threads : Good(t, thread[t])

-----------------------------------------------------------------------------
(* How one thread moves. *)

Others(t) == \A u \in Threads \ {t} : thread'[u] = thread[u]

\* Thread t goes to a step; of its record, the fields F may change.
Moves(t, label, F) ==
    /\ thread' \in [Threads -> ThreadType]
    /\ Others(t) /\ lock' = lock /\ idLock' = idLock
    /\ thread'[t].pc = label
    /\ "id" \in F \/ thread'[t].id = thread[t].id
    /\ "op" \in F \/ thread'[t].op = thread[t].op
    /\ "md" \in F \/ thread'[t].md = thread[t].md
    /\ "guest" \in F \/ thread'[t].guest = thread[t].guest
    /\ "handle" \in F \/ thread'[t].handle = thread[t].handle
    /\ "ret" \in F \/ thread'[t].ret = thread[t].ret
    /\ "exit" \in F \/ thread'[t].exit = thread[t].exit
    /\ "job" \in F \/ thread'[t].job = thread[t].job

Returns(t) ==
    /\ thread' \in [Threads -> ThreadType]
    /\ Others(t) /\ thread'[t] = Idle
    /\ lock' = [i \in Ids |-> IF lock[i] = t THEN None ELSE lock[i]]
    /\ idLock' = IF idLock = t THEN None ELSE idLock

Exits == {"ok", "failed", "incomplete", None}
Callers == {"record", "start_failed", "stop_write", "prep_kill", "exit_read"}

\* The record of a thread that does nothing is a thread record.
LEMMA IdleType == Idle \in ThreadType
  BY DEF Idle, ThreadType, Steps

\* Become gives one thread a new record, and leaves the others and the locks alone.
LEMMA BecomeChanges ==
  ASSUME TypeOK, NEW t \in Threads, NEW r \in ThreadType, Become(t, r)
  PROVE  /\ thread' \in [Threads -> ThreadType] /\ Others(t) /\ thread'[t] = r
         /\ lock' = lock /\ idLock' = idLock
  BY DEF TypeOK, Become, Others

\* Goto changes a thread's step and nothing else.
LEMMA GotoMoves ==
  ASSUME TypeOK, NEW t \in Threads, NEW label \in Steps, Goto(t, label)
  PROVE  Moves(t, label, {})
  BY DEF TypeOK, ThreadType, Goto, Become, Others, Moves

\* Return makes the thread idle and gives its guards back.
LEMMA ReturnMoves ==
  ASSUME TypeOK, NEW t \in Threads, Return(t)
  PROVE  Returns(t)
  BY IdleType DEF TypeOK, Return, Others, Returns

\* Copy (a read of a metadata file) changes the step and the copy.
LEMMA CopyMoves ==
  ASSUME TypeOK, NEW t \in Threads, NEW label \in Steps, NEW m \in Metadata, Copy(t, label, m)
  PROVE  Moves(t, label, {"md"}) /\ thread'[t].md = m
<1> DEFINE r == [thread[t] EXCEPT !.pc = label, !.md = m]
<1>1. thread[t] \in ThreadType
  BY DEF TypeOK
<1>2. r \in ThreadType
  BY <1>1 DEF ThreadType
<1>3. Become(t, r)
  BY DEF Copy
<1>4. /\ thread' \in [Threads -> ThreadType] /\ Others(t) /\ thread'[t] = r
      /\ lock' = lock /\ idLock' = idLock
  BY <1>2, <1>3, BecomeChanges
<1>5. QED
  BY <1>1, <1>4 DEF ThreadType, Moves

\* Take (registry.get) changes the step and the handle.
LEMMA TakeMoves ==
  ASSUME TypeOK, NEW t \in Threads, NEW label \in Steps, NEW h \in Guests \cup {None},
         Take(t, label, h)
  PROVE  Moves(t, label, {"handle"}) /\ thread'[t].handle = h
<1> DEFINE r == [thread[t] EXCEPT !.pc = label, !.handle = h]
<1>1. thread[t] \in ThreadType
  BY DEF TypeOK
<1>2. r \in ThreadType
  BY <1>1 DEF ThreadType
<1>3. Become(t, r)
  BY DEF Take
<1>4. /\ thread' \in [Threads -> ThreadType] /\ Others(t) /\ thread'[t] = r
      /\ lock' = lock /\ idLock' = idLock
  BY <1>2, <1>3, BecomeChanges
<1>5. QED
  BY <1>1, <1>4 DEF ThreadType, Moves

\* A call of terminate_guest notes the copy and where to continue.
LEMMA CallTerminateMoves ==
  ASSUME TypeOK, NEW t \in Threads, NEW ret \in Callers, NEW m \in Metadata \cup {None},
         CallTerminate(t, ret, m)
  PROVE  /\ Moves(t, "term_get", {"md", "ret", "exit"})
         /\ thread'[t].md = m /\ thread'[t].ret = ret /\ thread'[t].exit = None
<1> DEFINE r == [thread[t] EXCEPT !.pc = "term_get", !.ret = ret, !.md = m, !.exit = None]
<1>1. thread[t] \in ThreadType /\ "term_get" \in Steps
  BY DEF TypeOK, Steps
<1>2. r \in ThreadType
  BY <1>1 DEF ThreadType, Callers
<1>3. Become(t, r)
  BY DEF CallTerminate
<1>4. /\ thread' \in [Threads -> ThreadType] /\ Others(t) /\ thread'[t] = r
      /\ lock' = lock /\ idLock' = idLock
  BY <1>2, <1>3, BecomeChanges
<1>5. QED
  BY <1>1, <1>4 DEF ThreadType, Moves

\* A call of remove_if_handle notes the exit and where to continue.
LEMMA CallRemoveMoves ==
  ASSUME TypeOK, NEW t \in Threads, NEW ret \in Callers, NEW exit \in Exits,
         CallRemove(t, ret, exit)
  PROVE  /\ Moves(t, "remove", {"ret", "exit"})
         /\ thread'[t].ret = ret /\ thread'[t].exit = exit
<1> DEFINE r == [thread[t] EXCEPT !.pc = "remove", !.ret = ret, !.exit = exit]
<1>1. thread[t] \in ThreadType /\ "remove" \in Steps
  BY DEF TypeOK, Steps
<1>2. r \in ThreadType
  BY <1>1 DEF ThreadType, Callers, Exits
<1>3. Become(t, r)
  BY DEF CallRemove
<1>4. /\ thread' \in [Threads -> ThreadType] /\ Others(t) /\ thread'[t] = r
      /\ lock' = lock /\ idLock' = idLock
  BY <1>2, <1>3, BecomeChanges
<1>5. QED
  BY <1>1, <1>4 DEF ThreadType, Moves

\* Forget changes the step and drops the exit.
LEMMA ForgetMoves ==
  ASSUME TypeOK, NEW t \in Threads, NEW label \in Steps, Forget(t, label)
  PROVE  Moves(t, label, {"exit"}) /\ thread'[t].exit = None
<1> DEFINE r == [thread[t] EXCEPT !.pc = label, !.exit = None]
<1>1. thread[t] \in ThreadType
  BY DEF TypeOK
<1>2. r \in ThreadType
  BY <1>1 DEF ThreadType
<1>3. Become(t, r)
  BY DEF Forget
<1>4. /\ thread' \in [Threads -> ThreadType] /\ Others(t) /\ thread'[t] = r
      /\ lock' = lock /\ idLock' = idLock
  BY <1>2, <1>3, BecomeChanges
<1>5. QED
  BY <1>1, <1>4 DEF ThreadType, Moves

\* terminate_guest and remove_if_handle return to the step that was noted.
LEMMA ResumeMoves ==
  ASSUME TypeOK, NEW t \in Threads, NEW exit \in Exits, thread[t].ret \in Callers, Resume(t, exit)
  PROVE  /\ Moves(t, thread[t].ret, {"ret", "handle", "exit"})
         /\ thread'[t].handle = None /\ thread'[t].exit = exit
<1> DEFINE r == [thread[t] EXCEPT !.pc = thread[t].ret, !.ret = None, !.handle = None,
                                  !.exit = exit]
<1>1. thread[t] \in ThreadType /\ thread[t].ret \in Steps
  BY DEF TypeOK, Steps, Callers
<1>2. r \in ThreadType
  BY <1>1 DEF ThreadType, Exits
<1>3. Become(t, r)
  BY DEF Resume
<1>4. /\ thread' \in [Threads -> ThreadType] /\ Others(t) /\ thread'[t] = r
      /\ lock' = lock /\ idLock' = idLock
  BY <1>2, <1>3, BecomeChanges
<1>5. QED
  BY <1>1, <1>4 DEF ThreadType, Moves

\* The end of finish_destroy: a job is done, a prune turns to its next entry.
LEMMA FinishedMoves ==
  ASSUME TypeOK, NEW t \in Threads, NEW outcome \in Exits, Finished(t, outcome)
  PROVE  Moves(t, IF t \in Jobs THEN "done" ELSE "prune_next", {"exit", "id", "md"})
<1> DEFINE label == IF t \in Jobs THEN "done" ELSE "prune_next"
           exit == IF t \in Jobs THEN outcome ELSE None
           r == [thread[t] EXCEPT !.pc = label, !.exit = exit, !.id = None, !.md = None]
<1>1. thread[t] \in ThreadType /\ label \in Steps /\ exit \in Exits
  BY DEF TypeOK, Steps, Exits
<1>2. Become(t, r)
  BY DEF Finished
<1> HIDE DEF label, exit
<1>3. r \in ThreadType
  BY <1>1 DEF ThreadType, Exits
<1>4. /\ thread' \in [Threads -> ThreadType] /\ Others(t) /\ thread'[t] = r
      /\ lock' = lock /\ idLock' = idLock
  BY <1>2, <1>3, BecomeChanges
<1>5. Moves(t, label, {"exit", "id", "md"})
  BY <1>1, <1>4 DEF ThreadType, Moves
<1>6. QED
  BY <1>5 DEF label

-----------------------------------------------------------------------------
(* What every step of a thread keeps. *)

\* How the steps that the invariants below single out are reached.
Entered(r, s) ==
    /\ s.pc = "preflight" => r.pc = "start_write"
    /\ s.pc = "spawn" => r.pc = "preflight"
    /\ s.pc = "rmw_write" => r.pc = "rmw_read"
    /\ s.pc = "artifacts" => r.pc = "clean_collect"
    /\ s.pc = "destroy_wait" => r.pc = "destroy_wait"
    /\ s.pc \in {"lock", "id_lock"} => r.pc = "idle"

\* The thread will kill what runs for its instance, or write what became of it.
Kills(r) ==
    \/ r.pc \in {"clean_kill", "prep_kill"}
    \/ r.pc \in Terminating /\ r.ret = "prep_kill"
Reports(r) ==
    \/ r.pc \in {"insert", "skip_adb", "adb_get", "adb_try", "running", "record"}
    \/ r.pc \in Terminating /\ r.ret = "record"

\* It does so before it turns to anything else.
Steady(r, s) ==
    /\ Kills(r) => \/ Kills(s) /\ s.id = r.id
                   \/ r.pc \in {"clean_kill", "prep_kill"}
    /\ Reports(r) => \/ Reports(s) /\ s.id = r.id /\ s.op = r.op
                     \/ r.pc \in {"skip_adb", "running", "record"}
    /\ r.pc = "preflight" => s.pc = "spawn" /\ s.id = r.id /\ s.op = r.op

\* A guest that a thread names is one that it, or the registry, has named before.
NamesKnown(t) ==
    /\ thread'[t].guest \in {thread[t].guest, None}
    /\ \/ thread'[t].handle \in {thread[t].handle, None}
       \/ \E i \in Ids : thread'[t].handle = registry[i]

Advances(t) ==
    /\ thread' \in [Threads -> ThreadType] /\ Others(t)
    /\ Good(t, thread'[t])
    /\ Entered(thread[t], thread'[t])

\* The thread goes on with its request, on the same instance if it has a lock ...
Continues(t) ==
    /\ lock' = lock /\ idLock' = idLock
    /\ thread'[t].pc # "idle"
    /\ t \in Workers => thread'[t].op = thread[t].op
    /\ thread[t].op \in Locked => thread'[t].id = thread[t].id

\* ... or ends.
Keeps(t) ==
    /\ thread[t].pc \notin {"idle", "lock", "id_lock", "done"}
    /\ t \in Jobs /\ thread'[t].pc \in Cleaning => thread'[t].id = thread[t].id
    /\ Continues(t) \/ Returns(t)

\* Handlers, jobs and watchers are threads, each of one kind.
LEMMA KindFacts ==
  /\ \A w \in Workers : w \in Threads /\ w \notin Jobs /\ w \notin Guests
  /\ \A j \in Jobs : j \in Threads /\ j \notin Workers /\ j \notin Guests
  /\ \A g \in Guests : g \in Threads /\ g \notin Workers /\ g \notin Jobs
  /\ \A t \in Threads : t \in Workers \/ t \in Jobs \/ t \in Guests
  BY ManagerAssumption DEF Threads

\* The null values are no instance, no thread and no record.
LEMMA NoneFacts ==
  /\ None \notin Ids /\ None \notin Threads /\ None \notin Metadata
  /\ EmptyDir \notin Metadata /\ EmptyDir # None
  BY ManagerAssumption

\* A thread at work for a request is at work for one of those that are made.
LEMMA OpFacts ==
  ASSUME TypeOK, NEW t \in Threads
  PROVE  thread[t].op \in Requests => thread[t].op \in Ops
<1>1. thread[t].op \in Ops \cup {"finish", None}
  BY DEF TypeOK, ThreadType
<1>2. None \notin Requests /\ "finish" \notin Requests
  BY ManagerAssumption DEF Requests, Locked, Creating, Pruning
<1>3. QED
  BY <1>1, <1>2

\* What metadata() finds is a record; what registry.get finds is a guest.
LEMMA CopyFacts ==
  ASSUME TypeOK, NEW i \in Ids
  PROVE  /\ Has(i) => disk[i] \in Metadata
         /\ registry[i] \in Guests \cup {None}
         /\ Unknown \in Metadata
  BY ManagerAssumption DEF TypeOK, Has, Unknown, Metadata, States

\* The types of the fields of one thread's record.
LEMMA FieldTypes ==
  ASSUME TypeOK, NEW t \in Threads
  PROVE  /\ thread[t].md \in Metadata \cup {None}
         /\ thread[t].handle \in Guests \cup {None}
         /\ thread[t].guest \in Guests \cup {None}
         /\ thread[t].exit \in Exits
         /\ thread[t] \in ThreadType
  BY DEF TypeOK, ThreadType, Exits

\* A guest that a thread or the registry names has been spawned.
BornInv ==
    \A g \in Guests : proc[g] = "unborn" =>
        /\ \A i \in Ids : registry[i] # g
        /\ \A t \in Threads : thread[t].handle # g /\ thread[t].guest # g
        /\ thread[g].pc = "idle"

\* A handler or watcher may return from any of its steps.
LEMMA ReturnAdvances ==
  ASSUME TypeOK, NEW t \in Threads, t \notin Jobs, Return(t)
  PROVE  Advances(t) /\ NamesKnown(t)
<1>1. Returns(t)
  BY ReturnMoves
<1>2. thread' \in [Threads -> ThreadType] /\ Others(t) /\ thread'[t] = Idle
  BY <1>1 DEF Returns
<1>3. Idle.pc = "idle" /\ Idle.guest = None /\ Idle.handle = None
  BY DEF Idle
<1>4. Good(t, thread'[t]) /\ Entered(thread[t], thread'[t])
  BY <1>2, <1>3 DEF Good, Entered, WorkerFlow, WatcherFlow, Fields, Terminating
<1>5. QED
  BY <1>2, <1>3, <1>4 DEF Advances, NamesKnown

\* A guest that a thread has a handle of has been spawned: if it is not running,
\* it has exited, one way or the other.
LEMMA ExitFacts ==
  ASSUME TypeOK, BornInv, NEW t \in Threads, thread[t].handle \in Guests
  PROVE  proc[thread[t].handle] # "running" => Exit(thread[t].handle) \in {"ok", "failed"}
  BY DEF TypeOK, BornInv, Exit

\* The steps of a request handler, but for those that involve another thread or a lock.
Alone(w) ==
    \/ Allocate(w) \/ AllocateFails(w) \/ MakeDir(w) \/ CreateWrite(w)
    \/ StartContains(w) \/ StartRead(w) \/ StartWrite(w) \/ Preflight(w)
    \/ PrepareFails(w) \/ SpawnFails(w) \/ Insert(w) \/ SkipAdb(w) \/ WriteRunning(w)
    \/ VerifyBoot(w) \/ AdbRead(w) \/ AdbGet(w) \/ AdbTry(w) \/ AdbDeadline(w)
    \/ RecordFailure(w) \/ StartFailed(w) \/ TermGet(w) \/ TermWait(w) \/ KillWait(w)
    \/ StopRead(w) \/ StopWrite(w) \/ StopIncomplete(w) \/ UpdateRead(w)
    \/ UpdateWrite(w) \/ PrepareRead(w) \/ PrepareExists(w) \/ PrepareWrite(w) \/ PrepareKill(w)
    \/ DestroyTimeout(w) \/ Scan(w) \/ PruneEntry(w) \/ PruneDone(w)

\* The steps of one thread by itself.
Single(t) ==
    \/ t \in Workers /\ Alone(t)
    \/ SharedStep(t)
    \/ t \in Guests /\ WatcherStep(t)

\* allocate_id gives the handler an id.
LEMMA AllocateMoves ==
  ASSUME TypeOK, NEW w \in Workers, Allocate(w)
  PROVE  Moves(w, "mkdir", {"id"}) /\ thread'[w].id \in Ids
<1>1. PICK i \in Ids : Become(w, [thread[w] EXCEPT !.pc = "mkdir", !.id = i])
  BY DEF Allocate
<1> DEFINE r == [thread[w] EXCEPT !.pc = "mkdir", !.id = i]
<1>2. thread[w] \in ThreadType /\ w \in Threads /\ "mkdir" \in Steps
  BY KindFacts DEF TypeOK, Steps
<1>3. r \in ThreadType
  BY <1>2 DEF ThreadType
<1>4. /\ thread' \in [Threads -> ThreadType] /\ Others(w) /\ thread'[w] = r
      /\ lock' = lock /\ idLock' = idLock
  BY <1>1, <1>2, <1>3, BecomeChanges
<1>5. QED
  BY <1>2, <1>4 DEF ThreadType, Moves

\* A prune's scan of the instances moves the handler on; what it found is in todo.
LEMMA ScanMoves ==
  ASSUME TypeOK, NEW w \in Workers, Scan(w)
  PROVE  Moves(w, "prune_next", {})
<1> DEFINE S == {i \in Ids : disk[i] # None}
           r == [thread[w] EXCEPT !.pc = "prune_next", !.todo = S]
<1>1. Become(w, r)
  BY DEF Scan
<1>2. S \in SUBSET Ids
  OBVIOUS
<1> HIDE DEF S
<1>3. thread[w] \in ThreadType /\ w \in Threads /\ "prune_next" \in Steps
  BY KindFacts DEF TypeOK, Steps
<1>4. r \in ThreadType
  BY <1>2, <1>3 DEF ThreadType
<1>5. /\ thread' \in [Threads -> ThreadType] /\ Others(w) /\ thread'[w] = r
      /\ lock' = lock /\ idLock' = idLock
  BY <1>1, <1>3, <1>4, BecomeChanges
<1>6. QED
  BY <1>3, <1>5 DEF ThreadType, Moves

\* A prune goes past an entry, or on to destroy that instance.
LEMMA PruneEntryMoves ==
  ASSUME TypeOK, NEW w \in Workers, PruneEntry(w)
  PROVE  \/ Moves(w, "prune_next", {})
         \/ Moves(w, "prep_read", {"id"}) /\ thread'[w].id \in Ids
<1>1. /\ At(w, "prune_next") /\ "prune_next" \in Steps /\ "prep_read" \in Steps
      /\ thread[w] \in ThreadType /\ w \in Threads
  BY KindFacts DEF PruneEntry, Steps, TypeOK
<1>2. thread[w].todo \subseteq Ids
  BY <1>1 DEF ThreadType
<1>3. PICK i \in Ids :
        \/ Become(w, [[thread[w] EXCEPT !.todo = @ \ {i}] EXCEPT !.pc = "prep_read", !.id = i])
        \/ Become(w, [thread[w] EXCEPT !.todo = @ \ {i}])
  BY <1>2 DEF PruneEntry
<1> DEFINE rest == [thread[w] EXCEPT !.todo = @ \ {i}]
           moved == [rest EXCEPT !.pc = "prep_read"]
           next == [rest EXCEPT !.pc = "prep_read", !.id = i]
<1>4. rest \in ThreadType /\ rest.pc = "prune_next"
  BY <1>1, <1>2 DEF ThreadType, At
<1>5. next \in ThreadType /\ next.pc = "prep_read" /\ next.id = i
  <2> HIDE DEF rest
  <2>1. moved \in ThreadType /\ moved.pc = "prep_read"
    BY <1>1, <1>4 DEF ThreadType
  <2> HIDE DEF moved
  <2>2. [moved EXCEPT !.id = i] \in ThreadType /\ [moved EXCEPT !.id = i].pc = moved.pc
        /\ [moved EXCEPT !.id = i].id = i
    BY <2>1 DEF ThreadType
  <2>3. QED
    BY <2>1, <2>2 DEF moved
<1>6. CASE Become(w, rest)
  <2>1. /\ thread' \in [Threads -> ThreadType] /\ Others(w) /\ thread'[w] = rest
        /\ lock' = lock /\ idLock' = idLock
    BY <1>1, <1>4, <1>6, BecomeChanges
  <2>2. QED
    BY <1>1, <1>4, <2>1 DEF ThreadType, Moves
<1>7. CASE Become(w, next)
  <2>1. /\ thread' \in [Threads -> ThreadType] /\ Others(w) /\ thread'[w] = next
        /\ lock' = lock /\ idLock' = idLock
    BY <1>1, <1>5, <1>7, BecomeChanges
  <2>2. QED
    BY <1>1, <1>5, <2>1 DEF ThreadType, Moves
<1>8. QED
  BY <1>3, <1>6, <1>7

\* handle_guest_exit has written the record; the watcher goes on to clean up.
LEMMA ExitWriteMoves ==
  ASSUME TypeOK, NEW g \in Guests, ExitWrite(g), thread[g].id \in Ids
  PROVE  /\ Moves(g, "clean_kill", {"op", "md", "guest", "handle", "ret", "exit", "job"})
         /\ thread'[g].guest = None /\ thread'[g].handle = None
<1> DEFINE r == [Idle EXCEPT !.pc = "clean_kill", !.id = thread[g].id]
<1>1. "clean_kill" \in Steps /\ g \in Threads
  BY KindFacts DEF Steps
<1>2. r \in ThreadType
  BY <1>1, IdleType DEF ThreadType
<1>3. Become(g, r)
  BY DEF ExitWrite
<1>4. r.pc = "clean_kill" /\ r.id = thread[g].id /\ r.guest = Idle.guest /\ r.handle = Idle.handle
  BY IdleType DEF ThreadType
<1>5. Idle.guest = None /\ Idle.handle = None
  BY DEF Idle
<1> HIDE DEF r
<1>6. /\ thread' \in [Threads -> ThreadType] /\ Others(g) /\ thread'[g] = r
      /\ lock' = lock /\ idLock' = idLock
  BY <1>1, <1>2, <1>3, BecomeChanges
<1>7. QED
  BY <1>4, <1>5, <1>6 DEF Moves

\* The labels are steps; cited instead of the definition, which makes a leaf slow.
LEMMA StepNames ==
  /\ "idle" \in Steps /\ "lock" \in Steps /\ "id_lock" \in Steps /\ "allocate" \in Steps
  /\ "mkdir" \in Steps /\ "create_write" \in Steps /\ "contains" \in Steps
  /\ "start_read" \in Steps /\ "start_write" \in Steps /\ "preflight" \in Steps
  /\ "spawn" \in Steps /\ "insert" \in Steps /\ "skip_adb" \in Steps
  /\ "running" \in Steps /\ "verify" \in Steps /\ "watch" \in Steps
  /\ "adb_read" \in Steps /\ "adb_get" \in Steps /\ "adb_try" \in Steps
  /\ "record" \in Steps /\ "start_failed" \in Steps /\ "term_get" \in Steps
  /\ "term_wait" \in Steps /\ "kill_wait" \in Steps /\ "remove" \in Steps
  /\ "remove_entry" \in Steps /\ "stop_read" \in Steps /\ "stop_write" \in Steps
  /\ "stop_incomplete" \in Steps /\ "rmw_read" \in Steps /\ "rmw_write" \in Steps
  /\ "prep_read" \in Steps /\ "prep_exists" \in Steps /\ "prep_write" \in Steps /\ "prep_kill" \in Steps
  /\ "destroy_spawn" \in Steps /\ "destroy_wait" \in Steps /\ "done" \in Steps
  /\ "clean_kill" \in Steps /\ "clean_collect" \in Steps /\ "artifacts" \in Steps
  /\ "mark_read" \in Steps /\ "mark_write" \in Steps /\ "scan" \in Steps
  /\ "prune_next" \in Steps /\ "wait_lock" \in Steps /\ "wait" \in Steps
  /\ "exit_read" \in Steps /\ "exit_write" \in Steps
  BY DEF Steps

\* The steps of a request handler by itself.
LEMMA WorkerAdvances ==
  ASSUME TypeOK, BornInv, NEW w \in Workers, Good(w, thread[w]), Alone(w)
  PROVE  Advances(w) /\ Keeps(w) /\ NamesKnown(w) /\ Steady(thread[w], thread'[w])
<1> DEFINE Goal == Advances(w) /\ Keeps(w) /\ NamesKnown(w) /\ Steady(thread[w], thread'[w])
<1> USE StepNames DEF At, Good, WorkerFlow, Fields, Moves, Terminating, Callers, Exits,
            Advances, NamesKnown, Keeps, Continues, Entered, Steady, Kills, Reports, Cleaning
<1>1. ASSUME Allocate(w) PROVE Goal
  BY <1>1, KindFacts, FieldTypes, AllocateMoves DEF Allocate, Locked, Creating
<1>2. ASSUME AllocateFails(w) PROVE Goal
  BY <1>2, KindFacts, FieldTypes, ReturnAdvances, ReturnMoves DEF AllocateFails
<1>3. ASSUME MakeDir(w) PROVE Goal
  BY <1>3, KindFacts, FieldTypes, GotoMoves DEF MakeDir
<1>4. ASSUME CreateWrite(w) PROVE Goal
    BY <1>4, KindFacts, FieldTypes, GotoMoves, ReturnAdvances, ReturnMoves DEF
     CreateWrite, Starts
<1>5. ASSUME StartContains(w) PROVE Goal
  BY <1>5, KindFacts, FieldTypes, GotoMoves, ReturnAdvances, ReturnMoves DEF StartContains
<1>6. ASSUME StartRead(w) PROVE Goal
    BY <1>6, KindFacts, CopyFacts, FieldTypes, GotoMoves, ReturnAdvances, ReturnMoves,
     CopyMoves DEF StartRead
<1>7. ASSUME StartWrite(w) PROVE Goal
  BY <1>7, KindFacts, FieldTypes, GotoMoves DEF StartWrite
<1>8. ASSUME Preflight(w) PROVE Goal
  BY <1>8, KindFacts, FieldTypes, GotoMoves DEF Preflight
<1>9. ASSUME PrepareFails(w) PROVE Goal
  BY <1>9, KindFacts, FieldTypes, ReturnAdvances, ReturnMoves DEF PrepareFails
<1>10. ASSUME SpawnFails(w) PROVE Goal
  BY <1>10, KindFacts, FieldTypes, ReturnAdvances, ReturnMoves DEF SpawnFails
<1>11. ASSUME Insert(w) PROVE Goal
  BY <1>11, KindFacts, FieldTypes, GotoMoves DEF Insert
<1>12. ASSUME SkipAdb(w) PROVE Goal
  BY <1>12, KindFacts, FieldTypes, GotoMoves DEF SkipAdb
<1>13. ASSUME WriteRunning(w) PROVE Goal
  BY <1>13, KindFacts, FieldTypes, GotoMoves, ReturnAdvances, ReturnMoves DEF WriteRunning
<1>14. ASSUME VerifyBoot(w) PROVE Goal
  BY <1>14, KindFacts, FieldTypes, GotoMoves, ReturnAdvances, ReturnMoves DEF VerifyBoot
<1>15. ASSUME AdbRead(w) PROVE Goal
    BY <1>15, KindFacts, CopyFacts, FieldTypes, ReturnAdvances, ReturnMoves, CopyMoves DEF
     AdbRead, Starts
<1>16. ASSUME AdbGet(w) PROVE Goal
  BY <1>16, KindFacts, CopyFacts, FieldTypes, GotoMoves, TakeMoves DEF AdbGet
<1>17. ASSUME AdbTry(w) PROVE Goal
  <2>1. CASE CallRemove(w, "record", None)
    BY <1>17, <2>1, KindFacts, FieldTypes, CallRemoveMoves DEF AdbTry
  <2>2. CASE Take(w, "running", None) \/ Take(w, "adb_get", None)
    BY <1>17, <2>2, KindFacts, FieldTypes, TakeMoves DEF AdbTry
  <2>3. QED
    BY <1>17, <2>1, <2>2 DEF AdbTry
<1>18. ASSUME AdbDeadline(w) PROVE Goal
  BY <1>18, KindFacts, FieldTypes, CallTerminateMoves DEF AdbDeadline
<1>19. ASSUME RecordFailure(w) PROVE Goal
    BY <1>19, KindFacts, FieldTypes, ReturnAdvances, ReturnMoves, CallTerminateMoves DEF
     RecordFailure
<1>20. ASSUME StartFailed(w) PROVE Goal
  BY <1>20, KindFacts, FieldTypes, ReturnAdvances, ReturnMoves DEF StartFailed
<1>21. ASSUME TermGet(w) PROVE Goal
  BY <1>21, KindFacts, CopyFacts, FieldTypes, TakeMoves, ResumeMoves DEF TermGet
<1>22. ASSUME TermWait(w) PROVE Goal
  <2>1. CASE Goto(w, "kill_wait")
    BY <1>22, <2>1, KindFacts, FieldTypes, GotoMoves DEF TermWait
  <2>2. CASE ~Goto(w, "kill_wait")
    <3>1. PICK exit \in Exits : At(w, "term_wait") /\ CallRemove(w, thread[w].ret, exit)
      BY <1>22, <2>2, KindFacts, ExitFacts DEF TermWait
    <3>2. QED
      BY <3>1, KindFacts, FieldTypes, CallRemoveMoves
  <2>3. QED
    BY <2>1, <2>2
<1>23. ASSUME KillWait(w) PROVE Goal
  <2>1. PICK exit \in Exits : At(w, "kill_wait") /\ CallRemove(w, thread[w].ret, exit)
    BY <1>23, KindFacts, ExitFacts DEF KillWait
  <2>2. QED
    BY <2>1, KindFacts, FieldTypes, CallRemoveMoves
<1>24. ASSUME StopRead(w) PROVE Goal
    BY <1>24, KindFacts, CopyFacts, FieldTypes, ReturnAdvances, ReturnMoves,
     CallTerminateMoves DEF StopRead
<1>25. ASSUME StopWrite(w) PROVE Goal
  BY <1>25, KindFacts, FieldTypes, ForgetMoves DEF StopWrite
<1>26. ASSUME StopIncomplete(w) PROVE Goal
  BY <1>26, KindFacts, FieldTypes, ReturnAdvances, ReturnMoves DEF StopIncomplete
<1>27. ASSUME UpdateRead(w) PROVE Goal
    BY <1>27, KindFacts, CopyFacts, FieldTypes, ReturnAdvances, ReturnMoves, CopyMoves DEF
     UpdateRead
<1>28. ASSUME UpdateWrite(w) PROVE Goal
  BY <1>28, KindFacts, FieldTypes, ReturnAdvances, ReturnMoves DEF UpdateWrite
<1>29. ASSUME PrepareRead(w) PROVE Goal
  BY <1>29, KindFacts, CopyFacts, FieldTypes, CopyMoves DEF PrepareRead
<1>30. ASSUME PrepareExists(w) PROVE Goal
  BY <1>30, KindFacts, FieldTypes, GotoMoves, CallTerminateMoves DEF PrepareExists
<1>31. ASSUME PrepareWrite(w) PROVE Goal
  BY <1>31, KindFacts, FieldTypes, CallTerminateMoves DEF PrepareWrite
<1>32. ASSUME PrepareKill(w) PROVE Goal
  BY <1>32, KindFacts, FieldTypes, ForgetMoves DEF PrepareKill, Destroying, Pruning
<1>33. ASSUME DestroyTimeout(w) PROVE Goal
  BY <1>33, KindFacts, FieldTypes, ReturnAdvances, ReturnMoves DEF DestroyTimeout
<1>34. ASSUME Scan(w) PROVE Goal
  BY <1>34, KindFacts, FieldTypes, ScanMoves DEF Scan
<1>35. ASSUME PruneEntry(w) PROVE Goal
    BY <1>35, KindFacts, FieldTypes, PruneEntryMoves DEF PruneEntry, Pruning, Locked,
     Destroying
<1>36. ASSUME PruneDone(w) PROVE Goal
  BY <1>36, KindFacts, FieldTypes, ReturnAdvances, ReturnMoves DEF PruneDone
<1>37. QED
    BY <1>1, <1>2, <1>3, <1>4, <1>5, <1>6, <1>7, <1>8, <1>9, <1>10, <1>11, <1>12, <1>13,
     <1>14, <1>15, <1>16, <1>17, <1>18, <1>19, <1>20, <1>21, <1>22, <1>23, <1>24, <1>25,
     <1>26, <1>27, <1>28, <1>29, <1>30, <1>31, <1>32, <1>33, <1>34, <1>35, <1>36 DEF Alone

\* The steps that threads of several kinds have.
LEMMA SharedAdvances ==
  ASSUME TypeOK, BornInv, NEW t \in Threads, Good(t, thread[t]), SharedStep(t)
  PROVE  Advances(t) /\ Keeps(t) /\ NamesKnown(t) /\ Steady(thread[t], thread'[t])
<1> DEFINE Goal == Advances(t) /\ Keeps(t) /\ NamesKnown(t) /\ Steady(thread[t], thread'[t])
<1> USE StepNames DEF At, Good, WorkerFlow, JobFlow, WatcherFlow, Cleaning, Fields, Moves,
            Terminating, Callers, Exits, Advances, NamesKnown, Keeps, Continues, Entered, Steady, Kills, Reports
<1>1. ASSUME RemoveCheck(t) PROVE Goal
  BY <1>1, KindFacts, FieldTypes, GotoMoves, ResumeMoves DEF RemoveCheck
<1>2. ASSUME RemoveEntry(t) PROVE Goal
  BY <1>2, KindFacts, FieldTypes, ResumeMoves DEF RemoveEntry
<1>3. ASSUME CleanKill(t) PROVE Goal
  BY <1>3, KindFacts, FieldTypes, GotoMoves DEF CleanKill
<1>4. ASSUME CleanCollect(t) PROVE Goal
  <2>1. At(t, "clean_collect")
    BY <1>4 DEF CleanCollect
  <2>2. \/ t \notin Jobs /\ Return(t)
        \/ t \in Workers /\ thread[t].op = "Stop" /\ Goto(t, "stop_incomplete")
        \/ t \notin Guests /\ thread[t].op # "Stop" /\ Goto(t, "artifacts")
        \/ t \notin Guests /\ thread[t].op # "Stop" /\ Goto(t, "mark_read")
    BY <1>4, KindFacts DEF CleanCollect
  <2>3. CASE t \notin Jobs /\ Return(t)
    BY <2>1, <2>2, <2>3, ReturnMoves, ReturnAdvances
  <2>4. CASE Goto(t, "stop_incomplete") /\ t \in Workers /\ thread[t].op = "Stop"
    BY <2>1, <2>4, KindFacts, FieldTypes, GotoMoves
  <2>5. CASE Goto(t, "artifacts") /\ t \notin Guests /\ thread[t].op # "Stop"
    BY <2>1, <2>5, KindFacts, FieldTypes, GotoMoves DEF Pruning
  <2>6. CASE Goto(t, "mark_read") /\ t \notin Guests /\ thread[t].op # "Stop"
    BY <2>1, <2>6, KindFacts, FieldTypes, GotoMoves DEF Pruning
  <2>7. QED
    BY <2>2, <2>3, <2>4, <2>5, <2>6
<1>5. ASSUME RemoveArtifacts(t) PROVE Goal
  BY <1>5, KindFacts, FieldTypes, FinishedMoves DEF RemoveArtifacts, Pruning, Locked
<1>6. ASSUME MarkRead(t) PROVE Goal
  BY <1>6, KindFacts, CopyFacts, FieldTypes, CopyMoves DEF MarkRead
<1>7. ASSUME MarkWrite(t) PROVE Goal
  BY <1>7, KindFacts, FieldTypes, FinishedMoves DEF MarkWrite, Pruning, Locked
<1>8. QED
  BY <1>1, <1>2, <1>3, <1>4, <1>5, <1>6, <1>7 DEF SharedStep

\* The steps of an exit watcher.
LEMMA WatcherAdvances ==
  ASSUME TypeOK, BornInv, NEW g \in Guests, Good(g, thread[g]), WatcherStep(g)
  PROVE  Advances(g) /\ Keeps(g) /\ NamesKnown(g) /\ Steady(thread[g], thread'[g])
<1> DEFINE Goal == Advances(g) /\ Keeps(g) /\ NamesKnown(g) /\ Steady(thread[g], thread'[g])
<1> USE StepNames DEF At, Good, WorkerFlow, JobFlow, WatcherFlow, Cleaning, Fields, Moves,
            Terminating, Callers, Exits, Advances, NamesKnown, Keeps, Continues, Entered, Steady, Kills, Reports
<1>1. ASSUME WatchLock(g) PROVE Goal
  BY <1>1, KindFacts, FieldTypes, GotoMoves DEF WatchLock
<1>2. ASSUME WatchReturns(g) PROVE Goal
  <2>1. At(g, "wait") /\ Exit(g) \in {"ok", "failed"}
    BY <1>2, KindFacts DEF WatchReturns, BornInv, TypeOK, Exit
  <2>2. CallRemove(g, "exit_read", Exit(g))
    BY <1>2 DEF WatchReturns
  <2>3. QED
    BY <2>1, <2>2, KindFacts, FieldTypes, CallRemoveMoves
<1>3. ASSUME ExitRead(g) PROVE Goal
    BY <1>3, KindFacts, CopyFacts, FieldTypes, ReturnAdvances, ReturnMoves, CopyMoves DEF
     ExitRead
<1>4. ASSUME ExitWrite(g) PROVE Goal
  BY <1>4, KindFacts, NoneFacts, FieldTypes, ExitWriteMoves DEF ExitWrite
<1>5. QED
  BY <1>1, <1>2, <1>3, <1>4 DEF WatcherStep

\* The steps of one thread by itself.
LEMMA SingleAdvances ==
  ASSUME TypeOK, ControlInv, BornInv, NEW t \in Threads, Single(t)
  PROVE  Advances(t) /\ Keeps(t) /\ NamesKnown(t) /\ Steady(thread[t], thread'[t])
<1>1. Good(t, thread[t])
  BY DEF ControlInv
<1>2. QED
  BY <1>1, KindFacts, WorkerAdvances, SharedAdvances, WatcherAdvances DEF Single

\* A step is one of a thread by itself, or one of these.
LEMMA NextCases ==
  ASSUME Next
  PROVE  \/ \E t \in Threads : Single(t)
         \/ \E w \in Workers :
               \/ Request(w) \/ LockInstance(w) \/ LockId(w)
               \/ Spawn(w) \/ SpawnWatcher(w) \/ SpawnJob(w) \/ DestroyReply(w)
         \/ \E j \in Jobs : JobEnds(j)
         \/ \E g \in Guests : GuestExits(g)
         \/ Restart
  BY KindFacts DEF Next, WorkerStep, Alone, Single
=============================================================================
