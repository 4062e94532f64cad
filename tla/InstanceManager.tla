--------------------------- MODULE InstanceManager ---------------------------
(***************************************************************************)
(* The instance manager of the cfctl daemon (cfctl/src/daemon/manager.rs): *)
(* requests that create, start, stop, hold, destroy and prune instances,   *)
(* the exit watcher of each guest and the background half of destroy, over *)
(* the state they share: the metadata files, the guest registry, the guest *)
(* processes and the locks that dispatch (daemon/mod.rs) takes.            *)
(*                                                                         *)
(* Every thread is at a step "pc" of the code it runs; a step is one       *)
(* access to shared state and the local code up to the next one.  A        *)
(* request carries its own copy "md" of the metadata from the read to the  *)
(* write, as the code does.  The mutex of a GuestHandle appears as the     *)
(* guard Observable: GuestHandle.tla has the details.                      *)
(*                                                                         *)
(* The lock of an instance is exclusive as long as cleanup_instance_lock   *)
(* reclaims no mutex that is in use (Dispatch.tla); with "lock_reclaimed"  *)
(* in Options it may have done so before any request.                      *)
(*                                                                         *)
(* Abstracted: the images, ports, times and host directories of an         *)
(* instance (no decision below reads them); created_at is the number of    *)
(* the create that made the record.  One write_metadata (temporary file    *)
(* and rename) is one step.  Input and output errors of the daemon's own   *)
(* files are left out, except the ones that end a start (prepare_fails).   *)
(***************************************************************************)
EXTENDS Naturals, FiniteSets

CONSTANTS Ids,           \* instance ids (1..99 in the code)
          Workers,       \* request handlers (spawn_blocking threads)
          Jobs,          \* bound on the background threads of destroy
          Guests,        \* bound on the guest processes ever spawned
          Ops,           \* the requests clients send
          Options,       \* what requests may meet (AllOptions)
          Unkillable,    \* guests that survive SIGKILL (uninterruptible)
          MaxCreates,    \* bound on create requests
          MaxCrashes,    \* bound on daemon restarts
          None, EmptyDir \* Option::None; an instance directory without metadata

AllOptions == {"skip_adb_wait", "wait_for_adb", "verify_boot", "prepare_fails",
               "destroy_timeout", "lock_reclaimed"}
Threads == Workers \cup Jobs \cup Guests   \* a guest also names its exit watcher

States == {"created", "starting", "running", "stopped", "failed", "destroyed"}
Metadata == [state : States, held : BOOLEAN, created : 0 .. MaxCreates]
Pruning == {"PruneAll", "PruneExpired"}
Creating == {"Create", "CreateStart"}
Locked == {"Start", "Stop", "Hold", "Deploy", "Destroy", "WaitForAdb"}
Requests == Locked \cup Creating \cup Pruning

ASSUME ManagerAssumption ==
    /\ Workers \cap (Jobs \cup Guests) = {} /\ Jobs \cap Guests = {}
    /\ None # EmptyDir
    /\ {None, EmptyDir} \cap (Ids \cup Threads \cup Metadata \cup Requests) = {}
    /\ Ops \subseteq Requests
    /\ Options \subseteq AllOptions /\ Unkillable \subseteq Guests
    /\ MaxCreates \in Nat /\ MaxCrashes \in Nat

VARIABLES disk,      \* instances/<id>/metadata.json, EmptyDir, or None
          registry,  \* GuestRegistry: the handle of each instance
          home,      \* the instance a guest process was spawned for
          proc,      \* unborn, running, left (the direct child has exited, processes that
                     \* it started live on), or the way the guest exited
          thread,    \* the daemon's threads
          lock,      \* instance_locks: the worker holding the mutex of each
          idLock,    \* id_lock
          creates, crashes,       \* counters for the bounds
          heldAcks, destroyAcks   \* history: records whose hold, destroy was answered ok

guestVars == <<home, proc>>
history == <<heldAcks, destroyAcks>>
vars == <<disk, registry, guestVars, thread, lock, idLock, creates, crashes, history>>

Idle == [pc |-> "idle", op |-> None, id |-> None, md |-> None, guest |-> None,
         handle |-> None, ret |-> None, exit |-> None, job |-> None, todo |-> {}]

Init ==
    /\ disk = [i \in Ids |-> None]
    /\ registry = [i \in Ids |-> None]
    /\ home = [g \in Guests |-> None]
    /\ proc = [g \in Guests |-> "unborn"]
    /\ thread = [t \in Threads |-> Idle]
    /\ lock = [i \in Ids |-> None]
    /\ idLock = None
    /\ creates = 0 /\ crashes = 0
    /\ heldAcks = {} /\ destroyAcks = {}

-----------------------------------------------------------------------------
Has(i) == disk[i] \notin {None, EmptyDir}     \* metadata(id) finds a file
Unknown == [state |-> "destroyed", held |-> FALSE, created |-> 0]
Alive(i) == {g \in Guests : home[g] = i /\ proc[g] \in {"running", "left"}}

\* The exit status of the direct child.
Exit(g) == IF proc[g] = "left" THEN "failed" ELSE proc[g]

At(t, label) == thread[t].pc = label
Become(t, r) == thread' = [thread EXCEPT ![t] = r] /\ UNCHANGED <<lock, idLock>>
Goto(t, label) == Become(t, [thread[t] EXCEPT !.pc = label])

\* The handler returns: its thread and the guards it owns are given back.
Return(t) ==
    /\ thread' = [thread EXCEPT ![t] = Idle]
    /\ lock' = [i \in Ids |-> IF lock[i] = t THEN None ELSE lock[i]]
    /\ idLock' = IF idLock = t THEN None ELSE idLock

\* write_metadata of the caller's copy, which recreates a removed directory.
Write(t, s) == disk' = [disk EXCEPT ![thread[t].id] = [thread[t].md EXCEPT !.state = s]]

\* The handler takes m as its copy of the record.
Copy(t, label, m) == Become(t, [thread[t] EXCEPT !.pc = label, !.md = m])

\* registry.get: the handler takes a handle, or drops the one it has.
Take(t, label, h) == Become(t, [thread[t] EXCEPT !.pc = label, !.handle = h])

\* terminate_guest, with m as the caller's copy, to continue at ret.
CallTerminate(t, ret, m) ==
    Become(t, [thread[t] EXCEPT !.pc = "term_get", !.ret = ret, !.md = m, !.exit = None])

\* remove_if_handle, after which the exit is known, to continue at ret.
CallRemove(t, ret, exit) ==
    Become(t, [thread[t] EXCEPT !.pc = "remove", !.ret = ret, !.exit = exit])

\* The exit that terminate_guest has returned is not needed any more.
Forget(t, label) == Become(t, [thread[t] EXCEPT !.pc = label, !.exit = None])

\* try_wait on a handle returns: no watcher is inside GuestHandle::wait.
Observable(g) == ~At(g, "wait")

\* SIGKILL to a set of guests.
Killed(S) ==
    proc' = [g \in Guests |-> IF g \in S \ Unkillable THEN "failed" ELSE proc[g]]

-----------------------------------------------------------------------------
(* daemon/mod.rs dispatch: which lock a request takes, and what runs next. *)

FirstStep == [Start |-> "contains", Stop |-> "stop_read", Hold |-> "rmw_read",
              Deploy |-> "rmw_read", Destroy |-> "prep_read", WaitForAdb |-> "adb_read"]

\* A client sends a request.  A create is numbered when it is sent.
Request(w) ==
    /\ w \in Workers /\ At(w, "idle")
    /\ \E op \in Ops :
          \/ /\ op \in Locked
             /\ \E i \in Ids : Become(w, [Idle EXCEPT !.pc = "lock", !.op = op, !.id = i])
             /\ UNCHANGED creates
          \/ /\ op \in Creating
             /\ creates < MaxCreates
             /\ creates' = creates + 1
             /\ Become(w, [Idle EXCEPT !.pc = "id_lock", !.op = op,
                           !.md = [state |-> "created", held |-> FALSE, created |-> creates']])
          \/ /\ op \in Pruning
             /\ Become(w, [Idle EXCEPT !.pc = "scan", !.op = op])
             /\ UNCHANGED creates
    /\ UNCHANGED <<disk, registry, guestVars, crashes, history>>

\* Whoever has the mutex that was reclaimed goes on with it; the map has another one.
LockInstance(w) ==
    /\ At(w, "lock")
    /\ LET i == thread[w].id IN
          /\ lock[i] = None \/ "lock_reclaimed" \in Options
          /\ lock' = [lock EXCEPT ![i] = w]
    /\ thread' = [thread EXCEPT ![w].pc = FirstStep[thread[w].op]]
    /\ UNCHANGED <<disk, registry, guestVars, idLock, creates, crashes, history>>

\* Seeded fault of LockId: id_lock is not exclusive.
LockIdShared(w) ==
    /\ At(w, "id_lock")
    /\ idLock' = w
    /\ thread' = [thread EXCEPT ![w].pc = "allocate"]
    /\ UNCHANGED <<disk, registry, guestVars, lock, creates, crashes, history>>

LockId(w) ==
    /\ At(w, "id_lock")
    /\ idLock = None
    /\ idLock' = w
    /\ thread' = [thread EXCEPT ![w].pc = "allocate"]
    /\ UNCHANGED <<disk, registry, guestVars, lock, creates, crashes, history>>

-----------------------------------------------------------------------------
(* create_instance.  Which free id allocate_id picks is left open.         *)

Allocate(w) ==
    /\ At(w, "allocate")
    /\ \E i \in Ids : /\ disk[i] = None
                      /\ Become(w, [thread[w] EXCEPT !.pc = "mkdir", !.id = i])
    /\ UNCHANGED <<disk, registry, guestVars, creates, crashes, history>>

\* "no available instance slots"
AllocateFails(w) ==
    /\ At(w, "allocate")
    /\ \A i \in Ids : disk[i] # None
    /\ Return(w)
    /\ UNCHANGED <<disk, registry, guestVars, creates, crashes, history>>

MakeDir(w) ==
    /\ At(w, "mkdir")
    /\ disk' = IF Has(thread[w].id) THEN disk ELSE [disk EXCEPT ![thread[w].id] = EmptyDir]
    /\ Goto(w, "create_write")
    /\ UNCHANGED <<registry, guestVars, creates, crashes, history>>

\* The record is written; CreateStart goes on to start_instance, holding only
\* id_lock and its cached copy of the record.
CreateWrite(w) ==
    /\ At(w, "create_write")
    /\ Write(w, "created")
    /\ IF thread[w].op = "CreateStart" THEN Goto(w, "contains") ELSE Return(w)
    /\ UNCHANGED <<registry, guestVars, creates, crashes, history>>

-----------------------------------------------------------------------------
(* start_instance                                                          *)

StartContains(w) ==
    /\ At(w, "contains")
    /\ IF registry[thread[w].id] # None THEN Return(w) ELSE Goto(w, "start_read")
    /\ UNCHANGED <<disk, registry, guestVars, creates, crashes, history>>

StartRead(w) ==
    /\ At(w, "start_read")
    /\ LET i == thread[w].id IN
          IF thread[w].md # None THEN Goto(w, "start_write")
          ELSE IF Has(i) THEN Copy(w, "start_write", disk[i])
          ELSE Return(w)
    /\ UNCHANGED <<disk, registry, guestVars, creates, crashes, history>>

StartWrite(w) ==
    /\ At(w, "start_write")
    /\ Write(w, "starting")
    /\ Goto(w, "preflight")
    /\ UNCHANGED <<registry, guestVars, creates, crashes, history>>

\* Seeded fault of Preflight: what still runs under the id is left alone.
PreflightSkipped(w) ==
    /\ At(w, "preflight")
    /\ Goto(w, "spawn")
    /\ UNCHANGED <<disk, registry, guestVars, creates, crashes, history>>

\* preflight_cleanup kills what still runs under this id; survivors are only
\* warned about.
Preflight(w) ==
    /\ At(w, "preflight")
    /\ Killed(Alive(thread[w].id))
    /\ Goto(w, "spawn")
    /\ UNCHANGED <<disk, registry, home, creates, crashes, history>>

\* The host directories or the run log cannot be prepared: the record is left as
\* it was written, "starting".
PrepareFails(w) ==
    /\ At(w, "spawn")
    /\ "prepare_fails" \in Options
    /\ Return(w)
    /\ UNCHANGED <<disk, registry, guestVars, creates, crashes, history>>

Spawn(w) ==
    /\ At(w, "spawn")
    /\ \E g \in Guests :
          /\ proc[g] = "unborn"
          /\ home' = [home EXCEPT ![g] = thread[w].id]
          /\ proc' = [proc EXCEPT ![g] = "running"]
          /\ Become(w, [thread[w] EXCEPT !.pc = "insert", !.guest = g])
    /\ UNCHANGED <<disk, registry, creates, crashes, history>>

\* Seeded fault of SpawnFails: the failure is not recorded.
SpawnFailsUnrecorded(w) ==
    /\ At(w, "spawn")
    /\ Return(w)
    /\ UNCHANGED <<disk, registry, guestVars, creates, crashes, history>>

SpawnFails(w) ==
    /\ At(w, "spawn")
    /\ Write(w, "failed")
    /\ Return(w)
    /\ UNCHANGED <<registry, guestVars, creates, crashes, history>>

Insert(w) ==
    /\ At(w, "insert")
    /\ registry' = [registry EXCEPT ![thread[w].id] = thread[w].guest]
    /\ \/ "skip_adb_wait" \in Options /\ Goto(w, "skip_adb")
       \/ "wait_for_adb" \in Options /\ Goto(w, "adb_get")
    /\ UNCHANGED <<disk, guestVars, creates, crashes, history>>

\* skip_adb_wait: the guest counts as running as soon as it is registered.
SkipAdb(w) ==
    /\ At(w, "skip_adb")
    /\ Write(w, "running")
    /\ Goto(w, "watch")
    /\ UNCHANGED <<registry, guestVars, creates, crashes, history>>

\* adb answers: the end of wait_for_adb.
WriteRunning(w) ==
    /\ At(w, "running")
    /\ Write(w, "running")
    /\ IF thread[w].op = "WaitForAdb" THEN Return(w)
       ELSE \/ Goto(w, "watch")
            \/ "verify_boot" \in Options /\ Goto(w, "verify")
    /\ UNCHANGED <<registry, guestVars, creates, crashes, history>>

\* verify_boot_completed asks adb and the logs, never the handle.  If the marker does
\* not show up in time the guest stays registered, and has no watcher.
VerifyBoot(w) ==
    /\ At(w, "verify")
    /\ Goto(w, "watch") \/ Return(w)
    /\ UNCHANGED <<disk, registry, guestVars, creates, crashes, history>>

\* spawn_exit_watcher, and the answer of a successful start.
SpawnWatcher(w) ==
    /\ At(w, "watch")
    /\ LET g == thread[w].guest IN
          /\ thread' = [thread EXCEPT ![w] = Idle,
                           ![g] = [Idle EXCEPT !.pc = "wait_lock", !.id = thread[w].id,
                                               !.handle = g]]
    /\ lock' = [i \in Ids |-> IF lock[i] = w THEN None ELSE lock[i]]
    /\ idLock' = IF idLock = w THEN None ELSE idLock
    /\ UNCHANGED <<disk, registry, guestVars, creates, crashes, history>>

-----------------------------------------------------------------------------
(* wait_for_adb, on its own or inside start_instance                       *)

AdbRead(w) ==
    /\ At(w, "adb_read")
    /\ LET i == thread[w].id IN
          IF Has(i) THEN Copy(w, "adb_get", disk[i]) ELSE Return(w)
    /\ UNCHANGED <<disk, registry, guestVars, creates, crashes, history>>

\* A lost handle is a launch failure.
AdbGet(w) ==
    /\ At(w, "adb_get")
    /\ LET g == registry[thread[w].id] IN
          IF g = None THEN Goto(w, "record") ELSE Take(w, "adb_try", g)
    /\ UNCHANGED <<disk, registry, guestVars, creates, crashes, history>>

AdbTry(w) ==
    /\ At(w, "adb_try")
    /\ Observable(thread[w].handle)
    /\ IF proc[thread[w].handle] # "running"
       THEN CallRemove(w, "record", None)
       ELSE Take(w, "running", None) \/ Take(w, "adb_get", None)
    /\ UNCHANGED <<disk, registry, guestVars, creates, crashes, history>>

\* Seeded fault of AdbDeadline: the deadline is not looked at.
AdbDeadlineIgnored(w) ==
    /\ At(w, "adb_try")
    /\ Observable(thread[w].handle)
    /\ proc[thread[w].handle] = "running"
    /\ Take(w, "adb_get", None)
    /\ UNCHANGED <<disk, registry, guestVars, creates, crashes, history>>

\* adb does not answer and the deadline has passed.
AdbDeadline(w) ==
    /\ At(w, "adb_try")
    /\ Observable(thread[w].handle)
    /\ proc[thread[w].handle] = "running"
    /\ CallTerminate(w, "record", thread[w].md)
    /\ UNCHANGED <<disk, registry, guestVars, creates, crashes, history>>

\* record_launch_failure; a start then terminates what is still registered.
RecordFailure(w) ==
    /\ At(w, "record")
    /\ Write(w, "failed")
    /\ IF thread[w].op = "WaitForAdb" THEN Return(w)
       ELSE CallTerminate(w, "start_failed", None)
    /\ UNCHANGED <<registry, guestVars, creates, crashes, history>>

StartFailed(w) ==
    /\ At(w, "start_failed")
    /\ Return(w)
    /\ UNCHANGED <<disk, registry, guestVars, creates, crashes, history>>

-----------------------------------------------------------------------------
(* terminate_guest and GuestRegistry::remove_if_handle                     *)

\* Back to the caller of terminate_guest or remove_if_handle.
Resume(t, outcome) ==
    Become(t, [thread[t] EXCEPT !.pc = thread[t].ret, !.ret = None, !.handle = None,
                                !.exit = outcome])

\* No handle, nothing to terminate; otherwise SIGTERM, which a daemon that is root may
\* send to whatever sudo has become (GuestHandle.tla: SignalFails).
TermGet(w) ==
    /\ At(w, "term_get")
    /\ LET g == registry[thread[w].id] IN
          IF g = None THEN Resume(w, None) ELSE Take(w, "term_wait", g)
    /\ UNCHANGED <<disk, registry, guestVars, creates, crashes, history>>

\* wait_timeout(grace): the guest is gone, or the grace is over and SIGKILL sent, to the
\* direct child (sudo) alone.
TermWait(w) ==
    /\ At(w, "term_wait")
    /\ LET g == thread[w].handle IN
          /\ Observable(g)
          /\ \/ /\ proc[g] # "running"
                /\ CallRemove(w, thread[w].ret, Exit(g))
                /\ UNCHANGED proc
             \/ /\ proc[g] = "running"
                /\ \/ Killed({g})
                   \/ g \notin Unkillable /\ proc' = [proc EXCEPT ![g] = "left"]
                /\ Goto(w, "kill_wait")
    /\ UNCHANGED <<disk, registry, home, creates, crashes, history>>

\* wait_timeout(5 s): "still running after SIGKILL" is given up, as None.
KillWait(w) ==
    /\ At(w, "kill_wait")
    /\ LET g == thread[w].handle IN
          /\ Observable(g)
          /\ CallRemove(w, thread[w].ret, IF proc[g] = "running" THEN None ELSE Exit(g))
    /\ UNCHANGED <<disk, registry, guestVars, creates, crashes, history>>

\* remove_if_handle compares the handle, drops the map guard ...
RemoveCheck(t) ==
    /\ At(t, "remove")
    /\ IF registry[thread[t].id] = thread[t].handle
       THEN Goto(t, "remove_entry")
       ELSE Resume(t, thread[t].exit)
    /\ UNCHANGED <<disk, registry, guestVars, creates, crashes, history>>

\* ... and removes whatever is there then.
RemoveEntry(t) ==
    /\ At(t, "remove_entry")
    /\ registry' = [registry EXCEPT ![thread[t].id] = None]
    /\ Resume(t, thread[t].exit)
    /\ UNCHANGED <<disk, guestVars, creates, crashes, history>>

-----------------------------------------------------------------------------
(* stop_instance, hold_instance, deploy                                    *)

StopRead(w) ==
    /\ At(w, "stop_read")
    /\ LET i == thread[w].id IN
          IF Has(i) THEN CallTerminate(w, "stop_write", disk[i]) ELSE Return(w)
    /\ UNCHANGED <<disk, registry, guestVars, creates, crashes, history>>

\* Seeded fault of StopWrite: the exit, not the state it means, is written.
StopWriteRaw(w) ==
    /\ At(w, "stop_write")
    /\ Write(w, thread[w].exit)
    /\ Forget(w, "clean_kill")
    /\ UNCHANGED <<registry, guestVars, creates, crashes, history>>

StopWrite(w) ==
    /\ At(w, "stop_write")
    /\ Write(w, IF thread[w].exit = "failed" THEN "failed" ELSE "stopped")
    /\ Forget(w, "clean_kill")
    /\ UNCHANGED <<registry, guestVars, creates, crashes, history>>

StopIncomplete(w) ==
    /\ At(w, "stop_incomplete")
    /\ Write(w, "failed")
    /\ Return(w)
    /\ UNCHANGED <<registry, guestVars, creates, crashes, history>>

\* hold_instance and deploy: read the record, change a field, write it back.
UpdateRead(w) ==
    /\ At(w, "rmw_read")
    /\ LET i == thread[w].id IN
          IF Has(i) THEN Copy(w, "rmw_write", disk[i]) ELSE Return(w)
    /\ UNCHANGED <<disk, registry, guestVars, creates, crashes, history>>

UpdateWrite(w) ==
    /\ At(w, "rmw_write")
    /\ LET r == thread[w]
           hold == r.op = "Hold" IN
          /\ disk' = [disk EXCEPT ![r.id] = [r.md EXCEPT !.held = @ \/ hold]]
          /\ heldAcks' = IF hold THEN heldAcks \cup {r.md.created} ELSE heldAcks
    /\ Return(w)
    /\ UNCHANGED <<registry, guestVars, creates, crashes, destroyAcks>>

-----------------------------------------------------------------------------
(* destroy_instance: prepare_destroy, then finish_destroy in the background *)

\* Without a record a default one is made up.
PrepareRead(w) ==
    /\ At(w, "prep_read")
    /\ LET i == thread[w].id IN
          Copy(w, "prep_exists", IF Has(i) THEN disk[i] ELSE Unknown)
    /\ UNCHANGED <<disk, registry, guestVars, creates, crashes, history>>

\* Destroyed is written only if there is a file ...
PrepareExists(w) ==
    /\ At(w, "prep_exists")
    /\ IF Has(thread[w].id) THEN Goto(w, "prep_write")
       ELSE CallTerminate(w, "prep_kill", thread[w].md)
    /\ UNCHANGED <<disk, registry, guestVars, creates, crashes, history>>

\* ... which another thread may have removed or replaced by now.
PrepareWrite(w) ==
    /\ At(w, "prep_write")
    /\ Write(w, "destroyed")
    /\ CallTerminate(w, "prep_kill", thread[w].md)
    /\ UNCHANGED <<registry, guestVars, creates, crashes, history>>

PrepareKill(w) ==
    /\ At(w, "prep_kill")
    /\ Killed(Alive(thread[w].id))
    /\ Forget(w, IF thread[w].op = "Destroy" THEN "destroy_spawn" ELSE "clean_kill")
    /\ UNCHANGED <<disk, registry, home, creates, crashes, history>>

SpawnJob(w) ==
    /\ At(w, "destroy_spawn")
    /\ \E j \in Jobs :
          /\ At(j, "idle")
          /\ thread' = [thread EXCEPT
               ![j] = [Idle EXCEPT !.pc = "clean_kill", !.op = "finish", !.id = thread[w].id],
               ![w].pc = "destroy_wait", ![w].job = j]
    /\ UNCHANGED <<disk, registry, guestVars, lock, idLock, creates, crashes, history>>

\* The job's outcome arrives in time: "ok", or "destroy_incomplete".
DestroyReply(w) ==
    /\ At(w, "destroy_wait")
    /\ LET j == thread[w].job IN
          /\ At(j, "done")
          /\ thread' = [thread EXCEPT ![w] = Idle, ![j] = Idle]
          /\ destroyAcks' = IF thread[j].exit = "ok" THEN destroyAcks \cup {thread[w].md.created}
                            ELSE destroyAcks
    /\ lock' = [i \in Ids |-> IF lock[i] = w THEN None ELSE lock[i]]
    /\ UNCHANGED <<disk, registry, guestVars, idLock, creates, crashes, heldAcks>>

\* "destroy_timeout": the job goes on, the instance lock is released.
DestroyTimeout(w) ==
    /\ At(w, "destroy_wait")
    /\ "destroy_timeout" \in Options
    /\ Return(w)
    /\ UNCHANGED <<disk, registry, guestVars, creates, crashes, history>>

\* A job nobody waits for any more ends by itself.
JobEnds(j) ==
    /\ j \in Jobs /\ At(j, "done")
    /\ \A w \in Workers : thread[w].job # j
    /\ thread' = [thread EXCEPT ![j] = Idle]
    /\ UNCHANGED <<disk, registry, guestVars, lock, idLock, creates, crashes, history>>

-----------------------------------------------------------------------------
(* cleanup_host_state, for stop, finish_destroy and the exit watcher       *)

CleanKill(t) ==
    /\ At(t, "clean_kill")
    /\ Killed(Alive(thread[t].id))
    /\ Goto(t, "clean_collect")
    /\ UNCHANGED <<disk, registry, home, creates, crashes, history>>

\* Seeded fault of CleanCollect: survivors are not looked for.
CleanCollectBlind(t) ==
    /\ At(t, "clean_collect")
    /\ IF t \in Guests \/ thread[t].op = "Stop" THEN Return(t) ELSE Goto(t, "artifacts")
    /\ UNCHANGED <<disk, registry, guestVars, creates, crashes, history>>

\* collect_guest_pids, and what each caller does about survivors.  Before it
\* kill_open_file_holders kills whoever has a file of the instance open, perhaps a
\* guest that came after CleanKill: GuestExits, at any time.
CleanCollect(t) ==
    /\ At(t, "clean_collect")
    /\ LET gone == Alive(thread[t].id) = {} IN
          \/ t \in Guests /\ Return(t)
          \/ /\ t \notin Guests /\ thread[t].op = "Stop"
             /\ IF gone THEN Return(t) ELSE Goto(t, "stop_incomplete")
          \/ /\ t \notin Guests /\ thread[t].op # "Stop"
             /\ Goto(t, IF gone THEN "artifacts" ELSE "mark_read")
    /\ UNCHANGED <<disk, registry, guestVars, creates, crashes, history>>

\* finish_destroy is over, for a job or for the entry of a prune.
Finished(t, outcome) ==
    Become(t, [thread[t] EXCEPT !.pc = IF t \in Jobs THEN "done" ELSE "prune_next",
                                !.exit = IF t \in Jobs THEN outcome ELSE None,
                                !.id = None, !.md = None])

RemoveArtifacts(t) ==
    /\ At(t, "artifacts")
    /\ disk' = [disk EXCEPT ![thread[t].id] = None]
    /\ Finished(t, "ok")
    /\ UNCHANGED <<registry, guestVars, creates, crashes, history>>

\* mark_metadata_state(Failed), with a made-up record if there is none.
MarkRead(t) ==
    /\ At(t, "mark_read")
    /\ LET i == thread[t].id IN
          Copy(t, "mark_write", IF Has(i) THEN disk[i] ELSE Unknown)
    /\ UNCHANGED <<disk, registry, guestVars, creates, crashes, history>>

MarkWrite(t) ==
    /\ At(t, "mark_write")
    /\ Write(t, "failed")
    /\ Finished(t, "incomplete")
    /\ UNCHANGED <<registry, guestVars, creates, crashes, history>>

-----------------------------------------------------------------------------
(* prune_all_instances, prune_expired_instances: no lock is taken          *)

Scan(w) ==
    /\ At(w, "scan")
    /\ Become(w, [thread[w] EXCEPT !.pc = "prune_next", !.todo = {i \in Ids : disk[i] # None}])
    /\ UNCHANGED <<disk, registry, guestVars, creates, crashes, history>>

PruneEntry(w) ==
    /\ At(w, "prune_next")
    /\ \E i \in thread[w].todo :
          LET rest == [thread[w] EXCEPT !.todo = @ \ {i}]
              candidate == Has(i) /\ disk[i].state # "destroyed" /\ ~disk[i].held IN
          \/ candidate /\ Become(w, [rest EXCEPT !.pc = "prep_read", !.id = i])
          \/ ~candidate /\ Become(w, rest)
          \/ thread[w].op = "PruneExpired" /\ Become(w, rest)     \* too young
    /\ UNCHANGED <<disk, registry, guestVars, creates, crashes, history>>

PruneDone(w) ==
    /\ At(w, "prune_next")
    /\ thread[w].todo = {}
    /\ Return(w)
    /\ UNCHANGED <<disk, registry, guestVars, creates, crashes, history>>

-----------------------------------------------------------------------------
(* spawn_exit_watcher and handle_guest_exit; thread[g] is the watcher of g *)

WatchLock(g) ==
    /\ At(g, "wait_lock")
    /\ Goto(g, "wait")
    /\ UNCHANGED <<disk, registry, guestVars, creates, crashes, history>>

\* Seeded fault of WatchReturns: the handle is left in the registry.
WatchReturnsKeeps(g) ==
    /\ At(g, "wait")
    /\ proc[g] # "running"
    /\ Become(g, [thread[g] EXCEPT !.pc = "exit_read", !.exit = Exit(g)])
    /\ UNCHANGED <<disk, registry, guestVars, creates, crashes, history>>

WatchReturns(g) ==
    /\ At(g, "wait")
    /\ proc[g] # "running"
    /\ CallRemove(g, "exit_read", Exit(g))
    /\ UNCHANGED <<disk, registry, guestVars, creates, crashes, history>>

ExitRead(g) ==
    /\ At(g, "exit_read")
    /\ LET i == thread[g].id IN
          IF Has(i) THEN Copy(g, "exit_write", disk[i]) ELSE Return(g)
    /\ UNCHANGED <<disk, registry, guestVars, creates, crashes, history>>

\* Seeded fault of ExitWrite: what else runs under the id is not killed.
ExitWriteOnly(g) ==
    /\ At(g, "exit_write")
    /\ Write(g, IF thread[g].exit = "ok" THEN "stopped" ELSE "failed")
    /\ Return(g)
    /\ UNCHANGED <<registry, guestVars, creates, crashes, history>>

ExitWrite(g) ==
    /\ At(g, "exit_write")
    /\ Write(g, IF thread[g].exit = "ok" THEN "stopped" ELSE "failed")
    /\ Become(g, [Idle EXCEPT !.pc = "clean_kill", !.id = thread[g].id])
    /\ UNCHANGED <<registry, guestVars, creates, crashes, history>>

-----------------------------------------------------------------------------
\* A guest exits by itself, on SIGTERM, or killed for its open files: all of it, or the
\* direct child first.
GuestExits(g) ==
    /\ \/ /\ proc[g] = "running"
          /\ \E outcome \in {"ok", "failed", "left"} : proc' = [proc EXCEPT ![g] = outcome]
       \/ /\ proc[g] = "left"
          /\ proc' = [proc EXCEPT ![g] = "failed"]
    /\ UNCHANGED <<disk, registry, home, thread, lock, idLock, creates, crashes, history>>

\* The daemon is killed and started again: run() keeps nothing but the files.
\* Any of the guests may go with it.
Restart ==
    /\ crashes < MaxCrashes
    /\ crashes' = crashes + 1
    /\ registry' = [i \in Ids |-> None]
    /\ thread' = [t \in Threads |-> Idle]
    /\ lock' = [i \in Ids |-> None]
    /\ idLock' = None
    /\ \E S \in SUBSET {g \in Guests : proc[g] \in {"running", "left"}} : Killed(S)
    /\ UNCHANGED <<disk, home, creates, history>>

-----------------------------------------------------------------------------
WorkerStep(w) ==
    \/ Allocate(w) \/ AllocateFails(w) \/ MakeDir(w) \/ CreateWrite(w)
    \/ StartContains(w) \/ StartRead(w) \/ StartWrite(w) \/ Preflight(w)
    \/ PrepareFails(w) \/ Spawn(w) \/ SpawnFails(w) \/ Insert(w)
    \/ SkipAdb(w) \/ WriteRunning(w) \/ VerifyBoot(w) \/ SpawnWatcher(w)
    \/ AdbRead(w) \/ AdbGet(w) \/ AdbTry(w) \/ AdbDeadline(w)
    \/ RecordFailure(w) \/ StartFailed(w)
    \/ TermGet(w) \/ TermWait(w) \/ KillWait(w)
    \/ StopRead(w) \/ StopWrite(w) \/ StopIncomplete(w)
    \/ UpdateRead(w) \/ UpdateWrite(w)
    \/ PrepareRead(w) \/ PrepareExists(w) \/ PrepareWrite(w) \/ PrepareKill(w)
    \/ SpawnJob(w) \/ DestroyReply(w) \/ DestroyTimeout(w)
    \/ Scan(w) \/ PruneEntry(w) \/ PruneDone(w)

SharedStep(t) ==
    \/ RemoveCheck(t) \/ RemoveEntry(t)
    \/ CleanKill(t) \/ CleanCollect(t)
    \/ RemoveArtifacts(t) \/ MarkRead(t) \/ MarkWrite(t)

WatcherStep(g) == WatchLock(g) \/ WatchReturns(g) \/ ExitRead(g) \/ ExitWrite(g)

Next ==
    \/ \E w \in Workers : Request(w) \/ LockInstance(w) \/ LockId(w) \/ WorkerStep(w)
    \/ \E t \in Threads : SharedStep(t)
    \/ \E j \in Jobs : JobEnds(j)
    \/ \E g \in Guests : WatcherStep(g) \/ GuestExits(g)
    \/ Restart

Spec == Init /\ [][Next]_vars

\* A guest that was sent SIGTERM exits.
TermedExit(g) ==
    /\ \E w \in Workers : At(w, "term_wait") /\ thread[w].handle = g
    /\ GuestExits(g)

\* What a worker may miss and gets in the end: a lock that others take meanwhile, the
\* end of a loop.
Awaited(w) == LockInstance(w) \/ LockId(w) \/ AdbDeadline(w)

\* Threads are scheduled, tokio's mutexes are first come first served, deadlines
\* are reached, and guests obey SIGTERM.
FairSpec ==
    /\ Spec
    /\ \A w \in Workers : WF_vars(WorkerStep(w) \/ SharedStep(w)) /\ SF_vars(Awaited(w))
    /\ \A j \in Jobs : WF_vars(SharedStep(j) \/ JobEnds(j))
    /\ \A g \in Guests : WF_vars(WatcherStep(g) \/ SharedStep(g)) /\ WF_vars(TermedExit(g))

-----------------------------------------------------------------------------
Steps == {"idle", "lock", "id_lock", "allocate", "mkdir", "create_write", "contains",
          "start_read", "start_write", "preflight", "spawn", "insert", "skip_adb", "running",
          "verify", "watch",
          "adb_read", "adb_get", "adb_try", "record", "start_failed", "term_get", "term_wait",
          "kill_wait", "remove", "remove_entry", "stop_read", "stop_write", "stop_incomplete",
          "rmw_read", "rmw_write", "prep_read", "prep_exists", "prep_write", "prep_kill",
          "destroy_spawn", "destroy_wait", "done", "clean_kill", "clean_collect", "artifacts", "mark_read",
          "mark_write", "scan", "prune_next", "wait_lock", "wait", "exit_read", "exit_write"}

ThreadType ==
    [pc : Steps, op : Ops \cup {"finish", None}, id : Ids \cup {None},
     md : Metadata \cup {None}, guest : Guests \cup {None}, handle : Guests \cup {None},
     ret : {"record", "start_failed", "stop_write", "prep_kill", "exit_read", None},
     exit : {"ok", "failed", "incomplete", None}, job : Jobs \cup {None}, todo : SUBSET Ids]

TypeOK ==
    /\ disk \in [Ids -> Metadata \cup {None, EmptyDir}]
    /\ registry \in [Ids -> Guests \cup {None}]
    /\ home \in [Guests -> Ids \cup {None}]
    /\ proc \in [Guests -> {"unborn", "running", "left", "ok", "failed"}]
    /\ thread \in [Threads -> ThreadType]
    /\ lock \in [Ids -> Workers \cup {None}]
    /\ idLock \in Workers \cup {None}
    /\ creates \in 0 .. MaxCreates /\ crashes \in 0 .. MaxCrashes
    /\ heldAcks \subseteq 0 .. MaxCreates /\ destroyAcks \subseteq 0 .. MaxCreates

\* Two launch_cvd processes never run for one instance, but for those that survive
\* SIGKILL: a start kills what is left over, and nothing else can spawn in between, if
\* starts exclude each other (start_instance, dispatch).
OneLiveGuest == \A i \in Ids : Cardinality(Alive(i) \ Unkillable) <= 1

\* No guest runs for an instance whose directory is gone, where no request could
\* stop it (finish_destroy removes only after collect_guest_pids found nothing).
NoOrphanedGuest == \A i \in Ids : Alive(i) # {} => disk[i] # None

\* Threads that are inside the work on instance i.
Busy(i) == {t \in Threads : thread[t].id = i
                             /\ thread[t].pc \notin {"lock", "wait_lock", "wait"}}

\* Between requests, a record that says the guest is gone is right, whatever late
\* exit watchers have written over it: each of them also kills (stop_instance,
\* prepare_destroy, handle_guest_exit).
SettledStateTrue ==
    \A i \in Ids :
        Busy(i) = {} /\ Has(i) /\ disk[i].state \in {"stopped", "destroyed"}
            => Alive(i) \subseteq Unkillable

\* An instance is "starting" only while a start of it is under way: every way out
\* of start_instance writes another state, unless the host cannot be prepared.
StartingInProgress ==
    \A i \in Ids : Has(i) /\ disk[i].state = "starting" =>
        \E w \in Workers : thread[w].op \in {"Start", "CreateStart"} /\ w \in Busy(i)

\* Create-starts and destroys are answered, whatever they wait for (dispatch): id_lock,
\* which a create-start keeps through its adb wait, and the lock of the instance.  A
\* wait_for_adb may never be (PollersReturn of GuestHandle.tla), nor may the requests that
\* wait for the lock it holds.
RequestsAnswered == \A w \in Workers : ~At(w, "idle") ~> At(w, "idle")

\* The handle of a dead guest that has a watcher does not stay registered, where it
\* would make every start of the instance fail with "already running".  A guest whose
\* boot was not verified has none.
WatchedHandleCleared ==
    \A i \in Ids, g \in Guests :
        registry[i] = g /\ proc[g] # "running" /\ ~At(g, "idle") ~> registry[i] # g

\* "held instances will not be pruned" (cfctl/README.md:25).
HeldNeverPruned ==
    \A w \in Workers :
        At(w, "artifacts") /\ thread[w].op \in Pruning /\ Has(thread[w].id)
            => disk[thread[w].id].created \notin heldAcks

\* "destroy an instance and wait until cleanup has finished" (cfctl/README.md:21):
\* an instance whose destroy was answered ok is gone.
DestroyedStaysGone ==
    \A i \in Ids : Has(i) => disk[i].created \notin destroyAcks \ {0}
=============================================================================
