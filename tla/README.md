# fundroid: TLA+ models of the cfctl daemon and of the display test

fundroid boots Android images as Cuttlefish virtual devices on a Linux host and
grows a small replacement user space for them. This directory specifies and
checks its two concurrent parts: the `cfctl` daemon (`cuttlefish/cfctl/src/daemon`),
which owns the guests of a host, and the display test of the replacement user space:
a PID 1 (`qemu-init/init.zig`), a Wayland compositor and its test client
(`compositor-rs`).

- [Inventory](#inventory): the parts of the repository, their state and hazards
- [Modules](#modules): which module models which code, and how
- [Runs](#runs): what TLC checks, with which bounds, and what it shows
- [Fairness](#fairness)
- [Proofs](#proofs)
- [Where code and documents differ](#where-code-and-documents-differ)
- [Not modelled](#not-modelled) and [Plan](#plan)

To check: `tlc -config GuestHandle.cfg GuestHandle.tla`,
`tlc -config ManagerLocked.cfg MCInstanceManager.tla` and so on for the other
`.cfg` files (Dispatch.cfg with MCDispatch, Display*.cfg with DisplayTest),
`tlapm GuestHandleProofs.tla` and so on for the other `*Proofs.tla` and for
`InstanceManagerSteps.tla`, which hold the theorems.

## Inventory

### The cfctl daemon

`cfctl` sends one JSON request per connection to a Unix socket. Each connection
is a tokio task (`mod.rs` `handle_stream`); `dispatch` takes the locks a request
needs, and runs `InstanceManager::handle` on a blocking thread with a fresh
`InstanceManager`, whose only state is a cache of the metadata it has read.

| part | state | operations | shared with |
|---|---|---|---|
| `mod.rs` | `instance_locks` (id to mutex), `id_lock`, the trash directory | dispatch, lock, reclaim a lock, sweep | every request |
| `manager.rs` | `instances/<id>/metadata.json`, the allocation file, guest processes found by `pgrep` | create, start, stop, hold, deploy, destroy, wait-adb, prune, status, list, logs | all requests, exit watchers, destroy's background threads |
| `guest.rs` `GuestHandle` | a mutex around the `Child` and its exit status; the pid | `try_wait`, `wait`, `wait_timeout`, `signal` | the exit watcher, terminators, adb loops |
| `guest.rs` `GuestRegistry` | id to handle | insert, get, contains, `remove_if_handle` | all of the above |
| `util.rs`, `config.rs`, `protocol.rs`, `bin/cfctl.rs` | none that outlives a request | `tail_file`, parsing | |

What makes it hard. A request reads a record, works for up to minutes and writes
the record back whole. Requests for one instance exclude each other by a lock,
but three writers take none: the exit watcher of each guest, the background half
of a destroy that timed out, and the prunes; `create-start` starts an instance
with `id_lock` only. The lock itself gives way: `cleanup_instance_lock` counts the references
to an instance's mutex and removes it from the map in two steps (`mod.rs:263-268`), so that
two requests can hold different mutexes of one instance. Guests are killed by a pattern on the
instance id, not by handle. The daemon can be killed at any step while the guests live on, and its
registry is in memory only.

What makes it correct: one guest per instance; no guest without a directory by
which a request can reach it; a record that says a guest is gone is right; a
record does not stay "starting"; a request is answered; a dead guest's
handle leaves the registry; threads that share a guest agree on its exit; holds
and destroys that were answered stay in force.

### The other parts

- `qemu-init/init.zig`: PID 1 of a QEMU guest. Globals written by a SIGCHLD
  handler and read by a heartbeat loop that respawns a child three times; a
  compositor mode that forks two processes and reports the client's exit code. Hard:
  the handler against the main flow, both of which wait for children. Correct: the
  code is the client's, no zombie stays, a shutdown and a test end.
- `compositor-rs/src/main.rs`: a Wayland compositor on DRM, one thread for 60
  seconds. Maps from protocol ids to surfaces, pools and buffers, with the pending
  frame callback of a surface; a commit copies the picture and answers the callback.
  Hard: what order the requests come in, ids of several clients. Correct: what is
  committed is shown before the callback says so.
- `compositor-rs/src/bin/test-client.rs`: connects, shows a gradient, waits five
  seconds for its frame callback, then redraws on keys. Hard: what its library has
  sent and read at each point. Correct: its success is true, it ends, it draws in
  memory it has.
- `scripts/cpio_edit.py`: edits a newc archive. Hard: alignment, duplicates, inodes.
- `daemon/util.rs` `tail_file`: reads a file backwards in blocks.
- `heartbeat-init/*.c`, `init/*.c`: straight-line init programs.
- `rust/drm_rect`, `qemu-init/drm_rect.zig`: device ioctls.
- `scripts/*.sh`, `.github`, `cuttlefish/modules`, `cuttlefish/packages`: drivers,
  packaging and host configuration.

## Modules

**ExitCell** is what a guest handle promises to the threads that share it: the
exit is learnt once, and every thread that is told an exit is told that one.

**InstanceLock** is what the lock of an instance promises to requests: a handler that is
`inside` for an instance is the `owner` of its lock from Enter to Leave, and a lock
has one owner. A lock can be revoked (Revoke, EnterRevoked), which leaves its owner inside as one of
the `strays`. Dispatch implements it with the strays that `cleanup_instance_lock` makes, and
with none as long as no mutex in use is reclaimed.

**GuestHandle** models `guest.rs`'s `GuestHandle` and the loops that use one.
`mutex`, `child` and `exit` are the `Mutex<ChildState>`; `proc` and `status` are
the process as the kernel sees it (running, zombie, reaped); `pc` is where each
thread is. `try_wait` holds the mutex for one `waitpid(WNOHANG)` and is one step;
`wait` keeps it across the blocking `waitpid` and is two (WaitLock, WaitReturns).
SignalFails is the error of `kill` other than ESRCH, which ends a `terminate_guest`. An error
of `waitpid` cannot occur while the Child is there: it is the daemon's own, unreaped child.
Terminators run `terminate_guest`, pollers the loop of `wait_for_adb`, watchers
`spawn_exit_watcher`. It implements ExitCell with `cell <- exit`, `told <- answer`.

**GuestHandleProofs** holds its theorems.

**InstanceManager** models `manager.rs` with the locks of `mod.rs` and the
registry of `guest.rs`. `disk` is the metadata file of each instance (or
`EmptyDir`, a directory without one, or `None`); `registry` the handles; `home`
and `proc` the guest processes; `lock` and `idLock` the guards. A `thread` record
has its step `pc`, the request `op` and instance `id`, its copy `md` of the record,
the guest or handle it works on, and, for the two subroutines that several
handlers call (`terminate_guest`, `remove_if_handle`), where to continue. Threads
are request handlers (`Workers`), background halves of destroy (`Jobs`) and exit
watchers; a watcher is named after its guest. Each action is one access to shared
state and the local code up to the next.

| code | actions |
|---|---|
| `dispatch` | Request, LockInstance, LockId |
| `create_instance`, `allocate_id` | Allocate, AllocateFails, MakeDir, CreateWrite |
| `start_instance` | StartContains, StartRead, StartWrite, Preflight, PrepareFails, Spawn, SpawnFails, Insert, WriteRunning, SpawnWatcher, StartFailed |
| `wait_for_adb`, `record_launch_failure` | AdbRead, AdbGet, AdbTry, AdbDeadline, WriteRunning, RecordFailure |
| `terminate_guest`, `remove_if_handle` | TermGet, TermWait, KillWait, RemoveCheck, RemoveEntry |
| `stop_instance` | StopRead, StopWrite, StopIncomplete |
| `hold_instance`, `deploy` | UpdateRead, UpdateWrite |
| `destroy_instance`, `prepare_destroy`, `finish_destroy` | PrepareRead, PrepareExists, PrepareWrite, PrepareKill, SpawnJob, DestroyReply, DestroyTimeout, JobEnds, RemoveArtifacts |
| `cleanup_host_state`, `mark_metadata_state` | CleanKill, CleanCollect, MarkRead, MarkWrite |
| `prune_all_instances`, `prune_expired_instances`, `prune_instance` | Scan, PruneEntry, PruneDone and destroy's steps |
| `spawn_exit_watcher`, `handle_guest_exit` | WatchLock, WatchReturns, ExitRead, ExitWrite |
| a guest's exit; a restart of the daemon | GuestExits; Restart |

Abstractions. Images, ports, times and host directories are left out, as no
decision above reads them, except that a prune may find a record too young;
`created` is the number of the create a record comes from. A write of the metadata
(temporary file, rename) is one step. `kill_guest_processes` and
`collect_guest_pids` are exact for an id: the patterns of an id whose digits begin
another id's match that one's processes too, and the ids here do not.
`kill_open_file_holders`, which kills whoever has files of an instance open, is one of the
reasons for GuestExits. A handle's process is `sudo`; a SIGKILL for it may leave the guest
running (`proc` is then "left") until it is killed by its id. The daemon runs as root
(`notes/experiment-2-guest-exit-analysis.md:95`), so that its signals are delivered. A handle's mutex is the guard `Observable`.
Failures of the daemon's own file operations are left out but for those that end
a start before the guest is spawned. Two variables, `heldAcks` and `destroyAcks`,
record which holds and destroys were answered; no action reads them.

*The lock of an instance.* What `cleanup_instance_lock` does to it is the option
"lock_reclaimed": with it a request may pass LockInstance while another is inside,
without it the lock is exclusive. Dispatch shows when the code takes the one way
and when the other, and ExclusiveLock proves that it is exclusive while no mutex in use is
reclaimed. The run manager_prune has the option. Without it are the runs manager_locked, manager_crash and
manager_live, and, by the hypothesis `LockKept`, the theorems about starts, holds, deploys and
removals under the lock of the instance. They are about the daemon as long as that race does
not occur: if it does, two starts both pass preflight and both spawn.

**InstanceManagerSteps** holds the lemmas on what one step of a thread does to that thread's
record; **InstanceManagerProofs** extends it with the types, the locks and OneGuestLives;
**InstanceManagerRecordProofs** extends that with the theorems about records and directories.

**Dispatch** is the detailed version of the locks of InstanceManager.
`map` is `instance_locks`, `holder` each mutex's owner, `arc` the reference a task
has to one (so that `strong_count` is 1 and the number of those), `idHolder`
`id_lock`; `dirs` and `next` are the instance directories and the allocation file.
LockEntry, Acquire, HandlerReturns, HandlerFails, CleanupGet and CleanupRemove are
`lock_instance`, `dispatch` and the two looks of `cleanup_instance_lock` at the map;
LockId to CreateReturns are `create_instance` with the scan of `allocate_id`, one
candidate a step; RemoveArtifacts is any destroy or prune, at any time; WriteRemoved is the
`create_dir_all` of `write_metadata` by a thread without `id_lock` that had read the record before the
removal (an exit watcher, a timed-out destroy, a prune or a start), which brings the directory
back; Restart kills the daemon between any two steps. `seen`, `failed`, `reclaimed`, `removed`
and `revived` are history. It
implements InstanceLock: inside are the tasks in a handler, the owner of an instance is the
holder of the mutex that `map` has for it, and strays are the tasks in a handler whose mutex
was reclaimed.
**MCDispatch** adds symmetry; **DispatchProofs** holds the theorems.

**Compositor** is the state of `main.rs` and one operator per request that changes it;
who sends the requests is left to the modules that use it. **CompositorClients** has
clients that send the requests the protocol allows that bear on what is shown: surfaces, pools
and buffers made, attached, detached, committed and destroyed, with ids that each client
chooses for itself and uses again; **CompositorProofs** the theorem about one client.

**QemuInit** is PID 1 and what the kernel knows of its children: `proc`, `status`, a
pending SIGCHLD, pending fatal signals. HandleSignal runs before any step of the main
flow for which a signal is pending, and between a `waitpid` that another child's end
has interrupted and its repetition; a blocked `waitpid` has its child before the
handler does. **DisplayTest** extends it with the compositor's loop (`server`,
Compositor's state), the client (`app`) and the socket between the two: `out` and
`replies` are what each side has queued, `requests` and `events` what is in the socket.
**DisplayTestProofs** holds the theorems about PID 1, the client and the compositor.

| code | actions of QemuInit and DisplayTest |
|---|---|
| `main`, gfx=compositor-rs | ForkCompositor, ForkCompositorFails, ForkClient, ForkFails, WaitBlocks, WaitCall, Interrupted, WaitFails, Kill, Proceed |
| `spawnChild`, heartbeat, shutdown | ForkChild, SetChildPid, ClearExited, LoopHead, LoopBody, ShutdownCheck, KillChild, Halt |
| `handleSignal` | HandleSignal, RequestShutdown |
| compositor `main` | Setup, SetupFails, Accept, DispatchClients, PoolFails, FlushClients, FlushFails, ReadInput, TimeUp |
| test client | Connect, ConnectFails, Globals, Submit, SubmitFails, AwaitFlush, ReadEvents, AwaitTimeout, HungUp, Unmap, Interactive |

Abstractions. A picture is whose memory it shows, and whether all of it is copied.
Time is left out: a timeout may be found expired whenever it is looked at. One key is
enough for a redraw. A `dup` that fails in `create_pool` makes the handler return without
initialising the new object; the Wayland library panics then (PoolFails, external). Zig's `std.os.linux` functions return the raw result as a `usize`,
as `init.zig:18`, 44 and 305 decode it with `E.init`; so `pid <= 0` and `pid < 0` are
`pid == 0` and false, and `@intCast` of an error panics in the ReleaseSafe build. The
machine has one CPU (`run.sh` gives no `-smp`).

**MCInstanceManager** adds symmetry and, for runs whose properties do not mention
the history variables, a view without them. The runs manager_crash, manager_prune and
manager_live send no hold and no deploy. A thread then only tests its copy of a record against
`None` and writes it with a new state; of that state a prune asks whether it is "destroyed",
and nobody asks anything else; how a guest has exited is only written into a record. Their view
`NoCopies` leaves out what is not asked for. Two states with one view therefore have the same steps,
to states with one view, and a fair step always changes the view, so that a fair behaviour
of the one is a fair behaviour of the other: the view is sound for the safety and the liveness properties
of these runs, none of which mentions what it leaves out.

Operators called "Seeded fault of X" are variants of the action X with a bug; no
specification uses them. Each property of a passing run is broken by one of them.

## Runs

| run | configuration | shows |
|---|---|---|
| guest_handle | GuestHandle.cfg | one watcher, two terminators and an adb loop agree on a guest's exit, none is refused it (`guest.rs:109` is unreachable), no reaped pid is waited for, ExitCell is implemented; terminators and watchers end |
| guest_handle_wait_adb | GuestHandleWaitAdb.cfg | PollersReturn fails: see below |
| manager_locked | ManagerLocked.cfg | every request that takes the instance lock (not reclaimed), two clients, two guests of which one survives SIGKILL: no orphaned guest, settled records are true, no record is left "starting" |
| manager_crash | ManagerCrash.cfg | one killable guest at most is alive under starts, stops and destroys, though the daemon may be restarted at any step and a timed-out destroy goes on unlocked; the lock is not reclaimed |
| manager_prune | ManagerPrune.cfg | the same with prunes (no lock) and create-starts (`id_lock`), and stops and destroys whose lock may have been reclaimed; the id is used twice |
| manager_live | ManagerLive.cfg | two create-starts that wait for each other at `id_lock`, adb wait and boot verification included, and destroys that wait for the lock of the instance are answered, whichever way the start ends; the handle of a dead guest that has a watcher leaves the registry, with two guests of one instance after each other |
| dispatch | Dispatch.cfg | a create takes an existing directory only if an unlocked writer has brought it back under the create, "no available instance slots" is true, no lock entry is left over, two handlers of an instance run at once only after a reclaim of a mutex in use; InstanceLock is implemented |
| display | DisplayTest.cfg | a success of the client means its picture was shown; no drawing in unmapped memory; PID 1 reads the client's code; no zombie is forgotten; the client ends |
| display_exits | DisplayExits.cfg | InitEnds fails: see below |
| compositor_clients | CompositorClients.cfg | ShowsCommitter fails: see below |
| held_pruned | ManagerHeldPruned.cfg | HeldNeverPruned fails: see below |
| destroyed_returns | ManagerDestroyedReturns.cfg | DestroyedStaysGone fails: see below |

Bounds of the manager. All its runs have one instance: instances share nothing
that the model keeps but `id_lock` and the prune loop. Two request handlers are enough for every race
between two requests; a third party is always there, the exit watcher or the
background job. Two guests are enough for "an old guest against a new one".
`MaxCreates` is 2 where an id is used again or two creates contend, and 1 elsewhere; `MaxCrashes` is 1.
`Jobs` bounds the background threads: a destroy waits for a free one, which the
code need not. manager_live has no symmetry.

What manager_live leaves out. It sends create-starts and destroys, which are the requests that
wait for something other than a lock while they hold one: adb, a guest, the background thread.
*wait-adb* is not among them: it need not be answered, as guest_handle_wait_adb shows, and a request
behind it waits with it. Nor is *start together with create-start*, or a *reclaimed lock*: two
starts of one instance may then both spawn, and the adb wait of the one takes from the registry
the handle of the other's guest, whose watcher waits with the handle's mutex held; it is
not answered as long as that guest runs. That these races spawn two guests is the
subject of the hypotheses below. Starts, stops, holds and deploys under the lock of the
instance and prunes run through the same steps, or through a few that wait for nothing;
the safety runs have them, this one has not. WatchedHandleCleared is not claimed for a guest whose boot was not verified (`manager.rs:1022`):
that one has a handle and no watcher, and its handle stays until a stop, destroy or prune
removes it. manager_live allows such guests, beside one that is watched.

The settled states are "stopped" and "destroyed". "created" is not among them: a
create writes its record without the instance lock, and a late exit watcher can
have put back the record of the destroyed predecessor, which a start may have used
in between.

Bounds of Dispatch. One instance that requests name, since the entries of two share
nothing; three tasks, so that one can take a mutex, one reclaim it and one take the
next; four mutexes, since three may be held and one be new. Three slots make the scan
begin before, at and behind a free one, with a file that holds 0, a number above the
slots or junk. The theorems have no such bounds.

Bounds of the display test. None but the program's own: one compositor, one client, one
test child and the code's three respawns. CompositorClients has two clients with the
same ids, the least that can disagree.

## Fairness

GuestHandle: each thread is scheduled (weak fairness of its steps) and time passes,
so a deadline is reached; a signal that ends the guest ends it in the end. Nothing
makes adb answer. InstanceManager: weak fairness of each thread; tokio's mutexes
queue their waiters, so a handler that waits gets its lock though others come and
go (strong fairness of LockInstance, LockId); the adb loop's deadline passes (strong
fairness, since the loop leaves and enters that step); a guest that was sent SIGTERM
exits. Clients need not send anything, guests need not exit, and no crash is
assumed or excluded. A guest that ignores SIGTERM is outside manager_live: then
a destroy may hang, which is the second consequence below.

DisplayTest: PID 1, the compositor and the client are scheduled (weak fairness), the
compositor's fatal signal is delivered, and the compositor finds its 60 seconds over
at last (strong fairness of TimeUp, since its loop leaves and enters that step). No
key need be pressed, no shutdown requested, and the test child need not end.

## Proofs

`GuestHandleProofs.tla` proves for every set of watchers, terminators, pollers and
statuses, assuming only that the three roles are disjoint and the two null values
are distinct from threads and statuses (RolesAssumption):

- TypeCorrect, NeverAwaitedTwice, CachedExitTrue, ObserversAgree, WaitpidFresh:
  the invariants of the run guest_handle;
- Refinement: `Spec => Cell!CellSpec`, every step of the handle is a step of the
  write-once cell or leaves it alone.

The invariants are not inductive alone: that nobody is refused the exit needs that
the Child is gone only while its taker holds the mutex or when the exit is cached.
The inductive invariant IInv adds MutexInv (the holder is the one thread inside
`waitpid`), ChildInv (where the Child is), ProcInv (reaped exactly when the exit is
cached, and the status is then fixed) and AnswerInv (a thread has been told an exit
only if it is the cached one). TryWaitFacts says once what a `try_wait` does to it;
StepIInv goes through the actions; StepRefines maps each step to the cell.

`DispatchProofs.tla` proves for every set of tasks and mutexes, every number of slots and
every set of named instances: TypeCorrect, CreatesFresh, FullIsFull, LocksFreed and
Exclusion, the five invariants of the run dispatch, from one inductive invariant
(Invariance). What it adds to them: the holder of `id_lock` is the one task in a create,
and outside of it directories only go away, or come back after a removal, which `revived` remembers
if a create had taken the id for free, so that a slot seen free stays free or is revived until
it is taken; the slots a scan has seen are the ones its candidate has passed, modulo the number of
slots; a task's reference is to the mutex in the map unless that was reclaimed; and the
last task to leave finds the count at 1, which is what frees the entry; and a mutex is held
only by the task that has the reference and is in the handler.

Two more theorems say what dispatch provides:

- LockRefinement: `Spec => Lock!LockSpec`. LockEntry, CleanupGet and the steps of a create
  change none of what InstanceLock sees; Acquire is Enter, or EnterRevoked when the task waited for
  a mutex that has left the map; the end of a handler is Leave; CleanupRemove is Revoke when the
  mutex it removes is held, and a stutter when it is free.
- ExclusiveLock: `Spec /\ [](reclaimed = {}) => Exclusive!LockSpec`, where Exclusive is the
  same specification with no strays. The hypothesis is about each behaviour, and many
  satisfy it: `reclaimed` gets a mutex only if a task asks for it between the two looks of
  another at the map. The run dispatch has behaviours of both sorts.

`CompositorProofs.tla` proves OneClientShown: with one client, whatever surfaces, pools
and buffers it makes and however it uses their ids again, a commit shows its picture.
The inductive invariant relates the compositor's maps to what the client has; with two
clients it is false, and compositor_clients shows how.

### The instance manager

The theorems hold for every set of instances, handlers, jobs and guests and every bound on
creates and restarts. ManagerAssumption asks that the kinds of threads are disjoint, that
`None` and `EmptyDir` are neither ids, threads, records nor requests, and that the
operations, options and unkillable guests are some of those the model knows.

| theorem | states | holds if |
|---|---|---|
| TypeCorrect | TypeOK | always |
| OneGuestLives | OneLiveGuest | OneLock: there are no starts but create-starts; or no create-starts, and LockKept |
| SettledIsTrue | `crashes = 0 => SettledStateTrue` | UpdatesLocked: no hold and no deploy; or no create-start, and LockKept |
| StartingGoesOn | `crashes = 0 => StartingInProgress` | UpdatesLocked, and a start's preparations do not fail |
| NoGuestOrphaned | NoOrphanedGuest | RemovalLocked: no prune, no create-start, a destroy is waited for, and LockKept |

LockKept: no mutex of an instance lock is reclaimed while in use. The code does not ensure
it (`mod.rs:263-268`); the models and theorems say what depends on it.

The hypotheses are races of the code, not conveniences: without any one of them TLC finds
the property violated with two handlers and two guests, if a configuration of
MCInstanceManager allows it in `Ops`, `Options` or `MaxCrashes`. A start (instance lock) and a
create-start (`id_lock`), or two starts whose lock was reclaimed, both pass `preflight_cleanup` and both spawn. A hold has copied
"stopped" when a create-start, or a start past a reclaimed lock, starts the guest, and writes it back. A
`prepare_host_directories` that fails leaves "starting" on disk with nobody to change it.
A daemon killed in the middle of a stop or a start leaves the record as it is. A prune, or
the background half of a destroy that was not waited for, removes the directory while a
start is between its read of the record and its spawn. Restarts are excluded from the two theorems about records only;
within RemovalLocked no guest is orphaned though the daemon be killed at any step.

The argument goes in layers. ControlInv says for each kind of thread and each request which
steps it may be at and what its record holds there (whose copy, which handle, where a
subroutine returns to): the types depend on it, since a step reads fields that are
meaningful only on the path that leads to it. The step lemmas turn each update of a thread's
record into facts about its fields, once, so that the later proofs go by what a step may do to
each variable (who spawns, who writes a record, who enters "spawn") and not by its text.
BornInv says that a guest some thread or the registry names has been spawned. With these,
Inv is inductive. LockInv adds that under LockKept a request past its lock is the holder; OwnInv that the
guest of a start has no watcher yet and no other start.

- *One live guest.* SpawnInv: when a start is about to spawn, all that lives of its instance
  is unkillable. Preflight makes it true; under OneLock nobody else can spawn in between.
- *Records.* A record is not true at each moment. Right(i) is what is kept: no killable guest
  of `i` runs, or some thread is on its way to kill them or to write what became of them
  (Corrected). A record that says stopped or destroyed is Right, and so is a copy that will be
  written back (CopyInv); the latter is what UpdatesLocked is for. When the instance is idle no
  thread is left to correct the record, so that it is true. "starting" goes the same way,
  with Beginning for Corrected.
- *Directories.* A job that cleans up has the request that started it waiting with the lock
  (WaiterInv), so no start is about to spawn; when it removes the directory nothing lives
  (EmptyInv), and who is about to spawn has a directory (PresentInv).

### PID 1 and the display test

`DisplayTestProofs.tla` has no parameter but `None`, which must be no child, exit status or
object (NoneAssumption, ObjectsAssumption); its theorems are about every
interleaving of PID 1, the kernel, the compositor and the client.

- CodeTrue and NoZombieForgotten need to know of PID 1 and its children only. Pid1Inv adds to
  them that PID 1 has the client's status from the return of its `waitpid` on (WaitInv) and
  that a child that has ended has a status (StatusKnown): else the code PID 1 takes over
  from `waitpid` need not be one.
- TypeCorrect, SuccessShown and MappedDrawn. The client sends one batch of six requests. QueueInv
  says what is on its way at each step of the client: what is left in the socket is the end
  of that batch. ServerInv says what the compositor has, by how much of the batch is handled, so
  that the commit finds buffer, pool and callback. ShownInv says that the callback follows
  the picture, and that the seat's capabilities reach the client together with it, not
  before; NoKeys, that therefore no keyboard is asked for and no redraw happens.

Model-checked only: liveness, which is out of the prover's reach (RequestsAnswered,
WatchedHandleCleared, TerminatorsReturn, WatchersLearn, ClientEnds). Every invariant
that a run checks is also proved, under the hypotheses above. There is no induction over data
and no recursive operator in the project.

## Where code and documents differ

1. `cuttlefish/cfctl/README.md:34` calls `--timeout-secs` a hard ceiling of
   `wait-adb`. `GuestHandle::wait` holds the handle's mutex for as long as the guest
   runs (`guest.rs:95`), so a `wait-adb` after a successful start, as `scripts/ci.sh`
   does one, blocks in `try_wait` and never looks at its deadline
   (guest_handle_wait_adb). For the same reason `terminate_guest` does not get from
   SIGTERM to SIGKILL for a guest that ignores SIGTERM: `stop` and `destroy` wait with it.
2. `README.md:25`: held instances will not be pruned. `prune_all_instances` tests
   `held` without a lock and does not test it again (held_pruned).
3. `README.md:21`: destroy waits until cleanup has finished. The exit watcher of the
   guest that the destroy terminates may have read the record before the destroy wrote
   it; its write puts the record and its directory back (destroyed_returns). In the
   same way it undoes a hold.

4. `compositor-rs/README.md:200`: the design supports multiple clients. The maps of
   `main.rs` have a client's object ids as keys, and two clients use the same ids: the
   second's pool, buffer or attachment replaces the first's (compositor_clients).
5. `compositor-rs/README.md:273`: the init system exits with code 0 on success. The loop of
   its SIGCHLD handler ends at `pid <= 0` (`init.zig:58`), and `pid` is a `usize`: when the
   last child has ended, `waitpid` returns ECHILD, the loop goes on for ever, and PID 1 is
   never back in its main flow (InitEnds, display_exits; the code has been printed by then). For
   the same reason no test child is ever respawned, though `run.sh:115` expects it. The
   comment at the loading of the modules, "no fork to avoid signal handler issues", may
   be about this.

6. `qemu-init/test-shutdown.sh:34-44` looks for "[SHUTDOWN] Received SIGTERM" and "Unmounting"
   after a SIGTERM, and `compositor-rs/README.md:274` calls the shutdown clean. The same
   loop catches PID 1 when its test child has ended, before the SIGTERM or because of the one
   that the shutdown sends it (`init.zig:510`): nothing is unmounted, unless the child has not
   ended by the time PID 1 goes on (the other half of InitEnds: the left side of its leads-to is
   the end of 5 or of 6, and TLC refutes it with either alone).

Two more that no run shows as a violation: the interactive mode of the test client says
"Press keys in the QEMU window!", but `dispatch_pending` does not read the socket and the
request for the keyboard is never sent, so no key arrives (which is why
NeverDrawsUnmapped holds: the redraw would write to memory unmapped before); and a client that
ends before PID 1 has called `waitpid` is reported with code 0 (CodeTrueUnlessLost).

## Not modelled

Read-only requests (status, describe, list, logs) change nothing; the env file,
network devices, host directories and the trash are effects no decision reads back.
`verify_boot`'s log scan is the choice whether it fails. The shared temporary file of
unlocked metadata writers, and kill patterns that match several ids, are hazards without
a property (PROJECT.json says why). The `cfctl` client sends one request per connection
and never retries; the configuration is input. PID 1's mounts, module loading and the
mode drm_rect run once, in a straight line. `tail_file` and the cpio editor are pure
functions of bytes; device ioctls, image building, shell drivers and packaging have no
state a model checker reaches.

## Plan

What would come next, in this order:

1. Instances whose kill patterns overlap, as a second set of runs of InstanceManager.
2. The write of a record as two steps (temporary file, rename) with the unlocked writers.
3. Liveness of Dispatch's locks under tokio's queues.
