------------------------------- MODULE Dispatch -------------------------------
(***************************************************************************)
(* The locks of the cfctl daemon and the allocation of instance ids        *)
(* (cfctl/src/daemon/mod.rs dispatch, lock_instance,                       *)
(* cleanup_instance_lock; manager.rs allocate_id, create_instance).        *)
(*                                                                         *)
(* The lock of an instance is a mutex that lives as long as someone has a  *)
(* reference to it: the map of the daemon, which gets the mutex when the   *)
(* first request comes and gives it up when the last one goes, or a        *)
(* request that waits for it or holds it.  Creates take one lock for all   *)
(* and look for a free id from the number in the file "next" on.           *)
(*                                                                         *)
(* Abstracted: what a handler does besides that (InstanceManager.tla); the *)
(* advisory lock on the file, which creates of one daemon take under       *)
(* id_lock; input and output errors.                                       *)
(***************************************************************************)
EXTENDS Naturals

CONSTANTS Slots,     \* the number of instance ids, 99 in the code
          Targets,   \* the ids that requests name
          Workers,   \* tasks that serve a connection
          Mutexes,   \* addresses of the allocated mutexes
          None,      \* Option::None
          Junk       \* a file content that does not parse, the empty one included

Ids == 1 .. Slots

ASSUME DispatchAssumption ==
    /\ Slots \in Nat \ {0} /\ Targets \subseteq Ids
    /\ Mutexes \subseteq Nat
    /\ None \notin Nat \cup Workers /\ Junk \notin Nat

VARIABLES map,        \* instance_locks: the mutex of each id
          holder,     \* the worker that has each mutex locked
          idHolder,   \* the worker that has id_lock locked
          dirs,       \* the ids with a directory under instances/
          next,       \* content of the file with the next id
          pc, id,     \* the step of each worker, and the id it works on
          arc,        \* the mutex a worker has a reference to
          candidate, tried,  \* the scan of allocate_id: where, after how many
          seen,       \* history: the ids this scan found occupied
          failed,     \* history: ids one of whose requests failed since the insertion
          reclaimed,  \* history: mutexes removed from the map while referenced
          removed,    \* history: ids whose directory this daemon has removed, while it is gone
          revived     \* history: ids a create took for free that have a directory again

locks == <<map, holder, idHolder>>
files == <<dirs, next>>
scan == <<candidate, tried, seen>>
history == <<failed, reclaimed>>
ghosts == <<removed, revived>>
vars == <<locks, files, pc, id, arc, scan, history, ghosts>>

Init ==
    /\ map = [i \in Ids |-> None]
    /\ holder = [m \in Mutexes |-> None]
    /\ idHolder = None
    /\ dirs = {}
    /\ next \in 0 .. Slots + 1 \cup {Junk}
    /\ pc = [w \in Workers |-> "idle"]
    /\ id = [w \in Workers |-> None]
    /\ arc = [w \in Workers |-> None]
    /\ candidate = [w \in Workers |-> 0]
    /\ tried = [w \in Workers |-> 0]
    /\ seen = [w \in Workers |-> {}]
    /\ failed = {} /\ reclaimed = {} /\ removed = {} /\ revived = {}

-----------------------------------------------------------------------------
\* Arc::strong_count of a mutex that is in the map is 1 + the number of these.
Referrers(m) == {w \in Workers : arc[w] = m}

Goto(w, from, to) == pc[w] = from /\ pc' = [pc EXCEPT ![w] = to]

\* Requests that name an instance take its lock, creates take id_lock.
Request(w) ==
    /\ \/ /\ Goto(w, "idle", "entry")
          /\ \E i \in Targets : id' = [id EXCEPT ![w] = i]
       \/ /\ Goto(w, "idle", "id_lock")
          /\ UNCHANGED id
    /\ UNCHANGED <<locks, files, arc, scan, history, ghosts>>

-----------------------------------------------------------------------------
(* lock_instance and cleanup_instance_lock                                 *)

\* An address nobody refers to.
Fresh(m) ==
    /\ Referrers(m) = {} /\ \A i \in Ids : map[i] # m
    /\ \A k \in Mutexes : k < m => Referrers(k) # {} \/ \E i \in Ids : map[i] = k

\* Seeded fault of LockEntry: it does not look whether the entry is there.
LockEntryInserts(w) ==
    /\ Goto(w, "entry", "acquire")
    /\ \E m \in Mutexes :
          /\ Fresh(m)
          /\ map' = [map EXCEPT ![id[w]] = m]
          /\ failed' = failed \ {id[w]}
          /\ reclaimed' = reclaimed \ {m}
          /\ arc' = [arc EXCEPT ![w] = m]
    /\ UNCHANGED <<holder, idHolder, files, id, scan, ghosts>>

\* entry(): the mutex of the instance, inserted if there is none.
LockEntry(w) ==
    /\ Goto(w, "entry", "acquire")
    /\ \E m \in Mutexes :
          /\ \/ /\ map[id[w]] = m
                /\ UNCHANGED <<map, history>>
             \/ /\ map[id[w]] = None /\ Fresh(m)
                /\ map' = [map EXCEPT ![id[w]] = m]
                /\ failed' = failed \ {id[w]}
                /\ reclaimed' = reclaimed \ {m}
          /\ arc' = [arc EXCEPT ![w] = m]
    /\ UNCHANGED <<holder, idHolder, files, id, scan, ghosts>>

Acquire(w) ==
    /\ Goto(w, "acquire", "handler")
    /\ holder[arc[w]] = None
    /\ holder' = [holder EXCEPT ![arc[w]] = w]
    /\ UNCHANGED <<map, idHolder, files, id, arc, scan, history, ghosts>>

\* The handler's thread drops the guard: the mutex is unlocked, the reference gone.
DropGuard(w) ==
    /\ holder' = [holder EXCEPT ![arc[w]] = None]
    /\ arc' = [arc EXCEPT ![w] = None]
    /\ UNCHANGED <<map, idHolder, files, scan, ghosts>>

HandlerReturns(w) ==
    /\ Goto(w, "handler", "cleanup")
    /\ DropGuard(w)
    /\ UNCHANGED <<id, history>>

\* An error is returned at once, past cleanup_instance_lock.
HandlerFails(w) ==
    /\ Goto(w, "handler", "idle")
    /\ DropGuard(w)
    /\ id' = [id EXCEPT ![w] = None]
    /\ failed' = failed \cup {id[w]}
    /\ UNCHANGED reclaimed

\* Seeded fault of CleanupGet: the test is the wrong way round.
CleanupGetInverted(w) ==
    /\ pc[w] = "cleanup"
    /\ LET m == map[id[w]] IN
          IF m # None /\ Referrers(m) # {}
          THEN Goto(w, "cleanup", "remove") /\ UNCHANGED id
          ELSE Goto(w, "cleanup", "idle") /\ id' = [id EXCEPT ![w] = None]
    /\ UNCHANGED <<locks, files, arc, scan, history, ghosts>>

\* The count is read under the guard of the map entry ...
CleanupGet(w) ==
    /\ pc[w] = "cleanup"
    /\ LET m == map[id[w]] IN
          IF m # None /\ Referrers(m) = {}
          THEN Goto(w, "cleanup", "remove") /\ UNCHANGED id
          ELSE Goto(w, "cleanup", "idle") /\ id' = [id EXCEPT ![w] = None]
    /\ UNCHANGED <<locks, files, arc, scan, history, ghosts>>

\* ... which is dropped before the removal of what is there then.
CleanupRemove(w) ==
    /\ Goto(w, "remove", "idle")
    /\ LET m == map[id[w]] IN
          /\ map' = [map EXCEPT ![id[w]] = None]
          /\ reclaimed' = IF m # None /\ Referrers(m) # {} THEN reclaimed \cup {m}
                          ELSE reclaimed
    /\ id' = [id EXCEPT ![w] = None]
    /\ UNCHANGED <<holder, idHolder, files, arc, scan, failed, ghosts>>

-----------------------------------------------------------------------------
(* create_instance                                                         *)

\* Seeded fault of LockId: id_lock is not waited for.
LockIdShared(w) ==
    /\ Goto(w, "id_lock", "read")
    /\ idHolder' = w
    /\ UNCHANGED <<map, holder, files, id, arc, scan, history, ghosts>>

LockId(w) ==
    /\ Goto(w, "id_lock", "read")
    /\ idHolder = None
    /\ idHolder' = w
    /\ UNCHANGED <<map, holder, files, id, arc, scan, history, ghosts>>

\* parse().unwrap_or(1), and 1 for 0.
ReadNext(w) ==
    /\ Goto(w, "read", "scan")
    /\ candidate' = [candidate EXCEPT ![w] = IF next \in {0, Junk} THEN 1 ELSE next]
    /\ tried' = [tried EXCEPT ![w] = 0]
    /\ seen' = [seen EXCEPT ![w] = {}]
    /\ UNCHANGED <<locks, files, id, arc, history, ghosts>>

InRange(c) == IF c = 0 \/ c > Slots THEN 1 ELSE c
After(c) == (c % Slots) + 1

\* Seeded fault of ScanOccupied: the scan does not wrap but stops at the last id.
ScanOccupiedStuck(w) ==
    /\ Goto(w, "scan", "scan")
    /\ tried[w] < Slots
    /\ LET c == InRange(candidate[w]) IN
          /\ c \in dirs
          /\ candidate' = [candidate EXCEPT ![w] = IF c = Slots THEN c ELSE c + 1]
          /\ seen' = [seen EXCEPT ![w] = @ \cup {c}]
    /\ tried' = [tried EXCEPT ![w] = @ + 1]
    /\ UNCHANGED <<locks, files, id, arc, history, ghosts>>

ScanOccupied(w) ==
    /\ Goto(w, "scan", "scan")
    /\ tried[w] < Slots
    /\ LET c == InRange(candidate[w]) IN
          /\ c \in dirs
          /\ candidate' = [candidate EXCEPT ![w] = After(c)]
          /\ seen' = [seen EXCEPT ![w] = @ \cup {c}]
    /\ tried' = [tried EXCEPT ![w] = @ + 1]
    /\ UNCHANGED <<locks, files, id, arc, history, ghosts>>

\* Seeded fault of ScanFree: a number above the last id is taken as it is.
ScanFreeUnchecked(w) ==
    /\ Goto(w, "scan", "truncate")
    /\ tried[w] < Slots
    /\ candidate[w] \notin dirs
    /\ id' = [id EXCEPT ![w] = candidate[w]]
    /\ candidate' = [candidate EXCEPT ![w] = After(candidate[w])]
    /\ UNCHANGED <<locks, files, arc, tried, seen, history, ghosts>>

ScanFree(w) ==
    /\ Goto(w, "scan", "truncate")
    /\ tried[w] < Slots
    /\ LET c == InRange(candidate[w]) IN
          /\ c \notin dirs
          /\ id' = [id EXCEPT ![w] = c]
          /\ candidate' = [candidate EXCEPT ![w] = After(c)]
    /\ UNCHANGED <<locks, files, arc, tried, seen, history, ghosts>>

\* "no available instance slots (1-99)"
NoSlot(w) ==
    /\ Goto(w, "scan", "full")
    /\ tried[w] = Slots
    /\ UNCHANGED <<locks, files, id, arc, scan, history, ghosts>>

\* set_len(0) ...
Truncate(w) ==
    /\ Goto(w, "truncate", "write")
    /\ next' = Junk
    /\ UNCHANGED <<locks, dirs, id, arc, scan, history, ghosts>>

\* ... and write!.
WriteNext(w) ==
    /\ Goto(w, "write", "mkdir")
    /\ next' = candidate[w]
    /\ UNCHANGED <<locks, dirs, id, arc, scan, history, ghosts>>

MakeDir(w) ==
    /\ Goto(w, "mkdir", "created")
    /\ dirs' = dirs \cup {id[w]}
    /\ removed' = removed \ {id[w]}
    /\ revived' = revived \ {id[w]}
    /\ UNCHANGED <<locks, next, id, arc, scan, history>>

\* The create is over, or the start after it; the guard of id_lock is dropped.
CreateReturns(w) ==
    /\ Goto(w, pc[w], "idle")
    /\ pc[w] \in {"created", "full"}
    /\ idHolder' = None
    /\ id' = [id EXCEPT ![w] = None]
    /\ candidate' = [candidate EXCEPT ![w] = 0]
    /\ tried' = [tried EXCEPT ![w] = 0]
    /\ seen' = [seen EXCEPT ![w] = {}]
    /\ UNCHANGED <<map, holder, files, arc, history, ghosts>>

-----------------------------------------------------------------------------
\* The creates that have found an id free and not yet made its directory.
Allotted(w) == pc[w] \in {"truncate", "write", "mkdir"}

\* remove_instance_artifacts: of a destroy, its background job, or a prune, which
\* takes no lock.
RemoveArtifacts(i) ==
    /\ i \in dirs
    /\ dirs' = dirs \ {i}
    /\ removed' = removed \cup {i}
    /\ UNCHANGED <<locks, next, pc, id, arc, scan, history, revived>>

\* write_metadata of a thread that does not have id_lock, and had read the record before
\* the removal: an exit watcher, a destroy that times out, a prune or a start.  Its
\* create_dir_all makes the directory again.
WriteRemoved(i) ==
    /\ i \in removed
    /\ dirs' = dirs \cup {i}
    /\ removed' = removed \ {i}
    /\ revived' = IF \E w \in Workers : Allotted(w) /\ id[w] = i THEN revived \cup {i}
                  ELSE revived
    /\ UNCHANGED <<locks, next, pc, id, arc, scan, history>>

\* The daemon is killed and starts again with the files it finds.
Restart ==
    /\ map' = [i \in Ids |-> None]
    /\ holder' = [m \in Mutexes |-> None]
    /\ idHolder' = None
    /\ pc' = [w \in Workers |-> "idle"]
    /\ id' = [w \in Workers |-> None]
    /\ arc' = [w \in Workers |-> None]
    /\ candidate' = [w \in Workers |-> 0]
    /\ tried' = [w \in Workers |-> 0]
    /\ seen' = [w \in Workers |-> {}]
    /\ failed' = {} /\ reclaimed' = {} /\ removed' = {} /\ revived' = {}
    /\ UNCHANGED files

InstanceStep(w) ==
    LockEntry(w) \/ HandlerReturns(w) \/ HandlerFails(w) \/ CleanupGet(w) \/ CleanupRemove(w)

CreateStep(w) ==
    \/ ReadNext(w) \/ ScanOccupied(w) \/ ScanFree(w) \/ NoSlot(w)
    \/ Truncate(w) \/ WriteNext(w) \/ MakeDir(w) \/ CreateReturns(w)

Next ==
    \/ \E w \in Workers : \/ Request(w) \/ Acquire(w) \/ LockId(w)
                          \/ InstanceStep(w) \/ CreateStep(w)
    \/ \E i \in Ids : RemoveArtifacts(i) \/ WriteRemoved(i)
    \/ Restart

Spec == Init /\ [][Next]_vars

-----------------------------------------------------------------------------
Steps == {"idle", "entry", "acquire", "handler", "cleanup", "remove", "id_lock", "read",
          "scan", "truncate", "write", "mkdir", "created", "full"}

TypeOK ==
    /\ map \in [Ids -> Mutexes \cup {None}]
    /\ holder \in [Mutexes -> Workers \cup {None}]
    /\ idHolder \in Workers \cup {None}
    /\ dirs \subseteq Ids
    /\ next \in 0 .. Slots + 1 \cup {Junk}
    /\ pc \in [Workers -> Steps]
    /\ id \in [Workers -> Ids \cup {None}]
    /\ arc \in [Workers -> Mutexes \cup {None}]
    /\ candidate \in [Workers -> 0 .. Slots + 1]
    /\ tried \in [Workers -> 0 .. Slots]
    /\ seen \in [Workers -> SUBSET Ids]
    /\ failed \subseteq Ids /\ reclaimed \subseteq Mutexes
    /\ removed \subseteq Ids /\ revived \subseteq Ids

\* A create takes the directory of another instance only if a writer without id_lock
\* brings that back between the scan and create_dir_all, whatever other creates do,
\* whatever is in the file and whatever a crash left there (allocate_id looks,
\* create_instance makes).
FreshUnlessRevived ==
    \A w \in Workers : Allotted(w) /\ id[w] \in dirs => id[w] \in revived

\* "no available instance slots" is answered only if the scan has found every slot
\* occupied, wherever it began.
NoFalseFull == \A w \in Workers : pc[w] = "full" => seen[w] = Ids

UsesLock(w) == pc[w] \in {"acquire", "handler", "cleanup", "remove"}

\* An instance that no request works on has no lock in the map, unless one of its
\* requests failed: the last request to leave always finds the count at 1.
NoLeakedLock ==
    \A i \in Ids :
        map[i] # None => i \in failed \/ \E w \in Workers : id[w] = i /\ UsesLock(w)

\* Two handlers run for one instance only if cleanup_instance_lock reclaimed the
\* mutex of one of them between its two looks at the map.
ExclusiveUnlessReclaimed ==
    \A v, w \in Workers :
        v # w /\ pc[v] = "handler" /\ pc[w] = "handler" /\ id[v] = id[w]
            => arc[v] \in reclaimed \/ arc[w] \in reclaimed

\* The mutexes of the map are the locks of the instances: a request that is past
\* lock_instance has the lock to itself until it returns or fails, unless
\* cleanup_instance_lock reclaims the mutex meanwhile.
Lock == INSTANCE InstanceLock
            WITH Instances <- Ids,
                 inside <- [w \in Workers |-> IF pc[w] = "handler" THEN id[w] ELSE None],
                 owner <- [i \in Ids |-> IF map[i] = None THEN None ELSE holder[map[i]]],
                 strays <- {w \in Workers : pc[w] = "handler" /\ arc[w] \in reclaimed}
ImplementsInstanceLock == Lock!LockSpec
=============================================================================
