------------------------- MODULE InstanceManagerProofs -------------------------
(***************************************************************************)
(* Type correctness of InstanceManager, and that one killable guest at     *)
(* most lives for an instance.                                             *)
(*                                                                         *)
(* First the actions that InstanceManagerSteps leaves: those of two        *)
(* threads and those that take a lock.  Then what a step may do to each    *)
(* variable, which gives the invariant Inv that all proofs start from.     *)
(* Then what the locks exclude (LockInv), which guest a start owns         *)
(* (OwnInv), and SpawnInv, the reason why there is one guest: when a start *)
(* spawns, nothing killable is left of the instance.  The mutex of an      *)
(* instance excludes only while it is not reclaimed in use (LockKept).     *)
(***************************************************************************)
EXTENDS InstanceManagerSteps

\* cleanup_instance_lock reclaims no mutex that is in use.
LockKept == "lock_reclaimed" \notin Options

-----------------------------------------------------------------------------
(* The steps that involve a lock, or two threads. *)

\* A thread that does nothing satisfies ControlInv, whatever its kind.
LEMMA IdleGood ==
  /\ Idle.pc = "idle" /\ Idle.guest = None /\ Idle.handle = None /\ Idle.job = None
  /\ \A t \in Threads : Good(t, Idle)
<1>1. Idle.pc = "idle" /\ Idle.guest = None /\ Idle.handle = None /\ Idle.job = None
  BY DEF Idle
<1>2. QED
  BY <1>1 DEF Good, WorkerFlow, JobFlow, WatcherFlow, Fields, Terminating, Cleaning

\* Thread t takes the record r.
LEMMA BecomeAdvances ==
  ASSUME TypeOK, NEW t \in Threads, NEW r \in ThreadType, Good(t, r),
         Entered(thread[t], r), Become(t, r)
  PROVE  Advances(t) /\ thread'[t] = r /\ lock' = lock /\ idLock' = idLock
  BY DEF TypeOK, Advances, Others, Become

\* A request is accepted: the handler goes to its lock, or to its scan.
LEMMA RequestAdvances ==
  ASSUME TypeOK, NEW w \in Workers, Request(w)
  PROVE  /\ At(w, "idle") /\ Advances(w) /\ lock' = lock /\ idLock' = idLock
         /\ thread'[w].pc \in {"lock", "id_lock", "scan"}
         /\ thread'[w].guest = None /\ thread'[w].handle = None
         /\ thread'[w].op \in Ops
<1>1. w \in Threads /\ thread[w].pc = "idle" /\ {"lock", "id_lock", "scan"} \subseteq Steps
  BY KindFacts DEF Request, At, Steps
<1>2. PICK op \in Ops :
          \/ /\ op \in Locked
             /\ \E i \in Ids : Become(w, [Idle EXCEPT !.pc = "lock", !.op = op, !.id = i])
          \/ /\ op \in Creating /\ creates' = creates + 1 /\ creates < MaxCreates
             /\ Become(w, [Idle EXCEPT !.pc = "id_lock", !.op = op,
                           !.md = [state |-> "created", held |-> FALSE, created |-> creates']])
          \/ /\ op \in Pruning
             /\ Become(w, [Idle EXCEPT !.pc = "scan", !.op = op])
  BY DEF Request
<1>3. Idle.guest = None /\ Idle.handle = None
  BY IdleGood
<1>4. CASE /\ op \in Locked
           /\ \E i \in Ids : Become(w, [Idle EXCEPT !.pc = "lock", !.op = op, !.id = i])
  <2>1. PICK i \in Ids : Become(w, [Idle EXCEPT !.pc = "lock", !.op = op, !.id = i])
    BY <1>4
  <2> DEFINE r == [Idle EXCEPT !.pc = "lock", !.op = op, !.id = i]
  <2>2. r \in ThreadType /\ r.pc = "lock" /\ r.op = op /\ r.id = i
        /\ r.guest = Idle.guest /\ r.handle = Idle.handle
    BY <1>1, IdleType DEF ThreadType
  <2>3. Become(w, r)
    BY <2>1
  <2> HIDE DEF r
  <2>4. Good(w, r) /\ Entered(thread[w], r)
    BY <1>1, <1>4, <2>2, KindFacts DEF Good, WorkerFlow, Fields, Entered, Terminating
  <2>5. QED
    BY <1>1, <1>3, <2>2, <2>3, <2>4, BecomeAdvances DEF At
<1>5. CASE /\ op \in Creating /\ creates' = creates + 1 /\ creates < MaxCreates
           /\ Become(w, [Idle EXCEPT !.pc = "id_lock", !.op = op,
                         !.md = [state |-> "created", held |-> FALSE, created |-> creates']])
  <2> DEFINE m == [state |-> "created", held |-> FALSE, created |-> creates']
             r == [Idle EXCEPT !.pc = "id_lock", !.op = op, !.md = m]
  <2>1. m \in Metadata
    BY <1>5, ManagerAssumption DEF TypeOK, Metadata, States
  <2>2. Become(w, r)
    BY <1>5
  <2> HIDE DEF m
  <2>3. r \in ThreadType /\ r.pc = "id_lock" /\ r.op = op /\ r.md = m
        /\ r.guest = Idle.guest /\ r.handle = Idle.handle
    BY <1>1, <2>1, IdleType DEF ThreadType
  <2> HIDE DEF r
  <2>4. Good(w, r) /\ Entered(thread[w], r)
    BY <1>1, <1>5, <2>1, <2>3, KindFacts DEF Good, WorkerFlow, Fields, Entered, Terminating
  <2>5. QED
    BY <1>1, <1>3, <2>2, <2>3, <2>4, BecomeAdvances DEF At
<1>6. CASE op \in Pruning /\ Become(w, [Idle EXCEPT !.pc = "scan", !.op = op])
  <2> DEFINE r == [Idle EXCEPT !.pc = "scan", !.op = op]
  <2>1. r \in ThreadType /\ r.pc = "scan" /\ r.op = op
        /\ r.guest = Idle.guest /\ r.handle = Idle.handle
    BY <1>1, IdleType DEF ThreadType
  <2>2. Become(w, r)
    BY <1>6
  <2> HIDE DEF r
  <2>3. Good(w, r) /\ Entered(thread[w], r)
    BY <1>1, <1>6, <2>1, KindFacts DEF Good, WorkerFlow, Fields, Entered, Terminating
  <2>4. QED
    BY <1>1, <1>3, <2>1, <2>2, <2>3, BecomeAdvances DEF At
<1>7. QED
  BY <1>1, <1>2, <1>4, <1>5, <1>6 DEF At

\* dispatch locks the instance and goes on to the first step of the request.
LEMMA LockInstanceAdvances ==
  ASSUME TypeOK, ControlInv, NEW w \in Workers, LockInstance(w)
  PROVE  /\ At(w, "lock") /\ Advances(w) /\ thread[w].op \in Locked
         /\ thread'[w].id = thread[w].id /\ thread'[w].op = thread[w].op
         /\ thread'[w].pc \notin {"idle", "lock"}
         /\ thread'[w].guest = thread[w].guest /\ thread'[w].handle = thread[w].handle
         /\ LockKept => lock[thread[w].id] = None
         /\ lock' = [lock EXCEPT ![thread[w].id] = w] /\ idLock' = idLock
<1>1. /\ w \in Threads /\ thread[w].pc = "lock" /\ Good(w, thread[w]) /\ thread[w] \in ThreadType
      /\ LockKept => lock[thread[w].id] = None
      /\ lock' = [lock EXCEPT ![thread[w].id] = w] /\ idLock' = idLock
  BY KindFacts DEF LockInstance, LockKept, At, ControlInv, TypeOK
<1>2. thread[w].op \in Locked /\ thread[w].id \in Ids
  BY <1>1 DEF Good, WorkerFlow, Fields
<1> DEFINE label == FirstStep[thread[w].op]
           r == [thread[w] EXCEPT !.pc = label]
<1>3. /\ label \in Steps
      /\ \/ label = "contains" /\ thread[w].op = "Start"
         \/ label = "stop_read" /\ thread[w].op = "Stop"
         \/ label = "rmw_read" /\ thread[w].op \in {"Hold", "Deploy"}
         \/ label = "prep_read" /\ thread[w].op = "Destroy"
         \/ label = "adb_read" /\ thread[w].op = "WaitForAdb"
  BY <1>2 DEF FirstStep, Locked, Steps
<1>4. thread' = [thread EXCEPT ![w] = r]
  BY <1>1 DEF LockInstance, TypeOK
<1> HIDE DEF label
<1>5. r \in ThreadType /\ r.pc = label /\ r.op = thread[w].op /\ r.id = thread[w].id
      /\ r.guest = thread[w].guest /\ r.handle = thread[w].handle
  BY <1>1, <1>3 DEF ThreadType
<1> HIDE DEF r
<1>6. Good(w, r) /\ Entered(thread[w], r)
  BY <1>1, <1>2, <1>3, <1>5, KindFacts
     DEF Good, WorkerFlow, Fields, Entered, Terminating, Starts, Destroying
<1>7. Advances(w) /\ thread'[w] = r
  BY <1>1, <1>4, <1>5, <1>6 DEF Advances, Others, TypeOK
<1>8. QED
  BY <1>1, <1>2, <1>3, <1>5, <1>7 DEF At

\* create_instance locks id_lock and goes on to allocate_id.
LEMMA LockIdAdvances ==
  ASSUME TypeOK, ControlInv, NEW w \in Workers, LockId(w)
  PROVE  /\ At(w, "id_lock") /\ Advances(w) /\ thread[w].op \in Creating
         /\ thread'[w].op = thread[w].op
         /\ thread'[w].guest = thread[w].guest /\ thread'[w].handle = thread[w].handle
         /\ thread'[w].pc = "allocate"
         /\ idLock = None /\ idLock' = w /\ lock' = lock
<1>1. /\ w \in Threads /\ thread[w].pc = "id_lock" /\ Good(w, thread[w]) /\ thread[w] \in ThreadType
      /\ idLock = None /\ idLock' = w /\ lock' = lock
  BY KindFacts DEF LockId, At, ControlInv, TypeOK
<1> DEFINE r == [thread[w] EXCEPT !.pc = "allocate"]
<1>2. thread' = [thread EXCEPT ![w] = r] /\ "allocate" \in Steps
  BY <1>1 DEF LockId, TypeOK, Steps
<1>3. r \in ThreadType /\ r.pc = "allocate" /\ r.op = thread[w].op /\ r.id = thread[w].id
      /\ r.guest = thread[w].guest /\ r.handle = thread[w].handle /\ r.md = thread[w].md
  BY <1>1, <1>2 DEF ThreadType
<1> HIDE DEF r
<1>4. Good(w, r) /\ Entered(thread[w], r)
  BY <1>1, <1>3, KindFacts DEF Good, WorkerFlow, Fields, Entered, Terminating
<1>5. Advances(w) /\ thread'[w] = r
  BY <1>1, <1>2, <1>3, <1>4 DEF Advances, Others, TypeOK
<1>6. QED
  BY <1>1, <1>3, <1>5 DEF At, Good, WorkerFlow

\* spawn_guest_process starts a guest that is new, for the instance of the start.
LEMMA SpawnAdvances ==
  ASSUME TypeOK, ControlInv, NEW w \in Workers, Spawn(w)
  PROVE  /\ At(w, "spawn") /\ Advances(w) /\ lock' = lock /\ idLock' = idLock
         /\ thread[w].op \in Starts /\ thread[w].id \in Ids
         /\ thread'[w].pc = "insert"
         /\ thread'[w].id = thread[w].id /\ thread'[w].op = thread[w].op
         /\ thread'[w].handle = thread[w].handle
         /\ thread'[w].guest \in Guests
         /\ proc[thread'[w].guest] = "unborn"
         /\ home' = [home EXCEPT ![thread'[w].guest] = thread[w].id]
         /\ proc' = [proc EXCEPT ![thread'[w].guest] = "running"]
<1>1. w \in Threads /\ thread[w].pc = "spawn" /\ Good(w, thread[w]) /\ thread[w] \in ThreadType
  BY KindFacts DEF Spawn, At, ControlInv, TypeOK
<1>2. PICK g \in Guests :
          /\ proc[g] = "unborn"
          /\ home' = [home EXCEPT ![g] = thread[w].id]
          /\ proc' = [proc EXCEPT ![g] = "running"]
          /\ Become(w, [thread[w] EXCEPT !.pc = "insert", !.guest = g])
  BY DEF Spawn
<1> DEFINE r == [thread[w] EXCEPT !.pc = "insert", !.guest = g]
<1>3. Become(w, r) /\ "insert" \in Steps
  BY <1>2 DEF Steps
<1>4. r \in ThreadType /\ r.pc = "insert" /\ r.op = thread[w].op /\ r.id = thread[w].id
      /\ r.guest = g /\ r.handle = thread[w].handle /\ r.md = thread[w].md
  BY <1>1, <1>3 DEF ThreadType
<1> HIDE DEF r
<1>5. Good(w, r) /\ Entered(thread[w], r)
  BY <1>1, <1>4, KindFacts DEF Good, WorkerFlow, Fields, Entered, Terminating
<1>6. thread[w].op \in Starts /\ thread[w].id \in Ids
  BY <1>1 DEF Good, WorkerFlow, Fields
<1>7. QED
  BY <1>1, <1>2, <1>3, <1>4, <1>5, <1>6, BecomeAdvances DEF At

\* A start has succeeded: its guest gets a watcher, the handler is idle.
LEMMA SpawnWatcherAdvances ==
  ASSUME TypeOK, ControlInv, NEW w \in Workers, SpawnWatcher(w)
  PROVE  LET g == thread[w].guest IN
         /\ At(w, "watch") /\ g \in Guests /\ g \in Threads /\ g # w
         /\ thread' \in [Threads -> ThreadType]
         /\ thread'[w] = Idle
         /\ thread'[g].pc = "wait_lock" /\ thread'[g].id = thread[w].id
         /\ thread'[g].guest = None /\ thread'[g].handle = g /\ Good(g, thread'[g])
         /\ \A u \in Threads \ {w, g} : thread'[u] = thread[u]
         /\ lock' = [i \in Ids |-> IF lock[i] = w THEN None ELSE lock[i]]
         /\ idLock' = IF idLock = w THEN None ELSE idLock
<1> DEFINE g == thread[w].guest
           r == [Idle EXCEPT !.pc = "wait_lock", !.id = thread[w].id, !.handle = g]
<1>1. /\ w \in Threads /\ thread[w].pc = "watch" /\ Good(w, thread[w]) /\ thread[w] \in ThreadType
      /\ thread \in [Threads -> ThreadType] /\ "wait_lock" \in Steps
      /\ lock' = [i \in Ids |-> IF lock[i] = w THEN None ELSE lock[i]]
      /\ idLock' = IF idLock = w THEN None ELSE idLock
  BY KindFacts DEF SpawnWatcher, At, ControlInv, TypeOK, Steps
<1>2. g \in Guests /\ thread[w].id \in Ids /\ g \in Threads /\ g # w
  BY <1>1, KindFacts DEF Good, Fields
<1>3. thread' = [thread EXCEPT ![w] = Idle, ![g] = r]
  BY DEF SpawnWatcher
<1> HIDE DEF g
<1>4. r \in ThreadType /\ r.pc = "wait_lock" /\ r.id = thread[w].id /\ r.handle = g
      /\ r.guest = Idle.guest
  <2>1. r \in ThreadType
    BY <1>1, <1>2, IdleType DEF ThreadType
  <2>2. r.pc = "wait_lock" /\ r.id = thread[w].id /\ r.handle = g /\ r.guest = Idle.guest
    BY IdleType DEF ThreadType
  <2>3. QED
    BY <2>1, <2>2
<1> HIDE DEF r
<1>5. Good(g, r)
  BY <1>2, <1>4, KindFacts DEF Good, WatcherFlow, Fields, Terminating
<1>6. thread' \in [Threads -> ThreadType] /\ thread'[w] = Idle /\ thread'[g] = r
      /\ \A u \in Threads \ {w, g} : thread'[u] = thread[u]
  BY <1>1, <1>2, <1>3, <1>4, IdleType
<1>7. QED
  BY <1>1, <1>2, <1>4, <1>5, <1>6, IdleGood DEF At, g

\* destroy_instance starts a job for its instance and waits for that job.
LEMMA SpawnJobAdvances ==
  ASSUME TypeOK, ControlInv, NEW w \in Workers, SpawnJob(w)
  PROVE  /\ At(w, "destroy_spawn")
         /\ thread' \in [Threads -> ThreadType] /\ lock' = lock /\ idLock' = idLock
         /\ \E j \in Jobs :
               /\ At(j, "idle") /\ j # w
               /\ thread'[j].pc = "clean_kill" /\ thread'[j].id = thread[w].id
               /\ thread'[j].guest = None /\ thread'[j].handle = None /\ Good(j, thread'[j])
               /\ thread'[w].pc = "destroy_wait" /\ thread'[w].job = j
               /\ thread'[w].id = thread[w].id /\ thread'[w].op = thread[w].op
               /\ thread'[w].guest = thread[w].guest /\ thread'[w].handle = thread[w].handle
               /\ Good(w, thread'[w])
               /\ \A u \in Threads \ {w, j} : thread'[u] = thread[u]
<1>1. /\ w \in Threads /\ thread[w].pc = "destroy_spawn" /\ Good(w, thread[w])
      /\ thread[w] \in ThreadType /\ thread \in [Threads -> ThreadType]
      /\ "clean_kill" \in Steps /\ "destroy_wait" \in Steps
      /\ lock' = lock /\ idLock' = idLock
  BY KindFacts DEF SpawnJob, At, ControlInv, TypeOK, Steps
<1>2. thread[w].id \in Ids
  BY <1>1 DEF Good, Fields
<1>3. PICK j \in Jobs :
          /\ At(j, "idle")
          /\ thread' = [thread EXCEPT
               ![j] = [Idle EXCEPT !.pc = "clean_kill", !.op = "finish", !.id = thread[w].id],
               ![w].pc = "destroy_wait", ![w].job = j]
  BY DEF SpawnJob
<1> DEFINE r == [Idle EXCEPT !.pc = "clean_kill", !.op = "finish", !.id = thread[w].id]
           s == [[thread[w] EXCEPT !.pc = "destroy_wait"] EXCEPT !.job = j]
<1>4. j \in Threads /\ j # w
  BY KindFacts
<1>5. r \in ThreadType /\ r.pc = "clean_kill" /\ r.op = "finish" /\ r.id = thread[w].id
      /\ r.guest = Idle.guest /\ r.handle = Idle.handle
  BY <1>1, <1>2, IdleType DEF ThreadType
<1>6. /\ s \in ThreadType /\ s.pc = "destroy_wait" /\ s.job = j /\ s.id = thread[w].id
      /\ s.op = thread[w].op /\ s.guest = thread[w].guest /\ s.handle = thread[w].handle
      /\ s.md = thread[w].md
  BY <1>1 DEF ThreadType
<1>7. thread' = [[thread EXCEPT ![j] = r] EXCEPT ![w] = s]
  BY <1>1, <1>3, <1>4
<1> HIDE DEF r, s
<1>8. Good(j, r)
  BY <1>2, <1>5, KindFacts DEF Good, JobFlow, Cleaning, Fields, Terminating
<1>9. Good(w, s)
  BY <1>1, <1>6, KindFacts DEF Good, WorkerFlow, Fields, Terminating
<1>10. thread' \in [Threads -> ThreadType] /\ thread'[w] = s /\ thread'[j] = r
       /\ \A u \in Threads \ {w, j} : thread'[u] = thread[u]
  BY <1>1, <1>4, <1>5, <1>6, <1>7
<1>11. QED
  BY <1>1, <1>3, <1>4, <1>5, <1>6, <1>8, <1>9, <1>10, IdleGood DEF At

\* destroy_instance has waited for its job: both are idle, the lock is free.
LEMMA DestroyReplyAdvances ==
  ASSUME TypeOK, ControlInv, NEW w \in Workers, DestroyReply(w)
  PROVE  /\ At(w, "destroy_wait") /\ At(thread[w].job, "done")
         /\ thread' \in [Threads -> ThreadType] /\ thread'[w] = Idle
         /\ \A u \in Threads \ {w} : thread'[u] = thread[u] \/ (u = thread[w].job /\ thread'[u] = Idle)
         /\ lock' = [i \in Ids |-> IF lock[i] = w THEN None ELSE lock[i]] /\ idLock' = idLock
<1> DEFINE j == thread[w].job
<1>1. /\ thread[w].pc = "destroy_wait" /\ thread[j].pc = "done"
      /\ thread' = [[thread EXCEPT ![w] = Idle] EXCEPT ![j] = Idle]
      /\ lock' = [i \in Ids |-> IF lock[i] = w THEN None ELSE lock[i]] /\ idLock' = idLock
  BY DEF DestroyReply, At
<1>2. w \in Threads /\ thread \in [Threads -> ThreadType]
  BY KindFacts DEF TypeOK
<1> HIDE DEF j
<1>3. /\ thread' \in [Threads -> ThreadType] /\ thread'[w] = Idle
      /\ \A u \in Threads \ {w} : thread'[u] = thread[u] \/ (u = j /\ thread'[u] = Idle)
  <2> DEFINE T == [thread EXCEPT ![w] = Idle]
  <2>1. T \in [Threads -> ThreadType] /\ T[w] = Idle /\ \A u \in Threads \ {w} : T[u] = thread[u]
    BY <1>2, IdleType
  <2>2. thread' = [T EXCEPT ![j] = Idle]
    BY <1>1
  <2> HIDE DEF T
  <2>3. thread' \in [Threads -> ThreadType] /\ \A u \in Threads : thread'[u] = T[u] \/ (u = j /\ thread'[u] = Idle)
    BY <2>1, <2>2, IdleType
  <2>4. QED
    BY <1>2, <2>1, <2>3
<1>4. QED
  BY <1>1, <1>3 DEF At, j

\* A job nobody waits for ends.
LEMMA JobEndsAdvances ==
  ASSUME TypeOK, NEW j \in Jobs, JobEnds(j)
  PROVE  /\ At(j, "done")
         /\ thread' \in [Threads -> ThreadType] /\ Others(j) /\ thread'[j] = Idle
         /\ lock' = lock /\ idLock' = idLock
  BY IdleType, KindFacts DEF TypeOK, JobEnds, Others, At

-----------------------------------------------------------------------------
(* Type correctness, and the control invariant it rests on. *)

\* A step of the manager keeps the threads' records typed and ControlInv.
LEMMA ThreadStep ==
  ASSUME TypeOK, ControlInv, BornInv, Next
  PROVE  thread' \in [Threads -> ThreadType] /\ ControlInv'
<1>1. CASE \E t \in Threads : Advances(t)
  <2>1. PICK t \in Threads : Advances(t)
    BY <1>1
  <2>2. QED
    BY <2>1 DEF Advances, Others, ControlInv
<1>2. ASSUME NEW t \in Threads, Single(t) PROVE Advances(t)
  BY <1>2, SingleAdvances
<1>3. ASSUME NEW w \in Workers, Request(w) \/ LockInstance(w) \/ LockId(w) \/ Spawn(w)
      PROVE  w \in Threads /\ Advances(w)
  BY <1>3, KindFacts, RequestAdvances, LockInstanceAdvances, LockIdAdvances, SpawnAdvances
<1>4. CASE \E w \in Workers : SpawnWatcher(w)
  <2>1. PICK w \in Workers : SpawnWatcher(w)
    BY <1>4
  <2>2. QED
    BY <2>1, SpawnWatcherAdvances, IdleGood DEF ControlInv
<1>5. CASE \E w \in Workers : SpawnJob(w)
  <2>1. PICK w \in Workers : SpawnJob(w)
    BY <1>5
  <2>2. QED
    BY <2>1, SpawnJobAdvances DEF ControlInv
<1>6. CASE \E w \in Workers : DestroyReply(w)
  <2>1. PICK w \in Workers : DestroyReply(w)
    BY <1>6
  <2>2. QED
    BY <2>1, DestroyReplyAdvances, IdleGood DEF ControlInv
<1>7. CASE \E j \in Jobs : JobEnds(j)
  <2>1. PICK j \in Jobs : JobEnds(j)
    BY <1>7
  <2>2. QED
    BY <2>1, JobEndsAdvances, IdleGood DEF ControlInv, Others
<1>8. CASE Restart
  BY <1>8, IdleType, IdleGood DEF Restart, ControlInv
<1>9. CASE \E g \in Guests : GuestExits(g)
  BY <1>9 DEF GuestExits, TypeOK, ControlInv
<1>10. QED
  BY NextCases, <1>1, <1>2, <1>3, <1>4, <1>5, <1>6, <1>7, <1>8, <1>9

\* write_metadata changes one file, to a record with the state that was asked for.
LEMMA WriteEffect ==
  ASSUME TypeOK, NEW t \in Threads, NEW s \in States,
         thread[t].id \in Ids, thread[t].md \in Metadata, Write(t, s)
  PROVE  /\ disk' \in [Ids -> Metadata \cup {None, EmptyDir}]
         /\ \A i \in Ids : i # thread[t].id => disk'[i] = disk[i]
         /\ disk'[thread[t].id] \in Metadata /\ disk'[thread[t].id].state = s
<1> DEFINE m == [thread[t].md EXCEPT !.state = s]
<1>1. m \in Metadata /\ m.state = s
  BY DEF Metadata
<1>2. disk' = [disk EXCEPT ![thread[t].id] = m]
  BY DEF Write
<1> HIDE DEF m
<1>3. QED
  BY <1>1, <1>2 DEF TypeOK

\* What a step may do to the file of instance i.
DiskChange(i) ==
    \/ disk'[i] = disk[i]
    \/ disk'[i] = EmptyDir
    \/ disk'[i] = None /\ \E t \in Threads : RemoveArtifacts(t) /\ thread[t].id = i
    \/ disk'[i] \in Metadata /\ disk'[i].state \in {"created", "running", "failed"}
    \/ /\ disk'[i] \in Metadata /\ disk'[i].state = "starting"
       /\ \E w \in Workers : StartWrite(w) /\ thread[w].id = i
    \/ /\ disk'[i] \in Metadata /\ disk'[i].state \in {"stopped", "destroyed"}
       /\ \/ \E w \in Workers : (StopWrite(w) \/ PrepareWrite(w)) /\ thread[w].id = i
          \/ \E g \in Guests : ExitWrite(g) /\ thread[g].id = i
    \/ \E w \in Workers : /\ UpdateWrite(w) /\ thread[w].id = i
                          /\ disk'[i] \in Metadata /\ disk'[i].state = thread[w].md.state

DiskChanges == disk' \in [Ids -> Metadata \cup {None, EmptyDir}] /\ \A i \in Ids : DiskChange(i)

\* A step changes the file of an instance only in the ways DiskChange lists, each by the
\* actions it names.
LEMMA DiskStep ==
  ASSUME TypeOK, ControlInv, Next
  PROVE  DiskChanges
<1>1. CASE disk' = disk
  BY <1>1 DEF TypeOK, DiskChanges, DiskChange
<1>2. ASSUME NEW t \in Threads, NEW s \in {"created", "running", "failed"}, Write(t, s),
             thread[t].id \in Ids, thread[t].md \in Metadata
      PROVE  DiskChanges
  BY <1>2, WriteEffect DEF DiskChanges, DiskChange, States
<1>3. ASSUME NEW w \in Workers,
             \/ CreateWrite(w) \/ SpawnFails(w) \/ SkipAdb(w) \/ WriteRunning(w)
             \/ RecordFailure(w) \/ StopIncomplete(w)
      PROVE  DiskChanges
  <2>1. w \in Threads /\ \E s \in {"created", "running", "failed"} : Write(w, s)
    BY <1>3, KindFacts DEF CreateWrite, SpawnFails, SkipAdb, WriteRunning, RecordFailure,
                           StopIncomplete
  <2>2. thread[w].pc \in {"create_write", "spawn", "skip_adb", "running", "record",
                          "stop_incomplete"}
    BY <1>3 DEF At, CreateWrite, SpawnFails, SkipAdb, WriteRunning, RecordFailure, StopIncomplete
  <2>3. thread[w].id \in Ids /\ thread[w].md \in Metadata
    BY <2>1, <2>2 DEF ControlInv, Good, Fields
  <2>4. QED
    BY <1>2, <2>1, <2>3
<1>4. ASSUME NEW t \in Threads, MarkWrite(t) PROVE DiskChanges
  BY <1>2, <1>4 DEF MarkWrite, At, ControlInv, Good, Fields
<1>5. ASSUME NEW w \in Workers, StartWrite(w) PROVE DiskChanges
  <2>1. w \in Threads /\ thread[w].id \in Ids /\ thread[w].md \in Metadata /\ Write(w, "starting")
    BY <1>5, KindFacts DEF StartWrite, At, ControlInv, Good, Fields
  <2>2. QED
    BY <1>5, <2>1, WriteEffect DEF States, DiskChanges, DiskChange
<1>6. ASSUME NEW w \in Workers, StopWrite(w) PROVE DiskChanges
  <2>1. w \in Threads /\ thread[w].id \in Ids /\ thread[w].md \in Metadata
    BY <1>6, KindFacts DEF StopWrite, At, ControlInv, Good, Fields
  <2>2. Write(w, "failed") \/ Write(w, "stopped")
    BY <1>6 DEF StopWrite
  <2>3. QED
    BY <1>2, <1>6, <2>1, <2>2, WriteEffect DEF States, DiskChanges, DiskChange
<1>7. ASSUME NEW w \in Workers, PrepareWrite(w) PROVE DiskChanges
  <2>1. w \in Threads /\ thread[w].id \in Ids /\ thread[w].md \in Metadata
    BY <1>7, KindFacts DEF PrepareWrite, At, ControlInv, Good, Fields
  <2>2. Write(w, "destroyed")
    BY <1>7 DEF PrepareWrite
  <2>3. QED
    BY <1>7, <2>1, <2>2, WriteEffect DEF States, DiskChanges, DiskChange
<1>8. ASSUME NEW g \in Guests, ExitWrite(g) PROVE DiskChanges
  <2>1. g \in Threads /\ thread[g].id \in Ids /\ thread[g].md \in Metadata
    BY <1>8, KindFacts DEF ExitWrite, At, ControlInv, Good, Fields
  <2>2. Write(g, "failed") \/ Write(g, "stopped")
    BY <1>8 DEF ExitWrite
  <2>3. QED
    BY <1>2, <1>8, <2>1, <2>2, WriteEffect DEF States, DiskChanges, DiskChange
<1>9. ASSUME NEW w \in Workers, UpdateWrite(w) PROVE DiskChanges
  <2> DEFINE m == [thread[w].md EXCEPT !.held = @ \/ (thread[w].op = "Hold")]
  <2>1. w \in Threads /\ thread[w].id \in Ids /\ thread[w].md \in Metadata
    BY <1>9, KindFacts DEF UpdateWrite, At, ControlInv, Good, Fields
  <2>2. m \in Metadata /\ m.state = thread[w].md.state
    BY <2>1 DEF Metadata
  <2>3. disk' = [disk EXCEPT ![thread[w].id] = m]
    BY <1>9 DEF UpdateWrite
  <2> HIDE DEF m
  <2>4. QED
    BY <1>9, <2>1, <2>2, <2>3 DEF TypeOK, DiskChanges, DiskChange
<1>10. ASSUME NEW w \in Workers, MakeDir(w) PROVE DiskChanges
  BY <1>10 DEF MakeDir, TypeOK, DiskChanges, DiskChange
<1>11. ASSUME NEW t \in Threads, RemoveArtifacts(t) PROVE DiskChanges
  <2>1. disk' = [disk EXCEPT ![thread[t].id] = None]
    BY <1>11 DEF RemoveArtifacts
  <2>2. QED
    BY <1>11, <2>1 DEF TypeOK, DiskChanges, DiskChange
<1>12. ASSUME NEW w \in Workers, Request(w) \/ LockInstance(w) \/ LockId(w) \/ WorkerStep(w)
       PROVE  DiskChanges
  <2>1. \/ disk' = disk
        \/ CreateWrite(w) \/ SpawnFails(w) \/ SkipAdb(w) \/ WriteRunning(w)
        \/ RecordFailure(w) \/ StopIncomplete(w) \/ StartWrite(w) \/ StopWrite(w)
        \/ PrepareWrite(w) \/ UpdateWrite(w) \/ MakeDir(w)
    BY <1>12 DEF Request, LockInstance, LockId, WorkerStep, Allocate, AllocateFails,
       StartContains, StartRead, Preflight, PrepareFails, Spawn, Insert, VerifyBoot,
       SpawnWatcher, AdbRead, AdbGet, AdbTry, AdbDeadline, StartFailed, TermGet, TermWait,
       KillWait, StopRead, UpdateRead, PrepareRead, PrepareExists, PrepareKill, SpawnJob, DestroyReply,
       DestroyTimeout, Scan, PruneEntry, PruneDone
  <2>2. QED
    BY <1>1, <1>3, <1>5, <1>6, <1>7, <1>9, <1>10, <2>1
<1>13. ASSUME NEW t \in Threads, SharedStep(t) PROVE DiskChanges
  <2>1. disk' = disk \/ RemoveArtifacts(t) \/ MarkWrite(t)
    BY <1>13 DEF SharedStep, RemoveCheck, RemoveEntry, CleanKill, CleanCollect, MarkRead
  <2>2. QED
    BY <1>1, <1>4, <1>11, <2>1
<1>14. ASSUME NEW g \in Guests, WatcherStep(g) \/ GuestExits(g) PROVE DiskChanges
  <2>1. disk' = disk \/ ExitWrite(g)
    BY <1>14 DEF WatcherStep, GuestExits, WatchLock, WatchReturns, ExitRead
  <2>2. QED
    BY <1>1, <1>8, <2>1
<1>15. CASE Restart \/ \E j \in Jobs : JobEnds(j)
  BY <1>1, <1>15 DEF Restart, JobEnds
<1>16. QED
  BY <1>12, <1>13, <1>14, <1>15 DEF Next

\* A guest stays as it is, or it ends, the direct child perhaps first.
Ends(g) ==
    \/ proc'[g] = proc[g] \/ proc'[g] \in {"ok", "failed"}
    \/ proc[g] = "running" /\ proc'[g] = "left"

\* A step that does not spawn a guest can only end some.
LEMMA ProcStep ==
  ASSUME TypeOK, ControlInv, Next
  PROVE  /\ home' \in [Guests -> Ids \cup {None}]
         /\ proc' \in [Guests -> {"unborn", "running", "left", "ok", "failed"}]
         /\ \/ \E w \in Workers : Spawn(w)
            \/ home' = home /\ \A g \in Guests : Ends(g)
<1> DEFINE Goal == /\ home' \in [Guests -> Ids \cup {None}]
                   /\ proc' \in [Guests -> {"unborn", "running", "left", "ok", "failed"}]
                   /\ \/ \E w \in Workers : Spawn(w)
                      \/ home' = home /\ \A g \in Guests : Ends(g)
<1>1. CASE home' = home /\ proc' = proc
  BY <1>1 DEF TypeOK, Ends
<1>2. ASSUME NEW S, home' = home, Killed(S) PROVE Goal
  BY <1>2 DEF TypeOK, Killed, Ends
<1>3. ASSUME NEW w \in Workers, Spawn(w) PROVE Goal
  BY <1>3, SpawnAdvances DEF TypeOK
<1>4. ASSUME NEW g \in Guests, GuestExits(g) PROVE Goal
  BY <1>4 DEF TypeOK, GuestExits, Ends
<1>5. ASSUME NEW w \in Workers, Request(w) \/ LockInstance(w) \/ LockId(w) \/ WorkerStep(w)
      PROVE  Goal
  <2>1. \/ home' = home /\ proc' = proc
        \/ home' = home /\ \E S : Killed(S)
        \/ Spawn(w) \/ TermWait(w)
    BY <1>5 DEF Request, LockInstance, LockId, WorkerStep, Allocate, AllocateFails, MakeDir,
       CreateWrite, StartContains, StartRead, StartWrite, Preflight, PrepareFails, SpawnFails,
       Insert, SkipAdb, WriteRunning, VerifyBoot, SpawnWatcher, AdbRead, AdbGet, AdbTry,
       AdbDeadline, RecordFailure, StartFailed, TermGet, KillWait, StopRead,
       StopWrite, StopIncomplete, UpdateRead, UpdateWrite, PrepareRead, PrepareExists, PrepareWrite,
       PrepareKill, SpawnJob, DestroyReply, DestroyTimeout, Scan, PruneEntry, PruneDone,
       guestVars
  <2>2. ASSUME TermWait(w) PROVE Goal
    <3>1. /\ home' = home
          /\ \/ proc' = proc
             \/ \E S : Killed(S)
             \/ /\ proc[thread[w].handle] = "running"
                /\ proc' = [proc EXCEPT ![thread[w].handle] = "left"]
      BY <2>2 DEF TermWait
    <3>2. CASE /\ proc[thread[w].handle] = "running"
               /\ proc' = [proc EXCEPT ![thread[w].handle] = "left"]
      BY <3>1, <3>2 DEF TypeOK, Ends
    <3>3. QED
      BY <1>1, <1>2, <3>1, <3>2
  <2>3. QED
    BY <1>1, <1>2, <1>3, <2>1, <2>2
<1>6. ASSUME NEW t \in Threads, SharedStep(t) PROVE Goal
  <2>1. \/ home' = home /\ proc' = proc
        \/ home' = home /\ \E S : Killed(S)
    BY <1>6 DEF SharedStep, RemoveCheck, RemoveEntry, CleanKill, CleanCollect, RemoveArtifacts,
                MarkRead, MarkWrite, guestVars
  <2>2. QED
    BY <1>1, <1>2, <2>1
<1>7. ASSUME NEW g \in Guests, WatcherStep(g) PROVE Goal
  BY <1>1, <1>7 DEF WatcherStep, WatchLock, WatchReturns, ExitRead, ExitWrite, guestVars
<1>8. CASE \E j \in Jobs : JobEnds(j)
  BY <1>1, <1>8 DEF JobEnds, guestVars
<1>9. CASE Restart
  BY <1>2, <1>9 DEF Restart
<1>10. QED
  BY <1>3, <1>4, <1>5, <1>6, <1>7, <1>8, <1>9 DEF Next

\* The registry loses handles, or gets the one of a start.
LEMMA RegistryStep ==
  ASSUME TypeOK, ControlInv, Next
  PROVE  /\ registry' \in [Ids -> Guests \cup {None}]
         /\ \A i \in Ids : \/ registry'[i] \in {registry[i], None}
                           \/ \E w \in Workers : /\ thread[w].guest \in Guests
                                                 /\ registry'[i] = thread[w].guest
<1> DEFINE Goal == /\ registry' \in [Ids -> Guests \cup {None}]
                   /\ \A i \in Ids : \/ registry'[i] \in {registry[i], None}
                                     \/ \E w \in Workers : /\ thread[w].guest \in Guests
                                                           /\ registry'[i] = thread[w].guest
<1>1. CASE registry' = registry
  BY <1>1 DEF TypeOK
<1>2. ASSUME NEW w \in Workers, Insert(w) PROVE Goal
  <2>1. thread[w].guest \in Guests
    BY <1>2, KindFacts DEF Insert, At, ControlInv, Good, Fields
  <2>2. registry' = [registry EXCEPT ![thread[w].id] = thread[w].guest]
    BY <1>2 DEF Insert
  <2>3. QED
    BY <2>1, <2>2 DEF TypeOK
<1>3. ASSUME NEW t \in Threads, RemoveEntry(t) PROVE Goal
  BY <1>3 DEF RemoveEntry, TypeOK
<1>4. CASE Restart
  BY <1>4 DEF Restart, TypeOK
<1>5. ASSUME NEW w \in Workers, Request(w) \/ LockInstance(w) \/ LockId(w) \/ WorkerStep(w)
      PROVE  registry' = registry \/ Insert(w)
  BY <1>5 DEF Request, LockInstance, LockId, WorkerStep, Allocate, AllocateFails, MakeDir,
     CreateWrite, StartContains, StartRead, StartWrite, Preflight, PrepareFails, Spawn,
     SpawnFails, SkipAdb, WriteRunning, VerifyBoot, SpawnWatcher, AdbRead, AdbGet, AdbTry,
     AdbDeadline, RecordFailure, StartFailed, TermGet, TermWait, KillWait, StopRead,
     StopWrite, StopIncomplete, UpdateRead, UpdateWrite, PrepareRead, PrepareExists, PrepareWrite,
     PrepareKill, SpawnJob, DestroyReply, DestroyTimeout, Scan, PruneEntry, PruneDone
<1>6. ASSUME NEW t \in Threads, SharedStep(t) PROVE registry' = registry \/ RemoveEntry(t)
  BY <1>6 DEF SharedStep, RemoveCheck, CleanKill, CleanCollect, RemoveArtifacts,
              MarkRead, MarkWrite
<1>7. CASE \/ \E g \in Guests : WatcherStep(g) \/ GuestExits(g)
           \/ \E j \in Jobs : JobEnds(j)
  BY <1>1, <1>7 DEF WatcherStep, WatchLock, WatchReturns, ExitRead, ExitWrite, GuestExits,
                    JobEnds
<1>8. QED
  BY <1>1, <1>2, <1>3, <1>4, <1>5, <1>6, <1>7 DEF Next

\* The locks are free or held by request handlers.
LEMMA LockTypeStep ==
  ASSUME TypeOK, ControlInv, BornInv, Next
  PROVE  lock' \in [Ids -> Workers \cup {None}] /\ idLock' \in Workers \cup {None}
<1> DEFINE Goal == lock' \in [Ids -> Workers \cup {None}] /\ idLock' \in Workers \cup {None}
<1>1. CASE lock' = lock /\ idLock' = idLock
  BY <1>1 DEF TypeOK
<1>2. ASSUME NEW t \in Threads,
             lock' = [i \in Ids |-> IF lock[i] = t THEN None ELSE lock[i]],
             idLock' \in {idLock, None}
      PROVE  Goal
  BY <1>2 DEF TypeOK
<1>3. ASSUME NEW t \in Threads, Single(t) PROVE Goal
  <2>1. Keeps(t)
    BY <1>3, SingleAdvances
  <2>2. QED
    BY <1>1, <1>2, <2>1 DEF Keeps, Continues, Returns
<1>4. ASSUME NEW w \in Workers, LockInstance(w) PROVE Goal
  BY <1>4, LockInstanceAdvances DEF TypeOK
<1>5. ASSUME NEW w \in Workers, LockId(w) PROVE Goal
  BY <1>5, LockIdAdvances DEF TypeOK
<1>6. ASSUME NEW w \in Workers, Request(w) \/ Spawn(w) \/ SpawnJob(w) PROVE Goal
  BY <1>1, <1>6, RequestAdvances, SpawnAdvances, SpawnJobAdvances
<1>7. ASSUME NEW w \in Workers, SpawnWatcher(w) \/ DestroyReply(w) PROVE Goal
  BY <1>2, <1>7, KindFacts, SpawnWatcherAdvances, DestroyReplyAdvances
<1>8. CASE (\E j \in Jobs : JobEnds(j)) \/ (\E g \in Guests : GuestExits(g)) \/ Restart
  BY <1>1, <1>8 DEF JobEnds, GuestExits, Restart
<1>9. QED
  BY NextCases, <1>3, <1>4, <1>5, <1>6, <1>7, <1>8

\* The counters stay within their bounds; restarts are not undone.
LEMMA CountersStep ==
  ASSUME TypeOK, ControlInv, BornInv, Next
  PROVE  /\ creates' \in 0 .. MaxCreates /\ crashes' \in 0 .. MaxCrashes
         /\ crashes' >= crashes
         /\ heldAcks' \subseteq 0 .. MaxCreates /\ destroyAcks' \subseteq 0 .. MaxCreates
<1> DEFINE Goal == /\ creates' \in 0 .. MaxCreates /\ crashes' \in 0 .. MaxCrashes
                   /\ crashes' >= crashes
                   /\ heldAcks' \subseteq 0 .. MaxCreates
                   /\ destroyAcks' \subseteq 0 .. MaxCreates
<1>1. creates \in 0 .. MaxCreates /\ crashes \in 0 .. MaxCrashes
      /\ heldAcks \subseteq 0 .. MaxCreates /\ destroyAcks \subseteq 0 .. MaxCreates
  BY DEF TypeOK
<1>2. ASSUME UNCHANGED <<creates, crashes, history>> PROVE Goal
  BY <1>1, <1>2, ManagerAssumption DEF history
<1>3. ASSUME NEW w \in Workers, Request(w) PROVE Goal
  <2>1. /\ creates' = creates \/ (creates < MaxCreates /\ creates' = creates + 1)
        /\ crashes' = crashes /\ heldAcks' = heldAcks /\ destroyAcks' = destroyAcks
    BY <1>3 DEF Request, history
  <2>2. QED
    BY <1>1, <2>1, ManagerAssumption
<1>4. ASSUME NEW w \in Workers, UpdateWrite(w) PROVE Goal
  <2>1. thread[w].md.created \in 0 .. MaxCreates
    BY <1>4, KindFacts DEF UpdateWrite, At, ControlInv, Good, Fields, Metadata
  <2>2. heldAcks' \subseteq heldAcks \cup {thread[w].md.created}
        /\ UNCHANGED <<creates, crashes, destroyAcks>>
    BY <1>4 DEF UpdateWrite
  <2>3. QED
    BY <1>1, <2>1, <2>2, ManagerAssumption
<1>5. ASSUME NEW w \in Workers, DestroyReply(w) PROVE Goal
  <2>1. thread[w].md.created \in 0 .. MaxCreates
    BY <1>5, KindFacts DEF DestroyReply, At, ControlInv, Good, Fields, Metadata
  <2>2. destroyAcks' \subseteq destroyAcks \cup {thread[w].md.created}
        /\ UNCHANGED <<creates, crashes, heldAcks>>
    BY <1>5 DEF DestroyReply
  <2>3. QED
    BY <1>1, <2>1, <2>2, ManagerAssumption
<1>6. ASSUME Restart PROVE Goal
  BY <1>1, <1>6, ManagerAssumption DEF Restart, history
<1>7. ASSUME NEW w \in Workers, LockInstance(w) \/ LockId(w) \/ WorkerStep(w)
      PROVE  UNCHANGED <<creates, crashes, history>> \/ UpdateWrite(w) \/ DestroyReply(w)
  BY <1>7 DEF LockInstance, LockId, WorkerStep, Allocate, AllocateFails, MakeDir,
     CreateWrite, StartContains, StartRead, StartWrite, Preflight, PrepareFails, Spawn,
     SpawnFails, Insert, SkipAdb, WriteRunning, VerifyBoot, SpawnWatcher, AdbRead, AdbGet,
     AdbTry, AdbDeadline, RecordFailure, StartFailed, TermGet, TermWait, KillWait, StopRead,
     StopWrite, StopIncomplete, UpdateRead, PrepareRead, PrepareExists, PrepareWrite,
     PrepareKill, SpawnJob, DestroyTimeout, Scan, PruneEntry, PruneDone
<1>8. ASSUME NEW t \in Threads, SharedStep(t) PROVE UNCHANGED <<creates, crashes, history>>
  BY <1>8 DEF SharedStep, RemoveCheck, RemoveEntry, CleanKill, CleanCollect, RemoveArtifacts,
              MarkRead, MarkWrite
<1>9. ASSUME NEW g \in Guests, WatcherStep(g) \/ GuestExits(g)
      PROVE  UNCHANGED <<creates, crashes, history>>
  BY <1>9 DEF WatcherStep, WatchLock, WatchReturns, ExitRead, ExitWrite, GuestExits
<1>10. ASSUME NEW j \in Jobs, JobEnds(j) PROVE UNCHANGED <<creates, crashes, history>>
  BY <1>10 DEF JobEnds
<1>11. QED
  BY <1>2, <1>3, <1>4, <1>5, <1>6, <1>7, <1>8, <1>9, <1>10 DEF Next

\* A step keeps BornInv: only a guest that was spawned is named.
LEMMA BornStep ==
  ASSUME TypeOK, ControlInv, BornInv, Next
  PROVE  BornInv'
<1> SUFFICES ASSUME NEW g \in Guests, proc'[g] = "unborn"
             PROVE  /\ \A i \in Ids : registry'[i] # g
                    /\ \A t \in Threads : thread'[t].handle # g /\ thread'[t].guest # g
                    /\ thread'[g].pc = "idle"
  BY DEF BornInv
<1> DEFINE Unnamed == /\ \A t \in Threads : thread'[t].handle # g /\ thread'[t].guest # g
                      /\ thread'[g].pc = "idle"
<1>1. g \in Threads /\ g # None
  BY KindFacts, NoneFacts
<1>2. /\ proc[g] = "unborn"
      /\ \A w \in Workers : Spawn(w) => thread'[w].guest # g
  <2>1. CASE \E w \in Workers : Spawn(w)
    BY <2>1, SpawnAdvances DEF TypeOK
  <2>2. CASE ~ \E w \in Workers : Spawn(w)
    BY <2>2, ProcStep DEF Ends
  <2>3. QED
    BY <2>1, <2>2
<1>3. /\ \A i \in Ids : registry[i] # g
      /\ \A t \in Threads : thread[t].handle # g /\ thread[t].guest # g
      /\ thread[g].pc = "idle"
  BY <1>2 DEF BornInv
<1>4. \A i \in Ids : registry'[i] # g
  BY <1>1, <1>3, KindFacts, RegistryStep
<1>5. ASSUME NEW t \in Threads, Single(t) PROVE Unnamed
  <2>1. Advances(t) /\ NamesKnown(t) /\ thread[t].pc # "idle"
    BY <1>5, SingleAdvances DEF Keeps
  <2>2. QED
    BY <1>1, <1>3, <2>1 DEF Advances, Others, NamesKnown
<1>6. ASSUME NEW w \in Workers, Request(w) PROVE Unnamed
  BY <1>1, <1>3, <1>6, KindFacts, RequestAdvances DEF Advances, Others
<1>7. ASSUME NEW w \in Workers, LockInstance(w) PROVE Unnamed
  BY <1>1, <1>3, <1>7, KindFacts, LockInstanceAdvances DEF Advances, Others
<1>8. ASSUME NEW w \in Workers, LockId(w) PROVE Unnamed
  BY <1>1, <1>3, <1>8, KindFacts, LockIdAdvances DEF Advances, Others
<1>9. ASSUME NEW w \in Workers, Spawn(w) PROVE Unnamed
  BY <1>1, <1>2, <1>3, <1>9, KindFacts, SpawnAdvances DEF Advances, Others
<1>10. ASSUME NEW w \in Workers, SpawnWatcher(w) PROVE Unnamed
  BY <1>1, <1>3, <1>10, KindFacts, SpawnWatcherAdvances, IdleGood
<1>11. ASSUME NEW w \in Workers, SpawnJob(w) PROVE Unnamed
  BY <1>1, <1>3, <1>11, KindFacts, SpawnJobAdvances
<1>12. ASSUME NEW w \in Workers, DestroyReply(w) PROVE Unnamed
  BY <1>1, <1>3, <1>12, KindFacts, DestroyReplyAdvances, IdleGood
<1>13. ASSUME NEW j \in Jobs, JobEnds(j) PROVE Unnamed
  BY <1>1, <1>3, <1>13, KindFacts, JobEndsAdvances, IdleGood DEF Others
<1>14. CASE Restart
  BY <1>1, <1>14, IdleGood DEF Restart
<1>15. CASE \E h \in Guests : GuestExits(h)
  BY <1>3, <1>15 DEF GuestExits
<1>16. QED
  BY NextCases, <1>4, <1>5, <1>6, <1>7, <1>8, <1>9, <1>10, <1>11, <1>12, <1>13, <1>14, <1>15

\* The invariant that every other proof starts from.
Inv == TypeOK /\ ControlInv /\ BornInv

\* The invariant holds in the initial states.
LEMMA InitInv == Init => Inv
<1> SUFFICES ASSUME Init PROVE Inv
  OBVIOUS
<1>1. TypeOK
  BY IdleType, ManagerAssumption DEF Init, TypeOK
<1>2. ControlInv
  BY IdleGood DEF Init, ControlInv
<1>3. BornInv
  BY NoneFacts, KindFacts, IdleGood DEF Init, BornInv
<1>4. QED
  BY <1>1, <1>2, <1>3 DEF Inv

\* Every step of the manager keeps the invariant.
LEMMA NextInv ==
  ASSUME Inv, [Next]_vars
  PROVE  Inv'
<1>1. CASE Next
  <2>1. ControlInv' /\ BornInv'
    BY <1>1, ThreadStep, BornStep DEF Inv
  <2>2. TypeOK'
    BY <1>1, DiskStep, ProcStep, RegistryStep, ThreadStep, LockTypeStep, CountersStep
       DEF Inv, TypeOK, DiskChanges
  <2>3. QED
    BY <2>1, <2>2 DEF Inv
<1>2. CASE UNCHANGED vars
  BY <1>2 DEF Inv, TypeOK, ControlInv, BornInv, vars, guestVars, history
<1>3. QED
  BY <1>1, <1>2

\* In every reachable state the variables have the types the model gives them.
THEOREM TypeCorrect == Spec => []TypeOK
<1>1. Spec => []Inv
  BY InitInv, NextInv, PTL DEF Spec
<1>2. QED
  BY <1>1, PTL DEF Inv

-----------------------------------------------------------------------------
(* What the locks of dispatch exclude. *)

\* A request that has got past its lock holds it, if the lock is not reclaimed.
LockInv ==
    \A w \in Workers :
        /\ LockKept /\ thread[w].pc \notin {"idle", "lock"} /\ thread[w].op \in Locked
               => lock[thread[w].id] = w
        /\ thread[w].pc \notin {"idle", "id_lock"} /\ thread[w].op \in Creating
               => idLock = w

\* A request that takes an instance lock names an instance.
LEMMA LockedId ==
  ASSUME ControlInv, NEW w \in Workers, thread[w].pc # "idle", thread[w].op \in Locked
  PROVE  thread[w].id \in Ids
  BY KindFacts DEF ControlInv, Good, WorkerFlow, Fields, Locked, Creating, Pruning

\* Every step keeps LockInv: a guard is given back only by its owner, or by a restart,
\* which ends every thread.
LEMMA LockStep ==
  ASSUME Inv, LockInv, [Next]_vars
  PROVE  LockInv'
<1> DEFINE Held(w) ==
      /\ LockKept /\ thread'[w].pc \notin {"idle", "lock"} /\ thread'[w].op \in Locked
             => lock'[thread'[w].id] = w
      /\ thread'[w].pc \notin {"idle", "id_lock"} /\ thread'[w].op \in Creating
             => idLock' = w
<1> SUFFICES ASSUME NEW u \in Workers PROVE Held(u)
  BY DEF LockInv
<1> USE DEF Inv
<1>1. /\ LockKept /\ thread[u].pc \notin {"idle", "lock"} /\ thread[u].op \in Locked
            => lock[thread[u].id] = u /\ thread[u].id \in Ids
      /\ thread[u].pc \notin {"idle", "id_lock"} /\ thread[u].op \in Creating => idLock = u
      /\ u \in Threads /\ Idle.pc = "idle" /\ u # None
  BY LockedId, KindFacts, NoneFacts, IdleGood DEF LockInv
<1>2. CASE thread'[u] = thread[u] /\ lock' = lock /\ idLock' = idLock
  BY <1>1, <1>2
<1>3. ASSUME NEW t \in Threads, thread'[u] = thread[u], t # u,
             lock' = [i \in Ids |-> IF lock[i] = t THEN None ELSE lock[i]],
             idLock' = idLock \/ (idLock = t /\ idLock' = None)
      PROVE  Held(u)
  BY <1>1, <1>3
<1>4. CASE thread'[u] = Idle
  BY <1>1, <1>4
<1>5. ASSUME NEW t \in Threads, Single(t) PROVE Held(u)
  <2>1. Keeps(t) /\ Advances(t)
    BY <1>5, SingleAdvances
  <2>2. CASE Returns(t)
    BY <1>1, <1>3, <1>4, <2>2 DEF Returns, Others
  <2>3. CASE Continues(t) /\ t # u
    BY <1>1, <1>2, <2>1, <2>3 DEF Continues, Advances, Others
  <2>4. CASE Continues(t) /\ t = u
    BY <1>1, <2>1, <2>4 DEF Continues, Keeps
  <2>5. QED
    BY <2>1, <2>2, <2>3, <2>4 DEF Keeps
<1>6. ASSUME NEW w \in Workers, Request(w) PROVE Held(u)
  <2>1. CASE w # u
    BY <1>1, <1>2, <1>6, <2>1, KindFacts, RequestAdvances DEF Advances, Others
  <2>2. CASE w = u
    <3>1. Good(u, thread'[u]) /\ thread'[u].pc \in {"lock", "id_lock", "scan"}
      BY <1>6, <2>2, RequestAdvances DEF Advances
    <3>2. QED
      BY <3>1 DEF Good, WorkerFlow, Locked, Creating, Pruning
  <2>3. QED
    BY <2>1, <2>2
<1>7. ASSUME NEW w \in Workers, LockInstance(w) PROVE Held(u)
  <2>1. CASE w # u
    <3>1. thread'[u] = thread[u] /\ lock' = [lock EXCEPT ![thread[w].id] = w]
          /\ idLock' = idLock /\ (LockKept => lock[thread[w].id] = None)
      BY <1>1, <1>7, <2>1, KindFacts, LockInstanceAdvances DEF Advances, Others
    <3>2. QED
      BY <1>1, <3>1 DEF TypeOK
  <2>2. CASE w = u
    <3>1. /\ thread[u].op \in Locked /\ thread'[u].op = thread[u].op /\ thread[u].pc = "lock"
          /\ thread'[u].id = thread[u].id /\ lock' = [lock EXCEPT ![thread[u].id] = u]
      BY <1>7, <2>2, LockInstanceAdvances DEF At
    <3>2. thread[u].id \in Ids
      BY <3>1, LockedId
    <3>3. QED
      BY <3>1, <3>2 DEF TypeOK, Locked, Creating
  <2>3. QED
    BY <2>1, <2>2
<1>8. ASSUME NEW w \in Workers, LockId(w) PROVE Held(u)
  <2>1. CASE w # u
    BY <1>1, <1>8, <2>1, KindFacts, LockIdAdvances DEF Advances, Others
  <2>2. CASE w = u
    BY <1>8, <2>2, LockIdAdvances DEF Locked, Creating
  <2>3. QED
    BY <2>1, <2>2
<1>9. ASSUME NEW w \in Workers, Spawn(w) PROVE Held(u)
  <2>1. CASE w # u
    BY <1>1, <1>2, <1>9, <2>1, KindFacts, SpawnAdvances DEF Advances, Others
  <2>2. CASE w = u
    BY <1>1, <1>9, <2>2, SpawnAdvances DEF At
  <2>3. QED
    BY <2>1, <2>2
<1>10. ASSUME NEW w \in Workers, SpawnWatcher(w) PROVE Held(u)
  <2>1. CASE w # u
    BY <1>1, <1>3, <1>10, <2>1, KindFacts, SpawnWatcherAdvances
  <2>2. CASE w = u
    BY <1>4, <1>10, <2>2, SpawnWatcherAdvances
  <2>3. QED
    BY <2>1, <2>2
<1>11. ASSUME NEW w \in Workers, SpawnJob(w) PROVE Held(u)
  <2>1. CASE w # u
    BY <1>1, <1>2, <1>11, <2>1, KindFacts, SpawnJobAdvances
  <2>2. CASE w = u
    BY <1>1, <1>11, <2>2, SpawnJobAdvances DEF At
  <2>3. QED
    BY <2>1, <2>2
<1>12. ASSUME NEW w \in Workers, DestroyReply(w) PROVE Held(u)
  <2>1. CASE thread'[u] = Idle
    BY <1>4, <2>1
  <2>2. CASE thread'[u] # Idle
    BY <1>1, <1>3, <1>12, <2>2, KindFacts, DestroyReplyAdvances
  <2>3. QED
    BY <2>1, <2>2
<1>13. ASSUME NEW j \in Jobs, JobEnds(j) PROVE Held(u)
  BY <1>1, <1>2, <1>13, KindFacts, JobEndsAdvances DEF Others
<1>14. CASE Restart
  BY <1>1, <1>4, <1>14 DEF Restart
<1>15. CASE (\E h \in Guests : GuestExits(h)) \/ UNCHANGED vars
  BY <1>2, <1>15 DEF GuestExits, vars
<1>16. QED
  BY NextCases, <1>5, <1>6, <1>7, <1>8, <1>9, <1>10, <1>11, <1>12, <1>13, <1>14, <1>15

\* The guest of a start has no watcher yet, and no other start has it.
OwnInv ==
    \A w \in Workers, g \in Guests : thread[w].guest = g =>
        /\ thread[g].pc = "idle"
        /\ \A u \in Workers : thread[u].guest = g => u = w

\* Every step keeps OwnInv.
LEMMA OwnStep ==
  ASSUME Inv, OwnInv, [Next]_vars
  PROVE  OwnInv'
<1> SUFFICES ASSUME NEW w \in Workers, NEW g \in Guests, thread'[w].guest = g
             PROVE  /\ thread'[g].pc = "idle"
                    /\ \A u \in Workers : thread'[u].guest = g => u = w
  BY DEF OwnInv
<1> DEFINE Goal == /\ thread'[g].pc = "idle"
                   /\ \A u \in Workers : thread'[u].guest = g => u = w
<1> USE DEF Inv
<1>1. /\ g # None /\ g \in Threads /\ g \notin Workers
      /\ \A u \in Workers : u \in Threads
      /\ Idle.pc = "idle" /\ Idle.guest = None
      /\ \A u \in Workers : thread[u].guest = g =>
            /\ thread[g].pc = "idle"
            /\ \A v \in Workers : thread[v].guest = g => v = u
  BY KindFacts, NoneFacts, IdleGood DEF OwnInv
<1>2. CASE /\ \A u \in Workers : thread'[u].guest \in {thread[u].guest, None}
           /\ thread[g].pc = "idle" => thread'[g].pc = "idle"
  BY <1>1, <1>2
<1>3. ASSUME NEW t \in Threads, Single(t) PROVE Goal
  <2>1. Advances(t) /\ NamesKnown(t) /\ thread[t].pc # "idle"
    BY <1>3, SingleAdvances DEF Keeps
  <2>2. QED
    BY <1>1, <1>2, <2>1 DEF Advances, Others, NamesKnown
<1>4. ASSUME NEW v \in Workers, Request(v) PROVE Goal
  BY <1>1, <1>2, <1>4, RequestAdvances DEF Advances, Others
<1>5. ASSUME NEW v \in Workers, LockInstance(v) PROVE Goal
  BY <1>1, <1>2, <1>5, LockInstanceAdvances DEF Advances, Others
<1>6. ASSUME NEW v \in Workers, LockId(v) PROVE Goal
  BY <1>1, <1>2, <1>6, LockIdAdvances DEF Advances, Others
<1>7. ASSUME NEW v \in Workers, Spawn(v) PROVE Goal
  <2>1. /\ proc[thread'[v].guest] = "unborn" /\ thread'[v].guest \in Guests
        /\ Others(v) /\ v \in Threads /\ v # g
    BY <1>1, <1>7, SpawnAdvances DEF Advances
  <2>2. /\ \A t \in Threads : thread[t].guest # thread'[v].guest
        /\ thread[thread'[v].guest].pc = "idle"
    BY <2>1 DEF BornInv
  <2>3. QED
    BY <1>1, <2>1, <2>2 DEF Others
<1>8. ASSUME NEW v \in Workers, SpawnWatcher(v) PROVE Goal
  <2> DEFINE h == thread[v].guest
  <2>1. /\ h \in Guests /\ h \in Threads /\ h \notin Workers /\ thread'[v] = Idle
        /\ \A u \in Threads \ {v, h} : thread'[u] = thread[u]
    BY <1>8, KindFacts, SpawnWatcherAdvances
  <2>2. thread'[w] = thread[w] /\ w # v
    BY <1>1, <2>1
  <2>3. g # h
    BY <1>1, <2>1, <2>2
  <2>4. QED
    BY <1>1, <2>1, <2>2, <2>3
<1>9. ASSUME NEW v \in Workers, SpawnJob(v) PROVE Goal
  BY <1>1, <1>2, <1>9, KindFacts, SpawnJobAdvances
<1>10. ASSUME NEW v \in Workers, DestroyReply(v) PROVE Goal
  BY <1>1, <1>2, <1>10, DestroyReplyAdvances
<1>11. ASSUME NEW j \in Jobs, JobEnds(j) PROVE Goal
  BY <1>1, <1>2, <1>11, KindFacts, JobEndsAdvances DEF Others
<1>12. CASE Restart
  BY <1>1, <1>12 DEF Restart
<1>13. CASE (\E h \in Guests : GuestExits(h)) \/ UNCHANGED vars
  BY <1>1, <1>2, <1>13 DEF GuestExits, vars
<1>14. QED
  BY NextCases, <1>3, <1>4, <1>5, <1>6, <1>7, <1>8, <1>9, <1>10, <1>11, <1>12, <1>13

-----------------------------------------------------------------------------
(* One live guest per instance. *)

\* start_instance leaves no killable guest running before it spawns its own.
SpawnInv ==
    \A w \in Workers : At(w, "spawn") => Alive(thread[w].id) \subseteq Unkillable

\* Either every start takes id_lock, or every one the lock of its instance, which is kept.
OneLock == "Start" \notin Ops \/ ("CreateStart" \notin Ops /\ LockKept)

\* Alive(i) in the next state.
StillAlive(i) == {g \in Guests : home'[g] = i /\ proc'[g] \in {"running", "left"}}

\* Without a spawn, no instance gets a live guest.
LEMMA AliveStep ==
  ASSUME TypeOK, ControlInv, Next
  PROVE  (\E w \in Workers : Spawn(w)) \/ (\A i \in Ids : StillAlive(i) \subseteq Alive(i))
  BY ProcStep DEF Alive, StillAlive, Ends

\* A guest is spawned for the instance of the thread that spawns it.
LEMMA SpawnAlive ==
  ASSUME TypeOK, ControlInv, NEW w \in Workers, Spawn(w), NEW i \in Ids
  PROVE  /\ i # thread[w].id => StillAlive(i) \subseteq Alive(i)
         /\ StillAlive(i) \subseteq Alive(i) \cup {thread'[w].guest}
  BY SpawnAdvances DEF Alive, StillAlive, TypeOK

\* The step that a thread takes from some of its pcs.
LEMMA StepTaken ==
  ASSUME NEW t \in Threads, Single(t)
  PROVE  /\ At(t, "preflight") => Preflight(t)
         /\ At(t, "spawn") => SpawnFails(t) \/ PrepareFails(t)
         /\ At(t, "skip_adb") => SkipAdb(t)
         /\ At(t, "running") => WriteRunning(t)
         /\ At(t, "record") => RecordFailure(t)
         /\ At(t, "rmw_read") => UpdateRead(t)
         /\ At(t, "prep_kill") => PrepareKill(t)
         /\ At(t, "clean_kill") => CleanKill(t)
         /\ At(t, "clean_collect") => CleanCollect(t)
         /\ At(t, "start_write") => StartWrite(t)
         /\ At(t, "artifacts") => RemoveArtifacts(t)
         /\ At(t, "destroy_wait") => DestroyTimeout(t)
<1> USE DEF At
<1>1. CASE t \in Workers /\ Alone(t)
  BY <1>1 DEF Alone, Allocate, AllocateFails, MakeDir, CreateWrite, StartContains, StartRead,
     StartWrite, Preflight, PrepareFails, SpawnFails, Insert, SkipAdb, WriteRunning, VerifyBoot,
     AdbRead, AdbGet, AdbTry, AdbDeadline, RecordFailure, StartFailed, TermGet, TermWait,
     KillWait, StopRead, StopWrite, StopIncomplete, UpdateRead, UpdateWrite, PrepareRead, PrepareExists,
     PrepareWrite, PrepareKill, DestroyTimeout, Scan, PruneEntry, PruneDone
<1>2. CASE SharedStep(t)
  BY <1>2 DEF SharedStep, RemoveCheck, RemoveEntry, CleanKill, CleanCollect, RemoveArtifacts,
     MarkRead, MarkWrite
<1>3. CASE WatcherStep(t)
  BY <1>3 DEF WatcherStep, WatchLock, WatchReturns, ExitRead, ExitWrite
<1>4. QED
  BY <1>1, <1>2, <1>3 DEF Single

\* These steps of the code are reached by a thread alone.
LEMMA ReachedAlone ==
  ASSUME Inv, Next, NEW u \in Threads, thread'[u] # thread[u],
         thread'[u].pc \in {"preflight", "spawn", "rmw_write", "artifacts"}
  PROVE  Single(u)
<1> USE DEF Inv
<1>1. Idle.pc = "idle"
  BY IdleGood
<1>2. ASSUME NEW w \in Workers,
             \/ Request(w) \/ LockInstance(w) \/ LockId(w) \/ Spawn(w) \/ SpawnWatcher(w)
             \/ SpawnJob(w) \/ DestroyReply(w)
      PROVE  FALSE
  <2>1. CASE Request(w)
    BY <2>1, RequestAdvances DEF Advances, Others
  <2>2. CASE LockInstance(w)
    BY <2>2, LockInstanceAdvances DEF Advances, Others, Entered, At
  <2>3. CASE LockId(w)
    BY <2>3, LockIdAdvances DEF Advances, Others
  <2>4. CASE Spawn(w)
    BY <2>4, SpawnAdvances DEF Advances, Others
  <2>5. CASE SpawnWatcher(w)
    BY <1>1, <2>5, SpawnWatcherAdvances
  <2>6. CASE SpawnJob(w)
    BY <2>6, SpawnJobAdvances
  <2>7. CASE DestroyReply(w)
    BY <1>1, <2>7, DestroyReplyAdvances
  <2>8. QED
    BY <1>2, <2>1, <2>2, <2>3, <2>4, <2>5, <2>6, <2>7
<1>3. ASSUME NEW j \in Jobs, JobEnds(j) PROVE FALSE
  BY <1>1, <1>3, JobEndsAdvances DEF Others
<1>4. CASE Restart \/ \E g \in Guests : GuestExits(g)
  BY <1>1, <1>4 DEF Restart, GuestExits
<1>5. PICK t \in Threads : Single(t)
  BY NextCases, <1>2, <1>3, <1>4
<1>6. QED
  BY <1>5, SingleAdvances DEF Advances, Others

\* Every step keeps SpawnInv: preflight_cleanup leaves nothing that SIGKILL can end, and
\* no other start of the instance spawns before this one does.
LEMMA SpawnStep ==
  ASSUME Inv, LockInv, SpawnInv, OneLock, Next
  PROVE  SpawnInv'
<1> SUFFICES ASSUME NEW u \in Workers, thread'[u].pc = "spawn"
             PROVE  StillAlive(thread'[u].id) \subseteq Unkillable
  BY DEF SpawnInv, At, Alive, StillAlive
<1> USE DEF Inv
<1>1. u \in Threads
  BY KindFacts
<1>2. CASE thread'[u] = thread[u]
  <2>1. /\ thread[u].pc = "spawn" /\ thread[u].op \in Starts /\ thread[u].id \in Ids
        /\ Alive(thread[u].id) \subseteq Unkillable
    BY <1>1, <1>2 DEF SpawnInv, At, ControlInv, Good, WorkerFlow, Fields
  <2>2. CASE \A i \in Ids : StillAlive(i) \subseteq Alive(i)
    BY <1>2, <2>1, <2>2
  <2>3. CASE \E w \in Workers : Spawn(w)
    <3>1. PICK w \in Workers : Spawn(w)
      BY <2>3
    <3>2. thread[w].pc = "spawn" /\ thread[w].op \in Starts /\ w # u
      BY <1>2, <2>1, <3>1, SpawnAdvances DEF At
    <3>3. thread[w].op \in Ops /\ thread[u].op \in Ops
      BY <1>1, <2>1, <3>2, KindFacts, OpFacts DEF Starts, Requests, Creating, Locked
    <3>4. thread[w].id # thread[u].id
      BY <2>1, <3>2, <3>3 DEF LockInv, OneLock, Starts, Locked, Creating
    <3>5. QED
      BY <1>2, <2>1, <3>1, <3>4, SpawnAlive
  <2>4. QED
    BY <2>2, <2>3, AliveStep
<1>3. CASE thread'[u] # thread[u]
  <2>1. Single(u)
    BY <1>1, <1>3, ReachedAlone
  <2>2. thread[u].pc = "preflight"
    BY <1>1, <2>1, SingleAdvances DEF Advances, Entered
  <2>3. Preflight(u)
    BY <1>1, <2>1, <2>2, StepTaken DEF At
  <2>4. thread'[u].id = thread[u].id
    BY <1>1, <2>1, <2>2, SingleAdvances DEF Steady
  <2>5. StillAlive(thread[u].id) \subseteq Unkillable
    BY <2>3 DEF Preflight, Killed, Alive, StillAlive
  <2>6. QED
    BY <2>4, <2>5
<1>4. QED
  BY <1>2, <1>3

OneLive ==
    \A i \in Ids : \A g, h \in Alive(i) \ Unkillable : g = h

\* Every step keeps OneLive.
LEMMA OneLiveStep ==
  ASSUME Inv, SpawnInv, OneLive, Next
  PROVE  OneLive'
<1> SUFFICES ASSUME NEW i \in Ids, NEW g \in StillAlive(i) \ Unkillable,
                    NEW h \in StillAlive(i) \ Unkillable
             PROVE  g = h
  BY DEF OneLive, Alive, StillAlive
<1>1. CASE StillAlive(i) \subseteq Alive(i)
  BY <1>1 DEF OneLive
<1>2. CASE \E w \in Workers : Spawn(w)
  <2>1. PICK w \in Workers : Spawn(w)
    BY <1>2
  <2>2. thread[w].pc = "spawn" /\ thread[w].id \in Ids
    BY <2>1, SpawnAdvances DEF Inv, At
  <2>3. CASE i = thread[w].id
    <3>1. Alive(i) \subseteq Unkillable
      BY <2>2, <2>3 DEF SpawnInv, At
    <3>2. QED
      BY <2>1, <3>1, SpawnAlive DEF Inv
  <2>4. CASE i # thread[w].id
    BY <1>1, <2>1, <2>4, SpawnAlive DEF Inv
  <2>5. QED
    BY <2>3, <2>4
<1>3. QED
  BY <1>1, <1>2, AliveStep DEF Inv

LiveInv == Inv /\ LockInv /\ SpawnInv /\ OneLive

\* LiveInv holds in the initial states.
LEMMA LiveInvInit == Init => LiveInv
<1> SUFFICES ASSUME Init PROVE LiveInv
  OBVIOUS
<1>1. \A w \in Workers : thread[w].pc = "idle"
  BY KindFacts, IdleGood DEF Init
<1>2. \A i \in Ids : Alive(i) = {}
  BY DEF Init, Alive
<1>3. QED
  BY <1>1, <1>2, InitInv DEF LiveInv, LockInv, SpawnInv, OneLive, At

\* Every step keeps LiveInv.
LEMMA LiveInvNext ==
  ASSUME OneLock, LiveInv, [Next]_vars
  PROVE  LiveInv'
<1>1. Inv' /\ LockInv'
  BY NextInv, LockStep DEF LiveInv
<1>2. CASE Next
  BY <1>1, <1>2, SpawnStep, OneLiveStep DEF LiveInv
<1>3. CASE UNCHANGED vars
  BY <1>1, <1>3 DEF LiveInv, SpawnInv, OneLive, At, Alive, vars, guestVars
<1>4. QED
  BY <1>2, <1>3

\* Provided that starts share one lock (all come as "create and start", under id_lock; or
\* all as "start", under the lock of their instance, and cleanup_instance_lock reclaims no
\* mutex that is in use, which dispatch does not rule out), at most one guest that SIGKILL
\* can end runs for an instance, whatever stops, destroys, prunes, exits, timeouts and
\* restarts of the daemon are going on (start_instance, preflight_cleanup).
THEOREM OneGuestLives ==
  ASSUME OneLock
  PROVE  Spec => []OneLiveGuest
<1>1. Spec => []LiveInv
  BY LiveInvInit, LiveInvNext, PTL DEF Spec
<1>2. LiveInv => OneLiveGuest
  <2> SUFFICES ASSUME LiveInv, NEW i \in Ids
               PROVE  Cardinality(Alive(i) \ Unkillable) <= 1
    BY DEF OneLiveGuest
  <2>1. CASE Alive(i) \ Unkillable = {}
    BY <2>1, FS_EmptySet
  <2>2. CASE Alive(i) \ Unkillable # {}
    <3>1. PICK g : g \in Alive(i) \ Unkillable
      BY <2>2
    <3>2. Alive(i) \ Unkillable = {g}
      BY <3>1 DEF LiveInv, OneLive
    <3>3. Cardinality({g}) = 1
      BY FS_Singleton
    <3>4. QED
      BY <3>2, <3>3
  <2>3. QED
    BY <2>1, <2>2
<1>3. QED
  BY <1>1, <1>2, PTL

=============================================================================
