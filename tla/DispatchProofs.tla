---------------------------- MODULE DispatchProofs ----------------------------
(***************************************************************************)
(* The properties of Dispatch for any number of slots, tasks and mutexes.  *)
(***************************************************************************)
EXTENDS Dispatch, TLAPS

\* What a worker has at each step: a reference to the mutex from the entry to the end
\* of the handler, the lock itself while the handler runs, and an id.
HoldInv ==
    /\ \A w \in Workers : arc[w] # None <=> pc[w] \in {"acquire", "handler"}
    /\ \A w \in Workers : pc[w] = "handler" => holder[arc[w]] = w
    /\ \A m \in Mutexes, w \in Workers : holder[m] = w => arc[w] = m /\ pc[w] = "handler"
    /\ \A w \in Workers :
          pc[w] \in {"entry", "acquire", "handler", "cleanup", "remove",
                     "truncate", "write", "mkdir"} => id[w] \in Ids

\* A mutex in the map is in it once and not among the reclaimed ones; one that a
\* worker refers to is the one in the map, or is reclaimed.
MapInv ==
    /\ \A i, j \in Ids : map[i] # None /\ map[i] = map[j] => i = j
    /\ \A i \in Ids : map[i] \notin reclaimed
    /\ \A w \in Workers : arc[w] # None => arc[w] \in reclaimed \/ map[id[w]] = arc[w]

\* Whoever will take a lock out of the map, if no request has failed.
Keeper(w, i) == id[w] = i /\ (arc[w] = map[i] \/ pc[w] \in {"cleanup", "remove"})
LeakInv == \A i \in Ids : map[i] # None => i \in failed \/ \E w \in Workers : Keeper(w, i)

\* A create holds id_lock from the reading of the file to its return.
CreateInv ==
    /\ \A w \in Workers :
          pc[w] \in {"read", "scan", "truncate", "write", "mkdir", "created", "full"}
              => idHolder = w
    /\ FreshUnlessRevived

\* The scan has found occupied the tried[w] ids before the candidate, around the wrap.
ScanInv ==
    /\ \A w \in Workers : pc[w] = "scan" =>
          \A i \in Ids :
              LET c == InRange(candidate[w]) IN
              (i < c /\ i >= c - tried[w]) \/ i >= c + Slots - tried[w] => i \in seen[w]
    /\ NoFalseFull

-----------------------------------------------------------------------------
\* The step of the scan: the id after c, around the wrap.
LEMMA AfterLemma ==
  ASSUME NEW c \in Ids
  PROVE  After(c) = (IF c = Slots THEN 1 ELSE c + 1) /\ After(c) \in Ids
<1> USE DispatchAssumption DEF After, Ids
<1>1. CASE c = Slots
  <2>1. c % Slots = 0
    BY <1>1
  <2>2. QED
    BY <1>1, <2>1
<1>2. CASE c # Slots
  <2>1. c % Slots = c
    BY <1>2
  <2>2. QED
    BY <1>2, <2>1
<1>3. QED
  BY <1>1, <1>2

LEMMA InRangeLemma ==
  ASSUME NEW c \in 0 .. Slots + 1
  PROVE  InRange(c) \in Ids /\ (c \in Ids => InRange(c) = c)
  BY DispatchAssumption DEF InRange, Ids
-----------------------------------------------------------------------------
\* TypeOK is inductive with the ids that HoldInv gives to the steps.
LEMMA TypeStep ==
  ASSUME TypeOK, HoldInv, [Next]_vars
  PROVE  TypeOK'
<1> USE DispatchAssumption DEF TypeOK, HoldInv, Goto, DropGuard, Steps, locks, files, scan, history, ghosts
<1>1. ASSUME NEW w \in Workers, LockEntry(w) PROVE TypeOK'
  <2>1. PICK m \in Mutexes :
          /\ map' = map \/ map' = [map EXCEPT ![id[w]] = m]
          /\ failed' = failed \/ failed' = failed \ {id[w]}
          /\ reclaimed' = reclaimed \/ reclaimed' = reclaimed \ {m}
          /\ arc' = [arc EXCEPT ![w] = m]
    BY <1>1 DEF LockEntry
  <2>2. /\ pc' = [pc EXCEPT ![w] = "acquire"]
        /\ UNCHANGED <<holder, idHolder, dirs, next, id, candidate, tried, seen, removed, revived>>
    BY <1>1 DEF LockEntry
  <2>3. /\ map' \in [Ids -> Mutexes \cup {None}]
        /\ arc' \in [Workers -> Mutexes \cup {None}]
    BY <2>1
  <2>4. failed' \subseteq Ids /\ reclaimed' \subseteq Mutexes
    BY <2>1
  <2>5. pc' \in [Workers -> Steps]
    BY <2>2
  <2>6. QED
    BY <2>2, <2>3, <2>4, <2>5
<1>2. ASSUME NEW w \in Workers, HandlerReturns(w) PROVE TypeOK'
  BY <1>2 DEF HandlerReturns
<1>3. ASSUME NEW w \in Workers, HandlerFails(w) PROVE TypeOK'
  BY <1>3 DEF HandlerFails
<1>4. ASSUME NEW w \in Workers, CleanupGet(w) PROVE TypeOK'
  BY <1>4 DEF CleanupGet
<1>5. ASSUME NEW w \in Workers, CleanupRemove(w) PROVE TypeOK'
  <2>1. id[w] \in Ids
    BY <1>5 DEF CleanupRemove
  <2>2. map' \in [Ids -> Mutexes \cup {None}]
    BY <1>5, <2>1 DEF CleanupRemove
  <2>3. map[id[w]] \in Mutexes \cup {None}
    BY <2>1
  <2>4. reclaimed' \subseteq Mutexes
    <3>1. reclaimed' \in {reclaimed, reclaimed \cup {map[id[w]]}}
          /\ (map[id[w]] = None => reclaimed' = reclaimed)
      BY <1>5 DEF CleanupRemove
    <3>2. QED
      BY <2>3, <3>1
  <2>5. pc' \in [Workers -> Steps] /\ id' \in [Workers -> Ids \cup {None}]
    BY <1>5 DEF CleanupRemove
  <2>6. UNCHANGED <<arc, holder, idHolder, failed, dirs, next, candidate, tried, seen, ghosts>>
    BY <1>5 DEF CleanupRemove
  <2>7. QED
    BY <2>2, <2>4, <2>5, <2>6
<1>6. ASSUME NEW w \in Workers, Request(w) PROVE TypeOK'
  <2>1. /\ id' = id \/ \E i \in Ids : id' = [id EXCEPT ![w] = i]
        /\ pc' = [pc EXCEPT ![w] = "entry"] \/ pc' = [pc EXCEPT ![w] = "id_lock"]
        /\ UNCHANGED <<map, holder, idHolder, dirs, next, arc, candidate, tried, seen, history, ghosts>>
    BY <1>6 DEF Request
  <2>2. QED
    BY <2>1
<1>7. ASSUME NEW w \in Workers, Acquire(w) PROVE TypeOK'
  BY <1>7 DEF Acquire
<1>8. ASSUME NEW w \in Workers, LockId(w) PROVE TypeOK'
  BY <1>8 DEF LockId
<1>9. ASSUME NEW w \in Workers, ReadNext(w) PROVE TypeOK'
  BY <1>9 DEF ReadNext
<1>10. ASSUME NEW w \in Workers, ScanOccupied(w) PROVE TypeOK'
  <2> DEFINE c == InRange(candidate[w])
  <2>1. candidate[w] \in 0 .. Slots + 1
    OBVIOUS
  <2>2. c \in Ids /\ After(c) \in Ids /\ After(c) \in 0 .. Slots + 1
    <3>1. c \in Ids
      BY <2>1, InRangeLemma
    <3>2. After(c) \in Ids
      BY <3>1, AfterLemma
    <3>3. QED
      BY <3>1, <3>2 DEF Ids
  <2>3. tried[w] + 1 \in 0 .. Slots
    BY <1>10 DEF ScanOccupied
  <2>4. /\ candidate' = [candidate EXCEPT ![w] = After(c)]
        /\ seen' = [seen EXCEPT ![w] = @ \cup {c}]
        /\ tried' = [tried EXCEPT ![w] = @ + 1]
        /\ pc' = [pc EXCEPT ![w] = "scan"]
        /\ UNCHANGED <<map, holder, idHolder, dirs, next, id, arc, failed, reclaimed,
                       removed, revived>>
    BY <1>10 DEF ScanOccupied
  <2> HIDE DEF c
  <2>5. QED
    BY <2>2, <2>3, <2>4
<1>11. ASSUME NEW w \in Workers, ScanFree(w) PROVE TypeOK'
  <2> DEFINE c == InRange(candidate[w])
  <2>1. candidate[w] \in 0 .. Slots + 1
    OBVIOUS
  <2>2. c \in Ids /\ After(c) \in Ids /\ After(c) \in 0 .. Slots + 1
    <3>1. c \in Ids
      BY <2>1, InRangeLemma
    <3>2. After(c) \in Ids
      BY <3>1, AfterLemma
    <3>3. QED
      BY <3>1, <3>2 DEF Ids
  <2>3. /\ candidate' = [candidate EXCEPT ![w] = After(c)]
        /\ id' = [id EXCEPT ![w] = c]
        /\ pc' = [pc EXCEPT ![w] = "truncate"]
        /\ UNCHANGED <<map, holder, idHolder, dirs, next, arc, tried, seen, failed, reclaimed,
                       removed, revived>>
    BY <1>11 DEF ScanFree
  <2> HIDE DEF c
  <2>4. QED
    BY <2>2, <2>3
<1>12. ASSUME NEW w \in Workers, NoSlot(w) PROVE TypeOK'
  BY <1>12 DEF NoSlot
<1>13. ASSUME NEW w \in Workers, Truncate(w) PROVE TypeOK'
  BY <1>13 DEF Truncate
<1>14. ASSUME NEW w \in Workers, WriteNext(w) PROVE TypeOK'
  BY <1>14 DEF WriteNext
<1>15. ASSUME NEW w \in Workers, MakeDir(w) PROVE TypeOK'
  BY <1>15 DEF MakeDir
<1>16. ASSUME NEW w \in Workers, CreateReturns(w) PROVE TypeOK'
  BY <1>16 DEF CreateReturns
<1>17. ASSUME NEW i \in Ids, RemoveArtifacts(i) PROVE TypeOK'
  BY <1>17 DEF RemoveArtifacts
<1>18. ASSUME NEW i \in Ids, WriteRemoved(i) PROVE TypeOK'
  BY <1>18 DEF WriteRemoved, Allotted
<1>19. CASE Restart
  BY <1>19 DEF Restart
<1>20. CASE UNCHANGED vars
  BY <1>20 DEF vars
<1>21. QED
  BY <1>1, <1>2, <1>3, <1>4, <1>5, <1>6, <1>7, <1>8, <1>9, <1>10, <1>11, <1>12, <1>13, <1>14, <1>15, <1>16, <1>17, <1>18, <1>19, <1>20 DEF Next, InstanceStep, CreateStep

\* Each step gives and takes what HoldInv says.
LEMMA HoldStep ==
  ASSUME TypeOK, HoldInv, [Next]_vars
  PROVE  HoldInv'
<1> USE DispatchAssumption DEF TypeOK, HoldInv, Goto, DropGuard, locks, files, scan, history, ghosts
<1>1. ASSUME NEW w \in Workers, LockEntry(w) PROVE HoldInv'
  BY <1>1 DEF LockEntry
<1>2. ASSUME NEW w \in Workers, HandlerReturns(w) PROVE HoldInv'
  BY <1>2 DEF HandlerReturns
<1>3. ASSUME NEW w \in Workers, HandlerFails(w) PROVE HoldInv'
  BY <1>3 DEF HandlerFails
<1>4. ASSUME NEW w \in Workers, CleanupGet(w) PROVE HoldInv'
  BY <1>4 DEF CleanupGet
<1>5. ASSUME NEW w \in Workers, CleanupRemove(w) PROVE HoldInv'
  BY <1>5 DEF CleanupRemove
<1>6. ASSUME NEW w \in Workers, Request(w) PROVE HoldInv'
  BY <1>6 DEF Request
<1>7. ASSUME NEW w \in Workers, Acquire(w) PROVE HoldInv'
  BY <1>7 DEF Acquire
<1>8. ASSUME NEW w \in Workers, LockId(w) PROVE HoldInv'
  BY <1>8 DEF LockId
<1>9. ASSUME NEW w \in Workers, ReadNext(w) PROVE HoldInv'
  BY <1>9 DEF ReadNext
<1>10. ASSUME NEW w \in Workers, ScanOccupied(w) PROVE HoldInv'
  BY <1>10 DEF ScanOccupied
<1>11. ASSUME NEW w \in Workers, ScanFree(w) PROVE HoldInv'
  BY <1>11, InRangeLemma DEF ScanFree
<1>12. ASSUME NEW w \in Workers, NoSlot(w) PROVE HoldInv'
  BY <1>12 DEF NoSlot
<1>13. ASSUME NEW w \in Workers, Truncate(w) PROVE HoldInv'
  BY <1>13 DEF Truncate
<1>14. ASSUME NEW w \in Workers, WriteNext(w) PROVE HoldInv'
  BY <1>14 DEF WriteNext
<1>15. ASSUME NEW w \in Workers, MakeDir(w) PROVE HoldInv'
  BY <1>15 DEF MakeDir
<1>16. ASSUME NEW w \in Workers, CreateReturns(w) PROVE HoldInv'
  BY <1>16 DEF CreateReturns
<1>17. ASSUME NEW i \in Ids, RemoveArtifacts(i) PROVE HoldInv'
  BY <1>17 DEF RemoveArtifacts
<1>18. ASSUME NEW i \in Ids, WriteRemoved(i) PROVE HoldInv'
  BY <1>18 DEF WriteRemoved
<1>19. CASE Restart
  BY <1>19 DEF Restart
<1>20. CASE UNCHANGED vars
  BY <1>20 DEF vars
<1>21. QED
  BY <1>1, <1>2, <1>3, <1>4, <1>5, <1>6, <1>7, <1>8, <1>9, <1>10, <1>11, <1>12, <1>13, <1>14, <1>15, <1>16, <1>17, <1>18, <1>19, <1>20 DEF Next, InstanceStep, CreateStep

\* Only an insertion and a removal change the map.
LEMMA MapStep ==
  ASSUME TypeOK, HoldInv, MapInv, [Next]_vars
  PROVE  MapInv'
<1> USE DispatchAssumption DEF TypeOK, HoldInv, MapInv, Goto, DropGuard, Fresh, Referrers, locks, files, scan, history, ghosts
<1>1. ASSUME NEW w \in Workers, LockEntry(w) PROVE MapInv'
  BY <1>1 DEF LockEntry
<1>2. ASSUME NEW w \in Workers, HandlerReturns(w) PROVE MapInv'
  BY <1>2 DEF HandlerReturns
<1>3. ASSUME NEW w \in Workers, HandlerFails(w) PROVE MapInv'
  BY <1>3 DEF HandlerFails
<1>4. ASSUME NEW w \in Workers, CleanupGet(w) PROVE MapInv'
  BY <1>4 DEF CleanupGet
<1>5. ASSUME NEW w \in Workers, CleanupRemove(w) PROVE MapInv'
  <2> DEFINE m == map[id[w]]
  <2>1. /\ pc[w] = "remove" /\ UNCHANGED arc /\ map' = [map EXCEPT ![id[w]] = None]
        /\ id' = [id EXCEPT ![w] = None]
    BY <1>5 DEF CleanupRemove
  <2>2. \/ reclaimed' = reclaimed /\ (m = None \/ Referrers(m) = {})
        \/ reclaimed' = reclaimed \cup {m} /\ m # None
    BY <1>5 DEF CleanupRemove
  <2>3. id[w] \in Ids /\ arc[w] = None /\ None \notin reclaimed
    BY <2>1
  <2>4. \A i \in Ids \ {id[w]} : map'[i] = map[i] /\ (m # None => map[i] # m)
    BY <2>1, <2>3
  <2>5. \A i \in Ids : map'[i] \notin reclaimed'
    BY <2>1, <2>2, <2>3, <2>4
  <2>6. \A v \in Workers : arc[v] # None => arc[v] \in reclaimed' \/ map'[id'[v]] = arc[v]
    BY <2>1, <2>2, <2>3, <2>4
  <2>7. QED
    BY <2>1, <2>3, <2>4, <2>5, <2>6
<1>6. ASSUME NEW w \in Workers, Request(w) PROVE MapInv'
  BY <1>6 DEF Request
<1>7. ASSUME NEW w \in Workers, Acquire(w) PROVE MapInv'
  BY <1>7 DEF Acquire
<1>8. ASSUME NEW w \in Workers, LockId(w) PROVE MapInv'
  BY <1>8 DEF LockId
<1>9. ASSUME NEW w \in Workers, ReadNext(w) PROVE MapInv'
  BY <1>9 DEF ReadNext
<1>10. ASSUME NEW w \in Workers, ScanOccupied(w) PROVE MapInv'
  BY <1>10 DEF ScanOccupied
<1>11. ASSUME NEW w \in Workers, ScanFree(w) PROVE MapInv'
  BY <1>11 DEF ScanFree
<1>12. ASSUME NEW w \in Workers, NoSlot(w) PROVE MapInv'
  BY <1>12 DEF NoSlot
<1>13. ASSUME NEW w \in Workers, Truncate(w) PROVE MapInv'
  BY <1>13 DEF Truncate
<1>14. ASSUME NEW w \in Workers, WriteNext(w) PROVE MapInv'
  BY <1>14 DEF WriteNext
<1>15. ASSUME NEW w \in Workers, MakeDir(w) PROVE MapInv'
  BY <1>15 DEF MakeDir
<1>16. ASSUME NEW w \in Workers, CreateReturns(w) PROVE MapInv'
  BY <1>16 DEF CreateReturns
<1>17. ASSUME NEW i \in Ids, RemoveArtifacts(i) PROVE MapInv'
  BY <1>17 DEF RemoveArtifacts
<1>18. ASSUME NEW i \in Ids, WriteRemoved(i) PROVE MapInv'
  BY <1>18 DEF WriteRemoved
<1>19. CASE Restart
  BY <1>19 DEF Restart
<1>20. CASE UNCHANGED vars
  BY <1>20 DEF vars
<1>21. QED
  BY <1>1, <1>2, <1>3, <1>4, <1>5, <1>6, <1>7, <1>8, <1>9, <1>10, <1>11, <1>12, <1>13, <1>14, <1>15, <1>16, <1>17, <1>18, <1>19, <1>20 DEF Next, InstanceStep, CreateStep

\* A worker that lets go of the last reference goes on to the removal, or fails.
LEMMA LeakStep ==
  ASSUME TypeOK, HoldInv, MapInv, LeakInv, [Next]_vars
  PROVE  LeakInv'
<1> USE DispatchAssumption DEF TypeOK, HoldInv, MapInv, LeakInv, Keeper, Goto, DropGuard, Fresh, Referrers, locks, files, scan, history, ghosts
<1>1. ASSUME NEW w \in Workers, LockEntry(w) PROVE LeakInv'
  BY <1>1 DEF LockEntry
<1>2. ASSUME NEW w \in Workers, HandlerReturns(w) PROVE LeakInv'
  BY <1>2 DEF HandlerReturns
<1>3. ASSUME NEW w \in Workers, HandlerFails(w) PROVE LeakInv'
  BY <1>3 DEF HandlerFails
<1>4. ASSUME NEW w \in Workers, CleanupGet(w) PROVE LeakInv'
  BY <1>4 DEF CleanupGet
<1>5. ASSUME NEW w \in Workers, CleanupRemove(w) PROVE LeakInv'
  BY <1>5 DEF CleanupRemove
<1>6. ASSUME NEW w \in Workers, Request(w) PROVE LeakInv'
  BY <1>6 DEF Request
<1>7. ASSUME NEW w \in Workers, Acquire(w) PROVE LeakInv'
  BY <1>7 DEF Acquire
<1>8. ASSUME NEW w \in Workers, LockId(w) PROVE LeakInv'
  BY <1>8 DEF LockId
<1>9. ASSUME NEW w \in Workers, ReadNext(w) PROVE LeakInv'
  BY <1>9 DEF ReadNext
<1>10. ASSUME NEW w \in Workers, ScanOccupied(w) PROVE LeakInv'
  BY <1>10 DEF ScanOccupied
<1>11. ASSUME NEW w \in Workers, ScanFree(w) PROVE LeakInv'
  BY <1>11 DEF ScanFree
<1>12. ASSUME NEW w \in Workers, NoSlot(w) PROVE LeakInv'
  BY <1>12 DEF NoSlot
<1>13. ASSUME NEW w \in Workers, Truncate(w) PROVE LeakInv'
  BY <1>13 DEF Truncate
<1>14. ASSUME NEW w \in Workers, WriteNext(w) PROVE LeakInv'
  BY <1>14 DEF WriteNext
<1>15. ASSUME NEW w \in Workers, MakeDir(w) PROVE LeakInv'
  BY <1>15 DEF MakeDir
<1>16. ASSUME NEW w \in Workers, CreateReturns(w) PROVE LeakInv'
  BY <1>16 DEF CreateReturns
<1>17. ASSUME NEW i \in Ids, RemoveArtifacts(i) PROVE LeakInv'
  BY <1>17 DEF RemoveArtifacts
<1>18. ASSUME NEW i \in Ids, WriteRemoved(i) PROVE LeakInv'
  BY <1>18 DEF WriteRemoved
<1>19. CASE Restart
  BY <1>19 DEF Restart
<1>20. CASE UNCHANGED vars
  BY <1>20 DEF vars
<1>21. QED
  BY <1>1, <1>2, <1>3, <1>4, <1>5, <1>6, <1>7, <1>8, <1>9, <1>10, <1>11, <1>12, <1>13, <1>14, <1>15, <1>16, <1>17, <1>18, <1>19, <1>20 DEF Next, InstanceStep, CreateStep

\* Creates exclude each other; what else makes a directory notes that in revived.
LEMMA CreateStepInv ==
  ASSUME TypeOK, CreateInv, [Next]_vars
  PROVE  CreateInv'
<1> USE DispatchAssumption DEF TypeOK, CreateInv, FreshUnlessRevived, Allotted, Goto, DropGuard, locks, files, scan, history, ghosts
<1>1. ASSUME NEW w \in Workers, LockEntry(w) PROVE CreateInv'
  BY <1>1 DEF LockEntry
<1>2. ASSUME NEW w \in Workers, HandlerReturns(w) PROVE CreateInv'
  BY <1>2 DEF HandlerReturns
<1>3. ASSUME NEW w \in Workers, HandlerFails(w) PROVE CreateInv'
  BY <1>3 DEF HandlerFails
<1>4. ASSUME NEW w \in Workers, CleanupGet(w) PROVE CreateInv'
  BY <1>4 DEF CleanupGet
<1>5. ASSUME NEW w \in Workers, CleanupRemove(w) PROVE CreateInv'
  BY <1>5 DEF CleanupRemove
<1>6. ASSUME NEW w \in Workers, Request(w) PROVE CreateInv'
  BY <1>6 DEF Request
<1>7. ASSUME NEW w \in Workers, Acquire(w) PROVE CreateInv'
  BY <1>7 DEF Acquire
<1>8. ASSUME NEW w \in Workers, LockId(w) PROVE CreateInv'
  BY <1>8 DEF LockId
<1>9. ASSUME NEW w \in Workers, ReadNext(w) PROVE CreateInv'
  BY <1>9 DEF ReadNext
<1>10. ASSUME NEW w \in Workers, ScanOccupied(w) PROVE CreateInv'
  BY <1>10 DEF ScanOccupied
<1>11. ASSUME NEW w \in Workers, ScanFree(w) PROVE CreateInv'
  BY <1>11 DEF ScanFree
<1>12. ASSUME NEW w \in Workers, NoSlot(w) PROVE CreateInv'
  BY <1>12 DEF NoSlot
<1>13. ASSUME NEW w \in Workers, Truncate(w) PROVE CreateInv'
  BY <1>13 DEF Truncate
<1>14. ASSUME NEW w \in Workers, WriteNext(w) PROVE CreateInv'
  BY <1>14 DEF WriteNext
<1>15. ASSUME NEW w \in Workers, MakeDir(w) PROVE CreateInv'
  BY <1>15 DEF MakeDir
<1>16. ASSUME NEW w \in Workers, CreateReturns(w) PROVE CreateInv'
  BY <1>16 DEF CreateReturns
<1>17. ASSUME NEW i \in Ids, RemoveArtifacts(i) PROVE CreateInv'
  BY <1>17 DEF RemoveArtifacts
<1>18. ASSUME NEW i \in Ids, WriteRemoved(i) PROVE CreateInv'
  BY <1>18 DEF WriteRemoved
<1>19. CASE Restart
  BY <1>19 DEF Restart
<1>20. CASE UNCHANGED vars
  BY <1>20 DEF vars
<1>21. QED
  BY <1>1, <1>2, <1>3, <1>4, <1>5, <1>6, <1>7, <1>8, <1>9, <1>10, <1>11, <1>12, <1>13, <1>14, <1>15, <1>16, <1>17, <1>18, <1>19, <1>20 DEF Next, InstanceStep, CreateStep

\* A candidate found occupied extends the run of ids behind the next candidate.
LEMMA ScanStep ==
  ASSUME TypeOK, ScanInv, [Next]_vars
  PROVE  ScanInv'
<1> USE DispatchAssumption DEF TypeOK, ScanInv, NoFalseFull, Goto, DropGuard, locks, files, scan, history, ghosts
<1>1. ASSUME NEW w \in Workers, LockEntry(w) PROVE ScanInv'
  BY <1>1 DEF LockEntry
<1>2. ASSUME NEW w \in Workers, HandlerReturns(w) PROVE ScanInv'
  BY <1>2 DEF HandlerReturns
<1>3. ASSUME NEW w \in Workers, HandlerFails(w) PROVE ScanInv'
  BY <1>3 DEF HandlerFails
<1>4. ASSUME NEW w \in Workers, CleanupGet(w) PROVE ScanInv'
  BY <1>4 DEF CleanupGet
<1>5. ASSUME NEW w \in Workers, CleanupRemove(w) PROVE ScanInv'
  BY <1>5 DEF CleanupRemove
<1>6. ASSUME NEW w \in Workers, Request(w) PROVE ScanInv'
  BY <1>6 DEF Request
<1>7. ASSUME NEW w \in Workers, Acquire(w) PROVE ScanInv'
  BY <1>7 DEF Acquire
<1>8. ASSUME NEW w \in Workers, LockId(w) PROVE ScanInv'
  BY <1>8 DEF LockId
<1>9. ASSUME NEW w \in Workers, ReadNext(w) PROVE ScanInv'
  <2>1. candidate'[w] \in 0 .. Slots + 1 /\ tried'[w] = 0
    BY <1>9 DEF ReadNext
  <2>2. InRange(candidate'[w]) \in Ids
    BY <2>1, InRangeLemma
  <2>3. \A i \in Ids : LET c == InRange(candidate'[w]) IN
           ~((i < c /\ i >= c - 0) \/ i >= c + Slots - 0)
    BY <2>2 DEF Ids
  <2>4. \A v \in Workers \ {w} : /\ pc'[v] = pc[v] /\ candidate'[v] = candidate[v]
                                  /\ tried'[v] = tried[v] /\ seen'[v] = seen[v]
    BY <1>9 DEF ReadNext
  <2>5. pc'[w] = "scan"
    BY <1>9 DEF ReadNext
  <2>6. QED
    BY <2>1, <2>3, <2>4, <2>5 DEF InRange
<1>10. ASSUME NEW w \in Workers, ScanOccupied(w) PROVE ScanInv'
  <2> DEFINE c == InRange(candidate[w])
  <2>1. c \in Ids
    BY InRangeLemma
  <2>2. /\ After(c) = (IF c = Slots THEN 1 ELSE c + 1) /\ After(c) \in Ids
        /\ InRange(After(c)) = After(c)
    <3>1. After(c) = (IF c = Slots THEN 1 ELSE c + 1) /\ After(c) \in Ids
      BY <2>1, AfterLemma
    <3>2. After(c) \in 0 .. Slots + 1
      BY <3>1 DEF Ids
    <3>3. QED
      BY <3>1, <3>2, InRangeLemma
  <2>3. /\ candidate'[w] = After(c) /\ seen'[w] = seen[w] \cup {c}
        /\ tried'[w] = tried[w] + 1 /\ tried[w] \in 0 .. Slots /\ pc'[w] = "scan"
        /\ pc[w] = "scan"
    BY <1>10 DEF ScanOccupied
  <2>4. \A v \in Workers \ {w} : /\ pc'[v] = pc[v] /\ candidate'[v] = candidate[v]
                                  /\ tried'[v] = tried[v] /\ seen'[v] = seen[v]
    BY <1>10 DEF ScanOccupied
  <2>5. \A i \in Ids : (i < c /\ i >= c - tried[w]) \/ i >= c + Slots - tried[w]
                           => i \in seen[w]
    BY <2>3
  <2> HIDE DEF c
  <2>6. ASSUME NEW i \in Ids,
               LET d == After(c) IN
               (i < d /\ i >= d - (tried[w] + 1)) \/ i >= d + Slots - (tried[w] + 1)
        PROVE  i \in seen[w] \cup {c}
    <3>1. CASE c = Slots
      BY <3>1, <2>1, <2>2, <2>3, <2>5, <2>6 DEF Ids
    <3>2. CASE c # Slots
      BY <3>2, <2>1, <2>2, <2>3, <2>5, <2>6 DEF Ids
    <3>3. QED
      BY <3>1, <3>2
  <2>7. QED
    BY <2>2, <2>3, <2>4, <2>6
<1>11. ASSUME NEW w \in Workers, ScanFree(w) PROVE ScanInv'
  BY <1>11 DEF ScanFree
<1>12. ASSUME NEW w \in Workers, NoSlot(w) PROVE ScanInv'
  <2>1. /\ tried[w] = Slots /\ pc[w] = "scan" /\ pc' = [pc EXCEPT ![w] = "full"]
        /\ UNCHANGED <<candidate, tried, seen>>
    BY <1>12 DEF NoSlot
  <2>2. InRange(candidate[w]) \in Ids
    BY InRangeLemma
  <2>3. ASSUME NEW i \in Ids PROVE i \in seen[w]
    <3> DEFINE c == InRange(candidate[w])
    <3>1. (i < c /\ i >= c - tried[w]) \/ i >= c + Slots - tried[w] => i \in seen[w]
      BY <2>1
    <3> HIDE DEF c
    <3>2. (i < c /\ i >= c - Slots) \/ i >= c + Slots - Slots
      BY <2>2 DEF Ids, c
    <3>3. QED
      BY <2>1, <3>1, <3>2
  <2>4. seen[w] = Ids
    BY <2>3
  <2>5. QED
    BY <2>1, <2>4
<1>13. ASSUME NEW w \in Workers, Truncate(w) PROVE ScanInv'
  BY <1>13 DEF Truncate
<1>14. ASSUME NEW w \in Workers, WriteNext(w) PROVE ScanInv'
  BY <1>14 DEF WriteNext
<1>15. ASSUME NEW w \in Workers, MakeDir(w) PROVE ScanInv'
  BY <1>15 DEF MakeDir
<1>16. ASSUME NEW w \in Workers, CreateReturns(w) PROVE ScanInv'
  BY <1>16 DEF CreateReturns
<1>17. ASSUME NEW i \in Ids, RemoveArtifacts(i) PROVE ScanInv'
  BY <1>17 DEF RemoveArtifacts
<1>18. ASSUME NEW i \in Ids, WriteRemoved(i) PROVE ScanInv'
  BY <1>18 DEF WriteRemoved
<1>19. CASE Restart
  BY <1>19 DEF Restart
<1>20. CASE UNCHANGED vars
  BY <1>20 DEF vars
<1>21. QED
  BY <1>1, <1>2, <1>3, <1>4, <1>5, <1>6, <1>7, <1>8, <1>9, <1>10, <1>11, <1>12, <1>13, <1>14, <1>15, <1>16, <1>17, <1>18, <1>19, <1>20 DEF Next, InstanceStep, CreateStep

-----------------------------------------------------------------------------
IInv == TypeOK /\ HoldInv /\ MapInv /\ LeakInv /\ CreateInv /\ ScanInv

LEMMA InitIInv == Init => IInv
  BY DispatchAssumption
     DEF Init, IInv, TypeOK, HoldInv, MapInv, LeakInv, CreateInv, FreshUnlessRevived, Allotted, ScanInv,
         NoFalseFull, Steps

LEMMA StepIInv == IInv /\ [Next]_vars => IInv'
  BY TypeStep, HoldStep, MapStep, LeakStep, CreateStepInv, ScanStep DEF IInv

\* The keeper of a lock has a reference to it, so it is between the entry and the end of
\* the handler, or it is past the handler and will look at the map.
LEMMA KeptLocks == IInv => NoLeakedLock
  BY DispatchAssumption DEF IInv, HoldInv, LeakInv, Keeper, NoLeakedLock, UsesLock

\* Two references to mutexes of one id that are not reclaimed are to the mutex in the
\* map, which one worker holds.
LEMMA OneHolder == IInv => ExclusiveUnlessReclaimed
  BY DispatchAssumption DEF IInv, TypeOK, HoldInv, MapInv, ExclusiveUnlessReclaimed

-----------------------------------------------------------------------------
\* The inductive invariant holds in every reachable state.
THEOREM Invariance == Spec => []IInv
  BY InitIInv, StepIInv, PTL DEF Spec

\* The locks, the files and the scans keep their types: allocate_id never hands out an
\* id outside 1..Slots, whatever is in the file.
THEOREM TypeCorrect == Spec => []TypeOK
  BY Invariance, PTL DEF IInv

\* create_instance takes an existing directory only if a writer without id_lock has
\* brought that back since allocate_id looked, for any number of slots and creates.
THEOREM CreatesFresh == Spec => []FreshUnlessRevived
  BY Invariance, PTL DEF IInv, CreateInv

\* allocate_id refuses only after it has found every one of the slots occupied.
THEOREM FullIsFull == Spec => []NoFalseFull
  BY Invariance, PTL DEF IInv, ScanInv

\* The lock map is empty again once all requests are answered, but for failed ones.
THEOREM LocksFreed == Spec => []NoLeakedLock
  BY Invariance, KeptLocks, PTL

\* Requests of one instance exclude each other, but for a reclaimed mutex.
THEOREM Exclusion == Spec => []ExclusiveUnlessReclaimed
  BY Invariance, OneHolder, PTL

-----------------------------------------------------------------------------
(* Dispatch implements InstanceLock. *)

\* The state of the abstract lock.
Inside == [w \in Workers |-> IF pc[w] = "handler" THEN id[w] ELSE None]
Owner == [i \in Ids |-> IF map[i] = None THEN None ELSE holder[map[i]]]
Strays == {w \in Workers : pc[w] = "handler" /\ arc[w] \in reclaimed}
LockView == <<Inside, Owner, Strays>>

\* A worker that is inside has the mutex of the map, and is the owner, or has a
\* reclaimed one, and is a stray and owns nothing.
LEMMA InsideFacts ==
  ASSUME IInv, NEW w \in Workers, pc[w] = "handler"
  PROVE  /\ id[w] \in Ids /\ arc[w] \in Mutexes /\ holder[arc[w]] = w
         /\ \/ map[id[w]] = arc[w] /\ Owner[id[w]] = w /\ w \notin Strays
            \/ w \in Strays /\ \A i \in Ids : Owner[i] # w
<1>1. id[w] \in Ids /\ arc[w] \in Mutexes /\ holder[arc[w]] = w
  BY DispatchAssumption DEF IInv, TypeOK, HoldInv
<1>2. CASE arc[w] \in reclaimed
  <2>1. ASSUME NEW i \in Ids, Owner[i] = w PROVE FALSE
    <3>1. map[i] \in Mutexes /\ holder[map[i]] = w
      BY <2>1, DispatchAssumption DEF IInv, TypeOK, Owner
    <3>2. arc[w] = map[i]
      BY <3>1 DEF IInv, HoldInv
    <3>3. QED
      BY <1>2, <3>2 DEF IInv, MapInv
  <2>2. QED
    BY <1>1, <1>2, <2>1 DEF Strays
<1>3. CASE arc[w] \notin reclaimed
  <2>1. map[id[w]] = arc[w] /\ arc[w] # None
    BY <1>3, DispatchAssumption DEF IInv, HoldInv, MapInv
  <2>2. QED
    BY <1>1, <1>3, <2>1 DEF Owner, Strays
<1>4. QED
  BY <1>2, <1>3

\* Steps that move no worker in or out of its handler and touch neither the mutexes nor
\* the map.
LEMMA LockUnchanged ==
  ASSUME UNCHANGED <<map, holder, arc, reclaimed>>,
         \A w \in Workers : /\ pc'[w] = "handler" <=> pc[w] = "handler"
                            /\ pc[w] = "handler" => id'[w] = id[w]
  PROVE  UNCHANGED LockView
  BY DEF LockView, Inside, Owner, Strays

\* The mutex of one instance is locked or unlocked.
LEMMA OwnerUpdate ==
  ASSUME NEW i \in Ids, NEW x, map' = map, map[i] # None, holder'[map[i]] = x,
         \A j \in Ids \ {i} : map[j] # None => holder'[map[j]] = holder[map[j]]
  PROVE  Owner[i] = holder[map[i]] /\ Owner' = [Owner EXCEPT ![i] = x]
  BY DEF Owner

\* A mutex that is inserted is unlocked, and nobody refers to it.
LEMMA EntryLock ==
  ASSUME IInv, NEW w \in Workers, LockEntry(w)
  PROVE  UNCHANGED LockView
<1> USE DispatchAssumption DEF IInv, TypeOK, HoldInv, Goto
<1>1. pc[w] = "entry" /\ pc' = [pc EXCEPT ![w] = "acquire"] /\ UNCHANGED <<id, holder>>
  BY DEF LockEntry
<1>2. Inside' = Inside
  BY <1>1 DEF Inside
<1>3. PICK m \in Mutexes :
        /\ \/ UNCHANGED <<map, reclaimed>>
           \/ /\ map[id[w]] = None /\ Fresh(m)
              /\ map' = [map EXCEPT ![id[w]] = m]
              /\ reclaimed' = reclaimed \ {m}
        /\ arc' = [arc EXCEPT ![w] = m]
  BY DEF LockEntry, history
<1>4. Fresh(m) => holder[m] = None /\ \A v \in Workers : arc[v] # m
  BY DEF Fresh, Referrers
<1>5. Owner' = Owner
  BY <1>1, <1>3, <1>4 DEF Owner
<1>6. Strays' = Strays
  BY <1>1, <1>3, <1>4 DEF Strays
<1>7. QED
  BY <1>2, <1>5, <1>6 DEF LockView

\* A worker gets the mutex of the map, or one that was reclaimed while it waited.
LEMMA AcquireLock ==
  ASSUME IInv, NEW w \in Workers, Acquire(w)
  PROVE  \E i \in Ids : Lock!Enter(w, i) \/ Lock!EnterRevoked(w, i)
<1> USE DispatchAssumption DEF IInv, TypeOK, HoldInv, Goto
<1> DEFINE i == id[w]
           m == arc[w]
<1>1. /\ pc[w] = "acquire" /\ pc' = [pc EXCEPT ![w] = "handler"] /\ holder[m] = None
      /\ holder' = [holder EXCEPT ![m] = w] /\ UNCHANGED <<map, id, arc, reclaimed>>
      /\ i \in Ids /\ m \in Mutexes
  BY DEF Acquire, history
<1>2. Inside[w] = None /\ Inside' = [Inside EXCEPT ![w] = i]
  <2>1. \A v \in Workers : pc'[v] = IF v = w THEN "handler" ELSE pc[v]
    BY <1>1
  <2>2. QED
    BY <1>1, <2>1 DEF Inside
<1>3. CASE m \in reclaimed
  <2>1. Owner' = Owner
    BY <1>1, <1>3 DEF Owner, MapInv
  <2>2. Strays' = Strays \cup {w}
    BY <1>1, <1>3 DEF Strays
  <2>3. QED
    BY <1>1, <1>2, <2>1, <2>2 DEF Lock!EnterRevoked, Inside, Owner, Strays
<1>4. CASE m \notin reclaimed
  <2>1. map[i] = m /\ m # None
    BY <1>1, <1>4 DEF MapInv
  <2>2. \A j \in Ids \ {i} : map[j] # m
    BY <1>1, <2>1 DEF MapInv
  <2>3. holder'[m] = w /\ \A j \in Ids \ {i} : map[j] # None => holder'[map[j]] = holder[map[j]]
    BY <1>1, <2>2
  <2>4. Owner[i] = None /\ Owner' = [Owner EXCEPT ![i] = w]
    BY <1>1, <2>1, <2>3, OwnerUpdate
  <2>5. Strays' = Strays
    BY <1>1, <1>4 DEF Strays
  <2>6. QED
    BY <1>1, <1>2, <2>5, <2>4 DEF Lock!Enter, Inside, Owner, Strays
<1>5. QED
  BY <1>3, <1>4

\* The end of a handler, with an answer or an error.
LEMMA LeaveLock ==
  ASSUME IInv, NEW w \in Workers, HandlerReturns(w) \/ HandlerFails(w)
  PROVE  \E i \in Ids : Lock!Leave(w, i)
<1> USE DispatchAssumption DEF IInv, TypeOK, Goto
<1> DEFINE i == id[w]
           m == arc[w]
<1>1. /\ pc[w] = "handler" /\ pc'[w] # "handler"
      /\ \A v \in Workers \ {w} : pc'[v] = pc[v] /\ id'[v] = id[v] /\ arc'[v] = arc[v]
      /\ holder' = [holder EXCEPT ![m] = None] /\ UNCHANGED <<map, reclaimed>>
  BY DEF HandlerReturns, HandlerFails, DropGuard, history
<1>2. Inside[w] = i /\ Inside' = [Inside EXCEPT ![w] = None]
  BY <1>1 DEF Inside
<1>3. Strays' = Strays \ {w}
  BY <1>1 DEF Strays
<1>4. i \in Ids /\ m \in Mutexes
  BY <1>1, InsideFacts
<1>5. i \in Ids /\ m \in Mutexes /\ m # None
  BY <1>4
<1>6. CASE w \notin Strays
  <2>1. map[i] = m /\ Owner[i] = w
    BY <1>1, <1>6, InsideFacts
  <2>2. Owner' = [Owner EXCEPT ![i] = None]
    <3>1. \A j \in Ids \ {i} : map[j] # m
      BY <1>5, <2>1 DEF MapInv
    <3>2. holder'[m] = None
          /\ \A j \in Ids \ {i} : map[j] # None => holder'[map[j]] = holder[map[j]]
      BY <1>1, <1>5, <3>1
    <3>3. QED
      BY <1>1, <1>5, <2>1, <3>2, OwnerUpdate
  <2>3. QED
    BY <1>2, <1>3, <1>5, <2>1, <2>2 DEF Lock!Leave, Inside, Owner, Strays
<1>7. CASE w \in Strays
  <2>1. Owner[i] # w
    BY <1>1, <1>5, <1>7, InsideFacts
  <2>2. Owner' = Owner
    BY <1>1, <1>7 DEF Owner, Strays, MapInv
  <2>3. QED
    BY <1>2, <1>3, <1>5, <2>1, <2>2 DEF Lock!Leave, Inside, Owner, Strays
<1>8. QED
  BY <1>6, <1>7

\* The removal revokes the lock if somebody has it locked.
LEMMA RemoveLock ==
  ASSUME IInv, NEW w \in Workers, CleanupRemove(w)
  PROVE  UNCHANGED LockView \/ \E i \in Ids : Lock!Revoke(i)
<1> USE DispatchAssumption DEF IInv, TypeOK, HoldInv, Goto
<1> DEFINE i == id[w]
           m == map[i]
<1>1. /\ pc[w] = "remove" /\ pc' = [pc EXCEPT ![w] = "idle"]
      /\ id' = [id EXCEPT ![w] = None] /\ UNCHANGED <<holder, arc>>
      /\ map' = [map EXCEPT ![i] = None] /\ i \in Ids
  BY DEF CleanupRemove
<1>2. Inside' = Inside
  BY <1>1 DEF Inside
<1>3. Owner' = [Owner EXCEPT ![i] = None]
  BY <1>1 DEF Owner
<1>4. \/ m = None /\ reclaimed' = reclaimed
      \/ m # None /\ Referrers(m) = {} /\ reclaimed' = reclaimed
      \/ m # None /\ Referrers(m) # {} /\ reclaimed' = reclaimed \cup {m}
  BY DEF CleanupRemove
<1>5. CASE Owner[i] = None
  <2>1. Owner' = Owner
    BY <1>1, <1>3, <1>5 DEF Owner
  <2>2. ASSUME NEW v \in Workers, pc[v] = "handler", m # None PROVE arc[v] # m
    BY <1>1, <1>5, <2>2 DEF Owner
  <2>3. Strays' = Strays
    BY <1>1, <1>4, <2>2 DEF Strays
  <2>4. QED
    BY <1>2, <2>1, <2>3 DEF LockView
<1>6. CASE Owner[i] # None
  <2> DEFINE v == Owner[i]
  <2>1. m \in Mutexes /\ v = holder[m]
    BY <1>1, <1>6 DEF Owner
  <2>2. holder[m] \in Workers \cup {None}
    BY <2>1
  <2>3. v \in Workers
    BY <1>6, <2>1, <2>2
  <2>4. arc[v] = m /\ pc[v] = "handler"
    BY <2>1, <2>3
  <2>5. reclaimed' = reclaimed \cup {m}
    BY <1>4, <2>1, <2>3, <2>4 DEF Referrers
  <2>6. \A u \in Workers : pc[u] = "handler" /\ arc[u] = m => u = v
    BY <2>1, <2>4
  <2>7. Strays' = Strays \cup {v}
    BY <1>1, <2>5, <2>6, <2>3, <2>4 DEF Strays
  <2>8. QED
    BY <1>1, <1>2, <1>3, <1>6, <2>7 DEF Lock!Revoke, Inside, Owner, Strays
<1>7. QED
  BY <1>5, <1>6

\* Every step is a step of the lock or leaves it alone.
LEMMA LockStep ==
  ASSUME IInv, [Next]_vars
  PROVE  Lock!LockNext \/ UNCHANGED LockView
<1>1. ASSUME NEW w \in Workers,
             \/ Request(w) \/ CleanupGet(w) \/ LockId(w) \/ CreateStep(w)
      PROVE  UNCHANGED LockView
  BY <1>1, LockUnchanged
     DEF IInv, TypeOK, Goto, locks, files, scan, history, ghosts, Request, CleanupGet, LockId, CreateStep,
         ReadNext, ScanOccupied, ScanFree, NoSlot, Truncate, WriteNext, MakeDir, CreateReturns
<1>2. ASSUME NEW i \in Ids, RemoveArtifacts(i) \/ WriteRemoved(i) PROVE UNCHANGED LockView
  BY <1>2, LockUnchanged DEF RemoveArtifacts, WriteRemoved, locks, scan, history, ghosts
<1>3. CASE UNCHANGED vars
  BY <1>3, LockUnchanged DEF vars, locks, history, ghosts
<1>4. CASE Restart
  <2>1. Lock!LockInit'
    BY <1>4 DEF Restart, Lock!LockInit
  <2>2. QED
    BY <2>1 DEF Lock!LockNext
<1>5. QED
  BY <1>1, <1>2, <1>3, <1>4, EntryLock, AcquireLock, LeaveLock, RemoveLock
     DEF Next, InstanceStep, Lock!LockNext

\* The map of mutexes and its reclaiming implement a lock for each instance, which has
\* one owner at a time, unless it is revoked.
THEOREM LockRefinement == Spec => ImplementsInstanceLock
<1>1. Init => Lock!LockInit
  BY DispatchAssumption DEF Init, Lock!LockInit
<1>2. IInv /\ [Next]_vars => [Lock!LockNext]_LockView
  BY LockStep
<1>3. QED
  BY <1>1, <1>2, Invariance, PTL
     DEF Spec, ImplementsInstanceLock, Lock!LockSpec, Lock!lockVars, LockView, Inside, Owner, Strays

-----------------------------------------------------------------------------
(* Without a reclaim there are no strays. *)

Exclusive == INSTANCE InstanceLock
                 WITH Instances <- Ids, inside <- Inside, owner <- Owner, strays <- {}

\* As long as cleanup_instance_lock finds nobody at the mutex that it removes, the lock
\* of an instance is exclusive, which InstanceManager without lock_reclaimed assumes: no lock is
\* revoked, and only its owner is in a handler for an instance.
THEOREM ExclusiveLock == Spec /\ [](reclaimed = {}) => Exclusive!LockSpec
<1>1. Init => Exclusive!LockInit
  BY DispatchAssumption DEF Init, Exclusive!LockInit, Inside, Owner
<1>2. ASSUME IInv, reclaimed = {}, (reclaimed = {})', [Next]_vars
      PROVE  [Exclusive!LockNext]_<<Inside, Owner, {}>>
  <2>1. Strays = {} /\ Strays' = {}
    BY <1>2 DEF Strays
  <2>2. CASE UNCHANGED LockView
    BY <2>2 DEF LockView
  <2>3. CASE Lock!LockNext
    <3>1. CASE Lock!LockInit'
      BY <3>1 DEF Lock!LockInit, Exclusive!LockInit, Exclusive!LockNext, Inside, Owner
    <3>2. ASSUME NEW i \in Ids, Lock!Revoke(i) PROVE FALSE
      BY <2>1, <3>2 DEF Lock!Revoke, Strays
    <3>3. ASSUME NEW w \in Workers, NEW i \in Ids, Lock!EnterRevoked(w, i) PROVE FALSE
      BY <2>1, <3>3 DEF Lock!EnterRevoked, Strays
    <3>4. ASSUME NEW w \in Workers, NEW i \in Ids, Lock!Enter(w, i) PROVE Exclusive!Enter(w, i)
      BY <3>4 DEF Lock!Enter, Exclusive!Enter, Inside, Owner
    <3>5. ASSUME NEW w \in Workers, NEW i \in Ids, Lock!Leave(w, i) PROVE Exclusive!Leave(w, i)
      BY <3>5 DEF Lock!Leave, Exclusive!Leave, Inside, Owner
    <3>6. QED
      BY <2>3, <3>1, <3>2, <3>3, <3>4, <3>5 DEF Lock!LockNext, Exclusive!LockNext
  <2>4. QED
    BY <1>2, <2>2, <2>3, LockStep
<1>3. QED
  BY <1>1, <1>2, Invariance, PTL DEF Spec, Exclusive!LockSpec, Exclusive!lockVars
=============================================================================
