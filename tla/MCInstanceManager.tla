-------------------------- MODULE MCInstanceManager --------------------------
(***************************************************************************)
(* InstanceManager for TLC.  Workers and jobs are interchangeable, and so  *)
(* are guests when all of them are killable.  No action reads the history  *)
(* variables, so the runs whose properties do not mention them leave them  *)
(* out of the view.                                                        *)
(***************************************************************************)
EXTENDS InstanceManager, TLC

WorkerSymmetry == Permutations(Workers) \cup Permutations(Jobs)
Symmetry == WorkerSymmetry \cup Permutations(Guests)

\* Without Hold and Deploy no record is held.  A thread only tests its copy of a record
\* against None and writes it with a new state, a prune only asks whether that state is
\* "destroyed", and how a guest has exited is only written down.  So two states with the
\* same view have the same steps, to states with the same view: nothing is lost, not even
\* for the properties of fair behaviours, as every fair action moves a thread or a guest.
NoCopies ==
    <<[i \in Ids |-> IF Has(i) THEN disk[i].state = "destroyed" ELSE disk[i]],
      [t \in Threads |-> [thread[t] EXCEPT !.md = @ # None, !.exit = None]],
      registry, home, [g \in Guests |-> IF proc[g] = "ok" THEN "failed" ELSE proc[g]],
      lock, idLock, creates, crashes>>

NoHistory == <<disk, registry, guestVars, thread, lock, idLock, creates, crashes>>
=============================================================================
