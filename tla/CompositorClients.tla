-------------------------- MODULE CompositorClients --------------------------
(***************************************************************************)
(* The compositor and clients that send the requests the protocol allows,  *)
(* as far as they bear on what is shown: an id is given to a new object    *)
(* only while it names none, and a request names objects that the client   *)
(* has.                                                                    *)
(***************************************************************************)
EXTENDS Compositor

VARIABLES have,      \* the ids in use by each client
          view,      \* the buffer each client has attached to each of its surfaces
          expected   \* the client whose picture the last commit should show

clientVars == <<have, view, expected>>
vars == <<wlVars, clientVars>>

Init ==
    /\ WlInit
    /\ have = [c \in Clients |-> {}]
    /\ view = [c \in Clients |-> [s \in Surfaces |-> None]]
    /\ expected = None

New(c, i) == i \notin have[c] /\ have' = [have EXCEPT ![c] = @ \cup {i}]

\* wl_compositor.create_surface makes no entry in the compositor's maps.
CreateSurface(c, s) ==
    /\ New(c, s)
    /\ UNCHANGED <<wlVars, view, expected>>

SendCreatePool(c, p) ==
    /\ New(c, p)
    /\ CreatePool(c, p)
    /\ UNCHANGED <<view, expected>>

SendCreateBuffer(c, p, b) ==
    /\ p \in have[c]
    /\ New(c, b)
    /\ CreateBuffer(c, p, b, "plain")
    /\ UNCHANGED <<view, expected>>

\* A client destroys a buffer that none of its surfaces shows.
SendDestroyBuffer(c, b) ==
    /\ b \in have[c] /\ \A s \in Surfaces : view[c][s] # b
    /\ have' = [have EXCEPT ![c] = @ \ {b}]
    /\ DestroyBuffer(c, b)
    /\ UNCHANGED <<view, expected>>

SendAttach(c, s, b) ==
    /\ {s, b} \subseteq have[c]
    /\ view' = [view EXCEPT ![c][s] = b]
    /\ Attach(c, s, b)
    /\ UNCHANGED <<have, expected>>

\* attach without a buffer.
SendDetach(c, s) ==
    /\ s \in have[c]
    /\ view' = [view EXCEPT ![c][s] = None]
    /\ Attach(c, s, None)
    /\ UNCHANGED <<have, expected>>

\* The compositor only logs that a surface is destroyed, and ignores it of a pool; what it
\* keeps of them is found again under the same id.
SendDestroySurface(c, s) ==
    /\ s \in have[c]
    /\ have' = [have EXCEPT ![c] = @ \ {s}]
    /\ view' = [view EXCEPT ![c][s] = None]
    /\ UNCHANGED <<wlVars, expected>>

SendDestroyPool(c, p) ==
    /\ p \in have[c]
    /\ have' = [have EXCEPT ![c] = @ \ {p}]
    /\ UNCHANGED <<wlVars, view, expected>>

SendCommit(c, s) ==
    /\ s \in have[c]
    /\ expected' = IF view[c][s] = None THEN expected ELSE c
    /\ Commit(c, s, "ok")
    /\ UNCHANGED <<have, view>>

Next ==
    \E c \in Clients :
       \/ \E s \in Surfaces :
             CreateSurface(c, s) \/ SendDetach(c, s) \/ SendDestroySurface(c, s) \/ SendCommit(c, s)
       \/ \E p \in Pools : SendCreatePool(c, p) \/ SendDestroyPool(c, p)
       \/ \E b \in Buffers : SendDestroyBuffer(c, b)
       \/ \E p \in Pools, b \in Buffers : SendCreateBuffer(c, p, b)
       \/ \E s \in Surfaces, b \in Buffers : SendAttach(c, s, b)

Spec == Init /\ [][Next]_vars

-----------------------------------------------------------------------------
\* "Future-proof design supports multiple clients and surfaces"
\* (compositor-rs/README.md:200): what a client commits is what is shown.
ShowsCommitter == expected # None => screen.of = expected
=============================================================================
