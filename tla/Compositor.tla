------------------------------ MODULE Compositor ------------------------------
(***************************************************************************)
(* The state of the Wayland compositor (compositor-rs/src/main.rs) and     *)
(* what each request of a client does to it.  The compositor is one thread *)
(* that handles the requests of a client in their order, one after the     *)
(* other; CompositorClients.tla has clients that send any legal requests,  *)
(* DisplayTest.tla the test client and the processes.                      *)
(*                                                                         *)
(* A client numbers its objects itself, so two clients use the same ids;   *)
(* the maps of the compositor have these ids as keys, and nothing else.    *)
(*                                                                         *)
(* Abstracted: a picture is the client in whose memory it is, and whether  *)
(* all its rows are copied; of the geometry of a buffer, what decides      *)
(* that.  The size of a pool and the pointer resource are stored and never *)
(* read, the format and the damage are ignored, regions and cursors too.   *)
(***************************************************************************)
CONSTANTS Clients,
          Surfaces, Pools, Buffers, Callbacks,   \* object ids, as clients number them
          None                                   \* Option::None, or no entry in a map

VARIABLES surfaces,   \* the attached buffer and the pending callback of each surface
          pools,      \* the client whose file a pool maps
          buffers,    \* the pool and the layout of each buffer
          keyboard,   \* the client that is sent key events
          screen,     \* the picture in the framebuffer
          sent        \* events queued for clients: the frame callbacks that are done

wlVars == <<surfaces, pools, buffers, keyboard, screen, sent>>

\* How a buffer lies in its pool: at an offset that is not a multiple of the page size
\* it cannot be mapped; with a stride above the width its last rows are not copied.
Layouts == {"plain", "padded", "unaligned"}
Orange == [of |-> None, whole |-> TRUE]

WlInit ==
    /\ surfaces = [s \in Surfaces |-> None]
    /\ pools = [p \in Pools |-> None]
    /\ buffers = [b \in Buffers |-> None]
    /\ keyboard = None
    /\ screen = Orange
    /\ sent = {}

\* entry(surface_id).or_insert: attach and frame make the entry, create_surface does not.
Entry(s) == IF surfaces[s] = None THEN [buffer |-> None, callback |-> None] ELSE surfaces[s]

\* A pool whose file cannot be duplicated gets no entry, but no object either: the
\* compositor ends there (PoolFails of DisplayTest.tla).
CreatePool(c, p) ==
    /\ pools' = [pools EXCEPT ![p] = c]
    /\ UNCHANGED <<surfaces, buffers, keyboard, screen, sent>>

CreateBuffer(c, p, b, layout) ==
    /\ buffers' = [buffers EXCEPT ![b] = [pool |-> p, layout |-> layout]]
    /\ UNCHANGED <<surfaces, pools, keyboard, screen, sent>>

DestroyBuffer(c, b) ==
    /\ buffers' = [buffers EXCEPT ![b] = None]
    /\ UNCHANGED <<surfaces, pools, keyboard, screen, sent>>

\* Seeded fault of Attach: the entry is looked up, but not made.
AttachExisting(c, s, b) ==
    /\ surfaces' = IF surfaces[s] = None THEN surfaces
                   ELSE [surfaces EXCEPT ![s].buffer = b]
    /\ UNCHANGED <<pools, buffers, keyboard, screen, sent>>

Attach(c, s, b) ==
    /\ surfaces' = [surfaces EXCEPT ![s] = [Entry(s) EXCEPT !.buffer = b]]
    /\ UNCHANGED <<pools, buffers, keyboard, screen, sent>>

\* A callback that is still pending is overwritten.
Frame(c, s, k) ==
    /\ surfaces' = [surfaces EXCEPT ![s] = [Entry(s) EXCEPT !.callback = <<c, k>>]]
    /\ UNCHANGED <<pools, buffers, keyboard, screen, sent>>

\* render_buffer: the buffer and its pool are found and mapped.
Renderable(b) ==
    /\ b # None /\ buffers[b] # None
    /\ buffers[b].layout # "unaligned"
    /\ pools[buffers[b].pool] # None

Picture(b) == [of |-> pools[buffers[b].pool], whole |-> buffers[b].layout = "plain"]

\* What a rendering leaves in the framebuffer; a display that "fails" may do so after
\* the pixels have been copied.
Rendered(b, drm) ==
    IF ~Renderable(b) THEN {screen}
    ELSE IF drm = "ok" THEN {Picture(b)} ELSE {screen, Picture(b)}

\* The buffer is rendered, and the callback is done in any case: a failed rendering is
\* only logged.
Commit(c, s, drm) ==
    /\ LET b == Entry(s).buffer
           k == Entry(s).callback IN
          /\ screen' \in Rendered(b, drm)
          /\ sent' = IF k = None THEN sent ELSE sent \cup {k}
    /\ surfaces' = IF surfaces[s] = None THEN surfaces
                   ELSE [surfaces EXCEPT ![s].callback = None]
    /\ UNCHANGED <<pools, buffers, keyboard>>

\* The last client that asks gets the keys of all.
GetKeyboard(c) ==
    /\ keyboard' = c
    /\ UNCHANGED <<surfaces, pools, buffers, screen, sent>>

WlTypeOK ==
    /\ \A s \in Surfaces : \/ surfaces[s] = None
                           \/ surfaces[s] \in [buffer : Buffers \cup {None},
                                               callback : (Clients \X Callbacks) \cup {None}]
    /\ pools \in [Pools -> Clients \cup {None}]
    /\ \A b \in Buffers : buffers[b] = None \/ buffers[b] \in [pool : Pools, layout : Layouts]
    /\ keyboard \in Clients \cup {None}
    /\ screen \in [of : Clients \cup {None}, whole : BOOLEAN]
    /\ sent \subseteq Clients \X Callbacks
=============================================================================
