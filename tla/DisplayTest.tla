----------------------------- MODULE DisplayTest -----------------------------
(***************************************************************************)
(* The display test: the compositor (compositor-rs/src/main.rs), the test  *)
(* client (compositor-rs/src/bin/test-client.rs) and the PID 1 that runs   *)
(* them (QemuInit.tla).  The compositor sets up the display and the        *)
(* socket; then it runs its loop for 60 seconds and handles the requests   *)
(* of the client (Compositor.tla).                                         *)
(*                                                                         *)
(* External: the Wayland libraries.  These keep what is sent in a buffer   *)
(* of the sender until it flushes; the socket then has the whole batch.    *)
(*                                                                         *)
(* Abstracted: time (a timeout may be found expired whenever it is read);  *)
(* the pixels; key codes; keys in the interactive mode beyond the first.   *)
(***************************************************************************)
EXTENDS QemuInit, Sequences

VARIABLES server,    \* where the compositor is
          replies,   \* events the compositor has queued, the frame callbacks apart
          display,   \* whether the DRM calls of a rendering succeed
          app,       \* where the client is
          out,       \* requests the client has queued
          requests,  \* requests in the socket
          events,    \* events in the socket
          frame,     \* frame_received
          redraw,    \* needs_redraw
          surfaces, pools, buffers, keyboard, screen, sent

INSTANCE Compositor WITH Clients <- {Client}, Surfaces <- {"surface"}, Pools <- {"pool"},
                         Buffers <- {"buffer"}, Callbacks <- {"callback"}

SurfaceRecords == [buffer : {"buffer", None}, callback : ({Client} \X {"callback"}) \cup {None}]
BufferRecords == [pool : {"pool"}, layout : Layouts]

\* Option::None is no object, no entry of a map and no callback.
ASSUME ObjectsAssumption ==
    /\ None \notin {"pool", "buffer"} /\ None \notin {Client} \X {"callback"}
    /\ None \notin SurfaceRecords /\ None \notin BufferRecords

objects == <<surfaces, pools, buffers, keyboard, screen, sent>>
serverVars == <<server, replies, display, objects>>
socketVars == <<requests, events>>
clientVars == <<app, out, frame, redraw>>
vars == <<initVars, serverVars, socketVars, clientVars>>

Init ==
    /\ InitPid1
    /\ server = "setup" /\ replies = {} /\ display \in {"ok", "fails"}
    /\ app = "connect" /\ out = <<>> /\ frame = FALSE /\ redraw = FALSE
    /\ requests = <<>> /\ events = {}
    /\ WlInit

-----------------------------------------------------------------------------
(* The compositor *)

InServer(at) == Running("compositor") /\ server = at
OnlyServer == UNCHANGED <<initVars, clientVars>>
OnlyKernel == UNCHANGED <<serverVars, socketVars, clientVars>>

\* exec, the DRM device, connector, mode, encoder, CRTC, framebuffer and console, then
\* the display, the globals and the socket; the device files of the keys may be missing.
Setup ==
    /\ InServer("setup")
    /\ server' = "accept"
    /\ UNCHANGED <<replies, display, objects, socketVars>>
    /\ OnlyServer

\* Every `?` on the way, the one on binding the socket included, ends the compositor.
SetupFails ==
    /\ InServer("setup")
    /\ Exit("compositor", 1)
    /\ OnlyKernel

\* An error that flush_clients passes on ends the compositor, too.
FlushFails ==
    /\ InServer("dispatch") /\ requests = <<>>
    /\ Exit("compositor", 1)
    /\ OnlyKernel

\* The file of a pool cannot be duplicated: the handler returns without initialising the
\* new object, which the Wayland library answers with a panic.
PoolFails ==
    /\ InServer("dispatch") /\ requests # <<>> /\ Head(requests) = "create_pool"
    /\ Exit("compositor", 1)
    /\ OnlyKernel

\* The 60 seconds are over: the console is restored.
TimeUp ==
    /\ InServer("accept")
    /\ Exit("compositor", 0)
    /\ OnlyKernel

\* A client whose connection waits is inserted; what it sent is read from now on.
Accept ==
    /\ InServer("accept")
    /\ server' = "dispatch"
    /\ UNCHANGED <<replies, display, objects, socketVars>>
    /\ OnlyServer

\* The handler of one request.
Handle(r) ==
    \/ r = "get_registry" /\ replies' = replies \cup {"globals"} /\ UNCHANGED objects
    \/ r = "bind_seat" /\ replies' = replies \cup {"capabilities"} /\ UNCHANGED objects
    \/ r = "create_pool" /\ CreatePool(Client, "pool") /\ UNCHANGED replies
    \/ r = "create_buffer" /\ CreateBuffer(Client, "pool", "buffer", "plain") /\ UNCHANGED replies
    \/ r = "attach" /\ Attach(Client, "surface", "buffer") /\ UNCHANGED replies
    \/ r = "frame" /\ Frame(Client, "surface", "callback") /\ UNCHANGED replies
    \/ r = "commit" /\ Commit(Client, "surface", display) /\ UNCHANGED replies
    \/ r = "get_keyboard" /\ GetKeyboard(Client) /\ UNCHANGED replies

\* dispatch_clients: until nothing is left in the socket.
DispatchClients ==
    /\ InServer("dispatch") /\ requests # <<>>
    /\ Handle(Head(requests))
    /\ requests' = Tail(requests)
    /\ UNCHANGED <<server, display, events>>
    /\ OnlyServer

Delivered == events \cup replies \cup {"done" : k \in sent}

\* Seeded fault of FlushClients: the loop flushes after each request that it handles.
FlushEach ==
    /\ InServer("dispatch")
    /\ events' = Delivered
    /\ replies' = {} /\ sent' = {}
    /\ server' \in {"dispatch", "input"}
    /\ UNCHANGED <<display, surfaces, pools, buffers, keyboard, screen, requests>>
    /\ OnlyServer

FlushClients ==
    /\ InServer("dispatch") /\ requests = <<>>
    /\ events' = Delivered
    /\ replies' = {} /\ sent' = {}
    /\ server' = "input"
    /\ UNCHANGED <<display, surfaces, pools, buffers, keyboard, screen, requests>>
    /\ OnlyServer

\* Seeded fault of ReadInput: a key is sent to the keyboard resource that there may not be.
ReadInputUnchecked ==
    /\ InServer("input")
    /\ server' = "accept"
    /\ replies' \in {replies, replies \cup {IF keyboard = None THEN None ELSE "key"}}
    /\ UNCHANGED <<display, objects, socketVars>>
    /\ OnlyServer

\* A key that is pressed goes to the keyboard resource; there may be none, or no key.
ReadInput ==
    /\ InServer("input")
    /\ server' = "accept"
    /\ replies' \in {replies, replies \cup IF keyboard = None THEN {} ELSE {"key"}}
    /\ UNCHANGED <<display, objects, socketVars>>
    /\ OnlyServer

CompositorStep ==
    \/ Setup \/ SetupFails \/ TimeUp \/ Accept
    \/ DispatchClients \/ PoolFails \/ FlushClients \/ FlushFails \/ ReadInput

-----------------------------------------------------------------------------
(* The test client *)

InApp(at) == Running(Client) /\ app = at
OnlyClient == UNCHANGED <<initVars, serverVars>>
ClientExits(st) == Exit(Client, st) /\ OnlyKernel

\* The socket is there once the compositor has bound it, and refuses when it is gone.
Listening == Running("compositor") /\ server # "setup"

Connect ==
    /\ InApp("connect") /\ Listening
    /\ requests' = <<"get_registry">>
    /\ app' = "globals"
    /\ UNCHANGED <<events, out, frame, redraw>>
    /\ OnlyClient

ConnectFails ==
    /\ InApp("connect")
    /\ ~Listening
    /\ ClientExits(1)

\* The roundtrip has read the globals; what is bound to them is queued, not sent.
Globals ==
    /\ InApp("globals") /\ "globals" \in events
    /\ events' = {}
    /\ out' = <<"bind_seat">>
    /\ app' = "submit"
    /\ UNCHANGED <<requests, frame, redraw>>
    /\ OnlyClient

Frames == <<"create_pool", "create_buffer", "attach", "frame", "commit">>

\* The gradient is drawn into a mapped file, and the requests that show it are queued.
Submit ==
    /\ InApp("submit")
    /\ out' = out \o Frames
    /\ app' = "await"
    /\ UNCHANGED <<socketVars, frame, redraw>>
    /\ OnlyClient

\* No temporary file, or it cannot be mapped.
SubmitFails == InApp("submit") /\ ClientExits(1)

\* The 5 seconds are checked between two blocking_dispatch only.
AwaitTimeout == InApp("await") /\ ~frame /\ ClientExits(1)

\* blocking_dispatch sends what is queued, then it reads.
AwaitFlush ==
    /\ InApp("await") /\ ~frame
    /\ requests' = requests \o out
    /\ out' = <<>>
    /\ app' = "read"
    /\ UNCHANGED <<events, frame, redraw>>
    /\ OnlyClient

\* The handlers of all the events that have come.
ReadEvents ==
    /\ InApp("read") /\ events # {}
    /\ events' = {}
    /\ out' = IF "capabilities" \in events THEN Append(out, "get_keyboard") ELSE out
    /\ frame' = (frame \/ "done" \in events)
    /\ redraw' = (redraw \/ "key" \in events)
    /\ app' = "await"
    /\ UNCHANGED requests
    /\ OnlyClient

\* Seeded fault of HungUp: an error of blocking_dispatch is tried again.
HungUpRetried ==
    /\ InApp("read") /\ ~Running("compositor")
    /\ app' = "await"
    /\ UNCHANGED <<socketVars, out, frame, redraw>>
    /\ OnlyClient

\* The compositor is gone; the library may find that out before it dispatches what it read.
HungUp ==
    /\ app \in {"globals", "read"} /\ InApp(app)
    /\ ~Running("compositor")
    /\ ClientExits(1)

\* The frame came: the file is unmapped.
Unmap ==
    /\ InApp("await") /\ frame
    /\ app' = "interactive"
    /\ UNCHANGED <<socketVars, out, frame, redraw>>
    /\ OnlyClient

\* 30 seconds of dispatch_pending, which neither reads the socket nor writes to it.  A
\* redraw, for which a key must have been seen before, writes to the unmapped memory.
Interactive == InApp("interactive") /\ ClientExits(IF redraw THEN Segfault ELSE 0)

ClientStep ==
    \/ Connect \/ ConnectFails \/ Globals \/ Submit \/ SubmitFails \/ AwaitTimeout
    \/ AwaitFlush \/ ReadEvents \/ HungUp \/ Unmap \/ Interactive

\* PID 1, signals and the test child.
InitStep == Pid1Step \/ RequestShutdown \/ ChildEnds \/ \E c \in Children : Terminated(c)

Next == CompositorStep \/ ClientStep \/ (InitStep /\ OnlyKernel)

Spec == Init /\ [][Next]_vars

\* Every process runs, a fatal signal is delivered, and the clock goes on: the compositor,
\* whose loop always comes back to its head, finds there at last that its time is over.
FairSpec ==
    /\ Spec
    /\ WF_vars(CompositorStep) /\ WF_vars(ClientStep) /\ WF_vars(Pid1Step /\ OnlyKernel)
    /\ WF_vars(Terminated("compositor") /\ OnlyKernel)
    /\ SF_vars(TimeUp)

-----------------------------------------------------------------------------
TypeOK ==
    /\ Pid1TypeOK
    /\ server \in {"setup", "accept", "dispatch", "input"}
    /\ display \in {"ok", "fails"}
    /\ replies \subseteq {"globals", "capabilities", "key"}
    /\ events \subseteq {"globals", "capabilities", "key", "done"}
    /\ app \in {"connect", "globals", "submit", "await", "read", "interactive"}
    /\ frame \in BOOLEAN /\ redraw \in BOOLEAN
    /\ WlTypeOK

\* The client's "Full rendering test passed": the compositor has shown its picture, all
\* of it, unless the display refused it, which the compositor only logs.
SuccessMeansShown ==
    status[Client] = 0 /\ display = "ok" => screen = [of |-> Client, whole |-> TRUE]

\* The client redraws in memory it has unmapped (test-client.rs:341, 380).  It never does:
\* the request for the keyboard, on which the keys depend, is sent by a blocking_dispatch
\* that comes after the events of the bind and before the frame, and the compositor sends
\* these two together.
NeverDrawsUnmapped == app = "interactive" => ~redraw

\* The client ends, whatever becomes of the compositor and of the frame it waits for
\* (test-client.rs:331, 337): it is never left waiting in a read.
ClientEnds == proc[Client] = "running" ~> proc[Client] # "running"
=============================================================================
