--------------------------- MODULE DisplayTestProofs ---------------------------
(***************************************************************************)
(* Proofs about DisplayTest: that PID 1 reports the client's exit code and *)
(* forgets no zombie, that the client's success means that its picture was *)
(* shown, and that it does not draw in memory it has unmapped.             *)
(*                                                                         *)
(* The first two need to know of the children only; Pid1Inv is inductive   *)
(* by itself.  The others follow the client's one batch of requests        *)
(* through the sockets (QueueInv), what the compositor has of it           *)
(* (ServerInv), and what comes back (ShownInv).                            *)
(***************************************************************************)
EXTENDS DisplayTest, SequenceTheorems, TLAPS

-----------------------------------------------------------------------------
(* PID 1 and the client's exit code. *)

\* The client's status is read, or lost for good.
ClientRead ==
    /\ proc[Client] \in {"reaped", "lost"}
    /\ code = IF proc[Client] = "lost" THEN 0 ELSE status[Client]

\* A child that has ended has an exit status.
StatusKnown == \A c \in Children : proc[c] \in {"zombie", "reaped", "lost"} => status[c] # None

\* From its wait for the client on, PID 1 has the client's status, or none is to be had.
WaitInv ==
    /\ pid1 = "waited" /\ target = Client => ClientRead
    /\ pid1 = "kill" \/ target = "compositor" => ClientRead

\* The inductive invariant of PID 1 and its children.
Pid1Inv == Pid1TypeOK /\ StatusKnown /\ WaitInv /\ ZombiesSignalled

\* A step of the system is one of PID 1, or one that ends a child, or one that PID 1 and
\* the kernel do not notice.
LEMMA ForPid1 ==
  ASSUME Next
  PROVE  \/ Pid1Step \/ RequestShutdown
         \/ \E c \in Children, st \in {0, 1, Segfault, Killed} : Exit(c, st)
         \/ UNCHANGED initVars
  BY DEF Next, InitStep, Terminated, ChildEnds, Children, Client, CompositorStep, ClientStep,
     Setup, SetupFails, TimeUp, Accept, DispatchClients, PoolFails, FlushClients, FlushFails,
     ReadInput, OnlyServer,
     Connect, ConnectFails, Globals, Submit, SubmitFails, AwaitTimeout, AwaitFlush, ReadEvents,
     HungUp, Unmap, Interactive, OnlyClient, ClientExits

\* A child that ends leaves its status and a SIGCHLD.
LEMMA ExitPid1 ==
  ASSUME Pid1Inv, NEW c \in Children, NEW st \in {0, 1, Segfault, Killed}, Exit(c, st)
  PROVE  Pid1Inv'
<1> USE DEF Pid1Inv, Exit, Running, pid1Vars, globals
<1>1. Pid1TypeOK'
  BY DEF Pid1TypeOK
<1>2. WaitInv'
  BY DEF WaitInv, ClientRead, Pid1TypeOK, Children, Client
<1>3. ZombiesSignalled'
  BY DEF ZombiesSignalled
<1>4. StatusKnown'
  BY NoneAssumption DEF StatusKnown, Pid1TypeOK
<1>5. QED
  BY <1>1, <1>2, <1>3, <1>4

\* The handler reaps all the zombies that there are; the client's code is 0 from then on
\* only if it has not been read.
LEMMA HandleSignalPid1 ==
  ASSUME Pid1Inv, HandleSignal
  PROVE  Pid1Inv'
<1> USE DEF Pid1Inv, HandleSignal, ReapAll, Zombies, InHandler, HandlerEnds
<1>1. Pid1TypeOK'
  BY DEF Pid1TypeOK, Children, Client, Loop, Ended
<1>2. WaitInv'
  BY DEF WaitInv, ClientRead, Pid1TypeOK, Children, Client
<1>3. ZombiesSignalled'
  BY DEF ZombiesSignalled, Children
<1>4. StatusKnown'
  BY DEF StatusKnown, Pid1TypeOK
<1>5. QED
  BY <1>1, <1>2, <1>3, <1>4

\* The steps of the display mode: only waitpid reaps there, and what it reaps for the
\* client is what becomes the code.
LEMMA DisplayModePid1 ==
  ASSUME Pid1Inv,
         \/ ForkCompositor \/ ForkCompositorFails \/ ForkClient \/ ForkFails
         \/ WaitBlocks \/ WaitCall \/ Interrupted \/ WaitFails \/ Proceed \/ Kill
  PROVE  Pid1Inv'
<1> USE DEF Pid1Inv, ForkCompositor, ForkCompositorFails, ForkClient, ForkFails, WaitBlocks,
            WaitCall, Interrupted, WaitFails, Proceed, Kill, At, Fork, Waited, Reap, Signal,
            Running, Zombies, Children, Client, globals, kernelVars
<1>1. Pid1TypeOK'
  <2> USE DEF Pid1TypeOK
  <2>1. pid1' \in {"fork_client", "wait", "blocked", "interrupted", "waited", "kill"} \cup Ended
        /\ target' \in {"compositor", Client, None}
    BY DEF Ended
  <2>2. code' \in {0, 1, Segfault, Killed}
    BY DEF StatusKnown
  <2>3. /\ proc' \in [Children -> {"none", "running", "zombie", "reaped", "lost"}]
        /\ dying' \subseteq Children
    <3>1. CASE ForkCompositor
      BY <3>1
    <3>2. CASE ForkClient
      BY <3>2
    <3>3. CASE WaitCall
      BY <3>3
    <3>4. CASE Kill
      BY <3>4
    <3>5. QED
      BY <3>1, <3>2, <3>3, <3>4
  <2>4. UNCHANGED <<childPid, childExited, shutdown, respawns, status, sigchld>>
    OBVIOUS
  <2>5. QED
    BY <2>1, <2>2, <2>3, <2>4
<1>2. WaitInv'
  BY DEF WaitInv, ClientRead, Pid1TypeOK
<1>3. ZombiesSignalled'
  BY DEF ZombiesSignalled, Pid1TypeOK, Ended
<1>4. StatusKnown'
  BY DEF StatusKnown, Pid1TypeOK
<1>5. QED
  BY <1>1, <1>2, <1>3, <1>4

\* The steps of the heartbeat loop and of the shutdown, and the signals of others.
LEMMA HeartbeatPid1 ==
  ASSUME Pid1Inv,
         \/ ForkChild \/ SetChildPid \/ ClearExited \/ LoopHead \/ LoopBody
         \/ ShutdownCheck \/ KillChild \/ Halt \/ RequestShutdown
  PROVE  Pid1Inv'
<1> USE DEF Pid1Inv, ForkChild, SetChildPid, ClearExited, LoopHead, LoopBody, ShutdownCheck,
            KillChild, Halt, RequestShutdown, At, Fork, Signal, Running, Zombies, Children,
            Client, globals, kernelVars
<1>1. Pid1TypeOK'
  <2> USE DEF Pid1TypeOK
  <2>1. pid1' \in Loop \cup Ended \cup {pid1} /\ childPid' \in {"child", None}
        /\ childExited' \in BOOLEAN /\ shutdown' \in BOOLEAN
    BY DEF Loop, Ended
  <2>2. respawns' \in 0 .. MaxRespawns
    BY DEF MaxRespawns
  <2>3. /\ proc' \in [Children -> {"none", "running", "zombie", "reaped", "lost"}]
        /\ dying' \subseteq Children
    <3>1. CASE ForkChild
      BY <3>1
    <3>2. CASE KillChild
      BY <3>2
    <3>3. CASE ~ForkChild /\ ~KillChild
      BY <3>3
    <3>4. QED
      BY <3>1, <3>2, <3>3
  <2>4. UNCHANGED <<target, code, status, sigchld>>
    OBVIOUS
  <2>5. QED
    BY <2>1, <2>2, <2>3, <2>4
<1>2. WaitInv'
  BY DEF WaitInv, ClientRead, Pid1TypeOK
<1>3. ZombiesSignalled'
  BY DEF ZombiesSignalled, Pid1TypeOK, Ended
<1>4. StatusKnown'
  BY DEF StatusKnown, Pid1TypeOK
<1>5. QED
  BY <1>1, <1>2, <1>3, <1>4

\* PID 1 begins with no children and no code.
LEMMA Pid1Init == Init => Pid1Inv
<1> SUFFICES ASSUME Init PROVE Pid1Inv
  OBVIOUS
<1> USE DEF Init, InitPid1
<1>1. Pid1TypeOK
  <2>1. /\ pid1 \in {"fork_compositor", "spawn"} /\ target = None
        /\ code \in {0, 1, Segfault, Killed}
        /\ childPid = None /\ childExited \in BOOLEAN /\ shutdown \in BOOLEAN
        /\ sigchld \in BOOLEAN /\ dying \subseteq Children
    OBVIOUS
  <2>2. respawns \in 0 .. MaxRespawns
    BY DEF MaxRespawns
  <2>3. /\ proc \in [Children -> {"none", "running", "zombie", "reaped", "lost"}]
        /\ status \in [Children -> {None, 0, 1, Segfault, Killed}]
    OBVIOUS
  <2>4. QED
    BY <2>1, <2>2, <2>3 DEF Pid1TypeOK, Loop
<1>2. WaitInv
  BY NoneAssumption DEF WaitInv, Children, Client
<1>3. ZombiesSignalled
  BY DEF ZombiesSignalled, Zombies
<1>4. StatusKnown
  BY DEF StatusKnown
<1>5. QED
  BY <1>1, <1>2, <1>3, <1>4 DEF Pid1Inv

\* Every step of the system keeps the invariant.
LEMMA Pid1Next ==
  ASSUME Pid1Inv, [Next]_vars
  PROVE  Pid1Inv'
<1>1. CASE UNCHANGED initVars
  BY <1>1 DEF Pid1Inv, Pid1TypeOK, StatusKnown, WaitInv, ClientRead, ZombiesSignalled, Zombies,
              initVars, pid1Vars, kernelVars, globals
<1>2. CASE Pid1Step \/ RequestShutdown
  BY <1>2, HandleSignalPid1, DisplayModePid1, HeartbeatPid1 DEF Pid1Step
<1>3. QED
  BY <1>1, <1>2, ForPid1, ExitPid1 DEF vars

\* The exit code that PID 1 reports is the client's, or 0 if the SIGCHLD handler took the
\* client's status before waitpid was called (init.zig:57, 442), whatever ends when.
THEOREM CodeTrue == Spec => []CodeTrueUnlessLost
<1>1. Pid1Inv => CodeTrueUnlessLost
  BY DEF Pid1Inv, WaitInv, ClientRead, CodeTrueUnlessLost
<1>2. QED
  BY <1>1, Pid1Init, Pid1Next, PTL DEF Spec

\* No zombie is left over when several children end before one run of the handler, whose
\* loop reaps them all (init.zig:56).
THEOREM NoZombieForgotten == Spec => []ZombiesSignalled
<1>1. Pid1Inv => ZombiesSignalled
  BY DEF Pid1Inv
<1>2. QED
  BY <1>1, Pid1Init, Pid1Next, PTL DEF Spec

-----------------------------------------------------------------------------
(* Types. *)

\* The requests that the client sends.
Names == {"get_registry", "bind_seat", "create_pool", "create_buffer", "attach", "frame",
          "commit", "get_keyboard"}

\* The types of TypeOK in the form in which they are inductive: the queues are typed, too.
Types ==
    /\ server \in {"setup", "accept", "dispatch", "input"}
    /\ display \in {"ok", "fails"}
    /\ replies \subseteq {"globals", "capabilities", "key"}
    /\ events \subseteq {"globals", "capabilities", "key", "done"}
    /\ app \in {"connect", "globals", "submit", "await", "read", "interactive"}
    /\ frame \in BOOLEAN /\ redraw \in BOOLEAN
    /\ requests \in Seq(Names) /\ out \in Seq(Names)

\* The types of what the compositor keeps.
ObjectTypes ==
    /\ surfaces \in [{"surface"} -> SurfaceRecords \cup {None}]
    /\ pools \in [{"pool"} -> {Client, None}]
    /\ buffers \in [{"buffer"} -> BufferRecords \cup {None}]
    /\ keyboard \in {Client, None}
    /\ screen \in [of : {Client, None}, whole : BOOLEAN]
    /\ sent \subseteq {Client} \X {"callback"}

-----------------------------------------------------------------------------

\* All is empty at first.
LEMMA TypesInit == Init => Types /\ ObjectTypes
<1> SUFFICES ASSUME Init PROVE Types /\ ObjectTypes
  OBVIOUS
<1>1. Types
  <2>1. requests \in Seq(Names) /\ out \in Seq(Names)
    BY DEF Init
  <2>2. QED
    BY <2>1 DEF Init, Types
<1>2. ObjectTypes
  BY DEF Init, WlInit, Orange, ObjectTypes
<1>3. QED
  BY <1>1, <1>2

\* What a commit renders is a picture of the client.
LEMMA CommitTypes ==
  ASSUME ObjectTypes, Commit(Client, "surface", display)
  PROVE  ObjectTypes'
<1> USE DEF ObjectTypes
<1>1. Entry("surface") \in SurfaceRecords
  BY DEF Entry, SurfaceRecords
<1>2. screen' \in [of : {Client, None}, whole : BOOLEAN]
  <2>1. PICK b \in {"buffer", None} : screen' \in Rendered(b, display)
    BY <1>1 DEF Commit, SurfaceRecords
  <2>2. CASE Renderable(b)
    <3>1. b = "buffer" /\ buffers[b] \in BufferRecords
      BY <2>2 DEF Renderable
    <3>2. Picture(b) \in [of : {Client, None}, whole : BOOLEAN]
      BY <3>1 DEF Picture, BufferRecords
    <3>3. QED
      BY <2>1, <3>2 DEF Rendered
  <2>3. QED
    BY <2>1, <2>2 DEF Rendered
<1>3. sent' \subseteq {Client} \X {"callback"}
  BY <1>1 DEF Commit, SurfaceRecords
<1>4. surfaces' \in [{"surface"} -> SurfaceRecords \cup {None}]
  BY DEF Commit, SurfaceRecords
<1>5. QED
  BY <1>2, <1>3, <1>4 DEF Commit

\* The handler of any request keeps the types of the compositor's objects.
LEMMA HandleTypes ==
  ASSUME ObjectTypes, Types, NEW r, Handle(r)
  PROVE  ObjectTypes' /\ replies' \subseteq {"globals", "capabilities", "key"}
<1> USE DEF ObjectTypes, Types
<1>1. replies' \subseteq {"globals", "capabilities", "key"}
  BY DEF Handle
<1>2. CASE UNCHANGED objects
  BY <1>1, <1>2 DEF objects
<1>3. CASE CreatePool(Client, "pool") \/ GetKeyboard(Client)
  BY <1>1, <1>3 DEF CreatePool, GetKeyboard
<1>4. CASE CreateBuffer(Client, "pool", "buffer", "plain")
  BY <1>1, <1>4 DEF CreateBuffer, BufferRecords, Layouts
<1>5. CASE Attach(Client, "surface", "buffer")
  <2>1. Entry("surface") \in SurfaceRecords
    BY DEF Entry, SurfaceRecords
  <2>2. [Entry("surface") EXCEPT !.buffer = "buffer"] \in SurfaceRecords
    BY <2>1 DEF SurfaceRecords
  <2>3. QED
    BY <1>1, <1>5, <2>2 DEF Attach
<1>6. CASE Frame(Client, "surface", "callback")
  <2>1. Entry("surface") \in SurfaceRecords
    BY DEF Entry, SurfaceRecords
  <2>2. [Entry("surface") EXCEPT !.callback = <<Client, "callback">>] \in SurfaceRecords
    BY <2>1 DEF SurfaceRecords
  <2>3. QED
    BY <1>1, <1>6, <2>2 DEF Frame
<1>7. QED
  BY <1>1, <1>2, <1>3, <1>4, <1>5, <1>6, CommitTypes DEF Handle

\* Every step keeps the types.
LEMMA TypesNext ==
  ASSUME Types, ObjectTypes, [Next]_vars
  PROVE  Types' /\ ObjectTypes'
<1>1. CASE CompositorStep
  <2>1. CASE Setup \/ SetupFails \/ TimeUp \/ Accept \/ PoolFails \/ FlushFails
    <3>1. UNCHANGED <<display, objects, requests, out, replies, events, app, frame, redraw>>
      BY <2>1 DEF Setup, SetupFails, TimeUp, Accept, PoolFails, FlushFails, OnlyServer,
                  OnlyKernel, serverVars, socketVars, clientVars
    <3>2. server' \in {server, "accept", "dispatch"}
      BY <2>1 DEF Setup, SetupFails, TimeUp, Accept, PoolFails, FlushFails, OnlyKernel,
                  serverVars
    <3>3. QED
      BY <3>1, <3>2 DEF objects, Types, ObjectTypes
  <2>2. CASE DispatchClients
    <3>1. requests' \in Seq(Names)
      BY <2>2 DEF DispatchClients, Types
    <3>2. QED
      BY <2>2, <3>1, HandleTypes DEF DispatchClients, OnlyServer, clientVars, Types
  <2>3. CASE FlushClients
    BY <2>3 DEF FlushClients, Delivered, OnlyServer, clientVars, Types, ObjectTypes
  <2>4. CASE ReadInput
    BY <2>4 DEF ReadInput, OnlyServer, clientVars, socketVars, objects, Types, ObjectTypes
  <2>5. QED
    BY <1>1, <2>1, <2>2, <2>3, <2>4 DEF CompositorStep
<1>2. CASE ClientStep
  <2>1. ObjectTypes'
    BY <1>2 DEF ClientStep, Connect, ConnectFails, Globals, Submit, SubmitFails, AwaitTimeout,
       AwaitFlush, ReadEvents, HungUp, Unmap, Interactive, OnlyClient, ClientExits, OnlyKernel,
       serverVars, objects, ObjectTypes
  <2>2. requests' \in Seq(Names) /\ out' \in Seq(Names)
    <3> USE DEF Types
    <3>1. CASE Connect
      BY <3>1 DEF Connect, Names
    <3>2. CASE Globals
      BY <3>2 DEF Globals, Names
    <3>3. CASE Submit
      <4>1. Frames \in Seq(Names)
        BY DEF Frames, Names
      <4>2. QED
        BY <3>3, <4>1, ConcatProperties DEF Submit, socketVars
    <3>4. CASE AwaitFlush
      <4>1. <<>> \in Seq(Names)
        OBVIOUS
      <4>2. QED
        BY <3>4, <4>1, ConcatProperties DEF AwaitFlush
    <3>5. CASE ReadEvents
      <4>1. Append(out, "get_keyboard") \in Seq(Names)
        BY DEF Names
      <4>2. QED
        BY <3>5, <4>1 DEF ReadEvents
    <3>6. CASE Unmap \/ UNCHANGED <<requests, out>>
      BY <3>6 DEF Unmap, socketVars
    <3>7. QED
      BY <1>2, <3>1, <3>2, <3>3, <3>4, <3>5, <3>6 DEF ClientStep, ConnectFails, SubmitFails,
         AwaitTimeout, HungUp, Interactive, ClientExits, OnlyKernel, clientVars, socketVars
  <2>3. /\ events' \subseteq {"globals", "capabilities", "key", "done"}
        /\ app' \in {"connect", "globals", "submit", "await", "read", "interactive"}
        /\ frame' \in BOOLEAN /\ redraw' \in BOOLEAN
    BY <1>2 DEF ClientStep, Connect, ConnectFails, Globals, Submit, SubmitFails, AwaitTimeout,
       AwaitFlush, ReadEvents, HungUp, Unmap, Interactive, ClientExits, OnlyKernel,
       socketVars, clientVars, Types
  <2>4. UNCHANGED <<server, display, replies>>
    BY <1>2 DEF ClientStep, Connect, ConnectFails, Globals, Submit, SubmitFails, AwaitTimeout,
       AwaitFlush, ReadEvents, HungUp, Unmap, Interactive, OnlyClient, ClientExits, OnlyKernel,
       serverVars
  <2>5. QED
    BY <2>1, <2>2, <2>3, <2>4 DEF Types
<1>3. CASE OnlyKernel
  BY <1>3 DEF OnlyKernel, serverVars, socketVars, clientVars, objects, Types, ObjectTypes
<1>4. QED
  BY <1>1, <1>2, <1>3 DEF Next, vars, OnlyKernel

-----------------------------------------------------------------------------
(* The client's batch of requests. *)

\* The client's one batch of requests.
Batch == <<"bind_seat">> \o Frames

\* What is in the socket is the end of the batch: its first requests are handled.
Left == /\ Len(requests) <= Len(Batch)
        /\ \A i \in 1 .. Len(requests) : requests[i] = Batch[Len(Batch) - Len(requests) + i]

\* The first n requests of the batch are handled.
Handled(n) == Len(requests) <= Len(Batch) - n

\* The requests of the batch, one by one.
LEMMA BatchFacts ==
  /\ Batch \in Seq(Names) /\ Len(Batch) = 6
  /\ Batch[1] = "bind_seat" /\ Batch[2] = "create_pool" /\ Batch[3] = "create_buffer"
  /\ Batch[4] = "attach" /\ Batch[5] = "frame" /\ Batch[6] = "commit"
<1>1. Frames \in Seq(Names)
  BY DEF Frames, Names
<1>2. Batch \in Seq(Names)
  BY <1>1, ConcatProperties DEF Names, Batch
<1>3. QED
  BY <1>2 DEF Batch, Frames

\* As long as some of the batch is left, one to six requests are.
LEMMA LeftLength ==
  ASSUME requests \in Seq(Names), requests # <<>>, Left
  PROVE  Len(requests) \in 1 .. 6
<1>1. Len(requests) \in Nat /\ Len(requests) >= 1
  OBVIOUS
<1>2. Len(requests) <= 6
  BY BatchFacts DEF Left
<1>3. \A n \in Nat : n >= 1 /\ n <= 6 => n \in 1 .. 6
  OBVIOUS
<1>4. QED
  BY <1>1, <1>2, <1>3, Zenon

\* The request that is handled next is the one of the batch that is due.
LEMMA LeftStep ==
  ASSUME Left, requests \in Seq(Names), requests # <<>>, requests' = Tail(requests)
  PROVE  /\ Head(requests) = Batch[7 - Len(requests)] /\ Len(requests) \in 1 .. 6
         /\ Left' /\ Len(requests') = Len(requests) - 1
<1>1. Len(requests) \in 1 .. 6
  BY LeftLength
<1>2. Head(requests) = requests[1] /\ Len(requests') = Len(requests) - 1
      /\ requests' \in Seq(Names)
      /\ \A i \in 1 .. Len(requests) - 1 : requests'[i] = requests[i + 1]
  OBVIOUS
<1>3. Head(requests) = Batch[7 - Len(requests)]
  BY <1>1, <1>2, BatchFacts DEF Left
<1>4. Left'
  BY <1>1, <1>2, BatchFacts DEF Left
<1>5. QED
  BY <1>1, <1>2, <1>3, <1>4

\* A flush of the client puts the whole batch in the socket.
LEMMA BatchSent ==
  ASSUME requests = <<>>, out = Batch, requests' = requests \o out
  PROVE  requests' = Batch /\ Left' /\ Len(requests') = 6
<1>1. requests' = Batch
  BY BatchFacts
<1>2. Len(Batch) = 6 /\ Len(Batch) - Len(Batch) = 0
  BY BatchFacts
<1>3. \A i \in 1 .. 6 : 6 - 6 + i = i
  OBVIOUS
<1>4. Left'
  <2>1. Len(requests') = 6 /\ 6 <= 6 /\ Len(Batch) = 6
    BY <1>1, <1>2
  <2>2. Left' <=> /\ Len(requests') <= Len(Batch)
                  /\ \A i \in 1 .. Len(requests') :
                        requests'[i] = Batch[Len(Batch) - Len(requests') + i]
    BY DEF Left, Batch, Frames
  <2>3. \A i \in 1 .. 6 : requests'[i] = Batch[6 - 6 + i]
    BY <1>1, <1>3, Zenon
  <2>4. QED
    BY <2>1, <2>2, <2>3, Zenon
<1>5. QED
  BY <1>1, <1>2, <1>4

-----------------------------------------------------------------------------
(* The client and the compositor. *)

\* Nothing is on its way between the client and the compositor.
Quiet == requests = <<>> /\ replies = {} /\ events = {} /\ sent = {}

\* What is on its way, at each step of the client.
QueueInv ==
    /\ app = "connect" => Quiet /\ out = <<>>
    /\ app = "globals" =>
          /\ out = <<>> /\ sent = {}
          /\ replies \subseteq {"globals"} /\ events \subseteq {"globals"}
          /\ \/ requests = <<"get_registry">> /\ replies = {} /\ events = {}
             \/ requests = <<>> /\ (replies = {} \/ events = {})
    /\ app = "submit" => Quiet /\ out = <<"bind_seat">>
    /\ app = "await" /\ ~frame => Quiet /\ out = Batch
    /\ app = "read" => Left /\ out = <<>> /\ ~frame /\ replies \subseteq {"capabilities"}
    /\ app = "interactive" => frame
    /\ frame => app \in {"await", "interactive"} /\ requests = <<>>

\* What the compositor has, as far as it has handled the batch.
ServerInv ==
    app = "read" =>
       /\ Handled(2) => pools["pool"] = Client
       /\ Handled(3) => buffers["buffer"] = [pool |-> "pool", layout |-> "plain"]
       /\ Handled(4) => surfaces["surface"] # None /\ surfaces["surface"].buffer = "buffer"
       /\ Handled(5) /\ ~Handled(6) => surfaces["surface"].callback # None
       /\ ~Handled(6) => events = {} /\ sent = {}

\* The picture is on the screen, unless the display refused it.
Shown == display = "ok" => screen = [of |-> Client, whole |-> TRUE]

\* The callback is done only once the picture is shown.  The seat's capabilities come with
\* the callback, not before: the client reads once, and never sends what it answers.
ShownInv ==
    /\ sent # {} \/ "done" \in events \/ frame => Shown
    /\ "done" \in events \/ frame => sent = {}
    /\ "done" \in events \/ sent # {} => app = "read"
    /\ app = "read" => "done" \in events \/ events = {}
    /\ "capabilities" \in events => "done" \in events
    /\ "capabilities" \in replies /\ requests = <<>> => sent # {}
    /\ status[Client] = 0 => frame

\* No keyboard is asked for, so that no key comes and nothing is to be redrawn.
NoKeys == keyboard = None /\ "key" \notin replies \cup events /\ ~redraw

\* The inductive invariant of the client and the compositor.
DisplayInv == QueueInv /\ ServerInv /\ ShownInv /\ NoKeys

\* Nothing is sent and nothing shown at first.
LEMMA DisplayInit == Init => DisplayInv
<1> SUFFICES ASSUME Init PROVE DisplayInv
  OBVIOUS
<1> USE DEF Init, InitPid1, WlInit
<1>1. QueueInv
  BY DEF QueueInv, Quiet
<1>2. ServerInv
  BY DEF ServerInv
<1>3. ShownInv
  BY NoneAssumption DEF ShownInv, Children, Client
<1>4. NoKeys
  BY DEF NoKeys
<1>5. QED
  BY <1>1, <1>2, <1>3, <1>4 DEF DisplayInv

\* A step that leaves the sockets, the client and the compositor's objects alone keeps the
\* invariant, as long as the client's success is not its doing.
LEMMA OthersStep ==
  ASSUME DisplayInv,
         UNCHANGED <<replies, display, objects, socketVars, clientVars>>,
         status'[Client] = 0 => status[Client] = 0 \/ frame
  PROVE  DisplayInv'
<1> USE DEF DisplayInv, objects, socketVars, clientVars
<1>1. QueueInv'
  BY DEF QueueInv, Quiet, Left
<1>2. ServerInv'
  BY DEF ServerInv, Handled
<1>3. ShownInv'
  BY DEF ShownInv, Shown
<1>4. NoKeys'
  BY DEF NoKeys
<1>5. QED
  BY <1>1, <1>2, <1>3, <1>4

\* Keys are dropped: there is no keyboard to send them to.
LEMMA ReadInputStep ==
  ASSUME DisplayInv, ReadInput
  PROVE  DisplayInv'
<1>1. UNCHANGED <<replies, display, objects, socketVars, clientVars, status>>
  BY DEF ReadInput, NoKeys, OnlyServer, initVars, kernelVars, DisplayInv
<1>2. QED
  BY <1>1, OthersStep

\* The seat's capabilities and the callback are flushed together.
LEMMA FlushStep ==
  ASSUME DisplayInv, Types, ObjectTypes, FlushClients
  PROVE  DisplayInv'
<1> USE DEF DisplayInv, FlushClients, Delivered, OnlyServer, initVars, kernelVars, clientVars
<1>1. QueueInv'
  BY DEF QueueInv, Quiet, Left
<1>2. ServerInv'
  BY BatchFacts DEF ServerInv, Handled
<1>3. ShownInv'
  <2>1. events' = events \cup replies \cup IF sent = {} THEN {} ELSE {"done"}
    OBVIOUS
  <2>2. "done" \notin replies
    BY DEF Types
  <2>3. Shown' <=> Shown
    BY DEF Shown
  <2>4. sent' # {} \/ "done" \in events' \/ frame' => Shown'
    BY <2>1, <2>2, <2>3 DEF ShownInv
  <2>5. "done" \in events' \/ sent' # {} => app' = "read"
    BY <2>1, <2>2 DEF ShownInv
  <2>6. app' = "read" => "done" \in events' \/ events' = {}
    BY <2>1 DEF ShownInv, QueueInv
  <2>7. "capabilities" \in events' => "done" \in events'
    BY <2>1 DEF ShownInv
  <2>8. QED
    BY <2>4, <2>5, <2>6, <2>7 DEF ShownInv
<1>4. NoKeys'
  BY DEF NoKeys
<1>5. QED
  BY <1>1, <1>2, <1>3, <1>4

\* Before the batch there is only the client's get_registry to handle.
LEMMA GlobalsDispatch ==
  ASSUME DisplayInv, Types, DispatchClients, app # "read"
  PROVE  DisplayInv'
<1> USE DEF DisplayInv, DispatchClients, OnlyServer, clientVars, initVars, kernelVars
<1>1. app = "globals" /\ requests = <<"get_registry">> /\ replies = {} /\ events = {}
  BY DEF QueueInv, Quiet, Types
<1>2. requests' = <<>> /\ replies' = {"globals"} /\ UNCHANGED objects
  BY <1>1 DEF Handle
<1>3. QueueInv'
  BY <1>1, <1>2 DEF QueueInv, Quiet, objects
<1>4. ServerInv'
  BY <1>1 DEF ServerInv
<1>5. ShownInv'
  BY <1>1, <1>2 DEF ShownInv, Shown, objects, QueueInv
<1>6. NoKeys'
  BY <1>1, <1>2 DEF NoKeys, objects
<1>7. QED
  BY <1>3, <1>4, <1>5, <1>6

\* The requests of the batch, each as the compositor finds it at the head of the queue: the
\* commit finds the surface's buffer, its pool and the callback, and shows the picture.
LEMMA ReadDispatch ==
  ASSUME DisplayInv, Types, ObjectTypes, DispatchClients, app = "read"
  PROVE  DisplayInv'
<1> DEFINE n == Len(requests)
<1> USE DEF DisplayInv, DispatchClients, OnlyServer, clientVars, initVars, kernelVars
<1>1. /\ Head(requests) = Batch[7 - n] /\ n \in 1 .. 6
      /\ Left' /\ Len(requests') = n - 1
  BY LeftStep DEF QueueInv, Types
<1>2. /\ UNCHANGED <<app, out, frame, redraw, events, display, status>>
      /\ events = {} /\ sent = {} /\ out = <<>> /\ ~frame
  BY <1>1, BatchFacts DEF ServerInv, Handled, QueueInv
<1>3. \A k \in 1 .. 6 : Handled(k) <=> n <= 6 - k
  BY BatchFacts DEF Handled
<1>4. \A k \in 1 .. 6 : Handled(k)' <=> n - 1 <= 6 - k
  BY <1>1, BatchFacts DEF Handled
<1>5. ASSUME replies' \subseteq {"capabilities"}, keyboard' = keyboard
      PROVE  QueueInv' /\ NoKeys'
  BY <1>1, <1>2, <1>5 DEF QueueInv, NoKeys
<1>6. ASSUME sent' = {}, n # 1
      PROVE  ShownInv'
  <2>1. requests' # <<>>
    BY <1>1, <1>6
  <2>2. QED
    BY <1>2, <1>6, <2>1 DEF ShownInv
<1> HIDE DEF DisplayInv, DispatchClients
<1>7. Handle(Batch[7 - n]) /\ ServerInv /\ QueueInv /\ ShownInv
  BY <1>1 DEF DisplayInv, DispatchClients
<1>8. replies \subseteq {"capabilities"}
  BY <1>7 DEF QueueInv
<1>9. CASE n = 6
  <2>1. replies' = replies \cup {"capabilities"} /\ UNCHANGED objects
    BY <1>7, <1>9, BatchFacts DEF Handle
  <2>2. ServerInv'
    BY <1>2, <1>4, <1>9, <2>1 DEF ServerInv, objects
  <2>3. QED
    BY <1>2, <1>5, <1>6, <1>8, <1>9, <2>1, <2>2 DEF DisplayInv, objects
<1>10. CASE n = 5
  <2>1. CreatePool(Client, "pool") /\ UNCHANGED replies
    BY <1>7, <1>10, BatchFacts DEF Handle
  <2>2. pools'["pool"] = Client
    BY <2>1 DEF CreatePool, ObjectTypes
  <2>3. ServerInv'
    BY <1>2, <1>4, <1>10, <2>1, <2>2 DEF ServerInv, CreatePool
  <2>4. QED
    BY <1>2, <1>5, <1>6, <1>8, <1>10, <2>1, <2>3 DEF DisplayInv, CreatePool
<1>11. CASE n = 4
  <2>1. CreateBuffer(Client, "pool", "buffer", "plain") /\ UNCHANGED replies
    BY <1>7, <1>11, BatchFacts DEF Handle
  <2>2. buffers'["buffer"] = [pool |-> "pool", layout |-> "plain"]
    BY <2>1 DEF CreateBuffer, ObjectTypes
  <2>3. ServerInv'
    BY <1>2, <1>3, <1>4, <1>7, <1>11, <2>1, <2>2 DEF ServerInv, CreateBuffer
  <2>4. QED
    BY <1>2, <1>5, <1>6, <1>8, <1>11, <2>1, <2>3 DEF DisplayInv, CreateBuffer
<1>12. CASE n = 3
  <2>1. Attach(Client, "surface", "buffer") /\ UNCHANGED replies
    BY <1>7, <1>12, BatchFacts DEF Handle
  <2>2. Entry("surface") \in SurfaceRecords
    BY DEF Entry, ObjectTypes, SurfaceRecords
  <2>3. [Entry("surface") EXCEPT !.buffer = "buffer"] \in SurfaceRecords
        /\ [Entry("surface") EXCEPT !.buffer = "buffer"].buffer = "buffer"
    BY <2>2 DEF SurfaceRecords
  <2>4. surfaces'["surface"] # None /\ surfaces'["surface"].buffer = "buffer"
    BY <2>1, <2>3, ObjectsAssumption DEF Attach, ObjectTypes
  <2>5. ServerInv'
    BY <1>2, <1>3, <1>4, <1>7, <1>12, <2>1, <2>4 DEF ServerInv, Attach
  <2>6. QED
    BY <1>2, <1>5, <1>6, <1>8, <1>12, <2>1, <2>5 DEF DisplayInv, Attach
<1>13. CASE n = 2
  <2>1. Frame(Client, "surface", "callback") /\ UNCHANGED replies
    BY <1>7, <1>13, BatchFacts DEF Handle
  <2>2. surfaces["surface"] # None /\ surfaces["surface"].buffer = "buffer"
    BY <1>2, <1>3, <1>7, <1>13 DEF ServerInv
  <2>3. Entry("surface") = surfaces["surface"] /\ surfaces["surface"] \in SurfaceRecords
    BY <2>2 DEF Entry, ObjectTypes
  <2> DEFINE e == [surfaces["surface"] EXCEPT !.callback = <<Client, "callback">>]
  <2>4. /\ e \in SurfaceRecords /\ e.buffer = "buffer"
        /\ e.callback \in {Client} \X {"callback"}
    BY <2>2, <2>3 DEF SurfaceRecords
  <2>5. surfaces'["surface"] = e
    BY <2>1, <2>3 DEF Frame, ObjectTypes
  <2> HIDE DEF e
  <2>6. /\ surfaces'["surface"] # None /\ surfaces'["surface"].buffer = "buffer"
        /\ surfaces'["surface"].callback # None
    BY <2>4, <2>5, ObjectsAssumption
  <2>7. ServerInv'
    BY <1>2, <1>3, <1>4, <1>7, <1>13, <2>1, <2>6 DEF ServerInv, Frame
  <2>8. QED
    BY <1>2, <1>5, <1>6, <1>8, <1>13, <2>1, <2>7 DEF DisplayInv, Frame
<1>14. CASE n = 1
  <2>1. Commit(Client, "surface", display) /\ UNCHANGED replies
    BY <1>7, <1>14, BatchFacts DEF Handle
  <2>2. /\ pools["pool"] = Client
        /\ buffers["buffer"] = [pool |-> "pool", layout |-> "plain"]
        /\ surfaces["surface"] # None /\ surfaces["surface"].buffer = "buffer"
        /\ surfaces["surface"].callback # None
    BY <1>2, <1>3, <1>7, <1>14 DEF ServerInv
  <2>3. Entry("surface") = surfaces["surface"] /\ surfaces["surface"] \in SurfaceRecords
    BY <2>2 DEF Entry, ObjectTypes
  <2>4. Shown'
    <3>1. screen' \in Rendered("buffer", display)
      BY <2>1, <2>2, <2>3 DEF Commit
    <3>2. Renderable("buffer")
      <4>1. "buffer" # None /\ Client # None
        BY ObjectsAssumption, NoneAssumption DEF Children, Client
      <4>2. buffers["buffer"] \in BufferRecords
        BY <2>2 DEF BufferRecords, Layouts
      <4>3. buffers["buffer"] # None
        BY <4>2, ObjectsAssumption
      <4>4. QED
        BY <2>2, <4>1, <4>3 DEF Renderable
    <3>3. Picture("buffer") = [of |-> Client, whole |-> TRUE]
      <4>1. pools[buffers["buffer"].pool] = Client /\ buffers["buffer"].layout = "plain"
        BY <2>2
      <4>2. (buffers["buffer"].layout = "plain") = TRUE
        BY <4>1
      <4>3. QED
        BY <4>1, <4>2, Zenon DEF Picture
    <3>4. QED
      BY <1>2, <3>1, <3>2, <3>3 DEF Rendered, Shown
  <2>5. sent' # {}
    BY <2>1, <2>2, <2>3 DEF Commit
  <2>6. surfaces'["surface"] # None /\ surfaces'["surface"].buffer = "buffer"
    <3>1. [surfaces["surface"] EXCEPT !.callback = None] \in SurfaceRecords
          /\ [surfaces["surface"] EXCEPT !.callback = None].buffer = "buffer"
      BY <2>2, <2>3 DEF SurfaceRecords
    <3>2. QED
      BY <2>1, <2>2, <3>1, ObjectsAssumption DEF Commit, ObjectTypes
  <2>7. ServerInv'
    BY <1>2, <1>3, <1>4, <1>7, <1>14, <2>1, <2>2, <2>6 DEF ServerInv, Commit
  <2>8. ShownInv'
    BY <1>2, <1>7, <2>4, <2>5 DEF ShownInv
  <2>9. QED
    BY <1>2, <1>5, <1>8, <2>1, <2>7, <2>8 DEF DisplayInv, Commit
<1>15. QED
  BY <1>1, <1>9, <1>10, <1>11, <1>12, <1>13, <1>14

\* The steps of the client other than its exits.
LEMMA ClientDisplay ==
  ASSUME DisplayInv, Types, ObjectTypes,
         Connect \/ Globals \/ Submit \/ AwaitFlush \/ ReadEvents \/ Unmap
  PROVE  DisplayInv'
<1>1. UNCHANGED <<server, replies, display, objects, status>>
  BY DEF Connect, Globals, Submit, AwaitFlush, ReadEvents, Unmap, OnlyClient, initVars,
         kernelVars, serverVars
<1> USE DEF DisplayInv
<1>2. CASE Connect
  <2>1. Quiet /\ out = <<>> /\ ~frame /\ status[Client] # 0 /\ app' = "globals"
        /\ requests' = <<"get_registry">> /\ UNCHANGED <<events, out, frame, redraw>>
    BY <1>2 DEF Connect, InApp, QueueInv, ShownInv
  <2>2. QueueInv'
    BY <1>1, <2>1 DEF QueueInv, Quiet, objects
  <2>3. ServerInv' /\ ShownInv' /\ NoKeys'
    BY <1>1, <2>1 DEF ServerInv, ShownInv, NoKeys, Quiet, objects
  <2>4. QED
    BY <2>2, <2>3
<1>3. CASE Globals
  <2>1. /\ requests = <<>> /\ replies = {} /\ sent = {} /\ ~frame /\ status[Client] # 0
        /\ app' = "submit" /\ events' = {} /\ out' = <<"bind_seat">>
        /\ UNCHANGED <<requests, frame, redraw>>
    BY <1>3 DEF Globals, InApp, QueueInv, ShownInv
  <2>2. QueueInv'
    BY <1>1, <2>1 DEF QueueInv, Quiet, objects
  <2>3. ServerInv' /\ ShownInv' /\ NoKeys'
    BY <1>1, <2>1 DEF ServerInv, ShownInv, NoKeys, objects
  <2>4. QED
    BY <2>2, <2>3
<1>4. CASE Submit
  <2>1. /\ Quiet /\ ~frame /\ status[Client] # 0 /\ app' = "await" /\ out' = Batch
        /\ UNCHANGED <<requests, events, frame, redraw>>
    BY <1>4 DEF Submit, InApp, QueueInv, ShownInv, Batch, socketVars
  <2>2. QueueInv'
    BY <1>1, <2>1 DEF QueueInv, Quiet, objects
  <2>3. ServerInv' /\ ShownInv' /\ NoKeys'
    BY <1>1, <2>1 DEF ServerInv, ShownInv, NoKeys, Quiet, objects
  <2>4. QED
    BY <2>2, <2>3
<1>5. CASE AwaitFlush
  <2>1. /\ Quiet /\ out = Batch /\ ~frame /\ status[Client] # 0 /\ app' = "read"
        /\ requests' = requests \o out /\ out' = <<>> /\ UNCHANGED <<events, frame, redraw>>
    BY <1>5 DEF AwaitFlush, InApp, QueueInv, ShownInv
  <2>2. Left' /\ Len(requests') = 6
    BY <2>1, BatchSent DEF Quiet
  <2>3. QueueInv'
    BY <1>1, <2>1, <2>2 DEF QueueInv, Quiet, objects
  <2>4. \A k \in 1 .. 6 : ~Handled(k)'
    BY <2>2, BatchFacts DEF Handled
  <2>5. ServerInv'
    BY <1>1, <2>1, <2>4 DEF ServerInv, Quiet, objects
  <2>6. requests' # <<>>
    BY <2>2
  <2>7. ShownInv' /\ NoKeys'
    BY <1>1, <2>1, <2>6 DEF ShownInv, NoKeys, Quiet, objects
  <2>8. QED
    BY <2>3, <2>5, <2>7
<1>6. CASE ReadEvents
  <2>1. /\ app = "read" /\ "done" \in events /\ "key" \notin events /\ Shown
        /\ sent = {} /\ status[Client] # 0
        /\ app' = "await" /\ frame' = TRUE /\ redraw' = redraw /\ events' = {}
        /\ requests' = requests
    BY <1>6 DEF ReadEvents, InApp, QueueInv, ShownInv, NoKeys, Types
  <2>2. requests = <<>>
    <3>1. Len(requests) <= 0
      BY <2>1, BatchFacts DEF ServerInv, Handled
    <3>2. QED
      BY <3>1 DEF Types
  <2>3. QueueInv'
    BY <2>1, <2>2 DEF QueueInv
  <2>4. Shown'
    BY <1>1, <2>1 DEF Shown, objects
  <2>5. ServerInv' /\ ShownInv' /\ NoKeys'
    BY <1>1, <2>1, <2>4 DEF ServerInv, ShownInv, NoKeys, objects
  <2>6. QED
    BY <2>3, <2>5
<1>7. CASE Unmap
  <2>1. /\ frame /\ app = "await" /\ app' = "interactive"
        /\ UNCHANGED <<requests, events, out, frame, redraw>>
    BY <1>7 DEF Unmap, InApp, socketVars
  <2>2. QueueInv'
    BY <2>1 DEF QueueInv
  <2>3. ServerInv' /\ ShownInv' /\ NoKeys'
    BY <1>1, <2>1 DEF ServerInv, ShownInv, Shown, NoKeys, objects
  <2>4. QED
    BY <2>2, <2>3
<1>8. QED
  BY <1>2, <1>3, <1>4, <1>5, <1>6, <1>7

\* The client's status becomes 0 at the end of its interactive mode only.
LEMMA StatusStep ==
  ASSUME Pid1Inv, DisplayInv, OnlyKernel,
         \/ SetupFails \/ TimeUp \/ PoolFails \/ FlushFails
         \/ ConnectFails \/ SubmitFails \/ AwaitTimeout \/ HungUp \/ Interactive \/ InitStep
  PROVE  DisplayInv'
<1>1. status'[Client] = 0 => status[Client] = 0 \/ frame
  <2>1. CASE Interactive
    BY <2>1 DEF Interactive, InApp, DisplayInv, QueueInv
  <2>2. ASSUME NEW c \in Children, NEW st \in {0, 1, Segfault, Killed}, Exit(c, st),
               c # Client \/ st # 0
        PROVE  status'[Client] = 0 => status[Client] = 0
    BY <2>2 DEF Exit, Pid1Inv, Pid1TypeOK, Client, Children
  <2>3. CASE \/ SetupFails \/ TimeUp \/ PoolFails \/ FlushFails
             \/ ConnectFails \/ SubmitFails \/ AwaitTimeout \/ HungUp
    BY <2>2, <2>3 DEF SetupFails, TimeUp, PoolFails, FlushFails, ConnectFails, SubmitFails,
       AwaitTimeout, HungUp, ClientExits, Children, Client
  <2>4. CASE InitStep
    <3>1. CASE ChildEnds \/ \E c \in Children : Terminated(c)
      BY <2>2, <3>1 DEF ChildEnds, Terminated, Killed, Children, Client
    <3>2. CASE Pid1Step \/ RequestShutdown
      <4>1. UNCHANGED status
        BY <3>2 DEF Pid1Step, RequestShutdown, ForkCompositor, ForkCompositorFails, ForkClient,
           ForkFails, WaitBlocks, WaitCall, Interrupted, WaitFails, HandleSignal, Proceed, Kill,
           ForkChild, SetChildPid, ClearExited, LoopHead, LoopBody, ShutdownCheck, KillChild,
           Halt, Fork, Signal, Reap, kernelVars
      <4>2. QED
        BY <4>1
    <3>3. QED
      BY <2>4, <3>1, <3>2 DEF InitStep
  <2>5. QED
    BY <2>1, <2>3, <2>4
<1>2. QED
  BY <1>1, OthersStep DEF OnlyKernel, serverVars

\* Every step of the system keeps the invariant of the display.
LEMMA DisplayNext ==
  ASSUME Pid1Inv, Types, ObjectTypes, DisplayInv, [Next]_vars
  PROVE  DisplayInv'
<1>1. CASE Setup \/ Accept \/ UNCHANGED vars
  BY <1>1, OthersStep DEF Setup, Accept, vars, OnlyServer, initVars, kernelVars, serverVars
<1>2. QED
  BY <1>1, StatusStep, ClientDisplay, ReadDispatch, GlobalsDispatch, FlushStep, ReadInputStep
     DEF Next, CompositorStep, ClientStep, SetupFails, TimeUp, PoolFails, FlushFails,
         ConnectFails, SubmitFails, AwaitTimeout, HungUp, Interactive, ClientExits

-----------------------------------------------------------------------------
(* The theorems about the display test. *)

\* The inductive invariant of the whole system.
IInv == Pid1Inv /\ Types /\ ObjectTypes /\ DisplayInv

\* It holds at first and is kept by every step.
LEMMA Inductive == Spec => []IInv
<1>1. Init => IInv
  BY Pid1Init, TypesInit, DisplayInit DEF IInv, Init
<1>2. IInv /\ [Next]_vars => IInv'
  BY Pid1Next, TypesNext, DisplayNext DEF IInv
<1>3. QED
  BY <1>1, <1>2, PTL DEF Spec

\* Every variable of PID 1, the compositor, the client and the sockets has its type.
THEOREM TypeCorrect == Spec => []TypeOK
<1>1. IInv => TypeOK
  <2> SUFFICES ASSUME IInv PROVE TypeOK
    OBVIOUS
  <2>1. WlTypeOK
    BY DEF IInv, ObjectTypes, WlTypeOK, SurfaceRecords, BufferRecords
  <2>2. QED
    BY <2>1 DEF IInv, Pid1Inv, Types, TypeOK
<1>2. QED
  BY <1>1, Inductive, PTL

\* A success of the client (test-client.rs:429) means that the compositor has shown its
\* picture, all of it, unless the DRM calls failed, which main.rs:253 only logs.
THEOREM SuccessShown == Spec => []SuccessMeansShown
<1>1. IInv => SuccessMeansShown
  BY DEF IInv, DisplayInv, ShownInv, Shown, SuccessMeansShown
<1>2. QED
  BY <1>1, Inductive, PTL

\* The client never redraws in memory it has unmapped (test-client.rs:341, 380): the request
\* for the keyboard is never sent, because the frame has come when it is queued.
THEOREM MappedDrawn == Spec => []NeverDrawsUnmapped
<1>1. IInv => NeverDrawsUnmapped
  BY DEF IInv, DisplayInv, NoKeys, NeverDrawsUnmapped
<1>2. QED
  BY <1>1, Inductive, PTL

=============================================================================
