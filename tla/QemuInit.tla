------------------------------- MODULE QemuInit -------------------------------
(***************************************************************************)
(* PID 1 of the QEMU guest (qemu-init/init.zig) and its children.  With    *)
(* the kernel argument gfx=compositor-rs it runs the display test: it      *)
(* forks the compositor, sleeps, forks the test client, waits for it,      *)
(* terminates the compositor and exits with the code of the client.        *)
(* Without, it spawns /test_child, and in its heartbeat loop again each    *)
(* time child_exited is set, until a SIGTERM asks it to shut down.         *)
(*                                                                         *)
(* External: the kernel and std.os.linux.  The functions of the latter     *)
(* return what the system call does, as a usize: an error is a huge number *)
(* (init.zig:18 decodes one with E.init).  So a comparison with a value    *)
(* below 0 is never true, `pid <= 0` is `pid == 0`, and @intCast of an     *)
(* error to a pid panics (build.sh compiles with ReleaseSafe).  Of several *)
(* SIGCHLDs one is pending; handlers have SA_RESTART.  The machine has one *)
(* CPU (run.sh): a signal is handled before PID 1's next instruction.      *)
(*                                                                         *)
(* Abstracted: mounts, kernel modules and the mode drm_rect; time, so that *)
(* the sleeps promise nothing; which fatal signal a child gets.            *)
(***************************************************************************)
EXTENDS Naturals

CONSTANT None

Children == {"compositor", "client", "child"}
Client == "client"
Killed == 15         \* status & 0x7f of a process that SIGTERM ended
Segfault == 11
MaxRespawns == 3     \* as in the code

\* None is no child and no exit status.
ASSUME NoneAssumption == None \notin Children /\ None \notin {0, 1, Segfault, Killed}

VARIABLES pid1,         \* where PID 1 is; "spins": for ever in its SIGCHLD handler
          target,       \* the child that it waits for with waitpid
          code,         \* the exit code that it has read from the client's status
          childPid,     \* child_pid, written by the handler too: "child", or None for 0
          childExited,  \* child_exited, written by the handler too
          shutdown,     \* shutdown_requested, written by the handler
          respawns,     \* respawn_count
          proc,         \* for the kernel; "lost": reaped by the SIGCHLD handler
          status,       \* the exit status of each child
          sigchld,      \* a SIGCHLD is pending for PID 1
          dying         \* the children with a fatal signal pending

globals == <<childPid, childExited, shutdown, respawns>>
pid1Vars == <<pid1, target, code, globals>>
kernelVars == <<proc, status, sigchld, dying>>
initVars == <<pid1Vars, kernelVars>>

Loop == {"spawn", "set_pid", "clear", "loop", "body", "shutdown", "term", "kill_again",
         "kill_last", "unmount"}
Ended == {"done", "halted", "panicked"}

InitPid1 ==
    /\ pid1 \in {"fork_compositor", "spawn"}
    /\ target = None /\ code = 0
    /\ childPid = None /\ childExited = FALSE
    /\ shutdown = FALSE /\ respawns = 0
    /\ proc = [c \in Children |-> "none"]
    /\ status = [c \in Children |-> None]
    /\ sigchld = FALSE /\ dying = {}

-----------------------------------------------------------------------------
(* The kernel and the children *)

Running(c) == proc[c] = "running"
Zombies == {c \in Children : proc[c] = "zombie"}

\* A child ends; the kernel keeps its status and signals PID 1.
Exit(c, st) ==
    /\ Running(c)
    /\ proc' = [proc EXCEPT ![c] = "zombie"]
    /\ status' = [status EXCEPT ![c] = st]
    /\ sigchld' = TRUE
    /\ UNCHANGED <<pid1Vars, dying>>

\* None of the children handles SIGTERM.
Terminated(c) == c \in dying /\ Exit(c, Killed)

\* /test_child says hello and exits, or there is none to execute.
ChildEnds == \E st \in {0, 1} : Exit("child", st)

Fork(c) ==
    /\ proc' = [proc EXCEPT ![c] = "running"]
    /\ dying' = dying \ {c}
    /\ UNCHANGED <<status, sigchld>>

Signal(C) ==
    /\ dying' = dying \cup {c \in C : Running(c)}
    /\ UNCHANGED <<proc, status, sigchld>>

-----------------------------------------------------------------------------
(* handleSignal *)

\* SIGTERM or SIGINT; a call that it interrupts is made again.
RequestShutdown ==
    /\ ~shutdown /\ shutdown' = TRUE
    /\ UNCHANGED <<pid1, target, code, childPid, childExited, respawns, kernelVars>>

InHandler == sigchld /\ pid1 \notin {"blocked", "spins"} \cup Ended
ReapAll(C) == proc' = [c \in Children |-> IF c \in C THEN "lost" ELSE proc[c]]

\* The loop over waitpid(-1) ends when that returns 0: some child runs on.  Without a
\* child it returns ECHILD, which is not <= 0, for ever.
HandlerEnds ==
    pid1' = IF \A c \in Children : ~Running(c) THEN "spins"
            ELSE IF pid1 = "interrupted" THEN "wait" ELSE pid1

\* Seeded fault of HandleSignal: waitpid is called once and not in a loop.
HandleOne ==
    /\ InHandler /\ sigchld' = FALSE
    /\ \E c \in Zombies :
          /\ ReapAll({c})
          /\ childExited' = (childExited \/ c = childPid)
          /\ childPid' = IF c = childPid THEN None ELSE childPid
    /\ pid1' = IF pid1 = "interrupted" THEN "wait" ELSE pid1
    /\ UNCHANGED <<target, code, shutdown, respawns, status, dying>>

\* SIGCHLD: reaps every child that has ended, at any point of the main flow.
HandleSignal ==
    /\ InHandler /\ sigchld' = FALSE
    /\ ReapAll(Zombies)
    /\ childExited' = (childExited \/ childPid \in Zombies)
    /\ childPid' = IF childPid \in Zombies THEN None ELSE childPid
    /\ HandlerEnds
    /\ UNCHANGED <<target, code, shutdown, respawns, status, dying>>

\* The main flow goes on from here: no signal is to be handled first.
At(label) == pid1 = label /\ ~sigchld

-----------------------------------------------------------------------------
(* The display test *)

ForkCompositor ==
    /\ At("fork_compositor") /\ pid1' = "fork_client"
    /\ Fork("compositor")
    /\ UNCHANGED <<target, code, globals>>

\* The error is greater than 0 and taken for a pid, that of no process.
ForkCompositorFails ==
    /\ At("fork_compositor") /\ pid1' = "fork_client"
    /\ UNCHANGED <<target, code, globals, kernelVars>>

ForkClient ==
    /\ At("fork_client") /\ pid1' = "wait"
    /\ Fork(Client)
    /\ target' = Client
    /\ UNCHANGED <<code, globals>>

\* The @intCast for waitpid, or for child_pid, panics.
ForkFails ==
    /\ At("fork_client") \/ At("spawn")
    /\ pid1' = "panicked"
    /\ UNCHANGED <<target, code, globals, kernelVars>>

\* waitpid is over; st is what is in the status variable, 0 if waitpid has left it.
Waited(st) == pid1' = "waited" /\ code' = IF target = Client THEN st ELSE code

Reap(c) == proc' = [proc EXCEPT ![c] = "reaped"] /\ UNCHANGED <<status, sigchld, dying>>

\* Seeded fault of WaitCall: waitpid(-1), the first child that has ended.
WaitAny ==
    /\ pid1 = "blocked"
    /\ \E c \in Zombies : Reap(c) /\ Waited(status[c])
    /\ UNCHANGED <<target, globals>>

WaitBlocks ==
    /\ At("wait") /\ Running(target)
    /\ pid1' = "blocked"
    /\ UNCHANGED <<target, code, globals, kernelVars>>

\* The child ends: waitpid has it before the handler runs.
WaitCall ==
    /\ pid1 = "blocked" /\ target \in Zombies
    /\ Reap(target)
    /\ Waited(status[target])
    /\ UNCHANGED <<target, globals>>

\* Another child has ended: the handler runs, then the call is made again.
Interrupted ==
    /\ pid1 = "blocked" /\ sigchld /\ Running(target)
    /\ pid1' = "interrupted"
    /\ UNCHANGED <<target, code, globals, kernelVars>>

\* ECHILD: the handler was first.  The result of waitpid is not looked at.
WaitFails ==
    /\ At("wait") /\ proc[target] = "lost"
    /\ Waited(0)
    /\ UNCHANGED <<target, globals, kernelVars>>

\* posix.exit(exit_code) once the compositor has ended, too.
Proceed ==
    /\ At("waited")
    /\ pid1' = IF target = Client THEN "kill" ELSE "done"
    /\ UNCHANGED <<target, code, globals, kernelVars>>

Kill ==
    /\ At("kill") /\ pid1' = "wait"
    /\ Signal({"compositor"})
    /\ target' = "compositor"
    /\ UNCHANGED <<code, globals>>

-----------------------------------------------------------------------------
(* spawnChild, the heartbeat loop and the shutdown *)

ForkChild ==
    /\ At("spawn") /\ pid1' = "set_pid"
    /\ Fork("child")
    /\ UNCHANGED <<target, code, globals>>

\* The handler that reaps the child before this does not know it ...
SetChildPid ==
    /\ At("set_pid") /\ pid1' = "clear"
    /\ childPid' = "child"
    /\ UNCHANGED <<target, code, childExited, shutdown, respawns, kernelVars>>

\* ... and what the handler has noted before this is forgotten.
ClearExited ==
    /\ At("clear") /\ pid1' = "loop"
    /\ childExited' = FALSE
    /\ UNCHANGED <<target, code, childPid, shutdown, respawns, kernelVars>>

LoopHead ==
    /\ At("loop") /\ pid1' = IF shutdown THEN "shutdown" ELSE "body"
    /\ UNCHANGED <<target, code, globals, kernelVars>>

\* A child that has ended is spawned again, three times; else, and then, a heartbeat.
LoopBody ==
    /\ At("body")
    /\ LET again == childExited /\ respawns < MaxRespawns IN
          /\ pid1' = IF again THEN "spawn" ELSE "loop"
          /\ respawns' = IF again THEN respawns + 1 ELSE respawns
    /\ childExited' = FALSE
    /\ UNCHANGED <<target, code, childPid, shutdown, kernelVars>>

\* Whether there is a child to signal, before SIGTERM and before SIGKILL.
ShutdownCheck ==
    /\ At("shutdown") \/ At("kill_again")
    /\ pid1' = IF childPid = None THEN "unmount"
               ELSE IF pid1 = "shutdown" THEN "term" ELSE "kill_last"
    /\ UNCHANGED <<target, code, globals, kernelVars>>

\* kill(0) would signal the process group of PID 1, which all of its children are in.
KillChild ==
    /\ At("term") \/ At("kill_last")
    /\ pid1' = IF pid1 = "term" THEN "kill_again" ELSE "unmount"
    /\ Signal(IF childPid = None THEN Children ELSE {childPid})
    /\ UNCHANGED <<target, code, globals>>

Halt ==
    /\ At("unmount") /\ pid1' = "halted"
    /\ UNCHANGED <<target, code, globals, kernelVars>>

Pid1Step ==
    \/ ForkCompositor \/ ForkCompositorFails \/ ForkClient \/ ForkFails
    \/ WaitBlocks \/ WaitCall \/ Interrupted \/ WaitFails \/ HandleSignal \/ Proceed \/ Kill
    \/ ForkChild \/ SetChildPid \/ ClearExited \/ LoopHead \/ LoopBody
    \/ ShutdownCheck \/ KillChild \/ Halt

-----------------------------------------------------------------------------
Pid1TypeOK ==
    /\ pid1 \in {"fork_compositor", "fork_client", "wait", "blocked", "interrupted",
                 "waited", "kill", "spins"} \cup Loop \cup Ended
    /\ target \in {"compositor", Client, None}
    /\ code \in {0, 1, Segfault, Killed}
    /\ childPid \in {"child", None} /\ childExited \in BOOLEAN
    /\ shutdown \in BOOLEAN /\ respawns \in 0 .. MaxRespawns
    /\ proc \in [Children -> {"none", "running", "zombie", "reaped", "lost"}]
    /\ status \in [Children -> {None, 0, 1, Segfault, Killed}]
    /\ sigchld \in BOOLEAN /\ dying \subseteq Children

\* The exit code that PID 1 reports is the client's, unless the SIGCHLD handler took the
\* status before waitpid was called (init.zig:57, 442); then it is 0.
CodeTrueUnlessLost ==
    pid1 = "kill" \/ target = "compositor" =>
        code = IF proc[Client] = "lost" THEN 0 ELSE status[Client]

\* No zombie is left over when several children end before one run of the handler
\* (init.zig:56): as long as there is one, the handler has yet to run.
ZombiesSignalled == pid1 \notin {"spins"} \cup Ended /\ Zombies # {} => sigchld

\* "Exits with code 0 on success", "Clean shutdown" (compositor-rs/README.md:273-274): PID 1
\* ends when the test has passed, and on a SIGTERM during the heartbeats, after which
\* test-shutdown.sh:34-44 looks for the message and the unmounting (init.zig:479, 506-527).
InitEnds == status[Client] = 0 \/ (shutdown /\ pid1 = "loop") ~> pid1 \in Ended
=============================================================================
