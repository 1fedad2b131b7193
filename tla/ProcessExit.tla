----------------------------- MODULE ProcessExit -----------------------------
(***************************************************************************)
(* How a program that uses the vision server ends.  VisionServer is a      *)
(* function-local static (core/visionserver2.h: getInstance) whose         *)
(* destructor joins nothing, and whose member head is a std::thread: one   *)
(* that is still joinable when it is destroyed calls std::terminate.  The  *)
(* README asks for atexit(VisionServer::stopExit), which is registered     *)
(* after the server was first used and therefore runs before the server is *)
(* destroyed.  Main is the thread that returns from main(); RunControl     *)
(* goes on underneath until the server is gone.                            *)
(***************************************************************************)
EXTENDS RunControl

CONSTANT Main
ASSUME MainAssumption == Main \in Callers

VARIABLES
    handler,   \* stopExit is registered with atexit
    phase      \* "main", "handlers", "stopExit", "destroy", "gone"

exitVars == <<handler, phase>>
allVars == <<vars, exitVars>>

ExitInit == Init /\ handler = FALSE /\ phase = "main"

\* atexit(VisionServer::stopExit); the README does so after run() returned.
Register ==
    /\ phase = "main"
    /\ pc[Main] = "idle"
    /\ ~handler
    /\ handler' = TRUE
    /\ UNCHANGED <<vars, phase>>

ReturnFromMain ==
    /\ phase = "main"
    /\ pc[Main] = "idle"
    /\ phase' = IF handler THEN "handlers" ELSE "destroy"
    /\ UNCHANGED <<vars, handler>>

\* Mutant: stopExit only clears the flag.
CallStopExitNoJoin ==
    /\ phase = "handlers"
    /\ is_running' = FALSE
    /\ phase' = "destroy"
    /\ UNCHANGED <<status, npipes, joinable, pc, mode, runner, aborted, handler>>

\* stopExit() { stop(); }
CallStopExit ==
    /\ phase = "handlers"
    /\ Goto(Main, "idle", "stop")
    /\ phase' = "stopExit"
    /\ UNCHANGED <<is_running, status, npipes, joinable, mode, runner, aborted, handler>>

StopExitReturns ==
    /\ phase = "stopExit"
    /\ pc[Main] = "idle"
    /\ phase' = "destroy"
    /\ UNCHANGED <<vars, handler>>

\* ~VisionServer is empty; then the members are destroyed, head among them.
Destroy ==
    /\ phase = "destroy"
    /\ \/ joinable  /\ aborted' = TRUE /\ UNCHANGED phase
       \/ ~joinable /\ phase' = "gone" /\ UNCHANGED aborted
    /\ UNCHANGED <<is_running, status, npipes, joinable, pc, mode, runner, handler>>

ExitStep == ~aborted /\ (CallStopExit \/ StopExitReturns \/ Destroy)

\* The library's threads run until the program is gone.
Threads ==
    /\ phase # "gone"
    /\ UNCHANGED exitVars
    /\ \/ \E t \in Ctx : Progress(t)
       \/ \E c \in Callers : CallerProgress(c)
       \/ \E t \in Ctx, p \in Pipes : RunnerProgress(t, p)

Application == phase = "main" /\ UNCHANGED exitVars /\ \E c \in Callers : Call(c)

ExitNext ==
    \/ Threads \/ Application \/ ExitStep
    \/ ~aborted /\ (Register \/ ReturnFromMain)

ExitSpec ==
    /\ ExitInit /\ [][ExitNext]_allVars
    /\ \A t \in Ctx : WF_allVars(phase # "gone" /\ Progress(t) /\ UNCHANGED exitVars)
    /\ \A c \in Callers : WF_allVars(phase # "gone" /\ CallerProgress(c) /\ UNCHANGED exitVars)
    /\ \A t \in Ctx, p \in Pipes :
          WF_allVars(phase # "gone" /\ RunnerProgress(t, p) /\ UNCHANGED exitVars)
    /\ WF_allVars(ExitStep)

-----------------------------------------------------------------------------
(* Properties, for a program in which one thread uses background sessions. *)

\* The program is terminated by its own thread handle in one case only: it
\* leaves main() during a background session without having registered
\* stopExit.  Before that no sequence of calls aborts it, and with stopExit no
\* moment of leaving does.
AbortsOnlyUnregistered == NeverAborts \/ (phase = "destroy" /\ ~handler)

\* A program that leaves main() while its background session is in its loop
\* ends: stopExit clears the flag, the threads follow, and join() returns.
ExitCompletes == (phase = "handlers" /\ pc[Head] = "loop") ~> (phase = "gone")
=============================================================================
