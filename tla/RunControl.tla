----------------------------- MODULE RunControl -----------------------------
(***************************************************************************)
(* Start and stop of the vision server (core/visionserver2.cpp): the       *)
(* static functions run, runSingle, runRaw, their ...Thread variants,      *)
(* stop, and the add.../set... functions guarded by isRunning().           *)
(*                                                                         *)
(* Any number of application threads (Callers) call these functions        *)
(* concurrently; none of them takes a lock.  The shared state is the       *)
(* atomic flag is_running, the std::thread handle head, the vector of      *)
(* pipelines and the published "Status" entry.  A context is a thread that *)
(* can execute a run function: a caller, or the thread that head owns.     *)
(* One step is one access to shared state.                                 *)
(***************************************************************************)
EXTENDS Naturals

CONSTANTS
    Callers,   \* application threads
    Head,      \* the thread owned by VisionServer::head
    MaxPipes,  \* bound on the length of VisionServer::pipelines
    MayCall    \* which functions each caller uses: its usage discipline

Ops == {"run", "runThread", "stop", "configure"}

ASSUME ConstantsAssumption ==
    /\ Head \notin Callers
    /\ MaxPipes \in Nat
    /\ MayCall \in [Callers -> SUBSET Ops]

Ctx   == Callers \cup {Head}
Pipes == 1 .. MaxPipes

\* The three run functions: run, runSingle, runRaw.
Modes == {"multi", "single", "raw"}

(***************************************************************************)
(* Program counters of a context.                                          *)
(*   enter ... offline       inside a run function                         *)
(*   launch                  in a ...Thread function, its check passed     *)
(*   assign                  its thread runs and is not in head yet        *)
(*   stop ... joining        inside stop()                                 *)
(*   configure               in an add.../set... function, check passed    *)
(*   idle                    a caller that is in none of them              *)
(*   none, finished          head owns no thread; its function returned    *)
(***************************************************************************)
RunPC  == {"set", "status", "spawn", "loop", "join", "offline"}
CallPC == {"idle", "enter", "launch", "assign", "stop", "stopcheck", "beginjoin", "joining",
           "configure"}
HeadPC == {"none", "enter", "finished"}

\* A std::thread of the local vector `runners' of run().
RunnerPC == {"none", "init", "loop", "close", "done"}

VARIABLES
    is_running,   \* std::atomic<bool> VisionServer::is_running
    status,       \* the published "Status": "offline" or the mode running
    npipes,       \* pipelines.size()
    joinable,     \* head.joinable()
    pc,           \* program counter of each context
    mode,         \* the run function a context executes or launches
    runner,       \* runner[t][p]: thread of pipeline p spawned by t's run()
    aborted       \* std::terminate was called

vars == <<is_running, status, npipes, joinable, pc, mode, runner, aborted>>

-----------------------------------------------------------------------------

NoRunners == [p \in Pipes |-> "none"]

Init ==
    /\ is_running = FALSE
    /\ status = "offline"
    /\ npipes \in 0 .. MaxPipes   \* registered before the threads start
    /\ joinable = FALSE
    /\ pc = [t \in Ctx |-> IF t = Head THEN "none" ELSE "idle"]
    /\ mode = [t \in Ctx |-> "none"]
    /\ runner = [t \in Ctx |-> NoRunners]
    /\ aborted = FALSE

Goto(t, from, to) == pc[t] = from /\ pc' = [pc EXCEPT ![t] = to]

\* A function returns: a caller continues, the thread of head is over.
After(t) == IF t = Head THEN "finished" ELSE "idle"
Return(t, from) ==
    /\ Goto(t, from, After(t))
    /\ mode' = [mode EXCEPT ![t] = "none"]

-----------------------------------------------------------------------------
(* run, runSingle and runRaw, executed by context t.                       *)

CallRun(c, k) ==
    /\ "run" \in MayCall[c]
    /\ Goto(c, "idle", "enter")
    /\ mode' = [mode EXCEPT ![c] = k]
    /\ UNCHANGED <<is_running, status, npipes, joinable, runner, aborted>>

MayStart(k) == ~is_running /\ (k = "raw" \/ npipes > 0)

\* runRaw publishes before it sets the flag, the other two after.
CheckPasses(t) ==
    /\ MayStart(mode[t])
    /\ Goto(t, "enter", IF mode[t] = "raw" THEN "status" ELSE "set")
    /\ UNCHANGED <<is_running, status, npipes, joinable, mode, runner, aborted>>

CheckFails(t) ==
    /\ ~MayStart(mode[t])
    /\ Return(t, "enter")
    /\ UNCHANGED <<is_running, status, npipes, joinable, runner, aborted>>

SetRunning(t) ==
    /\ Goto(t, "set", IF mode[t] = "raw" THEN "loop" ELSE "status")
    /\ is_running' = TRUE
    /\ UNCHANGED <<status, npipes, joinable, mode, runner, aborted>>

PublishStatus(t) ==
    /\ Goto(t, "status", CASE mode[t] = "raw"   -> "set"
                           [] mode[t] = "multi" -> "spawn"
                           [] OTHER             -> "loop")
    /\ status' = mode[t]
    /\ UNCHANGED <<is_running, npipes, joinable, mode, runner, aborted>>

\* for(i < pipelines.size()) runners.emplace_back(std::thread(pipelineRunner, ...))
Spawn(t, p) ==
    /\ pc[t] = "spawn"
    /\ p <= npipes
    /\ runner[t][p] = "none"
    /\ \A q \in 1 .. (p - 1) : runner[t][q] # "none"
    /\ runner' = [runner EXCEPT ![t][p] = "init"]
    /\ UNCHANGED <<is_running, status, npipes, joinable, pc, mode, aborted>>

SpawnedAll(t) ==
    /\ \A p \in 1 .. npipes : runner[t][p] # "none"
    /\ Goto(t, "spawn", "loop")
    /\ UNCHANGED <<is_running, status, npipes, joinable, mode, runner, aborted>>

\* One pass of while(isRunning()): stream indices are synchronised, the
\* state of this module is not changed.
LoopPass(t) ==
    /\ pc[t] = "loop"
    /\ is_running
    /\ UNCHANGED vars

\* Mutant: the loop ends without the flag having been cleared.
LeaveLoopUnasked(t) ==
    /\ Goto(t, "loop", IF mode[t] = "multi" THEN "join" ELSE "offline")
    /\ UNCHANGED <<is_running, status, npipes, joinable, mode, runner, aborted>>

\* Mutant: run() returns without joining its runners.
LeaveLoopDetached(t) ==
    /\ ~is_running
    /\ Goto(t, "loop", "offline")
    /\ UNCHANGED <<is_running, status, npipes, joinable, mode, runner, aborted>>

LeaveLoop(t) ==
    /\ ~is_running
    /\ Goto(t, "loop", IF mode[t] = "multi" THEN "join" ELSE "offline")
    /\ UNCHANGED <<is_running, status, npipes, joinable, mode, runner, aborted>>

\* Mutant: the join loop counts pipelines that were never started.
JoinRunnersTooMany(t) ==
    /\ \A p \in Pipes : runner[t][p] = "done"
    /\ Goto(t, "join", "offline")
    /\ runner' = [runner EXCEPT ![t] = NoRunners]
    /\ UNCHANGED <<is_running, status, npipes, joinable, mode, aborted>>

JoinRunners(t) ==
    /\ \A p \in Pipes : runner[t][p] \in {"none", "done"}
    /\ Goto(t, "join", "offline")
    /\ runner' = [runner EXCEPT ![t] = NoRunners]
    /\ UNCHANGED <<is_running, status, npipes, joinable, mode, aborted>>

\* Mutant: the run function returns without publishing "Offline".
PublishNothing(t) ==
    /\ Return(t, "offline")
    /\ UNCHANGED <<is_running, status, npipes, joinable, runner, aborted>>

PublishOffline(t) ==
    /\ Return(t, "offline")
    /\ status' = "offline"
    /\ UNCHANGED <<is_running, npipes, joinable, runner, aborted>>

-----------------------------------------------------------------------------
(* pipelineRunner, executed by the thread run() spawned for pipeline p.    *)

RunnerStep(t, p, from, to) ==
    /\ runner[t][p] = from
    /\ runner' = [runner EXCEPT ![t][p] = to]
    /\ UNCHANGED <<is_running, status, npipes, joinable, pc, mode, aborted>>

RunnerInit(t, p)  == RunnerStep(t, p, "init", "loop")

\* One pass of while(isRunning()): a frame is grabbed, processed, put out and
\* timed, the state of this module is not changed.
RunnerPass(t, p) ==
    /\ runner[t][p] = "loop"
    /\ is_running
    /\ UNCHANGED vars

\* Mutant: the loop condition is negated.
RunnerLeaveNegated(t, p) == is_running /\ RunnerStep(t, p, "loop", "close")
RunnerLeave(t, p) == ~is_running /\ RunnerStep(t, p, "loop", "close")
RunnerClose(t, p) == RunnerStep(t, p, "close", "done")

-----------------------------------------------------------------------------
(* runThread, runSingleThread, runRawThread.                               *)

\* Mutant: the head.joinable() test is missing.
CallRunThreadUnguarded(c, k) ==
    /\ "runThread" \in MayCall[c]
    /\ ~is_running
    /\ Goto(c, "idle", "launch")
    /\ mode' = [mode EXCEPT ![c] = k]
    /\ UNCHANGED <<is_running, status, npipes, joinable, runner, aborted>>

CallRunThread(c, k) ==
    /\ "runThread" \in MayCall[c]
    /\ ~is_running
    /\ ~joinable
    /\ Goto(c, "idle", "launch")
    /\ mode' = [mode EXCEPT ![c] = k]
    /\ UNCHANGED <<is_running, status, npipes, joinable, runner, aborted>>

RunThreadRefused(c) ==
    /\ "runThread" \in MayCall[c]
    /\ pc[c] = "idle"
    /\ is_running \/ joinable
    /\ UNCHANGED vars

\* head = std::move(std::thread(...)) creates a thread, which may run at once, and
\* assigns it to head.  Until then stop() finds nothing to join.  There is one Head:
\* a second launcher waits until the thread of the first is in head.
Launch(c) ==
    /\ pc[c] = "launch"
    /\ pc[Head] = "none"
    /\ pc' = [pc EXCEPT ![c] = "assign", ![Head] = "enter"]
    /\ mode' = [mode EXCEPT ![c] = "none", ![Head] = mode[c]]
    /\ UNCHANGED <<is_running, status, npipes, joinable, runner, aborted>>

AssignHead(c) ==
    /\ Goto(c, "assign", "idle")
    /\ joinable' = TRUE
    /\ UNCHANGED <<is_running, status, npipes, mode, runner, aborted>>

\* Assigning to a joinable std::thread calls std::terminate.
LaunchTerminates(c) ==
    /\ pc[c] = "launch"
    /\ joinable
    /\ aborted' = TRUE
    /\ UNCHANGED <<is_running, status, npipes, joinable, pc, mode, runner>>

-----------------------------------------------------------------------------
(* stop().                                                                 *)

CallStop(c) ==
    /\ "stop" \in MayCall[c]
    /\ Goto(c, "idle", "stop")
    /\ UNCHANGED <<is_running, status, npipes, joinable, mode, runner, aborted>>

StopFlag(c) ==
    /\ Goto(c, "stop", "stopcheck")
    /\ is_running' = FALSE
    /\ UNCHANGED <<status, npipes, joinable, mode, runner, aborted>>

StopReturnsFalse(c) ==
    /\ ~joinable
    /\ Goto(c, "stopcheck", "idle")
    /\ UNCHANGED <<is_running, status, npipes, joinable, mode, runner, aborted>>

StopFindsHead(c) ==
    /\ joinable
    /\ Goto(c, "stopcheck", "beginjoin")
    /\ UNCHANGED <<is_running, status, npipes, joinable, mode, runner, aborted>>

\* std::thread::join() throws std::system_error when the handle is not
\* joinable any more or another thread is already joining it.
MayJoin == joinable /\ \A d \in Callers : pc[d] # "joining"

BeginJoin(c) ==
    /\ MayJoin
    /\ Goto(c, "beginjoin", "joining")
    /\ UNCHANGED <<is_running, status, npipes, joinable, mode, runner, aborted>>

JoinThrows(c) ==
    /\ ~MayJoin
    /\ pc[c] = "beginjoin"
    /\ aborted' = TRUE
    /\ UNCHANGED <<is_running, status, npipes, joinable, pc, mode, runner>>

\* join() returns, then stop() returns true.
StopReturnsTrue(c) ==
    /\ pc[c] = "joining"
    /\ pc[Head] = "finished"
    /\ pc' = [pc EXCEPT ![c] = "idle", ![Head] = "none"]
    /\ joinable' = FALSE
    /\ UNCHANGED <<is_running, status, npipes, mode, runner, aborted>>

-----------------------------------------------------------------------------
(* addCamera(s), setCameras, addPipeline(s), setPipelines, addStream(s):   *)
(* if(!isRunning()) { change the vectors }.                                *)

CallConfigure(c) ==
    /\ "configure" \in MayCall[c]
    /\ ~is_running
    /\ Goto(c, "idle", "configure")
    /\ UNCHANGED <<is_running, status, npipes, joinable, mode, runner, aborted>>

ConfigureRefused(c) ==
    /\ "configure" \in MayCall[c]
    /\ pc[c] = "idle"
    /\ is_running
    /\ UNCHANGED vars

\* Mutant: setPipelines appends to the old list.
ConfigureAppends(c, n) ==
    /\ Goto(c, "configure", "idle")
    /\ npipes' = npipes + n
    /\ UNCHANGED <<is_running, status, joinable, mode, runner, aborted>>

\* addPipeline(s) lengthens the vector, setPipelines replaces it, the camera
\* and stream functions leave its length alone.
Configure(c, n) ==
    /\ Goto(c, "configure", "idle")
    /\ npipes' = n
    /\ UNCHANGED <<is_running, status, joinable, mode, runner, aborted>>

-----------------------------------------------------------------------------

\* The steps a thread takes once it is inside one of the functions.
Progress(t) ==
    /\ ~aborted
    /\ \/ CheckPasses(t)
       \/ CheckFails(t)
       \/ SetRunning(t)
       \/ PublishStatus(t)
       \/ \E p \in Pipes : Spawn(t, p)
       \/ SpawnedAll(t)
       \/ LoopPass(t)
       \/ LeaveLoop(t)
       \/ JoinRunners(t)
       \/ PublishOffline(t)

CallerProgress(c) ==
    /\ ~aborted
    /\ \/ Launch(c)
       \/ AssignHead(c)
       \/ LaunchTerminates(c)
       \/ StopFlag(c)
       \/ StopReturnsFalse(c)
       \/ StopFindsHead(c)
       \/ BeginJoin(c)
       \/ JoinThrows(c)
       \/ StopReturnsTrue(c)
       \/ \E n \in 0 .. MaxPipes : Configure(c, n)

RunnerProgress(t, p) ==
    /\ ~aborted
    /\ \/ RunnerInit(t, p)
       \/ RunnerPass(t, p)
       \/ RunnerLeave(t, p)
       \/ RunnerClose(t, p)

\* The application calls a function, whenever it likes.
Call(c) ==
    /\ ~aborted
    /\ \/ \E k \in Modes : CallRun(c, k)
       \/ \E k \in Modes : CallRunThread(c, k)
       \/ RunThreadRefused(c)
       \/ CallStop(c)
       \/ CallConfigure(c)
       \/ ConfigureRefused(c)

Next ==
    \/ \E t \in Ctx : Progress(t)
    \/ \E c \in Callers : CallerProgress(c)
    \/ \E t \in Ctx, p \in Pipes : RunnerProgress(t, p)
    \/ \E c \in Callers : Call(c)

\* Every thread inside the library is scheduled again and again; nothing
\* forces the application to make a call.
Fairness ==
    /\ \A t \in Ctx : WF_vars(Progress(t))
    /\ \A c \in Callers : WF_vars(CallerProgress(c))
    /\ \A t \in Ctx, p \in Pipes : WF_vars(RunnerProgress(t, p))

Spec == Init /\ [][Next]_vars /\ Fairness

-----------------------------------------------------------------------------
(* Properties.                                                             *)

\* Every variable has its type.
TypeOK ==
    /\ is_running \in BOOLEAN
    /\ status \in Modes \cup {"offline"}
    /\ npipes \in 0 .. MaxPipes
    /\ joinable \in BOOLEAN
    /\ pc \in [Ctx -> RunPC \cup CallPC \cup HeadPC]
    /\ mode \in [Ctx -> Modes \cup {"none"}]
    /\ runner \in [Ctx -> [Pipes -> RunnerPC]]
    /\ aborted \in BOOLEAN

\* t has set the flag and has not seen it cleared: it will look at it again.
Owns(t) ==
    \/ pc[t] \in {"spawn", "loop"}
    \/ pc[t] = "status" /\ mode[t] # "raw"

\* isRunning() never reports a server that nobody runs: whatever the callers
\* do, while the flag is up some thread is still in its run function and will
\* test the flag again, so the server can be stopped and started again.
RunningHasOwner == is_running => \E t \in Ctx : Owns(t)

Live(t, p) == runner[t][p] # "none" /\ runner[t][p] # "done"
Workers == \E t \in Ctx, p \in Pipes : Live(t, p)

\* A processing thread never outlives the run() that spawned it: run() does
\* not announce "Offline" or return before it has joined its runners.
RunnersEnclosed ==
    \A t \in Ctx, p \in Pipes :
        runner[t][p] # "none" => pc[t] \in {"spawn", "loop", "join"}

\* While head owns no unfinished thread the server is down in every respect:
\* flag, published status and processing threads.  With StopReturnsTrue this is
\* what a stop() that returned true guarantees.
DownWhenHeadDown ==
    pc[Head] \in {"none", "finished"} =>
        /\ ~is_running
        /\ status = "offline"
        /\ ~Workers

\* No interleaving of the calls ends in std::terminate.
NeverAborts == ~aborted

Down ==
    /\ \A t \in Ctx : pc[t] \notin RunPC
    /\ \A t \in Ctx, p \in Pipes : runner[t][p] = "none"

\* If the flag stays down, everything winds down: every run function returns
\* and every runner is joined, in whatever order the threads are scheduled.
WindsDown == <>[](~is_running /\ ~aborted) => <>[]Down

\* The detailed run functions implement Session: one session at a time, closed
\* only when its threads are gone, on a fixed list of pipelines.
AbstractSession == INSTANCE Session WITH workers <- Workers
ImplementsSession == AbstractSession!Spec

\* A run function that is in its loop when stop() clears the flag returns.
StopEndsRun ==
    \A t \in Ctx : (pc[t] = "loop" /\ ~is_running) ~> (pc[t] \notin RunPC \/ aborted)

-----------------------------------------------------------------------------
(* What a comment of core/visionserver2.h says and the code does not do.   *)

\* visionserver2.h:128 "stop processing": stop() ends the background session
\* and returns.
StopReturns == \A c \in Callers : (pc[c] = "stop") ~> (pc[c] = "idle")
=============================================================================
