-------------------------- MODULE ProcessExitProofs --------------------------
(***************************************************************************)
(* For any number of pipelines and any functions a program with one thread *)
(* calls, at any moment it leaves main(): with stopExit registered its     *)
(* thread handle never terminates it.                                      *)
(***************************************************************************)
EXTENDS ProcessExit, RunControlProofs

\* The only thread that uses the server is the one that leaves main().
SoleCaller == Callers = {Main}

\* Nobody but Main changes head, so what Main has tested stays true; and main()
\* is left, and the handlers are run, between calls.
HandleInv ==
    /\ pc[Main] \in {"launch", "assign"} => ~joinable
    /\ pc[Main] \in {"beginjoin", "joining"} => joinable
    /\ phase \in {"handlers", "destroy", "gone"} => pc[Main] = "idle"
    /\ phase = "stopExit" => pc[Main] \in {"idle", "stop", "stopcheck", "beginjoin", "joining"}
    /\ phase = "stopExit" /\ pc[Main] = "idle" => ~joinable
    /\ phase = "destroy" /\ handler => ~joinable
    /\ phase \in {"handlers", "stopExit"} => handler
    /\ aborted => phase = "destroy" /\ ~handler

\* Main is idle when the program starts.
LEMMA InitHandle == ExitInit => IndInv /\ HandleInv
<1> SUFFICES ASSUME ExitInit PROVE IndInv /\ HandleInv
  OBVIOUS
<1>1. IndInv  BY InitIndInv DEF ExitInit
<1>2. pc[Main] = "idle" /\ ~aborted /\ phase = "main"
  BY ConstantsAssumption, MainAssumption DEF ExitInit, Init, Ctx
<1> QED  BY <1>1, <1>2 DEF HandleInv

\* The steps of main() and of the exit keep the invariant of RunControl.
LEMMA ExitKeepsIndInv == ASSUME IndInv, [ExitNext]_allVars PROVE IndInv'
<1>1. CASE Threads
  BY <1>1, ProgressIndInv, CallerIndInv, RunnerIndInv DEF Threads
<1>2. CASE Application
  BY <1>2, CallerIndInv DEF Application
<1>3. CASE CallStopExit
  BY <1>3, ConstantsAssumption, MainAssumption
  DEF CallStopExit, Goto, IndInv, TypeOK, ModeKnown, HeadOwned, PlacesOK, RunnersInMulti,
      RunningHasOwner, Owns, Ctx, Modes, RunPC, CallPC, HeadPC, RunnerPC
<1>4. CASE Destroy
  BY <1>4, ZenonT(30) DEF Destroy, IndInv, TypeOK, ModeKnown, HeadOwned, PlacesOK, RunnersInMulti,
     RunningHasOwner, Owns
<1>5. CASE UNCHANGED vars
  BY <1>5 DEF vars, IndInv, TypeOK, ModeKnown, HeadOwned, PlacesOK, RunnersInMulti,
     RunningHasOwner, Owns
<1> QED
  BY <1>1, <1>2, <1>3, <1>4, <1>5
  DEF ExitNext, ExitStep, StopExitReturns, Register, ReturnFromMain, allVars

\* The server's own threads never touch head.
LEMMA ThreadsKeepHandle ==
    ASSUME SoleCaller, IndInv, HandleInv, UNCHANGED exitVars,
           \/ \E t \in Ctx : Progress(t)
           \/ \E t \in Ctx, p \in Pipes : RunnerProgress(t, p)
    PROVE  HandleInv'
<1> USE MainAssumption, ConstantsAssumption DEF SoleCaller, exitVars, HandleInv
<1>1. CASE \E t \in Ctx : Progress(t)
  <2> PICK t \in Ctx : Progress(t)  BY <1>1
  <2>1. UNCHANGED <<joinable, aborted>>
    BY DEF Progress, CheckPasses, CheckFails, SetRunning, PublishStatus, Spawn, SpawnedAll,
       LoopPass, LeaveLoop, JoinRunners, PublishOffline, vars
  <2>2. t = Main => pc[Main] \in RunPC \cup {"enter"} /\ pc'[Main] \in RunPC \cup {"enter", "idle"}
    BY DEF Progress, CheckPasses, CheckFails, SetRunning, PublishStatus, Spawn, SpawnedAll,
       LoopPass, LeaveLoop, JoinRunners, PublishOffline, vars, Return, Goto, After, RunPC,
       IndInv, TypeOK, Ctx
  <2>3. t # Main => pc'[Main] = pc[Main]
    BY DEF Progress, CheckPasses, CheckFails, SetRunning, PublishStatus, Spawn, SpawnedAll,
       LoopPass, LeaveLoop, JoinRunners, PublishOffline, vars, Return, Goto, IndInv, TypeOK, Ctx
  <2> QED  BY <2>1, <2>2, <2>3 DEF RunPC
<1>2. CASE \E t \in Ctx, p \in Pipes : RunnerProgress(t, p)
  BY <1>2 DEF RunnerProgress, RunnerInit, RunnerPass, RunnerLeave, RunnerClose, RunnerStep, vars
<1> QED  BY <1>1, <1>2

\* What Main does inside a function, and its calls.
LEMMA MainKeepsHandle ==
    ASSUME SoleCaller, IndInv, HandleInv, UNCHANGED exitVars,
           CallerProgress(Main) \/ (phase = "main" /\ Call(Main))
    PROVE  HandleInv'
<1> USE MainAssumption, ConstantsAssumption
    DEF SoleCaller, exitVars, HandleInv, IndInv, TypeOK, PlacesOK, Ctx, Goto
<1>1. CASE Launch(Main)            BY <1>1 DEF Launch
<1>0. CASE AssignHead(Main)        BY <1>0 DEF AssignHead
<1>2. CASE LaunchTerminates(Main)  BY <1>2 DEF LaunchTerminates
<1>3. CASE StopFlag(Main)          BY <1>3 DEF StopFlag
<1>4. CASE StopReturnsFalse(Main)  BY <1>4 DEF StopReturnsFalse
<1>5. CASE StopFindsHead(Main)     BY <1>5 DEF StopFindsHead
<1>6. CASE BeginJoin(Main)         BY <1>6 DEF BeginJoin
<1>7. CASE JoinThrows(Main)        BY <1>7 DEF JoinThrows, MayJoin
<1>8. CASE StopReturnsTrue(Main)   BY <1>8 DEF StopReturnsTrue
<1>9. CASE \E n \in 0 .. MaxPipes : Configure(Main, n)  BY <1>9 DEF Configure
<1>10. CASE phase = "main" /\ \E k \in Modes : CallRun(Main, k)  BY <1>10 DEF CallRun
<1>11. CASE phase = "main" /\ \E k \in Modes : CallRunThread(Main, k)  BY <1>11 DEF CallRunThread
<1>12. CASE RunThreadRefused(Main) \/ ConfigureRefused(Main)
  BY <1>12 DEF RunThreadRefused, ConfigureRefused, vars
<1>13. CASE phase = "main" /\ CallStop(Main)  BY <1>13 DEF CallStop
<1>14. CASE phase = "main" /\ CallConfigure(Main)  BY <1>14 DEF CallConfigure
<1> QED
  BY <1>0, <1>1, <1>2, <1>3, <1>4, <1>5, <1>6, <1>7, <1>8, <1>9, <1>10, <1>11, <1>12, <1>13, <1>14
  DEF CallerProgress, Call

\* The handlers and the destructors.
LEMMA ExitKeepsHandle ==
    ASSUME SoleCaller, IndInv, HandleInv, ~aborted, ExitStep \/ Register \/ ReturnFromMain
    PROVE  HandleInv'
<1> USE MainAssumption, ConstantsAssumption DEF SoleCaller, HandleInv
<1>1. CASE CallStopExit     BY <1>1 DEF CallStopExit, Goto, IndInv, TypeOK, Ctx
<1>2. CASE StopExitReturns  BY <1>2 DEF StopExitReturns, vars
<1>3. CASE Destroy          BY <1>3 DEF Destroy
<1>4. CASE Register         BY <1>4 DEF Register, vars
<1>5. CASE ReturnFromMain   BY <1>5 DEF ReturnFromMain, vars
<1> QED  BY <1>1, <1>2, <1>3, <1>4, <1>5 DEF ExitStep

\* HandleInv holds from the first call to the end of the process.
THEOREM HandleInvariance == ASSUME SoleCaller PROVE ExitSpec => [](IndInv /\ HandleInv)
<1>1. IndInv /\ HandleInv /\ [ExitNext]_allVars => (IndInv /\ HandleInv)'
  <2> SUFFICES ASSUME IndInv, HandleInv, [ExitNext]_allVars PROVE HandleInv'
    BY ExitKeepsIndInv
  <2>1. CASE Threads
    <3>1. (\E c \in Callers : CallerProgress(c)) => CallerProgress(Main)  BY DEF SoleCaller
    <3> QED  BY <2>1, <3>1, ThreadsKeepHandle, MainKeepsHandle DEF Threads
  <2>2. CASE Application
    <3>1. phase = "main" /\ Call(Main) /\ UNCHANGED exitVars  BY <2>2 DEF Application, SoleCaller
    <3> QED  BY <3>1, MainKeepsHandle
  <2>3. CASE ExitStep  BY <2>3, ExitKeepsHandle DEF ExitStep
  <2>4. CASE ~aborted /\ (Register \/ ReturnFromMain)  BY <2>4, ExitKeepsHandle
  <2>5. CASE UNCHANGED allVars  BY <2>5 DEF allVars, vars, exitVars, HandleInv
  <2> QED  BY <2>1, <2>2, <2>3, <2>4, <2>5 DEF ExitNext
<1> QED  BY InitHandle, <1>1, PTL DEF ExitSpec

\* atexit(VisionServer::stopExit) makes leaving main() safe at any moment: the
\* handle is joined before it is destroyed, and no call before that aborts.
THEOREM ExitIsSafe == ASSUME SoleCaller PROVE ExitSpec => []AbortsOnlyUnregistered
<1>1. HandleInv => AbortsOnlyUnregistered  BY DEF HandleInv, AbortsOnlyUnregistered, NeverAborts
<1> QED  BY HandleInvariance, <1>1, PTL

\* Also while the program ends, whatever number of threads call the server: if
\* nobody uses a blocking run function, a head without an unfinished thread means
\* a server that is down, so that stopExit() leaves nothing running behind it.
THEOREM DownAtExit == ASSUME BackgroundUse PROVE ExitSpec => []DownWhenHeadDown
<1>1. IndInv /\ BackgroundInv /\ [ExitNext]_allVars => (IndInv /\ BackgroundInv)'
  <2> SUFFICES ASSUME IndInv, BackgroundInv, [ExitNext]_allVars PROVE BackgroundInv'
    BY ExitKeepsIndInv
  <2>1. CASE Threads
    BY <2>1, BackgroundProgress, BackgroundCaller, BackgroundRunner DEF Threads
  <2>2. CASE Application
    BY <2>2, BackgroundCaller DEF Application
  <2>3. CASE CallStopExit
    BY <2>3, ConstantsAssumption, MainAssumption
    DEF CallStopExit, Goto, IndInv, TypeOK, BackgroundInv, Announced, Ctx, RunPC
  <2>4. CASE Destroy
    BY <2>4 DEF Destroy, BackgroundInv, Announced
  <2>5. CASE UNCHANGED vars
    BY <2>5 DEF vars, BackgroundInv, Announced
  <2> QED
    BY <2>1, <2>2, <2>3, <2>4, <2>5
    DEF ExitNext, ExitStep, StopExitReturns, Register, ReturnFromMain, allVars
<1>2. ExitInit => IndInv /\ BackgroundInv  BY InitIndInv, BackgroundInit DEF ExitInit
<1> QED  BY <1>1, <1>2, HeadDown, PTL DEF ExitSpec
=============================================================================
