-------------------------- MODULE RunControlProofs --------------------------
(***************************************************************************)
(* Proofs about RunControl, for any number of callers and pipelines and    *)
(* any usage discipline unless a theorem says otherwise.                   *)
(***************************************************************************)
EXTENDS RunControl, TLAPS

\* A context inside a run function, or about to enter or launch one, knows
\* which one; only run() spawns and joins.
ModeKnown ==
    \A t \in Ctx :
        /\ pc[t] \in RunPC \cup {"enter", "launch"} => mode[t] \in Modes
        /\ pc[t] \in {"spawn", "join"} => mode[t] = "multi"

\* There is a background thread, finished or not, exactly while head is joinable or
\* one launcher is about to assign the thread to it; one caller at most joins it.
HeadOwned ==
    /\ joinable => pc[Head] # "none"
    /\ pc[Head] # "none" => joinable \/ \E c \in Callers : pc[c] = "assign"
    /\ \A c \in Callers : pc[c] = "assign" =>
          /\ pc[Head] # "none" /\ ~joinable
          /\ \A d \in Callers : pc[d] = "assign" => d = c
    /\ \A c \in Callers : pc[c] = "joining" =>
          joinable /\ \A d \in Callers : pc[d] = "joining" => d = c

\* The pcs of callers and of the head thread do not mix.
PlacesOK ==
    /\ pc[Head] \in RunPC \cup HeadPC
    /\ \A c \in Callers : pc[c] \in RunPC \cup CallPC

\* Runners belong to a multithreaded run that has not joined them.
RunnersInMulti ==
    \A t \in Ctx, p \in Pipes :
        runner[t][p] # "none" => pc[t] \in {"spawn", "loop", "join"} /\ mode[t] = "multi"

\* The inductive invariant.  RunningHasOwner is not inductive alone: Launch
\* gives Head a new function, and what it was doing must be over (HeadOwned).
IndInv ==
    /\ TypeOK
    /\ ModeKnown
    /\ HeadOwned
    /\ PlacesOK
    /\ RunnersInMulti
    /\ RunningHasOwner

\* The invariant holds before the first call.
LEMMA InitIndInv == Init => IndInv
<1> SUFFICES ASSUME Init PROVE IndInv
  OBVIOUS
<1> USE ConstantsAssumption DEF Init, Ctx
<1>1. TypeOK
  BY DEF TypeOK, NoRunners, Modes, RunPC, CallPC, HeadPC, RunnerPC
<1>2. ModeKnown /\ HeadOwned /\ PlacesOK
  BY DEF ModeKnown, HeadOwned, PlacesOK, RunPC, CallPC, HeadPC
<1>3. RunnersInMulti /\ RunningHasOwner
  BY DEF RunnersInMulti, RunningHasOwner, NoRunners
<1> QED BY <1>1, <1>2, <1>3 DEF IndInv

\* Steps of a run function.
LEMMA ProgressIndInv ==
  ASSUME IndInv, NEW t \in Ctx, Progress(t)
  PROVE  IndInv'
<1> USE ConstantsAssumption DEF IndInv, TypeOK, ModeKnown, HeadOwned, PlacesOK,
     RunnersInMulti, RunningHasOwner, Owns, Ctx, Modes, RunPC, CallPC, HeadPC, RunnerPC,
     Goto, After, Return
<1>1. CASE CheckPasses(t)  BY <1>1 DEF CheckPasses, MayStart
<1>2. CASE CheckFails(t)   BY <1>2 DEF CheckFails, MayStart
<1>3. CASE SetRunning(t)   BY <1>3 DEF SetRunning
<1>4. CASE PublishStatus(t) BY <1>4 DEF PublishStatus
<1>5. CASE \E p \in Pipes : Spawn(t, p)
  <2> PICK p \in Pipes : Spawn(t, p)  BY <1>5
  <2>1. runner' \in [Ctx -> [Pipes -> RunnerPC]]
    BY DEF Spawn
  <2>2. mode[t] = "multi"
    BY DEF Spawn
  <2> QED BY <2>1, <2>2 DEF Spawn
<1>6. CASE SpawnedAll(t)   BY <1>6 DEF SpawnedAll
<1>7. CASE LoopPass(t)     BY <1>7 DEF LoopPass, vars
<1>8. CASE LeaveLoop(t)    BY <1>8 DEF LeaveLoop
<1>9. CASE JoinRunners(t)  BY <1>9 DEF JoinRunners, NoRunners
<1>10. CASE PublishOffline(t) BY <1>10 DEF PublishOffline
<1> QED BY <1>1, <1>2, <1>3, <1>4, <1>5, <1>6, <1>7, <1>8, <1>9, <1>10 DEF Progress

\* Steps of the other functions and calls of the application.
LEMMA CallerIndInv ==
  ASSUME IndInv, NEW c \in Callers, CallerProgress(c) \/ Call(c)
  PROVE  IndInv'
<1> USE ConstantsAssumption DEF IndInv, TypeOK, ModeKnown, HeadOwned, PlacesOK,
     RunnersInMulti, RunningHasOwner, Owns, Ctx, Modes, RunPC, CallPC, HeadPC, RunnerPC, Goto
<1>1. CASE Launch(c)            BY <1>1, ZenonT(30) DEF Launch
<1>0. CASE AssignHead(c)        BY <1>0 DEF AssignHead
<1>2. CASE LaunchTerminates(c)  BY <1>2 DEF LaunchTerminates
<1>3. CASE StopFlag(c)
  <2>1. TypeOK' /\ ~is_running'  BY <1>3 DEF StopFlag
  <2>2. HeadOwned' /\ PlacesOK'  BY <1>3 DEF StopFlag
  <2>3. ModeKnown' /\ RunnersInMulti'  BY <1>3 DEF StopFlag
  <2> QED  BY <2>1, <2>2, <2>3
<1>4. CASE StopReturnsFalse(c)  BY <1>4 DEF StopReturnsFalse
<1>5. CASE StopFindsHead(c)     BY <1>5 DEF StopFindsHead
<1>6. CASE BeginJoin(c)         BY <1>6 DEF BeginJoin, MayJoin
<1>7. CASE JoinThrows(c)        BY <1>7 DEF JoinThrows
<1>8. CASE StopReturnsTrue(c)
  <2>1. joinable /\ \A d \in Callers : pc[d] # "assign" /\ (pc[d] = "joining" => d = c)
    BY <1>8 DEF StopReturnsTrue
  <2>2. TypeOK' /\ PlacesOK'  BY <1>8 DEF StopReturnsTrue
  <2>3. HeadOwned'  BY <1>8, <2>1 DEF StopReturnsTrue
  <2>4. ModeKnown' /\ RunnersInMulti' /\ RunningHasOwner'  BY <1>8, SMTT(30) DEF StopReturnsTrue
  <2> QED  BY <2>2, <2>3, <2>4
<1>9. CASE \E n \in 0 .. MaxPipes : Configure(c, n)
  BY <1>9 DEF Configure
<1>10. CASE \E k \in Modes : CallRun(c, k)
  BY <1>10 DEF CallRun
<1>11. CASE \E k \in Modes : CallRunThread(c, k)
  BY <1>11 DEF CallRunThread
<1>12. CASE RunThreadRefused(c) \/ ConfigureRefused(c)
  BY <1>12 DEF RunThreadRefused, ConfigureRefused, vars
<1>13. CASE CallStop(c)         BY <1>13 DEF CallStop
<1>14. CASE CallConfigure(c)    BY <1>14 DEF CallConfigure
<1> QED
  BY <1>0, <1>1, <1>2, <1>3, <1>4, <1>5, <1>6, <1>7, <1>8, <1>9, <1>10, <1>11, <1>12, <1>13, <1>14
  DEF CallerProgress, Call

\* Steps of a processing thread.
LEMMA RunnerIndInv ==
  ASSUME IndInv, NEW t \in Ctx, NEW p \in Pipes, RunnerProgress(t, p)
  PROVE  IndInv'
<1> USE DEF IndInv, TypeOK, ModeKnown, HeadOwned, PlacesOK, RunnersInMulti,
          RunningHasOwner, Owns
<1>1. CASE RunnerPass(t, p)
  BY <1>1 DEF RunnerPass, vars
<1>2. CASE ~RunnerPass(t, p)
  <2>1. PICK from \in {"init", "loop", "close"}, to \in RunnerPC :
           RunnerStep(t, p, from, to)
    BY <1>2 DEF RunnerProgress, RunnerInit, RunnerLeave, RunnerClose, RunnerPC
  <2> QED
    BY <2>1, ConstantsAssumption DEF RunnerStep, RunnerPC
<1> QED BY <1>1, <1>2

\* IndInv holds in every reachable state.
THEOREM IndInvariance == Spec => []IndInv
<1>1. IndInv /\ [Next]_vars => IndInv'
  <2> SUFFICES ASSUME IndInv, [Next]_vars PROVE IndInv'
    OBVIOUS
  <2>1. CASE \E t \in Ctx : Progress(t)
    BY <2>1, ProgressIndInv
  <2>2. CASE \E c \in Callers : CallerProgress(c) \/ Call(c)
    BY <2>2, CallerIndInv
  <2>3. CASE \E t \in Ctx, p \in Pipes : RunnerProgress(t, p)
    BY <2>3, RunnerIndInv
  <2>4. CASE UNCHANGED vars
    BY <2>4 DEF vars, IndInv, TypeOK, ModeKnown, HeadOwned, PlacesOK, RunnersInMulti,
       RunningHasOwner, Owns
  <2> QED BY <2>1, <2>2, <2>3, <2>4 DEF Next
<1> QED BY <1>1, InitIndInv, PTL DEF Spec

\* Every reachable state is well typed, whatever the callers do.
THEOREM TypeCorrect == Spec => []TypeOK
<1>1. IndInv => TypeOK
  BY DEF IndInv
<1> QED BY <1>1, IndInvariance, PTL

\* The flag never stays up without a thread that will test it again.
THEOREM FlagHasOwner == Spec => []RunningHasOwner
<1>1. IndInv => RunningHasOwner
  BY DEF IndInv
<1> QED BY <1>1, IndInvariance, PTL

\* No processing thread outlives the run() that spawned it.
THEOREM RunnersAreEnclosed == Spec => []RunnersEnclosed
<1>1. IndInv => RunnersEnclosed
  BY DEF IndInv, RunnersInMulti, RunnersEnclosed
<1> QED BY <1>1, IndInvariance, PTL

-----------------------------------------------------------------------------
(* Under a sole runner the detailed functions implement Session.           *)

\* Only context u executes run functions and only u changes the vectors:
\* either every caller uses the ...Thread functions and stop() alone (u is
\* Head), or one caller runs and configures and the others only stop it.
SoleUse(u) ==
    \/ /\ u = Head
       /\ \A c \in Callers : MayCall[c] \subseteq {"runThread", "stop"}
    \/ /\ u \in Callers
       /\ "runThread" \notin MayCall[u]
       /\ \A c \in Callers \ {u} : MayCall[c] \subseteq {"stop"}

\* u has published its status and not yet "Offline".
Announced(u) ==
    \/ pc[u] \in {"spawn", "loop", "join", "offline"}
    \/ pc[u] = "set" /\ mode[u] = "raw"

OthersOutside(u) ==
    /\ \A t \in Ctx \ {u} : pc[t] \notin RunPC \cup {"enter", "configure"}
    /\ u # Head => \A c \in Callers : pc[c] # "launch"

SoleInv(u) ==
    /\ OthersOutside(u)
    /\ status = IF Announced(u) THEN mode[u] ELSE "offline"
    /\ pc[u] \in {"set", "status"} /\ mode[u] # "raw" => npipes > 0

\* Before the first call nobody runs.
LEMMA SoleInvInit ==
  ASSUME NEW u \in Ctx, Init
  PROVE  SoleInv(u)
  BY ConstantsAssumption DEF Init, SoleInv, OthersOutside, Announced, Ctx, RunPC

\* Steps of the sole runner.
LEMMA SoleInvProgress ==
  ASSUME NEW u \in Ctx, SoleUse(u), IndInv, SoleInv(u), NEW t \in Ctx, Progress(t)
  PROVE  SoleInv(u)'
<1>1. t = u /\ pc[u] \in RunPC \cup {"enter"}
  BY DEF Progress, CheckPasses, CheckFails, SetRunning, PublishStatus, Spawn, SpawnedAll,
     LoopPass, LeaveLoop, JoinRunners, PublishOffline, Return, Goto, SoleInv, OthersOutside, RunPC
<1> USE <1>1, ConstantsAssumption DEF SoleInv, OthersOutside, Announced, IndInv, TypeOK,
     ModeKnown, Ctx, RunPC, CallPC, HeadPC, Modes, Goto, Return, After
<1>2. CASE CheckPasses(t)  BY <1>2 DEF CheckPasses, MayStart
<1>3. CASE CheckFails(t)   BY <1>3 DEF CheckFails
<1>4. CASE SetRunning(t)   BY <1>4 DEF SetRunning
<1>5. CASE PublishStatus(t) BY <1>5 DEF PublishStatus
<1>6. CASE \E p \in Pipes : Spawn(t, p)  BY <1>6 DEF Spawn
<1>7. CASE SpawnedAll(t)   BY <1>7 DEF SpawnedAll
<1>8. CASE LoopPass(t)     BY <1>8 DEF LoopPass, vars
<1>9. CASE LeaveLoop(t)    BY <1>9 DEF LeaveLoop
<1>10. CASE JoinRunners(t) BY <1>10 DEF JoinRunners
<1>11. CASE PublishOffline(t) BY <1>11 DEF PublishOffline
<1> QED BY <1>2, <1>3, <1>4, <1>5, <1>6, <1>7, <1>8, <1>9, <1>10, <1>11 DEF Progress

\* Steps of the other functions.
LEMMA SoleInvCaller ==
  ASSUME NEW u \in Ctx, SoleUse(u), IndInv, SoleInv(u), NEW c \in Callers,
         CallerProgress(c) \/ Call(c)
  PROVE  SoleInv(u)'
<1> USE ConstantsAssumption DEF SoleUse, SoleInv, OthersOutside, Announced, IndInv, TypeOK,
     HeadOwned, Ctx, RunPC, CallPC, HeadPC, Goto
<1>1. CASE Launch(c)            BY <1>1 DEF Launch
<1>0. CASE AssignHead(c)        BY <1>0 DEF AssignHead
<1>2. CASE LaunchTerminates(c)  BY <1>2 DEF LaunchTerminates
<1>3. CASE StopFlag(c)          BY <1>3 DEF StopFlag
<1>4. CASE StopReturnsFalse(c)  BY <1>4 DEF StopReturnsFalse
<1>5. CASE StopFindsHead(c)     BY <1>5 DEF StopFindsHead
<1>6. CASE BeginJoin(c)         BY <1>6 DEF BeginJoin
<1>7. CASE JoinThrows(c)        BY <1>7 DEF JoinThrows
<1>8. CASE StopReturnsTrue(c)   BY <1>8 DEF StopReturnsTrue
<1>9. CASE \E n \in 0 .. MaxPipes : Configure(c, n)
  BY <1>9 DEF Configure
<1>10. CASE \E k \in Modes : CallRun(c, k)
  BY <1>10 DEF CallRun
<1>11. CASE \E k \in Modes : CallRunThread(c, k)
  BY <1>11 DEF CallRunThread
<1>12. CASE RunThreadRefused(c) \/ ConfigureRefused(c)
  BY <1>12 DEF RunThreadRefused, ConfigureRefused, vars
<1>13. CASE CallStop(c)         BY <1>13 DEF CallStop
<1>14. CASE CallConfigure(c)    BY <1>14 DEF CallConfigure
<1> QED
  BY <1>0, <1>1, <1>2, <1>3, <1>4, <1>5, <1>6, <1>7, <1>8, <1>9, <1>10, <1>11, <1>12, <1>13, <1>14
  DEF CallerProgress, Call

\* SoleInv holds in every reachable state of a sole use.
THEOREM SoleInvariance ==
  ASSUME NEW u \in Ctx, SoleUse(u)
  PROVE  Spec => [](IndInv /\ SoleInv(u))
<1>1. IndInv /\ SoleInv(u) /\ [Next]_vars => SoleInv(u)'
  <2> SUFFICES ASSUME IndInv, SoleInv(u), [Next]_vars PROVE SoleInv(u)'
    OBVIOUS
  <2>1. CASE \E t \in Ctx : Progress(t)
    BY <2>1, SoleInvProgress
  <2>2. CASE \E c \in Callers : CallerProgress(c) \/ Call(c)
    BY <2>2, SoleInvCaller
  <2>3. CASE \E t \in Ctx, p \in Pipes : RunnerProgress(t, p)
    <3>1. UNCHANGED <<pc, mode, status, npipes>>
      BY <2>3 DEF RunnerProgress, RunnerInit, RunnerPass, RunnerLeave, RunnerClose,
         RunnerStep, vars
    <3> QED BY <3>1 DEF SoleInv, OthersOutside, Announced
  <2>4. CASE UNCHANGED vars
    BY <2>4 DEF vars, SoleInv, OthersOutside, Announced
  <2> QED BY <2>1, <2>2, <2>3, <2>4 DEF Next
<1>2. Init => SoleInv(u)
  BY SoleInvInit
<1> QED BY <1>1, <1>2, IndInvariance, PTL DEF Spec

\* Every step of a sole use is a step of Session or leaves it unchanged.
LEMMA StepRefines ==
  ASSUME NEW u \in Ctx, SoleUse(u), IndInv, SoleInv(u), [Next]_vars
  PROVE  [AbstractSession!Next]_(AbstractSession!vars)
<1> USE DEF AbstractSession!Next, AbstractSession!vars
<1>1. ASSUME runner' = runner PROVE Workers' = Workers
  BY <1>1 DEF Workers, Live
<1>2. ASSUME NEW t \in Ctx, NEW p \in Pipes, runner[t][p] # "none" \/ pc[t] = "spawn"
      PROVE  status = "multi"
  BY <1>2 DEF IndInv, RunnersInMulti, ModeKnown, SoleInv, OthersOutside, Announced, RunPC
<1>3. ASSUME status = "multi", UNCHANGED <<status, npipes>>
      PROVE  [AbstractSession!Next]_(AbstractSession!vars)
  <2>1. Workers \in BOOLEAN /\ Workers' \in BOOLEAN
    BY DEF Workers
  <2>2. Workers' = Workers \/ Workers' = ~Workers
    BY <2>1
  <2> QED BY <1>3, <2>2 DEF AbstractSession!Work
<1>4. ASSUME UNCHANGED <<status, npipes, runner>>
      PROVE  UNCHANGED AbstractSession!vars
  BY <1>1, <1>4
<1>5. CASE \E t \in Ctx : Progress(t)
  <2> PICK t \in Ctx : Progress(t)  BY <1>5
  <2>1. t = u
    BY DEF Progress, CheckPasses, CheckFails, SetRunning, PublishStatus, Spawn, SpawnedAll,
       LoopPass, LeaveLoop, JoinRunners, PublishOffline, Return, Goto, SoleInv, OthersOutside,
       RunPC
  <2>2. CASE PublishStatus(t)
    <3>1. status = "offline" /\ mode[u] \in Modes
      BY <2>1, <2>2 DEF PublishStatus, Goto, SoleInv, Announced, IndInv, ModeKnown, RunPC
    <3>2. mode[u] = "raw" \/ npipes > 0
      BY <2>1, <2>2 DEF PublishStatus, Goto, SoleInv
    <3>3. AbstractSession!Open(mode[u])
      BY <1>1, <2>1, <2>2, <3>1, <3>2 DEF PublishStatus, AbstractSession!Open
    <3> QED BY <3>1, <3>3 DEF Modes, AbstractSession!Kinds
  <2>3. CASE \E p \in Pipes : Spawn(t, p)
    BY <1>2, <1>3, <2>3 DEF Spawn
  <2>4. CASE JoinRunners(t)
    <3>1. pc[u] = "join" /\ UNCHANGED <<status, npipes>>
      BY <2>1, <2>4 DEF JoinRunners, Goto
    <3>2. status = "multi"
      BY <3>1 DEF SoleInv, Announced, IndInv, ModeKnown
    <3> QED BY <1>3, <3>1, <3>2
  <2>5. CASE PublishOffline(t)
    <3>1. pc[u] = "offline" /\ status' = "offline" /\ UNCHANGED <<npipes, runner>>
      BY <2>1, <2>5 DEF PublishOffline, Return, Goto
    <3>2. status # "offline"
      BY <3>1 DEF SoleInv, Announced, IndInv, ModeKnown, Modes, RunPC
    <3>3. ~Workers
      BY <3>1 DEF Workers, Live, IndInv, RunnersInMulti, SoleInv, OthersOutside, RunPC
    <3>4. Workers' = Workers
      BY <1>1, <3>1
    <3> QED BY <3>1, <3>2, <3>3, <3>4 DEF AbstractSession!Close
  <2>6. CASE \/ CheckPasses(t) \/ CheckFails(t) \/ SetRunning(t) \/ SpawnedAll(t)
             \/ LoopPass(t) \/ LeaveLoop(t)
    BY <1>4, <2>6 DEF CheckPasses, CheckFails, SetRunning, SpawnedAll, LoopPass, LeaveLoop, vars
  <2> QED BY <2>2, <2>3, <2>4, <2>5, <2>6 DEF Progress
<1>6. CASE \E c \in Callers : CallerProgress(c) \/ Call(c)
  <2> PICK c \in Callers : CallerProgress(c) \/ Call(c)  BY <1>6
  <2>1. CASE \E n \in 0 .. MaxPipes : Configure(c, n)
    <3>1. pc[c] = "configure" /\ npipes' \in 0 .. MaxPipes /\ UNCHANGED <<status, runner>>
      BY <2>1 DEF Configure, Goto
    <3>2. c = u
      BY <3>1 DEF SoleInv, OthersOutside, Ctx
    <3>3. status = "offline"
      BY <3>1, <3>2 DEF SoleInv, Announced
    <3> QED BY <1>1, <3>1, <3>3 DEF AbstractSession!Reconfigure
  <2>2. CASE ~\E n \in 0 .. MaxPipes : Configure(c, n)
    <3>1. UNCHANGED <<status, npipes, runner>>
      BY <2>2 DEF CallerProgress, Call, Launch, AssignHead, LaunchTerminates, StopFlag, StopReturnsFalse,
         StopFindsHead, BeginJoin, JoinThrows, StopReturnsTrue, CallRun, CallRunThread,
         RunThreadRefused, ConfigureRefused, CallStop, CallConfigure, vars
    <3> QED BY <1>4, <3>1
  <2> QED BY <2>1, <2>2
<1>7. CASE \E t \in Ctx, p \in Pipes : RunnerProgress(t, p)
  <2> PICK t \in Ctx, p \in Pipes : RunnerProgress(t, p)  BY <1>7
  <2>1. runner[t][p] # "none" /\ UNCHANGED <<status, npipes>>
    BY DEF RunnerProgress, RunnerInit, RunnerPass, RunnerLeave, RunnerClose, RunnerStep, vars
  <2> QED BY <1>2, <1>3, <2>1
<1>8. CASE UNCHANGED vars
  BY <1>4, <1>8 DEF vars
<1> QED BY <1>5, <1>6, <1>7, <1>8 DEF Next

\* The run functions implement Session: a dashboard sees one session at a time,
\* "Offline" only after the last processing thread, and a fixed pipeline list.
THEOREM SessionRefinement ==
  ASSUME NEW u \in Ctx, SoleUse(u)
  PROVE  Spec => ImplementsSession
<1>1. Init => AbstractSession!Init
  BY DEF Init, AbstractSession!Init, Workers, Live, NoRunners
<1>2. IndInv /\ SoleInv(u) /\ [Next]_vars => [AbstractSession!Next]_(AbstractSession!vars)
  BY StepRefines
<1> QED BY <1>1, <1>2, SoleInvariance, PTL DEF Spec, ImplementsSession, AbstractSession!Spec

-----------------------------------------------------------------------------
(* Background sessions only.                                               *)

\* Any number of callers use the ...Thread functions, stop() and the add and set
\* functions.
BackgroundUse == \A c \in Callers : "run" \notin MayCall[c]

\* The published status is that of the thread of head.
BackgroundInv ==
    /\ \A c \in Callers : pc[c] \notin RunPC \cup {"enter"}
    /\ status = IF Announced(Head) THEN mode[Head] ELSE "offline"

\* Before the first call nothing is announced.
LEMMA BackgroundInit == Init => BackgroundInv
BY ConstantsAssumption DEF Init, BackgroundInv, Announced, Ctx, RunPC

\* Steps of the thread of head: nobody else is in a run function.
LEMMA BackgroundProgress ==
  ASSUME IndInv, BackgroundInv, NEW t \in Ctx, Progress(t)
  PROVE  BackgroundInv'
<1>1. t = Head
  BY DEF Progress, CheckPasses, CheckFails, SetRunning, PublishStatus, Spawn, SpawnedAll,
     LoopPass, LeaveLoop, JoinRunners, PublishOffline, Return, Goto, BackgroundInv, Ctx, RunPC
<1> USE <1>1, ConstantsAssumption DEF BackgroundInv, Announced, IndInv, TypeOK,
     ModeKnown, Ctx, RunPC, CallPC, HeadPC, Modes, Goto, Return, After
<1>2. CASE CheckPasses(t)  BY <1>2 DEF CheckPasses, MayStart
<1>3. CASE CheckFails(t)   BY <1>3 DEF CheckFails
<1>4. CASE SetRunning(t)   BY <1>4 DEF SetRunning
<1>5. CASE PublishStatus(t) BY <1>5 DEF PublishStatus
<1>6. CASE \E p \in Pipes : Spawn(t, p)  BY <1>6 DEF Spawn
<1>7. CASE SpawnedAll(t)   BY <1>7 DEF SpawnedAll
<1>8. CASE LoopPass(t)     BY <1>8 DEF LoopPass, vars
<1>9. CASE LeaveLoop(t)    BY <1>9 DEF LeaveLoop
<1>10. CASE JoinRunners(t) BY <1>10 DEF JoinRunners
<1>11. CASE PublishOffline(t) BY <1>11 DEF PublishOffline
<1> QED BY <1>2, <1>3, <1>4, <1>5, <1>6, <1>7, <1>8, <1>9, <1>10, <1>11 DEF Progress

\* Steps of the callers: head gets a new thread only when it has none.
LEMMA BackgroundCaller ==
  ASSUME BackgroundUse, IndInv, BackgroundInv, NEW c \in Callers, CallerProgress(c) \/ Call(c)
  PROVE  BackgroundInv'
<1> USE ConstantsAssumption DEF BackgroundUse, BackgroundInv, Announced, IndInv, TypeOK,
     HeadOwned, Ctx, RunPC, CallPC, HeadPC, Goto
<1>1. CASE Launch(c)            BY <1>1 DEF Launch
<1>0. CASE AssignHead(c)        BY <1>0 DEF AssignHead
<1>2. CASE LaunchTerminates(c)  BY <1>2 DEF LaunchTerminates
<1>3. CASE StopFlag(c)          BY <1>3 DEF StopFlag
<1>4. CASE StopReturnsFalse(c)  BY <1>4 DEF StopReturnsFalse
<1>5. CASE StopFindsHead(c)     BY <1>5 DEF StopFindsHead
<1>6. CASE BeginJoin(c)         BY <1>6 DEF BeginJoin
<1>7. CASE JoinThrows(c)        BY <1>7 DEF JoinThrows
<1>8. CASE StopReturnsTrue(c)   BY <1>8 DEF StopReturnsTrue
<1>9. CASE \E n \in 0 .. MaxPipes : Configure(c, n)  BY <1>9 DEF Configure
<1>10. CASE \E k \in Modes : CallRun(c, k)  BY <1>10 DEF CallRun
<1>11. CASE \E k \in Modes : CallRunThread(c, k)  BY <1>11 DEF CallRunThread
<1>12. CASE RunThreadRefused(c) \/ ConfigureRefused(c)
  BY <1>12 DEF RunThreadRefused, ConfigureRefused, vars
<1>13. CASE CallStop(c)         BY <1>13 DEF CallStop
<1>14. CASE CallConfigure(c)    BY <1>14 DEF CallConfigure
<1> QED
  BY <1>0, <1>1, <1>2, <1>3, <1>4, <1>5, <1>6, <1>7, <1>8, <1>9, <1>10, <1>11, <1>12, <1>13, <1>14
  DEF CallerProgress, Call

\* Steps of the processing threads.
LEMMA BackgroundRunner ==
  ASSUME BackgroundInv, NEW t \in Ctx, NEW p \in Pipes, RunnerProgress(t, p)
  PROVE  BackgroundInv'
<1>1. UNCHANGED <<pc, mode, status>>
  BY DEF RunnerProgress, RunnerInit, RunnerPass, RunnerLeave, RunnerClose, RunnerStep, vars
<1> QED BY <1>1 DEF BackgroundInv, Announced

\* When no thread is in head, nobody owns the flag or a processing thread.
LEMMA HeadDown == IndInv /\ BackgroundInv => DownWhenHeadDown
<1> SUFFICES ASSUME IndInv, BackgroundInv, pc[Head] \in {"none", "finished"}
             PROVE  ~is_running /\ status = "offline" /\ ~Workers
  BY DEF DownWhenHeadDown
<1>1. \A t \in Ctx : pc[t] \notin RunPC
  BY DEF BackgroundInv, RunPC, Ctx
<1>2. ~is_running
  BY <1>1 DEF IndInv, RunningHasOwner, Owns, RunPC
<1>3. status = "offline"
  BY DEF BackgroundInv, Announced
<1>4. ~Workers
  BY <1>1 DEF Workers, Live, IndInv, RunnersInMulti, RunPC
<1> QED BY <1>2, <1>3, <1>4

\* When no caller uses a blocking run function, a head without an unfinished
\* thread means a server that is down: so does a stop() that returned true.
THEOREM HeadDownServerDown ==
  ASSUME BackgroundUse
  PROVE  Spec => []DownWhenHeadDown
<1>1. IndInv /\ BackgroundInv /\ [Next]_vars => BackgroundInv'
  <2> SUFFICES ASSUME IndInv, BackgroundInv, [Next]_vars PROVE BackgroundInv'
    OBVIOUS
  <2>1. CASE UNCHANGED vars
    BY <2>1 DEF vars, BackgroundInv, Announced
  <2> QED BY <2>1, BackgroundProgress, BackgroundCaller, BackgroundRunner DEF Next
<1> QED BY <1>1, BackgroundInit, HeadDown, IndInvariance, PTL DEF Spec
=============================================================================
