---------------------------- MODULE RoutingProofs ----------------------------
(***************************************************************************)
(* For any numbers of cameras, pipelines and streams and any indices the   *)
(* dashboard writes, at any moment: a stream serves what its index names,  *)
(* and only an index beyond the registry can make a thread throw.          *)
(***************************************************************************)
EXTENDS Routing, TLAPS

-----------------------------------------------------------------------------
(* Types.                                                                  *)

TypeSession ==
    /\ session \in {"off", "multi", "raw"} /\ flag \in BOOLEAN
    /\ negatives \in BOOLEAN /\ fate \in {"alive", "threw", "raced"}
TypeRegistry == cams \in Seq(Cams) /\ pipes \in Seq(Pipes)
TypeStreams ==
    /\ nt \in [Streams -> Int] /\ local \in [Streams -> Int]
    /\ src \in [Streams -> Sources]
TypeMoves == loop \in Moves /\ app \in Moves
TypePipes ==
    /\ pnt \in [Pipes -> Int] /\ pidx \in [Pipes -> Int]
    /\ prun \in [Pipes -> {"none", "start", "loop", "done"}]
    /\ psrc \in [Pipes -> Sources]

\* TypeOK in the parts that different threads change.
LEMMA TypeParts == TypeOK <=> TypeSession /\ TypeRegistry /\ TypeStreams /\ TypeMoves /\ TypePipes
BY DEF TypeOK, TypeSession, TypeRegistry, TypeStreams, TypeMoves, TypePipes

\* An index in range names a source.
LEMMA SourceInRange ==
    ASSUME TypeOK, NEW n \in Int, InRange(n)
    PROVE  SourceAt(n) \in Sources
<1>1. cams \in Seq(Cams) /\ pipes \in Seq(Pipes)  BY DEF TypeOK
<1>2. CASE NamesCamera(n)
  <2>1. n < 0 /\ -n \in 1 .. Len(cams)  BY <1>1, <1>2 DEF NamesCamera
  <2>2. cams[-n] \in Cams  BY <1>1, <2>1
  <2> QED  BY <2>1, <2>2 DEF SourceAt, Sources
<1>3. CASE NamesPipeline(n)
  <2>1. ~(n < 0) /\ n \in 1 .. Len(pipes)  BY <1>1, <1>3 DEF NamesPipeline
  <2>2. pipes[n] \in Pipes  BY <1>1, <2>1
  <2> QED  BY <2>1, <2>2 DEF SourceAt, Sources
<1> QED  BY <1>2, <1>3 DEF InRange

\* The names of every action, for the steps that leave something unchanged.
Actions ==
    \/ SyncRead \/ SyncLocal \/ SyncSource \/ EndSession
    \/ \E p \in Pipes : RunnerStart(p) \/ RunnerSwitch(p) \/ RunnerStop(p)
    \/ SetIdxCheck \/ SetIdxSource \/ SetIdxLocal \/ SetIdxPublish \/ CompensateEnd
    \/ \E k \in {"multi", "raw"} : StartSession(k)
    \/ StopFlag
    \/ \E new \in Registrations(Cams) : ChangeCameras(new)
    \/ \E new \in Registrations(Pipes) : ChangePipelines(new)
    \/ \E active \in 1 .. Len(cams) : CompensateBegin(active)
    \/ \E i \in Streams, n \in StreamWrites : WriteStream(i, n)
    \/ \E p \in Pipes, n \in PipeWrites : WritePipe(p, n)
    \/ UNCHANGED vars

\* Every step is one of them.
LEMMA NextIsAction == [Next]_vars => Actions
BY DEF Next, Loop, Runner, Compensating, Application, Dashboard, Actions

\* Setting the source of a stream.
LEMMA AttachTypes ==
    ASSUME TypeOK, NEW i \in Streams, NEW n \in Int, Attach(i, n)
    PROVE  src' \in [Streams -> Sources]
<1>1. src \in [Streams -> Sources]  BY DEF TypeOK
<1>2. CASE InRange(n)
  <2>1. SourceAt(n) \in Sources  BY <1>2, SourceInRange
  <2>2. src' = [src EXCEPT ![i] = SourceAt(n)]  BY <1>2 DEF Attach
  <2> QED  BY <1>1, <2>1, <2>2
<1>3. CASE ~InRange(n)  BY <1>1, <1>3 DEF Attach
<1> QED  BY <1>2, <1>3

\* Streams keep their types.
LEMMA StreamTypes == ASSUME TypeOK, Actions PROVE TypeStreams'
<1> USE RoutingAssumption
<1>1. TypeStreams /\ loop.i \in Streams /\ loop.n \in Int /\ app.i \in Streams /\ app.n \in Int
  BY DEF TypeOK, TypeStreams, Moves
<1>2. CASE UNCHANGED streamVars  BY <1>1, <1>2 DEF streamVars, TypeStreams
<1>3. CASE SyncLocal      BY <1>1, <1>3 DEF SyncLocal, TypeStreams
<1>4. CASE SyncSource     BY <1>1, <1>4, AttachTypes DEF SyncSource, TypeStreams
<1>5. CASE SetIdxSource   BY <1>1, <1>5, AttachTypes DEF SetIdxSource, TypeStreams
<1>6. CASE SetIdxLocal    BY <1>1, <1>6 DEF SetIdxLocal, TypeStreams
<1>7. CASE SetIdxPublish  BY <1>1, <1>7 DEF SetIdxPublish, TypeStreams
<1>8. CASE \E i \in Streams, n \in StreamWrites : WriteStream(i, n)
  <2> PICK i \in Streams, n \in StreamWrites : WriteStream(i, n)  BY <1>8
  <2>1. n \in Int  OBVIOUS
  <2> QED  BY <1>1, <2>1 DEF WriteStream, TypeStreams
<1> QED
  BY <1>2, <1>3, <1>4, <1>5, <1>6, <1>7, <1>8
  DEF Actions, SyncRead, EndSession, RunnerStart, RunnerSwitch, RunnerStop, SetIdxCheck,
      CompensateEnd, StartSession, StopFlag, ChangeCameras, ChangePipelines, CompensateBegin,
      WritePipe, vars, streamVars

\* The loop and compensate() keep their types.
LEMMA MoveTypes == ASSUME TypeOK, Actions PROVE TypeMoves'
<1> USE RoutingAssumption DEF Moves
<1>1. TypeMoves /\ nt \in [Streams -> Int]  BY DEF TypeOK, TypeMoves
<1>2. AtRest \in Moves  BY DEF AtRest, Streams
<1>3. \A i \in Streams : NextStream(i) \in Moves /\ AppNext(i) \in Moves
  <2> SUFFICES ASSUME NEW i \in Streams PROVE NextStream(i) \in Moves /\ AppNext(i) \in Moves
    OBVIOUS
  <2>1. 1 \in Streams /\ (i # NStreams => i + 1 \in Streams)  BY DEF Streams
  <2>2. NextStream(i) \in Moves  BY <2>1 DEF NextStream, AtRest
  <2>3. AppNext(i) \in Moves  BY <1>1, <2>1 DEF AppNext, TypeMoves
  <2> QED  BY <2>2, <2>3
<1>4. CASE UNCHANGED <<loop, app>>  BY <1>1, <1>4 DEF TypeMoves
<1>5. CASE SyncRead
  <2>1. loop.i \in Streams /\ nt[loop.i] \in Int  BY <1>1 DEF TypeMoves
  <2>2. [loop EXCEPT !.at = "local", !.n = nt[loop.i]] \in Moves  BY <1>1, <2>1 DEF TypeMoves
  <2> QED  BY <1>1, <1>3, <1>5, <2>1, <2>2 DEF SyncRead, TypeMoves
<1>6. CASE SyncLocal   BY <1>1, <1>6 DEF SyncLocal, TypeMoves
<1>7. CASE SyncSource  BY <1>1, <1>3, <1>7 DEF SyncSource, TypeMoves
<1>8. CASE \E k \in {"multi", "raw"} : StartSession(k)
  BY <1>1, <1>2, <1>8 DEF StartSession, TypeMoves
<1>9. CASE \E active \in 1 .. Len(cams) : CompensateBegin(active)
  <2> PICK active \in 1 .. Len(cams) : CompensateBegin(active)  BY <1>9
  <2>1. -active \in Int /\ 1 \in Streams  BY DEF Streams
  <2> QED  BY <1>1, <2>1 DEF CompensateBegin, TypeMoves
<1>10. CASE SetIdxCheck    BY <1>1, <1>3, <1>10 DEF SetIdxCheck, TypeMoves
<1>11. CASE SetIdxSource   BY <1>1, <1>11 DEF SetIdxSource, TypeMoves
<1>12. CASE SetIdxLocal    BY <1>1, <1>12 DEF SetIdxLocal, TypeMoves
<1>13. CASE SetIdxPublish  BY <1>1, <1>3, <1>13 DEF SetIdxPublish, TypeMoves
<1>14. CASE CompensateEnd  BY <1>1, <1>2, <1>14 DEF CompensateEnd, TypeMoves
<1> QED
  BY <1>4, <1>5, <1>6, <1>7, <1>8, <1>9, <1>10, <1>11, <1>12, <1>13, <1>14
  DEF Actions, EndSession, RunnerStart, RunnerSwitch, RunnerStop, StopFlag, ChangeCameras,
      ChangePipelines, WriteStream, WritePipe, vars

\* The threads of the pipelines keep their types.
LEMMA PipeTypes == ASSUME TypeOK, Actions PROVE TypePipes'
<1> USE RoutingAssumption
<1>1. TypePipes /\ cams \in Seq(Cams) /\ pipes \in Seq(Pipes)  BY DEF TypeOK, TypePipes
<1>2. CASE UNCHANGED pipeVars  BY <1>1, <1>2 DEF pipeVars, TypePipes
<1>3. CASE EndSession \/ \E k \in {"multi", "raw"} : StartSession(k)
  BY <1>1, <1>3 DEF EndSession, StartSession, TypePipes
<1>4. CASE \E p \in Pipes : RunnerStart(p)  BY <1>1, <1>4 DEF RunnerStart, TypePipes
<1>5. CASE \E p \in Pipes : RunnerSwitch(p)
  <2> PICK p \in Pipes : RunnerSwitch(p)  BY <1>5
  <2>1. pidx' = [pidx EXCEPT ![p] = pnt[p]] /\ UNCHANGED <<pnt, prun>>  BY DEF RunnerSwitch
  <2>2. pidx' \in [Pipes -> Int]  BY <1>1, <2>1 DEF TypePipes
  <2>3. psrc' \in [Pipes -> Sources]
    <3>1. CASE psrc' = psrc  BY <1>1, <3>1 DEF TypePipes
    <3>2. CASE NamesCam(pnt[p]) /\ psrc' = [psrc EXCEPT ![p] = cams[pnt[p]]]
      <4>1. pnt[p] \in 1 .. Len(cams)  BY <1>1, <3>2 DEF NamesCam, TypePipes
      <4>2. cams[pnt[p]] \in Sources  BY <1>1, <4>1 DEF Sources
      <4> QED  BY <1>1, <3>2, <4>2 DEF TypePipes
    <3>3. CASE -pnt[p] \in 1 .. Len(pipes) /\ psrc' = [psrc EXCEPT ![p] = pipes[-pnt[p]]]
      <4>1. pipes[-pnt[p]] \in Sources  BY <1>1, <3>3 DEF Sources
      <4> QED  BY <1>1, <3>3, <4>1 DEF TypePipes
    <3> QED  BY <3>1, <3>2, <3>3 DEF RunnerSwitch
  <2> QED  BY <1>1, <2>1, <2>2, <2>3 DEF TypePipes
<1>6. CASE \E p \in Pipes : RunnerStop(p)  BY <1>1, <1>6 DEF RunnerStop, TypePipes
<1>7. CASE \E active \in 1 .. Len(cams) : CompensateBegin(active)
  <2> PICK active \in 1 .. Len(cams) : CompensateBegin(active)  BY <1>7
  <2>1. cams[active] \in Sources  BY <1>1 DEF Sources
  <2> QED  BY <1>1, <2>1 DEF CompensateBegin, TypePipes
<1>8. CASE \E p \in Pipes, n \in PipeWrites : WritePipe(p, n)
  <2> PICK p \in Pipes, n \in PipeWrites : WritePipe(p, n)  BY <1>8
  <2>1. n \in Int  OBVIOUS
  <2> QED  BY <1>1, <2>1 DEF WritePipe, TypePipes
<1> QED
  BY <1>2, <1>3, <1>4, <1>5, <1>6, <1>7, <1>8
  DEF Actions, SyncRead, SyncLocal, SyncSource, SetIdxCheck, SetIdxSource, SetIdxLocal,
      SetIdxPublish, CompensateEnd, StopFlag, ChangeCameras, ChangePipelines,
      WriteStream, vars, pipeVars

\* The registry and the session keep their types.
LEMMA RegistryTypes == ASSUME TypeOK, Actions PROVE TypeRegistry' /\ TypeSession'
<1>1. TypeRegistry /\ TypeSession  BY TypeParts
<1>2. ASSUME NEW S, NEW new \in Registrations(S) PROVE new \in Seq(S)
  <2>1. PICK k \in 0 .. MaxLen : new \in [1 .. k -> S]  BY <1>2 DEF Registrations
  <2>2. k \in Nat  BY RoutingAssumption
  <2> QED  BY <2>1, <2>2
<1>3. TypeRegistry'
  <2>1. CASE UNCHANGED <<cams, pipes>>  BY <1>1, <2>1 DEF TypeRegistry
  <2>2. CASE \E new \in Registrations(Cams) : ChangeCameras(new)
    BY <1>1, <1>2, <2>2 DEF ChangeCameras, TypeRegistry
  <2>3. CASE \E new \in Registrations(Pipes) : ChangePipelines(new)
    BY <1>1, <1>2, <2>3 DEF ChangePipelines, TypeRegistry
  <2> QED
    BY <2>1, <2>2, <2>3
    DEF Actions, SyncRead, SyncLocal, SyncSource, EndSession, RunnerStart, RunnerSwitch, RunnerStop,
        SetIdxCheck, SetIdxSource, SetIdxLocal, SetIdxPublish, CompensateEnd, StartSession, StopFlag,
        CompensateBegin, WriteStream, WritePipe, vars
<1>4. TypeSession'
  BY <1>1
  DEF TypeSession, Actions, SyncRead, SyncLocal, SyncSource, EndSession, RunnerStart, RunnerSwitch,
      RunnerStop, SetIdxCheck, SetIdxSource, SetIdxLocal, SetIdxPublish, CompensateEnd, StartSession,
      StopFlag, ChangeCameras, ChangePipelines, Race, CompensateBegin, WriteStream, WritePipe, vars
<1> QED  BY <1>3, <1>4

\* Nothing runs to begin with.
LEMMA InitTypes == Init => TypeOK
<1> SUFFICES ASSUME Init PROVE TypeOK
  OBVIOUS
<1> USE RoutingAssumption DEF Init
<1>1. TypeSession  BY DEF TypeSession
<1>2. TypeRegistry  BY DEF TypeRegistry
<1>3. TypeStreams  BY DEF TypeStreams, Sources
<1>4. TypeMoves  BY DEF TypeMoves, Moves, AtRest, Streams
<1>5. TypePipes  BY DEF TypePipes, Sources
<1> QED  BY <1>1, <1>2, <1>3, <1>4, <1>5, TypeParts

\* Every variable of the routing keeps its type, in any use: SetSource and
\* setCamera are called only with sources that exist.
THEOREM TypeCorrect == Spec => []TypeOK
<1>1. TypeOK /\ [Next]_vars => TypeOK'
  <2> SUFFICES ASSUME TypeOK, [Next]_vars PROVE TypeOK'
    OBVIOUS
  <2>1. TypeStreams' /\ TypeMoves' /\ TypePipes' /\ TypeRegistry' /\ TypeSession'
    BY NextIsAction, StreamTypes, MoveTypes, PipeTypes, RegistryTypes
  <2> QED  BY <2>1 DEF TypeOK, TypeSession, TypeRegistry, TypeStreams, TypeMoves, TypePipes
<1> QED  BY InitTypes, <1>1, PTL DEF Spec

-----------------------------------------------------------------------------
(* Streams.                                                                *)

\* The application calls compensate() between sessions only, and registers
\* everything before the first one.
QuietUse == ~LiveCompensate /\ ~Reconfigures

\* The loop and compensate() do not overlap.
Exclusive ==
    /\ session = "off" => loop.at = "rest"
    /\ app.at # "rest" => session = "off"

\* The two halves of a change: syncIdx stores the index first, setSourceIdx
\* sets the source first.
HalfDone ==
    /\ loop.at = "source" => local[loop.i] = loop.n
    /\ app.at = "local" /\ InRange(app.n) => src[app.i] = SourceAt(app.n)

StreamInv == Exclusive /\ HalfDone /\ StreamFollowsIndex

\* Sessions start when compensate() has returned, and it starts when they are over.
LEMMA ExclusiveStep == ASSUME QuietUse, TypeOK, Exclusive, Actions PROVE Exclusive'
<1>1. loop \in Moves /\ app \in Moves  BY DEF TypeOK
<1> USE DEF Exclusive, QuietUse, Moves, AtRest
<1>2. CASE SyncRead \/ SyncLocal \/ SyncSource \/ EndSession
  BY <1>1, <1>2 DEF SyncRead, SyncLocal, SyncSource, EndSession, NextStream
<1>3. CASE SetIdxCheck \/ SetIdxSource \/ SetIdxLocal \/ SetIdxPublish \/ CompensateEnd
  BY <1>1, <1>3 DEF SetIdxCheck, SetIdxSource, SetIdxLocal, SetIdxPublish, CompensateEnd, AppNext
<1>4. CASE \E k \in {"multi", "raw"} : StartSession(k)
  BY <1>1, <1>4 DEF StartSession, AppIdle
<1>5. CASE \E active \in 1 .. Len(cams) : CompensateBegin(active)
  BY <1>1, <1>5 DEF CompensateBegin, AppIdle
<1>6. CASE UNCHANGED <<session, loop, app>>  BY <1>6
<1> QED
  BY <1>2, <1>3, <1>4, <1>5, <1>6
  DEF Actions, RunnerStart, RunnerSwitch, RunnerStop, StopFlag, ChangeCameras, ChangePipelines,
      WriteStream, WritePipe, vars

\* Nothing changes the meaning of an index.
LEMMA SameNames ==
    ASSUME ~Reconfigures, Actions
    PROVE  /\ UNCHANGED <<cams, pipes>>
           /\ \A n \in Int : InRange(n)' = InRange(n) /\ SourceAt(n)' = SourceAt(n)
<1>1. UNCHANGED <<cams, pipes>>
  BY DEF Actions, SyncRead, SyncLocal, SyncSource, EndSession, RunnerStart, RunnerSwitch,
     RunnerStop, SetIdxCheck, SetIdxSource, SetIdxLocal, SetIdxPublish, CompensateEnd, StartSession,
     StopFlag, ChangeCameras, ChangePipelines, MayReconfigure, CompensateBegin, WriteStream,
     WritePipe, vars
<1> QED  BY <1>1 DEF InRange, NamesCamera, NamesPipeline, SourceAt

\* The effect of setting the source of stream i to what n names.
LEMMA AttachSource ==
    ASSUME TypeOK, NEW i \in Streams, NEW n \in Int, Attach(i, n)
    PROVE  /\ InRange(n) => src'[i] = SourceAt(n)
           /\ \A j \in Streams \ {i} : src'[j] = src[j]
BY DEF Attach, TypeOK

\* Each step of syncIdx, setSourceIdx and everybody else keeps StreamInv.
LEMMA StreamStep == ASSUME QuietUse, TypeOK, StreamInv, Actions PROVE StreamInv'
<1>1. Exclusive'  BY ExclusiveStep DEF StreamInv
<1>2. /\ loop \in Moves /\ app \in Moves /\ loop.i \in Streams /\ app.i \in Streams
      /\ loop.n \in Int /\ app.n \in Int
      /\ local \in [Streams -> Int] /\ src \in [Streams -> Sources] /\ nt \in [Streams -> Int]
  BY DEF TypeOK, Moves
\* The claims about the next state, in terms of the indices of this one.
<1>7. ASSUME loop'.at = "source" => local'[loop'.i] = loop'.n,
             app'.at = "local" /\ InRange(app'.n) => src'[app'.i] = SourceAt(app'.n),
             \A j \in Streams : InRange(local'[j]) /\ ~Moving(j)' => src'[j] = SourceAt(local'[j])
      PROVE  StreamInv'
  <2>1. InRange(app.n)' = InRange(app'.n) /\ SourceAt(app.n)' = SourceAt(app'.n)
    BY SameNames DEF QuietUse, InRange, NamesCamera, NamesPipeline, SourceAt
  <2>2. \A j \in Streams : InRange(local[j])' = InRange(local'[j]) /\ SourceAt(local[j])' = SourceAt(local'[j])
    BY SameNames DEF QuietUse, InRange, NamesCamera, NamesPipeline, SourceAt
  <2>3. HalfDone'  BY <1>7, <2>1 DEF HalfDone
  <2>4. StreamFollowsIndex'  BY <1>7, <2>2 DEF StreamFollowsIndex
  <2> QED  BY <1>1, <2>3, <2>4 DEF StreamInv
<1>8. /\ loop.at = "source" => local[loop.i] = loop.n
      /\ app.at = "local" /\ InRange(app.n) => src[app.i] = SourceAt(app.n)
      /\ \A j \in Streams : InRange(local[j]) /\ ~Moving(j) => src[j] = SourceAt(local[j])
      /\ loop.at # "rest" => app.at = "rest"
  BY DEF StreamInv, HalfDone, StreamFollowsIndex, Exclusive
<1>9. CASE SyncRead
  <2>1. loop'.at \in {"rest", "local"} /\ loop.at = "rest"
    BY <1>2, <1>9 DEF SyncRead, NextStream, AtRest, Moves
  <2> QED  BY <1>7, <1>8, <1>9, <2>1 DEF SyncRead, streamVars, Moving
<1>10. CASE SyncLocal
  <2>1. loop'.at = "source" /\ loop'.i = loop.i /\ loop'.n = loop.n /\ loop.at = "local"
    BY <1>2, <1>10 DEF SyncLocal, Moves
  <2>2. local'[loop.i] = loop.n /\ \A j \in Streams \ {loop.i} : local'[j] = local[j]
    BY <1>2, <1>10 DEF SyncLocal
  <2> QED  BY <1>2, <1>7, <1>8, <1>10, <2>1, <2>2 DEF SyncLocal, Moving
<1>11. CASE SyncSource
  <2>1. loop'.at = "rest" /\ loop.at = "source"
    BY <1>11 DEF SyncSource, NextStream, AtRest
  <2>2. /\ InRange(loop.n) => src'[loop.i] = SourceAt(loop.n)
        /\ \A j \in Streams \ {loop.i} : src'[j] = src[j]
    BY <1>2, <1>11, AttachSource DEF SyncSource
  <2> QED  BY <1>2, <1>7, <1>8, <1>11, <2>1, <2>2 DEF SyncSource, Moving
<1>12. CASE SetIdxCheck \/ SetIdxPublish \/ CompensateEnd
  <2>1. app'.at # "local" /\ app.at # "local" /\ UNCHANGED <<local, src, loop>>
    <3>1. CASE SetIdxCheck    BY <1>2, <3>1 DEF SetIdxCheck, AppNext, Moves, streamVars
    <3>2. CASE SetIdxPublish  BY <1>2, <3>2 DEF SetIdxPublish, AppNext, Moves
    <3>3. CASE CompensateEnd  BY <3>3 DEF CompensateEnd, AtRest, streamVars
    <3> QED  BY <1>12, <3>1, <3>2, <3>3
  <2> QED  BY <1>7, <1>8, <2>1 DEF Moving
<1>13. CASE SetIdxSource
  <2>1. app'.at = "local" /\ app'.i = app.i /\ app'.n = app.n /\ app.at = "source"
    BY <1>2, <1>13 DEF SetIdxSource, Moves
  <2>2. /\ InRange(app.n) => src'[app.i] = SourceAt(app.n)
        /\ \A j \in Streams \ {app.i} : src'[j] = src[j]
    BY <1>2, <1>13, AttachSource DEF SetIdxSource
  <2> QED  BY <1>2, <1>7, <1>8, <1>13, <2>1, <2>2 DEF SetIdxSource, Moving
<1>14. CASE SetIdxLocal
  <2>1. app'.at = "publish" /\ app.at = "local"
    BY <1>2, <1>14 DEF SetIdxLocal, Moves
  <2>2. local'[app.i] = app.n /\ \A j \in Streams \ {app.i} : local'[j] = local[j]
    BY <1>2, <1>14 DEF SetIdxLocal
  <2> QED  BY <1>2, <1>7, <1>8, <1>14, <2>1, <2>2 DEF SetIdxLocal, Moving
<1>15. CASE \E k \in {"multi", "raw"} : StartSession(k)
  <2>1. loop'.at = "rest" /\ loop.at = "rest" /\ UNCHANGED <<local, src, app>>
    BY <1>15 DEF StartSession, AtRest, streamVars, StreamInv, Exclusive
  <2> QED  BY <1>7, <1>8, <2>1 DEF Moving
<1>16. CASE \E active \in 1 .. Len(cams) : CompensateBegin(active)
  <2>1. app'.at = "check" /\ app.at = "rest" /\ UNCHANGED <<local, src, loop>>
    BY <1>16 DEF CompensateBegin, AppIdle, streamVars
  <2> QED  BY <1>7, <1>8, <2>1 DEF Moving
<1>17. CASE UNCHANGED <<local, src, loop, app>>
  BY <1>7, <1>8, <1>17 DEF Moving
<1> QED
  BY <1>9, <1>10, <1>11, <1>12, <1>13, <1>14, <1>15, <1>16, <1>17
  DEF Actions, EndSession, RunnerStart, RunnerSwitch, RunnerStop, StopFlag, ChangeCameras,
      ChangePipelines, WriteStream, WritePipe, vars, streamVars

\* A stream never keeps an index of a source it does not serve.
THEOREM StreamsFollow == ASSUME QuietUse PROVE Spec => []StreamFollowsIndex
<1>1. Init => StreamInv
  <2> SUFFICES ASSUME Init PROVE StreamInv
    OBVIOUS
  <2>1. Exclusive /\ HalfDone  BY DEF Init, Exclusive, HalfDone, AtRest
  <2>2. \A i \in Streams : ~InRange(local[i])
    BY DEF Init, InRange, NamesCamera, NamesPipeline
  <2> QED  BY <2>1, <2>2 DEF StreamInv, StreamFollowsIndex
<1>2. TypeOK /\ StreamInv /\ [Next]_vars => StreamInv'  BY NextIsAction, StreamStep
<1>3. StreamInv => StreamFollowsIndex  BY DEF StreamInv
<1> QED  BY <1>1, <1>2, <1>3, TypeCorrect, PTL DEF Spec

-----------------------------------------------------------------------------
(* Pipelines.                                                              *)

\* Nothing happens when the program is over.
LEMMA NextIsAlive == [Next]_vars => Alive \/ UNCHANGED vars
BY DEF Next, Loop, Runner, Compensating, Application, Dashboard

\* Only a pipeline's thread throws.
LEMMA RunnersThrow ==
    ASSUME Actions, fate' = "threw", Alive
    PROVE  \E p \in Pipes : RunnerSwitch(p)
BY DEF Alive, Actions, SyncRead, SyncLocal, SyncSource, EndSession, RunnerStart, RunnerStop,
   SetIdxCheck, SetIdxSource, SetIdxLocal, SetIdxPublish, CompensateEnd, StartSession, StopFlag,
   ChangeCameras, ChangePipelines, Race, CompensateBegin, WriteStream, WritePipe, vars

\* Whatever the dashboard writes and however the registry changes, the .at() of
\* pipelineRunner throws only for an index below minus the number of pipelines,
\* where the bound of line 277 is no bound; the test for cameras suffices.
THEOREM ThrowsOnlyFar == Spec => []OnlyFarIndicesThrow
<1>1. Init => OnlyFarIndicesThrow  BY DEF Init, OnlyFarIndicesThrow
<1>2. TypeOK /\ OnlyFarIndicesThrow /\ [Next]_vars => OnlyFarIndicesThrow'
  <2> SUFFICES ASSUME TypeOK, OnlyFarIndicesThrow, [Next]_vars, fate' = "threw"
               PROVE  negatives' /\ \E p \in Pipes : pidx'[p] < -Len(pipes')
    BY DEF OnlyFarIndicesThrow
  <2>1. CASE UNCHANGED vars  BY <2>1 DEF vars, OnlyFarIndicesThrow
  <2>2. CASE Alive
    <3>1. PICK p \in Pipes : RunnerSwitch(p)  BY <2>2, NextIsAction, RunnersThrow
    <3>2. AtThrows(pnt[p]) /\ pidx' = [pidx EXCEPT ![p] = pnt[p]] /\ UNCHANGED <<pipes, negatives>>
      BY <2>2, <3>1 DEF RunnerSwitch, Alive
    <3>3. pnt[p] \in Int /\ pidx \in [Pipes -> Int] /\ Len(pipes) \in Nat /\ Len(cams) \in Nat
      BY DEF TypeOK
    <3>4. ~(NamesCam(pnt[p]) /\ pnt[p] \notin 1 .. Len(cams))  BY <3>3 DEF NamesCam
    <3>5. negatives /\ pnt[p] < 0 /\ -pnt[p] \notin 1 .. Len(pipes)
      BY <3>2, <3>4 DEF AtThrows, NamesPipe
    <3>6. pnt[p] < -Len(pipes)  BY <3>3, <3>5
    <3> QED  BY <3>2, <3>3, <3>5, <3>6
  <2> QED  BY <2>1, <2>2, NextIsAlive
<1> QED  BY <1>1, <1>2, TypeCorrect, PTL DEF Spec
=============================================================================
