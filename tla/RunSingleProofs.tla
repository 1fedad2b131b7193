--------------------------- MODULE RunSingleProofs ---------------------------
(***************************************************************************)
(* For any numbers of cameras, pipelines and streams and anything the      *)
(* dashboard writes: init() and close() are paired, streams follow their   *)
(* indices, and a switch of the pipeline reaches every stream.             *)
(***************************************************************************)
EXTENDS RunSingle, TLAPS

\* The streams the loop has told of a switch so far serve the new pipeline.
ToldStreams == pc = "assign" => \A s \in 1 .. i - 1 : src[s] = Active

IndInv == TypeOK /\ OneOpen /\ StreamFollowsIndex /\ ToldStreams

\* The index of the active pipeline names a source.
LEMMA ActiveInRange == TypeOK => Active \in Pipes /\ InRange(Active)
BY SingleAssumption DEF TypeOK, Active, InRange, Pipes

\* The invariant holds before the first session.
LEMMA InitEstablishes == Init => IndInv
<1> SUFFICES ASSUME Init PROVE IndInv
  OBVIOUS
<1> USE SingleAssumption DEF Init
<1>1. TypeOK
  <2>1. p_idx \in 0 .. NPipes - 1 /\ i \in Streams  BY DEF Streams
  <2>2. opened \in [Pipes -> Int]  OBVIOUS
  <2>3. input \in [Pipes -> 0 .. NCams + 1]  OBVIOUS
  <2>4. nt \in [Streams -> Int] /\ local \in [Streams -> Int] /\ src \in [Streams -> Int]
    OBVIOUS
  <2> QED  BY <2>1, <2>2, <2>3, <2>4 DEF TypeOK
<1>2. OneOpen  BY DEF OneOpen
<1>3. StreamFollowsIndex  BY DEF StreamFollowsIndex, InRange
<1>4. ToldStreams  BY DEF ToldStreams
<1> QED  BY <1>1, <1>2, <1>3, <1>4 DEF IndInv

\* Every step keeps the types.
LEMMA StepTypes == IndInv /\ [Next]_vars => TypeOK'
<1> SUFFICES ASSUME IndInv, [Next]_vars PROVE TypeOK'
  OBVIOUS
<1> USE SingleAssumption DEF IndInv, TypeOK, streamVars
<1>1. CASE Start  BY <1>1 DEF Start, Streams
<1>2. CASE OpenFirst  BY <1>2, ActiveInRange DEF OpenFirst
<1>3. CASE TestFlag  BY <1>3 DEF TestFlag
<1>4. CASE Switch
  <2>1. nt_pipe \in 1 .. NPipes /\ p_idx' \in 0 .. NPipes - 1
    BY <1>4 DEF Switch, Selects, Active
  <2>2. opened' \in [Pipes -> Int]
    BY <1>4 DEF Switch, Times
  <2>3. i' \in Streams  BY <1>4 DEF Switch, Streams
  <2> QED  BY <1>4, <2>1, <2>2, <2>3 DEF Switch
<1>5. CASE KeepPipeline  BY <1>5 DEF KeepPipeline
<1>6. CASE AssignStream
  <2>1. i' \in Streams /\ pc' \in {"assign", "cam"}  BY <1>6 DEF AssignStream, Advance, Streams
  <2>2. /\ nt' \in [Streams -> Int]
        /\ local' \in [Streams -> Int]
        /\ src' \in [Streams -> Int]
    <3>1. Active \in Int  BY ActiveInRange DEF Pipes
    <3>2. CASE local[i] # Active  BY <1>6, <3>1, <3>2 DEF AssignStream
    <3>3. CASE local[i] = Active  BY <1>6, <3>3 DEF AssignStream
    <3> QED  BY <3>2, <3>3
  <2> QED  BY <1>6, <2>1, <2>2 DEF AssignStream
<1>7. CASE SelectCamera
  <2>1. input' \in [Pipes -> 0 .. NCams + 1]
    BY <1>7, ActiveInRange DEF SelectCamera, SelectsCamera
  <2> QED  BY <1>7, <2>1 DEF SelectCamera
<1>14. CASE SelectBehind
  <2>1. input' \in [Pipes -> 0 .. NCams + 1]  BY <1>14, ActiveInRange DEF SelectBehind
  <2> QED  BY <1>14, <2>1 DEF SelectBehind
<1>8. CASE SyncStream
  <2>1. i' \in Streams /\ pc' \in {"sync", "frame"}  BY <1>8 DEF SyncStream, Advance, Streams
  <2>2. nt[i] \in Int /\ local' \in [Streams -> Int]  BY <1>8 DEF SyncStream
  <2>3. src' \in [Streams -> Int]
    <3>1. CASE src' = src  BY <3>1
    <3>2. CASE src' = [src EXCEPT ![i] = nt[i]]  BY <2>2, <3>2
    <3> QED  BY <1>8, <3>1, <3>2 DEF SyncStream
  <2> QED  BY <1>8, <2>1, <2>2, <2>3 DEF SyncStream
<1>9. CASE Frame  BY <1>9 DEF Frame
<1>10. CASE Close  BY <1>10, ActiveInRange DEF Close
<1>11. CASE Stop  BY <1>11 DEF Stop
<1>12. CASE Dashboard  BY <1>12 DEF Dashboard
<1>13. CASE UNCHANGED vars  BY <1>13 DEF vars
<1> QED  BY <1>1, <1>2, <1>3, <1>4, <1>5, <1>6, <1>7, <1>8, <1>9, <1>10, <1>11, <1>12,
            <1>13, <1>14 DEF Next, Loop

\* Every step keeps init() and close() paired.
LEMMA StepOpen == IndInv /\ [Next]_vars => OneOpen'
<1> SUFFICES ASSUME IndInv, [Next]_vars PROVE OneOpen'
  OBVIOUS
<1> USE SingleAssumption DEF IndInv, TypeOK, OneOpen, streamVars, Pipes, Active
<1>1. CASE Start  BY <1>1 DEF Start
<1>2. CASE OpenFirst  BY <1>2 DEF OpenFirst
<1>3. CASE TestFlag  BY <1>3 DEF TestFlag
<1>4. CASE Switch
  <2>1. nt_pipe \in Pipes /\ nt_pipe # Active /\ Active \in Pipes
    BY <1>4, ActiveInRange DEF Switch, Selects
  <2>2. (p_idx + 1)' = nt_pipe /\ pc' = "assign" /\ pc = "pipe"
    BY <1>4 DEF Switch, Selects
  <2>3. opened[Active] = 1 /\ \A p \in Pipes : p # Active => opened[p] = 0
    BY <2>1, <2>2
  <2>4. \A p \in Pipes : opened'[p] = IF p = nt_pipe THEN 1 ELSE 0
    <3>1. opened' = [p \in Pipes |-> opened[p] - Times(p = Active) + Times(p = nt_pipe)]
      BY <1>4 DEF Switch
    <3>2. ASSUME NEW p \in Pipes PROVE opened'[p] = IF p = nt_pipe THEN 1 ELSE 0
      <4>1. CASE p = Active
        <5>1. opened[p] = 1 /\ p # nt_pipe  BY <4>1, <2>1, <2>3
        <5>2. Times(p = Active) = 1 /\ Times(p = nt_pipe) = 0  BY <4>1, <5>1 DEF Times
        <5>3. opened'[p] = 0  BY <3>1, <5>1, <5>2
        <5> QED  BY <5>1, <5>3
      <4>2. CASE p # Active
        <5>1. opened[p] = 0  BY <4>2, <2>3
        <5>2. Times(p = Active) = 0  BY <4>2 DEF Times
        <5>3. opened'[p] = Times(p = nt_pipe)  BY <3>1, <5>1, <5>2 DEF Times
        <5> QED  BY <5>3 DEF Times
      <4> QED  BY <4>1, <4>2
    <3> QED  BY <3>2
  <2> QED  BY <2>2, <2>4
<1>5. CASE KeepPipeline  BY <1>5 DEF KeepPipeline
<1>6. CASE AssignStream  BY <1>6 DEF AssignStream, Advance
<1>7. CASE SelectCamera  BY <1>7 DEF SelectCamera
<1>14. CASE SelectBehind  BY <1>14 DEF SelectBehind
<1>8. CASE SyncStream  BY <1>8 DEF SyncStream, Advance
<1>9. CASE Frame  BY <1>9 DEF Frame
<1>10. CASE Close  BY <1>10 DEF Close
<1>11. CASE Stop  BY <1>11 DEF Stop
<1>12. CASE Dashboard  BY <1>12 DEF Dashboard
<1>13. CASE UNCHANGED vars  BY <1>13 DEF vars
<1> QED  BY <1>1, <1>2, <1>3, <1>4, <1>5, <1>6, <1>7, <1>8, <1>9, <1>10, <1>11, <1>12,
            <1>13, <1>14 DEF Next, Loop

\* Every step keeps the streams with their indices and those already told of a
\* switch with the new pipeline.
LEMMA StepStreams == IndInv /\ [Next]_vars => StreamFollowsIndex' /\ ToldStreams'
<1> SUFFICES ASSUME IndInv, [Next]_vars PROVE StreamFollowsIndex' /\ ToldStreams'
  OBVIOUS
<1> USE SingleAssumption
    DEF IndInv, TypeOK, StreamFollowsIndex, ToldStreams, InRange, streamVars, Streams, Active
<1>1. CASE Start  BY <1>1 DEF Start
<1>2. CASE OpenFirst  BY <1>2 DEF OpenFirst
<1>3. CASE TestFlag  BY <1>3 DEF TestFlag
<1>4. CASE Switch  BY <1>4 DEF Switch
<1>5. CASE KeepPipeline  BY <1>5 DEF KeepPipeline
<1>6. CASE AssignStream
  <2>1. i \in Streams /\ InRange(Active) /\ pc = "assign" /\ Active' = Active
    BY <1>6, ActiveInRange DEF AssignStream, Advance
  <2>2. src'[i] = Active /\ (\A s \in Streams : s # i => src'[s] = src[s])
    BY <1>6, <2>1 DEF AssignStream
  <2>3. \A s \in Streams : s # i => local'[s] = local[s]
    BY <1>6, <2>1 DEF AssignStream
  <2>4. local'[i] = Active
    BY <1>6, <2>1 DEF AssignStream
  <2>5. StreamFollowsIndex'
    BY <2>1, <2>2, <2>3, <2>4
  <2>6. ToldStreams'
    BY <1>6, <2>1, <2>2, SMTT(30) DEF AssignStream, Advance
  <2> QED  BY <2>5, <2>6
<1>7. CASE SelectCamera  BY <1>7 DEF SelectCamera
<1>14. CASE SelectBehind  BY <1>14 DEF SelectBehind
<1>8. CASE SyncStream  BY <1>8 DEF SyncStream, Advance
<1>9. CASE Frame  BY <1>9 DEF Frame
<1>10. CASE Close  BY <1>10 DEF Close
<1>11. CASE Stop  BY <1>11 DEF Stop
<1>12. CASE Dashboard  BY <1>12 DEF Dashboard
<1>13. CASE UNCHANGED vars  BY <1>13 DEF vars
<1> QED  BY <1>1, <1>2, <1>3, <1>4, <1>5, <1>6, <1>7, <1>8, <1>9, <1>10, <1>11, <1>12,
            <1>13, <1>14 DEF Next, Loop

\* The invariant holds in every state runSingle, stop() and the dashboard reach.
THEOREM IndInvariance == Spec => []IndInv
<1>1. IndInv /\ [Next]_vars => IndInv'
  BY StepTypes, StepOpen, StepStreams DEF IndInv
<1> QED  BY InitEstablishes, <1>1, PTL DEF Spec

\* Every variable of runSingle keeps its type.
THEOREM TypeCorrect == Spec => []TypeOK
<1>1. IndInv => TypeOK  BY DEF IndInv
<1> QED  BY IndInvariance, <1>1, PTL

\* init() and close() are paired (RunSingle: OneOpen).
THEOREM OpenClosePaired == Spec => []OneOpen
<1>1. IndInv => OneOpen  BY DEF IndInv
<1> QED  BY IndInvariance, <1>1, PTL

\* A stream whose index names a source serves it (RunSingle: StreamFollowsIndex).
THEOREM StreamsFollow == Spec => []StreamFollowsIndex
<1>1. IndInv => StreamFollowsIndex  BY DEF IndInv
<1> QED  BY IndInvariance, <1>1, PTL

\* When setSourceIdx has been called for the last stream after a switch, every
\* stream serves the new pipeline (RunSingle: SwitchReachesStreams).
THEOREM SwitchReaches == Spec => SwitchReachesStreams
<1>1. IndInv /\ [Next]_vars
      => [pc = "assign" /\ pc' = "cam" => \A s \in Streams : src'[s] = Active]_vars
  <2> SUFFICES ASSUME IndInv, [Next]_vars, pc = "assign", pc' = "cam"
               PROVE \A s \in Streams : src'[s] = Active
    OBVIOUS
  <2>1. CASE AssignStream
    <3>1. \A s \in 1 .. i - 1 : src[s] = Active
      BY DEF IndInv, ToldStreams
    <3>2. i = NStreams
      BY <2>1 DEF AssignStream, Advance
    <3>3. local[i] = Active => src[i] = Active
      BY ActiveInRange DEF IndInv, StreamFollowsIndex, TypeOK
    <3> QED
      BY <2>1, <3>1, <3>2, <3>3, SingleAssumption, SMTT(30)
      DEF AssignStream, IndInv, TypeOK, streamVars, Streams
  <2>2. CASE ~AssignStream
    BY <2>2 DEF Next, Loop, Start, OpenFirst, TestFlag, Switch, KeepPipeline, SelectCamera,
       SelectBehind, SyncStream, Advance, Frame, Close, Stop, Dashboard, vars
  <2> QED  BY <2>1, <2>2
<1> QED  BY IndInvariance, <1>1, PTL DEF Spec, SwitchReachesStreams
=============================================================================
