------------------------------ MODULE RunSingle ------------------------------
(***************************************************************************)
(* Single-threaded processing (core/visionserver2.cpp, runSingle): one     *)
(* loop that processes the pipeline selected by the "Pipeline Index"       *)
(* entry, gives it the camera selected by "Camera Index", moves the        *)
(* streams along and follows the streams' own "Source Index" entries.      *)
(*                                                                         *)
(* Actors: the thread in runSingle, the dashboard that writes the entries, *)
(* and a thread that calls stop().  The registry does not change during a  *)
(* session, so a source is identified by the index that names it for       *)
(* streams: -k is camera k, +k pipeline k, 0 none.                         *)
(***************************************************************************)
EXTENDS Integers

CONSTANTS
    NCams, NPipes, NStreams,   \* lengths of the vectors
    PipeWrites, CamWrites, StreamWrites   \* what the dashboard writes

ASSUME SingleAssumption ==
    /\ NCams \in Nat /\ NPipes \in Nat \ {0} /\ NStreams \in Nat \ {0}
    /\ PipeWrites \subseteq Int /\ CamWrites \subseteq Int /\ StreamWrites \subseteq Int

Pipes   == 1 .. NPipes
Streams == 1 .. NStreams

VARIABLES
    pc,          \* where runSingle is, "off" outside of it, "crashed" for good
    flag,        \* is_running
    nt_pipe, nt_cam,   \* entries "Pipeline Index" and "Camera Index"
    p_idx, c_idx,      \* the local variables of the same name
    opened,      \* opened[p]: calls of init() minus calls of close()
    input,       \* input[p]: camera number BasePipe::input is set to, 0: none
    i,           \* stream the inner loops are at
    nt,          \* nt[s]: entry "Source Index" of stream s
    local,       \* local[s]: its local_idx
    src          \* src[s]: the source it serves

streamVars == <<nt, local, src>>
vars == <<pc, flag, nt_pipe, nt_cam, p_idx, c_idx, opened, input, i, nt, local, src>>

Init ==
    /\ pc = "off"
    /\ flag = FALSE
    /\ nt_pipe = 0 /\ nt_cam = 0
    /\ p_idx = 0 /\ c_idx = 0
    /\ opened = [p \in Pipes |-> 0]
    /\ input = [p \in Pipes |-> 0]
    /\ i = 1
    /\ nt = [s \in Streams |-> 0]
    /\ local = [s \in Streams |-> 0]
    /\ src = [s \in Streams |-> 0]

Active == p_idx + 1          \* pipelines[p_idx], counted from 1
InRange(n) == n # 0 /\ n \in -NCams .. NPipes

-----------------------------------------------------------------------------
(* runSingle.                                                              *)

\* Check, flag, published entries, first init().
Start ==
    /\ pc = "off"
    /\ ~flag
    /\ flag' = TRUE
    /\ nt_pipe' = 1 /\ nt_cam' = 1
    /\ p_idx' = 0 /\ c_idx' = 0
    /\ pc' = "init"
    /\ UNCHANGED <<opened, input, i, streamVars>>

OpenFirst ==
    /\ pc = "init"
    /\ opened' = [opened EXCEPT ![Active] = @ + 1]
    /\ pc' = "test"
    /\ UNCHANGED <<flag, nt_pipe, nt_cam, p_idx, c_idx, input, i, streamVars>>

TestFlag ==
    /\ pc = "test"
    /\ pc' = IF flag THEN "pipe" ELSE "close"
    /\ UNCHANGED <<flag, nt_pipe, nt_cam, p_idx, c_idx, opened, input, i, streamVars>>

\* Mutants: zero passes for an index; the last pipeline cannot be selected.
SelectsUnchecked(n) == n # Active /\ n <= NPipes /\ n >= 0
SelectsButLast(n) == n # Active /\ n > 0 /\ n < NPipes

\* n != p_idx + 1 && n > 0 && n <= numPipelines()
Selects(n) == n # Active /\ n > 0 /\ n <= NPipes

\* Mutant: the old pipeline is not closed.
SwitchLeavesOpen ==
    /\ pc = "pipe"
    /\ Selects(nt_pipe)
    /\ opened' = [opened EXCEPT ![nt_pipe] = @ + 1]
    /\ p_idx' = nt_pipe - 1
    /\ i' = 1
    /\ pc' = "assign"
    /\ UNCHANGED <<flag, nt_pipe, nt_cam, c_idx, input, streamVars>>

Times(b) == IF b THEN 1 ELSE 0

\* close() the old pipeline, init() the new one.
Switch ==
    /\ pc = "pipe"
    /\ Selects(nt_pipe)
    /\ opened' = [p \in Pipes |-> opened[p] - Times(p = Active) + Times(p = nt_pipe)]
    /\ p_idx' = nt_pipe - 1
    /\ i' = 1
    /\ pc' = "assign"
    /\ UNCHANGED <<flag, nt_pipe, nt_cam, c_idx, input, streamVars>>

KeepPipeline ==
    /\ pc = "pipe"
    /\ ~Selects(nt_pipe)
    /\ pc' = "cam"
    /\ UNCHANGED <<flag, nt_pipe, nt_cam, p_idx, c_idx, opened, input, i, streamVars>>

Advance(from, to) ==
    /\ pc = from
    /\ i' = IF i = NStreams THEN 1 ELSE i + 1
    /\ pc' = IF i = NStreams THEN to ELSE from

\* Mutant: the last stream is left out.
AssignStreamButLast ==
    /\ Advance("assign", "cam")
    /\ IF i # NStreams /\ local[i] # Active
       THEN /\ src' = [src EXCEPT ![i] = Active]
            /\ local' = [local EXCEPT ![i] = Active]
            /\ nt' = [nt EXCEPT ![i] = Active]
       ELSE UNCHANGED streamVars
    /\ UNCHANGED <<flag, nt_pipe, nt_cam, p_idx, c_idx, opened, input>>

\* setSourceIdx(n) for one stream after the other: the entry is overwritten,
\* also if the dashboard has just written another index to it.
AssignStream ==
    /\ Advance("assign", "cam")
    /\ IF local[i] # Active
       THEN /\ src' = [src EXCEPT ![i] = Active]
            /\ local' = [local EXCEPT ![i] = Active]
            /\ nt' = [nt EXCEPT ![i] = Active]
       ELSE UNCHANGED streamVars
    /\ UNCHANGED <<flag, nt_pipe, nt_cam, p_idx, c_idx, opened, input>>

\* n != c_idx && n > 0 && n <= numCameras()
SelectsCamera(n) == n # c_idx /\ n \in 1 .. NCams

\* _inst.cameras[c_idx]: the index counts from 1, the vector from 0.
SelectCamera ==
    /\ pc = "cam"
    /\ ~(SelectsCamera(nt_cam) /\ nt_cam = NCams)
    /\ c_idx' = nt_cam
    /\ input' = IF SelectsCamera(nt_cam) THEN [input EXCEPT ![Active] = nt_cam + 1] ELSE input
    /\ pc' = "sync"
    /\ UNCHANGED <<flag, nt_pipe, nt_cam, p_idx, opened, i, streamVars>>

\* The largest index names the memory behind the last camera.  Its use is
\* undefined: the pipeline gets a source that does not exist (NCams + 1), or
\* the program crashes.  With one camera the first pass already comes here.
SelectBehind ==
    /\ pc = "cam"
    /\ SelectsCamera(nt_cam) /\ nt_cam = NCams
    /\ c_idx' = nt_cam
    /\ input' = [input EXCEPT ![Active] = NCams + 1]
    /\ pc' \in {"sync", "crashed"}
    /\ UNCHANGED <<flag, nt_pipe, nt_cam, p_idx, opened, i, streamVars>>

\* Mutant: local_idx is stored, the source is not set.
SyncStreamForgets ==
    /\ Advance("sync", "frame")
    /\ local' = [local EXCEPT ![i] = nt[i]]
    /\ UNCHANGED <<flag, nt_pipe, nt_cam, p_idx, c_idx, opened, input, nt, src>>

\* syncIdx() for one stream after the other.
SyncStream ==
    /\ Advance("sync", "frame")
    /\ local' = [local EXCEPT ![i] = nt[i]]
    /\ src' = IF nt[i] # local[i] /\ InRange(nt[i]) THEN [src EXCEPT ![i] = nt[i]] ELSE src
    /\ UNCHANGED <<flag, nt_pipe, nt_cam, p_idx, c_idx, opened, input, nt>>

\* A frame is grabbed, processed by the active pipeline and put out, or
\* nothing is, if processing is disabled or no frame comes.
Frame ==
    /\ pc = "frame"
    /\ pc' = "test"
    /\ UNCHANGED <<flag, nt_pipe, nt_cam, p_idx, c_idx, opened, input, i, streamVars>>

\* Mutant: the first pipeline is closed, not the active one.
CloseFirst ==
    /\ pc = "close"
    /\ opened' = [opened EXCEPT ![1] = @ - 1]
    /\ pc' = "off"
    /\ UNCHANGED <<flag, nt_pipe, nt_cam, p_idx, c_idx, input, i, streamVars>>

Close ==
    /\ pc = "close"
    /\ opened' = [opened EXCEPT ![Active] = @ - 1]
    /\ pc' = "off"
    /\ UNCHANGED <<flag, nt_pipe, nt_cam, p_idx, c_idx, input, i, streamVars>>

-----------------------------------------------------------------------------
(* The others.                                                             *)

Stop ==
    /\ flag /\ pc # "crashed"
    /\ flag' = FALSE
    /\ UNCHANGED <<pc, nt_pipe, nt_cam, p_idx, c_idx, opened, input, i, streamVars>>

Dashboard ==
    /\ \/ nt_pipe' \in PipeWrites /\ UNCHANGED <<nt_cam, nt>>
       \/ nt_cam' \in CamWrites /\ UNCHANGED <<nt_pipe, nt>>
       \/ /\ \E s \in Streams, n \in StreamWrites : nt' = [nt EXCEPT ![s] = n]
          /\ UNCHANGED <<nt_pipe, nt_cam>>
    /\ UNCHANGED <<pc, flag, p_idx, c_idx, opened, input, i, local, src>>

Loop ==
    \/ OpenFirst \/ TestFlag \/ Switch \/ KeepPipeline \/ AssignStream
    \/ SelectCamera \/ SelectBehind \/ SyncStream \/ Frame \/ Close

Next == Start \/ Loop \/ Stop \/ Dashboard

\* The thread inside runSingle runs; nobody else owes anything.
Spec == Init /\ [][Next]_vars /\ WF_vars(Loop)

-----------------------------------------------------------------------------
(* Properties.                                                             *)

\* Every variable has its type.
TypeOK ==
    /\ pc \in {"off", "init", "test", "pipe", "assign", "cam", "sync", "frame", "close", "crashed"}
    /\ flag \in BOOLEAN
    /\ nt_pipe \in Int /\ nt_cam \in Int /\ c_idx \in Int
    /\ p_idx \in 0 .. NPipes - 1
    /\ opened \in [Pipes -> Int]
    /\ input \in [Pipes -> 0 .. NCams + 1]
    /\ i \in Streams
    /\ nt \in [Streams -> Int] /\ local \in [Streams -> Int] /\ src \in [Streams -> Int]

\* init() and close() are paired through every sequence of switches, stops and
\* restarts: in a session the active pipeline, and no other, is open; outside
\* of one none is.
OneOpen ==
    \A p \in Pipes :
        opened[p] = IF p = Active /\ pc \notin {"off", "init"} THEN 1 ELSE 0

\* A stream whose index names a source serves this source, although two
\* functions of the loop and the dashboard write the index.
StreamFollowsIndex == \A s \in Streams : InRange(local[s]) => src[s] = local[s]

\* When the loop has told the streams of a switch, all of them serve the new
\* pipeline, those that already had its index too.
SwitchReachesStreams ==
    [][pc = "assign" /\ pc' = "cam" => \A s \in Streams : src'[s] = Active]_vars

\* The session goes on: it is not stopped and has not crashed at line 467.
Lasts == flag /\ pc # "crashed"

\* A pipeline that stays selected during a session that lasts is processed from
\* some time on, whatever else the dashboard writes.
SelectionTakesEffect ==
    \A n \in Pipes : <>[](Lasts /\ nt_pipe = n) => <>[](Active = n /\ opened[n] = 1)

\* A stream whose entry is left alone during a session that lasts serves its
\* source.
StreamConverges ==
    \A s \in Streams, n \in StreamWrites :
        <>[](Lasts /\ nt[s] = n) => <>[](local[s] = n /\ (InRange(n) => src[s] = n))

\* Once the flag is down for good, the session ends with every pipeline closed,
\* if it does not crash at line 467 before.
StopCloses ==
    <>[](~flag /\ pc # "crashed") => <>[](pc = "off" /\ \A p \in Pipes : opened[p] = 0)
=============================================================================
