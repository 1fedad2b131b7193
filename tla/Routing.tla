------------------------------- MODULE Routing -------------------------------
(***************************************************************************)
(* Which source every output stream and every pipeline shows               *)
(* (core/visionserver2.cpp: OutputStream, pipelineRunner, compensate and   *)
(* the functions that register cameras and pipelines).                     *)
(*                                                                         *)
(* A dashboard selects sources by writing "Source Index" entries of the    *)
(* network tables.  The loop of the run function copies the index of each  *)
(* stream, each pipeline's thread that of its pipeline, and compensate(),  *)
(* called by the application at any time, overrides them.  A session is    *)
(* one call of run() or runRaw(), as RunControl describes it.  For streams *)
(* -i names camera i and +i pipeline i; for pipelines it is the reverse.   *)
(***************************************************************************)
EXTENDS Integers, Sequences

CONSTANTS
    Cams, Pipes,     \* cameras and pipelines that may be registered
    NStreams,        \* streams registered before the first session
    MaxLen,          \* bound on the lengths of the vectors
    StreamWrites,    \* indices the dashboard writes to streams
    PipeWrites,      \* indices the dashboard writes to pipelines
    InitCams, InitPipes,   \* what is registered to begin with
    Reconfigures,    \* the application changes the registry later on
    LiveCompensate   \* the application calls compensate() during sessions

ASSUME RoutingAssumption ==
    /\ NStreams \in Nat \ {0}
    /\ MaxLen \in Nat
    /\ StreamWrites \subseteq Int
    /\ PipeWrites \subseteq Int
    /\ InitCams \in Seq(Cams) /\ InitPipes \in Seq(Pipes)
    /\ Reconfigures \in BOOLEAN
    /\ LiveCompensate \in BOOLEAN
    /\ Cams \cap Pipes = {}
    /\ "none" \notin Cams \cup Pipes

Streams == 1 .. NStreams

VARIABLES
    cams, pipes,     \* VisionServer::cameras, VisionServer::pipelines
    session,         \* "off", "multi" or "raw"
    flag,            \* is_running
    nt,              \* nt[i]: "Source Index" entry of stream i
    local,           \* local[i]: OutputStream::local_idx
    src,             \* src[i]: the source the stream serves
    loop,            \* the run function: next stream, step, index it read
    pnt,             \* pnt[p]: "Source Index" entry of pipeline p
    prun,            \* prun[p]: pipelineRunner thread of p: "none", "start", "loop", "done"
    pidx,            \* pidx[p]: idx of that thread
    psrc,            \* psrc[p]: source of BasePipe::input
    negatives,       \* what the bound of line 277 lets through, see below
    app,             \* compensate(): next stream, step, index it assigns
    fate             \* "alive", "threw" (std::out_of_range left a thread)
                     \* or "raced" (a vector changed under a reader)

streamVars == <<nt, local, src>>
pipeVars == <<pnt, prun, pidx, psrc>>
vars == <<cams, pipes, session, flag, nt, local, src, loop, pnt, prun, pidx, psrc,
          negatives, app, fate>>

AtRest == [at |-> "rest", i |-> 1, n |-> 0]

Init ==
    /\ cams = InitCams
    /\ pipes = InitPipes
    /\ session = "off"
    /\ flag = FALSE
    /\ nt = [i \in Streams |-> 0]
    /\ local = [i \in Streams |-> 0]
    /\ src = [i \in Streams |-> "none"]
    /\ loop = AtRest
    /\ pnt = [p \in Pipes |-> 0]
    /\ prun = [p \in Pipes |-> "none"]
    /\ pidx = [p \in Pipes |-> 0]
    /\ psrc = [p \in Pipes |-> "none"]
    /\ negatives \in BOOLEAN
    /\ app = AtRest
    /\ fate = "alive"

Elements(s) == {s[k] : k \in 1 .. Len(s)}

\* An exception that leaves a thread ends the program; after a data race
\* nothing is known of it.
Alive == fate = "alive"

-----------------------------------------------------------------------------
(* Stream indices.                                                         *)

NamesCamera(i)   == i < 0 /\ i >= -Len(cams)
NamesPipeline(i) == i > 0 /\ i <= Len(pipes)
InRange(i) == NamesCamera(i) \/ NamesPipeline(i)
SourceAt(i) == IF i < 0 THEN cams[-i] ELSE pipes[i]

\* Mutant: negative indices are ignored.
AttachPipelinesOnly(i, n) ==
    src' = IF NamesPipeline(n) THEN [src EXCEPT ![i] = SourceAt(n)] ELSE src

\* SetSource is called only for an index that names a source.
Attach(i, n) == src' = IF InRange(n) THEN [src EXCEPT ![i] = SourceAt(n)] ELSE src

\* OutputStream::syncIdx, executed by the loop of run() and runRaw() for one
\* stream after the other: read the entry, store local_idx, set the source.
\* Mutant: the loop runs one stream too far.
NextStreamTooFar(i) == [AtRest EXCEPT !.i = IF i > NStreams THEN 1 ELSE i + 1]
NextStream(i) == [AtRest EXCEPT !.i = IF i = NStreams THEN 1 ELSE i + 1]

SyncRead ==
    /\ session # "off"
    /\ loop.at = "rest"
    /\ loop.i = 1 => flag       \* the flag is tested before each pass
    /\ loop' = IF nt[loop.i] # local[loop.i]
               THEN [loop EXCEPT !.at = "local", !.n = nt[loop.i]]
               ELSE NextStream(loop.i)
    /\ UNCHANGED <<cams, pipes, session, flag, streamVars, pipeVars, negatives, app, fate>>

\* Mutant: local_idx is not stored.
SyncLocalForgets ==
    /\ loop.at = "local"
    /\ loop' = [loop EXCEPT !.at = "source"]
    /\ UNCHANGED <<cams, pipes, session, flag, streamVars, pipeVars, negatives, app, fate>>

SyncLocal ==
    /\ loop.at = "local"
    /\ local' = [local EXCEPT ![loop.i] = loop.n]
    /\ loop' = [loop EXCEPT !.at = "source"]
    /\ UNCHANGED <<cams, pipes, session, flag, nt, src, pipeVars, negatives, app, fate>>

SyncSource ==
    /\ loop.at = "source"
    /\ Attach(loop.i, loop.n)
    /\ loop' = NextStream(loop.i)
    /\ UNCHANGED <<cams, pipes, session, flag, nt, local, pipeVars, negatives, app, fate>>

-----------------------------------------------------------------------------
(* The source of a pipeline, in its pipelineRunner thread.                 *)

\* The thread publishes index 1 and takes it for granted; it does so even if
\* the flag has been cleared since run() created it.
RunnerStart(p) ==
    /\ prun[p] = "start"
    /\ prun' = [prun EXCEPT ![p] = "loop"]
    /\ pnt' = [pnt EXCEPT ![p] = 1]
    /\ pidx' = [pidx EXCEPT ![p] = 1]
    /\ UNCHANGED <<cams, pipes, session, flag, streamVars, psrc, loop, negatives, app, fate>>

\* The bound on a negative index is -((int)numPipelines), minus the address of
\* the function, not minus its result: according to where the function is
\* loaded every negative index passes, or none does.
\* Mutants: the last camera is left out; one too many is let through.
NamesCamButLast(n) == n > 0 /\ n < Len(cams)
NamesCamAndOne(n) == n > 0 /\ n <= Len(cams) + 1
NamesCam(n)  == n > 0 /\ n <= Len(cams)
NamesPipe(n) == n < 0 /\ negatives

\* cameras.at() or pipelines.at() throws: what passed the tests names nothing.
AtThrows(n) ==
    \/ NamesCam(n) /\ n \notin 1 .. Len(cams)
    \/ NamesPipe(n) /\ -n \notin 1 .. Len(pipes)

RunnerSwitch(p) ==
    /\ prun[p] = "loop"
    /\ flag
    /\ pnt[p] # pidx[p]
    /\ pidx' = [pidx EXCEPT ![p] = pnt[p]]
    /\ LET n == pnt[p] IN
       \/ /\ NamesCam(n) /\ n \in 1 .. Len(cams)
          /\ psrc' = [psrc EXCEPT ![p] = cams[n]]
          /\ UNCHANGED fate
       \/ /\ NamesPipe(n) /\ -n \in 1 .. Len(pipes)
          /\ psrc' = [psrc EXCEPT ![p] = pipes[-n]]
          /\ UNCHANGED fate
       \/ /\ AtThrows(n)
          /\ fate' = "threw"
          /\ UNCHANGED psrc
       \/ /\ ~NamesCam(n) /\ ~NamesPipe(n)
          /\ UNCHANGED <<psrc, fate>>
    /\ UNCHANGED <<cams, pipes, session, flag, streamVars, pnt, prun, loop, negatives, app>>

RunnerStop(p) ==
    /\ prun[p] = "loop"
    /\ ~flag
    /\ prun' = [prun EXCEPT ![p] = "done"]
    /\ pidx' = [pidx EXCEPT ![p] = 0]
    /\ UNCHANGED <<cams, pipes, session, flag, streamVars, pnt, psrc, loop, negatives, app, fate>>

-----------------------------------------------------------------------------
(* The application: sessions, registration, compensate().                  *)

AppIdle == app.at = "rest"

\* run() creates a thread for every pipeline, runRaw() none.
StartSession(k) ==
    /\ AppIdle
    /\ session = "off"
    /\ k = "multi" => Len(pipes) > 0
    /\ session' = k
    /\ flag' = TRUE
    /\ loop' = AtRest
    /\ prun' = [p \in Pipes |-> IF k = "multi" /\ p \in Elements(pipes) THEN "start" ELSE "none"]
    /\ UNCHANGED <<cams, pipes, streamVars, pnt, pidx, psrc, negatives, app, fate>>

StopFlag ==
    /\ AppIdle
    /\ flag
    /\ flag' = FALSE
    /\ UNCHANGED <<cams, pipes, session, streamVars, loop, pipeVars, negatives, app, fate>>

EndSession ==
    /\ session # "off"
    /\ ~flag
    /\ loop.at = "rest" /\ loop.i = 1
    /\ \A p \in Pipes : prun[p] \in {"none", "done"}     \* the threads are joined
    /\ session' = "off"
    /\ prun' = [p \in Pipes |-> "none"]
    /\ UNCHANGED <<cams, pipes, flag, streamVars, loop, pnt, pidx, psrc, negatives, app, fate>>

\* The functions that change the vectors test only isRunning(): the readers of
\* a session that was stopped may still be there.
MayReconfigure == Reconfigures /\ AppIdle /\ ~flag
Race == session # "off" /\ fate' = "raced"

\* addCamera(s) appends, setCameras replaces.  No stream is looked at.
ChangeCameras(new) ==
    /\ MayReconfigure
    /\ cams' = new
    /\ UNCHANGED fate \/ Race
    /\ UNCHANGED <<pipes, session, flag, streamVars, loop, pipeVars, negatives, app>>

ChangePipelines(new) ==
    /\ MayReconfigure
    /\ pipes' = new
    /\ UNCHANGED fate \/ Race
    /\ UNCHANGED <<cams, session, flag, streamVars, loop, pipeVars, negatives, app>>

Registrations(S) ==
    {new \in UNION {[1 .. k -> S] : k \in 0 .. MaxLen} :
        \A j, k \in DOMAIN new : new[j] = new[k] => j = k}

\* compensate(): every pipeline is attached to the first camera that is
\* connected, then setSourceIdx is called for every stream.  Which cameras are
\* connected is up to the hardware; without one compensate() returns false.
CompensateBegin(active) ==
    /\ AppIdle
    /\ LiveCompensate \/ session = "off"
    /\ psrc' = [p \in Pipes |-> IF p \in Elements(pipes) THEN cams[active] ELSE psrc[p]]
    /\ app' = [at |-> "check", i |-> 1, n |-> IF Len(pipes) > 0 THEN 1 ELSE -active]
    /\ UNCHANGED <<cams, pipes, session, flag, streamVars, loop, pnt, prun, pidx, negatives, fate>>

\* OutputStream::setSourceIdx: nothing if the index is the current one, else
\* set the source, then store local_idx, then write the entry.
AppNext(i) == IF i = NStreams THEN [app EXCEPT !.at = "done"] ELSE [app EXCEPT !.at = "check", !.i = i + 1]

SetIdxCheck ==
    /\ app.at = "check"
    /\ app' = IF local[app.i] # app.n THEN [app EXCEPT !.at = "source"] ELSE AppNext(app.i)
    /\ UNCHANGED <<cams, pipes, session, flag, streamVars, loop, pipeVars, negatives, fate>>

SetIdxSource ==
    /\ app.at = "source"
    /\ Attach(app.i, app.n)
    /\ app' = [app EXCEPT !.at = "local"]
    /\ UNCHANGED <<cams, pipes, session, flag, nt, local, loop, pipeVars, negatives, fate>>

SetIdxLocal ==
    /\ app.at = "local"
    /\ local' = [local EXCEPT ![app.i] = app.n]
    /\ app' = [app EXCEPT !.at = "publish"]
    /\ UNCHANGED <<cams, pipes, session, flag, nt, src, loop, pipeVars, negatives, fate>>

SetIdxPublish ==
    /\ app.at = "publish"
    /\ nt' = [nt EXCEPT ![app.i] = app.n]
    /\ app' = AppNext(app.i)
    /\ UNCHANGED <<cams, pipes, session, flag, local, src, loop, pipeVars, negatives, fate>>

\* compensate() returns true.
CompensateEnd ==
    /\ app.at = "done"
    /\ app' = AtRest
    /\ UNCHANGED <<cams, pipes, session, flag, streamVars, loop, pipeVars, negatives, fate>>

-----------------------------------------------------------------------------
(* The dashboard.                                                          *)

WriteStream(i, n) ==
    /\ nt' = [nt EXCEPT ![i] = n]
    /\ UNCHANGED <<cams, pipes, session, flag, local, src, loop, pipeVars, negatives, app, fate>>

WritePipe(p, n) ==
    /\ pnt' = [pnt EXCEPT ![p] = n]
    /\ UNCHANGED <<cams, pipes, session, flag, streamVars, loop, prun, pidx, psrc, negatives, app, fate>>

-----------------------------------------------------------------------------

Loop == Alive /\ (SyncRead \/ SyncLocal \/ SyncSource \/ EndSession)
Runner(p) == Alive /\ (RunnerStart(p) \/ RunnerSwitch(p) \/ RunnerStop(p))
Compensating ==
    /\ Alive
    /\ SetIdxCheck \/ SetIdxSource \/ SetIdxLocal \/ SetIdxPublish \/ CompensateEnd

Application ==
    /\ Alive
    /\ \/ \E k \in {"multi", "raw"} : StartSession(k)
       \/ StopFlag
       \/ \E new \in Registrations(Cams) : ChangeCameras(new)
       \/ \E new \in Registrations(Pipes) : ChangePipelines(new)
       \/ \E active \in 1 .. Len(cams) : CompensateBegin(active)

Dashboard ==
    /\ Alive
    /\ \/ \E i \in Streams, n \in StreamWrites : WriteStream(i, n)
       \/ \E p \in Pipes, n \in PipeWrites : WritePipe(p, n)

Next == Loop \/ (\E p \in Pipes : Runner(p)) \/ Compensating \/ Application \/ Dashboard

\* The threads of the library run; the application and the dashboard owe nothing.
Spec ==
    /\ Init /\ [][Next]_vars
    /\ WF_vars(Loop)
    /\ \A p \in Pipes : WF_vars(Runner(p))
    /\ WF_vars(Compensating)

-----------------------------------------------------------------------------
(* Properties.                                                             *)

Moves == [at : {"rest", "local", "source", "check", "publish", "done"}, i : Streams, n : Int]
Sources == Cams \cup Pipes \cup {"none"}

\* Every variable has its type.
TypeOK ==
    /\ cams \in Seq(Cams) /\ pipes \in Seq(Pipes)
    /\ session \in {"off", "multi", "raw"}
    /\ flag \in BOOLEAN
    /\ nt \in [Streams -> Int] /\ local \in [Streams -> Int]
    /\ src \in [Streams -> Sources]
    /\ loop \in Moves /\ app \in Moves
    /\ pnt \in [Pipes -> Int]
    /\ prun \in [Pipes -> {"none", "start", "loop", "done"}]
    /\ pidx \in [Pipes -> Int]
    /\ psrc \in [Pipes -> Sources]
    /\ negatives \in BOOLEAN
    /\ fate \in {"alive", "threw", "raced"}

\* The stream whose index and source a thread is about to change.
Moving(i) ==
    \/ loop.i = i /\ loop.at = "source"
    \/ app.i = i /\ app.at = "local"

\* The local index of a stream and the source it serves agree: whatever the
\* dashboard writes and whenever, an index that names a source is never kept
\* for a stream that serves another one.
StreamFollowsIndex ==
    \A i \in Streams :
        InRange(local[i]) /\ ~Moving(i) => src[i] = SourceAt(local[i])

\* README.md "dynamically assign input sources during runtime": when the
\* dashboard leaves an entry alone during a session, the stream ends up with
\* this index and, if it names a source, serves it for good.
StreamConverges ==
    \A i \in Streams, n \in StreamWrites :
        <>[](nt[i] = n /\ flag) =>
        <>[](~Alive \/ (local[i] = n /\ (InRange(n) => src[i] = SourceAt(n))))

\* A stream told to serve another source does so, unless it is told otherwise
\* or stopped meanwhile: also when cameras and pipelines were exchanged and
\* compensate() was called before the session.
StreamSwitches ==
    \A i \in Streams, n \in StreamWrites :
        (flag /\ nt[i] = n /\ local[i] # n /\ InRange(n))
        ~> ((InRange(n) /\ src[i] = SourceAt(n)) \/ nt[i] # n \/ ~flag \/ ~Alive)

\* A pipeline told to use another camera does so, unless it is told otherwise
\* or stopped meanwhile.
PipelineSwitches ==
    \A p \in Pipes, n \in PipeWrites :
        (prun[p] = "loop" /\ pnt[p] = n /\ pidx[p] # n /\ n \in 1 .. Len(cams))
        ~> ((n \in 1 .. Len(cams) /\ psrc[p] = cams[n]) \/ pnt[p] # n \/ ~flag \/ ~Alive)

\* Which index a dashboard can end the program with (lines 275-278): only one
\* that a pipeline's thread read and that lies beyond the pipelines on the
\* negative side, and only where the bound lets negative indices through.  At
\* the other end, and for streams, an index beyond the registry is ignored.
OnlyFarIndicesThrow ==
    fate = "threw" => negatives /\ \E p \in Pipes : pidx[p] < -Len(pipes)
=============================================================================
