------------------------------- MODULE Registry -------------------------------
(***************************************************************************)
(* What VisionServer owns and what it only points at (core/visionserver2): *)
(* the vector of pipeline pointers, the heap objects the template          *)
(* functions create for it, the streams, and the pointers every pipeline   *)
(* keeps into the vector of cameras to find its calibration.               *)
(*                                                                         *)
(* A heap object is a number, never used twice; an address inside the      *)
(* vector of cameras is a block of memory and a position in it.  The       *)
(* application registers while no session runs, as the functions demand.   *)
(* The names of streams are modelled although nothing here depends on them *)
(* but their numbering: addStream takes any name, also one in use.         *)
(***************************************************************************)
EXTENDS Naturals, Sequences, SequencesExt

CONSTANTS
    Own,          \* pipelines the application owns
    Cams,         \* cameras it may register
    None,         \* no source
    Names,        \* names it gives to streams
    MaxHeap,      \* bound on objects the template functions create
    MaxPipes,     \* bound on the length of pipelines
    MaxStreams,   \* bound on the length of streams
    MaxBlocks     \* bound on the memory blocks of the vector of cameras

ASSUME RegistryAssumption ==
    /\ MaxHeap \in Nat /\ MaxPipes \in Nat /\ MaxStreams \in Nat /\ MaxBlocks \in Nat \ {0}
    /\ Own \cap Nat = {} /\ Cams \cap (Own \cup Nat) = {}
    /\ None \notin Cams

Objects == Own \cup 1 .. MaxHeap

VARIABLES
    session,     \* "off", "multi" (run) or "single" (runSingle)
    pipelines,   \* VisionServer::pipelines
    heap,        \* VisionServer::heap_allocated
    made,        \* objects created so far
    threw,       \* addPipelines<...>() was left by an exception since setPipelines
    streams,     \* the names of VisionServer::streams; n is "Stream n"
    cams, cap,   \* VisionServer::cameras and its capacity()
    block,       \* the memory cams is in
    input,       \* input[o]: what BasePipe::input is connected to
    lens,        \* lens[o]: BasePipe::src_matrix, the address of a matrix
    ready        \* history: no pipeline was connected to a camera yet, or compensate()
                 \* returned true, since a change that can leave a pointer stale

pipeVars == <<pipelines, heap, made, threw>>
camVars == <<cams, cap, block>>
linkVars == <<input, lens>>
vars == <<session, pipeVars, streams, camVars, linkVars, ready>>

\* src_matrix{&VisionCamera::default_matrix}
DefaultLens == <<0, 0>>
Lens(k) == <<block, k>>

Running == session # "off"

Init ==
    /\ session = "off"
    /\ pipelines = <<>> /\ heap = <<>> /\ made = 0 /\ threw = FALSE
    /\ streams = <<>>
    /\ cams = <<>> /\ cap = 0 /\ block = 1
    /\ input = [o \in Objects |-> None]
    /\ lens = [o \in Objects |-> DefaultLens]
    /\ ready = TRUE

\* The functions that may leave a registered pipeline with a pointer to a matrix
\* that is gone do so only if some pipeline was connected before.
Unlinked == \A o \in Objects : lens[o] = DefaultLens
Configuring == ~Running /\ ready' = Unlinked

-----------------------------------------------------------------------------
(* Pipelines.                                                              *)

\* addPipeline(p), addPipelines({...})
AddPipelines(new) ==
    /\ Configuring
    /\ pipelines' = pipelines \o new
    /\ UNCHANGED <<session, heap, made, threw, streams, camVars, linkVars>>

\* setPipelines({...}): clear both vectors, which destroys the heap objects.
SetPipelines(new) ==
    /\ Configuring
    /\ heap' = <<>>
    /\ pipelines' = new
    /\ threw' = FALSE
    /\ UNCHANGED <<session, made, streams, camVars, linkVars>>

\* pipeExpander<...>: n new objects.
Fresh(n) == [k \in 1 .. n |-> made + k]

\* Mutant: heap_allocated.front() instead of back().
NewPipelineFront ==
    /\ ~Running
    /\ heap' = heap \o Fresh(1)
    /\ pipelines' = Append(pipelines, heap'[1])
    /\ made' = made + 1
    /\ UNCHANGED <<session, threw, streams, camVars, linkVars, ready>>

\* addPipeline<T>()
NewPipeline ==
    /\ ~Running
    /\ heap' = heap \o Fresh(1)
    /\ pipelines' = Append(pipelines, heap'[Len(heap')])
    /\ made' = made + 1
    /\ UNCHANGED <<session, threw, streams, camVars, linkVars, ready>>

\* addPipelines<...>(): the loop counts i = n, n - 1, ... 0 and on through the
\* largest size_t, and registers element size - i - 1 of heap_allocated, the
\* first time one too early.  at() throws there when nothing was owned before;
\* otherwise the last old object is registered again, then the new ones, and
\* at() throws once i has wrapped round.
NewPipelines(n) ==
    /\ Configuring
    /\ heap' = heap \o Fresh(n)
    /\ pipelines' = IF heap = <<>> THEN pipelines
                    ELSE pipelines \o <<Last(heap)>> \o Fresh(n)
    /\ made' = made + n
    /\ threw' = TRUE
    /\ UNCHANGED <<session, streams, camVars, linkVars>>

\* Mutant: pipelines is not cleared.
ReplacePipelinesKeeps(n) ==
    /\ ~Running
    /\ heap' = Fresh(n)
    /\ pipelines' = pipelines \o Fresh(n)
    /\ made' = made + n
    /\ threw' = FALSE
    /\ UNCHANGED <<session, streams, camVars, linkVars, ready>>

\* setPipelines<...>()
ReplacePipelines(n) ==
    /\ ~Running
    /\ heap' = Fresh(n)
    /\ pipelines' = Fresh(n)
    /\ made' = made + n
    /\ threw' = FALSE
    /\ UNCHANGED <<session, streams, camVars, linkVars, ready>>

-----------------------------------------------------------------------------
(* Streams: unnamed ones are numbered by the length of the vector.         *)

\* Mutant: + 1 is missing.
NumberedFromZero(n) == [k \in 1 .. n |-> Len(streams) + k - 1]
Numbered(n) == [k \in 1 .. n |-> Len(streams) + k]

\* addStream, addStreams: no name is compared with the others.
AddStreams(new) ==
    /\ ~Running
    /\ streams' = streams \o new
    /\ UNCHANGED <<session, pipeVars, camVars, linkVars, ready>>

-----------------------------------------------------------------------------
(* Cameras.  Moving or replacing them ends the life of what lens points at.*)

\* addCamera, addCameras: emplace_back and reserve move the vector when it is too
\* small, to any capacity that is large enough.
AddCameras(new, room) ==
    /\ ~Running
    /\ room >= Len(cams) + Len(new)
    /\ room = cap \/ (room > cap /\ cap < Len(cams) + Len(new))
    /\ cams' = cams \o new
    /\ cap' = room
    /\ block' = IF room > cap THEN block + 1 ELSE block
    /\ ready' = IF room > cap THEN Unlinked ELSE ready
    /\ UNCHANGED <<session, pipeVars, streams, linkVars>>

\* setCameras takes over the memory of its argument.
SetCameras(new) ==
    /\ Configuring
    /\ cams' = new
    /\ cap' = Len(new)
    /\ block' = block + 1
    /\ UNCHANGED <<session, pipeVars, streams, linkVars>>

-----------------------------------------------------------------------------
(* BasePipe::setCamera and setPipeline, called by the threads of a session *)
(* for what a dashboard selects, and by compensate().                      *)

\* Mutant: the matrix is left as it is.
SetCameraNoMatrix(p, k) ==
    /\ input' = [input EXCEPT ![p] = cams[k]]
    /\ UNCHANGED <<session, pipeVars, streams, camVars, lens, ready>>

SetCamera(p, k) ==
    /\ input' = [input EXCEPT ![p] = cams[k]]
    /\ lens' = [lens EXCEPT ![p] = Lens(k)]
    /\ UNCHANGED <<session, pipeVars, streams, camVars, ready>>

\* runSingle with the number of cameras as the index: cameras[c_idx] is behind
\* the end.  What is there is undefined; if the program survives it, the input
\* is anything and the matrix is no camera's.
SetCameraBehind(p) ==
    /\ \E x \in Cams \cup {None} : input' = [input EXCEPT ![p] = x]
    /\ lens' = [lens EXCEPT ![p] = Lens(Len(cams) + 1)]
    /\ ready' = FALSE
    /\ UNCHANGED <<session, pipeVars, streams, camVars>>

SetPipeline(p, q) ==
    /\ input' = [input EXCEPT ![p] = q]
    /\ lens' = [lens EXCEPT ![p] = lens[q]]
    /\ UNCHANGED <<session, pipeVars, streams, camVars, ready>>

\* Mutant: the last pipeline is left out.
CompensatedButLast == {pipelines[k] : k \in 1 .. Len(pipelines) - 1}
Compensated == ToSet(pipelines)

\* compensate() with camera k as the first one connected; without one it
\* returns false and changes nothing.
Compensate(k) ==
    /\ input' = [o \in Objects |-> IF o \in Compensated THEN cams[k] ELSE input[o]]
    /\ lens' = [o \in Objects |-> IF o \in Compensated THEN Lens(k) ELSE lens[o]]
    /\ ready' = TRUE
    /\ UNCHANGED <<session, pipeVars, streams, camVars>>

\* run or runSingle, and the end of its session.
Start(kind) ==
    /\ ~Running
    /\ pipelines # <<>>
    /\ session' = kind
    /\ UNCHANGED <<pipeVars, streams, camVars, linkVars, ready>>

Stop ==
    /\ Running
    /\ session' = "off"
    /\ UNCHANGED <<pipeVars, streams, camVars, linkVars, ready>>

-----------------------------------------------------------------------------

Lists(S, used, room) ==
    {new \in SeqOf(S, 2) : Len(new) \in 1 .. room /\ IsInjective(new) /\ ToSet(new) \cap used = {}}

ConfigurePipelines ==
    \/ \E new \in Lists(Own, ToSet(pipelines), MaxPipes - Len(pipelines)) : AddPipelines(new)
    \/ \E new \in Lists(Own, {}, MaxPipes) : SetPipelines(new)
    \/ Len(pipelines) < MaxPipes /\ made < MaxHeap /\ NewPipeline
    \/ \E n \in 1 .. 2 :
          /\ made + n <= MaxHeap
          /\ \/ Len(pipelines) + n < MaxPipes /\ NewPipelines(n)
             \/ ReplacePipelines(n)

ConfigureCameras ==
    \/ \E new \in Lists(Cams, ToSet(cams), 2), room \in 1 .. 2 :
          block < MaxBlocks /\ AddCameras(new, room)
    \/ \E new \in Lists(Cams, {}, 2) : block < MaxBlocks /\ SetCameras(new)

ConfigureStreams ==
    \/ \E n \in 1 .. MaxStreams - Len(streams) : AddStreams(Numbered(n))
    \/ \E new \in SeqOf(Names \cup 1 .. MaxStreams, MaxStreams - Len(streams)) : AddStreams(new)

\* run() takes cameras and pipelines by number, runSingle() cameras only, and
\* the one after the one that was meant.
Session ==
    \/ (\E kind \in {"multi", "single"} : Start(kind)) \/ Stop
    \/ session = "multi" /\ \E p \in ToSet(pipelines), k \in 1 .. Len(cams) : SetCamera(p, k)
    \/ session = "multi" /\ \E p, q \in ToSet(pipelines) : SetPipeline(p, q)
    \/ session = "single" /\ \E p \in ToSet(pipelines), k \in 2 .. Len(cams) : SetCamera(p, k)
    \/ session = "single" /\ cams # <<>> /\ \E p \in ToSet(pipelines) : SetCameraBehind(p)

Next ==
    \/ ConfigurePipelines \/ ConfigureCameras \/ ConfigureStreams \/ Session
    \/ \E k \in 1 .. Len(cams) : Compensate(k)

Spec == Init /\ [][Next]_vars

-----------------------------------------------------------------------------
(* Properties.                                                             *)

\* Every variable has its type.
TypeOK ==
    /\ session \in {"off", "multi", "single"} /\ threw \in BOOLEAN /\ ready \in BOOLEAN
    /\ pipelines \in Seq(Objects) /\ heap \in Seq(1 .. MaxHeap)
    /\ made \in 0 .. MaxHeap
    /\ streams \in Seq(Names \cup 1 .. MaxStreams)
    /\ cams \in Seq(Cams) /\ cap \in Nat /\ block \in 1 .. MaxBlocks
    /\ input \in [Objects -> Cams \cup Objects \cup {None}]
    /\ lens \in [Objects -> Nat \X Nat]

\* Every registered pointer is alive: to an object of the application, or to a
\* heap object the server still owns.  Also after an exception.
NoDangling == ToSet(pipelines) \subseteq Own \cup ToSet(heap)

\* As long as addPipelines<...>() is not used, the server registers each object
\* it owns, and registers it once: no pipeline is left without a thread and
\* none gets two.
OwnedOnce ==
    ~threw => \A o \in ToSet(heap) : \E k \in DOMAIN pipelines :
                 /\ pipelines[k] = o
                 /\ \A j \in DOMAIN pipelines \ {k} : pipelines[j] # o

Alive(m) == m = DefaultLens \/ (m[1] = block /\ m[2] \in DOMAIN cams)

\* While a session runs, getSrcMatrix() of every registered pipeline reads a
\* matrix that exists, although cameras and pipelines are added and exchanged
\* between sessions, as long as the application calls compensate() (line 354) with
\* success after a change that moves cameras or registers pipelines again, once
\* one has been connected, and runSingle has not selected behind the end (467).
LensAlive == Running /\ ready => \A p \in ToSet(pipelines) : Alive(lens[p])

\* Under the same use a pipeline connected to a camera has the calibration of this
\* camera and no other.
LensMatches ==
    Running /\ ready => \A p \in ToSet(pipelines) :
        input[p] \in Cams => lens[p] # DefaultLens /\ cams[lens[p][2]] = input[p]
=============================================================================
