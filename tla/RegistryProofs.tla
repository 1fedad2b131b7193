---------------------------- MODULE RegistryProofs ----------------------------
(***************************************************************************)
(* For any pipelines, cameras and names and any order of registrations and *)
(* sessions: registered pointers are alive, every owned pipeline is        *)
(* registered once, and sessions on connections no change has made stale   *)
(* read the calibration of the right camera.                               *)
(***************************************************************************)
EXTENDS Registry, TLAPS

\* The server owns only objects it has made, hence the next one is new.
HeapMade == \A o \in ToSet(heap) : o <= made

\* What the links of one pipeline have to be.
Linked(p) ==
    /\ Alive(lens[p])
    /\ input[p] \in Cams => lens[p] # DefaultLens /\ cams[lens[p][2]] = input[p]

\* Until a change that may leave one behind, every pointer to a matrix is current.
LensCurrent == ready => \A p \in ToSet(pipelines) : Linked(p)

\* A pipeline that has a camera has a matrix of some camera.
InputLinked == \A o \in Objects : input[o] \in Cams => lens[o] # DefaultLens

\* An object that has not been made yet is connected to nothing.
FreshUnlinked == \A o \in Objects : o \in Nat /\ o > made => lens[o] = DefaultLens

LinksOK == InputLinked /\ FreshUnlinked

-----------------------------------------------------------------------------
(* Sequences.                                                              *)

\* What a sequence over S holds is in S.
LEMMA ElementOf == ASSUME NEW S, NEW s \in Seq(S), NEW k \in DOMAIN s PROVE s[k] \in S
OBVIOUS

\* A sequence over a part of T is one over T.
LEMMA WiderSequence ==
    ASSUME NEW S, NEW T, S \subseteq T, NEW s \in Seq(S) PROVE s \in Seq(T)
<1>1. s \in [1 .. Len(s) -> T] /\ Len(s) \in Nat  OBVIOUS
<1> QED  BY <1>1

\* The elements of a concatenation.
LEMMA ToSetConcat ==
    ASSUME NEW S, NEW s \in Seq(S), NEW t \in Seq(S)
    PROVE  ToSet(s \o t) = ToSet(s) \cup ToSet(t)
<1>1. ASSUME NEW k \in DOMAIN (s \o t) PROVE (s \o t)[k] \in ToSet(s) \cup ToSet(t)
  <2>1. CASE k <= Len(s)  BY <1>1, <2>1 DEF ToSet
  <2>2. CASE k > Len(s)
    <3>1. k - Len(s) \in DOMAIN t /\ (s \o t)[k] = t[k - Len(s)]  BY <1>1, <2>2
    <3> QED  BY <3>1 DEF ToSet
  <2> QED  BY <1>1, <2>1, <2>2
<1>2. ASSUME NEW k \in DOMAIN s PROVE s[k] \in ToSet(s \o t)
  <2>1. k \in DOMAIN (s \o t) /\ (s \o t)[k] = s[k]  OBVIOUS
  <2> QED  BY <2>1 DEF ToSet
<1>3. ASSUME NEW k \in DOMAIN t PROVE t[k] \in ToSet(s \o t)
  <2>1. Len(s) + k \in DOMAIN (s \o t) /\ (s \o t)[Len(s) + k] = t[k]  OBVIOUS
  <2> QED  BY <2>1 DEF ToSet
<1> QED  BY <1>1, <1>2, <1>3 DEF ToSet

\* What the application passes: a sequence without repetition.
LEMMA ListsAreSequences ==
    ASSUME NEW S, NEW used, NEW room, NEW new \in Lists(S, used, room)
    PROVE  /\ new \in Seq(S) /\ IsInjective(new) /\ ToSet(new) \cap used = {}
           /\ Len(new) \in 1 .. room
           /\ ToSet(new) \subseteq S
<1>1. new \in SeqOf(S, 2) /\ IsInjective(new) /\ ToSet(new) \cap used = {} /\ Len(new) \in 1 .. room
  BY DEF Lists
<1>2. PICK m \in 0 .. 2 : new \in [1 .. m -> S]  BY <1>1 DEF SeqOf
<1>3. new \in Seq(S)  BY <1>2
<1> QED  BY <1>1, <1>3 DEF ToSet

\* n new objects.
LEMMA FreshObjects ==
    ASSUME made \in Nat, NEW n \in Nat, made + n <= MaxHeap, MaxHeap \in Nat
    PROVE  /\ Fresh(n) \in Seq(1 .. MaxHeap) /\ Len(Fresh(n)) = n
           /\ \A k \in 1 .. n : Fresh(n)[k] = made + k
           /\ ToSet(Fresh(n)) = made + 1 .. made + n
           /\ IsInjective(Fresh(n))
<1>1. Fresh(n) \in [1 .. n -> 1 .. MaxHeap]  BY DEF Fresh
<1>2. Fresh(n) \in Seq(1 .. MaxHeap) /\ Len(Fresh(n)) = n  BY <1>1
<1>3. \A k \in 1 .. n : Fresh(n)[k] = made + k  BY DEF Fresh
<1>4. IsInjective(Fresh(n))  BY <1>1, <1>3 DEF IsInjective
<1>5. ToSet(Fresh(n)) = made + 1 .. made + n
  <2>1. ASSUME NEW o \in made + 1 .. made + n PROVE o \in ToSet(Fresh(n))
    <3>1. o - made \in 1 .. n /\ Fresh(n)[o - made] = o  BY <1>3
    <3> QED  BY <1>1, <3>1 DEF ToSet
  <2> QED  BY <1>1, <1>3, <2>1 DEF ToSet
<1> QED  BY <1>2, <1>3, <1>4, <1>5

-----------------------------------------------------------------------------
(* The invariant.                                                          *)

PipesOK == NoDangling /\ HeapMade /\ OwnedOnce

\* The parts of TypeOK.
TypeFlags ==
    session \in {"off", "multi", "single"} /\ threw \in BOOLEAN /\ ready \in BOOLEAN
TypePipes == pipelines \in Seq(Objects) /\ heap \in Seq(1 .. MaxHeap) /\ made \in 0 .. MaxHeap
TypeStreams == streams \in Seq(Names \cup 1 .. MaxStreams)
TypeCams == cams \in Seq(Cams) /\ cap \in Nat /\ block \in 1 .. MaxBlocks
TypeLinks ==
    /\ input \in [Objects -> Cams \cup Objects \cup {None}]
    /\ lens \in [Objects -> Nat \X Nat]

Types == TypeFlags /\ TypePipes /\ TypeStreams /\ TypeCams /\ TypeLinks

\* TypeOK in the parts that different actions change.
LEMMA TypeParts == TypeOK <=> Types
BY DEF TypeOK, Types, TypeFlags, TypePipes, TypeStreams, TypeCams, TypeLinks

IndInv == Types /\ PipesOK /\ LinksOK /\ LensCurrent

\* Each part of the type invariant is about some of the variables only.
LEMMA TypesFramed ==
    /\ TypePipes /\ UNCHANGED pipeVars => TypePipes'
    /\ TypeStreams /\ UNCHANGED streams => TypeStreams'
    /\ TypeCams /\ UNCHANGED camVars => TypeCams'
    /\ TypeLinks /\ UNCHANGED linkVars => TypeLinks'
BY DEF TypePipes, TypeStreams, TypeCams, TypeLinks, pipeVars, camVars, linkVars

\* So is each part of the rest.
LEMMA PartsFramed ==
    /\ PipesOK /\ UNCHANGED pipeVars => PipesOK'
    /\ LinksOK /\ UNCHANGED <<made, linkVars>> => LinksOK'
    /\ LensCurrent /\ UNCHANGED <<pipelines, camVars, linkVars, ready>> => LensCurrent'
<1>1. PipesOK /\ UNCHANGED pipeVars => PipesOK'
  BY DEF PipesOK, NoDangling, HeapMade, OwnedOnce, pipeVars
<1>2. LinksOK /\ UNCHANGED <<made, linkVars>> => LinksOK'
  BY DEF LinksOK, InputLinked, FreshUnlinked, linkVars
<1>3. LensCurrent /\ UNCHANGED <<pipelines, camVars, linkVars, ready>> => LensCurrent'
  BY DEF LensCurrent, Linked, Alive, camVars, linkVars
<1> QED  BY <1>1, <1>2, <1>3

\* Making objects.
LEMMA MakingLinks ==
    ASSUME LinksOK, made \in Nat, made' \in Nat, made' >= made, UNCHANGED linkVars
    PROVE  LinksOK'
<1>1. ASSUME NEW o \in Objects, o \in Nat, o > made' PROVE lens'[o] = DefaultLens
  <2>1. o > made  BY <1>1
  <2> QED  BY <1>1, <2>1 DEF LinksOK, FreshUnlinked, linkVars
<1> QED  BY <1>1 DEF LinksOK, InputLinked, FreshUnlinked, linkVars

\* A pipeline that is not connected.
LEMMA UnlinkedIsLinked ==
    ASSUME LinksOK, NEW o \in Objects, lens[o] = DefaultLens, UNCHANGED linkVars
    PROVE  Linked(o)'
BY DEF LinksOK, InputLinked, Linked, Alive, linkVars

\* Changes that can leave pointers stale make no claim once a pipeline was
\* connected, and before that there is no pointer.
LEMMA ConfiguringLens ==
    ASSUME LinksOK, ready' = Unlinked, UNCHANGED linkVars, pipelines' \in Seq(Objects)
    PROVE  LensCurrent'
<1>1. CASE ~Unlinked  BY <1>1 DEF LensCurrent
<1>2. CASE Unlinked
  <2>1. ToSet(pipelines') \subseteq Objects  BY ElementOf DEF ToSet
  <2>2. ASSUME NEW o \in Objects PROVE Linked(o)'
    <3>1. lens[o] = DefaultLens  BY <1>2 DEF Unlinked
    <3> QED  BY <3>1, UnlinkedIsLinked
  <2>3. \A o \in ToSet(pipelines') : Linked(o)'  BY <2>1, <2>2
  <2> QED  BY <2>3 DEF LensCurrent
<1> QED  BY <1>1, <1>2

\* The empty server.
LEMMA InitEstablishes == Init => IndInv
<1> SUFFICES ASSUME Init PROVE IndInv
  OBVIOUS
<1> USE RegistryAssumption DEF Init
<1>1. Types
  <2>1. TypeFlags  BY DEF TypeFlags
  <2>2. TypePipes  BY DEF TypePipes
  <2>3. TypeStreams  BY DEF TypeStreams
  <2>4. TypeCams  BY DEF TypeCams
  <2>5. TypeLinks  BY DEF TypeLinks, DefaultLens
  <2> QED  BY <2>1, <2>2, <2>3, <2>4, <2>5 DEF Types
<1>2. PipesOK  BY DEF PipesOK, NoDangling, HeapMade, OwnedOnce, ToSet
<1>3. LinksOK  BY DEF LinksOK, InputLinked, FreshUnlinked
<1>4. LensCurrent  BY DEF LensCurrent, ToSet
<1> QED  BY <1>1, <1>2, <1>3, <1>4 DEF IndInv

\* The objects of the application are not those of the server.
LEMMA OwnersDiffer == ASSUME NEW o \in Own, NEW h \in Nat PROVE o # h
BY RegistryAssumption

\* Owned objects are numbers up to made.
LEMMA HeapNumbers == IndInv => \A o \in ToSet(heap) : o \in Nat /\ o <= made
<1> SUFFICES ASSUME IndInv, NEW k \in DOMAIN heap PROVE heap[k] \in Nat /\ heap[k] <= made
  BY DEF ToSet
<1>1. heap \in Seq(1 .. MaxHeap) /\ HeapMade  BY DEF IndInv, Types, TypePipes, PipesOK
<1>2. heap[k] \in 1 .. MaxHeap  BY <1>1, ElementOf
<1>3. heap[k] <= made  BY <1>1 DEF HeapMade, ToSet
<1> QED  BY <1>2, <1>3, RegistryAssumption

\* addPipeline(p), addPipelines({...})
LEMMA AddPipelinesStep ==
    ASSUME IndInv, NEW new \in Lists(Own, ToSet(pipelines), MaxPipes - Len(pipelines)),
           AddPipelines(new)
    PROVE  IndInv'
<1> USE DEF IndInv
<1>1. new \in Seq(Own) /\ ToSet(new) \subseteq Own  BY ListsAreSequences
<1>2. pipelines \in Seq(Objects) /\ new \in Seq(Objects)
  BY <1>1 DEF Types, TypePipes, Objects
<1>3. ToSet(pipelines') = ToSet(pipelines) \cup ToSet(new)
  BY <1>2, ToSetConcat DEF AddPipelines
<1>4. Types'
  <2>1. TypeFlags'  BY DEF Types, TypeFlags, AddPipelines, Configuring, Unlinked
  <2>2. TypePipes'  BY <1>2 DEF Types, TypePipes, AddPipelines
  <2>3. TypeStreams' /\ TypeCams' /\ TypeLinks'  BY TypesFramed DEF Types, AddPipelines
  <2> QED  BY <2>1, <2>2, <2>3 DEF Types
<1>5. NoDangling' /\ HeapMade'  BY <1>1, <1>3 DEF PipesOK, NoDangling, HeapMade, AddPipelines
<1>6. OwnedOnce'
  <2> SUFFICES ASSUME ~threw, NEW o \in ToSet(heap)
               PROVE  \E k \in DOMAIN pipelines' :
                         /\ pipelines'[k] = o
                         /\ \A j \in DOMAIN pipelines' \ {k} : pipelines'[j] # o
    BY DEF OwnedOnce, AddPipelines
  <2>1. PICK k \in DOMAIN pipelines :
           /\ pipelines[k] = o
           /\ \A j \in DOMAIN pipelines \ {k} : pipelines[j] # o
    BY DEF PipesOK, OwnedOnce
  <2>2. o \in Nat  BY HeapNumbers
  <2>3. \A j \in DOMAIN new : new[j] # o  BY <1>1, <2>2, OwnersDiffer
  <2>4. pipelines' = pipelines \o new  BY DEF AddPipelines
  <2>5. k \in DOMAIN pipelines' /\ pipelines'[k] = o  BY <1>2, <2>1, <2>4
  <2>6. ASSUME NEW j \in DOMAIN pipelines' \ {k} PROVE pipelines'[j] # o
    <3>1. CASE j \in DOMAIN pipelines  BY <1>2, <2>1, <2>4, <3>1
    <3>2. CASE j \notin DOMAIN pipelines
      <4>1. j - Len(pipelines) \in DOMAIN new /\ pipelines'[j] = new[j - Len(pipelines)]
        BY <1>2, <2>4, <3>2
      <4> QED  BY <2>3, <4>1
    <3> QED  BY <3>1, <3>2
  <2> QED  BY <2>5, <2>6
<1>7. LinksOK'  BY PartsFramed DEF AddPipelines
<1>8. LensCurrent'  BY <1>4, ConfiguringLens DEF AddPipelines, Configuring, Types, TypePipes
<1> QED  BY <1>4, <1>5, <1>6, <1>7, <1>8 DEF PipesOK

\* setPipelines({...})
LEMMA SetPipelinesStep ==
    ASSUME IndInv, NEW new \in Lists(Own, {}, MaxPipes), SetPipelines(new)
    PROVE  IndInv'
<1> USE DEF IndInv
<1>1. new \in Seq(Own) /\ ToSet(new) \subseteq Own  BY ListsAreSequences
<1>2. Types'
  <2>1. TypeFlags'  BY DEF Types, TypeFlags, SetPipelines, Configuring, Unlinked
  <2>2. TypePipes'
    <3>1. new \in Seq(Objects) /\ <<>> \in Seq(1 .. MaxHeap)  BY <1>1 DEF Objects
    <3> QED  BY <3>1 DEF Types, TypePipes, SetPipelines
  <2>3. TypeStreams' /\ TypeCams' /\ TypeLinks'  BY TypesFramed DEF Types, SetPipelines
  <2> QED  BY <2>1, <2>2, <2>3 DEF Types
<1>3. ToSet(heap') = {}  BY DEF SetPipelines, ToSet
<1>4. PipesOK'  BY <1>1, <1>3 DEF PipesOK, NoDangling, HeapMade, OwnedOnce, SetPipelines
<1>5. LinksOK'  BY PartsFramed DEF SetPipelines
<1>6. LensCurrent'  BY <1>2, ConfiguringLens DEF SetPipelines, Configuring, Types, TypePipes
<1> QED  BY <1>2, <1>4, <1>5, <1>6

\* addPipeline<T>()
LEMMA NewPipelineStep ==
    ASSUME IndInv, made < MaxHeap, NewPipeline
    PROVE  IndInv'
<1> USE DEF IndInv
<1>1. /\ made \in Nat /\ MaxHeap \in Nat /\ made + 1 <= MaxHeap
      /\ heap \in Seq(1 .. MaxHeap) /\ pipelines \in Seq(Objects)
  BY RegistryAssumption DEF Types, TypePipes
<1>2. /\ Fresh(1) \in Seq(1 .. MaxHeap) /\ Len(Fresh(1)) = 1
      /\ Fresh(1)[1] = made + 1 /\ ToSet(Fresh(1)) = {made + 1}
  <2>1. 1 \in Nat /\ 1 \in 1 .. 1 /\ made + 1 .. made + 1 = {made + 1}  BY <1>1
  <2> HIDE DEF IndInv
  <2>2. /\ Fresh(1) \in Seq(1 .. MaxHeap) /\ Len(Fresh(1)) = 1
        /\ \A k \in 1 .. 1 : Fresh(1)[k] = made + k
        /\ ToSet(Fresh(1)) = made + 1 .. made + 1
    BY <1>1, <2>1, FreshObjects
  <2> QED  BY <2>1, <2>2
<1>3. heap' \in Seq(1 .. MaxHeap) /\ heap'[Len(heap')] = made + 1
      /\ ToSet(heap') = ToSet(heap) \cup {made + 1}
  <2>1. heap' = heap \o Fresh(1)  BY DEF NewPipeline
  <2> QED  BY <1>1, <1>2, <2>1, ToSetConcat
<1>4. pipelines' = Append(pipelines, made + 1) /\ made + 1 \in Objects
  <2>1. pipelines' = Append(pipelines, made + 1)  BY <1>3 DEF NewPipeline
  <2>2. made + 1 \in 1 .. MaxHeap  BY <1>1
  <2> QED  BY <2>1, <2>2 DEF Objects
<1>5. Types'
  <2>1. TypeFlags'  BY DEF Types, TypeFlags, NewPipeline, Configuring, Unlinked
  <2>2. TypePipes'
    <3>1. pipelines' \in Seq(Objects)  BY <1>1, <1>4
    <3>2. made' \in 0 .. MaxHeap  BY <1>1 DEF NewPipeline
    <3> QED  BY <1>3, <3>1, <3>2 DEF TypePipes
  <2>3. TypeStreams' /\ TypeCams' /\ TypeLinks'  BY TypesFramed DEF Types, NewPipeline
  <2> QED  BY <2>1, <2>2, <2>3 DEF Types
<1>6. ToSet(pipelines') = ToSet(pipelines) \cup {made + 1}
  <2>1. <<made + 1>> \in Seq(Objects) /\ pipelines' = pipelines \o <<made + 1>>
    BY <1>1, <1>4
  <2>2. ToSet(<<made + 1>>) = {made + 1}  BY DEF ToSet
  <2>3. ToSet(pipelines \o <<made + 1>>) = ToSet(pipelines) \cup ToSet(<<made + 1>>)
    BY <1>1, <2>1, ToSetConcat
  <2> QED  BY <2>1, <2>2, <2>3
<1>7. NoDangling'  BY <1>3, <1>6 DEF PipesOK, NoDangling
<1>8. HeapMade'
  <2>1. \A o \in ToSet(heap) : o \in Nat /\ o <= made  BY HeapNumbers
  <2>2. made' = made + 1  BY DEF NewPipeline
  <2>3. \A o \in ToSet(heap') : o <= made + 1  BY <1>1, <1>3, <2>1
  <2> QED  BY <2>2, <2>3 DEF HeapMade
<1>9. \A k \in DOMAIN pipelines : pipelines[k] # made + 1
  <2> SUFFICES ASSUME NEW k \in DOMAIN pipelines PROVE pipelines[k] # made + 1
    OBVIOUS
  <2>1. pipelines[k] \in Own \/ pipelines[k] \in ToSet(heap)
    BY DEF PipesOK, NoDangling, ToSet
  <2>2. CASE pipelines[k] \in Own  BY <1>1, <2>2, OwnersDiffer
  <2>3. CASE pipelines[k] \in ToSet(heap)
    <3>1. pipelines[k] \in Nat /\ pipelines[k] <= made  BY <2>3, HeapNumbers
    <3> QED  BY <1>1, <3>1
  <2> QED  BY <2>1, <2>2, <2>3
<1>10. OwnedOnce'
  <2> SUFFICES ASSUME ~threw, NEW o \in ToSet(heap')
               PROVE  \E k \in DOMAIN pipelines' :
                         /\ pipelines'[k] = o
                         /\ \A j \in DOMAIN pipelines' \ {k} : pipelines'[j] # o
    BY DEF OwnedOnce, NewPipeline
  <2>1. /\ DOMAIN pipelines' = DOMAIN pipelines \cup {Len(pipelines) + 1}
        /\ Len(pipelines) + 1 \notin DOMAIN pipelines
        /\ pipelines'[Len(pipelines) + 1] = made + 1
        /\ \A j \in DOMAIN pipelines : pipelines'[j] = pipelines[j]
    BY <1>1, <1>4
  <2>2. CASE o \in ToSet(heap)
    <3>1. PICK k \in DOMAIN pipelines :
             /\ pipelines[k] = o
             /\ \A j \in DOMAIN pipelines \ {k} : pipelines[j] # o
      BY <2>2 DEF PipesOK, OwnedOnce
    <3>2. o # made + 1  BY <3>1, <1>9
    <3> QED  BY <2>1, <3>1, <3>2
  <2>3. CASE o = made + 1  BY <1>9, <2>1, <2>3
  <2> QED  BY <1>3, <2>2, <2>3
<1>11. LinksOK'
  <2>1. made' = made + 1 /\ UNCHANGED linkVars  BY DEF NewPipeline
  <2> QED  BY <1>1, <2>1, MakingLinks
<1>12. LensCurrent'
  <2> SUFFICES ASSUME ready, NEW o \in ToSet(pipelines) \cup {made + 1} PROVE Linked(o)'
    BY <1>6 DEF LensCurrent, NewPipeline
  <2>1. UNCHANGED <<cams, block, input, lens>>  BY DEF NewPipeline, camVars, linkVars
  <2>2. CASE o \in ToSet(pipelines)  BY <2>1, <2>2 DEF LensCurrent, Linked, Alive
  <2>3. CASE o = made + 1
    <3>2. LinksOK  OBVIOUS
    <3>3. made + 1 \in Nat /\ made + 1 > made /\ made + 1 \in Objects  BY <1>1, <1>4
    <3>1. lens[made + 1] = DefaultLens  BY <3>2, <3>3 DEF FreshUnlinked, LinksOK
    <3> HIDE DEF IndInv
    <3> QED  BY <1>4, <2>1, <2>3, <3>1, <3>2, UnlinkedIsLinked DEF linkVars
  <2> QED  BY <2>2, <2>3
<1> QED  BY <1>5, <1>7, <1>8, <1>10, <1>11, <1>12 DEF PipesOK

\* addPipelines<...>(): some object is registered twice or none at all, but none
\* that is not owned.
LEMMA NewPipelinesStep ==
    ASSUME IndInv, NEW n \in 1 .. 2, made + n <= MaxHeap, NewPipelines(n)
    PROVE  IndInv'
<1>1. /\ made \in Nat /\ MaxHeap \in Nat /\ n \in Nat
      /\ heap \in Seq(1 .. MaxHeap) /\ pipelines \in Seq(Objects)
  BY RegistryAssumption DEF IndInv, Types, TypePipes
<1>2. Fresh(n) \in Seq(1 .. MaxHeap) /\ ToSet(Fresh(n)) = made + 1 .. made + n
  BY <1>1, FreshObjects
<1>3. heap' \in Seq(1 .. MaxHeap) /\ ToSet(heap') = ToSet(heap) \cup (made + 1 .. made + n)
  <2>1. heap' = heap \o Fresh(n)  BY DEF NewPipelines
  <2>2. ToSet(heap \o Fresh(n)) = ToSet(heap) \cup ToSet(Fresh(n))  BY <1>1, <1>2, ToSetConcat
  <2> QED  BY <1>1, <1>2, <2>1, <2>2
<1>4. pipelines' \in Seq(Objects) /\ ToSet(pipelines') \subseteq ToSet(pipelines) \cup ToSet(heap')
  <2>1. CASE heap = <<>>
    <3>1. pipelines' = pipelines  BY <2>1 DEF NewPipelines
    <3> QED  BY <1>1, <3>1
  <2>2. CASE heap # <<>>
    <3> DEFINE old == <<Last(heap)>>
    <3>1. Last(heap) \in ToSet(heap) /\ Last(heap) \in 1 .. MaxHeap
      <4>1. Len(heap) \in DOMAIN heap  BY <1>1, <2>2
      <4> QED  BY <1>1, <4>1, ElementOf DEF Last, ToSet
    <3>2. ToSet(old) = {Last(heap)}  BY DEF ToSet
    <3>3. old \in Seq(1 .. MaxHeap)  BY <3>1
    <3>4. 1 .. MaxHeap \subseteq Objects  BY DEF Objects
    <3>5. old \in Seq(Objects) /\ Fresh(n) \in Seq(Objects)  BY <1>2, <3>3, <3>4, WiderSequence
    <3>6. ToSet(pipelines \o old) = ToSet(pipelines) \cup ToSet(old)
      BY <1>1, <3>5, ToSetConcat, ZenonT(30)
    <3>7. pipelines \o old \in Seq(Objects)  BY <1>1, <3>5
    <3>8. ToSet((pipelines \o old) \o Fresh(n)) = ToSet(pipelines \o old) \cup ToSet(Fresh(n))
      BY <3>5, <3>7, ToSetConcat, ZenonT(30)
    <3>9. pipelines' = (pipelines \o old) \o Fresh(n)  BY <2>2 DEF NewPipelines
    <3>10. pipelines' \in Seq(Objects)  BY <3>5, <3>7, <3>9
    <3> QED  BY <1>2, <1>3, <3>1, <3>2, <3>6, <3>8, <3>9, <3>10
  <2> QED  BY <2>1, <2>2
<1>5. Types'
  <2>1. TypeFlags'  BY DEF IndInv, Types, TypeFlags, NewPipelines, Configuring, Unlinked
  <2>2. TypePipes'
    <3>1. made' \in 0 .. MaxHeap  BY <1>1 DEF NewPipelines
    <3> QED  BY <1>3, <1>4, <3>1 DEF TypePipes
  <2>3. TypeStreams' /\ TypeCams' /\ TypeLinks'
    BY TypesFramed DEF IndInv, Types, NewPipelines
  <2> QED  BY <2>1, <2>2, <2>3 DEF Types
<1>6. NoDangling'  BY <1>3, <1>4 DEF IndInv, PipesOK, NoDangling
<1>7. HeapMade'
  <2>1. \A o \in ToSet(heap) : o \in Nat /\ o <= made  BY HeapNumbers
  <2>2. made' = made + n  BY DEF NewPipelines
  <2>3. \A o \in ToSet(heap') : o <= made + n  BY <1>1, <1>3, <2>1
  <2> QED  BY <2>2, <2>3 DEF HeapMade
<1>8. OwnedOnce'  BY DEF OwnedOnce, NewPipelines
<1>9. LinksOK'
  <2>1. made' = made + n /\ made' \in Nat /\ made' >= made /\ UNCHANGED linkVars
    BY <1>1 DEF NewPipelines
  <2> QED  BY <1>1, <2>1, MakingLinks DEF IndInv
<1>10. LensCurrent'  BY <1>4, ConfiguringLens DEF NewPipelines, Configuring, IndInv
<1> QED  BY <1>5, <1>6, <1>7, <1>8, <1>9, <1>10 DEF IndInv, PipesOK

\* setPipelines<...>()
LEMMA ReplacePipelinesStep ==
    ASSUME IndInv, NEW n \in 1 .. 2, made + n <= MaxHeap, ReplacePipelines(n)
    PROVE  IndInv'
<1>1. made \in Nat /\ MaxHeap \in Nat /\ n \in Nat
  BY RegistryAssumption DEF IndInv, Types, TypePipes
<1>2. /\ Fresh(n) \in Seq(1 .. MaxHeap) /\ ToSet(Fresh(n)) = made + 1 .. made + n
      /\ IsInjective(Fresh(n))
  BY <1>1, FreshObjects
<1>3. heap' = Fresh(n) /\ pipelines' = Fresh(n) /\ made' = made + n  BY DEF ReplacePipelines
<1>4. Types'
  <2>1. TypeFlags'  BY DEF IndInv, Types, TypeFlags, ReplacePipelines, Configuring, Unlinked
  <2>2. TypePipes'
    <3>1. made' \in 0 .. MaxHeap  BY <1>1, <1>3
    <3>2. 1 .. MaxHeap \subseteq Objects  BY DEF Objects
    <3>3. Fresh(n) \in Seq(Objects)  BY <1>2, <3>2, WiderSequence
    <3> QED  BY <1>2, <1>3, <3>1, <3>3 DEF TypePipes
  <2>3. TypeStreams' /\ TypeCams' /\ TypeLinks'
    BY TypesFramed DEF IndInv, Types, ReplacePipelines
  <2> QED  BY <2>1, <2>2, <2>3 DEF Types
<1>5. NoDangling'  BY <1>3 DEF NoDangling
<1>6. HeapMade'
  <2>1. \A o \in made + 1 .. made + n : o <= made + n  BY <1>1
  <2> QED  BY <1>2, <1>3, <2>1 DEF HeapMade
<1>7. OwnedOnce'
  <2> SUFFICES ASSUME NEW o \in ToSet(Fresh(n))
               PROVE  \E k \in DOMAIN Fresh(n) :
                         /\ Fresh(n)[k] = o
                         /\ \A j \in DOMAIN Fresh(n) \ {k} : Fresh(n)[j] # o
    BY <1>3 DEF OwnedOnce
  <2>1. PICK k \in DOMAIN Fresh(n) : Fresh(n)[k] = o  BY DEF ToSet
  <2>2. \A j \in DOMAIN Fresh(n) : Fresh(n)[j] = Fresh(n)[k] => j = k
    BY <1>2 DEF IsInjective
  <2> QED  BY <2>1, <2>2
<1>8. LinksOK'
  <2>1. made' \in Nat /\ made' >= made /\ UNCHANGED linkVars  BY <1>1, <1>3 DEF ReplacePipelines
  <2> QED  BY <1>1, <2>1, MakingLinks DEF IndInv
<1>9. LensCurrent'
  <2> SUFFICES ASSUME NEW o \in made + 1 .. made + n PROVE Linked(o)'
    BY <1>2, <1>3 DEF LensCurrent
  <2>1. o \in Objects /\ o \in Nat /\ o > made  BY <1>1 DEF Objects
  <2>2. lens[o] = DefaultLens  BY <2>1 DEF IndInv, LinksOK, FreshUnlinked
  <2> QED  BY <2>1, <2>2, UnlinkedIsLinked DEF IndInv, ReplacePipelines
<1> QED  BY <1>4, <1>5, <1>6, <1>7, <1>8, <1>9 DEF IndInv, PipesOK

\* addCamera, addCameras
LEMMA AddCamerasStep ==
    ASSUME IndInv, NEW new \in Lists(Cams, ToSet(cams), 2), NEW room \in 1 .. 2,
           block < MaxBlocks, AddCameras(new, room)
    PROVE  IndInv'
<1>1. new \in Seq(Cams)  BY ListsAreSequences
<1>2. Types'
  <2>1. TypeFlags'  BY DEF IndInv, Types, TypeFlags, AddCameras, Configuring, Unlinked, pipeVars
  <2>2. TypeCams'
    <3>1. cams \in Seq(Cams) /\ block \in 1 .. MaxBlocks /\ MaxBlocks \in Nat
      BY RegistryAssumption DEF IndInv, Types, TypeCams
    <3>2. cams' \in Seq(Cams)  BY <1>1, <3>1 DEF AddCameras
    <3>3. block' \in 1 .. MaxBlocks  BY <3>1 DEF AddCameras
    <3> QED  BY <3>2, <3>3 DEF TypeCams, AddCameras
  <2>3. TypeStreams' /\ TypePipes' /\ TypeLinks'
    BY TypesFramed DEF IndInv, Types, AddCameras
  <2> QED  BY <2>1, <2>2, <2>3 DEF Types
<1>3. PipesOK' /\ LinksOK'  BY PartsFramed DEF IndInv, AddCameras, pipeVars
<1>4. LensCurrent'
  <2>1. CASE room > cap
    <3>1. ready' = Unlinked /\ UNCHANGED linkVars  BY <2>1 DEF AddCameras
    <3> QED  BY <1>2, <3>1, ConfiguringLens DEF IndInv, Types, TypePipes
  <2>2. CASE ~(room > cap)
    <3>1. UNCHANGED <<ready, pipelines, block, input, lens>> /\ cams' = cams \o new
      BY <2>2 DEF AddCameras, linkVars, pipeVars
    <3>2. cams \in Seq(Cams)  BY DEF IndInv, Types, TypeCams
    <3>3. DOMAIN cams \subseteq DOMAIN cams' /\ \A k \in DOMAIN cams : cams'[k] = cams[k]
      BY <1>1, <3>1, <3>2
    <3>4. ASSUME NEW o \in ToSet(pipelines), Linked(o) PROVE Linked(o)'
      BY <3>1, <3>3, <3>4 DEF Linked, Alive
    <3> QED  BY <3>1, <3>4 DEF IndInv, LensCurrent
  <2> QED  BY <2>1, <2>2
<1> QED  BY <1>2, <1>3, <1>4 DEF IndInv

\* setCameras
LEMMA SetCamerasStep ==
    ASSUME IndInv, NEW new \in Lists(Cams, {}, 2), block < MaxBlocks, SetCameras(new)
    PROVE  IndInv'
<1>1. new \in Seq(Cams)  BY ListsAreSequences
<1>2. Types'
  <2>1. TypeFlags'  BY DEF IndInv, Types, TypeFlags, SetCameras, Configuring, Unlinked, pipeVars
  <2>2. TypeCams'
    <3>1. block \in 1 .. MaxBlocks /\ MaxBlocks \in Nat
      BY RegistryAssumption DEF IndInv, Types, TypeCams
    <3>2. cams' \in Seq(Cams) /\ cap' \in Nat  BY <1>1 DEF SetCameras
    <3>3. block' \in 1 .. MaxBlocks  BY <3>1 DEF SetCameras
    <3> QED  BY <3>2, <3>3 DEF TypeCams
  <2>3. TypeStreams' /\ TypePipes' /\ TypeLinks'
    BY TypesFramed DEF IndInv, Types, SetCameras
  <2> QED  BY <2>1, <2>2, <2>3 DEF Types
<1>3. PipesOK' /\ LinksOK'  BY PartsFramed DEF IndInv, SetCameras, pipeVars
<1>4. LensCurrent'
  BY <1>2, ConfiguringLens DEF SetCameras, Configuring, IndInv, Types, TypePipes
<1> QED  BY <1>2, <1>3, <1>4 DEF IndInv

\* addStream, addStreams
LEMMA AddStreamsStep ==
    ASSUME IndInv, NEW new \in Seq(Names \cup 1 .. MaxStreams), AddStreams(new)
    PROVE  IndInv'
<1>1. streams \in Seq(Names \cup 1 .. MaxStreams)  BY DEF IndInv, Types, TypeStreams
<1>2. streams' = streams \o new  BY DEF AddStreams
<1>3. Types'
  <2>1. TypeFlags'  BY DEF IndInv, Types, TypeFlags, AddStreams, pipeVars
  <2>2. TypeStreams'  BY <1>1, <1>2 DEF TypeStreams
  <2>3. TypePipes' /\ TypeCams' /\ TypeLinks'
    BY TypesFramed DEF IndInv, Types, AddStreams
  <2> QED  BY <2>1, <2>2, <2>3 DEF Types
<1>4. PipesOK' /\ LinksOK' /\ LensCurrent'  BY PartsFramed DEF IndInv, AddStreams, pipeVars
<1> QED  BY <1>3, <1>4 DEF IndInv

\* Streams numbered by the length of the vector.
LEMMA NumberedStep ==
    ASSUME IndInv, NEW n \in 1 .. MaxStreams - Len(streams), AddStreams(Numbered(n))
    PROVE  IndInv'
<1>1. Len(streams) \in Nat /\ MaxStreams \in Nat /\ n \in Nat
  BY RegistryAssumption DEF IndInv, Types, TypeStreams
<1>2. Numbered(n) \in [1 .. n -> 1 .. MaxStreams]  BY <1>1 DEF Numbered
<1>3. Numbered(n) \in Seq(1 .. MaxStreams)  BY <1>1, <1>2
<1>4. Numbered(n) \in Seq(Names \cup 1 .. MaxStreams)  BY <1>3, WiderSequence
<1> QED  BY <1>4, AddStreamsStep

\* Streams with names the application chose.
LEMMA NamedStep ==
    ASSUME IndInv, NEW new \in SeqOf(Names \cup 1 .. MaxStreams, MaxStreams - Len(streams)),
           AddStreams(new)
    PROVE  IndInv'
<1>1. PICK m \in 0 .. MaxStreams - Len(streams) : new \in [1 .. m -> Names \cup 1 .. MaxStreams]
  BY DEF SeqOf
<1>2. m \in Nat  BY RegistryAssumption DEF IndInv, Types, TypeStreams
<1>3. new \in Seq(Names \cup 1 .. MaxStreams)  BY <1>1, <1>2
<1> QED  BY <1>3, AddStreamsStep

\* The start and the end of a session.
LEMMA SessionEdgeStep ==
    ASSUME IndInv, (\E kind \in {"multi", "single"} : Start(kind)) \/ Stop
    PROVE  IndInv'
<1>1. /\ UNCHANGED <<pipeVars, streams, camVars, linkVars, ready>>
      /\ session' \in {"off", "multi", "single"}
  BY DEF Start, Stop
<1>2. UNCHANGED <<pipelines, made, threw>>  BY <1>1 DEF pipeVars
<1>3. Types'
  <2>1. TypeFlags'  BY <1>1, <1>2 DEF IndInv, Types, TypeFlags
  <2> QED  BY <1>1, <2>1, TypesFramed DEF IndInv, Types
<1>4. PipesOK' /\ LinksOK' /\ LensCurrent'  BY <1>1, <1>2, PartsFramed DEF IndInv
<1> QED  BY <1>3, <1>4 DEF IndInv

\* A registered camera is an admissible end of both links.
LEMMA CameraLink ==
    ASSUME IndInv, NEW k \in 1 .. Len(cams)
    PROVE  /\ Lens(k) \in Nat \X Nat /\ Lens(k) # DefaultLens /\ Alive(Lens(k))
           /\ Lens(k)[2] = k /\ cams[k] \in Cams
<1>1. cams \in Seq(Cams) /\ block \in Nat /\ block # 0
  BY RegistryAssumption DEF IndInv, Types, TypeCams
<1>2. k \in Nat /\ k \in DOMAIN cams  BY <1>1
<1>3. cams[k] \in Cams  BY <1>1, <1>2, ElementOf
<1> QED  BY <1>1, <1>2, <1>3 DEF Lens, DefaultLens, Alive

\* Pipelines are objects.
LEMMA RegisteredAreObjects == IndInv => ToSet(pipelines) \subseteq Objects
<1> SUFFICES ASSUME IndInv, NEW k \in DOMAIN pipelines PROVE pipelines[k] \in Objects
  BY DEF ToSet
<1>1. pipelines \in Seq(Objects)  BY DEF IndInv, Types, TypePipes
<1> QED  BY <1>1, ElementOf

\* Objects that have not been made are not among them.
LEMMA RegisteredAreMade ==
    ASSUME IndInv, NEW p \in ToSet(pipelines), p \in Nat PROVE ~(p > made)
<1>1. p \in Own \/ p \in ToSet(heap)  BY DEF IndInv, PipesOK, NoDangling
<1>2. p \in ToSet(heap)  BY <1>1, OwnersDiffer
<1>3. made \in Nat /\ p <= made  BY <1>2, HeapNumbers, RegistryAssumption DEF IndInv, Types, TypePipes
<1> QED  BY <1>3

\* What a step that changes links only has to show.
LEMMA LinksStep ==
    ASSUME IndInv, UNCHANGED <<session, pipeVars, streams, camVars>>, ready' \in BOOLEAN,
           TypeLinks', LinksOK', LensCurrent'
    PROVE  IndInv'
<1>1. TypeFlags'  BY DEF IndInv, Types, TypeFlags, pipeVars
<1>2. Types'  BY <1>1, TypesFramed DEF IndInv, Types
<1>3. PipesOK'  BY PartsFramed DEF IndInv
<1> QED  BY <1>2, <1>3 DEF IndInv

\* BasePipe::setCamera
LEMMA SetCameraStep ==
    ASSUME IndInv, NEW p \in ToSet(pipelines), NEW k \in 1 .. Len(cams), SetCamera(p, k)
    PROVE  IndInv'
<1>1. UNCHANGED <<pipelines, made, cams, block, ready>> /\ ready \in BOOLEAN
  BY DEF SetCamera, pipeVars, camVars, IndInv, Types, TypeFlags
<1>2. input' = [input EXCEPT ![p] = cams[k]] /\ lens' = [lens EXCEPT ![p] = Lens(k)]
  BY DEF SetCamera
<1>3. /\ Lens(k) \in Nat \X Nat /\ Lens(k) # DefaultLens /\ Alive(Lens(k))
      /\ Lens(k)[2] = k /\ cams[k] \in Cams
  BY CameraLink
<1>4. TypeLinks /\ p \in Objects /\ ToSet(pipelines) \subseteq Objects
  BY RegisteredAreObjects DEF IndInv, Types
<1>5. TypeLinks'  BY <1>2, <1>3, <1>4 DEF TypeLinks
<1>6. LensCurrent'
  <2> SUFFICES ASSUME ready, NEW o \in ToSet(pipelines) PROVE Linked(o)'
    BY <1>1 DEF LensCurrent
  <2>1. Linked(o)  BY DEF IndInv, LensCurrent
  <2>2. CASE o = p
    <3>1. input'[o] = cams[k] /\ lens'[o] = Lens(k)  BY <1>2, <1>4, <2>2 DEF TypeLinks
    <3>2. Alive(Lens(k))'  BY <1>1, <1>3 DEF Alive, Lens
    <3>3. Alive(lens[o])'  BY <1>1, <3>1, <3>2 DEF Alive, Lens
    <3> QED  BY <1>1, <1>3, <3>1, <3>3 DEF Linked
  <2>3. CASE o # p
    <3>1. input'[o] = input[o] /\ lens'[o] = lens[o]  BY <1>2, <1>4, <2>3 DEF TypeLinks
    <3> QED  BY <1>1, <2>1, <3>1 DEF Linked, Alive
  <2> QED  BY <2>2, <2>3
<1>7. LinksOK'
  <2>1. LinksOK  BY DEF IndInv
  <2>2. \A o \in Objects \ {p} : input'[o] = input[o] /\ lens'[o] = lens[o]
    BY <1>2, <1>4 DEF TypeLinks
  <2>3. lens'[p] # DefaultLens  BY <1>2, <1>3, <1>4 DEF TypeLinks
  <2>4. p \in Nat => ~(p > made)  BY RegisteredAreMade
  <2> QED  BY <1>1, <2>1, <2>2, <2>3, <2>4 DEF LinksOK, InputLinked, FreshUnlinked
<1>8. UNCHANGED <<session, pipeVars, streams, camVars>>  BY DEF SetCamera
<1> QED  BY <1>1, <1>5, <1>6, <1>7, <1>8, LinksStep

\* runSingle behind the end: nothing is claimed of the matrix any more.
LEMMA SetCameraBehindStep ==
    ASSUME IndInv, NEW p \in ToSet(pipelines), SetCameraBehind(p)
    PROVE  IndInv'
<1>1. PICK x \in Cams \cup {None} : input' = [input EXCEPT ![p] = x]  BY DEF SetCameraBehind
<1>2. /\ lens' = [lens EXCEPT ![p] = Lens(Len(cams) + 1)] /\ ready' = FALSE
      /\ UNCHANGED <<session, pipeVars, streams, camVars>>
  BY DEF SetCameraBehind
<1>3. TypeLinks /\ p \in Objects  BY RegisteredAreObjects DEF IndInv, Types
<1>4. Lens(Len(cams) + 1) \in Nat \X Nat /\ Lens(Len(cams) + 1) # DefaultLens
  <2>1. Len(cams) \in Nat /\ block \in Nat /\ block # 0
    BY RegistryAssumption DEF IndInv, Types, TypeCams
  <2> QED  BY <2>1 DEF Lens, DefaultLens
<1>5. TypeLinks'  BY <1>1, <1>2, <1>3, <1>4 DEF TypeLinks
<1>6. LinksOK'
  <2>1. LinksOK /\ made' = made  BY <1>2 DEF IndInv, pipeVars
  <2>2. \A o \in Objects \ {p} : input'[o] = input[o] /\ lens'[o] = lens[o]
    BY <1>1, <1>2, <1>3 DEF TypeLinks
  <2>3. lens'[p] # DefaultLens  BY <1>2, <1>3, <1>4 DEF TypeLinks
  <2>4. p \in Nat => ~(p > made)  BY RegisteredAreMade
  <2> QED  BY <2>1, <2>2, <2>3, <2>4 DEF LinksOK, InputLinked, FreshUnlinked
<1>7. LensCurrent'  BY <1>2 DEF LensCurrent
<1> QED  BY <1>2, <1>5, <1>6, <1>7, LinksStep

\* BasePipe::setPipeline: the matrix of the pipeline whose output is taken.
LEMMA SetPipelineStep ==
    ASSUME IndInv, NEW p \in ToSet(pipelines), NEW q \in ToSet(pipelines), SetPipeline(p, q)
    PROVE  IndInv'
<1>1. UNCHANGED <<pipelines, made, cams, block, ready>> /\ ready \in BOOLEAN
  BY DEF SetPipeline, pipeVars, camVars, IndInv, Types, TypeFlags
<1>2. input' = [input EXCEPT ![p] = q] /\ lens' = [lens EXCEPT ![p] = lens[q]]
  BY DEF SetPipeline
<1>3. TypeLinks /\ ToSet(pipelines) \subseteq Objects
  BY RegisteredAreObjects DEF IndInv, Types
<1>4. TypeLinks'
  <2>1. lens[q] \in Nat \X Nat  BY <1>3 DEF TypeLinks
  <2> QED  BY <1>2, <1>3, <2>1 DEF TypeLinks
<1>5. LensCurrent'
  <2> SUFFICES ASSUME ready, NEW o \in ToSet(pipelines) PROVE Linked(o)'
    BY <1>1 DEF LensCurrent
  <2>1. Linked(o) /\ Linked(q)  BY DEF IndInv, LensCurrent
  <2>2. CASE o = p
    <3>1. input'[o] = q /\ lens'[o] = lens[q]  BY <1>2, <1>3, <2>2 DEF TypeLinks
    <3>2. q \notin Cams  BY <1>3, RegistryAssumption DEF Objects
    <3>3. Alive(lens[o])'  BY <1>1, <2>1, <3>1 DEF Linked, Alive
    <3> QED  BY <3>1, <3>2, <3>3 DEF Linked
  <2>3. CASE o # p
    <3>1. input'[o] = input[o] /\ lens'[o] = lens[o]  BY <1>2, <1>3, <2>3 DEF TypeLinks
    <3> QED  BY <1>1, <2>1, <3>1 DEF Linked, Alive
  <2> QED  BY <2>2, <2>3
<1>6. LinksOK'
  <2>1. LinksOK  BY DEF IndInv
  <2>2. \A o \in Objects \ {p} : input'[o] = input[o] /\ lens'[o] = lens[o]
    BY <1>2, <1>3 DEF TypeLinks
  <2>3. input'[p] \notin Cams
    <3>1. input'[p] = q /\ q \in Objects  BY <1>2, <1>3 DEF TypeLinks
    <3> QED  BY <3>1, RegistryAssumption DEF Objects
  <2>4. p \in Nat => ~(p > made)  BY RegisteredAreMade
  <2> QED  BY <1>1, <2>1, <2>2, <2>3, <2>4 DEF LinksOK, InputLinked, FreshUnlinked
<1>7. UNCHANGED <<session, pipeVars, streams, camVars>>  BY DEF SetPipeline
<1> QED  BY <1>1, <1>4, <1>5, <1>6, <1>7, LinksStep

\* compensate() leads every registered pipeline to the same camera.
LEMMA CompensateStep ==
    ASSUME IndInv, NEW k \in 1 .. Len(cams), Compensate(k)
    PROVE  IndInv'
<1>1. UNCHANGED <<pipelines, made, cams, block>> /\ ready'
  BY DEF Compensate, pipeVars, camVars
<1>2. /\ input' = [o \in Objects |-> IF o \in ToSet(pipelines) THEN cams[k] ELSE input[o]]
      /\ lens' = [o \in Objects |-> IF o \in ToSet(pipelines) THEN Lens(k) ELSE lens[o]]
  BY DEF Compensate, Compensated
<1>3. /\ Lens(k) \in Nat \X Nat /\ Lens(k) # DefaultLens /\ Alive(Lens(k))
      /\ Lens(k)[2] = k /\ cams[k] \in Cams
  BY CameraLink
<1>4. TypeLinks /\ ToSet(pipelines) \subseteq Objects
  BY RegisteredAreObjects DEF IndInv, Types
<1>5. TypeLinks'  BY <1>2, <1>3, <1>4 DEF TypeLinks
<1>6. LensCurrent'
  <2> SUFFICES ASSUME NEW o \in ToSet(pipelines) PROVE Linked(o)'
    BY <1>1 DEF LensCurrent
  <2>1. input'[o] = cams[k] /\ lens'[o] = Lens(k)  BY <1>2, <1>4
  <2>2. Alive(lens[o])'  BY <1>1, <1>3, <2>1 DEF Alive, Lens
  <2> QED  BY <1>1, <1>3, <2>1, <2>2 DEF Linked
<1>7. LinksOK'
  <2>1. LinksOK  BY DEF IndInv
  <2>2. \A o \in Objects \ ToSet(pipelines) : input'[o] = input[o] /\ lens'[o] = lens[o]
    BY <1>2, <1>4 DEF TypeLinks
  <2>3. \A o \in ToSet(pipelines) : lens'[o] # DefaultLens  BY <1>2, <1>3, <1>4
  <2>4. \A o \in ToSet(pipelines) : o \in Nat => ~(o > made)  BY RegisteredAreMade
  <2> QED  BY <1>1, <2>1, <2>2, <2>3, <2>4 DEF LinksOK, InputLinked, FreshUnlinked
<1>8. UNCHANGED <<session, pipeVars, streams, camVars>> /\ ready' \in BOOLEAN  BY DEF Compensate
<1> QED  BY <1>5, <1>6, <1>7, <1>8, LinksStep

-----------------------------------------------------------------------------
(* The theorems.                                                           *)

\* Every step keeps the invariant.
LEMMA NextKeeps == ASSUME IndInv, [Next]_vars PROVE IndInv'
<1>1. CASE ConfigurePipelines
  <2>1. CASE \E new \in Lists(Own, ToSet(pipelines), MaxPipes - Len(pipelines)) : AddPipelines(new)
    BY <2>1, AddPipelinesStep
  <2>2. CASE \E new \in Lists(Own, {}, MaxPipes) : SetPipelines(new)
    BY <2>2, SetPipelinesStep
  <2>3. CASE Len(pipelines) < MaxPipes /\ made < MaxHeap /\ NewPipeline
    BY <2>3, NewPipelineStep
  <2>4. CASE \E n \in 1 .. 2 : made + n <= MaxHeap /\ NewPipelines(n)
    BY <2>4, NewPipelinesStep
  <2>5. CASE \E n \in 1 .. 2 : made + n <= MaxHeap /\ ReplacePipelines(n)
    BY <2>5, ReplacePipelinesStep
  <2> QED  BY <1>1, <2>1, <2>2, <2>3, <2>4, <2>5 DEF ConfigurePipelines
<1>2. CASE ConfigureCameras
  BY <1>2, AddCamerasStep, SetCamerasStep DEF ConfigureCameras
<1>3. CASE ConfigureStreams
  BY <1>3, NumberedStep, NamedStep DEF ConfigureStreams
<1>4. CASE Session
  <2>1. CASE (\E kind \in {"multi", "single"} : Start(kind)) \/ Stop  BY <2>1, SessionEdgeStep
  <2>2. CASE \E p \in ToSet(pipelines), k \in 1 .. Len(cams) : SetCamera(p, k)  BY <2>2, SetCameraStep
  <2>3. CASE \E p, q \in ToSet(pipelines) : SetPipeline(p, q)  BY <2>3, SetPipelineStep
  <2>4. CASE \E p \in ToSet(pipelines) : SetCameraBehind(p)  BY <2>4, SetCameraBehindStep
  <2>5. 2 .. Len(cams) \subseteq 1 .. Len(cams)  BY DEF IndInv, Types, TypeCams
  <2> QED  BY <1>4, <2>1, <2>2, <2>3, <2>4, <2>5 DEF Session
<1>5. CASE \E k \in 1 .. Len(cams) : Compensate(k)
  BY <1>5, CompensateStep
<1>6. CASE UNCHANGED vars
  <2>1. UNCHANGED <<session, pipeVars, streams, camVars, linkVars, ready>>  BY <1>6 DEF vars
  <2>2. TypeFlags'  BY <2>1 DEF IndInv, Types, TypeFlags, pipeVars
  <2>3. Types'  BY <2>1, <2>2, TypesFramed DEF IndInv, Types
  <2>4. PipesOK' /\ LinksOK' /\ LensCurrent'  BY <2>1, PartsFramed DEF IndInv, pipeVars
  <2> QED  BY <2>3, <2>4 DEF IndInv
<1> QED  BY <1>1, <1>2, <1>3, <1>4, <1>5, <1>6 DEF Next

\* The inductive invariant of the registry.
THEOREM IndInvariance == Spec => []IndInv
<1>1. IndInv /\ [Next]_vars => IndInv'  BY NextKeeps
<1> QED  BY InitEstablishes, <1>1, PTL DEF Spec

\* Every variable of the registry keeps its type.
THEOREM TypeCorrect == Spec => []TypeOK
<1>1. IndInv => TypeOK  BY TypeParts DEF IndInv
<1> QED  BY IndInvariance, <1>1, PTL

\* setPipelines destroys the objects of the server together with the pointers to
\* them, and not even the exception of addPipelines<...>() leaves a pointer behind.
THEOREM RegisteredAlive == Spec => []NoDangling
<1>1. IndInv => NoDangling  BY DEF IndInv, PipesOK
<1> QED  BY IndInvariance, <1>1, PTL

\* Unless addPipelines<...>() threw, an object of the server is registered once.
THEOREM OwnedRegisteredOnce == Spec => []OwnedOnce
<1>1. IndInv => OwnedOnce  BY DEF IndInv, PipesOK
<1> QED  BY IndInvariance, <1>1, PTL

\* In every session, of run() and of runSingle(), the matrices of registered
\* pipelines exist until a change of the registry that compensate() did not follow,
\* or a selection behind the end.
THEOREM MatricesAlive == Spec => []LensAlive
<1>1. IndInv => LensAlive  BY DEF IndInv, LensCurrent, Linked, LensAlive
<1> QED  BY IndInvariance, <1>1, PTL

\* And a pipeline connected to a camera reads the matrix of this camera.
THEOREM MatricesMatch == Spec => []LensMatches
<1>1. IndInv => LensMatches  BY DEF IndInv, LensCurrent, Linked, LensMatches
<1> QED  BY IndInvariance, <1>1, PTL
=============================================================================
