----------------------------- MODULE ConfigProofs -----------------------------
(***************************************************************************)
(* For any set of files, calibrations and any CalibList: a loader that     *)
(* fails has added no camera, one that succeeds has added one per entry,   *)
(* a client that runs knows its server, and a calibration of the list is   *)
(* the one for the camera it was given to.                                 *)
(***************************************************************************)
EXTENDS Config, TLAPS, WellFoundedInduction

-----------------------------------------------------------------------------
(* Searching a sequence.                                                   *)

\* A set of natural numbers has a smallest element.
LEMMA MinIn == ASSUME NEW T, T \subseteq Nat, T # {} PROVE Min(T) \in T
<1>1. PICK x \in T : \A y \in T : <<y, x>> \notin OpToRel(<, Nat)
  BY WFMin, NatLessThanWellFounded
<1>2. \A y \in T : x <= y
  <2> SUFFICES ASSUME NEW y \in T, y < x PROVE FALSE
    OBVIOUS
  <2>1. <<y, x>> \in Nat \X Nat  OBVIOUS
  <2>2. <<y, x>> \in OpToRel(<, Nat)  BY <2>1 DEF OpToRel
  <2> QED  BY <1>1, <2>2
<1> QED  BY <1>2 DEF Min

\* findSet: a set of this type, or 0 when there is none.
LEMMA FindSetFinds ==
    ASSUME NEW type
    PROVE  \/ FindSet(type) = 0 /\ \A i \in DOMAIN List : List[i][1] # type
           \/ FindSet(type) \in DOMAIN List /\ List[FindSet(type)][1] = type
<1> DEFINE I == {i \in 1 .. Len(List) : List[i][1] = type}
<1>1. FindSet(type) = IF I # {} THEN Min(I) ELSE 0
  BY DEF FindSet, SelectInSeq
<1>2. List \in Seq(ToSet(List))  BY ConfigAssumption
<1>3. DOMAIN List = 1 .. Len(List)  BY <1>2
<1>4. I \subseteq Nat  OBVIOUS
<1>5. I # {} => Min(I) \in I  BY <1>4, MinIn
<1> QED  BY <1>1, <1>3, <1>5

\* The first calibration of a set for this size, or 0.
LEMMA FindSizeFinds ==
    ASSUME NEW s \in DOMAIN List, NEW size
    PROVE  LET calibs == List[s][2]
               k == SelectInSeq(calibs, LAMBDA c : c[1] = size)
           IN  \/ k = 0 /\ \A j \in DOMAIN calibs : calibs[j][1] # size
               \/ k \in DOMAIN calibs /\ calibs[k][1] = size
<1> DEFINE calibs == List[s][2]
           J == {j \in 1 .. Len(calibs) : calibs[j][1] = size}
<1>1. SelectInSeq(calibs, LAMBDA c : c[1] = size) = IF J # {} THEN Min(J) ELSE 0
  BY DEF SelectInSeq
<1>2. calibs \in Seq(Sizes \X Buffers)  BY ConfigAssumption
<1>3. DOMAIN calibs = 1 .. Len(calibs)  BY <1>2
<1>4. J \subseteq Nat  OBVIOUS
<1>5. J # {} => Min(J) \in J  BY <1>4, MinIn
<1> HIDE DEF calibs
<1>6. \/ SelectInSeq(calibs, LAMBDA c : c[1] = size) = 0 /\ \A j \in DOMAIN calibs : calibs[j][1] # size
      \/ /\ SelectInSeq(calibs, LAMBDA c : c[1] = size) \in DOMAIN calibs
         /\ calibs[SelectInSeq(calibs, LAMBDA c : c[1] = size)][1] = size
  BY <1>1, <1>3, <1>5, Zenon
<1> QED  BY <1>6 DEF calibs

\* A list a reader cannot misunderstand: one set per type, and no set or
\* calibration for a type or size that is not known.
ProperList ==
    /\ \A i, j \in DOMAIN List : List[i][1] = List[j][1] => i = j
    /\ \A i \in DOMAIN List :
          List[i][1] # Absent /\ \A j \in DOMAIN List[i][2] : List[i][2][j][1] # Absent

\* findCalib returns a calibration for this type and size, or the default; with
\* one set per type the default only if there is no other.
LEMMA FindCalibFits ==
    ASSUME NEW type, NEW size
    PROVE  LET r == FindCalib(type, size) IN
           /\ r \in Buffers \cup {Default}
           /\ r = Default \/ InList(type, size, r)
           /\ ProperList /\ (\E b \in Buffers : InList(type, size, b)) => InList(type, size, r)
<1> DEFINE s == FindSet(type)
           k == SelectInSeq(List[s][2], LAMBDA c : c[1] = size)
           r == FindCalib(type, size)
<1>1. r = IF s = 0 THEN Default ELSE IF k = 0 THEN Default ELSE List[s][2][k][2]
  BY Zenon DEF FindCalib
<1>2. \/ s = 0 /\ \A i \in DOMAIN List : List[i][1] # type
      \/ s \in DOMAIN List /\ List[s][1] = type
  BY FindSetFinds
<1> HIDE DEF s
<1>3. ASSUME s \in DOMAIN List
      PROVE  \/ k = 0 /\ \A j \in DOMAIN List[s][2] : List[s][2][j][1] # size
             \/ k \in DOMAIN List[s][2] /\ List[s][2][k][1] = size
  BY <1>3, FindSizeFinds
<1> HIDE DEF k, r
<1>4. DOMAIN List \subseteq Nat \ {0}
  <2>1. List \in Seq(ToSet(List))  BY ConfigAssumption
  <2> QED  BY <2>1
<1>5. CASE s = 0
  <2>1. r = Default  BY <1>1, <1>5
  <2>2. \A b : ~InList(type, size, b)  BY <1>2, <1>4, <1>5 DEF InList
  <2> QED  BY <2>1, <2>2 DEF r
<1>6. CASE s \in DOMAIN List /\ k = 0 /\ \A j \in DOMAIN List[s][2] : List[s][2][j][1] # size
  <2>1. r = Default  BY <1>1, <1>6, <1>4
  <2>2. ProperList => \A b : ~InList(type, size, b)
    <3> SUFFICES ASSUME ProperList, NEW b, NEW i \in DOMAIN List, List[i][1] = type,
                        NEW j \in DOMAIN List[i][2], List[i][2][j] = <<size, b>>
                 PROVE  FALSE
      BY DEF InList, ToSet
    <3>1. i = s  BY <1>2, <1>4, <1>6 DEF ProperList
    <3>2. List[s][2][j][1] = size  BY <3>1
    <3> QED  BY <1>6, <3>1, <3>2
  <2> QED  BY <2>1, <2>2 DEF r
<1>7. CASE s \in DOMAIN List /\ k \in DOMAIN List[s][2] /\ List[s][2][k][1] = size
  <2>1. List[s][2] \in Seq(Sizes \X Buffers)  BY <1>7, ConfigAssumption
  <2>2. List[s][2][k] \in Sizes \X Buffers /\ k # 0  BY <1>7, <2>1
  <2>3. r = List[s][2][k][2]  BY <1>1, <1>4, <1>7, <2>2
  <2>4. r \in Buffers /\ List[s][2][k] = <<size, r>>  BY <1>7, <2>2, <2>3
  <2>5. <<size, r>> \in ToSet(List[s][2])  BY <1>7, <2>4 DEF ToSet
  <2>6. List[s][1] = type  BY <1>2, <1>4, <1>7
  <2>7. InList(type, size, r)  BY <1>7, <2>5, <2>6 DEF InList
  <2> QED  BY <2>4, <2>7 DEF r
<1> QED  BY <1>2, <1>3, <1>5, <1>6, <1>7

-----------------------------------------------------------------------------
(* The invariant.                                                          *)

CameraType ==
    [entry : CameraEntries, matrix : Buffers \cup {Default}, distort : Buffers \cup {Default},
     json : JsonCalibs \cup {Absent}, known : BOOLEAN, by : Loaders]

TypeCall ==
    /\ file \in Files
    /\ call \in [fn : Loaders \cup {"none"}, at : {"load", "ntmode", "cameras", "returned"},
                 i : Nat, ret : BOOLEAN]
    /\ call.at # "returned" => call.fn \in Loaders
TypeCams == cams \in Seq(CameraType) /\ before \in Seq(CameraType)
TypeNt ==
    /\ nt \in [client : BOOLEAN, server : BOOLEAN, team : BOOLEAN, ds : BOOLEAN, host : BOOLEAN]
    /\ failed \in BOOLEAN
TypeShared ==
    shared \in [matrix : [1 .. 2 -> JsonCalibs \cup {Zero}], distort : JsonCalibs \cup {Zero}]

\* The first n entries of the file have their cameras.
Appended(n) ==
    /\ Len(cams) = Len(before) + n
    /\ \A k \in DOMAIN before : cams[k] = before[k]
    /\ \A k \in 1 .. n : cams[Len(before) + k].entry = file.cameras[k]

\* How far a function is.
Progress ==
    /\ call.at \in {"load", "ntmode"} => cams = before /\ call.i = 1
    /\ call.at = "cameras" => call.i \in 1 .. Len(file.cameras) + 1 /\ Appended(call.i - 1)
    /\ call.at = "returned" /\ ~call.ret => cams = before
    /\ call.at = "returned" /\ call.ret /\ call.fn \notin {"none", "initNT"} =>
          Appended(Len(file.cameras))

IndInv == TypeCall /\ TypeCams /\ TypeNt /\ TypeShared /\ Progress /\ ClientHasServer

\* The invariant covers the type invariant.
LEMMA IndInvTypes == IndInv => TypeOK
<1> SUFFICES ASSUME IndInv PROVE TypeOK
  OBVIOUS
<1>1. \A k \in DOMAIN cams : {cams[k].matrix, cams[k].distort} \subseteq Buffers \cup {Default}
  <2>1. cams \in Seq(CameraType)  BY DEF IndInv, TypeCams
  <2>2. \A k \in DOMAIN cams : cams[k] \in CameraType  BY <2>1
  <2> QED  BY <2>2 DEF CameraType
<1>2. call.at \in {"load", "ntmode", "cameras", "returned"} /\ call.ret \in BOOLEAN
  BY DEF IndInv, TypeCall
<1>3. shared.matrix \in [1 .. 2 -> JsonCalibs \cup {Zero}] /\ shared.distort \in JsonCalibs \cup {Zero}
  BY DEF IndInv, TypeShared
<1> QED  BY <1>1, <1>2, <1>3 DEF TypeOK, IndInv, TypeCall, TypeNt

\* Nothing has been called.
LEMMA InitEstablishes == Init => IndInv
<1> SUFFICES ASSUME Init PROVE IndInv
  OBVIOUS
<1>1. TypeCall  BY DEF Init, TypeCall
<1>2. TypeCams  BY DEF Init, TypeCams
<1>3. TypeNt  BY DEF Init, TypeNt
<1>4. TypeShared
  <2>1. <<Zero, Zero>> \in [1 .. 2 -> JsonCalibs \cup {Zero}]  OBVIOUS
  <2> QED  BY <2>1 DEF Init, TypeShared
<1>5. Progress  BY DEF Init, Progress
<1>6. ClientHasServer  BY DEF Init, ClientHasServer
<1> QED  BY <1>1, <1>2, <1>3, <1>4, <1>5, <1>6 DEF IndInv

\* An application that calls a function, or sets up the network for a simulation.
LEMMA ApplicationStep == ASSUME IndInv, Application PROVE IndInv'
<1>1. ASSUME NEW fn \in Loaders, NEW f \in Files, Call(fn, f) PROVE IndInv'
  <2>1. TypeCall'  BY <1>1 DEF Call, TypeCall
  <2>2. TypeCams'  BY <1>1 DEF Call, IndInv, TypeCams
  <2>3. TypeNt'  BY <1>1 DEF Call, IndInv, TypeNt
  <2>4. TypeShared'  BY <1>1 DEF Call, IndInv, TypeShared
  <2>5. Progress'  BY <1>1 DEF Call, Progress
  <2>6. ClientHasServer'  BY <1>1 DEF Call, IndInv, ClientHasServer
  <2> QED  BY <2>1, <2>2, <2>3, <2>4, <2>5, <2>6 DEF IndInv
<1>2. CASE InitSimNT
  <2>1. TypeCall'  BY <1>2 DEF InitSimNT, IndInv, TypeCall
  <2>2. TypeCams'  BY <1>2 DEF InitSimNT, IndInv, TypeCams
  <2>3. TypeNt'  BY <1>2 DEF InitSimNT, IndInv, TypeNt
  <2>4. TypeShared'  BY <1>2 DEF InitSimNT, IndInv, TypeShared
  <2>5. Progress'  BY <1>2 DEF InitSimNT, IndInv, Progress, Appended
  <2>6. ClientHasServer'
    <3>1. nt'.host  BY <1>2 DEF InitSimNT, IndInv, TypeNt
    <3> QED  BY <3>1 DEF ClientHasServer
  <2> QED  BY <2>1, <2>2, <2>3, <2>4, <2>5, <2>6 DEF IndInv
<1> QED  BY <1>1, <1>2 DEF Application

\* loadJson
LEMMA LoadStep == ASSUME IndInv, LoadFails \/ Loaded PROVE IndInv'
<1>1. UNCHANGED <<file, before, nt, cams, shared>> /\ call.at = "load"  BY DEF LoadFails, Loaded
<1>2. TypeCall'  BY DEF LoadFails, Loaded, Returned, IndInv, TypeCall
<1>3. TypeCams'  BY <1>1 DEF IndInv, TypeCams
<1>4. TypeNt' /\ ClientHasServer'
  <2>1. failed' \in BOOLEAN /\ (failed => failed')  BY DEF LoadFails, Loaded, IndInv, TypeNt
  <2> QED  BY <1>1, <2>1 DEF IndInv, TypeNt, ClientHasServer
<1>5. TypeShared'  BY <1>1 DEF IndInv, TypeShared
<1>6. cams = before /\ call.i = 1  BY <1>1 DEF IndInv, Progress
<1>7. Progress'
  <2>1. CASE LoadFails
    <3>1. call'.at = "returned" /\ ~call'.ret  BY <2>1 DEF LoadFails, Returned, IndInv, TypeCall
    <3> QED  BY <1>1, <1>6, <3>1 DEF Progress
  <2>2. CASE Loaded
    <3>1. call'.at \in {"ntmode", "cameras"} /\ call'.i = 1
      BY <1>6, <2>2 DEF Loaded, IndInv, TypeCall
    <3>2. file.cameras \in Seq(CameraEntries)  BY ConfigAssumption DEF IndInv, TypeCall
    <3>3. cams \in Seq(CameraType)  BY DEF IndInv, TypeCams
    <3>4. Appended(0)'  BY <1>1, <1>6, <3>3 DEF Appended
    <3>5. 1 \in 1 .. Len(file.cameras) + 1 /\ 1 - 1 = 0  BY <3>2
    <3> QED  BY <1>1, <1>6, <3>1, <3>4, <3>5 DEF Progress
  <2> QED  BY <2>1, <2>2
<1> QED  BY <1>2, <1>3, <1>4, <1>5, <1>7 DEF IndInv

NtType == [client : BOOLEAN, server : BOOLEAN, team : BOOLEAN, ds : BOOLEAN, host : BOOLEAN]

\* "ntmode" has been handled: initNT returns, readConfig goes on to the cameras.
LEMMA SetUpStep ==
    ASSUME IndInv, NEW asked \in NtType, call.at = "ntmode", SetUp(asked),
           asked.client => asked.host \/ (asked.team /\ asked.ds) \/ failed
    PROVE  IndInv'
<1>1. UNCHANGED <<file, before, failed, cams, shared>> /\ nt' = asked /\ call' = NtDone  BY DEF SetUp
<1>2. TypeCall'  BY <1>1 DEF NtDone, Returned, IndInv, TypeCall
<1>3. TypeCams'  BY <1>1 DEF IndInv, TypeCams
<1>4. TypeNt' /\ ClientHasServer'  BY <1>1 DEF IndInv, TypeNt, NtType, ClientHasServer
<1>5. TypeShared'  BY <1>1 DEF IndInv, TypeShared
<1>6. cams = before /\ call.i = 1  BY DEF IndInv, Progress
<1>7. Progress'
  <2>1. \/ call'.at = "returned" /\ call'.fn = "initNT" /\ call'.ret
        \/ call'.at = "cameras" /\ call'.i = 1
    BY <1>1, <1>6 DEF NtDone, Returned, IndInv, TypeCall
  <2>2. file.cameras \in Seq(CameraEntries)  BY ConfigAssumption DEF IndInv, TypeCall
  <2>3. cams \in Seq(CameraType)  BY DEF IndInv, TypeCams
  <2>4. Appended(0)'  BY <1>1, <1>6, <2>3 DEF Appended
  <2>5. 1 \in 1 .. Len(file.cameras) + 1 /\ 1 - 1 = 0  BY <2>2
  <2> QED  BY <1>1, <1>6, <2>1, <2>4, <2>5 DEF Progress
<1> QED  BY <1>2, <1>3, <1>4, <1>5, <1>7 DEF IndInv

\* The handling of "ntmode" itself.
LEMMA NtModeStep ==
    ASSUME IndInv, NtNothing \/ NtServer \/ NtHost \/ NtClient
    PROVE  IndInv'
<1>1. nt \in NtType /\ failed \in BOOLEAN /\ ClientHasServer  BY DEF IndInv, TypeNt, NtType
<1>2. CASE NtNothing
  BY <1>1, <1>2, SetUpStep DEF NtNothing, AtNtMode, ClientHasServer
<1>3. CASE NtServer
  <2> DEFINE asked == [nt EXCEPT !.server = TRUE]
  <2>1. asked \in NtType /\ (asked.client => asked.host \/ (asked.team /\ asked.ds) \/ failed)
    BY <1>1 DEF NtType, ClientHasServer
  <2> QED  BY <1>3, <2>1, SetUpStep DEF NtServer, AtNtMode
<1>4. CASE NtHost
  <2> DEFINE asked == [nt EXCEPT !.client = TRUE, !.host = TRUE]
  <2>1. asked \in NtType /\ asked.host  BY <1>1 DEF NtType
  <2> QED  BY <1>4, <2>1, SetUpStep DEF NtHost, AtNtMode
<1>5. CASE NtClient
  <2> DEFINE asked == [nt EXCEPT !.client = TRUE, !.team = TRUE, !.ds = TRUE]
  <2>1. asked \in NtType /\ asked.team /\ asked.ds  BY <1>1 DEF NtType
  <2> QED  BY <1>5, <2>1, SetUpStep DEF NtClient, AtNtMode
<1> QED  BY <1>2, <1>3, <1>4, <1>5

\* A client without a team number: the error is reported.
LEMMA NtNoTeamStep == ASSUME IndInv, NtNoTeam PROVE IndInv'
<1>1. UNCHANGED <<file, before, cams, shared>> /\ call.at = "ntmode" /\ failed'
      /\ call' = Returned(FALSE) /\ nt' = [nt EXCEPT !.client = TRUE]
  BY DEF NtNoTeam, AtNtMode
<1>2. TypeCall'  BY <1>1 DEF Returned, IndInv, TypeCall
<1>3. TypeCams'  BY <1>1 DEF IndInv, TypeCams
<1>4. TypeNt'  BY DEF NtNoTeam, IndInv, TypeNt
<1>5. ClientHasServer'  BY <1>1 DEF ClientHasServer
<1>6. TypeShared'  BY <1>1 DEF IndInv, TypeShared
<1>7. Progress'
  <2>1. call'.at = "returned" /\ ~call'.ret  BY <1>1 DEF Returned, IndInv, TypeCall
  <2>2. cams = before  BY <1>1 DEF IndInv, Progress
  <2> QED  BY <1>1, <2>1, <2>2 DEF Progress
<1> QED  BY <1>2, <1>3, <1>4, <1>5, <1>6, <1>7 DEF IndInv

\* What CreateCamera appends: a camera for the entry the loop is at.
LEMMA CameraOfEntry ==
    ASSUME IndInv, NEW known \in BOOLEAN, CreateCamera(known)
    PROVE  \E c \in CameraType :
              cams' = Append(cams, c) /\ c.entry = file.cameras[call.i] /\ TypeShared'
<1> DEFINE e == file.cameras[call.i]
<1>1. call.fn \in Loaders /\ e \in CameraEntries
  <2>1. file.cameras \in Seq(CameraEntries)  BY ConfigAssumption DEF IndInv, TypeCall
  <2>2. call.at = "cameras" /\ call.i <= Len(file.cameras)  BY DEF CreateCamera
  <2>3. call.i \in 1 .. Len(file.cameras) + 1  BY <2>2 DEF IndInv, Progress
  <2>4. call.i \in 1 .. Len(file.cameras)  BY <2>1, <2>2, <2>3
  <2> QED  BY <2>1, <2>2, <2>4 DEF IndInv, TypeCall
<1>2. IF call.fn = "createCamerasList" THEN Listed(e, known) ELSE Plain(e, known)
  BY Zenon DEF CreateCamera
<1>3. TypeShared  BY DEF IndInv
<1> HIDE DEF e
<1>4. ASSUME Plain(e, known)
      PROVE  \E c \in CameraType : cams' = Append(cams, c) /\ c.entry = e /\ TypeShared'
  <2>1. CASE Named(e) /\ e.calib \in JsonCalibs
    <3> DEFINE c == Camera(e, Default, Default, e.calib, known)
    <3>1. cams' = Append(cams, c) /\ shared' = Parsed(e.calib)  BY <1>4, <2>1 DEF Plain
    <3>2. c \in CameraType /\ c.entry = e  BY <1>1, <2>1 DEF Camera, CameraType
    <3>3. Parsed(e.calib) \in [matrix : [1 .. 2 -> JsonCalibs \cup {Zero}], distort : JsonCalibs \cup {Zero}]
      BY <1>3, <2>1 DEF Parsed, TypeShared
    <3>4. TypeShared'  BY <3>1, <3>3 DEF TypeShared
    <3> QED  BY <3>1, <3>2, <3>4
  <2>2. CASE ~(Named(e) /\ e.calib \in JsonCalibs)
    <3> DEFINE c == Camera(e, Default, Default, Absent, known)
    <3>1. cams' = Append(cams, c) /\ shared' = shared  BY <1>4, <2>2 DEF Plain
    <3>2. c \in CameraType /\ c.entry = e  BY <1>1 DEF Camera, CameraType
    <3>3. TypeShared'  BY <1>3, <3>1 DEF TypeShared
    <3> QED  BY <3>1, <3>2, <3>3
  <2> QED  BY <2>1, <2>2
<1>5. ASSUME Listed(e, known), HasType(e)
      PROVE  \E c \in CameraType : cams' = Append(cams, c) /\ c.entry = e /\ TypeShared'
  <2> DEFINE b == FindCalib(e.type, Resolution(e, known))
             c == Camera(e, SetMatrix(b), SetDistortion(b), Absent, known)
  <2>1. cams' = Append(cams, c) /\ shared' = shared  BY <1>5 DEF Listed
  <2>5. b \in Buffers \cup {Default}  BY FindCalibFits
  <2> HIDE DEF b
  <2>2. SetMatrix(b) \in Buffers \cup {Default} /\ SetDistortion(b) \in Buffers \cup {Default}
    BY <2>5 DEF SetMatrix, SetDistortion
  <2>3. c \in CameraType /\ c.entry = e  BY <1>1, <2>2 DEF Camera, CameraType
  <2>4. TypeShared'  BY <1>3, <2>1 DEF TypeShared
  <2> QED  BY <2>1, <2>3, <2>4
<1>6. Listed(e, known) => HasType(e) \/ Plain(e, known)  BY DEF Listed
<1> QED  BY <1>2, <1>4, <1>5, <1>6 DEF e

\* One entry of "cameras".
LEMMA CreateCameraStep ==
    ASSUME IndInv, NEW known \in BOOLEAN, CreateCamera(known)
    PROVE  IndInv'
<1>1. PICK c \in CameraType :
         cams' = Append(cams, c) /\ c.entry = file.cameras[call.i] /\ TypeShared'
  BY CameraOfEntry
<1>2. /\ UNCHANGED <<file, before, nt, failed>> /\ call' = [call EXCEPT !.i = @ + 1]
      /\ call.at = "cameras" /\ call.i <= Len(file.cameras)
  BY Zenon DEF CreateCamera
<1>3. TypeCall'  BY <1>2 DEF IndInv, TypeCall
<1>4. cams \in Seq(CameraType) /\ before \in Seq(CameraType)  BY DEF IndInv, TypeCams
<1>5. TypeCams'  BY <1>1, <1>2, <1>4 DEF TypeCams
<1>6. TypeNt' /\ ClientHasServer'  BY <1>2 DEF IndInv, TypeNt, ClientHasServer
<1>7. Progress'
  <2> DEFINE n == call.i - 1
  <2>1. call'.at = "cameras" /\ call'.i = call.i + 1  BY <1>2 DEF IndInv, TypeCall
  <2>2. call.i \in 1 .. Len(file.cameras) + 1 /\ Appended(n)  BY <1>2 DEF IndInv, Progress
  <2>3. file.cameras \in Seq(CameraEntries)  BY ConfigAssumption DEF IndInv, TypeCall
  <2>4. call.i \in 1 .. Len(file.cameras) /\ call.i + 1 \in 1 .. Len(file.cameras) + 1
        /\ n \in Nat /\ n + 1 = call.i
    BY <1>2, <2>2, <2>3
  <2> HIDE DEF n
  <2>5. /\ Len(cams) = Len(before) + n
        /\ \A k \in DOMAIN before : cams[k] = before[k]
        /\ \A k \in 1 .. n : cams[Len(before) + k].entry = file.cameras[k]
    BY <2>2 DEF Appended
  <2>6. Len(cams') = Len(before) + (n + 1)  BY <1>1, <1>4, <2>4, <2>5
  <2>7. \A k \in DOMAIN before : cams'[k] = before[k]
    <3>1. \A k \in DOMAIN before : k \in DOMAIN cams  BY <1>4, <2>4, <2>5
    <3>2. \A k \in DOMAIN cams : cams'[k] = cams[k]  BY <1>1, <1>4
    <3> QED  BY <2>5, <3>1, <3>2
  <2>8. \A k \in 1 .. n + 1 : cams'[Len(before) + k].entry = file.cameras[k]
    <3>1. cams'[Len(before) + (n + 1)] = c  BY <1>1, <1>4, <2>4, <2>5
    <3>2. ASSUME NEW k \in 1 .. n PROVE cams'[Len(before) + k] = cams[Len(before) + k]
      BY <1>1, <1>4, <2>4, <2>5
    <3>3. c.entry = file.cameras[n + 1]  BY <1>1, <2>4
    <3>4. \A k \in 1 .. n + 1 : k = n + 1 \/ k \in 1 .. n  BY <2>4
    <3> QED  BY <2>5, <3>1, <3>2, <3>3, <3>4
  <2>9. Appended(call.i - 1)'
    <3>1. call'.i - 1 = n + 1  BY <2>1, <2>4
    <3> QED  BY <1>2, <2>6, <2>7, <2>8, <3>1 DEF Appended
  <2> QED  BY <1>2, <2>1, <2>4, <2>9 DEF Progress
<1> QED  BY <1>1, <1>3, <1>5, <1>6, <1>7 DEF IndInv

\* The end of the list.
LEMMA CamerasDoneStep == ASSUME IndInv, CamerasDone PROVE IndInv'
<1>1. /\ UNCHANGED <<file, before, nt, failed, cams, shared>> /\ call' = Returned(TRUE)
      /\ call.at = "cameras" /\ call.i > Len(file.cameras)
  BY DEF CamerasDone
<1>2. TypeCall'  BY <1>1 DEF Returned, IndInv, TypeCall
<1>3. TypeCams' /\ TypeNt' /\ TypeShared' /\ ClientHasServer'
  BY <1>1 DEF IndInv, TypeCams, TypeNt, TypeShared, ClientHasServer
<1>4. Progress'
  <2>1. call'.at = "returned" /\ call'.ret  BY <1>1 DEF Returned, IndInv, TypeCall
  <2>2. call.i \in 1 .. Len(file.cameras) + 1 /\ Appended(call.i - 1)  BY <1>1 DEF IndInv, Progress
  <2>3. file.cameras \in Seq(CameraEntries)  BY ConfigAssumption DEF IndInv, TypeCall
  <2>4. call.i - 1 = Len(file.cameras)  BY <1>1, <2>2, <2>3
  <2>5. Appended(Len(file.cameras))  BY <2>2, <2>4
  <2>6. Appended(Len(file.cameras))'  BY <1>1, <2>5 DEF Appended
  <2> QED  BY <2>1, <2>6 DEF Progress
<1> QED  BY <1>2, <1>3, <1>4 DEF IndInv

-----------------------------------------------------------------------------
(* The theorems.                                                           *)

\* Every step keeps the invariant.
LEMMA NextKeeps == ASSUME IndInv, [Next]_vars PROVE IndInv'
<1>1. CASE UNCHANGED vars
  <2>1. TypeCall' /\ TypeCams' /\ TypeNt' /\ TypeShared'
    BY <1>1 DEF vars, IndInv, TypeCall, TypeCams, TypeNt, TypeShared
  <2>2. Progress' /\ ClientHasServer'
    BY <1>1 DEF vars, IndInv, Progress, Appended, ClientHasServer
  <2> QED  BY <2>1, <2>2 DEF IndInv
<1> QED
  BY <1>1, LoadStep, NtModeStep, NtNoTeamStep, CreateCameraStep, CamerasDoneStep, ApplicationStep
  DEF Next

\* The inductive invariant of the loaders.
THEOREM IndInvariance == Spec => []IndInv
<1>1. IndInv /\ [Next]_vars => IndInv'  BY NextKeeps
<1> QED  BY InitEstablishes, <1>1, PTL DEF Spec

\* Every variable of the loaders keeps its type.
THEOREM TypeCorrect == Spec => []TypeOK
BY IndInvariance, IndInvTypes, PTL

\* initNT, createCameras and readConfig add no camera when they return false.
THEOREM FailureAddsNothing == Spec => []FailureKeepsCameras
<1>1. IndInv => FailureKeepsCameras  BY DEF IndInv, Progress, FailureKeepsCameras
<1> QED  BY IndInvariance, <1>1, PTL

\* Any sequence of calls on any files that leaves a client running without an
\* address has reported an error.
THEOREM ClientKnowsServer == Spec => []ClientHasServer
<1>1. IndInv => ClientHasServer  BY DEF IndInv
<1> QED  BY IndInvariance, <1>1, PTL

\* createCameras and readConfig return true with one camera per entry.
THEOREM EveryEntryACamera == Spec => []OneCameraPerEntry
<1>1. IndInv => OneCameraPerEntry
  <2> SUFFICES ASSUME IndInv, call.at = "returned", call.ret, call.fn \notin {"none", "initNT"}
               PROVE  /\ Len(cams) = Len(before) + Len(file.cameras)
                      /\ \A k \in DOMAIN before : cams[k] = before[k]
                      /\ \A k \in DOMAIN file.cameras : cams[Len(before) + k].entry = file.cameras[k]
    BY DEF OneCameraPerEntry
  <2>1. Appended(Len(file.cameras))  BY DEF IndInv, Progress
  <2>2. file.cameras \in Seq(CameraEntries)  BY ConfigAssumption DEF IndInv, TypeCall
  <2>3. DOMAIN file.cameras = 1 .. Len(file.cameras)  BY <2>2
  <2> QED  BY <2>1, <2>3 DEF Appended
<1> QED  BY IndInvariance, <1>1, PTL

\* What ListCalibrationFits says of one camera.
CalibrationFits(c) ==
    IF Consulted(c) /\ {b \in Buffers : InList(c.entry.type, c.entry.size, b)} # {}
    THEN \E b \in {b \in Buffers : InList(c.entry.type, c.entry.size, b)} :
            /\ c.matrix  = (IF Fitting[b].matrix THEN b ELSE Default)
            /\ c.distort = (IF Fitting[b].distort THEN b ELSE Default)
    ELSE c.matrix = Default /\ c.distort = Default

\* A camera CreateCamera appends fits.
LEMMA NewCameraFits ==
    ASSUME ProperList, NEW known \in BOOLEAN, CreateCamera(known)
    PROVE  \E c : cams' = Append(cams, c) /\ CalibrationFits(c)
<1> DEFINE e == file.cameras[call.i]
<1>1. IF call.fn = "createCamerasList" THEN Listed(e, known) ELSE Plain(e, known)
  BY Zenon DEF CreateCamera
<1> HIDE DEF e
<1>2. ASSUME Plain(e, known), call.fn = "createCamerasList" => ~HasType(e)
      PROVE  \E c : cams' = Append(cams, c) /\ CalibrationFits(c)
  <2>1. PICK json : cams' = Append(cams, Camera(e, Default, Default, json, known))
    BY <1>2 DEF Plain
  <2> DEFINE c == Camera(e, Default, Default, json, known)
  <2>2. \A size, b : ~InList(Absent, size, b)  BY DEF ProperList, InList
  <2>3. /\ c.matrix = Default /\ c.distort = Default /\ c.entry = e /\ c.by = call.fn
    BY DEF Camera
  <2> HIDE DEF c
  <2>4. Consulted(c) => e.type = Absent  BY <1>2, <2>3 DEF Consulted, HasType
  <2>5. CalibrationFits(c)  BY <2>2, <2>3, <2>4 DEF CalibrationFits
  <2> QED  BY <2>1, <2>5 DEF c
<1>3. ASSUME Listed(e, known), HasType(e), call.fn = "createCamerasList"
      PROVE  \E c : cams' = Append(cams, c) /\ CalibrationFits(c)
  <2> DEFINE size == Resolution(e, known)
             b == FindCalib(e.type, size)
             c == Camera(e, SetMatrix(b), SetDistortion(b), Absent, known)
  <2>1. cams' = Append(cams, c)  BY <1>3 DEF Listed
  <2>2. /\ b \in Buffers \cup {Default}
        /\ b = Default \/ InList(e.type, size, b)
        /\ (\E x \in Buffers : InList(e.type, size, x)) => InList(e.type, size, b)
    BY FindCalibFits
  <2>3. known => size = e.size  BY DEF Resolution
  <2>4. ~known => b = Default
    <3>1. ~known => size = Absent  BY DEF Resolution
    <3>2. ~InList(e.type, Absent, b)
      <4> SUFFICES ASSUME NEW i \in DOMAIN List, NEW j \in DOMAIN List[i][2],
                          List[i][2][j] = <<Absent, b>>
                   PROVE  FALSE
        BY DEF InList, ToSet
      <4>1. List[i][2][j][1] = Absent  OBVIOUS
      <4> QED  BY <4>1 DEF ProperList
    <3> QED  BY <2>2, <3>1, <3>2
  <2> HIDE DEF b, size
  <2>5. /\ c.matrix = SetMatrix(b) /\ c.distort = SetDistortion(b)
        /\ c.known = known /\ c.entry = e /\ c.by = call.fn
    BY DEF Camera
  <2> HIDE DEF c
  <2>6. Consulted(c) <=> known  BY <1>3, <2>5 DEF Consulted, HasType
  <2>7. Default \notin Buffers /\ \A x : ~InList(e.type, e.size, x) \/ x \in Buffers
    <3>1. Default \notin Buffers  BY ConfigAssumption
    <3>2. ASSUME NEW i \in DOMAIN List, NEW j \in DOMAIN List[i][2], NEW x,
                 List[i][2][j] = <<e.size, x>>
          PROVE  x \in Buffers
      BY <3>2 DEF Buffers
    <3> QED  BY <3>1, <3>2 DEF InList, ToSet
  <2>8. ASSUME ~known \/ ~\E x \in Buffers : InList(e.type, e.size, x)
        PROVE  CalibrationFits(c)
    <3>1. b = Default  BY <2>2, <2>3, <2>4, <2>7, <2>8
    <3>2. c.matrix = Default /\ c.distort = Default
      BY <2>5, <2>7, <3>1 DEF SetMatrix, SetDistortion
    <3>3. ~(Consulted(c) /\ {x \in Buffers : InList(c.entry.type, c.entry.size, x)} # {})
      BY <2>5, <2>6, <2>8
    <3> QED  BY <3>2, <3>3 DEF CalibrationFits
  <2>9. ASSUME known, \E x \in Buffers : InList(e.type, e.size, x)
        PROVE  CalibrationFits(c)
    <3>1. InList(e.type, e.size, b) /\ b \in Buffers  BY <2>2, <2>3, <2>7, <2>9
    <3>2. /\ c.matrix  = (IF Fitting[b].matrix THEN b ELSE Default)
          /\ c.distort = (IF Fitting[b].distort THEN b ELSE Default)
      BY <2>5, <3>1 DEF SetMatrix, SetDistortion
    <3>3. b \in {x \in Buffers : InList(c.entry.type, c.entry.size, x)}  BY <2>5, <3>1
    <3> QED  BY <2>6, <2>9, <3>2, <3>3 DEF CalibrationFits
  <2>10. CalibrationFits(c)  BY <2>8, <2>9
  <2> QED  BY <2>1, <2>10 DEF c
<1>5. Listed(e, known) /\ ~HasType(e) => Plain(e, known)  BY DEF Listed
<1> QED  BY <1>1, <1>2, <1>3, <1>5

\* Calibrations of the list go to the cameras they were made for: VisionCamera
\* uses findCalib with the type and the size of the camera itself, and no later
\* call touches the buffer of a camera that exists.
THEOREM ListedCalibrationFits == ASSUME ProperList PROVE Spec => []ListCalibrationFits
<1>1. Init => ListCalibrationFits  BY DEF Init, ListCalibrationFits
<1>2. IndInv /\ ListCalibrationFits /\ [Next]_vars => ListCalibrationFits'
  <2> SUFFICES ASSUME IndInv, ListCalibrationFits, [Next]_vars, NEW k \in DOMAIN cams'
               PROVE  CalibrationFits(cams'[k])
    BY DEF ListCalibrationFits, CalibrationFits
  <2>1. \A j \in DOMAIN cams : CalibrationFits(cams[j])  BY DEF ListCalibrationFits, CalibrationFits
  <2>2. ASSUME NEW known \in BOOLEAN, CreateCamera(known) PROVE CalibrationFits(cams'[k])
    <3>1. PICK c : cams' = Append(cams, c) /\ CalibrationFits(c)  BY <2>2, NewCameraFits
    <3>2. cams \in Seq(CameraType)  BY DEF IndInv, TypeCams
    <3>3. cams'[k] = c \/ (k \in DOMAIN cams /\ cams'[k] = cams[k])  BY <3>1, <3>2
    <3> QED  BY <2>1, <3>1, <3>3
  <2>3. CASE cams' = cams  BY <2>1, <2>3
  <2>4. cams' = cams \/ \E known \in BOOLEAN : CreateCamera(known)
    BY DEF Next, vars, LoadFails, Loaded, NtNothing, NtServer, NtHost, NtClient, NtNoTeam, SetUp,
       CamerasDone, Application, Call, InitSimNT
  <2> QED  BY <2>2, <2>3, <2>4
<1> QED  BY IndInvariance, <1>1, <1>2, PTL DEF Spec
=============================================================================
