-------------------------------- MODULE Config --------------------------------
(***************************************************************************)
(* Reading the configuration file (core/config.cpp), the calibrations it   *)
(* refers to (core/visioncamera.cpp, core/calib.h) and what is left when a *)
(* part of it is missing.                                                  *)
(*                                                                         *)
(* A file is a record: whether it can be loaded, the "ntmode", whether the *)
(* team number can be read, whether there are "calibrations", and the      *)
(* entries under "cameras".  A calibration is known by its name; a matrix  *)
(* has two cells, so that it can be half written.                          *)
(*                                                                         *)
(* A cv::Mat is a handle on a buffer.  camera_matrix{default_matrix} shares*)
(* the buffer of the static default; getJsonCameraMatrix writes into it;   *)
(* setCameraMatrix makes the handle point at another one, if this one has  *)
(* the size of the default.                                                *)
(***************************************************************************)
EXTENDS Naturals, Sequences, SequencesExt

CONSTANTS
    Files,      \* files the program may meet
    Readable,   \* Readable[c]: how many cells of calibration c's matrix, and
                \* whether its distortion, can be read
    List,       \* the CalibList: <<type, <<<<size, calibration>>, ...>>>>, ...
    Fitting,    \* Fitting[b]: whether the matrix and the distortion of calibration b
                \* of the list have as many elements as the defaults
    MaxCams     \* bound on the length of the application's vector

JsonCalibs == DOMAIN Readable
Buffers == UNION {{List[i][2][j][2] : j \in DOMAIN List[i][2]} : i \in DOMAIN List}
Sizes == UNION {{List[i][2][j][1] : j \in DOMAIN List[i][2]} : i \in DOMAIN List}
CameraEntries == UNION {ToSet(f.cameras) : f \in Files}
Absent == "absent"
Default == "default"
Zero == "zero"

ASSUME ConfigAssumption ==
    /\ MaxCams \in Nat
    /\ \A c \in JsonCalibs : Readable[c].cells \in 0 .. 2 /\ Readable[c].dist \in BOOLEAN
    /\ Default \notin Buffers /\ {Absent, Zero} \cap JsonCalibs = {}
    /\ Fitting \in [Buffers -> [matrix : BOOLEAN, distort : BOOLEAN]]
    /\ \A f \in Files : f.cameras \in Seq(CameraEntries)
    /\ List \in Seq(ToSet(List)) /\ \A i \in DOMAIN List : List[i][2] \in Seq(Sizes \X Buffers)

Loaders == {"initNT", "createCameras", "createCamerasList", "readConfig"}

VARIABLES
    file,     \* the file as it is now
    call,     \* function, step, entry it is at, its result
    before,   \* the vector when the function was called
    nt,       \* what was asked of the NetworkTableInstance
    failed,   \* a function that sets up the network returned false
    cams,     \* the std::vector<VisionCamera>
    shared    \* contents of default_matrix and default_distort

vars == <<file, call, before, nt, failed, cams, shared>>

Returned(r) == [call EXCEPT !.at = "returned", !.ret = r]

Init ==
    /\ file \in Files
    /\ call = [fn |-> "none", at |-> "returned", i |-> 0, ret |-> TRUE]
    /\ before = <<>>
    /\ nt = [client |-> FALSE, server |-> FALSE, team |-> FALSE, ds |-> FALSE, host |-> FALSE]
    /\ failed = FALSE
    /\ cams = <<>>
    /\ shared = [matrix |-> <<Zero, Zero>>, distort |-> Zero]

\* The file may have been edited between two calls.
Call(fn, f) ==
    /\ call.at = "returned"
    /\ file' = f
    /\ call' = [fn |-> fn, at |-> "load", i |-> 1, ret |-> TRUE]
    /\ before' = cams
    /\ UNCHANGED <<nt, failed, cams, shared>>

\* Mutant: the vector is cleared first.
LoadFailsClears ==
    /\ call.at = "load" /\ ~file.loads
    /\ call' = Returned(FALSE)
    /\ failed' = (failed \/ call.fn \in {"initNT", "readConfig"})
    /\ cams' = <<>>
    /\ UNCHANGED <<file, before, nt, shared>>

\* loadJson: no such file, not JSON, or not an object.
LoadFails ==
    /\ call.at = "load" /\ ~file.loads
    /\ call' = Returned(FALSE)
    /\ failed' = (failed \/ call.fn \in {"initNT", "readConfig"})
    /\ UNCHANGED <<file, before, nt, cams, shared>>

Loaded ==
    /\ call.at = "load" /\ file.loads
    /\ call' = [call EXCEPT !.at = IF call.fn \in {"initNT", "readConfig"} THEN "ntmode" ELSE "cameras"]
    /\ UNCHANGED <<file, before, nt, failed, cams, shared>>

-----------------------------------------------------------------------------
(* initNT and the first half of readConfig.                                *)

NtDone == IF call.fn = "initNT" THEN Returned(TRUE) ELSE [call EXCEPT !.at = "cameras"]

SetUp(asked) ==
    /\ nt' = asked
    /\ call' = NtDone
    /\ UNCHANGED <<file, before, failed, cams, shared>>

AtNtMode(m) == call.at = "ntmode" /\ file.ntmode = m

\* Absent, or not a string: nothing is started and the function goes on.
NtNothing == (AtNtMode(Absent) \/ AtNtMode("unreadable")) /\ SetUp(nt)
NtServer == AtNtMode("server") /\ SetUp([nt EXCEPT !.server = TRUE])
NtHost == AtNtMode("host") /\ SetUp([nt EXCEPT !.client = TRUE, !.host = TRUE])
NtClient ==
    /\ AtNtMode("client") /\ file.team
    /\ SetUp([nt EXCEPT !.client = TRUE, !.team = TRUE, !.ds = TRUE])

\* Mutant: the exception is reported and the function goes on.
NtNoTeamGoesOn == AtNtMode("client") /\ ~file.team /\ SetUp([nt EXCEPT !.client = TRUE])

\* The client is started before the team number is read.
NtNoTeam ==
    /\ AtNtMode("client") /\ ~file.team
    /\ nt' = [nt EXCEPT !.client = TRUE]
    /\ call' = Returned(FALSE)
    /\ failed' = TRUE
    /\ UNCHANGED <<file, before, cams, shared>>

\* initSimNT(host)
InitSimNT ==
    /\ call.at = "returned"
    /\ nt' = [nt EXCEPT !.client = TRUE, !.host = TRUE]
    /\ UNCHANGED <<file, call, before, failed, cams, shared>>

-----------------------------------------------------------------------------
(* createCameras and the second half of readConfig.                        *)

\* getJsonCameraMatrix and getJsonDistortionCoefs, into the shared default:
\* what cannot be read keeps its value.
Parsed(c) ==
    [matrix |-> [k \in 1 .. 2 |-> IF k <= Readable[c].cells THEN c ELSE shared.matrix[k]],
     distort |-> IF Readable[c].dist THEN c ELSE shared.distort]

\* findSet and findCalib for a CalibList: the first set of this type, then its
\* first calibration for this size.
FindSet(type) == SelectInSeq(List, LAMBDA s : s[1] = type)

\* Mutants: a null result is used; the size is not compared.
FindCalibNull(type, size) ==
    LET s == FindSet(type)
        k == SelectInSeq(List[s][2], LAMBDA c : c[1] = size)
    IN  IF s = 0 THEN Absent ELSE IF k = 0 THEN Absent ELSE List[s][2][k][2]
FindCalibAnySize(type, size) ==
    IF FindSet(type) = 0 THEN Default ELSE List[FindSet(type)][2][1][2]

FindCalib(type, size) ==
    LET s == FindSet(type)
        k == SelectInSeq(List[s][2], LAMBDA c : c[1] = size)
    IN  IF s = 0 THEN Default ELSE IF k = 0 THEN Default ELSE List[s][2][k][2]

\* VisionCamera(config): only a mode that is known is replaced by the mode of
\* the file, because VideoMode converts to true when it is unknown.
Resolution(e, known) == IF known THEN e.size ELSE Absent

\* A camera: its entry, the buffers of its matrix and distortion, the calibration of
\* the file it was given, whether the device told its mode, and who made it.
Camera(e, matrix, distort, json, known) ==
    [entry |-> e, matrix |-> matrix, distort |-> distort, json |-> json, known |-> known,
     by |-> call.fn]

Named(e) == file.calibs /\ e.calib # Absent

\* VisionCamera(config, calibration) or VisionCamera(config); the latter, too,
\* if the calibration the entry names does not exist.
Plain(e, known) ==
    IF Named(e) /\ e.calib \in JsonCalibs
    THEN cams' = Append(cams, Camera(e, Default, Default, e.calib, known)) /\ shared' = Parsed(e.calib)
    ELSE cams' = Append(cams, Camera(e, Default, Default, Absent, known)) /\ UNCHANGED shared

\* camera.at("properties").count("type"): a "type" is found if "properties" is an
\* object, not in the array of objects that docs/Calibration.md shows.
HasType(e) == e.layout = "object" /\ e.type # Absent

\* setCameraMatrix and setDistortionCoefs, each with its own test of the size: one
\* may be taken and the other refused.
SetMatrix(b) == IF b \in Buffers /\ ~Fitting[b].matrix THEN Default ELSE b
SetDistortion(b) == IF b \in Buffers /\ ~Fitting[b].distort THEN Default ELSE b

\* With a CalibList: an entry with a type is looked up there and nowhere else.
Listed(e, known) ==
    IF HasType(e)
    THEN LET b == FindCalib(e.type, Resolution(e, known)) IN
         /\ cams' = Append(cams, Camera(e, SetMatrix(b), SetDistortion(b), Absent, known))
         /\ UNCHANGED shared
    ELSE Plain(e, known)

\* Mutant: there is no camera if its calibration does not exist.
CreateCameraStrict(known) ==
    LET e == file.cameras[call.i] IN
    /\ call.at = "cameras" /\ call.i <= Len(file.cameras)
    /\ IF Named(e) /\ e.calib \notin JsonCalibs THEN UNCHANGED <<cams, shared>> ELSE Plain(e, known)
    /\ call' = [call EXCEPT !.i = @ + 1]
    /\ UNCHANGED <<file, before, nt, failed>>

\* One entry of "cameras"; the device tells its mode, or does not.  The catch around
\* the loop has nothing to catch: the constructor and getJsonVideoMode handle their
\* own json exceptions, and so does the code for calibrations.
CreateCamera(known) ==
    LET e == file.cameras[call.i] IN
    /\ call.at = "cameras" /\ call.i <= Len(file.cameras)
    /\ IF call.fn = "createCamerasList" THEN Listed(e, known) ELSE Plain(e, known)
    /\ call' = [call EXCEPT !.i = @ + 1]
    /\ UNCHANGED <<file, before, nt, failed>>

\* No "cameras" at all is reported and then treated as an empty list.
CamerasDone ==
    /\ call.at = "cameras" /\ call.i > Len(file.cameras)
    /\ call' = Returned(TRUE)
    /\ UNCHANGED <<file, before, nt, failed, cams, shared>>

-----------------------------------------------------------------------------

Application ==
    \/ \E fn \in Loaders, f \in Files : Len(cams) + Len(f.cameras) <= MaxCams /\ Call(fn, f)
    \/ InitSimNT

Next ==
    \/ LoadFails \/ Loaded
    \/ NtNothing \/ NtServer \/ NtHost \/ NtClient \/ NtNoTeam
    \/ \E known \in BOOLEAN : CreateCamera(known)
    \/ CamerasDone
    \/ Application

Spec == Init /\ [][Next]_vars

-----------------------------------------------------------------------------
(* Properties.                                                             *)

\* Every variable has its type.
TypeOK ==
    /\ file \in Files
    /\ call.at \in {"load", "ntmode", "cameras", "returned"} /\ call.ret \in BOOLEAN
    /\ failed \in BOOLEAN
    /\ nt \in [client : BOOLEAN, server : BOOLEAN, team : BOOLEAN, ds : BOOLEAN, host : BOOLEAN]
    /\ \A k \in DOMAIN cams : {cams[k].matrix, cams[k].distort} \subseteq Buffers \cup {Default}
    /\ shared.matrix \in [1 .. 2 -> JsonCalibs \cup {Zero}]
    /\ shared.distort \in JsonCalibs \cup {Zero}

\* A function that returns false has added no camera and removed none.
FailureKeepsCameras == call.at = "returned" /\ ~call.ret => cams = before

\* Whatever was called on whatever files, a client that runs has been told
\* where its server is, unless a function has reported an error.
ClientHasServer == nt.client => nt.host \/ (nt.team /\ nt.ds) \/ failed

\* A function that returns true has appended one camera for every entry, in
\* the order of the file: an unusable calibration costs no camera.
OneCameraPerEntry ==
    call.at = "returned" /\ call.ret /\ call.fn \notin {"none", "initNT"} =>
        /\ Len(cams) = Len(before) + Len(file.cameras)
        /\ \A k \in DOMAIN before : cams[k] = before[k]
        /\ \A k \in DOMAIN file.cameras : cams[Len(before) + k].entry = file.cameras[k]

\* The calibrations of the list: for each type and size the one a reader of
\* the list would pick.
InList(type, size, b) ==
    \E i \in DOMAIN List : List[i][1] = type /\ <<size, b>> \in ToSet(List[i][2])

\* createCameras looks for calibrations of the list for this camera.
Consulted(c) == c.by = "createCamerasList" /\ c.known /\ c.entry.layout = "object"

\* A camera for which the list is consulted and has a calibration of its type and of
\* the resolution of its entry has those parts of one of them that have the size of
\* the defaults, and the defaults for the others (config.cpp:134-143); every other
\* camera has the defaults, also one whose type is in an array (config.cpp:134).  No
\* entry that is read later changes it.
ListCalibrationFits ==
    \A k \in DOMAIN cams :
        LET c == cams[k]
            Fit == {b \in Buffers : InList(c.entry.type, c.entry.size, b)}
        IN  IF Consulted(c) /\ Fit # {}
            THEN \E b \in Fit :
                    /\ c.matrix  = (IF Fitting[b].matrix THEN b ELSE Default)
                    /\ c.distort = (IF Fitting[b].distort THEN b ELSE Default)
            ELSE c.matrix = Default /\ c.distort = Default

\* What getCameraMatrix() and getDistortionCoefs() show for a camera whose
\* matrices are the shared ones.
Shows(c) ==
    /\ shared.matrix = <<c, c>>
    /\ shared.distort = c

Complete(c) == Readable[c].cells = 2 /\ Readable[c].dist

-----------------------------------------------------------------------------
(* What docs/Calibration.md says and the code does not do.                 *)

\* docs/Calibration.md:55 "load each camera with the appropriate matrix/dist
\* values if applicable": a camera has the calibration its entry names.
OwnCalibration ==
    call.at = "returned" =>
        \A k \in DOMAIN cams :
            cams[k].json \in JsonCalibs /\ Complete(cams[k].json) => Shows(cams[k].json)
=============================================================================
