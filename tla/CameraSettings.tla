---------------------------- MODULE CameraSettings ----------------------------
(***************************************************************************)
(* Registration of cameras and their remotely adjustable settings          *)
(* (core/visionserver2.cpp addCamera, addCameras, setCameras;              *)
(* core/visioncamera.cpp).                                                 *)
(*                                                                         *)
(* Every camera publishes entries for its settings.  A dashboard writes    *)
(* them; ntcore reports each remote write to the camera's listener, one    *)
(* after the other, in a thread of its own.  The listener captures `this', *)
(* the address of the camera inside the vector VisionServer::cameras.  The *)
(* application also has setters, which change the device and publish.      *)
(***************************************************************************)
EXTENDS Integers, Sequences

CONSTANTS
    Cams,           \* cameras the application may register
    Settings,       \* the settings considered
    RemoteWrites,   \* values the dashboard writes
    LocalWrites,    \* values the application passes to the setters
    MaxPending      \* bound on undelivered events

AllSettings == {"brightness", "exposure", "whitebalance"}

ASSUME SettingsAssumption ==
    /\ Settings \subseteq AllSettings
    /\ RemoteWrites \subseteq Int /\ LocalWrites \subseteq Int
    /\ MaxPending \in Nat

VARIABLES
    cams,       \* VisionServer::cameras
    cap,        \* its capacity()
    listener,   \* listener[c]: "none", or whether `this' is where c is: "here", "gone"
    table,      \* table[c][s]: the published value, Unpublished before
    device,     \* device[c][s]: what the hardware was told last
    events,     \* remote writes ntcore has not delivered yet
    available,  \* the "Cameras Available" entry
    app,        \* the application: where it is, and what it has left to do
    heard,      \* history: the entries, as <<camera, setting>>, that hold what a
                \* dashboard wrote while the camera had a listener
    crashed     \* a listener ran on memory that had been freed, and ended the program

vars == <<cams, cap, listener, table, device, events, available, app, heard, crashed>>

AutoMode == -1
Unpublished == -2

Idle == [at |-> "idle", todo |-> <<>>]

Init ==
    /\ cams = <<>> /\ cap = 0
    /\ listener = [c \in Cams |-> "none"]
    /\ table = [c \in Cams |-> [s \in Settings |-> Unpublished]]
    /\ device = [c \in Cams |-> [s \in Settings |-> AutoMode]]
    /\ events = <<>>
    /\ available = 0
    /\ app = Idle
    /\ heard = {}
    /\ crashed = FALSE

Elements(q) == {q[k] : k \in 1 .. Len(q)}

-----------------------------------------------------------------------------
(* _setBrightness, _setWhiteBalance, _setExposure.                         *)

\* Mutant: there is no upper bound.
StoredUnbounded(s, v) == IF s = "brightness" /\ v < 0 THEN 0 ELSE v

\* The value they return, which the setters publish.
Stored(s, v) ==
    CASE s = "brightness" -> IF v > 100 THEN 100 ELSE IF v < 0 THEN 0 ELSE v
      [] s = "exposure"   -> IF v > 100 THEN 100 ELSE v
      [] OTHER            -> v

\* What the device is told.
Applied(s, v) == IF Stored(s, v) < 0 THEN AutoMode ELSE Stored(s, v)

Default(s) == IF s = "brightness" THEN 50 ELSE -1

-----------------------------------------------------------------------------
(* Registration, before the server runs.                                   *)

\* The elements of the vector move to new memory.
Moved == [c \in Cams |-> IF listener[c] = "here" THEN "gone" ELSE listener[c]]

\* addCamera: emplace_back doubles the capacity when there is no room.
AddCamera(c) ==
    /\ app = Idle
    /\ cams' = Append(cams, c)
    /\ IF Len(cams) = cap
       THEN cap' = (IF cap = 0 THEN 1 ELSE 2 * cap) /\ listener' = Moved
       ELSE UNCHANGED <<cap, listener>>
    /\ app' = [at |-> "publish", todo |-> <<c>>]
    /\ UNCHANGED <<table, device, events, available, heard, crashed>>

\* addCameras: reserve, insert, then every new camera is made adjustable.
AddCameras(new) ==
    /\ app = Idle
    /\ cams' = cams \o new
    /\ IF Len(cams) + Len(new) > cap
       THEN cap' = Len(cams) + Len(new) /\ listener' = Moved
       ELSE UNCHANGED <<cap, listener>>
    /\ app' = [at |-> "publish", todo |-> new]
    /\ UNCHANGED <<table, device, events, available, heard, crashed>>

\* Mutant: the old cameras are overwritten and their listeners forgotten.
SetCamerasLeaks(new) ==
    /\ app = Idle
    /\ cams' = new
    /\ cap' \in {Len(new), Len(new) + 1}
    /\ app' = [at |-> IF new = <<>> THEN "count" ELSE "publish", todo |-> new]
    /\ UNCHANGED <<listener, table, device, events, available, heard, crashed>>

\* setCameras: the old cameras are destroyed, and with them their listeners and
\* what is queued for these, which is everything: nobody else has a listener.
\* The new vector keeps its memory.
SetCameras(new) ==
    /\ app = Idle
    /\ cams' = new
    /\ cap' \in {Len(new), Len(new) + 1}     \* as the caller's vector has grown
    /\ listener' = [c \in Cams |-> IF c \in Elements(cams) THEN "none" ELSE listener[c]]
    /\ events' = <<>>
    /\ app' = [at |-> IF new = <<>> THEN "count" ELSE "publish", todo |-> new]
    /\ UNCHANGED <<table, device, available, heard, crashed>>

\* setNetworkAdjustable: the defaults are set and published ...
Publish ==
    /\ app.at = "publish"
    /\ LET c == Head(app.todo) IN
       /\ table' = [table EXCEPT ![c] = [s \in Settings |-> Stored(s, Default(s))]]
       /\ device' = [device EXCEPT ![c] = [s \in Settings |-> Applied(s, Default(s))]]
       /\ heard' = heard \ ({c} \X Settings)
    /\ app' = [app EXCEPT !.at = "listen"]
    /\ UNCHANGED <<cams, cap, listener, events, available, crashed>>

AfterListen ==
    app' = [at |-> IF Len(app.todo) = 1 THEN "count" ELSE "publish", todo |-> Tail(app.todo)]

\* ... then the listener is added, for writes from now on.
Listen ==
    /\ app.at = "listen"
    /\ listener' = [listener EXCEPT ![Head(app.todo)] = "here"]
    /\ AfterListen
    /\ UNCHANGED <<cams, cap, table, device, events, available, heard, crashed>>

PublishCount ==
    /\ app.at = "count"
    /\ available' = Len(cams)
    /\ app' = Idle
    /\ UNCHANGED <<cams, cap, listener, table, device, events, heard, crashed>>

-----------------------------------------------------------------------------
(* setBrightness, setWhiteBalance, setExposure, called by the application  *)
(* on a camera of getCameras(): first the device, then the entry.          *)

LocalSet(c, s, v) ==
    /\ app = Idle
    /\ c \in Elements(cams)
    /\ device' = [device EXCEPT ![c][s] = Applied(s, v)]
    /\ app' = [at |-> "store", todo |-> <<c>>, s |-> s, v |-> Stored(s, v)]
    /\ UNCHANGED <<cams, cap, listener, table, events, available, heard, crashed>>

LocalStore ==
    /\ app.at = "store"
    /\ table' = [table EXCEPT ![Head(app.todo)][app.s] = app.v]
    /\ heard' = heard \ {<<Head(app.todo), app.s>>}
    /\ app' = Idle
    /\ UNCHANGED <<cams, cap, listener, device, events, available, crashed>>

-----------------------------------------------------------------------------
(* The dashboard and the listener thread.                                  *)

\* A write before the listener is added is never reported to it.
RemoteWrite(c, s, v) ==
    /\ table[c][s] # Unpublished
    /\ Len(events) < MaxPending
    /\ table' = [table EXCEPT ![c][s] = v]
    /\ heard' = IF listener[c] = "none" THEN heard \ {<<c, s>>} ELSE heard \cup {<<c, s>>}
    /\ events' = IF listener[c] = "none" THEN events
                 ELSE Append(events, [c |-> c, s |-> s, v |-> v])
    /\ UNCHANGED <<cams, cap, listener, device, available, app, crashed>>

\* Mutant: writes are looked at only when another one follows.
DeliverLate ==
    /\ Len(events) > 1
    /\ LET e == Head(events) IN device' = [device EXCEPT ![e.c][e.s] = Applied(e.s, e.v)]
    /\ events' = Tail(events)
    /\ UNCHANGED <<cams, cap, listener, table, available, app, heard, crashed>>

\* Mutant: the newest write is looked at first.
DeliverNewest ==
    /\ events # <<>>
    /\ events' = SubSeq(events, 1, Len(events) - 1)
    /\ LET e == events[Len(events)] IN
       device' = IF listener[e.c] = "here" /\ e.v # -1
                 THEN [device EXCEPT ![e.c][e.s] = Applied(e.s, e.v)]
                 ELSE device
    /\ UNCHANGED <<cams, cap, listener, table, available, app, heard, crashed>>

\* -1 stands for a value of another type: `val != 0xFFFFFFFF'.  If the camera has
\* moved, `this' is freed memory: undefined.  The handles the topic is compared
\* with were moved from, so that the write is ignored, or the memory is in use
\* for something else and the program ends.
Deliver ==
    /\ events # <<>>
    /\ events' = Tail(events)
    /\ LET e == Head(events) IN
       \/ /\ listener[e.c] = "here" /\ e.v # -1
          /\ device' = [device EXCEPT ![e.c][e.s] = Applied(e.s, e.v)]
          /\ UNCHANGED crashed
       \/ /\ listener[e.c] = "here" /\ e.v = -1
          /\ UNCHANGED <<device, crashed>>
       \/ /\ listener[e.c] = "gone"
          /\ crashed' \in BOOLEAN
          /\ UNCHANGED device
    /\ UNCHANGED <<cams, cap, listener, table, available, app, heard>>

-----------------------------------------------------------------------------

Fresh == Cams \ Elements(cams)
Lists(S) == {q \in UNION {[1 .. k -> S] : k \in 1 .. 2} : \A j, k \in DOMAIN q : q[j] = q[k] => j = k}

Calls ==
    \/ \E c \in Fresh : AddCamera(c)
    \/ \E new \in Lists(Fresh) : AddCameras(new)
    \/ \E new \in Lists(Cams) \cup {<<>>} : SetCameras(new)
    \/ \E c \in Cams, s \in Settings, v \in LocalWrites : LocalSet(c, s, v)

Inside == Publish \/ Listen \/ PublishCount \/ LocalStore

Next ==
    /\ ~crashed
    /\ \/ Calls
       \/ Inside
       \/ \E c \in Cams, s \in Settings, v \in RemoteWrites : RemoteWrite(c, s, v)
       \/ Deliver

\* A function that was called goes on, and ntcore delivers what it has queued.
Spec ==
    /\ Init /\ [][Next]_vars
    /\ WF_vars(~crashed /\ Inside) /\ WF_vars(~crashed /\ Deliver)

-----------------------------------------------------------------------------
(* Properties.                                                             *)

\* Every variable has its type; no device is told more than 100 percent.
TypeOK ==
    /\ cams \in Seq(Cams) /\ cap \in Nat /\ available \in Nat
    /\ listener \in [Cams -> {"none", "here", "gone"}]
    /\ table \in [Cams -> [Settings -> Int]]
    /\ device \in [Cams -> [Settings -> Int]]
    /\ \A c \in Cams, s \in Settings \ {"whitebalance"} : device[c][s] \in {AutoMode} \cup 0 .. 100
    /\ \A k \in 1 .. Len(events) : events[k] \in [c : Cams, s : Settings, v : Int]
    /\ app.at \in {"idle", "publish", "listen", "count", "store"}
    /\ app.todo \in Seq(Cams)
    /\ heard \subseteq Cams \X Settings
    /\ crashed \in BOOLEAN

\* However the application registers cameras and uses the setters, no listener
\* is lost or left behind, and the camera added last is adjustable: it is the
\* others whose listener may refer to the place they have left.
ListenersOwned ==
    app = Idle =>
        /\ \A c \in Cams : listener[c] # "none" <=> c \in Elements(cams)
        /\ cams # <<>> => listener[cams[Len(cams)]] = "here"

\* The dashboard's value is in the entry, and its listener can still see the camera.
Adjusted(c, s) == <<c, s>> \in heard /\ listener[c] = "here" /\ table[c][s] # -1

Queued(c, s) == \E k \in 1 .. Len(events) : events[k].c = c /\ events[k].s = s
Storing(c, s) == app.at = "store" /\ Head(app.todo) = c /\ app.s = s

\* Entry and device agree (visioncamera.cpp:268-276, 291-310): as long as the
\* dashboard's value is the one in the entry, has been delivered, and no setter is
\* half way, it is what the device was told, clamped; no older event and no setter
\* that lost the race for the entry has the last word on the device.  Left out:
\* -1, which the listener drops, and a camera the vector has moved.
AdjustmentInEffect ==
    \A c \in Cams, s \in Settings :
        Adjusted(c, s) /\ ~Queued(c, s) /\ ~Storing(c, s)
            => device[c][s] = Applied(s, table[c][s])

\* Every adjustment the dashboard makes to a registered camera, and leaves, takes
\* effect for good, however registrations and setters interleave with it, unless
\* the camera moves, the value is -1, or a listener on freed memory ends the
\* program before.
SettingsFollow ==
    \A c \in Cams, s \in Settings, v \in RemoteWrites :
        <>[](Adjusted(c, s) /\ table[c][s] = v) => <>[](device[c][s] = Applied(s, v) \/ crashed)
=============================================================================
