------------------------- MODULE CameraSettingsProofs -------------------------
(***************************************************************************)
(* For any cameras, settings and values and any order of registrations,    *)
(* setters, remote writes and deliveries: exactly the registered cameras   *)
(* have a listener, the one added last is reached by it, and a device has  *)
(* what the dashboard set and ntcore delivered.                            *)
(***************************************************************************)
EXTENDS CameraSettings, TLAPS

\* How many cameras, at the end of the vector, setNetworkAdjustable is not done with.
Left == IF app.at = "store" THEN 0 ELSE Len(app.todo)

AppType ==
    [at : {"idle", "publish", "listen", "count"}, todo : Seq(Cams)]

Types ==
    /\ cams \in Seq(Cams)
    /\ listener \in [Cams -> {"none", "here", "gone"}]
    /\ app.at # "store" => app \in AppType

\* What a registration has left to do are the last cameras of the vector, in
\* their order.
TodoIsSuffix ==
    /\ app.at \in {"idle", "count"} => app.todo = <<>>
    /\ app.at \in {"publish", "listen"} =>
          /\ Len(app.todo) \in 1 .. Len(cams)
          /\ \A j \in 1 .. Len(app.todo) : app.todo[j] = cams[Len(cams) - Len(app.todo) + j]

\* The cameras before them have listeners and nobody else has one; when nothing
\* is left, the last listener is where it looks.
ListenersSoFar ==
    /\ \A c \in Cams : listener[c] # "none" <=> \E k \in 1 .. Len(cams) - Left : cams[k] = c
    /\ Left = 0 /\ cams # <<>> => listener[cams[Len(cams)]] = "here"

\* ListenersOwned speaks of the moments between two calls only; what leads from
\* one to the next is how far the loop over the new cameras is.
IndInv == Types /\ TodoIsSuffix /\ ListenersSoFar

\* No camera is registered.
LEMMA InitEstablishes == Init => IndInv
<1> SUFFICES ASSUME Init PROVE IndInv
  OBVIOUS
<1>1. app.at = "idle" /\ app.todo = <<>> /\ app \in AppType  BY DEF Init, Idle, AppType
<1>2. Types  BY <1>1 DEF Init, Types
<1>3. TodoIsSuffix  BY <1>1 DEF TodoIsSuffix
<1>4. Left = 0  BY <1>1 DEF Left
<1>5. ListenersSoFar
  <2>1. \A k \in 1 .. Len(cams) - Left : FALSE  BY <1>4 DEF Init
  <2> QED  BY <2>1 DEF ListenersSoFar, Init
<1> QED  BY <1>2, <1>3, <1>5 DEF IndInv

\* Between two calls nothing is left.
LEMMA IdleLeavesNothing ==
    ASSUME IndInv, app = Idle
    PROVE  /\ cams \in Seq(Cams) /\ listener \in [Cams -> {"none", "here", "gone"}]
           /\ \A c \in Cams : listener[c] # "none" <=> \E k \in 1 .. Len(cams) : cams[k] = c
           /\ cams # <<>> => listener[cams[Len(cams)]] = "here"
<1>1. cams \in Seq(Cams) /\ listener \in [Cams -> {"none", "here", "gone"}]  BY DEF IndInv, Types
<1>2. Left = 0  BY DEF Left, Idle
<1>3. Len(cams) - Left = Len(cams)  BY <1>1, <1>2
<1> QED  BY <1>1, <1>2, <1>3 DEF IndInv, ListenersSoFar

\* A registration that appends: the listeners of the others may be left behind,
\* but none is lost.
LEMMA AppendStep ==
    ASSUME IndInv, app = Idle, NEW new \in Seq(Cams), new # <<>>,
           cams' = cams \o new, app' = [at |-> "publish", todo |-> new],
           listener' = Moved \/ listener' = listener
    PROVE  IndInv'
<1>1. /\ cams \in Seq(Cams) /\ listener \in [Cams -> {"none", "here", "gone"}]
      /\ \A c \in Cams : listener[c] # "none" <=> \E k \in 1 .. Len(cams) : cams[k] = c
  BY IdleLeavesNothing
<1>2. app'.at = "publish" /\ app'.todo = new /\ app' \in AppType  BY DEF AppType
<1>3. /\ listener' \in [Cams -> {"none", "here", "gone"}]
      /\ \A c \in Cams : listener'[c] # "none" <=> listener[c] # "none"
  BY <1>1 DEF Moved
<1>4. cams' \in Seq(Cams)  BY <1>1
<1>5. Types'  BY <1>2, <1>3, <1>4 DEF Types
<1>6. Len(new) \in Nat /\ Len(new) # 0 /\ Len(cams) \in Nat /\ Len(cams') = Len(cams) + Len(new)
  BY <1>1
<1>7. Len(cams') - Len(new) = Len(cams)  BY <1>6
<1>8. TodoIsSuffix'
  <2>1. \A j \in 1 .. Len(new) : cams'[Len(cams) + j] = new[j]  BY <1>1
  <2> QED  BY <1>2, <1>6, <1>7, <2>1 DEF TodoIsSuffix
<1>9. Left' = Len(new)  BY <1>2 DEF Left
<1>10. \A k \in 1 .. Len(cams) : cams'[k] = cams[k]  BY <1>1
<1>11. ListenersSoFar'  BY <1>1, <1>3, <1>6, <1>7, <1>9, <1>10 DEF ListenersSoFar
<1> QED  BY <1>5, <1>8, <1>11 DEF IndInv

\* addCamera and addCameras are such registrations.
LEMMA AddStep ==
    ASSUME IndInv,
           \/ \E c \in Fresh : AddCamera(c)
           \/ \E new \in Lists(Fresh) : AddCameras(new)
    PROVE  IndInv'
<1>1. ASSUME NEW c \in Fresh, AddCamera(c) PROVE IndInv'
  <2>1. <<c>> \in Seq(Cams) /\ <<c>> # <<>>  BY DEF Fresh
  <2>2. cams \in Seq(Cams)  BY DEF IndInv, Types
  <2>3. cams' = cams \o <<c>>  BY <1>1, <2>2 DEF AddCamera
  <2> QED  BY <1>1, <2>1, <2>3, AppendStep DEF AddCamera
<1>2. ASSUME NEW new \in Lists(Fresh), AddCameras(new) PROVE IndInv'
  <2>1. PICK k \in 1 .. 2 : new \in [1 .. k -> Fresh]  BY DEF Lists
  <2>2. new \in Seq(Cams) /\ new # <<>>  BY <2>1 DEF Fresh
  <2> QED  BY <1>2, <2>2, AppendStep DEF AddCameras
<1> QED  BY <1>1, <1>2

\* setCameras: the old cameras take all listeners with them.
LEMMA SetCamerasStep ==
    ASSUME IndInv, NEW new \in Lists(Cams) \cup {<<>>}, SetCameras(new)
    PROVE  IndInv'
<1>1. /\ cams \in Seq(Cams) /\ listener \in [Cams -> {"none", "here", "gone"}]
      /\ \A c \in Cams : listener[c] # "none" <=> \E k \in 1 .. Len(cams) : cams[k] = c
  BY IdleLeavesNothing DEF SetCameras
<1>2. listener' = [c \in Cams |-> "none"]
  <2>1. listener' = [c \in Cams |-> IF c \in Elements(cams) THEN "none" ELSE listener[c]]
    BY DEF SetCameras
  <2>2. \A c \in Cams : c \notin Elements(cams) => listener[c] = "none"  BY <1>1 DEF Elements
  <2> QED  BY <2>1, <2>2
<1>3. new \in Seq(Cams)
  <2>1. CASE new \in Lists(Cams)
    <3>1. PICK k \in 1 .. 2 : new \in [1 .. k -> Cams]  BY <2>1 DEF Lists
    <3> QED  BY <3>1
  <2>2. CASE new = <<>>  BY <2>2
  <2> QED  BY <2>1, <2>2
<1>4. cams' = new /\ app' = [at |-> IF new = <<>> THEN "count" ELSE "publish", todo |-> new]
  BY DEF SetCameras
<1>5. app'.todo = new /\ app' \in AppType /\ app'.at = IF new = <<>> THEN "count" ELSE "publish"
  BY <1>3, <1>4 DEF AppType
<1>6. Types'  BY <1>2, <1>3, <1>4, <1>5 DEF Types
<1>7. Left' = Len(new) /\ Len(new) \in Nat /\ (new # <<>> => Len(new) # 0)  BY <1>3, <1>5 DEF Left
<1>8. TodoIsSuffix'
  <2>1. \A j \in 1 .. Len(new) : Len(new) - Len(new) + j = j  BY <1>7
  <2> QED  BY <1>3, <1>4, <1>5, <1>7, <2>1 DEF TodoIsSuffix
<1>9. ListenersSoFar'
  <2>1. 1 .. Len(new) - Len(new) = {}  BY <1>7
  <2> QED  BY <1>2, <1>4, <1>7, <2>1 DEF ListenersSoFar
<1> QED  BY <1>6, <1>8, <1>9 DEF IndInv

\* setNetworkAdjustable for the next camera: its listener is added.
LEMMA ListenStep == ASSUME IndInv, Listen PROVE IndInv'
<1> DEFINE todo == app.todo
           c0 == Head(todo)
           m == Len(cams) - Len(todo)
<1>1. /\ app.at = "listen" /\ app \in AppType /\ cams \in Seq(Cams)
      /\ listener \in [Cams -> {"none", "here", "gone"}]
  BY DEF IndInv, Types, Listen
<1>2. /\ todo \in Seq(Cams) /\ Len(todo) \in 1 .. Len(cams)
      /\ \A j \in 1 .. Len(todo) : todo[j] = cams[m + j]
  BY <1>1 DEF IndInv, TodoIsSuffix, AppType
<1>3. /\ m \in Nat /\ Len(cams) \in Nat /\ Len(todo) \in Nat \ {0}
      /\ m + 1 \in 1 .. Len(cams) /\ m + Len(todo) = Len(cams) /\ 1 \in 1 .. Len(todo)
  BY <1>1, <1>2
<1>4. listener' = [listener EXCEPT ![c0] = "here"] /\ cams' = cams  BY DEF Listen
<1>5. app' = [at |-> IF Len(todo) = 1 THEN "count" ELSE "publish", todo |-> Tail(todo)]
  BY DEF Listen, AfterListen
<1> HIDE DEF m, todo
<1>6. c0 = cams[m + 1] /\ c0 \in Cams
  <2>1. todo # <<>> /\ c0 = todo[1]  BY <1>2, <1>3
  <2>2. todo[1] = cams[m + 1]  BY <1>2, <1>3
  <2> QED  BY <1>1, <1>3, <2>1, <2>2
<1> HIDE DEF c0
<1>7. /\ Tail(todo) \in Seq(Cams) /\ Len(Tail(todo)) = Len(todo) - 1
      /\ \A j \in 1 .. Len(todo) - 1 : Tail(todo)[j] = todo[j + 1]
      /\ Len(todo) = 1 => Tail(todo) = <<>>
  <2>1. todo # <<>>  BY <1>3
  <2>2. /\ Tail(todo) \in Seq(Cams) /\ Len(Tail(todo)) = Len(todo) - 1
        /\ \A j \in 1 .. Len(todo) - 1 : Tail(todo)[j] = todo[j + 1]
    BY <1>2, <2>1
  <2>3. Len(todo) = 1 => Len(Tail(todo)) = 0  BY <2>2
  <2>4. \A q \in Seq(Cams) : Len(q) = 0 => q = <<>>  OBVIOUS
  <2> QED  BY <2>2, <2>3, <2>4
<1>8. /\ app'.at = IF Len(todo) = 1 THEN "count" ELSE "publish"
      /\ app'.todo = Tail(todo) /\ app' \in AppType
  BY <1>5, <1>7 DEF AppType
<1>9. Types'  BY <1>1, <1>6, <1>4, <1>8 DEF Types
<1>10. TodoIsSuffix'
  <2>1. \A j \in 1 .. Len(todo) - 1 : Tail(todo)[j] = cams[Len(cams) - (Len(todo) - 1) + j]
    <3> SUFFICES ASSUME NEW j \in 1 .. Len(todo) - 1
                 PROVE  Tail(todo)[j] = cams[Len(cams) - (Len(todo) - 1) + j]
      OBVIOUS
    <3>1. j + 1 \in 1 .. Len(todo) /\ m + (j + 1) = Len(cams) - (Len(todo) - 1) + j  BY <1>3
    <3> QED  BY <1>2, <1>7, <3>1
  <2>2. CASE Len(todo) = 1
    BY <1>7, <1>8, <2>2 DEF TodoIsSuffix
  <2>3. CASE Len(todo) # 1
    <3>1. Len(todo) - 1 \in 1 .. Len(cams)  BY <1>3, <2>3
    <3> QED  BY <1>4, <1>7, <1>8, <2>1, <2>3, <3>1 DEF TodoIsSuffix
  <2> QED  BY <2>2, <2>3
<1>11. ListenersSoFar'
  <2>1. Left = Len(todo) /\ Left' = Len(todo) - 1  BY <1>1, <1>7, <1>8 DEF Left, todo
  <2>2. \A c \in Cams : listener[c] # "none" <=> \E k \in 1 .. m : cams[k] = c
    BY <2>1 DEF IndInv, ListenersSoFar, m
  <2>3. Len(cams') - Left' = m + 1  BY <1>3, <1>4, <2>1
  <2>4. listener'[c0] = "here" /\ \A c \in Cams \ {c0} : listener'[c] = listener[c]
    BY <1>1, <1>6, <1>4
  <2>5. ASSUME NEW c \in Cams
        PROVE  listener'[c] # "none" <=> \E k \in 1 .. m + 1 : cams[k] = c
    <3>1. (\E k \in 1 .. m + 1 : cams[k] = c) <=> (\E k \in 1 .. m : cams[k] = c) \/ cams[m + 1] = c
      <4>1. \A k \in 1 .. m + 1 : k \in 1 .. m \/ k = m + 1  BY <1>3
      <4>2. 1 .. m \subseteq 1 .. m + 1 /\ m + 1 \in 1 .. m + 1  BY <1>3
      <4> QED  BY <4>1, <4>2
    <3> QED  BY <1>6, <2>2, <2>4, <3>1
  <2>6. Left' = 0 => listener'[cams'[Len(cams')]] = "here"
    <3>1. Left' = 0 => m + 1 = Len(cams)  BY <1>2, <1>3, <2>1
    <3> QED  BY <1>6, <1>4, <2>4, <3>1
  <2> QED  BY <1>4, <2>3, <2>5, <2>6 DEF ListenersSoFar
<1> QED  BY <1>9, <1>10, <1>11 DEF IndInv

\* The other steps touch neither the vector nor the listeners.
LEMMA OtherStep ==
    ASSUME IndInv, UNCHANGED <<cams, listener>>, Left' = Left, TodoIsSuffix',
           app'.at # "store" => app' \in AppType
    PROVE  IndInv'
BY DEF IndInv, Types, ListenersSoFar

\* Every step keeps the invariant.
LEMMA NextKeeps == ASSUME IndInv, [Next]_vars PROVE IndInv'
<1>1. Types /\ TodoIsSuffix  BY DEF IndInv
<1>2. CASE Publish
  <2>1. app \in AppType /\ app.at = "publish"  BY <1>1, <1>2 DEF Publish, Types
  <2>2. app' = [app EXCEPT !.at = "listen"] /\ UNCHANGED <<cams, listener>>  BY <1>2 DEF Publish
  <2>3. app' \in AppType /\ app'.at = "listen" /\ app'.todo = app.todo  BY <2>1, <2>2 DEF AppType
  <2>4. TodoIsSuffix' /\ Left' = Left  BY <1>1, <2>1, <2>2, <2>3 DEF TodoIsSuffix, Left
  <2> QED  BY <2>2, <2>3, <2>4, OtherStep
<1>3. CASE PublishCount
  <2>1. app.at = "count" /\ app.todo = <<>>  BY <1>1, <1>3 DEF PublishCount, TodoIsSuffix
  <2>2. app'.at = "idle" /\ app'.todo = <<>> /\ app' \in AppType /\ UNCHANGED <<cams, listener>>
    BY <1>3 DEF PublishCount, Idle, AppType
  <2>3. TodoIsSuffix' /\ Left' = Left  BY <2>1, <2>2 DEF TodoIsSuffix, Left
  <2> QED  BY <2>2, <2>3, OtherStep
<1>4. CASE LocalStore
  <2>1. app.at = "store"  BY <1>4 DEF LocalStore
  <2>2. app'.at = "idle" /\ app'.todo = <<>> /\ app' \in AppType /\ UNCHANGED <<cams, listener>>
    BY <1>4 DEF LocalStore, Idle, AppType
  <2>3. TodoIsSuffix' /\ Left' = Left  BY <2>1, <2>2 DEF TodoIsSuffix, Left
  <2> QED  BY <2>2, <2>3, OtherStep
<1>5. CASE \E c \in Cams, s \in Settings, v \in LocalWrites : LocalSet(c, s, v)
  <2> PICK c \in Cams, s \in Settings, v \in LocalWrites : LocalSet(c, s, v)  BY <1>5
  <2>1. app.at = "idle" /\ app.todo = <<>>  BY DEF LocalSet, Idle
  <2>2. app'.at = "store" /\ UNCHANGED <<cams, listener>>  BY DEF LocalSet
  <2>3. TodoIsSuffix' /\ Left' = Left  BY <2>1, <2>2 DEF TodoIsSuffix, Left
  <2> QED  BY <2>2, <2>3, OtherStep
<1>6. CASE UNCHANGED <<cams, listener, app>>
  <2>1. TodoIsSuffix' /\ Left' = Left  BY <1>1, <1>6 DEF TodoIsSuffix, Left
  <2> QED  BY <1>1, <1>6, <2>1, OtherStep DEF Types
<1>7. CASE Listen  BY <1>7, ListenStep
<1>8. CASE Calls   BY <1>5, <1>8, AddStep, SetCamerasStep DEF Calls
<1> QED
  BY <1>2, <1>3, <1>4, <1>6, <1>7, <1>8 DEF Next, Inside, RemoteWrite, Deliver, vars

\* setCameras, addCamera and addCameras leave every camera of the vector with one
\* listener and no camera outside with any; the last one's is not stale.
THEOREM ListenersAreOwned == Spec => []ListenersOwned
<1>1. IndInv /\ [Next]_vars => IndInv'  BY NextKeeps
<1>2. IndInv => ListenersOwned
  BY IdleLeavesNothing DEF ListenersOwned, Elements
<1> QED  BY InitEstablishes, <1>1, <1>2, PTL DEF Spec

-----------------------------------------------------------------------------
(* Types.                                                                  *)

\* What a setter has still to publish.
AppOK ==
    /\ app.at \in {"idle", "publish", "listen", "count", "store"}
    /\ app.todo \in Seq(Cams)
    /\ app.at = "store" => app.todo # <<>> /\ app.s \in Settings /\ app.v \in Int

\* What the entries and the devices hold.
ValuesOK ==
    /\ table \in [Cams -> [Settings -> Int]]
    /\ device \in [Cams -> [Settings -> Int]]
    /\ \A c \in Cams, s \in Settings \ {"whitebalance"} : device[c][s] \in {AutoMode} \cup 0 .. 100

Event == [c : Cams, s : Settings, v : Int]

RestOK ==
    /\ cap \in Nat /\ available \in Nat /\ crashed \in BOOLEAN
    /\ events \in Seq(Event)
    /\ heard \subseteq Cams \X Settings

\* A camera has a listener as long as a write is queued for it.
QueuedOwned == \A k \in 1 .. Len(events) : listener[events[k].c] # "none"

TypeInv == IndInv /\ AppOK /\ ValuesOK /\ RestOK /\ QueuedOwned

\* The ranges of the values that are stored and applied.
LEMMA StoredRange ==
    ASSUME NEW s \in Settings, NEW v \in Int
    PROVE  /\ Stored(s, v) \in Int /\ Applied(s, v) \in Int
           /\ s # "whitebalance" => Applied(s, v) \in {AutoMode} \cup 0 .. 100
<1>0. \A n \in Int :
        /\ (IF n < 0 THEN AutoMode ELSE n) \in Int
        /\ n <= 100 => (IF n < 0 THEN AutoMode ELSE n) \in {AutoMode} \cup 0 .. 100
  BY DEF AutoMode
<1>1. s \in {"brightness", "exposure", "whitebalance"}  BY SettingsAssumption DEF AllSettings
<1>2. CASE s = "brightness"
  <2>1. Stored(s, v) = IF v > 100 THEN 100 ELSE IF v < 0 THEN 0 ELSE v  BY <1>2, Zenon DEF Stored
  <2>2. Stored(s, v) \in 0 .. 100  BY <2>1
  <2> QED  BY <1>0, <2>2 DEF Applied
<1>3. CASE s = "exposure"
  <2>1. Stored(s, v) = IF v > 100 THEN 100 ELSE v  BY <1>3, Zenon DEF Stored
  <2>2. Stored(s, v) \in Int /\ Stored(s, v) <= 100  BY <2>1
  <2> QED  BY <1>0, <2>2 DEF Applied
<1>4. CASE s = "whitebalance"
  <2>1. Stored(s, v) = v  BY <1>4, Zenon DEF Stored
  <2> QED  BY <1>0, <1>4, <2>1 DEF Applied
<1> QED  BY <1>1, <1>2, <1>3, <1>4

\* One setting of one device, or all of one camera.
LEMMA ValueSteps ==
    ASSUME ValuesOK, NEW c \in Cams
    PROVE  /\ \A s \in Settings, v \in Int :
                 /\ [table EXCEPT ![c][s] = v] \in [Cams -> [Settings -> Int]]
                 /\ device' = [device EXCEPT ![c][s] = Applied(s, v)] /\ table' \in [Cams -> [Settings -> Int]]
                       => ValuesOK'
           /\ /\ table' = [table EXCEPT ![c] = [s \in Settings |-> Stored(s, Default(s))]]
              /\ device' = [device EXCEPT ![c] = [s \in Settings |-> Applied(s, Default(s))]]
              => ValuesOK'
<1>1. ASSUME NEW s \in Settings, NEW v \in Int
      PROVE  /\ [table EXCEPT ![c][s] = v] \in [Cams -> [Settings -> Int]]
             /\ device' = [device EXCEPT ![c][s] = Applied(s, v)] /\ table' \in [Cams -> [Settings -> Int]]
                   => ValuesOK'
  <2>1. [table EXCEPT ![c][s] = v] \in [Cams -> [Settings -> Int]]  BY DEF ValuesOK
  <2>2. ASSUME device' = [device EXCEPT ![c][s] = Applied(s, v)], table' \in [Cams -> [Settings -> Int]]
        PROVE  ValuesOK'
    <3>1. Applied(s, v) \in Int /\ (s # "whitebalance" => Applied(s, v) \in {AutoMode} \cup 0 .. 100)
      BY StoredRange
    <3>2. device' \in [Cams -> [Settings -> Int]]  BY <2>2, <3>1 DEF ValuesOK
    <3>3. \A e \in Cams, t \in Settings :
            device'[e][t] = IF e = c /\ t = s THEN Applied(s, v) ELSE device[e][t]
      BY <2>2 DEF ValuesOK
    <3>4. \A e \in Cams, t \in Settings \ {"whitebalance"} : device'[e][t] \in {AutoMode} \cup 0 .. 100
      BY <3>1, <3>3 DEF ValuesOK
    <3> QED  BY <2>2, <3>2, <3>4 DEF ValuesOK
  <2> QED  BY <2>1, <2>2
<1>2. ASSUME table' = [table EXCEPT ![c] = [s \in Settings |-> Stored(s, Default(s))]],
             device' = [device EXCEPT ![c] = [s \in Settings |-> Applied(s, Default(s))]]
      PROVE  ValuesOK'
  <2>1. \A s \in Settings : Default(s) \in Int  BY DEF Default
  <2>2. \A s \in Settings : /\ Stored(s, Default(s)) \in Int /\ Applied(s, Default(s)) \in Int
                            /\ s # "whitebalance" => Applied(s, Default(s)) \in {AutoMode} \cup 0 .. 100
    BY <2>1, StoredRange
  <2>3. table' \in [Cams -> [Settings -> Int]] /\ device' \in [Cams -> [Settings -> Int]]
    BY <1>2, <2>2 DEF ValuesOK
  <2>4. \A e \in Cams, t \in Settings :
          device'[e][t] = IF e = c THEN Applied(t, Default(t)) ELSE device[e][t]
    BY <1>2 DEF ValuesOK
  <2> QED  BY <2>2, <2>3, <2>4 DEF ValuesOK
<1> QED  BY <1>1, <1>2

\* A registration.
LEMMA CallTypes == ASSUME TypeInv, Calls PROVE AppOK' /\ ValuesOK' /\ RestOK' /\ QueuedOwned'
<1>1. /\ AppOK /\ ValuesOK /\ RestOK /\ QueuedOwned
      /\ cams \in Seq(Cams) /\ listener \in [Cams -> {"none", "here", "gone"}]
  BY DEF TypeInv, IndInv, Types
<1>2. \A q \in Lists(Fresh) : q \in Seq(Cams) /\ q # <<>>
  <2> TAKE q \in Lists(Fresh)
  <2>1. PICK k \in 1 .. 2 : q \in [1 .. k -> Fresh]  BY DEF Lists
  <2> QED  BY <2>1 DEF Fresh
<1>3. \A q \in Lists(Cams) \cup {<<>>} : q \in Seq(Cams)
  <2> TAKE q \in Lists(Cams) \cup {<<>>}
  <2>1. CASE q \in Lists(Cams)
    <3>1. PICK k \in 1 .. 2 : q \in [1 .. k -> Cams]  BY <2>1 DEF Lists
    <3> QED  BY <3>1
  <2>2. CASE q = <<>>  BY <2>2
  <2> QED  BY <2>1, <2>2
<1>m. listener' \in {Moved, listener} /\ events' = events => QueuedOwned'
  <2>1. \A c \in Cams : Moved[c] # "none" <=> listener[c] # "none"  BY <1>1 DEF Moved
  <2>2. \A k \in 1 .. Len(events) : events[k].c \in Cams
    <3>1. \A k \in 1 .. Len(events) : events[k] \in Event  BY <1>1 DEF RestOK
    <3> QED  BY <3>1 DEF Event
  <2> QED  BY <1>1, <2>1, <2>2 DEF QueuedOwned
<1>4. CASE \E c \in Fresh : AddCamera(c)
  <2> PICK c \in Fresh : AddCamera(c)  BY <1>4
  <2>1. <<c>> \in Seq(Cams)  BY DEF Fresh
  <2>2. app' = [at |-> "publish", todo |-> <<c>>]  BY DEF AddCamera
  <2>3. AppOK'  BY <2>1, <2>2 DEF AppOK
  <2>4. RestOK'  BY <1>1 DEF AddCamera, RestOK
  <2>5. ValuesOK'  BY <1>1 DEF AddCamera, ValuesOK
  <2>6. QueuedOwned'  BY <1>m DEF AddCamera
  <2> QED  BY <2>3, <2>4, <2>5, <2>6
<1>5. CASE \E new \in Lists(Fresh) : AddCameras(new)
  <2> PICK new \in Lists(Fresh) : AddCameras(new)  BY <1>5
  <2>1. new \in Seq(Cams) /\ Len(new) \in Nat /\ Len(cams) \in Nat  BY <1>1, <1>2
  <2>2. app' = [at |-> "publish", todo |-> new]  BY DEF AddCameras
  <2>3. AppOK'  BY <2>1, <2>2 DEF AppOK
  <2>4. RestOK'  BY <1>1, <2>1 DEF AddCameras, RestOK
  <2>5. ValuesOK'  BY <1>1 DEF AddCameras, ValuesOK
  <2>6. QueuedOwned'  BY <1>m DEF AddCameras
  <2> QED  BY <2>3, <2>4, <2>5, <2>6
<1>6. CASE \E new \in Lists(Cams) \cup {<<>>} : SetCameras(new)
  <2> PICK new \in Lists(Cams) \cup {<<>>} : SetCameras(new)  BY <1>6
  <2>1. new \in Seq(Cams) /\ Len(new) \in Nat  BY <1>3
  <2>2. app' = [at |-> IF new = <<>> THEN "count" ELSE "publish", todo |-> new]  BY DEF SetCameras
  <2>3. AppOK'  BY <2>1, <2>2 DEF AppOK
  <2>4. events' = <<>> /\ cap' \in {Len(new), Len(new) + 1} /\ UNCHANGED <<available, heard, crashed>>
    BY DEF SetCameras
  <2>5. RestOK' /\ QueuedOwned'  BY <1>1, <2>1, <2>4 DEF RestOK, QueuedOwned
  <2>6. ValuesOK'  BY <1>1 DEF SetCameras, ValuesOK
  <2> QED  BY <2>3, <2>5, <2>6
<1>7. CASE \E c \in Cams, s \in Settings, v \in LocalWrites : LocalSet(c, s, v)
  <2> PICK c \in Cams, s \in Settings, v \in LocalWrites : LocalSet(c, s, v)  BY <1>7
  <2>1. v \in Int /\ Stored(s, v) \in Int  BY SettingsAssumption, StoredRange
  <2>2. app' = [at |-> "store", todo |-> <<c>>, s |-> s, v |-> Stored(s, v)]  BY DEF LocalSet
  <2>3. AppOK'  BY <2>1, <2>2 DEF AppOK
  <2>4. RestOK' /\ QueuedOwned'  BY <1>1 DEF LocalSet, RestOK, QueuedOwned
  <2>5. ValuesOK'
    <3>1. device' = [device EXCEPT ![c][s] = Applied(s, v)] /\ table' = table  BY DEF LocalSet
    <3>2. table' \in [Cams -> [Settings -> Int]]  BY <1>1, <3>1 DEF ValuesOK
    <3> QED  BY <1>1, <2>1, <3>1, <3>2, ValueSteps
  <2> QED  BY <2>3, <2>4, <2>5
<1> QED  BY <1>4, <1>5, <1>6, <1>7 DEF Calls

\* The rest of a registration and of a setter.
LEMMA InsideTypes == ASSUME TypeInv, Inside PROVE AppOK' /\ ValuesOK' /\ RestOK' /\ QueuedOwned'
<1>1. /\ AppOK /\ ValuesOK /\ RestOK /\ QueuedOwned /\ TodoIsSuffix
      /\ cams \in Seq(Cams) /\ listener \in [Cams -> {"none", "here", "gone"}]
      /\ app.at # "store" => app \in AppType
  BY DEF TypeInv, IndInv, Types
<1>2. app.at \in {"publish", "listen", "store"} => Head(app.todo) \in Cams /\ app.todo # <<>>
  <2>1. app.at \in {"publish", "listen", "store"} => app.todo # <<>>
    <3>0. app.at \in {"publish", "listen"} => Len(app.todo) \in 1 .. Len(cams)  BY <1>1 DEF TodoIsSuffix
    <3>1. app.at \in {"publish", "listen"} => Len(app.todo) # 0
      <4>1. \A n \in Nat : 0 \notin 1 .. n  OBVIOUS
      <4>2. Len(cams) \in Nat  BY <1>1
      <4> QED  BY <3>0, <4>1, <4>2
    <3> QED  BY <1>1, <3>1 DEF AppOK
  <2>2. app.todo \in Seq(Cams)  BY <1>1 DEF AppOK
  <2> QED  BY <2>1, <2>2
<1>3. CASE Publish
  <2>1. app \in AppType /\ app.at = "publish" /\ app' = [app EXCEPT !.at = "listen"]  BY <1>1, <1>3 DEF Publish
  <2>2. AppOK'  BY <2>1 DEF AppType, AppOK
  <2>3. ValuesOK'  BY <1>1, <1>2, <1>3, ValueSteps DEF Publish
  <2> QED  BY <1>1, <1>3, <2>2, <2>3 DEF Publish, RestOK, QueuedOwned
<1>4. CASE Listen
  <2>1. app' = [at |-> IF Len(app.todo) = 1 THEN "count" ELSE "publish", todo |-> Tail(app.todo)]
    BY <1>4 DEF Listen, AfterListen
  <2>2. app.todo \in Seq(Cams) /\ app.todo # <<>>  BY <1>1, <1>2, <1>4 DEF Listen, AppOK
  <2>3. Tail(app.todo) \in Seq(Cams)  BY <2>2
  <2>4. AppOK'  BY <2>1, <2>3 DEF AppOK
  <2>5. \A c \in Cams : listener[c] # "none" => listener'[c] # "none"  BY <1>1, <1>2, <1>4 DEF Listen
  <2>6. \A k \in 1 .. Len(events) : events[k].c \in Cams
    <3>1. \A k \in 1 .. Len(events) : events[k] \in Event  BY <1>1 DEF RestOK
    <3> QED  BY <3>1 DEF Event
  <2>7. QueuedOwned'  BY <1>1, <1>4, <2>5, <2>6 DEF Listen, QueuedOwned
  <2> QED  BY <1>1, <1>4, <2>4, <2>7 DEF Listen, RestOK, ValuesOK
<1>5. CASE PublishCount
  <2>1. AppOK'  BY <1>5 DEF PublishCount, AppOK, Idle
  <2>2. Len(cams) \in Nat  BY <1>1
  <2> QED  BY <1>1, <1>5, <2>1, <2>2 DEF PublishCount, RestOK, ValuesOK, QueuedOwned
<1>6. CASE LocalStore
  <2>1. AppOK'  BY <1>6 DEF LocalStore, AppOK, Idle
  <2>2. table' \in [Cams -> [Settings -> Int]]
    <3>1. app.at = "store" /\ app.s \in Settings /\ app.v \in Int  BY <1>1, <1>6 DEF LocalStore, AppOK
    <3> QED  BY <1>1, <1>2, <1>6, <3>1, ValueSteps DEF LocalStore
  <2> QED  BY <1>1, <1>6, <2>1, <2>2 DEF LocalStore, RestOK, ValuesOK, QueuedOwned
<1> QED  BY <1>3, <1>4, <1>5, <1>6 DEF Inside

\* A write of the dashboard and its delivery.
LEMMA EventTypes ==
    ASSUME TypeInv,
           (\E c \in Cams, s \in Settings, v \in RemoteWrites : RemoteWrite(c, s, v)) \/ Deliver
    PROVE  AppOK' /\ ValuesOK' /\ RestOK' /\ QueuedOwned'
<1>1. AppOK /\ ValuesOK /\ RestOK /\ QueuedOwned  BY DEF TypeInv
<1>2. events \in Seq(Event)  BY <1>1 DEF RestOK
<1>3. CASE \E c \in Cams, s \in Settings, v \in RemoteWrites : RemoteWrite(c, s, v)
  <2> PICK c \in Cams, s \in Settings, v \in RemoteWrites : RemoteWrite(c, s, v)  BY <1>3
  <2>1. v \in Int /\ [c |-> c, s |-> s, v |-> v] \in Event  BY SettingsAssumption DEF Event
  <2>2. events' \in Seq(Event)  BY <1>2, <2>1 DEF RemoteWrite
  <2>3. table' \in [Cams -> [Settings -> Int]]  BY <1>1, <2>1, ValueSteps DEF RemoteWrite
  <2>4. QueuedOwned'
    <3>1. CASE listener[c] = "none"  BY <1>1, <3>1 DEF RemoteWrite, QueuedOwned
    <3>2. CASE listener[c] # "none"
      <4>1. events' = Append(events, [c |-> c, s |-> s, v |-> v]) /\ listener' = listener
        BY <3>2 DEF RemoteWrite
      <4>2. \A k \in 1 .. Len(events') : (k \in 1 .. Len(events) /\ events'[k] = events[k])
                                         \/ events'[k] = [c |-> c, s |-> s, v |-> v]
        BY <1>2, <4>1
      <4> QED  BY <1>1, <3>2, <4>1, <4>2 DEF QueuedOwned
    <3> QED  BY <3>1, <3>2
  <2>5. AppOK' /\ ValuesOK'  BY <1>1, <2>3 DEF RemoteWrite, AppOK, ValuesOK
  <2>6. RestOK'
    <3>1. heard \subseteq Cams \X Settings  BY <1>1 DEF RestOK
    <3>2. heard' \subseteq Cams \X Settings  BY <3>1 DEF RemoteWrite
    <3> QED  BY <1>1, <2>2, <3>2 DEF RemoteWrite, RestOK
  <2> QED  BY <2>4, <2>5, <2>6
<1>4. CASE Deliver
  <2>1. events # <<>> /\ events' = Tail(events) /\ UNCHANGED <<cap, listener, table, available, app, heard>>
    BY <1>4 DEF Deliver
  <2>2. Head(events) \in Event /\ Tail(events) \in Seq(Event)  BY <1>2, <2>1
  <2>3. QueuedOwned'
    <3>1. \A k \in 1 .. Len(events') : k + 1 \in 1 .. Len(events) /\ events'[k] = events[k + 1]
      BY <1>2, <2>1
    <3> QED  BY <1>1, <2>1, <3>1 DEF QueuedOwned
  <2>4. ValuesOK'
    <3>1. table' \in [Cams -> [Settings -> Int]]  BY <1>1, <2>1 DEF ValuesOK
    <3>2. CASE device' = device  BY <1>1, <2>1, <3>2 DEF ValuesOK
    <3>3. CASE device' = [device EXCEPT ![Head(events).c][Head(events).s]
                                          = Applied(Head(events).s, Head(events).v)]
      <4>1. Head(events).c \in Cams /\ Head(events).s \in Settings /\ Head(events).v \in Int  BY <2>2 DEF Event
      <4> QED  BY <1>1, <3>1, <3>3, <4>1, ValueSteps
    <3> QED  BY <1>4, <3>2, <3>3 DEF Deliver
  <2>5. crashed' \in BOOLEAN  BY <1>1, <1>4 DEF Deliver, RestOK
  <2>6. RestOK' /\ AppOK'  BY <1>1, <2>1, <2>2, <2>5 DEF RestOK, AppOK
  <2> QED  BY <2>3, <2>4, <2>6
<1> QED  BY <1>3, <1>4

\* Nothing is published and nothing queued to begin with.
LEMMA InitTypes == Init => TypeInv
<1> SUFFICES ASSUME Init PROVE TypeInv  OBVIOUS
<1>1. AppOK  BY DEF Init, AppOK, Idle
<1>2. ValuesOK  BY DEF Init, ValuesOK, AutoMode, Unpublished
<1>3. events = <<>> /\ cap = 0 /\ available = 0 /\ crashed = FALSE /\ heard = {}  BY DEF Init
<1>4. <<>> \in Seq(Event) /\ Len(<<>>) = 0  OBVIOUS
<1>5. RestOK  BY <1>3, <1>4 DEF RestOK
<1>6. QueuedOwned  BY <1>3, <1>4 DEF QueuedOwned
<1> QED  BY <1>1, <1>2, <1>5, <1>6, InitEstablishes DEF TypeInv

\* Every step keeps the types.
LEMMA TypeStep == TypeInv /\ [Next]_vars => TypeInv'
<1> SUFFICES ASSUME TypeInv, [Next]_vars PROVE TypeInv'  OBVIOUS
<1>1. IndInv'  BY NextKeeps DEF TypeInv
<1>2. CASE UNCHANGED vars
  BY <1>1, <1>2 DEF vars, TypeInv, AppOK, ValuesOK, RestOK, QueuedOwned
<1> QED  BY <1>1, <1>2, CallTypes, InsideTypes, EventTypes DEF Next, TypeInv

\* Every variable keeps its type, whatever the dashboard writes and the
\* application passes; no device is ever told more than 100 percent.
THEOREM TypeCorrect == Spec => []TypeOK
<1>1. TypeInv => TypeOK
  <2> SUFFICES ASSUME TypeInv PROVE TypeOK  OBVIOUS
  <2>1. \A k \in 1 .. Len(events) : events[k] \in Event  BY DEF TypeInv, RestOK
  <2>2. \A k \in 1 .. Len(events) : events[k] \in [c : Cams, s : Settings, v : Int]  BY <2>1 DEF Event
  <2> QED  BY <2>2 DEF TypeInv, IndInv, Types, AppOK, ValuesOK, RestOK, TypeOK
<1> QED  BY InitTypes, TypeStep, <1>1, PTL DEF Spec

-----------------------------------------------------------------------------
(* Adjustments.                                                            *)

\* The last queued write of a setting.
LastOf(q, k, c, s) ==
    /\ q[k].c = c /\ q[k].s = s
    /\ \A j \in 1 .. Len(q) : j > k => ~(q[j].c = c /\ q[j].s = s)

\* What the queue still holds ends with what the entry holds.
LastOK(c, s) == \A k \in 1 .. Len(events) : LastOf(events, k, c, s) => events[k].v = table[c][s]

EffectOK(c, s) ==
    table[c][s] # -1 /\ ~Queued(c, s) /\ ~Storing(c, s) => device[c][s] = Applied(s, table[c][s])

PairOK(c, s) == <<c, s>> \in heard /\ listener[c] = "here" => LastOK(c, s) /\ EffectOK(c, s)

\* The cameras of a registration that is under way differ, and have no listener yet.
TodoIsNew ==
    app.at \in {"publish", "listen"} =>
        /\ \A j \in 1 .. Len(app.todo) : listener[app.todo[j]] = "none"
        /\ \A i, j \in 1 .. Len(app.todo) : app.todo[i] = app.todo[j] => i = j

\* Nothing the dashboard wrote before the listener is there counts as heard.
NotYetHeard == app.at = "listen" => \A s \in Settings : <<Head(app.todo), s>> \notin heard

HeardInv == TodoIsNew /\ NotYetHeard /\ \A c \in Cams, s \in Settings : PairOK(c, s)

\* A step that does not concern a setting.
LEMMA PairKept ==
    ASSUME NEW c \in Cams, NEW s \in Settings, PairOK(c, s),
           <<c, s>> \in heard' => <<c, s>> \in heard,
           listener'[c] = "here" => listener[c] = "here",
           events' = events, table'[c][s] = table[c][s], device'[c][s] = device[c][s],
           Storing(c, s) => Storing(c, s)'
    PROVE  PairOK(c, s)'
BY DEF PairOK, LastOK, EffectOK, Queued

\* A registration, or the first half of a setter.
LEMMA CallHeard == ASSUME TypeInv, HeardInv, Calls PROVE HeardInv'
<1>1. app = Idle /\ app.at = "idle"
  BY DEF Calls, AddCamera, AddCameras, SetCameras, LocalSet, Idle
<1>2. /\ cams \in Seq(Cams) /\ listener \in [Cams -> {"none", "here", "gone"}]
      /\ \A c \in Cams : listener[c] # "none" <=> \E k \in 1 .. Len(cams) : cams[k] = c
  BY <1>1, IdleLeavesNothing DEF TypeInv
<1>3. \A c \in Fresh : c \in Cams /\ listener[c] = "none"  BY <1>2 DEF Fresh, Elements
<1>4. ASSUME NEW new \in Seq(Fresh), \A i, j \in 1 .. Len(new) : new[i] = new[j] => i = j,
             app' = [at |-> "publish", todo |-> new], listener' \in {Moved, listener},
             UNCHANGED <<table, device, events, heard>>
      PROVE  HeardInv'
  <2>1. app'.at = "publish" /\ app'.todo = new  BY <1>4
  <2>2. \A c \in Cams : /\ listener[c] = "none" => listener'[c] = "none"
                        /\ listener'[c] = "here" => listener[c] = "here"
    BY <1>2, <1>4 DEF Moved
  <2>3. TodoIsNew' /\ NotYetHeard'  BY <1>3, <1>4, <2>1, <2>2 DEF TodoIsNew, NotYetHeard
  <2>4. ASSUME NEW c \in Cams, NEW s \in Settings PROVE PairOK(c, s)'
    <3>1. ~Storing(c, s)  BY <1>1 DEF Storing
    <3>2. PairOK(c, s)  BY DEF HeardInv
    <3> QED  BY <1>4, <2>2, <3>1, <3>2, PairKept
  <2> QED  BY <2>3, <2>4 DEF HeardInv
<1>5. CASE \E c \in Fresh : AddCamera(c)
  <2> PICK c \in Fresh : AddCamera(c)  BY <1>5
  <2>1. <<c>> \in Seq(Fresh) /\ \A i, j \in 1 .. Len(<<c>>) : i = j  OBVIOUS
  <2> QED  BY <1>4, <2>1 DEF AddCamera
<1>6. CASE \E new \in Lists(Fresh) : AddCameras(new)
  <2> PICK new \in Lists(Fresh) : AddCameras(new)  BY <1>6
  <2>1. PICK k \in 1 .. 2 : new \in [1 .. k -> Fresh]  BY DEF Lists
  <2>2. new \in Seq(Fresh) /\ DOMAIN new = 1 .. Len(new)  BY <2>1
  <2>3. \A i, j \in 1 .. Len(new) : new[i] = new[j] => i = j  BY <2>2 DEF Lists
  <2> QED  BY <1>4, <2>2, <2>3 DEF AddCameras
<1>7. CASE \E new \in Lists(Cams) \cup {<<>>} : SetCameras(new)
  <2> PICK new \in Lists(Cams) \cup {<<>>} : SetCameras(new)  BY <1>7
  <2>1. \A c \in Cams : listener'[c] = "none"  BY <1>2 DEF SetCameras, Elements
  <2>2. app'.todo = new /\ app'.at = IF new = <<>> THEN "count" ELSE "publish"  BY DEF SetCameras
  <2>3. CASE new = <<>>
    BY <2>1, <2>2, <2>3 DEF HeardInv, TodoIsNew, NotYetHeard, PairOK
  <2>4. CASE new \in Lists(Cams) /\ new # <<>>
    <3>1. PICK k \in 1 .. 2 : new \in [1 .. k -> Cams]  BY <2>4 DEF Lists
    <3>2. new \in Seq(Cams) /\ DOMAIN new = 1 .. Len(new)  BY <3>1
    <3>3. \A i, j \in 1 .. Len(new) : new[i] = new[j] => i = j  BY <2>4, <3>2 DEF Lists
    <3>4. \A j \in 1 .. Len(new) : new[j] \in Cams  BY <3>2
    <3> QED  BY <2>1, <2>2, <2>4, <3>3, <3>4 DEF HeardInv, TodoIsNew, NotYetHeard, PairOK
  <2> QED  BY <2>3, <2>4
<1>8. CASE \E c \in Cams, s \in Settings, v \in LocalWrites : LocalSet(c, s, v)
  <2> PICK c0 \in Cams, s0 \in Settings, v0 \in LocalWrites : LocalSet(c0, s0, v0)  BY <1>8
  <2>1. /\ app'.at = "store" /\ app'.todo = <<c0>> /\ app'.s = s0
        /\ UNCHANGED <<listener, table, events, heard>>
        /\ device' = [device EXCEPT ![c0][s0] = Applied(s0, v0)]
    BY DEF LocalSet
  <2>2. TodoIsNew' /\ NotYetHeard'  BY <2>1 DEF TodoIsNew, NotYetHeard
  <2>3. ASSUME NEW c \in Cams, NEW s \in Settings PROVE PairOK(c, s)'
    <3>0. PairOK(c, s)  BY DEF HeardInv
    <3>1. CASE c = c0 /\ s = s0
      <4>1. Storing(c, s)'  BY <2>1, <3>1 DEF Storing
      <4> QED  BY <2>1, <3>0, <4>1 DEF PairOK, LastOK, EffectOK
    <3>2. CASE ~(c = c0 /\ s = s0)
      <4>1. device'[c][s] = device[c][s]  BY <2>1, <3>2 DEF TypeInv, ValuesOK
      <4>2. ~Storing(c, s)  BY <1>1 DEF Storing
      <4> QED  BY <2>1, <3>0, <4>1, <4>2, PairKept
    <3> QED  BY <3>1, <3>2
  <2> QED  BY <2>2, <2>3 DEF HeardInv
<1> QED  BY <1>5, <1>6, <1>7, <1>8 DEF Calls

\* The rest of a registration and of a setter.
LEMMA InsideHeard == ASSUME TypeInv, HeardInv, Inside PROVE HeardInv'
<1>1. /\ cams \in Seq(Cams) /\ listener \in [Cams -> {"none", "here", "gone"}]
      /\ app.todo \in Seq(Cams) /\ TodoIsNew /\ NotYetHeard
      /\ app.at # "store" => app \in AppType
      /\ app.at \in {"publish", "listen"} => Len(app.todo) \in 1 .. Len(cams)
  BY DEF TypeInv, IndInv, Types, AppOK, HeardInv, TodoIsSuffix
<1>2. \A c \in Cams, s \in Settings : PairOK(c, s)  BY DEF HeardInv
<1>3. CASE Publish
  <2>1. /\ app.at = "publish" /\ app'.at = "listen" /\ app'.todo = app.todo
        /\ UNCHANGED <<listener, events>>
    BY <1>1, <1>3 DEF Publish, AppType
  <2>2. heard' = heard \ ({Head(app.todo)} \X Settings)  BY <1>3 DEF Publish
  <2>3. TodoIsNew' /\ NotYetHeard'  BY <1>1, <2>1, <2>2 DEF TodoIsNew, NotYetHeard
  <2>4. ASSUME NEW c \in Cams, NEW s \in Settings PROVE PairOK(c, s)'
    <3>1. CASE c = Head(app.todo)  BY <2>2, <3>1 DEF PairOK
    <3>2. CASE c # Head(app.todo)
      <4>1. table'[c][s] = table[c][s] /\ device'[c][s] = device[c][s]
        BY <1>3, <3>2 DEF Publish, TypeInv, ValuesOK
      <4>2. ~Storing(c, s)  BY <2>1 DEF Storing
      <4> QED  BY <1>2, <2>1, <2>2, <4>1, <4>2, PairKept
    <3> QED  BY <3>1, <3>2
  <2> QED  BY <2>3, <2>4 DEF HeardInv
<1>4. CASE Listen
  <2>1. /\ app.at = "listen" /\ app'.at \in {"count", "publish"} /\ app'.todo = Tail(app.todo)
        /\ listener' = [listener EXCEPT ![Head(app.todo)] = "here"]
        /\ UNCHANGED <<table, device, events, heard>>
    BY <1>4 DEF Listen, AfterListen
  <2>2. Len(app.todo) \in Nat /\ Len(app.todo) >= 1  BY <1>1, <2>1
  <2>3. /\ app.todo # <<>> /\ Head(app.todo) = app.todo[1] /\ 1 \in 1 .. Len(app.todo)
        /\ Len(Tail(app.todo)) = Len(app.todo) - 1
        /\ \A j \in 1 .. Len(app.todo) - 1 : Tail(app.todo)[j] = app.todo[j + 1]
    BY <1>1, <2>2
  <2>4. \A j \in 1 .. Len(app.todo) - 1 : j + 1 \in 1 .. Len(app.todo) /\ j + 1 # 1  BY <2>2
  <2>5. TodoIsNew'
    <3>1. ASSUME NEW j \in 1 .. Len(app.todo) - 1 PROVE listener'[Tail(app.todo)[j]] = "none"
      <4>1. app.todo[j + 1] # app.todo[1] /\ listener[app.todo[j + 1]] = "none"
        BY <1>1, <2>1, <2>3, <2>4 DEF TodoIsNew
      <4>2. app.todo[j + 1] \in Cams  BY <1>1, <2>4
      <4> QED  BY <1>1, <2>1, <2>3, <4>1, <4>2
    <3>2. ASSUME NEW i \in 1 .. Len(app.todo) - 1, NEW j \in 1 .. Len(app.todo) - 1,
                 Tail(app.todo)[i] = Tail(app.todo)[j]
          PROVE  i = j
      <4>1. i + 1 = j + 1  BY <1>1, <2>1, <2>3, <2>4, <3>2 DEF TodoIsNew
      <4> QED  BY <2>2, <4>1
    <3> QED  BY <2>1, <2>3, <3>1, <3>2 DEF TodoIsNew
  <2>6. NotYetHeard'  BY <2>1 DEF NotYetHeard
  <2>7. ASSUME NEW c \in Cams, NEW s \in Settings PROVE PairOK(c, s)'
    <3>1. CASE c = Head(app.todo)  BY <1>1, <2>1, <3>1 DEF NotYetHeard, PairOK
    <3>2. CASE c # Head(app.todo)
      <4>1. listener'[c] = listener[c]  BY <1>1, <2>1, <3>2
      <4>2. ~Storing(c, s)  BY <2>1 DEF Storing
      <4> QED  BY <1>2, <2>1, <4>1, <4>2, PairKept
    <3> QED  BY <3>1, <3>2
  <2> QED  BY <2>5, <2>6, <2>7 DEF HeardInv
<1>5. CASE PublishCount
  <2>1. app.at = "count" /\ app'.at = "idle" /\ UNCHANGED <<listener, table, device, events, heard>>
    BY <1>5 DEF PublishCount, Idle
  <2>2. TodoIsNew' /\ NotYetHeard'  BY <2>1 DEF TodoIsNew, NotYetHeard
  <2>3. \A c \in Cams, s \in Settings : ~Storing(c, s)  BY <2>1 DEF Storing
  <2>4. \A c \in Cams, s \in Settings : PairOK(c, s)'  BY <1>2, <2>1, <2>3, PairKept
  <2> QED  BY <2>2, <2>4 DEF HeardInv
<1>6. CASE LocalStore
  <2> DEFINE c0 == Head(app.todo)
  <2>1. /\ app.at = "store" /\ app'.at = "idle" /\ UNCHANGED <<listener, device, events>>
        /\ heard' = heard \ {<<c0, app.s>>} /\ table' = [table EXCEPT ![c0][app.s] = app.v]
    BY <1>6 DEF LocalStore, Idle
  <2>2. TodoIsNew' /\ NotYetHeard'  BY <2>1 DEF TodoIsNew, NotYetHeard
  <2>3. ASSUME NEW c \in Cams, NEW s \in Settings PROVE PairOK(c, s)'
    <3>1. CASE c = c0 /\ s = app.s  BY <2>1, <3>1 DEF PairOK
    <3>2. CASE ~(c = c0 /\ s = app.s)
      <4>1. table'[c][s] = table[c][s]  BY <2>1, <3>2 DEF TypeInv, ValuesOK
      <4>2. ~Storing(c, s)  BY <3>2 DEF Storing
      <4> QED  BY <1>2, <2>1, <4>1, <4>2, PairKept
    <3> QED  BY <3>1, <3>2
  <2> QED  BY <2>2, <2>3 DEF HeardInv
<1> QED  BY <1>3, <1>4, <1>5, <1>6 DEF Inside

\* A write of the dashboard.
LEMMA WriteHeard ==
    ASSUME TypeInv, HeardInv, NEW c0 \in Cams, NEW s0 \in Settings, NEW v0 \in RemoteWrites,
           RemoteWrite(c0, s0, v0)
    PROVE  HeardInv'
<1> DEFINE e0 == [c |-> c0, s |-> s0, v |-> v0]
<1>1. /\ table' = [table EXCEPT ![c0][s0] = v0] /\ UNCHANGED <<listener, device, app>>
      /\ heard' = IF listener[c0] = "none" THEN heard \ {<<c0, s0>>} ELSE heard \cup {<<c0, s0>>}
      /\ events' = IF listener[c0] = "none" THEN events ELSE Append(events, e0)
  BY DEF RemoteWrite
<1>2. events \in Seq(Event) /\ Len(events) \in Nat /\ table \in [Cams -> [Settings -> Int]]
  BY DEF TypeInv, RestOK, ValuesOK
<1>3. TodoIsNew'  BY <1>1 DEF HeardInv, TodoIsNew
<1>4. NotYetHeard'
  <2> SUFFICES ASSUME app.at = "listen", NEW s \in Settings PROVE <<Head(app.todo), s>> \notin heard'
    BY <1>1 DEF NotYetHeard
  <2>1. app.todo \in Seq(Cams) /\ Len(app.todo) \in 1 .. Len(cams) /\ cams \in Seq(Cams)
    BY DEF TypeInv, AppOK, IndInv, TodoIsSuffix, Types
  <2>2. 1 \in 1 .. Len(app.todo) /\ Head(app.todo) = app.todo[1]  BY <2>1
  <2>3. listener[Head(app.todo)] = "none"  BY <2>2 DEF HeardInv, TodoIsNew
  <2> QED  BY <1>1, <2>3 DEF HeardInv, NotYetHeard
<1>5. ASSUME NEW c \in Cams, NEW s \in Settings PROVE PairOK(c, s)'
  <2>0. PairOK(c, s) /\ (Storing(c, s) <=> Storing(c, s)')  BY <1>1 DEF HeardInv, Storing
  <2>1. CASE listener[c0] = "none"
    <3>1. CASE c = c0 /\ s = s0  BY <1>1, <2>1, <3>1 DEF PairOK
    <3>2. CASE ~(c = c0 /\ s = s0)
      <4>1. table'[c][s] = table[c][s]  BY <1>1, <1>2, <3>2
      <4> QED  BY <1>1, <2>0, <2>1, <4>1, PairKept
    <3> QED  BY <3>1, <3>2
  <2>2. CASE listener[c0] # "none"
    <3>1. /\ events' = Append(events, e0) /\ Len(events') = Len(events) + 1
          /\ events'[Len(events) + 1] = e0 /\ \A k \in 1 .. Len(events) : events'[k] = events[k]
      BY <1>1, <1>2, <2>2
    <3>2. CASE c = c0 /\ s = s0
      <4>1. Len(events) + 1 \in 1 .. Len(events')  BY <1>2, <3>1
      <4>2. Queued(c, s)'  BY <3>1, <3>2, <4>1 DEF Queued
      <4>3. LastOK(c, s)'
        <5> SUFFICES ASSUME NEW k \in 1 .. Len(events'), LastOf(events', k, c, s)
                     PROVE  events'[k].v = table'[c][s]
          BY DEF LastOK
        <5>1. ~(k < Len(events) + 1)  BY <3>1, <3>2, <4>1 DEF LastOf
        <5>2. k = Len(events) + 1  BY <1>2, <3>1, <5>1
        <5> QED  BY <1>1, <1>2, <3>1, <3>2, <5>2
      <4> QED  BY <4>2, <4>3 DEF PairOK, EffectOK
    <3>3. CASE ~(c = c0 /\ s = s0)
      <4>1. table'[c][s] = table[c][s] /\ (<<c, s>> \in heard' => <<c, s>> \in heard)
        BY <1>1, <1>2, <3>3
      <4>2. ASSUME NEW k \in 1 .. Len(events'), events'[k].c = c, events'[k].s = s
            PROVE  k \in 1 .. Len(events)
        <5>1. k # Len(events) + 1  BY <3>1, <3>3, <4>2
        <5> QED  BY <1>2, <3>1, <5>1
      <4>3. 1 .. Len(events) \subseteq 1 .. Len(events')  BY <1>2, <3>1
      <4>4. Queued(c, s)' <=> Queued(c, s)  BY <3>1, <4>2, <4>3 DEF Queued
      <4>5. LastOK(c, s) => LastOK(c, s)'
        <5> SUFFICES ASSUME LastOK(c, s), NEW k \in 1 .. Len(events'), LastOf(events', k, c, s)
                     PROVE  events'[k].v = table'[c][s]
          BY DEF LastOK
        <5>1. k \in 1 .. Len(events)  BY <4>2 DEF LastOf
        <5>2. LastOf(events, k, c, s)  BY <3>1, <4>3, <5>1 DEF LastOf
        <5> QED  BY <3>1, <4>1, <5>1, <5>2 DEF LastOK
      <4> QED  BY <1>1, <2>0, <4>1, <4>4, <4>5 DEF PairOK, EffectOK
    <3> QED  BY <3>2, <3>3
  <2> QED  BY <2>1, <2>2
<1> QED  BY <1>3, <1>4, <1>5 DEF HeardInv

\* The delivery of the oldest write.
LEMMA DeliverHeard == ASSUME TypeInv, HeardInv, Deliver PROVE HeardInv'
<1> DEFINE e == Head(events)
<1>1. /\ events # <<>> /\ events' = Tail(events)
      /\ UNCHANGED <<listener, table, app, heard>>
      /\ device' = device \/ device' = [device EXCEPT ![e.c][e.s] = Applied(e.s, e.v)]
      /\ listener[e.c] = "here" /\ e.v # -1 => device' = [device EXCEPT ![e.c][e.s] = Applied(e.s, e.v)]
  BY DEF Deliver
<1>2. /\ events \in Seq(Event) /\ device \in [Cams -> [Settings -> Int]]
  BY DEF TypeInv, RestOK, ValuesOK
<1>3. /\ e = events[1] /\ e \in Event /\ Len(events) \in Nat /\ Len(events) >= 1
      /\ Len(events') = Len(events) - 1
      /\ \A k \in 1 .. Len(events) - 1 : events'[k] = events[k + 1]
  BY <1>1, <1>2
<1>4. e.c \in Cams /\ e.s \in Settings  BY <1>3 DEF Event
<1> HIDE DEF e
<1>5. TodoIsNew' /\ NotYetHeard'  BY <1>1 DEF HeardInv, TodoIsNew, NotYetHeard
<1>6. ASSUME NEW c \in Cams, NEW s \in Settings, <<c, s>> \in heard, listener[c] = "here"
      PROVE  LastOK(c, s)' /\ EffectOK(c, s)'
  <2>0. LastOK(c, s) /\ EffectOK(c, s)  BY <1>6 DEF HeardInv, PairOK
  <2>1. \A k \in 1 .. Len(events) - 1 : k + 1 \in 1 .. Len(events)  BY <1>3
  <2>2. \A k \in 1 .. Len(events) : k # 1 => k - 1 \in 1 .. Len(events) - 1 /\ events'[k - 1] = events[k]
    <3> SUFFICES ASSUME NEW k \in 1 .. Len(events), k # 1
                 PROVE  k - 1 \in 1 .. Len(events) - 1 /\ events'[k - 1] = events[k]
      OBVIOUS
    <3>1. k - 1 \in 1 .. Len(events) - 1 /\ (k - 1) + 1 = k  BY <1>3
    <3> QED  BY <1>3, <3>1
  <2>3. LastOK(c, s)'
    <3> SUFFICES ASSUME NEW k \in 1 .. Len(events) - 1, LastOf(events', k, c, s)
                 PROVE  events'[k].v = table[c][s]
      BY <1>1, <1>3 DEF LastOK
    <3>1. ASSUME NEW j \in 1 .. Len(events), j > k + 1 PROVE ~(events[j].c = c /\ events[j].s = s)
      <4>1. j # 1 /\ j - 1 > k  BY <1>3, <3>1
      <4> QED  BY <1>3, <2>2, <4>1 DEF LastOf
    <3>2. LastOf(events, k + 1, c, s)  BY <1>3, <3>1 DEF LastOf
    <3> QED  BY <1>3, <2>0, <2>1, <3>2 DEF LastOK
  <2>4. EffectOK(c, s)'
    <3> SUFFICES ASSUME table[c][s] # -1, ~Queued(c, s)', ~Storing(c, s)
                 PROVE  device'[c][s] = Applied(s, table[c][s])
      BY <1>1 DEF EffectOK, Storing
    <3>1. \A k \in 1 .. Len(events) : k # 1 => ~(events[k].c = c /\ events[k].s = s)
      BY <1>3, <2>2 DEF Queued
    <3>2. CASE e.c = c /\ e.s = s
      <4>1. 1 \in 1 .. Len(events)  BY <1>3
      <4>2. \A j \in 1 .. Len(events) : j > 1 => j # 1  OBVIOUS
      <4>3. LastOf(events, 1, c, s)  BY <1>3, <3>1, <3>2, <4>2 DEF LastOf
      <4>4. e.v = table[c][s]  BY <1>3, <2>0, <4>1, <4>3 DEF LastOK
      <4> QED  BY <1>1, <1>2, <1>6, <3>2, <4>4
    <3>3. CASE ~(e.c = c /\ e.s = s)
      <4>1. device'[c][s] = device[c][s]  BY <1>1, <1>2, <1>4, <3>3
      <4>2. ~Queued(c, s)  BY <1>3, <3>1, <3>3 DEF Queued
      <4> QED  BY <2>0, <4>1, <4>2 DEF EffectOK
    <3> QED  BY <3>2, <3>3
  <2> QED  BY <2>3, <2>4
<1> QED  BY <1>1, <1>5, <1>6 DEF HeardInv, PairOK

\* For any cameras, settings and values: what the dashboard wrote, and ntcore has
\* delivered, is what the device was told, however registrations, setters, early
\* writes and queued events interleave.
THEOREM AdjustmentsInEffect == Spec => []AdjustmentInEffect
<1>1. Init => HeardInv
  BY DEF Init, HeardInv, TodoIsNew, NotYetHeard, PairOK, Idle
<1>2. TypeInv /\ HeardInv /\ [Next]_vars => HeardInv'
  <2> SUFFICES ASSUME TypeInv, HeardInv, [Next]_vars PROVE HeardInv'  OBVIOUS
  <2>1. CASE UNCHANGED vars
    BY <2>1 DEF vars, HeardInv, TodoIsNew, NotYetHeard, PairOK, LastOK, EffectOK, Queued, Storing
  <2> QED  BY <2>1, CallHeard, InsideHeard, WriteHeard, DeliverHeard DEF Next
<1>3. HeardInv => AdjustmentInEffect
  BY DEF HeardInv, PairOK, EffectOK, AdjustmentInEffect, Adjusted
<1> QED  BY <1>1, <1>2, <1>3, InitTypes, TypeStep, PTL DEF Spec
=============================================================================
