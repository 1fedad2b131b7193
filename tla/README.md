# Verification of VisionServer

TLA+ models of VisionServer 2 (`src/lib-vs/src/core`), model-checked with TLC
and, for what matters most, proved with TLAPS. VisionServer is a C++ library for
vision coprocessors: an application registers cameras, pipelines and output
streams with a static `VisionServer` and lets it run; a dashboard controls it
through network tables while several threads work on shared state without locks.

## 1. Inventory

| Component | State | Operations | Interaction | Hard parts | Correct when |
|---|---|---|---|---|---|
| Run control (`visionserver2.cpp` 254-270, 395-436, 540-600) | `is_running`, `head`, published status, processing threads | `run`, `runSingle`, `runRaw`, `...Thread`, `stop` | called by any application thread; spawns and joins threads | check and set of the flag are separate; two callers; `head` shared | the flag has an owner, sessions do not overlap, `stop` ends what it stops |
| Source routing (231-280, 354-392) | entries "Source Index", `local_idx`, sources of streams and pipelines | `syncIdx`, `setSourceIdx`, the index test of `pipelineRunner`, `compensate` | dashboard writes entries; loop, processing threads and application read and write | three writers of one index; indices out of range; registry changes between sessions | index and source agree, a selection takes effect |
| Single-threaded processing (431-551) | "Pipeline Index", "Camera Index", `p_idx`, `c_idx`, open pipelines | `runSingle` | dashboard, streams, `stop` | init/close pairing through switches, stops, restarts | exactly the active pipeline is open, switches reach the streams |
| Cameras (`visioncamera.cpp`, `visionserver2.cpp` 44-88) | vector of cameras, listeners, entries, device settings | `addCamera(s)`, `setCameras`, setters, listener | ntcore's thread calls the listener; dashboard writes entries | listener captures an address; queued events against local setters | listeners are current, devices follow their entries |
| Program exit (14-18, `visionserver2.h` 27-30, 129) | `head`, registered exit handler | `stopExit`, destruction of the static server | runs beside the library's threads | a joinable thread that is destroyed aborts | only an unregistered exit during a session aborts |
| Registry (21-32, 90-221, `visionserver2.h` 272-325) | `pipelines`, `heap_allocated`, `streams`, `src_matrix` of every pipeline | `addPipeline(s)`, `setPipelines`, templates, `addStream(s)`, `setCamera`, `compensate` | read by the run functions | ownership of raw pointers, loop bound of a template, pointers into a vector that moves | every registered pointer is alive, calibration belongs to the camera |
| Configuration (`config.cpp`) | parsed JSON, network mode | `loadJson`, `initNT`, `initSimNT`, `createCameras`, `readConfig` | starts ntcore, creates cameras | partial failure | failure leaves the cameras alone and is reported |
| Calibration (`calib.h`, `visioncamera.cpp` 139-222) | lists by type and resolution, matrices | lookups, JSON parsing | used by configuration and pipelines | partial parse, shared buffers | a camera has the matrix of its entry |
| Targets (`target.h`) | published status | set, expire, destroy | pipelines publish for the robot | copies share an entry | status reflects the live target |
| NEON kernels (`neon.h`, `neon64.S`) | counts, pointers, frames | wrappers and loops | called inside `process` | a count of zero, tails, branches to other loops | inside the frame, every byte made from the bytes of its pixel |
| TfLite models, vision helpers, AprilTag pose | interpreter, buffers | inference, geometry | called inside `process` | floating point | |
| VisionServer 1, scripts, build, vendored libraries | | | not part of the library or not this program | | |

The repository has no tests; comments in the headers and `README.md` are the
only statements of intent, and the `violation` runs quote them. `cpp-tools` is a
submodule without content here.

## 2. Modules

| Module | Models | Notes |
|---|---|---|
| `RunControl` | start and stop, any number of callers | one step per access to shared state; `MayCall` states the usage discipline |
| `Session` | abstract: what a dashboard may see of sessions | `RunControl` implements it (`ImplementsSession`) |
| `Routing` | stream and pipeline sources, `compensate`, registry changes | a session is one call of `run()` or `runRaw()` |
| `RunSingle` | `runSingle` | |
| `CameraSettings` | registration of cameras, remote and local settings | |
| `ProcessExit` | how the program ends | extends `RunControl`, whose threads go on underneath |
| `Registry` | ownership of pipelines, streams, pointers into the cameras | checked directly |
| `Config` | configuration files, calibrations, partial failure | files and lists come from `MCConfig` |
| `NeonKernels` | the assembly loops and their wrappers | checked directly |
| `RunControlProofs`, `RunSingleProofs`, `RoutingProofs`, `CameraSettingsProofs`, `ProcessExitProofs`, `RegistryProofs`, `ConfigProofs`, `NeonKernelsProofs` | theorems | each extends the module it is named after; `ProcessExitProofs` also `RunControlProofs` |
| `MCRunControl`, `MCProcessExit`, `MCRouting`, `MCRunSingle`, `MCCameraSettings`, `MCConfig` | instances for TLC | values and usage disciplines only |

### How state and actions correspond to the code

*RunControl.* `pc[t]` is the position of a context (a caller or the thread of
`head`) in the function it executes. `CheckPasses`, `SetRunning`,
`PublishStatus`, `Spawn`, `LoopPass`, `LeaveLoop`, `JoinRunners`,
`PublishOffline` are the accesses of the run functions in source order; `runRaw`
publishes before it sets the flag, the others after. `RunnerInit`, `RunnerPass`,
`RunnerLeave`, `RunnerClose` are `pipelineRunner`. `StopFlag`, `StopFindsHead`,
`BeginJoin`, `StopReturnsTrue` and `StopReturnsFalse` are `stop()`. A `...Thread`
function creates its thread (`Launch`) and then assigns it to `head`
(`AssignHead`), so the session may be under way while `stop()` finds nothing to
join. There is one background thread: a second launcher that has passed the test
waits for the first assignment and then terminates the program, without its own
short-lived thread. Assigning to a joinable `std::thread`, or joining one that is
not joinable or already being joined, sets `aborted`, after which nothing happens.

*Routing.* A source is a camera or pipeline itself, not its index, so that an
index can name another source after `setCameras`. `SyncRead`, `SyncLocal`,
`SyncSource` are `syncIdx`; `SetIdxCheck` ... `SetIdxPublish` are `setSourceIdx`
in its different order. `negatives` is the undefined outcome of line 277: the
bound is computed from the address of `numPipelines`, so either all negative
indices pass or none, chosen once. The registering functions test only the flag:
`ChangeCameras` and `ChangePipelines` may come while readers of the last session
are still there, and then either nothing happens or a data race ends the program
(`fate = "raced"`); an exception that leaves a processing thread ends it with
`"threw"`.

*RunSingle.* One action per part of the loop body. `cameras[c_idx]` (line 467) is
counted from 1: camera `NCams + 1` stands for the memory behind the last one, and
`SelectBehind`, which reads it, goes on or ends the program (`pc = "crashed"`).

*CameraSettings.* `listener[c]` tells whether the captured `this` is where the
camera is. Growing the vector turns `here` into `gone` (`Moved`); `setCameras`
destroys the old cameras, their listeners and what is queued for these. `events`
is ntcore's queue; every write in it is for a camera of the vector (`QueuedOwned`
in the proofs), so that `setCameras` leaves it empty. A dashboard may write as
soon as an entry is published; without a listener the write is queued for nobody.
`heard` remembers which entries hold what a dashboard wrote to a listener. A
listener of a moved camera runs on freed memory: `Deliver` then ignores the write
or ends the program (`crashed`).

*ProcessExit.* `phase` follows the end of the program: `main()`, the exit
handlers in reverse order of registration, the destruction of the static server.
`stopExit` is registered after the server was first used, as in `README.md`, so
it runs first. `Destroy` destroys `head`.

*Registry.* A heap object is a number that is never reused; an address inside the
vector of cameras is a block of memory and a position, and growing or replacing
the vector takes a new block. `NewPipelines` is the outcome of the unsigned loop
of `addPipelines<...>()`, whose exception the application catches; `threw`
remembers it. `addStream` takes any name. A session is that of `run()` or
`runSingle()`; what starts and ends it is in `RunControl`. In the second, a
selection may lie behind the cameras (`SetCameraBehind`). `ready` is a history
variable: since a pipeline was first connected to a camera, `compensate()` has
succeeded after every change that may leave a pointer stale, and no selection went
behind the end.

*Config.* One step per stage of a loading function, so that a function can stop
half way. `shared` is the buffer of `default_matrix` and `default_distort`:
`camera_matrix{default_matrix}` copies the handle, not the elements, and the JSON
parser writes elements. A matrix has two cells instead of nine, enough to be half
written. A camera remembers who made it and whether the device knew its mode
(`VideoMode` converts to true when its format is unknown, `cscore_cpp.h:85`).
`Fitting` tells which parts of a calibration of the list have the size of the
defaults: `setCameraMatrix` and `setDistortionCoefs` each refuse their part
otherwise. `layout` tells whether "properties" is an object, in which "type" is
found, or the array of `docs/Calibration.md`, in which it is not. The catch around
the loop over the cameras is left out: nothing inside throws past its own handler.

*NeonKernels.* `Body` gives the strides of each loop and the label its branch
names; `x` are the pointer registers. A written byte is recorded as an operation
and the operands it was made from. `Wrappers` are the calls that `CV_Assert` lets
through, with frames of up to `MaxChannels` channels of up to `MaxDepth` bytes
where the assertions leave the type open: `neon_bitwise_or` of three frames of one
type, the result of `neon_subtract`. A count below zero stands for the wrapped
register, which does not get to zero before `Stray`, an access outside a frame,
after which nothing is defined. Frames are continuous, as `neon64.S` requires.

Left out everywhere: frames, statistics, text drawn into frames, frame rate.
Sleeps are steps that take any finite time. Doubles read from the tables are
truncated to `int` by the code; the models write integers.

## 3. Runs

Passing runs:

| Run | Shows | Bounds |
|---|---|---|
| `free` | two callers, every function: `RunningHasOwner`, `RunnersEnclosed`, `WindsDown` | 2 callers, 2 pipelines: two run functions, `head` and two stops can overlap |
| `blocking` | a runner and a stopper: `ImplementsSession`, `StopEndsRun` | 3 pipelines, so that fewer, as many and more threads than before are spawned after reconfiguration |
| `exit` | one caller registers, starts in the background, stops and leaves `main()` at any time: `AbortsOnlyUnregistered`, `DownWhenHeadDown`, `ExitCompletes` | 2 pipelines; the handler is registered or not |
| `routing` | `StreamFollowsIndex`, `OnlyFarIndicesThrow`, `StreamConverges`, `PipelineSwitches` while a dashboard writes indices inside and beyond both ends of the registry | two cameras, one pipeline, one stream: streams interact only through `compensate`; a fixed registry, `compensate()` between sessions |
| `routing_registry` | `StreamSwitches` through any registrations of two cameras and a pipeline, also while a stopped session winds down | starts empty; includes the index that makes `pipelines.at()` throw |
| `single` | `OneOpen`, `StreamFollowsIndex`, `SwitchReachesStreams`, `SelectionTakesEffect`, `StreamConverges`, `StopCloses` while a dashboard writes all three kinds of index | two pipelines, two streams, two cameras; pipeline indices 0 to 3; the last camera, which line 467 takes for the one behind it. What holds "for good" is stated of sessions that this does not end |
| `settings` | `ListenersOwned`, `AdjustmentInEffect`, `SettingsFollow` with cameras added one by one or replaced, local setters and remote writes from publication on | two cameras, one setting (exposure, which has both a clamp and -1), two queued events; a value that both sides write, one above the range, -1 |
| `registry` | `NoDangling`, `OwnedOnce`, `LensAlive`, `LensMatches` over every order of registrations, exchanges and sessions of both kinds | an own pipeline, 2 heap objects, 2 registered pipelines, a stream, 2 cameras in 3 blocks: enough for a template call with and without owned objects, a vector that moves and one that does not |
| `config` | `FailureKeepsCameras`, `ClientHasServer`, `OneCameraPerEntry`, `ListCalibrationFits` for any sequence of calls | 11 files covering every branch of the functions, a type in an object and in an array; a list with a calibration that fits, one whose matrix and one whose distortion does not; 2 cameras in the vector |
| `kernels` | `StaysInside`, `ComputesReference` for each call the assertions let through and each size | 4 lanes instead of 16, up to 13 pixels: no block, one, two and three, with every rest; up to 3 channels of 1 or 2 bytes |

Each instance has two of whatever can collide (callers, pipelines, cameras,
queued events) and indices on both sides of each bound. `CHECK_DEADLOCK FALSE`
appears only where something ends: the program in `std::terminate` (`free`), by
an exception that leaves a thread or a data race (`routing`, `routing_registry`),
by a listener on freed memory (`settings`) or by returning (`exit`), and a kernel
(`kernels`).

Violation runs; each is a finding in `PROJECT.json` with the quoted line:

| Run | The code |
|---|---|
| `lost_stop_background` | `stop()` right after `runThread()` joins a thread that then runs for ever |
| `shared_calibration` | all cameras calibrated from the file share one matrix, that of the last |

Further divergences that the models contain and no run is kept for (`VS` is
`visionserver2`, `VC` is `visioncamera`):

| Code | Says | The code |
|---|---|---|
| VS.cpp:398 | VS.h:123 "blocks until stop() is called" | a `stop()` between check and set of the flag is lost to a blocking `run()` as well |
| VS.cpp:595 | VS.h:128 "returns if any instances were actually stopped" | false after stopping a blocking `run()` |
| VS.cpp:596 | VS.h:128 | two threads in `stop()` may both find `head` joinable; the second `join()` throws |
| VS.cpp:571 | VS.h:125 | two threads may both pass the test of a `...Thread` function; the second assignment to `head` terminates the program |
| VS.cpp:91 | | the guard of the add and set functions tests a flag that drops before the threads that read the vectors are gone, and that another thread may raise before the change is made: a data race (`fate = "raced"` in `Routing`) |
| VS.cpp:396 | VS.h:121 "stops when processing is started" | `run()` is refused during raw streaming instead of ending it |
| VS.cpp:232 | VS.h:119 "attempts to attach" | a stream that already has the index is not attached by `compensate()` |
| VS.cpp:277 | README:19 "Chain pipeline outputs" | the bound is the function's address (`negatives` in `Routing`), so negative indices may never pass, or, if they all do, one beyond the pipelines throws in a thread that nobody catches for |
| VS.cpp:238 | README:18 "dynamically assign input sources during runtime" | `compensate()` during a session interleaves with `syncIdx()` and leaves index and source of a stream apart for good (`StreamConverges` fails with `LiveCompensate = TRUE`) |
| VS.cpp:263 | README:27 "Simple object detection program" | a processing thread starts with the index it publishes, so camera 1 is not attached until another index is written |
| VS.cpp:467 | README:22 "dynamic runtime control" | `runSingle` uses `cameras[c_idx]` with an index counted from 1: the first camera cannot be selected, the last index is behind the end, with one camera already on the first pass (`SelectBehind` in `RunSingle`, `SetCameraBehind` in `Registry`) |
| VS.cpp:464 | README:22 | a pipeline selected after the camera gets no input |
| VS.cpp:24 | | after `addCamera(s)` or `setCameras` the pipelines' matrices dangle until `setCamera` is called again; the example of README.md never calls `compensate()` (`LensAlive` fails without `ready`) |
| VS.h:291 | VS.h:97 | `addPipelines<...>()` never returns: it throws, the first time with its objects owned and not registered, later with the last old one registered twice |
| VS.cpp:123 | | `setPipelines(getPipelines())` destroys the objects of the templates it is given |
| VS.cpp:183 | | streams are numbered by the length of the vector, and `addStream` takes any name: two streams may share their entry |
| VS.h:279 | | the templates do not publish "Pipelines Available" |
| VC.cpp:291 | VC.h:214 "Publish networktables-adjustable settings" | a later `addCamera(s)` may move a camera away from the `this` its listener captured; from then on its settings are not adjustable (`listener = "gone"`), and the listener runs on freed memory (`crashed`) |
| VC.cpp:289 | VC.h:214 | a write between publication and listener is not seen, so it is in the entry and not on the device (`heard` leaves it out) |
| VC.cpp:269 | VC.h:177 "Get the current brightness setting" | an older remote write is delivered after a local one, so the getter and the device differ |
| VC.cpp:298 | VC.h:182 "-1 for auto" | a remote -1 is dropped as a sentinel (`SettingsFollow` leaves -1 out) |
| VC.cpp:262 | VC.h:182 "0-100" | a getter returns the value as written, the device was given the clamped one |
| VC.cpp:216 | | a calibration of a list whose distortion has not five coefficients, or whose matrix is not 3 x 3, is taken in half; `createCameras` does not look at the result |
| VC.cpp:161 | | a matrix with a missing element is left half written and reported as read |
| VC.cpp:49, 66 | | the two constructors test the mode of the device with opposite signs, and `VideoMode` is true when it is unknown |
| config.cpp:35 | docs/Calibration.md:10 "\"client\" if unspecified" | without "ntmode" nothing is started (`NtNothing`) |
| config.cpp:222 | config.h:32 "false if there was an error" | true without cameras, with an unreadable mode or a calibration that does not exist |
| config.cpp:134 | docs/Calibration.md:76-84, 105 | "type" is looked for in an object; in the array that the document shows, and the web interface writes, it is never found, so the list is not consulted (`HasType`) |
| neon64.S:45 | | a kernel subtracts before it tests its count, and no wrapper tests for frames with less than a register: it runs through memory (`Enough`) |
| neon.h:317 | neon.h:7 "use CV_Assert for checking correnct mat sizes/channel nums" | `neon_subtract` compares the type of its result with itself, so a wider one is filled in its first part |
| neon.h:230 | neon.h:7 | `neon_bitwise_or` takes any equal types and counts channels, not bytes: of channels of two bytes it does the first half, and with few pixels the count is zero |
| neon64.S:61 | neon.h:20 | `memcpy_threshold_binary_asm` reads its destination and writes its source, and line 59 sets the threshold for eight of the sixteen lanes |
| neon64.S:141 | neon64.S:110 "Destination address" | `memcpy_wst_asm` stores through its second operand, past its end, and never into the destination |
| neon64.S:307, 369 | neon.h:65 | `or_3c` and `add_3c2` go on in the loop of another kernel from the second block on, as `Works` leaves out |
| neon64.S:261 | | the single pixels at the end of `togray` get a quarter of the last channel |

### Fairness

Weak fairness for each thread inside the library (`ExitSpec` adds the C++
runtime, which calls the exit handlers and destroys the server; run functions, processing
threads, `stop()` once called, `compensate()` once called, ntcore's delivery):
the code never blocks there except in `join`, in `GrabFrame`, which has a
timeout, and in sleeps of finite length, and the operating system schedules
every thread. Application calls, dashboard writes and `stop()` itself are never
assumed to happen.

## 4. Proofs

`RunControlProofs`, for every set of callers, number of pipelines and (unless
stated) every usage discipline, from `ConstantsAssumption`:

* `TypeCorrect`, `FlagHasOwner`, `RunnersAreEnclosed`. `RunningHasOwner` is not
  inductive: `Launch` overwrites the position of `head`, which is harmless only
  because there is no background thread at that time. `IndInv` adds when there is
  one (`HeadOwned`), the mode of a context (`ModeKnown`), the positions callers and
  `head` can have (`PlacesOK`) and that runners belong to a multithreaded run
  (`RunnersInMulti`).
* Under `SoleUse(u)` (one caller runs and reconfigures while the others only
  stop, or only background sessions on a fixed registry) one context `u` executes
  run functions. `SoleInv` says that the published status is exactly what `u` has
  announced. From it: `SessionRefinement` (every step is a step of `Session` or
  stutters).
* `HeadDownServerDown`, for any number of callers that may reconfigure but use no
  blocking run function (`BackgroundUse`). `BackgroundInv` says that no caller is
  inside a run function and that the status is the one `head`'s thread announced.

`RunSingleProofs`, for all numbers of cameras, pipelines and streams and all
writes of the dashboard, from `SingleAssumption`: `OpenClosePaired`,
`StreamsFollow` and `SwitchReaches`. `SwitchReachesStreams` needs two facts: the
streams before `i` already serve the new pipeline (`ToldStreams`), and a stream
skipped because it has the index serves it too (`StreamFollowsIndex`).

`RoutingProofs`, for any cameras, pipelines, streams and written indices:

* `TypeCorrect`.
* `StreamsFollow`, if `compensate()` is called between sessions on a fixed registry
  (`QuietUse`; with either relaxed the property fails, see section 3). Index and
  source change in two steps, in one order in `syncIdx()` and in the other in
  `setSourceIdx()`. `StreamInv` says what holds half way through each
  (`HalfDone`) and that the two are never under way together (`Exclusive`).
* `ThrowsOnlyFar`, for any registry, changed at any time the code allows, and any
  indices: what makes a processing thread throw is an index below minus the number
  of pipelines, where the undefined bound of line 277 lets it through.

`CameraSettingsProofs`, for any cameras, settings, values and queue bounds:

* `ListenersAreOwned`. `ListenersOwned` speaks of the moments between two calls;
  `IndInv` adds that what a registration has left to do is the end of the vector,
  in order (`TodoIsSuffix`), and that exactly the cameras before it have listeners
  (`ListenersSoFar`).
* `TypeCorrect`, which includes that no device is told more than 100 percent. It
  needs `QueuedOwned` and the values a setter carries to its second step (`AppOK`).
* `AdjustmentsInEffect`. Entry and device are changed in different orders by the
  dashboard and by the setters, and events are applied late. `HeardInv` says that
  the last queued write of a setting is what its entry holds (`LastOK`), and, with
  nothing queued and no setter half way, the device has it (`EffectOK`); a
  registration that is under way concerns cameras without a listener (`TodoIsNew`).

`ProcessExitProofs`, for any number of pipelines:

* `ExitIsSafe`, for a program in which one thread calls the server (`SoleCaller`;
  two threads in `stop()` may both join). It extends the invariant of `RunControl`
  by `HandleInv`: what `Main` has tested about `head` stays true until it acts on
  it, and with a handler `head` is not joinable any more when the server is
  destroyed.
* `DownAtExit`: `BackgroundInv` also holds while the program ends, so
  `DownWhenHeadDown` does, again under `BackgroundUse`.

`RegistryProofs`, for any cameras, own pipelines and bounds:

* `TypeCorrect`, `RegisteredAlive`, `OwnedRegisteredOnce`. `NoDangling` is not
  inductive: a new heap object must not be one that is registered already. `IndInv`
  adds that objects are numbered as they are made (`HeapMade`).
* `MatricesAlive` and `MatricesMatch`, for every order of changes and sessions of
  both kinds; the properties themselves are about the sessions for which `ready`
  holds. They follow from `LensCurrent`: as long as `ready` holds, every connected
  pipeline has the address of its camera in the present block.

`ConfigProofs`, for any files, any list of calibrations and any order of calls:

* `TypeCorrect`, `FailureAddsNothing`, `ClientKnowsServer`, `EveryEntryACamera`.
  The last needs how far a function is in its entries (`Progress`).
* `ListedCalibrationFits`, for a list with one set per type and no set or size
  called `Absent` (`ProperList`), whose calibrations have matrices and distortions
  of any size, and entries of either layout. The assumption is needed: `findSet`
  takes the first set of a type, and a calibration in a second one is never found.

`NeonKernelsProofs`, for any number of lanes and frames of any size, channels and
depth, so also for the 16 lanes of the code, where the run has 4:

* `TypeCorrect` and `StayInside`. `IndInv` bounds every pointer by the lanes still
  to do: offset plus lanes left times bytes per lane is at most the length of the
  frame (`Fits`). A branch into another loop keeps that because the other loop
  needs no more bytes per lane (`BodyTable`), and types the assertions let through
  by accident because their frames have more bytes than are counted (`Covers`).
  With enough pixels every pass has a count to subtract from (`Runs`).
* `Computes`, for the calls of `Works`: enough pixels, one byte for each that is
  counted, and none of the kernels that mix up their arguments or loops. `Progress`
  says that such a call is still in its own loop, that its pointers are equally
  many lanes into their frames, and that the result is the reference up to there
  and untouched behind. The byte of a pass equals the byte of the reference by two
  facts about division (`DivShift`, `DivScale`). This is about addresses: what a
  lane computes is not interpreted.

Every invariant that a run checks is proved, as are `ImplementsSession` and the
action property `SwitchReachesStreams`, but some only for the use stated above.
Only model-checked: all liveness (`WindsDown`, `StopEndsRun`, `ExitCompletes`,
`StreamConverges`, `PipelineSwitches`, `StreamSwitches`, `SelectionTakesEffect`,
`StopCloses`, `SettingsFollow`), because fairness and `ENABLED` are out of the
prover's reach. `StreamFollowsIndex` of `Routing` is proved under the same use of
the server as its run has.

## 5. Plan

1. Done: `RunControl` with `Session`, `ProcessExit`, `Routing`, `RunSingle`,
   `CameraSettings`, `Registry`, `Config` with the calibrations, `NeonKernels`, and
   the proofs of their invariants.
2. Proofs: the refinement for a program that ends; safety halves of the liveness
   properties (a switch, once made, is not undone by anyone but the dashboard).
3. A module that composes `RunControl` with `Routing`, so that sessions of two
   callers drive the routing; it would take over the run `routing_registry`.

The runs stay few: one per question. What a violation run once showed is kept as
a row of the table of divergences.

## 6. Not modelled

Inference, pose estimation, geometry and the arithmetic of a vector lane are
floating-point or pixel work without control state. `Target` and
`SequentialPipeline` are used by no code of the library, and the second is
undefined from its constructor on (`visionserver2.h:221`). VisionServer 1 is kept
upstream for reference only. Calibration scripts and the build are outside the
running program; `std::thread`, ntcore and the dashboard appear as the code uses
them and are marked external in the map.

Of the 1.25 million lines of C and C++ in the repository, all but about 10 000 are
headers of vendored libraries (OpenCV, TensorFlow Lite, WPILib, protobuf) under
`src/lib-vs/include`; half of the rest is `src/lib-vs/src/core`. They are not the program's own logic and are not modelled;
the models cover the control of `src/lib-vs/src/core`.
