# Windows Hardware Toolbox: TLA+ models, checks and proofs

This directory models the control of the toolbox (`src/`): its threads, the
processes it starts and speaks to, the memory and files it shares with them, the
operations it performs on the system, and the pages that ask for them. The models
are checked on small instances by TLC; the theorems are proved for every value of
the constants by TLAPS.

- `X.tla` is a component. Where a component has a question of its own (its own
  bounds, a liveness question, a property the code does not have), `X.cfg` or
  `XSomething.cfg` is that run.
- `ThreadsMC`, `SystemMC` and `AppMC` instantiate several components that share no
  variable, and check them in one run. A variable `focus` names the component a
  behaviour follows; the others keep their initial state, since interleaving
  independent components would multiply the states and show nothing new.
- `X_proofs.tla` holds the theorems about `X`; those of the joint modules hold the ones
  about each of their components too.
- Definitions that carry a comment "Mutant of ..." are not part of a model. Each is
  the definition it names with a plausible mistake in it, kept to confirm that the
  property `PROJECT.json` names beside it notices it.

## 1. Inventory

Lines refer to the repository. "State" is what a component keeps between calls.

| component | state | operations | speaks to |
|---|---|---|---|
| HardwareService (`services/`) | worker thread, `m_running`, `m_lastRefresh`, fourteen providers | start, stop, `loop()`; forwards the pages' requests | providers (calls), main loop (owner), pages (snapshots) |
| operation runner of eight providers | `opRunning`, `opThread`, `m_lastOperation` | `runOperation`, the thread, the destructor | pages (requests, results) |
| ProcessProvider, ProcessPage | previous sample, `m_inspectPid`, detail, selection, dialog, tree | refresh, requestDetail, end / end tree / suspend / resume / restart / priority / affinity | kernel (processes come and go, numbers are reused) |
| SystemServiceProvider, ServicesPage | cache of configurations, selection, dialog | refresh, start, stop, restart | service control manager |
| StartupProvider, StartupPage | selection, dialog | refresh, enable, disable, delete | startup folders, Run keys |
| NetworkProvider, NetworkPage | previous counters, test result, `testRunning` | refresh, ping test, DNS test | network, page (result filled in place) |
| DeviceProvider, DevicesPage | `m_force`, `m_lastEnum`, selection, dialog | requestRefresh, refresh, enable, disable, remove, rescan | device manager |
| DisplayProvider, DisplayPage | selection of device and mode | refresh, load modes, apply mode | display driver, registry (EDIDs) |
| AudioProvider, AudioPage | last volume sent | refresh, set volume | mixer |
| CPU, GPU, disk usage | PDH query and counters, last value | open, collect, format | performance counters |
| WMI session, sensors, disks | locator, services, namespace, `wmiReady` | connect, query | WMI service |
| memory, battery, camera enumeration | none | refresh | system calls |
| VideoTransformPipeline | thread, status, mapping, generation | start, stop, updateParams, `loop()` | camera, FrameShm, OBS queue |
| frame memory (`FrameShm.h`) | header, frame | writeSharedMemory; ShmFrameReader::read in another process | virtual camera DLL |
| ObsVirtualCam | the OBS queue | open, writeFrame, close | the OBS virtual camera, another process |
| VirtualCameraProvider (DLL) | source and stream state, event queues, references, initialised or not | the class factory, Start, Prestart, Stop, Pause, Shutdown, RequestSample | Media Foundation client |
| VirtualCameraController, Registrar | status, pending name | create, remove | flags of the command line, Windows' cameras |
| CameraEngineController, `camera_engine.py` | process handle, params and status files, heartbeat | start, stop, sendParams, poll; the engine's loop | a Python process, tray, page |
| Config | the file | load, save | a second toolbox |
| main loop, window, tray | device, swap chain, flags, window shown or hidden | WM_*, present, recreate | everything |
| widgets | chart ring, icon textures, preview | draw | Direct3D |

What is hard here, and where it is modelled:

- **Threads without locks.** Snapshots are swapped atomically, but flags, thread
  objects and some published objects are shared without a lock: HardwareService,
  AsyncOperation, NetworkTests, ProcessDetail, VideoTransformPipeline.
- **Memory shared by processes without locks**: FrameShm, ObsQueue.
- **Processes that die, and files that are half written**: CameraEngine.
- **A system that changes between two looks** (process numbers reused, services that
  stop by themselves, files replaced by installers, a selection that is a copy):
  ProcessSampling, ProcessOperations, ProcessMenu, ProcessTree, UsbTree, Display,
  ServiceControl, StartupItems.
- **Calls in any order** on an object with states: VirtualCameraSource,
  CameraObjects, VideoTransformPipeline.
- **A cache at its limit**: Icons.
- **Timeouts**: ServiceControl (five seconds for a stop), CameraEngine (three seconds
  for an engine's exit, five for its heartbeat), HardwareService (a lost
  notification is made good by a timeout).

`PROJECT.json` lists every component with its files, and every hazard at the line
where it bites, with the properties that cover it.

## 2. What is modelled

### HardwareService, SnapshotService

`HardwareService` has the owner (`wWinMain`: start, stop, the destructor) and the
worker (`loop()`): refresh each provider in order, store `m_lastRefresh`, wait on the
condition variable. `stop()` clears the flag and notifies without taking the mutex,
so the wait is split into the evaluation of its predicate and the moment the thread
is queued, and a notification in between is lost. A cycle carries a label, so that
"the snapshots on screen are of one cycle" can be said: `m_lastRefresh` never names a
cycle that has not called every provider and after `stop()` all were called in one
cycle (`LastRefreshIsComplete` and `StoppedAfterWholeCycle`, together `WholeCycles`),
nothing is published after it
(`NothingAfterStop`), `stop()` returns in spite of lost notifications, and every
provider is called again whatever the others throw.

`SnapshotService` says the same without threads: rounds in which every provider is
called once in any order, a stamp, nothing while inactive. `HardwareService`
implements it; the mapping (`ImplementsSnapshotService`) reads the round from the
cycle label and the pending providers from the loop's index.

### AsyncOperation

The eight providers share one runner: a flag, a heap allocated `std::thread`, a
result. A task is abstract here; the providers' modules model the tasks. Checked: a
free runner shows the result of its latest operation, no thread outlives its
provider, operations complete, the program ends. Because of finding 1 below the
modules of the tasks allow one operation per life of the program.

### ProcessSampling, ProcessDetail, ProcessOperations, ProcessMenu, ProcessTree

Five aspects of the process provider and its page that share no state but the list.
`ProcessSampling` is the arithmetic of two samples while processes start, end and
take over numbers. `ProcessDetail` is the request that the page leaves in
`m_inspectPid` and the refresh thread takes, with the page's selection by click and
by context menu. `ProcessOperations` is the end of a process and of a tree (a walk
over parent numbers, then an end for each from the leaves up) and the affinity.

`ProcessMenu` follows one choice in the menu of a row: the row, the dialog and the
thread hold a number, the process behind it may end at any of these moments, and the
number may pass to another. A process has a birth, which the program does not see.
`HitsWhatWasNamed` says what remains true: no process is acted on in place of one that
still runs. `RestartIsHonest` is about `doRestart`, which ends a process and then fails
to launch it. `ProcessTree` is what the page draws of a snapshot, whose parents may
have ended, be another's number or form a circle, while the set of expanded numbers
outlives its processes. `UsbTree` is the same for the USB page, where the memory of open
nodes is ImGui's and what the tree did not draw follows as a list. On a real system every
USB device but the root of all devices has a parent, so that the page has no roots and
is a flat list, whatever `UsbPage.cpp:99` says of a tree.

### Icons

The provider extracts a few icons with each refresh and publishes all it has; the page's
cache makes views of them and lets some go at its limit, before the rows of the same
frame are drawn.

### ServiceControl, StartupItems

The object operated on (one service, one startup folder and key) changes by itself
and by others; the page holds an old copy; the operation's thread works in steps.
`ServiceControl` also has the cache of configurations, and `StartupItems` the entry of
the toolbox itself, which the diagnostics page writes into the same key.

### NetworkTests

The ping test and the DNS test fill the object whose pointer is already published;
the page is split into looking at `inProgress` and reading the rest.

### VideoTransformPipeline, FrameShm, ObsQueue, VirtualCameraSource

The path of a frame. `VideoTransformPipeline` is the life of the capturing thread and
of the status it publishes. `FrameShm` and `ObsQueue` are its two outputs, at the
grain of the pieces of a copy, each with the process on the other side.
`VirtualCameraSource` is the state machine the other side presents to Media
Foundation. They are separate because they share only what the interface modules
expose: a frame's number, and whether the memory is mapped.

Several programs may feed the OBS queue: toolboxes, and OBS itself as far as it works like
this code. `open` is three steps in `ObsQueue` (`Check`, `Create`, `Initialise`), since
the code asks whether the queue exists, creates it, and writes its header without a lock,
and since creating a mapping that exists attaches to it. The history variable `shared`
says that a writer attached that had looked before the queue was there. As long as there
was none, a copy is whole and the camera is never reset under its hands; that such a
writer is the only thing that can reset it is `ResetOnlyByLateOpen`. That the queue in
use is refused, as `open` says in its error, is refuted by the same writer (finding 7).

`CameraObjects` is the life of the DLL's objects: a factory and a source with their
counts, the references of the maker and of the client's threads, and an initialisation
that the first of several calls performs while the others wait. The client is modelled
by the rules of COM it has to follow. `VirtualCamera` is how the camera comes and goes:
the flags of the command line, the action they leave for the camera page, the
controller and the registrar, any of whose calls may fail.

### CameraEngine

Several toolboxes and several engines on one parameter file and one status file. A
file is empty between its truncation and its closing. A toolbox may crash; an engine
may fail to open the camera, fail to read, or be told to stop; ages pass.
`OneEngineEach` says that nobody but its toolbox's crash leaves an engine behind.

`PreviewShm` is the memory through which the engine shows its frames to the camera
page. Neither side locks; the page marks a frame as seen before it copies it, so a
torn picture is possible, and what can be promised is that the preview settles on
the last frame. It does not when making or mapping the texture fails (`missed`): the frame
is marked as seen by then, and a preview that has lost its device misses all of them.
`EngineFrame` is the geometry of `transform()` and of the black bars,
and `PreviewCanvas` that of the canvas on which the user drags and zooms. Zoom and pan
come from the file unclamped, and a slider's text field takes any number, so both modules
have values out of range. The engine clamps the pan, takes a zoom between 0 and 1 as none
and a negative one as a single pixel, and loses every frame with a zoom of 0, which it
divides by (`Lose`). The canvas is covered while zoom and pan are in range, and whatever
is done on it brings them there (`CoversCanvas`).

### MainLoop

The window procedure, the tray menu (which pumps messages of its own, so that
`wndProc` is entered within `wndProc`) and the loop that recreates a lost device and
draws. A Direct3D object is the number of the device that made it; a frame
must be drawn by, and to, objects of one device. The loop's own (the backend, the swap
chain, the target) always are, `LoopDrawsOnOneDevice`. The pages are not told of a
recovery: they keep the pointer of the first device (`pages`) and what they made with it
(`views`, of the cache of icons and of the preview), so that their part is promised until
the first recovery only. After it their textures are of a lost device
(`HandlesRender`, finding 8), and once nothing holds that device any longer the pointer
dangles: `MakeViews` then crashes, or finds the new device at the old address.

### WmiSession, UsageSampling, NetworkRates, DeviceRefresh, Display

What the providers keep from one refresh to the next. `WmiSession` has the
connection and its namespace, three queries per refresh of the disks, and a WMI
service that ends and starts. `UsageSampling` has the three users of PDH, and says of
each published value whether it was measured or is what its member began with.
`NetworkRates` has the samples by interface index while adapters come and go, and says
which rates had two samples to subtract; the others are published as 0 (finding 6).
`DeviceRefresh` has the request flag and the age, against changes and requests
in the middle of a reading; devices carry the number of their last change, so that
"the list has what I asked for" can be said. `Display` has the search of the registry,
which keeps an EDID of every monitor that ever was connected, for the one of a model.

### Config

Loading, with the conversion of each kind of value; the camera page's changes;
saving, with a truncation that a crash may follow; several programs on one file.
`fps` stands for the clamped integers, `camera` for the others, `zoom` for the floating
point numbers, which the loader ignores when the file has an integer.

### Charts

One chart of the dashboard or of the sensors page: when a sample is taken, what is
dropped from the ring, and what is drawn from it: the curve, and the numbers beside it,
which are 0 when the ring is empty (finding 6).

## 3. Runs

| run | instance | shows |
|---|---|---|
| HardwareService | 3 providers, 3 labels | whole cycles, nothing after `stop()`, which returns; every provider again; the refinement |
| ThreadsMC: AsyncOperation | 3 runners, one not allocated, 2 operations | `ResultBeforeFree`, `NoUseAfterDestroy`, `OperationsEnd` |
| ThreadsMC: NetworkTests | 3 echoes of 0, 7, 30 ms or none | `PublishedIsSound` (`ReportIsComplete`, `LatenciesOrdered`): no half-filled report is drawn, its latencies are ordered; `OperationsEnd` |
| ThreadsMC: ProcessDetail | 2 processes | `RequestAnswered` |
| ThreadsMC: VideoTransformPipeline | 3 frames | `StopReleasesAll`, `PublishedIsSound` (`EndedStatus`), `OperationsEnd` |
| ThreadsMC: FrameShm | 2 pieces, 4 frames, 1 restart | `AcceptedFrameAndNextOnly`, `NoFrameTwice`, `LastFrameShown` |
| ThreadsMC: CameraEngine | 2 toolboxes, 1 engine | `LeftoversEnd` (`OrphanExits`; `PhantomEnds`: a status that outlived its engine is not shown for ever), `StopReturns` |
| SystemMC: StartupItems | 1 name, 2 contents, 2 changes by others | `NothingElseLost`, `ReportIsTrue` |
| SystemMC: ServiceControl | 2 configurations, 2 polls, 2 instances | `ShownConfigIsRecent`, `ReportIsTrue` (a restart that saw the service stop brought up a new instance) |
| SystemMC: ProcessSampling | 2 numbers and idle, 3 samples | `SharesAreSound` (`ChargedForItsOwn`, `SharesAddUp`) |
| SystemMC: ProcessOperations | 3 numbers, 1 birth | `ReportIsTrue`, `ChildrenFirst` |
| SystemMC: ProcessMenu | 2 numbers, 3 births | `HitsWhatWasNamed`, `ReportIsTrue` (`RestartIsHonest`) |
| SystemMC: ProcessTree | 3 numbers and idle | `EachDrawnOnce` |
| SystemMC: UsbTree | 3 devices | `EachDrawnOnce` (`EachShownOnce`) |
| SystemMC: VirtualCamera | 2 names, one of them the default | `ReportIsTrue`, `NothingElseLost` (`OthersKept`) |
| SystemMC: CameraEngine | 2 toolboxes, 2 engines | `OneEngineEach`: one engine per toolbox, none after a stop or an orderly exit |
| AppMC: ObsQueue | 2 writers, 2 pieces, 4 frames, 3 slots | `CopyIsWhole`, `ResetOnlyByLateOpen` |
| AppMC: VirtualCameraSource | 2 requesters, 6 events | `SamplesAreSound` (`NumberedSinceStart`, `NoSampleWhileStopped`) |
| AppMC: CameraObjects | 2 callers, 3 references each | `LivesWhileHeld` |
| AppMC: WmiSession | 3 starts of the WMI service | `ShownCatchesUp` (`DrivesComeBack`) |
| AppMC: UsageSampling | CPU, GPU, disks | `ShownIsMeasuredOrZero` (`CpuIsMeasured`) |
| AppMC: NetworkRates | 2 indices, 2 octets | `ShownIsMeasuredOrZero` (`NothingCountedTwice`, `UnmeasuredIsZero`) |
| AppMC: DeviceRefresh | 2 devices, 2 changes each | `ShownCatchesUp` (`RequestSeen`) |
| AppMC: Display | 2 displays, 2 models, 2 instances | `ShownIsMeasuredOrZero` (`EdidIsOfItsModel`) |
| AppMC: Icons | 3 programs, 1 icon per refresh, 2 cached | `WindowIsSound` (`ViewsAlive`) |
| AppMC: MainLoop | 3 devices | `WindowIsSound` (`LoopDrawsOnOneDevice`, `NeverStranded`) |
| AppMC: Config | 2 toolboxes, integers of 4 bits, fps 2 to 4, numbers 6, 9 and 19 | `SavedIsLoaded` |
| AppMC: PreviewShm | 2 pieces, 4 frames | `ShownCatchesUp` (`PreviewSettles`) |
| AppMC: EngineFrame | frames up to 7 by 7, output 8 by 5, zoom and pan in halves, zooms of -1 to 3, pans of -2 to 1 | `FramesFit`, `PanReachesTheEdges` (both in `FramesFit`) |
| AppMC: PreviewCanvas | width 8, zooms of -1 to 4 (`kMaxZoom` is 3), pans of -2 to 1 | `FramesFit` (`CoversCanvas`), `PointsStayUnderMouse` |
| AppMC: Charts | 2 points, a window of 3 in 7 units of time | `ShownIsMeasuredOrZero` (`CurveIsTheLatest`) |
| AsyncOperationRepeat | 1 runner, 2 operations | finding 1 |
| ProcessSamplingEnds | 2 numbers and idle, 3 samples | finding 2 |
| ProcessOperationsWalk | 3 numbers, 1 birth | finding 3 |
| ServiceControlRestart | 1 configuration, 1 poll | finding 4 |
| WmiSessionHealth | 1 start of the WMI service | finding 5 |
| ZerosMC | UsageSampling, NetworkRates with 1 index, Charts with 2 points | finding 6 |
| ObsQueueInUse | 2 writers, 1 frame of 2 pieces | finding 7 |
| MainLoopHandles | 2 devices | finding 8 |


**Why the bounds are enough.** Two pieces are the fewest a copy can be torn between,
and the code treats all pieces alike. Four frames and a restart let a generation
repeat while a reader is in the middle of a copy. Four frames reuse a slot of the three
while the camera may still be copying the first that was in it, and two writers are the
fewest that can come between each other's check, creation and header; a third would meet
the queue as the second does. Three providers have a first, an inner and a last one. Three labels let a
label be reused with another in between. Two toolboxes and two engines are what one
relaunch with administrator rights makes. Three processes make a chain of grandparent,
parent and child, and a circle with a number reused; a walk of four steps is longer
than any walk that visits each of them once. One change by others falls between two
steps of an operation, the second undoes or repeats it. Two polls have a first and a
last turn of a loop that in the code has fifty equal ones. Three devices
are two recoveries, so that one follows another. Three starts of the WMI service are two
restarts, one of which may fall between the queries of a refresh. An output of 8 by 5
against frames of every size up to 7 by 7 has bars at either side and both turns of
rounding, and cuts that would be smaller than a pixel; its zooms have one below 1, 0 and a
negative one, as a file may (those of the canvas, in whole numbers, have 0 and -1 for the
ones below 1). The charts' ring of two and window
of three reach both ways of dropping a point. Of the numbers in a file, with integers of
four bits, 6 is above the range of fps, and 9 and 19 are cut to a negative number and to
one within the range. Three births on two numbers let a number pass to another process
between the choice and the operation, with one more for a restart. Three numbers and idle
have a chain, a circle of two or three, and what hangs below one. Three devices have a
chain of USB parents, and a gap in it. Two callers meet in the initialisation, one that
does it and one that waits. Two displays with two models of two instances have monitors of
the same and of different models. Two cached icons of three programs overflow the cache.
All of these properties but those of the last list of section 5 are also proved for every
value of the constants.

**Fairness.** Only what the code's own threads do is fair; no user action, no crash,
no answer of the system is. HardwareService: the worker keeps running (weak), and its
`wait_for` times out again and again (strong: the wait may be left by a spurious wakeup
before it does). AsyncOperation, NetworkTests, VideoTransformPipeline:
the thread that was started keeps running, and so does the owner inside a call that
joins it. ProcessDetail: the refresh is called in every cycle, which HardwareService's
`EveryProviderAgain` shows. FrameShm: the reader is called for every sample. CameraEngine:
the engine's loop, the toolbox inside a call, the poll of a page that is shown, and the
passing of time.

## 4. Findings

Each is a run that TLC refutes; the trace is the scenario.

1. The second operation of any provider ends the program (`StartupProvider.cpp:215`
   and four more): a finished thread is still joinable and is assigned over.
2. Shares do not add up after a process ended (`ProcessProvider.cpp:473`).
3. The walk that ends a process tree does not terminate on a circle
   (`ProcessProvider.cpp:214`).
4. A restart is reported as done when the service did not stop
   (`SystemServiceProvider.cpp:112`).

5. The health and the temperature of a disk are never found (`WmiSession.cpp:34`): the
   query reconnects to another namespace than the one its caller connected to.
6. Zeros are shown that nothing measured, against `docs/architecture.md:54`: the GPU usage
   as an available 0 after the collection that only seeds it (`GpuProvider.cpp:142`); the
   rate of a network adapter before there are two samples of it, and when the table of the
   interfaces could not be read (`NetworkProvider.cpp:268`, `:255`); and the number that
   the dashboard prints beside a chart that has no value (`DashboardPage.cpp:183`).
   `ZerosMC` asks only that not all three happen at once, so that its one trace shows each.
7. A second program that opens the OBS queue at the same time resets it while it is in use
   (`ObsVirtualCam.cpp:61`, `:78`, `:96`).
8. After a lost device was made anew the pages draw textures of the lost one
   (`UiApp.cpp:37`, `main.cpp:316`).

Further divergences met while modelling. Each is decided by one line, so a run would
add nothing to reading it; the models contain them as they are.

- Device, display and audio operations dereference a null `m_impl`, which nothing
  allocates (`DeviceProvider.cpp:156`, `DisplayProvider.cpp:131`, `AudioProvider.cpp:116`).
  `AsyncOperation` has such a runner (`Unallocated`).
- A network test's result is changed after it was published (`NetworkProvider.cpp:100`),
  though `docs/architecture.md:34` calls snapshots immutable. `NetworkTests` models the
  changes in place.
- Registry startup items cannot be disabled: the key is opened for KEY_SET_VALUE only
  and then queried (`StartupProvider.cpp:108`).
- No affinity is ever set: the process is opened for PROCESS_SET_INFORMATION only and
  then queried (`ProcessProvider.cpp:264`).
- A click on a row that was right-clicked before shows no detail, since the context
  menu has selected the row without asking for it (`ProcessPage.cpp:216`, `:223`).
- The tree view draws neither the idle process, which is its own parent, nor what
  descends from it (`ProcessPage.cpp:257`).
- After a restart of the toolbox a reader of the frame memory never shows the frame
  whose generation is the one it remembers (`VideoTransformPipeline.cpp:153`);
  `LastFrameShown` excepts that frame by name (`TakenForOldFrame`).
- The preview marks a frame as seen before it knows that it can copy it
  (`CameraPage.cpp:37` against `:51` to `:56`), so that a frame whose copy failed is not
  tried again; `PreviewSettles` excepts it by name (`missed`).
- Zoom and pan are read from the file unclamped (`Config.cpp:57`): with a zoom of 0 the
  engine divides by zero in every frame (`camera_engine.py:125`) and sends none, and the
  canvas of the preview is not covered until something is done on it. `EngineFrame` and
  `PreviewCanvas` have such values.
- Removing the virtual camera ignores the name of the flag (`CameraPage.cpp:89`,
  `VirtualCameraController.cpp:132`): it removes the one of the default name.
  `VirtualCamera` has it so (`OthersKept` excepts that camera by name).
- `DllCanUnloadNow` always allows to unload (`VirtualCameraProvider.cpp:601`), and the
  attributes of a source are dereferenced before they are made when nothing has
  activated it (`:285`); `CameraObjects` assumes a client that does neither.
- Two monitors of the same model are both shown with the EDID of the first, and one whose
  model cannot be told with the first of all (`DisplayProvider.cpp:83`).
- When the device cannot be made anew, the loop ends and `wWinMain` shuts the ImGui
  backend down a second time (`main.cpp:318`, `:360`), when it has none.
- The tray icon is added once (`main.cpp:58`), and its failure is not looked at: the
  window, once hidden (`:148`, `:295`), then has nothing that shows it again.
- The disk counters are rates already, and `StorageProvider.cpp:219` divides their
  difference by the time again. `UsageSampling` says whether a value was measured, not
  what it measures.
- A zoom or pan written into the file as an integer is ignored (`Config` has it so), and
  what is dragged on the canvas is not saved.
- `AudioProvider.cpp:171` compares two COM pointers of different objects, so that no
  audio device is marked as the default.

## 5. Proofs

All are of the form `Spec => []P` or `Spec => [][A]_vars`, from an inductive invariant
(`IInv`, or one for each component in the joint modules) that is true initially, kept by
each action (one proof step or lemma per action), and implies the property. Where an
invariant needed strengthening, what was added is said below.

The theorems rest on the assumptions on the constants, which the modules name and TLC
evaluates. Beyond types and non-emptiness these are: the sets that the code counts or
sums over are finite; `AppMC` has room for one reference and one device, a canvas of an
even number of units (so that its middle is one) and a zoom of at least two (`kMaxZoom`
is 3), and clamps `fps` to a range of
positive integers that the width can hold; `SystemMC` lets no process run longer than
the time there is. None of them is about the size of an instance.

- **HardwareService_proofs.** `IInv` adds to the types: what `stop()` relies on
  (`StopInv`), that a finished worker saw the flag cleared, and where the current
  cycle stands (`CycleInv`: providers before the loop's index were called in this
  cycle, the others in the one `m_lastRefresh` names). The last is what makes
  `WholeCycles` inductive and gives the refinement: each step of the threads
  maps to one of `SnapshotService` or to a stutter.
- **FrameShm_proofs.** The reader sees generations, which repeat after a restart; the
  invariant ties them to the order of publication within the writer's present life,
  so that equal generations before and after a copy mean that nothing was published
  in between. Then the copy holds the latest frame or pieces of the one being written.
- **ObsQueue_proofs.** Who has looked and was not overtaken saw that there was no queue
  (`CheckedInv`), so that as long as nobody came in unnoticed there is one writer
  (`OneWriter`): it is at most one index ahead of `read_idx`, and neighbouring indices
  have different slots (modulo 3); hence the ready frame is whole, and a copied slot is,
  until the third later frame. That writer fills the header once, of a queue that is still
  zero, which is why nothing the camera maps is reset (`ResetOnlyLate`).
- **CameraEngine_proofs.** `OneEngineEach` needs that a toolbox inside `start()` holds
  no engine (`Calls`) and that an engine's parent is a toolbox (`Born`). The assumptions of
  this module and of FrameShm_proofs on their constants are hypotheses of the theorems;
  `SystemMC_proofs` and `ThreadsMC_proofs` instantiate the two modules with the variables
  of the compositions (`EnginesAreSound`, `FramesAreSound`) and discharge them.
- **ProcessMenu_proofs.** A birth is given once and to one number, so the process named
  by a row, a dialog or a thread either has the number it was named with or has ended for
  ever (`Named`). Each action keeps that for all three, and a handle is opened by the
  number: what it is of is the process named, or that one has ended. `RestartIsHonest`
  adds what the thread that launches has reported so far (`Launching`).
  The types (`MenuIsTyped`) need that a thread at work has a process to work on.
- **ThreadsMC_proofs.** *Runners:* a thread that has not published holds the flag; one
  that has, or was never made, leaves the result of its runner's latest request; nothing
  is destroyed before the destructors run. *Pipeline:* the thread is joinable from
  `start()` to the join (`Lifetime`), and what object and copy hold is known at each place
  of the loop (`StatusFollows`), which is what a reader of the published status sees.
  *Tests:* what the result holds at each place of the two tests (`ResultFollows`), with
  the sum of the latencies between the received count times the least and the greatest;
  and a page that has seen `inProgress` cleared reads a result that is no longer changed
  (`PageFollows`).
- **AppMC_proofs.** Fifteen components, each with its theorem (`ObjectsAreSound` to
  `CanvasIsSound`), and `Composed`: a behaviour of the composition is one of each
  component. What the properties needed:
  - *CameraObjects:* the count of an object is the number of references to it (`Counted`,
    over a finite set of callers), a call holds a reference, and only one initialises.
  - *VirtualCameraSource:* the counter is the number of samples since the last start, and
    so is the number of each sample at its place in the events; both are cardinalities of
    sets of positions.
  - *WmiSession:* after one whole refresh the session is no more stale than the change of
    namespaces leaves it, after two the drives are read, after three they are shown.
  - *NetworkRates:* what was counted and what the next sample adds never exceed what was
    carried. *DeviceRefresh:* a reading that nobody asked about since it began has found
    all that was asked for. *Icons, Display, UsageSampling:* the types and the property,
    with the first key of a nonempty finite set for the registry's search.
  - *MainLoop:* a loop that goes on has objects of one device, the latest that was made,
    not known to be lost when it draws, and an icon or a message that ends it; the pages
    have the first device.
  - *PreviewShm:* the generation follows the written frames, and a texture that was copied
    from memory nobody writes, and did not fail to be, is that memory, piece by piece
    (`TextureFollows`).
  - *Config:* as long as nobody else wrote the file it is what the saved configuration
    writes; the cut to a width and the clamp are lemmas about remainders.
  - *Charts:* the points are a suffix of what was offered, the longest that capacity and
    window allow (`IsCurve`); times ascend.
  - *EngineFrame:* the properties are inductive with the types; the work is in lemmas
    about rounded quotients (`RoundIsNear`, `RoundIsAtLeast`). No zoom is excluded: one
    of 0 is never cut with.
  - *PreviewCanvas:* whatever the canvas changes is clamped to the range (`InRange`), from
    any zoom and pan before. A pan is a fraction, and the picture drawn with a pan that was
    computed for a place is at that place, clamped to the edges (`PlacedAt`: the quotient
    has no rest, `DividedExactly`). So the only rounding of the wheel is that of
    `Zoomed`, less than a unit.
- **SystemMC_proofs.** The same for `SystemMC` (`StartupIsSound` to `SamplingIsSound`,
  `ComposedSystem`). What the properties needed:
  - *ServiceControl:* an entry of the cache is no older than its age says
    (`CacheFollows`), and a restart that left its polls early saw the instance it told
    to stop stopped (`RestartFollows`).
  - *ProcessOperations:* births are given once (`BirthsTell`); while the tree is walked,
    the children of what was walked over are on the stack or later in the order
    (`WalkCovers`); while it is ended, children come before a process or are done with,
    and what is not ended yet is still to come (`EndFollows`). No assumption excludes
    circles: a walk on one does not terminate (finding 3), and ends nothing.
  - *ProcessSampling:* a process of the last sample has run no more than was charged to
    it since, and the previous total is the sum over those it knew. The sums are folds over
    finite sets. `SetInduction` (from the well-founded order of strict subsets) shows that
    the function behind the fold exists and is unique (`SumExists`, `SumIsUnique`), hence
    that a sum is that of the rest and any one term (`SumTakes`), that sums add
    (`SumsAdd`), and that a bound of the terms bounds them (`SumsBounded`): this is how
    the rounding of each share by less than one becomes one of the total by less than
    the number of processes.
  - *ProcessTree, UsbTree:* what is drawn is a function recursive in the depth, whose
    values are sequences. `Recursion` shows that such a function exists and has the
    values that its equations give, by induction on an interval (`IntervalInduction`,
    which follows from the least number of a set, so that no operator is a parameter of
    it); `SetHasOrder`, `Concatenated` and `Flattened` say when the sequences, one after
    the other, have no row twice and which they have. What one draws to a depth is whoever
    has a way up to it, of that length at most, over expanded rows (`DrawnToDepth`). That
    no row is drawn twice is that parents are functions: a row is at one distance from the
    roots only (`AtIsUnique`), two children of one parent have nothing below them in common
    (`TogetherDistinct`), nor have two roots (`ForestDrawn`). A circle of parents has no
    way up to a root, so that no assumption excludes one. The recursion of the code has no
    bound, that of the model stops at as many generations as there are rows; nothing is cut
    off by this, since a row at a distance from the roots has others at each lesser distance
    (`DistancesBounded`), and a drawing to any greater depth is the same (`TreeIsWhole`). On
    the USB page what no open root has drawn, in a circle or not, is in the list after it.

Only model-checked, and why:

- Everything under fairness (`OperationsEnd`, `RequestAnswered`, `LeftoversEnd`,
  `StopReturns`, `EveryProviderAgain`, `LastFrameShown`): liveness, and with it ENABLED, is out
  of TLAPS' reach.

No invariant and no action property of a run is only model-checked.

No module declares a RECURSIVE operator.

## 6. Not modelled

- Pixel arithmetic (`transformNv12`, the Python transforms, the test pattern).
- Formatting, layout, drawing, logging.
- The forwarding of the DLL's attributes and the registry keys of its class; resource
  exhaustion of the runtime.
- The elevated copy of the toolbox that `VirtualCameraController::run` would start, and
  the file with its result: the only caller acts when elevated, and nothing reads the file.
- What lies behind operations that end the program at once (`Unallocated`): modes,
  volumes, devices, and the pages' choices for them.
- Providers whose refresh rebuilds the whole snapshot from system calls and keeps
  nothing (memory, battery, camera enumeration, the audio list): that a
  snapshot is replaced whole is HardwareService's concern.
- The weak memory model: an atomic variable is sequentially consistent, as
  `std::atomic`'s defaults are. The plain writes of the shared memories are ordered as
  on x86, the only target of the build.
- Wraps of 32-bit counters that take a year or more (frame generation, queue index).

## 7. Plan

The order was that of importance: first what every page depends on (the worker, the
runner), then what crosses a process boundary, then the operations that change the
system, then the rest; the modules and the theorems above are done. What is left:

- Compositions: VideoTransformPipeline with FrameShm (the loop's writes and the release
  of the mapping in `stop()`); ServiceControl, StartupItems and ProcessMenu as users of
  AsyncOperation's runner, to show that the runner's abstract promise (one operation at
  a time, the result of the latest) is what all of them rely on.
