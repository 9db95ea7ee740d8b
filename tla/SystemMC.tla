------------------------------- MODULE SystemMC -------------------------------
(***************************************************************************)
(* The components that look at and act on a system which changes under     *)
(* them, for TLC: the menu of a process, startup items, a service, the     *)
(* shares of two samples, the operations on processes, the trees of        *)
(* processes and of USB devices, the virtual camera of Windows, and the    *)
(* camera engines of several toolboxes.  They share no variable, so that   *)
(* interleaving them shows nothing that one at a time does not: a          *)
(* behaviour follows the one in focus, and the others stay as they began.  *)
(***************************************************************************)
EXTENDS ProcessMenu, FiniteSets

CONSTANTS Names, Contents, OwnName, OwnCommand, MaxChanges, (* of StartupItems *)
          Configs, MaxAge, MaxPolls, MaxInstances,  (* of ServiceControl    *)
          SampledPids, MaxRun, MaxTime, MaxSamples, (* of ProcessSampling   *)
          Pids, MaxBirths, MaxWalk,                 (* of ProcessOperations *)
          TreePids,                                 (* of ProcessTree       *)
          UsbDevices,                               (* of UsbTree           *)
          CameraNames, DefaultName,                 (* of VirtualCamera     *)
          Toolboxes, Engines                        (* of CameraEngine      *)

VARIABLES
  focus,
  folder, registry, listing, picked, itemOp, item, kind, success, changes,
  state, instance, config, lastTrue, cache, shown, pending, serviceOp, polls, done, told,
  time, prev, prevTotal, snapshot, samples, ran, churn,
  birth, parent, births, op, table, stack, order, ok, listed, refused,
  ppid, typed, found, treeMode, expanded,
  parentId, open,
  installed, toolbox, action, friendly, running, report,
  toolboxAt, leaving, engineStarted, held, cameraPage, engineShown, engine, creator,
  params, status

Startup  == INSTANCE StartupItems WITH op <- itemOp, pending <- picked
Service  == INSTANCE ServiceControl WITH op <- serviceOp, ok <- done
Sampling == INSTANCE ProcessSampling WITH Pids <- SampledPids
Process  == INSTANCE ProcessOperations
Tree     == INSTANCE ProcessTree
Usb      == INSTANCE UsbTree
Camera   == INSTANCE VirtualCamera
Control  == INSTANCE CameraEngine
              WITH at <- toolboxAt, started <- engineStarted, page <- cameraPage,
                   shown <- engineShown, parent <- creator

startupVars == <<folder, registry, listing, picked, itemOp, item, kind, success, changes>>
serviceVars == <<state, instance, config, lastTrue, cache, shown, pending, serviceOp, polls,
                 done, told>>
samplingVars == <<time, prev, prevTotal, snapshot, samples, ran, churn>>
processVars == <<birth, parent, births, op, table, stack, order, ok, listed, refused>>
treeVars == <<ppid, typed, found, treeMode, expanded>>
usbVars == <<parentId, open>>
cameraVars == <<installed, toolbox, action, friendly, running, report>>
engineVars == <<toolboxAt, leaving, engineStarted, held, cameraPage, engineShown, engine,
                creator, params, status>>
mcVars == <<focus, vars, startupVars, serviceVars, samplingVars, processVars, treeVars,
            usbVars, cameraVars, engineVars>>

ASSUME ConstantsAssumption ==
  /\ IsFiniteSet(Names) /\ OwnName \in Names /\ OwnCommand \in Contents
  /\ DefaultName \in CameraNames
  /\ TreePids \subseteq Nat \ {0}
  /\ IsFiniteSet(UsbDevices) /\ UsbDevices = 1 .. Cardinality(UsbDevices)
  /\ Startup!Absent \notin Contents /\ Service!None \notin Configs
  /\ {Process!Idle, Sampling!Idle} \cap (Pids \cup SampledPids) = {}
  /\ IsFiniteSet(Pids) /\ Pids = 1 .. Cardinality(Pids)
  /\ IsFiniteSet(SampledPids) /\ SampledPids \subseteq Nat /\ MaxRun <= MaxTime
  /\ {MaxChanges, MaxAge, MaxRun, MaxTime, MaxSamples, MaxBirths, MaxWalk} \subseteq Nat
  /\ {MaxPolls, MaxInstances} \subseteq Nat \ {0}
  /\ Control!None \notin Toolboxes \cup Engines

Components == {"menu", "startup", "service", "sampling", "process", "tree", "usb", "camera",
               "engine"}

(* Out of focus, a component is in one of its initial states only.         *)
MCInit ==
  /\ focus \in Components
  /\ Init /\ Tree!Init /\ Usb!Init
  /\ Camera!Init /\ (focus = "camera" \/ installed = {})
  /\ Startup!Init
  /\ focus = "startup" \/ <<folder, registry, item>> =
       <<[f \in DOMAIN folder |-> Startup!Absent], [n \in Names |-> Startup!Absent],
         CHOOSE i \in Startup!Items : TRUE>>
  /\ Service!Init
  /\ focus = "service" \/ <<state, config>> = <<"stopped", CHOOSE c \in Configs : TRUE>>
  /\ Sampling!Init
  /\ focus = "sampling" \/ \A p \in SampledPids : time[p] = 0
  /\ Process!Init
  /\ focus = "process" \/ \A p \in Pids : birth[p] = 0 /\ parent[p] = Process!Idle
  /\ Control!Init
  /\ focus = "engine" \/ <<params, status>> = <<"run", "absent">>

(* A step of the component in focus.                                       *)
Of(component, A) ==
  /\ focus = component
  /\ A
  /\ UNCHANGED focus
  /\ component # "startup"  => UNCHANGED startupVars
  /\ component # "service"  => UNCHANGED serviceVars
  /\ component # "sampling" => UNCHANGED samplingVars
  /\ component # "process"  => UNCHANGED processVars
  /\ component # "menu"     => UNCHANGED vars
  /\ component # "tree"     => UNCHANGED treeVars
  /\ component # "usb"      => UNCHANGED usbVars
  /\ component # "camera"   => UNCHANGED cameraVars
  /\ component # "engine"   => UNCHANGED engineVars

MCNext ==
  \/ Of("startup", Startup!Next)
  \/ Of("service", Service!Next)
  \/ Of("sampling", Sampling!Next)
  \/ Of("process", Process!Next)
  \/ Of("menu", Next)
  \/ Of("tree", Tree!Next)
  \/ Of("usb", Usb!Next)
  \/ Of("camera", Camera!Next)
  \/ Of("engine", Control!Next)

MCSpec == MCInit /\ [][MCNext]_mcVars

-----------------------------------------------------------------------------
(* Properties.                                                             *)

(* The types of the component in focus; the others are as they began.      *)
TypesOK ==
  /\ focus \in Components
  /\ focus = "menu" => TypeOK
  /\ focus = "startup" => Startup!TypeOK
  /\ focus = "service" => Service!TypeOK
  /\ focus = "sampling" => Sampling!TypeOK
  /\ focus = "process" => Process!TypeOK
  /\ focus = "tree" => Tree!TypeOK
  /\ focus = "usb" => Usb!TypeOK
  /\ focus = "camera" => Camera!TypeOK
  /\ focus = "engine" => Control!TypeOK

(* Enabling, disabling and deleting startup items lose nothing but what    *)
(* the user confirmed, whatever installers do meanwhile; installing and    *)
(* removing a camera touches no other but the one of the default name.     *)
NothingElseLost == Startup!ContentKept /\ Startup!OnlyPickedDeleted /\ Camera!OthersKept

(* What an operation reports has happened: to a startup item, to a service *)
(* that was seen to stop for a restart, to the processes of a tree, to a   *)
(* process that was to be restarted, and to a camera.                      *)
ReportIsTrue ==
  /\ Startup!ReportIsTrue /\ Service!SeenStopIsRestart
  /\ []Process!ReportIsTrue /\ []RestartIsHonest /\ []Camera!ReportIsTrue

(* A configuration shown of a service is no older than the cache allows.   *)
ShownConfigIsRecent == Service!ShownConfigIsRecent

(* The shares shown of the processes are sound: none is charged for the    *)
(* time of another that had its number, and they add up to the total as    *)
(* long as none has ended since the last sample.                           *)
SharesAreSound == Sampling!ChargedForItsOwn /\ Sampling!SharesAddUp

(* Each process and each USB device has one row, whatever is expanded or   *)
(* open and whatever has gone; in the tree of processes those in or below  *)
(* a circle of parents have none.                                          *)
EachDrawnOnce ==
  /\ focus = "tree" => Tree!EachDrawnOnce
  /\ focus = "usb" => Usb!EachShownOnce

(* A tree of processes is ended from its leaves.                           *)
ChildrenFirst == Process!ChildrenFirst

(* A toolbox holds the only camera engine it has, and none survives a      *)
(* stop() or an orderly exit, whatever the other toolboxes write.          *)
OneEngineEach == Control!OneEngineEach
==============================================================================
