-------------------------------- MODULE AppMC --------------------------------
(***************************************************************************)
(* The rest of the application for TLC: the two virtual cameras and the    *)
(* objects of one, the providers that sample the hardware, the displays,   *)
(* the icons, the window and its loop, the configuration, the preview, the *)
(* geometry of the camera engine and of the canvas, and the charts.  As in *)
(* SystemMC a behaviour follows the component in focus, and the others     *)
(* stay as they began.                                                     *)
(***************************************************************************)
EXTENDS ObsQueue

CONSTANTS Requesters, MaxEvents,                         (* of VirtualCameraSource *)
          MaxStarts,                                     (* of WmiSession          *)
          Indices, MaxOctets,                            (* of NetworkRates        *)
          Devices, MaxChanges,                           (* of DeviceRefresh       *)
          MaxDevices,                                    (* of MainLoop            *)
          Toolboxes, HalfInt, MinFps, MaxFps, Numbers,   (* of Config              *)
          MaxWritten,                                    (* of PreviewShm          *)
          MaxSide, OutWidth, OutHeight, Den,             (* of EngineFrame         *)
          Width, MaxZoom,                                (* of PreviewCanvas       *)
          Capacity, Window, MaxTime, MaxValue,           (* of Charts              *)
          Callers, MaxHeld,                              (* of CameraObjects       *)
          Displays, Models, Instances,                   (* of Display             *)
          Programs, MaxIcons, MaxCached                  (* of Icons               *)

ASSUME ConstantsAssumption ==
  /\ {MaxEvents, MaxStarts, MaxOctets, MaxChanges, MaxWritten} \subseteq Nat
  /\ MaxDevices \in Nat \ {0}
  /\ Indices \subseteq Nat
  /\ HalfInt \in Nat \ {0} /\ Numbers \subseteq Int
  /\ {MinFps, MaxFps} \subseteq 1 .. HalfInt - 1 /\ MinFps < MaxFps
  /\ {MaxSide, OutWidth, OutHeight, Den} \subseteq Nat \ {0}
  /\ Width \in Nat \ {0} /\ Width % 2 = 0 /\ MaxZoom \in Nat /\ MaxZoom >= 2
  /\ {Capacity, Window, MaxTime, MaxValue} \subseteq Nat \ {0}
  /\ Models \cup Instances \subseteq Nat \ {0}
  /\ MaxHeld \in Nat \ {0} /\ {MaxIcons, MaxCached} \subseteq Nat

VARIABLES
  focus,
  sourceState, frameCounter, events, closed, request, awake,
  up, life, wmiSession, wmiAt, found, disks, wmiReady, zones, quiet,
  usageReady, seeded, collected, usage, usageShown,
  octets, byIndex, prev, rateShown, measured, carried, counted,
  change, present, force, age, deviceAt, unread, info, snapshot, failed, asked,
  loopAt, window, tray, icon, posted, gfx, made, gone, lost, occluded, loopPages, loopViews,
  service,
  file, config, cameraParams, saving, saved,
  mem, engine, previewReady, written, chunk, page, copied, lastGen, texture, target, missed,
  reset,
  size, params, stage, crop, bars,
  zoom, pan, dragging, grabOffset, did,
  card, now, points, lastSampleTime, offered,
  ref, held, making, objectReady, call,
  kept, connected, displays,
  extracted, published, views, drawn, iconsAt

Source   == INSTANCE VirtualCameraSource WITH state <- sourceState
Wmi      == INSTANCE WmiSession WITH session <- wmiSession, at <- wmiAt
Usage    == INSTANCE UsageSampling WITH ready <- usageReady, shown <- usageShown
Rates    == INSTANCE NetworkRates WITH shown <- rateShown
Device   == INSTANCE DeviceRefresh WITH at <- deviceAt
Loop     == INSTANCE MainLoop WITH at <- loopAt, pages <- loopPages, views <- loopViews
Settings == INSTANCE Config WITH params <- cameraParams
Preview  == INSTANCE PreviewShm WITH ready <- previewReady
Geometry == INSTANCE EngineFrame
Canvas   == INSTANCE PreviewCanvas
Chart    == INSTANCE Charts
Objects  == INSTANCE CameraObjects WITH ready <- objectReady
Screen   == INSTANCE Display
Icon     == INSTANCE Icons

sourceVars == <<sourceState, frameCounter, events, closed, request, awake>>
wmiVars == <<up, life, wmiSession, wmiAt, found, disks, wmiReady, zones, quiet>>
usageVars == <<usageReady, seeded, collected, usage, usageShown>>
ratesVars == <<octets, byIndex, prev, rateShown, measured, carried, counted>>
deviceVars == <<change, present, force, age, deviceAt, unread, info, snapshot, failed, asked>>
loopVars == <<loopAt, window, tray, icon, posted, gfx, made, gone, lost, occluded, loopPages,
              loopViews, service>>
settingsVars == <<file, config, cameraParams, saving, saved>>
previewVars == <<mem, engine, previewReady, written, chunk, page, copied, lastGen, texture,
                 target, missed, reset>>
geometryVars == <<size, params, stage, crop, bars>>
canvasVars == <<zoom, pan, dragging, grabOffset, did>>
chartVars == <<card, now, points, lastSampleTime, offered>>
objectVars == <<ref, held, making, objectReady, call>>
displayVars == <<kept, connected, displays>>
iconVars == <<extracted, published, views, drawn, iconsAt>>
mcVars == <<focus, vars, sourceVars, wmiVars, usageVars, ratesVars, deviceVars, loopVars,
            settingsVars, previewVars, geometryVars, canvasVars, chartVars, objectVars,
            displayVars, iconVars>>

Components == {"queue", "source", "wmi", "usage", "rates", "device", "loop", "settings",
               "preview", "geometry", "canvas", "chart", "objects", "display", "icons"}

MCInit ==
  /\ focus \in Components
  /\ Init /\ Source!Init /\ Wmi!Init /\ Usage!Init /\ Rates!Init /\ Device!Init
  /\ Loop!Init /\ Settings!Init /\ Preview!Init /\ Geometry!Init
  /\ Objects!Init /\ Screen!Init /\ Icon!Init
  /\ Canvas!Init /\ (focus = "canvas" \/ (zoom = 1 /\ pan.num = 0))
  /\ Chart!Init /\ (focus = "chart" \/ card = "value")

(* A step of the component in focus.                                       *)
Of(component, A) ==
  /\ focus = component
  /\ A
  /\ UNCHANGED focus
  /\ component # "queue"    => UNCHANGED vars
  /\ component # "source"   => UNCHANGED sourceVars
  /\ component # "wmi"      => UNCHANGED wmiVars
  /\ component # "usage"    => UNCHANGED usageVars
  /\ component # "rates"    => UNCHANGED ratesVars
  /\ component # "device"   => UNCHANGED deviceVars
  /\ component # "loop"     => UNCHANGED loopVars
  /\ component # "settings" => UNCHANGED settingsVars
  /\ component # "preview"  => UNCHANGED previewVars
  /\ component # "geometry" => UNCHANGED geometryVars
  /\ component # "canvas"   => UNCHANGED canvasVars
  /\ component # "chart"    => UNCHANGED chartVars
  /\ component # "objects"  => UNCHANGED objectVars
  /\ component # "display"  => UNCHANGED displayVars
  /\ component # "icons"    => UNCHANGED iconVars

MCNext ==
  \/ Of("queue", Next)
  \/ Of("source", Source!Next)
  \/ Of("wmi", Wmi!Next)
  \/ Of("usage", Usage!Next)
  \/ Of("rates", Rates!Next)
  \/ Of("device", Device!Next)
  \/ Of("loop", Loop!Next)
  \/ Of("settings", Settings!Next)
  \/ Of("preview", Preview!Next)
  \/ Of("geometry", Geometry!Next)
  \/ Of("canvas", Canvas!Next)
  \/ Of("chart", Chart!Next)
  \/ Of("objects", Objects!Next)
  \/ Of("display", Screen!Next)
  \/ Of("icons", Icon!Next)

MCSpec == MCInit /\ [][MCNext]_mcVars

-----------------------------------------------------------------------------
(* Properties.                                                             *)

(* The types of all of them.                                               *)
TypesOK ==
  /\ TypeOK /\ Source!TypeOK /\ Wmi!TypeOK /\ Usage!TypeOK /\ Rates!TypeOK
  /\ Device!TypeOK /\ Loop!TypeOK /\ Settings!TypeOK /\ Preview!TypeOK /\ Geometry!TypeOK
  /\ Canvas!TypeOK /\ Chart!TypeOK /\ Objects!TypeOK /\ Screen!TypeOK /\ Icon!TypeOK

(* The samples of the source's stream are numbered from when it said it    *)
(* had started, and no request that slept while the source was stopped     *)
(* queues one.                                                             *)
SamplesAreSound == []Source!NumberedSinceStart /\ Source!NoSampleWhileStopped

(* The objects of the virtual camera live as long as they are held, and    *)
(* are not used before they are initialised.                               *)
LivesWhileHeld == Objects!LivesWhileHeld

(* Where a load or a rate is shown that is not 0 it was measured: a        *)
(* processor's usage comes from two successful collections, a rate from    *)
(* two successful samples, with no octet counted twice, and a curve has    *)
(* the latest values there were to show.  A rate or a curve of which       *)
(* nothing is known yet is shown as 0 (ZerosMC has what the documentation  *)
(* says of that).  A monitor's EDID is that of its model.                  *)
ShownIsMeasuredOrZero ==
  /\ Usage!CpuIsMeasured /\ Chart!CurveIsTheLatest
  /\ Rates!NothingCountedTwice /\ Rates!UnmeasuredIsZero
  /\ Screen!EdidIsOfItsModel

(* What is shown catches up with what is there: the drives after the WMI   *)
(* service came back, the devices after a request, the preview after the   *)
(* last frame the page could copy.                                         *)
ShownCatchesUp == Wmi!DrivesComeBack /\ Device!RequestSeen /\ Preview!PreviewSettles

(* The loop's own objects are of one device in every frame, and the pages' *)
(* until the first recovery; no icon is drawn that was let go; the window  *)
(* is not left without itself and its icon in the taskbar.                 *)
WindowIsSound == Loop!LoopDrawsOnOneDevice /\ Icon!ViewsAlive /\ Loop!NeverStranded

(* What a toolbox saved is what the next one loads.                        *)
SavedIsLoaded == Settings!SavedIsLoaded

(* Every camera, rotation, zoom and pan, also of those a file should not   *)
(* have, gives slices within their arrays or, for a zoom of 0, no frame;   *)
(* the pan reaches from edge to edge.  The picture of the preview covers   *)
(* its canvas while zoom and pan are in their range, to which whatever is  *)
(* done on the canvas brings them back.                                    *)
FramesFit == Geometry!FramesFit /\ Geometry!PanReachesTheEdges /\ Canvas!CoversCanvas

(* On the canvas, what the mouse points to stays under it.                 *)
PointsStayUnderMouse == Canvas!PointsStayUnderMouse
==============================================================================
