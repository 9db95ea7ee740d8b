------------------------------ MODULE ThreadsMC ------------------------------
(***************************************************************************)
(* The components that hand something from thread to thread, for TLC: the  *)
(* runner of the operations, the network tests, the detail of a process,   *)
(* the video transform pipeline, the memory of its frames, and the camera  *)
(* engine.  They share no variable, so that interleaving them shows        *)
(* nothing that one at a time does not: a behaviour follows the one in     *)
(* focus, and the others stay as they began.                               *)
(***************************************************************************)
EXTENDS AsyncOperation

CONSTANTS Count, Latencies,  (* of NetworkTests           *)
          Pids,              (* of ProcessDetail          *)
          MaxFrames,         (* of VideoTransformPipeline *)
          NumChunks, MaxShmFrames, MaxRestarts, (* of FrameShm *)
          Toolboxes, Engines (* of CameraEngine           *)

VARIABLES
  focus,
  terminated, testRunning, pc, kind, result, echoes, lost, page, report,
  selected, requested, inspectPid, inspecting, detail,
  running, owner, thread, lp, target, loaded, obs, shm, status, published, copy,
  framesSent,
  data, valid, shmGeneration, writerMaps, writer, writeNext, generation, restarts,
  readerMaps, reader, readNext, gen, lastGeneration, buffer,
  written, epochStart, readFrame, settled, accepted,
  at, leaving, started, held, cameraPage, shown, engine, parent, params, engineStatus

Tests    == INSTANCE NetworkTests
Detail   == INSTANCE ProcessDetail
Pipeline == INSTANCE VideoTransformPipeline
Frames   == INSTANCE FrameShm
              WITH published <- written, shown <- accepted, MaxFrames <- MaxShmFrames
Camera   == INSTANCE CameraEngine WITH page <- cameraPage, status <- engineStatus

testVars == <<terminated, testRunning, pc, kind, result, echoes, lost, page, report>>
detailVars == <<selected, requested, inspectPid, inspecting, detail>>
pipelineVars == <<running, owner, thread, lp, target, loaded, obs, shm, status, published,
                  copy, framesSent>>
frameVars == <<data, valid, shmGeneration, writerMaps, writer, writeNext, generation,
               restarts, readerMaps, reader, readNext, gen, lastGeneration, buffer,
               written, epochStart, readFrame, settled, accepted>>
cameraVars == <<at, leaving, started, held, cameraPage, shown, engine, parent, params,
                engineStatus>>
mcVars == <<focus, vars, testVars, detailVars, pipelineVars, frameVars, cameraVars>>

ASSUME ConstantsAssumption ==
  /\ Count \in Nat \ {0} /\ Latencies \subseteq 0 .. Tests!kNoMinimum
  /\ Pids \subseteq Nat \ {Detail!None}
  /\ NumChunks \in Nat \ {0}
  /\ {MaxFrames, MaxShmFrames, MaxRestarts} \subseteq Nat

Components == {"runner", "tests", "detail", "pipeline", "frames", "camera"}

MCInit ==
  /\ focus \in Components
  /\ Init /\ Tests!Init /\ Detail!Init /\ Pipeline!Init /\ Frames!Init /\ Camera!Init
  /\ focus # "camera" => params = "run" /\ engineStatus = "absent"

(* A step of the component in focus.                                       *)
Of(component, A) ==
  /\ focus = component
  /\ A
  /\ UNCHANGED focus
  /\ component # "runner"   => UNCHANGED vars
  /\ component # "tests"    => UNCHANGED testVars
  /\ component # "detail"   => UNCHANGED detailVars
  /\ component # "pipeline" => UNCHANGED pipelineVars
  /\ component # "frames"   => UNCHANGED frameVars
  /\ component # "camera"   => UNCHANGED cameraVars

MCNext ==
  \/ Of("runner", Next)
  \/ Of("tests", Tests!Next)
  \/ Of("detail", Detail!Next)
  \/ Of("pipeline", Pipeline!Next)
  \/ Of("frames", Frames!Next)
  \/ Of("camera", Camera!Next)

(* The fairness of each, as its module justifies it.                       *)
MCSpec ==
  /\ MCInit /\ [][MCNext]_mcVars
  /\ \A r \in Runners : /\ WF_mcVars(Of("runner", Thread(r)))
                        /\ WF_mcVars(Of("runner", Destroy(r)))
  /\ WF_mcVars(Of("runner", Leave))
  /\ WF_mcVars(Of("tests", Tests!Thread))
  /\ WF_mcVars(Of("detail", Detail!Refresh))
  /\ WF_mcVars(Of("pipeline", Pipeline!Loop))
  /\ WF_mcVars(Of("pipeline", Pipeline!StopJoin))
  /\ WF_mcVars(Of("pipeline", Pipeline!StopClose))
  /\ WF_mcVars(Of("frames", Frames!Reader))
  /\ \A t \in Toolboxes : /\ WF_mcVars(Of("camera", Camera!InCall(t)))
                          /\ WF_mcVars(Of("camera", Camera!Poll(t)))
  /\ \A e \in Engines : WF_mcVars(Of("camera", Camera!Engine(e)))
  /\ WF_mcVars(Of("camera", Camera!Age))

-----------------------------------------------------------------------------
(* Properties.                                                             *)

(* The types of every component.                                           *)
TypesOK ==
  /\ focus \in Components
  /\ TypeOK /\ Tests!TypeOK /\ Detail!TypeOK /\ Pipeline!TypeOK
  /\ Frames!TypeOK /\ Camera!TypeOK

(* Whatever is started ends: an operation of a page, the program once it   *)
(* is closed, a network test, and stop() of the pipeline, which waits for  *)
(* a loop that waits for a camera.                                         *)
OperationsEnd ==
  OperationCompletes /\ ExitEnds /\ Tests!TestEnds /\ Pipeline!StopReturns

(* What a toolbox leaves behind ends: its engine, and what the page shows  *)
(* of an engine that is gone, whatever another toolbox writes into the     *)
(* same files.                                                             *)
LeftoversEnd == Camera!OrphanExits /\ Camera!PhantomEnds

(* stop() of the camera engine returns, whatever the engine does.          *)
StopReturns == Camera!StopReturns

(* Two objects are changed in place after they were published.  A network  *)
(* report is drawn only when it is complete and makes sense, and none is   *)
(* shown as in progress when another test may begin; the status of the     *)
(* pipeline is true at each of its changes.                                *)
PublishedIsSound ==
  /\ Tests!ReportIsComplete /\ Tests!LatenciesOrdered /\ Tests!NoProgressWhenFree
  /\ Pipeline!CapturingImpliesRunning /\ Pipeline!EndedStatus

(* The detail of the process last asked for arrives, however requests and  *)
(* refreshes cross.                                                        *)
RequestAnswered == Detail!RequestAnswered

(* The pipeline can be stopped at any moment: no thread is overwritten,    *)
(* and whatever the loop opened is still released by a stop().             *)
StopReleasesAll == Pipeline!NoThreadOverwritten /\ Pipeline!ResourcesReleasable

(* What the virtual camera accepts from the shared memory is the frame it  *)
(* asked for, torn at most by the next one.                                *)
AcceptedFrameAndNextOnly == Frames!AcceptedFrameAndNextOnly

(* It never accepts a frame twice, nor an older one.                       *)
NoFrameTwice == Frames!NoFrameTwice

(* A frame that waits for it is shown, or a later one, unless the writer's *)
(* numbers begin again.                                                    *)
LastFrameShown == Frames!LastFrameShown
==============================================================================
