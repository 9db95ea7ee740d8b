---------------------------- MODULE CameraEngine ----------------------------
(***************************************************************************)
(* CameraEngineController and camera_engine.py: the toolbox starts a       *)
(* Python process, speaks to it through a parameter file (running = true   *)
(* or false), and hears from it through a status file and its exit code.   *)
(*                                                                         *)
(* Nothing keeps two toolboxes from running at once (relaunching with      *)
(* administrator rights makes two overlap), and all of them and all their  *)
(* engines share the two files.  A toolbox may also crash and leave its    *)
(* engine behind, which ends when it finds its parent gone.                *)
(*                                                                         *)
(* A file is opened for writing, which empties it, and filled when it is   *)
(* closed.  An engine that reads empty parameters takes its defaults,      *)
(* which say running.  A status that is older than five seconds counts as  *)
(* not running; time is the step Age.  A closed process handle is taken    *)
(* not to be reused, and a process number neither.                         *)
(***************************************************************************)
CONSTANTS Toolboxes, (* toolbox processes, each of which runs once    *)
          Engines    (* engine processes, each of which runs once     *)

None == "none"

VARIABLES
  at,      (* where each toolbox's UI thread is                             *)
  leaving, (* the stop() it is in is the destructor's                       *)
  started, (* m_impl->started                                               *)
  held,    (* the engine m_impl->proc refers to, while its handle is open   *)
  page,    (* the camera page is the one drawn                              *)
  shown,   (* m_status->running                                             *)
  engine,  (* where each engine is                                          *)
  parent,  (* the toolbox that created it                                   *)
  params,  (* the parameter file: run, stop, or empty                       *)
  status   (* the status file: absent, empty, running, stale or stopped     *)

toolboxVars == <<at, leaving, started, held, page, shown>>
engineVars == <<engine, parent>>
vars == <<toolboxVars, engineVars, params, status>>

Ended == {"exited", "crashed"}
Places == {"off", "frame", "start", "spawn", "update", "stop", "wait"} \cup Ended
EngineStates == {"unborn", "load", "open", "check", "work",
                 "writeRunning", "writeStopped", "exited"}
Alive == {"load", "open", "check", "work", "writeRunning", "writeStopped"}

Live == {e \in Engines : engine[e] \in Alive}
Writing == \E e \in Engines : engine[e] \in {"writeRunning", "writeStopped"}

Init ==
  /\ at = [t \in Toolboxes |-> "off"]
  /\ leaving = [t \in Toolboxes |-> FALSE]
  /\ started = [t \in Toolboxes |-> FALSE]
  /\ held = [t \in Toolboxes |-> None]
  /\ page = [t \in Toolboxes |-> FALSE]
  /\ shown = [t \in Toolboxes |-> FALSE]
  /\ engine = [e \in Engines |-> "unborn"]
  /\ parent = [e \in Engines |-> None]
  /\ params \in {"run", "stop"}   (* as an earlier program left the files *)
  /\ status \in {"absent", "running", "stale", "stopped"}

-----------------------------------------------------------------------------
(* The toolbox.                                                            *)

Go(t, from, to) == at[t] = from /\ at' = [at EXCEPT ![t] = to]

Launch(t) ==
  /\ Go(t, "off", "frame")
  /\ UNCHANGED <<leaving, started, held, page, shown, engineVars, params, status>>

TurnPage(t) ==
  /\ at[t] = "frame"
  /\ page' = [page EXCEPT ![t] = ~page[t]]
  /\ UNCHANGED <<at, leaving, started, held, shown, engineVars, params, status>>

(* writeParams opens the file, which empties it.                           *)
OpenParams == params' = "empty" /\ UNCHANGED status

(* start(), from the page or the tray, which offer it while they show the  *)
(* engine as not running; nothing when it was started.                     *)
StartBegin(t) ==
  /\ ~shown[t] /\ ~started[t]
  /\ Go(t, "frame", "start")
  /\ OpenParams
  /\ UNCHANGED <<leaving, started, held, page, shown, engineVars>>

StartFill(t) ==
  /\ Go(t, "start", "spawn")
  /\ params' = "run"
  /\ UNCHANGED <<leaving, started, held, page, shown, engineVars, status>>

(* The status file is removed, which throws while an engine has it open,   *)
(* and nothing catches that; then CreateProcess, which may fail.           *)
Spawn(t) ==
  /\ IF Writing
     THEN Go(t, "spawn", "crashed") /\ UNCHANGED <<started, held, engineVars, status>>
     ELSE /\ Go(t, "spawn", "frame")
          /\ status' = "absent"
          /\ \/ UNCHANGED <<started, held, engineVars>>
             \/ \E e \in Engines :
                  /\ engine[e] = "unborn"
                  /\ engine' = [engine EXCEPT ![e] = "load"]
                  /\ parent' = [parent EXCEPT ![e] = t]
                  /\ started' = [started EXCEPT ![t] = TRUE]
                  /\ held' = [held EXCEPT ![t] = e]
  /\ UNCHANGED <<leaving, page, shown, params>>

(* updateParams, from the page, while it shows the engine as running.      *)
UpdateBegin(t) ==
  /\ page[t] /\ shown[t]
  /\ Go(t, "frame", "update")
  /\ OpenParams
  /\ UNCHANGED <<leaving, started, held, page, shown, engineVars>>

UpdateFill(t) ==
  /\ Go(t, "update", "frame")
  /\ params' = "run"
  /\ UNCHANGED <<leaving, started, held, page, shown, engineVars, status>>

(* stop(), from the page or the tray while they show the engine as         *)
(* running, or from the destructor; nothing when it was not started.       *)
StopBegin(t) ==
  /\ started[t]
  /\ Go(t, "frame", "stop")
  /\ \/ shown[t] /\ UNCHANGED leaving
     \/ leaving' = [leaving EXCEPT ![t] = TRUE]
  /\ OpenParams
  /\ UNCHANGED <<started, held, page, shown, engineVars>>

StopFill(t) ==
  /\ Go(t, "stop", "wait")
  /\ params' = "stop"
  /\ UNCHANGED <<leaving, started, held, page, shown, engineVars, status>>

AfterStop(t) == IF leaving[t] THEN "exited" ELSE "frame"

(* Mutants of StopWait: the engine is not terminated after the timeout; it *)
(* is waited for without one.                                              *)
StopWaitSpares(t) ==
  /\ Go(t, "wait", AfterStop(t))
  /\ started' = [started EXCEPT ![t] = FALSE]
  /\ held' = [held EXCEPT ![t] = None]
  /\ UNCHANGED <<leaving, page, shown, engineVars, params, status>>

StopWaitForever(t) ==
  /\ Go(t, "wait", AfterStop(t))
  /\ held[t] \notin Live
  /\ started' = [started EXCEPT ![t] = FALSE]
  /\ held' = [held EXCEPT ![t] = None]
  /\ UNCHANGED <<leaving, page, shown, engineVars, params, status>>

(* The engine has exited, or it is terminated after three seconds.         *)
StopWait(t) ==
  /\ Go(t, "wait", AfterStop(t))
  /\ engine' = [engine EXCEPT ![held[t]] = "exited"]
  /\ started' = [started EXCEPT ![t] = FALSE]
  /\ held' = [held EXCEPT ![t] = None]
  /\ UNCHANGED <<leaving, page, shown, parent, params, status>>

(* The program ends; the destructor's stop() has nothing to do.            *)
Exit(t) ==
  /\ ~started[t]
  /\ Go(t, "frame", "exited")
  /\ UNCHANGED <<leaving, started, held, page, shown, engineVars, params, status>>

Crash(t) ==
  /\ at[t] \notin {"off"} \cup Ended
  /\ at' = [at EXCEPT ![t] = "crashed"]
  /\ UNCHANGED <<leaving, started, held, page, shown, engineVars, params, status>>

(* parseStatusJson; without a file, what the controller itself believes.   *)
FileSaysRunning(t) ==
  IF status = "absent" THEN started[t] ELSE status = "running"

(* poll(), in every frame that draws the camera page.                      *)
Poll(t) ==
  /\ at[t] = "frame" /\ page[t]
  /\ IF started[t] /\ held[t] \notin Live
     THEN /\ started' = [started EXCEPT ![t] = FALSE]
          /\ held' = [held EXCEPT ![t] = None]
          /\ shown' = [shown EXCEPT ![t] = FALSE]
     ELSE /\ shown' = [shown EXCEPT ![t] = FileSaysRunning(t)]
          /\ UNCHANGED <<started, held>>
  /\ UNCHANGED <<at, leaving, page, engineVars, params, status>>

-----------------------------------------------------------------------------
(* The engine: main() of camera_engine.py.                                 *)

Move(e, from, to) == engine[e] = from /\ engine' = [engine EXCEPT ![e] = to]

(* The first load_params: an engine told to stop leaves without a word.    *)
EngineLoad(e) ==
  /\ Move(e, "load", IF params = "stop" THEN "exited" ELSE "open")
  /\ UNCHANGED <<toolboxVars, parent, params, status>>

(* The virtual camera and the camera are opened; either may fail.          *)
EngineOpen(e) ==
  /\ \/ Move(e, "open", "writeRunning")
     \/ Move(e, "open", "writeStopped")
  /\ status' = "empty"
  /\ UNCHANGED <<toolboxVars, parent, params>>

(* Mutant of MayRun: nobody looks after the parent.                        *)
MayRunAlone(e) == params # "stop"

MayRun(e) == at[parent[e]] \notin Ended /\ params # "stop"

(* The head of the loop: parent_alive and load_params.                     *)
EngineCheck(e) ==
  /\ engine[e] = "check"
  /\ IF MayRun(e)
     THEN Move(e, "check", "work") /\ UNCHANGED status
     ELSE Move(e, "check", "writeStopped") /\ status' = "empty"
  /\ UNCHANGED <<toolboxVars, parent, params>>

(* The body: a frame, or a camera that is lost or found; with a status or  *)
(* without.                                                                *)
EngineWork(e) ==
  /\ \/ Move(e, "work", "check") /\ UNCHANGED status
     \/ Move(e, "work", "writeRunning") /\ status' = "empty"
  /\ UNCHANGED <<toolboxVars, parent, params>>

(* write_status closes the file.                                           *)
EngineWrite(e) ==
  /\ \/ Move(e, "writeRunning", "check") /\ status' = "running"
     \/ Move(e, "writeStopped", "exited") /\ status' = "stopped"
  /\ UNCHANGED <<toolboxVars, parent, params>>

Age ==
  /\ status = "running"
  /\ status' = "stale"
  /\ UNCHANGED <<toolboxVars, engineVars, params>>

InCall(t) == StartFill(t) \/ Spawn(t) \/ UpdateFill(t) \/ StopFill(t) \/ StopWait(t)

Request(t) == \/ Launch(t) \/ TurnPage(t) \/ StartBegin(t) \/ UpdateBegin(t)
              \/ StopBegin(t) \/ Exit(t) \/ Crash(t)

Engine(e) == \/ EngineLoad(e) \/ EngineOpen(e) \/ EngineCheck(e)
             \/ EngineWork(e) \/ EngineWrite(e)

(* Every toolbox has ended and every engine with it.                       *)
Over == Live = {} /\ (\A t \in Toolboxes : at[t] \in Ended) /\ UNCHANGED vars

Next ==
  \/ \E t \in Toolboxes : Request(t) \/ InCall(t) \/ Poll(t)
  \/ \E e \in Engines : Engine(e)
  \/ Age \/ Over

Spec == Init /\ [][Next]_vars

(* Processes run, frames are drawn, time passes.  A camera that is opened  *)
(* or read answers, well or badly.                                         *)
Fairness ==
  /\ \A t \in Toolboxes : WF_vars(InCall(t)) /\ WF_vars(Poll(t))
  /\ \A e \in Engines : WF_vars(Engine(e))
  /\ WF_vars(Age)

FairSpec == Spec /\ Fairness

-----------------------------------------------------------------------------
(* Properties.                                                             *)

(* Types.                                                                  *)
TypeOK ==
  /\ at \in [Toolboxes -> Places]
  /\ leaving \in [Toolboxes -> BOOLEAN] /\ started \in [Toolboxes -> BOOLEAN]
  /\ held \in [Toolboxes -> Engines \cup {None}]
  /\ page \in [Toolboxes -> BOOLEAN] /\ shown \in [Toolboxes -> BOOLEAN]
  /\ engine \in [Engines -> EngineStates]
  /\ parent \in [Engines -> Toolboxes \cup {None}]
  /\ params \in {"run", "stop", "empty"}
  /\ status \in {"absent", "empty", "running", "stale", "stopped"}

(* A toolbox never has two engines, nor one it could not stop: an engine   *)
(* that lives belongs to the toolbox that holds it, and a toolbox that was *)
(* stopped or left in order leaves none behind, whatever other toolboxes   *)
(* wrote into the shared files.                                            *)
OneEngineEach ==
  \A e \in Live : at[parent[e]] # "crashed"
                    => started[parent[e]] /\ held[parent[e]] = e /\ at[parent[e]] # "exited"

(* The engine of a toolbox that ended, in order or not, ends too, although *)
(* other toolboxes go on writing running into the parameter file.          *)
OrphanExits ==
  \A e \in Engines :
    (e \in Live /\ at[parent[e]] \in Ended) ~> e \notin Live

(* stop() returns whatever the engine does and reads.                      *)
StopReturns == \A t \in Toolboxes : at[t] = "wait" ~> at[t] # "wait"

Leaves(t) == ~page[t] \/ at[t] # "frame"

(* The page does not go on showing an engine as running when there is none *)
(* left, although the last status of a terminated one says so.             *)
PhantomEnds ==
  \A t \in Toolboxes :
    (at[t] = "frame" /\ shown[t] /\ Live = {}) ~> (~shown[t] \/ Live # {} \/ Leaves(t))
==============================================================================
