------------------------- MODULE CameraEngine_proofs -------------------------
(***************************************************************************)
(* Proofs about CameraEngine, for any sets of toolboxes and engines.       *)
(***************************************************************************)
EXTENDS CameraEngine, TLAPS

(* An engine that was created has a toolbox for a parent.                  *)
Born == \A e \in Engines : engine[e] # "unborn" => parent[e] \in Toolboxes

(* A toolbox that was started holds an engine that was created; inside     *)
(* start() it was not started, inside stop() it was.                       *)
Calls == \A t \in Toolboxes :
  /\ started[t] => held[t] \in Engines /\ engine[held[t]] # "unborn"
  /\ at[t] \in {"start", "spawn"} => ~started[t]
  /\ at[t] \in {"stop", "wait"} => started[t]

(* OneEngineEach is not inductive by itself: it needs Calls, so that a new *)
(* engine does not replace one that lives, and Born, so that the parent of *)
(* a live engine is a toolbox.                                             *)
IInv == TypeOK /\ Born /\ Calls /\ OneEngineEach

(* None is no process: ThreadsMC and SystemMC assume it of theirs.         *)
ProcessesOK == None \notin Toolboxes \cup Engines

LEMMA Initially == ASSUME ProcessesOK PROVE Init => IInv
BY DEF ProcessesOK, Init, IInv, TypeOK, Born, Calls, OneEngineEach, Live, Alive, Places, Ended,
       EngineStates

(* What a step of one toolbox that creates and ends no engine preserves.   *)
LEMMA QuietToolbox ==
  ASSUME IInv, NEW t \in Toolboxes, NEW place \in Places,
         at' = [at EXCEPT ![t] = place],
         UNCHANGED <<started, held, engine, parent>>,
         leaving' \in [Toolboxes -> BOOLEAN], page' \in [Toolboxes -> BOOLEAN],
         shown' \in [Toolboxes -> BOOLEAN],
         params' \in {"run", "stop", "empty"},
         status' \in {"absent", "empty", "running", "stale", "stopped"},
         place \in {"start", "spawn"} => ~started[t],
         place \in {"stop", "wait"} => started[t],
         place = "exited" => ~started[t],
         at[t] # "crashed"
  PROVE  IInv'
<1>1. TypeOK'
  BY DEF IInv, TypeOK
<1>2. Born' /\ Calls'
  BY DEF IInv, TypeOK, Born, Calls
<1>3. OneEngineEach'
  BY DEF IInv, TypeOK, Born, OneEngineEach, Live, Alive
<1>. QED  BY <1>1, <1>2, <1>3 DEF IInv

(* What a step of an engine that was created preserves.                    *)
LEMMA EngineMoves ==
  ASSUME IInv, NEW e \in Engines, engine[e] \in Alive,
         NEW place \in EngineStates, place # "unborn",
         engine' = [engine EXCEPT ![e] = place],
         UNCHANGED <<toolboxVars, parent, params>>,
         status' \in {"absent", "empty", "running", "stale", "stopped"}
  PROVE  IInv'
<1>1. TypeOK'
  BY DEF IInv, TypeOK, toolboxVars
<1>2. Born' /\ Calls'
  BY DEF IInv, TypeOK, Born, Calls, toolboxVars, Alive
<1>3. OneEngineEach'
  BY DEF IInv, TypeOK, Born, OneEngineEach, Live, Alive, toolboxVars
<1>. QED  BY <1>1, <1>2, <1>3 DEF IInv

LEMMA Spawned ==
  ASSUME IInv, NEW t \in Toolboxes, Spawn(t)
  PROVE  IInv'
<1>1. CASE Writing
  BY <1>1, QuietToolbox DEF Spawn, Go, engineVars, IInv, TypeOK, Places, Ended
<1>2. CASE ~Writing /\ UNCHANGED <<started, held, engineVars>>
  BY <1>2, QuietToolbox DEF Spawn, Go, engineVars, IInv, TypeOK, Places, Ended
<1>3. CASE ~Writing /\ ~UNCHANGED <<started, held, engineVars>>
  <2>1. PICK e \in Engines :
          /\ engine[e] = "unborn"
          /\ engine' = [engine EXCEPT ![e] = "load"]
          /\ parent' = [parent EXCEPT ![e] = t]
          /\ started' = [started EXCEPT ![t] = TRUE]
          /\ held' = [held EXCEPT ![t] = e]
    BY <1>3 DEF Spawn
  <2>2. /\ at[t] = "spawn" /\ at' = [at EXCEPT ![t] = "frame"] /\ status' = "absent"
        /\ UNCHANGED <<leaving, page, shown, params>>
    BY <1>3 DEF Spawn, Go
  <2>3. TypeOK'
    BY <2>1, <2>2 DEF IInv, TypeOK, Places, EngineStates
  <2>4. Born'
    BY <2>1 DEF IInv, TypeOK, Born
  <2>5. Calls'
    BY <2>1, <2>2 DEF IInv, TypeOK, Calls
  <2>6. OneEngineEach'
    BY <2>1, <2>2 DEF IInv, TypeOK, Born, Calls, OneEngineEach, Live, Alive
  <2>. QED  BY <2>3, <2>4, <2>5, <2>6 DEF IInv
<1>. QED  BY <1>1, <1>2, <1>3

LEMMA Stopped ==
  ASSUME IInv, NEW t \in Toolboxes, StopWait(t)
  PROVE  IInv'
<1>1. PICK place \in {"exited", "frame"} : at' = [at EXCEPT ![t] = place]
  BY DEF StopWait, Go, AfterStop
<1>2. /\ at[t] = "wait" /\ engine' = [engine EXCEPT ![held[t]] = "exited"]
      /\ started' = [started EXCEPT ![t] = FALSE]
      /\ held' = [held EXCEPT ![t] = None]
      /\ UNCHANGED <<leaving, page, shown, parent, params, status>>
  BY DEF StopWait, Go
<1>3. held[t] \in Engines /\ started[t]
  BY <1>2 DEF IInv, Calls
<1>4. engine[held[t]] # "unborn"
  BY <1>3 DEF IInv, Calls
<1>5. TypeOK'
  BY <1>1, <1>2, <1>3 DEF IInv, TypeOK, Places, Ended, EngineStates
<1>6. Born'
  BY <1>2, <1>3, <1>4 DEF IInv, TypeOK, Born
<1>7. Calls'
  BY <1>1, <1>2 DEF IInv, TypeOK, Calls
<1>8. OneEngineEach'
  BY <1>1, <1>2, <1>3 DEF IInv, TypeOK, Born, OneEngineEach, Live, Alive
<1>. QED  BY <1>5, <1>6, <1>7, <1>8 DEF IInv

LEMMA Polled ==
  ASSUME IInv, NEW t \in Toolboxes, Poll(t)
  PROVE  IInv'
<1>1. TypeOK'
  BY DEF Poll, FileSaysRunning, engineVars, IInv, TypeOK
<1>2. Born' /\ Calls'
  BY DEF Poll, engineVars, IInv, TypeOK, Born, Calls
<1>3. OneEngineEach'
  BY DEF Poll, engineVars, IInv, TypeOK, Born, OneEngineEach, Live, Alive
<1>. QED  BY <1>1, <1>2, <1>3 DEF IInv

LEMMA Preserved == IInv /\ [Next]_vars => IInv'
<1>. SUFFICES ASSUME IInv, [Next]_vars PROVE IInv'
  OBVIOUS
<1>1. CASE UNCHANGED vars
  BY <1>1 DEF vars, toolboxVars, engineVars, IInv, TypeOK, Born, Calls,
              OneEngineEach, Live
<1>2. ASSUME NEW t \in Toolboxes, Launch(t) \/ Exit(t) \/ Crash(t) PROVE IInv'
  BY <1>2, QuietToolbox
     DEF Launch, Exit, Crash, Go, engineVars, IInv, TypeOK, Places, Ended
<1>3. ASSUME NEW t \in Toolboxes, TurnPage(t) PROVE IInv'
  BY <1>3, QuietToolbox DEF TurnPage, engineVars, IInv, TypeOK, Places
<1>4. ASSUME NEW t \in Toolboxes, StartBegin(t) \/ UpdateBegin(t) \/ StopBegin(t)
      PROVE  IInv'
  BY <1>4, QuietToolbox
     DEF StartBegin, UpdateBegin, StopBegin, OpenParams, Go, engineVars, IInv, TypeOK,
         Places
<1>5. ASSUME NEW t \in Toolboxes, StartFill(t) \/ UpdateFill(t) \/ StopFill(t)
      PROVE  IInv'
  BY <1>5, QuietToolbox
     DEF StartFill, UpdateFill, StopFill, Go, engineVars, IInv, TypeOK, Places, Calls
<1>6. ASSUME NEW t \in Toolboxes, Spawn(t) \/ StopWait(t) \/ Poll(t) PROVE IInv'
  BY <1>6, Spawned, Stopped, Polled
<1>7. ASSUME NEW e \in Engines, Engine(e) PROVE IInv'
  BY <1>7, EngineMoves
     DEF Engine, EngineLoad, EngineOpen, EngineCheck, EngineWork, EngineWrite, Move,
         EngineStates, Alive, IInv, TypeOK
<1>8. CASE Age
  BY <1>8 DEF Age, toolboxVars, engineVars, IInv, TypeOK, Born, Calls, OneEngineEach, Live
<1>. QED
  BY <1>1, <1>2, <1>3, <1>4, <1>5, <1>6, <1>7, <1>8 DEF Next, Request, InCall, Over

(* However many toolboxes and engines there are: both kinds of process and *)
(* the two files keep their types, and every engine that lives is the one  *)
(* its toolbox holds, unless that toolbox crashed.                         *)
THEOREM EnginesHeld ==
  ASSUME ProcessesOK
  PROVE  Spec => [](TypeOK /\ OneEngineEach)
<1>1. Init => IInv
  BY Initially
<1>2. IInv /\ [Next]_vars => IInv'
  BY Preserved
<1>3. IInv => TypeOK /\ OneEngineEach
  BY DEF IInv
<1>. QED  BY <1>1, <1>2, <1>3, PTL DEF Spec
==============================================================================
