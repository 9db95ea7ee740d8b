---------------------------- MODULE VirtualCamera ----------------------------
(***************************************************************************)
(* Installing and removing the virtual camera of Windows: the flags of the *)
(* command line (main.cpp), the action they leave for the camera page      *)
(* (HardwareService.h, CameraPage), VirtualCameraController and            *)
(* VirtualCameraRegistrar.                                                 *)
(*                                                                         *)
(* A direct flag does it before there is a window, and the toolbox ends.   *)
(* Another leaves it to the camera page, which does it once, and only if   *)
(* the toolbox is elevated; so the controller never has to start an        *)
(* elevated toolbox itself and to wait for its result.                     *)
(***************************************************************************)
EXTENDS FiniteSets

CONSTANTS CameraNames, DefaultName

VARIABLES
  installed,  (* the cameras Windows has                                   *)
  toolbox,    (* the flag and name it was started with, and its rights     *)
  action,     (* m_pendingVcameraAction                                    *)
  friendly,   (* the controller's friendlyName                             *)
  running,    (* the operation of its thread                               *)
  report      (* m_status, or the exit code of a direct flag               *)

cameraVars == <<installed, toolbox, action, friendly, running, report>>

Operations == {"register", "unregister"}
Unnamed == "unnamed"
Off == [flag |-> "off"]
Nothing == [op |-> "none"]

Init ==
  /\ installed \in SUBSET CameraNames
  /\ toolbox = Off /\ action = Nothing /\ friendly = Unnamed
  /\ running = Nothing /\ report = Nothing

(* The toolbox is started, by a command line with a name or without.       *)
Launch(flag, op, name, elevated) ==
  /\ toolbox = Off
  /\ toolbox' = [flag |-> flag, elevated |-> elevated]
  /\ action' = IF flag = "plain" THEN Nothing ELSE [op |-> op, name |-> name]
  /\ friendly' = Unnamed /\ running' = Nothing /\ report' = Nothing
  /\ UNCHANGED installed

(* doRegister and doUnregister: the library, the camera's object and its   *)
(* Start or Remove may fail.  An exception may leave it done, and is       *)
(* reported as a failure.                                                  *)
Perform(asked) ==
  LET done == IF asked.op = "register" THEN installed \cup {asked.name}
              ELSE installed \ {asked.name}
  IN  \/ /\ installed' = done
         /\ report' = [op |-> asked.op, name |-> asked.name, success |-> TRUE]
      \/ /\ installed' \in {installed, done}
         /\ report' = [op |-> asked.op, name |-> asked.name, success |-> FALSE]

(* A direct flag.                                                          *)
Direct ==
  /\ toolbox # Off /\ toolbox.flag = "direct" /\ report = Nothing
  /\ Perform(action)
  /\ UNCHANGED <<toolbox, action, friendly, running>>

(* CameraPage::draw: create keeps the name, and remove takes the one kept. *)
(* A toolbox without the rights forgets the action.                        *)
DrawCameraPage ==
  /\ toolbox # Off /\ toolbox.flag = "auto" /\ action # Nothing
  /\ action' = Nothing
  /\ IF ~toolbox.elevated THEN UNCHANGED <<friendly, running>>
     ELSE IF action.op = "register"
     THEN friendly' = action.name /\ running' = action
     ELSE /\ UNCHANGED friendly
          /\ running' = [op |-> "unregister",
                         name |-> IF friendly = Unnamed THEN DefaultName ELSE friendly]
  /\ UNCHANGED <<installed, toolbox, report>>

(* The controller's thread.                                                *)
Operate ==
  /\ running # Nothing
  /\ Perform(running)
  /\ running' = Nothing
  /\ UNCHANGED <<toolbox, action, friendly>>

(* The toolbox ends; the controller's destructor waits for its thread.     *)
Quit ==
  /\ toolbox # Off /\ running = Nothing
  /\ toolbox.flag = "direct" => report # Nothing
  /\ toolbox' = Off
  /\ UNCHANGED <<installed, action, friendly, running, report>>

Next ==
  \/ \E flag \in {"plain", "direct", "auto"}, op \in Operations,
        name \in CameraNames, elevated \in BOOLEAN : Launch(flag, op, name, elevated)
  \/ Direct \/ DrawCameraPage \/ Operate \/ Quit

Spec == Init /\ [][Next]_cameraVars

-----------------------------------------------------------------------------
(* Properties.                                                             *)

(* Types.                                                                  *)
TypeOK ==
  /\ installed \subseteq CameraNames
  /\ toolbox \in [flag : {"plain", "direct", "auto"}, elevated : BOOLEAN] \cup {Off}
  /\ {action, running} \subseteq [op : Operations, name : CameraNames] \cup {Nothing}
  /\ friendly \in CameraNames \cup {Unnamed}
  /\ report \in [op : Operations, name : CameraNames, success : BOOLEAN] \cup {Nothing}

(* A camera reported as installed is installed, and one reported as        *)
(* removed is not, under the name the report gives.                        *)
ReportIsTrue ==
  report # Nothing /\ report.success =>
    (report.name \in installed <=> report.op = "register")

(* Only the cameras that were asked for are touched, except that the page  *)
(* always removes the default one.                                         *)
OthersKept ==
  [][\A n \in CameraNames : (n \in installed) # (n \in installed') =>
       n = DefaultName \/ [op |-> IF n \in installed' THEN "register" ELSE "unregister",
                           name |-> n] \in {action, running}]_cameraVars
==============================================================================
