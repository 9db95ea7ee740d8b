-------------------------------- MODULE Config --------------------------------
(***************************************************************************)
(* core/config/Config.cpp, and the camera page that saves what is set on   *)
(* it.  Toolboxes (an elevated one and the one that started it) each hold  *)
(* the whole configuration in memory and write the whole file.             *)
(*                                                                         *)
(* One setting stands for each way of reading one: fps, an integer that is *)
(* clamped (so is the interval); camera, an integer that is not (so are    *)
(* rotation and colours); zoom, a floating point number (so is the pan).   *)
(* A number of the file has a type, and is at most 2^64 in the code; an    *)
(* int is one of 2 * HalfInt numbers.                                      *)
(***************************************************************************)
EXTENDS Integers

CONSTANTS
  Toolboxes,
  HalfInt,         (* 2^31 in the code                                      *)
  MinFps, MaxFps,  (* 30 and 240                                            *)
  Numbers          (* the integers an edited file may have                  *)

VARIABLES
  file,    (* config.toml: Absent, Empty, Broken, or what it assigns        *)
  config,  (* the configuration of each toolbox, Off when it does not run   *)
  params,  (* the page's parameters, Off before it is first drawn           *)
  saving,  (* the toolboxes between opening the file and writing it         *)
  saved    (* the configuration the file was written from; Off otherwise    *)

vars == <<file, config, params, saving, saved>>

Off == [fps |-> 0]
Absent == [absent |-> TRUE]
Broken == [broken |-> TRUE]    (* no TOML: nothing of it is taken *)
Empty == [s \in {} |-> <<>>]   (* a file that assigns nothing *)

Default == [fps |-> MinFps, camera |-> 0, zoom |-> 1]
Zooms == {1, 2}

Init ==
  /\ file = Absent
  /\ config = [t \in Toolboxes |-> Off] /\ params = config
  /\ saving = {} /\ saved = Off

Running == {t \in Toolboxes : config[t] # Off}
Free(t) == t \in Running \ saving

-----------------------------------------------------------------------------
(* Reading and writing.                                                    *)

clampInt(value, lo, hi) == IF value < lo THEN lo ELSE IF value > hi THEN hi ELSE value

(* static_cast<int> of an int64_t.                                         *)
AsInt(value) == ((value + HalfInt) % (2 * HalfInt)) - HalfInt

(* get_as<T>: a number of another type is as good as none.                 *)
Has(f, setting, type) == setting \in DOMAIN f /\ f[setting].type = type

Loaded(f) ==
  IF f = Broken THEN Default
  ELSE [fps    |-> IF Has(f, "fps", "int") THEN clampInt(AsInt(f["fps"].value), MinFps, MaxFps)
                   ELSE Default.fps,
        camera |-> IF Has(f, "camera", "int") THEN AsInt(f["camera"].value) ELSE Default.camera,
        zoom   |-> IF Has(f, "zoom", "float") THEN f["zoom"].value ELSE Default.zoom]

(* Mutant of Written: whole numbers are written without a point.           *)
WrittenShort(c) == [s \in DOMAIN c |-> [type |-> "int", value |-> c[s]]]

Written(c) ==
  [s \in DOMAIN c |-> [type |-> IF s = "zoom" THEN "float" ELSE "int", value |-> c[s]]]

(* Opening the file for writing empties it; when it cannot be opened       *)
(* nothing is saved.                                                       *)
OpenToSave(t) ==
  \/ file' = Empty /\ saved' = Off /\ saving' = saving \cup {t}
  \/ UNCHANGED <<file, saved, saving>>

(* Over what another toolbox wrote meanwhile.                              *)
Write(t) ==
  /\ t \in saving /\ saving' = saving \ {t}
  /\ \/ file' = Written(config[t]) /\ saved' = config[t]
     \/ file # Empty /\ file' = Broken /\ saved' = Off
  /\ UNCHANGED <<config, params>>

-----------------------------------------------------------------------------
(* A toolbox.                                                              *)

Load(t) ==
  /\ config[t] = Off
  /\ config' = [config EXCEPT ![t] = IF file = Absent THEN Default ELSE Loaded(file)]
  /\ IF file = Absent THEN OpenToSave(t) ELSE UNCHANGED <<file, saved, saving>>
  /\ UNCHANGED params

(* The page takes the camera settings when it is first drawn.  A camera    *)
(* below 0 passes the test that it is within the list, and at() throws.    *)
DrawPage(t) ==
  /\ Free(t) /\ params[t] = Off
  /\ IF config[t].camera < 0
     THEN config' = [config EXCEPT ![t] = Off] /\ UNCHANGED params
     ELSE params' = [params EXCEPT ![t] = config[t]] /\ UNCHANGED config
  /\ UNCHANGED <<file, saving, saved>>

(* The list of cameras and the sliders: every change is saved.             *)
Change(t) ==
  /\ Free(t) /\ params[t] # Off
  /\ \E camera \in {0, 1}, zoom \in Zooms :
       params' = [params EXCEPT ![t] = [fps |-> @.fps, camera |-> camera, zoom |-> zoom]]
  /\ config' = [config EXCEPT ![t] = params'[t]]
  /\ OpenToSave(t)

(* The wheel and the mouse on the preview: nothing is saved.               *)
ChangeOnPreview(t) ==
  /\ Free(t) /\ params[t] # Off
  /\ \E zoom \in Zooms : params' = [params EXCEPT ![t] = [@ EXCEPT !.zoom = zoom]]
  /\ UNCHANGED <<file, config, saving, saved>>

(* The toolbox is closed, or ends at any moment.                           *)
End(t) ==
  /\ t \in Running
  /\ config' = [config EXCEPT ![t] = Off]
  /\ params' = [params EXCEPT ![t] = Off]
  /\ saving' = saving \ {t}
  /\ UNCHANGED <<file, saved>>

(* The user edits the file.                                                *)
Edit ==
  /\ \/ file' \in {Absent, Broken}
     \/ \E n \in Numbers, fps \in {"int", "float"}, zoom \in {"int", "float"} :
          file' = [fps    |-> [type |-> fps, value |-> n],
                   camera |-> [type |-> "int", value |-> n],
                   zoom   |-> [type |-> zoom, value |-> 2]]
  /\ saved' = Off
  /\ UNCHANGED <<config, params, saving>>

Next ==
  \/ \E t \in Toolboxes :
       Load(t) \/ DrawPage(t) \/ Change(t) \/ ChangeOnPreview(t) \/ Write(t) \/ End(t)
  \/ Edit

Spec == Init /\ [][Next]_vars

-----------------------------------------------------------------------------
(* Properties.                                                             *)

Configurations ==
  [fps : MinFps .. MaxFps, camera : -HalfInt .. HalfInt - 1, zoom : Zooms]

(* Types; that fps is in its range, whatever the file says, among them.    *)
TypeOK ==
  /\ file \in {Absent, Broken} \/ DOMAIN file \subseteq DOMAIN Default
  /\ \A t \in Toolboxes : config[t] = Off \/ config[t] \in Configurations
  /\ \A t \in Toolboxes : params[t] = Off \/ params[t] \in Configurations
  /\ saving \subseteq Running
  /\ saved = Off \/ saved \in Configurations

(* What a toolbox has saved is what the next one loads, until somebody     *)
(* writes the file again: of a configuration that came from any file, and  *)
(* from any sequence of changes.                                           *)
SavedIsLoaded == saved # Off => Loaded(file) = saved
==============================================================================
