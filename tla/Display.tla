------------------------------- MODULE Display -------------------------------
(***************************************************************************)
(* DisplayProvider's snapshot: the displays Windows lists, and what the    *)
(* registry has of their monitors.  (Loading and applying modes ends the   *)
(* program: AsyncOperation.RequestUnallocated.)                            *)
(*                                                                         *)
(* The registry keeps, by model and instance, an EDID of every monitor     *)
(* that ever was connected; it may be missing or damaged.  The provider    *)
(* knows a monitor's model only, and not always.                           *)
(***************************************************************************)
EXTENDS Naturals

CONSTANTS Displays,  (* the outputs of the graphics adapters               *)
          Models,    (* of monitors: numbers, in the order of their names  *)
          Instances  (* of a model: numbers, in the order of the keys      *)

Unknown == 0
NotKept == <<0, 0>>

VARIABLES
  kept,      (* the monitors whose EDID in the registry is good            *)
  connected, (* the model of each display's monitor                        *)
  displays   (* the snapshot: model and EDID of each display's monitor     *)

displayVars == <<kept, connected, displays>>

(* What the provider learns of a model, from a device name it can take     *)
(* apart.                                                                  *)
Told == Models \cup {Unknown}

Init == kept = {} /\ connected = <<>> /\ displays = <<>>

-----------------------------------------------------------------------------

(* A monitor is connected; its EDID is kept unless it could not be read.   *)
Connect(d, model, monitor) ==
  /\ d \notin DOMAIN connected
  /\ connected' = [e \in DOMAIN connected \cup {d} |-> IF e = d THEN model ELSE connected[e]]
  /\ kept' \in {kept, kept \cup {monitor}}
  /\ model # Unknown => monitor[1] = model
  /\ UNCHANGED displays

Disconnect(d) ==
  /\ d \in DOMAIN connected
  /\ connected' = [e \in DOMAIN connected \ {d} |-> connected[e]]
  /\ UNCHANGED <<kept, displays>>

(* The keys that are looked at: those of the model, or all of them when it *)
(* is not known.                                                           *)
Matching(model) == {k \in kept : model # Unknown => k[1] = model}

(* readEdidForMonitor: the first of them that can be parsed.               *)
Edid(model) ==
  IF Matching(model) = {} THEN NotKept
  ELSE CHOOSE k \in Matching(model) : \A other \in Matching(model) :
         k[1] < other[1] \/ (k[1] = other[1] /\ k[2] <= other[2])

Refresh ==
  /\ displays' = [d \in DOMAIN connected |->
                    [model |-> connected[d], edid |-> Edid(connected[d])]]
  /\ UNCHANGED <<kept, connected>>

Next ==
  \/ \E d \in Displays :
       \/ Disconnect(d)
       \/ \E model \in Told, monitor \in Models \X Instances : Connect(d, model, monitor)
  \/ Refresh

Spec == Init /\ [][Next]_displayVars

-----------------------------------------------------------------------------
(* Properties.                                                             *)

(* Types.                                                                  *)
TypeOK ==
  /\ kept \subseteq Models \X Instances
  /\ DOMAIN connected \subseteq Displays /\ connected \in [DOMAIN connected -> Told]
  /\ displays \in [DOMAIN displays ->
                     [model : Told, edid : (Models \X Instances) \cup {NotKept}]]

(* A monitor of a known model is shown with the EDID of one of its model,  *)
(* whatever else was ever connected.  (Two of the same model are not told  *)
(* apart: both are shown with the first.)                                  *)
EdidIsOfItsModel ==
  \A d \in DOMAIN displays :
    displays[d].model # Unknown => displays[d].edid[1] \in {displays[d].model, 0}
==============================================================================
