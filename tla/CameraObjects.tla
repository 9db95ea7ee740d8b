---------------------------- MODULE CameraObjects ----------------------------
(***************************************************************************)
(* The COM objects of virtualcamera.dll, their references and the source's *)
(* initialisation on first use (VirtualCameraFactory, VirtualCameraSource, *)
(* DllGetClassObject).  VirtualCameraSource has what the source does.      *)
(*                                                                         *)
(* The client follows the rules of COM: it calls an object it has a        *)
(* reference to, and releases a reference once and not below a call.  It   *)
(* asks for attributes only of a source it has activated, since those      *)
(* methods do not initialise, and does not unload the library while it has *)
(* objects, which DllCanUnloadNow would always let it do.  The stream is   *)
(* reached by no method of the source: its count stays at the one of its   *)
(* owner, with which it is deleted.                                        *)
(***************************************************************************)
EXTENDS Naturals, FiniteSets

CONSTANTS Callers, (* the client's threads                                 *)
          MaxHeld  (* bound: the references the client takes to an object  *)

Objects == {"factory", "source"}

VARIABLES
  ref,     (* m_ref; 0 when the object is deleted or was never made        *)
  held,    (* how many of them the client has                              *)
  making,  (* the object being made, and whether it has the interface      *)
  ready,   (* m_initFlag and m_initHr                                      *)
  call     (* where each call of a method is                               *)

objectVars == <<ref, held, making, ready, call>>

NoMaking == [object |-> "none"]
Inside == {t \in Callers : call[t] # "outside"}

Init ==
  /\ ref = [o \in Objects |-> 0] /\ held = [o \in Objects |-> 0]
  /\ making = NoMaking /\ ready = "no"
  /\ call = [t \in Callers |-> "outside"]

-----------------------------------------------------------------------------

(* DllGetClassObject and CreateInstance: an object with one reference, the *)
(* maker's own; the client may have asked for an interface it has not.     *)
Make(o, has) ==
  /\ making = NoMaking /\ ref[o] = 0
  /\ o = "source" => held["factory"] > 0
  /\ ref' = [ref EXCEPT ![o] = 1]
  /\ making' = [object |-> o, has |-> has, asked |-> FALSE]
  /\ ready' = IF o = "source" THEN "no" ELSE ready
  /\ UNCHANGED <<held, call>>

(* Mutant of QueryInterface: the client's reference is not counted.        *)
QueryInterfaceUncounted(o) ==
  /\ held' = [held EXCEPT ![o] = @ + 1]
  /\ UNCHANGED ref

(* The interface is another reference.                                     *)
QueryInterface(o) ==
  /\ ref' = [ref EXCEPT ![o] = @ + 1]
  /\ held' = [held EXCEPT ![o] = @ + 1]

MakerQueries ==
  /\ making # NoMaking /\ ~making.asked
  /\ IF making.has THEN QueryInterface(making.object) ELSE UNCHANGED <<ref, held>>
  /\ making' = [making EXCEPT !.asked = TRUE]
  /\ UNCHANGED <<ready, call>>

(* Release; at 0 the object is deleted, the source with its stream.        *)
Drop(o) == ref' = [ref EXCEPT ![o] = @ - 1]

MakerReleases ==
  /\ making # NoMaking /\ making.asked
  /\ Drop(making.object)
  /\ making' = NoMaking
  /\ UNCHANGED <<held, ready, call>>

-----------------------------------------------------------------------------
(* The client.                                                             *)

(* AddRef, or QueryInterface for an interface the object has.              *)
AddRef(o) ==
  /\ held[o] \in 1 .. MaxHeld - 1
  /\ QueryInterface(o)
  /\ UNCHANGED <<making, ready, call>>

(* A call in progress keeps its reference: the source's methods, and the   *)
(* factory's CreateInstance.                                               *)
InUse(o) ==
  IF o = "source" THEN Cardinality(Inside)
  ELSE IF making # NoMaking /\ making.object = "source" THEN 1 ELSE 0

Release(o) ==
  /\ held[o] > InUse(o)
  /\ Drop(o)
  /\ held' = [held EXCEPT ![o] = @ - 1]
  /\ UNCHANGED <<making, ready, call>>

(* A method that begins with ensureInitialized; ActivateObject is one.     *)
Call(t) ==
  /\ call[t] = "outside" /\ held["source"] > InUse("source")
  /\ call' = [call EXCEPT ![t] = "ensure"]
  /\ UNCHANGED <<ref, held, making, ready>>

(* An attribute, of an activated source.                                   *)
Attribute(t) ==
  /\ call[t] = "outside" /\ held["source"] > InUse("source") /\ ready = "done"
  /\ call' = [call EXCEPT ![t] = "inside"]
  /\ UNCHANGED <<ref, held, making, ready>>

(* std::call_once: the first caller initialises, and the others wait.      *)
Initialise(t) ==
  /\ call[t] = "ensure" /\ ready = "no"
  /\ call' = [call EXCEPT ![t] = "initialising"]
  /\ ready' = "running"
  /\ UNCHANGED <<ref, held, making>>

Initialised(t, outcome) ==
  /\ call[t] = "initialising"
  /\ call' = [call EXCEPT ![t] = "ensure"]
  /\ ready' = outcome
  /\ UNCHANGED <<ref, held, making>>

(* A source that failed to initialise refuses every call.                  *)
Ensured(t) ==
  /\ call[t] = "ensure" /\ ready \in {"done", "failed"}
  /\ call' = [call EXCEPT ![t] = IF ready = "failed" THEN "outside" ELSE "inside"]
  /\ UNCHANGED <<ref, held, making, ready>>

Return(t) ==
  /\ call[t] = "inside"
  /\ call' = [call EXCEPT ![t] = "outside"]
  /\ UNCHANGED <<ref, held, making, ready>>

Next ==
  \/ \E o \in Objects : AddRef(o) \/ Release(o) \/ \E has \in BOOLEAN : Make(o, has)
  \/ MakerQueries \/ MakerReleases
  \/ \E t \in Callers :
       \/ Call(t) \/ Attribute(t) \/ Initialise(t) \/ Ensured(t) \/ Return(t)
       \/ \E outcome \in {"done", "failed"} : Initialised(t, outcome)

Spec == Init /\ [][Next]_objectVars

-----------------------------------------------------------------------------
(* Properties.                                                             *)

(* Types.                                                                  *)
TypeOK ==
  /\ {ref, held} \subseteq [Objects -> 0 .. MaxHeld + 1]
  /\ making \in [object : Objects, has : BOOLEAN, asked : BOOLEAN] \cup {NoMaking}
  /\ ready \in {"no", "running", "done", "failed"}
  /\ call \in [Callers -> {"outside", "ensure", "initialising", "inside"}]

(* An object lives exactly as long as its maker or the client has it, so   *)
(* that no call of any thread reaches a deleted one and none is left       *)
(* behind; and no method looks at what has not been initialised, however   *)
(* the first calls meet.                                                   *)
LivesWhileHeld ==
  /\ \A o \in Objects : ref[o] = 0 <=> held[o] = 0 /\ making.object # o
  /\ Inside # {} => ref["source"] > 0
  /\ \A t \in Callers : call[t] = "inside" => ready = "done"
==============================================================================
