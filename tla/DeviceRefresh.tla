----------------------------- MODULE DeviceRefresh -----------------------------
(***************************************************************************)
(* DeviceProvider::refresh and the pages that ask for it.  The list is     *)
(* read again when somebody asked, or when the last reading is a minute    *)
(* old.  A reading takes the set of the devices present, and then the      *)
(* properties of each, one after the other, while devices come, go, and    *)
(* are enabled or disabled.                                                *)
(*                                                                         *)
(* What is known of a device is represented by the number of its last      *)
(* change by then.                                                         *)
(***************************************************************************)
EXTENDS Naturals

CONSTANTS Devices, MaxChanges   (* changes of each device *)

VARIABLES
  change,   (* the number of the last change of each device                 *)
  present,  (* the devices present                                          *)
  force,    (* m_force                                                      *)
  age,      (* of m_lastEnum: "never", "fresh" or "old" (kMaxAge)           *)
  at,       (* where the refresh is                                         *)
  unread,   (* the devices of the set whose properties are still to be read *)
  info,     (* what the reading has found out of each device                *)
  snapshot, (* m_snapshot: Null, or what the list tells of each device      *)
  failed,   (* the last reading failed                                      *)
  asked     (* the changes at the time of the last request                  *)

vars == <<change, present, force, age, at, unread, info, snapshot, failed, asked>>
system == <<change, present>>

Null == <<>>

Init ==
  /\ change = [d \in Devices |-> 0] /\ present = Devices
  /\ force = FALSE /\ age = "never" /\ at = "idle"
  /\ unread = {} /\ info = change
  /\ snapshot = Null /\ failed = FALSE
  /\ asked = change

-----------------------------------------------------------------------------
(* The devices, and the clock.                                             *)

Changes(d) ==
  /\ change[d] < MaxChanges
  /\ change' = [change EXCEPT ![d] = @ + 1]
  /\ present' \in {present \cup {d}, present \ {d}}
  /\ UNCHANGED <<force, age, at, unread, info, snapshot, failed, asked>>

AMinutePasses ==
  /\ age = "fresh" /\ age' = "old"
  /\ UNCHANGED <<system, force, at, unread, info, snapshot, failed, asked>>

-----------------------------------------------------------------------------
(* requestRefresh(): three pages call it in every frame until there is a   *)
(* list, and one has a button.                                             *)

Request ==
  /\ force' = TRUE /\ asked' = change
  /\ UNCHANGED <<system, age, at, unread, info, snapshot, failed>>

DrawWithoutList == snapshot = Null /\ Request
RefreshButton == snapshot # Null /\ Request

-----------------------------------------------------------------------------
(* refresh(), called in every cycle of the worker: it returns at once when *)
(* nobody asked and the last reading is fresh.                             *)

(* m_force is cleared before the devices are looked at.                    *)
Begin ==
  /\ at = "idle" /\ at' = "open"
  /\ force \/ age # "fresh"
  /\ force' = FALSE
  /\ UNCHANGED <<system, age, unread, info, snapshot, failed, asked>>

(* SetupDiGetClassDevs.  When it fails an empty list is stored, which      *)
(* counts as read.                                                         *)
Open ==
  /\ at = "open" /\ at' = "read"
  /\ unread' = present
  /\ info' = change
  /\ UNCHANGED <<system, force, age, snapshot, failed, asked>>

OpenFails ==
  /\ at = "open" /\ at' = "idle"
  /\ snapshot' = [d \in Devices |-> 0]
  /\ age' = "fresh" /\ failed' = TRUE
  /\ UNCHANGED <<system, force, unread, info, asked>>

(* The properties of a device, those of its driver, and its status.        *)
Read(d) ==
  /\ at = "read" /\ d \in unread
  /\ unread' = unread \ {d}
  /\ info' = [info EXCEPT ![d] = change[d]]
  /\ UNCHANGED <<system, force, age, at, snapshot, failed, asked>>

(* Mutant of Store: the request is cleared when it is answered.            *)
StoreClears ==
  /\ at = "read" /\ at' = "idle"
  /\ unread = {}
  /\ snapshot' = info
  /\ age' = "fresh" /\ failed' = FALSE /\ force' = FALSE
  /\ UNCHANGED <<system, unread, info, asked>>

Store ==
  /\ at = "read" /\ at' = "idle"
  /\ unread = {}
  /\ snapshot' = info
  /\ age' = "fresh" /\ failed' = FALSE
  /\ UNCHANGED <<system, force, unread, info, asked>>

Next ==
  \/ \E d \in Devices : Changes(d) \/ Read(d)
  \/ AMinutePasses
  \/ DrawWithoutList \/ RefreshButton
  \/ Begin \/ Open \/ OpenFails \/ Store

Spec == Init /\ [][Next]_vars

-----------------------------------------------------------------------------
(* Properties.                                                             *)

Changed == [Devices -> 0 .. MaxChanges]

(* Types.                                                                  *)
TypeOK ==
  /\ change \in Changed /\ present \subseteq Devices
  /\ force \in BOOLEAN /\ age \in {"never", "fresh", "old"}
  /\ at \in {"idle", "open", "read"}
  /\ unread \subseteq Devices /\ info \in Changed
  /\ snapshot = Null \/ snapshot \in Changed
  /\ failed \in BOOLEAN /\ asked \in Changed

(* Who asks is shown what has changed by then: when no request is pending  *)
(* and no reading under way, the list tells of every device at least what  *)
(* it was at the last request, also when that came in the middle of a      *)
(* reading that had passed the device.  (Unless the reading failed.)       *)
RequestSeen ==
  at = "idle" /\ ~force /\ age # "never" /\ ~failed
    => \A d \in Devices : snapshot[d] >= asked[d]
==============================================================================
