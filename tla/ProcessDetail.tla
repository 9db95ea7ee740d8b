----------------------------- MODULE ProcessDetail -----------------------------
(***************************************************************************)
(* The detail of one process, which the page asks for and the refresh      *)
(* thread builds: m_inspectPid is taken and cleared in one exchange, in    *)
(* the next refresh whose enumeration succeeds, and the detail is stored   *)
(* when it is built.  Building it opens the process, which may fail or     *)
(* meet another process of the same number; either way a detail of that    *)
(* number is stored.                                                       *)
(***************************************************************************)
EXTENDS Naturals

CONSTANT Pids  (* the process numbers but 0, which means none              *)

None == 0

VARIABLES
  selected,   (* m_selectedPid                                             *)
  requested,  (* m_inspectRequestedPid                                     *)
  inspectPid, (* m_inspectPid                                              *)
  inspecting, (* the number the refresh thread builds a detail of          *)
  detail      (* the number of the detail stored                           *)

page == <<selected, requested>>
vars == <<page, inspectPid, inspecting, detail>>

Init ==
  /\ selected = None /\ requested = None
  /\ inspectPid = None /\ inspecting = None /\ detail = None

-----------------------------------------------------------------------------
(* The page.                                                               *)

Inspect(p) == requested' = p /\ inspectPid' = p

(* A click on a row; a row already selected asks for nothing.              *)
Click(p) ==
  /\ selected' = p
  /\ IF selected = p THEN UNCHANGED <<requested, inspectPid>> ELSE Inspect(p)
  /\ UNCHANGED <<inspecting, detail>>

(* The context menu selects its row without asking.                        *)
OpenMenu(p) ==
  /\ selected' = p
  /\ UNCHANGED <<requested, inspectPid, inspecting, detail>>

(* The button above the detail.                                            *)
RefreshDetail ==
  /\ selected # None
  /\ Inspect(selected)
  /\ UNCHANGED <<selected, inspecting, detail>>

-----------------------------------------------------------------------------
(* refresh(), of which the enumeration succeeded.                          *)

(* m_inspectPid.exchange(0).                                               *)
Take ==
  /\ inspecting = None /\ inspectPid # None
  /\ inspecting' = inspectPid
  /\ inspectPid' = None
  /\ UNCHANGED <<page, detail>>

(* Mutant of Store: the number is cleared when the detail was stored, and  *)
(* with it one that came meanwhile.                                        *)
StoreClears ==
  /\ inspecting # None
  /\ detail' = inspecting
  /\ inspecting' = None
  /\ inspectPid' = None
  /\ UNCHANGED page

(* m_detail.store(buildDetail(...)).                                       *)
Store ==
  /\ inspecting # None
  /\ detail' = inspecting
  /\ inspecting' = None
  /\ UNCHANGED <<page, inspectPid>>

Page == \/ \E p \in Pids : Click(p) \/ OpenMenu(p)
        \/ RefreshDetail
Refresh == Take \/ Store

Next == Page \/ Refresh
Spec == Init /\ [][Next]_vars

(* The worker calls refresh() again and again, and the enumeration does    *)
(* not fail for ever.                                                      *)
FairSpec == Spec /\ WF_vars(Refresh)

-----------------------------------------------------------------------------
(* Properties.                                                             *)

Numbers == Pids \cup {None}

(* Types.                                                                  *)
TypeOK ==
  /\ selected \in Numbers /\ requested \in Numbers
  /\ inspectPid \in Numbers /\ inspecting \in Numbers /\ detail \in Numbers

Shown(p) == selected = p /\ detail = p

(* "Getting the details" is not shown for ever: however requests and the   *)
(* refresh thread cross, the detail of the row last asked for arrives, and *)
(* no older request replaces it for good.                                  *)
RequestAnswered ==
  \A p \in Pids : (requested = p /\ selected = p) ~> (Shown(p) \/ selected # p \/ requested # p)
==============================================================================
