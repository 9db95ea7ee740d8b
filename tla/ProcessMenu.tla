----------------------------- MODULE ProcessMenu -----------------------------
(***************************************************************************)
(* From a row of the process page to the process it acts on: the context   *)
(* menu, the dialogs that ask for confirmation or for a mask (ProcessPage),*)
(* and the thread of an operation on one process (ProcessProvider).        *)
(*                                                                         *)
(* A row, a dialog and a thread hold the number of a process.  The dialog  *)
(* may stand for long, and the process behind the number may end and its   *)
(* number go to another before the thread opens it; from then on the       *)
(* handle is of that process.  A birth tells the processes apart; the      *)
(* program does not see it.  0 is no process.                              *)
(*                                                                         *)
(* The thread of an operation is never joined, so that the next operation  *)
(* after it ends the program (AsyncOperation), and the user starts it      *)
(* anew.                                                                   *)
(***************************************************************************)
EXTENDS Naturals

CONSTANTS MenuPids,  (* the numbers of processes                           *)
          MaxStarted (* bound: how many processes ever start               *)

ASSUME MenuAssumption == MenuPids \subseteq Nat \ {0} /\ MaxStarted \in Nat

VARIABLES
  holder,   (* the birth of the process that has each number               *)
  started,  (* how many processes have started                             *)
  row,      (* the birth each number had in the snapshot shown             *)
  asked,    (* m_pendingOp and m_pendingPid, or the affinity dialog        *)
  thread,   (* the operation's thread, and the process its handle is of    *)
  used,     (* whether opThread has been created                           *)
  result,   (* m_lastOperation                                             *)
  hit,      (* history: the process last acted on, and the one named       *)
  launched  (* history: whether the operation launched a program           *)

vars == <<holder, started, row, asked, thread, used, result, hit, launched>>
page == <<row, asked>>
histories == <<hit, launched>>

Immediate == {"suspend", "resume", "priority"}
Confirmed == {"end", "restart"}
Kinds == Immediate \cup Confirmed \cup {"affinity"}

None == [kind |-> "none", pid |-> 0, named |-> 0]
NoThread == [at |-> "idle", kind |-> "none", pid |-> 0, named |-> 0, target |-> 0]
NoResult == [kind |-> "none", success |-> FALSE]
Untouched == [who |-> 0, named |-> 0]

Alive(who) == \E p \in MenuPids : holder[p] = who

Init ==
  /\ holder = [p \in MenuPids |-> 0] /\ started = 0
  /\ row = holder /\ asked = None
  /\ thread = NoThread /\ used = FALSE /\ result = NoResult
  /\ hit = Untouched /\ launched = FALSE

-----------------------------------------------------------------------------
(* The system.                                                             *)

(* A process starts and takes a free number.                               *)
Begin(p) ==
  /\ holder[p] = 0 /\ started < MaxStarted
  /\ started' = started + 1
  /\ holder' = [holder EXCEPT ![p] = started + 1]

Start(p) == Begin(p) /\ UNCHANGED <<page, thread, used, result, histories>>

Exit(p) ==
  /\ holder[p] # 0
  /\ holder' = [holder EXCEPT ![p] = 0]
  /\ UNCHANGED <<started, page, thread, used, result, histories>>

(* The worker publishes another snapshot.                                  *)
Refresh ==
  /\ row' = holder
  /\ UNCHANGED <<holder, started, asked, thread, used, result, histories>>

-----------------------------------------------------------------------------
(* The page.                                                               *)

(* runOperation: dropped while an operation runs.  An opThread that has    *)
(* ended but was not joined ends the program.                              *)
Request(kind, p, named) ==
  \/ thread.at # "idle" /\ UNCHANGED <<thread, used, result, row>>
  \/ /\ thread.at = "idle" /\ ~used
     /\ thread' = [at |-> "open", kind |-> kind, pid |-> p, named |-> named, target |-> 0]
     /\ used' = TRUE
     /\ UNCHANGED <<result, row>>
  \/ /\ thread.at = "idle" /\ used
     /\ used' = FALSE /\ result' = NoResult
     /\ row' = [q \in MenuPids |-> 0]
     /\ UNCHANGED thread

(* The context menu of a row.  What needs no confirmation is requested in  *)
(* the same frame, by dispatchPending.                                     *)
Choose(kind, p) ==
  /\ asked = None /\ row[p] # 0
  /\ \/ /\ kind \in Immediate
        /\ Request(kind, p, row[p])
        /\ UNCHANGED asked
     \/ /\ kind \notin Immediate
        /\ asked' = [kind |-> kind, pid |-> p, named |-> row[p]]
        /\ UNCHANGED <<row, thread, used, result>>
  /\ UNCHANGED <<holder, started, histories>>

(* The dialog is confirmed.                                                *)
Confirm ==
  /\ asked # None
  /\ Request(asked.kind, asked.pid, asked.named)
  /\ asked' = None
  /\ UNCHANGED <<holder, started, histories>>

(* The dialog is closed: cancelled, or an affinity confirmed with no       *)
(* processor chosen.                                                       *)
Cancel ==
  /\ asked # None
  /\ asked' = None
  /\ UNCHANGED <<holder, started, row, thread, used, result, histories>>

-----------------------------------------------------------------------------
(* The operation's thread.                                                 *)

Report(success) ==
  /\ result' = [kind |-> thread.kind, success |-> success]
  /\ thread' = NoThread

(* Mutant of Open: the thread takes the number of the page, which may be   *)
(* that of the next dialog.                                                *)
OpenPending ==
  /\ thread.at = "open"
  /\ LET p == IF asked = None THEN thread.pid ELSE asked.pid
     IN  /\ holder[p] # 0
         /\ thread' = [thread EXCEPT !.at = "act", !.target = holder[p]]
  /\ launched' = FALSE
  /\ UNCHANGED <<holder, started, page, used, result, hit>>

(* A handle of the process that has the number now.                        *)
Open ==
  /\ thread.at = "open" /\ holder[thread.pid] # 0
  /\ thread' = [thread EXCEPT !.at = "act", !.target = holder[thread.pid]]
  /\ launched' = FALSE
  /\ UNCHANGED <<holder, started, page, used, result, hit>>

(* There is none, or it cannot be opened.                                  *)
OpenFails ==
  /\ thread.at = "open"
  /\ Report(FALSE)
  /\ launched' = FALSE
  /\ UNCHANGED <<holder, started, page, used, hit>>

Hit == hit' = [who |-> thread.target, named |-> thread.named]

(* TerminateProcess, of a process that may have ended by itself.           *)
Terminate ==
  /\ Hit
  /\ \E p \in MenuPids : holder[p] = thread.target /\ holder' = [holder EXCEPT ![p] = 0]

Act ==
  /\ thread.at = "act"
  /\ \/ /\ thread.kind \in Immediate
        /\ Hit /\ Report(TRUE)
        /\ UNCHANGED holder
     \/ thread.kind = "end" /\ Terminate /\ Report(TRUE)
     \/ /\ thread.kind = "restart"
        /\ Terminate \/ UNCHANGED <<holder, hit>>
        /\ thread' = [thread EXCEPT !.at = "launch"]
        /\ UNCHANGED result
  /\ UNCHANGED <<started, page, used, launched>>

(* The call is refused; a mask always is (ProcessOperations), and for a    *)
(* restart the path of the program cannot be told.                         *)
ActFails ==
  /\ thread.at = "act"
  /\ Report(FALSE)
  /\ UNCHANGED <<holder, started, page, used, histories>>

Launch ==
  /\ thread.at = "launch"
  /\ \/ Report(TRUE) /\ launched' = TRUE /\ \E p \in MenuPids : Begin(p)
     \/ Report(FALSE) /\ launched' = FALSE /\ UNCHANGED <<holder, started>>
  /\ UNCHANGED <<page, used, hit>>

Next ==
  \/ \E p \in MenuPids : Start(p) \/ Exit(p) \/ \E kind \in Kinds : Choose(kind, p)
  \/ Refresh \/ Confirm \/ Cancel
  \/ Open \/ OpenFails \/ Act \/ ActFails \/ Launch

Spec == Init /\ [][Next]_vars

-----------------------------------------------------------------------------
(* Properties.                                                             *)

Births == 0 .. MaxStarted

(* Types.                                                                  *)
TypeOK ==
  /\ holder \in [MenuPids -> Births] /\ row \in [MenuPids -> Births]
  /\ started \in Births
  /\ asked \in [kind : Kinds, pid : MenuPids, named : Births] \cup {None}
  /\ \/ thread = NoThread
     \/ thread \in [at : {"open", "act", "launch"}, kind : Kinds, pid : MenuPids,
                    named : Births, target : Births]
  /\ used \in BOOLEAN /\ launched \in BOOLEAN
  /\ result \in [kind : Kinds \cup {"none"}, success : BOOLEAN]
  /\ hit \in [who : Births, named : Births]

(* The process an operation acts on is the one whose row was chosen and    *)
(* whose name the dialog showed (drawContextMenu, dispatchPending), unless *)
(* that one had ended: no other running process is hit in its place,       *)
(* however long the dialog stood and whatever was chosen meanwhile.        *)
HitsWhatWasNamed == hit.who # hit.named => ~Alive(hit.named)

(* A restart reported as done launched the program anew, and one that did  *)
(* not, having ended the process or not, is reported as failed (doRestart).*)
RestartIsHonest ==
  result.kind = "restart" /\ thread.at = "idle" => result.success = launched
==============================================================================
