-------------------------- MODULE ProcessMenu_proofs --------------------------
(***************************************************************************)
(* Proofs about ProcessMenu, for every set of process numbers and every    *)
(* number of processes that start.                                         *)
(*                                                                         *)
(* A birth is given once and to one number.  So a process that was named   *)
(* with a number either still has it, and is what opening the number       *)
(* gives, or has ended and never comes back.  The invariant says this of   *)
(* every place that remembers a process: the rows, the dialog, the thread  *)
(* and the last hit.                                                       *)
(***************************************************************************)
EXTENDS ProcessMenu, TLAPS

(* A birth that was given to number p, or is none: no other number has it. *)
Named(b, p) == b \in 1 .. started /\ \A q \in MenuPids : holder[q] = b => q = p

Inv ==
  /\ started \in Nat
  /\ holder \in [MenuPids -> Nat]
  /\ \A p \in MenuPids : holder[p] # 0 => Named(holder[p], p)
  /\ row \in [MenuPids -> Nat]
  /\ \A p \in MenuPids : row[p] # 0 => Named(row[p], p)
  /\ asked # None => asked.pid \in MenuPids /\ Named(asked.named, asked.pid)
  /\ DOMAIN thread = {"at", "kind", "pid", "named", "target"}
  /\ thread = [f \in DOMAIN thread |-> thread[f]]
  /\ thread.at \in {"idle", "open", "act", "launch"}
  /\ thread.at # "idle" => thread.pid \in MenuPids /\ Named(thread.named, thread.pid)
  /\ thread.at = "act" => /\ thread.target \in 1 .. started
                          /\ thread.target # thread.named => ~Alive(thread.named)
  /\ hit.named \in 0 .. started
  /\ hit.who # hit.named => hit.named # 0 /\ ~Alive(hit.named)

-----------------------------------------------------------------------------

(* A process starts with a birth of its own: what was named stays with its *)
(* number, and what had ended stays ended.                                 *)
LEMMA BeginKeeps ==
  ASSUME Inv, NEW p \in MenuPids, Begin(p)
  PROVE  /\ started' \in Nat /\ holder' \in [MenuPids -> Nat]
         /\ \A q \in MenuPids : holder'[q] # 0 => Named(holder[q], q)'
         /\ \A b, q : Named(b, q) => Named(b, q)'
         /\ \A b \in 1 .. started : ~Alive(b) => ~Alive(b)'
         /\ started' = started + 1
  <1>1. /\ started' = started + 1 /\ started' \in Nat
        /\ holder' = [holder EXCEPT ![p] = started + 1]
        /\ holder' \in [MenuPids -> Nat]
    BY DEF Begin, Inv
  <1>2. \A b, q : Named(b, q) => Named(b, q)'
    BY <1>1 DEF Named, Inv
  <1>3. \A q \in MenuPids : holder'[q] # 0 => Named(holder[q], q)'
    <2>1. \A q \in MenuPids \ {p} : holder'[q] = holder[q]
      BY <1>1 DEF Inv
    <2>2. holder'[p] = started + 1
      BY <1>1 DEF Inv
    <2>3. Named(holder[p], p)'
      BY <1>1, <2>1, <2>2 DEF Named, Inv
    <2>4. QED
      BY <1>1, <1>2, <2>1, <2>3 DEF Named, Inv
  <1>4. \A b \in 1 .. started : ~Alive(b) => ~Alive(b)'
    BY <1>1 DEF Alive, Inv
  <1>5. QED
    BY <1>1, <1>2, <1>3, <1>4

(* A process ends.                                                         *)
LEMMA ExitKeeps ==
  ASSUME Inv, NEW p \in MenuPids, holder' = [holder EXCEPT ![p] = 0], started' = started
  PROVE  /\ holder' \in [MenuPids -> Nat]
         /\ \A q \in MenuPids : holder'[q] # 0 => Named(holder[q], q)'
         /\ \A b, q : Named(b, q) => Named(b, q)'
         /\ \A b \in 1 .. started : ~Alive(b) => ~Alive(b)'
  <1>1. holder' \in [MenuPids -> Nat] /\ \A q \in MenuPids : holder'[q] \in {0, holder[q]}
    BY DEF Inv
  <1>2. \A b, q : Named(b, q) => Named(b, q)'
    BY <1>1 DEF Named
  <1>3. \A b \in 1 .. started : ~Alive(b) => ~Alive(b)'
    BY <1>1 DEF Alive
  <1>4. QED
    BY <1>1, <1>2, <1>3 DEF Inv

(* The same of the whole invariant, when nothing else changes.             *)
LEMMA SystemKeeps ==
  ASSUME Inv, UNCHANGED <<page, thread, hit>>,
         started' \in Nat, started' >= started, holder' \in [MenuPids -> Nat],
         \A q \in MenuPids : holder'[q] # 0 => Named(holder[q], q)',
         \A b, q : Named(b, q) => Named(b, q)',
         \A b \in 1 .. started : ~Alive(b) => ~Alive(b)'
  PROVE  Inv'
  <1>1. hit.named \in 0 .. started' /\ (hit.who # hit.named => ~Alive(hit.named)')
    BY DEF Inv
  <1>2. thread.at = "act" => /\ thread.target \in 1 .. started'
                             /\ thread.target # thread.named => ~Alive(thread.named)'
    BY DEF Inv, Named
  <1>3. \A q \in MenuPids : row'[q] # 0 => Named(row[q], q)'
    BY DEF Inv, page
  <1>4. /\ asked # None => Named(asked.named, asked.pid)'
        /\ thread.at # "idle" => Named(thread.named, thread.pid)'
    BY DEF Inv, page
  <1>5. QED
    BY <1>1, <1>2, <1>3, <1>4 DEF Inv, page

(* A request names what its row or dialog named.                           *)
LEMMA RequestKeeps ==
  ASSUME Inv, NEW kind, NEW p \in MenuPids, NEW b, Named(b, p), Request(kind, p, b),
         UNCHANGED <<holder, started, histories>>,
         asked' # None => asked'.pid \in MenuPids /\ Named(asked'.named, asked'.pid)
  PROVE  Inv'
  <1>1. /\ row' \in [MenuPids -> Nat]
        /\ \A q \in MenuPids : row'[q] # 0 => row'[q] = row[q]
    BY DEF Request, Inv
  <1>2. \/ thread' = thread
        \/ thread' = [at |-> "open", kind |-> kind, pid |-> p, named |-> b, target |-> 0]
    BY DEF Request
  <1>3. /\ thread'.at \in {"idle", "open", "act", "launch"}
        /\ thread'.at # "idle" => thread'.pid \in MenuPids /\ Named(thread'.named, thread'.pid)
        /\ thread'.at = "act" => thread' = thread
        /\ DOMAIN thread' = {"at", "kind", "pid", "named", "target"}
        /\ thread' = [f \in DOMAIN thread' |-> thread'[f]]
    BY <1>2 DEF Inv
  <1>4. QED
    BY <1>1, <1>3 DEF Inv, Named, Alive, histories

(* The invariant is inductive.                                             *)
THEOREM InvInductive == Spec => []Inv
  <1>1. Init => Inv
    BY DEF Init, Inv, None, NoThread, Untouched, Alive
  <1>2. Inv /\ [Next]_vars => Inv'
    <2> SUFFICES ASSUME Inv, [Next]_vars PROVE Inv'
      OBVIOUS
    <2>1. ASSUME NEW p \in MenuPids, Start(p) PROVE Inv'
      BY <2>1, BeginKeeps, SystemKeeps DEF Start, Inv, histories
    <2>2. ASSUME NEW p \in MenuPids, Exit(p) PROVE Inv'
      <3>1. started' \in Nat /\ started' >= started /\ UNCHANGED <<page, thread, hit>>
        BY <2>2 DEF Exit, Inv, histories
      <3>2. QED
        BY <2>2, <3>1, ExitKeeps, SystemKeeps DEF Exit
    <2>3. ASSUME NEW p \in MenuPids, NEW kind \in Kinds, Choose(kind, p) PROVE Inv'
      <3>1. CASE kind \in Immediate
        BY <2>3, <3>1, RequestKeeps DEF Choose, Inv
      <3>2. CASE kind \notin Immediate
        BY <2>3, <3>2 DEF Choose, Inv, Named, Alive, histories
      <3>3. QED
        BY <3>1, <3>2
    <2>4. CASE Refresh
      BY <2>4 DEF Refresh, Inv, Named, Alive, histories
    <2>5. CASE Confirm
      BY <2>5, RequestKeeps DEF Confirm, Inv
    <2>6. CASE Cancel
      BY <2>6 DEF Cancel, Inv, Named, Alive, histories
    <2>7. CASE Open
      <3>1. holder[thread.pid] # thread.named => ~Alive(thread.named)
        BY <2>7 DEF Open, Inv, Named, Alive
      <3>2. /\ thread'.at = "act" /\ thread'.pid = thread.pid /\ thread'.named = thread.named
            /\ thread'.target = holder[thread.pid]
        BY <2>7 DEF Open, Inv
      <3>3. QED
        BY <2>7, <3>1, <3>2 DEF Open, Inv, Named, Alive, page
    <2>8. CASE OpenFails
      BY <2>8 DEF OpenFails, Report, NoThread, Inv, Named, Alive, page
    <2>9. CASE Act
      <3> DEFINE Struck == hit' = [who |-> thread.target, named |-> thread.named]
      <3>1. /\ Struck \/ hit' = hit
            /\ UNCHANGED <<started, row, asked>>
            /\ thread' = NoThread \/ thread' = [thread EXCEPT !.at = "launch"]
            /\ holder' = holder \/ \E p \in MenuPids : holder' = [holder EXCEPT ![p] = 0]
        BY <2>9 DEF Act, Hit, Terminate, Report, page
      <3>2. /\ holder' \in [MenuPids -> Nat]
            /\ \A q \in MenuPids : holder'[q] # 0 => Named(holder[q], q)'
            /\ \A b, q : Named(b, q) => Named(b, q)'
            /\ \A b \in 1 .. started : ~Alive(b) => ~Alive(b)'
        BY <3>1, ExitKeeps DEF Inv, Named, Alive
      <3>3. thread.at = "act"
        BY <2>9 DEF Act
      <3>4. /\ hit'.named \in 0 .. started
            /\ hit'.who # hit'.named => hit'.named # 0 /\ ~Alive(hit.named)'
        BY <3>1, <3>2, <3>3 DEF Inv, Named
      <3>5. /\ thread'.at \in {"idle", "launch"}
            /\ DOMAIN thread' = {"at", "kind", "pid", "named", "target"}
            /\ thread' = [f \in DOMAIN thread' |-> thread'[f]]
            /\ thread'.at = "launch" => thread'.pid = thread.pid /\ thread'.named = thread.named
        BY <3>1, <3>3 DEF NoThread, Inv
      <3>6. QED
        BY <3>1, <3>2, <3>3, <3>4, <3>5 DEF Inv
    <2>10. CASE ActFails
      BY <2>10 DEF ActFails, Report, NoThread, Inv, Named, Alive, page, histories
    <2>11. CASE Launch
      <3>1. thread'.at = "idle" /\ thread' = NoThread /\ UNCHANGED <<row, asked, hit>>
        BY <2>11 DEF Launch, Report, NoThread, page
      <3>2. CASE UNCHANGED <<holder, started>>
        BY <3>1, <3>2 DEF Inv, Named, Alive, NoThread
      <3>3. CASE \E p \in MenuPids : Begin(p)
        <4>1. /\ started' \in Nat /\ started' >= started /\ holder' \in [MenuPids -> Nat]
              /\ \A q \in MenuPids : holder'[q] # 0 => Named(holder[q], q)'
              /\ \A b, q : Named(b, q) => Named(b, q)'
              /\ \A b \in 1 .. started : ~Alive(b) => ~Alive(b)'
          BY <3>3, BeginKeeps DEF Inv
        <4>2. /\ \A q \in MenuPids : row'[q] # 0 => Named(row[q], q)'
              /\ asked' # None => Named(asked.named, asked.pid)'
          BY <3>1, <4>1 DEF Inv
        <4>3. /\ hit'.named \in 0 .. started'
              /\ hit'.who # hit'.named => hit'.named # 0 /\ ~Alive(hit.named)'
          BY <3>1, <4>1 DEF Inv
        <4>4. QED
          BY <3>1, <4>1, <4>2, <4>3 DEF Inv, NoThread
      <3>4. QED
        BY <2>11, <3>2, <3>3 DEF Launch
    <2>12. CASE UNCHANGED vars
      BY <2>12 DEF vars, Inv, Named, Alive
    <2>13. QED
      BY <2>1, <2>2, <2>3, <2>4, <2>5, <2>6, <2>7, <2>8, <2>9, <2>10, <2>11, <2>12 DEF Next
  <1>3. QED
    BY <1>1, <1>2, PTL DEF Spec

(* An operation acts on the process that was named, or that one had ended: *)
(* the number a dialog holds never leads to another while the one it named *)
(* still runs.                                                             *)
THEOREM HitsWhatWasNamedAlways == Spec => []HitsWhatWasNamed
  <1>1. Inv => HitsWhatWasNamed
    BY DEF Inv, HitsWhatWasNamed
  <1>2. QED
    BY <1>1, InvInductive, PTL

(* What an operation launched is known only after it opened its process.   *)
Launching ==
  /\ thread.at \in {"idle", "open", "act", "launch"}
  /\ thread.at = "launch" => thread.kind = "restart"
  /\ thread.at \in {"act", "launch"} => launched = FALSE
  /\ RestartIsHonest

(* A restart is reported as done exactly when it launched the program.     *)
THEOREM RestartIsHonestAlways == Spec => []RestartIsHonest
  <1>1. Init => Launching
    BY DEF Init, Launching, RestartIsHonest, NoThread, NoResult
  <1>2. Inv /\ Launching /\ [Next]_vars => Launching'
    <2> SUFFICES ASSUME Inv, Launching, [Next]_vars PROVE Launching'
      OBVIOUS
    <2>1. CASE UNCHANGED <<thread, result, launched>>
      BY <2>1 DEF Launching, RestartIsHonest
    <2>2. ASSUME NEW kind, NEW p, NEW b, Request(kind, p, b), launched' = launched
          PROVE  Launching'
      BY <2>2 DEF Request, NoResult, Launching, RestartIsHonest
    <2>3. CASE Open
      BY <2>3 DEF Open, Inv, Launching, RestartIsHonest
    <2>4. CASE OpenFails
      BY <2>4 DEF OpenFails, Report, NoThread, Launching, RestartIsHonest
    <2>5. CASE Act
      <3>1. CASE thread.kind = "restart"
        <4>1. /\ thread' = [thread EXCEPT !.at = "launch"]
              /\ result' = result /\ launched' = launched /\ thread.at = "act"
          BY <2>5, <3>1 DEF Act, Immediate
        <4>2. thread'.at = "launch" /\ thread'.kind = "restart"
          BY <3>1, <4>1 DEF Inv
        <4>3. QED
          BY <4>1, <4>2 DEF Launching, RestartIsHonest
      <3>2. CASE thread.kind # "restart"
        BY <2>5, <3>2 DEF Act, Report, NoThread, Launching, RestartIsHonest
      <3>3. QED
        BY <3>1, <3>2
    <2>6. CASE ActFails
      <3>1. thread'.at = "idle" /\ result'.success = FALSE /\ launched' = FALSE
        BY <2>6 DEF ActFails, Report, NoThread, histories, Launching
      <3>2. QED
        BY <3>1 DEF Launching, RestartIsHonest
    <2>7. CASE Launch
      <3>1. /\ thread'.at = "idle"
            /\ \/ result'.success = TRUE /\ launched' = TRUE
               \/ result'.success = FALSE /\ launched' = FALSE
        BY <2>7 DEF Launch, Report, NoThread
      <3>2. QED
        BY <3>1 DEF Launching, RestartIsHonest
    <2>8. ASSUME NEW p \in MenuPids, NEW kind \in Kinds, Choose(kind, p) PROVE Launching'
      BY <2>1, <2>2, <2>8 DEF Choose, histories
    <2>9. CASE Confirm
      BY <2>2, <2>9 DEF Confirm, histories
    <2>10. QED
      BY <2>1, <2>3, <2>4, <2>5, <2>6, <2>7, <2>8, <2>9
         DEF Next, Start, Exit, Refresh, Cancel, histories, vars
  <1>3. QED
    BY <1>1, <1>2, InvInductive, PTL DEF Spec, Launching

-----------------------------------------------------------------------------
(* Types.                                                                  *)

Threads == [at : {"open", "act", "launch"}, kind : Kinds, pid : MenuPids,
            named : Births, target : Births]

LEMMA RequestTyped ==
  ASSUME TypeOK, NEW kind \in Kinds, NEW p \in MenuPids, NEW b \in Births,
         Request(kind, p, b)
  PROVE  /\ thread' \in Threads \cup {NoThread} /\ used' \in BOOLEAN
         /\ result' \in [kind : Kinds \cup {"none"}, success : BOOLEAN]
         /\ row' \in [MenuPids -> Births]
  <1>1. 0 \in Births
    BY MenuAssumption DEF Births
  <1>2. NoResult \in [kind : Kinds \cup {"none"}, success : BOOLEAN]
    BY DEF NoResult
  <1>3. thread \in Threads \cup {NoThread}
    BY DEF TypeOK, Threads
  <1>4. [at |-> "open", kind |-> kind, pid |-> p, named |-> b, target |-> 0] \in Threads
    BY <1>1 DEF Threads
  <1>5. [q \in MenuPids |-> 0] \in [MenuPids -> Births]
    BY <1>1
  <1>6. used' \in {used, TRUE, FALSE}
    BY DEF Request
  <1>7. used' \in BOOLEAN
    BY <1>6 DEF TypeOK
  <1>8. QED
    BY <1>2, <1>3, <1>4, <1>5, <1>7 DEF Request, TypeOK

LEMMA ReportTyped ==
  ASSUME TypeOK, thread.at # "idle", NEW success \in BOOLEAN, Report(success)
  PROVE  /\ thread' \in Threads \cup {NoThread}
         /\ result' \in [kind : Kinds \cup {"none"}, success : BOOLEAN]
  <1>1. thread.kind \in Kinds
    BY DEF TypeOK, NoThread
  <1>2. QED
    BY <1>1 DEF Report

LEMMA ThreadTyped ==
  ASSUME TypeOK, thread.at # "idle"
  PROVE  /\ thread \in Threads
         /\ thread.pid \in MenuPids /\ thread.named \in Births /\ thread.target \in Births
  BY DEF TypeOK, NoThread, Threads

LEMMA BeginTyped ==
  ASSUME TypeOK, NEW p \in MenuPids, Begin(p)
  PROVE  started' \in Births /\ holder' \in [MenuPids -> Births]
  <1>1. started + 1 \in Births
    BY MenuAssumption DEF TypeOK, Births, Begin
  <1>2. QED
    BY <1>1 DEF TypeOK, Begin

LEMMA TypesKept ==
  ASSUME TypeOK, [Next]_vars
  PROVE  TypeOK'
  <1> DEFINE Results == [kind : Kinds \cup {"none"}, success : BOOLEAN]
  <1> DEFINE Hits == [who : Births, named : Births]
  <1> DEFINE Asked == [kind : Kinds, pid : MenuPids, named : Births]
  <1>0. /\ holder \in [MenuPids -> Births] /\ row \in [MenuPids -> Births]
        /\ started \in Births /\ asked \in Asked \cup {None}
        /\ thread \in Threads \cup {NoThread} /\ used \in BOOLEAN /\ launched \in BOOLEAN
        /\ result \in Results /\ hit \in Hits /\ 0 \in Births
    BY MenuAssumption DEF TypeOK, Threads, Births
  <1>1. ASSUME /\ holder' \in [MenuPids -> Births] /\ row' \in [MenuPids -> Births]
               /\ started' \in Births /\ asked' \in Asked \cup {None}
               /\ thread' \in Threads \cup {NoThread}
               /\ used' \in BOOLEAN /\ launched' \in BOOLEAN
               /\ result' \in Results /\ hit' \in Hits
        PROVE  TypeOK'
    BY <1>1 DEF TypeOK, Threads, NoThread, Births, None
  <1>2. ASSUME NEW p \in MenuPids, Start(p)
        PROVE  TypeOK'
    BY <1>0, <1>1, <1>2, BeginTyped DEF Start, page, histories
  <1>3. ASSUME NEW p \in MenuPids, Exit(p)
        PROVE  TypeOK'
    BY <1>0, <1>1, <1>3 DEF Exit, page, histories
  <1>4. CASE Refresh
    BY <1>0, <1>1, <1>4 DEF Refresh, histories
  <1>5. ASSUME NEW p \in MenuPids, NEW kind \in Kinds, Choose(kind, p)
        PROVE  TypeOK'
    <2>1. row[p] \in Births
      BY <1>0
    <2>2. CASE Request(kind, p, row[p]) /\ UNCHANGED asked
      BY <1>0, <1>1, <1>5, <2>1, <2>2, RequestTyped DEF Choose, histories
    <2>3. CASE /\ asked' = [kind |-> kind, pid |-> p, named |-> row[p]]
               /\ UNCHANGED <<row, thread, used, result>>
      BY <1>0, <1>1, <1>5, <2>1, <2>3 DEF Choose, histories
    <2>4. QED
      BY <1>5, <2>2, <2>3 DEF Choose
  <1>6. CASE Confirm
    <2>1. asked.kind \in Kinds /\ asked.pid \in MenuPids /\ asked.named \in Births
      BY <1>0, <1>6 DEF Confirm
    <2>2. QED
      BY <1>0, <1>1, <1>6, <2>1, RequestTyped DEF Confirm, histories
  <1>7. CASE Cancel
    BY <1>0, <1>1, <1>7 DEF Cancel, histories
  <1>8. CASE Open
    <2>1. thread \in Threads /\ holder[thread.pid] \in Births
      BY <1>0, <1>8, ThreadTyped DEF Open
    <2>2. thread' \in Threads
      BY <1>8, <2>1 DEF Open, Threads
    <2>3. launched' \in BOOLEAN
      BY <1>8 DEF Open
    <2>4. QED
      BY <1>0, <1>1, <1>8, <2>2, <2>3 DEF Open, page
  <1>9. CASE OpenFails
    <2>1. launched' \in BOOLEAN
      BY <1>9 DEF OpenFails
    <2>2. thread' \in Threads \cup {NoThread} /\ result' \in Results
      BY <1>9, ReportTyped DEF OpenFails
    <2>3. QED
      BY <1>0, <1>1, <1>9, <2>1, <2>2 DEF OpenFails, page
  <1>10. CASE Act
    <2>1. /\ thread \in Threads /\ thread.at = "act"
          /\ thread.named \in Births /\ thread.target \in Births
      BY <1>10, ThreadTyped DEF Act
    <2>2. Hit => hit' \in Hits
      BY <2>1 DEF Hit
    <2>3. Terminate => hit' \in Hits /\ holder' \in [MenuPids -> Births]
      BY <1>0, <2>2 DEF Terminate
    <2>4. Report(TRUE) => thread' \in Threads \cup {NoThread} /\ result' \in Results
      BY <2>1, ReportTyped
    <2>5. thread' = [thread EXCEPT !.at = "launch"] => thread' \in Threads
      BY <2>1 DEF Threads
    <2>6. /\ hit' \in Hits /\ holder' \in [MenuPids -> Births]
          /\ thread' \in Threads \cup {NoThread} /\ result' \in Results
      BY <1>0, <1>10, <2>2, <2>3, <2>4, <2>5 DEF Act
    <2>7. QED
      BY <1>0, <1>1, <1>10, <2>6 DEF Act, page
  <1>11. CASE ActFails
    <2>1. thread' \in Threads \cup {NoThread} /\ result' \in Results
      BY <1>11, ReportTyped DEF ActFails
    <2>2. QED
      BY <1>0, <1>1, <1>11, <2>1 DEF ActFails, page, histories
  <1>12. CASE Launch
    <2>1. launched' \in BOOLEAN
      BY <1>12 DEF Launch
    <2>2. thread' \in Threads \cup {NoThread} /\ result' \in Results
      BY <1>12, ReportTyped DEF Launch
    <2>3. started' \in Births /\ holder' \in [MenuPids -> Births]
      BY <1>0, <1>12, BeginTyped DEF Launch
    <2>4. QED
      BY <1>0, <1>1, <1>12, <2>1, <2>2, <2>3 DEF Launch, page
  <1>13. CASE UNCHANGED vars
    BY <1>0, <1>1, <1>13 DEF vars
  <1>14. QED
    BY <1>2, <1>3, <1>4, <1>5, <1>6, <1>7, <1>8, <1>9, <1>10, <1>11, <1>12, <1>13 DEF Next

(* What the menu and its thread keep has its types.                        *)
THEOREM MenuIsTyped == Spec => []TypeOK
  <1>1. Init => TypeOK
    <2>1. 0 \in Births
      BY MenuAssumption DEF Births
    <2>2. NoResult \in [kind : Kinds \cup {"none"}, success : BOOLEAN]
      BY DEF NoResult
    <2>3. Untouched \in [who : Births, named : Births]
      BY <2>1 DEF Untouched
    <2>4. Init => used \in BOOLEAN /\ launched \in BOOLEAN
      BY DEF Init
    <2>5. QED
      BY <2>1, <2>2, <2>3, <2>4 DEF Init, TypeOK
  <1>2. QED
    BY <1>1, TypesKept, PTL DEF Spec
==============================================================================
