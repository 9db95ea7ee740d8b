--------------------------- MODULE ProcessOperations ---------------------------
(***************************************************************************)
(* The operations of ProcessProvider that end processes (doEndProcess and  *)
(* doEndTree) and set an affinity, on the operation's thread, and the tree *)
(* the process page draws.                                                 *)
(*                                                                         *)
(* The page and doEndTree take the parent of a process, by its number,     *)
(* from a list of the processes alive.  Windows keeps in a process the     *)
(* number of the one that created it, which may have ended, and the number *)
(* may belong to another since.  Number 0, the idle process, names itself  *)
(* as its parent and cannot be opened.  Processes start and end while the  *)
(* thread works, and each call may be refused.                             *)
(*                                                                         *)
(* A birth tells apart the processes that had the same number; the program *)
(* does not see it.  A birth of 0 means no process.                        *)
(***************************************************************************)
EXTENDS Naturals, Sequences, FiniteSets, SequencesExt

CONSTANTS Pids,      (* the process numbers but 0                          *)
          MaxBirths, (* bound: how many processes start                    *)
          MaxWalk    (* bound: how many steps of the walk are followed     *)

Idle == 0

VARIABLES
  birth,    (* the birth of the process of each number                     *)
  parent,   (* the number of its parent                                    *)
  births,   (* how many processes have started                             *)
  op,       (* where the operation's thread is                             *)
  table,    (* what doEndTree enumerated                                   *)
  stack,    (* of doEndTree                                                *)
  order,    (* of doEndTree; the one number, for the other operations      *)
  ok,       (* the success of what was done so far, then of the result     *)
  listed,   (* history: the births that the order names                    *)
  refused   (* history: the births that could not be opened or ended       *)

system == <<birth, parent, births>>
walk == <<table, stack>>
vars == <<system, walk, op, order, ok, listed, refused>>

AllPids == Pids \cup {Idle}
Present(t) == {p \in AllPids : t.birth[p] # 0}
Children(t, p) == {c \in Present(t) : t.parent[c] = p}
Now == [birth |-> birth, parent |-> parent]
Alive == Present(Now)

NewBirth == Cardinality(Pids) + 2 + births

(* Processes that were there before; the parents of some have ended.       *)
Init ==
  /\ birth \in {f \in [AllPids -> 0 .. Cardinality(Pids) + 1] :
                  f[Idle] = 1 /\ \A p \in Pids : f[p] \in {0, p + 1}}
  /\ parent \in {f \in [AllPids -> AllPids] :
                   f[Idle] = Idle /\ \A p \in Pids : f[p] < p /\ (birth[p] = 0 => f[p] = Idle)}
  /\ births = 0
  /\ op = "free" /\ table = Now /\ stack = <<>> /\ order = <<>>
  /\ ok = FALSE /\ listed = {} /\ refused = {}

-----------------------------------------------------------------------------
(* The system.                                                             *)

Start(p, by) ==
  /\ births < MaxBirths
  /\ p \notin Alive /\ by \in Alive \ {Idle}
  /\ birth' = [birth EXCEPT ![p] = NewBirth]
  /\ parent' = [parent EXCEPT ![p] = by]
  /\ births' = births + 1
  /\ UNCHANGED <<walk, op, order, ok, listed, refused>>

End(p) ==
  /\ p \in Alive \ {Idle}
  /\ birth' = [birth EXCEPT ![p] = 0]
  /\ UNCHANGED <<parent, births, walk, op, order, ok, listed, refused>>

-----------------------------------------------------------------------------
(* The requests, on a row of the page, which may be old.                   *)

Request(kind, p) ==
  /\ op = "free"
  /\ op' = kind
  /\ order' = <<p>>
  /\ ok' = TRUE
  /\ listed' = (IF kind = "end" THEN {birth[p]} ELSE {}) \ {0}
  /\ refused' = {}
  /\ UNCHANGED <<system, walk>>

EndTask(p) == Request("end", p)
SetAffinity(p) == Request("affinity", p)

(* The first call of doEndTree enumerates, which may fail.                 *)
EndTree(p) ==
  /\ op = "free"
  /\ listed' = {} /\ refused' = {}
  /\ \/ ok' = FALSE /\ UNCHANGED <<op, walk, order>>
     \/ /\ op' = "walk"
        /\ table' = Now
        /\ stack' = <<p>> /\ order' = <<>>
        /\ ok' = TRUE
  /\ UNCHANGED system

-----------------------------------------------------------------------------
(* The operation's thread.                                                 *)

(* The last number of the stack is taken; its children are pushed in the   *)
(* order of the map.                                                       *)
Walk ==
  /\ op = "walk" /\ stack # <<>> /\ Len(order) < MaxWalk
  /\ order' = Append(order, Last(stack))
  /\ \E children \in SetToSeqs(Children(table, Last(stack))) :
       stack' = Front(stack) \o children
  /\ UNCHANGED <<system, table, op, ok, listed, refused>>

(* A walk that goes on is followed no further than the bound.              *)
WalkOn == op = "walk" /\ Len(order) = MaxWalk /\ UNCHANGED vars

Listed == {table.birth[p] : p \in ToSet(order)} \ {0}

(* Mutant of TurnOrder: the parents come first.                            *)
KeepOrder ==
  /\ op = "walk" /\ stack = <<>>
  /\ op' = "end"
  /\ listed' = Listed
  /\ UNCHANGED <<system, walk, order, ok, refused>>

TurnOrder ==
  /\ op = "walk" /\ stack = <<>>
  /\ op' = "end"
  /\ order' = Reverse(order)
  /\ listed' = Listed
  /\ UNCHANGED <<system, walk, ok, refused>>

(* doEndProcess of the next number.                                        *)
EndNext ==
  /\ op = "end" /\ order # <<>>
  /\ Head(order) \in Alive \ {Idle}
  /\ birth' = [birth EXCEPT ![Head(order)] = 0]
  /\ order' = Tail(order)
  /\ UNCHANGED <<parent, births, walk, op, ok, listed, refused>>

(* The process cannot be opened, or not be ended.                          *)
EndRefused ==
  /\ op = "end" /\ order # <<>>
  /\ order' = Tail(order)
  /\ ok' = FALSE
  /\ refused' = refused \cup {birth[Head(order)]}
  /\ UNCHANGED <<system, walk, op, listed>>

Finish ==
  /\ op = "end" /\ order = <<>>
  /\ op' = "free"
  /\ UNCHANGED <<system, walk, order, ok, listed, refused>>

(* doSetAffinity opens the process to set, and asks for its mask first.    *)
AffinityAccess == {"SET_INFORMATION"}
MaskNeeds == {"QUERY_INFORMATION", "QUERY_LIMITED_INFORMATION"}

CanAskMask == AffinityAccess \cap MaskNeeds # {}

ApplyAffinity ==
  /\ op = "affinity"
  /\ op' = "free"
  /\ \/ /\ Head(order) \in Alive \ {Idle}
        /\ ok' = CanAskMask
        /\ UNCHANGED refused
     \/ ok' = FALSE /\ refused' = {birth[Head(order)]}
  /\ UNCHANGED <<system, walk, order, listed>>

Thread == Walk \/ WalkOn \/ TurnOrder \/ EndNext \/ EndRefused \/ Finish \/ ApplyAffinity

Next ==
  \/ \E p \in Pids : End(p) \/ \E by \in Pids : Start(p, by)
  \/ \E p \in AllPids : EndTask(p) \/ EndTree(p) \/ SetAffinity(p)
  \/ Thread

Spec == Init /\ [][Next]_vars

-----------------------------------------------------------------------------
(* Properties.                                                             *)

Births == 0 .. Cardinality(Pids) + 1 + MaxBirths

(* Types.                                                                  *)
TypeOK ==
  /\ birth \in [AllPids -> Births] /\ parent \in [AllPids -> AllPids]
  /\ births \in 0 .. MaxBirths
  /\ op \in {"free", "walk", "end", "affinity"}
  /\ table \in [birth : [AllPids -> Births], parent : [AllPids -> AllPids]]
  /\ ToSet(stack) \subseteq AllPids /\ ToSet(order) \subseteq AllPids
  /\ ok \in BOOLEAN /\ listed \subseteq Births /\ refused \subseteq Births

(* An operation reported as done ended every process it set out to end,    *)
(* whatever started, ended or took over a number meanwhile.                *)
ReportIsTrue ==
  op = "free" /\ ok => \A p \in AllPids : birth[p] \notin listed

(* The tree is ended from its leaves: a process is ended only when each of *)
(* its children in the tree has ended or refused to.                       *)
ChildrenFirst ==
  [][op = "end" /\ order' # order /\ birth' # birth =>
       \A c \in Children(table, Head(order)) :
         table.birth[c] \in listed => birth[c] # table.birth[c] \/ birth[c] \in refused]_vars

(* doEndTree does not come to a process twice.                             *)
WalkVisitsOnce == op = "walk" => IsInjective(order)
==============================================================================
