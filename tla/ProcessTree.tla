----------------------------- MODULE ProcessTree -----------------------------
(***************************************************************************)
(* The rows of the process page: those a search finds, as a list or, with  *)
(* no search, as a tree by the numbers of the parents (ProcessPage::draw). *)
(*                                                                         *)
(* Windows keeps in a process the number of its creator, which may have    *)
(* ended and be another's since, a descendant's even: parents may form a   *)
(* circle.  Number 0, the idle process, is its own parent.  The numbers    *)
(* that are expanded outlive their processes.                              *)
(***************************************************************************)
EXTENDS Naturals, FiniteSets, SequencesExt

CONSTANT TreePids  (* the numbers of processes but 0                       *)

VARIABLES
  ppid,     (* of the snapshot: the parent's number of each process        *)
  typed,    (* whether there is text in the search field                   *)
  found,    (* the numbers whose names have the text                       *)
  treeMode, expanded

treeVars == <<ppid, typed, found, treeMode, expanded>>

Idle == 0
AllPids == TreePids \cup {Idle}

Init ==
  /\ ppid = [p \in {Idle} |-> Idle]
  /\ typed = FALSE /\ found = AllPids
  /\ treeMode = FALSE /\ expanded = {}

-----------------------------------------------------------------------------
(* What is drawn.                                                          *)

Rows == DOMAIN ppid \cap found
Tree == treeMode /\ ~typed

(* The rows of some processes, in an order that no property is about.      *)
Ordered(pids) == SetToSeq(pids)
Kids(p) == {c \in Rows : ppid[c] = p}

(* Mutant of Roots: the processes without a parent.                        *)
NoParents == {p \in Rows : ppid[p] = Idle}

(* Those whose parent is not shown.                                        *)
Roots == {p \in Rows : ppid[p] \notin Rows}

(* drawNode: a row, and below it, when expanded, the rows of its children. *)
(* A row is drawn no deeper than there are rows, since none is drawn       *)
(* below itself.                                                           *)
DrawNode ==
  LET draw[depth \in 0 .. Cardinality(Rows)] ==
        [p \in Rows |->
           <<p>> \o IF p \in expanded /\ depth > 0
                    THEN FlattenSeq([i \in DOMAIN Ordered(Kids(p)) |->
                                       draw[depth - 1][Ordered(Kids(p))[i]]])
                    ELSE <<>>]
  IN  draw[Cardinality(Rows)]

Drawn ==
  IF Tree THEN FlattenSeq([i \in DOMAIN Ordered(Roots) |-> DrawNode[Ordered(Roots)[i]]])
  ELSE Ordered(Rows)

-----------------------------------------------------------------------------

(* The arrow of a row that has children.                                   *)
Toggle(p) ==
  /\ Tree /\ p \in ToSet(Drawn) /\ Kids(p) # {}
  /\ expanded' = IF p \in expanded THEN expanded \ {p} ELSE expanded \cup {p}
  /\ UNCHANGED <<ppid, typed, found, treeMode>>

(* The tree comes up collapsed.                                            *)
TreeMode ==
  /\ treeMode' = ~treeMode
  /\ expanded' = IF treeMode' THEN {} ELSE expanded
  /\ UNCHANGED <<ppid, typed, found>>

(* Text is typed, or the field is cleared: no text is in every name.       *)
Search(text, in) ==
  /\ typed' = text
  /\ found' = IF text THEN in ELSE AllPids
  /\ UNCHANGED <<ppid, treeMode, expanded>>

(* Another snapshot: a process has started, by one that may have ended     *)
(* before the snapshot was taken, or has ended.                            *)
Started(p, by) ==
  /\ p \notin DOMAIN ppid
  /\ ppid' = [q \in DOMAIN ppid \cup {p} |-> IF q = p THEN by ELSE ppid[q]]
  /\ UNCHANGED <<typed, found, treeMode, expanded>>

Ended(p) ==
  /\ p \in DOMAIN ppid \ {Idle}
  /\ ppid' = [q \in DOMAIN ppid \ {p} |-> ppid[q]]
  /\ UNCHANGED <<typed, found, treeMode, expanded>>

Next ==
  \/ \E p \in AllPids : Toggle(p)
  \/ TreeMode
  \/ \E text \in BOOLEAN, in \in SUBSET AllPids : Search(text, in)
  \/ \E p \in TreePids : Ended(p) \/ \E by \in AllPids : Started(p, by)

Spec == Init /\ [][Next]_treeVars

-----------------------------------------------------------------------------
(* Properties.                                                             *)

(* Types.                                                                  *)
TypeOK ==
  /\ Idle \in DOMAIN ppid /\ DOMAIN ppid \subseteq AllPids
  /\ ppid \in [DOMAIN ppid -> AllPids]
  /\ typed \in BOOLEAN /\ found \subseteq AllPids /\ treeMode \in BOOLEAN /\ expanded \subseteq AllPids

(* The ancestors of a process up to n generations, as far as they are      *)
(* shown.                                                                  *)
Ancestors(p, n) ==
  LET up[i \in 0 .. n] == IF i = 0 THEN {p}
                          ELSE up[i - 1] \cup ({ppid[q] : q \in up[i - 1]} \cap Rows)
  IN  up[n]

(* A process is in the tree unless its ancestors run into a circle, as     *)
(* those of the idle process and of all it started do.                     *)
InTree(p) == Ancestors(p, Cardinality(Rows)) \cap Roots # {}

(* The rows show every process the search finds, once; the tree every one  *)
(* in it, once, whose ancestors are all expanded, whatever the numbers of  *)
(* the parents and whatever was expanded before they ended.                *)
EachDrawnOnce ==
  LET shown == IF Tree
               THEN {p \in Rows : /\ InTree(p)
                                  /\ Ancestors(p, Cardinality(Rows)) \ {p} \subseteq expanded}
               ELSE Rows
  IN  IsInjective(Drawn) /\ ToSet(Drawn) = shown
==============================================================================
