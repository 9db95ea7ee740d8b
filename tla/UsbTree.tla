------------------------------- MODULE UsbTree -------------------------------
(***************************************************************************)
(* The USB page (UsbPage::draw): the USB devices of the last snapshot as a *)
(* tree by the instance of the parent.  A node is open or closed in the    *)
(* page's memory, whatever becomes of its device; what no open node has    *)
(* drawn follows as a list.                                                *)
(*                                                                         *)
(* A parent is another device, one that is not of USB, or not given.       *)
(* Windows gives every device below its own root one, so that there the    *)
(* page has no roots and is a list.                                        *)
(***************************************************************************)
EXTENDS Naturals, FiniteSets, SequencesExt

CONSTANT UsbDevices  (* numbers; that of a parent is the lower one         *)

NotGiven == 0
Elsewhere == Cardinality(UsbDevices) + 1

VARIABLES
  parentId, (* of each device there is                                     *)
  open      (* the nodes that are open                                     *)

usbVars == <<parentId, open>>

Init == parentId = <<>> /\ open = {}

Usb == DOMAIN parentId
Children(id) == SetToSeq({d \in Usb : parentId[d] = id})

-----------------------------------------------------------------------------

(* drawNode: the children of a node, each followed by its own if it is a   *)
(* node and open.  What is drawn is remembered.                            *)
DrawNode ==
  LET draw[depth \in 0 .. Cardinality(Usb)] ==
        [id \in Usb |->
           FlattenSeq([i \in DOMAIN Children(id) |->
             <<Children(id)[i]>> \o
             IF Children(id)[i] \in open /\ depth > 0
             THEN draw[depth - 1][Children(id)[i]]
             ELSE <<>>])]
  IN  draw[Cardinality(Usb)]

Roots == Children(NotGiven)

(* A root, and below it what its node shows.                               *)
RootShown ==
  FlattenSeq([i \in DOMAIN Roots |->
    <<Roots[i]>> \o IF Roots[i] \in open THEN DrawNode[Roots[i]] ELSE <<>>])

Remembered ==
  ToSet(Roots) \cup UNION {ToSet(DrawNode[r]) : r \in ToSet(Roots) \cap open}

(* The page: the tree, then what was not drawn.                            *)
Shown == RootShown \o SetToSeq(Usb \ Remembered)

-----------------------------------------------------------------------------

(* A node is a root, or a device drawn in the tree that has children.      *)
Toggle(d) ==
  /\ d \in ToSet(RootShown)
  /\ parentId[d] = NotGiven \/ Children(d) # <<>>
  /\ open' = IF d \in open THEN open \ {d} ELSE open \cup {d}
  /\ UNCHANGED parentId

(* Another snapshot.  No device is below itself.                           *)
Plugged(d, p) ==
  /\ d \notin Usb /\ (p < d \/ p = Elsewhere)
  /\ parentId' = [e \in Usb \cup {d} |-> IF e = d THEN p ELSE parentId[e]]
  /\ UNCHANGED open

Unplugged(d) ==
  /\ d \in Usb
  /\ parentId' = [e \in Usb \ {d} |-> parentId[e]]
  /\ UNCHANGED open

Next ==
  \E d \in UsbDevices :
    \/ Toggle(d) \/ Unplugged(d)
    \/ \E p \in UsbDevices \cup {NotGiven, Elsewhere} : Plugged(d, p)

Spec == Init /\ [][Next]_usbVars

-----------------------------------------------------------------------------
(* Properties.                                                             *)

(* Types.                                                                  *)
TypeOK ==
  /\ Usb \subseteq UsbDevices
  /\ parentId \in [Usb -> UsbDevices \cup {NotGiven, Elsewhere}]
  /\ open \subseteq UsbDevices

(* The page shows each USB device once, in the tree or in the list after   *)
(* it, whichever nodes are open and whoever has been unplugged.            *)
EachShownOnce == IsInjective(Shown) /\ ToSet(Shown) = Usb
==============================================================================
