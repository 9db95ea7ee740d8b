----------------------------- MODULE NetworkRates -----------------------------
(***************************************************************************)
(* NetworkProvider::refresh: the adapters are listed, their counters read  *)
(* in a second call, and a rate is the growth of a counter since the       *)
(* sample before, divided by the time between.  Samples are kept by the    *)
(* index of the interface and never dropped; adapters come and go          *)
(* meanwhile, and an index may pass to another adapter, whose counter      *)
(* starts at 0.                                                            *)
(*                                                                         *)
(* The rate shown is represented by the growth it stands for.  Received    *)
(* and sent octets are treated alike; there is one counter of them here.   *)
(***************************************************************************)
EXTENDS Integers

CONSTANTS Indices,  (* interface indices                                  *)
          MaxOctets (* how far the counts go                              *)

VARIABLES
  octets,  (* the counter of the adapter with an index, None when there is none *)
  byIndex, (* the adapters listed by the refresh going on, None outside one *)
  prev,    (* m_impl->prev: the counter of the sample before                *)
  shown,   (* the published growths, of the adapters listed                 *)
  measured,(* of which of them there were two samples to subtract           *)
  carried, (* the octets an index carried since it was first sampled        *)
  counted  (* the sum of the growths shown of it                            *)

vars == <<octets, byIndex, prev, shown, measured, carried, counted>>

None == -1
Unlisted == {None}

Init ==
  /\ octets = [i \in Indices |-> None]
  /\ byIndex = Unlisted
  /\ prev = [i \in Indices |-> None]
  /\ shown = [i \in Indices |-> None]
  /\ measured = [i \in Indices |-> FALSE]
  /\ carried = [i \in Indices |-> 0]
  /\ counted = [i \in Indices |-> 0]

Present == {i \in Indices : octets[i] # None}

-----------------------------------------------------------------------------
(* The adapters.                                                           *)

Carry(i) ==
  /\ i \in Present
  /\ octets[i] < MaxOctets /\ carried[i] < MaxOctets
  /\ octets' = [octets EXCEPT ![i] = @ + 1]
  /\ carried' = [carried EXCEPT ![i] = IF prev[i] = None THEN 0 ELSE @ + 1]
  /\ UNCHANGED <<byIndex, prev, shown, measured, counted>>

Leave(i) ==
  /\ i \in Present
  /\ octets' = [octets EXCEPT ![i] = None]
  /\ UNCHANGED <<byIndex, prev, shown, measured, carried, counted>>

Arrive(i) ==
  /\ i \notin Present
  /\ octets' = [octets EXCEPT ![i] = 0]
  /\ UNCHANGED <<byIndex, prev, shown, measured, carried, counted>>

-----------------------------------------------------------------------------
(* The refresh.                                                            *)

(* GetAdaptersAddresses fails: an empty list is published.                 *)
ListFails ==
  /\ byIndex = Unlisted
  /\ shown' = [i \in Indices |-> None]
  /\ measured' = [i \in Indices |-> FALSE]
  /\ UNCHANGED <<octets, byIndex, prev, carried, counted>>

ListAdapters ==
  /\ byIndex = Unlisted
  /\ byIndex' = Present
  /\ UNCHANGED <<octets, prev, shown, measured, carried, counted>>

Sampled == byIndex \cap Present   (* listed, and in the table *)

(* Not of a first sample, nor of one too soon after the last, nor when the *)
(* counter fell.                                                           *)
Comparable(i, soon) == prev[i] # None /\ ~soon /\ octets[i] >= prev[i]

(* The growth a rate stands for; the rate is 0 as initialised, or clamped, *)
(* when there is none.                                                     *)
Growth(i, soon) == IF Comparable(i, soon) THEN octets[i] - prev[i] ELSE 0

Stored(i) == IF i \in Sampled THEN octets[i] ELSE prev[i]

(* GetIfTable2: the samples are stored, and the list is published.         *)
Sample ==
  /\ byIndex # Unlisted
  /\ \E soon \in BOOLEAN :
       LET growth(i) == IF i \in Sampled THEN Growth(i, soon) ELSE 0
       IN /\ shown' = [i \in Indices |-> IF i \in byIndex THEN growth(i) ELSE None]
          /\ measured' = [i \in Indices |-> i \in Sampled /\ Comparable(i, soon)]
          /\ counted' = [i \in Indices |-> counted[i] + growth(i)]
  /\ prev' = [i \in Indices |-> Stored(i)]
  /\ byIndex' = Unlisted
  /\ UNCHANGED <<octets, carried>>

(* GetIfTable2 fails: the list is published with the rates as initialised. *)
SampleFails ==
  /\ byIndex # Unlisted
  /\ shown' = [i \in Indices |-> IF i \in byIndex THEN 0 ELSE None]
  /\ measured' = [i \in Indices |-> FALSE]
  /\ byIndex' = Unlisted
  /\ UNCHANGED <<octets, prev, carried, counted>>

Next ==
  \/ \E i \in Indices : Carry(i) \/ Leave(i) \/ Arrive(i)
  \/ ListFails \/ ListAdapters \/ Sample \/ SampleFails

Spec == Init /\ [][Next]_vars

-----------------------------------------------------------------------------
(* Properties.                                                             *)

(* Types.                                                                  *)
TypeOK ==
  /\ octets \in [Indices -> None .. MaxOctets]
  /\ byIndex = Unlisted \/ byIndex \subseteq Indices
  /\ prev \in [Indices -> None .. MaxOctets]
  /\ shown \in [Indices -> None .. MaxOctets] /\ measured \in [Indices -> BOOLEAN]
  /\ carried \in [Indices -> 0 .. MaxOctets] /\ counted \in [Indices -> Nat]

(* No octet is shown twice: the growths shown of an index never add up to  *)
(* more than what was carried under it, whichever samples failed or were   *)
(* missed and whichever adapters had the index.                            *)
NothingCountedTwice == \A i \in Indices : counted[i] <= carried[i]

(* A rate that is shown although there was nothing to subtract is 0.       *)
UnmeasuredIsZero == \A i \in Indices : measured[i] \/ shown[i] \in {None, 0}

(* No fabricated zero is displayed (docs/architecture.md): a rate that is  *)
(* shown was measured.  The code shows the 0 a rate is initialised with    *)
(* (ZerosMC).                                                              *)
NoFabricatedRates == \A i \in Indices : shown[i] # None => measured[i]
==============================================================================
