--------------------------- MODULE SnapshotService ---------------------------
(***************************************************************************)
(* What HardwareService promises its clients, without threads: rounds in   *)
(* which every provider is called once, in any order, each call publishing *)
(* a new snapshot or keeping the old one; a stamp that names the latest    *)
(* complete round; nothing at all while the service is inactive, and no    *)
(* round left incomplete by a stop.                                        *)
(*                                                                         *)
(* The order is left open because docs/architecture.md names parallel      *)
(* workers as a later optimization of the sequential loop: they would have *)
(* to implement this specification too.                                    *)
(***************************************************************************)
EXTENDS Integers

CONSTANTS Providers, (* the providers that are refreshed   *)
          MaxRound   (* how many labels name the rounds    *)

VARIABLES active,    (* between start() and the return of stop()  *)
          round,     (* the label of the latest round begun       *)
          pending,   (* the providers not yet called in it        *)
          snapshot,  (* the round each provider published in last *)
          stamp      (* the latest complete round                 *)

vars == <<active, round, pending, snapshot, stamp>>

Init ==
  /\ active = FALSE
  /\ round = 0
  /\ pending = {}
  /\ snapshot = [p \in Providers |-> 0]
  /\ stamp = 0

Activate ==
  /\ ~active
  /\ active' = TRUE
  /\ UNCHANGED <<round, pending, snapshot, stamp>>

BeginRound ==
  /\ active
  /\ pending = {}
  /\ stamp = round
  /\ round' = IF round = MaxRound THEN 1 ELSE round + 1
  /\ pending' = Providers
  /\ UNCHANGED <<active, snapshot, stamp>>

Call(p) ==
  /\ active
  /\ p \in pending
  /\ pending' = pending \ {p}
  /\ snapshot' \in {snapshot, [snapshot EXCEPT ![p] = round]}
  /\ UNCHANGED <<active, round, stamp>>

EndRound ==
  /\ active
  /\ pending = {}
  /\ stamp # round
  /\ stamp' = round
  /\ UNCHANGED <<active, round, pending, snapshot>>

Deactivate ==
  /\ active
  /\ pending = {}
  /\ stamp = round
  /\ active' = FALSE
  /\ UNCHANGED <<round, pending, snapshot, stamp>>

Next ==
  \/ Activate \/ BeginRound \/ EndRound \/ Deactivate
  \/ \E p \in Providers : Call(p)

Spec == Init /\ [][Next]_vars
==============================================================================
