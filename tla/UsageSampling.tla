---------------------------- MODULE UsageSampling ----------------------------
(***************************************************************************)
(* The PDH queries of CpuProvider, GpuProvider and StorageProvider.  A     *)
(* query is opened, collected once to seed it, and collected and formatted *)
(* by each further refresh; all of these calls may fail.  PDH formats a    *)
(* counter of this kind only from two successful collections of the query. *)
(*                                                                         *)
(* A published value is named by where it comes from: initial (of a        *)
(* member that nothing was assigned to) or measured (formatted from two    *)
(* collections).                                                           *)
(***************************************************************************)
EXTENDS Naturals

Providers == {"cpu", "gpu", "disk"}

VARIABLES
  ready,     (* pdhReady, engineReady, activityReady                        *)
  seeded,    (* pdhSeeded, engineSeeded, activitySeeded                     *)
  collected, (* the successful collections of the query, up to 2            *)
  usage,     (* GpuProvider's m_engineUsage                                 *)
  shown      (* the published availability and value                        *)

vars == <<ready, seeded, collected, usage, shown>>

Values == {"initial", "measured"}
Unavailable == [available |-> FALSE, value |-> "initial"]

Init ==
  /\ ready = [p \in Providers |-> FALSE]
  /\ seeded = [p \in Providers |-> FALSE]
  /\ collected = [p \in Providers |-> 0]
  /\ usage = "initial"
  /\ shown = [p \in Providers |-> Unavailable]

-----------------------------------------------------------------------------
(* PDH.                                                                    *)

(* PdhCollectQueryData: a success is one more sample of each counter.      *)
Collect(p, ok) ==
  collected' = IF ok THEN [collected EXCEPT ![p] = IF @ = 2 THEN 2 ELSE @ + 1]
               ELSE collected

(* A counter may be formatted.                                             *)
CanFormat(p) == collected'[p] = 2

Publish(p, available, value) ==
  shown' = [shown EXCEPT ![p] = [available |-> available, value |-> value]]

(* The list of graphics adapters may be empty.                             *)
PublishGpu(value) == Publish("gpu", TRUE, value) \/ Publish("gpu", FALSE, "initial")

-----------------------------------------------------------------------------
(* Opening a query and adding its counters: one that fails is closed, and  *)
(* opened again by the next refresh.                                       *)
OpenFails(p) ==
  /\ ~ready[p]
  /\ UNCHANGED <<ready, seeded, collected, usage>>
  /\ IF p = "disk" THEN UNCHANGED shown ELSE Publish(p, FALSE, shown[p].value)

(* The seed is collected in the refresh that opens the query, and its      *)
(* status is looked at by nobody.  The list of graphics adapters is        *)
(* published all the same.                                                 *)
OpenAndSeed(p) ==
  /\ ~ready[p] /\ ~seeded[p]
  /\ ready' = [ready EXCEPT ![p] = TRUE]
  /\ seeded' = [seeded EXCEPT ![p] = TRUE]
  /\ \E ok \in BOOLEAN : Collect(p, ok)
  /\ CASE p = "cpu"  -> Publish(p, FALSE, shown[p].value)
       [] p = "gpu"  -> PublishGpu(usage)
       [] p = "disk" -> UNCHANGED shown
  /\ UNCHANGED usage

(* Mutant of RefreshCpu: a counter that cannot be formatted counts as 0.   *)
RefreshCpuAnyway ==
  /\ ready["cpu"]
  /\ \E ok \in BOOLEAN :
       /\ Collect("cpu", ok)
       /\ IF ok THEN Publish("cpu", TRUE, IF CanFormat("cpu") THEN "measured" ELSE "initial")
                ELSE UNCHANGED shown
  /\ UNCHANGED <<ready, seeded, usage>>

(* CpuProvider::refreshUsage of a seeded query: it publishes nothing       *)
(* unless it could collect and format every counter.                       *)
RefreshCpu ==
  /\ ready["cpu"]
  /\ \E ok \in BOOLEAN :
       /\ Collect("cpu", ok)
       /\ \E formatted \in {FALSE, ok /\ CanFormat("cpu")} :
            IF formatted THEN Publish("cpu", TRUE, "measured") ELSE UNCHANGED shown
  /\ UNCHANGED <<ready, seeded, usage>>

(* GpuProvider::refreshEngineUsage of a seeded query, and what refresh()   *)
(* publishes of it: m_engineUsage, whenever the query is ready.            *)
RefreshGpu ==
  /\ ready["gpu"]
  /\ \E ok \in BOOLEAN :
       /\ Collect("gpu", ok)
       /\ \E formatted \in {FALSE, ok /\ CanFormat("gpu")} :
            usage' = IF formatted THEN "measured" ELSE usage
  /\ PublishGpu(usage')
  /\ UNCHANGED <<ready, seeded>>

(* GpuProvider::refresh without a factory of adapters.                     *)
RefreshNoGpu ==
  /\ Publish("gpu", FALSE, "initial")
  /\ UNCHANGED <<ready, seeded, collected, usage>>

(* StorageProvider::refreshActivity of a seeded query: a counter that      *)
(* cannot be formatted leaves its value as initialised.                    *)
RefreshDisk ==
  /\ ready["disk"]
  /\ \E ok \in BOOLEAN :
       /\ Collect("disk", ok)
       /\ \E formatted \in {FALSE, ok /\ CanFormat("disk")} :
            IF ok THEN Publish("disk", TRUE, IF formatted THEN "measured" ELSE "initial")
                  ELSE UNCHANGED shown
  /\ UNCHANGED <<ready, seeded, usage>>

Next ==
  \/ \E p \in Providers : OpenFails(p) \/ OpenAndSeed(p)
  \/ RefreshCpu \/ RefreshGpu \/ RefreshNoGpu \/ RefreshDisk

Spec == Init /\ [][Next]_vars

-----------------------------------------------------------------------------
(* Properties.                                                             *)

(* Types.                                                                  *)
TypeOK ==
  /\ ready \in [Providers -> BOOLEAN] /\ seeded \in [Providers -> BOOLEAN]
  /\ collected \in [Providers -> 0 .. 2]
  /\ usage \in Values
  /\ shown \in [Providers -> [available : BOOLEAN, value : Values]]

(* A processor usage shown as available was measured, whichever of the     *)
(* calls before it failed, that of the seed too.                           *)
CpuIsMeasured == shown["cpu"].available => shown["cpu"].value = "measured"

(* No fabricated zero is displayed (docs/architecture.md): a value shown   *)
(* as available was measured.  GpuProvider shows what its member was       *)
(* initialised with (ZerosMC).                                             *)
NoFabricatedZeros ==
  \A p \in Providers : shown[p].available => shown[p].value = "measured"
==============================================================================
