------------------------ MODULE HardwareService_proofs ------------------------
(***************************************************************************)
(* Proofs about HardwareService, for any number of providers and of cycle  *)
(* labels: its safety properties, from the inductive invariant IInv, and   *)
(* the refinement of SnapshotService.                                      *)
(***************************************************************************)
EXTENDS HardwareService, TLAPS

(* What stop() may rely on while it runs, and a finished worker on.        *)
StopInv ==
  /\ owner # "outside" => thread /\ ~running
  /\ worker = "finished" => ~running

(* Where the cycle stands: the providers before next were called in it,    *)
(* the others in the cycle that lastRefresh names.                         *)
CycleInv ==
  /\ worker = "refresh" => next <= NumProviders
  /\ worker \in {"refresh", "store"} <=> lastRefresh # cycle
  /\ \A p \in Providers :
       attempted[p] = IF worker = "refresh" /\ p >= next
                      THEN lastRefresh ELSE cycle

IInv == TypeOK /\ OneWorker /\ StopInv /\ CycleInv

USE NumProvidersAssumption, MaxCycleAssumption

(* The initial state satisfies the inductive invariant.                    *)
LEMMA InitIInv == Init => IInv
<1> SUFFICES ASSUME Init PROVE IInv
  OBVIOUS
<1> USE DEF Init, Providers, Cycles, OwnerStates, WorkerStates
<1>1. TypeOK
  <2>1. running \in BOOLEAN /\ thread \in BOOLEAN /\ owner \in OwnerStates
        /\ worker \in WorkerStates
    OBVIOUS
  <2>2. next \in 1 .. NumProviders + 1 /\ cycle \in Cycles /\ lastRefresh \in Cycles
    OBVIOUS
  <2>3. attempted \in [Providers -> Cycles]
    OBVIOUS
  <2>4. snapshot \in [Providers -> Cycles]
    OBVIOUS
  <2> QED BY <2>1, <2>2, <2>3, <2>4 DEF TypeOK
<1>2. OneWorker /\ StopInv
  BY DEF OneWorker, StopInv
<1>3. CycleInv
  BY DEF CycleInv
<1> QED
  BY <1>1, <1>2, <1>3 DEF IInv

(* Every step keeps the inductive invariant.                               *)
LEMMA StepIInv == IInv /\ [Next]_vars => IInv'
<1> SUFFICES ASSUME IInv, [Next]_vars PROVE IInv'
  OBVIOUS
<1> USE DEF IInv, TypeOK, OneWorker, StopInv, CycleInv, Providers, Cycles,
            OwnerStates, WorkerStates
<1>1. CASE Start
  BY <1>1 DEF Start
<1>2. CASE StopClear
  BY <1>2 DEF StopClear
<1>3. CASE StopNotify
  BY <1>3 DEF StopNotify
<1>4. CASE StopJoin
  BY <1>4 DEF StopJoin
<1>5. CASE LoopTest
  BY <1>5 DEF LoopTest, NextCycle
<1>6. CASE RefreshPublishes
  BY <1>6 DEF RefreshPublishes, AfterProvider
<1>7. CASE RefreshKeeps
  BY <1>7 DEF RefreshKeeps, AfterProvider
<1>8. CASE StoreLastRefresh
  BY <1>8 DEF StoreLastRefresh
<1>9. CASE WaitPredicate
  BY <1>9 DEF WaitPredicate
<1>10. CASE WaitQueue
  BY <1>10 DEF WaitQueue
<1>11. CASE WaitTimeout
  BY <1>11 DEF WaitTimeout
<1>12. CASE WaitSpurious
  BY <1>12 DEF WaitSpurious
<1>13. CASE UNCHANGED vars
  BY <1>13 DEF vars
<1> QED
  BY <1>1, <1>2, <1>3, <1>4, <1>5, <1>6, <1>7, <1>8, <1>9, <1>10, <1>11, <1>12,
     <1>13 DEF Next, Owner, Worker

(* The inductive invariant holds in every reachable state.                 *)
THEOREM Invariance == Spec => []IInv
  BY InitIInv, StepIInv, PTL DEF Spec

(* The types of HardwareService's variables.                               *)
THEOREM TypeCorrect == Spec => []TypeOK
<1>1. IInv => TypeOK
  BY DEF IInv
<1> QED
  BY <1>1, Invariance, PTL

(* start() and stop() keep m_thread and m_running together with the worker. *)
THEOREM SingleWorker == Spec => []OneWorker
<1>1. IInv => OneWorker
  BY DEF IInv
<1> QED
  BY <1>1, Invariance, PTL

(* m_lastRefresh names a cycle in which every provider was called.         *)
THEOREM LastRefreshComplete == Spec => []LastRefreshIsComplete
<1>1. IInv => LastRefreshIsComplete
  BY DEF IInv, CycleInv, LastRefreshIsComplete
<1> QED
  BY <1>1, Invariance, PTL

(* When stop() has returned, the last cycle was a whole one.               *)
THEOREM StopWholeCycle == Spec => []StoppedAfterWholeCycle
<1>1. IInv => StoppedAfterWholeCycle
  BY DEF IInv, OneWorker, CycleInv, StoppedAfterWholeCycle
<1> QED
  BY <1>1, Invariance, PTL

(* The refresh time and stop() both keep to whole cycles.                  *)
THEOREM CyclesAreWhole == Spec => []WholeCycles
  BY LastRefreshComplete, StopWholeCycle, PTL DEF WholeCycles

(* Nothing is refreshed nor published after stop() has returned.           *)
THEOREM QuietAfterStop == Spec => NothingAfterStop
<1>1. IInv /\ [Next]_vars
        => [~thread => UNCHANGED <<attempted, snapshot, lastRefresh>>]_vars
  BY DEF IInv, OneWorker, Next, Owner, Worker, vars, Start, StopClear, StopNotify,
         StopJoin, LoopTest, RefreshPublishes, RefreshKeeps, StoreLastRefresh,
         WaitPredicate, WaitQueue, WaitTimeout, WaitSpurious
<1> QED
  BY <1>1, Invariance, PTL DEF Spec, NothingAfterStop

(***************************************************************************)
(* The refinement.  Each step of the threads is a step of SnapshotService  *)
(* under the mapping of module HardwareService, or changes none of its     *)
(* variables.                                                              *)
(***************************************************************************)
LEMMA InitRefines == Init => Abstract!Init
  BY DEF Init, Abstract!Init

(* Steps of the providers' calls.                                          *)
LEMMA CallRefines ==
  ASSUME IInv, RefreshPublishes \/ RefreshKeeps
  PROVE  Abstract!Call(next)
<1> USE DEF IInv, TypeOK, CycleInv, OneWorker, Providers, RefreshPublishes,
            RefreshKeeps, AfterProvider
<1>1. worker = "refresh" /\ thread /\ thread' = thread /\ cycle' = cycle
      /\ lastRefresh' = lastRefresh
  OBVIOUS
<1>2. next \in next .. NumProviders
  OBVIOUS
<1>3. (IF worker' = "refresh" THEN next' .. NumProviders ELSE {})
        = (next .. NumProviders) \ {next}
  <2>1. CASE next = NumProviders
    BY <2>1
  <2>2. CASE next # NumProviders
    BY <2>2
  <2> QED BY <2>1, <2>2
<1>4. snapshot' \in {snapshot, [snapshot EXCEPT ![next] = cycle]}
  OBVIOUS
<1> QED
  BY <1>1, <1>2, <1>3, <1>4 DEF Abstract!Call

(* Every step of the threads.                                              *)
LEMMA StepRefines == IInv /\ [Next]_vars => [Abstract!Next]_(Abstract!vars)
<1> SUFFICES ASSUME IInv, [Next]_vars PROVE [Abstract!Next]_(Abstract!vars)
  OBVIOUS
<1> USE DEF IInv, TypeOK, OneWorker, StopInv, CycleInv, Abstract!vars
<1>1. CASE Start
  BY <1>1 DEF Start, Abstract!Next, Abstract!Activate
<1>2. CASE StopClear
  BY <1>2 DEF StopClear
<1>3. CASE StopNotify
  BY <1>3 DEF StopNotify
<1>4. CASE StopJoin
  BY <1>4 DEF StopJoin, Abstract!Next, Abstract!Deactivate
<1>5. CASE LoopTest
  BY <1>5 DEF LoopTest, NextCycle, Providers, Abstract!Next, Abstract!BeginRound
<1>6. CASE RefreshPublishes \/ RefreshKeeps
  <2>1. next \in Providers
    BY <1>6 DEF Providers, RefreshPublishes, RefreshKeeps
  <2> QED
    BY <1>6, <2>1, CallRefines DEF Abstract!Next
<1>7. CASE StoreLastRefresh
  BY <1>7 DEF StoreLastRefresh, Abstract!Next, Abstract!EndRound
<1>8. CASE WaitPredicate \/ WaitQueue \/ WaitTimeout \/ WaitSpurious
  BY <1>8 DEF WaitPredicate, WaitQueue, WaitTimeout, WaitSpurious
<1>9. CASE UNCHANGED vars
  BY <1>9 DEF vars
<1> QED
  BY <1>1, <1>2, <1>3, <1>4, <1>5, <1>6, <1>7, <1>8, <1>9 DEF Next, Owner, Worker

(* The worker and its owner implement the thread-free SnapshotService.     *)
THEOREM Refinement == Spec => ImplementsSnapshotService
  BY InitRefines, StepRefines, Invariance, PTL
     DEF Spec, ImplementsSnapshotService, Abstract!Spec
==============================================================================
