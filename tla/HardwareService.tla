--------------------------- MODULE HardwareService ---------------------------
(***************************************************************************)
(* The background worker of services/HardwareService.cpp.                  *)
(*                                                                         *)
(* One thread (the owner: wWinMain) calls start() and stop(); start()      *)
(* creates one worker thread that runs loop(): refresh every provider in a *)
(* fixed order, store the time of the refresh, wait on a condition         *)
(* variable for the configured interval, and again, until m_running is     *)
(* cleared.  An exception of a provider is caught and its old snapshot     *)
(* stays published.                                                        *)
(*                                                                         *)
(* m_mutex is locked by the worker only (stop() notifies without it), so   *)
(* it excludes nobody and is not a variable: a notification sent between   *)
(* the evaluation of the wait predicate and the moment the thread is       *)
(* queued on the condition variable is lost.                               *)
(*                                                                         *)
(* A refresh cycle is named by a label in 1 .. MaxCycle; the labels are    *)
(* reused, so that a behaviour need not stop when they run out.            *)
(***************************************************************************)
EXTENDS Integers

CONSTANTS NumProviders, (* how many providers loop() refreshes: 14 in the code *)
          MaxCycle      (* how many labels name the refresh cycles             *)

ASSUME NumProvidersAssumption == NumProviders \in Nat \ {0}
ASSUME MaxCycleAssumption     == MaxCycle \in Nat \ {0, 1}

VARIABLES
  running,     (* m_running                                                *)
  owner,       (* where the owner is: outside, or inside stop()            *)
  thread,      (* m_thread is joinable                                     *)
  worker,      (* where the worker is in loop()                            *)
  next,        (* the provider the worker refreshes next                   *)
  cycle,       (* the label of the latest cycle begun                      *)
  attempted,   (* the cycle of each provider's latest call of refresh()    *)
  snapshot,    (* the cycle that published each provider's snapshot        *)
  lastRefresh  (* m_lastRefresh, as the cycle that stored it               *)

vars == <<running, owner, thread, worker, next, cycle, attempted, snapshot,
          lastRefresh>>

Providers == 1 .. NumProviders
Cycles    == 0 .. MaxCycle   (* 0: before the first cycle *)

OwnerStates  == {"outside", "notify", "join"}
WorkerStates == {"absent", "test", "refresh", "store", "predicate", "queue",
                 "blocked", "finished"}

NextCycle(c) == IF c = MaxCycle THEN 1 ELSE c + 1

Init ==
  /\ running = FALSE
  /\ owner = "outside"
  /\ thread = FALSE
  /\ worker = "absent"
  /\ next = 1
  /\ cycle = 0
  /\ attempted = [p \in Providers |-> 0]
  /\ snapshot = [p \in Providers |-> 0]
  /\ lastRefresh = 0

-----------------------------------------------------------------------------
(* The owner.  start() and stop() begin with an atomic exchange.           *)

(* start(): nothing when m_running was already set, else a new worker.     *)
Start ==
  /\ owner = "outside"
  /\ running' = TRUE
  /\ IF running
     THEN UNCHANGED <<thread, worker>>
     ELSE thread' = TRUE /\ worker' = "test"
  /\ UNCHANGED <<owner, next, cycle, attempted, snapshot, lastRefresh>>

(* stop(), up to the exchange: it returns at once when nothing was running. *)
StopClear ==
  /\ owner = "outside"
  /\ owner' = IF running THEN "notify" ELSE "outside"
  /\ running' = FALSE
  /\ UNCHANGED <<thread, worker, next, cycle, attempted, snapshot, lastRefresh>>

(* m_cv.notify_all(): it wakes the worker only when it is already queued.  *)
StopNotify ==
  /\ owner = "notify"
  /\ owner' = "join"
  /\ worker' = IF worker = "blocked" THEN "predicate" ELSE worker
  /\ UNCHANGED <<running, thread, next, cycle, attempted, snapshot, lastRefresh>>

(* Mutant of StopJoin: the thread is detached.                             *)
StopDetach ==
  /\ owner = "join"
  /\ owner' = "outside"
  /\ thread' = FALSE
  /\ UNCHANGED <<running, worker, next, cycle, attempted, snapshot, lastRefresh>>

(* m_thread.join() returns when loop() has returned.                       *)
StopJoin ==
  /\ owner = "join"
  /\ thread => worker = "finished"
  /\ owner' = "outside"
  /\ thread' = FALSE
  /\ worker' = "absent"
  /\ UNCHANGED <<running, next, cycle, attempted, snapshot, lastRefresh>>

-----------------------------------------------------------------------------
(* The worker.                                                             *)

(* Mutant of LoopTest: lastRefresh is stored before the providers are called. *)
LoopTestStores ==
  /\ worker = "test"
  /\ worker' = IF running THEN "refresh" ELSE "finished"
  /\ next' = 1
  /\ cycle' = IF running THEN NextCycle(cycle) ELSE cycle
  /\ lastRefresh' = cycle'
  /\ UNCHANGED <<running, owner, thread, attempted, snapshot>>

(* while (m_running.load())                                                *)
LoopTest ==
  /\ worker = "test"
  /\ IF running
     THEN /\ worker' = "refresh"
          /\ next' = 1
          /\ cycle' = NextCycle(cycle)
     ELSE /\ worker' = "finished"
          /\ UNCHANGED <<next, cycle>>
  /\ UNCHANGED <<running, owner, thread, attempted, snapshot, lastRefresh>>

(* Mutants of AfterProvider: one call too many; a cycle cut short by stop(). *)
AfterProviderOffByOne ==
  /\ next' = next + 1
  /\ worker' = IF next > NumProviders THEN "store" ELSE "refresh"

AfterProviderTestsRunning ==
  /\ next' = next + 1
  /\ worker' = IF ~running THEN "finished"
               ELSE IF next = NumProviders THEN "store" ELSE "refresh"

(* What the worker does once a provider's refresh() is over.               *)
AfterProvider ==
  /\ next' = next + 1
  /\ worker' = IF next = NumProviders THEN "store" ELSE "refresh"

(* refreshProvider(): refresh() swapped a new snapshot in and returned.    *)
RefreshPublishes ==
  /\ worker = "refresh"
  /\ attempted' = [attempted EXCEPT ![next] = cycle]
  /\ snapshot' = [snapshot EXCEPT ![next] = cycle]
  /\ AfterProvider
  /\ UNCHANGED <<running, owner, thread, cycle, lastRefresh>>

(* Mutant of RefreshKeeps: an exception leaves loop().                     *)
RefreshThrowsOut ==
  /\ worker = "refresh"
  /\ worker' = "finished"
  /\ UNCHANGED <<running, owner, thread, next, cycle, attempted, snapshot,
                 lastRefresh>>

(* refreshProvider(): refresh() threw, and the exception is caught and     *)
(* logged; or it returned early (DeviceProvider within kMaxAge).           *)
RefreshKeeps ==
  /\ worker = "refresh"
  /\ attempted' = [attempted EXCEPT ![next] = cycle]
  /\ AfterProvider
  /\ UNCHANGED <<running, owner, thread, cycle, snapshot, lastRefresh>>

(* m_lastRefresh.store(now)                                                *)
StoreLastRefresh ==
  /\ worker = "store"
  /\ lastRefresh' = cycle
  /\ worker' = "predicate"
  /\ UNCHANGED <<running, owner, thread, next, cycle, attempted, snapshot>>

(* The predicate of wait_for: wait_for returns when m_running is clear.    *)
WaitPredicate ==
  /\ worker = "predicate"
  /\ worker' = IF running THEN "queue" ELSE "test"
  /\ UNCHANGED <<running, owner, thread, next, cycle, attempted, snapshot,
                 lastRefresh>>

(* The thread is queued on the condition variable: it can now be notified. *)
WaitQueue ==
  /\ worker = "queue"
  /\ worker' = "blocked"
  /\ UNCHANGED <<running, owner, thread, next, cycle, attempted, snapshot,
                 lastRefresh>>

(* Mutant of WaitTimeout: m_cv.wait() without a deadline.                  *)
WaitForever == FALSE /\ UNCHANGED vars

(* The interval is over: wait_for returns whatever the predicate says.     *)
WaitTimeout ==
  /\ worker = "blocked"
  /\ worker' = "test"
  /\ UNCHANGED <<running, owner, thread, next, cycle, attempted, snapshot,
                 lastRefresh>>

(* A spurious wakeup re-evaluates the predicate.                           *)
WaitSpurious ==
  /\ worker = "blocked"
  /\ worker' = "predicate"
  /\ UNCHANGED <<running, owner, thread, next, cycle, attempted, snapshot,
                 lastRefresh>>

Worker ==
  \/ LoopTest
  \/ RefreshPublishes \/ RefreshKeeps \/ StoreLastRefresh
  \/ WaitPredicate \/ WaitQueue \/ WaitTimeout

Owner == Start \/ StopClear \/ StopNotify \/ StopJoin

Next == Owner \/ Worker \/ WaitSpurious

Spec == Init /\ [][Next]_vars

(***************************************************************************)
(* The operating system runs both threads: the worker takes its next step, *)
(* stop() its own.  The timeout must be fair of itself: spurious wakeups   *)
(* may come for ever, but the deadline of wait_for is absolute.  Nobody is *)
(* obliged to call start() or stop().                                      *)
(***************************************************************************)
Fairness ==
  /\ WF_vars(Worker)
  /\ SF_vars(WaitTimeout)
  /\ WF_vars(StopNotify)
  /\ WF_vars(StopJoin)

FairSpec == Spec /\ Fairness

-----------------------------------------------------------------------------
(* Properties.                                                             *)

(* Types.                                                                  *)
TypeOK ==
  /\ running \in BOOLEAN
  /\ owner \in OwnerStates
  /\ thread \in BOOLEAN
  /\ worker \in WorkerStates
  /\ next \in 1 .. NumProviders + 1
  /\ cycle \in Cycles
  /\ attempted \in [Providers -> Cycles]
  /\ snapshot \in [Providers -> Cycles]
  /\ lastRefresh \in Cycles

(* A worker exists exactly while m_thread is joinable, so start() never    *)
(* overwrites a joinable m_thread and two loops never run together.        *)
OneWorker ==
  /\ thread <=> worker # "absent"
  /\ running => thread
  /\ owner = "outside" => (running <=> thread)

(* m_lastRefresh never promises a cycle that some provider has not been    *)
(* called in: at every moment each provider was called in the cycle that   *)
(* lastRefresh names or in the one that is going on.                       *)
LastRefreshIsComplete ==
  \A p \in Providers :
    \/ attempted[p] = lastRefresh
    \/ worker \in {"refresh", "store"} /\ attempted[p] = cycle

(* stop() does not cut a cycle short: once it has returned, every provider *)
(* was called in the same, last, cycle and m_lastRefresh names it.         *)
StoppedAfterWholeCycle ==
  ~thread => \A p \in Providers : attempted[p] = cycle /\ lastRefresh = cycle

(* The refresh time never runs ahead of the providers, nor does stop()     *)
(* leave them in two different cycles.                                     *)
WholeCycles == LastRefreshIsComplete /\ StoppedAfterWholeCycle

(* No provider is refreshed and nothing is published once stop() returned  *)
(* (the providers are destroyed next): only a joinable worker publishes.   *)
NothingAfterStop ==
  [][ ~thread => UNCHANGED <<attempted, snapshot, lastRefresh>> ]_vars

(* stop() returns, though its notification may be lost.                    *)
StopReturns == owner # "outside" ~> owner = "outside"

(* While the service runs, every provider is called again and again,       *)
(* whichever providers throw.                                              *)
EveryProviderAgain ==
  \A p \in Providers :
    running ~> (~running \/ (worker = "refresh" /\ next = p))

(* The threads implement the thread-free promise of SnapshotService.       *)
Abstract == INSTANCE SnapshotService WITH
  MaxRound <- MaxCycle,
  active   <- thread,
  round    <- cycle,
  pending  <- IF worker = "refresh" THEN next .. NumProviders ELSE {},
  stamp    <- lastRefresh

ImplementsSnapshotService == Abstract!Spec
==============================================================================
