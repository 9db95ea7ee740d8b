---------------------------- MODULE AsyncOperation ----------------------------
(***************************************************************************)
(* The one-at-a-time background operations of the providers: runOperation  *)
(* of ProcessProvider, SystemServiceProvider, StartupProvider and          *)
(* DeviceProvider, and the same lines in NetworkProvider (tests),          *)
(* DisplayProvider, AudioProvider and VirtualCameraController.             *)
(*                                                                         *)
(* A runner is one such provider: a flag opRunning, a heap-allocated       *)
(* std::thread opThread, and the result m_lastOperation the page shows.    *)
(* A request that finds opRunning set is dropped.  Otherwise a new thread  *)
(* is created and assigned to opThread; the assignment destroys the        *)
(* std::thread of the previous operation, which nobody joined, and the     *)
(* destructor of a joinable std::thread calls std::terminate.              *)
(*                                                                         *)
(* Some providers never allocate the structure that holds opRunning and    *)
(* opThread (Unallocated): their first operation dereferences null.        *)
(***************************************************************************)
EXTENDS Integers, FiniteSets

CONSTANTS Runners,     (* the providers that run operations               *)
          Unallocated, (* those whose constructor leaves m_impl null      *)
          Operations   (* what the pages may ask of a runner              *)

ASSUME RunnersAssumption == Unallocated \subseteq Runners

NoOperation == "no operation"
ASSUME OperationsAssumption == NoOperation \notin Operations

VARIABLES
  program,   (* up, exiting (the destructors run), gone, or crashed        *)
  opRunning, (* the flag of each runner                                    *)
  opThread,  (* where the thread of each runner is                         *)
  task,      (* the operation its latest thread was created for            *)
  last,      (* m_lastOperation: the operation whose result is published   *)
  alive      (* the runners whose members have not been destroyed          *)

vars == <<program, opRunning, opThread, task, last, alive>>

ThreadStates == {"null", "task", "published", "cleared", "finished"}
Working      == {"task", "published", "cleared"}  (* the thread has steps left *)
Crashes      == {"terminated", "nullptr"}

Init ==
  /\ program = "up"
  /\ opRunning = [r \in Runners |-> FALSE]
  /\ opThread = [r \in Runners |-> "null"]
  /\ task = [r \in Runners |-> NoOperation]
  /\ last = [r \in Runners |-> NoOperation]
  /\ alive = Runners

-----------------------------------------------------------------------------
(* The user interface thread.                                              *)

(* Mutant of Request: the thread is not told which operation it runs.      *)
RequestUnnamed(r, op) ==
  /\ program = "up"
  /\ r \notin Unallocated
  /\ ~opRunning[r]
  /\ opRunning' = [opRunning EXCEPT ![r] = TRUE]
  /\ opThread' = [opThread EXCEPT ![r] = "task"]
  /\ program' = IF opThread[r] = "null" THEN "up" ELSE "terminated"
  /\ UNCHANGED <<task, last, alive>>

(* runOperation: dropped while opRunning is set; otherwise a new thread,   *)
(* whose assignment destroys the previous std::thread, joinable whether    *)
(* or not it has finished.                                                 *)
Request(r, op) ==
  /\ program = "up"
  /\ r \notin Unallocated
  /\ ~opRunning[r]
  /\ opRunning' = [opRunning EXCEPT ![r] = TRUE]
  /\ task' = [task EXCEPT ![r] = op]
  /\ opThread' = [opThread EXCEPT ![r] = "task"]
  /\ program' = IF opThread[r] = "null" THEN "up" ELSE "terminated"
  /\ UNCHANGED <<last, alive>>

(* runOperation of a provider without m_impl reads opRunning through null. *)
RequestUnallocated(r) ==
  /\ program = "up"
  /\ r \in Unallocated
  /\ program' = "nullptr"
  /\ UNCHANGED <<opRunning, opThread, task, last, alive>>

(* The window is closed for good: wWinMain returns and ~HardwareService    *)
(* destroys the providers.                                                 *)
Exit ==
  /\ program = "up"
  /\ program' = "exiting"
  /\ UNCHANGED <<opRunning, opThread, task, last, alive>>

(* Mutant of Destroy: the destructor does not join the thread.             *)
DestroyNoJoin(r) ==
  /\ program = "exiting"
  /\ r \in alive
  /\ alive' = alive \ {r}
  /\ UNCHANGED <<program, opRunning, opThread, task, last>>

(* A provider's destructor joins its thread, if there is one, and then the *)
(* members go.                                                             *)
Destroy(r) ==
  /\ program = "exiting"
  /\ r \in alive
  /\ opThread[r] \notin Working
  /\ alive' = alive \ {r}
  /\ UNCHANGED <<program, opRunning, opThread, task, last>>

(* main returns when every provider is destroyed.                          *)
Leave ==
  /\ program = "exiting"
  /\ alive = {}
  /\ program' = "gone"
  /\ UNCHANGED <<opRunning, opThread, task, last, alive>>

-----------------------------------------------------------------------------
(* The thread of an operation.                                             *)

Runs == program \in {"up", "exiting"}

(* Mutant of Publish: the flag is cleared before the result is published.  *)
PublishAfterClearing(r) ==
  /\ Runs
  /\ opThread[r] = "task"
  /\ opRunning' = [opRunning EXCEPT ![r] = FALSE]
  /\ opThread' = [opThread EXCEPT ![r] = "published"]
  /\ UNCHANGED <<program, task, last, alive>>

(* The task is done and its result replaces the published one.             *)
Publish(r) ==
  /\ Runs
  /\ opThread[r] = "task"
  /\ last' = [last EXCEPT ![r] = task[r]]
  /\ opThread' = [opThread EXCEPT ![r] = "published"]
  /\ UNCHANGED <<program, opRunning, task, alive>>

(* opRunning.store(false), the last shared access of the thread.           *)
Clear(r) ==
  /\ Runs
  /\ opThread[r] = "published"
  /\ opRunning' = [opRunning EXCEPT ![r] = FALSE]
  /\ opThread' = [opThread EXCEPT ![r] = "cleared"]
  /\ UNCHANGED <<program, task, last, alive>>

(* The thread function returns; the std::thread object stays joinable.     *)
Finish(r) ==
  /\ Runs
  /\ opThread[r] = "cleared"
  /\ opThread' = [opThread EXCEPT ![r] = "finished"]
  /\ UNCHANGED <<program, opRunning, task, last, alive>>

Thread(r) == Publish(r) \/ Clear(r) \/ Finish(r)

Over == program \notin {"up", "exiting"} /\ UNCHANGED vars

Next ==
  \/ \E r \in Runners, op \in Operations : Request(r, op)
  \/ \E r \in Runners : RequestUnallocated(r) \/ Destroy(r) \/ Thread(r)
  \/ Exit \/ Leave \/ Over

Spec == Init /\ [][Next]_vars

(* Threads that can run do; the destructors run to their end once begun.   *)
Fairness ==
  /\ \A r \in Runners : WF_vars(Thread(r)) /\ WF_vars(Destroy(r))
  /\ WF_vars(Leave)

FairSpec == Spec /\ Fairness

-----------------------------------------------------------------------------
(* Properties.                                                             *)

(* Types; a runner has an operation exactly when it has had a thread.      *)
TypeOK ==
  /\ program \in {"up", "exiting", "gone"} \cup Crashes
  /\ opRunning \in [Runners -> BOOLEAN]
  /\ opThread \in [Runners -> ThreadStates]
  /\ task \in [Runners -> Operations \cup {NoOperation}]
  /\ last \in [Runners -> Operations \cup {NoOperation}]
  /\ alive \subseteq Runners
  /\ \A r \in Runners : opThread[r] = "null" <=> task[r] = NoOperation

(* A runner that would accept a request has published the result of the    *)
(* operation before: the page never pairs a free runner with the result of *)
(* an older operation.                                                     *)
ResultBeforeFree ==
  \A r \in Runners : ~opRunning[r] => last[r] = task[r]

(* No thread is left to touch a provider whose members are gone.           *)
NoUseAfterDestroy ==
  \A r \in Runners \ alive : opThread[r] \notin Working

(* An accepted operation gets its result published, unless the program     *)
(* crashed first.                                                          *)
OperationCompletes ==
  \A r \in Runners, op \in Operations :
    (opRunning[r] /\ task[r] = op) ~> (last[r] = op \/ program \in Crashes)

(* Once the window is closed the program ends.                             *)
ExitEnds == program = "exiting" ~> program = "gone"

(* The pages' operations can be followed by others: enabling and disabling *)
(* a startup item is said to be reversible, suspending a process comes     *)
(* with resuming it.  The code terminates the program instead.             *)
OperationsRepeat == program # "terminated"
==============================================================================
