--------------------------- MODULE ThreadsMC_proofs ---------------------------
(***************************************************************************)
(* Proofs about the components that hand something from thread to thread,  *)
(* for every value of their constants: the runner of the operations, the   *)
(* network tests, the detail of a process, the video transform pipeline    *)
(* and the types of the camera engine; the memory of the frames has its    *)
(* proofs in FrameShm_proofs.  Each has an inductive invariant and a       *)
(* theorem of its own; the composition of ThreadsMC implements each of     *)
(* them, and so inherits what was proved.                                  *)
(***************************************************************************)
EXTENDS ThreadsMC, TLAPS

-----------------------------------------------------------------------------
(* The runner of the operations.                                           *)

(* Nothing is destroyed before the destructors run; a thread that has not  *)
(* published holds the flag, and one that has, or was never made, leaves   *)
(* the result of the latest operation.                                     *)
RunnerInv ==
  /\ TypeOK /\ ResultBeforeFree /\ NoUseAfterDestroy
  /\ program = "up" => alive = Runners
  /\ \A r \in Runners : opThread[r] = "task" => opRunning[r]
  /\ \A r \in Runners : opThread[r] # "task" => last[r] = task[r]

USE RunnersAssumption, OperationsAssumption

LEMMA RunnerInitially == Init => RunnerInv
BY DEF Init, RunnerInv, TypeOK, ResultBeforeFree, NoUseAfterDestroy, ThreadStates, Working

LEMMA Requested ==
  ASSUME RunnerInv, NEW r \in Runners, NEW op \in Operations, Request(r, op)
  PROVE  RunnerInv'
<1>1. TypeOK'
  BY DEF RunnerInv, Request, TypeOK, ThreadStates, Crashes
<1>2. ResultBeforeFree' /\ NoUseAfterDestroy'
  BY DEF RunnerInv, Request, TypeOK, ResultBeforeFree, NoUseAfterDestroy
<1>. QED  BY <1>1, <1>2 DEF RunnerInv, Request, TypeOK

LEMMA ThreadStepped ==
  ASSUME RunnerInv, NEW r \in Runners, Thread(r)
  PROVE  RunnerInv'
<1>1. TypeOK'
  BY DEF RunnerInv, Thread, Publish, Clear, Finish, TypeOK, ThreadStates
<1>2. ResultBeforeFree'
  BY DEF RunnerInv, Thread, Publish, Clear, Finish, TypeOK, ResultBeforeFree
<1>3. NoUseAfterDestroy'
  BY DEF RunnerInv, Thread, Publish, Clear, Finish, TypeOK, NoUseAfterDestroy, Working
<1>. QED
  BY <1>1, <1>2, <1>3 DEF RunnerInv, Thread, Publish, Clear, Finish, TypeOK

LEMMA RunnerPreserved == RunnerInv /\ [Next]_vars => RunnerInv'
<1>. SUFFICES ASSUME RunnerInv, [Next]_vars PROVE RunnerInv'
  OBVIOUS
<1>1. ASSUME NEW r \in Runners, NEW op \in Operations, Request(r, op) PROVE RunnerInv'
  BY <1>1, Requested
<1>2. ASSUME NEW r \in Runners, Thread(r) PROVE RunnerInv'
  BY <1>2, ThreadStepped
<1>3. ASSUME NEW r \in Runners, RequestUnallocated(r) PROVE RunnerInv'
  BY <1>3 DEF RunnerInv, RequestUnallocated, TypeOK, Crashes, ResultBeforeFree,
              NoUseAfterDestroy
<1>4. ASSUME NEW r \in Runners, Destroy(r) PROVE RunnerInv'
  BY <1>4 DEF RunnerInv, Destroy, TypeOK, ResultBeforeFree, NoUseAfterDestroy
<1>5. CASE Exit \/ Leave
  BY <1>5 DEF RunnerInv, Exit, Leave, TypeOK, ResultBeforeFree, NoUseAfterDestroy
<1>6. CASE UNCHANGED vars
  BY <1>6 DEF vars, RunnerInv, TypeOK, ResultBeforeFree, NoUseAfterDestroy
<1>. QED  BY <1>1, <1>2, <1>3, <1>4, <1>5, <1>6 DEF Next, Over

(* A runner that is free has published the result of its last operation,   *)
(* and no thread is left to touch a provider that is destroyed, whichever  *)
(* providers there are and whatever they are asked.                        *)
THEOREM RunnerIsSound == Spec => [](TypeOK /\ ResultBeforeFree /\ NoUseAfterDestroy)
<1>1. RunnerInv => TypeOK /\ ResultBeforeFree /\ NoUseAfterDestroy
  BY DEF RunnerInv
<1>. QED  BY <1>1, RunnerInitially, RunnerPreserved, PTL DEF Spec

-----------------------------------------------------------------------------
(* The video transform pipeline.                                           *)

(* The thread is joinable from start() to the join in stop(); a stop() has *)
(* cleared the flag, and closes only when the thread is gone.              *)
Lifetime ==
  /\ thread <=> lp # "absent"
  /\ owner = "outside" => (running <=> thread)
  /\ owner = "join" => thread /\ ~running
  /\ owner = "close" => ~thread /\ ~running

Capturing(s) == s.running /\ s.capturing

(* What the object and the copy hold at each place of loop(), and what     *)
(* they hold before a loop begins and after one has ended.                 *)
StatusFollows ==
  /\ lp \in {"absent", "begin", "ended"} =>
       ~Pipeline!Shown.running /\ ~Pipeline!Shown.capturing
  /\ lp \in {"open", "target", "giveup"} => published = "object" /\ framesSent = 0
  /\ lp \in {"open", "giveup"} => status.running /\ ~status.capturing /\ status.frames = 0
  /\ lp = "target" => Capturing(status) /\ status.frames = 0
  /\ lp \in {"frames", "final"} =>
       /\ Capturing(status)
       /\ published \in {"object", "copy"}
       /\ published = "copy" => Capturing(copy)
  /\ lp = "ended" => Pipeline!Shown.frames = framesSent

PipelineInv ==
  /\ Pipeline!TypeOK /\ Lifetime /\ StatusFollows
  /\ Pipeline!ResourcesReleasable

LEMMA PipelineInitially == Pipeline!Init => PipelineInv
<1>. SUFFICES ASSUME Pipeline!Init PROVE PipelineInv
  OBVIOUS
<1>1. Pipeline!NoStatus \in Pipeline!Status /\ 0 \in 0 .. MaxFrames
  BY ConstantsAssumption DEF Pipeline!NoStatus, Pipeline!Status
<1>2. /\ running \in BOOLEAN /\ owner \in {"outside", "join", "close"}
      /\ thread \in BOOLEAN /\ lp \in Pipeline!LoopStates
  BY DEF Pipeline!Init, Pipeline!LoopStates
<1>3. /\ target \in Pipeline!Targets /\ loaded \in Pipeline!Targets
      /\ obs \in BOOLEAN /\ shm \in BOOLEAN
  BY DEF Pipeline!Init, Pipeline!Targets
<1>4. /\ status \in Pipeline!Status /\ published \in {"nothing", "object", "copy"}
      /\ copy \in Pipeline!Status /\ framesSent \in 0 .. MaxFrames
  BY <1>1 DEF Pipeline!Init
<1>5. Pipeline!TypeOK
  BY <1>2, <1>3, <1>4 DEF Pipeline!TypeOK
<1>6. Lifetime /\ StatusFollows /\ Pipeline!ResourcesReleasable
  BY DEF Pipeline!Init, Lifetime, StatusFollows, Pipeline!Shown, Pipeline!NoStatus,
         Pipeline!ResourcesReleasable
<1>. QED  BY <1>5, <1>6 DEF PipelineInv

(* The owner's steps change neither the status nor the frames.             *)
LEMMA OwnerStepped ==
  ASSUME PipelineInv, Pipeline!Owner
  PROVE  PipelineInv'
<1>1. Pipeline!TypeOK'
  <2>. USE DEF PipelineInv, Pipeline!TypeOK, Pipeline!loopVars, Pipeline!LoopStates
  <2>1. ASSUME NEW t \in Pipeline!Targets, Pipeline!Start(t)
        PROVE  Pipeline!TypeOK'
    BY <2>1 DEF Pipeline!Start
  <2>2. ASSUME NEW t \in Pipeline!Targets, Pipeline!UpdateParams(t)
        PROVE  Pipeline!TypeOK'
    BY <2>2 DEF Pipeline!UpdateParams
  <2>3. CASE Pipeline!StopClear \/ Pipeline!StopJoin \/ Pipeline!StopClose
    BY <2>3 DEF Pipeline!StopClear, Pipeline!StopJoin, Pipeline!StopClose
  <2>. QED  BY <2>1, <2>2, <2>3 DEF Pipeline!Owner
<1>2. Lifetime'
  BY DEF PipelineInv, Pipeline!TypeOK, Lifetime, Pipeline!Owner, Pipeline!Start,
         Pipeline!UpdateParams, Pipeline!StopClear, Pipeline!StopJoin, Pipeline!StopClose,
         Pipeline!loopVars
<1>3. StatusFollows'
  <2>1. /\ UNCHANGED <<status, published, copy, framesSent>>
        /\ UNCHANGED Pipeline!Shown
    BY DEF Pipeline!Owner, Pipeline!Start, Pipeline!UpdateParams, Pipeline!StopClear,
           Pipeline!StopJoin, Pipeline!StopClose, Pipeline!loopVars, Pipeline!Shown
  <2>2. \/ lp' = lp
        \/ lp \in {"absent", "ended"} /\ lp' \in {"begin", "absent"}
    BY DEF PipelineInv, Pipeline!TypeOK, Lifetime, Pipeline!Owner, Pipeline!Start,
           Pipeline!UpdateParams, Pipeline!StopClear, Pipeline!StopJoin,
           Pipeline!StopClose, Pipeline!loopVars
  <2>. QED
    BY <2>1, <2>2 DEF PipelineInv, StatusFollows, Capturing
<1>4. Pipeline!ResourcesReleasable'
  BY DEF PipelineInv, Pipeline!TypeOK, Pipeline!ResourcesReleasable, Pipeline!Owner,
         Pipeline!Start, Pipeline!UpdateParams, Pipeline!StopClear, Pipeline!StopJoin,
         Pipeline!StopClose, Pipeline!loopVars
<1>. QED  BY <1>1, <1>2, <1>3, <1>4 DEF PipelineInv

(* The loop opens things only while there is a thread, and so while the    *)
(* flag is set or a stop() is under way.                                   *)
LEMMA LoopKeepsTypes ==
  ASSUME PipelineInv, Pipeline!Loop \/ Pipeline!ReadFails
  PROVE  Pipeline!TypeOK'
<1>. USE ConstantsAssumption DEF PipelineInv, Pipeline!TypeOK
<1>1. CASE Pipeline!LoopBegin
  <2>1. status' = [running |-> TRUE, capturing |-> FALSE, frames |-> 0]
    BY <1>1 DEF Pipeline!LoopBegin, Pipeline!NoStatus
  <2>2. status' \in Pipeline!Status
    BY <2>1 DEF Pipeline!Status
  <2>3. lp' \in Pipeline!LoopStates /\ loaded' \in Pipeline!Targets /\ framesSent' = 0
    BY <1>1 DEF Pipeline!LoopBegin, Pipeline!LoopStates, Pipeline!NoStatus
  <2>. QED
    BY <1>1, <2>2, <2>3 DEF Pipeline!LoopBegin, Pipeline!NoStatus
<1>2. CASE Pipeline!OpenFails \/ Pipeline!OpenSucceeds
  BY <1>2 DEF Pipeline!OpenFails, Pipeline!OpenSucceeds, Pipeline!LoopStates,
              Pipeline!Status
<1>3. CASE Pipeline!ChooseTarget \/ Pipeline!GiveUp
  BY <1>3 DEF Pipeline!ChooseTarget, Pipeline!GiveUp, Pipeline!LoopStates, Pipeline!Status
<1>4. CASE Pipeline!Frame
  BY <1>4 DEF Pipeline!Frame, Pipeline!Status
<1>5. CASE Pipeline!LeaveFrames
  BY <1>5 DEF Pipeline!LeaveFrames, Pipeline!LoopStates
<1>6. CASE Pipeline!Final
  <2>1. copy' \in Pipeline!Status /\ lp' \in Pipeline!LoopStates
    BY <1>6 DEF Pipeline!Final, Pipeline!Status, Pipeline!LoopStates
  <2>. QED
    BY <1>6, <2>1 DEF Pipeline!Final
<1>. QED
  BY <1>1, <1>2, <1>3, <1>4, <1>5, <1>6 DEF Pipeline!Loop, Pipeline!ReadFails

LEMMA LoopKeepsStatus ==
  ASSUME PipelineInv, Pipeline!Loop \/ Pipeline!ReadFails
  PROVE  StatusFollows'
<1>. USE DEF PipelineInv, Pipeline!TypeOK, Pipeline!Status, StatusFollows, Capturing,
             Pipeline!Shown
<1>1. CASE Pipeline!LoopBegin
  BY <1>1 DEF Pipeline!LoopBegin, Pipeline!NoStatus
<1>2. CASE Pipeline!OpenFails \/ Pipeline!OpenSucceeds
  BY <1>2 DEF Pipeline!OpenFails, Pipeline!OpenSucceeds
<1>3. CASE Pipeline!ChooseTarget \/ Pipeline!GiveUp
  BY <1>3 DEF Pipeline!ChooseTarget, Pipeline!GiveUp
<1>4. CASE Pipeline!Frame
  BY <1>4 DEF Pipeline!Frame
<1>5. CASE Pipeline!LeaveFrames \/ Pipeline!Final
  BY <1>5 DEF Pipeline!LeaveFrames, Pipeline!Final
<1>. QED
  BY <1>1, <1>2, <1>3, <1>4, <1>5 DEF Pipeline!Loop, Pipeline!ReadFails

LEMMA LoopStepped ==
  ASSUME PipelineInv, Pipeline!Loop \/ Pipeline!ReadFails
  PROVE  PipelineInv'
<1>1. Lifetime' /\ Pipeline!ResourcesReleasable'
  BY DEF PipelineInv, Lifetime, Pipeline!TypeOK, Pipeline!ResourcesReleasable,
         Pipeline!Loop, Pipeline!LoopBegin,
         Pipeline!OpenFails, Pipeline!OpenSucceeds, Pipeline!ChooseTarget, Pipeline!GiveUp,
         Pipeline!Frame, Pipeline!LeaveFrames, Pipeline!Final, Pipeline!ReadFails
<1>. QED  BY <1>1, LoopKeepsTypes, LoopKeepsStatus DEF PipelineInv

LEMMA PipelinePreserved == PipelineInv /\ [Pipeline!Next]_(Pipeline!vars) => PipelineInv'
<1>. SUFFICES ASSUME PipelineInv, UNCHANGED Pipeline!vars PROVE PipelineInv'
  BY OwnerStepped, LoopStepped DEF Pipeline!Next
<1>. QED
  BY DEF Pipeline!vars, Pipeline!loopVars, PipelineInv, Pipeline!TypeOK, Lifetime, StatusFollows, Capturing,
         Pipeline!Shown, Pipeline!ResourcesReleasable

(* A start() never assigns over a joinable thread, and what the loop opened *)
(* is there only while a stop() would still release it; the status never   *)
(* claims to capture without running, and tells the end of the loop and    *)
(* its frames, for any number of frames.                                   *)
THEOREM PipelineIsSound ==
  Pipeline!Spec => [](/\ Pipeline!TypeOK
                      /\ Pipeline!NoThreadOverwritten /\ Pipeline!ResourcesReleasable
                      /\ Pipeline!CapturingImpliesRunning /\ Pipeline!EndedStatus)
<1>1. PipelineInv => Pipeline!TypeOK /\ Pipeline!ResourcesReleasable
  BY DEF PipelineInv
<1>2. PipelineInv => Pipeline!NoThreadOverwritten
  BY DEF PipelineInv, Pipeline!TypeOK, Lifetime, Pipeline!NoThreadOverwritten
<1>3. PipelineInv => Pipeline!CapturingImpliesRunning /\ Pipeline!EndedStatus
  BY DEF PipelineInv, Pipeline!TypeOK, Pipeline!LoopStates, StatusFollows, Capturing,
         Pipeline!Shown, Pipeline!CapturingImpliesRunning, Pipeline!EndedStatus
<1>. QED
  BY <1>1, <1>2, <1>3, PipelineInitially, PipelinePreserved, PTL DEF Pipeline!Spec

-----------------------------------------------------------------------------
(* The network tests.                                                      *)

Results == [inProgress : BOOLEAN, status : Tests!Statuses, received : 0 .. Count,
            avgMs : Nat, minMs : Nat, maxMs : Nat, addresses : Nat]

(* A result of kind k whose status is that of its echoes or addresses.     *)
StatusFits(k, r) ==
  IF k = "dns" THEN r.status = IF r.addresses > 0 THEN "resolved" ELSE "not resolved"
  ELSE IF r.received = Count THEN r.status = "all received"
  ELSE IF r.received > 0 THEN r.status = "some lost"
  ELSE r.status = "all lost" \/ r.status \in Tests!Refused

LatenciesFit(r) ==
  IF r.received > 0
  THEN r.minMs <= r.avgMs /\ r.avgMs <= r.maxMs /\ {r.minMs, r.maxMs} \subseteq Latencies
  ELSE r.minMs = 0 /\ r.avgMs = 0 /\ r.maxMs = 0

(* While the echoes are counted avgMs is their sum, and minMs is not yet   *)
(* set before the first.                                                   *)
SumFits(r) ==
  IF r.received > 0
  THEN /\ {r.minMs, r.maxMs} \subseteq Latencies
       /\ r.minMs * r.received <= r.avgMs /\ r.avgMs <= r.maxMs * r.received
  ELSE r.minMs = Tests!kNoMinimum /\ r.avgMs = 0 /\ r.maxMs = 0

(* What the result holds at each place of the test's thread.               *)
ResultFollows ==
  /\ pc \in {"none", "ping", "dns"} => kind = "none"
  /\ pc \in {"target", "echo", "status"} => kind = "ping"
  /\ pc = "lookup" => kind = "dns"
  /\ pc \in {"clear", "free", "done"} => kind # "none"
  /\ result.inProgress <=> pc \notin {"free", "done"}
  /\ pc \in {"target", "lookup"} => result = Tests!Fresh
  /\ pc = "echo" => result.received + lost = echoes /\ SumFits(result)
  /\ pc = "status" => result.received + lost = Count /\ LatenciesFit(result)
  /\ pc \in {"clear", "free", "done"} => StatusFits(kind, result) /\ LatenciesFit(result)

(* The page reads, and has drawn, a finished object only, which the thread *)
(* leaves alone from then on.                                              *)
PageFollows ==
  /\ page = "reading" => pc \in {"free", "done"}
  /\ report # Tests!NoReport => pc \in {"free", "done"} /\ report = result

TestsInv ==
  /\ Tests!TypeOK /\ result \in Results
  /\ ResultFollows /\ PageFollows
  /\ ~testRunning => pc \in {"none", "done"}

LEMMA TestConstants ==
  /\ Tests!kNoMinimum \in Nat /\ Count \in Nat /\ Count > 0
  /\ \A ms \in Latencies : ms \in Nat /\ ms <= Tests!kNoMinimum
<1>1. Tests!kNoMinimum \in Nat
  BY SMT DEF Tests!kNoMinimum
<1>. QED  BY <1>1, ConstantsAssumption

LEMMA FreshTyped == Tests!Fresh \in Results
<1>1. "" \in Tests!Statuses /\ 0 \in 0 .. Count
  BY TestConstants DEF Tests!Statuses
<1>. QED  BY <1>1 DEF Tests!Fresh, Results

(* An average lies between bounds of what was summed.                      *)
LEMMA AverageBetween ==
  ASSUME NEW low \in Nat, NEW high \in Nat, NEW sum \in Nat, NEW n \in Nat \ {0},
         low * n <= sum, sum <= high * n
  PROVE  /\ sum \div n \in Nat
         /\ low <= sum \div n /\ sum \div n <= high
<1>. DEFINE q == sum \div n
           m == sum % n
<1>1. q \in Int /\ m \in 0 .. n - 1 /\ sum = n * q + m
  OBVIOUS
<1>. HIDE DEF q, m
<1>2. q >= low
  <2>1. SUFFICES ASSUME q + 1 <= low PROVE FALSE
    BY <1>1
  <2>2. n * (q + 1) <= n * low
    BY <1>1, <2>1
  <2>. QED  BY <1>1, <2>2
<1>3. q <= high
  <2>1. SUFFICES ASSUME high + 1 <= q PROVE FALSE
    BY <1>1
  <2>2. n * (high + 1) <= n * q
    BY <1>1, <2>1
  <2>. QED  BY <1>1, <2>2
<1>. QED  BY <1>1, <1>2, <1>3 DEF q

(* One more echo keeps the sum between what minimum and maximum give.      *)
LEMMA SumBetween ==
  ASSUME NEW low \in Nat, NEW high \in Nat, NEW sum \in Nat, NEW n \in Nat, NEW ms \in Nat,
         NEW low2 \in Nat, low2 <= low, low2 <= ms,
         NEW high2 \in Nat, high <= high2, ms <= high2,
         low * n <= sum, sum <= high * n
  PROVE  low2 * (n + 1) <= sum + ms /\ sum + ms <= high2 * (n + 1)
<1>1. low2 * n <= low * n /\ high * n <= high2 * n
  OBVIOUS
<1>2. low2 * (n + 1) = low2 * n + low2 /\ high2 * (n + 1) = high2 * n + high2
  OBVIOUS
<1>. QED  BY <1>1, <1>2

LEMMA ResultTyped ==
  ASSUME NEW r \in Results
  PROVE  /\ r.status \in Tests!Statuses /\ r.inProgress \in BOOLEAN
         /\ {r.avgMs, r.minMs, r.maxMs, r.addresses} \subseteq Nat
         /\ r.received \in 0 .. Count
BY DEF Results

LEMMA TestsInitially == Tests!Init => TestsInv
<1>. SUFFICES ASSUME Tests!Init PROVE TestsInv
  OBVIOUS
<1>1. result = Tests!Fresh /\ result \in Results
  BY FreshTyped DEF Tests!Init
<1>2. Tests!TypeOK
  <2>1. echoes \in 0 .. Count /\ lost \in 0 .. echoes
    BY TestConstants DEF Tests!Init
  <2>2. /\ terminated \in BOOLEAN /\ testRunning \in BOOLEAN /\ pc = "none"
        /\ kind = "none" /\ page = "idle"
    BY DEF Tests!Init
  <2>. QED
    BY <1>1, <2>1, <2>2, ResultTyped DEF Tests!TypeOK
<1>3. ResultFollows
  <2>1. result.inProgress
    BY <1>1 DEF Tests!Fresh
  <2>2. pc = "none" /\ kind = "none"
    BY DEF Tests!Init
  <2>. QED
    BY <2>1, <2>2 DEF ResultFollows
<1>4. PageFollows
  BY DEF Tests!Init, PageFollows
<1>. QED  BY <1>1, <1>2, <1>3, <1>4 DEF TestsInv, Tests!Init

(* A button.  A second test terminates the program and changes no result.  *)
LEMMA TestRun ==
  ASSUME TestsInv, NEW k \in {"ping", "dns"}, Tests!Run(k)
  PROVE  TestsInv'
<1>1. UNCHANGED <<kind, result, echoes, lost, page, report>> /\ testRunning' = TRUE
  BY DEF Tests!Run
<1>2. pc' = pc \/ (pc = "none" /\ pc' = k)
  BY DEF Tests!Run, TestsInv, Tests!TypeOK
<1>3. terminated' \in BOOLEAN
  BY DEF Tests!Run, TestsInv, Tests!TypeOK
<1>4. Tests!TypeOK' /\ result' \in Results
  BY <1>1, <1>2, <1>3, ResultTyped DEF TestsInv, Tests!TypeOK
<1>5. ResultFollows' /\ PageFollows'
  BY <1>1, <1>2 DEF TestsInv, ResultFollows, PageFollows, StatusFits, LatenciesFit, SumFits
<1>. QED  BY <1>1, <1>4, <1>5 DEF TestsInv

(* Before the result is finished no page reads it, and none is drawn.      *)
LEMMA NotYetDrawn ==
  ASSUME TestsInv, pc \notin {"free", "done"}, UNCHANGED <<page, report>>
  PROVE  PageFollows'
BY DEF TestsInv, PageFollows

LEMMA TestPublish ==
  ASSUME TestsInv, Tests!Publish
  PROVE  TestsInv'
<1>1. result' = Tests!Fresh /\ result' \in Results
  BY FreshTyped DEF Tests!Publish
<1>2. /\ pc \in {"ping", "dns"}
      /\ \/ pc' = "target" /\ kind' = "ping"
         \/ pc' = "lookup" /\ kind' = "dns"
      /\ UNCHANGED <<terminated, testRunning, echoes, lost, page, report>>
  BY DEF Tests!Publish, Tests!Step
<1>3. Tests!TypeOK'
  BY <1>1, <1>2, ResultTyped DEF TestsInv, Tests!TypeOK
<1>4. ResultFollows'
  BY <1>1, <1>2 DEF ResultFollows, Tests!Fresh
<1>5. PageFollows'
  BY <1>2, NotYetDrawn
<1>. QED  BY <1>1, <1>2, <1>3, <1>4, <1>5 DEF TestsInv

LEMMA TestRefused ==
  ASSUME TestsInv, NEW why \in Tests!Refused, Tests!PingRefused(why)
  PROVE  TestsInv'
<1>1. /\ pc = "target" /\ pc' = "clear" /\ kind = "ping"
      /\ result = Tests!Fresh /\ result' = [Tests!Fresh EXCEPT !.status = why]
      /\ UNCHANGED <<terminated, testRunning, kind, echoes, lost, page, report>>
  BY DEF Tests!PingRefused, Tests!Step, TestsInv, ResultFollows
<1>2. result' \in Results
  BY <1>1, FreshTyped DEF Results, Tests!Statuses
<1>3. Tests!TypeOK'
  BY <1>1, <1>2, ResultTyped DEF TestsInv, Tests!TypeOK
<1>4. StatusFits(kind, result)' /\ LatenciesFit(result)' /\ result'.inProgress
  <2>1. /\ result'.status = why /\ result'.received = 0 /\ result'.inProgress
        /\ result'.minMs = 0 /\ result'.avgMs = 0 /\ result'.maxMs = 0
    BY <1>1 DEF Tests!Fresh
  <2>2. LatenciesFit(result)'
    BY <2>1 DEF LatenciesFit
  <2>3. StatusFits(kind, result)'
    <3>1. kind' # "dns"
      BY <1>1
    <3>2. result'.received # Count /\ ~(result'.received > 0)
      BY <2>1, TestConstants
    <3>. QED
      BY <2>1, <3>1, <3>2 DEF StatusFits
  <2>. QED
    BY <2>1, <2>2, <2>3
<1>5. ResultFollows'
  BY <1>1, <1>4 DEF ResultFollows
<1>6. PageFollows'
  BY <1>1, NotYetDrawn
<1>. QED  BY <1>1, <1>2, <1>3, <1>5, <1>6 DEF TestsInv

LEMMA TestPrepared ==
  ASSUME TestsInv, Tests!PingPrepare
  PROVE  TestsInv'
<1>1. /\ pc = "target" /\ pc' = "echo" /\ kind = "ping"
      /\ result = Tests!Fresh
      /\ result' = [Tests!Fresh EXCEPT !.minMs = Tests!kNoMinimum]
      /\ echoes' = 0 /\ lost' = 0
      /\ UNCHANGED <<terminated, testRunning, kind, page, report>>
  BY DEF Tests!PingPrepare, Tests!Step, TestsInv, ResultFollows
<1>2. result' \in Results
  BY <1>1, FreshTyped, TestConstants DEF Results
<1>3. Tests!TypeOK'
  BY <1>1, <1>2, TestConstants, ResultTyped DEF TestsInv, Tests!TypeOK
<1>4. ResultFollows'
  <2>1. /\ result'.received = 0 /\ result'.inProgress /\ result'.avgMs = 0
        /\ result'.minMs = Tests!kNoMinimum /\ result'.maxMs = 0
    BY <1>1 DEF Tests!Fresh
  <2>. QED
    BY <1>1, <2>1 DEF ResultFollows, SumFits
<1>5. PageFollows'
  BY <1>1, NotYetDrawn
<1>. QED  BY <1>1, <1>2, <1>3, <1>4, <1>5 DEF TestsInv

LEMMA TestEchoed ==
  ASSUME TestsInv, Tests!Echo
  PROVE  TestsInv'
<1>1. /\ pc = "echo" /\ pc' = "echo" /\ kind = "ping" /\ echoes < Count
      /\ echoes' = echoes + 1
      /\ UNCHANGED <<terminated, testRunning, kind, page, report>>
  BY DEF Tests!Echo, Tests!Step, TestsInv, ResultFollows
<1>2. /\ result \in Results /\ echoes \in 0 .. Count /\ lost \in 0 .. echoes
      /\ result.received + lost = echoes /\ SumFits(result) /\ result.inProgress
  BY <1>1 DEF TestsInv, Tests!TypeOK, ResultFollows
<1>3. CASE lost' = lost + 1 /\ UNCHANGED result
  <2>1. Tests!TypeOK'
    BY <1>1, <1>2, <1>3, TestConstants, ResultTyped DEF TestsInv, Tests!TypeOK
  <2>2. result'.received + lost' = echoes'
    BY <1>1, <1>2, <1>3, ResultTyped
  <2>3. ResultFollows'
    BY <1>1, <1>2, <1>3, <2>2 DEF ResultFollows, SumFits
  <2>. QED
    BY <1>1, <1>2, <1>3, <2>1, <2>3, NotYetDrawn DEF TestsInv
<1>4. ASSUME NEW ms \in Latencies,
             result' = [result EXCEPT !.avgMs = @ + ms, !.received = @ + 1,
                                      !.minMs = IF ms < @ THEN ms ELSE @,
                                      !.maxMs = IF ms > @ THEN ms ELSE @],
             UNCHANGED lost
      PROVE  TestsInv'
  <2>1. /\ ms \in Nat /\ ms <= Tests!kNoMinimum /\ Tests!kNoMinimum \in Nat
        /\ result.received \in Nat /\ result.received < Count
        /\ result.avgMs \in Nat /\ result.minMs \in Nat /\ result.maxMs \in Nat
    BY <1>1, <1>2, TestConstants, ResultTyped
  <2>2. /\ result'.received = result.received + 1 /\ result'.avgMs = result.avgMs + ms
        /\ result'.minMs = IF ms < result.minMs THEN ms ELSE result.minMs
        /\ result'.maxMs = IF ms > result.maxMs THEN ms ELSE result.maxMs
        /\ result'.inProgress = result.inProgress
    BY <1>2, <1>4 DEF Results
  <2>3. result' \in Results
    <3>1. ASSUME NEW low \in Nat, NEW high \in Nat, NEW sum \in Nat, NEW n \in 0 .. Count,
                 result' = [result EXCEPT !.avgMs = sum, !.received = n, !.minMs = low,
                                          !.maxMs = high]
          PROVE  result' \in Results
      BY <1>2, <3>1 DEF Results
    <3>2. result.received + 1 \in 0 .. Count
      BY <2>1, TestConstants
    <3>3. /\ (IF ms < result.minMs THEN ms ELSE result.minMs) \in Nat
          /\ (IF ms > result.maxMs THEN ms ELSE result.maxMs) \in Nat
          /\ result.avgMs + ms \in Nat
      BY <2>1
    <3>. QED
      BY <1>4, <3>1, <3>2, <3>3
  <2>4. Tests!TypeOK'
    BY <1>1, <1>2, <1>4, <2>1, <2>3, TestConstants, ResultTyped DEF TestsInv, Tests!TypeOK
  <2>5. SumFits(result)'
    <3>1. CASE result.received = 0
      <4>1. result.minMs = Tests!kNoMinimum /\ result.maxMs = 0 /\ result.avgMs = 0
        BY <1>2, <3>1 DEF SumFits
      <4>2. /\ result'.minMs = ms /\ result'.maxMs = ms /\ result'.avgMs = ms
            /\ result'.received = 1
        BY <2>1, <2>2, <3>1, <4>1
      <4>3. /\ result'.minMs * result'.received <= result'.avgMs
            /\ result'.avgMs <= result'.maxMs * result'.received
        <5>1. ms * 1 = ms /\ ms <= ms
          BY <2>1
        <5>. QED  BY <4>2, <5>1
      <4>4. {result'.minMs, result'.maxMs} \subseteq Latencies /\ result'.received > 0
        BY <1>4, <4>2
      <4>. QED
        BY <4>3, <4>4 DEF SumFits
    <3>2. CASE result.received > 0
      <4>1. /\ {result.minMs, result.maxMs} \subseteq Latencies
            /\ result.minMs * result.received <= result.avgMs
            /\ result.avgMs <= result.maxMs * result.received
        BY <1>2, <3>2 DEF SumFits
      <4>2. /\ result'.minMs \in Nat /\ result'.minMs <= result.minMs
            /\ result'.minMs <= ms /\ result'.maxMs \in Nat
            /\ result.maxMs <= result'.maxMs /\ ms <= result'.maxMs
            /\ {result'.minMs, result'.maxMs} \subseteq Latencies
        BY <1>4, <2>1, <2>2, <4>1
      <4>3. /\ result'.minMs * (result.received + 1) <= result.avgMs + ms
            /\ result.avgMs + ms <= result'.maxMs * (result.received + 1)
        BY <2>1, <4>1, <4>2, SumBetween
      <4>. QED
        BY <2>1, <2>2, <4>2, <4>3 DEF SumFits
    <3>. QED
      BY <2>1, <3>1, <3>2
  <2>6. result'.received + lost' = echoes'
    BY <1>1, <1>2, <1>4, <2>1, <2>2
  <2>7. ResultFollows'
    BY <1>1, <1>2, <2>2, <2>5, <2>6 DEF ResultFollows
  <2>. QED
    BY <1>1, <2>3, <2>4, <2>7, NotYetDrawn DEF TestsInv
<1>. QED  BY <1>3, <1>4 DEF Tests!Echo

(* The average of what was received lies between minimum and maximum.      *)
LEMMA TestAveraged ==
  ASSUME TestsInv, Tests!Average
  PROVE  TestsInv'
<1>1. /\ pc = "echo" /\ pc' = "status" /\ kind = "ping" /\ echoes >= Count
      /\ result' = [result EXCEPT !.avgMs = IF result.received > 0
                                            THEN @ \div result.received ELSE @,
                                  !.minMs = IF result.received = 0 THEN 0 ELSE @]
      /\ UNCHANGED <<terminated, testRunning, kind, echoes, lost, page, report>>
  BY DEF Tests!Average, Tests!Step, TestsInv, ResultFollows
<1>2. /\ result \in Results /\ echoes \in 0 .. Count /\ lost \in 0 .. echoes
      /\ result.received + lost = echoes /\ SumFits(result) /\ result.inProgress
  BY <1>1 DEF TestsInv, Tests!TypeOK, ResultFollows
<1>3. /\ result.received \in Nat /\ result.avgMs \in Nat /\ result.minMs \in Nat
      /\ result.maxMs \in Nat /\ echoes = Count /\ Count \in Nat
  BY <1>1, <1>2, TestConstants, ResultTyped
<1>4. /\ result'.received = result.received /\ result'.inProgress = result.inProgress
      /\ result'.avgMs = IF result.received > 0 THEN result.avgMs \div result.received
                         ELSE result.avgMs
      /\ result'.minMs = IF result.received = 0 THEN 0 ELSE result.minMs
      /\ result'.maxMs = result.maxMs
  BY <1>1, <1>2 DEF Results
<1>5. LatenciesFit(result)' /\ result'.avgMs \in Nat /\ result'.minMs \in Nat
  <2>1. CASE result.received = 0
    <3>1. result.avgMs = 0 /\ result.maxMs = 0
      BY <1>2, <2>1 DEF SumFits
    <3>2. /\ result'.received = 0 /\ result'.avgMs = 0 /\ result'.minMs = 0
          /\ result'.maxMs = 0
      BY <1>4, <2>1, <3>1
    <3>. QED
      BY <3>2 DEF LatenciesFit
  <2>2. CASE result.received > 0
    <3>1. /\ {result.minMs, result.maxMs} \subseteq Latencies
          /\ result.minMs * result.received <= result.avgMs
          /\ result.avgMs <= result.maxMs * result.received
      BY <1>2, <2>2 DEF SumFits
    <3>2. result.received \in Nat \ {0}
      BY <1>3, <2>2
    <3>3. /\ result.avgMs \div result.received \in Nat
          /\ result.minMs <= result.avgMs \div result.received
          /\ result.avgMs \div result.received <= result.maxMs
      BY <1>3, <3>1, <3>2, AverageBetween
    <3>4. /\ result'.avgMs = result.avgMs \div result.received
          /\ result'.minMs = result.minMs /\ result'.received > 0
      BY <1>4, <2>2, <3>2
    <3>. QED
      BY <1>3, <1>4, <3>1, <3>3, <3>4 DEF LatenciesFit
  <2>. QED
    BY <1>3, <2>1, <2>2
<1>6. result' \in Results
  <2>1. result' = [result EXCEPT !.avgMs = result'.avgMs, !.minMs = result'.minMs]
    BY <1>1, <1>2 DEF Results
  <2>. QED
    BY <1>2, <1>5, <2>1 DEF Results
<1>7. Tests!TypeOK'
  BY <1>1, <1>2, <1>6, ResultTyped DEF TestsInv, Tests!TypeOK
<1>8. ResultFollows'
  BY <1>1, <1>2, <1>3, <1>4, <1>5 DEF ResultFollows
<1>. QED  BY <1>1, <1>6, <1>7, <1>8, NotYetDrawn DEF TestsInv

LEMMA TestRated ==
  ASSUME TestsInv, Tests!PingStatus
  PROVE  TestsInv'
<1>. DEFINE verdict == IF lost = 0 THEN "all received"
                       ELSE IF result.received = 0 THEN "all lost" ELSE "some lost"
<1>1. /\ pc = "status" /\ pc' = "clear" /\ kind = "ping"
      /\ result' = [result EXCEPT !.status = verdict]
      /\ UNCHANGED <<terminated, testRunning, kind, echoes, lost, page, report>>
  BY DEF Tests!PingStatus, Tests!Step, TestsInv, ResultFollows
<1>2. /\ result \in Results /\ echoes \in 0 .. Count /\ lost \in 0 .. echoes
      /\ result.received + lost = Count /\ LatenciesFit(result) /\ result.inProgress
  BY <1>1 DEF TestsInv, Tests!TypeOK, ResultFollows
<1>3. verdict \in Tests!Statuses
  BY DEF Tests!Statuses
<1>4. /\ result' \in Results /\ result'.status = verdict
      /\ result'.received = result.received /\ result'.inProgress
      /\ result'.avgMs = result.avgMs /\ result'.minMs = result.minMs
      /\ result'.maxMs = result.maxMs
  <2>. HIDE DEF verdict
  <2>. QED  BY <1>1, <1>2, <1>3 DEF Results
<1>5. Tests!TypeOK'
  BY <1>1, <1>2, <1>4, ResultTyped DEF TestsInv, Tests!TypeOK
<1>6. LatenciesFit(result)'
  BY <1>2, <1>4 DEF LatenciesFit
<1>7. StatusFits(kind, result)'
  <2>1. kind' # "dns"
    BY <1>1
  <2>2. result.received \in Nat /\ lost \in Nat /\ Count \in Nat
    BY <1>2, TestConstants, ResultTyped
  <2>3. (lost = 0 <=> result.received = Count)
    BY <1>2, <2>2
  <2>4. (result.received = 0 <=> ~(result.received > 0))
    BY <2>2
  <2>. QED
    BY <1>4, <2>1, <2>3, <2>4 DEF StatusFits
<1>8. ResultFollows'
  BY <1>1, <1>4, <1>6, <1>7 DEF ResultFollows
<1>. QED  BY <1>1, <1>4, <1>5, <1>8, NotYetDrawn DEF TestsInv

LEMMA TestAnswered ==
  ASSUME TestsInv, NEW n \in 0 .. 2, Tests!DnsAnswer(n)
  PROVE  TestsInv'
<1>. DEFINE verdict == IF n > 0 THEN "resolved" ELSE "not resolved"
<1>1. /\ pc = "lookup" /\ pc' = "clear" /\ kind = "dns" /\ result = Tests!Fresh
      /\ result' = [result EXCEPT !.addresses = n, !.status = verdict]
      /\ UNCHANGED <<terminated, testRunning, kind, echoes, lost, page, report>>
  BY DEF Tests!DnsAnswer, Tests!Step, TestsInv, ResultFollows
<1>2. verdict \in Tests!Statuses /\ n \in Nat
  BY DEF Tests!Statuses
<1>3. result' \in Results /\ result'.status = verdict /\ result'.addresses = n
  <2>. HIDE DEF verdict
  <2>. QED  BY <1>1, <1>2, FreshTyped DEF Results
<1>4. /\ result'.received = 0 /\ result'.inProgress
      /\ result'.minMs = 0 /\ result'.avgMs = 0 /\ result'.maxMs = 0
  BY <1>1 DEF Tests!Fresh
<1>5. Tests!TypeOK'
  BY <1>1, <1>3, ResultTyped DEF TestsInv, Tests!TypeOK
<1>6. LatenciesFit(result)' /\ StatusFits(kind, result)'
  BY <1>1, <1>3, <1>4 DEF LatenciesFit, StatusFits
<1>7. ResultFollows'
  BY <1>1, <1>4, <1>6 DEF ResultFollows
<1>. QED  BY <1>1, <1>3, <1>5, <1>7, NotYetDrawn DEF TestsInv

(* The object is finished, and no longer in progress.                      *)
LEMMA TestCleared ==
  ASSUME TestsInv, Tests!ClearInProgress
  PROVE  TestsInv'
<1>1. /\ pc = "clear" /\ pc' = "free" /\ kind # "none"
      /\ result \in Results /\ LatenciesFit(result) /\ StatusFits(kind, result)
      /\ result' = [result EXCEPT !.inProgress = FALSE]
      /\ UNCHANGED <<terminated, testRunning, kind, echoes, lost, page, report>>
  BY DEF Tests!ClearInProgress, Tests!Step, TestsInv, ResultFollows
<1>2. /\ result' \in Results /\ ~result'.inProgress /\ result'.status = result.status
      /\ result'.received = result.received /\ result'.addresses = result.addresses
      /\ result'.avgMs = result.avgMs /\ result'.minMs = result.minMs
      /\ result'.maxMs = result.maxMs
  BY <1>1 DEF Results
<1>3. Tests!TypeOK'
  BY <1>1, <1>2, ResultTyped DEF TestsInv, Tests!TypeOK
<1>4. LatenciesFit(result)' /\ StatusFits(kind, result)'
  BY <1>1, <1>2 DEF LatenciesFit, StatusFits
<1>5. ResultFollows'
  BY <1>1, <1>2, <1>4 DEF ResultFollows
<1>. QED  BY <1>1, <1>2, <1>3, <1>5, NotYetDrawn DEF TestsInv

(* The flag is cleared when the result is complete.                        *)
LEMMA TestFreed ==
  ASSUME TestsInv, Tests!Free
  PROVE  TestsInv'
<1>1. /\ pc = "free" /\ pc' = "done" /\ testRunning' = FALSE
      /\ UNCHANGED <<terminated, kind, result, echoes, lost, page, report>>
  BY DEF Tests!Free, Tests!Step
<1>2. Tests!TypeOK' /\ result' \in Results
  BY <1>1, ResultTyped DEF TestsInv, Tests!TypeOK
<1>3. ResultFollows'
  BY <1>1 DEF TestsInv, ResultFollows, StatusFits, LatenciesFit
<1>4. PageFollows'
  BY <1>1 DEF TestsInv, PageFollows
<1>. QED  BY <1>1, <1>2, <1>3, <1>4 DEF TestsInv

(* The page turns to the result, or draws what it turned to.               *)
LEMMA TestDrawn ==
  ASSUME TestsInv, Tests!Look \/ Tests!Read
  PROVE  TestsInv'
<1>1. /\ UNCHANGED <<terminated, testRunning, pc, kind, result, echoes, lost>>
      /\ \/ page' = "reading" /\ UNCHANGED report /\ ~result.inProgress
         \/ page = "reading" /\ page' = "idle" /\ report' = result
  BY DEF Tests!Look, Tests!Read
<1>2. Tests!TypeOK' /\ result' \in Results
  BY <1>1 DEF TestsInv, Tests!TypeOK
<1>3. ResultFollows'
  BY <1>1 DEF TestsInv, ResultFollows, StatusFits, LatenciesFit, SumFits
<1>4. PageFollows'
  BY <1>1 DEF TestsInv, ResultFollows, PageFollows
<1>. QED  BY <1>1, <1>2, <1>3, <1>4 DEF TestsInv

LEMMA TestsPreserved == TestsInv /\ [Tests!Next]_(Tests!vars) => TestsInv'
<1>. SUFFICES ASSUME TestsInv, [Tests!Next]_(Tests!vars) PROVE TestsInv'
  OBVIOUS
<1>1. CASE Tests!Thread
  BY <1>1, TestPublish, TestRefused, TestPrepared, TestEchoed, TestAveraged, TestRated,
     TestAnswered, TestCleared, TestFreed
  DEF Tests!Thread
<1>2. CASE UNCHANGED Tests!vars
  <2>1. UNCHANGED <<terminated, testRunning, pc, kind, result, echoes, lost, page, report>>
    BY <1>2 DEF Tests!vars
  <2>2. Tests!TypeOK' /\ ResultFollows' /\ PageFollows'
    BY <2>1 DEF TestsInv, Tests!TypeOK, ResultFollows, PageFollows, StatusFits,
                LatenciesFit, SumFits
  <2>. QED
    BY <2>1, <2>2 DEF TestsInv
<1>. QED
  BY <1>1, <1>2, TestRun, TestDrawn DEF Tests!Next, Tests!Over

(* A report the network page draws is that of a finished test, with the    *)
(* status its echoes or addresses give and the average between minimum and *)
(* maximum, and no test is shown in progress when another may begin; for   *)
(* any number of echoes and any latencies.                                 *)
THEOREM TestsAreSound ==
  Tests!Spec => [](/\ Tests!TypeOK /\ Tests!ReportIsComplete
                   /\ Tests!LatenciesOrdered /\ Tests!NoProgressWhenFree)
<1>1. TestsInv => Tests!TypeOK
  BY DEF TestsInv
<1>2. TestsInv /\ report # Tests!NoReport
        => report = result /\ StatusFits(kind, report) /\ LatenciesFit(report)
  BY DEF TestsInv, PageFollows, ResultFollows
<1>3. TestsInv => Tests!ReportIsComplete
  BY <1>2 DEF StatusFits, Tests!ReportIsComplete
<1>4. TestsInv => Tests!LatenciesOrdered
  BY <1>2 DEF LatenciesFit, Tests!LatenciesOrdered
<1>5. TestsInv => Tests!NoProgressWhenFree
  BY DEF TestsInv, ResultFollows, Tests!NoProgressWhenFree
<1>. QED
  BY <1>1, <1>3, <1>4, <1>5, TestsInitially, TestsPreserved, PTL DEF Tests!Spec

-----------------------------------------------------------------------------
(* The detail of a process.                                                *)

(* Every number the page and the refresh thread pass is of a process or    *)
(* none.                                                                   *)
THEOREM DetailIsTyped == Detail!Spec => []Detail!TypeOK
<1>1. Detail!Init => Detail!TypeOK
  BY DEF Detail!Init, Detail!TypeOK, Detail!Numbers
<1>2. Detail!TypeOK /\ [Detail!Next]_(Detail!vars) => Detail!TypeOK'
  BY DEF Detail!TypeOK, Detail!Numbers, Detail!Next, Detail!Page, Detail!Refresh,
         Detail!Click, Detail!Inspect, Detail!OpenMenu, Detail!RefreshDetail, Detail!Take,
         Detail!Store, Detail!vars, Detail!page
<1>. QED  BY <1>1, <1>2, PTL DEF Detail!Spec

-----------------------------------------------------------------------------
(* The composition.                                                        *)

(* Every component behaves as its own specification says, so that what was *)
(* proved of each holds of all of them side by side.                       *)
THEOREM Composed ==
  MCSpec =>
    /\ Spec /\ Tests!Spec /\ Detail!Spec /\ Pipeline!Spec /\ Frames!Spec /\ Camera!Spec
<1>1. MCInit => /\ Init /\ Tests!Init /\ Detail!Init /\ Pipeline!Init
                /\ Frames!Init /\ Camera!Init
  BY DEF MCInit
<1>2. [MCNext]_mcVars => [Next]_vars
  BY DEF MCNext, mcVars, Of
<1>3. [MCNext]_mcVars => [Tests!Next]_(Tests!vars)
  BY DEF MCNext, mcVars, Of, testVars, Tests!vars
<1>4. [MCNext]_mcVars => [Detail!Next]_(Detail!vars)
  BY DEF MCNext, mcVars, Of, detailVars, Detail!vars, Detail!page
<1>5. [MCNext]_mcVars => [Pipeline!Next]_(Pipeline!vars)
  BY DEF MCNext, mcVars, Of, pipelineVars, Pipeline!vars, Pipeline!loopVars
<1>6. [MCNext]_mcVars => [Camera!Next]_(Camera!vars)
  BY DEF MCNext, mcVars, Of, cameraVars, Camera!vars, Camera!toolboxVars, Camera!engineVars
<1>7. [MCNext]_mcVars => [Frames!Next]_(Frames!vars)
  BY DEF MCNext, mcVars, Of, frameVars, Frames!vars, Frames!mapping, Frames!writerVars,
         Frames!readerVars, Frames!readHistory
<1>. QED
  BY <1>1, <1>2, <1>3, <1>4, <1>5, <1>6, <1>7, PTL
  DEF MCSpec, Spec, Tests!Spec, Detail!Spec, Pipeline!Spec, Frames!Spec, Camera!Spec

(* What the engines and toolboxes of the camera engine hold has its type.  *)
LEMMA CameraStepTyped ==
  ASSUME Camera!TypeOK, [Camera!Next]_(Camera!vars)
  PROVE  Camera!TypeOK'
<1>. USE DEF Camera!TypeOK, Camera!Go, Camera!Move, Camera!toolboxVars, Camera!engineVars,
         Camera!Places, Camera!Ended, Camera!EngineStates
<1>1. ASSUME NEW t \in Toolboxes, Camera!Request(t)
      PROVE  Camera!TypeOK'
  BY <1>1 DEF Camera!Request, Camera!Launch, Camera!TurnPage, Camera!StartBegin,
              Camera!UpdateBegin, Camera!StopBegin, Camera!Exit, Camera!Crash,
              Camera!OpenParams
<1>2. ASSUME NEW t \in Toolboxes, Camera!InCall(t)
      PROVE  Camera!TypeOK'
  <2>1. CASE Camera!StartFill(t) \/ Camera!UpdateFill(t) \/ Camera!StopFill(t)
    BY <2>1 DEF Camera!StartFill, Camera!UpdateFill, Camera!StopFill
  <2>2. CASE Camera!Spawn(t)
    <3>1. /\ at' \in [Toolboxes -> Camera!Places]
          /\ UNCHANGED <<leaving, cameraPage, shown, params>>
      BY <2>2 DEF Camera!Spawn
    <3>. DEFINE Kept == /\ started' \in [Toolboxes -> BOOLEAN]
                        /\ held' \in [Toolboxes -> Engines \cup {Camera!None}]
                        /\ engine' \in [Engines -> Camera!EngineStates]
                        /\ parent' \in [Engines -> Toolboxes \cup {Camera!None}]
                        /\ engineStatus' \in {engineStatus, "absent"}
    <3>2. Kept
      <4>1. CASE UNCHANGED <<started, held, engine, parent>>
        BY <2>2, <4>1 DEF Camera!Spawn
      <4>2. ASSUME NEW e \in Engines,
                   engine' = [engine EXCEPT ![e] = "load"],
                   parent' = [parent EXCEPT ![e] = t],
                   started' = [started EXCEPT ![t] = TRUE],
                   held' = [held EXCEPT ![t] = e],
                   engineStatus' = "absent"
            PROVE  Kept
        BY <4>2
      <4>. QED
        BY <2>2, <4>1, <4>2 DEF Camera!Spawn
    <3>. QED  BY <3>1, <3>2
  <2>3. CASE Camera!StopWait(t)
    BY <2>3 DEF Camera!StopWait, Camera!AfterStop
  <2>. QED
    BY <1>2, <2>1, <2>2, <2>3 DEF Camera!InCall
<1>3. ASSUME NEW t \in Toolboxes, Camera!Poll(t)
      PROVE  Camera!TypeOK'
  BY <1>3 DEF Camera!Poll, Camera!FileSaysRunning
<1>4. ASSUME NEW e \in Engines, Camera!Engine(e)
      PROVE  Camera!TypeOK'
  BY <1>4 DEF Camera!Engine, Camera!EngineLoad, Camera!EngineOpen, Camera!EngineCheck,
              Camera!EngineWork, Camera!EngineWrite
<1>5. ASSUME Camera!Age \/ Camera!Over \/ UNCHANGED Camera!vars
      PROVE  Camera!TypeOK'
  BY <1>5 DEF Camera!Age, Camera!Over, Camera!vars
<1>. QED
  BY <1>1, <1>2, <1>3, <1>4, <1>5 DEF Camera!Next

(* The engines, their toolboxes and their two files keep their types.      *)
THEOREM CameraIsTyped == Camera!Spec => []Camera!TypeOK
<1>1. Camera!Init => Camera!TypeOK
  BY DEF Camera!Init, Camera!TypeOK, Camera!Places, Camera!Ended, Camera!EngineStates
<1>. QED  BY <1>1, CameraStepTyped, PTL DEF Camera!Spec

(* The memory of the frames: what FrameShm_proofs shows, for the variables *)
(* it has here.                                                            *)
FrameProofs == INSTANCE FrameShm_proofs
                 WITH published <- written, shown <- accepted, MaxFrames <- MaxShmFrames

LEMMA FramesBehave == FrameProofs!ConstantsOK /\ (Frames!Spec => FrameProofs!Spec)
<1>1. FrameProofs!ConstantsOK
  BY ConstantsAssumption DEF FrameProofs!ConstantsOK
<1>2. Frames!Init => FrameProofs!Init
  BY DEF Frames!Init, FrameProofs!Init, Frames!Zeroed, FrameProofs!Zeroed, Frames!Chunks,
         FrameProofs!Chunks
<1>3. [Frames!Next]_(Frames!vars) => [FrameProofs!Next]_(FrameProofs!vars)
  BY DEF Frames!mapping, FrameProofs!mapping, Frames!writerVars,
         FrameProofs!writerVars, Frames!readerVars, FrameProofs!readerVars,
         Frames!readHistory, FrameProofs!readHistory, Frames!vars, FrameProofs!vars,
         Frames!Chunks, FrameProofs!Chunks, Frames!Zeroed, FrameProofs!Zeroed,
         Frames!ZeroMapping, FrameProofs!ZeroMapping, Frames!BeginFrame,
         FrameProofs!BeginFrame, Frames!CopyChunk, FrameProofs!CopyChunk,
         Frames!FillHeader, FrameProofs!FillHeader, Frames!PublishGeneration,
         FrameProofs!PublishGeneration, Frames!StopPipeline, FrameProofs!StopPipeline,
         Frames!RestartWriter, FrameProofs!RestartWriter, Frames!BeginRead,
         FrameProofs!BeginRead, Frames!ReadChunk, FrameProofs!ReadChunk,
         Frames!EndRead, FrameProofs!EndRead, Frames!CloseReader,
         FrameProofs!CloseReader, Frames!Writer, FrameProofs!Writer, Frames!Reader,
         FrameProofs!Reader, Frames!Next, FrameProofs!Next
<1>. QED
  BY <1>1, <1>2, <1>3, PTL DEF Frames!Spec, FrameProofs!Spec

(* The memory, its writer and its reader keep their types.                 *)
THEOREM FramesAreTyped == Frames!Spec => []Frames!TypeOK
<1>1. FrameProofs!Spec => []FrameProofs!TypeOK
  BY FramesBehave, FrameProofs!TypeCorrect
<1>2. FrameProofs!TypeOK => Frames!TypeOK
  BY DEF FrameProofs!TypeOK, Frames!TypeOK, FrameProofs!Chunks, Frames!Chunks
<1>. QED  BY <1>1, <1>2, FramesBehave, PTL

(* What the reader accepts is what it asked for, and newer than the last.  *)
THEOREM FramesAreSound ==
  Frames!Spec => Frames!AcceptedFrameAndNextOnly /\ Frames!NoFrameTwice
<1>1. FrameProofs!Spec => FrameProofs!AcceptedFrameAndNextOnly
  BY FramesBehave, FrameProofs!AcceptedFrame
<1>2. FrameProofs!Spec => FrameProofs!NoFrameTwice
  BY FramesBehave, FrameProofs!FramesAdvance
<1>3. FrameProofs!AcceptedFrameAndNextOnly => Frames!AcceptedFrameAndNextOnly
  BY DEF FrameProofs!AcceptedFrameAndNextOnly, Frames!AcceptedFrameAndNextOnly,
         FrameProofs!Accepts, Frames!Accepts,
         FrameProofs!Chunks, Frames!Chunks, FrameProofs!vars, Frames!vars,
         FrameProofs!mapping, Frames!mapping, FrameProofs!writerVars,
         Frames!writerVars, FrameProofs!readerVars, Frames!readerVars,
         FrameProofs!readHistory, Frames!readHistory
<1>4. FrameProofs!NoFrameTwice => Frames!NoFrameTwice
  BY DEF FrameProofs!NoFrameTwice, Frames!NoFrameTwice,
         FrameProofs!Accepts, Frames!Accepts,
         FrameProofs!vars, Frames!vars, FrameProofs!mapping, Frames!mapping,
         FrameProofs!writerVars, Frames!writerVars, FrameProofs!readerVars,
         Frames!readerVars, FrameProofs!readHistory, Frames!readHistory
<1>. QED  BY <1>1, <1>2, <1>3, <1>4, FramesBehave

FocusOK == focus \in Components

(* Every component keeps its types.                                        *)
THEOREM TypesAlways == MCSpec => []TypesOK
<1>1. MCInit => FocusOK
  BY DEF MCInit, FocusOK
<1>2. FocusOK /\ [MCNext]_mcVars => FocusOK'
  BY DEF MCNext, mcVars, Of, FocusOK
<1>3. MCSpec => []FocusOK
  BY <1>1, <1>2, PTL DEF MCSpec
<1>. QED
  BY <1>3, Composed, RunnerIsSound, TestsAreSound, DetailIsTyped, PipelineIsSound,
     FramesAreTyped, CameraIsTyped, PTL
  DEF TypesOK, FocusOK

(* With every operation of every page, for any number of runners: the      *)
(* result is published before the flag is cleared.                         *)
THEOREM ResultBeforeFreeAlways == MCSpec => []ResultBeforeFree
BY Composed, RunnerIsSound, PTL

(* No thread uses a runner that was destroyed.                             *)
THEOREM NoUseAfterDestroyAlways == MCSpec => []NoUseAfterDestroy
BY Composed, RunnerIsSound, PTL

(* What the network page and the camera page read is sound although it is  *)
(* changed after it was published, for any count of echoes, any latencies  *)
(* and any number of frames.                                               *)
THEOREM PublishedIsSoundAlways == MCSpec => []PublishedIsSound
BY Composed, TestsAreSound, PipelineIsSound, PTL DEF PublishedIsSound

(* The pipeline can always be stopped, and releases what it opened.        *)
THEOREM StopReleasesAllAlways == MCSpec => []StopReleasesAll
BY Composed, PipelineIsSound, PTL DEF StopReleasesAll

(* What the virtual camera accepts is the frame it asked for, torn at most *)
(* by the next one, and never one it had; for any number of pieces,        *)
(* frames and restarts.                                                    *)
THEOREM AcceptedFrameAlways == MCSpec => AcceptedFrameAndNextOnly
BY Composed, FramesAreSound DEF AcceptedFrameAndNextOnly

THEOREM NoFrameTwiceAlways == MCSpec => NoFrameTwice
BY Composed, FramesAreSound DEF NoFrameTwice
==============================================================================
