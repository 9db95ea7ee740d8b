------------------------ MODULE VideoTransformPipeline ------------------------
(***************************************************************************)
(* The life of VideoTransformPipeline: start, updateParams and stop, called *)
(* by one owner (wWinMain's --test-obs-output, and the destructor), against *)
(* the thread that runs loop().                                            *)
(*                                                                         *)
(* loop() publishes a status object and goes on changing it in place, so a *)
(* reader of status() sees every assignment; later it publishes copies.    *)
(* It may end by itself (no camera, no OBS queue, a failed read, the end   *)
(* of the stream); m_impl->running then stays set, so that the resources   *)
(* the loop leaves behind are still released by stop().                    *)
(*                                                                         *)
(* Frames are FrameShm's and ObsQueue's concern; here it only matters that *)
(* the memory is mapped.  What the camera and OBS answer is open.          *)
(***************************************************************************)
EXTENDS Integers

CONSTANT MaxFrames  (* bound: frames counted in framesSent *)

Targets == {"OBS", "HTB"}   (* outputTarget 0 and 1 *)

VARIABLES
  running,    (* m_impl->running                                           *)
  owner,      (* outside, or in stop(): join, close                        *)
  thread,     (* m_impl->thread is joinable                                *)
  lp,         (* where loop() is                                           *)
  target,     (* m_params, and the target loop() loaded                    *)
  loaded,
  obs,        (* obsCam is open                                            *)
  shm,        (* shmMap and shmView are set                                *)
  status,     (* the object loop() changes in place                        *)
  published,  (* m_status: nothing, that object, or a copy                 *)
  copy,       (* the latest copy                                           *)
  framesSent

loopVars == <<lp, loaded, obs, shm, status, published, copy, framesSent>>
vars == <<running, owner, thread, target, loopVars>>

LoopStates == {"absent", "begin", "open", "target", "giveup", "frames", "final", "ended"}
Status == [running : BOOLEAN, capturing : BOOLEAN, frames : 0 .. MaxFrames]
NoStatus == [running |-> FALSE, capturing |-> FALSE, frames |-> 0]

(* What status() shows.                                                    *)
Shown == IF published = "object" THEN status
         ELSE IF published = "copy" THEN copy ELSE NoStatus

Init ==
  /\ running = FALSE /\ owner = "outside" /\ thread = FALSE /\ lp = "absent"
  /\ target = "OBS" /\ loaded = "OBS" /\ obs = FALSE /\ shm = FALSE
  /\ status = NoStatus /\ published = "nothing" /\ copy = NoStatus
  /\ framesSent = 0

-----------------------------------------------------------------------------
(* The owner.                                                              *)

Start(t) ==
  /\ owner = "outside"
  /\ running' = TRUE
  /\ IF running
     THEN UNCHANGED <<thread, lp, target>>
     ELSE thread' = TRUE /\ lp' = "begin" /\ target' = t
  /\ UNCHANGED <<owner, loaded, obs, shm, status, published, copy, framesSent>>

UpdateParams(t) ==
  /\ owner = "outside"
  /\ target' = t
  /\ UNCHANGED <<running, owner, thread, loopVars>>

(* stop(), up to the exchange.                                             *)
StopClear ==
  /\ owner = "outside"
  /\ owner' = IF running THEN "join" ELSE "outside"
  /\ running' = FALSE
  /\ UNCHANGED <<thread, target, loopVars>>

StopJoin ==
  /\ owner = "join"
  /\ thread => lp = "ended"
  /\ owner' = "close"
  /\ thread' = FALSE
  /\ lp' = "absent"
  /\ UNCHANGED <<running, target, loaded, obs, shm, status, published, copy, framesSent>>

(* Mutant of StopClose: the queue is left to the next open().              *)
StopLeavesQueue ==
  /\ owner = "close"
  /\ owner' = "outside"
  /\ shm' = FALSE
  /\ UNCHANGED <<running, thread, target, lp, loaded, obs, status, published,
                 copy, framesSent>>

(* obsCam.close() and the unmapping of the shared memory.                  *)
StopClose ==
  /\ owner = "close"
  /\ owner' = "outside"
  /\ obs' = FALSE /\ shm' = FALSE
  /\ UNCHANGED <<running, thread, target, lp, loaded, status, published, copy,
                 framesSent>>

-----------------------------------------------------------------------------
(* loop().                                                                 *)

LoopBegin ==
  /\ lp = "begin"
  /\ status' = [NoStatus EXCEPT !.running = TRUE]
  /\ published' = "object"
  /\ loaded' = target
  /\ framesSent' = 0
  /\ lp' = "open"
  /\ UNCHANGED <<running, owner, thread, target, obs, shm, copy>>

(* No camera, a bad index, no reader: the loop returns.                    *)
OpenFails ==
  /\ lp = "open"
  /\ status' = [status EXCEPT !.running = FALSE]
  /\ lp' = "ended"
  /\ UNCHANGED <<running, owner, thread, target, loaded, obs, shm, published, copy,
                 framesSent>>

OpenSucceeds ==
  /\ lp = "open"
  /\ status' = [status EXCEPT !.capturing = TRUE]
  /\ lp' = "target"
  /\ UNCHANGED <<running, owner, thread, target, loaded, obs, shm, published, copy,
                 framesSent>>

(* Mutant of ChooseTarget: running is cleared first.                       *)
ChooseTargetSwapped ==
  /\ lp = "target"
  /\ \/ obs' = (loaded = "OBS") /\ lp' = "frames" /\ UNCHANGED status
     \/ /\ loaded = "OBS"
        /\ lp' = "giveup" /\ obs' = FALSE
        /\ status' = [status EXCEPT !.running = FALSE]
  /\ UNCHANGED <<running, owner, thread, target, loaded, shm, published, copy,
                 framesSent>>

(* Target 0 opens the OBS queue, the other needs nothing more.             *)
ChooseTarget ==
  /\ lp = "target"
  /\ \/ obs' = (loaded = "OBS") /\ lp' = "frames" /\ UNCHANGED status
     \/ /\ loaded = "OBS"
        /\ lp' = "giveup" /\ obs' = FALSE
        /\ status' = [status EXCEPT !.capturing = FALSE]
  /\ UNCHANGED <<running, owner, thread, target, loaded, shm, published, copy,
                 framesSent>>

(* obsCam.open() failed: capturing has been cleared, running is next.      *)
GiveUp ==
  /\ lp = "giveup"
  /\ status' = [status EXCEPT !.running = FALSE]
  /\ lp' = "ended"
  /\ UNCHANGED <<running, owner, thread, target, loaded, obs, shm, published, copy,
                 framesSent>>

(* One turn of the loop with a sample: the frame goes to the OBS queue if  *)
(* it is open, and to the shared memory in any case; from the second       *)
(* second on a copy of the status is published with it.                    *)
Frame ==
  /\ lp = "frames" /\ running
  /\ shm' = TRUE
  /\ framesSent' = IF framesSent < MaxFrames THEN framesSent + 1 ELSE framesSent
  /\ \/ UNCHANGED <<published, copy>>
     \/ published' = "copy" /\ copy' = [status EXCEPT !.frames = framesSent']
  /\ UNCHANGED <<running, owner, thread, target, lp, loaded, obs, status>>

(* The flag was cleared, or ReadSample failed or reached the end.          *)
LeaveFrames ==
  /\ lp = "frames"
  /\ lp' = "final"
  /\ UNCHANGED <<running, owner, thread, target, loaded, obs, shm, status, published,
                 copy, framesSent>>

Final ==
  /\ lp = "final"
  /\ copy' = [running |-> FALSE, capturing |-> FALSE, frames |-> framesSent]
  /\ published' = "copy"
  /\ lp' = "ended"
  /\ UNCHANGED <<running, owner, thread, target, loaded, obs, shm, status, framesSent>>

Owner == \/ \E t \in Targets : Start(t) \/ UpdateParams(t)
         \/ StopClear \/ StopJoin \/ StopClose

Loop == LoopBegin \/ OpenFails \/ OpenSucceeds \/ ChooseTarget \/ GiveUp
        \/ Frame \/ (LeaveFrames /\ ~running) \/ Final

ReadFails == LeaveFrames /\ running

Next == Owner \/ Loop \/ ReadFails

Spec == Init /\ [][Next]_vars

(* The thread runs, and a camera that was opened answers ReadSample, but   *)
(* need not fail; the owner finishes the stop() it began.                  *)
Fairness == WF_vars(Loop) /\ WF_vars(StopJoin) /\ WF_vars(StopClose)

FairSpec == Spec /\ Fairness

-----------------------------------------------------------------------------
(* Properties.                                                             *)

(* Types.                                                                  *)
TypeOK ==
  /\ running \in BOOLEAN /\ owner \in {"outside", "join", "close"}
  /\ thread \in BOOLEAN /\ lp \in LoopStates
  /\ target \in Targets /\ loaded \in Targets
  /\ obs \in BOOLEAN /\ shm \in BOOLEAN
  /\ status \in Status /\ published \in {"nothing", "object", "copy"} /\ copy \in Status
  /\ framesSent \in 0 .. MaxFrames

(* start() never assigns over a joinable thread, which would end the       *)
(* program: while the flag is clear outside stop(), no thread is left.     *)
NoThreadOverwritten == ~running /\ owner = "outside" => ~thread /\ lp = "absent"

(* Nothing leaks: what the loop opened is there only while a stop() would  *)
(* still release it, however the loop ended.                               *)
ResourcesReleasable == obs \/ shm => running \/ owner # "outside"

(* At no moment of its changes in place does the status claim to capture   *)
(* without running.                                                        *)
CapturingImpliesRunning == Shown.capturing => Shown.running

(* Once the loop has ended, by itself or stopped, the status no longer     *)
(* claims to run, and counts the frames of that loop.                      *)
EndedStatus ==
  lp = "ended" => ~Shown.running /\ Shown.frames = framesSent

(* stop() returns.                                                         *)
StopReturns == owner # "outside" ~> owner = "outside"
==============================================================================
