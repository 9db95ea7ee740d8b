-------------------------- MODULE VirtualCameraSource --------------------------
(***************************************************************************)
(* The media source of virtualcamera.dll: VirtualCameraSource and its      *)
(* stream.  A client controls it from one thread and asks for samples from *)
(* others; all but the first look of RequestSample happens under m_mutex.  *)
(*                                                                         *)
(* A sample carries the number of its frame, from which its time is        *)
(* computed.  Events are queued in order, and a queue that was shut down   *)
(* takes no more.  The source never announces its stream, so a client has  *)
(* it only from elsewhere; what it could then see is modelled.  Whether a  *)
(* frame comes from the shared memory or is the test pattern is FrameShm's *)
(* concern.  The buffer and the sample may fail to be allocated; an event  *)
(* itself is assumed not to.                                               *)
(***************************************************************************)
EXTENDS Naturals, Sequences, FiniteSets, SequencesExt

CONSTANTS Requesters, (* the threads that ask for samples                  *)
          MaxEvents   (* bound: how many events the stream queues          *)

VARIABLES
  state,        (* m_state                                                 *)
  frameCounter, (* m_frameCounter                                          *)
  events,       (* what the stream's queue was given                       *)
  closed,       (* the queues have been shut down                          *)
  request,      (* where each RequestSample is                             *)
  awake         (* history: was it started, or prestarted, since its stop  *)

vars == <<state, frameCounter, events, closed, request, awake>>

Init ==
  /\ state = "stopped" /\ frameCounter = 0
  /\ events = <<>> /\ closed = FALSE
  /\ request = [r \in Requesters |-> "outside"]
  /\ awake = FALSE

Event(kind, number) == [kind |-> kind, number |-> number]
Queue(event) == events' = IF closed THEN events ELSE Append(events, event)
Room == Len(events) < MaxEvents

-----------------------------------------------------------------------------
(* The client's control of the source; each call holds m_mutex.            *)

Start ==
  /\ state # "shutdown" /\ Room
  /\ state' = "started" /\ awake' = TRUE
  /\ frameCounter' = 0
  /\ Queue(Event("started", 0))
  /\ UNCHANGED <<closed, request>>

(* Started without an event and without counting anew.                     *)
Prestart ==
  /\ state = "stopped"
  /\ state' = "started" /\ awake' = TRUE
  /\ UNCHANGED <<frameCounter, events, closed, request>>

Stop ==
  /\ state # "shutdown" /\ Room
  /\ state' = "stopped" /\ awake' = FALSE
  /\ Queue(Event("stopped", 0))
  /\ UNCHANGED <<frameCounter, closed, request>>

Pause ==
  /\ state = "started"
  /\ state' = "paused"
  /\ UNCHANGED <<frameCounter, events, closed, request, awake>>

Shutdown ==
  /\ state # "shutdown"
  /\ state' = "shutdown" /\ awake' = FALSE
  /\ closed' = TRUE
  /\ UNCHANGED <<frameCounter, events, request>>

-----------------------------------------------------------------------------
(* RequestSample.                                                          *)

(* The look at the state without the lock, then the sleep of a frame.      *)
Ask(r) ==
  /\ request[r] = "outside" /\ state = "started"
  /\ request' = [request EXCEPT ![r] = "sleep"]
  /\ UNCHANGED <<state, frameCounter, events, closed, awake>>

Return(r) == request' = [request EXCEPT ![r] = "outside"]

(* Mutant of Generate: the state is not looked at again.                   *)
GenerateUnchecked(r) ==
  /\ request[r] = "sleep" /\ Room
  /\ Return(r)
  /\ Queue(Event("sample", frameCounter))
  /\ frameCounter' = frameCounter + 1
  /\ UNCHANGED <<state, closed, awake>>

(* generateSample, under the lock.                                         *)
Generate(r) ==
  /\ request[r] = "sleep" /\ Room
  /\ Return(r)
  /\ state = "started"
  /\ Queue(Event("sample", frameCounter))
  /\ frameCounter' = frameCounter + 1
  /\ UNCHANGED <<state, closed, awake>>

(* It was stopped during the sleep, or an allocation failed.               *)
GenerateFails(r) ==
  /\ request[r] = "sleep"
  /\ Return(r)
  /\ UNCHANGED <<state, frameCounter, events, closed, awake>>

Control == Start \/ Prestart \/ Stop \/ Pause \/ Shutdown
Sample(r) == Ask(r) \/ Generate(r) \/ GenerateFails(r)
Over == state = "shutdown" /\ UNCHANGED vars

Next == Control \/ (\E r \in Requesters : Sample(r)) \/ Over
Spec == Init /\ [][Next]_vars

-----------------------------------------------------------------------------
(* Properties.                                                             *)

Positions == DOMAIN events
Samples == {i \in Positions : events[i].kind = "sample"}
Starts == {i \in Positions : events[i].kind = "started"}

(* Types; in a source that was shut down the queues are closed.            *)
TypeOK ==
  /\ state \in {"stopped", "started", "paused", "shutdown"}
  /\ frameCounter \in 0 .. MaxEvents
  /\ events \in Seq([kind : {"started", "stopped", "sample"}, number : 0 .. MaxEvents])
  /\ Len(events) <= MaxEvents
  /\ closed = (state = "shutdown") /\ awake \in BOOLEAN
  /\ request \in [Requesters -> {"outside", "sleep"}]

(* The times of the samples do not jump: however requests overlap with     *)
(* stops, pauses and starts, each sample is numbered by how many came      *)
(* since the stream said it had started.                                   *)
NumberedSinceStart ==
  \A i \in Samples :
    events[i].number =
      Cardinality({j \in Samples : j < i /\ \A k \in Starts : k < j \/ k > i})

(* A request that slept while the source was stopped or paused queues no   *)
(* sample, unless the source was started again meanwhile.                  *)
NoSampleWhileStopped ==
  [][Len(events') > Len(events) /\ Last(events').kind = "sample"
       => awake /\ state = "started" /\ ~closed]_vars
==============================================================================
