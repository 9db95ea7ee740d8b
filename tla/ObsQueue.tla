------------------------------- MODULE ObsQueue -------------------------------
(***************************************************************************)
(* ObsVirtualCam: the queue of three frames through which toolboxes feed   *)
(* the OBS virtual camera, a program of its own.                           *)
(*                                                                         *)
(* open looks whether the queue exists, creates it and writes its header,  *)
(* one after the other and without a lock.  The queue is a named mapping:  *)
(* it exists while a process has it, and creating it when it exists        *)
(* attaches to it, which the code does not notice.  So when two open it at *)
(* once, the second may write the header of a queue in use.                *)
(*                                                                         *)
(* writeFrame increments write_idx, copies the frame into slot inc % 3,    *)
(* and only then stores read_idx and the state.  The camera (external      *)
(* code, modelled from the layout the toolbox fills) loads read_idx while  *)
(* the state is ready and copies that slot, without any lock.              *)
(*                                                                         *)
(* OBS, which feeds the same queue, is one more writer as far as it works  *)
(* like this code.  Indices are naturals: LONG write_idx turns negative    *)
(* after 2^31 frames, more than a year of output.                          *)
(***************************************************************************)
EXTENDS Integers

CONSTANTS Writers,   (* the programs that feed the camera                  *)
          NumChunks, (* how many pieces a frame is copied in               *)
          MaxFrames  (* bound: write_idx of one session                    *)

ASSUME NumChunksAssumption == NumChunks \in Nat \ {0}
ASSUME MaxFramesAssumption == MaxFrames \in Nat

VARIABLES
  (* the queue *)
  state,       (* header->state: 0, or one of the three below              *)
  write_idx, read_idx,
  frame,       (* what each slot holds: chunk by chunk, a frame's number   *)
  session,     (* which creation of the queue this is (labels 1 and 2)     *)
  shared,      (* a writer attached to it that had looked before it was    *)
               (* there; CreateFileMapping says so, open does not ask      *)
  (* the writers *)
  writer,      (* closed; checked, or overtaken by another's creation;     *)
               (* created; open; or copying a frame                        *)
  inc,         (* writeFrame: the index it took                            *)
  writeNext,   (* the chunk it copies next                                 *)
  (* the camera *)
  maps,        (* the camera maps the queue                                *)
  reader,      (* idle, or copying a slot                                  *)
  readNext,    (* the chunk it copies next                                 *)
  idx,         (* the read_idx it loaded                                   *)
  copy         (* its copy                                                 *)

queue == <<state, write_idx, read_idx, frame, session, shared>>
writers == <<writer, inc, writeNext>>
camera == <<maps, reader, readNext, idx, copy>>
vars == <<queue, writers, camera>>

kStateStarting == 1
kStateReady    == 2
kStateStopping == 3

Slots  == 0 .. 2
Chunks == 1 .. NumChunks

Slot(i) == i % 3
Blank == [c \in Chunks |-> 0]

Init ==
  /\ state = 0 /\ write_idx = 0 /\ read_idx = 0
  /\ frame = [s \in Slots |-> Blank] /\ session = 1 /\ shared = FALSE
  /\ writer = [w \in Writers |-> "closed"]
  /\ inc = [w \in Writers |-> 0] /\ writeNext = [w \in Writers |-> 1]
  /\ maps = FALSE /\ reader = "idle" /\ readNext = 1 /\ idx = 0 /\ copy = Blank

-----------------------------------------------------------------------------
(* A writer: open, writeFrame, close, and the end of its process.          *)

Holders == {w \in Writers : writer[w] \in {"created", "open", "copy"}}
Exists == maps \/ Holders # {}

(* Mutant of Check: a queue that exists is taken over.                     *)
CheckNothing(w) ==
  /\ writer[w] = "closed"
  /\ writer' = [writer EXCEPT ![w] = "checked"]
  /\ UNCHANGED <<queue, inc, writeNext, camera>>

(* open finds no queue; otherwise it returns false and changes nothing.    *)
Check(w) ==
  /\ writer[w] = "closed"
  /\ ~Exists
  /\ writer' = [writer EXCEPT ![w] = "checked"]
  /\ UNCHANGED <<queue, inc, writeNext, camera>>

(* CreateFileMapping and MapViewOfFile: a queue that exists is attached to *)
(* as it is, a new one is zeroed.  The other checks are of no use then.    *)
Create(w) ==
  /\ writer[w] \in {"checked", "overtaken"}
  /\ writer' = [v \in Writers |-> IF v = w THEN "created"
                                  ELSE IF writer[v] = "checked" THEN "overtaken"
                                  ELSE writer[v]]
  /\ IF Exists
     THEN /\ shared' = (shared \/ writer[w] = "overtaken")
          /\ UNCHANGED <<state, write_idx, read_idx, frame, session>>
     ELSE /\ state' = 0 /\ write_idx' = 0 /\ read_idx' = 0
          /\ frame' = [s \in Slots |-> Blank]
          /\ session' = 3 - session /\ shared' = FALSE
  /\ UNCHANGED <<inc, writeNext, camera>>

(* The header is zeroed and filled, whatever it held.                      *)
Initialise(w) ==
  /\ writer[w] = "created"
  /\ writer' = [writer EXCEPT ![w] = "open"]
  /\ state' = kStateStarting
  /\ write_idx' = 0 /\ read_idx' = 0
  /\ UNCHANGED <<frame, session, shared, inc, writeNext, camera>>

(* writeFrame takes the next index and starts to copy.                     *)
BeginFrame(w) ==
  /\ writer[w] = "open"
  /\ write_idx < MaxFrames
  /\ write_idx' = write_idx + 1
  /\ writer' = [writer EXCEPT ![w] = "copy"]
  /\ inc' = [inc EXCEPT ![w] = write_idx + 1]
  /\ writeNext' = [writeNext EXCEPT ![w] = 1]
  /\ UNCHANGED <<state, read_idx, frame, session, shared, camera>>

(* Mutant of CopyChunk: one chunk too many.                                *)
CopyChunkOffByOne(w) ==
  /\ writer[w] = "copy"
  /\ writeNext[w] <= NumChunks + 1
  /\ frame' = [frame EXCEPT ![Slot(inc[w])][writeNext[w]] = inc[w]]
  /\ writeNext' = [writeNext EXCEPT ![w] = @ + 1]
  /\ UNCHANGED <<state, write_idx, read_idx, session, shared, writer, inc, camera>>

(* The timestamp and the two memcpy, piece by piece.                       *)
CopyChunk(w) ==
  /\ writer[w] = "copy"
  /\ writeNext[w] <= NumChunks
  /\ frame' = [frame EXCEPT ![Slot(inc[w])][writeNext[w]] = inc[w]]
  /\ writeNext' = [writeNext EXCEPT ![w] = @ + 1]
  /\ UNCHANGED <<state, write_idx, read_idx, session, shared, writer, inc, camera>>

(* The locals of a writeFrame that is over.                                *)
Forgets(w) ==
  /\ inc' = [inc EXCEPT ![w] = 0]
  /\ writeNext' = [writeNext EXCEPT ![w] = 1]

(* Mutant of PublishFrame: read_idx and the state before the copy.         *)
PublishFrameFirst(w) ==
  /\ writer[w] = "copy"
  /\ writeNext[w] = 1
  /\ read_idx' = inc[w]
  /\ state' = kStateReady
  /\ UNCHANGED <<write_idx, frame, session, shared, writers, camera>>

(* read_idx, then the state; the two stores are one step, since a camera   *)
(* that reads between them still sees the state it saw before.             *)
PublishFrame(w) ==
  /\ writer[w] = "copy"
  /\ writeNext[w] > NumChunks
  /\ writer' = [writer EXCEPT ![w] = "open"]
  /\ read_idx' = inc[w]
  /\ state' = kStateReady
  /\ Forgets(w)
  /\ UNCHANGED <<write_idx, frame, session, shared, camera>>

(* close, called between two frames.                                       *)
Close(w) ==
  /\ writer[w] = "open"
  /\ writer' = [writer EXCEPT ![w] = "closed"]
  /\ state' = kStateStopping
  /\ UNCHANGED <<write_idx, read_idx, frame, session, shared, inc, writeNext, camera>>

(* The process ends without close, in the middle of a frame perhaps; or    *)
(* open gives up, because creating or mapping failed.                      *)
Crash(w) ==
  /\ writer[w] # "closed"
  /\ writer' = [writer EXCEPT ![w] = "closed"]
  /\ Forgets(w)
  /\ UNCHANGED <<queue, camera>>

-----------------------------------------------------------------------------
(* The camera.                                                             *)

CameraMaps ==
  /\ ~maps
  /\ Exists
  /\ maps' = TRUE
  /\ UNCHANGED <<queue, writers, reader, readNext, idx, copy>>

BeginRead ==
  /\ maps /\ reader = "idle"
  /\ state = kStateReady
  /\ reader' = "copy"
  /\ readNext' = 1
  /\ idx' = read_idx
  /\ UNCHANGED <<queue, writers, maps, copy>>

ReadChunk ==
  /\ reader = "copy"
  /\ readNext <= NumChunks
  /\ copy' = [copy EXCEPT ![readNext] = frame[Slot(idx)][readNext]]
  /\ readNext' = readNext + 1
  /\ UNCHANGED <<queue, writers, maps, reader, idx>>

(* What is done with the copy is not of the queue any more.                *)
EndRead ==
  /\ reader = "copy"
  /\ readNext > NumChunks
  /\ reader' = "idle"
  /\ readNext' = 1 /\ idx' = 0 /\ copy' = Blank
  /\ UNCHANGED <<queue, writers, maps>>

CameraUnmaps ==
  /\ maps /\ reader = "idle"
  /\ maps' = FALSE
  /\ UNCHANGED <<queue, writers, reader, readNext, idx, copy>>

Writes(w) ==
  \/ Check(w) \/ Create(w) \/ Initialise(w)
  \/ BeginFrame(w) \/ CopyChunk(w) \/ PublishFrame(w) \/ Close(w) \/ Crash(w)

Next ==
  \/ \E w \in Writers : Writes(w)
  \/ CameraMaps \/ BeginRead \/ ReadChunk \/ EndRead \/ CameraUnmaps

Spec == Init /\ [][Next]_vars

-----------------------------------------------------------------------------
(* Properties.                                                             *)

(* Types.                                                                  *)
TypeOK ==
  /\ state \in 0 .. 3 /\ write_idx \in Nat /\ read_idx \in Nat
  /\ frame \in [Slots -> [Chunks -> Nat]] /\ session \in {1, 2} /\ shared \in BOOLEAN
  /\ writer \in [Writers -> {"closed", "checked", "overtaken", "created", "open", "copy"}]
  /\ inc \in [Writers -> Nat] /\ writeNext \in [Writers -> 1 .. NumChunks + 1]
  /\ maps \in BOOLEAN /\ reader \in {"idle", "copy"}
  /\ readNext \in 1 .. NumChunks + 1
  /\ idx \in Nat /\ copy \in [Chunks -> Nat]

(* A queue that says it is ready holds, at read_idx, that whole frame, and *)
(* keeps holding it through the next two writes, a close and a crash;      *)
(* unless a second writer came in unnoticed.                               *)
ReadyFrameIsWhole ==
  state = kStateReady /\ ~shared =>
    /\ read_idx > 0
    /\ \A c \in Chunks : frame[Slot(read_idx)][c] = read_idx

(* What the camera has copied so far is the frame it asked for, unless     *)
(* three later frames were begun meanwhile, as the third reuses the slot,  *)
(* or a second writer came in unnoticed.                                   *)
CopyIsWhole ==
  reader = "copy" /\ ~shared /\ write_idx <= idx + 2
    => \A c \in Chunks : c < readNext => copy[c] = idx

(* A queue that the camera maps is reset under it by one way only: by a    *)
(* writer that had looked before the queue was there.  Before such a one   *)
(* came in, its indices only grow, it is in one session from the first     *)
(* look to the last, and that of a writer that is still opening it, whom   *)
(* the camera may overtake, is not filled twice.                           *)
ResetOnlyByLateOpen ==
  [][ maps /\ ~shared
        => /\ session' = session
           /\ write_idx <= write_idx' /\ read_idx <= read_idx'
           /\ (state = kStateReady => state' # kStateStarting) ]_vars

(* open refuses a queue that is in use: while the camera copies a frame of *)
(* it, its indices do not fall behind that frame.  Not so when two writers *)
(* open it at once (a violation).                                          *)
InUseIsRefused == reader = "copy" => idx <= write_idx
==============================================================================
