------------------------------- MODULE FrameShm -------------------------------
(***************************************************************************)
(* The shared memory through which the toolbox's VideoTransformPipeline    *)
(* (writeSharedMemory) hands frames to the virtual camera's source, in     *)
(* another process (ShmFrameReader::read).                                 *)
(*                                                                         *)
(* There is no lock across the processes.  The writer copies the frame,    *)
(* fills the header and stores the next generation last; the reader loads  *)
(* the generation, copies the frame and accepts the copy only when the     *)
(* generation has not changed.  The writer does not mark the beginning of  *)
(* a frame, so the reader cannot see that the next frame is being copied.  *)
(*                                                                         *)
(* A frame is a function from Chunks, the pieces memcpy moves at once.     *)
(* Data is labelled by its place in the order of publication: the frame    *)
(* being written is published + 1, zeroed memory is 0.  The mapping is a   *)
(* kernel object: it lives while the writer or the reader holds it, and is *)
(* zeroed when it is created anew.  Generations are naturals: a wrap takes *)
(* 2^32 frames, more than four years of output.                            *)
(***************************************************************************)
EXTENDS Integers

CONSTANTS NumChunks,   (* how many pieces a frame is copied in             *)
          MaxFrames,   (* bound: how many frames are published             *)
          MaxRestarts  (* bound: how often the toolbox ends and restarts   *)

VARIABLES
  (* the mapping *)
  data,           (* the chunks after the header                           *)
  valid,          (* magic and sourceActive have been stored               *)
  shmGeneration,  (* header->generation                                    *)
  (* the writer's process *)
  writerMaps,     (* m_impl->shmView is set                                *)
  writer,         (* where writeSharedMemory is                            *)
  writeNext,      (* the chunk it copies next                              *)
  generation,     (* m_impl->generation                                    *)
  restarts,       (* how often the process has restarted                   *)
  (* the reader's process *)
  readerMaps,     (* m_view is set                                         *)
  reader,         (* where read() is                                       *)
  readNext,       (* the chunk it copies next                              *)
  gen,            (* the generation it loaded                              *)
  lastGeneration, (* m_lastGeneration                                      *)
  buffer,         (* dst                                                   *)
  (* history, which no step depends on *)
  published,      (* how many frames have been published                   *)
  epochStart,     (* published when the writer's process started           *)
  readFrame,      (* published when the reader loaded the generation       *)
  settled,        (* the loaded generation is the present process's own    *)
  shown           (* the latest frame accepted by this reader              *)

mapping == <<data, valid, shmGeneration>>
writerVars == <<writerMaps, writer, writeNext, generation, restarts>>
readerVars == <<readerMaps, reader, readNext, gen, lastGeneration, buffer>>
readHistory == <<readFrame, settled, shown>>
vars == <<mapping, writerVars, readerVars, published, epochStart, readHistory>>

Chunks == 1 .. NumChunks
Zeroed == [c \in Chunks |-> 0]

Init ==
  /\ data = Zeroed /\ valid = FALSE /\ shmGeneration = 0
  /\ writerMaps = FALSE /\ writer = "idle" /\ writeNext = 1
  /\ generation = 0 /\ restarts = 0
  /\ readerMaps = FALSE /\ reader = "idle" /\ readNext = 1
  /\ gen = 0 /\ lastGeneration = 0 /\ buffer = Zeroed
  /\ published = 0 /\ epochStart = 0
  /\ readFrame = 0 /\ settled = FALSE /\ shown = 0

(* The last handle is closed: what is mapped next is new and zeroed.       *)
ZeroMapping ==
  /\ data' = Zeroed
  /\ valid' = FALSE
  /\ shmGeneration' = 0

-----------------------------------------------------------------------------
(* The writer: writeSharedMemory, called by the pipeline's loop() alone.   *)

(* Mapping the memory on the first call, then the start of memcpy.  When   *)
(* the memory cannot be mapped the frame is dropped: a stuttering step.    *)
BeginFrame ==
  /\ writer = "idle"
  /\ published < MaxFrames
  /\ writerMaps' = TRUE
  /\ writer' = "copy"
  /\ writeNext' = 1
  /\ UNCHANGED <<mapping, generation, restarts, readerVars, published,
                 epochStart, readHistory>>

(* memcpy moves the next piece.                                            *)
CopyChunk ==
  /\ writer = "copy"
  /\ data' = [data EXCEPT ![writeNext] = published + 1]
  /\ writeNext' = writeNext + 1
  /\ writer' = IF writeNext = NumChunks THEN "header" ELSE "copy"
  /\ UNCHANGED <<valid, shmGeneration, writerMaps, generation, restarts,
                 readerVars, published, epochStart, readHistory>>

(* magic, the sizes, frameIndex, timestamp and sourceActive.               *)
FillHeader ==
  /\ writer = "header"
  /\ valid' = TRUE
  /\ writer' = "publish"
  /\ UNCHANGED <<data, shmGeneration, writerMaps, writeNext, generation,
                 restarts, readerVars, published, epochStart, readHistory>>

(* The release fence and header->generation = ++m_impl->generation.        *)
PublishGeneration ==
  /\ writer = "publish"
  /\ generation' = generation + 1
  /\ shmGeneration' = generation + 1
  /\ published' = published + 1
  /\ writer' = "idle"
  /\ UNCHANGED <<data, valid, writerMaps, writeNext, restarts, readerVars,
                 epochStart, readHistory>>

(* VideoTransformPipeline::stop(), its loop joined: the view is unmapped,  *)
(* m_impl->generation stays.                                               *)
StopPipeline ==
  /\ writer = "idle"
  /\ writerMaps
  /\ writerMaps' = FALSE
  /\ IF readerMaps THEN UNCHANGED mapping ELSE ZeroMapping
  /\ UNCHANGED <<writer, writeNext, generation, restarts, readerVars,
                 published, epochStart, readHistory>>

(* The toolbox's process ends, in the middle of a frame perhaps, and a new *)
(* one starts with m_impl->generation = 0.                                 *)
RestartWriter ==
  /\ restarts < MaxRestarts
  /\ restarts' = restarts + 1
  /\ writerMaps' = FALSE
  /\ writer' = "idle"
  /\ writeNext' = 1
  /\ generation' = 0
  /\ epochStart' = published
  /\ settled' = FALSE
  /\ IF readerMaps THEN UNCHANGED mapping ELSE ZeroMapping
  /\ UNCHANGED <<readerVars, published, readFrame, shown>>

-----------------------------------------------------------------------------
(* The reader: ShmFrameReader::read, under the source's mutex.             *)

(* The checks before memcpy; each of them that fails returns false, and    *)
(* the source shows its test pattern.                                      *)
BeginRead ==
  /\ reader = "idle"
  /\ readerMaps' = (readerMaps \/ writerMaps)
  /\ IF readerMaps' /\ valid /\ shmGeneration # lastGeneration
     THEN /\ gen' = shmGeneration
          /\ reader' = "copy"
          /\ readNext' = 1
          /\ readFrame' = published
          /\ settled' = (published > epochStart)
     ELSE UNCHANGED <<gen, reader, readNext, readFrame, settled>>
  /\ UNCHANGED <<mapping, writerVars, lastGeneration, buffer, published,
                 epochStart, shown>>

ReadChunk ==
  /\ reader = "copy"
  /\ buffer' = [buffer EXCEPT ![readNext] = data[readNext]]
  /\ readNext' = readNext + 1
  /\ reader' = IF readNext = NumChunks THEN "check" ELSE "copy"
  /\ UNCHANGED <<mapping, writerVars, readerMaps, gen, lastGeneration,
                 published, epochStart, readHistory>>

(* Mutants of EndRead: no second look at the generation; the generation    *)
(* remembered although the copy was rejected; never remembered.            *)
EndReadUnchecked ==
  /\ reader = "check"
  /\ reader' = "idle"
  /\ lastGeneration' = gen
  /\ shown' = readFrame
  /\ UNCHANGED <<mapping, writerVars, readerMaps, readNext, gen, buffer,
                 published, epochStart, readFrame, settled>>

EndReadRemembers ==
  /\ reader = "check"
  /\ reader' = "idle"
  /\ lastGeneration' = shmGeneration
  /\ shown' = IF shmGeneration = gen THEN readFrame ELSE shown
  /\ UNCHANGED <<mapping, writerVars, readerMaps, readNext, gen, buffer,
                 published, epochStart, readFrame, settled>>

EndReadForgets ==
  /\ reader = "check"
  /\ reader' = "idle"
  /\ shown' = IF shmGeneration = gen THEN readFrame ELSE shown
  /\ UNCHANGED <<mapping, writerVars, readerMaps, readNext, gen, buffer,
                 lastGeneration, published, epochStart, readFrame, settled>>

(* The second look at the generation: accepted or rejected.                *)
EndRead ==
  /\ reader = "check"
  /\ reader' = "idle"
  /\ IF shmGeneration = gen
     THEN lastGeneration' = gen /\ shown' = readFrame
     ELSE UNCHANGED <<lastGeneration, shown>>
  /\ UNCHANGED <<mapping, writerVars, readerMaps, readNext, gen, buffer,
                 published, epochStart, readFrame, settled>>

(* The source and its reader are destroyed; a later one starts afresh.     *)
CloseReader ==
  /\ reader = "idle"
  /\ readerMaps
  /\ readerMaps' = FALSE
  /\ lastGeneration' = 0
  /\ shown' = 0
  /\ IF writerMaps THEN UNCHANGED mapping ELSE ZeroMapping
  /\ UNCHANGED <<writerVars, reader, readNext, gen, buffer, published,
                 epochStart, readFrame, settled>>

Writer == BeginFrame \/ CopyChunk \/ FillHeader \/ PublishGeneration
Reader == BeginRead \/ ReadChunk \/ EndRead

Next == Writer \/ StopPipeline \/ RestartWriter \/ Reader \/ CloseReader

Spec == Init /\ [][Next]_vars

(* The camera application keeps asking the source for samples; the writer  *)
(* is not obliged to write.                                                *)
Fairness == WF_vars(Reader)

FairSpec == Spec /\ Fairness

-----------------------------------------------------------------------------
(* Properties.                                                             *)

(* Types.                                                                  *)
TypeOK ==
  /\ data \in [Chunks -> Nat] /\ valid \in BOOLEAN /\ shmGeneration \in Nat
  /\ writerMaps \in BOOLEAN
  /\ writer \in {"idle", "copy", "header", "publish"}
  /\ writeNext \in 1 .. NumChunks + 1
  /\ generation \in Nat /\ restarts \in Nat
  /\ readerMaps \in BOOLEAN
  /\ reader \in {"idle", "copy", "check"}
  /\ readNext \in 1 .. NumChunks + 1
  /\ gen \in Nat /\ lastGeneration \in Nat /\ buffer \in [Chunks -> Nat]
  /\ published \in Nat /\ epochStart \in Nat
  /\ readFrame \in Nat /\ settled \in BOOLEAN /\ shown \in Nat

(* read() returns true: the copy is shown.                                 *)
Accepts == reader = "check" /\ reader' = "idle" /\ shown' = readFrame

(* An accepted copy is a frame that was published, or that frame torn by   *)
(* the one being written after it; never older data, never a third frame.  *)
(* (When the writer's process restarted its numbering during the copy or   *)
(* has published nothing yet, equal generations prove nothing.)            *)
AcceptedFrameAndNextOnly ==
  [][ Accepts /\ settled
        => \A c \in Chunks : buffer[c] \in {readFrame, readFrame + 1} ]_vars

(* A reader is never given a frame it was already given, nor an older one. *)
NoFrameTwice == [][ Accepts => readFrame > shown ]_vars

(* Memory that looks valid to a reader holds the latest published frame,   *)
(* or parts of the one that is being written over it, and nothing else:    *)
(* neither zeroes nor a frame of before, whoever restarted or closed.      *)
ValidDataIsLatest ==
  valid => \A c \in Chunks : data[c] \in {published, published + 1}

(* After a restart the generations repeat, and a frame that has the number *)
(* the reader remembers from the process before is taken for the old one.  *)
TakenForOldFrame ==
  shown <= epochStart /\ lastGeneration > 0 /\ shmGeneration = lastGeneration

(* A frame that waits for the reader is shown, or a later one is, unless   *)
(* the memory is gone, or the writer's process has restarted since and     *)
(* repeats its numbers: no frame that stays is missed for ever.            *)
LastFrameShown ==
  \A n \in 1 .. MaxFrames :
    (/\ reader = "idle" /\ valid
     /\ published = n /\ epochStart < n /\ shmGeneration # lastGeneration)
      ~> (~valid \/ shown >= n \/ epochStart >= n \/ TakenForOldFrame)
==============================================================================
