---------------------------- MODULE FrameShm_proofs ----------------------------
(***************************************************************************)
(* Proofs about FrameShm, for every number of chunks, frames and restarts. *)
(*                                                                         *)
(* The reader sees only generations, and generations repeat: a restarted   *)
(* writer counts from 1 again.  The invariant ties them to the frames.  A  *)
(* read that began in the present process (settled) holds gen = readFrame  *)
(* - epochStart and the memory shmGeneration = published - epochStart, so  *)
(* equal generations mean that nothing was published during the copy, and  *)
(* then the copy can only hold the latest frame or the one being written.  *)
(***************************************************************************)
EXTENDS FrameShm, TLAPS

(* What ThreadsMC assumes of its constants.                                *)
ConstantsOK == NumChunks \in Nat \ {0} /\ MaxFrames \in Nat /\ MaxRestarts \in Nat

(* The writer: its counters, and how much of the frame is in the memory.   *)
WriterInv ==
  /\ epochStart <= published
  /\ generation = published - epochStart
  /\ writer # "idle" => writerMaps
  /\ writer = "copy" => /\ writeNext <= NumChunks
                        /\ \A c \in Chunks : c < writeNext => data[c] = published + 1
  /\ writer \in {"header", "publish"} => \A c \in Chunks : data[c] = published + 1
  /\ valid => writerMaps \/ readerMaps

(* The generation in the memory: 0 after zeroing and, once the present     *)
(* process has published, otherwise its latest.                            *)
GenerationInv ==
  /\ published > epochStart => shmGeneration \in {0, generation}
  /\ published = 0 => shmGeneration = 0
  /\ lastGeneration # 0 => readerMaps /\ shmGeneration # 0

(* What the reader has accepted.                                           *)
ShownInv ==
  /\ shown <= published
  /\ shown # 0 => readerMaps
  /\ shown = published => lastGeneration = shmGeneration

(* A read that is going on.                                                *)
ReadInv ==
  reader # "idle" =>
    /\ readerMaps /\ valid
    /\ shown < readFrame /\ readFrame <= published
    /\ gen # 0 /\ shmGeneration # 0
    /\ reader = "copy" => readNext <= NumChunks
    /\ reader = "check" => readNext = NumChunks + 1
    /\ settled => /\ epochStart < readFrame
                  /\ gen = readFrame - epochStart
                  /\ published = readFrame =>
                       \A c \in Chunks :
                         c < readNext => buffer[c] \in {readFrame, readFrame + 1}

IInv ==
  /\ ConstantsOK
  /\ TypeOK /\ WriterInv /\ ValidDataIsLatest /\ GenerationInv /\ ShownInv /\ ReadInv

-----------------------------------------------------------------------------
LEMMA ZeroedType == Zeroed \in [Chunks -> Nat]
  BY DEF Zeroed

LEMMA InitIInv == ASSUME ConstantsOK PROVE Init => IInv
<1> USE DEF ConstantsOK
<1> SUFFICES ASSUME Init PROVE IInv
  OBVIOUS
<1> Zeroed \in [Chunks -> Nat]
  BY ZeroedType
<1>1. TypeOK
  <2>1. /\ data \in [Chunks -> Nat] /\ valid \in BOOLEAN /\ shmGeneration \in Nat
        /\ writerMaps \in BOOLEAN
        /\ writer \in {"idle", "copy", "header", "publish"}
    BY DEF Init
  <2>2. /\ writeNext \in 1 .. NumChunks + 1
        /\ generation \in Nat /\ restarts \in Nat
    BY DEF Init
  <2>5. readerMaps \in BOOLEAN /\ reader \in {"idle", "copy", "check"}
    BY DEF Init
  <2>3. /\ readNext \in 1 .. NumChunks + 1
        /\ gen \in Nat /\ lastGeneration \in Nat /\ buffer \in [Chunks -> Nat]
    BY DEF Init
  <2>4. /\ published \in Nat /\ epochStart \in Nat
        /\ readFrame \in Nat /\ settled \in BOOLEAN /\ shown \in Nat
    BY DEF Init
  <2> QED
    BY <2>1, <2>2, <2>3, <2>4, <2>5 DEF TypeOK
<1>2. WriterInv /\ ValidDataIsLatest
  BY DEF Init, WriterInv, ValidDataIsLatest
<1>3. GenerationInv /\ ShownInv /\ ReadInv
  BY DEF Init, GenerationInv, ShownInv, ReadInv
<1> QED
  BY <1>1, <1>2, <1>3 DEF IInv

-----------------------------------------------------------------------------
(* One step per action, and under it one per part of the invariant.        *)
LEMMA StepIInv == IInv /\ [Next]_vars => IInv'
<1> USE DEF ConstantsOK, IInv, mapping, writerVars, readerVars, readHistory
<1> SUFFICES ASSUME IInv, [Next]_vars PROVE IInv'
  OBVIOUS
<1>1. CASE BeginFrame
  <2> USE <1>1 DEF BeginFrame
  <2>1. TypeOK'
    BY DEF TypeOK, WriterInv, ReadInv, Chunks
  <2>2. WriterInv'
    BY DEF TypeOK, WriterInv, ReadInv, Chunks
  <2>3. ValidDataIsLatest'
    BY DEF TypeOK, WriterInv, ValidDataIsLatest, Chunks
  <2>4. GenerationInv'
    BY DEF TypeOK, WriterInv, GenerationInv, ReadInv
  <2>5. ShownInv'
    BY DEF TypeOK, WriterInv, GenerationInv, ShownInv, ReadInv
  <2>6. ReadInv'
    BY DEF TypeOK, WriterInv, ValidDataIsLatest, GenerationInv, ShownInv, ReadInv, Chunks
  <2> QED
    BY <2>1, <2>2, <2>3, <2>4, <2>5, <2>6
<1>2. CASE CopyChunk
  <2> USE <1>2 DEF CopyChunk
  <2>1. TypeOK'
    BY DEF TypeOK, WriterInv, ReadInv, Chunks
  <2>2. WriterInv'
    BY DEF TypeOK, WriterInv, ReadInv, Chunks
  <2>3. ValidDataIsLatest'
    BY DEF TypeOK, WriterInv, ValidDataIsLatest, Chunks
  <2>4. GenerationInv'
    BY DEF TypeOK, WriterInv, GenerationInv, ReadInv
  <2>5. ShownInv'
    BY DEF TypeOK, WriterInv, GenerationInv, ShownInv, ReadInv
  <2>6. ReadInv'
    BY DEF TypeOK, WriterInv, ValidDataIsLatest, GenerationInv, ShownInv, ReadInv, Chunks
  <2> QED
    BY <2>1, <2>2, <2>3, <2>4, <2>5, <2>6
<1>3. CASE FillHeader
  <2> USE <1>3 DEF FillHeader
  <2>1. TypeOK'
    BY DEF TypeOK, WriterInv, ReadInv, Chunks
  <2>2. WriterInv'
    BY DEF TypeOK, WriterInv, ReadInv, Chunks
  <2>3. ValidDataIsLatest'
    BY DEF TypeOK, WriterInv, ValidDataIsLatest, Chunks
  <2>4. GenerationInv'
    BY DEF TypeOK, WriterInv, GenerationInv, ReadInv
  <2>5. ShownInv'
    BY DEF TypeOK, WriterInv, GenerationInv, ShownInv, ReadInv
  <2>6. ReadInv'
    BY DEF TypeOK, WriterInv, ValidDataIsLatest, GenerationInv, ShownInv, ReadInv, Chunks
  <2> QED
    BY <2>1, <2>2, <2>3, <2>4, <2>5, <2>6
<1>4. CASE PublishGeneration
  <2> USE <1>4 DEF PublishGeneration
  <2>1. TypeOK'
    BY DEF TypeOK, WriterInv, ReadInv, Chunks
  <2>2. WriterInv'
    BY DEF TypeOK, WriterInv, ReadInv, Chunks
  <2>3. ValidDataIsLatest'
    BY DEF TypeOK, WriterInv, ValidDataIsLatest, Chunks
  <2>4. GenerationInv'
    BY DEF TypeOK, WriterInv, GenerationInv, ReadInv
  <2>5. ShownInv'
    BY DEF TypeOK, WriterInv, GenerationInv, ShownInv, ReadInv
  <2>6. ReadInv'
    BY DEF TypeOK, WriterInv, ValidDataIsLatest, GenerationInv, ShownInv, ReadInv, Chunks
  <2> QED
    BY <2>1, <2>2, <2>3, <2>4, <2>5, <2>6
<1>5. CASE StopPipeline
  <2> USE <1>5 DEF StopPipeline, ZeroMapping
  <2>1. TypeOK'
    <3>1. data' \in [Chunks -> Nat] /\ shmGeneration' \in Nat
      BY ZeroedType DEF TypeOK
    <3>8. valid' \in BOOLEAN
      <4>1. valid' = FALSE \/ valid' = valid
        OBVIOUS
      <4> QED
        BY <4>1 DEF TypeOK
    <3>2. /\ writerMaps' \in BOOLEAN
          /\ writer' \in {"idle", "copy", "header", "publish"}
      BY DEF TypeOK
    <3>6. writeNext' \in 1 .. NumChunks + 1 /\ generation' \in Nat /\ restarts' \in Nat
      BY DEF TypeOK
    <3>3. /\ readerMaps' \in BOOLEAN
          /\ reader' \in {"idle", "copy", "check"}
          /\ readNext' \in 1 .. NumChunks + 1
      BY DEF TypeOK
    <3>4. /\ gen' \in Nat /\ lastGeneration' \in Nat /\ buffer' \in [Chunks -> Nat]
      BY DEF TypeOK
    <3>5. /\ published' \in Nat /\ epochStart' \in Nat
          /\ readFrame' \in Nat /\ shown' \in Nat
      BY DEF TypeOK
    <3>7. settled' \in BOOLEAN
      BY DEF TypeOK
    <3> QED
      BY <3>1, <3>2, <3>3, <3>4, <3>5, <3>6, <3>7, <3>8 DEF TypeOK
  <2>2. WriterInv'
    BY DEF TypeOK, WriterInv, ReadInv, Chunks
  <2>3. ValidDataIsLatest'
    BY DEF TypeOK, WriterInv, ValidDataIsLatest, Chunks
  <2>4. GenerationInv'
    BY DEF TypeOK, WriterInv, GenerationInv, ReadInv
  <2>5. ShownInv'
    BY DEF TypeOK, WriterInv, GenerationInv, ShownInv, ReadInv
  <2>6. ReadInv'
    BY DEF TypeOK, WriterInv, ValidDataIsLatest, GenerationInv, ShownInv, ReadInv, Chunks
  <2> QED
    BY <2>1, <2>2, <2>3, <2>4, <2>5, <2>6
<1>6. CASE RestartWriter
  <2> USE <1>6 DEF RestartWriter, ZeroMapping
  <2>1. TypeOK'
    <3>1. data' \in [Chunks -> Nat] /\ shmGeneration' \in Nat
      BY ZeroedType DEF TypeOK
    <3>8. valid' \in BOOLEAN
      <4>1. valid' = FALSE \/ valid' = valid
        OBVIOUS
      <4> QED
        BY <4>1 DEF TypeOK
    <3>2. /\ writerMaps' \in BOOLEAN
          /\ writer' \in {"idle", "copy", "header", "publish"}
      BY DEF TypeOK
    <3>6. writeNext' \in 1 .. NumChunks + 1 /\ generation' \in Nat /\ restarts' \in Nat
      BY DEF TypeOK
    <3>3. /\ readerMaps' \in BOOLEAN
          /\ reader' \in {"idle", "copy", "check"}
          /\ readNext' \in 1 .. NumChunks + 1
      BY DEF TypeOK
    <3>4. /\ gen' \in Nat /\ lastGeneration' \in Nat /\ buffer' \in [Chunks -> Nat]
      BY DEF TypeOK
    <3>5. /\ published' \in Nat /\ epochStart' \in Nat
          /\ readFrame' \in Nat /\ shown' \in Nat
      BY DEF TypeOK
    <3>7. settled' \in BOOLEAN
      BY DEF TypeOK
    <3> QED
      BY <3>1, <3>2, <3>3, <3>4, <3>5, <3>6, <3>7, <3>8 DEF TypeOK
  <2>2. WriterInv'
    BY DEF TypeOK, WriterInv, ReadInv, Chunks
  <2>3. ValidDataIsLatest'
    BY DEF TypeOK, WriterInv, ValidDataIsLatest, Chunks
  <2>4. GenerationInv'
    BY DEF TypeOK, WriterInv, GenerationInv, ReadInv
  <2>5. ShownInv'
    BY DEF TypeOK, WriterInv, GenerationInv, ShownInv, ReadInv
  <2>6. ReadInv'
    BY DEF TypeOK, WriterInv, ValidDataIsLatest, GenerationInv, ShownInv, ReadInv, Chunks
  <2> QED
    BY <2>1, <2>2, <2>3, <2>4, <2>5, <2>6
<1>7. CASE BeginRead
  <2> USE <1>7 DEF BeginRead
  <2>1. TypeOK'
    <3>1. data' \in [Chunks -> Nat] /\ shmGeneration' \in Nat
      BY ZeroedType DEF TypeOK
    <3>8. valid' \in BOOLEAN
      <4>1. valid' = FALSE \/ valid' = valid
        OBVIOUS
      <4> QED
        BY <4>1 DEF TypeOK
    <3>2. /\ writerMaps' \in BOOLEAN
          /\ writer' \in {"idle", "copy", "header", "publish"}
      BY DEF TypeOK
    <3>6. writeNext' \in 1 .. NumChunks + 1 /\ generation' \in Nat /\ restarts' \in Nat
      BY DEF TypeOK
    <3>3. /\ readerMaps' \in BOOLEAN
          /\ reader' \in {"idle", "copy", "check"}
          /\ readNext' \in 1 .. NumChunks + 1
      BY DEF TypeOK
    <3>4. /\ gen' \in Nat /\ lastGeneration' \in Nat /\ buffer' \in [Chunks -> Nat]
      BY DEF TypeOK
    <3>5. /\ published' \in Nat /\ epochStart' \in Nat
          /\ readFrame' \in Nat /\ shown' \in Nat
      BY DEF TypeOK
    <3>7. settled' \in BOOLEAN
      <4>1. settled' = settled \/ settled' = TRUE \/ settled' = FALSE
        <5>1. CASE published > epochStart
          BY <5>1
        <5>2. CASE ~(published > epochStart)
          BY <5>2
        <5> QED
          BY <5>1, <5>2
      <4> QED
        BY <4>1 DEF TypeOK
    <3> QED
      BY <3>1, <3>2, <3>3, <3>4, <3>5, <3>6, <3>7, <3>8 DEF TypeOK
  <2>2. WriterInv'
    BY DEF TypeOK, WriterInv, ReadInv, Chunks
  <2>3. ValidDataIsLatest'
    BY DEF TypeOK, WriterInv, ValidDataIsLatest, Chunks
  <2>4. GenerationInv'
    BY DEF TypeOK, WriterInv, GenerationInv, ReadInv
  <2>5. ShownInv'
    BY DEF TypeOK, WriterInv, GenerationInv, ShownInv, ReadInv
  <2>6. ReadInv'
    <3> SUFFICES ASSUME reader' = "copy" PROVE ReadInv'
      BY DEF ReadInv, TypeOK
    <3>1. /\ readerMaps' /\ valid' /\ gen' = shmGeneration
          /\ shmGeneration # lastGeneration
          /\ readFrame' = published /\ readNext' = 1
      OBVIOUS
    <3>2. shmGeneration # 0
      BY <3>1 DEF GenerationInv, TypeOK
    <3>3. shown < published
      BY <3>1 DEF ShownInv, TypeOK
    <3>4. settled' => epochStart < published /\ gen' = published - epochStart
      BY <3>1, <3>2 DEF GenerationInv, WriterInv, TypeOK
    <3> QED
      BY <3>1, <3>2, <3>3, <3>4 DEF ReadInv, TypeOK, Chunks
  <2> QED
    BY <2>1, <2>2, <2>3, <2>4, <2>5, <2>6
<1>8. CASE ReadChunk
  <2> USE <1>8 DEF ReadChunk
  <2>1. TypeOK'
    BY DEF TypeOK, WriterInv, ReadInv, Chunks
  <2>2. WriterInv'
    BY DEF TypeOK, WriterInv, ReadInv, Chunks
  <2>3. ValidDataIsLatest'
    BY DEF TypeOK, WriterInv, ValidDataIsLatest, Chunks
  <2>4. GenerationInv'
    BY DEF TypeOK, WriterInv, GenerationInv, ReadInv
  <2>5. ShownInv'
    BY DEF TypeOK, WriterInv, GenerationInv, ShownInv, ReadInv
  <2>6. ReadInv'
    <3>1. data[readNext] \in {published, published + 1}
      BY DEF TypeOK, ReadInv, ValidDataIsLatest, Chunks
    <3>2. /\ readNext \in Chunks /\ readNext' = readNext + 1
          /\ \A c \in Chunks : c < readNext' => c < readNext \/ c = readNext
      BY DEF TypeOK, ReadInv, Chunks
    <3>3. ASSUME settled, published = readFrame, NEW c \in Chunks, c < readNext'
          PROVE  buffer'[c] \in {readFrame, readFrame + 1}
      BY <3>1, <3>2, <3>3 DEF TypeOK, ReadInv
    <3> QED
      BY <3>2, <3>3 DEF TypeOK, ReadInv, Chunks
  <2> QED
    BY <2>1, <2>2, <2>3, <2>4, <2>5, <2>6
<1>9. CASE EndRead
  <2> USE <1>9 DEF EndRead
  <2>1. TypeOK'
    BY DEF TypeOK, WriterInv, ReadInv, Chunks
  <2>2. WriterInv'
    BY DEF TypeOK, WriterInv, ReadInv, Chunks
  <2>3. ValidDataIsLatest'
    BY DEF TypeOK, WriterInv, ValidDataIsLatest, Chunks
  <2>4. GenerationInv'
    BY DEF TypeOK, WriterInv, GenerationInv, ReadInv
  <2>5. ShownInv'
    BY DEF TypeOK, WriterInv, GenerationInv, ShownInv, ReadInv
  <2>6. ReadInv'
    BY DEF TypeOK, WriterInv, ValidDataIsLatest, GenerationInv, ShownInv, ReadInv, Chunks
  <2> QED
    BY <2>1, <2>2, <2>3, <2>4, <2>5, <2>6
<1>10. CASE CloseReader
  <2> USE <1>10 DEF CloseReader, ZeroMapping
  <2>1. TypeOK'
    <3>1. data' \in [Chunks -> Nat] /\ shmGeneration' \in Nat
      BY ZeroedType DEF TypeOK
    <3>8. valid' \in BOOLEAN
      <4>1. valid' = FALSE \/ valid' = valid
        OBVIOUS
      <4> QED
        BY <4>1 DEF TypeOK
    <3>2. /\ writerMaps' \in BOOLEAN
          /\ writer' \in {"idle", "copy", "header", "publish"}
      BY DEF TypeOK
    <3>6. writeNext' \in 1 .. NumChunks + 1 /\ generation' \in Nat /\ restarts' \in Nat
      BY DEF TypeOK
    <3>3. /\ readerMaps' \in BOOLEAN
          /\ reader' \in {"idle", "copy", "check"}
          /\ readNext' \in 1 .. NumChunks + 1
      BY DEF TypeOK
    <3>4. /\ gen' \in Nat /\ lastGeneration' \in Nat /\ buffer' \in [Chunks -> Nat]
      BY DEF TypeOK
    <3>5. /\ published' \in Nat /\ epochStart' \in Nat
          /\ readFrame' \in Nat /\ shown' \in Nat
      BY DEF TypeOK
    <3>7. settled' \in BOOLEAN
      BY DEF TypeOK
    <3> QED
      BY <3>1, <3>2, <3>3, <3>4, <3>5, <3>6, <3>7, <3>8 DEF TypeOK
  <2>2. WriterInv'
    BY DEF TypeOK, WriterInv, ReadInv, Chunks
  <2>3. ValidDataIsLatest'
    BY DEF TypeOK, WriterInv, ValidDataIsLatest, Chunks
  <2>4. GenerationInv'
    BY DEF TypeOK, WriterInv, GenerationInv, ReadInv
  <2>5. ShownInv'
    BY DEF TypeOK, WriterInv, GenerationInv, ShownInv, ReadInv
  <2>6. ReadInv'
    BY DEF TypeOK, WriterInv, ValidDataIsLatest, GenerationInv, ShownInv, ReadInv, Chunks
  <2> QED
    BY <2>1, <2>2, <2>3, <2>4, <2>5, <2>6
<1>11. CASE UNCHANGED vars
  BY <1>11 DEF vars, TypeOK, WriterInv, ValidDataIsLatest, GenerationInv, ShownInv,
     ReadInv
<1> QED
  BY <1>1, <1>2, <1>3, <1>4, <1>5, <1>6, <1>7, <1>8, <1>9, <1>10, <1>11 DEF Next, Writer, Reader

(* The invariant holds in every reachable state.                           *)
THEOREM Invariance ==
  ASSUME ConstantsOK
  PROVE  Spec => []IInv
<1>1. Init => IInv
  BY InitIInv
<1>2. IInv /\ [Next]_vars => IInv'
  BY StepIInv
<1> QED
  BY <1>1, <1>2, PTL DEF Spec

(* The types of the shared memory, of its writer and of its reader.        *)
THEOREM TypeCorrect ==
  ASSUME ConstantsOK
  PROVE  Spec => []TypeOK
<1>1. IInv => TypeOK
  BY DEF IInv
<1> QED
  BY <1>1, Invariance, PTL

(* Memory that looks valid holds the latest frame or parts of the next.    *)
THEOREM ValidData ==
  ASSUME ConstantsOK
  PROVE  Spec => []ValidDataIsLatest
<1>1. IInv => ValidDataIsLatest
  BY DEF IInv
<1> QED
  BY <1>1, Invariance, PTL

(* The double look at the generation lets at most one frame tear a copy.   *)
THEOREM AcceptedFrame ==
  ASSUME ConstantsOK
  PROVE  Spec => AcceptedFrameAndNextOnly
<1>1. IInv /\ [Next]_vars
        => [Accepts /\ settled
              => \A c \in Chunks : buffer[c] \in {readFrame, readFrame + 1}]_vars
  <2> SUFFICES ASSUME IInv, [Next]_vars, Accepts, settled, NEW c \in Chunks
               PROVE  buffer[c] \in {readFrame, readFrame + 1}
    OBVIOUS
  <2> USE DEF IInv, ConstantsOK
  <2>1. EndRead
    BY DEF Accepts, Next, Writer, Reader, BeginFrame, CopyChunk, FillHeader,
       PublishGeneration, StopPipeline, RestartWriter, BeginRead, ReadChunk,
       CloseReader, vars, readerVars
  <2>2. shmGeneration = gen
    BY <2>1 DEF EndRead, Accepts, ReadInv, TypeOK
  <2>3. published = readFrame
    BY <2>1, <2>2 DEF EndRead, ReadInv, GenerationInv, WriterInv, TypeOK
  <2>4. c < readNext
    BY <2>1 DEF EndRead, ReadInv, Chunks
  <2> QED
    BY <2>1, <2>3, <2>4 DEF EndRead, ReadInv
<1> QED
  BY <1>1, Invariance, PTL DEF Spec, AcceptedFrameAndNextOnly

(* No reader is given the same frame twice, nor an older one.              *)
THEOREM FramesAdvance ==
  ASSUME ConstantsOK
  PROVE  Spec => NoFrameTwice
<1>1. IInv /\ [Next]_vars => [Accepts => readFrame > shown]_vars
  BY DEF IInv, ConstantsOK, Accepts, ReadInv, TypeOK
<1> QED
  BY <1>1, Invariance, PTL DEF Spec, NoFrameTwice
==============================================================================
