---------------------------- MODULE ObsQueue_proofs ----------------------------
(***************************************************************************)
(* Proofs about ObsQueue, for any writers, chunks and frames.              *)
(*                                                                         *)
(* As long as nobody came in unnoticed there is one writer, who works at   *)
(* most one frame ahead of read_idx, and neighbouring indices use          *)
(* different slots: so the ready frame stays whole, and a slot that is     *)
(* being copied stays whole until the third write after it.                *)
(***************************************************************************)
EXTENDS ObsQueue, TLAPS

USE NumChunksAssumption, MaxFramesAssumption

(* Who looked and was not overtaken has seen that there is no queue.       *)
CheckedInv == \A w \in Writers : writer[w] = "checked" => ~Exists

(* The only writer: it may still have to fill the header, which is zero;   *)
(* how far it is ahead, and how much of its frame is in its slot.          *)
OneWriter ==
  /\ \A v, w \in Holders : v = w
  /\ write_idx \in {read_idx, read_idx + 1}
  /\ \A w \in Writers :
       /\ writer[w] = "created" => state = 0 /\ write_idx = 0 /\ read_idx = 0
       /\ writer[w] = "open" => write_idx = read_idx
       /\ writer[w] = "copy" =>
            /\ inc[w] = write_idx /\ write_idx = read_idx + 1
            /\ \A c \in Chunks : c < writeNext[w] => frame[Slot(write_idx)][c] = write_idx

WriterInv == ~shared => OneWriter

(* The slot the camera copies, and its copy.                               *)
ReaderInv ==
  reader = "copy" =>
    /\ maps
    /\ ~shared =>
         /\ idx <= read_idx
         /\ write_idx <= idx + 2 => \A c \in Chunks : frame[Slot(idx)][c] = idx

IInv == TypeOK /\ CheckedInv /\ WriterInv /\ ReadyFrameIsWhole /\ ReaderInv /\ CopyIsWhole

-----------------------------------------------------------------------------
(* Three consecutive indices use three slots.                              *)
LEMMA SlotsDiffer ==
  \A i \in Nat : Slot(i) \in Slots /\ Slot(i + 1) # Slot(i) /\ Slot(i + 2) # Slot(i)
BY DEF Slot, Slots

LEMMA BlankType == Blank \in [Chunks -> Nat]
BY DEF Blank

LEMMA InitIInv == Init => IInv
<1> SUFFICES ASSUME Init PROVE IInv
  OBVIOUS
<1>1. TypeOK
  <2>1. /\ state \in 0 .. 3 /\ write_idx \in Nat /\ read_idx \in Nat /\ session \in {1, 2}
        /\ readNext \in 1 .. NumChunks + 1 /\ idx \in Nat
    BY DEF Init
  <2>2. frame \in [Slots -> [Chunks -> Nat]] /\ copy \in [Chunks -> Nat]
    BY BlankType DEF Init
  <2>3. /\ writer \in [Writers -> {"closed", "checked", "overtaken", "created", "open", "copy"}]
        /\ inc \in [Writers -> Nat] /\ writeNext \in [Writers -> 1 .. NumChunks + 1]
    BY DEF Init
  <2>4. maps \in BOOLEAN /\ shared \in BOOLEAN /\ reader \in {"idle", "copy"}
    BY DEF Init
  <2> QED
    BY <2>1, <2>2, <2>3, <2>4 DEF TypeOK
<1>2. CheckedInv /\ WriterInv /\ ReadyFrameIsWhole
  BY DEF Init, CheckedInv, WriterInv, OneWriter, Holders, ReadyFrameIsWhole, kStateReady
<1>3. ReaderInv /\ CopyIsWhole
  BY DEF Init, ReaderInv, CopyIsWhole
<1> QED
  BY <1>1, <1>2, <1>3 DEF IInv

-----------------------------------------------------------------------------
(* One lemma per action of a writer, and one for the camera; under it one  *)
(* step per part of the invariant.                                         *)
USE DEF queue, writers, camera, kStateStarting, kStateReady, kStateStopping

LEMMA CheckKeeps ==
  ASSUME IInv, NEW w \in Writers, Check(w) PROVE IInv'
<1> USE DEF IInv, Check
<1>1. TypeOK'
  BY DEF TypeOK
<1>2. CheckedInv'
  BY DEF TypeOK, CheckedInv, Exists, Holders
<1>3. WriterInv'
  <2>1. /\ \A v \in Writers : v # w => writer'[v] = writer[v]
        /\ writer'[w] = "checked" /\ writer[w] = "closed" /\ Holders' = Holders
    BY DEF TypeOK, Holders
  <2> QED
    BY <2>1 DEF WriterInv, OneWriter
<1>4. ReadyFrameIsWhole'
  BY DEF TypeOK, WriterInv, OneWriter, Holders, ReadyFrameIsWhole, Chunks, Slots
<1>5. ReaderInv'
  BY DEF TypeOK, WriterInv, OneWriter, Holders, ReadyFrameIsWhole, ReaderInv, Chunks, Slots
<1>6. CopyIsWhole'
  BY DEF TypeOK, WriterInv, OneWriter, Holders, ReaderInv, CopyIsWhole
<1> QED
  BY <1>1, <1>2, <1>3, <1>4, <1>5, <1>6 DEF IInv

LEMMA CreateKeeps ==
  ASSUME IInv, NEW w \in Writers, Create(w) PROVE IInv'
<1> USE DEF IInv, Create, Exists
<1>1. TypeOK'
  <2>1. writer' \in [Writers -> {"closed", "checked", "overtaken", "created", "open", "copy"}]
    BY DEF TypeOK
  <2>2. /\ state' \in 0 .. 3 /\ write_idx' \in Nat /\ read_idx' \in Nat
        /\ frame' \in [Slots -> [Chunks -> Nat]] /\ session' \in {1, 2}
    BY BlankType DEF TypeOK
  <2>3. shared' \in BOOLEAN
    BY DEF TypeOK
  <2> QED
    BY <2>1, <2>2, <2>3 DEF TypeOK
<1>2. CheckedInv'
  BY DEF TypeOK, CheckedInv, Exists, Holders
<1>3. WriterInv'
  <2> SUFFICES ASSUME ~shared' PROVE OneWriter'
    BY DEF WriterInv
  <2>1. \A v \in Writers : writer'[v] = (IF v = w THEN "created"
          ELSE IF writer[v] = "checked" THEN "overtaken" ELSE writer[v])
    OBVIOUS
  <2>2. ~(maps \/ Holders # {})
    BY DEF CheckedInv
  <2>3. \A v \in Writers : writer[v] \notin {"created", "open", "copy"}
    BY <2>2 DEF Holders
  <2>4. /\ state' = 0 /\ write_idx' = 0 /\ read_idx' = 0
        /\ \A v \in Writers : writer'[v] \in {"created", "open", "copy"} => v = w
        /\ writer'[w] = "created"
    BY <2>1, <2>2, <2>3
  <2> QED
    BY <2>4 DEF OneWriter, Holders
<1>4. ReadyFrameIsWhole'
  <2>1. state' = kStateReady /\ ~shared' => Exists
    OBVIOUS
  <2>2. Exists => UNCHANGED <<state, read_idx, frame>> /\ (~shared' => ~shared)
    OBVIOUS
  <2> QED
    BY <2>1, <2>2 DEF ReadyFrameIsWhole
<1>5. ReaderInv'
  BY DEF TypeOK, WriterInv, OneWriter, Holders, ReadyFrameIsWhole, ReaderInv, Chunks, Slots
<1>6. CopyIsWhole'
  BY DEF TypeOK, WriterInv, OneWriter, Holders, ReaderInv, CopyIsWhole
<1> QED
  BY <1>1, <1>2, <1>3, <1>4, <1>5, <1>6 DEF IInv

LEMMA InitialiseKeeps ==
  ASSUME IInv, NEW w \in Writers, Initialise(w) PROVE IInv'
<1> USE DEF IInv, Initialise
<1>1. TypeOK'
  BY DEF TypeOK
<1>2. CheckedInv'
  BY DEF TypeOK, CheckedInv, Exists, Holders
<1>3. WriterInv'
  <2> SUFFICES ASSUME ~shared PROVE OneWriter'
    BY DEF WriterInv
  <2>1. /\ \A v \in Writers : v # w => writer'[v] = writer[v]
        /\ writer'[w] = "open" /\ write_idx' = 0 /\ read_idx' = 0
    BY DEF TypeOK
  <2>2. \A v \in Writers : v # w => writer[v] \notin {"created", "open", "copy"}
    BY DEF WriterInv, OneWriter, Holders
  <2>3. Holders' \subseteq {w}
    BY <2>1, <2>2 DEF Holders
  <2> QED
    BY <2>1, <2>2, <2>3 DEF OneWriter
<1>4. ReadyFrameIsWhole'
  BY DEF TypeOK, WriterInv, OneWriter, Holders, ReadyFrameIsWhole, Chunks, Slots
<1>5. ReaderInv'
  BY DEF TypeOK, WriterInv, OneWriter, Holders, ReadyFrameIsWhole, ReaderInv, Chunks, Slots
<1>6. CopyIsWhole'
  BY DEF TypeOK, WriterInv, OneWriter, Holders, ReaderInv, CopyIsWhole
<1> QED
  BY <1>1, <1>2, <1>3, <1>4, <1>5, <1>6 DEF IInv

LEMMA BeginFrameKeeps ==
  ASSUME IInv, NEW w \in Writers, BeginFrame(w) PROVE IInv'
<1> USE DEF IInv, BeginFrame
<1>1. TypeOK'
  BY DEF TypeOK
<1>2. CheckedInv'
  BY DEF TypeOK, CheckedInv, Exists, Holders
<1>3. WriterInv'
  <2> SUFFICES ASSUME ~shared PROVE OneWriter'
    BY DEF WriterInv
  <2>1. /\ \A v \in Writers : v # w => writer'[v] = writer[v]
        /\ writer'[w] = "copy" /\ Holders' \subseteq Holders
    BY DEF TypeOK, Holders
  <2>2. \A v \in Writers : v # w => writer[v] \notin {"created", "open", "copy"}
    BY DEF WriterInv, OneWriter, Holders
  <2>3. /\ inc'[w] = write_idx' /\ write_idx' = read_idx' + 1 /\ writeNext'[w] = 1
        /\ read_idx' = read_idx
    BY DEF TypeOK, WriterInv, OneWriter
  <2> QED
    BY <2>1, <2>2, <2>3 DEF OneWriter, WriterInv, Chunks
<1>4. ReadyFrameIsWhole'
  BY DEF TypeOK, WriterInv, OneWriter, Holders, ReadyFrameIsWhole, Chunks, Slots
<1>5. ReaderInv'
  BY DEF TypeOK, WriterInv, OneWriter, Holders, ReadyFrameIsWhole, ReaderInv, Chunks, Slots
<1>6. CopyIsWhole'
  BY DEF TypeOK, WriterInv, OneWriter, Holders, ReaderInv, CopyIsWhole
<1> QED
  BY <1>1, <1>2, <1>3, <1>4, <1>5, <1>6 DEF IInv

LEMMA CopyChunkKeeps ==
  ASSUME IInv, NEW w \in Writers, CopyChunk(w) PROVE IInv'
<1> USE DEF IInv, CopyChunk
<1>a. Slot(inc[w]) \in Slots /\ writeNext[w] \in Chunks /\ writeNext'[w] = writeNext[w] + 1
  BY SlotsDiffer DEF TypeOK, Chunks
<1>b. /\ frame' \in [Slots -> [Chunks -> Nat]]
      /\ frame'[Slot(inc[w])][writeNext[w]] = inc[w]
      /\ \A s \in Slots, c \in Chunks :
           s # Slot(inc[w]) \/ c # writeNext[w] => frame'[s][c] = frame[s][c]
  BY <1>a DEF TypeOK
<1>c. ~shared => inc[w] = write_idx /\ write_idx = read_idx + 1
  BY DEF WriterInv, OneWriter
<1>1. TypeOK'
  <2>1. writeNext' \in [Writers -> 1 .. NumChunks + 1]
    BY <1>a DEF TypeOK, Chunks
  <2> QED
    BY <1>b, <2>1 DEF TypeOK
<1>2. CheckedInv'
  BY DEF CheckedInv, Exists, Holders
<1>3. WriterInv'
  <2> SUFFICES ASSUME ~shared PROVE OneWriter'
    BY DEF WriterInv
  <2>1. ASSUME NEW v \in Writers, writer[v] = "copy",
               NEW c \in Chunks, c < writeNext'[v]
        PROVE  frame'[Slot(write_idx)][c] = write_idx
    <3>1. v = w
      BY <2>1 DEF WriterInv, OneWriter, Holders
    <3>2. c < writeNext[w] => frame[Slot(write_idx)][c] = write_idx
      BY <2>1, <3>1 DEF WriterInv, OneWriter
    <3> QED
      BY <1>a, <1>b, <1>c, <2>1, <3>1, <3>2 DEF TypeOK, Chunks
  <2> QED
    BY <2>1 DEF WriterInv, OneWriter, Holders
<1>4. ReadyFrameIsWhole'
  <2> SUFFICES ASSUME ~shared PROVE ReadyFrameIsWhole'
    BY DEF ReadyFrameIsWhole
  <2>1. Slot(read_idx) \in Slots /\ Slot(inc[w]) # Slot(read_idx)
    BY <1>c, SlotsDiffer DEF TypeOK
  <2> QED
    BY <1>b, <2>1 DEF ReadyFrameIsWhole
<1>5. ReaderInv'
  <2> SUFFICES ASSUME reader = "copy", ~shared, write_idx <= idx + 2
               PROVE  \A c \in Chunks : frame'[Slot(idx)][c] = frame[Slot(idx)][c]
    BY DEF ReaderInv
  <2>1. write_idx = idx + 1 \/ write_idx = idx + 2
    BY <1>c DEF TypeOK, ReaderInv
  <2>2. Slot(idx) \in Slots /\ Slot(inc[w]) # Slot(idx)
    BY <1>c, <2>1, SlotsDiffer DEF TypeOK
  <2> QED
    BY <1>b, <2>2
<1>6. CopyIsWhole'
  BY DEF TypeOK, CopyIsWhole
<1> QED
  BY <1>1, <1>2, <1>3, <1>4, <1>5, <1>6 DEF IInv

LEMMA PublishFrameKeeps ==
  ASSUME IInv, NEW w \in Writers, PublishFrame(w) PROVE IInv'
<1> USE DEF IInv, PublishFrame, Forgets
<1>1. TypeOK'
  BY DEF TypeOK
<1>2. CheckedInv'
  BY DEF TypeOK, CheckedInv, Exists, Holders
<1>3. WriterInv'
  <2> SUFFICES ASSUME ~shared PROVE OneWriter'
    BY DEF WriterInv
  <2>1. /\ \A v \in Writers : v # w => writer'[v] = writer[v]
        /\ writer'[w] = "open" /\ Holders' \subseteq Holders
    BY DEF TypeOK, Holders
  <2>2. \A v \in Writers : v # w => writer[v] \notin {"created", "open", "copy"}
    BY DEF WriterInv, OneWriter, Holders
  <2>3. write_idx' = write_idx /\ read_idx' = write_idx
    BY DEF WriterInv, OneWriter
  <2> QED
    BY <2>1, <2>2, <2>3 DEF OneWriter, WriterInv
<1>4. ReadyFrameIsWhole'
  <2> SUFFICES ASSUME ~shared
               PROVE  inc[w] > 0 /\ \A c \in Chunks : frame[Slot(inc[w])][c] = inc[w]
    BY DEF ReadyFrameIsWhole
  <2>1. /\ inc[w] = write_idx /\ write_idx = read_idx + 1 /\ read_idx \in Nat
        /\ \A c \in Chunks : c < writeNext[w] => frame[Slot(write_idx)][c] = write_idx
    BY DEF TypeOK, WriterInv, OneWriter
  <2>2. writeNext[w] \in Nat /\ \A c \in Chunks : c < writeNext[w]
    BY DEF TypeOK, Chunks
  <2> QED
    BY <2>1, <2>2
<1>5. ReaderInv'
  BY DEF TypeOK, WriterInv, OneWriter, Holders, ReadyFrameIsWhole, ReaderInv, Chunks, Slots
<1>6. CopyIsWhole'
  BY DEF TypeOK, WriterInv, OneWriter, Holders, ReaderInv, CopyIsWhole
<1> QED
  BY <1>1, <1>2, <1>3, <1>4, <1>5, <1>6 DEF IInv

LEMMA CloseKeeps ==
  ASSUME IInv, NEW w \in Writers, Close(w) PROVE IInv'
<1> USE DEF IInv, Close
<1>1. TypeOK'
  BY DEF TypeOK
<1>2. CheckedInv'
  BY DEF TypeOK, CheckedInv, Exists, Holders
<1>3. WriterInv'
  <2>1. /\ \A v \in Writers : v # w => writer'[v] = writer[v]
        /\ writer'[w] = "closed" /\ Holders' \subseteq Holders
    BY DEF TypeOK, Holders
  <2>2. \A v \in Writers : v # w => inc'[v] = inc[v] /\ writeNext'[v] = writeNext[v]
    BY DEF TypeOK
  <2> QED
    BY <2>1, <2>2 DEF WriterInv, OneWriter, Holders
<1>4. ReadyFrameIsWhole'
  BY DEF TypeOK, WriterInv, OneWriter, Holders, ReadyFrameIsWhole, Chunks, Slots
<1>5. ReaderInv'
  BY DEF TypeOK, WriterInv, OneWriter, Holders, ReadyFrameIsWhole, ReaderInv, Chunks, Slots
<1>6. CopyIsWhole'
  BY DEF TypeOK, WriterInv, OneWriter, Holders, ReaderInv, CopyIsWhole
<1> QED
  BY <1>1, <1>2, <1>3, <1>4, <1>5, <1>6 DEF IInv

LEMMA CrashKeeps ==
  ASSUME IInv, NEW w \in Writers, Crash(w) PROVE IInv'
<1> USE DEF IInv, Crash, Forgets
<1>1. TypeOK'
  BY DEF TypeOK
<1>2. CheckedInv'
  BY DEF TypeOK, CheckedInv, Exists, Holders
<1>3. WriterInv'
  <2>1. /\ \A v \in Writers : v # w => writer'[v] = writer[v]
        /\ writer'[w] = "closed" /\ Holders' \subseteq Holders
    BY DEF TypeOK, Holders
  <2>2. \A v \in Writers : v # w => inc'[v] = inc[v] /\ writeNext'[v] = writeNext[v]
    BY DEF TypeOK
  <2> QED
    BY <2>1, <2>2 DEF WriterInv, OneWriter, Holders
<1>4. ReadyFrameIsWhole'
  BY DEF TypeOK, WriterInv, OneWriter, Holders, ReadyFrameIsWhole, Chunks, Slots
<1>5. ReaderInv'
  BY DEF TypeOK, WriterInv, OneWriter, Holders, ReadyFrameIsWhole, ReaderInv, Chunks, Slots
<1>6. CopyIsWhole'
  BY DEF TypeOK, WriterInv, OneWriter, Holders, ReaderInv, CopyIsWhole
<1> QED
  BY <1>1, <1>2, <1>3, <1>4, <1>5, <1>6 DEF IInv

LEMMA CameraKeeps ==
  ASSUME IInv, CameraMaps \/ BeginRead \/ ReadChunk \/ EndRead \/ CameraUnmaps PROVE IInv'
<1> USE DEF IInv
<1>1. CASE CameraMaps
  <2> USE <1>1 DEF CameraMaps
  <2>1. TypeOK' /\ WriterInv' /\ ReadyFrameIsWhole'
    BY DEF TypeOK, WriterInv, OneWriter, Holders, ReadyFrameIsWhole
  <2>2. CheckedInv'
    BY DEF CheckedInv, Exists, Holders
  <2>3. ReaderInv' /\ CopyIsWhole'
    BY DEF ReaderInv, CopyIsWhole
  <2> QED
    BY <2>1, <2>2, <2>3
<1>2. CASE BeginRead
  <2> USE <1>2 DEF BeginRead
  <2>1. TypeOK' /\ WriterInv' /\ ReadyFrameIsWhole'
    BY DEF TypeOK, WriterInv, OneWriter, Holders, ReadyFrameIsWhole
  <2>2. CheckedInv'
    BY DEF CheckedInv, Exists, Holders
  <2>3. ReaderInv'
    BY DEF TypeOK, ReadyFrameIsWhole, ReaderInv
  <2>4. CopyIsWhole'
    BY DEF CopyIsWhole, Chunks
  <2> QED
    BY <2>1, <2>2, <2>3, <2>4
<1>3. CASE ReadChunk
  <2> USE <1>3 DEF ReadChunk
  <2>1. readNext \in Chunks /\ readNext' \in 1 .. NumChunks + 1
    BY DEF TypeOK, Chunks
  <2>2. frame[Slot(idx)][readNext] \in Nat
    BY <2>1, SlotsDiffer DEF TypeOK
  <2>3. /\ copy' \in [Chunks -> Nat] /\ copy'[readNext] = frame[Slot(idx)][readNext]
        /\ \A c \in Chunks : c # readNext => copy'[c] = copy[c]
    BY <2>1, <2>2 DEF TypeOK
  <2>4. TypeOK'
    BY <2>1, <2>3 DEF TypeOK
  <2>5. WriterInv' /\ ReadyFrameIsWhole'
    BY DEF WriterInv, OneWriter, Holders, ReadyFrameIsWhole
  <2>6. CheckedInv' /\ ReaderInv'
    BY DEF CheckedInv, Exists, Holders, ReaderInv
  <2>7. CopyIsWhole'
    BY <2>1, <2>3 DEF TypeOK, ReaderInv, CopyIsWhole, Chunks
  <2> QED
    BY <2>4, <2>5, <2>6, <2>7
<1>4. CASE EndRead
  <2> USE <1>4 DEF EndRead
  <2>1. TypeOK'
    BY BlankType DEF TypeOK
  <2>2. WriterInv' /\ ReadyFrameIsWhole'
    BY DEF WriterInv, OneWriter, Holders, ReadyFrameIsWhole
  <2>3. CheckedInv' /\ ReaderInv' /\ CopyIsWhole'
    BY DEF CheckedInv, Exists, Holders, ReaderInv, CopyIsWhole
  <2> QED
    BY <2>1, <2>2, <2>3
<1>5. CASE CameraUnmaps
  <2> USE <1>5 DEF CameraUnmaps
  <2>1. TypeOK' /\ WriterInv' /\ ReadyFrameIsWhole'
    BY DEF TypeOK, WriterInv, OneWriter, Holders, ReadyFrameIsWhole
  <2>2. CheckedInv' /\ ReaderInv' /\ CopyIsWhole'
    BY DEF CheckedInv, Exists, Holders, ReaderInv, CopyIsWhole
  <2> QED
    BY <2>1, <2>2
<1> QED
  BY <1>1, <1>2, <1>3, <1>4, <1>5

LEMMA StepIInv == IInv /\ [Next]_vars => IInv'
<1> SUFFICES ASSUME IInv, [Next]_vars PROVE IInv'
  OBVIOUS
<1>1. CASE \E w \in Writers : Writes(w)
  BY <1>1, CheckKeeps, CreateKeeps, InitialiseKeeps, BeginFrameKeeps, CopyChunkKeeps,
     PublishFrameKeeps, CloseKeeps, CrashKeeps DEF Writes
<1>2. CASE CameraMaps \/ BeginRead \/ ReadChunk \/ EndRead \/ CameraUnmaps
  BY <1>2, CameraKeeps
<1>3. CASE UNCHANGED vars
  BY <1>3 DEF vars, IInv, TypeOK, CheckedInv, Exists, WriterInv, OneWriter, Holders,
     ReadyFrameIsWhole, ReaderInv, CopyIsWhole
<1> QED
  BY <1>1, <1>2, <1>3 DEF Next

(* The invariant holds in every reachable state.                           *)
THEOREM Invariance == Spec => []IInv
<1>1. Init => IInv
  BY InitIInv
<1>2. IInv /\ [Next]_vars => IInv'
  BY StepIInv
<1> QED
  BY <1>1, <1>2, PTL DEF Spec

(* The types of the queue, of the writers' side and of the camera's.       *)
THEOREM TypeCorrect == Spec => []TypeOK
<1>1. IInv => TypeOK
  BY DEF IInv
<1> QED
  BY <1>1, Invariance, PTL

(* The frame a ready queue offers is whole, while there is one writer.     *)
THEOREM ReadyFrame == Spec => []ReadyFrameIsWhole
<1>1. IInv => ReadyFrameIsWhole
  BY DEF IInv
<1> QED
  BY <1>1, Invariance, PTL

(* A copy is torn only when three later frames were begun during it, or a  *)
(* second writer came in unnoticed.                                        *)
THEOREM WholeCopy == Spec => []CopyIsWhole
<1>1. IInv => CopyIsWhole
  BY DEF IInv
<1> QED
  BY <1>1, Invariance, PTL

(* One step of what a queue with one writer promises the camera: no reset. *)
LEMMA StepKeepsSession ==
  IInv /\ [Next]_vars
    => [maps /\ ~shared
          => /\ session' = session
             /\ write_idx <= write_idx' /\ read_idx <= read_idx'
             /\ (state = kStateReady => state' # kStateStarting)]_vars
<1> SUFFICES ASSUME IInv, [Next]_vars, maps, ~shared
             PROVE  /\ session' = session
                    /\ write_idx <= write_idx' /\ read_idx <= read_idx'
                    /\ (state = kStateReady => state' # kStateStarting)
  OBVIOUS
<1>1. write_idx \in Nat /\ read_idx \in Nat
  BY DEF IInv, TypeOK
<1>2. ASSUME UNCHANGED <<state, session, write_idx, read_idx>>
      PROVE  /\ session' = session
             /\ write_idx <= write_idx' /\ read_idx <= read_idx'
             /\ (state = kStateReady => state' # kStateStarting)
  BY <1>1, <1>2
<1>3. CASE \E w \in Writers : Writes(w)
  <2> PICK w \in Writers : Writes(w)
    BY <1>3
  <2>1. CASE Create(w)
    BY <1>2, <2>1 DEF Create, Exists
  <2>2. CASE Initialise(w)
    BY <1>1, <2>2 DEF Initialise, IInv, WriterInv, OneWriter
  <2>3. CASE PublishFrame(w)
    BY <1>1, <2>3 DEF PublishFrame, IInv, WriterInv, OneWriter
  <2>4. CASE BeginFrame(w)
    BY <1>1, <2>4 DEF BeginFrame
  <2>5. CASE Close(w)
    BY <1>1, <2>5 DEF Close
  <2> QED
    BY <1>2, <2>1, <2>2, <2>3, <2>4, <2>5 DEF Writes, Check, CopyChunk, Crash
<1> QED
  BY <1>2, <1>3 DEF Next, CameraMaps, BeginRead, ReadChunk, EndRead, CameraUnmaps, vars

(* A mapped queue is reset only by a writer that had looked too early.     *)
THEOREM ResetOnlyLate == Spec => ResetOnlyByLateOpen
BY StepKeepsSession, Invariance, PTL DEF Spec, ResetOnlyByLateOpen
==============================================================================
