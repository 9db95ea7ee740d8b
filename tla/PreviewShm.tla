------------------------------ MODULE PreviewShm ------------------------------
(***************************************************************************)
(* The preview of the camera page: camera_engine.py writes each frame into *)
(* a named shared memory (class PreviewShm), the page copies it into a     *)
(* texture (updatePreviewTexture).  Neither locks, and neither marks a     *)
(* frame as half written: only the generation tells that there is another  *)
(* frame.  The memory lives as long as anybody maps it, so that it may     *)
(* survive the engine that wrote it.                                       *)
(*                                                                         *)
(* A frame is a number; what is in the memory and in the texture is the    *)
(* number of the frame each chunk comes from, 0 for none.                  *)
(*                                                                         *)
(* A lost device, or one short of memory, fails the calls that make or map *)
(* the texture.  The page has marked the generation as seen by then.       *)
(***************************************************************************)
EXTENDS Naturals

CONSTANTS NumChunks, MaxWritten   (* frames written *)

VARIABLES
  mem,     (* the header and the data                                       *)
  engine,  (* where the engine is: "off", or in write()                     *)
  ready,   (* _header_ready                                                 *)
  written, (* the number of the last frame begun                            *)
  chunk,   (* the chunks of it that are written                             *)
  page,    (* where the page is: "unmapped", "idle" or "copy"               *)
  copied,  (* the chunks it has copied                                      *)
  lastGen, texture,
  target,  (* ps.texture and ps.srv: "none", "texture" alone, or the "view" *)
  missed,  (* what the page looked at last could not be copied              *)
  reset    (* the generations began anew since the page last looked         *)

engineVars == <<mem, engine, ready, written, chunk>>
pageVars == <<page, copied, lastGen, texture, target, missed>>
vars == <<engineVars, pageVars, reset>>

Chunks == 1 .. NumChunks
Nothing == [c \in Chunks |-> 0]
Zeroed == [magic |-> FALSE, generation |-> 0, data |-> Nothing]

Init ==
  /\ mem = Zeroed
  /\ engine = "off" /\ ready = FALSE /\ written = 0 /\ chunk = 0
  /\ page = "unmapped" /\ copied = 0 /\ lastGen = 0 /\ texture = Nothing
  /\ target = "none" /\ missed = FALSE /\ reset = FALSE

-----------------------------------------------------------------------------
(* The engine.                                                             *)

(* mmap makes the memory, or finds that which a page still maps.           *)
Start ==
  /\ engine = "off" /\ engine' = "between"
  /\ ready' = FALSE
  /\ UNCHANGED <<mem, written, chunk, pageVars, reset>>

(* The first write() of an engine: magic, sizes, generation 0.             *)
WriteHeader ==
  /\ engine = "between" /\ ~ready /\ ready' = TRUE
  /\ mem' = [magic |-> TRUE, generation |-> 0, data |-> mem.data]
  /\ reset' = TRUE
  /\ UNCHANGED <<engine, written, chunk, pageVars>>

WriteChunk ==
  /\ ready
  /\ \/ engine = "between" /\ written < MaxWritten
        /\ written' = written + 1 /\ chunk' = 1
     \/ engine = "data" /\ chunk < NumChunks
        /\ chunk' = chunk + 1 /\ UNCHANGED written
  /\ engine' = "data"
  /\ mem' = [mem EXCEPT !.data[chunk'] = written']
  /\ UNCHANGED <<ready, pageVars, reset>>

Bump ==
  /\ engine = "data" /\ chunk = NumChunks
  /\ mem' = [mem EXCEPT !.generation = @ + 1]
  /\ engine' = "between" /\ chunk' = 0
  /\ UNCHANGED <<ready, written, pageVars, reset>>

(* It is stopped, or ends anywhere.                                        *)
End ==
  /\ engine # "off" /\ engine' = "off" /\ chunk' = 0
  /\ mem' = IF page = "unmapped" THEN Zeroed ELSE mem
  /\ UNCHANGED <<ready, written, pageVars, reset>>

-----------------------------------------------------------------------------
(* The page, once in each frame it draws.                                  *)

(* OpenFileMapping finds the memory only while an engine has it.           *)
Map ==
  /\ page = "unmapped" /\ engine # "off"
  /\ page' = "idle"
  /\ UNCHANGED <<engineVars, copied, lastGen, texture, target, missed, reset>>

(* CreateTexture2D, then CreateShaderResourceView; a texture that has no   *)
(* view is never given one.                                                *)
Made(old) == IF old = "none" THEN {"none", "texture", "view"} ELSE {old}

(* Another generation than the last: it is remembered; and it is copied,   *)
(* if there is a texture with a view, and it can be mapped.                *)
Look ==
  /\ page = "idle"
  /\ mem.magic /\ lastGen # mem.generation
  /\ lastGen' = mem.generation
  /\ copied' = 0 /\ reset' = FALSE
  /\ \E t \in Made(target) : \E mapped \in {FALSE, t = "view"} :
       /\ target' = t
       /\ missed' = ~mapped
       /\ page' = IF mapped THEN "copy" ELSE "idle"
  /\ UNCHANGED <<engineVars, texture>>

Copy ==
  /\ page = "copy" /\ copied < NumChunks
  /\ copied' = copied + 1
  /\ texture' = [texture EXCEPT ![copied'] = mem.data[copied']]
  /\ UNCHANGED <<engineVars, page, lastGen, target, missed, reset>>

Copied ==
  /\ page = "copy" /\ copied = NumChunks /\ page' = "idle"
  /\ UNCHANGED <<engineVars, copied, lastGen, texture, target, missed, reset>>

Next ==
  \/ Start \/ WriteHeader \/ WriteChunk \/ Bump \/ End
  \/ Map \/ Look \/ Copy \/ Copied

Spec == Init /\ [][Next]_vars

-----------------------------------------------------------------------------
(* Properties.                                                             *)

Frames == [Chunks -> 0 .. MaxWritten]

(* Types.                                                                  *)
TypeOK ==
  /\ mem \in [magic : BOOLEAN, generation : 0 .. MaxWritten, data : Frames]
  /\ engine \in {"off", "between", "data"} /\ ready \in BOOLEAN
  /\ written \in 0 .. MaxWritten /\ chunk \in 0 .. NumChunks
  /\ page \in {"unmapped", "idle", "copy"} /\ copied \in 0 .. NumChunks
  /\ lastGen \in 0 .. MaxWritten /\ texture \in Frames
  /\ target \in {"none", "texture", "view"} /\ missed \in BOOLEAN /\ reset \in BOOLEAN

(* Whatever was torn while it was copied, the preview settles on the last  *)
(* frame: between two writes, when the page sees no other generation, its  *)
(* texture is what the engine wrote.  Not so when an engine began to count *)
(* anew and has come to the very number the page remembers; nor when the   *)
(* page could not make or map the texture for the frame it looked at last, *)
(* which it then takes for shown until the engine writes another.          *)
PreviewSettles ==
  engine = "between" /\ ready /\ page = "idle" /\ lastGen = mem.generation /\ ~reset /\ ~missed
    => texture = mem.data
==============================================================================
