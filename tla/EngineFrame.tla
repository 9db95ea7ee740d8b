----------------------------- MODULE EngineFrame -----------------------------
(***************************************************************************)
(* The geometry of camera_engine.py: what transform() makes of the size of *)
(* a frame, by rotating it, cutting out the part that zoom and pan choose, *)
(* and fitting it into the output with black bars.                         *)
(*                                                                         *)
(* Zoom and pan are fractions, and the arithmetic is exact; that of Python *)
(* is in floating point.  Pixels are not modelled: brightness, contrast,   *)
(* saturation and flips leave the size as it is.                           *)
(***************************************************************************)
EXTENDS Integers

CONSTANTS
  MaxSide,             (* the largest width or height of a camera's frame   *)
  OutWidth, OutHeight, (* OUT_WIDTH, OUT_HEIGHT                             *)
  Den                  (* the denominator of zoom and pan                   *)

VARIABLES
  size,   (* the width and height of the frame                              *)
  params, (* rotation, zoom and pan                                         *)
  stage,  (* how far transform() is                                         *)
  crop,   (* the part cut out                                               *)
  bars    (* where fit_to_size put the frame in the output                  *)

vars == <<size, params, stage, crop, bars>>

Least(a, b) == IF a < b THEN a ELSE b
Most(a, b) == IF a > b THEN a ELSE b
Clamp(v, lo, hi) == Most(lo, Least(v, hi))

(* round(a / b) of Python: a half goes to the even neighbour.              *)
Round(a, b) ==
  LET q == a \div b
      r == 2 * (a % b)
  IN IF r < b \/ (r = b /\ q % 2 = 0) THEN q ELSE q + 1

Whole == [x |-> 0, y |-> 0, w |-> 0, h |-> 0]

Default == [rotation |-> 0, zoom |-> Den, panX |-> 0, panY |-> 0]

Init ==
  /\ size = [w |-> 1, h |-> 1] /\ params = Default
  /\ stage = "idle" /\ crop = Whole /\ bars = Whole

-----------------------------------------------------------------------------
(* compute_crop and fit_to_size, in each direction.                        *)

(* int(w / zoom), at least 1 and at most w: all of it for a zoom below 1,  *)
(* one pixel for a negative one.                                           *)
CropLength(length, zoom) ==
  IF zoom < 0 THEN 1 ELSE Most(1, Least((length * Den) \div zoom, length))

(* Mutant of CropStart: the crop begins where its centre should be.        *)
CropStartCentred(length, kept, pan) ==
  Clamp(Round(length * (Den + Clamp(pan, -Den, Den)), 2 * Den), 0, length)

(* Half of what is cut off, moved by the pan, stays within the frame.      *)
CropStart(length, kept, pan) ==
  LET cut == length - kept
  IN Clamp(Round(cut * (Den + Clamp(pan, -Den, Den)), 2 * Den), 0, cut)

(* A zoom within a hundredth of 1 cuts nothing; one of 0 has no crop.      *)
compute_crop(s, p) ==
  IF 100 * (p.zoom - Den) <= Den /\ 100 * (Den - p.zoom) <= Den
  THEN [x |-> 0, y |-> 0, w |-> s.w, h |-> s.h]
  ELSE LET w == CropLength(s.w, p.zoom)
           h == CropLength(s.h, p.zoom)
       IN [x |-> CropStart(s.w, w, p.panX), y |-> CropStart(s.h, h, p.panY), w |-> w, h |-> h]

(* The smaller of the two scales; the frame in the middle of the output.   *)
fit_to_size(s) ==
  LET byWidth == OutWidth * s.h <= OutHeight * s.w
      w == IF byWidth THEN OutWidth ELSE Most(1, Round(s.w * OutHeight, s.h))
      h == IF byWidth THEN Most(1, Round(s.h * OutWidth, s.w)) ELSE OutHeight
  IN [x |-> (OutWidth - w) \div 2, y |-> (OutHeight - h) \div 2, w |-> w, h |-> h]

-----------------------------------------------------------------------------
(* transform(), and the parameters and frames it meets.                    *)

Rotations == {0, 90, 180, 270}
(* The file of the configuration may have any zoom and pan, and so may the *)
(* sliders' text fields.                                                   *)
Zooms == {-Den, 0, 1, Den, Den + 1, 2 * Den, 3 * Den}
Pans == {-2 * Den, -Den, -1, 0, 1, Den}

Read ==
  /\ stage = "idle" /\ stage' = "rotate"
  /\ size' \in [w : 1 .. MaxSide, h : 1 .. MaxSide]
  /\ params' \in [rotation : Rotations, zoom : Zooms, panX : Pans, panY : {0, Den}]
  /\ UNCHANGED <<crop, bars>>

(* A rotated frame is fitted into the output before it is cut.             *)
Rotate ==
  /\ stage = "rotate" /\ stage' = "cut"
  /\ size' = IF params.rotation = 0 THEN size ELSE [w |-> OutWidth, h |-> OutHeight]
  /\ bars' = CASE params.rotation = 0         -> bars
               [] params.rotation \in {90, 270} -> fit_to_size([w |-> size.h, h |-> size.w])
               [] OTHER                        -> fit_to_size(size)
  /\ UNCHANGED <<params, crop>>

Cut ==
  /\ stage = "cut" /\ stage' = "fit"
  /\ params.zoom # 0
  /\ crop' = compute_crop(size, params)
  /\ UNCHANGED <<size, params, bars>>

Fit ==
  /\ stage = "fit" /\ stage' = "done"
  /\ bars' = fit_to_size([w |-> crop.w, h |-> crop.h])
  /\ UNCHANGED <<size, params, crop>>

(* Nothing of a frame is kept.                                             *)
Forget ==
  /\ stage' = "idle"
  /\ size' = [w |-> 1, h |-> 1] /\ params' = Default
  /\ crop' = Whole /\ bars' = Whole

Send == stage = "done" /\ Forget

(* A zoom of 0 divides by zero, and the loop's handler of exceptions loses *)
(* the frame.                                                              *)
Lose == stage = "cut" /\ params.zoom = 0 /\ Forget

Next == Read \/ Rotate \/ Cut \/ Fit \/ Send \/ Lose

Spec == Init /\ [][Next]_vars

-----------------------------------------------------------------------------
(* Properties.                                                             *)

(* Types.                                                                  *)
TypeOK ==
  /\ size \in [w : 1 .. Most(MaxSide, OutWidth), h : 1 .. Most(MaxSide, OutHeight)]
  /\ params \in [rotation : Rotations, zoom : Zooms, panX : Pans, panY : Pans]
  /\ stage \in {"idle", "rotate", "cut", "fit", "done"}
  /\ {crop, bars} \subseteq [x : Nat, y : Nat, w : Nat, h : Nat]

Within(part, w, h) ==
  /\ part.w >= 1 /\ part.h >= 1 /\ part.x >= 0 /\ part.y >= 0
  /\ part.x + part.w <= w /\ part.y + part.h <= h

(* No camera, rotation, zoom or pan makes the engine slice outside of an   *)
(* array: what is cut out, whenever a part is cut out, is within the       *)
(* frame, also for the zooms below 1 and the pans out of range that a file *)
(* may have; what is put between the bars is within the output, of which   *)
(* it fills the width or the height.  (A zoom of 0 loses every frame.)     *)
FramesFit ==
  /\ stage = "fit" => Within(crop, size.w, size.h)
  /\ bars # Whole => /\ Within(bars, OutWidth, OutHeight)
                     /\ bars.w = OutWidth \/ bars.h = OutHeight

(* The pan goes from one edge of the frame to the other, and 0 is the      *)
(* middle, to half a pixel.                                                *)
PanReachesTheEdges ==
  stage = "fit" /\ crop.w < size.w =>
    LET rest == size.w - crop.w - crop.x
    IN /\ params.panX <= -Den => crop.x = 0
       /\ params.panX = Den => rest = 0
       /\ params.panX = 0 => crop.x - rest \in -1 .. 1
==============================================================================
