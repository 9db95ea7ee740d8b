---------------------------- MODULE PreviewCanvas ----------------------------
(***************************************************************************)
(* ui/widgets/PreviewCanvas.cpp, and the sliders beside it: the picture of *)
(* the preview is dragged with the mouse and zoomed with the wheel, about  *)
(* the point under the mouse.                                              *)
(*                                                                         *)
(* Left to right and top to bottom are treated alike; there is one         *)
(* direction here.  The canvas is the interval from 0 to Width, and all    *)
(* lengths are whole; a step of the wheel is a factor of 2 (1.1 in the     *)
(* code).  A pan is a fraction (a float in the code).  Zoom and pan come   *)
(* from the configuration's file or from a slider's text field as they     *)
(* are: 0 and -1 stand for the zooms below 1, whose picture leaves the     *)
(* canvas bare, MaxZoom + 1 for those above the largest.                   *)
(***************************************************************************)
EXTENDS Integers

CONSTANTS Width,     (* m_canvasSize: even, so that its middle is whole     *)
          MaxZoom    (* kMaxZoom, above kMinZoom, which is 1                *)

VARIABLES
  zoom, pan,    (* the page's parameters                                    *)
  dragging, grabOffset,
  did           (* what the last drawing did: how, to what picture, with    *)
                (* the mouse where                                          *)

vars == <<zoom, pan, dragging, grabOffset, did>>

Nothing == [how |-> "nothing", at |-> 0, zoom |-> 1, mouse |-> 0]

WholePan(p) == [num |-> p, den |-> 1]
SamePan(p, q) == p.num * q.den = q.num * p.den

(* What a file or a text field may hold.                                   *)
Zooms == {-1, 0, 1, 2, MaxZoom + 1}
Pans == {WholePan(p) : p \in {-2, 0, 1}}

Init ==
  /\ zoom \in Zooms /\ pan \in Pans
  /\ dragging = FALSE /\ grabOffset = 0
  /\ did = Nothing

Clamp(v, lo, hi) == IF v < lo THEN lo ELSE IF v > hi THEN hi ELSE v

-----------------------------------------------------------------------------
(* The picture.                                                            *)

FrameSize(z) == Width * z

(* How far it can be from the middle.                                      *)
MaxOffset(z) == (FrameSize(z) - Width) \div 2

FramePos(z, p) == (MaxOffset(z) * p.num) \div p.den - MaxOffset(z)

(* The pan of a picture at x; 0 when there is nothing to pan.              *)
PanOf(x, z) ==
  IF MaxOffset(z) = 0 THEN WholePan(0)
  ELSE [num |-> Clamp(x + MaxOffset(z), -MaxOffset(z), MaxOffset(z)), den |-> MaxOffset(z)]

(* Mutant of Zoomed: the corner of the picture stays, not the point.       *)
ZoomedAtCorner(x, mouse, from, to) == x

(* Where the picture must be for the point under the mouse to stay there.  *)
Zoomed(x, mouse, from, to) == mouse - ((mouse - x) * FrameSize(to)) \div FrameSize(from)

Step(wheel) ==
  Clamp(IF wheel > 0 THEN zoom * 2 ELSE IF wheel < 0 THEN zoom \div 2 ELSE zoom, 1, MaxZoom)

-----------------------------------------------------------------------------
(* draw(), once a frame.  Each of its three parts may call onChange, all   *)
(* of them with what the page passed when the frame began; the last call   *)
(* stands.                                                                 *)
Draw ==
  \E mouse \in {0, Width \div 4, Width}, wheel \in {-1, 0, 1},
     doubleClick \in BOOLEAN, down \in BOOLEAN :
    LET x == FramePos(zoom, pan)
        grabbed == IF dragging THEN grabOffset ELSE mouse - x
        drags == down /\ zoom > 1
        draggedPan == PanOf(Clamp(mouse - grabbed, Width - FrameSize(zoom), 0), zoom)
        Changed(how, z, p) ==
          /\ zoom' = z /\ pan' = p
          /\ did' = [how |-> how, at |-> x, zoom |-> zoom, mouse |-> mouse]
    IN /\ dragging' = down
       /\ grabOffset' = IF down THEN grabbed ELSE grabOffset
       /\ IF drags /\ ~SamePan(draggedPan, pan) THEN Changed("drag", zoom, draggedPan)
          ELSE IF doubleClick /\ (zoom # 1 \/ pan.num # 0) THEN Changed("reset", 1, WholePan(0))
          ELSE IF wheel # 0 /\ Step(wheel) # zoom
          THEN Changed("wheel", Step(wheel), PanOf(Zoomed(x, mouse, zoom, Step(wheel)), Step(wheel)))
          ELSE Changed("nothing", zoom, pan)

(* The sliders of the page, of which one is used at a time, and none       *)
(* during a drag.                                                          *)
Slide ==
  /\ ~dragging
  /\ \/ zoom' \in Zooms /\ UNCHANGED pan
     \/ pan' \in Pans /\ UNCHANGED zoom
  /\ did' = Nothing
  /\ UNCHANGED <<dragging, grabOffset>>

Next == Draw \/ Slide

Spec == Init /\ [][Next]_vars

-----------------------------------------------------------------------------
(* Properties.                                                             *)

(* Types.                                                                  *)
TypeOK ==
  /\ zoom \in Int /\ pan \in [num : Int, den : Nat \ {0}]
  /\ dragging \in BOOLEAN /\ grabOffset \in Int
  /\ did \in [how : {"nothing", "wheel", "reset", "drag"}, at : Int, zoom : Int,
              mouse : 0 .. Width]

Position == FramePos(zoom, pan)

AtAnEdge == Position \in {0, Width - FrameSize(zoom)}

InRange == zoom >= 1 /\ -pan.den <= pan.num /\ pan.num <= pan.den

(* While zoom and pan are in their range, however wheel, drags, double     *)
(* clicks and sliders follow each other, the picture covers the canvas;    *)
(* and whatever the file or a slider had given, the first thing done on    *)
(* the canvas itself brings them into their range.                         *)
CoversCanvas ==
  /\ InRange => Position <= 0 /\ Position + FrameSize(zoom) >= Width
  /\ did.how # "nothing" => InRange

(* A turn of the wheel leaves the point under the mouse where it is, to    *)
(* one unit of length, and a drag keeps the point grabbed under the mouse, *)
(* unless the picture comes to an edge.                                    *)
PointsStayUnderMouse ==
  /\ did.how = "wheel" =>
       \/ AtAnEdge
       \/ (did.mouse - did.at) * zoom - (did.mouse - Position) * did.zoom \in -did.zoom .. did.zoom
  /\ did.how = "drag" => AtAnEdge \/ did.mouse - Position = grabOffset
==============================================================================
