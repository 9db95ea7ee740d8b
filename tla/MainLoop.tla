------------------------------- MODULE MainLoop -------------------------------
(***************************************************************************)
(* apps/toolbox/main.cpp: the window, its tray icon and menu, and the loop *)
(* that pumps messages, recreates a lost device, and draws and presents    *)
(* frames; around it wWinMain, which starts and stops the HardwareService. *)
(* All of it is one thread.  The menu of the tray icon pumps messages of   *)
(* its own while it is open, so that wndProc is entered within wndProc.    *)
(*                                                                         *)
(* A Direct3D object is represented by the number of the device that made  *)
(* it, Null when the pointer is null.  The pages keep a plain pointer to   *)
(* the first device, and what they made with it, through every recovery.   *)
(***************************************************************************)
EXTENDS Integers

CONSTANT MaxDevices   (* how many devices are created *)

VARIABLES
  at,      (* where the thread is                                           *)
  window,  (* "hidden", "shown" or "destroyed"                              *)
  tray,    (* g_trayAdded                                                   *)
  icon,    (* the taskbar shows the icon                                    *)
  posted,  (* the messages posted: WM_REAL_EXIT, WM_QUIT                    *)
  gfx,     (* g_device, g_swapChain, g_rtv, and the device of ImGui's backend *)
  made,    (* how many devices were created                                 *)
  gone,    (* the current device was removed or reset                       *)
  lost, occluded, (* g_deviceLost, g_swapChainOccluded                      *)
  pages,   (* m_ctx.d3dDevice, which all pages are given                    *)
  views,   (* the devices of the textures of IconCache and of the preview   *)
  service  (* the HardwareService runs                                      *)

vars == <<at, window, tray, icon, posted, gfx, made, gone, lost, occluded, pages, views,
          service>>
graphics == <<gfx, made, gone, lost, occluded, pages, views>>

Null == 0
Places == {"start", "pump", "menu", "recover", "draw", "leave", "stopping", "over", "crashed"}

Init ==
  /\ at = "start" /\ window = "hidden" /\ posted = {}
  /\ tray = FALSE /\ icon = FALSE
  /\ gfx = [device |-> Null, swapChain |-> Null, rtv |-> Null, backend |-> Null]
  /\ made = 0 /\ gone = FALSE /\ lost = FALSE /\ occluded = FALSE
  /\ pages = Null /\ views = {}
  /\ service = TRUE

Go(from, to) == at = from /\ at' = to

-----------------------------------------------------------------------------
(* The device.                                                             *)

(* createDeviceAndSwapChain without a device, without a swap chain,        *)
(* without a render target, and complete; the first three return false.    *)
Partial(n) == {[device |-> p[1], swapChain |-> p[2], rtv |-> Null, backend |-> Null] :
                 p \in {<<Null, Null>>, <<n, Null>>, <<n, n>>}}
Complete(n) == [device |-> n, swapChain |-> n, rtv |-> n, backend |-> n]

Start ==
  /\ at = "start"
  /\ \/ /\ made' = 1 /\ gfx' = Complete(1) /\ pages' = 1
        /\ tray' = TRUE /\ icon' \in BOOLEAN   (* NIM_ADD may fail *)
        /\ window' \in {"shown", "hidden"}   (* --minimized *)
        /\ at' = "pump"
     \/ /\ gfx' \in Partial(1)               (* runApp returns 1 *)
        /\ at' = "stopping"
        /\ UNCHANGED <<made, pages, tray, icon, window>>
  /\ UNCHANGED <<posted, gone, lost, occluded, views, service>>

(* The driver is updated, or stops responding.                             *)
DeviceGoes ==
  /\ at \notin {"start", "stopping", "over", "crashed"}
  /\ gfx.device # Null /\ ~gone
  /\ gone' = TRUE
  /\ UNCHANGED <<at, window, tray, icon, posted, gfx, made, lost, occluded, pages, views, service>>

(* The taskbar restarts, and forgets its icons; the program adds it once.  *)
TaskbarRestarts ==
  /\ icon /\ icon' = FALSE
  /\ UNCHANGED <<at, window, tray, posted, graphics, service>>

-----------------------------------------------------------------------------
(* wndProc, called by the loop and by the menu.                            *)

Dispatching == at \in {"pump", "menu"} /\ window # "destroyed"

(* ResizeBuffers and what follows may fail; nobody looks.                  *)
Size ==
  /\ Dispatching /\ gfx.swapChain # Null
  /\ \E rtv \in {Null, gfx.device} : gfx' = [gfx EXCEPT !.rtv = rtv]
  /\ UNCHANGED <<at, window, tray, icon, posted, made, gone, lost, occluded, pages, views, service>>

Close ==
  /\ Dispatching
  /\ window' = "hidden"
  /\ UNCHANGED <<at, tray, icon, posted, graphics, service>>

RemoveTrayIcon == tray' = FALSE /\ icon' = FALSE

(* WM_DESTROY is sent by DestroyWindow.                                    *)
Destroyed == window' = "destroyed" /\ RemoveTrayIcon

(* Mutant of RealExit: as a close.                                         *)
RealExitHides ==
  /\ Dispatching /\ "exit" \in posted
  /\ posted' = posted \ {"exit"}
  /\ RemoveTrayIcon /\ window' = "hidden"
  /\ UNCHANGED <<at, graphics, service>>

RealExit ==
  /\ Dispatching /\ "exit" \in posted
  /\ posted' = {"quit"}   (* no message is left to a destroyed window *)
  /\ Destroyed
  /\ UNCHANGED <<at, graphics, service>>

OpenFromTray ==
  /\ Dispatching /\ at = "pump" /\ icon
  /\ window' = "shown"
  /\ UNCHANGED <<at, tray, icon, posted, graphics, service>>

OpenMenu ==
  /\ Dispatching /\ icon
  /\ Go("pump", "menu")
  /\ UNCHANGED <<window, tray, icon, posted, graphics, service>>

(* Open; start or stop the camera's output, or nothing; exit.  The window  *)
(* may have been destroyed while the menu was open.                        *)
Choose ==
  /\ Go("menu", "pump")
  /\ \/ /\ window' = IF window = "destroyed" THEN window ELSE "shown"
        /\ UNCHANGED <<tray, icon, posted>>
     \/ UNCHANGED <<window, tray, icon, posted>>
     \/ /\ RemoveTrayIcon
        /\ posted' = IF window = "destroyed" THEN posted ELSE posted \cup {"exit"}
        /\ UNCHANGED window
  /\ UNCHANGED <<graphics, service>>

-----------------------------------------------------------------------------
(* The loop.                                                               *)

(* PeekMessage finds no further message.  WM_QUIT ends the loop.           *)
Pumped ==
  /\ "exit" \notin posted
  /\ Go("pump", IF "quit" \in posted THEN "leave" ELSE "recover")
  /\ posted' = {}
  /\ UNCHANGED <<window, tray, icon, graphics, service>>

(* ImGui's backend is shut down and everything released before the new     *)
(* device is created, and the backend initialised with it.  The pages are  *)
(* told nothing: their pointer and their textures stay.                    *)
Recovered(n) == Complete(n)

Recover ==
  /\ at = "recover" /\ lost
  /\ \/ /\ made < MaxDevices
        /\ gfx' = Recovered(made + 1)
        /\ made' = made + 1 /\ lost' = FALSE /\ gone' = FALSE
        /\ UNCHANGED at
     \/ /\ gfx' \in Partial(made + 1)
        /\ at' = "leave"
        /\ UNCHANGED <<made, lost, gone>>
  /\ UNCHANGED <<window, tray, icon, posted, occluded, pages, views, service>>

(* Present with DXGI_PRESENT_TEST, as long as the last said occluded.      *)
TestOccluded ==
  /\ at = "recover" /\ ~lost
  /\ \E still \in {FALSE, occluded /\ ~gone} :
       occluded' = still /\ at' = IF still THEN "pump" ELSE "draw"
  /\ UNCHANGED <<window, tray, icon, posted, gfx, made, gone, lost, pages, views, service>>

(* The pages make the textures of new icons and of the preview with the    *)
(* device they were given, unless it is removed.  When neither the loop    *)
(* nor a texture holds it any longer, their pointer dangles: the program   *)
(* may crash, or find the new device in the old one's place.               *)
MakeViews ==
  IF pages \in views \cup {gfx.device}
  THEN /\ at' = "pump"
       /\ views' \in {views, views \cup {n \in {pages} : n = gfx.device /\ ~gone}}
  ELSE /\ at' \in {"pump", "crashed"}
       /\ views' \in {views, views \cup {gfx.device}}

(* The pages draw, of which the sidebar may ask to quit; the frame is      *)
(* rendered and presented.                                                 *)
Draw ==
  /\ at = "draw" /\ MakeViews
  /\ posted' \in {posted, posted \cup {"exit"}}
  /\ \/ gone /\ lost' = TRUE /\ occluded' = FALSE
     \/ ~gone /\ occluded' \in BOOLEAN /\ UNCHANGED lost
  /\ UNCHANGED <<window, tray, icon, gfx, made, gone, pages, service>>

(* Shutting down ImGui's backend a second time is a failed assertion, or   *)
(* without assertions a null pointer.                                      *)
Leave ==
  /\ at = "leave"
  /\ IF gfx.backend = Null
     THEN at' = "crashed" /\ UNCHANGED <<window, tray, icon, gfx>>
     ELSE /\ at' = "stopping"
          /\ gfx' = Complete(Null)   (* everything is released *)
          /\ Destroyed
  /\ UNCHANGED <<posted, made, gone, lost, occluded, pages, views, service>>

StopService ==
  /\ Go("stopping", "over")
  /\ service' = FALSE
  /\ UNCHANGED <<window, tray, icon, posted, graphics>>

Ended == at \in {"over", "crashed"} /\ UNCHANGED vars

Next ==
  \/ Start \/ DeviceGoes \/ TaskbarRestarts
  \/ Size \/ Close \/ RealExit \/ OpenFromTray \/ OpenMenu \/ Choose
  \/ Pumped \/ Recover \/ TestOccluded \/ Draw \/ Leave \/ StopService
  \/ Ended

Spec == Init /\ [][Next]_vars

-----------------------------------------------------------------------------
(* Properties.                                                             *)

(* Types.                                                                  *)
TypeOK ==
  /\ at \in Places /\ window \in {"shown", "hidden", "destroyed"}
  /\ tray \in BOOLEAN /\ icon \in BOOLEAN /\ posted \subseteq {"exit", "quit"}
  /\ LET Made == 0 .. MaxDevices + 1
     IN gfx \in [device : Made, swapChain : Made, rtv : Made, backend : Made]
  /\ made \in 0 .. MaxDevices /\ pages \in {Null, 1}
  /\ views \subseteq 1 .. MaxDevices + 1
  /\ gone \in BOOLEAN /\ lost \in BOOLEAN /\ occluded \in BOOLEAN
  /\ service \in BOOLEAN

(* Whatever came before it (resizes, occlusion, recoveries, a menu), the   *)
(* loop's own objects with which a frame is drawn, the backend, the swap   *)
(* chain and the render target (or none), are of one device, which is not  *)
(* known to be lost.  Until the first recovery so are the pages' pointer   *)
(* and their textures; after it HandlesRender says what is not promised.   *)
LoopDrawsOnOneDevice ==
  at = "draw" =>
    /\ ~lost /\ gfx.device # Null
    /\ gfx.swapChain = gfx.device /\ gfx.backend = gfx.device
    /\ gfx.rtv \in {Null, gfx.device}
    /\ made = 1 => pages = gfx.device /\ views \subseteq {gfx.device}

(* What IconCache.h:12-13 says of the texture handles, that they are for   *)
(* rendering: those there are when a frame is drawn are of the device that *)
(* draws it.                                                               *)
HandlesRender == at = "draw" => views \subseteq {gfx.device}

(* The program never withdraws both its window and its icon unless it is   *)
(* about to end.  (That the taskbar shows the icon is not promised.)       *)
NeverStranded ==
  at \in {"pump", "recover", "draw"} /\ window # "shown" /\ ~tray
    => posted # {}
==============================================================================
