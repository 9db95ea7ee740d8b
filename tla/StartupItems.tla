---------------------------- MODULE StartupItems ----------------------------
(***************************************************************************)
(* StartupProvider's operations on startup items and the startup page that *)
(* asks for them.  An item is a file of a startup folder or a value of a   *)
(* Run key; it is disabled by giving it a name with a suffix, and enabled  *)
(* by taking the suffix away.  The page acts on a copy of an item of the   *)
(* latest snapshot, while installers change folder and key at any moment.  *)
(*                                                                         *)
(* RegQueryValueEx needs KEY_QUERY_VALUE; the keys are opened for          *)
(* KEY_SET_VALUE alone, so it is refused, and a registry item is never     *)
(* renamed.  Values with the suffix therefore do not occur.                *)
(*                                                                         *)
(* As AsyncOperation shows, the second operation terminates the program;   *)
(* it is then started anew, with the folder and the key as they are.       *)
(***************************************************************************)
EXTENDS Integers, FiniteSets

CONSTANTS Names,     (* names of items                                      *)
          Contents,  (* what a file or a value starts                       *)
          OwnName, OwnCommand, (* the toolbox's own value of the Run key    *)
          MaxChanges (* bound: how often others change the folder or key    *)

Absent == "absent"

VARIABLES
  folder,   (* the startup folder, with and without the suffix              *)
  registry, (* the Run key                                                  *)
  listing,  (* the published snapshot                                       *)
  pending,  (* the items the delete dialog is open for: none or one         *)
  op,       (* the operation's thread: none, task, key (opened), done       *)
  item,     (* the item it was given                                        *)
  kind,     (* enable, disable or delete                                    *)
  success,  (* lastOperation()->success                                     *)
  changes   (* how often others have changed something                      *)

store == <<folder, registry>>
page == <<listing, pending>>
operation == <<op, item, kind, success>>
vars == <<store, page, operation, changes>>

Items == [place : {"folder", "registry"}, name : Names, enabled : BOOLEAN]

(* What refresh() publishes.  A folder that changes while it is enumerated *)
(* gives a listing that is out of date for that name, as a later change    *)
(* does to any listing.                                                    *)
Listing ==
  {i \in Items : IF i.place = "folder"
                 THEN folder[<<i.name, i.enabled>>] # Absent
                 ELSE i.enabled /\ registry[i.name] # Absent}

Init ==
  /\ folder \in [Names \X BOOLEAN -> Contents \cup {Absent}]
  /\ registry \in [Names -> Contents \cup {Absent}]
  /\ listing = {} /\ pending = {}
  /\ op = "none" /\ item \in Items /\ kind = "enable" /\ success = FALSE
  /\ changes = 0

Refresh ==
  /\ listing' = Listing
  /\ UNCHANGED <<store, pending, operation, changes>>

-----------------------------------------------------------------------------
(* The page.                                                               *)

(* runOperation: dropped while a thread runs, fatal after one has.         *)
Request(i, k) ==
  CASE op = "none" -> /\ op' = "task" /\ item' = i /\ kind' = k
                      /\ UNCHANGED <<listing, success>>
    [] op \in {"task", "key"} -> UNCHANGED <<operation, listing>>
    [] op = "done" -> /\ op' = "none" /\ listing' = {} /\ success' = FALSE
                      /\ UNCHANGED <<item, kind>>

Toggle ==
  /\ pending = {}
  /\ \E i \in listing : Request(i, IF i.enabled THEN "disable" ELSE "enable")
  /\ UNCHANGED <<store, pending, changes>>

(* The dialog is modal: nothing else can be asked while it is open.        *)
AskDelete ==
  /\ pending = {}
  /\ \E i \in listing : pending' = {i}
  /\ UNCHANGED <<store, listing, operation, changes>>

ConfirmDelete ==
  /\ \E i \in pending : Request(i, "delete")
  /\ pending' = {}
  /\ UNCHANGED <<store, changes>>

CancelDelete ==
  /\ pending # {}
  /\ pending' = {}
  /\ UNCHANGED <<store, listing, operation, changes>>

-----------------------------------------------------------------------------
(* The task of an operation.                                               *)

Ends(from, ok) ==
  /\ op = from /\ op' = "done"
  /\ success' = ok
  /\ UNCHANGED <<item, kind, page, changes>>

(* The file under the name it has, and under the name it is to have.       *)
Current == <<item.name, item.enabled>>
Target == <<item.name, ~item.enabled>>

Move(f, from, to) == [f EXCEPT ![to] = f[from], ![from] = Absent]

(* Mutant of CanMove: a file that is in the way is replaced.               *)
CanMoveOver == folder[Current] # Absent

(* MoveFile refuses a name that is taken.                                  *)
CanMove == folder[Current] # Absent /\ folder[Target] = Absent

IsRename == item.place = "folder" /\ kind \in {"enable", "disable"}

(* Mutant of Rename: the rename is forgotten, its success is not.          *)
RenameReportsOnly ==
  /\ IsRename
  /\ UNCHANGED store
  /\ Ends("task", CanMove)

(* doSetEnabled, for a file.                                               *)
Rename ==
  /\ IsRename
  /\ CanMove
  /\ folder' = Move(folder, Current, Target)
  /\ UNCHANGED registry
  /\ Ends("task", TRUE)

(* doRemove.                                                               *)
Delete ==
  /\ kind = "delete"
  /\ \/ /\ item.place = "folder"
        /\ folder[Current] # Absent
        /\ folder' = [folder EXCEPT ![Current] = Absent]
        /\ UNCHANGED registry
     \/ /\ item.place = "registry"
        /\ registry[item.name] # Absent
        /\ registry' = [registry EXCEPT ![item.name] = Absent]
        /\ UNCHANGED folder
  /\ Ends("task", TRUE)

(* The file or the value is not there, its new name is taken, or it may    *)
(* not be touched.                                                         *)
Fails ==
  /\ UNCHANGED store
  /\ Ends("task", FALSE)

(* What the key is opened for.                                             *)
KeyAccess == {"KEY_SET_VALUE"}

(* doSetEnabled, for a value: the key is opened ...                        *)
OpenKey ==
  /\ op = "task" /\ item.place = "registry" /\ kind # "delete"
  /\ op' = "key"
  /\ UNCHANGED <<store, page, item, kind, success, changes>>

CanQuery == registry[item.name] # Absent /\ "KEY_QUERY_VALUE" \in KeyAccess

(* ... and the value is queried; it would then be written under its new    *)
(* name and deleted under the old one.                                     *)
QueryValue ==
  /\ registry' = IF CanQuery THEN [registry EXCEPT ![item.name] = Absent] ELSE registry
  /\ UNCHANGED folder
  /\ Ends("key", CanQuery)

-----------------------------------------------------------------------------
(* setAutoStart, from the diagnostics page: the toolbox's own value is     *)
(* written or deleted, whatever the startup page is doing to it.  What it  *)
(* returns is not looked at.                                               *)
SetAutoStart ==
  /\ pending = {}
  /\ registry' = [registry EXCEPT ![OwnName] = IF @ = Absent THEN OwnCommand ELSE Absent]
  /\ UNCHANGED <<folder, page, operation, changes>>

-----------------------------------------------------------------------------
(* Others: programs are installed, replaced and removed.                   *)
Changed ==
  /\ changes < MaxChanges
  /\ changes' = changes + 1
  /\ \/ /\ \E n \in Names, enabled \in BOOLEAN, c \in Contents \cup {Absent} :
             folder' = [folder EXCEPT ![<<n, enabled>>] = c]
        /\ UNCHANGED registry
     \/ /\ \E n \in Names, c \in Contents \cup {Absent} :
             registry' = [registry EXCEPT ![n] = c]
        /\ UNCHANGED folder
  /\ UNCHANGED <<page, operation>>

Next ==
  \/ Refresh \/ Toggle \/ AskDelete \/ ConfirmDelete \/ CancelDelete
  \/ Rename \/ Delete \/ Fails \/ OpenKey \/ QueryValue
  \/ SetAutoStart
  \/ Changed

Spec == Init /\ [][Next]_vars

-----------------------------------------------------------------------------
(* Properties.                                                             *)

(* Types.                                                                  *)
TypeOK ==
  /\ folder \in [Names \X BOOLEAN -> Contents \cup {Absent}]
  /\ registry \in [Names -> Contents \cup {Absent}]
  /\ listing \subseteq Items /\ pending \subseteq Items /\ Cardinality(pending) <= 1
  /\ op \in {"none", "task", "key", "done"} /\ item \in Items
  /\ kind \in {"enable", "disable", "delete"} /\ success \in BOOLEAN
  /\ changes \in 0 .. MaxChanges

Operates == op \in {"task", "key"} /\ op' = "done"

Copies(c) == Cardinality({f \in DOMAIN folder : folder[f] = c})

(* Enabling and disabling lose nothing: whatever installers did since the  *)
(* snapshot, every file's content is still in the folder afterwards.       *)
ContentKept ==
  [][ Operates /\ kind # "delete" => \A c \in Contents : Copies(c)' = Copies(c) ]_vars

(* Deleting takes the file or the value the user confirmed, under the name *)
(* it was shown with, and nothing else.                                    *)
OnlyPickedDeleted ==
  [][ Operates /\ kind = "delete"
        => /\ \A f \in DOMAIN folder :
                folder'[f] # folder[f] => f = Current /\ item.place = "folder"
           /\ \A n \in Names :
                registry'[n] # registry[n] => n = item.name /\ item.place = "registry" ]_vars

(* The result the page shows tells whether anything was changed.           *)
ReportIsTrue == [][ Operates => (success' <=> store' # store) ]_vars
==============================================================================
