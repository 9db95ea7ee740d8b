--------------------------- MODULE SystemMC_proofs ---------------------------
(***************************************************************************)
(* Proofs about the components of SystemMC, for every value of their       *)
(* constants, and about all of them together.                              *)
(***************************************************************************)
EXTENDS SystemMC, ProcessMenu_proofs, SequenceTheorems, FiniteSetTheorems

-----------------------------------------------------------------------------
(* The startup items.                                                      *)
LEMMA StartupConstants ==
  /\ IsFiniteSet(Names) /\ OwnName \in Names /\ OwnCommand \in Contents
  /\ Startup!Absent \notin Contents /\ MaxChanges \in Nat
BY ConstantsAssumption

LEMMA StartupCardinality == \A S : Startup!Cardinality(S) = Cardinality(S)
BY DEF Startup!Cardinality, Cardinality

LEMMA StartupInitially == Startup!Init => Startup!TypeOK
<1>. SUFFICES ASSUME Startup!Init PROVE Startup!TypeOK
  OBVIOUS
<1>1. Startup!Cardinality(picked) <= 1
  BY FS_EmptySet, StartupCardinality DEF Startup!Init
<1>2. itemOp \in {"none", "task", "key", "done"} /\ kind \in {"enable", "disable", "delete"}
  BY DEF Startup!Init
<1>3. success \in BOOLEAN
  BY Zenon DEF Startup!Init
<1>4. changes \in 0 .. MaxChanges
  BY StartupConstants DEF Startup!Init
<1>. QED
  BY <1>1, <1>2, <1>3, <1>4 DEF Startup!Init, Startup!TypeOK

(* The dialog is open for one item at most.                                *)
LEMMA StartupAsked ==
  ASSUME Startup!TypeOK, picked' \subseteq listing,
         picked' = {} \/ picked' = picked \/ \E i \in listing : picked' = {i}
  PROVE  picked' \subseteq Startup!Items /\ Startup!Cardinality(picked') <= 1
<1>1. \A i : Startup!Cardinality({i}) <= 1
  <2>1. \A i : Cardinality({i}) = 1
    BY FS_Singleton
  <2>. QED  BY <2>1, StartupCardinality
<1>2. Startup!Cardinality({}) <= 1
  BY FS_EmptySet, StartupCardinality
<1>3. /\ listing \subseteq Startup!Items /\ picked \subseteq Startup!Items
      /\ Startup!Cardinality(picked) <= 1
  BY DEF Startup!TypeOK
<1>. QED
  BY <1>1, <1>2, <1>3

LEMMA StartupRequested ==
  ASSUME Startup!TypeOK, NEW i \in Startup!Items, NEW k \in {"enable", "disable", "delete"},
         Startup!Request(i, k)
  PROVE  /\ itemOp' \in {"none", "task", "key", "done"} /\ item' \in Startup!Items
         /\ kind' \in {"enable", "disable", "delete"} /\ success' \in BOOLEAN
         /\ listing' \subseteq Startup!Items
<1>1. CASE itemOp = "none"
  BY <1>1 DEF Startup!Request, Startup!TypeOK
<1>2. CASE itemOp \in {"task", "key"}
  BY <1>2 DEF Startup!Request, Startup!TypeOK, Startup!operation
<1>3. CASE itemOp = "done"
  BY <1>3 DEF Startup!Request, Startup!TypeOK
<1>. QED  BY <1>1, <1>2, <1>3 DEF Startup!TypeOK

(* The files and values stay what they can be.                             *)
StartupStore ==
  /\ folder \in [Names \X BOOLEAN -> Contents \cup {Startup!Absent}]
  /\ registry \in [Names -> Contents \cup {Startup!Absent}]

LEMMA StartupTyped ==
  ASSUME Startup!TypeOK
  PROVE  /\ StartupStore /\ item \in Startup!Items /\ itemOp \in {"none", "task", "key", "done"}
         /\ Startup!Current \in Names \X BOOLEAN /\ Startup!Target \in Names \X BOOLEAN
         /\ item.name \in Names /\ Startup!Current # Startup!Target
         /\ kind \in {"enable", "disable", "delete"} /\ success \in BOOLEAN
<1>1. item.name \in Names /\ item.enabled \in BOOLEAN
  BY DEF Startup!TypeOK, Startup!Items
<1>2. <<item.name, item.enabled>> # <<item.name, ~item.enabled>>
  BY <1>1
<1>. QED
  BY <1>1, <1>2 DEF Startup!TypeOK, StartupStore, Startup!Current, Startup!Target

(* The query of a value is always refused.                                 *)
LEMMA QueryRefused == Startup!CanQuery = FALSE
BY DEF Startup!CanQuery, Startup!KeyAccess

(* An operation that ends: it moved the file, deleted what it was given,   *)
(* or did nothing.                                                         *)
MovesFile ==
  /\ kind # "delete" /\ success' = TRUE
  /\ folder[Startup!Current] # Startup!Absent /\ folder[Startup!Target] = Startup!Absent
  /\ folder' = [folder EXCEPT ![Startup!Target] = folder[Startup!Current],
                              ![Startup!Current] = Startup!Absent]
  /\ registry' = registry

DeletesFile ==
  /\ kind = "delete" /\ success' = TRUE /\ item.place = "folder"
  /\ folder[Startup!Current] # Startup!Absent
  /\ folder' = [folder EXCEPT ![Startup!Current] = Startup!Absent]
  /\ registry' = registry

DeletesValue ==
  /\ kind = "delete" /\ success' = TRUE /\ item.place = "registry"
  /\ registry[item.name] # Startup!Absent
  /\ registry' = [registry EXCEPT ![item.name] = Startup!Absent]
  /\ folder' = folder

DoesNothing == success' = FALSE /\ folder' = folder /\ registry' = registry

LEMMA StartupEnds ==
  ASSUME Startup!TypeOK,
         Startup!Rename \/ Startup!Delete \/ Startup!Fails \/ Startup!QueryValue
  PROVE  /\ MovesFile \/ DeletesFile \/ DeletesValue \/ DoesNothing
         /\ itemOp' = "done" /\ UNCHANGED <<item, kind, listing, picked, changes>>
<1>1. CASE Startup!Rename
  <2>1. kind # "delete"
    BY <1>1 DEF Startup!Rename, Startup!IsRename
  <2>. QED
    BY <1>1, <2>1 DEF Startup!Rename, Startup!CanMove, Startup!Move, Startup!Ends, Startup!page,
                      MovesFile
<1>2. CASE Startup!Delete
  BY <1>2 DEF Startup!Delete, Startup!Ends, Startup!page, DeletesFile, DeletesValue
<1>3. CASE Startup!Fails
  BY <1>3 DEF Startup!Fails, Startup!Ends, Startup!page, Startup!store, DoesNothing
<1>4. CASE Startup!QueryValue
  BY <1>4, QueryRefused DEF Startup!QueryValue, Startup!Ends, Startup!page, DoesNothing
<1>. QED  BY <1>1, <1>2, <1>3, <1>4

LEMMA StartupStepTyped ==
  ASSUME Startup!TypeOK, Startup!Next
  PROVE  Startup!TypeOK'
<1>. USE DEF Startup!store, Startup!page, Startup!operation
<1>1. CASE Startup!Refresh
  BY <1>1 DEF Startup!Refresh, Startup!Listing, Startup!TypeOK
<1>2. CASE Startup!Toggle
  <2>1. PICK i \in listing : Startup!Request(i, IF i.enabled THEN "disable" ELSE "enable")
    BY <1>2 DEF Startup!Toggle
  <2>2. i \in Startup!Items
    BY <2>1 DEF Startup!TypeOK
  <2>3. UNCHANGED <<folder, registry, picked, changes>>
    BY <1>2 DEF Startup!Toggle
  <2>. QED
    BY <2>1, <2>2, <2>3, StartupRequested DEF Startup!TypeOK
<1>3. CASE Startup!AskDelete
  <2>1. picked' \subseteq Startup!Items /\ Startup!Cardinality(picked') <= 1
    BY <1>3, StartupAsked DEF Startup!AskDelete
  <2>. QED  BY <1>3, <2>1 DEF Startup!AskDelete, Startup!TypeOK
<1>4. CASE Startup!ConfirmDelete
  <2>1. PICK i \in picked : Startup!Request(i, "delete")
    BY <1>4 DEF Startup!ConfirmDelete
  <2>2. i \in Startup!Items
    BY <2>1 DEF Startup!TypeOK
  <2>3. UNCHANGED <<folder, registry, changes>> /\ picked' = {}
    BY <1>4 DEF Startup!ConfirmDelete
  <2>4. picked' \subseteq Startup!Items /\ Startup!Cardinality(picked') <= 1
    BY <2>3, StartupAsked
  <2>. QED
    BY <2>1, <2>2, <2>3, <2>4, StartupRequested DEF Startup!TypeOK
<1>5. CASE Startup!CancelDelete
  <2>1. picked' \subseteq Startup!Items /\ Startup!Cardinality(picked') <= 1
    BY <1>5, StartupAsked DEF Startup!CancelDelete
  <2>. QED  BY <1>5, <2>1 DEF Startup!CancelDelete, Startup!TypeOK
<1>6. CASE Startup!Rename \/ Startup!Delete \/ Startup!Fails \/ Startup!QueryValue
  <2>1. StartupStore'
    BY <1>6, StartupEnds, StartupTyped
    DEF MovesFile, DeletesFile, DeletesValue, DoesNothing, StartupStore
  <2>2. success' \in BOOLEAN
    BY <1>6, StartupEnds DEF MovesFile, DeletesFile, DeletesValue, DoesNothing
  <2>. QED
    BY <1>6, <2>1, <2>2, StartupEnds DEF Startup!TypeOK, StartupStore
<1>7. CASE Startup!OpenKey
  BY <1>7 DEF Startup!OpenKey, Startup!TypeOK
<1>8. CASE Startup!SetAutoStart
  BY <1>8, StartupConstants DEF Startup!SetAutoStart, Startup!TypeOK
<1>9. CASE Startup!Changed
  <2>1. StartupStore'
    BY <1>9, StartupTyped DEF Startup!Changed, StartupStore
  <2>2. changes' \in 0 .. MaxChanges
    BY <1>9, StartupConstants DEF Startup!Changed, Startup!TypeOK
  <2>. QED
    BY <1>9, <2>1, <2>2 DEF Startup!Changed, Startup!TypeOK, StartupStore
<1>. QED
  BY <1>1, <1>2, <1>3, <1>4, <1>5, <1>6, <1>7, <1>8, <1>9 DEF Startup!Next

(* What an operation that ended did.                                       *)
LEMMA StartupOperated ==
  ASSUME Startup!TypeOK, [Startup!Next]_(Startup!vars), Startup!Operates
  PROVE  MovesFile \/ DeletesFile \/ DeletesValue \/ DoesNothing
<1>1. itemOp \in {"task", "key"} /\ itemOp' = "done"
  BY DEF Startup!Operates
<1>2. ASSUME NEW i, NEW k, Startup!Request(i, k)
      PROVE  FALSE
  BY <1>1, <1>2 DEF Startup!Request, Startup!operation
<1>3. ~Startup!Toggle /\ ~Startup!ConfirmDelete
  BY <1>2 DEF Startup!Toggle, Startup!ConfirmDelete
<1>4. itemOp' # itemOp
  BY <1>1
<1>5. Startup!Rename \/ Startup!Delete \/ Startup!Fails \/ Startup!QueryValue
  BY <1>1, <1>3, <1>4
  DEF Startup!Next, Startup!vars, Startup!operation, Startup!Refresh, Startup!AskDelete,
      Startup!CancelDelete, Startup!OpenKey, Startup!SetAutoStart, Startup!Changed
<1>. QED  BY <1>5, StartupEnds

(* A file that got another name is still there.                            *)
LEMMA MovedIsKept ==
  ASSUME Startup!TypeOK, MovesFile, NEW c \in Contents
  PROVE  Startup!Copies(c)' = Startup!Copies(c)
<1> DEFINE from == Startup!Current
           to == Startup!Target
           D == Names \X BOOLEAN
           S == {f \in D : folder[f] = c}
           T == {f \in D : folder'[f] = c}
<1>1. from \in D /\ to \in D /\ from # to /\ c # Startup!Absent
  BY StartupTyped, StartupConstants
<1>2. DOMAIN folder = D /\ DOMAIN folder' = D
  BY StartupTyped DEF StartupStore, MovesFile
<1>3. Startup!Copies(c) = Cardinality(S) /\ Startup!Copies(c)' = Cardinality(T)
  BY <1>2, StartupCardinality DEF Startup!Copies
<1>4. /\ folder'[from] = Startup!Absent /\ folder'[to] = folder[from]
      /\ \A f \in D : f # from /\ f # to => folder'[f] = folder[f]
  BY <1>1, <1>2 DEF MovesFile
<1>5. IsFiniteSet(S)
  <2>1. IsFiniteSet(BOOLEAN)
    <3>1. IsFiniteSet({TRUE}) /\ IsFiniteSet({FALSE})
      BY FS_Singleton
    <3>2. IsFiniteSet({TRUE} \cup {FALSE})
      BY <3>1, FS_Union
    <3>3. BOOLEAN = {TRUE} \cup {FALSE}
      OBVIOUS
    <3>. QED  BY <3>2, <3>3
  <2>2. IsFiniteSet(D)
    BY <2>1, StartupConstants, FS_Product
  <2>. QED  BY <2>2, FS_Subset
<1>6. CASE folder[from] # c
  <2>1. T = S
    BY <1>1, <1>4, <1>6 DEF MovesFile
  <2>. QED  BY <1>3, <2>1
<1>7. CASE folder[from] = c
  <2>1. to \notin S /\ from \in S /\ T = (S \ {from}) \cup {to}
    BY <1>1, <1>4, <1>7 DEF MovesFile
  <2>2. /\ IsFiniteSet(S \ {from}) /\ Cardinality(S \ {from}) = Cardinality(S) - 1
        /\ Cardinality(S) \in Nat
    BY <1>5, <2>1, FS_RemoveElement, FS_CardinalityType
  <2>3. Cardinality((S \ {from}) \cup {to}) = Cardinality(S \ {from}) + 1
    <3>1. to \notin S \ {from}
      BY <2>1
    <3>. HIDE DEF S, to
    <3>. QED  BY <2>2, <3>1, FS_AddElement
  <2>4. Cardinality(T) = Cardinality(S)
    <3>. HIDE DEF S, T, to, from
    <3>. QED  BY <2>1, <2>2, <2>3
  <2>. QED  BY <1>3, <2>4
<1>. QED  BY <1>6, <1>7

(* Whatever was installed since the snapshot: no operation loses a file    *)
(* but the one to delete, none but the item the user picked is deleted,    *)
(* and the result tells whether something was done; for any number of      *)
(* names, contents and changes.                                            *)
THEOREM StartupIsSound ==
  Startup!Spec =>
    /\ []Startup!TypeOK /\ Startup!ContentKept /\ Startup!OnlyPickedDeleted
    /\ Startup!ReportIsTrue
<1>1. Startup!TypeOK /\ [Startup!Next]_(Startup!vars) => Startup!TypeOK'
  <2>1. Startup!TypeOK /\ UNCHANGED Startup!vars => Startup!TypeOK'
    BY DEF Startup!TypeOK, Startup!vars, Startup!store, Startup!page, Startup!operation
  <2>. QED  BY <2>1, StartupStepTyped
<1>2. ASSUME Startup!TypeOK, [Startup!Next]_(Startup!vars)
      PROVE  Startup!Operates /\ kind # "delete"
               => \A c \in Contents : Startup!Copies(c)' = Startup!Copies(c)
  <2>. SUFFICES ASSUME Startup!Operates, kind # "delete", NEW c \in Contents
                PROVE  Startup!Copies(c)' = Startup!Copies(c)
    OBVIOUS
  <2>1. MovesFile \/ DoesNothing
    BY <1>2, StartupOperated DEF DeletesFile, DeletesValue
  <2>2. DoesNothing => Startup!Copies(c)' = Startup!Copies(c)
    BY DEF DoesNothing, Startup!Copies
  <2>. QED  BY <1>2, <2>1, <2>2, MovedIsKept
<1>3. ASSUME Startup!TypeOK, [Startup!Next]_(Startup!vars)
      PROVE  Startup!Operates /\ kind = "delete"
               => /\ \A f \in DOMAIN folder :
                       folder'[f] # folder[f] => f = Startup!Current /\ item.place = "folder"
                  /\ \A n \in Names :
                       registry'[n] # registry[n] => n = item.name /\ item.place = "registry"
  BY <1>3, StartupOperated, StartupTyped
  DEF MovesFile, DeletesFile, DeletesValue, DoesNothing, StartupStore
<1>4. ASSUME Startup!TypeOK, [Startup!Next]_(Startup!vars)
      PROVE  Startup!Operates => (success' <=> Startup!store' # Startup!store)
  <2>. SUFFICES ASSUME Startup!Operates
                PROVE  success' <=> <<folder', registry'>> # <<folder, registry>>
    BY DEF Startup!store
  <2>1. MovesFile => folder' # folder
    BY <1>4, StartupTyped DEF MovesFile, StartupStore
  <2>2. DeletesFile => folder' # folder
    BY <1>4, StartupTyped DEF DeletesFile, StartupStore
  <2>3. DeletesValue => registry' # registry
    BY <1>4, StartupTyped DEF DeletesValue, StartupStore
  <2>4. MovesFile \/ DeletesFile \/ DeletesValue \/ DoesNothing
    BY <1>4, StartupOperated
  <2>. QED
    BY <2>1, <2>2, <2>3, <2>4 DEF MovesFile, DeletesFile, DeletesValue, DoesNothing
<1>. QED
  BY <1>1, <1>2, <1>3, <1>4, StartupInitially, PTL
  DEF Startup!Spec, Startup!ContentKept, Startup!OnlyPickedDeleted, Startup!ReportIsTrue

-----------------------------------------------------------------------------
(* The virtual camera of Windows.                                          *)

(* A direct flag has left its action.                                      *)
CameraInv ==
  /\ Camera!TypeOK /\ Camera!ReportIsTrue
  /\ toolbox # Camera!Off /\ toolbox.flag = "direct" => action # Camera!Nothing

CameraAsked == [op : Camera!Operations, name : CameraNames]

LEMMA CameraAskedIs ==
  ASSUME NEW a \in CameraAsked \cup {Camera!Nothing}, a # Camera!Nothing
  PROVE  /\ a \in CameraAsked /\ a = [op |-> a.op, name |-> a.name]
         /\ a.op \in {"register", "unregister"} /\ a.name \in CameraNames
BY DEF CameraAsked, Camera!Operations

(* An operation that ran: it did nothing but what was asked, and its       *)
(* report is true.                                                         *)
LEMMA CameraPerforms ==
  ASSUME CameraInv, NEW a \in CameraAsked, Camera!Perform(a)
  PROVE  /\ installed' \subseteq CameraNames
         /\ report' \in [op : Camera!Operations, name : CameraNames, success : BOOLEAN]
         /\ report'.success => (report'.name \in installed' <=> report'.op = "register")
         /\ \A n \in CameraNames : (n \in installed) # (n \in installed') =>
              a = [op |-> IF n \in installed' THEN "register" ELSE "unregister", name |-> n]
<1> DEFINE after == IF a.op = "register" THEN installed \cup {a.name} ELSE installed \ {a.name}
<1>1. /\ a = [op |-> a.op, name |-> a.name]
      /\ a.op \in {"register", "unregister"} /\ a.name \in CameraNames
  BY DEF CameraAsked, Camera!Operations
<1>2. installed \subseteq CameraNames
  BY DEF CameraInv, Camera!TypeOK
<1>3. after \subseteq CameraNames /\ (a.name \in after <=> a.op = "register")
  BY <1>1, <1>2
<1>4. \A n \in CameraNames : (n \in installed) # (n \in after) =>
        a = [op |-> IF n \in after THEN "register" ELSE "unregister", name |-> n]
  <2>. SUFFICES ASSUME NEW n \in CameraNames, (n \in installed) # (n \in after)
                PROVE  /\ n = a.name
                       /\ a.op = IF n \in after THEN "register" ELSE "unregister"
    BY <1>1
  <2>1. CASE a.op = "register"
    BY <2>1
  <2>2. CASE a.op = "unregister"
    BY <2>2
  <2>. QED  BY <1>1, <2>1, <2>2
<1>5. \/ /\ installed' = after
         /\ report' = [op |-> a.op, name |-> a.name, success |-> TRUE]
      \/ /\ installed' \in {installed, after}
         /\ report' = [op |-> a.op, name |-> a.name, success |-> FALSE]
  BY DEF Camera!Perform
<1>. HIDE DEF after
<1>6. installed' \subseteq CameraNames
  BY <1>2, <1>3, <1>5
<1>7. report' \in [op : Camera!Operations, name : CameraNames, success : BOOLEAN]
  <2>1. PICK outcome \in BOOLEAN :
          report' = [op |-> a.op, name |-> a.name, success |-> outcome]
    BY <1>5
  <2>. QED  BY <1>1, <2>1 DEF Camera!Operations
<1>8. report'.success => (report'.name \in installed' <=> report'.op = "register")
  <2>1. CASE report' = [op |-> a.op, name |-> a.name, success |-> FALSE]
    BY <2>1
  <2>2. CASE installed' = after /\ report' = [op |-> a.op, name |-> a.name, success |-> TRUE]
    BY <1>3, <2>2
  <2>. QED  BY <1>5, <2>1, <2>2
<1>9. \A n \in CameraNames : (n \in installed) # (n \in installed') =>
        a = [op |-> IF n \in installed' THEN "register" ELSE "unregister", name |-> n]
  <2>1. CASE installed' = installed
    BY <2>1
  <2>2. CASE installed' = after
    BY <1>4, <2>2
  <2>. QED  BY <1>5, <2>1, <2>2
<1>. QED  BY <1>6, <1>7, <1>8, <1>9

LEMMA CameraTyped ==
  ASSUME CameraInv
  PROVE  /\ action \in CameraAsked \cup {Camera!Nothing}
         /\ running \in CameraAsked \cup {Camera!Nothing}
         /\ toolbox # Camera!Off =>
              toolbox \in [flag : {"plain", "direct", "auto"}, elevated : BOOLEAN]
BY DEF CameraInv, Camera!TypeOK, CameraAsked

(* The two steps that operate.                                             *)
LEMMA CameraOperates ==
  ASSUME CameraInv, Camera!Direct \/ Camera!Operate
  PROVE  \E a \in {action, running} : a \in CameraAsked /\ Camera!Perform(a)
<1>1. CASE Camera!Direct
  <2>1. action # Camera!Nothing /\ Camera!Perform(action)
    BY <1>1 DEF Camera!Direct, CameraInv
  <2>. QED  BY <2>1, CameraTyped, CameraAskedIs
<1>2. CASE Camera!Operate
  <2>1. running # Camera!Nothing /\ Camera!Perform(running)
    BY <1>2 DEF Camera!Operate
  <2>. QED  BY <2>1, CameraTyped, CameraAskedIs
<1>. QED  BY <1>1, <1>2

LEMMA CameraPreserved == CameraInv /\ [Camera!Next]_(Camera!cameraVars) => CameraInv'
<1>. SUFFICES ASSUME CameraInv, [Camera!Next]_(Camera!cameraVars) PROVE CameraInv'
  OBVIOUS
<1>1. CASE UNCHANGED Camera!cameraVars
  BY <1>1 DEF Camera!cameraVars, CameraInv, Camera!TypeOK, Camera!ReportIsTrue
<1>2. ASSUME NEW flag \in {"plain", "direct", "auto"}, NEW asks \in Camera!Operations,
             NEW name \in CameraNames, NEW elevated \in BOOLEAN,
             Camera!Launch(flag, asks, name, elevated)
      PROVE  CameraInv'
  <2>1. toolbox' \in [flag : {"plain", "direct", "auto"}, elevated : BOOLEAN]
        /\ toolbox'.flag = flag
    BY <1>2 DEF Camera!Launch
  <2>2. action' \in CameraAsked \cup {Camera!Nothing} /\ (flag # "plain" => action' # Camera!Nothing)
    BY <1>2 DEF Camera!Launch, CameraAsked, Camera!Nothing, Camera!Operations
  <2>3. running' = Camera!Nothing /\ report' = Camera!Nothing
        /\ friendly' = Camera!Unnamed /\ installed' = installed
    BY <1>2 DEF Camera!Launch
  <2>. QED
    BY <2>1, <2>2, <2>3 DEF CameraInv, Camera!TypeOK, Camera!ReportIsTrue, CameraAsked
<1>3. CASE Camera!Direct \/ Camera!Operate
  <2>1. PICK a \in {action, running} : a \in CameraAsked /\ Camera!Perform(a)
    BY <1>3, CameraOperates
  <2>2. /\ UNCHANGED <<toolbox, action, friendly>>
        /\ running' \in {running, Camera!Nothing}
    BY <1>3 DEF Camera!Direct, Camera!Operate
  <2>. QED
    BY <2>1, <2>2, CameraPerforms DEF CameraInv, Camera!TypeOK, Camera!ReportIsTrue
<1>4. CASE Camera!DrawCameraPage
  <2>1. action' = Camera!Nothing /\ UNCHANGED <<installed, toolbox, report>>
        /\ toolbox.flag = "auto"
    BY <1>4 DEF Camera!DrawCameraPage
  <2>2. /\ action \in CameraAsked /\ action.name \in CameraNames
        /\ friendly \in CameraNames \cup {Camera!Unnamed}
        /\ running \in CameraAsked \cup {Camera!Nothing} /\ DefaultName \in CameraNames
    BY <1>4, CameraTyped, CameraAskedIs, ConstantsAssumption
    DEF Camera!DrawCameraPage, CameraInv, Camera!TypeOK
  <2>3. /\ friendly' \in CameraNames \cup {Camera!Unnamed}
        /\ running' \in CameraAsked \cup {Camera!Nothing}
    BY <1>4, <2>2 DEF Camera!DrawCameraPage, CameraAsked, Camera!Operations
  <2>. QED
    BY <2>1, <2>3 DEF CameraInv, Camera!TypeOK, Camera!ReportIsTrue, CameraAsked
<1>5. CASE Camera!Quit
  BY <1>5 DEF Camera!Quit, CameraInv, Camera!TypeOK, Camera!ReportIsTrue
<1>. QED
  BY <1>1, <1>2, <1>3, <1>4, <1>5 DEF Camera!Next

(* What a camera's installer reports is true, and no camera is touched but *)
(* the one named and the default one; for any set of cameras.              *)
THEOREM CameraIsSound ==
  Camera!Spec =>
    []Camera!TypeOK /\ []Camera!ReportIsTrue /\ Camera!OthersKept
<1>1. Camera!Init => CameraInv
  BY DEF Camera!Init, CameraInv, Camera!TypeOK, Camera!ReportIsTrue
<1>2. ASSUME CameraInv, [Camera!Next]_(Camera!cameraVars)
      PROVE  \A n \in CameraNames : (n \in installed) # (n \in installed') =>
               n = DefaultName \/ [op |-> IF n \in installed' THEN "register" ELSE "unregister",
                                   name |-> n] \in {action, running}
  <2>. SUFFICES ASSUME NEW n \in CameraNames, (n \in installed) # (n \in installed')
                PROVE  [op |-> IF n \in installed' THEN "register" ELSE "unregister",
                        name |-> n] \in {action, running}
    OBVIOUS
  <2>1. installed' # installed
    OBVIOUS
  <2>2. Camera!Direct \/ Camera!Operate
    BY <1>2, <2>1 DEF Camera!Next, Camera!Launch, Camera!DrawCameraPage, Camera!Quit,
                      Camera!cameraVars
  <2>3. PICK a \in {action, running} : a \in CameraAsked /\ Camera!Perform(a)
    BY <1>2, <2>2, CameraOperates
  <2>. QED  BY <1>2, <2>3, CameraPerforms
<1>3. CameraInv => Camera!TypeOK /\ Camera!ReportIsTrue
  BY DEF CameraInv
<1>. QED
  BY <1>1, <1>2, <1>3, CameraPreserved, PTL DEF Camera!Spec, Camera!OthersKept

-----------------------------------------------------------------------------
(* A service.                                                              *)

(* The configuration in the cache was true no longer ago than its age says.*)
CacheFollows ==
  /\ lastTrue[config] = 0
  /\ cache.config # Service!None => lastTrue[cache.config] <= cache.age

(* The loop of a restart turns, and when it was left early the instance it *)
(* met has stopped, or there is another by now.                            *)
RestartFollows ==
  /\ serviceOp \in {"restart", "poll"} => polls < MaxPolls
  /\ told <= instance
  /\ serviceOp = "startAgain" /\ polls < MaxPolls /\ instance = told => state = "stopped"

ServiceInv == Service!TypeOK /\ CacheFollows /\ RestartFollows

LEMMA ServiceConstants ==
  /\ MaxAge \in Nat /\ MaxPolls \in Nat /\ MaxPolls > 0
  /\ MaxInstances \in Nat /\ MaxInstances > 0 /\ Service!None \notin Configs
  /\ Service!Expired \in Nat /\ Service!Expired = MaxAge + 1
BY ConstantsAssumption DEF Service!Expired

LEMMA ServiceInitially == Service!Init => ServiceInv
<1>. SUFFICES ASSUME Service!Init PROVE ServiceInv
  OBVIOUS
<1>1. /\ state \in {"stopped", "running"} /\ instance = 1 /\ config \in Configs
      /\ lastTrue = [c \in Configs |-> IF c = config THEN 0 ELSE Service!Expired]
      /\ cache = [config |-> Service!None, age |-> Service!Expired]
      /\ shown = [state |-> Service!None, config |-> Service!None]
      /\ pending = Service!None /\ serviceOp = "free" /\ polls = 0 /\ told = 0
  BY DEF Service!Init
<1>2. done \in BOOLEAN
  BY Zenon DEF Service!Init
<1>3. lastTrue \in [Configs -> 0 .. Service!Expired] /\ lastTrue[config] = 0
  BY <1>1, ServiceConstants
<1>4. instance \in 1 .. MaxInstances /\ polls \in 0 .. MaxPolls /\ told \in 0 .. MaxInstances
      /\ Service!Expired \in 0 .. Service!Expired
  BY <1>1, ServiceConstants
<1>5. Service!TypeOK
  BY <1>1, <1>2, <1>3, <1>4 DEF Service!TypeOK, Service!States
<1>6. CacheFollows
  BY <1>1, <1>3 DEF CacheFollows
<1>7. RestartFollows
  BY <1>1 DEF RestartFollows
<1>. QED  BY <1>5, <1>6, <1>7 DEF ServiceInv

LEMMA ServiceTyped ==
  ASSUME ServiceInv
  PROVE  /\ state \in Service!States /\ instance \in 1 .. MaxInstances
         /\ instance \in Int /\ told \in Int /\ polls \in Int
         /\ config \in Configs /\ lastTrue \in [Configs -> 0 .. Service!Expired]
         /\ cache \in [config : Configs \cup {Service!None}, age : 0 .. Service!Expired]
         /\ shown \in [state : Service!States \cup {Service!None},
                       config : Configs \cup {Service!None}]
         /\ pending \in {Service!None, "stop", "restart"}
         /\ serviceOp \in {"free", "start", "stop", "restart", "poll", "startAgain"}
         /\ polls \in 0 .. MaxPolls /\ done \in BOOLEAN /\ told \in 0 .. MaxInstances
         /\ lastTrue[config] = 0
         /\ cache.config # Service!None => lastTrue[cache.config] <= cache.age
         /\ serviceOp \in {"restart", "poll"} => polls < MaxPolls
         /\ told <= instance
         /\ serviceOp = "startAgain" /\ polls < MaxPolls /\ instance = told
              => state = "stopped"
<1>. SUFFICES instance \in Int /\ told \in Int /\ polls \in Int
  BY DEF ServiceInv, Service!TypeOK, CacheFollows, RestartFollows
<1>. QED  BY ServiceConstants DEF ServiceInv, Service!TypeOK

(* What starts, moves or leaves the service alone.                         *)
ServiceKept ==
  /\ state' \in Service!States
  /\ \/ instance' = instance
     \/ instance' = instance + 1 /\ instance < MaxInstances
  /\ instance' = instance /\ state = "stopped" => state' = "stopped"

LEMMA ServiceGoes ==
  ASSUME ServiceInv, \/ Service!ServiceStarts \/ Service!ServiceMoves
                     \/ UNCHANGED Service!service
                     \/ Service!Move("running", "stopping") /\ UNCHANGED instance
  PROVE  ServiceKept
BY ServiceTyped
DEF Service!ServiceStarts, Service!ServiceMoves, Service!Move, Service!service, Service!States,
    ServiceKept

(* The steps that move the service and the thread, and those that move     *)
(* neither.                                                                *)
LEMMA ServiceThread ==
  ASSUME ServiceInv, ServiceKept, UNCHANGED <<config, lastTrue, cache, shown>>,
         pending' \in {Service!None, "stop", "restart"}, done' \in BOOLEAN,
         serviceOp' \in {"free", "start", "stop", "restart", "poll", "startAgain"},
         polls' \in 0 .. MaxPolls, told' \in {told, instance},
         RestartFollows'
  PROVE  ServiceInv'
<1>1. instance' \in 1 .. MaxInstances /\ told' \in 0 .. MaxInstances
  BY ServiceTyped, ServiceConstants DEF ServiceKept
<1>2. CacheFollows'
  BY ServiceTyped DEF CacheFollows
<1>3. Service!TypeOK'
  BY <1>1, ServiceTyped DEF Service!TypeOK, ServiceKept
<1>. QED  BY <1>2, <1>3 DEF ServiceInv

LEMMA ServiceCache ==
  ASSUME ServiceInv, UNCHANGED <<state, instance, pending, serviceOp, polls, done, told>>,
         config' \in Configs, lastTrue' \in [Configs -> 0 .. Service!Expired],
         cache' \in [config : Configs \cup {Service!None}, age : 0 .. Service!Expired],
         shown' \in [state : Service!States \cup {Service!None},
                     config : Configs \cup {Service!None}],
         CacheFollows'
  PROVE  ServiceInv'
<1>1. RestartFollows'
  BY ServiceTyped DEF RestartFollows
<1>2. Service!TypeOK'
  BY ServiceTyped DEF Service!TypeOK
<1>. QED  BY <1>1, <1>2 DEF ServiceInv

LEMMA OlderGrows ==
  \A a, b \in 0 .. Service!Expired :
    /\ Service!Older(a) \in 0 .. Service!Expired
    /\ a <= b => Service!Older(a) <= Service!Older(b)
BY ServiceConstants DEF Service!Older

LEMMA ServiceTicks ==
  ASSUME ServiceInv, Service!Tick
  PROVE  ServiceInv'
<1>1. /\ cache' = [cache EXCEPT !.age = Service!Older(cache.age)]
      /\ lastTrue' = [c \in Configs |-> IF c = config THEN 0 ELSE Service!Older(lastTrue[c])]
      /\ UNCHANGED <<state, instance, config, shown, pending, serviceOp, polls, done, told>>
  BY DEF Service!Tick, Service!service, Service!thread
<1>2. cache.age \in 0 .. Service!Expired /\ cache.config \in Configs \cup {Service!None}
  BY ServiceTyped
<1>3. /\ cache' \in [config : Configs \cup {Service!None}, age : 0 .. Service!Expired]
      /\ cache'.config = cache.config /\ cache'.age = Service!Older(cache.age)
  BY <1>1, <1>2, ServiceTyped, OlderGrows
<1>4. \A c \in Configs : lastTrue[c] \in 0 .. Service!Expired
                         /\ Service!Older(lastTrue[c]) \in 0 .. Service!Expired
  BY ServiceTyped, OlderGrows
<1>5. 0 \in 0 .. Service!Expired
  BY ServiceConstants
<1>6. lastTrue' \in [Configs -> 0 .. Service!Expired] /\ lastTrue'[config'] = 0
  BY <1>1, <1>4, <1>5, ServiceTyped
<1>7. cache'.config # Service!None => lastTrue'[cache'.config] <= cache'.age
  <2>. SUFFICES ASSUME cache.config # Service!None
                PROVE  lastTrue'[cache.config] <= Service!Older(cache.age)
    BY <1>3
  <2>1. cache.config \in Configs /\ lastTrue[cache.config] <= cache.age
    BY <1>2, ServiceTyped
  <2>2. Service!Older(lastTrue[cache.config]) <= Service!Older(cache.age)
    BY <1>2, <1>4, <2>1, OlderGrows
  <2>3. 0 <= Service!Older(cache.age)
    BY <1>2, OlderGrows, ServiceConstants
  <2>. QED  BY <1>1, <2>1, <2>2, <2>3
<1>. QED
  BY <1>1, <1>3, <1>6, <1>7, ServiceTyped, ServiceCache DEF CacheFollows

LEMMA ServiceConfigured ==
  ASSUME ServiceInv, NEW c \in Configs, Service!Configure(c)
  PROVE  ServiceInv'
<1>1. /\ config' = c /\ lastTrue' = [lastTrue EXCEPT ![c] = 0]
      /\ UNCHANGED <<state, instance, cache, shown, pending, serviceOp, polls, done, told>>
  BY DEF Service!Configure, Service!service, Service!thread
<1>2. /\ lastTrue' \in [Configs -> 0 .. Service!Expired] /\ lastTrue'[c] = 0
      /\ \A d \in Configs : lastTrue'[d] \in {0, lastTrue[d]}
  BY <1>1, ServiceTyped, ServiceConstants
<1>3. cache.age \in Int /\ 0 <= cache.age /\ cache.config \in Configs \cup {Service!None}
  BY ServiceTyped, ServiceConstants
<1>4. cache.config # Service!None => lastTrue'[cache.config] <= cache.age
  BY <1>2, <1>3, ServiceTyped
<1>. QED
  BY <1>1, <1>2, <1>4, ServiceTyped, ServiceCache DEF CacheFollows

(* What a refresh shows was true no longer ago than the cache may be old.  *)
LEMMA ServiceRefreshes ==
  ASSUME ServiceInv, Service!Refresh
  PROVE  /\ ServiceInv'
         /\ shown'.config # Service!None => lastTrue'[shown'.config] <= MaxAge
<1>1. /\ cache' \in Service!Cached
      /\ shown' = [state |-> state, config |-> cache'.config]
      /\ UNCHANGED <<state, instance, config, lastTrue, pending, serviceOp, polls, done, told>>
  BY DEF Service!Refresh, Service!service, Service!thread
<1>2. /\ cache' \in [config : Configs \cup {Service!None}, age : 0 .. Service!Expired]
      /\ cache'.config # Service!None
           => lastTrue[cache'.config] <= cache'.age /\ lastTrue[cache'.config] <= MaxAge
  <2>1. CASE cache.age > MaxAge
    <3>1. cache' \in Service!Loads
      BY <1>1, <2>1 DEF Service!Cached
    <3>. QED
      BY <3>1, ServiceTyped, ServiceConstants DEF Service!Loads
  <2>2. CASE ~(cache.age > MaxAge)
    <3>1. cache' = cache
      BY <1>1, <2>2 DEF Service!Cached
    <3>2. cache.config # Service!None => cache.config \in Configs /\ lastTrue[cache.config] \in Int
      BY ServiceTyped, ServiceConstants
    <3>3. cache.age \in Int
      BY ServiceTyped, ServiceConstants
    <3>. QED
      BY <2>2, <3>1, <3>2, <3>3, ServiceTyped, ServiceConstants
  <2>. QED  BY <2>1, <2>2
<1>3. shown' \in [state : Service!States \cup {Service!None},
                  config : Configs \cup {Service!None}] /\ shown'.config = cache'.config
  BY <1>1, <1>2, ServiceTyped
<1>4. ServiceInv'
  BY <1>1, <1>2, <1>3, ServiceTyped, ServiceCache DEF CacheFollows
<1>. QED  BY <1>1, <1>2, <1>3, <1>4

LEMMA ServiceUnlisted ==
  ASSUME ServiceInv, Service!RefreshFails
  PROVE  ServiceInv' /\ shown'.config = Service!None
<1>1. /\ shown' = [state |-> Service!None, config |-> Service!None]
      /\ UNCHANGED <<state, instance, config, lastTrue, cache, pending, serviceOp, polls, done,
                     told>>
  BY DEF Service!RefreshFails, Service!service, Service!thread, Service!configuration
<1>. QED
  BY <1>1, ServiceTyped, ServiceCache DEF CacheFollows

LEMMA ServiceAsked ==
  ASSUME ServiceInv,
         Service!PickStart \/ Service!Confirm \/ Service!Cancel
           \/ \E which \in {"stop", "restart"} : Service!Pick(which)
  PROVE  ServiceInv'
<1>1. UNCHANGED <<state, instance, config, lastTrue, cache, shown, done>>
  BY DEF Service!PickStart, Service!Confirm, Service!Cancel, Service!Pick, Service!Begin,
         Service!service, Service!configuration, Service!thread
<1>2. ServiceKept
  BY <1>1, ServiceTyped DEF ServiceKept
<1>3. pending' \in {Service!None, "stop", "restart"}
  BY DEF Service!PickStart, Service!Confirm, Service!Cancel, Service!Pick, Service!Begin
<1>4. \/ UNCHANGED <<serviceOp, polls, told>>
      \/ /\ serviceOp' \in {"start", "stop", "restart"} /\ polls' = 0 /\ told' = instance
  BY ServiceTyped
  DEF Service!PickStart, Service!Confirm, Service!Cancel, Service!Pick, Service!Begin,
      Service!thread
<1>5. RestartFollows'
  BY <1>1, <1>4, ServiceTyped, ServiceConstants DEF RestartFollows
<1>6. /\ serviceOp' \in {"free", "start", "stop", "restart", "poll", "startAgain"}
      /\ polls' \in 0 .. MaxPolls /\ told' \in {told, instance}
  BY <1>4, ServiceTyped, ServiceConstants
<1>7. done' \in BOOLEAN
  BY <1>1, ServiceTyped
<1>. QED
  BY <1>1, <1>2, <1>3, <1>5, <1>6, <1>7, ServiceThread

(* The thread calls the service and ends, as it does not yet when it       *)
(* restarts one.                                                           *)
LEMMA ServiceEnds ==
  ASSUME ServiceInv, NEW outcome \in BOOLEAN, Service!Result(outcome), ServiceKept
  PROVE  ServiceInv'
<1>1. /\ serviceOp' = "free" /\ done' = outcome
      /\ UNCHANGED <<config, lastTrue, cache, shown, pending, polls, told>>
  BY DEF Service!Result, Service!configuration
<1>2. RestartFollows'
  BY <1>1, ServiceTyped DEF RestartFollows, ServiceKept
<1>. QED
  BY <1>1, <1>2, ServiceTyped, ServiceThread

LEMMA ServiceOperates ==
  ASSUME ServiceInv, Service!Thread
  PROVE  /\ ServiceInv'
         /\ serviceOp = "startAgain" /\ serviceOp' = "free" /\ done' /\ polls < MaxPolls
              => instance' # told
<1>1. CASE Service!Refused
  BY <1>1, ServiceGoes, ServiceEnds DEF Service!Refused
<1>2. CASE Service!DoStart
  <2>1. CASE Service!ServiceStarts /\ Service!Result(TRUE)
    <3>1. ServiceInv'
      BY <2>1, ServiceGoes, ServiceEnds
    <3>2. instance' # told
      BY <2>1, ServiceTyped DEF Service!ServiceStarts
    <3>. QED  BY <3>1, <3>2
  <2>2. CASE state # "stopped" /\ UNCHANGED Service!service /\ Service!Result(TRUE)
    <3>1. ServiceInv'
      BY <2>2, ServiceGoes, ServiceEnds
    <3>2. serviceOp = "startAgain" /\ polls < MaxPolls => instance' # told
      BY <2>2, ServiceTyped DEF Service!service
    <3>. QED  BY <3>1, <3>2
  <2>3. CASE UNCHANGED Service!service /\ Service!Result(FALSE)
    <3>1. ServiceInv'
      BY <2>3, ServiceGoes, ServiceEnds
    <3>2. done' = FALSE
      BY <2>3 DEF Service!Result
    <3>. QED  BY <3>1, <3>2
  <2>. QED
    BY <1>2, <2>1, <2>2, <2>3 DEF Service!DoStart, Service!CallStart
<1>3. CASE Service!DoStop
  BY <1>3, ServiceGoes, ServiceEnds DEF Service!DoStop, Service!service
<1>4. CASE Service!RestartStop
  <2>1. /\ serviceOp = "restart" /\ serviceOp' = "poll"
        /\ UNCHANGED <<config, lastTrue, cache, shown, pending, polls, done, told>>
    BY <1>4 DEF Service!RestartStop, Service!configuration
  <2>2. ServiceKept
    BY <1>4, ServiceGoes DEF Service!RestartStop
  <2>3. RestartFollows'
    BY <2>1, <2>2, ServiceTyped DEF RestartFollows, ServiceKept
  <2>. QED
    BY <2>1, <2>2, <2>3, ServiceTyped, ServiceThread
<1>5. CASE Service!Poll
  <2>1. /\ serviceOp = "poll"
        /\ polls' = IF state = "stopped" THEN polls ELSE polls + 1
        /\ serviceOp' = IF state = "stopped" \/ polls' = MaxPolls THEN "startAgain" ELSE "poll"
        /\ UNCHANGED <<state, instance, config, lastTrue, cache, shown, pending, done, told>>
    BY <1>5 DEF Service!Poll, Service!configuration, Service!service
  <2>2. polls' \in 0 .. MaxPolls
    BY <2>1, ServiceTyped, ServiceConstants
  <2>3. RestartFollows'
    BY <2>1, <2>2, ServiceTyped, ServiceConstants DEF RestartFollows
  <2>4. ServiceKept
    BY <2>1, ServiceTyped DEF ServiceKept
  <2>5. serviceOp' \in {"poll", "startAgain"} /\ told' = told
    BY <2>1
  <2>. QED
    BY <2>1, <2>2, <2>3, <2>4, <2>5, ServiceTyped, ServiceThread
<1>. QED
  BY <1>1, <1>2, <1>3, <1>4, <1>5 DEF Service!Thread, Service!Refused, Service!DoStop

LEMMA ServiceByItself ==
  ASSUME ServiceInv, Service!Others
  PROVE  ServiceInv'
<1>1. ServiceKept
  BY ServiceGoes DEF Service!Others
<1>2. UNCHANGED <<config, lastTrue, cache, shown, pending, serviceOp, polls, done, told>>
  BY DEF Service!Others, Service!configuration, Service!thread
<1>3. RestartFollows'
  BY <1>1, <1>2, ServiceTyped DEF RestartFollows, ServiceKept
<1>. QED
  BY <1>1, <1>2, <1>3, ServiceTyped, ServiceThread

LEMMA ServicePreserved == ServiceInv /\ [Service!Next]_(Service!vars) => ServiceInv'
<1>1. ServiceInv /\ UNCHANGED Service!vars => ServiceInv'
  BY DEF Service!vars, Service!service, Service!configuration, Service!thread, ServiceInv,
         Service!TypeOK, CacheFollows, RestartFollows
<1>. QED
  BY <1>1, ServiceByItself, ServiceConfigured, ServiceTicks, ServiceRefreshes, ServiceUnlisted,
     ServiceAsked, ServiceOperates
  DEF Service!Next

(* A service's page shows no configuration older than the cache may be,    *)
(* and a restart that saw the service stop is reported as done only when   *)
(* there is another instance; for any age, patience and set of             *)
(* configurations.                                                         *)
THEOREM ServiceIsSound ==
  Service!Spec =>
    []Service!TypeOK /\ Service!ShownConfigIsRecent /\ Service!SeenStopIsRestart
<1>1. ASSUME ServiceInv, [Service!Next]_(Service!vars)
      PROVE  shown' # shown /\ shown'.config # Service!None
               => lastTrue'[shown'.config] <= MaxAge
  <2>. SUFFICES ASSUME shown' # shown, shown'.config # Service!None
                PROVE  lastTrue'[shown'.config] <= MaxAge
    OBVIOUS
  <2>1. Service!Refresh \/ Service!RefreshFails
    BY <1>1
    DEF Service!Next, Service!vars, Service!Others, Service!Configure, Service!Tick,
        Service!PickStart, Service!Pick, Service!Confirm, Service!Cancel, Service!Begin,
        Service!Thread, Service!Refused, Service!DoStart, Service!CallStart, Service!DoStop,
        Service!RestartStop, Service!Poll, Service!Result
  <2>. QED  BY <1>1, <2>1, ServiceRefreshes, ServiceUnlisted
<1>2. ASSUME ServiceInv, [Service!Next]_(Service!vars)
      PROVE  serviceOp = "startAgain" /\ serviceOp' = "free" /\ done' /\ polls < MaxPolls
               => instance' # told
  <2>. SUFFICES ASSUME serviceOp = "startAgain", serviceOp' = "free", done', polls < MaxPolls
                PROVE  instance' # told
    OBVIOUS
  <2>1. Service!Thread
    BY <1>2
    DEF Service!Next, Service!vars, Service!Others, Service!Configure, Service!Tick,
        Service!PickStart, Service!Pick, Service!Confirm, Service!Cancel, Service!Begin,
        Service!Refresh, Service!RefreshFails, Service!thread
  <2>. QED  BY <1>2, <2>1, ServiceOperates
<1>3. ServiceInv => Service!TypeOK
  BY DEF ServiceInv
<1>. QED
  BY <1>1, <1>2, <1>3, ServiceInitially, ServicePreserved, PTL
  DEF Service!Spec, Service!ShownConfigIsRecent, Service!SeenStopIsRestart

-----------------------------------------------------------------------------
(* The operations on processes.                                            *)
Numbers == Process!AllPids
Occurs(s, x) == \E i \in 1 .. Len(s) : s[i] = x

LEMMA ProcessConstants ==
  /\ IsFiniteSet(Pids) /\ Cardinality(Pids) \in Nat /\ Pids = 1 .. Cardinality(Pids)
  /\ MaxBirths \in Nat /\ Process!Idle = 0 /\ Numbers = Pids \cup {0}
  /\ \A S : Process!Cardinality(S) = Cardinality(S)
<1>1. IsFiniteSet(Pids) /\ Pids = 1 .. Cardinality(Pids) /\ MaxBirths \in Nat
  BY ConstantsAssumption
<1>2. Cardinality(Pids) \in Nat
  BY <1>1, FS_CardinalityType
<1>. QED
  BY <1>1, <1>2 DEF Process!Idle, Numbers, Process!AllPids, Process!Cardinality, Cardinality

LastBirth == Cardinality(Pids) + 1 + births

(* No birth is given twice, and no process is its own parent but the idle  *)
(* one.                                                                    *)
BirthsTell ==
  /\ \A p, q \in Numbers : birth[p] # 0 /\ birth[q] = birth[p] => p = q
  /\ \A p, q \in Numbers : table.birth[p] # 0 /\ birth[q] = table.birth[p] => p = q
  /\ \A p \in Numbers : birth[p] <= LastBirth /\ table.birth[p] <= LastBirth
  /\ \A b \in listed : b # 0 /\ b <= LastBirth
  /\ \A p \in Pids : parent[p] # p /\ table.parent[p] # p

(* The children of what was walked over are still to come.                 *)
WalkCovers ==
  \A i \in 1 .. Len(order) : \A c \in Process!Children(table, order[i]) :
    Occurs(stack, c) \/ \E j \in i + 1 .. Len(order) : order[j] = c

Handled(c) == birth[c] # table.birth[c] \/ birth[c] \in refused

(* Its children come before a process or are done with, and what is not    *)
(* ended yet is still to come.                                             *)
EndFollows ==
  /\ \A i \in 1 .. Len(order) : \A c \in Process!Children(table, order[i]) :
       table.birth[c] \in listed =>
         Handled(c) \/ order[i] = 0 \/ \E j \in 1 .. i - 1 : order[j] = c
  /\ ok => \A p \in Numbers : birth[p] \in listed => Occurs(order, p)

ProcessInv ==
  /\ Process!TypeOK /\ stack \in Seq(Numbers) /\ order \in Seq(Numbers)
  /\ BirthsTell
  /\ op = "walk" => WalkCovers
  /\ op = "end" => EndFollows
  /\ op = "affinity" => order # <<>> /\ listed = {}
  /\ Process!ReportIsTrue

LEMMA ProcessTyped ==
  ASSUME ProcessInv
  PROVE  /\ birth \in [Numbers -> Nat] /\ births \in Nat /\ births <= MaxBirths
         /\ \A p \in Numbers : birth[p] \in Process!Births
         /\ \A p \in Numbers : table.birth[p] \in Nat /\ table.parent[p] \in Numbers
         /\ parent \in [Numbers -> Numbers] /\ ok \in BOOLEAN
         /\ table \in [birth : [Numbers -> Process!Births], parent : [Numbers -> Numbers]]
         /\ op \in {"free", "walk", "end", "affinity"}
         /\ listed \subseteq Process!Births /\ refused \subseteq Process!Births
         /\ LastBirth \in Nat /\ Process!Births \subseteq Nat
         /\ Process!Births = 0 .. Cardinality(Pids) + 1 + MaxBirths
         /\ birth \in [Numbers -> Process!Births] /\ births \in 0 .. MaxBirths
<1>1. Process!Births = 0 .. Cardinality(Pids) + 1 + MaxBirths
  BY ProcessConstants DEF Process!Births
<1>2. births \in Nat /\ births <= MaxBirths /\ LastBirth \in Nat /\ Process!Births \subseteq Nat
  BY <1>1, ProcessConstants DEF ProcessInv, Process!TypeOK, LastBirth
<1>3. /\ birth \in [Numbers -> Process!Births] /\ parent \in [Numbers -> Numbers]
      /\ table \in [birth : [Numbers -> Process!Births], parent : [Numbers -> Numbers]]
      /\ op \in {"free", "walk", "end", "affinity"} /\ ok \in BOOLEAN
      /\ listed \subseteq Process!Births /\ refused \subseteq Process!Births
  BY DEF ProcessInv, Process!TypeOK, Numbers
<1>4. birth \in [Numbers -> Nat] /\ \A p \in Numbers : birth[p] \in Process!Births
  BY <1>2, <1>3
<1>5. \A p \in Numbers : table.birth[p] \in Nat /\ table.parent[p] \in Numbers
  BY <1>2, <1>3
<1>6. births \in 0 .. MaxBirths
  BY DEF ProcessInv, Process!TypeOK
<1>. QED  BY <1>1, <1>2, <1>3, <1>4, <1>5, <1>6

(* Sequences of numbers have their types.                                  *)
LEMMA ProcessTypes ==
  ASSUME birth' \in [Numbers -> Process!Births], parent' \in [Numbers -> Numbers],
         births' \in 0 .. MaxBirths, op' \in {"free", "walk", "end", "affinity"},
         table' \in [birth : [Numbers -> Process!Births], parent : [Numbers -> Numbers]],
         stack' \in Seq(Numbers), order' \in Seq(Numbers), ok' \in BOOLEAN,
         listed' \subseteq Process!Births, refused' \subseteq Process!Births
  PROVE  Process!TypeOK'
<1>1. Process!ToSet(stack') \subseteq Numbers /\ Process!ToSet(order') \subseteq Numbers
  BY DEF Process!ToSet
<1>. QED
  BY <1>1 DEF Process!TypeOK, Numbers, Process!Births

LEMMA ProcessInitially == Process!Init => ProcessInv
<1>. SUFFICES ASSUME Process!Init PROVE ProcessInv
  OBVIOUS
<1> DEFINE n == Cardinality(Pids)
<1>1. /\ birth \in [Numbers -> 0 .. n + 1] /\ birth[0] = 1
      /\ \A p \in Pids : birth[p] \in {0, p + 1}
  BY ProcessConstants DEF Process!Init, Numbers
<1>2. parent \in [Numbers -> Numbers] /\ \A p \in Pids : parent[p] < p
  BY ProcessConstants DEF Process!Init, Numbers
<1>3. /\ births = 0 /\ op = "free" /\ stack = <<>> /\ order = <<>> /\ ok = FALSE
      /\ listed = {} /\ refused = {} /\ table = [birth |-> birth, parent |-> parent]
  BY DEF Process!Init, Process!Now
<1>4. n \in Nat /\ Pids = 1 .. n /\ Numbers = 0 .. n
  BY ProcessConstants
<1>. HIDE DEF n
<1>5. Process!Births = 0 .. n + 1 + MaxBirths /\ 0 .. n + 1 \subseteq Process!Births
  BY <1>4, ProcessConstants DEF Process!Births, n
<1>6. birth \in [Numbers -> Process!Births]
  BY <1>1, <1>5
<1>7. Process!TypeOK
  <2>1. table \in [birth : [Numbers -> Process!Births], parent : [Numbers -> Numbers]]
    BY <1>2, <1>3, <1>6
  <2>2. births \in 0 .. MaxBirths
    BY <1>3, ProcessConstants
  <2>3. Process!ToSet(stack) \subseteq Numbers /\ Process!ToSet(order) \subseteq Numbers
    BY <1>3 DEF Process!ToSet
  <2>4. ok \in BOOLEAN
    BY <1>3, Zenon
  <2>5. op \in {"free", "walk", "end", "affinity"} /\ listed = {} /\ refused = {}
    BY <1>3
  <2>. QED
    BY <1>2, <1>6, <2>1, <2>2, <2>3, <2>4, <2>5 DEF Process!TypeOK, Numbers
<1>8. BirthsTell
  <2>1. \A p \in Numbers : birth[p] \in {0, p + 1} /\ birth[p] <= n + 1
    BY <1>1, <1>4
  <2>2. \A p, q \in Numbers : birth[p] # 0 /\ birth[q] = birth[p] => p = q
    BY <1>4, <2>1
  <2>3. LastBirth = n + 1
    BY <1>3, <1>4 DEF LastBirth, n
  <2>4. \A p \in Pids : parent[p] # p
    BY <1>2, <1>4
  <2>5. table.birth = birth /\ table.parent = parent
    BY <1>3
  <2>. QED
    BY <1>3, <2>1, <2>2, <2>3, <2>4, <2>5 DEF BirthsTell
<1>. QED
  BY <1>3, <1>7, <1>8 DEF ProcessInv, Process!ReportIsTrue

(* Processes start and end: whoever had been named is not named by what    *)
(* started since.                                                          *)
LEMMA ProcessGoes ==
  ASSUME ProcessInv,
         (\E p \in Pids : Process!End(p)) \/ \E p, by \in Pids : Process!Start(p, by)
  PROVE  ProcessInv'
<1>1. PICK p \in Pids :
        \/ /\ birth' = [birth EXCEPT ![p] = 0] /\ UNCHANGED <<parent, births>>
        \/ /\ \E by \in Pids : by # p /\ parent' = [parent EXCEPT ![p] = by]
           /\ births < MaxBirths /\ births' = births + 1 /\ birth[p] = 0
           /\ birth' = [birth EXCEPT ![p] = LastBirth + 1]
  <2>1. CASE \E p \in Pids : Process!End(p)
    BY <2>1 DEF Process!End
  <2>2. ASSUME NEW p \in Pids, NEW by \in Pids, Process!Start(p, by)
        PROVE  /\ by # p /\ parent' = [parent EXCEPT ![p] = by]
               /\ births < MaxBirths /\ births' = births + 1 /\ birth[p] = 0
               /\ birth' = [birth EXCEPT ![p] = LastBirth + 1]
    <3>1. Process!NewBirth = LastBirth + 1
      BY ProcessTyped, ProcessConstants DEF Process!NewBirth, LastBirth
    <3>2. p \notin Process!Alive /\ by \in Process!Alive /\ p \in Numbers
      BY <2>2, ProcessConstants DEF Process!Start
    <3>3. birth[p] = 0
      BY <3>2 DEF Process!Alive, Process!Present, Process!Now, Numbers
    <3>. QED  BY <2>2, <3>1, <3>2, <3>3 DEF Process!Start
  <2>. QED  BY <2>1, <2>2
<1>2. UNCHANGED <<table, stack, op, order, ok, listed, refused>>
  BY DEF Process!End, Process!Start, Process!walk
<1>3. p \in Numbers /\ p # 0 /\ Pids \subseteq Numbers
  BY ProcessConstants
<1>4. /\ LastBirth' \in Nat /\ LastBirth <= LastBirth'
      /\ birth' \in [Numbers -> Nat] /\ birth'[p] <= LastBirth'
      /\ \A q \in Numbers : q # p => birth'[q] = birth[q]
      /\ birth'[p] = 0 \/ birth'[p] > LastBirth
  <2>1. Cardinality(Pids) \in Nat /\ births \in Nat /\ LastBirth \in Nat
        /\ birth \in [Numbers -> Nat]
    BY ProcessTyped, ProcessConstants
  <2>2. births' \in {births, births + 1}
    BY <1>1
  <2>3. LastBirth' \in Nat /\ LastBirth <= LastBirth'
        /\ (births' = births + 1 => LastBirth' = LastBirth + 1)
    BY <2>1, <2>2 DEF LastBirth
  <2>4. CASE birth' = [birth EXCEPT ![p] = 0]
    BY <1>3, <2>1, <2>3, <2>4
  <2>5. CASE birth' = [birth EXCEPT ![p] = LastBirth + 1] /\ births' = births + 1
    BY <1>3, <2>1, <2>3, <2>5
  <2>. QED  BY <1>1, <2>4, <2>5
<1>5. /\ \A q \in Numbers : birth[q] <= LastBirth /\ table.birth[q] <= LastBirth
                            /\ birth[q] \in Nat /\ table.birth[q] \in Nat
      /\ \A b \in listed : b # 0 /\ b <= LastBirth /\ b \in Nat
      /\ LastBirth \in Nat
  BY ProcessTyped DEF ProcessInv, BirthsTell
<1>6. BirthsTell'
  <2>1. \A q, r \in Numbers : birth'[q] # 0 /\ birth'[r] = birth'[q] => q = r
    <3>. SUFFICES ASSUME NEW q \in Numbers, NEW r \in Numbers, birth'[q] # 0,
                         birth'[r] = birth'[q], q # r
                  PROVE  FALSE
      OBVIOUS
    <3>1. q # p /\ r # p
      BY <1>4, <1>5
    <3>. QED  BY <1>4, <3>1 DEF ProcessInv, BirthsTell
  <2>2. \A q, r \in Numbers : table.birth[q] # 0 /\ birth'[r] = table.birth[q] => q = r
    <3>. SUFFICES ASSUME NEW q \in Numbers, NEW r \in Numbers, table.birth[q] # 0,
                         birth'[r] = table.birth[q]
                  PROVE  q = r
      OBVIOUS
    <3>1. r # p
      BY <1>4, <1>5
    <3>. QED  BY <1>4, <3>1 DEF ProcessInv, BirthsTell
  <2>3. \A q \in Numbers : birth'[q] <= LastBirth' /\ table.birth[q] <= LastBirth'
    BY <1>4, <1>5
  <2>4. \A b \in listed : b # 0 /\ b <= LastBirth'
    BY <1>4, <1>5
  <2>5. \A q \in Pids : parent'[q] # q /\ table.parent[q] # q
    <3>1. \A q \in Pids : parent[q] # q /\ table.parent[q] # q
      BY DEF ProcessInv, BirthsTell
    <3>2. parent' = parent \/ \E by \in Pids : by # p /\ parent' = [parent EXCEPT ![p] = by]
      BY <1>1
    <3>3. parent \in [Numbers -> Numbers]
      BY ProcessTyped
    <3>. QED  BY <1>3, <3>1, <3>2, <3>3
  <2>. QED
    BY <1>2, <2>1, <2>2, <2>3, <2>4, <2>5 DEF BirthsTell
<1>7. \A q \in Numbers : birth'[q] \in listed => birth[q] \in listed /\ birth'[q] = birth[q]
  BY <1>4, <1>5
<1>8. \A c \in Numbers : table.birth[c] # 0 /\ birth[c] # table.birth[c]
                           => birth'[c] # table.birth[c]
  BY <1>4, <1>5
<1>9. WalkCovers => WalkCovers'
  BY <1>2 DEF WalkCovers, Occurs, Process!Children, Process!Present
<1>10. EndFollows => EndFollows'
  <2>. SUFFICES ASSUME EndFollows PROVE EndFollows'
    OBVIOUS
  <2>1. ASSUME NEW i \in 1 .. Len(order), NEW c \in Process!Children(table, order[i]),
               table.birth[c] \in listed
        PROVE  Handled(c)' \/ order[i] = 0 \/ \E j \in 1 .. i - 1 : order[j] = c
    <3>1. c \in Numbers /\ table.birth[c] # 0
      BY DEF Process!Children, Process!Present, Numbers
    <3>2. Handled(c) => Handled(c)'
      BY <1>2, <1>4, <1>8, <3>1 DEF Handled
    <3>. QED  BY <2>1, <3>2 DEF EndFollows
  <2>2. ok => \A q \in Numbers : birth'[q] \in listed => Occurs(order, q)
    BY <1>7 DEF EndFollows
  <2>. QED
    BY <1>2, <2>1, <2>2
    DEF EndFollows, Occurs, Handled, Process!Children, Process!Present
<1>11. Process!ReportIsTrue'
  BY <1>2, <1>7 DEF ProcessInv, Process!ReportIsTrue, Numbers
<1>12. Process!TypeOK'
  <2>1. births' \in 0 .. MaxBirths
    BY <1>1, ProcessTyped, ProcessConstants
  <2>2. birth'[p] \in Process!Births
    <3>1. /\ Process!Births = 0 .. Cardinality(Pids) + 1 + MaxBirths
          /\ LastBirth = Cardinality(Pids) + 1 + births
          /\ Cardinality(Pids) \in Nat /\ births \in Nat /\ MaxBirths \in Nat
      BY ProcessTyped, ProcessConstants DEF LastBirth
    <3>2. birth \in [Numbers -> Nat]
      BY ProcessTyped
    <3>3. birth'[p] = 0 \/ (births < MaxBirths /\ birth'[p] = LastBirth + 1)
      BY <1>1, <1>3, <3>2
    <3>. QED  BY <3>1, <3>3
  <2>3. birth' \in [Numbers -> Process!Births]
    BY <1>4, <2>2, ProcessTyped
  <2>4. parent' \in [Numbers -> Numbers]
    BY <1>1, <1>3, ProcessTyped
  <2>5. stack \in Seq(Numbers) /\ order \in Seq(Numbers)
    BY DEF ProcessInv
  <2>. QED
    BY <1>2, <2>1, <2>3, <2>4, <2>5, ProcessTyped, ProcessTypes
<1>. QED
  BY <1>2, <1>6, <1>9, <1>10, <1>11, <1>12 DEF ProcessInv

(* Steps of the thread and requests leave the processes alone.             *)
LEMMA BirthsStayTold ==
  ASSUME ProcessInv, UNCHANGED <<birth, parent, births>>,
         table' = table \/ table' = [birth |-> birth, parent |-> parent],
         \A b \in listed' : b # 0 /\ (b \in listed \/ (\E p \in Numbers : b = birth[p])
                                        \/ \E p \in Numbers : b = table.birth[p])
  PROVE  BirthsTell'
<1>1. CASE table' = table
  BY <1>1 DEF ProcessInv, BirthsTell, LastBirth
<1>2. CASE table' = [birth |-> birth, parent |-> parent]
  <2>1. table'.birth = birth /\ table'.parent = parent
    BY <1>2
  <2>. QED  BY <2>1 DEF ProcessInv, BirthsTell, LastBirth
<1>. QED  BY <1>1, <1>2

LEMMA ProcessRequested ==
  ASSUME ProcessInv, NEW p \in Numbers, NEW which \in {"end", "affinity"},
         Process!Request(which, p)
  PROVE  ProcessInv'
<1>1. /\ op' = which /\ order' = <<p>> /\ ok' = TRUE /\ refused' = {}
      /\ listed' = (IF which = "end" THEN {birth[p]} ELSE {}) \ {0}
      /\ UNCHANGED <<birth, parent, births, table, stack>>
  BY DEF Process!Request, Process!system, Process!walk
<1>2. \A b \in listed' : b # 0 /\ b = birth[p]
  BY <1>1
<1>3. BirthsTell'
  BY <1>1, <1>2, BirthsStayTold
<1>4. order' \in Seq(Numbers) /\ Len(order') = 1 /\ order'[1] = p /\ order' # <<>>
  BY <1>1
<1>5. Process!TypeOK'
  <2>1. listed' \subseteq Process!Births
    BY <1>1, ProcessTyped
  <2>2. birth \in [Numbers -> Process!Births] /\ births \in 0 .. MaxBirths
    BY ProcessTyped
  <2>3. stack \in Seq(Numbers)
    BY DEF ProcessInv
  <2>4. ok' \in BOOLEAN
    BY <1>1
  <2>5. op' \in {"free", "walk", "end", "affinity"} /\ refused' \subseteq Process!Births
    BY <1>1
  <2>. QED
    BY <1>1, <1>4, <2>1, <2>2, <2>3, <2>4, <2>5, ProcessTyped, ProcessTypes
<1>6. EndFollows'
  <2>1. ASSUME NEW c \in Process!Children(table, p), table.birth[c] \in listed'
        PROVE  p = 0
    <3>1. c \in Numbers /\ table.birth[c] # 0 /\ table.parent[c] = p
      BY DEF Process!Children, Process!Present, Numbers
    <3>2. c = p
      BY <1>2, <2>1, <3>1 DEF ProcessInv, BirthsTell
    <3>. QED
      BY <3>1, <3>2, ProcessConstants DEF ProcessInv, BirthsTell
  <2>2. \A q \in Numbers : birth[q] \in listed' => Occurs(order', q)
    <3>. SUFFICES ASSUME NEW q \in Numbers, birth[q] \in listed'
                  PROVE  q = p
      BY <1>4 DEF Occurs
    <3>. QED  BY <1>2 DEF ProcessInv, BirthsTell
  <2>3. \A i \in 1 .. Len(order') : order'[i] = p
    BY <1>4
  <2>. QED
    BY <1>1, <2>1, <2>2, <2>3
    DEF EndFollows, Occurs, Process!Children, Process!Present
<1>7. which = "affinity" => listed' = {}
  BY <1>1
<1>. QED
  BY <1>1, <1>3, <1>4, <1>5, <1>6, <1>7 DEF ProcessInv, Process!ReportIsTrue

LEMMA ProcessEndTree ==
  ASSUME ProcessInv, NEW p \in Numbers, Process!EndTree(p)
  PROVE  ProcessInv'
<1>1. /\ listed' = {} /\ refused' = {} /\ UNCHANGED <<birth, parent, births>>
      /\ \/ ok' = FALSE /\ UNCHANGED <<op, table, stack, order>> /\ op = "free"
         \/ /\ op' = "walk" /\ table' = [birth |-> birth, parent |-> parent]
            /\ stack' = <<p>> /\ order' = <<>> /\ ok' = TRUE
  BY DEF Process!EndTree, Process!system, Process!walk, Process!Now
<1>2. BirthsTell'
  BY <1>1, BirthsStayTold
<1>3. /\ birth \in [Numbers -> Process!Births] /\ births \in 0 .. MaxBirths
      /\ parent \in [Numbers -> Numbers] /\ stack \in Seq(Numbers) /\ order \in Seq(Numbers)
  <2>1. stack \in Seq(Numbers) /\ order \in Seq(Numbers)
    BY DEF ProcessInv
  <2>. QED  BY <2>1, ProcessTyped
<1>4. stack' \in Seq(Numbers) /\ order' \in Seq(Numbers) /\ ok' \in BOOLEAN
  <2>1. <<p>> \in Seq(Numbers) /\ <<>> \in Seq(Numbers)
    OBVIOUS
  <2>2. ok' \in BOOLEAN
    BY <1>1
  <2>. QED  BY <1>1, <1>3, <2>1, <2>2
<1>5. table' \in [birth : [Numbers -> Process!Births], parent : [Numbers -> Numbers]]
  <2>1. table \in [birth : [Numbers -> Process!Births], parent : [Numbers -> Numbers]]
    BY ProcessTyped
  <2>. QED  BY <1>1, <1>3, <2>1
<1>6. op' \in {"free", "walk"}
  BY <1>1
<1>7. Process!TypeOK'
  BY <1>1, <1>3, <1>4, <1>5, <1>6, ProcessTypes
<1>8. op' = "walk" => WalkCovers'
  <2>1. op' = "walk" => order' = <<>>
    BY <1>1
  <2>2. Len(<<>>) = 0
    OBVIOUS
  <2>. QED  BY <2>1, <2>2 DEF WalkCovers
<1>. QED
  BY <1>1, <1>2, <1>4, <1>6, <1>7, <1>8 DEF ProcessInv, Process!ReportIsTrue

(* All the children are pushed.                                            *)
LEMMA AllListed ==
  ASSUME NEW S, IsFiniteSet(S), NEW children \in Process!SetToSeqs(S)
  PROVE  children \in Seq(S) /\ \A c \in S : Occurs(children, c)
<1> DEFINE n == Cardinality(S)
<1>1. /\ n \in Nat /\ children \in [1 .. n -> S]
      /\ \A i, j \in 1 .. n : i # j => children[i] # children[j]
  BY FS_CardinalityType, ProcessConstants DEF Process!SetToSeqs
<1>2. children \in Seq(S) /\ Len(children) = n
  BY <1>1
<1>3. ASSUME NEW c \in S, ~Occurs(children, c)
      PROVE  FALSE
  <2>1. \A i \in 1 .. n : children[i] \in S \ {c}
    BY <1>1, <1>2, <1>3 DEF Occurs
  <2>2. children \in [1 .. n -> S \ {c}]
    BY <1>1, <2>1
  <2>3. IsFiniteSet(S \ {c}) /\ Cardinality(S \ {c}) = n - 1
    BY FS_RemoveElement
  <2>4. IsFiniteSet(1 .. n) /\ Cardinality(1 .. n) = n
    BY <1>1, FS_Interval
  <2>5. Cardinality(S \ {c}) < Cardinality(1 .. n)
    BY <1>1, <2>3, <2>4
  <2>. HIDE DEF n
  <2>6. \E i, j \in 1 .. n : i # j /\ children[i] = children[j]
    BY <2>2, <2>3, <2>4, <2>5, FS_PigeonHole
  <2>. QED  BY <1>1, <2>6
<1>. QED  BY <1>2, <1>3

LEMMA ProcessWalks ==
  ASSUME ProcessInv, Process!Walk
  PROVE  ProcessInv'
<1> DEFINE last == Process!Last(stack)
<1> DEFINE kids == Process!Children(table, last)
<1>1. stack \in Seq(Numbers) /\ order \in Seq(Numbers) /\ WalkCovers
  BY DEF ProcessInv, Process!Walk
<1>2. /\ op = "walk" /\ stack # <<>> /\ order' = Append(order, last)
      /\ UNCHANGED <<birth, parent, births, table, op, ok, listed, refused>>
  BY DEF Process!Walk, Process!system
<1>3. PICK children \in Process!SetToSeqs(kids) : stack' = Process!Front(stack) \o children
  BY DEF Process!Walk
<1>4. kids \subseteq Numbers
  BY DEF Process!Children, Process!Present, Numbers
<1>5. IsFiniteSet(kids)
  <2>1. IsFiniteSet(Numbers)
    BY ProcessConstants, FS_AddElement
  <2>. QED  BY <1>4, <2>1, FS_Subset
<1>6. last \in Numbers /\ last = stack[Len(stack)] /\ Len(stack) \in Nat /\ Len(stack) >= 1
  BY <1>1, <1>2 DEF Process!Last
<1>. HIDE DEF last
<1>7. children \in Seq(kids) /\ \A c \in kids : Occurs(children, c)
  BY <1>3, <1>5, AllListed
<1>. HIDE DEF kids
<1> DEFINE front == Process!Front(stack)
<1>8. /\ front \in Seq(Numbers) /\ Len(front) = Len(stack) - 1
      /\ \A i \in 1 .. Len(stack) - 1 : front[i] = stack[i]
  <2> DEFINE m == Len(stack)
  <2>1. front = SubSeq(stack, 1, m - 1)
    BY DEF Process!Front
  <2>2. m \in Nat /\ m >= 1 /\ \A i \in 1 .. m : stack[i] \in Numbers
    BY <1>1, <1>6
  <2>3. \A i \in 1 .. m - 1 : stack[i] \in Numbers
    BY <2>2
  <2>. HIDE DEF m
  <2>4. /\ SubSeq(stack, 1, m - 1) \in Seq(Numbers)
        /\ Len(SubSeq(stack, 1, m - 1)) = IF 1 <= m - 1 THEN (m - 1) - 1 + 1 ELSE 0
        /\ \A i \in 1 .. (m - 1) - 1 + 1 : SubSeq(stack, 1, m - 1)[i] = stack[1 + i - 1]
    BY <2>2, <2>3, SubSeqProperties
  <2>5. Len(front) = m - 1 /\ \A i \in 1 .. m - 1 : front[i] = stack[i]
    BY <2>1, <2>2, <2>4
  <2>. QED  BY <2>1, <2>4, <2>5 DEF m
<1>9. children \in Seq(Numbers)
  BY <1>4, <1>7
<1>. HIDE DEF front
<1>10. /\ stack' \in Seq(Numbers)
       /\ \A c : Occurs(front, c) \/ Occurs(children, c) => Occurs(stack', c)
  <2>1. stack' = front \o children
    BY <1>3 DEF front
  <2>2. /\ stack' \in Seq(Numbers) /\ Len(stack') = Len(front) + Len(children)
        /\ Len(front) \in Nat /\ Len(children) \in Nat
        /\ \A i \in 1 .. Len(front) : stack'[i] = front[i]
        /\ \A i \in 1 .. Len(children) : stack'[Len(front) + i] = children[i]
    <3>1. Len(front) \in Nat /\ Len(children) \in Nat
      BY <1>8, <1>9
    <3>2. /\ stack' \in Seq(Numbers) /\ Len(stack') = Len(front) + Len(children)
          /\ \A i \in 1 .. Len(front) + Len(children) :
               stack'[i] = IF i <= Len(front) THEN front[i] ELSE children[i - Len(front)]
      BY <1>8, <1>9, <2>1, ConcatProperties
    <3>3. \A i \in 1 .. Len(front) : stack'[i] = front[i]
      BY <3>1, <3>2
    <3>4. \A i \in 1 .. Len(children) : stack'[Len(front) + i] = children[i]
      <4>. SUFFICES ASSUME NEW i \in 1 .. Len(children)
                    PROVE  stack'[Len(front) + i] = children[i]
        OBVIOUS
      <4>1. /\ Len(front) + i \in 1 .. Len(front) + Len(children)
            /\ ~(Len(front) + i <= Len(front)) /\ (Len(front) + i) - Len(front) = i
        BY <3>1
      <4>. QED  BY <3>2, <4>1
    <3>. QED  BY <3>1, <3>2, <3>3, <3>4
  <2>3. ASSUME NEW c, Occurs(front, c)
        PROVE  Occurs(stack', c)
    BY <2>2, <2>3 DEF Occurs
  <2>4. ASSUME NEW c, Occurs(children, c)
        PROVE  Occurs(stack', c)
    <3>1. PICK i \in 1 .. Len(children) : children[i] = c
      BY <2>4 DEF Occurs
    <3>2. Len(front) + i \in 1 .. Len(stack') /\ stack'[Len(front) + i] = c
      BY <2>2, <3>1
    <3>. QED  BY <3>2 DEF Occurs
  <2>. QED  BY <2>2, <2>3, <2>4
<1>11. /\ order' \in Seq(Numbers) /\ Len(order') = Len(order) + 1 /\ Len(order) \in Nat
       /\ \A i \in 1 .. Len(order) : order'[i] = order[i]
       /\ order'[Len(order) + 1] = last
  BY <1>1, <1>2, <1>6
<1>12. WalkCovers'
  <2>. SUFFICES ASSUME NEW i \in 1 .. Len(order'),
                       NEW c \in Process!Children(table, order'[i])
                PROVE  Occurs(stack', c) \/ \E j \in i + 1 .. Len(order') : order'[j] = c
    BY <1>2 DEF WalkCovers, Process!Children, Process!Present, Occurs
  <2>1. CASE i = Len(order) + 1
    BY <1>7, <1>10, <1>11, <2>1 DEF kids
  <2>2. CASE i \in 1 .. Len(order)
    <3>1. Occurs(stack, c) \/ \E j \in i + 1 .. Len(order) : order[j] = c
      BY <1>1, <1>11, <2>2 DEF WalkCovers
    <3>2. CASE Occurs(stack, c)
      <4>1. Occurs(front, c) \/ c = last
        BY <1>6, <1>8, <3>2 DEF Occurs
      <4>2. c = last => order'[Len(order) + 1] = c /\ Len(order) + 1 \in i + 1 .. Len(order')
        BY <1>11, <2>2
      <4>. QED  BY <1>10, <4>1, <4>2
    <3>3. CASE \E j \in i + 1 .. Len(order) : order[j] = c
      BY <1>11, <2>2, <3>3
    <3>. QED  BY <3>1, <3>2, <3>3
  <2>. QED  BY <1>11, <2>1, <2>2
<1>13. BirthsTell'
  BY <1>2, BirthsStayTold DEF ProcessInv, BirthsTell
<1>14. Process!TypeOK'
  BY <1>2, <1>10, <1>11, ProcessTyped, ProcessTypes
<1>. QED
  BY <1>2, <1>10, <1>11, <1>12, <1>13, <1>14 DEF ProcessInv, Process!ReportIsTrue

LEMMA ProcessTurns ==
  ASSUME ProcessInv, Process!TurnOrder
  PROVE  ProcessInv'
<1> DEFINE n == Len(order)
<1>1. /\ op = "walk" /\ stack = <<>> /\ op' = "end" /\ listed' = Process!Listed
      /\ UNCHANGED <<birth, parent, births, table, stack, ok, refused>>
      /\ order' = Process!Reverse(order) /\ order \in Seq(Numbers) /\ WalkCovers
  BY DEF ProcessInv, Process!TurnOrder, Process!system, Process!walk
<1>2. /\ n \in Nat /\ order' \in Seq(Numbers) /\ Len(order') = n
      /\ \A i \in 1 .. n : order'[i] = order[(n - i) + 1]
  <2>1. order' = [i \in 1 .. n |-> order[(n - i) + 1]]
    BY <1>1 DEF Process!Reverse
  <2>2. n \in Nat /\ \A i \in 1 .. n : (n - i) + 1 \in 1 .. n
    BY <1>1
  <2>3. \A i \in 1 .. n : order[i] \in Numbers
    BY <1>1
  <2>. HIDE DEF n
  <2>4. order' \in [1 .. n -> Numbers]
    BY <2>1, <2>2, <2>3
  <2>. QED  BY <2>1, <2>2, <2>4
<1>3. \A b \in listed' : b # 0 /\ \E p \in Numbers : b = table.birth[p] /\ Occurs(order, p)
  BY <1>1 DEF Process!Listed, Process!ToSet, Occurs
<1>. HIDE DEF n
<1>4. \A p : Occurs(order, p) => Occurs(order', p)
  <2>. SUFFICES ASSUME NEW i \in 1 .. n
                PROVE  \E k \in 1 .. n : order'[k] = order[i]
    BY <1>2 DEF Occurs, n
  <2>1. (n - i) + 1 \in 1 .. n /\ (n - ((n - i) + 1)) + 1 = i
    BY <1>2
  <2>. QED  BY <1>2, <2>1
<1>5. BirthsTell'
  BY <1>1, <1>3, BirthsStayTold
<1>6. listed' \subseteq Process!Births
  <2>1. \A p \in Numbers : table.birth[p] \in Process!Births
    BY ProcessTyped
  <2>. QED  BY <1>3, <2>1
<1>7. Process!TypeOK'
  <2>1. stack' \in Seq(Numbers) /\ op' \in {"free", "walk", "end", "affinity"}
    BY <1>1 DEF ProcessInv
  <2>. QED  BY <1>1, <1>2, <1>6, <2>1, ProcessTyped, ProcessTypes
<1>8. EndFollows'
  <2>1. ASSUME NEW i \in 1 .. n, NEW c \in Process!Children(table, order'[i])
        PROVE  \E j \in 1 .. i - 1 : order'[j] = c
    <3>1. (n - i) + 1 \in 1 .. n /\ order'[i] = order[(n - i) + 1]
      BY <1>2
    <3>2. ~Occurs(stack, c)
      BY <1>1 DEF Occurs
    <3>3. PICK j \in ((n - i) + 1) + 1 .. n : order[j] = c
      BY <1>1, <3>1, <3>2 DEF WalkCovers, n
    <3>4. (n - j) + 1 \in 1 .. i - 1 /\ (n - j) + 1 \in 1 .. n
          /\ (n - ((n - j) + 1)) + 1 = j
      BY <1>2, <3>3
    <3>. QED  BY <1>2, <3>3, <3>4
  <2>2. ASSUME NEW p \in Numbers, birth[p] \in listed'
        PROVE  Occurs(order', p)
    <3>1. PICK q \in Numbers : birth[p] = table.birth[q] /\ Occurs(order, q) /\ birth[p] # 0
      BY <1>3, <2>2
    <3>2. q = p
      BY <3>1 DEF ProcessInv, BirthsTell
    <3>. QED  BY <1>4, <3>1, <3>2
  <2>. QED
    BY <1>1, <1>2, <2>1, <2>2
    DEF EndFollows, Occurs, Process!Children, Process!Present
<1>. QED
  BY <1>1, <1>2, <1>5, <1>7, <1>8 DEF ProcessInv, Process!ReportIsTrue

(* A process that ended, or refused to, is handled.                        *)
LEMMA ProcessTakesNext ==
  ASSUME ProcessInv, op = "end", order # <<>>, order' = Tail(order),
         UNCHANGED <<table, listed>>,
         \A p \in Numbers \ {Head(order)} : birth'[p] = birth[p],
         birth'[Head(order)] \in {0, birth[Head(order)]},
         birth'[Head(order)] = 0 \/ birth'[Head(order)] \in refused',
         refused \subseteq refused', ok' => ok /\ birth'[Head(order)] = 0
  PROVE  EndFollows' /\ order' \in Seq(Numbers) /\ Head(order) \in Numbers
<1>1. order \in Seq(Numbers) /\ EndFollows
  BY DEF ProcessInv
<1>2. /\ Len(order) \in Nat /\ Len(order) >= 1 /\ Head(order) = order[1]
      /\ order' \in Seq(Numbers) /\ Len(order') = Len(order) - 1
      /\ \A i \in 1 .. Len(order) - 1 : order'[i] = order[i + 1]
      /\ order[1] \in Numbers
  BY <1>1
<1>3. ASSUME NEW c \in Numbers, table.birth[c] # 0, Handled(c) \/ c = order[1]
      PROVE  Handled(c)'
  BY <1>2, <1>3 DEF Handled
<1>4. ASSUME NEW i \in 1 .. Len(order'), NEW c \in Process!Children(table, order'[i]),
             table.birth[c] \in listed
      PROVE  Handled(c)' \/ order'[i] = 0 \/ \E j \in 1 .. i - 1 : order'[j] = c
  <2>1. c \in Numbers /\ table.birth[c] # 0
    BY DEF Process!Children, Process!Present, Numbers
  <2>2. i + 1 \in 1 .. Len(order) /\ order'[i] = order[i + 1] /\ i \in Nat
    BY <1>2
  <2>3. Handled(c) \/ order'[i] = 0 \/ \E j \in 1 .. i : order[j] = c
    BY <1>1, <1>4, <2>2 DEF EndFollows
  <2>4. ASSUME NEW j \in 1 .. i, order[j] = c
        PROVE  c = order[1] \/ \E k \in 1 .. i - 1 : order'[k] = c
    <3>1. CASE j = 1
      BY <2>4, <3>1
    <3>2. CASE j # 1
      <4>1. j - 1 \in 1 .. i - 1 /\ j - 1 \in 1 .. Len(order) - 1 /\ (j - 1) + 1 = j
        BY <1>2, <3>2
      <4>. QED  BY <1>2, <2>4, <4>1
    <3>. QED  BY <3>1, <3>2
  <2>. QED  BY <1>3, <2>1, <2>3, <2>4
<1>5. ASSUME NEW p \in Numbers, ok', birth'[p] \in listed
      PROVE  Occurs(order', p)
  <2>1. birth'[p] # 0
    BY <1>5 DEF ProcessInv, BirthsTell
  <2>2. p # order[1] /\ birth[p] \in listed
    BY <1>2, <1>5, <2>1
  <2>3. PICK i \in 1 .. Len(order) : order[i] = p
    BY <1>1, <1>5, <2>2 DEF EndFollows, Occurs
  <2>4. i - 1 \in 1 .. Len(order') /\ order'[i - 1] = p
    BY <1>2, <2>2, <2>3
  <2>. QED  BY <2>4 DEF Occurs
<1>. QED
  BY <1>2, <1>4, <1>5
  DEF EndFollows, Occurs, Handled, Process!Children, Process!Present

LEMMA ProcessEndsNext ==
  ASSUME ProcessInv, Process!EndNext
  PROVE  ProcessInv'
<1> DEFINE head == Head(order)
<1>1. /\ op = "end" /\ order # <<>> /\ head \in Process!Alive \ {Process!Idle}
      /\ birth' = [birth EXCEPT ![head] = 0] /\ order' = Tail(order)
      /\ UNCHANGED <<parent, births, table, stack, op, ok, listed, refused>>
  BY DEF Process!EndNext, Process!walk
<1>2. head \in Numbers /\ birth \in [Numbers -> Process!Births]
  BY <1>1, ProcessTyped DEF Process!Alive, Process!Present, Numbers
<1>3. /\ \A p \in Numbers \ {head} : birth'[p] = birth[p]
      /\ birth'[head] = 0 /\ birth' \in [Numbers -> Process!Births]
  <2>1. 0 \in Process!Births
    BY ProcessTyped, ProcessConstants
  <2>. QED  BY <1>1, <1>2, <2>1
<1>4. EndFollows' /\ order' \in Seq(Numbers)
  BY <1>1, <1>3, ProcessTakesNext
<1>5. BirthsTell'
  <2>1. \A p \in Numbers : birth'[p] \in {0, birth[p]}
    BY <1>3
  <2>2. BirthsTell /\ LastBirth \in Nat /\ LastBirth' = LastBirth
    BY <1>1, ProcessTyped DEF ProcessInv, LastBirth
  <2>3. \A p \in Numbers : birth'[p] <= LastBirth
    <3>1. \A p \in Numbers : birth[p] <= LastBirth
      BY <2>2 DEF BirthsTell
    <3>. QED  BY <2>1, <2>2, <3>1
  <2>. QED  BY <1>1, <2>1, <2>2, <2>3 DEF BirthsTell
<1>6. Process!TypeOK'
  <2>1. stack' \in Seq(Numbers)
    BY <1>1 DEF ProcessInv
  <2>. QED  BY <1>1, <1>3, <1>4, <2>1, ProcessTyped, ProcessTypes
<1>. QED
  BY <1>1, <1>4, <1>5, <1>6 DEF ProcessInv, Process!ReportIsTrue

LEMMA ProcessRefusesNext ==
  ASSUME ProcessInv, Process!EndRefused
  PROVE  ProcessInv'
<1> DEFINE head == Head(order)
<1>1. /\ op = "end" /\ order # <<>> /\ order' = Tail(order) /\ ok' = FALSE
      /\ refused' = refused \cup {birth[head]}
      /\ UNCHANGED <<birth, parent, births, table, stack, op, listed>>
  BY DEF Process!EndRefused, Process!system, Process!walk
<1>2. EndFollows' /\ order' \in Seq(Numbers) /\ head \in Numbers
  BY <1>1, ProcessTakesNext
<1>3. BirthsTell'
  BY <1>1, BirthsStayTold DEF ProcessInv, BirthsTell
<1>4. Process!TypeOK'
  <2>1. stack' \in Seq(Numbers)
    BY <1>1 DEF ProcessInv
  <2>2. refused' \subseteq Process!Births
    BY <1>1, <1>2, ProcessTyped
  <2>3. ok' \in BOOLEAN
    BY <1>1, Zenon
  <2>. QED  BY <1>1, <1>2, <2>1, <2>2, <2>3, ProcessTyped, ProcessTypes
<1>. QED
  BY <1>1, <1>2, <1>3, <1>4 DEF ProcessInv, Process!ReportIsTrue

LEMMA ProcessFinishes ==
  ASSUME ProcessInv, Process!Finish \/ Process!ApplyAffinity
  PROVE  ProcessInv'
<1>1. /\ UNCHANGED <<birth, parent, births, table, stack, order, listed>> /\ op' = "free"
      /\ \/ op = "end" /\ order = <<>> /\ UNCHANGED <<ok, refused>>
         \/ op = "affinity" /\ ok' \in {Process!CanAskMask, FALSE}
            /\ refused' \in {refused, {birth[Head(order)]}}
  BY DEF Process!Finish, Process!ApplyAffinity, Process!system, Process!walk
<1>2. order \in Seq(Numbers) /\ stack \in Seq(Numbers)
  BY DEF ProcessInv
<1>3. ok' \in BOOLEAN
  <2>1. Process!CanAskMask \in BOOLEAN
    BY DEF Process!CanAskMask
  <2>2. ok \in BOOLEAN
    BY ProcessTyped
  <2>. QED  BY <1>1, <2>1, <2>2
<1>4. refused' \subseteq Process!Births
  <2>1. op = "affinity" => Head(order) \in Numbers
    <3>1. op = "affinity" => order # <<>>
      BY DEF ProcessInv
    <3>. QED  BY <1>2, <3>1
  <2>2. refused \subseteq Process!Births
    BY ProcessTyped
  <2>3. op = "affinity" => birth[Head(order)] \in Process!Births
    BY <2>1, ProcessTyped
  <2>4. refused' = refused \/ (op = "affinity" /\ refused' = {birth[Head(order)]})
    BY <1>1
  <2>. QED  BY <2>2, <2>3, <2>4
<1>5. Process!TypeOK'
  BY <1>1, <1>2, <1>3, <1>4, ProcessTyped, ProcessTypes
<1>6. BirthsTell'
  BY <1>1, BirthsStayTold DEF ProcessInv, BirthsTell
<1>7. Process!ReportIsTrue'
  <2>1. CASE op = "end"
    <3>1. EndFollows /\ order = <<>>
      BY <1>1, <2>1 DEF ProcessInv
    <3>2. \A p : ~Occurs(order, p)
      BY <3>1 DEF Occurs
    <3>3. ok' = ok
      BY <1>1, <2>1
    <3>. QED
      BY <1>1, <3>1, <3>2, <3>3 DEF EndFollows, Process!ReportIsTrue, Numbers
  <2>2. CASE op = "affinity"
    BY <1>1, <2>2 DEF ProcessInv, Process!ReportIsTrue
  <2>. QED  BY <1>1, <2>1, <2>2
<1>. QED
  BY <1>1, <1>2, <1>5, <1>6, <1>7 DEF ProcessInv

LEMMA ProcessPreserved == ProcessInv /\ [Process!Next]_(Process!vars) => ProcessInv'
<1>1. ASSUME ProcessInv, UNCHANGED Process!vars
      PROVE  ProcessInv'
  <2>1. UNCHANGED <<birth, parent, births, table, stack, op, order, ok, listed, refused>>
    BY <1>1 DEF Process!vars, Process!system, Process!walk
  <2>. QED
    BY <1>1, <2>1
    DEF ProcessInv, Process!TypeOK, BirthsTell, LastBirth, WalkCovers, EndFollows, Handled,
        Occurs, Process!ReportIsTrue, Process!Children, Process!Present
<1>2. Process!WalkOn => UNCHANGED Process!vars
  BY DEF Process!WalkOn
<1>3. ASSUME NEW p \in Numbers, Process!EndTask(p) \/ Process!SetAffinity(p)
      PROVE  Process!Request("end", p) \/ Process!Request("affinity", p)
  BY <1>3 DEF Process!EndTask, Process!SetAffinity
<1>4. ASSUME ProcessInv, NEW p \in Numbers,
             Process!EndTask(p) \/ Process!EndTree(p) \/ Process!SetAffinity(p)
      PROVE  ProcessInv'
  BY <1>3, <1>4, ProcessRequested, ProcessEndTree
<1>5. ASSUME ProcessInv, Process!Thread
      PROVE  ProcessInv'
  BY <1>1, <1>2, <1>5, ProcessWalks, ProcessTurns, ProcessEndsNext, ProcessRefusesNext,
     ProcessFinishes
  DEF Process!Thread
<1>. QED
  BY <1>1, <1>4, <1>5, ProcessGoes DEF Process!Next, Numbers

(* What is reported of the processes to end is so, and a tree is ended     *)
(* from its leaves, whatever numbers and parents the processes have, and   *)
(* whatever starts and ends meanwhile.                                     *)
THEOREM ProcessIsSound ==
  Process!Spec => []Process!TypeOK /\ []Process!ReportIsTrue /\ Process!ChildrenFirst
<1>1. ASSUME ProcessInv, [Process!Next]_(Process!vars), op = "end", order' # order,
             birth' # birth, NEW c \in Process!Children(table, Head(order)),
             table.birth[c] \in listed
      PROVE  birth[c] # table.birth[c] \/ birth[c] \in refused
  <2>1. Process!EndNext
    BY <1>1
    DEF Process!Next, Process!vars, Process!End, Process!EndTask, Process!SetAffinity,
        Process!Request, Process!EndTree, Process!Start, Process!Thread, Process!Walk,
        Process!WalkOn, Process!TurnOrder, Process!EndRefused, Process!Finish,
        Process!ApplyAffinity, Process!system, Process!walk
  <2>2. order # <<>> /\ Head(order) # 0 /\ order \in Seq(Numbers) /\ EndFollows
    BY <1>1, <2>1 DEF Process!EndNext, Process!Idle, ProcessInv
  <2>3. 1 \in 1 .. Len(order) /\ Head(order) = order[1]
    BY <2>2
  <2>. QED  BY <1>1, <2>2, <2>3 DEF EndFollows, Handled
<1>2. ASSUME ProcessInv, [Process!Next]_(Process!vars)
      PROVE  op = "end" /\ order' # order /\ birth' # birth =>
               \A c \in Process!Children(table, Head(order)) :
                 table.birth[c] \in listed =>
                   birth[c] # table.birth[c] \/ birth[c] \in refused
  BY <1>1, <1>2
<1>3. ProcessInv => Process!TypeOK /\ Process!ReportIsTrue
  BY DEF ProcessInv
<1>. QED
  BY <1>2, <1>3, ProcessInitially, ProcessPreserved, PTL
  DEF Process!Spec, Process!ChildrenFirst

-----------------------------------------------------------------------------
(* The tree of the process page: its snapshot and what is expanded are     *)
(* numbers that processes may have, whatever starts and ends.              *)
THEOREM TreeIsTyped == Tree!Spec => []Tree!TypeOK
<1>1. Tree!Init => Tree!TypeOK
  BY DEF Tree!Init, Tree!TypeOK, Tree!AllPids, Tree!Idle
<1>2. Tree!TypeOK /\ [Tree!Next]_(Tree!treeVars) => Tree!TypeOK'
  <2>. SUFFICES ASSUME Tree!TypeOK, [Tree!Next]_(Tree!treeVars)
                PROVE  Tree!TypeOK'
    OBVIOUS
  <2>1. ASSUME NEW p \in Tree!AllPids, Tree!Toggle(p)
        PROVE  Tree!TypeOK'
    BY <2>1 DEF Tree!Toggle, Tree!TypeOK
  <2>2. CASE Tree!TreeMode
    BY <2>2 DEF Tree!TreeMode, Tree!TypeOK
  <2>3. ASSUME NEW text \in BOOLEAN, NEW in \in SUBSET Tree!AllPids, Tree!Search(text, in)
        PROVE  Tree!TypeOK'
    BY <2>3 DEF Tree!Search, Tree!TypeOK
  <2>4. ASSUME NEW p \in TreePids, Tree!Ended(p)
        PROVE  Tree!TypeOK'
    BY <2>4 DEF Tree!Ended, Tree!TypeOK
  <2>5. ASSUME NEW p \in TreePids, NEW by \in Tree!AllPids, Tree!Started(p, by)
        PROVE  Tree!TypeOK'
    BY <2>5 DEF Tree!Started, Tree!TypeOK, Tree!AllPids
  <2>6. CASE UNCHANGED Tree!treeVars
    BY <2>6 DEF Tree!treeVars, Tree!TypeOK
  <2>. QED
    BY <2>1, <2>2, <2>3, <2>4, <2>5, <2>6 DEF Tree!Next
<1>. QED  BY <1>1, <1>2, PTL DEF Tree!Spec

(* The list of the USB page and its open nodes are devices that there may  *)
(* be, whatever is plugged and unplugged.                                  *)
THEOREM UsbIsTyped == Usb!Spec => []Usb!TypeOK
<1>1. Usb!Init => Usb!TypeOK
  BY DEF Usb!Init, Usb!TypeOK, Usb!Usb
<1>2. Usb!TypeOK /\ [Usb!Next]_(Usb!usbVars) => Usb!TypeOK'
  <2>. SUFFICES ASSUME Usb!TypeOK, [Usb!Next]_(Usb!usbVars)
                PROVE  Usb!TypeOK'
    OBVIOUS
  <2>1. ASSUME NEW d \in UsbDevices, Usb!Toggle(d)
        PROVE  Usb!TypeOK'
    BY <2>1 DEF Usb!Toggle, Usb!TypeOK, Usb!Usb
  <2>2. ASSUME NEW d \in UsbDevices, Usb!Unplugged(d)
        PROVE  Usb!TypeOK'
    BY <2>2 DEF Usb!Unplugged, Usb!TypeOK, Usb!Usb
  <2>3. ASSUME NEW d \in UsbDevices,
               NEW p \in UsbDevices \cup {Usb!NotGiven, Usb!Elsewhere}, Usb!Plugged(d, p)
        PROVE  Usb!TypeOK'
    BY <2>3 DEF Usb!Plugged, Usb!TypeOK, Usb!Usb
  <2>4. CASE UNCHANGED Usb!usbVars
    BY <2>4 DEF Usb!usbVars, Usb!TypeOK, Usb!Usb
  <2>. QED
    BY <2>1, <2>2, <2>3, <2>4 DEF Usb!Next
<1>. QED  BY <1>1, <1>2, PTL DEF Usb!Spec

-----------------------------------------------------------------------------
(* Induction and recursion over an interval of numbers, without operators  *)
(* as parameters: what holds is a set, what is computed a function.        *)

(* A set of naturals has a least: otherwise the initial segments below its *)
(* members would have none, which are finite sets.                         *)
LEMMA LeastNatural ==
  ASSUME NEW S \in SUBSET Nat, S # {}
  PROVE  \E x \in S : \A y \in S : x <= y
<1>. DEFINE below == {0 .. n : n \in S}
<1>1. \A n \in S : 0 .. n \in FiniteSubsetsOf(Nat)
  BY FS_Interval DEF FiniteSubsetsOf
<1>2. below \subseteq FiniteSubsetsOf(Nat) /\ below # {}
  BY <1>1
<1>3. IsWellFoundedOn(StrictSubsetOrdering(Nat), FiniteSubsetsOf(Nat))
  BY FS_StrictSubsetOrderingWellFounded
<1>4. \E low \in below : \A other \in below : <<other, low>> \notin StrictSubsetOrdering(Nat)
  <2>. HIDE DEF below
  <2>. QED  BY <1>2, <1>3, WFMin
<1>5. PICK x \in S : \A y \in S : <<0 .. y, 0 .. x>> \notin StrictSubsetOrdering(Nat)
  BY <1>4
<1>6. ASSUME NEW y \in S, y < x
      PROVE  FALSE
  <2>1. x \in 0 .. x /\ x \notin 0 .. y
    BY <1>6
  <2>2. 0 .. y \subseteq 0 .. x /\ 0 .. y # 0 .. x /\ 0 .. y \subseteq Nat /\ 0 .. x \subseteq Nat
    BY <1>6, <2>1
  <2>3. <<0 .. y, 0 .. x>> \in StrictSubsetOrdering(Nat)
    BY <2>2 DEF StrictSubsetOrdering
  <2>. QED  BY <1>5, <2>3
<1>. QED  BY <1>6

LEMMA IntervalInduction ==
  ASSUME NEW m \in Nat, NEW n \in Nat, NEW P, m \in P,
         \A i \in m .. n - 1 : i \in P => i + 1 \in P
  PROVE  m .. n \subseteq P
<1>. DEFINE others == {i \in m .. n : i \notin P}
<1>. SUFFICES ASSUME others # {} PROVE FALSE
  OBVIOUS
<1>1. PICK x \in others : \A y \in others : x <= y
  <2>1. others \in SUBSET Nat
    OBVIOUS
  <2>. HIDE DEF others
  <2>. QED  BY <2>1, LeastNatural
<1>2. x \in m .. n /\ x \notin P /\ x # m
  OBVIOUS
<1>3. x - 1 \in m .. n - 1 /\ x - 1 \notin others
  BY <1>1, <1>2
<1>4. x - 1 \in P
  BY <1>3
<1>. QED  BY <1>2, <1>3, <1>4

(* The values of a function that is defined from its value before.         *)
Follows(c, F, m, n, g) ==
  g = [i \in m .. n |-> IF i = m THEN c ELSE F[<<g[i - 1], i>>]]

LEMMA Recursion ==
  ASSUME NEW V, NEW c \in V, NEW F \in [V \X Nat -> V], NEW m \in Nat, NEW n \in Nat, m <= n
  PROVE  \E g \in [m .. n -> V] : Follows(c, F, m, n, g)
<1>. DEFINE P == {k \in m .. n : \E g \in [m .. k -> V] : Follows(c, F, m, k, g)}
<1>1. m \in P
  <2>1. [i \in m .. m |-> c] \in [m .. m -> V]
    OBVIOUS
  <2>2. Follows(c, F, m, m, [i \in m .. m |-> c])
    BY DEF Follows
  <2>. QED  BY <2>1, <2>2
<1>2. ASSUME NEW k \in m .. n - 1, k \in P
      PROVE  k + 1 \in P
  <2>1. PICK g \in [m .. k -> V] : Follows(c, F, m, k, g)
    BY <1>2
  <2>. DEFINE h == [i \in m .. k + 1 |-> IF i = k + 1 THEN F[<<g[k], k + 1>>] ELSE g[i]]
  <2>2. h \in [m .. k + 1 -> V]
    <3>1. g[k] \in V /\ k + 1 \in Nat
      BY <1>2
    <3>2. F[<<g[k], k + 1>>] \in V
      BY <3>1
    <3>3. \A i \in m .. k + 1 : i # k + 1 => i \in m .. k
      BY <1>2
    <3>. QED  BY <3>2, <3>3
  <2>3. ASSUME NEW i \in m .. k + 1
        PROVE  h[i] = IF i = m THEN c ELSE F[<<h[i - 1], i>>]
    <3>1. CASE i = k + 1
      <4>1. i - 1 = k /\ k \in m .. k + 1 /\ k # k + 1 /\ i # m
        BY <1>2, <3>1
      <4>2. h[i - 1] = g[k] /\ h[i] = F[<<g[k], k + 1>>]
        BY <4>1, <3>1
      <4>. QED  BY <4>1, <4>2, <3>1
    <3>2. CASE i # k + 1
      <4>1. i \in m .. k /\ h[i] = g[i]
        BY <1>2, <3>2
      <4>2. g[i] = IF i = m THEN c ELSE F[<<g[i - 1], i>>]
        BY <2>1, <4>1 DEF Follows
      <4>3. CASE i = m
        BY <4>1, <4>2, <4>3
      <4>4. CASE i # m
        <5>1. i - 1 \in m .. k + 1 /\ i - 1 # k + 1
          BY <4>1, <4>4
        <5>. QED  BY <4>1, <4>2, <4>4, <5>1
      <4>. QED  BY <4>3, <4>4
    <3>. QED  BY <3>1, <3>2
  <2>4. Follows(c, F, m, k + 1, h)
    <3>1. h = [i \in m .. k + 1 |-> h[i]]
      OBVIOUS
    <3>2. [i \in m .. k + 1 |-> h[i]] = [i \in m .. k + 1 |-> IF i = m THEN c ELSE F[<<h[i - 1], i>>]]
      <4>. HIDE DEF h
      <4>. QED  BY <2>3
    <3>. QED  BY <3>1, <3>2 DEF Follows
  <2>5. k + 1 \in m .. n
    BY <1>2
  <2>. QED
    <3>. HIDE DEF h
    <3>. QED  BY <2>2, <2>4, <2>5
<1>3. m .. n \subseteq P
  <2>. HIDE DEF P
  <2>. QED  BY <1>1, <1>2, IntervalInduction
<1>4. n \in P
  BY <1>3
<1>. QED  BY <1>4

-----------------------------------------------------------------------------
(* Sequences of what is drawn.                                             *)

Members(s) == {s[i] : i \in DOMAIN s}

(* The members of a finite set can be put in an order.                     *)
LEMMA SetHasOrder ==
  ASSUME NEW S, IsFiniteSet(S),
         NEW s, s = CHOOSE f \in [1 .. Cardinality(S) -> S] : IsInjective(f)
  PROVE  s \in Seq(S) /\ IsInjective(s) /\ Members(s) = S
<1>1. Cardinality(S) \in Nat /\ ExistsBijection(1 .. Cardinality(S), S)
  BY FS_CardinalityType
<1>2. \E f \in [1 .. Cardinality(S) -> S] : IsInjective(f)
  BY <1>1 DEF ExistsBijection, Bijection, Injection
<1>3. s \in [1 .. Cardinality(S) -> S] /\ IsInjective(s)
  BY <1>2
<1>4. s \in Injection(1 .. Cardinality(S), S)
  BY <1>3 DEF Injection
<1>5. Cardinality(1 .. Cardinality(S)) = Cardinality(S)
  BY <1>1, FS_Interval
<1>6. s \in Surjection(1 .. Cardinality(S), S)
  BY <1>4, <1>5, FS_Injection
<1>7. Members(s) = S
  BY <1>6, <1>3 DEF Surjection, Members
<1>. QED  BY <1>1, <1>3, <1>7

LEMMA Concatenated ==
  ASSUME NEW X, NEW s \in Seq(X), NEW t \in Seq(X)
  PROVE  /\ s \o t \in Seq(X)
         /\ Members(s \o t) = Members(s) \cup Members(t)
         /\ IsInjective(s) /\ IsInjective(t) /\ Members(s) \cap Members(t) = {}
              => IsInjective(s \o t)
<1>1. /\ s \o t \in Seq(X) /\ DOMAIN s = 1 .. Len(s) /\ DOMAIN t = 1 .. Len(t)
      /\ DOMAIN (s \o t) = 1 .. Len(s) + Len(t) /\ Len(s) \in Nat /\ Len(t) \in Nat
  OBVIOUS
<1>2. \A i \in 1 .. Len(s) + Len(t) : (s \o t)[i] = IF i <= Len(s) THEN s[i] ELSE t[i - Len(s)]
  OBVIOUS
<1>3. \A k \in 1 .. Len(s) + Len(t) :
        \/ k \in 1 .. Len(s) /\ k <= Len(s)
        \/ k - Len(s) \in 1 .. Len(t) /\ ~(k <= Len(s))
  BY <1>1
<1>4. ASSUME NEW x \in Members(s \o t)
      PROVE  x \in Members(s) \cup Members(t)
  <2>1. PICK i \in 1 .. Len(s) + Len(t) : x = (s \o t)[i]
    BY <1>1, <1>4 DEF Members
  <2>. QED  BY <1>1, <1>2, <1>3, <2>1 DEF Members
<1>5. ASSUME NEW x \in Members(s)
      PROVE  x \in Members(s \o t)
  <2>1. PICK i \in 1 .. Len(s) : x = s[i]
    BY <1>1, <1>5 DEF Members
  <2>2. i \in 1 .. Len(s) + Len(t) /\ i <= Len(s)
    BY <1>1
  <2>. QED  BY <1>1, <1>2, <2>1, <2>2 DEF Members
<1>6. ASSUME NEW x \in Members(t)
      PROVE  x \in Members(s \o t)
  <2>1. PICK i \in 1 .. Len(t) : x = t[i]
    BY <1>1, <1>6 DEF Members
  <2>2. i + Len(s) \in 1 .. Len(s) + Len(t) /\ ~(i + Len(s) <= Len(s)) /\ (i + Len(s)) - Len(s) = i
    BY <1>1
  <2>. QED  BY <1>1, <1>2, <2>1, <2>2 DEF Members
<1>7. ASSUME IsInjective(s), IsInjective(t), Members(s) \cap Members(t) = {},
             NEW i \in 1 .. Len(s) + Len(t), NEW j \in 1 .. Len(s) + Len(t),
             (s \o t)[i] = (s \o t)[j]
      PROVE  i = j
  <2>1. CASE i <= Len(s) /\ j <= Len(s)
    BY <1>1, <1>2, <1>7, <1>3, <2>1 DEF IsInjective
  <2>2. CASE ~(i <= Len(s)) /\ ~(j <= Len(s))
    <3>1. i - Len(s) = j - Len(s)
      BY <1>1, <1>2, <1>7, <1>3, <2>2 DEF IsInjective
    <3>. QED  BY <1>1, <3>1
  <2>3. CASE i <= Len(s) /\ ~(j <= Len(s))
    BY <1>1, <1>2, <1>7, <1>3, <2>3 DEF Members
  <2>4. CASE ~(i <= Len(s)) /\ j <= Len(s)
    BY <1>1, <1>2, <1>7, <1>3, <2>4 DEF Members
  <2>. QED  BY <2>1, <2>2, <2>3, <2>4
<1>. QED  BY <1>1, <1>4, <1>5, <1>6, <1>7 DEF IsInjective

(* A sequence of sequences, one after the other.                           *)
Joined(q, m, g) == g = [i \in 1 .. m |-> IF i = 1 THEN q[i] ELSE g[i - 1] \o q[i]]
Flat(q) == IF Len(q) = 0 THEN q ELSE (CHOOSE g : Joined(q, Len(q), g))[Len(q)]

LEMMA Flattened ==
  ASSUME NEW X, NEW q \in Seq(Seq(X))
  PROVE  /\ Flat(q) \in Seq(X)
         /\ Members(Flat(q)) = UNION {Members(q[i]) : i \in DOMAIN q}
         /\ /\ \A i \in DOMAIN q : IsInjective(q[i])
            /\ \A i, j \in DOMAIN q : i # j => Members(q[i]) \cap Members(q[j]) = {}
            => IsInjective(Flat(q))
<1>1. CASE Len(q) = 0
  <2>1. q = <<>> /\ Flat(q) = <<>>
    BY <1>1 DEF Flat
  <2>2. DOMAIN <<>> = {} /\ <<>> \in Seq(X)
    OBVIOUS
  <2>3. Members(<<>>) = {} /\ IsInjective(<<>>)
    BY <2>2 DEF Members, IsInjective
  <2>4. UNION {Members(q[i]) : i \in DOMAIN q} = {}
    BY <2>1, <2>2
  <2>. QED  BY <2>1, <2>2, <2>3, <2>4
<1>2. CASE Len(q) # 0
  <2>. DEFINE n == Len(q)
              step == [x \in Seq(X) \X Nat |-> IF x[2] \in 1 .. n THEN x[1] \o q[x[2]] ELSE x[1]]
              g == CHOOSE f : Joined(q, n, f)
  <2>1. n \in Nat /\ 1 <= n /\ 1 \in 1 .. n /\ DOMAIN q = 1 .. n /\ \A i \in 1 .. n : q[i] \in Seq(X)
    BY <1>2
  <2>2. \E f \in [1 .. n -> Seq(X)] : Joined(q, n, f)
    <3>1. step \in [Seq(X) \X Nat -> Seq(X)]
      BY <2>1, Concatenated
    <3>2. PICK f \in [1 .. n -> Seq(X)] : Follows(q[1], step, 1, n, f)
      <4>. HIDE DEF step, n
      <4>. QED  BY <2>1, <3>1, Recursion
    <3>3. ASSUME NEW i \in 1 .. n, i # 1
          PROVE  step[<<f[i - 1], i>>] = f[i - 1] \o q[i]
      <4>1. i - 1 \in 1 .. n /\ i \in Nat
        BY <2>1, <3>3
      <4>2. <<f[i - 1], i>> \in Seq(X) \X Nat
        BY <3>2, <4>1
      <4>. QED  BY <4>2
    <3>4. [i \in 1 .. n |-> IF i = 1 THEN q[1] ELSE step[<<f[i - 1], i>>]]
            = [i \in 1 .. n |-> IF i = 1 THEN q[i] ELSE f[i - 1] \o q[i]]
      <4>. HIDE DEF step, n
      <4>. QED  BY <3>3
    <3>. QED
      <4>. HIDE DEF step, n
      <4>. QED  BY <3>2, <3>4 DEF Follows, Joined
  <2>3. Joined(q, n, g)
    <3>. HIDE DEF n
    <3>. QED  BY <2>2
  <2>. HIDE DEF g, n
  <2>4. g[1] = q[1] /\ \A i \in 1 .. n - 1 : g[i + 1] = g[i] \o q[i + 1]
    <3>1. \A i \in 1 .. n : g[i] = IF i = 1 THEN q[i] ELSE g[i - 1] \o q[i]
      BY <2>3 DEF Joined
    <3>2. \A i \in 1 .. n - 1 : i + 1 \in 1 .. n /\ i + 1 # 1 /\ (i + 1) - 1 = i
      BY <2>1
    <3>. QED  BY <2>1, <3>1, <3>2
  <2>. DEFINE Upto(i) == UNION {Members(q[k]) : k \in 1 .. i}
              distinct == /\ \A i \in 1 .. n : IsInjective(q[i])
                          /\ \A i, j \in 1 .. n : i # j => Members(q[i]) \cap Members(q[j]) = {}
              P == {i \in 1 .. n : /\ g[i] \in Seq(X) /\ Members(g[i]) = Upto(i)
                                   /\ distinct => IsInjective(g[i])}
  <2>5. 1 \in P
    BY <2>1, <2>4
  <2>6. ASSUME NEW i \in 1 .. n - 1, i \in P
        PROVE  i + 1 \in P
    <3>0. i + 1 \in 1 .. n /\ i \in 1 .. n
      BY <2>1
    <3>1. /\ i + 1 \in 1 .. n /\ i \in 1 .. n /\ q[i + 1] \in Seq(X) /\ g[i] \in Seq(X)
          /\ g[i + 1] = g[i] \o q[i + 1]
      BY <2>1, <2>4, <2>6, <3>0
    <3>2. Upto(i + 1) = Upto(i) \cup Members(q[i + 1])
      <4>1. 1 .. i + 1 = (1 .. i) \cup {i + 1}
        BY <2>1
      <4>. QED  BY <4>1
    <3>3. distinct => Upto(i) \cap Members(q[i + 1]) = {}
      <4>1. \A k \in 1 .. i : k \in 1 .. n /\ k # i + 1
        BY <2>1
      <4>. QED  BY <3>1, <4>1
    <3>4. g[i + 1] \in Seq(X) /\ Members(g[i + 1]) = Upto(i + 1)
      <4>1. Members(g[i]) = Upto(i)
        BY <2>6
      <4>2. g[i] \o q[i + 1] \in Seq(X) /\ Members(g[i] \o q[i + 1]) = Members(g[i]) \cup Members(q[i + 1])
        BY <3>1, Concatenated
      <4>. HIDE DEF Upto
      <4>. QED  BY <3>1, <3>2, <4>1, <4>2
    <3>5. distinct => IsInjective(g[i + 1])
      <4>. SUFFICES ASSUME distinct PROVE IsInjective(g[i + 1])
        OBVIOUS
      <4>1. IsInjective(g[i]) /\ IsInjective(q[i + 1]) /\ Members(g[i]) \cap Members(q[i + 1]) = {}
        BY <2>6, <3>1, <3>3
      <4>. QED  BY <3>1, <4>1, Concatenated
    <3>. QED  BY <3>1, <3>4, <3>5
  <2>7. n \in P
    <3>1. 1 .. n \subseteq P
      <4>. HIDE DEF P
      <4>. QED  BY <2>1, <2>5, <2>6, IntervalInduction
    <3>2. n \in 1 .. n
      BY <2>1
    <3>. HIDE DEF P
    <3>. QED  BY <3>1, <3>2
  <2>8. Flat(q) = g[n]
    BY <1>2 DEF Flat, g, n
  <2>. QED  BY <2>1, <2>7, <2>8
<1>. QED  BY <1>1, <1>2

-----------------------------------------------------------------------------
(* Parents: some have theirs among the others, the tops have not.  Going   *)
(* up ends at a top, or never, in a circle.                                *)

Tops(R, par) == {q \in R : par[q] \notin R}
Under(R, par, p) == {c \in R : par[c] = p}

IsUp(R, par, n, up) ==
  /\ up \in [0 .. n -> [R -> R]]
  /\ \A q \in R :
       /\ up[0][q] = q
       /\ \A i \in 0 .. n - 1 :
            up[i + 1][q] = IF up[i][q] \in Tops(R, par) THEN up[i][q] ELSE par[up[i][q]]

(* Those at a distance from the tops.                                      *)
IsAt(R, par, n, at) ==
  /\ at \in [0 .. n -> SUBSET R]
  /\ at[0] = Tops(R, par)
  /\ \A k \in 0 .. n - 1 : at[k + 1] = {c \in R : par[c] \in at[k]}

LEMMA UpExists ==
  ASSUME NEW R, NEW par, NEW n \in Nat
  PROVE  \E up : IsUp(R, par, n, up)
<1>. DEFINE step == [x \in [R -> R] \X Nat |->
                       [q \in R |-> IF x[1][q] \in Tops(R, par) THEN x[1][q] ELSE par[x[1][q]]]]
            self == [q \in R |-> q]
<1>1. step \in [[R -> R] \X Nat -> [R -> R]]
  BY DEF Tops
<1>2. self \in [R -> R]
  OBVIOUS
<1>3. PICK up \in [0 .. n -> [R -> R]] : Follows(self, step, 0, n, up)
  <2>1. 0 \in Nat /\ 0 <= n
    OBVIOUS
  <2>. HIDE DEF step, self
  <2>. QED  BY <1>1, <1>2, <2>1, Recursion
<1>4. \A q \in R : up[0][q] = q
  BY <1>3 DEF Follows
<1>5. ASSUME NEW q \in R, NEW i \in 0 .. n - 1
      PROVE  up[i + 1][q] = IF up[i][q] \in Tops(R, par) THEN up[i][q] ELSE par[up[i][q]]
  <2>1. i + 1 \in 0 .. n /\ i \in 0 .. n /\ i + 1 # 0 /\ (i + 1) - 1 = i /\ i + 1 \in Nat
    OBVIOUS
  <2>2. up[i + 1] = step[<<up[i], i + 1>>]
    <3>. HIDE DEF step, self
    <3>. QED  BY <1>3, <2>1 DEF Follows
  <2>3. <<up[i], i + 1>> \in [R -> R] \X Nat
    BY <1>3, <2>1
  <2>. QED  BY <2>2, <2>3
<1>. QED  BY <1>3, <1>4, <1>5 DEF IsUp

LEMMA AtExists ==
  ASSUME NEW R, NEW par, NEW n \in Nat
  PROVE  \E at : IsAt(R, par, n, at)
<1>. DEFINE step == [x \in (SUBSET R) \X Nat |-> {c \in R : par[c] \in x[1]}]
<1>1. step \in [(SUBSET R) \X Nat -> SUBSET R]
  OBVIOUS
<1>2. PICK at \in [0 .. n -> SUBSET R] : Follows(Tops(R, par), step, 0, n, at)
  <2>1. Tops(R, par) \in SUBSET R
    BY DEF Tops
  <2>2. 0 \in Nat /\ 0 <= n
    OBVIOUS
  <2>. HIDE DEF step
  <2>. QED  BY <1>1, <2>1, <2>2, Recursion
<1>3. at[0] = Tops(R, par)
  BY <1>2 DEF Follows
<1>4. ASSUME NEW i \in 0 .. n - 1
      PROVE  at[i + 1] = {c \in R : par[c] \in at[i]}
  <2>1. i + 1 \in 0 .. n /\ i \in 0 .. n /\ i + 1 # 0 /\ (i + 1) - 1 = i /\ i + 1 \in Nat
    OBVIOUS
  <2>2. at[i + 1] = step[<<at[i], i + 1>>]
    <3>. HIDE DEF step
    <3>. QED  BY <1>2, <2>1 DEF Follows
  <2>3. <<at[i], i + 1>> \in (SUBSET R) \X Nat
    BY <1>2, <2>1
  <2>. QED  BY <2>2, <2>3
<1>. QED  BY <1>2, <1>3, <1>4 DEF IsAt

(* No one is at two distances.                                             *)
LEMMA AtIsUnique ==
  ASSUME NEW R, NEW par, NEW n \in Nat, NEW at, IsAt(R, par, n, at)
  PROVE  \A k, l \in 0 .. n : at[k] \cap at[l] # {} => k = l
<1>. DEFINE P == {k \in 0 .. n : \A l \in 0 .. n : at[k] \cap at[l] # {} => k = l}
<1>1. ASSUME NEW l \in 1 .. n
      PROVE  at[0] \cap at[l] = {}
  <2>1. l - 1 \in 0 .. n - 1 /\ (l - 1) + 1 = l /\ l - 1 \in 0 .. n
    OBVIOUS
  <2>2. at[l] = {c \in R : par[c] \in at[l - 1]} /\ at[l - 1] \subseteq R
    BY <2>1 DEF IsAt
  <2>. QED  BY <2>2 DEF IsAt, Tops
<1>2. \A l \in 0 .. n : l = 0 \/ l \in 1 .. n
  OBVIOUS
<1>3. 0 \in P
  BY <1>1, <1>2
<1>4. ASSUME NEW k \in 0 .. n - 1, k \in P
      PROVE  k + 1 \in P
  <2>1. k + 1 \in 1 .. n /\ k + 1 \in 0 .. n /\ k \in 0 .. n
    OBVIOUS
  <2>2. ASSUME NEW l \in 0 .. n, at[k + 1] \cap at[l] # {}
        PROVE  k + 1 = l
    <3>1. l # 0
      BY <1>1, <2>1, <2>2
    <3>2. l - 1 \in 0 .. n - 1 /\ (l - 1) + 1 = l /\ l - 1 \in 0 .. n
      BY <3>1
    <3>3. /\ at[k + 1] = {c \in R : par[c] \in at[k]}
          /\ at[(l - 1) + 1] = {c \in R : par[c] \in at[l - 1]}
      BY <3>2 DEF IsAt
    <3>4. at[k] \cap at[l - 1] # {}
      BY <2>2, <3>2, <3>3
    <3>5. k = l - 1
      BY <1>4, <3>2, <3>4
    <3>. QED  BY <3>2, <3>5
  <2>. QED  BY <2>1, <2>2
<1>5. 0 .. n \subseteq P
  <2>. HIDE DEF P
  <2>. QED  BY <1>3, <1>4, IntervalInduction
<1>. QED  BY <1>5

(* The way up from one to another, j generations above, is in E, and no    *)
(* top is on the way.                                                      *)
Way(R, par, E, up, q, j, p) ==
  /\ up[j][q] = p
  /\ \A i \in 1 .. j : up[i][q] \in E
  /\ \A i \in 0 .. j - 1 : up[i][q] \notin Tops(R, par)

LEMMA WayStarts ==
  ASSUME NEW R, NEW par, NEW n \in Nat, NEW up, IsUp(R, par, n, up), NEW E,
         NEW q \in R, NEW p \in R
  PROVE  Way(R, par, E, up, q, 0, p) <=> q = p
BY DEF Way, IsUp

LEMMA WayTo ==
  ASSUME NEW R, NEW par, NEW n \in Nat, NEW up, IsUp(R, par, n, up), NEW E,
         NEW q \in R, NEW p \in R, NEW j \in 0 .. n - 1
  PROVE  Way(R, par, E, up, q, j + 1, p)
           <=> p \in E /\ \E c \in Under(R, par, p) : Way(R, par, E, up, q, j, c)
<1>1. ASSUME Way(R, par, E, up, q, j + 1, p)
      PROVE  p \in E /\ \E c \in Under(R, par, p) : Way(R, par, E, up, q, j, c)
  <2>1. j + 1 \in 1 .. j + 1 /\ j \in 0 .. (j + 1) - 1 /\ j \in 0 .. n
    OBVIOUS
  <2>2. up[j][q] \in R /\ up[j][q] \notin Tops(R, par) /\ up[j + 1][q] = p /\ p \in E
    BY <1>1, <2>1 DEF Way, IsUp
  <2>3. par[up[j][q]] = p
    BY <2>2 DEF IsUp
  <2>4. up[j][q] \in Under(R, par, p)
    BY <2>2, <2>3 DEF Under
  <2>5. (\A i \in 1 .. j : i \in 1 .. j + 1) /\ (\A i \in 0 .. j - 1 : i \in 0 .. (j + 1) - 1)
    OBVIOUS
  <2>6. Way(R, par, E, up, q, j, up[j][q])
    BY <1>1, <2>5 DEF Way
  <2>. QED  BY <2>2, <2>4, <2>6
<1>2. ASSUME p \in E, NEW c \in Under(R, par, p),
             Way(R, par, E, up, q, j, c)
      PROVE  Way(R, par, E, up, q, j + 1, p)
  <2>1. c \in R /\ par[c] = p /\ c \notin Tops(R, par) /\ up[j][q] = c
    BY <1>2 DEF Under, Tops, Way
  <2>2. up[j + 1][q] = p
    BY <2>1 DEF IsUp
  <2>3. /\ \A i \in 1 .. j + 1 : i = j + 1 \/ i \in 1 .. j
        /\ \A i \in 0 .. (j + 1) - 1 : i = j \/ i \in 0 .. j - 1
    OBVIOUS
  <2>. QED  BY <1>2, <2>1, <2>2, <2>3 DEF Way
<1>. QED  BY <1>1, <1>2

(* Who is on the way up to one at a distance is further by its length.     *)
LEMMA WayIsDistance ==
  ASSUME NEW R, NEW par, NEW n \in Nat, NEW up, IsUp(R, par, n, up), NEW E,
         NEW at, IsAt(R, par, n, at), NEW q \in R
  PROVE  \A j \in 0 .. n : \A p \in R : \A k \in 0 .. n - j :
           p \in at[k] /\ Way(R, par, E, up, q, j, p) => q \in at[k + j]
<1>. DEFINE P == {j \in 0 .. n : \A p \in R : \A k \in 0 .. n - j :
                    p \in at[k] /\ Way(R, par, E, up, q, j, p) => q \in at[k + j]}
<1>1. 0 \in P
  <2>1. ASSUME NEW p \in R, NEW k \in 0 .. n - 0, p \in at[k], Way(R, par, E, up, q, 0, p)
        PROVE  q \in at[k + 0]
    <3>1. q = p
      BY <2>1, WayStarts
    <3>2. k + 0 = k
      OBVIOUS
    <3>. QED  BY <2>1, <3>1, <3>2
  <2>2. 0 \in 0 .. n
    OBVIOUS
  <2>. QED  BY <2>1, <2>2
<1>2. ASSUME NEW j \in 0 .. n - 1, j \in P
      PROVE  j + 1 \in P
  <2>1. ASSUME NEW p \in R, NEW k \in 0 .. n - (j + 1), p \in at[k],
               Way(R, par, E, up, q, j + 1, p)
        PROVE  q \in at[k + (j + 1)]
    <3>1. PICK c \in Under(R, par, p) : Way(R, par, E, up, q, j, c)
      BY <2>1, WayTo
    <3>2. k \in 0 .. n - 1 /\ k + 1 \in 0 .. n - j /\ (k + 1) + j = k + (j + 1)
      OBVIOUS
    <3>3. c \in R /\ c \in at[k + 1]
      BY <2>1, <3>2 DEF Under, IsAt
    <3>4. q \in at[(k + 1) + j]
      BY <1>2, <3>1, <3>2, <3>3
    <3>. QED  BY <3>2, <3>4
  <2>2. j + 1 \in 0 .. n
    OBVIOUS
  <2>. QED  BY <2>1, <2>2
<1>3. 0 .. n \subseteq P
  <2>. HIDE DEF P
  <2>. QED  BY <1>1, <1>2, IntervalInduction
<1>. QED  BY <1>3

-----------------------------------------------------------------------------
(* A drawing: a row, and below it those of its children if it is in E, in  *)
(* the order o, to a depth.                                                *)
Lower(s, h) == [i \in DOMAIN s |-> h[s[i]]]

IsDrawing(R, E, o, n, g) ==
  g = [d \in 0 .. n |->
         [p \in R |-> <<p>> \o IF p \in E /\ d > 0 THEN Flat(Lower(o[p], g[d - 1])) ELSE <<>>]]

(* An order of the children of each.                                       *)
IsOrder(C, s, R) == s \in Seq(R) /\ IsInjective(s) /\ Members(s) = C
Orders(R, par, o) == \A p \in R : IsOrder(Under(R, par, p), o[p], R)

(* No row in two drawings, or twice in one.                                *)
Distinct(C, h) ==
  /\ \A c \in C : IsInjective(h[c])
  /\ \A c, d \in C : c # d => Members(h[c]) \cap Members(h[d]) = {}

LEMMA Below ==
  ASSUME NEW R, NEW C, NEW s, IsOrder(C, s, R), NEW h \in [R -> Seq(R)]
  PROVE  /\ Lower(s, h) \in Seq(Seq(R))
         /\ Flat(Lower(s, h)) \in Seq(R)
         /\ Members(Flat(Lower(s, h))) = UNION {Members(h[c]) : c \in C}
         /\ Distinct(C, h) => IsInjective(Flat(Lower(s, h)))
<1>. DEFINE q == Lower(s, h)
<1>1. s \in Seq(R) /\ DOMAIN s = 1 .. Len(s) /\ Len(s) \in Nat /\ \A i \in DOMAIN s : s[i] \in R
  BY DEF IsOrder
<1>2. q \in Seq(Seq(R)) /\ DOMAIN q = DOMAIN s
  BY <1>1 DEF Lower
<1>3. \A i \in DOMAIN q : q[i] = h[s[i]] /\ s[i] \in C
  BY <1>2 DEF IsOrder, Members, Lower
<1>4. UNION {Members(q[i]) : i \in DOMAIN q} = UNION {Members(h[c]) : c \in C}
  <2>. HIDE DEF q
  <2>1. \A c \in C : \E i \in DOMAIN q : c = s[i]
    BY <1>2 DEF IsOrder, Members
  <2>. QED  BY <1>3, <2>1
<1>5. ASSUME Distinct(C, h)
      PROVE  IsInjective(Flat(q))
  <2>1. \A i \in DOMAIN q : IsInjective(q[i])
    BY <1>3, <1>5 DEF Distinct
  <2>2. ASSUME NEW i \in DOMAIN q, NEW j \in DOMAIN q, i # j
        PROVE  Members(q[i]) \cap Members(q[j]) = {}
    <3>1. s[i] # s[j]
      BY <1>2, <2>2 DEF IsOrder, IsInjective
    <3>. HIDE DEF q
    <3>. QED  BY <1>3, <1>5, <2>2, <3>1 DEF Distinct
  <2>. HIDE DEF q
  <2>. QED  BY <1>2, <2>1, <2>2, Flattened
<1>6. Flat(q) \in Seq(R) /\ Members(Flat(q)) = UNION {Members(q[i]) : i \in DOMAIN q}
  <2>. HIDE DEF q
  <2>. QED  BY <1>2, Flattened
<1>. QED  BY <1>2, <1>4, <1>5, <1>6 DEF Lower

LEMMA DrawingExists ==
  ASSUME NEW R, NEW par, NEW E, NEW o, Orders(R, par, o), NEW n \in Nat
  PROVE  \E g \in [0 .. n -> [R -> Seq(R)]] : IsDrawing(R, E, o, n, g)
<1>. DEFINE V == [R -> Seq(R)]
            line(h, p) == <<p>> \o IF p \in E THEN Flat(Lower(o[p], h)) ELSE <<>>
            leaf == [p \in R |-> <<p>> \o <<>>]
            step == [x \in V \X Nat |-> [p \in R |-> line(x[1], p)]]
<1>1. ASSUME NEW h \in V, NEW p \in R
      PROVE  line(h, p) \in Seq(R)
  <2>1. Flat(Lower(o[p], h)) \in Seq(R)
    BY Below DEF Orders
  <2>2. <<p>> \in Seq(R) /\ <<>> \in Seq(R)
    OBVIOUS
  <2>. QED  BY <2>1, <2>2, Concatenated
<1>2. step \in [V \X Nat -> V]
  <2>. HIDE DEF line
  <2>. QED  BY <1>1
<1>3. leaf \in V
  <2>1. \A p \in R : <<p>> \o <<>> \in Seq(R)
    OBVIOUS
  <2>. QED  BY <2>1
<1>4. PICK g \in [0 .. n -> V] : Follows(leaf, step, 0, n, g)
  <2>1. 0 \in Nat /\ 0 <= n
    OBVIOUS
  <2>. HIDE DEF step, leaf, V
  <2>. QED  BY <1>2, <1>3, <2>1, Recursion
<1>5. ASSUME NEW d \in 0 .. n
      PROVE  (IF d = 0 THEN leaf ELSE step[<<g[d - 1], d>>])
               = [p \in R |-> <<p>> \o IF p \in E /\ d > 0 THEN Flat(Lower(o[p], g[d - 1])) ELSE <<>>]
  <2>1. CASE d = 0
    BY <2>1
  <2>2. CASE d # 0
    <3>1. d > 0 /\ d - 1 \in 0 .. n /\ d \in Nat
      BY <2>2
    <3>2. step[<<g[d - 1], d>>] = [p \in R |-> line(g[d - 1], p)]
      <4>1. <<g[d - 1], d>> \in V \X Nat
        BY <1>4, <3>1
      <4>. HIDE DEF line, V
      <4>. QED  BY <4>1
    <3>. QED  BY <2>2, <3>1, <3>2
  <2>. QED  BY <2>1, <2>2
<1>6. IsDrawing(R, E, o, n, g)
  <2>. HIDE DEF step, leaf
  <2>. QED  BY <1>4, <1>5 DEF Follows, IsDrawing
<1>. QED  BY <1>4, <1>6

(* Whoever has a way to one of C, of a length up to d.                     *)
Reach(R, par, E, up, C, d) == {q \in R : \E c \in C, j \in 0 .. d : Way(R, par, E, up, q, j, c)}

(* What is drawn of one to a depth: whoever has a way to it of that length *)
(* at most, and once.                                                      *)
Drawing(R, par, E, up, at, n, d, h) ==
  /\ h \in [R -> Seq(R)]
  /\ \A p \in R : Members(h[p]) = {q \in R : \E j \in 0 .. d : Way(R, par, E, up, q, j, p)}
  /\ \A k \in 0 .. n - d : \A p \in at[k] : IsInjective(h[p])

(* Those drawn of several at one distance, one after the other.            *)
LEMMA DrawnTogether ==
  ASSUME NEW R, NEW par, NEW n \in Nat, NEW up, IsUp(R, par, n, up), NEW E,
         NEW at, IsAt(R, par, n, at), NEW d \in 0 .. n, NEW h, Drawing(R, par, E, up, at, n, d, h),
         NEW C, NEW s, IsOrder(C, s, R)
  PROVE  /\ Flat(Lower(s, h)) \in Seq(R)
         /\ Members(Flat(Lower(s, h))) = Reach(R, par, E, up, C, d)
<1>. DEFINE f == Flat(Lower(s, h))
<1>1. h \in [R -> Seq(R)] /\ C \subseteq R
  BY DEF Drawing, IsOrder, Members
<1>2. f \in Seq(R) /\ Members(f) = UNION {Members(h[c]) : c \in C}
  BY <1>1, Below
<1>3. Members(f) = Reach(R, par, E, up, C, d)
  <2>1. \A c \in C : Members(h[c]) = {q \in R : \E j \in 0 .. d : Way(R, par, E, up, q, j, c)}
    BY <1>1 DEF Drawing
  <2>. HIDE DEF f
  <2>. QED  BY <1>2, <2>1 DEF Reach
<1>. QED  BY <1>2, <1>3

LEMMA TogetherDistinct ==
  ASSUME NEW R, NEW par, NEW n \in Nat, NEW up, IsUp(R, par, n, up), NEW E,
         NEW at, IsAt(R, par, n, at), NEW d \in 0 .. n, NEW h, Drawing(R, par, E, up, at, n, d, h),
         NEW C, NEW s, IsOrder(C, s, R),
         NEW k \in 0 .. n - d, C \subseteq at[k]
  PROVE  IsInjective(Flat(Lower(s, h)))
<1>0. h \in [R -> Seq(R)] /\ C \subseteq R
  BY DEF Drawing, IsOrder, Members
<1>1. \A c \in C : IsInjective(h[c])
  BY DEF Drawing
<1>2. ASSUME NEW c \in C, NEW b \in C, Members(h[c]) \cap Members(h[b]) # {}
      PROVE  c = b
  <2>1. PICK q \in R : q \in Members(h[c]) /\ q \in Members(h[b])
    BY <1>0, <1>2 DEF Drawing
  <2>2. PICK j \in 0 .. d : Way(R, par, E, up, q, j, c)
    BY <1>0, <2>1 DEF Drawing
  <2>3. PICK i \in 0 .. d : Way(R, par, E, up, q, i, b)
    BY <1>0, <2>1 DEF Drawing
  <2>4. /\ j \in 0 .. n /\ k \in 0 .. n - j /\ i \in 0 .. n /\ k \in 0 .. n - i
        /\ k + j \in 0 .. n /\ k + i \in 0 .. n
    OBVIOUS
  <2>5. q \in at[k + j] /\ q \in at[k + i]
    BY <1>0, <2>2, <2>3, <2>4, WayIsDistance
  <2>6. k + j = k + i
    BY <2>4, <2>5, AtIsUnique
  <2>7. j = i
    BY <2>6
  <2>. QED  BY <2>2, <2>3, <2>7 DEF Way
<1>3. \A c, b \in C : c # b => Members(h[c]) \cap Members(h[b]) = {}
  BY <1>2
<1>4. Distinct(C, h)
  BY <1>1, <1>3 DEF Distinct
<1>. QED  BY <1>0, <1>4, Below

LEMMA DrawnToDepth ==
  ASSUME NEW R, NEW par, NEW n \in Nat, NEW up, IsUp(R, par, n, up), NEW E,
         NEW at, IsAt(R, par, n, at), NEW o, Orders(R, par, o),
         NEW g, IsDrawing(R, E, o, n, g)
  PROVE  \A d \in 0 .. n : Drawing(R, par, E, up, at, n, d, g[d])
<1>. DEFINE P == {d \in 0 .. n : Drawing(R, par, E, up, at, n, d, g[d])}
<1>0. \A p \in R : <<p>> \in Seq(R) /\ <<>> \in Seq(R) /\ Members(<<p>>) = {p} /\ Members(<<>>) = {}
                   /\ <<p>> \o <<>> = <<p>> /\ IsInjective(<<p>>)
  BY DEF Members, IsInjective
<1>1. 0 \in P
  <2>1. g[0] = [p \in R |-> <<p>>]
    BY <1>0 DEF IsDrawing
  <2>2. \A j \in 0 .. 0 : j = 0
    OBVIOUS
  <2>3. at[0] \subseteq R /\ \A k \in 0 .. n - 0 : at[k] \subseteq R
    BY DEF IsAt
  <2>4. ASSUME NEW p \in R
        PROVE  Members(g[0][p]) = {q \in R : \E j \in 0 .. 0 : Way(R, par, E, up, q, j, p)}
    <3>1. \A q \in R : Way(R, par, E, up, q, 0, p) <=> q = p
      BY WayStarts
    <3>2. \A q \in R : (\E j \in 0 .. 0 : Way(R, par, E, up, q, j, p)) <=> q = p
      BY <2>2, <3>1
    <3>3. Members(g[0][p]) = {p}
      BY <1>0, <2>1
    <3>. QED  BY <3>2, <3>3
  <2>5. \A p \in R : IsInjective(g[0][p])
    BY <1>0, <2>1
  <2>6. g[0] \in [R -> Seq(R)]
    BY <1>0, <2>1
  <2>7. 0 \in 0 .. n
    OBVIOUS
  <2>. QED  BY <2>3, <2>4, <2>5, <2>6, <2>7 DEF Drawing
<1>2. ASSUME NEW d \in 0 .. n - 1, d \in P
      PROVE  d + 1 \in P
  <2>1. d + 1 \in 0 .. n /\ d \in 0 .. n /\ d + 1 > 0 /\ (d + 1) - 1 = d
    OBVIOUS
  <2>2. ASSUME NEW p \in R
        PROVE  g[d + 1][p] = <<p>> \o IF p \in E THEN Flat(Lower(o[p], g[d])) ELSE <<>>
    <3>1. g[d + 1] = [r \in R |-> <<r>> \o IF r \in E /\ d + 1 > 0
                                           THEN Flat(Lower(o[r], g[(d + 1) - 1])) ELSE <<>>]
      BY <2>1 DEF IsDrawing
    <3>. QED  BY <2>1, <3>1
  <2>2a. DOMAIN g[d + 1] = R /\ g[d + 1] = [p \in R |-> g[d + 1][p]]
    BY <2>1 DEF IsDrawing
  <2>3. ASSUME NEW p \in R
        PROVE  /\ g[d + 1][p] \in Seq(R)
               /\ Members(g[d + 1][p])
                    = {q \in R : \E j \in 0 .. d + 1 : Way(R, par, E, up, q, j, p)}
               /\ \A k \in 0 .. n - (d + 1) : p \in at[k] => IsInjective(g[d + 1][p])
    <3>. DEFINE C == Under(R, par, p)
                f == Flat(Lower(o[p], g[d]))
    <3>1. IsOrder(C, o[p], R) /\ Drawing(R, par, E, up, at, n, d, g[d])
      BY <1>2 DEF Orders, C
    <3>2. f \in Seq(R) /\ Members(f) = Reach(R, par, E, up, C, d)
      BY <2>1, <3>1, DrawnTogether
    <3>2a. Members(f) = {q \in R : \E c \in C, j \in 0 .. d : Way(R, par, E, up, q, j, c)}
      BY <3>2 DEF Reach
    <3>2b. \A k \in 0 .. n - d : C \subseteq at[k] => IsInjective(f)
      BY <2>1, <3>1, TogetherDistinct
    <3>. HIDE DEF f, C
    <3>3. ASSUME NEW q \in R
          PROVE  (\E j \in 0 .. d + 1 : Way(R, par, E, up, q, j, p))
                   <=> q = p \/ (p \in E /\ \E c \in C, j \in 0 .. d : Way(R, par, E, up, q, j, c))
      <4>1. \A j \in 0 .. d + 1 : j = 0 \/ (j - 1 \in 0 .. d /\ (j - 1) + 1 = j)
        OBVIOUS
      <4>2. \A j \in 0 .. d : j + 1 \in 0 .. d + 1 /\ j \in 0 .. n - 1
        OBVIOUS
      <4>3. 0 \in 0 .. d + 1
        OBVIOUS
      <4>4. /\ Way(R, par, E, up, q, 0, p) <=> q = p
            /\ \A j \in 0 .. d : Way(R, par, E, up, q, j + 1, p)
                <=> p \in E /\ \E c \in C : Way(R, par, E, up, q, j, c)
        BY <4>2, WayTo, WayStarts DEF C
      <4>5. ASSUME NEW j \in 0 .. d + 1, Way(R, par, E, up, q, j, p)
            PROVE  q = p \/ (p \in E /\ \E c \in C, i \in 0 .. d : Way(R, par, E, up, q, i, c))
        <5>1. CASE j = 0
          BY <4>4, <4>5, <5>1
        <5>2. CASE j - 1 \in 0 .. d /\ (j - 1) + 1 = j
          <6>1. Way(R, par, E, up, q, (j - 1) + 1, p)
            BY <4>5, <5>2
          <6>. QED  BY <4>4, <5>2, <6>1
        <5>. QED  BY <4>1, <5>1, <5>2
      <4>. QED  BY <4>2, <4>3, <4>4, <4>5
    <3>4. CASE p \in E
      <4>. DEFINE me == <<p>>
      <4>0. me \in Seq(R) /\ f \in Seq(R) /\ Members(me) = {p} /\ IsInjective(me)
        BY <1>0, <3>2
      <4>1. g[d + 1][p] = me \o f
        BY <2>2, <3>4 DEF f
      <4>. HIDE DEF me
      <4>2. /\ g[d + 1][p] \in Seq(R) /\ Members(g[d + 1][p]) = {p} \cup Members(f)
            /\ IsInjective(f) /\ {p} \cap Members(f) = {} => IsInjective(g[d + 1][p])
        BY <4>0, <4>1, Concatenated
      <4>3. ASSUME NEW k \in 0 .. n - (d + 1), p \in at[k]
            PROVE  IsInjective(g[d + 1][p])
        <5>1. k \in 0 .. n - 1 /\ k + 1 \in 0 .. n - d /\ k \in 0 .. n
          OBVIOUS
        <5>2. C \subseteq at[k + 1]
          BY <4>3, <5>1 DEF IsAt, Under, C
        <5>3. p \notin Members(f)
          <6>1. SUFFICES ASSUME NEW c \in C, NEW j \in 0 .. d, Way(R, par, E, up, p, j, c)
                         PROVE  FALSE
            BY <3>2a
          <6>2. c \in R /\ c \in at[k + 1] /\ j \in 0 .. n /\ k + 1 \in 0 .. n - j
            BY <5>1, <5>2 DEF Under, C
          <6>3. p \in at[(k + 1) + j]
            BY <6>1, <6>2, WayIsDistance
          <6>4. (k + 1) + j \in 0 .. n /\ (k + 1) + j # k
            BY <6>2
          <6>. QED  BY <4>3, <5>1, <6>3, <6>4, AtIsUnique
        <5>4. IsInjective(f)
          BY <3>2b, <5>1, <5>2
        <5>. QED  BY <4>2, <5>3, <5>4
      <4>4. \A q : q \in Members(g[d + 1][p])
                     <=> q \in R /\ \E j \in 0 .. d + 1 : Way(R, par, E, up, q, j, p)
        BY <3>2a, <3>3, <3>4, <4>2
      <4>. QED  BY <4>2, <4>3, <4>4
    <3>5. CASE p \notin E
      <4>1. g[d + 1][p] = <<p>>
        BY <1>0, <2>2, <3>5
      <4>2. \A q : q \in Members(g[d + 1][p])
                     <=> q \in R /\ \E j \in 0 .. d + 1 : Way(R, par, E, up, q, j, p)
        BY <1>0, <3>3, <3>5, <4>1
      <4>. QED  BY <1>0, <4>1, <4>2
    <3>. QED  BY <3>4, <3>5
  <2>4. \A k \in 0 .. n - (d + 1) : at[k] \subseteq R
    BY DEF IsAt
  <2>5. g[d + 1] \in [R -> Seq(R)]
    BY <2>2a, <2>3
  <2>. QED  BY <2>1, <2>3, <2>4, <2>5 DEF Drawing
<1>3. 0 .. n \subseteq P
  <2>. HIDE DEF P
  <2>. QED  BY <1>1, <1>2, IntervalInduction
<1>. QED  BY <1>3

(* Who is at a distance has others above, one at each lesser distance.     *)
LEMMA DistancesBounded ==
  ASSUME NEW R, IsFiniteSet(R), NEW par, NEW n \in Nat, NEW at, IsAt(R, par, n, at)
  PROVE  \A k \in 0 .. n : at[k] # {} => k < Cardinality(R)
<1>. DEFINE upto(j) == UNION {at[i] : i \in 0 .. j}
            P == {j \in 0 .. n : at[j] # {} => Cardinality(upto(j)) > j}
<1>1. \A j \in 0 .. n : upto(j) \in SUBSET R /\ at[j] \in SUBSET R
  BY DEF IsAt
<1>2. \A j \in 0 .. n : /\ IsFiniteSet(upto(j)) /\ Cardinality(upto(j)) \in Nat
                        /\ Cardinality(upto(j)) <= Cardinality(R)
                        /\ IsFiniteSet(at[j]) /\ Cardinality(at[j]) \in Nat
                        /\ (at[j] # {} => Cardinality(at[j]) # 0)
  <2>. HIDE DEF upto
  <2>. QED  BY <1>1, FS_Subset, FS_CardinalityType, FS_EmptySet
<1>3. 0 \in P
  <2>1. upto(0) = at[0] /\ 0 \in 0 .. n
    <3>1. 0 .. 0 = {0}
      OBVIOUS
    <3>. QED  BY <3>1
  <2>. HIDE DEF upto
  <2>. QED  BY <1>2, <2>1
<1>4. ASSUME NEW j \in 0 .. n - 1, j \in P
      PROVE  j + 1 \in P
  <2>1. j \in 0 .. n /\ j + 1 \in 0 .. n
    OBVIOUS
  <2>2. upto(j + 1) = upto(j) \cup at[j + 1]
    <3>1. 0 .. j + 1 = (0 .. j) \cup {j + 1}
      OBVIOUS
    <3>. QED  BY <3>1
  <2>3. upto(j) \cap at[j + 1] = {}
    <3>1. \A i \in 0 .. j : i \in 0 .. n /\ i # j + 1
      OBVIOUS
    <3>2. \A i \in 0 .. j : at[i] \cap at[j + 1] = {}
      BY <2>1, <3>1, AtIsUnique
    <3>. QED  BY <3>2
  <2>4. ASSUME at[j + 1] # {}
        PROVE  Cardinality(upto(j + 1)) > j + 1
    <3>1. at[j] # {}
      BY <2>4 DEF IsAt
    <3>. HIDE DEF upto
    <3>2. Cardinality(upto(j)) > j
      BY <1>4, <3>1
    <3>3. Cardinality(upto(j + 1)) = Cardinality(upto(j)) + Cardinality(at[j + 1]) - Cardinality({})
      BY <1>2, <2>1, <2>2, <2>3, FS_Union
    <3>. QED  BY <1>2, <2>1, <2>4, <3>2, <3>3, FS_EmptySet
  <2>. HIDE DEF upto
  <2>. QED  BY <2>1, <2>4
<1>5. 0 .. n \subseteq P
  <2>. HIDE DEF P
  <2>. QED  BY <1>3, <1>4, IntervalInduction
<1>6. Cardinality(R) \in Nat
  BY FS_CardinalityType
<1>. HIDE DEF upto
<1>. QED  BY <1>2, <1>5, <1>6

LEMMA DrawingOf ==
  ASSUME NEW R, NEW E, NEW o, NEW n, NEW g, IsDrawing(R, E, o, n, g)
  PROVE  \A d \in 0 .. n, p \in R :
           g[d][p] = <<p>> \o IF p \in E /\ d > 0 THEN Flat(Lower(o[p], g[d - 1])) ELSE <<>>
<1>. DEFINE F == [i \in 0 .. n |-> [q \in R |-> <<q>> \o IF q \in E /\ i > 0
                                                   THEN Flat(Lower(o[q], g[i - 1])) ELSE <<>>]]
<1>1. g = F
  BY DEF IsDrawing
<1>2. \A d \in 0 .. n, p \in R :
        F[d][p] = <<p>> \o IF p \in E /\ d > 0 THEN Flat(Lower(o[p], g[d - 1])) ELSE <<>>
  OBVIOUS
<1>. HIDE DEF F
<1>. QED  BY <1>1, <1>2

(* Hence as many generations as there are members are all there are: what  *)
(* is drawn of a top is the same to every depth that is no less.           *)
LEMMA DrawnWhole ==
  ASSUME NEW R, IsFiniteSet(R), NEW par, NEW E, NEW o, Orders(R, par, o),
         NEW m \in Nat, NEW g, IsDrawing(R, E, o, m, g), Cardinality(R) <= m,
         NEW n \in Nat, NEW h, IsDrawing(R, E, o, n, h), Cardinality(R) <= n
  PROVE  \A p \in Tops(R, par) : g[m][p] = h[n][p]
<1>0. /\ \A d \in 0 .. m, p \in R :
           g[d][p] = <<p>> \o IF p \in E /\ d > 0 THEN Flat(Lower(o[p], g[d - 1])) ELSE <<>>
      /\ \A d \in 0 .. n, p \in R :
           h[d][p] = <<p>> \o IF p \in E /\ d > 0 THEN Flat(Lower(o[p], h[d - 1])) ELSE <<>>
  BY DrawingOf
<1>. DEFINE c == Cardinality(R)
<1>1. c \in Nat
  BY FS_CardinalityType
<1>2. PICK at : IsAt(R, par, c, at)
  BY <1>1, AtExists
<1>. DEFINE P == {j \in 0 .. c : \A d \in 0 .. m, e \in 0 .. n :
                                   d >= j /\ e >= j => \A p \in at[c - j] : g[d][p] = h[e][p]}
<1>3. 0 \in P
  <2>1. at[c] = {}
    BY <1>1, <1>2, DistancesBounded
  <2>. HIDE DEF c
  <2>. QED  BY <1>1, <2>1
<1>4. ASSUME NEW j \in 0 .. c - 1, j \in P
      PROVE  j + 1 \in P
  <2>. HIDE DEF c
  <2>. SUFFICES ASSUME NEW d \in 0 .. m, NEW e \in 0 .. n, d >= j + 1, e >= j + 1,
                       NEW p \in at[c - (j + 1)]
                PROVE  g[d][p] = h[e][p]
    <3>1. j + 1 \in 0 .. c
      BY <1>1
    <3>. QED  BY <3>1
  <2>1. /\ d - 1 \in 0 .. m /\ e - 1 \in 0 .. n /\ d > 0 /\ e > 0 /\ d - 1 >= j /\ e - 1 >= j
        /\ c - (j + 1) \in 0 .. c - 1 /\ c - (j + 1) \in 0 .. c /\ (c - (j + 1)) + 1 = c - j
    BY <1>1
  <2>2. p \in R
    BY <1>2, <2>1 DEF IsAt
  <2>3. Under(R, par, p) \subseteq at[c - j]
    BY <1>2, <2>1 DEF IsAt, Under
  <2>4. \A k \in at[c - j] : g[d - 1][k] = h[e - 1][k]
    BY <1>4, <2>1
  <2>5. \A i \in DOMAIN o[p] : o[p][i] \in Under(R, par, p)
    BY <2>2 DEF Orders, IsOrder, Members
  <2>6. Lower(o[p], g[d - 1]) = Lower(o[p], h[e - 1])
    BY <2>3, <2>4, <2>5 DEF Lower
  <2>. QED  BY <1>0, <2>1, <2>2, <2>6
<1>5. 0 .. c \subseteq P
  <2>. HIDE DEF P, c
  <2>. QED  BY <1>1, <1>3, <1>4, IntervalInduction
<1>6. \A p \in at[c - c] : g[m][p] = h[n][p]
  <2>1. c \in 0 .. c /\ m \in 0 .. m /\ n \in 0 .. n /\ m >= c /\ n >= c
    <3>. HIDE DEF c
    <3>1. c <= m /\ c <= n
      BY DEF c
    <3>. QED  BY <1>1, <3>1
  <2>. HIDE DEF c
  <2>. QED  BY <1>5, <2>1
<1>7. at[c - c] = Tops(R, par)
  <2>1. c - c = 0
    <3>. HIDE DEF c
    <3>. QED  BY <1>1
  <2>. QED  BY <1>2, <2>1 DEF IsAt
<1>. QED  BY <1>6, <1>7

(* The drawings of some tops, one after the other.                         *)
LEMMA ForestDrawn ==
  ASSUME NEW R, NEW par, NEW E, NEW n \in Nat, NEW o, Orders(R, par, o),
         NEW g, IsDrawing(R, E, o, n, g),
         NEW C, C \subseteq Tops(R, par), NEW s, IsOrder(C, s, R)
  PROVE  /\ Flat(Lower(s, g[n])) \in Seq(R) /\ IsInjective(Flat(Lower(s, g[n])))
         /\ \A up : IsUp(R, par, n, up) =>
              Members(Flat(Lower(s, g[n]))) = Reach(R, par, E, up, C, n)
<1>1. PICK at : IsAt(R, par, n, at)
  BY AtExists
<1>2. n \in 0 .. n /\ 0 \in 0 .. n - n
  OBVIOUS
<1>3. C \subseteq at[0]
  BY <1>1 DEF IsAt
<1>4. ASSUME NEW up, IsUp(R, par, n, up)
      PROVE  /\ Flat(Lower(s, g[n])) \in Seq(R) /\ IsInjective(Flat(Lower(s, g[n])))
             /\ Members(Flat(Lower(s, g[n]))) = Reach(R, par, E, up, C, n)
  <2>1. Drawing(R, par, E, up, at, n, n, g[n])
    BY <1>1, <1>2, <1>4, DrawnToDepth
  <2>2. /\ Flat(Lower(s, g[n])) \in Seq(R)
        /\ Members(Flat(Lower(s, g[n]))) = Reach(R, par, E, up, C, n)
    BY <1>1, <1>2, <1>4, <2>1, DrawnTogether
  <2>3. \A k \in 0 .. n - n : C \subseteq at[k] => IsInjective(Flat(Lower(s, g[n])))
    BY <1>1, <1>2, <1>4, <2>1, TogetherDistinct
  <2>. QED  BY <1>2, <1>3, <2>2, <2>3
<1>5. \E up : IsUp(R, par, n, up)
  BY UpExists
<1>. QED  BY <1>4, <1>5

(* Someone has a way to a top, in E, if and only if there is a top above   *)
(* and all who are above are in E.                                         *)
LEMMA WaysToTops ==
  ASSUME NEW R, NEW par, NEW n \in Nat, NEW up, IsUp(R, par, n, up), NEW E, NEW q \in R
  PROVE  q \in Reach(R, par, E, up, Tops(R, par), n)
           <=> /\ \E i \in 0 .. n : up[i][q] \in Tops(R, par)
               /\ \A i \in 0 .. n : up[i][q] = q \/ up[i][q] \in E
<1>0. \A i \in 0 .. n : up[i][q] \in R
  BY DEF IsUp
<1>1. ASSUME NEW r \in Tops(R, par), NEW j \in 0 .. n, Way(R, par, E, up, q, j, r)
      PROVE  /\ \E i \in 0 .. n : up[i][q] \in Tops(R, par)
             /\ \A i \in 0 .. n : up[i][q] = q \/ up[i][q] \in E
  <2>. DEFINE P == {i \in j .. n : up[i][q] = r}
  <2>1. j \in P
    BY <1>1 DEF Way
  <2>2. ASSUME NEW i \in j .. n - 1, i \in P
        PROVE  i + 1 \in P
    <3>1. i \in 0 .. n - 1 /\ i + 1 \in j .. n
      OBVIOUS
    <3>. QED  BY <1>1, <2>2, <3>1 DEF IsUp
  <2>3. j .. n \subseteq P
    <3>1. j \in Nat
      OBVIOUS
    <3>. HIDE DEF P
    <3>. QED  BY <2>1, <2>2, <3>1, IntervalInduction
  <2>4. ASSUME NEW i \in 0 .. n
        PROVE  up[i][q] = q \/ up[i][q] \in E
    <3>1. CASE i = 0
      BY <3>1 DEF IsUp
    <3>2. CASE i \in 1 .. j
      BY <1>1, <3>2 DEF Way
    <3>3. CASE i \in j .. n
      <4>1. up[i][q] = r /\ up[j][q] = r
        BY <2>1, <2>3, <3>3
      <4>2. j = 0 \/ j \in 1 .. j
        OBVIOUS
      <4>3. up[0][q] = q
        BY DEF IsUp
      <4>. QED  BY <1>1, <4>1, <4>2, <4>3 DEF Way
    <3>4. i = 0 \/ i \in 1 .. j \/ i \in j .. n
      OBVIOUS
    <3>. QED  BY <3>1, <3>2, <3>3, <3>4
  <2>. QED  BY <1>1, <2>4 DEF Way
<1>2. ASSUME NEW i \in 0 .. n, up[i][q] \in Tops(R, par),
             \A k \in 0 .. n : up[k][q] = q \/ up[k][q] \in E
      PROVE  \E r \in Tops(R, par), j \in 0 .. n : Way(R, par, E, up, q, j, r)
  <2>. DEFINE ends == {k \in 0 .. n : up[k][q] \in Tops(R, par)}
  <2>1. PICK j \in ends : \A k \in ends : j <= k
    <3>1. ends \in SUBSET Nat /\ ends # {}
      BY <1>2
    <3>. HIDE DEF ends
    <3>. QED  BY <3>1, LeastNatural
  <2>2. /\ j \in 0 .. n /\ up[j][q] \in Tops(R, par)
        /\ \A k \in 0 .. j - 1 : k \in 0 .. n /\ up[k][q] \notin Tops(R, par)
    <3>1. \A k \in 0 .. j - 1 : k \in 0 .. n /\ ~(j <= k)
      OBVIOUS
    <3>. QED  BY <2>1, <3>1
  <2>3. PICK at : IsAt(R, par, n, at)
    BY AtExists
  <2>4. q \in at[j]
    <3>1. \A k \in 1 .. j : up[k][q] \in R
      BY <1>0, <2>2
    <3>2. Way(R, par, R, up, q, j, up[j][q])
      BY <2>2, <3>1 DEF Way
    <3>3. 0 \in 0 .. n - j /\ 0 + j = j
      BY <2>2
    <3>4. up[j][q] \in R /\ up[j][q] \in at[0]
      BY <1>0, <2>2, <2>3 DEF IsAt
    <3>5. q \in at[0 + j]
      BY <2>2, <2>3, <3>2, <3>3, <3>4, WayIsDistance
    <3>. QED  BY <3>3, <3>5
  <2>. DEFINE P == {k \in 0 .. j : up[k][q] \in at[j - k]}
  <2>5. 0 \in P
    <3>1. 0 \in 0 .. j /\ j - 0 = j
      BY <2>2
    <3>. QED  BY <2>4, <3>1 DEF IsUp
  <2>6. ASSUME NEW k \in 0 .. j - 1, k \in P
        PROVE  k + 1 \in P
    <3>1. /\ k \in 0 .. n - 1 /\ k \in 0 .. n /\ k + 1 \in 0 .. j
          /\ j - (k + 1) \in 0 .. n - 1 /\ (j - (k + 1)) + 1 = j - k
      BY <2>2
    <3>2. up[k][q] \in at[(j - (k + 1)) + 1] /\ up[k][q] \notin Tops(R, par)
      BY <2>2, <2>6, <3>1
    <3>3. par[up[k][q]] \in at[j - (k + 1)]
      BY <2>3, <3>1, <3>2 DEF IsAt
    <3>4. up[k + 1][q] = par[up[k][q]]
      BY <3>1, <3>2 DEF IsUp
    <3>. QED  BY <3>1, <3>3, <3>4
  <2>7. 0 .. j \subseteq P
    <3>1. j \in Nat /\ 0 \in Nat
      BY <2>2
    <3>. HIDE DEF P
    <3>. QED  BY <2>5, <2>6, <3>1, IntervalInduction
  <2>8. ASSUME NEW k \in 1 .. j
        PROVE  up[k][q] \in E
    <3>1. k \in 0 .. j /\ k \in 0 .. n /\ j - k \in 0 .. n /\ j - k # j
      BY <2>2
    <3>2. up[k][q] \in at[j - k]
      BY <2>7, <3>1
    <3>3. up[k][q] # q
      <4>1. at[j] \cap at[j - k] = {}
        BY <2>2, <2>3, <3>1, AtIsUnique
      <4>. QED  BY <2>4, <3>2, <4>1
    <3>. QED  BY <1>2, <3>1, <3>3
  <2>9. Way(R, par, E, up, q, j, up[j][q])
    BY <2>2, <2>8 DEF Way
  <2>. QED  BY <2>2, <2>9
<1>. QED  BY <1>1, <1>2 DEF Reach

-----------------------------------------------------------------------------
(* The tree of the process page.                                           *)

LEMMA TreeOperators ==
  /\ \A S : Tree!Ordered(S) = CHOOSE f \in [1 .. Cardinality(S) -> S] : IsInjective(f)
  /\ \A q : Tree!FlattenSeq(q) = Flat(q)
  /\ \A s : Tree!ToSet(s) = Members(s)
  /\ \A f : Tree!IsInjective(f) <=> IsInjective(f)
  /\ \A S : Tree!Cardinality(S) = Cardinality(S)
<1>1. \A S : Tree!Cardinality(S) = Cardinality(S)
  BY DEF Tree!Cardinality, Cardinality
<1>2. \A f : Tree!IsInjective(f) <=> IsInjective(f)
  BY DEF Tree!IsInjective, IsInjective
<1>3. \A S : Tree!Ordered(S) = CHOOSE f \in [1 .. Cardinality(S) -> S] : IsInjective(f)
  BY DEF Tree!Ordered, Tree!SetToSeq, Tree!Cardinality, Cardinality, Tree!IsInjective, IsInjective
<1>4. \A q : Tree!FlattenSeq(q) = Flat(q)
  BY DEF Tree!FlattenSeq, Flat, Joined
<1>5. \A s : Tree!ToSet(s) = Members(s)
  BY DEF Tree!ToSet, Members
<1>. QED  BY <1>1, <1>2, <1>3, <1>4, <1>5

(* The processes are finitely many.                                        *)
TreeInv == Tree!TypeOK /\ IsFiniteSet(DOMAIN ppid)

LEMMA TreeOrdered ==
  ASSUME TreeInv, NEW S \in SUBSET Tree!Rows
  PROVE  IsOrder(S, Tree!Ordered(S), Tree!Rows)
<1>1. IsFiniteSet(Tree!Rows)
  <2>1. Tree!Rows \in SUBSET DOMAIN ppid
    BY DEF Tree!Rows
  <2>. QED  BY <2>1, FS_Subset DEF TreeInv
<1>2. IsFiniteSet(S)
  BY <1>1, FS_Subset
<1>. DEFINE s == Tree!Ordered(S)
<1>3. s = CHOOSE f \in [1 .. Cardinality(S) -> S] : IsInjective(f)
  BY TreeOperators
<1>. HIDE DEF s
<1>4. s \in Seq(S) /\ IsInjective(s) /\ Members(s) = S
  BY <1>2, <1>3, SetHasOrder
<1>5. s \in Seq(Tree!Rows)
  BY <1>4, SeqMonotonic
<1>. QED  BY <1>4, <1>5 DEF IsOrder, s

(* What is computed of the rows, to each depth.                            *)
TreeDraws(draw) ==
  draw = [depth \in 0 .. Tree!Cardinality(Tree!Rows) |->
           [p \in Tree!Rows |->
             <<p>> \o IF p \in expanded /\ depth > 0
                      THEN Tree!FlattenSeq([i \in DOMAIN Tree!Ordered(Tree!Kids(p)) |->
                                              draw[depth - 1][Tree!Ordered(Tree!Kids(p))[i]]])
                      ELSE <<>>]]

LEMMA TreeDrawing ==
  ASSUME TreeInv
  PROVE  \E g : /\ IsDrawing(Tree!Rows, expanded, [p \in Tree!Rows |-> Tree!Ordered(Tree!Kids(p))],
                             Cardinality(Tree!Rows), g)
               /\ Tree!DrawNode = g[Cardinality(Tree!Rows)]
<1>. DEFINE R == Tree!Rows
            n == Cardinality(R)
            o == [p \in R |-> Tree!Ordered(Tree!Kids(p))]
            g == CHOOSE draw : TreeDraws(draw)
<1>1. n \in Nat
  <2>1. Tree!Rows \in SUBSET DOMAIN ppid
    BY DEF Tree!Rows
  <2>. QED  BY <2>1, FS_Subset, FS_CardinalityType DEF TreeInv
<1>2. \A p : Tree!Kids(p) = Under(R, ppid, p) /\ Tree!Kids(p) \in SUBSET R
  BY DEF Tree!Kids, Under
<1>3. Orders(R, ppid, o)
  BY <1>2, TreeOrdered DEF Orders
<1>4. \A draw : TreeDraws(draw) <=> IsDrawing(R, expanded, o, n, draw)
  <2>. SUFFICES ASSUME NEW draw
                PROVE  TreeDraws(draw) <=> IsDrawing(R, expanded, o, n, draw)
    OBVIOUS
  <2>1. ASSUME NEW depth \in 0 .. n, NEW p \in R
        PROVE  Tree!FlattenSeq([i \in DOMAIN Tree!Ordered(Tree!Kids(p)) |->
                                  draw[depth - 1][Tree!Ordered(Tree!Kids(p))[i]]])
                 = Flat(Lower(o[p], draw[depth - 1]))
    BY TreeOperators DEF Lower
  <2>2. [depth \in 0 .. n |->
           [p \in R |->
             <<p>> \o IF p \in expanded /\ depth > 0
                      THEN Tree!FlattenSeq([i \in DOMAIN Tree!Ordered(Tree!Kids(p)) |->
                                              draw[depth - 1][Tree!Ordered(Tree!Kids(p))[i]]])
                      ELSE <<>>]]
          = [d \in 0 .. n |->
              [p \in R |-> <<p>> \o IF p \in expanded /\ d > 0
                                    THEN Flat(Lower(o[p], draw[d - 1])) ELSE <<>>]]
    <3>. HIDE DEF o, R, n
    <3>. QED  BY <2>1
  <2>3. Tree!Cardinality(R) = n
    BY TreeOperators
  <2>. QED  BY <2>2, <2>3 DEF TreeDraws, IsDrawing
<1>. HIDE DEF o
<1>5. IsDrawing(R, expanded, o, n, g)
  <2>1. \E draw : TreeDraws(draw)
    <3>. HIDE DEF R, n
    <3>. QED  BY <1>1, <1>3, <1>4, DrawingExists
  <2>. QED  BY <1>4, <2>1
<1>6. Tree!DrawNode = g[n]
  BY TreeOperators DEF Tree!DrawNode, TreeDraws
<1>. QED  BY <1>5, <1>6 DEF R, n, o, g

LEMMA TreeDrawn ==
  ASSUME TreeInv, Tree!Tree
  PROVE  /\ Tree!Drawn \in Seq(Tree!Rows) /\ IsInjective(Tree!Drawn)
         /\ \A up : IsUp(Tree!Rows, ppid, Cardinality(Tree!Rows), up) =>
              Members(Tree!Drawn)
                = Reach(Tree!Rows, ppid, expanded, up, Tree!Roots, Cardinality(Tree!Rows))
<1>. DEFINE R == Tree!Rows
            n == Cardinality(R)
            o == [p \in R |-> Tree!Ordered(Tree!Kids(p))]
            s == Tree!Ordered(Tree!Roots)
<1>1. n \in Nat
  <2>1. Tree!Rows \in SUBSET DOMAIN ppid
    BY DEF Tree!Rows
  <2>. QED  BY <2>1, FS_Subset, FS_CardinalityType DEF TreeInv
<1>2. \A p : Tree!Kids(p) = Under(R, ppid, p) /\ Tree!Kids(p) \in SUBSET R
  BY DEF Tree!Kids, Under
<1>3. Tree!Roots = Tops(R, ppid) /\ Tree!Roots \in SUBSET R
  BY DEF Tree!Roots, Tops
<1>4. Orders(R, ppid, o)
  BY <1>2, TreeOrdered DEF Orders
<1>. HIDE DEF o
<1>5. PICK g : IsDrawing(R, expanded, o, n, g) /\ Tree!DrawNode = g[n]
  BY TreeDrawing DEF o
<1>6. Tree!Drawn = Flat(Lower(s, g[n]))
  BY <1>5, TreeOperators DEF Tree!Drawn, Lower
<1>7. IsOrder(Tree!Roots, s, R)
  BY <1>3, TreeOrdered
<1>. HIDE DEF R, n, s
<1>8. /\ Flat(Lower(s, g[n])) \in Seq(R) /\ IsInjective(Flat(Lower(s, g[n])))
       /\ \A up : IsUp(R, ppid, n, up) =>
            Members(Flat(Lower(s, g[n]))) = Reach(R, ppid, expanded, up, Tree!Roots, n)
  <2>1. Tree!Roots \subseteq Tops(R, ppid)
    BY <1>3
  <2>. QED  BY <1>1, <1>4, <1>5, <1>7, <2>1, ForestDrawn
<1>. QED  BY <1>6, <1>8 DEF R, n

(* The ancestors of a row are those above it.                              *)
IsAncestors(p, n, f) ==
  f = [i \in 0 .. n |-> IF i = 0 THEN {p}
                        ELSE f[i - 1] \cup ({ppid[q] : q \in f[i - 1]} \cap Tree!Rows)]

LEMMA AncestorsAbove ==
  ASSUME NEW n \in Nat, NEW up, IsUp(Tree!Rows, ppid, n, up), NEW p \in Tree!Rows
  PROVE  Tree!Ancestors(p, n) = {up[i][p] : i \in 0 .. n}
<1>. DEFINE R == Tree!Rows
            step == [x \in (SUBSET R) \X Nat |-> x[1] \cup ({ppid[q] : q \in x[1]} \cap R)]
            f == CHOOSE g : IsAncestors(p, n, g)
<1>1. IsAncestors(p, n, f)
  <2>1. step \in [(SUBSET R) \X Nat -> SUBSET R]
    OBVIOUS
  <2>2. {p} \in SUBSET R /\ 0 \in Nat /\ 0 <= n
    OBVIOUS
  <2>3. PICK g \in [0 .. n -> SUBSET R] : Follows({p}, step, 0, n, g)
    <3>. HIDE DEF step, R
    <3>. QED  BY <2>1, <2>2, Recursion
  <2>4. ASSUME NEW i \in 0 .. n, i # 0
        PROVE  step[<<g[i - 1], i>>] = g[i - 1] \cup ({ppid[q] : q \in g[i - 1]} \cap R)
    <3>1. i - 1 \in 0 .. n /\ i \in Nat
      BY <2>4
    <3>2. <<g[i - 1], i>> \in (SUBSET R) \X Nat
      BY <2>3, <3>1
    <3>. QED  BY <3>2
  <2>5. IsAncestors(p, n, g)
    <3>. HIDE DEF step
    <3>. QED  BY <2>3, <2>4 DEF Follows, IsAncestors
  <2>. QED  BY <2>5
<1>2. Tree!Ancestors(p, n) = f[n]
  BY DEF Tree!Ancestors, IsAncestors
<1>. HIDE DEF f
<1>3. f[0] = {p}
  BY <1>1 DEF IsAncestors
<1>4. ASSUME NEW i \in 0 .. n - 1
      PROVE  f[i + 1] = f[i] \cup ({ppid[q] : q \in f[i]} \cap R)
  <2>1. i + 1 \in 0 .. n /\ i + 1 # 0 /\ (i + 1) - 1 = i
    OBVIOUS
  <2>. QED  BY <1>1, <2>1 DEF IsAncestors
<1>. DEFINE Above(k) == {up[i][p] : i \in 0 .. k}
            P == {k \in 0 .. n : f[k] = Above(k)}
<1>5. 0 \in P
  <2>1. 0 .. 0 = {0} /\ up[0][p] = p
    BY DEF IsUp
  <2>. QED  BY <1>3, <2>1
<1>6. ASSUME NEW k \in 0 .. n - 1, k \in P
      PROVE  k + 1 \in P
  <2>1. ASSUME NEW i \in 0 .. n - 1
        PROVE  up[i + 1][p] = IF ppid[up[i][p]] \in R THEN ppid[up[i][p]] ELSE up[i][p]
    <3>1. up[i][p] \in R
      BY DEF IsUp
    <3>. QED  BY <3>1 DEF IsUp, Tops
  <2>2. k + 1 \in 0 .. n /\ 0 .. k + 1 = (0 .. k) \cup {k + 1} /\ k \in 0 .. k
    OBVIOUS
  <2>3. Above(k + 1) = Above(k) \cup {up[k + 1][p]} /\ up[k][p] \in Above(k)
    BY <2>2
  <2>4. f[k + 1] = Above(k) \cup ({ppid[q] : q \in Above(k)} \cap R)
    BY <1>4, <1>6
  <2>5. ASSUME NEW i \in 0 .. k, ppid[up[i][p]] \in R
        PROVE  ppid[up[i][p]] \in Above(k + 1)
    <3>1. i \in 0 .. n - 1 /\ i + 1 \in 0 .. k + 1
      OBVIOUS
    <3>2. up[i + 1][p] = ppid[up[i][p]]
      BY <2>1, <2>5, <3>1
    <3>. QED  BY <3>1, <3>2
  <2>6. \/ up[k + 1][p] \in {ppid[q] : q \in Above(k)} \cap R
        \/ up[k + 1][p] \in Above(k)
    <3>. HIDE DEF Above
    <3>. QED  BY <2>1, <2>3
  <2>7. {ppid[q] : q \in Above(k)} \cap R \subseteq Above(k + 1)
    BY <2>5
  <2>8. f[k + 1] = Above(k + 1)
    <3>. HIDE DEF Above
    <3>. QED  BY <2>3, <2>4, <2>6, <2>7
  <2>. QED  BY <2>2, <2>8
<1>7. n \in P
  <2>1. n \in 0 .. n /\ 0 \in Nat
    OBVIOUS
  <2>. HIDE DEF P
  <2>. QED  BY <1>5, <1>6, <2>1, IntervalInduction
<1>. QED  BY <1>2, <1>7

LEMMA TreeShowsEachOnce == TreeInv => Tree!EachDrawnOnce
<1>. SUFFICES ASSUME TreeInv PROVE Tree!EachDrawnOnce
  OBVIOUS
<1>. DEFINE R == Tree!Rows
            n == Cardinality(R)
<1>1. n \in Nat
  <2>1. Tree!Rows \in SUBSET DOMAIN ppid
    BY DEF Tree!Rows
  <2>. QED  BY <2>1, FS_Subset, FS_CardinalityType DEF TreeInv
<1>2. CASE ~Tree!Tree
  <2>1. IsOrder(R, Tree!Ordered(R), R)
    BY TreeOrdered
  <2>2. Tree!Drawn = Tree!Ordered(R)
    BY <1>2 DEF Tree!Drawn
  <2>. QED  BY <1>2, <2>1, <2>2, TreeOperators DEF Tree!EachDrawnOnce, IsOrder
<1>3. CASE Tree!Tree
  <2>1. PICK up : IsUp(R, ppid, n, up)
    BY <1>1, UpExists
  <2>2. /\ IsInjective(Tree!Drawn)
        /\ Members(Tree!Drawn) = Reach(R, ppid, expanded, up, Tree!Roots, n)
    BY <1>3, <2>1, TreeDrawn
  <2>3. Tree!Roots = Tops(R, ppid)
    BY DEF Tree!Roots, Tops
  <2>4. ASSUME NEW q \in R
        PROVE  q \in Reach(R, ppid, expanded, up, Tree!Roots, n)
                 <=> Tree!InTree(q) /\ Tree!Ancestors(q, n) \ {q} \subseteq expanded
    <3>1. Tree!Ancestors(q, n) = {up[i][q] : i \in 0 .. n}
      BY <1>1, <2>1, AncestorsAbove
    <3>2. Tree!InTree(q) <=> Tree!Ancestors(q, n) \cap Tree!Roots # {}
      BY TreeOperators DEF Tree!InTree
    <3>3. q \in Reach(R, ppid, expanded, up, Tops(R, ppid), n)
            <=> /\ \E i \in 0 .. n : up[i][q] \in Tops(R, ppid)
                /\ \A i \in 0 .. n : up[i][q] = q \/ up[i][q] \in expanded
      BY <1>1, <2>1, WaysToTops
    <3>4. Tree!InTree(q) <=> \E i \in 0 .. n : up[i][q] \in Tops(R, ppid)
      BY <2>3, <3>1, <3>2
    <3>5. Tree!Ancestors(q, n) \ {q} \subseteq expanded
            <=> \A i \in 0 .. n : up[i][q] = q \/ up[i][q] \in expanded
      BY <3>1
    <3>. QED  BY <2>3, <3>3, <3>4, <3>5
  <2>5. Members(Tree!Drawn) = {q \in R : /\ Tree!InTree(q)
                                         /\ Tree!Ancestors(q, n) \ {q} \subseteq expanded}
    <3>1. Reach(R, ppid, expanded, up, Tree!Roots, n) \subseteq R
      BY DEF Reach
    <3>. QED  BY <2>2, <2>4, <3>1
  <2>. QED  BY <1>3, <2>2, <2>5, TreeOperators DEF Tree!EachDrawnOnce
<1>. QED  BY <1>2, <1>3

(* The rows of the process page are each process the search finds, once,   *)
(* and in the tree each whose ancestors up to a root are expanded, once;   *)
(* none that is in or below a circle of parents.                           *)
THEOREM TreeShowsAlways == Tree!Spec => []Tree!EachDrawnOnce
<1>1. Tree!Init => IsFiniteSet(DOMAIN ppid)
  BY FS_Singleton DEF Tree!Init
<1>2. IsFiniteSet(DOMAIN ppid) /\ [Tree!Next]_(Tree!treeVars) => IsFiniteSet(DOMAIN ppid)'
  <2>. SUFFICES ASSUME IsFiniteSet(DOMAIN ppid), [Tree!Next]_(Tree!treeVars)
                PROVE  IsFiniteSet(DOMAIN ppid')
    OBVIOUS
  <2>1. ASSUME NEW p \in TreePids, Tree!Ended(p)
        PROVE  IsFiniteSet(DOMAIN ppid')
    <3>1. DOMAIN ppid' = DOMAIN ppid \ {p}
      BY <2>1 DEF Tree!Ended
    <3>. QED  BY <3>1, FS_RemoveElement
  <2>2. ASSUME NEW p \in TreePids, NEW by \in Tree!AllPids, Tree!Started(p, by)
        PROVE  IsFiniteSet(DOMAIN ppid')
    <3>1. DOMAIN ppid' = DOMAIN ppid \cup {p}
      BY <2>2 DEF Tree!Started
    <3>. QED  BY <3>1, FS_AddElement
  <2>3. CASE ppid' = ppid
    BY <2>3
  <2>. QED
    BY <2>1, <2>2, <2>3
    DEF Tree!Next, Tree!Toggle, Tree!TreeMode, Tree!Search, Tree!treeVars
<1>. QED
  BY <1>1, <1>2, TreeIsTyped, TreeShowsEachOnce, PTL DEF Tree!Spec, TreeInv

(* The depth at which the model of the process page stops cuts nothing     *)
(* off: a drawing to any depth that is no less draws the same.             *)
LEMMA TreeIsWhole ==
  ASSUME TreeInv, Tree!Tree, NEW n \in Nat, n >= Cardinality(Tree!Rows), NEW g,
         IsDrawing(Tree!Rows, expanded, [p \in Tree!Rows |-> Tree!Ordered(Tree!Kids(p))], n, g)
  PROVE  Tree!FlattenSeq([i \in DOMAIN Tree!Ordered(Tree!Roots) |->
                            g[n][Tree!Ordered(Tree!Roots)[i]]]) = Tree!Drawn
<1>. DEFINE R == Tree!Rows
            o == [p \in R |-> Tree!Ordered(Tree!Kids(p))]
            s == Tree!Ordered(Tree!Roots)
<1>1. IsFiniteSet(R) /\ Cardinality(R) \in Nat
  <2>1. Tree!Rows \in SUBSET DOMAIN ppid
    BY DEF Tree!Rows
  <2>. QED  BY <2>1, FS_Subset, FS_CardinalityType DEF TreeInv
<1>2. PICK h : IsDrawing(R, expanded, o, Cardinality(R), h) /\ Tree!DrawNode = h[Cardinality(R)]
  BY TreeDrawing
<1>3. Orders(R, ppid, o)
  BY TreeOrdered DEF Orders, Tree!Kids, Under
<1>4. \A p \in Tops(R, ppid) : g[n][p] = h[Cardinality(R)][p]
  <2>. HIDE DEF R, o
  <2>1. IsDrawing(R, expanded, o, n, g) /\ Cardinality(R) <= n
    BY <1>1 DEF R, o
  <2>. QED  BY <1>1, <1>2, <1>3, <2>1, DrawnWhole
<1>5. IsOrder(Tree!Roots, s, R) /\ Tree!Roots = Tops(R, ppid)
  BY TreeOrdered DEF Tree!Roots, Tops
<1>. HIDE DEF R, o, s
<1>6. \A i \in DOMAIN s : s[i] \in Tops(R, ppid)
  BY <1>5 DEF IsOrder, Members
<1>7. [i \in DOMAIN s |-> g[n][s[i]]] = [i \in DOMAIN s |-> Tree!DrawNode[s[i]]]
  BY <1>2, <1>4, <1>6
<1>. QED  BY <1>7 DEF Tree!Drawn, s

-----------------------------------------------------------------------------
(* The tree of the USB page.                                               *)

LEMMA UsbOperators ==
  /\ \A S : Usb!SetToSeq(S) = CHOOSE f \in [1 .. Cardinality(S) -> S] : IsInjective(f)
  /\ \A q : Usb!FlattenSeq(q) = Flat(q)
  /\ \A s : Usb!ToSet(s) = Members(s)
  /\ \A f : Usb!IsInjective(f) <=> IsInjective(f)
  /\ \A S : Usb!Cardinality(S) = Cardinality(S)
<1>1. \A S : Usb!Cardinality(S) = Cardinality(S)
  BY DEF Usb!Cardinality, Cardinality
<1>2. \A f : Usb!IsInjective(f) <=> IsInjective(f)
  BY DEF Usb!IsInjective, IsInjective
<1>3. \A S : Usb!SetToSeq(S) = CHOOSE f \in [1 .. Cardinality(S) -> S] : IsInjective(f)
  BY DEF Usb!SetToSeq, Usb!Cardinality, Cardinality, Usb!IsInjective, IsInjective
<1>4. \A q : Usb!FlattenSeq(q) = Flat(q)
  BY DEF Usb!FlattenSeq, Flat, Joined
<1>5. \A s : Usb!ToSet(s) = Members(s)
  BY DEF Usb!ToSet, Members
<1>. QED  BY <1>1, <1>2, <1>3, <1>4, <1>5

LEMMA UsbOrdered ==
  ASSUME Usb!TypeOK, NEW S \in SUBSET Usb!Usb
  PROVE  IsOrder(S, Usb!SetToSeq(S), Usb!Usb)
<1>1. IsFiniteSet(S)
  BY ConstantsAssumption, FS_Subset DEF Usb!TypeOK
<1>. DEFINE s == Usb!SetToSeq(S)
<1>2. s = CHOOSE f \in [1 .. Cardinality(S) -> S] : IsInjective(f)
  BY UsbOperators
<1>. HIDE DEF s
<1>3. s \in Seq(S) /\ IsInjective(s) /\ Members(s) = S
  BY <1>1, <1>2, SetHasOrder
<1>4. s \in Seq(Usb!Usb)
  BY <1>3, SeqMonotonic
<1>. QED  BY <1>3, <1>4 DEF IsOrder, s

(* What is computed below the devices, to each depth.                      *)
UsbDraws(draw) ==
  draw = [depth \in 0 .. Usb!Cardinality(Usb!Usb) |->
           [id \in Usb!Usb |->
             Usb!FlattenSeq([i \in DOMAIN Usb!Children(id) |->
               <<Usb!Children(id)[i]>> \o
               IF Usb!Children(id)[i] \in open /\ depth > 0
               THEN draw[depth - 1][Usb!Children(id)[i]]
               ELSE <<>>])]]

(* The rows of a device and of those below it, from the rows below.        *)
UsbRows(draw, d) ==
  [c \in Usb!Usb |-> <<c>> \o IF c \in open /\ d > 0 THEN draw[d - 1][c] ELSE <<>>]

LEMMA UsbBelow ==
  ASSUME Usb!TypeOK, NEW draw, NEW d \in Nat, NEW p
  PROVE  Usb!FlattenSeq([i \in DOMAIN Usb!Children(p) |->
           <<Usb!Children(p)[i]>> \o
           IF Usb!Children(p)[i] \in open /\ d > 0 THEN draw[d - 1][Usb!Children(p)[i]]
           ELSE <<>>])
           = Flat(Lower(Usb!Children(p), UsbRows(draw, d)))
<1>. DEFINE s == Usb!Children(p)
<1>1. \A i \in DOMAIN s : s[i] \in Usb!Usb
  <2>. DEFINE S == {e \in Usb!Usb : parentId[e] = p}
  <2>1. IsOrder(S, Usb!SetToSeq(S), Usb!Usb)
    BY UsbOrdered
  <2>2. s = Usb!SetToSeq(S)
    BY DEF Usb!Children
  <2>. QED  BY <2>1, <2>2 DEF IsOrder, Members
<1>. HIDE DEF s
<1>2. [i \in DOMAIN s |-> <<s[i]>> \o IF s[i] \in open /\ d > 0 THEN draw[d - 1][s[i]] ELSE <<>>]
        = Lower(s, UsbRows(draw, d))
  BY <1>1 DEF Lower, UsbRows
<1>. QED  BY <1>2, UsbOperators DEF s

LEMMA UsbShowsEachOnce == Usb!TypeOK => Usb!EachShownOnce
<1>. SUFFICES ASSUME Usb!TypeOK PROVE Usb!EachShownOnce
  OBVIOUS
<1>. DEFINE R == Usb!Usb
            n == Cardinality(R)
            o == [p \in R |-> Usb!Children(p)]
            draw == CHOOSE f : UsbDraws(f)
            rows == [d \in 0 .. n + 1 |-> UsbRows(draw, d)]
<1>1. n \in Nat /\ 0 \notin R
  <2>1. IsFiniteSet(R)
    BY ConstantsAssumption, FS_Subset DEF Usb!TypeOK
  <2>2. Cardinality(UsbDevices) \in Nat
    BY ConstantsAssumption, FS_CardinalityType
  <2>. QED  BY <2>1, <2>2, FS_CardinalityType, ConstantsAssumption DEF Usb!TypeOK
<1>2. \A p : IsOrder(Under(R, parentId, p), Usb!Children(p), R)
  BY UsbOrdered DEF Usb!Children, Under
<1>3. Orders(R, parentId, o)
  BY <1>2 DEF Orders
<1>4. \A f : UsbDraws(f) <=> f = [d \in 0 .. n |-> [p \in R |-> Flat(Lower(o[p], UsbRows(f, d)))]]
  <2>. SUFFICES ASSUME NEW f
                PROVE  UsbDraws(f)
                         <=> f = [d \in 0 .. n |-> [p \in R |-> Flat(Lower(o[p], UsbRows(f, d)))]]
    OBVIOUS
  <2>1. ASSUME NEW d \in 0 .. n, NEW p \in R
        PROVE  Usb!FlattenSeq([i \in DOMAIN Usb!Children(p) |->
                 <<Usb!Children(p)[i]>> \o
                 IF Usb!Children(p)[i] \in open /\ d > 0 THEN f[d - 1][Usb!Children(p)[i]]
                 ELSE <<>>])
                 = Flat(Lower(o[p], UsbRows(f, d)))
    <3>1. d \in Nat
      BY <1>1
    <3>2. Usb!FlattenSeq([i \in DOMAIN Usb!Children(p) |->
            <<Usb!Children(p)[i]>> \o
            IF Usb!Children(p)[i] \in open /\ d > 0 THEN f[d - 1][Usb!Children(p)[i]]
            ELSE <<>>])
            = Flat(Lower(Usb!Children(p), UsbRows(f, d)))
      BY <3>1, UsbBelow
    <3>. QED  BY <3>2
  <2>2. [depth \in 0 .. n |->
           [id \in R |->
             Usb!FlattenSeq([i \in DOMAIN Usb!Children(id) |->
               <<Usb!Children(id)[i]>> \o
               IF Usb!Children(id)[i] \in open /\ depth > 0
               THEN f[depth - 1][Usb!Children(id)[i]]
               ELSE <<>>])]]
          = [d \in 0 .. n |-> [p \in R |-> Flat(Lower(o[p], UsbRows(f, d)))]]
    <3>. HIDE DEF o, R, n
    <3>. QED  BY <2>1
  <2>3. Usb!Cardinality(R) = n
    BY UsbOperators
  <2>. QED  BY <2>2, <2>3 DEF UsbDraws
<1>. HIDE DEF o
<1>5. \E f : UsbDraws(f)
  <2>1. PICK g \in [0 .. n + 1 -> [R -> Seq(R)]] : IsDrawing(R, open, o, n + 1, g)
    <3>1. n + 1 \in Nat
      BY <1>1
    <3>. HIDE DEF R, n
    <3>. QED  BY <1>3, <3>1, DrawingExists
  <2>. DEFINE f == [d \in 0 .. n |-> [p \in R |-> Flat(Lower(o[p], g[d]))]]
  <2>2. ASSUME NEW d \in 0 .. n
        PROVE  UsbRows(f, d) = g[d]
    <3>1. g[d] = [p \in R |-> <<p>> \o IF p \in open /\ d > 0 THEN Flat(Lower(o[p], g[d - 1]))
                                      ELSE <<>>]
      <4>1. d \in 0 .. n + 1
        BY <1>1
      <4>. QED  BY <2>1, <4>1 DEF IsDrawing
    <3>2. \A p \in R : d > 0 => f[d - 1][p] = Flat(Lower(o[p], g[d - 1]))
      <4>1. d > 0 => d - 1 \in 0 .. n
        BY <1>1
      <4>. HIDE DEF n
      <4>. QED  BY <4>1
    <3>. HIDE DEF f
    <3>. QED  BY <3>1, <3>2 DEF UsbRows
  <2>3. f = [d \in 0 .. n |-> [p \in R |-> Flat(Lower(o[p], UsbRows(f, d)))]]
    <3>1. [d \in 0 .. n |-> [p \in R |-> Flat(Lower(o[p], UsbRows(f, d)))]]
            = [d \in 0 .. n |-> [p \in R |-> Flat(Lower(o[p], g[d]))]]
      <4>. HIDE DEF f, R, n
      <4>. QED  BY <2>2
    <3>. QED  BY <3>1
  <2>. HIDE DEF f
  <2>. QED  BY <1>4, <2>3
<1>6. draw = [d \in 0 .. n |-> [p \in R |-> Flat(Lower(o[p], UsbRows(draw, d)))]]
  BY <1>4, <1>5
<1>7. Usb!DrawNode = draw[n]
  BY UsbOperators DEF Usb!DrawNode, UsbDraws
<1>. HIDE DEF draw
<1>8. IsDrawing(R, open, o, n + 1, rows)
  <2>1. ASSUME NEW d \in 0 .. n + 1
        PROVE  UsbRows(draw, d)
                 = [p \in R |-> <<p>> \o IF p \in open /\ d > 0 THEN Flat(Lower(o[p], rows[d - 1]))
                                        ELSE <<>>]
    <3>1. ASSUME d > 0, NEW p \in R
          PROVE  draw[d - 1][p] = Flat(Lower(o[p], rows[d - 1]))
      <4>1. d - 1 \in 0 .. n /\ d - 1 \in 0 .. n + 1
        BY <1>1, <3>1
      <4>2. rows[d - 1] = UsbRows(draw, d - 1)
        BY <4>1
      <4>3. draw[d - 1] = [r \in R |-> Flat(Lower(o[r], UsbRows(draw, d - 1)))]
        <5>. HIDE DEF R, n
        <5>. QED  BY <1>6, <4>1
      <4>. QED  BY <4>2, <4>3
    <3>. HIDE DEF rows
    <3>. QED  BY <3>1 DEF UsbRows
  <2>2. rows = [d \in 0 .. n + 1 |-> rows[d]] /\ \A d \in 0 .. n + 1 : rows[d] = UsbRows(draw, d)
    OBVIOUS
  <2>. HIDE DEF rows, n
  <2>. QED  BY <2>1, <2>2 DEF IsDrawing
<1>. DEFINE s == Usb!Roots
            top == rows[n + 1]
<1>9. top = [c \in R |-> <<c>> \o IF c \in open THEN Usb!DrawNode[c] ELSE <<>>]
  <2>1. n + 1 \in 0 .. n + 1 /\ n + 1 > 0 /\ (n + 1) - 1 = n
    BY <1>1
  <2>2. top = UsbRows(draw, n + 1)
    BY <2>1
  <2>3. UsbRows(draw, n + 1)
          = [c \in R |-> <<c>> \o IF c \in open /\ n + 1 > 0 THEN draw[(n + 1) - 1][c] ELSE <<>>]
    BY DEF UsbRows
  <2>. HIDE DEF top, n, R
  <2>. QED  BY <1>7, <2>1, <2>2, <2>3
<1>10. IsOrder(Under(R, parentId, 0), s, R) /\ Under(R, parentId, 0) \subseteq Tops(R, parentId)
  BY <1>1, <1>2 DEF Usb!Roots, Usb!NotGiven, Under, Tops
<1>11. Usb!RootShown = Flat(Lower(s, top))
  <2>1. \A i \in DOMAIN s : s[i] \in R
    BY <1>10 DEF IsOrder, Members, Under
  <2>. HIDE DEF top, R
  <2>2. [i \in DOMAIN s |-> <<s[i]>> \o IF s[i] \in open THEN Usb!DrawNode[s[i]] ELSE <<>>]
          = Lower(s, top)
    BY <1>9, <2>1 DEF Lower
  <2>. QED  BY <2>2, UsbOperators DEF Usb!RootShown
<1>12. Usb!RootShown \in Seq(R) /\ IsInjective(Usb!RootShown)
  <2>1. n + 1 \in Nat
    BY <1>1
  <2>2. Flat(Lower(s, rows[n + 1])) \in Seq(R) /\ IsInjective(Flat(Lower(s, rows[n + 1])))
    <3>. HIDE DEF rows, s, R, n
    <3>. QED  BY <1>3, <1>8, <1>10, <2>1, ForestDrawn, Zenon
  <2>. QED  BY <1>11, <2>2
<1>13. Usb!Remembered = Members(Usb!RootShown)
  <2>1. top \in [R -> Seq(R)]
    <3>1. PICK up : IsUp(R, parentId, n + 1, up)
      <4>1. n + 1 \in Nat
        BY <1>1
      <4>. QED  BY <4>1, UpExists
    <3>2. PICK at : IsAt(R, parentId, n + 1, at)
      <4>1. n + 1 \in Nat
        BY <1>1
      <4>. QED  BY <4>1, AtExists
    <3>3. n + 1 \in Nat /\ n + 1 \in 0 .. n + 1
      BY <1>1
    <3>4. Drawing(R, parentId, open, up, at, n + 1, n + 1, rows[n + 1])
      <4>. HIDE DEF rows, R, n
      <4>. QED  BY <1>3, <1>8, <3>1, <3>2, <3>3, DrawnToDepth
    <3>. QED  BY <3>4 DEF Drawing
  <2>2. Members(Usb!RootShown) = UNION {Members(top[c]) : c \in Under(R, parentId, 0)}
    <3>. HIDE DEF top, s, R
    <3>. QED  BY <1>10, <1>11, <2>1, Below
  <2>3. ASSUME NEW c \in Under(R, parentId, 0)
        PROVE  Members(top[c]) = {c} \cup (IF c \in open THEN Members(Usb!DrawNode[c]) ELSE {})
    <3>1. c \in R /\ <<c>> \in Seq(R) /\ Members(<<c>>) = {c} /\ <<c>> \o <<>> = <<c>>
      BY DEF Under, Members
    <3>2. CASE c \in open
      <4>. DEFINE me == <<c>>
      <4>1. top[c] = me \o Usb!DrawNode[c]
        BY <1>9, <3>1, <3>2
      <4>2. Usb!DrawNode[c] \in Seq(R)
        <5>1. Usb!DrawNode = [p \in R |-> Flat(Lower(o[p], UsbRows(draw, n)))]
          <6>1. n \in 0 .. n
            BY <1>1
          <6>. HIDE DEF n, R
          <6>. QED  BY <1>6, <1>7, <6>1
        <5>2. UsbRows(draw, n) = rows[n] /\ n \in 0 .. n + 1 /\ n + 1 \in Nat
          BY <1>1
        <5>3. rows[n] \in [R -> Seq(R)]
          <6>1. PICK up : IsUp(R, parentId, n + 1, up)
            BY <5>2, UpExists
          <6>2. PICK at : IsAt(R, parentId, n + 1, at)
            BY <5>2, AtExists
          <6>3. Drawing(R, parentId, open, up, at, n + 1, n, rows[n])
            <7>. HIDE DEF rows, R, n
            <7>. QED  BY <1>3, <1>8, <5>2, <6>1, <6>2, DrawnToDepth
          <6>. QED  BY <6>3 DEF Drawing
        <5>4. IsOrder(Under(R, parentId, c), o[c], R)
          BY <1>3, <3>1 DEF Orders
        <5>5. Flat(Lower(o[c], rows[n])) \in Seq(R)
          <6>. HIDE DEF rows, n, R
          <6>. QED  BY <5>3, <5>4, Below
        <5>. HIDE DEF rows, n
        <5>. QED  BY <3>1, <5>1, <5>2, <5>5
      <4>. HIDE DEF me
      <4>3. me \in Seq(R) /\ Members(me) = {c}
        BY <3>1 DEF me
      <4>4. Members(me \o Usb!DrawNode[c]) = Members(me) \cup Members(Usb!DrawNode[c])
        <5>. HIDE DEF R
        <5>. QED  BY <4>2, <4>3, Concatenated
      <4>. QED  BY <3>2, <4>1, <4>3, <4>4
    <3>3. CASE c \notin open
      BY <1>9, <3>1, <3>3
    <3>. QED  BY <3>2, <3>3
  <2>4. Usb!ToSet(s) = Under(R, parentId, 0)
    BY <1>10, UsbOperators DEF IsOrder
  <2>. HIDE DEF top, s, R
  <2>. QED  BY <2>2, <2>3, <2>4, UsbOperators DEF Usb!Remembered, s
<1>14. Members(Usb!RootShown) \subseteq R
  BY <1>12 DEF Members
<1>15. IsOrder(R \ Usb!Remembered, Usb!SetToSeq(R \ Usb!Remembered), R)
  BY UsbOrdered
<1>. DEFINE list == Usb!SetToSeq(R \ Usb!Remembered)
            tree == Usb!RootShown
<1>16. Usb!Shown = tree \o list
  BY DEF Usb!Shown
<1>17. /\ tree \in Seq(R) /\ IsInjective(tree) /\ list \in Seq(R) /\ IsInjective(list)
       /\ Members(tree) \cap Members(list) = {} /\ Members(tree) \cup Members(list) = R
  BY <1>12, <1>13, <1>14, <1>15 DEF IsOrder
<1>. HIDE DEF list, tree
<1>18. IsInjective(tree \o list) /\ Members(tree \o list) = R
  <2>. HIDE DEF R
  <2>1. Members(tree \o list) = Members(tree) \cup Members(list)
    BY <1>17, Concatenated
  <2>2. IsInjective(tree \o list)
    BY <1>17, Concatenated
  <2>. QED  BY <1>17, <2>1, <2>2
<1>. QED  BY <1>16, <1>18, UsbOperators DEF Usb!EachShownOnce

(* The USB page has one row for each USB device, in the tree or after it.  *)
THEOREM UsbShowsAlways == Usb!Spec => []Usb!EachShownOnce
BY UsbIsTyped, UsbShowsEachOnce, PTL

-----------------------------------------------------------------------------
(* Sums.  What holds of a set when it holds of every smaller one holds of  *)
(* every finite set: otherwise there is a least one it does not hold of.   *)

LEMMA SetInduction ==
  ASSUME NEW S, IsFiniteSet(S), NEW P,
         \A T \in SUBSET S : (\A U \in SUBSET T : U # T => U \in P) => T \in P
  PROVE  S \in P
<1>. SUFFICES ASSUME S \notin P PROVE FALSE
  OBVIOUS
<1> DEFINE others == {T \in SUBSET S : T \notin P}
<1>1. others \subseteq FiniteSubsetsOf(S) /\ others # {}
  BY FS_Subset DEF FiniteSubsetsOf
<1>2. IsWellFoundedOn(StrictSubsetOrdering(S), FiniteSubsetsOf(S))
  BY FS_StrictSubsetOrderingWellFounded
<1>3. \E low \in others : \A other \in others : <<other, low>> \notin StrictSubsetOrdering(S)
  <2>. HIDE DEF others
  <2>. QED  BY <1>1, <1>2, WFMin
<1>4. PICK low \in others : \A other \in others : <<other, low>> \notin StrictSubsetOrdering(S)
  BY <1>3
<1>5. ASSUME NEW U \in SUBSET low, U # low
      PROVE  U \in P
  <2>1. <<U, low>> \in StrictSubsetOrdering(S)
    BY <1>5 DEF StrictSubsetOrdering
  <2>. QED  BY <1>4, <1>5, <2>1
<1>. QED  BY <1>4, <1>5

(* The function that the fold over S computes, at S and below.             *)
Pick(S) == CHOOSE x \in S : TRUE

IsSum(S, f, g) ==
  g = [s \in SUBSET S |-> IF s = {} THEN 0 ELSE f[Pick(s)] + g[s \ {Pick(s)}]]

LEMMA SumUnfolds ==
  ASSUME NEW S, NEW f
  PROVE  Sampling!SumOver(S, f) = (CHOOSE g : IsSum(S, f, g))[S]
BY DEF Sampling!SumOver, Sampling!MapThenSumSet, Sampling!MapThenFoldSet, IsSum, Pick

LEMMA SumIsUnique ==
  ASSUME NEW S, IsFiniteSet(S), NEW f, NEW g, IsSum(S, f, g),
         NEW T \in SUBSET S, NEW h, IsSum(T, f, h)
  PROVE  g[T] = h[T]
<1> DEFINE same == {s \in SUBSET T : g[s] = h[s]}
<1>1. \A s \in SUBSET S : g[s] = IF s = {} THEN 0 ELSE f[Pick(s)] + g[s \ {Pick(s)}]
  BY DEF IsSum
<1>2. \A s \in SUBSET T : h[s] = IF s = {} THEN 0 ELSE f[Pick(s)] + h[s \ {Pick(s)}]
  BY DEF IsSum
<1>3. ASSUME NEW U \in SUBSET T, \A V \in SUBSET U : V # U => V \in same
      PROVE  U \in same
  <2>1. CASE U = {}
    BY <1>1, <1>2, <2>1
  <2>2. CASE U # {}
    <3>1. Pick(U) \in U
      BY <2>2 DEF Pick
    <3>2. U \ {Pick(U)} \in same
      BY <1>3, <3>1
    <3>. QED  BY <1>1, <1>2, <2>2, <3>2
  <2>. QED  BY <2>1, <2>2
<1>4. IsFiniteSet(T)
  BY FS_Subset
<1>5. T \in same
  <2>. HIDE DEF same
  <2>. QED  BY <1>3, <1>4, SetInduction
<1>. QED  BY <1>5

LEMMA SumExists ==
  ASSUME NEW S, IsFiniteSet(S), NEW f
  PROVE  \E g : IsSum(S, f, g)
<1> DEFINE known == {T \in SUBSET S : \E g : IsSum(T, f, g)}
<1> DEFINE G(T) == CHOOSE g : IsSum(T, f, g)
<1>1. ASSUME NEW T \in SUBSET S, \A U \in SUBSET T : U # T => U \in known
      PROVE  T \in known
  <2> DEFINE h == [s \in SUBSET T |->
                     IF s = {} THEN 0 ELSE f[Pick(s)] + G(s \ {Pick(s)})[s \ {Pick(s)}]]
  <2>1. \A U \in SUBSET T : U # T => IsSum(U, f, G(U)) /\ IsFiniteSet(U)
    BY <1>1, FS_Subset
  <2>2. \A s \in SUBSET T : s # {} => Pick(s) \in s
    BY DEF Pick
  <2>. HIDE DEF G
  <2>3. ASSUME NEW U \in SUBSET T, U # T
        PROVE  h[U] = G(U)[U]
    <3>1. IsSum(U, f, G(U)) /\ IsFiniteSet(U)
      BY <2>1, <2>3
    <3>2. G(U)[U] = IF U = {} THEN 0 ELSE f[Pick(U)] + G(U)[U \ {Pick(U)}]
      BY <3>1 DEF IsSum
    <3>3. U # {} => G(U)[U \ {Pick(U)}] = G(U \ {Pick(U)})[U \ {Pick(U)}]
      <4>. SUFFICES ASSUME U # {}
                    PROVE  G(U)[U \ {Pick(U)}] = G(U \ {Pick(U)})[U \ {Pick(U)}]
        OBVIOUS
      <4>1. U \ {Pick(U)} \in SUBSET U /\ U \ {Pick(U)} # T /\ U \ {Pick(U)} \in SUBSET T
        BY <2>2
      <4>2. IsSum(U \ {Pick(U)}, f, G(U \ {Pick(U)}))
        BY <2>1, <4>1
      <4>. QED  BY <3>1, <4>1, <4>2, SumIsUnique
    <3>. QED  BY <3>2, <3>3
  <2>4. \A s \in SUBSET T : s # {} => s \ {Pick(s)} \in SUBSET T /\ s \ {Pick(s)} # T
    BY <2>2
  <2>5. \A s \in SUBSET T : s # {} => G(s \ {Pick(s)})[s \ {Pick(s)}] = h[s \ {Pick(s)}]
    BY <2>3, <2>4
  <2>6. h = [s \in SUBSET T |-> IF s = {} THEN 0 ELSE f[Pick(s)] + h[s \ {Pick(s)}]]
    <3> DEFINE k == [s \in SUBSET T |->
                       IF s = {} THEN 0 ELSE f[Pick(s)] + h[s \ {Pick(s)}]]
    <3>1. \A s \in SUBSET T : h[s] = k[s]
      <4>1. ASSUME NEW s \in SUBSET T
            PROVE  h[s] = k[s]
        <5>1. CASE s = {}
          BY <5>1
        <5>2. CASE s # {}
          <6>1. h[s] = f[Pick(s)] + G(s \ {Pick(s)})[s \ {Pick(s)}]
            BY <5>2
          <6>2. G(s \ {Pick(s)})[s \ {Pick(s)}] = h[s \ {Pick(s)}]
            BY <2>5, <5>2
          <6>. HIDE DEF h
          <6>3. k[s] = f[Pick(s)] + h[s \ {Pick(s)}]
            BY <5>2
          <6>. QED  BY <6>1, <6>2, <6>3
        <5>. QED  BY <5>1, <5>2
      <4>. QED  BY <4>1
    <3>2. h = [s \in SUBSET T |-> h[s]] /\ k = [s \in SUBSET T |-> k[s]]
      OBVIOUS
    <3>. HIDE DEF h, k
    <3>3. h = k
      BY <3>1, <3>2
    <3>. QED  BY <3>3 DEF k
  <2>. HIDE DEF h
  <2>7. IsSum(T, f, h)
    BY <2>6 DEF IsSum
  <2>. QED  BY <2>7
<1>2. S \in known
  <2>. HIDE DEF known
  <2>. QED  BY <1>1, SetInduction
<1>. QED  BY <1>2

LEMMA SumSteps ==
  ASSUME NEW S, IsFiniteSet(S), NEW f
  PROVE  /\ S = {} => Sampling!SumOver(S, f) = 0
         /\ S # {} => /\ Pick(S) \in S
                      /\ Sampling!SumOver(S, f) =
                           f[Pick(S)] + Sampling!SumOver(S \ {Pick(S)}, f)
<1> DEFINE G(T) == CHOOSE g : IsSum(T, f, g)
<1>1. ASSUME NEW T \in SUBSET S
      PROVE  IsSum(T, f, G(T)) /\ Sampling!SumOver(T, f) = G(T)[T]
  BY SumExists, SumUnfolds, FS_Subset
<1>. HIDE DEF G
<1>2. G(S)[S] = IF S = {} THEN 0 ELSE f[Pick(S)] + G(S)[S \ {Pick(S)}]
  BY <1>1 DEF IsSum
<1>3. S # {} => Pick(S) \in S
  BY DEF Pick
<1>4. G(S)[S \ {Pick(S)}] = G(S \ {Pick(S)})[S \ {Pick(S)}]
  BY <1>1, SumIsUnique
<1>. QED  BY <1>1, <1>2, <1>3, <1>4

(* The same for any of the members.                                        *)
LEMMA SumIsInt ==
  ASSUME NEW S, IsFiniteSet(S), NEW f, \A x \in S : f[x] \in Int
  PROVE  Sampling!SumOver(S, f) \in Int
<1> DEFINE P == {T \in SUBSET S : Sampling!SumOver(T, f) \in Int}
<1>1. ASSUME NEW T \in SUBSET S, \A U \in SUBSET T : U # T => U \in P
      PROVE  T \in P
  <2>1. IsFiniteSet(T)
    BY FS_Subset
  <2>2. T # {} => Pick(T) \in T /\ T \ {Pick(T)} \in P
    BY <1>1, <2>1, SumSteps
  <2>3. T # {} => Sampling!SumOver(T, f) = f[Pick(T)] + Sampling!SumOver(T \ {Pick(T)}, f)
    BY <2>1, SumSteps
  <2>4. T = {} => Sampling!SumOver(T, f) = 0
    BY <2>1, SumSteps
  <2>5. T # {} => f[Pick(T)] \in Int /\ Sampling!SumOver(T \ {Pick(T)}, f) \in Int
    BY <2>2
  <2>6. Sampling!SumOver(T, f) \in Int
    BY <2>3, <2>4, <2>5
  <2>. QED  BY <2>6
<1>2. S \in P
  <2>. HIDE DEF P
  <2>. QED  BY <1>1, SetInduction
<1>. QED  BY <1>2

LEMMA SumTakes ==
  ASSUME NEW S, IsFiniteSet(S), NEW f, \A x \in S : f[x] \in Int, NEW x \in S
  PROVE  /\ Sampling!SumOver(S, f) = f[x] + Sampling!SumOver(S \ {x}, f)
         /\ Sampling!SumOver(S, f) \in Int /\ Sampling!SumOver(S \ {x}, f) \in Int
<1> DEFINE Sum(T) == Sampling!SumOver(T, f)
<1> DEFINE P == {T \in SUBSET S : \A y \in T : Sum(T) = f[y] + Sum(T \ {y})}
<1>1. \A T \in SUBSET S : Sum(T) \in Int
  BY SumIsInt, FS_Subset
<1>2. \A T \in SUBSET S : T # {} => Pick(T) \in T /\ Sum(T) = f[Pick(T)] + Sum(T \ {Pick(T)})
  BY SumSteps, FS_Subset
<1>. HIDE DEF Sum
<1>3. ASSUME NEW T \in SUBSET S, \A U \in SUBSET T : U # T => U \in P
      PROVE  T \in P
  <2>. SUFFICES ASSUME NEW y \in T
                PROVE  Sum(T) = f[y] + Sum(T \ {y})
    OBVIOUS
  <2> DEFINE p == Pick(T)
  <2>1. p \in T /\ Sum(T) = f[p] + Sum(T \ {p})
    BY <1>2
  <2>. HIDE DEF p
  <2>2. CASE y = p
    BY <2>1, <2>2
  <2>3. CASE y # p
    <3>1. T \ {p} \in P /\ y \in T \ {p}
      BY <1>3, <2>1, <2>3
    <3>2. T \ {y} \in P /\ p \in T \ {y}
      BY <1>3, <2>1, <2>3
    <3>3. Sum(T \ {p}) = f[y] + Sum((T \ {p}) \ {y})
      BY <3>1
    <3>4. Sum(T \ {y}) = f[p] + Sum((T \ {y}) \ {p})
      BY <3>2
    <3>5. (T \ {p}) \ {y} = (T \ {y}) \ {p}
      OBVIOUS
    <3>6. Sum((T \ {y}) \ {p}) \in Int /\ f[p] \in Int /\ f[y] \in Int
      BY <1>1, <2>1
    <3>7. Sum(T) = f[p] + (f[y] + Sum((T \ {y}) \ {p}))
      BY <2>1, <3>3, <3>5
    <3>. QED  BY <3>4, <3>6, <3>7
  <2>. QED  BY <2>2, <2>3
<1>4. S \in P
  <2>. HIDE DEF P
  <2>. QED  BY <1>3, SetInduction
<1>. QED  BY <1>1, <1>4 DEF Sum

LEMMA Distributes ==
  \A a, x, y \in Int : a * (x + y) = a * x + a * y /\ a * x \in Int /\ a * 1 = a
BY SMT

(* What holds of every term holds of the sums.                             *)
LEMMA SumsBounded ==
  ASSUME NEW S, IsFiniteSet(S), NEW f, NEW g, \A x \in S : f[x] \in Int /\ g[x] \in Int,
         NEW a \in Int, NEW b \in Int, NEW c \in Int,
         \A x \in S : a * f[x] <= b * g[x] + c
  PROVE  a * Sampling!SumOver(S, f) <= b * Sampling!SumOver(S, g) + c * Cardinality(S)
<1> DEFINE F(T) == Sampling!SumOver(T, f)
<1> DEFINE H(T) == Sampling!SumOver(T, g)
<1> DEFINE P == {T \in SUBSET S : a * F(T) <= b * H(T) + c * Cardinality(T)}
<1>1. \A T \in SUBSET S : \A x \in T :
        /\ F(T) = f[x] + F(T \ {x}) /\ H(T) = g[x] + H(T \ {x})
        /\ F(T \ {x}) \in Int /\ H(T \ {x}) \in Int
  BY SumTakes, FS_Subset
<1>2. F({}) = 0 /\ H({}) = 0 /\ Cardinality({}) = 0
  BY SumSteps, FS_EmptySet
<1>. HIDE DEF F, H
<1>3. ASSUME NEW T \in SUBSET S, \A U \in SUBSET T : U # T => U \in P
      PROVE  T \in P
  <2>1. CASE T = {}
    BY <1>2, <2>1
  <2>2. CASE T # {}
    <3>1. PICK x \in T : TRUE
      BY <2>2
    <3>2. T \ {x} \in P
      BY <1>3
    <3>3. IsFiniteSet(T) /\ Cardinality(T) = Cardinality(T \ {x}) + 1
          /\ Cardinality(T \ {x}) \in Int
      BY FS_Subset, FS_RemoveElement, FS_CardinalityType
    <3> DEFINE n == Cardinality(T \ {x})
    <3> DEFINE u == F(T \ {x})
    <3> DEFINE v == H(T \ {x})
    <3>4. /\ a * u <= b * v + c * n /\ a * f[x] <= b * g[x] + c
          /\ F(T) = f[x] + u /\ H(T) = g[x] + v /\ Cardinality(T) = n + 1
          /\ u \in Int /\ v \in Int /\ n \in Int /\ f[x] \in Int /\ g[x] \in Int
      BY <1>1, <3>2, <3>3
    <3>. HIDE DEF n, u, v
    <3>5. /\ a * (f[x] + u) = a * f[x] + a * u /\ b * (g[x] + v) = b * g[x] + b * v
          /\ c * (n + 1) = c * n + c * 1 /\ c * 1 = c
          /\ a * f[x] \in Int /\ a * u \in Int /\ b * g[x] \in Int /\ b * v \in Int
          /\ c * n \in Int
      <4>1. a * (f[x] + u) = a * f[x] + a * u /\ a * f[x] \in Int /\ a * u \in Int
        BY <3>4, Distributes
      <4>2. b * (g[x] + v) = b * g[x] + b * v /\ b * g[x] \in Int /\ b * v \in Int
        BY <3>4, Distributes
      <4>3. 1 \in Int
        OBVIOUS
      <4>4. c * (n + 1) = c * n + c * 1 /\ c * 1 = c /\ c * n \in Int
        BY <3>4, <4>3, Distributes
      <4>. QED  BY <4>1, <4>2, <4>4
    <3>6. a * (f[x] + u) <= b * (g[x] + v) + c * (n + 1)
      BY <3>4, <3>5
    <3>. QED  BY <3>4, <3>6
  <2>. QED  BY <2>1, <2>2
<1>4. S \in P
  <2>. HIDE DEF P
  <2>. QED  BY <1>3, SetInduction
<1>. QED  BY <1>4 DEF F, H

LEMMA SumsAdd ==
  ASSUME NEW S, IsFiniteSet(S), NEW f, NEW g, NEW h,
         \A x \in S : f[x] \in Int /\ g[x] \in Int /\ h[x] = f[x] + g[x]
  PROVE  Sampling!SumOver(S, h) = Sampling!SumOver(S, f) + Sampling!SumOver(S, g)
<1> DEFINE F(T) == Sampling!SumOver(T, f)
<1> DEFINE H(T) == Sampling!SumOver(T, g)
<1> DEFINE K(T) == Sampling!SumOver(T, h)
<1> DEFINE P == {T \in SUBSET S : K(T) = F(T) + H(T)}
<1>1. \A T \in SUBSET S : \A x \in T :
        /\ F(T) = f[x] + F(T \ {x}) /\ H(T) = g[x] + H(T \ {x})
        /\ K(T) = h[x] + K(T \ {x})
        /\ F(T \ {x}) \in Int /\ H(T \ {x}) \in Int
  <2>. SUFFICES ASSUME NEW T \in SUBSET S, NEW x \in T
                PROVE  /\ F(T) = f[x] + F(T \ {x}) /\ H(T) = g[x] + H(T \ {x})
                       /\ K(T) = h[x] + K(T \ {x})
                       /\ F(T \ {x}) \in Int /\ H(T \ {x}) \in Int
    OBVIOUS
  <2>1. IsFiniteSet(T)
    BY FS_Subset
  <2>2. \A y \in T : f[y] \in Int /\ g[y] \in Int /\ h[y] \in Int
    OBVIOUS
  <2>3. F(T) = f[x] + F(T \ {x}) /\ F(T \ {x}) \in Int
    BY <2>1, <2>2, SumTakes
  <2>4. H(T) = g[x] + H(T \ {x}) /\ H(T \ {x}) \in Int
    BY <2>1, <2>2, SumTakes
  <2>5. K(T) = h[x] + K(T \ {x})
    BY <2>1, <2>2, SumTakes
  <2>. QED  BY <2>3, <2>4, <2>5
<1>2. F({}) = 0 /\ H({}) = 0 /\ K({}) = 0
  BY SumSteps, FS_EmptySet
<1>. HIDE DEF F, H, K
<1>3. ASSUME NEW T \in SUBSET S, \A U \in SUBSET T : U # T => U \in P
      PROVE  T \in P
  <2>1. CASE T = {}
    BY <1>2, <2>1
  <2>2. CASE T # {}
    <3>1. PICK x \in T : TRUE
      BY <2>2
    <3>2. T \ {x} \in P
      BY <1>3
    <3>. QED  BY <1>1, <3>2
  <2>. QED  BY <2>1, <2>2
<1>4. S \in P
  <2>. HIDE DEF P
  <2>. QED  BY <1>3, SetInduction
<1>. QED  BY <1>4 DEF F, H, K

(* Terms of 0 add nothing.                                                 *)
LEMMA SumExtends ==
  ASSUME NEW S, IsFiniteSet(S), NEW R \in SUBSET S, NEW f, NEW g,
         \A x \in R : f[x] \in Int /\ g[x] = f[x],
         \A x \in S \ R : g[x] = 0
  PROVE  Sampling!SumOver(R, f) = Sampling!SumOver(S, g)
<1> DEFINE F(T) == Sampling!SumOver(T, f)
<1> DEFINE H(T) == Sampling!SumOver(T, g)
<1> DEFINE P == {T \in SUBSET S : F(T \cap R) = H(T)}
<1>1. \A T \in SUBSET S : \A x \in T :
        H(T) = g[x] + H(T \ {x}) /\ H(T \ {x}) \in Int
  <2>1. \A x \in S : g[x] \in Int
    OBVIOUS
  <2>. QED  BY <2>1, SumTakes, FS_Subset
<1>2. \A T \in SUBSET R : \A x \in T : F(T) = f[x] + F(T \ {x}) /\ F(T \ {x}) \in Int
  BY SumTakes, FS_Subset
<1>3. F({}) = 0 /\ H({}) = 0
  BY SumSteps, FS_EmptySet
<1>. HIDE DEF F, H
<1>4. ASSUME NEW T \in SUBSET S, \A U \in SUBSET T : U # T => U \in P
      PROVE  T \in P
  <2>1. CASE T = {}
    <3>1. T \cap R = {}
      BY <2>1
    <3>. QED  BY <1>3, <2>1, <3>1
  <2>2. CASE T # {}
    <3>1. PICK x \in T : TRUE
      BY <2>2
    <3>2. F((T \ {x}) \cap R) = H(T \ {x})
      BY <1>4
    <3>3. CASE x \in R
      <4>1. (T \ {x}) \cap R = (T \cap R) \ {x} /\ x \in T \cap R /\ T \cap R \in SUBSET R
        BY <3>3
      <4>2. F(T \cap R) = f[x] + F((T \cap R) \ {x})
        BY <1>2, <4>1
      <4>. QED  BY <1>1, <3>2, <3>3, <4>1, <4>2
    <3>4. CASE x \notin R
      <4>1. (T \ {x}) \cap R = T \cap R /\ g[x] = 0
        BY <3>4
      <4>2. H(T) = H(T \ {x})
        BY <1>1, <4>1
      <4>3. F(T \cap R) = H(T \ {x})
        BY <3>2, <4>1
      <4>. QED  BY <4>2, <4>3
    <3>. QED  BY <3>3, <3>4
  <2>. QED  BY <2>1, <2>2
<1>5. S \in P
  <2>. HIDE DEF P
  <2>. QED  BY <1>4, SetInduction
<1>6. S \cap R = R
  OBVIOUS
<1>. QED  BY <1>5, <1>6 DEF F, H

-----------------------------------------------------------------------------
(* The shares of two samples.                                              *)
Sampled == Sampling!AllPids

(* A process that was in the last sample has run no more than ran says     *)
(* since, or has ended; one that was not has started since.  The total is  *)
(* that of the last sample.                                                *)
SamplingInv ==
  /\ Sampling!TypeOK
  /\ \A p \in Sampled : prev[p] # -1 /\ time[p] # -1 => time[p] <= prev[p] + ran[p]
  /\ ~churn.ended => \A p \in Sampled : prev[p] # -1 => time[p] # -1 /\ time[p] >= prev[p]
  /\ ~churn.started /\ prevTotal > 0 =>
       \A p \in Sampled : time[p] # -1 => prev[p] # -1
  /\ prevTotal = Sampling!SumOver({p \in Sampled : prev[p] # -1}, prev)

LEMMA SamplingConstants ==
  /\ MaxRun \in Nat /\ MaxTime \in Nat /\ MaxSamples \in Nat /\ MaxRun <= MaxTime
  /\ Sampling!Idle = 0 /\ Sampling!None = -1 /\ Sampled = SampledPids \cup {0}
  /\ 0 \notin SampledPids /\ IsFiniteSet(Sampled) /\ IsFiniteSet(SampledPids)
  /\ \A S : Sampling!Cardinality(S) = Cardinality(S)
<1>1. Sampling!Idle = 0 /\ Sampling!None = -1 /\ Sampled = SampledPids \cup {0}
  BY DEF Sampling!Idle, Sampling!None, Sampled, Sampling!AllPids
<1>2. /\ MaxRun \in Nat /\ MaxTime \in Nat /\ MaxSamples \in Nat /\ MaxRun <= MaxTime
      /\ IsFiniteSet(SampledPids) /\ 0 \notin SampledPids
  BY <1>1, ConstantsAssumption
<1>3. IsFiniteSet(Sampled)
  BY <1>1, <1>2, FS_AddElement
<1>. QED
  BY <1>1, <1>2, <1>3 DEF Sampling!Cardinality, Cardinality

LEMMA SamplingTyped ==
  ASSUME SamplingInv
  PROVE  /\ time \in [Sampled -> 0 .. MaxTime \cup {-1}]
         /\ prev \in [Sampled -> 0 .. MaxTime \cup {-1}]
         /\ ran \in [Sampled -> 0 .. MaxRun]
         /\ \A p \in Sampled : time[p] \in Int /\ prev[p] \in Int /\ ran[p] \in Int
                               /\ ran[p] >= 0 /\ time[p] >= -1 /\ prev[p] >= -1
         /\ prevTotal \in Nat /\ samples \in 0 .. MaxSamples
         /\ snapshot \in [available : BOOLEAN, cpu : [Sampled -> Sampling!Percents],
                          total : Sampling!Percents]
         /\ churn \in [started : BOOLEAN, ended : BOOLEAN]
<1>1. /\ time \in [Sampled -> 0 .. MaxTime \cup {-1}]
      /\ prev \in [Sampled -> 0 .. MaxTime \cup {-1}]
      /\ ran \in [Sampled -> 0 .. MaxRun]
      /\ prevTotal \in Nat /\ samples \in 0 .. MaxSamples
      /\ snapshot \in [available : BOOLEAN, cpu : [Sampled -> Sampling!Percents],
                       total : Sampling!Percents]
      /\ churn \in [started : BOOLEAN, ended : BOOLEAN]
  BY SamplingConstants DEF SamplingInv, Sampling!TypeOK, Sampled
<1>2. \A p \in Sampled : time[p] \in 0 .. MaxTime \cup {-1}
        /\ prev[p] \in 0 .. MaxTime \cup {-1} /\ ran[p] \in 0 .. MaxRun
  BY <1>1
<1>3. \A p \in Sampled : time[p] \in Int /\ prev[p] \in Int /\ ran[p] \in Int
                         /\ ran[p] >= 0 /\ time[p] >= -1 /\ prev[p] >= -1
  BY <1>2, SamplingConstants
<1>. QED  BY <1>1, <1>3

(* Quotients.                                                              *)
LEMMA ProductGrows ==
  ASSUME NEW p \in Int, NEW q \in Int, NEW b \in Int, b > 0, p <= q
  PROVE  p * b <= q * b
<1>1. (q - p) * b >= 0
  OBVIOUS
<1>2. (q - p) * b = q * b - p * b
  OBVIOUS
<1>3. p * b \in Int /\ q * b \in Int
  OBVIOUS
<1>. QED  BY <1>1, <1>2, <1>3

LEMMA Divided ==
  ASSUME NEW a \in Int, NEW b \in Int, b > 0
  PROVE  /\ a \div b \in Int
         /\ (a \div b) * b <= a /\ a < (a \div b) * b + b
         /\ \A s \in Int : s * b <= a => s <= a \div b
         /\ \A s \in Int : a <= s * b => a \div b <= s
<1> DEFINE q == a \div b
<1>1. q \in Int /\ a % b \in Int /\ 0 <= a % b /\ a % b < b
  OBVIOUS
<1>2. a = b * q + (a % b)
  OBVIOUS
<1>3. b * q = q * b /\ q * b \in Int
  BY <1>1
<1>4. q * b <= a /\ a < q * b + b
  BY <1>1, <1>2, <1>3
<1>. HIDE DEF q
<1>5. ASSUME NEW s \in Int, s * b <= a
      PROVE  s <= q
  <2>. SUFFICES ASSUME q + 1 <= s PROVE FALSE
    BY <1>1
  <2>1. (q + 1) * b <= s * b /\ (q + 1) * b = q * b + b
    BY <1>1, ProductGrows
  <2>. QED  BY <1>3, <1>4, <1>5, <2>1
<1>6. ASSUME NEW s \in Int, a <= s * b
      PROVE  q <= s
  <2>. SUFFICES ASSUME s + 1 <= q PROVE FALSE
    BY <1>1
  <2>1. (s + 1) * b <= q * b /\ (s + 1) * b = s * b + b
    BY <1>1, ProductGrows
  <2>. QED  BY <1>3, <1>4, <1>6, <2>1
<1>. QED  BY <1>1, <1>4, <1>5, <1>6 DEF q

(* A share, and the total.                                                 *)
LEMMA ShareBounded ==
  ASSUME NEW ticks \in Nat, NEW total \in Nat
  PROVE  /\ Sampling!Percent(ticks, total) \in 0 .. 100
         /\ total = 0 => Sampling!Percent(ticks, total) = 0
         /\ Sampling!Percent(ticks, total) * total <= 100 * ticks
         /\ total > 0 /\ ticks <= total =>
              100 * ticks <= Sampling!Percent(ticks, total) * total + total
<1> DEFINE q == (100 * ticks) \div total
<1> DEFINE share == Sampling!Percent(ticks, total)
<1>1. CASE total = 0
  BY <1>1 DEF Sampling!Percent
<1>2. CASE total > 0
  <2>1. /\ q \in Int /\ q * total <= 100 * ticks /\ 100 * ticks < q * total + total
        /\ \A s \in Int : s * total <= 100 * ticks => s <= q
        /\ \A s \in Int : 100 * ticks <= s * total => q <= s
    BY <1>2, Divided
  <2>. HIDE DEF q
  <2>2. 0 <= q /\ (ticks <= total => q <= 100)
    <3>1. 0 * total <= 100 * ticks
      OBVIOUS
    <3>2. ticks <= total => 100 * ticks <= 100 * total
      OBVIOUS
    <3>. QED  BY <2>1, <3>1, <3>2
  <2>3. share = IF q < 100 THEN q ELSE 100
    <3>1. share = Sampling!Min({100, q})
      BY <1>2 DEF Sampling!Percent, q
    <3>2. \E x \in {100, q} : \A y \in {100, q} : x <= y
      BY <2>1
    <3>3. share \in {100, q} /\ share <= 100 /\ share <= q
      BY <3>1, <3>2 DEF Sampling!Min
    <3>. QED  BY <2>1, <3>3
  <2>. HIDE DEF share
  <2>4. share \in 0 .. 100 /\ share <= q /\ (ticks <= total => share = q)
    BY <2>1, <2>2, <2>3
  <2>5. share * total <= q * total
    BY <1>2, <2>1, <2>4, ProductGrows
  <2>6. share * total \in Int /\ q * total \in Int
    BY <2>1, <2>4
  <2>. QED  BY <1>2, <2>1, <2>4, <2>5, <2>6 DEF share
<1>. QED  BY <1>1, <1>2

LEMMA TotalBounded ==
  ASSUME NEW total \in Nat, Sampling!Delta(0) \in Nat
  PROVE  LET all == Sampling!TotalPercent(total)
             rest == 100 * (total - Sampling!Delta(0))
         IN  /\ all \in 0 .. 100
             /\ total = 0 => all = 0
             /\ total > 0 => \A s \in Int :
                  /\ s * total <= rest => s <= all
                  /\ s >= 0 /\ rest <= s * total => all <= s
<1> DEFINE all == Sampling!TotalPercent(total)
<1> DEFINE d == Sampling!Delta(0)
<1> DEFINE rest == 100 * (total - d)
<1>0. Sampling!Idle = 0
  BY SamplingConstants
<1>1. CASE total = 0
  BY <1>0, <1>1 DEF Sampling!TotalPercent
<1>2. CASE total > 0
  <2>1. d \in Nat /\ rest \in Int
    OBVIOUS
  <2> DEFINE q == rest \div total
  <2>2. all = Sampling!Max({0, q})
    BY <1>0, <1>2 DEF Sampling!TotalPercent
  <2>3. rest <= 100 * total
    BY <2>1
  <2>. HIDE DEF d, rest
  <2>4. /\ q \in Int
        /\ \A s \in Int : s * total <= rest => s <= q
        /\ \A s \in Int : rest <= s * total => q <= s
    BY <1>2, <2>1, Divided
  <2>. HIDE DEF q
  <2>5. q <= 100
    BY <2>3, <2>4
  <2>6. \E x \in {0, q} : \A y \in {0, q} : x >= y
    BY <2>4
  <2>7. all \in {0, q} /\ all >= 0 /\ all >= q
    BY <2>2, <2>6 DEF Sampling!Max
  <2>. HIDE DEF all
  <2>8. all \in 0 .. 100
    BY <2>4, <2>5, <2>7
  <2>9. ASSUME NEW s \in Int
        PROVE  /\ s * total <= rest => s <= all
               /\ s >= 0 /\ rest <= s * total => all <= s
    BY <2>4, <2>7, <2>8
  <2>. QED  BY <1>2, <2>8, <2>9 DEF all, rest, d
<1>. QED  BY <1>1, <1>2

(* What a process used between two samples.                                *)
LEMMA DeltaBounded ==
  ASSUME SamplingInv, NEW p \in Sampled
  PROVE  /\ Sampling!Delta(p) \in Nat
         /\ Sampling!Delta(p) <= ran[p]
         /\ ~Sampling!Baseline => Sampling!Delta(p) = 0
<1>1. CASE /\ Sampling!Baseline /\ time[p] # -1 /\ prev[p] # -1 /\ time[p] > prev[p]
  <2>1. Sampling!Delta(p) = time[p] - prev[p]
    BY <1>1, SamplingConstants DEF Sampling!Delta
  <2>2. time[p] <= prev[p] + ran[p]
    BY <1>1 DEF SamplingInv
  <2>. QED  BY <1>1, <2>1, <2>2, SamplingTyped
<1>2. CASE ~(/\ Sampling!Baseline /\ time[p] # -1 /\ prev[p] # -1 /\ time[p] > prev[p])
  <2>1. Sampling!Delta(p) = 0
    BY <1>2, SamplingConstants DEF Sampling!Delta
  <2>. QED  BY <2>1, SamplingTyped
<1>. QED  BY <1>1, <1>2

(* The total is a sum of times.                                            *)
LEMMA TicksTyped ==
  ASSUME SamplingInv
  PROVE  /\ Sampling!TotalTicks \in Nat
         /\ Sampling!Alive = {p \in Sampled : time[p] # -1}
         /\ Sampling!TotalTicks = Sampling!SumOver({p \in Sampled : time[p] # -1}, time)
<1> DEFINE alive == {p \in Sampled : time[p] # -1}
<1>1. Sampling!Alive = alive /\ Sampling!TotalTicks = Sampling!SumOver(alive, time)
  BY SamplingConstants DEF Sampling!Alive, Sampling!TotalTicks, Sampled
<1>2. IsFiniteSet(alive)
  BY SamplingConstants, FS_Subset
<1>3. \A p \in alive : time[p] \in Int /\ time[p] >= 0
  BY SamplingTyped
<1>. HIDE DEF alive
<1>4. Sampling!SumOver(alive, time) \in Int
  BY <1>2, <1>3, SumIsInt
<1>5. 0 \in Int /\ 1 \in Int /\ \A p \in alive : 0 * time[p] <= 1 * time[p] + 0
  BY <1>3
<1>6. 0 * Sampling!SumOver(alive, time)
        <= 1 * Sampling!SumOver(alive, time) + 0 * Cardinality(alive)
  BY <1>2, <1>3, <1>5, SumsBounded
<1>7. Cardinality(alive) \in Nat
  BY <1>2, FS_CardinalityType
<1>8. Sampling!SumOver(alive, time) \in Nat
  BY <1>4, <1>6, <1>7
<1>. QED  BY <1>1, <1>8 DEF alive

(* What the processes used together is the difference of the totals, or    *)
(* less when one has started, as long as none has ended.                   *)
LEMMA DeltasSum ==
  ASSUME SamplingInv, Sampling!Baseline, ~churn.ended,
         NEW taken, taken = [p \in Sampled |-> Sampling!Delta(p)]
  PROVE  /\ Sampling!SumOver(Sampled, taken) <= Sampling!TotalTicks - prevTotal
         /\ ~churn.started =>
              Sampling!SumOver(Sampled, taken) = Sampling!TotalTicks - prevTotal
<1> DEFINE now == [p \in Sampled |-> IF time[p] = -1 THEN 0 ELSE time[p]]
<1> DEFINE then == [p \in Sampled |-> IF prev[p] = -1 THEN 0 ELSE prev[p]]
<1> DEFINE more == [p \in Sampled |-> now[p] - then[p]]
<1>0. IsFiniteSet(Sampled)
  BY SamplingConstants
<1>1. \A p \in Sampled : /\ now[p] \in Int /\ then[p] \in Int /\ more[p] \in Int
                         /\ now[p] = then[p] + more[p]
                         /\ (time[p] # -1 => now[p] = time[p])
                         /\ (time[p] = -1 => now[p] = 0)
                         /\ (prev[p] # -1 => then[p] = prev[p])
                         /\ (prev[p] = -1 => then[p] = 0)
                         /\ more[p] = now[p] - then[p]
  BY SamplingTyped
<1>. HIDE DEF now, then, more
<1>2. Sampling!TotalTicks = Sampling!SumOver(Sampled, now)
  <2> DEFINE alive == {p \in Sampled : time[p] # -1}
  <2>1. /\ alive \in SUBSET Sampled
        /\ \A p \in alive : time[p] \in Int /\ now[p] = time[p]
        /\ \A p \in Sampled \ alive : now[p] = 0
    BY <1>1, SamplingTyped
  <2>2. Sampling!TotalTicks = Sampling!SumOver(alive, time)
    BY TicksTyped
  <2>. HIDE DEF alive
  <2>. QED  BY <1>0, <2>1, <2>2, SumExtends
<1>3. prevTotal = Sampling!SumOver(Sampled, then)
  <2> DEFINE known == {p \in Sampled : prev[p] # -1}
  <2>1. /\ known \in SUBSET Sampled
        /\ \A p \in known : prev[p] \in Int /\ then[p] = prev[p]
        /\ \A p \in Sampled \ known : then[p] = 0
    BY <1>1, SamplingTyped
  <2>2. prevTotal = Sampling!SumOver(known, prev)
    BY DEF SamplingInv
  <2>. HIDE DEF known
  <2>. QED  BY <1>0, <2>1, <2>2, SumExtends
<1>4. Sampling!SumOver(Sampled, now)
        = Sampling!SumOver(Sampled, then) + Sampling!SumOver(Sampled, more)
  BY <1>0, <1>1, SumsAdd
<1>5. \A p \in Sampled : taken[p] \in Int /\ taken[p] <= more[p]
  <2>. SUFFICES ASSUME NEW p \in Sampled
                PROVE  taken[p] \in Int /\ taken[p] <= more[p]
    OBVIOUS
  <2>1. taken[p] = Sampling!Delta(p) /\ taken[p] \in Nat
    BY DeltaBounded
  <2>2. prev[p] # -1 => time[p] # -1 /\ time[p] >= prev[p]
    BY DEF SamplingInv
  <2>3. taken[p] = IF time[p] # -1 /\ prev[p] # -1 /\ time[p] > prev[p]
                  THEN time[p] - prev[p] ELSE 0
    BY <2>1, SamplingConstants DEF Sampling!Delta
  <2>. QED  BY <1>1, <2>1, <2>2, <2>3, SamplingTyped
<1>6. ~churn.started => \A p \in Sampled : more[p] <= taken[p]
  <2>. SUFFICES ASSUME ~churn.started, NEW p \in Sampled
                PROVE  more[p] <= taken[p]
    OBVIOUS
  <2>1. taken[p] = Sampling!Delta(p)
    OBVIOUS
  <2>2. prevTotal > 0
    BY DEF Sampling!Baseline
  <2>3. prev[p] # -1 <=> time[p] # -1
    BY <2>2 DEF SamplingInv
  <2>4. taken[p] = IF time[p] # -1 /\ prev[p] # -1 /\ time[p] > prev[p]
                  THEN time[p] - prev[p] ELSE 0
    BY <2>1, SamplingConstants DEF Sampling!Delta
  <2>. QED  BY <1>1, <2>3, <2>4, SamplingTyped
<1> DEFINE U == Sampling!SumOver(Sampled, taken)
<1> DEFINE M == Sampling!SumOver(Sampled, more)
<1>7. U \in Int /\ M \in Int /\ Sampling!SumOver(Sampled, then) \in Int
  BY <1>0, <1>1, <1>5, SumIsInt
<1>8. Cardinality(Sampled) \in Nat
  BY <1>0, FS_CardinalityType
<1>9. U <= M
  <2>1. \A p \in Sampled : 1 * taken[p] <= 1 * more[p] + 0
    BY <1>1, <1>5
  <2>2. 0 \in Int /\ 1 \in Int /\ (\A p \in Sampled : taken[p] \in Int /\ more[p] \in Int)
    BY <1>1, <1>5
  <2>3. 1 * U <= 1 * M + 0 * Cardinality(Sampled)
    BY <1>0, <2>1, <2>2, SumsBounded
  <2>. HIDE DEF U, M
  <2>. QED  BY <1>7, <1>8, <2>3
<1>10. ~churn.started => M <= U
  <2>. SUFFICES ASSUME ~churn.started PROVE M <= U
    OBVIOUS
  <2>1. \A p \in Sampled : 1 * more[p] <= 1 * taken[p] + 0
    BY <1>1, <1>5, <1>6
  <2>2. 0 \in Int /\ 1 \in Int /\ (\A p \in Sampled : more[p] \in Int /\ taken[p] \in Int)
    BY <1>1, <1>5
  <2>3. 1 * M <= 1 * U + 0 * Cardinality(Sampled)
    BY <1>0, <2>1, <2>2, SumsBounded
  <2>. HIDE DEF U, M
  <2>. QED  BY <1>7, <1>8, <2>3
<1>11. M = Sampling!TotalTicks - prevTotal
  <2>. HIDE DEF M
  <2>. QED  BY <1>2, <1>3, <1>4, <1>7 DEF M
<1>. HIDE DEF U, M
<1>12. U <= Sampling!TotalTicks - prevTotal
       /\ (~churn.started => U = Sampling!TotalTicks - prevTotal)
  BY <1>7, <1>9, <1>10, <1>11
<1>. QED  BY <1>12 DEF U

LEMMA SamplingInitially == Sampling!Init => SamplingInv
<1>. SUFFICES ASSUME Sampling!Init PROVE SamplingInv
  OBVIOUS
<1>1. /\ time \in [Sampled -> {-1, 0, MaxRun}] /\ prev = [p \in Sampled |-> -1]
      /\ prevTotal = 0 /\ samples = 0 /\ ran = [p \in Sampled |-> 0]
      /\ snapshot = [available |-> FALSE, cpu |-> [p \in Sampled |-> 0], total |-> 0]
      /\ churn = [started |-> FALSE, ended |-> FALSE]
  BY SamplingConstants DEF Sampling!Init, Sampled, Sampling!Quiet
<1>2. Sampling!TypeOK
  <2>1. {-1, 0, MaxRun} \subseteq 0 .. MaxTime \cup {-1} /\ 0 \in 0 .. MaxRun
        /\ 0 \in 0 .. MaxSamples /\ 0 \in Sampling!Percents
    BY SamplingConstants DEF Sampling!Percents
  <2>2. snapshot \in [available : BOOLEAN, cpu : [Sampled -> Sampling!Percents],
                      total : Sampling!Percents]
    BY <1>1, <2>1
  <2>3. churn \in [started : BOOLEAN, ended : BOOLEAN]
    BY <1>1
  <2>. QED
    BY <1>1, <2>1, <2>2, <2>3, SamplingConstants DEF Sampling!TypeOK, Sampled
<1>3. {p \in Sampled : prev[p] # -1} = {}
  BY <1>1
<1>4. Sampling!SumOver({}, prev) = 0
  BY SumSteps, FS_EmptySet
<1>. QED
  BY <1>1, <1>2, <1>3, <1>4 DEF SamplingInv

LEMMA Commutes == \A x, y \in Int : x * y = y * x /\ x * y \in Int
BY SMT

(* Processes run, start and end.                                           *)
LEMMA SystemRuns ==
  ASSUME SamplingInv, NEW p \in Sampled,
         (\E ticks \in 1 .. MaxRun : Sampling!Run(p, ticks))
           \/ Sampling!Begin(p) \/ Sampling!End(p)
  PROVE  SamplingInv'
<1>1. /\ UNCHANGED <<prev, prevTotal, snapshot, samples>>
      /\ \A q \in Sampled \ {p} : time'[q] = time[q] /\ ran'[q] = ran[q]
      /\ time' \in [Sampled -> 0 .. MaxTime \cup {-1}] /\ ran' \in [Sampled -> 0 .. MaxRun]
      /\ churn' \in [started : BOOLEAN, ended : BOOLEAN]
      /\ \/ /\ time[p] # -1 /\ UNCHANGED churn
            /\ \E ticks \in 1 .. MaxRun :
                 time'[p] = time[p] + ticks /\ ran'[p] = ran[p] + ticks
         \/ /\ time[p] = -1 /\ time'[p] = 0 /\ ran'[p] = 0
            /\ churn'.started /\ churn'.ended = churn.ended
         \/ time'[p] = -1 /\ churn'.ended /\ churn'.started = churn.started
  <2>1. ASSUME NEW ticks \in 1 .. MaxRun, Sampling!Run(p, ticks)
        PROVE  <1>1!:
    <3>1. /\ UNCHANGED <<prev, prevTotal, snapshot, samples, churn>>
          /\ time' = [time EXCEPT ![p] = @ + ticks] /\ ran' = [ran EXCEPT ![p] = @ + ticks]
          /\ time[p] # -1 /\ time[p] + ticks <= MaxTime /\ ran[p] + ticks <= MaxRun
      BY <2>1, SamplingConstants DEF Sampling!Run
    <3>2. time[p] + ticks \in 0 .. MaxTime /\ ran[p] + ticks \in 0 .. MaxRun
      BY <3>1, SamplingTyped, SamplingConstants
    <3>. QED  BY <3>1, <3>2, SamplingTyped
  <2>2. CASE Sampling!Begin(p)
    <3>1. /\ UNCHANGED <<prev, prevTotal, snapshot, samples>> /\ time[p] = -1
          /\ time' = [time EXCEPT ![p] = 0] /\ ran' = [ran EXCEPT ![p] = 0]
          /\ churn' = [churn EXCEPT !.started = TRUE]
      BY <2>2, SamplingConstants DEF Sampling!Begin
    <3>2. 0 \in 0 .. MaxTime /\ 0 \in 0 .. MaxRun
      BY SamplingConstants
    <3>3. /\ churn' \in [started : BOOLEAN, ended : BOOLEAN]
          /\ churn'.started /\ churn'.ended = churn.ended
      BY <3>1, SamplingTyped
    <3>. QED  BY <3>1, <3>2, <3>3, SamplingTyped
  <2>3. CASE Sampling!End(p)
    <3>1. /\ UNCHANGED <<prev, prevTotal, snapshot, samples>>
          /\ time' = [time EXCEPT ![p] = -1] /\ ran' = [ran EXCEPT ![p] = 0]
          /\ churn' = [churn EXCEPT !.ended = TRUE]
      BY <2>3, SamplingConstants DEF Sampling!End
    <3>2. 0 \in 0 .. MaxRun
      BY SamplingConstants
    <3>3. /\ churn' \in [started : BOOLEAN, ended : BOOLEAN]
          /\ churn'.ended /\ churn'.started = churn.started
      BY <3>1, SamplingTyped
    <3>. QED  BY <3>1, <3>2, <3>3, SamplingTyped
  <2>. QED  BY <2>1, <2>2, <2>3
<1>2. Sampling!TypeOK'
  BY <1>1, SamplingTyped, SamplingConstants DEF Sampling!TypeOK, Sampled
<1>3. /\ \A q \in Sampled : prev[q] # -1 /\ time[q] # -1 => time[q] <= prev[q] + ran[q]
      /\ ~churn.ended => \A q \in Sampled : prev[q] # -1 => time[q] # -1 /\ time[q] >= prev[q]
      /\ ~churn.started /\ prevTotal > 0 =>
           \A q \in Sampled : time[q] # -1 => prev[q] # -1
      /\ prevTotal = Sampling!SumOver({q \in Sampled : prev[q] # -1}, prev)
  BY DEF SamplingInv
<1>4. \A q \in Sampled : prev[q] # -1 /\ time'[q] # -1 => time'[q] <= prev[q] + ran'[q]
  BY <1>1, <1>3, SamplingTyped
<1>5. ~churn'.ended => \A q \in Sampled : prev[q] # -1 => time'[q] # -1 /\ time'[q] >= prev[q]
  BY <1>1, <1>3, SamplingTyped
<1>6. ~churn'.started /\ prevTotal > 0 =>
        \A q \in Sampled : time'[q] # -1 => prev[q] # -1
  BY <1>1, <1>3, SamplingTyped
<1>. QED
  BY <1>1, <1>2, <1>3, <1>4, <1>5, <1>6 DEF SamplingInv

(* A sample: each share, and all of them.                                  *)
LEMMA SampleTaken ==
  ASSUME SamplingInv, Sampling!Sample
  PROVE  /\ SamplingInv'
         /\ \A p \in Sampled : snapshot'.cpu[p] * (prevTotal' - prevTotal) <= 100 * ran[p]
         /\ ~churn.ended =>
              /\ Sampling!Shares <= snapshot'.total
              /\ ~churn.started =>
                   snapshot'.total - Sampling!Shares <= Cardinality(SampledPids)
<1> DEFINE total == IF Sampling!Baseline THEN Sampling!TotalTicks - prevTotal ELSE 0
<1> DEFINE d(p) == Sampling!Delta(p)
<1> DEFINE share == [p \in Sampled |-> Sampling!Percent(d(p), total)]
<1> DEFINE all == Sampling!TotalPercent(total)
<1>1. /\ snapshot' = [available |-> TRUE, cpu |-> share, total |-> all]
      /\ prev' = time /\ prevTotal' = Sampling!TotalTicks /\ samples' = samples + 1
      /\ samples < MaxSamples /\ ran' = [p \in Sampled |-> 0]
      /\ churn' = [started |-> FALSE, ended |-> FALSE] /\ UNCHANGED time
  BY DEF Sampling!Sample, Sampled, Sampling!Quiet
<1>2. /\ total \in Nat /\ Sampling!TotalTicks \in Nat /\ prevTotal \in Nat
      /\ Sampling!Baseline => total > 0 /\ total = Sampling!TotalTicks - prevTotal
      /\ ~Sampling!Baseline => total = 0
  BY TicksTyped, SamplingTyped DEF Sampling!Baseline
<1>. HIDE DEF total
<1>3. \A p \in Sampled : d(p) \in Nat /\ d(p) <= ran[p]
  BY DeltaBounded
<1>4. /\ Sampling!Delta(0) \in Nat /\ 0 \in Sampled
      /\ SampledPids \subseteq Sampled /\ Sampled \ {0} = SampledPids
  BY <1>3, SamplingConstants
<1>5. \A p \in Sampled :
        /\ share[p] \in 0 .. 100
        /\ total = 0 => share[p] = 0
        /\ share[p] * total <= 100 * d(p)
        /\ total > 0 /\ d(p) <= total => 100 * d(p) <= share[p] * total + total
  BY <1>2, <1>3, ShareBounded
<1>6. /\ all \in 0 .. 100
      /\ total = 0 => all = 0
      /\ total > 0 => \A s \in Int :
           /\ s * total <= 100 * (total - d(0)) => s <= all
           /\ s >= 0 /\ 100 * (total - d(0)) <= s * total => all <= s
  BY <1>2, <1>4, TotalBounded
<1>7. snapshot'.cpu = share /\ snapshot'.total = all
  BY <1>1
<1>8. share \in [Sampled -> 0 .. 100]
  <2>1. share = [p \in Sampled |-> share[p]]
    OBVIOUS
  <2>. HIDE DEF share
  <2>. QED  BY <1>5, <2>1
<1>. HIDE DEF all, share
<1>9. SamplingInv'
  <2>1. Sampling!TypeOK'
    <3>1. snapshot' \in [available : BOOLEAN, cpu : [Sampled -> Sampling!Percents],
                         total : Sampling!Percents]
      BY <1>1, <1>6, <1>8 DEF Sampling!Percents
    <3>2. samples' \in 0 .. MaxSamples
      BY <1>1, SamplingTyped, SamplingConstants
    <3>3. ran' \in [Sampled -> 0 .. MaxRun]
      BY <1>1, SamplingConstants
    <3>4. churn' \in [started : BOOLEAN, ended : BOOLEAN]
      BY <1>1
    <3>. QED
      BY <1>1, <1>2, <3>1, <3>2, <3>3, <3>4, SamplingTyped, SamplingConstants
      DEF Sampling!TypeOK, Sampled
  <2>2. prevTotal' = Sampling!SumOver({p \in Sampled : prev'[p] # -1}, prev')
    BY <1>1, TicksTyped
  <2>3. \A p \in Sampled : time[p] <= time[p] + ran'[p] /\ time[p] >= time[p]
    BY <1>1, SamplingTyped
  <2>. QED  BY <1>1, <2>1, <2>2, <2>3 DEF SamplingInv
<1>10. \A p \in Sampled : snapshot'.cpu[p] * (prevTotal' - prevTotal) <= 100 * ran[p]
  <2>. SUFFICES ASSUME NEW p \in Sampled
                PROVE  share[p] * (prevTotal' - prevTotal) <= 100 * ran[p]
    BY <1>7
  <2>. HIDE DEF d
  <2>0. ran[p] \in Int /\ ran[p] >= 0
    BY SamplingTyped
  <2>1. CASE Sampling!Baseline
    <3>1. prevTotal' - prevTotal = total /\ share[p] * total <= 100 * d(p)
      BY <1>1, <1>2, <1>5, <2>1
    <3>2. share[p] * total \in Int /\ 100 * d(p) <= 100 * ran[p]
      BY <1>2, <1>3, <1>5, <2>0
    <3>3. d(p) \in Int
      BY <1>3
    <3>. QED  BY <2>0, <3>1, <3>2, <3>3
  <2>2. CASE ~Sampling!Baseline
    <3>1. share[p] = 0
      BY <1>2, <1>5, <2>2
    <3>. QED  BY <1>1, <1>2, <2>0, <3>1
  <2>. QED  BY <2>1, <2>2
<1>11. ASSUME ~churn.ended
       PROVE  /\ Sampling!Shares <= all
              /\ ~churn.started => all - Sampling!Shares <= Cardinality(SampledPids)
  <2> DEFINE taken == [p \in Sampled |-> Sampling!Delta(p)]
  <2> DEFINE shares == Sampling!SumOver(SampledPids, share)
  <2> DEFINE rest == Sampling!SumOver(SampledPids, taken)
  <2> DEFINE n == Cardinality(SampledPids)
  <2>1. Sampling!Shares = shares
    BY <1>7 DEF Sampling!Shares
  <2>2. \A p \in Sampled : taken[p] = d(p) /\ taken[p] \in Int /\ taken[p] >= 0
    BY <1>3
  <2>3. IsFiniteSet(Sampled) /\ IsFiniteSet(SampledPids) /\ n \in Nat
    BY SamplingConstants, FS_CardinalityType
  <2>4. /\ Sampling!SumOver(Sampled, taken) = d(0) + rest /\ rest \in Int
    <3>. HIDE DEF taken
    <3>. QED  BY <1>4, <2>2, <2>3, SumTakes
  <2>5. \A p \in SampledPids : share[p] \in Int /\ taken[p] \in Int
    BY <1>4, <1>5, <2>2
  <2>6. shares \in Int
    BY <2>3, <2>5, SumIsInt
  <2>7. CASE ~Sampling!Baseline
    <3>1. all = 0 /\ total = 0 /\ \A p \in SampledPids : share[p] = 0
      BY <1>2, <1>4, <1>5, <1>6, <2>7
    <3>2. {} \in SUBSET SampledPids /\ (\A p \in {} : share[p] \in Int /\ share[p] = share[p])
          /\ \A p \in SampledPids \ {} : share[p] = 0
      BY <3>1
    <3>3. Sampling!SumOver({}, share) = shares
      BY <2>3, <3>2, SumExtends
    <3>4. shares = 0
      BY <3>3, SumSteps, FS_EmptySet
    <3>. QED  BY <2>1, <2>3, <3>1, <3>4
  <2>8. CASE Sampling!Baseline
    <3>1. /\ Sampling!SumOver(Sampled, taken) <= total
          /\ ~churn.started => Sampling!SumOver(Sampled, taken) = total
      BY <1>2, <1>11, <2>8, DeltasSum
    <3>2. d(0) + rest <= total /\ (~churn.started => d(0) + rest = total)
      BY <2>4, <3>1
    <3>3. 0 \in Int /\ 100 \in Int /\ total \in Int /\ total > 0 /\ d(0) \in Int /\ d(0) >= 0
      BY <1>2, <1>3, <1>4, <2>8
    <3>4. total * shares <= 100 * rest + 0 * n
      <4>1. \A p \in SampledPids : total * share[p] <= 100 * taken[p] + 0
        <5>. SUFFICES ASSUME NEW p \in SampledPids
                      PROVE  total * share[p] <= 100 * taken[p] + 0
          OBVIOUS
        <5>1. share[p] * total <= 100 * d(p) /\ taken[p] = d(p)
          BY <1>4, <1>5, <2>2
        <5>2. share[p] * total = total * share[p] /\ share[p] * total \in Int
          BY <2>5, <3>3, Commutes
        <5>. HIDE DEF d, taken
        <5>. QED  BY <2>5, <5>1, <5>2
      <4>. HIDE DEF taken
      <4>. QED  BY <2>3, <2>5, <3>3, <4>1, SumsBounded
    <3>5. shares <= all
      <4>. HIDE DEF shares, rest, d
      <4>1. shares * total = total * shares /\ shares * total \in Int
        BY <2>6, <3>3
      <4>2. shares * total <= 100 * (total - d(0))
        BY <2>3, <2>4, <3>2, <3>3, <3>4, <4>1
      <4>. QED  BY <1>6, <2>6, <3>3, <4>2
    <3>6. ASSUME ~churn.started
          PROVE  all - shares <= n
      <4>1. \A p \in SampledPids : 100 * taken[p] <= total * share[p] + total
        <5>. SUFFICES ASSUME NEW p \in SampledPids
                      PROVE  100 * taken[p] <= total * share[p] + total
          OBVIOUS
        <5>1. p \in Sampled /\ taken[p] = d(p) /\ taken[p] \in Int
          BY <1>4, <2>2
        <5>2. d(p) <= total
          <6>1. IsFiniteSet(SampledPids \ {p}) /\ Cardinality(SampledPids \ {p}) \in Nat
            BY <2>3, FS_RemoveElement, FS_CardinalityType
          <6>2. /\ rest = taken[p] + Sampling!SumOver(SampledPids \ {p}, taken)
                /\ Sampling!SumOver(SampledPids \ {p}, taken) \in Int
            <7>. HIDE DEF taken
            <7>. QED  BY <2>3, <2>5, SumTakes
          <6>3. \A q \in SampledPids \ {p} : taken[q] \in Int /\ 0 * taken[q] <= 1 * taken[q] + 0
            BY <1>4, <2>2
          <6>4. 1 \in Int
            OBVIOUS
          <6> DEFINE others == Sampling!SumOver(SampledPids \ {p}, taken)
          <6>5. 0 * others <= 1 * others + 0 * Cardinality(SampledPids \ {p})
            <7>. HIDE DEF taken
            <7>. QED  BY <3>3, <6>1, <6>3, <6>4, SumsBounded
          <6>. HIDE DEF others, d, rest, taken
          <6>6. others >= 0
            BY <6>1, <6>2, <6>5 DEF others
          <6>. QED  BY <3>2, <3>3, <5>1, <6>2, <6>6 DEF others
        <5>3. 100 * d(p) <= share[p] * total + total
          BY <1>5, <3>3, <5>1, <5>2
        <5>4. share[p] * total = total * share[p]
          BY <2>5, <3>3, Commutes
        <5>. HIDE DEF d, taken
        <5>. QED  BY <5>1, <5>3, <5>4
      <4>2. 100 * rest <= total * shares + total * n
        <5>. HIDE DEF taken
        <5>. QED  BY <2>3, <2>5, <3>3, <4>1, SumsBounded
      <4>. HIDE DEF shares, rest, d, n
      <4>3. /\ (shares + n) * total = total * (shares + n)
            /\ total * (shares + n) = total * shares + total * n
            /\ total * shares \in Int /\ total * n \in Int
        BY <2>3, <2>6, <3>3, Distributes
      <4>4. 100 * (total - d(0)) <= (shares + n) * total
        BY <2>4, <3>2, <3>3, <3>6, <4>2, <4>3
      <4>5. shares >= 0
        <5>1. \A p \in SampledPids : 0 * share[p] <= 1 * share[p] + 0
          BY <1>4, <1>5
        <5>2. 1 \in Int
          OBVIOUS
        <5>3. 0 * shares <= 1 * shares + 0 * n
          BY <2>3, <2>5, <3>3, <5>1, <5>2, SumsBounded DEF shares, n
        <5>. QED  BY <2>3, <2>6, <5>3
      <4>6. shares + n \in Int /\ shares + n >= 0
        BY <2>3, <2>6, <4>5
      <4>7. all <= shares + n
        BY <1>6, <3>3, <4>4, <4>6
      <4>. QED  BY <1>6, <2>3, <2>6, <4>7
    <3>. QED  BY <2>1, <3>5, <3>6
  <2>. QED  BY <2>7, <2>8
<1>. QED  BY <1>7, <1>9, <1>10, <1>11

LEMMA SamplingPreserved == SamplingInv /\ [Sampling!Next]_(Sampling!vars) => SamplingInv'
<1>1. ASSUME SamplingInv, UNCHANGED Sampling!vars
      PROVE  SamplingInv'
  BY <1>1 DEF Sampling!vars, SamplingInv, Sampling!TypeOK
<1>2. ASSUME SamplingInv, Sampling!SampleFails
      PROVE  SamplingInv'
  <2>1. /\ samples < MaxSamples /\ samples' = samples + 1
        /\ snapshot' = [available |-> FALSE, cpu |-> [p \in Sampled |-> 0], total |-> 0]
        /\ UNCHANGED <<time, prev, prevTotal, ran, churn>>
    BY <1>2 DEF Sampling!SampleFails, Sampled
  <2>2. 0 \in Sampling!Percents
    BY DEF Sampling!Percents
  <2>3. snapshot' \in [available : BOOLEAN, cpu : [Sampled -> Sampling!Percents],
                       total : Sampling!Percents]
    BY <2>1, <2>2
  <2>4. samples' \in 0 .. MaxSamples
    BY <1>2, <2>1, SamplingTyped, SamplingConstants
  <2>5. Sampling!TypeOK'
    BY <1>2, <2>1, <2>3, <2>4, SamplingTyped, SamplingConstants DEF Sampling!TypeOK, Sampled
  <2>. QED  BY <1>2, <2>1, <2>5 DEF SamplingInv
<1>. QED
  BY <1>1, <1>2, SystemRuns, SampleTaken DEF Sampling!Next, Sampled

(* No process is charged for more than it used itself since the last       *)
(* sample, and the shares add up to the total, for every number of         *)
(* processes and every time they use; types hold too.                      *)
THEOREM SamplingIsSound ==
  Sampling!Spec =>
    []Sampling!TypeOK /\ Sampling!ChargedForItsOwn /\ Sampling!SharesAddUp
<1>1. ASSUME SamplingInv, [Sampling!Next]_(Sampling!vars), Sampling!Sampled
      PROVE  Sampling!Sample
  <2>1. samples' # samples
    BY <1>1 DEF Sampling!Sampled
  <2>2. ~Sampling!SampleFails
    BY <1>1 DEF Sampling!Sampled, Sampling!SampleFails
  <2>. QED
    BY <1>1, <2>1, <2>2
    DEF Sampling!Next, Sampling!vars, Sampling!Run, Sampling!Begin, Sampling!End
<1>2. ASSUME SamplingInv, [Sampling!Next]_(Sampling!vars)
      PROVE  Sampling!Sampled => \A p \in Sampling!AllPids :
               snapshot'.cpu[p] * (prevTotal' - prevTotal) <= 100 * ran[p]
  BY <1>1, <1>2, SampleTaken DEF Sampled
<1>3. ASSUME SamplingInv, [Sampling!Next]_(Sampling!vars)
      PROVE  Sampling!Sampled /\ ~churn.ended =>
               /\ Sampling!Shares <= snapshot'.total
               /\ ~churn.started =>
                    snapshot'.total - Sampling!Shares <= Sampling!Cardinality(SampledPids)
  BY <1>1, <1>3, SampleTaken, SamplingConstants
<1>4. SamplingInv => Sampling!TypeOK
  BY DEF SamplingInv
<1>. QED
  BY <1>2, <1>3, <1>4, SamplingInitially, SamplingPreserved, PTL
  DEF Sampling!Spec, Sampling!ChargedForItsOwn, Sampling!SharesAddUp

-----------------------------------------------------------------------------
(* The camera engines: what CameraEngine_proofs shows, for the variables   *)
(* they have here.                                                         *)
EngineProofs == INSTANCE CameraEngine_proofs
                  WITH at <- toolboxAt, started <- engineStarted, page <- cameraPage,
                       shown <- engineShown, parent <- creator

THEOREM EnginesAreSound == Control!Spec => [](Control!TypeOK /\ Control!OneEngineEach)
<1>1. EngineProofs!ProcessesOK
  BY ConstantsAssumption DEF EngineProofs!ProcessesOK, EngineProofs!None, Control!None
<1>2. EngineProofs!Spec => [](EngineProofs!TypeOK /\ EngineProofs!OneEngineEach)
  BY <1>1, EngineProofs!EnginesHeld
<1>3. Control!Init => EngineProofs!Init
  BY DEF Control!Init, EngineProofs!Init, Control!None, EngineProofs!None
<1>4. [Control!Next]_(Control!vars) => [EngineProofs!Next]_(EngineProofs!vars)
  BY DEF Control!Go, EngineProofs!Go, Control!OpenParams, EngineProofs!OpenParams,
         Control!Writing, EngineProofs!Writing, Control!FileSaysRunning,
         EngineProofs!FileSaysRunning, Control!Live, EngineProofs!Live, Control!Alive,
         EngineProofs!Alive, Control!Ended, EngineProofs!Ended, Control!AfterStop,
         EngineProofs!AfterStop, Control!None, EngineProofs!None, Control!Move,
         EngineProofs!Move, Control!MayRun, EngineProofs!MayRun, Control!toolboxVars,
         EngineProofs!toolboxVars, Control!engineVars, EngineProofs!engineVars,
         Control!vars, EngineProofs!vars, Control!Launch, EngineProofs!Launch,
         Control!TurnPage, EngineProofs!TurnPage, Control!StartBegin,
         EngineProofs!StartBegin, Control!StartFill, EngineProofs!StartFill,
         Control!Spawn, EngineProofs!Spawn, Control!UpdateBegin,
         EngineProofs!UpdateBegin, Control!UpdateFill, EngineProofs!UpdateFill,
         Control!StopBegin, EngineProofs!StopBegin, Control!StopFill,
         EngineProofs!StopFill, Control!StopWait, EngineProofs!StopWait, Control!Exit,
         EngineProofs!Exit, Control!Crash, EngineProofs!Crash, Control!Poll,
         EngineProofs!Poll, Control!EngineLoad, EngineProofs!EngineLoad,
         Control!EngineOpen, EngineProofs!EngineOpen, Control!EngineCheck,
         EngineProofs!EngineCheck, Control!EngineWork, EngineProofs!EngineWork,
         Control!EngineWrite, EngineProofs!EngineWrite, Control!Age, EngineProofs!Age,
         Control!InCall, EngineProofs!InCall, Control!Request, EngineProofs!Request,
         Control!Engine, EngineProofs!Engine, Control!Over, EngineProofs!Over,
         Control!Next, EngineProofs!Next
<1>5. EngineProofs!TypeOK /\ EngineProofs!OneEngineEach
        => Control!TypeOK /\ Control!OneEngineEach
  BY DEF Control!None, EngineProofs!None, Control!Live, EngineProofs!Live,
         Control!Alive, EngineProofs!Alive, Control!Ended, EngineProofs!Ended,
         Control!Places, EngineProofs!Places, Control!EngineStates,
         EngineProofs!EngineStates, Control!TypeOK, EngineProofs!TypeOK,
         Control!OneEngineEach, EngineProofs!OneEngineEach
<1>. QED
  BY <1>2, <1>3, <1>4, <1>5, PTL DEF Control!Spec, EngineProofs!Spec

-----------------------------------------------------------------------------
(* All of them together, one in focus: every component behaves as its own  *)
(* specification says.                                                     *)
THEOREM ComposedSystem ==
  MCSpec =>
    /\ Spec /\ Startup!Spec /\ Service!Spec /\ Sampling!Spec /\ Process!Spec /\ Tree!Spec
    /\ Usb!Spec /\ Camera!Spec /\ Control!Spec /\ [](focus \in Components)
<1>1. MCInit =>
        /\ Init /\ Startup!Init /\ Service!Init /\ Sampling!Init /\ Process!Init
        /\ Tree!Init /\ Usb!Init /\ Camera!Init /\ Control!Init /\ focus \in Components
  BY DEF MCInit
<1>2. [MCNext]_mcVars => [Next]_vars
  BY DEF MCNext, mcVars, Of
<1>3. [MCNext]_mcVars => [Startup!Next]_(Startup!vars)
  BY DEF MCNext, mcVars, Of, startupVars, Startup!vars, Startup!store, Startup!page,
         Startup!operation
<1>4. [MCNext]_mcVars => [Service!Next]_(Service!vars)
  BY DEF MCNext, mcVars, Of, serviceVars, Service!vars, Service!service,
         Service!configuration, Service!thread
<1>5. [MCNext]_mcVars => [Sampling!Next]_(Sampling!vars)
  BY DEF MCNext, mcVars, Of, samplingVars, Sampling!vars
<1>6. [MCNext]_mcVars => [Process!Next]_(Process!vars)
  BY DEF MCNext, mcVars, Of, processVars, Process!vars, Process!system, Process!walk
<1>7. [MCNext]_mcVars => [Tree!Next]_(Tree!treeVars)
  BY DEF MCNext, mcVars, Of, treeVars, Tree!treeVars
<1>8. [MCNext]_mcVars => [Usb!Next]_(Usb!usbVars)
  BY DEF MCNext, mcVars, Of, usbVars, Usb!usbVars
<1>9. [MCNext]_mcVars => [Camera!Next]_(Camera!cameraVars)
  BY DEF MCNext, mcVars, Of, cameraVars, Camera!cameraVars
<1>10. [MCNext]_mcVars => [Control!Next]_(Control!vars)
  BY DEF MCNext, mcVars, Of, engineVars, Control!vars, Control!toolboxVars,
         Control!engineVars
<1>11. focus \in Components /\ [MCNext]_mcVars => (focus \in Components)'
  BY DEF MCNext, mcVars, Of, Components
<1>. QED
  BY <1>1, <1>2, <1>3, <1>4, <1>5, <1>6, <1>7, <1>8, <1>9, <1>10, <1>11,
     PTL
  DEF MCSpec, Spec, Startup!Spec, Service!Spec, Sampling!Spec, Process!Spec, Tree!Spec,
      Usb!Spec, Camera!Spec, Control!Spec

(* Nothing is lost of the startup items and cameras but what the user      *)
(* picked.                                                                 *)
THEOREM NothingElseLostAlways == MCSpec => NothingElseLost
BY ComposedSystem, StartupIsSound, CameraIsSound DEF NothingElseLost

(* What an operation reports as done has been done.                        *)
THEOREM ReportIsTrueAlways == MCSpec => ReportIsTrue
BY ComposedSystem, StartupIsSound, ServiceIsSound, ProcessIsSound, RestartIsHonestAlways,
   CameraIsSound
DEF ReportIsTrue

(* The configuration shown of a service is no older than the cache allows. *)
THEOREM ShownConfigAlways == MCSpec => ShownConfigIsRecent
BY ComposedSystem, ServiceIsSound DEF ShownConfigIsRecent

(* A tree of processes is ended from its leaves.                           *)
THEOREM ChildrenFirstAlways == MCSpec => ChildrenFirst
BY ComposedSystem, ProcessIsSound DEF ChildrenFirst

(* The process page and the USB page show each process and each device     *)
(* they have to, once.                                                     *)
THEOREM EachDrawnOnceAlways == MCSpec => []EachDrawnOnce
BY ComposedSystem, TreeShowsAlways, UsbShowsAlways, PTL DEF EachDrawnOnce

(* No process is charged for another, and the shares add up to the total.  *)
THEOREM SharesAlways == MCSpec => SharesAreSound
BY ComposedSystem, SamplingIsSound DEF SharesAreSound

(* The component in focus keeps its types, as all the others do.           *)
THEOREM TypesAlways == MCSpec => []TypesOK
BY ComposedSystem, MenuIsTyped, StartupIsSound, ServiceIsSound, SamplingIsSound,
   ProcessIsSound, TreeIsTyped, UsbIsTyped, CameraIsSound, EnginesAreSound, PTL
DEF TypesOK

(* The menu acts on the process its title named.                           *)
THEOREM MenuHitsAlways == MCSpec => []HitsWhatWasNamed
BY ComposedSystem, HitsWhatWasNamedAlways

(* Of any number of toolboxes each holds the only camera engine it has.    *)
THEOREM OneEngineEachAlways == MCSpec => []OneEngineEach
BY ComposedSystem, EnginesAreSound, PTL DEF OneEngineEach
==============================================================================
