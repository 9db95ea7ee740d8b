-------------------------------- MODULE Icons --------------------------------
(***************************************************************************)
(* The icons of the process page: ProcessProvider extracts some with each  *)
(* refresh and publishes those it has; the page's IconCache makes a view   *)
(* of each, and lets some go when there are too many.                      *)
(*                                                                         *)
(* A view is drawn from the moment its row is until the frame is rendered. *)
(***************************************************************************)
EXTENDS Naturals, FiniteSets

CONSTANTS Programs,  (* the names of programs                              *)
          MaxIcons,  (* kMaxIconsPerRefresh                                *)
          MaxCached  (* kMaxCachedIcons                                    *)

VARIABLES
  extracted, (* iconCache: the names tried, and whether there is an icon   *)
  published, (* m_icons                                                    *)
  views,     (* m_textures                                                 *)
  drawn,     (* the views the frame draws                                  *)
  iconsAt    (* what the frame does next: update, rows, render             *)

iconVars == <<extracted, published, views, drawn, iconsAt>>

Init ==
  /\ extracted = [n \in {} |-> TRUE] /\ published = {}
  /\ views = {} /\ drawn = {} /\ iconsAt = "update"

Tried == DOMAIN extracted

-----------------------------------------------------------------------------

(* The names a refresh may try: new ones, as many as MaxIcons succeed.  A  *)
(* name that failed is not tried again.                                    *)
MayTry(got, failed) ==
  (got \cup failed) \cap Tried = {} /\ Cardinality(got) <= MaxIcons

(* refresh(): the names of the processes that can be opened are tried in   *)
(* turn until MaxIcons have been found; the icon of each is its program's, *)
(* or what Windows has for its name, or none.                              *)
Refresh ==
  \E opened \in SUBSET Programs : \E got, failed \in SUBSET opened :
    /\ got \cap failed = {} /\ MayTry(got, failed)
    /\ Cardinality(got) < MaxIcons => opened \ Tried = got \cup failed
    /\ extracted' = [n \in Tried \cup got \cup failed |->
                       IF n \in got THEN TRUE ELSE n \in Tried /\ extracted[n]]
    /\ published' = {n \in DOMAIN extracted' : extracted'[n]}
    /\ UNCHANGED <<views, drawn, iconsAt>>

(* IconCache::update: a view of each new icon, unless it cannot be made;   *)
(* then some go, in the order of the map.                                  *)
Update ==
  /\ iconsAt = "update" /\ iconsAt' = "rows"
  /\ \E new \in SUBSET published :
       IF Cardinality(views \cup new) <= MaxCached THEN views' = views \cup new
       ELSE \E kept \in SUBSET (views \cup new) :
              Cardinality(kept) = MaxCached /\ views' = kept
  /\ UNCHANGED <<extracted, published, drawn>>

Rows ==
  /\ iconsAt = "rows" /\ iconsAt' = "render"
  /\ \E visible \in SUBSET Programs : drawn' = visible \cap views
  /\ UNCHANGED <<extracted, published, views>>

Render ==
  /\ iconsAt = "render" /\ iconsAt' = "update"
  /\ drawn' = {}
  /\ UNCHANGED <<extracted, published, views>>

Next == Refresh \/ Update \/ Rows \/ Render

Spec == Init /\ [][Next]_iconVars

-----------------------------------------------------------------------------
(* Properties.                                                             *)

(* Types.                                                                  *)
TypeOK ==
  /\ Tried \subseteq Programs /\ extracted \in [Tried -> BOOLEAN]
  /\ published \subseteq Programs /\ views \subseteq Programs
  /\ drawn \subseteq Programs /\ iconsAt \in {"update", "rows", "render"}

(* A frame draws no view that has been released, and no more of them than  *)
(* MaxCached, however many programs have come and gone.                    *)
ViewsAlive == drawn \subseteq views /\ Cardinality(views) <= MaxCached
==============================================================================
