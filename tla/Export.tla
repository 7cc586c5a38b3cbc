--------------------------------- MODULE Export ---------------------------------
(***************************************************************************)
(* The section of the owner's panel that turns a dashboard into a brief or *)
(* a share link (frontend/src/panel.ts).  Each operation sets the section  *)
(* to loading, awaits one or two replies and renders; the selects and the  *)
(* boxes stay enabled meanwhile, so operations overlap.                    *)
(*                                                                         *)
(* Home Assistant (external) answers the questions for harvests in the     *)
(* order it got them, since build_dashboard_export runs in one go; the     *)
(* configuration of a dashboard and a new share are awaited from disk and  *)
(* may come in any order.                                                  *)
(*                                                                         *)
(* Abstracted: the scopes of an entity but one (controls), the brief, the  *)
(* list of dashboards, which stays.                                        *)
(***************************************************************************)
EXTENDS Naturals, Sequences

CONSTANTS
  Dashboards, Views,  \* Whole stands for all views of a dashboard
  Whole,
  Entities,
  Controllable,       \* those that are no sensors
  Nothing,            \* no value
  MaxPicks,           \* bound: operations of the owner
  Shows(_, _)         \* what is harvested (external): the entities of a view

ASSUME ExportAssumption ==
  /\ Controllable \subseteq Entities /\ Whole \notin Views /\ MaxPicks \in Nat
  /\ Nothing \notin Dashboards
  /\ \A d \in Dashboards, v \in Views : Shows(d, v) \subseteq Entities

VARIABLES
  picked,     \* _selectedDashboardIndex, with _exportConfig
  view,       \* _selectedViewIndex
  result,     \* _exportResult: where it is from, its entities and which are selected
  chosen,     \* _selectedEntities
  acting,     \* _selectedActionEntities
  loading,    \* _exportLoading
  error,      \* _exportError is set
  url,        \* _exportShareUrl: the manifest of the share behind it
  configs,    \* configurations asked for, with the number of the pick
  harvests,   \* harvests asked for, in order
  shares,     \* shares asked for, with their manifests
  picks,      \* operations so far
  crossed,    \* history: an operation began while another was under way
  lost        \* history: a dashboard was left while one was loading, or a harvest failed

asked == <<configs, harvests, shares>>
evars == <<picked, view, result, chosen, acting, loading, error, url, asked, picks, crossed, lost>>

Of(d, v)  == IF v = Whole THEN UNION {Shows(d, w) : w \in Views} ELSE Shows(d, v)
Busy      == configs # {} \/ harvests # <<>> \/ shares # {}
Counts    == picks < MaxPicks /\ picks' = picks + 1
Crosses   == crossed' = (crossed \/ Busy)

\* previewManifest
Manifest ==
  [read |-> result.selected, act |-> acting \cap result.selected \cap Controllable]

-----------------------------------------------------------------------------
(* Choosing what to harvest. *)

PickDashboard(d) ==
  /\ Counts
  /\ loading' = TRUE /\ error' = FALSE
  /\ configs' = configs \cup {<<picks, d>>}
  /\ Crosses
  /\ UNCHANGED <<picked, view, result, chosen, acting, url, harvests, shares, lost>>

LeaveDashboard ==
  /\ picked # Nothing /\ Counts
  /\ picked' = Nothing /\ result' = Nothing
  /\ Crosses
  /\ lost' = (lost \/ Busy)
  /\ UNCHANGED <<view, chosen, acting, loading, error, url, asked>>

Harvest(why, d, v, entities) ==
  harvests' = Append(harvests, [why |-> why, of |-> <<d, v>>, entities |-> entities])

\* mutant of ConfigArrives: the view of the dashboard before stays selected
ConfigArrivesKeeping(c) ==
  /\ configs' = configs \ {c}
  /\ picked' = c[2]
  /\ Harvest("dashboard", c[2], Whole, Entities)
  /\ UNCHANGED <<view, result, chosen, acting, loading, error, url, shares, picks, crossed, lost>>

ConfigArrives(c) ==
  /\ configs' = configs \ {c}
  /\ picked' = c[2] /\ view' = Whole
  /\ Harvest("dashboard", c[2], Whole, Entities)
  /\ UNCHANGED <<result, chosen, acting, loading, error, url, shares, picks, crossed, lost>>

ConfigFails(c) ==
  /\ configs' = configs \ {c}
  /\ error' = TRUE /\ result' = Nothing /\ loading' = FALSE
  /\ UNCHANGED <<picked, view, chosen, acting, url, harvests, shares, picks, crossed, lost>>

PickView(v) ==
  /\ picked # Nothing /\ v # view /\ Counts
  /\ view' = v /\ loading' = TRUE
  /\ Harvest("view", picked, v, Entities)
  /\ Crosses
  /\ UNCHANGED <<picked, result, chosen, acting, error, url, configs, shares, lost>>

\* refreshExportPreview for a dashboard or a view, the end of
\* downloadDashboardBrief for a brief.
HarvestArrives ==
  /\ harvests # <<>> /\ harvests' = Tail(harvests)
  /\ Head(harvests).of[1] # Nothing
  /\ LET h == Head(harvests)
         all == Of(h.of[1], h.of[2]) IN
       /\ result' = [of |-> h.of, all |-> all, selected |-> all \cap h.entities]
       /\ chosen' = all \cap h.entities
       /\ IF h.why = "brief" THEN UNCHANGED <<url, acting>> ELSE url' = Nothing /\ acting' = {}
  /\ loading' = FALSE
  /\ UNCHANGED <<picked, view, error, configs, shares, picks, crossed, lost>>

HarvestFails ==
  /\ harvests # <<>> /\ harvests' = Tail(harvests)
  /\ error' = TRUE /\ loading' = FALSE
  /\ result' = IF Head(harvests).why = "dashboard" THEN Nothing ELSE result
  /\ lost' = (lost \/ Head(harvests).why = "view")
  /\ UNCHANGED <<picked, view, chosen, acting, url, configs, shares, picks, crossed>>

-----------------------------------------------------------------------------
(* Choosing entities. *)

Flip(S, e, on) == IF on THEN S \cup {e} ELSE S \ {e}

\* mutant of ToggleEntity: the copy that the brief is made from is forgotten
ToggleShownEntity(e) ==
  /\ result # Nothing /\ e \in result.all /\ Counts
  /\ LET on == e \notin result.selected IN
       /\ result' = [result EXCEPT !.selected = Flip(@, e, on)]
       /\ acting' = IF on THEN acting ELSE acting \ {e}
  /\ url' = Nothing
  /\ Crosses
  /\ UNCHANGED <<picked, view, chosen, loading, error, asked, lost>>

ToggleEntity(e) ==
  /\ result # Nothing /\ e \in result.all /\ Counts
  /\ LET on == e \notin result.selected IN
       /\ chosen' = Flip(chosen, e, on)
       /\ result' = [result EXCEPT !.selected = Flip(@, e, on)]
       /\ acting' = IF on THEN acting ELSE acting \ {e}
  /\ url' = Nothing
  /\ Crosses
  /\ UNCHANGED <<picked, view, loading, error, asked, lost>>

\* mutant of ToggleActionEntity: the link stays
ToggleActionQuietly(e) ==
  /\ result # Nothing /\ e \in result.selected \cap Controllable /\ Counts
  /\ acting' = IF e \in acting THEN acting \ {e} ELSE acting \cup {e}
  /\ Crosses
  /\ UNCHANGED <<picked, view, result, chosen, loading, error, url, asked, lost>>

ToggleActionEntity(e) ==
  /\ result # Nothing /\ e \in result.selected \cap Controllable /\ Counts
  /\ acting' = IF e \in acting THEN acting \ {e} ELSE acting \cup {e}
  /\ url' = Nothing
  /\ Crosses
  /\ UNCHANGED <<picked, view, result, chosen, loading, error, asked, lost>>

-----------------------------------------------------------------------------
(* The brief and the link. *)

Ready == result # Nothing /\ chosen # {} /\ ~loading

DownloadBrief ==
  /\ Ready /\ Counts
  /\ loading' = TRUE
  /\ Harvest("brief", picked, view, chosen)
  /\ Crosses
  /\ UNCHANGED <<picked, view, result, chosen, acting, error, url, configs, shares, lost>>

\* The number of uses may not be one.
RefuseShare ==
  /\ Ready /\ Counts
  /\ error' = TRUE
  /\ UNCHANGED <<picked, view, result, chosen, acting, loading, url, asked, crossed, lost>>

BuildShare ==
  /\ Ready /\ Counts
  /\ loading' = TRUE /\ error' = FALSE /\ url' = Nothing
  /\ shares' = shares \cup {<<picks, Manifest>>}
  /\ Crosses
  /\ UNCHANGED <<picked, view, result, chosen, acting, configs, harvests, lost>>

ShareArrives(m) ==
  /\ shares' = shares \ {m}
  /\ url' = m[2] /\ loading' = FALSE
  /\ UNCHANGED <<picked, view, result, chosen, acting, error, configs, harvests, picks, crossed, lost>>

ShareFails(m) ==
  /\ shares' = shares \ {m}
  /\ error' = TRUE /\ loading' = FALSE
  /\ UNCHANGED <<picked, view, result, chosen, acting, url, configs, harvests, picks, crossed, lost>>

-----------------------------------------------------------------------------
ExportInit ==
  /\ picked = Nothing /\ view = Whole /\ result = Nothing
  /\ chosen = {} /\ acting = {}
  /\ loading = FALSE /\ error = FALSE /\ url = Nothing
  /\ configs = {} /\ harvests = <<>> /\ shares = {}
  /\ picks = 0 /\ crossed = FALSE /\ lost = FALSE

ExportNext ==
  \/ \E d \in Dashboards : PickDashboard(d)
  \/ \E c \in configs : ConfigArrives(c) \/ ConfigFails(c)
  \/ \E v \in Views \cup {Whole} : PickView(v)
  \/ \E e \in Entities : ToggleEntity(e) \/ ToggleActionEntity(e)
  \/ \E m \in shares : ShareArrives(m) \/ ShareFails(m)
  \/ LeaveDashboard \/ HarvestArrives \/ HarvestFails
  \/ DownloadBrief \/ RefuseShare \/ BuildShare

ExportSpec == ExportInit /\ [][ExportNext]_evars

-----------------------------------------------------------------------------
\* Both copies of the selection agree whatever overlaps: what a brief is made
\* from (chosen) and what a link grants and the boxes show (result).
SelectionAgrees == result # Nothing => chosen = result.selected

\* At rest the preview is that of the dashboard and view in the selects, in
\* whatever order replies came for those picked before (unless a dashboard was
\* left while something was loading, or the harvest of a view failed).
PreviewIsPicked ==
  (~Busy /\ ~lost /\ result # Nothing) => result.of = <<picked, view>>

\* A link that is shown grants what the boxes below it say, as long as
\* the owner waits for each operation to end (and no harvest of a view failed).
LinkAsSelected == (~crossed /\ ~lost /\ result # Nothing /\ url # Nothing) => url = Manifest
=============================================================================
