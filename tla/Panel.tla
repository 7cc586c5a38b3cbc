--------------------------------- MODULE Panel ---------------------------------
(***************************************************************************)
(* The owner's panel (frontend/src/panel.ts): one pending request with its *)
(* wizard, one grant with its restrictions.  Every render writes the whole *)
(* page anew, so what stands in the page only (ticks, expiry, opened rows) *)
(* is lost with each: after a load, and when the revoke dialog opens.      *)
(*                                                                         *)
(* The store is that of the authority (external here): commands and reads  *)
(* are served in the order they were sent, and a change is announced to    *)
(* who has subscribed.  A load has two awaits: the replies of the store,   *)
(* then the list of dashboards.                                            *)
(*                                                                         *)
(* Abstracted: what a scope or a restriction says, audit, search, layout.  *)
(***************************************************************************)
EXTENDS Naturals, Sequences, SequencesExt, FiniteSets

CONSTANTS
  Scopes,      \* permissions of the request
  Rules,       \* restrictions the grant may have
  None,        \* no value
  MaxVersion,  \* bound: changes of the store
  MaxClicks,   \* bound: commands of the owner
  MaxLoads,    \* bound: loads under way
  MaxAttach    \* bound: times the panel is attached

ASSUME PanelAssumption ==
  {MaxVersion, MaxClicks, MaxLoads, MaxAttach} \subseteq Nat

Expiries == {"none", "hour", "custom"}
Switch   == {"on", "off"} \X (0..1)      \* a restriction: its switch, and its parameters
Lists    == UNION {[D -> Switch] : D \in SUBSET Rules}
Store    == [version : 0..MaxVersion, request : {"none", "pending", "decided"},
             grant : {"active", "revoked", "deleted"}, rules : Lists]

VARIABLES
  store,     \* requests, grants and restrictions as the authority has them
  notices,   \* announcements of changes under way to the panel
  commands,  \* commands sent and not served
  replies,   \* replies to commands under way
  loads,     \* load() under way, oldest first: None or what the store replied
  shown,     \* _lastState; None is {loading: true}
  told,      \* history: the version of the store when the panel last heard of a change
  failed,    \* history: the load that began last was rejected
  attached, attachments, loaded, promise, unsub,  \* _subscribePromise, _eventUnsub are set
  asking,    \* subscriptions asked for, neither confirmed nor refused
  feeds,     \* subscriptions the connection has
  refused,   \* history: a subscription was refused, and hass not set since
  step,      \* _step
  ticked, expiry, custom,    \* the page: boxes, the chip, whether a time is set
  summary,   \* the page: what the box on the last page says
  confirm, dialog,           \* _confirmRevoke, and whether the page shows the dialog
  deleting,  \* the page: the confirmation of a deletion
  busy,      \* the page: buttons of restrictions that are disabled (<<"new">>: of the form)
  clicks,    \* commands so far
  will,      \* history: the restrictions as the owner has clicked them together
  hasty      \* history: a restriction was clicked while the panel was not at rest

data  == <<store, notices, commands, replies>>
link  == <<attached, attachments, promise, unsub, asking, feeds, refused>>
page  == <<ticked, expiry, custom, summary, dialog, deleting, busy>>
own   == <<clicks, will, hasty>>
pvars == <<data, loads, shown, told, failed, link, loaded, step, page, confirm, own>>

-----------------------------------------------------------------------------
(* Loading and rendering. *)

Label(e, c) == IF e = "custom" THEN IF c THEN "at" ELSE "unset" ELSE e

\* stepPermissions and stepDuration: every box ticked, no expiry.
FreshBoxes == ticked' = Scopes
FreshExpiry ==
  expiry' = "none" /\ custom' = FALSE /\ summary' = <<Scopes, "none">>

\* render(): the page anew.
Render(s, c) ==
  /\ shown' = s
  /\ FreshBoxes /\ FreshExpiry
  /\ confirm' = c /\ dialog' = (c /\ s # None)
  /\ deleting' = FALSE /\ busy' = {}

\* mutant of Load: not while another load is under way
LoadOnce ==
  /\ loads' = IF loads = <<>> THEN <<None>> ELSE loads
  /\ loaded' = TRUE /\ failed' = FALSE

\* load() up to its first await.
Load ==
  /\ Len(loads) < MaxLoads
  /\ loads' = Append(loads, None)
  /\ loaded' = TRUE /\ failed' = FALSE

\* Requests are answered in their order, with an error or not.
FirstPending(i) == loads[i] = None /\ \A j \in 1..i - 1 : loads[j] # None

ReadServed ==
  /\ \E i \in DOMAIN loads : FirstPending(i) /\ loads' = [loads EXCEPT ![i] = store]
  /\ UNCHANGED <<data, shown, told, failed, link, loaded, step, page, confirm, own>>

\* The end of load(): the list of dashboards is there, or could not be had.
Loaded ==
  /\ loads # <<>> /\ Head(loads) # None
  /\ loads' = Tail(loads)
  /\ Render(Head(loads), confirm)
  /\ UNCHANGED <<data, told, failed, link, loaded, step, own>>

\* One of the reads is rejected; earlier loads may still wait for the dashboards.
LoadFails ==
  /\ \E i \in DOMAIN loads :
       /\ FirstPending(i)
       /\ loads' = RemoveAt(loads, i)
       /\ failed' = (failed \/ i = Len(loads))
  /\ UNCHANGED <<data, shown, told, link, loaded, step, page, confirm, own>>

-----------------------------------------------------------------------------
(* The element and its subscription. *)

\* subscribe()
Subscribe ==
  IF unsub \/ promise
    THEN UNCHANGED <<asking, promise>>
    ELSE asking' = asking + 1 /\ promise' = TRUE

\* set hass on a panel that is on the page.  What was loaded is not loaded again.
SetHass ==
  /\ attached
  /\ Subscribe /\ refused' = FALSE
  /\ UNCHANGED <<data, loads, shown, told, failed, attached, attachments, unsub, feeds, loaded, step,
                 page, confirm, own>>

\* connectedCallback; hass is set before.  A panel that Home Assistant takes
\* out of the page while it is hidden is attached again.
Attach ==
  /\ ~attached /\ attachments < MaxAttach
  /\ attached' = TRUE /\ attachments' = attachments + 1
  /\ Render(None, confirm)
  /\ Subscribe /\ refused' = FALSE
  /\ IF loaded THEN UNCHANGED <<loads, loaded, failed>> ELSE Load
  /\ UNCHANGED <<data, told, unsub, feeds, step, own>>

Subscribed ==
  /\ asking > 0
  /\ asking' = asking - 1 /\ feeds' = feeds + 1
  /\ unsub' = TRUE /\ promise' = FALSE
  /\ UNCHANGED <<data, loads, shown, told, failed, attached, attachments, refused, loaded, step,
                 page, confirm, own>>

\* It is refused, which nobody is told.
SubscribeFails ==
  /\ asking > 0
  /\ asking' = asking - 1 /\ promise' = FALSE /\ refused' = TRUE
  /\ UNCHANGED <<data, loads, shown, told, failed, attached, attachments, unsub, feeds, loaded, step,
                 page, confirm, own>>

\* disconnectedCallback
Detach ==
  /\ attached /\ attached' = FALSE
  /\ feeds' = IF unsub THEN feeds - 1 ELSE feeds
  /\ notices' = IF feeds' = 0 THEN 0 ELSE notices
  /\ unsub' = FALSE /\ promise' = FALSE
  /\ UNCHANGED <<store, commands, replies, loads, shown, told, failed, attachments, asking, refused,
                 loaded, step, page, confirm, own>>

\* The callback of the subscription.
Noticed ==
  /\ notices > 0 /\ notices' = notices - 1
  /\ told' = store.version
  /\ Load
  /\ UNCHANGED <<store, commands, replies, shown, link, step, page, confirm, own>>

-----------------------------------------------------------------------------
(* The store. *)

Changes(s) ==
  /\ store.version < MaxVersion
  /\ store' = [s EXCEPT !.version = store.version + 1]
  /\ notices' = notices + feeds

\* A consumer files a request; it is dropped, or decided elsewhere; the store
\* changes in what is not shown here.
Elsewhere ==
  /\ \/ store.request = "none" /\ Changes([store EXCEPT !.request = "pending"])
     \/ store.request = "pending" /\ Changes([store EXCEPT !.request = "decided"])
     \/ Changes(store)
  /\ UNCHANGED <<commands, replies, loads, shown, told, failed, link, loaded, step, page, confirm,
                 own>>

\* Whether the authority finds what the command names.
Finds(m) ==
  IF m[1] \in {"approve", "reject"} THEN store.request # "none" ELSE store.grant # "deleted"

Effect(m) ==
  CASE m[1] \in {"approve", "reject"} -> [store EXCEPT !.request = "decided"]
    [] m[1] = "revoke"                -> [store EXCEPT !.grant = "revoked"]
    [] m[1] = "delete"                -> [store EXCEPT !.grant = "deleted"]
    [] m[1] = "restrict"              -> [store EXCEPT !.rules = m[2]]

CommandServed ==
  /\ commands # <<>> /\ commands' = Tail(commands)
  /\ IF Finds(Head(commands))
       THEN Changes(Effect(Head(commands))) /\ replies' = replies + 1
       ELSE UNCHANGED <<store, notices, replies>>  \* an error: the call ends
  /\ UNCHANGED <<loads, shown, told, failed, link, loaded, step, page, confirm, own>>

\* mutant of Replied: leaves the load to the announcement of the change
RepliedOnly ==
  /\ replies > 0 /\ replies' = replies - 1
  /\ UNCHANGED <<store, notices, commands, loads, shown, told, failed, link, loaded, step, page,
                 confirm, own>>

\* The rest of call().
Replied ==
  /\ replies > 0 /\ replies' = replies - 1
  /\ told' = store.version
  /\ Load
  /\ UNCHANGED <<store, notices, commands, shown, link, step, page, confirm, own>>

-----------------------------------------------------------------------------
(* The wizard of a request. *)

\* The dialog covers the page.
OnPage   == attached /\ shown # None /\ ~dialog
Wizard   == OnPage /\ shown.request = "pending"
GrantRow == OnPage /\ shown.grant # "deleted"
Editable == OnPage /\ shown.grant = "active"

Send(m) ==
  /\ clicks < MaxClicks /\ clicks' = clicks + 1
  /\ commands' = Append(commands, m)

\* updateApproveSummary
Summarise == summary' = <<ticked, Label(expiry', custom')>>

\* mutant of SetStep: the last page is not brought up to date
SetStepSilently(n) == step' = n /\ UNCHANGED <<summary, expiry, custom>>

SetStep(n) ==
  /\ step' = n /\ UNCHANGED <<expiry, custom>>
  /\ IF n = 3 THEN Summarise ELSE UNCHANGED summary

StepTo ==
  /\ Wizard
  /\ \E n \in {step - 1, step + 1} \cap (1..3) : SetStep(n)
  /\ UNCHANGED <<data, loads, shown, told, failed, link, loaded, ticked, dialog, deleting, busy,
                 confirm, own>>

\* A box; select all; deselect all.
Tick ==
  /\ Wizard /\ step = 2
  /\ ticked' \in {Scopes, {}} \cup {ticked \cup {p} : p \in Scopes} \cup {ticked \ {p} : p \in Scopes}
  /\ UNCHANGED <<data, loads, shown, told, failed, link, loaded, step, expiry, custom, summary,
                 dialog, deleting, busy, confirm, own>>

\* A chip, or a time of one's own.
Chip ==
  /\ Wizard /\ step = 3
  /\ \/ expiry' \in Expiries /\ UNCHANGED custom
     \/ expiry = "custom" /\ custom' = TRUE /\ UNCHANGED expiry
  /\ Summarise
  /\ UNCHANGED <<data, loads, shown, told, failed, link, loaded, step, ticked, dialog, deleting,
                 busy, confirm, own>>

Still == UNCHANGED <<store, notices, replies, loads, shown, told, failed, link, loaded, step, confirm>>

Approve ==
  /\ Wizard /\ step = 3
  /\ Label(expiry, custom) # "unset"
  /\ Send(<<"approve", ticked, Label(expiry, custom)>>)
  /\ Still /\ UNCHANGED <<page, will, hasty>>

Reject ==
  /\ Wizard /\ step \in {1, 3}
  /\ Send(<<"reject">>)
  /\ Still /\ UNCHANGED <<page, will, hasty>>

-----------------------------------------------------------------------------
(* The grant. *)

\* The dialog opens, or is left: the page is rendered.
Dialog ==
  /\ \/ Editable /\ Render(shown, TRUE)
     \/ attached /\ dialog /\ Render(shown, FALSE)
  /\ UNCHANGED <<data, loads, told, failed, link, loaded, step, own>>

\* The dialog stays on the page until the next render.
Revoke ==
  /\ attached /\ dialog
  /\ confirm' = FALSE
  /\ Send(<<"revoke">>)
  /\ UNCHANGED <<store, notices, replies, loads, shown, told, failed, link, loaded, step, page,
                 will, hasty>>

AskDelete ==
  /\ GrantRow /\ <<"delete">> \notin busy
  /\ deleting' = ~deleting
  /\ UNCHANGED <<data, loads, shown, told, failed, link, loaded, step, ticked, expiry, custom,
                 summary, dialog, busy, confirm, own>>

Delete ==
  /\ OnPage /\ deleting /\ <<"delete">> \notin busy
  /\ busy' = busy \cup {<<"delete">>}
  /\ Send(<<"delete">>)
  /\ Still /\ UNCHANGED <<ticked, expiry, custom, summary, dialog, deleting, will, hasty>>

\* The whole list is sent, made from the one that is shown; what the owner means
\* is the same change of the list as clicked together so far.
SendRules(sent, meant) ==
  /\ Send(<<"restrict", sent>>)
  /\ hasty' = (hasty \/ commands # <<>> \/ replies > 0 \/ loads # <<>> \/ failed)
  /\ will' = IF hasty' THEN <<>> ELSE meant
  /\ Still /\ UNCHANGED <<ticked, expiry, custom, summary, dialog, deleting>>

Put(list, r, v)    == [x \in DOMAIN list \cup {r} |-> IF x = r THEN v ELSE list[x]]
Switched(list, r)  == Put(list, r, <<IF list[r][1] = "on" THEN "off" ELSE "on", list[r][2]>>)
Edited(list, r)    == Put(list, r, <<list[r][1], 1 - list[r][2]>>)
Without(list, r)   == [x \in DOMAIN list \ {r} |-> list[x]]

Row(r, button) ==
  /\ Editable /\ r \in DOMAIN shown.rules /\ <<button, r>> \notin busy

AddRule(r) ==
  /\ Editable /\ r \notin DOMAIN shown.rules /\ <<"new">> \notin busy
  /\ busy' = busy \cup {<<"new">>}
  /\ SendRules(Put(shown.rules, r, <<"on", 0>>), Put(will, r, <<"on", 0>>))

ToggleRule(r) ==
  /\ Row(r, "toggle")
  /\ busy' = busy \cup {<<"toggle", r>>}
  /\ SendRules(Switched(shown.rules, r), Switched(will, r))

EditRule(r) ==
  /\ Row(r, "edit")
  /\ busy' = busy \cup {<<"edit", r>>}
  /\ SendRules(Edited(shown.rules, r), Edited(will, r))

RemoveRule(r) ==
  /\ Row(r, "remove")
  /\ SendRules(Without(shown.rules, r), Without(will, r))
  /\ UNCHANGED busy

-----------------------------------------------------------------------------
PanelInit ==
  /\ \E q \in {"none", "decided"}, g \in {"active", "deleted"} :
       store = [version |-> 0, request |-> q, grant |-> g, rules |-> <<>>]
  /\ notices = 0 /\ commands = <<>> /\ replies = 0 /\ loads = <<>>
  /\ shown = None /\ told = 0 /\ failed = FALSE
  /\ attached = FALSE /\ attachments = 0 /\ loaded = FALSE
  /\ promise = FALSE /\ unsub = FALSE /\ asking = 0 /\ feeds = 0 /\ refused = FALSE
  /\ step = 1 /\ ticked = Scopes /\ expiry = "none" /\ custom = FALSE
  /\ summary = <<Scopes, "none">>
  /\ confirm = FALSE /\ dialog = FALSE /\ deleting = FALSE /\ busy = {}
  /\ clicks = 0 /\ will = <<>> /\ hasty = FALSE

PanelNext ==
  \/ ReadServed \/ Loaded \/ LoadFails
  \/ Attach \/ SetHass \/ Subscribed \/ SubscribeFails \/ Detach \/ Noticed
  \/ Elsewhere \/ CommandServed \/ Replied
  \/ StepTo \/ Tick \/ Chip \/ Approve \/ Reject
  \/ Dialog \/ Revoke \/ AskDelete \/ Delete
  \/ \E r \in Rules : AddRule(r) \/ ToggleRule(r) \/ EditRule(r) \/ RemoveRule(r)

PanelSpec == PanelInit /\ [][PanelNext]_pvars

-----------------------------------------------------------------------------
PanelTypeOK ==
  /\ store \in Store /\ shown \in Store \cup {None}
  /\ \A i \in DOMAIN loads : loads[i] \in Store \cup {None}
  /\ notices \in Nat /\ replies \in Nat /\ asking \in Nat /\ feeds \in Nat
  /\ told \in Nat /\ clicks \in Nat /\ attachments \in Nat
  /\ failed \in BOOLEAN /\ attached \in BOOLEAN /\ loaded \in BOOLEAN /\ promise \in BOOLEAN
  /\ unsub \in BOOLEAN /\ refused \in BOOLEAN /\ custom \in BOOLEAN /\ confirm \in BOOLEAN /\ dialog \in BOOLEAN
  /\ deleting \in BOOLEAN /\ hasty \in BOOLEAN
  /\ step \in 1..3 /\ ticked \subseteq Scopes /\ expiry \in Expiries
  /\ summary \in (SUBSET Scopes) \X {"none", "hour", "at", "unset"}
  /\ busy \subseteq {<<"new">>, <<"delete">>} \cup {"toggle", "edit"} \X Rules
  /\ will \in Lists

\* The owner is never told something else than what Approve would grant: on the
\* last page of the wizard the summary is what the boxes and the expiry say,
\* also after the page was rendered anew under the owner's hands.
SummaryTrue == Wizard /\ step = 3 => summary = <<ticked, Label(expiry, custom)>>

\* Restrictions are what the owner made of them click by click, if the panel
\* was at rest at each click and nobody else edits them: though each click
\* sends a whole list as it was shown, none brings an earlier one back.
RulesKept ==
  (~hasty /\ commands = <<>> /\ store.grant # "deleted") => store.rules = will

\* At rest, a panel that is on the page listens for changes, unless it was
\* refused since hass was last set; and it shows the store as it was at the last
\* change it heard of, or a later one, unless the load that began last was
\* rejected, or nothing was loaded since the panel was attached again.  Loads
\* overlap, and one may fail while an earlier one has yet to render.
Settled == notices = 0 /\ commands = <<>> /\ replies = 0 /\ asking = 0 /\ loads = <<>>
Current ==
  (attached /\ Settled)
    => /\ feeds > 0 \/ refused
       /\ failed \/ shown = None \/ shown.version >= told
=============================================================================
