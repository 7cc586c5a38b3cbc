----------------------------- MODULE Panel_proofs -----------------------------
(***************************************************************************)
(* What holds of the panel, of its export section and of the harvest that  *)
(* is exported, for any permissions, restrictions, bounds, dashboards,     *)
(* views and entities.                                                     *)
(* In the panel the summary stands by itself.  The rest is carried         *)
(* together: what is typed depends on what is fresh, since a click at rest *)
(* changes the restrictions that the store has (Fresh) into those the      *)
(* owner means (Willed).                                                   *)
(***************************************************************************)
EXTENDS Panel, Export, Lovelace, SequenceTheorems, WellFoundedInduction, TLAPS

Labels == {"none", "hour", "at", "unset"}

Commands ==
  {<<"reject">>, <<"revoke">>, <<"delete">>}
    \cup ({"approve"} \X (SUBSET Scopes) \X Labels) \cup ({"restrict"} \X Lists)

Typed ==
  /\ PanelTypeOK
  /\ loads \in Seq(Store \cup {None})
  /\ commands \in Seq(Commands)

\* A handle belongs to a subscription; who is on the page has one, or has asked,
\* or was refused.
Linked ==
  /\ unsub => feeds > 0
  /\ ~attached => ~promise
  /\ promise => asking > 0
  /\ attached => unsub \/ promise \/ refused

\* What is on the page, or what the load that began last brings to it, is as the
\* store has it, unless a reply that starts a load is under way, or that load
\* was rejected.
AsStored(s) == s = None \/ (s.rules = store.rules /\ s.grant = store.grant)
Fresh ==
  replies = 0 /\ ~failed
    => IF loads = <<>> THEN AsStored(shown) ELSE AsStored(loads[Len(loads)])

Timely(s) == s = None \/ s.version >= told
OnTime ==
  /\ store.version >= told
  /\ failed \/ IF loads = <<>> THEN Timely(shown) ELSE Timely(loads[Len(loads)])

\* The owner's restrictions are stored, or first in line.
Restricts(m) == m[1] = "restrict"
Willed ==
  ~hasty => /\ \A i \in 2..Len(commands) : ~Restricts(commands[i])
            /\ store.grant # "deleted"
                 => IF commands # <<>> /\ Restricts(commands[1])
                      THEN commands[1][2] = will
                      ELSE store.rules = will

PanelInv == Typed /\ Linked /\ Fresh /\ OnTime /\ Willed

-----------------------------------------------------------------------------
(* The summary. *)

Summed == step = 3 => summary = <<ticked, Label(expiry, custom)>>

\* On the last page of the wizard the summary says what Approve would grant,
\* however often the page is rendered anew (render, updateApproveSummary).
THEOREM SummaryHolds == PanelSpec => []SummaryTrue
<1>1. PanelInit => Summed BY DEF PanelInit, Summed
<1>2. Summed /\ [PanelNext]_pvars => Summed'
  <2> SUFFICES ASSUME Summed, [PanelNext]_pvars PROVE Summed' OBVIOUS
  <2> USE DEF Summed
  <2>1. ASSUME NEW s, NEW c, Render(s, c) PROVE summary' = <<ticked', Label(expiry', custom')>>
    BY <2>1 DEF Render, FreshBoxes, FreshExpiry, Label
  <2>2. CASE UNCHANGED pvars BY <2>2 DEF pvars, page
  <2>3. CASE Loaded BY <2>3, <2>1 DEF Loaded
  <2>4. CASE Attach BY <2>4, <2>1 DEF Attach
  <2>5. CASE Dialog BY <2>5, <2>1 DEF Dialog
  <2>6. CASE StepTo BY <2>6 DEF StepTo, SetStep, Summarise
  <2>7. CASE Tick BY <2>7 DEF Tick
  <2>8. CASE Chip BY <2>8 DEF Chip, Summarise
  <2>9. CASE ReadServed \/ LoadFails \/ SetHass \/ Subscribed \/ SubscribeFails \/ Detach \/ Noticed
    BY <2>9 DEF ReadServed, LoadFails, SetHass, Subscribed, SubscribeFails, Detach, Noticed, page
  <2>10. CASE Elsewhere \/ CommandServed \/ Replied \/ Approve \/ Reject
    BY <2>10 DEF Elsewhere, CommandServed, Replied, Approve, Reject, Still, page
  <2>11. CASE Revoke \/ AskDelete \/ Delete
    BY <2>11 DEF Revoke, AskDelete, Delete, Still, page
  <2>12. ASSUME NEW r \in Rules, AddRule(r) \/ ToggleRule(r) \/ EditRule(r) \/ RemoveRule(r)
         PROVE  Summed'
    BY <2>12 DEF AddRule, ToggleRule, EditRule, RemoveRule, SendRules, Still
  <2>13. QED
    BY <2>2, <2>3, <2>4, <2>5, <2>6, <2>7, <2>8, <2>9, <2>10, <2>11, <2>12 DEF PanelNext
<1>3. Summed => SummaryTrue BY DEF Summed, SummaryTrue
<1>4. QED BY <1>1, <1>2, <1>3, PTL DEF PanelSpec

-----------------------------------------------------------------------------
(* Sequences, lists of restrictions and the store. *)

LEMMA Lines ==
  ASSUME NEW S, NEW s \in Seq(S)
  PROVE  /\ Len(s) \in Nat
         /\ s = <<>> <=> Len(s) = 0
         /\ \A i \in 1..Len(s) : s[i] \in S
         /\ \A x \in S : /\ Append(s, x) \in Seq(S) /\ Append(s, x) # <<>>
                         /\ Len(Append(s, x)) = Len(s) + 1
                         /\ Append(s, x)[Len(s) + 1] = x
                         /\ \A i \in 1..Len(s) : Append(s, x)[i] = s[i]
         /\ s # <<>> => /\ Len(s) > 0 /\ Head(s) = s[1] /\ Head(s) \in S
                        /\ Tail(s) \in Seq(S) /\ Len(Tail(s)) = Len(s) - 1
                        /\ \A i \in 1..(Len(s) - 1) : Tail(s)[i] = s[i + 1]
         /\ \A i \in 1..Len(s), x \in S :
              /\ [s EXCEPT ![i] = x] \in Seq(S)
              /\ Len([s EXCEPT ![i] = x]) = Len(s)
              /\ \A j \in 1..Len(s) : [s EXCEPT ![i] = x][j] = IF j = i THEN x ELSE s[j]
<1>1. /\ Len(s) \in Nat
      /\ s = <<>> <=> Len(s) = 0
      /\ \A i \in 1..Len(s) : s[i] \in S
  OBVIOUS
<1>2. ASSUME NEW x \in S
      PROVE  /\ Append(s, x) \in Seq(S) /\ Append(s, x) # <<>>
             /\ Len(Append(s, x)) = Len(s) + 1
             /\ Append(s, x)[Len(s) + 1] = x
             /\ \A i \in 1..Len(s) : Append(s, x)[i] = s[i]
  OBVIOUS
<1>3. s # <<>> => /\ Len(s) > 0 /\ Head(s) = s[1] /\ Head(s) \in S
                  /\ Tail(s) \in Seq(S) /\ Len(Tail(s)) = Len(s) - 1
                  /\ \A i \in 1..(Len(s) - 1) : Tail(s)[i] = s[i + 1]
  OBVIOUS
<1>4. ASSUME NEW i \in 1..Len(s), NEW x \in S
      PROVE  /\ [s EXCEPT ![i] = x] \in Seq(S)
             /\ Len([s EXCEPT ![i] = x]) = Len(s)
             /\ \A j \in 1..Len(s) : [s EXCEPT ![i] = x][j] = IF j = i THEN x ELSE s[j]
  OBVIOUS
<1>5. QED BY <1>1, <1>2, <1>3, <1>4

\* One element less; the last one stays the last.
LEMMA Removed ==
  ASSUME NEW S, NEW s \in Seq(S), NEW i \in 1..Len(s)
  PROVE  /\ RemoveAt(s, i) \in Seq(S) /\ Len(RemoveAt(s, i)) = Len(s) - 1
         /\ i < Len(s) => RemoveAt(s, i)[Len(s) - 1] = s[Len(s)]
<1> DEFINE a == SubSeq(s, 1, i - 1)
           b == SubSeq(s, i + 1, Len(s))
<1>1. Len(s) \in Nat /\ i \in Nat /\ 1 <= i /\ i <= Len(s) OBVIOUS
<1>2. a \in Seq(S) /\ Len(a) = i - 1 BY <1>1, SubSeqProperties
<1>3. /\ b \in Seq(S) /\ Len(b) = Len(s) - i
      /\ \A k \in 1..(Len(s) - i) : b[k] = s[i + k]
  BY <1>1, SubSeqProperties
<1>4. RemoveAt(s, i) = a \o b BY DEF RemoveAt
<1> HIDE DEF a, b
<1>5. /\ a \o b \in Seq(S) /\ Len(a \o b) = Len(s) - 1
      /\ i < Len(s) => (a \o b)[Len(s) - 1] = b[Len(s) - i]
  BY <1>1, <1>2, <1>3
<1>6. i < Len(s) => b[Len(s) - i] = s[Len(s)]
  <2> SUFFICES ASSUME i < Len(s) PROVE b[Len(s) - i] = s[Len(s)] OBVIOUS
  <2>1. Len(s) - i \in 1..(Len(s) - i) /\ i + (Len(s) - i) = Len(s) BY <1>1
  <2>2. QED BY <1>3, <2>1
<1>7. QED BY <1>4, <1>5, <1>6

\* A list of restrictions is a function from some of the rules.
LEMMA ListOf ==
  ASSUME NEW l
  PROVE  l \in Lists <=> l \in [DOMAIN l -> Switch] /\ DOMAIN l \subseteq Rules
BY DEF Lists

LEMMA NoRules == <<>> \in Lists
<1>1. <<>> \in Seq(Switch) /\ Len(<<>>) = 0 OBVIOUS
<1>2. <<>> \in [1..0 -> Switch] /\ DOMAIN <<>> = 1..0 BY <1>1, LenProperties
<1>3. 1..0 = {} OBVIOUS
<1>4. QED BY <1>2, <1>3, ListOf

LEMMA RulesChange ==
  ASSUME NEW l \in Lists, NEW r \in Rules
  PROVE  /\ Put(l, r, <<"on", 0>>) \in Lists
         /\ r \in DOMAIN l => /\ Switched(l, r) \in Lists /\ Edited(l, r) \in Lists
                              /\ Without(l, r) \in Lists
<1>1. DOMAIN l \subseteq Rules /\ \A x \in DOMAIN l : l[x] \in Switch BY ListOf
<1>2. ASSUME NEW v \in Switch PROVE Put(l, r, v) \in Lists
  <2>1. /\ DOMAIN Put(l, r, v) = DOMAIN l \cup {r}
        /\ Put(l, r, v) \in [DOMAIN l \cup {r} -> Switch]
    BY <1>1, <1>2 DEF Put
  <2>2. QED BY <2>1, <1>1, ListOf
<1>3. <<"on", 0>> \in Switch BY DEF Switch
<1>4. ASSUME r \in DOMAIN l
      PROVE  /\ <<IF l[r][1] = "on" THEN "off" ELSE "on", l[r][2]>> \in Switch
             /\ <<l[r][1], 1 - l[r][2]>> \in Switch
  <2>1. l[r] \in Switch BY <1>1, <1>4
  <2>2. QED BY <2>1 DEF Switch
<1>5. Without(l, r) \in Lists
  <2>1. DOMAIN Without(l, r) = DOMAIN l \ {r} /\ Without(l, r) \in [DOMAIN l \ {r} -> Switch]
    BY <1>1 DEF Without
  <2>2. QED BY <2>1, <1>1, ListOf
<1>6. QED BY <1>2, <1>3, <1>4, <1>5 DEF Switched, Edited

\* A change is a new version of a store.
LEMMA NewVersion ==
  ASSUME store \in Store, NEW s \in Store, Changes(s)
  PROVE  /\ store' \in Store /\ store'.version = store.version + 1
         /\ store'.rules = s.rules /\ store'.grant = s.grant
BY PanelAssumption DEF Changes, Store

\* Only a restriction changes the rules, and a deleted grant stays deleted.
LEMMA EffectOf ==
  ASSUME store \in Store, NEW m \in Commands, Finds(m)
  PROVE  /\ Effect(m) \in Store
         /\ Effect(m).rules = IF Restricts(m) THEN m[2] ELSE store.rules
         /\ Effect(m).grant # "deleted" => store.grant # "deleted"
<1>1. CASE m \in {<<"reject">>, <<"revoke">>, <<"delete">>}
  BY <1>1 DEF Effect, Store, Restricts, Finds
<1>2. CASE m \in {"approve"} \X (SUBSET Scopes) \X Labels
  BY <1>2 DEF Effect, Store, Restricts, Finds
<1>3. CASE m \in {"restrict"} \X Lists
  BY <1>3 DEF Effect, Store, Restricts, Finds
<1>4. QED BY <1>1, <1>2, <1>3 DEF Commands

-----------------------------------------------------------------------------
(* Steps. *)

\* A load that begins is the last one.
LEMMA LoadBegins ==
  ASSUME Typed, Load
  PROVE  /\ loads' \in Seq(Store \cup {None}) /\ loads' # <<>> /\ loads'[Len(loads')] = None
         /\ loaded' = TRUE /\ failed' = FALSE
<1>1. loads \in Seq(Store \cup {None}) BY DEF Typed
<1>2. QED BY <1>1, Lines DEF Load

LEMMA Rendered ==
  ASSUME PanelTypeOK, NEW s \in Store \cup {None}, NEW c \in BOOLEAN, Render(s, c)
  PROVE  /\ shown' = s
         /\ ticked' \subseteq Scopes /\ expiry' \in Expiries /\ custom' \in BOOLEAN
         /\ summary' \in (SUBSET Scopes) \X {"none", "hour", "at", "unset"}
         /\ confirm' \in BOOLEAN /\ dialog' \in BOOLEAN /\ deleting' \in BOOLEAN
         /\ busy' = {}
BY DEF Render, FreshBoxes, FreshExpiry, Expiries

\* At rest, a row that can be edited shows the restrictions the owner means.
LEMMA AtRest ==
  ASSUME PanelInv, Editable, ~hasty, commands = <<>>, ~(replies > 0), loads = <<>>, ~failed
  PROVE  shown.rules = will
<1>1. replies = 0 BY DEF PanelInv, Typed, PanelTypeOK
<1>2. AsStored(shown) BY <1>1 DEF PanelInv, Fresh
<1>3. shown # None /\ shown.grant = "active" BY DEF Editable, OnPage
<1>4. shown.rules = store.rules /\ store.grant = "active" BY <1>2, <1>3 DEF AsStored
<1>5. store.rules = will BY <1>4 DEF PanelInv, Willed
<1>6. QED BY <1>4, <1>5

LEMMA ListSent ==
  ASSUME PanelInv, Editable, NEW sent \in Lists, NEW meant, SendRules(sent, meant),
         shown.rules = will => meant = sent
  PROVE  /\ <<"restrict", sent>> \in Commands
         /\ commands' = Append(commands, <<"restrict", sent>>)
         /\ clicks' \in Nat /\ hasty' \in BOOLEAN /\ will' \in Lists
         /\ ~hasty' => ~hasty /\ commands = <<>> /\ will' = sent
<1>1. hasty \in BOOLEAN /\ failed \in BOOLEAN /\ clicks \in Nat
  BY DEF PanelInv, Typed, PanelTypeOK
<1>2. hasty' = (hasty \/ commands # <<>> \/ replies > 0 \/ loads # <<>> \/ failed)
  BY DEF SendRules
<1>3. CASE hasty'
  <2>1. will' = <<>> BY <1>3 DEF SendRules
  <2>2. <<>> \in Lists BY NoRules
  <2>3. QED BY <1>1, <1>2, <1>3, <2>1, <2>2 DEF SendRules, Send, Commands
<1>4. CASE ~hasty'
  <2>1. ~hasty /\ commands = <<>> /\ ~(replies > 0) /\ loads = <<>> /\ ~failed
    BY <1>2, <1>4
  <2>2. will' = sent BY <2>1, <1>4, AtRest DEF SendRules
  <2>3. QED BY <1>1, <1>2, <1>4, <2>1, <2>2 DEF SendRules, Send, Commands
<1>5. QED BY <1>3, <1>4

LEMMA Clicked ==
  ASSUME PanelInv, NEW r \in Rules, AddRule(r) \/ ToggleRule(r) \/ EditRule(r) \/ RemoveRule(r)
  PROVE  /\ \E sent \in Lists :
              /\ <<"restrict", sent>> \in Commands
              /\ commands' = Append(commands, <<"restrict", sent>>)
              /\ ~hasty' => ~hasty /\ commands = <<>> /\ will' = sent
         /\ clicks' \in Nat /\ hasty' \in BOOLEAN /\ will' \in Lists
         /\ busy' \subseteq {<<"new">>, <<"delete">>} \cup {"toggle", "edit"} \X Rules
         /\ Still /\ UNCHANGED <<ticked, expiry, custom, summary, dialog, deleting>>
<1>1. Editable BY DEF AddRule, ToggleRule, EditRule, RemoveRule, Row
<1>2. shown.rules \in Lists
  BY <1>1 DEF PanelInv, Typed, PanelTypeOK, Editable, OnPage, Store
<1>3. busy \subseteq {<<"new">>, <<"delete">>} \cup {"toggle", "edit"} \X Rules
  BY DEF PanelInv, Typed, PanelTypeOK
<1>4. CASE AddRule(r)
  <2>1. Put(shown.rules, r, <<"on", 0>>) \in Lists BY <1>2, RulesChange
  <2>2. SendRules(Put(shown.rules, r, <<"on", 0>>), Put(will, r, <<"on", 0>>))
    BY <1>4 DEF AddRule
  <2>3. Still /\ UNCHANGED <<ticked, expiry, custom, summary, dialog, deleting>>
    BY <2>2 DEF SendRules
  <2>4. busy' \subseteq {<<"new">>, <<"delete">>} \cup {"toggle", "edit"} \X Rules
    BY <1>3, <1>4 DEF AddRule
  <2>5. QED BY <1>1, <2>1, <2>2, <2>3, <2>4, ListSent
<1>5. CASE ToggleRule(r)
  <2>1. Switched(shown.rules, r) \in Lists BY <1>2, <1>5, RulesChange DEF ToggleRule, Row
  <2>2. SendRules(Switched(shown.rules, r), Switched(will, r)) BY <1>5 DEF ToggleRule
  <2>3. Still /\ UNCHANGED <<ticked, expiry, custom, summary, dialog, deleting>>
    BY <2>2 DEF SendRules
  <2>4. busy' \subseteq {<<"new">>, <<"delete">>} \cup {"toggle", "edit"} \X Rules
    BY <1>3, <1>5 DEF ToggleRule
  <2>5. QED BY <1>1, <2>1, <2>2, <2>3, <2>4, ListSent
<1>6. CASE EditRule(r)
  <2>1. Edited(shown.rules, r) \in Lists BY <1>2, <1>6, RulesChange DEF EditRule, Row
  <2>2. SendRules(Edited(shown.rules, r), Edited(will, r)) BY <1>6 DEF EditRule
  <2>3. Still /\ UNCHANGED <<ticked, expiry, custom, summary, dialog, deleting>>
    BY <2>2 DEF SendRules
  <2>4. busy' \subseteq {<<"new">>, <<"delete">>} \cup {"toggle", "edit"} \X Rules
    BY <1>3, <1>6 DEF EditRule
  <2>5. QED BY <1>1, <2>1, <2>2, <2>3, <2>4, ListSent
<1>7. CASE RemoveRule(r)
  <2>1. Without(shown.rules, r) \in Lists BY <1>2, <1>7, RulesChange DEF RemoveRule, Row
  <2>2. SendRules(Without(shown.rules, r), Without(will, r)) BY <1>7 DEF RemoveRule
  <2>3. Still /\ UNCHANGED <<ticked, expiry, custom, summary, dialog, deleting>>
    BY <2>2 DEF SendRules
  <2>4. busy' \subseteq {<<"new">>, <<"delete">>} \cup {"toggle", "edit"} \X Rules
    BY <1>3, <1>7 DEF RemoveRule
  <2>5. QED BY <1>1, <2>1, <2>2, <2>3, <2>4, ListSent
<1>8. QED BY <1>4, <1>5, <1>6, <1>7

\* What changes neither the store nor what is on its way nor what is shown.
LEMMA Unmoved ==
  ASSUME PanelInv,
         UNCHANGED <<store, commands, replies, loads, shown, told, failed, will, hasty>>
  PROVE  (Fresh /\ OnTime /\ Willed)'
BY DEF PanelInv, Fresh, OnTime, Willed, AsStored, Timely

\* A command joins the line.
LEMMA Joined ==
  ASSUME PanelInv, NEW m \in Commands, commands' = Append(commands, m),
         UNCHANGED <<store, replies, loads, shown, told, failed>>,
         \/ ~Restricts(m) /\ UNCHANGED <<will, hasty>>
         \/ ~hasty' => ~hasty /\ commands = <<>> /\ Restricts(m) /\ will' = m[2]
  PROVE  (Fresh /\ OnTime /\ Willed)' /\ commands' \in Seq(Commands)
<1>1. commands \in Seq(Commands) BY DEF PanelInv, Typed
<1>2. /\ commands' \in Seq(Commands) /\ commands' # <<>>
      /\ Len(commands) \in Nat /\ Len(commands') = Len(commands) + 1
      /\ commands'[Len(commands) + 1] = m
      /\ \A i \in 1..Len(commands) : commands'[i] = commands[i]
      /\ commands = <<>> <=> Len(commands) = 0
  BY <1>1, Lines
<1>3. (Fresh /\ OnTime)' BY DEF PanelInv, Fresh, OnTime, AsStored, Timely
<1>4. Willed'
  <2> SUFFICES ASSUME ~hasty'
               PROVE  /\ \A i \in 2..Len(commands') : ~Restricts(commands'[i])
                      /\ store.grant # "deleted"
                           => IF Restricts(commands'[1]) THEN commands'[1][2] = will'
                              ELSE store.rules = will'
    BY <1>2 DEF Willed
  <2>1. CASE commands = <<>> BY <2>1, <1>2 DEF PanelInv, Willed
  <2>2. CASE commands # <<>>
    <3>1. ~Restricts(m) /\ UNCHANGED <<will, hasty>> BY <2>2
    <3>2. \A i \in 2..Len(commands) : ~Restricts(commands[i]) BY <3>1 DEF PanelInv, Willed
    <3>3. \A i \in 2..Len(commands') : ~Restricts(commands'[i])
      <4> SUFFICES ASSUME NEW i \in 2..Len(commands') PROVE ~Restricts(commands'[i]) OBVIOUS
      <4>1. CASE i = Len(commands) + 1 BY <4>1, <3>1, <1>2
      <4>2. CASE i # Len(commands) + 1
        <5>1. i \in 2..Len(commands) BY <4>2, <1>2
        <5>2. commands'[i] = commands[i] BY <5>1, <1>2
        <5>3. QED BY <5>1, <5>2, <3>2
      <4>3. QED BY <4>1, <4>2
    <3>4. commands'[1] = commands[1] BY <2>2, <1>2
    <3>5. QED BY <2>2, <3>1, <3>3, <3>4 DEF PanelInv, Willed
  <2>3. QED BY <2>1, <2>2
<1>5. QED BY <1>2, <1>3, <1>4

\* The store changes, or a command is served.
LEMMA StoreMoves ==
  ASSUME PanelInv, NEW s \in Store, Changes(s),
         s.grant # "deleted" => store.grant # "deleted",
         UNCHANGED <<loads, shown, told, failed, will, hasty>>,
         \/ s.rules = store.rules /\ s.grant = store.grant /\ UNCHANGED <<commands, replies>>
         \/ /\ commands # <<>> /\ commands' = Tail(commands) /\ replies' = replies + 1
            /\ s.rules = IF Restricts(commands[1]) THEN commands[1][2] ELSE store.rules
  PROVE  (Fresh /\ OnTime /\ Willed)'
<1>1. /\ store \in Store /\ store.version \in Nat /\ told \in Nat /\ replies \in Nat
      /\ commands \in Seq(Commands)
  BY PanelAssumption DEF PanelInv, Typed, PanelTypeOK, Store
<1>2. /\ store'.version = store.version + 1
      /\ store'.rules = s.rules /\ store'.grant = s.grant
  BY <1>1, NewVersion
<1>3. OnTime'
  <2>1. store'.version >= told BY <1>1, <1>2 DEF PanelInv, OnTime
  <2>2. QED BY <2>1 DEF PanelInv, OnTime, Timely
<1>4. CASE s.rules = store.rules /\ s.grant = store.grant /\ UNCHANGED <<commands, replies>>
  <2>1. Fresh' BY <1>2, <1>4 DEF PanelInv, Fresh, AsStored
  <2>2. Willed' BY <1>2, <1>4 DEF PanelInv, Willed
  <2>3. QED BY <1>3, <2>1, <2>2
<1>5. CASE /\ commands # <<>> /\ commands' = Tail(commands) /\ replies' = replies + 1
           /\ s.rules = IF Restricts(commands[1]) THEN commands[1][2] ELSE store.rules
  <2>1. Fresh' BY <1>1, <1>5 DEF Fresh
  <2>2. /\ Len(commands) \in Nat /\ Len(commands) > 0
        /\ Len(commands') = Len(commands) - 1 /\ (commands' # <<>> => Len(commands') > 0)
        /\ \A i \in 1..(Len(commands) - 1) : commands'[i] = commands[i + 1]
    <3>1. commands' \in Seq(Commands) BY <1>1, <1>5, Lines
    <3>2. QED BY <1>1, <1>5, <3>1, Lines
  <2>3. ASSUME ~hasty
        PROVE  /\ \A i \in 1..Len(commands') : ~Restricts(commands'[i])
               /\ store'.grant # "deleted" => store'.rules = will
    <3>1. \A i \in 2..Len(commands) : ~Restricts(commands[i])
      BY <2>3 DEF PanelInv, Willed
    <3>2. \A i \in 1..Len(commands') : ~Restricts(commands'[i])
      <4> SUFFICES ASSUME NEW i \in 1..Len(commands') PROVE ~Restricts(commands'[i]) OBVIOUS
      <4>1. i \in 1..(Len(commands) - 1) /\ i + 1 \in 2..Len(commands) BY <2>2
      <4>2. QED BY <4>1, <2>2, <3>1
    <3>3. store.grant # "deleted"
            => IF Restricts(commands[1]) THEN commands[1][2] = will ELSE store.rules = will
      BY <1>5, <2>3 DEF PanelInv, Willed
    <3>4. QED BY <1>2, <1>5, <3>2, <3>3
  <2>4. Willed'
    <3> SUFFICES ASSUME ~hasty'
                 PROVE  /\ \A i \in 2..Len(commands') : ~Restricts(commands'[i])
                        /\ store'.grant # "deleted"
                             => IF commands' # <<>> /\ Restricts(commands'[1])
                                  THEN commands'[1][2] = will' ELSE store'.rules = will'
      BY DEF Willed
    <3>1. /\ \A i \in 1..Len(commands') : ~Restricts(commands'[i])
          /\ store'.grant # "deleted" => store'.rules = will
      BY <2>3
    <3>2. commands' # <<>> => ~Restricts(commands'[1]) BY <2>2, <3>1
    <3>3. \A i \in 2..Len(commands') : ~Restricts(commands'[i]) BY <2>2, <3>1
    <3>4. QED BY <3>1, <3>2, <3>3
  <2>5. QED BY <1>3, <2>1, <2>4
<1>6. QED BY <1>4, <1>5

\* A load begins; with a command's reply or an announcement the panel is told of
\* the store as it is.
LEMMA Reloads ==
  ASSUME PanelInv, Load, told' \in {told, store.version},
         UNCHANGED <<store, commands, will, hasty>>
  PROVE  (Fresh /\ OnTime /\ Willed)'
<1>1. loads' # <<>> /\ loads'[Len(loads')] = None BY LoadBegins DEF PanelInv
<1>2. store.version \in Nat BY PanelAssumption DEF PanelInv, Typed, PanelTypeOK, Store
<1>3. QED BY <1>1, <1>2 DEF PanelInv, Fresh, OnTime, Willed, AsStored, Timely

\* A read is served.
LEMMA Reads ==
  ASSUME PanelInv, ReadServed
  PROVE  (Fresh /\ OnTime /\ Willed)' /\ loads' \in Seq(Store \cup {None})
<1>1. PICK i \in DOMAIN loads : loads' = [loads EXCEPT ![i] = store]
  BY DEF ReadServed
<1>2. loads \in Seq(Store \cup {None}) /\ store \in Store \cup {None}
  BY DEF PanelInv, Typed, PanelTypeOK
<1>3. i \in 1..Len(loads) /\ Len(loads) \in Nat BY <1>1, <1>2
<1>4. /\ loads' \in Seq(Store \cup {None}) /\ Len(loads') = Len(loads)
      /\ \A j \in 1..Len(loads) : loads'[j] = IF j = i THEN store ELSE loads[j]
  BY <1>1, <1>2, <1>3, Lines
<1>5. loads # <<>> /\ loads' # <<>> BY <1>2, <1>3, <1>4, Lines
<1>6. loads'[Len(loads')] = store \/ loads'[Len(loads')] = loads[Len(loads)] BY <1>3, <1>4
<1>7. Willed' BY DEF ReadServed, data, own, PanelInv, Willed
<1>8. Fresh' BY <1>5, <1>6 DEF ReadServed, data, PanelInv, Fresh, AsStored
<1>9. OnTime' BY <1>5, <1>6 DEF ReadServed, data, PanelInv, OnTime, Timely
<1>10. QED BY <1>4, <1>7, <1>8, <1>9

\* A load ends, and is rendered.
LEMMA Ends ==
  ASSUME PanelInv, Loaded
  PROVE  /\ (Fresh /\ OnTime /\ Willed)' /\ loads' \in Seq(Store \cup {None})
         /\ Head(loads) \in Store
<1>1. loads \in Seq(Store \cup {None}) BY DEF PanelInv, Typed
<1>2. loads # <<>> /\ loads' = Tail(loads) /\ Head(loads) # None BY DEF Loaded
<1>3. UNCHANGED <<store, commands, replies, told, failed, will, hasty>>
  BY DEF Loaded, data, own
<1>4. Willed' BY <1>3 DEF PanelInv, Willed
<1>5. /\ Len(loads) \in Nat /\ Len(loads) > 0 /\ Head(loads) = loads[1]
      /\ Head(loads) \in Store /\ loads' \in Seq(Store \cup {None})
      /\ Len(loads') = Len(loads) - 1
      /\ \A i \in 1..(Len(loads) - 1) : loads'[i] = loads[i + 1]
  BY <1>1, <1>2, Lines
<1>6. loads' = <<>> <=> Len(loads') = 0 BY <1>5, Lines
<1>7. CASE loads' = <<>>
  <2>1. Len(loads) = 1 BY <1>5, <1>6, <1>7
  <2>2. shown' = loads[Len(loads)] BY <1>5, <2>1 DEF Loaded, Render
  <2>3. QED BY <1>2, <1>3, <1>4, <1>5, <1>7, <2>2
            DEF PanelInv, Fresh, OnTime, AsStored, Timely
<1>8. CASE loads' # <<>>
  <2>1. loads'[Len(loads')] = loads[Len(loads)] BY <1>5, <1>6, <1>8
  <2>2. QED BY <1>2, <1>3, <1>4, <1>5, <1>8, <2>1
            DEF PanelInv, Fresh, OnTime, AsStored, Timely
<1>9. QED BY <1>7, <1>8

\* A load is rejected: the last one, or one that another follows.
LEMMA Rejected ==
  ASSUME PanelInv, LoadFails
  PROVE  /\ (Fresh /\ OnTime /\ Willed)' /\ loads' \in Seq(Store \cup {None})
         /\ failed' \in BOOLEAN
<1>1. PICK i \in DOMAIN loads : /\ loads' = RemoveAt(loads, i)
                               /\ failed' = (failed \/ i = Len(loads))
  BY DEF LoadFails
<1>2. loads \in Seq(Store \cup {None}) BY DEF PanelInv, Typed
<1>3. i \in 1..Len(loads) /\ Len(loads) \in Nat BY <1>1, <1>2
<1>4. /\ loads' \in Seq(Store \cup {None}) /\ Len(loads') = Len(loads) - 1
      /\ i < Len(loads) => loads'[Len(loads) - 1] = loads[Len(loads)]
  BY <1>1, <1>2, <1>3, Removed
<1>5. UNCHANGED <<store, commands, replies, told, will, hasty>> BY DEF LoadFails, data, own
<1>6. Willed' BY <1>5 DEF PanelInv, Willed
<1>7. failed \in BOOLEAN /\ failed' \in BOOLEAN BY <1>1 DEF PanelInv, Typed, PanelTypeOK
<1>8. store.version >= told BY DEF PanelInv, OnTime
<1>9. CASE failed' BY <1>4, <1>5, <1>6, <1>7, <1>8, <1>9 DEF Fresh, OnTime
<1>10. CASE ~failed'
  <2>1. ~failed /\ i # Len(loads) BY <1>1, <1>10
  <2>2. i < Len(loads) BY <1>3, <2>1
  <2>3. loads' # <<>> /\ loads # <<>> BY <1>2, <1>3, <1>4, <2>2, Lines
  <2>4. loads'[Len(loads')] = loads[Len(loads)] BY <1>4, <2>2
  <2>5. Fresh' BY <1>5, <2>1, <2>3, <2>4 DEF PanelInv, Fresh, AsStored
  <2>6. OnTime' BY <1>5, <2>1, <2>3, <2>4 DEF PanelInv, OnTime, Timely
  <2>7. QED BY <1>4, <1>6, <1>7, <2>5, <2>6
<1>11. QED BY <1>7, <1>9, <1>10

-----------------------------------------------------------------------------
(* The invariant. *)

LEMMA Begins == PanelInit => PanelInv
<1> SUFFICES ASSUME PanelInit PROVE PanelInv OBVIOUS
<1>1. PICK q \in {"none", "decided"}, g \in {"active", "deleted"} :
        store = [version |-> 0, request |-> q, grant |-> g, rules |-> <<>>]
  BY DEF PanelInit
<1>2. store \in Store BY <1>1, NoRules, PanelAssumption DEF Store
<1>3. loads = <<>> /\ commands = <<>> /\ loads \in Seq(Store \cup {None}) /\ commands \in Seq(Commands)
  BY DEF PanelInit
<1>4. DOMAIN loads = {} BY <1>3
<1>5. PanelTypeOK
  <2>1. /\ notices \in Nat /\ replies \in Nat /\ asking \in Nat /\ feeds \in Nat
        /\ told \in Nat /\ clicks \in Nat /\ attachments \in Nat /\ step \in 1..3
    BY DEF PanelInit
  <2>2. /\ ticked \subseteq Scopes /\ expiry \in Expiries /\ will \in Lists
        /\ summary \in (SUBSET Scopes) \X {"none", "hour", "at", "unset"} /\ busy = {}
    BY NoRules DEF PanelInit, Expiries
  <2>3. shown \in Store \cup {None} BY DEF PanelInit
  <2>4. /\ failed = FALSE /\ attached = FALSE /\ loaded = FALSE /\ promise = FALSE
        /\ unsub = FALSE /\ refused = FALSE /\ custom = FALSE /\ confirm = FALSE /\ dialog = FALSE
        /\ deleting = FALSE /\ hasty = FALSE
    BY DEF PanelInit
  <2>5. QED BY <1>2, <1>4, <2>1, <2>2, <2>3, <2>4, Zenon DEF PanelTypeOK
<1>6. Linked BY DEF PanelInit, Linked
<1>7. Fresh /\ OnTime BY <1>1 DEF PanelInit, Fresh, OnTime, AsStored, Timely
<1>8. Willed BY <1>1, <1>3 DEF PanelInit, Willed
<1>9. QED BY <1>3, <1>5, <1>6, <1>7, <1>8 DEF PanelInv, Typed

\* The subscription's bookkeeping (subscribe, connectedCallback,
\* disconnectedCallback).
LEMMA LinkKept ==
  ASSUME PanelInv, [PanelNext]_pvars
  PROVE  /\ Linked'
         /\ notices' \in Nat /\ asking' \in Nat /\ feeds' \in Nat /\ attachments' \in Nat
         /\ attached' \in BOOLEAN /\ promise' \in BOOLEAN /\ unsub' \in BOOLEAN
         /\ refused' \in BOOLEAN
<1>1. /\ notices \in Nat /\ asking \in Nat /\ feeds \in Nat /\ attachments \in Nat
      /\ attached \in BOOLEAN /\ promise \in BOOLEAN /\ unsub \in BOOLEAN
      /\ refused \in BOOLEAN
  BY DEF PanelInv, Typed, PanelTypeOK
<1>2. Linked BY DEF PanelInv
<1>3. CASE Attach \/ SetHass
  <2>1. /\ Subscribe /\ attached' = TRUE /\ refused' = FALSE /\ UNCHANGED <<notices, unsub, feeds>>
        /\ attachments' \in {attachments, attachments + 1}
    BY <1>1, <1>3 DEF Attach, SetHass, data
  <2>2. attachments' \in Nat BY <1>1, <2>1
  <2>3. CASE unsub \/ promise
    <3>1. UNCHANGED <<asking, promise>> BY <2>1, <2>3 DEF Subscribe
    <3>2. QED BY <1>1, <1>2, <2>1, <2>2, <2>3, <3>1, Zenon DEF Linked
  <2>4. CASE ~(unsub \/ promise)
    <3>1. asking' = asking + 1 /\ promise' = TRUE BY <2>1, <2>4 DEF Subscribe
    <3>2. asking' \in Nat /\ asking' > 0 BY <1>1, <3>1
    <3>3. QED BY <1>1, <1>2, <2>1, <2>2, <2>4, <3>1, <3>2, Zenon DEF Linked
  <2>5. QED BY <2>3, <2>4
<1>4. CASE Subscribed \/ SubscribeFails
  <2>1. /\ asking' \in Nat /\ promise' = FALSE
        /\ UNCHANGED <<notices, attached, attachments>>
    BY <1>1, <1>4 DEF Subscribed, SubscribeFails, data
  <2>2. CASE Subscribed
    <3>1. feeds' \in Nat /\ feeds' > 0 BY <1>1, <2>2 DEF Subscribed
    <3>2. unsub' = TRUE /\ UNCHANGED refused BY <2>2 DEF Subscribed
    <3>3. QED BY <1>1, <2>1, <3>1, <3>2, Zenon DEF Linked
  <2>3. CASE SubscribeFails
    <3>1. refused' = TRUE /\ UNCHANGED <<unsub, feeds>> BY <2>3 DEF SubscribeFails
    <3>2. QED BY <1>1, <1>2, <2>1, <3>1, Zenon DEF Linked
  <2>4. QED BY <1>4, <2>2, <2>3
<1>5. CASE Detach
  <2>1. /\ attached' = FALSE /\ unsub' = FALSE /\ promise' = FALSE
        /\ UNCHANGED <<asking, attachments, refused>>
    BY <1>5 DEF Detach
  <2>2. unsub => feeds > 0 BY <1>2 DEF Linked
  <2>3. feeds' \in Nat BY <1>1, <1>5, <2>2 DEF Detach
  <2>4. notices' \in Nat BY <1>1, <1>5 DEF Detach
  <2>5. QED BY <1>1, <2>1, <2>3, <2>4, Zenon DEF Linked
<1>6. CASE UNCHANGED link /\ notices' \in Nat BY <1>1, <1>2, <1>6 DEF link, Linked
<1>7. ASSUME NEW s, Changes(s) PROVE notices' \in Nat BY <1>1, <1>7 DEF Changes
<1>8. CASE Elsewhere
  <2>1. notices' \in Nat BY <1>7, <1>8 DEF Elsewhere
  <2>2. QED BY <1>6, <1>8, <2>1 DEF Elsewhere
<1>9. CASE CommandServed
  <2>1. notices' \in Nat BY <1>1, <1>7, <1>9 DEF CommandServed
  <2>2. QED BY <1>6, <1>9, <2>1 DEF CommandServed
<1>10. CASE Noticed BY <1>1, <1>6, <1>10 DEF Noticed
<1>11. CASE UNCHANGED <<link, notices>> BY <1>1, <1>6, <1>11
<1>12. ASSUME NEW r \in Rules, AddRule(r) \/ ToggleRule(r) \/ EditRule(r) \/ RemoveRule(r)
       PROVE  UNCHANGED <<link, notices>>
  BY <1>12, Clicked DEF Still
<1>13. CASE ReadServed \/ Loaded \/ LoadFails \/ Replied \/ StepTo \/ Tick \/ Chip
  BY <1>11, <1>13 DEF ReadServed, Loaded, LoadFails, Replied, StepTo, Tick, Chip, data
<1>14. CASE Approve \/ Reject \/ Dialog \/ Revoke \/ AskDelete \/ Delete
  BY <1>11, <1>14 DEF Approve, Reject, Dialog, Revoke, AskDelete, Delete, Still, data
<1>15. CASE UNCHANGED pvars BY <1>11, <1>15 DEF pvars, data
<1>16. QED
  BY <1>3, <1>4, <1>5, <1>8, <1>9, <1>10, <1>11, <1>12, <1>13, <1>14, <1>15 DEF PanelNext

\* Types, but for those of LinkKept.
PageTyped ==
  /\ step \in 1..3 /\ ticked \subseteq Scopes /\ expiry \in Expiries /\ custom \in BOOLEAN
  /\ summary \in (SUBSET Scopes) \X {"none", "hour", "at", "unset"}
  /\ confirm \in BOOLEAN /\ dialog \in BOOLEAN /\ deleting \in BOOLEAN
  /\ busy \subseteq {<<"new">>, <<"delete">>} \cup {"toggle", "edit"} \X Rules
  /\ shown \in Store \cup {None}

QueuesTyped ==
  /\ store \in Store /\ replies \in Nat /\ told \in Nat /\ clicks \in Nat
  /\ failed \in BOOLEAN /\ loaded \in BOOLEAN /\ hasty \in BOOLEAN
  /\ will \in Lists
  /\ loads \in Seq(Store \cup {None}) /\ commands \in Seq(Commands)

Judged == Fresh /\ OnTime /\ Willed

\* Only the page changes.
LEMMA PageSteps ==
  ASSUME PanelInv, StepTo \/ Tick \/ Chip \/ AskDelete \/ Dialog
  PROVE  PageTyped' /\ QueuesTyped' /\ Judged'
<1>1. PageTyped /\ QueuesTyped BY DEF PanelInv, Typed, PanelTypeOK, PageTyped, QueuesTyped
<1>2. UNCHANGED <<data, loads, shown, told, failed, loaded, own>>
  BY DEF StepTo, Tick, Chip, AskDelete, Dialog, Render
<1>3. QueuesTyped' BY <1>1, <1>2 DEF QueuesTyped, data, own
<1>4. Judged' BY <1>2, Unmoved DEF Judged, data, own
<1>5. CASE StepTo
  <2>1. Label(expiry, custom) \in {"none", "hour", "at", "unset"}
    BY <1>1 DEF Label, PageTyped, Expiries
  <2>2. step' \in 1..3 BY <1>5 DEF StepTo, SetStep
  <2>3. summary' \in (SUBSET Scopes) \X {"none", "hour", "at", "unset"}
    BY <1>1, <1>5, <2>1 DEF StepTo, SetStep, Summarise, PageTyped
  <2>4. UNCHANGED <<shown, ticked, expiry, custom, confirm, dialog, deleting, busy>>
    BY <1>5 DEF StepTo, SetStep
  <2>5. QED BY <1>1, <1>3, <1>4, <2>2, <2>3, <2>4 DEF PageTyped
<1>6. CASE Tick BY <1>1, <1>3, <1>4, <1>6 DEF Tick, PageTyped
<1>7. CASE Chip
  <2>1. expiry' \in Expiries /\ custom' \in BOOLEAN BY <1>1, <1>7 DEF Chip, PageTyped
  <2>2. Label(expiry', custom') \in {"none", "hour", "at", "unset"}
    BY <2>1 DEF Label, Expiries
  <2>3. summary' \in (SUBSET Scopes) \X {"none", "hour", "at", "unset"}
    BY <1>1, <1>7, <2>2 DEF Chip, Summarise, PageTyped
  <2>4. UNCHANGED <<shown, step, ticked, confirm, dialog, deleting, busy>> BY <1>7 DEF Chip
  <2>5. QED BY <1>1, <1>3, <1>4, <2>1, <2>3, <2>4 DEF PageTyped
<1>8. CASE AskDelete BY <1>1, <1>3, <1>4, <1>8 DEF AskDelete, PageTyped
<1>9. CASE Dialog
  <2>1. \E c \in BOOLEAN : Render(shown, c) BY <1>9 DEF Dialog
  <2>2. UNCHANGED step BY <1>9 DEF Dialog
  <2>3. QED BY <1>1, <1>3, <1>4, <2>1, <2>2, Rendered DEF PageTyped, PanelInv, Typed
<1>10. QED BY <1>5, <1>6, <1>7, <1>8, <1>9

\* The owner decides (wireEvents, call).
LEMMA CommandSteps ==
  ASSUME PanelInv, Approve \/ Reject \/ Revoke \/ Delete
  PROVE  PageTyped' /\ QueuesTyped' /\ Judged'
<1>1. PageTyped /\ QueuesTyped BY DEF PanelInv, Typed, PanelTypeOK, PageTyped, QueuesTyped
<1>2. PICK m \in Commands : ~Restricts(m) /\ Send(m)
  <2>1. CASE Approve
    <3> DEFINE m == <<"approve", ticked, Label(expiry, custom)>>
    <3>1. m \in Commands BY <1>1 DEF Commands, Labels, Label, PageTyped, Expiries
    <3>2. ~Restricts(m) BY DEF Restricts
    <3>3. QED BY <2>1, <3>1, <3>2 DEF Approve
  <2>2. CASE Reject BY <2>2 DEF Reject, Commands, Restricts
  <2>3. CASE Revoke BY <2>3 DEF Revoke, Commands, Restricts
  <2>4. CASE Delete BY <2>4 DEF Delete, Commands, Restricts
  <2>5. QED BY <2>1, <2>2, <2>3, <2>4
<1>3. UNCHANGED <<store, replies, loads, shown, told, failed, loaded, step, will, hasty>>
  BY DEF Approve, Reject, Revoke, Delete, Still
<1>4. commands' = Append(commands, m) /\ clicks' = clicks + 1 BY <1>2 DEF Send
<1>5. Judged' /\ commands' \in Seq(Commands) BY <1>2, <1>3, <1>4, Joined DEF Judged
<1>6. clicks' \in Nat BY <1>1, <1>4 DEF QueuesTyped
<1>7. QueuesTyped' BY <1>1, <1>3, <1>5, <1>6 DEF QueuesTyped
<1>8. PageTyped'
  <2>1. CASE Approve \/ Reject
    BY <1>1, <1>3, <2>1 DEF Approve, Reject, Still, page, PageTyped
  <2>2. CASE Revoke BY <1>1, <1>3, <2>2 DEF Revoke, page, PageTyped
  <2>3. CASE Delete BY <1>1, <1>3, <2>3 DEF Delete, Still, PageTyped
  <2>4. QED BY <2>1, <2>2, <2>3
<1>9. QED BY <1>5, <1>7, <1>8

\* The owner edits restrictions.
LEMMA ListSteps ==
  ASSUME PanelInv, NEW r \in Rules, AddRule(r) \/ ToggleRule(r) \/ EditRule(r) \/ RemoveRule(r)
  PROVE  PageTyped' /\ QueuesTyped' /\ Judged'
<1>1. PageTyped /\ QueuesTyped BY DEF PanelInv, Typed, PanelTypeOK, PageTyped, QueuesTyped
<1>2. PICK sent \in Lists :
        /\ <<"restrict", sent>> \in Commands
        /\ commands' = Append(commands, <<"restrict", sent>>)
        /\ ~hasty' => ~hasty /\ commands = <<>> /\ will' = sent
  BY Clicked
<1>3. /\ clicks' \in Nat /\ hasty' \in BOOLEAN /\ will' \in Lists
      /\ busy' \subseteq {<<"new">>, <<"delete">>} \cup {"toggle", "edit"} \X Rules
      /\ Still /\ UNCHANGED <<ticked, expiry, custom, summary, dialog, deleting>>
  BY Clicked
<1>4. Judged' /\ commands' \in Seq(Commands)
  BY <1>2, <1>3, Joined DEF Still, Restricts, Judged
<1>5. QueuesTyped' BY <1>1, <1>3, <1>4 DEF QueuesTyped, Still
<1>6. PageTyped' BY <1>1, <1>3 DEF PageTyped, Still
<1>7. QED BY <1>4, <1>5, <1>6

\* Loads go on.
LEMMA LoadSteps ==
  ASSUME PanelInv, ReadServed \/ Loaded \/ LoadFails
  PROVE  PageTyped' /\ QueuesTyped' /\ Judged'
<1>1. PageTyped /\ QueuesTyped BY DEF PanelInv, Typed, PanelTypeOK, PageTyped, QueuesTyped
<1>2. CASE ReadServed
  <2>1. Judged' /\ loads' \in Seq(Store \cup {None}) BY <1>2, Reads DEF Judged
  <2>2. QueuesTyped' BY <1>1, <1>2, <2>1 DEF ReadServed, QueuesTyped, data, own
  <2>3. PageTyped' BY <1>1, <1>2 DEF ReadServed, PageTyped, page
  <2>4. QED BY <2>1, <2>2, <2>3
<1>3. CASE Loaded
  <2>1. Judged' /\ loads' \in Seq(Store \cup {None}) /\ Head(loads) \in Store
    BY <1>3, Ends DEF Judged
  <2>2. QueuesTyped' BY <1>1, <1>3, <2>1 DEF Loaded, QueuesTyped, data, own
  <2>3. Render(Head(loads), confirm) /\ UNCHANGED step /\ confirm \in BOOLEAN
    BY <1>1, <1>3 DEF Loaded, PageTyped
  <2>4. PageTyped' BY <1>1, <2>1, <2>3, Rendered DEF PageTyped, PanelInv, Typed
  <2>5. QED BY <2>1, <2>2, <2>4
<1>4. CASE LoadFails
  <2>1. Judged' /\ loads' \in Seq(Store \cup {None}) /\ failed' \in BOOLEAN
    BY <1>4, Rejected DEF Judged
  <2>2. QueuesTyped' BY <1>1, <1>4, <2>1 DEF LoadFails, QueuesTyped, data, own
  <2>3. PageTyped' BY <1>1, <1>4 DEF LoadFails, PageTyped, page
  <2>4. QED BY <2>1, <2>2, <2>3
<1>5. QED BY <1>2, <1>3, <1>4

\* The element comes and goes, and is told of changes.
LEMMA LinkSteps ==
  ASSUME PanelInv,
         Attach \/ SetHass \/ Subscribed \/ SubscribeFails \/ Detach \/ Noticed \/ Replied
  PROVE  PageTyped' /\ QueuesTyped' /\ Judged'
<1>1. PageTyped /\ QueuesTyped BY DEF PanelInv, Typed, PanelTypeOK, PageTyped, QueuesTyped
<1>2. CASE Attach
  <2>1. UNCHANGED <<data, told, step, own>> BY <1>2 DEF Attach
  <2>2. Render(None, confirm) /\ confirm \in BOOLEAN BY <1>1, <1>2 DEF Attach, PageTyped
  <2>3. PageTyped' BY <1>1, <2>1, <2>2, Rendered DEF PageTyped, PanelInv, Typed
  <2>4. CASE loaded
    <3>1. UNCHANGED <<loads, loaded, failed>> BY <1>2, <2>4 DEF Attach
    <3>2. QueuesTyped' BY <1>1, <2>1, <3>1 DEF QueuesTyped, data, own
    <3>3. shown' = None BY <2>2 DEF Render
    <3>4. Judged'
      BY <2>1, <3>1, <3>3
         DEF PanelInv, Judged, Fresh, OnTime, Willed, AsStored, Timely, data, own
    <3>5. QED BY <2>3, <3>2, <3>4
  <2>5. CASE ~loaded
    <3>1. Load BY <1>2, <2>5 DEF Attach
    <3>2. loads' \in Seq(Store \cup {None}) /\ loaded' = TRUE /\ failed' = FALSE
      BY <3>1, LoadBegins DEF PanelInv
    <3>3. QueuesTyped' BY <1>1, <2>1, <3>2 DEF QueuesTyped, data, own
    <3>4. Judged' BY <2>1, <3>1, Reloads DEF Judged, data, own
    <3>5. QED BY <2>3, <3>3, <3>4
  <2>6. QED BY <2>4, <2>5
<1>3. CASE SetHass \/ Subscribed \/ SubscribeFails \/ Detach
  <2>1. UNCHANGED <<store, commands, replies, loads, shown, told, failed, loaded, step, page,
                    confirm, own>>
    BY <1>3 DEF SetHass, Subscribed, SubscribeFails, Detach, data
  <2>2. Judged' BY <2>1, Unmoved DEF Judged, own
  <2>3. QueuesTyped' /\ PageTyped' BY <1>1, <2>1 DEF QueuesTyped, PageTyped, page, own
  <2>4. QED BY <2>2, <2>3
<1>4. CASE Noticed \/ Replied
  <2>1. /\ Load /\ told' = store.version
        /\ UNCHANGED <<store, commands, shown, step, page, confirm, own>>
    BY <1>4 DEF Noticed, Replied
  <2>2. Judged' BY <2>1, Reloads DEF Judged, own
  <2>3. loads' \in Seq(Store \cup {None}) /\ loaded' = TRUE /\ failed' = FALSE
    BY <2>1, LoadBegins DEF PanelInv
  <2>4. told' \in Nat BY <1>1, <2>1, PanelAssumption DEF QueuesTyped, Store
  <2>5. replies' \in Nat BY <1>1, <1>4 DEF Noticed, Replied, QueuesTyped
  <2>6. QueuesTyped' BY <1>1, <2>1, <2>3, <2>4, <2>5 DEF QueuesTyped, own
  <2>7. PageTyped' BY <1>1, <2>1 DEF PageTyped, page
  <2>8. QED BY <2>2, <2>6, <2>7
<1>5. QED BY <1>2, <1>3, <1>4

\* A command that finds nothing leaves the line.
LEMMA ErrorKeeps ==
  ASSUME PanelInv, commands # <<>>, commands' = Tail(commands),
         Restricts(commands[1]) => store.grant = "deleted",
         UNCHANGED <<store, will, hasty>>
  PROVE  Willed'
<1> SUFFICES ASSUME ~hasty'
             PROVE  /\ \A i \in 2..Len(commands') : ~Restricts(commands'[i])
                    /\ store'.grant # "deleted"
                         => IF commands' # <<>> /\ Restricts(commands'[1])
                              THEN commands'[1][2] = will' ELSE store'.rules = will'
  BY DEF Willed
<1>1. commands \in Seq(Commands) BY DEF PanelInv, Typed
<1>2. commands' \in Seq(Commands) BY <1>1, Lines
<1>3. /\ Len(commands) \in Nat /\ Len(commands) > 0
      /\ Len(commands') = Len(commands) - 1 /\ (commands' # <<>> => Len(commands') > 0)
      /\ \A i \in 1..(Len(commands) - 1) : commands'[i] = commands[i + 1]
  BY <1>1, <1>2, Lines
<1>4. \A i \in 2..Len(commands) : ~Restricts(commands[i]) BY DEF PanelInv, Willed
<1>5. \A i \in 1..Len(commands') : ~Restricts(commands'[i])
  <2> SUFFICES ASSUME NEW i \in 1..Len(commands') PROVE ~Restricts(commands'[i]) OBVIOUS
  <2>1. i \in 1..(Len(commands) - 1) /\ i + 1 \in 2..Len(commands) BY <1>3
  <2>2. QED BY <2>1, <1>3, <1>4
<1>6. store.grant # "deleted" => store.rules = will BY DEF PanelInv, Willed
<1>7. commands' # <<>> => ~Restricts(commands'[1]) BY <1>3, <1>5
<1>8. QED BY <1>3, <1>5, <1>6, <1>7

\* The store moves.
LEMMA StoreSteps ==
  ASSUME PanelInv, Elsewhere \/ CommandServed
  PROVE  PageTyped' /\ QueuesTyped' /\ Judged'
<1>1. PageTyped /\ QueuesTyped BY DEF PanelInv, Typed, PanelTypeOK, PageTyped, QueuesTyped
<1>2. UNCHANGED <<loads, shown, told, failed, loaded, step, page, confirm, own>>
  BY DEF Elsewhere, CommandServed
<1>3. PageTyped' BY <1>1, <1>2 DEF PageTyped, page
<1>4. store \in Store /\ commands \in Seq(Commands) BY <1>1 DEF QueuesTyped
<1>5. CASE Elsewhere
  <2>1. UNCHANGED <<commands, replies>> BY <1>5 DEF Elsewhere
  <2>2. PICK s \in Store : Changes(s) /\ s.rules = store.rules /\ s.grant = store.grant
    <3>1. ASSUME NEW q \in {"pending", "decided"}
          PROVE  /\ [store EXCEPT !.request = q] \in Store
                 /\ [store EXCEPT !.request = q].rules = store.rules
                 /\ [store EXCEPT !.request = q].grant = store.grant
      BY <1>4 DEF Store
    <3>2. QED BY <1>4, <1>5, <3>1 DEF Elsewhere
  <2>3. Judged' BY <1>2, <2>1, <2>2, StoreMoves DEF Judged, own
  <2>4. store' \in Store BY <1>4, <2>2, NewVersion
  <2>5. QueuesTyped' BY <1>1, <1>2, <2>1, <2>4 DEF QueuesTyped, own
  <2>6. QED BY <1>3, <2>3, <2>5
<1>6. CASE CommandServed
  <2>1. /\ commands # <<>> /\ commands' = Tail(commands)
        /\ Head(commands) = commands[1] /\ Head(commands) \in Commands
        /\ commands' \in Seq(Commands)
    BY <1>4, <1>6, Lines DEF CommandServed
  <2>2. CASE Finds(Head(commands))
    <3>1. Changes(Effect(Head(commands))) /\ replies' = replies + 1
      BY <1>6, <2>2 DEF CommandServed
    <3>2. /\ Effect(Head(commands)) \in Store
          /\ Effect(Head(commands)).rules
               = IF Restricts(Head(commands)) THEN Head(commands)[2] ELSE store.rules
          /\ Effect(Head(commands)).grant # "deleted" => store.grant # "deleted"
      BY <1>4, <2>1, <2>2, EffectOf
    <3>3. Judged' BY <1>2, <2>1, <3>1, <3>2, StoreMoves DEF Judged, own
    <3>4. store' \in Store BY <1>4, <3>1, <3>2, NewVersion
    <3>5. replies' \in Nat BY <1>1, <3>1 DEF QueuesTyped
    <3>6. QueuesTyped' BY <1>1, <1>2, <2>1, <3>4, <3>5 DEF QueuesTyped, own
    <3>7. QED BY <1>3, <3>3, <3>6
  <2>3. CASE ~Finds(Head(commands))
    <3>1. UNCHANGED <<store, replies>> BY <1>6, <2>3 DEF CommandServed
    <3>2. QueuesTyped' BY <1>1, <1>2, <2>1, <3>1 DEF QueuesTyped, own
    <3>3. (Fresh /\ OnTime)'
      BY <1>2, <3>1 DEF PanelInv, Fresh, OnTime, AsStored, Timely
    <3>4. Restricts(commands[1]) => store.grant = "deleted"
      BY <2>1, <2>3 DEF Finds, Restricts
    <3>5. Willed' BY <1>2, <2>1, <3>1, <3>4, ErrorKeeps DEF own
    <3>6. QED BY <1>3, <3>2, <3>3, <3>5 DEF Judged
  <2>4. QED BY <2>2, <2>3
<1>7. QED BY <1>5, <1>6

LEMMA Step == PanelInv /\ [PanelNext]_pvars => PanelInv'
<1> SUFFICES ASSUME PanelInv, [PanelNext]_pvars PROVE PanelInv' OBVIOUS
<1>1. PageTyped' /\ QueuesTyped' /\ Judged'
  <2>1. CASE UNCHANGED pvars
    <3>1. UNCHANGED <<data, loads, shown, told, failed, loaded, step, page, confirm, own>>
      BY <2>1 DEF pvars
    <3>2. Judged' BY <3>1, Unmoved DEF Judged, data, own
    <3>3. PageTyped /\ QueuesTyped
      BY DEF PanelInv, Typed, PanelTypeOK, PageTyped, QueuesTyped
    <3>4. QED BY <3>1, <3>2, <3>3 DEF PageTyped, QueuesTyped, data, page, own
  <2>2. QED
    BY <2>1, PageSteps, CommandSteps, ListSteps, LoadSteps, LinkSteps, StoreSteps DEF PanelNext
<1>2. Linked' /\ Typed'
  <2>1. /\ Linked'
        /\ notices' \in Nat /\ asking' \in Nat /\ feeds' \in Nat /\ attachments' \in Nat
        /\ attached' \in BOOLEAN /\ promise' \in BOOLEAN /\ unsub' \in BOOLEAN
        /\ refused' \in BOOLEAN
    BY LinkKept
  <2>2. \A i \in DOMAIN loads' : loads'[i] \in Store \cup {None}
    BY <1>1, Lines DEF QueuesTyped
  <2>3. PanelTypeOK' BY <1>1, <2>1, <2>2, Zenon DEF PanelTypeOK, PageTyped, QueuesTyped
  <2>4. QED BY <1>1, <2>1, <2>3 DEF Typed, QueuesTyped
<1>3. QED BY <1>1, <1>2 DEF PanelInv, Judged

\* Store, page, queues and subscriptions keep their types; a handle always
\* belongs to a subscription that runs.
THEOREM PanelTyping == PanelSpec => []PanelTypeOK
<1>1. PanelInv => PanelTypeOK BY DEF PanelInv, Typed
<1>2. QED BY Begins, Step, <1>1, PTL DEF PanelSpec

\* Restrictions that are clicked at rest are stored as the owner meant them
\* (update_grant_restrictions).
THEOREM RulesHold == PanelSpec => []RulesKept
<1>1. PanelInv => RulesKept BY DEF PanelInv, Willed, RulesKept
<1>2. QED BY Begins, Step, <1>1, PTL DEF PanelSpec

\* A panel at rest on the page has its subscription, unless it was refused since
\* hass was last set, and shows no store older than the last change it heard of,
\* unless the load that began last was rejected; in whatever order overlapping
\* loads are rejected and rendered (subscribe, load).
THEOREM CurrentHolds == PanelSpec => []Current
<1>1. PanelInv => Current
  <2> SUFFICES ASSUME PanelInv, attached, Settled
               PROVE  (feeds > 0 \/ refused) /\ (failed \/ shown = None \/ shown.version >= told)
    BY DEF Current
  <2>1. loads = <<>> /\ asking = 0 BY DEF Settled
  <2>2. failed \/ shown = None \/ shown.version >= told
    BY <2>1 DEF PanelInv, OnTime, Timely
  <2>3. feeds > 0 \/ refused BY <2>1 DEF PanelInv, Linked
  <2>4. QED BY <2>2, <2>3
<1>2. QED BY Begins, Step, <1>1, PTL DEF PanelSpec

-----------------------------------------------------------------------------
(* The export section. *)

Places  == (Dashboards \cup {Nothing}) \X (Views \cup {Whole})
Results == [of : Places, all : SUBSET Entities, selected : SUBSET Entities]
Harvests == [why : {"dashboard", "view", "brief"}, of : Places, entities : SUBSET Entities]

ExportTyped ==
  /\ picked \in Dashboards \cup {Nothing} /\ view \in Views \cup {Whole}
  /\ result \in Results \cup {Nothing}
  /\ chosen \subseteq Entities
  /\ picks \in Nat /\ configs \subseteq Nat \X Dashboards
  /\ harvests \in Seq(Harvests)

\* A new harvest is of a place, and the last in line.
LEMMA Harvested ==
  ASSUME ExportTyped, NEW why \in {"dashboard", "view", "brief"},
         NEW d \in Dashboards \cup {Nothing}, NEW v \in Views \cup {Whole},
         NEW e \in SUBSET Entities, Harvest(why, d, v, e)
  PROVE  /\ harvests' \in Seq(Harvests) /\ harvests' # <<>>
         /\ Len(harvests') = Len(harvests) + 1
         /\ harvests'[Len(harvests) + 1] = [why |-> why, of |-> <<d, v>>, entities |-> e]
         /\ \A i \in 1..Len(harvests) : harvests'[i] = harvests[i]
<1>1. [why |-> why, of |-> <<d, v>>, entities |-> e] \in Harvests BY DEF Harvests, Places
<1>2. QED BY <1>1, Lines DEF Harvest, ExportTyped

\* A harvest that arrives shows entities only.
LEMMA Arrived ==
  ASSUME ExportTyped, HarvestArrives
  PROVE  /\ harvests # <<>> /\ Head(harvests) \in Harvests /\ Head(harvests) = harvests[1]
         /\ result' \in Results /\ result'.of = Head(harvests).of
         /\ result'.all = Of(Head(harvests).of[1], Head(harvests).of[2])
         /\ result'.selected = result'.all \cap Head(harvests).entities
         /\ chosen' = result'.selected
<1>1. /\ harvests # <<>> /\ Head(harvests) \in Harvests /\ Head(harvests) = harvests[1]
  BY Lines DEF HarvestArrives, ExportTyped
<1>2. /\ Head(harvests).of \in Places /\ Head(harvests).entities \subseteq Entities
      /\ Head(harvests).of[1] # Nothing
  BY <1>1 DEF HarvestArrives, Harvests
<1>3. Head(harvests).of[1] \in Dashboards /\ Head(harvests).of[2] \in Views \cup {Whole}
  BY <1>2 DEF Places
<1>4. Of(Head(harvests).of[1], Head(harvests).of[2]) \subseteq Entities
  BY <1>3, ExportAssumption DEF Of
<1>5. QED BY <1>1, <1>2, <1>4 DEF HarvestArrives, Results

LEMMA ExportTypedKept == ExportTyped /\ [ExportNext]_evars => ExportTyped'
<1> SUFFICES ASSUME ExportTyped, [ExportNext]_evars PROVE ExportTyped' OBVIOUS
<1>1. CASE UNCHANGED evars BY <1>1 DEF evars, asked, ExportTyped
<1>2. ASSUME NEW d \in Dashboards, PickDashboard(d) PROVE ExportTyped'
  BY <1>2 DEF PickDashboard, Counts, ExportTyped
<1>3. CASE LeaveDashboard BY <1>3 DEF LeaveDashboard, Counts, asked, ExportTyped
<1>4. ASSUME NEW c \in configs, ConfigArrives(c) PROVE ExportTyped'
  <2>1. c[2] \in Dashboards BY <1>4 DEF ExportTyped
  <2>2. harvests' \in Seq(Harvests) BY <1>4, <2>1, Harvested DEF ConfigArrives
  <2>3. QED BY <1>4, <2>1, <2>2 DEF ConfigArrives, ExportTyped
<1>5. ASSUME NEW c \in configs, ConfigFails(c) PROVE ExportTyped'
  BY <1>5 DEF ConfigFails, ExportTyped
<1>6. ASSUME NEW v \in Views \cup {Whole}, PickView(v) PROVE ExportTyped'
  <2>1. picked \in Dashboards \cup {Nothing} BY DEF ExportTyped
  <2>2. harvests' \in Seq(Harvests) BY <1>6, <2>1, Harvested DEF PickView
  <2>3. QED BY <1>6, <2>2 DEF PickView, Counts, ExportTyped
<1>7. CASE HarvestArrives
  <2>1. result' \in Results /\ chosen' = result'.selected BY <1>7, Arrived
  <2>2. chosen' \subseteq Entities BY <2>1 DEF Results
  <2>3. harvests' \in Seq(Harvests) BY <1>7, Lines DEF HarvestArrives, ExportTyped
  <2>4. QED BY <1>7, <2>1, <2>2, <2>3 DEF HarvestArrives, ExportTyped
<1>8. CASE HarvestFails
  <2>1. harvests' \in Seq(Harvests) BY <1>8, Lines DEF HarvestFails, ExportTyped
  <2>2. QED BY <1>8, <2>1 DEF HarvestFails, ExportTyped
<1>9. ASSUME NEW e \in Entities, ToggleEntity(e) PROVE ExportTyped'
  <2>1. result' \in Results BY <1>9 DEF ToggleEntity, ExportTyped, Results, Flip
  <2>2. chosen' \subseteq Entities BY <1>9 DEF ToggleEntity, ExportTyped, Flip
  <2>3. QED BY <1>9, <2>1, <2>2 DEF ToggleEntity, Counts, asked, ExportTyped
<1>10. ASSUME NEW e \in Entities, ToggleActionEntity(e) PROVE ExportTyped'
  BY <1>10 DEF ToggleActionEntity, Counts, asked, ExportTyped
<1>11. CASE DownloadBrief
  <2>1. picked \in Dashboards \cup {Nothing} /\ view \in Views \cup {Whole} /\ chosen \subseteq Entities
    BY DEF ExportTyped
  <2>2. harvests' \in Seq(Harvests) BY <1>11, <2>1, Harvested DEF DownloadBrief
  <2>3. QED BY <1>11, <2>2 DEF DownloadBrief, Counts, ExportTyped
<1>12. CASE RefuseShare \/ BuildShare
  BY <1>12 DEF RefuseShare, BuildShare, Counts, asked, ExportTyped
<1>13. ASSUME NEW m \in shares, ShareArrives(m) \/ ShareFails(m) PROVE ExportTyped'
  BY <1>13 DEF ShareArrives, ShareFails, ExportTyped
<1>14. QED
  BY <1>1, <1>2, <1>3, <1>4, <1>5, <1>6, <1>7, <1>8, <1>9, <1>10, <1>11, <1>12, <1>13
     DEF ExportNext

LEMMA ExportBegins == ExportInit => ExportTyped
BY ExportAssumption DEF ExportInit, ExportTyped

-----------------------------------------------------------------------------
(* The selection. *)

\* What a brief is made from is what a link grants and the boxes show,
\* whatever overlaps (toggleEntity, refreshExportPreview).
THEOREM SelectionHolds == ExportSpec => []SelectionAgrees
<1> DEFINE Inv == ExportTyped /\ SelectionAgrees
<1>1. ExportInit => Inv BY ExportBegins DEF ExportInit, SelectionAgrees
<1>2. Inv /\ [ExportNext]_evars => Inv'
  <2> SUFFICES ASSUME Inv, [ExportNext]_evars PROVE SelectionAgrees' BY ExportTypedKept
  <2> USE DEF SelectionAgrees
  <2>1. CASE HarvestArrives BY <2>1, Arrived
  <2>2. ASSUME NEW e \in Entities, ToggleEntity(e) PROVE SelectionAgrees'
    BY <2>2 DEF ToggleEntity, Flip, ExportTyped, Results
  <2>3. CASE HarvestFails BY <2>3 DEF HarvestFails
  <2>4. CASE LeaveDashboard \/ DownloadBrief \/ RefuseShare \/ BuildShare
    BY <2>4 DEF LeaveDashboard, DownloadBrief, RefuseShare, BuildShare
  <2>5. ASSUME NEW d, PickDashboard(d) \/ PickView(d) PROVE SelectionAgrees'
    BY <2>5 DEF PickDashboard, PickView
  <2>6. ASSUME NEW c, ConfigArrives(c) \/ ConfigFails(c) PROVE SelectionAgrees'
    BY <2>6 DEF ConfigArrives, ConfigFails
  <2>7. ASSUME NEW e, ToggleActionEntity(e) PROVE SelectionAgrees'
    BY <2>7 DEF ToggleActionEntity
  <2>8. ASSUME NEW m, ShareArrives(m) \/ ShareFails(m) PROVE SelectionAgrees'
    BY <2>8 DEF ShareArrives, ShareFails
  <2>9. CASE UNCHANGED evars BY <2>9 DEF evars
  <2>10. QED
    BY <2>1, <2>2, <2>3, <2>4, <2>5, <2>6, <2>7, <2>8, <2>9 DEF ExportNext
<1>3. QED BY <1>1, <1>2, PTL DEF ExportSpec

-----------------------------------------------------------------------------
(* The preview. *)

Here == <<picked, view>>
Shown(r, place) == r = Nothing \/ r.of = place

\* The last harvest asked for is of the place in the selects; a brief is of the
\* place that is shown, or that the harvest before it will show.
LastIsHere ==
  IF harvests = <<>> THEN Shown(result, Here) ELSE harvests[Len(harvests)].of = Here
BriefsFollow ==
  \A i \in 1..Len(harvests) :
    harvests[i].why = "brief"
      => IF i = 1 THEN Shown(result, harvests[1].of) ELSE harvests[i - 1].of = harvests[i].of
InLine == ~lost => LastIsHere /\ BriefsFollow

\* A harvest joins the line, for a brief of what is shown.
LEMMA Pushed ==
  ASSUME ExportTyped, InLine, NEW why \in {"dashboard", "view", "brief"},
         NEW e \in SUBSET Entities, Harvest(why, picked', view', e),
         picked' \in Dashboards \cup {Nothing}, view' \in Views \cup {Whole},
         UNCHANGED <<result, lost>>,
         why = "brief" => UNCHANGED <<picked, view>>
  PROVE  InLine'
<1> SUFFICES ASSUME ~lost PROVE (LastIsHere /\ BriefsFollow)' BY DEF InLine
<1>1. /\ harvests' # <<>> /\ Len(harvests') = Len(harvests) + 1
      /\ harvests'[Len(harvests) + 1] = [why |-> why, of |-> Here', entities |-> e]
      /\ \A i \in 1..Len(harvests) : harvests'[i] = harvests[i]
  <2> DEFINE h == [why |-> why, of |-> Here', entities |-> e]
  <2>1. Here' = <<picked', view'>> BY DEF Here
  <2>2. harvests' = Append(harvests, h) BY <2>1 DEF Harvest
  <2>3. h \in Harvests BY <2>1 DEF Harvests, Places
  <2>4. harvests \in Seq(Harvests) BY DEF ExportTyped
  <2> HIDE DEF h
  <2>5. /\ harvests' # <<>> /\ Len(harvests') = Len(harvests) + 1
        /\ harvests'[Len(harvests) + 1] = h
        /\ \A i \in 1..Len(harvests) : harvests'[i] = harvests[i]
    BY <2>2, <2>3, <2>4, Lines
  <2>6. QED BY <2>5 DEF h
<1>2. Len(harvests) \in Nat /\ (harvests = <<>> <=> Len(harvests) = 0)
  BY Lines DEF ExportTyped
<1>3. harvests'[Len(harvests')] = [why |-> why, of |-> Here', entities |-> e] BY <1>1
<1>4. LastIsHere' BY <1>1, <1>3 DEF LastIsHere
<1>5. LastIsHere /\ BriefsFollow BY DEF InLine
<1>6. BriefsFollow'
  <2> SUFFICES ASSUME NEW i \in 1..Len(harvests'), harvests'[i].why = "brief"
               PROVE  IF i = 1 THEN Shown(result', harvests'[1].of)
                               ELSE harvests'[i - 1].of = harvests'[i].of
    BY DEF BriefsFollow, Shown
  <2>1. CASE i \in 1..Len(harvests)
    <3>1. harvests'[i] = harvests[i] /\ harvests'[1] = harvests[1]
      BY <1>1, <1>2, <2>1
    <3>2. i # 1 => i - 1 \in 1..Len(harvests) /\ harvests'[i - 1] = harvests[i - 1]
      BY <1>1, <1>2, <2>1
    <3>3. IF i = 1 THEN Shown(result, harvests[1].of) ELSE harvests[i - 1].of = harvests[i].of
      BY <1>5, <2>1, <3>1 DEF BriefsFollow
    <3>4. QED BY <3>1, <3>2, <3>3 DEF Shown
  <2>2. CASE i = Len(harvests) + 1
    <3>1. why = "brief" /\ harvests'[i].of = Here' BY <1>1, <2>2
    <3>2. Here' = Here BY <3>1 DEF Here
    <3>3. CASE harvests = <<>>
      <4>1. i = 1 /\ Shown(result, Here) BY <1>2, <1>5, <2>2, <3>3 DEF LastIsHere
      <4>2. QED BY <4>1, <3>1, <3>2 DEF Shown
    <3>4. CASE harvests # <<>>
      <4>1. i # 1 /\ i - 1 = Len(harvests) /\ i - 1 \in 1..Len(harvests)
        BY <1>2, <2>2, <3>4
      <4>2. harvests'[i - 1].of = Here BY <1>1, <1>5, <3>4, <4>1 DEF LastIsHere
      <4>3. QED BY <3>1, <3>2, <4>1, <4>2
    <3>5. QED BY <3>3, <3>4
  <2>3. QED BY <1>1, <1>2, <2>1, <2>2
<1>7. QED BY <1>4, <1>6

\* The first harvest leaves the line: it is shown now, or what it would have
\* replaced is.
LEMMA Popped ==
  ASSUME ExportTyped, InLine, harvests # <<>>, harvests' = Tail(harvests),
         UNCHANGED <<picked, view>>,
         ~lost' => ~lost /\ Shown(result', harvests[1].of)
  PROVE  InLine'
<1> SUFFICES ASSUME ~lost' PROVE (LastIsHere /\ BriefsFollow)' BY DEF InLine
<1>1. ~lost /\ Shown(result', harvests[1].of) /\ LastIsHere /\ BriefsFollow BY DEF InLine
<1>2. harvests \in Seq(Harvests) BY DEF ExportTyped
<1>3. /\ Len(harvests) \in Nat /\ Len(harvests) > 0 /\ Len(harvests') = Len(harvests) - 1
      /\ (harvests' = <<>> <=> Len(harvests') = 0)
      /\ \A i \in 1..(Len(harvests) - 1) : harvests'[i] = harvests[i + 1]
  <2>1. harvests' \in Seq(Harvests) BY <1>2, Lines
  <2>2. QED BY <1>2, <2>1, Lines
<1>4. LastIsHere'
  <2>1. CASE harvests' = <<>>
    <3> Len(harvests) = 1 BY <1>3, <2>1
    <3>1. harvests[1].of = Here BY <1>1 DEF LastIsHere
    <3>2. QED BY <1>1, <2>1, <3>1 DEF LastIsHere, Here, Shown
  <2>2. CASE harvests' # <<>>
    <3>1. harvests'[Len(harvests')] = harvests[Len(harvests)] BY <1>3, <2>2
    <3>2. QED BY <1>1, <2>2, <3>1 DEF LastIsHere, Here
  <2>3. QED BY <2>1, <2>2
<1>5. BriefsFollow'
  <2> SUFFICES ASSUME NEW i \in 1..Len(harvests'), harvests'[i].why = "brief"
               PROVE  IF i = 1 THEN Shown(result', harvests'[1].of)
                               ELSE harvests'[i - 1].of = harvests'[i].of
    BY DEF BriefsFollow
  <2>1. /\ i \in Nat \ {0} /\ i + 1 \in 2..Len(harvests) /\ i + 1 \in 1..Len(harvests)
        /\ harvests'[i] = harvests[i + 1] /\ (i + 1) - 1 = i /\ i + 1 # 1
    BY <1>3
  <2>2. harvests[i].of = harvests[i + 1].of
    <3>1. harvests[i + 1].why = "brief" BY <2>1
    <3>2. harvests[(i + 1) - 1].of = harvests[i + 1].of BY <1>1, <2>1, <3>1 DEF BriefsFollow
    <3>3. QED BY <2>1, <3>2
  <2>3. CASE i = 1 BY <1>1, <2>1, <2>2, <2>3 DEF Shown
  <2>4. CASE i # 1
    <3>1. i - 1 \in 1..(Len(harvests) - 1) /\ (i - 1) + 1 = i BY <1>3, <2>1, <2>4
    <3>2. harvests'[i - 1] = harvests[i] BY <1>3, <3>1
    <3>3. QED BY <2>1, <2>2, <2>4, <3>2
  <2>5. QED BY <2>3, <2>4
<1>6. QED BY <1>4, <1>5

\* The line and the selects stay, and so does where the preview is from.
LEMMA LineStays ==
  ASSUME InLine, UNCHANGED <<picked, view, harvests, lost>>,
         result' = Nothing \/ (result # Nothing /\ result'.of = result.of) \/ result' = result
  PROVE  InLine'
BY DEF InLine, LastIsHere, BriefsFollow, Here, Shown

LEMMA LineKept == ExportTyped /\ InLine /\ [ExportNext]_evars => InLine'
<1> SUFFICES ASSUME ExportTyped, InLine, [ExportNext]_evars PROVE InLine' OBVIOUS
<1>1. CASE UNCHANGED evars BY <1>1, LineStays DEF evars, asked
<1>2. ASSUME NEW d \in Dashboards, PickDashboard(d) PROVE InLine'
  BY <1>2, LineStays DEF PickDashboard
<1>3. CASE LeaveDashboard
  <2> SUFFICES ASSUME ~lost' PROVE (LastIsHere /\ BriefsFollow)' BY DEF InLine
  <2>1. harvests = <<>> /\ harvests' = harvests /\ result' = Nothing
    BY <1>3 DEF LeaveDashboard, Busy, asked
  <2>2. Len(harvests') = 0 BY <2>1
  <2>3. 1..Len(harvests') = {} BY <2>2
  <2>4. QED BY <2>1, <2>3 DEF LastIsHere, BriefsFollow, Shown
<1>4. ASSUME NEW c \in configs, ConfigArrives(c) PROVE InLine'
  <2>1. c[2] \in Dashboards BY DEF ExportTyped
  <2>2. /\ picked' = c[2] /\ view' = Whole /\ UNCHANGED <<result, lost>>
        /\ Harvest("dashboard", picked', view', Entities)
    BY <1>4 DEF ConfigArrives
  <2>3. QED BY <2>1, <2>2, Pushed
<1>5. ASSUME NEW c \in configs, ConfigFails(c) PROVE InLine'
  BY <1>5, LineStays DEF ConfigFails
<1>6. ASSUME NEW v \in Views \cup {Whole}, PickView(v) PROVE InLine'
  <2>1. picked \in Dashboards \cup {Nothing} BY DEF ExportTyped
  <2>2. /\ picked' = picked /\ view' = v /\ UNCHANGED <<result, lost>>
        /\ Harvest("view", picked', view', Entities)
    BY <1>6 DEF PickView
  <2>3. QED BY <2>1, <2>2, Pushed
<1>7. CASE HarvestArrives
  <2>1. harvests # <<>> /\ result'.of = harvests[1].of BY <1>7, Arrived
  <2>2. harvests' = Tail(harvests) /\ UNCHANGED <<picked, view, lost>> BY <1>7 DEF HarvestArrives
  <2>3. QED BY <2>1, <2>2, Popped DEF Shown
<1>8. CASE HarvestFails
  <2>1. /\ harvests # <<>> /\ harvests' = Tail(harvests) /\ UNCHANGED <<picked, view>>
        /\ lost' = (lost \/ Head(harvests).why = "view")
        /\ result' = IF Head(harvests).why = "dashboard" THEN Nothing ELSE result
    BY <1>8 DEF HarvestFails
  <2>2. /\ Head(harvests) = harvests[1] /\ harvests[1] \in Harvests
        /\ Len(harvests) \in Nat /\ Len(harvests) > 0
    BY <2>1, Lines DEF ExportTyped
  <2>3. ASSUME ~lost' PROVE ~lost /\ Shown(result', harvests[1].of)
    <3>1. ~lost /\ harvests[1].why # "view" BY <2>1, <2>2, <2>3
    <3>2. CASE harvests[1].why = "dashboard" BY <2>1, <2>2, <3>1, <3>2 DEF Shown
    <3>3. CASE harvests[1].why = "brief"
      <4>1. 1 \in 1..Len(harvests) BY <2>2
      <4>2. Shown(result, harvests[1].of) BY <3>1, <3>3, <4>1 DEF InLine, BriefsFollow
      <4>3. QED BY <2>1, <2>2, <3>1, <3>3, <4>2
    <3>4. QED BY <2>2, <3>1, <3>2, <3>3 DEF Harvests
  <2>4. QED BY <2>1, <2>3, Popped
<1>9. ASSUME NEW e \in Entities, ToggleEntity(e) PROVE InLine'
  <2>1. result # Nothing /\ result'.of = result.of /\ UNCHANGED <<picked, view, harvests, lost>>
    BY <1>9 DEF ToggleEntity, asked, ExportTyped, Results
  <2>2. QED BY <2>1, LineStays
<1>10. ASSUME NEW e \in Entities, ToggleActionEntity(e) PROVE InLine'
  BY <1>10, LineStays DEF ToggleActionEntity, asked
<1>11. CASE DownloadBrief
  <2>1. picked \in Dashboards \cup {Nothing} /\ view \in Views \cup {Whole} /\ chosen \subseteq Entities
    BY DEF ExportTyped
  <2>2. /\ UNCHANGED <<picked, view, result, lost>>
        /\ Harvest("brief", picked', view', chosen)
    BY <1>11 DEF DownloadBrief
  <2>3. QED BY <2>1, <2>2, Pushed
<1>12. CASE RefuseShare \/ BuildShare BY <1>12, LineStays DEF RefuseShare, BuildShare, asked
<1>13. ASSUME NEW m \in shares, ShareArrives(m) \/ ShareFails(m) PROVE InLine'
  BY <1>13, LineStays DEF ShareArrives, ShareFails
<1>14. QED
  BY <1>1, <1>2, <1>3, <1>4, <1>5, <1>6, <1>7, <1>8, <1>9, <1>10, <1>11, <1>12, <1>13
     DEF ExportNext

LEMMA LineBegins == ExportInit => InLine
<1> SUFFICES ASSUME ExportInit PROVE LastIsHere /\ BriefsFollow BY DEF InLine
<1>1. harvests = <<>> /\ result = Nothing BY DEF ExportInit
<1>2. Len(harvests) = 0 BY <1>1
<1>3. 1..Len(harvests) = {} BY <1>2
<1>4. QED BY <1>1, <1>3 DEF LastIsHere, BriefsFollow, Shown

\* At rest the preview is of the dashboard and the view in the selects, in
\* whatever order the replies came (refreshExportPreview, pickDashboard, pickView).
THEOREM PreviewHolds == ExportSpec => []PreviewIsPicked
<1>1. ExportInit => ExportTyped /\ InLine BY ExportBegins, LineBegins
<1>2. (ExportTyped /\ InLine) /\ [ExportNext]_evars => (ExportTyped /\ InLine)'
  BY ExportTypedKept, LineKept
<1>3. ExportTyped /\ InLine => PreviewIsPicked
  BY DEF InLine, LastIsHere, Shown, Here, PreviewIsPicked, Busy
<1>4. QED BY <1>1, <1>2, <1>3, PTL DEF ExportSpec

-----------------------------------------------------------------------------
(* The link. *)

\* What is harvested is what is shown; boxes stand for entities that are shown.
Displayed ==
  result # Nothing
    => result.all = Of(result.of[1], result.of[2]) /\ result.selected \subseteq result.all

\* One operation at a time: what it was started with is still so.
OneAtATime ==
  /\ configs # {} => harvests = <<>> /\ shares = {} /\ \A a, b \in configs : a = b
  /\ shares # {} => configs = {} /\ harvests = <<>> /\ \A a, b \in shares : a = b
  /\ harvests # <<>> => configs = {} /\ shares = {} /\ Tail(harvests) = <<>>

ShareFits == \A m \in shares : url = Nothing /\ (result # Nothing => m[2] = Manifest)
BriefFits ==
  (harvests # <<>> /\ Head(harvests).why = "brief")
    => /\ result # Nothing
       /\ Head(harvests).of = result.of /\ Head(harvests).entities = result.selected
LinkFits == url # Nothing /\ result # Nothing => url = Manifest

Fits == ~crossed /\ ~lost => OneAtATime /\ ShareFits /\ BriefFits /\ LinkFits
LinkInv == ExportTyped /\ InLine /\ SelectionAgrees /\ Displayed /\ Fits

LEMMA DisplayedKept == ExportTyped /\ Displayed /\ [ExportNext]_evars => Displayed'
<1> SUFFICES ASSUME ExportTyped, Displayed, [ExportNext]_evars PROVE Displayed' OBVIOUS
<1> USE DEF Displayed
<1>1. CASE HarvestArrives BY <1>1, Arrived
<1>2. ASSUME NEW e \in Entities, ToggleEntity(e) PROVE Displayed'
  <2>1. result \in Results /\ result # Nothing /\ e \in result.all
    BY <1>2 DEF ToggleEntity, ExportTyped
  <2>2. PICK on \in BOOLEAN : result' = [result EXCEPT !.selected = Flip(result.selected, e, on)]
    BY <1>2 DEF ToggleEntity
  <2>3. /\ result'.of = result.of /\ result'.all = result.all
        /\ result'.selected = Flip(result.selected, e, on)
    BY <2>1, <2>2 DEF Results
  <2>4. QED BY <2>1, <2>3 DEF Flip
<1>3. CASE UNCHANGED result BY <1>3
<1>4. CASE HarvestFails \/ LeaveDashboard BY <1>4 DEF HarvestFails, LeaveDashboard
<1>5. CASE DownloadBrief \/ RefuseShare \/ BuildShare \/ UNCHANGED evars
  BY <1>3, <1>5 DEF DownloadBrief, RefuseShare, BuildShare, evars
<1>6. ASSUME NEW d, PickDashboard(d) \/ PickView(d) PROVE Displayed'
  BY <1>3, <1>6 DEF PickDashboard, PickView
<1>7. ASSUME NEW c, ConfigArrives(c) \/ ConfigFails(c) PROVE Displayed'
  BY <1>7 DEF ConfigArrives, ConfigFails
<1>8. ASSUME NEW e, ToggleActionEntity(e) PROVE Displayed'
  BY <1>8 DEF ToggleActionEntity
<1>9. ASSUME NEW m, ShareArrives(m) \/ ShareFails(m) PROVE Displayed'
  BY <1>9 DEF ShareArrives, ShareFails
<1>10. QED BY <1>1, <1>2, <1>4, <1>5, <1>6, <1>7, <1>8, <1>9 DEF ExportNext

LEMMA FitsKept == LinkInv /\ [ExportNext]_evars => Fits'
<1> SUFFICES ASSUME LinkInv, [ExportNext]_evars, ~crossed', ~lost'
             PROVE  (OneAtATime /\ ShareFits /\ BriefFits /\ LinkFits)'
  BY DEF Fits
<1> DEFINE Goal == (OneAtATime /\ ShareFits /\ BriefFits /\ LinkFits)'
<1>0. ASSUME ~crossed, ~lost PROVE OneAtATime /\ ShareFits /\ BriefFits /\ LinkFits
  BY <1>0 DEF LinkInv, Fits
<1>1. ASSUME Crosses PROVE ~crossed /\ configs = {} /\ harvests = <<>> /\ shares = {}
  BY <1>1 DEF Crosses, Busy
<1>2. CASE UNCHANGED evars
  BY <1>0, <1>2 DEF evars, asked, OneAtATime, ShareFits, BriefFits, LinkFits, Manifest
<1>3. ASSUME NEW d \in Dashboards, PickDashboard(d) PROVE Goal
  <2>1. UNCHANGED <<result, url, acting, harvests, shares>> /\ configs' = configs \cup {<<picks, d>>}
    BY <1>3 DEF PickDashboard
  <2>2. ~crossed /\ ~lost /\ configs = {} /\ harvests = <<>> /\ shares = {}
    BY <1>1, <1>3 DEF PickDashboard
  <2>3. LinkFits BY <1>0, <2>2
  <2>4. QED BY <2>1, <2>2, <2>3 DEF OneAtATime, ShareFits, BriefFits, LinkFits, Manifest
<1>4. CASE LeaveDashboard
  <2>1. configs = {} /\ harvests = <<>> /\ shares = {} BY <1>1, <1>4 DEF LeaveDashboard
  <2>2. result' = Nothing /\ configs' = configs /\ harvests' = harvests /\ shares' = shares
    BY <1>4 DEF LeaveDashboard, asked
  <2>3. QED BY <2>1, <2>2 DEF OneAtATime, ShareFits, BriefFits, LinkFits
<1>5. ASSUME NEW c \in configs, ConfigArrives(c) PROVE Goal
  <2>1. /\ UNCHANGED <<result, url, acting, shares, crossed, lost>> /\ configs' = configs \ {c}
        /\ harvests' = Append(harvests, [why |-> "dashboard", of |-> <<c[2], Whole>>, entities |-> Entities])
    BY <1>5 DEF ConfigArrives, Harvest
  <2>2. harvests = <<>> /\ shares = {} /\ (\A a \in configs : a = c) /\ LinkFits
    BY <1>0, <1>5, <2>1 DEF OneAtATime
  <2>3. configs' = {} BY <2>1, <2>2
  <2>4. /\ Tail(harvests') = <<>> /\ Head(harvests').why = "dashboard"
    BY <2>1, <2>2
  <2>5. QED BY <2>1, <2>2, <2>3, <2>4 DEF OneAtATime, ShareFits, BriefFits, LinkFits, Manifest
<1>6. ASSUME NEW c \in configs, ConfigFails(c) PROVE Goal
  <2>1. result' = Nothing /\ configs' = configs \ {c} /\ UNCHANGED <<harvests, shares, crossed, lost>>
    BY <1>6 DEF ConfigFails
  <2>2. harvests = <<>> /\ shares = {} /\ (\A a \in configs : a = c) BY <1>0, <2>1 DEF OneAtATime
  <2>3. QED BY <2>1, <2>2 DEF OneAtATime, ShareFits, BriefFits, LinkFits
<1>7. ASSUME NEW v \in Views \cup {Whole}, PickView(v) PROVE Goal
  <2>1. /\ UNCHANGED <<result, url, acting, configs, shares, lost>>
        /\ harvests' = Append(harvests, [why |-> "view", of |-> <<picked, v>>, entities |-> Entities])
    BY <1>7 DEF PickView, Harvest
  <2>2. ~crossed /\ ~lost /\ configs = {} /\ harvests = <<>> /\ shares = {}
    BY <1>1, <1>7, <2>1 DEF PickView
  <2>3. LinkFits BY <1>0, <2>2
  <2>4. Tail(harvests') = <<>> /\ Head(harvests').why = "view" BY <2>1, <2>2
  <2>5. QED BY <2>1, <2>2, <2>3, <2>4 DEF OneAtATime, ShareFits, BriefFits, LinkFits, Manifest
<1>8. CASE HarvestArrives
  <2>1. /\ harvests # <<>> /\ harvests' = Tail(harvests)
        /\ UNCHANGED <<configs, shares, crossed, lost>>
    BY <1>8 DEF HarvestArrives
  <2>2. configs = {} /\ shares = {} /\ harvests' = <<>> /\ BriefFits /\ LinkFits
    BY <1>0, <2>1 DEF OneAtATime
  <2>3. CASE Head(harvests).why # "brief"
    <3>1. url' = Nothing BY <1>8, <2>3 DEF HarvestArrives
    <3>2. QED BY <2>1, <2>2, <3>1 DEF OneAtATime, ShareFits, BriefFits, LinkFits
  <2>4. CASE Head(harvests).why = "brief"
    <3>1. url' = url /\ acting' = acting BY <1>8, <2>4 DEF HarvestArrives
    <3>2. /\ result # Nothing /\ Head(harvests).of = result.of
          /\ Head(harvests).entities = result.selected
      BY <2>1, <2>2, <2>4 DEF BriefFits
    <3>3. /\ result'.all = Of(Head(harvests).of[1], Head(harvests).of[2])
          /\ result'.selected = result'.all \cap Head(harvests).entities
      BY <1>8, Arrived DEF LinkInv
    <3>4. result.all = Of(result.of[1], result.of[2]) /\ result.selected \subseteq result.all
      BY <3>2 DEF LinkInv, Displayed
    <3>5. result'.selected = result.selected BY <3>2, <3>3, <3>4
    <3>6. Manifest' = Manifest BY <3>1, <3>5 DEF Manifest
    <3>7. QED BY <2>1, <2>2, <3>1, <3>2, <3>6 DEF OneAtATime, ShareFits, BriefFits, LinkFits
  <2>5. QED BY <2>3, <2>4
<1>9. CASE HarvestFails
  <2>1. /\ harvests # <<>> /\ harvests' = Tail(harvests) /\ ~lost
        /\ UNCHANGED <<configs, shares, crossed, url, acting>>
        /\ result' = Nothing \/ result' = result
    BY <1>9 DEF HarvestFails
  <2>2. configs = {} /\ shares = {} /\ harvests' = <<>> /\ LinkFits
    BY <1>0, <2>1 DEF OneAtATime
  <2>3. QED BY <2>1, <2>2 DEF OneAtATime, ShareFits, BriefFits, LinkFits, Manifest
<1>10. ASSUME NEW e \in Entities, ToggleEntity(e) \/ ToggleActionEntity(e) PROVE Goal
  <2>1. url' = Nothing /\ UNCHANGED <<configs, harvests, shares, lost>>
    BY <1>10 DEF ToggleEntity, ToggleActionEntity, asked
  <2>2. configs = {} /\ harvests = <<>> /\ shares = {}
    BY <1>1, <1>10 DEF ToggleEntity, ToggleActionEntity
  <2>3. QED BY <2>1, <2>2 DEF OneAtATime, ShareFits, BriefFits, LinkFits
<1>11. CASE DownloadBrief
  <2>1. /\ UNCHANGED <<result, url, acting, configs, shares, lost>>
        /\ harvests' = Append(harvests, [why |-> "brief", of |-> <<picked, view>>, entities |-> chosen])
        /\ result # Nothing
    BY <1>11 DEF DownloadBrief, Ready, Harvest
  <2>2. ~crossed /\ ~lost /\ configs = {} /\ harvests = <<>> /\ shares = {}
    BY <1>1, <1>11, <2>1 DEF DownloadBrief
  <2>3. LinkFits BY <1>0, <2>2
  <2>4. chosen = result.selected /\ result.of = <<picked, view>>
    BY <2>1, <2>2 DEF LinkInv, SelectionAgrees, InLine, LastIsHere, Shown, Here
  <2>5. /\ Tail(harvests') = <<>> /\ Head(harvests').of = <<picked, view>>
        /\ Head(harvests').entities = chosen
    BY <2>1, <2>2
  <2>6. QED
    BY <2>1, <2>2, <2>3, <2>4, <2>5 DEF OneAtATime, ShareFits, BriefFits, LinkFits, Manifest
<1>12. CASE RefuseShare
  BY <1>0, <1>12 DEF RefuseShare, asked, OneAtATime, ShareFits, BriefFits, LinkFits, Manifest
<1>13. CASE BuildShare
  <2>1. /\ UNCHANGED <<result, acting, configs, harvests, lost>> /\ url' = Nothing
        /\ shares' = shares \cup {<<picks, Manifest>>}
    BY <1>13 DEF BuildShare
  <2>2. configs = {} /\ harvests = <<>> /\ shares = {} BY <1>1, <1>13 DEF BuildShare
  <2>3. shares' = {<<picks, Manifest>>} /\ Manifest' = Manifest BY <2>1, <2>2 DEF Manifest
  <2>4. QED BY <2>1, <2>2, <2>3 DEF OneAtATime, ShareFits, BriefFits, LinkFits
<1>14. ASSUME NEW m \in shares, ShareArrives(m) \/ ShareFails(m) PROVE Goal
  <2>1. /\ UNCHANGED <<result, acting, configs, harvests, crossed, lost>>
        /\ shares' = shares \ {m} /\ (url' = m[2] \/ url' = url)
    BY <1>14 DEF ShareArrives, ShareFails
  <2>2. /\ configs = {} /\ harvests = <<>> /\ (\A a \in shares : a = m)
        /\ url = Nothing /\ (result # Nothing => m[2] = Manifest)
    BY <1>0, <1>14, <2>1 DEF OneAtATime, ShareFits
  <2>3. shares' = {} /\ Manifest' = Manifest BY <2>1, <2>2 DEF Manifest
  <2>4. QED BY <2>1, <2>2, <2>3 DEF OneAtATime, ShareFits, BriefFits, LinkFits
<1>15. QED
  BY <1>2, <1>3, <1>4, <1>5, <1>6, <1>7, <1>8, <1>9, <1>10, <1>11, <1>12, <1>13, <1>14
     DEF ExportNext

\* A link that is shown grants what the boxes below it say, if the owner waits
\* for each operation to end (buildDashboardShareLink).
THEOREM LinkHolds == ExportSpec => []LinkAsSelected
<1>1. ExportInit => ExportTyped /\ InLine BY ExportBegins, LineBegins
<1>2. ExportInit => Displayed /\ Fits
  BY DEF ExportInit, Displayed, Fits, OneAtATime, ShareFits, BriefFits, LinkFits
<1>3. (ExportTyped /\ InLine /\ Displayed /\ Fits /\ SelectionAgrees) /\ [ExportNext]_evars
        => (ExportTyped /\ InLine /\ Displayed /\ Fits)'
  BY ExportTypedKept, LineKept, DisplayedKept, FitsKept DEF LinkInv
<1>4. (ExportTyped /\ InLine /\ Displayed /\ Fits) => LinkAsSelected
  BY DEF Fits, LinkFits, LinkAsSelected
<1>5. QED BY <1>1, <1>2, <1>3, <1>4, SelectionHolds, PTL DEF ExportSpec

-----------------------------------------------------------------------------
(* The harvest.  What the recursive functions compute is shown by induction  *)
(* on the depth of a value: first that such functions exist, then what       *)
(* reaches an entity, one step of a path at a time.                          *)

LEMMA LeastExists ==
  ASSUME NEW T \in SUBSET Nat, T # {}
  PROVE  \E x \in T : \A y \in T : x <= y
<1>1. PICK x \in T : \A y \in T : ~(<<y, x>> \in OpToRel(<, Nat))
  BY NatLessThanWellFounded, WFMin
<1>2. \A y \in T : ~(y < x)
  <2> SUFFICES ASSUME NEW y \in T, y < x PROVE FALSE OBVIOUS
  <2>1. <<y, x>> \in OpToRel(<, Nat) BY DEF OpToRel
  <2>2. QED BY <1>1, <2>1
<1>3. QED BY <1>2

\* The values that are less deep.
Less(v) == {x \in Values : Depth[x] < Depth[v]}

LEMMA DepthIsNat == \A v \in Values : Depth[v] \in Nat BY ValuesAssumption

\* What holds of a value if it holds of all that are less deep holds of all.
LEMMA ByDepth ==
  ASSUME NEW Good \in SUBSET Values,
         \A v \in Values : Less(v) \subseteq Good => v \in Good
  PROVE  \A v \in Values : v \in Good
<1> SUFFICES ASSUME NEW v \in Values, v \notin Good PROVE FALSE OBVIOUS
<1> DEFINE Bad == {Depth[w] : w \in Values \ Good}
<1>1. Bad \in SUBSET Nat /\ Bad # {} BY DepthIsNat
<1> HIDE DEF Bad
<1>2. PICK n \in Bad : \A m \in Bad : n <= m BY <1>1, LeastExists, Zenon
<1>3. PICK w \in Values \ Good : n = Depth[w] BY DEF Bad
<1>4. PICK x \in Values : Depth[x] < Depth[w] /\ x \notin Good BY <1>3 DEF Less
<1>5. Depth[x] \in Bad BY <1>4 DEF Bad
<1>6. Depth[w] <= Depth[x] BY <1>2, <1>3, <1>5
<1>7. QED BY <1>3, <1>4, <1>6, DepthIsNat

\* A function on values is defined by what it is at each value, if that depends
\* on values that are less deep only.
\* G[v][f] is what a function is at v, if it is f elsewhere.
Within(S, G) == \A v \in Values : \A f \in [Values -> S] : G[v][f] \in S
Founded(S, G) ==
  \A v \in Values : \A f, g \in [Values -> S] :
    (\A w \in Less(v) : f[w] = g[w]) => G[v][f] = G[v][g]

Solved(S, G) == \E f \in [Values -> S] : \A v \in Values : f[v] = G[v][f]

LEMMA Recursion ==
  ASSUME NEW S, NEW G, S # {}, Within(S, G), Founded(S, G)
  PROVE  Solved(S, G)
<1>a. PICK s \in S : TRUE OBVIOUS
<1>b. \A v \in Values : \A f \in [Values -> S] : G[v][f] \in S BY DEF Within
<1>c. \A v \in Values : \A f, g \in [Values -> S] :
        (\A w \in Values : Depth[w] < Depth[v] => f[w] = g[w]) => G[v][f] = G[v][g]
  BY DEF Founded, Less
\* Functions that solve it as far as a depth agree that far.
<1>0. \A f, g \in [Values -> S], n \in Nat :
        (\A v \in Values : Depth[v] < n => f[v] = G[v][f] /\ g[v] = G[v][g])
          => \A v \in Values : Depth[v] < n => f[v] = g[v]
  <2> SUFFICES ASSUME NEW f \in [Values -> S], NEW g \in [Values -> S], NEW n \in Nat,
                      \A v \in Values : Depth[v] < n => f[v] = G[v][f] /\ g[v] = G[v][g]
               PROVE  \A v \in Values : Depth[v] < n => f[v] = g[v]
    OBVIOUS
  <2> DEFINE Good == {v \in Values : Depth[v] < n => f[v] = g[v]}
  <2>1. ASSUME NEW v \in Values, Less(v) \subseteq Good PROVE v \in Good
    <3> SUFFICES ASSUME Depth[v] < n PROVE f[v] = g[v] OBVIOUS
    <3>1. ASSUME NEW w \in Values, Depth[w] < Depth[v] PROVE f[w] = g[w]
      <4>1. Depth[w] \in Nat /\ Depth[v] \in Nat BY DepthIsNat
      <4>2. Depth[w] < n BY <3>1, <4>1
      <4>3. QED BY <2>1, <3>1, <4>2 DEF Less
    <3>2. G[v][f] = G[v][g] BY <1>c, <3>1
    <3>3. QED BY <3>2
  <2>2. Good \in SUBSET Values OBVIOUS
  <2> HIDE DEF Good
  <2>3. \A v \in Values : v \in Good BY <2>1, <2>2, ByDepth, Zenon
  <2>4. QED BY <2>3 DEF Good
<1> DEFINE Solves(n, f) == \A v \in Values : Depth[v] < n => f[v] = G[v][f]
           Failed == {n \in Nat : ~\E f \in [Values -> S] : Solves(n, f)}
<1>1. Failed = {}
  <2> SUFFICES ASSUME Failed # {} PROVE FALSE OBVIOUS
  <2>1. Failed \in SUBSET Nat OBVIOUS
  <2>2. PICK n \in Failed : \A m \in Failed : n <= m
    <3> HIDE DEF Failed
    <3>1. QED BY <2>1, LeastExists, Zenon
  <2>3. n \in Nat /\ ~\E f \in [Values -> S] : Solves(n, f) OBVIOUS
  <2>4. n # 0
    <3>1. [v \in Values |-> s] \in [Values -> S] BY <1>a
    <3>2. \A v \in Values : ~(Depth[v] < 0) BY DepthIsNat
    <3>3. Solves(0, [v \in Values |-> s]) BY <3>2
    <3>4. QED BY <2>3, <3>1, <3>3
  <2>5. n - 1 \in Nat /\ ~(n <= n - 1) BY <2>3, <2>4
  <2>6. PICK f \in [Values -> S] : Solves(n - 1, f)
    <3>1. n - 1 \notin Failed
      <4> HIDE DEF Failed
      <4>1. QED BY <2>2, <2>5
    <3>2. QED BY <2>5, <3>1
  <2> DEFINE g == [v \in Values |-> G[v][f]]
  <2>7. g \in [Values -> S] BY <1>b
  <2>8. ASSUME NEW v \in Values, Depth[v] < n PROVE g[v] = G[v][g]
    <3>1. ASSUME NEW w \in Values, Depth[w] < Depth[v] PROVE f[w] = g[w]
      <4>1. Depth[w] \in Nat /\ Depth[v] \in Nat BY DepthIsNat
      <4>2. Depth[w] < n - 1 BY <2>3, <2>8, <3>1, <4>1
      <4>3. f[w] = G[w][f] BY <2>6, <4>2
      <4>4. QED BY <4>3
    <3>2. G[v][f] = G[v][g]
      <4> HIDE DEF g
      <4>1. QED BY <1>c, <2>7, <3>1
    <3>3. QED BY <3>2
  <2>9. QED
    <3> HIDE DEF g
    <3>1. QED BY <2>3, <2>7, <2>8
<1>2. \A n \in Nat : \E f \in [Values -> S] : Solves(n, f) BY <1>1
<1> DEFINE F == [n \in Nat |-> CHOOSE f \in [Values -> S] : Solves(n, f)]
<1>3. \A n \in Nat : F[n] \in [Values -> S] /\ Solves(n, F[n])
  <2> HIDE DEF Solves
  <2>1. QED BY <1>2, Zenon
<1> HIDE DEF F
<1> DEFINE h == [v \in Values |-> F[Depth[v] + 1][v]]
<1>4. \A v \in Values : Depth[v] \in Nat /\ Depth[v] + 1 \in Nat BY DepthIsNat
<1>5. h \in [Values -> S] BY <1>3, <1>4
<1>6. ASSUME NEW v \in Values PROVE h[v] = G[v][h]
  <2> DEFINE f == F[Depth[v] + 1]
  <2>1. f \in [Values -> S] /\ Solves(Depth[v] + 1, f)
    <3> HIDE DEF Solves
    <3>1. QED BY <1>3, <1>4
  <2>2. Depth[v] < Depth[v] + 1 BY <1>4
  <2>3. f[v] = G[v][f] BY <2>1, <2>2
  <2>4. ASSUME NEW w \in Values, Depth[w] < Depth[v] PROVE f[w] = h[w]
    <3> DEFINE e == F[Depth[w] + 1]
    <3>1. e \in [Values -> S] /\ Solves(Depth[w] + 1, e)
      <4> HIDE DEF Solves
      <4>1. QED BY <1>3, <1>4
    <3>2. \A x \in Values : Depth[x] < Depth[w] + 1 => f[x] = G[x][f]
      <4> SUFFICES ASSUME NEW x \in Values, Depth[x] < Depth[w] + 1 PROVE f[x] = G[x][f] OBVIOUS
      <4>1. Depth[x] < Depth[v] + 1 BY <1>4, <2>4
      <4>2. QED BY <2>1, <4>1
    <3>3. \A x \in Values : Depth[x] < Depth[w] + 1 => e[x] = G[x][e] BY <3>1
    <3> HIDE DEF e, f
    <3>4. Depth[w] + 1 \in Nat /\ e \in [Values -> S] /\ f \in [Values -> S] BY <1>4, <2>1, <3>1
    <3>5. \A x \in Values : Depth[x] < Depth[w] + 1 => f[x] = e[x] BY <1>0, <3>2, <3>3, <3>4
    <3>6. Depth[w] < Depth[w] + 1 BY <1>4
    <3>7. f[w] = e[w] BY <3>5, <3>6
    <3>8. QED BY <3>7 DEF e
  <2> HIDE DEF f, h
  <2>5. G[v][f] = G[v][h] BY <1>c, <1>5, <2>1, <2>4
  <2>6. h[v] = f[v] BY DEF f, h
  <2>7. QED BY <2>3, <2>5, <2>6
<1>7. QED
  <2> HIDE DEF h
  <2>1. QED BY <1>5, <1>6 DEF Solved

-----------------------------------------------------------------------------
(* The recursive functions are what their definitions say. *)

\* What is in a value, or in a list in it, is less deep.
LEMMA PartsLess ==
  ASSUME NEW v \in Values
  PROVE  /\ Parts(v) \subseteq Less(v) /\ Items(v) \subseteq Less(v)
         /\ \A k : At(v, k) \subseteq Less(v) /\ Under(v, k) \subseteq Less(v)
<1>1. \A w \in Values : Parts(w) \subseteq Less(w) BY ValuesAssumption DEF Less
<1>2. \A w : Items(w) \subseteq Parts(w) BY DEF Parts
<1>3. ASSUME NEW k PROVE At(v, k) \subseteq Parts(v)
  <2>1. CASE k \in Keys(v) BY <2>1 DEF Parts
  <2>2. CASE k \notin Keys(v) BY <2>2 DEF At
  <2>3. QED BY <2>1, <2>2
<1>4. ASSUME NEW k, NEW x \in Under(v, k) PROVE x \in Less(v)
  <2>1. PICK y \in At(v, k) : x \in AsList(y) BY DEF Under
  <2>2. y \in Less(v) BY <1>1, <1>3, <2>1
  <2>3. CASE x = y BY <2>2, <2>3
  <2>4. CASE x \in Items(y)
    <3>1. x \in Less(y) BY <1>1, <1>2, <2>2, <2>4 DEF Less
    <3>2. Depth[x] \in Nat /\ Depth[y] \in Nat /\ Depth[v] \in Nat
      BY <2>2, <3>1, ValuesAssumption DEF Less
    <3>3. QED BY <2>2, <3>1, <3>2 DEF Less
  <2>5. QED BY <2>1, <2>3, <2>4 DEF AsList
<1>5. QED BY <1>1, <1>2, <1>3, <1>4

RefsFrom(v, f) ==
  IF v[1] = "text" THEN {v[2]} \cap EntityIds
                   ELSE UNION {f[x] : x \in Items(v) \cup At(v, "entity")}

\* Each of the functions exists and solves its equation.
LEMMA RefsIs == \A v \in Values : Refs[v] = RefsFrom(v, Refs) /\ Refs[v] \in SUBSET EntityIds
<1> DEFINE S == SUBSET EntityIds
           G == [v \in Values |-> [f \in [Values -> S] |-> RefsFrom(v, f)]]
<1>1. ASSUME NEW v \in Values, NEW f, \A x \in Less(v) : f[x] \in S PROVE RefsFrom(v, f) \in S
  <2>1. \A x \in Items(v) \cup At(v, "entity") : f[x] \in S BY <1>1, PartsLess
  <2>2. QED BY <2>1 DEF RefsFrom
<1>2. ASSUME NEW v \in Values, NEW f \in [Values -> S], NEW g \in [Values -> S],
             \A w \in Less(v) : f[w] = g[w]
      PROVE  RefsFrom(v, f) = RefsFrom(v, g)
  <2>1. \A x \in Items(v) \cup At(v, "entity") : f[x] = g[x] BY <1>2, PartsLess
  <2>2. {f[x] : x \in Items(v) \cup At(v, "entity")} = {g[x] : x \in Items(v) \cup At(v, "entity")}
    BY <2>1
  <2>3. QED BY <2>2 DEF RefsFrom
<1>3. Solved(S, G)
  <2>1. \A v \in Values : \A f \in [Values -> S] : G[v][f] = RefsFrom(v, f) OBVIOUS
  <2>2. Within(S, G)
    <3>1. ASSUME NEW v \in Values, NEW f \in [Values -> S] PROVE G[v][f] \in S
      <4>1. \A x \in Less(v) : f[x] \in S BY DEF Less
      <4>2. RefsFrom(v, f) \in S BY <1>1, <4>1
      <4>3. QED BY <2>1, <4>2
    <3>2. QED BY <3>1 DEF Within
  <2>3. Founded(S, G) BY <1>2, <2>1 DEF Founded
  <2>4. S # {} OBVIOUS
  <2> HIDE DEF S, G
  <2>5. QED BY <2>2, <2>3, <2>4, Recursion, Zenon
<1>4. PICK f \in [Values -> S] : \A v \in Values : f[v] = RefsFrom(v, f) BY <1>3 DEF Solved
<1>5. f = [v \in Values |-> RefsFrom(v, f)] BY <1>4
<1>6. Refs = CHOOSE g : g = [v \in Values |-> RefsFrom(v, g)] BY DEF Refs, RefsFrom
<1>7. Refs = [v \in Values |-> RefsFrom(v, Refs)] BY <1>5, <1>6, Zenon
<1>8. \A v \in Values : Refs[v] = RefsFrom(v, Refs) BY <1>7, Zenon
<1> DEFINE Good == {v \in Values : Refs[v] \in S}
<1>9. \A v \in Values : v \in Good
  <2>1. ASSUME NEW v \in Values, Less(v) \subseteq Good PROVE v \in Good
    <3>1. \A x \in Less(v) : Refs[x] \in S BY <2>1
    <3>2. RefsFrom(v, Refs) \in S BY <1>1, <3>1
    <3>3. QED BY <1>8, <3>2
  <2>2. Good \in SUBSET Values OBVIOUS
  <2> HIDE DEF Good
  <2>3. QED BY <2>1, <2>2, ByDepth, Zenon
<1>10. QED BY <1>8, <1>9

NamedFrom(card, f) ==
  (UNION {Refs[x] : x \in UNION {At(card, k) : k \in Naming}})
    \cup (UNION {f[x] : x \in Searched(card)})

LEMMA NamedIs ==
  \A card \in Values : Named[card] = NamedFrom(card, Named) /\ Named[card] \in SUBSET EntityIds
<1> DEFINE S == SUBSET EntityIds
           G == [v \in Values |-> [f \in [Values -> S] |-> NamedFrom(v, f)]]
<1>0. ASSUME NEW v \in Values PROVE Searched(v) \subseteq Less(v) BY PartsLess DEF Searched
<1>1. ASSUME NEW v \in Values, NEW f, \A x \in Less(v) : f[x] \in S PROVE NamedFrom(v, f) \in S
  <2>1. \A x \in Searched(v) : f[x] \in S BY <1>0, <1>1
  <2>2. \A x \in UNION {At(v, k) : k \in Naming} : Refs[x] \in S BY RefsIs, PartsLess DEF Less
  <2>3. QED BY <2>1, <2>2 DEF NamedFrom
<1>2. ASSUME NEW v \in Values, NEW f \in [Values -> S], NEW g \in [Values -> S],
             \A w \in Less(v) : f[w] = g[w]
      PROVE  NamedFrom(v, f) = NamedFrom(v, g)
  <2>1. \A x \in Searched(v) : f[x] = g[x] BY <1>0, <1>2
  <2>2. {f[x] : x \in Searched(v)} = {g[x] : x \in Searched(v)} BY <2>1
  <2>3. QED BY <2>2 DEF NamedFrom
<1>3. Solved(S, G)
  <2>1. \A v \in Values : \A f \in [Values -> S] : G[v][f] = NamedFrom(v, f) OBVIOUS
  <2>2. Within(S, G)
    <3>1. ASSUME NEW v \in Values, NEW f \in [Values -> S] PROVE G[v][f] \in S
      <4>1. \A x \in Less(v) : f[x] \in S BY DEF Less
      <4>2. NamedFrom(v, f) \in S BY <1>1, <4>1
      <4>3. QED BY <2>1, <4>2
    <3>2. QED BY <3>1 DEF Within
  <2>3. Founded(S, G) BY <1>2, <2>1 DEF Founded
  <2>4. S # {} OBVIOUS
  <2> HIDE DEF S, G
  <2>5. QED BY <2>2, <2>3, <2>4, Recursion, Zenon
<1>4. PICK f \in [Values -> S] : \A v \in Values : f[v] = NamedFrom(v, f) BY <1>3 DEF Solved
<1>5. f = [v \in Values |-> NamedFrom(v, f)] BY <1>4
<1>6. Named = CHOOSE g : g = [v \in Values |-> NamedFrom(v, g)] BY DEF Named, NamedFrom
<1>7. Named = [v \in Values |-> NamedFrom(v, Named)] BY <1>5, <1>6, Zenon
<1>8. \A v \in Values : Named[v] = NamedFrom(v, Named) BY <1>7, Zenon
<1> DEFINE Good == {v \in Values : Named[v] \in S}
<1>9. \A v \in Values : v \in Good
  <2>1. ASSUME NEW v \in Values, Less(v) \subseteq Good PROVE v \in Good
    <3>1. \A x \in Less(v) : Named[x] \in S BY <2>1
    <3>2. NamedFrom(v, Named) \in S BY <1>1, <3>1
    <3>3. QED BY <1>8, <3>2
  <2>2. Good \in SUBSET Values OBVIOUS
  <2> HIDE DEF Good
  <2>3. QED BY <2>1, <2>2, ByDepth, Zenon
<1>10. QED BY <1>8, <1>9

WalkFrom(card, f) ==
  LET names == Named[card]
      children == {f[c] : c \in Children(card)} IN
    [read    |-> names \cup (UNION {w.read : w \in children}),
     history |-> (IF TypeOf(card) \in HistoryTypes THEN names ELSE {})
                   \cup (UNION {w.history : w \in children}),
     cameras |-> Shot(card) \cup (UNION {w.cameras : w \in children}),
     shown   |-> names \cup Shot(card) \cup (UNION {w.shown : w \in children})]

Walks ==
  [read : SUBSET EntityIds, history : SUBSET EntityIds, cameras : SUBSET EntityIds,
   shown : SUBSET EntityIds]

LEMMA WalkIs == \A card \in Values : Walk[card] = WalkFrom(card, Walk)
<1> DEFINE G == [v \in Values |-> [f \in [Values -> Walks] |-> WalkFrom(v, f)]]
<1>0. ASSUME NEW v \in Values PROVE Children(v) \subseteq Less(v) BY PartsLess DEF Children
<1>1. ASSUME NEW v \in Values, NEW f \in [Values -> Walks] PROVE WalkFrom(v, f) \in Walks
  <2>1. Named[v] \in SUBSET EntityIds BY NamedIs
  <2>2. Shot(v) \in SUBSET EntityIds BY LovelaceAssumption DEF Shot
  <2> DEFINE children == {f[c] : c \in Children(v)}
  <2>3. \A w \in children : w \in Walks BY <1>0 DEF Less
  <2>4. /\ UNION {w.read : w \in children} \in SUBSET EntityIds
        /\ UNION {w.history : w \in children} \in SUBSET EntityIds
        /\ UNION {w.cameras : w \in children} \in SUBSET EntityIds
        /\ UNION {w.shown : w \in children} \in SUBSET EntityIds
    <3> HIDE DEF children
    <3>1. QED BY <2>3 DEF Walks
  <2>5. WalkFrom(v, f) =
          [read    |-> Named[v] \cup (UNION {w.read : w \in children}),
           history |-> (IF TypeOf(v) \in HistoryTypes THEN Named[v] ELSE {})
                         \cup (UNION {w.history : w \in children}),
           cameras |-> Shot(v) \cup (UNION {w.cameras : w \in children}),
           shown   |-> Named[v] \cup Shot(v) \cup (UNION {w.shown : w \in children})]
    BY DEF WalkFrom
  <2> HIDE DEF children
  <2>6. QED BY <2>1, <2>2, <2>4, <2>5 DEF Walks
<1>2. ASSUME NEW v \in Values, NEW f \in [Values -> Walks], NEW g \in [Values -> Walks],
             \A w \in Less(v) : f[w] = g[w]
      PROVE  WalkFrom(v, f) = WalkFrom(v, g)
  <2>1. \A x \in Children(v) : f[x] = g[x] BY <1>0, <1>2
  <2>2. {f[x] : x \in Children(v)} = {g[x] : x \in Children(v)} BY <2>1
  <2>3. QED BY <2>2 DEF WalkFrom
<1>3. Solved(Walks, G)
  <2>1. \A v \in Values : \A f \in [Values -> Walks] : G[v][f] = WalkFrom(v, f) OBVIOUS
  <2>2. Within(Walks, G) BY <1>1, <2>1 DEF Within
  <2>3. Founded(Walks, G) BY <1>2, <2>1 DEF Founded
  <2>4. [read |-> {}, history |-> {}, cameras |-> {}, shown |-> {}] \in Walks BY DEF Walks
  <2>5. Walks # {} BY <2>4
  <2> HIDE DEF G
  <2>6. QED BY <2>2, <2>3, <2>5, Recursion, Zenon
<1>4. PICK f \in [Values -> Walks] : \A v \in Values : f[v] = WalkFrom(v, f)
  <2>1. \A v \in Values : \A f \in [Values -> Walks] : G[v][f] = WalkFrom(v, f) OBVIOUS
  <2> HIDE DEF G
  <2>2. QED BY <1>3, <2>1 DEF Solved
<1>5. f = [v \in Values |-> WalkFrom(v, f)] BY <1>4
<1>6. Walk = CHOOSE g : g = [v \in Values |-> WalkFrom(v, g)] BY DEF Walk, WalkFrom
<1>7. Walk = [v \in Values |-> WalkFrom(v, Walk)] BY <1>5, <1>6, Zenon
<1>8. QED BY <1>7, Zenon

\* The same by fields.
LEMMA WalkParts ==
  ASSUME NEW v \in Values
  PROVE  LET children == {Walk[c] : c \in Children(v)} IN
         /\ Walk[v].read = Named[v] \cup (UNION {w.read : w \in children})
         /\ Walk[v].history = (IF TypeOf(v) \in HistoryTypes THEN Named[v] ELSE {})
                                \cup (UNION {w.history : w \in children})
         /\ Walk[v].cameras = Shot(v) \cup (UNION {w.cameras : w \in children})
         /\ Walk[v].shown = Named[v] \cup Shot(v) \cup (UNION {w.shown : w \in children})
<1> DEFINE children == {Walk[c] : c \in Children(v)}
           read == Named[v] \cup (UNION {w.read : w \in children})
           past == (IF TypeOf(v) \in HistoryTypes THEN Named[v] ELSE {})
                     \cup (UNION {w.history : w \in children})
           shot == Shot(v) \cup (UNION {w.cameras : w \in children})
           all  == Named[v] \cup Shot(v) \cup (UNION {w.shown : w \in children})
<1>1. WalkFrom(v, Walk) = [read |-> read, history |-> past, cameras |-> shot, shown |-> all]
  BY DEF WalkFrom
<1>2. Walk[v] = WalkFrom(v, Walk) BY WalkIs, Zenon
<1>3. Walk[v].read = read /\ Walk[v].history = past /\ Walk[v].cameras = shot /\ Walk[v].shown = all
  <2> HIDE DEF read, past, shot, all
  <2>1. QED BY <1>1, <1>2
<1>4. QED BY <1>3

\* The steps that occur, the paths and the texts.
AllSteps == {Place} \cup {Key(k) : k \in UNION {Keys(v) : v \in Values}}
Paths    == Seq(AllSteps)
Texts    == {v[2] : v \in Values}

LeavesFrom(v, f) ==
  IF v[1] = "text" THEN {<< <<>>, v[2]>>}
                   ELSE UNION {Behind(s[1], f[s[2]]) : s \in Steps(v)}

LEMMA StepsLess ==
  ASSUME NEW v \in Values, NEW s \in Steps(v)
  PROVE  s[1] \in AllSteps /\ s[2] \in Less(v)
<1>1. CASE \E x \in Items(v) : s = <<Place, x>> BY <1>1, PartsLess DEF AllSteps
<1>2. CASE \E k \in Keys(v) : s = <<Key(k), v[2][k]>>
  <2>1. PICK k \in Keys(v) : s = <<Key(k), v[2][k]>> BY <1>2
  <2>2. v[2][k] \in At(v, k) BY DEF At
  <2>3. v[2][k] \in Less(v) BY <2>2, PartsLess
  <2>4. Key(k) \in AllSteps BY DEF AllSteps
  <2>5. QED BY <2>1, <2>3, <2>4
<1>3. QED BY <1>1, <1>2 DEF Steps

LEMMA LeavesIs ==
  \A v \in Values : Leaves[v] = LeavesFrom(v, Leaves) /\ Leaves[v] \in SUBSET (Paths \X Texts)
<1> DEFINE S == SUBSET (Paths \X Texts)
           G == [v \in Values |-> [f \in [Values -> S] |-> LeavesFrom(v, f)]]
<1>1. ASSUME NEW v \in Values, NEW f, \A x \in Less(v) : f[x] \in S PROVE LeavesFrom(v, f) \in S
  <2>1. CASE v[1] = "text"
    <3>1. <<>> \in Paths /\ v[2] \in Texts BY DEF Paths, Texts
    <3>2. QED BY <2>1, <3>1 DEF LeavesFrom
  <2>2. CASE v[1] # "text"
    <3>1. ASSUME NEW s \in Steps(v) PROVE Behind(s[1], f[s[2]]) \in S
      <4> SUFFICES ASSUME NEW l \in f[s[2]]
                   PROVE  << <<s[1]>> \o l[1], l[2]>> \in Paths \X Texts
        BY DEF Behind
      <4>1. l \in Paths \X Texts BY <1>1, StepsLess
      <4>2. l[1] \in Seq(AllSteps) /\ <<s[1]>> \in Seq(AllSteps) BY <4>1, StepsLess DEF Paths
      <4>3. <<s[1]>> \o l[1] \in Seq(AllSteps) BY <4>2
      <4>4. QED BY <4>1, <4>3 DEF Paths
    <3>2. QED BY <2>2, <3>1 DEF LeavesFrom
  <2>3. QED BY <2>1, <2>2
<1>2. ASSUME NEW v \in Values, NEW f \in [Values -> S], NEW g \in [Values -> S],
             \A w \in Less(v) : f[w] = g[w]
      PROVE  LeavesFrom(v, f) = LeavesFrom(v, g)
  <2>1. \A s \in Steps(v) : f[s[2]] = g[s[2]] BY <1>2, StepsLess
  <2>2. {Behind(s[1], f[s[2]]) : s \in Steps(v)} = {Behind(s[1], g[s[2]]) : s \in Steps(v)}
    BY <2>1
  <2>3. QED BY <2>2 DEF LeavesFrom
<1>3. Solved(S, G)
  <2>1. \A v \in Values : \A f \in [Values -> S] : G[v][f] = LeavesFrom(v, f) OBVIOUS
  <2>2. Within(S, G)
    <3>1. ASSUME NEW v \in Values, NEW f \in [Values -> S] PROVE G[v][f] \in S
      <4>1. \A x \in Less(v) : f[x] \in S BY DEF Less
      <4>2. LeavesFrom(v, f) \in S BY <1>1, <4>1
      <4>3. QED BY <2>1, <4>2
    <3>2. QED BY <3>1 DEF Within
  <2>3. Founded(S, G)
    <3> HIDE DEF S, G
    <3>1. QED BY <1>2, <2>1 DEF Founded
  <2>4. S # {} OBVIOUS
  <2> HIDE DEF S, G
  <2>5. QED BY <2>2, <2>3, <2>4, Recursion, Zenon
<1>4. PICK f \in [Values -> S] : \A v \in Values : f[v] = LeavesFrom(v, f)
  <2>1. \A v \in Values : \A f \in [Values -> S] : G[v][f] = LeavesFrom(v, f) OBVIOUS
  <2> HIDE DEF S, G
  <2>2. QED BY <1>3, <2>1 DEF Solved
<1>5. f = [v \in Values |-> LeavesFrom(v, f)]
  <2> HIDE DEF S
  <2>1. QED BY <1>4
<1>6. Leaves = CHOOSE g : g = [v \in Values |-> LeavesFrom(v, g)] BY DEF Leaves, LeavesFrom
<1>7. Leaves = [v \in Values |-> LeavesFrom(v, Leaves)] BY <1>5, <1>6, Zenon
<1>8. \A v \in Values : Leaves[v] = LeavesFrom(v, Leaves) BY <1>7, Zenon
<1> DEFINE Good == {v \in Values : Leaves[v] \in S}
<1>9. \A v \in Values : v \in Good
  <2>1. ASSUME NEW v \in Values, Less(v) \subseteq Good PROVE v \in Good
    <3>1. \A x \in Less(v) : Leaves[x] \in S BY <2>1
    <3>2. LeavesFrom(v, Leaves) \in S BY <1>1, <3>1
    <3>3. QED BY <1>8, <3>2
  <2>2. Good \in SUBSET Values OBVIOUS
  <2> HIDE DEF Good
  <2>3. QED BY <2>1, <2>2, ByDepth, Zenon
<1>10. QED BY <1>8, <1>9

-----------------------------------------------------------------------------
(* Paths, one step at a time. *)

\* The steps to child cards, to what names entities, and below that.
CardSteps == {Key(k) : k \in ChildKeys}
NameSteps == {Key(k) : k \in Naming}
RowSteps  == {Key("entity"), Place}

LEMMA StepsDiffer ==
  /\ Place \notin CardSteps /\ Place \notin NameSteps /\ CardSteps \cap NameSteps = {}
  /\ {Key(k) : k \in ChildKeys \cup Naming} = CardSteps \cup NameSteps
  /\ \A k : /\ Key(k) # Place
            /\ Key(k) \in CardSteps <=> k \in ChildKeys
            /\ Key(k) \in NameSteps <=> k \in Naming
            /\ Key(k) \in RowSteps <=> k = "entity"
<1>1. \A k, j : Key(k) = Key(j) <=> k = j BY DEF Key
<1>2. \A k : Key(k) # Place BY DEF Key, Place
<1>3. \A k \in ChildKeys : k \notin Naming BY DEF ChildKeys, Naming
<1>4. QED BY <1>1, <1>2, <1>3 DEF CardSteps, NameSteps, RowSteps

\* A path with a step ahead of it.
LEMMA Prefixed ==
  ASSUME NEW s \in AllSteps, NEW q \in Paths
  PROVE  /\ <<s>> \o q \in Paths
         /\ Len(q) \in Nat /\ Len(<<s>> \o q) = Len(q) + 1
         /\ (<<s>> \o q)[1] = s
         /\ \A i \in 1..Len(q) : (<<s>> \o q)[i + 1] = q[i]
<1>1. q \in Seq(AllSteps) /\ <<s>> \in Seq(AllSteps) BY DEF Paths
<1>2. QED BY <1>1 DEF Paths

\* A stretch of a path, seen with a step ahead of it.
LEMMA Stretch ==
  ASSUME NEW s \in AllSteps, NEW q \in Paths, NEW X, NEW m \in Nat, NEW n \in 0..Len(q)
  PROVE  /\ (\A i \in 1..n + 1 : (<<s>> \o q)[i] \in X) <=> s \in X /\ \A i \in 1..n : q[i] \in X
         /\ (\A i \in m + 2..n + 1 : (<<s>> \o q)[i] \in X) <=> \A i \in m + 1..n : q[i] \in X
<1> DEFINE p == <<s>> \o q
<1>1. p[1] = s /\ Len(q) \in Nat /\ \A i \in 1..Len(q) : p[i + 1] = q[i] BY Prefixed
<1> HIDE DEF p
<1>2. \A i \in 1..n : p[i + 1] = q[i] BY <1>1
<1>3. ASSUME NEW i \in 2..n + 1 PROVE i - 1 \in 1..n /\ p[i] = q[i - 1]
  <2>1. i - 1 \in 1..n /\ (i - 1) + 1 = i BY <1>1
  <2>2. QED BY <1>2, <2>1
<1>4. (\A i \in 1..n + 1 : p[i] \in X) <=> s \in X /\ \A i \in 1..n : q[i] \in X
  <2>1. ASSUME \A i \in 1..n + 1 : p[i] \in X PROVE s \in X /\ \A i \in 1..n : q[i] \in X
    <3>1. 1 \in 1..n + 1 /\ \A i \in 1..n : i + 1 \in 1..n + 1 BY <1>1
    <3>2. QED BY <1>1, <1>2, <2>1, <3>1
  <2>2. ASSUME s \in X, \A i \in 1..n : q[i] \in X, NEW i \in 1..n + 1 PROVE p[i] \in X
    <3>1. i = 1 \/ i \in 2..n + 1 BY <1>1
    <3>2. QED BY <1>1, <1>3, <2>2, <3>1
  <2>3. QED BY <2>1, <2>2
<1>5. (\A i \in m + 2..n + 1 : p[i] \in X) <=> \A i \in m + 1..n : q[i] \in X
  <2>1. ASSUME \A i \in m + 2..n + 1 : p[i] \in X, NEW i \in m + 1..n PROVE q[i] \in X
    <3>1. i + 1 \in m + 2..n + 1 /\ i \in 1..n BY <1>1
    <3>2. QED BY <1>2, <2>1, <3>1
  <2>2. ASSUME \A i \in m + 1..n : q[i] \in X, NEW i \in m + 2..n + 1 PROVE p[i] \in X
    <3>1. i - 1 \in m + 1..n /\ i \in 2..n + 1 BY <1>1
    <3>2. QED BY <1>3, <2>2, <3>1
  <2>3. QED BY <2>1, <2>2
<1>6. QED BY <1>4, <1>5 DEF p

\* The paths below an entity or entities.
RefPaths == {p \in Paths : \A i \in 1..Len(p) : p[i] \in RowSteps}

LEMMA RefAhead ==
  ASSUME NEW s \in AllSteps, NEW q \in Paths
  PROVE  <<s>> \o q \in RefPaths <=> s \in RowSteps /\ q \in RefPaths
<1>1. /\ <<s>> \o q \in Paths /\ Len(q) \in Nat /\ Len(<<s>> \o q) = Len(q) + 1
      /\ Len(q) \in 0..Len(q)
  BY Prefixed
<1>2. (\A i \in 1..Len(q) + 1 : (<<s>> \o q)[i] \in RowSteps)
        <=> s \in RowSteps /\ \A i \in 1..Len(q) : q[i] \in RowSteps
  BY <1>1, Stretch
<1>3. QED BY <1>1, <1>2 DEF RefPaths

\* How a path divides, but for the places.
Parted(p, a, b) ==
  /\ \A i \in 1..a : p[i] \in CardSteps \cup {Place}
  /\ \A i \in a + 1..b : p[i] \in AllSteps \ (CardSteps \cup NameSteps)
  /\ p[b + 1] \in NameSteps
  /\ \A i \in b + 2..Len(p) : p[i] \in RowSteps

\* No place follows another, nor comes first; or it may come first.
Single(p, b) == \A i \in 1..b : p[i] = Place => i > 1 /\ p[i - 1] # Place
Loose(p, b)  == \A i \in 2..b : p[i] = Place => p[i - 1] # Place

LEMMA SplitsAre ==
  ASSUME NEW p \in Paths, NEW b \in 0..Len(p) - 1, NEW a \in 0..b
  PROVE  Splits(p, a, b) <=> Parted(p, a, b) /\ Single(p, b)
<1>1. Len(p) \in Nat /\ \A i \in 1..Len(p) : p[i] \in AllSteps BY DEF Paths
<1>2. \A i \in a + 1..b : i \in 1..Len(p) BY <1>1
<1>3. \A i \in a + 1..b : p[i] \in AllSteps \ (CardSteps \cup NameSteps)
                            <=> p[i] \notin {Key(k) : k \in ChildKeys \cup Naming}
  BY <1>1, <1>2, StepsDiffer
<1>4. QED BY <1>3 DEF Splits, Parted, Single, CardSteps, NameSteps, RowSteps

\* What parts a path with a step ahead of it.
OtherSteps == AllSteps \ (CardSteps \cup NameSteps)

LEMMA PartedAhead ==
  ASSUME NEW s \in AllSteps, NEW q \in Paths
  PROVE  /\ Parted(<<s>> \o q, 0, 0) <=> s \in NameSteps /\ q \in RefPaths
         /\ \A b \in 0..Len(q) - 1 :
              /\ Parted(<<s>> \o q, 0, b + 1) <=> s \in OtherSteps /\ Parted(q, 0, b)
              /\ \A a \in 0..b : Parted(<<s>> \o q, a + 1, b + 1)
                                   <=> s \in CardSteps \cup {Place} /\ Parted(q, a, b)
<1> DEFINE p == <<s>> \o q
           n == Len(q)
<1>1. n \in Nat /\ Len(p) = n + 1 /\ p[1] = s /\ \A i \in 1..n : p[i + 1] = q[i] BY Prefixed
<1>2. \A m \in Nat : (\A i \in m + 2..n + 1 : p[i] \in RowSteps) <=> \A i \in m + 1..n : q[i] \in RowSteps
  <2>1. n \in 0..Len(q) BY <1>1
  <2>2. QED BY <2>1, Stretch
<1>3. \A X : \A b \in 0..n : (\A i \in 1..b + 1 : p[i] \in X) <=> s \in X /\ \A i \in 1..b : q[i] \in X
  <2>1. 0 \in Nat OBVIOUS
  <2>2. QED BY <2>1, Stretch
<1>4. \A X : \A b \in 0..n, m \in Nat :
        (\A i \in m + 2..b + 1 : p[i] \in X) <=> \A i \in m + 1..b : q[i] \in X
  BY Stretch
<1>5. Parted(p, 0, 0) <=> s \in NameSteps /\ q \in RefPaths
  <2> HIDE DEF p
  <2>1. (\A i \in 0 + 2..n + 1 : p[i] \in RowSteps) <=> \A i \in 0 + 1..n : q[i] \in RowSteps BY <1>2
  <2>2. (\A i \in 2..n + 1 : p[i] \in RowSteps) <=> \A i \in 1..n : q[i] \in RowSteps BY <2>1
  <2>3. QED BY <1>1, <2>2 DEF Parted, RefPaths
<1>6. ASSUME NEW b \in 0..n - 1
      PROVE  /\ p[b + 1 + 1] = q[b + 1]
             /\ (\A i \in b + 1 + 2..Len(p) : p[i] \in RowSteps) <=> \A i \in b + 2..n : q[i] \in RowSteps
  <2> HIDE DEF p, n
  <2>1. b + 1 \in 1..n /\ b + 1 \in Nat BY <1>1
  <2>2. (\A i \in (b + 1) + 2..n + 1 : p[i] \in RowSteps) <=> \A i \in (b + 1) + 1..n : q[i] \in RowSteps
    BY <1>2, <2>1
  <2>3. (b + 1) + 1 = b + 2 BY <2>1
  <2>4. QED BY <1>1, <2>1, <2>2, <2>3
<1>7. ASSUME NEW b \in 0..n - 1
      PROVE  Parted(p, 0, b + 1) <=> s \in OtherSteps /\ Parted(q, 0, b)
  <2> HIDE DEF p
  <2>1. b \in 0..n BY <1>1
  <2>2. (\A i \in 1..b + 1 : p[i] \in OtherSteps) <=> s \in OtherSteps /\ \A i \in 1..b : q[i] \in OtherSteps
    BY <1>3, <2>1
  <2>3. QED BY <1>1, <1>6, <2>2 DEF Parted, OtherSteps
<1>8. ASSUME NEW b \in 0..n - 1, NEW a \in 0..b
      PROVE  Parted(p, a + 1, b + 1) <=> s \in CardSteps \cup {Place} /\ Parted(q, a, b)
  <2> HIDE DEF p
  <2>1. a \in 0..n /\ b \in 0..n /\ a \in Nat BY <1>1
  <2>2. (\A i \in 1..a + 1 : p[i] \in CardSteps \cup {Place})
          <=> s \in CardSteps \cup {Place} /\ \A i \in 1..a : q[i] \in CardSteps \cup {Place}
    BY <1>3, <2>1
  <2>3. (\A i \in a + 2..b + 1 : p[i] \in OtherSteps) <=> \A i \in a + 1..b : q[i] \in OtherSteps
    BY <1>4, <2>1
  <2>4. a + 1 + 1 = a + 2 BY <2>1
  <2>5. QED BY <1>1, <1>6, <2>2, <2>3, <2>4 DEF Parted, OtherSteps
<1>9. QED BY <1>5, <1>7, <1>8

LEMMA SingleAhead ==
  ASSUME NEW s \in AllSteps, NEW q \in Paths, NEW b \in 0..Len(q) - 1
  PROVE  /\ Single(<<s>> \o q, b + 1) <=> s # Place /\ Loose(q, b)
         /\ Loose(<<Place>> \o q, b + 1) <=> Single(q, b)
         /\ Single(q, b) => Loose(q, b)
         /\ (b = 0 \/ q[1] # Place) => (Loose(q, b) => Single(q, b))
<1>1. Len(q) \in Nat BY Prefixed
<1>2. ASSUME NEW t \in AllSteps
      PROVE  /\ (<<t>> \o q)[1] = t
             /\ \A i \in 1..b : (<<t>> \o q)[i + 1] = q[i]
             /\ \A i \in 2..b + 1 : i - 1 \in 1..b /\ (<<t>> \o q)[i] = q[i - 1]
  <2> DEFINE p == <<t>> \o q
  <2>1. p[1] = t /\ \A i \in 1..Len(q) : p[i + 1] = q[i] BY Prefixed
  <2> HIDE DEF p
  <2>2. \A i \in 1..b : i \in 1..Len(q) BY <1>1
  <2>3. ASSUME NEW i \in 2..b + 1 PROVE i - 1 \in 1..b /\ p[i] = q[i - 1]
    <3>1. i - 1 \in 1..b /\ (i - 1) + 1 = i BY <1>1
    <3>2. QED BY <2>1, <2>2, <3>1
  <2>4. QED BY <2>1, <2>2, <2>3 DEF p
<1>3. Single(<<s>> \o q, b + 1) <=> s # Place /\ Loose(q, b)
  <2> DEFINE p == <<s>> \o q
  <2>1. /\ p[1] = s /\ \A i \in 1..b : p[i + 1] = q[i]
        /\ \A i \in 2..b + 1 : i - 1 \in 1..b /\ p[i] = q[i - 1]
    BY <1>2
  <2> HIDE DEF p
  <2>2. ASSUME Single(p, b + 1) PROVE s # Place /\ Loose(q, b)
    <3>1. 1 \in 1..b + 1 /\ ~(1 > 1) BY <1>1
    <3>2. s # Place BY <2>1, <2>2, <3>1 DEF Single
    <3>3. ASSUME NEW i \in 2..b, q[i] = Place PROVE q[i - 1] # Place
      <4>1. i \in 1..b /\ i - 1 \in 1..b /\ i + 1 \in 1..b + 1 /\ (i + 1) - 1 = i /\ (i - 1) + 1 = i
        BY <1>1
      <4>2. p[i + 1] = Place /\ p[i] = q[i - 1] BY <2>1, <3>3, <4>1
      <4>3. p[(i + 1) - 1] # Place BY <2>2, <4>1, <4>2 DEF Single
      <4>4. QED BY <4>1, <4>2, <4>3
    <3>4. QED BY <3>2, <3>3 DEF Loose
  <2>3. ASSUME s # Place, Loose(q, b), NEW i \in 1..b + 1, p[i] = Place
        PROVE  i > 1 /\ p[i - 1] # Place
    <3>1. i # 1 BY <2>1, <2>3
    <3>2. i \in 2..b + 1 BY <1>1, <3>1
    <3>3. i - 1 \in 1..b /\ q[i - 1] = Place BY <2>1, <2>3, <3>2
    <3>4. CASE i = 2 BY <2>1, <2>3, <3>4
    <3>5. CASE i # 2
      <4>1. i - 1 \in 2..b /\ i - 1 \in 2..b + 1 BY <1>1, <3>2, <3>5
      <4>2. q[(i - 1) - 1] # Place BY <2>3, <3>3, <4>1 DEF Loose
      <4>3. p[i - 1] = q[(i - 1) - 1] BY <2>1, <4>1
      <4>4. QED BY <3>2, <4>2, <4>3
    <3>6. QED BY <3>2, <3>4, <3>5
  <2>4. QED BY <2>2, <2>3 DEF Single, p
<1>4. Loose(<<Place>> \o q, b + 1) <=> Single(q, b)
  <2> DEFINE p == <<Place>> \o q
  <2>1. /\ p[1] = Place /\ \A i \in 1..b : p[i + 1] = q[i]
        /\ \A i \in 2..b + 1 : i - 1 \in 1..b /\ p[i] = q[i - 1]
    BY <1>2 DEF AllSteps
  <2> HIDE DEF p
  <2>2. ASSUME Loose(p, b + 1), NEW i \in 1..b, q[i] = Place PROVE i > 1 /\ q[i - 1] # Place
    <3>1. i + 1 \in 2..b + 1 /\ (i + 1) - 1 = i BY <1>1
    <3>2. p[i] # Place BY <2>1, <2>2, <3>1 DEF Loose
    <3>3. i # 1 BY <2>1, <3>2
    <3>4. i \in 2..b + 1 /\ i > 1 BY <1>1, <3>3
    <3>5. QED BY <2>1, <3>2, <3>4
  <2>3. ASSUME Single(q, b), NEW i \in 2..b + 1, p[i] = Place PROVE p[i - 1] # Place
    <3>1. i - 1 \in 1..b /\ q[i - 1] = Place BY <2>1, <2>3
    <3>2. i - 1 > 1 /\ q[(i - 1) - 1] # Place BY <2>3, <3>1 DEF Single
    <3>3. i - 1 \in 2..b + 1 BY <1>1, <3>1, <3>2
    <3>4. QED BY <2>1, <3>2, <3>3
  <2>4. QED BY <2>2, <2>3 DEF Single, Loose, p
<1>5. Single(q, b) => Loose(q, b)
  <2>1. \A i \in 2..b : i \in 1..b BY <1>1
  <2>2. QED BY <2>1 DEF Single, Loose
<1>6. ASSUME b = 0 \/ q[1] # Place, Loose(q, b), NEW i \in 1..b, q[i] = Place
      PROVE  i > 1 /\ q[i - 1] # Place
  <2>1. i # 1 BY <1>1, <1>6
  <2>2. i \in 2..b /\ i > 1 BY <1>1, <2>1
  <2>3. QED BY <1>6, <2>2 DEF Loose
<1>7. QED BY <1>3, <1>4, <1>5, <1>6 DEF Single

\* The paths to entities that a card names itself, and those through child cards;
\* Listed ones may have the place in a list first.
NamedPaths == {p \in Paths : \E b \in 0..Len(p) - 1 : Splits(p, 0, b)}
NamesPaths == {p \in Paths : Names(p)}
Listed(Ps) == Ps \cup {<<Place>> \o q : q \in Ps}

LEMMA Divided ==
  ASSUME NEW p \in Paths
  PROVE  /\ p \in NamedPaths <=> \E b \in 0..Len(p) - 1 : Parted(p, 0, b) /\ Single(p, b)
         /\ p \in NamesPaths <=> \E b \in 0..Len(p) - 1 : \E a \in 0..b : Parted(p, a, b) /\ Single(p, b)
<1>1. \A b \in 0..Len(p) - 1 : 0 \in 0..b BY Prefixed
<1>2. \A b \in 0..Len(p) - 1 : \A a \in 0..b : Splits(p, a, b) <=> Parted(p, a, b) /\ Single(p, b)
  BY SplitsAre
<1>3. QED BY <1>1, <1>2 DEF NamedPaths, NamesPaths, Names

LEMMA PathParts ==
  ASSUME NEW q \in Paths, q # <<>>
  PROVE  \E s \in AllSteps, r \in Paths : q = <<s>> \o r
<1>1. q \in Seq(AllSteps) BY DEF Paths
<1>2. Head(q) \in AllSteps /\ Tail(q) \in Seq(AllSteps) /\ q = <<Head(q)>> \o Tail(q) BY <1>1
<1>3. QED BY <1>2 DEF Paths

\* A path whose first place may stand alone is one of those, or one in a list.
LEMMA LooseListed ==
  ASSUME NEW q \in Paths
  PROVE  /\ q \in Listed(NamedPaths)
              <=> \E b \in 0..Len(q) - 1 : Parted(q, 0, b) /\ Loose(q, b)
         /\ q \in Listed(NamesPaths)
              <=> \E b \in 0..Len(q) - 1 : \E a \in 0..b : Parted(q, a, b) /\ Loose(q, b)
<1>1. Place \in AllSteps /\ Place \in OtherSteps BY StepsDiffer DEF AllSteps, OtherSteps
<1>2. q \in NamedPaths => \E b \in 0..Len(q) - 1 : Parted(q, 0, b) /\ Loose(q, b)
  BY Divided, SingleAhead, <1>1
<1>3. q \in NamesPaths => \E b \in 0..Len(q) - 1 : \E a \in 0..b : Parted(q, a, b) /\ Loose(q, b)
  BY Divided, SingleAhead, <1>1
<1>4. ASSUME NEW r \in Paths, q = <<Place>> \o r, r \in NamedPaths
      PROVE  \E b \in 0..Len(q) - 1 : Parted(q, 0, b) /\ Loose(q, b)
  <2>1. PICK b \in 0..Len(r) - 1 : Parted(r, 0, b) /\ Single(r, b) BY <1>4, Divided
  <2>2. Parted(q, 0, b + 1) BY <1>1, <1>4, <2>1, PartedAhead
  <2>3. Loose(q, b + 1) BY <1>1, <1>4, <2>1, SingleAhead
  <2>4. b + 1 \in 0..Len(q) - 1
    <3>1. Len(r) \in Nat /\ Len(q) = Len(r) + 1 BY <1>1, <1>4, Prefixed
    <3>2. QED BY <2>1, <3>1
  <2>5. QED BY <2>2, <2>3, <2>4
<1>5. ASSUME NEW r \in Paths, q = <<Place>> \o r, r \in NamesPaths
      PROVE  \E b \in 0..Len(q) - 1 : \E a \in 0..b : Parted(q, a, b) /\ Loose(q, b)
  <2>1. PICK b \in 0..Len(r) - 1 : \E a \in 0..b : Parted(r, a, b) /\ Single(r, b) BY <1>5, Divided
  <2>2. PICK a \in 0..b : Parted(r, a, b) /\ Single(r, b) BY <2>1
  <2>3. Parted(q, a + 1, b + 1) BY <1>1, <1>5, <2>1, <2>2, PartedAhead
  <2>4. Loose(q, b + 1) BY <1>1, <1>5, <2>1, <2>2, SingleAhead
  <2>5. b + 1 \in 0..Len(q) - 1 /\ a + 1 \in 0..b + 1
    <3>1. Len(r) \in Nat /\ Len(q) = Len(r) + 1 BY <1>1, <1>5, Prefixed
    <3>2. QED BY <2>1, <2>2, <3>1
  <2>6. QED BY <2>3, <2>4, <2>5
<1>6. ASSUME NEW b \in 0..Len(q) - 1, NEW a \in 0..b, Parted(q, a, b), Loose(q, b)
      PROVE  /\ q \in Listed(NamesPaths)
             /\ a = 0 => q \in Listed(NamedPaths)
  <2>1. CASE b = 0 \/ q[1] # Place
    <3>1. Single(q, b) BY <1>1, <1>6, <2>1, SingleAhead
    <3>2. q \in NamesPaths /\ (a = 0 => q \in NamedPaths) BY <1>6, <3>1, Divided
    <3>3. QED BY <3>2 DEF Listed
  <2>2. CASE b # 0 /\ q[1] = Place
    <3>1. Len(q) \in Nat BY <1>1, Prefixed
    <3>2. q # <<>> BY <1>6, <3>1
    <3>3. PICK s \in AllSteps, r \in Paths : q = <<s>> \o r BY <3>2, PathParts
    <3>4. s = Place /\ Len(r) \in Nat /\ Len(q) = Len(r) + 1 BY <2>2, <3>3, Prefixed
    <3>5. b - 1 \in 0..Len(r) - 1 /\ (b - 1) + 1 = b BY <1>6, <2>2, <3>1, <3>4
    <3>6. Single(r, b - 1) BY <1>6, <3>3, <3>4, <3>5, SingleAhead
    <3>7. CASE a = 0
      <4>1. Parted(r, 0, b - 1)
        <5>1. Parted(<<s>> \o r, 0, (b - 1) + 1) BY <1>6, <3>3, <3>5, <3>7
        <5>2. QED BY <3>5, <5>1, PartedAhead
      <4>2. 0 \in 0..b - 1 BY <3>5
      <4>3. r \in NamedPaths /\ r \in NamesPaths BY <3>5, <3>6, <4>1, <4>2, Divided
      <4>4. QED BY <3>3, <3>4, <4>3 DEF Listed
    <3>8. CASE a # 0
      <4>1. a - 1 \in 0..b - 1 /\ (a - 1) + 1 = a BY <1>6, <3>1, <3>8
      <4>2. Parted(r, a - 1, b - 1)
        <5>1. Parted(<<s>> \o r, (a - 1) + 1, (b - 1) + 1) BY <1>6, <3>3, <3>5, <4>1
        <5>2. QED BY <3>5, <4>1, <5>1, PartedAhead
      <4>3. r \in NamesPaths BY <3>5, <3>6, <4>1, <4>2, Divided
      <4>4. QED BY <3>3, <3>4, <3>8, <4>3 DEF Listed
    <3>9. QED BY <3>7, <3>8
  <2>3. QED BY <2>1, <2>2
<1>7. \A r \in NamedPaths \cup NamesPaths : r \in Paths BY DEF NamedPaths, NamesPaths
<1>8. q \in Listed(NamedPaths) => \E b \in 0..Len(q) - 1 : Parted(q, 0, b) /\ Loose(q, b)
  BY <1>2, <1>4, <1>7 DEF Listed
<1>9. q \in Listed(NamesPaths) => \E b \in 0..Len(q) - 1 : \E a \in 0..b : Parted(q, a, b) /\ Loose(q, b)
  BY <1>3, <1>5, <1>7 DEF Listed
<1>10. \A b \in 0..Len(q) - 1 : 0 \in 0..b BY Prefixed, <1>1
<1>11. QED BY <1>6, <1>8, <1>9, <1>10

\* Which they are, one step ahead.
LEMMA NamedAhead ==
  ASSUME NEW s \in AllSteps, NEW q \in Paths
  PROVE  /\ <<s>> \o q \in NamedPaths
              <=> \/ s \in NameSteps /\ q \in RefPaths
                  \/ s \in OtherSteps \ {Place} /\ q \in Listed(NamedPaths)
         /\ <<s>> \o q \in NamesPaths
              <=> \/ s \in NameSteps /\ q \in RefPaths
                  \/ s \in OtherSteps \ {Place} /\ q \in Listed(NamedPaths)
                  \/ s \in CardSteps /\ q \in Listed(NamesPaths)
<1> DEFINE p == <<s>> \o q
<1>1. p \in Paths /\ Len(q) \in Nat /\ Len(p) = Len(q) + 1 BY Prefixed
<1>2. Parted(p, 0, 0) <=> s \in NameSteps /\ q \in RefPaths BY PartedAhead
<1>3. Single(p, 0) BY DEF Single
<1>4. ASSUME NEW b \in 0..Len(q) - 1
      PROVE  /\ Single(p, b + 1) <=> s # Place /\ Loose(q, b)
             /\ Parted(p, 0, b + 1) <=> s \in OtherSteps /\ Parted(q, 0, b)
             /\ \A a \in 0..b : Parted(p, a + 1, b + 1) <=> s \in CardSteps \cup {Place} /\ Parted(q, a, b)
  BY PartedAhead, SingleAhead
<1> HIDE DEF p
<1>5. p \in NamedPaths
        <=> \/ s \in NameSteps /\ q \in RefPaths
            \/ s \in OtherSteps \ {Place} /\ \E b \in 0..Len(q) - 1 : Parted(q, 0, b) /\ Loose(q, b)
  <2>1. ASSUME NEW b \in 0..Len(p) - 1, Parted(p, 0, b), Single(p, b)
        PROVE  \/ s \in NameSteps /\ q \in RefPaths
               \/ s \in OtherSteps \ {Place} /\ \E c \in 0..Len(q) - 1 : Parted(q, 0, c) /\ Loose(q, c)
    <3>1. CASE b = 0 BY <1>2, <2>1, <3>1
    <3>2. CASE b # 0
      <4>1. b - 1 \in 0..Len(q) - 1 /\ (b - 1) + 1 = b BY <1>1, <2>1, <3>2
      <4>2. s # Place /\ Loose(q, b - 1) /\ s \in OtherSteps /\ Parted(q, 0, b - 1)
        BY <1>4, <2>1, <4>1
      <4>3. QED BY <4>1, <4>2
    <3>3. QED BY <3>1, <3>2
  <2>2. s \in NameSteps /\ q \in RefPaths => \E b \in 0..Len(p) - 1 : Parted(p, 0, b) /\ Single(p, b)
    <3>1. 0 \in 0..Len(p) - 1 BY <1>1
    <3>2. QED BY <1>2, <1>3, <3>1
  <2>3. ASSUME s \in OtherSteps \ {Place}, NEW c \in 0..Len(q) - 1, Parted(q, 0, c), Loose(q, c)
        PROVE  \E b \in 0..Len(p) - 1 : Parted(p, 0, b) /\ Single(p, b)
    <3>1. c + 1 \in 0..Len(p) - 1 BY <1>1
    <3>2. QED BY <1>4, <2>3, <3>1
  <2>4. p \in NamedPaths <=> \E b \in 0..Len(p) - 1 : Parted(p, 0, b) /\ Single(p, b) BY <1>1, Divided
  <2>5. QED BY <2>1, <2>2, <2>3, <2>4
<1>6. p \in NamesPaths
        <=> \/ p \in NamedPaths
            \/ s \in CardSteps /\ \E b \in 0..Len(q) - 1 : \E a \in 0..b : Parted(q, a, b) /\ Loose(q, b)
  <2>1. ASSUME NEW b \in 0..Len(p) - 1, NEW a \in 0..b, a # 0, Parted(p, a, b), Single(p, b)
        PROVE  s \in CardSteps /\ \E c \in 0..Len(q) - 1 : \E d \in 0..c : Parted(q, d, c) /\ Loose(q, c)
    <3>1. /\ b - 1 \in 0..Len(q) - 1 /\ (b - 1) + 1 = b
          /\ a - 1 \in 0..b - 1 /\ (a - 1) + 1 = a
      BY <1>1, <2>1
    <3>2. s # Place /\ Loose(q, b - 1) /\ s \in CardSteps \cup {Place} /\ Parted(q, a - 1, b - 1)
      BY <1>4, <2>1, <3>1
    <3>3. QED BY <3>1, <3>2
  <2>2. ASSUME s \in CardSteps, NEW c \in 0..Len(q) - 1, NEW d \in 0..c, Parted(q, d, c), Loose(q, c)
        PROVE  \E b \in 0..Len(p) - 1 : \E a \in 0..b : Parted(p, a, b) /\ Single(p, b)
    <3>1. c + 1 \in 0..Len(p) - 1 /\ d + 1 \in 0..c + 1 BY <1>1
    <3>2. s # Place BY <2>2, StepsDiffer
    <3>3. Parted(p, d + 1, c + 1) /\ Single(p, c + 1) BY <1>4, <2>2, <3>2
    <3>4. QED BY <3>1, <3>3
  <2>3. /\ p \in NamedPaths <=> \E b \in 0..Len(p) - 1 : Parted(p, 0, b) /\ Single(p, b)
        /\ p \in NamesPaths <=> \E b \in 0..Len(p) - 1 : \E a \in 0..b : Parted(p, a, b) /\ Single(p, b)
    BY <1>1, Divided
  <2>4. \A b \in 0..Len(p) - 1 : 0 \in 0..b BY <1>1
  <2>5. p \in NamedPaths => p \in NamesPaths BY <2>3, <2>4
  <2>6. QED BY <2>1, <2>2, <2>3, <2>5
<1>7. /\ q \in Listed(NamedPaths) <=> \E b \in 0..Len(q) - 1 : Parted(q, 0, b) /\ Loose(q, b)
      /\ q \in Listed(NamesPaths)
           <=> \E b \in 0..Len(q) - 1 : \E a \in 0..b : Parted(q, a, b) /\ Loose(q, b)
  BY LooseListed
<1>8. QED BY <1>5, <1>6, <1>7 DEF p

LEMMA NoEmpty == <<>> \notin NamedPaths /\ <<>> \notin NamesPaths
<1>1. \A b : ~(b \in 0..Len(<<>>) - 1) OBVIOUS
<1>2. QED BY <1>1 DEF NamedPaths, NamesPaths, Names

-----------------------------------------------------------------------------
(* What a value names: the entities at the ends of some of its paths. *)

TextsAt(v, Ps)  == {l[2] : l \in {x \in Leaves[v] : x[2] \in EntityIds /\ x[1] \in Ps}}
After(s, Ps) == {p \in Paths : <<s>> \o p \in Ps}

\* They are those of its parts.
LEMMA TextsOf ==
  ASSUME NEW v \in Values, NEW Ps
  PROVE  /\ TextsAt(v, {}) = {}
         /\ v[1] = "text" => TextsAt(v, Ps) = IF <<>> \in Ps THEN {v[2]} \cap EntityIds ELSE {}
         /\ v[1] # "text" => \A t : t \in TextsAt(v, Ps)
                                <=> \E s \in Steps(v) : t \in TextsAt(s[2], After(s[1], Ps))
<1>1. TextsAt(v, {}) = {} BY DEF TextsAt
<1>2. ASSUME v[1] = "text"
      PROVE  TextsAt(v, Ps) = IF <<>> \in Ps THEN {v[2]} \cap EntityIds ELSE {}
  <2> DEFINE leaf == << <<>>, v[2]>>
  <2>1. Leaves[v] = {leaf} BY <1>2, LeavesIs DEF LeavesFrom
  <2>2. leaf[1] = <<>> /\ leaf[2] = v[2] OBVIOUS
  <2> HIDE DEF leaf
  <2>3. TextsAt(v, Ps) = {l[2] : l \in {x \in {leaf} : x[2] \in EntityIds /\ x[1] \in Ps}}
    BY <2>1 DEF TextsAt
  <2>4. \A t : t \in TextsAt(v, Ps) <=> t = v[2] /\ v[2] \in EntityIds /\ <<>> \in Ps
    BY <2>2, <2>3
  <2>5. QED BY <2>4
<1>3. ASSUME v[1] # "text", NEW t
      PROVE  t \in TextsAt(v, Ps) <=> \E s \in Steps(v) : t \in TextsAt(s[2], After(s[1], Ps))
  <2>1. Leaves[v] = UNION {Behind(s[1], Leaves[s[2]]) : s \in Steps(v)}
    BY <1>3, LeavesIs DEF LeavesFrom
  <2>2. ASSUME NEW s \in Steps(v), NEW l \in Leaves[s[2]] PROVE l \in Paths \X Texts
    BY StepsLess, LeavesIs DEF Less
  <2>3. ASSUME t \in TextsAt(v, Ps)
        PROVE  \E s \in Steps(v) : t \in TextsAt(s[2], After(s[1], Ps))
    <3>1. PICK x \in Leaves[v] : x[2] \in EntityIds /\ x[1] \in Ps /\ t = x[2]
      BY <2>3 DEF TextsAt
    <3>2. PICK s \in Steps(v) : x \in Behind(s[1], Leaves[s[2]])
      <4> HIDE DEF Behind
      <4>1. QED BY <2>1, <3>1
    <3>3. PICK l \in Leaves[s[2]] : x = << <<s[1]>> \o l[1], l[2]>> BY <3>2 DEF Behind
    <3>4. l[1] \in Paths BY <2>2
    <3>5. l[1] \in After(s[1], Ps) /\ l[2] \in EntityIds /\ t = l[2] BY <3>1, <3>3, <3>4 DEF After
    <3>6. t \in TextsAt(s[2], After(s[1], Ps)) BY <3>3, <3>5 DEF TextsAt
    <3>7. QED BY <3>6
  <2>4. ASSUME NEW s \in Steps(v), t \in TextsAt(s[2], After(s[1], Ps))
        PROVE  t \in TextsAt(v, Ps)
    <3>1. PICK l \in Leaves[s[2]] : l[2] \in EntityIds /\ l[1] \in After(s[1], Ps) /\ t = l[2]
      BY <2>4 DEF TextsAt
    <3> DEFINE x == << <<s[1]>> \o l[1], l[2]>>
    <3>2. x \in Behind(s[1], Leaves[s[2]]) BY DEF Behind
    <3>3. x \in Leaves[v]
      <4> HIDE DEF x
      <4>1. QED BY <2>1, <3>2
    <3>4. x[1] \in Ps /\ x[2] = t BY <3>1 DEF After
    <3> HIDE DEF x
    <3>5. QED BY <3>1, <3>3, <3>4 DEF TextsAt
  <2>5. QED BY <2>3, <2>4
<1>4. QED BY <1>1, <1>2, <1>3

\* The same by where a step leads.
LEMMA TextsBelow ==
  ASSUME NEW v \in Values, v[1] # "text", NEW Ps, NEW t
  PROVE  t \in TextsAt(v, Ps)
           <=> \/ \E x \in Items(v) : t \in TextsAt(x, After(Place, Ps))
               \/ \E k \in Keys(v) : \E x \in At(v, k) : t \in TextsAt(x, After(Key(k), Ps))
<1>1. t \in TextsAt(v, Ps) <=> \E s \in Steps(v) : t \in TextsAt(s[2], After(s[1], Ps)) BY TextsOf
<1>2. ASSUME NEW s \in Steps(v), t \in TextsAt(s[2], After(s[1], Ps))
      PROVE  \/ \E x \in Items(v) : t \in TextsAt(x, After(Place, Ps))
             \/ \E k \in Keys(v) : \E x \in At(v, k) : t \in TextsAt(x, After(Key(k), Ps))
  <2>1. CASE \E x \in Items(v) : s = <<Place, x>> BY <1>2, <2>1
  <2>2. CASE \E k \in Keys(v) : s = <<Key(k), v[2][k]>>
    <3>1. PICK k \in Keys(v) : s = <<Key(k), v[2][k]>> BY <2>2
    <3>2. v[2][k] \in At(v, k) BY DEF At
    <3>3. t \in TextsAt(v[2][k], After(Key(k), Ps)) BY <1>2, <3>1
    <3>4. QED BY <3>2, <3>3
  <2>3. QED BY <2>1, <2>2 DEF Steps
<1>3. ASSUME NEW x \in Items(v), t \in TextsAt(x, After(Place, Ps))
      PROVE  \E s \in Steps(v) : t \in TextsAt(s[2], After(s[1], Ps))
  <2>1. <<Place, x>> \in Steps(v) BY DEF Steps
  <2>2. QED BY <1>3, <2>1
<1>4. ASSUME NEW k \in Keys(v), NEW x \in At(v, k), t \in TextsAt(x, After(Key(k), Ps))
      PROVE  \E s \in Steps(v) : t \in TextsAt(s[2], After(s[1], Ps))
  <2>1. x = v[2][k] BY DEF At
  <2>2. <<Key(k), x>> \in Steps(v) BY <2>1 DEF Steps
  <2>3. QED BY <1>4, <2>2
<1>5. QED BY <1>1, <1>2, <1>3, <1>4

\* What may be in a list is in what _as_list makes of a value.
LEMMA TextsListed ==
  ASSUME NEW v \in Values, NEW Ps \in SUBSET Paths, <<>> \notin Ps, After(Place, Ps) = {}
  PROVE  TextsAt(v, Listed(Ps)) = UNION {TextsAt(x, Ps) : x \in AsList(v)}
<1>1. Place \in AllSteps BY DEF AllSteps
<1>2. \A p \in Paths : <<Place>> \o p \notin Ps BY <1>1 DEF After
<1>3. ASSUME NEW p \in Paths, NEW q \in Paths, NEW s \in AllSteps, NEW r \in AllSteps,
             <<s>> \o p = <<r>> \o q
      PROVE  s = r /\ p = q
  <2>1. p \in Seq(AllSteps) /\ q \in Seq(AllSteps) BY DEF Paths
  <2>2. Head(<<s>> \o p) = s /\ Tail(<<s>> \o p) = p BY <2>1
  <2>3. Head(<<r>> \o q) = r /\ Tail(<<r>> \o q) = q BY <2>1
  <2>4. QED BY <1>3, <2>2, <2>3
<1>4. After(Place, Listed(Ps)) = Ps BY <1>1, <1>2, <1>3 DEF After, Listed
<1>5. ASSUME NEW k, Key(k) \in AllSteps PROVE After(Key(k), Listed(Ps)) = After(Key(k), Ps)
  <2>1. Key(k) # Place BY StepsDiffer
  <2>2. \A p \in Paths, q \in Ps : <<Key(k)>> \o p # <<Place>> \o q BY <1>1, <1>3, <1>5, <2>1
  <2>3. QED BY <2>2 DEF After, Listed
<1>6. <<>> \notin Listed(Ps)
  <2>1. \A q \in Paths : Len(<<Place>> \o q) # 0 BY <1>1, Prefixed
  <2>2. QED BY <2>1 DEF Listed
<1>7. CASE v[1] = "text"
  <2>1. TextsAt(v, Listed(Ps)) = {} /\ TextsAt(v, Ps) = {} BY <1>6, <1>7, TextsOf
  <2>2. AsList(v) = {v} BY <1>7 DEF AsList
  <2>3. QED BY <2>1, <2>2
<1>8. CASE v[1] = "list"
  <2>1. Keys(v) = {} /\ AsList(v) = Items(v) BY <1>8 DEF Keys, IsMap, AsList
  <2>2. \A t : t \in TextsAt(v, Listed(Ps)) <=> \E x \in Items(v) : t \in TextsAt(x, Ps)
    <3> SUFFICES ASSUME NEW t
                 PROVE  t \in TextsAt(v, Listed(Ps)) <=> \E x \in Items(v) : t \in TextsAt(x, Ps)
      OBVIOUS
    <3>1. t \in TextsAt(v, Listed(Ps))
            <=> \/ \E x \in Items(v) : t \in TextsAt(x, After(Place, Listed(Ps)))
                \/ \E k \in Keys(v) : \E x \in At(v, k) : t \in TextsAt(x, After(Key(k), Listed(Ps)))
      BY <1>8, TextsBelow
    <3>2. QED BY <1>4, <2>1, <3>1
  <2>3. QED BY <2>1, <2>2
<1>9. CASE v[1] # "text" /\ v[1] # "list"
  <2>1. Items(v) = {} /\ AsList(v) = {v} BY <1>9 DEF Items, AsList
  <2>2. \A k \in Keys(v) : Key(k) \in AllSteps BY DEF AllSteps
  <2>3. ASSUME NEW t PROVE t \in TextsAt(v, Listed(Ps)) <=> t \in TextsAt(v, Ps)
    <3>1. \A Qs : t \in TextsAt(v, Qs)
            <=> \/ \E x \in Items(v) : t \in TextsAt(x, After(Place, Qs))
                \/ \E k \in Keys(v) : \E x \in At(v, k) : t \in TextsAt(x, After(Key(k), Qs))
      BY <1>9, TextsBelow
    <3>2. \A Qs : t \in TextsAt(v, Qs)
            <=> \E k \in Keys(v) : \E x \in At(v, k) : t \in TextsAt(x, After(Key(k), Qs))
      BY <2>1, <3>1
    <3>3. \A k \in Keys(v) : After(Key(k), Listed(Ps)) = After(Key(k), Ps) BY <1>5, <2>2
    <3>4. QED BY <3>2, <3>3
  <2>4. TextsAt(v, Listed(Ps)) = TextsAt(v, Ps) BY <2>3
  <2>5. QED BY <2>1, <2>4
<1>10. QED BY <1>7, <1>8, <1>9

\* What is left of the paths after a step.
LEMMA AfterRef ==
  /\ After(Place, RefPaths) = RefPaths
  /\ \A k : Key(k) \in AllSteps => After(Key(k), RefPaths) = IF k = "entity" THEN RefPaths ELSE {}
<1>1. \A s \in AllSteps, q \in Paths : <<s>> \o q \in RefPaths <=> s \in RowSteps /\ q \in RefPaths
  BY RefAhead
<1>2. \A s \in AllSteps : After(s, RefPaths) = IF s \in RowSteps THEN RefPaths ELSE {}
  BY <1>1 DEF After, RefPaths
<1>3. Place \in AllSteps /\ Place \in RowSteps BY DEF AllSteps, RowSteps
<1>4. QED BY <1>2, <1>3, StepsDiffer

LEMMA AfterNamed ==
  /\ NamedPaths \in SUBSET Paths /\ NamesPaths \in SUBSET Paths
  /\ After(Place, NamedPaths) = {} /\ After(Place, NamesPaths) = {}
  /\ \A k : Key(k) \in AllSteps =>
       /\ k \in Naming => /\ After(Key(k), NamedPaths) = RefPaths
                          /\ After(Key(k), NamesPaths) = RefPaths
       /\ k \in ChildKeys => /\ After(Key(k), NamedPaths) = {}
                             /\ After(Key(k), NamesPaths) = Listed(NamesPaths)
       /\ k \notin ChildKeys \cup Naming => /\ After(Key(k), NamedPaths) = Listed(NamedPaths)
                                            /\ After(Key(k), NamesPaths) = Listed(NamedPaths)
<1>1. NamedPaths \subseteq Paths /\ NamesPaths \subseteq Paths /\ RefPaths \subseteq Paths
  BY DEF NamedPaths, NamesPaths, RefPaths
<1>2. Place \in AllSteps BY DEF AllSteps
<1>3. Listed(NamedPaths) \subseteq Paths /\ Listed(NamesPaths) \subseteq Paths
  BY <1>1, <1>2, Prefixed DEF Listed
<1>4. ASSUME NEW s \in AllSteps, NEW q \in Paths
      PROVE  /\ q \in After(s, NamedPaths)
                  <=> \/ s \in NameSteps /\ q \in RefPaths
                      \/ s \in OtherSteps \ {Place} /\ q \in Listed(NamedPaths)
             /\ q \in After(s, NamesPaths)
                  <=> \/ s \in NameSteps /\ q \in RefPaths
                      \/ s \in OtherSteps \ {Place} /\ q \in Listed(NamedPaths)
                      \/ s \in CardSteps /\ q \in Listed(NamesPaths)
  BY NamedAhead DEF After
<1>5. \A s : After(s, NamedPaths) \subseteq Paths /\ After(s, NamesPaths) \subseteq Paths BY DEF After
<1>6. After(Place, NamedPaths) = {} /\ After(Place, NamesPaths) = {}
  BY <1>2, <1>4, <1>5, StepsDiffer
<1>7. ASSUME NEW k, Key(k) \in AllSteps
      PROVE  /\ k \in Naming => /\ After(Key(k), NamedPaths) = RefPaths
                                /\ After(Key(k), NamesPaths) = RefPaths
             /\ k \in ChildKeys => /\ After(Key(k), NamedPaths) = {}
                                   /\ After(Key(k), NamesPaths) = Listed(NamesPaths)
             /\ k \notin ChildKeys \cup Naming => /\ After(Key(k), NamedPaths) = Listed(NamedPaths)
                                                  /\ After(Key(k), NamesPaths) = Listed(NamedPaths)
  <2>1. /\ Key(k) # Place
        /\ Key(k) \in CardSteps <=> k \in ChildKeys
        /\ Key(k) \in NameSteps <=> k \in Naming
        /\ ~(Key(k) \in CardSteps /\ Key(k) \in NameSteps)
    BY StepsDiffer
  <2>2. Key(k) \in OtherSteps \ {Place} <=> k \notin ChildKeys \cup Naming
    BY <1>7, <2>1 DEF OtherSteps
  <2> DEFINE s == Key(k)
  <2>3. s \in AllSteps BY <1>7
  <2> HIDE DEF s
  <2>4. \A q \in Paths : /\ q \in After(s, NamedPaths)
                              <=> \/ s \in NameSteps /\ q \in RefPaths
                                  \/ s \in OtherSteps \ {Place} /\ q \in Listed(NamedPaths)
                         /\ q \in After(s, NamesPaths)
                              <=> \/ s \in NameSteps /\ q \in RefPaths
                                  \/ s \in OtherSteps \ {Place} /\ q \in Listed(NamedPaths)
                                  \/ s \in CardSteps /\ q \in Listed(NamesPaths)
    BY <1>4, <2>3
  <2>5. /\ k \in Naming => s \in NameSteps /\ s \notin CardSteps /\ s \notin OtherSteps \ {Place}
        /\ k \in ChildKeys => s \notin NameSteps /\ s \in CardSteps /\ s \notin OtherSteps \ {Place}
        /\ k \notin ChildKeys \cup Naming =>
             s \notin NameSteps /\ s \notin CardSteps /\ s \in OtherSteps \ {Place}
    BY <2>1, <2>2 DEF s
  <2>6. k \in Naming => After(s, NamedPaths) = RefPaths /\ After(s, NamesPaths) = RefPaths
    BY <1>1, <1>5, <2>4, <2>5
  <2>7. k \in ChildKeys => After(s, NamedPaths) = {} /\ After(s, NamesPaths) = Listed(NamesPaths)
    BY <1>3, <1>5, <2>4, <2>5
  <2>8. k \notin ChildKeys \cup Naming => /\ After(s, NamedPaths) = Listed(NamedPaths)
                                          /\ After(s, NamesPaths) = Listed(NamedPaths)
    BY <1>3, <1>5, <2>4, <2>5
  <2>9. QED BY <2>6, <2>7, <2>8 DEF s
<1>8. QED BY <1>1, <1>6, <1>7

\* Below an entity or entities.
LEMMA RefsTrue == \A v \in Values : Refs[v] = TextsAt(v, RefPaths)
<1> DEFINE Good == {v \in Values : Refs[v] = TextsAt(v, RefPaths)}
<1>1. ASSUME NEW v \in Values, Less(v) \subseteq Good PROVE Refs[v] = TextsAt(v, RefPaths)
  <2>1. \A x \in Less(v) : Refs[x] = TextsAt(x, RefPaths) BY <1>1
  <2>2. Refs[v] = RefsFrom(v, Refs) BY RefsIs
  <2>3. CASE v[1] = "text"
    <3>1. <<>> \in RefPaths BY DEF RefPaths, Paths
    <3>2. QED BY <2>2, <2>3, <3>1, TextsOf DEF RefsFrom
  <2>4. CASE v[1] # "text"
    <3>1. Refs[v] = UNION {Refs[x] : x \in Items(v) \cup At(v, "entity")} BY <2>2, <2>4 DEF RefsFrom
    <3>2. ASSUME NEW t PROVE t \in TextsAt(v, RefPaths) <=> t \in Refs[v]
      <4>1. t \in TextsAt(v, RefPaths)
              <=> \/ \E x \in Items(v) : t \in TextsAt(x, RefPaths)
                  \/ \E k \in Keys(v) : \E x \in At(v, k) : t \in TextsAt(x, After(Key(k), RefPaths))
        BY <2>4, TextsBelow, AfterRef
      <4>2. \A k \in Keys(v) : After(Key(k), RefPaths) = IF k = "entity" THEN RefPaths ELSE {}
        <5>1. \A k \in Keys(v) : Key(k) \in AllSteps BY DEF AllSteps
        <5>2. QED BY <5>1, AfterRef
      <4>3. \A k \in Keys(v) : \A x \in At(v, k) :
              t \in TextsAt(x, After(Key(k), RefPaths)) <=> k = "entity" /\ t \in TextsAt(x, RefPaths)
        <5>1. \A k : \A x \in At(v, k) : TextsAt(x, {}) = {} BY DEF TextsAt
        <5>2. QED BY <4>2, <5>1
      <4>4. \A x \in At(v, "entity") : "entity" \in Keys(v) BY DEF At
      <4>5. t \in TextsAt(v, RefPaths)
              <=> \/ \E x \in Items(v) : t \in TextsAt(x, RefPaths)
                  \/ \E x \in At(v, "entity") : t \in TextsAt(x, RefPaths)
        BY <4>1, <4>3, <4>4
      <4>6. \A x \in Items(v) \cup At(v, "entity") : Refs[x] = TextsAt(x, RefPaths)
        BY <2>1, PartsLess
      <4>7. QED BY <3>1, <4>5, <4>6
    <3>3. QED BY <3>2
  <2>5. QED BY <2>3, <2>4
<1>2. Good \in SUBSET Values OBVIOUS
<1>3. \A v \in Values : Less(v) \subseteq Good => v \in Good BY <1>1
<1> HIDE DEF Good
<1>4. \A v \in Values : v \in Good BY <1>2, <1>3, ByDepth, Zenon
<1>5. QED BY <1>4 DEF Good

\* Through other keys, to an entity or entities.
LEMMA NamedTrue == \A v \in Values : Named[v] = TextsAt(v, NamedPaths)
<1> DEFINE Good == {v \in Values : Named[v] = TextsAt(v, NamedPaths)}
<1>1. ASSUME NEW v \in Values, Less(v) \subseteq Good PROVE Named[v] = TextsAt(v, NamedPaths)
  <2>1. \A x \in Less(v) : Named[x] = TextsAt(x, NamedPaths) BY <1>1
  <2>2. Named[v] = (UNION {Refs[x] : x \in UNION {At(v, k) : k \in Naming}})
                     \cup (UNION {Named[x] : x \in Searched(v)})
    BY NamedIs DEF NamedFrom
  <2>3. CASE v[1] = "text"
    <3>1. Keys(v) = {} BY <2>3 DEF Keys, IsMap
    <3>2. Searched(v) = {} /\ \A k : At(v, k) = {} BY <3>1 DEF Searched, At
    <3>3. TextsAt(v, NamedPaths) = {} BY <2>3, TextsOf, NoEmpty
    <3>4. QED BY <2>2, <3>2, <3>3
  <2>4. CASE v[1] # "text"
    <3>1. ASSUME NEW t PROVE t \in TextsAt(v, NamedPaths) <=> t \in Named[v]
      <4>1. t \in TextsAt(v, NamedPaths)
              <=> \E k \in Keys(v) : \E x \in At(v, k) : t \in TextsAt(x, After(Key(k), NamedPaths))
        <5>1. \A x \in Items(v) : TextsAt(x, {}) = {} BY DEF TextsAt
        <5>2. QED BY <2>4, <5>1, TextsBelow, AfterNamed
      <4>2. ASSUME NEW k \in Keys(v), NEW x \in At(v, k)
            PROVE  t \in TextsAt(x, After(Key(k), NamedPaths))
                     <=> \/ k \in Naming /\ t \in Refs[x]
                         \/ k \notin ChildKeys \cup Naming /\ \E y \in AsList(x) : t \in Named[y]
        <5>1. Key(k) \in AllSteps BY DEF AllSteps
        <5>2. x \in Values /\ x \in Less(v) BY PartsLess DEF Less
        <5>3. CASE k \in Naming
          <6>1. k \notin ChildKeys BY <5>3 DEF ChildKeys, Naming
          <6>2. After(Key(k), NamedPaths) = RefPaths BY <5>1, <5>3, AfterNamed
          <6>3. QED BY <5>2, <5>3, <6>1, <6>2, RefsTrue
        <5>4. CASE k \in ChildKeys
          <6>1. k \notin Naming BY <5>4 DEF ChildKeys, Naming
          <6>2. After(Key(k), NamedPaths) = {} BY <5>1, <5>4, AfterNamed
          <6>3. TextsAt(x, {}) = {} BY DEF TextsAt
          <6>4. QED BY <5>4, <6>1, <6>2, <6>3
        <5>5. CASE k \notin ChildKeys \cup Naming
          <6>1. After(Key(k), NamedPaths) = Listed(NamedPaths) BY <5>1, <5>5, AfterNamed
          <6>2. TextsAt(x, Listed(NamedPaths)) = UNION {TextsAt(y, NamedPaths) : y \in AsList(x)}
            BY <5>2, TextsListed, AfterNamed, NoEmpty
          <6>3. AsList(x) \subseteq Less(v)
            <7>1. AsList(x) \subseteq Under(v, k) BY DEF Under
            <7>2. QED BY <7>1, PartsLess
          <6>4. \A y \in AsList(x) : Named[y] = TextsAt(y, NamedPaths) BY <2>1, <6>3
          <6>5. QED BY <5>5, <6>1, <6>2, <6>4
        <5>6. QED BY <5>3, <5>4, <5>5
      <4>3. t \in Named[v]
              <=> \E k \in Keys(v) : \E x \in At(v, k) :
                    \/ k \in Naming /\ t \in Refs[x]
                    \/ k \notin ChildKeys \cup Naming /\ \E y \in AsList(x) : t \in Named[y]
        <5>1. \A k : \A x \in At(v, k) : k \in Keys(v) BY DEF At
        <5>2. t \in UNION {Refs[x] : x \in UNION {At(v, k) : k \in Naming}}
                <=> \E k \in Naming : \E x \in At(v, k) : t \in Refs[x]
          OBVIOUS
        <5>3. t \in UNION {Named[x] : x \in Searched(v)}
                <=> \E k \in Keys(v) \ (ChildKeys \cup Naming) : \E x \in At(v, k) :
                      \E y \in AsList(x) : t \in Named[y]
          BY DEF Searched, Under
        <5>4. QED BY <2>2, <5>1, <5>2, <5>3
      <4>4. QED BY <4>1, <4>2, <4>3
    <3>2. QED BY <3>1
  <2>5. QED BY <2>3, <2>4
<1>2. Good \in SUBSET Values OBVIOUS
<1>3. \A v \in Values : Less(v) \subseteq Good => v \in Good BY <1>1
<1> HIDE DEF Good
<1>4. \A v \in Values : v \in Good BY <1>2, <1>3, ByDepth, Zenon
<1>5. QED BY <1>4 DEF Good

\* Through child cards first.
LEMMA ReadTrue == \A v \in Values : Walk[v].read = TextsAt(v, NamesPaths)
<1> DEFINE Good == {v \in Values : Walk[v].read = TextsAt(v, NamesPaths)}
<1>1. ASSUME NEW v \in Values, Less(v) \subseteq Good PROVE Walk[v].read = TextsAt(v, NamesPaths)
  <2>1. \A x \in Less(v) : Walk[x].read = TextsAt(x, NamesPaths) BY <1>1
  <2>2. Walk[v].read = Named[v] \cup (UNION {Walk[c].read : c \in Children(v)})
    <3>1. Walk[v].read = Named[v] \cup (UNION {w.read : w \in {Walk[c] : c \in Children(v)}})
      BY WalkParts
    <3>2. QED BY <3>1
  <2>3. Named[v] = TextsAt(v, NamedPaths) BY NamedTrue
  <2>4. CASE v[1] = "text"
    <3>1. Keys(v) = {} BY <2>4 DEF Keys, IsMap
    <3>2. Children(v) = {} BY <3>1 DEF Children, Under, At
    <3>3. TextsAt(v, NamesPaths) = {} /\ TextsAt(v, NamedPaths) = {} BY <2>4, TextsOf, NoEmpty
    <3>4. QED BY <2>2, <2>3, <3>2, <3>3
  <2>5. CASE v[1] # "text"
    <3>1. ASSUME NEW t PROVE t \in TextsAt(v, NamesPaths) <=> t \in Walk[v].read
      <4>1. /\ t \in TextsAt(v, NamesPaths)
                 <=> \E k \in Keys(v) : \E x \in At(v, k) : t \in TextsAt(x, After(Key(k), NamesPaths))
            /\ t \in TextsAt(v, NamedPaths)
                 <=> \E k \in Keys(v) : \E x \in At(v, k) : t \in TextsAt(x, After(Key(k), NamedPaths))
        <5>1. \A x \in Items(v) : TextsAt(x, {}) = {} BY DEF TextsAt
        <5>2. QED BY <2>5, <5>1, TextsBelow, AfterNamed
      <4>2. ASSUME NEW k \in Keys(v), NEW x \in At(v, k)
            PROVE  t \in TextsAt(x, After(Key(k), NamesPaths))
                     <=> \/ t \in TextsAt(x, After(Key(k), NamedPaths))
                         \/ k \in ChildKeys /\ \E c \in AsList(x) : t \in Walk[c].read
        <5>1. Key(k) \in AllSteps BY DEF AllSteps
        <5>2. x \in Values /\ x \in Less(v) BY PartsLess DEF Less
        <5>3. CASE k \in ChildKeys
          <6>1. After(Key(k), NamesPaths) = Listed(NamesPaths) /\ After(Key(k), NamedPaths) = {}
            BY <5>1, <5>3, AfterNamed
          <6>2. TextsAt(x, Listed(NamesPaths)) = UNION {TextsAt(y, NamesPaths) : y \in AsList(x)}
            BY <5>2, TextsListed, AfterNamed, NoEmpty
          <6>3. AsList(x) \subseteq Less(v)
            <7>1. AsList(x) \subseteq Under(v, k) BY DEF Under
            <7>2. QED BY <7>1, PartsLess
          <6>4. \A y \in AsList(x) : Walk[y].read = TextsAt(y, NamesPaths) BY <2>1, <6>3
          <6>5. TextsAt(x, {}) = {} BY DEF TextsAt
          <6>6. QED BY <5>3, <6>1, <6>2, <6>4, <6>5
        <5>4. CASE k \notin ChildKeys
          <6>1. After(Key(k), NamesPaths) = After(Key(k), NamedPaths) BY <5>1, <5>4, AfterNamed
          <6>2. QED BY <5>4, <6>1
        <5>5. QED BY <5>3, <5>4
      <4>3. t \in UNION {Walk[c].read : c \in Children(v)}
              <=> \E k \in Keys(v) : \E x \in At(v, k) :
                    k \in ChildKeys /\ \E c \in AsList(x) : t \in Walk[c].read
        <5>1. \A k : \A x \in At(v, k) : k \in Keys(v) BY DEF At
        <5>2. \A c : c \in Children(v) <=> \E k \in ChildKeys : \E x \in At(v, k) : c \in AsList(x)
          BY DEF Children, Under
        <5>3. QED BY <5>1, <5>2
      <4>4. t \in Walk[v].read <=> t \in Named[v] \/ t \in UNION {Walk[c].read : c \in Children(v)}
        BY <2>2
      <4>5. t \in Walk[v].read
              <=> \E k \in Keys(v) : \E x \in At(v, k) :
                    \/ t \in TextsAt(x, After(Key(k), NamedPaths))
                    \/ k \in ChildKeys /\ \E c \in AsList(x) : t \in Walk[c].read
        BY <2>3, <4>1, <4>3, <4>4
      <4>6. QED BY <4>1, <4>2, <4>5
    <3>2. QED BY <3>1
  <2>6. QED BY <2>4, <2>5
<1>2. Good \in SUBSET Values OBVIOUS
<1>3. \A v \in Values : Less(v) \subseteq Good => v \in Good BY <1>1
<1> HIDE DEF Good
<1>4. \A v \in Values : v \in Good BY <1>2, <1>3, ByDepth, Zenon
<1>5. QED BY <1>4 DEF Good

\* A card shows what some scope is asked for, and the other way round.
LEMMA ShownScoped ==
  \A v \in Values : Walk[v].shown = Walk[v].read \cup Walk[v].history \cup Walk[v].cameras
<1> DEFINE Good == {v \in Values : Walk[v].shown = Walk[v].read \cup Walk[v].history \cup Walk[v].cameras}
<1>1. ASSUME NEW v \in Values, Less(v) \subseteq Good
      PROVE  Walk[v].shown = Walk[v].read \cup Walk[v].history \cup Walk[v].cameras
  <2> DEFINE children == {Walk[c] : c \in Children(v)}
             past == IF TypeOf(v) \in HistoryTypes THEN Named[v] ELSE {}
  <2>1. Children(v) \subseteq Less(v) BY PartsLess DEF Children
  <2>2. \A w \in children : w.shown = w.read \cup w.history \cup w.cameras BY <1>1, <2>1
  <2>3. /\ Walk[v].read = Named[v] \cup (UNION {w.read : w \in children})
        /\ Walk[v].history = past \cup (UNION {w.history : w \in children})
        /\ Walk[v].cameras = Shot(v) \cup (UNION {w.cameras : w \in children})
        /\ Walk[v].shown = Named[v] \cup Shot(v) \cup (UNION {w.shown : w \in children})
    BY WalkParts
  <2>4. past \subseteq Named[v] OBVIOUS
  <2> HIDE DEF children, past
  <2>5. UNION {w.shown : w \in children}
          = (UNION {w.read : w \in children}) \cup (UNION {w.history : w \in children})
              \cup (UNION {w.cameras : w \in children})
    <3>1. \A t : (\E w \in children : t \in w.shown)
                   <=> \/ \E w \in children : t \in w.read
                       \/ \E w \in children : t \in w.history
                       \/ \E w \in children : t \in w.cameras
      BY <2>2
    <3>2. QED BY <3>1
  <2>6. QED BY <2>3, <2>4, <2>5
<1>2. Good \in SUBSET Values OBVIOUS
<1>3. \A v \in Values : Less(v) \subseteq Good => v \in Good BY <1>1
<1> HIDE DEF Good
<1>4. \A v \in Values : v \in Good BY <1>2, <1>3, ByDepth, Zenon
<1>5. QED BY <1>4 DEF Good

\* Of a configuration that occurs, the cards occur as well.
LEMMA CardsAreValues ==
  ASSUME NEW config \in Values, NEW v
  PROVE  AllCards(config, v) \subseteq Values
<1>1. \A x \in Values : \A k : Under(x, k) \subseteq Values /\ At(x, k) \subseteq Values /\ Items(x) \subseteq Values
  BY PartsLess DEF Less
<1>2. ViewsOf(config, v) \subseteq Values
  <2>1. CASE "views" \notin Keys(config) BY <2>1 DEF ViewsOf
  <2>2. CASE "views" \in Keys(config)
    <3> DEFINE views == config[2]["views"]
    <3>1. views \in At(config, "views") BY <2>2 DEF At
    <3>2. views \in Values BY <1>1, <3>1
    <3>3. Items(views) \subseteq Values BY <1>1, <3>2
    <3>4. views[1] = "list" /\ v \in DOMAIN views[2] => views[2][v] \in Items(views) BY DEF Items
    <3>5. ViewsOf(config, v)
            = IF v = 0 THEN Items(views)
              ELSE IF views[1] = "list" /\ v \in DOMAIN views[2] THEN {views[2][v]} ELSE {}
      BY <2>2 DEF ViewsOf
    <3> HIDE DEF views
    <3>6. QED BY <3>3, <3>4, <3>5
  <2>3. QED BY <2>1, <2>2
<1>3. \A x \in Values : CardsOf(x) \subseteq Values BY <1>1 DEF CardsOf
<1>4. QED BY <1>2, <1>3 DEF AllCards

\* An entity is read exactly if a path of the dashboard names it, and the manifest
\* that is proposed asks for what the owner picks and no more, whatever the
\* dashboard and its depth (harvest_lovelace_config and build_dashboard_export).
THEOREM HarvestHolds == LovelaceSpec => []HarvestTrue
<1>1. LovelaceInit => HarvestTrue
  <2> SUFFICES ASSUME LovelaceInit PROVE HarvestTrue OBVIOUS
  <2>1. input[1] \in Values BY InputsAssumption DEF LovelaceInit
  <2> DEFINE cards == AllCards(input[1], input[2])
             h == HarvestOf(input[1], input[2])
             m == ManifestOf(h, input[3])
             walks == {Walk[c] : c \in cards}
             selected == IF input[3] = <<>> THEN h.entities ELSE input[3][1] \cap h.entities
  <2>2. cards \subseteq Values BY <2>1, CardsAreValues
  <2>3. /\ h.read = UNION {w.read : w \in walks}
        /\ h.history = UNION {w.history : w \in walks}
        /\ h.cameras = UNION {w.cameras : w \in walks}
        /\ h.entities = h.read \cup h.history \cup h.cameras
        /\ h.cards = {w.shown : w \in walks} \ {{}}
    BY DEF HarvestOf
  <2>4. /\ m.read = h.read \cap selected
        /\ m.history = h.history \cap selected
        /\ m.cameras = h.cameras \cap selected
        /\ m.selected = selected
        /\ m.cards = {c \cap selected : c \in {d \in h.cards : d \cap selected # {}}}
    <3> HIDE DEF h
    <3>1. QED BY DEF ManifestOf, CardFor
  <2>5. selected \subseteq h.entities /\ (input[3] # <<>> => selected \subseteq input[3][1])
    <3> HIDE DEF h
    <3>1. QED OBVIOUS
  <2>6. \A w \in walks : w.shown = w.read \cup w.history \cup w.cameras BY <2>2, ShownScoped
  <2>7. h.read = {l[2] : l \in {x \in UNION {Leaves[c] : c \in cards} :
                                  x[2] \in EntityIds /\ Names(x[1])}}
    <3>1. h.read = UNION {Walk[c].read : c \in cards}
      <4> HIDE DEF h, cards
      <4>1. QED BY <2>3
    <3>2. h.read = UNION {TextsAt(c, NamesPaths) : c \in cards}
      <4> HIDE DEF h, cards
      <4>1. QED BY <2>2, <3>1, ReadTrue
    <3>3. \A c \in cards : \A l \in Leaves[c] : l[1] \in Paths
      <4> HIDE DEF cards
      <4>1. QED BY <2>2, LeavesIs
    <3> HIDE DEF h, cards
    <3>4. \A t : (\E c \in cards : t \in TextsAt(c, NamesPaths))
                  <=> \E c \in cards : \E l \in Leaves[c] : t = l[2] /\ l[2] \in EntityIds /\ Names(l[1])
      BY <3>3 DEF TextsAt, NamesPaths
    <3>5. QED BY <3>2, <3>4
  <2>8. m.read \cup m.history \cup m.cameras = m.selected
    <3> HIDE DEF h, m, selected, walks
    <3>1. QED BY <2>3, <2>4, <2>5
  <2>9. UNION m.cards = m.selected
    <3> HIDE DEF h, m, selected, walks
    <3>1. \A t : t \in h.entities <=> \E w \in walks : t \in w.shown
      <4>1. \A t : t \in h.entities
                    <=> \/ \E w \in walks : t \in w.read
                        \/ \E w \in walks : t \in w.history
                        \/ \E w \in walks : t \in w.cameras
        BY <2>3
      <4>2. QED BY <2>6, <4>1
    <3>2. \A t : t \in h.entities <=> \E c \in h.cards : t \in c
      <4>1. \A c : c \in h.cards <=> c # {} /\ \E w \in walks : c = w.shown BY <2>3
      <4>2. QED BY <3>1, <4>1
    <3>3. \A t : t \in UNION m.cards <=> t \in selected /\ \E c \in h.cards : t \in c
      <4>1. \A t : t \in UNION m.cards
                    <=> \E c \in h.cards : c \cap selected # {} /\ t \in c \cap selected
        BY <2>4
      <4>2. QED BY <4>1
    <3>4. QED BY <2>4, <2>5, <3>2, <3>3
  <2>10. /\ HarvestTrue
              <=> /\ h.read = {l[2] : l \in {x \in UNION {Leaves[c] : c \in cards} :
                                               x[2] \in EntityIds /\ Names(x[1])}}
                  /\ m.read \cup m.history \cup m.cameras = m.selected
                  /\ input[3] # <<>> => m.selected \subseteq input[3][1]
                  /\ UNION m.cards = m.selected
    BY DEF HarvestTrue
  <2> HIDE DEF h, m, selected, walks, cards
  <2>11. QED BY <2>4, <2>5, <2>7, <2>8, <2>9, <2>10
<1>2. ASSUME HarvestTrue, UNCHANGED input PROVE HarvestTrue'
  BY <1>2 DEF HarvestTrue
<1>3. QED BY <1>1, <1>2, PTL DEF LovelaceSpec
===============================================================================
