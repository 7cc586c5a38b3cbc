--------------------------------- MODULE Lovelace --------------------------------
(***************************************************************************)
(* What the authority reads off a Lovelace dashboard, and the manifest it  *)
(* proposes for the entities that the owner picked (dashboard_export.py).  *)
(*                                                                         *)
(* A configuration is a JSON value: <<"text", t>>, <<"list", values>> or   *)
(* <<"map", function on keys>>.  A text is an entity, a type of card, or   *)
(* anything else.  Abstracted: titles, warnings, the catalog and the text  *)
(* of the brief; the order of entities, and what is listed twice.          *)
(***************************************************************************)
EXTENDS Naturals, Sequences, FiniteSets

CONSTANTS
  EntityIds,  \* texts that _ENTITY_RE matches
  Cameras,    \* those of the domain camera
  Values,     \* the JSON values that occur, ...
  Depth,      \* ... and how deep each is nested
  Inputs      \* bound: <<configuration, view or 0 for all, picks>> to consider

VARIABLE input

HistoryTypes == {"history-graph"}
CameraTypes  == {"camera", "picture-glance", "picture-entity"}
ChildKeys    == {"cards", "elements", "card"}
Naming       == {"entity", "entities"}

IsMap(v)  == v[1] = "map"
Keys(v)   == IF IsMap(v) THEN DOMAIN v[2] ELSE {}
Items(v)  == IF v[1] = "list" THEN {v[2][i] : i \in DOMAIN v[2]} ELSE {}
AsList(v) == IF v[1] = "list" THEN Items(v) ELSE {v}

\* What a map has under a key, and what _as_list makes of it.
At(v, k)    == IF k \in Keys(v) THEN {v[2][k]} ELSE {}
Under(v, k) == UNION {AsList(x) : x \in At(v, k)}

Parts(v) == Items(v) \cup (UNION {At(v, k) : k \in Keys(v)})

ASSUME LovelaceAssumption == Cameras \subseteq EntityIds
ASSUME ValuesAssumption ==
  /\ Depth \in [Values -> Nat]
  /\ \A v \in Values : \A x \in Parts(v) : x \in Values /\ Depth[x] < Depth[v]
ASSUME InputsAssumption == \A i \in Inputs : i[1] \in Values

\* _entity_refs_from_value
Refs[v \in Values] ==
  IF v[1] = "text" THEN {v[2]} \cap EntityIds
                   ELSE UNION {Refs[x] : x \in Items(v) \cup At(v, "entity")}

\* What is searched for named keys; a value that is no map has none.
Searched(card) == UNION {Under(card, k) : k \in Keys(card) \ (ChildKeys \cup Naming)}

\* _entity_refs_from_named_keys
Named[card \in Values] ==
  (UNION {Refs[x] : x \in UNION {At(card, k) : k \in Naming}})
    \cup (UNION {Named[x] : x \in Searched(card)})

TypeOf(card) == IF "type" \in Keys(card) THEN card[2]["type"][2] ELSE "unknown"

\* The cameras of a card that shows one.
Shot(card) ==
  IF TypeOf(card) \in CameraTypes
    THEN (Named[card] \cup (UNION {Refs[x] : x \in At(card, "camera_image")})) \cap Cameras
    ELSE {}

Children(card) == UNION {Under(card, k) : k \in ChildKeys}

\* _walk_card; what is read is subscribed to.  A card that is no map has nothing.
Walk[card \in Values] ==
  LET own == Named[card]
      children == {Walk[c] : c \in Children(card)} IN
    [read    |-> own \cup (UNION {w.read : w \in children}),
     history |-> (IF TypeOf(card) \in HistoryTypes THEN own ELSE {})
                   \cup (UNION {w.history : w \in children}),
     cameras |-> Shot(card) \cup (UNION {w.cameras : w \in children}),
     shown   |-> own \cup Shot(card) \cup (UNION {w.shown : w \in children})]

\* The cards of a view: its own, those of its sections, and its badges.
CardsOf(view) ==
  Under(view, "cards") \cup Under(view, "badges")
    \cup (UNION {Under(section, "cards") : section \in Under(view, "sections")})

\* The views that are asked for: by number, 0 for all.  None if there is no such view.
ViewsOf(config, v) ==
  IF "views" \notin Keys(config) THEN {}
  ELSE LET views == config[2]["views"] IN
         IF v = 0 THEN Items(views)
         ELSE IF views[1] = "list" /\ v \in DOMAIN views[2] THEN {views[2][v]} ELSE {}

AllCards(config, v) == UNION {CardsOf(view) : view \in ViewsOf(config, v)}

\* harvest_lovelace_config; cards holds the entities of each card that has any.
HarvestOf(config, v) ==
  LET walks   == {Walk[c] : c \in AllCards(config, v)}
      read    == UNION {w.read : w \in walks}
      history == UNION {w.history : w \in walks}
      cameras == UNION {w.cameras : w \in walks} IN
    [read |-> read, history |-> history, cameras |-> cameras,
     entities |-> read \cup history \cup cameras,
     cards |-> {w.shown : w \in walks} \ {{}}]

\* mutant of CardFor: cards are listed with all that they show
CardForAll(card, selected) == card

\* _dashboard_manifest keeps of a card what is selected.
CardFor(card, selected) == card \cap selected

\* build_dashboard_export; without picks everything is selected.
ManifestOf(harvest, picks) ==
  LET selected == IF picks = <<>> THEN harvest.entities ELSE picks[1] \cap harvest.entities IN
    [read |-> harvest.read \cap selected, history |-> harvest.history \cap selected,
     cameras |-> harvest.cameras \cap selected, selected |-> selected,
     cards |-> {CardFor(c, selected) : c \in {d \in harvest.cards : d \cap selected # {}}}]

LovelaceInit == input \in Inputs
LovelaceSpec == LovelaceInit /\ [][UNCHANGED input]_input

-----------------------------------------------------------------------------
\* The reference: the texts of a value, each with the steps that lead to it, a
\* key or the place in a list.
Place  == <<>>
Key(k) == <<k>>

Steps(v) == {<<Place, x>> : x \in Items(v)} \cup {<<Key(k), v[2][k]>> : k \in Keys(v)}

Behind(step, leaves) == {<< <<step>> \o l[1], l[2]>> : l \in leaves}

Leaves[v \in Values] ==
  IF v[1] = "text" THEN {<< <<>>, v[2]>>}
                   ELSE UNION {Behind(s[1], Leaves[s[2]]) : s \in Steps(v)}

\* From a card on, steps lead through child cards (a of them), then through other
\* keys, to an entity or entities, below which rows name an entity.  Cards and
\* other maps may be in a list, but not in lists of lists.
Splits(path, a, b) ==
  /\ \A i \in 1..a : path[i] \in {Key(k) : k \in ChildKeys} \cup {Place}
  /\ \A i \in a + 1..b : path[i] \notin {Key(k) : k \in ChildKeys \cup Naming}
  /\ path[b + 1] \in {Key(k) : k \in Naming}
  /\ \A i \in b + 2..Len(path) : path[i] \in {Key("entity"), Place}
  /\ \A i \in 1..b : path[i] = Place => i > 1 /\ path[i - 1] # Place

Names(path) == \E b \in 0..Len(path) - 1 : \E a \in 0..b : Splits(path, a, b)

\* Whatever the nesting of cards, sections, rows and templates, an entity is read
\* exactly if such a path names it; and whatever the owner picks, the proposed
\* manifest asks for what is picked and no more: each card it lists shows what
\* some scope grants, and what is granted is on some card.
HarvestTrue ==
  LET harvest == HarvestOf(input[1], input[2])
      m == ManifestOf(harvest, input[3]) IN
    /\ harvest.read = {l[2] : l \in {x \in UNION {Leaves[c] : c \in AllCards(input[1], input[2])} :
                                       x[2] \in EntityIds /\ Names(x[1])}}
    /\ m.read \cup m.history \cup m.cameras = m.selected
    /\ input[3] # <<>> => m.selected \subseteq input[3][1]
    /\ UNION m.cards = m.selected
=============================================================================
