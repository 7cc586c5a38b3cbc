--------------------------------- MODULE Policy ---------------------------------
(***************************************************************************)
(* What a grant allows: custom_components/varco/policy.py, with the parts  *)
(* of authority.py that gather the targets of a message.                   *)
(*                                                                         *)
(* A scope "light.kitchen", "light.*" or "*" is a pair <<domain, entity>>, *)
(* an action scope "light.turn_on@light.kitchen", "light.*@light.kitchen", *)
(* "*@light.kitchen" or "light.*" a triple <<domain, service, entity>>,    *)
(* both with Star for the star.  A PIN and a template are decided by what  *)
(* the message carries and by Home Assistant: a message lists in "met" the *)
(* rules of these kinds it meets.                                          *)
(***************************************************************************)
EXTENDS Integers, FiniteSets

CONSTANTS
  Entities,      \* entity ids
  DomainOf,      \* DomainOf[e]: what stands before the dot of an entity id
  Star,          \* the star
  None,          \* Python's None
  MembersOf,     \* MembersOf[g]: the entities of a known area, device or label
  Manifest,      \* the scopes of the grant
  Rules,         \* its restrictions, in the order of their declaration
  DayLength,     \* ticks of a day
  WeekLength,    \* days of a week
  MaxHistoryEntities

ASSUME EntitiesAssumption ==
  /\ Star \notin Entities
  /\ \A g \in DOMAIN MembersOf : MembersOf[g] \subseteq Entities
  /\ MaxHistoryEntities \in Nat \ {0}

RuleIds   == DOMAIN Rules
RateRules == {i \in RuleIds : Rules[i].type = "rate"}

-----------------------------------------------------------------------------
(* Scopes. *)

Names(e) == <<DomainOf[e], e>>

EntityAllowed(e, allowed) ==
  {Names(e), <<DomainOf[e], Star>>, <<Star, Star>>} \cap allowed # {}

ReadEntities == Manifest.read_entities

SubscriptionEntities == Manifest.subscriptions \cup ReadEntities

\* A call without an entity is domain-wide: only the scope of the domain fits.
ActionCandidates(d, s, e) ==
  IF e = None
    THEN {<<d, Star, Star>>}
    ELSE {<<d, s, e>>, <<d, Star, e>>, <<Star, Star, e>>} \cup
         {<<x, Star, Star>> : x \in {d} \cap {DomainOf[e]}}

ActionAllowed(d, s, e) == ActionCandidates(d, s, e) \cap Manifest.actions # {}

\* _expand_entity_ids: a name stands for itself, a pattern for the entities it
\* covers that the scope allows.
Expand(wanted, allowed) ==
  {e \in Entities :
     \/ Names(e) \in wanted
     \/ /\ EntityAllowed(e, wanted)
        /\ EntityAllowed(e, allowed)}

Named(m) == {e \in Entities : Names(e) \in m.wanted}

\* The entities of the known areas, devices and labels of an action.
Members(m) == UNION {MembersOf[g] : g \in m.groups \cap DOMAIN MembersOf}

\* The entities a message is about.
TargetsOf(m) ==
  CASE m.op = "read"      -> Expand(m.wanted, ReadEntities)
    [] m.op = "subscribe" -> Expand(m.wanted, SubscriptionEntities)
    [] m.op = "action"    -> Named(m) \cup Members(m)
    [] OTHER              -> Named(m)

\* An action without an entity stands for the domain.
OrNone(T) == IF T = {} THEN {None} ELSE T

InScope(m) ==
  LET T == TargetsOf(m) IN
  CASE m.op = "read"      -> \A e \in T : EntityAllowed(e, ReadEntities)
    [] m.op = "subscribe" -> \A e \in T : EntityAllowed(e, SubscriptionEntities)
    [] m.op = "history"   -> /\ Cardinality(T) <= MaxHistoryEntities
                             /\ \A e \in T : EntityAllowed(e, Manifest.history)
    [] m.op = "camera"    -> \A e \in T : EntityAllowed(e, Manifest.camera_snapshots)
    [] m.op = "action"    -> /\ m.groups \subseteq DOMAIN MembersOf
                             /\ \A e \in OrNone(T) : ActionAllowed(m.domain, m.service, e)
    [] OTHER              -> TRUE

-----------------------------------------------------------------------------
(* Restrictions. *)

\* mutant of SelectorMatches: looks for one selector that fits every target
SelectorMatchesAll(ops, actions, m) ==
  \/ m.op \in ops
  \/ /\ m.op = "action"
     /\ \E a \in actions : \A e \in OrNone(TargetsOf(m)) :
          a \in ActionCandidates(m.domain, m.service, e)

SelectorMatches(ops, actions, m) ==
  \/ m.op \in ops
  \/ /\ m.op = "action"
     /\ \E e \in OrNone(TargetsOf(m)) :
          ActionCandidates(m.domain, m.service, e) \cap actions # {}

\* applies_to: a list of selectors of which any may fit ("any"), or an object
\* whose operation, and then its actions or else its entities, have to ("all").
RestrictionMatches(i, m) ==
  LET a == Rules[i].applies_to IN
  IF a.form = "any"
    THEN SelectorMatches(a.ops, a.actions, m)
    ELSE /\ a.ops = {} \/ m.op \in a.ops
         /\ IF a.actions # {}
              THEN SelectorMatches({}, a.actions, m)
              ELSE a.entities = {} \/ \E e \in TargetsOf(m) : EntityAllowed(e, a.entities)

ASSUME SchedulesAssumption ==
  /\ DayLength \in Nat \ {0}
  /\ \A i \in RuleIds : Rules[i].type = "schedule" =>
       Rules[i].start_time \in 0..(DayLength - 1) /\ Rules[i].end_time \in 0..(DayLength - 1)

\* mutant of WithinHours: knows no window over midnight
WithinOneDay(start, end, t) == start <= t /\ t <= end

WithinHours(start, end, t) ==
  IF start <= end THEN start <= t /\ t <= end ELSE start <= t \/ t <= end

ScheduleAllows(rule, t) ==
  /\ rule.days = {} \/ (t \div DayLength) % WeekLength \in rule.days
  /\ WithinHours(rule.start_time, rule.end_time, t % DayLength)

\* _evaluate_restriction.  Rates are left to the authority; what is neither
\* known nor readable denies.
RuleAllows(i, m, t) ==
  CASE Rules[i].type = "expiry"             -> t < Rules[i].expires_at
    [] Rules[i].type = "schedule"           -> ScheduleAllows(Rules[i], t)
    [] Rules[i].type \in {"pin", "template"} -> i \in m.met
    [] Rules[i].type = "rate"               -> TRUE
    [] OTHER                                -> FALSE

\* The stateless part of _enforce_restrictions, for the enabled rules.
RestrictionsAllow(enabled, m, t) ==
  \A i \in enabled : RestrictionMatches(i, m) => RuleAllows(i, m, t)

\* grant_info, unsubscribe and messages of unknown type are not restricted.
Allowed(enabled, m, t) ==
  m.op = "other" \/ (InScope(m) /\ RestrictionsAllow(enabled, m, t))

\* rate_limit_restrictions
RatesFor(enabled, m) ==
  {i \in enabled \cap RateRules : m.op # "other" /\ RestrictionMatches(i, m)}
=============================================================================
