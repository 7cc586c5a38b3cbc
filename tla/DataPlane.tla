-------------------------------- MODULE DataPlane --------------------------------
(***************************************************************************)
(* The way of a data request through the authority once its grant is found *)
(* (custom_components/varco/authority.py): the consumer's budget, the      *)
(* scopes, the restrictions and last the rate restrictions, which count a  *)
(* call only if none of them refuses it.                                   *)
(*                                                                         *)
(* Nothing on this way suspends before the decision (templates are         *)
(* rendered at once; audits and the service call come after it), so a      *)
(* message is one step.                                                    *)
(*                                                                         *)
(* The lists of times in the code are sets of calls with their times here, *)
(* an entry of weight w being w units.  The calls are one consumer's under *)
(* one grant.  Wall clock and monotonic clock advance together.            *)
(* Restrictions have different ids, as those made in the panel, and keep   *)
(* their parameters when they are switched on and off.                     *)
(***************************************************************************)
EXTENDS Policy

CONSTANTS
  Calls,     \* the calls of the consumer, each made once
  Messages,  \* the messages it may send
  Settings,  \* the sets of restrictions the owner may leave switched on
  Budget,    \* data_plane_rate_limit (240)
  Span,      \* data_plane_rate_window (60 s)
  MaxTime    \* bound on the clock

ASSUME CallsAssumption == IsFiniteSet(Calls)
ASSUME RulesAssumption ==
  /\ RuleIds \subseteq Nat
  /\ \A i \in RateRules : /\ Rules[i].limit \in Nat
                          /\ Rules[i].window_seconds \in Nat
                          /\ Rules[i].cooldown_seconds \in Nat
ASSUME SettingsAssumption == Settings \subseteq SUBSET RuleIds
ASSUME MessagesAssumption ==
  \A m \in Messages :
    m = [op |-> m.op, wanted |-> m.wanted, groups |-> m.groups, domain |-> m.domain,
         service |-> m.service, met |-> m.met]
ASSUME NumbersAssumption == Budget \in Nat /\ Span \in Nat /\ MaxTime \in Nat

VARIABLES
  now,      \* the clocks
  enabled,  \* the restrictions that are switched on
  hits,     \* _rate_hits of the grant: rule -> calls
  spent,    \* _data_plane_hits of the consumer: units
  at,       \* history: when a call was charged, Unused before
  cost,     \* history: what it was charged
  counted,  \* history: the rules that counted it
  answer    \* the outcome of the last message and what it is due to

history == <<at, cost, counted>>
vars == <<now, enabled, hits, spent, history, answer>>

Unused == -1

\* DATA_PLANE_OP_WEIGHTS
Weight(op) ==
  CASE op \in {"history", "camera"} -> 5
    [] op = "action"                -> 2
    [] OTHER                        -> 1

Limit    == [i \in RateRules |-> Rules[i].limit]
Window   == [i \in RateRules |-> Rules[i].window_seconds]
Cooldown == [i \in RateRules |-> Rules[i].cooldown_seconds]

-----------------------------------------------------------------------------
(* The budget: _check_data_plane_rate. *)

SpentLately == {u \in spent : now - at[u[1]] < Span}

\* mutant of OverBudget: asks only whether the budget is used up
BudgetGone(w) == Cardinality(SpentLately) + 1 > Budget

OverBudget(w) == Cardinality(SpentLately) + w > Budget

Charge(c, w) ==
  /\ at[c] = Unused
  /\ ~OverBudget(w)
  /\ spent' = SpentLately \cup ({c} \X (1..w))
  /\ at' = [at EXCEPT ![c] = now]
  /\ cost' = [cost EXCEPT ![c] = w]

\* The list is pruned even if the message is refused.
RefuseOverBudget(m) ==
  /\ OverBudget(Weight(m.op))
  /\ spent' = SpentLately
  /\ answer' = <<"over_budget", Weight(m.op)>>
  /\ UNCHANGED <<now, enabled, hits, history>>

-----------------------------------------------------------------------------
(* Rate restrictions: _check_and_record_rate_limits, a loop over the rules M *)
(* that match, in the order of declaration.                                  *)

Recent(i) == {c \in hits[i] : now - at[c] < Window[i]}

Limited(i) == Limit[i] # 0 /\ Window[i] # 0

CoolingDown(i) == \E c \in hits[i] : now - at[c] < Cooldown[i]

\* mutant of Full: one over the limit
FullLate(i) == Limited(i) /\ Cardinality(Recent(i)) > Limit[i]

Full(i) == Limited(i) /\ Cardinality(Recent(i)) >= Limit[i]

Refuses(i) == CoolingDown(i) \/ Full(i)

\* The loop comes to rule i, as no earlier one refuses.
Reaches(i, M) == i \in M /\ \A j \in M : j < i => ~Refuses(j)

\* The list of rule i after the loop.
Pruned(i, M) ==
  IF Reaches(i, M) /\ ~CoolingDown(i) /\ Limited(i) THEN Recent(i) ELSE hits[i]

RefuseUnallowed(c, m) ==
  /\ Charge(c, Weight(m.op))
  /\ ~Allowed(enabled, m, now)
  /\ answer' = <<"not_allowed", Weight(m.op)>>
  /\ UNCHANGED <<now, enabled, hits, counted>>

\* mutant of RefuseRate: the rules before the one that refuses count the call
CountAndRefuse(c, m) ==
  LET M == RatesFor(enabled, m) IN
  /\ Charge(c, Weight(m.op))
  /\ Allowed(enabled, m, now)
  /\ \E i \in M :
       /\ Reaches(i, M) /\ Refuses(i)
       /\ answer' = <<IF CoolingDown(i) THEN "cooldown_active" ELSE "rate_limited", i>>
  /\ hits' = [i \in RateRules |->
       Pruned(i, M) \cup {d \in {c} : Reaches(i, M) /\ ~Refuses(i)}]
  /\ UNCHANGED <<now, enabled, counted>>

RefuseRate(c, m) ==
  LET M == RatesFor(enabled, m) IN
  /\ Charge(c, Weight(m.op))
  /\ Allowed(enabled, m, now)
  /\ \E i \in M :
       /\ Reaches(i, M) /\ Refuses(i)
       /\ answer' = <<IF CoolingDown(i) THEN "cooldown_active" ELSE "rate_limited", i>>
  /\ hits' = [i \in RateRules |-> Pruned(i, M)]
  /\ UNCHANGED <<now, enabled, counted>>

Serve(c, m) ==
  LET M == RatesFor(enabled, m) IN
  /\ Charge(c, Weight(m.op))
  /\ Allowed(enabled, m, now)
  /\ \A i \in M : ~Refuses(i)
  /\ hits' = [i \in RateRules |-> IF i \in M THEN Pruned(i, M) \cup {c} ELSE hits[i]]
  /\ counted' = [counted EXCEPT ![c] = M]
  /\ answer' = <<"served", Weight(m.op)>>
  /\ UNCHANGED <<now, enabled>>

-----------------------------------------------------------------------------
\* set_grant_restrictions, as the panel's switches use it.
SetRestrictions(S) ==
  /\ enabled' = S
  /\ UNCHANGED <<now, hits, spent, history, answer>>

Tick ==
  /\ now < MaxTime
  /\ now' = now + 1
  /\ UNCHANGED <<enabled, hits, spent, history, answer>>

Init ==
  /\ now = 0
  /\ enabled \in Settings
  /\ hits = [i \in RateRules |-> {}]
  /\ spent = {}
  /\ at = [c \in Calls |-> Unused]
  /\ cost = [c \in Calls |-> 0]
  /\ counted = [c \in Calls |-> {}]
  /\ answer = <<"none", 0>>

Next ==
  \/ \E m \in Messages : RefuseOverBudget(m)
  \/ \E c \in Calls, m \in Messages :
       RefuseUnallowed(c, m) \/ RefuseRate(c, m) \/ Serve(c, m)
  \/ \E S \in Settings : SetRestrictions(S)
  \/ Tick

Spec == Init /\ [][Next]_vars

-----------------------------------------------------------------------------
(* Properties. *)

Charged == {c \in Calls : at[c] # Unused}

\* A call that costs w is w units.
UnitsOf(C) == UNION {{c} \X (1..cost[c]) : c \in C}

Outcomes ==
  {"none", "over_budget", "not_allowed", "cooldown_active", "rate_limited", "served"}

\* The types; the lists hold calls that were made, and units of their weight.
TypeOK ==
  /\ now \in 0..MaxTime
  /\ enabled \subseteq RuleIds
  /\ hits \in [RateRules -> SUBSET Charged]
  /\ at \in [Calls -> -1..MaxTime]
  /\ cost \in [Calls -> 0..5]
  /\ counted \in [Calls -> SUBSET RateRules]
  /\ spent \subseteq UnitsOf(Charged)
  /\ answer \in Outcomes \X Nat

CountedBy(i) == {c \in Charged : i \in counted[c]}

Lately(C, span) == {c \in C : now - at[c] < span}

\* No rate restriction ever serves more than its limit in a window that ends
\* now, though its list is pruned, the restriction switched off and on again
\* and calls refused for other reasons in between.
LimitsKept ==
  \A i \in RateRules :
    Limited(i) => Cardinality(Lately(CountedBy(i), Window[i])) <= Limit[i]

\* What a consumer was charged in the span of the budget is within it, served
\* or not.
BudgetKept == Cardinality(UnitsOf(Lately(Charged, Span))) <= Budget

\* Two calls that count for a restriction keep its cooldown apart.
CooldownsKept ==
  \A i \in RateRules : \A c, d \in CountedBy(i) :
    c # d => at[c] - at[d] >= Cooldown[i] \/ at[d] - at[c] >= Cooldown[i]

Q == INSTANCE Quota WITH Costs <- {1, 2, 5}

\* The pruned lists decide as the whole history would: no call is refused for
\* calls that were refused or are out of the window, and none is served because
\* an entry was dropped that still counts.
DecidesByHistory == Q!Spec

\* Each message over one entity only
Single(m, e) == [m EXCEPT !.wanted = {Names(e)}, !.groups = {}]

\* A message is allowed when it is for each of its entities: scopes and
\* restrictions leave no gap between several targets, or a pattern, an area or
\* a label, and the entities they stand for.  (The size of a history query is
\* judged as a whole.  Before the first call the rates have no say.)
JudgedByTarget ==
  Charged = {} =>
    \A m \in Messages :
      TargetsOf(m) # {} /\ Cardinality(TargetsOf(m)) <= MaxHistoryEntities
        /\ m.groups \subseteq DOMAIN MembersOf
      => (Allowed(enabled, m, now) <=>
            \A e \in TargetsOf(m) : Allowed(enabled, Single(m, e), now))

\* A schedule allows the times from its start on up to its end, around midnight
\* too.
SchedulesRunToTheirEnd ==
  \A i \in RuleIds : Rules[i].type = "schedule" =>
    LET after(x) == (x - Rules[i].start_time) % DayLength
    IN ScheduleAllows(Rules[i], now) <=>
         /\ Rules[i].days = {} \/ (now \div DayLength) % WeekLength \in Rules[i].days
         /\ after(now % DayLength) <= after(Rules[i].end_time)
=============================================================================
