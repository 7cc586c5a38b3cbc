---------------------------------- MODULE Quota ----------------------------------
(***************************************************************************)
(* What the authority promises about rates: every message of a consumer is *)
(* judged by all its calls so far.  Nothing is pruned here and nothing is  *)
(* forgotten; module DataPlane implements this with the lists of the code. *)
(***************************************************************************)
EXTENDS Integers, FiniteSets

CONSTANTS
  Calls,      \* the calls of a consumer, each made once
  Costs,      \* what a call may cost
  RateRules,  \* the rate restrictions of its grant
  Limit,      \* Limit[i] calls ...
  Window,     \* ... in Window[i] ticks; no limit if either is 0
  Cooldown,   \* the least distance of two calls
  Budget,     \* data_plane_rate_limit (240)
  Span,       \* data_plane_rate_window (60 s)
  Unused      \* the time of a call not made

VARIABLES
  now,      \* the clock
  at,       \* when a call was charged to the budget
  cost,     \* what it was charged
  counted,  \* the rules that count a call
  answer    \* the outcome of the last message and what it is due to

vars == <<now, at, cost, counted, answer>>

Charged == {c \in Calls : at[c] # Unused}

Since(C, span) == {c \in C : now - at[c] < span}

Counts(i) == {c \in Charged : i \in counted[c]}

\* A call that costs w is w units.
Units == UNION {{c} \X (1..cost[c]) : c \in Since(Charged, Span)}

OverBudget(w) == Cardinality(Units) + w > Budget

Limited(i) == Limit[i] # 0 /\ Window[i] # 0

Full(i) == Limited(i) /\ Cardinality(Since(Counts(i), Window[i])) >= Limit[i]

CoolingDown(i) == Since(Counts(i), Cooldown[i]) # {}

-----------------------------------------------------------------------------
Charge(c, w) ==
  /\ at[c] = Unused
  /\ ~OverBudget(w)
  /\ at' = [at EXCEPT ![c] = now]
  /\ cost' = [cost EXCEPT ![c] = w]
  /\ UNCHANGED now

RefuseOverBudget(w) ==
  /\ OverBudget(w)
  /\ answer' = <<"over_budget", w>>
  /\ UNCHANGED <<now, at, cost, counted>>

\* The grant does not allow it, whatever the rates.
RefuseUnallowed(c, w) ==
  /\ Charge(c, w)
  /\ answer' = <<"not_allowed", w>>
  /\ UNCHANGED counted

RefuseRate(c, w, i) ==
  /\ Charge(c, w)
  /\ \/ CoolingDown(i) /\ answer' = <<"cooldown_active", i>>
     \/ Full(i) /\ answer' = <<"rate_limited", i>>
  /\ UNCHANGED counted

Serve(c, w, M) ==
  /\ Charge(c, w)
  /\ \A i \in M : ~Full(i) /\ ~CoolingDown(i)
  /\ counted' = [counted EXCEPT ![c] = M]
  /\ answer' = <<"served", w>>

Tick ==
  /\ now' = now + 1
  /\ UNCHANGED <<at, cost, counted, answer>>

Init ==
  /\ now = 0
  /\ at = [c \in Calls |-> Unused]
  /\ cost = [c \in Calls |-> 0]
  /\ counted = [c \in Calls |-> {}]
  /\ answer = <<"none", 0>>

Next ==
  \/ \E w \in Costs : RefuseOverBudget(w)
  \/ \E c \in Calls, w \in Costs :
       \/ RefuseUnallowed(c, w)
       \/ \E i \in RateRules : RefuseRate(c, w, i)
       \/ \E M \in SUBSET RateRules : Serve(c, w, M)
  \/ Tick

Spec == Init /\ [][Next]_vars
=============================================================================
