----------------------------- MODULE DataPlane_proofs -----------------------------
(***************************************************************************)
(* What DataPlane promises for every set of restrictions, scopes, calls    *)
(* and messages: its types, the limits, the cooldowns and the budget, and  *)
(* that the pruned lists decide as the whole history would (Quota).        *)
(*                                                                         *)
(* The invariant behind it all: what is missing from a list is too old to  *)
(* matter.                                                                 *)
(***************************************************************************)
EXTENDS DataPlane, FiniteSetTheorems, TLAPS

\* Calls are charged in the past.
TimeInv == \A c \in Charged : at[c] <= now

\* A unit missing from the consumer's list is out of the budget's span.
SpentInv == \A c \in Charged : \A k \in 1..cost[c] :
              <<c, k>> \notin spent => now - at[c] >= Span

\* A list holds calls that count for its rule, and a call missing from it is
\* out of the window and past the cooldown.
HitsInv ==
  \A i \in RateRules :
    /\ hits[i] \subseteq CountedBy(i)
    /\ \A c \in CountedBy(i) \ hits[i] :
         now - at[c] >= Window[i] /\ now - at[c] >= Cooldown[i]

\* No rule counts a call that was not made.
FreshInv == \A c \in Calls : at[c] = Unused => counted[c] = {}

RateInv == TypeOK /\ TimeInv /\ SpentInv /\ HitsInv /\ FreshInv

-----------------------------------------------------------------------------
LEMMA Numbers ==
  /\ Limit \in [RateRules -> Nat] /\ Window \in [RateRules -> Nat]
  /\ Cooldown \in [RateRules -> Nat]
  /\ \A i \in RateRules : i \in Nat
  /\ \A op : Weight(op) \in {1, 2, 5}
<1>1. /\ Limit \in [RateRules -> Nat] /\ Window \in [RateRules -> Nat]
      /\ Cooldown \in [RateRules -> Nat]
  BY RulesAssumption DEF Limit, Window, Cooldown
<1>2. \A i \in RateRules : i \in Nat
  BY RulesAssumption DEF RateRules
<1>3. \A op : Weight(op) \in {1, 2, 5}
  BY DEF Weight
<1> QED BY <1>1, <1>2, <1>3

LEMMA Upto == ASSUME NEW n \in Nat PROVE IsFiniteSet(1..n) /\ Cardinality(1..n) = n
<1>1. 1 \in Int /\ n \in Int
  OBVIOUS
<1>2. /\ IsFiniteSet(1..n)
      /\ Cardinality(1..n) = IF 1 > n THEN 0 ELSE n-1+1
  BY <1>1, FS_Interval, Zenon
<1> QED BY <1>2

\* A call that costs w is w units.
LEMMA CallUnits ==
  ASSUME NEW c, NEW w \in Nat
  PROVE  IsFiniteSet({c} \X (1..w)) /\ Cardinality({c} \X (1..w)) = w
<1>1. IsFiniteSet({c}) /\ Cardinality({c}) = 1
  BY FS_Singleton
<1>2. IsFiniteSet(1..w) /\ Cardinality(1..w) = w
  BY Upto
<1>3. /\ IsFiniteSet({c} \X (1..w))
      /\ Cardinality({c} \X (1..w)) = Cardinality({c}) * Cardinality(1..w)
  BY <1>1, <1>2, FS_Product, Zenon
<1> QED BY <1>1, <1>2, <1>3

\* The list of the consumer holds, of the span, exactly what was charged.
LEMMA SpentExact ==
  ASSUME RateInv
  PROVE  /\ SpentLately = UnitsOf(Lately(Charged, Span))
         /\ IsFiniteSet(SpentLately)
<1>1. ASSUME NEW u \in SpentLately
      PROVE  u \in UnitsOf(Lately(Charged, Span))
  <2>1. PICK c \in Charged : u \in {c} \X (1..cost[c])
    BY <1>1 DEF RateInv, TypeOK, SpentLately, UnitsOf
  <2>2. u[1] = c
    BY <2>1
  <2>3. c \in Lately(Charged, Span)
    BY <1>1, <2>2 DEF SpentLately, Lately
  <2> QED BY <2>1, <2>3 DEF UnitsOf
<1>2. ASSUME NEW u \in UnitsOf(Lately(Charged, Span))
      PROVE  u \in SpentLately
  <2>1. PICK c \in Lately(Charged, Span) : u \in {c} \X (1..cost[c])
    BY <1>2 DEF UnitsOf
  <2>2. /\ c \in Charged /\ now - at[c] < Span /\ now \in Int /\ at[c] \in Int
    BY <2>1 DEF Lately, RateInv, TypeOK, Charged
  <2>3. PICK k \in 1..cost[c] : u = <<c, k>>
    BY <2>1
  <2>4. u \in spent
    BY <2>2, <2>3, NumbersAssumption DEF RateInv, SpentInv
  <2> QED BY <2>2, <2>3, <2>4 DEF SpentLately
<1>3. IsFiniteSet(UnitsOf(Lately(Charged, Span)))
  <2>1. ASSUME NEW u \in UnitsOf(Lately(Charged, Span)) PROVE u \in Calls \X (1..5)
    <3>1. PICK c \in Lately(Charged, Span) : u \in {c} \X (1..cost[c])
      BY <2>1 DEF UnitsOf
    <3>2. c \in Calls /\ cost[c] \in 0..5
      BY <3>1 DEF Lately, Charged, RateInv, TypeOK
    <3>3. 1..cost[c] \subseteq 1..5
      BY <3>2
    <3> QED BY <3>1, <3>2, <3>3
  <2>2. IsFiniteSet(Calls \X (1..5))
    <3>1. 5 \in Nat
      OBVIOUS
    <3>2. IsFiniteSet(1..5)
      BY <3>1, Upto, Zenon
    <3> QED BY CallsAssumption, <3>2, FS_Product, Zenon
  <2>3. UnitsOf(Lately(Charged, Span)) \subseteq Calls \X (1..5)
    BY <2>1, Zenon
  <2> QED BY <2>2, <2>3, FS_Subset
<1> QED BY <1>1, <1>2, <1>3

\* So do the lists of the restrictions.
LEMMA HitsExact ==
  ASSUME RateInv, NEW i \in RateRules
  PROVE  /\ Recent(i) = Lately(CountedBy(i), Window[i])
         /\ CoolingDown(i) <=> Lately(CountedBy(i), Cooldown[i]) # {}
         /\ IsFiniteSet(CountedBy(i)) /\ IsFiniteSet(Recent(i))
<1>1. /\ now \in Int /\ Window[i] \in Int /\ Cooldown[i] \in Int
      /\ \A c \in CountedBy(i) : at[c] \in Int
  BY Numbers DEF RateInv, TypeOK, CountedBy, Charged
<1>2. IsFiniteSet(CountedBy(i))
  BY CallsAssumption, FS_Subset DEF CountedBy, Charged
<1>3. Recent(i) = Lately(CountedBy(i), Window[i])
  BY <1>1 DEF RateInv, HitsInv, Recent, Lately
<1>4. CoolingDown(i) <=> Lately(CountedBy(i), Cooldown[i]) # {}
  BY <1>1 DEF RateInv, HitsInv, CoolingDown, Lately
<1>5. IsFiniteSet(Recent(i))
  BY <1>2, <1>3, FS_Subset DEF Lately
<1> QED BY <1>2, <1>3, <1>4, <1>5

-----------------------------------------------------------------------------
(* A call that is charged. *)

LEMMA ChargeStep ==
  ASSUME RateInv, NEW c \in Calls, NEW w \in {1, 2, 5}, Charge(c, w), now' = now
  PROVE  /\ at' \in [Calls -> -1..MaxTime] /\ cost' \in [Calls -> 0..5]
         /\ Charged' = Charged \cup {c} /\ c \notin Charged
         /\ \A d \in Charged : at'[d] = at[d] /\ cost'[d] = cost[d]
         /\ at'[c] = now /\ cost'[c] = w
<1>1. /\ at \in [Calls -> -1..MaxTime] /\ cost \in [Calls -> 0..5] /\ now \in 0..MaxTime
  BY DEF RateInv, TypeOK
<1>2. /\ at[c] = Unused /\ at' = [at EXCEPT ![c] = now] /\ cost' = [cost EXCEPT ![c] = w]
  BY DEF Charge
<1>3. at' \in [Calls -> -1..MaxTime] /\ cost' \in [Calls -> 0..5]
  BY <1>1, <1>2, NumbersAssumption
<1>4. at'[c] = now /\ cost'[c] = w /\ now # Unused
  BY <1>1, <1>2, NumbersAssumption DEF Unused
<1>5. \A d \in Calls \ {c} : at'[d] = at[d] /\ cost'[d] = cost[d]
  BY <1>1, <1>2
<1>6. c \notin Charged /\ Charged' = Charged \cup {c}
  BY <1>2, <1>4, <1>5 DEF Charged
<1> QED BY <1>3, <1>4, <1>5, <1>6 DEF Charged

LEMMA ChargeInv ==
  ASSUME RateInv, NEW c \in Calls, NEW w \in {1, 2, 5}, Charge(c, w), now' = now
  PROVE  TimeInv' /\ SpentInv' /\ (spent \subseteq UnitsOf(Charged))'
<1>1. /\ Charged' = Charged \cup {c} /\ c \notin Charged
      /\ \A d \in Charged : at'[d] = at[d] /\ cost'[d] = cost[d]
      /\ at'[c] = now /\ cost'[c] = w
  BY ChargeStep
<1>2. now \in Int /\ \A d \in Charged : at[d] \in Int
  BY DEF RateInv, TypeOK, Charged
<1>3. spent' = SpentLately \cup ({c} \X (1..w))
  BY DEF Charge
<1>4. TimeInv'
  BY <1>1, <1>2 DEF RateInv, TimeInv
<1>5. SpentInv'
  <2> SUFFICES ASSUME NEW d \in Charged', NEW k \in 1..cost'[d], <<d, k>> \notin spent'
               PROVE  now' - at'[d] >= Span
    BY DEF SpentInv
  <2>1. d # c
    BY <1>1, <1>3
  <2>2. d \in Charged /\ at'[d] = at[d] /\ k \in 1..cost[d]
    BY <1>1, <2>1
  <2>3. CASE <<d, k>> \in spent
    BY <1>2, <1>3, <2>2, <2>3, NumbersAssumption DEF SpentLately
  <2>4. CASE <<d, k>> \notin spent
    BY <2>2, <2>4 DEF RateInv, SpentInv
  <2> QED BY <2>3, <2>4
<1>6. spent' \subseteq UnitsOf(Charged)'
  <2> SUFFICES ASSUME NEW u \in spent' PROVE u \in UnitsOf(Charged)'
    OBVIOUS
  <2>1. CASE u \in {c} \X (1..w)
    BY <1>1, <2>1 DEF UnitsOf
  <2>2. CASE u \in SpentLately
    <3>1. PICK d \in Charged : u \in {d} \X (1..cost[d])
      BY <2>2 DEF RateInv, TypeOK, SpentLately, UnitsOf
    <3>2. d \in Charged' /\ u \in {d} \X (1..cost'[d])
      BY <1>1, <3>1
    <3> QED BY <3>2 DEF UnitsOf
  <2> QED BY <1>3, <2>1, <2>2
<1> QED BY <1>4, <1>5, <1>6

LEMMA ChargeBudget ==
  ASSUME RateInv, NEW c \in Calls, NEW w \in {1, 2, 5}, Charge(c, w), now' = now
  PROVE  BudgetKept'
<1> DEFINE Old == SpentLately
           New == {c} \X (1..w)
           Due == UnitsOf(Lately(Charged, Span))'
<1>1. /\ Charged' = Charged \cup {c}
      /\ \A d \in Charged : at'[d] = at[d] /\ cost'[d] = cost[d]
      /\ at'[c] = now /\ cost'[c] = w
  BY ChargeStep
<1>2. /\ IsFiniteSet(Old) /\ Old = UnitsOf(Lately(Charged, Span))
      /\ IsFiniteSet(New) /\ Cardinality(New) = w
  BY SpentExact, CallUnits
<1>3. Due \subseteq Old \cup New
  <2> SUFFICES ASSUME NEW u \in Due PROVE u \in Old \cup New
    OBVIOUS
  <2>1. PICK d \in Lately(Charged, Span)' : u \in {d} \X (1..cost'[d])
    BY DEF UnitsOf
  <2>2. d \in Charged' /\ now' - at'[d] < Span
    BY <2>1 DEF Lately
  <2>3. CASE d = c
    BY <1>1, <2>1, <2>3
  <2>4. CASE d # c
    <3>1. d \in Lately(Charged, Span) /\ u \in {d} \X (1..cost[d])
      BY <1>1, <2>1, <2>2, <2>4 DEF Lately
    <3> QED BY <1>2, <3>1 DEF UnitsOf
  <2> QED BY <2>3, <2>4
<1> HIDE DEF Old, New, Due
<1>4. /\ IsFiniteSet(Old \cup New)
      /\ Cardinality(Old \cup New) = Cardinality(Old) + Cardinality(New) - Cardinality(Old \cap New)
  BY <1>2, FS_Union, Zenon
<1>5. Cardinality(Due) <= Cardinality(Old \cup New)
  BY <1>3, <1>4, FS_Subset, Zenon
<1>6. /\ Cardinality(Old) \in Nat /\ Cardinality(Old \cap New) \in Nat
      /\ Cardinality(Due) \in Nat
  <2>1. IsFiniteSet(Old \cap New)
    BY <1>2, FS_Subset
  <2>2. IsFiniteSet(Due)
    BY <1>3, <1>4, FS_Subset
  <2> QED BY <1>2, <2>1, <2>2, FS_CardinalityType
<1>7. Cardinality(Old) + w <= Budget
  <2>1. ~(Cardinality(Old) + w > Budget)
    BY DEF Charge, OverBudget, Old
  <2> QED BY <1>6, <2>1, NumbersAssumption
<1>8. Cardinality(Due) <= Budget
  BY <1>2, <1>4, <1>5, <1>6, <1>7, NumbersAssumption
<1> QED BY <1>8 DEF BudgetKept, Due

-----------------------------------------------------------------------------
(* The lists of the restrictions. *)

\* A call that no rule counts changes what no rule counts.
LEMMA ChargeCounts ==
  ASSUME RateInv, NEW c \in Calls, NEW w \in {1, 2, 5}, Charge(c, w), now' = now,
         counted' = counted
  PROVE  /\ FreshInv' /\ (counted \in [Calls -> SUBSET RateRules])'
         /\ \A i \in RateRules : CountedBy(i)' = CountedBy(i)
<1>1. /\ Charged' = Charged \cup {c} /\ c \notin Charged
      /\ \A d \in Charged : at'[d] = at[d]
      /\ at'[c] = now
  BY ChargeStep
<1>2. counted[c] = {}
  BY DEF Charge, RateInv, FreshInv
<1>3. FreshInv'
  <2> SUFFICES ASSUME NEW d \in Calls, at'[d] = Unused PROVE counted[d] = {}
    BY DEF FreshInv
  <2>1. d \notin Charged'
    BY DEF Charged
  <2> QED BY <1>1, <2>1 DEF RateInv, FreshInv, Charged
<1>4. \A i \in RateRules : CountedBy(i)' = CountedBy(i)
  BY <1>1, <1>2 DEF CountedBy
<1>5. counted' \in [Calls -> SUBSET RateRules]
  BY DEF RateInv, TypeOK
<1> QED BY <1>3, <1>4, <1>5

\* A pruned list is part of the list, and what is cut off is of no more use.
LEMMA PrunedList ==
  ASSUME RateInv, NEW i \in RateRules, NEW M
  PROVE  /\ Pruned(i, M) \subseteq hits[i]
         /\ \A d \in hits[i] \ Pruned(i, M) :
              now - at[d] >= Window[i] /\ now - at[d] >= Cooldown[i]
<1>1. /\ now \in Int /\ Window[i] \in Int /\ Cooldown[i] \in Int
      /\ \A d \in hits[i] : at[d] \in Int
  BY Numbers DEF RateInv, TypeOK, Charged
<1>2. CASE Reaches(i, M) /\ ~CoolingDown(i) /\ Limited(i)
  <2>1. Pruned(i, M) = Recent(i)
    BY <1>2 DEF Pruned
  <2>2. \A d \in hits[i] : ~(now - at[d] < Cooldown[i])
    BY <1>2 DEF CoolingDown
  <2> QED BY <1>1, <2>1, <2>2 DEF Recent
<1>3. CASE ~(Reaches(i, M) /\ ~CoolingDown(i) /\ Limited(i))
  BY <1>3 DEF Pruned
<1> QED BY <1>2, <1>3

\* A call that the rules of M count is counted by them.
LEMMA ServeCounts ==
  ASSUME RateInv, NEW c \in Calls, NEW w \in {1, 2, 5}, Charge(c, w), now' = now,
         NEW M \in SUBSET RateRules, counted' = [counted EXCEPT ![c] = M]
  PROVE  /\ FreshInv' /\ (counted \in [Calls -> SUBSET RateRules])'
         /\ \A i \in RateRules :
              CountedBy(i)' = IF i \in M THEN CountedBy(i) \cup {c} ELSE CountedBy(i)
<1>1. /\ Charged' = Charged \cup {c} /\ c \notin Charged
      /\ \A d \in Charged : at'[d] = at[d]
      /\ at'[c] = now
  BY ChargeStep
<1>2. counted \in [Calls -> SUBSET RateRules] /\ counted' \in [Calls -> SUBSET RateRules]
  BY DEF RateInv, TypeOK
<1>3. counted'[c] = M /\ \A d \in Calls \ {c} : counted'[d] = counted[d]
  BY <1>2
<1>4. FreshInv'
  <2> SUFFICES ASSUME NEW d \in Calls, at'[d] = Unused PROVE counted'[d] = {}
    BY DEF FreshInv
  <2>1. d \notin Charged'
    BY DEF Charged
  <2> QED BY <1>1, <1>3, <2>1 DEF RateInv, FreshInv, Charged
<1>5. ASSUME NEW i \in RateRules
      PROVE  CountedBy(i)' = IF i \in M THEN CountedBy(i) \cup {c} ELSE CountedBy(i)
  <2>1. \A d \in Charged : counted'[d] = counted[d]
    BY <1>1, <1>3 DEF Charged
  <2>2. CountedBy(i)' = {d \in Charged \cup {c} : i \in counted'[d]}
    BY <1>1 DEF CountedBy
  <2> QED BY <1>1, <1>3, <2>1, <2>2 DEF CountedBy
<1> QED BY <1>2, <1>4, <1>5

\* HitsInv for the two ways the lists change.
LEMMA HitsAfterRefusal ==
  ASSUME RateInv, NEW c \in Calls, NEW w \in {1, 2, 5}, Charge(c, w), now' = now,
         counted' = counted, NEW M,
         hits' \in {hits, [i \in RateRules |-> Pruned(i, M)]}
  PROVE  HitsInv' /\ (hits \in [RateRules -> SUBSET Charged])'
<1>0. hits \in [RateRules -> SUBSET Charged]
  BY DEF RateInv, TypeOK
<1>1. ASSUME NEW i \in RateRules
      PROVE  /\ hits'[i] \subseteq hits[i]
             /\ \A d \in hits[i] \ hits'[i] :
                  now - at[d] >= Window[i] /\ now - at[d] >= Cooldown[i]
  BY <1>0, PrunedList
<1>2. /\ Charged' = Charged \cup {c}
      /\ \A d \in Charged : at'[d] = at[d]
  BY ChargeStep
<1>3. \A i \in RateRules : CountedBy(i)' = CountedBy(i) /\ CountedBy(i) \subseteq Charged
  BY ChargeCounts DEF CountedBy
<1>4. HitsInv'
  <2> SUFFICES ASSUME NEW i \in RateRules
               PROVE  /\ hits'[i] \subseteq CountedBy(i)'
                      /\ \A d \in CountedBy(i)' \ hits'[i] :
                           now' - at'[d] >= Window[i] /\ now' - at'[d] >= Cooldown[i]
    BY DEF HitsInv
  <2>1. hits'[i] \subseteq CountedBy(i)'
    BY <1>1, <1>3 DEF RateInv, HitsInv
  <2>2. ASSUME NEW d \in CountedBy(i)' \ hits'[i]
        PROVE  now - at[d] >= Window[i] /\ now - at[d] >= Cooldown[i]
    <3>1. CASE d \in hits[i]
      BY <1>1, <2>2, <3>1
    <3>2. CASE d \notin hits[i]
      BY <1>3, <2>2, <3>2 DEF RateInv, HitsInv
    <3> QED BY <3>1, <3>2
  <2> QED BY <1>2, <1>3, <2>1, <2>2
<1>5. hits' \in [RateRules -> SUBSET Charged']
  <2>1. \A i \in RateRules : hits'[i] \in SUBSET Charged'
    BY <1>0, <1>1, <1>2
  <2>2. \/ hits' = hits
        \/ hits' = [i \in RateRules |-> Pruned(i, M)]
    OBVIOUS
  <2> QED BY <1>0, <2>1, <2>2
<1> QED BY <1>4, <1>5

LEMMA HitsAfterServe ==
  ASSUME RateInv, NEW c \in Calls, NEW w \in {1, 2, 5}, Charge(c, w), now' = now,
         NEW M \in SUBSET RateRules, counted' = [counted EXCEPT ![c] = M],
         hits' = [i \in RateRules |-> IF i \in M THEN Pruned(i, M) \cup {c} ELSE hits[i]]
  PROVE  HitsInv' /\ (hits \in [RateRules -> SUBSET Charged])'
<1>0. hits \in [RateRules -> SUBSET Charged]
  BY DEF RateInv, TypeOK
<1>1. ASSUME NEW i \in RateRules
      PROVE  /\ hits'[i] \ {c} \subseteq hits[i]
             /\ c \in hits'[i] => i \in M
             /\ i \in M => c \in hits'[i]
             /\ \A d \in hits[i] \ hits'[i] :
                  now - at[d] >= Window[i] /\ now - at[d] >= Cooldown[i]
  <2>1. c \notin hits[i]
    BY <1>0, ChargeStep
  <2>2. hits'[i] = IF i \in M THEN Pruned(i, M) \cup {c} ELSE hits[i]
    OBVIOUS
  <2> QED BY <2>1, <2>2, PrunedList
<1>2. /\ Charged' = Charged \cup {c}
      /\ \A d \in Charged : at'[d] = at[d]
      /\ c \notin Charged
  BY ChargeStep
<1>3. ASSUME NEW i \in RateRules
      PROVE  /\ CountedBy(i)' = IF i \in M THEN CountedBy(i) \cup {c} ELSE CountedBy(i)
             /\ CountedBy(i) \subseteq Charged
  <2>1. CountedBy(i)' = IF i \in M THEN CountedBy(i) \cup {c} ELSE CountedBy(i)
    BY ServeCounts
  <2>2. CountedBy(i) \subseteq Charged
    BY DEF CountedBy
  <2> QED BY <2>1, <2>2
<1>4. HitsInv'
  <2> SUFFICES ASSUME NEW i \in RateRules
               PROVE  /\ hits'[i] \subseteq CountedBy(i)'
                      /\ \A d \in CountedBy(i)' \ hits'[i] :
                           now' - at'[d] >= Window[i] /\ now' - at'[d] >= Cooldown[i]
    BY DEF HitsInv
  <2>1. hits[i] \subseteq CountedBy(i)
    BY DEF RateInv, HitsInv
  <2>2. hits'[i] \subseteq CountedBy(i)'
    BY <1>1, <1>3, <2>1
  <2>3. ASSUME NEW d \in CountedBy(i)' \ hits'[i]
        PROVE  d \in Charged /\ now - at[d] >= Window[i] /\ now - at[d] >= Cooldown[i]
    <3>1. d \in CountedBy(i) /\ d \in Charged
      BY <1>1, <1>3, <2>3
    <3>2. CASE d \in hits[i]
      BY <1>1, <2>3, <3>1, <3>2
    <3>3. CASE d \notin hits[i]
      BY <3>1, <3>3 DEF RateInv, HitsInv
    <3> QED BY <3>1, <3>2, <3>3
  <2> QED BY <1>2, <2>2, <2>3
<1>5. hits' \in [RateRules -> SUBSET Charged']
  <2>1. \A i \in RateRules : hits'[i] \in SUBSET Charged'
    BY <1>0, <1>1, <1>2
  <2> QED BY <2>1
<1> QED BY <1>4, <1>5

-----------------------------------------------------------------------------
(* The invariant. *)

LEMMA InitRates == Init => RateInv
<1> SUFFICES ASSUME Init PROVE RateInv
  OBVIOUS
<1>1. Charged = {}
  BY DEF Init, Charged
<1>2. TypeOK
  <2>1. enabled \subseteq RuleIds
    BY SettingsAssumption DEF Init
  <2>2. answer \in Outcomes \X Nat
    BY DEF Init, Outcomes
  <2>3. /\ now \in 0..MaxTime /\ hits \in [RateRules -> SUBSET Charged]
        /\ at \in [Calls -> -1..MaxTime] /\ cost \in [Calls -> 0..5]
        /\ counted \in [Calls -> SUBSET RateRules] /\ spent \subseteq UnitsOf(Charged)
    BY <1>1, NumbersAssumption DEF Init, Unused
  <2> QED BY <2>1, <2>2, <2>3 DEF TypeOK
<1>3. TimeInv /\ SpentInv
  BY <1>1 DEF TimeInv, SpentInv
<1>4. HitsInv
  BY <1>1 DEF HitsInv, CountedBy, Init
<1>5. FreshInv
  BY DEF FreshInv, Init
<1> QED BY <1>2, <1>3, <1>4, <1>5 DEF RateInv

\* The parts that follow from a charge, whatever the outcome.
LEMMA ChargedRateInv ==
  ASSUME RateInv, NEW c \in Calls, NEW w \in {1, 2, 5}, Charge(c, w),
         now' = now, enabled' = enabled, answer' \in Outcomes \X Nat,
         HitsInv', FreshInv', (hits \in [RateRules -> SUBSET Charged])',
         (counted \in [Calls -> SUBSET RateRules])'
  PROVE  RateInv'
<1>1. TimeInv' /\ SpentInv' /\ (spent \subseteq UnitsOf(Charged))'
  BY ChargeInv
<1>2. at' \in [Calls -> -1..MaxTime] /\ cost' \in [Calls -> 0..5]
  BY ChargeStep
<1>3. now' \in 0..MaxTime /\ enabled' \subseteq RuleIds
  BY DEF RateInv, TypeOK
<1>4. TypeOK'
  BY <1>1, <1>2, <1>3 DEF TypeOK
<1> QED BY <1>1, <1>4 DEF RateInv

LEMMA NextRates == RateInv /\ [Next]_vars => RateInv'
<1> SUFFICES ASSUME RateInv, [Next]_vars PROVE RateInv'
  OBVIOUS
<1>1. ASSUME NEW m \in Messages, RefuseOverBudget(m) PROVE RateInv'
  <2>1. /\ spent' = SpentLately
        /\ UNCHANGED <<now, enabled, hits, at, cost, counted>>
    BY <1>1 DEF RefuseOverBudget, history
  <2>2. Charged' = Charged /\ \A i \in RateRules : CountedBy(i)' = CountedBy(i)
    BY <2>1 DEF Charged, CountedBy
  <2>3. UnitsOf(Charged)' = UnitsOf(Charged)
    BY <2>1, <2>2 DEF UnitsOf
  <2>4. answer' \in Outcomes \X Nat
    BY <1>1, Numbers DEF RefuseOverBudget, Outcomes
  <2>5. TypeOK'
    BY <2>1, <2>2, <2>3, <2>4 DEF RateInv, TypeOK, SpentLately
  <2>6. TimeInv' /\ HitsInv' /\ FreshInv'
    BY <2>1, <2>2 DEF RateInv, TimeInv, HitsInv, FreshInv
  <2>7. SpentInv'
    <3> SUFFICES ASSUME NEW c \in Charged, NEW k \in 1..cost[c], <<c, k>> \notin spent'
                 PROVE  now - at[c] >= Span
      BY <2>1, <2>2 DEF SpentInv
    <3>1. now \in Int /\ at[c] \in Int
      BY DEF RateInv, TypeOK, Charged
    <3>2. CASE <<c, k>> \in spent
      BY <2>1, <3>1, <3>2, NumbersAssumption DEF SpentLately
    <3>3. CASE <<c, k>> \notin spent
      BY <3>3 DEF RateInv, SpentInv
    <3> QED BY <3>2, <3>3
  <2> QED BY <2>5, <2>6, <2>7 DEF RateInv
<1>2. ASSUME NEW c \in Calls, NEW m \in Messages, RefuseUnallowed(c, m) PROVE RateInv'
  <2> DEFINE w == Weight(m.op)
  <2>1. w \in {1, 2, 5}
    BY Numbers
  <2>2. /\ Charge(c, w) /\ now' = now /\ enabled' = enabled
        /\ counted' = counted /\ hits' = hits
    BY <1>2 DEF RefuseUnallowed
  <2>3. answer' \in Outcomes \X Nat
    BY <1>2, <2>1 DEF RefuseUnallowed, Outcomes
  <2> HIDE DEF w
  <2>4. FreshInv' /\ (counted \in [Calls -> SUBSET RateRules])'
    BY <2>1, <2>2, ChargeCounts
  <2>5. HitsInv' /\ (hits \in [RateRules -> SUBSET Charged])'
    BY <2>1, <2>2, HitsAfterRefusal
  <2> QED BY <2>1, <2>2, <2>3, <2>4, <2>5, ChargedRateInv
<1>3. ASSUME NEW c \in Calls, NEW m \in Messages, RefuseRate(c, m) PROVE RateInv'
  <2> DEFINE w == Weight(m.op)
             M == RatesFor(enabled, m)
  <2>1. w \in {1, 2, 5} /\ M \subseteq RateRules
    BY Numbers DEF RatesFor
  <2>2. /\ Charge(c, w) /\ now' = now /\ enabled' = enabled
        /\ counted' = counted /\ hits' = [i \in RateRules |-> Pruned(i, M)]
    BY <1>3 DEF RefuseRate
  <2>3. answer' \in Outcomes \X Nat
    <3>1. PICK i \in M : answer' = <<IF CoolingDown(i) THEN "cooldown_active" ELSE "rate_limited", i>>
      BY <1>3 DEF RefuseRate
    <3>2. i \in Nat
      BY <2>1, Numbers
    <3> QED BY <3>1, <3>2 DEF Outcomes
  <2> HIDE DEF w, M
  <2>4. FreshInv' /\ (counted \in [Calls -> SUBSET RateRules])'
    BY <2>1, <2>2, ChargeCounts
  <2>5. HitsInv' /\ (hits \in [RateRules -> SUBSET Charged])'
    BY <2>1, <2>2, HitsAfterRefusal
  <2> QED BY <2>1, <2>2, <2>3, <2>4, <2>5, ChargedRateInv
<1>4. ASSUME NEW c \in Calls, NEW m \in Messages, Serve(c, m) PROVE RateInv'
  <2> DEFINE w == Weight(m.op)
             M == RatesFor(enabled, m)
  <2>1. w \in {1, 2, 5} /\ M \in SUBSET RateRules
    BY Numbers DEF RatesFor
  <2>2. /\ Charge(c, w) /\ now' = now /\ enabled' = enabled
        /\ counted' = [counted EXCEPT ![c] = M]
        /\ hits' = [i \in RateRules |-> IF i \in M THEN Pruned(i, M) \cup {c} ELSE hits[i]]
    BY <1>4 DEF Serve
  <2>3. answer' \in Outcomes \X Nat
    BY <1>4, <2>1 DEF Serve, Outcomes
  <2> HIDE DEF w, M
  <2>4. FreshInv' /\ (counted \in [Calls -> SUBSET RateRules])'
    BY <2>1, <2>2, ServeCounts
  <2>5. HitsInv' /\ (hits \in [RateRules -> SUBSET Charged])'
    BY <2>1, <2>2, HitsAfterServe
  <2> QED BY <2>1, <2>2, <2>3, <2>4, <2>5, ChargedRateInv
<1>5. ASSUME UNCHANGED <<hits, spent, at, cost, counted, answer>>,
             now' \in now..MaxTime, enabled' \subseteq RuleIds
      PROVE  RateInv'
  <2>1. Charged' = Charged /\ \A i \in RateRules : CountedBy(i)' = CountedBy(i)
    BY <1>5 DEF Charged, CountedBy
  <2>2. UnitsOf(Charged)' = UnitsOf(Charged)
    BY <1>5, <2>1 DEF UnitsOf
  <2>3. /\ now \in 0..MaxTime /\ MaxTime \in Nat /\ now' \in 0..MaxTime /\ now' >= now
        /\ \A c \in Charged : at[c] \in Int
    BY <1>5, NumbersAssumption DEF RateInv, TypeOK, Charged
  <2>4. TypeOK'
    BY <1>5, <2>1, <2>2, <2>3 DEF RateInv, TypeOK
  <2>5. TimeInv'
    BY <1>5, <2>1, <2>3 DEF RateInv, TimeInv
  <2>6. SpentInv'
    BY <1>5, <2>1, <2>3, NumbersAssumption DEF RateInv, SpentInv
  <2>7. HitsInv'
    <3> SUFFICES ASSUME NEW i \in RateRules, NEW c \in CountedBy(i) \ hits[i]
                 PROVE  now' - at[c] >= Window[i] /\ now' - at[c] >= Cooldown[i]
      BY <1>5, <2>1 DEF RateInv, HitsInv
    <3>1. now - at[c] >= Window[i] /\ now - at[c] >= Cooldown[i]
      BY DEF RateInv, HitsInv
    <3>2. at[c] \in Int /\ Window[i] \in Int /\ Cooldown[i] \in Int
      BY <2>3, Numbers DEF CountedBy
    <3> QED BY <2>3, <3>1, <3>2
  <2>8. FreshInv'
    BY <1>5 DEF RateInv, FreshInv
  <2> QED BY <2>4, <2>5, <2>6, <2>7, <2>8 DEF RateInv
<1>6. now \in 0..MaxTime /\ enabled \subseteq RuleIds
  BY DEF RateInv, TypeOK
<1>7. ASSUME NEW S \in Settings, SetRestrictions(S) PROVE RateInv'
  BY <1>5, <1>6, <1>7, SettingsAssumption DEF SetRestrictions, history
<1>8. ASSUME Tick PROVE RateInv'
  BY <1>5, <1>6, <1>8, NumbersAssumption DEF Tick, history
<1>9. ASSUME UNCHANGED vars PROVE RateInv'
  BY <1>5, <1>6, <1>9, NumbersAssumption DEF vars, history
<1> QED BY <1>1, <1>2, <1>3, <1>4, <1>7, <1>8, <1>9 DEF Next

LEMMA AlwaysRates == Spec => []RateInv
<1> QED BY InitRates, NextRates, PTL DEF Spec

\* The data plane's types are kept by every step, for all restrictions.
THEOREM Typing == Spec => []TypeOK
<1>1. RateInv => TypeOK
  BY DEF RateInv
<1> QED BY <1>1, AlwaysRates, PTL

-----------------------------------------------------------------------------
(* What the lists are for. *)

LEMMA SameCardinality == \A S : Q!Cardinality(S) = Cardinality(S)
BY DEF Q!Cardinality, Cardinality

\* The decisions taken by the lists are those of the whole history.
LEMMA Decisions ==
  ASSUME RateInv
  PROVE  /\ Q!Charged = Charged
         /\ \A w : OverBudget(w) <=> Q!OverBudget(w)
         /\ \A i \in RateRules : /\ Full(i) <=> Q!Full(i)
                                 /\ CoolingDown(i) <=> Q!CoolingDown(i)
<1>1. Q!Charged = Charged
  BY DEF Q!Charged, Charged
<1>2. SpentLately = Q!Units
  BY <1>1, SpentExact DEF Q!Units, UnitsOf, Q!Since, Lately
<1>3. ASSUME NEW i \in RateRules
      PROVE  /\ Full(i) <=> Q!Full(i)
             /\ CoolingDown(i) <=> Q!CoolingDown(i)
  <2>1. CountedBy(i) = Q!Counts(i)
    BY <1>1 DEF CountedBy, Q!Counts
  <2>2. Recent(i) = Q!Since(Q!Counts(i), Window[i])
    BY <2>1, HitsExact DEF Lately, Q!Since
  <2>3. CoolingDown(i) <=> Q!CoolingDown(i)
    BY <2>1, HitsExact DEF Lately, Q!Since, Q!CoolingDown
  <2>4. Full(i) <=> Q!Full(i)
    BY <2>2, SameCardinality DEF Full, Q!Full, Limited, Q!Limited
  <2> QED BY <2>3, <2>4
<1>4. \A w : OverBudget(w) <=> Q!OverBudget(w)
  BY <1>2, SameCardinality DEF OverBudget, Q!OverBudget
<1> QED BY <1>1, <1>3, <1>4

LEMMA StepImplements == RateInv /\ [Next]_vars => [Q!Next]_(Q!vars)
<1> SUFFICES ASSUME RateInv, [Next]_vars PROVE [Q!Next]_(Q!vars)
  OBVIOUS
<1>1. ASSUME NEW c \in Calls, NEW w, Charge(c, w), now' = now
      PROVE  Q!Charge(c, w)
  BY <1>1, Decisions DEF Charge, Q!Charge
<1>2. ASSUME NEW m \in Messages, RefuseOverBudget(m) PROVE Q!Next
  <2>1. Q!RefuseOverBudget(Weight(m.op))
    BY <1>2, Decisions DEF RefuseOverBudget, Q!RefuseOverBudget, history
  <2> QED BY <2>1, Numbers DEF Q!Next
<1>3. ASSUME NEW c \in Calls, NEW m \in Messages, RefuseUnallowed(c, m) PROVE Q!Next
  <2>1. Q!RefuseUnallowed(c, Weight(m.op))
    BY <1>1, <1>3 DEF RefuseUnallowed, Q!RefuseUnallowed
  <2> QED BY <2>1, Numbers DEF Q!Next
<1>4. ASSUME NEW c \in Calls, NEW m \in Messages, RefuseRate(c, m) PROVE Q!Next
  <2>1. PICK i \in RatesFor(enabled, m) :
          /\ Refuses(i)
          /\ answer' = <<IF CoolingDown(i) THEN "cooldown_active" ELSE "rate_limited", i>>
    BY <1>4 DEF RefuseRate
  <2>2. i \in RateRules
    BY DEF RatesFor
  <2>3. Q!Charge(c, Weight(m.op)) /\ counted' = counted
    BY <1>1, <1>4 DEF RefuseRate
  <2>4. Q!RefuseRate(c, Weight(m.op), i)
    BY <2>1, <2>2, <2>3, Decisions DEF Refuses, Q!RefuseRate
  <2> QED BY <2>2, <2>4, Numbers DEF Q!Next
<1>5. ASSUME NEW c \in Calls, NEW m \in Messages, Serve(c, m) PROVE Q!Next
  <2> DEFINE M == RatesFor(enabled, m)
  <2>1. M \in SUBSET RateRules
    BY DEF RatesFor
  <2>2. \A i \in M : ~Q!Full(i) /\ ~Q!CoolingDown(i)
    BY <1>5, <2>1, Decisions DEF Serve, Refuses
  <2>3. Q!Serve(c, Weight(m.op), M)
    BY <1>1, <1>5, <2>2 DEF Serve, Q!Serve
  <2> QED BY <2>1, <2>3, Numbers DEF Q!Next
<1>6. ASSUME NEW S \in Settings, SetRestrictions(S) PROVE UNCHANGED Q!vars
  BY <1>6 DEF SetRestrictions, history, Q!vars
<1>7. ASSUME Tick PROVE Q!Next
  BY <1>7 DEF Tick, history, Q!Tick, Q!Next
<1>8. ASSUME UNCHANGED vars PROVE UNCHANGED Q!vars
  BY <1>8 DEF vars, history, Q!vars
<1> QED BY <1>2, <1>3, <1>4, <1>5, <1>6, <1>7, <1>8 DEF Next

\* Pruning loses nothing: the authority's lists of times decide every message
\* as the whole history of the consumer would.
THEOREM Implements == Spec => DecidesByHistory
<1>1. Init => Q!Init
  BY DEF Init, Q!Init
<1> QED BY <1>1, AlwaysRates, StepImplements, PTL DEF Spec, DecidesByHistory, Q!Spec

-----------------------------------------------------------------------------
\* A consumer is charged no more than its budget in any span.
LEMMA NextBudget == RateInv /\ BudgetKept /\ [Next]_vars => BudgetKept'
<1> SUFFICES ASSUME RateInv, BudgetKept, [Next]_vars PROVE BudgetKept'
  OBVIOUS
<1>1. ASSUME NEW c \in Calls, NEW m, Charge(c, Weight(m.op)), now' = now PROVE BudgetKept'
  BY <1>1, Numbers, ChargeBudget
<1>2. ASSUME UNCHANGED <<at, cost>>, now' \in Int, now' >= now PROVE BudgetKept'
  <2> DEFINE Old == UnitsOf(Lately(Charged, Span))
  <2>1. /\ now \in Int
        /\ \A c \in Charged : at[c] \in Int
    BY DEF RateInv, TypeOK, Charged
  <2>2. Lately(Charged, Span)' \subseteq Lately(Charged, Span)
    BY <1>2, <2>1, NumbersAssumption DEF Lately, Charged
  <2>3. Old' \subseteq Old
    BY <1>2, <2>2 DEF UnitsOf
  <2>4. IsFiniteSet(Old)
    BY SpentExact
  <2> HIDE DEF Old
  <2>5. IsFiniteSet(Old') /\ Cardinality(Old') <= Cardinality(Old)
    BY <2>3, <2>4, FS_Subset, Zenon
  <2>6. Cardinality(Old') \in Nat /\ Cardinality(Old) \in Nat
    BY <2>4, <2>5, FS_CardinalityType
  <2>7. Cardinality(Old) <= Budget
    BY DEF BudgetKept, Old
  <2>8. Cardinality(Old') <= Budget
    BY <2>5, <2>6, <2>7, NumbersAssumption
  <2> QED BY <2>8 DEF BudgetKept, Old
<1>3. now \in Int
  BY DEF RateInv, TypeOK
<1>4. ASSUME NEW m \in Messages, RefuseOverBudget(m) PROVE BudgetKept'
  BY <1>2, <1>3, <1>4 DEF RefuseOverBudget, history
<1>5. ASSUME NEW c \in Calls, NEW m \in Messages,
             RefuseUnallowed(c, m) \/ RefuseRate(c, m) \/ Serve(c, m)
      PROVE  BudgetKept'
  BY <1>1, <1>5 DEF RefuseUnallowed, RefuseRate, Serve
<1>6. ASSUME NEW S \in Settings, SetRestrictions(S) PROVE BudgetKept'
  BY <1>2, <1>3, <1>6 DEF SetRestrictions, history
<1>7. ASSUME Tick PROVE BudgetKept'
  BY <1>2, <1>3, <1>7 DEF Tick, history
<1>8. ASSUME UNCHANGED vars PROVE BudgetKept'
  BY <1>2, <1>3, <1>8 DEF vars, history
<1> QED BY <1>4, <1>5, <1>6, <1>7, <1>8 DEF Next

\* A consumer is never charged more than its budget in the span, for all
\* weights, whatever it is refused.
THEOREM BudgetHolds == Spec => []BudgetKept
<1>1. Init => BudgetKept
  <2> SUFFICES ASSUME Init PROVE BudgetKept
    OBVIOUS
  <2>1. UnitsOf(Lately(Charged, Span)) = {}
    BY DEF Init, Charged, Lately, UnitsOf
  <2>2. Cardinality({}) = 0
    BY FS_EmptySet
  <2> QED BY <2>1, <2>2, NumbersAssumption DEF BudgetKept
<1> QED BY <1>1, AlwaysRates, NextBudget, PTL DEF Spec

-----------------------------------------------------------------------------
(* Limits and cooldowns.  Only a call that is served is counted; for all     *)
(* other steps the calls of a rule stay what they are.                       *)

\* What the rules count after a step.
LEMMA NextCounts ==
  ASSUME RateInv, [Next]_vars
  PROVE  \/ /\ now' \in Int /\ now' >= now
            /\ \A i \in RateRules :
                 /\ CountedBy(i)' = CountedBy(i)
                 /\ \A d \in CountedBy(i) : at'[d] = at[d]
         \/ /\ now' = now
            /\ \E c \in Calls : \E M \in SUBSET RateRules :
                 /\ c \notin Charged /\ at'[c] = now
                 /\ \A d \in Charged : at'[d] = at[d]
                 /\ \A i \in RateRules :
                      CountedBy(i)' = IF i \in M THEN CountedBy(i) \cup {c} ELSE CountedBy(i)
                 /\ \A i \in M : ~Refuses(i)
<1> DEFINE Kept == /\ now' \in Int /\ now' >= now
                   /\ \A i \in RateRules :
                        /\ CountedBy(i)' = CountedBy(i)
                        /\ \A d \in CountedBy(i) : at'[d] = at[d]
<1>1. now \in Int
  BY DEF RateInv, TypeOK
<1>2. ASSUME UNCHANGED <<at, counted>>, now' \in Int, now' >= now PROVE Kept
  BY <1>2 DEF CountedBy, Charged
<1>3. ASSUME NEW c \in Calls, NEW m, Charge(c, Weight(m.op)), now' = now, counted' = counted
      PROVE  Kept
  <2> DEFINE w == Weight(m.op)
  <2>1. w \in {1, 2, 5}
    BY Numbers
  <2>2. Charge(c, w) /\ now' = now /\ counted' = counted
    BY <1>3
  <2> HIDE DEF w
  <2>3. \A i \in RateRules : CountedBy(i)' = CountedBy(i)
    BY <2>1, <2>2, ChargeCounts
  <2>4. \A d \in Charged : at'[d] = at[d]
    BY <2>1, <2>2, ChargeStep
  <2>5. \A i \in RateRules : CountedBy(i) \subseteq Charged
    BY DEF CountedBy
  <2> QED BY <1>1, <2>2, <2>3, <2>4, <2>5
<1>4. ASSUME NEW m \in Messages, RefuseOverBudget(m) PROVE Kept
  BY <1>1, <1>2, <1>4 DEF RefuseOverBudget, history
<1>5. ASSUME NEW c \in Calls, NEW m \in Messages, RefuseUnallowed(c, m) \/ RefuseRate(c, m)
      PROVE  Kept
  BY <1>3, <1>5 DEF RefuseUnallowed, RefuseRate
<1>6. ASSUME NEW c \in Calls, NEW m \in Messages, Serve(c, m)
      PROVE  /\ now' = now
             /\ \E d \in Calls : \E M \in SUBSET RateRules :
                 /\ d \notin Charged /\ at'[d] = now
                 /\ \A e \in Charged : at'[e] = at[e]
                 /\ \A i \in RateRules :
                      CountedBy(i)' = IF i \in M THEN CountedBy(i) \cup {d} ELSE CountedBy(i)
                 /\ \A i \in M : ~Refuses(i)
  <2> DEFINE w == Weight(m.op)
             M == RatesFor(enabled, m)
  <2>1. w \in {1, 2, 5} /\ M \in SUBSET RateRules
    BY Numbers DEF RatesFor
  <2>2. /\ Charge(c, w) /\ now' = now
        /\ counted' = [counted EXCEPT ![c] = M]
        /\ \A i \in M : ~Refuses(i)
    BY <1>6 DEF Serve
  <2> HIDE DEF w, M
  <2>3. \A i \in RateRules :
          CountedBy(i)' = IF i \in M THEN CountedBy(i) \cup {c} ELSE CountedBy(i)
    BY <2>1, <2>2, ServeCounts
  <2>4. c \notin Charged /\ at'[c] = now /\ \A d \in Charged : at'[d] = at[d]
    BY <2>1, <2>2, ChargeStep
  <2> QED BY <2>1, <2>2, <2>3, <2>4
<1>7. ASSUME NEW S \in Settings, SetRestrictions(S) PROVE Kept
  BY <1>1, <1>2, <1>7 DEF SetRestrictions, history
<1>8. ASSUME Tick PROVE Kept
  BY <1>1, <1>2, <1>8 DEF Tick, history
<1>9. ASSUME UNCHANGED vars PROVE Kept
  BY <1>1, <1>2, <1>9 DEF vars, history
<1> HIDE DEF Kept
<1>10. Kept \/ \E c \in Calls, m \in Messages : Serve(c, m)
  BY <1>4, <1>5, <1>7, <1>8, <1>9 DEF Next
<1> QED BY <1>6, <1>10 DEF Kept

LEMMA NextLimits == RateInv /\ LimitsKept /\ [Next]_vars => LimitsKept'
<1> SUFFICES ASSUME RateInv, LimitsKept, [Next]_vars,
                    NEW i \in RateRules, Limited(i)
             PROVE  Cardinality(Lately(CountedBy(i), Window[i])') <= Limit[i]
  BY DEF LimitsKept, Limited, Lately
<1> DEFINE Old == Lately(CountedBy(i), Window[i])
<1>1. /\ now \in Int /\ Window[i] \in Int /\ Limit[i] \in Nat
      /\ \A c \in CountedBy(i) : at[c] \in Int
  BY Numbers DEF RateInv, TypeOK, CountedBy, Charged
<1>2. /\ Old = Recent(i) /\ IsFiniteSet(Old)
  BY HitsExact
<1>3. Cardinality(Old) <= Limit[i]
  BY DEF LimitsKept
<1>4. CASE /\ now' \in Int /\ now' >= now
           /\ CountedBy(i)' = CountedBy(i)
           /\ \A d \in CountedBy(i) : at'[d] = at[d]
  <2>1. Old' \subseteq Old
    BY <1>1, <1>4 DEF Lately
  <2> HIDE DEF Old
  <2>2. IsFiniteSet(Old') /\ Cardinality(Old') <= Cardinality(Old)
    BY <1>2, <2>1, FS_Subset, Zenon
  <2>3. Cardinality(Old') \in Nat /\ Cardinality(Old) \in Nat
    BY <1>2, <2>2, FS_CardinalityType
  <2>4. Cardinality(Old') <= Limit[i]
    BY <1>1, <1>3, <2>2, <2>3
  <2> QED BY <2>4 DEF Old
<1>5. ASSUME NEW c \in Calls, NEW M \in SUBSET RateRules, now' = now,
             c \notin Charged, at'[c] = now, \A d \in Charged : at'[d] = at[d],
             CountedBy(i)' = IF i \in M THEN CountedBy(i) \cup {c} ELSE CountedBy(i),
             i \in M => ~Refuses(i)
      PROVE  Cardinality(Old') <= Limit[i]
  <2>1. \A d \in CountedBy(i) : at'[d] = at[d]
    BY <1>5 DEF CountedBy
  <2>2. CASE i \notin M
    <3>1. CountedBy(i)' = CountedBy(i)
      BY <1>5, <2>2
    <3> QED BY <1>1, <1>4, <1>5, <2>1, <3>1
  <2>3. CASE i \in M
    <3>1. Old' \subseteq Old \cup {c}
      BY <1>1, <1>5, <2>1, <2>3 DEF Lately
    <3>2. ~(Cardinality(Old) >= Limit[i])
      BY <1>2, <1>5, <2>3 DEF Refuses, Full
    <3> HIDE DEF Old
    <3>3. /\ IsFiniteSet(Old \cup {c})
          /\ Cardinality(Old \cup {c}) = IF c \in Old THEN Cardinality(Old) ELSE Cardinality(Old) + 1
      BY <1>2, FS_AddElement, Zenon
    <3>4. IsFiniteSet(Old') /\ Cardinality(Old') <= Cardinality(Old \cup {c})
      BY <3>1, <3>3, FS_Subset, Zenon
    <3>5. Cardinality(Old') \in Nat /\ Cardinality(Old) \in Nat
      BY <1>2, <3>4, FS_CardinalityType
    <3> QED BY <1>1, <3>2, <3>3, <3>4, <3>5
  <2> QED BY <2>2, <2>3
<1>6. Cardinality(Old') <= Limit[i]
  BY <1>4, <1>5, NextCounts
<1> QED BY <1>6

\* No rate restriction serves more than its limit in any of its windows, for
\* all limits and windows, however restrictions are combined and switched.
THEOREM LimitsHold == Spec => []LimitsKept
<1>1. Init => LimitsKept
  <2> SUFFICES ASSUME Init, NEW i \in RateRules
               PROVE  Cardinality(Lately(CountedBy(i), Window[i])) <= Limit[i]
    BY DEF LimitsKept
  <2>1. Lately(CountedBy(i), Window[i]) = {}
    BY DEF Init, Charged, CountedBy, Lately
  <2>2. Cardinality({}) = 0 /\ Limit[i] \in Nat
    BY FS_EmptySet, Numbers
  <2> QED BY <2>1, <2>2
<1> QED BY <1>1, AlwaysRates, NextLimits, PTL DEF Spec

LEMMA NextCooldowns == RateInv /\ CooldownsKept /\ [Next]_vars => CooldownsKept'
<1> SUFFICES ASSUME RateInv, CooldownsKept, [Next]_vars, NEW i \in RateRules,
                    NEW c \in CountedBy(i)', NEW d \in CountedBy(i)', c # d
             PROVE  at'[c] - at'[d] >= Cooldown[i] \/ at'[d] - at'[c] >= Cooldown[i]
  BY DEF CooldownsKept
<1>1. /\ now \in Int /\ Cooldown[i] \in Int
      /\ \A e \in CountedBy(i) : at[e] \in Int
  BY Numbers DEF RateInv, TypeOK, CountedBy, Charged
<1>2. CASE /\ CountedBy(i)' = CountedBy(i)
           /\ \A e \in CountedBy(i) : at'[e] = at[e]
  BY <1>2 DEF CooldownsKept
<1>3. ASSUME NEW e \in Calls, NEW M \in SUBSET RateRules,
             at'[e] = now, \A f \in Charged : at'[f] = at[f],
             CountedBy(i)' = IF i \in M THEN CountedBy(i) \cup {e} ELSE CountedBy(i),
             i \in M => ~Refuses(i)
      PROVE  at'[c] - at'[d] >= Cooldown[i] \/ at'[d] - at'[c] >= Cooldown[i]
  <2>1. \A f \in CountedBy(i) : at'[f] = at[f]
    BY <1>3 DEF CountedBy
  <2>2. CASE i \notin M
    BY <1>2, <1>3, <2>1, <2>2
  <2>3. CASE i \in M
    <3>1. \A f \in CountedBy(i) : now - at[f] >= Cooldown[i]
      BY <1>1, <1>3, <2>3, HitsExact DEF Refuses, Lately
    <3>2. CASE c \in CountedBy(i) /\ d \in CountedBy(i)
      BY <2>1, <3>2 DEF CooldownsKept
    <3>3. CASE c = e
      BY <1>3, <2>1, <2>3, <3>1, <3>3
    <3>4. CASE d = e
      BY <1>3, <2>1, <2>3, <3>1, <3>4
    <3> QED BY <1>3, <2>3, <3>2, <3>3, <3>4
  <2> QED BY <2>2, <2>3
<1> QED BY <1>2, <1>3, NextCounts

\* Calls that a restriction counts keep its cooldown, for all cooldowns: the
\* pruning for the limit never drops the call the cooldown runs from.
THEOREM CooldownsHold == Spec => []CooldownsKept
<1>1. Init => CooldownsKept
  BY DEF Init, CooldownsKept, CountedBy, Charged
<1> QED BY <1>1, AlwaysRates, NextCooldowns, PTL DEF Spec

-----------------------------------------------------------------------------
(* Messages about several entities. *)

LEMMA SingleParts ==
  ASSUME NEW m \in Messages, NEW e
  PROVE  LET s == Single(m, e) IN
         /\ s.op = m.op /\ s.domain = m.domain /\ s.service = m.service /\ s.met = m.met
         /\ s.wanted = {Names(e)} /\ s.groups = {}
<1>1. m = [op |-> m.op, wanted |-> m.wanted, groups |-> m.groups, domain |-> m.domain,
           service |-> m.service, met |-> m.met]
  BY MessagesAssumption
<1> QED BY <1>1 DEF Single

LEMMA SingleTarget ==
  ASSUME NEW m \in Messages, NEW e \in TargetsOf(m)
  PROVE  TargetsOf(Single(m, e)) = {e}
<1> DEFINE s == Single(m, e)
<1>1. s.op = m.op /\ s.wanted = {Names(e)} /\ s.groups = {}
  BY SingleParts
<1>2. e \in Entities
  BY EntitiesAssumption DEF TargetsOf, Expand, Named, Members
<1> HIDE DEF s
<1>3. \A x : Names(x) \in s.wanted <=> x = e
  BY <1>1 DEF Names
<1>4. Named(s) = {e} /\ Members(s) = {}
  BY <1>1, <1>2, <1>3 DEF Named, Members
<1>5. \A x \in Entities : EntityAllowed(x, s.wanted) => x = e
  BY <1>1, <1>2, EntitiesAssumption DEF EntityAllowed, Names
<1>6. \A allowed : Expand(s.wanted, allowed) = {e}
  BY <1>2, <1>3, <1>5 DEF Expand
<1>7. TargetsOf(s) = {e}
  BY <1>4, <1>6 DEF TargetsOf
<1> QED BY <1>7 DEF s

\* InScope for one of the targets of a message.
TargetInScope(m, e) ==
  CASE m.op = "read"      -> EntityAllowed(e, ReadEntities)
    [] m.op = "subscribe" -> EntityAllowed(e, SubscriptionEntities)
    [] m.op = "history"   -> EntityAllowed(e, Manifest.history)
    [] m.op = "camera"    -> EntityAllowed(e, Manifest.camera_snapshots)
    [] m.op = "action"    -> ActionAllowed(m.domain, m.service, e)
    [] OTHER              -> TRUE

LEMMA ScopeByTarget ==
  ASSUME NEW m \in Messages, TargetsOf(m) # {}, Cardinality(TargetsOf(m)) <= MaxHistoryEntities,
         m.groups \subseteq DOMAIN MembersOf
  PROVE  InScope(m) <=> \A e \in TargetsOf(m) : InScope(Single(m, e))
<1> DEFINE T == TargetsOf(m)
<1>1. ASSUME NEW e \in T
      PROVE  /\ Single(m, e).op = m.op /\ Single(m, e).groups = {}
             /\ Single(m, e).domain = m.domain /\ Single(m, e).service = m.service
             /\ TargetsOf(Single(m, e)) = {e} /\ Cardinality({e}) <= MaxHistoryEntities
  <2>1. Cardinality({e}) <= MaxHistoryEntities
    <3>1. Cardinality({e}) = 1
      BY FS_Singleton
    <3> QED BY <3>1, EntitiesAssumption
  <2>2. /\ Single(m, e).op = m.op /\ Single(m, e).groups = {}
        /\ Single(m, e).domain = m.domain /\ Single(m, e).service = m.service
    BY SingleParts
  <2>3. TargetsOf(Single(m, e)) = {e}
    BY SingleTarget
  <2> QED BY <2>1, <2>2, <2>3
<1>2. OrNone(T) = T /\ \A e : OrNone({e}) = {e}
  BY DEF OrNone
<1>3. ASSUME NEW s, NEW e, TargetsOf(s) = {e}, Cardinality({e}) <= MaxHistoryEntities,
             s.groups = {}
      PROVE  InScope(s) <=> TargetInScope(s, e)
  BY <1>2, <1>3 DEF InScope, TargetInScope
<1>4. ASSUME NEW e \in T PROVE InScope(Single(m, e)) <=> TargetInScope(m, e)
  <2> DEFINE s == Single(m, e)
  <2>1. /\ s.op = m.op /\ s.groups = {} /\ s.domain = m.domain /\ s.service = m.service
        /\ TargetsOf(s) = {e} /\ Cardinality({e}) <= MaxHistoryEntities
    BY <1>1
  <2> HIDE DEF s
  <2>2. InScope(s) <=> TargetInScope(s, e)
    BY <1>3, <2>1
  <2> QED BY <2>1, <2>2 DEF s, TargetInScope
<1> HIDE DEF T
<1>5. T # {} /\ (InScope(m) <=> \A e \in T : TargetInScope(m, e))
  BY <1>2 DEF InScope, TargetInScope, T
<1> QED BY <1>4, <1>5 DEF T

LEMMA MatchByTarget ==
  ASSUME NEW m \in Messages, TargetsOf(m) # {}, NEW i
  PROVE  RestrictionMatches(i, m) <=> \E e \in TargetsOf(m) : RestrictionMatches(i, Single(m, e))
<1> DEFINE T == TargetsOf(m)
<1>1. ASSUME NEW e \in T
      PROVE  /\ Single(m, e).op = m.op
             /\ Single(m, e).domain = m.domain /\ Single(m, e).service = m.service
             /\ TargetsOf(Single(m, e)) = {e}
  <2>1. /\ Single(m, e).op = m.op
        /\ Single(m, e).domain = m.domain /\ Single(m, e).service = m.service
    BY SingleParts
  <2>2. TargetsOf(Single(m, e)) = {e}
    BY SingleTarget
  <2> QED BY <2>1, <2>2
<1>2. OrNone(T) = T /\ \A e : OrNone({e}) = {e}
  BY DEF OrNone
<1>3. \A ops, actions :
        SelectorMatches(ops, actions, m) <=> \E e \in T : SelectorMatches(ops, actions, Single(m, e))
  <2> SUFFICES ASSUME NEW ops, NEW actions
               PROVE  SelectorMatches(ops, actions, m) <=>
                        \E e \in T : SelectorMatches(ops, actions, Single(m, e))
    OBVIOUS
  <2> DEFINE Fits(e) == ActionCandidates(m.domain, m.service, e) \cap actions # {}
  <2>1. \A e \in T : SelectorMatches(ops, actions, Single(m, e)) <=>
                       m.op \in ops \/ (m.op = "action" /\ Fits(e))
    BY <1>1, <1>2 DEF SelectorMatches
  <2>2. SelectorMatches(ops, actions, m) <=>
          m.op \in ops \/ (m.op = "action" /\ \E e \in T : Fits(e))
    BY <1>2 DEF SelectorMatches
  <2> HIDE DEF Fits, T
  <2>3. T # {}
    BY DEF T
  <2> QED BY <2>1, <2>2, <2>3
<1> QED BY <1>1, <1>3 DEF RestrictionMatches

\* Several entities in one message, a pattern or an area are judged as each of
\* its entities alone would be, for all scopes and restrictions.
THEOREM TargetsJudged == Spec => []JudgedByTarget
<1>1. ASSUME NEW m \in Messages, TargetsOf(m) # {},
             Cardinality(TargetsOf(m)) <= MaxHistoryEntities, m.groups \subseteq DOMAIN MembersOf
      PROVE  Allowed(enabled, m, now) <=>
               \A e \in TargetsOf(m) : Allowed(enabled, Single(m, e), now)
  <2>1. \A e \in TargetsOf(m) : Single(m, e).op = m.op
    BY SingleParts
  <2>2. InScope(m) <=> \A e \in TargetsOf(m) : InScope(Single(m, e))
    BY <1>1, ScopeByTarget
  <2>3. \A i : \A e \in TargetsOf(m) : RuleAllows(i, Single(m, e), now) <=> RuleAllows(i, m, now)
    BY SingleParts DEF RuleAllows
  <2>4. \A i : RestrictionMatches(i, m) <=>
                 \E e \in TargetsOf(m) : RestrictionMatches(i, Single(m, e))
    BY <1>1, MatchByTarget
  <2>5. RestrictionsAllow(enabled, m, now) <=>
          \A e \in TargetsOf(m) : RestrictionsAllow(enabled, Single(m, e), now)
    BY <2>3, <2>4 DEF RestrictionsAllow
  <2> QED BY <1>1, <2>1, <2>2, <2>5 DEF Allowed
<1>2. JudgedByTarget
  BY <1>1 DEF JudgedByTarget
<1> QED BY <1>2, PTL

-----------------------------------------------------------------------------
(* Schedules. *)

\* The time from s to x around the clock.
LEMMA Around ==
  ASSUME NEW s \in 0..(DayLength - 1), NEW x \in 0..(DayLength - 1)
  PROVE  (x - s) % DayLength = IF s <= x THEN x - s ELSE DayLength - (s - x)
<1> USE SchedulesAssumption
<1>1. \A y \in 0..(DayLength - 1) : y % DayLength = y
  OBVIOUS
<1>2. \A y \in 1..(DayLength - 1) : (-y) % DayLength = DayLength - y
  OBVIOUS
<1>3. CASE s <= x
  <2>1. x - s \in 0..(DayLength - 1)
    BY <1>3
  <2> QED BY <1>1, <1>3, <2>1
<1>4. CASE ~(s <= x)
  <2>1. s - x \in 1..(DayLength - 1) /\ x - s = -(s - x)
    BY <1>4
  <2>2. (-(s - x)) % DayLength = DayLength - (s - x)
    BY <1>2, <2>1
  <2> QED BY <1>4, <2>1, <2>2
<1> QED BY <1>3, <1>4

\* A schedule runs from its start to its end on a clock of any length, over
\* midnight too.
THEOREM SchedulesRound == Spec => []SchedulesRunToTheirEnd
<1>1. ASSUME NEW i \in RuleIds, Rules[i].type = "schedule", NEW t \in 0..(DayLength - 1)
      PROVE  LET s == Rules[i].start_time
                 e == Rules[i].end_time
             IN WithinHours(s, e, t) <=> (t - s) % DayLength <= (e - s) % DayLength
  <2> DEFINE s == Rules[i].start_time
             e == Rules[i].end_time
  <2>1. s \in 0..(DayLength - 1) /\ e \in 0..(DayLength - 1) /\ DayLength \in Nat
    BY <1>1, SchedulesAssumption
  <2> HIDE DEF s, e
  <2>2. (t - s) % DayLength = IF s <= t THEN t - s ELSE DayLength - (s - t)
    BY <1>1, <2>1, Around
  <2>3. (e - s) % DayLength = IF s <= e THEN e - s ELSE DayLength - (s - e)
    BY <2>1, Around
  <2>4. (IF s <= t THEN t - s ELSE DayLength - (s - t)) <= (IF s <= e THEN e - s ELSE DayLength - (s - e))
          <=> WithinHours(s, e, t)
    BY <1>1, <2>1 DEF WithinHours
  <2> QED BY <2>2, <2>3, <2>4 DEF s, e
<1>2. TypeOK => SchedulesRunToTheirEnd
  <2> SUFFICES ASSUME TypeOK PROVE SchedulesRunToTheirEnd
    OBVIOUS
  <2>1. now % DayLength \in 0..(DayLength - 1)
    BY SchedulesAssumption DEF TypeOK
  <2> QED BY <1>1, <2>1 DEF SchedulesRunToTheirEnd, ScheduleAllows
<1> QED BY <1>2, Typing, PTL
=============================================================================
