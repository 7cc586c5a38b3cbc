------------------------- MODULE ShareClaim_proofs -------------------------
(***************************************************************************)
(* What ShareClaim promises for every number of consumers, shares and      *)
(* lanes: its types, the cap on claims, that every holder was counted, and *)
(* that a closed share mints no grant.                                     *)
(***************************************************************************)
EXTENDS ShareClaim, FiniteSetTheorems, TLAPS

\* The records that stand for nothing are of their types.
LEMMA NullTypes ==
  /\ NoShare \in ShareType /\ NoGrant \in GrantType
  /\ Never \in Nat /\ Never > 0
BY ClockAssumption DEF NoShare, NoGrant, ShareType, GrantType, Never

\* The queue by its elements, once and for all: what Head, Tail and Append do.
LEMMA QueueFacts ==
  ASSUME TypeOK
  PROVE  /\ \A l \in Lanes : /\ Append(queue, l) \in Seq(Lanes)
                             /\ Len(Append(queue, l)) = Len(queue) + 1
                             /\ \A i \in 1..Len(queue) : Append(queue, l)[i] = queue[i]
                             /\ Append(queue, l)[Len(queue) + 1] = l
         /\ queue # <<>> => /\ Head(queue) = queue[1] /\ Len(queue) >= 1
                            /\ Tail(queue) \in Seq(Lanes)
                            /\ Len(Tail(queue)) = Len(queue) - 1
                            /\ \A i \in 1..(Len(queue) - 1) : Tail(queue)[i] = queue[i + 1]
         /\ Len(queue) \in Nat
BY DEF TypeOK

\* Minting keeps the types of shares, grants and the lane it is done in.
LEMMA MintTypes ==
  ASSUME TypeOK, NEW l \in Lanes, NEW c \in Consumers, NEW sh \in Shares, Mint(l, c, sh)
  PROVE  /\ shares' \in [Shares -> ShareType] /\ grants' \in [Consumers -> GrantType]
         /\ claim' \in [Lanes -> [op : {"idle", "waiting", "saving"},
                                  consumer : Consumers \cup {None}, share : Shares \cup {None}]]
         /\ \A k \in Lanes : k # l => claim'[k] = claim[k]
<1>1. shares[sh] \in ShareType
  BY DEF TypeOK
<1>2. shares' \in [Shares -> ShareType]
  <2>1. [shares[sh] EXCEPT !.claims_used = @ + 1] \in ShareType
    BY <1>1 DEF ShareType
  <2>2. shares' = [shares EXCEPT ![sh] = [shares[sh] EXCEPT !.claims_used = @ + 1]]
    BY DEF Mint
  <2> QED BY <2>1, <2>2 DEF TypeOK
<1>3. grants' \in [Consumers -> GrantType]
  BY <1>1 DEF TypeOK, Mint, ShareType, GrantType
<1> QED
  BY <1>2, <1>3 DEF TypeOK, Mint

\* Every step keeps the types.
LEMMA TypeStep ==
  ASSUME TypeOK, [Next]_vars
  PROVE  TypeOK'
<1> USE NullTypes
<1>1. ASSUME NEW l \in Lanes, NEW c \in Consumers, NEW sh \in Shares, ClaimAtOnce(l, c, sh)
      PROVE  TypeOK'
  <2>1. Mint(l, c, sh) /\ queue' = <<>> /\ UNCHANGED <<now, peer>>
    BY <1>1 DEF ClaimAtOnce
  <2> QED BY <2>1, MintTypes DEF TypeOK
<1>2. ASSUME NEW l \in Lanes, NEW c \in Consumers, NEW sh \in Shares, ClaimWaits(l, c, sh)
      PROVE  TypeOK'
  <2>1. claim[l].op = "idle" /\ queue' = Append(queue, l)
        /\ claim' = [claim EXCEPT ![l] = [op |-> "waiting", consumer |-> c, share |-> sh]]
        /\ UNCHANGED <<now, shares, grants, peer>>
    BY <1>2 DEF ClaimWaits, Accepts
  <2>2. \A i \in 1..Len(queue) : queue[i] \in Lanes /\ queue[i] # l
    BY <2>1 DEF TypeOK
  <2>3. claim'[l] = [op |-> "waiting", consumer |-> c, share |-> sh]
        /\ \A k \in Lanes : k # l => claim'[k] = claim[k]
    BY <2>1 DEF TypeOK
  <2>4. \A i \in 1..Len(queue') : i = Len(queue) + 1 \/ i \in 1..Len(queue)
    BY <2>1, QueueFacts
  <2>5. \A i \in 1..Len(queue') :
          /\ claim'[queue'[i]].op = "waiting"
          /\ claim'[queue'[i]].consumer \in Consumers
          /\ claim'[queue'[i]].share \in Shares
          /\ \A j \in 1..Len(queue') : queue'[i] = queue'[j] => i = j
    BY <2>1, <2>2, <2>3, <2>4, QueueFacts DEF TypeOK
  <2> QED BY <2>1, <2>5, QueueFacts DEF TypeOK
<1>3. ASSUME NEW l \in Lanes, TakesTurn(l), queue' = Tail(queue),
             \A k \in Lanes : k # l => claim'[k] = claim[k]
      PROVE  /\ queue' \in Seq(Lanes)
             /\ \A i \in 1..Len(queue') :
                  /\ claim'[queue'[i]].op = "waiting"
                  /\ claim'[queue'[i]].consumer \in Consumers
                  /\ claim'[queue'[i]].share \in Shares
                  /\ \A j \in 1..Len(queue') : queue'[i] = queue'[j] => i = j
  <2>1. queue # <<>> /\ l = queue[1] /\ Len(queue') = Len(queue) - 1
        /\ \A i \in 1..Len(queue') : queue'[i] = queue[i + 1] /\ i + 1 \in 1..Len(queue)
    BY <1>3, QueueFacts DEF TakesTurn
  <2>2. \A i \in 1..Len(queue') : queue'[i] \in Lanes /\ queue'[i] # l
    <3> SUFFICES ASSUME NEW i \in 1..Len(queue')
                 PROVE  queue'[i] \in Lanes /\ queue'[i] # l
      OBVIOUS
    <3>1. queue'[i] = queue[i + 1] /\ i + 1 \in 1..Len(queue) /\ 1 \in 1..Len(queue)
      BY <2>1, QueueFacts
    <3>2. i + 1 # 1
      BY <2>1, QueueFacts
    <3> QED BY <2>1, <3>1, <3>2 DEF TypeOK
  <2> QED BY <1>3, <2>1, <2>2, QueueFacts DEF TypeOK
<1>4. ASSUME NEW l \in Lanes, ClaimResumes(l)
      PROVE  TypeOK'
  <2>1. claim[l].consumer \in Consumers /\ claim[l].share \in Shares
    BY <1>4, QueueFacts DEF ClaimResumes, TakesTurn, TypeOK
  <2>2. Mint(l, claim[l].consumer, claim[l].share) /\ TakesTurn(l) /\ queue' = Tail(queue)
        /\ UNCHANGED <<now, peer>>
    BY <1>4 DEF ClaimResumes
  <2> QED BY <1>3, <2>1, <2>2, MintTypes DEF TypeOK
<1>5. ASSUME NEW l \in Lanes, ClaimFails(l)
      PROVE  TypeOK'
  <2>1. TakesTurn(l) /\ queue' = Tail(queue) /\ claim' = [claim EXCEPT ![l] = Idle]
        /\ UNCHANGED <<now, shares, grants, peer>>
    BY <1>5 DEF ClaimFails
  <2>2. \A k \in Lanes : k # l => claim'[k] = claim[k]
    BY <2>1 DEF TypeOK
  <2> QED BY <1>3, <2>1, <2>2 DEF TypeOK, Idle
<1>6. ASSUME NEW l \in Lanes, ClaimSaved(l)
      PROVE  TypeOK'
  BY <1>6 DEF TypeOK, ClaimSaved, Idle
<1>7. ASSUME NEW sh \in Shares, NEW limit \in Limits, NEW e \in 1..Never,
             CreateShare(sh, limit, e)
      PROVE  TypeOK'
  <2>1. [status |-> "open", max_claims |-> limit, claims_used |-> 0, expires_at |-> e]
          \in ShareType
    BY ShareAssumption DEF ShareType
  <2> QED BY <1>7, <2>1 DEF TypeOK, CreateShare
<1>8. ASSUME NEW sh \in Shares, RevokeShare(sh) \/ DeleteShare(sh)
      PROVE  TypeOK'
  <2>1. \A v \in {"revoked", "deleted"} : [shares[sh] EXCEPT !.status = v] \in ShareType
    BY DEF TypeOK, ShareType
  <2>2. \E v \in {"revoked", "deleted"} :
          shares' = [shares EXCEPT ![sh] = [shares[sh] EXCEPT !.status = v]]
    BY <1>8 DEF RevokeShare, DeleteShare
  <2>3. PICK v \in {"revoked", "deleted"} :
          shares' = [shares EXCEPT ![sh] = [shares[sh] EXCEPT !.status = v]]
    BY <2>2
  <2>4. [shares[sh] EXCEPT !.status = v] \in ShareType BY <2>1
  <2>5. shares \in [Shares -> ShareType] BY DEF TypeOK
  <2>6. shares' \in [Shares -> ShareType] BY <2>3, <2>4, <2>5
  <2> QED BY <1>8, <2>6, <2>3 DEF TypeOK, RevokeShare, DeleteShare
<1>9. ASSUME PurgeShares
      PROVE  TypeOK'
  <2>1. \A sh \in Shares : [shares[sh] EXCEPT !.status = "deleted"] \in ShareType
    BY DEF TypeOK, ShareType
  <2>2. shares' \in [Shares -> ShareType]
    BY <1>9, <2>1 DEF TypeOK, PurgeShares
  <2> QED BY <1>9, <2>2 DEF TypeOK, PurgeShares
<1>10. ASSUME NEW c \in Consumers, RevokeGrant(c) \/ DeleteGrant(c)
       PROVE  TypeOK'
  <2>1. [grants[c] EXCEPT !.status = "revoked"] \in GrantType
    BY DEF TypeOK, GrantType
  <2>2. \/ grants' = [grants EXCEPT ![c] = [grants[c] EXCEPT !.status = "revoked"]]
        \/ grants' = [grants EXCEPT ![c] = NoGrant]
    BY <1>10 DEF RevokeGrant, DeleteGrant
  <2>3. grants' \in [Consumers -> GrantType]
    BY <2>1, <2>2 DEF TypeOK
  <2> QED BY <1>10, <2>3 DEF TypeOK, RevokeGrant, DeleteGrant
<1>11. ASSUME NEW c \in Consumers, NEW e \in 1..Never, ApproveRequest(c, e)
       PROVE  TypeOK'
  BY <1>11 DEF TypeOK, ApproveRequest, GrantType
<1>12. CASE OpenPeer \/ Tick
  <2>1. now' \in 0..MaxTime
    <3>1. now \in 0..MaxTime
      BY DEF TypeOK
    <3>2. CASE OpenPeer
      BY <3>1, <3>2 DEF OpenPeer
    <3>3. CASE Tick
      BY <3>1, <3>3, ClockAssumption DEF Tick
    <3> QED BY <1>12, <3>2, <3>3
  <2>2. peer' \in BOOLEAN /\ UNCHANGED <<shares, grants, claim, queue>>
    BY <1>12, Zenon DEF TypeOK, OpenPeer, Tick
  <2> QED BY <2>1, <2>2 DEF TypeOK
<1>13. CASE UNCHANGED vars
  BY <1>13 DEF TypeOK, vars
<1> QED
  BY <1>1, <1>2, <1>4, <1>5, <1>6, <1>7, <1>8, <1>9, <1>10, <1>11, <1>12, <1>13
     DEF Next, ClaimStep, ShareStep, GrantStep

\* An empty store is of its types.
LEMMA TypeInit == Init => TypeOK
<1> SUFFICES ASSUME Init PROVE TypeOK
  OBVIOUS
<1>1. now \in 0..MaxTime
  BY ClockAssumption DEF Init
<1>3. peer \in BOOLEAN
  BY DEF Init
<1>2. queue \in Seq(Lanes) /\ 1..Len(queue) = {}
  BY DEF Init
<1> QED
  BY <1>1, <1>2, <1>3, NullTypes DEF Init, TypeOK, Idle

\* The types of the store and of the suspended claims.
THEOREM Typing == Spec => []TypeOK
<1>1. TypeOK /\ [Next]_vars => TypeOK'
  BY TypeStep
<1> QED
  BY <1>1, TypeInit, PTL DEF Spec

-----------------------------------------------------------------------------
(* The counter. *)

\* What a step does to one share and to its holders: it mints a grant of an
\* open share with claims left, or it takes no claim of it.
LEMMA ShareFrame ==
  ASSUME TypeOK, [Next]_vars, NEW sh \in Shares
  PROVE  \/ /\ StillOpen(sh) /\ shares'[sh] = [shares[sh] EXCEPT !.claims_used = @ + 1]
            /\ \E c \in Consumers : Holders(sh)' \subseteq Holders(sh) \cup {c}
         \/ /\ shares'[sh].claims_used = shares[sh].claims_used
            /\ shares'[sh].max_claims = shares[sh].max_claims
            /\ shares'[sh].status = "unused" => shares[sh].status = "unused"
            /\ Holders(sh)' \subseteq Holders(sh)
         \/ /\ shares[sh].status = "unused"
            /\ shares'[sh].claims_used = 0 /\ shares'[sh].max_claims \in Limits
            /\ Holders(sh)' \subseteq Holders(sh)
<1> DEFINE Kept == /\ shares'[sh].claims_used = shares[sh].claims_used
                   /\ shares'[sh].max_claims = shares[sh].max_claims
                   /\ shares'[sh].status = "unused" => shares[sh].status = "unused"
                   /\ Holders(sh)' \subseteq Holders(sh)
           Minted == /\ StillOpen(sh)
                     /\ shares'[sh] = [shares[sh] EXCEPT !.claims_used = @ + 1]
                     /\ \E c \in Consumers : Holders(sh)' \subseteq Holders(sh) \cup {c}
           Created == /\ shares[sh].status = "unused"
                      /\ shares'[sh].claims_used = 0 /\ shares'[sh].max_claims \in Limits
                      /\ Holders(sh)' \subseteq Holders(sh)
<1>1. ASSUME NEW l \in Lanes, NEW c \in Consumers, NEW t \in Shares,
             Mint(l, c, t), StillOpen(t)
      PROVE  Minted \/ Kept
  <2>1. CASE t = sh
    <3>1. shares'[sh] = [shares[sh] EXCEPT !.claims_used = @ + 1]
      BY <1>1, <2>1 DEF Mint, TypeOK, ShareType
    <3>2. Holders(sh)' \subseteq Holders(sh) \cup {c}
      BY <1>1, <2>1 DEF Mint, TypeOK, Holders
    <3> QED BY <1>1, <2>1, <3>1, <3>2
  <2>2. CASE t # sh
    <3>1. shares'[sh] = shares[sh]
      BY <1>1, <2>2 DEF Mint, TypeOK
    <3>2. Holders(sh)' \subseteq Holders(sh)
      BY <1>1, <2>2 DEF Mint, TypeOK, Holders
    <3> QED BY <3>1, <3>2
  <2> QED BY <2>1, <2>2
<1>2. ASSUME NEW l \in Lanes, ClaimResumes(l)
      PROVE  Minted \/ Kept
  <2>1. claim[l].consumer \in Consumers /\ claim[l].share \in Shares
    BY <1>2, QueueFacts DEF ClaimResumes, TakesTurn, TypeOK
  <2> HIDE DEF Minted, Kept
  <2> QED BY <1>1, <1>2, <2>1 DEF ClaimResumes
<1>3. ASSUME NEW l \in Lanes, NEW c \in Consumers, NEW t \in Shares, ClaimAtOnce(l, c, t)
      PROVE  Minted \/ Kept
  <2> HIDE DEF Minted, Kept
  <2> QED BY <1>1, <1>3 DEF ClaimAtOnce
<1>4. ASSUME UNCHANGED <<shares, grants>>
      PROVE  Kept
  BY <1>4 DEF Holders
<1>5. ASSUME NEW l \in Lanes, NEW c \in Consumers, NEW t \in Shares,
             ClaimWaits(l, c, t) \/ ClaimFails(l) \/ ClaimSaved(l)
      PROVE  UNCHANGED <<shares, grants>>
  BY <1>5 DEF ClaimWaits, ClaimFails, ClaimSaved
<1>6. ASSUME NEW t \in Shares, NEW limit \in Limits, NEW e \in 1..Never,
             CreateShare(t, limit, e)
      PROVE  Created \/ Kept
  BY <1>6 DEF CreateShare, TypeOK, Holders
<1>7. ASSUME NEW t \in Shares, RevokeShare(t) \/ DeleteShare(t)
      PROVE  Kept
  <2>1. PICK v \in {"revoked", "deleted"} : shares' = [shares EXCEPT ![t].status = v]
    BY <1>7 DEF RevokeShare, DeleteShare
  <2>2. /\ shares'[sh].claims_used = shares[sh].claims_used
        /\ shares'[sh].max_claims = shares[sh].max_claims
        /\ shares'[sh].status = "unused" => shares[sh].status = "unused"
    BY <2>1 DEF TypeOK, ShareType
  <2>3. grants' = grants
    BY <1>7 DEF RevokeShare, DeleteShare
  <2> QED BY <2>2, <2>3 DEF Holders
<1>8. ASSUME PurgeShares
      PROVE  Kept
  <2>1. /\ [shares[sh] EXCEPT !.status = "deleted"].claims_used = shares[sh].claims_used
        /\ [shares[sh] EXCEPT !.status = "deleted"].max_claims = shares[sh].max_claims
    BY DEF TypeOK, ShareType
  <2> QED BY <1>8, <2>1 DEF PurgeShares, Holders
<1>9. ASSUME NEW c \in Consumers, RevokeGrant(c) \/ DeleteGrant(c)
      PROVE  Kept
  <2>1. NoGrant.share_id # sh
    BY ShareAssumption DEF NoGrant
  <2>2. \A d \in Consumers : grants'[d].share_id = sh => grants[d].share_id = sh
    <3>1. CASE RevokeGrant(c)
      BY <3>1 DEF RevokeGrant, TypeOK, GrantType
    <3>2. CASE DeleteGrant(c)
      BY <2>1, <3>2 DEF DeleteGrant, TypeOK
    <3> QED BY <1>9, <3>1, <3>2
  <2>3. shares' = shares
    BY <1>9 DEF RevokeGrant, DeleteGrant
  <2> QED BY <2>2, <2>3 DEF Holders
<1>10. ASSUME NEW c \in Consumers, NEW e \in 1..Never, ApproveRequest(c, e)
       PROVE  Kept
  BY <1>10, ShareAssumption DEF ApproveRequest, TypeOK, Holders
<1>11. ASSUME OpenPeer \/ Tick \/ UNCHANGED vars
       PROVE  UNCHANGED <<shares, grants>>
  BY <1>11 DEF OpenPeer, Tick, vars
<1>12. ASSUME NEW l \in Lanes, ClaimFails(l) \/ ClaimSaved(l)
       PROVE  UNCHANGED <<shares, grants>>
  BY <1>12 DEF ClaimFails, ClaimSaved
<1> HIDE DEF Minted, Kept, Created
<1>13. Minted \/ Kept \/ Created
  BY <1>2, <1>3, <1>4, <1>5, <1>6, <1>7, <1>8, <1>9, <1>10, <1>11, <1>12
     DEF Next, ClaimStep, ShareStep, GrantStep
<1> QED
  BY <1>13 DEF Minted, Kept, Created

\* A share that was never created was never claimed.
UnusedFresh ==
  \A sh \in Shares : shares[sh].status = "unused" => shares[sh].claims_used = 0

CountInv == TypeOK /\ ClaimsWithinCap /\ HoldersCounted

\* Every step keeps the counters between the holders and the caps.
LEMMA CountStep ==
  ASSUME CountInv, UnusedFresh, [Next]_vars
  PROVE  CountInv'
<1>0. TypeOK /\ TypeOK'
  BY TypeStep DEF CountInv
<1>1. ASSUME NEW sh \in Shares
      PROVE  /\ shares'[sh].claims_used <= shares'[sh].max_claims
             /\ Cardinality(Holders(sh)') <= shares'[sh].claims_used
  <2>1. /\ shares[sh].claims_used \in Nat /\ shares[sh].max_claims \in Nat
        /\ shares[sh].claims_used <= shares[sh].max_claims
        /\ Cardinality(Holders(sh)) <= shares[sh].claims_used
    BY <1>0 DEF TypeOK, ShareType, CountInv, ClaimsWithinCap, HoldersCounted
  <2>2. IsFiniteSet(Holders(sh)) /\ IsFiniteSet(Holders(sh)')
    BY FiniteAssumption, FS_Subset DEF Holders
  <2>3. Cardinality(Holders(sh)) \in Nat /\ Cardinality(Holders(sh)') \in Nat
    BY <2>2, FS_CardinalityType
  <2>4. CASE Holders(sh)' \subseteq Holders(sh)
    <3>1. Cardinality(Holders(sh)') <= shares[sh].claims_used
      BY <2>1, <2>2, <2>3, <2>4, FS_Subset
    <3>2. /\ shares'[sh].claims_used \in Nat /\ shares[sh].claims_used <= shares'[sh].claims_used
          /\ shares'[sh].claims_used <= shares'[sh].max_claims
      <4>1. CASE StillOpen(sh) /\ shares'[sh] = [shares[sh] EXCEPT !.claims_used = @ + 1]
        <5>1. /\ shares'[sh].claims_used = shares[sh].claims_used + 1
              /\ shares'[sh].max_claims = shares[sh].max_claims
              /\ shares[sh].claims_used < shares[sh].max_claims
          BY <1>0, <2>1, <4>1 DEF StillOpen, Exhausted, TypeOK, ShareType
        <5> QED BY <2>1, <5>1
      <4>2. CASE /\ shares'[sh].claims_used = shares[sh].claims_used
                 /\ shares'[sh].max_claims = shares[sh].max_claims
        BY <2>1, <4>2
      <4>3. CASE /\ shares[sh].status = "unused"
                 /\ shares'[sh].claims_used = 0 /\ shares'[sh].max_claims \in Limits
        <5>1. shares'[sh].max_claims \in Nat
          BY <4>3, ShareAssumption
        <5>2. shares[sh].claims_used = 0
          BY <4>3 DEF UnusedFresh
        <5> QED BY <4>3, <5>1, <5>2
      <4> QED BY <1>0, <4>1, <4>2, <4>3, ShareFrame
    <3> QED BY <2>3, <3>1, <3>2, <2>1
  <2>5. CASE ~(Holders(sh)' \subseteq Holders(sh))
    <3>1. /\ StillOpen(sh) /\ shares'[sh] = [shares[sh] EXCEPT !.claims_used = @ + 1]
          /\ \E c \in Consumers : Holders(sh)' \subseteq Holders(sh) \cup {c}
      BY <1>0, <1>1, <2>5, ShareFrame
    <3>2. PICK c \in Consumers : Holders(sh)' \subseteq Holders(sh) \cup {c}
      BY <3>1
    <3>3. /\ IsFiniteSet(Holders(sh) \cup {c})
          /\ Cardinality(Holders(sh) \cup {c}) <= Cardinality(Holders(sh)) + 1
      <4>1. IsFiniteSet(Holders(sh)) BY <2>2
      <4>2. /\ IsFiniteSet(Holders(sh) \cup {c})
            /\ \/ Cardinality(Holders(sh) \cup {c}) = Cardinality(Holders(sh))
               \/ Cardinality(Holders(sh) \cup {c}) = Cardinality(Holders(sh)) + 1
        BY <4>1, FS_AddElement
      <4>3. Cardinality(Holders(sh)) \in Nat BY <4>1, FS_CardinalityType
      <4> QED BY <4>2, <4>3
    <3>4. Cardinality(Holders(sh)') <= Cardinality(Holders(sh) \cup {c})
      BY <3>2, <3>3, FS_Subset
    <3>5. Cardinality(Holders(sh) \cup {c}) \in Nat
      BY <3>3, FS_CardinalityType
    <3>6. /\ shares'[sh].claims_used = shares[sh].claims_used + 1
          /\ shares'[sh].max_claims = shares[sh].max_claims
          /\ shares[sh].claims_used < shares[sh].max_claims
      BY <1>0, <2>1, <3>1 DEF StillOpen, Exhausted, TypeOK, ShareType
    <3> QED BY <2>1, <2>3, <3>3, <3>4, <3>5, <3>6
  <2> QED BY <2>4, <2>5
<1> QED
  BY <1>0, <1>1 DEF CountInv, ClaimsWithinCap, HoldersCounted

\* Only claims of created shares are counted.
LEMMA FreshStep ==
  ASSUME TypeOK, UnusedFresh, [Next]_vars
  PROVE  UnusedFresh'
<1> SUFFICES ASSUME NEW sh \in Shares, shares'[sh].status = "unused"
             PROVE  shares'[sh].claims_used = 0
  BY DEF UnusedFresh
<1>1. ~(StillOpen(sh) /\ shares'[sh] = [shares[sh] EXCEPT !.claims_used = @ + 1])
  <2>1. ASSUME StillOpen(sh), shares'[sh] = [shares[sh] EXCEPT !.claims_used = @ + 1]
        PROVE  FALSE
    BY <2>1 DEF StillOpen, TypeOK, ShareType
  <2> QED BY <2>1
<1>2. CASE shares'[sh].claims_used = 0
  BY <1>2
<1>3. CASE shares'[sh].claims_used = shares[sh].claims_used /\ shares[sh].status = "unused"
  BY <1>3 DEF UnusedFresh
<1> QED
  BY <1>1, <1>2, <1>3, ShareFrame

LEMMA CountInit == Init => CountInv /\ UnusedFresh
<1> SUFFICES ASSUME Init PROVE CountInv /\ UnusedFresh
  OBVIOUS
<1>1. TypeOK
  BY TypeInit
<1>2. \A sh \in Shares : /\ shares[sh].claims_used = 0 /\ shares[sh].max_claims = 0
                         /\ Holders(sh) = {}
  BY ShareAssumption DEF Init, NoShare, NoGrant, Holders
<1>3. Cardinality({}) = 0
  BY FS_EmptySet
<1> QED
  BY <1>1, <1>2, <1>3 DEF CountInv, ClaimsWithinCap, HoldersCounted, UnusedFresh

LEMMA Counting == Spec => [](CountInv /\ UnusedFresh)
<1>1. CountInv /\ UnusedFresh /\ [Next]_vars => (CountInv /\ UnusedFresh)'
  BY CountStep, FreshStep DEF CountInv
<1> QED
  BY <1>1, CountInit, PTL DEF Spec

\* No share is claimed more often than its owner allowed, for any number of
\* claims racing for the lock.
THEOREM CapKept == Spec => []ClaimsWithinCap
<1>1. CountInv => ClaimsWithinCap
  BY DEF CountInv
<1> QED
  BY <1>1, Counting, PTL

\* No share has more grants on record than claims were counted.
THEOREM HoldersKept == Spec => []HoldersCounted
<1>1. CountInv => HoldersCounted
  BY DEF CountInv
<1> QED
  BY <1>1, Counting, PTL

-----------------------------------------------------------------------------
(* Closed shares. *)

\* A step that makes a claimed grant finds its share open.
LEMMA ClosedStep ==
  ASSUME TypeOK, [Next]_vars, NEW c \in Consumers, NEW sh \in Shares,
         grants'[c].status = "active", grants'[c].share_id = sh, grants'[c] # grants[c]
  PROVE  shares[sh].status = "open"
<1>1. ASSUME NEW l \in Lanes, NEW d \in Consumers, NEW t \in Shares,
             Mint(l, d, t), StillOpen(t)
      PROVE  shares[sh].status = "open"
  BY <1>1 DEF Mint, StillOpen, TypeOK
<1>2. ASSUME NEW l \in Lanes, ClaimResumes(l)
      PROVE  shares[sh].status = "open"
  <2>1. claim[l].consumer \in Consumers /\ claim[l].share \in Shares
    BY <1>2, QueueFacts DEF ClaimResumes, TakesTurn, TypeOK
  <2> QED BY <1>1, <1>2, <2>1 DEF ClaimResumes
<1>3. ASSUME NEW l \in Lanes, NEW d \in Consumers, NEW t \in Shares, ClaimAtOnce(l, d, t)
      PROVE  shares[sh].status = "open"
  BY <1>1, <1>3 DEF ClaimAtOnce
<1>4. ASSUME NEW d \in Consumers, RevokeGrant(d) \/ DeleteGrant(d)
      PROVE  FALSE
  <2>1. CASE RevokeGrant(d)
    BY <2>1 DEF RevokeGrant, TypeOK, GrantType
  <2>2. CASE DeleteGrant(d)
    BY <2>2 DEF DeleteGrant, TypeOK, NoGrant
  <2> QED BY <1>4, <2>1, <2>2
<1>5. ASSUME NEW d \in Consumers, NEW e \in 1..Never, ApproveRequest(d, e)
      PROVE  FALSE
  BY <1>5, ShareAssumption DEF ApproveRequest, TypeOK
<1>6. grants' # grants
  OBVIOUS
<1>7. ASSUME NEW l \in Lanes, NEW d \in Consumers, NEW t \in Shares, ClaimWaits(l, d, t)
      PROVE  FALSE
  BY <1>6, <1>7 DEF ClaimWaits
<1>8. ASSUME NEW l \in Lanes, ClaimFails(l) \/ ClaimSaved(l)
      PROVE  FALSE
  BY <1>6, <1>8 DEF ClaimFails, ClaimSaved
<1>9. ASSUME NEW t \in Shares, NEW limit \in Limits, NEW e \in 1..Never, CreateShare(t, limit, e)
      PROVE  FALSE
  BY <1>6, <1>9 DEF CreateShare
<1>10. ASSUME NEW t \in Shares, RevokeShare(t) \/ DeleteShare(t)
       PROVE  FALSE
  BY <1>6, <1>10 DEF RevokeShare, DeleteShare
<1>11. ~(PurgeShares \/ OpenPeer \/ Tick \/ UNCHANGED vars)
  BY <1>6 DEF PurgeShares, OpenPeer, Tick, vars
<1> QED
  BY <1>2, <1>3, <1>4, <1>5, <1>7, <1>8, <1>9, <1>10, <1>11
     DEF Next, ClaimStep, ShareStep, GrantStep

\* A share that is revoked, deleted or purged mints no grant, whoever waits.
THEOREM ClosedSharesMintNothing == Spec => NoGrantFromClosedShare
<1>1. TypeOK /\ [Next]_vars =>
        [\A c \in Consumers, sh \in Shares :
           /\ grants'[c].status = "active" /\ grants'[c].share_id = sh
           /\ grants'[c] # grants[c]
           => shares[sh].status = "open"]_vars
  BY ClosedStep
<1> QED
  BY <1>1, Typing, PTL DEF Spec, NoGrantFromClosedShare
=============================================================================
