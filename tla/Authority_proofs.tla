-------------------------- MODULE Authority_proofs --------------------------
(***************************************************************************)
(* What Authority promises for every value of its constants: its types,    *)
(* that a grant goes back to a decided request, and, where each client     *)
(* signs with one key, that completed owner commands leave no feed behind, *)
(* and that it implements ScopedFeeds.                                     *)
(***************************************************************************)
EXTENDS Authority, FiniteSetTheorems, TLAPS

\* The actions of Next, one by one: a step proof has one case for each.
LEMMA NextCases ==
  ASSUME Next
  PROVE  \/ \E l \in Lanes, s \in Sessions, c \in Consumers, m \in Manifests :
              AccessRequest(l, s, c, m)
         \/ \E l \in Lanes, s \in Sessions : RefuseRequest(l, s)
         \/ \E l \in Lanes, s \in Sessions, id \in SubIds, E \in SUBSET Entities :
              Subscribe(l, s, id, E)
         \/ \E l \in Lanes, s \in Sessions, id \in SubIds : Unsubscribe(l, s, id)
         \/ \E s \in Sessions, c \in Consumers : Authenticate(s, c)
         \/ \E s \in Sessions : WebrtcOffer(s) \/ ClientConnected(s) \/ PeerLost(s)
         \/ \E s \in Sessions : ClientDisconnected(s)
         \/ \E l \in Lanes : BindSession(l)
         \/ \E o \in OwnerLanes, r \in Requests, t \in SUBSET Entities, e \in 1..Never :
              ApproveRequest(o, r, t, e)
         \/ \E o \in OwnerLanes, c \in Consumers : RevokeGrant(o, c)
         \/ \E o \in OwnerLanes, c \in Consumers : DeleteGrant(o, c)
         \/ \E o \in OwnerLanes, c \in Consumers, D \in Denials :
              SetGrantRestrictions(o, c, D)
         \/ \E r \in Requests : RejectRequest(r)
         \/ \E c \in Consumers, m \in Manifests, D \in Denials, e \in 1..Never :
              CreatePreapprovedGrant(c, m, D, e)
         \/ \E o \in OwnerLanes : WriteGrant(o)
         \/ \E o \in OwnerLanes : CloseSessions(o)
         \/ \E o \in OwnerLanes : ClearSubscriptions(o)
         \/ LinkLost \/ Tick
<1>1. CASE \E l \in Lanes, s \in Sessions : ConsumerStep(l, s)
  BY <1>1, Zenon DEF ConsumerStep
<1>2. CASE \E s \in Sessions : RelayStep(s)
  BY <1>2, Zenon DEF RelayStep
<1>3. CASE \E o \in OwnerLanes : OwnerStep(o)
  BY <1>3, Zenon DEF OwnerStep
<1>4. CASE OwnerAtomicStep
  BY <1>4, Zenon DEF OwnerAtomicStep
<1>5. CASE \E o \in OwnerLanes : Finish(o)
  BY <1>5, Zenon DEF Finish
<1> QED
  BY <1>1, <1>2, <1>3, <1>4, <1>5, Zenon DEF Next

-----------------------------------------------------------------------------
(* Types. *)

\* The values that are no record of a consumer are of their types, too.
LEMMA NullTypes ==
  /\ NoRequest \in RequestType
  /\ NoGrant \in GrantType
  /\ NoSubs \in [SubIds -> SUBSET Entities]
  /\ Never \in Nat /\ Never > 0
BY BoundAssumption DEF NoRequest, NoGrant, NoSubs, RequestType, GrantType, Never, Statuses

\* A written request changes the store's requests within their type.
LEMMA AccessRequestTypes ==
  ASSUME TypeOK, NEW l \in Lanes, NEW s \in Sessions, NEW c \in Consumers,
         NEW m \in Manifests, AccessRequest(l, s, c, m)
  PROVE  /\ requests' \in [Requests -> RequestType]
         /\ \A r \in Requests : requests'[r].status # "none" =>
              requests'[r].consumer_pk \in Consumers
<1>1. PICK r \in Requests :
        requests' \in TrimPending([requests EXCEPT ![r] =
          [status |-> "pending", consumer_pk |-> c, manifest |-> m]], r)
  BY DEF AccessRequest
<1> DEFINE rs == [requests EXCEPT ![r] =
                    [status |-> "pending", consumer_pk |-> c, manifest |-> m]]
<1>2. /\ rs \in [Requests -> RequestType]
      /\ \A q \in Requests : rs[q].status # "none" => rs[q].consumer_pk \in Consumers
  BY ScopeAssumption DEF TypeOK, RequestType, Statuses
<1>3. requests' = rs \/ \E v \in Requests : requests' = [rs EXCEPT ![v] = NoRequest]
  <2> HIDE DEF rs
  <2> QED BY <1>1 DEF TrimPending, PendingIn, rs
<1> HIDE DEF rs
<1>4. CASE requests' = rs
  BY <1>2, <1>4
<1>5. ASSUME NEW v \in Requests, requests' = [rs EXCEPT ![v] = NoRequest]
      PROVE  /\ requests' \in [Requests -> RequestType]
             /\ \A q \in Requests : requests'[q].status # "none" =>
                  requests'[q].consumer_pk \in Consumers
  <2>1. NoRequest \in RequestType /\ NoRequest.status = "none"
    BY NullTypes DEF NoRequest
  <2> QED BY <1>2, <1>5, <2>1
<1> QED
  BY <1>3, <1>4, <1>5

\* The empty store and the empty runtime are of their types.
LEMMA TypeInit == Init => TypeOK
BY NullTypes, BoundAssumption DEF Init, TypeOK, NoRequest, Idle, NoCommand

\* Every step keeps the types.
LEMMA TypeStep ==
  ASSUME TypeOK, [Next]_vars
  PROVE  TypeOK'
<1> USE NullTypes
<1>1. ASSUME NEW l \in Lanes, NEW s \in Sessions, NEW c \in Consumers,
             NEW m \in Manifests, AccessRequest(l, s, c, m)
      PROVE  TypeOK'
  <2>1. /\ requests' \in [Requests -> RequestType]
        /\ \A r \in Requests : requests'[r].status # "none" =>
             requests'[r].consumer_pk \in Consumers
    BY <1>1, AccessRequestTypes
  <2> QED BY <1>1, <2>1 DEF TypeOK, AccessRequest, channels, runtime
<1>2. ASSUME NEW l \in Lanes, NEW s \in Sessions, RefuseRequest(l, s)
      PROVE  TypeOK'
  BY <1>2 DEF TypeOK, RefuseRequest, stored, channels
<1>3. ASSUME NEW l \in Lanes, NEW s \in Sessions, NEW id \in SubIds,
             NEW E \in SUBSET Entities, Subscribe(l, s, id, E)
      PROVE  TypeOK'
  BY <1>3 DEF TypeOK, Subscribe, stored, channels
<1>4. ASSUME NEW l \in Lanes, NEW s \in Sessions, NEW id \in SubIds, Unsubscribe(l, s, id)
      PROVE  TypeOK'
  BY <1>4 DEF TypeOK, Unsubscribe, stored, channels
<1>5. ASSUME NEW s \in Sessions, NEW c \in Consumers, Authenticate(s, c)
      PROVE  TypeOK'
  BY <1>5 DEF TypeOK, Authenticate, stored, channels, runtime, Lanes
<1>6. ASSUME NEW s \in Sessions, WebrtcOffer(s) \/ ClientConnected(s) \/ PeerLost(s)
      PROVE  TypeOK'
  BY <1>6 DEF TypeOK, WebrtcOffer, ClientConnected, PeerLost, stored, runtime
<1>7. ASSUME NEW s \in Sessions, ClientDisconnected(s)
      PROVE  TypeOK'
  BY <1>7 DEF TypeOK, ClientDisconnected, stored
<1>8. ASSUME NEW l \in Lanes, BindSession(l)
      PROVE  TypeOK'
  BY <1>8, KeysAssumption DEF TypeOK, BindSession, stored, channels, Idle
<1>9. ASSUME NEW o \in OwnerLanes, NEW r \in Requests, NEW t \in SUBSET Entities,
             NEW e \in 1..Never, ApproveRequest(o, r, t, e)
      PROVE  TypeOK'
  <2> DEFINE grant == [status |-> "active", manifest |-> requests[r].manifest \cap t,
                       denied |-> {}, expires_at |-> e, request_id |-> r]
  <2>1. requests[r] \in RequestType /\ requests[r].consumer_pk \in Consumers
    BY <1>9 DEF TypeOK, ApproveRequest
  <2>2. grant \in GrantType
    BY <2>1 DEF RequestType, GrantType
  <2>3. /\ requests' \in [Requests -> RequestType]
        /\ \A q \in Requests : requests'[q].status # "none" =>
             requests'[q].consumer_pk \in Consumers
    BY <1>9, <2>1 DEF TypeOK, ApproveRequest, RequestType, Statuses
  <2>4. owner' = [owner EXCEPT ![o] =
                    [op |-> "approve", key |-> requests[r].consumer_pk, grant |-> grant]]
    BY <1>9 DEF ApproveRequest, Command
  <2> HIDE DEF grant
  <2> QED
    BY <1>9, <2>1, <2>2, <2>3, <2>4 DEF TypeOK, ApproveRequest, channels, runtime
<1>10. ASSUME NEW o \in OwnerLanes, NEW c \in Consumers, RevokeGrant(o, c)
       PROVE  TypeOK'
  <2>1. [grants[c] EXCEPT !.status = "revoked"] \in GrantType
    BY DEF TypeOK, GrantType
  <2>2. grants' = [grants EXCEPT ![c] = [grants[c] EXCEPT !.status = "revoked"]]
    BY <1>10 DEF RevokeGrant
  <2>3. grants' \in [Consumers -> GrantType]
    BY <2>1, <2>2 DEF TypeOK
  <2> QED
    BY <1>10, <2>3 DEF TypeOK, RevokeGrant, Command, channels, runtime
<1>11. ASSUME NEW o \in OwnerLanes, NEW c \in Consumers, DeleteGrant(o, c)
       PROVE  TypeOK'
  BY <1>11 DEF TypeOK, DeleteGrant, Command, channels, runtime
<1>12. ASSUME NEW o \in OwnerLanes, NEW c \in Consumers, NEW D \in Denials,
              SetGrantRestrictions(o, c, D)
       PROVE  TypeOK'
  <2>1. D \in SUBSET Entities
    BY ScopeAssumption
  <2>2. [grants[c] EXCEPT !.denied = D] \in GrantType
    BY <2>1 DEF TypeOK, GrantType
  <2>3. grants' = [grants EXCEPT ![c] = [grants[c] EXCEPT !.denied = D]]
    BY <1>12 DEF SetGrantRestrictions
  <2>4. grants' \in [Consumers -> GrantType]
    BY <2>2, <2>3 DEF TypeOK
  <2> QED
    BY <1>12, <2>4 DEF TypeOK, SetGrantRestrictions, Command, channels, runtime
<1>13. ASSUME NEW r \in Requests, RejectRequest(r)
       PROVE  TypeOK'
  BY <1>13 DEF TypeOK, RequestType, Statuses, RejectRequest, channels, runtime
<1>14. ASSUME NEW c \in Consumers, NEW m \in Manifests, NEW D \in Denials,
              NEW e \in 1..Never, CreatePreapprovedGrant(c, m, D, e)
       PROVE  TypeOK'
  BY <1>14, ScopeAssumption DEF TypeOK, GrantType, CreatePreapprovedGrant, channels, runtime
<1>15. ASSUME NEW o \in OwnerLanes, WriteGrant(o)
       PROVE  TypeOK'
  BY <1>15 DEF TypeOK, WriteGrant, Done, NoCommand, channels, runtime
<1>16. ASSUME NEW o \in OwnerLanes, CloseSessions(o)
       PROVE  TypeOK'
  BY <1>16 DEF TypeOK, CloseSessions, Done, NoCommand, stored, channels
<1>17. ASSUME NEW o \in OwnerLanes, ClearSubscriptions(o)
       PROVE  TypeOK'
  BY <1>17 DEF TypeOK, ClearSubscriptions, Done, NoCommand, stored, channels
<1>18. CASE LinkLost \/ Tick
  BY <1>18, BoundAssumption DEF TypeOK, LinkLost, Tick, stored, channels, runtime
<1>19. CASE UNCHANGED vars
  BY <1>19 DEF TypeOK, vars, stored, channels, runtime
<1> QED
  BY <1>1, <1>2, <1>3, <1>4, <1>5, <1>6, <1>7, <1>8, <1>9, <1>10, <1>11, <1>12,
     <1>13, <1>14, <1>15, <1>16, <1>17, <1>18, <1>19, NextCases, Zenon

\* The types of the store, the runtime sessions and the suspended handlers.
THEOREM Typing == Spec => []TypeOK
<1>1. Init => TypeOK
  BY TypeInit
<1>2. TypeOK /\ [Next]_vars => TypeOK'
  BY TypeStep
<1> QED
  BY <1>1, <1>2, PTL DEF Spec

-----------------------------------------------------------------------------
(* Grants and requests. *)

\* The grant an approval is about to write goes back to its request as the
\* written ones do.
CommandTraces ==
  \A o \in OwnerLanes : owner[o].op = "approve" =>
    LET g == owner[o].grant IN
      /\ g.request_id \in Requests
      /\ requests[g.request_id].status \in {"approved", "rejected"}
      /\ requests[g.request_id].consumer_pk = owner[o].key
      /\ g.manifest \subseteq requests[g.request_id].manifest

TraceInv == TypeOK /\ GrantTracesToRequest /\ CommandTraces

\* Filing a request leaves decided ones as they are: the slot it takes is free
\* or pending, and only pending ones are trimmed.
LEMMA FilingKeepsDecided ==
  ASSUME TypeOK, NEW l \in Lanes, NEW s \in Sessions, NEW c \in Consumers,
         NEW m \in Manifests, AccessRequest(l, s, c, m),
         NEW q \in Requests, requests[q].status \in {"approved", "rejected"}
  PROVE  requests'[q] = requests[q]
<1>1. PICK r \in Requests :
        /\ requests[r].status \in {"none", "pending"}
        /\ requests' \in TrimPending([requests EXCEPT ![r] =
             [status |-> "pending", consumer_pk |-> c, manifest |-> m]], r)
  BY DEF AccessRequest, PendingOf, PendingIn
<1> DEFINE rs == [requests EXCEPT ![r] =
                    [status |-> "pending", consumer_pk |-> c, manifest |-> m]]
<1>2. rs[q] = requests[q] /\ rs \in [Requests -> RequestType]
  BY <1>1, ScopeAssumption DEF TypeOK, RequestType, Statuses
<1>3. requests' = rs \/ \E v \in PendingIn(rs) : requests' = [rs EXCEPT ![v] = NoRequest]
  <2> HIDE DEF rs
  <2> QED BY <1>1 DEF TrimPending, rs
<1> HIDE DEF rs
<1> QED
  BY <1>2, <1>3 DEF PendingIn

\* A decision leaves the other requests alone, and what this one asks for.
LEMMA DecidingKeepsScope ==
  ASSUME TypeOK, NEW r \in Requests, NEW v \in {"approved", "rejected"},
         requests' = [requests EXCEPT ![r].status = v],
         NEW q \in Requests
  PROVE  /\ requests'[q].consumer_pk = requests[q].consumer_pk
         /\ requests'[q].manifest = requests[q].manifest
         /\ requests'[q].status = IF q = r THEN v ELSE requests[q].status
BY DEF TypeOK, RequestType

\* The steps that touch the store or an owner command; all others leave both.
LEMMA StoreFrame ==
  ASSUME [Next]_vars
  PROVE  \/ \E l \in Lanes, s \in Sessions, c \in Consumers, m \in Manifests :
              AccessRequest(l, s, c, m)
         \/ \E o \in OwnerLanes, r \in Requests, t \in SUBSET Entities, e \in 1..Never :
              ApproveRequest(o, r, t, e)
         \/ \E o \in OwnerLanes, c \in Consumers :
              \/ RevokeGrant(o, c) \/ DeleteGrant(o, c)
              \/ \E D \in Denials : SetGrantRestrictions(o, c, D)
         \/ \E r \in Requests : RejectRequest(r)
         \/ \E c \in Consumers, m \in Manifests, D \in Denials, e \in 1..Never :
              CreatePreapprovedGrant(c, m, D, e)
         \/ \E o \in OwnerLanes : WriteGrant(o)
         \/ \E o \in OwnerLanes : CloseSessions(o) \/ ClearSubscriptions(o)
         \/ UNCHANGED <<requests, grants, owner>>
<1>1. ASSUME NEW l \in Lanes, NEW s \in Sessions, RefuseRequest(l, s)
      PROVE  UNCHANGED <<requests, grants, owner>>
  BY <1>1 DEF RefuseRequest, stored
<1>2. ASSUME NEW l \in Lanes, NEW s \in Sessions, NEW id \in SubIds,
             NEW E \in SUBSET Entities, Subscribe(l, s, id, E)
      PROVE  UNCHANGED <<requests, grants, owner>>
  BY <1>2 DEF Subscribe, stored
<1>3. ASSUME NEW l \in Lanes, NEW s \in Sessions, NEW id \in SubIds, Unsubscribe(l, s, id)
      PROVE  UNCHANGED <<requests, grants, owner>>
  BY <1>3 DEF Unsubscribe, stored
<1>4. ASSUME NEW s \in Sessions, NEW c \in Consumers, Authenticate(s, c)
      PROVE  UNCHANGED <<requests, grants, owner>>
  BY <1>4 DEF Authenticate, stored
<1>5. ASSUME NEW s \in Sessions,
             \/ WebrtcOffer(s) \/ ClientConnected(s) \/ PeerLost(s)
             \/ ClientDisconnected(s)
      PROVE  UNCHANGED <<requests, grants, owner>>
  BY <1>5 DEF WebrtcOffer, ClientConnected, PeerLost, ClientDisconnected, stored
<1>6. ASSUME NEW l \in Lanes, BindSession(l)
      PROVE  UNCHANGED <<requests, grants, owner>>
  BY <1>6 DEF BindSession, stored
<1>7. ASSUME LinkLost \/ Tick \/ UNCHANGED vars
      PROVE  UNCHANGED <<requests, grants, owner>>
  BY <1>7 DEF LinkLost, Tick, vars, stored
<1> QED
  BY <1>1, <1>2, <1>3, <1>4, <1>5, <1>6, <1>7, NextCases, Zenon

\* Every step keeps grants and requests together.
LEMMA TraceStep ==
  ASSUME TraceInv, [Next]_vars
  PROVE  TraceInv'
<1>0. TypeOK /\ TypeOK'
  BY TypeStep DEF TraceInv
<1> USE DEF TraceInv
<1>1. ASSUME UNCHANGED <<grants, owner>>,
             \A q \in Requests : requests[q].status \in {"approved", "rejected"} =>
               /\ requests'[q].status \in {"approved", "rejected"}
               /\ requests'[q].consumer_pk = requests[q].consumer_pk
               /\ requests'[q].manifest = requests[q].manifest
      PROVE  TraceInv'
  <2>1. \A c \in Consumers : grants[c].request_id \in Requests \cup {None}
    BY <1>0 DEF TypeOK, GrantType
  <2>2. GrantTracesToRequest'
    BY <1>1, <2>1 DEF GrantTracesToRequest
  <2>3. CommandTraces'
    BY <1>1 DEF CommandTraces
  <2> QED BY <1>0, <2>2, <2>3
<1>2. ASSUME NEW l \in Lanes, NEW s \in Sessions, NEW c \in Consumers,
             NEW m \in Manifests, AccessRequest(l, s, c, m)
      PROVE  TraceInv'
  <2>1. \A q \in Requests : requests[q].status \in {"approved", "rejected"} =>
          requests'[q] = requests[q]
    BY <1>0, <1>2, FilingKeepsDecided
  <2>2. UNCHANGED <<grants, owner>>
    BY <1>2 DEF AccessRequest
  <2> QED BY <1>1, <2>1, <2>2
<1>3. ASSUME NEW r \in Requests, RejectRequest(r)
      PROVE  TraceInv'
  <2>1. UNCHANGED <<grants, owner>> /\ requests' = [requests EXCEPT ![r].status = "rejected"]
    BY <1>3 DEF RejectRequest
  <2> QED BY <1>0, <1>1, <2>1, DecidingKeepsScope
<1>4. ASSUME NEW o \in OwnerLanes, NEW r \in Requests, NEW t \in SUBSET Entities,
             NEW e \in 1..Never, ApproveRequest(o, r, t, e)
      PROVE  TraceInv'
  <2>1. requests' = [requests EXCEPT ![r].status = "approved"] /\ grants' = grants
    BY <1>4 DEF ApproveRequest
  <2>2. \A q \in Requests :
          /\ requests'[q].consumer_pk = requests[q].consumer_pk
          /\ requests'[q].manifest = requests[q].manifest
          /\ requests'[q].status = IF q = r THEN "approved" ELSE requests[q].status
    BY <1>0, <2>1, DecidingKeepsScope
  <2>3. GrantTracesToRequest'
    BY <1>0, <2>1, <2>2 DEF GrantTracesToRequest, TypeOK, GrantType
  <2>4. owner[o].op = "idle" /\ \A p \in OwnerLanes : owner'[p] =
          IF p = o THEN [op |-> "approve", key |-> requests[r].consumer_pk,
                         grant |-> [status |-> "active",
                                    manifest |-> requests[r].manifest \cap t, denied |-> {},
                                    expires_at |-> e, request_id |-> r]]
                   ELSE owner[p]
    BY <1>0, <1>4 DEF ApproveRequest, Command, TypeOK
  <2>5. CommandTraces'
    BY <2>2, <2>4 DEF CommandTraces
  <2> QED BY <1>0, <2>3, <2>5
<1>5. ASSUME NEW o \in OwnerLanes, WriteGrant(o)
      PROVE  TraceInv'
  <2>1. owner[o].op = "approve" /\ owner[o].key \in Consumers /\ requests' = requests
    BY <1>0, <1>5 DEF WriteGrant, TypeOK
  <2>2. \A c \in Consumers :
          grants'[c] = IF c = owner[o].key THEN owner[o].grant ELSE grants[c]
    BY <1>0, <1>5 DEF WriteGrant, TypeOK
  <2>3. GrantTracesToRequest'
    BY <2>1, <2>2 DEF GrantTracesToRequest, CommandTraces
  <2>4. \A p \in OwnerLanes : owner'[p] = IF p = o THEN NoCommand ELSE owner[p]
    BY <1>0, <1>5 DEF WriteGrant, Done, TypeOK
  <2>5. CommandTraces'
    BY <2>1, <2>4 DEF CommandTraces, NoCommand
  <2> QED BY <1>0, <2>3, <2>5
<1>6. ASSUME NEW o \in OwnerLanes, NEW c \in Consumers,
             \/ RevokeGrant(o, c) \/ DeleteGrant(o, c)
             \/ \E D \in Denials : SetGrantRestrictions(o, c, D)
      PROVE  TraceInv'
  <2>1. requests' = requests
    BY <1>6 DEF RevokeGrant, DeleteGrant, SetGrantRestrictions
  <2>2. \A d \in Consumers : grants'[d].request_id # None =>
          /\ grants'[d].request_id = grants[d].request_id
          /\ grants'[d].manifest = grants[d].manifest
    <3>1. CASE RevokeGrant(o, c)
      BY <1>0, <3>1 DEF RevokeGrant, TypeOK, GrantType
    <3>2. CASE DeleteGrant(o, c)
      BY <1>0, <3>2 DEF DeleteGrant, TypeOK, NoGrant
    <3>3. CASE \E D \in Denials : SetGrantRestrictions(o, c, D)
      BY <1>0, <3>3 DEF SetGrantRestrictions, TypeOK, GrantType
    <3> QED BY <1>6, <3>1, <3>2, <3>3
  <2>3. GrantTracesToRequest'
    BY <2>1, <2>2 DEF GrantTracesToRequest
  <2>4. \A p \in OwnerLanes : owner'[p].op = "approve" => owner'[p] = owner[p]
    BY <1>0, <1>6 DEF RevokeGrant, DeleteGrant, SetGrantRestrictions, Command, TypeOK
  <2>5. CommandTraces'
    BY <2>1, <2>4 DEF CommandTraces
  <2> QED BY <1>0, <2>3, <2>5
<1>7. ASSUME NEW c \in Consumers, NEW m \in Manifests, NEW D \in Denials,
             NEW e \in 1..Never, CreatePreapprovedGrant(c, m, D, e)
      PROVE  TraceInv'
  <2>1. requests' = requests /\ owner' = owner
    BY <1>7 DEF CreatePreapprovedGrant
  <2>2. \A d \in Consumers : grants'[d] = grants[d] \/ grants'[d].request_id = None
    BY <1>0, <1>7 DEF CreatePreapprovedGrant, TypeOK
  <2>3. GrantTracesToRequest'
    BY <2>1, <2>2 DEF GrantTracesToRequest
  <2>4. CommandTraces'
    BY <2>1 DEF CommandTraces
  <2> QED BY <1>0, <2>3, <2>4
<1>8. ASSUME NEW o \in OwnerLanes, CloseSessions(o) \/ ClearSubscriptions(o)
      PROVE  TraceInv'
  <2>1. requests' = requests /\ grants' = grants
    BY <1>8 DEF CloseSessions, ClearSubscriptions, stored
  <2>2. GrantTracesToRequest'
    BY <2>1 DEF GrantTracesToRequest
  <2>3. \A p \in OwnerLanes : owner'[p] = IF p = o THEN NoCommand ELSE owner[p]
    BY <1>0, <1>8 DEF CloseSessions, ClearSubscriptions, Done, TypeOK
  <2>4. CommandTraces'
    BY <2>1, <2>3 DEF CommandTraces, NoCommand
  <2> QED BY <1>0, <2>2, <2>4
<1>9. CASE UNCHANGED <<requests, grants, owner>>
  BY <1>1, <1>9
<1> QED
  BY <1>2, <1>3, <1>4, <1>5, <1>6, <1>7, <1>8, <1>9, StoreFrame, Zenon

\* A grant made by approval goes back to a decided request of its consumer
\* and holds no more than was asked, whatever owner and consumers do meanwhile.
THEOREM GrantsTrace == Spec => []GrantTracesToRequest
<1>1. Init => TraceInv
  BY TypeInit DEF Init, TraceInv, NoGrant, NoCommand, GrantTracesToRequest, CommandTraces
<1>2. TraceInv /\ [Next]_vars => TraceInv'
  BY TraceStep
<1>3. TraceInv => GrantTracesToRequest
  BY DEF TraceInv
<1> QED
  BY <1>1, <1>2, <1>3, PTL DEF Spec

-----------------------------------------------------------------------------
(* The pending slots. *)

SlotInv == TypeOK /\ PendingSlots

\* Fewer pending requests, of the same consumers, respect the slots as well.
LEMMA FewerPending ==
  ASSUME SlotInv,
         \A q \in Requests : requests'[q].status = "pending" =>
           /\ requests[q].status = "pending"
           /\ requests'[q].consumer_pk = requests[q].consumer_pk
  PROVE  PendingSlots'
<1>1. PendingIn(requests') \subseteq PendingIn(requests) /\ IsFiniteSet(PendingIn(requests))
  BY RequestsAssumption, FS_Subset DEF PendingIn
<1>2. Cardinality(PendingIn(requests')) <= MaxPending
  <2>1. /\ Cardinality(PendingIn(requests')) <= Cardinality(PendingIn(requests))
        /\ IsFiniteSet(PendingIn(requests'))
    BY <1>1, FS_Subset
  <2>2. Cardinality(PendingIn(requests)) \in Nat /\ Cardinality(PendingIn(requests')) \in Nat
    BY <1>1, <2>1, FS_CardinalityType
  <2> QED BY <2>1, <2>2, BoundAssumption DEF SlotInv, PendingSlots
<1>3. \A c \in Consumers : \A r1, r2 \in PendingOf(c)' : r1 = r2
  BY DEF SlotInv, PendingSlots, PendingOf, PendingIn
<1> QED
  BY <1>2, <1>3 DEF PendingSlots

\* Filing takes the consumer's own slot or a free one, and trims over the cap.
LEMMA FilingSlots ==
  ASSUME SlotInv, NEW l \in Lanes, NEW s \in Sessions, NEW c \in Consumers,
         NEW m \in Manifests, AccessRequest(l, s, c, m)
  PROVE  PendingSlots'
<1>0. TypeOK
  BY DEF SlotInv
<1>1. PICK r \in Requests :
        /\ IF PendingOf(c) = {} THEN requests[r].status = "none" ELSE r \in PendingOf(c)
        /\ requests' \in TrimPending([requests EXCEPT ![r] =
             [status |-> "pending", consumer_pk |-> c, manifest |-> m]], r)
  BY DEF AccessRequest
<1> DEFINE rs == [requests EXCEPT ![r] =
                    [status |-> "pending", consumer_pk |-> c, manifest |-> m]]
<1>2. /\ PendingIn(rs) = PendingIn(requests) \cup {r}
      /\ \A q \in Requests : rs[q] = IF q = r THEN [status |-> "pending", consumer_pk |-> c,
                                                    manifest |-> m]
                                              ELSE requests[q]
      /\ rs \in [Requests -> RequestType]
  BY <1>0, ScopeAssumption DEF TypeOK, PendingIn, RequestType, Statuses
<1>3. requests' \in TrimPending(rs, r)
  BY <1>1
<1> HIDE DEF rs
<1>4. \A q1, q2 \in PendingIn(rs) : rs[q1].consumer_pk = rs[q2].consumer_pk => q1 = q2
  BY <1>0, <1>1, <1>2 DEF SlotInv, PendingSlots, PendingOf, PendingIn, TypeOK
<1>5. /\ IsFiniteSet(PendingIn(requests)) /\ IsFiniteSet(PendingIn(rs))
      /\ Cardinality(PendingIn(requests)) \in Nat /\ Cardinality(PendingIn(rs)) \in Nat
      /\ Cardinality(PendingIn(rs)) <= MaxPending + 1
  <2>1. IsFiniteSet(PendingIn(requests))
    BY RequestsAssumption, FS_Subset DEF PendingIn
  <2>2. /\ IsFiniteSet(PendingIn(rs))
        /\ Cardinality(PendingIn(rs)) = IF r \in PendingIn(requests)
                                          THEN Cardinality(PendingIn(requests))
                                          ELSE Cardinality(PendingIn(requests)) + 1
    BY <1>2, <2>1, FS_AddElement
  <2>3. Cardinality(PendingIn(requests)) \in Nat /\ Cardinality(PendingIn(rs)) \in Nat
    BY <2>1, <2>2, FS_CardinalityType
  <2> QED BY <2>1, <2>2, <2>3, BoundAssumption DEF SlotInv, PendingSlots
<1>6. CASE requests' = rs /\ Cardinality(PendingIn(rs)) <= MaxPending
  BY <1>4, <1>6 DEF PendingSlots, PendingOf, PendingIn
<1>7. ASSUME NEW v \in PendingIn(rs), requests' = [rs EXCEPT ![v] = NoRequest]
      PROVE  PendingSlots'
  <2>1. /\ PendingIn(requests') = PendingIn(rs) \ {v}
        /\ \A q \in PendingIn(requests') : requests'[q] = rs[q]
    BY <1>2, <1>7 DEF PendingIn, NoRequest
  <2>2. Cardinality(PendingIn(requests')) = Cardinality(PendingIn(rs)) - 1
    BY <1>5, <1>7, <2>1, FS_RemoveElement
  <2>3. Cardinality(PendingIn(requests')) <= MaxPending
    BY <1>5, <2>2, BoundAssumption
  <2>4. \A d \in Consumers : \A r1, r2 \in PendingOf(d)' : r1 = r2
    BY <1>4, <2>1 DEF PendingOf
  <2> QED BY <2>3, <2>4 DEF PendingSlots
<1> QED
  BY <1>3, <1>6, <1>7 DEF TrimPending

\* Every step respects the slots.
LEMMA SlotStep ==
  ASSUME SlotInv, [Next]_vars
  PROVE  SlotInv'
<1>0. TypeOK /\ TypeOK'
  BY TypeStep DEF SlotInv
<1>1. ASSUME requests' = requests
      PROVE  SlotInv'
  BY <1>0, <1>1, FewerPending DEF SlotInv
<1>2. ASSUME NEW l \in Lanes, NEW s \in Sessions, NEW c \in Consumers,
             NEW m \in Manifests, AccessRequest(l, s, c, m)
      PROVE  SlotInv'
  BY <1>0, <1>2, FilingSlots DEF SlotInv
<1>3. ASSUME NEW r \in Requests, NEW v \in {"approved", "rejected"},
             requests' = [requests EXCEPT ![r].status = v]
      PROVE  SlotInv'
  <2>1. \A q \in Requests : requests'[q].status = "pending" =>
          /\ requests[q].status = "pending"
          /\ requests'[q].consumer_pk = requests[q].consumer_pk
    BY <1>0, <1>3, DecidingKeepsScope
  <2> QED BY <1>0, <2>1, FewerPending DEF SlotInv
<1>4. ASSUME NEW o \in OwnerLanes, NEW r \in Requests, NEW t \in SUBSET Entities,
             NEW e \in 1..Never, ApproveRequest(o, r, t, e)
      PROVE  SlotInv'
  BY <1>3, <1>4 DEF ApproveRequest
<1>5. ASSUME NEW r \in Requests, RejectRequest(r)
      PROVE  SlotInv'
  BY <1>3, <1>5 DEF RejectRequest
<1>6. ASSUME NEW o \in OwnerLanes, NEW c \in Consumers,
             \/ RevokeGrant(o, c) \/ DeleteGrant(o, c)
             \/ \E D \in Denials : SetGrantRestrictions(o, c, D)
      PROVE  SlotInv'
  BY <1>1, <1>6 DEF RevokeGrant, DeleteGrant, SetGrantRestrictions
<1>7. ASSUME NEW c \in Consumers, NEW m \in Manifests, NEW D \in Denials,
             NEW e \in 1..Never, CreatePreapprovedGrant(c, m, D, e)
      PROVE  SlotInv'
  BY <1>1, <1>7 DEF CreatePreapprovedGrant
<1>8. ASSUME NEW o \in OwnerLanes, WriteGrant(o)
      PROVE  SlotInv'
  BY <1>1, <1>8 DEF WriteGrant
<1>9. ASSUME NEW o \in OwnerLanes, CloseSessions(o) \/ ClearSubscriptions(o)
      PROVE  SlotInv'
  BY <1>1, <1>9 DEF CloseSessions, ClearSubscriptions, stored
<1>10. CASE UNCHANGED <<requests, grants, owner>>
  BY <1>1, <1>10
<1> QED
  BY <1>2, <1>4, <1>5, <1>6, <1>7, <1>8, <1>9, <1>10, StoreFrame, Zenon

\* A consumer never has two pending requests and the store never more than
\* the cap, for any number of consumers and any cap.
THEOREM SlotsBounded == Spec => []PendingSlots
<1>1. Init => SlotInv
  <2>1. ASSUME Init
        PROVE  SlotInv
    <3>1. PendingIn(requests) = {}
      BY <2>1 DEF Init, PendingIn, NoRequest
    <3>2. Cardinality(PendingIn(requests)) = 0
      BY <3>1, FS_EmptySet
    <3> QED BY <2>1, <3>1, <3>2, TypeInit, BoundAssumption DEF SlotInv, PendingSlots, PendingOf
  <2> QED BY <2>1
<1>2. SlotInv /\ [Next]_vars => SlotInv'
  BY SlotStep
<1>3. SlotInv => PendingSlots
  BY DEF SlotInv
<1> QED
  BY <1>1, <1>2, <1>3, PTL DEF Spec

-----------------------------------------------------------------------------
(* Feeds.  With one key per client, a session that was bound stays bound to  *)
(* the same key until it is discarded, and its subscriptions go with it.     *)

OneKeyPerSession == \A s \in Sessions : \A c, d \in KeysOf[s] : c = d

\* A bound session is bound to a key its client signs with.
BoundToOwnKey ==
  \A s \in Sessions : consumer_pk[s] # None => consumer_pk[s] \in KeysOf[s]

\* Only bound sessions hold subscriptions.
SubscribedBound ==
  \A s \in Sessions, id \in SubIds : subscriptions[s][id] # {} => consumer_pk[s] # None

\* An approval writes a grant without restrictions.
ApprovedUnrestricted ==
  \A o \in OwnerLanes : owner[o].op = "approve" =>
    owner[o].grant.status = "active" /\ owner[o].grant.denied = {}

BindingInv == TypeOK /\ BoundToOwnKey /\ SubscribedBound

FeedInv ==
  BindingInv /\ ApprovedUnrestricted /\ RevokedFeedsClosed /\ RestrictedFeedsCleared

\* The steps that touch a session's binding or its subscriptions.
LEMMA RuntimeFrame ==
  ASSUME [Next]_vars
  PROVE  \/ \E l \in Lanes, s \in Sessions, id \in SubIds, E \in SUBSET Entities :
              Subscribe(l, s, id, E)
         \/ \E l \in Lanes, s \in Sessions, id \in SubIds : Unsubscribe(l, s, id)
         \/ \E s \in Sessions : ClientDisconnected(s)
         \/ \E l \in Lanes : BindSession(l)
         \/ \E l \in Lanes, s \in Sessions : RefuseRequest(l, s)
         \/ \E o \in OwnerLanes : CloseSessions(o)
         \/ \E o \in OwnerLanes : ClearSubscriptions(o)
         \/ UNCHANGED runtime
<1>1. ASSUME NEW l \in Lanes, NEW s \in Sessions, NEW c \in Consumers,
             NEW m \in Manifests, AccessRequest(l, s, c, m)
      PROVE  UNCHANGED runtime
  BY <1>1 DEF AccessRequest
<1>2. ASSUME NEW s \in Sessions, NEW c \in Consumers, Authenticate(s, c)
      PROVE  UNCHANGED runtime
  BY <1>2 DEF Authenticate
<1>3. ASSUME NEW s \in Sessions, WebrtcOffer(s) \/ ClientConnected(s) \/ PeerLost(s)
      PROVE  UNCHANGED runtime
  BY <1>3 DEF WebrtcOffer, ClientConnected, PeerLost
<1>4. ASSUME NEW o \in OwnerLanes, NEW r \in Requests, NEW t \in SUBSET Entities,
             NEW e \in 1..Never, ApproveRequest(o, r, t, e)
      PROVE  UNCHANGED runtime
  BY <1>4 DEF ApproveRequest
<1>5. ASSUME NEW o \in OwnerLanes, NEW c \in Consumers, RevokeGrant(o, c) \/ DeleteGrant(o, c)
      PROVE  UNCHANGED runtime
  BY <1>5 DEF RevokeGrant, DeleteGrant
<1>6. ASSUME NEW o \in OwnerLanes, NEW c \in Consumers, NEW D \in Denials,
             SetGrantRestrictions(o, c, D)
      PROVE  UNCHANGED runtime
  BY <1>6 DEF SetGrantRestrictions
<1>7. ASSUME NEW r \in Requests, RejectRequest(r)
      PROVE  UNCHANGED runtime
  BY <1>7 DEF RejectRequest
<1>8. ASSUME NEW c \in Consumers, NEW m \in Manifests, NEW D \in Denials,
             NEW e \in 1..Never, CreatePreapprovedGrant(c, m, D, e)
      PROVE  UNCHANGED runtime
  BY <1>8 DEF CreatePreapprovedGrant
<1>9. ASSUME NEW o \in OwnerLanes, WriteGrant(o)
      PROVE  UNCHANGED runtime
  BY <1>9 DEF WriteGrant
<1>10. ASSUME LinkLost \/ Tick \/ UNCHANGED vars
       PROVE  UNCHANGED runtime
  BY <1>10 DEF LinkLost, Tick, vars
<1> QED
  BY <1>1, <1>2, <1>3, <1>4, <1>5, <1>6, <1>7, <1>8, <1>9, <1>10, NextCases, Zenon

\* Bindings and subscriptions stay as they should.
LEMMA BindingStep ==
  ASSUME BindingInv, [Next]_vars
  PROVE  BindingInv'
<1>0. TypeOK /\ TypeOK'
  BY TypeStep DEF BindingInv
<1>1. CASE UNCHANGED runtime
  BY <1>0, <1>1 DEF BindingInv, BoundToOwnKey, SubscribedBound, runtime
<1>2. ASSUME NEW l \in Lanes, NEW s \in Sessions, NEW id \in SubIds,
             NEW E \in SUBSET Entities,
             Subscribe(l, s, id, E) \/ Unsubscribe(l, s, id)
      PROVE  BindingInv'
  <2>1. consumer_pk' = consumer_pk /\ consumer_pk[s] # None
    BY <1>2 DEF Subscribe, Unsubscribe, Admitted, RequireGrant
  <2>2. \A q \in Sessions : q # s => subscriptions'[q] = subscriptions[q]
    BY <1>0, <1>2 DEF Subscribe, Unsubscribe, TypeOK
  <2> QED BY <1>0, <2>1, <2>2 DEF BindingInv, BoundToOwnKey, SubscribedBound
<1>3. ASSUME NEW l \in Lanes, NEW s \in Sessions, NEW id \in SubIds, Unsubscribe(l, s, id)
      PROVE  BindingInv'
  BY <1>2, <1>3
<1>4. ASSUME NEW s \in Sessions, ClientDisconnected(s)
      PROVE  BindingInv'
  <2>1. \A q \in Sessions :
          IF q = s THEN consumer_pk'[q] = None /\ \A id \in SubIds : subscriptions'[q][id] = {}
                   ELSE consumer_pk'[q] = consumer_pk[q] /\ subscriptions'[q] = subscriptions[q]
    BY <1>0, <1>4 DEF ClientDisconnected, TypeOK, NoSubs
  <2> QED BY <1>0, <2>1 DEF BindingInv, BoundToOwnKey, SubscribedBound
<1>5. ASSUME NEW l \in Lanes, BindSession(l)
      PROVE  BindingInv'
  <2>1. lane[l].session \in Sessions /\ lane[l].key \in KeysOf[lane[l].session]
    BY <1>0, <1>5 DEF BindSession, TypeOK
  <2>2. lane[l].key # None
    BY <2>1, KeysAssumption, NoneAssumption
  <2>3. subscriptions' = subscriptions /\ \A q \in Sessions :
          consumer_pk'[q] = IF q = lane[l].session THEN lane[l].key ELSE consumer_pk[q]
    BY <1>0, <1>5 DEF BindSession, TypeOK
  <2> QED BY <1>0, <2>1, <2>2, <2>3 DEF BindingInv, BoundToOwnKey, SubscribedBound
<1>6. ASSUME NEW l \in Lanes, NEW s \in Sessions, RefuseRequest(l, s)
      PROVE  BindingInv'
  BY <1>0, <1>6 DEF BindingInv, BoundToOwnKey, SubscribedBound, RefuseRequest
<1>7. ASSUME NEW o \in OwnerLanes, CloseSessions(o)
      PROVE  BindingInv'
  BY <1>0, <1>7 DEF BindingInv, BoundToOwnKey, SubscribedBound, CloseSessions
<1>8. ASSUME NEW o \in OwnerLanes, ClearSubscriptions(o)
      PROVE  BindingInv'
  <2>1. consumer_pk' = consumer_pk /\ \A q \in Sessions, id \in SubIds :
          subscriptions'[q][id] = {} \/ subscriptions'[q][id] = subscriptions[q][id]
    BY <1>0, <1>8 DEF ClearSubscriptions, TypeOK, NoSubs
  <2> QED BY <1>0, <2>1 DEF BindingInv, BoundToOwnKey, SubscribedBound
<1> QED
  BY <1>1, <1>2, <1>3, <1>4, <1>5, <1>6, <1>7, <1>8, RuntimeFrame, Zenon

\* Where a feed comes from: it ran before, under the same key, or it starts
\* with this step, by a subscription that found an active grant covering it.
LEMMA FeedOrigin ==
  ASSUME OneKeyPerSession, BindingInv, [Next]_vars,
         NEW s \in Sessions, NEW e \in Entities, Feeds(s, e)'
  PROVE  /\ consumer_pk[s] \in Consumers /\ consumer_pk'[s] = consumer_pk[s]
         /\ \/ Feeds(s, e)
            \/ /\ UNCHANGED <<grants, owner>>
               /\ grants[consumer_pk[s]].status = "active"
               /\ e \notin grants[consumer_pk[s]].denied
<1>0. TypeOK /\ TypeOK' /\ BindingInv'
  BY BindingStep, TypeStep DEF BindingInv
<1>1. ~closed'[s] /\ \E id \in SubIds : e \in subscriptions'[s][id]
  BY DEF Feeds, Recipients
<1>2. consumer_pk'[s] \in Consumers
  BY <1>0, <1>1 DEF BindingInv, SubscribedBound, TypeOK
<1>3. ASSUME subscriptions'[s] = subscriptions[s], ~closed[s], consumer_pk'[s] = consumer_pk[s]
      PROVE  Feeds(s, e) /\ consumer_pk[s] \in Consumers
  BY <1>1, <1>2, <1>3 DEF Feeds, Recipients
<1>4. CASE UNCHANGED runtime
  BY <1>1, <1>3, <1>4 DEF runtime
<1>5. ASSUME NEW l \in Lanes, NEW q \in Sessions, NEW id \in SubIds,
             NEW E \in SUBSET Entities, Subscribe(l, q, id, E)
      PROVE  /\ consumer_pk[s] \in Consumers /\ consumer_pk'[s] = consumer_pk[s]
             /\ \/ Feeds(s, e)
                \/ /\ UNCHANGED <<grants, owner>>
                   /\ grants[consumer_pk[s]].status = "active"
                   /\ e \notin grants[consumer_pk[s]].denied
  <2>1. consumer_pk' = consumer_pk /\ closed' = closed /\ UNCHANGED <<grants, owner>>
    BY <1>5 DEF Subscribe, stored
  <2>2. CASE e \in subscriptions[s][id] \/ s # q
    <3>1. \E i \in SubIds : e \in subscriptions[s][i]
      BY <1>0, <1>1, <1>5, <2>2 DEF Subscribe, TypeOK
    <3> QED BY <1>1, <1>2, <2>1, <3>1 DEF Feeds, Recipients
  <2>3. CASE s = q /\ \E i \in SubIds : i # id /\ e \in subscriptions'[s][i]
    <3>1. \E i \in SubIds : e \in subscriptions[s][i]
      BY <1>0, <1>5, <2>3 DEF Subscribe, TypeOK
    <3> QED BY <1>1, <1>2, <2>1, <3>1 DEF Feeds, Recipients
  <2>4. CASE s = q /\ e \in subscriptions'[s][id]
    <3>1. e \in E
      BY <1>0, <1>5, <2>4 DEF Subscribe, TypeOK
    <3>2. ActiveGrant(consumer_pk[s]) /\ e \in Scope(consumer_pk[s])
      BY <1>5, <2>4, <3>1, <1>1, <1>2, <2>1, NoneAssumption DEF Subscribe, Admitted, RequireGrant
    <3> QED BY <1>2, <2>1, <3>2 DEF ActiveGrant, Scope
  <2> QED BY <1>1, <2>2, <2>3, <2>4
<1>6. ASSUME NEW l \in Lanes, NEW q \in Sessions, NEW id \in SubIds, Unsubscribe(l, q, id)
      PROVE  /\ consumer_pk[s] \in Consumers /\ consumer_pk'[s] = consumer_pk[s]
             /\ Feeds(s, e)
  <2>1. consumer_pk' = consumer_pk /\ closed' = closed
    BY <1>6 DEF Unsubscribe
  <2>2. \A i \in SubIds : subscriptions'[s][i] \subseteq subscriptions[s][i]
    BY <1>0, <1>6 DEF Unsubscribe, TypeOK
  <2> QED BY <1>1, <1>2, <2>1, <2>2 DEF Feeds, Recipients
<1>7. ASSUME NEW q \in Sessions, ClientDisconnected(q)
      PROVE  /\ consumer_pk[s] \in Consumers /\ consumer_pk'[s] = consumer_pk[s]
             /\ Feeds(s, e)
  <2>1. s # q
    BY <1>0, <1>1, <1>7 DEF ClientDisconnected, TypeOK, NoSubs
  <2> QED BY <1>0, <1>1, <1>3, <1>7, <2>1 DEF ClientDisconnected, TypeOK
<1>8. ASSUME NEW l \in Lanes, BindSession(l)
      PROVE  /\ consumer_pk[s] \in Consumers /\ consumer_pk'[s] = consumer_pk[s]
             /\ Feeds(s, e)
  <2>1. subscriptions' = subscriptions /\ closed' = closed
    BY <1>8 DEF BindSession
  <2>2. consumer_pk[s] # None
    BY <1>1, <2>1 DEF BindingInv, SubscribedBound
  <2>3. consumer_pk[s] \in KeysOf[s] /\ consumer_pk'[s] \in KeysOf[s]
    BY <1>0, <1>2, <2>2, NoneAssumption DEF BindingInv, BoundToOwnKey
  <2>4. consumer_pk'[s] = consumer_pk[s]
    BY <2>3 DEF OneKeyPerSession
  <2> QED BY <1>1, <1>3, <2>1, <2>4
<1>9. ASSUME NEW l \in Lanes, NEW q \in Sessions, RefuseRequest(l, q)
      PROVE  /\ consumer_pk[s] \in Consumers /\ consumer_pk'[s] = consumer_pk[s]
             /\ Feeds(s, e)
  BY <1>0, <1>1, <1>3, <1>9 DEF RefuseRequest, TypeOK
<1>10. ASSUME NEW o \in OwnerLanes, CloseSessions(o)
      PROVE  /\ consumer_pk[s] \in Consumers /\ consumer_pk'[s] = consumer_pk[s]
             /\ Feeds(s, e)
  BY <1>0, <1>1, <1>3, <1>10 DEF CloseSessions, TypeOK
<1>11. ASSUME NEW o \in OwnerLanes, ClearSubscriptions(o)
      PROVE  /\ consumer_pk[s] \in Consumers /\ consumer_pk'[s] = consumer_pk[s]
             /\ Feeds(s, e)
  <2>1. subscriptions'[s] = subscriptions[s] \/ subscriptions'[s] = NoSubs
    BY <1>0, <1>11 DEF ClearSubscriptions
  <2>2. subscriptions'[s] = subscriptions[s]
    BY <1>1, <2>1 DEF NoSubs
  <2> QED BY <1>1, <1>3, <1>11, <2>2 DEF ClearSubscriptions
<1> QED
  BY <1>3, <1>4, <1>5, <1>6, <1>7, <1>8, <1>9, <1>10, <1>11, RuntimeFrame, Zenon

\* What owner commands a step can discharge, and what it can do to a grant.
LEMMA GrantStep ==
  ASSUME FeedInv, [Next]_vars, NEW c \in Consumers
  PROVE  /\ Owed("close", c) => \/ Owed("close", c)'
                                \/ closed' = [s \in Sessions |-> closed[s] \/ consumer_pk[s] = c]
         /\ Owed("clear", c) => \/ Owed("clear", c)'
                                \/ subscriptions' = [s \in Sessions |->
                                     IF consumer_pk[s] = c THEN NoSubs ELSE subscriptions[s]]
         /\ grants'[c].status = "active" \/ grants'[c].status = grants[c].status
              \/ Owed("close", c)'
         /\ \/ grants'[c].denied \subseteq grants[c].denied \/ Owed("clear", c)'
            \/ \A s \in Sessions : consumer_pk'[s] # c
<1> DEFINE Q == /\ Owed("close", c) =>
                     \/ Owed("close", c)'
                     \/ closed' = [s \in Sessions |-> closed[s] \/ consumer_pk[s] = c]
                /\ Owed("clear", c) =>
                     \/ Owed("clear", c)'
                     \/ subscriptions' = [s \in Sessions |->
                          IF consumer_pk[s] = c THEN NoSubs ELSE subscriptions[s]]
                /\ grants'[c].status = "active" \/ grants'[c].status = grants[c].status
                     \/ Owed("close", c)'
                /\ \/ grants'[c].denied \subseteq grants[c].denied \/ Owed("clear", c)'
                   \/ \A s \in Sessions : consumer_pk'[s] # c
<1>0. TypeOK
  BY DEF FeedInv, BindingInv
<1>1. ASSUME NEW l \in Lanes, NEW s \in Sessions, NEW d \in Consumers,
             NEW m \in Manifests, AccessRequest(l, s, d, m)
      PROVE  Q
  BY <1>1 DEF AccessRequest, Owed
<1>2. ASSUME NEW o \in OwnerLanes, NEW r \in Requests, NEW t \in SUBSET Entities,
             NEW e \in 1..Never, ApproveRequest(o, r, t, e)
      PROVE  Q
  <2>1. \A op \in {"close", "clear"} : Owed(op, c) => Owed(op, c)'
    BY <1>0, <1>2 DEF ApproveRequest, Command, Owed, TypeOK
  <2>2. grants' = grants
    BY <1>2 DEF ApproveRequest
  <2> QED BY <2>1, <2>2
<1>3. ASSUME NEW o \in OwnerLanes, NEW d \in Consumers, RevokeGrant(o, d) \/ DeleteGrant(o, d)
      PROVE  Q
  <2>1. \A op \in {"close", "clear"} : Owed(op, c) => Owed(op, c)'
    BY <1>0, <1>3 DEF RevokeGrant, DeleteGrant, Command, Owed, TypeOK
  <2>2. CASE c = d
    <3>1. Owed("close", c)'
      BY <1>0, <1>3, <2>2 DEF RevokeGrant, DeleteGrant, Command, Owed, TypeOK
    <3>2. grants'[c].denied \subseteq grants[c].denied
      <4>1. grants \in [Consumers -> GrantType] BY <1>0 DEF TypeOK
      <4>2. CASE RevokeGrant(o, d)
        <5>1. grants'[c] = [grants[c] EXCEPT !.status = "revoked"]
          BY <4>1, <4>2, <2>2 DEF RevokeGrant
        <5>2. grants[c] \in GrantType BY <4>1
        <5> QED BY <5>1, <5>2 DEF GrantType
      <4>3. CASE DeleteGrant(o, d)
        <5>1. grants'[c] = NoGrant
          BY <4>1, <4>3, <2>2 DEF DeleteGrant
        <5> QED BY <5>1 DEF NoGrant
      <4> QED BY <1>3, <4>2, <4>3
    <3> QED BY <2>1, <3>1, <3>2
  <2>3. CASE c # d
    <3>1. grants'[c] = grants[c]
      BY <1>0, <1>3, <2>3 DEF RevokeGrant, DeleteGrant, TypeOK
    <3> QED BY <2>1, <3>1
  <2> QED BY <2>2, <2>3
<1>4. ASSUME NEW o \in OwnerLanes, NEW d \in Consumers, NEW D \in Denials,
             SetGrantRestrictions(o, d, D)
      PROVE  Q
  <2>1. \A op \in {"close", "clear"} : Owed(op, c) => Owed(op, c)'
    BY <1>0, <1>4 DEF SetGrantRestrictions, Command, Owed, TypeOK
  <2>2. c = d => Owed("clear", c)'
    BY <1>0, <1>4 DEF SetGrantRestrictions, Command, Owed, TypeOK
  <2>3. grants'[c].status = grants[c].status /\ (c # d => grants'[c] = grants[c])
    BY <1>0, <1>4 DEF SetGrantRestrictions, TypeOK, GrantType
  <2> QED BY <2>1, <2>2, <2>3
<1>5. ASSUME NEW r \in Requests, RejectRequest(r)
      PROVE  Q
  BY <1>5 DEF RejectRequest, Owed
<1>6. ASSUME NEW d \in Consumers, NEW m \in Manifests, NEW D \in Denials,
             NEW e \in 1..Never, CreatePreapprovedGrant(d, m, D, e)
      PROVE  Q
  <2>1. owner' = owner
    BY <1>6 DEF CreatePreapprovedGrant
  <2>2. CASE c = d
    <3>1. grants'[c].status = "active"
      BY <1>0, <1>6, <2>2 DEF CreatePreapprovedGrant, TypeOK
    <3>2. \A s \in Sessions : consumer_pk'[s] # c
      BY <1>6, <2>2 DEF CreatePreapprovedGrant, runtime
    <3> QED BY <2>1, <3>1, <3>2 DEF Owed
  <2>3. CASE c # d
    <3>1. grants'[c] = grants[c]
      BY <1>0, <1>6, <2>3 DEF CreatePreapprovedGrant, TypeOK
    <3> QED BY <2>1, <3>1 DEF Owed
  <2> QED BY <2>2, <2>3
<1>7. ASSUME NEW o \in OwnerLanes, WriteGrant(o)
      PROVE  Q
  <2>1. \A op \in {"close", "clear"} : Owed(op, c) => Owed(op, c)'
    BY <1>0, <1>7 DEF WriteGrant, Done, Owed, TypeOK
  <2>2. owner[o].grant.status = "active" /\ owner[o].grant.denied = {}
    BY <1>7 DEF WriteGrant, FeedInv, ApprovedUnrestricted
  <2>3. grants'[c] = IF c = owner[o].key THEN owner[o].grant ELSE grants[c]
    BY <1>0, <1>7 DEF WriteGrant, TypeOK
  <2> QED BY <2>1, <2>2, <2>3
<1>8. ASSUME NEW o \in OwnerLanes, CloseSessions(o)
      PROVE  Q
  <2>1. Owed("clear", c) => Owed("clear", c)'
    BY <1>0, <1>8 DEF CloseSessions, Done, Owed, TypeOK
  <2>2. CASE owner[o].key = c
    BY <1>8, <2>1, <2>2 DEF CloseSessions, stored
  <2>3. CASE owner[o].key # c
    <3>1. Owed("close", c) => Owed("close", c)'
      BY <1>0, <1>8, <2>3 DEF CloseSessions, Done, Owed, TypeOK
    <3> QED BY <1>8, <2>1, <3>1 DEF CloseSessions, stored
  <2> QED BY <2>2, <2>3
<1>9. ASSUME NEW o \in OwnerLanes, ClearSubscriptions(o)
      PROVE  Q
  <2>1. Owed("close", c) => Owed("close", c)'
    BY <1>0, <1>9 DEF ClearSubscriptions, Done, Owed, TypeOK
  <2>2. CASE owner[o].key = c
    BY <1>9, <2>1, <2>2 DEF ClearSubscriptions, stored
  <2>3. CASE owner[o].key # c
    <3>1. Owed("clear", c) => Owed("clear", c)'
      BY <1>0, <1>9, <2>3 DEF ClearSubscriptions, Done, Owed, TypeOK
    <3> QED BY <1>9, <2>1, <3>1 DEF ClearSubscriptions, stored
  <2> QED BY <2>2, <2>3
<1>10. ASSUME UNCHANGED <<requests, grants, owner>>
       PROVE  Q
  BY <1>10 DEF Owed
<1> HIDE DEF Q
<1>11. Q
  BY <1>1, <1>2, <1>3, <1>4, <1>5, <1>6, <1>7, <1>8, <1>9, <1>10, StoreFrame, Zenon
<1> QED
  BY <1>11 DEF Q

\* Every step keeps feeds within their grants.
LEMMA FeedStep ==
  ASSUME OneKeyPerSession, FeedInv, [Next]_vars
  PROVE  FeedInv'
<1>0. TypeOK /\ TypeOK' /\ BindingInv /\ BindingInv'
  BY BindingStep DEF FeedInv, BindingInv
<1>1. ApprovedUnrestricted'
  <2>1. ASSUME NEW o \in OwnerLanes, owner'[o].op = "approve"
        PROVE  \/ owner'[o] = owner[o]
               \/ owner'[o].grant.status = "active" /\ owner'[o].grant.denied = {}
    <3>1. ASSUME NEW p \in OwnerLanes, NEW r \in Requests, NEW t \in SUBSET Entities,
                 NEW e \in 1..Never, ApproveRequest(p, r, t, e)
          PROVE  \/ owner'[o] = owner[o]
                 \/ owner'[o].grant.status = "active" /\ owner'[o].grant.denied = {}
      BY <1>0, <3>1 DEF ApproveRequest, Command, TypeOK
    <3>2. ASSUME NEW p \in OwnerLanes, NEW c \in Consumers,
                 \/ RevokeGrant(p, c) \/ DeleteGrant(p, c)
                 \/ \E D \in Denials : SetGrantRestrictions(p, c, D)
          PROVE  owner'[o] = owner[o]
      BY <1>0, <2>1, <3>2 DEF RevokeGrant, DeleteGrant, SetGrantRestrictions, Command, TypeOK
    <3>3. ASSUME NEW p \in OwnerLanes,
                 WriteGrant(p) \/ CloseSessions(p) \/ ClearSubscriptions(p)
          PROVE  owner'[o] = owner[o]
      BY <1>0, <2>1, <3>3
         DEF WriteGrant, CloseSessions, ClearSubscriptions, Done, NoCommand, TypeOK
    <3>4. ASSUME NEW l \in Lanes, NEW s \in Sessions, NEW c \in Consumers,
                 NEW m \in Manifests, AccessRequest(l, s, c, m)
          PROVE  owner'[o] = owner[o]
      BY <3>4 DEF AccessRequest
    <3>5. ASSUME NEW r \in Requests, RejectRequest(r)
          PROVE  owner'[o] = owner[o]
      BY <3>5 DEF RejectRequest
    <3>6. ASSUME NEW c \in Consumers, NEW m \in Manifests, NEW D \in Denials,
                 NEW e \in 1..Never, CreatePreapprovedGrant(c, m, D, e)
          PROVE  owner'[o] = owner[o]
      BY <3>6 DEF CreatePreapprovedGrant
    <3>7. CASE UNCHANGED <<requests, grants, owner>>
      BY <3>7
    <3> QED
      BY <3>1, <3>2, <3>3, <3>4, <3>5, <3>6, <3>7, StoreFrame, Zenon
  <2> QED BY <2>1 DEF FeedInv, ApprovedUnrestricted
<1>2. ASSUME NEW s \in Sessions, NEW e \in Entities, Feeds(s, e)'
      PROVE  /\ consumer_pk'[s] \in Consumers
             /\ grants'[consumer_pk'[s]].status # "active" => Owed("close", consumer_pk[s])'
             /\ e \in grants'[consumer_pk'[s]].denied => Owed("clear", consumer_pk[s])'
  <2>1. PICK c \in Consumers :
        /\ consumer_pk[s] = c /\ consumer_pk'[s] = c
        /\ \/ Feeds(s, e)
           \/ /\ UNCHANGED <<grants, owner>>
              /\ grants[c].status = "active" /\ e \notin grants[c].denied
    BY <1>0, <1>2, FeedOrigin
  <2>2. ~closed'[s] /\ \E id \in SubIds : e \in subscriptions'[s][id]
    BY <1>2 DEF Feeds, Recipients
  <2>3. closed' # [q \in Sessions |-> closed[q] \/ consumer_pk[q] = c]
    BY <2>1, <2>2
  <2>4. subscriptions' # [q \in Sessions |->
                            IF consumer_pk[q] = c THEN NoSubs ELSE subscriptions[q]]
    BY <2>1, <2>2 DEF NoSubs
  <2>5. Feeds(s, e) => /\ grants[c].status # "active" => Owed("close", c)
                       /\ e \in grants[c].denied => Owed("clear", c)
    BY <2>1 DEF FeedInv, RevokedFeedsClosed, RestrictedFeedsCleared
  <2>6. /\ Owed("close", c) => Owed("close", c)'
        /\ Owed("clear", c) => Owed("clear", c)'
        /\ grants'[c].status = "active" \/ grants'[c].status = grants[c].status
             \/ Owed("close", c)'
        /\ grants'[c].denied \subseteq grants[c].denied \/ Owed("clear", c)'
    BY <2>1, <2>3, <2>4, GrantStep
  <2> QED BY <2>1, <2>5, <2>6 DEF Owed
<1>3. RevokedFeedsClosed' /\ RestrictedFeedsCleared'
  BY <1>2, NoneAssumption DEF RevokedFeedsClosed, RestrictedFeedsCleared
<1> QED
  BY <1>0, <1>1, <1>3 DEF FeedInv

LEMMA FeedInit == Init => FeedInv
BY TypeInit DEF Init, FeedInv, BindingInv, BoundToOwnKey, SubscribedBound, NoSubs, NoCommand,
   ApprovedUnrestricted, RevokedFeedsClosed, RestrictedFeedsCleared, Feeds, Recipients

\* No feed survives a completed revoke_grant or delete_grant, for any number of
\* sessions, consumers, datachannels and concurrent commands.
THEOREM RevokedFeeds ==
  ASSUME OneKeyPerSession
  PROVE  Spec => []RevokedFeedsClosed
<1>1. FeedInv /\ [Next]_vars => FeedInv'
  BY FeedStep
<1>2. FeedInv => RevokedFeedsClosed
  BY DEF FeedInv
<1> QED
  BY <1>1, <1>2, FeedInit, PTL DEF Spec

\* No feed of a denied entity survives a completed set_grant_restrictions.
THEOREM RestrictedFeeds ==
  ASSUME OneKeyPerSession
  PROVE  Spec => []RestrictedFeedsCleared
<1>1. FeedInv /\ [Next]_vars => FeedInv'
  BY FeedStep
<1>2. FeedInv => RestrictedFeedsCleared
  BY DEF FeedInv
<1> QED
  BY <1>1, <1>2, FeedInit, PTL DEF Spec

-----------------------------------------------------------------------------
(* Authority implements ScopedFeeds.  Each lemma takes the actions that look *)
(* alike from there, and says which of its steps they are.                   *)

Stays == UNCHANGED Promised!vars

\* What the mapped state depends on.
LEMMA CoveredKept == UNCHANGED <<now, grants>> => UNCHANGED Covered
BY DEF Covered, ActiveGrant, GrantExpired, Scope

LEMMA StreamsKept == UNCHANGED <<closed, subscriptions>> => UNCHANGED Streams
BY DEF Streams, Feeds, Recipients

LEMMA DueKept == UNCHANGED owner => UNCHANGED Due
BY DEF Due, Owed

CoveredTyped == Covered \in [Consumers -> SUBSET Entities]

LEMMA CoveredType == TypeOK => CoveredTyped
<1>1. ASSUME TypeOK, NEW c \in Consumers PROVE Scope(c) \subseteq Entities
  BY <1>1 DEF TypeOK, GrantType, Scope
<1>2. QED BY <1>1 DEF Covered, CoveredTyped

LEMMA CoveredTypeNext == TypeOK' => CoveredTyped'
BY CoveredType, PTL

\* What streams to a session.
LEMMA StreamsIs ==
  /\ Streams \in [Sessions -> SUBSET Entities]
  /\ \A s \in Sessions, e \in Entities :
       e \in Streams[s] <=> ~closed[s] /\ \E id \in SubIds : e \in subscriptions[s][id]
BY DEF Streams, Feeds, Recipients

\* A session takes up other entities, or some less, or none.
LEMMA Followed ==
  ASSUME BindingInv, NEW l \in Lanes, NEW s \in Sessions, NEW id \in SubIds,
         NEW E \in SUBSET Entities, Subscribe(l, s, id, E)
  PROVE  Promised!Next
<1>0. TypeOK BY DEF BindingInv
<1> DEFINE kept == {e \in Streams[s] : \E i \in SubIds : i # id /\ e \in subscriptions[s][i]}
<1>1. consumer_pk[s] \in Consumers /\ ~closed[s] /\ ActiveGrant(consumer_pk[s])
  BY <1>0 DEF Subscribe, Admitted, RequireGrant, TypeOK
<1>2. E \subseteq Covered[consumer_pk[s]] BY <1>1 DEF Subscribe, Covered
<1>3. UNCHANGED <<Covered, Due, consumer_pk, closed>>
  BY CoveredKept, DueKept DEF Subscribe, stored
<1>4. \A q \in Sessions, i \in SubIds :
        subscriptions'[q][i] = IF q = s /\ i = id THEN E ELSE subscriptions[q][i]
  BY <1>0 DEF Subscribe, TypeOK
<1>5. \A q \in Sessions : q # s => Streams'[q] = Streams[q]
  BY <1>3, <1>4 DEF Streams, Feeds, Recipients
<1>6. Streams'[s] = kept \cup E
  <2>1. \A e \in Entities : e \in Streams'[s] <=> \E i \in SubIds : e \in subscriptions'[s][i]
    BY <1>1, <1>3 DEF Streams, Feeds, Recipients
  <2>2. \A e \in Entities : e \in kept <=> \E i \in SubIds : i # id /\ e \in subscriptions[s][i]
    BY <1>1, StreamsIs
  <2>3. Streams'[s] \subseteq Entities /\ kept \subseteq Entities
    BY StreamsIs DEF Streams
  <2> HIDE DEF kept
  <2>4. \A e \in Entities : e \in Streams'[s] <=> e \in kept \cup E BY <1>4, <2>1, <2>2
  <2>5. QED BY <2>3, <2>4
<1>7. kept \in SUBSET Streams[s] OBVIOUS
<1> HIDE DEF kept
<1>8. Streams' = [Streams EXCEPT ![s] = kept \cup E]
  BY <1>5, <1>6, StreamsIs DEF Streams
<1>9. Promised!Follow(s, E)
  BY <1>1, <1>2, <1>3, <1>7, <1>8, NoneAssumption DEF Promised!Follow
<1>10. QED BY <1>9 DEF Promised!Next

LEMMA Dropped ==
  ASSUME NEW s \in Sessions, UNCHANGED <<Covered, Due, consumer_pk>>,
         Streams'[s] \subseteq Streams[s], \A q \in Sessions : q # s => Streams'[q] = Streams[q]
  PROVE  Promised!Next
<1>1. Streams' = [q \in Sessions |-> Streams'[q]] BY DEF Streams
<1>2. Streams' = [Streams EXCEPT ![s] = Streams'[s]] BY <1>1, StreamsIs
<1>3. Promised!Drop(s) BY <1>2 DEF Promised!Drop
<1>4. QED BY <1>3 DEF Promised!Next

LEMMA FewerFollowed ==
  ASSUME BindingInv, NEW l \in Lanes, NEW s \in Sessions,
         \/ \E id \in SubIds : Unsubscribe(l, s, id)
         \/ RefuseRequest(l, s)
  PROVE  Promised!Next
<1>0. TypeOK BY DEF BindingInv
<1>1. UNCHANGED <<Covered, Due, consumer_pk>>
  BY CoveredKept, DueKept DEF Unsubscribe, RefuseRequest, stored
<1>2. ASSUME NEW id \in SubIds, Unsubscribe(l, s, id) PROVE Promised!Next
  <2>1. closed' = closed BY <1>2 DEF Unsubscribe
  <2>2. \A q \in Sessions, i \in SubIds :
          subscriptions'[q][i] = IF q = s /\ i = id THEN {} ELSE subscriptions[q][i]
    BY <1>0, <1>2 DEF Unsubscribe, TypeOK
  <2>3. \A q \in Sessions : q # s => Streams'[q] = Streams[q]
    BY <2>1, <2>2 DEF Streams, Feeds, Recipients
  <2>4. Streams'[s] \subseteq Streams[s] BY <2>1, <2>2 DEF Streams, Feeds, Recipients
  <2>5. QED BY <1>1, <2>3, <2>4, Dropped
<1>3. ASSUME RefuseRequest(l, s) PROVE Promised!Next
  <2>1. subscriptions' = subscriptions BY <1>3 DEF RefuseRequest
  <2>2. \A q \in Sessions : closed'[q] = IF q = s THEN TRUE ELSE closed[q]
    BY <1>0, <1>3 DEF RefuseRequest, TypeOK
  <2>3. \A q \in Sessions : q # s => Streams'[q] = Streams[q]
    BY <2>1, <2>2 DEF Streams, Feeds, Recipients
  <2>4. Streams'[s] \subseteq Streams[s] BY <2>1, <2>2 DEF Streams, Feeds, Recipients
  <2>5. QED BY <1>1, <2>3, <2>4, Dropped
<1>4. QED BY <1>2, <1>3

LEMMA Left ==
  ASSUME BindingInv, NEW s \in Sessions, ClientDisconnected(s)
  PROVE  Promised!Next
<1>0. TypeOK BY DEF BindingInv
<1>1. UNCHANGED <<Covered, Due>> BY CoveredKept, DueKept DEF ClientDisconnected, stored
<1>2. /\ \A q \in Sessions : q # s => closed'[q] = closed[q] /\ subscriptions'[q] = subscriptions[q]
      /\ \A i \in SubIds : subscriptions'[s][i] = {}
  BY <1>0 DEF ClientDisconnected, TypeOK, NoSubs
<1>3. \A q \in Sessions : q # s => Streams'[q] = Streams[q]
  BY <1>2 DEF Streams, Feeds, Recipients
<1>4. Streams'[s] = {} BY <1>2 DEF Streams, Feeds, Recipients
<1>5. Streams' = [Streams EXCEPT ![s] = {}] BY <1>3, <1>4, StreamsIs DEF Streams
<1>6. Promised!Leave(s) BY <1>1, <1>5 DEF Promised!Leave, ClientDisconnected
<1>7. QED BY <1>6 DEF Promised!Next

\* A session is bound once: its client has one key, and nothing streams before.
LEMMA Bound ==
  ASSUME OneKeyPerSession, BindingInv, NEW l \in Lanes, BindSession(l)
  PROVE  Promised!Next \/ Stays
<1>0. TypeOK BY DEF BindingInv
<1> DEFINE s == lane[l].session
           c == lane[l].key
<1>1. s \in Sessions /\ c \in KeysOf[s] /\ c \in Consumers
  BY <1>0, KeysAssumption DEF BindSession, TypeOK
<1>2. consumer_pk' = [consumer_pk EXCEPT ![s] = c] BY DEF BindSession
<1>3. UNCHANGED <<Covered, Due, Streams>>
  BY CoveredKept, DueKept, StreamsKept DEF BindSession, stored
<1> HIDE DEF s, c
<1>4. CASE consumer_pk[s] = None
  <2>1. \A i \in SubIds : subscriptions[s][i] = {} BY <1>1, <1>4 DEF BindingInv, SubscribedBound
  <2>2. Streams[s] = {} BY <1>1, <2>1, StreamsIs
  <2>3. Promised!Bind(s, c) BY <1>2, <1>3, <1>4, <2>2 DEF Promised!Bind
  <2>4. QED BY <1>1, <2>3 DEF Promised!Next
<1>5. CASE consumer_pk[s] # None
  <2>1. consumer_pk[s] = c BY <1>1, <1>5 DEF BindingInv, BoundToOwnKey, OneKeyPerSession
  <2>2. consumer_pk' = consumer_pk BY <1>0, <1>1, <1>2, <2>1 DEF TypeOK
  <2>3. QED BY <1>3, <2>2 DEF Stays, Promised!vars
<1>6. QED BY <1>4, <1>5

\* The end of a command that withdraws something.
LEMMA ReachesSessions ==
  ASSUME BindingInv, NEW o \in OwnerLanes, CloseSessions(o) \/ ClearSubscriptions(o)
  PROVE  Promised!Next
<1>0. TypeOK BY DEF BindingInv
<1> DEFINE c == owner[o].key
<1>1. c \in Consumers /\ c \in Due BY <1>0 DEF CloseSessions, ClearSubscriptions, TypeOK, Due, Owed
<1>2. UNCHANGED <<Covered, consumer_pk>>
  BY CoveredKept DEF CloseSessions, ClearSubscriptions, stored
<1>3. \A q \in Sessions :
        Streams'[q] = IF consumer_pk[q] = c THEN {} ELSE Streams[q]
  <2>1. CASE CloseSessions(o)
    <3>1. subscriptions' = subscriptions BY <2>1 DEF CloseSessions
    <3>2. \A q \in Sessions : closed'[q] = (closed[q] \/ consumer_pk[q] = c)
      BY <2>1 DEF CloseSessions
    <3>3. QED BY <3>1, <3>2 DEF Streams, Feeds, Recipients
  <2>2. CASE ClearSubscriptions(o)
    <3>1. closed' = closed BY <2>2 DEF ClearSubscriptions
    <3>2. \A q \in Sessions, i \in SubIds :
            subscriptions'[q][i] = IF consumer_pk[q] = c THEN {} ELSE subscriptions[q][i]
      BY <2>2 DEF ClearSubscriptions, NoSubs
    <3>3. QED BY <3>1, <3>2 DEF Streams, Feeds, Recipients
  <2>3. QED BY <2>1, <2>2
<1>4. Streams' = [q \in Sessions |-> IF consumer_pk[q] = c THEN {} ELSE Streams[q]]
  BY <1>3 DEF Streams
<1>5. \A p \in OwnerLanes : owner'[p] = IF p = o THEN NoCommand ELSE owner[p]
  BY <1>0 DEF CloseSessions, ClearSubscriptions, Done, TypeOK
<1>6. Due' \subseteq Due /\ \A d \in Due : d # c => d \in Due'
  BY <1>5 DEF Due, Owed, NoCommand
<1> HIDE DEF c
<1>7. Due' \in {Due, Due \ {c}} BY <1>6
<1>8. Promised!CutOff(c) BY <1>1, <1>2, <1>4, <1>7 DEF Promised!CutOff
<1>9. QED BY <1>1, <1>8 DEF Promised!Next

\* The store changes for one consumer: what it is granted, with nothing withdrawn ...
LEMMA Granted ==
  ASSUME TypeOK, TypeOK', NEW c \in Consumers,
         UNCHANGED <<now, consumer_pk, closed, subscriptions, Due>>,
         \A d \in Consumers : d # c => grants'[d] = grants[d]
  PROVE  Promised!Next
<1>1. \A d \in Consumers : d # c => Covered'[d] = Covered[d]
  BY DEF Covered, ActiveGrant, GrantExpired, Scope
<1>2. Covered' \in [Consumers -> SUBSET Entities] /\ Covered \in [Consumers -> SUBSET Entities]
  BY CoveredType, CoveredTypeNext DEF CoveredTyped
<1>3. Covered' = [Covered EXCEPT ![c] = Covered'[c]] BY <1>1, <1>2
<1>4. Promised!Grant(c, Covered'[c]) BY <1>3, StreamsKept DEF Promised!Grant
<1>5. QED BY <1>2, <1>4 DEF Promised!Next

\* ... or as a command does that is then due.
LEMMA Withdrawn ==
  ASSUME TypeOK, TypeOK', NEW c \in Consumers, NEW o \in OwnerLanes, NEW op \in {"close", "clear"},
         UNCHANGED <<now, consumer_pk, closed, subscriptions>>,
         \A d \in Consumers : d # c => grants'[d] = grants[d],
         Command(o, op, c, NoGrant)
  PROVE  Promised!Next
<1>1. \A d \in Consumers : d # c => Covered'[d] = Covered[d]
  BY DEF Covered, ActiveGrant, GrantExpired, Scope
<1>2. Covered' \in [Consumers -> SUBSET Entities] /\ Covered \in [Consumers -> SUBSET Entities]
  BY CoveredType, CoveredTypeNext DEF CoveredTyped
<1>3. Covered' = [Covered EXCEPT ![c] = Covered'[c]] BY <1>1, <1>2
<1>4. owner[o].op = "idle"
        /\ \A p \in OwnerLanes : owner'[p] = IF p = o THEN [op |-> op, key |-> c, grant |-> NoGrant]
                                                      ELSE owner[p]
  BY DEF Command, TypeOK
<1>5. Due' = Due \cup {c} BY <1>4 DEF Due, Owed
<1>6. Promised!Withdraw(c, Covered'[c]) BY <1>3, <1>5, StreamsKept DEF Promised!Withdraw
<1>7. QED BY <1>2, <1>6 DEF Promised!Next

LEMMA Lapsed ==
  ASSUME TypeOK, TypeOK', Tick
  PROVE  Promised!Next
<1>1. UNCHANGED <<grants, consumer_pk, Due, Streams>>
  BY DueKept, StreamsKept DEF Tick, stored, runtime
<1>2. \A c \in Consumers : Scope(c)' = Scope(c) /\ (ActiveGrant(c)' => ActiveGrant(c))
  <2>1. now' = now + 1 /\ now \in Nat BY BoundAssumption DEF Tick, TypeOK
  <2>2. \A c \in Consumers : grants[c].expires_at \in Int
    BY BoundAssumption DEF TypeOK, GrantType, Never
  <2>3. QED BY <1>1, <2>1, <2>2 DEF Scope, ActiveGrant, GrantExpired
<1>3. \A c \in Consumers : Covered'[c] \in {Covered[c], {}} BY <1>2 DEF Covered
<1>4. Covered' \in [Consumers -> SUBSET Entities]
  BY CoveredTypeNext DEF CoveredTyped
<1>5. Promised!Lapse BY <1>1, <1>3, <1>4 DEF Promised!Lapse
<1>6. QED BY <1>5 DEF Promised!Next

\* Every step of Authority is one of ScopedFeeds, or none.
LEMMA ScopedStep ==
  ASSUME OneKeyPerSession, BindingInv, [Next]_vars
  PROVE  Promised!Next \/ Stays
<1>0. TypeOK /\ TypeOK' BY TypeStep DEF BindingInv
<1>1. ASSUME UNCHANGED <<now, grants, consumer_pk, closed, subscriptions, Due>> PROVE Stays
  BY <1>1, CoveredKept, StreamsKept DEF Stays, Promised!vars
<1>2. ASSUME NEW l \in Lanes, NEW s \in Sessions, NEW c \in Consumers, NEW m \in Manifests,
             AccessRequest(l, s, c, m)
      PROVE  Stays
  BY <1>1, <1>2, DueKept DEF AccessRequest, runtime
<1>3. ASSUME NEW s \in Sessions, NEW c \in Consumers, Authenticate(s, c) PROVE Stays
  BY <1>1, <1>3, DueKept DEF Authenticate, stored, runtime
<1>4. ASSUME NEW s \in Sessions, WebrtcOffer(s) \/ ClientConnected(s) \/ PeerLost(s) PROVE Stays
  BY <1>1, <1>4, DueKept DEF WebrtcOffer, ClientConnected, PeerLost, stored, runtime
<1>5. ASSUME NEW r \in Requests, RejectRequest(r) PROVE Stays
  BY <1>1, <1>5, DueKept DEF RejectRequest, runtime
<1>6. ASSUME LinkLost \/ UNCHANGED vars PROVE Stays
  BY <1>1, <1>6, DueKept DEF LinkLost, vars, stored, runtime
<1>7. ASSUME NEW o \in OwnerLanes, NEW r \in Requests, NEW t \in SUBSET Entities,
             NEW e \in 1..Never, ApproveRequest(o, r, t, e)
      PROVE  Stays
  <2>1. \A p \in OwnerLanes : p # o => owner'[p] = owner[p]
    BY <1>0, <1>7 DEF ApproveRequest, Command, TypeOK
  <2>2. owner[o].op = "idle" /\ owner'[o].op = "approve"
    BY <1>0, <1>7 DEF ApproveRequest, Command, TypeOK
  <2>3. Due' = Due BY <2>1, <2>2 DEF Due, Owed
  <2>4. QED BY <1>1, <1>7, <2>3 DEF ApproveRequest, runtime
<1>8. ASSUME NEW o \in OwnerLanes, WriteGrant(o) PROVE Promised!Next
  <2>1. \A p \in OwnerLanes : owner'[p] = IF p = o THEN NoCommand ELSE owner[p]
    BY <1>0, <1>8 DEF WriteGrant, Done, TypeOK
  <2>2. owner[o].op = "approve" /\ owner[o].key \in Consumers BY <1>0, <1>8 DEF WriteGrant, TypeOK
  <2>3. Due' = Due BY <2>1, <2>2 DEF Due, Owed, NoCommand
  <2>4. \A d \in Consumers : d # owner[o].key => grants'[d] = grants[d]
    BY <1>0, <1>8 DEF WriteGrant, TypeOK
  <2>5. UNCHANGED <<now, consumer_pk, closed, subscriptions>> BY <1>8 DEF WriteGrant, runtime
  <2>6. QED BY <1>0, <2>2, <2>3, <2>4, <2>5, Granted
<1>9. ASSUME NEW c \in Consumers, NEW m \in Manifests, NEW D \in Denials, NEW e \in 1..Never,
             CreatePreapprovedGrant(c, m, D, e)
      PROVE  Promised!Next
  <2>1. \A d \in Consumers : d # c => grants'[d] = grants[d]
    BY <1>0, <1>9 DEF CreatePreapprovedGrant, TypeOK
  <2>2. UNCHANGED <<now, consumer_pk, closed, subscriptions, Due>>
    BY <1>9, DueKept DEF CreatePreapprovedGrant, runtime
  <2>3. QED BY <1>0, <2>1, <2>2, Granted
<1>10. ASSUME NEW o \in OwnerLanes, NEW c \in Consumers,
              \/ RevokeGrant(o, c) \/ DeleteGrant(o, c)
              \/ \E D \in Denials : SetGrantRestrictions(o, c, D)
       PROVE  Promised!Next
  <2>1. UNCHANGED <<now, consumer_pk, closed, subscriptions>>
    BY <1>10 DEF RevokeGrant, DeleteGrant, SetGrantRestrictions, runtime
  <2>2. \A d \in Consumers : d # c => grants'[d] = grants[d]
    BY <1>0, <1>10 DEF RevokeGrant, DeleteGrant, SetGrantRestrictions, TypeOK
  <2>3. Command(o, "close", c, NoGrant) \/ Command(o, "clear", c, NoGrant)
    BY <1>10 DEF RevokeGrant, DeleteGrant, SetGrantRestrictions
  <2>4. QED BY <1>0, <2>1, <2>2, <2>3, Withdrawn
<1>11. ASSUME NEW l \in Lanes, NEW s \in Sessions, NEW id \in SubIds, NEW E \in SUBSET Entities,
              Subscribe(l, s, id, E)
       PROVE  Promised!Next
  BY <1>11, Followed
<1>12. ASSUME NEW l \in Lanes, NEW s \in Sessions,
              RefuseRequest(l, s) \/ \E id \in SubIds : Unsubscribe(l, s, id)
       PROVE  Promised!Next
  BY <1>12, FewerFollowed
<1>13. ASSUME NEW s \in Sessions, ClientDisconnected(s) PROVE Promised!Next
  BY <1>13, Left
<1>14. ASSUME NEW l \in Lanes, BindSession(l) PROVE Promised!Next \/ Stays
  BY <1>14, Bound
<1>15. ASSUME NEW o \in OwnerLanes, CloseSessions(o) \/ ClearSubscriptions(o) PROVE Promised!Next
  BY <1>15, ReachesSessions
<1>16. Tick => Promised!Next BY <1>0, Lapsed
<1>17. QED
  BY <1>2, <1>3, <1>4, <1>5, <1>6, <1>7, <1>8, <1>9, <1>10, <1>11, <1>12, <1>13, <1>14, <1>15,
     <1>16, NextCases, Zenon

LEMMA ScopedInit == Init => Promised!Init
<1> SUFFICES ASSUME Init PROVE Promised!Init OBVIOUS
<1>1. Covered = [c \in Consumers |-> {}] BY DEF Init, Covered, ActiveGrant, NoGrant
<1>2. Streams = [s \in Sessions |-> {}] BY DEF Init, Streams, Feeds, Recipients, NoSubs
<1>3. Due = {} BY DEF Init, Due, Owed, NoCommand
<1>4. QED BY <1>1, <1>2, <1>3 DEF Init, Promised!Init

\* The authority (authority.py) implements ScopedFeeds, for any number of
\* sessions, consumers, datachannels and concurrent commands, where each client
\* signs with one key.
THEOREM ScopesKept ==
  ASSUME OneKeyPerSession
  PROVE  Spec => KeepsScopes
<1>1. Init => BindingInv BY FeedInit DEF FeedInv
<1>2. BindingInv /\ [Next]_vars => BindingInv' BY BindingStep
<1>3. BindingInv /\ [Next]_vars => [Promised!Next]_(Promised!vars)
  BY ScopedStep DEF Stays
<1>4. QED BY <1>1, <1>2, <1>3, ScopedInit, PTL DEF Spec, KeepsScopes, Promised!Spec
=============================================================================
