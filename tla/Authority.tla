------------------------------ MODULE Authority ------------------------------
(***************************************************************************)
(* The Authority: the part of the Home Assistant integration that decides  *)
(* what a consumer may see (custom_components/varco/authority.py over the  *)
(* store of storage.py).                                                   *)
(*                                                                         *)
(* The program is asyncio: one thread, and a handler runs without          *)
(* interruption up to an await that really suspends it.  For these         *)
(* handlers that is the write to disk at the end of async_save_data.       *)
(* Memory is changed before the write is awaited, so a handler is modelled *)
(* by at most two steps: what it does up to the first suspension, and what *)
(* it still does to the state after it.  Between the two every other       *)
(* handler may run.  An operation that only reads (get_states,             *)
(* history_query, camera_snapshot, grant_info, call_service, which acts on *)
(* Home Assistant) and a refusal that changes nothing are no steps; what   *)
(* they answer is the operator DataReply.                                  *)
(*                                                                         *)
(* Handlers run in lanes.  The relay reads the bridge socket serially, for *)
(* all sessions together (lane Relay); each datachannel message is a task  *)
(* of its own (PeerLanes); each owner command is a task (OwnerLanes).      *)
(*                                                                         *)
(* Abstracted: one scope set per manifest stands for its five scope lists; *)
(* the restrictions of a grant are the set of entities they deny; audit    *)
(* records, notifications, pairing codes, rate limits (a refusal changes   *)
(* nothing here) and the notices of queue_event (module Wire) are left     *)
(* out.  Claims of share links are in ShareClaim; what a claimed grant     *)
(* means for feeds of an earlier one is left to the composition of the two *)
(* in the plan of README.md.                                               *)
(***************************************************************************)
EXTENDS Integers, FiniteSets

CONSTANTS
  Consumers,   \* consumer public keys
  Sessions,    \* session ids the bridge hands out; an id is never used again
  Requests,    \* access request ids (a grant made by approval keeps the id)
  Entities,    \* Home Assistant entities
  SubIds,      \* subscription ids a client may use
  Relay,       \* the serial lane of the relay socket
  PeerLanes,   \* concurrent datachannel tasks
  OwnerLanes,  \* concurrent owner commands
  None,        \* Python's None
  KeysOf,      \* KeysOf[s]: the keys the client behind session s signs with
  Manifests,   \* the scopes consumers ask for
  Denials,     \* what an owner's restrictions may deny
  MaxPending,  \* MAX_PENDING_ACCESS_REQUESTS (50 in the code)
  MaxTime      \* bound on the clock

ASSUME NoneAssumption == None \notin Consumers \cup Requests
ASSUME LaneAssumption == Relay \notin PeerLanes
ASSUME KeysAssumption == KeysOf \in [Sessions -> SUBSET Consumers]
ASSUME ScopeAssumption ==
  /\ Manifests \subseteq SUBSET Entities
  /\ Denials \subseteq SUBSET Entities
ASSUME RequestsAssumption == IsFiniteSet(Requests)
ASSUME BoundAssumption == MaxPending \in Nat \ {0} /\ MaxTime \in Nat

VARIABLES
  now,           \* the clock behind now_provider
  requests,      \* data["access_requests"]: id -> request
  grants,        \* data["grants"]: consumer key -> grant
  link,          \* the relay path of a session: "new", "up", "lost" or "down"
  peer,          \* does a datachannel to the session exist?
  consumer_pk,   \* RuntimeSession.consumer_pk
  closed,        \* RuntimeSession.closed
  subscriptions, \* RuntimeSession.subscriptions: id -> entity set ({}: none)
  lane,          \* the suspended consumer handler of each lane
  owner          \* the suspended owner command of each lane

stored   == <<requests, grants>>
runtime  == <<consumer_pk, closed, subscriptions>>
channels == <<link, peer>>
vars == <<now, stored, channels, runtime, lane, owner>>

Lanes == {Relay} \cup PeerLanes
Never == MaxTime + 1

NoRequest == [status |-> "none", consumer_pk |-> None, manifest |-> {}]
NoGrant   == [status |-> "none", manifest |-> {}, denied |-> {},
              expires_at |-> Never, request_id |-> None]
Idle      == [op |-> "idle", session |-> None, key |-> None]
NoCommand == [op |-> "idle", key |-> None, grant |-> NoGrant]

-----------------------------------------------------------------------------
(* Reading the store and a session. *)

GrantExpired(g) == now >= g.expires_at

ActiveGrant(c) == grants[c].status = "active" /\ ~GrantExpired(grants[c])

\* subscription_entities / read_entities less what a restriction denies
Scope(c) == grants[c].manifest \ grants[c].denied

PendingIn(rs) == {r \in Requests : rs[r].status = "pending"}

\* mutant of PendingOf: any request of the consumer gives its slot away
AnyOf(c) == {r \in Requests : requests[r].consumer_pk = c}

PendingOf(c) == {r \in PendingIn(requests) : requests[r].consumer_pk = c}

\* mutant of TrimPending: one over the cap
TrimLate(rs, filed) ==
  IF Cardinality(PendingIn(rs)) <= MaxPending + 1
    THEN {rs}
    ELSE {[rs EXCEPT ![v] = NoRequest] : v \in PendingIn(rs) \ {filed}}

\* Over the cap the oldest pending requests are dropped; which of the others
\* is the oldest is left open, the one just filed never is.
TrimPending(rs, filed) ==
  IF Cardinality(PendingIn(rs)) <= MaxPending
    THEN {rs}
    ELSE {[rs EXCEPT ![v] = NoRequest] : v \in PendingIn(rs) \ {filed}}

\* mutant of RequireGrant: trusts the grant check made when the session was bound
RequireBinding(s) ==
  CASE closed[s] -> "grant_revoked"
    [] ~closed[s] /\ consumer_pk[s] = None -> "not_authenticated"
    [] OTHER -> "ok"

\* The outcome of _require_grant: "ok" or the error code it answers.
RequireGrant(s) ==
  CASE closed[s] -> "grant_revoked"
    [] ~closed[s] /\ consumer_pk[s] = None -> "not_authenticated"
    [] ~closed[s] /\ consumer_pk[s] # None ->
         IF ActiveGrant(consumer_pk[s]) THEN "ok" ELSE "grant_revoked"

\* What a data request over the entities E is answered (get_states).
DataReply(s, E) ==
  IF RequireGrant(s) # "ok" THEN RequireGrant(s)
  ELSE IF E \subseteq Scope(consumer_pk[s]) THEN "states" ELSE "permission_denied"

\* state_changed: the sessions a new state of entity e is pushed to
Recipients(e) ==
  {s \in Sessions : ~closed[s] /\ \E id \in SubIds : e \in subscriptions[s][id]}

NoSubs == [id \in SubIds |-> {}]

\* The bridge may still deliver messages of session s, or the notice of its
\* end: after a lost link too, while the bridge waits for the client's socket
\* to close and the relay is back already.
Reached(s) == link[s] \in {"up", "lost"}

\* A message of session s can be taken up in lane l.
Accepts(l, s) ==
  /\ lane[l].op = "idle"
  /\ IF l = Relay THEN Reached(s) ELSE peer[s]

-----------------------------------------------------------------------------
(* Consumer handlers. *)

\* _access_request up to the write of the request: a consumer has one pending
\* slot, which a repeated request takes over.
AccessRequest(l, s, c, m) ==
  /\ Accepts(l, s)
  /\ c \in KeysOf[s]
  /\ \E r \in Requests :
       /\ IF PendingOf(c) = {} THEN requests[r].status = "none"
                               ELSE r \in PendingOf(c)
       /\ LET request == [status |-> "pending", consumer_pk |-> c, manifest |-> m]
          IN requests' \in TrimPending([requests EXCEPT ![r] = request], r)
  /\ lane' = [lane EXCEPT ![l] = [op |-> "access_request", session |-> s, key |-> c]]
  /\ UNCHANGED <<now, grants, channels, runtime, owner>>

\* _authenticate up to the write of last_used_at.  It needs the channel
\* binding, which datachannel messages do not carry.
Authenticate(s, c) ==
  /\ Accepts(Relay, s)
  /\ c \in KeysOf[s]
  /\ ActiveGrant(c)
  /\ lane' = [lane EXCEPT ![Relay] = [op |-> "authenticate", session |-> s, key |-> c]]
  /\ UNCHANGED <<now, stored, channels, runtime, owner>>

\* What both still do: bind the session to the key and answer.
BindSession(l) ==
  /\ lane[l].op # "idle"
  /\ consumer_pk' = [consumer_pk EXCEPT ![lane[l].session] = lane[l].key]
  /\ lane' = [lane EXCEPT ![l] = Idle]
  /\ UNCHANGED <<now, stored, channels, closed, subscriptions, owner>>

\* Any data request of a bound session that finds no active grant: refused,
\* and the session is closed for good.
RefuseRequest(l, s) ==
  /\ Accepts(l, s)
  /\ RequireGrant(s) = "grant_revoked"
  /\ closed' = [closed EXCEPT ![s] = TRUE]
  /\ UNCHANGED <<now, stored, channels, consumer_pk, subscriptions, lane, owner>>

Admitted(l, s) == Accepts(l, s) /\ RequireGrant(s) = "ok"

\* _subscribe: the grant check and the registration share one step, nothing
\* between them suspends.
Subscribe(l, s, id, E) ==
  /\ Admitted(l, s)
  /\ E \subseteq Scope(consumer_pk[s])
  /\ subscriptions' = [subscriptions EXCEPT ![s][id] = E]
  /\ UNCHANGED <<now, stored, channels, consumer_pk, closed, lane, owner>>

Unsubscribe(l, s, id) ==
  /\ Admitted(l, s)
  /\ subscriptions' = [subscriptions EXCEPT ![s][id] = {}]
  /\ UNCHANGED <<now, stored, channels, consumer_pk, closed, lane, owner>>

\* _webrtc_offer: the answer opens a datachannel for the session.
WebrtcOffer(s) ==
  /\ Admitted(Relay, s)
  /\ peer' = [peer EXCEPT ![s] = TRUE]
  /\ UNCHANGED <<now, stored, link, runtime, lane, owner>>

-----------------------------------------------------------------------------
(* Channels and time. *)

ClientConnected(s) ==
  /\ link[s] = "new"
  /\ link' = [link EXCEPT ![s] = "up"]
  /\ UNCHANGED <<now, stored, peer, runtime, lane, owner>>

\* The bridge reports that a client left: the session is discarded, a later
\* _session(s) starts from an empty one.
ClientDisconnected(s) ==
  /\ lane[Relay].op = "idle"
  /\ Reached(s)
  /\ link' = [link EXCEPT ![s] = "down"]
  /\ peer' = [peer EXCEPT ![s] = FALSE]
  /\ consumer_pk' = [consumer_pk EXCEPT ![s] = None]
  /\ closed' = [closed EXCEPT ![s] = FALSE]
  /\ subscriptions' = [subscriptions EXCEPT ![s] = NoSubs]
  /\ UNCHANGED <<now, stored, lane, owner>>

\* The bridge socket drops: the bridge evicts every client, and none of them
\* need be reported, so runtime sessions and datachannels may stay.
LinkLost ==
  /\ \E s \in Sessions : link[s] = "up"
  /\ link' = [s \in Sessions |-> IF link[s] = "up" THEN "lost" ELSE link[s]]
  /\ UNCHANGED <<now, stored, peer, runtime, lane, owner>>

PeerLost(s) ==
  /\ peer[s]
  /\ peer' = [peer EXCEPT ![s] = FALSE]
  /\ UNCHANGED <<now, stored, link, runtime, lane, owner>>

Tick ==
  /\ now < MaxTime
  /\ now' = now + 1
  /\ UNCHANGED <<stored, channels, runtime, lane, owner>>

-----------------------------------------------------------------------------
(* Owner commands.  Grants are named by id in the code; the index from ids   *)
(* to keys is rebuilt with every save, so a grant is named by its key here.  *)

Command(o, op, c, g) ==
  /\ owner[o].op = "idle"
  /\ owner' = [owner EXCEPT ![o] = [op |-> op, key |-> c, grant |-> g]]

Done(o) == owner' = [owner EXCEPT ![o] = NoCommand]

\* async_approve_request up to the write of the request: the grant to be made
\* is fixed here, the requested scopes trimmed to what the owner ticked.
ApproveRequest(o, r, ticked, expires) ==
  /\ requests[r].status # "none"
  /\ requests' = [requests EXCEPT ![r].status = "approved"]
  /\ Command(o, "approve", requests[r].consumer_pk,
             [status |-> "active", manifest |-> requests[r].manifest \cap ticked,
              denied |-> {}, expires_at |-> expires, request_id |-> r])
  /\ UNCHANGED <<now, grants, channels, runtime, lane>>

\* ... and the write of the grant, which takes the place of an earlier one.
WriteGrant(o) ==
  /\ owner[o].op = "approve"
  /\ grants' = [grants EXCEPT ![owner[o].key] = owner[o].grant]
  /\ Done(o)
  /\ UNCHANGED <<now, requests, channels, runtime, lane>>

RejectRequest(r) ==
  /\ requests[r].status # "none"
  /\ requests' = [requests EXCEPT ![r].status = "rejected"]
  /\ UNCHANGED <<now, grants, channels, runtime, lane, owner>>

\* create_preapproved_grant: the key pair is new, nobody has used it yet.
CreatePreapprovedGrant(c, m, D, expires) ==
  /\ grants[c].status = "none"
  /\ \A r \in Requests : requests[r].consumer_pk # c
  /\ \A s \in Sessions : consumer_pk[s] # c
  /\ \A l \in Lanes : lane[l].key # c
  /\ \A o \in OwnerLanes : owner[o].key # c
  /\ grants' = [grants EXCEPT ![c] =
                  [status |-> "active", manifest |-> m, denied |-> D,
                   expires_at |-> expires, request_id |-> None]]
  /\ UNCHANGED <<now, requests, channels, runtime, lane, owner>>

\* revoke_grant and delete_grant: first the store, then the sessions.
RevokeGrant(o, c) ==
  /\ grants[c].status # "none"
  /\ grants' = [grants EXCEPT ![c].status = "revoked"]
  /\ Command(o, "close", c, NoGrant)
  /\ UNCHANGED <<now, requests, channels, runtime, lane>>

DeleteGrant(o, c) ==
  /\ grants[c].status # "none"
  /\ grants' = [grants EXCEPT ![c] = NoGrant]
  /\ Command(o, "close", c, NoGrant)
  /\ UNCHANGED <<now, requests, channels, runtime, lane>>

\* mutant of CloseSessions: only the sessions the relay still reaches
CloseRelayed(o) ==
  /\ owner[o].op = "close"
  /\ closed' = [s \in Sessions |->
       closed[s] \/ (consumer_pk[s] = owner[o].key /\ link[s] = "up")]
  /\ Done(o)
  /\ UNCHANGED <<now, stored, channels, consumer_pk, subscriptions, lane>>

CloseSessions(o) ==
  /\ owner[o].op = "close"
  /\ closed' = [s \in Sessions |-> closed[s] \/ consumer_pk[s] = owner[o].key]
  /\ Done(o)
  /\ UNCHANGED <<now, stored, channels, consumer_pk, subscriptions, lane>>

\* set_grant_restrictions: again the store first.
SetGrantRestrictions(o, c, D) ==
  /\ grants[c].status # "none"
  /\ grants' = [grants EXCEPT ![c].denied = D]
  /\ Command(o, "clear", c, NoGrant)
  /\ UNCHANGED <<now, requests, channels, runtime, lane>>

\* mutant of ClearSubscriptions: only the sessions the relay still reaches
ClearRelayed(o) ==
  /\ owner[o].op = "clear"
  /\ subscriptions' = [s \in Sessions |->
       IF consumer_pk[s] = owner[o].key /\ link[s] = "up" THEN NoSubs ELSE subscriptions[s]]
  /\ Done(o)
  /\ UNCHANGED <<now, stored, channels, consumer_pk, closed, lane>>

ClearSubscriptions(o) ==
  /\ owner[o].op = "clear"
  /\ subscriptions' = [s \in Sessions |->
       IF consumer_pk[s] = owner[o].key THEN NoSubs ELSE subscriptions[s]]
  /\ Done(o)
  /\ UNCHANGED <<now, stored, channels, consumer_pk, closed, lane>>

-----------------------------------------------------------------------------
Init ==
  /\ now = 0
  /\ requests = [r \in Requests |-> NoRequest]
  /\ grants = [c \in Consumers |-> NoGrant]
  /\ link = [s \in Sessions |-> "new"]
  /\ peer = [s \in Sessions |-> FALSE]
  /\ consumer_pk = [s \in Sessions |-> None]
  /\ closed = [s \in Sessions |-> FALSE]
  /\ subscriptions = [s \in Sessions |-> NoSubs]
  /\ lane = [l \in Lanes |-> Idle]
  /\ owner = [o \in OwnerLanes |-> NoCommand]

ConsumerStep(l, s) ==
  \/ \E c \in Consumers, m \in Manifests : AccessRequest(l, s, c, m)
  \/ RefuseRequest(l, s)
  \/ \E E \in (SUBSET Entities) \ {{}}, id \in SubIds : Subscribe(l, s, id, E)
  \/ \E id \in SubIds : Unsubscribe(l, s, id)

RelayStep(s) ==
  \/ \E c \in Consumers : Authenticate(s, c)
  \/ WebrtcOffer(s)
  \/ ClientConnected(s)
  \/ ClientDisconnected(s)
  \/ PeerLost(s)

OwnerStep(o) ==
  \/ \E r \in Requests, ticked \in SUBSET Entities, e \in 1..Never :
       ApproveRequest(o, r, ticked, e)
  \/ \E c \in Consumers : RevokeGrant(o, c)
  \/ \E c \in Consumers : DeleteGrant(o, c)
  \/ \E c \in Consumers, D \in Denials : SetGrantRestrictions(o, c, D)

OwnerAtomicStep ==
  \/ \E r \in Requests : RejectRequest(r)
  \/ \E c \in Consumers, m \in Manifests, D \in Denials, e \in 1..Never :
       CreatePreapprovedGrant(c, m, D, e)

Finish(o) == WriteGrant(o) \/ CloseSessions(o) \/ ClearSubscriptions(o)

Next ==
  \/ \E l \in Lanes, s \in Sessions : ConsumerStep(l, s)
  \/ \E s \in Sessions : RelayStep(s)
  \/ \E l \in Lanes : BindSession(l)
  \/ \E o \in OwnerLanes : OwnerStep(o)
  \/ OwnerAtomicStep
  \/ \E o \in OwnerLanes : Finish(o)
  \/ LinkLost
  \/ Tick

Spec == Init /\ [][Next]_vars

\* A write to disk and an executor job end, so a suspended handler resumes;
\* nobody is obliged to send a request or to give a command.
FairSpec ==
  /\ Spec
  /\ \A l \in Lanes : WF_vars(BindSession(l))
  /\ \A o \in OwnerLanes : WF_vars(Finish(o))

-----------------------------------------------------------------------------
(* Properties. *)

Statuses == {"none", "pending", "approved", "rejected"}

RequestType ==
  [status : Statuses, consumer_pk : Consumers \cup {None}, manifest : SUBSET Entities]

GrantType ==
  [status : {"none", "active", "revoked"}, manifest : SUBSET Entities,
   denied : SUBSET Entities, expires_at : 0..Never, request_id : Requests \cup {None}]

\* The types of the store, the runtime sessions and the suspended handlers.
TypeOK ==
  /\ now \in 0..MaxTime
  /\ requests \in [Requests -> RequestType]
  /\ \A r \in Requests : requests[r].status # "none" => requests[r].consumer_pk \in Consumers
  /\ grants \in [Consumers -> GrantType]
  /\ link \in [Sessions -> {"new", "up", "lost", "down"}]
  /\ peer \in [Sessions -> BOOLEAN]
  /\ consumer_pk \in [Sessions -> Consumers \cup {None}]
  /\ closed \in [Sessions -> BOOLEAN]
  /\ subscriptions \in [Sessions -> [SubIds -> SUBSET Entities]]
  /\ lane \in [Lanes -> [op : {"idle", "access_request", "authenticate"},
                         session : Sessions \cup {None}, key : Consumers \cup {None}]]
  /\ \A l \in Lanes : lane[l].op # "idle" =>
       lane[l].session \in Sessions /\ lane[l].key \in KeysOf[lane[l].session]
  /\ owner \in [OwnerLanes -> [op : {"idle", "approve", "close", "clear"},
                               key : Consumers \cup {None}, grant : GrantType]]
  /\ \A o \in OwnerLanes : owner[o].op # "idle" => owner[o].key \in Consumers

\* The owner command `op` on consumer c is still to reach the sessions.
Owed(op, c) == \E o \in OwnerLanes : owner[o].op = op /\ owner[o].key = c

\* Entity e streams to session s.
Feeds(s, e) == s \in Recipients(e)

\* A session that streams is bound to a key whose grant is neither revoked nor
\* deleted, unless the command that ended the grant has yet to close it: no
\* interleaving of authentication, subscription, disconnection and owner
\* commands leaves a feed running behind a completed revoke_grant or
\* delete_grant.
RevokedFeedsClosed ==
  \A s \in Sessions, e \in Entities : Feeds(s, e) =>
    /\ consumer_pk[s] # None
    /\ grants[consumer_pk[s]].status # "active" => Owed("close", consumer_pk[s])

\* No entity that the grant's current restrictions deny streams to a session,
\* unless set_grant_restrictions has yet to clear the subscriptions made under
\* the earlier restrictions.
RestrictedFeedsCleared ==
  \A s \in Sessions, e \in Entities :
    /\ Feeds(s, e)
    /\ e \in grants[consumer_pk[s]].denied
    => Owed("clear", consumer_pk[s])

\* However requests, approvals and rejections interleave, a consumer has one
\* pending slot and the store never keeps more than the cap
\* (async_upsert_access_request, _access_request).
PendingSlots ==
  /\ Cardinality(PendingIn(requests)) <= MaxPending
  /\ \A c \in Consumers : \A r1, r2 \in PendingOf(c) : r1 = r2

\* Who streams what, and what grants cover, as ScopedFeeds has it: a command that
\* withdraws something is due until it has reached the sessions.
Covered  == [c \in Consumers |-> IF ActiveGrant(c) THEN Scope(c) ELSE {}]
Streams  == [s \in Sessions |-> {e \in Entities : Feeds(s, e)}]
Due      == {c \in Consumers : Owed("close", c) \/ Owed("clear", c)}
Promised == INSTANCE ScopedFeeds WITH
  covered <- Covered, bound <- consumer_pk, feeds <- Streams, due <- Due

\* Whatever overlaps, the authority is one that keeps feeds to their scopes: a
\* feed begins only under a live grant that covers the entity at that moment,
\* and when revoke_grant, delete_grant or set_grant_restrictions ends, nothing
\* streams to that consumer but what it asks for anew.
KeepsScopes == Promised!Spec

\* A grant made by approval goes back to a request the owner has decided, of
\* the same consumer, and holds no more than was asked: the request cannot be
\* taken over or evicted between the decision and the write of the grant.
GrantTracesToRequest ==
  \A c \in Consumers : grants[c].request_id # None =>
    LET request == requests[grants[c].request_id] IN
      /\ request.status \in {"approved", "rejected"}
      /\ request.consumer_pk = c
      /\ grants[c].manifest \subseteq request.manifest

\* Once a grant is revoked or deleted, every feed it carried stops.
RevokedFeedsEnd ==
  \A s \in Sessions, c \in Consumers :
    (consumer_pk[s] = c /\ grants[c].status # "active" /\ \E e \in Entities : Feeds(s, e))
      ~> (\A e \in Entities : ~Feeds(s, e))

\* "grant_revoked" is answered only to a consumer that has no active grant.
\* (False: a request sent before the approval closes the session for good.)
GrantRevokedMeansNoGrant ==
  \A s \in Sessions, E \in SUBSET Entities :
    DataReply(s, E) = "grant_revoked" /\ consumer_pk[s] # None
      => ~ActiveGrant(consumer_pk[s])

\* A state goes only to consumers whose stored grant covers it at that time,
\* the moments apart in which an owner command has yet to reach the sessions.
\* (False: state_changed looks at the subscription alone, so a feed outlives
\* the expiry of its grant and a narrower grant in its place.)
DeltasWithinGrant ==
  \A e \in Entities : \A s \in Recipients(e) :
    \/ ActiveGrant(consumer_pk[s]) /\ e \in Scope(consumer_pk[s])
    \/ Owed("close", consumer_pk[s])
    \/ Owed("clear", consumer_pk[s])
=============================================================================
