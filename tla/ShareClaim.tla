------------------------------ MODULE ShareClaim ------------------------------
(***************************************************************************)
(* Claiming a share link: _claim_share of                                  *)
(* custom_components/varco/authority.py and async_claim_share of           *)
(* storage.py, against the owner's commands on shares and grants.          *)
(*                                                                         *)
(* A claim looks at the share and at the consumer's grant, then takes the  *)
(* store's claim lock, looks at the share once more, counts itself, writes *)
(* the grant and holds the lock until the write to disk has ended.  The    *)
(* lock is an asyncio.Lock: fair, and taken without suspension when it is  *)
(* free and nobody waits.  Claims of the relay socket come one after the   *)
(* other (lane Relay); a claim on a datachannel is a task of its own       *)
(* (PeerLanes), and a datachannel needs a grant to be opened.              *)
(*                                                                         *)
(* Abstracted: the secret is right (a wrong one is refused and changes     *)
(* nothing); scopes, restrictions, names and audit records are left out;   *)
(* a claim that finds the consumer's own grant of the share is answered    *)
(* without a change to the store and is no step; binding the session       *)
(* and closing it are in module Authority.                                 *)
(***************************************************************************)
EXTENDS Integers, Sequences, FiniteSets

CONSTANTS
  Consumers,  \* consumer public keys
  Shares,     \* share ids; an id is never used again
  Relay,      \* the serial lane of the relay socket
  PeerLanes,  \* concurrent datachannel tasks
  None,       \* Python's None
  Limits,     \* the max_claims an owner may choose (at least 1)
  MaxTime     \* bound on the clock

ASSUME ShareAssumption == None \notin Shares /\ Limits \subseteq Nat \ {0}
ASSUME FiniteAssumption == IsFiniteSet(Consumers)
ASSUME ClockAssumption == MaxTime \in Nat

VARIABLES
  now,     \* the clock behind now_provider
  shares,  \* data["shares"]
  grants,  \* data["grants"]: consumer key -> grant
  peer,    \* has a datachannel been opened?
  claim,   \* the suspended claim of each lane
  queue    \* the lanes that wait for _share_claim_lock, in order

vars == <<now, shares, grants, peer, claim, queue>>

Lanes == {Relay} \cup PeerLanes
Never == MaxTime + 1

NoShare == [status |-> "unused", max_claims |-> 0, claims_used |-> 0, expires_at |-> Never]
NoGrant == [status |-> "none", share_id |-> None, expires_at |-> Never]
Idle    == [op |-> "idle", consumer |-> None, share |-> None]

-----------------------------------------------------------------------------
(* Claims. *)

Expired(x) == now >= x.expires_at

Exhausted(sh) == shares[sh].claims_used >= shares[sh].max_claims

\* What _claim_share checks before it goes for the lock: the share is there,
\* not revoked, not expired and not used up, and the consumer has no grant, or
\* a revoked one (an expired grant is in the way).
Claimable(c, sh) ==
  /\ shares[sh].status = "open"
  /\ ~Expired(shares[sh])
  /\ grants[c].status \in {"none", "revoked"}
  /\ ~Exhausted(sh)

\* mutant of StillOpen: the check made before the wait is good enough
StillThere(sh) == shares[sh].status \in {"open", "revoked"} /\ ~Exhausted(sh)

\* mutant of StillOpen: no second look at the counter
StillListed(sh) == shares[sh].status = "open"

\* What async_claim_share checks again under the lock.
StillOpen(sh) == shares[sh].status = "open" /\ ~Exhausted(sh)

\* mutant of Mint: a consumer that had a grant keeps its seat
MintSeat(l, c, sh) ==
  /\ shares' = IF grants[c].status = "revoked" THEN shares
               ELSE [shares EXCEPT ![sh].claims_used = @ + 1]
  /\ grants' = [grants EXCEPT ![c] =
       [status |-> "active", share_id |-> sh, expires_at |-> shares[sh].expires_at]]
  /\ claim' = [claim EXCEPT ![l] = [op |-> "saving", consumer |-> c, share |-> sh]]

\* Under the lock: count the claim, write the grant, start the write to disk.
Mint(l, c, sh) ==
  /\ shares' = [shares EXCEPT ![sh].claims_used = @ + 1]
  /\ grants' = [grants EXCEPT ![c] =
       [status |-> "active", share_id |-> sh, expires_at |-> shares[sh].expires_at]]
  /\ claim' = [claim EXCEPT ![l] = [op |-> "saving", consumer |-> c, share |-> sh]]

LockHeld == \E l \in Lanes : claim[l].op = "saving"

Accepts(l) == claim[l].op = "idle" /\ (l = Relay \/ peer)

ClaimAtOnce(l, c, sh) ==
  /\ Accepts(l) /\ Claimable(c, sh)
  /\ ~LockHeld /\ queue = <<>>
  /\ StillOpen(sh)
  /\ Mint(l, c, sh)
  /\ UNCHANGED <<now, peer, queue>>

ClaimWaits(l, c, sh) ==
  /\ Accepts(l) /\ Claimable(c, sh)
  /\ LockHeld \/ queue # <<>>
  /\ claim' = [claim EXCEPT ![l] = [op |-> "waiting", consumer |-> c, share |-> sh]]
  /\ queue' = Append(queue, l)
  /\ UNCHANGED <<now, shares, grants, peer>>

\* mutant of TakesTurn: waits on while its share cannot be claimed
TakesOpenTurn(l) ==
  ~LockHeld /\ queue # <<>> /\ l = Head(queue) /\ StillOpen(claim[l].share)

\* The first waiting claim gets the lock.
TakesTurn(l) == ~LockHeld /\ queue # <<>> /\ l = Head(queue)

ClaimResumes(l) ==
  /\ TakesTurn(l)
  /\ StillOpen(claim[l].share)
  /\ Mint(l, claim[l].consumer, claim[l].share)
  /\ queue' = Tail(queue)
  /\ UNCHANGED <<now, peer>>

ClaimFails(l) ==
  /\ TakesTurn(l)
  /\ ~StillOpen(claim[l].share)
  /\ claim' = [claim EXCEPT ![l] = Idle]
  /\ queue' = Tail(queue)
  /\ UNCHANGED <<now, shares, grants, peer>>

\* The write to disk has ended: the lock is released and the claim answered.
ClaimSaved(l) ==
  /\ claim[l].op = "saving"
  /\ claim' = [claim EXCEPT ![l] = Idle]
  /\ UNCHANGED <<now, shares, grants, peer, queue>>

\* A consumer with an active grant opens a datachannel (_webrtc_offer), which
\* may outlive the grant.
OpenPeer ==
  /\ ~peer
  /\ \E c \in Consumers : grants[c].status = "active" /\ ~Expired(grants[c])
  /\ peer' = TRUE
  /\ UNCHANGED <<now, shares, grants, claim, queue>>

-----------------------------------------------------------------------------
(* Owner commands.  Each changes memory in one piece, then waits for the     *)
(* disk; what it still does then does not touch shares and grants.           *)

CreateShare(sh, limit, expires) ==
  /\ shares[sh].status = "unused"
  /\ shares' = [shares EXCEPT ![sh] = [status |-> "open", max_claims |-> limit,
                                       claims_used |-> 0, expires_at |-> expires]]
  /\ UNCHANGED <<now, grants, peer, claim, queue>>

OnRecord(sh) == shares[sh].status \in {"open", "revoked"}

RevokeShare(sh) ==
  /\ OnRecord(sh)
  /\ shares' = [shares EXCEPT ![sh].status = "revoked"]
  /\ UNCHANGED <<now, grants, peer, claim, queue>>

DeleteShare(sh) ==
  /\ OnRecord(sh)
  /\ shares' = [shares EXCEPT ![sh].status = "deleted"]
  /\ UNCHANGED <<now, grants, peer, claim, queue>>

\* async_purge_expired_shares, which listing the shares runs.
PurgeShares ==
  /\ \E sh \in Shares : OnRecord(sh) /\ Expired(shares[sh])
  /\ shares' = [sh \in Shares |-> IF OnRecord(sh) /\ Expired(shares[sh])
                                    THEN [shares[sh] EXCEPT !.status = "deleted"]
                                    ELSE shares[sh]]
  /\ UNCHANGED <<now, grants, peer, claim, queue>>

RevokeGrant(c) ==
  /\ grants[c].status # "none"
  /\ grants' = [grants EXCEPT ![c].status = "revoked"]
  /\ UNCHANGED <<now, shares, peer, claim, queue>>

DeleteGrant(c) ==
  /\ grants[c].status # "none"
  /\ grants' = [grants EXCEPT ![c] = NoGrant]
  /\ UNCHANGED <<now, shares, peer, claim, queue>>

\* An approved access request takes the place of the grant (WriteGrant of
\* module Authority).
ApproveRequest(c, expires) ==
  /\ grants' = [grants EXCEPT ![c] =
       [status |-> "active", share_id |-> None, expires_at |-> expires]]
  /\ UNCHANGED <<now, shares, peer, claim, queue>>

Tick ==
  /\ now < MaxTime
  /\ now' = now + 1
  /\ UNCHANGED <<shares, grants, peer, claim, queue>>

-----------------------------------------------------------------------------
Init ==
  /\ now = 0
  /\ shares = [sh \in Shares |-> NoShare]
  /\ grants = [c \in Consumers |-> NoGrant]
  /\ peer = FALSE
  /\ claim = [l \in Lanes |-> Idle]
  /\ queue = <<>>

ClaimStep(l) ==
  \/ \E c \in Consumers, sh \in Shares : ClaimAtOnce(l, c, sh) \/ ClaimWaits(l, c, sh)
  \/ ClaimResumes(l)
  \/ ClaimFails(l)
  \/ ClaimSaved(l)

ShareStep(sh) ==
  \/ \E limit \in Limits, e \in 1..Never : CreateShare(sh, limit, e)
  \/ RevokeShare(sh)
  \/ DeleteShare(sh)

GrantStep(c) ==
  \/ RevokeGrant(c)
  \/ DeleteGrant(c)
  \/ \E e \in 1..Never : ApproveRequest(c, e)

Next ==
  \/ \E l \in Lanes : ClaimStep(l)
  \/ \E sh \in Shares : ShareStep(sh)
  \/ \E c \in Consumers : GrantStep(c)
  \/ PurgeShares
  \/ OpenPeer
  \/ Tick

Spec == Init /\ [][Next]_vars

\* Writes to disk end and the woken waiter runs; nobody has to claim.
FairSpec ==
  /\ Spec
  /\ \A l \in Lanes :
       WF_vars(ClaimResumes(l)) /\ WF_vars(ClaimFails(l)) /\ WF_vars(ClaimSaved(l))

-----------------------------------------------------------------------------
(* Properties. *)

ShareType ==
  [status : {"unused", "open", "revoked", "deleted"}, max_claims : Nat,
   claims_used : Nat, expires_at : 0..Never]

GrantType ==
  [status : {"none", "active", "revoked"}, share_id : Shares \cup {None},
   expires_at : 0..Never]

\* The types of the store and of the suspended claims; a waiting claim knows
\* its consumer and its share.
TypeOK ==
  /\ now \in 0..MaxTime
  /\ shares \in [Shares -> ShareType]
  /\ grants \in [Consumers -> GrantType]
  /\ peer \in BOOLEAN
  /\ claim \in [Lanes -> [op : {"idle", "waiting", "saving"},
                          consumer : Consumers \cup {None}, share : Shares \cup {None}]]
  /\ queue \in Seq(Lanes)
  /\ \A i \in 1..Len(queue) :
       /\ claim[queue[i]].op = "waiting"
       /\ claim[queue[i]].consumer \in Consumers
       /\ claim[queue[i]].share \in Shares
       /\ \A j \in 1..Len(queue) : queue[i] = queue[j] => i = j

\* However claims race for the lock, a share is not claimed more often than its
\* owner allowed.
ClaimsWithinCap == \A sh \in Shares : shares[sh].claims_used <= shares[sh].max_claims

Holders(sh) == {c \in Consumers : grants[c].share_id = sh}

\* Every grant on record that came from a share was counted: claims by several
\* consumers, repeated claims and grants revoked and claimed anew never give a
\* share more holders than its counter shows.
HoldersCounted ==
  \A sh \in Shares : Cardinality(Holders(sh)) <= shares[sh].claims_used

\* A share mints no grant once it is revoked, deleted or purged, not even for a
\* claim that was waiting for the lock at that time.
NoGrantFromClosedShare ==
  [][\A c \in Consumers, sh \in Shares :
       /\ grants'[c].status = "active" /\ grants'[c].share_id = sh
       /\ grants'[c] # grants[c]
       => shares[sh].status = "open"]_vars

\* Every claim is answered in the end: a claim that fails under the lock lets
\* the next one in.
ClaimsAnswered == \A l \in Lanes : claim[l].op # "idle" ~> claim[l].op = "idle"

\* A consumer whose grant was revoked is active again only by an approval of
\* the owner.
\* (False: a share with claims left takes a revoked consumer back.)
RevokedStaysOut ==
  [][\A c \in Consumers :
       grants[c].status = "revoked" /\ grants'[c].status = "active"
         => grants'[c].share_id = None]_vars
=============================================================================
