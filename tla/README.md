# A TLA+ model of varco

varco lets a web application (the *consumer*) read and control selected parts
of a Home Assistant installation. The consumer asks for scopes, the owner
approves them in a panel, and from then on Home Assistant's integration (the
*authority*) enforces the stored grant. The two meet through a *bridge*, a
WebSocket relay that knows neither scopes nor keys, and may then talk over a
WebRTC datachannel.

This directory holds the TLA+ modules that model the parts of varco with state,
the TLC configurations that check them on small instances, and the proofs,
checked by TLAPS, that the most important properties hold for every instance.
Paths below are relative to the repository; `authority.py`, `storage.py`,
`relay.py`, `webrtc.py`, `crypto.py`, `dashboard_export.py` and `__init__.py`
are in `custom_components/varco/`, `panel.ts` in `frontend/src/` below it,
`node.ts` and `index.ts` in `bridge/src/`, `client.ts` and the transports in
`packages/client/src/`, `connection.ts` and `http.ts` in `packages/server/src/`.

## 1. The system

### Parts, their state and their operations

| Part | Code | State | Operations |
| --- | --- | --- | --- |
| Authority | `authority.py` | runtime sessions: key, closed flag, subscriptions, outbox; rate windows | messages of consumers (request, authenticate, subscribe, read, call, claim), commands of the owner, state changes of Home Assistant |
| Store | `storage.py`, `models.py`, `audit.py` | access requests, grants, shares, audit log, in memory and on disk | upsert, approve, reject, revoke, delete, restrict, claim; each changes memory and then awaits a write |
| Share links | both of the above, `share_links.py` | shares with a claim counter and an expiry; the claim lock | create, claim, revoke, delete, purge |
| Policy, manifest | `policy.py`, `manifest.py` | none | evaluate restrictions and schedules; validate what is asked for |
| Rate limits | `authority.py:410-421, 551-571` | per-key lists of times | admit or refuse, then record |
| Relay client | `relay.py` | the socket to the bridge, sessions, backoff, terminal flag | connect, answer the challenge, read messages one by one, push deltas |
| Peer stack | `webrtc.py` | peer and channel per session | answer an offer, run a task per message, close |
| Secure session | `crypto.py`, `packages/client/src/transport*.ts` | two nonces per direction | encrypt, decrypt |
| Node bridge | `bridge/src/node.ts`, `logic.ts` | room per authority: authority, unauthenticated authorities, consumers; closing sockets | accept, challenge, forward, evict, time out |
| Cloudflare bridge | `bridge/src/index.ts` | the same room over hibernated sockets | the same |
| Browser client | `packages/client/src/client.ts` | transport, subscriptions, closed flag | connect, reconnect with backoff, resubscribe, upgrade, close |
| Server package | `packages/server/src/connection.ts`, `http.ts` | one connection and its readiness | connect, route requests, close |
| Owner interfaces | `websocket_api.py`, `services.py` | none of the protocol | call the owner commands |
| Owner panel | `panel.ts` | last state, wizard step, dialog, subscription; what stands in the page only | load, render, click, subscribe, attach, detach |
| Dashboard export | `dashboard_export.py`, export section of `panel.ts` | picked dashboard and view, preview, selected entities, link | harvest, pick, tick, share, download a brief |
| Integration setup | `__init__.py` | the authority's identity, the store and the relay of the entry | set up, reload, stop |

### How they interact

    consumer client --ws--> bridge room --ws--> relay client --> authority --> store
          \______________ datachannel ______________/               ^
                                                owner panel, services, state changes

- The bridge passes messages between one authority socket and many consumer
  sockets, and tells the authority when a consumer comes and goes.
- The relay client awaits `handle_client_message` for each message it reads, so
  the relay is one serial lane for the messages of all sessions together.
- Every datachannel message is an asyncio task of its own (`webrtc.py:41-51`);
  so are the owner's commands and the pushes of state changes.
- An asyncio handler can only be interrupted where an `await` really suspends:
  the write to disk (`storage.py:293-295`; memory is changed before it), a
  contended lock, a send, the creation of a WebRTC answer, an executor job.
- A callback of the Node bridge is never interrupted, but closing a socket is
  asynchronous: `ws.close()` starts a handshake, messages still arrive while it
  lasts, and the callback for the close runs later.

### What is hard

1. *Owner commands against live sessions.* The command changes the store,
   suspends, and only then reaches the sessions. Consumers authenticate,
   subscribe and leave in between.
2. *Decisions on what was read before.* A claim waits for a lock with a share
   it read earlier; an approval is written in two steps; a push trusts a
   subscription made under an older grant.
3. *Closes that arrive late.* A replaced authority's socket reports its end
   after its successor took over; a closing socket may still authenticate.
4. *Limits.* The cap on pending requests, a share's claim counter, the room's
   caps, sliding rate windows.
5. *Reconnects.* Sessions survive a lost bridge socket, clients resubscribe
   while the application unsubscribes, a used transport is offered again.
6. *Persistence.* Requests, grants and shares survive a restart, sessions and
   budgets do not, and some operations write twice.
7. *Numbered frames.* Each frame takes a number when it is encrypted and is
   refused unless it comes next, while tasks and callbacks wait in between.
8. *A page over a store that changes.* Loads, commands and announcements
   overlap, and every render throws away what stood in the page only.

`PROJECT.json` lists the hazards with the line where each bites and the
properties that cover it.

### What makes each part correct

- Authority: no feed outlives the end of its grant or contradicts its current
  restrictions; what is granted goes back to what was asked and decided; a
  bounded number of pending requests, one per consumer; a refusal tells the
  truth.
- Share links: no more claims than allowed, every holder counted, nothing
  minted by a closed share, every claim answered, a revoked consumer stays out.
- Node bridge: one authority in charge, the right one; no open consumer that
  the authority does not know and no known consumer that is gone; limits kept;
  nobody stays undecided; consumers are evicted for a reason.
- Policy and rate limits: several entities in one message are judged one by
  one; a schedule runs around midnight; never more than the limit in any window
  or the budget in any span, cooldowns kept, refusals justified, several limits
  counted together or not at all.
- Cloudflare bridge: the same promises, from attachments and the list of open
  sockets alone, and after a restart with new code.
- Client: what the application has subscribed to is what it hears, also after a
  drop, and once; one relay connection at a time; a connection that can come
  back does, unless a handshake hangs; nothing opens after close.
- Server package: every HTTP request is answered, whatever becomes of the
  connection.
- Relay client, peers, secure session: frames are accepted in the order of
  their numbers; the last state a client sees is the last there was; a client
  told that its subscriptions are gone makes them anew; no peer is left behind
  by offers that follow one another; a bridge that refuses the authority is not hammered.
- Store: what was answered is on the disk; every grant on record can be found,
  revoked and deleted; the authority keeps its identity.
- Owner panel: the owner grants what the page says; no click brings an older
  list of restrictions back; at rest the page shows the store.
- Dashboard export: the harvest misses no entity and invents none; a preview is
  of the dashboard picked; a link grants what the boxes say.

## 2. Modules

| Module | Models | Proofs | Instance for TLC |
| --- | --- | --- | --- |
| `Authority` | sessions, requests, grants and feeds of `authority.py` over `storage.py` | `Authority_proofs` | `MCAuthority` |
| `ScopedFeeds` | what `Authority` implements: what a consumer is sent, by what its grant covers | in `Authority_proofs` | `MCAuthority`, through `Authority` |
| `ShareClaim` | `_claim_share` and `async_claim_share` against the owner | `ShareClaim_proofs` | `MCShareClaim` |
| `Policy` | `policy.py` and the targets of a message in `authority.py`, as operators | in `DataPlane_proofs` | with `DataPlane` |
| `DataPlane` | the decision on a data request in `authority.py` | `DataPlane_proofs` | `MCDataPlane` |
| `Quota` | what `DataPlane` implements: decisions by the whole history | in `DataPlane_proofs` | with `DataPlane` |
| `Room` | class `Room` of `node.ts` | `Room_proofs` | `MCRoom`, `MCBridge` |
| `Switchboard` | what both bridges implement: a room by its promises alone | in `Room_proofs` | `MCBridge`, through `Room` |
| `CloudRoom` | the Durable Object of `index.ts`; extends `Room` | in `Room_proofs` | `MCBridge` |
| `Client` | `client.ts` over the transports | in `Server_proofs` | `MCServer` |
| `Server` | `connection.ts` and `http.ts`; extends `Client` | `Server_proofs` | `MCServer` |
| `Panel` | requests, grants and restrictions in `panel.ts` | `Panel_proofs` | `MCScenes` |
| `Export` | the export section of `panel.ts` | in `Panel_proofs` | `MCScenes` |
| `Lovelace` | `dashboard_export.py`, as operators and recursive functions | in `Panel_proofs` | `MCScenes` |
| `Wire` | an encrypted session, both ends: transports, `relay.py`, `crypto.py`, the outbox of `authority.py` | `Wire_proofs` | `MCScenes` |
| `Link` | the reconnect loop of `relay.py` | `Integration_proofs` | `MCScenes` |
| `Peers` | `webrtc.py` and its use in `relay.py` | `Integration_proofs` | `MCScenes` |
| `Store` | memory, disk and index of `storage.py`, setup in `__init__.py` | `Integration_proofs` | `MCScenes` |

Operators whose comment begins with "mutant of" are slightly wrong variants of
the definition that follows them, each a plausible bug. They are used by no
action; substituting one for its definition makes the property named in
`PROJECT.json` fail, which shows that the property depends on that code.

### Authority

A handler is modelled by one or two steps: everything up to the suspension at
the write, and what it does to the state afterwards. A suspended consumer
handler is kept in `lane`, a suspended owner command in `owner`. The relay is
one lane (`Relay`), datachannel messages run in `PeerLanes`, owner commands in
`OwnerLanes`; the numbers of the last two are the number of tasks that may be
in progress together.

| State | Code |
| --- | --- |
| `requests`, `grants` | `data["access_requests"]`, `data["grants"]`; grants keyed by consumer key |
| `consumer_pk`, `closed`, `subscriptions` | the fields of `RuntimeSession` |
| `link`, `peer` | how a session can be reached: over the relay, over a datachannel |
| `lane`, `owner` | the local variables of suspended handlers |
| `now` | `now_provider` |

`AccessRequest` and `Authenticate` end in `BindSession`, `ApproveRequest` in
`WriteGrant`, `RevokeGrant` and `DeleteGrant` in `CloseSessions`,
`SetGrantRestrictions` in `ClearSubscriptions`. `Subscribe`, `Unsubscribe`,
`RefuseRequest`, `RejectRequest` and `CreatePreapprovedGrant` are single steps,
since nothing of theirs that touches the state follows their suspension.
Operations that only read are no steps; what they answer is `DataReply`. A lost
bridge socket (`LinkLost`) leaves runtime sessions and datachannels alone, and
messages and disconnects of the old clients may still come (`Reached`).

### ScopedFeeds

The authority without requests, handlers and channels: what a live grant of
each consumer covers (`covered`), whose a session is (`bound`), what streams to
it (`feeds`), and from whom something is withdrawn that still streams (`due`). A
feed begins only within what is covered at that moment (`Follow`), a session is
bound before anything streams to it and not again until it ends (`Bind`,
`Leave`), and a command that withdraws something ends by cutting off whatever
streams to that consumer (`Withdraw`, `CutOff`). What streams when a grant
expires or is replaced goes on (`Grant`, `Lapse`), as it does in the code; the
second of the violated runs is about that. `KeepsScopes` says that `Authority`
does nothing else; `RevokedFeedsClosed` and `RestrictedFeedsCleared` say of each
state what it says of the steps.

### ShareClaim

One claim is one step when the lock is free (an `asyncio.Lock` is then taken
without suspension), and otherwise waits in `queue`, is woken in order, looks at
the share again and succeeds or fails. The lock is held until the write ends.
Owner commands on shares and on grants, the purge of expired shares and an
approval that replaces a grant run in between.

### Policy, DataPlane and Quota

A data request passes the consumer's budget, the scopes, the restrictions that
need no state (expiry, schedule, PIN, template) and last the rate restrictions;
nothing on this way suspends before the decision, so a message is one step:
`RefuseOverBudget`, `RefuseUnallowed`, `RefuseRate` or `Serve`. `Policy` holds
the stateless part. Its scopes are tuples with a star where the code matches
strings, and a message lists the PIN and template restrictions it meets.

| State | Code |
| --- | --- |
| `spent` | `_data_plane_hits[consumer_pk]`: an entry of weight w is w units of a call |
| `hits` | `_rate_hits[(grant_id, restriction_id)]`: a time in the list is the call that entered it |
| `enabled` | the restrictions of the grant whose switch is on |
| `now` | `now_provider` and `monotonic_provider` |
| `at`, `cost`, `counted`, `answer` | history: when a call was charged, what, which rules counted it; the last reply |

The lists only live as long as they are needed: each message prunes the list of
the consumer, each reached restriction its own. `Quota` is the same authority
without lists: it judges each message by the complete history. `DataPlane`
implements it (`DecidesByHistory`), so pruning is never visible in an answer.
Restrictions have different ids, as the panel gives them, and keep limit and
windows while the switch is used; without an id, restrictions would share a
list (`authority.py:556`).

### Room

Each callback is one step. `socket` tells apart open, closing (handshake
started, messages still delivered), failed ("error" handled, "close" to come)
and closed. `known` is what the authority has been told: the sessions that
`relay.py` would hold. A socket over the limit for unauthenticated authorities
is closed before its handlers are bound; a consumer turned down has them bound
all the same, as in the code, so that its messages are still forwarded.

### CloudRoom

The object keeps no list: `hosts` and `guests` are what `getWebSockets` returns,
where a closed socket stays until its end is reported, and what a socket is
stands in its attachment (`role`, `authed`, `pending`). `authority` and `known`
become history. `alarm` is the one deadline the object can set. An input gate
holds events back while a handler awaits its storage, so a handler is one step;
`oldestFirst` leaves the order of `getWebSockets` open. `MCBridge` chooses the
platform at the start and checks the same properties of both.

### Switchboard

What a room is for whoever meets in it, without sockets, closes and timers: a
connection comes once (`Claim`, `Serve`, `TurnAway`), one authority takes charge
and then serves nobody (`TakeCharge`), a consumer is served from the moment it
comes until it goes and never afterwards (`Serve`, `Go`, `StepDown`), and the
authority in charge knows all that are served (`Go` keeps `served` within
`told`). `Room` maps its state to it in `Board`: who is served are the consumers
whose socket is open, `told` is `known`. `IsSwitchboard` says that every step of
a room is a step of it or changes nothing it speaks of. That the authority may
be told of a consumer that is turned away, or hear of one again, is in `Hear`:
the code does both.

### Client and Server

JavaScript runs to the next await, so a step is what runs between two. `boot`,
`attempt` and `upgrade` say where connect(), the reconnect loop and each
performUpgrade() wait, and over which relay connection they began. Each relay
connection `t` has its transport (`conn`), the authority's session (`session`,
`held`) and a datachannel negotiated over it (`chan`); `relay` and `active` are
`relayTransport` and `activeTransport`. `listed`, `origin`, `current` and
`callbacks` are the two maps of subscriptions and the records in them, `app`
what the application has called. A request is answered or fails in one step;
failures of what could have worked are bounded by `MaxFaults`.

`Server` adds the HTTP requests and wakes those that wait whenever the status
listener sets `ready`. Its client has `kind = "server"`, which supplies the same
transport object at each reconnect.

### Panel and Export

The store, and what is announced of it, are those of Home Assistant and
external: it serves commands and reads in the order they were sent. `shown` is
`_lastState`, `loads` the two awaits of each load() under way, `step` and
`confirm` fields of the element. Loads end in the order they began, but for
those that are rejected: an error ends a load while earlier ones still wait for
their dashboards and render after it (`LoadFails`). `failed` remembers that the
load that began last was rejected. A subscription that is refused is swallowed
by the code (`SubscribeFails`, remembered in `refused`) and asked for again when
hass is set (`SetHass`) or the panel attached. What is in the page only (`ticked`, `expiry`,
`summary`, `dialog`, `busy`) starts anew with each `Render`, which is part of
every action that renders. In `Export` each operation increments a number and
its replies come in any order (a harvest's in theirs, since
`build_dashboard_export` awaits nothing).

### Lovelace

Configurations are JSON values as tagged tuples, `Walk` follows `_walk_card`,
and `HarvestTrue` compares what it finds with a language of paths: the entities
are the texts at the ends of paths a dashboard may spell. The code's recursion
is a recursive function over `Values`, the JSON values that occur, of which
`Depth` says how deep they are nested: a part of a value is one of them, and is
less deep. Any set of JSON values that has the parts of its members is such a
set. `MCScenes` works both out from its dashboards.

### Wire

A frame is a number and its content, from the end of the handshake on. `cSend`,
`cRecv`, `sSend` and `sRecv` are the four counters. On the client a number is
taken before WebCrypto is awaited (`sealing`, `opening`); the Noble library
waits for nothing. At the authority a frame is encrypted and written in one go,
and the next frame of the same loop waits until the socket drains. `lane` is the
relay's loop, `order` a command of the owner that flushes the outbox, `pushes`
the tasks that push a state. The bridge passes frames on in order.

### Link

`phase` is where `_run` waits, `delay` and `failures` are its variables, and
`attempts` and `rejections` record when it tried and when it was turned away.
`Times` is when attempts would be made that all fail at once: the waits double
up to `Cap`, and the last of the list is the first that is `Stable` after the
start. The code's own numbers give 0, 1, 3, 7, 15, 31, 63.

### Peers

`peers` and `channels` are the two dictionaries; `pc` and `channel` are the
connections and channels themselves, those no dictionary lists included.
`answer` is where the `create_answer` of each connection waits: for the close of
an earlier peer (`before`), or for the answer. An offer comes through the
relay's loop, which then waits for it (`loop`), or over an open datachannel of
the session, as a task of its own: these overlap with one another, with an offer
over the relay and with the end of the client. Where that happens during a
replacement, or an offer follows the end (an access request over the datachannel
brings the session back), the code may leave a peer behind; `overlapped`
remembers the sessions, and the two properties except them. `ending` is what
`close_all` took and closes one after the other.

### Store

A save replaces the file by what memory holds, and the command waits; every
command saves a second time for its audit line, and an approval three times in
all. `task` is what each waits for. A stop leaves the file. A reload makes a new
store over the same file, and what was under way goes on with `earlier`.
`index` is `_grant_index`, `used` the identities the relay was started with.

### Scenes

`Panel`, `Export`, `Lovelace`, `Wire`, `Link`, `Peers` and `Store` share no
state. `MCScenes` plays one of them in each behaviour, chosen at the start, so
that one run explores them one beside the other and not their product.

## 3. Runs

Every run but `data_plane` ends without a deadlock check, as the system may
rest: nobody is obliged to send anything, and ids and sockets are used once.

| Run | Question | Instance |
| --- | --- | --- |
| `authority_feeds` | Does a feed survive a revocation, deletion or new restriction? Does every feed begin within its grant, as in `ScopedFeeds`? Does every revoked feed end? | 1 consumer, 1 session, 1 request, 1 entity, 1 datachannel lane, 2 owner lanes, clock 0..1 |
| `authority_requests` | Do requests filed, repeated, dropped and decided in any order keep their slots, and can a grant always be traced to a decision? | 3 consumers over 3 requests with a cap of 2, 1 owner lane |
| `share_claims` | Do claims of two consumers on the relay and two datachannel lanes keep the counter right, and are they answered? | 2 consumers, 1 share, limits 1 and 2, clock 0..1 |
| `data_plane` | Do the pruned lists keep limits and the budget and answer as the whole history would? Are several targets judged one by one, schedules around midnight? | 3 calls of 14 messages, 5 restrictions in 4 settings, budget 7 in 2 ticks, clock 0..4, days of 3 ticks |
| `bridge_room` | On Node and on Cloudflare: is the right authority in charge, are open consumers served and ended ones reported, nobody handed over to a successor? Does a room do what a `Switchboard` does? Is nobody left undecided? | 4 sockets in any role, 1 consumer, 2 pending authorities |
| `client` | Are subscriptions heard, once, through drops, upgrades and close()? Does a lost connection come back, is every HTTP request answered? | a browser with any of 4 strategies, on a relaying or signaling-only bridge, or a server with 2 HTTP requests; 2 relay connections, 1 callback, 2 ids, 2 faults |
| `scenes` | The questions of section 1 about panel, export, harvest, session, reconnects, peers and store | ten scenes, see below |
| `authority_answers` | `errors.mdx`: does `grant_revoked` mean that a grant was revoked? | violated |
| `authority_deltas` | `README.md`: does the stored grant cover every state that is pushed? | violated |
| `share_reclaim` | `home-assistant.mdx`: can a revoked consumer get back in by itself? | violated |
| `bridge_eviction` | `bridge-endpoints.mdx`: does 4404 mean that the authority is offline or was replaced? | violated |
| `server_reconnect` | `connection.ts`: is a server whose connection was lost ready again? | violated |

### Why the bounds are enough

- The feed properties speak of one session, its key and one owner command at a
  time; a second owner lane lets a command overtake another (revoke during
  approve, restrict during delete), and a datachannel lane next to the relay
  lets two handlers of one session be suspended together. A clock with two
  values has grants that are live, that expire and that never do. The theorems
  below remove these bounds for the safety properties.
- A cap of two with three consumers is reached, exceeded and freed again;
  dropping has a choice of victims. Consumers and requests are symmetric there
  (no temporal property is checked in that run).
- Three lanes over one share queue two claims behind one that saves, so a claim
  can fail and let the next one in. `Limits` of 1 and 2 exhaust the share with
  one and with two claims.
- Three calls over a limit of two fill a window, are refused and are let in
  again when it has moved on; the restriction with a window of one tick and a
  cooldown of two prunes what its cooldown still needs, unless it does it
  right. A budget of 7 is reached by weights 5 and 2 and missed by 5 and 5. The
  clock runs into the second day, with a schedule from 2 to 0 o'clock of three.
  Calls are interchangeable (symmetry; the only temporal property checked,
  `DecidesByHistory`, is a safety property).
- Four sockets give a replaced authority, its successor, a third connection
  that never authenticates, and a consumer, all at once; and on Cloudflare two
  deadlines for one alarm.
- Two relay connections give an old datachannel next to a new relay, two ids a
  subscription made before and after a reconnect, two faults a failed
  resubscription and a failed retry. Relay connections that run out are excepted
  from `Recovers` (`Spent`).
- *request*, *grant*, *visit*: two versions of the store, two clicks and two
  loads under way are a load overtaken by a change and a click on what is
  already old; in *visit* the panel is attached twice, with one click, a later
  load fails beside an earlier one, and a subscription is refused and asked for
  again. One request with one scope and one grant with two restrictions (one of
  them is always added first: they differ in their names only), since the page
  renders as a whole.
- *export*: five operations on two dashboards with two views over three
  entities: a pick overtaken by a pick, ticks and a share in between.
- *harvest*: 6570 dashboards: each kind of card and row, nested twice under each
  key that holds cards, as a whole, by view, and with picks.
- *wire*: two requests, two events (one with WebCrypto, whose answers come in
  any order), an outbox of one, which every second notice overflows.
  A session that is served first does not end there: `LatestSeen` speaks of one
  that goes on.
- *link*: seconds scaled down: waits of 1 to 4, stable after 4, a pause of 6
  after two rejections, at most 3 attempts in any 4 seconds, up to second 11.
- *peers*: two sessions and three connections: two offers of a session over its
  datachannel while the first connection closes, or a session's successor while
  another session offers. Sessions are interchangeable (symmetry; the run checks
  no temporal property).
- *stop*, *reload*: three changes of a consumer's grant by two tasks of the owner
  (interchangeable as well) and the relay's loop with a stop, and by one task at a time with a reload.
  Consumers share nothing but the file, which is written as a whole. The first start may find an
  identity that an older version left in the entry.

### Fairness

`FairSpec` of `Authority` and of `ShareClaim` is weak fairness of the steps
that resume a suspended handler: the write to disk ends, and a woken waiter
runs. No fairness is assumed of consumers, owner or clock. `FairSpec` of `Room`
is weak fairness of the authentication timer and of the end of a closing
handshake, which `ws` enforces after 30 s by itself; on Cloudflare, of the alarm
and of the closing handshake. `ServerSpec` is weak fairness of the timers of
both loops, of requests under way (each ends with an answer, an error or the timeout
of 30 s), of the notice of a lost connection, of a datachannel whose session has
ended, and of the steps of a request handler, whose wait has a timer of its own.
It assumes nothing of the application, of close() or of faults, and nothing of
handshakes: the transports await one without a timer (`transport.ts:119`,
`transport-noble.ts:151`), so that one may hang. `Recovers` and `ServerReturns`
therefore suppose that none does (`HandshakesEnd`); `AnswersAll` does not need
it. With that, `RevokedFeedsEnd`, `ClaimsAnswered`, `PendingResolved`,
`Recovers` and `AnswersAll` hold, and `ServerReturns` fails.
The scenes are checked for safety only.

### What the violated runs show

1. `GrantRevokedMeansNoGrant`: a consumer that files a request is bound to its
   key at once. If it sends a data request before the approval, the session is
   marked closed (`authority.py:430`), which is never undone: with the grant
   active, the session still answers `grant_revoked`.
2. `DeltasWithinGrant`: `state_changed` (`authority.py:283`) looks at
   subscriptions alone. A feed goes on after its grant expires, and after a
   narrower grant takes its place.
3. `RevokedStaysOut`: `_claim_share` (`authority.py:375`) refuses a consumer
   with a live or expired grant, and lets one with a revoked grant claim again.
4. `EvictedOnlyOffline`: `closed()` (`node.ts:179`) evicts the consumers of
   whichever authority is in charge when any socket of the authority role ends,
   a replaced or unauthenticated one included.
5. `ServerReturns`: `ConnectionManager` says that the client reconnects by
   itself once it has connected (`connection.ts:8`). It always supplies its
   transport (`connection.ts:26`), the client takes a supplied transport at
   every attempt (`client.ts:18`), and that one is closed: each attempt fails,
   and requests are answered 503 until the process is restarted. A first
   handshake that failed is remembered by the transport in the same way.

### What the models show besides

Behaviours met on the way that no document rules out; properties are stated so
as to except them, in words that say so.

- Client: close() from a status listener or during an upgrade leaves a
  connection open; unsubscribe() during a resubscription leaks the
  subscription; late events of an old datachannel tear down a healthy
  connection, and an upgrade that ends after a reconnect makes an old channel
  active; the handshake has no timeout, and the reconnect loop ends at one that
  hangs; two WebCrypto requests at once may be
  sent in the wrong order and the second be refused (`transport.ts:172`).
- Cloudflare: the lingering socket of a replaced authority may be found before
  its successor, and consumers are turned down; an answer to the challenge on a
  socket that has timed out closes the authority in charge.
- Panel: a render ticks all boxes again while the wizard stays on its page; two
  quick clicks on restrictions lose one; a panel attached again shows
  "Loading" until something changes; one detached while it subscribes leaks the
  subscription; one whose subscription is refused hears of no change until hass
  is set again, and says nothing; when the load that began last is rejected, an
  earlier one renders a store that is older than what was announced.
- Export: the reply to a share may come after the selection changed; of two
  operations at once the first to end takes the loading mark of both; leaving a
  dashboard while it loads, or a view whose harvest fails, leaves the older
  preview.
- Harvest: rows that are maps without an entity are dropped without a warning,
  and so are cameras named outside camera cards.
- Session: behind frames of other sessions, or of another subscription, pushes
  may be written in the wrong order (`LatestSeen` speaks of the first served);
  the notice that subscriptions are gone may come before the answer that makes
  one (`FeedsServed` speaks of the Noble client without a datachannel).
- Peers: two offers over a datachannel, or one beside an offer over the relay,
  may both wait for the earlier peer to close; the one that is stored first is
  overwritten and never closed (`webrtc.py:27`), and its datachannel may take the
  place of the present one (`webrtc.py:32`). A client that leaves meanwhile, or
  comes back by an access request over the datachannel (`authority.py:356`),
  leaves a peer too. A connection being made while its predecessor closes is not
  closed by the end of the integration.
- Store: a stop between the writes of an approval that was not answered leaves
  an approved request without a grant. A command under way when the entry is
  reloaded writes the file from the data of the earlier store, without what was
  saved since (`__init__.py:49`); `Durable` excepts it.

## 4. Proofs

All theorems are about the specification of their module, for all values of the constants under the
assumptions named in the modules (`None` is no consumer, limits are positive,
sets that are counted are finite). Each follows the same lines: an inductive
invariant, a lemma per action or group of actions, and a temporal step.

| Module | Theorem | Argument |
| --- | --- | --- |
| `Authority_proofs` | `Typing` | `TypeOK` is inductive |
| | `GrantsTrace` | `TraceInv` adds that the property also holds of the grant carried by an approval between its two writes: that request is decided already, so no later request takes its slot and no trim drops it |
| | `SlotsBounded` | `SlotInv`: finiteness of the pending set, and that filing adds one member and trimming removes one |
| | `RevokedFeeds`, `RestrictedFeeds` | `FeedInv` over `BindingInv`, see below |
| | `ScopesKept` | refinement: under `BindingInv` every handler is a step of `ScopedFeeds` or none. Without it `BindSession` would not be one: it takes that a session without a consumer streams nothing, and that one with a consumer is bound to the same again |
| `ShareClaim_proofs` | `Typing`, `CapKept` | a claim counts itself only while the share is not exhausted, as looked at under the lock |
| | `HoldersKept` | `CountInv` with `UnusedFresh` (a share not yet created has no holder): minting adds at most one holder and one claim |
| | `ClosedSharesMintNothing` | an action property, from `TypeOK` and the case split of `Next` |
| `DataPlane_proofs` | `Typing` | `RateInv`: what is missing from a list is out of the budget's span, out of the window and past the cooldown (`SpentInv`, `HitsInv`) |
| | `Implements` | under `RateInv` the lists hold, of each window, exactly what the history does (`SpentExact`, `HitsExact`), so every step is a step of `Quota` |
| | `LimitsHold`, `BudgetHolds`, `CooldownsHold` | a served call adds itself to what a rule counts, after the list had room for it |
| | `TargetsJudged` | scopes are conjunctions and selectors disjunctions over the targets, and the targets of a message on one entity are that entity |
| | `SchedulesRound` | arithmetic modulo the length of the day |
| `Room_proofs` | `Typing`, `InCharge`, `Served`, `NoGhosts` | `RoomInv`, the conjunction of all with `NewUnbound` (a socket not yet accepted has no role and is nowhere listed): each property needs the others, e.g. evicted consumers are closing because they were listed |
| | `Bounded` | cardinalities of the listed sets grow by one and only below the limit |
| | `CloudTyping`, `CloudInCharge`, `CloudServed`, `CloudBounded` | `CloudInv`, which adds that the sockets that count are among those the platform lists (`Shown`) |
| | `CloudNoGhosts` | `InFront`: as soon as the authority in charge knows of a client, it is the first candidate in the platform's order, so the end of a client is reported to it. That a set of sockets has a first one in either order is proved from the well-founded order of the naturals |
| | `NodeIsSwitchboard`, `CloudIsSwitchboard` | refinement: under `RoomInv`, or `CloudInv`, and `Undecided` (`pending` are the connections of the authority role that are read from and not authenticated), each callback is a step of `Switchboard` or leaves its state alone. The invariants say that a consumer that is served is known (else `Go` is no such step), that one who authenticates was waiting, and that a replaced authority leaves nobody open |
| `Server_proofs` | `ServerTyping`, `NobodyLeft` | where the loops wait (`LoopTyped`) with the types; a status that sets `ready` wakes every waiter, and so does close() |
| | `OneRelayHolds` | `RelayInv`: connections are made one after the other, and the last is unused while an attempt begins |
| | `HeardOnceHolds` | `HeardInv`: a callback is entered under the id that is current, and only once it was asked for |
| | `SubscribedHearsHolds` | `HearInv`: the loop and, unless a channel of an earlier relay is active, the active transport are at the relay in use (`LoopPlaced`); ids are of their callback and a subscribed one is listed (`RecordsOwned`); what the loop has visited is held by the session in use, however the application subscribes meanwhile (`Moved`); so that where the loop ends with every listed record visited all are heard (`Settled`), and it ends otherwise only when a connection is barred |
| | `RestHolds` | an action property: no action that opens anything is enabled at rest |
| `Panel_proofs` | `PanelTyping`, `SummaryHolds`, `RulesHold`, `CurrentHolds` | `PanelInv`: the subscription, or its refusal, and the loads under way account for every change (`Linked`), the load that began last, unless it was rejected, brings what the store has (`Fresh`, `OnTime`): removing an earlier one leaves it the last (`Removed`); and a list clicked on the page is the owner's latest (`Willed`) |
| | `SelectionHolds`, `PreviewHolds` | `InLine`: harvests are answered in order, so the last asked for is the last to come |
| | `LinkHolds` | `LinkInv`: without overlap a share under way, or shown, is of the boxes |
| | `HarvestHolds` | induction on `Depth`, see below |
| `Integration_proofs` | `StoreInductive` | `StoreInv`: a command belongs to the store in use while that is up, or to the earlier one (`Placed`); no store is ahead of the count of changes (`Dated`); and the parts below |
| | `ReportedIsDurable` | `Promised` and `MemoryDurable`: what a command is going to report is in memory, and memory has all that was reported, so every write, whoever makes it, puts it on the disk |
| | `GrantsFound` | the index is what memory says, under either id |
| | `OneIdentity` | either nothing was shown and nothing is on record, or one identity is what the next start will find (`KnownAs`) |
| | `LinkInductive`, `BridgeSpared` | `LinkInv`: n attempts back, the attempt lies as far as the first n waits of the sequence add up to, or at least Stable, and the wait that follows is no shorter than the next of the sequence (`Paced`); from the TerminalAfter-th rejection on, the next attempt is Long after the last one (`Patient`) |
| | `PeersInductive`, `NothingLeftBehind`, `ChannelsKept` | `PeersInv`: what a session has is its own, runs, and is not on `close_all`'s list (`Owned`); while `create_answer` waits for the end of its predecessor the new connection has no channel and nothing ends it, and, unless something overlaps, it is the only one that waits and the session has no other (`Held`); nothing is being ended before the stop (`Unended`) |
| `Wire_proofs` | `WireInductive` | `WireInv`, the conjunction of the parts below with the types |
| | `FramesInStep` | `DownInStep` and `UpInStep`: the numbers under way run from what one end expects to what the other will write; a frame that is still being encrypted, when that is done in one go, has the last one |
| | `ListenersFed` | `Owed`: while the client listens and is not fed, a notice comes after the answer that would make it listen. It takes that the subscription is asked for once (`Once`) and that the notices of a session that is open are of restrictions (`NoticesTame`) |
| | `LatestReaches` | `LatestComes`: the last push raised, or else the last that waits, or else the last content under way with a value, has the present state; or there is none and the client has seen it |

`RevokedFeeds`, `RestrictedFeeds` and `ScopesKept` are proved under the hypothesis
`OneKeyPerSession`: the client behind a session signs with one key, as the
clients in `packages/` do. Without it they are false: a session may bind to a
second key and keep the subscriptions made under the first
(`authority.py:356`), after which commands on the first key do not reach it.
The run that checks the three properties therefore gives each session one key.
`BindingInv` says who a session can be bound to and that a streaming session is
bound; `FeedInv` adds that the grant of its key is active and the entity not
denied, or that the command that changed this is still on its way. An approval
in progress carries no denials and a live status, which is why the replacement
of a grant keeps the invariant.

`HarvestHolds` is about every dashboard, not those of the run. A recursive
function over `Values` is determined by what it says of the parts of a value
(`Recursion`, from the well-founded order that `Depth` makes of them), which
gives `Refs`, `Named`, `Walk` and `Leaves` the equations they are defined by; and
what holds of a value as soon as it holds of its parts holds of all (`ByDepth`).
So the proofs go down a dashboard with the code: below `entity` and `entities`
the code finds the texts at the ends of paths through rows (`RefsTrue`); from a
map on, those behind keys that hold no card (`NamedTrue`); from a card on, those
behind cards (`ReadTrue`). Each takes what is left of a path after its first
step (`After`), and what such a remainder may look like (`SplitsAre`,
`PartedAhead`, `SingleAhead`): where the code reads one list and no list within
a list, a path that names an entity has no two steps into lists in a row. The
cases in which code and paths must agree are the keys, so a key that the code
skipped, or searched with the wrong function, would be a case without a proof.

What is only model-checked: the five liveness properties (`RevokedFeedsEnd`,
`ClaimsAnswered`, `PendingResolved`, `Recovers`, `AnswersAll`), as TLAPS has no
fairness reasoning for them here, and the five violations, which are
counterexamples. Every safety property that a run checks is a theorem.
Type invariants are proved, where a module has proofs, and not run. `RoomBounds`,
`NobodyLeftWaiting`, `SelectionAgrees`, `OpenConsumersServed` and `CooldownsKept`
are proved only: the first two bound what `PendingResolved` and `AnswersAll`
resolve, the third is a part of `LinkAsSelected`'s argument, and the last two say
of states what the refinements checked in their place, `IsSwitchboard` and
`DecidesByHistory`, say of steps.

## 5. What is not modelled

- Cryptography, key formats, pairing codes, message framing: libraries, or
  conversions no property is about. A signature check either passes for the
  key's holder or the message is refused.
- The five scope lists of a manifest are one set of entities, and a grant's
  restrictions the set of entities they deny at that time, in `Authority`;
  `DataPlane` has scopes and restrictions as they are, for one grant.
- Parsing of times, days and PINs, and the rendering of templates: a
  restriction that cannot be read denies, which `RuleAllows` has as the
  unknown type.
- The catalog, the warnings and the text of a brief; the panel's form for
  sharing single entities, its search and activity list; `panel.js`, which is
  generated from `panel.ts`; styles. They render and decide nothing.
- Bridges: HTTP routes, origin policy and the message budgets as numbers (a
  message over the budget is a message that is refused).
- The relay's handshake with a client, and the status it shows the owner; audit
  lines and notifications; `async_purge_expired_grants`, which nothing calls.
- Validation of manifests: conversions and checks of one value.
- WebRTC negotiation on the client, which is one step that works or fails.
- The share page, the development environment, the examples and the tests.

## 6. Plan

Done: the authority and what it promises, share links, policy and rate limits,
both bridges and what they promise together, client and server package, panel
and export, session, reconnects, peers and store.
Left, ordered by how much of the system's promise depends on each:

1. `Authority`, `Wire` and `Room` composed on a signaling-only bridge, where the
   relay pushes deltas the bridge closes the connection for (`relay.py:227`).
2. `ShareClaim` with the sessions of `Authority`, and `Client` with `Authority`
   for the agreement on subscriptions.
3. Restrictions edited in place and restrictions that share a list; message
   budgets of the bridges.
