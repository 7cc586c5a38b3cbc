--------------------------------- MODULE Client ---------------------------------
(***************************************************************************)
(* The client of packages/client (client.ts over transport.ts): one relay  *)
(* connection at a time, a reconnect loop with backoff, subscriptions that *)
(* are made anew after a reconnect, and an upgrade to a WebRTC datachannel *)
(* over the session of the relay.                                          *)
(*                                                                         *)
(* JavaScript runs to the next await, so a step is what runs between two:  *)
(* a reply or failure of the request that is awaited and all the code up   *)
(* to the next one.  Sessions of the authority (external) answer requests; *)
(* the authority drops a session some time after its relay connection is   *)
(* gone.  A session pushes deltas for the subscriptions it holds over any  *)
(* open path: what a callback hears is read off the state.                 *)
(*                                                                         *)
(* Abstracted: encryption, request ids, payloads.  A request is served and *)
(* answered in one step, or fails: at once when its path is down, and by a *)
(* timeout, an error reply or a lost connection as often as MaxFaults      *)
(* allows.  The option reconnect is on.                                    *)
(***************************************************************************)
EXTENDS Naturals, FiniteSets

CONSTANTS
  Cbs,         \* callbacks of the application, one subscription each
  Kinds,       \* applications to consider: "browser", "server"
  Strategies,  \* connection strategies of browsers to consider
  Modes,       \* is the bridge signaling-only? (subset of BOOLEAN)
  MaxRelays,   \* bound: connections a client makes
  MaxIds,      \* bound: subscriptions the authority makes for a callback
  MaxFaults    \* bound: failures of what could have worked

ASSUME BoundAssumption ==
  MaxRelays \in Nat \ {0} /\ MaxIds \in Nat \ {0} /\ MaxFaults \in Nat
ASSUME ChoiceAssumption ==
  /\ Kinds \subseteq {"browser", "server"} /\ Modes \subseteq BOOLEAN
  /\ Strategies \subseteq {"relay", "webrtc-first", "webrtc-only", "optimistic"}

Relays == 1..MaxRelays
Paths  == {"relay", "p2p"} \X Relays
Ids    == Cbs \X (0..MaxIds)  \* 0: none yet

VARIABLES
  kind, strategy, signaling,  \* choices that stay: see Kinds, Strategies, Modes
  faults,        \* failures so far
  conn,          \* RelayTransport: "new", "idle", "open", "down", "barred"
  session,       \* the authority's side of it: "none", "live", "ended"
  held,          \* the subscriptions of that session
  chan,          \* DataChannelTransport over it: "none", "open", "failing", "dead"
  relay,         \* relayTransport
  active,        \* activeTransport
  stale,         \* history: since Dial, a channel of an earlier relay became active
  upgrade,       \* the relays over which a performUpgrade is under way
  closedByUser, reconnecting,
  status,        \* transportStatus.detail
  ready,         \* what the listener of the status makes of it (ConnectionManager.ready)
  boot,          \* connect(): where it is and the relay it began with
  attempt,       \* tryOnce(): the same, and what the resubscription awaits
  listed,        \* the records in subscriptions
  origin,        \* their keys there
  current,       \* record.currentId
  callbacks,     \* the keys of callbacks; the value is the callback of the record
  app,           \* what the application has called: <<state>>, with the path and id of a pending request
  made           \* subscriptions the authority has made for each callback

net    == <<conn, session, held, chan>>
choice == <<kind, strategy, signaling>>
subs   == <<listed, origin, current, callbacks, app, made>>
ctl    == <<relay, active, stale, upgrade, closedByUser, reconnecting, boot, attempt>>
vars   == <<choice, faults, net, ctl, status, ready, subs>>

Supplied == kind = "server"

IsOpen(p) == IF p[1] = "relay" THEN conn[p[2]] = "open" ELSE chan[p[2]] = "open"
Works(p)  == IsOpen(p) /\ session[p[2]] = "live"

\* On a signaling-only bridge data over the relay is answered by relay_disabled
\* and the end of the connection (code 4405), which no loop recovers from.
Barred(p) == signaling /\ p[1] = "relay" /\ Works(p)

\* A request on the path is answered; or it fails.
Answers(p) == Works(p) /\ ~Barred(p)
Fails(p) ==
  /\ ~Barred(p) /\ (p[1] = "relay" => conn[p[2]] # "idle")
  /\ IF Works(p) THEN faults < MaxFaults /\ faults' = faults + 1 ELSE UNCHANGED faults

\* What the error says of a request over this relay that failed.
Reasons(t) == IF conn[t] = "barred" THEN {"signaling", "other"} ELSE {"other"}

\* A session pushes the deltas of a subscription it holds.
Hears(c) ==
  \E t \in Relays :
    /\ conn[t] = "open" \/ chan[t] = "open"
    /\ current[c] \in held[t] \cap callbacks

SetStatus(detail) == status' = detail /\ ready' = (detail # "reconnecting")

-----------------------------------------------------------------------------
(* The reconnect loop. *)

MayReconnect == ~closedByUser /\ ~reconnecting

\* mutant of Begin: the old connection is left open
BeginOnly(c) ==
  /\ reconnecting' = TRUE
  /\ attempt' = <<"start", relay>>
  /\ SetStatus("reconnecting")
  /\ conn' = c

\* tryOnce up to its first await.  The listener of the status may call close()
\* before the loop goes on.
Begin(c) ==
  /\ reconnecting' = TRUE
  /\ attempt' = <<"start", relay>>
  /\ SetStatus("reconnecting")
  /\ conn' = [c EXCEPT ![relay] = "down"]

\* scheduleReconnect, called by any transport the client ever had, when the
\* connections are as c says.
ScheduleReconnect(c) ==
  IF MayReconnect
    THEN Begin(c)
    ELSE conn' = c /\ UNCHANGED <<reconnecting, attempt, status, ready>>

\* The next relay and the wait for its handshake.  A supplied transport is
\* taken again, though it is closed.
Dial ==
  /\ attempt[1] = "start"
  /\ Supplied \/ relay < MaxRelays
  /\ LET t == IF Supplied THEN relay ELSE relay + 1 IN
       /\ relay' = t
       /\ active' = <<"relay", t>> /\ stale' = FALSE
       /\ attempt' = <<"auth", t>>
       /\ conn' = IF Supplied THEN conn ELSE [conn EXCEPT ![t] = "idle"]
  /\ UNCHANGED <<choice, faults, session, held, chan, upgrade, closedByUser, reconnecting,
                 status, ready, boot, subs>>

\* mutant of TimerFires: goes on after close()
TimerFiresAnyway ==
  /\ attempt[1] = "timer"
  /\ Begin(conn)
  /\ UNCHANGED <<choice, faults, session, held, chan, relay, active, stale, upgrade, closedByUser,
                 boot, subs>>

\* The backoff is over.
TimerFires ==
  /\ attempt[1] = "timer"
  /\ IF closedByUser
       THEN /\ reconnecting' = FALSE
            /\ attempt' = <<"none", relay>>
            /\ UNCHANGED <<conn, status, ready>>
       ELSE Begin(conn)
  /\ UNCHANGED <<choice, faults, session, held, chan, relay, active, stale, upgrade, closedByUser,
                 boot, subs>>

\* mutant of AttemptFails: any error ends the loop
AttemptFailsForGood(reason, detail) ==
  reconnecting' = FALSE /\ attempt' = <<"none", relay>> /\ SetStatus(reason)

\* The catch of tryOnce: reason is what the error says, detail the status so far.
AttemptFails(reason, detail) ==
  IF reason = "signaling"
    THEN /\ reconnecting' = FALSE
         /\ attempt' = <<"none", relay>>
         /\ SetStatus(reason)
    ELSE /\ attempt' = <<"timer", relay>>
         /\ UNCHANGED reconnecting
         /\ SetStatus(detail)

\* The loop over the subscriptions takes a record it has not visited, over the
\* transport that is active by then; records added meanwhile are visited too.
Resubscribe(visited, path, detail) ==
  /\ SetStatus(detail)
  /\ IF listed \subseteq visited
       THEN reconnecting' = FALSE /\ attempt' = <<"none", relay>>
       ELSE /\ \E c \in listed \ visited :
                 attempt' = <<"resub", relay, visited \cup {c}, c, path>>
            /\ UNCHANGED reconnecting

\* mutant of Replace: sets the new id before it deletes the record's
ReplaceSwapped(c, id) == callbacks \ {id}

\* mutant of Replace: the callback stays under the old id as well
ReplaceAdd(c, id) == callbacks \cup {id}

\* Lines 103-105: the callback of the record moves to the new id.
Replace(c, id) == (callbacks \ {current[c]}) \cup {id}

\* The authority makes a subscription in the session of the path.
Makes(c, p) ==
  /\ made[c] < MaxIds
  /\ made' = [made EXCEPT ![c] = @ + 1]
  /\ held' = [held EXCEPT ![p[2]] = @ \cup {<<c, made[c] + 1>>}]

ResubscribeAnswered ==
  /\ attempt[1] = "resub"
  /\ LET c == attempt[4]
         p == attempt[5]
         id == <<c, made[c] + 1>> IN
       /\ Answers(p) /\ Makes(c, p)
       /\ callbacks' = Replace(c, id)
       /\ current' = [current EXCEPT ![c] = id]
       /\ Resubscribe(attempt[3], active, status)
  /\ UNCHANGED <<choice, faults, conn, session, chan, relay, active, stale, upgrade, closedByUser,
                 boot, listed, origin, app>>

\* The authority may have served what the client gives up on.
ResubscribeFails ==
  /\ attempt[1] = "resub"
  /\ LET c == attempt[4]
         p == attempt[5] IN
       /\ Fails(p)
       /\ UNCHANGED <<made, held>> \/ (Works(p) /\ Makes(c, p))
       /\ \E reason \in IF p[1] = "relay" THEN Reasons(p[2]) ELSE {"other"} :
            AttemptFails(reason, status)
  /\ UNCHANGED <<choice, conn, session, chan, relay, active, stale, upgrade, closedByUser, boot,
                 listed, origin, current, callbacks, app>>

ResubscribeBarred ==
  /\ attempt[1] = "resub"
  /\ Barred(attempt[5])
  /\ conn' = [conn EXCEPT ![attempt[5][2]] = "barred"]
  /\ AttemptFails("signaling", status)
  /\ UNCHANGED <<choice, faults, session, held, chan, relay, active, stale, upgrade, closedByUser,
                 boot, subs>>

-----------------------------------------------------------------------------
(* establish(), for connect() and for the loop. *)

Connect ==
  /\ boot[1] = "none"
  /\ boot' = <<"auth", relay>>
  /\ conn' = IF conn[relay] = "new" THEN [conn EXCEPT ![relay] = "idle"] ELSE conn
  /\ UNCHANGED <<choice, faults, session, held, chan, relay, active, stale, upgrade, closedByUser,
                 reconnecting, attempt, status, ready, subs>>

\* The answer to authenticate.  The upgrade of "optimistic" goes on in the background.
Upgrades  == strategy # "relay"
AwaitsIt  == strategy \in {"webrtc-first", "webrtc-only"}

Authenticated(t) ==
  /\ conn[t] = "open"
  /\ session' = [session EXCEPT ![t] = "live"]
  /\ upgrade' = IF Upgrades THEN upgrade \cup {t} ELSE upgrade

BootAuthenticated ==
  /\ boot[1] = "auth" /\ Authenticated(boot[2])
  /\ SetStatus("other")
  /\ boot' = <<IF AwaitsIt THEN "upgrade" ELSE "done", boot[2]>>
  /\ UNCHANGED <<choice, faults, conn, held, chan, relay, active, stale, closedByUser, reconnecting,
                 attempt, subs>>

LoopAuthenticated ==
  /\ attempt[1] = "auth" /\ Authenticated(attempt[2])
  /\ IF AwaitsIt
       THEN attempt' = <<"upgrade", attempt[2]>> /\ SetStatus("other") /\ UNCHANGED reconnecting
       ELSE Resubscribe({}, active, "other")
  /\ UNCHANGED <<choice, faults, conn, held, chan, relay, active, stale, closedByUser, boot, subs>>

\* The handshake or the authentication failed: an error, a timeout, a closed
\* transport.  A handshake that failed is remembered by the transport.
AuthFails(t) ==
  /\ conn[t] \notin {"new", "idle"}
  /\ IF conn[t] = "open" THEN faults < MaxFaults /\ faults' = faults + 1 ELSE UNCHANGED faults

BootAuthFails ==
  /\ boot[1] = "auth" /\ AuthFails(boot[2])
  /\ boot' = <<"failed", boot[2]>>
  /\ UNCHANGED <<choice, net, relay, active, stale, upgrade, closedByUser, reconnecting, attempt,
                 status, ready, subs>>

LoopAuthFails ==
  /\ attempt[1] = "auth" /\ AuthFails(attempt[2])
  /\ \E reason \in Reasons(attempt[2]) : AttemptFails(reason, status)
  /\ UNCHANGED <<choice, net, relay, active, stale, upgrade, closedByUser, boot, subs>>

\* Who awaited the upgrade over t goes on; ok: establish() did not throw.
Resume(t, ok, path, detail) ==
  /\ boot' = IF boot = <<"upgrade", t>> THEN <<IF ok THEN "done" ELSE "failed", t>> ELSE boot
  /\ IF attempt # <<"upgrade", t>>
       THEN SetStatus(detail) /\ UNCHANGED <<attempt, reconnecting>>
       ELSE IF ok THEN Resubscribe({}, path, detail)
                  ELSE AttemptFails(detail, detail)

\* The channel becomes the active transport, whatever the relay is by now.
UpgradeDone(t) ==
  /\ t \in upgrade /\ session[t] = "live"
  /\ upgrade' = upgrade \ {t}
  /\ chan' = [chan EXCEPT ![t] = "open"]
  /\ active' = <<"p2p", t>>
  /\ stale' = (stale \/ t # relay)
  /\ Resume(t, TRUE, <<"p2p", t>>, "other")
  /\ UNCHANGED <<choice, faults, conn, session, held, relay, closedByUser, subs>>

\* Lines 73-83 when there is no channel: does establish() still succeed?
Fallback(detail) ==
  /\ strategy # "webrtc-only"
  /\ ~(active = <<"relay", relay>> /\ detail = "signaling")

\* Declined, timed out, not available, or the relay it runs over is gone.
UpgradeFails(t) ==
  /\ t \in upgrade
  /\ upgrade' = upgrade \ {t}
  /\ \E detail \in Reasons(t) : Resume(t, Fallback(detail), active, detail)
  /\ UNCHANGED <<choice, faults, net, relay, active, stale, closedByUser, subs>>

-----------------------------------------------------------------------------
(* The connections and the authority. *)

Handshake(t) ==
  /\ conn[t] = "idle"
  /\ conn' = [conn EXCEPT ![t] = "open"]
  /\ UNCHANGED <<choice, faults, session, held, chan, ctl, status, ready, subs>>

HandshakeFails(t) ==
  /\ conn[t] = "idle"
  /\ faults < MaxFaults /\ faults' = faults + 1
  /\ conn' = [conn EXCEPT ![t] = "down"]
  /\ UNCHANGED <<choice, session, held, chan, ctl, status, ready, subs>>

\* The connection closes under the client.
Drop(t) ==
  /\ conn[t] = "open"
  /\ faults < MaxFaults /\ faults' = faults + 1
  /\ ScheduleReconnect([conn EXCEPT ![t] = "down"])
  /\ UNCHANGED <<choice, session, held, chan, relay, active, stale, upgrade, closedByUser, boot, subs>>

\* client_disconnected reaches the authority: session and peer are closed.
Notice(t) ==
  /\ conn[t] \in {"down", "barred"} /\ session[t] = "live"
  /\ session' = [session EXCEPT ![t] = "ended"]
  /\ held' = [held EXCEPT ![t] = {}]
  /\ UNCHANGED <<choice, faults, conn, chan, ctl, status, ready, subs>>

\* The peer connection is "disconnected", then closed; each event closes the
\* transport, and calls the loop, again.
ChanEvent(t) ==
  /\ chan[t] \in {"open", "failing"}
  /\ IF chan[t] = "open" /\ session[t] = "live"
       THEN faults < MaxFaults /\ faults' = faults + 1
       ELSE UNCHANGED faults
  /\ chan' = [chan EXCEPT ![t] = IF @ = "open" THEN "failing" ELSE "dead"]
  /\ ScheduleReconnect(conn)
  /\ UNCHANGED <<choice, session, held, relay, active, stale, upgrade, closedByUser, boot, subs>>

\* The owner changed the grant: the authority drops the subscriptions of the
\* session and says so.
Restricted(t) ==
  /\ Works(<<"relay", t>>) \/ Works(<<"p2p", t>>)
  /\ held[t] # {}
  /\ held' = [held EXCEPT ![t] = {}]
  /\ listed' = {} /\ callbacks' = {}
  /\ app' = [c \in Cbs |-> IF c \in listed THEN <<"cleared">> ELSE app[c]]
  /\ UNCHANGED <<choice, faults, conn, session, chan, ctl, status, ready, origin, current, made>>

-----------------------------------------------------------------------------
(* The application. *)

Ask(c, what) ==
  /\ app' = [app EXCEPT ![c] = what]
  /\ UNCHANGED <<choice, faults, net, ctl, status, ready, listed, origin, current, callbacks, made>>

Subscribe(c) ==
  /\ ~Supplied /\ boot[1] = "done" /\ app[c][1] = "none"
  /\ Ask(c, <<"subscribing", active>>)

SubscribeAnswered(c) ==
  /\ app[c][1] = "subscribing"
  /\ LET p == app[c][2]
         id == <<c, made[c] + 1>> IN
       /\ Answers(p) /\ Makes(c, p)
       /\ listed' = listed \cup {c}
       /\ origin' = [origin EXCEPT ![c] = id]
       /\ current' = [current EXCEPT ![c] = id]
       /\ callbacks' = callbacks \cup {id}
       /\ app' = [app EXCEPT ![c] = <<"subscribed">>]
  /\ UNCHANGED <<choice, faults, conn, session, chan, ctl, status, ready>>

\* The record is that of the request, though it may be out of the map by now.
Forget(c) == callbacks \ {origin[c], current[c]}

Unsubscribe(c) ==
  /\ app[c][1] = "subscribed" /\ c \in listed
  /\ Ask(c, <<"unsubscribing", active, current[c]>>)

UnsubscribeAnswered(c) ==
  /\ app[c][1] = "unsubscribing" /\ Answers(app[c][2])
  /\ held' = [held EXCEPT ![app[c][2][2]] = @ \ {app[c][3]}]
  /\ callbacks' = Forget(c)
  /\ listed' = listed \ {c}
  /\ app' = [app EXCEPT ![c] = <<"gone">>]
  /\ UNCHANGED <<choice, faults, conn, session, chan, ctl, status, ready, origin, current, made>>

\* The promise is rejected; the subscription is as it was.
CallFails(c) ==
  /\ app[c][1] \in {"subscribing", "unsubscribing"} /\ Fails(app[c][2])
  /\ app' = [app EXCEPT ![c] = IF @[1] = "subscribing" THEN <<"none">> ELSE <<"subscribed">>]
  /\ UNCHANGED <<choice, net, ctl, status, ready, listed, origin, current, callbacks, made>>

CallBarred(c) ==
  /\ app[c][1] \in {"subscribing", "unsubscribing"} /\ Barred(app[c][2])
  /\ conn' = [conn EXCEPT ![app[c][2][2]] = "barred"]
  /\ app' = [app EXCEPT ![c] = IF @[1] = "subscribing" THEN <<"none">> ELSE <<"subscribed">>]
  /\ UNCHANGED <<choice, faults, session, held, chan, ctl, status, ready, listed, origin, current,
                 callbacks, made>>

\* close().  A handshake that has no socket yet is not stopped.
Close ==
  /\ ~closedByUser /\ closedByUser' = TRUE
  /\ LET down == [conn EXCEPT ![relay] = "down"] IN
       conn' \in IF conn[relay] = "idle" /\ ~Supplied THEN {conn, down} ELSE {down}
  /\ chan' = IF active[1] = "p2p" THEN [chan EXCEPT ![active[2]] = "dead"] ELSE chan
  /\ ready' = IF Supplied THEN FALSE ELSE ready
  /\ UNCHANGED <<choice, faults, session, held, relay, active, stale, upgrade, reconnecting, status,
                 boot, attempt, subs>>

-----------------------------------------------------------------------------
Init ==
  /\ kind \in Kinds /\ signaling \in Modes
  /\ strategy \in IF Supplied THEN {"relay"} ELSE Strategies
  /\ faults = 0
  /\ conn = [t \in Relays |-> "new"] /\ session = [t \in Relays |-> "none"]
  /\ held = [t \in Relays |-> {}] /\ chan = [t \in Relays |-> "none"]
  /\ relay = 1 /\ active = <<"relay", 1>> /\ stale = FALSE /\ upgrade = {}
  /\ closedByUser = FALSE /\ reconnecting = FALSE
  /\ status = "other" /\ ready = FALSE
  /\ boot = <<"none", 1>> /\ attempt = <<"none", 1>>
  /\ listed = {} /\ callbacks = {}
  /\ origin = [c \in Cbs |-> <<c, 0>>] /\ current = [c \in Cbs |-> <<c, 0>>]
  /\ app = [c \in Cbs |-> <<"none">>] /\ made = [c \in Cbs |-> 0]

Loop  == \/ Dial \/ TimerFires \/ LoopAuthenticated \/ LoopAuthFails
         \/ ResubscribeAnswered \/ ResubscribeFails \/ ResubscribeBarred
Start == Connect \/ BootAuthenticated \/ BootAuthFails
Net   == \E t \in Relays : \/ Handshake(t) \/ HandshakeFails(t) \/ Drop(t) \/ Notice(t)
                           \/ ChanEvent(t) \/ Restricted(t) \/ UpgradeDone(t) \/ UpgradeFails(t)
App   == \E c \in Cbs : \/ Subscribe(c) \/ SubscribeAnswered(c) \/ Unsubscribe(c)
                        \/ UnsubscribeAnswered(c) \/ CallFails(c) \/ CallBarred(c)

Next == Loop \/ Start \/ Net \/ App \/ Close

Spec == Init /\ [][Next]_vars

-----------------------------------------------------------------------------
Details == {"other", "reconnecting", "signaling"}

TypeOK ==
  /\ kind \in Kinds /\ signaling \in Modes /\ strategy \in Strategies \cup {"relay"}
  /\ faults \in 0..MaxFaults
  /\ conn \in [Relays -> {"new", "idle", "open", "down", "barred"}]
  /\ session \in [Relays -> {"none", "live", "ended"}]
  /\ held \in [Relays -> SUBSET Ids]
  /\ chan \in [Relays -> {"none", "open", "failing", "dead"}]
  /\ relay \in Relays /\ active \in Paths /\ stale \in BOOLEAN /\ upgrade \in SUBSET Relays
  /\ closedByUser \in BOOLEAN /\ reconnecting \in BOOLEAN
  /\ status \in Details /\ ready \in BOOLEAN
  /\ boot \in {"none", "auth", "upgrade", "done", "failed", "stopped"} \X Relays
  /\ \/ attempt \in {"none", "start", "auth", "upgrade", "timer"} \X Relays
     \/ attempt \in {"resub"} \X Relays \X (SUBSET Cbs) \X Cbs \X Paths
  /\ listed \in SUBSET Cbs /\ callbacks \in SUBSET Ids
  /\ origin \in [Cbs -> Ids] /\ current \in [Cbs -> Ids]
  /\ made \in [Cbs -> 0..MaxIds]

\* After every reconnect the application still hears its subscriptions: while
\* the client is not reconnecting, the deltas of a subscription reach its
\* callback.  (A session whose peer the authority has closed is about to send
\* the client into its loop; a barred client has stopped for good; and nothing
\* holds once a channel negotiated over an earlier relay has become active.)
SubscribedHears ==
  (~reconnecting /\ ~closedByUser /\ ~stale)
    => \A c \in Cbs :
         (app[c][1] = "subscribed" /\ \A t \in Relays : conn[t] # "barred")
           => \/ Hears(c)
              \/ \E t \in Relays : session[t] = "ended" /\ chan[t] \in {"open", "failing"}

\* A callback is entered once, under one id: no delta is heard twice.
HeardOnce == \A x, y \in callbacks : x[1] = y[1] => x = y

\* Whatever drops and reconnects, one relay connection is in use at a time.
OneRelay == \A t \in Relays : conn[t] \in {"idle", "open"} => t = relay

\* Nothing runs: the client is closed and no loop, connect() or upgrade is under way.
Rest ==
  /\ closedByUser /\ upgrade = {}
  /\ attempt[1] \in {"none", "timer"} /\ boot[1] \in {"done", "failed", "stopped"}
  /\ \A t \in Relays : conn[t] \notin {"idle", "open"} /\ chan[t] # "open"

\* No handshake stays open for ever: the transport has no timer for one
\* (transport.ts, connect), so this is nothing the code sees to.
HandshakesEnd == \A t \in Relays : []<>(conn[t] # "idle")

\* A browser on a relay that reconnects is back in the end, with every
\* subscription heard again, unless it is closed, or a handshake never ends
\* (or it has used up the connections of the model).
Spent == relay = MaxRelays /\ attempt[1] = "start"
Recovers ==
  HandshakesEnd =>
    ((kind = "browser" /\ strategy = "relay" /\ ~signaling /\ reconnecting)
       ~> \/ closedByUser \/ Spent
          \/ ~reconnecting /\ \A c \in Cbs : app[c][1] = "subscribed" => Hears(c))
=============================================================================
