---------------------------------- MODULE Wire ----------------------------------
(***************************************************************************)
(* One encrypted session through the bridge, both ends of it: requests and *)
(* answers, the deltas of a subscription and the notices of the owner's    *)
(* commands (transport.ts, transport-noble.ts; relay.py, crypto.py and the *)
(* outbox of authority.py), from the end of the handshake to the end of    *)
(* the session.  Each direction numbers its frames, and the receiver       *)
(* refuses a frame that is not the next.                                   *)
(*                                                                         *)
(* asyncio and JavaScript run to the next await.  The authority encrypts   *)
(* and writes a frame without one; what stands behind other frames (of     *)
(* other sessions, of another subscription) waits for them to drain.       *)
(* WebCrypto answers its callers in any order; the Noble library computes  *)
(* at once.                                                                *)
(*                                                                         *)
(* The bridge (external, see Room) passes frames on in order, tells the    *)
(* authority of a client's end after its last frame, and ends its clients  *)
(* when the authority's connection does; a later connection knows none of  *)
(* them.  Abstracted: keys and ciphertexts, what requests ask beyond one   *)
(* subscription, the wait for the store in the authority (see Authority).  *)
(***************************************************************************)
EXTENDS Naturals, Sequences, SequencesExt

CONSTANTS
  Reqs,        \* requests of the application
  Sub,         \* the one that subscribes
  Libraries,   \* clients to consider: "noble", "webcrypto", and "serial" for
               \* WebCrypto under an application that awaits each answer
  MaxOutbox,   \* OUTBOX_MAX_EVENTS
  MaxEvents    \* bound: changes of the entity and commands of the owner

ASSUME WireAssumption ==
  /\ Sub \in Reqs /\ Libraries \subseteq {"noble", "webcrypto", "serial"}
  /\ MaxOutbox \in Nat \ {0} /\ MaxEvents \in Nat

VARIABLES
  library, first,     \* choices that stay; first: no other session or subscription is
                      \* served before this one
  uplink, ws,           \* the authority's and the client's connection to the bridge
  requests,              \* request(): "new", "sealing", "waiting", "answered", "failed"
  number,             \* the nonce a request has taken
  cSend, cRecv,       \* sendNonce and recvNonce of the client
  up, down,           \* frames under way: <<nonce, content>>
  opening,            \* what the client decrypts
  listed, seen,       \* is the callback entered; the version of the entity it was last given
  live, sSend, sRecv, \* the relay's session, _send_nonce and _recv_nonce
  lane,               \* _handle_client_message: <<where>> or <<where, events>>
  held, closed,       \* the authority's subscription; its session's closed
  outbox,
  order,              \* set_grant_restrictions: <<where>> or <<where, events>>
  chan, side,         \* the session's datachannel and what is under way in it
  version,            \* of the entity
  raised, pushes,     \* tasks of _push_state_changed: to start, and under way
  orders              \* commands so far

client == <<requests, number, cSend, cRecv, opening, listed, seen>>
server == <<live, sSend, sRecv, lane, held, closed, outbox, order>>
entity == <<version, raised, pushes>>
wvars  == <<library, first, uplink, ws, client, up, down, server, chan, side, entity, orders>>

InBounds == version + orders < MaxEvents

Same(xs) == UNCHANGED <<library, first, xs>>

-----------------------------------------------------------------------------
(* The client. *)

\* A frame for the authority is lost when a connection is gone.
Upward(f) == up' = IF uplink = "up" /\ ws = "open" THEN Append(up, f) ELSE up

\* encrypt() takes the next nonce.
Encrypted(r) ==
  /\ number' = [number EXCEPT ![r] = cSend]
  /\ cSend' = cSend + 1

\* With WebCrypto the frame is written some time after its nonce was taken.
Ask(r) ==
  /\ requests[r] = "new" /\ ws = "open"
  /\ library = "serial" => \A q \in Reqs : requests[q] \notin {"sealing", "waiting"}
  /\ Encrypted(r)
  /\ IF library = "noble"
       THEN requests' = [requests EXCEPT ![r] = "waiting"] /\ Upward(<<cSend, r>>)
       ELSE requests' = [requests EXCEPT ![r] = "sealing"] /\ UNCHANGED up
  /\ Same(<<uplink, ws, cRecv, opening, listed, seen, down, server, chan, side, entity, orders>>)

Sealed(r) ==
  /\ requests[r] = "sealing"
  /\ requests' = [requests EXCEPT ![r] = "waiting"]
  /\ Upward(<<number[r], r>>)
  /\ Same(<<uplink, ws, number, cSend, cRecv, opening, listed, seen, down, server, chan, side, entity,
            orders>>)

TimesOut(r) ==
  /\ requests[r] = "waiting"
  /\ requests' = [requests EXCEPT ![r] = "failed"]
  /\ Same(<<uplink, ws, number, cSend, cRecv, opening, listed, seen, up, down, server, chan, side,
            entity, orders>>)

\* What handleMessage makes of a content: an answer to a request that waits, or an event.
Hear(x) ==
  CASE x[1] \in {"answer", "refusal"} /\ requests[x[2]] = "waiting" ->
         /\ requests' = [requests EXCEPT ![x[2]] = "answered"]
         /\ IF x[1] = "answer" /\ x[2] = Sub
              THEN listed' = TRUE /\ seen' = x[3]
              ELSE UNCHANGED <<listed, seen>>
    [] x[1] = "delta" /\ listed ->
         seen' = x[2] /\ UNCHANGED <<requests, listed>>
    [] x[1] = "restricted" ->
         listed' = FALSE /\ UNCHANGED <<requests, seen>>
    [] OTHER -> UNCHANGED <<requests, listed, seen>>

\* failPending; a request that is still being encrypted is not pending yet.
Ends ==
  /\ ws' = "down"
  /\ requests' = [r \in Reqs |-> IF requests[r] = "waiting" THEN "failed" ELSE requests[r]]
  /\ down' = <<>> /\ side' = <<>> /\ UNCHANGED opening

\* decrypt() counts every frame, and accepts the next one only.
Decrypted(f) == f[1] = cRecv

\* A frame that is not the next ends the connection.
Receive ==
  /\ ws = "open" /\ down # <<>>
  /\ cRecv' = cRecv + 1
  /\ LET f == Head(down) IN
       CASE ~Decrypted(f) ->
              Ends /\ UNCHANGED <<listed, seen>>
         [] Decrypted(f) /\ library = "noble" ->
              Hear(f[2]) /\ down' = Tail(down) /\ UNCHANGED <<ws, opening, side>>
         [] OTHER ->
              /\ opening' = opening \cup {f} /\ down' = Tail(down)
              /\ UNCHANGED <<ws, requests, listed, seen, side>>
  /\ Same(<<uplink, number, cSend, up, server, chan, entity, orders>>)

Opened(f) ==
  /\ f \in opening
  /\ opening' = opening \ {f}
  /\ Hear(f[2])
  /\ Same(<<uplink, ws, number, cSend, cRecv, up, down, server, chan, side, entity, orders>>)

ReceiveSide ==
  /\ ws = "open" /\ side # <<>>
  /\ Hear(Head(side))
  /\ side' = Tail(side)
  /\ Same(<<uplink, ws, number, cSend, cRecv, opening, up, down, server, chan, entity, orders>>)

\* The client's end: it drops, closes, loses its datachannel (which makes it
\* leave the relay as well), or the bridge ends it after the authority's.
Leave ==
  /\ ws = "open"
  /\ Ends
  /\ chan' = IF chan = "open" THEN "gone" ELSE chan
  /\ Same(<<uplink, number, cSend, cRecv, listed, seen, up, server, entity, orders>>)

-----------------------------------------------------------------------------
(* The authority's relay. *)

\* mutant of Written: a frame does not advance the nonce
WrittenAgain(x) ==
  /\ sSend' = IF x[1] = "delta" THEN sSend ELSE sSend + 1
  /\ down' = IF uplink = "up" /\ ws = "open" THEN Append(down, <<sSend, x>>) ELSE down

\* Encrypts and sends; into the void when a connection is gone.
Written(x) ==
  /\ sSend' = sSend + 1
  /\ down' = IF uplink = "up" /\ ws = "open" THEN Append(down, <<sSend, x>>) ELSE down

\* queue_event of a notice: at the cap the oldest is dropped.
Queued(x) == Append(IF Len(outbox) >= MaxOutbox THEN Tail(outbox) ELSE outbox, x)

\* pop_outbox: the events are taken out, to be sent.
PopOutbox == outbox' = <<>>

\* The loop takes the next frame of the session.  One that is not the next is
\* answered by an error that names no request.
Take ==
  /\ uplink = "up" /\ live /\ lane = <<"idle">> /\ up # <<>>
  /\ up' = Tail(up)
  /\ IF Head(up)[1] = sRecv
       THEN /\ sRecv' = sRecv + 1 /\ lane' = <<"serving", Head(up)[2]>>
            /\ UNCHANGED <<sSend, down>>
       ELSE /\ lane' = <<"answered">> /\ UNCHANGED sRecv
            /\ Written(<<"session_error">>)
  /\ Same(<<uplink, ws, client, live, held, closed, outbox, order, chan, side, entity, orders>>)

\* handle_plaintext ends; a subscription is answered by a snapshot.
Answer ==
  /\ lane[1] = "serving"
  /\ LET r == lane[2] IN
       /\ held' = (held \/ (r = Sub /\ ~closed))
       /\ Written(IF closed THEN <<"refusal", r>> ELSE <<"answer", r, version>>)
  /\ lane' = <<"answered">>
  /\ Same(<<uplink, ws, client, up, live, sRecv, closed, outbox, order, chan, side, entity, orders>>)

\* Then what waits in the outbox follows, event by event.
Follow ==
  /\ lane[1] \in {"answered", "events"}
  /\ LET events == IF lane[1] = "answered" THEN outbox ELSE lane[2] IN
       IF events = <<>>
         THEN lane' = <<"idle">> /\ UNCHANGED <<sSend, down>>
         ELSE lane' = <<"events", Tail(events)>> /\ Written(Head(events))
  /\ IF lane[1] = "answered" THEN PopOutbox ELSE UNCHANGED outbox
  /\ Same(<<uplink, ws, client, up, live, sRecv, held, closed, order, chan, side, entity, orders>>)

\* An event goes over the datachannel if there is one; else over the relay.
Sent(x) ==
  IF chan = "open"
    THEN side' = Append(side, x) /\ UNCHANGED <<sSend, down>>
    ELSE Written(x) /\ UNCHANGED side

\* mutant of Flush: the notices are left to the next answer
FlushLater(events) ==
  /\ outbox' = events /\ order' = <<"idle">>
  /\ UNCHANGED <<sSend, down, side>>

\* _flush_outbox sends the first of the events and waits for it to drain.
Flush(events) ==
  /\ PopOutbox
  /\ IF events = <<>>
       THEN order' = <<"idle">> /\ UNCHANGED <<sSend, down, side>>
       ELSE order' = <<"events", Tail(events)>> /\ Sent(Head(events))

\* set_grant_restrictions, after its waits for the store, clears the subscriptions
\* and queues the notice, and flushes the sessions one after the other.
Narrow ==
  /\ InBounds /\ orders' = orders + 1
  /\ order = <<"idle">> /\ live
  /\ held' = FALSE
  /\ IF first
       THEN Flush(Queued(<<"restricted">>))
       ELSE outbox' = Queued(<<"restricted">>) /\ order' = <<"due">> /\ UNCHANGED <<sSend, down, side>>
  /\ Same(<<uplink, ws, client, up, live, sRecv, lane, closed, chan, entity>>)

FlushDue ==
  /\ order = <<"due">>
  /\ IF live THEN Flush(outbox)
             ELSE order' = <<"idle">> /\ UNCHANGED <<outbox, sSend, down, side>>
  /\ Same(<<uplink, ws, client, up, live, sRecv, lane, held, closed, chan, entity, orders>>)

FlushNext ==
  /\ order[1] = "events"
  /\ IF order[2] = <<>>
       THEN order' = <<"idle">> /\ UNCHANGED <<sSend, down, side>>
       ELSE order' = <<"events", Tail(order[2])>> /\ Sent(Head(order[2]))
  /\ Same(<<uplink, ws, client, up, live, sRecv, lane, held, closed, outbox, chan, entity, orders>>)

\* revoke_grant and delete_grant; the notice waits for the next answer.
RevokeSession ==
  /\ InBounds /\ orders' = orders + 1
  /\ live
  /\ closed' = TRUE
  /\ outbox' = Queued(<<"revoked">>)
  /\ Same(<<uplink, ws, client, up, down, live, sSend, sRecv, lane, held, order, chan, side, entity>>)

\* client_disconnected, after the last frame.
Discard ==
  /\ uplink = "up" /\ ws = "down" /\ live /\ lane = <<"idle">> /\ up = <<>>
  /\ live' = FALSE /\ held' = FALSE /\ closed' = FALSE /\ outbox' = <<>>
  /\ Same(<<uplink, ws, client, up, down, sSend, sRecv, lane, order, chan, side, entity, orders>>)

\* The authority's connection ends.  The session stays in its dictionaries.
LinkLost ==
  /\ uplink = "up" /\ uplink' = "lost"
  /\ up' = <<>>
  /\ Same(<<ws, client, down, server, chan, side, entity, orders>>)

Channel ==
  /\ chan = "none" /\ live /\ ws = "open" /\ chan' = "open"
  /\ Same(<<uplink, ws, client, up, down, server, side, entity, orders>>)

-----------------------------------------------------------------------------
(* State changes. *)

Change ==
  /\ InBounds /\ version' = version + 1
  /\ raised' = Append(raised, version + 1)
  /\ Same(<<uplink, ws, client, up, down, server, chan, side, pushes, orders>>)

PushStarts ==
  /\ raised # <<>>
  /\ raised' = Tail(raised)
  /\ pushes' = IF held /\ ~closed THEN Append(pushes, Head(raised)) ELSE pushes
  /\ Same(<<uplink, ws, client, up, down, server, chan, side, version, orders>>)

\* mutant of Turn: tasks overtake each other though nothing holds them up
TurnAny(i) == TRUE

\* Which task goes on: one that stands behind others may be overtaken.
Turn(i) == first => i = 1

PushGoes(i) ==
  /\ i \in DOMAIN pushes /\ Turn(i)
  /\ pushes' = RemoveAt(pushes, i)
  /\ IF live \/ chan = "open"
       THEN Sent(<<"delta", pushes[i]>>)
       ELSE UNCHANGED <<sSend, down, side>>  \* queued for a session that is gone
  /\ Same(<<uplink, ws, client, up, live, sRecv, lane, held, closed, outbox, order, chan, version,
            raised, orders>>)

-----------------------------------------------------------------------------
WireInit ==
  /\ library \in Libraries /\ first \in BOOLEAN
  /\ uplink = "up" /\ ws = "open"
  /\ requests = [r \in Reqs |-> "new"] /\ number = [r \in Reqs |-> 0]
  /\ cSend = 0 /\ cRecv = 0 /\ opening = {} /\ listed = FALSE /\ seen = 0
  /\ up = <<>> /\ down = <<>>
  /\ live = TRUE /\ sSend = 0 /\ sRecv = 0 /\ lane = <<"idle">>
  /\ held = FALSE /\ closed = FALSE /\ outbox = <<>> /\ order = <<"idle">>
  /\ chan = "none" /\ side = <<>>
  /\ version = 0 /\ raised = <<>> /\ pushes = <<>> /\ orders \in {0, 1}

WireNext ==
  \/ \E r \in Reqs : Ask(r) \/ Sealed(r) \/ TimesOut(r)
  \/ Receive \/ ReceiveSide \/ Leave
  \/ \E f \in opening : Opened(f)
  \/ Take \/ Answer \/ Follow \/ Narrow \/ FlushDue \/ FlushNext \/ RevokeSession
  \/ Discard \/ LinkLost \/ Channel \/ Change \/ PushStarts
  \/ \E i \in DOMAIN pushes : PushGoes(i)

WireSpec == WireInit /\ [][WireNext]_wvars

-----------------------------------------------------------------------------
\* Answers, pushes and notices are written by several tasks, into connections
\* that come and go; yet the client never gets a frame that is not the next,
\* and neither does the authority from a client whose frames are encrypted at
\* once or one at a time.
InStep ==
  /\ ws = "open" => \A i \in DOMAIN down : down[i][1] = cRecv + i - 1
  /\ library # "webcrypto" => \A i \in DOMAIN up : up[i][1] = sRecv + i - 1

\* Nothing of the session is under way.
Quiet ==
  /\ uplink = "up" /\ ws = "open"
  /\ up = <<>> /\ down = <<>> /\ side = <<>> /\ opening = {}
  /\ lane = <<"idle">> /\ order = <<"idle">> /\ raised = <<>> /\ pushes = <<>>

\* Whatever the owner restricts while a subscription is asked for, at rest the
\* authority feeds what the client listens to.  (Not so when the notice goes over
\* the datachannel: it may then come before the answer that it cleared.  Behind
\* the frames of other sessions it may come after the answer to a subscription
\* made since, and the client forgets a callback that is fed.)
FeedsServed ==
  (Quiet /\ chan = "none" /\ library = "noble" /\ listed /\ ~closed) => held

\* At rest the application was last given the present state of the entity.
\* (Not so when pushes stand behind others and overtake each other.)
LatestSeen ==
  (Quiet /\ first /\ chan = "none" /\ library = "noble" /\ listed /\ ~closed) => seen = version
=============================================================================
