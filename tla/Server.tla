--------------------------------- MODULE Server ---------------------------------
(***************************************************************************)
(* The server package over its client: ConnectionManager (connection.ts),  *)
(* which retries the first connect and holds HTTP requests until the       *)
(* connection is ready, and the request handler (http.ts, node.ts).  The   *)
(* client of a server is the one of Client with kind = "server": its       *)
(* transport is supplied, its strategy is the relay, and its requests are  *)
(* made by the handler.  Its status listener is the variable ready.        *)
(*                                                                         *)
(* A request to a configured route and one to a handler function differ in *)
(* who shapes the reply, not in the steps; a body that cannot be read is   *)
(* answered 500 before any of them and is left out.                        *)
(***************************************************************************)
EXTENDS Client

CONSTANT Https  \* HTTP requests

VARIABLE http   \* "new", "waiting" (ensureReady), "calling", or the status of the reply

svars == <<vars, http>>

Statuses == {"200", "403", "404", "502", "503"}
Answered(q) == http[q] \in Statuses

Reply(q, code) == http' = [http EXCEPT ![q] = code]

\* mutant of Wake: the status changes and nobody is told
WakeNobody == UNCHANGED http

\* setReady(true) resolves every waiter; their handlers go on to the call.
Wake ==
  http' = IF ready' THEN [q \in Https |-> IF http[q] = "waiting" THEN "calling" ELSE http[q]]
                    ELSE http

\* handle() up to its first await.
Arrive(q) ==
  /\ Supplied /\ http[q] = "new"
  /\ \/ Reply(q, "404")                               \* no such route
     \/ IF ready THEN Reply(q, "calling")
        ELSE IF closedByUser THEN Reply(q, "503") ELSE Reply(q, "waiting")
  /\ UNCHANGED vars

\* mutant of WaitEnds: the timer leaves the answer to the next status
WaitEndsLater(q) == http[q] = "waiting" /\ ready /\ Reply(q, "503") /\ UNCHANGED vars

\* readyTimeoutMs is over.
WaitEnds(q) == http[q] = "waiting" /\ Reply(q, "503") /\ UNCHANGED vars

\* The authority serves the call, or denies it: errorStatus.
CallServed(q) ==
  /\ http[q] = "calling" /\ Answers(active)
  /\ \E code \in {"200", "403", "404", "502"} : Reply(q, code)
  /\ UNCHANGED vars

\* The transport rejects it.
CallLost(q) ==
  /\ http[q] = "calling" /\ Fails(active)
  /\ Reply(q, "502")
  /\ UNCHANGED <<choice, net, ctl, status, ready, subs>>

CallRefused(q) ==
  /\ http[q] = "calling" /\ Barred(active)
  /\ conn' = [conn EXCEPT ![active[2]] = "barred"]
  /\ Reply(q, "502")
  /\ UNCHANGED <<choice, faults, session, held, chan, ctl, status, ready, subs>>

\* mutant of Retry: the loop of start() does not look at closed
RetryAlways ==
  /\ Supplied /\ boot[1] = "failed"
  /\ boot' = <<"auth", relay>>
  /\ UNCHANGED <<choice, faults, net, relay, active, stale, upgrade, closedByUser, reconnecting,
                 attempt, status, ready, subs, http>>

\* start() after its backoff.
Retry ==
  /\ Supplied /\ boot[1] = "failed"
  /\ boot' = IF closedByUser THEN <<"stopped", relay>> ELSE <<"auth", relay>>
  /\ UNCHANGED <<choice, faults, net, relay, active, stale, upgrade, closedByUser, reconnecting,
                 attempt, status, ready, subs, http>>

\* ConnectionManager.close answers who waits; the client fails the calls.
CloseServer ==
  /\ Close
  /\ http' = [q \in Https |-> IF http[q] = "waiting" THEN "503" ELSE http[q]]

ServerInit == Init /\ http = [q \in Https |-> "new"]

Requests == \E q \in Https : \/ Arrive(q) \/ WaitEnds(q) \/ CallServed(q) \/ CallLost(q)
                             \/ CallRefused(q)
\* Every step of the client, and who it wakes.
ClientStep ==
  \/ Dial /\ Wake
  \/ TimerFires /\ Wake
  \/ LoopAuthenticated /\ Wake
  \/ LoopAuthFails /\ Wake
  \/ ResubscribeAnswered /\ Wake
  \/ ResubscribeFails /\ Wake
  \/ ResubscribeBarred /\ Wake
  \/ Connect /\ Wake
  \/ BootAuthenticated /\ Wake
  \/ BootAuthFails /\ Wake
  \/ \E t \in Relays :
       \/ Handshake(t) /\ Wake
       \/ HandshakeFails(t) /\ Wake
       \/ Drop(t) /\ Wake
       \/ Notice(t) /\ Wake
       \/ ChanEvent(t) /\ Wake
       \/ Restricted(t) /\ Wake
       \/ UpgradeDone(t) /\ Wake
       \/ UpgradeFails(t) /\ Wake
  \/ \E c \in Cbs :
       \/ Subscribe(c) /\ Wake
       \/ SubscribeAnswered(c) /\ Wake
       \/ Unsubscribe(c) /\ Wake
       \/ UnsubscribeAnswered(c) /\ Wake
       \/ CallFails(c) /\ Wake
       \/ CallBarred(c) /\ Wake

ServerNext == ClientStep \/ Requests \/ Retry \/ CloseServer

\* Timers fire, and requests end with an answer, an error or their timeout; the
\* authority hears of lost connections, and channels over them close.  Nothing is
\* assumed of a handshake.
ServerSpec ==
  /\ ServerInit /\ [][ServerNext]_svars
  /\ WF_svars(Loop /\ Wake) /\ WF_svars(Retry)
  /\ WF_svars((BootAuthenticated \/ BootAuthFails) /\ Wake)
  /\ \A t \in Relays :
       /\ WF_svars(Notice(t) /\ Wake)
       /\ WF_svars(UpgradeFails(t) /\ Wake)
       /\ WF_svars(session[t] = "ended" /\ ChanEvent(t) /\ Wake)
  /\ \A q \in Https : /\ WF_svars(WaitEnds(q))
                      /\ WF_svars(CallServed(q) \/ CallLost(q) \/ CallRefused(q))

-----------------------------------------------------------------------------
ServerTypeOK == TypeOK /\ http \in [Https -> {"new", "waiting", "calling"} \cup Statuses]

\* No request is left behind: once the connection is ready, or closed for
\* good, no request waits for readiness, whatever order arrivals, statuses and
\* close() come in.
NobodyLeftWaiting == ready \/ closedByUser => \A q \in Https : http[q] # "waiting"

\* Every HTTP request that has come in is answered, through drops, closed
\* transports and close().
AnswersAll == \A q \in Https : http[q] # "new" ~> Answered(q)

\* A client that was closed and has come to rest never connects again: no
\* backoff of either loop, late event, upgrade or request revives it.
RestIsFinal == [][Rest => Rest']_svars

\* A server whose connection is lost is ready again in the end, unless it is
\* closed or a handshake never ends.
ServerReturns ==
  HandshakesEnd => ((Supplied /\ boot[1] # "none" /\ ~ready) ~> (ready \/ closedByUser))
=============================================================================
