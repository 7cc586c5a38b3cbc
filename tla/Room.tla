---------------------------------- MODULE Room ----------------------------------
(***************************************************************************)
(* One authority's room on the Node bridge: class Room of                  *)
(* bridge/src/node.ts with the decisions of bridge/src/logic.ts.           *)
(*                                                                         *)
(* Node runs one callback at a time and no callback here awaits, so every  *)
(* callback is one step.  What is concurrent is the closing of sockets:    *)
(* ws.close() only starts the closing handshake.  Until the handshake ends *)
(* the socket still delivers messages to its handlers, and the callback    *)
(* for its close runs later, when the room may have changed.               *)
(*                                                                         *)
(* Abstracted: payloads, signatures and the origin and allowlist checks    *)
(* before a room is reached.  That a message is refused (too large, over   *)
(* the rate, not JSON, barred by signaling-only mode, a failed challenge)  *)
(* depends on what peers send: any message may be.  The shutdown of the    *)
(* server is left out.                                                     *)
(***************************************************************************)
EXTENDS Naturals, FiniteSets

CONSTANTS
  Sockets,     \* the connections of the room's lifetime, each used once
  None,        \* null
  MaxClients,  \* maxClientsPerAuthority (64)
  MaxPending   \* maxPendingAuthorities (4)

ASSUME NoneAssumption == None \notin Sockets
ASSUME SocketsAssumption == IsFiniteSet(Sockets)
ASSUME LimitAssumption == MaxClients \in Nat \ {0} /\ MaxPending \in Nat \ {0}

VARIABLES
  socket,     \* "new", "open", "closing", "failed" or "closed"
  role,       \* SocketState.role: "none" before the socket is bound
  authed,     \* SocketState.authed
  authority,  \* Room.authority
  pending,    \* Room.pendingAuthorities; their auth timers are set
  consumers,  \* Room.consumers
  known       \* the sessions the authority was told of on this connection and
              \* not told the end of (relay.py, sessions)

vars == <<socket, role, authed, authority, pending, consumers, known>>

Open(s)    == socket[s] = "open"
\* Messages of the socket reach its handlers.
Reads(s)   == socket[s] \in {"open", "closing"}
Online     == authority # None /\ socket[authority] = "open"

\* ws.close() on each socket of a set
Closing(S) == [s \in Sockets |-> IF s \in S /\ Open(s) THEN "closing" ELSE socket[s]]

-----------------------------------------------------------------------------
(* Connections. *)

\* mutant of Crowded: counts the consumers without the new one
CrowdedLate == Cardinality(consumers) > MaxClients

Crowded == Cardinality(consumers) + 1 > MaxClients

\* acceptAuthority over the cap: closed before a handler is bound to it.
RefuseAuthority(s) ==
  /\ socket[s] = "new"
  /\ Cardinality(pending) >= MaxPending
  /\ socket' = [socket EXCEPT ![s] = "closed"]
  /\ UNCHANGED <<role, authed, authority, pending, consumers, known>>

AcceptAuthority(s) ==
  /\ socket[s] = "new"
  /\ Cardinality(pending) < MaxPending
  /\ socket' = [socket EXCEPT ![s] = "open"]
  /\ role' = [role EXCEPT ![s] = "authority"]
  /\ pending' = pending \cup {s}
  /\ UNCHANGED <<authed, authority, consumers, known>>

\* acceptConsumer that is turned down: the handlers are bound all the same.
RefuseConsumer(s) ==
  /\ socket[s] = "new"
  /\ ~Online \/ Crowded
  /\ socket' = [socket EXCEPT ![s] = "closing"]
  /\ role' = [role EXCEPT ![s] = "consumer"]
  /\ UNCHANGED <<authed, authority, pending, consumers, known>>

AcceptConsumer(s) ==
  /\ socket[s] = "new"
  /\ Online /\ ~Crowded
  /\ socket' = [socket EXCEPT ![s] = "open"]
  /\ role' = [role EXCEPT ![s] = "consumer"]
  /\ consumers' = consumers \cup {s}
  /\ known' = known \cup {s}
  /\ UNCHANGED <<authed, authority, pending>>

-----------------------------------------------------------------------------
(* Messages. *)

\* A message that a gate or the challenge turns down closes its socket.
RefuseMessage(s) ==
  /\ Open(s)
  /\ socket' = Closing({s})
  /\ UNCHANGED <<role, authed, authority, pending, consumers, known>>

\* mutant of Auth: the consumers of the earlier connection are kept
AuthKeeping(s) ==
  /\ Reads(s) /\ role[s] = "authority" /\ ~authed[s]
  /\ authed' = [authed EXCEPT ![s] = TRUE]
  /\ authority' = s
  /\ pending' = pending \ {s}
  /\ known' = {}
  /\ socket' = Closing({authority})
  /\ UNCHANGED <<role, consumers>>

\* The challenge is answered: the socket takes the place of the earlier
\* authority, whose consumers are sent away to connect anew.  The answer may
\* come while the socket is closing.
Auth(s) ==
  /\ Reads(s) /\ role[s] = "authority" /\ ~authed[s]
  /\ authed' = [authed EXCEPT ![s] = TRUE]
  /\ authority' = s
  /\ pending' = pending \ {s}
  /\ consumers' = {}
  /\ known' = {}
  /\ socket' = Closing({authority} \cup consumers)
  /\ UNCHANGED role

\* handleConsumer: the authority learns of the session from its messages too
\* (relay.py sets a session up for any message it is sent).
ForwardMessage(s) ==
  /\ Reads(s) /\ role[s] = "consumer"
  /\ Online
  /\ known' = known \cup {s}
  /\ UNCHANGED <<socket, role, authed, authority, pending, consumers>>

\* close_client of the authority.
CloseClient(c) ==
  /\ authority # None /\ Reads(authority)
  /\ c \in consumers /\ Open(c)
  /\ socket' = Closing({c})
  /\ UNCHANGED <<role, authed, authority, pending, consumers, known>>

-----------------------------------------------------------------------------
(* Ends. *)

\* mutant of AuthTimeout: not while another connection is in charge
AuthTimeoutAlone(s) ==
  /\ s \in pending /\ Open(s) /\ authority = None
  /\ socket' = Closing({s})
  /\ UNCHANGED <<role, authed, authority, pending, consumers, known>>

AuthTimeout(s) ==
  /\ s \in pending /\ Open(s)
  /\ socket' = Closing({s})
  /\ UNCHANGED <<role, authed, authority, pending, consumers, known>>

\* mutant of Closed: a stale authority takes its successor down with it
ClosedAny(s, end) ==
  LET isAuthority == role[s] = "authority" IN
  /\ socket' = [Closing(IF isAuthority THEN consumers ELSE {}) EXCEPT ![s] = end]
  /\ authority' = IF isAuthority THEN None ELSE authority
  /\ pending' = pending \ {s}
  /\ consumers' = IF isAuthority THEN {} ELSE consumers \ {s}
  /\ known' = CASE isAuthority                -> {}
                [] ~isAuthority /\ Online     -> known \ {s}
                [] OTHER                      -> known
  /\ UNCHANGED <<role, authed>>

\* mutant of Closed: only clients the room still lists are reported
ClosedListed(s, end) ==
  LET isAuthority == role[s] = "authority" IN
  /\ socket' = [Closing(IF isAuthority THEN consumers ELSE {}) EXCEPT ![s] = end]
  /\ authority' = IF authority = s THEN None ELSE authority
  /\ pending' = pending \ {s}
  /\ consumers' = IF isAuthority THEN {} ELSE consumers \ {s}
  /\ known' = CASE authority = s         -> {}
                [] s \in consumers       -> known \ {s}
                [] OTHER                 -> known
  /\ UNCHANGED <<role, authed>>

\* closed(peer).  Whichever connection of the authority ends, a stale one or
\* one that never authenticated too, all consumers are sent away; the end of a
\* consumer is reported to the authority.
Closed(s, end) ==
  LET isAuthority == role[s] = "authority" IN
  /\ socket' = [Closing(IF isAuthority THEN consumers ELSE {}) EXCEPT ![s] = end]
  /\ authority' = IF authority = s THEN None ELSE authority
  /\ pending' = pending \ {s}
  /\ consumers' = IF isAuthority THEN {} ELSE consumers \ {s}
  /\ known' = CASE authority = s                -> {}
                [] ~isAuthority /\ Online       -> known \ {s}
                [] OTHER                        -> known
  /\ UNCHANGED <<role, authed>>

\* The "error" event runs closed(peer) as well, before the "close" event does.
SocketError(s) == Reads(s) /\ Closed(s, "failed")

\* The peer closes the socket or is gone.
PeerCloses(s) == Open(s) /\ Closed(s, "closed")

\* The closing handshake ends, or ws gives up on it.
CloseEnds(s) == socket[s] \in {"closing", "failed"} /\ Closed(s, "closed")

-----------------------------------------------------------------------------
Init ==
  /\ socket = [s \in Sockets |-> "new"]
  /\ role = [s \in Sockets |-> "none"]
  /\ authed = [s \in Sockets |-> FALSE]
  /\ authority = None
  /\ pending = {}
  /\ consumers = {}
  /\ known = {}

Connect(s) ==
  AcceptAuthority(s) \/ RefuseAuthority(s) \/ AcceptConsumer(s) \/ RefuseConsumer(s)

Message(s) == RefuseMessage(s) \/ Auth(s) \/ ForwardMessage(s) \/ CloseClient(s)

End(s) == AuthTimeout(s) \/ SocketError(s) \/ PeerCloses(s) \/ CloseEnds(s)

Next == \E s \in Sockets : Connect(s) \/ Message(s) \/ End(s)

Spec == Init /\ [][Next]_vars

\* Timers fire, and ws ends a closing handshake by itself after 30 s; nobody
\* has to connect or to send.
FairSpec ==
  Spec /\ \A s \in Sockets : WF_vars(AuthTimeout(s)) /\ WF_vars(CloseEnds(s))

-----------------------------------------------------------------------------
(* Properties. *)

\* The types of the room; an authority in charge has answered its challenge,
\* and what the room lists is bound in that role and not over.
TypeOK ==
  /\ socket \in [Sockets -> {"new", "open", "closing", "failed", "closed"}]
  /\ role \in [Sockets -> {"none", "authority", "consumer"}]
  /\ authed \in [Sockets -> BOOLEAN]
  /\ authority \in Sockets \cup {None}
  /\ pending \subseteq {s \in Sockets : role[s] = "authority" /\ Reads(s)}
  /\ consumers \subseteq {s \in Sockets : role[s] = "consumer" /\ Reads(s)}
  /\ known \subseteq {s \in Sockets : role[s] = "consumer"}
  /\ authority # None => role[authority] = "authority" /\ authed[authority] /\ Reads(authority)

\* Whatever the order in which connections authenticate, time out, are replaced
\* and report their end, the only connection that can be open and authenticated
\* is the one in charge: the late close of a replaced one does not unseat it.
AuthorityInCharge == \A s \in Sockets : authed[s] /\ Open(s) => authority = s

\* An open consumer connection is listed and its authority was told of it: no
\* client is left talking to an authority that does not know it, and none can
\* talk to a room that drops the answers.
OpenConsumersServed ==
  \A s \in Sockets : role[s] = "consumer" /\ Open(s) =>
    /\ s \in consumers
    /\ authority # None /\ s \in known

\* An authority that is online keeps no session of a socket that is over, even
\* one it only knows from messages of a client that was turned down or evicted.
NoGhostSessions ==
  Online => \A s \in known : socket[s] \notin {"failed", "closed"}

\* Neither the consumers nor the unauthenticated authorities of a room exceed
\* their limits.
RoomBounds ==
  /\ Cardinality(consumers) <= MaxClients
  /\ Cardinality(pending) <= MaxPending

\* A connection that claims to be the authority does not stay undecided.
PendingResolved == \A s \in Sockets : s \in pending ~> s \notin pending

\* What Switchboard speaks of.
Unused        == {s \in Sockets : socket[s] = "new"}
OpenConsumers == {s \in Sockets : role[s] = "consumer" /\ Open(s)}

Board == INSTANCE Switchboard WITH
  Peers <- Sockets, fresh <- Unused, waiting <- pending, charge <- authority,
  served <- OpenConsumers, told <- known

\* Through all closes, late answers and timeouts a room is a Switchboard: an
\* authority takes charge only out of those that wait and hands nobody over, a
\* consumer is served under one authority, which knows it from the first, and no
\* connection that went is served or waits again.
IsSwitchboard == Board!Spec

\* Consumers are sent away with "Authority offline" only when the authority
\* goes or is replaced.
\* (False: the late close of a replaced or unauthenticated connection sends the
\* consumers of the authority in charge away.)
EvictedOnlyOffline ==
  [][\A s \in consumers \ consumers' :
       Open(s) /\ socket'[s] = "closing" => authority' # authority]_vars
=============================================================================
