------------------------------- MODULE CloudRoom -------------------------------
(***************************************************************************)
(* The same room on Cloudflare: the Durable Object AuthorityRoom of        *)
(* bridge/src/index.ts, with the decisions of logic.ts.  It keeps no list  *)
(* of its own: who is there is what getWebSockets returns, and what a      *)
(* socket is stands in the attachment that the handlers save (role, authed *)
(* and pending below).  authority and known are history variables here.    *)
(*                                                                         *)
(* A handler runs alone (the object's input gate holds events back while   *)
(* it awaits its storage), so it is one step.  External: getWebSockets     *)
(* lists a socket until its end has been reported, in one order or the     *)
(* other; send() on a socket that the object has closed throws, and what   *)
(* the handler had left to do is not done.                                 *)
(*                                                                         *)
(* Abstracted as in Room; the routes and the origin checks of the worker   *)
(* come before a room and leave no state.                                  *)
(***************************************************************************)
EXTENDS Room

ASSUME OrderAssumption == Sockets \subseteq Nat  \* accepted in this order

VARIABLES
  hosts,       \* getWebSockets("authority")
  guests,      \* getWebSockets("consumer")
  alarm,       \* the connection whose deadline the alarm is set to, or None
  oldestFirst  \* the order of getWebSockets

cloud  == <<hosts, guests, alarm, oldestFirst>>
cvars  == <<vars, cloud>>

\* findAuthority
Candidates == {s \in hosts : authed[s]}
Found ==
  IF Candidates = {} THEN None
  ELSE CHOOSE s \in Candidates : \A t \in Candidates : IF oldestFirst THEN s <= t ELSE s >= t

\* A message to the authority arrives.
Reached == Found \in Candidates /\ Open(Found)

Comes(s) == socket[s] = "new" /\ \A t \in Sockets : t < s => socket[t] # "new"

-----------------------------------------------------------------------------
(* Connections. *)

\* A socket that is turned down gets no attachment: its events are ignored.
CloudRefuseAuthority(s) ==
  /\ Comes(s) /\ Cardinality(pending) >= MaxPending
  /\ socket' = [socket EXCEPT ![s] = "closing"]
  /\ hosts' = hosts \cup {s}
  /\ UNCHANGED <<role, authed, authority, pending, consumers, known, guests, alarm, oldestFirst>>

CloudAcceptAuthority(s) ==
  /\ Comes(s) /\ Cardinality(pending) < MaxPending
  /\ socket' = [socket EXCEPT ![s] = "open"]
  /\ role' = [role EXCEPT ![s] = "authority"]
  /\ pending' = pending \cup {s}
  /\ hosts' = hosts \cup {s}
  /\ alarm' = IF alarm = None THEN s ELSE alarm
  /\ UNCHANGED <<authed, authority, consumers, known, guests, oldestFirst>>

\* The count has the new socket in it, and those that are closing.
CloudCrowded == Cardinality(guests) + 1 > MaxClients

CloudRefuseConsumer(s) ==
  /\ Comes(s) /\ (Found = None \/ CloudCrowded)
  /\ socket' = [socket EXCEPT ![s] = "closing"]
  /\ guests' = guests \cup {s}
  /\ UNCHANGED <<role, authed, authority, pending, consumers, known, hosts, alarm, oldestFirst>>

\* When the authority found is a closed one, the request fails with the send,
\* after the session was attached.
CloudAcceptConsumer(s) ==
  /\ Comes(s) /\ Found # None /\ ~CloudCrowded
  /\ socket' = [socket EXCEPT ![s] = IF Reached THEN "open" ELSE "closing"]
  /\ role' = [role EXCEPT ![s] = "consumer"]
  /\ guests' = guests \cup {s}
  /\ consumers' = consumers \cup {s}
  /\ known' = IF Reached THEN known \cup {s} ELSE known
  /\ UNCHANGED <<authed, authority, pending, hosts, alarm, oldestFirst>>

-----------------------------------------------------------------------------
(* Messages. *)

CloudRefuseMessage(s) ==
  /\ Open(s) /\ role[s] # "none"
  /\ socket' = Closing({s})
  /\ UNCHANGED <<role, authed, authority, pending, consumers, known, cloud>>

\* The answer to the challenge: earlier authorities are closed, and with them
\* every consumer.  On a socket that is closing the send of "ready" throws
\* before authed is saved.
CloudAuth(s) ==
  /\ Reads(s) /\ role[s] = "authority" /\ ~authed[s]
  /\ LET stale == Candidates \ {s} IN
       socket' = Closing(IF stale = {} THEN {} ELSE stale \cup guests)
  /\ IF Open(s)
       THEN /\ authed' = [authed EXCEPT ![s] = TRUE]
            /\ authority' = s /\ known' = {}
            /\ pending' = pending \ {s}
       ELSE UNCHANGED <<authed, authority, known, pending>>
  /\ UNCHANGED <<role, consumers, cloud>>

CloudForwardMessage(s) ==
  /\ Reads(s) /\ role[s] = "consumer"
  /\ Reached
  /\ known' = known \cup {s}
  /\ UNCHANGED <<socket, role, authed, authority, pending, consumers, cloud>>

CloudCloseClient(c) ==
  /\ \E a \in hosts : authed[a] /\ Reads(a)
  /\ c \in consumers /\ Open(c)
  /\ socket' = Closing({c})
  /\ UNCHANGED <<role, authed, authority, pending, consumers, known, cloud>>

-----------------------------------------------------------------------------
(* Ends. *)

\* mutant of Alarm: is not set again for those whose deadline is to come
AlarmOnce ==
  /\ alarm # None
  /\ \E due \in SUBSET pending :
       /\ alarm \in pending => alarm \in due
       /\ socket' = Closing(due)
       /\ alarm' = None
  /\ UNCHANGED <<role, authed, authority, pending, consumers, known, hosts, guests, oldestFirst>>

\* alarm(): closes who is over the deadline and is set to the next one.
Alarm ==
  /\ alarm # None
  /\ \E due \in SUBSET pending :
       /\ alarm \in pending => alarm \in due
       /\ socket' = Closing(due)
       /\ alarm' \in IF pending = due THEN {None} ELSE pending \ due
  /\ UNCHANGED <<role, authed, authority, pending, consumers, known, hosts, guests, oldestFirst>>

\* closeSocket(ws)
CloudClosed(s) ==
  LET isAuthority == role[s] = "authority" IN
  /\ socket' = [Closing(IF isAuthority THEN guests ELSE {}) EXCEPT ![s] = "closed"]
  /\ authority' = IF authority = s THEN None ELSE authority
  /\ pending' = pending \ {s}
  /\ consumers' = consumers \ {s}
  /\ hosts' = hosts \ {s} /\ guests' = guests \ {s}
  /\ known' = CASE authority = s                       -> {}
                [] role[s] = "consumer" /\ Reached     -> known \ {s}
                [] OTHER                               -> known
  /\ UNCHANGED <<role, authed, alarm, oldestFirst>>

CloudPeerCloses(s) == Open(s) /\ CloudClosed(s)
CloudCloseEnds(s)  == socket[s] = "closing" /\ CloudClosed(s)

\* The object is restarted with new code: all connections end and nobody is
\* told; the alarm stays.
Restart ==
  /\ socket' = [s \in Sockets |-> IF socket[s] = "new" THEN "new" ELSE "closed"]
  /\ authority' = None /\ known' = {}
  /\ pending' = {} /\ consumers' = {} /\ hosts' = {} /\ guests' = {}
  /\ UNCHANGED <<role, authed, alarm, oldestFirst>>

-----------------------------------------------------------------------------
CloudInit ==
  /\ Init
  /\ hosts = {} /\ guests = {} /\ alarm = None /\ oldestFirst \in BOOLEAN

CloudNext ==
  \/ \E s \in Sockets :
       \/ CloudRefuseAuthority(s) \/ CloudAcceptAuthority(s)
       \/ CloudRefuseConsumer(s) \/ CloudAcceptConsumer(s)
       \/ CloudRefuseMessage(s) \/ CloudAuth(s) \/ CloudForwardMessage(s) \/ CloudCloseClient(s)
       \/ CloudPeerCloses(s) \/ CloudCloseEnds(s)
  \/ Alarm \/ Restart

CloudSpec == CloudInit /\ [][CloudNext]_cvars

\* The alarm goes off, and a closing handshake ends.
CloudFairSpec ==
  CloudSpec /\ WF_cvars(Alarm) /\ \A s \in Sockets : WF_cvars(CloudCloseEnds(s))
=============================================================================
