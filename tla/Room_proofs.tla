----------------------------- MODULE Room_proofs ------------------------------
(***************************************************************************)
(* What holds of every room, for any number of connections and any limits. *)
(* RoomInv is inductive on Node: who is in charge, which consumers are     *)
(* served and what the authority knows have to be carried through a step   *)
(* together, since a close decides by the one what it does to the others.  *)
(* On Cloudflare the room keeps no list, so the argument goes by what      *)
(* getWebSockets returns: who is in charge is among the hosts, and whom an *)
(* end or a replacement has to reach is among the guests.                  *)
(* Which of the hosts an end is reported to depends on their order: it is  *)
(* the one in charge as soon as that knows of a client (InFront).          *)
(***************************************************************************)
EXTENDS CloudRoom, FiniteSetTheorems, WellFoundedInduction, TLAPS

NewUnbound == \A s \in Sockets : socket[s] = "new" => role[s] = "none" /\ ~authed[s]

RoomInv ==
  TypeOK /\ NewUnbound /\ AuthorityInCharge /\ OpenConsumersServed /\ NoGhostSessions

States == {"new", "open", "closing", "failed", "closed"}

\* Closing sockets changes open ones only, into sockets that still read.
LEMMA ClosingFacts ==
  ASSUME TypeOK, NEW S
  PROVE  /\ Closing(S) \in [Sockets -> States]
         /\ \A t \in Sockets :
              /\ Closing(S)[t] = "open" <=> Open(t) /\ t \notin S
              /\ Closing(S)[t] \in {"open", "closing"} <=> Reads(t)
              /\ Closing(S)[t] \in {"failed", "closed"} => socket[t] = Closing(S)[t]
              /\ Closing(S)[t] = "new" <=> socket[t] = "new"
BY DEF TypeOK, Closing, Open, Reads, States

\* A step that only closes some sockets keeps the invariant.
LEMMA OnlyClosing ==
  ASSUME RoomInv, NEW S, socket' = Closing(S),
         UNCHANGED <<role, authed, authority, pending, consumers, known>>
  PROVE  RoomInv'
<1>1. TypeOK'
  BY ClosingFacts DEF RoomInv, TypeOK, States, Reads
<1>2. AuthorityInCharge' /\ OpenConsumersServed'
  BY ClosingFacts DEF RoomInv, AuthorityInCharge, OpenConsumersServed, Open
<1>3. NoGhostSessions'
  <2> SUFFICES ASSUME Online', NEW s \in known', socket'[s] \in {"failed", "closed"}
               PROVE  FALSE
    BY DEF NoGhostSessions
  <2>1. Online /\ s \in known /\ s \in Sockets
    BY ClosingFacts DEF RoomInv, TypeOK, Online, Open
  <2>2. QED BY <2>1, ClosingFacts DEF RoomInv, NoGhostSessions
<1>4. NewUnbound' BY ClosingFacts DEF RoomInv, NewUnbound
<1>5. QED BY <1>1, <1>2, <1>3, <1>4 DEF RoomInv

\* The end of a socket, in whatever way it comes about.
LEMMA ClosedKeeps ==
  ASSUME RoomInv, NEW s \in Sockets, NEW end \in {"failed", "closed"},
         socket[s] # "new", Closed(s, end)
  PROVE  RoomInv'
<1> DEFINE S == IF role[s] = "authority" THEN consumers ELSE {}
<1>0. TypeOK BY DEF RoomInv
<1>1. /\ socket' = [Closing(S) EXCEPT ![s] = end]
      /\ authority' = IF authority = s THEN None ELSE authority
      /\ pending' = pending \ {s}
      /\ consumers' = IF role[s] = "authority" THEN {} ELSE consumers \ {s}
      /\ UNCHANGED <<role, authed>>
  BY DEF Closed
<1>2. known' \subseteq known /\ (authority # s /\ role[s] # "authority" /\ Online => s \notin known')
  BY DEF Closed
<1> HIDE DEF S
<1>3. /\ socket' \in [Sockets -> States]
      /\ socket'[s] = end
      /\ \A t \in Sockets \ {s} : socket'[t] = Closing(S)[t]
  BY <1>0, <1>1, ClosingFacts DEF States
<1>4. \A t \in Sockets :
        /\ Open(t)' <=> Open(t) /\ t \notin S /\ t # s
        /\ Reads(t)' <=> Reads(t) /\ t # s
        /\ t # s /\ socket'[t] \in {"failed", "closed"} => socket[t] = socket'[t]
  <2> SUFFICES ASSUME NEW t \in Sockets
               PROVE  /\ Open(t)' <=> Open(t) /\ t \notin S /\ t # s
                      /\ Reads(t)' <=> Reads(t) /\ t # s
                      /\ t # s /\ socket'[t] \in {"failed", "closed"} => socket[t] = socket'[t]
    OBVIOUS
  <2>1. CASE t = s BY <2>1, <1>3 DEF Open, Reads
  <2>2. CASE t # s
    <3>1. socket'[t] = Closing(S)[t] BY <2>2, <1>3
    <3>2. QED BY <2>2, <3>1, <1>0, ClosingFacts DEF Open, Reads
  <2>3. QED BY <2>1, <2>2
<1>5. TypeOK'
  <2>1. pending' \subseteq {t \in Sockets : role'[t] = "authority" /\ Reads(t)'}
    BY <1>0, <1>1, <1>4 DEF TypeOK
  <2>2. consumers' \subseteq {t \in Sockets : role'[t] = "consumer" /\ Reads(t)'}
    BY <1>0, <1>1, <1>4 DEF TypeOK
  <2>3. known' \subseteq {t \in Sockets : role'[t] = "consumer"}
    BY <1>0, <1>1, <1>2 DEF TypeOK
  <2>4. authority' \in Sockets \cup {None} BY <1>0, <1>1 DEF TypeOK
  <2>5. ASSUME authority' # None
        PROVE  role'[authority'] = "authority" /\ authed'[authority'] /\ Reads(authority)'
    <3>1. authority' = authority /\ authority # s /\ authority \in Sockets
      BY <2>5, <1>0, <1>1 DEF TypeOK
    <3>2. role[authority] = "authority" /\ authed[authority] /\ Reads(authority)
      BY <3>1, <2>5, <1>0 DEF TypeOK
    <3>3. socket'[authority] \in {"open", "closing"} BY <3>1, <3>2, <1>4 DEF Reads
    <3>4. Reads(authority)' BY <3>1, <3>3 DEF Reads
    <3>5. QED BY <3>1, <3>2, <3>4, <1>1
  <2>6. QED BY <2>1, <2>2, <2>3, <2>4, <2>5, <1>0, <1>1, <1>3 DEF TypeOK, States
<1>6. AuthorityInCharge'
  BY <1>1, <1>4 DEF RoomInv, AuthorityInCharge
<1>7. OpenConsumersServed'
  <2> SUFFICES ASSUME NEW t \in Sockets, role[t] = "consumer", Open(t)'
               PROVE  t \in consumers' /\ authority' # None /\ t \in known'
    BY <1>1 DEF OpenConsumersServed
  <2>1. Open(t) /\ t \notin S /\ t # s BY <1>4
  <2>2. t \in consumers /\ authority # None /\ t \in known
    BY <2>1 DEF RoomInv, OpenConsumersServed
  <2>3. role[s] # "authority" BY <2>1, <2>2 DEF S
  <2>4. authority # s BY <2>2, <2>3, <1>0 DEF TypeOK
  <2>5. t \in known' BY <2>1, <2>2, <2>3, <2>4 DEF Closed
  <2>6. QED BY <2>1, <2>2, <2>3, <2>4, <2>5, <1>1
<1>8. NoGhostSessions'
  <2> SUFFICES ASSUME Online', NEW t \in known', socket'[t] \in {"failed", "closed"}
               PROVE  FALSE
    BY DEF NoGhostSessions
  <2>1. authority # s /\ authority # None /\ authority' = authority /\ authority \in Sockets
    BY <1>0, <1>1 DEF Online, TypeOK
  <2>2. Open(authority)' BY <2>1 DEF Online, Open
  <2>3. Online BY <2>1, <2>2, <1>4 DEF Online, Open
  <2>4. t \in known /\ t \in Sockets /\ role[t] = "consumer" BY <1>0, <1>2 DEF TypeOK
  <2>5. CASE t # s BY <2>3, <2>4, <2>5, <1>4 DEF RoomInv, NoGhostSessions
  <2>6. CASE t = s BY <2>1, <2>3, <2>4, <2>6, <1>2
  <2>7. QED BY <2>5, <2>6
<1>9. NewUnbound'
  <2> SUFFICES ASSUME NEW t \in Sockets, socket'[t] = "new"
               PROVE  role[t] = "none" /\ ~authed[t]
    BY <1>1 DEF NewUnbound
  <2>1. t # s /\ socket'[t] = Closing(S)[t] BY <1>3
  <2>2. socket[t] = "new" BY <2>1, <1>0, ClosingFacts
  <2>3. QED BY <2>2 DEF RoomInv, NewUnbound
<1>10. QED BY <1>5, <1>6, <1>7, <1>8, <1>9 DEF RoomInv

\* A challenge that is answered puts its socket in charge.
LEMMA AuthKeeps ==
  ASSUME RoomInv, NEW s \in Sockets, Auth(s)
  PROVE  RoomInv'
<1> DEFINE S == {authority} \cup consumers
<1>0. TypeOK BY DEF RoomInv
<1>1. /\ Reads(s) /\ role[s] = "authority" /\ ~authed[s]
      /\ authed' = [authed EXCEPT ![s] = TRUE]
      /\ authority' = s
      /\ pending' = pending \ {s}
      /\ consumers' = {}
      /\ known' = {}
      /\ socket' = Closing(S)
      /\ role' = role
  BY DEF Auth
<1> HIDE DEF S
<1>2. /\ socket' \in [Sockets -> States]
      /\ \A t \in Sockets : (Open(t)' <=> Open(t) /\ t \notin S) /\ (Reads(t)' <=> Reads(t))
  BY <1>0, <1>1, ClosingFacts DEF Open, Reads
<1>3. TypeOK'
  <2>1. authed' \in [Sockets -> BOOLEAN] /\ authed'[s] BY <1>0, <1>1 DEF TypeOK
  <2>2. pending' \subseteq {t \in Sockets : role'[t] = "authority" /\ Reads(t)'}
    BY <1>0, <1>1, <1>2 DEF TypeOK
  <2>3. QED BY <2>1, <2>2, <1>0, <1>1, <1>2 DEF TypeOK, States
<1>4. AuthorityInCharge'
  <2> SUFFICES ASSUME NEW t \in Sockets, authed'[t], Open(t)', t # s PROVE FALSE
    BY <1>1 DEF AuthorityInCharge
  <2>1. authed[t] BY <1>0, <1>1 DEF TypeOK
  <2>2. Open(t) /\ t \notin S BY <1>2
  <2>3. QED BY <2>1, <2>2 DEF RoomInv, AuthorityInCharge, S
<1>5. OpenConsumersServed'
  BY <1>1, <1>2 DEF RoomInv, OpenConsumersServed, S
<1>6. NoGhostSessions'
  BY <1>1 DEF NoGhostSessions
<1>7. NewUnbound'
  <2> SUFFICES ASSUME NEW t \in Sockets, socket'[t] = "new"
               PROVE  role[t] = "none" /\ ~authed'[t]
    BY <1>1 DEF NewUnbound
  <2>1. socket[t] = "new" BY <1>0, <1>1, ClosingFacts
  <2>2. t # s BY <2>1, <1>1 DEF Reads
  <2>3. QED BY <2>1, <2>2, <1>0, <1>1 DEF RoomInv, NewUnbound, TypeOK
<1>8. QED BY <1>3, <1>4, <1>5, <1>6, <1>7 DEF RoomInv

\* A connection that is taken in or turned down.
LEMMA ConnectKeeps ==
  ASSUME RoomInv, NEW s \in Sockets, Connect(s)
  PROVE  RoomInv'
<1>0. TypeOK BY DEF RoomInv
<1>1. socket[s] = "new"
  BY DEF Connect, RefuseAuthority, AcceptAuthority, RefuseConsumer, AcceptConsumer
<1>2. role[s] = "none" /\ ~authed[s] BY <1>1 DEF RoomInv, NewUnbound
<1>3. s \notin known /\ s \notin consumers /\ s \notin pending /\ authority # s
  BY <1>0, <1>1, <1>2, NoneAssumption DEF TypeOK, Reads
<1>4. authed' = authed /\ authority' = authority
  BY DEF Connect, RefuseAuthority, AcceptAuthority, RefuseConsumer, AcceptConsumer
<1>5. PICK state \in {"open", "closing", "closed"}, r \in {"none", "authority", "consumer"} :
        /\ socket' = [socket EXCEPT ![s] = state]
        /\ role' = [role EXCEPT ![s] = r]
        /\ r = "none" => state = "closed"
        /\ pending' = pending \/ (r = "authority" /\ state = "open" /\ pending' = pending \cup {s})
        /\ \/ consumers' = consumers /\ known' = known /\ (r = "consumer" => state = "closing")
           \/ /\ r = "consumer" /\ state = "open" /\ Online
              /\ consumers' = consumers \cup {s} /\ known' = known \cup {s}
  <2>1. CASE RefuseAuthority(s)
    <3>1. role' = [role EXCEPT ![s] = "none"] BY <2>1, <1>0, <1>2 DEF RefuseAuthority, TypeOK
    <3>2. QED BY <2>1, <3>1 DEF RefuseAuthority
  <2>2. CASE AcceptAuthority(s) BY <2>2 DEF AcceptAuthority
  <2>3. CASE RefuseConsumer(s) BY <2>3 DEF RefuseConsumer
  <2>4. CASE AcceptConsumer(s) BY <2>4 DEF AcceptConsumer
  <2>5. QED BY <2>1, <2>2, <2>3, <2>4 DEF Connect
<1>6. \A t \in Sockets \ {s} : socket'[t] = socket[t] /\ role'[t] = role[t]
  BY <1>5
<1>7. socket'[s] = state /\ role'[s] = r BY <1>0, <1>5 DEF TypeOK
<1>8. TypeOK'
  <2>1. /\ socket' \in [Sockets -> States]
        /\ role' \in [Sockets -> {"none", "authority", "consumer"}]
    BY <1>0, <1>5 DEF TypeOK, States
  <2>2. pending' \subseteq {t \in Sockets : role'[t] = "authority" /\ Reads(t)'}
    BY <1>0, <1>3, <1>5, <1>6, <1>7 DEF TypeOK, Reads
  <2>3. consumers' \subseteq {t \in Sockets : role'[t] = "consumer" /\ Reads(t)'}
    BY <1>0, <1>3, <1>5, <1>6, <1>7 DEF TypeOK, Reads
  <2>4. known' \subseteq {t \in Sockets : role'[t] = "consumer"}
    BY <1>0, <1>3, <1>5, <1>6, <1>7 DEF TypeOK
  <2>5. ASSUME authority' # None
        PROVE  role'[authority'] = "authority" /\ authed'[authority'] /\ Reads(authority)'
    <3>1. authority \in Sockets \ {s} BY <2>5, <1>0, <1>3, <1>4 DEF TypeOK
    <3>2. role[authority] = "authority" /\ authed[authority] /\ Reads(authority)
      BY <2>5, <1>0, <1>4 DEF TypeOK
    <3>3. socket'[authority] = socket[authority] /\ role'[authority] = role[authority]
      BY <3>1, <1>6
    <3>4. Reads(authority)' BY <3>2, <3>3, <1>4 DEF Reads
    <3>5. QED BY <3>2, <3>3, <3>4, <1>4
  <2>6. authed' \in [Sockets -> BOOLEAN] /\ authority' \in Sockets \cup {None}
    BY <1>0, <1>4 DEF TypeOK
  <2>7. QED BY <2>1, <2>2, <2>3, <2>4, <2>5, <2>6 DEF TypeOK, States
<1>9. NewUnbound'
  <2> SUFFICES ASSUME NEW t \in Sockets, socket'[t] = "new"
               PROVE  role'[t] = "none" /\ ~authed[t]
    BY <1>4 DEF NewUnbound
  <2>1. t # s BY <1>7
  <2>2. QED BY <2>1, <1>6 DEF RoomInv, NewUnbound
<1>10. AuthorityInCharge'
  BY <1>2, <1>4, <1>6 DEF RoomInv, AuthorityInCharge, Open
<1>11. OpenConsumersServed'
  <2> SUFFICES ASSUME NEW t \in Sockets, role'[t] = "consumer", Open(t)'
               PROVE  t \in consumers' /\ authority # None /\ t \in known'
    BY <1>4 DEF OpenConsumersServed
  <2>1. CASE t = s BY <2>1, <1>5, <1>7 DEF Online, Open
  <2>2. CASE t # s
    <3>1. role[t] = "consumer" /\ Open(t) BY <2>2, <1>6 DEF Open
    <3>2. QED BY <3>1, <1>5 DEF RoomInv, OpenConsumersServed
  <2>3. QED BY <2>1, <2>2
<1>12. NoGhostSessions'
  <2> SUFFICES ASSUME Online', NEW t \in known', socket'[t] \in {"failed", "closed"}
               PROVE  FALSE
    BY DEF NoGhostSessions
  <2>1. authority # None /\ authority \in Sockets \ {s} /\ socket'[authority] = "open"
    BY <1>0, <1>3, <1>4 DEF Online, TypeOK
  <2>2. Online BY <2>1, <1>6 DEF Online
  <2>3. CASE t = s BY <2>3, <1>3, <1>5, <1>7
  <2>4. CASE t # s
    <3>1. t \in known /\ t \in Sockets BY <2>4, <1>0, <1>5 DEF TypeOK
    <3>2. QED BY <2>2, <2>4, <3>1, <1>6 DEF RoomInv, NoGhostSessions
  <2>5. QED BY <2>3, <2>4
<1>13. QED BY <1>8, <1>9, <1>10, <1>11, <1>12 DEF RoomInv

\* A message of a client makes its session known to an authority online.
LEMMA ForwardKeeps ==
  ASSUME RoomInv, NEW s \in Sockets, ForwardMessage(s)
  PROVE  RoomInv'
<1>1. TypeOK' /\ NewUnbound'
  BY DEF RoomInv, TypeOK, NewUnbound, ForwardMessage, Reads
<1>2. AuthorityInCharge' /\ OpenConsumersServed'
  BY DEF RoomInv, AuthorityInCharge, OpenConsumersServed, ForwardMessage, Open
<1>3. NoGhostSessions'
  BY DEF RoomInv, NoGhostSessions, ForwardMessage, Online, Reads
<1>4. QED BY <1>1, <1>2, <1>3 DEF RoomInv

LEMMA RoomStep == RoomInv /\ [Next]_vars => RoomInv'
<1> SUFFICES ASSUME RoomInv, [Next]_vars PROVE RoomInv' OBVIOUS
<1>1. CASE Next
  <2>1. ASSUME NEW s \in Sockets, Connect(s) PROVE RoomInv'
    BY <2>1, ConnectKeeps
  <2>2. ASSUME NEW s \in Sockets, RefuseMessage(s) \/ CloseClient(s) \/ AuthTimeout(s)
        PROVE  RoomInv'
    BY <2>2, OnlyClosing DEF RefuseMessage, CloseClient, AuthTimeout
  <2>3. ASSUME NEW s \in Sockets, Auth(s) PROVE RoomInv'
    BY <2>3, AuthKeeps
  <2>4. ASSUME NEW s \in Sockets, ForwardMessage(s) PROVE RoomInv'
    BY <2>4, ForwardKeeps
  <2>5. ASSUME NEW s \in Sockets, SocketError(s) \/ PeerCloses(s) \/ CloseEnds(s)
        PROVE  RoomInv'
    <3>1. PICK end \in {"failed", "closed"} : Closed(s, end) /\ socket[s] # "new"
      BY <2>5 DEF SocketError, PeerCloses, CloseEnds, Open, Reads
    <3>2. QED BY <3>1, ClosedKeeps
  <2>6. QED BY <1>1, <2>1, <2>2, <2>3, <2>4, <2>5, Zenon DEF Next, Connect, Message, End
<1>2. CASE UNCHANGED vars
  BY <1>2 DEF vars, RoomInv, TypeOK, NewUnbound, AuthorityInCharge, OpenConsumersServed,
     NoGhostSessions, Open, Online, Reads
<1>3. QED BY <1>1, <1>2

LEMMA RoomInit == Init => RoomInv
BY NoneAssumption DEF Init, RoomInv, TypeOK, NewUnbound, AuthorityInCharge, OpenConsumersServed,
   NoGhostSessions, Open, Online, Reads

LEMMA RoomInvariant == Spec => []RoomInv
BY RoomInit, RoomStep, PTL DEF Spec

\* The types of a room: node.ts keeps only bound, unfinished sockets in its
\* three collections.
THEOREM Typing == Spec => []TypeOK
<1>1. RoomInv => TypeOK BY DEF RoomInv
<1>2. QED BY RoomInvariant, <1>1, PTL

\* The open authenticated connection is the one in charge (handleAuthority,
\* closed).
THEOREM InCharge == Spec => []AuthorityInCharge
<1>1. RoomInv => AuthorityInCharge BY DEF RoomInv
<1>2. QED BY RoomInvariant, <1>1, PTL

\* Open consumers are listed and announced (acceptConsumer, handleAuthority,
\* closed).
THEOREM Served == Spec => []OpenConsumersServed
<1>1. RoomInv => OpenConsumersServed BY DEF RoomInv
<1>2. QED BY RoomInvariant, <1>1, PTL

\* An authority online is told of the end of every session it knows (closed).
THEOREM NoGhosts == Spec => []NoGhostSessions
<1>1. RoomInv => NoGhostSessions BY DEF RoomInv
<1>2. QED BY RoomInvariant, <1>1, PTL

-----------------------------------------------------------------------------
(* The limits. *)

\* A set of sockets that loses elements, or gains one below the limit, stays
\* within the limit.
LEMMA WithinLimit ==
  ASSUME NEW A \in SUBSET Sockets, NEW B, NEW x \in Sockets, NEW limit \in Nat,
         Cardinality(A) <= limit,
         B \subseteq A \/ (B = A \cup {x} /\ Cardinality(A) + 1 <= limit)
  PROVE  Cardinality(B) <= limit
<1>1. IsFiniteSet(A) /\ Cardinality(A) \in Nat
  BY SocketsAssumption, FS_Subset, FS_CardinalityType
<1>2. CASE B \subseteq A
  <2>1. IsFiniteSet(B) /\ Cardinality(B) <= Cardinality(A) BY <1>1, <1>2, FS_Subset
  <2>2. Cardinality(B) \in Nat BY <2>1, FS_CardinalityType
  <2>3. QED BY <1>1, <2>1, <2>2
<1>3. CASE B = A \cup {x} /\ Cardinality(A) + 1 <= limit
  <2>1. Cardinality(A \cup {x}) \in {Cardinality(A), Cardinality(A) + 1}
    BY <1>1, FS_AddElement
  <2>2. QED BY <1>1, <1>3, <2>1
<1>4. QED BY <1>2, <1>3

LEMMA BoundsStep == TypeOK /\ RoomBounds /\ [Next]_vars => RoomBounds'
<1> SUFFICES ASSUME TypeOK, RoomBounds, [Next]_vars PROVE RoomBounds' OBVIOUS
<1>1. /\ consumers \in SUBSET Sockets /\ pending \in SUBSET Sockets
      /\ Cardinality(consumers) \in Nat /\ Cardinality(pending) \in Nat
  <2>1. consumers \in SUBSET Sockets /\ pending \in SUBSET Sockets BY DEF TypeOK
  <2>2. QED BY <2>1, SocketsAssumption, FS_Subset, FS_CardinalityType
<1>2. CASE UNCHANGED vars BY <1>2 DEF vars, RoomBounds
<1>3. CASE Next
  <2> PICK s \in Sockets : Connect(s) \/ Message(s) \/ End(s) BY <1>3 DEF Next
  <2>1. \/ consumers' \subseteq consumers
        \/ consumers' = consumers \cup {s} /\ Cardinality(consumers) + 1 <= MaxClients
    <3>1. CASE Connect(s)
      <4>1. Crowded \/ Cardinality(consumers) + 1 <= MaxClients
        BY <1>1, LimitAssumption DEF Crowded
      <4>2. QED BY <3>1, <4>1
        DEF Connect, RefuseAuthority, AcceptAuthority, RefuseConsumer, AcceptConsumer
    <3>2. CASE Message(s)
      BY <3>2 DEF Message, RefuseMessage, Auth, ForwardMessage, CloseClient
    <3>3. CASE End(s)
      BY <3>3 DEF End, AuthTimeout, SocketError, PeerCloses, CloseEnds, Closed
    <3>4. QED BY <3>1, <3>2, <3>3
  <2>2. \/ pending' \subseteq pending
        \/ pending' = pending \cup {s} /\ Cardinality(pending) + 1 <= MaxPending
    <3>1. CASE Connect(s)
      <4>1. Cardinality(pending) < MaxPending => Cardinality(pending) + 1 <= MaxPending
        BY <1>1, LimitAssumption
      <4>2. QED BY <3>1, <4>1
        DEF Connect, RefuseAuthority, AcceptAuthority, RefuseConsumer, AcceptConsumer
    <3>2. CASE Message(s)
      BY <3>2 DEF Message, RefuseMessage, Auth, ForwardMessage, CloseClient
    <3>3. CASE End(s)
      BY <3>3 DEF End, AuthTimeout, SocketError, PeerCloses, CloseEnds, Closed
    <3>4. QED BY <3>1, <3>2, <3>3
  <2>3. Cardinality(consumers') <= MaxClients
    BY <2>1, <1>1, WithinLimit, LimitAssumption DEF RoomBounds
  <2>4. Cardinality(pending') <= MaxPending
    BY <2>2, <1>1, WithinLimit, LimitAssumption DEF RoomBounds
  <2>5. QED BY <2>3, <2>4 DEF RoomBounds
<1>4. QED BY <1>2, <1>3

\* A room never has more consumers or undecided authorities than its limits
\* allow (acceptConsumer, acceptAuthority).
THEOREM Bounded == Spec => []RoomBounds
<1>1. Init => RoomBounds
  <2>1. Cardinality({}) = 0 BY FS_EmptySet
  <2>2. QED BY <2>1, LimitAssumption DEF Init, RoomBounds
<1>2. QED BY Typing, <1>1, BoundsStep, PTL DEF Spec

-----------------------------------------------------------------------------
(* The room on Cloudflare. *)

Shown ==
  /\ hosts \subseteq Sockets /\ guests \subseteq Sockets
  /\ \A s \in Sockets : role[s] = "authority" /\ Reads(s) => s \in hosts
  /\ consumers \subseteq guests

CloudInv == TypeOK /\ NewUnbound /\ AuthorityInCharge /\ OpenConsumersServed /\ Shown

\* The authority found open is the one in charge; and if one is in charge, it
\* is among those found.
LEMMA FoundFacts ==
  ASSUME CloudInv
  PROVE  /\ Reached => authority = Found /\ authority # None
         /\ authority # None => authority \in Candidates
<1>1. Reached => authority = Found /\ authority # None
  <2> SUFFICES ASSUME Reached PROVE authority = Found /\ authority # None OBVIOUS
  <2>1. Found \in Sockets /\ authed[Found] /\ Open(Found)
    BY DEF Reached, Candidates, CloudInv, Shown
  <2>2. QED BY <2>1, NoneAssumption DEF CloudInv, AuthorityInCharge
<1>2. authority # None => authority \in Candidates
  BY DEF CloudInv, TypeOK, Shown, Candidates
<1>3. QED BY <1>1, <1>2

\* A step that only closes some sockets keeps the invariant.
LEMMA CloudOnlyClosing ==
  ASSUME CloudInv, NEW S, socket' = Closing(S),
         UNCHANGED <<role, authed, authority, pending, consumers, known, hosts, guests>>
  PROVE  CloudInv'
<1>0. TypeOK BY DEF CloudInv
<1>1. TypeOK'
  BY <1>0, ClosingFacts DEF TypeOK, States, Reads
<1>2. AuthorityInCharge' /\ OpenConsumersServed'
  BY <1>0, ClosingFacts DEF CloudInv, AuthorityInCharge, OpenConsumersServed, Open
<1>3. NewUnbound' BY <1>0, ClosingFacts DEF CloudInv, NewUnbound
<1>4. Shown' BY <1>0, ClosingFacts DEF CloudInv, Shown, Reads
<1>5. QED BY <1>1, <1>2, <1>3, <1>4 DEF CloudInv

\* The end of a socket.
LEMMA CloudClosedKeeps ==
  ASSUME CloudInv, NEW s \in Sockets, socket[s] # "new", CloudClosed(s)
  PROVE  CloudInv'
<1> DEFINE S == IF role[s] = "authority" THEN guests ELSE {}
<1>0. TypeOK BY DEF CloudInv
<1>1. /\ socket' = [Closing(S) EXCEPT ![s] = "closed"]
      /\ authority' = IF authority = s THEN None ELSE authority
      /\ pending' = pending \ {s} /\ consumers' = consumers \ {s}
      /\ hosts' = hosts \ {s} /\ guests' = guests \ {s}
      /\ UNCHANGED <<role, authed>>
  BY DEF CloudClosed
<1>2. known' \subseteq known /\ (authority # s => known \ {s} \subseteq known')
  BY DEF CloudClosed
<1> HIDE DEF S
<1>3. /\ socket' \in [Sockets -> States]
      /\ socket'[s] = "closed"
      /\ \A t \in Sockets \ {s} : socket'[t] = Closing(S)[t]
  BY <1>0, <1>1, ClosingFacts DEF States
<1>4. \A t \in Sockets : /\ Open(t)' <=> Open(t) /\ t \notin S /\ t # s
                         /\ Reads(t)' <=> Reads(t) /\ t # s
  <2> SUFFICES ASSUME NEW t \in Sockets
               PROVE  /\ Open(t)' <=> Open(t) /\ t \notin S /\ t # s
                      /\ Reads(t)' <=> Reads(t) /\ t # s
    OBVIOUS
  <2>1. CASE t = s BY <2>1, <1>3 DEF Open, Reads
  <2>2. CASE t # s
    <3>1. socket'[t] = Closing(S)[t] BY <2>2, <1>3
    <3>2. QED BY <2>2, <3>1, <1>0, ClosingFacts DEF Open, Reads
  <2>3. QED BY <2>1, <2>2
<1>5. TypeOK'
  <2>1. pending' \subseteq {t \in Sockets : role'[t] = "authority" /\ Reads(t)'}
    BY <1>0, <1>1, <1>4 DEF TypeOK
  <2>2. consumers' \subseteq {t \in Sockets : role'[t] = "consumer" /\ Reads(t)'}
    BY <1>0, <1>1, <1>4 DEF TypeOK
  <2>3. known' \subseteq {t \in Sockets : role'[t] = "consumer"}
    BY <1>0, <1>1, <1>2 DEF TypeOK
  <2>4. authority' \in Sockets \cup {None} BY <1>0, <1>1 DEF TypeOK
  <2>5. ASSUME authority' # None
        PROVE  role'[authority'] = "authority" /\ authed'[authority'] /\ Reads(authority)'
    <3>1. authority' = authority /\ authority # s /\ authority \in Sockets
      BY <2>5, <1>0, <1>1 DEF TypeOK
    <3>2. role[authority] = "authority" /\ authed[authority] /\ Reads(authority)
      BY <3>1, <2>5, <1>0 DEF TypeOK
    <3>3. socket'[authority] \in {"open", "closing"} BY <3>1, <3>2, <1>4 DEF Reads
    <3>4. Reads(authority)' BY <3>1, <3>3 DEF Reads
    <3>5. QED BY <3>1, <3>2, <3>4, <1>1
  <2>6. QED BY <2>1, <2>2, <2>3, <2>4, <2>5, <1>0, <1>1, <1>3 DEF TypeOK, States
<1>6. AuthorityInCharge'
  BY <1>1, <1>4 DEF CloudInv, AuthorityInCharge
<1>7. OpenConsumersServed'
  <2> SUFFICES ASSUME NEW t \in Sockets, role[t] = "consumer", Open(t)'
               PROVE  t \in consumers' /\ authority' # None /\ t \in known'
    BY <1>1 DEF OpenConsumersServed
  <2>1. Open(t) /\ t \notin S /\ t # s BY <1>4
  <2>2. t \in consumers /\ authority # None /\ t \in known
    BY <2>1 DEF CloudInv, OpenConsumersServed
  <2>3. role[s] # "authority" BY <2>1, <2>2 DEF S, CloudInv, Shown
  <2>4. authority # s BY <2>2, <2>3, <1>0 DEF TypeOK
  <2>5. QED BY <2>1, <2>2, <2>4, <1>1, <1>2
<1>8. NewUnbound'
  <2> SUFFICES ASSUME NEW t \in Sockets, socket'[t] = "new"
               PROVE  role[t] = "none" /\ ~authed[t]
    BY <1>1 DEF NewUnbound
  <2>1. t # s /\ socket'[t] = Closing(S)[t] BY <1>3
  <2>2. socket[t] = "new" BY <2>1, <1>0, ClosingFacts
  <2>3. QED BY <2>2 DEF CloudInv, NewUnbound
<1>9. Shown' BY <1>1, <1>4 DEF CloudInv, Shown
<1>10. QED BY <1>5, <1>6, <1>7, <1>8, <1>9 DEF CloudInv

\* A challenge that is answered: on an open socket it puts it in charge.
LEMMA CloudAuthKeeps ==
  ASSUME CloudInv, NEW s \in Sockets, CloudAuth(s)
  PROVE  CloudInv'
<1> DEFINE stale == Candidates \ {s}
           S == IF stale = {} THEN {} ELSE stale \cup guests
<1>0. TypeOK BY DEF CloudInv
<1>1. /\ Reads(s) /\ role[s] = "authority" /\ ~authed[s] /\ socket' = Closing(S)
      /\ UNCHANGED <<role, consumers, hosts, guests>>
  BY DEF CloudAuth, cloud
<1>2. CASE ~Open(s)
  <2>1. UNCHANGED <<authed, authority, known, pending>> BY <1>2 DEF CloudAuth
  <2> HIDE DEF S
  <2>2. QED BY <1>1, <2>1, CloudOnlyClosing
<1>3. CASE Open(s)
  <2>1. /\ authed' = [authed EXCEPT ![s] = TRUE]
        /\ authority' = s /\ known' = {} /\ pending' = pending \ {s}
    BY <1>3 DEF CloudAuth
  <2>2. authority # None => authority \in stale
    BY <1>1, FoundFacts DEF Candidates
  <2>3. \A t \in Sockets : authed[t] /\ Open(t) => t \in S
    <3> SUFFICES ASSUME NEW t \in Sockets, authed[t], Open(t) PROVE t \in S OBVIOUS
    <3>1. authority = t BY DEF CloudInv, AuthorityInCharge
    <3>2. QED BY <2>2, <3>1, NoneAssumption
  <2>4. \A t \in Sockets : role[t] = "consumer" /\ Open(t) => t \in S
    <3> SUFFICES ASSUME NEW t \in Sockets, role[t] = "consumer", Open(t) PROVE t \in S OBVIOUS
    <3>1. authority # None /\ t \in guests BY DEF CloudInv, OpenConsumersServed, Shown
    <3>2. QED BY <2>2, <3>1
  <2> HIDE DEF S, stale
  <2>5. /\ socket' \in [Sockets -> States]
        /\ \A t \in Sockets : (Open(t)' <=> Open(t) /\ t \notin S) /\ (Reads(t)' <=> Reads(t))
    BY <1>0, <1>1, ClosingFacts DEF Open, Reads
  <2>6. authed' \in [Sockets -> BOOLEAN] /\ authed'[s] BY <1>0, <2>1 DEF TypeOK
  <2>7. TypeOK'
    <3>1. pending' \subseteq {t \in Sockets : role'[t] = "authority" /\ Reads(t)'}
      BY <1>0, <1>1, <2>1, <2>5 DEF TypeOK
    <3>2. consumers' \subseteq {t \in Sockets : role'[t] = "consumer" /\ Reads(t)'}
      BY <1>0, <1>1, <2>5 DEF TypeOK
    <3>3. QED BY <3>1, <3>2, <1>0, <1>1, <2>1, <2>5, <2>6 DEF TypeOK, States
  <2>8. AuthorityInCharge'
    <3> SUFFICES ASSUME NEW t \in Sockets, authed'[t], Open(t)', t # s PROVE FALSE
      BY <2>1 DEF AuthorityInCharge
    <3>1. authed[t] BY <1>0, <2>1 DEF TypeOK
    <3>2. QED BY <3>1, <2>3, <2>5
  <2>9. OpenConsumersServed' BY <1>1, <2>4, <2>5 DEF OpenConsumersServed
  <2>10. NewUnbound'
    <3> SUFFICES ASSUME NEW t \in Sockets, socket'[t] = "new"
                 PROVE  role'[t] = "none" /\ ~authed'[t]
      BY DEF NewUnbound
    <3>1. socket[t] = "new" BY <1>0, <1>1, ClosingFacts
    <3>2. t # s BY <3>1, <1>1 DEF Reads
    <3>3. QED BY <3>1, <3>2, <1>0, <1>1, <2>1 DEF CloudInv, NewUnbound, TypeOK
  <2>11. Shown' BY <1>1, <2>5 DEF CloudInv, Shown
  <2>12. QED BY <2>7, <2>8, <2>9, <2>10, <2>11 DEF CloudInv
<1>4. QED BY <1>2, <1>3

CloudConnect(s) ==
  \/ CloudRefuseAuthority(s) \/ CloudAcceptAuthority(s)
  \/ CloudRefuseConsumer(s) \/ CloudAcceptConsumer(s)

\* A connection that is taken in or turned down.
LEMMA CloudConnectKeeps ==
  ASSUME CloudInv, NEW s \in Sockets, CloudConnect(s)
  PROVE  CloudInv'
<1>0. TypeOK BY DEF CloudInv
<1>1. socket[s] = "new"
  BY DEF CloudConnect, CloudRefuseAuthority, CloudAcceptAuthority, CloudRefuseConsumer,
     CloudAcceptConsumer, Comes
<1>2. role[s] = "none" /\ ~authed[s] BY <1>1 DEF CloudInv, NewUnbound
<1>3. s \notin known /\ s \notin consumers /\ s \notin pending /\ authority # s
  BY <1>0, <1>1, <1>2, NoneAssumption DEF TypeOK, Reads
<1>4. authed' = authed /\ authority' = authority
  BY DEF CloudConnect, CloudRefuseAuthority, CloudAcceptAuthority, CloudRefuseConsumer,
     CloudAcceptConsumer
<1>5. PICK state \in {"open", "closing"}, r \in {"none", "authority", "consumer"} :
        /\ socket' = [socket EXCEPT ![s] = state]
        /\ role' = [role EXCEPT ![s] = r]
        /\ pending' = pending \/ (r = "authority" /\ state = "open" /\ pending' = pending \cup {s})
        /\ \/ r # "consumer" /\ consumers' = consumers /\ known' = known
           \/ /\ r = "consumer" /\ consumers' = consumers \cup {s}
              /\ IF state = "open" THEN Reached /\ known' = known \cup {s} ELSE known' = known
        /\ hosts \subseteq hosts' /\ hosts' \subseteq hosts \cup {s}
        /\ guests \subseteq guests' /\ guests' \subseteq guests \cup {s}
        /\ r = "authority" => s \in hosts'
        /\ r = "consumer" => s \in guests'
  <2>1. CASE CloudRefuseAuthority(s) \/ CloudRefuseConsumer(s)
    <3>1. role' = [role EXCEPT ![s] = "none"]
      BY <2>1, <1>0, <1>2 DEF CloudRefuseAuthority, CloudRefuseConsumer, TypeOK
    <3>2. QED BY <2>1, <3>1 DEF CloudRefuseAuthority, CloudRefuseConsumer
  <2>2. CASE CloudAcceptAuthority(s) BY <2>2 DEF CloudAcceptAuthority
  <2>3. CASE CloudAcceptConsumer(s) BY <2>3 DEF CloudAcceptConsumer
  <2>4. QED BY <2>1, <2>2, <2>3 DEF CloudConnect
<1>6. \A t \in Sockets \ {s} : socket'[t] = socket[t] /\ role'[t] = role[t]
  BY <1>5
<1>7. socket'[s] = state /\ role'[s] = r BY <1>0, <1>5 DEF TypeOK
<1>8. TypeOK'
  <2>1. /\ socket' \in [Sockets -> States]
        /\ role' \in [Sockets -> {"none", "authority", "consumer"}]
    BY <1>0, <1>5 DEF TypeOK, States
  <2>2. pending' \subseteq {t \in Sockets : role'[t] = "authority" /\ Reads(t)'}
    BY <1>0, <1>3, <1>5, <1>6, <1>7 DEF TypeOK, Reads
  <2>3. consumers' \subseteq {t \in Sockets : role'[t] = "consumer" /\ Reads(t)'}
    BY <1>0, <1>3, <1>5, <1>6, <1>7 DEF TypeOK, Reads
  <2>4. known' \subseteq {t \in Sockets : role'[t] = "consumer"}
    BY <1>0, <1>3, <1>5, <1>6, <1>7 DEF TypeOK
  <2>5. ASSUME authority' # None
        PROVE  role'[authority'] = "authority" /\ authed'[authority'] /\ Reads(authority)'
    <3>1. authority \in Sockets \ {s} BY <2>5, <1>0, <1>3, <1>4 DEF TypeOK
    <3>2. role[authority] = "authority" /\ authed[authority] /\ Reads(authority)
      BY <2>5, <1>0, <1>4 DEF TypeOK
    <3>3. socket'[authority] = socket[authority] /\ role'[authority] = role[authority]
      BY <3>1, <1>6
    <3>4. Reads(authority)' BY <3>2, <3>3, <1>4 DEF Reads
    <3>5. QED BY <3>2, <3>3, <3>4, <1>4
  <2>6. authed' \in [Sockets -> BOOLEAN] /\ authority' \in Sockets \cup {None}
    BY <1>0, <1>4 DEF TypeOK
  <2>7. QED BY <2>1, <2>2, <2>3, <2>4, <2>5, <2>6 DEF TypeOK, States
<1>9. NewUnbound'
  <2> SUFFICES ASSUME NEW t \in Sockets, socket'[t] = "new"
               PROVE  role'[t] = "none" /\ ~authed[t]
    BY <1>4 DEF NewUnbound
  <2>1. t # s BY <1>7
  <2>2. QED BY <2>1, <1>6 DEF CloudInv, NewUnbound
<1>10. AuthorityInCharge'
  BY <1>2, <1>4, <1>6 DEF CloudInv, AuthorityInCharge, Open
<1>11. OpenConsumersServed'
  <2> SUFFICES ASSUME NEW t \in Sockets, role'[t] = "consumer", Open(t)'
               PROVE  t \in consumers' /\ authority # None /\ t \in known'
    BY <1>4 DEF OpenConsumersServed
  <2>1. CASE t = s BY <2>1, <1>5, <1>7, FoundFacts DEF Open
  <2>2. CASE t # s
    <3>1. role[t] = "consumer" /\ Open(t) BY <2>2, <1>6 DEF Open
    <3>2. QED BY <3>1, <1>5 DEF CloudInv, OpenConsumersServed
  <2>3. QED BY <2>1, <2>2
<1>12. Shown'
  <2>1. hosts' \subseteq Sockets /\ guests' \subseteq Sockets BY <1>5 DEF CloudInv, Shown
  <2>2. ASSUME NEW t \in Sockets, role'[t] = "authority", Reads(t)' PROVE t \in hosts'
    <3>1. CASE t = s BY <2>2, <3>1, <1>5, <1>7
    <3>2. CASE t # s
      <4>1. role[t] = "authority" /\ Reads(t) BY <2>2, <3>2, <1>6 DEF Reads
      <4>2. QED BY <4>1, <1>5 DEF CloudInv, Shown
    <3>3. QED BY <3>1, <3>2
  <2>3. consumers' \subseteq guests' BY <1>5 DEF CloudInv, Shown
  <2>4. QED BY <2>1, <2>2, <2>3 DEF Shown
<1>13. QED BY <1>8, <1>9, <1>10, <1>11, <1>12 DEF CloudInv

LEMMA CloudForwardKeeps ==
  ASSUME CloudInv, NEW s \in Sockets, CloudForwardMessage(s)
  PROVE  CloudInv'
<1>1. /\ role[s] = "consumer" /\ known' = known \cup {s}
      /\ UNCHANGED <<socket, role, authed, authority, pending, consumers, hosts, guests>>
  BY DEF CloudForwardMessage, cloud
<1>2. TypeOK' /\ NewUnbound' BY <1>1 DEF CloudInv, TypeOK, NewUnbound, Reads
<1>3. AuthorityInCharge' /\ OpenConsumersServed'
  BY <1>1 DEF CloudInv, AuthorityInCharge, OpenConsumersServed, Open
<1>4. Shown' BY <1>1 DEF CloudInv, Shown, Reads
<1>5. QED BY <1>2, <1>3, <1>4 DEF CloudInv

\* After a restart nothing is connected.
LEMMA RestartKeeps == CloudInv /\ Restart => CloudInv'
<1> SUFFICES ASSUME CloudInv, Restart PROVE CloudInv' OBVIOUS
<1>1. /\ socket' = [s \in Sockets |-> IF socket[s] = "new" THEN "new" ELSE "closed"]
      /\ authority' = None /\ known' = {} /\ pending' = {} /\ consumers' = {}
      /\ hosts' = {} /\ guests' = {} /\ UNCHANGED <<role, authed>>
  BY DEF Restart
<1>2. \A s \in Sockets : ~Open(s)' /\ ~Reads(s)' /\ (socket'[s] = "new" => socket[s] = "new")
  BY <1>1 DEF Open, Reads
<1>3. TypeOK' BY <1>1 DEF CloudInv, TypeOK
<1>4. NewUnbound' BY <1>1, <1>2 DEF CloudInv, NewUnbound
<1>5. AuthorityInCharge' /\ OpenConsumersServed'
  BY <1>2 DEF AuthorityInCharge, OpenConsumersServed
<1>6. Shown' BY <1>1, <1>2 DEF Shown
<1>7. QED BY <1>3, <1>4, <1>5, <1>6 DEF CloudInv

LEMMA CloudStep == CloudInv /\ [CloudNext]_cvars => CloudInv'
<1> SUFFICES ASSUME CloudInv, [CloudNext]_cvars PROVE CloudInv' OBVIOUS
<1>1. ASSUME NEW s \in Sockets, CloudConnect(s) PROVE CloudInv'
  BY <1>1, CloudConnectKeeps
<1>2. ASSUME NEW s \in Sockets, CloudRefuseMessage(s) \/ CloudCloseClient(s) PROVE CloudInv'
  BY <1>2, CloudOnlyClosing DEF CloudRefuseMessage, CloudCloseClient, cloud
<1>3. ASSUME NEW s \in Sockets, CloudAuth(s) PROVE CloudInv'
  BY <1>3, CloudAuthKeeps
<1>4. ASSUME NEW s \in Sockets, CloudForwardMessage(s) PROVE CloudInv'
  BY <1>4, CloudForwardKeeps
<1>5. ASSUME NEW s \in Sockets, CloudPeerCloses(s) \/ CloudCloseEnds(s) PROVE CloudInv'
  <2>1. CloudClosed(s) /\ socket[s] # "new" BY <1>5 DEF CloudPeerCloses, CloudCloseEnds, Open
  <2>2. QED BY <2>1, CloudClosedKeeps
<1>6. CASE Alarm
  <2>1. PICK due : socket' = Closing(due) BY <1>6 DEF Alarm
  <2>2. UNCHANGED <<role, authed, authority, pending, consumers, known, hosts, guests>>
    BY <1>6 DEF Alarm
  <2>3. QED BY <2>1, <2>2, CloudOnlyClosing
<1>7. CASE Restart BY <1>7, RestartKeeps
<1>8. CASE UNCHANGED cvars
  BY <1>8 DEF cvars, vars, cloud, CloudInv, TypeOK, NewUnbound, AuthorityInCharge,
     OpenConsumersServed, Shown, Open, Reads
<1>9. QED BY <1>1, <1>2, <1>3, <1>4, <1>5, <1>6, <1>7, <1>8, Zenon DEF CloudNext, CloudConnect

LEMMA CloudInvariant == CloudSpec => []CloudInv
<1>1. CloudInit => CloudInv
  BY RoomInit DEF CloudInit, RoomInv, CloudInv, Shown, Init
<1>2. QED BY <1>1, CloudStep, PTL DEF CloudSpec

\* The types of the room: an authority in charge has answered its challenge,
\* and who is attached as pending or as a client is connected (AuthorityRoom).
THEOREM CloudTyping == CloudSpec => []TypeOK
<1>1. CloudInv => TypeOK BY DEF CloudInv
<1>2. QED BY CloudInvariant, <1>1, PTL

\* Sockets that are open and authenticated are the one in charge: an answer to
\* the challenge closes every other, and a restart all (handleAuthorityMessage,
\* closeSocket).
THEOREM CloudInCharge == CloudSpec => []AuthorityInCharge
<1>1. CloudInv => AuthorityInCharge BY DEF CloudInv
<1>2. QED BY CloudInvariant, <1>1, PTL

\* An open client is attached, and an authority in charge knows of it
\* (acceptConsumer, handleAuthorityMessage, closeSocket).
THEOREM CloudServed == CloudSpec => []OpenConsumersServed
<1>1. CloudInv => OpenConsumersServed BY DEF CloudInv
<1>2. QED BY CloudInvariant, <1>1, PTL

\* The limits hold, though sockets that are closing are counted
\* (acceptConsumer, acceptAuthority).
THEOREM CloudBounded == CloudSpec => []RoomBounds
<1>1. CloudInit => RoomBounds
  <2>1. Cardinality({}) = 0 BY FS_EmptySet
  <2>2. QED BY <2>1, LimitAssumption DEF CloudInit, Init, RoomBounds
<1>2. CloudInv /\ RoomBounds /\ [CloudNext]_cvars => RoomBounds'
  <2> SUFFICES ASSUME CloudInv, RoomBounds, [CloudNext]_cvars PROVE RoomBounds' OBVIOUS
  <2>0. /\ consumers \in SUBSET Sockets /\ pending \in SUBSET Sockets
        /\ consumers \subseteq guests /\ guests \subseteq Sockets
    BY DEF CloudInv, TypeOK, Shown
  <2>1. /\ IsFiniteSet(guests) /\ Cardinality(guests) \in Nat
        /\ Cardinality(consumers) \in Nat /\ Cardinality(pending) \in Nat
        /\ Cardinality(consumers) <= Cardinality(guests)
    <3>1. IsFiniteSet(guests) /\ IsFiniteSet(consumers) /\ IsFiniteSet(pending)
      BY <2>0, SocketsAssumption, FS_Subset
    <3>2. Cardinality(consumers) <= Cardinality(guests) BY <2>0, <3>1, FS_Subset
    <3>3. QED BY <3>1, <3>2, FS_CardinalityType
  <2>2. ASSUME NEW s \in Sockets, CloudAcceptConsumer(s)
        PROVE  RoomBounds'
    <3>1. Cardinality(guests) + 1 <= MaxClients
      BY <2>1, <2>2, LimitAssumption DEF CloudAcceptConsumer, CloudCrowded
    <3>2. Cardinality(consumers) + 1 <= MaxClients BY <2>1, <3>1, LimitAssumption
    <3>3. consumers' = consumers \cup {s} /\ pending' = pending
      BY <2>2 DEF CloudAcceptConsumer
    <3>4. Cardinality(consumers') <= MaxClients
      BY <2>0, <3>2, <3>3, WithinLimit, LimitAssumption DEF RoomBounds
    <3>5. QED BY <3>3, <3>4 DEF RoomBounds
  <2>3. ASSUME NEW s \in Sockets, CloudAcceptAuthority(s)
        PROVE  RoomBounds'
    <3>1. Cardinality(pending) + 1 <= MaxPending
      BY <2>1, <2>3, LimitAssumption DEF CloudAcceptAuthority
    <3>2. pending' = pending \cup {s} /\ consumers' = consumers
      BY <2>3 DEF CloudAcceptAuthority
    <3>3. Cardinality(pending') <= MaxPending
      BY <2>0, <3>1, <3>2, WithinLimit, LimitAssumption DEF RoomBounds
    <3>4. QED BY <3>2, <3>3 DEF RoomBounds
  <2>4. ASSUME consumers' \subseteq consumers, pending' \subseteq pending
        PROVE  RoomBounds'
    <3>1. CASE Sockets = {}
      <4>1. consumers' = consumers /\ pending' = pending BY <2>0, <2>4, <3>1
      <4>2. QED BY <4>1 DEF RoomBounds
    <3>2. CASE Sockets # {}
      <4> PICK x \in Sockets : TRUE BY <3>2
      <4>1. Cardinality(consumers') <= MaxClients
        BY <2>0, <2>4, WithinLimit, LimitAssumption DEF RoomBounds
      <4>2. Cardinality(pending') <= MaxPending
        BY <2>0, <2>4, WithinLimit, LimitAssumption DEF RoomBounds
      <4>3. QED BY <4>1, <4>2 DEF RoomBounds
    <3>3. QED BY <3>1, <3>2
  <2>5. ASSUME NEW s \in Sockets,
               \/ CloudRefuseAuthority(s) \/ CloudRefuseConsumer(s) \/ CloudRefuseMessage(s)
               \/ CloudForwardMessage(s) \/ CloudCloseClient(s)
        PROVE  consumers' \subseteq consumers /\ pending' \subseteq pending
    BY <2>5 DEF CloudRefuseAuthority, CloudRefuseConsumer, CloudRefuseMessage,
       CloudForwardMessage, CloudCloseClient
  <2>6. ASSUME NEW s \in Sockets, CloudAuth(s)
        PROVE  consumers' \subseteq consumers /\ pending' \subseteq pending
    BY <2>6 DEF CloudAuth
  <2>7. ASSUME NEW s \in Sockets, CloudPeerCloses(s) \/ CloudCloseEnds(s)
        PROVE  consumers' \subseteq consumers /\ pending' \subseteq pending
    BY <2>7 DEF CloudPeerCloses, CloudCloseEnds, CloudClosed
  <2>8. CASE Alarm \/ Restart \/ UNCHANGED cvars
    <3>1. consumers' \subseteq consumers /\ pending' \subseteq pending
      BY <2>8 DEF Alarm, Restart, cvars, vars
    <3>2. QED BY <2>4, <3>1
  <2>9. QED BY <2>2, <2>3, <2>4, <2>5, <2>6, <2>7, <2>8 DEF CloudNext
<1>3. QED BY CloudInvariant, <1>1, <1>2, PTL DEF CloudSpec

-----------------------------------------------------------------------------
(* What an authority on Cloudflare is told of ends. *)

\* Every set of numbers that is not empty has a least one.
LEMMA LeastExists ==
  ASSUME NEW T \in SUBSET Nat, T # {}
  PROVE  \E x \in T : \A y \in T : x <= y
<1>1. PICK x \in T : \A y \in T : ~(<<y, x>> \in OpToRel(<, Nat))
  BY NatLessThanWellFounded, WFMin
<1>2. \A y \in T : ~(y < x)
  <2> SUFFICES ASSUME NEW y \in T, y < x PROVE FALSE OBVIOUS
  <2>1. <<y, x>> \in OpToRel(<, Nat) BY DEF OpToRel
  <2>2. QED BY <1>1, <2>1
<1>3. QED BY <1>2

\* And the greatest, if it is finite: a list of its elements has a bound, or the
\* shortest part of the list without one ends with an element that has none.
LEMMA GreatestExists ==
  ASSUME NEW T \in SUBSET Nat, T # {}, IsFiniteSet(T)
  PROVE  \E x \in T : \A y \in T : x >= y
<1>0. PICK size \in Nat : ExistsSurjection(1..size, T) BY FS_NatSurjection
<1>1. PICK list \in [1..size -> T] : \A t \in T : \E i \in 1..size : list[i] = t
  BY <1>0 DEF ExistsSurjection, Surjection
<1>2. \A i \in 1..size : list[i] \in Nat BY <1>1
<1> DEFINE Bounds(k) == {n \in Nat : \A i \in 1..k : list[i] <= n}
           Without  == {k \in 0..size : Bounds(k) = {}}
<1>3. Without = {}
  <2> SUFFICES ASSUME Without # {} PROVE FALSE OBVIOUS
  <2>1. Without \in SUBSET Nat BY <1>2
  <2>2. PICK k \in Without : \A j \in Without : k <= j BY <2>1, LeastExists
  <2>3. k \in 0..size /\ Bounds(k) = {} OBVIOUS
  <2>4. k # 0
    <3>1. 0 \in Bounds(0) OBVIOUS
    <3>2. QED BY <2>3, <3>1
  <2>5. k - 1 \in 0..size /\ k \in 1..size BY <1>2, <2>3, <2>4
  <2>6. k - 1 \notin Without
    <3>1. k - 1 < k BY <2>5
    <3>2. k - 1 \in Without => k <= k - 1 BY <2>2
    <3>3. QED BY <2>5, <3>1, <3>2
  <2>7. PICK n \in Bounds(k - 1) : TRUE BY <2>5, <2>6
  <2>8. list[k] \in Nat BY <1>2, <2>5
  <2>9. PICK m \in Nat : n <= m /\ list[k] <= m
    <3>1. n \in Nat OBVIOUS
    <3>2. CASE n <= list[k] BY <2>8, <3>1, <3>2
    <3>3. CASE ~(n <= list[k]) BY <2>8, <3>1, <3>3
    <3>4. QED BY <3>2, <3>3
  <2>10. m \in Bounds(k)
    <3> SUFFICES ASSUME NEW i \in 1..k PROVE list[i] <= m OBVIOUS
    <3>1. CASE i = k BY <2>9, <3>1
    <3>2. CASE i # k
      <4>1. i \in 1..(k - 1) /\ i \in 1..size BY <2>5, <3>2
      <4>2. list[i] <= n BY <4>1
      <4>3. QED BY <1>2, <2>9, <4>1, <4>2
    <3>3. QED BY <3>1, <3>2
  <2>11. QED BY <2>3, <2>10
<1>4. size \in 0..size BY <1>2
<1>5. PICK n \in Nat : \A i \in 1..size : list[i] <= n BY <1>3, <1>4
<1>6. \A t \in T : t <= n BY <1>1, <1>5
<1> DEFINE Gaps == {n - t : t \in T}
<1>7. Gaps \in SUBSET Nat /\ Gaps # {} BY <1>6
<1>8. PICK g \in Gaps : \A h \in Gaps : g <= h BY <1>7, LeastExists
<1>9. PICK x \in T : g = n - x BY <1>8
<1>10. ASSUME NEW y \in T PROVE x >= y
  <2>1. n - x <= n - y BY <1>8, <1>9
  <2>2. QED BY <2>1
<1>11. QED BY <1>10

First(s) == \A t \in Candidates : IF oldestFirst THEN s <= t ELSE s >= t

\* What findAuthority finds is the first candidate, in the order of the platform.
LEMMA FoundIsFirst ==
  ASSUME CloudInv, Candidates # {}
  PROVE  Found \in Candidates /\ First(Found)
<1>1. Candidates \in SUBSET Nat /\ Candidates \in SUBSET Sockets
  BY OrderAssumption DEF Candidates, CloudInv, Shown
<1>2. IsFiniteSet(Candidates) BY <1>1, SocketsAssumption, FS_Subset
<1>3. \E s \in Candidates : First(s)
  <2>1. CASE oldestFirst BY <1>1, <2>1, LeastExists DEF First
  <2>2. CASE ~oldestFirst BY <1>1, <1>2, <2>2, GreatestExists DEF First
  <2>3. QED BY <2>1, <2>2
<1>4. Found = CHOOSE s \in Candidates : First(s) BY DEF Found, First
<1>5. QED BY <1>3, <1>4

\* When there are no more candidates than before and the one found is still
\* among them, it is found again.
LEMMA FoundAgain ==
  ASSUME CloudInv, CloudInv', oldestFirst' = oldestFirst,
         Candidates' \subseteq Candidates, Found \in Candidates'
  PROVE  Found' = Found
<1>1. Candidates # {} /\ Candidates' # {} OBVIOUS
<1>2. Found \in Candidates /\ First(Found) BY <1>1, FoundIsFirst
<1>3. Found' \in Candidates' /\ First(Found)'
  <2>1. (Candidates # {} => Found \in Candidates /\ First(Found))'
    BY FoundIsFirst, PTL
  <2>2. QED BY <1>1, <2>1
<1>4. Found \in Nat /\ Found' \in Nat
  BY <1>2, <1>3, OrderAssumption DEF Candidates, CloudInv, Shown
<1>5. IF oldestFirst THEN Found <= Found' /\ Found' <= Found ELSE Found >= Found' /\ Found' >= Found
  BY <1>2, <1>3 DEF First
<1>6. QED BY <1>4, <1>5

\* Once the authority in charge knows of a client again, its predecessors' ends
\* have been reported, or come after it in the order: it is the one found.
InFront == (Online /\ known # {}) => Found = authority

Told == InFront /\ NoGhostSessions

\* Whom it did not know of before, it learns of through the one found.
LEMMA StaysInFront ==
  ASSUME CloudInv, InFront, CloudInv', oldestFirst' = oldestFirst,
         Candidates' \subseteq Candidates, authority' = authority,
         Online' => Online, known' # {} => known # {} \/ Reached
  PROVE  InFront'
<1> SUFFICES ASSUME Online', known' # {} PROVE Found' = authority' BY DEF InFront
<1>1. Online /\ authority # None /\ authority' # None BY DEF Online
<1>2. Found = authority BY <1>1, FoundFacts DEF InFront
<1>3. (authority # None => authority \in Candidates)' BY FoundFacts, PTL
<1>4. Found \in Candidates' BY <1>1, <1>2, <1>3
<1>5. QED BY <1>2, <1>4, FoundAgain

\* Sockets that close but have not ended are none the authority is told of.
LEMMA ClosingTold ==
  ASSUME CloudInv, Told, CloudInv', NEW S, socket' = Closing(S),
         UNCHANGED <<role, authed, authority, pending, consumers, known, hosts, guests, oldestFirst>>
  PROVE  Told'
<1>0. TypeOK BY DEF CloudInv
<1>1. Online' => Online BY <1>0, ClosingFacts, NoneAssumption DEF Online, TypeOK, Open
<1>2. Candidates' = Candidates BY DEF Candidates
<1>3. InFront' BY <1>1, <1>2, StaysInFront DEF Told
<1>4. NoGhostSessions'
  <2> SUFFICES ASSUME Online', NEW s \in known, socket'[s] \in {"failed", "closed"}
               PROVE  FALSE
    BY DEF NoGhostSessions
  <2>1. s \in Sockets BY <1>0 DEF TypeOK
  <2>2. socket[s] \in {"failed", "closed"} BY <1>0, <2>1, ClosingFacts
  <2>3. QED BY <1>1, <2>2 DEF Told, NoGhostSessions
<1>5. QED BY <1>3, <1>4 DEF Told

\* A connection that comes is not over, and no candidate.
LEMMA ConnectTold ==
  ASSUME CloudInv, Told, CloudInv', NEW s \in Sockets, CloudConnect(s)
  PROVE  Told'
<1>0. TypeOK BY DEF CloudInv
<1>1. socket[s] = "new"
  BY DEF CloudConnect, CloudRefuseAuthority, CloudAcceptAuthority, CloudRefuseConsumer,
     CloudAcceptConsumer, Comes
<1>2. ~authed[s] /\ authority # s
  BY <1>0, <1>1, NoneAssumption DEF CloudInv, NewUnbound, TypeOK, Reads
<1>3. /\ hosts' \subseteq hosts \cup {s}
      /\ UNCHANGED <<authed, authority, oldestFirst>>
      /\ known' = known \/ (Reached /\ known' = known \cup {s})
  BY DEF CloudConnect, CloudRefuseAuthority, CloudAcceptAuthority, CloudRefuseConsumer,
     CloudAcceptConsumer
<1>4. PICK state \in {"open", "closing"} : socket' = [socket EXCEPT ![s] = state]
  BY DEF CloudConnect, CloudRefuseAuthority, CloudAcceptAuthority, CloudRefuseConsumer,
     CloudAcceptConsumer
<1>5. socket'[s] = state /\ \A t \in Sockets \ {s} : socket'[t] = socket[t]
  BY <1>0, <1>4 DEF TypeOK
<1>6. Candidates' \subseteq Candidates BY <1>2, <1>3 DEF Candidates
<1>7. Online' => Online
  <2> SUFFICES ASSUME Online' PROVE Online OBVIOUS
  <2>1. authority \in Sockets \ {s} /\ socket'[authority] = "open"
    BY <1>0, <1>2, <1>3 DEF Online, TypeOK
  <2>2. QED BY <1>5, <2>1, NoneAssumption DEF Online
<1>8. InFront' BY <1>3, <1>6, <1>7, StaysInFront DEF Told
<1>9. NoGhostSessions'
  <2> SUFFICES ASSUME Online', NEW t \in known', socket'[t] \in {"failed", "closed"}
               PROVE  FALSE
    BY DEF NoGhostSessions
  <2>1. t # s BY <1>5
  <2>2. t \in known /\ t \in Sockets BY <1>0, <1>3, <2>1 DEF TypeOK
  <2>3. QED BY <1>5, <1>7, <2>1, <2>2 DEF Told, NoGhostSessions
<1>10. QED BY <1>8, <1>9 DEF Told

\* An answer to the challenge makes an authority that knows of no one.
LEMMA AuthTold ==
  ASSUME CloudInv, Told, CloudInv', NEW s \in Sockets, CloudAuth(s)
  PROVE  Told'
<1>1. CASE Open(s)
  <2>1. known' = {} BY <1>1 DEF CloudAuth
  <2>2. QED BY <2>1 DEF Told, InFront, NoGhostSessions
<1>2. CASE ~Open(s)
  <2>1. PICK S : socket' = Closing(S) BY DEF CloudAuth
  <2>2. UNCHANGED <<role, authed, authority, pending, consumers, known, hosts, guests, oldestFirst>>
    BY <1>2 DEF CloudAuth, cloud
  <2>3. QED BY <2>1, <2>2, ClosingTold
<1>3. QED BY <1>1, <1>2

\* A message comes from a connection that is not over.
LEMMA ForwardTold ==
  ASSUME CloudInv, Told, CloudInv', NEW s \in Sockets, CloudForwardMessage(s)
  PROVE  Told'
<1>1. /\ Reached /\ Reads(s) /\ known' = known \cup {s}
      /\ UNCHANGED <<socket, authed, authority, hosts, oldestFirst>>
  BY DEF CloudForwardMessage, cloud
<1>2. Candidates' = Candidates /\ (Online' => Online) BY <1>1 DEF Candidates, Online
<1>3. InFront' BY <1>1, <1>2, StaysInFront DEF Told
<1>4. NoGhostSessions' BY <1>1, <1>2 DEF Told, NoGhostSessions, Reads
<1>5. QED BY <1>3, <1>4 DEF Told

\* The end of a client reaches the authority that knows of it.
LEMMA EndTold ==
  ASSUME CloudInv, Told, CloudInv', NEW s \in Sockets, socket[s] # "new", CloudClosed(s)
  PROVE  Told'
<1>0. TypeOK BY DEF CloudInv
<1>1. PICK S : socket' = [Closing(S) EXCEPT ![s] = "closed"] BY DEF CloudClosed
<1>2. /\ authority' = IF authority = s THEN None ELSE authority
      /\ hosts' = hosts \ {s} /\ UNCHANGED <<authed, oldestFirst>>
      /\ known' \subseteq known
      /\ authority # s /\ role[s] = "consumer" /\ Reached => s \notin known'
  BY DEF CloudClosed
<1>3. \A t \in Sockets \ {s} : socket'[t] = Closing(S)[t]
  BY <1>0, <1>1, ClosingFacts
<1>4. ASSUME Online'
      PROVE  authority' = authority /\ authority # s /\ Online
  <2>1. authority' = authority /\ authority # s /\ authority # None BY <1>2, <1>4 DEF Online
  <2>2. authority \in Sockets \ {s} BY <1>0, <2>1 DEF TypeOK
  <2>3. Closing(S)[authority] = "open" BY <1>3, <1>4, <2>1, <2>2 DEF Online
  <2>4. Open(authority) BY <1>0, <2>2, <2>3, ClosingFacts
  <2>5. QED BY <2>1, <2>4 DEF Online, Open
<1>5. Candidates' \subseteq Candidates BY <1>2 DEF Candidates
<1>6. InFront'
  <2>1. CASE Online'
    <3>1. authority' = authority /\ (known' # {} => known # {}) BY <1>2, <1>4, <2>1
    <3>2. QED BY <1>2, <1>4, <1>5, <3>1, StaysInFront DEF Told
  <2>2. CASE ~Online' BY <2>2 DEF InFront
  <2>3. QED BY <2>1, <2>2
<1>7. NoGhostSessions'
  <2> SUFFICES ASSUME Online', NEW t \in known', socket'[t] \in {"failed", "closed"}
               PROVE  FALSE
    BY DEF NoGhostSessions
  <2>1. t \in known /\ t \in Sockets /\ role[t] = "consumer" BY <1>0, <1>2 DEF TypeOK
  <2>2. CASE t = s
    <3>1. Found = authority BY <1>4, <2>1 DEF Told, InFront
    <3>2. authority # None /\ authority \in Candidates /\ Open(authority)
      BY <1>4, FoundFacts DEF Online, Open
    <3>3. Reached BY <3>1, <3>2 DEF Reached
    <3>4. QED BY <1>2, <1>4, <2>1, <2>2, <3>3
  <2>3. CASE t # s
    <3>1. socket[t] \in {"failed", "closed"} BY <1>0, <1>3, <2>1, <2>3, ClosingFacts
    <3>2. QED BY <1>4, <2>1, <3>1 DEF Told, NoGhostSessions
  <2>4. QED BY <2>2, <2>3
<1>8. QED BY <1>6, <1>7 DEF Told

LEMMA ToldStep == CloudInv /\ Told /\ CloudInv' /\ [CloudNext]_cvars => Told'
<1> SUFFICES ASSUME CloudInv, Told, CloudInv', [CloudNext]_cvars PROVE Told' OBVIOUS
<1>1. ASSUME NEW s \in Sockets, CloudConnect(s) PROVE Told' BY <1>1, ConnectTold
<1>2. ASSUME NEW s \in Sockets, CloudRefuseMessage(s) \/ CloudCloseClient(s) PROVE Told'
  BY <1>2, ClosingTold DEF CloudRefuseMessage, CloudCloseClient, cloud
<1>3. ASSUME NEW s \in Sockets, CloudAuth(s) PROVE Told' BY <1>3, AuthTold
<1>4. ASSUME NEW s \in Sockets, CloudForwardMessage(s) PROVE Told' BY <1>4, ForwardTold
<1>5. ASSUME NEW s \in Sockets, CloudPeerCloses(s) \/ CloudCloseEnds(s) PROVE Told'
  <2>1. CloudClosed(s) /\ socket[s] # "new" BY <1>5 DEF CloudPeerCloses, CloudCloseEnds, Open
  <2>2. QED BY <2>1, EndTold
<1>6. CASE Alarm
  <2>1. PICK due : socket' = Closing(due) BY <1>6 DEF Alarm
  <2>2. UNCHANGED <<role, authed, authority, pending, consumers, known, hosts, guests, oldestFirst>>
    BY <1>6 DEF Alarm
  <2>3. QED BY <2>1, <2>2, ClosingTold
<1>7. CASE Restart
  <2>1. ~Online' BY <1>7 DEF Restart, Online
  <2>2. QED BY <2>1 DEF Told, InFront, NoGhostSessions
<1>8. CASE UNCHANGED cvars
  BY <1>8 DEF cvars, vars, cloud, Told, InFront, NoGhostSessions, Online, Found, Candidates
<1>9. QED BY <1>1, <1>2, <1>3, <1>4, <1>5, <1>6, <1>7, <1>8, Zenon DEF CloudNext, CloudConnect

\* An authority online is told of the end of every client it knows, whichever
\* order the platform lists its sockets in (closeSocket, findAuthority).
THEOREM CloudNoGhosts == CloudSpec => []NoGhostSessions
<1>1. CloudInit => Told
  BY NoneAssumption DEF CloudInit, Init, Told, InFront, NoGhostSessions, Online
<1>2. Told => NoGhostSessions BY DEF Told
<1>3. QED BY CloudInvariant, <1>1, <1>2, ToldStep, PTL DEF CloudSpec

-----------------------------------------------------------------------------
(* A room is a Switchboard.                                                 *)

\* Who claims to be the authority waits until it is decided.
Undecided == pending = {s \in Sockets : role[s] = "authority" /\ Reads(s) /\ ~authed[s]}

\* Who goes, goes: nobody else is served, waits or is known.
LEMMA SomeGo ==
  ASSUME OpenConsumersServed', Unused' = Unused, OpenConsumers' \subseteq OpenConsumers,
         pending' \subseteq pending, known' \subseteq known, authority' = authority
  PROVE  Board!Next
<1>1. OpenConsumers' \subseteq known'
  BY DEF OpenConsumersServed, OpenConsumers
<1>2. Board!Go BY <1>1 DEF Board!Go
<1>3. QED BY <1>2 DEF Board!Next

\* Without an authority nobody is served.
LEMMA AuthorityGoes ==
  ASSUME OpenConsumersServed', Unused' = Unused, pending' \subseteq pending, known' = {},
         authority' = None
  PROVE  Board!Next
<1>1. OpenConsumers' = {}
  BY DEF OpenConsumersServed, OpenConsumers
<1>2. Board!StepDown BY <1>1 DEF Board!StepDown
<1>3. QED BY <1>2 DEF Board!Next

\* Closing sockets is going.
LEMMA ClosingGoes ==
  ASSUME TypeOK, OpenConsumersServed', NEW S, socket' = Closing(S), role' = role,
         UNCHANGED <<authority, pending, known>>
  PROVE  Board!Next
<1>1. Unused' = Unused BY ClosingFacts DEF Unused
<1>2. OpenConsumers' \subseteq OpenConsumers BY ClosingFacts DEF OpenConsumers, Open
<1>3. QED BY <1>1, <1>2, SomeGo

\* A socket that ends takes only those along that are closed with it.
LEMMA EndingGoes ==
  ASSUME TypeOK, OpenConsumersServed', NEW S, NEW s \in Sockets, socket[s] # "new",
         NEW end \in {"failed", "closed"}, socket' = [Closing(S) EXCEPT ![s] = end],
         role' = role, pending' \subseteq pending,
         \/ authority' = authority /\ known' \subseteq known
         \/ authority' = None /\ known' = {}
  PROVE  Board!Next
<1>1. socket'[s] = end /\ \A t \in Sockets \ {s} : socket'[t] = Closing(S)[t]
  BY ClosingFacts
<1>2. Unused' = Unused
  <2>1. ASSUME NEW t \in Sockets PROVE socket'[t] = "new" <=> socket[t] = "new"
    BY <1>1, ClosingFacts
  <2>2. QED BY <2>1 DEF Unused
<1>3. OpenConsumers' \subseteq OpenConsumers
  <2>1. ASSUME NEW t \in Sockets, socket'[t] = "open" PROVE socket[t] = "open"
    BY <1>1, <2>1, ClosingFacts DEF Open
  <2>2. QED BY <2>1 DEF OpenConsumers, Open
<1>4. QED BY <1>2, <1>3, SomeGo, AuthorityGoes

\* A new socket comes to wait, to be served, or is turned away.
LEMMA SomeoneComes ==
  ASSUME TypeOK, NewUnbound, NEW s \in Sockets, socket[s] = "new", NEW state \in States \ {"new"},
         socket' = [socket EXCEPT ![s] = state], authority' = authority,
         \A t \in Sockets \ {s} : role'[t] = role[t],
         \/ pending' = pending \cup {s} /\ known' = known /\ role'[s] # "consumer"
         \/ pending' = pending /\ known' = known /\ (role'[s] = "consumer" => state # "open")
         \/ /\ pending' = pending /\ known' = known \cup {s} /\ authority # None
            /\ state = "open" /\ role'[s] = "consumer"
  PROVE  Board!Next
<1>1. socket'[s] = state /\ \A t \in Sockets \ {s} : socket'[t] = socket[t]
  BY DEF TypeOK
<1>2. s \in Unused /\ Unused' = Unused \ {s} /\ s \notin OpenConsumers
  BY <1>1 DEF Unused, OpenConsumers, Open
<1>3. Board!Come(s) BY <1>2 DEF Board!Come
<1>4. CASE role'[s] # "consumer" \/ state # "open"
  <2>1. OpenConsumers' = OpenConsumers BY <1>1, <1>2, <1>4 DEF OpenConsumers, Open
  <2>2. Board!Claim(s) \/ Board!TurnAway(s)
    BY <1>3, <1>4, <2>1 DEF Board!Claim, Board!TurnAway
  <2>3. QED BY <2>2 DEF Board!Next
<1>5. CASE role'[s] = "consumer" /\ state = "open"
  <2>1. OpenConsumers' = OpenConsumers \cup {s} BY <1>1, <1>2, <1>5 DEF OpenConsumers, Open
  <2>2. Board!Serve(s) BY <1>3, <1>5, <2>1 DEF Board!Serve
  <2>3. QED BY <2>2 DEF Board!Next
<1>6. QED BY <1>4, <1>5

\* Whoever takes charge has waited, and starts without consumers.
LEMMA TakesCharge ==
  ASSUME TypeOK, Undecided, NEW s \in Sockets, Reads(s), role[s] = "authority", ~authed[s],
         NEW S, socket' = Closing(S), role' = role, OpenConsumers \subseteq S,
         authority' = s, known' = {}, pending' = pending \ {s}
  PROVE  Board!Next
<1>1. s \in pending BY DEF Undecided
<1>2. Unused' = Unused BY ClosingFacts DEF Unused
<1>3. OpenConsumers' = {}
  <2>1. ASSUME NEW t \in OpenConsumers' PROVE FALSE
    <3>1. t \in Sockets /\ Closing(S)[t] = "open" /\ role[t] = "consumer"
      BY <2>1 DEF OpenConsumers, Open
    <3>2. t \notin S /\ Open(t) BY <3>1, ClosingFacts
    <3>3. QED BY <3>1, <3>2 DEF OpenConsumers
  <2>2. QED BY <2>1
<1>4. Board!TakeCharge(s) BY <1>1, <1>2, <1>3 DEF Board!TakeCharge
<1>5. QED BY <1>4 DEF Board!Next

\* The authority hears of a consumer.
LEMMA Heard ==
  ASSUME TypeOK, NEW s \in Sockets, Reads(s), role[s] = "consumer", authority # None,
         known' = known \cup {s}, UNCHANGED <<socket, role, authority, pending>>
  PROVE  Board!Next
<1>1. s \notin Unused \cup pending BY DEF TypeOK, Unused, Reads
<1>2. Unused' = Unused /\ OpenConsumers' = OpenConsumers BY DEF Unused, OpenConsumers, Open
<1>3. Board!Hear(s) BY <1>1, <1>2 DEF Board!Hear
<1>4. QED BY <1>3 DEF Board!Next

\* What a room starts with is an empty Switchboard.
LEMMA BoardInit == Init => Board!Init
BY DEF Init, Board!Init, Unused, OpenConsumers, Open

\* Undecided is kept by what closes sockets, ...
LEMMA ClosingUndecided ==
  ASSUME TypeOK, Undecided, NEW S, socket' = Closing(S), UNCHANGED <<role, authed, pending>>
  PROVE  Undecided'
<1>1. \A t \in Sockets : Reads(t)' <=> Reads(t) BY ClosingFacts DEF Reads
<1>2. QED BY <1>1 DEF Undecided

\* ... by a socket that ends, ...
LEMMA EndingUndecided ==
  ASSUME TypeOK, Undecided, NEW S, NEW s \in Sockets, NEW end \in {"failed", "closed"},
         socket' = [Closing(S) EXCEPT ![s] = end], UNCHANGED <<role, authed>>,
         pending' = pending \ {s}
  PROVE  Undecided'
<1>1. socket'[s] = end /\ \A t \in Sockets \ {s} : socket'[t] = Closing(S)[t]
  BY ClosingFacts
<1>2. ~Reads(s)' BY <1>1 DEF Reads
<1>3. \A t \in Sockets \ {s} : Reads(t)' <=> Reads(t) BY <1>1, ClosingFacts DEF Reads
<1>4. QED BY <1>2, <1>3 DEF Undecided

\* ... by one that comes, ...
LEMMA ComingUndecided ==
  ASSUME TypeOK, NewUnbound, Undecided, NEW s \in Sockets, socket[s] = "new",
         NEW state \in States \ {"new"}, socket' = [socket EXCEPT ![s] = state],
         \A t \in Sockets \ {s} : role'[t] = role[t], authed' = authed,
         \/ pending' = pending \cup {s} /\ role'[s] = "authority" /\ state = "open"
         \/ pending' = pending /\ role'[s] # "authority"
  PROVE  Undecided'
<1>1. socket'[s] = state /\ \A t \in Sockets \ {s} : socket'[t] = socket[t]
  BY DEF TypeOK
<1>2. ~authed[s] /\ ~Reads(s) BY DEF NewUnbound, Reads
<1>3. \A t \in Sockets \ {s} : Reads(t)' <=> Reads(t) BY <1>1 DEF Reads
<1>4. state = "open" => Reads(s)' BY <1>1 DEF Reads
<1>5. QED BY <1>2, <1>3, <1>4 DEF Undecided

\* ... and by one that answers its challenge.
LEMMA AnsweredUndecided ==
  ASSUME TypeOK, Undecided, NEW s \in Sockets, NEW S, socket' = Closing(S), role' = role,
         authed' = [authed EXCEPT ![s] = TRUE], pending' = pending \ {s}
  PROVE  Undecided'
<1>1. \A t \in Sockets : Reads(t)' <=> Reads(t) BY ClosingFacts DEF Reads
<1>2. authed'[s] /\ \A t \in Sockets \ {s} : authed'[t] = authed[t] BY DEF TypeOK
<1>3. QED BY <1>1, <1>2 DEF Undecided

\* A step of the room on Node is one of the Switchboard, or none.
LEMMA NodeSwitches ==
  RoomInv /\ Undecided /\ RoomInv' /\ [Next]_vars => Undecided' /\ [Board!Next]_(Board!vars)
<1> SUFFICES ASSUME RoomInv, Undecided, RoomInv', [Next]_vars
             PROVE  Undecided' /\ [Board!Next]_(Board!vars)
  OBVIOUS
<1>0. TypeOK /\ NewUnbound /\ OpenConsumersServed /\ OpenConsumersServed' BY DEF RoomInv
<1>1. ASSUME NEW s \in Sockets, Connect(s) PROVE Undecided' /\ Board!Next
  <2>0. socket[s] = "new" /\ role[s] = "none"
    BY <1>0, <1>1 DEF Connect, RefuseAuthority, AcceptAuthority, RefuseConsumer, AcceptConsumer,
       NewUnbound
  <2>1. CASE RefuseAuthority(s)
    BY <1>0, <2>0, <2>1, SomeoneComes, ComingUndecided DEF RefuseAuthority, States
  <2>2. CASE AcceptAuthority(s)
    <3>1. role'[s] = "authority" /\ \A t \in Sockets \ {s} : role'[t] = role[t]
      BY <1>0, <2>2 DEF AcceptAuthority, TypeOK
    <3>2. QED BY <1>0, <2>0, <2>2, <3>1, SomeoneComes, ComingUndecided DEF AcceptAuthority, States
  <2>3. CASE RefuseConsumer(s)
    <3>1. role'[s] = "consumer" /\ \A t \in Sockets \ {s} : role'[t] = role[t]
      BY <1>0, <2>3 DEF RefuseConsumer, TypeOK
    <3>2. QED BY <1>0, <2>0, <2>3, <3>1, SomeoneComes, ComingUndecided DEF RefuseConsumer, States
  <2>4. CASE AcceptConsumer(s)
    <3>1. role'[s] = "consumer" /\ \A t \in Sockets \ {s} : role'[t] = role[t]
      BY <1>0, <2>4 DEF AcceptConsumer, TypeOK
    <3>2. QED BY <1>0, <2>0, <2>4, <3>1, SomeoneComes, ComingUndecided
              DEF AcceptConsumer, States, Online
  <2>5. QED BY <1>1, <2>1, <2>2, <2>3, <2>4 DEF Connect
<1>2. ASSUME NEW s \in Sockets, RefuseMessage(s) \/ CloseClient(s) \/ AuthTimeout(s)
      PROVE  Undecided' /\ Board!Next
  <2>1. socket' = Closing({s}) /\ UNCHANGED <<role, authed, authority, pending, known>>
    BY <1>2 DEF RefuseMessage, CloseClient, AuthTimeout
  <2>2. QED BY <1>0, <2>1, ClosingGoes, ClosingUndecided
<1>3. ASSUME NEW s \in Sockets, Auth(s) PROVE Undecided' /\ Board!Next
  <2>1. OpenConsumers \subseteq {authority} \cup consumers
    BY <1>0 DEF OpenConsumersServed, OpenConsumers
  <2>2. QED BY <1>0, <1>3, <2>1, TakesCharge, AnsweredUndecided DEF Auth
<1>4. ASSUME NEW s \in Sockets, ForwardMessage(s) PROVE Undecided' /\ Board!Next
  <2>1. Board!Next BY <1>0, <1>4, Heard DEF ForwardMessage, Online
  <2>2. Undecided' BY <1>4 DEF ForwardMessage, Undecided, Reads
  <2>3. QED BY <2>1, <2>2
<1>5. ASSUME NEW s \in Sockets, SocketError(s) \/ PeerCloses(s) \/ CloseEnds(s)
      PROVE  Undecided' /\ Board!Next
  <2>1. PICK end \in {"failed", "closed"} : Closed(s, end) /\ socket[s] # "new"
    BY <1>5 DEF SocketError, PeerCloses, CloseEnds, Open, Reads
  <2>2. PICK S : socket' = [Closing(S) EXCEPT ![s] = end]
    BY <2>1 DEF Closed
  <2>3. UNCHANGED <<role, authed>> /\ pending' = pending \ {s} BY <2>1 DEF Closed
  <2>4. \/ authority' = authority /\ known' \subseteq known
        \/ authority' = None /\ known' = {}
    <3>1. authority = s => role[s] = "authority" BY <1>0, NoneAssumption DEF TypeOK
    <3>2. CASE authority = s BY <2>1, <3>1, <3>2 DEF Closed
    <3>3. CASE authority # s BY <2>1, <3>3 DEF Closed
    <3>4. QED BY <3>2, <3>3
  <2>5. Undecided' BY <1>0, <2>2, <2>3, EndingUndecided
  <2>6. Board!Next BY <1>0, <2>1, <2>2, <2>3, <2>4, EndingGoes
  <2>7. QED BY <2>5, <2>6
<1>6. CASE UNCHANGED vars
  <2>1. UNCHANGED Board!vars
    BY <1>6 DEF vars, Board!vars, Unused, OpenConsumers, Open
  <2>2. Undecided' BY <1>6 DEF vars, Undecided, Reads
  <2>3. QED BY <2>1, <2>2
<1>7. QED
  BY <1>1, <1>2, <1>3, <1>4, <1>5, <1>6, Zenon DEF Next, Connect, Message, End

\* On Node (class Room), a room implements Switchboard.
THEOREM NodeIsSwitchboard == Spec => IsSwitchboard
<1>1. Init => Undecided BY DEF Init, Undecided
<1>2. QED BY RoomInvariant, <1>1, BoardInit, NodeSwitches, PTL DEF Spec, IsSwitchboard, Board!Spec

\* A connection that comes to a room on Cloudflare.
LEMMA CloudComes ==
  ASSUME CloudInv, Undecided, CloudInv', NEW s \in Sockets, CloudConnect(s)
  PROVE  Undecided' /\ Board!Next
<1>0. TypeOK /\ NewUnbound BY DEF CloudInv
<1>1. socket[s] = "new" /\ role[s] = "none"
  BY <1>0 DEF CloudConnect, CloudRefuseAuthority, CloudAcceptAuthority, CloudRefuseConsumer,
     CloudAcceptConsumer, Comes, NewUnbound
<1>2. authed' = authed /\ authority' = authority
  BY DEF CloudConnect, CloudRefuseAuthority, CloudAcceptAuthority, CloudRefuseConsumer,
     CloudAcceptConsumer
<1>3. CASE CloudRefuseAuthority(s) \/ CloudRefuseConsumer(s)
  <2>1. /\ socket' = [socket EXCEPT ![s] = "closing"]
        /\ UNCHANGED <<role, pending, known>>
    BY <1>3 DEF CloudRefuseAuthority, CloudRefuseConsumer
  <2>2. QED BY <1>0, <1>1, <1>2, <2>1, SomeoneComes, ComingUndecided DEF States
<1>4. CASE CloudAcceptAuthority(s)
  <2>1. role'[s] = "authority" /\ \A t \in Sockets \ {s} : role'[t] = role[t]
    BY <1>0, <1>4 DEF CloudAcceptAuthority, TypeOK
  <2>2. QED
    BY <1>0, <1>1, <1>2, <1>4, <2>1, SomeoneComes, ComingUndecided DEF CloudAcceptAuthority, States
<1>5. CASE CloudAcceptConsumer(s)
  <2>1. role'[s] = "consumer" /\ \A t \in Sockets \ {s} : role'[t] = role[t]
    BY <1>0, <1>5 DEF CloudAcceptConsumer, TypeOK
  <2> DEFINE state == IF Reached THEN "open" ELSE "closing"
  <2>2. state \in States \ {"new"} BY DEF States
  <2>3. socket' = [socket EXCEPT ![s] = state] /\ pending' = pending
    BY <1>5 DEF CloudAcceptConsumer
  <2>4. \/ known' = known /\ state # "open"
        \/ known' = known \cup {s} /\ state = "open" /\ authority # None
    BY <1>5, FoundFacts DEF CloudAcceptConsumer
  <2> HIDE DEF state
  <2>5. Undecided' BY <1>0, <1>1, <1>2, <2>1, <2>2, <2>3, ComingUndecided
  <2>6. Board!Next BY <1>0, <1>1, <1>2, <2>1, <2>2, <2>3, <2>4, SomeoneComes
  <2>7. QED BY <2>5, <2>6
<1>6. QED BY <1>3, <1>4, <1>5 DEF CloudConnect

\* An answer to a challenge on Cloudflare.
LEMMA CloudAnswers ==
  ASSUME CloudInv, Undecided, CloudInv', NEW s \in Sockets, CloudAuth(s)
  PROVE  Undecided' /\ Board!Next
<1> DEFINE stale == Candidates \ {s}
           S == IF stale = {} THEN {} ELSE stale \cup guests
<1>0. TypeOK /\ OpenConsumersServed /\ OpenConsumersServed' BY DEF CloudInv
<1>1. Reads(s) /\ role[s] = "authority" /\ ~authed[s] /\ socket' = Closing(S) /\ role' = role
  BY DEF CloudAuth
<1>2. OpenConsumers \subseteq S
  <2>1. CASE authority = None BY <1>0, <2>1 DEF OpenConsumersServed, OpenConsumers
  <2>2. CASE authority # None
    <3>1. authority \in stale BY <1>1, <2>2, FoundFacts DEF Candidates
    <3>2. OpenConsumers \subseteq guests
      BY DEF CloudInv, Shown, OpenConsumersServed, OpenConsumers
    <3>3. QED BY <3>1, <3>2
  <2>3. QED BY <2>1, <2>2
<1> HIDE DEF S
<1>3. CASE Open(s)
  <2>1. /\ authed' = [authed EXCEPT ![s] = TRUE] /\ authority' = s /\ known' = {}
        /\ pending' = pending \ {s}
    BY <1>3 DEF CloudAuth
  <2>2. Undecided' BY <1>0, <1>1, <2>1, AnsweredUndecided
  <2>3. Board!Next BY <1>0, <1>1, <1>2, <2>1, TakesCharge
  <2>4. QED BY <2>2, <2>3
<1>4. CASE ~Open(s)
  <2>1. UNCHANGED <<authed, authority, known, pending>> BY <1>4 DEF CloudAuth
  <2>2. QED BY <1>0, <1>1, <2>1, ClosingUndecided, ClosingGoes
<1>5. QED BY <1>3, <1>4

\* A step of the room on Cloudflare is one of the Switchboard, or none.
LEMMA CloudSwitches ==
  CloudInv /\ Undecided /\ CloudInv' /\ [CloudNext]_cvars
    => Undecided' /\ [Board!Next]_(Board!vars)
<1> SUFFICES ASSUME CloudInv, Undecided, CloudInv', [CloudNext]_cvars
             PROVE  Undecided' /\ [Board!Next]_(Board!vars)
  OBVIOUS
<1>0. TypeOK /\ NewUnbound /\ OpenConsumersServed' BY DEF CloudInv
<1>1. ASSUME NEW s \in Sockets, CloudConnect(s) PROVE Undecided' /\ Board!Next
  BY <1>1, CloudComes
<1>2. ASSUME NEW S, socket' = Closing(S), UNCHANGED <<role, authed, authority, pending, known>>
      PROVE  Undecided' /\ Board!Next
  BY <1>0, <1>2, ClosingGoes, ClosingUndecided
<1>3. ASSUME NEW s \in Sockets, CloudRefuseMessage(s) \/ CloudCloseClient(s)
      PROVE  Undecided' /\ Board!Next
  BY <1>2, <1>3 DEF CloudRefuseMessage, CloudCloseClient
<1>4. ASSUME NEW s \in Sockets, CloudAuth(s) PROVE Undecided' /\ Board!Next
  BY <1>4, CloudAnswers
<1>5. ASSUME NEW s \in Sockets, CloudForwardMessage(s) PROVE Undecided' /\ Board!Next
  <2>1. authority # None BY <1>5, FoundFacts DEF CloudForwardMessage
  <2>2. Board!Next BY <1>0, <1>5, <2>1, Heard DEF CloudForwardMessage
  <2>3. Undecided' BY <1>5 DEF CloudForwardMessage, Undecided, Reads
  <2>4. QED BY <2>2, <2>3
<1>6. ASSUME NEW s \in Sockets, CloudPeerCloses(s) \/ CloudCloseEnds(s)
      PROVE  Undecided' /\ Board!Next
  <2>1. CloudClosed(s) /\ socket[s] # "new" BY <1>6 DEF CloudPeerCloses, CloudCloseEnds, Open
  <2>2. PICK S : socket' = [Closing(S) EXCEPT ![s] = "closed"] BY <2>1 DEF CloudClosed
  <2>3. UNCHANGED <<role, authed>> /\ pending' = pending \ {s} BY <2>1 DEF CloudClosed
  <2>4. \/ authority' = authority /\ known' \subseteq known
        \/ authority' = None /\ known' = {}
    <3>1. authority = s => role[s] = "authority" BY <1>0, NoneAssumption DEF TypeOK
    <3>2. CASE authority = s
      <4>1. authority' = None BY <2>1, <3>2 DEF CloudClosed
      <4>2. known' = {} BY <2>1, <3>1, <3>2 DEF CloudClosed
      <4>3. QED BY <4>1, <4>2
    <3>3. CASE authority # s
      <4>1. authority' = authority BY <2>1, <3>3 DEF CloudClosed
      <4>2. known' \subseteq known BY <2>1, <3>3 DEF CloudClosed
      <4>3. QED BY <4>1, <4>2
    <3>4. QED BY <3>2, <3>3
  <2>5. Undecided' BY <1>0, <2>2, <2>3, EndingUndecided
  <2>6. Board!Next BY <1>0, <2>1, <2>2, <2>3, <2>4, EndingGoes
  <2>7. QED BY <2>5, <2>6
<1>7. CASE Alarm
  <2>1. PICK due : socket' = Closing(due) BY <1>7 DEF Alarm
  <2>2. QED BY <1>2, <1>7, <2>1 DEF Alarm
<1>8. CASE Restart
  <2>1. /\ socket' = [s \in Sockets |-> IF socket[s] = "new" THEN "new" ELSE "closed"]
        /\ authority' = None /\ known' = {} /\ pending' = {}
    BY <1>8 DEF Restart
  <2>2. Unused' = Unused BY <2>1 DEF Unused
  <2>3. Board!Next BY <1>0, <2>1, <2>2, AuthorityGoes
  <2>4. Undecided' BY <2>1 DEF Undecided, Reads
  <2>5. QED BY <2>3, <2>4
<1>9. CASE UNCHANGED cvars
  <2>1. UNCHANGED vars BY <1>9 DEF cvars
  <2>2. UNCHANGED Board!vars BY <2>1 DEF vars, Board!vars, Unused, OpenConsumers, Open
  <2>3. Undecided' BY <2>1 DEF vars, Undecided, Reads
  <2>4. QED BY <2>2, <2>3
<1>10. QED
  BY <1>1, <1>3, <1>4, <1>5, <1>6, <1>7, <1>8, <1>9, Zenon DEF CloudNext, CloudConnect

\* On Cloudflare (AuthorityRoom), a room implements Switchboard.
THEOREM CloudIsSwitchboard == CloudSpec => IsSwitchboard
<1>1. CloudInit => Undecided BY DEF CloudInit, Init, Undecided
<1>2. CloudInit => Board!Init BY BoardInit DEF CloudInit
<1>3. QED
  BY CloudInvariant, <1>1, <1>2, CloudSwitches, PTL DEF CloudSpec, IsSwitchboard, Board!Spec
===============================================================================
