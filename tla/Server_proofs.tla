----------------------------- MODULE Server_proofs -----------------------------
(***************************************************************************)
(* What holds of a client and of a server over it, for any callbacks,      *)
(* requests, strategies and bounds.  A step of the server that is not one  *)
(* of its client leaves the client nearly alone, so the client's part of   *)
(* every invariant is carried through Next first.                          *)
(***************************************************************************)
EXTENDS Server, TLAPS

-----------------------------------------------------------------------------
(* Steps. *)

\* A step of the server that is one of its client.
LEMMA ClientSteps == ClientStep => Wake /\ UNCHANGED closedByUser /\ (Loop \/ Start \/ Net \/ App)
<1>1. ClientStep => Wake /\ (Loop \/ Start \/ Net \/ App)
  BY SMT DEF ClientStep, Loop, Start, Net, App
<1>2. Loop => UNCHANGED closedByUser
  <2>1. Dial \/ TimerFires \/ LoopAuthenticated \/ LoopAuthFails => UNCHANGED closedByUser
    BY Zenon DEF Dial, TimerFires, LoopAuthenticated, LoopAuthFails
  <2>2. ResubscribeAnswered \/ ResubscribeFails \/ ResubscribeBarred => UNCHANGED closedByUser
    BY Zenon DEF ResubscribeAnswered, ResubscribeFails, ResubscribeBarred
  <2>3. QED BY <2>1, <2>2 DEF Loop
<1>3. Start => UNCHANGED closedByUser
  BY Zenon DEF Start, Connect, BootAuthenticated, BootAuthFails
<1>4. Net => UNCHANGED closedByUser
  <2>1. ASSUME NEW t \in Relays,
               Handshake(t) \/ HandshakeFails(t) \/ Drop(t) \/ Notice(t)
        PROVE  UNCHANGED closedByUser
    BY <2>1, Zenon DEF Handshake, HandshakeFails, Drop, Notice, ctl
  <2>2. ASSUME NEW t \in Relays,
               ChanEvent(t) \/ Restricted(t) \/ UpgradeDone(t) \/ UpgradeFails(t)
        PROVE  UNCHANGED closedByUser
    BY <2>2, Zenon DEF ChanEvent, Restricted, UpgradeDone, UpgradeFails, ctl
  <2>3. QED BY <2>1, <2>2 DEF Net
<1>5. App => UNCHANGED closedByUser
  <2>1. ASSUME NEW c \in Cbs, Subscribe(c) \/ Unsubscribe(c) \/ UnsubscribeAnswered(c)
        PROVE  UNCHANGED closedByUser
    BY <2>1, Zenon DEF Ask, Subscribe, Unsubscribe, UnsubscribeAnswered, ctl
  <2>2. ASSUME NEW c \in Cbs, SubscribeAnswered(c) \/ CallFails(c) \/ CallBarred(c)
        PROVE  UNCHANGED closedByUser
    BY <2>2, Zenon DEF SubscribeAnswered, CallFails, CallBarred, ctl
  <2>3. QED BY <2>1, <2>2 DEF App
<1>6. QED BY <1>1, <1>2, <1>3, <1>4, <1>5

-----------------------------------------------------------------------------
(* Types. *)

ConnStates == {"new", "idle", "open", "down", "barred"}
Places     == {"none", "start", "auth", "upgrade", "timer"}

LEMMA RelayFacts == 1 \in Relays /\ \A t \in Relays : t < MaxRelays => t + 1 \in Relays
BY BoundAssumption DEF Relays

\* What is known of the attempt, whether it resubscribes or not.
LEMMA AttemptFacts ==
  ASSUME TypeOK
  PROVE  /\ attempt[2] \in Relays
         /\ attempt[1] = "resub" => /\ attempt[3] \subseteq Cbs /\ attempt[4] \in Cbs
                                    /\ attempt[5] \in Paths
BY DEF TypeOK

\* Where the loop is, and what its listener makes of it.
LoopTyped ==
  /\ reconnecting \in BOOLEAN /\ status \in Details /\ ready \in BOOLEAN
  /\ \/ attempt \in Places \X Relays
     \/ attempt \in {"resub"} \X Relays \X (SUBSET Cbs) \X Cbs \X Paths

LEMMA BeginTypes ==
  ASSUME TypeOK, NEW c \in [Relays -> ConnStates], Begin(c)
  PROVE  conn' \in [Relays -> ConnStates] /\ LoopTyped'
BY DEF TypeOK, Begin, SetStatus, LoopTyped, ConnStates, Places, Details

LEMMA ScheduleTypes ==
  ASSUME TypeOK, NEW c \in [Relays -> ConnStates], ScheduleReconnect(c)
  PROVE  conn' \in [Relays -> ConnStates] /\ LoopTyped'
<1>1. CASE MayReconnect BY <1>1, BeginTypes DEF ScheduleReconnect
<1>2. CASE ~MayReconnect BY <1>2 DEF ScheduleReconnect, TypeOK, LoopTyped, Places
<1>3. QED BY <1>1, <1>2

LEMMA FailTypes ==
  ASSUME TypeOK, NEW reason \in Details, NEW detail \in Details, AttemptFails(reason, detail)
  PROVE  LoopTyped'
<1>1. status' \in Details /\ ready' \in BOOLEAN BY DEF AttemptFails, SetStatus
<1>2. reconnecting' \in BOOLEAN BY DEF AttemptFails, TypeOK
<1>3. attempt' \in Places \X Relays BY DEF AttemptFails, TypeOK, Places
<1>4. QED BY <1>1, <1>2, <1>3 DEF LoopTyped

LEMMA ResubscribeTypes ==
  ASSUME TypeOK, NEW visited \in SUBSET Cbs, NEW path \in Paths, NEW detail \in Details,
         Resubscribe(visited, path, detail)
  PROVE  LoopTyped'
<1>1. status' \in Details /\ ready' \in BOOLEAN BY DEF Resubscribe, SetStatus
<1>2. CASE listed \subseteq visited
  <2>1. reconnecting' = FALSE /\ attempt' = <<"none", relay>> BY <1>2 DEF Resubscribe
  <2>2. attempt' \in Places \X Relays BY <2>1 DEF TypeOK, Places
  <2>3. QED BY <1>1, <2>1, <2>2 DEF LoopTyped
<1>3. CASE ~(listed \subseteq visited)
  <2>1. PICK c \in listed \ visited :
          attempt' = <<"resub", relay, visited \cup {c}, c, path>>
    BY <1>3 DEF Resubscribe
  <2>2. c \in Cbs /\ relay \in Relays /\ visited \cup {c} \in SUBSET Cbs BY DEF TypeOK
  <2>3. attempt' \in {"resub"} \X Relays \X (SUBSET Cbs) \X Cbs \X Paths BY <2>1, <2>2
  <2>4. reconnecting' \in BOOLEAN BY <1>3 DEF Resubscribe, TypeOK
  <2>5. QED BY <1>1, <2>3, <2>4 DEF LoopTyped
<1>4. QED BY <1>2, <1>3

LEMMA ResumeTypes ==
  ASSUME TypeOK, NEW t \in Relays, NEW ok, NEW path \in Paths, NEW detail \in Details,
         Resume(t, ok, path, detail)
  PROVE  LoopTyped' /\ boot' \in {"none", "auth", "upgrade", "done", "failed", "stopped"} \X Relays
<1>1. LoopTyped'
  <2>1. CASE attempt # <<"upgrade", t>>
    <3>1. SetStatus(detail) /\ UNCHANGED <<attempt, reconnecting>> BY <2>1 DEF Resume
    <3>2. QED BY <3>1 DEF SetStatus, TypeOK, LoopTyped, Places
  <2>2. CASE attempt = <<"upgrade", t>> /\ ok
    <3>1. Resubscribe({}, path, detail) BY <2>2 DEF Resume
    <3>2. QED BY <3>1, ResubscribeTypes
  <2>3. CASE attempt = <<"upgrade", t>> /\ ~ok
    <3>1. AttemptFails(detail, detail) BY <2>3 DEF Resume
    <3>2. QED BY <3>1, FailTypes
  <2>4. QED BY <2>1, <2>2, <2>3
<1>2. boot' \in {"none", "auth", "upgrade", "done", "failed", "stopped"} \X Relays
  BY DEF Resume, TypeOK
<1>3. QED BY <1>1, <1>2

LEMMA ReasonTypes == ASSUME NEW t PROVE Reasons(t) \subseteq Details
BY DEF Reasons, Details

LEMMA MakesTypes ==
  ASSUME TypeOK, NEW c \in Cbs, NEW p, Makes(c, p)
  PROVE  /\ <<c, made[c] + 1>> \in Ids
         /\ made' \in [Cbs -> 0..MaxIds] /\ held' \in [Relays -> SUBSET Ids]
<1>1. made[c] \in 0..MaxIds /\ made[c] + 1 \in 0..MaxIds
  BY BoundAssumption DEF TypeOK, Makes
<1>2. <<c, made[c] + 1>> \in Ids BY <1>1 DEF Ids
<1>3. made' \in [Cbs -> 0..MaxIds] BY <1>1 DEF TypeOK, Makes
<1>4. held' \in [Relays -> SUBSET Ids] BY <1>2 DEF TypeOK, Makes
<1>5. QED BY <1>2, <1>3, <1>4

LEMMA FaultTypes ==
  ASSUME TypeOK, NEW p, Fails(p)
  PROVE  faults' \in 0..MaxFaults
BY BoundAssumption DEF TypeOK, Fails

LEMMA LoopTypes == TypeOK /\ Loop => TypeOK'
<1> SUFFICES ASSUME TypeOK, Loop PROVE TypeOK' OBVIOUS
<1> USE DEF choice, net, subs
<1>1. CASE Dial
  <2>1. CASE Supplied
    <3>1. relay' = relay /\ active' = <<"relay", relay>> /\ attempt' = <<"auth", relay>>
          /\ conn' = conn /\ stale' = FALSE
      BY <1>1, <2>1 DEF Dial
    <3>2. active' \in Paths /\ attempt' \in {"auth"} \X Relays
      BY <3>1 DEF TypeOK, Paths
    <3>3. conn' \in [Relays -> ConnStates] /\ relay' \in Relays
      BY <3>1 DEF TypeOK, ConnStates
    <3>4. QED BY <1>1, <2>1, <3>2, <3>3 DEF Dial, TypeOK, ConnStates
  <2>2. CASE ~Supplied
    <3>1. relay + 1 \in Relays BY <1>1, <2>2, RelayFacts DEF Dial, TypeOK, Relays
    <3>2. active' \in Paths /\ attempt' \in {"auth"} \X Relays
      BY <1>1, <2>2, <3>1 DEF Dial, Paths
    <3>3. conn' \in [Relays -> ConnStates] BY <1>1, <2>2 DEF Dial, TypeOK, ConnStates
    <3>4. QED BY <1>1, <2>2, <3>1, <3>2, <3>3 DEF Dial, TypeOK, ConnStates
  <2>3. QED BY <2>1, <2>2
<1>2. CASE TimerFires
  <2>1. CASE closedByUser
    <3>1. reconnecting' = FALSE /\ attempt' = <<"none", relay>> /\ UNCHANGED <<conn, status, ready>>
      BY <1>2, <2>1 DEF TimerFires
    <3>2. attempt' \in {"none"} \X Relays BY <3>1 DEF TypeOK
    <3>3. QED BY <1>2, <3>1, <3>2 DEF TimerFires, TypeOK
  <2>2. CASE ~closedByUser
    <3>1. Begin(conn) BY <1>2, <2>2 DEF TimerFires
    <3>2. conn' \in [Relays -> ConnStates] /\ LoopTyped'
      BY <3>1, BeginTypes DEF TypeOK, ConnStates
    <3>3. QED BY <1>2, <3>2 DEF TimerFires, TypeOK, LoopTyped, ConnStates, Places
  <2>3. QED BY <2>1, <2>2
<1>3. CASE LoopAuthenticated
  <2>1. session' \in [Relays -> {"none", "live", "ended"}] /\ upgrade' \in SUBSET Relays
    BY <1>3, AttemptFacts DEF LoopAuthenticated, Authenticated, TypeOK
  <2>2. LoopTyped'
    <3>1. CASE AwaitsIt
      BY <1>3, <3>1, AttemptFacts DEF LoopAuthenticated, SetStatus, TypeOK, LoopTyped, Places, Details
    <3>2. CASE ~AwaitsIt
      <4>1. Resubscribe({}, active, "other") BY <1>3, <3>2 DEF LoopAuthenticated
      <4>2. active \in Paths /\ "other" \in Details BY DEF TypeOK, Details
      <4>3. QED BY <4>1, <4>2, ResubscribeTypes
    <3>3. QED BY <3>1, <3>2
  <2>3. QED BY <1>3, <2>1, <2>2 DEF LoopAuthenticated, TypeOK, LoopTyped, Places
<1>4. CASE LoopAuthFails
  <2>1. PICK reason \in Reasons(attempt[2]) : AttemptFails(reason, status)
    BY <1>4 DEF LoopAuthFails
  <2>2. LoopTyped' BY <2>1, ReasonTypes, FailTypes DEF TypeOK
  <2>3. faults' \in 0..MaxFaults
    BY <1>4, BoundAssumption DEF LoopAuthFails, AuthFails, TypeOK
  <2>4. QED BY <1>4, <2>2, <2>3 DEF LoopAuthFails, TypeOK, LoopTyped, Places
<1>5. CASE ResubscribeAnswered
  <2> DEFINE c == attempt[4]
             p == attempt[5]
             id == <<c, made[c] + 1>>
  <2>1. c \in Cbs /\ p \in Paths /\ attempt[3] \in SUBSET Cbs
    BY <1>5, AttemptFacts DEF ResubscribeAnswered
  <2>2. /\ Makes(c, p) /\ callbacks' = Replace(c, id)
        /\ current' = [current EXCEPT ![c] = id]
        /\ Resubscribe(attempt[3], active, status)
    BY <1>5 DEF ResubscribeAnswered
  <2>3. id \in Ids /\ made' \in [Cbs -> 0..MaxIds] /\ held' \in [Relays -> SUBSET Ids]
    BY <2>1, <2>2, MakesTypes
  <2>4. LoopTyped' BY <2>1, <2>2, ResubscribeTypes DEF TypeOK
  <2> HIDE DEF c, p, id
  <2>5. callbacks' \in SUBSET Ids /\ current' \in [Cbs -> Ids]
    BY <2>2, <2>3 DEF TypeOK, Replace
  <2>6. QED BY <1>5, <2>3, <2>4, <2>5 DEF ResubscribeAnswered, TypeOK, LoopTyped, Places
<1>6. CASE ResubscribeFails
  <2> DEFINE c == attempt[4]
             p == attempt[5]
  <2>1. c \in Cbs BY <1>6, AttemptFacts DEF ResubscribeFails
  <2>2. Fails(p) /\ (UNCHANGED <<made, held>> \/ Makes(c, p))
    BY <1>6 DEF ResubscribeFails
  <2>3. PICK reason \in IF p[1] = "relay" THEN Reasons(p[2]) ELSE {"other"} :
          AttemptFails(reason, status)
    BY <1>6 DEF ResubscribeFails
  <2>4. reason \in Details BY <2>3, ReasonTypes DEF Details
  <2>5. LoopTyped' BY <2>3, <2>4, FailTypes DEF TypeOK
  <2>6. made' \in [Cbs -> 0..MaxIds] /\ held' \in [Relays -> SUBSET Ids]
    BY <2>1, <2>2, MakesTypes DEF TypeOK
  <2>7. faults' \in 0..MaxFaults BY <2>2, FaultTypes
  <2>8. QED BY <1>6, <2>5, <2>6, <2>7 DEF ResubscribeFails, TypeOK, LoopTyped, Places
<1>7. CASE ResubscribeBarred
  <2>1. LoopTyped' BY <1>7, FailTypes DEF ResubscribeBarred, TypeOK, Details
  <2>2. conn' \in [Relays -> ConnStates] BY <1>7 DEF ResubscribeBarred, TypeOK, ConnStates
  <2>3. QED BY <1>7, <2>1, <2>2 DEF ResubscribeBarred, TypeOK, LoopTyped, ConnStates, Places
<1>8. QED BY <1>1, <1>2, <1>3, <1>4, <1>5, <1>6, <1>7 DEF Loop

LEMMA StartTypes == TypeOK /\ Start => TypeOK'
<1> SUFFICES ASSUME TypeOK, Start PROVE TypeOK' OBVIOUS
<1> USE DEF choice, net, subs
<1>1. CASE Connect BY <1>1 DEF Connect, TypeOK
<1>2. CASE BootAuthenticated
  <2>1. session' \in [Relays -> {"none", "live", "ended"}] /\ upgrade' \in SUBSET Relays
    BY <1>2 DEF BootAuthenticated, Authenticated, TypeOK
  <2>2. QED BY <1>2, <2>1 DEF BootAuthenticated, SetStatus, TypeOK, Details
<1>3. CASE BootAuthFails
  <2>1. faults' \in 0..MaxFaults
    BY <1>3, BoundAssumption DEF BootAuthFails, AuthFails, TypeOK
  <2>2. QED BY <1>3, <2>1 DEF BootAuthFails, TypeOK
<1>4. QED BY <1>1, <1>2, <1>3 DEF Start

LEMMA NetTypes == TypeOK /\ Net => TypeOK'
<1> SUFFICES ASSUME TypeOK, NEW t \in Relays,
                    \/ Handshake(t) \/ HandshakeFails(t) \/ Drop(t) \/ Notice(t)
                    \/ ChanEvent(t) \/ Restricted(t) \/ UpgradeDone(t) \/ UpgradeFails(t)
             PROVE  TypeOK'
  BY DEF Net
<1> USE DEF choice, net, ctl, subs
<1>1. CASE Handshake(t) BY <1>1 DEF Handshake, TypeOK
<1>2. CASE HandshakeFails(t)
  <2>1. faults' \in 0..MaxFaults BY <1>2, BoundAssumption DEF HandshakeFails, TypeOK
  <2>2. QED BY <1>2, <2>1 DEF HandshakeFails, TypeOK
<1>3. CASE Drop(t)
  <2>1. faults' \in 0..MaxFaults BY <1>3, BoundAssumption DEF Drop, TypeOK
  <2>2. ScheduleReconnect([conn EXCEPT ![t] = "down"]) BY <1>3 DEF Drop
  <2>3. [conn EXCEPT ![t] = "down"] \in [Relays -> ConnStates] BY DEF TypeOK, ConnStates
  <2>4. conn' \in [Relays -> ConnStates] /\ LoopTyped' BY <2>2, <2>3, ScheduleTypes
  <2>5. QED BY <1>3, <2>1, <2>4 DEF Drop, TypeOK, LoopTyped, ConnStates, Places
<1>4. CASE Notice(t)
  <2>1. held' \in [Relays -> SUBSET Ids] BY <1>4 DEF Notice, TypeOK
  <2>2. QED BY <1>4, <2>1 DEF Notice, TypeOK
<1>5. CASE ChanEvent(t)
  <2>1. faults' \in 0..MaxFaults BY <1>5, BoundAssumption DEF ChanEvent, TypeOK
  <2>2. ScheduleReconnect(conn) /\ conn \in [Relays -> ConnStates]
    BY <1>5 DEF ChanEvent, TypeOK, ConnStates
  <2>3. conn' \in [Relays -> ConnStates] /\ LoopTyped' BY <2>2, ScheduleTypes
  <2>4. chan' \in [Relays -> {"none", "open", "failing", "dead"}] BY <1>5 DEF ChanEvent, TypeOK
  <2>5. QED BY <1>5, <2>1, <2>3, <2>4 DEF ChanEvent, TypeOK, LoopTyped, ConnStates, Places
<1>6. CASE Restricted(t)
  <2>1. held' \in [Relays -> SUBSET Ids] BY <1>6 DEF Restricted, TypeOK
  <2>2. QED BY <1>6, <2>1 DEF Restricted, TypeOK
<1>7. CASE UpgradeDone(t)
  <2>1. <<"p2p", t>> \in Paths /\ "other" \in Details BY DEF Paths, Details
  <2>2. Resume(t, TRUE, <<"p2p", t>>, "other") BY <1>7 DEF UpgradeDone
  <2>3. /\ LoopTyped'
        /\ boot' \in {"none", "auth", "upgrade", "done", "failed", "stopped"} \X Relays
    BY <2>1, <2>2, ResumeTypes
  <2>4. chan' \in [Relays -> {"none", "open", "failing", "dead"}] /\ stale' \in BOOLEAN
    BY <1>7 DEF UpgradeDone, TypeOK
  <2>5. QED BY <1>7, <2>1, <2>3, <2>4 DEF UpgradeDone, TypeOK, LoopTyped, Places
<1>8. CASE UpgradeFails(t)
  <2>1. PICK detail \in Reasons(t) : Resume(t, Fallback(detail), active, detail)
    BY <1>8 DEF UpgradeFails
  <2>2. detail \in Details /\ active \in Paths BY ReasonTypes DEF TypeOK
  <2>3. /\ LoopTyped'
        /\ boot' \in {"none", "auth", "upgrade", "done", "failed", "stopped"} \X Relays
    BY <2>1, <2>2, ResumeTypes
  <2>4. upgrade' \in SUBSET Relays BY <1>8 DEF UpgradeFails, TypeOK
  <2>5. QED BY <1>8, <2>3, <2>4 DEF UpgradeFails, TypeOK, LoopTyped, Places
<1>9. QED BY <1>1, <1>2, <1>3, <1>4, <1>5, <1>6, <1>7, <1>8

LEMMA AppTypes == TypeOK /\ App => TypeOK'
<1> SUFFICES ASSUME TypeOK, NEW c \in Cbs,
                    \/ Subscribe(c) \/ SubscribeAnswered(c) \/ Unsubscribe(c)
                    \/ UnsubscribeAnswered(c) \/ CallFails(c) \/ CallBarred(c)
             PROVE  TypeOK'
  BY DEF App
<1> USE DEF choice, net, ctl
<1>1. CASE Subscribe(c) \/ Unsubscribe(c)
  BY <1>1 DEF Subscribe, Unsubscribe, Ask, TypeOK
<1>2. CASE SubscribeAnswered(c)
  <2> DEFINE id == <<c, made[c] + 1>>
  <2>1. /\ Makes(c, app[c][2]) /\ listed' = listed \cup {c}
        /\ origin' = [origin EXCEPT ![c] = id] /\ current' = [current EXCEPT ![c] = id]
        /\ callbacks' = callbacks \cup {id}
    BY <1>2 DEF SubscribeAnswered
  <2>2. id \in Ids /\ made' \in [Cbs -> 0..MaxIds] /\ held' \in [Relays -> SUBSET Ids]
    BY <2>1, MakesTypes
  <2> HIDE DEF id
  <2>3. /\ origin' \in [Cbs -> Ids] /\ current' \in [Cbs -> Ids]
        /\ callbacks' \in SUBSET Ids /\ listed' \in SUBSET Cbs
    BY <2>1, <2>2 DEF TypeOK
  <2>4. QED BY <1>2, <2>2, <2>3 DEF SubscribeAnswered, TypeOK
<1>3. CASE UnsubscribeAnswered(c)
  <2>1. held' \in [Relays -> SUBSET Ids] BY <1>3 DEF UnsubscribeAnswered, TypeOK
  <2>2. callbacks' \in SUBSET Ids /\ listed' \in SUBSET Cbs
    BY <1>3 DEF UnsubscribeAnswered, Forget, TypeOK
  <2>3. QED BY <1>3, <2>1, <2>2 DEF UnsubscribeAnswered, TypeOK
<1>4. CASE CallFails(c)
  <2>1. faults' \in 0..MaxFaults BY <1>4, FaultTypes DEF CallFails
  <2>2. QED BY <1>4, <2>1 DEF CallFails, TypeOK
<1>5. CASE CallBarred(c) BY <1>5 DEF CallBarred, TypeOK
<1>6. QED BY <1>1, <1>2, <1>3, <1>4, <1>5

LEMMA CloseTypes == TypeOK /\ Close => TypeOK'
<1> SUFFICES ASSUME TypeOK, Close PROVE TypeOK' OBVIOUS
<1>1. conn' \in [Relays -> ConnStates]
  BY DEF Close, TypeOK, ConnStates
<1>2. chan' \in [Relays -> {"none", "open", "failing", "dead"}] /\ ready' \in BOOLEAN
  BY DEF Close, TypeOK
<1>3. QED BY <1>1, <1>2 DEF Close, TypeOK, ConnStates, choice, subs

LEMMA VarsTypes == TypeOK /\ UNCHANGED vars => TypeOK'
BY DEF TypeOK, vars, choice, net, ctl, subs

LEMMA ReplyTypes ==
  ASSUME ServerTypeOK, NEW q \in Https, NEW code \in {"waiting", "calling"} \cup Statuses,
         Reply(q, code)
  PROVE  http' \in [Https -> {"new", "waiting", "calling"} \cup Statuses]
BY DEF ServerTypeOK, Reply

LEMMA RequestTypes == ServerTypeOK /\ Requests => ServerTypeOK'
<1> SUFFICES ASSUME ServerTypeOK, NEW q \in Https,
                    Arrive(q) \/ WaitEnds(q) \/ CallServed(q) \/ CallLost(q) \/ CallRefused(q)
             PROVE  ServerTypeOK'
  BY DEF Requests
<1>0. TypeOK BY DEF ServerTypeOK
<1>1. PICK code \in {"waiting", "calling"} \cup Statuses : Reply(q, code)
  <2>1. CASE Arrive(q) BY <2>1 DEF Arrive, Statuses
  <2>2. CASE WaitEnds(q) BY <2>2 DEF WaitEnds, Statuses
  <2>3. CASE CallServed(q) BY <2>3 DEF CallServed, Statuses
  <2>4. CASE CallLost(q) BY <2>4 DEF CallLost, Statuses
  <2>5. CASE CallRefused(q) BY <2>5 DEF CallRefused, Statuses
  <2>6. QED BY <2>1, <2>2, <2>3, <2>4, <2>5
<1>2. http' \in [Https -> {"new", "waiting", "calling"} \cup Statuses] BY <1>1, ReplyTypes
<1>3. TypeOK'
  <2>1. CASE Arrive(q) \/ WaitEnds(q) \/ CallServed(q)
    <3>1. UNCHANGED vars BY <2>1 DEF Arrive, WaitEnds, CallServed
    <3>2. QED BY <1>0, <3>1, VarsTypes
  <2>2. CASE CallLost(q)
    <3>1. faults' \in 0..MaxFaults BY <1>0, <2>2, FaultTypes DEF CallLost
    <3>2. QED BY <1>0, <2>2, <3>1 DEF CallLost, TypeOK, choice, net, ctl, subs
  <2>3. CASE CallRefused(q) BY <1>0, <2>3 DEF CallRefused, TypeOK, choice, ctl, subs
  <2>4. QED BY <2>1, <2>2, <2>3
<1>4. QED BY <1>2, <1>3 DEF ServerTypeOK

LEMMA RetryTypes == ServerTypeOK /\ Retry => ServerTypeOK'
BY DEF ServerTypeOK, TypeOK, Retry, choice, net, subs

LEMMA TypeStep == ServerTypeOK /\ [ServerNext]_svars => ServerTypeOK'
<1> SUFFICES ASSUME ServerTypeOK, [ServerNext]_svars PROVE ServerTypeOK' OBVIOUS
<1>0. TypeOK /\ http \in [Https -> {"new", "waiting", "calling"} \cup Statuses]
  BY DEF ServerTypeOK
<1>1. CASE ClientStep
  <2>1. TypeOK' BY <1>0, <1>1, ClientSteps, LoopTypes, StartTypes, NetTypes, AppTypes
  <2>2. http' \in [Https -> {"new", "waiting", "calling"} \cup Statuses]
    BY <1>0, <1>1, ClientSteps DEF Wake
  <2>3. QED BY <2>1, <2>2 DEF ServerTypeOK
<1>2. CASE Requests BY <1>2, RequestTypes
<1>3. CASE Retry BY <1>3, RetryTypes
<1>4. CASE CloseServer
  <2>1. TypeOK' BY <1>0, <1>4, CloseTypes DEF CloseServer
  <2>2. http' \in [Https -> {"new", "waiting", "calling"} \cup Statuses]
    BY <1>0, <1>4 DEF CloseServer, Statuses
  <2>3. QED BY <2>1, <2>2 DEF ServerTypeOK
<1>5. CASE UNCHANGED svars
  BY <1>0, <1>5, VarsTypes DEF svars, ServerTypeOK
<1>6. QED BY <1>1, <1>2, <1>3, <1>4, <1>5 DEF ServerNext

LEMMA TypeInit == ServerInit => ServerTypeOK
<1> SUFFICES ASSUME ServerInit PROVE ServerTypeOK OBVIOUS
<1>1. kind \in Kinds /\ signaling \in Modes /\ strategy \in Strategies \cup {"relay"}
  BY DEF ServerInit, Init
<1>2. 0 \in 0..MaxFaults /\ 0 \in 0..MaxIds /\ \A c \in Cbs : <<c, 0>> \in Ids
  BY BoundAssumption DEF Ids
<1>3. 1 \in Relays /\ <<"relay", 1>> \in Paths BY RelayFacts DEF Paths
<1>4. QED BY <1>1, <1>2, <1>3 DEF ServerInit, Init, ServerTypeOK, TypeOK, Details

\* The types of a client and of the requests over it (client.ts, http.ts).
THEOREM ServerTyping == ServerSpec => []ServerTypeOK
BY TypeInit, TypeStep, PTL DEF ServerSpec

-----------------------------------------------------------------------------
(* Requests. *)

\* A status that turns ready wakes who waits, and close() answers them
\* (ConnectionManager.setReady, close).
THEOREM NobodyLeft == ServerSpec => []NobodyLeftWaiting
<1>1. ServerInit => NobodyLeftWaiting BY DEF ServerInit, NobodyLeftWaiting
<1>2. ServerTypeOK /\ NobodyLeftWaiting /\ [ServerNext]_svars => NobodyLeftWaiting'
  <2> SUFFICES ASSUME ServerTypeOK, NobodyLeftWaiting, [ServerNext]_svars, ready' \/ closedByUser',
                      NEW q \in Https
               PROVE  http'[q] # "waiting"
    BY DEF NobodyLeftWaiting
  <2>0. http \in [Https -> {"new", "waiting", "calling"} \cup Statuses] BY DEF ServerTypeOK
  <2>1. CASE ClientStep
    BY <2>0, <2>1, ClientSteps DEF Wake, NobodyLeftWaiting
  <2>2. CASE Requests
    <3> PICK r \in Https :
          Arrive(r) \/ WaitEnds(r) \/ CallServed(r) \/ CallLost(r) \/ CallRefused(r)
      BY <2>2 DEF Requests
    <3>1. ready' = ready /\ closedByUser' = closedByUser
      BY DEF Arrive, WaitEnds, CallServed, CallLost, CallRefused, vars, ctl
    <3>2. http[q] # "waiting" BY <3>1 DEF NobodyLeftWaiting
    <3>3. PICK code : Reply(r, code) /\ code # "waiting"
      BY <3>1 DEF Arrive, WaitEnds, CallServed, CallLost, CallRefused
    <3>4. QED BY <2>0, <3>2, <3>3 DEF Reply
  <2>3. CASE Retry BY <2>3 DEF Retry, NobodyLeftWaiting
  <2>4. CASE CloseServer BY <2>0, <2>4 DEF CloseServer
  <2>5. CASE UNCHANGED svars BY <2>5 DEF svars, vars, ctl, NobodyLeftWaiting
  <2>6. QED BY <2>1, <2>2, <2>3, <2>4, <2>5 DEF ServerNext
<1>3. QED BY ServerTyping, <1>1, <1>2, PTL DEF ServerSpec

-----------------------------------------------------------------------------
(* One relay connection. *)

Unused == {"new", "down", "barred"}

\* Connections to come are untouched; an attempt starts when the one before is
\* down; before connect() there is nothing that could start one.
RelayInv ==
  /\ OneRelay
  /\ \A t \in Relays : t > relay => conn[t] = "new"
  /\ attempt[1] = "start" => conn[relay] \in Unused
  /\ boot[1] = "none" => /\ attempt[1] = "none" /\ upgrade = {} /\ active[1] = "relay"
                         /\ \A t \in Relays : conn[t] \in Unused /\ chan[t] = "none"

\* A step that at most ends the connection keeps that.
LEMMA RelayKept ==
  ASSUME TypeOK, RelayInv, relay' = relay,
         \A t \in Relays :
           conn'[t] = conn[t] \/ (conn'[t] \in {"down", "barred"} /\ (t = relay \/ conn[t] \notin Unused)),
         attempt'[1] = "start" => attempt[1] = "start" \/ conn'[relay] \in Unused,
         boot'[1] = "none" => boot[1] = "none" /\ UNCHANGED <<attempt, upgrade, chan, active>>
  PROVE  RelayInv'
<1>0. relay \in Relays BY DEF TypeOK
<1>1. \A t \in Relays : conn[t] \notin Unused => conn[t] \in {"idle", "open"}
  BY DEF TypeOK, Unused
<1>2. \A t \in Relays : conn'[t] = conn[t] \/ (t = relay /\ conn'[t] \in {"down", "barred"})
  BY <1>1 DEF RelayInv, OneRelay
<1>3. OneRelay' BY <1>2 DEF RelayInv, OneRelay
<1>4. \A t \in Relays : t > relay => conn'[t] = "new"
  BY <1>0, <1>2 DEF RelayInv, Relays
<1>5. \A t \in Relays : conn[t] \in Unused => conn'[t] \in Unused BY <1>2 DEF Unused
<1>6. attempt'[1] = "start" => conn'[relay] \in Unused BY <1>0, <1>5 DEF RelayInv
<1>7. boot'[1] = "none" => /\ attempt'[1] = "none" /\ upgrade' = {} /\ active'[1] = "relay"
                           /\ \A t \in Relays : conn'[t] \in Unused /\ chan'[t] = "none"
  BY <1>5 DEF RelayInv
<1>8. QED BY <1>3, <1>4, <1>6, <1>7 DEF RelayInv

LEMMA BeginEnds ==
  ASSUME TypeOK, NEW c \in [Relays -> ConnStates], ScheduleReconnect(c)
  PROVE  /\ \A t \in Relays : conn'[t] = c[t] \/ (t = relay /\ conn'[t] = "down")
         /\ attempt'[1] = "start" => attempt[1] = "start" \/ conn'[relay] = "down"
<1>0. relay \in Relays BY DEF TypeOK
<1>1. CASE MayReconnect BY <1>0, <1>1 DEF ScheduleReconnect, Begin, ConnStates
<1>2. CASE ~MayReconnect BY <1>2 DEF ScheduleReconnect
<1>3. QED BY <1>1, <1>2

LEMMA ResumeStarts ==
  ASSUME TypeOK, NEW t, NEW ok, NEW path, NEW detail, Resume(t, ok, path, detail)
  PROVE  /\ attempt'[1] = "start" => attempt[1] = "start"
         /\ boot'[1] = "none" => boot[1] = "none"
<1>1. boot'[1] = "none" => boot[1] = "none" BY DEF Resume
<1>2. CASE attempt # <<"upgrade", t>> BY <1>1, <1>2 DEF Resume
<1>3. CASE attempt = <<"upgrade", t>> /\ ok
  <2>1. Resubscribe({}, path, detail) BY <1>3 DEF Resume
  <2>2. attempt'[1] # "start" BY <2>1 DEF Resubscribe
  <2>3. QED BY <1>1, <2>2
<1>4. CASE attempt = <<"upgrade", t>> /\ ~ok
  <2>1. AttemptFails(detail, detail) BY <1>4 DEF Resume
  <2>2. attempt'[1] # "start" BY <2>1 DEF AttemptFails
  <2>3. QED BY <1>1, <2>2
<1>5. QED BY <1>2, <1>3, <1>4

LEMMA LoopRelay == TypeOK /\ RelayInv /\ Loop => RelayInv'
<1> SUFFICES ASSUME TypeOK, RelayInv, Loop PROVE RelayInv' OBVIOUS
<1> USE DEF net
<1>0. boot[1] # "none" /\ boot' = boot
  <2>1. attempt[1] # "none"
    BY DEF Loop, Dial, TimerFires, LoopAuthenticated, LoopAuthFails, ResubscribeAnswered,
       ResubscribeFails, ResubscribeBarred
  <2>2. boot' = boot
    <3>1. Dial \/ TimerFires \/ LoopAuthenticated \/ LoopAuthFails => boot' = boot
      BY Zenon DEF Dial, TimerFires, LoopAuthenticated, LoopAuthFails
    <3>2. ResubscribeAnswered \/ ResubscribeFails \/ ResubscribeBarred => boot' = boot
      BY Zenon DEF ResubscribeAnswered, ResubscribeFails, ResubscribeBarred
    <3>3. QED BY <3>1, <3>2 DEF Loop
  <2>3. QED BY <2>1, <2>2 DEF RelayInv
<1>9. relay \in Relays BY DEF TypeOK
<1>1. CASE Dial
  <2>1. attempt[1] = "start" /\ conn[relay] \in Unused BY <1>1 DEF Dial, RelayInv
  <2>2. CASE Supplied
    <3>1. relay' = relay /\ conn' = conn /\ attempt' = <<"auth", relay>>
      BY <1>1, <2>2 DEF Dial
    <3>2. QED BY <1>0, <3>1, RelayKept
  <2>3. CASE ~Supplied
    <3>1. /\ relay' = relay + 1 /\ relay < MaxRelays
          /\ conn' = [conn EXCEPT ![relay + 1] = "idle"] /\ attempt' = <<"auth", relay + 1>>
      BY <1>1, <2>3 DEF Dial
    <3>2. \A t \in Relays : conn[t] \in {"idle", "open"} => FALSE
      BY <2>1 DEF RelayInv, OneRelay, Unused
    <3>3. \A t \in Relays : t # relay' => conn'[t] = conn[t] BY <3>1 DEF TypeOK
    <3>4. OneRelay' BY <3>2, <3>3 DEF OneRelay
    <3>5. \A t \in Relays : t > relay' => conn'[t] = "new"
      <4> SUFFICES ASSUME NEW t \in Relays, t > relay' PROVE conn'[t] = "new" OBVIOUS
      <4>1. t > relay /\ t # relay' BY <1>9, <3>1 DEF Relays
      <4>2. QED BY <3>3, <4>1 DEF RelayInv
    <3>6. QED BY <1>0, <3>1, <3>4, <3>5 DEF RelayInv
  <2>4. QED BY <2>2, <2>3
<1>2. CASE TimerFires
  <2>1. CASE closedByUser
    <3>1. relay' = relay /\ conn' = conn /\ attempt' = <<"none", relay>>
      BY <1>2, <2>1 DEF TimerFires
    <3>2. QED BY <1>0, <3>1, RelayKept
  <2>2. CASE ~closedByUser
    <3>1. relay' = relay /\ conn' = [conn EXCEPT ![relay] = "down"]
      BY <1>2, <2>2 DEF TimerFires, Begin
    <3>2. conn'[relay] = "down" /\ \A t \in Relays : t # relay => conn'[t] = conn[t]
      BY <1>9, <3>1 DEF TypeOK
    <3>3. QED BY <1>0, <3>1, <3>2, RelayKept DEF Unused
  <2>3. QED BY <2>1, <2>2
<1>3. CASE LoopAuthenticated \/ LoopAuthFails
  <2>1. relay' = relay /\ conn' = conn
    BY <1>3 DEF LoopAuthenticated, LoopAuthFails
  <2>2. attempt'[1] # "start"
    BY <1>3 DEF LoopAuthenticated, LoopAuthFails, Resubscribe, AttemptFails
  <2>3. QED BY <1>0, <2>1, <2>2, RelayKept
<1>4. CASE ResubscribeAnswered \/ ResubscribeFails
  <2>1. relay' = relay /\ conn' = conn
    BY <1>4 DEF ResubscribeAnswered, ResubscribeFails
  <2>2. attempt'[1] # "start"
    <3>1. CASE ResubscribeAnswered BY <3>1 DEF ResubscribeAnswered, Resubscribe
    <3>2. CASE ResubscribeFails BY <3>2 DEF ResubscribeFails, AttemptFails
    <3>3. QED BY <1>4, <3>1, <3>2
  <2>3. QED BY <1>0, <2>1, <2>2, RelayKept
<1>5. CASE ResubscribeBarred
  <2> DEFINE u == attempt[5][2]
  <2>1. relay' = relay /\ conn' = [conn EXCEPT ![u] = "barred"] /\ Barred(attempt[5])
    BY <1>5 DEF ResubscribeBarred
  <2>2. conn[u] = "open" BY <2>1 DEF Barred, Works, IsOpen
  <2>3. attempt'[1] # "start" BY <1>5 DEF ResubscribeBarred, AttemptFails
  <2> HIDE DEF u
  <2>4. \A t \in Relays : conn'[t] = conn[t] \/ (conn'[t] = "barred" /\ conn[t] \notin Unused)
    BY <2>1, <2>2 DEF TypeOK, Unused
  <2>5. QED BY <1>0, <2>1, <2>3, <2>4, RelayKept
<1>6. QED BY <1>1, <1>2, <1>3, <1>4, <1>5 DEF Loop

LEMMA StartRelay == TypeOK /\ RelayInv /\ Start => RelayInv'
<1> SUFFICES ASSUME TypeOK, RelayInv, Start PROVE RelayInv' OBVIOUS
<1>0. relay \in Relays BY DEF TypeOK
<1>1. CASE Connect
  <2>1. boot[1] = "none" /\ relay' = relay /\ attempt' = attempt /\ boot' = <<"auth", relay>>
    BY <1>1 DEF Connect
  <2>2. attempt[1] = "none" /\ \A t \in Relays : conn[t] \in Unused BY <2>1 DEF RelayInv
  <2>3. \A t \in Relays : t # relay => conn'[t] = conn[t] BY <1>1 DEF Connect, TypeOK
  <2>4. OneRelay' BY <2>1, <2>2, <2>3 DEF OneRelay, Unused
  <2>5. \A t \in Relays : t > relay' => conn'[t] = "new"
    <3> SUFFICES ASSUME NEW t \in Relays, t > relay' PROVE conn'[t] = "new" OBVIOUS
    <3>1. t > relay /\ t # relay BY <1>0, <2>1 DEF Relays
    <3>2. QED BY <2>3, <3>1 DEF RelayInv
  <2>6. QED BY <2>1, <2>2, <2>4, <2>5 DEF RelayInv
<1>2. CASE BootAuthenticated
  <2>1. relay' = relay /\ conn' = conn /\ attempt' = attempt /\ boot'[1] # "none"
    BY <1>2 DEF BootAuthenticated
  <2>2. QED BY <2>1, RelayKept
<1>3. CASE BootAuthFails
  <2>1. relay' = relay /\ conn' = conn /\ attempt' = attempt /\ boot'[1] # "none"
    BY <1>3 DEF BootAuthFails, net
  <2>2. QED BY <2>1, RelayKept
<1>4. QED BY <1>1, <1>2, <1>3 DEF Start

LEMMA NetRelay == TypeOK /\ RelayInv /\ Net => RelayInv'
<1> SUFFICES ASSUME TypeOK, RelayInv, NEW t \in Relays,
                    \/ Handshake(t) \/ HandshakeFails(t) \/ Drop(t) \/ Notice(t)
                    \/ ChanEvent(t) \/ Restricted(t) \/ UpgradeDone(t) \/ UpgradeFails(t)
             PROVE  RelayInv'
  BY DEF Net
<1>0. relay \in Relays BY DEF TypeOK
<1>1. CASE Handshake(t)
  <2>1. /\ conn[t] = "idle" /\ conn' = [conn EXCEPT ![t] = "open"]
        /\ relay' = relay /\ attempt' = attempt /\ boot' = boot
    BY <1>1 DEF Handshake, ctl
  <2>2. t = relay /\ boot[1] # "none" /\ attempt[1] # "start"
    BY <2>1 DEF RelayInv, OneRelay, Unused
  <2>3. \A u \in Relays : u # relay => conn'[u] = conn[u] BY <2>1, <2>2 DEF TypeOK
  <2>4. OneRelay' BY <2>1, <2>3 DEF RelayInv, OneRelay
  <2>5. \A u \in Relays : u > relay' => conn'[u] = "new"
    <3> SUFFICES ASSUME NEW u \in Relays, u > relay' PROVE conn'[u] = "new" OBVIOUS
    <3>1. u > relay /\ u # relay BY <1>0, <2>1 DEF Relays
    <3>2. QED BY <2>3, <3>1 DEF RelayInv
  <2>6. QED BY <2>1, <2>2, <2>4, <2>5 DEF RelayInv
<1>2. CASE HandshakeFails(t)
  <2>1. /\ conn[t] = "idle" /\ conn' = [conn EXCEPT ![t] = "down"]
        /\ UNCHANGED <<relay, active, attempt, boot, upgrade, chan>>
    BY <1>2 DEF HandshakeFails, ctl
  <2>2. \A u \in Relays : conn'[u] = conn[u] \/ (conn'[u] = "down" /\ conn[u] \notin Unused)
    BY <2>1 DEF TypeOK, Unused
  <2>3. QED BY <2>1, <2>2, RelayKept
<1>3. CASE Drop(t)
  <2>1. conn[t] = "open" /\ relay' = relay /\ boot' = boot /\ ScheduleReconnect([conn EXCEPT ![t] = "down"])
    BY <1>3 DEF Drop
  <2>2. [conn EXCEPT ![t] = "down"] \in [Relays -> ConnStates] BY DEF TypeOK, ConnStates
  <2>3. boot[1] # "none" BY <2>1 DEF RelayInv, Unused
  <2>4. /\ \A u \in Relays :
             conn'[u] = conn[u] \/ (conn'[u] = "down" /\ (u = relay \/ conn[u] \notin Unused))
        /\ attempt'[1] = "start" => attempt[1] = "start" \/ conn'[relay] \in Unused
    <3> DEFINE d == [conn EXCEPT ![t] = "down"]
    <3>1. d \in [Relays -> ConnStates] /\ ScheduleReconnect(d) BY <2>1, <2>2
    <3>2. \A u \in Relays : d[u] = IF u = t THEN "down" ELSE conn[u] BY DEF TypeOK
    <3> HIDE DEF d
    <3>3. /\ \A u \in Relays : conn'[u] = d[u] \/ (u = relay /\ conn'[u] = "down")
          /\ attempt'[1] = "start" => attempt[1] = "start" \/ conn'[relay] = "down"
      BY <3>1, BeginEnds
    <3>4. conn[t] \notin Unused BY <2>1 DEF Unused
    <3>5. ASSUME NEW u \in Relays
          PROVE  conn'[u] = conn[u] \/ (conn'[u] = "down" /\ (u = relay \/ conn[u] \notin Unused))
      BY <3>2, <3>3, <3>4
    <3>6. attempt'[1] = "start" => attempt[1] = "start" \/ conn'[relay] \in Unused
      BY <3>3 DEF Unused
    <3>7. QED BY <3>5, <3>6
  <2>5. QED BY <2>1, <2>3, <2>4, RelayKept
<1>4. CASE Notice(t) \/ Restricted(t)
  <2>1. UNCHANGED <<relay, active, conn, attempt, boot, upgrade, chan>>
    <3>1. CASE Notice(t) BY <3>1 DEF Notice, ctl
    <3>2. CASE Restricted(t) BY <3>2 DEF Restricted, ctl
    <3>3. QED BY <1>4, <3>1, <3>2
  <2>2. QED BY <2>1, RelayKept
<1>5. CASE ChanEvent(t)
  <2>1. chan[t] # "none" /\ relay' = relay /\ boot' = boot /\ ScheduleReconnect(conn)
    BY <1>5 DEF ChanEvent
  <2>2. boot[1] # "none" BY <2>1 DEF RelayInv
  <2>3. /\ \A u \in Relays : conn'[u] = conn[u] \/ (u = relay /\ conn'[u] = "down")
        /\ attempt'[1] = "start" => attempt[1] = "start" \/ conn'[relay] \in Unused
    BY <2>1, BeginEnds DEF TypeOK, ConnStates, Unused
  <2>4. QED BY <2>1, <2>2, <2>3, RelayKept
<1>6. CASE UpgradeDone(t)
  <2>1. t \in upgrade /\ relay' = relay /\ conn' = conn /\ Resume(t, TRUE, <<"p2p", t>>, "other")
    BY <1>6 DEF UpgradeDone
  <2>2. boot'[1] # "none" /\ (attempt'[1] = "start" => attempt[1] = "start")
    BY <2>1, ResumeStarts DEF RelayInv
  <2>3. QED BY <2>1, <2>2, RelayKept
<1>7. CASE UpgradeFails(t)
  <2>1. t \in upgrade /\ relay' = relay /\ conn' = conn BY <1>7 DEF UpgradeFails, net
  <2>2. PICK detail \in Reasons(t) : Resume(t, Fallback(detail), active, detail)
    BY <1>7 DEF UpgradeFails
  <2>3. boot'[1] # "none" /\ (attempt'[1] = "start" => attempt[1] = "start")
    BY <2>1, <2>2, ResumeStarts DEF RelayInv
  <2>4. QED BY <2>1, <2>3, RelayKept
<1>8. QED BY <1>1, <1>2, <1>3, <1>4, <1>5, <1>6, <1>7

LEMMA AppRelay == TypeOK /\ RelayInv /\ App => RelayInv'
<1> SUFFICES ASSUME TypeOK, RelayInv, NEW c \in Cbs,
                    \/ Subscribe(c) \/ SubscribeAnswered(c) \/ Unsubscribe(c)
                    \/ UnsubscribeAnswered(c) \/ CallFails(c) \/ CallBarred(c)
             PROVE  RelayInv'
  BY DEF App
<1>1. UNCHANGED <<relay, active, attempt, boot, upgrade, chan>>
  <2>1. Subscribe(c) \/ Unsubscribe(c) \/ UnsubscribeAnswered(c)
          => UNCHANGED <<relay, active, attempt, boot, upgrade, chan>>
    BY DEF Ask, Subscribe, Unsubscribe, UnsubscribeAnswered, ctl, net
  <2>2. SubscribeAnswered(c) \/ CallFails(c) \/ CallBarred(c)
          => UNCHANGED <<relay, active, attempt, boot, upgrade, chan>>
    BY DEF SubscribeAnswered, CallFails, CallBarred, ctl, net
  <2>3. QED BY <2>1, <2>2
<1>2. \A t \in Relays : conn'[t] = conn[t] \/ (conn'[t] = "barred" /\ conn[t] \notin Unused)
  <2>1. CASE CallBarred(c)
    <3> DEFINE u == app[c][2][2]
    <3>1. conn' = [conn EXCEPT ![u] = "barred"] /\ Barred(app[c][2]) BY <2>1 DEF CallBarred
    <3>2. conn[u] = "open" BY <3>1 DEF Barred, Works, IsOpen
    <3> HIDE DEF u
    <3>3. QED BY <3>1, <3>2 DEF TypeOK, Unused
  <2>2. CASE ~CallBarred(c)
    <3>1. Subscribe(c) \/ Unsubscribe(c) \/ UnsubscribeAnswered(c) => conn' = conn
      BY DEF Ask, Subscribe, Unsubscribe, UnsubscribeAnswered, net
    <3>2. SubscribeAnswered(c) \/ CallFails(c) => conn' = conn
      BY DEF SubscribeAnswered, CallFails, net
    <3>3. QED BY <2>2, <3>1, <3>2
  <2>3. QED BY <2>1, <2>2
<1>3. QED BY <1>1, <1>2, RelayKept

LEMMA CloseRelay == TypeOK /\ RelayInv /\ Close => RelayInv'
<1> SUFFICES ASSUME TypeOK, RelayInv, Close PROVE RelayInv' OBVIOUS
<1>0. relay \in Relays BY DEF TypeOK
<1>1. UNCHANGED <<relay, active, attempt, boot, upgrade>> BY DEF Close
<1>2. \A t \in Relays : conn'[t] = conn[t] \/ (t = relay /\ conn'[t] = "down")
  BY DEF Close, TypeOK
<1>3. OneRelay' BY <1>1, <1>2 DEF RelayInv, OneRelay
<1>4. \A t \in Relays : t > relay' => conn'[t] = "new"
  BY <1>0, <1>1, <1>2 DEF RelayInv, Relays
<1>5. \A t \in Relays : conn[t] \in Unused => conn'[t] \in Unused BY <1>2 DEF Unused
<1>6. boot[1] = "none" => chan' = chan BY DEF Close, RelayInv
<1>7. QED BY <1>0, <1>1, <1>3, <1>4, <1>5, <1>6 DEF RelayInv

\* What the requests and the loop of start() do to the client.
LEMMA ServedRelay ==
  ASSUME TypeOK, RelayInv, Requests \/ Retry
  PROVE  RelayInv'
<1>1. CASE Retry
  <2>1. relay' = relay /\ conn' = conn /\ attempt' = attempt /\ boot'[1] # "none"
    BY <1>1 DEF Retry, net
  <2>2. QED BY <2>1, RelayKept
<1>2. CASE Requests
  <2> PICK q \in Https :
        Arrive(q) \/ WaitEnds(q) \/ CallServed(q) \/ CallLost(q) \/ CallRefused(q)
    BY <1>2 DEF Requests
  <2>1. UNCHANGED <<relay, active, attempt, boot, upgrade, chan>>
    BY DEF Arrive, WaitEnds, CallServed, CallLost, CallRefused, vars, ctl, net
  <2>2. \A t \in Relays : conn'[t] = conn[t] \/ (conn'[t] = "barred" /\ conn[t] \notin Unused)
    <3>1. CASE CallRefused(q)
      <4> DEFINE u == active[2]
      <4>1. conn' = [conn EXCEPT ![u] = "barred"] /\ Barred(active) BY <3>1 DEF CallRefused
      <4>2. conn[u] = "open" BY <4>1 DEF Barred, Works, IsOpen
      <4> HIDE DEF u
      <4>3. QED BY <4>1, <4>2 DEF TypeOK, Unused
    <3>2. CASE Arrive(q) \/ WaitEnds(q) \/ CallServed(q) \/ CallLost(q)
      BY <3>2 DEF Arrive, WaitEnds, CallServed, CallLost, vars, net
    <3>3. QED BY <3>1, <3>2
  <2>3. QED BY <2>1, <2>2, RelayKept
<1>3. QED BY <1>1, <1>2

\* Whatever drops, is closed or reconnects, one connection to the relay is
\* open or on its way (scheduleReconnect, connect, close).
THEOREM OneRelayHolds == ServerSpec => []OneRelay
<1>1. ServerInit => RelayInv
  <2> SUFFICES ASSUME ServerInit PROVE RelayInv OBVIOUS
  <2>1. \A t \in Relays : conn[t] = "new" /\ chan[t] = "none" BY DEF ServerInit, Init
  <2>2. boot = <<"none", 1>> /\ attempt = <<"none", 1>> /\ upgrade = {} /\ active[1] = "relay"
    BY DEF ServerInit, Init
  <2>3. QED BY <2>1, <2>2 DEF RelayInv, OneRelay, Unused
<1>2. ServerTypeOK /\ RelayInv /\ [ServerNext]_svars => RelayInv'
  <2> SUFFICES ASSUME ServerTypeOK, RelayInv, [ServerNext]_svars PROVE RelayInv' OBVIOUS
  <2>0. TypeOK BY DEF ServerTypeOK
  <2>1. CASE ClientStep
    BY <2>0, <2>1, ClientSteps, LoopRelay, StartRelay, NetRelay, AppRelay
  <2>2. CASE Requests \/ Retry BY <2>0, <2>2, ServedRelay
  <2>3. CASE CloseServer BY <2>0, <2>3, CloseRelay DEF CloseServer
  <2>4. CASE UNCHANGED svars
    BY <2>4 DEF svars, vars, net, ctl, RelayInv, OneRelay
  <2>5. QED BY <2>1, <2>2, <2>3, <2>4 DEF ServerNext
<1>3. RelayInv => OneRelay BY DEF RelayInv
<1>4. QED BY ServerTyping, <1>1, <1>2, <1>3, PTL DEF ServerSpec

-----------------------------------------------------------------------------
(* One entry for a callback. *)

AppStates ==
  {<<"none">>, <<"subscribed">>, <<"gone">>, <<"cleared">>}
    \cup ({"subscribing"} \X Paths) \cup ({"unsubscribing"} \X Paths \X Ids)

Unasked(c) == app[c][1] \in {"none", "subscribing"}

\* A callback is entered under the id of its record; before it is subscribed
\* it is in no list and no loop has it.
HeardInv ==
  /\ app \in [Cbs -> AppStates]
  /\ \A x \in callbacks : x = current[x[1]]
  /\ \A c \in Cbs : Unasked(c) => /\ c \notin listed
                                  /\ \A x \in callbacks : x[1] # c
                                  /\ attempt[1] = "resub" => attempt[4] # c

\* A step that leaves the subscriptions alone and takes up listed ones only.
LEMMA HeardKept ==
  ASSUME HeardInv, UNCHANGED <<listed, current, callbacks, app>>,
         attempt'[1] = "resub" => attempt' = attempt \/ attempt'[4] \in listed
  PROVE  HeardInv'
BY DEF HeardInv, Unasked

LEMMA Picked ==
  ASSUME NEW visited, NEW path, NEW detail, Resubscribe(visited, path, detail)
  PROVE  attempt'[1] = "resub" => attempt'[4] \in listed
<1>1. CASE listed \subseteq visited BY <1>1 DEF Resubscribe
<1>2. CASE ~(listed \subseteq visited) BY <1>2 DEF Resubscribe
<1>3. QED BY <1>1, <1>2

LEMMA BeginPicks ==
  ASSUME NEW c, Begin(c) \/ ScheduleReconnect(c)
  PROVE  attempt'[1] = "resub" => attempt' = attempt
<1>1. CASE Begin(c) BY <1>1 DEF Begin
<1>2. CASE ~Begin(c) BY <1>2 DEF ScheduleReconnect
<1>3. QED BY <1>1, <1>2

LEMMA ResumePicks ==
  ASSUME NEW t, NEW ok, NEW path, NEW detail, Resume(t, ok, path, detail)
  PROVE  attempt'[1] = "resub" => attempt' = attempt \/ attempt'[4] \in listed
<1>1. CASE attempt # <<"upgrade", t>> BY <1>1 DEF Resume
<1>2. CASE attempt = <<"upgrade", t>> /\ ok
  <2>1. Resubscribe({}, path, detail) BY <1>2 DEF Resume
  <2>2. QED BY <2>1, Picked
<1>3. CASE attempt = <<"upgrade", t>> /\ ~ok
  <2>1. AttemptFails(detail, detail) BY <1>3 DEF Resume
  <2>2. QED BY <2>1 DEF AttemptFails
<1>4. QED BY <1>1, <1>2, <1>3

LEMMA LoopHeard == TypeOK /\ HeardInv /\ Loop => HeardInv'
<1> SUFFICES ASSUME TypeOK, HeardInv, Loop PROVE HeardInv' OBVIOUS
<1> USE DEF subs
<1>1. CASE Dial
  <2>1. UNCHANGED <<listed, current, callbacks, app>> /\ attempt'[1] = "auth" BY <1>1 DEF Dial
  <2>2. QED BY <2>1, HeardKept
<1>2. CASE TimerFires
  <2>1. UNCHANGED <<listed, current, callbacks, app>> BY <1>2, Zenon DEF TimerFires
  <2>2. Begin(conn) \/ attempt' = <<"none", relay>> BY <1>2 DEF TimerFires
  <2>3. attempt'[1] = "resub" => attempt' = attempt BY <2>2, BeginPicks
  <2>4. QED BY <2>1, <2>3, HeardKept
<1>3. CASE LoopAuthenticated
  <2>1. UNCHANGED <<listed, current, callbacks, app>> BY <1>3, Zenon DEF LoopAuthenticated
  <2>2. attempt'[1] # "resub" \/ Resubscribe({}, active, "other") BY <1>3 DEF LoopAuthenticated
  <2>3. QED BY <2>1, <2>2, Picked, HeardKept
<1>4. CASE LoopAuthFails
  <2>1. UNCHANGED <<listed, current, callbacks, app>> BY <1>4, Zenon DEF LoopAuthFails
  <2>2. attempt'[1] # "resub" BY <1>4 DEF LoopAuthFails, AttemptFails
  <2>3. QED BY <2>1, <2>2, HeardKept
<1>5. CASE ResubscribeAnswered
  <2> DEFINE c == attempt[4]
             id == <<c, made[c] + 1>>
  <2>1. /\ callbacks' = (callbacks \ {current[c]}) \cup {id}
        /\ current' = [current EXCEPT ![c] = id]
        /\ UNCHANGED <<listed, app>>
    BY <1>5 DEF ResubscribeAnswered, Replace
  <2>2. c \in Cbs /\ attempt[1] = "resub"
    BY <1>5, AttemptFacts DEF ResubscribeAnswered
  <2>3. ~Unasked(c) BY <2>2 DEF HeardInv
  <2>4. attempt'[1] = "resub" => attempt'[4] \in listed
    <3>1. Resubscribe(attempt[3], active, status) BY <1>5 DEF ResubscribeAnswered
    <3>2. QED BY <3>1, Picked
  <2>5. id[1] = c OBVIOUS
  <2> HIDE DEF c, id
  <2>6. ASSUME NEW x \in callbacks' PROVE x = current'[x[1]]
    <3>1. CASE x = id BY <2>1, <2>2, <2>5, <3>1 DEF TypeOK
    <3>2. CASE x # id
      <4>1. x \in callbacks /\ x # current[c] BY <2>1, <2>6, <3>2
      <4>2. x = current[x[1]] /\ x[1] \in Cbs BY <4>1 DEF HeardInv, TypeOK, Ids
      <4>3. x[1] # c BY <4>1, <4>2
      <4>4. QED BY <2>1, <4>2, <4>3 DEF TypeOK
    <3>3. QED BY <3>1, <3>2
  <2>7. ASSUME NEW d \in Cbs, Unasked(d)'
        PROVE  /\ d \notin listed' /\ \A x \in callbacks' : x[1] # d
               /\ attempt'[1] = "resub" => attempt'[4] # d
    <3>1. Unasked(d) /\ d # c BY <2>1, <2>3, <2>7 DEF Unasked
    <3>2. d \notin listed /\ \A x \in callbacks : x[1] # d BY <3>1 DEF HeardInv
    <3>3. QED BY <2>1, <2>4, <2>5, <3>1, <3>2
  <2>8. QED BY <2>1, <2>6, <2>7 DEF HeardInv
<1>6. CASE ResubscribeFails \/ ResubscribeBarred
  <2>1. UNCHANGED <<listed, current, callbacks, app>>
    BY <1>6, Zenon DEF ResubscribeFails, ResubscribeBarred
  <2>2. attempt'[1] # "resub"
    <3>1. CASE ResubscribeFails BY <3>1 DEF ResubscribeFails, AttemptFails
    <3>2. CASE ResubscribeBarred BY <3>2 DEF ResubscribeBarred, AttemptFails
    <3>3. QED BY <1>6, <3>1, <3>2
  <2>3. QED BY <2>1, <2>2, HeardKept
<1>7. QED BY <1>1, <1>2, <1>3, <1>4, <1>5, <1>6 DEF Loop

LEMMA StartHeard == HeardInv /\ Start => HeardInv'
<1> SUFFICES ASSUME HeardInv, Start PROVE HeardInv' OBVIOUS
<1>1. UNCHANGED <<listed, current, callbacks, app, attempt>>
  BY Zenon DEF Start, Connect, BootAuthenticated, BootAuthFails, subs
<1>2. QED BY <1>1, HeardKept

LEMMA NetHeard == TypeOK /\ HeardInv /\ Net => HeardInv'
<1> SUFFICES ASSUME TypeOK, HeardInv, NEW t \in Relays,
                    \/ Handshake(t) \/ HandshakeFails(t) \/ Drop(t) \/ Notice(t)
                    \/ ChanEvent(t) \/ Restricted(t) \/ UpgradeDone(t) \/ UpgradeFails(t)
             PROVE  HeardInv'
  BY DEF Net
<1> USE DEF subs, ctl
<1>1. CASE Handshake(t) \/ HandshakeFails(t)
  <2>1. UNCHANGED <<listed, current, callbacks, app, attempt>>
    BY <1>1, Zenon DEF Handshake, HandshakeFails
  <2>2. QED BY <2>1, HeardKept
<1>2. CASE Drop(t)
  <2>1. UNCHANGED <<listed, current, callbacks, app>> BY <1>2, Zenon DEF Drop
  <2>2. ScheduleReconnect([conn EXCEPT ![t] = "down"]) BY <1>2 DEF Drop
  <2>3. attempt'[1] = "resub" => attempt' = attempt BY <2>2, BeginPicks
  <2>4. QED BY <2>1, <2>3, HeardKept
<1>3. CASE Notice(t)
  <2>1. UNCHANGED <<listed, current, callbacks, app, attempt>> BY <1>3, Zenon DEF Notice
  <2>2. QED BY <2>1, HeardKept
<1>4. CASE ChanEvent(t)
  <2>1. UNCHANGED <<listed, current, callbacks, app>> BY <1>4, Zenon DEF ChanEvent
  <2>2. ScheduleReconnect(conn) BY <1>4 DEF ChanEvent
  <2>3. attempt'[1] = "resub" => attempt' = attempt BY <2>2, BeginPicks
  <2>4. QED BY <2>1, <2>3, HeardKept
<1>5. CASE Restricted(t)
  <2>1. /\ listed' = {} /\ callbacks' = {} /\ attempt' = attempt
        /\ app' = [c \in Cbs |-> IF c \in listed THEN <<"cleared">> ELSE app[c]]
    BY <1>5 DEF Restricted
  <2>2. app' \in [Cbs -> AppStates] BY <2>1 DEF HeardInv, AppStates
  <2>3. \A c \in Cbs : Unasked(c)' => Unasked(c) BY <2>1 DEF Unasked
  <2>4. QED BY <2>1, <2>2, <2>3 DEF HeardInv
<1>6. CASE UpgradeDone(t)
  <2>1. UNCHANGED <<listed, current, callbacks, app>> BY <1>6, Zenon DEF UpgradeDone
  <2>2. Resume(t, TRUE, <<"p2p", t>>, "other") BY <1>6 DEF UpgradeDone
  <2>3. QED BY <2>1, <2>2, ResumePicks, HeardKept
<1>7. CASE UpgradeFails(t)
  <2>1. UNCHANGED <<listed, current, callbacks, app>> BY <1>7, Zenon DEF UpgradeFails
  <2>2. PICK detail \in Reasons(t) : Resume(t, Fallback(detail), active, detail)
    BY <1>7 DEF UpgradeFails
  <2>3. QED BY <2>1, <2>2, ResumePicks, HeardKept
<1>8. QED BY <1>1, <1>2, <1>3, <1>4, <1>5, <1>6, <1>7

LEMMA AppHeard == TypeOK /\ HeardInv /\ App => HeardInv'
<1> SUFFICES ASSUME TypeOK, HeardInv, NEW c \in Cbs,
                    \/ Subscribe(c) \/ SubscribeAnswered(c) \/ Unsubscribe(c)
                    \/ UnsubscribeAnswered(c) \/ CallFails(c) \/ CallBarred(c)
             PROVE  HeardInv'
  BY DEF App
<1> USE DEF ctl
<1>0. app \in [Cbs -> AppStates] BY DEF HeardInv
<1>1. CASE Subscribe(c)
  <2>1. /\ UNCHANGED <<listed, current, callbacks, attempt>> /\ app[c][1] = "none"
        /\ app' = [app EXCEPT ![c] = <<"subscribing", active>>]
    BY <1>1 DEF Subscribe, Ask
  <2>2. app' \in [Cbs -> AppStates] BY <1>0, <2>1 DEF TypeOK, AppStates
  <2>3. \A d \in Cbs : Unasked(d)' => Unasked(d) BY <1>0, <2>1 DEF Unasked
  <2>4. QED BY <2>1, <2>2, <2>3 DEF HeardInv
<1>2. CASE SubscribeAnswered(c)
  <2> DEFINE id == <<c, made[c] + 1>>
  <2>1. /\ app[c][1] = "subscribing" /\ listed' = listed \cup {c}
        /\ current' = [current EXCEPT ![c] = id] /\ callbacks' = callbacks \cup {id}
        /\ app' = [app EXCEPT ![c] = <<"subscribed">>] /\ attempt' = attempt
    BY <1>2 DEF SubscribeAnswered
  <2>2. app' \in [Cbs -> AppStates] BY <1>0, <2>1 DEF AppStates
  <2>3. id[1] = c /\ \A x \in callbacks : x[1] # c BY <2>1 DEF HeardInv, Unasked
  <2> HIDE DEF id
  <2>4. ASSUME NEW x \in callbacks' PROVE x = current'[x[1]]
    <3>1. CASE x = id BY <2>1, <2>3, <3>1 DEF TypeOK
    <3>2. CASE x # id
      <4>1. x \in callbacks /\ x = current[x[1]] /\ x[1] \in Cbs
        BY <2>1, <2>4, <3>2 DEF HeardInv, TypeOK, Ids
      <4>2. QED BY <2>1, <2>3, <4>1 DEF TypeOK
    <3>3. QED BY <3>1, <3>2
  <2>5. ASSUME NEW d \in Cbs, Unasked(d)'
        PROVE  /\ d \notin listed' /\ \A x \in callbacks' : x[1] # d
               /\ attempt'[1] = "resub" => attempt'[4] # d
    <3>1. Unasked(d) /\ d # c BY <1>0, <2>1, <2>5 DEF Unasked
    <3>2. /\ d \notin listed /\ \A x \in callbacks : x[1] # d
          /\ attempt[1] = "resub" => attempt[4] # d
      BY <3>1 DEF HeardInv
    <3>3. QED BY <2>1, <2>3, <3>1, <3>2
  <2>6. QED BY <2>2, <2>4, <2>5 DEF HeardInv
<1>3. CASE Unsubscribe(c)
  <2>1. /\ UNCHANGED <<listed, current, callbacks, attempt>>
        /\ app' = [app EXCEPT ![c] = <<"unsubscribing", active, current[c]>>]
    BY <1>3 DEF Unsubscribe, Ask
  <2>2. app' \in [Cbs -> AppStates] BY <1>0, <2>1 DEF TypeOK, AppStates
  <2>3. \A d \in Cbs : Unasked(d)' => Unasked(d) BY <1>0, <2>1 DEF Unasked
  <2>4. QED BY <2>1, <2>2, <2>3 DEF HeardInv
<1>4. CASE UnsubscribeAnswered(c)
  <2>1. /\ listed' \subseteq listed /\ callbacks' \subseteq callbacks
        /\ app' = [app EXCEPT ![c] = <<"gone">>] /\ UNCHANGED <<current, attempt>>
    BY <1>4 DEF UnsubscribeAnswered, Forget
  <2>2. app' \in [Cbs -> AppStates] BY <1>0, <2>1 DEF AppStates
  <2>3. \A d \in Cbs : Unasked(d)' => Unasked(d) BY <1>0, <2>1 DEF Unasked
  <2>4. QED BY <2>1, <2>2, <2>3 DEF HeardInv
<1>5. CASE CallFails(c) \/ CallBarred(c)
  <2>1. /\ UNCHANGED <<listed, current, callbacks, attempt>>
        /\ app' = [app EXCEPT ![c] = IF @[1] = "subscribing" THEN <<"none">> ELSE <<"subscribed">>]
    BY <1>5 DEF CallFails, CallBarred
  <2>2. app' \in [Cbs -> AppStates] BY <1>0, <2>1 DEF AppStates
  <2>3. \A d \in Cbs : Unasked(d)' => Unasked(d) BY <1>0, <2>1 DEF Unasked
  <2>4. QED BY <2>1, <2>2, <2>3 DEF HeardInv
<1>6. QED BY <1>1, <1>2, <1>3, <1>4, <1>5

LEMMA CallbacksHold == ServerSpec => []HeardInv
<1>1. ServerInit => HeardInv
  <2> SUFFICES ASSUME ServerInit PROVE HeardInv OBVIOUS
  <2>1. app = [c \in Cbs |-> <<"none">>] /\ callbacks = {} /\ listed = {} /\ attempt[1] = "none"
    BY DEF ServerInit, Init
  <2>2. QED BY <2>1 DEF HeardInv, AppStates
<1>2. ServerTypeOK /\ HeardInv /\ [ServerNext]_svars => HeardInv'
  <2> SUFFICES ASSUME ServerTypeOK, HeardInv, [ServerNext]_svars PROVE HeardInv' OBVIOUS
  <2>0. TypeOK BY DEF ServerTypeOK
  <2>1. CASE ClientStep
    BY <2>0, <2>1, ClientSteps, LoopHeard, StartHeard, NetHeard, AppHeard
  <2>2. CASE Requests
    <3>1. UNCHANGED <<listed, current, callbacks, app, attempt>>
      <4> PICK q \in Https :
            Arrive(q) \/ WaitEnds(q) \/ CallServed(q) \/ CallLost(q) \/ CallRefused(q)
        BY <2>2 DEF Requests
      <4>1. QED BY DEF Arrive, WaitEnds, CallServed, CallLost, CallRefused, vars, ctl, subs
    <3>2. QED BY <3>1, HeardKept
  <2>3. CASE Retry \/ CloseServer \/ UNCHANGED svars
    <3>1. UNCHANGED <<listed, current, callbacks, app, attempt>>
      <4>1. CASE Retry BY <4>1 DEF Retry, subs
      <4>2. CASE CloseServer BY <4>2 DEF CloseServer, Close, subs
      <4>3. CASE UNCHANGED svars BY <4>3 DEF svars, vars, ctl, subs
      <4>4. QED BY <2>3, <4>1, <4>2, <4>3
    <3>2. QED BY <3>1, HeardKept
  <2>4. QED BY <2>1, <2>2, <2>3 DEF ServerNext
<1>3. QED BY ServerTyping, <1>1, <1>2, PTL DEF ServerSpec

\* A callback is entered once, under one id, so it hears no delta twice
\* (subscribe, the resubscription of scheduleReconnect, unsubscribe).
THEOREM HeardOnceHolds == ServerSpec => []HeardOnce
<1>1. HeardInv => HeardOnce BY DEF HeardInv, HeardOnce
<1>2. QED BY CallbacksHold, <1>1, PTL

-----------------------------------------------------------------------------
(* What is heard after a reconnect. *)

\* Every attempt is at the relay in use, and so is the active transport unless
\* a channel of an earlier one took its place.
LoopPlaced ==
  /\ ~stale => active[2] = relay
  /\ attempt[1] \in {"auth", "upgrade", "resub"} => attempt[2] = relay
  /\ ~reconnecting => attempt[1] = "none"

\* The ids of a record are of its callback; who is subscribed is in the list,
\* and nobody asks before connect() is through.
RecordsOwned ==
  /\ \A c \in Cbs : origin[c][1] = c /\ current[c][1] = c
  /\ \A c \in Cbs : app[c][1] = "unsubscribing" => app[c][3][1] = c
  /\ \A c \in Cbs : app[c][1] \in {"subscribed", "unsubscribing"} => c \in listed
  /\ \A c \in Cbs : app[c][1] # "none" => boot[1] = "done"

\* The loop is over the session of the relay in use; what it has left behind is
\* heard there.
Moved ==
  attempt[1] = "resub" =>
    /\ \A c \in attempt[3] : ~Unasked(c)
    /\ ~stale => attempt[5][2] = relay
    /\ (~stale /\ session[relay] = "live")
         => \A c \in (attempt[3] \ {attempt[4]}) \cap listed :
              current[c] \in held[relay] /\ current[c] \in callbacks

NoneBarred == \A t \in Relays : conn[t] # "barred"
Quiet      == ~reconnecting /\ ~closedByUser /\ ~stale /\ NoneBarred
Orphan     == \E t \in Relays : session[t] = "ended" /\ chan[t] \in {"open", "failing"}
Settled    == Quiet => \A c \in listed : Hears(c) \/ Orphan

HearInv == LoopPlaced /\ RecordsOwned /\ Moved /\ Settled

LEMMA NobodyYet ==
  ASSUME TypeOK, HeardInv, RecordsOwned, boot[1] # "done"
  PROVE  listed = {}
BY DEF TypeOK, HeardInv, RecordsOwned, Unasked

LEMMA OwnedKept ==
  ASSUME RecordsOwned, UNCHANGED <<origin, current, listed, app>>,
         boot[1] = "done" => boot'[1] = "done"
  PROVE  RecordsOwned'
BY DEF RecordsOwned

\* The loop is where it was.
LEMMA PlacedKept ==
  ASSUME LoopPlaced, UNCHANGED <<relay, attempt, reconnecting>>,
         (active' = active /\ stale' = stale) \/ (~stale' => active'[2] = relay)
  PROVE  LoopPlaced'
BY DEF LoopPlaced

LEMMA MovedKept ==
  ASSUME Moved, UNCHANGED <<relay, current, callbacks, listed, app>>, ~stale' => ~stale,
         attempt'[1] = "resub" =>
           /\ attempt' = attempt
           /\ session'[relay] = "live" => session[relay] = "live" /\ held[relay] \subseteq held'[relay]
  PROVE  Moved'
<1> SUFFICES ASSUME attempt'[1] = "resub" PROVE Moved' BY DEF Moved
<1>1. attempt' = attempt OBVIOUS
<1>2. \A c \in attempt'[3] : ~Unasked(c)' BY <1>1 DEF Moved, Unasked
<1>3. ~stale' => attempt'[5][2] = relay' BY <1>1 DEF Moved
<1>4. ASSUME ~stale', session'[relay'] = "live",
             NEW c \in (attempt'[3] \ {attempt'[4]}) \cap listed'
      PROVE  current'[c] \in held'[relay'] /\ current'[c] \in callbacks'
  <2>1. c \in (attempt[3] \ {attempt[4]}) \cap listed BY <1>1, <1>4
  <2>2. session[relay] = "live" /\ held[relay] \subseteq held'[relay] BY <1>1, <1>4
  <2>3. current[c] \in held[relay] /\ current[c] \in callbacks BY <1>1, <1>4, <2>1, <2>2 DEF Moved
  <2>4. QED BY <2>2, <2>3
<1>5. QED BY <1>2, <1>3, <1>4 DEF Moved

LEMMA SettledKept ==
  ASSUME TypeOK, Settled, Quiet' => Quiet, listed' \subseteq listed,
         \A c \in listed' : current'[c] = current[c]
                            /\ (current[c] \in callbacks => current[c] \in callbacks'),
         Quiet' => \A t \in Relays :
           /\ session[t] = "ended" => session'[t] = "ended"
           /\ session[t] = "ended" /\ chan[t] \in {"open", "failing"}
                => chan'[t] \in {"open", "failing"}
           /\ (conn[t] = "open" \/ chan[t] = "open") => (conn'[t] = "open" \/ chan'[t] = "open")
           /\ \A c \in listed' : current[c] \in held[t] => current[c] \in held'[t]
  PROVE  Settled'
<1> SUFFICES ASSUME Quiet', NEW c \in listed' PROVE Hears(c)' \/ Orphan' BY DEF Settled
<1>1. Hears(c) \/ Orphan BY DEF Settled
<1>2. CASE Hears(c)
  <2>1. PICK t \in Relays : /\ conn[t] = "open" \/ chan[t] = "open"
                            /\ current[c] \in held[t] \cap callbacks
    BY <1>2 DEF Hears
  <2>2. conn'[t] = "open" \/ chan'[t] = "open" BY <2>1
  <2>3. current'[c] \in held'[t] \cap callbacks' BY <2>1
  <2>4. QED BY <2>2, <2>3 DEF Hears
<1>3. CASE Orphan
  <2>1. PICK t \in Relays : session[t] = "ended" /\ chan[t] \in {"open", "failing"}
    BY <1>3 DEF Orphan
  <2>2. session'[t] = "ended" /\ chan'[t] \in {"open", "failing"} BY <2>1
  <2>3. QED BY <2>2 DEF Orphan
<1>4. QED BY <1>1, <1>2, <1>3

\* The loop begins, or is in the way, or was never to begin.
LEMMA Began ==
  ASSUME LoopPlaced, NEW c, ScheduleReconnect(c), UNCHANGED <<relay, active, stale, closedByUser>>
  PROVE  LoopPlaced' /\ ~Quiet' /\ (attempt'[1] = "resub" => attempt' = attempt)
<1>1. CASE MayReconnect
  <2>1. reconnecting' = TRUE /\ attempt' = <<"start", relay>> BY <1>1 DEF ScheduleReconnect, Begin
  <2>2. QED BY <2>1 DEF LoopPlaced, Quiet
<1>2. CASE ~MayReconnect
  <2>1. UNCHANGED <<reconnecting, attempt>> BY <1>2 DEF ScheduleReconnect
  <2>2. ~Quiet' BY <1>2, <2>1 DEF MayReconnect, Quiet
  <2>3. LoopPlaced' BY <2>1 DEF LoopPlaced
  <2>4. QED BY <2>1, <2>2, <2>3
<1>3. QED BY <1>1, <1>2

\* An attempt that fails goes on later, or has been told of signaling.
LEMMA GaveUp ==
  ASSUME LoopPlaced, attempt[1] # "none", NEW reason, NEW detail, AttemptFails(reason, detail),
         UNCHANGED <<relay, active, stale>>, reason = "signaling" => ~NoneBarred'
  PROVE  LoopPlaced' /\ ~Quiet' /\ attempt'[1] # "resub"
<1>1. reconnecting BY DEF LoopPlaced
<1>2. CASE reason = "signaling"
  <2>1. attempt' = <<"none", relay>> /\ ~NoneBarred' BY <1>2 DEF AttemptFails
  <2>2. QED BY <2>1 DEF LoopPlaced, Quiet
<1>3. CASE reason # "signaling"
  <2>1. attempt' = <<"timer", relay>> /\ reconnecting' = reconnecting BY <1>3 DEF AttemptFails
  <2>2. QED BY <1>1, <2>1 DEF LoopPlaced, Quiet
<1>4. QED BY <1>2, <1>3

LEMMA Reasoned ==
  ASSUME TypeOK, NEW t \in Relays, UNCHANGED conn, "signaling" \in Reasons(t)
  PROVE  ~NoneBarred'
BY DEF Reasons, NoneBarred

\* The loop over the subscriptions starts, on the path of the relay in use.
LEMMA LoopStarts ==
  ASSUME TypeOK, HeardInv, LoopPlaced, attempt[1] # "none",
         NEW path, NEW detail, Resubscribe({}, path, detail),
         UNCHANGED <<relay, listed, app>>, ~stale' => active'[2] = relay /\ path[2] = relay
  PROVE  LoopPlaced' /\ Moved' /\ Settled'
<1>1. CASE listed = {}
  <2>1. attempt' = <<"none", relay>> BY <1>1 DEF Resubscribe
  <2>2. QED BY <1>1, <2>1 DEF LoopPlaced, Moved, Settled
<1>2. CASE listed # {}
  <2>1. PICK c \in listed : attempt' = <<"resub", relay, {} \cup {c}, c, path>>
    BY <1>2 DEF Resubscribe
  <2>2. reconnecting' = reconnecting BY <1>2 DEF Resubscribe
  <2>3. reconnecting' BY <2>2 DEF LoopPlaced
  <2>4. LoopPlaced' BY <2>1, <2>3 DEF LoopPlaced
  <2>5. Settled' BY <2>3 DEF Settled, Quiet
  <2>6. ~Unasked(c)'
    <3>1. c \in Cbs BY DEF TypeOK
    <3>2. ~Unasked(c) BY <3>1 DEF HeardInv
    <3>3. QED BY <3>2 DEF Unasked
  <2>7. Moved'
    <3>1. attempt'[3] = {c} /\ attempt'[4] = c /\ attempt'[5] = path BY <2>1
    <3>2. QED BY <2>6, <3>1 DEF Moved
  <2>8. QED BY <2>4, <2>5, <2>7
<1>3. QED BY <1>1, <1>2

\* A record that is answered is heard over the session that answers.
LEMMA ResubscribedHears ==
  ASSUME TypeOK, HeardInv, HearInv, ResubscribeAnswered
  PROVE  HearInv'
<1> DEFINE c  == attempt[4]
           p  == attempt[5]
           id == <<c, made[c] + 1>>
<1>1. attempt[1] = "resub" /\ c \in Cbs /\ attempt[3] \subseteq Cbs /\ p \in Paths
  BY AttemptFacts DEF ResubscribeAnswered
<1>2. /\ Answers(p) /\ Makes(c, p)
      /\ callbacks' = (callbacks \ {current[c]}) \cup {id}
      /\ current' = [current EXCEPT ![c] = id]
      /\ Resubscribe(attempt[3], active, status)
      /\ UNCHANGED <<conn, session, chan, relay, active, stale, closedByUser>>
      /\ UNCHANGED <<boot, listed, origin, app>>
  BY DEF ResubscribeAnswered, Replace
<1>3. /\ LoopPlaced /\ RecordsOwned
      /\ \A d \in attempt[3] : ~Unasked(d)
      /\ ~stale => p[2] = relay
      /\ (~stale /\ session[relay] = "live")
           => \A d \in (attempt[3] \ {c}) \cap listed : current[d] \in held[relay] /\ current[d] \in callbacks
  BY <1>1 DEF HearInv, Moved
<1>4. /\ relay \in Relays /\ p[2] \in Relays /\ listed \subseteq Cbs
      /\ current \in [Cbs -> Ids] /\ held \in [Relays -> SUBSET Ids]
  BY <1>1 DEF TypeOK, Paths
<1>5. id[1] = c OBVIOUS
<1>6. held' = [held EXCEPT ![p[2]] = @ \cup {id}] BY <1>2 DEF Makes
<1>7. session[p[2]] = "live" /\ (conn[p[2]] = "open" \/ chan[p[2]] = "open")
  BY <1>2 DEF Answers, Works, IsOpen
<1> HIDE DEF c, p, id
<1>8. RecordsOwned'
  <2>1. \A d \in Cbs : origin'[d][1] = d /\ current'[d][1] = d
    BY <1>1, <1>2, <1>3, <1>4, <1>5 DEF RecordsOwned
  <2>2. QED BY <1>2, <1>3, <2>1 DEF RecordsOwned
<1>9. LoopPlaced'
  <2>1. CASE listed \subseteq attempt[3]
    <3>1. attempt' = <<"none", relay>> BY <1>2, <2>1 DEF Resubscribe
    <3>2. QED BY <1>2, <1>3, <3>1 DEF LoopPlaced
  <2>2. CASE ~(listed \subseteq attempt[3])
    <3>1. attempt'[2] = relay /\ reconnecting' = reconnecting
      BY <1>2, <2>2 DEF Resubscribe
    <3>2. reconnecting BY <1>1, <1>3 DEF LoopPlaced
    <3>3. QED BY <1>2, <1>3, <3>1, <3>2 DEF LoopPlaced
  <2>3. QED BY <2>1, <2>2
\* What has been visited is heard, the record answered now among it.
<1>10. ASSUME ~stale, NEW d \in attempt[3] \cap listed
       PROVE  current'[d] \in held'[relay] /\ current'[d] \in callbacks'
  <2>1. p[2] = relay /\ session[relay] = "live" BY <1>3, <1>7, <1>10
  <2>2. CASE d = c
    <3>1. current'[d] = id BY <1>1, <1>2, <1>4, <2>2
    <3>2. QED BY <1>2, <1>4, <1>6, <2>1, <3>1
  <2>3. CASE d # c
    <3>1. current[d] \in held[relay] /\ current[d] \in callbacks BY <1>3, <1>10, <2>1, <2>3
    <3>2. current'[d] = current[d] BY <1>1, <1>2, <1>4, <2>3
    <3>3. d \in Cbs BY <1>4
    <3>4. current[d] # current[c] BY <1>1, <1>3, <2>3, <3>3 DEF RecordsOwned
    <3>5. QED BY <1>2, <1>4, <1>6, <2>1, <3>1, <3>2, <3>4
  <2>4. QED BY <2>2, <2>3
<1>11. Moved'
  <2>1. CASE listed \subseteq attempt[3]
    <3>1. attempt' = <<"none", relay>> BY <1>2, <2>1 DEF Resubscribe
    <3>2. QED BY <3>1 DEF Moved
  <2>2. CASE ~(listed \subseteq attempt[3])
    <3>1. PICK e \in listed \ attempt[3] :
            attempt' = <<"resub", relay, attempt[3] \cup {e}, e, active>>
      BY <1>2, <2>2 DEF Resubscribe
    <3>2. attempt'[3] = attempt[3] \cup {e} /\ attempt'[4] = e /\ attempt'[5] = active BY <3>1
    <3>3. e \in Cbs /\ ~Unasked(e)
      <4>1. e \in Cbs BY <1>4
      <4>2. QED BY <4>1 DEF HeardInv
    <3>4. \A d \in attempt'[3] : ~Unasked(d)' BY <1>2, <1>3, <3>2, <3>3 DEF Unasked
    <3>5. ~stale' => attempt'[5][2] = relay' BY <1>2, <1>3, <3>2 DEF LoopPlaced
    <3>6. (attempt'[3] \ {attempt'[4]}) \cap listed' \subseteq attempt[3] \cap listed
      BY <1>2, <3>2
    <3>7. ASSUME ~stale', NEW d \in (attempt'[3] \ {attempt'[4]}) \cap listed'
          PROVE  current'[d] \in held'[relay'] /\ current'[d] \in callbacks'
      BY <1>2, <1>10, <3>6, <3>7
    <3>8. QED BY <3>4, <3>5, <3>7 DEF Moved
  <2>3. QED BY <2>1, <2>2
<1>12. Settled'
  <2> SUFFICES ASSUME Quiet', NEW d \in listed' PROVE Hears(d)' BY DEF Settled
  <2>1. ~stale /\ d \in listed BY <1>2 DEF Quiet
  <2>2. listed \subseteq attempt[3]
    <3>1. reconnecting BY <1>1, <1>3 DEF LoopPlaced
    <3>2. ~(listed \subseteq attempt[3]) => reconnecting' = reconnecting BY <1>2 DEF Resubscribe
    <3>3. QED BY <3>1, <3>2 DEF Quiet
  <2>3. current'[d] \in held'[relay] /\ current'[d] \in callbacks' BY <1>10, <2>1, <2>2
  <2>4. conn'[relay] = "open" \/ chan'[relay] = "open" BY <1>2, <1>3, <1>7, <2>1
  <2>5. QED BY <1>4, <2>3, <2>4 DEF Hears
<1>13. QED BY <1>8, <1>9, <1>11, <1>12 DEF HearInv

LEMMA LoopHears == TypeOK /\ HeardInv /\ HearInv /\ Loop => HearInv'
<1> SUFFICES ASSUME TypeOK, HeardInv, HearInv, Loop PROVE HearInv' OBVIOUS
<1>0. /\ LoopPlaced /\ RecordsOwned /\ Moved /\ Settled
      /\ relay \in Relays /\ attempt[2] \in Relays
  BY AttemptFacts DEF HearInv, TypeOK
<1>1. CASE Dial
  <2>1. /\ UNCHANGED <<reconnecting, boot, origin, current, listed, app>>
        /\ attempt[1] = "start"
    BY <1>1 DEF Dial, subs
  <2>2. attempt' = <<"auth", relay'>> /\ active' = <<"relay", relay'>>
    BY <1>1 DEF Dial
  <2>3. reconnecting' BY <1>0, <2>1 DEF LoopPlaced
  <2>4. RecordsOwned' BY <1>0, <2>1, OwnedKept
  <2>5. LoopPlaced' /\ Moved' /\ Settled' BY <2>2, <2>3 DEF LoopPlaced, Moved, Settled, Quiet
  <2>6. QED BY <2>4, <2>5 DEF HearInv
<1>2. CASE TimerFires
  <2>1. UNCHANGED <<relay, active, stale, closedByUser, boot, origin, current, listed, app>>
    BY <1>2, Zenon DEF TimerFires, subs
  <2>2. /\ LoopPlaced' /\ ~Quiet' /\ attempt'[1] # "resub"
    <3>1. CASE closedByUser
      <4>1. attempt' = <<"none", relay>> BY <1>2, <3>1 DEF TimerFires
      <4>2. QED BY <1>0, <2>1, <3>1, <4>1 DEF LoopPlaced, Quiet
    <3>2. CASE ~closedByUser
      <4>1. attempt' = <<"start", relay>> /\ reconnecting' = TRUE
        BY <1>2, <3>2 DEF TimerFires, Begin
      <4>2. QED BY <1>0, <2>1, <4>1 DEF LoopPlaced, Quiet
    <3>3. QED BY <3>1, <3>2
  <2>3. RecordsOwned' BY <1>0, <2>1, OwnedKept
  <2>4. QED BY <2>2, <2>3 DEF HearInv, Moved, Settled
<1>3. CASE LoopAuthenticated
  <2>1. UNCHANGED <<relay, active, stale, closedByUser, boot, origin, current, listed, app>>
    BY <1>3, Zenon DEF LoopAuthenticated, subs
  <2>2. attempt[1] = "auth" /\ attempt[2] = relay BY <1>0, <1>3 DEF LoopAuthenticated, LoopPlaced
  <2>3. reconnecting BY <1>0, <2>2 DEF LoopPlaced
  <2>4. RecordsOwned' BY <1>0, <2>1, OwnedKept
  <2>5. LoopPlaced' /\ Moved' /\ Settled'
    <3>1. CASE AwaitsIt
      <4>1. attempt' = <<"upgrade", relay>> /\ reconnecting' = reconnecting
        BY <1>3, <2>2, <3>1 DEF LoopAuthenticated
      <4>2. QED BY <1>0, <2>1, <2>3, <4>1 DEF LoopPlaced, Moved, Settled, Quiet
    <3>2. CASE ~AwaitsIt
      <4>1. Resubscribe({}, active, "other") BY <1>3, <3>2 DEF LoopAuthenticated
      <4>2. ~stale' => active'[2] = relay /\ active[2] = relay BY <1>0, <2>1 DEF LoopPlaced
      <4>3. QED BY <1>0, <2>1, <2>2, <4>1, <4>2, LoopStarts
    <3>3. QED BY <3>1, <3>2
  <2>6. QED BY <2>4, <2>5 DEF HearInv
<1>4. CASE LoopAuthFails
  <2>1. UNCHANGED <<relay, active, stale, conn, closedByUser, boot, origin, current, listed, app>>
    BY <1>4, Zenon DEF LoopAuthFails, subs, net
  <2>2. attempt[1] # "none" BY <1>4 DEF LoopAuthFails
  <2>3. PICK reason \in Reasons(attempt[2]) : AttemptFails(reason, status)
    BY <1>4 DEF LoopAuthFails
  <2>4. reason = "signaling" => ~NoneBarred' BY <1>0, <2>1, <2>3, Reasoned
  <2>5. LoopPlaced' /\ ~Quiet' /\ attempt'[1] # "resub"
    BY <1>0, <2>1, <2>2, <2>3, <2>4, GaveUp
  <2>6. RecordsOwned' BY <1>0, <2>1, OwnedKept
  <2>7. QED BY <2>5, <2>6 DEF HearInv, Moved, Settled
<1>5. CASE ResubscribeAnswered BY <1>5, ResubscribedHears
<1>6. CASE ResubscribeFails
  <2>1. /\ UNCHANGED <<relay, active, stale, conn, closedByUser, boot, origin, current, listed, app>>
        /\ attempt[1] = "resub"
    BY <1>6, Zenon DEF ResubscribeFails
  <2>2. attempt[5] \in Paths /\ attempt[5][2] \in Relays BY <2>1, AttemptFacts DEF Paths
  <2>3. PICK reason \in IF attempt[5][1] = "relay" THEN Reasons(attempt[5][2]) ELSE {"other"} :
          AttemptFails(reason, status)
    BY <1>6 DEF ResubscribeFails
  <2>4. reason = "signaling" => reason \in Reasons(attempt[5][2]) BY <2>3
  <2>5. reason = "signaling" => ~NoneBarred' BY <2>1, <2>2, <2>4, Reasoned
  <2>6. LoopPlaced' /\ ~Quiet' /\ attempt'[1] # "resub"
    BY <1>0, <2>1, <2>3, <2>5, GaveUp
  <2>7. RecordsOwned' BY <1>0, <2>1, OwnedKept
  <2>8. QED BY <2>6, <2>7 DEF HearInv, Moved, Settled
<1>7. CASE ResubscribeBarred
  <2>1. /\ UNCHANGED <<relay, active, stale, closedByUser, boot, origin, current, listed, app>>
        /\ attempt[1] = "resub"
    BY <1>7, Zenon DEF ResubscribeBarred, subs
  <2>2. attempt[5] \in Paths /\ attempt[5][2] \in Relays BY <2>1, AttemptFacts DEF Paths
  <2>3. conn' = [conn EXCEPT ![attempt[5][2]] = "barred"] /\ AttemptFails("signaling", status)
    BY <1>7 DEF ResubscribeBarred
  <2>4. ~NoneBarred' BY <2>2, <2>3 DEF NoneBarred, TypeOK
  <2>5. LoopPlaced' /\ ~Quiet' /\ attempt'[1] # "resub"
    BY <1>0, <2>1, <2>3, <2>4, GaveUp
  <2>6. RecordsOwned' BY <1>0, <2>1, OwnedKept
  <2>7. QED BY <2>5, <2>6 DEF HearInv, Moved, Settled
<1>8. QED BY <1>1, <1>2, <1>3, <1>4, <1>5, <1>6, <1>7 DEF Loop

\* What leaves connections and records alone while nobody has subscribed.
LEMMA EmptyKept ==
  ASSUME TypeOK, HeardInv, HearInv, boot[1] # "done",
         UNCHANGED <<relay, active, stale, reconnecting, attempt>>,
         UNCHANGED <<origin, current, callbacks, listed, app>>
  PROVE  HearInv'
<1>1. LoopPlaced /\ RecordsOwned /\ Moved /\ listed = {} BY NobodyYet DEF HearInv
<1>2. LoopPlaced' BY <1>1, PlacedKept
<1>3. RecordsOwned' BY <1>1, OwnedKept
<1>4. Moved' BY <1>1 DEF Moved, Unasked
<1>5. Settled' BY <1>1 DEF Settled
<1>6. QED BY <1>2, <1>3, <1>4, <1>5 DEF HearInv

LEMMA StartHears == TypeOK /\ HeardInv /\ HearInv /\ Start => HearInv'
<1> SUFFICES ASSUME TypeOK, HeardInv, HearInv, Start PROVE HearInv' OBVIOUS
<1>1. boot[1] # "done" BY DEF Start, Connect, BootAuthenticated, BootAuthFails
<1>2. /\ UNCHANGED <<relay, active, stale, reconnecting, attempt>>
      /\ UNCHANGED <<origin, current, callbacks, listed, app>>
  BY DEF Start, Connect, BootAuthenticated, BootAuthFails, subs
<1>3. QED BY <1>1, <1>2, EmptyKept

\* Who awaited the upgrade goes on: the loop that did starts over the records.
LEMMA Resumed ==
  ASSUME TypeOK, HeardInv, HearInv, NEW t \in Relays, NEW ok, NEW path, NEW detail,
         Resume(t, ok, path, detail), UNCHANGED <<relay, held, session, closedByUser, conn>>,
         UNCHANGED <<origin, current, callbacks, listed, app>>,
         ~stale' => ~stale /\ active'[2] = relay,
         ~stale' /\ t = relay => path[2] = relay,
         ~ok /\ detail = "signaling" => ~NoneBarred',
         \A u \in Relays : /\ session[u] = "ended" => chan'[u] = chan[u]
                           /\ chan[u] = "open" => chan'[u] = "open"
  PROVE  HearInv'
<1>0. LoopPlaced /\ RecordsOwned /\ Moved /\ Settled BY DEF HearInv
<1>1. RecordsOwned'
  <2>1. boot[1] = "done" => boot'[1] = "done" BY DEF Resume
  <2>2. QED BY <1>0, <2>1, OwnedKept
<1>2. LoopPlaced' /\ Moved' /\ Settled'
  <2>1. CASE attempt # <<"upgrade", t>>
    <3>1. UNCHANGED <<attempt, reconnecting>> BY <2>1 DEF Resume
    <3>2. LoopPlaced' BY <1>0, <3>1, PlacedKept
    <3>3. Moved' BY <1>0, <3>1, MovedKept
    <3>4. Quiet' => Quiet BY <3>1 DEF Quiet, NoneBarred
    <3>5. ASSUME NEW u \in Relays
          PROVE  /\ session[u] = "ended" => session'[u] = "ended"
                 /\ session[u] = "ended" /\ chan[u] \in {"open", "failing"} => chan'[u] \in {"open", "failing"}
                 /\ (conn[u] = "open" \/ chan[u] = "open") => (conn'[u] = "open" \/ chan'[u] = "open")
      OBVIOUS
    <3>6. Settled' BY <1>0, <3>4, <3>5, SettledKept
    <3>7. QED BY <3>2, <3>3, <3>6
  <2>2. CASE attempt = <<"upgrade", t>>
    <3>1. attempt[1] = "upgrade" /\ attempt[2] = t /\ t = relay
      BY <1>0, <2>2 DEF LoopPlaced
    <3>2. CASE ok
      <4>1. Resubscribe({}, path, detail) BY <2>2, <3>2 DEF Resume
      <4>2. ~stale' => active'[2] = relay /\ path[2] = relay BY <3>1
      <4>3. QED BY <1>0, <3>1, <4>1, <4>2, LoopStarts
    <3>3. CASE ~ok
      <4>1. AttemptFails(detail, detail) BY <2>2, <3>3 DEF Resume
      <4>2. LoopPlaced' /\ ~Quiet' /\ attempt'[1] # "resub"
        <5>1. CASE detail = "signaling"
          <6>1. attempt' = <<"none", relay>> BY <4>1, <5>1 DEF AttemptFails
          <6>2. QED BY <3>3, <5>1, <6>1 DEF LoopPlaced, Quiet
        <5>2. CASE detail # "signaling"
          <6>1. attempt' = <<"timer", relay>> /\ reconnecting' = reconnecting
            BY <4>1, <5>2 DEF AttemptFails
          <6>2. reconnecting BY <1>0, <3>1 DEF LoopPlaced
          <6>3. QED BY <6>1, <6>2 DEF LoopPlaced, Quiet
        <5>3. QED BY <5>1, <5>2
      <4>3. QED BY <4>2 DEF Moved, Settled
    <3>4. QED BY <3>2, <3>3
  <2>3. QED BY <2>1, <2>2
<1>3. QED BY <1>0, <1>1, <1>2 DEF HearInv

LEMMA NetHears == TypeOK /\ HeardInv /\ HearInv /\ Net => HearInv'
<1> SUFFICES ASSUME TypeOK, HeardInv, HearInv, NEW t \in Relays,
                    \/ Handshake(t) \/ HandshakeFails(t) \/ Drop(t) \/ Notice(t)
                    \/ ChanEvent(t) \/ Restricted(t) \/ UpgradeDone(t) \/ UpgradeFails(t)
             PROVE  HearInv'
  BY DEF Net
<1>0. LoopPlaced /\ RecordsOwned /\ Moved /\ Settled BY DEF HearInv
<1>1. CASE Handshake(t) \/ HandshakeFails(t) \/ Notice(t)
  <2>1. /\ UNCHANGED <<relay, active, stale, reconnecting, closedByUser, attempt, boot, chan>>
        /\ UNCHANGED <<origin, current, callbacks, listed, app>>
    <3>1. CASE Handshake(t) BY <3>1, Zenon DEF Handshake, ctl, subs
    <3>2. CASE HandshakeFails(t) BY <3>2, Zenon DEF HandshakeFails, ctl, subs
    <3>3. CASE Notice(t) BY <3>3, Zenon DEF Notice, ctl, subs
    <3>4. QED BY <1>1, <3>1, <3>2, <3>3
  <2>2. /\ \A u \in Relays : session'[u] = "live" => session[u] = "live" /\ held'[u] = held[u]
        /\ \A u \in Relays : session[u] = "ended" => session'[u] = "ended"
        /\ \A u \in Relays : session'[u] = "ended" \/ held'[u] = held[u]
        /\ \A u \in Relays : session'[u] = "ended" => session[u] = "ended" \/ conn[u] # "open"
        /\ \A u \in Relays : conn[u] \in {"open", "barred"} => conn'[u] = conn[u]
    <3>1. CASE Handshake(t) BY <3>1 DEF Handshake, TypeOK
    <3>2. CASE HandshakeFails(t) BY <3>2 DEF HandshakeFails, TypeOK
    <3>3. CASE Notice(t) BY <3>3 DEF Notice, TypeOK
    <3>4. QED BY <1>1, <3>1, <3>2, <3>3
  <2>3. RecordsOwned' BY <1>0, <2>1, OwnedKept
  <2>4. LoopPlaced' BY <1>0, <2>1, PlacedKept
  <2>5. Moved'
    <3>1. relay \in Relays BY DEF TypeOK
    <3>2. session'[relay] = "live" => session[relay] = "live" /\ held[relay] \subseteq held'[relay]
      BY <2>2, <3>1
    <3>3. QED BY <1>0, <2>1, <3>2, MovedKept
  <2>6. Settled'
    <3> SUFFICES ASSUME Quiet', NEW c \in listed' PROVE Hears(c)' \/ Orphan' BY DEF Settled
    <3>1. Quiet /\ c \in listed BY <2>1, <2>2 DEF Quiet, NoneBarred
    <3>2. CASE Orphan BY <2>1, <2>2, <3>2 DEF Orphan
    <3>3. CASE Hears(c)
      <4>1. PICK u \in Relays : /\ conn[u] = "open" \/ chan[u] = "open"
                                /\ current[c] \in held[u] \cap callbacks
        BY <3>3 DEF Hears
      <4>2. CASE held'[u] = held[u]
        <5>1. conn'[u] = "open" \/ chan'[u] = "open" BY <2>1, <2>2, <4>1
        <5>2. QED BY <2>1, <4>1, <4>2, <5>1 DEF Hears
      \* The session has ended: its channel is about to say so.
      <4>3. CASE held'[u] # held[u]
        <5>1. session'[u] = "ended" /\ conn[u] # "open"
          <6>1. CASE Notice(t)
            <7>1. u = t BY <4>3, <6>1 DEF Notice, TypeOK
            <7>2. QED BY <6>1, <7>1 DEF Notice, TypeOK
          <6>2. CASE Handshake(t) \/ HandshakeFails(t)
            BY <4>3, <6>2 DEF Handshake, HandshakeFails
          <6>3. QED BY <1>1, <6>1, <6>2
        <5>2. chan'[u] = "open" BY <2>1, <4>1, <5>1
        <5>3. QED BY <5>1, <5>2 DEF Orphan
      <4>4. QED BY <4>2, <4>3
    <3>4. QED BY <1>0, <3>1, <3>2, <3>3 DEF Settled
  <2>7. QED BY <2>3, <2>4, <2>5, <2>6 DEF HearInv
<1>2. CASE Drop(t) \/ ChanEvent(t)
  <2>1. /\ UNCHANGED <<relay, active, stale, closedByUser, boot, session, held>>
        /\ UNCHANGED <<origin, current, callbacks, listed, app>>
        /\ \E c : ScheduleReconnect(c)
    <3>1. CASE Drop(t) BY <3>1, Zenon DEF Drop, subs
    <3>2. CASE ChanEvent(t) BY <3>2, Zenon DEF ChanEvent, subs
    <3>3. QED BY <1>2, <3>1, <3>2
  <2>2. LoopPlaced' /\ ~Quiet' /\ (attempt'[1] = "resub" => attempt' = attempt)
    BY <1>0, <2>1, Began
  <2>3. RecordsOwned' BY <1>0, <2>1, OwnedKept
  <2>4. Moved' BY <1>0, <2>1, <2>2, MovedKept
  <2>5. QED BY <2>2, <2>3, <2>4 DEF HearInv, Settled
<1>3. CASE Restricted(t)
  <2>1. /\ UNCHANGED <<relay, active, stale, reconnecting, attempt, boot, origin, current>>
        /\ listed' = {} /\ app' = [c \in Cbs |-> IF c \in listed THEN <<"cleared">> ELSE app[c]]
    BY <1>3, Zenon DEF Restricted, ctl
  <2>2. LoopPlaced' BY <1>0, <2>1, PlacedKept
  <2>3. RecordsOwned'
    <3>1. \A c \in Cbs : app'[c][1] # "cleared" => c \notin listed /\ app'[c] = app[c]
      BY <2>1
    <3>2. \A c \in listed : c \in Cbs /\ app[c][1] # "none"
      BY DEF TypeOK, HeardInv, Unasked
    <3>3. \A c \in Cbs : app'[c][1] # "none" => app[c][1] # "none"
      <4>1. \A c \in Cbs : c \notin listed => app'[c] = app[c] BY <2>1
      <4>2. QED BY <3>2, <4>1
    <3>4. \A c \in Cbs : app'[c][1] \notin {"subscribed", "unsubscribing"}
      BY <1>0, <3>1 DEF RecordsOwned
    <3>5. \A c \in Cbs : app'[c][1] # "none" => boot'[1] = "done"
      BY <1>0, <2>1, <3>3 DEF RecordsOwned
    <3>6. \A c \in Cbs : origin'[c][1] = c /\ current'[c][1] = c
      BY <1>0, <2>1 DEF RecordsOwned
    <3>7. QED BY <3>4, <3>5, <3>6 DEF RecordsOwned
  <2>4. Moved'
    <3> SUFFICES ASSUME attempt'[1] = "resub" PROVE Moved' BY DEF Moved
    <3>1. attempt[3] \subseteq Cbs BY <2>1, AttemptFacts
    <3>2. \A c \in Cbs : Unasked(c)' => Unasked(c) BY <2>1 DEF Unasked
    <3>3. \A c \in attempt'[3] : ~Unasked(c)' BY <1>0, <2>1, <3>1, <3>2 DEF Moved
    <3>4. QED BY <1>0, <2>1, <3>3 DEF Moved
  <2>5. Settled' BY <2>1 DEF Settled
  <2>6. QED BY <2>2, <2>3, <2>4, <2>5 DEF HearInv
<1>4. CASE UpgradeDone(t)
  <2>1. /\ UNCHANGED <<relay, conn, session, held, closedByUser, origin, current, callbacks, listed, app>>
        /\ session[t] = "live" /\ chan' = [chan EXCEPT ![t] = "open"]
        /\ active' = <<"p2p", t>> /\ stale' = (stale \/ t # relay)
        /\ Resume(t, TRUE, <<"p2p", t>>, "other")
    BY <1>4 DEF UpgradeDone, subs
  <2>2. ~stale' => ~stale /\ active'[2] = relay BY <2>1
  <2>3. \A u \in Relays : /\ session[u] = "ended" => chan'[u] = chan[u]
                          /\ chan[u] = "open" => chan'[u] = "open"
    BY <2>1 DEF TypeOK
  <2>4. QED BY <2>1, <2>2, <2>3, Resumed
<1>5. CASE UpgradeFails(t)
  <2>1. /\ UNCHANGED <<relay, conn, session, held, closedByUser, origin, current, callbacks, listed, app>>
        /\ UNCHANGED <<chan, active, stale>>
    BY <1>5, Zenon DEF UpgradeFails, subs, net
  <2>2. PICK detail \in Reasons(t) : Resume(t, Fallback(detail), active, detail)
    BY <1>5 DEF UpgradeFails
  <2>3. detail = "signaling" => ~NoneBarred' BY <2>1, <2>2, Reasoned
  <2>4. ~stale' => ~stale /\ active'[2] = relay /\ active[2] = relay BY <1>0, <2>1 DEF LoopPlaced
  <2>5. QED BY <2>1, <2>2, <2>3, <2>4, Resumed
<1>6. QED BY <1>1, <1>2, <1>3, <1>4, <1>5

\* An answered request is heard; an answered unsubscription is of its own record.
LEMMA AppHears == TypeOK /\ HeardInv /\ HearInv /\ App => HearInv'
<1> SUFFICES ASSUME TypeOK, HeardInv, HearInv, NEW c \in Cbs,
                    \/ Subscribe(c) \/ SubscribeAnswered(c) \/ Unsubscribe(c)
                    \/ UnsubscribeAnswered(c) \/ CallFails(c) \/ CallBarred(c)
             PROVE  HearInv'
  BY DEF App
<1>0. /\ LoopPlaced /\ RecordsOwned /\ Moved /\ Settled
      /\ listed \subseteq Cbs /\ relay \in Relays /\ held \in [Relays -> SUBSET Ids]
      /\ current \in [Cbs -> Ids] /\ origin \in [Cbs -> Ids] /\ app \in [Cbs -> AppStates]
  BY DEF HearInv, HeardInv, TypeOK
<1>1. UNCHANGED <<relay, active, stale, reconnecting, closedByUser, attempt, boot, session, chan>>
  <2>1. Subscribe(c) \/ Unsubscribe(c) \/ UnsubscribeAnswered(c)
          => UNCHANGED <<relay, active, stale, reconnecting, closedByUser, attempt, boot, session, chan>>
    BY DEF Ask, Subscribe, Unsubscribe, UnsubscribeAnswered, ctl, net
  <2>2. SubscribeAnswered(c) \/ CallFails(c) \/ CallBarred(c)
          => UNCHANGED <<relay, active, stale, reconnecting, closedByUser, attempt, boot, session, chan>>
    BY DEF SubscribeAnswered, CallFails, CallBarred, ctl, net
  <2>3. QED BY <2>1, <2>2
<1>2. LoopPlaced' BY <1>0, <1>1, PlacedKept
<1>3. attempt[1] = "resub" => attempt[3] \subseteq Cbs BY AttemptFacts
<1>4. CASE Subscribe(c) \/ Unsubscribe(c) \/ CallFails(c) \/ CallBarred(c)
  <2>1. /\ UNCHANGED <<held, origin, current, callbacks, listed>>
        /\ \A d \in Cbs : d # c => app'[d] = app[d]
    <3>1. CASE Subscribe(c) BY <1>0, <3>1 DEF Subscribe, Ask, net
    <3>2. CASE Unsubscribe(c) BY <1>0, <3>2 DEF Unsubscribe, Ask, net
    <3>3. CASE CallFails(c) BY <1>0, <3>3 DEF CallFails, net
    <3>4. CASE CallBarred(c) BY <1>0, <3>4 DEF CallBarred
    <3>5. QED BY <1>4, <3>1, <3>2, <3>3, <3>4
  <2>2. /\ Unasked(c)' => Unasked(c)
        /\ app'[c][1] = "unsubscribing" => app'[c][3] = current[c]
        /\ app'[c][1] \in {"subscribed", "unsubscribing"} => c \in listed
        /\ app'[c][1] # "none" => boot[1] = "done"
    <3>1. CASE Subscribe(c)
      <4>1. app'[c] = <<"subscribing", active>> /\ boot[1] = "done" /\ app[c][1] = "none"
        BY <1>0, <3>1 DEF Subscribe, Ask
      <4>2. QED BY <4>1 DEF Unasked
    <3>2. CASE Unsubscribe(c)
      <4>1. /\ app'[c] = <<"unsubscribing", active, current[c]>>
            /\ c \in listed /\ app[c][1] = "subscribed"
        BY <1>0, <3>2 DEF Unsubscribe, Ask
      <4>2. boot[1] = "done" BY <1>0, <4>1 DEF RecordsOwned
      <4>3. QED BY <4>1, <4>2 DEF Unasked
    <3>3. CASE CallFails(c) \/ CallBarred(c)
      <4>1. /\ app'[c] = IF app[c][1] = "subscribing" THEN <<"none">> ELSE <<"subscribed">>
            /\ app[c][1] \in {"subscribing", "unsubscribing"}
        BY <1>0, <3>3 DEF CallFails, CallBarred
      <4>2. boot[1] = "done" /\ (app[c][1] = "unsubscribing" => c \in listed)
        BY <1>0, <4>1 DEF RecordsOwned
      <4>3. QED BY <4>1, <4>2 DEF Unasked
    <3>4. QED BY <1>4, <3>1, <3>2, <3>3
  <2>3. RecordsOwned'
    <3>1. \A d \in Cbs : origin'[d][1] = d /\ current'[d][1] = d BY <1>0, <2>1 DEF RecordsOwned
    <3>2. \A d \in Cbs : app'[d][1] = "unsubscribing" => app'[d][3][1] = d
      BY <1>0, <2>1, <2>2 DEF RecordsOwned
    <3>3. \A d \in Cbs : app'[d][1] \in {"subscribed", "unsubscribing"} => d \in listed'
      BY <1>0, <2>1, <2>2 DEF RecordsOwned
    <3>4. \A d \in Cbs : app'[d][1] # "none" => boot'[1] = "done"
      BY <1>0, <1>1, <2>1, <2>2 DEF RecordsOwned
    <3>5. QED BY <3>1, <3>2, <3>3, <3>4 DEF RecordsOwned
  <2>4. Moved'
    <3> SUFFICES ASSUME attempt'[1] = "resub" PROVE Moved' BY DEF Moved
    <3>1. \A d \in Cbs : Unasked(d)' => Unasked(d) BY <2>1, <2>2 DEF Unasked
    <3>2. \A d \in attempt'[3] : ~Unasked(d)' BY <1>0, <1>1, <1>3, <3>1 DEF Moved
    <3>3. QED BY <1>0, <1>1, <2>1, <3>2 DEF Moved
  <2>5. Settled'
    <3>1. CASE CallBarred(c)
      <4>1. app[c][2][2] \in Relays
        <5>1. app[c][1] \in {"subscribing", "unsubscribing"} BY <3>1 DEF CallBarred
        <5>2. app[c] \in ({"subscribing"} \X Paths) \cup ({"unsubscribing"} \X Paths \X Ids)
          BY <1>0, <5>1 DEF AppStates
        <5>3. app[c][2] \in Paths BY <5>2
        <5>4. QED BY <5>3 DEF Paths
      <4>2. conn' = [conn EXCEPT ![app[c][2][2]] = "barred"] BY <3>1 DEF CallBarred
      <4>3. ~NoneBarred' BY <4>1, <4>2 DEF NoneBarred, TypeOK
      <4>4. QED BY <4>3 DEF Settled, Quiet
    <3>2. CASE ~CallBarred(c)
      <4>1. conn' = conn
        <5>1. Subscribe(c) \/ Unsubscribe(c) => conn' = conn
          BY DEF Ask, Subscribe, Unsubscribe, net
        <5>2. CallFails(c) => conn' = conn BY DEF CallFails, net
        <5>3. QED BY <1>4, <3>2, <5>1, <5>2
      <4>2. Quiet' => Quiet BY <1>1, <4>1 DEF Quiet, NoneBarred
      <4>3. QED BY <1>0, <1>1, <2>1, <4>1, <4>2, SettledKept
    <3>3. QED BY <3>1, <3>2
  <2>6. QED BY <1>2, <2>3, <2>4, <2>5 DEF HearInv
<1>5. CASE SubscribeAnswered(c)
  <2> DEFINE p  == app[c][2]
             id == <<c, made[c] + 1>>
  <2>1. /\ app[c][1] = "subscribing" /\ Answers(p) /\ Makes(c, p)
        /\ listed' = listed \cup {c} /\ callbacks' = callbacks \cup {id}
        /\ origin' = [origin EXCEPT ![c] = id] /\ current' = [current EXCEPT ![c] = id]
        /\ app' = [app EXCEPT ![c] = <<"subscribed">>] /\ conn' = conn
    BY <1>5 DEF SubscribeAnswered
  <2>2. p[2] \in Relays
    <3>1. app[c] \in {"subscribing"} \X Paths BY <1>0, <2>1 DEF AppStates
    <3>2. p \in Paths BY <3>1
    <3>3. QED BY <3>2 DEF Paths
  <2>3. held' = [held EXCEPT ![p[2]] = @ \cup {id}] BY <2>1 DEF Makes
  <2>4. conn[p[2]] = "open" \/ chan[p[2]] = "open" BY <2>1 DEF Answers, Works, IsOpen
  <2>5. id[1] = c OBVIOUS
  <2> HIDE DEF p, id
  <2>6. /\ \A d \in Cbs : d # c => current'[d] = current[d] /\ origin'[d] = origin[d] /\ app'[d] = app[d]
        /\ current'[c] = id /\ origin'[c] = id /\ app'[c] = <<"subscribed">>
        /\ \A t \in Relays : held[t] \subseteq held'[t]
    BY <1>0, <2>1, <2>2, <2>3
  <2>7. Unasked(c) /\ boot[1] = "done" BY <1>0, <2>1 DEF Unasked, RecordsOwned
  <2>8. RecordsOwned'
    <3>1. \A d \in Cbs : origin'[d][1] = d /\ current'[d][1] = d
      BY <1>0, <2>5, <2>6 DEF RecordsOwned
    <3>2. \A d \in Cbs : app'[d][1] = "unsubscribing" => app'[d][3][1] = d
      BY <1>0, <2>6 DEF RecordsOwned
    <3>3. \A d \in Cbs : app'[d][1] \in {"subscribed", "unsubscribing"} => d \in listed'
      BY <1>0, <2>1, <2>6 DEF RecordsOwned
    <3>4. \A d \in Cbs : app'[d][1] # "none" => boot'[1] = "done"
      BY <1>1, <2>7
    <3>5. QED BY <3>1, <3>2, <3>3, <3>4 DEF RecordsOwned
  <2>9. Moved'
    <3> SUFFICES ASSUME attempt'[1] = "resub" PROVE Moved' BY DEF Moved
    <3>1. \A d \in attempt[3] : d \in Cbs /\ ~Unasked(d) BY <1>0, <1>1, <1>3 DEF Moved
    <3>2. \A d \in attempt[3] : d # c BY <2>7, <3>1
    <3>3. \A d \in attempt'[3] : ~Unasked(d)' BY <1>1, <2>6, <3>1, <3>2 DEF Unasked
    <3>4. ASSUME ~stale', session'[relay'] = "live",
                 NEW d \in (attempt'[3] \ {attempt'[4]}) \cap listed'
          PROVE  current'[d] \in held'[relay'] /\ current'[d] \in callbacks'
      <4>1. d \in attempt[3] BY <1>1
      <4>2. d # c /\ d \in Cbs BY <3>1, <3>2, <4>1
      <4>3. d \in (attempt[3] \ {attempt[4]}) \cap listed BY <1>1, <2>1, <4>2
      <4>4. current[d] \in held[relay] /\ current[d] \in callbacks
        BY <1>0, <1>1, <3>4, <4>3 DEF Moved
      <4>5. QED BY <1>0, <1>1, <2>1, <2>6, <4>2, <4>4
    <3>5. ~stale' => attempt'[5][2] = relay' BY <1>0, <1>1 DEF Moved
    <3>6. QED BY <3>3, <3>4, <3>5 DEF Moved
  <2>10. Settled'
    <3> SUFFICES ASSUME Quiet', NEW d \in listed' PROVE Hears(d)' \/ Orphan' BY DEF Settled
    <3>1. CASE d = c
      <4>1. conn'[p[2]] = "open" \/ chan'[p[2]] = "open" BY <1>1, <2>1, <2>4
      <4>2. current'[d] \in held'[p[2]] \cap callbacks'
        BY <1>0, <2>1, <2>2, <2>3, <2>6, <3>1
      <4>3. QED BY <2>2, <4>1, <4>2 DEF Hears
    <3>2. CASE d # c
      <4>1. d \in listed /\ d \in Cbs BY <1>0, <2>1, <3>2
      <4>2. Quiet BY <1>1, <2>1 DEF Quiet, NoneBarred
      <4>3. CASE Orphan BY <1>1, <4>3 DEF Orphan
      <4>4. CASE Hears(d)
        <5>1. PICK t \in Relays : /\ conn[t] = "open" \/ chan[t] = "open"
                                  /\ current[d] \in held[t] \cap callbacks
          BY <4>4 DEF Hears
        <5>2. conn'[t] = "open" \/ chan'[t] = "open" BY <1>1, <2>1, <5>1
        <5>3. current'[d] \in held'[t] \cap callbacks' BY <2>1, <2>6, <3>2, <4>1, <5>1
        <5>4. QED BY <5>2, <5>3 DEF Hears
      <4>5. QED BY <1>0, <4>1, <4>2, <4>3, <4>4 DEF Settled
    <3>3. QED BY <3>1, <3>2
  <2>11. QED BY <1>2, <2>8, <2>9, <2>10 DEF HearInv
<1>6. CASE UnsubscribeAnswered(c)
  <2> DEFINE p == app[c][2]
             x == app[c][3]
  <2>1. /\ app[c][1] = "unsubscribing" /\ conn' = conn
        /\ held' = [held EXCEPT ![p[2]] = @ \ {x}]
        /\ callbacks' = callbacks \ {origin[c], current[c]} /\ listed' = listed \ {c}
        /\ app' = [app EXCEPT ![c] = <<"gone">>] /\ UNCHANGED <<origin, current>>
    BY <1>6 DEF UnsubscribeAnswered, Forget
  <2>2. x[1] = c BY <1>0, <2>1 DEF RecordsOwned
  <2> HIDE DEF p, x
  <2>3. /\ \A d \in Cbs : d # c => app'[d] = app[d]
        /\ app'[c] = <<"gone">>
    BY <1>0, <2>1
  <2>4. boot[1] = "done" BY <1>0, <2>1 DEF RecordsOwned
  <2>5. ASSUME NEW d \in listed'
        PROVE  /\ d \in listed /\ d \in Cbs /\ d # c /\ current'[d] = current[d]
               /\ current[d] \in callbacks => current[d] \in callbacks'
               /\ \A t \in Relays : current[d] \in held[t] => current[d] \in held'[t]
    <3>1. d \in listed /\ d \in Cbs /\ d # c BY <1>0, <2>1, <2>5
    <3>2. current[d][1] = d /\ origin[c][1] = c /\ current[c][1] = c
      BY <1>0, <3>1 DEF RecordsOwned
    <3>3. current[d] # origin[c] /\ current[d] # current[c] /\ current[d] # x BY <2>2, <3>1, <3>2
    <3>4. \A t \in Relays : current[d] \in held[t] => current[d] \in held'[t] BY <1>0, <2>1, <3>3
    <3>5. QED BY <2>1, <3>1, <3>3, <3>4
  <2>6. RecordsOwned'
    <3>1. \A d \in Cbs : origin'[d][1] = d /\ current'[d][1] = d BY <1>0, <2>1 DEF RecordsOwned
    <3>2. \A d \in Cbs : app'[d][1] = "unsubscribing" => app'[d][3][1] = d
      BY <1>0, <2>3 DEF RecordsOwned
    <3>3. \A d \in Cbs : app'[d][1] \in {"subscribed", "unsubscribing"} => d \in listed'
      BY <1>0, <2>1, <2>3 DEF RecordsOwned
    <3>4. \A d \in Cbs : app'[d][1] # "none" => boot'[1] = "done" BY <1>1, <2>4
    <3>5. QED BY <3>1, <3>2, <3>3, <3>4 DEF RecordsOwned
  <2>7. Moved'
    <3> SUFFICES ASSUME attempt'[1] = "resub" PROVE Moved' BY DEF Moved
    <3>1. \A d \in Cbs : Unasked(d)' => Unasked(d) BY <2>3 DEF Unasked
    <3>2. \A d \in attempt'[3] : ~Unasked(d)' BY <1>0, <1>1, <1>3, <3>1 DEF Moved
    <3>3. ~stale' => attempt'[5][2] = relay' BY <1>0, <1>1 DEF Moved
    <3>4. ASSUME ~stale', session'[relay'] = "live",
                 NEW d \in (attempt'[3] \ {attempt'[4]}) \cap listed'
          PROVE  current'[d] \in held'[relay'] /\ current'[d] \in callbacks'
      <4>1. d \in listed /\ d \in (attempt[3] \ {attempt[4]}) \cap listed BY <1>1, <2>5
      <4>2. current[d] \in held[relay] /\ current[d] \in callbacks
        BY <1>0, <1>1, <3>4, <4>1 DEF Moved
      <4>3. QED BY <1>0, <1>1, <2>5, <4>2
    <3>5. QED BY <3>2, <3>3, <3>4 DEF Moved
  <2>8. Settled'
    <3>1. Quiet' => Quiet BY <1>1, <2>1 DEF Quiet, NoneBarred
    <3>2. listed' \subseteq listed BY <2>1
    <3>3. QED BY <1>0, <1>1, <2>1, <2>5, <3>1, <3>2, SettledKept
  <2>9. QED BY <1>2, <2>6, <2>7, <2>8 DEF HearInv
<1>7. QED BY <1>4, <1>5, <1>6

LEMMA CloseHears == TypeOK /\ HearInv /\ Close => HearInv'
<1> SUFFICES ASSUME TypeOK, HearInv, Close PROVE HearInv' OBVIOUS
<1>0. LoopPlaced /\ RecordsOwned /\ Moved BY DEF HearInv
<1>1. /\ UNCHANGED <<relay, active, stale, reconnecting, attempt, boot, session, held>>
      /\ UNCHANGED <<origin, current, callbacks, listed, app>> /\ closedByUser' = TRUE
  BY Zenon DEF Close, subs
<1>2. LoopPlaced' BY <1>0, <1>1, PlacedKept
<1>3. RecordsOwned' BY <1>0, <1>1, OwnedKept
<1>4. Moved' BY <1>0, <1>1, MovedKept
<1>5. Settled' BY <1>1 DEF Settled, Quiet
<1>6. QED BY <1>2, <1>3, <1>4, <1>5 DEF HearInv

\* What the requests and the loop of start() do to the client.
LEMMA ServedHears ==
  ASSUME TypeOK, HeardInv, HearInv, Requests \/ Retry
  PROVE  HearInv'
<1>0. LoopPlaced /\ RecordsOwned /\ Moved /\ Settled BY DEF HearInv
<1>1. CASE Retry
  <2>1. boot[1] # "done" BY <1>1 DEF Retry
  <2>2. /\ UNCHANGED <<relay, active, stale, reconnecting, attempt>>
        /\ UNCHANGED <<origin, current, callbacks, listed, app>>
    BY <1>1, Zenon DEF Retry, subs
  <2>3. QED BY <2>1, <2>2, EmptyKept
<1>2. CASE Requests
  <2> PICK q \in Https :
        Arrive(q) \/ WaitEnds(q) \/ CallServed(q) \/ CallLost(q) \/ CallRefused(q)
    BY <1>2 DEF Requests
  <2>1. /\ UNCHANGED <<relay, active, stale, reconnecting, closedByUser, attempt, boot>>
        /\ UNCHANGED <<session, held, chan, origin, current, callbacks, listed, app>>
    BY DEF Arrive, WaitEnds, CallServed, CallLost, CallRefused, vars, ctl, net, subs
  <2>2. LoopPlaced' BY <1>0, <2>1, PlacedKept
  <2>3. RecordsOwned' BY <1>0, <2>1, OwnedKept
  <2>4. Moved' BY <1>0, <2>1, MovedKept
  <2>5. Settled'
    <3>1. CASE CallRefused(q)
      <4>1. active[2] \in Relays BY DEF TypeOK, Paths
      <4>2. conn' = [conn EXCEPT ![active[2]] = "barred"] BY <3>1 DEF CallRefused
      <4>3. ~NoneBarred' BY <4>1, <4>2 DEF NoneBarred, TypeOK
      <4>4. QED BY <4>3 DEF Settled, Quiet
    <3>2. CASE Arrive(q) \/ WaitEnds(q) \/ CallServed(q) \/ CallLost(q)
      <4>1. conn' = conn BY <3>2 DEF Arrive, WaitEnds, CallServed, CallLost, vars, net
      <4>2. Quiet' => Quiet BY <2>1, <4>1 DEF Quiet, NoneBarred
      <4>3. QED BY <1>0, <2>1, <4>1, <4>2, SettledKept
    <3>3. QED BY <3>1, <3>2
  <2>6. QED BY <2>2, <2>3, <2>4, <2>5 DEF HearInv
<1>3. QED BY <1>1, <1>2

\* Once the loop is over, every subscription is heard again: the records have
\* moved to the session in use, wherever drops, upgrades and requests of the
\* application fell (the resubscription of scheduleReconnect).
THEOREM SubscribedHearsHolds == ServerSpec => []SubscribedHears
<1>1. ServerInit => HearInv
  <2> SUFFICES ASSUME ServerInit PROVE HearInv OBVIOUS
  <2>1. /\ app = [c \in Cbs |-> <<"none">>] /\ listed = {} /\ attempt = <<"none", 1>>
        /\ origin = [c \in Cbs |-> <<c, 0>>] /\ current = [c \in Cbs |-> <<c, 0>>]
        /\ relay = 1 /\ active = <<"relay", 1>>
    BY DEF ServerInit, Init
  <2>2. LoopPlaced BY <2>1 DEF LoopPlaced
  <2>3. RecordsOwned BY <2>1 DEF RecordsOwned
  <2>4. Moved /\ Settled BY <2>1 DEF Moved, Settled
  <2>5. QED BY <2>2, <2>3, <2>4 DEF HearInv
<1>2. ServerTypeOK /\ HeardInv /\ HearInv /\ [ServerNext]_svars => HearInv'
  <2> SUFFICES ASSUME ServerTypeOK, HeardInv, HearInv, [ServerNext]_svars PROVE HearInv' OBVIOUS
  <2>0. TypeOK BY DEF ServerTypeOK
  <2>1. CASE ClientStep
    BY <2>0, <2>1, ClientSteps, LoopHears, StartHears, NetHears, AppHears
  <2>2. CASE Requests \/ Retry BY <2>0, <2>2, ServedHears
  <2>3. CASE CloseServer BY <2>0, <2>3, CloseHears DEF CloseServer
  <2>4. CASE UNCHANGED svars
    <3>1. /\ UNCHANGED <<relay, active, stale, reconnecting, closedByUser, attempt, boot, conn>>
          /\ UNCHANGED <<session, held, chan, origin, current, callbacks, listed, app>>
      BY <2>4 DEF svars, vars, net, ctl, subs
    <3>2. LoopPlaced /\ RecordsOwned /\ Moved /\ Settled BY DEF HearInv
    <3>3. LoopPlaced' BY <3>1, <3>2, PlacedKept
    <3>4. RecordsOwned' BY <3>1, <3>2, OwnedKept
    <3>5. Moved' BY <3>1, <3>2, MovedKept
    <3>6. Quiet' => Quiet BY <3>1 DEF Quiet, NoneBarred
    <3>7. Settled' BY <2>0, <3>1, <3>2, <3>6, SettledKept
    <3>8. QED BY <3>3, <3>4, <3>5, <3>7 DEF HearInv
  <2>5. QED BY <2>1, <2>2, <2>3, <2>4 DEF ServerNext
<1>3. HearInv => SubscribedHears
  <2> SUFFICES ASSUME HearInv, ~reconnecting, ~closedByUser, ~stale,
                      NEW c \in Cbs, app[c][1] = "subscribed",
                      \A t \in Relays : conn[t] # "barred"
               PROVE  Hears(c) \/ \E t \in Relays : session[t] = "ended" /\ chan[t] \in {"open", "failing"}
    BY DEF SubscribedHears
  <2>1. c \in listed BY DEF HearInv, RecordsOwned
  <2>2. Quiet BY DEF Quiet, NoneBarred
  <2>3. QED BY <2>1, <2>2 DEF HearInv, Settled, Orphan
<1>4. QED BY ServerTyping, CallbacksHold, <1>1, <1>2, <1>3, PTL DEF ServerSpec

-----------------------------------------------------------------------------
(* Rest. *)

LEMMA LoopRests == TypeOK /\ Rest /\ Loop => Rest'
<1> SUFFICES ASSUME TypeOK, Rest, Loop PROVE Rest' OBVIOUS
<1>1. attempt[1] \in {"none", "timer"} /\ closedByUser BY DEF Rest
<1>2. TimerFires
  BY <1>1 DEF Loop, Dial, LoopAuthenticated, LoopAuthFails, ResubscribeAnswered,
     ResubscribeFails, ResubscribeBarred
<1>3. /\ attempt' = <<"none", relay>>
      /\ UNCHANGED <<conn, chan, upgrade, closedByUser, boot>>
  BY <1>1, <1>2 DEF TimerFires
<1>4. QED BY <1>3 DEF Rest

LEMMA StartRests == Rest /\ Start => Rest'
BY DEF Rest, Start, Connect, BootAuthenticated, BootAuthFails

LEMMA NetRests == TypeOK /\ Rest /\ Net => Rest'
<1> SUFFICES ASSUME TypeOK, Rest, NEW t \in Relays,
                    \/ Handshake(t) \/ HandshakeFails(t) \/ Drop(t) \/ Notice(t)
                    \/ ChanEvent(t) \/ Restricted(t) \/ UpgradeDone(t) \/ UpgradeFails(t)
             PROVE  Rest'
  BY DEF Net
<1>1. conn[t] \notin {"idle", "open"} /\ t \notin upgrade /\ chan[t] # "open" /\ ~MayReconnect
  BY DEF Rest, MayReconnect
<1>2. Notice(t) \/ ChanEvent(t) \/ Restricted(t)
  BY <1>1 DEF Handshake, HandshakeFails, Drop, UpgradeDone, UpgradeFails
<1>3. CASE Notice(t) \/ Restricted(t)
  <2>1. UNCHANGED <<conn, chan, upgrade, closedByUser, boot, attempt>>
    <3>1. CASE Notice(t) BY <3>1 DEF Notice, ctl
    <3>2. CASE Restricted(t) BY <3>2 DEF Restricted, ctl
    <3>3. QED BY <1>3, <3>1, <3>2
  <2>2. QED BY <2>1 DEF Rest
<1>4. CASE ChanEvent(t)
  <2>1. UNCHANGED <<conn, upgrade, closedByUser, boot, attempt>>
    BY <1>1, <1>4 DEF ChanEvent, ScheduleReconnect
  <2>2. \A u \in Relays : chan'[u] = "open" => chan[u] = "open"
    BY <1>4 DEF ChanEvent, TypeOK
  <2>3. QED BY <2>1, <2>2 DEF Rest
<1>5. QED BY <1>2, <1>3, <1>4

LEMMA AppRests == TypeOK /\ Rest /\ App => Rest'
<1> SUFFICES ASSUME TypeOK, Rest, NEW c \in Cbs,
                    \/ Subscribe(c) \/ SubscribeAnswered(c) \/ Unsubscribe(c)
                    \/ UnsubscribeAnswered(c) \/ CallFails(c) \/ CallBarred(c)
             PROVE  Rest'
  BY DEF App
<1>1. UNCHANGED <<chan, upgrade, closedByUser, boot, attempt>>
  <2>1. Subscribe(c) \/ Unsubscribe(c) \/ UnsubscribeAnswered(c)
          => UNCHANGED <<chan, upgrade, closedByUser, boot, attempt>>
    BY DEF Ask, Subscribe, Unsubscribe, UnsubscribeAnswered, ctl, net
  <2>2. SubscribeAnswered(c) \/ CallFails(c) \/ CallBarred(c)
          => UNCHANGED <<chan, upgrade, closedByUser, boot, attempt>>
    BY DEF SubscribeAnswered, CallFails, CallBarred, ctl, net
  <2>3. QED BY <2>1, <2>2
<1>2. \A t \in Relays : conn'[t] \in {"idle", "open"} => conn[t] \in {"idle", "open"}
  <2>1. CASE CallBarred(c) BY <2>1 DEF CallBarred, TypeOK
  <2>2. CASE ~CallBarred(c)
    <3>1. Subscribe(c) \/ Unsubscribe(c) \/ UnsubscribeAnswered(c) => conn' = conn
      BY DEF Ask, Subscribe, Unsubscribe, UnsubscribeAnswered, net
    <3>2. SubscribeAnswered(c) \/ CallFails(c) => conn' = conn
      BY DEF SubscribeAnswered, CallFails, net
    <3>3. QED BY <2>2, <3>1, <3>2
  <2>3. QED BY <2>1, <2>2
<1>3. QED BY <1>1, <1>2 DEF Rest

LEMMA ServedRests == TypeOK /\ Rest /\ (Requests \/ Retry) => Rest'
<1> SUFFICES ASSUME TypeOK, Rest, Requests \/ Retry PROVE Rest' OBVIOUS
<1>1. CASE Retry
  BY <1>1 DEF Retry, Rest, net
<1>2. CASE Requests
  <2> PICK q \in Https :
        Arrive(q) \/ WaitEnds(q) \/ CallServed(q) \/ CallLost(q) \/ CallRefused(q)
    BY <1>2 DEF Requests
  <2>1. UNCHANGED <<chan, upgrade, closedByUser, boot, attempt>>
    BY DEF Arrive, WaitEnds, CallServed, CallLost, CallRefused, vars, ctl, net
  <2>2. \A t \in Relays : conn'[t] \in {"idle", "open"} => conn[t] \in {"idle", "open"}
    <3>1. CASE CallRefused(q) BY <3>1 DEF CallRefused, TypeOK
    <3>2. CASE Arrive(q) \/ WaitEnds(q) \/ CallServed(q) \/ CallLost(q)
      BY <3>2 DEF Arrive, WaitEnds, CallServed, CallLost, vars, net
    <3>3. QED BY <3>1, <3>2
  <2>3. QED BY <2>1, <2>2 DEF Rest
<1>3. QED BY <1>1, <1>2

\* A closed client at rest stays at rest: the backoff of either loop, a late
\* event or a request does not revive it (scheduleReconnect, start, close).
THEOREM RestHolds == ServerSpec => RestIsFinal
<1>1. ServerTypeOK /\ [ServerNext]_svars => (Rest => Rest')
  <2> SUFFICES ASSUME ServerTypeOK, [ServerNext]_svars, Rest PROVE Rest' OBVIOUS
  <2>0. TypeOK BY DEF ServerTypeOK
  <2>1. CASE ClientStep
    BY <2>0, <2>1, ClientSteps, LoopRests, StartRests, NetRests, AppRests
  <2>2. CASE Requests \/ Retry BY <2>0, <2>2, ServedRests
  <2>3. CASE CloseServer BY <2>3 DEF CloseServer, Close, Rest
  <2>4. CASE UNCHANGED svars BY <2>4 DEF svars, vars, net, ctl, Rest
  <2>5. QED BY <2>1, <2>2, <2>3, <2>4 DEF ServerNext
<1>2. QED BY ServerTyping, <1>1, PTL DEF ServerSpec, RestIsFinal
=============================================================================
