-------------------------- MODULE Integration_proofs --------------------------
(***************************************************************************)
(* What holds of the integration's own parts: the store, for any consumers *)
(* and commands that overlap; the relay's link, for any pace of attempts   *)
(* and rejections; the WebRTC connections, for any sessions.               *)
(***************************************************************************)
EXTENDS Store, Link, Peers, Integers, FiniteSetTheorems, TLAPS

-----------------------------------------------------------------------------
(* The store. *)

Grants == [id : {"request", "key", NoId}, status : {"none", "active", "revoked"}, change : Nat]
Data ==
  [requests : [Consumers -> {"none", "pending", "approved", "rejected"}],
   grants   : [Consumers -> Grants],
   identity : Nat \cup {NoId}]
Waits ==
  [next : {"grant", "audit", "answer"}, consumer : Consumers, change : Nat,
   in : {"memory", "earlier"}]

StoreTypeOK ==
  /\ disk \in Data /\ memory \in Data /\ earlier \in Data
  /\ task \in [Tasks -> Waits \cup {Idle}]
  /\ reported \in [Consumers -> Nat] /\ changes \in Nat
  /\ hass \in {"down", "identity", "up"} /\ entry \in Nat \cup {NoId}

\* A command belongs to the store in use while that is up, or to the earlier one.
Placed ==
  \A t \in Tasks :
    task[t] # Idle =>
      IF task[t].in = "memory" THEN hass = "up" ELSE earlier # NoData

\* No store is ahead of the count of changes.
Dated ==
  \A c \in Consumers :
    /\ disk.grants[c].change <= changes /\ memory.grants[c].change <= changes
    /\ earlier.grants[c].change <= changes

\* What a command is going to report is in memory.
Promised ==
  \A t \in Tasks :
    (task[t] # Idle /\ task[t].in = "memory") =>
      task[t].change <= memory.grants[task[t].consumer].change

\* Memory, which the next write puts on disk, has all that was reported, too.
MemoryDurable ==
  (earlier = NoData /\ hass # "down") =>
    \A c \in Consumers : memory.grants[c].change >= reported[c]

\* The identity that the relay was started with is found at the next start.
KnownAs(x) ==
  /\ used = {x}
  /\ disk.identity = x \/ (disk.identity = NoId /\ entry = x)
  /\ hass # "down" => memory.identity = x
  /\ earlier = NoData \/ earlier.identity = x

Unknown ==
  /\ used = {} /\ disk.identity = NoId /\ entry = NoId
  /\ hass # "up" /\ earlier = NoData
  /\ hass = "identity" => memory.identity \in Nat

StoreInv ==
  /\ StoreTypeOK /\ Placed /\ Dated /\ Promised
  /\ index = Rebuilt(memory)
  /\ Durable /\ MemoryDurable
  /\ Unknown \/ (\E x \in Nat : KnownAs(x))

\* The data of requests, grants and the identity are independent.
LEMMA RequestFacts ==
  ASSUME NEW data \in Data, NEW c \in Consumers, NEW status \in {"pending", "approved", "rejected"}
  PROVE  /\ [data EXCEPT !.requests[c] = status] \in Data
         /\ [data EXCEPT !.requests[c] = status].grants = data.grants
         /\ [data EXCEPT !.requests[c] = status].identity = data.identity
BY DEF Data

\* So is the identity.
LEMMA IdentityFacts ==
  ASSUME NEW data \in Data, NEW id \in Nat \cup {NoId}
  PROVE  /\ [data EXCEPT !.identity = id] \in Data
         /\ [data EXCEPT !.identity = id].grants = data.grants
         /\ [data EXCEPT !.identity = id].identity = id
BY DEF Data

\* And a grant.
LEMMA GrantFacts ==
  ASSUME NEW data \in Data, NEW c \in Consumers, NEW grant \in Grants
  PROVE  /\ [data EXCEPT !.grants[c] = grant] \in Data
         /\ [data EXCEPT !.grants[c] = grant].identity = data.identity
         /\ [data EXCEPT !.grants[c] = grant].grants = [data.grants EXCEPT ![c] = grant]
<1> DEFINE new == [data EXCEPT !.grants[c] = grant]
           all == [data.grants EXCEPT ![c] = grant]
<1>1. data.grants \in [Consumers -> Grants] BY DEF Data
<1>2. all \in [Consumers -> Grants] /\ all[c] = grant /\ \A d \in Consumers : d # c => all[d] = data.grants[d]
  BY <1>1
<1>3. new = [data EXCEPT !.grants = all] OBVIOUS
<1> HIDE DEF all
<1>4. new \in Data /\ new.identity = data.identity /\ new.grants = all
  BY <1>2, <1>3 DEF Data
<1>5. QED BY <1>4 DEF all

\* The changes of a store's grants are numbers.
LEMMA ChangesCount ==
  ASSUME NEW data \in Data, NEW c \in Consumers
  PROVE  data.grants[c].change \in Nat
<1>1. data.grants[c] \in Grants BY DEF Data
<1>2. QED BY <1>1 DEF Grants

\* A command, or what follows its first write, saves memory: what it saves is
\* no older than what was there.
LEMMA SaveKeeps ==
  ASSUME StoreInv, NEW t \in Tasks, NEW c \in Consumers, NEW data \in Data,
         NEW next \in {"grant", "audit", "answer"}, NEW change \in Nat,
         hass = "up", Save(t, data, c, next, change),
         data.identity = memory.identity, changes' \in Nat, changes <= changes',
         \A d \in Consumers : /\ memory.grants[d].change <= data.grants[d].change
                              /\ data.grants[d].change <= changes',
         change <= data.grants[c].change,
         disk' \in {disk, memory}, UNCHANGED <<earlier, reported, hass, entry, used>>
  PROVE  StoreInv'
<1> DEFINE wait == [next |-> next, consumer |-> c, change |-> change, in |-> "memory"]
<1>0. StoreTypeOK BY DEF StoreInv
<1>1. wait \in Waits BY DEF Waits
<1>2. memory' = data /\ index' = Rebuilt(data) /\ task' = [task EXCEPT ![t] = wait] BY DEF Save
<1>3. wait.in = "memory" /\ wait.consumer = c /\ wait.change = change OBVIOUS
<1> HIDE DEF wait
<1>4. task'[t] = wait /\ \A k \in Tasks : k # t => task'[k] = task[k] BY <1>0, <1>2 DEF StoreTypeOK
<1>5. StoreTypeOK'
  <2>1. task' \in [Tasks -> Waits \cup {Idle}] BY <1>0, <1>1, <1>2 DEF StoreTypeOK
  <2>2. QED BY <1>0, <1>2, <2>1 DEF StoreTypeOK
<1>6. Placed' BY <1>3, <1>4 DEF StoreInv, Placed
<1>7. \A d \in Consumers :
        /\ disk.grants[d].change \in Nat /\ memory.grants[d].change \in Nat
        /\ data.grants[d].change \in Nat /\ earlier.grants[d].change \in Nat
        /\ reported[d] \in Nat
  BY <1>0, ChangesCount DEF StoreTypeOK
<1>8. Dated'
  <2> SUFFICES ASSUME NEW d \in Consumers
               PROVE  /\ disk'.grants[d].change <= changes' /\ data.grants[d].change <= changes'
                      /\ earlier.grants[d].change <= changes'
    BY <1>2 DEF Dated
  <2>1. /\ disk.grants[d].change <= changes /\ memory.grants[d].change <= changes
        /\ earlier.grants[d].change <= changes
    BY DEF StoreInv, Dated
  <2>2. changes \in Nat BY <1>0 DEF StoreTypeOK
  <2>3. disk'.grants[d].change \in {disk.grants[d].change, memory.grants[d].change} OBVIOUS
  <2>4. QED BY <1>7, <2>1, <2>2, <2>3
<1>9. Promised'
  <2> SUFFICES ASSUME NEW k \in Tasks, task'[k] # Idle, task'[k].in = "memory"
               PROVE  task'[k].change <= data.grants[task'[k].consumer].change
    BY <1>2 DEF Promised
  <2>1. CASE k = t BY <1>3, <1>4, <2>1
  <2>2. CASE k # t
    <3>1. task[k] # Idle /\ task[k].in = "memory" /\ task'[k] = task[k] BY <1>4, <2>2
    <3>2. task[k].consumer \in Consumers /\ task[k].change \in Nat
      BY <1>0, <3>1 DEF StoreTypeOK, Waits
    <3>3. task[k].change <= memory.grants[task[k].consumer].change BY <3>1 DEF StoreInv, Promised
    <3>4. memory.grants[task[k].consumer].change <= data.grants[task[k].consumer].change BY <3>2
    <3>5. QED BY <1>7, <3>1, <3>2, <3>3, <3>4
  <2>3. QED BY <2>1, <2>2
<1>10. Durable' /\ MemoryDurable'
  <2> SUFFICES ASSUME earlier = NoData, NEW d \in Consumers
               PROVE  disk'.grants[d].change >= reported[d] /\ data.grants[d].change >= reported[d]
    BY <1>2 DEF Durable, MemoryDurable
  <2>1. disk.grants[d].change >= reported[d] /\ memory.grants[d].change >= reported[d]
    BY DEF StoreInv, Durable, MemoryDurable
  <2>2. memory.grants[d].change <= data.grants[d].change OBVIOUS
  <2>3. disk'.grants[d].change \in {disk.grants[d].change, memory.grants[d].change} OBVIOUS
  <2>4. QED BY <1>7, <2>1, <2>2, <2>3
<1>11. Unknown' \/ \E x \in Nat : KnownAs(x)'
  <2>1. ~Unknown BY DEF Unknown
  <2>2. PICK x \in Nat : KnownAs(x) BY <2>1 DEF StoreInv
  <2>3. KnownAs(x)' BY <1>2, <2>2 DEF KnownAs
  <2>4. QED BY <2>3
<1>12. QED BY <1>2, <1>5, <1>6, <1>8, <1>9, <1>10, <1>11 DEF StoreInv

\* A request is put into memory and waits to be saved.
LEMMA AccessRequestKeeps ==
  ASSUME StoreInv, NEW c \in Consumers, AccessRequest(c)
  PROVE  StoreInv'
<1>0. StoreTypeOK /\ Dated BY DEF StoreInv
<1> DEFINE data == [memory EXCEPT !.requests[c] = "pending"]
<1>1. /\ hass = "up" /\ UNCHANGED <<disk, earlier, reported, hass, entry, used, changes>>
      /\ Save(Relay, data, c, "audit", 0)
  BY DEF AccessRequest, Starts
<1>2. data \in Data /\ data.grants = memory.grants /\ data.identity = memory.identity
  <2>1. memory \in Data BY <1>0 DEF StoreTypeOK
  <2>2. "pending" \in {"pending", "approved", "rejected"} OBVIOUS
  <2>3. QED BY <2>1, <2>2, RequestFacts, Zenon
<1> HIDE DEF data
<1>3. changes \in Nat /\ Relay \in Tasks BY <1>0 DEF StoreTypeOK, Tasks
<1>4. \A d \in Consumers : memory.grants[d].change \in Nat /\ memory.grants[d].change <= changes
  BY <1>0, ChangesCount DEF StoreTypeOK, Dated
<1>5. QED BY <1>1, <1>2, <1>3, <1>4, SaveKeeps

\* A decision changes the request and leaves the grants to what follows the save.
LEMMA DecisionKeeps ==
  ASSUME StoreInv, NEW t \in Commands, NEW c \in Consumers, ApproveRequest(t, c) \/ RejectRequest(t, c)
  PROVE  StoreInv'
<1>0. StoreTypeOK /\ Dated BY DEF StoreInv
<1>1. hass = "up" /\ UNCHANGED <<disk, earlier, reported, hass, entry, used, changes>>
  BY DEF ApproveRequest, RejectRequest, Starts
<1>2. PICK status \in {"approved", "rejected"}, next \in {"grant", "audit"} :
        Save(t, [memory EXCEPT !.requests[c] = status], c, next, 0)
  BY DEF ApproveRequest, RejectRequest
<1> DEFINE data == [memory EXCEPT !.requests[c] = status]
<1>3. data \in Data /\ data.grants = memory.grants /\ data.identity = memory.identity
  <2>1. memory \in Data BY <1>0 DEF StoreTypeOK
  <2>2. status \in {"pending", "approved", "rejected"} BY <1>2
  <2>3. QED BY <2>1, <2>2, RequestFacts, Zenon
<1>4. Save(t, data, c, next, 0) BY <1>2
<1> HIDE DEF data
<1>5. changes \in Nat /\ t \in Tasks BY <1>0 DEF StoreTypeOK, Tasks
<1>6. \A d \in Consumers : memory.grants[d].change \in Nat /\ memory.grants[d].change <= changes
  BY <1>0, ChangesCount DEF StoreTypeOK, Dated
<1>7. QED BY <1>1, <1>3, <1>4, <1>5, <1>6, SaveKeeps

\* A save of a changed grant.
LEMMA ChangeKeeps ==
  ASSUME StoreInv, NEW t \in Tasks, NEW c \in Consumers, NEW id \in {"request", "key", NoId},
         NEW status \in {"none", "active", "revoked"}, hass = "up", changes' = changes + 1,
         Save(t, Changed(memory, c, id, status), c, "audit", changes + 1),
         disk' \in {disk, memory}, UNCHANGED <<earlier, reported, hass, entry, used>>
  PROVE  StoreInv'
<1>0. StoreTypeOK /\ Dated BY DEF StoreInv
<1>1. changes \in Nat /\ changes + 1 \in Nat /\ memory \in Data BY <1>0 DEF StoreTypeOK
<1>2. PICK grant \in Grants : grant.change = changes + 1
                             /\ grant = [id |-> id, status |-> status, change |-> changes + 1]
  BY <1>1 DEF Grants
<1> DEFINE data == [memory EXCEPT !.grants[c] = grant]
<1>3. data \in Data /\ data.identity = memory.identity /\ data.grants = [memory.grants EXCEPT ![c] = grant]
  BY <1>1, GrantFacts
<1>4. Save(t, data, c, "audit", changes + 1) BY <1>2 DEF Changed
<1> HIDE DEF data
<1>5. /\ data.grants[c] = grant
      /\ \A d \in Consumers : d # c => data.grants[d] = memory.grants[d]
  BY <1>1, <1>3 DEF Data
<1>6. \A d \in Consumers : memory.grants[d].change \in Nat /\ memory.grants[d].change <= changes
  BY <1>0, <1>1, ChangesCount DEF Dated
<1>7. \A d \in Consumers : /\ memory.grants[d].change <= data.grants[d].change
                           /\ data.grants[d].change <= changes'
  BY <1>1, <1>2, <1>5, <1>6
<1>8. changes' \in Nat /\ changes <= changes' /\ changes + 1 <= data.grants[c].change
  BY <1>1, <1>2, <1>5
<1>9. QED BY <1>1, <1>3, <1>4, <1>7, <1>8, SaveKeeps

\* A command on a grant changes it in memory and waits to have it saved.
LEMMA OwnerCommandsKeep ==
  ASSUME StoreInv, NEW t \in Commands, NEW c \in Consumers,
         \/ CreatePreapproved(t, c)
         \/ \E id \in {"request", "key"} : RevokeGrant(t, c, id) \/ DeleteGrant(t, c, id)
  PROVE  StoreInv'
<1>1. t \in Tasks BY DEF Tasks
<1>2. CASE CreatePreapproved(t, c)
  <2>1. /\ hass = "up" /\ UNCHANGED <<disk, earlier, reported, hass, entry, used>> /\ changes' = changes + 1
        /\ Save(t, Changed(memory, c, "key", "active"), c, "audit", changes + 1)
    BY <1>2 DEF CreatePreapproved, Starts
  <2>2. QED BY <1>1, <2>1, ChangeKeeps
<1>3. ASSUME NEW id \in {"request", "key"}, RevokeGrant(t, c, id)
      PROVE  StoreInv'
  <2>1. /\ hass = "up" /\ UNCHANGED <<disk, earlier, reported, hass, entry, used>> /\ changes' = changes + 1
        /\ Save(t, Changed(memory, c, id, "revoked"), c, "audit", changes + 1)
    BY <1>3 DEF RevokeGrant, Starts
  <2>2. QED BY <1>1, <2>1, ChangeKeeps
<1>4. ASSUME NEW id \in {"request", "key"}, DeleteGrant(t, c, id)
      PROVE  StoreInv'
  <2>1. /\ hass = "up" /\ UNCHANGED <<disk, earlier, reported, hass, entry, used>> /\ changes' = changes + 1
        /\ Save(t, Changed(memory, c, NoId, "none"), c, "audit", changes + 1)
    BY <1>4 DEF DeleteGrant, Starts
  <2>2. QED BY <1>1, <2>1, ChangeKeeps
<1>5. QED BY <1>2, <1>3, <1>4

\* What a task that waits is going to write.
LEMMA DataOfFacts ==
  ASSUME StoreInv, NEW t \in Tasks, task[t] # Idle
  PROVE  /\ task[t] \in Waits /\ DataOf(t) \in Data
         /\ task[t].in = "memory" => DataOf(t) = memory /\ hass = "up"
         /\ task[t].in # "memory" => DataOf(t) = earlier /\ earlier # NoData
         /\ \A c \in Consumers : DataOf(t).grants[c].change <= changes
         /\ \E x \in Nat : KnownAs(x) /\ DataOf(t).identity = x
<1>1. StoreTypeOK /\ Placed /\ Dated BY DEF StoreInv
<1>2. task[t] \in Waits BY <1>1 DEF StoreTypeOK
<1>3. /\ task[t].in = "memory" => DataOf(t) = memory /\ hass = "up"
      /\ task[t].in # "memory" => DataOf(t) = earlier /\ earlier # NoData
  BY <1>1 DEF DataOf, Placed
<1>4. DataOf(t) \in Data BY <1>1, <1>3 DEF StoreTypeOK
<1>5. \A c \in Consumers : DataOf(t).grants[c].change <= changes BY <1>1, <1>3 DEF Dated
<1>6. ~Unknown BY <1>3 DEF Unknown
<1>7. PICK x \in Nat : KnownAs(x) BY <1>6 DEF StoreInv
<1>8. DataOf(t).identity = x BY <1>3, <1>7 DEF KnownAs
<1>9. QED BY <1>2, <1>3, <1>4, <1>5, <1>7, <1>8

\* A write by a task that goes on, or answers with what is written.
LEMMA WriteKeeps ==
  ASSUME StoreInv, NEW t \in Tasks, task[t] # Idle, Saved(t),
         NEW w \in Waits \cup {Idle}, task' = [task EXCEPT ![t] = w],
         w # Idle => w.in = task[t].in /\ w.consumer = task[t].consumer /\ w.change = task[t].change,
         \/ reported' = reported
         \/ reported' = [reported EXCEPT ![task[t].consumer] =
                           IF @ > task[t].change THEN @ ELSE task[t].change],
         UNCHANGED <<memory, earlier, index, changes, hass, entry, used>>
  PROVE  StoreInv'
<1>0. StoreTypeOK BY DEF StoreInv
<1>1. /\ task[t] \in Waits /\ DataOf(t) \in Data
      /\ task[t].in = "memory" => DataOf(t) = memory /\ hass = "up"
      /\ task[t].in # "memory" => DataOf(t) = earlier /\ earlier # NoData
      /\ \A c \in Consumers : DataOf(t).grants[c].change <= changes
  BY DataOfFacts
<1>2. disk' = DataOf(t) BY DEF Saved
<1>3. task[t].consumer \in Consumers /\ task[t].change \in Nat BY <1>1 DEF Waits
<1>4. task'[t] = w /\ \A k \in Tasks : k # t => task'[k] = task[k] BY <1>0 DEF StoreTypeOK
<1>5. /\ reported' \in [Consumers -> Nat]
      /\ \A c \in Consumers : \/ reported'[c] = reported[c]
                              \/ c = task[t].consumer /\ reported'[c] = task[t].change
  BY <1>0, <1>3 DEF StoreTypeOK
<1>6. StoreTypeOK'
  <2>1. task' \in [Tasks -> Waits \cup {Idle}] BY <1>0 DEF StoreTypeOK
  <2>2. QED BY <1>0, <1>1, <1>2, <1>5, <2>1 DEF StoreTypeOK
<1>7. Placed' BY <1>4 DEF StoreInv, Placed
<1>8. Dated' BY <1>1, <1>2 DEF StoreInv, Dated
<1>9. Promised' BY <1>4 DEF StoreInv, Promised
<1>10. Durable' /\ MemoryDurable'
  <2> SUFFICES ASSUME earlier = NoData, NEW c \in Consumers
               PROVE  disk'.grants[c].change >= reported'[c] /\ memory.grants[c].change >= reported'[c]
    BY DEF Durable, MemoryDurable
  <2>1. task[t].in = "memory" /\ disk' = memory /\ hass = "up" BY <1>1, <1>2
  <2>2. memory.grants[c].change >= reported[c] BY <2>1 DEF StoreInv, MemoryDurable
  <2>3. c = task[t].consumer => task[t].change <= memory.grants[c].change
    BY <2>1 DEF StoreInv, Promised
  <2>4. memory.grants[c].change \in Nat BY <1>0, ChangesCount DEF StoreTypeOK
  <2>5. QED BY <1>3, <1>5, <2>1, <2>2, <2>3, <2>4
<1>11. Unknown' \/ \E x \in Nat : KnownAs(x)'
  <2>1. PICK x \in Nat : KnownAs(x) /\ DataOf(t).identity = x BY DataOfFacts
  <2>2. KnownAs(x)' BY <1>2, <2>1 DEF KnownAs
  <2>3. QED BY <2>2
<1>12. (index = Rebuilt(memory))' BY DEF StoreInv, Rebuilt
<1>13. QED BY <1>6, <1>7, <1>8, <1>9, <1>10, <1>11, <1>12 DEF StoreInv

\* The change is saved; the command goes on to record it.
LEMMA AuditSavedKeeps ==
  ASSUME StoreInv, NEW t \in Tasks, AuditSaved(t)
  PROVE  StoreInv'
<1>1. /\ task[t].next = "audit" /\ Saved(t) /\ task' = [task EXCEPT ![t].next = "answer"]
      /\ UNCHANGED <<memory, earlier, index, reported, changes, hass, entry, used>>
  BY DEF AuditSaved
<1>2. task[t] # Idle BY <1>1 DEF Idle
<1>3. task[t] \in Waits BY <1>2, DataOfFacts
<1> DEFINE w == [task[t] EXCEPT !.next = "answer"]
<1>4. /\ w \in Waits /\ w.in = task[t].in /\ w.consumer = task[t].consumer
      /\ w.change = task[t].change
  BY <1>3 DEF Waits
<1>5. task' = [task EXCEPT ![t] = w] BY <1>1
<1> HIDE DEF w
<1>6. QED BY <1>1, <1>2, <1>4, <1>5, WriteKeeps

\* A command answers when what it changed was written.
LEMMA AnsweredKeeps ==
  ASSUME StoreInv, NEW t \in Tasks, Answered(t)
  PROVE  StoreInv'
<1>1. /\ task[t].next = "answer" /\ Saved(t) /\ task' = [task EXCEPT ![t] = Idle]
      /\ reported' = [reported EXCEPT ![task[t].consumer] =
                        IF @ > task[t].change THEN @ ELSE task[t].change]
      /\ UNCHANGED <<memory, earlier, index, changes, hass, entry, used>>
  BY DEF Answered
<1>2. task[t] # Idle BY <1>1 DEF Idle
<1>3. QED BY <1>1, <1>2, WriteKeeps

\* An approval puts the grant after the request was saved, into the store it began in.
LEMMA GrantSavedKeeps ==
  ASSUME StoreInv, NEW t \in Tasks, GrantSaved(t)
  PROVE  StoreInv'
<1> DEFINE c == task[t].consumer
           data == Changed(DataOf(t), c, "request", "active")
<1>0. StoreTypeOK BY DEF StoreInv
<1>1. /\ task[t].next = "grant" /\ disk' = DataOf(t) /\ changes' = changes + 1
      /\ UNCHANGED <<reported, hass, entry, used>>
  BY DEF GrantSaved, Saved
<1>2. task[t] # Idle BY <1>1 DEF Idle
<1>3. /\ task[t] \in Waits /\ DataOf(t) \in Data
      /\ task[t].in = "memory" => DataOf(t) = memory /\ hass = "up"
      /\ task[t].in # "memory" => DataOf(t) = earlier /\ earlier # NoData
      /\ \A d \in Consumers : DataOf(t).grants[d].change <= changes
  BY <1>2, DataOfFacts
<1>4. c \in Consumers BY <1>3 DEF Waits
<1>5. CASE task[t].in = "memory"
  <2>1. Save(t, Changed(memory, c, "request", "active"), c, "audit", changes + 1) /\ earlier' = earlier
    BY <1>3, <1>5 DEF GrantSaved
  <2>2. hass = "up" /\ disk' \in {disk, memory} BY <1>1, <1>3, <1>5
  <2>3. QED BY <1>1, <1>4, <2>1, <2>2, ChangeKeeps
<1>6. CASE task[t].in # "memory"
  <2>1. /\ earlier' = data /\ UNCHANGED <<memory, index>>
        /\ task' = [task EXCEPT ![t].next = "audit", ![t].change = changes + 1]
    BY <1>6 DEF GrantSaved
  <2>2. /\ disk' = earlier /\ earlier # NoData /\ earlier \in Data /\ changes \in Nat
        /\ \A d \in Consumers : earlier.grants[d].change <= changes
    BY <1>0, <1>1, <1>3, <1>6 DEF StoreTypeOK
  <2>3. /\ earlier' \in Data /\ earlier'.identity = earlier.identity
        /\ earlier'.grants[c].change = changes + 1
        /\ \A d \in Consumers : d # c => earlier'.grants[d].change = earlier.grants[d].change
    <3>1. changes + 1 \in Nat BY <2>2
    <3>2. PICK grant \in Grants : grant.change = changes + 1
                             /\ grant = [id |-> "request", status |-> "active", change |-> changes + 1]
      BY <3>1 DEF Grants
    <3>3. earlier' = [earlier EXCEPT !.grants[c] = grant] BY <1>3, <1>6, <2>1, <3>2 DEF Changed
    <3>4. /\ earlier' \in Data /\ earlier'.identity = earlier.identity
          /\ earlier'.grants = [earlier.grants EXCEPT ![c] = grant]
      BY <1>4, <2>2, <3>3, GrantFacts
    <3>5. QED BY <1>4, <2>2, <3>2, <3>4 DEF Data
  <2> HIDE DEF data
  <2>4. PICK x \in Nat : KnownAs(x) /\ DataOf(t).identity = x BY <1>2, DataOfFacts
  <2>5. earlier.identity = x BY <1>3, <1>6, <2>4
  <2>6. earlier' # NoData
    <3>1. NoData.identity = NoId BY DEF NoData
    <3>2. QED BY <2>3, <2>5, <3>1, StoreAssumption
  <2>7. KnownAs(x)' BY <1>1, <2>1, <2>2, <2>3, <2>4, <2>5 DEF KnownAs
  <2> DEFINE w == [task[t] EXCEPT !.next = "audit", !.change = changes + 1]
  <2>8. w \in Waits /\ w.in = task[t].in
    <3>1. changes + 1 \in Nat BY <2>2
    <3>2. [task[t] EXCEPT !.next = "audit"] \in Waits /\ [task[t] EXCEPT !.next = "audit"].in = task[t].in
      BY <1>3 DEF Waits
    <3>3. QED BY <3>1, <3>2 DEF Waits
  <2>9. task' = [task EXCEPT ![t] = w] BY <1>0, <2>1 DEF StoreTypeOK
  <2> HIDE DEF w
  <2>10. task'[t] = w /\ \A k \in Tasks : k # t => task'[k] = task[k] BY <1>0, <2>9 DEF StoreTypeOK
  <2>11. StoreTypeOK'
    <3>1. task' \in [Tasks -> Waits \cup {Idle}] BY <1>0, <2>8, <2>9 DEF StoreTypeOK
    <3>2. QED BY <1>0, <1>1, <2>1, <2>2, <2>3, <3>1 DEF StoreTypeOK
  <2>12. Placed' BY <1>1, <1>6, <2>6, <2>8, <2>10 DEF StoreInv, Placed
  <2>13. Dated'
    <3> SUFFICES ASSUME NEW d \in Consumers
                 PROVE  /\ disk'.grants[d].change <= changes' /\ memory.grants[d].change <= changes'
                        /\ earlier'.grants[d].change <= changes'
      BY <2>1 DEF Dated
    <3>1. memory.grants[d].change <= changes /\ earlier.grants[d].change <= changes
      BY DEF StoreInv, Dated
    <3>2. memory.grants[d].change \in Nat /\ earlier.grants[d].change \in Nat
      BY <1>0, ChangesCount DEF StoreTypeOK
    <3>3. QED BY <1>1, <2>2, <2>3, <3>1, <3>2
  <2>14. Promised' BY <1>6, <2>1, <2>8, <2>10 DEF StoreInv, Promised
  <2>15. Durable' /\ MemoryDurable' BY <2>6 DEF Durable, MemoryDurable
  <2>16. (index = Rebuilt(memory))' BY <2>1 DEF StoreInv, Rebuilt
  <2>17. QED BY <2>7, <2>11, <2>12, <2>13, <2>14, <2>15, <2>16 DEF StoreInv
<1>7. QED BY <1>5, <1>6

\* A start puts what is on disk into memory.
LEMMA LoadStoreKeeps ==
  ASSUME StoreInv, LoadStore
  PROVE  StoreInv'
<1>0. StoreTypeOK BY DEF StoreInv
<1>1. /\ hass = "down" /\ memory' = [disk EXCEPT !.identity = Resolved] /\ index' = Rebuilt(disk)
      /\ UNCHANGED <<disk, earlier, task, reported, changes>>
  BY DEF LoadStore
<1>2. /\ Resolved \in Nat
      /\ \/ Unknown
         \/ \E x \in Nat : KnownAs(x) /\ Resolved = x
  <2>1. CASE Unknown
    <3>1. Cardinality(used) = 0 BY <2>1, FS_EmptySet DEF Unknown
    <3>2. QED BY <2>1, <3>1 DEF Unknown, Resolved
  <2>2. CASE \E x \in Nat : KnownAs(x)
    <3>1. PICK x \in Nat : KnownAs(x) BY <2>2
    <3>2. Resolved = x BY <3>1, StoreAssumption DEF KnownAs, Resolved
    <3>3. QED BY <3>1, <3>2
  <2>3. QED BY <2>1, <2>2 DEF StoreInv
<1>3. memory' \in Data /\ memory'.grants = disk.grants /\ memory'.identity = Resolved
  BY <1>0, <1>1, <1>2, IdentityFacts DEF StoreTypeOK
<1>4. \/ disk.identity = NoId /\ hass' = "identity" /\ UNCHANGED <<used, entry>>
      \/ /\ disk.identity # NoId /\ hass' = "up" /\ used' = used \cup {disk.identity}
         /\ entry' \in {entry, NoId}
  BY DEF LoadStore, RelayStarts
<1>5. StoreTypeOK' BY <1>0, <1>1, <1>3, <1>4 DEF StoreTypeOK
<1>6. \A t \in Tasks : task[t] # Idle => task[t].in # "memory" BY <1>1 DEF StoreInv, Placed
<1>7. Placed' /\ Promised' BY <1>1, <1>6 DEF StoreInv, Placed, Promised
<1>8. Dated' BY <1>1, <1>3 DEF StoreInv, Dated
<1>9. Durable' /\ MemoryDurable' BY <1>1, <1>3 DEF StoreInv, Durable, MemoryDurable
<1>10. (index = Rebuilt(memory))' BY <1>1, <1>3 DEF Rebuilt
<1>11. Unknown' \/ \E x \in Nat : KnownAs(x)'
  <2>1. CASE Unknown
    <3>1. Unknown' BY <1>1, <1>2, <1>3, <1>4, <2>1 DEF Unknown
    <3>2. QED BY <3>1
  <2>2. ASSUME NEW x \in Nat, KnownAs(x), Resolved = x PROVE KnownAs(x)'
    BY <1>1, <1>3, <1>4, <2>2 DEF KnownAs
  <2>3. QED BY <1>2, <2>1, <2>2
<1>12. QED BY <1>5, <1>7, <1>8, <1>9, <1>10, <1>11 DEF StoreInv

\* The identity is saved before any command is taken.
LEMMA IdentitySavedKeeps ==
  ASSUME StoreInv, IdentitySaved
  PROVE  StoreInv'
<1>0. StoreTypeOK BY DEF StoreInv
<1>1. /\ hass = "identity" /\ hass' = "up" /\ disk' = memory
      /\ used' = used \cup {memory.identity} /\ entry' \in {entry, NoId}
      /\ UNCHANGED <<memory, earlier, index, task, reported, changes>>
  BY DEF IdentitySaved, RelayStarts
<1>2. StoreTypeOK' BY <1>0, <1>1 DEF StoreTypeOK
<1>3. Placed' /\ Promised' BY <1>1 DEF StoreInv, Placed, Promised
<1>4. Dated' BY <1>1 DEF StoreInv, Dated
<1>5. Durable' /\ MemoryDurable' BY <1>1 DEF StoreInv, Durable, MemoryDurable
<1>6. (index = Rebuilt(memory))' BY <1>1 DEF StoreInv, Rebuilt
<1>7. \E x \in Nat : KnownAs(x)'
  <2>1. CASE Unknown
    <3>1. memory.identity \in Nat /\ used = {} /\ earlier = NoData BY <1>1, <2>1 DEF Unknown
    <3>2. PICK x \in Nat : x = memory.identity BY <3>1
    <3>3. KnownAs(x)' BY <1>1, <3>1, <3>2 DEF KnownAs
    <3>4. QED BY <3>3
  <2>2. ASSUME NEW x \in Nat, KnownAs(x) PROVE KnownAs(x)' BY <1>1, <2>2 DEF KnownAs
  <2>3. QED BY <2>1, <2>2 DEF StoreInv
<1>8. QED BY <1>2, <1>3, <1>4, <1>5, <1>6, <1>7 DEF StoreInv

\* A store that nothing was put in.
LEMMA EmptyData == NoData \in Data /\ Rebuilt(NoData) = {} /\ \A c \in Consumers : NoData.grants[c].change = 0
<1>1. NoGrant \in Grants BY DEF NoGrant, Grants
<1>2. NoData \in Data BY <1>1 DEF NoData, Data
<1>3. \A c \in Consumers : NoData.grants[c] = NoGrant BY DEF NoData
<1>4. QED BY <1>2, <1>3 DEF NoGrant, Rebuilt

\* When the process ends, what was answered is on disk.
LEMMA HassStopsKeeps ==
  ASSUME StoreInv, HassStops
  PROVE  StoreInv'
<1>0. StoreTypeOK BY DEF StoreInv
<1>1. /\ hass' = "down" /\ memory' = NoData /\ index' = {} /\ task' = [t \in Tasks |-> Idle]
      /\ UNCHANGED <<disk, earlier, reported, changes, entry, used>>
  BY DEF HassStops
<1>2. StoreTypeOK' BY <1>0, <1>1, EmptyData DEF StoreTypeOK
<1>3. Placed' /\ Promised' BY <1>1 DEF Placed, Promised
<1>4. Dated' BY <1>0, <1>1, EmptyData DEF StoreInv, Dated, StoreTypeOK
<1>5. Durable' /\ MemoryDurable' BY <1>1 DEF StoreInv, Durable, MemoryDurable
<1>6. (index = Rebuilt(memory))' BY <1>1, EmptyData DEF Rebuilt
<1>7. Unknown' \/ \E x \in Nat : KnownAs(x)' BY <1>1 DEF StoreInv, Unknown, KnownAs
<1>8. QED BY <1>2, <1>3, <1>4, <1>5, <1>6, <1>7 DEF StoreInv

\* A reload leaves the commands under way with the earlier store, of which nothing was lost.
LEMMA ReloadKeeps ==
  ASSUME StoreInv, Reload
  PROVE  StoreInv'
<1>0. StoreTypeOK BY DEF StoreInv
<1>1. /\ hass = "up" /\ hass' = "down" /\ memory' = NoData /\ index' = {}
      /\ \A t \in Commands : task[t] # Idle => task[t].in = "memory"
      /\ earlier' = IF \E t \in Commands : task[t] # Idle THEN memory ELSE earlier
      /\ disk' \in {disk, memory}
      /\ task' = [t \in Tasks |->
           IF t = Relay \/ task[t] = Idle THEN Idle ELSE [task[t] EXCEPT !.in = "earlier"]]
      /\ UNCHANGED <<reported, changes, entry, used>>
  BY DEF Reload
<1>2. \A t \in Tasks :
        \/ task'[t] = Idle
        \/ /\ task'[t] \in Waits /\ task'[t].in = "earlier"
           /\ t \in Commands /\ task[t] # Idle
  <2> SUFFICES ASSUME NEW t \in Tasks, task'[t] # Idle
               PROVE  /\ task'[t] \in Waits /\ task'[t].in = "earlier"
                      /\ t \in Commands /\ task[t] # Idle
    OBVIOUS
  <2>1. t # Relay /\ task[t] # Idle /\ task'[t] = [task[t] EXCEPT !.in = "earlier"] BY <1>1
  <2>2. task[t] \in Waits BY <1>0, <2>1 DEF StoreTypeOK
  <2>3. QED BY <2>1, <2>2 DEF Waits, Tasks
<1>3. PICK x \in Nat : KnownAs(x) BY <1>1 DEF StoreInv, Unknown
<1>4. memory # NoData
  <2>1. memory.identity = x /\ NoData.identity = NoId BY <1>1, <1>3 DEF KnownAs, NoData
  <2>2. QED BY <2>1, StoreAssumption
<1>5. /\ earlier' = NoData => earlier = NoData /\ \A t \in Commands : task[t] = Idle
      /\ earlier' \in {earlier, memory}
  BY <1>1, <1>4
<1>6. StoreTypeOK'
  <2>1. task' \in [Tasks -> Waits \cup {Idle}] BY <1>1, <1>2
  <2>2. QED BY <1>0, <1>1, <1>5, <2>1, EmptyData DEF StoreTypeOK
<1>7. Placed' BY <1>2, <1>5 DEF Placed
<1>8. Promised' BY <1>2 DEF Promised
<1>9. Dated'
  <2>1. changes \in Nat BY <1>0 DEF StoreTypeOK
  <2>2. QED BY <1>1, <1>5, <2>1, EmptyData DEF StoreInv, Dated
<1>10. Durable' /\ MemoryDurable'
  <2>1. MemoryDurable' BY <1>1 DEF MemoryDurable
  <2> SUFFICES ASSUME earlier' = NoData, NEW c \in Consumers
               PROVE  disk'.grants[c].change >= reported[c]
    BY <1>1, <2>1 DEF Durable
  <2>2. disk.grants[c].change >= reported[c] /\ memory.grants[c].change >= reported[c]
    BY <1>1, <1>5 DEF StoreInv, Durable, MemoryDurable
  <2>3. QED BY <1>1, <2>2
<1>11. (index = Rebuilt(memory))' BY <1>1, EmptyData DEF Rebuilt
<1>12. KnownAs(x)' BY <1>1, <1>3, <1>5 DEF KnownAs
<1>13. QED BY <1>6, <1>7, <1>8, <1>9, <1>10, <1>11, <1>12 DEF StoreInv

\* StoreInv is inductive.
THEOREM StoreInductive == StoreSpec => []StoreInv
<1>1. StoreInit => StoreInv
  <2> SUFFICES ASSUME StoreInit PROVE StoreInv OBVIOUS
  <2>1. /\ disk = NoData /\ memory = NoData /\ earlier = NoData /\ index = {}
        /\ task = [t \in Tasks |-> Idle] /\ reported = [c \in Consumers |-> 0]
        /\ changes = 0 /\ hass = "down" /\ entry \in {NoId, 0}
        /\ used = IF entry = NoId THEN {} ELSE {0}
    BY DEF StoreInit, Legacy
  <2>2. StoreTypeOK BY <2>1, EmptyData DEF StoreTypeOK
  <2>3. Placed /\ Promised BY <2>1 DEF Placed, Promised
  <2>4. Dated BY <2>1, EmptyData DEF Dated
  <2>5. Durable /\ MemoryDurable BY <2>1, EmptyData DEF Durable, MemoryDurable
  <2>6. index = Rebuilt(memory) BY <2>1, EmptyData
  <2>7. disk.identity = NoId BY <2>1 DEF NoData
  <2>8. CASE entry = NoId
    <3>1. Unknown BY <2>1, <2>7, <2>8 DEF Unknown
    <3>2. QED BY <2>2, <2>3, <2>4, <2>5, <2>6, <3>1 DEF StoreInv
  <2>9. CASE entry # NoId
    <3>1. KnownAs(0) BY <2>1, <2>7, <2>9 DEF KnownAs
    <3>2. QED BY <2>2, <2>3, <2>4, <2>5, <2>6, <3>1 DEF StoreInv
  <2>10. QED BY <2>8, <2>9
<1>2. StoreInv /\ [StoreNext]_svars => StoreInv'
  <2> SUFFICES ASSUME StoreInv, [StoreNext]_svars PROVE StoreInv' OBVIOUS
  <2>1. CASE UNCHANGED svars
    <3>1. UNCHANGED <<disk, memory, earlier, index, task, reported, changes, hass, entry, used>>
      BY <2>1 DEF svars
    <3>2. StoreTypeOK' BY <3>1 DEF StoreInv, StoreTypeOK
    <3>3. Placed' /\ Promised' /\ Dated' BY <3>1 DEF StoreInv, Placed, Promised, Dated
    <3>4. Durable' /\ MemoryDurable' BY <3>1 DEF StoreInv, Durable, MemoryDurable
    <3>5. (index = Rebuilt(memory))' BY <3>1 DEF StoreInv, Rebuilt
    <3>6. Unknown' \/ \E x \in Nat : KnownAs(x)' BY <3>1 DEF StoreInv, Unknown, KnownAs
    <3>7. QED BY <3>2, <3>3, <3>4, <3>5, <3>6 DEF StoreInv
  <2>2. CASE StoreNext
    BY <2>2, AccessRequestKeeps, DecisionKeeps, OwnerCommandsKeep, GrantSavedKeeps, AuditSavedKeeps,
       AnsweredKeeps, LoadStoreKeeps, IdentitySavedKeeps, HassStopsKeeps, ReloadKeeps DEF StoreNext
  <2>3. QED BY <2>1, <2>2
<1> QED BY <1>1, <1>2, PTL DEF StoreSpec

\* What was reported survives every stop.
THEOREM ReportedIsDurable == StoreSpec => []Durable
<1>1. StoreInv => Durable BY DEF StoreInv
<1> QED BY <1>1, StoreInductive, PTL

\* Every grant on record can be found by its id.
THEOREM GrantsFound == StoreSpec => []Findable
<1>1. StoreInv => Findable
  <2> SUFFICES ASSUME StoreInv, NEW c \in Consumers, memory.grants[c].status # "none"
               PROVE  FindsGrant(memory.grants[c].id, c)
    BY DEF Findable
  <2>1. <<memory.grants[c].id, c>> \in Rebuilt(memory) BY DEF Rebuilt
  <2>2. QED BY <2>1 DEF StoreInv, FindsGrant
<1> QED BY <1>1, StoreInductive, PTL

\* The authority has one identity, from its first start on.
THEOREM OneIdentity == StoreSpec => []IdentityKept
<1>1. StoreInv => IdentityKept
  <2> SUFFICES ASSUME StoreInv PROVE Cardinality(used) <= 1 BY DEF IdentityKept
  <2>1. CASE Unknown BY <2>1, FS_EmptySet DEF Unknown
  <2>2. ASSUME NEW x \in Nat, KnownAs(x) PROVE Cardinality(used) <= 1
    BY <2>2, FS_Singleton DEF KnownAs
  <2>3. QED BY <2>1, <2>2 DEF StoreInv
<1> QED BY <1>1, StoreInductive, PTL

-----------------------------------------------------------------------------
(* The link to the bridge. *)

LinkTypeOK ==
  /\ phase \in {"due", "open", "ready", "waiting", "stopped"}
  /\ clock \in Nat /\ started \in Nat /\ until \in Nat
  /\ delay \in Nat /\ delay >= Initial
  /\ failures \in Nat
  /\ attempts \in Seq(Nat) /\ Len(attempts) <= Burst + 1
  /\ rejections \in Seq(Nat)

\* An attempt at this time, or later, comes late enough after one that was made
\* at the other, when n attempts are between them; and the next wait keeps it so.
Far(time, other, n) ==
  \/ time - other >= Stable
  \/ /\ time - other >= Times[n + 1]
     /\ n < Burst => delay >= Times[n + 2] - Times[n + 1]

\* The last attempt, or the next one, against those before.
Paced ==
  LET last == Len(attempts) IN
    /\ phase \in {"open", "ready"} =>
         /\ last > 0 /\ started = attempts[last] /\ started <= clock
         /\ \A i \in 1..last : Far(started, attempts[i], last - i)
    /\ phase = "waiting" =>
         \A i \in 1..last : last - i < Burst => Far(until, attempts[i], last - i + 1)
    /\ phase = "due" =>
         \A i \in 1..last : last - i < Burst => Far(clock, attempts[i], last - i + 1)

\* Who was rejected too often waits for long, whatever comes in between.
Patient ==
  LET last == Len(rejections) IN
    /\ failures = last
    /\ phase = "ready" => last = 0
    /\ last >= TerminalAfter =>
         /\ phase = "waiting" => until - rejections[last] >= Long
         /\ phase \in {"due", "open"} => clock - rejections[last] >= Long

LinkInv == LinkTypeOK /\ Paced /\ Patient /\ Spaced /\ RarelyRejected

\* The times of attempts, as numbers.
LEMMA TimesFacts ==
  /\ Initial \in Nat /\ Cap \in Nat /\ Stable \in Nat /\ Long \in Nat /\ TerminalAfter \in Nat
  /\ Initial > 0 /\ Stable > 0 /\ TerminalAfter > 0 /\ Initial <= Cap /\ Stable <= Long
  /\ Burst \in Nat /\ Burst > 0 /\ Len(Times) = Burst + 1
  /\ \A n \in 1..(Burst + 1) : Times[n] \in Nat
  /\ Times[1] = 0 /\ Times[2] = Initial /\ Times[Burst + 1] >= Stable
  /\ \A n \in 2..Burst : Times[n + 1] = Times[n] + Smaller(2 * (Times[n] - Times[n - 1]), Cap)
<1>1. Len(Times) = Burst + 1
  <2>1. Len(Times) \in Nat BY LinkAssumption
  <2>2. QED BY <2>1 DEF Burst
<1>2. \A n \in 1..(Burst + 1) : Times[n] \in Nat BY <1>1, LinkAssumption
<1>3. QED BY <1>1, <1>2, LinkAssumption

\* A queue of times that keeps the last ones.
LEMMA Attempts ==
  ASSUME LinkTypeOK, Attempt
  PROVE  LET last == Len(attempts)
             past == IF last > Burst THEN 1 ELSE 0 IN
         /\ attempts' \in Seq(Nat) /\ last \in Nat /\ Len(attempts') = last - past + 1
         /\ Len(attempts') <= Burst + 1
         /\ attempts'[Len(attempts')] = clock
         /\ \A i \in 1..(Len(attempts') - 1) :
              attempts'[i] = attempts[i + past] /\ i + past \in 1..last
         /\ \A i \in 1..last : attempts[i] \in Nat
<1> DEFINE kept == IF Len(attempts) > Burst THEN Tail(attempts) ELSE attempts
           past == IF Len(attempts) > Burst THEN 1 ELSE 0
<1>1. attempts \in Seq(Nat) /\ Len(attempts) \in Nat /\ Burst \in Nat /\ Len(attempts) <= Burst + 1
      /\ clock \in Nat
  BY TimesFacts DEF LinkTypeOK
<1>2. /\ kept \in Seq(Nat) /\ Len(kept) = Len(attempts) - past
      /\ \A i \in 1..Len(kept) : kept[i] = attempts[i + past] /\ i + past \in 1..Len(attempts)
  <2>1. CASE Len(attempts) > Burst
    <3>1. attempts # <<>> BY <1>1, <2>1
    <3>2. Tail(attempts) \in Seq(Nat) /\ Len(Tail(attempts)) = Len(attempts) - 1 BY <1>1, <3>1
    <3>3. \A i \in 1..Len(Tail(attempts)) : Tail(attempts)[i] = attempts[i + 1] BY <1>1, <3>1
    <3>4. QED BY <1>1, <2>1, <3>2, <3>3
  <2>2. CASE ~(Len(attempts) > Burst) BY <1>1, <2>2
  <2>3. QED BY <2>1, <2>2
<1>3. attempts' = Append(kept, clock) BY DEF Attempt
<1> HIDE DEF kept
<1>4. /\ attempts' \in Seq(Nat) /\ Len(attempts') = Len(kept) + 1
      /\ attempts'[Len(kept) + 1] = clock
      /\ \A i \in 1..Len(kept) : attempts'[i] = kept[i]
  BY <1>1, <1>2, <1>3
<1>5. \A i \in 1..Len(attempts) : attempts[i] \in Nat BY <1>1
<1>6. Len(kept) \in Nat /\ Len(kept) <= Burst BY <1>1, <1>2
<1>7. Len(attempts') = Len(attempts) - past + 1 /\ Len(attempts') <= Burst + 1
      /\ Len(attempts') = Len(kept) + 1 /\ Len(attempts') - 1 = Len(kept)
  BY <1>1, <1>2, <1>4, <1>6
<1>8. \A i \in 1..(Len(attempts') - 1) :
        attempts'[i] = attempts[i + past] /\ i + past \in 1..Len(attempts)
  BY <1>2, <1>4, <1>7
<1>9. attempts'[Len(attempts')] = clock BY <1>4, <1>7
<1>10. QED BY <1>1, <1>4, <1>5, <1>7, <1>8, <1>9

\* What does not depend on an attempt.
LEMMA NoAttempt ==
  ASSUME LinkInv, UNCHANGED attempts
  PROVE  /\ Spaced' /\ Len(attempts) \in Nat /\ Len(attempts) <= Burst + 1
         /\ \A i \in 1..Len(attempts) : attempts[i] \in Nat
BY DEF LinkInv, LinkTypeOK, Spaced

\* Time only helps.
LEMMA Later ==
  ASSUME NEW a \in Nat, NEW b \in Nat, NEW x \in Nat, a <= b, NEW n \in Nat, n <= Burst, Far(a, x, n),
         delay \in Nat
  PROVE  Far(b, x, n)
<1>1. Times[n + 1] \in Nat /\ Stable \in Nat BY TimesFacts
<1>2. QED BY <1>1 DEF Far

\* While time goes by, a wait that is not over stays ahead of the clock.
LEMMA ElapseKeeps ==
  ASSUME LinkInv, Elapse
  PROVE  LinkInv'
<1>0. LinkTypeOK /\ Burst \in Nat /\ delay \in Nat BY TimesFacts DEF LinkInv, LinkTypeOK
<1>1. /\ clock' = clock + 1
      /\ UNCHANGED <<phase, started, until, delay, failures, mismatch, notified, attempts, rejections>>
  BY DEF Elapse
<1>2. LinkTypeOK' BY <1>0, <1>1 DEF LinkTypeOK
<1>3. Paced'
  <2>1. ASSUME phase \in {"open", "ready"}
        PROVE  /\ Len(attempts) > 0 /\ started = attempts[Len(attempts)] /\ started <= clock'
               /\ \A i \in 1..Len(attempts) : Far(started, attempts[i], Len(attempts) - i)
    BY <1>0, <1>1, <2>1 DEF LinkInv, Paced, LinkTypeOK
  <2>2. ASSUME phase = "due", NEW i \in 1..Len(attempts), Len(attempts) - i < Burst
        PROVE  Far(clock', attempts[i], Len(attempts) - i + 1)
    <3>1. Far(clock, attempts[i], Len(attempts) - i + 1) BY <2>2 DEF LinkInv, Paced
    <3>2. /\ clock \in Nat /\ clock' \in Nat /\ clock <= clock' /\ attempts[i] \in Nat
          /\ Len(attempts) - i + 1 \in Nat /\ Len(attempts) - i + 1 <= Burst
      BY <1>0, <1>1, <2>2, NoAttempt DEF LinkTypeOK
    <3>3. QED BY <1>0, <3>1, <3>2, Later
  <2>3. ASSUME phase = "waiting", NEW i \in 1..Len(attempts), Len(attempts) - i < Burst
        PROVE  Far(until, attempts[i], Len(attempts) - i + 1)
    BY <2>3 DEF LinkInv, Paced
  <2>4. QED BY <1>1, <2>1, <2>2, <2>3 DEF Paced, Far
<1>4. Patient'
  <2>1. Len(rejections) > 0 => rejections[Len(rejections)] \in Nat BY <1>0 DEF LinkTypeOK
  <2>2. TerminalAfter \in Nat /\ TerminalAfter > 0 /\ Long \in Nat /\ Len(rejections) \in Nat
    BY <1>0, TimesFacts DEF LinkTypeOK
  <2>3. clock \in Nat BY <1>0 DEF LinkTypeOK
  <2>4. QED BY <1>1, <2>1, <2>2, <2>3 DEF LinkInv, Patient
<1>5. Spaced' /\ RarelyRejected' BY <1>1 DEF LinkInv, Spaced, RarelyRejected
<1>6. QED BY <1>2, <1>3, <1>4, <1>5 DEF LinkInv

\* An attempt is far enough from every one that is remembered.
LEMMA AttemptKeeps ==
  ASSUME LinkInv, Attempt
  PROVE  LinkInv'
<1> DEFINE last == Len(attempts)
           past == IF last > Burst THEN 1 ELSE 0
           now  == Len(attempts')
<1>0. LinkTypeOK BY DEF LinkInv
<1>1. /\ phase = "due" /\ phase' = "open" /\ started' = clock
      /\ UNCHANGED <<clock, until, delay, failures, mismatch, notified, rejections>>
  BY DEF Attempt
<1>2. /\ attempts' \in Seq(Nat) /\ last \in Nat /\ now = last - past + 1 /\ now <= Burst + 1
      /\ attempts'[now] = clock
      /\ \A i \in 1..(now - 1) : attempts'[i] = attempts[i + past] /\ i + past \in 1..last
      /\ \A i \in 1..last : attempts[i] \in Nat
  BY <1>0, Attempts
<1> HIDE DEF last, now
<1>3. clock \in Nat /\ delay \in Nat /\ delay >= Initial /\ last <= Burst + 1
  BY <1>0 DEF LinkTypeOK, last
<1>4. LinkTypeOK' BY <1>0, <1>1, <1>2 DEF LinkTypeOK, now
<1>5. /\ now \in Nat /\ now > 0 /\ Burst \in Nat /\ Burst > 0 /\ past \in {0, 1}
      /\ past = 0 => last <= Burst
  BY <1>2, <1>3, TimesFacts
<1>6. ASSUME NEW i \in 1..now
      PROVE  Far(clock, attempts'[i], now - i)
  <2>1. CASE i = now
    <3>1. attempts'[i] = clock /\ now - i = 0 BY <1>2, <1>5, <2>1
    <3>2. clock - clock >= Times[0 + 1] /\ delay >= Times[0 + 2] - Times[0 + 1]
      BY <1>3, TimesFacts
    <3>3. QED BY <3>1, <3>2 DEF Far
  <2>2. CASE i # now
    <3>1. i \in 1..(now - 1) BY <1>5, <2>2
    <3>2. attempts'[i] = attempts[i + past] /\ i + past \in 1..last BY <1>2, <3>1
    <3>3. last - (i + past) + 1 = now - i BY <1>2, <1>5, <3>1
    <3>4. last - (i + past) < Burst BY <1>2, <1>3, <1>5, <3>1
    <3>5. Far(clock, attempts[i + past], last - (i + past) + 1)
      BY <1>1, <3>2, <3>4 DEF LinkInv, Paced, last
    <3>6. QED BY <3>2, <3>3, <3>5
  <2>3. QED BY <2>1, <2>2
<1>7. Paced' BY <1>1, <1>2, <1>3, <1>5, <1>6 DEF Paced, now, Far
<1>8. Spaced'
  <2> SUFFICES ASSUME now > Burst PROVE attempts'[Burst + 1] - attempts'[1] >= Stable
    BY DEF Spaced, now
  <2>1. now = Burst + 1 /\ now - 1 = Burst BY <1>2, <1>5
  <2>2. Far(clock, attempts'[1], Burst) BY <1>5, <1>6, <2>1
  <2>3. attempts'[Burst + 1] = clock BY <1>2, <2>1
  <2>4. 1 \in 1..(now - 1) BY <1>5, <2>1
  <2>5. attempts'[1] \in Nat BY <1>2, <2>4
  <2>6. QED BY <1>3, <2>2, <2>3, <2>5, TimesFacts DEF Far
<1>9. Patient' BY <1>1 DEF LinkInv, Patient
<1>10. RarelyRejected' BY <1>1 DEF LinkInv, RarelyRejected
<1>11. QED BY <1>4, <1>7, <1>8, <1>9, <1>10 DEF LinkInv

\* A connection that opens leaves the times of attempts alone.
LEMMA OpenKeeps ==
  ASSUME LinkInv, Mismatch \/ IsReady
  PROVE  LinkInv'
<1>0. LinkTypeOK BY DEF LinkInv
<1>1. /\ phase = "open" /\ phase' \in {"open", "ready"}
      /\ UNCHANGED <<clock, started, until, delay, attempts>>
      /\ \/ phase' = phase /\ UNCHANGED <<failures, rejections>>
         \/ failures' = 0 /\ rejections' = <<>>
  BY DEF Mismatch, IsReady
<1>2. LinkTypeOK'
  <2>1. failures' \in Nat BY <1>0, <1>1 DEF LinkTypeOK
  <2>2. <<>> \in Seq(Nat) OBVIOUS
  <2>3. rejections' \in Seq(Nat) BY <1>0, <1>1, <2>2 DEF LinkTypeOK
  <2>4. QED BY <1>0, <1>1, <2>1, <2>3 DEF LinkTypeOK
<1>3. Paced' BY <1>1 DEF LinkInv, Paced, Far
<1>4. Spaced' BY <1>1 DEF LinkInv, Spaced
<1>5. Patient' /\ RarelyRejected'
  <2>1. CASE phase' = phase /\ UNCHANGED <<failures, rejections>>
    BY <1>1, <2>1 DEF LinkInv, Patient, RarelyRejected
  <2>2. CASE failures' = 0 /\ rejections' = <<>>
    BY <2>2, TimesFacts DEF Patient, RarelyRejected
  <2>3. QED BY <1>1, <2>1, <2>2
<1>6. QED BY <1>2, <1>3, <1>4, <1>5 DEF LinkInv

\* The wait that follows keeps the next attempt far enough from all before.
LEMMA NextWait ==
  ASSUME LinkInv, phase \in {"open", "ready"}, Pause \/ Retry, UNCHANGED <<clock, started, attempts>>,
         phase' = "waiting"
  PROVE  /\ Paced' /\ until' \in Nat /\ until' >= clock /\ delay' \in Nat /\ delay' >= Initial
         /\ Pause => until' = clock + Long
<1> DEFINE last == Len(attempts)
<1>0. LinkTypeOK BY DEF LinkInv
<1>1. /\ clock \in Nat /\ started \in Nat /\ delay \in Nat /\ delay >= Initial
      /\ started <= clock /\ last \in Nat /\ last <= Burst + 1 /\ \A i \in 1..last : attempts[i] \in Nat
  BY <1>0 DEF LinkInv, LinkTypeOK, Paced
<1>2. \A i \in 1..last : Far(started, attempts[i], last - i) BY DEF LinkInv, Paced
<1> HIDE DEF last
<1>3. /\ NextDelay \in Nat /\ NextDelay >= Initial
      /\ clock - started < Stable => NextDelay = delay
  BY <1>1, TimesFacts DEF NextDelay
<1>4. CASE Pause
  <2>1. until' = clock + Long /\ delay' = Initial BY <1>4 DEF Pause
  <2>2. ASSUME NEW i \in 1..last PROVE until' - attempts[i] >= Stable
    <3>1. started - attempts[i] >= 0
      <4>1. last - i + 1 \in 1..(Burst + 1) BY <1>1, TimesFacts
      <4>2. Times[last - i + 1] \in Nat /\ Stable \in Nat BY <4>1, TimesFacts
      <4>3. attempts[i] \in Nat BY <1>1
      <4>4. QED BY <1>1, <1>2, <4>2, <4>3 DEF Far
    <3>2. QED BY <1>1, <2>1, <3>1, TimesFacts
  <2>3. Paced' BY <2>2 DEF Paced, Far, last
  <2>4. QED BY <1>1, <2>1, <2>3, TimesFacts
<1>5. CASE Retry
  <2>1. until' = clock + NextDelay /\ delay' = Smaller(2 * NextDelay, Cap) BY <1>5 DEF Retry
  <2>2. delay' \in Nat /\ delay' >= Initial BY <1>3, <2>1, TimesFacts DEF Smaller
  <2>3. ASSUME NEW i \in 1..last, last - i < Burst
        PROVE  \/ until' - attempts[i] >= Stable
               \/ /\ until' - attempts[i] >= Times[last - i + 2]
                  /\ last - i + 1 < Burst => delay' >= Times[last - i + 3] - Times[last - i + 2]
    <3> DEFINE n == last - i
    <3>1. /\ n \in Nat /\ n < Burst /\ Times[n + 1] \in Nat /\ Times[n + 2] \in Nat
          /\ n + 1 < Burst => /\ Times[n + 3] \in Nat
                              /\ Times[n + 3] = Times[n + 2] + Smaller(2 * (Times[n + 2] - Times[n + 1]), Cap)
      <4>1. n \in Nat /\ n < Burst /\ Burst \in Nat BY <1>1, <2>3, TimesFacts
      <4> HIDE DEF n
      <4>2. n + 1 \in 1..(Burst + 1) /\ n + 2 \in 1..(Burst + 1) BY <4>1
      <4>3. ASSUME n + 1 < Burst
            PROVE  /\ Times[n + 3] \in Nat
                   /\ Times[n + 3] = Times[n + 2] + Smaller(2 * (Times[n + 2] - Times[n + 1]), Cap)
        <5>1. n + 2 \in 2..Burst /\ n + 3 \in 1..(Burst + 1) BY <4>1, <4>3
        <5>2. (n + 2) + 1 = n + 3 /\ (n + 2) - 1 = n + 1 BY <4>1
        <5>3. QED BY <5>1, <5>2, TimesFacts
      <4>4. QED BY <4>1, <4>2, <4>3, TimesFacts
    <3>2. attempts[i] \in Nat BY <1>1
    <3>3. Far(started, attempts[i], n) BY <1>2
    <3>4. last - i + 2 = n + 2 /\ last - i + 3 = n + 3 /\ last - i + 1 = n + 1 BY <1>1
    <3> HIDE DEF n
    <3>5. CASE started - attempts[i] >= Stable BY <1>1, <1>3, <2>1, <3>2, <3>5, TimesFacts
    <3>6. CASE started - attempts[i] >= Times[n + 1] /\ delay >= Times[n + 2] - Times[n + 1]
      <4>1. CASE clock - started >= Stable
        <5>1. NextDelay \in Nat BY <1>3, <4>1, TimesFacts
        <5>2. /\ clock \in Int /\ started \in Int /\ attempts[i] \in Int /\ Stable \in Int
              /\ Times[n + 1] \in Nat
          BY <1>1, <3>1, <3>2, TimesFacts
        <5>3. started - attempts[i] >= 0 BY <3>6, <5>2
        <5>4. until' = clock + NextDelay BY <2>1
        <5>5. until' - attempts[i] >= Stable BY <4>1, <5>1, <5>2, <5>3, <5>4
        <5>6. QED BY <5>5
      <4>2. CASE clock - started < Stable
        <5>1. NextDelay = delay BY <1>3, <4>2
        <5>2. until' - attempts[i] >= Times[n + 2]
          BY <1>1, <2>1, <3>1, <3>2, <3>6, <5>1
        <5>3. ASSUME n + 1 < Burst PROVE delay' >= Times[n + 3] - Times[n + 2]
          <6>0. Smaller(2 * (Times[n + 2] - Times[n + 1]), Cap) \in Int
            BY <3>1, TimesFacts DEF Smaller
          <6>1. Times[n + 3] - Times[n + 2] = Smaller(2 * (Times[n + 2] - Times[n + 1]), Cap)
            BY <3>1, <5>3, <6>0
          <6>2. QED BY <1>1, <2>1, <3>1, <3>6, <5>1, <6>1, TimesFacts DEF Smaller
        <5>4. QED BY <3>4, <5>2, <5>3
      <4>3. QED BY <1>1, <4>1, <4>2, TimesFacts
    <3>7. QED BY <3>1, <3>3, <3>5, <3>6 DEF Far
  <2>4. Paced'
    <3>1. ASSUME NEW i \in 1..last
          PROVE  (last - i + 1) + 1 = last - i + 2 /\ (last - i + 1) + 2 = last - i + 3
      BY <1>1
    <3>2. QED BY <2>3, <3>1 DEF Paced, Far, last
  <2>5. Pause => until' = clock + Long BY DEF Pause
  <2>6. QED BY <1>1, <1>3, <2>1, <2>2, <2>4, <2>5
<1>6. QED BY <1>4, <1>5

\* A connection that ends is followed by a wait.
LEMMA LinkEndsKeeps ==
  ASSUME LinkInv, LinkEnds
  PROVE  LinkInv'
<1>0. LinkTypeOK BY DEF LinkInv
<1>1. /\ phase \in {"open", "ready"} /\ phase' = "waiting" /\ (Pause \/ Retry)
      /\ UNCHANGED <<clock, started, failures, attempts, rejections>>
  BY DEF LinkEnds
<1>2. Paced' /\ until' \in Nat /\ until' >= clock /\ delay' \in Nat /\ delay' >= Initial
  BY <1>1, NextWait
<1>3. LinkTypeOK' BY <1>0, <1>1, <1>2 DEF LinkTypeOK
<1>4. Patient'
  <2> DEFINE n == Len(rejections)
  <2>1. /\ n \in Nat /\ clock \in Nat /\ TerminalAfter \in Nat /\ TerminalAfter > 0 /\ Long \in Nat
        /\ n > 0 => rejections[n] \in Nat
    BY <1>0, TimesFacts DEF LinkTypeOK
  <2>2. n >= TerminalAfter => phase = "open" BY <1>1, <2>1 DEF LinkInv, Patient
  <2>3. n >= TerminalAfter => clock - rejections[n] >= Long BY <2>2 DEF LinkInv, Patient
  <2>4. n >= TerminalAfter => until' - rejections[n] >= Long BY <1>2, <2>1, <2>3
  <2>5. QED BY <1>1, <2>4 DEF LinkInv, Patient
<1>5. Spaced' /\ RarelyRejected' BY <1>1 DEF LinkInv, Spaced, RarelyRejected
<1>6. QED BY <1>2, <1>3, <1>4, <1>5 DEF LinkInv

\* A rejection is remembered, and followed by a wait; a long one at the limit.
LEMMA RejectedKeeps ==
  ASSUME LinkInv, Rejected
  PROVE  LinkInv'
<1> DEFINE n == Len(rejections)
<1>0. LinkTypeOK BY DEF LinkInv
<1>1. /\ phase = "open" /\ phase' = "waiting" /\ (Pause \/ Retry)
      /\ failures' = failures + 1 /\ (failures + 1 >= TerminalAfter => Pause)
      /\ rejections' = Append(rejections, clock)
      /\ UNCHANGED <<clock, started, mismatch, attempts>>
  BY DEF Rejected, Counted
<1>2. /\ Paced' /\ until' \in Nat /\ until' >= clock /\ delay' \in Nat /\ delay' >= Initial
      /\ Pause => until' = clock + Long
  BY <1>1, NextWait
<1>3. /\ n \in Nat /\ clock \in Nat /\ TerminalAfter \in Nat /\ Long \in Nat
      /\ rejections \in Seq(Nat) /\ failures = n
  BY <1>0, TimesFacts DEF LinkTypeOK, LinkInv, Patient
<1>4. /\ rejections' \in Seq(Nat) /\ Len(rejections') = n + 1 /\ rejections'[n + 1] = clock
      /\ \A i \in 1..n : rejections'[i] = rejections[i] /\ rejections[i] \in Nat
  BY <1>1, <1>3
<1> HIDE DEF n
<1>5. LinkTypeOK' BY <1>0, <1>1, <1>2, <1>3, <1>4 DEF LinkTypeOK
<1>6. Patient'
  <2>1. failures' = n + 1 BY <1>1, <1>3
  <2>2. n + 1 >= TerminalAfter => until' - clock >= Long BY <1>1, <1>2, <1>3
  <2>3. QED BY <1>1, <1>4, <2>1, <2>2 DEF Patient
<1>7. RarelyRejected'
  <2> SUFFICES ASSUME NEW i \in 1..(n + 1), i >= TerminalAfter, i < n + 1
               PROVE  rejections'[i + 1] - rejections'[i] >= Long
    BY <1>3, <1>4 DEF RarelyRejected
  <2>1. i \in 1..n /\ i \in DOMAIN rejections BY <1>3 DEF n
  <2>2. CASE i = n
    <3>1. n >= TerminalAfter BY <2>2
    <3>2. clock - rejections[n] >= Long BY <1>1, <3>1 DEF LinkInv, Patient, n
    <3>3. QED BY <1>4, <2>1, <2>2, <3>2
  <2>3. CASE i < n
    <3>1. rejections[i + 1] - rejections[i] >= Long BY <2>1, <2>3 DEF LinkInv, RarelyRejected, n
    <3>2. i + 1 \in 1..n BY <1>3, <2>1, <2>3
    <3>3. QED BY <1>4, <2>1, <3>1, <3>2
  <2>4. QED BY <1>3, <2>1, <2>2, <2>3
<1>8. Spaced' BY <1>1 DEF LinkInv, Spaced
<1>9. QED BY <1>2, <1>5, <1>6, <1>7, <1>8 DEF LinkInv

\* A wait that is over leaves the next attempt due, no earlier than the wait allows.
LEMMA WaitOverKeeps ==
  ASSUME LinkInv, WaitOver
  PROVE  LinkInv'
<1>0. LinkTypeOK BY DEF LinkInv
<1>1. /\ phase = "waiting" /\ phase' = "due" /\ until <= clock
      /\ UNCHANGED <<clock, started, until, delay, failures, mismatch, notified, attempts, rejections>>
  BY <1>0 DEF WaitOver, LinkTypeOK
<1>2. LinkTypeOK' BY <1>0, <1>1 DEF LinkTypeOK
<1>3. Paced'
  <2>1. ASSUME NEW i \in 1..Len(attempts), Len(attempts) - i < Burst
        PROVE  Far(clock, attempts[i], Len(attempts) - i + 1)
    <3>1. Far(until, attempts[i], Len(attempts) - i + 1) BY <1>1, <2>1 DEF LinkInv, Paced
    <3>2. /\ clock \in Nat /\ until \in Nat /\ attempts[i] \in Nat /\ delay \in Nat
          /\ Len(attempts) - i + 1 \in Nat /\ Len(attempts) - i + 1 <= Burst
      BY <1>0, <1>1, <2>1, NoAttempt, TimesFacts DEF LinkTypeOK
    <3>3. QED BY <1>1, <3>1, <3>2, Later
  <2>2. QED BY <1>1, <2>1 DEF Paced, Far
<1>4. Patient'
  <2>1. /\ clock \in Nat /\ until \in Nat /\ Long \in Nat /\ TerminalAfter \in Nat /\ TerminalAfter > 0
        /\ Len(rejections) \in Nat /\ (Len(rejections) > 0 => rejections[Len(rejections)] \in Nat)
    BY <1>0, TimesFacts DEF LinkTypeOK
  <2>2. QED BY <1>1, <2>1 DEF LinkInv, Patient
<1>5. Spaced' /\ RarelyRejected' BY <1>1 DEF LinkInv, Spaced, RarelyRejected
<1>6. QED BY <1>2, <1>3, <1>4, <1>5 DEF LinkInv

\* A stop is the end of all attempts.
LEMMA StopLinkKeeps ==
  ASSUME LinkInv, StopLink \/ UNCHANGED lvars
  PROVE  LinkInv'
<1>1. /\ phase' \in {phase, "stopped"}
      /\ UNCHANGED <<clock, started, until, delay, failures, mismatch, notified, attempts, rejections>>
  BY DEF StopLink, lvars
<1>2. LinkTypeOK' BY <1>1 DEF LinkInv, LinkTypeOK
<1>3. Paced' BY <1>1 DEF LinkInv, Paced, Far
<1>4. Patient' BY <1>1 DEF LinkInv, Patient
<1>5. Spaced' /\ RarelyRejected' BY <1>1 DEF LinkInv, Spaced, RarelyRejected
<1>6. QED BY <1>2, <1>3, <1>4, <1>5 DEF LinkInv

\* LinkInv is inductive.
THEOREM LinkInductive == LinkSpec => []LinkInv
<1>1. LinkInit => LinkInv
  <2> SUFFICES ASSUME LinkInit PROVE LinkInv OBVIOUS
  <2>1. /\ phase = "due" /\ clock = 0 /\ started = 0 /\ until = 0 /\ delay = Initial
        /\ failures = 0 /\ attempts = <<>> /\ rejections = <<>>
    BY DEF LinkInit
  <2>2. LinkTypeOK BY <2>1, TimesFacts DEF LinkTypeOK
  <2>3. Paced BY <2>1 DEF Paced
  <2>4. Patient BY <2>1, TimesFacts DEF Patient
  <2>5. Spaced /\ RarelyRejected BY <2>1, TimesFacts DEF Spaced, RarelyRejected
  <2>6. QED BY <2>2, <2>3, <2>4, <2>5 DEF LinkInv
<1>2. LinkInv /\ [LinkNext]_lvars => LinkInv'
  BY ElapseKeeps, AttemptKeeps, OpenKeeps, LinkEndsKeeps, RejectedKeeps, WaitOverKeeps, StopLinkKeeps
     DEF LinkNext
<1> QED BY <1>1, <1>2, PTL DEF LinkSpec

\* The bridge is not hammered, whatever makes connections end.
THEOREM BridgeSpared == LinkSpec => []NotHammered
<1>1. LinkInv => NotHammered BY DEF LinkInv, NotHammered
<1> QED BY <1>1, LinkInductive, PTL

-----------------------------------------------------------------------------
(* The WebRTC connections. *)

PeersTypeOK ==
  /\ \E n \in 0..MaxPeers : Made = 1..n
  /\ of \in [Made -> Sessions]
  /\ pc \in [Pcs -> {"live", "closing", "closed"}]
  /\ channel \in [Pcs -> {"none", "open", "closed"}]
  /\ answer \in [Pcs -> {"none", "replacing", "negotiating", "over"}]
  /\ \A i \in Pcs \ Made : channel[i] = "none" /\ answer[i] = "none"
  /\ before \in [Pcs -> Pcs \cup {0}]
  /\ peers \in [Sessions -> Made \cup {0}] /\ channels \in [Sessions -> Made \cup {0}]
  /\ gone \subseteq Sessions /\ ending \subseteq Made /\ overlapped \subseteq Sessions
  /\ loop \in {<<"idle">>} \cup ({"answering", "closing"} \X Pcs)

\* What is in _peers runs, for that session, and create_answer has stored it.
Owned ==
  \A s \in Sessions : peers[s] # 0 =>
    /\ of[peers[s]] = s /\ pc[peers[s]] = "live"
    /\ answer[peers[s]] # "replacing" /\ peers[s] \notin ending

\* While create_answer waits for the earlier connection's end, the new one is not
\* bound to anything that could end it; and unless another offer or the end of
\* the session overlaps with that, the session has no other peer.
Alone(i) ==
  /\ peers[of[i]] = 0 /\ of[i] \notin gone
  /\ \A j \in Made : (of[j] = of[i] /\ answer[j] = "replacing") => j = i

Held ==
  \A i \in Made : answer[i] = "replacing" =>
    /\ pc[i] = "live" /\ channel[i] = "none" /\ i \notin ending
    /\ of[i] \notin overlapped => Alone(i)

Unended == stop = "no" => ending = {}

PeersInv == PeersTypeOK /\ Owned /\ Held /\ Unended /\ NoneLeftBehind /\ ChannelKept

\* The connections made so far are the first ones; a fresh one is not among them.
LEMMA MadeFacts ==
  ASSUME PeersTypeOK
  PROVE  /\ Made \subseteq Pcs /\ 0 \notin Made
         /\ Fresh \in Pcs => Fresh \notin Made /\ \E n \in 0..MaxPeers : Made \cup {Fresh} = 1..n
<1>1. PICK n \in 0..MaxPeers : Made = 1..n BY DEF PeersTypeOK
<1>2. n \in Nat /\ MaxPeers \in Nat BY PeersAssumption
<1>3. Cardinality(1..n) = n BY <1>2, FS_Interval
<1>4. Fresh = n + 1 BY <1>1, <1>3 DEF Fresh
<1>5. Made \subseteq Pcs /\ 0 \notin Made BY <1>1, <1>2 DEF Pcs
<1>6. ASSUME Fresh \in Pcs
      PROVE  Fresh \notin Made /\ \E m \in 0..MaxPeers : Made \cup {Fresh} = 1..m
  <2>1. n + 1 \in 0..MaxPeers BY <1>2, <1>4, <1>6 DEF Pcs
  <2>2. (1..n) \cup {n + 1} = 1..(n + 1) BY <1>2
  <2>3. n + 1 \notin 1..n BY <1>2
  <2>4. QED BY <1>1, <1>4, <2>1, <2>2, <2>3
<1>7. QED BY <1>5, <1>6

\* An offer makes a connection.
LEMMA OfferTyped ==
  ASSUME PeersTypeOK, NEW s \in Sessions, Offer(s)
  PROVE  /\ PeersTypeOK'
         /\ Fresh \in Pcs \ Made /\ Fresh # 0 /\ Made' = Made \cup {Fresh}
         /\ of'[Fresh] = s /\ \A i \in Made : of'[i] = of[i]
         /\ pc'[Fresh] = "live" /\ channel'[Fresh] = "none"
         /\ \A i \in Made : pc'[i] = IF i = peers[s] THEN "closing" ELSE pc[i]
         /\ answer'[Fresh] = IF peers[s] = 0 THEN "negotiating" ELSE "replacing"
         /\ \A i \in Made : answer'[i] = answer[i]
         /\ peers'[s] = IF peers[s] = 0 THEN Fresh ELSE 0
         /\ \A t \in Sessions \ {s} : peers'[t] = peers[t]
<1>1. Fresh \in Pcs BY DEF Offer
<1>2. /\ Fresh \notin Made /\ Made \subseteq Pcs /\ 0 \notin Made
      /\ \E n \in 0..MaxPeers : Made \cup {Fresh} = 1..n
  BY <1>1, MadeFacts
<1>3. Fresh # 0 BY <1>1 DEF Pcs
<1>4. /\ Made' = Made \cup {Fresh} /\ of'[Fresh] = s
      /\ \A i \in Made : of'[i] = of[i]
      /\ of' \in [Made' -> Sessions]
  BY <1>2 DEF Offer, Made, PeersTypeOK
<1>5. peers[s] \in Made \cup {0} /\ peers[s] # Fresh BY <1>2, <1>3 DEF PeersTypeOK
<1>6. /\ pc' \in [Pcs -> {"live", "closing", "closed"}] /\ pc'[Fresh] = "live"
      /\ \A i \in Made : pc'[i] = IF i = peers[s] THEN "closing" ELSE pc[i]
  <2>1. \A i \in Pcs : pc[i] \in {"live", "closing", "closed"} BY DEF PeersTypeOK
  <2>2. pc' = [i \in Pcs |-> CASE i = Fresh -> "live" [] i = peers[s] -> "closing" [] OTHER -> pc[i]]
    BY DEF Offer
  <2>3. QED BY <1>1, <1>2, <1>5, <2>1, <2>2
<1>7. /\ answer' \in [Pcs -> {"none", "replacing", "negotiating", "over"}]
      /\ answer'[Fresh] = IF peers[s] = 0 THEN "negotiating" ELSE "replacing"
      /\ \A i \in Pcs \ {Fresh} : answer'[i] = answer[i]
  BY <1>1 DEF Offer, PeersTypeOK
<1>8. UNCHANGED <<channel, channels, gone, stop, ending>> BY DEF Offer
<1>9. /\ peers'[s] = IF peers[s] = 0 THEN Fresh ELSE 0
      /\ \A t \in Sessions \ {s} : peers'[t] = peers[t]
      /\ peers' \in [Sessions -> Made' \cup {0}]
  <2>1. peers' = [peers EXCEPT ![s] = IF peers[s] = 0 THEN Fresh ELSE 0] BY DEF Offer
  <2>2. peers \in [Sessions -> Made' \cup {0}] BY <1>4 DEF PeersTypeOK
  <2>3. QED BY <1>4, <2>1, <2>2
<1>10. /\ before' \in [Pcs -> Pcs \cup {0}] /\ overlapped' \subseteq Sessions
       /\ loop' \in {<<"idle">>} \cup ({"answering", "closing"} \X Pcs)
  <2>1. before' = [before EXCEPT ![Fresh] = peers[s]] /\ peers[s] \in Pcs \cup {0}
    BY <1>2, <1>5 DEF Offer
  <2>2. loop' = loop \/ loop' = <<"answering", Fresh>> BY DEF Offer
  <2>3. QED BY <1>1, <2>1, <2>2 DEF Offer, Overlap, PeersTypeOK
<1>11. channel[Fresh] = "none" BY <1>1, <1>2 DEF PeersTypeOK
<1>12. PeersTypeOK'
  <2>1. \A i \in Pcs \ Made' : channel'[i] = "none" /\ answer'[i] = "none"
    BY <1>4, <1>7, <1>8 DEF PeersTypeOK
  <2>2. /\ channels' \in [Sessions -> Made' \cup {0}] /\ ending' \subseteq Made'
        /\ \E n \in 0..MaxPeers : Made' = 1..n
        /\ gone' \subseteq Sessions /\ channel' \in [Pcs -> {"none", "open", "closed"}]
    BY <1>2, <1>4, <1>8 DEF PeersTypeOK
  <2>3. QED BY <1>4, <1>6, <1>7, <1>9, <1>10, <2>1, <2>2 DEF PeersTypeOK
<1>13. QED BY <1>1, <1>2, <1>3, <1>4, <1>6, <1>7, <1>8, <1>9, <1>11, <1>12

\* The earlier connection of the session is closed first.
LEMMA OfferKeeps ==
  ASSUME PeersInv, NEW s \in Sessions, Offer(s)
  PROVE  PeersInv'
<1>0. PeersTypeOK /\ Made \subseteq Pcs /\ 0 \notin Made BY MadeFacts DEF PeersInv
<1>1. /\ PeersTypeOK'
      /\ Fresh \in Pcs \ Made /\ Fresh # 0 /\ Made' = Made \cup {Fresh}
      /\ of'[Fresh] = s /\ \A i \in Made : of'[i] = of[i]
      /\ pc'[Fresh] = "live" /\ channel'[Fresh] = "none"
      /\ \A i \in Made : pc'[i] = IF i = peers[s] THEN "closing" ELSE pc[i]
      /\ answer'[Fresh] = IF peers[s] = 0 THEN "negotiating" ELSE "replacing"
      /\ \A i \in Made : answer'[i] = answer[i]
      /\ peers'[s] = IF peers[s] = 0 THEN Fresh ELSE 0
      /\ \A t \in Sessions \ {s} : peers'[t] = peers[t]
  BY <1>0, OfferTyped
<1>2. UNCHANGED <<channel, channels, gone, stop, ending>> BY DEF Offer
<1>3. /\ \A i \in Made : of[i] \in Sessions
      /\ \A t \in Sessions : peers[t] \in Made \cup {0}
      /\ ending \subseteq Made
  BY <1>0 DEF PeersTypeOK
<1>4. /\ \A t \in Sessions : t \notin overlapped' => t \notin overlapped
      /\ s \notin overlapped' => ~Replacing(s) /\ s \notin gone
  BY DEF Offer, Overlap
<1>5. Owned'
  <2> SUFFICES ASSUME NEW t \in Sessions, peers'[t] # 0
               PROVE  /\ of'[peers'[t]] = t /\ pc'[peers'[t]] = "live"
                      /\ answer'[peers'[t]] # "replacing" /\ peers'[t] \notin ending
    BY <1>2 DEF Owned
  <2>1. CASE t = s BY <1>1, <1>3, <2>1
  <2>2. CASE t # s
    <3>1. peers'[t] = peers[t] /\ peers[t] \in Made BY <1>1, <1>3, <2>2
    <3>2. /\ of[peers[t]] = t /\ pc[peers[t]] = "live"
          /\ answer[peers[t]] # "replacing" /\ peers[t] \notin ending
      BY <3>1 DEF PeersInv, Owned
    <3>3. peers[t] # peers[s] BY <2>2, <3>1, <3>2 DEF PeersInv, Owned
    <3>4. QED BY <1>1, <3>1, <3>2, <3>3
  <2>3. QED BY <2>1, <2>2
<1>6. Held'
  <2> SUFFICES ASSUME NEW i \in Made', answer'[i] = "replacing"
               PROVE  /\ pc'[i] = "live" /\ channel'[i] = "none" /\ i \notin ending
                      /\ of'[i] \notin overlapped' => Alone(i)'
    BY <1>2 DEF Held
  <2>1. CASE i = Fresh
    <3>1. peers'[s] = 0 BY <1>1, <2>1
    <3>2. ASSUME s \notin overlapped' PROVE Alone(i)'
      <4>1. s \notin gone /\ \A j \in Made : ~(of[j] = s /\ answer[j] = "replacing")
        BY <1>4, <3>2 DEF Replacing
      <4>2. \A j \in Made' : (of'[j] = s /\ answer'[j] = "replacing") => j = i
        BY <1>1, <2>1, <4>1
      <4>3. QED BY <1>1, <1>2, <2>1, <3>1, <4>1, <4>2 DEF Alone
    <3>3. QED BY <1>1, <1>3, <2>1, <3>2
  <2>2. CASE i \in Made
    <3>1. /\ answer[i] = "replacing" /\ pc[i] = "live" /\ channel[i] = "none" /\ i \notin ending
          /\ of[i] \notin overlapped => Alone(i)
      BY <1>1, <2>2 DEF PeersInv, Held
    <3>2. i # peers[s] BY <1>0, <2>2, <3>1 DEF PeersInv, Owned
    <3>3. ASSUME of'[i] \notin overlapped' PROVE Alone(i)'
      <4>1. of[i] \in Sessions /\ of'[i] = of[i] /\ of[i] \notin overlapped
        BY <1>1, <1>3, <1>4, <2>2, <3>3
      <4>2. of[i] # s BY <1>4, <2>2, <3>1, <3>3, <4>1 DEF Replacing
      <4>3. peers'[of[i]] = 0 /\ of[i] \notin gone BY <1>1, <3>1, <4>1, <4>2 DEF Alone
      <4>4. \A j \in Made' : (of'[j] = of[i] /\ answer'[j] = "replacing") => j = i
        BY <1>1, <3>1, <4>1, <4>2 DEF Alone
      <4>5. QED BY <1>2, <4>1, <4>3, <4>4 DEF Alone
    <3>4. QED BY <1>1, <1>2, <2>2, <3>1, <3>2, <3>3
  <2>3. QED BY <1>1, <2>1, <2>2
<1>7. Unended' BY <1>2 DEF PeersInv, Unended
<1>8. NoneLeftBehind'
  <2> SUFFICES ASSUME NEW i \in Made', pc'[i] = "live", of'[i] \notin overlapped'
               PROVE  \/ peers'[of'[i]] = i /\ of'[i] \notin gone
                      \/ answer'[i] = "replacing"
                      \/ i \in ending
    BY <1>2 DEF NoneLeftBehind
  <2>1. CASE i = Fresh BY <1>1, <1>4, <2>1
  <2>2. CASE i \in Made
    <3>1. i # peers[s] /\ pc[i] = "live" /\ of[i] \in Sessions /\ of[i] \notin overlapped
      BY <1>1, <1>3, <1>4, <2>2
    <3>2. \/ peers[of[i]] = i /\ of[i] \notin gone
          \/ answer[i] = "replacing"
          \/ i \in ending
      BY <2>2, <3>1 DEF PeersInv, NoneLeftBehind
    <3>3. QED BY <1>1, <2>2, <3>1, <3>2
  <2>3. QED BY <1>1, <2>1, <2>2
<1>9. ChannelKept'
  <2> SUFFICES ASSUME NEW i \in Made', stop' = "no", of'[i] \notin overlapped',
                      peers'[of'[i]] = i, channel'[i] = "open"
               PROVE  channels'[of'[i]] = i
    BY DEF ChannelKept
  <2>1. i \in Made /\ of'[i] = of[i] /\ channel[i] = "open" /\ i # 0 /\ of[i] \in Sessions
    BY <1>0, <1>1, <1>2, <1>3
  <2>2. of[i] # s BY <1>1, <2>1
  <2>3. peers[of[i]] = i /\ of[i] \notin overlapped BY <1>1, <1>4, <2>1, <2>2
  <2>4. QED BY <1>2, <2>1, <2>3 DEF PeersInv, ChannelKept
<1>10. QED BY <1>1, <1>5, <1>6, <1>7, <1>8, <1>9 DEF PeersInv

\* The earlier connection is closed; the new one takes its place.
LEMMA ReplacedKeeps ==
  ASSUME PeersInv, NEW i \in Pcs, Replaced(i)
  PROVE  PeersInv'
<1>0. PeersTypeOK BY DEF PeersInv
<1>1. i \in Made /\ i # 0 /\ answer[i] = "replacing" /\ of[i] \in Sessions
  BY <1>0, MadeFacts DEF Replaced, PeersTypeOK
<1>2. /\ peers' = [peers EXCEPT ![of[i]] = i] /\ answer' = [answer EXCEPT ![i] = "negotiating"]
      /\ UNCHANGED <<of, pc, channel, before, channels, gone, loop, stop, ending, overlapped>>
      /\ Made' = Made
  BY DEF Replaced, Made
<1>3. /\ answer'[i] = "negotiating" /\ \A j \in Pcs \ {i} : answer'[j] = answer[j]
      /\ peers'[of[i]] = i /\ \A t \in Sessions \ {of[i]} : peers'[t] = peers[t]
  BY <1>0, <1>1, <1>2 DEF PeersTypeOK
<1>4. PeersTypeOK'
  <2>1. /\ answer' \in [Pcs -> {"none", "replacing", "negotiating", "over"}]
        /\ peers' \in [Sessions -> Made \cup {0}]
    BY <1>0, <1>1, <1>2 DEF PeersTypeOK
  <2>2. \A j \in Pcs \ Made : channel[j] = "none" /\ answer'[j] = "none"
    BY <1>0, <1>1, <1>3 DEF PeersTypeOK
  <2>3. QED BY <1>0, <1>2, <2>1, <2>2 DEF PeersTypeOK
<1>5. pc[i] = "live" /\ channel[i] = "none" /\ i \notin ending
  BY <1>1 DEF PeersInv, Held
<1>6. of[i] \notin overlapped => Alone(i) BY <1>1 DEF PeersInv, Held
<1>7. \A j \in Made : of[j] \in Sessions /\ j \in Pcs BY <1>0, MadeFacts DEF PeersTypeOK
<1>8. Owned'
  <2> SUFFICES ASSUME NEW t \in Sessions, peers'[t] # 0
               PROVE  /\ of[peers'[t]] = t /\ pc[peers'[t]] = "live"
                      /\ answer'[peers'[t]] # "replacing" /\ peers'[t] \notin ending
    BY <1>2 DEF Owned
  <2>1. CASE t = of[i] BY <1>3, <1>5, <2>1
  <2>2. CASE t # of[i]
    <3>1. peers'[t] = peers[t] /\ peers[t] \in Pcs BY <1>0, <1>3, <1>7, <2>2 DEF PeersTypeOK
    <3>2. QED BY <1>3, <3>1 DEF PeersInv, Owned
  <2>3. QED BY <2>1, <2>2
<1>9. Held'
  <2> SUFFICES ASSUME NEW j \in Made, answer'[j] = "replacing"
               PROVE  /\ pc[j] = "live" /\ channel[j] = "none" /\ j \notin ending
                      /\ of[j] \notin overlapped => Alone(j)'
    BY <1>2 DEF Held
  <2>1. j # i /\ answer[j] = "replacing" BY <1>3, <1>7
  <2>2. /\ pc[j] = "live" /\ channel[j] = "none" /\ j \notin ending
        /\ of[j] \notin overlapped => Alone(j)
    BY <2>1 DEF PeersInv, Held
  <2>3. ASSUME of[j] \notin overlapped PROVE Alone(j)'
    <3>1. of[j] # of[i] BY <1>1, <2>1, <2>2, <2>3 DEF Alone
    <3>2. peers'[of[j]] = 0 /\ of[j] \notin gone BY <1>3, <1>7, <2>2, <2>3, <3>1 DEF Alone
    <3>3. \A k \in Made : (of[k] = of[j] /\ answer'[k] = "replacing") => k = j
      BY <1>3, <1>7, <2>2, <2>3 DEF Alone
    <3>4. QED BY <1>2, <3>2, <3>3 DEF Alone
  <2>4. QED BY <2>2, <2>3
<1>10. Unended' BY <1>2 DEF PeersInv, Unended
<1>11. NoneLeftBehind'
  <2> SUFFICES ASSUME NEW j \in Made, pc[j] = "live", of[j] \notin overlapped
               PROVE  \/ peers'[of[j]] = j /\ of[j] \notin gone
                      \/ answer'[j] = "replacing"
                      \/ j \in ending
    BY <1>2 DEF NoneLeftBehind
  <2>1. CASE j = i BY <1>3, <1>6, <2>1 DEF Alone
  <2>2. CASE j # i
    <3>1. \/ peers[of[j]] = j /\ of[j] \notin gone
          \/ answer[j] = "replacing"
          \/ j \in ending
      BY DEF PeersInv, NoneLeftBehind
    <3>2. j # 0 BY <1>0, MadeFacts
    <3>3. peers[of[j]] = j => of[j] # of[i] BY <1>6, <3>2 DEF Alone
    <3>4. QED BY <1>3, <1>7, <2>2, <3>1, <3>3
  <2>3. QED BY <2>1, <2>2
<1>12. ChannelKept'
  <2> SUFFICES ASSUME NEW j \in Made, stop = "no", of[j] \notin overlapped,
                      peers'[of[j]] = j, channel[j] = "open"
               PROVE  channels[of[j]] = j
    BY <1>2 DEF ChannelKept
  <2>1. j # i BY <1>5
  <2>2. of[j] # of[i] BY <1>3, <2>1
  <2>3. peers[of[j]] = j BY <1>3, <1>7, <2>2
  <2>4. QED BY <2>3 DEF PeersInv, ChannelKept
<1>13. QED BY <1>4, <1>8, <1>9, <1>10, <1>11, <1>12 DEF PeersInv

\* Nothing but the loop and the end of a negotiation, or of a stop.
LEMMA PeersStay ==
  ASSUME PeersInv,
         UNCHANGED <<of, pc, channel, before, peers, channels, gone, ending, overlapped>>,
         answer' = answer
           \/ \E i \in Made : answer[i] # "replacing" /\ answer' = [answer EXCEPT ![i] = "over"],
         loop' \in {loop, <<"idle">>}, stop' = "no" => stop = "no"
  PROVE  PeersInv'
<1>0. PeersTypeOK /\ Made \subseteq Pcs BY MadeFacts DEF PeersInv
<1>1. Made' = Made BY DEF Made
<1>2. /\ answer' \in [Pcs -> {"none", "replacing", "negotiating", "over"}]
      /\ \A i \in Pcs \ Made : answer'[i] = answer[i]
      /\ \A i \in Made : answer'[i] = "replacing" <=> answer[i] = "replacing"
  BY <1>0 DEF PeersTypeOK
<1>3. PeersTypeOK' BY <1>0, <1>1, <1>2 DEF PeersTypeOK
<1>4. Owned'
  <2> SUFFICES ASSUME NEW s \in Sessions, peers[s] # 0
               PROVE  /\ of[peers[s]] = s /\ pc[peers[s]] = "live"
                      /\ answer'[peers[s]] # "replacing" /\ peers[s] \notin ending
    BY DEF Owned
  <2>1. peers[s] \in Made BY <1>0 DEF PeersTypeOK
  <2>2. QED BY <1>2, <2>1 DEF PeersInv, Owned
<1>5. Held'
  <2>1. \A i \in Made : Alone(i) => Alone(i)' BY <1>1, <1>2 DEF Alone
  <2>2. QED BY <1>1, <1>2, <2>1 DEF PeersInv, Held
<1>6. Unended' BY DEF PeersInv, Unended
<1>7. NoneLeftBehind' BY <1>1, <1>2 DEF PeersInv, NoneLeftBehind
<1>8. ChannelKept' BY <1>1 DEF PeersInv, ChannelKept
<1>9. QED BY <1>3, <1>4, <1>5, <1>6, <1>7, <1>8 DEF PeersInv

LEMMA LoopGoesOn ==
  ASSUME PeersInv,
         (\E i \in Pcs : Negotiated(i)) \/ ClosedForIt \/ Stopped \/ UNCHANGED pcvars
  PROVE  PeersInv'
<1>1. CASE \E i \in Pcs : Negotiated(i)
  <2>1. PICK i \in Pcs : Negotiated(i) BY <1>1
  <2>2. answer[i] = "negotiating" /\ answer' = [answer EXCEPT ![i] = "over"] BY <2>1 DEF Negotiated
  <2>3. i \in Made BY <2>2 DEF PeersInv, PeersTypeOK
  <2>4. /\ UNCHANGED <<of, pc, channel, before, peers, channels, gone, stop, ending, overlapped>>
        /\ loop' \in {loop, <<"idle">>}
    BY <2>1 DEF Negotiated
  <2>5. QED BY <2>2, <2>3, <2>4, PeersStay
<1>2. CASE ClosedForIt BY <1>2, PeersStay DEF ClosedForIt
<1>3. CASE Stopped BY <1>3, PeersStay DEF Stopped
<1>4. CASE UNCHANGED pcvars BY <1>4, PeersStay DEF pcvars
<1>5. QED BY <1>1, <1>2, <1>3, <1>4

\* A client that left has its connection closed.
LEMMA DisconnectedKeeps ==
  ASSUME PeersInv, NEW s \in Sessions, Disconnected(s)
  PROVE  PeersInv'
<1>0. PeersTypeOK /\ Made \subseteq Pcs /\ 0 \notin Made BY MadeFacts DEF PeersInv
<1>1. /\ gone' = gone \cup {s} /\ Made' = Made
      /\ channels' = [channels EXCEPT ![s] = 0] /\ peers' = [peers EXCEPT ![s] = 0]
      /\ pc' = [i \in Pcs |-> IF i = peers[s] THEN "closing" ELSE pc[i]]
      /\ UNCHANGED <<of, channel, answer, before, stop, ending>>
  BY DEF Disconnected, Made
<1>2. /\ peers'[s] = 0
      /\ \A t \in Sessions \ {s} : peers'[t] = peers[t] /\ channels'[t] = channels[t]
  BY <1>0, <1>1 DEF PeersTypeOK
<1>3. /\ \A i \in Made : of[i] \in Sessions /\ i # 0
      /\ \A t \in Sessions : peers[t] \in Made \cup {0}
  BY <1>0 DEF PeersTypeOK
<1>4. /\ \A t \in Sessions : t \notin overlapped' => t \notin overlapped
      /\ s \notin overlapped' => ~Replacing(s)
      /\ overlapped' \subseteq Sessions
  BY <1>0 DEF Disconnected, Overlap, PeersTypeOK
<1>5. PeersTypeOK'
  <2>1. peers' \in [Sessions -> Made \cup {0}] /\ channels' \in [Sessions -> Made \cup {0}]
    BY <1>0, <1>1 DEF PeersTypeOK
  <2>2. pc' \in [Pcs -> {"live", "closing", "closed"}] /\ gone' \subseteq Sessions
    BY <1>0, <1>1 DEF PeersTypeOK
  <2>3. loop' \in {<<"idle">>} \cup ({"answering", "closing"} \X Pcs)
    BY <1>0, <1>3 DEF Disconnected, PeersTypeOK
  <2>4. QED BY <1>0, <1>1, <1>4, <2>1, <2>2, <2>3 DEF PeersTypeOK
<1>6. Owned'
  <2> SUFFICES ASSUME NEW t \in Sessions, peers'[t] # 0
               PROVE  /\ of[peers'[t]] = t /\ pc'[peers'[t]] = "live"
                      /\ answer[peers'[t]] # "replacing" /\ peers'[t] \notin ending
    BY <1>1 DEF Owned
  <2>1. t # s /\ peers'[t] = peers[t] /\ peers[t] \in Pcs BY <1>0, <1>2, <1>3
  <2>2. /\ of[peers[t]] = t /\ pc[peers[t]] = "live"
        /\ answer[peers[t]] # "replacing" /\ peers[t] \notin ending
    BY <2>1 DEF PeersInv, Owned
  <2>3. peers[t] # peers[s] BY <2>1, <2>2 DEF PeersInv, Owned
  <2>4. QED BY <1>1, <2>1, <2>2, <2>3
<1>7. Held'
  <2> SUFFICES ASSUME NEW i \in Made, answer[i] = "replacing"
               PROVE  /\ pc'[i] = "live" /\ channel[i] = "none" /\ i \notin ending
                      /\ of[i] \notin overlapped' => Alone(i)'
    BY <1>1 DEF Held
  <2>1. /\ pc[i] = "live" /\ channel[i] = "none" /\ i \notin ending
        /\ of[i] \notin overlapped => Alone(i)
    BY DEF PeersInv, Held
  <2>2. i # peers[s] BY <1>3 DEF PeersInv, Owned
  <2>3. ASSUME of[i] \notin overlapped' PROVE Alone(i)'
    <3>1. of[i] # s BY <1>4, <2>3 DEF Replacing
    <3>2. Alone(i) BY <1>3, <1>4, <2>1, <2>3
    <3>3. QED BY <1>1, <1>2, <1>3, <3>1, <3>2 DEF Alone
  <2>4. QED BY <1>0, <1>1, <2>1, <2>2, <2>3
<1>8. Unended' BY <1>1 DEF PeersInv, Unended
<1>9. NoneLeftBehind'
  <2> SUFFICES ASSUME NEW i \in Made, pc'[i] = "live", of[i] \notin overlapped'
               PROVE  \/ peers'[of[i]] = i /\ of[i] \notin gone'
                      \/ answer[i] = "replacing"
                      \/ i \in ending
    BY <1>1 DEF NoneLeftBehind
  <2>1. i # peers[s] /\ pc[i] = "live" BY <1>0, <1>1
  <2>2. \/ peers[of[i]] = i /\ of[i] \notin gone
        \/ answer[i] = "replacing"
        \/ i \in ending
    BY <1>3, <1>4, <2>1 DEF PeersInv, NoneLeftBehind
  <2>3. CASE peers[of[i]] = i /\ of[i] \notin gone
    <3>1. of[i] # s BY <2>1, <2>3
    <3>2. QED BY <1>1, <1>2, <1>3, <2>3, <3>1
  <2>4. QED BY <2>2, <2>3
<1>10. ChannelKept'
  <2> SUFFICES ASSUME NEW i \in Made, stop = "no", of[i] \notin overlapped',
                      peers'[of[i]] = i, channel[i] = "open"
               PROVE  channels'[of[i]] = i
    BY <1>1 DEF ChannelKept
  <2>1. of[i] # s BY <1>2, <1>3
  <2>2. peers[of[i]] = i /\ of[i] \notin overlapped BY <1>2, <1>3, <1>4, <2>1
  <2>3. QED BY <1>2, <1>3, <2>1, <2>2 DEF PeersInv, ChannelKept
<1>11. QED BY <1>5, <1>6, <1>7, <1>8, <1>9, <1>10 DEF PeersInv

\* A datachannel opens, of a connection that runs; or it ends, or cannot be sent to.
LEMMA ChannelsMove ==
  ASSUME PeersInv, channel' \in [Pcs -> {"none", "open", "closed"}],
         channels' \in [Sessions -> Made \cup {0}],
         \A i \in Pcs : channel'[i] # channel[i] => i \in Made /\ answer[i] # "replacing",
         UNCHANGED <<of, pc, answer, before, peers, gone, loop, stop, ending, overlapped>>,
         ChannelKept'
  PROVE  PeersInv'
<1>0. PeersTypeOK /\ Made \subseteq Pcs BY MadeFacts DEF PeersInv
<1>1. Made' = Made BY DEF Made
<1>2. PeersTypeOK'
  <2>1. \A i \in Pcs \ Made : channel'[i] = "none" /\ answer[i] = "none" BY <1>0 DEF PeersTypeOK
  <2>2. QED BY <1>0, <1>1, <2>1 DEF PeersTypeOK
<1>3. Owned' BY DEF PeersInv, Owned
<1>4. Held'
  <2>1. \A i \in Made : Alone(i) => Alone(i)' BY <1>1 DEF Alone
  <2>2. QED BY <1>0, <1>1, <2>1 DEF PeersInv, Held
<1>5. Unended' BY DEF PeersInv, Unended
<1>6. NoneLeftBehind' BY <1>1 DEF PeersInv, NoneLeftBehind
<1>7. QED BY <1>2, <1>3, <1>4, <1>5, <1>6 DEF PeersInv

LEMMA ChannelOpensKeeps ==
  ASSUME PeersInv, NEW i \in Pcs, ChannelOpens(i)
  PROVE  PeersInv'
<1>0. PeersTypeOK BY DEF PeersInv
<1>1. /\ i \in Made /\ pc[i] = "live" /\ answer[i] # "replacing"
      /\ channel' = [channel EXCEPT ![i] = "open"] /\ channels' = [channels EXCEPT ![of[i]] = i]
      /\ UNCHANGED <<of, pc, answer, before, peers, gone, loop, stop, ending, overlapped>>
      /\ Made' = Made
  BY DEF ChannelOpens, Bound, Made
<1>2. of[i] \in Sessions BY <1>0, <1>1 DEF PeersTypeOK
<1>3. /\ channel' \in [Pcs -> {"none", "open", "closed"}]
      /\ channels' \in [Sessions -> Made \cup {0}]
      /\ \A j \in Pcs : j # i => channel'[j] = channel[j]
      /\ channels'[of[i]] = i /\ \A t \in Sessions : t # of[i] => channels'[t] = channels[t]
  BY <1>0, <1>1, <1>2 DEF PeersTypeOK
<1>4. ChannelKept'
  <2> SUFFICES ASSUME NEW j \in Made, stop = "no", of[j] \notin overlapped,
                      peers[of[j]] = j, channel'[j] = "open"
               PROVE  channels'[of[j]] = j
    BY <1>1 DEF ChannelKept
  <2>1. CASE j = i BY <1>3, <2>1
  <2>2. CASE j # i
    <3>1. channel[j] = "open" /\ of[j] \in Sessions
      BY <1>0, <1>3, <2>2, MadeFacts DEF PeersTypeOK
    <3>2. i \notin ending BY DEF PeersInv, Unended
    <3>3. of[i] \notin overlapped => peers[of[i]] = i
      BY <1>1, <3>2 DEF PeersInv, NoneLeftBehind
    <3>4. of[j] # of[i] BY <2>2, <3>3
    <3>5. QED BY <1>3, <3>1, <3>4 DEF PeersInv, ChannelKept
  <2>3. QED BY <2>1, <2>2
<1>5. \A j \in Pcs : channel'[j] # channel[j] => j \in Made /\ answer[j] # "replacing"
  BY <1>1, <1>3
<1>6. QED BY <1>1, <1>3, <1>4, <1>5, ChannelsMove

LEMMA ChannelEndsKeeps ==
  ASSUME PeersInv, NEW i \in Pcs, ChannelEnds(i)
  PROVE  PeersInv'
<1>0. PeersTypeOK BY DEF PeersInv
<1>1. /\ i \in Made /\ channel[i] = "open" /\ channel' = [channel EXCEPT ![i] = "closed"]
      /\ channels' = [s \in Sessions |-> IF channels[s] = i THEN 0 ELSE channels[s]]
      /\ UNCHANGED <<of, pc, answer, before, peers, gone, loop, stop, ending, overlapped>>
      /\ Made' = Made
  BY DEF ChannelEnds, ForgetChannel, Made
<1>2. /\ channel' \in [Pcs -> {"none", "open", "closed"}]
      /\ channels' \in [Sessions -> Made \cup {0}]
      /\ channel'[i] = "closed" /\ \A j \in Pcs : j # i => channel'[j] = channel[j]
  BY <1>0, <1>1 DEF PeersTypeOK
<1>3. ChannelKept'
  <2> SUFFICES ASSUME NEW j \in Made, stop = "no", of[j] \notin overlapped,
                      peers[of[j]] = j, channel'[j] = "open"
               PROVE  channels'[of[j]] = j
    BY <1>1 DEF ChannelKept
  <2>1. j # i /\ channel[j] = "open" /\ of[j] \in Sessions
    BY <1>0, <1>2, MadeFacts DEF PeersTypeOK
  <2>2. channels[of[j]] = j BY <2>1 DEF PeersInv, ChannelKept
  <2>3. QED BY <1>1, <2>1, <2>2
<1>4. answer[i] # "replacing" BY <1>1 DEF PeersInv, Held
<1>5. QED BY <1>1, <1>2, <1>3, <1>4, ChannelsMove

LEMMA SendFailsKeeps ==
  ASSUME PeersInv, NEW s \in Sessions, SendFails(s)
  PROVE  PeersInv'
<1>0. PeersTypeOK BY DEF PeersInv
<1>1. /\ pc[channels[s]] # "live" /\ channels' = [channels EXCEPT ![s] = 0]
      /\ UNCHANGED <<of, pc, channel, answer, before, peers, gone, loop, stop, ending, overlapped>>
      /\ Made' = Made
  BY DEF SendFails, Made
<1>2. channels' \in [Sessions -> Made \cup {0}] /\ channel' \in [Pcs -> {"none", "open", "closed"}]
  BY <1>0, <1>1 DEF PeersTypeOK
<1>3. ChannelKept'
  <2> SUFFICES ASSUME NEW j \in Made, stop = "no", of[j] \notin overlapped,
                      peers[of[j]] = j, channel[j] = "open"
               PROVE  channels'[of[j]] = j
    BY <1>1 DEF ChannelKept
  <2>1. channels[of[j]] = j BY DEF PeersInv, ChannelKept
  <2>2. of[j] \in Sessions /\ j # 0 BY <1>0, MadeFacts DEF PeersTypeOK
  <2>3. pc[j] = "live" BY <2>2 DEF PeersInv, Owned
  <2>4. of[j] # s BY <1>1, <2>1, <2>3
  <2>5. QED BY <1>0, <1>1, <2>1, <2>2, <2>4 DEF PeersTypeOK
<1>4. QED BY <1>1, <1>2, <1>3, ChannelsMove

\* Connections end; what is listed no longer is not listed elsewhere.
LEMMA ConnectionsEnd ==
  ASSUME PeersInv, pc' \in [Pcs -> {"live", "closing", "closed"}],
         peers' \in [Sessions -> Made \cup {0}],
         \A s \in Sessions : peers'[s] \in {peers[s], 0},
         \A i \in Made :
           pc'[i] # pc[i] => /\ pc'[i] # "live" /\ answer[i] # "replacing"
                             /\ \A s \in Sessions : peers'[s] # i,
         \A s \in Sessions : peers'[s] # peers[s] => pc'[peers[s]] # "live",
         UNCHANGED <<of, channel, answer, before, channels, gone, loop, stop, ending, overlapped>>
  PROVE  PeersInv'
<1>0. PeersTypeOK /\ Made \subseteq Pcs /\ 0 \notin Made BY MadeFacts DEF PeersInv
<1>1. Made' = Made BY DEF Made
<1>2. PeersTypeOK' BY <1>0, <1>1 DEF PeersTypeOK
<1>3. \A i \in Made : of[i] \in Sessions /\ i # 0 BY <1>0 DEF PeersTypeOK
<1>4. Owned'
  <2> SUFFICES ASSUME NEW s \in Sessions, peers'[s] # 0
               PROVE  /\ of[peers'[s]] = s /\ pc'[peers'[s]] = "live"
                      /\ answer[peers'[s]] # "replacing" /\ peers'[s] \notin ending
    BY DEF Owned
  <2>1. peers'[s] = peers[s] /\ peers[s] \in Made BY <1>0 DEF PeersTypeOK
  <2>2. /\ of[peers[s]] = s /\ pc[peers[s]] = "live"
        /\ answer[peers[s]] # "replacing" /\ peers[s] \notin ending
    BY <2>1 DEF PeersInv, Owned
  <2>3. pc'[peers[s]] = pc[peers[s]] BY <2>1
  <2>4. QED BY <2>1, <2>2, <2>3
<1>5. Held'
  <2> SUFFICES ASSUME NEW i \in Made, answer[i] = "replacing"
               PROVE  /\ pc'[i] = "live" /\ channel[i] = "none" /\ i \notin ending
                      /\ of[i] \notin overlapped => Alone(i)'
    BY <1>1 DEF Held
  <2>1. /\ pc[i] = "live" /\ channel[i] = "none" /\ i \notin ending
        /\ of[i] \notin overlapped => Alone(i)
    BY DEF PeersInv, Held
  <2>2. Alone(i) => Alone(i)' BY <1>1, <1>3 DEF Alone
  <2>3. QED BY <2>1, <2>2
<1>6. Unended' BY DEF PeersInv, Unended
<1>7. NoneLeftBehind'
  <2> SUFFICES ASSUME NEW i \in Made, pc'[i] = "live", of[i] \notin overlapped
               PROVE  \/ peers'[of[i]] = i /\ of[i] \notin gone
                      \/ answer[i] = "replacing"
                      \/ i \in ending
    BY <1>1 DEF NoneLeftBehind
  <2>1. pc[i] = "live" OBVIOUS
  <2>2. peers[of[i]] = i => peers'[of[i]] = i BY <1>3
  <2>3. QED BY <2>1, <2>2 DEF PeersInv, NoneLeftBehind
<1>8. ChannelKept'
  <2> SUFFICES ASSUME NEW i \in Made, stop = "no", of[i] \notin overlapped,
                      peers'[of[i]] = i, channel[i] = "open"
               PROVE  channels[of[i]] = i
    BY <1>1 DEF ChannelKept
  <2>1. peers[of[i]] = i BY <1>3
  <2>2. QED BY <2>1 DEF PeersInv, ChannelKept
<1>9. QED BY <1>2, <1>4, <1>5, <1>6, <1>7, <1>8 DEF PeersInv

\* A connection fails, its close is over, or close_all comes to it.
LEMMA EndsKeep ==
  ASSUME PeersInv, NEW i \in Pcs, StateEnds(i) \/ CloseEnds(i) \/ EndNext(i)
  PROVE  PeersInv'
<1>0. PeersTypeOK /\ Made \subseteq Pcs /\ 0 \notin Made BY MadeFacts DEF PeersInv
<1>1. \A s \in Sessions : peers[s] # 0 => pc[peers[s]] = "live" /\ peers[s] \notin ending
  BY DEF PeersInv, Owned
<1>2. UNCHANGED <<of, channel, answer, before, channels, gone, loop, stop, ending, overlapped>>
  BY DEF StateEnds, CloseEnds, EndNext
<1>3. /\ i \in Made /\ answer[i] # "replacing"
      /\ pc' \in [Pcs -> {"live", "closing", "closed"}]
      /\ pc'[i] # "live" /\ \A j \in Pcs \ {i} : pc'[j] = pc[j]
  <2>1. CASE StateEnds(i)
    <3>1. i \in Made /\ answer[i] # "replacing" BY <2>1 DEF StateEnds, Bound
    <3>2. pc' = [pc EXCEPT ![i] = IF pc[i] = "live" THEN "closing" ELSE pc[i]]
      BY <2>1 DEF StateEnds
    <3>3. QED BY <1>0, <3>1, <3>2 DEF PeersTypeOK
  <2>2. CASE CloseEnds(i)
    <3>1. answer[i] # "replacing" BY <2>2 DEF CloseEnds, PeersInv, Held
    <3>2. QED BY <1>0, <2>2, <3>1 DEF CloseEnds, PeersTypeOK
  <2>3. CASE EndNext(i)
    <3>1. i \in Made BY <1>0, <2>3 DEF EndNext, PeersTypeOK
    <3>2. answer[i] # "replacing" BY <2>3, <3>1 DEF EndNext, PeersInv, Held
    <3>3. QED BY <1>0, <2>3, <3>1, <3>2 DEF EndNext, PeersTypeOK
  <2>4. QED BY <2>1, <2>2, <2>3
<1>4. peers' = [s \in Sessions |-> IF peers[s] = i THEN 0 ELSE peers[s]]
  <2>1. CASE StateEnds(i) BY <2>1 DEF StateEnds, ForgetPeer
  <2>2. CASE CloseEnds(i) \/ EndNext(i)
    <3>1. peers' = peers BY <2>2 DEF CloseEnds, EndNext
    <3>2. \A s \in Sessions : peers[s] # i BY <1>0, <1>1, <1>3, <2>2 DEF CloseEnds, EndNext
    <3>3. QED BY <1>0, <3>1, <3>2 DEF PeersTypeOK
  <2>3. QED BY <2>1, <2>2
<1>5. /\ peers' \in [Sessions -> Made \cup {0}]
      /\ \A s \in Sessions : peers'[s] \in {peers[s], 0} /\ peers'[s] # i
      /\ \A s \in Sessions : peers'[s] # peers[s] => peers[s] = i
  BY <1>0, <1>3, <1>4 DEF PeersTypeOK
<1>6. \A j \in Made :
        pc'[j] # pc[j] => /\ pc'[j] # "live" /\ answer[j] # "replacing"
                          /\ \A s \in Sessions : peers'[s] # j
  BY <1>0, <1>3, <1>5
<1>7. \A s \in Sessions : peers'[s] # peers[s] => pc'[peers[s]] # "live" BY <1>3, <1>5
<1>8. QED BY <1>2, <1>3, <1>5, <1>6, <1>7, ConnectionsEnd

\* A stop takes all connections that are listed, and forgets them.
LEMMA StopKeeps ==
  ASSUME PeersInv, Stop
  PROVE  PeersInv'
<1>0. PeersTypeOK /\ Made \subseteq Pcs BY MadeFacts DEF PeersInv
<1>1. /\ stop' = "closing" /\ ending' = Listed /\ Made' = Made
      /\ channels' = [s \in Sessions |-> 0] /\ peers' = [s \in Sessions |-> 0]
      /\ UNCHANGED <<of, pc, channel, answer, before, gone, loop, overlapped>>
  BY DEF Stop, Made
<1>2. \A i \in Made : of[i] \in Sessions BY <1>0 DEF PeersTypeOK
<1>3. PeersTypeOK'
  <2>1. /\ channels' \in [Sessions -> Made \cup {0}] /\ peers' \in [Sessions -> Made \cup {0}]
        /\ ending' \subseteq Made
    BY <1>1 DEF Listed
  <2>2. QED BY <1>0, <1>1, <2>1 DEF PeersTypeOK
<1>4. Owned' BY <1>1 DEF Owned
<1>5. Held'
  <2> SUFFICES ASSUME NEW i \in Made, answer[i] = "replacing"
               PROVE  /\ pc[i] = "live" /\ channel[i] = "none" /\ i \notin ending'
                      /\ of[i] \notin overlapped => Alone(i)'
    BY <1>1 DEF Held
  <2>1. /\ pc[i] = "live" /\ channel[i] = "none"
        /\ of[i] \notin overlapped => Alone(i)
    BY DEF PeersInv, Held
  <2>2. i \notin Listed
    <3>1. i # 0 BY <1>0, MadeFacts
    <3>2. QED BY <3>1 DEF PeersInv, Owned, Listed
  <2>3. Alone(i) => Alone(i)' BY <1>1, <1>2 DEF Alone
  <2>4. QED BY <1>1, <2>1, <2>2, <2>3
<1>6. Unended' BY <1>1 DEF Unended
<1>7. NoneLeftBehind'
  <2> SUFFICES ASSUME NEW i \in Made, pc[i] = "live", of[i] \notin overlapped
               PROVE  answer[i] = "replacing" \/ i \in Listed
    BY <1>1 DEF NoneLeftBehind
  <2>1. ending = {} BY DEF Stop, PeersInv, Unended
  <2>2. peers[of[i]] = i \/ answer[i] = "replacing" BY <2>1 DEF PeersInv, NoneLeftBehind
  <2>3. QED BY <1>2, <2>2 DEF Listed
<1>8. ChannelKept' BY <1>1 DEF ChannelKept
<1>9. QED BY <1>3, <1>4, <1>5, <1>6, <1>7, <1>8 DEF PeersInv

\* PeersInv is inductive: it holds however offers over the relay and over
\* datachannels, ends and closes overlap.
THEOREM PeersInductive == PeersSpec => []PeersInv
<1>1. PeersInit => PeersInv
  <2> SUFFICES ASSUME PeersInit PROVE PeersInv OBVIOUS
  <2>1. Made = {} BY DEF PeersInit, Made
  <2>2. Made = 1..0 /\ 0 \in 0..MaxPeers BY <2>1, PeersAssumption
  <2>3. of \in [Made -> Sessions] BY DEF PeersInit, Made
  <2>4. PeersTypeOK BY <2>2, <2>3 DEF PeersInit, PeersTypeOK
  <2>5. Unended BY DEF PeersInit, Unended
  <2>6. QED BY <2>1, <2>4, <2>5 DEF PeersInit, PeersInv, Owned, Held, NoneLeftBehind, ChannelKept
<1>2. PeersInv /\ [PeersNext]_pcvars => PeersInv'
  BY OfferKeeps, ReplacedKeeps, LoopGoesOn, DisconnectedKeeps, ChannelOpensKeeps, ChannelEndsKeeps,
     SendFailsKeeps, EndsKeep, StopKeeps DEF PeersNext
<1> QED BY <1>1, <1>2, PTL DEF PeersSpec

\* No connection is left behind, however closes and stops overlap with offers,
\* of a session whose offers and end did not overlap with a replacement.
THEOREM NothingLeftBehind == PeersSpec => []NoneLeftBehind
<1>1. PeersInv => NoneLeftBehind BY DEF PeersInv
<1> QED BY <1>1, PeersInductive, PTL

\* The present channel of such a session is the one that is written to.
THEOREM ChannelsKept == PeersSpec => []ChannelKept
<1>1. PeersInv => ChannelKept BY DEF PeersInv
<1> QED BY <1>1, PeersInductive, PTL
===============================================================================
