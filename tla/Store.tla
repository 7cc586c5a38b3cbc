--------------------------------- MODULE Store ----------------------------------
(***************************************************************************)
(* The store between memory and disk (storage.py), with the commands that  *)
(* write it (authority.py, websocket_api.py) and the start of the          *)
(* integration, which finds its identity there (__init__.py).              *)
(*                                                                         *)
(* A save replaces the whole file by what memory holds when the write is   *)
(* made, and the command waits for it; every command saves once more for   *)
(* its line in the audit log before it answers, and an approval saves the  *)
(* request and the grant one after the other.  A stop at any time leaves   *)
(* the file.  A reload of the entry makes a new store over the same file,  *)
(* while commands under way go on with the earlier one.                    *)
(*                                                                         *)
(* Home Assistant's Store is external: a write is one step, and takes what *)
(* is in memory then.  Of a consumer's requests the latest one counts.     *)
(* Shares, restrictions, the time of a grant's last use and what it holds  *)
(* are left to the other modules.                                          *)
(***************************************************************************)
EXTENDS Naturals, FiniteSets

CONSTANTS
  Consumers,
  Relay,        \* the loop of the relay
  Commands,     \* tasks of owner commands
  NoId,
  MaxChanges,   \* bound: changes of grants
  MaxStops,     \* bound: times that Home Assistant stops
  MaxReloads    \* bound: reloads of the entry; a second needs the first's commands done

ASSUME StoreAssumption ==
  /\ Relay \notin Commands /\ NoId \notin Nat
  /\ MaxChanges \in Nat /\ MaxStops \in Nat /\ MaxReloads \in Nat

Tasks  == {Relay} \cup Commands
Legacy == 0  \* the identity that an older version kept in the entry

VARIABLES
  disk,      \* the file
  memory,    \* _data of the store in use
  earlier,   \* _data of a store that commands went on with after a reload
  index,     \* _grant_index: ids of the grants that can be found
  task,      \* what each task waits to be written, and what comes then
  reported,      \* of each consumer's grant, the last change that was reported
  changes,   \* of grants, up to now
  hass,     \* "down", "identity" while that is written, "up"
  entry,     \* the identity in the entry, or NoId
  used,      \* history: the identities that the relay was started with
  stops, reloads

svars == <<disk, memory, earlier, index, task, reported, changes, hass, entry, used, stops, reloads>>

NoGrant == [id |-> NoId, status |-> "none", change |-> 0]
NoData ==
  [requests |-> [c \in Consumers |-> "none"],
   grants   |-> [c \in Consumers |-> NoGrant],
   identity |-> NoId]
Idle == [next |-> "idle"]

\* mutant of Rebuilt: grants that are revoked need not be found
RebuiltActive(data) ==
  {<<data.grants[c].id, c>> : c \in {c \in Consumers : data.grants[c].status = "active"}}

\* _rebuild_grant_index.
Rebuilt(data) ==
  {<<data.grants[c].id, c>> : c \in {c \in Consumers : data.grants[c].status # "none"}}

-----------------------------------------------------------------------------
(* Saving. *)

\* async_save_data: the index is made anew, and the task waits for the write.
Save(t, data, consumer, next, change) ==
  /\ memory' = data
  /\ index' = Rebuilt(data)
  /\ task' = [task EXCEPT ![t] =
       [next |-> next, consumer |-> consumer, change |-> change, in |-> "memory"]]

\* A grant on record from now on, or the lack of one.
Changed(data, c, id, status) ==
  [data EXCEPT !.grants[c] = [id |-> id, status |-> status, change |-> changes + 1]]

\* The data of the store that a task works on.
DataOf(t) == IF task[t].in = "memory" THEN memory ELSE earlier

\* mutant of Saved: the write is only scheduled
SavedLater(t) == disk' \in {disk, DataOf(t)}

Saved(t) == disk' = DataOf(t)

\* A command starts on a task that is free.
Starts(t) ==
  /\ hass = "up" /\ task[t] = Idle
  /\ changes < MaxChanges
  /\ UNCHANGED <<disk, earlier, reported, hass, entry, used, stops, reloads>>

\* async_get_grant, by the id.
FindsGrant(id, c) == <<id, c>> \in index /\ memory.grants[c].id = id

-----------------------------------------------------------------------------
(* Commands, up to their first write. *)

AccessRequest(c) ==
  /\ Starts(Relay)
  /\ Save(Relay, [memory EXCEPT !.requests[c] = "pending"], c, "audit", 0)
  /\ UNCHANGED changes

\* The request is saved, then the grant: see GrantSaved.
ApproveRequest(t, c) ==
  /\ Starts(t)
  /\ memory.requests[c] # "none"
  /\ Save(t, [memory EXCEPT !.requests[c] = "approved"], c, "grant", 0)
  /\ UNCHANGED changes

RejectRequest(t, c) ==
  /\ Starts(t)
  /\ memory.requests[c] # "none"
  /\ Save(t, [memory EXCEPT !.requests[c] = "rejected"], c, "audit", 0)
  /\ UNCHANGED changes

\* A grant whose id is the consumer's key, which nobody had before.
CreatePreapproved(t, c) ==
  /\ Starts(t)
  /\ \A data \in {disk, memory, earlier} : data.grants[c] = NoGrant /\ data.requests[c] = "none"
  /\ Save(t, Changed(memory, c, "key", "active"), c, "audit", changes + 1)
  /\ changes' = changes + 1

RevokeGrant(t, c, id) ==
  /\ Starts(t) /\ FindsGrant(id, c)
  /\ Save(t, Changed(memory, c, id, "revoked"), c, "audit", changes + 1)
  /\ changes' = changes + 1

DeleteGrant(t, c, id) ==
  /\ Starts(t) /\ FindsGrant(id, c)
  /\ Save(t, Changed(memory, c, NoId, "none"), c, "audit", changes + 1)
  /\ changes' = changes + 1

-----------------------------------------------------------------------------
(* What follows a write. *)

\* The approved request is written; async_upsert_grant.
GrantSaved(t) ==
  /\ task[t].next = "grant" /\ Saved(t)
  /\ changes < MaxChanges /\ changes' = changes + 1
  /\ LET c == task[t].consumer
         data == Changed(DataOf(t), c, "request", "active") IN
       IF task[t].in = "memory"
         THEN Save(t, data, c, "audit", changes + 1) /\ UNCHANGED earlier
         ELSE /\ earlier' = data
              /\ task' = [task EXCEPT ![t].next = "audit", ![t].change = changes + 1]
              /\ UNCHANGED <<memory, index>>
  /\ UNCHANGED <<reported, hass, entry, used, stops, reloads>>

\* async_append_audit, another save.
AuditSaved(t) ==
  /\ task[t].next = "audit" /\ Saved(t)
  /\ task' = [task EXCEPT ![t].next = "answer"]
  /\ UNCHANGED <<memory, earlier, index, reported, changes, hass, entry, used, stops, reloads>>

\* The audit line is written, and the command answers.
Answered(t) ==
  /\ task[t].next = "answer" /\ Saved(t)
  /\ reported' = [reported EXCEPT ![task[t].consumer] = IF @ > task[t].change THEN @ ELSE task[t].change]
  /\ task' = [task EXCEPT ![t] = Idle]
  /\ UNCHANGED <<memory, earlier, index, changes, hass, entry, used, stops, reloads>>

-----------------------------------------------------------------------------
(* Starting, stopping, reloading. *)

\* mutant of Resolved: only the store is asked
ResolvedAfresh == IF disk.identity # NoId THEN disk.identity ELSE Cardinality(used) + 1

\* _async_resolve_identity: from the store, from the entry, or a new one.
Resolved ==
  IF disk.identity # NoId THEN disk.identity
  ELSE IF entry # NoId THEN entry ELSE Cardinality(used) + 1

\* The relay starts.  The entry is rid of its identity, unless a stop comes
\* before that is written.
RelayStarts(identity) ==
  /\ hass' = "up"
  /\ used' = used \cup {identity}
  /\ entry' \in {entry, NoId}

\* The first load reads the file.  An identity that is not there is saved first.
LoadStore ==
  /\ hass = "down"
  /\ memory' = [disk EXCEPT !.identity = Resolved]
  /\ index' = Rebuilt(disk)
  /\ IF disk.identity = NoId
       THEN hass' = "identity" /\ UNCHANGED <<used, entry>>
       ELSE RelayStarts(disk.identity)
  /\ UNCHANGED <<disk, earlier, task, reported, changes, stops, reloads>>

IdentitySaved ==
  /\ hass = "identity"
  /\ disk' = memory
  /\ RelayStarts(memory.identity)
  /\ UNCHANGED <<memory, earlier, index, task, reported, changes, stops, reloads>>

\* Home Assistant stops, in order or not: the file is what is left.
HassStops ==
  /\ hass # "down" /\ stops < MaxStops /\ stops' = stops + 1
  /\ hass' = "down"
  /\ memory' = NoData /\ index' = {}
  /\ task' = [t \in Tasks |-> Idle]
  /\ UNCHANGED <<disk, earlier, reported, changes, entry, used, reloads>>

\* The options were changed: the entry is unloaded and set up again.  The loop
\* of the relay is cancelled (its write may still be made); commands go on.
Reload ==
  /\ hass = "up" /\ reloads < MaxReloads /\ reloads' = reloads + 1
  /\ \A t \in Commands : task[t] # Idle => task[t].in = "memory"
  /\ hass' = "down"
  /\ earlier' = IF \E t \in Commands : task[t] # Idle THEN memory ELSE earlier
  /\ memory' = NoData /\ index' = {}
  /\ disk' \in IF task[Relay] = Idle THEN {disk} ELSE {disk, memory}
  /\ task' = [t \in Tasks |->
       IF t = Relay \/ task[t] = Idle THEN Idle ELSE [task[t] EXCEPT !.in = "earlier"]]
  /\ UNCHANGED <<reported, changes, entry, used, stops>>

-----------------------------------------------------------------------------
StoreInit ==
  /\ disk = NoData /\ memory = NoData /\ earlier = NoData /\ index = {}
  /\ task = [t \in Tasks |-> Idle]
  /\ reported = [c \in Consumers |-> 0]
  /\ changes = 0 /\ hass = "down"
  /\ entry \in {NoId, Legacy}
  /\ used = IF entry = NoId THEN {} ELSE {Legacy}
  /\ stops = 0 /\ reloads = 0

StoreNext ==
  \/ \E c \in Consumers :
       \/ AccessRequest(c)
       \/ \E t \in Commands :
            \/ ApproveRequest(t, c) \/ RejectRequest(t, c) \/ CreatePreapproved(t, c)
            \/ \E id \in {"request", "key"} : RevokeGrant(t, c, id) \/ DeleteGrant(t, c, id)
  \/ \E t \in Tasks : GrantSaved(t) \/ AuditSaved(t) \/ Answered(t)
  \/ LoadStore \/ IdentitySaved \/ HassStops \/ Reload

StoreSpec == StoreInit /\ [][StoreNext]_svars

-----------------------------------------------------------------------------
\* A stop loses nothing that a command has answered: an approval that was
\* reported has its grant, a grant that was revoked or deleted does not come
\* back.  (An approval that was not may leave an approved request without one.)
\* It takes that no command was under way when the entry was reloaded: the
\* earlier store is not told, and a save of its own, of the data of that time,
\* takes away what was saved since.
Durable ==
  earlier = NoData => \A c \in Consumers : disk.grants[c].change >= reported[c]

\* Every grant on record is found by its id, so that it can be revoked and
\* deleted, also by the commands of a later start.
Findable ==
  hass = "up" =>
    \A c \in Consumers :
      memory.grants[c].status # "none" => FindsGrant(memory.grants[c].id, c)

\* The authority keeps the identity that its consumers know it by, whenever it
\* stops, and one that an older version left in the entry as well.
IdentityKept == Cardinality(used) <= 1
=============================================================================
