------------------------------- MODULE ScopedFeeds -------------------------------
(***************************************************************************)
(* What the authority promises about the states it streams: a feed begins  *)
(* only where a live grant covers it, a session streams for one consumer   *)
(* from its binding to its end, and when the owner has withdrawn something *)
(* and has been told so, every feed of that consumer has ended: what it is *)
(* sent from then on began under what was left.  How handlers wait for the *)
(* disk and which of them overlap is left to Authority, which implements   *)
(* this module.                                                            *)
(***************************************************************************)
CONSTANTS Consumers, Sessions, Entities, None

VARIABLES
  covered,  \* the entities that a live grant of each consumer covers
  bound,    \* the consumer of each session, or None
  feeds,    \* the entities that stream to each session
  due       \* the consumers from whom something is withdrawn and still streams

vars == <<covered, bound, feeds, due>>

\* The owner, or time, changes what a consumer is granted.  What streams goes on.
Grant(c, E) ==
  /\ covered' = [covered EXCEPT ![c] = E]
  /\ UNCHANGED <<bound, feeds, due>>

Lapse ==
  /\ \A c \in Consumers : covered'[c] \in {covered[c], {}}
  /\ covered' \in [Consumers -> SUBSET Entities]
  /\ UNCHANGED <<bound, feeds, due>>

\* The owner withdraws something, and is owed that it ends.
Withdraw(c, E) ==
  /\ covered' = [covered EXCEPT ![c] = E]
  /\ due' = due \cup {c}
  /\ UNCHANGED <<bound, feeds>>

\* It has ended: nothing of that consumer streams.  Another withdrawal may be due.
CutOff(c) ==
  /\ c \in due
  /\ due' \in {due, due \ {c}}
  /\ feeds' = [s \in Sessions |-> IF bound[s] = c THEN {} ELSE feeds[s]]
  /\ UNCHANGED <<covered, bound>>

\* A session finds out whose it is before anything streams to it.
Bind(s, c) ==
  /\ bound[s] = None /\ feeds[s] = {}
  /\ bound' = [bound EXCEPT ![s] = c]
  /\ UNCHANGED <<covered, feeds, due>>

\* It asks for entities, maybe in place of others; it asks for fewer, or is refused.
Follow(s, E) ==
  /\ bound[s] # None /\ E \subseteq covered[bound[s]]
  /\ \E kept \in SUBSET feeds[s] : feeds' = [feeds EXCEPT ![s] = kept \cup E]
  /\ UNCHANGED <<covered, bound, due>>

Drop(s) ==
  /\ \E kept \in SUBSET feeds[s] : feeds' = [feeds EXCEPT ![s] = kept]
  /\ UNCHANGED <<covered, bound, due>>

Leave(s) ==
  /\ bound' = [bound EXCEPT ![s] = None]
  /\ feeds' = [feeds EXCEPT ![s] = {}]
  /\ UNCHANGED <<covered, due>>

Init ==
  /\ covered = [c \in Consumers |-> {}]
  /\ bound = [s \in Sessions |-> None]
  /\ feeds = [s \in Sessions |-> {}]
  /\ due = {}

Next ==
  \/ \E c \in Consumers, E \in SUBSET Entities : Grant(c, E) \/ Withdraw(c, E)
  \/ Lapse
  \/ \E c \in Consumers : CutOff(c)
  \/ \E s \in Sessions, c \in Consumers : Bind(s, c)
  \/ \E s \in Sessions, E \in SUBSET Entities : Follow(s, E)
  \/ \E s \in Sessions : Drop(s) \/ Leave(s)

Spec == Init /\ [][Next]_vars
=============================================================================
