------------------------------- MODULE Switchboard -------------------------------
(***************************************************************************)
(* What the bridge promises to those who meet in a room, whichever platform *)
(* the room runs on: one authority at a time is in charge, it knows every  *)
(* consumer that is served, a consumer is served under one authority only, *)
(* and who has gone does not come back.  How connections are closed, timed *)
(* out and reported is left to the modules that implement this one, Room   *)
(* and CloudRoom.                                                          *)
(***************************************************************************)
CONSTANTS
  Peers,  \* the connections
  None    \* nobody

VARIABLES
  fresh,    \* the connections that are yet to come
  waiting,  \* those that may still show that they are the authority
  charge,   \* the authority in charge, or None
  served,   \* the consumers that are served
  told      \* the consumers that the authority in charge knows of

vars == <<fresh, waiting, charge, served, told>>

Come(p) == p \in fresh /\ fresh' = fresh \ {p}

Claim(p) ==
  /\ Come(p)
  /\ waiting' = waiting \cup {p}
  /\ UNCHANGED <<charge, served, told>>

Serve(p) ==
  /\ Come(p)
  /\ charge # None
  /\ served' = served \cup {p}
  /\ told' = told \cup {p}
  /\ UNCHANGED <<waiting, charge>>

TurnAway(p) == Come(p) /\ UNCHANGED <<waiting, charge, served, told>>

\* Nobody is handed over: the consumers of the earlier authority are sent away.
TakeCharge(p) ==
  /\ p \in waiting
  /\ charge' = p
  /\ waiting' = waiting \ {p}
  /\ served' = {} /\ told' = {}
  /\ UNCHANGED fresh

\* The authority hears of a consumer again, or of one that was turned away.
Hear(p) ==
  /\ charge # None
  /\ p \notin fresh \cup waiting
  /\ told' = told \cup {p}
  /\ UNCHANGED <<fresh, waiting, charge, served>>

\* Some go; the authority may learn of it then, later or never.
Go ==
  /\ waiting' \subseteq waiting
  /\ served' \subseteq served
  /\ served' \subseteq told' /\ told' \subseteq told
  /\ UNCHANGED <<fresh, charge>>

\* The authority goes, and with it all that are served.
StepDown ==
  /\ waiting' \subseteq waiting
  /\ charge' = None
  /\ served' = {} /\ told' = {}
  /\ UNCHANGED fresh

Init ==
  /\ fresh = Peers
  /\ charge = None
  /\ waiting = {} /\ served = {} /\ told = {}

Next ==
  \/ \E p \in Peers : Claim(p) \/ Serve(p) \/ TurnAway(p) \/ TakeCharge(p) \/ Hear(p)
  \/ Go \/ StepDown

Spec == Init /\ [][Next]_vars
=============================================================================
