----------------------------- MODULE MCAuthority -----------------------------
(***************************************************************************)
(* Small instances of Authority.  In the runs about feeds a client signs   *)
(* with one key (packages/client keeps one identity); in the runs about    *)
(* access requests one session files them for every key, which is enough   *)
(* since the store does not look at sessions.                              *)
(***************************************************************************)
EXTENDS Authority, TLC

CONSTANTS c1, e1

MCOneKey == [s \in Sessions |-> {c1}]
MCAllKeys == [s \in Sessions |-> Consumers]
MCManifests == {Entities}
MCDenials == {{}, {e1}}
MCNoDenials == {{}}

\* Consumers, requests and owner lanes are interchangeable (safety runs only).
MCSymmetry ==
  Permutations(Consumers) \cup Permutations(Requests) \cup Permutations(OwnerLanes)
=============================================================================
