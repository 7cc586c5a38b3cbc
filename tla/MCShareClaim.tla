---------------------------- MODULE MCShareClaim ----------------------------
(***************************************************************************)
(* Small instances of ShareClaim: shares of one and of two claims, raced   *)
(* for by the relay lane and datachannel tasks.                            *)
(***************************************************************************)
EXTENDS ShareClaim, TLC

MCLimits == {1, 2}
MCTwo == {2}
=============================================================================
