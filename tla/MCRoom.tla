-------------------------------- MODULE MCRoom --------------------------------
(***************************************************************************)
(* A small room: up to four connections, in any roles, one seat for a      *)
(* consumer and two for authorities that are yet to authenticate.          *)
(***************************************************************************)
EXTENDS Room, TLC

CONSTANTS s1, s2, s3, s4

MCSockets == {s1, s2, s3, s4}
=============================================================================
