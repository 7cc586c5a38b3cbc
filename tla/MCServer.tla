------------------------------- MODULE MCServer -------------------------------
(***************************************************************************)
(* Small instances of Server: applications in browsers, and a server.      *)
(***************************************************************************)
EXTENDS Server
================================================================================
