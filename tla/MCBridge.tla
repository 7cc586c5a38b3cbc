------------------------------- MODULE MCBridge -------------------------------
(***************************************************************************)
(* A small room on either platform: up to four connections in any roles,   *)
(* one seat for a consumer and two for authorities that are yet to         *)
(* authenticate.  The platform is chosen at the start, and the same        *)
(* properties are checked of both.                                         *)
(***************************************************************************)
EXTENDS CloudRoom

VARIABLE platform  \* "node" or "cloudflare"

MCSockets == 1..4

bvars == <<cvars, platform>>

OnNode  == platform = "node" /\ UNCHANGED <<cloud, platform>>
OnCloud == platform = "cloudflare" /\ UNCHANGED platform

BridgeInit ==
  /\ CloudInit /\ platform \in {"node", "cloudflare"}
  /\ platform = "node" => oldestFirst  \* plays no part there

BridgeNext ==
  \/ \E s \in Sockets :
       \/ OnNode /\ AcceptAuthority(s)
       \/ OnNode /\ RefuseAuthority(s)
       \/ OnNode /\ AcceptConsumer(s)
       \/ OnNode /\ RefuseConsumer(s)
       \/ OnNode /\ RefuseMessage(s)
       \/ OnNode /\ Auth(s)
       \/ OnNode /\ ForwardMessage(s)
       \/ OnNode /\ CloseClient(s)
       \/ OnNode /\ AuthTimeout(s)
       \/ OnNode /\ SocketError(s)
       \/ OnNode /\ PeerCloses(s)
       \/ OnNode /\ CloseEnds(s)
       \/ OnCloud /\ CloudRefuseAuthority(s)
       \/ OnCloud /\ CloudAcceptAuthority(s)
       \/ OnCloud /\ CloudRefuseConsumer(s)
       \/ OnCloud /\ CloudAcceptConsumer(s)
       \/ OnCloud /\ CloudRefuseMessage(s)
       \/ OnCloud /\ CloudAuth(s)
       \/ OnCloud /\ CloudForwardMessage(s)
       \/ OnCloud /\ CloudCloseClient(s)
       \/ OnCloud /\ CloudPeerCloses(s)
       \/ OnCloud /\ CloudCloseEnds(s)
  \/ OnCloud /\ Alarm
  \/ OnCloud /\ Restart

BridgeSpec ==
  /\ BridgeInit /\ [][BridgeNext]_bvars
  /\ WF_bvars(OnCloud /\ Alarm)
  /\ \A s \in Sockets :
       /\ WF_bvars(OnNode /\ AuthTimeout(s)) /\ WF_bvars(OnNode /\ CloseEnds(s))
       /\ WF_bvars(OnCloud /\ CloudCloseEnds(s))
=============================================================================
