--------------------------------- MODULE Peers ----------------------------------
(***************************************************************************)
(* The authority's WebRTC peers (webrtc.py, and relay.py where it opens,   *)
(* uses and closes them): one peer connection a session, and the           *)
(* datachannel over which events are sent.                                 *)
(*                                                                         *)
(* An offer comes through the relay's loop, which takes one message at a   *)
(* time and waits for create_answer to end, or over a datachannel of the   *)
(* session, where each message is a task of its own.  The end of a client  *)
(* comes through the loop; what aiortc reports comes at any time, and so   *)
(* does the end of the integration, which closes what is listed by then    *)
(* and cancels the loop, but no task.  Closing a peer connection is a wait.*)
(* aiortc (external) reports a datachannel at most once a connection, and  *)
(* may report its end, and the connection's, late.                         *)
(***************************************************************************)
EXTENDS Naturals, FiniteSets

CONSTANTS
  Sessions,
  MaxPeers     \* bound: peer connections that are ever made

ASSUME PeersAssumption == MaxPeers \in Nat \ {0}

Pcs == 1..MaxPeers  \* in the order in which they are made; 0 is none

VARIABLES
  of,        \* the session of each peer connection; those made are its domain
  pc,        \* "live", "closing", "closed"
  channel,   \* its datachannel: "none", "open", "closed"
  answer,    \* its create_answer: "none", "replacing", "negotiating", "over"
  before,    \* the peer connection whose close that awaits first, or 0
  peers,     \* _peers
  channels,  \* _channels, by the peer connection of the channel
  gone,      \* sessions whose client has left
  loop,      \* the relay's loop: <<"idle">>, or <<"answering" or "closing", what it waits for>>
  stop,      \* async_stop: "no", "closing", "done"
  ending,    \* what close_all took from _peers
  overlapped \* history: sessions of which an offer or the end came while replacing,
             \* or an offer after the end

pcvars == <<of, pc, channel, answer, before, peers, channels, gone, loop, stop, ending, overlapped>>

Made  == DOMAIN of
Fresh == Cardinality(Made) + 1

\* create_answer has stored the connection and bound its handlers.
Bound(i) == i \in Made /\ answer[i] # "replacing"

\* A create_answer of the session waits for the earlier peer to close.
Replacing(s) == \E i \in Made : of[i] = s /\ answer[i] = "replacing"
Overlap(s) ==
  overlapped' = IF Replacing(s) \/ s \in gone THEN overlapped \cup {s} ELSE overlapped

-----------------------------------------------------------------------------
(* Messages, over the relay or a datachannel. *)

Free == loop = <<"idle">> /\ stop = "no"

\* create_answer, up to the close of the earlier peer.  A client that has left
\* has its session again with an access request over a datachannel.
Offer(s) ==
  /\ Fresh \in Pcs
  /\ \/ Free /\ s \notin gone /\ loop' = <<"answering", Fresh>>
     \/ (\E i \in Made : of[i] = s /\ channel[i] = "open") /\ UNCHANGED loop
  /\ of' = [i \in Made \cup {Fresh} |-> IF i = Fresh THEN s ELSE of[i]]
  /\ pc' = [i \in Pcs |-> CASE i = Fresh -> "live" [] i = peers[s] -> "closing" [] OTHER -> pc[i]]
  /\ before' = [before EXCEPT ![Fresh] = peers[s]]
  /\ answer' = [answer EXCEPT ![Fresh] = IF peers[s] = 0 THEN "negotiating" ELSE "replacing"]
  /\ peers' = [peers EXCEPT ![s] = IF peers[s] = 0 THEN Fresh ELSE 0]
  /\ Overlap(s)
  /\ UNCHANGED <<channel, channels, gone, stop, ending>>

\* The loop is cancelled where it waits.
Cancelled(i) == stop = "done" /\ loop = <<"answering", i>>

\* The earlier peer is closed: the new one is stored, over whatever is there by now.
Replaced(i) ==
  /\ answer[i] = "replacing" /\ pc[before[i]] = "closed" /\ ~Cancelled(i)
  /\ peers' = [peers EXCEPT ![of[i]] = i]
  /\ answer' = [answer EXCEPT ![i] = "negotiating"]
  /\ UNCHANGED <<of, pc, channel, before, channels, gone, loop, stop, ending, overlapped>>

\* The answer is there, or the offer is refused, with the connection in _peers.
Negotiated(i) ==
  /\ answer[i] = "negotiating" /\ ~Cancelled(i)
  /\ answer' = [answer EXCEPT ![i] = "over"]
  /\ loop' = IF loop = <<"answering", i>> THEN <<"idle">> ELSE loop
  /\ UNCHANGED <<of, pc, channel, before, peers, channels, gone, stop, ending, overlapped>>

\* client_disconnected: discard_session, close(session).
Disconnected(s) ==
  /\ Free /\ s \notin gone
  /\ gone' = gone \cup {s}
  /\ channels' = [channels EXCEPT ![s] = 0]
  /\ peers' = [peers EXCEPT ![s] = 0]
  /\ pc' = [i \in Pcs |-> IF i = peers[s] THEN "closing" ELSE pc[i]]
  /\ loop' = IF peers[s] = 0 THEN loop ELSE <<"closing", peers[s]>>
  /\ Overlap(s)
  /\ UNCHANGED <<of, channel, answer, before, stop, ending>>

ClosedForIt ==
  /\ loop[1] = "closing" /\ pc[loop[2]] = "closed" /\ stop # "done"
  /\ loop' = <<"idle">>
  /\ UNCHANGED <<of, pc, channel, answer, before, peers, channels, gone, stop, ending, overlapped>>

-----------------------------------------------------------------------------
(* What aiortc reports. *)

ChannelOpens(i) ==
  /\ Bound(i) /\ pc[i] = "live" /\ channel[i] = "none"
  /\ channel' = [channel EXCEPT ![i] = "open"]
  /\ channels' = [channels EXCEPT ![of[i]] = i]
  /\ UNCHANGED <<of, pc, answer, before, peers, gone, loop, stop, ending, overlapped>>

\* mutant of ForgetChannel: whichever channel ends, the session's is forgotten
ForgetAnyChannel(i) == channels' = [channels EXCEPT ![of[i]] = 0]

ForgetChannel(i) == channels' = [s \in Sessions |-> IF channels[s] = i THEN 0 ELSE channels[s]]

ChannelEnds(i) ==
  /\ i \in Made /\ channel[i] = "open"
  /\ channel' = [channel EXCEPT ![i] = "closed"]
  /\ ForgetChannel(i)
  /\ UNCHANGED <<of, pc, answer, before, peers, gone, loop, stop, ending, overlapped>>

\* mutant of ForgetPeer: whichever connection ends, the session's is forgotten
ForgetAnyPeer(i) == peers' = [peers EXCEPT ![of[i]] = 0]

ForgetPeer(i) == peers' = [s \in Sessions |-> IF peers[s] = i THEN 0 ELSE peers[s]]

\* The connection is "failed" or "disconnected", or "closed" by the other side;
\* or the "closed" of a close() is reported, by when another may be listed.
StateEnds(i) ==
  /\ Bound(i)
  /\ pc' = [pc EXCEPT ![i] = IF @ = "live" THEN "closing" ELSE @]
  /\ ForgetPeer(i)
  /\ UNCHANGED <<of, channel, answer, before, channels, gone, loop, stop, ending, overlapped>>

CloseEnds(i) ==
  /\ i \in Made /\ pc[i] = "closing"
  /\ pc' = [pc EXCEPT ![i] = "closed"]
  /\ UNCHANGED <<of, channel, answer, before, peers, channels, gone, loop, stop, ending, overlapped>>

\* send_event raises once the connection closes, before the channel's end is
\* reported: the channel is forgotten.
SendFails(s) ==
  /\ channels[s] # 0 /\ pc[channels[s]] # "live"
  /\ channels' = [channels EXCEPT ![s] = 0]
  /\ UNCHANGED <<of, pc, channel, answer, before, peers, gone, loop, stop, ending, overlapped>>

-----------------------------------------------------------------------------
(* async_stop. *)

Listed == {i \in Made : \E s \in Sessions : peers[s] = i}

\* close_all takes what is listed.
Stop ==
  /\ stop = "no" /\ stop' = "closing"
  /\ ending' = Listed
  /\ channels' = [s \in Sessions |-> 0] /\ peers' = [s \in Sessions |-> 0]
  /\ UNCHANGED <<of, pc, channel, answer, before, gone, loop, overlapped>>

\* It closes one after the other, those that still run.
EndNext(i) ==
  /\ i \in ending /\ pc[i] = "live"
  /\ pc' = [pc EXCEPT ![i] = "closing"]
  /\ UNCHANGED <<of, channel, answer, before, peers, channels, gone, loop, stop, ending, overlapped>>

\* None is left; the loop is cancelled.
Stopped ==
  /\ stop = "closing" /\ \A i \in ending : pc[i] # "live"
  /\ stop' = "done"
  /\ UNCHANGED <<of, pc, channel, answer, before, peers, channels, gone, loop, ending, overlapped>>

-----------------------------------------------------------------------------
PeersInit ==
  /\ of = [i \in {} |-> 0]
  /\ pc = [i \in Pcs |-> "closed"] /\ channel = [i \in Pcs |-> "none"]
  /\ answer = [i \in Pcs |-> "none"] /\ before = [i \in Pcs |-> 0]
  /\ peers = [s \in Sessions |-> 0] /\ channels = [s \in Sessions |-> 0]
  /\ gone = {} /\ loop = <<"idle">> /\ stop = "no" /\ ending = {} /\ overlapped = {}

PeersNext ==
  \/ \E s \in Sessions : Offer(s) \/ Disconnected(s) \/ SendFails(s)
  \/ \E i \in Pcs :
       \/ Replaced(i) \/ Negotiated(i)
       \/ ChannelOpens(i) \/ ChannelEnds(i) \/ StateEnds(i) \/ CloseEnds(i) \/ EndNext(i)
  \/ ClosedForIt \/ Stop \/ Stopped

PeersSpec == PeersInit /\ [][PeersNext]_pcvars

-----------------------------------------------------------------------------
\* No peer connection is left behind: one that runs is its session's, and the
\* session's client is there; or create_answer holds it until its predecessor
\* is closed, or close_all until its turn comes.  So it is for every session of
\* which neither a second offer nor the end has come during that wait, nor an
\* offer after the end.  Offers over the relay never meet (the loop takes one
\* message at a time); one over a datachannel may meet any, or follow the end,
\* and then the code leaves a peer behind.  (A connection that create_answer
\* still holds when the loop is cancelled, or has stored since close_all took
\* its list, is never closed.)
NoneLeftBehind ==
  \A i \in Made :
    (pc[i] = "live" /\ of[i] \notin overlapped) =>
      \/ peers[of[i]] = i /\ of[i] \notin gone
      \/ answer[i] = "replacing"
      \/ i \in ending

\* Events reach the peer that the session has now: the end of an earlier
\* channel, however late it is reported, does not take the present one away.
\* The channel of a peer left behind may, once it opens (see NoneLeftBehind).
ChannelKept ==
  \A i \in Made :
    (stop = "no" /\ of[i] \notin overlapped /\ peers[of[i]] = i /\ channel[i] = "open")
      => channels[of[i]] = i
=============================================================================
