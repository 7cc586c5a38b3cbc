----------------------------- MODULE Wire_proofs ------------------------------
(***************************************************************************)
(* What holds of an encrypted session through the bridge, for any requests *)
(* and any number of changes and commands.  That frames come in step needs *)
(* both lines only (DownInStep, UpInStep).  What the client is fed at rest *)
(* is told from what is under way: while it listens and is not fed, a      *)
(* notice comes after the answer that would make it listen (Owed), since   *)
(* the subscription is asked for once (Once) and the notices of a session  *)
(* that is open are of restrictions (NoticesTame); and the last content    *)
(* with a value that comes has the present one (LatestComes).              *)
(***************************************************************************)
EXTENDS Wire, Integers, SequenceTheorems, TLAPS

Notices  == {<<"restricted">>, <<"revoked">>}
Asides   == ({"delta"} \X Nat) \cup Notices
Contents ==
  ({"answer"} \X Reqs \X Nat) \cup ({"refusal"} \X Reqs) \cup Asides \cup {<<"session_error">>}
Frames   == Nat \X Contents
Lanes    ==
  {<<"idle">>, <<"answered">>} \cup ({"serving"} \X Reqs) \cup ({"events"} \X Seq(Notices))
Stages   == {<<"idle">>, <<"due">>} \cup ({"events"} \X Seq(Notices))

WireTypeOK ==
  /\ library \in Libraries /\ first \in BOOLEAN
  /\ uplink \in {"up", "lost"} /\ ws \in {"open", "down"} /\ chan \in {"none", "open", "gone"}
  /\ requests \in [Reqs -> {"new", "sealing", "waiting", "answered", "failed"}]
  /\ number \in [Reqs -> Nat]
  /\ cSend \in Nat /\ cRecv \in Nat /\ sSend \in Nat /\ sRecv \in Nat
  /\ up \in Seq(Nat \X Reqs) /\ down \in Seq(Frames) /\ side \in Seq(Asides)
  /\ opening \subseteq Frames
  /\ listed \in BOOLEAN /\ live \in BOOLEAN /\ held \in BOOLEAN /\ closed \in BOOLEAN
  /\ lane \in Lanes /\ order \in Stages /\ outbox \in Seq(Notices)
  /\ version \in Nat /\ raised \in Seq(Nat) /\ pushes \in Seq(Nat)

\* What holds of any sequence, its Append, Head and Tail.
LEMMA Lines ==
  ASSUME NEW S, NEW s \in Seq(S)
  PROVE  /\ Len(s) \in Nat
         /\ s = <<>> <=> Len(s) = 0
         /\ \A i \in 1..Len(s) : s[i] \in S
         /\ \A x \in S : /\ Append(s, x) \in Seq(S) /\ Append(s, x) # <<>>
                         /\ Len(Append(s, x)) = Len(s) + 1
                         /\ Append(s, x)[Len(s) + 1] = x
                         /\ \A i \in 1..Len(s) : Append(s, x)[i] = s[i]
         /\ s # <<>> => /\ Len(s) > 0 /\ Head(s) = s[1] /\ Head(s) \in S
                        /\ Tail(s) \in Seq(S) /\ Len(Tail(s)) = Len(s) - 1
                        /\ \A i \in 1..(Len(s) - 1) : Tail(s)[i] = s[i + 1]
<1>1. /\ Len(s) \in Nat
      /\ s = <<>> <=> Len(s) = 0
      /\ \A i \in 1..Len(s) : s[i] \in S
  OBVIOUS
<1>2. ASSUME NEW x \in S
      PROVE  /\ Append(s, x) \in Seq(S) /\ Append(s, x) # <<>>
             /\ Len(Append(s, x)) = Len(s) + 1
             /\ Append(s, x)[Len(s) + 1] = x
             /\ \A i \in 1..Len(s) : Append(s, x)[i] = s[i]
  OBVIOUS
<1>3. s # <<>> => /\ Len(s) > 0 /\ Head(s) = s[1] /\ Head(s) \in S
                  /\ Tail(s) \in Seq(S) /\ Len(Tail(s)) = Len(s) - 1
                  /\ \A i \in 1..(Len(s) - 1) : Tail(s)[i] = s[i + 1]
  OBVIOUS
<1>4. QED BY <1>1, <1>2, <1>3

\* An element taken out of a sequence leaves a sequence of the same set, with the
\* same end if it was the first of several.
LEMMA TakenOut ==
  ASSUME NEW S, NEW s \in Seq(S), NEW i \in 1..Len(s)
  PROVE  /\ RemoveAt(s, i) \in Seq(S)
         /\ i = 1 => RemoveAt(s, i) = Tail(s)
<1>1. Len(s) \in Nat /\ i \in Nat /\ \A k \in 1..Len(s) : s[k] \in S BY Lines
<1>2. SubSeq(s, 1, i - 1) \in Seq(S)
  <2>1. \A k \in 1..(i - 1) : s[k] \in S BY <1>1
  <2>2. 1 \in Int /\ i - 1 \in Int BY <1>1
  <2>3. QED BY <2>1, <2>2, SubSeqProperties
<1>3. SubSeq(s, i + 1, Len(s)) \in Seq(S)
  <2>1. \A k \in (i + 1)..Len(s) : s[k] \in S BY <1>1
  <2>2. i + 1 \in Int /\ Len(s) \in Int BY <1>1
  <2>3. QED BY <2>1, <2>2, SubSeqProperties
<1>4. RemoveAt(s, i) \in Seq(S) BY <1>2, <1>3, ConcatProperties DEF RemoveAt
<1>5. ASSUME i = 1 PROVE RemoveAt(s, i) = Tail(s)
  <2>1. s # <<>> BY <1>1
  <2>2. Tail(s) = SubSeq(s, 2, Len(s)) BY <2>1, TailIsSubSeq
  <2>3. SubSeq(s, 1, 0) = <<>> BY SubSeqEmpty
  <2>4. Tail(s) \in Seq(S) BY <2>1, Lines
  <2>5. <<>> \o Tail(s) = Tail(s) BY <2>4, ConcatEmptySeq
  <2>6. RemoveAt(s, 1) = SubSeq(s, 1, 0) \o SubSeq(s, 2, Len(s)) BY DEF RemoveAt
  <2>7. QED BY <1>5, <2>2, <2>3, <2>5, <2>6
<1>6. QED BY <1>4, <1>5

\* The contents of frames, told apart.
LEMMA ContentFacts ==
  /\ \A r \in Reqs, n \in Nat : <<"answer", r, n>> \in Contents
  /\ \A r \in Reqs : <<"refusal", r>> \in Contents
  /\ <<"session_error">> \in Contents
  /\ Asides \subseteq Contents /\ Notices \subseteq Asides
  /\ \A n \in Nat : <<"delta", n>> \in Asides
  /\ \A x \in Contents : /\ x[1] \in {"answer", "refusal"} => x[2] \in Reqs
                         /\ x[1] = "answer" => x[3] \in Nat
                         /\ x[1] = "delta" => x[2] \in Nat
  /\ \A x \in Asides : x[1] \in {"delta", "restricted", "revoked"}
  /\ \A x \in Notices : x[1] \in {"restricted", "revoked"}
  /\ \A f \in Frames : f[1] \in Nat /\ f[2] \in Contents
  /\ \A n \in Nat, x \in Contents : <<n, x>> \in Frames
BY DEF Contents, Frames, Asides, Notices

\* Where the authority is in serving a frame, and in flushing.
LEMMA LaneFacts ==
  /\ <<"idle">> \in Lanes /\ <<"answered">> \in Lanes
  /\ \A r \in Reqs : <<"serving", r>> \in Lanes
  /\ \A s \in Seq(Notices) : <<"events", s>> \in Lanes
  /\ \A l \in Lanes : /\ l[1] \in {"idle", "answered", "serving", "events"}
                      /\ l[1] = "answered" => l = <<"answered">>
                      /\ l[1] = "serving" => l[2] \in Reqs /\ l = <<"serving", l[2]>>
                      /\ l[1] = "events" => l[2] \in Seq(Notices)
<1>1. ASSUME NEW l \in Lanes
      PROVE  /\ l[1] \in {"idle", "answered", "serving", "events"}
             /\ l[1] = "answered" => l = <<"answered">>
             /\ l[1] = "serving" => l[2] \in Reqs /\ l = <<"serving", l[2]>>
             /\ l[1] = "events" => l[2] \in Seq(Notices)
  <2>1. CASE l \in {<<"idle">>, <<"answered">>} BY <2>1
  <2>2. CASE l \in {"serving"} \X Reqs BY <2>2
  <2>3. CASE l \in {"events"} \X Seq(Notices) BY <2>3
  <2>4. QED BY <2>1, <2>2, <2>3 DEF Lanes
<1>2. QED BY <1>1 DEF Lanes

LEMMA StageFacts ==
  /\ <<"idle">> \in Stages /\ <<"due">> \in Stages
  /\ \A s \in Seq(Notices) : <<"events", s>> \in Stages
  /\ \A l \in Stages : l[1] = "events" => l[2] \in Seq(Notices)
<1>1. ASSUME NEW l \in Stages, l[1] = "events" PROVE l[2] \in Seq(Notices)
  <2>1. CASE l \in {<<"idle">>, <<"due">>} BY <1>1, <2>1
  <2>2. CASE l \in {"events"} \X Seq(Notices) BY <2>2
  <2>3. QED BY <2>1, <2>2 DEF Stages
<1>2. QED BY <1>1 DEF Stages

\* The content that enters the callback; those that give it a value, and which.
Enters(x)  == x[1] = "answer" /\ x[2] = Sub
Carries(x) == x[1] = "delta" \/ Enters(x)
Value(x)   == IF x[1] = "delta" THEN x[2] ELSE x[3]

\* What the application makes of a content.
LEMMA Heard ==
  ASSUME WireTypeOK, NEW x \in Contents, Hear(x)
  PROVE  /\ requests' \in [Reqs -> {"new", "sealing", "waiting", "answered", "failed"}]
         /\ listed' \in BOOLEAN
         /\ \A r \in Reqs : /\ requests'[r] = "new" <=> requests[r] = "new"
                            /\ requests'[r] = "sealing" <=> requests[r] = "sealing"
         /\ listed' => listed \/ Enters(x)
         /\ x = <<"restricted">> => ~listed'
         /\ Carries(x) /\ (Enters(x) => ~listed) /\ listed' => seen' = Value(x)
         /\ ~Carries(x) /\ listed' => listed /\ seen' = seen
<1>1. /\ requests \in [Reqs -> {"new", "sealing", "waiting", "answered", "failed"}]
      /\ listed \in BOOLEAN
  BY DEF WireTypeOK
<1>2. /\ x[1] \in {"answer", "refusal"} => x[2] \in Reqs BY ContentFacts
<1>3. CASE x[1] \in {"answer", "refusal"} /\ requests[x[2]] = "waiting"
  <2>1. /\ requests' = [requests EXCEPT ![x[2]] = "answered"]
        /\ IF x[1] = "answer" /\ x[2] = Sub THEN listed' = TRUE /\ seen' = x[3]
                                            ELSE UNCHANGED <<listed, seen>>
    BY <1>3 DEF Hear
  <2>2. x # <<"restricted">> BY <1>3
  <2>3. /\ requests' \in [Reqs -> {"new", "sealing", "waiting", "answered", "failed"}]
        /\ \A r \in Reqs : /\ requests'[r] = "new" <=> requests[r] = "new"
                           /\ requests'[r] = "sealing" <=> requests[r] = "sealing"
    BY <1>1, <1>2, <1>3, <2>1
  <2>4. x[1] # "delta" BY <1>3
  <2>5. QED BY <1>1, <2>1, <2>2, <2>3, <2>4 DEF Enters, Carries, Value
<1>4. CASE x[1] = "delta" /\ listed
  <2>1. seen' = x[2] /\ UNCHANGED <<requests, listed>> BY <1>4 DEF Hear
  <2>2. x # <<"restricted">> BY <1>4
  <2>3. QED BY <1>1, <1>4, <2>1, <2>2 DEF Enters, Carries, Value
<1>5. CASE x[1] = "restricted"
  <2>1. listed' = FALSE /\ UNCHANGED <<requests, seen>> BY <1>5 DEF Hear
  <2>2. QED BY <1>1, <1>5, <2>1 DEF Enters, Carries, Value
<1>6. CASE /\ ~(x[1] \in {"answer", "refusal"} /\ requests[x[2]] = "waiting")
           /\ ~(x[1] = "delta" /\ listed) /\ x[1] # "restricted"
  <2>1. UNCHANGED <<requests, listed, seen>> BY <1>6 DEF Hear
  <2>2. x # <<"restricted">> BY <1>6
  <2>3. QED BY <1>1, <1>6, <2>1, <2>2 DEF Enters, Carries, Value
<1>7. QED BY <1>3, <1>4, <1>5, <1>6

\* A frame that is written goes to the end of the line, or nowhere.
LEMMA Wrote ==
  ASSUME WireTypeOK, NEW x \in Contents, Written(x)
  PROVE  /\ sSend' = sSend + 1 /\ sSend' \in Nat /\ down' \in Seq(Frames)
         /\ ~(uplink = "up" /\ ws = "open") => down' = down
         /\ uplink = "up" /\ ws = "open" =>
              /\ Len(down') = Len(down) + 1 /\ down' # <<>>
              /\ down'[Len(down) + 1] = <<sSend, x>>
              /\ \A i \in 1..Len(down) : down'[i] = down[i]
<1> DEFINE f == <<sSend, x>>
<1>1. sSend \in Nat /\ down \in Seq(Frames) BY DEF WireTypeOK
<1>2. f \in Frames BY <1>1, ContentFacts
<1>3. /\ sSend' = sSend + 1
      /\ down' = IF uplink = "up" /\ ws = "open" THEN Append(down, f) ELSE down
  BY DEF Written
<1> HIDE DEF f
<1>4. /\ Append(down, f) \in Seq(Frames) /\ Append(down, f) # <<>>
      /\ Len(Append(down, f)) = Len(down) + 1
      /\ Append(down, f)[Len(down) + 1] = f
      /\ \A i \in 1..Len(down) : Append(down, f)[i] = down[i]
  BY <1>1, <1>2, Lines
<1>5. QED BY <1>1, <1>3, <1>4 DEF f

\* An event that is sent goes over the bridge or over the datachannel.
LEMMA SentTyped ==
  ASSUME WireTypeOK, NEW x \in Asides, Sent(x)
  PROVE  sSend' \in Nat /\ down' \in Seq(Frames) /\ side' \in Seq(Asides)
<1>1. x \in Contents BY ContentFacts
<1>2. CASE chan = "open"
  <2>1. side \in Seq(Asides) BY DEF WireTypeOK
  <2>2. Append(side, x) \in Seq(Asides) BY <2>1, Lines
  <2>3. QED BY <1>2, <2>2 DEF Sent, WireTypeOK
<1>3. CASE chan # "open"
  <2>1. Written(x) /\ UNCHANGED side BY <1>3 DEF Sent
  <2>2. QED BY <1>1, <2>1, Wrote DEF WireTypeOK
<1>4. QED BY <1>2, <1>3

\* A notice joins the outbox, which is then not empty.
LEMMA QueuedTyped ==
  ASSUME WireTypeOK, NEW x \in Notices
  PROVE  /\ Queued(x) \in Seq(Notices) /\ Queued(x) # <<>>
         /\ outbox = <<>> => Queued(x) = <<x>>
<1>1. outbox \in Seq(Notices) BY DEF WireTypeOK
<1>2. outbox # <<>> => Tail(outbox) \in Seq(Notices) BY <1>1, Lines
<1>3. Len(<<>>) = 0 /\ MaxOutbox \in Nat \ {0} BY WireAssumption
<1> DEFINE kept == IF Len(outbox) >= MaxOutbox THEN Tail(outbox) ELSE outbox
<1>4. kept \in Seq(Notices) BY <1>1, <1>2, <1>3
<1>5. outbox = <<>> => kept = <<>> BY <1>3
<1>6. Queued(x) = Append(kept, x) BY DEF Queued
<1> HIDE DEF kept
<1>7. Append(kept, x) \in Seq(Notices) /\ Append(kept, x) # <<>> BY <1>4, Lines
<1>8. Append(<<>>, x) = <<x>> OBVIOUS
<1>9. QED BY <1>5, <1>6, <1>7, <1>8

\* A flush sends the first of its events.
LEMMA FlushTyped ==
  ASSUME WireTypeOK, NEW events \in Seq(Notices), Flush(events)
  PROVE  /\ outbox' \in Seq(Notices) /\ order' \in Stages
         /\ sSend' \in Nat /\ down' \in Seq(Frames) /\ side' \in Seq(Asides)
<1>1. outbox' = <<>> /\ <<>> \in Seq(Notices) BY DEF Flush, PopOutbox
<1>2. CASE events = <<>> BY <1>1, <1>2, StageFacts DEF Flush, WireTypeOK
<1>3. CASE events # <<>>
  <2>1. order' = <<"events", Tail(events)>> /\ Sent(Head(events)) BY <1>3 DEF Flush
  <2>2. Tail(events) \in Seq(Notices) /\ Head(events) \in Notices BY <1>3, Lines
  <2>3. Head(events) \in Asides BY <2>2, ContentFacts
  <2>4. order' \in Stages BY <2>1, <2>2, StageFacts
  <2>5. QED BY <1>1, <2>1, <2>3, <2>4, SentTyped
<1>4. QED BY <1>2, <1>3

\* The steps of the client.
ClientSteps ==
  \/ \E r \in Reqs : Ask(r) \/ Sealed(r) \/ TimesOut(r)
  \/ Receive \/ ReceiveSide \/ Leave
  \/ \E f \in opening : Opened(f)

\* A frame for the authority joins the line, or is lost.
LEMMA WentUp ==
  ASSUME WireTypeOK, NEW n \in Nat, NEW r \in Reqs, Upward(<<n, r>>)
  PROVE  /\ up' \in Seq(Nat \X Reqs)
         /\ ~(uplink = "up" /\ ws = "open") => up' = up
         /\ uplink = "up" /\ ws = "open" =>
              /\ Len(up') = Len(up) + 1
              /\ up'[Len(up) + 1] = <<n, r>>
              /\ \A i \in 1..Len(up) : up'[i] = up[i]
<1> DEFINE f == <<n, r>>
<1>1. up \in Seq(Nat \X Reqs) /\ f \in Nat \X Reqs BY DEF WireTypeOK
<1>2. up' = IF uplink = "up" /\ ws = "open" THEN Append(up, f) ELSE up BY DEF Upward
<1> HIDE DEF f
<1>3. /\ Append(up, f) \in Seq(Nat \X Reqs)
      /\ Len(Append(up, f)) = Len(up) + 1
      /\ Append(up, f)[Len(up) + 1] = f
      /\ \A i \in 1..Len(up) : Append(up, f)[i] = up[i]
  BY <1>1, Lines
<1>4. QED BY <1>1, <1>2, <1>3 DEF f

\* The client's end.
LEMMA Ended ==
  ASSUME WireTypeOK, Ends
  PROVE  /\ ws' = "down" /\ down' = <<>> /\ side' = <<>> /\ opening' = opening
         /\ down' \in Seq(Frames) /\ side' \in Seq(Asides)
         /\ requests' \in [Reqs -> {"new", "sealing", "waiting", "answered", "failed"}]
         /\ \A r \in Reqs : /\ requests'[r] = "new" <=> requests[r] = "new"
                            /\ requests'[r] = "sealing" <=> requests[r] = "sealing"
<1>1. requests \in [Reqs -> {"new", "sealing", "waiting", "answered", "failed"}] BY DEF WireTypeOK
<1>2. requests' = [r \in Reqs |-> IF requests[r] = "waiting" THEN "failed" ELSE requests[r]]
  BY DEF Ends
<1>3. ws' = "down" /\ down' = <<>> /\ side' = <<>> /\ opening' = opening BY DEF Ends
<1>4. <<>> \in Seq(Frames) /\ <<>> \in Seq(Asides) OBVIOUS
<1>5. QED BY <1>1, <1>2, <1>3, <1>4

\* What becomes of the first frame in the line to the client: it is not the next
\* and ends the connection, or it leaves the line, and is heard at once or later.
LEMMA Received ==
  ASSUME WireTypeOK, Receive
  PROVE  /\ ws = "open" /\ down # <<>> /\ cRecv' = cRecv + 1
         /\ Head(down) \in Frames /\ Head(down) = down[1]
         /\ UNCHANGED <<library, first, uplink, chan, up, number, cSend, server, entity, orders>>
         /\ \A r \in Reqs : /\ requests'[r] = "new" <=> requests[r] = "new"
                            /\ requests'[r] = "sealing" <=> requests[r] = "sealing"
         /\ \/ /\ Ends /\ Head(down)[1] # cRecv /\ UNCHANGED <<listed, seen>>
            \/ /\ Head(down)[1] = cRecv /\ down' = Tail(down) /\ UNCHANGED <<ws, side>>
               /\ library = "noble" => Hear(Head(down)[2]) /\ UNCHANGED opening
               /\ library # "noble" => /\ UNCHANGED <<requests, listed, seen>>
                                       /\ opening' = opening \cup {Head(down)}
<1>1. ws = "open" /\ down # <<>> /\ cRecv' = cRecv + 1 BY DEF Receive
<1>2. Head(down) \in Frames /\ Head(down) = down[1] BY <1>1, Lines DEF WireTypeOK
<1>3. UNCHANGED <<library, first, uplink, chan, up, number, cSend, server, entity, orders>>
  BY DEF Receive, Same
<1>4. \/ /\ Ends /\ Head(down)[1] # cRecv /\ UNCHANGED <<listed, seen>>
      \/ /\ Head(down)[1] = cRecv /\ down' = Tail(down) /\ UNCHANGED <<ws, side>>
         /\ library = "noble" => Hear(Head(down)[2]) /\ UNCHANGED opening
         /\ library # "noble" => /\ UNCHANGED <<requests, listed, seen>>
                                 /\ opening' = opening \cup {Head(down)}
  BY DEF Receive, Decrypted
<1>5. Head(down)[2] \in Contents BY <1>2, ContentFacts
<1>6. \A r \in Reqs : /\ requests'[r] = "new" <=> requests[r] = "new"
                      /\ requests'[r] = "sealing" <=> requests[r] = "sealing"
  <2>1. CASE Ends BY <2>1, Ended
  <2>2. CASE Hear(Head(down)[2]) BY <1>5, <2>2, Heard
  <2>3. CASE UNCHANGED requests BY <2>3
  <2>4. QED BY <1>4, <2>1, <2>2, <2>3
<1>7. QED BY <1>1, <1>2, <1>3, <1>4, <1>6

\* Every step of the client keeps the types.
LEMMA ClientTyped ==
  ASSUME WireTypeOK, ClientSteps
  PROVE  WireTypeOK'
<1>1. ASSUME NEW r \in Reqs, Ask(r) PROVE WireTypeOK'
  <2>1. number' \in [Reqs -> Nat] /\ cSend' \in Nat BY <1>1 DEF Ask, Encrypted, WireTypeOK
  <2>2. cSend \in Nat BY DEF WireTypeOK
  <2>3. up' \in Seq(Nat \X Reqs)
    <3>1. CASE Upward(<<cSend, r>>) BY <2>2, <3>1, WentUp
    <3>2. CASE UNCHANGED up BY <3>2 DEF WireTypeOK
    <3>3. QED BY <1>1, <3>1, <3>2 DEF Ask
  <2>4. requests' \in [Reqs -> {"new", "sealing", "waiting", "answered", "failed"}]
    BY <1>1 DEF Ask, WireTypeOK
  <2>5. QED BY <1>1, <2>1, <2>3, <2>4 DEF Ask, Same, server, entity, WireTypeOK
<1>2. ASSUME NEW r \in Reqs, Sealed(r) PROVE WireTypeOK'
  <2>1. number[r] \in Nat BY DEF WireTypeOK
  <2>2. up' \in Seq(Nat \X Reqs) BY <1>2, <2>1, WentUp DEF Sealed
  <2>3. requests' \in [Reqs -> {"new", "sealing", "waiting", "answered", "failed"}]
    BY <1>2 DEF Sealed, WireTypeOK
  <2>4. QED BY <1>2, <2>2, <2>3 DEF Sealed, Same, server, entity, WireTypeOK
<1>3. ASSUME NEW r \in Reqs, TimesOut(r) PROVE WireTypeOK'
  <2>1. requests' \in [Reqs -> {"new", "sealing", "waiting", "answered", "failed"}]
    BY <1>3 DEF TimesOut, WireTypeOK
  <2>2. QED BY <1>3, <2>1 DEF TimesOut, Same, server, entity, WireTypeOK
<1>4. CASE Receive
  <2>1. cRecv' \in Nat BY <1>4, Received DEF WireTypeOK
  <2>2. Head(down) \in Frames /\ Head(down)[2] \in Contents BY <1>4, Received, ContentFacts
  <2>3. UNCHANGED <<library, first, uplink, chan, up, number, cSend, server, entity, orders>>
    BY <1>4, Received
  <2>4. CASE Ends /\ UNCHANGED <<listed, seen>>
    BY <2>1, <2>3, <2>4, Ended DEF server, entity, WireTypeOK
  <2>5. CASE /\ down' = Tail(down) /\ UNCHANGED <<ws, side>>
             /\ library = "noble" => Hear(Head(down)[2]) /\ UNCHANGED opening
             /\ library # "noble" => /\ UNCHANGED <<requests, listed, seen>>
                                     /\ opening' = opening \cup {Head(down)}
    <3>1. down' \in Seq(Frames) BY <1>4, <2>5, Received, Lines DEF WireTypeOK
    <3>2. opening' \subseteq Frames BY <2>2, <2>5 DEF WireTypeOK
    <3>3. /\ requests' \in [Reqs -> {"new", "sealing", "waiting", "answered", "failed"}]
          /\ listed' \in BOOLEAN
      <4>1. CASE library = "noble" BY <2>2, <2>5, <4>1, Heard
      <4>2. CASE library # "noble" BY <2>5, <4>2 DEF WireTypeOK
      <4>3. QED BY <4>1, <4>2
    <3>4. QED BY <2>1, <2>3, <2>5, <3>1, <3>2, <3>3 DEF server, entity, WireTypeOK
  <2>6. QED BY <1>4, <2>4, <2>5, Received
<1>5. CASE ReceiveSide
  <2>1. side \in Seq(Asides) /\ side # <<>> BY <1>5 DEF ReceiveSide, WireTypeOK
  <2>2. Head(side) \in Contents /\ Tail(side) \in Seq(Asides) BY <2>1, Lines, ContentFacts
  <2>3. Hear(Head(side)) /\ side' = Tail(side) BY <1>5 DEF ReceiveSide
  <2>4. /\ requests' \in [Reqs -> {"new", "sealing", "waiting", "answered", "failed"}]
        /\ listed' \in BOOLEAN
    BY <2>2, <2>3, Heard
  <2>5. QED BY <1>5, <2>2, <2>3, <2>4 DEF ReceiveSide, Same, server, entity, WireTypeOK
<1>6. CASE Leave
  <2>1. Ends BY <1>6 DEF Leave
  <2>2. QED BY <1>6, <2>1, Ended DEF Leave, Same, server, entity, WireTypeOK
<1>7. ASSUME NEW f \in opening, Opened(f) PROVE WireTypeOK'
  <2>1. f[2] \in Contents BY ContentFacts DEF WireTypeOK
  <2>2. Hear(f[2]) /\ opening' = opening \ {f} BY <1>7 DEF Opened
  <2>3. /\ requests' \in [Reqs -> {"new", "sealing", "waiting", "answered", "failed"}]
        /\ listed' \in BOOLEAN
    BY <2>1, <2>2, Heard
  <2>4. opening' \subseteq Frames BY <2>2 DEF WireTypeOK
  <2>5. QED BY <1>7, <2>3, <2>4 DEF Opened, Same, server, entity, WireTypeOK
<1>8. QED BY <1>1, <1>2, <1>3, <1>4, <1>5, <1>6, <1>7 DEF ClientSteps

\* So does every step of the authority, and of what is around it.
LEMMA ServerTyped ==
  ASSUME WireTypeOK, WireNext, ~ClientSteps
  PROVE  WireTypeOK'
<1>0. <<>> \in Seq(Notices) /\ <<"idle">> \in Lanes /\ <<"answered">> \in Lanes
  BY LaneFacts
<1>1. CASE Take
  <2>1. up \in Seq(Nat \X Reqs) /\ up # <<>> BY <1>1 DEF Take, WireTypeOK
  <2>2. Tail(up) \in Seq(Nat \X Reqs) /\ Head(up) \in Nat \X Reqs BY <2>1, Lines
  <2>3. Head(up)[2] \in Reqs BY <2>2
  <2>4. CASE Head(up)[1] = sRecv
    <3>1. /\ sRecv' = sRecv + 1 /\ lane' = <<"serving", Head(up)[2]>>
          /\ UNCHANGED <<sSend, down>> /\ up' = Tail(up)
      BY <1>1, <2>4 DEF Take
    <3>2. lane' \in Lanes /\ sRecv' \in Nat BY <2>3, <3>1, LaneFacts DEF WireTypeOK
    <3>3. QED BY <1>1, <2>2, <3>1, <3>2 DEF Take, Same, client, entity, WireTypeOK
  <2>5. CASE Head(up)[1] # sRecv
    <3>1. /\ lane' = <<"answered">> /\ UNCHANGED sRecv /\ up' = Tail(up)
          /\ Written(<<"session_error">>)
      BY <1>1, <2>5 DEF Take
    <3>2. sSend' \in Nat /\ down' \in Seq(Frames) BY <3>1, ContentFacts, Wrote
    <3>3. QED BY <1>0, <1>1, <2>2, <3>1, <3>2 DEF Take, Same, client, entity, WireTypeOK
  <2>6. QED BY <2>4, <2>5
<1>2. CASE Answer
  <2>1. lane[2] \in Reqs /\ version \in Nat BY <1>2, LaneFacts DEF Answer, WireTypeOK
  <2>2. sSend' \in Nat /\ down' \in Seq(Frames)
    <3>1. <<"refusal", lane[2]>> \in Contents /\ <<"answer", lane[2], version>> \in Contents
      BY <2>1, ContentFacts
    <3>2. Written(<<"refusal", lane[2]>>) \/ Written(<<"answer", lane[2], version>>)
      BY <1>2 DEF Answer
    <3>3. QED BY <3>1, <3>2, Wrote
  <2>3. held' \in BOOLEAN BY <1>2 DEF Answer, WireTypeOK
  <2>4. QED BY <1>0, <1>2, <2>2, <2>3 DEF Answer, Same, client, entity, WireTypeOK
<1>3. CASE Follow
  <2> DEFINE events == IF lane[1] = "answered" THEN outbox ELSE lane[2]
  <2>1. events \in Seq(Notices) BY <1>3, LaneFacts DEF Follow, WireTypeOK
  <2>2. IF events = <<>> THEN lane' = <<"idle">> /\ UNCHANGED <<sSend, down>>
                         ELSE lane' = <<"events", Tail(events)>> /\ Written(Head(events))
    BY <1>3 DEF Follow
  <2> HIDE DEF events
  <2>3. lane' \in Lanes /\ sSend' \in Nat /\ down' \in Seq(Frames)
    <3>1. CASE events = <<>> BY <1>0, <2>2, <3>1 DEF WireTypeOK
    <3>2. CASE events # <<>>
      <4>1. Tail(events) \in Seq(Notices) /\ Head(events) \in Notices BY <2>1, <3>2, Lines
      <4>2. Head(events) \in Contents BY <4>1, ContentFacts
      <4>3. QED BY <2>2, <3>2, <4>1, <4>2, LaneFacts, Wrote
    <3>3. QED BY <3>1, <3>2
  <2>4. outbox' \in Seq(Notices) BY <1>0, <1>3 DEF Follow, PopOutbox, WireTypeOK
  <2>5. QED BY <1>3, <2>3, <2>4 DEF Follow, Same, client, entity, WireTypeOK
<1>4. CASE Narrow
  <2>1. Queued(<<"restricted">>) \in Seq(Notices) BY QueuedTyped DEF Notices
  <2>2. /\ outbox' \in Seq(Notices) /\ order' \in Stages
        /\ sSend' \in Nat /\ down' \in Seq(Frames) /\ side' \in Seq(Asides)
    <3>1. CASE Flush(Queued(<<"restricted">>)) BY <2>1, <3>1, FlushTyped
    <3>2. CASE /\ outbox' = Queued(<<"restricted">>) /\ order' = <<"due">>
               /\ UNCHANGED <<sSend, down, side>>
      BY <2>1, <3>2, StageFacts DEF WireTypeOK
    <3>3. QED BY <1>4, <3>1, <3>2 DEF Narrow
  <2>3. QED BY <1>4, <2>2 DEF Narrow, Same, client, entity, WireTypeOK
<1>5. CASE FlushDue
  <2>1. /\ outbox' \in Seq(Notices) /\ order' \in Stages
        /\ sSend' \in Nat /\ down' \in Seq(Frames) /\ side' \in Seq(Asides)
    <3>1. CASE Flush(outbox) BY <3>1, FlushTyped DEF WireTypeOK
    <3>2. CASE order' = <<"idle">> /\ UNCHANGED <<outbox, sSend, down, side>>
      BY <3>2, StageFacts DEF WireTypeOK
    <3>3. QED BY <1>5, <3>1, <3>2 DEF FlushDue
  <2>2. QED BY <1>5, <2>1 DEF FlushDue, Same, client, entity, WireTypeOK
<1>6. CASE FlushNext
  <2>1. order[2] \in Seq(Notices) BY <1>6, StageFacts DEF FlushNext, WireTypeOK
  <2>2. /\ order' \in Stages
        /\ sSend' \in Nat /\ down' \in Seq(Frames) /\ side' \in Seq(Asides)
    <3>1. CASE order[2] = <<>>
      BY <1>6, <3>1, StageFacts DEF FlushNext, WireTypeOK
    <3>2. CASE order[2] # <<>>
      <4>1. Tail(order[2]) \in Seq(Notices) /\ Head(order[2]) \in Notices BY <2>1, <3>2, Lines
      <4>2. Head(order[2]) \in Asides BY <4>1, ContentFacts
      <4>3. order' = <<"events", Tail(order[2])>> /\ Sent(Head(order[2]))
        BY <1>6, <3>2 DEF FlushNext
      <4>4. order' \in Stages BY <4>1, <4>3, StageFacts
      <4>5. QED BY <4>2, <4>3, <4>4, SentTyped
    <3>3. QED BY <3>1, <3>2
  <2>3. QED BY <1>6, <2>2 DEF FlushNext, Same, client, entity, WireTypeOK
<1>7. CASE RevokeSession
  <2>1. outbox' \in Seq(Notices) BY <1>7, QueuedTyped DEF RevokeSession, Notices
  <2>2. QED BY <1>7, <2>1 DEF RevokeSession, Same, client, entity, WireTypeOK
<1>8. CASE Discard
  BY <1>0, <1>8 DEF Discard, Same, client, entity, WireTypeOK
<1>9. CASE LinkLost
  <2>1. <<>> \in Seq(Nat \X Reqs) OBVIOUS
  <2>2. QED BY <1>9, <2>1 DEF LinkLost, Same, client, server, entity, WireTypeOK
<1>10. CASE Channel
  BY <1>10 DEF Channel, Same, client, server, entity, WireTypeOK
<1>11. CASE Change
  <2>1. version + 1 \in Nat /\ raised \in Seq(Nat) BY DEF WireTypeOK
  <2>2. raised' \in Seq(Nat) /\ version' \in Nat BY <1>11, <2>1, Lines DEF Change
  <2>3. QED BY <1>11, <2>2 DEF Change, Same, client, server, WireTypeOK
<1>12. CASE PushStarts
  <2>1. raised \in Seq(Nat) /\ raised # <<>> /\ pushes \in Seq(Nat)
    BY <1>12 DEF PushStarts, WireTypeOK
  <2>2. Tail(raised) \in Seq(Nat) /\ Head(raised) \in Nat BY <2>1, Lines
  <2>3. Append(pushes, Head(raised)) \in Seq(Nat) BY <2>1, <2>2, Lines
  <2>4. raised' \in Seq(Nat) /\ pushes' \in Seq(Nat) BY <1>12, <2>1, <2>2, <2>3 DEF PushStarts
  <2>5. QED BY <1>12, <2>4 DEF PushStarts, Same, client, server, WireTypeOK
<1>13. ASSUME NEW i \in DOMAIN pushes, PushGoes(i) PROVE WireTypeOK'
  <2>1. pushes \in Seq(Nat) /\ DOMAIN pushes = 1..Len(pushes) BY DEF WireTypeOK
  <2>2. pushes' \in Seq(Nat) BY <1>13, <2>1, TakenOut DEF PushGoes
  <2>3. pushes[i] \in Nat BY <2>1, Lines
  <2>4. <<"delta", pushes[i]>> \in Asides BY <2>3, ContentFacts
  <2>5. sSend' \in Nat /\ down' \in Seq(Frames) /\ side' \in Seq(Asides)
    <3>1. CASE Sent(<<"delta", pushes[i]>>) BY <2>4, <3>1, SentTyped
    <3>2. CASE UNCHANGED <<sSend, down, side>> BY <3>2 DEF WireTypeOK
    <3>3. QED BY <1>13, <3>1, <3>2 DEF PushGoes
  <2>6. QED BY <1>13, <2>2, <2>5 DEF PushGoes, Same, client, WireTypeOK
<1>14. QED
  BY <1>1, <1>2, <1>3, <1>4, <1>5, <1>6, <1>7, <1>8, <1>9, <1>10, <1>11, <1>12, <1>13
  DEF WireNext, ClientSteps

\* A frame is written: with an answer by Answer only, with a delta by a push.
Goes   == \E i \in DOMAIN pushes : PushGoes(i)
Writes ==
  \E x \in Contents : /\ Written(x) /\ (Enters(x) => Answer)
                      /\ x[1] = "delta" => Goes

\* A step of the authority writes one frame at most, and is none of the client's.
LEMMA OneWritten ==
  ASSUME WireTypeOK, WireNext, ~ClientSteps
  PROVE  /\ UNCHANGED <<library, first, ws, client, opening>>
         /\ uplink' = uplink \/ uplink' = "lost"
         /\ \/ UNCHANGED <<sSend, down>>
            \/ Writes
<1>1. UNCHANGED <<library, first, ws, client, opening>> /\ (uplink' = uplink \/ uplink' = "lost")
  <2>1. ASSUME Take \/ Answer \/ Follow PROVE UNCHANGED <<library, first, uplink, ws, client>>
    BY <2>1 DEF Take, Answer, Follow, Same
  <2>2. ASSUME Narrow \/ FlushDue \/ FlushNext PROVE UNCHANGED <<library, first, uplink, ws, client>>
    BY <2>2 DEF Narrow, FlushDue, FlushNext, Same
  <2>3. ASSUME RevokeSession \/ Discard \/ Channel \/ Change \/ PushStarts
        PROVE  UNCHANGED <<library, first, uplink, ws, client>>
    BY <2>3 DEF RevokeSession, Discard, Channel, Change, PushStarts, Same
  <2>4. ASSUME LinkLost PROVE UNCHANGED <<library, first, ws, client>> /\ uplink' = "lost"
    BY <2>4 DEF LinkLost, Same
  <2>5. ASSUME NEW i \in DOMAIN pushes, PushGoes(i)
        PROVE  UNCHANGED <<library, first, uplink, ws, client>>
    BY <2>5 DEF PushGoes, Same
  <2>6. QED BY <2>1, <2>2, <2>3, <2>4, <2>5 DEF WireNext, ClientSteps, client
<1> DEFINE Still == UNCHANGED <<sSend, down>>
<1>2. ASSUME NEW x \in Notices, Sent(x) \/ Written(x) PROVE Still \/ Writes
  <2>1. Still \/ Written(x) BY <1>2 DEF Sent
  <2>2. x \in Contents /\ x[1] # "delta" /\ ~Enters(x) BY ContentFacts DEF Enters
  <2>3. QED BY <2>1, <2>2 DEF Writes
<1>3. ASSUME NEW events \in Seq(Notices), Flush(events) PROVE Still \/ Writes
  <2>1. CASE events = <<>> BY <1>3, <2>1 DEF Flush
  <2>2. CASE events # <<>>
    <3>1. Head(events) \in Notices BY <2>2, Lines
    <3>2. Sent(Head(events)) BY <1>3, <2>2 DEF Flush
    <3>3. QED BY <1>2, <3>1, <3>2
  <2>3. QED BY <2>1, <2>2
<1>4. ASSUME Take PROVE Still \/ Writes
  <2>1. Still \/ Written(<<"session_error">>) BY <1>4 DEF Take
  <2>2. <<"session_error">> \in Contents BY ContentFacts
  <2>3. <<"session_error">>[1] # "delta" /\ ~Enters(<<"session_error">>) BY DEF Enters
  <2>4. QED BY <2>1, <2>2, <2>3 DEF Writes
<1>5. ASSUME Answer PROVE Still \/ Writes
  <2>1. lane[2] \in Reqs /\ version \in Nat BY <1>5, LaneFacts DEF Answer, WireTypeOK
  <2>2. Written(<<"refusal", lane[2]>>) \/ Written(<<"answer", lane[2], version>>)
    BY <1>5 DEF Answer
  <2>3. <<"refusal", lane[2]>> \in Contents /\ <<"answer", lane[2], version>> \in Contents
    BY <2>1, ContentFacts
  <2>4. <<"refusal", lane[2]>>[1] # "delta" /\ <<"answer", lane[2], version>>[1] # "delta" OBVIOUS
  <2>5. QED BY <1>5, <2>2, <2>3, <2>4 DEF Writes
<1>6. ASSUME Follow PROVE Still \/ Writes
  <2> DEFINE events == IF lane[1] = "answered" THEN outbox ELSE lane[2]
  <2>1. events \in Seq(Notices) BY <1>6, LaneFacts DEF Follow, WireTypeOK
  <2>2. Still \/ (events # <<>> /\ Written(Head(events))) BY <1>6 DEF Follow
  <2> HIDE DEF events
  <2>3. events # <<>> => Head(events) \in Notices BY <2>1, Lines
  <2>4. QED BY <1>2, <2>2, <2>3
<1>7. ASSUME Narrow PROVE Still \/ Writes
  <2>1. Queued(<<"restricted">>) \in Seq(Notices) BY QueuedTyped DEF Notices
  <2>2. Still \/ Flush(Queued(<<"restricted">>)) BY <1>7 DEF Narrow
  <2>3. QED BY <1>3, <2>1, <2>2
<1>8. ASSUME FlushDue PROVE Still \/ Writes
  <2>1. outbox \in Seq(Notices) BY DEF WireTypeOK
  <2>2. Still \/ Flush(outbox) BY <1>8 DEF FlushDue
  <2>3. QED BY <1>3, <2>1, <2>2
<1>9. ASSUME FlushNext PROVE Still \/ Writes
  <2>1. order[2] \in Seq(Notices) BY <1>9, StageFacts DEF FlushNext, WireTypeOK
  <2>2. Still \/ (order[2] # <<>> /\ Sent(Head(order[2]))) BY <1>9 DEF FlushNext
  <2>3. order[2] # <<>> => Head(order[2]) \in Notices BY <2>1, Lines
  <2>4. QED BY <1>2, <2>2, <2>3
<1>10. ASSUME RevokeSession \/ Discard \/ LinkLost \/ Channel \/ Change \/ PushStarts PROVE Still
  BY <1>10 DEF RevokeSession, Discard, LinkLost, Channel, Change, PushStarts, Same, server
<1>11. ASSUME NEW i \in DOMAIN pushes, PushGoes(i) PROVE Still \/ Writes
  <2>1. pushes[i] \in Nat BY DEF WireTypeOK
  <2>2. <<"delta", pushes[i]>> \in Contents BY <2>1, ContentFacts
  <2>3. ~Enters(<<"delta", pushes[i]>>) BY DEF Enters
  <2>4. Still \/ Written(<<"delta", pushes[i]>>) BY <1>11 DEF PushGoes, Sent
  <2>5. Goes BY <1>11 DEF Goes
  <2>6. QED BY <2>2, <2>3, <2>4, <2>5 DEF Writes
<1>12. Still \/ Writes
  <2> HIDE DEF Still
  <2>1. QED
    BY <1>4, <1>5, <1>6, <1>7, <1>8, <1>9, <1>10, <1>11 DEF WireNext, ClientSteps
<1>13. QED BY <1>1, <1>12

\* The frames under way to the client, and the next to come, are the next for it.
DownInStep ==
  ws = "open" =>
    /\ \A i \in 1..Len(down) : down[i][1] = cRecv + i - 1
    /\ uplink = "up" => sSend = cRecv + Len(down)

\* A request that is encrypted at once or alone has the number that is next.
Sealing == {r \in Reqs : requests[r] = "sealing"}
UpInStep ==
  library # "webcrypto" =>
    /\ \A i \in 1..Len(up) : up[i][1] = sRecv + i - 1
    /\ \A q, r \in Sealing : q = r
    /\ library = "noble" => Sealing = {}
    /\ (uplink = "up" /\ ws = "open") =>
         /\ Sealing = {} => cSend = sRecv + Len(up)
         /\ \A r \in Sealing : number[r] = sRecv + Len(up) /\ cSend = number[r] + 1

\* The client's line stays in step: a frame joins with the nonce that follows, and
\* the first leaves as the client counts it.
LEMMA DownKept ==
  ASSUME WireTypeOK, DownInStep, WireNext
  PROVE  DownInStep'
<1>0. /\ cRecv \in Nat /\ sSend \in Nat /\ down \in Seq(Frames) /\ Len(down) \in Nat
      /\ ws \in {"open", "down"} /\ uplink \in {"up", "lost"}
  BY Lines DEF WireTypeOK
<1>1. ASSUME UNCHANGED <<ws, uplink, cRecv, sSend, down>> PROVE DownInStep'
  BY <1>1 DEF DownInStep
<1>2. CASE ~ClientSteps
  <2>1. UNCHANGED <<ws, cRecv>> /\ (uplink' = uplink \/ uplink' = "lost")
    BY <1>2, OneWritten DEF client
  <2>2. ASSUME UNCHANGED <<sSend, down>> PROVE DownInStep' BY <2>1, <2>2 DEF DownInStep
  <2>3. ASSUME NEW x \in Contents, Written(x) PROVE DownInStep'
    <3>1. CASE uplink = "up" /\ ws = "open"
      <4>1. /\ sSend' = sSend + 1 /\ Len(down') = Len(down) + 1
            /\ down'[Len(down) + 1] = <<sSend, x>>
            /\ \A i \in 1..Len(down) : down'[i] = down[i]
        BY <2>3, <3>1, Wrote
      <4>2. sSend = cRecv + Len(down) /\ \A i \in 1..Len(down) : down[i][1] = cRecv + i - 1
        BY <3>1 DEF DownInStep
      <4>3. down'[Len(down) + 1][1] = cRecv + Len(down) BY <4>1, <4>2
      <4>4. \A i \in 1..Len(down') : down'[i][1] = cRecv + i - 1
        <5> TAKE i \in 1..Len(down')
        <5>1. CASE i \in 1..Len(down)
          <6>1. down'[i] = down[i] BY <4>1, <5>1
          <6>2. QED BY <4>2, <5>1, <6>1
        <5>2. CASE i = Len(down) + 1 BY <1>0, <4>3, <5>2
        <5>3. Len(down') = Len(down) + 1 BY <4>1
        <5>4. QED BY <1>0, <5>1, <5>2, <5>3
      <4>5. sSend' = cRecv + Len(down')
        <5>1. sSend' = sSend + 1 /\ Len(down') = Len(down) + 1 BY <4>1
        <5>2. sSend = cRecv + Len(down) BY <4>2
        <5>3. QED BY <1>0, <5>1, <5>2
      <4>6. QED BY <2>1, <4>4, <4>5 DEF DownInStep
    <3>2. CASE ~(uplink = "up" /\ ws = "open")
      <4>1. down' = down BY <2>3, <3>2, Wrote
      <4>2. QED BY <2>1, <3>2, <4>1 DEF DownInStep
    <3>3. QED BY <3>1, <3>2
  <2>4. CASE UNCHANGED <<sSend, down>> BY <2>2, <2>4
  <2>5. CASE Writes BY <2>3, <2>5 DEF Writes
  <2>6. QED BY <1>2, <2>4, <2>5, OneWritten
<1>3. CASE Receive
  <2>1. UNCHANGED <<uplink, sSend>> /\ cRecv' = cRecv + 1 /\ down # <<>> /\ ws = "open"
    BY <1>3, Received DEF server
  <2>2. CASE Ends BY <2>2 DEF Ends, DownInStep
  <2>3. CASE down' = Tail(down) /\ UNCHANGED ws
    <3>1. /\ Len(down) > 0 /\ Len(down') = Len(down) - 1
          /\ \A i \in 1..(Len(down) - 1) : down'[i] = down[i + 1]
      BY <1>0, <2>1, <2>3, Lines
    <3>2. \A i \in 1..Len(down) : down[i][1] = cRecv + i - 1 BY <2>1 DEF DownInStep
    <3>3. \A i \in 1..Len(down') : down'[i][1] = cRecv' + i - 1
      <4> TAKE i \in 1..Len(down')
      <4>1. i + 1 \in 1..Len(down) /\ down'[i] = down[i + 1] BY <1>0, <3>1
      <4>2. down[i + 1][1] = cRecv + (i + 1) - 1 BY <3>2, <4>1
      <4>3. i \in Nat BY <1>0, <3>1
      <4>4. QED BY <1>0, <2>1, <4>1, <4>2, <4>3
    <3>4. uplink = "up" => sSend = cRecv + Len(down) BY <2>1 DEF DownInStep
    <3>5. uplink' = "up" => sSend' = cRecv' + Len(down') BY <1>0, <2>1, <3>1, <3>4
    <3>6. QED BY <3>3, <3>5 DEF DownInStep
  <2>4. QED BY <1>3, <2>2, <2>3, Received
<1>4. CASE Leave BY <1>4 DEF Leave, Ends, DownInStep
<1>5. ASSUME NEW r \in Reqs, Ask(r) \/ Sealed(r) \/ TimesOut(r) PROVE DownInStep'
  BY <1>1, <1>5 DEF Ask, Sealed, TimesOut, Same, server
<1>6. CASE ReceiveSide BY <1>1, <1>6 DEF ReceiveSide, Same, server
<1>7. ASSUME NEW f \in opening, Opened(f) PROVE DownInStep'
  BY <1>1, <1>7 DEF Opened, Same, server
<1>8. QED BY <1>2, <1>3, <1>4, <1>5, <1>6, <1>7 DEF ClientSteps

\* Whatever leaves the requests that are being encrypted, and the numbers, alone.
LEMMA UpStill ==
  ASSUME UpInStep, UNCHANGED <<library, number, cSend, sRecv, up>>,
         \A r \in Reqs : requests'[r] = "sealing" <=> requests[r] = "sealing",
         uplink' = "up" => uplink = "up", ws' = "open" => ws = "open"
  PROVE  UpInStep'
<1>1. Sealing' = Sealing BY DEF Sealing
<1>2. QED BY <1>1 DEF UpInStep

\* So does the authority's.
LEMMA UpKept ==
  ASSUME WireTypeOK, UpInStep, WireNext
  PROVE  UpInStep'
<1>0. /\ cSend \in Nat /\ sRecv \in Nat /\ up \in Seq(Nat \X Reqs) /\ Len(up) \in Nat
      /\ number \in [Reqs -> Nat]
      /\ requests \in [Reqs -> {"new", "sealing", "waiting", "answered", "failed"}]
  BY Lines DEF WireTypeOK
<1>1. ASSUME NEW r \in Reqs, Ask(r) PROVE UpInStep'
  <2>1. /\ UNCHANGED <<library, uplink, ws, sRecv>> /\ requests[r] = "new"
        /\ number' = [number EXCEPT ![r] = cSend] /\ cSend' = cSend + 1 /\ ws = "open"
    BY <1>1 DEF Ask, Same, Encrypted, server
  <2> SUFFICES ASSUME library # "webcrypto" PROVE UpInStep' BY <2>1 DEF UpInStep
  <2>2. CASE library = "noble"
    <3>1. requests' = [requests EXCEPT ![r] = "waiting"] /\ Upward(<<cSend, r>>)
      BY <1>1, <2>2 DEF Ask
    <3>2. Sealing' = Sealing BY <1>0, <2>1, <3>1 DEF Sealing
    <3>3. Sealing = {} /\ \A i \in 1..Len(up) : up[i][1] = sRecv + i - 1
      BY <2>2 DEF UpInStep
    <3>4. CASE uplink = "up"
      <4>1. /\ Len(up') = Len(up) + 1 /\ up'[Len(up) + 1] = <<cSend, r>>
            /\ \A i \in 1..Len(up) : up'[i] = up[i]
        BY <1>0, <2>1, <3>1, <3>4, WentUp
      <4>2. cSend = sRecv + Len(up) BY <2>1, <2>2, <3>3, <3>4 DEF UpInStep
      <4>3. up'[Len(up) + 1][1] = sRecv + Len(up) BY <4>1, <4>2
      <4>4. \A i \in 1..Len(up') : up'[i][1] = sRecv + i - 1
        <5> TAKE i \in 1..Len(up')
        <5>1. CASE i \in 1..Len(up)
          <6>1. up'[i] = up[i] BY <4>1, <5>1
          <6>2. QED BY <3>3, <5>1, <6>1
        <5>2. CASE i = Len(up) + 1 BY <1>0, <4>3, <5>2
        <5>3. Len(up') = Len(up) + 1 BY <4>1
        <5>4. QED BY <1>0, <5>1, <5>2, <5>3
      <4>5. cSend' = sRecv' + Len(up') BY <1>0, <2>1, <4>1, <4>2
      <4>6. QED BY <2>1, <3>2, <3>3, <4>4, <4>5 DEF UpInStep
    <3>5. CASE uplink # "up"
      <4>1. up' = up BY <1>0, <3>1, <3>5, WentUp
      <4>2. QED BY <2>1, <3>2, <3>3, <3>5, <4>1 DEF UpInStep
    <3>6. QED BY <3>4, <3>5
  <2>3. CASE library # "noble"
    <3>1. requests' = [requests EXCEPT ![r] = "sealing"] /\ UNCHANGED up
      BY <1>1, <2>3 DEF Ask
    <3>2. library = "serial"
      <4>1. library \in {"noble", "webcrypto", "serial"} BY WireAssumption DEF WireTypeOK
      <4>2. QED BY <2>3, <4>1
    <3>3. \A q \in Reqs : requests[q] # "sealing" BY <1>1, <3>2 DEF Ask
    <3>4. Sealing = {} /\ Sealing' = {r} BY <1>0, <3>1, <3>3 DEF Sealing
    <3>5. \A i \in 1..Len(up) : up[i][1] = sRecv + i - 1 BY DEF UpInStep
    <3>6. uplink = "up" => cSend = sRecv + Len(up) BY <2>1, <3>4 DEF UpInStep
    <3>7. number'[r] = cSend BY <1>0, <2>1
    <3>8. library' # "noble" BY <2>1, <2>3
    <3>9. QED BY <2>1, <3>1, <3>4, <3>5, <3>6, <3>7, <3>8 DEF UpInStep
  <2>4. QED BY <2>2, <2>3
<1>2. ASSUME NEW r \in Reqs, Sealed(r) PROVE UpInStep'
  <2>1. /\ UNCHANGED <<library, uplink, ws, number, cSend, sRecv>> /\ requests[r] = "sealing"
        /\ requests' = [requests EXCEPT ![r] = "waiting"] /\ Upward(<<number[r], r>>)
    BY <1>2 DEF Sealed, Same, server
  <2> SUFFICES ASSUME library # "webcrypto" PROVE UpInStep' BY <2>1 DEF UpInStep
  <2>2. r \in Sealing BY <2>1 DEF Sealing
  <2>3. \A q \in Sealing : q = r BY <2>2 DEF UpInStep
  <2>4. Sealing' = {} BY <1>0, <2>1, <2>3 DEF Sealing
  <2>5. \A i \in 1..Len(up) : up[i][1] = sRecv + i - 1 BY DEF UpInStep
  <2>6. number[r] \in Nat BY <1>0
  <2>7. CASE uplink = "up" /\ ws = "open"
    <3>1. number[r] = sRecv + Len(up) /\ cSend = number[r] + 1 BY <2>2, <2>7 DEF UpInStep
    <3>2. /\ Len(up') = Len(up) + 1 /\ up'[Len(up) + 1] = <<number[r], r>>
          /\ \A i \in 1..Len(up) : up'[i] = up[i]
      BY <2>1, <2>6, <2>7, WentUp
    <3>3. up'[Len(up) + 1][1] = sRecv + Len(up) BY <3>1, <3>2
    <3>4. \A i \in 1..Len(up') : up'[i][1] = sRecv + i - 1
      <4> TAKE i \in 1..Len(up')
      <4>1. CASE i \in 1..Len(up)
        <5>1. up'[i] = up[i] BY <3>2, <4>1
        <5>2. QED BY <2>5, <4>1, <5>1
      <4>2. CASE i = Len(up) + 1 BY <1>0, <3>3, <4>2
      <4>3. Len(up') = Len(up) + 1 BY <3>2
      <4>4. QED BY <1>0, <4>1, <4>2, <4>3
    <3>5. cSend' = sRecv' + Len(up') BY <1>0, <2>1, <3>1, <3>2
    <3>6. QED BY <2>1, <2>4, <3>4, <3>5 DEF UpInStep
  <2>8. CASE ~(uplink = "up" /\ ws = "open")
    <3>1. up' = up BY <2>1, <2>6, <2>8, WentUp
    <3>2. QED BY <2>1, <2>4, <2>5, <2>8, <3>1 DEF UpInStep
  <2>9. QED BY <2>7, <2>8
<1>3. ASSUME NEW r \in Reqs, TimesOut(r) PROVE UpInStep'
  <2>1. \A q \in Reqs : requests'[q] = "sealing" <=> requests[q] = "sealing"
    BY <1>0, <1>3 DEF TimesOut
  <2>2. UNCHANGED <<library, number, cSend, sRecv, up, uplink, ws>>
    BY <1>3 DEF TimesOut, Same, server
  <2>3. QED BY <2>1, <2>2, UpStill
<1>4. CASE Receive
  <2>1. ws = "open" /\ UNCHANGED <<library, uplink, number, cSend, up, sRecv>>
    BY <1>4, Received DEF server
  <2>2. \A q \in Reqs : requests'[q] = "sealing" <=> requests[q] = "sealing"
    BY <1>4, Received
  <2>3. QED BY <2>1, <2>2, UpStill
<1>5. CASE ReceiveSide
  <2>1. UNCHANGED <<library, uplink, ws, number, cSend, up, sRecv>>
    BY <1>5 DEF ReceiveSide, Same, server
  <2>2. side \in Seq(Asides) /\ side # <<>> BY <1>5 DEF ReceiveSide, WireTypeOK
  <2>3. Head(side) \in Contents BY <2>2, Lines, ContentFacts
  <2>4. Hear(Head(side)) BY <1>5 DEF ReceiveSide
  <2>5. \A q \in Reqs : requests'[q] = "sealing" <=> requests[q] = "sealing"
    BY <2>3, <2>4, Heard
  <2>6. QED BY <2>1, <2>5, UpStill
<1>6. CASE Leave
  <2>1. Ends BY <1>6 DEF Leave
  <2>2. UNCHANGED <<library, uplink, number, cSend, up, sRecv>> BY <1>6 DEF Leave, Same, server
  <2>3. /\ ws' = "down"
        /\ \A q \in Reqs : requests'[q] = "sealing" <=> requests[q] = "sealing"
    BY <2>1, Ended
  <2>4. QED BY <2>2, <2>3, UpStill
<1>7. ASSUME NEW f \in opening, Opened(f) PROVE UpInStep'
  <2>1. UNCHANGED <<library, uplink, ws, number, cSend, up, sRecv>>
    BY <1>7 DEF Opened, Same, server
  <2>2. f[2] \in Contents BY ContentFacts DEF WireTypeOK
  <2>3. Hear(f[2]) BY <1>7 DEF Opened
  <2>4. \A q \in Reqs : requests'[q] = "sealing" <=> requests[q] = "sealing"
    BY <2>2, <2>3, Heard
  <2>5. QED BY <2>1, <2>4, UpStill
<1>8. CASE Take
  <2>1. /\ UNCHANGED <<library, uplink, ws, requests, number, cSend>> /\ uplink = "up"
        /\ up # <<>> /\ up' = Tail(up)
        /\ Head(up)[1] = sRecv => sRecv' = sRecv + 1
    BY <1>8 DEF Take, Same, client
  <2> SUFFICES ASSUME library # "webcrypto" PROVE UpInStep' BY <2>1 DEF UpInStep
  <2>2. Sealing' = Sealing BY <2>1 DEF Sealing
  <2>3. /\ \A i \in 1..Len(up) : up[i][1] = sRecv + i - 1
        /\ \A q, r \in Sealing : q = r
        /\ library = "noble" => Sealing = {}
    BY DEF UpInStep
  <2>4. /\ Len(up) > 0 /\ Head(up) = up[1] /\ Len(up') = Len(up) - 1
        /\ \A i \in 1..(Len(up) - 1) : up'[i] = up[i + 1]
    BY <1>0, <2>1, Lines
  <2>5. Head(up)[1] = sRecv
    <3>1. 1 \in 1..Len(up) BY <1>0, <2>4
    <3>2. up[1][1] = sRecv + 1 - 1 BY <2>3, <3>1
    <3>3. QED BY <1>0, <2>4, <3>2
  <2>6. sRecv' = sRecv + 1 BY <2>1, <2>5
  <2>7. \A i \in 1..Len(up') : up'[i][1] = sRecv' + i - 1
    <3> TAKE i \in 1..Len(up')
    <3>1. i \in Nat /\ i + 1 \in 1..Len(up) /\ up'[i] = up[i + 1] BY <1>0, <2>4
    <3>2. up[i + 1][1] = sRecv + (i + 1) - 1 BY <2>3, <3>1
    <3>3. QED BY <1>0, <2>6, <3>1, <3>2
  <2>8. sRecv' + Len(up') = sRecv + Len(up) BY <1>0, <2>4, <2>6
  <2>9. QED BY <2>1, <2>2, <2>3, <2>7, <2>8 DEF UpInStep
<1>9. CASE LinkLost
  <2>1. /\ UNCHANGED <<library, requests, number, cSend, sRecv>>
        /\ uplink' = "lost" /\ up' = <<>>
    BY <1>9 DEF LinkLost, Same, client, server
  <2>2. Sealing' = Sealing BY <2>1 DEF Sealing
  <2>3. Len(up') = 0 BY <2>1
  <2>4. QED BY <2>1, <2>2, <2>3 DEF UpInStep
<1>10. CASE \/ Answer \/ Follow \/ Narrow \/ FlushDue \/ FlushNext \/ RevokeSession
            \/ Discard \/ Channel \/ Change \/ PushStarts \/ \E i \in DOMAIN pushes : PushGoes(i)
  <2>1. UNCHANGED <<library, uplink, ws, requests, number, cSend, up, sRecv>>
    <3>1. ASSUME Answer \/ Follow \/ Narrow \/ FlushDue \/ FlushNext
          PROVE  UNCHANGED <<library, uplink, ws, requests, number, cSend, up, sRecv>>
      BY <3>1 DEF Answer, Follow, Narrow, FlushDue, FlushNext, Same, client
    <3>2. ASSUME RevokeSession \/ Discard \/ Channel \/ Change \/ PushStarts
          PROVE  UNCHANGED <<library, uplink, ws, requests, number, cSend, up, sRecv>>
      BY <3>2 DEF RevokeSession, Discard, Channel, Change, PushStarts, Same, client, server
    <3>3. ASSUME NEW i \in DOMAIN pushes, PushGoes(i)
          PROVE  UNCHANGED <<library, uplink, ws, requests, number, cSend, up, sRecv>>
      BY <3>3 DEF PushGoes, Same, client
    <3>4. QED BY <1>10, <3>1, <3>2, <3>3
  <2>2. QED BY <2>1, UpStill
<1>11. QED BY <1>1, <1>2, <1>3, <1>4, <1>5, <1>6, <1>7, <1>8, <1>9, <1>10 DEF WireNext

-----------------------------------------------------------------------------
\* A content that enters the callback is on its way; at most one is; one that ends
\* the subscription comes after any.
Coming(s)     == \E i \in 1..Len(s) : Enters(s[i][2])
AtMostOne(s)  == \A i, j \in 1..Len(s) : Enters(s[i][2]) /\ Enters(s[j][2]) => i = j
EndsAfter(s)  ==
  \E j \in 1..Len(s) : /\ s[j][2] = <<"restricted">>
                       /\ \A k \in 1..Len(s) : k > j => ~Enters(s[k][2])

\* The last content with a value has this one; none has a value.
Newest(s, v) ==
  \E j \in 1..Len(s) : /\ Carries(s[j][2]) /\ Value(s[j][2]) = v
                       /\ \A k \in 1..Len(s) : k > j => ~Carries(s[k][2])
Silent(s) == \A k \in 1..Len(s) : ~Carries(s[k][2])

\* The subscription is under way to the authority; at most once.
Asked(s)     == \E i \in 1..Len(s) : s[i][2] = Sub
AskedOnce(s) == \A i, j \in 1..Len(s) : s[i][2] = Sub /\ s[j][2] = Sub => i = j

\* A frame that joins the line to the client.
LEMMA Joins ==
  ASSUME NEW s \in Seq(Frames), NEW f \in Frames
  PROVE  /\ Coming(Append(s, f)) <=> Coming(s) \/ Enters(f[2])
         /\ AtMostOne(s) /\ (Coming(s) => ~Enters(f[2])) => AtMostOne(Append(s, f))
         /\ f[2] = <<"restricted">> => EndsAfter(Append(s, f))
         /\ EndsAfter(s) /\ ~Enters(f[2]) => EndsAfter(Append(s, f))
         /\ Carries(f[2]) => Newest(Append(s, f), Value(f[2]))
         /\ \A v : Newest(s, v) /\ ~Carries(f[2]) => Newest(Append(s, f), v)
         /\ Silent(s) /\ ~Carries(f[2]) => Silent(Append(s, f))
<1> DEFINE t == Append(s, f)
<1>1. /\ Len(s) \in Nat /\ Len(t) = Len(s) + 1 /\ t[Len(s) + 1] = f
      /\ \A i \in 1..Len(s) : t[i] = s[i]
  BY Lines
<1> HIDE DEF t
<1>2. /\ Len(s) + 1 \in 1..Len(t) /\ \A i \in 1..Len(s) : i \in 1..Len(t)
      /\ \A i \in 1..Len(t) : i \in 1..Len(s) \/ i = Len(s) + 1
      /\ \A i \in 1..Len(t) : ~(i > Len(s) + 1)
      /\ \A i \in 1..Len(s) : i < Len(s) + 1
  BY <1>1
<1>3. Coming(t) <=> Coming(s) \/ Enters(f[2]) BY <1>1, <1>2 DEF Coming
<1>4. AtMostOne(s) /\ (Coming(s) => ~Enters(f[2])) => AtMostOne(t)
  BY <1>1, <1>2 DEF AtMostOne, Coming
<1>5. f[2] = <<"restricted">> => EndsAfter(t) BY <1>1, <1>2 DEF EndsAfter
<1>6. EndsAfter(s) /\ ~Enters(f[2]) => EndsAfter(t) BY <1>1, <1>2 DEF EndsAfter
<1>7. Carries(f[2]) => Newest(t, Value(f[2])) BY <1>1, <1>2 DEF Newest
<1>8. ASSUME NEW v, Newest(s, v), ~Carries(f[2]) PROVE Newest(t, v)
  <2>1. PICK j \in 1..Len(s) : /\ Carries(s[j][2]) /\ Value(s[j][2]) = v
                               /\ \A k \in 1..Len(s) : k > j => ~Carries(s[k][2])
    BY <1>8 DEF Newest
  <2>2. j \in 1..Len(t) /\ t[j] = s[j] BY <1>1, <1>2
  <2>3. \A k \in 1..Len(t) : k > j => ~Carries(t[k][2]) BY <1>1, <1>2, <1>8, <2>1
  <2>4. QED BY <2>1, <2>2, <2>3 DEF Newest
<1>9. Silent(s) /\ ~Carries(f[2]) => Silent(t) BY <1>1, <1>2 DEF Silent
<1>10. QED BY <1>3, <1>4, <1>5, <1>6, <1>7, <1>8, <1>9 DEF t

\* The first frame leaves the line to the client.
LEMMA Leaves ==
  ASSUME NEW s \in Seq(Frames), s # <<>>
  PROVE  /\ Coming(s) <=> Enters(Head(s)[2]) \/ Coming(Tail(s))
         /\ AtMostOne(s) => /\ AtMostOne(Tail(s))
                            /\ Enters(Head(s)[2]) => ~Coming(Tail(s))
         /\ EndsAfter(s) => \/ EndsAfter(Tail(s))
                            \/ Head(s)[2] = <<"restricted">> /\ ~Coming(Tail(s))
         /\ \A v : Newest(s, v) => \/ Newest(Tail(s), v)
                                   \/ /\ Carries(Head(s)[2]) /\ Value(Head(s)[2]) = v
                                      /\ Silent(Tail(s))
         /\ Silent(s) => ~Carries(Head(s)[2]) /\ Silent(Tail(s))
<1> DEFINE t == Tail(s)
           h == Head(s)
<1>1. /\ Len(s) \in Nat /\ Len(s) > 0 /\ Len(t) = Len(s) - 1 /\ h = s[1]
      /\ \A i \in 1..(Len(s) - 1) : t[i] = s[i + 1]
  BY Lines
<1> HIDE DEF t, h
<1>2. /\ 1 \in 1..Len(s)
      /\ \A i \in 1..Len(t) : i + 1 \in 1..Len(s) /\ t[i] = s[i + 1] /\ i + 1 # 1 /\ i + 1 > 1
      /\ \A i \in 1..Len(s) : i = 1 \/ (i - 1 \in 1..Len(t) /\ t[i - 1] = s[i])
      /\ \A i, j \in 1..Len(t) : i + 1 = j + 1 => i = j
      /\ \A i \in 1..Len(s), k \in 1..Len(t) : k > i - 1 => k + 1 > i
  BY <1>1
<1>3. Coming(s) <=> Enters(h[2]) \/ Coming(t)
  <2>1. ASSUME NEW i \in 1..Len(s), Enters(s[i][2]) PROVE Enters(h[2]) \/ Coming(t)
    BY <1>1, <1>2, <2>1 DEF Coming
  <2>2. Enters(h[2]) => Coming(s) BY <1>1, <1>2 DEF Coming
  <2>3. Coming(t) => Coming(s) BY <1>2 DEF Coming
  <2>4. QED BY <2>1, <2>2, <2>3 DEF Coming
<1>4. ASSUME AtMostOne(s) PROVE AtMostOne(t) /\ (Enters(h[2]) => ~Coming(t))
  <2>1. ASSUME NEW i \in 1..Len(t), NEW j \in 1..Len(t), Enters(t[i][2]), Enters(t[j][2]) PROVE i = j
    <3>1. /\ i + 1 \in 1..Len(s) /\ t[i] = s[i + 1] /\ j + 1 \in 1..Len(s) /\ t[j] = s[j + 1]
      BY <1>2
    <3>2. i + 1 = j + 1 BY <1>4, <2>1, <3>1 DEF AtMostOne
    <3>3. QED BY <1>2, <3>2
  <2>2. ASSUME Enters(h[2]), NEW i \in 1..Len(t), Enters(t[i][2]) PROVE FALSE
    <3>1. i + 1 \in 1..Len(s) /\ t[i] = s[i + 1] /\ i + 1 # 1 /\ 1 \in 1..Len(s) BY <1>2
    <3>2. i + 1 = 1 BY <1>1, <1>4, <2>2, <3>1 DEF AtMostOne
    <3>3. QED BY <3>1, <3>2
  <2>3. QED BY <2>1, <2>2 DEF Coming, AtMostOne
<1>5. ASSUME EndsAfter(s) PROVE EndsAfter(t) \/ (h[2] = <<"restricted">> /\ ~Coming(t))
  <2>1. PICK j \in 1..Len(s) : /\ s[j][2] = <<"restricted">>
                               /\ \A k \in 1..Len(s) : k > j => ~Enters(s[k][2])
    BY <1>5 DEF EndsAfter
  <2>2. \A k \in 1..Len(t) : k > j - 1 => ~Enters(t[k][2]) BY <1>2, <2>1
  <2>3. CASE j = 1 BY <1>1, <1>2, <2>1, <2>3 DEF Coming
  <2>4. CASE j # 1
    <3>1. j - 1 \in 1..Len(t) /\ t[j - 1] = s[j] BY <1>2, <2>4
    <3>2. QED BY <2>1, <2>2, <3>1 DEF EndsAfter
  <2>5. QED BY <2>3, <2>4
<1>6. ASSUME NEW v, Newest(s, v)
      PROVE  Newest(t, v) \/ (Carries(h[2]) /\ Value(h[2]) = v /\ Silent(t))
  <2>1. PICK j \in 1..Len(s) : /\ Carries(s[j][2]) /\ Value(s[j][2]) = v
                               /\ \A k \in 1..Len(s) : k > j => ~Carries(s[k][2])
    BY <1>6 DEF Newest
  <2>2. \A k \in 1..Len(t) : k > j - 1 => ~Carries(t[k][2]) BY <1>2, <2>1
  <2>3. CASE j = 1 BY <1>1, <1>2, <2>1, <2>3 DEF Silent
  <2>4. CASE j # 1
    <3>1. j - 1 \in 1..Len(t) /\ t[j - 1] = s[j] BY <1>2, <2>4
    <3>2. QED BY <2>1, <2>2, <3>1 DEF Newest
  <2>5. QED BY <2>3, <2>4
<1>7. Silent(s) => ~Carries(h[2]) /\ Silent(t) BY <1>1, <1>2 DEF Silent
<1>8. QED BY <1>3, <1>4, <1>5, <1>6, <1>7 DEF t, h

\* A frame that joins the line to the authority.
LEMMA UpJoins ==
  ASSUME NEW s \in Seq(Nat \X Reqs), NEW f \in Nat \X Reqs
  PROVE  /\ Asked(Append(s, f)) <=> Asked(s) \/ f[2] = Sub
         /\ AskedOnce(s) /\ (Asked(s) => f[2] # Sub) => AskedOnce(Append(s, f))
<1> DEFINE t == Append(s, f)
<1>1. /\ Len(s) \in Nat /\ Len(t) = Len(s) + 1 /\ t[Len(s) + 1] = f
      /\ \A i \in 1..Len(s) : t[i] = s[i]
  BY Lines
<1> HIDE DEF t
<1>2. /\ Len(s) + 1 \in 1..Len(t) /\ \A i \in 1..Len(s) : i \in 1..Len(t)
      /\ \A i \in 1..Len(t) : i \in 1..Len(s) \/ i = Len(s) + 1
  BY <1>1
<1>3. Asked(t) <=> Asked(s) \/ f[2] = Sub BY <1>1, <1>2 DEF Asked
<1>4. AskedOnce(s) /\ (Asked(s) => f[2] # Sub) => AskedOnce(t)
  BY <1>1, <1>2 DEF Asked, AskedOnce
<1>5. QED BY <1>3, <1>4 DEF t

\* The first frame leaves the line to the authority.
LEMMA UpLeaves ==
  ASSUME NEW s \in Seq(Nat \X Reqs), s # <<>>
  PROVE  /\ Asked(s) <=> Head(s)[2] = Sub \/ Asked(Tail(s))
         /\ AskedOnce(s) => /\ AskedOnce(Tail(s))
                            /\ Head(s)[2] = Sub => ~Asked(Tail(s))
<1> DEFINE t == Tail(s)
           h == Head(s)
<1>1. /\ Len(s) \in Nat /\ Len(s) > 0 /\ Len(t) = Len(s) - 1 /\ h = s[1]
      /\ \A i \in 1..(Len(s) - 1) : t[i] = s[i + 1]
  BY Lines
<1> HIDE DEF t, h
<1>2. /\ 1 \in 1..Len(s)
      /\ \A i \in 1..Len(t) : i + 1 \in 1..Len(s) /\ t[i] = s[i + 1] /\ i + 1 # 1
      /\ \A i \in 1..Len(s) : i = 1 \/ (i - 1 \in 1..Len(t) /\ t[i - 1] = s[i])
      /\ \A i, j \in 1..Len(t) : i + 1 = j + 1 => i = j
  BY <1>1
<1>3. Asked(s) <=> h[2] = Sub \/ Asked(t)
  <2>1. ASSUME NEW i \in 1..Len(s), s[i][2] = Sub PROVE h[2] = Sub \/ Asked(t)
    BY <1>1, <1>2, <2>1 DEF Asked
  <2>2. h[2] = Sub => Asked(s) BY <1>1, <1>2 DEF Asked
  <2>3. Asked(t) => Asked(s) BY <1>2 DEF Asked
  <2>4. QED BY <2>1, <2>2, <2>3 DEF Asked
<1>4. ASSUME AskedOnce(s) PROVE AskedOnce(t) /\ (h[2] = Sub => ~Asked(t))
  <2>1. ASSUME NEW i \in 1..Len(t), NEW j \in 1..Len(t), t[i][2] = Sub, t[j][2] = Sub PROVE i = j
    <3>1. /\ i + 1 \in 1..Len(s) /\ t[i] = s[i + 1] /\ j + 1 \in 1..Len(s) /\ t[j] = s[j + 1]
      BY <1>2
    <3>2. i + 1 = j + 1 BY <1>4, <2>1, <3>1 DEF AskedOnce
    <3>3. QED BY <1>2, <3>2
  <2>2. ASSUME h[2] = Sub, NEW i \in 1..Len(t), t[i][2] = Sub PROVE FALSE
    <3>1. i + 1 \in 1..Len(s) /\ t[i] = s[i + 1] /\ i + 1 # 1 /\ 1 \in 1..Len(s) BY <1>2
    <3>2. i + 1 = 1 BY <1>1, <1>4, <2>2, <3>1 DEF AskedOnce
    <3>3. QED BY <3>1, <3>2
  <2>3. QED BY <2>1, <2>2 DEF Asked, AskedOnce
<1>5. QED BY <1>3, <1>4 DEF t, h

\* Where a frame gets into the line to the client.
LEMMA WroteOn ==
  ASSUME WireTypeOK, NEW x \in Contents, Written(x)
  PROVE  /\ down' = down \/ \E f \in Frames : f[2] = x /\ down' = Append(down, f)
         /\ uplink = "up" /\ ws = "open" => \E f \in Frames : f[2] = x /\ down' = Append(down, f)
<1>1. <<sSend, x>> \in Frames BY ContentFacts DEF WireTypeOK
<1>2. <<sSend, x>>[2] = x OBVIOUS
<1>3. QED BY <1>1, <1>2 DEF Written

-----------------------------------------------------------------------------
Tame(s) == \A i \in 1..Len(s) : s[i] = <<"restricted">>

\* Notices of a session that is not closed are of restrictions; those in the
\* outbox are about to be flushed.
NoticesTame ==
  (ws = "open" /\ ~closed) =>
    /\ live
    /\ Tame(outbox)
    /\ lane[1] = "events" => Tame(lane[2])
    /\ order[1] = "events" => Tame(order[2])
    /\ outbox # <<>> => order = <<"due">>

\* What a client's step leaves alone.
LEMMA ClientStill ==
  ASSUME WireTypeOK, ClientSteps
  PROVE  /\ UNCHANGED <<library, first, uplink, server, entity, orders>>
         /\ ws' = "open" => ws = "open"
         /\ chan' = "none" => chan = "none"
<1>1. ASSUME NEW r \in Reqs, Ask(r) \/ Sealed(r) \/ TimesOut(r)
      PROVE  UNCHANGED <<library, first, uplink, server, entity, orders, ws, chan>>
  BY <1>1 DEF Ask, Sealed, TimesOut, Same
<1>2. ASSUME Receive PROVE UNCHANGED <<library, first, uplink, server, entity, orders, chan>> /\ ws = "open"
  BY <1>2, Received
<1>3. ASSUME ReceiveSide PROVE UNCHANGED <<library, first, uplink, server, entity, orders, ws, chan>>
  BY <1>3 DEF ReceiveSide, Same
<1>4. ASSUME Leave
      PROVE  /\ UNCHANGED <<library, first, uplink, server, entity, orders>> /\ ws = "open"
             /\ chan' = "none" => chan = "none"
  BY <1>4 DEF Leave, Same
<1>5. ASSUME NEW f \in opening, Opened(f)
      PROVE  UNCHANGED <<library, first, uplink, server, entity, orders, ws, chan>>
  BY <1>5 DEF Opened, Same
<1>6. QED BY <1>1, <1>2, <1>3, <1>4, <1>5 DEF ClientSteps

\* Notices of restrictions, taken one by one.
LEMMA TameEnds ==
  ASSUME NEW s \in Seq(Notices), Tame(s), s # <<>>
  PROVE  /\ Head(s) = <<"restricted">> /\ Head(s) \in Notices
         /\ Tail(s) \in Seq(Notices) /\ Tame(Tail(s))
<1>1. /\ Len(s) \in Nat /\ Len(s) > 0 /\ Head(s) = s[1] /\ Head(s) \in Notices
      /\ Tail(s) \in Seq(Notices) /\ Len(Tail(s)) = Len(s) - 1
      /\ \A i \in 1..(Len(s) - 1) : Tail(s)[i] = s[i + 1]
  BY Lines
<1>2. 1 \in 1..Len(s) /\ \A i \in 1..(Len(s) - 1) : i + 1 \in 1..Len(s) BY <1>1
<1>3. QED BY <1>1, <1>2 DEF Tame

\* A flush of notices of restrictions leaves such notices.
LEMMA FlushTame ==
  ASSUME NEW events \in Seq(Notices), Tame(events), Flush(events)
  PROVE  outbox' = <<>> /\ (order'[1] = "events" => Tame(order'[2]))
<1>1. outbox' = <<>> BY DEF Flush, PopOutbox
<1>2. CASE events = <<>>
  <2>1. order' = <<"idle">> BY <1>2 DEF Flush
  <2>2. order'[1] # "events" BY <2>1
  <2>3. QED BY <1>1, <2>2
<1>3. CASE events # <<>>
  <2>1. order' = <<"events", Tail(events)>> BY <1>3 DEF Flush
  <2>2. QED BY <1>1, <1>3, <2>1, TameEnds
<1>4. QED BY <1>2, <1>3

\* A revocation closes the session; otherwise a restriction queues its notice and flushes it.
LEMMA NoticesKept ==
  ASSUME WireTypeOK, NoticesTame, WireNext
  PROVE  NoticesTame'
<1>1. ASSUME UNCHANGED <<closed, live, outbox, lane, order>>, ws' = "open" => ws = "open"
      PROVE  NoticesTame'
  BY <1>1 DEF NoticesTame
<1>2. CASE ClientSteps BY <1>1, <1>2, ClientStill DEF server
<1>3. CASE LinkLost BY <1>1, <1>3 DEF LinkLost, Same, server
<1>4. CASE Channel \/ Change \/ PushStarts
  BY <1>1, <1>4 DEF Channel, Change, PushStarts, Same, server
<1>5. ASSUME NEW i \in DOMAIN pushes, PushGoes(i) PROVE NoticesTame'
  BY <1>1, <1>5 DEF PushGoes, Same
<1>6. CASE RevokeSession BY <1>6 DEF RevokeSession, NoticesTame
<1>7. CASE Discard BY <1>7 DEF Discard, Same, NoticesTame
<1> SUFFICES ASSUME Take \/ Answer \/ Follow \/ Narrow \/ FlushDue \/ FlushNext
             PROVE  NoticesTame'
  BY <1>2, <1>3, <1>4, <1>5, <1>6, <1>7 DEF WireNext, ClientSteps
<1>8. UNCHANGED <<ws, closed, live>>
  BY DEF Take, Answer, Follow, Narrow, FlushDue, FlushNext, Same
<1> SUFFICES ASSUME ws = "open", ~closed
             PROVE  NoticesTame'
  BY <1>8 DEF NoticesTame
<1>9. /\ live /\ outbox \in Seq(Notices) /\ Tame(outbox)
      /\ lane[1] = "events" => lane[2] \in Seq(Notices) /\ Tame(lane[2])
      /\ order[1] = "events" => order[2] \in Seq(Notices) /\ Tame(order[2])
      /\ outbox # <<>> => order = <<"due">>
  BY LaneFacts, StageFacts DEF WireTypeOK, NoticesTame
<1>10. <<>> \in Seq(Notices) /\ Tame(<<>>) BY DEF Tame
<1>11. CASE Take
  <2>1. UNCHANGED <<outbox, order>> BY <1>11 DEF Take, Same
  <2>2. lane' = <<"serving", Head(up)[2]>> \/ lane' = <<"answered">> BY <1>11 DEF Take
  <2>3. lane'[1] # "events" BY <2>2
  <2>4. QED BY <1>8, <1>9, <2>1, <2>3 DEF NoticesTame
<1>12. CASE Answer
  <2>1. UNCHANGED <<outbox, order>> /\ lane' = <<"answered">> BY <1>12 DEF Answer, Same
  <2>2. lane'[1] # "events" BY <2>1
  <2>3. QED BY <1>8, <1>9, <2>1, <2>2 DEF NoticesTame
<1>13. CASE Follow
  <2> DEFINE events == IF lane[1] = "answered" THEN outbox ELSE lane[2]
  <2>1. events \in Seq(Notices) /\ Tame(events) BY <1>9, <1>13 DEF Follow
  <2>2. IF events = <<>> THEN lane' = <<"idle">> ELSE lane' = <<"events", Tail(events)>>
    BY <1>13 DEF Follow
  <2> HIDE DEF events
  <2>3. lane'[1] = "events" => Tame(lane'[2])
    <3>1. CASE events = <<>>
      <4>1. lane' = <<"idle">> BY <2>2, <3>1
      <4>2. QED BY <4>1
    <3>2. CASE events # <<>>
      <4>1. lane' = <<"events", Tail(events)>> BY <2>2, <3>2
      <4>2. QED BY <2>1, <3>2, <4>1, TameEnds
    <3>3. QED BY <3>1, <3>2
  <2>4. UNCHANGED order /\ (outbox' = outbox \/ outbox' = <<>>)
    BY <1>13 DEF Follow, Same, PopOutbox
  <2>5. QED BY <1>8, <1>9, <1>10, <2>3, <2>4 DEF NoticesTame
<1>14. CASE Narrow
  <2>1. order = <<"idle">> /\ UNCHANGED lane BY <1>14 DEF Narrow, Same
  <2>2. outbox = <<>>
    <3>1. order # <<"due">> BY <2>1
    <3>2. QED BY <1>9, <3>1
  <2>3. Queued(<<"restricted">>) = <<<<"restricted">>>> BY <2>2, QueuedTyped DEF Notices
  <2>4. Tame(<<<<"restricted">>>>) /\ <<<<"restricted">>>> \in Seq(Notices) BY DEF Tame, Notices
  <2>5. CASE Flush(Queued(<<"restricted">>))
    <3>1. outbox' = <<>> /\ (order'[1] = "events" => Tame(order'[2]))
      BY <2>3, <2>4, <2>5, FlushTame
    <3>2. QED BY <1>8, <1>9, <1>10, <2>1, <3>1 DEF NoticesTame
  <2>6. CASE outbox' = Queued(<<"restricted">>) /\ order' = <<"due">>
    <3>1. order'[1] # "events" BY <2>6
    <3>2. QED BY <1>8, <1>9, <2>1, <2>3, <2>4, <2>6, <3>1 DEF NoticesTame
  <2>7. QED BY <1>14, <2>5, <2>6 DEF Narrow
<1>15. CASE FlushDue
  <2>1. Flush(outbox) /\ UNCHANGED lane BY <1>9, <1>15 DEF FlushDue, Same
  <2>2. outbox' = <<>> /\ (order'[1] = "events" => Tame(order'[2]))
    BY <1>9, <2>1, FlushTame
  <2>3. QED BY <1>8, <1>9, <1>10, <2>1, <2>2 DEF NoticesTame
<1>16. CASE FlushNext
  <2>1. order[1] = "events" /\ UNCHANGED <<lane, outbox>> BY <1>16 DEF FlushNext, Same
  <2>2. outbox = <<>>
    <3>1. order # <<"due">> BY <2>1
    <3>2. QED BY <1>9, <3>1
  <2>3. order'[1] = "events" => Tame(order'[2])
    <3>1. CASE order[2] = <<>>
      <4>1. order' = <<"idle">> BY <1>16, <3>1 DEF FlushNext
      <4>2. QED BY <4>1
    <3>2. CASE order[2] # <<>>
      <4>1. order' = <<"events", Tail(order[2])>> BY <1>16, <3>2 DEF FlushNext
      <4>2. QED BY <1>9, <2>1, <3>2, <4>1, TameEnds
    <3>3. QED BY <3>1, <3>2
  <2>4. QED BY <1>8, <1>9, <2>1, <2>2, <2>3 DEF NoticesTame
<1>17. QED BY <1>11, <1>12, <1>13, <1>14, <1>15, <1>16

-----------------------------------------------------------------------------
\* The subscription is asked for once; until it is answered, nothing is fed.
Unanswered ==
  requests[Sub] = "new" \/ Asked(up) \/ lane = <<"serving", Sub>>

Once ==
  library = "noble" =>
    /\ opening = {}
    /\ Unanswered => ~held /\ ~listed /\ pushes = <<>> /\ ~Coming(down)
    /\ AskedOnce(up)
    /\ requests[Sub] = "new" => ~Asked(up) /\ lane # <<"serving", Sub>>
    /\ lane = <<"serving", Sub>> => ~Asked(up)
    /\ listed => ~Coming(down)
    /\ AtMostOne(down)

\* Without a datachannel nothing is under way in it.
Bare == chan = "none" => side = <<>>

\* What goes into the datachannel goes into one that is open.
LEMMA BareKept ==
  ASSUME WireTypeOK, Bare, WireNext
  PROVE  Bare'
<1>1. ASSUME UNCHANGED <<chan, side>> PROVE Bare' BY <1>1 DEF Bare
<1>2. ASSUME NEW x, Sent(x), UNCHANGED chan PROVE Bare'
  BY <1>2 DEF Sent, Bare
<1>3. ASSUME NEW events, Flush(events), UNCHANGED chan PROVE Bare'
  BY <1>1, <1>2, <1>3 DEF Flush
<1>4. ASSUME NEW r \in Reqs, Ask(r) \/ Sealed(r) \/ TimesOut(r) PROVE Bare'
  BY <1>1, <1>4 DEF Ask, Sealed, TimesOut, Same
<1>5. CASE Receive
  <2>1. UNCHANGED chan BY <1>5, Received
  <2>2. side' = <<>> \/ side' = side BY <1>5, Received DEF Ends
  <2>3. QED BY <2>1, <2>2 DEF Bare
<1>6. CASE ReceiveSide BY <1>6 DEF ReceiveSide, Same, Bare
<1>7. CASE Leave BY <1>7 DEF Leave, Ends, Bare
<1>8. ASSUME NEW f \in opening, Opened(f) PROVE Bare' BY <1>1, <1>8 DEF Opened, Same
<1>9. CASE Take \/ Answer \/ Follow BY <1>1, <1>9 DEF Take, Answer, Follow, Same
<1>10. CASE Narrow
  <2>1. UNCHANGED chan BY <1>10 DEF Narrow, Same
  <2>2. Flush(Queued(<<"restricted">>)) \/ UNCHANGED side BY <1>10 DEF Narrow
  <2>3. QED BY <1>1, <1>3, <2>1, <2>2
<1>11. CASE FlushDue
  <2>1. UNCHANGED chan BY <1>11 DEF FlushDue, Same
  <2>2. Flush(outbox) \/ UNCHANGED side BY <1>11 DEF FlushDue
  <2>3. QED BY <1>1, <1>3, <2>1, <2>2
<1>12. CASE FlushNext
  <2>1. UNCHANGED chan BY <1>12 DEF FlushNext, Same
  <2>2. Sent(Head(order[2])) \/ UNCHANGED side BY <1>12 DEF FlushNext
  <2>3. QED BY <1>1, <1>2, <2>1, <2>2
<1>13. CASE RevokeSession \/ Discard \/ LinkLost \/ Change \/ PushStarts
  BY <1>1, <1>13 DEF RevokeSession, Discard, LinkLost, Change, PushStarts, Same
<1>14. CASE Channel BY <1>14 DEF Channel, Bare
<1>15. ASSUME NEW i \in DOMAIN pushes, PushGoes(i) PROVE Bare'
  <2>1. UNCHANGED chan BY <1>15 DEF PushGoes, Same
  <2>2. Sent(<<"delta", pushes[i]>>) \/ UNCHANGED side BY <1>15 DEF PushGoes
  <2>3. QED BY <1>1, <1>2, <2>1, <2>2
<1>16. QED
  BY <1>4, <1>5, <1>6, <1>7, <1>8, <1>9, <1>10, <1>11, <1>12, <1>13, <1>14, <1>15 DEF WireNext

\* The subscription is asked for by a request that was not made yet.
LEMMA OnceAsked ==
  ASSUME WireTypeOK, UpInStep, Once, library = "noble", ClientSteps,
         NEW r \in Reqs, Ask(r) \/ Sealed(r) \/ TimesOut(r)
  PROVE  Once'
<1>0. /\ requests \in [Reqs -> {"new", "sealing", "waiting", "answered", "failed"}]
      /\ Sub \in Reqs /\ up \in Seq(Nat \X Reqs) /\ cSend \in Nat
  BY WireAssumption DEF WireTypeOK
<1>1. UNCHANGED <<library, opening, listed, down, held, pushes, lane>>
  BY DEF Ask, Sealed, TimesOut, Same, server, entity
<1>2. ~Sealed(r)
  <2>1. r \notin Sealing BY DEF UpInStep
  <2>2. QED BY <2>1 DEF Sealing, Sealed
<1>3. CASE TimesOut(r)
  <2>1. requests'[Sub] = "new" <=> requests[Sub] = "new" BY <1>0, <1>3 DEF TimesOut
  <2>2. UNCHANGED up BY <1>3 DEF TimesOut, Same
  <2>3. QED BY <1>1, <2>1, <2>2 DEF Once, Unanswered
<1>4. CASE Ask(r)
  <2>1. /\ requests[r] = "new" /\ requests' = [requests EXCEPT ![r] = "waiting"]
        /\ Upward(<<cSend, r>>)
    BY <1>4 DEF Ask
  <2> DEFINE f == <<cSend, r>>
  <2>2. f \in Nat \X Reqs /\ f[2] = r BY <1>0
  <2>3. up' = up \/ up' = Append(up, f) BY <2>1 DEF Upward
  <2> HIDE DEF f
  <2>4. /\ Asked(Append(up, f)) <=> Asked(up) \/ r = Sub
        /\ AskedOnce(up) /\ (Asked(up) => r # Sub) => AskedOnce(Append(up, f))
    BY <1>0, <2>2, UpJoins
  <2>5. CASE r = Sub
    <3>1. /\ ~held /\ ~listed /\ pushes = <<>> /\ ~Coming(down) /\ AskedOnce(up)
          /\ ~Asked(up) /\ lane # <<"serving", Sub>> /\ opening = {} /\ AtMostOne(down)
      BY <2>1, <2>5 DEF Once, Unanswered
    <3>2. requests'[Sub] # "new" BY <1>0, <2>1, <2>5
    <3>3. AskedOnce(up') BY <2>3, <2>4, <3>1
    <3>4. QED BY <1>1, <3>1, <3>2, <3>3 DEF Once
  <2>6. CASE r # Sub
    <3>1. requests'[Sub] = requests[Sub] BY <1>0, <2>1, <2>6
    <3>2. (Asked(up') <=> Asked(up)) /\ (AskedOnce(up) => AskedOnce(up'))
      BY <2>3, <2>4, <2>6
    <3>3. QED BY <1>1, <3>1, <3>2 DEF Once, Unanswered
  <2>7. QED BY <2>5, <2>6
<1>5. QED BY <1>2, <1>3, <1>4

\* What the client hears changes nothing of that.
LEMMA OnceHeard ==
  ASSUME WireTypeOK, Once, library = "noble", Receive \/ ReceiveSide \/ Leave
  PROVE  Once'
<1>0. Sub \in Reqs /\ down \in Seq(Frames) BY WireAssumption DEF WireTypeOK
<1>1. UNCHANGED <<library, up, held, pushes, lane>>
  <2>1. UNCHANGED <<library, server, entity>> BY ClientStill DEF ClientSteps
  <2>2. UNCHANGED up BY Received DEF ReceiveSide, Leave, Same
  <2>3. QED BY <2>1, <2>2 DEF server, entity
<1>2. ASSUME requests'[Sub] = "new" <=> requests[Sub] = "new", UNCHANGED opening,
             Coming(down') => Coming(down), AtMostOne(down'),
             listed' => (listed \/ (Coming(down) /\ ~Coming(down')))
      PROVE  Once'
  BY <1>1, <1>2 DEF Once, Unanswered
<1>3. ~Coming(<<>>) /\ AtMostOne(<<>>) BY DEF Coming, AtMostOne
<1>4. ASSUME Ends, UNCHANGED listed PROVE Once'
  <2>1. down' = <<>> /\ UNCHANGED opening /\ (requests'[Sub] = "new" <=> requests[Sub] = "new")
    BY <1>0, <1>4, Ended
  <2>2. QED BY <1>2, <1>3, <1>4, <2>1
<1>5. CASE Leave BY <1>4, <1>5 DEF Leave, Same
<1>6. CASE ReceiveSide
  <2>1. side \in Seq(Asides) /\ side # <<>> BY <1>6 DEF ReceiveSide, WireTypeOK
  <2>2. Head(side) \in Asides BY <2>1, Lines
  <2>3. Head(side) \in Contents /\ ~Enters(Head(side)) BY <2>2, ContentFacts DEF Enters
  <2>4. Hear(Head(side)) /\ UNCHANGED <<opening, down>> BY <1>6 DEF ReceiveSide, Same
  <2>5. (listed' => listed) /\ (requests'[Sub] = "new" <=> requests[Sub] = "new")
    BY <1>0, <2>3, <2>4, Heard
  <2>6. AtMostOne(down) BY DEF Once
  <2>7. QED BY <1>2, <2>4, <2>5, <2>6
<1>7. CASE Receive
  <2>1. CASE Ends /\ UNCHANGED listed BY <1>4, <2>1
  <2>2. CASE /\ down' = Tail(down) /\ Hear(Head(down)[2]) /\ UNCHANGED opening
    <3>1. down # <<>> /\ Head(down) \in Frames BY <1>7, Received
    <3>2. Head(down)[2] \in Contents BY <3>1, ContentFacts
    <3>3. /\ listed' => listed \/ Enters(Head(down)[2])
          /\ requests'[Sub] = "new" <=> requests[Sub] = "new"
      BY <1>0, <2>2, <3>2, Heard
    <3>4. AtMostOne(down) BY DEF Once
    <3>5. /\ Coming(down) <=> Enters(Head(down)[2]) \/ Coming(down')
          /\ AtMostOne(down') /\ (Enters(Head(down)[2]) => ~Coming(down'))
      BY <1>0, <2>2, <3>1, <3>4, Leaves
    <3>6. QED BY <1>2, <2>2, <3>3, <3>5
  <2>3. QED BY <1>7, <2>1, <2>2, Received
<1>8. QED BY <1>5, <1>6, <1>7

\* The subscription moves from the client through the line to its answer.
LEMMA OnceKept ==
  ASSUME WireTypeOK, UpInStep, Once, WireNext
  PROVE  Once'
<1>0. /\ Sub \in Reqs /\ down \in Seq(Frames) /\ up \in Seq(Nat \X Reqs)
      /\ held \in BOOLEAN /\ listed \in BOOLEAN
  BY WireAssumption DEF WireTypeOK
<1>1. UNCHANGED library
  <2>1. CASE ClientSteps BY <2>1, ClientStill
  <2>2. CASE ~ClientSteps BY <2>2, OneWritten
  <2>3. QED BY <2>1, <2>2
<1> SUFFICES ASSUME library = "noble" PROVE Once' BY <1>1 DEF Once
<1>2. CASE ClientSteps
  <2>1. ASSUME NEW f \in opening, Opened(f) PROVE FALSE BY DEF Once
  <2>2. QED BY <1>2, <2>1, OnceAsked, OnceHeard DEF ClientSteps
<1> SUFFICES ASSUME ~ClientSteps PROVE Once' BY <1>2
<1>3. UNCHANGED <<requests, listed, opening>> BY OneWritten DEF client
<1>4. CASE Answer
  <2>1. lane[1] = "serving" /\ lane' = <<"answered">> /\ UNCHANGED <<up, pushes>>
    BY <1>4 DEF Answer, Same, entity
  <2>2. lane[2] \in Reqs /\ lane = <<"serving", lane[2]>> /\ version \in Nat
    BY <2>1, LaneFacts DEF WireTypeOK
  <2>3. lane' # <<"serving", Sub>> BY <2>1
  <2>4. PICK x \in Contents : Written(x) /\ (Enters(x) => lane[2] = Sub)
    <3>1. <<"refusal", lane[2]>> \in Contents /\ <<"answer", lane[2], version>> \in Contents
      BY <2>2, ContentFacts
    <3>2. Written(<<"refusal", lane[2]>>) \/ Written(<<"answer", lane[2], version>>)
      BY <1>4 DEF Answer
    <3>3. ~Enters(<<"refusal", lane[2]>>) BY DEF Enters
    <3>4. Enters(<<"answer", lane[2], version>>) => lane[2] = Sub BY DEF Enters
    <3>5. QED BY <3>1, <3>2, <3>3, <3>4
  <2>5. down' = down \/ \E f \in Frames : f[2] = x /\ down' = Append(down, f)
    BY <2>4, WroteOn
  <2>6. CASE lane[2] = Sub
    <3>1. /\ ~listed /\ ~Coming(down) /\ ~Asked(up) /\ AskedOnce(up) /\ AtMostOne(down)
          /\ requests[Sub] # "new" /\ opening = {}
      BY <2>2, <2>6 DEF Once, Unanswered
    <3>2. AtMostOne(down') BY <1>0, <2>5, <3>1, Joins
    <3>3. QED BY <1>3, <2>1, <2>3, <3>1, <3>2 DEF Once, Unanswered
  <2>7. CASE lane[2] # Sub
    <3>1. lane # <<"serving", Sub>> BY <2>2, <2>7
    <3>2. held' = held BY <1>0, <1>4, <2>7 DEF Answer
    <3>3. (Coming(down') <=> Coming(down)) /\ (AtMostOne(down) => AtMostOne(down'))
      BY <1>0, <2>4, <2>5, <2>7, Joins
    <3>4. QED BY <1>3, <2>1, <2>3, <3>1, <3>2, <3>3 DEF Once, Unanswered
  <2>8. QED BY <2>6, <2>7
<1> SUFFICES ASSUME ~Answer PROVE Once' BY <1>4
<1>5. (Coming(down') <=> Coming(down)) /\ (AtMostOne(down) => AtMostOne(down'))
  <2>1. CASE UNCHANGED down BY <2>1
  <2>2. CASE Writes
    <3>1. PICK x \in Contents : Written(x) /\ ~Enters(x) BY <2>2 DEF Writes
    <3>2. down' = down \/ \E f \in Frames : f[2] = x /\ down' = Append(down, f)
      BY <3>1, WroteOn
    <3>3. QED BY <1>0, <3>1, <3>2, Joins
  <2>3. QED BY <2>1, <2>2, OneWritten
<1>6. CASE Take
  <2>1. /\ up # <<>> /\ up' = Tail(up) /\ UNCHANGED <<held, pushes>> /\ lane = <<"idle">>
        /\ lane' = <<"serving", Head(up)[2]>> \/ lane' = <<"answered">>
    BY <1>6 DEF Take, Same, entity
  <2>2. lane # <<"serving", Sub>> BY <2>1
  <2>3. lane' = <<"serving", Sub>> => Head(up)[2] = Sub BY <2>1
  <2>4. AskedOnce(up) BY DEF Once
  <2>5. /\ Asked(up) <=> Head(up)[2] = Sub \/ Asked(up')
        /\ AskedOnce(up') /\ (Head(up)[2] = Sub => ~Asked(up'))
    BY <1>0, <2>1, <2>4, UpLeaves
  <2>6. QED BY <1>3, <1>5, <2>1, <2>2, <2>3, <2>5 DEF Once, Unanswered
<1>7. ASSUME UNCHANGED up \/ up' = <<>>, lane' # <<"serving", Sub>> \/ lane' = lane,
             held' => held, pushes = <<>> /\ ~held => pushes' = <<>>
      PROVE  Once'
  <2>1. ~Asked(<<>>) /\ AskedOnce(<<>>) BY DEF Asked, AskedOnce
  <2>2. (Asked(up') => Asked(up)) /\ (AskedOnce(up) => AskedOnce(up')) BY <1>7, <2>1
  <2>3. QED BY <1>3, <1>5, <1>7, <2>2 DEF Once, Unanswered
<1>8. CASE Follow
  <2>1. UNCHANGED <<up, held, pushes>> BY <1>8 DEF Follow, Same, entity
  <2>2. lane' = <<"idle">> \/ lane'[1] = "events" BY <1>8 DEF Follow
  <2>3. lane' # <<"serving", Sub>> BY <2>2
  <2>4. QED BY <1>7, <2>1, <2>3
<1>9. CASE Narrow \/ FlushDue \/ FlushNext
  BY <1>7, <1>9 DEF Narrow, FlushDue, FlushNext, Same, entity
<1>10. CASE RevokeSession \/ Discard \/ LinkLost \/ Channel \/ Change
  BY <1>7, <1>10 DEF RevokeSession, Discard, LinkLost, Channel, Change, Same, server, entity
<1>11. CASE PushStarts BY <1>7, <1>11 DEF PushStarts, Same, server
<1>12. ASSUME NEW i \in DOMAIN pushes, PushGoes(i) PROVE Once'
  <2>1. UNCHANGED <<up, lane, held>> BY <1>12 DEF PushGoes, Same
  <2>2. pushes # <<>> BY <1>12
  <2>3. QED BY <1>7, <2>1, <2>2
<1>13. QED BY <1>6, <1>8, <1>9, <1>10, <1>11, <1>12 DEF WireNext, ClientSteps

-----------------------------------------------------------------------------
\* Where all goes through the bridge, in one line, and is decrypted at once.
Plain == uplink = "up" /\ ws = "open" /\ chan = "none" /\ library = "noble"

\* What is plain was plain before: connections are lost and datachannels opened for good.
LEMMA PlainWas ==
  ASSUME WireTypeOK, WireNext, Plain'
  PROVE  Plain /\ UNCHANGED <<library, first, uplink, ws, chan>>
<1>1. CASE ClientSteps
  <2>1. /\ UNCHANGED <<library, first, uplink>>
        /\ ws' = "open" => ws = "open"
        /\ chan' = "none" => chan = "none"
    BY <1>1, ClientStill
  <2>2. QED BY <2>1 DEF Plain
<1>2. CASE ~ClientSteps
  <2>1. UNCHANGED <<library, first, ws>> /\ (uplink' = uplink \/ uplink' = "lost")
    BY <1>2, OneWritten
  <2>2. ASSUME ~Channel PROVE UNCHANGED chan
    <3>1. ASSUME Take \/ Answer \/ Follow \/ Narrow \/ FlushDue \/ FlushNext PROVE UNCHANGED chan
      BY <3>1 DEF Take, Answer, Follow, Narrow, FlushDue, FlushNext, Same
    <3>2. ASSUME RevokeSession \/ Discard \/ LinkLost \/ Change \/ PushStarts PROVE UNCHANGED chan
      BY <3>2 DEF RevokeSession, Discard, LinkLost, Change, PushStarts, Same
    <3>3. ASSUME NEW i \in DOMAIN pushes, PushGoes(i) PROVE UNCHANGED chan
      BY <3>3 DEF PushGoes, Same
    <3>4. QED BY <1>2, <2>2, <3>1, <3>2, <3>3 DEF WireNext, ClientSteps
  <2>3. Channel => chan' = "open" BY DEF Channel
  <2>4. QED BY <2>1, <2>2, <2>3 DEF Plain
<1>3. QED BY <1>1, <1>2

\* A notice waits to be written.
Pending ==
  \/ outbox # <<>>
  \/ lane[1] = "events" /\ lane[2] # <<>>
  \/ order[1] = "events" /\ order[2] # <<>>

\* The client listens, or will when it has read what is under way; it will be told
\* that it is no longer fed, after that.
Listens == listed \/ Coming(down)
Told    == Pending \/ EndsAfter(down)
Owed    == (Plain /\ ~closed /\ ~held /\ Listens) => Told

\* Notices of restrictions that are flushed: the client is told.
LEMMA FlushTells ==
  ASSUME WireTypeOK, Plain, NEW events \in Seq(Notices), Tame(events), events # <<>>, Flush(events)
  PROVE  EndsAfter(down')
<1>1. Head(events) = <<"restricted">> BY TameEnds
<1>2. Sent(<<"restricted">>) BY <1>1 DEF Flush
<1>3. Written(<<"restricted">>) BY <1>2 DEF Sent, Plain
<1>4. <<"restricted">> \in Contents BY ContentFacts DEF Notices
<1>5. PICK f \in Frames : f[2] = <<"restricted">> /\ down' = Append(down, f)
  BY <1>3, <1>4, WroteOn DEF Plain
<1>6. down \in Seq(Frames) BY DEF WireTypeOK
<1>7. QED BY <1>5, <1>6, Joins

\* The subscription is cleared together with a notice, which is written after every
\* answer given before; an answer given later is one to who is fed.
LEMMA OwedKept ==
  ASSUME WireTypeOK, NoticesTame, Once, Bare, Owed, WireNext
  PROVE  Owed'
<1> SUFFICES ASSUME Plain', ~closed', ~held', Listens' PROVE Told' BY DEF Owed
<1>0. /\ Plain /\ UNCHANGED <<library, first, uplink, ws, chan>> /\ down \in Seq(Frames)
      /\ uplink = "up" /\ ws = "open" /\ library = "noble" /\ opening = {} /\ side = <<>>
  <2>1. Plain /\ UNCHANGED <<library, first, uplink, ws, chan>> BY PlainWas
  <2>2. QED BY <2>1 DEF WireTypeOK, Once, Bare, Plain
<1>2. CASE ClientSteps
  <2>1. UNCHANGED <<held, closed, outbox, lane, order>> BY <1>2, ClientStill DEF server
  <2>2. UNCHANGED Pending BY <2>1 DEF Pending
  <2>3. ASSUME UNCHANGED <<listed, down>> PROVE Told'
    BY <1>0, <2>1, <2>2, <2>3 DEF Owed, Listens, Told
  <2>4. ASSUME NEW r \in Reqs, Ask(r) \/ Sealed(r) \/ TimesOut(r) PROVE Told'
    BY <2>3, <2>4 DEF Ask, Sealed, TimesOut, Same
  <2>5. ~ReceiveSide BY <1>0 DEF ReceiveSide
  <2>6. ~Leave BY <1>0 DEF Leave, Ends
  <2>7. CASE Receive
    <3>1. down # <<>> /\ Head(down) \in Frames BY <2>7, Received
    <3>2. ~Ends BY <1>0 DEF Ends
    <3>3. down' = Tail(down) /\ Hear(Head(down)[2]) BY <1>0, <2>7, <3>2, Received
    <3>4. Head(down)[2] \in Contents BY <3>1, ContentFacts
    <3>5. /\ listed' => listed \/ Enters(Head(down)[2])
          /\ Head(down)[2] = <<"restricted">> => ~listed'
      BY <3>3, <3>4, Heard
    <3>6. /\ Coming(down) <=> Enters(Head(down)[2]) \/ Coming(down')
          /\ EndsAfter(down) => \/ EndsAfter(down')
                                \/ Head(down)[2] = <<"restricted">> /\ ~Coming(down')
      BY <1>0, <3>1, <3>3, Leaves
    <3>7. Listens BY <3>5, <3>6 DEF Listens
    <3>8. Told BY <1>0, <2>1, <3>7 DEF Owed
    <3>9. QED BY <2>2, <3>5, <3>6, <3>8 DEF Listens, Told
  <2>8. QED BY <1>0, <1>2, <2>4, <2>5, <2>6, <2>7 DEF ClientSteps
<1> SUFFICES ASSUME ~ClientSteps PROVE Told' BY <1>2
<1>3. listed' = listed BY OneWritten DEF client
<1>4. ~Discard BY <1>0 DEF Discard
<1>5. ~RevokeSession BY DEF RevokeSession
<1>6. ~LinkLost BY <1>0 DEF LinkLost
<1>7. ~closed
  <2>1. closed' = closed
    <3>1. ASSUME Take \/ Answer \/ Follow \/ Narrow \/ FlushDue \/ FlushNext
          PROVE  UNCHANGED closed
      BY <3>1 DEF Take, Answer, Follow, Narrow, FlushDue, FlushNext, Same
    <3>2. ASSUME Channel \/ Change \/ PushStarts PROVE UNCHANGED closed
      BY <3>2 DEF Channel, Change, PushStarts, Same, server
    <3>3. ASSUME NEW i \in DOMAIN pushes, PushGoes(i) PROVE UNCHANGED closed
      BY <3>3 DEF PushGoes, Same
    <3>4. QED BY <1>4, <1>5, <1>6, <3>1, <3>2, <3>3 DEF WireNext, ClientSteps
  <2>2. QED BY <2>1
<1>8. /\ live /\ outbox \in Seq(Notices) /\ Tame(outbox)
      /\ lane[1] = "events" => lane[2] \in Seq(Notices) /\ Tame(lane[2])
      /\ order[1] = "events" => order[2] \in Seq(Notices) /\ Tame(order[2])
      /\ outbox # <<>> => order = <<"due">>
  BY <1>0, <1>7, LaneFacts, StageFacts DEF WireTypeOK, NoticesTame
<1>9. CASE Answer
  <2>1. UNCHANGED <<outbox, order>> /\ lane[1] = "serving" BY <1>9 DEF Answer, Same
  <2>2. lane[2] \in Reqs /\ version \in Nat BY <2>1, LaneFacts DEF WireTypeOK
  <2>3. lane[2] # Sub /\ UNCHANGED held BY <1>7, <1>9 DEF Answer, WireTypeOK
  <2>4. <<"answer", lane[2], version>> \in Contents BY <2>2, ContentFacts
  <2>5. ~Enters(<<"answer", lane[2], version>>) BY <2>3 DEF Enters
  <2>6. Written(<<"answer", lane[2], version>>) BY <1>7, <1>9 DEF Answer
  <2>7. PICK f \in Frames : f[2] = <<"answer", lane[2], version>> /\ down' = Append(down, f)
    BY <1>0, <2>4, <2>6, WroteOn
  <2>8. /\ Coming(down') <=> Coming(down)
        /\ EndsAfter(down) => EndsAfter(down')
    BY <1>0, <2>5, <2>7, Joins
  <2>9. Listens BY <1>3, <2>8 DEF Listens
  <2>10. Told BY <1>0, <1>7, <2>3, <2>9 DEF Owed
  <2>11. Pending => Pending' BY <2>1 DEF Pending
  <2>12. QED BY <2>8, <2>10, <2>11 DEF Told
<1> SUFFICES ASSUME ~Answer PROVE Told' BY <1>9
\* A step that writes nothing that enters, and leaves the notices to be written.
<1>10. ASSUME UNCHANGED held, Pending => Pending' PROVE Told'
  <2>1. /\ Coming(down') <=> Coming(down)
        /\ EndsAfter(down) => EndsAfter(down')
    <3>1. CASE UNCHANGED down BY <3>1
    <3>2. CASE Writes
      <4>1. PICK x \in Contents : Written(x) /\ ~Enters(x) BY <3>2 DEF Writes
      <4>2. down' = down \/ \E f \in Frames : f[2] = x /\ down' = Append(down, f)
        BY <4>1, WroteOn
      <4>3. QED BY <1>0, <4>1, <4>2, Joins
    <3>3. QED BY <3>1, <3>2, OneWritten
  <2>2. Listens BY <1>3, <2>1 DEF Listens
  <2>3. Told BY <1>0, <1>7, <1>10, <2>2 DEF Owed
  <2>4. QED BY <1>10, <2>1, <2>3 DEF Told
<1>11. ASSUME UNCHANGED <<lane, order, outbox>> PROVE Pending => Pending'
  BY <1>11 DEF Pending
<1>12. CASE Take
  <2>1. UNCHANGED <<held, outbox, order>> /\ lane = <<"idle">> BY <1>12 DEF Take, Same
  <2>2. lane[1] # "events" BY <2>1
  <2>3. Pending => Pending' BY <2>1, <2>2 DEF Pending
  <2>4. QED BY <1>10, <2>1, <2>3
<1>13. CASE Follow
  <2> DEFINE events == IF lane[1] = "answered" THEN outbox ELSE lane[2]
  <2>1. events \in Seq(Notices) /\ Tame(events) BY <1>8, <1>13 DEF Follow
  <2>2. IF events = <<>> THEN lane' = <<"idle">> ELSE Written(Head(events))
    BY <1>13 DEF Follow
  <2>3. UNCHANGED <<held, order>> BY <1>13 DEF Follow, Same
  <2>4. CASE events = <<>>
    <3>1. CASE lane[1] = "answered"
      <4>1. outbox = <<>> /\ lane[1] # "events" BY <2>4, <3>1
      <4>2. Pending => Pending' BY <2>3, <4>1 DEF Pending
      <4>3. QED BY <1>10, <2>3, <4>2
    <3>2. CASE lane[1] # "answered"
      <4>1. lane[2] = <<>> /\ UNCHANGED outbox BY <1>13, <2>4, <3>2 DEF Follow
      <4>2. Pending => Pending' BY <2>3, <4>1 DEF Pending
      <4>3. QED BY <1>10, <2>3, <4>2
    <3>3. QED BY <3>1, <3>2
  <2>5. CASE events # <<>>
    <3>1. Written(Head(events)) BY <2>2, <2>5
    <3> HIDE DEF events
    <3>2. Head(events) = <<"restricted">> BY <2>1, <2>5, TameEnds
    <3>3. <<"restricted">> \in Contents BY ContentFacts DEF Notices
    <3>4. PICK f \in Frames : f[2] = <<"restricted">> /\ down' = Append(down, f)
      BY <1>0, <3>1, <3>2, <3>3, WroteOn
    <3>5. EndsAfter(down') BY <1>0, <3>4, Joins
    <3>6. QED BY <3>5 DEF Told
  <2>6. QED BY <2>4, <2>5
<1>14. CASE Narrow
  <2>1. order = <<"idle">> BY <1>14 DEF Narrow
  <2>2. outbox = <<>>
    <3>1. order # <<"due">> BY <2>1
    <3>2. QED BY <1>8, <3>1
  <2>3. Queued(<<"restricted">>) = <<<<"restricted">>>> BY <2>2, QueuedTyped DEF Notices
  <2>4. /\ Tame(<<<<"restricted">>>>) /\ <<<<"restricted">>>> \in Seq(Notices)
        /\ <<<<"restricted">>>> # <<>>
    BY DEF Tame, Notices
  <2>5. CASE Flush(Queued(<<"restricted">>))
    <3>1. EndsAfter(down') BY <1>0, <2>3, <2>4, <2>5, FlushTells
    <3>2. QED BY <3>1 DEF Told
  <2>6. CASE outbox' = Queued(<<"restricted">>)
    <3>1. outbox' # <<>> BY <2>3, <2>4, <2>6
    <3>2. QED BY <3>1 DEF Told, Pending
  <2>7. QED BY <1>14, <2>5, <2>6 DEF Narrow
<1>15. CASE FlushDue
  <2>1. Flush(outbox) /\ UNCHANGED <<lane, held>> BY <1>8, <1>15 DEF FlushDue, Same
  <2>2. CASE outbox = <<>>
    <3>1. order[1] # "events" BY <1>15 DEF FlushDue
    <3>2. Pending => Pending' BY <2>1, <2>2, <3>1 DEF Pending
    <3>3. QED BY <1>10, <2>1, <3>2
  <2>3. CASE outbox # <<>>
    <3>1. EndsAfter(down') BY <1>0, <1>8, <2>1, <2>3, FlushTells
    <3>2. QED BY <3>1 DEF Told
  <2>4. QED BY <2>2, <2>3
<1>16. CASE FlushNext
  <2>1. order[1] = "events" /\ UNCHANGED <<lane, held, outbox>> BY <1>16 DEF FlushNext, Same
  <2>2. CASE order[2] = <<>>
    <3>1. Pending => Pending' BY <2>1, <2>2 DEF Pending
    <3>2. QED BY <1>10, <2>1, <3>1
  <2>3. CASE order[2] # <<>>
    <3>1. Sent(Head(order[2])) BY <1>16, <2>3 DEF FlushNext
    <3>2. Head(order[2]) = <<"restricted">> BY <1>8, <2>1, <2>3, TameEnds
    <3>3. Written(<<"restricted">>) BY <1>0, <3>1, <3>2 DEF Sent, Plain
    <3>4. <<"restricted">> \in Contents BY ContentFacts DEF Notices
    <3>5. PICK f \in Frames : f[2] = <<"restricted">> /\ down' = Append(down, f)
      BY <1>0, <3>3, <3>4, WroteOn
    <3>6. EndsAfter(down') BY <1>0, <3>5, Joins
    <3>7. QED BY <3>6 DEF Told
  <2>4. QED BY <2>2, <2>3
<1>17. CASE Channel \/ Change \/ PushStarts
  <2>1. UNCHANGED <<held, lane, order, outbox>> BY <1>17 DEF Channel, Change, PushStarts, Same, server
  <2>2. QED BY <1>10, <1>11, <2>1
<1>18. ASSUME NEW i \in DOMAIN pushes, PushGoes(i) PROVE Told'
  <2>1. UNCHANGED <<held, lane, order, outbox>> BY <1>18 DEF PushGoes, Same
  <2>2. QED BY <1>10, <1>11, <2>1
<1>19. QED
  BY <1>4, <1>5, <1>6, <1>12, <1>12, <1>13, <1>14, <1>15, <1>16, <1>17, <1>18
  DEF WireNext, ClientSteps

-----------------------------------------------------------------------------
\* What is last on its way to the application is the present state.
LatestComes ==
  /\ raised # <<>> => raised[Len(raised)] = version
  /\ (Plain /\ first /\ held /\ ~closed /\ raised = <<>>) =>
       /\ pushes # <<>> => pushes[Len(pushes)] = version
       /\ pushes = <<>> => \/ Newest(down, version)
                           \/ Silent(down) /\ (listed => seen = version)

\* The state changed last is the last that waits to be pushed.
LEMMA RaisedLast ==
  ASSUME WireTypeOK, raised # <<>> => raised[Len(raised)] = version, WireNext
  PROVE  raised' # <<>> => raised'[Len(raised')] = version'
<1>0. raised \in Seq(Nat) /\ version + 1 \in Nat BY DEF WireTypeOK
<1>1. CASE Change
  <2>1. raised' = Append(raised, version + 1) /\ version' = version + 1 BY <1>1 DEF Change
  <2>2. Len(raised') = Len(raised) + 1 /\ raised'[Len(raised) + 1] = version + 1
    BY <1>0, <2>1, Lines
  <2>3. QED BY <2>1, <2>2
<1>2. CASE PushStarts
  <2>1. raised # <<>> /\ raised' = Tail(raised) /\ version' = version
    BY <1>2 DEF PushStarts, Same
  <2>2. /\ Len(raised) \in Nat /\ Len(raised) > 0 /\ Len(raised') = Len(raised) - 1
        /\ \A i \in 1..(Len(raised) - 1) : raised'[i] = raised[i + 1]
        /\ raised' \in Seq(Nat)
    BY <1>0, <2>1, Lines
  <2>3. ASSUME raised' # <<>> PROVE raised'[Len(raised')] = version'
    <3>1. Len(raised') # 0 BY <2>2, <2>3, Lines
    <3>2. Len(raised') \in 1..(Len(raised) - 1) /\ Len(raised') + 1 = Len(raised) BY <2>2, <3>1
    <3>3. QED BY <2>1, <2>2, <3>2
  <2>4. QED BY <2>3
<1>3. ASSUME ~Change, ~PushStarts PROVE UNCHANGED <<raised, version>>
  <2>1. ClientSteps => UNCHANGED <<raised, version>> BY ClientStill DEF entity
  <2>2. ASSUME Take \/ Answer \/ Follow \/ Narrow \/ FlushDue \/ FlushNext
        PROVE  UNCHANGED <<raised, version>>
    BY <2>2 DEF Take, Answer, Follow, Narrow, FlushDue, FlushNext, Same, entity
  <2>3. ASSUME RevokeSession \/ Discard \/ LinkLost \/ Channel PROVE UNCHANGED <<raised, version>>
    BY <2>3 DEF RevokeSession, Discard, LinkLost, Channel, Same, entity
  <2>4. ASSUME NEW i \in DOMAIN pushes, PushGoes(i) PROVE UNCHANGED <<raised, version>>
    BY <2>4 DEF PushGoes, Same
  <2>5. QED BY <1>3, <2>1, <2>2, <2>3, <2>4 DEF WireNext, ClientSteps
<1>4. QED BY <1>1, <1>2, <1>3

\* The answer carries the present state, a push the one it was raised for; the
\* one raised last is the present.
LEMMA LatestKept ==
  ASSUME WireTypeOK, NoticesTame, Once, Bare, LatestComes, WireNext
  PROVE  LatestComes'
<1>1. raised' # <<>> => raised'[Len(raised')] = version' BY RaisedLast DEF LatestComes
<1> DEFINE Way == /\ pushes # <<>> => pushes[Len(pushes)] = version
                  /\ pushes = <<>> => \/ Newest(down, version)
                                      \/ Silent(down) /\ (listed => seen = version)
<1> SUFFICES ASSUME Plain', first', held', ~closed', raised' = <<>> PROVE Way'
  BY <1>1 DEF LatestComes
<1>2. /\ Plain /\ first /\ UNCHANGED <<library, first, uplink, ws, chan>> /\ down \in Seq(Frames)
      /\ uplink = "up" /\ ws = "open" /\ chan = "none" /\ library = "noble" /\ opening = {}
      /\ side = <<>> /\ pushes \in Seq(Nat)
  <2>1. Plain /\ UNCHANGED <<library, first, uplink, ws, chan>> BY PlainWas
  <2>2. QED BY <2>1 DEF WireTypeOK, Once, Bare, Plain
<1>3. ASSUME held, ~closed, raised = <<>> PROVE Way BY <1>2, <1>3 DEF LatestComes
<1>4. ~Change
  <2>1. Change => raised' = Append(raised, version + 1) BY DEF Change
  <2>2. raised \in Seq(Nat) /\ version + 1 \in Nat BY DEF WireTypeOK
  <2>3. Append(raised, version + 1) # <<>> BY <2>2, Lines
  <2>4. QED BY <2>1, <2>3
<1>5. CASE PushStarts
  <2>1. /\ raised # <<>> /\ Tail(raised) = <<>> /\ UNCHANGED <<held, closed, version>>
        /\ pushes' = IF held /\ ~closed THEN Append(pushes, Head(raised)) ELSE pushes
    BY <1>5 DEF PushStarts, Same, server
  <2>2. raised \in Seq(Nat) BY DEF WireTypeOK
  <2>3. /\ Len(raised) \in Nat /\ Len(raised) > 0 /\ Len(Tail(raised)) = Len(raised) - 1
        /\ Head(raised) = raised[1] /\ Head(raised) \in Nat
    BY <2>1, <2>2, Lines
  <2>4. Len(raised) = 1
    <3>1. Len(<<>>) = 0 OBVIOUS
    <3>2. Len(Tail(raised)) = 0 BY <2>1, <3>1, Zenon
    <3>3. QED BY <2>3, <3>2
  <2>5. Head(raised) = version BY <2>1, <2>3, <2>4 DEF LatestComes
  <2>6. pushes' = Append(pushes, version) /\ version \in Nat BY <2>1, <2>3, <2>5
  <2>7. pushes' # <<>> /\ pushes'[Len(pushes')] = version BY <1>2, <2>6, Lines
  <2>8. QED BY <2>1, <2>7
<1>6. ASSUME NEW i \in DOMAIN pushes, PushGoes(i) PROVE Way'
  <2>1. /\ pushes' = RemoveAt(pushes, i) /\ Turn(i)
        /\ UNCHANGED <<held, closed, raised, version, live>>
    BY <1>6 DEF PushGoes, Same
  <2>2. i = 1 /\ i \in 1..Len(pushes) BY <1>2, <2>1 DEF Turn
  <2>3. pushes # <<>> /\ pushes' = Tail(pushes) BY <1>2, <2>1, <2>2, TakenOut
  <2>4. Way BY <1>3, <2>1
  <2>5. /\ Len(pushes) \in Nat /\ Len(pushes) > 0 /\ Len(pushes') = Len(pushes) - 1
        /\ \A k \in 1..(Len(pushes) - 1) : pushes'[k] = pushes[k + 1]
        /\ pushes' \in Seq(Nat)
    BY <1>2, <2>3, Lines
  <2>6. CASE pushes' # <<>>
    <3>1. Len(pushes') # 0 BY <2>5, <2>6, Lines
    <3>2. Len(pushes') \in 1..(Len(pushes) - 1) /\ Len(pushes') + 1 = Len(pushes) BY <2>5, <3>1
    <3>3. pushes'[Len(pushes')] = pushes[Len(pushes)] BY <2>5, <3>2
    <3>4. QED BY <2>1, <2>3, <2>4, <2>6, <3>3
  <2>7. CASE pushes' = <<>>
    <3>1. Len(pushes) = 1
      <4>1. Len(pushes') = 0 BY <2>7
      <4>2. QED BY <2>5, <4>1
    <3>2. pushes[i] = version BY <2>2, <2>3, <2>4, <3>1
    <3>3. live BY <1>2, <2>1 DEF NoticesTame
    <3>4. Written(<<"delta", version>>) BY <1>2, <1>6, <3>2, <3>3 DEF PushGoes, Sent
    <3>5. version \in Nat BY DEF WireTypeOK
    <3>6. <<"delta", version>> \in Contents BY <3>5, ContentFacts
    <3>7. PICK f \in Frames : f[2] = <<"delta", version>> /\ down' = Append(down, f)
      BY <1>2, <3>4, <3>6, WroteOn
    <3>8. Carries(f[2]) /\ Value(f[2]) = version BY <3>7 DEF Carries, Value
    <3>9. Newest(down', version) BY <1>2, <3>7, <3>8, Joins
    <3>10. QED BY <2>1, <2>7, <3>9
  <2>8. QED BY <2>6, <2>7
<1>7. CASE Answer
  <2>1. /\ UNCHANGED <<closed, raised, pushes, version, listed, seen>> /\ lane[1] = "serving"
    BY <1>7 DEF Answer, Same, client, entity
  <2>2. lane[2] \in Reqs /\ version \in Nat /\ lane = <<"serving", lane[2]>>
    BY <2>1, LaneFacts DEF WireTypeOK
  <2>3. <<"answer", lane[2], version>> \in Contents BY <2>2, ContentFacts
  <2>4. Written(<<"answer", lane[2], version>>) BY <1>7, <2>1 DEF Answer
  <2>5. PICK f \in Frames : f[2] = <<"answer", lane[2], version>> /\ down' = Append(down, f)
    BY <1>2, <2>3, <2>4, WroteOn
  <2>6. CASE lane[2] = Sub
    <3>1. pushes = <<>> BY <1>2, <2>2, <2>6 DEF Once, Unanswered
    <3>2. Carries(f[2]) /\ Value(f[2]) = version BY <2>5, <2>6 DEF Carries, Enters, Value
    <3>3. Newest(down', version) BY <1>2, <2>5, <3>2, Joins
    <3>4. QED BY <2>1, <3>1, <3>3
  <2>7. CASE lane[2] # Sub
    <3>1. held BY <1>7, <2>7 DEF Answer, WireTypeOK
    <3>2. Way BY <1>3, <2>1, <3>1
    <3>3. ~Carries(f[2]) BY <2>5, <2>7 DEF Carries, Enters
    <3>4. /\ Newest(down, version) => Newest(down', version)
          /\ Silent(down) => Silent(down')
      BY <1>2, <2>5, <3>3, Joins
    <3>5. QED BY <2>1, <3>2, <3>4
  <2>8. QED BY <2>6, <2>7
<1>8. CASE ClientSteps
  <2>1. UNCHANGED <<held, closed, raised, pushes, version>> BY <1>8, ClientStill DEF server, entity
  <2>2. Way BY <1>3, <2>1
  <2>3. ASSUME UNCHANGED <<listed, seen, down>> PROVE Way' BY <2>1, <2>2, <2>3
  <2>4. ASSUME NEW r \in Reqs, Ask(r) \/ Sealed(r) \/ TimesOut(r) PROVE Way'
    BY <2>3, <2>4 DEF Ask, Sealed, TimesOut, Same
  <2>5. ~ReceiveSide BY <1>2 DEF ReceiveSide
  <2>6. ~Leave BY <1>2 DEF Leave, Ends
  <2>7. CASE Receive
    <3>1. down # <<>> /\ Head(down) \in Frames BY <2>7, Received
    <3>2. ~Ends BY <1>2 DEF Ends
    <3>3. down' = Tail(down) /\ Hear(Head(down)[2]) BY <1>2, <2>7, <3>2, Received
    <3>4. Head(down)[2] \in Contents BY <3>1, ContentFacts
    <3>5. Enters(Head(down)[2]) => ~listed
      <4>1. Coming(down) <=> Enters(Head(down)[2]) \/ Coming(down') BY <1>2, <3>1, <3>3, Leaves
      <4>2. QED BY <1>2, <4>1 DEF Once
    <3>6. /\ Carries(Head(down)[2]) /\ listed' => seen' = Value(Head(down)[2])
          /\ ~Carries(Head(down)[2]) /\ listed' => listed /\ seen' = seen
      BY <3>3, <3>4, <3>5, Heard
    <3>7. /\ Newest(down, version) => \/ Newest(down', version)
                                      \/ /\ Carries(Head(down)[2])
                                         /\ Value(Head(down)[2]) = version /\ Silent(down')
          /\ Silent(down) => ~Carries(Head(down)[2]) /\ Silent(down')
      BY <1>2, <3>1, <3>3, Leaves
    <3>8. QED BY <2>1, <2>2, <3>6, <3>7
  <2>8. QED BY <1>2, <1>8, <2>4, <2>5, <2>6, <2>7 DEF ClientSteps
<1>9. ASSUME ~ClientSteps, ~PushStarts, ~Goes, ~Answer PROVE Way'
  <2>1. UNCHANGED <<listed, seen>> BY <1>9, OneWritten DEF client
  <2>2. /\ UNCHANGED <<raised, pushes, version>>
        /\ held /\ ~closed
    <3>1. ASSUME Take \/ Follow \/ FlushDue \/ FlushNext
          PROVE  UNCHANGED <<raised, pushes, version, held, closed>>
      BY <3>1 DEF Take, Follow, FlushDue, FlushNext, Same, entity
    <3>2. ~Narrow /\ ~RevokeSession /\ ~Discard BY DEF Narrow, RevokeSession, Discard
    <3>3. ASSUME LinkLost \/ Channel PROVE UNCHANGED <<raised, pushes, version, held, closed>>
      BY <3>3 DEF LinkLost, Channel, Same, server, entity
    <3>4. UNCHANGED <<raised, pushes, version, held, closed>>
      BY <1>4, <1>9, <3>1, <3>2, <3>3 DEF WireNext, ClientSteps, Goes
    <3>5. QED BY <3>4
  <2>3. Way BY <1>3, <2>2
  <2>4. /\ Newest(down, version) => Newest(down', version)
        /\ Silent(down) => Silent(down')
    <3>1. CASE UNCHANGED down BY <3>1
    <3>2. CASE Writes
      <4>1. PICK x \in Contents : Written(x) /\ ~Enters(x) /\ x[1] # "delta"
        BY <1>9, <3>2 DEF Writes
      <4>2. down' = down \/ \E f \in Frames : f[2] = x /\ down' = Append(down, f)
        BY <4>1, WroteOn
      <4>3. ~Carries(x) BY <4>1 DEF Carries
      <4>4. QED BY <1>2, <4>2, <4>3, Joins
    <3>3. QED BY <1>9, <3>1, <3>2, OneWritten
  <2>5. QED BY <2>1, <2>2, <2>3, <2>4
<1>10. QED BY <1>5, <1>6, <1>7, <1>8, <1>9 DEF Goes

-----------------------------------------------------------------------------
WireInv ==
  /\ WireTypeOK /\ DownInStep /\ UpInStep
  /\ NoticesTame /\ Once /\ Bare /\ Owed /\ LatestComes

\* The invariant of a session, both ends and what is under way between them.
THEOREM WireInductive == WireSpec => []WireInv
<1>1. WireInit => WireInv
  <2> SUFFICES ASSUME WireInit PROVE WireInv OBVIOUS
  <2>1. WireTypeOK
    <3>1. /\ <<>> \in Seq(Nat \X Reqs) /\ <<>> \in Seq(Frames) /\ <<>> \in Seq(Asides)
          /\ <<>> \in Seq(Notices) /\ <<>> \in Seq(Nat)
      OBVIOUS
    <3>2. <<"idle">> \in Lanes /\ <<"idle">> \in Stages BY LaneFacts, StageFacts
    <3>3. QED BY <3>1, <3>2 DEF WireInit, WireTypeOK
  <2>2. Len(<<>>) = 0 OBVIOUS
  <2>3. ~Asked(<<>>) /\ ~Coming(<<>>) /\ AskedOnce(<<>>) /\ AtMostOne(<<>>) /\ Tame(<<>>)
    BY <2>2 DEF Asked, Coming, AskedOnce, AtMostOne, Tame
  <2>4. <<"idle">>[1] # "events" /\ <<"idle">> # <<"serving", Sub>> OBVIOUS
  <2>5. DownInStep BY <2>2 DEF WireInit, DownInStep
  <2>6. UpInStep
    <3>1. Sealing = {} BY DEF WireInit, Sealing
    <3>2. QED BY <2>2, <3>1 DEF WireInit, UpInStep
  <2>7. NoticesTame /\ Bare BY <2>3, <2>4 DEF WireInit, NoticesTame, Bare
  <2>8. Once /\ Owed BY <2>3, <2>4 DEF WireInit, Once, Owed, Listens
  <2>9. LatestComes BY DEF WireInit, LatestComes
  <2>10. QED BY <2>1, <2>5, <2>6, <2>7, <2>8, <2>9 DEF WireInv
<1>2. WireInv /\ [WireNext]_wvars => WireInv'
  <2> SUFFICES ASSUME WireInv, [WireNext]_wvars PROVE WireInv' OBVIOUS
  <2>1. CASE WireNext
    <3>1. WireTypeOK' BY <2>1, ClientTyped, ServerTyped DEF WireInv
    <3>2. DownInStep' BY <2>1, DownKept DEF WireInv
    <3>3. UpInStep' BY <2>1, UpKept DEF WireInv
    <3>4. NoticesTame' BY <2>1, NoticesKept DEF WireInv
    <3>5. Once' BY <2>1, OnceKept DEF WireInv
    <3>6. Bare' BY <2>1, BareKept DEF WireInv
    <3>7. Owed' BY <2>1, OwedKept DEF WireInv
    <3>8. LatestComes' BY <2>1, LatestKept DEF WireInv
    <3>9. QED BY <3>1, <3>2, <3>3, <3>4, <3>5, <3>6, <3>7, <3>8 DEF WireInv
  <2>2. CASE UNCHANGED wvars
    <3>1. WireTypeOK' BY <2>2 DEF WireInv, WireTypeOK, wvars, client, server, entity
    <3>2. DownInStep' BY <2>2 DEF WireInv, DownInStep, wvars, client, server
    <3>3. UpInStep' BY <2>2 DEF WireInv, UpInStep, Sealing, wvars, client, server
    <3>4. NoticesTame' BY <2>2 DEF WireInv, NoticesTame, wvars, server
    <3>5. Once' /\ Bare'
      BY <2>2 DEF WireInv, Once, Bare, Unanswered, wvars, client, server, entity
    <3>6. Owed'
      BY <2>2 DEF WireInv, Owed, Plain, Listens, Told, Pending, wvars, client, server
    <3>7. LatestComes' BY <2>2 DEF WireInv, LatestComes, Plain, wvars, client, server, entity
    <3>8. QED BY <3>1, <3>2, <3>3, <3>4, <3>5, <3>6, <3>7 DEF WireInv
  <2>3. QED BY <2>1, <2>2
<1>3. QED BY <1>1, <1>2, PTL DEF WireSpec

\* The frames of a session come in step: whatever tasks write into connections that
\* come and go, the client never gets a frame that is not the next, nor does the
\* authority from a client whose frames are encrypted at once or one at a time.
THEOREM FramesInStep == WireSpec => []InStep
<1>1. WireInv => InStep
  <2> SUFFICES ASSUME WireInv PROVE InStep OBVIOUS
  <2>1. DOMAIN down = 1..Len(down) /\ DOMAIN up = 1..Len(up) BY DEF WireInv, WireTypeOK
  <2>2. ws = "open" => \A i \in DOMAIN down : down[i][1] = cRecv + i - 1
    BY <2>1 DEF WireInv, DownInStep
  <2>3. library # "webcrypto" => \A i \in DOMAIN up : up[i][1] = sRecv + i - 1
    BY <2>1 DEF WireInv, UpInStep
  <2>4. QED BY <2>2, <2>3 DEF InStep
<1>2. QED BY <1>1, WireInductive, PTL

\* At rest the authority feeds what the client listens to, whatever the owner
\* restricted while the subscription was asked for.
THEOREM ListenersFed == WireSpec => []FeedsServed
<1>1. WireInv => FeedsServed
  <2> SUFFICES ASSUME WireInv, Quiet, chan = "none", library = "noble", listed, ~closed
               PROVE  held
    BY DEF FeedsServed
  <2>1. /\ uplink = "up" /\ ws = "open" /\ down = <<>>
        /\ lane[1] # "events" /\ order[1] # "events" /\ order # <<"due">>
    BY DEF Quiet
  <2>2. outbox = <<>> BY <2>1 DEF WireInv, NoticesTame
  <2>3. ~Pending BY <2>1, <2>2 DEF Pending
  <2>4. ~EndsAfter(down)
    <3>1. Len(down) = 0 BY <2>1
    <3>2. QED BY <3>1 DEF EndsAfter
  <2>5. Plain /\ Listens /\ ~Told BY <2>1, <2>3, <2>4 DEF Plain, Listens, Told
  <2>6. QED BY <2>5 DEF WireInv, Owed
<1>2. QED BY <1>1, WireInductive, PTL

\* At rest the application was last given the present state, if no push is
\* overtaken.
THEOREM LatestReaches == WireSpec => []LatestSeen
<1>1. WireInv => LatestSeen
  <2> SUFFICES ASSUME WireInv, Quiet, first, chan = "none", library = "noble", listed, ~closed
               PROVE  seen = version
    BY DEF LatestSeen
  <2>1. /\ uplink = "up" /\ ws = "open" /\ down = <<>> /\ raised = <<>> /\ pushes = <<>>
        /\ lane[1] # "events" /\ order[1] # "events" /\ order # <<"due">>
    BY DEF Quiet
  <2>2. outbox = <<>> BY <2>1 DEF WireInv, NoticesTame
  <2>3. Len(down) = 0 BY <2>1
  <2>4. ~EndsAfter(down) /\ ~Newest(down, version) BY <2>3 DEF EndsAfter, Newest
  <2>5. ~Told BY <2>1, <2>2, <2>4 DEF Told, Pending
  <2>6. Plain /\ Listens BY <2>1 DEF Plain, Listens
  <2>7. held BY <2>5, <2>6 DEF WireInv, Owed
  <2>8. QED BY <2>1, <2>4, <2>6, <2>7 DEF WireInv, LatestComes
<1>2. QED BY <1>1, WireInductive, PTL
===============================================================================
