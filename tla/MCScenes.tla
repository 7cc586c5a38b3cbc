------------------------------- MODULE MCScenes -------------------------------
(***************************************************************************)
(* Small instances of the parts that are checked by themselves.  They      *)
(* share no state, and each behaviour plays one scene:                     *)
(*   - "request": a panel with a request, that stays on the page;          *)
(*   - "grant": a panel with a grant, that stays as well;                  *)
(*   - "visit": the same, which may leave and come back, and one command;  *)
(*   - "export": an owner who exports one of two dashboards with two views *)
(*     over three entities;                                                *)
(*   - "harvest": the dashboards of MCInputs;                              *)
(*   - "wire": an encrypted session with two requests, one event less with *)
(*     WebCrypto; it may end, unless it is served first, which is of use   *)
(*     to a session that goes on only;                                     *)
(*   - "link": the connection to the bridge, a second being a tick;        *)
(*   - "peers": three peer connections of two sessions;                    *)
(*   - "stop": a store with one consumer, two tasks of owner commands and  *)
(*     the relay's loop, and a stop of Home Assistant;                     *)
(*   - "reload": the same with a reload of the entry instead, and one      *)
(*     owner command at a time.                                            *)
(***************************************************************************)
EXTENDS Panel, Export, Lovelace, Wire, Link, Peers, Store

VARIABLE scene

MCShows(d, v) ==
  CASE <<d, v>> = <<"home", 1>> -> {"lamp", "meter"}
    [] <<d, v>> = <<"home", 2>> -> {"door"}
    [] OTHER                    -> {"lamp"}

T(t) == <<"text", t>>
L(s) == <<"list", s>>
M(f) == <<"map", f>>
Lamp == T("lamp")
Cam  == T("cam")
Word == T("word")
EntityRow(v) == M([entity |-> v])

\* Rows of a card, cards, cards around a card, and views with them.
MCRows ==
  {Lamp, Cam, Word, EntityRow(Cam), L(<<Lamp, EntityRow(Cam)>>), L(<<L(<<Cam>>), Word>>),
   L(<<M([type |-> T("buttons"), entities |-> L(<<Lamp>>)]), Cam>>)}
MCCards ==
  {Lamp}
    \cup {M([type |-> T(t), entities |-> r]) : t \in {"tile", "history-graph", "picture-glance"}, r \in MCRows}
    \cup {M([type |-> T(t), camera_image |-> Cam, entity |-> r]) : t \in {"tile", "picture-glance"}, r \in {Lamp, Word}}
    \cup {M([type |-> T("camera"), tap |-> EntityRow(r), rows |-> L(<<EntityRow(Lamp), L(<<EntityRow(Cam)>>)>>)]) : r \in {Cam, Word}}
MCAround(cards) ==
  cards
    \cup {M([type |-> T("stack"), cards |-> L(<<c, EntityRow(Lamp)>>)]) : c \in cards}
    \cup {M([type |-> T("history-graph"), card |-> c, conditions |-> L(<<EntityRow(Lamp)>>)]) : c \in cards}
    \cup {M([elements |-> c]) : c \in cards}
    \cup {M([header |-> M([card |-> c, footer |-> c])]) : c \in cards}
MCConfigs ==
  {M([views |-> L(<<M([cards |-> L(<<c>>), badges |-> L(<<EntityRow(Cam), Lamp>>)]), Word>>)]) : c \in MCAround(MCAround(MCCards))}
    \cup {M([views |-> L(<<M([cards |-> Word]), M([sections |-> L(<<Word, M([cards |-> c])>>)])>>)]) : c \in MCAround(MCCards)}
    \cup {M([views |-> Word]), M([title |-> Word])}

\* Their parts at any depth, and how deep they are: TLC works out what has a name
\* of its own once, and what it puts for a constant at every use.
RECURSIVE MCWithin(_)
MCWithin(v) == {v} \cup UNION {MCWithin(x) : x \in Parts(v)}
RECURSIVE MCDepthOf(_)
MCDepthOf(v) == 1 + Max({0} \cup {MCDepthOf(x) : x \in Parts(v)})
MCDepths == [v \in UNION {MCWithin(c) : c \in MCConfigs} |-> MCDepthOf(v)]
MCNested == DOMAIN MCDepths
MCDepth  == MCDepths
MCValues == MCNested

MCInputs == MCConfigs \X {0, 1, 2} \X {<<>>, << {"lamp"} >>, << {"cam", "other"} >>}

\* Of attempts after 1, 3 and 7 seconds: the waits are 1, 2 and 4.
MCTimes == <<0, 1, 3, 7>>

\* Nothing tells two sessions of peers apart, nor two tasks of owner commands.
MCSymmetry == Permutations(Sessions) \cup Permutations(Commands)

\* A harvest of nothing, for the other scenes.
MCNothing == <<M([title |-> Word]), 0, <<>> >>

-----------------------------------------------------------------------------
mvars == <<pvars, evars, input, wvars, lvars, pcvars, svars, scene>>

MCInit ==
  /\ scene \in {"request", "grant", "visit", "export", "harvest", "wire", "link", "peers",
              "stop", "reload"}
  /\ PanelInit /\ ExportInit /\ WireInit /\ LinkInit /\ PeersInit /\ StoreInit
  /\ store.request = IF scene = "request" THEN "none" ELSE "decided"
  /\ store.grant = IF scene \in {"grant", "visit"} THEN "active" ELSE "deleted"
  /\ IF scene = "harvest" THEN LovelaceInit ELSE input = MCNothing
  /\ scene # "wire" => library = "noble" /\ first
  /\ scene \notin {"stop", "reload"} => entry = NoId
  /\ first => library = "noble"  \* the others are claimed in step behind other frames too
  /\ orders = IF library = "noble" THEN 0 ELSE 1

InPanel ==
  /\ scene \in {"request", "grant", "visit"}
  /\ UNCHANGED <<evars, input, wvars, lvars, pcvars, svars, scene>>
Clicking == InPanel /\ (scene = "visit" => clicks = 0)
\* Restrictions differ in their names only: one of them is always added first.
InOrder(r) == DOMAIN will = {} => r = CHOOSE q \in Rules : TRUE
InExport == scene = "export" /\ UNCHANGED <<pvars, input, wvars, lvars, pcvars, svars, scene>>
InWire   == scene = "wire" /\ UNCHANGED <<pvars, evars, input, lvars, pcvars, svars, scene>>
InLink   == scene = "link" /\ UNCHANGED <<pvars, evars, input, wvars, pcvars, svars, scene>>
InPeers  == scene = "peers" /\ UNCHANGED <<pvars, evars, input, wvars, lvars, svars, scene>>
InStore ==
  /\ scene \in {"stop", "reload"}
  /\ UNCHANGED <<pvars, evars, input, wvars, lvars, pcvars, scene>>

\* A command starts; in the scene with a reload, where no other is under way.
Starting == InStore /\ (scene = "reload" => \A t \in Commands : task[t] = Idle)

MCNext ==
  \/ InPanel /\ ReadServed
  \/ InPanel /\ Loaded
  \/ InPanel /\ LoadFails
  \/ InPanel /\ Attach
  \/ InPanel /\ SetHass
  \/ InPanel /\ Subscribed
  \/ InPanel /\ SubscribeFails
  \/ InPanel /\ scene = "visit" /\ Detach
  \/ InPanel /\ Noticed
  \/ InPanel /\ Elsewhere
  \/ InPanel /\ CommandServed
  \/ InPanel /\ Replied
  \/ InPanel /\ StepTo
  \/ InPanel /\ Tick
  \/ InPanel /\ Chip
  \/ Clicking /\ Approve
  \/ Clicking /\ Reject
  \/ InPanel /\ Dialog
  \/ Clicking /\ Revoke
  \/ InPanel /\ AskDelete
  \/ Clicking /\ Delete
  \/ \E r \in Rules :
       \/ Clicking /\ InOrder(r) /\ AddRule(r)
       \/ Clicking /\ ToggleRule(r)
       \/ Clicking /\ EditRule(r)
       \/ Clicking /\ RemoveRule(r)
  \/ \E d \in Dashboards : InExport /\ PickDashboard(d)
  \/ \E c \in configs :
       \/ InExport /\ ConfigArrives(c)
       \/ InExport /\ ConfigFails(c)
  \/ \E v \in Views \cup {Whole} : InExport /\ PickView(v)
  \/ \E e \in Entities :
       \/ InExport /\ ToggleEntity(e)
       \/ InExport /\ ToggleActionEntity(e)
  \/ \E m \in shares :
       \/ InExport /\ ShareArrives(m)
       \/ InExport /\ ShareFails(m)
  \/ InExport /\ LeaveDashboard
  \/ InExport /\ HarvestArrives
  \/ InExport /\ HarvestFails
  \/ InExport /\ DownloadBrief
  \/ InExport /\ RefuseShare
  \/ InExport /\ BuildShare
  \/ \E r \in Reqs :
       \/ InWire /\ Ask(r)
       \/ InWire /\ Sealed(r)
       \/ InWire /\ TimesOut(r)
  \/ \E f \in opening : InWire /\ Opened(f)
  \/ \E i \in DOMAIN pushes : InWire /\ PushGoes(i)
  \/ InWire /\ Receive
  \/ InWire /\ ReceiveSide
  \/ InWire /\ ~first /\ Leave
  \/ InWire /\ Take
  \/ InWire /\ Answer
  \/ InWire /\ Follow
  \/ InWire /\ Narrow
  \/ InWire /\ FlushDue
  \/ InWire /\ FlushNext
  \/ InWire /\ RevokeSession
  \/ InWire /\ Discard
  \/ InWire /\ ~first /\ LinkLost
  \/ InWire /\ Channel
  \/ InWire /\ Change
  \/ InWire /\ PushStarts
  \/ InLink /\ Elapse
  \/ InLink /\ Attempt
  \/ InLink /\ Mismatch
  \/ InLink /\ IsReady
  \/ InLink /\ LinkEnds
  \/ InLink /\ Rejected
  \/ InLink /\ WaitOver
  \/ InLink /\ StopLink
  \/ \E s \in Sessions :
       \/ InPeers /\ Offer(s)
       \/ InPeers /\ Disconnected(s)
       \/ InPeers /\ SendFails(s)
  \/ \E i \in Pcs :
       \/ InPeers /\ ChannelOpens(i)
       \/ InPeers /\ ChannelEnds(i)
       \/ InPeers /\ StateEnds(i)
       \/ InPeers /\ CloseEnds(i)
       \/ InPeers /\ EndNext(i)
       \/ InPeers /\ Replaced(i)
       \/ InPeers /\ Negotiated(i)
  \/ InPeers /\ ClosedForIt
  \/ InPeers /\ Stop
  \/ InPeers /\ Stopped
  \/ \E c \in Consumers :
       \/ InStore /\ AccessRequest(c)
       \/ \E t \in Commands :
            \/ Starting /\ ApproveRequest(t, c)
            \/ Starting /\ RejectRequest(t, c)
            \/ Starting /\ CreatePreapproved(t, c)
            \/ \E id \in {"request", "key"} :
                 \/ Starting /\ RevokeGrant(t, c, id)
                 \/ Starting /\ DeleteGrant(t, c, id)
  \/ \E t \in Tasks :
       \/ InStore /\ GrantSaved(t)
       \/ InStore /\ AuditSaved(t)
       \/ InStore /\ Answered(t)
  \/ InStore /\ LoadStore
  \/ InStore /\ IdentitySaved
  \/ InStore /\ scene = "stop" /\ HassStops
  \/ InStore /\ scene = "reload" /\ Reload

MCSpec == MCInit /\ [][MCNext]_mvars
=============================================================================
