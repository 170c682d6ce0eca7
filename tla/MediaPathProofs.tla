-------------------------- MODULE MediaPathProofs ---------------------------
(***************************************************************************)
(* For any number of faults and peer connections: no peer connection is    *)
(* left open behind the runtime's current one, and "connected" means that  *)
(* a screen is attached. The second needs the first: an answered peer has  *)
(* brought a screen, and the screen goes only with every open peer.        *)
(***************************************************************************)
EXTENDS MediaPath, TLAPS

PeerOrNone == PeerIds \cup {NoPeer}
BrowserPeer ==
  [open : BOOLEAN, sig : {"stable", "offered"}, remote : PeerOrNone,
   path : {"new", "up", "disconnected", "failed"}, chan : BOOLEAN]
Message == [kind : {"joined", "peer_joined", "offer", "answer", "end"}, of : PeerOrNone, id : PeerOrNone]
AgentPeer == [id : PeerOrNone, of : PeerOrNone, healthy : BOOLEAN]

PeersTypeOK ==
  /\ peers \in [PeerIds -> BrowserPeer]
  /\ peer \in PeerOrNone
  /\ stream \in BOOLEAN
WireTypeOK ==
  /\ toConsole \in Seq(Message)
  /\ toAgent \in Seq(Message)
  /\ apeer \in AgentPeer
TypeInv == PeersTypeOK /\ WireTypeOK

\* A peer that has had an answer has brought the screen.
AnsweredHasScreen == \A p \in PeerIds : peers[p].open /\ peers[p].remote # NoPeer => stream

PathInv == OnePeer /\ AnsweredHasScreen /\ ConnectedShowsScreen

LEMMA NoPeerApart == NoPeer \notin PeerIds
  BY DEF NoPeer, PeerIds

LEMMA MessageTypes ==
  ASSUME WireTypeOK
  PROVE  /\ \A p \in PeerIds : Offer(p) \in Message
         /\ \A a \in PeerIds, p \in PeerOrNone : Answer(a, p) \in Message
         /\ \A kind \in {"joined", "peer_joined", "end"} : Signal(kind) \in Message
         /\ toConsole # <<>> => Head(toConsole) \in Message /\ Tail(toConsole) \in Seq(Message)
         /\ toAgent # <<>> => Head(toAgent) \in Message /\ Tail(toAgent) \in Seq(Message)
         /\ \A m \in Message : Sent(m) \in Seq(Message) /\ Told(m) \in Seq(Message)
<1>1. /\ \A p \in PeerIds : Offer(p) \in Message
      /\ \A a \in PeerIds, p \in PeerOrNone : Answer(a, p) \in Message
      /\ \A kind \in {"joined", "peer_joined", "end"} : Signal(kind) \in Message
  BY DEF Message, Offer, Answer, Signal, PeerOrNone
<1>2. \A s \in Seq(Message) : s # <<>> => Head(s) \in Message /\ Tail(s) \in Seq(Message)
  OBVIOUS
<1>3. \A m \in Message : Sent(m) \in Seq(Message) /\ Told(m) \in Seq(Message)
  BY DEF WireTypeOK, Sent, Told
<1>. QED BY <1>1, <1>2, <1>3 DEF WireTypeOK

\* A peer connection after a change of its path, of its channels, or an answer.
LEMMA PathRow ==
  ASSUME NEW row \in BrowserPeer, NEW path \in {"new", "up", "disconnected", "failed"}
  PROVE  [row EXCEPT !.path = path] \in BrowserPeer
  BY DEF BrowserPeer

LEMMA ChannelsRow ==
  ASSUME NEW row \in BrowserPeer, NEW open \in BOOLEAN
  PROVE  [row EXCEPT !.chan = open] \in BrowserPeer
  BY DEF BrowserPeer

LEMMA AnsweredRow ==
  ASSUME NEW row \in BrowserPeer, NEW a \in PeerOrNone
  PROVE  Answered(row, a) \in BrowserPeer /\ Answered(row, a).open = row.open
<1>1. [row EXCEPT !.sig = "stable"] \in BrowserPeer
  BY DEF BrowserPeer
<1>2. [[row EXCEPT !.sig = "stable"] EXCEPT !.remote = a] \in BrowserPeer
  BY <1>1 DEF BrowserPeer
<1>3. [[[row EXCEPT !.sig = "stable"] EXCEPT !.remote = a] EXCEPT !.path = "new"] \in BrowserPeer
  BY <1>2, PathRow
<1>4. [[[[row EXCEPT !.sig = "stable"] EXCEPT !.remote = a] EXCEPT !.path = "new"] EXCEPT !.chan = FALSE]
        \in BrowserPeer
  BY <1>3, ChannelsRow
<1>5. Answered(row, a) \in BrowserPeer
  BY <1>1, <1>4 DEF Answered
<1>6. Answered(row, a).open = row.open
  BY DEF Answered, BrowserPeer
<1>. QED BY <1>5, <1>6

LEMMA UnhealthyRow ==
  ASSUME NEW row \in AgentPeer
  PROVE  [row EXCEPT !.healthy = FALSE] \in AgentPeer
  BY DEF AgentPeer

\* Closing the current peer leaves the others as they are.
LEMMA ClosedPeers ==
  ASSUME PeersTypeOK
  PROVE  /\ Closed(peers) \in [PeerIds -> BrowserPeer]
         /\ \A p \in PeerIds : Closed(peers)[p] = IF p = peer THEN Unmade ELSE peers[p]
         /\ Unmade \in BrowserPeer
<1>1. Unmade \in BrowserPeer
  BY DEF Unmade, BrowserPeer, PeerOrNone
<1>. QED BY <1>1, NoPeerApart DEF PeersTypeOK, Closed, PeerOrNone

LEMMA DropsPeer ==
  ASSUME PeersTypeOK, OnePeer, DropPeer
  PROVE  /\ peers' \in [PeerIds -> BrowserPeer]
         /\ peer' = NoPeer /\ chan' = NoPeer
         /\ \A p \in PeerIds : ~peers'[p].open
<1>1. \A p \in PeerIds : peers'[p] = IF p = peer THEN Unmade ELSE peers[p]
  BY ClosedPeers DEF DropPeer
<1>. QED BY <1>1, ClosedPeers DEF DropPeer, OnePeer, Unmade

LEMMA OffersPeer ==
  ASSUME PeersTypeOK, OnePeer, AnsweredHasScreen, NEW p \in PeerIds, OfferFrom(p)
  PROVE  /\ peers' \in [PeerIds -> BrowserPeer]
         /\ peer' = p /\ chan' \in {NoPeer, p}
         /\ \A q \in PeerIds : peers'[q].open => q = p
         /\ \A q \in PeerIds : peers'[q].open /\ peers'[q].remote # NoPeer => stream
<1>1. CASE peer = NoPeer
  <2>1. [Unmade EXCEPT !.open = TRUE, !.sig = "offered"] \in BrowserPeer
    BY DEF Unmade, BrowserPeer, PeerOrNone
  <2>2. peers' = [peers EXCEPT ![p] = [Unmade EXCEPT !.open = TRUE, !.sig = "offered"]]
    BY <1>1 DEF OfferFrom
  <2>3. [Unmade EXCEPT !.open = TRUE, !.sig = "offered"].remote = NoPeer
    BY DEF Unmade
  <2>. QED BY <1>1, <2>1, <2>2, <2>3, NoPeerApart DEF OfferFrom, PeersTypeOK, OnePeer
<1>2. CASE peer # NoPeer
  <2>1. p = peer /\ peer' = p /\ chan' = chan
    BY <1>2 DEF OfferFrom
  <2>2. peers' = [peers EXCEPT ![p] = [@ EXCEPT !.sig = "offered"]]
    BY <1>2 DEF OfferFrom
  <2>3. \A q \in PeerIds : peers'[q].open = peers[q].open /\ peers'[q].remote = peers[q].remote
    BY <2>2 DEF PeersTypeOK, BrowserPeer
  <2>4. peers' \in [PeerIds -> BrowserPeer]
    BY <2>2 DEF PeersTypeOK, BrowserPeer
  <2>. QED BY <2>1, <2>3, <2>4 DEF OnePeer, AnsweredHasScreen
<1>. QED BY <1>1, <1>2

-----------------------------------------------------------------------------
(* One step of Next, by the part of the system it belongs to *)

LEMMA WireStep == TypeInv /\ OnePeer /\ AnsweredHasScreen /\ [Next]_vars => WireTypeOK'
<1> SUFFICES ASSUME TypeInv, OnePeer, AnsweredHasScreen, [Next]_vars PROVE WireTypeOK'
  OBVIOUS
<1> USE MessageTypes DEF TypeInv, WireTypeOK
<1>1. CASE SocketOpens \/ LateClose \/ WaitTimer \/ EndsElsewhere
  BY <1>1 DEF SocketOpens, LateClose, WaitTimer, EndsElsewhere, agent, wire
<1>2. CASE SocketDies \/ ReconnectNow \/ PollRejoins \/ PollEnded
  <2>1. toConsole' = <<>> /\ UNCHANGED agent
    BY <1>2 DEF SocketDies, ReconnectNow, PollRejoins, PollEnded, Reconnect, Dispose
  <2>. QED BY <2>1 DEF agent
<1>3. CASE RelayAdmits
  <2>1. Signal("joined") \in Message /\ Signal("peer_joined") \in Message
    OBVIOUS
  <2>2. toConsole' \in Seq(Message)
    BY <1>3, <2>1 DEF RelayAdmits
  <2>. QED BY <1>3, <2>2 DEF RelayAdmits, agent
<1>4. CASE HearJoined \/ HearAnswer \/ HearAnswerAmiss
  BY <1>4 DEF HearJoined, HearAnswer, HearAnswerAmiss, Heard, Received, agent
<1>5. CASE HearPeer
  BY <1>5 DEF HearPeer, Heard, Received, OfferFrom
<1>6. CASE FreshOffer
  BY <1>6 DEF FreshOffer, OfferFrom, wire
<1>7. ASSUME NEW p \in PeerIds, Path(p) \/ PathBlips(p) \/ PathFails(p) PROVE WireTypeOK'
  BY <1>7 DEF Path, PathUp, ChannelsOpen, ChannelsClose, PathBlips, PathFails, wire, agent
<1>8. CASE AgentJoins
  BY <1>8 DEF AgentJoins
<1>9. CASE AgentRefused \/ AgentDrops \/ AgentNotices \/ AgentEnd
  <2>1. NoAgentPeer \in AgentPeer
    BY DEF NoAgentPeer, AgentPeer, PeerOrNone
  <2>2. [apeer EXCEPT !.healthy = FALSE] \in AgentPeer
    BY UnhealthyRow
  <2>3. apeer' \in {apeer, NoAgentPeer, [apeer EXCEPT !.healthy = FALSE]} /\ UNCHANGED wire
    BY <1>9 DEF AgentRefused, AgentDrops, AgentNotices, AgentEnd
  <2>4. toAgent' = toAgent \/ toAgent' = <<>>
    BY <1>9 DEF AgentRefused, AgentDrops, AgentNotices, AgentEnd
  <2>5. apeer' \in AgentPeer
    BY ONLY <2>1, <2>2, <2>3, TypeInv DEF TypeInv, WireTypeOK
  <2>6. toAgent' \in Seq(Message)
    <3>1. CASE toAgent' = toAgent
      BY <3>1
    <3>2. CASE toAgent' = <<>>
      BY <3>2
    <3>. QED BY <2>4, <3>1, <3>2
  <2>7. toConsole' = toConsole
    BY <2>3 DEF wire
  <2>. QED BY <2>5, <2>6, <2>7
<1>10. CASE AgentOffer
  <2>1. toAgent # <<>> /\ Head(toAgent) \in Message /\ toAgent' = Tail(toAgent)
    BY <1>10 DEF AgentOffer
  <2>2. Head(toAgent).of \in PeerOrNone
    BY <2>1 DEF Message
  <2>3. CASE UNCHANGED <<apeer, toConsole>>
    BY <2>1, <2>3
  <2>4. ASSUME NEW a \in PeerIds, apeer' = [id |-> a, of |-> Head(toAgent).of, healthy |-> TRUE],
               toConsole' = Told(Answer(a, Head(toAgent).of))
        PROVE  WireTypeOK'
    BY <2>1, <2>2, <2>4 DEF PeerOrNone, AgentPeer
  <2>. QED BY <1>10, <2>3, <2>4 DEF AgentOffer
<1>11. CASE Stop
  BY <1>11 DEF Stop, Dispose
<1>12. CASE UNCHANGED vars
  BY <1>12 DEF vars, wire, agent
<1>. QED BY <1>1, <1>2, <1>3, <1>4, <1>5, <1>6, <1>7, <1>8, <1>9, <1>10, <1>11, <1>12
         DEF Next, ConsoleStep, AgentStep

LEMMA PathStep == TypeInv /\ PathInv /\ [Next]_vars => PeersTypeOK' /\ PathInv'
<1> SUFFICES ASSUME TypeInv, PathInv, [Next]_vars PROVE PeersTypeOK' /\ PathInv'
  OBVIOUS
<1> DEFINE Kept == PeersTypeOK' /\ PathInv'
<1> USE NoPeerApart DEF TypeInv, PathInv, OnePeer, AnsweredHasScreen, ConnectedShowsScreen
<1>1. CASE SocketOpens \/ SocketDies \/ LateClose \/ WaitTimer
  BY <1>1 DEF SocketOpens, SocketDies, LateClose, WaitTimer, PeersTypeOK
<1>2. CASE RelayAdmits \/ EndsElsewhere \/ HearJoined
  BY <1>2 DEF RelayAdmits, EndsElsewhere, HearJoined, runtime, PeersTypeOK
<1>3. CASE ReconnectNow \/ PollRejoins
  <2>1. DropPeer /\ view' = "authorizing" /\ stream' = FALSE
    BY <1>3 DEF ReconnectNow, PollRejoins, Reconnect
  <2>. QED BY <2>1, DropsPeer DEF PeersTypeOK, PeerOrNone
<1>4. CASE PollEnded \/ Stop
  <2>1. DropPeer /\ view' = "ended" /\ stream' = FALSE
    BY <1>4 DEF PollEnded, Stop, Dispose
  <2>. QED BY <2>1, DropsPeer DEF PeersTypeOK, PeerOrNone
<1>5. CASE HearPeer
  <2>1. PICK p \in PeerIds : OfferFrom(p)
    BY <1>5 DEF HearPeer
  <2>2. view' = "negotiating" /\ stream' = stream
    BY <1>5 DEF HearPeer
  <2>. QED BY <2>1, <2>2, OffersPeer DEF PeersTypeOK, PeerOrNone
<1>6. CASE FreshOffer
  <2>1. CASE sock = "open"
    <3>1. PICK p \in PeerIds : OfferFrom(p)
      BY <1>6, <2>1 DEF FreshOffer
    <3>2. view' = "negotiating" /\ stream' = stream
      BY <1>6, <2>1 DEF FreshOffer
    <3>. QED BY <3>1, <3>2, OffersPeer DEF PeersTypeOK, PeerOrNone
  <2>2. CASE sock # "open"
    BY <1>6, <2>2 DEF FreshOffer, PeersTypeOK
  <2>. QED BY <2>1, <2>2
<1>7. CASE HearAnswer
  <2>1. peer \in PeerIds /\ UNCHANGED <<peer, chan>>
    BY <1>7 DEF HearAnswer, Offering, PeersTypeOK, PeerOrNone
  <2>2. CASE view' = "error" /\ UNCHANGED <<peers, stream>>
    BY <2>1, <2>2 DEF PeersTypeOK
  <2>3. ASSUME NEW a, a = Head(toConsole).id, peers' = [peers EXCEPT ![peer] = Answered(@, a)],
               stream' = (stream \/ AnswerHasScreen)
        PROVE  Kept
    <3>1. a \in PeerOrNone
      BY <1>7, <2>3, MessageTypes DEF HearAnswer, Heard, Received, Message
    <3>2. /\ Answered(peers[peer], a) \in BrowserPeer
          /\ Answered(peers[peer], a).open = peers[peer].open
      BY <2>1, <3>1, AnsweredRow DEF PeersTypeOK
    <3>3. peers' = [peers EXCEPT ![peer] = Answered(peers[peer], a)]
      BY <2>3
    <3>4. peers' \in [PeerIds -> BrowserPeer]
      BY <2>1, <3>2, <3>3 DEF PeersTypeOK
    <3>5. \A q \in PeerIds : peers'[q].open = peers[q].open
      BY <2>1, <3>2, <3>3 DEF PeersTypeOK
    <3>6. stream' = TRUE
      BY <2>3 DEF AnswerHasScreen
    <3>. QED BY <2>1, <3>4, <3>5, <3>6 DEF PeersTypeOK
  <2>. QED BY <1>7, <2>2, <2>3 DEF HearAnswer
<1>8. CASE HearAnswerAmiss
  <2>1. view' = "error" /\ stream' = stream
    BY <1>8 DEF HearAnswerAmiss
  <2>2. CASE UNCHANGED <<peer, chan, peers>>
    BY <2>1, <2>2 DEF PeersTypeOK
  <2>3. ASSUME NEW p \in PeerIds, peer = NoPeer, peer' = p, chan' = p,
               peers' = [peers EXCEPT ![p] = [Unmade EXCEPT !.open = TRUE]]
        PROVE  Kept
    <3>1. [Unmade EXCEPT !.open = TRUE] \in BrowserPeer /\ [Unmade EXCEPT !.open = TRUE].remote = NoPeer
      BY DEF Unmade, BrowserPeer, PeerOrNone
    <3>2. peers' \in [PeerIds -> BrowserPeer]
      BY <2>3, <3>1 DEF PeersTypeOK
    <3>3. \A q \in PeerIds : peers'[q].open => q = p /\ peers'[q].remote = NoPeer
      BY <2>3, <3>1 DEF PeersTypeOK
    <3>. QED BY <2>1, <2>3, <3>2, <3>3 DEF PeersTypeOK, PeerOrNone
  <2>. QED BY <1>8, <2>2, <2>3 DEF HearAnswerAmiss
<1>9. ASSUME NEW p \in PeerIds, PathUp(p) \/ ChannelsOpen(p) PROVE Kept
  <2>1. stream /\ peers[p].open
    BY <1>9 DEF PathUp, ChannelsOpen, Matched
  <2>2. UNCHANGED <<stream, peer, chan>>
    BY <1>9 DEF PathUp, ChannelsOpen
  <2>5. peers[p] \in BrowserPeer
    BY DEF PeersTypeOK
  <2>6. \E row \in BrowserPeer : peers' = [peers EXCEPT ![p] = row]
    <3>1. CASE PathUp(p)
      <4>1. peers' = [peers EXCEPT ![p] = [peers[p] EXCEPT !.path = "up"]]
        BY <3>1 DEF PathUp
      <4>. QED BY <4>1, <2>5, PathRow
    <3>2. CASE ChannelsOpen(p)
      <4>1. peers' = [peers EXCEPT ![p] = [peers[p] EXCEPT !.chan = TRUE]]
        BY <3>2 DEF ChannelsOpen
      <4>. QED BY <4>1, <2>5, ChannelsRow
    <3>. QED BY <1>9, <3>1, <3>2
  <2>3. peers' \in [PeerIds -> BrowserPeer]
    BY <2>6 DEF PeersTypeOK
  <2>4. \A q \in PeerIds : peers'[q].open = peers[q].open /\ peers'[q].remote = peers[q].remote
    BY <1>9 DEF PathUp, ChannelsOpen, PeersTypeOK, BrowserPeer
  <2>. QED BY <2>1, <2>2, <2>3, <2>4 DEF PeersTypeOK
<1>10. ASSUME NEW p \in PeerIds, ChannelsClose(p) \/ PathBlips(p) PROVE Kept
  <2>1. UNCHANGED <<stream, peer>> /\ chan' \in {chan, NoPeer}
    BY <1>10 DEF ChannelsClose, PathBlips
  <2>2. view' = view \/ view' = "waiting"
    BY <1>10 DEF ChannelsClose, PathBlips
  <2>5. peers[p] \in BrowserPeer
    BY DEF PeersTypeOK
  <2>6. \E row \in BrowserPeer : peers' = [peers EXCEPT ![p] = row]
    <3>1. CASE ChannelsClose(p)
      <4>1. peers' = [peers EXCEPT ![p] = [peers[p] EXCEPT !.chan = FALSE]]
        BY <3>1 DEF ChannelsClose
      <4>. QED BY <4>1, <2>5, ChannelsRow
    <3>2. CASE PathBlips(p)
      <4>1. peers' = [peers EXCEPT ![p] = [peers[p] EXCEPT !.path = "disconnected"]]
        BY <3>2 DEF PathBlips
      <4>. QED BY <4>1, <2>5, PathRow
    <3>. QED BY <1>10, <3>1, <3>2
  <2>3. peers' \in [PeerIds -> BrowserPeer]
    BY <2>6 DEF PeersTypeOK
  <2>4. \A q \in PeerIds : peers'[q].open = peers[q].open /\ peers'[q].remote = peers[q].remote
    BY <1>10 DEF ChannelsClose, PathBlips, PeersTypeOK, BrowserPeer
  <2>. QED BY <2>1, <2>2, <2>3, <2>4 DEF PeersTypeOK
<1>11. ASSUME NEW p \in PeerIds, PathFails(p) PROVE Kept
  <2>1. CASE DropPeer /\ UNCHANGED <<view, stream>>
    BY <2>1, DropsPeer DEF PeersTypeOK, PeerOrNone
  <2>2. CASE view' = "error" /\ peers' = [peers EXCEPT ![p].path = "failed"] /\ UNCHANGED <<stream, peer, chan>>
    <3>1. peers' \in [PeerIds -> BrowserPeer]
      BY <2>2 DEF PeersTypeOK, BrowserPeer
    <3>2. \A q \in PeerIds : peers'[q].open = peers[q].open /\ peers'[q].remote = peers[q].remote
      BY <2>2 DEF PeersTypeOK, BrowserPeer
    <3>. QED BY <2>2, <3>1, <3>2 DEF PeersTypeOK
  <2>. QED BY <1>11, <2>1, <2>2 DEF PathFails
<1>12. CASE AgentStep \/ AgentDrops \/ AgentNotices
  BY <1>12 DEF AgentStep, AgentJoins, AgentRefused, AgentOffer, AgentEnd, AgentDrops, AgentNotices, runtime, PeersTypeOK
<1>13. CASE UNCHANGED vars
  BY <1>13 DEF vars, runtime, PeersTypeOK
<1>. QED BY <1>1, <1>2, <1>3, <1>4, <1>5, <1>6, <1>7, <1>8, <1>9, <1>10, <1>11, <1>12, <1>13
         DEF Next, ConsoleStep, Path

LEMMA Invariant == Spec => [](TypeInv /\ PathInv)
<1>1. Init => TypeInv /\ PathInv
  <2> SUFFICES ASSUME Init PROVE TypeInv /\ PathInv
    OBVIOUS
  <2>1. PeersTypeOK
    BY DEF Init, PeersTypeOK, BrowserPeer, Unmade, PeerOrNone
  <2>2. WireTypeOK
    BY DEF Init, WireTypeOK, NoAgentPeer, AgentPeer, PeerOrNone
  <2>3. PathInv
    BY DEF Init, PathInv, OnePeer, AnsweredHasScreen, ConnectedShowsScreen, Unmade
  <2>. QED BY <2>1, <2>2, <2>3 DEF TypeInv
<1>2. TypeInv /\ PathInv /\ [Next]_vars => (TypeInv /\ PathInv)'
  BY WireStep, PathStep DEF TypeInv, PathInv
<1>. QED BY <1>1, <1>2, PTL DEF Spec

\* Whatever sockets, paths and reconnects do, the browser holds one peer
\* connection for the session (makePeer, resetPeerChannels, dispose, reconnect).
THEOREM OnePeerAtATime == Spec => []OnePeer
<1>1. PathInv => OnePeer
  BY DEF PathInv
<1>. QED BY <1>1, Invariant, PTL

\* A console that says "connected" has a screen (ontrack, configureDataChannel,
\* onconnectionstatechange and accept_webrtc_offer's order of track and answer).
THEOREM ConnectedMeansScreen == Spec => []ConnectedShowsScreen
<1>1. PathInv => ConnectedShowsScreen
  BY DEF PathInv
<1>. QED BY <1>1, Invariant, PTL
=============================================================================
