----------------------------- MODULE MediaPath ------------------------------
(***************************************************************************)
(* The signalling of one remote session, end to end: the runtime that the  *)
(* technician's browser keeps for the session, the relay room, and the     *)
(* agent's relay connection. The two ends agree on a WebRTC connection by  *)
(* offers and answers that the relay passes to whoever is in the room, and *)
(* must find each other again after a failed media path, a lost socket on  *)
(* either side, and a reconnect. A peer connection of the browser is known *)
(* by its number and so is one of the agent; a description stands for the  *)
(* candidates that follow it. The five data channels open and close as one.*)
(***************************************************************************)
EXTENDS Naturals, Sequences

CONSTANTS
  MaxFaults,  \* bound: sockets and media paths lost, reconnects on request
  MaxPeers    \* bound: peer connections of either side, which the faults keep to

ASSUME BoundsAssumption == MaxFaults \in Nat /\ MaxPeers \in Nat \ {0}

VARIABLES
  view,       \* snapshot.state
  stream,     \* snapshot.remoteStream is there
  gone,       \* the runtime was disposed of, and left the map
  sock,       \* runtime.socket, from the call of connect() on
  room,       \* the relay has admitted that socket
  late,       \* sockets given up whose close event has not come
  timer,      \* the wait timer of the current socket is armed
  peer,       \* runtime.peer
  chan,       \* the peer whose data channels the runtime refers to
  peers,      \* the browser's peer connections
  tries,      \* iceRetryAttempts
  sleeping,   \* attemptFreshOffer calls in their three seconds
  toConsole,  \* relay messages on their way to the current socket
  link,       \* the agent's relay connection
  apeer,      \* the agent's peer connection
  toAgent,    \* relay messages on their way to the agent
  ended,      \* the session has ended at the API
  faults      \* faults so far

runtime == <<view, stream, gone, timer, peer, chan, peers, tries, sleeping>>
wire == <<sock, room, late, toConsole>>
agent == <<link, apeer, toAgent>>
vars == <<runtime, wire, agent, ended, faults>>

NoPeer == 0
PeerIds == 1..MaxPeers
Unmade == [open |-> FALSE, sig |-> "stable", remote |-> NoPeer, path |-> "new", chan |-> FALSE]
NoAgentPeer == [id |-> NoPeer, of |-> NoPeer, healthy |-> TRUE]

Offer(p) == [kind |-> "offer", of |-> p, id |-> NoPeer]
Answer(a, p) == [kind |-> "answer", of |-> p, id |-> a]
Signal(kind) == [kind |-> kind, of |-> NoPeer, id |-> NoPeer]

\* Media can flow between browser peer p and the agent: each has the other's description.
Matched(p) == /\ peers[p].open /\ peers[p].remote = apeer.id
              /\ apeer.id # NoPeer /\ apeer.of = p

\* A number that nothing refers to, for a new peer connection of either side.
InFlight == {toConsole[n] : n \in DOMAIN toConsole} \cup {toAgent[n] : n \in DOMAIN toAgent}
NewPeer == CHOOSE p \in PeerIds : ~peers[p].open /\ p # apeer.of /\ \A m \in InFlight : m.of # p
NewAgentPeer == CHOOSE a \in PeerIds :
  a # apeer.id /\ (\A p \in PeerIds : peers[p].remote # a) /\ \A m \in InFlight : m.id # a

Init ==
  /\ view = "authorizing" /\ stream = FALSE /\ gone = FALSE
  /\ sock = "fetching" /\ room = FALSE /\ late = 0 /\ timer = FALSE
  /\ peer = NoPeer /\ chan = NoPeer
  /\ peers = [p \in PeerIds |-> Unmade]
  /\ tries = 0 /\ sleeping = 0 /\ toConsole = <<>>
  /\ link = "out" /\ apeer = NoAgentPeer /\ toAgent = <<>>
  /\ ended = FALSE /\ faults = 0

-----------------------------------------------------------------------------
(* What the handlers are built from *)

Fault == faults < MaxFaults /\ faults' = faults + 1

\* A message of the console is passed on if both are in the room, and lost otherwise.
Sent(m) == IF sock = "open" /\ room /\ link = "in" THEN Append(toAgent, m) ELSE toAgent
\* ... and one of the agent, or the relay's word of it.
Told(m) == IF sock = "open" /\ room THEN Append(toConsole, m) ELSE toConsole

\* Mutant: the references are dropped and the connection is left open.
ClosedForgotten(ps) == ps

\* The peer connections after the runtime's current one was closed, for good.
Closed(ps) == IF peer = NoPeer THEN ps ELSE [ps EXCEPT ![peer] = Unmade]

\* resetPeerChannels, and the same lines of reconnect and dispose
DropPeer ==
  /\ peers' = Closed(peers)
  /\ peer' = NoPeer
  /\ chan' = NoPeer

\* makePeer, which returns the current peer if there is one, and an offer from it
OfferFrom(p) ==
  /\ p = (IF peer = NoPeer THEN NewPeer ELSE peer)
  /\ peer' = p
  /\ chan' = IF peer = NoPeer THEN p ELSE chan
  /\ peers' = [peers EXCEPT ![p] = IF peer = NoPeer THEN [Unmade EXCEPT !.open = TRUE, !.sig = "offered"]
                                  ELSE [@ EXCEPT !.sig = "offered"]]
  /\ toAgent' = Sent(Offer(p))

-----------------------------------------------------------------------------
(* The relay socket of the console *)

\* connect(): the ICE servers are there and the socket opens, in a runtime that
\* may have been disposed of since.
SocketOpens ==
  /\ sock = "fetching"
  /\ sock' = "open"
  /\ view' = "connecting"
  /\ timer' = TRUE
  /\ UNCHANGED <<stream, gone, peer, chan, peers, tries, sleeping, room, late, toConsole, agent, ended, faults>>

\* The close event of the current socket, or of one that never opened.
SocketDies ==
  /\ sock \in {"fetching", "open"}
  /\ Fault
  /\ sock' = "closed"
  /\ room' = FALSE /\ toConsole' = <<>> /\ timer' = FALSE
  /\ view' = IF view = "ended" THEN view ELSE "waiting"
  /\ UNCHANGED <<stream, gone, peer, chan, peers, tries, sleeping, late, agent, ended>>

\* The close event of a socket that a reconnect gave up: it is not asked which one it is.
LateClose ==
  /\ late > 0
  /\ late' = late - 1
  /\ view' = IF view = "ended" THEN view ELSE "waiting"
  /\ UNCHANGED <<stream, gone, timer, peer, chan, peers, tries, sleeping, sock, room, toConsole, agent, ended, faults>>

\* The relay admits the socket, and tells it of an agent that is there already.
RelayAdmits ==
  /\ sock = "open" /\ ~room
  /\ room' = TRUE
  /\ toConsole' = <<Signal("joined")>> \o (IF link = "in" THEN <<Signal("peer_joined")>> ELSE <<>>)
  /\ UNCHANGED <<runtime, sock, late, agent, ended, faults>>

\* reconnectSessionRuntime
Reconnect ==
  /\ ~gone
  /\ DropPeer
  /\ sock' = "fetching" /\ room' = FALSE /\ toConsole' = <<>> /\ timer' = FALSE
  /\ late' = IF sock = "open" THEN late + 1 ELSE late
  /\ view' = "authorizing" /\ stream' = FALSE
  /\ UNCHANGED <<gone, tries, sleeping, agent, ended>>

\* The technician presses Reconnect, which the page offers after an error.
ReconnectNow == view = "error" /\ sock # "fetching" /\ ~ended /\ Fault /\ Reconnect

\* Mutant: any socket counts as a live one.
AliveOnce == sock # "fetching"

\* isSessionRuntimeAlive
Alive == sock = "open"

\* The page's timer finds the socket dead and rejoins. Bound: the API answers a
\* connect before the timer comes round, so that one connect runs at a time.
PollRejoins == sock # "fetching" /\ ~Alive /\ ~ended /\ Reconnect /\ UNCHANGED faults

-----------------------------------------------------------------------------
(* Relay messages to the console *)

Received == toConsole # <<>> /\ toConsole' = Tail(toConsole)
Heard(kind) == Received /\ Head(toConsole).kind = kind

HearJoined ==
  /\ Heard("joined")
  /\ view' = "waiting"
  /\ timer' = TRUE
  /\ UNCHANGED <<stream, gone, peer, chan, peers, tries, sleeping, sock, room, late, agent, ended, faults>>

\* An endpoint is there: offerEndpoint, on the peer there is or on a new one.
HearPeer ==
  /\ Heard("peer_joined")
  /\ timer' = FALSE
  /\ view' = "negotiating"
  /\ \E p \in PeerIds : OfferFrom(p)
  /\ UNCHANGED <<stream, gone, tries, sleeping, sock, room, late, link, apeer, ended, faults>>

\* Mutant: the agent answers first and adds the screen's track afterwards.
AnswerFirst == FALSE

\* accept_webrtc_offer adds the screen's track before it answers.
AnswerHasScreen == TRUE

Offering == peer # NoPeer /\ peers[peer].sig = "offered"

\* A peer connection that has applied the answer of agent peer a: another one
\* than it had before starts the media path and the channels afresh.
Answered(row, a) ==
  IF a = row.remote THEN [row EXCEPT !.sig = "stable"]
  ELSE [row EXCEPT !.sig = "stable", !.remote = a, !.path = "new", !.chan = FALSE]

\* An answer to whatever is offered is applied, be it the answer to that offer
\* or not, and the screen's track is there at once. One that follows an answer
\* of another agent peer may be refused, for its keys have changed.
HearAnswer ==
  /\ Heard("answer")
  /\ Offering
  /\ LET a == Head(toConsole).id
     IN  \/ /\ peers' = [peers EXCEPT ![peer] = Answered(@, a)]
            /\ stream' = (stream \/ AnswerHasScreen)
            /\ view' = IF AnswerHasScreen THEN "connected" ELSE view
         \/ /\ peers[peer].remote \notin {NoPeer, a}
            /\ view' = "error"
            /\ UNCHANGED <<peers, stream>>
  /\ UNCHANGED <<gone, timer, peer, chan, tries, sleeping, sock, room, late, agent, ended, faults>>

\* ... and one that nothing was offered for is an error; a missing peer is made first.
HearAnswerAmiss ==
  /\ Heard("answer")
  /\ ~Offering
  /\ view' = "error"
  /\ IF peer # NoPeer THEN UNCHANGED <<peer, chan, peers>>
     ELSE \E p \in PeerIds :
            /\ p = NewPeer
            /\ peer' = p /\ chan' = p
            /\ peers' = [peers EXCEPT ![p] = [Unmade EXCEPT !.open = TRUE]]
  /\ UNCHANGED <<stream, gone, timer, tries, sleeping, sock, room, late, agent, ended, faults>>

\* The wait timer: thirty seconds without an endpoint
WaitTimer ==
  /\ timer
  /\ timer' = FALSE
  /\ view' = IF view \in {"connecting", "waiting", "negotiating"} THEN "error" ELSE view
  /\ UNCHANGED <<stream, gone, peer, chan, peers, tries, sleeping, wire, agent, ended, faults>>

-----------------------------------------------------------------------------
(* The media path: events of any browser peer that is open *)

PathUp(p) ==
  /\ Matched(p) /\ peers[p].path \in {"new", "disconnected"}
  /\ apeer.healthy
  /\ peers' = [peers EXCEPT ![p].path = "up"]
  /\ tries' = 0
  /\ view' = IF stream THEN "connected" ELSE "negotiating"
  /\ UNCHANGED <<stream, gone, timer, peer, chan, sleeping, wire, agent, ended, faults>>

ChannelsOpen(p) ==
  /\ Matched(p) /\ peers[p].path = "up" /\ ~peers[p].chan
  /\ peers' = [peers EXCEPT ![p].chan = TRUE]
  /\ view' = "connected"
  /\ UNCHANGED <<stream, gone, timer, peer, chan, tries, sleeping, wire, agent, ended, faults>>

\* The agent has closed its end; the references go if they are to this peer's channels.
ChannelsClose(p) ==
  /\ peers[p].open /\ peers[p].chan /\ ~Matched(p)
  /\ peers' = [peers EXCEPT ![p].chan = FALSE]
  /\ chan' = IF chan = p THEN NoPeer ELSE chan
  /\ UNCHANGED <<view, stream, gone, timer, peer, tries, sleeping, wire, agent, ended, faults>>

PathBlips(p) ==
  /\ peers[p].open /\ peers[p].path = "up"
  /\ Fault \/ (~Matched(p) /\ UNCHANGED faults)
  /\ peers' = [peers EXCEPT ![p].path = "disconnected"]
  /\ view' = "waiting"
  /\ UNCHANGED <<stream, gone, timer, peer, chan, tries, sleeping, wire, agent, ended>>

MayRetry == tries < 2

\* Connectivity checks give up, which takes a description of the other side.
\* handleMediaPathFailure: a fresh offer in three seconds, twice at the most.
PathFails(p) ==
  /\ peers[p].open /\ peers[p].remote # NoPeer /\ peers[p].path \in {"new", "disconnected"}
  /\ Fault \/ (~(Matched(p) /\ apeer.healthy) /\ UNCHANGED faults)
  /\ IF sock = "open" /\ MayRetry
     THEN /\ tries' = tries + 1
          /\ DropPeer
          /\ sleeping' = sleeping + 1
          /\ UNCHANGED view
     ELSE /\ view' = "error"
          /\ peers' = [peers EXCEPT ![p].path = "failed"]
          /\ UNCHANGED <<tries, peer, chan, sleeping>>
  /\ UNCHANGED <<stream, gone, timer, wire, agent, ended>>

\* attemptFreshOffer after its sleep
FreshOffer ==
  /\ sleeping > 0
  /\ sleeping' = sleeping - 1
  /\ IF sock = "open"
     THEN /\ view' = "negotiating"
          /\ \E p \in PeerIds : OfferFrom(p)
     ELSE /\ view' = "error"
          /\ UNCHANGED <<peer, chan, peers, toAgent>>
  /\ UNCHANGED <<stream, gone, timer, tries, wire, link, apeer, ended, faults>>

-----------------------------------------------------------------------------
(* The agent: run_relay_connection and connect_relay *)

AgentJoins ==
  /\ link = "out" /\ ~ended
  /\ link' = "in"
  /\ toConsole' = Told(Signal("peer_joined"))
  /\ UNCHANGED <<runtime, sock, room, late, apeer, toAgent, ended, faults>>

\* The reconnect ticket of a session that has ended is refused.
AgentRefused ==
  /\ link = "out" /\ ended
  /\ link' = "done"
  /\ UNCHANGED <<runtime, wire, apeer, toAgent, ended, faults>>

AgentDrops ==
  /\ link = "in"
  /\ Fault
  /\ link' = "out"
  /\ apeer' = NoAgentPeer
  /\ toAgent' = <<>>
  /\ UNCHANGED <<runtime, wire, ended>>

\* The agent's own connection state, which lags behind the browser's.
AgentNotices ==
  /\ apeer.id # NoPeer /\ apeer.healthy
  /\ ~(Matched(apeer.of) /\ peers[apeer.of].path = "up")
  /\ apeer' = [apeer EXCEPT !.healthy = FALSE]
  /\ UNCHANGED <<runtime, wire, link, toAgent, ended, faults>>

\* An offer is ignored while the peer is healthy, and replaces it otherwise.
AgentOffer ==
  /\ toAgent # <<>> /\ Head(toAgent).kind = "offer"
  /\ toAgent' = Tail(toAgent)
  /\ IF apeer.id # NoPeer /\ apeer.healthy THEN UNCHANGED <<apeer, toConsole>>
     ELSE \E a \in PeerIds :
            /\ a = NewAgentPeer
            /\ apeer' = [id |-> a, of |-> Head(toAgent).of, healthy |-> TRUE]
            /\ toConsole' = Told(Answer(a, Head(toAgent).of))
  /\ UNCHANGED <<runtime, sock, room, late, link, ended, faults>>

AgentEnd ==
  /\ toAgent # <<>> /\ Head(toAgent).kind = "end"
  /\ link' = "done" /\ apeer' = NoAgentPeer /\ toAgent' = <<>>
  /\ UNCHANGED <<runtime, wire, ended, faults>>

-----------------------------------------------------------------------------
(* The end of the session *)

\* disposeSessionRuntime: a connect under way, or a sleep, goes on without it.
Dispose ==
  /\ gone' = TRUE
  /\ DropPeer
  /\ view' = "ended" /\ stream' = FALSE /\ timer' = FALSE
  /\ sock' = IF sock = "fetching" THEN sock ELSE "closed"
  /\ room' = FALSE /\ toConsole' = <<>>
  /\ late' = IF sock = "open" THEN late + 1 ELSE late
  /\ UNCHANGED <<tries, sleeping>>

\* The technician ends it here: the API first, then the word to the agent.
Stop ==
  /\ ~ended /\ ~gone
  /\ ended' = TRUE
  /\ toAgent' = Sent(Signal("end"))
  /\ Dispose
  /\ UNCHANGED <<link, apeer, faults>>

\* Somebody ends it elsewhere, and the page's timer finds out.
EndsElsewhere == ~ended /\ ended' = TRUE /\ UNCHANGED <<runtime, wire, agent, faults>>
PollEnded == ended /\ ~gone /\ Dispose /\ UNCHANGED <<agent, ended, faults>>

-----------------------------------------------------------------------------

ConsoleStep ==
  \/ HearJoined \/ HearPeer \/ HearAnswer \/ HearAnswerAmiss
  \/ FreshOffer \/ RelayAdmits \/ PollRejoins \/ PollEnded
Path(p) == PathUp(p) \/ ChannelsOpen(p) \/ ChannelsClose(p)
AgentStep == AgentJoins \/ AgentRefused \/ AgentOffer \/ AgentEnd

Next ==
  \/ SocketOpens \/ SocketDies \/ LateClose \/ ReconnectNow \/ WaitTimer
  \/ ConsoleStep \/ AgentStep
  \/ \E p \in PeerIds : Path(p) \/ PathBlips(p) \/ PathFails(p)
  \/ AgentDrops \/ AgentNotices
  \/ Stop \/ EndsElsewhere

Spec == Init /\ [][Next]_vars

\* Sockets open, timers go off, messages that are on their way are handled, the
\* page is open and polls, connectivity checks come to an end, and the agent's
\* side learns of a path that is gone. Faults, requests and the technician are
\* under no obligation.
FairSpec ==
  /\ Spec
  /\ WF_vars(SocketOpens) /\ WF_vars(LateClose) /\ WF_vars(WaitTimer)
  /\ WF_vars(ConsoleStep) /\ WF_vars(AgentStep) /\ WF_vars(AgentNotices)
  /\ \A p \in PeerIds : WF_vars(Path(p)) /\ WF_vars(faults' = faults /\ (PathBlips(p) \/ PathFails(p)))

-----------------------------------------------------------------------------
(* Properties *)

\* sessionRuntime.ts:405 "Do not report a usable session until the screen track
\* is actually attached": a console that shows "connected" has a screen to show,
\* though data channels, connection states and answers of this peer and of ones
\* given up all write the same field.
ConnectedShowsScreen == view = "connected" => stream

\* No browser peer is left open behind the runtime's back, which would hold a
\* second media path to the endpoint, and commands go to the current one: over
\* failed paths, reconnects and the end of the session, in any order.
OnePeer ==
  /\ \A p \in PeerIds : peers[p].open => p = peer
  /\ chan \in {NoPeer, peer}

\* SessionConsolePage.tsx:361 "so the console always recovers instead of sitting
\* on a dead connection": a socket that has died is replaced by an open one, as
\* long as the session has not ended.
SocketReplaced == (sock = "closed" /\ ~ended) ~> (sock = "open" \/ ended)
=============================================================================
