------------------------------- MODULE Relay -------------------------------
(***************************************************************************)
(* The session relay (apps/relay/src/index.ts) with its Redis registry:    *)
(* processes that admit WebSocket connections to the room of a session     *)
(* against a single-use join ticket, and tell the peers of a room of each  *)
(* other. A join is a chain of awaited Redis calls; other events of the    *)
(* process, its socket's close among them, run between two of them. Redis  *)
(* runs one command at a time. Clients send one join per connection        *)
(* (sessionRuntime.ts, main.rs), and no ticket expires meanwhile.          *)
(***************************************************************************)
EXTENDS Naturals, FiniteSets

CONSTANTS
  Process, Conn, Room, Ticket,
  TicketRoom,        \* the session a ticket admits to
  MaxPeers,          \* maxPeersPerSession
  MaxConnections,    \* maxConnections, of one process
  NoProcess, NoTicket

ASSUME RelayAssumption ==
  /\ TicketRoom \in [Ticket -> Room]
  /\ MaxPeers \in Nat \ {0, 1}     \* the code raises a smaller setting to 2
  /\ MaxConnections \in Nat \ {0}
  /\ NoProcess \notin Process
  /\ NoTicket \notin Ticket
  /\ IsFiniteSet(Conn)

\* Where a connection's join, and then its release, has got to.
Joining   == {"read", "add", "count", "back", "subscribe"}
Releasing == {"unsubscribe", "remove", "card", "delete"}
Stage     == {"new", "idle", "joined", "done"} \cup Joining \cup Releasing

VARIABLES
  conn,      \* per connection: its process, its socket, its stage, its ticket
  existing,  \* the members a join read from the registry
  told,      \* the peers a connection was sent a peer_joined for
  rooms,     \* the Map rooms of each process
  subs,      \* the Set subscriptions of each process
  used,      \* the ticket keys in Redis
  registry,  \* the sorted set of members of each room, in Redis
  channel,   \* the processes Redis has subscribed to each room's channel
  news,      \* peer_joined messages published and not yet delivered
  admitted,  \* history: the connections each ticket admitted
  present,   \* history: who was in the room when a join read the registry
  dropped    \* history: members whose entry the DEL of a leaving peer removed

redis   == <<used, registry, channel>>
local   == <<rooms, subs>>
history == <<admitted, present, dropped>>
vars    == <<conn, existing, told, rooms, subs, used, registry, channel, news,
             admitted, present, dropped>>

ConnRow == [at : Process \cup {NoProcess}, open : BOOLEAN, stage : Stage,
            ticket : Ticket \cup {NoTicket}]

TypeOK ==
  /\ conn \in [Conn -> ConnRow]
  /\ existing \in [Conn -> SUBSET Conn]
  /\ told \in [Conn -> SUBSET Conn]
  /\ rooms \in [Process -> [Room -> SUBSET Conn]]
  /\ subs \in [Process -> SUBSET Room]
  /\ used \in SUBSET Ticket
  /\ registry \in [Room -> SUBSET Conn]
  /\ channel \in [Room -> SUBSET Process]
  /\ news \in SUBSET [to : Process, room : Room, from : Conn]
  /\ admitted \in [Ticket -> SUBSET Conn]
  /\ present \in [Conn -> SUBSET Conn]
  /\ dropped \in SUBSET Conn

Init ==
  /\ conn = [c \in Conn |-> [at |-> NoProcess, open |-> FALSE, stage |-> "new",
                             ticket |-> NoTicket]]
  /\ existing = [c \in Conn |-> {}]
  /\ told = [c \in Conn |-> {}]
  /\ rooms = [p \in Process |-> [r \in Room |-> {}]]
  /\ subs = [p \in Process |-> {}]
  /\ used = {}
  /\ registry = [r \in Room |-> {}]
  /\ channel = [r \in Room |-> {}]
  /\ news = {}
  /\ admitted = [t \in Ticket |-> {}]
  /\ present = [c \in Conn |-> {}]
  /\ dropped = {}

RoomOf(c)   == TicketRoom[conn[c].ticket]
At(c, st)   == conn[c].stage = st
Goto(c, st) == conn' = [conn EXCEPT ![c].stage = st]
OpenAt(p)   == {c \in Conn : conn[c].open /\ conn[c].at = p}
Members(r)  == {c \in Conn : At(c, "joined") /\ conn[c].open /\ RoomOf(c) = r}

----------------------------------------------------------------------------
(* Joining *)

\* GET /ws: beyond the ceiling the socket is closed without a handler.
Connect(c, p) ==
  /\ At(c, "new")
  /\ Cardinality(OpenAt(p)) < MaxConnections
  /\ conn' = [conn EXCEPT ![c].at = p, ![c].open = TRUE, ![c].stage = "idle"]
  /\ UNCHANGED <<existing, told, local, redis, news, history>>

\* Mutant: the key is set without NX.
FreshAlways(t) == TRUE
\* SET NX of the ticket's key
Fresh(t) == t \notin used

\* A join message; consumeTicket lets the first bearer of the ticket through.
Consume(c, t) ==
  /\ At(c, "idle") /\ conn[c].open
  /\ Fresh(t)
  /\ used' = used \cup {t}
  /\ conn' = [conn EXCEPT ![c].stage = "read", ![c].ticket = t]
  /\ admitted' = [admitted EXCEPT ![t] = @ \cup {c}]
  /\ UNCHANGED <<existing, told, local, registry, channel, news, present, dropped>>

\* Entries no process refreshes: what zRemRangeByScore may find too old.
Lapsed(r) == {c \in registry[r] : /\ conn[c].stage \notin Joining
                                  /\ c \notin rooms[conn[c].at][r]}

\* Mutant: the members of this process only, as without Redis.
ReadableLocal(c, S) == rooms[conn[c].at][RoomOf(c)]
Readable(c, S) == registry[RoomOf(c)] \ S

\* existingRoomMembers, and the first check of claimRoomMember
ReadMembers(c) ==
  /\ At(c, "read")
  /\ \E S \in SUBSET Lapsed(RoomOf(c)) :
       LET found == Readable(c, S) IN
       /\ registry' = [registry EXCEPT ![RoomOf(c)] = @ \ S]
       /\ existing' = [existing EXCEPT ![c] = found]
       /\ present' = [present EXCEPT ![c] = Members(RoomOf(c))]
       /\ IF Cardinality(found) >= MaxPeers
          THEN conn' = [conn EXCEPT ![c].open = FALSE, ![c].stage = "done"]
          ELSE Goto(c, "add")
  /\ UNCHANGED <<told, local, used, channel, news, admitted, dropped>>

AddMember(c) ==
  /\ At(c, "add")
  /\ registry' = [registry EXCEPT ![RoomOf(c)] = @ \cup {c}]
  /\ Goto(c, "count")
  /\ UNCHANGED <<existing, told, local, used, channel, news, history>>

\* The end of a join: the peer is told whom it read, the room is told of it.
Enter(c) ==
  LET p == conn[c].at
      r == RoomOf(c) IN
  /\ Goto(c, "joined")
  /\ told' = [d \in Conn |-> IF ~conn[d].open     THEN told[d]
                             ELSE IF d = c        THEN told[d] \cup existing[c]
                             ELSE IF d \in rooms[p][r] THEN told[d] \cup {c}
                             ELSE told[d]]
  /\ news' = news \cup [to : channel[r] \ {p}, room : {r}, from : {c}]

\* Mutant: an entry that is one too many stays.
OverByTwo(r) == Cardinality(registry[r]) > MaxPeers + 1
Over(r) == Cardinality(registry[r]) > MaxPeers

\* zCard after zAdd, then the local part of the join up to its next await:
\* a process that is subscribed to the room has nothing to wait for.
CountMembers(c) ==
  /\ At(c, "count")
  /\ LET p == conn[c].at
         r == RoomOf(c) IN
     \/ /\ Over(r)
        /\ Goto(c, "back")
        /\ UNCHANGED <<told, local, news>>
     \/ /\ ~Over(r)
        /\ rooms' = [rooms EXCEPT ![p][r] = @ \cup {c}]
        /\ subs' = [subs EXCEPT ![p] = @ \cup {r}]
        /\ \/ r \in subs[p] /\ Enter(c)
           \/ r \notin subs[p] /\ Goto(c, "subscribe") /\ UNCHANGED <<told, news>>
  /\ UNCHANGED <<existing, redis, history>>

\* The entry over the ceiling is taken back and the socket closed.
BackOut(c) ==
  /\ At(c, "back")
  /\ registry' = [registry EXCEPT ![RoomOf(c)] = @ \ {c}]
  /\ conn' = [conn EXCEPT ![c].open = FALSE, ![c].stage = "done"]
  /\ UNCHANGED <<existing, told, local, used, channel, news, history>>

\* One connection to Redis carries a process's SUBSCRIBEs and UNSUBSCRIBEs.
Pending(p, r) == \E d \in Conn : At(d, "unsubscribe") /\ conn[d].at = p /\ RoomOf(d) = r

Subscribe(c) ==
  /\ At(c, "subscribe")
  /\ ~Pending(conn[c].at, RoomOf(c))
  /\ channel' = [channel EXCEPT ![RoomOf(c)] = @ \cup {conn[c].at}]
  /\ Enter(c)
  /\ UNCHANGED <<existing, local, used, registry, history>>

\* A published peer_joined reaches a process, which tells the room's peers.
Deliver(n) ==
  /\ n \in news
  /\ news' = news \ {n}
  /\ told' = [d \in Conn |-> IF d \in rooms[n.to][n.room] /\ conn[d].open
                             THEN told[d] \cup {n.from} ELSE told[d]]
  /\ UNCHANGED <<conn, existing, local, redis, history>>

----------------------------------------------------------------------------
(* Leaving *)

\* Mutant: the first peer to leave takes the subscription with it.
EmptiedAlways(c) == TRUE
Emptied(c) == rooms[conn[c].at][RoomOf(c)] = {c}

\* The close event, up to the first await of releaseRoomMember. During a join
\* the peer has no sessionId yet: nothing is released, and the join goes on.
Close(c) ==
  /\ conn[c].open
  /\ LET p == conn[c].at
         r == RoomOf(c) IN
     \/ /\ At(c, "joined")
        /\ rooms' = [rooms EXCEPT ![p][r] = @ \ {c}]
        /\ subs' = IF Emptied(c) THEN [subs EXCEPT ![p] = @ \ {r}] ELSE subs
        /\ conn' = [conn EXCEPT ![c].open = FALSE,
                      ![c].stage = IF Emptied(c) THEN "unsubscribe" ELSE "remove"]
     \/ /\ ~At(c, "joined")
        /\ conn' = [conn EXCEPT ![c].open = FALSE]
        /\ UNCHANGED local
  /\ UNCHANGED <<existing, told, redis, news, history>>

Unsubscribe(c) ==
  /\ At(c, "unsubscribe")
  /\ channel' = [channel EXCEPT ![RoomOf(c)] = @ \ {conn[c].at}]
  /\ Goto(c, "remove")
  /\ UNCHANGED <<existing, told, local, used, registry, news, history>>

RemoveMember(c) ==
  /\ At(c, "remove")
  /\ registry' = [registry EXCEPT ![RoomOf(c)] = @ \ {c}]
  /\ Goto(c, "card")
  /\ UNCHANGED <<existing, told, local, used, channel, news, history>>

\* zCard, and del if it answered 0
ReadCard(c) ==
  /\ At(c, "card")
  /\ Goto(c, IF registry[RoomOf(c)] = {} THEN "delete" ELSE "done")
  /\ UNCHANGED <<existing, told, local, redis, news, history>>

DeleteMembers(c) ==
  /\ At(c, "delete")
  /\ dropped' = dropped \cup registry[RoomOf(c)]
  /\ registry' = [registry EXCEPT ![RoomOf(c)] = {}]
  /\ Goto(c, "done")
  /\ UNCHANGED <<existing, told, local, used, channel, news, admitted, present>>

\* Mutant: the room is written for the member.
RefreshedRoom(c) == {RoomOf(c)}
Refreshed(c) == {c}

\* heartbeatMembers, one zAdd of its loop; one that changes nothing is left out.
Heartbeat(c) ==
  /\ \E r \in Room :
       /\ c \in UNION {rooms[p][r] : p \in Process} \ registry[r]
       /\ registry' = [registry EXCEPT ![r] = @ \cup Refreshed(c)]
  /\ UNCHANGED <<conn, existing, told, local, used, channel, news, history>>

\* A process dies and is started again: its memory and sockets are gone.
Crash(p) ==
  /\ OpenAt(p) # {}
  /\ conn' = [c \in Conn |-> IF conn[c].at = p
                             THEN [conn[c] EXCEPT !.open = FALSE, !.stage = "done"]
                             ELSE conn[c]]
  /\ rooms' = [rooms EXCEPT ![p] = [r \in Room |-> {}]]
  /\ subs' = [subs EXCEPT ![p] = {}]
  /\ channel' = [r \in Room |-> channel[r] \ {p}]
  /\ news' = {n \in news : n.to # p}
  /\ UNCHANGED <<existing, told, used, registry, history>>

----------------------------------------------------------------------------
Join(c)    == \/ \E t \in Ticket : Consume(c, t)
              \/ ReadMembers(c) \/ AddMember(c) \/ CountMembers(c) \/ BackOut(c)
              \/ Subscribe(c)
Release(c) == Unsubscribe(c) \/ RemoveMember(c) \/ ReadCard(c) \/ DeleteMembers(c)

Next ==
  \/ \E c \in Conn, p \in Process : Connect(c, p)
  \/ \E c \in Conn : Join(c) \/ Close(c) \/ Release(c) \/ Heartbeat(c)
  \/ \E n \in news : Deliver(n)
  \/ \E p \in Process : Crash(p)

Spec == Init /\ [][Next]_vars

----------------------------------------------------------------------------
(* Properties *)

\* A join ticket admits one connection, on whichever process it is presented
\* and however the presentations interleave (consumeTicket).
TicketOnce == \A t \in Ticket : \A c, d \in admitted[t] : c = d

\* No more peers than the ceiling are joined to a room, over all processes
\* and racing joins, except for those whose entry the DEL of a leaving peer
\* took away (claimRoomMember, releaseRoomMember).
CeilingUnlessDropped ==
  \A r \in Room : Cardinality(Members(r) \ dropped) <= MaxPeers

\* A peer is told of everyone who was in the room already when its join read
\* the registry, whatever process they are on (claimRoomMember, peer_joined).
ExistingPeersTold ==
  \A c \in Conn :
    At(c, "joined") /\ conn[c].open => present[c] \ dropped \subseteq told[c]

\* While no SUBSCRIBE or UNSUBSCRIBE of a process is in flight, it is
\* subscribed to the channels of exactly the rooms it has a peer in, although
\* peers of the room come and go between those calls (subscribeRoom,
\* unsubscribeRoom).
InFlight(p, r) == \E c \in Conn : /\ conn[c].at = p
                                  /\ conn[c].stage \in {"subscribe", "unsubscribe"}
                                  /\ RoomOf(c) = r
ChannelFollowsRooms ==
  \A p \in Process, r \in Room :
    ~InFlight(p, r) => (rooms[p][r] # {} <=> p \in channel[r])
=============================================================================
