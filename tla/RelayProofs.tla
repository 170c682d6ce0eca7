---------------------------- MODULE RelayProofs ----------------------------
(***************************************************************************)
(* Theorems about Relay, for every number of processes, connections, rooms *)
(* and tickets.                                                            *)
(***************************************************************************)
EXTENDS Relay, FiniteSetTheorems, TLAPS

----------------------------------------------------------------------------
(* Types. The function applications of the actions are defined because a    *)
(* connection past its join message has a process and a ticket.             *)

Busy == Joining \cup Releasing \cup {"joined"}

RowInv ==
  \A c \in Conn : /\ conn[c].stage \in Busy => /\ conn[c].ticket \in Ticket
                                               /\ conn[c].at \in Process
                  /\ conn[c].stage = "idle" => conn[c].at \in Process

WellFormed == TypeOK /\ RowInv

LEMMA BusyOK ==
  ASSUME WellFormed, NEW c \in Conn, conn[c].stage \in Busy
  PROVE  RoomOf(c) \in Room /\ conn[c].at \in Process
  BY RelayAssumption DEF WellFormed, RowInv, RoomOf

LEMMA InitWellFormed == Init => WellFormed
  BY DEF Init, WellFormed, RowInv, Busy, Joining, Releasing, TypeOK, ConnRow, Stage

\* Writing one row keeps all well formed if that row is.
LEMMA UpdateOK ==
  ASSUME WellFormed, NEW c \in Conn, NEW row \in ConnRow,
         conn' = [conn EXCEPT ![c] = row],
         row.stage \in Busy => row.ticket \in Ticket /\ row.at \in Process,
         row.stage = "idle" => row.at \in Process
  PROVE  conn' \in [Conn -> ConnRow] /\ RowInv'
<1>1. conn' \in [Conn -> ConnRow]
  BY DEF WellFormed, TypeOK
<1>2. ASSUME NEW d \in Conn
      PROVE  /\ conn'[d].stage \in Busy => /\ conn'[d].ticket \in Ticket
                                           /\ conn'[d].at \in Process
             /\ conn'[d].stage = "idle" => conn'[d].at \in Process
  <2>1. CASE d = c
    BY <2>1 DEF WellFormed, TypeOK
  <2>2. CASE d # c
    BY <2>2 DEF WellFormed, TypeOK, RowInv
  <2> QED
    BY <2>1, <2>2
<1> QED
  BY <1>1, <1>2 DEF RowInv

\* A busy connection stays well formed when it moves to another busy stage or
\* is done, whether its socket closes or not.
LEMMA MoveOK ==
  ASSUME WellFormed, NEW c \in Conn, conn[c].stage \in Busy,
         NEW st \in Busy \cup {"done"}, NEW open \in BOOLEAN,
         conn' = [conn EXCEPT ![c].open = open, ![c].stage = st]
  PROVE  conn' \in [Conn -> ConnRow] /\ RowInv'
<1> DEFINE row == [conn[c] EXCEPT !.stage = st, !.open = open]
<1>1. st \in Stage /\ st # "idle"
  BY DEF Busy, Stage, Joining, Releasing
<1>2. conn[c] \in ConnRow /\ conn[c].ticket \in Ticket /\ conn[c].at \in Process
  BY DEF WellFormed, TypeOK, RowInv
<1>3. row \in ConnRow /\ row.ticket \in Ticket /\ row.at \in Process /\ row.stage = st
  BY <1>1, <1>2 DEF ConnRow
<1>4. conn' = [conn EXCEPT ![c] = row]
  BY DEF WellFormed, TypeOK
<1> HIDE DEF row
<1> QED
  BY <1>1, <1>3, <1>4, UpdateOK

LEMMA GotoOK ==
  ASSUME WellFormed, NEW c \in Conn, conn[c].stage \in Busy,
         NEW st \in Busy \cup {"done"}, Goto(c, st)
  PROVE  conn' \in [Conn -> ConnRow] /\ RowInv'
<1>1. conn[c] \in ConnRow
  BY DEF WellFormed, TypeOK
<1>2. conn' = [conn EXCEPT ![c].open = conn[c].open, ![c].stage = st]
  BY <1>1 DEF Goto, WellFormed, TypeOK, ConnRow
<1>3. conn[c].open \in BOOLEAN
  BY <1>1 DEF ConnRow
<1> QED
  BY <1>2, <1>3, MoveOK

LEMMA RoomsOK ==
  ASSUME WellFormed, NEW p \in Process, NEW r \in Room, NEW S \in SUBSET Conn
  PROVE  [rooms EXCEPT ![p][r] = S] \in [Process -> [Room -> SUBSET Conn]]
<1>1. [rooms[p] EXCEPT ![r] = S] \in [Room -> SUBSET Conn]
  BY DEF WellFormed, TypeOK
<1> QED
  BY <1>1 DEF WellFormed, TypeOK

LEMMA EnterOK ==
  ASSUME WellFormed, NEW c \in Conn, conn[c].stage \in Busy, Enter(c)
  PROVE  /\ conn' \in [Conn -> ConnRow] /\ RowInv'
         /\ told' \in [Conn -> SUBSET Conn]
         /\ news' \in SUBSET [to : Process, room : Room, from : Conn]
<1>1. conn' \in [Conn -> ConnRow] /\ RowInv'
  BY GotoOK DEF Enter, Busy
<1>2. told' \in [Conn -> SUBSET Conn]
  BY DEF Enter, WellFormed, TypeOK
<1>3. news' \in SUBSET [to : Process, room : Room, from : Conn]
  BY BusyOK DEF Enter, WellFormed, TypeOK
<1> QED
  BY <1>1, <1>2, <1>3

LEMMA JoinWellFormed ==
  ASSUME WellFormed, NEW c \in Conn, Join(c)
  PROVE  WellFormed'
<1>1. CASE \E t \in Ticket : Consume(c, t)
  <2> PICK t \in Ticket : Consume(c, t)
    BY <1>1
  <2> DEFINE row == [conn[c] EXCEPT !.stage = "read", !.ticket = t]
  <2>1. conn[c] \in ConnRow /\ conn[c].at \in Process
    BY DEF Consume, At, WellFormed, TypeOK, RowInv
  <2>2. row \in ConnRow /\ row.ticket \in Ticket /\ row.at \in Process
    BY <2>1 DEF ConnRow, Stage, Joining
  <2>3. row.stage # "idle"
    BY <2>1 DEF ConnRow
  <2>4. conn' = [conn EXCEPT ![c] = row]
    BY DEF Consume, WellFormed, TypeOK
  <2>5. conn' \in [Conn -> ConnRow] /\ RowInv'
    <3> HIDE DEF row
    <3> QED
      BY <2>2, <2>3, <2>4, UpdateOK
  <2> QED
    BY <2>5 DEF Consume, WellFormed, TypeOK, local
<1>2. CASE ReadMembers(c)
  <2>1. conn[c].stage \in Busy
    BY <1>2 DEF ReadMembers, At, Busy, Joining
  <2>2. RoomOf(c) \in Room
    BY <2>1, BusyOK
  <2>3. conn' \in [Conn -> ConnRow] /\ RowInv'
    BY <1>2, <2>1, MoveOK, GotoOK DEF ReadMembers, Busy, Joining
  <2>4. Members(RoomOf(c)) \in SUBSET Conn
    BY DEF Members
  <2> QED
    <3> PICK S \in SUBSET Lapsed(RoomOf(c)) :
               /\ registry' = [registry EXCEPT ![RoomOf(c)] = @ \ S]
               /\ existing' = [existing EXCEPT ![c] = registry[RoomOf(c)] \ S]
               /\ present' = [present EXCEPT ![c] = Members(RoomOf(c))]
      BY <1>2 DEF ReadMembers, Readable
    <3>1. registry[RoomOf(c)] \in SUBSET Conn
      BY <2>2 DEF WellFormed, TypeOK
    <3>2. /\ registry' \in [Room -> SUBSET Conn]
          /\ existing' \in [Conn -> SUBSET Conn]
          /\ present' \in [Conn -> SUBSET Conn]
      BY <2>2, <2>4, <3>1 DEF WellFormed, TypeOK
    <3> QED
      BY <1>2, <2>3, <3>2 DEF ReadMembers, WellFormed, TypeOK, local
<1>3. CASE AddMember(c)
  <2>1. conn[c].stage \in Busy
    BY <1>3 DEF AddMember, At, Busy, Joining
  <2>2. conn' \in [Conn -> ConnRow] /\ RowInv'
    BY <1>3, <2>1, GotoOK DEF AddMember, Busy, Joining
  <2> QED
    BY <1>3, <2>1, <2>2, BusyOK DEF AddMember, WellFormed, TypeOK, local, history
<1>4. CASE CountMembers(c)
  <2>1. conn[c].stage \in Busy
    BY <1>4 DEF CountMembers, At, Busy, Joining
  <2>2. RoomOf(c) \in Room /\ conn[c].at \in Process
    BY <2>1, BusyOK
  <2>3. /\ conn' \in [Conn -> ConnRow] /\ RowInv'
        /\ told' \in [Conn -> SUBSET Conn]
        /\ news' \in SUBSET [to : Process, room : Room, from : Conn]
    <3>1. CASE Enter(c)
      BY <2>1, <3>1, EnterOK
    <3>2. CASE \E st \in {"back", "subscribe"} : Goto(c, st) /\ UNCHANGED <<told, news>>
      BY <2>1, <3>2, GotoOK DEF Busy, Joining, WellFormed, TypeOK
    <3> QED
      BY <1>4, <3>1, <3>2 DEF CountMembers
  <2>4. rooms' \in [Process -> [Room -> SUBSET Conn]] /\ subs' \in [Process -> SUBSET Room]
    <3> DEFINE p == conn[c].at
               r == RoomOf(c)
    <3>1. rooms[p][r] \cup {c} \in SUBSET Conn
      BY <2>2 DEF WellFormed, TypeOK
    <3>2. \/ UNCHANGED local
          \/ /\ rooms' = [rooms EXCEPT ![p][r] = rooms[p][r] \cup {c}]
             /\ subs' = [subs EXCEPT ![p] = subs[p] \cup {r}]
      BY <1>4 DEF CountMembers
    <3>3. [subs EXCEPT ![p] = subs[p] \cup {r}] \in [Process -> SUBSET Room]
      BY <2>2 DEF WellFormed, TypeOK
    <3> QED
      <4>1. [rooms EXCEPT ![p][r] = rooms[p][r] \cup {c}] \in [Process -> [Room -> SUBSET Conn]]
        BY <2>2, <3>1, RoomsOK
      <4> QED
        BY <3>2, <3>3, <4>1 DEF WellFormed, TypeOK, local
  <2> QED
    BY <1>4, <2>3, <2>4 DEF CountMembers, WellFormed, TypeOK, redis, history
<1>5. CASE BackOut(c)
  <2>1. conn[c].stage \in Busy
    BY <1>5 DEF BackOut, At, Busy, Joining
  <2>2. conn' \in [Conn -> ConnRow] /\ RowInv'
    BY <1>5, <2>1, MoveOK DEF BackOut
  <2> QED
    BY <1>5, <2>1, <2>2, BusyOK DEF BackOut, WellFormed, TypeOK, local, history
<1>6. CASE Subscribe(c)
  <2>1. conn[c].stage \in Busy
    BY <1>6 DEF Subscribe, At, Busy, Joining
  <2>2. /\ conn' \in [Conn -> ConnRow] /\ RowInv'
        /\ told' \in [Conn -> SUBSET Conn]
        /\ news' \in SUBSET [to : Process, room : Room, from : Conn]
    BY <1>6, <2>1, EnterOK DEF Subscribe
  <2> QED
    BY <1>6, <2>1, <2>2, BusyOK DEF Subscribe, WellFormed, TypeOK, local, history
<1> QED
  BY <1>1, <1>2, <1>3, <1>4, <1>5, <1>6 DEF Join

LEMMA ReleaseWellFormed ==
  ASSUME WellFormed, NEW c \in Conn, Release(c)
  PROVE  WellFormed'
<1>1. conn[c].stage \in Busy
  BY DEF Release, Unsubscribe, RemoveMember, ReadCard, DeleteMembers, At, Busy, Releasing
<1>2. conn' \in [Conn -> ConnRow] /\ RowInv'
  BY <1>1, GotoOK
     DEF Release, Unsubscribe, RemoveMember, ReadCard, DeleteMembers, Busy, Releasing
<1>3. registry' \in [Room -> SUBSET Conn] /\ channel' \in [Room -> SUBSET Process]
  BY <1>1, BusyOK
     DEF Release, Unsubscribe, RemoveMember, ReadCard, DeleteMembers, redis,
         WellFormed, TypeOK
<1>4. dropped' \in SUBSET Conn
  BY <1>1, BusyOK
     DEF Release, Unsubscribe, RemoveMember, ReadCard, DeleteMembers, history,
         WellFormed, TypeOK
<1> QED
  BY <1>2, <1>3, <1>4
     DEF Release, Unsubscribe, RemoveMember, ReadCard, DeleteMembers, redis, local,
         history, WellFormed, TypeOK

LEMMA NextWellFormed == WellFormed /\ [Next]_vars => WellFormed'
<1> SUFFICES ASSUME WellFormed, [Next]_vars PROVE WellFormed'
  OBVIOUS
<1>1. CASE \E c \in Conn, p \in Process : Connect(c, p)
  <2> PICK c \in Conn, p \in Process : Connect(c, p)
    BY <1>1
  <2> DEFINE row == [conn[c] EXCEPT !.at = p, !.open = TRUE, !.stage = "idle"]
  <2>1. conn[c] \in ConnRow
    BY DEF WellFormed, TypeOK
  <2>2. row \in ConnRow /\ row.at \in Process /\ row.stage \notin Busy
    BY <2>1 DEF ConnRow, Stage, Busy, Joining, Releasing
  <2>3. conn' = [conn EXCEPT ![c] = row]
    BY DEF Connect, WellFormed, TypeOK
  <2>4. conn' \in [Conn -> ConnRow] /\ RowInv'
    <3> HIDE DEF row
    <3> QED
      BY <2>2, <2>3, UpdateOK
  <2> QED
    BY <2>4 DEF Connect, WellFormed, TypeOK, local, redis, history
<1>2. CASE \E c \in Conn : Join(c)
  BY <1>2, JoinWellFormed
<1>3. CASE \E c \in Conn : Release(c)
  BY <1>3, ReleaseWellFormed
<1>4. CASE \E c \in Conn : Close(c)
  <2> PICK c \in Conn : Close(c)
    BY <1>4
  <2>1. CASE At(c, "joined")
    <3>1. conn[c].stage \in Busy
      BY <2>1 DEF At, Busy
    <3>2. conn' \in [Conn -> ConnRow] /\ RowInv'
      <4>1. \E st \in {"unsubscribe", "remove"} :
              conn' = [conn EXCEPT ![c].open = FALSE, ![c].stage = st]
        BY <2>1 DEF Close
      <4> QED
        BY <3>1, <4>1, MoveOK DEF Busy, Releasing
    <3>3. rooms' \in [Process -> [Room -> SUBSET Conn]] /\ subs' \in [Process -> SUBSET Room]
      <4> DEFINE p == conn[c].at
                 r == RoomOf(c)
      <4>1. p \in Process /\ r \in Room
        BY <3>1, BusyOK
      <4>2. /\ rooms' = [rooms EXCEPT ![p][r] = rooms[p][r] \ {c}]
            /\ subs' \in {[subs EXCEPT ![p] = subs[p] \ {r}], subs}
        BY <2>1 DEF Close
      <4>3. rooms[p][r] \ {c} \in SUBSET Conn
        BY <4>1 DEF WellFormed, TypeOK
      <4>4. subs' \in [Process -> SUBSET Room]
        BY <4>1, <4>2 DEF WellFormed, TypeOK
      <4> QED
        BY <4>1, <4>2, <4>3, <4>4, RoomsOK
    <3> QED
      BY <3>2, <3>3 DEF Close, WellFormed, TypeOK, redis, history
  <2>2. CASE ~At(c, "joined")
    <3>1. conn' \in [Conn -> ConnRow] /\ RowInv'
      <4> DEFINE row == [conn[c] EXCEPT !.open = FALSE]
      <4>1. conn[c] \in ConnRow
        BY DEF WellFormed, TypeOK
      <4>2. /\ row \in ConnRow /\ row.stage = conn[c].stage
            /\ row.at = conn[c].at /\ row.ticket = conn[c].ticket
        BY <4>1 DEF ConnRow
      <4>3. conn' = [conn EXCEPT ![c] = row]
        BY <2>2 DEF Close, WellFormed, TypeOK
      <4> HIDE DEF row
      <4> QED
        BY <4>2, <4>3, UpdateOK DEF WellFormed, RowInv
    <3> QED
      BY <2>2, <3>1 DEF Close, WellFormed, TypeOK, local, redis, history
  <2> QED
    BY <2>1, <2>2
<1>5. CASE \E c \in Conn : Heartbeat(c)
  BY <1>5 DEF Heartbeat, Refreshed, WellFormed, TypeOK, RowInv, local, history
<1>6. CASE \E n \in news : Deliver(n)
  BY <1>6 DEF Deliver, WellFormed, TypeOK, RowInv, local, redis, history
<1>7. CASE \E p \in Process : Crash(p)
  <2> PICK p \in Process : Crash(p)
    BY <1>7
  <2>1. conn' \in [Conn -> ConnRow] /\ RowInv'
    <3>1. ASSUME NEW c \in Conn
          PROVE  /\ conn'[c] \in ConnRow
                 /\ conn'[c] = conn[c] \/ conn'[c].stage = "done"
      <4>1. conn[c] \in ConnRow
        BY DEF WellFormed, TypeOK
      <4>2. [conn[c] EXCEPT !.open = FALSE, !.stage = "done"] \in ConnRow
        BY <4>1 DEF ConnRow, Stage
      <4>3. conn'[c] \in {conn[c], [conn[c] EXCEPT !.open = FALSE, !.stage = "done"]}
        BY DEF Crash
      <4> QED
        BY <4>1, <4>2, <4>3 DEF ConnRow
    <3>2. "done" \notin Busy \cup {"idle"}
      BY DEF Busy, Joining, Releasing
    <3> QED
      BY <3>1, <3>2 DEF Crash, WellFormed, RowInv
  <2> QED
    BY <2>1 DEF Crash, WellFormed, TypeOK, history
<1>8. CASE UNCHANGED vars
  BY <1>8 DEF vars, WellFormed, TypeOK, RowInv
<1> QED
  BY <1>1, <1>2, <1>3, <1>4, <1>5, <1>6, <1>7, <1>8 DEF Next

LEMMA AlwaysWellFormed == Spec => []WellFormed
  BY InitWellFormed, NextWellFormed, PTL DEF Spec

\* Every reachable state of the relay has its declared type, for any sets of
\* processes, connections, rooms and tickets.
THEOREM TypeCorrect == Spec => []TypeOK
<1>1. WellFormed => TypeOK
  BY DEF WellFormed
<1> QED
  BY <1>1, AlwaysWellFormed, PTL

----------------------------------------------------------------------------
(* Tickets. Admitting a bearer writes the ticket's key, and no later bearer *)
(* gets past the key.                                                       *)

TicketInv ==
  /\ TicketOnce
  /\ \A t \in Ticket : admitted[t] # {} => t \in used

LEMMA TicketInductive == WellFormed /\ TicketInv /\ [Next]_vars => TicketInv'
<1> SUFFICES ASSUME WellFormed, TicketInv, [Next]_vars PROVE TicketInv'
  OBVIOUS
<1>1. CASE \E c \in Conn, t \in Ticket : Consume(c, t)
  <2> PICK c \in Conn, t \in Ticket : Consume(c, t)
    BY <1>1
  <2>1. t \notin used /\ used' = used \cup {t}
    BY DEF Consume, Fresh
  <2>2. admitted' = [admitted EXCEPT ![t] = @ \cup {c}]
    BY DEF Consume
  <2>3. admitted[t] = {}
    BY <2>1 DEF TicketInv
  <2>4. ASSUME NEW u \in Ticket
        PROVE  IF u = t THEN admitted'[u] = {c} ELSE admitted'[u] = admitted[u]
    BY <2>2, <2>3, <2>4 DEF WellFormed, TypeOK
  <2> QED
    BY <2>1, <2>4 DEF TicketInv, TicketOnce
<1>2. CASE UNCHANGED <<used, admitted>>
  BY <1>2 DEF TicketInv, TicketOnce
<1> QED
  BY <1>1, <1>2
     DEF Next, vars, redis, history, Connect, Join, Close, Release, Heartbeat, Deliver,
         Crash, ReadMembers, AddMember, CountMembers, BackOut, Subscribe, Unsubscribe,
         RemoveMember, ReadCard, DeleteMembers

\* A join ticket admits one connection, whatever processes it is presented to.
THEOREM TicketsSingleUse == Spec => []TicketOnce
<1>1. Init => TicketInv
  BY DEF Init, TicketInv, TicketOnce
<1>2. TicketInv => TicketOnce
  BY DEF TicketInv
<1> QED
  BY <1>1, <1>2, TicketInductive, AlwaysWellFormed, PTL DEF Spec

----------------------------------------------------------------------------
(* The ceiling. A join counts the registry after it has added its entry, so *)
(* the count covers every peer that holds an entry then: all that claimed a *)
(* place and were not dropped. Heartbeats keep those entries from lapsing.  *)

Claims(c) == conn[c].stage \in {"subscribe", "joined"}

EntryInv ==
  \A c \in Conn :
    /\ Claims(c) => c \in rooms[conn[c].at][RoomOf(c)]
    /\ Claims(c) \/ At(c, "count") => c \in dropped \/ c \in registry[RoomOf(c)]

Claimed(r) == {c \in Conn \ dropped : Claims(c) /\ RoomOf(c) = r}

CeilingInv ==
  /\ EntryInv
  /\ \A r \in Room : Cardinality(Claimed(r)) <= MaxPeers

\* A connection whose row is untouched keeps its entry if nothing takes it away.
LEMMA KeepsEntry ==
  ASSUME WellFormed, EntryInv, NEW d \in Conn,
         conn'[d].stage = conn[d].stage, conn'[d].at = conn[d].at,
         conn'[d].ticket = conn[d].ticket,
         dropped \subseteq dropped',
         Claims(d) => (d \in rooms[conn[d].at][RoomOf(d)]
                         => d \in rooms'[conn[d].at][RoomOf(d)]),
         Claims(d) \/ At(d, "count") =>
           (d \in registry[RoomOf(d)] => d \in registry'[RoomOf(d)] \cup dropped')
  PROVE  /\ Claims(d)' => d \in rooms'[conn'[d].at][RoomOf(d)']
         /\ Claims(d)' \/ At(d, "count")' => d \in dropped' \/ d \in registry'[RoomOf(d)']
  BY DEF EntryInv, Claims, At, RoomOf

LEMMA EntryInductive ==
  ASSUME WellFormed, EntryInv, Next
  PROVE  EntryInv'
<1> DEFINE Entry(d) ==
       /\ Claims(d)' => d \in rooms'[conn'[d].at][RoomOf(d)']
       /\ Claims(d)' \/ At(d, "count")' => d \in dropped' \/ d \in registry'[RoomOf(d)']
<1> SUFFICES ASSUME NEW d \in Conn PROVE Entry(d)
  BY DEF EntryInv
<1>0. ASSUME conn'[d].stage \notin {"count", "subscribe", "joined"} PROVE Entry(d)
  BY <1>0 DEF Claims, At
<1> HIDE DEF Entry
<1> USE DEF WellFormed, TypeOK, local, redis, history
<1>1. CASE \E c \in Conn, p \in Process : Connect(c, p)
  <2> PICK c \in Conn, p \in Process : Connect(c, p)
    BY <1>1
  <2>1. CASE d = c
    BY <1>0, <2>1 DEF Connect, ConnRow
  <2>2. CASE d # c
    BY <2>2, KeepsEntry DEF Connect, Entry
  <2> QED
    BY <2>1, <2>2
<1>2. CASE \E c \in Conn, t \in Ticket : Consume(c, t)
  <2> PICK c \in Conn, t \in Ticket : Consume(c, t)
    BY <1>2
  <2>1. CASE d = c
    BY <1>0, <2>1 DEF Consume, ConnRow
  <2>2. CASE d # c
    BY <2>2, KeepsEntry DEF Consume, Entry
  <2> QED
    BY <2>1, <2>2
<1>3. CASE \E c \in Conn : ReadMembers(c)
  <2> PICK c \in Conn : ReadMembers(c)
    BY <1>3
  <2>1. CASE d = c
    BY <1>0, <2>1 DEF ReadMembers, Goto, ConnRow
  <2>2. CASE d # c
    <3>1. conn'[d] = conn[d]
      BY <2>2 DEF ReadMembers, Goto
    <3>2. PICK S \in SUBSET Lapsed(RoomOf(c)) : registry' = [registry EXCEPT ![RoomOf(c)] = @ \ S]
      BY DEF ReadMembers
    <3>3. ASSUME Claims(d) \/ At(d, "count"), RoomOf(d) = RoomOf(c) PROVE d \notin S
      BY <3>2, <3>3 DEF Lapsed, EntryInv, Claims, At, Joining
    <3>4. Claims(d) \/ At(d, "count") =>
            (d \in registry[RoomOf(d)] => d \in registry'[RoomOf(d)])
      <4>1. RoomOf(c) \in Room
        BY BusyOK DEF ReadMembers, At, Busy, Joining
      <4> QED
        BY <3>2, <3>3, <4>1
    <3> QED
      BY <3>1, <3>4, KeepsEntry DEF ReadMembers, Entry
  <2> QED
    BY <2>1, <2>2
<1>4. CASE \E c \in Conn : AddMember(c)
  <2> PICK c \in Conn : AddMember(c)
    BY <1>4
  <2>0. RoomOf(c) \in Room
    BY BusyOK DEF AddMember, At, Busy, Joining
  <2>1. CASE d = c
    BY <2>0, <2>1 DEF AddMember, Goto, ConnRow, Claims, RoomOf, Entry
  <2>2. CASE d # c
    BY <2>2, KeepsEntry DEF AddMember, Goto, Entry
  <2> QED
    BY <2>1, <2>2
<1>5. CASE \E c \in Conn : CountMembers(c)
  <2> PICK c \in Conn : CountMembers(c)
    BY <1>5
  <2>0. RoomOf(c) \in Room /\ conn[c].at \in Process
    BY BusyOK DEF CountMembers, At, Busy, Joining
  <2>1. CASE d = c
    <3>1. CASE Over(RoomOf(c)) /\ Goto(c, "back")
      BY <1>0, <2>1, <3>1 DEF Goto, ConnRow
    <3>2. CASE ~(Over(RoomOf(c)) /\ Goto(c, "back"))
      <4>1. /\ rooms' = [rooms EXCEPT ![conn[c].at][RoomOf(c)] = @ \cup {c}]
            /\ conn' = [conn EXCEPT ![c].stage = "joined"]
                 \/ conn' = [conn EXCEPT ![c].stage = "subscribe"]
        BY <3>2 DEF CountMembers, Enter, Goto
      <4>2. conn'[c].at = conn[c].at /\ conn'[c].ticket = conn[c].ticket
        BY <4>1 DEF ConnRow
      <4>3. c \in rooms'[conn[c].at][RoomOf(c)]
        BY <2>0, <4>1
      <4>4. c \in dropped \/ c \in registry[RoomOf(c)]
        BY DEF EntryInv, CountMembers
      <4>5. UNCHANGED <<dropped, registry>>
        BY DEF CountMembers
      <4> QED
        BY <2>1, <4>2, <4>3, <4>4, <4>5 DEF Entry, RoomOf
    <3> QED
      BY <3>1, <3>2
  <2>2. CASE d # c
    <3>1. conn'[d] = conn[d]
      BY <2>2 DEF CountMembers, Enter, Goto
    <3>2. \A p \in Process, r \in Room : rooms[p][r] \subseteq rooms'[p][r]
      <4>1. \/ rooms' = rooms
            \/ rooms' = [rooms EXCEPT ![conn[c].at][RoomOf(c)] = @ \cup {c}]
        BY DEF CountMembers
      <4>2. rooms \in [Process -> [Room -> SUBSET Conn]]
        OBVIOUS
      <4> HIDE DEF WellFormed, TypeOK
      <4> QED
        BY <2>0, <4>1, <4>2
    <3>3. conn[d].stage \in {"subscribe", "joined"} => RoomOf(d) \in Room /\ conn[d].at \in Process
      BY BusyOK DEF Busy, Joining
    <3>4. Claims(d) => (d \in rooms[conn[d].at][RoomOf(d)]
                         => d \in rooms'[conn[d].at][RoomOf(d)])
      BY <3>2, <3>3 DEF Claims
    <3>5. UNCHANGED <<dropped, registry>>
      BY DEF CountMembers
    <3> QED
      BY <3>1, <3>4, <3>5, KeepsEntry DEF Entry
  <2> QED
    BY <2>1, <2>2
<1>6. CASE \E c \in Conn : BackOut(c)
  <2> PICK c \in Conn : BackOut(c)
    BY <1>6
  <2>1. CASE d = c
    BY <1>0, <2>1 DEF BackOut, ConnRow
  <2>2. CASE d # c
    BY <2>2, KeepsEntry DEF BackOut, Entry
  <2> QED
    BY <2>1, <2>2
<1>7. CASE \E c \in Conn : Subscribe(c)
  <2> PICK c \in Conn : Subscribe(c)
    BY <1>7
  <2>1. /\ conn' = [conn EXCEPT ![c].stage = "joined"] /\ conn[c].stage = "subscribe"
        /\ UNCHANGED <<dropped, registry, rooms>>
    BY DEF Subscribe, Enter, Goto, At
  <2>2. /\ conn'[d].at = conn[d].at /\ conn'[d].ticket = conn[d].ticket
        /\ Claims(d)' \/ At(d, "count")' => Claims(d) \/ At(d, "count")
        /\ Claims(d)' => Claims(d)
    BY <2>1 DEF ConnRow, Claims, At
  <2> QED
    BY <2>1, <2>2 DEF EntryInv, Entry, RoomOf
<1>8. CASE \E c \in Conn : Close(c)
  <2> PICK c \in Conn : Close(c)
    BY <1>8
  <2>1. CASE At(c, "joined")
    <3>0. RoomOf(c) \in Room /\ conn[c].at \in Process
      BY <2>1, BusyOK DEF At, Busy
    <3>1. CASE d = c
      BY <1>0, <2>1, <3>1 DEF Close, ConnRow
    <3>2. CASE d # c
      <4>1. conn'[d] = conn[d]
        BY <2>1, <3>2 DEF Close
      <4>2. rooms' = [rooms EXCEPT ![conn[c].at][RoomOf(c)] = @ \ {c}]
        BY <2>1 DEF Close
      <4>3. \A p \in Process, r \in Room : d \in rooms[p][r] => d \in rooms'[p][r]
        BY <3>0, <3>2, <4>2
      <4>4. Claims(d) => RoomOf(d) \in Room /\ conn[d].at \in Process
        BY BusyOK DEF Claims, Busy, Joining
      <4>5. UNCHANGED <<dropped, registry>>
        BY DEF Close
      <4> QED
        BY <4>1, <4>3, <4>4, <4>5, KeepsEntry DEF Entry
    <3> QED
      BY <3>1, <3>2
  <2>2. CASE ~At(c, "joined")
    <3>1. /\ conn' = [conn EXCEPT ![c].open = FALSE]
          /\ UNCHANGED <<dropped, registry, rooms>>
      BY <2>2 DEF Close
    <3>2. /\ conn'[d].stage = conn[d].stage /\ conn'[d].at = conn[d].at
          /\ conn'[d].ticket = conn[d].ticket
      BY <3>1 DEF ConnRow
    <3> QED
      BY <3>1, <3>2, KeepsEntry DEF Entry
  <2> QED
    BY <2>1, <2>2
<1>9. CASE \E c \in Conn : Release(c)
  <2> PICK c \in Conn : Release(c)
    BY <1>9
  <2>1. conn[c].stage \in Releasing /\ RoomOf(c) \in Room
    BY BusyOK DEF Release, Unsubscribe, RemoveMember, ReadCard, DeleteMembers, At, Busy, Releasing
  <2>2. CASE d = c
    BY <1>0, <2>2 DEF Release, Unsubscribe, RemoveMember, ReadCard, DeleteMembers, Goto, ConnRow
  <2>3. CASE d # c
    <3>1. conn'[d] = conn[d] /\ UNCHANGED rooms
      BY <2>3 DEF Release, Unsubscribe, RemoveMember, ReadCard, DeleteMembers, Goto
    <3>2. /\ dropped \subseteq dropped'
          /\ d \in registry[RoomOf(d)] => d \in registry'[RoomOf(d)] \cup dropped'
      <4>1. CASE DeleteMembers(c)
        BY <2>1, <4>1 DEF DeleteMembers
      <4>2. CASE RemoveMember(c)
        BY <2>1, <2>3, <4>2 DEF RemoveMember
      <4>3. CASE UNCHANGED <<registry, dropped>>
        BY <4>3
      <4> QED
        BY <4>1, <4>2, <4>3 DEF Release, Unsubscribe, ReadCard
    <3> QED
      BY <3>1, <3>2, KeepsEntry DEF Entry
  <2> QED
    BY <2>2, <2>3
<1>10. CASE \E c \in Conn : Heartbeat(c)
  <2>1. /\ UNCHANGED <<conn, rooms, dropped>>
        /\ \A r \in Room : registry[r] \subseteq registry'[r]
    BY <1>10 DEF Heartbeat
  <2>2. Claims(d) \/ At(d, "count") => RoomOf(d) \in Room
    BY BusyOK DEF Claims, At, Busy, Joining
  <2> QED
    BY <2>1, <2>2, KeepsEntry DEF Entry
<1>11. CASE \E n \in news : Deliver(n)
  BY <1>11, KeepsEntry DEF Deliver, Entry
<1>12. CASE \E p \in Process : Crash(p)
  <2> PICK p \in Process : Crash(p)
    BY <1>12
  <2>1. CASE conn[d].at = p
    <3>1. conn'[d].stage = "done"
      BY <2>1 DEF Crash, ConnRow
    <3> QED
      BY <1>0, <3>1
  <2>2. CASE conn[d].at # p
    <3>1. /\ conn'[d] = conn[d]
          /\ UNCHANGED <<dropped, registry>>
          /\ rooms' = [rooms EXCEPT ![p] = [r \in Room |-> {}]]
      BY <2>2 DEF Crash
    <3>2. Claims(d) => RoomOf(d) \in Room /\ conn[d].at \in Process
      BY BusyOK DEF Claims, Busy, Joining
    <3> QED
      BY <2>2, <3>1, <3>2, KeepsEntry DEF Entry
  <2> QED
    BY <2>1, <2>2
<1> QED
  BY <1>1, <1>2, <1>3, <1>4, <1>5, <1>6, <1>7, <1>8, <1>9, <1>10, <1>11, <1>12
     DEF Next, Join

\* A step gives a connection a claim only by counting no more than the ceiling.
LEMMA NewClaim ==
  ASSUME WellFormed, Next, NEW d \in Conn, Claims(d)'
  PROVE  /\ RoomOf(d)' = RoomOf(d)
         /\ dropped \subseteq dropped'
         /\ \/ Claims(d)
            \/ ~Over(RoomOf(d)) /\ RoomOf(d) \in Room /\ UNCHANGED <<registry, dropped>>
<1>0. conn[d] \in ConnRow /\ conn'[d].stage \in {"subscribe", "joined"}
  BY DEF WellFormed, TypeOK, Claims
<1> USE DEF WellFormed, TypeOK, local, redis, history
<1>1. CASE \E c \in Conn, p \in Process : Connect(c, p)
  BY <1>0, <1>1 DEF Connect, ConnRow, Claims, RoomOf
<1>2. CASE \E c \in Conn, t \in Ticket : Consume(c, t)
  BY <1>0, <1>2 DEF Consume, ConnRow, Claims, RoomOf
<1>3. CASE \E c \in Conn : ReadMembers(c)
  <2> PICK c \in Conn : ReadMembers(c)
    BY <1>3
  <2>1. /\ dropped' = dropped
        /\ \/ conn' = [conn EXCEPT ![c].open = FALSE, ![c].stage = "done"]
           \/ conn' = [conn EXCEPT ![c].stage = "add"]
    BY DEF ReadMembers, Goto
  <2>2. /\ conn'[d].ticket = conn[d].ticket
        /\ conn'[d].stage \in {conn[d].stage, "done", "add"}
    <3>1. CASE conn' = [conn EXCEPT ![c].open = FALSE, ![c].stage = "done"]
      BY <1>0, <3>1 DEF ConnRow
    <3>2. CASE conn' = [conn EXCEPT ![c].stage = "add"]
      BY <1>0, <3>2 DEF ConnRow
    <3> QED
      BY <2>1, <3>1, <3>2
  <2> QED
    BY <1>0, <2>1, <2>2 DEF Claims, RoomOf
<1>4. CASE \E c \in Conn : AddMember(c)
  BY <1>0, <1>4 DEF AddMember, Goto, ConnRow, Claims, RoomOf
<1>5. CASE \E c \in Conn : CountMembers(c)
  <2> PICK c \in Conn : CountMembers(c)
    BY <1>5
  <2>1. \E st \in {"back", "joined", "subscribe"} : conn' = [conn EXCEPT ![c].stage = st]
    BY DEF CountMembers, Enter, Goto
  <2>2. conn'[d].ticket = conn[d].ticket /\ UNCHANGED <<registry, dropped>>
    BY <2>1 DEF CountMembers, ConnRow
  <2>3. CASE d = c
    <3>1. RoomOf(c) \in Room
      BY BusyOK DEF CountMembers, At, Busy, Joining
    <3>2. ~Goto(c, "back")
      BY <1>0, <2>3 DEF Goto, ConnRow
    <3> QED
      BY <2>2, <2>3, <3>1, <3>2 DEF CountMembers, RoomOf
  <2>4. CASE d # c
    BY <1>0, <2>1, <2>2, <2>4 DEF Claims, RoomOf
  <2> QED
    BY <2>3, <2>4
<1>6. CASE \E c \in Conn : BackOut(c)
  BY <1>0, <1>6 DEF BackOut, ConnRow, Claims, RoomOf
<1>7. CASE \E c \in Conn : Subscribe(c)
  <2> PICK c \in Conn : Subscribe(c)
    BY <1>7
  <2>1. /\ dropped' = dropped
        /\ conn[c].stage = "subscribe"
        /\ conn' = [conn EXCEPT ![c].stage = "joined"]
    BY DEF Subscribe, Enter, Goto, At
  <2> QED
    BY <1>0, <2>1 DEF ConnRow, Claims, RoomOf
<1>8. CASE \E c \in Conn : Close(c)
  <2> PICK c \in Conn : Close(c)
    BY <1>8
  <2>1. /\ dropped' = dropped
        /\ \/ \E st \in {"unsubscribe", "remove"} :
                 conn' = [conn EXCEPT ![c].open = FALSE, ![c].stage = st]
           \/ conn' = [conn EXCEPT ![c].open = FALSE]
    BY DEF Close
  <2>2. /\ conn'[d].ticket = conn[d].ticket
        /\ conn'[d].stage \in {conn[d].stage, "unsubscribe", "remove"}
    BY <1>0, <2>1 DEF ConnRow
  <2> QED
    BY <1>0, <2>1, <2>2 DEF Claims, RoomOf
<1>9. CASE \E c \in Conn : Release(c)
  <2> PICK c \in Conn : Release(c)
    BY <1>9
  <2>1. /\ dropped \subseteq dropped'
        /\ \E st \in {"remove", "card", "delete", "done"} :
             conn' = [conn EXCEPT ![c].stage = st]
    BY DEF Release, Unsubscribe, RemoveMember, ReadCard, DeleteMembers, Goto
  <2>2. /\ conn'[d].ticket = conn[d].ticket
        /\ conn'[d].stage \in {conn[d].stage, "remove", "card", "delete", "done"}
    BY <1>0, <2>1 DEF ConnRow
  <2> QED
    BY <1>0, <2>1, <2>2 DEF Claims, RoomOf
<1>10. CASE \E c \in Conn : Heartbeat(c)
  BY <1>0, <1>10 DEF Heartbeat, Claims, RoomOf
<1>11. CASE \E n \in news : Deliver(n)
  BY <1>0, <1>11 DEF Deliver, Claims, RoomOf
<1>12. CASE \E p \in Process : Crash(p)
  <2> PICK p \in Process : Crash(p)
    BY <1>12
  <2>1. /\ dropped' = dropped
        /\ conn'[d] \in {conn[d], [conn[d] EXCEPT !.open = FALSE, !.stage = "done"]}
    BY DEF Crash
  <2> QED
    BY <1>0, <2>1 DEF ConnRow, Claims, RoomOf
<1> QED
  BY <1>1, <1>2, <1>3, <1>4, <1>5, <1>6, <1>7, <1>8, <1>9, <1>10, <1>11, <1>12
     DEF Next, Join

LEMMA CeilingInductive ==
  ASSUME WellFormed, CeilingInv, [Next]_vars
  PROVE  CeilingInv'
<1>1. CASE Next
  <2>1. WellFormed' /\ EntryInv'
    BY <1>1, NextWellFormed, EntryInductive DEF CeilingInv
  <2>2. ASSUME NEW r \in Room
        PROVE  Cardinality(Claimed(r))' <= MaxPeers
    <3>1. CASE Claimed(r)' \subseteq Claimed(r)
      <4>1. IsFiniteSet(Claimed(r))
        BY RelayAssumption, FS_Subset DEF Claimed
      <4>2. Cardinality(Claimed(r)') <= Cardinality(Claimed(r))
        BY <3>1, <4>1, FS_Subset
      <4>3. /\ Cardinality(Claimed(r)) \in Nat /\ Cardinality(Claimed(r)') \in Nat
            /\ Cardinality(Claimed(r)) <= MaxPeers /\ MaxPeers \in Nat
        BY <3>1, <4>1, FS_Subset, FS_CardinalityType, RelayAssumption DEF CeilingInv
      <4> QED
        BY <4>2, <4>3
    <3>2. CASE ~(Claimed(r)' \subseteq Claimed(r))
      <4>1. PICK d \in Claimed(r)' : d \notin Claimed(r)
        BY <3>2
      <4>2. d \in Conn /\ Claims(d)' /\ RoomOf(d)' = r /\ d \notin dropped'
        BY <4>1 DEF Claimed
      <4>3. ~Over(r) /\ UNCHANGED registry
        BY <1>1, <4>1, <4>2, NewClaim DEF Claimed
      <4>4. Claimed(r)' \subseteq registry[r]
        BY <2>1, <4>3 DEF EntryInv, Claimed
      <4>5. IsFiniteSet(registry[r])
        BY RelayAssumption, FS_Subset DEF WellFormed, TypeOK
      <4>6. /\ Cardinality(Claimed(r)') <= Cardinality(registry[r])
            /\ Cardinality(Claimed(r)') \in Nat /\ Cardinality(registry[r]) \in Nat
        BY <4>4, <4>5, FS_Subset, FS_CardinalityType
      <4>7. Cardinality(registry[r]) <= MaxPeers
        BY <4>3, <4>6, RelayAssumption DEF Over
      <4> QED
        BY <4>6, <4>7, RelayAssumption
    <3> QED
      BY <3>1, <3>2
  <2> QED
    BY <2>1, <2>2 DEF CeilingInv
<1>2. CASE UNCHANGED vars
  BY <1>2 DEF vars, CeilingInv, EntryInv, Claimed, Claims, At, RoomOf
<1> QED
  BY <1>1, <1>2

\* Racing joins on any number of processes never leave more peers joined to a
\* room than the ceiling, but for those whose entry a DEL took away.
THEOREM CeilingHolds == Spec => []CeilingUnlessDropped
<1>1. Init => CeilingInv
  <2> SUFFICES ASSUME Init PROVE CeilingInv
    OBVIOUS
  <2>1. \A c \in Conn : conn[c].stage = "new"
    BY DEF Init
  <2>2. EntryInv /\ \A r \in Room : Claimed(r) = {}
    BY <2>1 DEF EntryInv, Claimed, Claims, At
  <2> QED
    BY <2>2, FS_EmptySet, RelayAssumption DEF CeilingInv
<1>2. ASSUME CeilingInv PROVE CeilingUnlessDropped
  <2> SUFFICES ASSUME NEW r \in Room
               PROVE  Cardinality(Members(r) \ dropped) <= MaxPeers
    BY DEF CeilingUnlessDropped
  <2>1. Members(r) \ dropped \subseteq Claimed(r)
    BY DEF Members, Claimed, Claims, At
  <2>2. IsFiniteSet(Claimed(r))
    BY RelayAssumption, FS_Subset DEF Claimed
  <2>3. /\ Cardinality(Members(r) \ dropped) <= Cardinality(Claimed(r))
        /\ Cardinality(Members(r) \ dropped) \in Nat /\ Cardinality(Claimed(r)) \in Nat
    BY <2>1, <2>2, FS_Subset, FS_CardinalityType
  <2> QED
    BY <1>2, <2>3, RelayAssumption DEF CeilingInv
<1> QED
  BY <1>1, <1>2, CeilingInductive, AlwaysWellFormed, PTL DEF Spec

LEMMA EntriesHold == Spec => []EntryInv
<1>1. Init => EntryInv
  BY DEF Init, EntryInv, Claims, At
<1>2. WellFormed /\ EntryInv /\ [Next]_vars => EntryInv'
  <2>1. EntryInv /\ UNCHANGED vars => EntryInv'
    BY DEF vars, EntryInv, Claims, At, RoomOf
  <2> QED
    BY <2>1, EntryInductive
<1> QED
  BY <1>1, <1>2, AlwaysWellFormed, PTL DEF Spec

----------------------------------------------------------------------------
(* Channels. Each process and room is a small state machine of its own: the *)
(* peers in the room, the flag in subscriptions, the SUBSCRIBE and the      *)
(* UNSUBSCRIBE in flight, and what Redis has. At most one call of each kind *)
(* is in flight, and an UNSUBSCRIBE in flight means that Redis still has    *)
(* the process and that whoever came since waits to subscribe again.        *)

Here(c, p, r)       == conn[c].at = p /\ RoomOf(c) = r
Subscribing(p, r)   == {c \in Conn : At(c, "subscribe") /\ Here(c, p, r)}
Unsubscribing(p, r) == {c \in Conn : At(c, "unsubscribe") /\ Here(c, p, r)}

ChannelOK(p, r) ==
  /\ r \in subs[p] <=> rooms[p][r] # {}
  /\ \A c, d \in Subscribing(p, r) : c = d
  /\ \A c, d \in Unsubscribing(p, r) : c = d
  /\ Unsubscribing(p, r) # {} =>
       p \in channel[r] /\ (rooms[p][r] # {} => Subscribing(p, r) # {})
  /\ Subscribing(p, r) = {} /\ Unsubscribing(p, r) = {} =>
       (rooms[p][r] # {} <=> p \in channel[r])

ChannelInv == \A p \in Process, r \in Room : ChannelOK(p, r)

SameCalls(p, r) == /\ Subscribing(p, r)' = Subscribing(p, r)
                   /\ Unsubscribing(p, r)' = Unsubscribing(p, r)
SameRoom(p, r) == /\ rooms'[p][r] = rooms[p][r]
                  /\ r \in subs'[p] <=> r \in subs[p]
SameChannel(p, r) == p \in channel'[r] <=> p \in channel[r]

\* A step leaves the room alone, or a peer c comes in, subscribes, leaves or
\* unsubscribes, or the process crashes.
ChannelMoves(p, r) ==
  \/ SameCalls(p, r) /\ SameRoom(p, r) /\ SameChannel(p, r)
  \/ \E c \in Conn :
       \/ /\ rooms'[p][r] = rooms[p][r] \cup {c} /\ r \in subs'[p]
          /\ Unsubscribing(p, r)' = Unsubscribing(p, r)
          /\ Subscribing(p, r)' = Subscribing(p, r)
                                   \cup (IF r \in subs[p] THEN {} ELSE {c})
          /\ SameChannel(p, r)
       \/ /\ c \in Subscribing(p, r) /\ Unsubscribing(p, r) = {}
          /\ Subscribing(p, r)' = Subscribing(p, r) \ {c}
          /\ Unsubscribing(p, r)' = {}
          /\ p \in channel'[r]
          /\ SameRoom(p, r)
       \/ /\ c \in rooms[p][r] \ Subscribing(p, r)
          /\ rooms'[p][r] = rooms[p][r] \ {c}
          /\ Subscribing(p, r)' = Subscribing(p, r)
          /\ IF rooms[p][r] = {c}
             THEN r \notin subs'[p] /\ Unsubscribing(p, r)' = Unsubscribing(p, r) \cup {c}
             ELSE (r \in subs'[p] <=> r \in subs[p])
                    /\ Unsubscribing(p, r)' = Unsubscribing(p, r)
          /\ SameChannel(p, r)
       \/ /\ c \in Unsubscribing(p, r)
          /\ Unsubscribing(p, r)' = Unsubscribing(p, r) \ {c}
          /\ Subscribing(p, r)' = Subscribing(p, r)
          /\ p \notin channel'[r]
          /\ SameRoom(p, r)
  \/ /\ rooms'[p][r] = {} /\ r \notin subs'[p] /\ p \notin channel'[r]
     /\ Subscribing(p, r)' = {} /\ Unsubscribing(p, r)' = {}

\* Each of these moves keeps the room and its channel in step.
LEMMA ChannelMoveOK ==
  ASSUME NEW p \in Process, NEW r \in Room, ChannelOK(p, r), ChannelMoves(p, r),
         Subscribing(p, r) \subseteq rooms[p][r]
  PROVE  ChannelOK(p, r)'
<1> DEFINE S == Subscribing(p, r)
           U == Unsubscribing(p, r)
<1>0. /\ r \in subs[p] <=> rooms[p][r] # {}
      /\ \A c, d \in S : c = d
      /\ \A c, d \in U : c = d
      /\ U # {} => p \in channel[r] /\ (rooms[p][r] # {} => S # {})
      /\ S = {} /\ U = {} => (rooms[p][r] # {} <=> p \in channel[r])
      /\ S \subseteq rooms[p][r]
  BY DEF ChannelOK
<1> SUFFICES /\ r \in subs'[p] <=> rooms'[p][r] # {}
             /\ \A c, d \in S' : c = d
             /\ \A c, d \in U' : c = d
             /\ U' # {} => p \in channel'[r] /\ (rooms'[p][r] # {} => S' # {})
             /\ S' = {} /\ U' = {} => (rooms'[p][r] # {} <=> p \in channel'[r])
  BY DEF ChannelOK
<1> HIDE DEF S, U
<1>1. CASE S' = S /\ U' = U /\ SameRoom(p, r) /\ SameChannel(p, r)
  BY <1>0, <1>1 DEF SameRoom, SameChannel
<1>2. CASE \E c \in Conn :
             /\ rooms'[p][r] = rooms[p][r] \cup {c} /\ r \in subs'[p]
             /\ U' = U /\ S' = S \cup (IF r \in subs[p] THEN {} ELSE {c})
             /\ SameChannel(p, r)
  BY <1>0, <1>2 DEF SameChannel
<1>3. CASE \E c \in Conn :
             /\ c \in S /\ U = {} /\ S' = S \ {c} /\ U' = {}
             /\ p \in channel'[r] /\ SameRoom(p, r)
  BY <1>0, <1>3 DEF SameRoom
<1>4. CASE \E c \in Conn :
             /\ c \in rooms[p][r] \ S /\ rooms'[p][r] = rooms[p][r] \ {c} /\ S' = S
             /\ IF rooms[p][r] = {c} THEN r \notin subs'[p] /\ U' = U \cup {c}
                ELSE (r \in subs'[p] <=> r \in subs[p]) /\ U' = U
             /\ SameChannel(p, r)
  <2> PICK c \in Conn :
             /\ c \in rooms[p][r] \ S /\ rooms'[p][r] = rooms[p][r] \ {c} /\ S' = S
             /\ IF rooms[p][r] = {c} THEN r \notin subs'[p] /\ U' = U \cup {c}
                ELSE (r \in subs'[p] <=> r \in subs[p]) /\ U' = U
             /\ SameChannel(p, r)
    BY <1>4
  <2>1. CASE rooms[p][r] = {c}
    <3>1. S = {} /\ U = {} /\ p \in channel[r]
      BY <1>0, <2>1
    <3> QED
      BY <1>0, <2>1, <3>1 DEF SameChannel
  <2>2. CASE rooms[p][r] # {c}
    BY <1>0, <2>2 DEF SameChannel
  <2> QED
    BY <2>1, <2>2
<1>5. CASE \E c \in Conn :
             /\ c \in U /\ U' = U \ {c} /\ S' = S /\ p \notin channel'[r] /\ SameRoom(p, r)
  BY <1>0, <1>5 DEF SameRoom
<1>6. CASE /\ rooms'[p][r] = {} /\ r \notin subs'[p] /\ p \notin channel'[r]
           /\ S' = {} /\ U' = {}
  BY <1>6
<1> QED
  BY <1>1, <1>2, <1>3, <1>4, <1>5, <1>6 DEF ChannelMoves, SameCalls, S, U

\* A step that moves the one connection c from stage to stage.
Moves(c, st) ==
  /\ \A d \in Conn : /\ conn'[d].at = conn[d].at /\ conn'[d].ticket = conn[d].ticket
                     /\ conn'[d].stage = IF d = c THEN st ELSE conn[d].stage

\* What that does to the calls in flight for a process and a room.
LEMMA CallsMove ==
  ASSUME NEW c \in Conn, NEW st, Moves(c, st), NEW p, NEW r
  PROVE  /\ Subscribing(p, r)' = (Subscribing(p, r) \ {c})
              \cup {d \in {c} : st = "subscribe" /\ Here(c, p, r)}
         /\ Unsubscribing(p, r)' = (Unsubscribing(p, r) \ {c})
              \cup {d \in {c} : st = "unsubscribe" /\ Here(c, p, r)}
  BY DEF Moves, Subscribing, Unsubscribing, Here, At, RoomOf

LEMMA GotoMoves ==
  ASSUME TypeOK, NEW c \in Conn, NEW st, Goto(c, st)
  PROVE  Moves(c, st)
  BY DEF TypeOK, ConnRow, Goto, Moves

LEMMA ShutMoves ==
  ASSUME TypeOK, NEW c \in Conn, NEW st,
         conn' = [conn EXCEPT ![c].open = FALSE, ![c].stage = st]
  PROVE  Moves(c, st)
  BY DEF TypeOK, ConnRow, Moves

\* A step with no call of its own leaves every room and channel alone.
LEMMA QuietMove ==
  ASSUME NEW c \in Conn, NEW st, Moves(c, st),
         {st, conn[c].stage} \cap {"subscribe", "unsubscribe"} = {},
         UNCHANGED <<rooms, subs, channel>>, NEW p, NEW r
  PROVE  ChannelMoves(p, r)
<1>1. /\ c \notin Subscribing(p, r) \cup Unsubscribing(p, r)
      /\ st # "subscribe" /\ st # "unsubscribe"
  BY DEF Subscribing, Unsubscribing, At
<1>2. SameCalls(p, r)
  <2>1. /\ {d \in {c} : st = "subscribe" /\ Here(c, p, r)} = {}
        /\ {d \in {c} : st = "unsubscribe" /\ Here(c, p, r)} = {}
    BY <1>1
  <2> QED
    BY <1>1, <2>1, CallsMove DEF SameCalls
<1> QED
  BY <1>2 DEF ChannelMoves, SameRoom, SameChannel

LEMMA CountMoves ==
  ASSUME WellFormed, EntryInv, NEW c \in Conn, CountMembers(c),
         NEW p \in Process, NEW r \in Room
  PROVE  ChannelMoves(p, r)
<1>0. /\ conn[c].stage = "count" /\ conn[c].at \in Process /\ RoomOf(c) \in Room
      /\ TypeOK
  BY BusyOK DEF CountMembers, At, Busy, Joining, WellFormed
<1>1. CASE Goto(c, "back") /\ UNCHANGED local
  BY <1>0, <1>1, GotoMoves, QuietMove DEF CountMembers, local, redis
<1>2. CASE /\ rooms' = [rooms EXCEPT ![conn[c].at][RoomOf(c)] = @ \cup {c}]
           /\ subs' = [subs EXCEPT ![conn[c].at] = @ \cup {RoomOf(c)}]
           /\ Goto(c, IF RoomOf(c) \in subs[conn[c].at] THEN "joined" ELSE "subscribe")
  <2> PICK st \in {"joined", "subscribe"} :
             /\ Goto(c, st)
             /\ st = "joined" <=> RoomOf(c) \in subs[conn[c].at]
    BY <1>2
  <2>1. /\ Moves(c, st) /\ UNCHANGED channel
        /\ c \notin Subscribing(p, r) \cup Unsubscribing(p, r)
    BY <1>0, GotoMoves DEF CountMembers, redis, Subscribing, Unsubscribing, At
  <2>2. /\ Unsubscribing(p, r)' = Unsubscribing(p, r)
        /\ Subscribing(p, r)' = Subscribing(p, r)
             \cup {d \in {c} : st = "subscribe" /\ Here(c, p, r)}
    BY <2>1, CallsMove
  <2>3. CASE Here(c, p, r)
    <3>1. /\ rooms'[p][r] = rooms[p][r] \cup {c} /\ r \in subs'[p]
      BY <1>0, <1>2, <2>3 DEF TypeOK, Here
    <3>2. {d \in {c} : st = "subscribe" /\ Here(c, p, r)}
            = IF r \in subs[p] THEN {} ELSE {c}
      BY <2>3 DEF Here
    <3> QED
      BY <2>1, <2>2, <3>1, <3>2 DEF ChannelMoves, SameChannel
  <2>4. CASE ~Here(c, p, r)
    <3>1. rooms'[p][r] = rooms[p][r] /\ (r \in subs'[p] <=> r \in subs[p])
      BY <1>0, <1>2, <2>4 DEF TypeOK, Here
    <3> QED
      BY <2>1, <2>2, <2>4, <3>1 DEF ChannelMoves, SameCalls, SameRoom, SameChannel
  <2> QED
    BY <2>3, <2>4
<1> QED
  BY <1>1, <1>2 DEF CountMembers, Enter

LEMMA SubscribeMoves ==
  ASSUME WellFormed, NEW c \in Conn, Subscribe(c), NEW p \in Process, NEW r \in Room
  PROVE  ChannelMoves(p, r)
<1>0. /\ conn[c].stage = "subscribe" /\ conn[c].at \in Process /\ RoomOf(c) \in Room
      /\ TypeOK /\ Goto(c, "joined")
      /\ channel' = [channel EXCEPT ![RoomOf(c)] = @ \cup {conn[c].at}]
      /\ UNCHANGED <<rooms, subs>>
  BY BusyOK DEF Subscribe, Enter, At, Busy, Joining, WellFormed, local
<1>1. /\ Subscribing(p, r)' = Subscribing(p, r) \ {c}
      /\ Unsubscribing(p, r)' = Unsubscribing(p, r)
  <2>1. Moves(c, "joined") /\ c \notin Unsubscribing(p, r)
    BY <1>0, GotoMoves DEF Unsubscribing, At
  <2> QED
    BY <2>1, CallsMove
<1>2. CASE Here(c, p, r)
  <2>1. c \in Subscribing(p, r) /\ Unsubscribing(p, r) = {} /\ p \in channel'[r]
    BY <1>0, <1>2 DEF Subscribe, Pending, Subscribing, Unsubscribing, At, Here, TypeOK
  <2> QED
    BY <1>0, <1>1, <2>1 DEF ChannelMoves, SameRoom
<1>3. CASE ~Here(c, p, r)
  <2>1. c \notin Subscribing(p, r) /\ (p \in channel'[r] <=> p \in channel[r])
    BY <1>0, <1>3 DEF Subscribing, Here, TypeOK
  <2> QED
    BY <1>0, <1>1, <2>1 DEF ChannelMoves, SameCalls, SameRoom, SameChannel
<1> QED
  BY <1>2, <1>3

LEMMA UnsubscribeMoves ==
  ASSUME WellFormed, NEW c \in Conn, Unsubscribe(c), NEW p \in Process, NEW r \in Room
  PROVE  ChannelMoves(p, r)
<1>0. /\ conn[c].stage = "unsubscribe" /\ conn[c].at \in Process /\ RoomOf(c) \in Room
      /\ TypeOK /\ Goto(c, "remove")
      /\ channel' = [channel EXCEPT ![RoomOf(c)] = @ \ {conn[c].at}]
      /\ UNCHANGED <<rooms, subs>>
  BY BusyOK DEF Unsubscribe, At, Busy, Releasing, WellFormed, local
<1>1. /\ Unsubscribing(p, r)' = Unsubscribing(p, r) \ {c}
      /\ Subscribing(p, r)' = Subscribing(p, r)
  <2>1. Moves(c, "remove") /\ c \notin Subscribing(p, r)
    BY <1>0, GotoMoves DEF Subscribing, At
  <2> QED
    BY <2>1, CallsMove
<1>2. CASE Here(c, p, r)
  <2>1. c \in Unsubscribing(p, r) /\ p \notin channel'[r]
    BY <1>0, <1>2 DEF Unsubscribing, At, Here, TypeOK
  <2> QED
    BY <1>0, <1>1, <2>1 DEF ChannelMoves, SameRoom
<1>3. CASE ~Here(c, p, r)
  <2>1. c \notin Unsubscribing(p, r) /\ (p \in channel'[r] <=> p \in channel[r])
    BY <1>0, <1>3 DEF Unsubscribing, Here, TypeOK
  <2> QED
    BY <1>0, <1>1, <2>1 DEF ChannelMoves, SameCalls, SameRoom, SameChannel
<1> QED
  BY <1>2, <1>3

LEMMA CloseChannelMoves ==
  ASSUME WellFormed, EntryInv, NEW c \in Conn, Close(c),
         NEW p \in Process, NEW r \in Room
  PROVE  ChannelMoves(p, r)
<1>1. CASE ~At(c, "joined")
  <2>1. conn' = [conn EXCEPT ![c].open = FALSE] /\ UNCHANGED <<rooms, subs, channel>>
    BY <1>1 DEF Close, local, redis
  <2>2. \A d \in Conn : /\ conn'[d].at = conn[d].at /\ conn'[d].ticket = conn[d].ticket
                        /\ conn'[d].stage = conn[d].stage
    BY <2>1 DEF WellFormed, TypeOK, ConnRow
  <2>3. SameCalls(p, r)
    BY <2>2 DEF SameCalls, Subscribing, Unsubscribing, Here, At, RoomOf
  <2> QED
    BY <2>1, <2>3 DEF ChannelMoves, SameRoom, SameChannel
<1>2. CASE At(c, "joined")
  <2>0. /\ conn[c].stage = "joined" /\ conn[c].at \in Process /\ RoomOf(c) \in Room
        /\ TypeOK /\ c \in rooms[conn[c].at][RoomOf(c)]
    BY <1>2, BusyOK DEF At, Busy, WellFormed, EntryInv, Claims
  <2>1. /\ rooms' = [rooms EXCEPT ![conn[c].at][RoomOf(c)] = @ \ {c}]
        /\ subs' = IF Emptied(c) THEN [subs EXCEPT ![conn[c].at] = @ \ {RoomOf(c)}] ELSE subs
        /\ Moves(c, IF Emptied(c) THEN "unsubscribe" ELSE "remove")
        /\ UNCHANGED channel
    BY <1>2, <2>0, ShutMoves DEF Close, redis
  <2>2. c \notin Subscribing(p, r) \cup Unsubscribing(p, r)
    BY <2>0 DEF Subscribing, Unsubscribing, At
  <2>3. /\ Subscribing(p, r)' = Subscribing(p, r)
        /\ Unsubscribing(p, r)' = Unsubscribing(p, r)
             \cup {d \in {c} : Emptied(c) /\ Here(c, p, r)}
    BY <2>1, <2>2, CallsMove
  <2>4. CASE Here(c, p, r)
    <3>1. rooms'[p][r] = rooms[p][r] \ {c} /\ (Emptied(c) <=> rooms[p][r] = {c})
      BY <2>0, <2>1, <2>4 DEF TypeOK, Here, Emptied
    <3>2. IF rooms[p][r] = {c} THEN r \notin subs'[p] ELSE (r \in subs'[p] <=> r \in subs[p])
      BY <2>0, <2>1, <2>4, <3>1 DEF TypeOK, Here
    <3>3. Unsubscribing(p, r)' = IF rooms[p][r] = {c} THEN Unsubscribing(p, r) \cup {c}
                                 ELSE Unsubscribing(p, r)
      BY <2>3, <2>4, <3>1
    <3>4. c \in rooms[p][r] \ Subscribing(p, r)
      BY <2>0, <2>2, <2>4 DEF Here
    <3> QED
      BY <2>1, <2>3, <3>1, <3>2, <3>3, <3>4 DEF ChannelMoves, SameChannel
  <2>5. CASE ~Here(c, p, r)
    <3>1. rooms'[p][r] = rooms[p][r] /\ (r \in subs'[p] <=> r \in subs[p])
      BY <2>0, <2>1, <2>5 DEF TypeOK, Here
    <3> QED
      BY <2>1, <2>3, <2>5, <3>1 DEF ChannelMoves, SameCalls, SameRoom, SameChannel
  <2> QED
    BY <2>4, <2>5
<1> QED
  BY <1>1, <1>2

LEMMA CrashMoves ==
  ASSUME WellFormed, NEW q \in Process, Crash(q), NEW p \in Process, NEW r \in Room
  PROVE  ChannelMoves(p, r)
<1>0. \A d \in Conn : IF conn[d].at = q THEN conn'[d].stage = "done" ELSE conn'[d] = conn[d]
  BY DEF Crash, WellFormed, TypeOK, ConnRow
<1>1. CASE p = q
  <2>1. rooms'[p][r] = {} /\ r \notin subs'[p] /\ p \notin channel'[r]
    BY <1>1 DEF Crash, WellFormed, TypeOK
  <2>2. \A d \in Conn : conn'[d].at = p => conn'[d].stage = "done"
    BY <1>0, <1>1
  <2>3. Subscribing(p, r)' = {} /\ Unsubscribing(p, r)' = {}
    BY <2>2 DEF Subscribing, Unsubscribing, Here, At
  <2> QED
    BY <2>1, <2>3 DEF ChannelMoves
<1>2. CASE p # q
  <2>1. SameRoom(p, r) /\ SameChannel(p, r)
    BY <1>2 DEF Crash, WellFormed, TypeOK, SameRoom, SameChannel
  <2>2. \A d \in Conn : \/ conn'[d] = conn[d]
                        \/ (conn'[d].at = q /\ conn[d].at = q)
    <3> TAKE d \in Conn
    <3>1. conn[d].at # q => conn'[d] = conn[d]
      BY DEF Crash
    <3>2. ASSUME conn[d].at = q PROVE conn'[d].at = q
      <4>1. conn[d] \in ConnRow
        BY DEF WellFormed, TypeOK
      <4>2. conn'[d] = [conn[d] EXCEPT !.open = FALSE, !.stage = "done"]
        BY <3>2 DEF Crash
      <4> QED
        BY <3>2, <4>1, <4>2 DEF ConnRow
    <3> QED
      BY <3>1, <3>2
  <2>3. SameCalls(p, r)
    BY <1>2, <2>2 DEF SameCalls, Subscribing, Unsubscribing, Here, At, RoomOf
  <2> QED
    BY <2>1, <2>3 DEF ChannelMoves
<1> QED
  BY <1>1, <1>2

LEMMA ChannelsMove ==
  ASSUME WellFormed, EntryInv, [Next]_vars, NEW p \in Process, NEW r \in Room
  PROVE  ChannelMoves(p, r)
<1>0. TypeOK
  BY DEF WellFormed
<1>1. CASE UNCHANGED <<conn, rooms, subs, channel>>
  BY <1>1 DEF ChannelMoves, SameCalls, SameRoom, SameChannel, Subscribing, Unsubscribing,
              Here, At, RoomOf
<1>2. CASE \E c \in Conn, q \in Process : Connect(c, q)
  <2> PICK c \in Conn, q \in Process : Connect(c, q)
    BY <1>2
  <2>1. /\ \A d \in Conn : \/ conn'[d] = conn[d]
                           \/ conn[d].stage = "new" /\ conn'[d].stage = "idle"
        /\ UNCHANGED <<rooms, subs, channel>>
    BY <1>0 DEF Connect, TypeOK, ConnRow, At, local, redis
  <2>2. SameCalls(p, r)
    BY <2>1 DEF SameCalls, Subscribing, Unsubscribing, Here, At, RoomOf
  <2> QED
    BY <2>1, <2>2 DEF ChannelMoves, SameRoom, SameChannel
<1>3. CASE \E c \in Conn, t \in Ticket : Consume(c, t)
  <2> PICK c \in Conn, t \in Ticket : Consume(c, t)
    BY <1>3
  <2>1. /\ \A d \in Conn : \/ conn'[d] = conn[d]
                           \/ conn[d].stage = "idle" /\ conn'[d].stage = "read"
        /\ UNCHANGED <<rooms, subs, channel>>
    <3>1. /\ conn' = [conn EXCEPT ![c].stage = "read", ![c].ticket = t]
          /\ conn[c].stage = "idle"
      BY DEF Consume, At
    <3>2. \A d \in Conn : d # c => conn'[d] = conn[d]
      BY <1>0, <3>1 DEF TypeOK
    <3>3. conn[c] \in ConnRow /\ conn'[c] = [conn[c] EXCEPT !.stage = "read", !.ticket = t]
      BY <1>0, <3>1 DEF TypeOK
    <3>4. conn'[c].stage = "read"
      BY <3>3 DEF ConnRow
    <3>5. UNCHANGED <<rooms, subs, channel>>
      BY DEF Consume, local
    <3> QED
      BY <3>1, <3>2, <3>4, <3>5
  <2>2. SameCalls(p, r)
    BY <2>1 DEF SameCalls, Subscribing, Unsubscribing, Here, At, RoomOf
  <2> QED
    BY <2>1, <2>2 DEF ChannelMoves, SameRoom, SameChannel
<1>4. CASE \E c \in Conn : ReadMembers(c)
  <2> PICK c \in Conn : ReadMembers(c)
    BY <1>4
  <2>1. /\ \E st \in {"done", "add"} : Moves(c, st)
        /\ conn[c].stage = "read" /\ UNCHANGED <<rooms, subs, channel>>
    BY <1>0, GotoMoves, ShutMoves DEF ReadMembers, At, local
  <2> QED
    BY <2>1, QuietMove
<1>5. CASE \E c \in Conn : AddMember(c)
  BY <1>0, <1>5, GotoMoves, QuietMove DEF AddMember, At, local
<1>6. CASE \E c \in Conn : BackOut(c)
  BY <1>0, <1>6, ShutMoves, QuietMove DEF BackOut, At, local
<1>7. CASE \E c \in Conn : RemoveMember(c) \/ ReadCard(c) \/ DeleteMembers(c)
  <2> PICK c \in Conn : RemoveMember(c) \/ ReadCard(c) \/ DeleteMembers(c)
    BY <1>7
  <2>1. \E st \in {"card", "delete", "done"} : Moves(c, st)
    BY <1>0, GotoMoves DEF RemoveMember, ReadCard, DeleteMembers
  <2>2. conn[c].stage \in {"remove", "card", "delete"} /\ UNCHANGED <<rooms, subs, channel>>
    BY DEF RemoveMember, ReadCard, DeleteMembers, At, local, redis
  <2> QED
    BY <2>1, <2>2, QuietMove
<1>8. CASE \E c \in Conn : CountMembers(c) \/ Subscribe(c) \/ Unsubscribe(c) \/ Close(c)
  BY <1>8, CountMoves, SubscribeMoves, UnsubscribeMoves, CloseChannelMoves
<1>9. CASE \E q \in Process : Crash(q)
  BY <1>9, CrashMoves
<1>10. CASE \/ \E c \in Conn : Heartbeat(c)
            \/ \E n \in news : Deliver(n)
            \/ UNCHANGED vars
  BY <1>1, <1>10 DEF Heartbeat, Deliver, vars, local, redis
<1> QED
  BY <1>2, <1>3, <1>4, <1>5, <1>6, <1>7, <1>8, <1>9, <1>10 DEF Next, Join, Release

\* However peers of a room come and go while a SUBSCRIBE or an UNSUBSCRIBE of
\* their process is awaited, the process ends up on exactly the channels of the
\* rooms it has a peer in.
THEOREM ChannelsFollow == Spec => []ChannelFollowsRooms
<1>1. Init => ChannelInv
  BY DEF Init, ChannelInv, ChannelOK, Subscribing, Unsubscribing, At
<1>2. WellFormed /\ EntryInv /\ ChannelInv /\ [Next]_vars => ChannelInv'
  <2> SUFFICES ASSUME WellFormed, EntryInv, ChannelInv, [Next]_vars,
                      NEW p \in Process, NEW r \in Room
               PROVE  ChannelOK(p, r)'
    BY DEF ChannelInv
  <2>1. Subscribing(p, r) \subseteq rooms[p][r]
    BY DEF EntryInv, Claims, Subscribing, Here, At
  <2> QED
    BY <2>1, ChannelsMove, ChannelMoveOK DEF ChannelInv
<1>3. ChannelInv => ChannelFollowsRooms
  BY DEF ChannelInv, ChannelOK, ChannelFollowsRooms, InFlight, Subscribing, Unsubscribing,
         Here, At
<1> QED
  BY <1>1, <1>2, <1>3, AlwaysWellFormed, EntriesHold, PTL DEF Spec

----------------------------------------------------------------------------
(* Peers. Whoever is in the room when a join reads the registry holds an    *)
(* entry, unless a DEL took it, and no heartbeat of theirs can have lapsed: *)
(* so the join reads them all, and is told of all it read when it enters.   *)

Entering == {"add", "count", "subscribe", "joined"}

ToldInv ==
  \A c \in Conn :
    /\ conn[c].stage \in Entering => present[c] \ dropped \subseteq existing[c]
    /\ At(c, "joined") /\ conn[c].open => existing[c] \subseteq told[c]

\* A read of the registry misses no peer of the room but the dropped.
LEMMA ReadsAll ==
  ASSUME WellFormed, EntryInv, NEW c \in Conn, ReadMembers(c)
  PROVE  present'[c] \ dropped \subseteq existing'[c]
<1>1. PICK S \in SUBSET Lapsed(RoomOf(c)) :
        /\ existing' = [existing EXCEPT ![c] = registry[RoomOf(c)] \ S]
        /\ present' = [present EXCEPT ![c] = Members(RoomOf(c))]
  BY DEF ReadMembers, Readable
<1>2. existing'[c] = registry[RoomOf(c)] \ S /\ present'[c] = Members(RoomOf(c))
  BY <1>1 DEF WellFormed, TypeOK
<1>3. ASSUME NEW d \in Members(RoomOf(c)) \ dropped
      PROVE  d \in registry[RoomOf(c)] \ Lapsed(RoomOf(c))
  BY <1>3 DEF Members, EntryInv, Claims, Lapsed, At
<1> QED
  BY <1>2, <1>3

\* A step that only forgets obligations about a connection keeps the others.
LEMMA ToldStable ==
  ASSUME ToldInv, NEW c \in Conn,
         existing'[c] = existing[c], present'[c] = present[c],
         dropped \subseteq dropped', told[c] \subseteq told'[c],
         conn'[c].stage \in Entering => conn[c].stage \in Entering,
         conn'[c].stage = "joined" /\ conn'[c].open =>
           \/ conn[c].stage = "joined" /\ conn[c].open
           \/ existing[c] \subseteq told'[c]
  PROVE  /\ conn'[c].stage \in Entering => present'[c] \ dropped' \subseteq existing'[c]
         /\ conn'[c].stage = "joined" /\ conn'[c].open => existing'[c] \subseteq told'[c]
  BY DEF ToldInv, At

\* Who enters with an open socket is told of all it read, and nobody forgets.
LEMMA EnterTells ==
  ASSUME TypeOK, NEW c \in Conn, Enter(c), NEW d \in Conn
  PROVE  /\ told[d] \subseteq told'[d]
         /\ conn'[d].open = conn[d].open
         /\ conn'[d].stage = IF d = c THEN "joined" ELSE conn[d].stage
         /\ d = c /\ conn[d].open => existing[d] \subseteq told'[d]
<1>1. told'[d] = IF ~conn[d].open THEN told[d]
                 ELSE IF d = c THEN told[d] \cup existing[c]
                 ELSE IF d \in rooms[conn[c].at][RoomOf(c)] THEN told[d] \cup {c}
                 ELSE told[d]
  BY DEF Enter
<1>2. /\ conn'[d].open = conn[d].open
      /\ conn'[d].stage = IF d = c THEN "joined" ELSE conn[d].stage
  BY DEF Enter, Goto, TypeOK, ConnRow
<1> QED
  BY <1>1, <1>2

\* Neither a step from stage to stage nor the end of a connection opens a socket.
LEMMA GotoOpensNone ==
  ASSUME TypeOK, NEW c \in Conn, NEW st, Goto(c, st), NEW d \in Conn
  PROVE  conn'[d].open = conn[d].open
  BY DEF Goto, TypeOK, ConnRow

LEMMA ShutOpensNone ==
  ASSUME TypeOK, NEW c \in Conn, NEW st, NEW d \in Conn,
         conn' = [conn EXCEPT ![c].open = FALSE, ![c].stage = st]
  PROVE  conn'[d].open => conn[d].open
  BY DEF TypeOK, ConnRow

\* A step to a stage out of the join, or one before its entry is made.
LEMMA LeavesToldOK ==
  ASSUME TypeOK, ToldInv, NEW c \in Conn, NEW st, Moves(c, st),
         st \in Entering => conn[c].stage \in Entering /\ st # "joined",
         \A d \in Conn : conn'[d].open => conn[d].open,
         UNCHANGED <<existing, present, told>>, dropped \subseteq dropped'
  PROVE  ToldInv'
<1> SUFFICES ASSUME NEW d \in Conn
             PROVE  /\ conn'[d].stage \in Entering => present'[d] \ dropped' \subseteq existing'[d]
                    /\ conn'[d].stage = "joined" /\ conn'[d].open => existing'[d] \subseteq told'[d]
  BY DEF ToldInv, At
<1>1. conn'[d].stage = IF d = c THEN st ELSE conn[d].stage
  BY DEF Moves
<1>2. "joined" \in Entering
  BY DEF Entering
<1> QED
  BY <1>1, <1>2, ToldStable

LEMMA ToldInductive ==
  ASSUME WellFormed, EntryInv, ToldInv, Next
  PROVE  ToldInv'
<1> DEFINE Told(d) ==
      /\ conn'[d].stage \in Entering => present'[d] \ dropped' \subseteq existing'[d]
      /\ conn'[d].stage = "joined" /\ conn'[d].open => existing'[d] \subseteq told'[d]
<1>0. TypeOK /\ (ToldInv' <=> \A d \in Conn : Told(d))
  BY DEF WellFormed, ToldInv, At
<1>1. CASE \E c \in Conn, p \in Process : Connect(c, p)
  <2> PICK c \in Conn, p \in Process : Connect(c, p)
    BY <1>1
  <2>1. ASSUME NEW d \in Conn PROVE Told(d)
    <3>1. \/ conn'[d] = conn[d]
          \/ conn'[d].stage = "idle"
      BY <1>0 DEF Connect, TypeOK, ConnRow
    <3>2. UNCHANGED <<existing, present, told, dropped>>
      BY DEF Connect, history
    <3> QED
      BY <3>1, <3>2, ToldStable DEF Entering
  <2> QED
    BY <1>0, <2>1
<1>2. CASE \E c \in Conn, t \in Ticket : Consume(c, t)
  <2> PICK c \in Conn, t \in Ticket : Consume(c, t)
    BY <1>2
  <2>1. ASSUME NEW d \in Conn PROVE Told(d)
    <3>1. \/ conn'[d] = conn[d]
          \/ conn'[d].stage = "read"
      <4>1. /\ conn[d] \in ConnRow
            /\ conn'[d] = IF d = c THEN [conn[d] EXCEPT !.stage = "read", !.ticket = t]
                          ELSE conn[d]
        BY <1>0 DEF Consume, TypeOK
      <4> QED
        BY <4>1 DEF ConnRow
    <3>2. UNCHANGED <<existing, present, told, dropped>>
      BY DEF Consume
    <3> QED
      BY <3>1, <3>2, ToldStable DEF Entering
  <2> QED
    BY <1>0, <2>1
<1>3. CASE \E c \in Conn : ReadMembers(c)
  <2> PICK c \in Conn : ReadMembers(c)
    BY <1>3
  <2>1. UNCHANGED <<told, dropped>> /\ \E st \in {"done", "add"} : Moves(c, st)
    BY <1>0, GotoMoves, ShutMoves DEF ReadMembers
  <2>2. ASSUME NEW d \in Conn PROVE Told(d)
    <3>1. CASE d = c
      <4>1. conn'[d].stage # "joined"
        BY <2>1, <3>1 DEF Moves
      <4> QED
        BY <2>1, <3>1, <4>1, ReadsAll
    <3>2. CASE d # c
      <4>1. existing'[d] = existing[d] /\ present'[d] = present[d] /\ conn'[d] = conn[d]
        BY <3>2 DEF ReadMembers, Goto, WellFormed, TypeOK
      <4> QED
        BY <2>1, <4>1, ToldStable
    <3> QED
      BY <3>1, <3>2
  <2> QED
    BY <1>0, <2>2
<1>4. ASSUME NEW c \in Conn, Enter(c), conn[c].stage \in Entering,
             UNCHANGED <<existing, history>>
      PROVE  ToldInv'
  <2>1. ASSUME NEW d \in Conn PROVE Told(d)
    <3>1. UNCHANGED <<existing, present, dropped>>
      BY <1>4 DEF history
    <3> QED
      BY <1>0, <1>4, <3>1, EnterTells, ToldStable
  <2> QED
    BY <1>0, <2>1
<1>5. ASSUME NEW c \in Conn, CountMembers(c), UNCHANGED told,
             NEW st \in {"back", "subscribe"}, Goto(c, st)
      PROVE  ToldInv'
  <2>1. conn[c].stage \in Entering /\ UNCHANGED <<existing, present, dropped>>
    BY <1>5 DEF CountMembers, history, At, Entering
  <2>2. Moves(c, st) /\ st # "joined"
    BY <1>0, <1>5, GotoMoves
  <2> QED
    BY <1>0, <1>5, <2>1, <2>2, GotoOpensNone, LeavesToldOK
<1>6. CASE \E c \in Conn : AddMember(c)
  <2> PICK c \in Conn : AddMember(c)
    BY <1>6
  <2>1. /\ Goto(c, "count") /\ conn[c].stage \in Entering
        /\ UNCHANGED <<existing, present, dropped, told>>
    BY DEF AddMember, history, At, Entering
  <2> QED
    BY <1>0, <2>1, GotoMoves, GotoOpensNone, LeavesToldOK
<1>7. CASE \E c \in Conn : BackOut(c)
  <2> PICK c \in Conn : BackOut(c)
    BY <1>7
  <2>1. /\ conn' = [conn EXCEPT ![c].open = FALSE, ![c].stage = "done"]
        /\ UNCHANGED <<existing, present, dropped, told>>
    BY DEF BackOut, history
  <2>2. "done" \notin Entering
    BY DEF Entering
  <2> QED
    BY <1>0, <2>1, <2>2, ShutMoves, ShutOpensNone, LeavesToldOK
<1>8. CASE \E c \in Conn : Release(c)
  <2> PICK c \in Conn : Release(c)
    BY <1>8
  <2>1. PICK st \in {"remove", "card", "delete", "done"} : Goto(c, st)
    BY DEF Release, Unsubscribe, RemoveMember, ReadCard, DeleteMembers
  <2>2. UNCHANGED <<existing, present, told>> /\ dropped \subseteq dropped'
    BY DEF Release, Unsubscribe, RemoveMember, ReadCard, DeleteMembers, history
  <2>3. st \notin Entering
    BY DEF Entering
  <2> QED
    BY <1>0, <2>1, <2>2, <2>3, GotoMoves, GotoOpensNone, LeavesToldOK
<1>9. CASE \E c \in Conn : Close(c)
  <2> PICK c \in Conn : Close(c)
    BY <1>9
  <2>1. UNCHANGED <<existing, present, told, dropped>>
    BY DEF Close, history
  <2>2. ASSUME NEW d \in Conn PROVE Told(d)
    <3>1. CASE d = c
      <4>1. ~conn'[d].open /\ (conn'[d].stage \in Entering => conn[d].stage \in Entering)
        <5>1. CASE At(c, "joined")
          BY <1>0, <3>1, <5>1 DEF Close, TypeOK, ConnRow, Entering, At
        <5>2. CASE ~At(c, "joined")
          BY <1>0, <3>1, <5>2 DEF Close, TypeOK, ConnRow
        <5> QED
          BY <5>1, <5>2
      <4> QED
        BY <2>1, <4>1, ToldStable
    <3>2. CASE d # c
      BY <1>0, <2>1, <3>2, ToldStable DEF Close, TypeOK
    <3> QED
      BY <3>1, <3>2
  <2> QED
    BY <1>0, <2>2
<1>10. CASE \E c \in Conn : Heartbeat(c)
  BY <1>10 DEF Heartbeat, history, ToldInv, At
<1>11. CASE \E n \in news : Deliver(n)
  BY <1>0, <1>11, ToldStable DEF Deliver, history, TypeOK
<1>12. CASE \E p \in Process : Crash(p)
  <2> PICK p \in Process : Crash(p)
    BY <1>12
  <2>1. UNCHANGED <<existing, present, told, dropped>>
    BY DEF Crash, history
  <2>2. ASSUME NEW d \in Conn PROVE Told(d)
    <3>1. /\ conn[d] \in ConnRow
          /\ conn'[d] = IF conn[d].at = p THEN [conn[d] EXCEPT !.open = FALSE, !.stage = "done"]
                        ELSE conn[d]
      BY <1>0 DEF Crash, TypeOK
    <3>2. conn'[d] = conn[d] \/ conn'[d].stage = "done"
      BY <3>1 DEF ConnRow
    <3> QED
      BY <2>1, <3>2, ToldStable DEF Entering
  <2> QED
    BY <1>0, <2>2
<1>13. ASSUME NEW c \in Conn, CountMembers(c) PROVE ToldInv'
  BY <1>4, <1>5, <1>13 DEF CountMembers, At, Entering
<1>14. ASSUME NEW c \in Conn, Subscribe(c) PROVE ToldInv'
  BY <1>4, <1>14 DEF Subscribe, At, Entering
<1> QED
  BY <1>1, <1>2, <1>3, <1>6, <1>7, <1>8, <1>9, <1>10, <1>11, <1>12, <1>13, <1>14
     DEF Next, Join

\* Whatever joins, leaves and crashes run between the awaits of a join, on any
\* number of processes, a peer that enters is told of everyone who was in the
\* room when its join read the registry.
THEOREM PeersTold == Spec => []ExistingPeersTold
<1>1. Init => ToldInv
  BY DEF Init, ToldInv, Entering, At
<1>2. WellFormed /\ EntryInv /\ ToldInv /\ [Next]_vars => ToldInv'
  <2>1. ToldInv /\ UNCHANGED vars => ToldInv'
    BY DEF vars, ToldInv, At
  <2> QED
    BY <2>1, ToldInductive
<1>3. ToldInv => ExistingPeersTold
  BY DEF ToldInv, Entering, ExistingPeersTold, At
<1> QED
  BY <1>1, <1>2, <1>3, AlwaysWellFormed, EntriesHold, PTL DEF Spec
=============================================================================
