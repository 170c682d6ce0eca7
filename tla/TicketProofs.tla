---------------------------- MODULE TicketProofs ----------------------------
(***************************************************************************)
(* Proofs about a ticket's row (Ticket), for any number of handlers in     *)
(* flight, any policies and any number of priority edits; and, in the      *)
(* second part, about its lock (TicketLock). The two specifications share  *)
(* no variable.                                                            *)
(***************************************************************************)
EXTENDS Ticket, TicketLock, TLAPS

\* Every report so far belongs to an earlier arming of the clock, or to this
\* one, and then the flag is up.
ReportsCounted ==
  \A c \in Clocks :
    /\ events[c] <= rearms + 1
    /\ c \notin breached => events[c] <= rearms
    /\ c \in breached => c \in pastDue /\ events[c] > 0

LEMMA TypeInit == Init => TypeOK
<1> SUFFICES ASSUME Init PROVE TypeOK
  OBVIOUS
<1>1. req \in [Requests -> [op : Operations \cup {"idle"}, to : Statuses]]
  BY DEF Init, Idle, Statuses
<1>2. events \in [Clocks -> Nat] /\ rearms \in Nat
  BY DEF Init
<1> QED
  BY <1>1, <1>2 DEF Init, TypeOK, Statuses

LEMMA TypeStep == TypeOK /\ [Next]_vars => TypeOK'
<1> SUFFICES ASSUME TypeOK, [Next]_vars PROVE TypeOK'
  OBVIOUS
<1> USE DEF TypeOK, Operations, sla, row
<1>1. ASSUME NEW q \in Requests, Reads(q) PROVE TypeOK'
  <2>1. ASSUME NEW op \in Operations, NEW to \in Statuses, Begin(q, op, to)
        PROVE TypeOK'
    BY <2>1 DEF Begin
  <2>2. {"open", "resolved", "escalated"} \subseteq Statuses
    BY DEF Statuses
  <2>3. \A p \in Policies : p.target \in Statuses
    BY PoliciesAssumption
  <2> QED
    <3>1. ASSUME NEW to \in Statuses, BeginStatus(q, to) PROVE TypeOK'
      BY <2>1, <3>1 DEF BeginStatus
    <3>2. ASSUME NEW p \in Policies, BeginPolicy(q, p) PROVE TypeOK'
      BY <2>1, <2>3, <3>2 DEF BeginPolicy
    <3>3. CASE BeginReply(q) \/ BeginPriority(q) \/ BeginPortalReply(q) \/ BeginPortalResolve(q)
      BY <2>1, <2>2, <3>3 DEF BeginReply, BeginPriority, BeginPortalReply, BeginPortalResolve
    <3>4. CASE BeginEmail(q) \/ BeginEscalate(q) \/ BeginTriage(q)
      BY <2>1, <2>2, <3>4 DEF BeginEmail, BeginEscalate, BeginTriage
    <3> QED
      BY <1>1, <3>1, <3>2, <3>3, <3>4 DEF Reads
<1>2. ASSUME NEW q \in Requests, Ended(q) PROVE req' \in [Requests -> [op : Operations \cup {"idle"}, to : Statuses]]
  BY <1>2 DEF Ended, Idle, Statuses
<1>3. ASSUME NEW q \in Requests, Writes(q) PROVE TypeOK'
  <2>1. CASE WriteStatus(q)
    <3>1. status' = req[q].to /\ req[q].to \in Statuses
      BY <2>1 DEF WriteStatus
    <3>2. resolvedAt' \in BOOLEAN /\ closedAt' \in BOOLEAN
      <4>1. /\ resolvedAt' = (req[q].to \in Finished)
            /\ closedAt' = (req[q].to = "closed")
        BY <2>1 DEF WriteStatus, StampFinish
      <4>2. (req[q].to \in Finished) \in BOOLEAN /\ (req[q].to = "closed") \in BOOLEAN
        OBVIOUS
      <4> QED
        BY <4>1, <4>2, Zenon
    <3>3. Ended(q) /\ plain' = FALSE /\ stuck' = FALSE /\ UNCHANGED sla
      BY <2>1 DEF WriteStatus, Writing
    <3> QED
      BY <1>2, <3>1, <3>2, <3>3
  <2>2. CASE WriteReply(q)
    BY <1>2, <2>2 DEF WriteReply, Statuses
  <2>3. CASE WritePriority(q)
    BY <1>2, <2>3 DEF WritePriority
  <2>4. CASE WritePortalReply(q) \/ WriteEmail(q) \/ TriageHandoff(q)
    BY <1>2, <2>4 DEF WritePortalReply, WriteEmail, TriageHandoff, Writing, Statuses
  <2>5. CASE WritePortalResolve(q) \/ TriageResolve(q)
    BY <1>2, <2>5 DEF WritePortalResolve, TriageResolve, Writing, Statuses
  <2>6. CASE WriteEscalate(q)
    BY <1>2, <2>6 DEF WriteEscalate, Writing, Statuses
  <2>7. CASE WritePolicy(q)
    BY <1>2, <2>7 DEF WritePolicy
  <2> QED
    BY <1>3, <2>1, <2>2, <2>3, <2>4, <2>5, <2>6, <2>7 DEF Writes
<1>4. ASSUME NEW q \in Requests, Rollback(q) PROVE TypeOK'
  BY <1>2, <1>4 DEF Rollback
<1>5. CASE WorkerResolve \/ Merge
  BY <1>5 DEF WorkerResolve, Merge, Statuses
<1>6. ASSUME NEW to \in Statuses, BulkStatus(to) \/ IncidentStatus(to) PROVE TypeOK'
  BY <1>6 DEF BulkStatus, IncidentStatus
<1>7. CASE StatusAges \/ \E c \in Clocks : ClockRunsOut(c)
  BY <1>7 DEF StatusAges, ClockRunsOut
<1>8. CASE Sweep
  <2>1. events' \in [Clocks -> Nat]
    BY <1>8 DEF Sweep
  <2> QED
    BY <1>8, <2>1 DEF Sweep
<1>9. CASE UNCHANGED vars
  BY <1>9 DEF vars
<1> QED
  BY <1>1, <1>3, <1>4, <1>5, <1>6, <1>7, <1>8, <1>9 DEF Next

\* Every step of every handler keeps the row well formed.
THEOREM TypeCorrect == Spec => []TypeOK
  BY TypeInit, TypeStep, PTL DEF Spec

\* Handlers that write the finish stamps never part them from the status,
\* whatever they read before: no interleaving leaves a finished ticket without
\* resolved_at, or a closed one without closed_at.
THEOREM StampsFollowStatus == Spec => []FinishedIsStamped
<1>1. Init => FinishedIsStamped
  BY DEF Init, FinishedIsStamped, Finished
<1>2. TypeOK /\ FinishedIsStamped /\ [Next]_vars => FinishedIsStamped'
  <2> SUFFICES ASSUME TypeOK, FinishedIsStamped, [Next]_vars PROVE FinishedIsStamped'
    OBVIOUS
  <2> USE DEF FinishedIsStamped, Finished, sla, row
  <2>1. ASSUME NEW q \in Requests, Reads(q) \/ Rollback(q) PROVE FinishedIsStamped'
    BY <2>1
    DEF Reads, Rollback, BeginStatus, BeginReply, BeginPriority, BeginPortalReply,
        BeginPortalResolve, BeginEmail, BeginEscalate, BeginPolicy, BeginTriage, Begin
  <2>2. ASSUME NEW q \in Requests, Writes(q) PROVE FinishedIsStamped'
    <3>1. CASE WriteStatus(q)
      BY <3>1 DEF WriteStatus, StampFinish
    <3>2. CASE WriteReply(q) \/ WritePriority(q)
      BY <3>2 DEF WriteReply, WritePriority
    <3>3. CASE WritePortalReply(q) \/ WriteEmail(q) \/ TriageHandoff(q) \/ WriteEscalate(q)
      BY <3>3 DEF WritePortalReply, WriteEmail, TriageHandoff, WriteEscalate
    <3>4. CASE WritePortalResolve(q) \/ TriageResolve(q)
      BY <3>4 DEF WritePortalResolve, TriageResolve
    <3>5. CASE WritePolicy(q)
      BY <3>5 DEF WritePolicy
    <3> QED
      BY <2>2, <3>1, <3>2, <3>3, <3>4, <3>5 DEF Writes
  <2>3. CASE WorkerResolve \/ Merge \/ \E to \in Statuses : BulkStatus(to) \/ IncidentStatus(to)
    BY <2>3 DEF WorkerResolve, Merge, BulkStatus, IncidentStatus
  <2>4. CASE StatusAges \/ Sweep \/ \E c \in Clocks : ClockRunsOut(c)
    BY <2>4 DEF StatusAges, Sweep, ClockRunsOut
  <2>5. CASE UNCHANGED vars
    BY <2>5 DEF vars
  <2> QED
    BY <2>1, <2>2, <2>3, <2>4, <2>5 DEF Next
<1> QED
  BY <1>1, <1>2, TypeCorrect, PTL DEF Spec

\* Sweeps, answers and priority edits in any order report each breach once for
\* each arming of its clock.
THEOREM BreachesReportedOnce == Spec => []BreachReportedOncePerArming
<1>1. Init => ReportsCounted
  BY DEF Init, ReportsCounted
<1>2. TypeOK /\ ReportsCounted /\ [Next]_vars => ReportsCounted'
  <2> SUFFICES ASSUME TypeOK, ReportsCounted, [Next]_vars, NEW c \in Clocks
               PROVE /\ events'[c] <= rearms' + 1
                     /\ c \notin breached' => events'[c] <= rearms'
                     /\ c \in breached' => c \in pastDue' /\ events'[c] > 0
    BY DEF ReportsCounted
  <2>0. events[c] \in Nat /\ rearms \in Nat
    BY DEF TypeOK
  <2>1. CASE Sweep
    <3>1. /\ events'[c] = IF Overdue(c) THEN events[c] + 1 ELSE events[c]
          /\ c \in breached' <=> c \in breached \/ Overdue(c)
          /\ pastDue' = pastDue
          /\ rearms' = rearms
      BY <2>1 DEF Sweep
    <3>2. Overdue(c) => c \notin breached /\ c \in pastDue
      BY DEF Overdue
    <3> QED
      BY <2>0, <3>1, <3>2 DEF ReportsCounted
  <2>2. ASSUME NEW q \in Requests, WritePriority(q)
        PROVE /\ events' = events
              /\ rearms' = rearms + 1
              /\ breached' = {}
    BY <2>2 DEF WritePriority
  <2>3. CASE \E q \in Requests : WritePriority(q)
    BY <2>0, <2>2, <2>3 DEF ReportsCounted
  <2>4. CASE \E d \in Clocks : ClockRunsOut(d)
    BY <2>4 DEF ClockRunsOut, ReportsCounted
  <2>5. CASE UNCHANGED <<events, rearms, breached, pastDue>>
    BY <2>5 DEF ReportsCounted
  <2>6. ASSUME NEW q \in Requests, Reads(q) \/ Rollback(q)
        PROVE UNCHANGED <<events, rearms, breached, pastDue>>
    BY <2>6
    DEF Reads, Rollback, BeginStatus, BeginReply, BeginPriority, BeginPortalReply,
        BeginPortalResolve, BeginEmail, BeginEscalate, BeginPolicy, BeginTriage, Begin, sla
  <2>7. ASSUME NEW q \in Requests, Writes(q), ~WritePriority(q)
        PROVE UNCHANGED <<events, rearms, breached, pastDue>>
    BY <2>7
    DEF Writes, WriteStatus, WriteReply, WritePortalReply, WritePortalResolve,
        WriteEmail, WriteEscalate, WritePolicy, TriageResolve, TriageHandoff, sla
  <2>8. ASSUME WorkerResolve \/ Merge \/ StatusAges \/ UNCHANGED vars
                 \/ \E to \in Statuses : BulkStatus(to) \/ IncidentStatus(to)
        PROVE UNCHANGED <<events, rearms, breached, pastDue>>
    BY <2>8 DEF WorkerResolve, Merge, StatusAges, BulkStatus, IncidentStatus, sla, vars
  <2> QED
    BY <2>1, <2>3, <2>4, <2>5, <2>6, <2>7, <2>8 DEF Next
<1>3. ReportsCounted => BreachReportedOncePerArming
  BY DEF ReportsCounted, BreachReportedOncePerArming
<1> QED
  BY <1>1, <1>2, <1>3, TypeCorrect, PTL DEF Spec

-----------------------------------------------------------------------------
(***************************************************************************)
(* A lock is lost only with a cause, for any agents, managers, requests,   *)
(* durations and bounds. Besides the types the argument needs one fact     *)
(* about decisions under way: whoever is about to write one is the target  *)
(* of the request or a manager, and requests do not change their target.   *)
(***************************************************************************)

\* A decision under way is about a request that was made, by one who may decide it.
DecisionAuthorised ==
  \A a \in Agents : resolving[a] # NotResolving =>
    /\ resolving[a].row \in ReleaseRequests
    /\ request[resolving[a].row].status # "none"
    /\ MayResolve(a, resolving[a].row)

Inv == LockTypeOK /\ DecisionAuthorised

\* A request that is decided on is still a request.
LEMMA RowDecided ==
  ASSUME NEW e \in RequestRow
  PROVE  [e EXCEPT !.status = "decided"] \in RequestRow
BY DEF RequestRow

LEMMA LockOperators ==
  ASSUME NEW l \in LockRow, NEW u \in Agents
  PROVE  /\ Unexpired(l) \in LockRow
         /\ Aged(l) \in LockRow
         /\ FullLease(u) \in LockRow
         /\ NoLock \in LockRow
         /\ (l.by = NoOne => l.left = 0) => (Unexpired(l).by = NoOne => Unexpired(l).left = 0)
         /\ (l.by = NoOne => l.left = 0) => (Aged(l).by = NoOne => Aged(l).left = 0)
         /\ FullLease(u).by # NoOne
  BY PeopleAssumption, TicksAssumption DEF LockRow, Unexpired, Aged, FullLease, NoLock

LEMMA FreshViewers ==
  ASSUME NEW v \in [Agents -> {Absent} \cup 0..ViewTicks]
  PROVE  Fresh(v) \in [Agents -> {Absent} \cup 0..ViewTicks]
  BY DEF Fresh

\* Every variable has its type in every reachable state (the whole module).
THEOREM LockTypeCorrect == LockSpec => []LockTypeOK
<1> USE PeopleAssumption, TicksAssumption
<1>1. LockInit => LockTypeOK
  BY DEF LockInit, LockTypeOK, NoLock, LockRow, NoRequest, RequestRow, NotResolving, Absent
<1>2. LockTypeOK /\ [LockNext]_lockVars => LockTypeOK'
  <2> SUFFICES ASSUME LockTypeOK, [LockNext]_lockVars PROVE LockTypeOK'
    OBVIOUS
  <2> USE DEF LockTypeOK
  <2>1. CASE Tick
    <3>1. lock' \in LockRow /\ (lock'.by = NoOne => lock'.left = 0)
      BY <2>1 DEF Tick, Aged, LockRow
    <3>2. viewers' \in [Agents -> {Absent} \cup 0..ViewTicks]
      BY <2>1 DEF Tick, Absent
    <3>. QED BY <2>1, <3>1, <3>2 DEF Tick
  <2>2. ASSUME NEW u \in Agents, PageStep(u) PROVE LockTypeOK'
    <3>1. CASE Load(u)
      BY <3>1 DEF Load
    <3>2. CASE LoadView(u)
      BY <3>2, FreshViewers DEF LoadView
    <3>3. CASE LoadTicket(u)
      BY <3>3 DEF LoadTicket
    <3>4. CASE LoadLock(u)
      BY <3>4, LockOperators DEF LoadLock
    <3>5. CASE LoadViewers(u)
      BY <3>5, FreshViewers DEF LoadViewers
    <3>6. CASE LoadClaim(u)
      BY <3>6, LockOperators DEF LoadClaim, Acquired
    <3>7. CASE Leave(u)
      BY <3>7 DEF Leave
    <3>8. CASE HeartbeatLock(u)
      BY <3>8, LockOperators DEF HeartbeatLock
    <3>9. CASE HeartbeatViewing(u)
      BY <3>9 DEF HeartbeatViewing
    <3>10. CASE Poll(u)
      BY <3>10, LockOperators, FreshViewers DEF Poll
    <3>. QED BY <2>2, <3>1, <3>2, <3>3, <3>4, <3>5, <3>6, <3>7, <3>8, <3>9, <3>10 DEF PageStep
  <2>3. ASSUME NEW u \in Agents, CallStep(u) PROVE LockTypeOK'
    <3>1. CASE StopViewing(u)
      BY <3>1 DEF StopViewing
    <3>2. CASE Unlock(u)
      BY <3>2, LockOperators DEF Unlock, NoLock
    <3>3. CASE AssignSelf(u)
      BY <3>3, LockOperators DEF AssignSelf
    <3>4. CASE AssignRead(u)
      BY <3>4 DEF AssignRead
    <3>5. CASE AssignClear(u)
      <4>1. lock' \in LockRow /\ (lock'.by = NoOne => lock'.left = 0) /\ assignee' \in Agents \cup {NoOne}
        <5>1. CASE Conflicts(u) /\ UNCHANGED <<lock, assignee>>
          BY <5>1
        <5>2. CASE lock' = NoLock /\ assignee' \in (Agents \cup {NoOne}) \ {u}
          BY <5>2, LockOperators DEF NoLock, LockRow
        <5>. QED BY <3>5, <5>1, <5>2 DEF AssignClear
      <4>2. assigning' \in [Agents -> {"no", ReadFree, ReadForeign}]
        BY <3>5 DEF AssignClear
      <4>. QED BY <3>5, <4>1, <4>2 DEF AssignClear
    <3>6. CASE RequestRelease(u)
      <4>1. PICK r \in ReleaseRequests, t \in Targets(u) :
              request' = [request EXCEPT ![r] = [status |-> "pending", from |-> u, target |-> t]]
        BY <3>6 DEF RequestRelease
      <4>2. t \in Agents \cup {NoOne}
        BY <4>1 DEF Targets, LockRow
      <4>3. request' \in [ReleaseRequests -> RequestRow]
        BY <4>1, <4>2 DEF RequestRow
      <4>. QED BY <3>6, <4>3 DEF RequestRelease
    <3>7. CASE ResolveWrite(u)
      <4>1. request' \in [ReleaseRequests -> RequestRow]
        <5> DEFINE decidedRow == resolving[u].row
        <5>1. request' = [request EXCEPT ![decidedRow] = [request[decidedRow] EXCEPT !.status = "decided"]]
          BY <3>7 DEF ResolveWrite
        <5>2. ASSUME decidedRow \in ReleaseRequests PROVE [request[decidedRow] EXCEPT !.status = "decided"] \in RequestRow
          <6>1. request[decidedRow] \in RequestRow
            BY <5>2
          <6>. QED BY <6>1, RowDecided
        <5>3. ASSUME NEW q \in ReleaseRequests PROVE request'[q] \in RequestRow
          <6>1. CASE q = decidedRow
            BY <5>1, <5>2, <6>1
          <6>2. CASE q # decidedRow
            BY <5>1, <6>2
          <6>. QED BY <6>1, <6>2
        <5>4. request' = [q \in ReleaseRequests |-> request'[q]]
          BY <5>1
        <5>. QED BY <5>3, <5>4
      <4>2. lock' \in LockRow /\ (lock'.by = NoOne => lock'.left = 0)
        BY <3>7, LockOperators DEF ResolveWrite, Freed, NoLock
      <4>3. viewers' \in [Agents -> {Absent} \cup 0..ViewTicks]
        BY <3>7 DEF ResolveWrite
      <4>4. resolving' \in [Agents -> [row : ReleaseRequests \cup {NoOne}, approve : BOOLEAN]]
        BY <3>7 DEF ResolveWrite, NotResolving
      <4>. QED BY <3>7, <4>1, <4>2, <4>3, <4>4 DEF ResolveWrite
    <3>8. ASSUME NEW r \in ReleaseRequests, ResolveRead(u, r) PROVE LockTypeOK'
      BY <3>8 DEF ResolveRead
    <3>. QED BY <2>3, <3>1, <3>2, <3>3, <3>4, <3>5, <3>6, <3>7, <3>8 DEF CallStep
  <2>4. ASSUME NEW m \in Managers, AskForceUnlock(m) \/ ForceUnlock(m) PROVE LockTypeOK'
    <3>1. CASE AskForceUnlock(m)
      BY <3>1 DEF AskForceUnlock
    <3>2. CASE ForceUnlock(m)
      BY <3>2, LockOperators DEF ForceUnlock, NoLock, LockRow
    <3>. QED BY <2>4, <3>1, <3>2
  <2>5. CASE UNCHANGED lockVars
    BY <2>5 DEF lockVars
  <2>. QED BY <2>1, <2>2, <2>3, <2>4, <2>5 DEF LockNext
<1>. QED BY <1>1, <1>2, PTL DEF LockSpec

-----------------------------------------------------------------------------

\* What keeps a decision authorised: the requests and the decisions under way
\* are left alone, or a step of one agent changes them as below.
LEMMA AuthorityKept ==
  ASSUME LockTypeOK, DecisionAuthorised, [LockNext]_lockVars
  PROVE  DecisionAuthorised'
<1> USE DEF LockTypeOK, DecisionAuthorised, MayResolve
<1>1. CASE UNCHANGED <<request, resolving>>
  BY <1>1
<1>2. ASSUME NEW u \in Agents, RequestRelease(u) PROVE DecisionAuthorised'
  <2>1. PICK r \in ReleaseRequests, t \in Targets(u) :
          /\ request[r].status = "none"
          /\ request' = [request EXCEPT ![r] = [status |-> "pending", from |-> u, target |-> t]]
    BY <1>2 DEF RequestRelease
  <2>2. \A q \in ReleaseRequests : request[q].status # "none" => request'[q] = request[q]
    BY <2>1
  <2>. QED BY <1>2, <2>2 DEF RequestRelease
<1>3. ASSUME NEW u \in Agents, NEW r \in ReleaseRequests, ResolveRead(u, r) PROVE DecisionAuthorised'
  <2>1. request' = request /\ \A a \in Agents : a # u => resolving'[a] = resolving[a]
    BY <1>3 DEF ResolveRead
  <2>2. resolving'[u].row = r /\ request[r].status # "none" /\ MayResolve(u, r)
    BY <1>3 DEF ResolveRead
  <2>. QED BY <2>1, <2>2
<1>4. ASSUME NEW u \in Agents, ResolveWrite(u) PROVE DecisionAuthorised'
  <2> DEFINE decidedRow == resolving[u].row
  <2>1. request' = [request EXCEPT ![decidedRow] = [request[decidedRow] EXCEPT !.status = "decided"]]
    BY <1>4 DEF ResolveWrite
  <2>3. ASSUME NEW q \in ReleaseRequests
        PROVE  request'[q].target = request[q].target
               /\ (request[q].status # "none" => request'[q].status # "none")
    <3>1. CASE q = decidedRow
      BY <2>1, <3>1 DEF RequestRow
    <3>2. CASE q # decidedRow
      BY <2>1, <3>2
    <3>. QED BY <3>1, <3>2
  <2>4. \A a \in Agents : resolving'[a] # NotResolving => resolving'[a] = resolving[a]
    BY <1>4 DEF ResolveWrite
  <2>. QED BY <2>3, <2>4
<1>5. [LockNext]_lockVars =>
        \/ UNCHANGED <<request, resolving>>
        \/ \E u \in Agents : RequestRelease(u) \/ ResolveWrite(u) \/ \E r \in ReleaseRequests : ResolveRead(u, r)
  BY DEF LockNext, lockVars, PageStep, CallStep, Tick, Load, LoadView, LoadTicket, LoadLock, LoadViewers,
     LoadClaim, Leave, HeartbeatLock, HeartbeatViewing, Poll, StopViewing, Unlock, AssignSelf,
     AssignRead, AssignClear, AskForceUnlock, ForceUnlock
<1>. QED BY <1>1, <1>2, <1>3, <1>4, <1>5

\* The cause of one loss, as the property names it.
Cause(u) ==
  \/ Releases(u)
  \/ \E a \in {u} \cup Managers : Forces(a) \/ Decides(a) \/ Reassigns(a)
  \/ \E a \in Agents : Reassigns(a) /\ assigning[a] = ReadFree

\* A step of a page, or of time, never takes a live lock from its holder.
LEMMA PagesTakeNoLock ==
  ASSUME LockTypeOK, NEW u \in Agents, Held(u), NEW v \in Agents,
         Tick \/ PageStep(v) \/ AssignSelf(v)
  PROVE  lock'.by = u
<1> USE DEF LockTypeOK, Held
<1>1. CASE Tick
  BY <1>1 DEF Tick, Aged, LockRow
<1>2. CASE LoadLock(v) \/ Poll(v)
  BY <1>2 DEF LoadLock, Poll, Unexpired
<1>3. CASE LoadClaim(v) \/ AssignSelf(v) \/ HeartbeatLock(v)
  BY <1>3 DEF LoadClaim, AssignSelf, HeartbeatLock, Acquired, HeldByOther, FullLease
<1>4. CASE UNCHANGED lock
  BY <1>4
<1>. QED BY <1>1, <1>2, <1>3, <1>4 DEF PageStep, Load, LoadView, LoadTicket, LoadViewers, Leave, HeartbeatViewing

\* A call takes it only with one of the causes.
LEMMA CallsTakeWithCause ==
  ASSUME Inv, NEW u \in Agents, Held(u), lock'.by # u, NEW v \in Agents, CallStep(v)
  PROVE  Cause(u)
<1> USE PeopleAssumption DEF Inv, LockTypeOK, Held, Cause
<1>1. CASE Unlock(v)
  BY <1>1 DEF Unlock, Releases
<1>2. CASE AssignClear(v)
  <2>1. Reassigns(v)
    BY <1>2 DEF AssignClear, Reassigns
  <2>2. ~Conflicts(v)
    BY <1>2 DEF AssignClear
  <2>3. assigning[v] = ReadFree \/ v = u
    BY <1>2, <2>2 DEF AssignClear, Conflicts
  <2>. QED BY <2>1, <2>3
<1>3. CASE ResolveWrite(v)
  <2>1. Decides(v)
    BY <1>3 DEF ResolveWrite, Decides
  <2>2. request[resolving[v].row].target = u
    BY <1>3 DEF ResolveWrite, Freed
  <2>3. v = u \/ v \in Managers
    BY <1>3, <2>2 DEF ResolveWrite, DecisionAuthorised, MayResolve
  <2>. QED BY <2>1, <2>3
<1>4. CASE AssignSelf(v)
  BY <1>4, PagesTakeNoLock
<1>5. CASE UNCHANGED lock
  BY <1>5
<1>. QED BY <1>1, <1>2, <1>3, <1>4, <1>5 DEF CallStep, StopViewing, AssignRead, RequestRelease, ResolveRead

\* A live lock is lost only through its holder, a manager, or an assignment
\* that read the ticket as free (resolveLockReleaseRequest, forceUnlock, the
\* assignment of tickets.routes.ts:745): for every number of agents.
THEOREM LostOnlyWithCause == LockSpec => LockLostWithCause
<1>1. LockInit => DecisionAuthorised
  BY DEF LockInit, DecisionAuthorised
<1>2. Inv /\ [LockNext]_lockVars =>
        (\A u \in Agents : (Held(u) /\ lock'.by # u) => Cause(u))
  <2> SUFFICES ASSUME Inv, [LockNext]_lockVars, NEW u \in Agents, Held(u), lock'.by # u PROVE Cause(u)
    OBVIOUS
  <2>1. CASE Tick
    BY <2>1, PagesTakeNoLock DEF Inv
  <2>2. ASSUME NEW v \in Agents, PageStep(v) PROVE Cause(u)
    BY <2>2, PagesTakeNoLock DEF Inv
  <2>3. ASSUME NEW v \in Agents, CallStep(v) PROVE Cause(u)
    BY <2>3, CallsTakeWithCause
  <2>4. ASSUME NEW m \in Managers, AskForceUnlock(m) \/ ForceUnlock(m) PROVE Cause(u)
    BY <2>4, PeopleAssumption DEF AskForceUnlock, ForceUnlock, Cause, Forces, Held, Inv, LockTypeOK
  <2>5. CASE UNCHANGED lockVars
    BY <2>5 DEF lockVars, Held
  <2>. QED BY <2>1, <2>2, <2>3, <2>4, <2>5 DEF LockNext
<1>3. LockTypeOK /\ DecisionAuthorised /\ [LockNext]_lockVars => DecisionAuthorised'
  BY AuthorityKept
<1>. QED BY <1>1, <1>2, <1>3, LockTypeCorrect, PTL DEF LockSpec, LockLostWithCause, Inv, Cause
=============================================================================
