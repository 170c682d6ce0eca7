----------------------------- MODULE TicketLock -----------------------------
(***************************************************************************)
(* The lock on one ticket, the presence of the agents who look at it, and  *)
(* the requests to give the lock up, with the detail pages that drive      *)
(* them. A lock is a row with an expiry that its holder's page renews. A   *)
(* page loads by a chain of calls, and leaves while the chain may still be *)
(* under way. A handler of several statements takes a step per statement   *)
(* that another one may come between; time passes in ticks of which a lock *)
(* lives LeaseTicks and a presence ViewTicks.                              *)
(***************************************************************************)
EXTENDS Integers, FiniteSets

CONSTANTS
  Agents,      \* users with ticket.write
  Managers,    \* the agents whose role overrides a lock
  ReleaseRequests, \* rows of ticket_lock_release_requests
  LeaseTicks,  \* TICKET_LOCK_TTL_MINUTES
  ViewTicks,   \* TICKET_VIEWER_TTL_MINUTES
  MaxUnderWay, \* bound: an operation starts only while fewer are under way
  NoOne        \* no row, no assignee

ASSUME PeopleAssumption == Managers \subseteq Agents /\ NoOne \notin Agents
ASSUME TicksAssumption == LeaseTicks \in Nat \ {0} /\ ViewTicks \in Nat \ {0} /\ MaxUnderWay \in Nat

VARIABLES
  lock,      \* the row of ticket_locks: who, and what is left of its time
  viewers,   \* rows of ticket_viewers: what is left of each, or Absent
  assignee,  \* tickets.assignee_id
  request,   \* rows of ticket_lock_release_requests, "decided" when approved or denied
  page,      \* is an agent's detail page mounted
  load,      \* the call its load() makes next
  calls,     \* calls on their way that nobody awaits, or that one click makes
  assigning, \* an assignment to somebody else, between reading the lock and clearing it
  resolving  \* a decision, between reading the request and writing it

lockVars == <<lock, viewers, assignee, request, page, load, calls, assigning, resolving>>

Absent == -1
NoLock == [by |-> NoOne, left |-> 0]
NoRequest == [status |-> "none", from |-> NoOne, target |-> NoOne]
NotResolving == [row |-> NoOne, approve |-> FALSE]
ReadFree == "free"
ReadForeign == "foreign"

LockInit ==
  /\ lock = NoLock
  /\ viewers = [u \in Agents |-> Absent]
  /\ assignee \in Agents \cup {NoOne}
  /\ request = [r \in ReleaseRequests |-> NoRequest]
  /\ page = [u \in Agents |-> FALSE]
  /\ load = [u \in Agents |-> "idle"]
  /\ calls = [u \in Agents |-> {}]
  /\ assigning = [u \in Agents |-> "no"]
  /\ resolving = [u \in Agents |-> NotResolving]

-----------------------------------------------------------------------------

\* readLock: the row counts only while its time has not run out
Held(u) == lock.by = u /\ lock.left > 0
HeldByOther(u) == lock.left > 0 /\ lock.by # u

\* DELETE ... WHERE expires_at <= now()
Unexpired(l) == IF l.left > 0 THEN l ELSE NoLock

\* DELETE FROM ticket_viewers WHERE viewing_at < now() - interval '2 minutes'
Fresh(v) == [u \in Agents |-> IF v[u] > 0 THEN v[u] ELSE Absent]

\* The bound on what runs at once: loads, calls, assignments and decisions.
Room ==
  Cardinality({u \in Agents : load[u] # "idle"}) + Cardinality({u \in Agents : calls[u] # {}})
    + Cardinality({u \in Agents : assigning[u] # "no"})
    + Cardinality({u \in Agents : resolving[u] # NotResolving}) < MaxUnderWay

FullLease(u) == [by |-> u, left |-> LeaseTicks]

\* acquireTicketLockOnClient: the lock row after u has asked for it; the unique
\* index lets a row be made where none lives, and renewed only by its holder
Acquired(u) == IF HeldByOther(u) THEN lock ELSE FullLease(u)

-----------------------------------------------------------------------------
(* The pages *)

\* The page mounts and load() starts; it is also what every handler of the
\* page ends with.
Load(u) ==
  /\ Room
  /\ load[u] = "idle"
  /\ page' = [page EXCEPT ![u] = TRUE]
  /\ load' = [load EXCEPT ![u] = "view"]
  /\ UNCHANGED <<lock, viewers, assignee, request, calls, assigning, resolving>>

\* startViewing
LoadView(u) ==
  /\ load[u] = "view"
  /\ viewers' = [Fresh(viewers) EXCEPT ![u] = ViewTicks]
  /\ load' = [load EXCEPT ![u] = "ticket"]
  /\ UNCHANGED <<lock, assignee, request, page, calls, assigning, resolving>>

\* getTicket: only the ticket's assignee goes on to lock it
LoadTicket(u) ==
  /\ load[u] = "ticket"
  /\ load' = [load EXCEPT ![u] = IF assignee = u THEN "lock" ELSE "idle"]
  /\ UNCHANGED <<lock, viewers, assignee, request, page, calls, assigning, resolving>>

\* getTicketLock; an active lock, own or not, ends the matter
LoadLock(u) ==
  /\ load[u] = "lock"
  /\ lock' = Unexpired(lock)
  /\ load' = [load EXCEPT ![u] = IF lock.left > 0 THEN "idle" ELSE "viewers"]
  /\ UNCHANGED <<viewers, assignee, request, page, calls, assigning, resolving>>

\* getViewers; another viewer ends the matter
LoadViewers(u) ==
  /\ load[u] = "viewers"
  /\ viewers' = Fresh(viewers)
  /\ load' = [load EXCEPT ![u] =
       IF \A v \in Agents \ {u} : viewers[v] <= 0 THEN "claim" ELSE "idle"]
  /\ UNCHANGED <<lock, assignee, request, page, calls, assigning, resolving>>

\* lockTicket, which nothing calls off when the page has gone
LoadClaim(u) ==
  /\ load[u] = "claim"
  /\ lock' = Acquired(u)
  /\ load' = [load EXCEPT ![u] = "idle"]
  /\ UNCHANGED <<viewers, assignee, request, page, calls, assigning, resolving>>

\* The page unmounts and sends two calls that it does not await.
Leave(u) ==
  /\ page[u]
  /\ page' = [page EXCEPT ![u] = FALSE]
  /\ calls' = [calls EXCEPT ![u] = @ \cup {"stopViewing", "unlock"}]
  /\ UNCHANGED <<lock, viewers, assignee, request, load, assigning, resolving>>

\* The 25-second timer: heartbeatLock and heartbeatViewing, each of which
\* updates the agent's own row or none.
HeartbeatLock(u) ==
  /\ page[u]
  /\ Held(u)
  /\ lock' = FullLease(u)
  /\ UNCHANGED <<viewers, assignee, request, page, load, calls, assigning, resolving>>

\* the update of a presence does not ask how old it is
HeartbeatViewing(u) ==
  /\ page[u]
  /\ viewers[u] # Absent
  /\ viewers' = [viewers EXCEPT ![u] = ViewTicks]
  /\ UNCHANGED <<lock, assignee, request, page, load, calls, assigning, resolving>>

\* The 3-second poll, and a manager's list of locks: both delete what has expired.
Poll(u) ==
  /\ page[u]
  /\ lock' = Unexpired(lock)
  /\ viewers' = Fresh(viewers)
  /\ UNCHANGED <<assignee, request, page, load, calls, assigning, resolving>>

-----------------------------------------------------------------------------
(* The calls *)

StopViewing(u) ==
  /\ "stopViewing" \in calls[u]
  /\ calls' = [calls EXCEPT ![u] = @ \ {"stopViewing"}]
  /\ viewers' = [viewers EXCEPT ![u] = Absent]
  /\ UNCHANGED <<lock, assignee, request, page, load, assigning, resolving>>

\* DELETE ... WHERE locked_by: an expired row of one's own goes too
Unlock(u) ==
  /\ "unlock" \in calls[u]
  /\ calls' = [calls EXCEPT ![u] = @ \ {"unlock"}]
  /\ lock' = IF lock.by = u THEN NoLock ELSE lock
  /\ UNCHANGED <<viewers, assignee, request, page, load, assigning, resolving>>

\* A manager presses the button that releases the lock.
AskForceUnlock(m) ==
  /\ Room
  /\ page[m]
  /\ lock.left > 0
  /\ calls' = [calls EXCEPT ![m] = @ \cup {"force"}]
  /\ UNCHANGED <<lock, viewers, assignee, request, page, load, assigning, resolving>>

ForceUnlock(m) ==
  /\ "force" \in calls[m]
  /\ calls' = [calls EXCEPT ![m] = @ \ {"force"}]
  /\ lock' = NoLock
  /\ UNCHANGED <<viewers, assignee, request, page, load, assigning, resolving>>

-----------------------------------------------------------------------------
(* POST /tickets/:id/assign *)

\* Claiming takes the lock and the assignment in one transaction, or neither.
AssignSelf(u) ==
  /\ page[u]
  /\ ~HeldByOther(u)
  /\ lock' = FullLease(u)
  /\ assignee' = u
  /\ UNCHANGED <<viewers, request, page, load, calls, assigning, resolving>>

\* Assigning to another or to nobody reads the lock first.
AssignRead(u) ==
  /\ Room
  /\ page[u]
  /\ assigning[u] = "no"
  /\ assigning' = [assigning EXCEPT ![u] =
       IF HeldByOther(u) /\ u \notin Managers THEN ReadForeign ELSE ReadFree]
  /\ UNCHANGED <<lock, viewers, assignee, request, page, load, calls, resolving>>

\* What was read as another's lock is asked for; now() is the transaction's,
\* so a row still there still counts as live.
Conflicts(u) == assigning[u] = ReadForeign /\ lock.by \notin {u, NoOne}

\* DELETE FROM ticket_locks WHERE ticket_id, whosever it is by now
AssignClear(u) ==
  /\ assigning[u] # "no"
  /\ assigning' = [assigning EXCEPT ![u] = "no"]
  /\ \/ Conflicts(u) /\ UNCHANGED <<lock, assignee>>
     \/ /\ ~Conflicts(u)
        /\ lock' = NoLock
        /\ assignee' \in (Agents \cup {NoOne}) \ {u}
  /\ UNCHANGED <<viewers, request, page, load, calls, resolving>>

-----------------------------------------------------------------------------
(* Requests to release the lock *)

\* Whom a request of u is for: the holder, or else the latest active viewer.
Latest(v, u) == \A w \in Agents \ {u} : viewers[w] <= viewers[v]
Targets(u) ==
  IF lock.left > 0 THEN {lock.by}
  ELSE {v \in Agents \ {u} : viewers[v] > 0 /\ Latest(v, u)}

\* One pending row per requester: a repetition keeps the row and its target.
RequestRelease(u) ==
  /\ page[u]
  /\ ~Held(u)
  /\ \A r \in ReleaseRequests : ~(request[r].status = "pending" /\ request[r].from = u)
  /\ \E r \in ReleaseRequests, t \in Targets(u) :
       /\ request[r].status = "none"
       /\ request' = [request EXCEPT ![r] = [status |-> "pending", from |-> u, target |-> t]]
  /\ UNCHANGED <<lock, viewers, assignee, page, load, calls, assigning, resolving>>

MayResolve(u, r) == request[r].target = u \/ u \in Managers

\* Only the target or a manager, and only while the row is pending.
ResolveRead(u, r) ==
  /\ Room
  /\ page[u]
  /\ resolving[u] = NotResolving
  /\ request[r].status = "pending"
  /\ MayResolve(u, r)
  /\ \E approve \in BOOLEAN :
       resolving' = [resolving EXCEPT ![u] = [row |-> r, approve |-> approve]]
  /\ UNCHANGED <<lock, viewers, assignee, request, page, load, calls, assigning>>

\* Mutant: the DELETE without "locked_by = $2".
FreedAlways(r) == NoLock

\* An approval deletes the target's lock, and no other's.
Freed(r) == IF lock.by = request[r].target THEN NoLock ELSE lock

\* UPDATE ... WHERE id, whatever the row's status has become, then the deletions
ResolveWrite(u) ==
  /\ resolving[u] # NotResolving
  /\ LET r == resolving[u].row
         approve == resolving[u].approve
     IN  /\ request' = [request EXCEPT ![r].status = "decided"]
         /\ lock' = IF approve THEN Freed(r) ELSE lock
         /\ viewers' = IF approve THEN [viewers EXCEPT ![request[r].target] = Absent] ELSE viewers
  /\ resolving' = [resolving EXCEPT ![u] = NotResolving]
  /\ UNCHANGED <<assignee, page, load, calls, assigning>>

-----------------------------------------------------------------------------

\* Mutant: a lock without an expiry.
AgedNever(l) == l

\* Mutant: a time that has run out goes on running.
AgedAnyway(l) == [l EXCEPT !.left = @ - 1]

Aged(l) == IF l.left > 0 THEN [l EXCEPT !.left = @ - 1] ELSE l

\* Time passes.
Tick ==
  /\ lock.left > 0 \/ \E u \in Agents : viewers[u] > 0
  /\ lock' = Aged(lock)
  /\ viewers' = [u \in Agents |-> IF viewers[u] > 0 THEN viewers[u] - 1 ELSE viewers[u]]
  /\ UNCHANGED <<assignee, request, page, load, calls, assigning, resolving>>

PageStep(u) ==
  \/ Load(u) \/ LoadView(u) \/ LoadTicket(u) \/ LoadLock(u) \/ LoadViewers(u) \/ LoadClaim(u)
  \/ Leave(u) \/ HeartbeatLock(u) \/ HeartbeatViewing(u) \/ Poll(u)

CallStep(u) ==
  \/ StopViewing(u) \/ Unlock(u)
  \/ AssignSelf(u) \/ AssignRead(u) \/ AssignClear(u)
  \/ RequestRelease(u) \/ ResolveWrite(u)
  \/ \E r \in ReleaseRequests : ResolveRead(u, r)

LockNext ==
  \/ Tick
  \/ \E u \in Agents : PageStep(u) \/ CallStep(u)
  \/ \E m \in Managers : AskForceUnlock(m) \/ ForceUnlock(m)

LockSpec == LockInit /\ [][LockNext]_lockVars

\* Nothing but the passage of time is sure to happen.
LockFairSpec == LockSpec /\ WF_lockVars(Tick)

-----------------------------------------------------------------------------
(* Properties *)

\* Every variable has its type; a row of ticket_locks is an agent's, and what
\* a decision is about to write was read from a request that was made.
LockRow == [by : Agents \cup {NoOne}, left : 0..LeaseTicks]
RequestRow ==
  [status : {"none", "pending", "decided"},
   from : Agents \cup {NoOne}, target : Agents \cup {NoOne}]
LockTypeOK ==
  /\ lock \in LockRow
  /\ lock.by = NoOne => lock.left = 0
  /\ viewers \in [Agents -> {Absent} \cup 0..ViewTicks]
  /\ assignee \in Agents \cup {NoOne}
  /\ request \in [ReleaseRequests -> RequestRow]
  /\ page \in [Agents -> BOOLEAN]
  /\ load \in [Agents -> {"idle", "view", "ticket", "lock", "viewers", "claim"}]
  /\ calls \in [Agents -> SUBSET {"stopViewing", "unlock", "force"}]
  /\ assigning \in [Agents -> {"no", ReadFree, ReadForeign}]
  /\ resolving \in [Agents -> [row : ReleaseRequests \cup {NoOne}, approve : BOOLEAN]]

\* The step of a, seen in what it finishes.
Releases(a) == "unlock" \in calls[a] /\ "unlock" \notin calls'[a]
Forces(a) == "force" \in calls[a] /\ "force" \notin calls'[a]
Decides(a) == resolving[a] # NotResolving /\ resolving'[a] = NotResolving
Reassigns(a) == assigning[a] # "no" /\ assigning'[a] = "no"

\* locks.routes.ts:48 "A second agent receives a clear conflict instead of
\* silently taking over the ticket". A live lock is lost only when its time is
\* up, by its holder's own call, by a manager, or by an assignment that read
\* the ticket as free: whatever the order of two agents' claims, assignments,
\* requests and decisions, no other call of another agent takes it.
LockLostWithCause ==
  [][\A u \in Agents : (Held(u) /\ lock'.by # u) =>
        \/ Releases(u)
        \/ \E a \in {u} \cup Managers : Forces(a) \/ Decides(a) \/ Reassigns(a)
        \/ \E a \in Agents : Reassigns(a) /\ assigning[a] = ReadFree]_lockVars

\* TicketDetailPage.tsx:579 fears "an orphaned lock". An agent who has
\* left for good holds no lock in the end, though a load that was under way may
\* take the lock after the page's unlock has been served.
LeftTicketIsFreed ==
  \A u \in Agents : (<>[](~page[u])) => <>[](~Held(u))
=============================================================================
