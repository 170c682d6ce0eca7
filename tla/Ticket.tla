------------------------------- MODULE Ticket -------------------------------
(***************************************************************************)
(* One ticket, and everything in the API that moves its status: staff and  *)
(* portal routes, inbound mail, the escalation scheduler, AI triage and    *)
(* the AI worker, merges, bulk edits and major incidents; and the SLA      *)
(* scheduler that watches its two clocks.                                  *)
(*                                                                         *)
(* Every handler is one READ COMMITTED transaction.  One that reads the    *)
(* ticket, decides, and then updates it by id is two steps of a REQUEST:   *)
(* nothing stops another transaction from committing in between.  A        *)
(* handler that is a single UPDATE, or that takes the row FOR UPDATE, is   *)
(* one step.                                                               *)
(***************************************************************************)
EXTENDS Naturals, FiniteSets

CONSTANTS
  Requests,    \* handlers in flight at once
  Policies,    \* enabled escalation policies: [source, target]
  MaxRearms    \* bound: priority edits that re-arm the SLA clocks

\* TICKET_STATUSES; in_progress and pending_vendor behave as "open" does.
Statuses == {"new", "open", "pending_user", "escalated", "resolved", "closed"}

\* TERMINAL_STATUSES
Finished == {"resolved", "closed"}

\* The SLA clocks: first response and resolution.
Clocks == {"response", "resolution"}

ASSUME PoliciesAssumption ==
  Policies \subseteq [source : Statuses, target : Statuses]

ASSUME RearmsAssumption == MaxRearms \in Nat

VARIABLES
  status,      \* tickets.status
  resolvedAt,  \* tickets.resolved_at IS NOT NULL
  closedAt,    \* tickets.closed_at IS NOT NULL
  stuck,       \* status_changed_at is older than every policy's trigger time
  responded,   \* tickets.first_response_at IS NOT NULL
  pastDue,     \* clocks whose due_..._at has passed
  breached,    \* clocks whose sla_..._breached is true
  workerDone,  \* the ticket has an ai_worker_runs row with status 'resolved'
  req,         \* handlers in flight: what they do, and the status they will write
  events,      \* history: sla_..._breached events written, per clock
  rearms,      \* history: priority edits so far
  plain        \* history: the status was written last by an UPDATE that
               \* leaves resolved_at and closed_at out of a finished status

row == <<status, resolvedAt, closedAt, stuck>>
sla == <<responded, pastDue, breached, workerDone, events, rearms>>
vars == <<row, sla, req, plain>>

Idle == [op |-> "idle", to |-> "new"]

Init ==
  /\ status = "new"
  /\ resolvedAt = FALSE
  /\ closedAt = FALSE
  /\ stuck = FALSE
  /\ responded = FALSE
  /\ pastDue = {}
  /\ breached = {}
  /\ workerDone = FALSE
  /\ req = [q \in Requests |-> Idle]
  /\ events = [c \in Clocks |-> 0]
  /\ rearms = 0
  /\ plain = FALSE

-----------------------------------------------------------------------------
(* Reads.  Each handler's early returns are its guard. *)

Begin(q, op, to) ==
  /\ req[q].op = "idle"
  /\ req' = [req EXCEPT ![q] = [op |-> op, to |-> to]]
  /\ UNCHANGED <<row, sla, plain>>

\* POST /tickets/:id/status
BeginStatus(q, to) == status # to /\ Begin(q, "status", to)

\* POST /tickets/:id/reply, with no first response yet
BeginReply(q) == ~responded /\ Begin(q, "reply", "open")

\* PATCH /tickets/:id with another priority
BeginPriority(q) ==
  /\ rearms + Cardinality({p \in Requests : req[p].op = "priority"}) < MaxRearms
  /\ Begin(q, "priority", status)

\* POST /portal/tickets/:number/reply to a ticket that waits for the requester
BeginPortalReply(q) == status = "pending_user" /\ Begin(q, "portal_reply", "open")

\* POST /portal/tickets/:number/resolve
BeginPortalResolve(q) == status \notin Finished /\ Begin(q, "portal_resolve", "resolved")

\* A reply by mail to a finished ticket; the read is a transaction of its own.
BeginEmail(q) == status \in Finished /\ Begin(q, "email", "open")

\* escalateTicket
BeginEscalate(q) == status \notin Finished /\ Begin(q, "escalate", "escalated")

\* Mutant: a policy picks finished tickets too.
CandidateAny(p) == status = p.source /\ stuck

\* applyPolicy: the ticket has been in the source status long enough.  The
\* test for an escalation later than status_changed_at is left out: the
\* scheduler writes both with one now(), so it almost never excludes anything.
Candidate(p) == status = p.source /\ stuck /\ status \notin Finished

BeginPolicy(q, p) == Candidate(p) /\ Begin(q, "policy", p.target)

\* runTicketTriage claims an unfinished ticket nobody is evaluating, and then
\* asks the model; status is read again when the answer is there.
BeginTriage(q) ==
  /\ status \notin Finished
  /\ \A p \in Requests : req[p].op # "triage"
  /\ Begin(q, "triage", "resolved")

-----------------------------------------------------------------------------
(* Writes, by id and whatever the ticket says now *)

Ended(q) == req' = [req EXCEPT ![q] = Idle]

Writing(q, op) == req[q].op = op /\ Ended(q) /\ plain' = FALSE

\* Mutant: the stamp is only kept, never set.
StampFinishKept(to) ==
  /\ resolvedAt' = (to \in Finished /\ resolvedAt)
  /\ closedAt' = (to = "closed")

\* resolved_at is kept or set for a finished status and cleared for another.
StampFinish(to) ==
  /\ resolvedAt' = (to \in Finished)
  /\ closedAt' = (to = "closed")

WriteStatus(q) ==
  /\ Writing(q, "status")
  /\ status' = req[q].to
  /\ StampFinish(req[q].to)
  /\ stuck' = FALSE
  /\ UNCHANGED sla

\* The status column is left alone unless it is 'new' at the write.
WriteReply(q) ==
  /\ req[q].op = "reply"
  /\ Ended(q)
  /\ responded' = TRUE
  /\ status' = IF status = "new" THEN "open" ELSE status
  /\ UNCHANGED <<resolvedAt, closedAt, stuck, pastDue, breached, workerDone,
                 events, rearms, plain>>

\* The clocks start again and both breach flags are cleared.
WritePriority(q) ==
  /\ req[q].op = "priority"
  /\ Ended(q)
  /\ pastDue' = {}
  /\ breached' = {}
  /\ rearms' = rearms + 1
  /\ UNCHANGED <<row, responded, workerDone, events, plain>>

WritePortalReply(q) ==
  /\ Writing(q, "portal_reply")
  /\ status' = "open"
  /\ UNCHANGED <<resolvedAt, closedAt, stuck, sla>>

WritePortalResolve(q) ==
  /\ Writing(q, "portal_resolve")
  /\ status' = "resolved"
  /\ resolvedAt' = TRUE
  /\ UNCHANGED <<closedAt, stuck, sla>>

WriteEmail(q) ==
  /\ Writing(q, "email")
  /\ status' = "open"
  /\ resolvedAt' = FALSE
  /\ closedAt' = FALSE
  /\ UNCHANGED <<stuck, sla>>

WriteEscalate(q) ==
  /\ Writing(q, "escalate")
  /\ status' = "escalated"
  /\ stuck' = FALSE
  /\ UNCHANGED <<resolvedAt, closedAt, sla>>

WritePolicy(q) ==
  /\ req[q].op = "policy"
  /\ Ended(q)
  /\ plain' = TRUE
  /\ status' = req[q].to
  /\ stuck' = FALSE
  /\ UNCHANGED <<resolvedAt, closedAt, sla>>

\* The model's answer, under FOR UPDATE: a confident resolution, or a handoff.
TriageResolve(q) ==
  /\ Writing(q, "triage")
  /\ status' = "resolved"
  /\ resolvedAt' = TRUE
  /\ UNCHANGED <<closedAt, stuck, sla>>

TriageHandoff(q) ==
  /\ status = "pending_user"
  /\ Writing(q, "triage")
  /\ status' = "open"
  /\ UNCHANGED <<resolvedAt, closedAt, stuck, sla>>

\* An error, or the loss of the connection, rolls the transaction back; a
\* triage turn may end with a question or be stopped.
Rollback(q) ==
  /\ req[q].op # "idle"
  /\ Ended(q)
  /\ UNCHANGED <<row, sla, plain>>

-----------------------------------------------------------------------------
(* Handlers that are one statement, or hold the row while they decide *)

\* applyResolve of the AI worker; the run becomes 'resolved' with it.
WorkerResolve ==
  /\ status' = "resolved"
  /\ resolvedAt' = TRUE
  /\ workerDone' = TRUE
  /\ plain' = FALSE
  /\ UNCHANGED <<closedAt, stuck, responded, pastDue, breached, events, rearms, req>>

\* mergeTickets, of a duplicate: no resolved_at.
Merge ==
  /\ status' = "closed"
  /\ closedAt' = TRUE
  /\ stuck' = FALSE
  /\ plain' = TRUE
  /\ UNCHANGED <<resolvedAt, sla, req>>

\* bulkUpdateTickets: the status alone.
BulkStatus(to) ==
  /\ status' = to
  /\ plain' = TRUE
  /\ UNCHANGED <<resolvedAt, closedAt, stuck, sla, req>>

\* Mutant: the ticket takes the incident's own status.
IncidentStatusRaw(to) ==
  /\ to \in {"resolved", "open"}
  /\ status' = "investigating"
  /\ plain' = TRUE
  /\ UNCHANGED <<resolvedAt, closedAt, stuck, sla, req>>

\* updateIncident: the ticket of a major incident follows it.
IncidentStatus(to) ==
  /\ to \in {"resolved", "open"}
  /\ status' = to
  /\ plain' = TRUE
  /\ UNCHANGED <<resolvedAt, closedAt, stuck, sla, req>>

-----------------------------------------------------------------------------
(* Time and the SLA scheduler *)

StatusAges ==
  /\ ~stuck
  /\ stuck' = TRUE
  /\ UNCHANGED <<status, resolvedAt, closedAt, sla, req, plain>>

ClockRunsOut(c) ==
  /\ c \notin pastDue
  /\ pastDue' = pastDue \cup {c}
  /\ UNCHANGED <<row, responded, breached, workerDone, events, rearms, req, plain>>

\* Mutant: the sweep takes no notice of what it has already reported.
OverdueAgain(c) ==
  /\ c \in pastDue
  /\ status \notin Finished
  /\ IF c = "response" THEN ~responded ELSE ~resolvedAt /\ ~workerDone

\* The predicate of the two UPDATEs of checkBreachesForTenant.
Overdue(c) ==
  /\ c \notin breached
  /\ c \in pastDue
  /\ status \notin Finished
  /\ IF c = "response" THEN ~responded ELSE ~resolvedAt /\ ~workerDone

\* The two UPDATE ... RETURNING of a tenant's sweep, and the events of the
\* tickets they return, in one transaction.
Sweep ==
  /\ \E c \in Clocks : Overdue(c)
  /\ breached' = breached \cup {c \in Clocks : Overdue(c)}
  /\ events' = [c \in Clocks |-> IF Overdue(c) THEN events[c] + 1 ELSE events[c]]
  /\ UNCHANGED <<row, responded, pastDue, workerDone, rearms, req, plain>>

-----------------------------------------------------------------------------

Reads(q) ==
  \/ \E to \in Statuses : BeginStatus(q, to)
  \/ BeginReply(q)
  \/ BeginPriority(q)
  \/ BeginPortalReply(q)
  \/ BeginPortalResolve(q)
  \/ BeginEmail(q)
  \/ BeginEscalate(q)
  \/ \E p \in Policies : BeginPolicy(q, p)
  \/ BeginTriage(q)

Writes(q) ==
  \/ WriteStatus(q)
  \/ WriteReply(q)
  \/ WritePriority(q)
  \/ WritePortalReply(q)
  \/ WritePortalResolve(q)
  \/ WriteEmail(q)
  \/ WriteEscalate(q)
  \/ WritePolicy(q)
  \/ TriageResolve(q)
  \/ TriageHandoff(q)

Next ==
  \/ \E q \in Requests : Reads(q) \/ Writes(q) \/ Rollback(q)
  \/ WorkerResolve
  \/ Merge
  \/ \E to \in Statuses : BulkStatus(to) \/ IncidentStatus(to)
  \/ StatusAges
  \/ \E c \in Clocks : ClockRunsOut(c)
  \/ Sweep

Spec == Init /\ [][Next]_vars

-----------------------------------------------------------------------------
(* Properties *)

Operations == {"status", "reply", "priority", "portal_reply", "portal_resolve",
               "email", "escalate", "policy", "triage"}

TypeOK ==
  /\ status \in Statuses
  /\ resolvedAt \in BOOLEAN
  /\ closedAt \in BOOLEAN
  /\ stuck \in BOOLEAN
  /\ responded \in BOOLEAN
  /\ pastDue \subseteq Clocks
  /\ breached \subseteq Clocks
  /\ workerDone \in BOOLEAN
  /\ req \in [Requests -> [op : Operations \cup {"idle"}, to : Statuses]]
  /\ events \in [Clocks -> Nat]
  /\ rearms \in Nat
  /\ plain \in BOOLEAN

\* Reports and the SLA scheduler read resolved_at and closed_at, so a finished
\* ticket carries them however its handlers interleave.  It does, unless the
\* write that finished it was a merge's, a bulk edit's, an incident's, or a
\* policy's whose target is a finished status: these leave columns out.
FinishedIsStamped ==
  plain \/ /\ status \in Finished => resolvedAt
           /\ status = "closed" => closedAt

\* Sweeps, late answers and priority edits in any order neither repeat nor lose
\* the report of a breach: a flag that is up has been reported and belongs to
\* the present deadline, and there is at most one report for each time the
\* clock was armed.
BreachReportedOncePerArming ==
  \A c \in Clocks :
    /\ events[c] <= rearms + 1
    /\ c \in breached => c \in pastDue /\ events[c] > 0
=============================================================================
