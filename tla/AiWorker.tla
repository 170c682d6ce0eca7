------------------------------ MODULE AiWorker ------------------------------
(***************************************************************************)
(* The AI support worker (apps/api/src/modules/ai-worker): runs planned by *)
(* a language model, executed step by step, gated by human approval, and   *)
(* resumed when the endpoint agent reports the result of a device action.  *)
(*                                                                         *)
(* Every operation of the engine is a chain of database transactions with  *)
(* awaits between them; nothing holds a lock across two of them.  A TASK   *)
(* is one such chain (an HTTP handler and the promise it leaves running);  *)
(* one action of the model is one transaction of one task.                 *)
(*                                                                         *)
(* One ticket and its linked device are modelled; a run without a device   *)
(* has the device tools behave as "read" (they return `skipped').  What    *)
(* the model answers is left open: any plan of Plans, no plan, and either  *)
(* final decision.                                                         *)
(***************************************************************************)
EXTENDS Naturals, Sequences, FiniteSets

CONSTANTS
  Runs,          \* identifiers of rows of ai_worker_runs
  Tasks,         \* identifiers of chains of awaits in flight at once
  Plans,         \* the validated step lists the model may answer with
  MaxActions,    \* bound: rows of device_actions
  MaxApprovals,  \* bound: approvals technicians send for one run
  MaxChanges,    \* bound: changes of the tenant's worker policy
  MaxFaults      \* bound: process restarts and rejected promises

Tools == {"read", "script", "restart", "resolve", "handoff"}

\* Tools a tenant policy may put behind an approval: restart unless
\* autoApproveRestart, ticket.resolve when requireApprovalForResolve.
Gateable == {"restart", "resolve"}

ASSUME PlansAssumption ==
  /\ Plans \subseteq Seq(Tools)
  /\ \A p \in Plans : p # << >>

ASSUME RunsAssumption == "none" \notin Runs

ASSUME TasksAssumption == IsFiniteSet(Tasks)

ASSUME BoundsAssumption ==
  /\ MaxActions \in Nat
  /\ MaxApprovals \in Nat
  /\ MaxChanges \in Nat
  /\ MaxFaults \in Nat

VARIABLES
  run,        \* ai_worker_runs: status and steps of each row
  task,       \* the chains in flight, each with the copies it read
  action,     \* device_actions inserted by the worker, in order
  gated,      \* settings.ai_workers of the tenant: the tools that need approval
  ticketOpen, \* the ticket's status is neither resolved nor closed
  granted,    \* history: approvals written for the steps of each run
  calls,      \* history: committed tool calls of each step of each run
  spent       \* policy changes and faults so far (bounds)

vars == <<run, task, action, gated, ticketOpen, granted, calls, spent>>

StepIx == UNION {DOMAIN p : p \in Plans}

\* The statuses that count as an active run ('queued' is never written).
Active == {"running", "waiting_approval", "waiting_action"}

Idle == [pc |-> "idle", run |-> "none", planning |-> FALSE, gated |-> {},
         steps |-> << >>, at |-> 0, action |-> 0]

Init ==
  /\ run = [r \in Runs |-> [status |-> "none", steps |-> << >>]]
  /\ task = [t \in Tasks |-> Idle]
  /\ action = << >>
  /\ gated \in SUBSET Gateable
  /\ ticketOpen = TRUE
  /\ granted = [r \in Runs |-> 0]
  /\ calls = [r \in Runs |-> [i \in StepIx |-> 0]]
  /\ spent = [changes |-> 0, faults |-> 0]

-----------------------------------------------------------------------------
(* Helpers *)

Unfinished(steps) ==
  {i \in DOMAIN steps : steps[i].status \in {"pending", "awaiting_approval"}}

First(S) == CHOOSE i \in S : \A j \in S : i <= j

AllSucceeded(steps) == \A i \in DOMAIN steps : steps[i].status = "succeeded"

\* writeRunSteps: steps and status of the row, whatever the row says now.
WriteRow(r, steps, status) ==
  run' = [run EXCEPT ![r] = [status |-> status, steps |-> steps]]

\* UPDATE ... SET status, whatever the row says now.
WriteStatus(r, status) == run' = [run EXCEPT ![r].status = status]

Goto(t, pc) == task' = [task EXCEPT ![t].pc = pc]

End(t) == task' = [task EXCEPT ![t] = Idle]

At(t, pc) == task[t].pc = pc

\* The step a task is working on, in the copy it holds.
Current(t) == task[t].steps[task[t].at]

-----------------------------------------------------------------------------
(* createWorkerRun: three transactions *)

\* loadTicketContext and the check that the ticket is open.
CreateReadTicket(t) ==
  /\ At(t, "idle")
  /\ ticketOpen
  /\ \E r \in Runs : run[r].status = "none"
  /\ Goto(t, "check_active")
  /\ UNCHANGED <<run, action, gated, ticketOpen, granted, calls, spent>>

\* SELECT 1 ... status IN (active): a conflict ends the request.
CreateCheckActive(t) ==
  /\ At(t, "check_active")
  /\ IF \E r \in Runs : run[r].status \in Active THEN End(t) ELSE Goto(t, "insert")
  /\ UNCHANGED <<run, action, gated, ticketOpen, granted, calls, spent>>

\* INSERT ... 'running', then the first planning turn is left running.
CreateInsert(t, r) ==
  /\ At(t, "insert")
  /\ run[r].status = "none"
  /\ WriteRow(r, << >>, "running")
  /\ task' = [task EXCEPT ![t].pc = "advance", ![t].run = r, ![t].planning = TRUE]
  /\ UNCHANGED <<action, gated, ticketOpen, granted, calls, spent>>

-----------------------------------------------------------------------------
(* advanceRun and planRun *)

\* loadPolicy and SELECT ... FOR UPDATE; the lock ends with the read.
AdvanceRun(t) ==
  /\ At(t, "advance")
  /\ LET row == run[task[t].run]
     IN  IF row.status \in {"running", "waiting_action"}
         THEN task' = [task EXCEPT
                 ![t].pc = IF task[t].planning THEN "plan" ELSE "exec",
                 ![t].gated = gated, ![t].steps = row.steps]
         ELSE End(t)
  /\ UNCHANGED <<run, action, gated, ticketOpen, granted, calls, spent>>

\* The model fails, answers nonsense, or every step fails validation.
PlanUnusable(t) ==
  /\ At(t, "plan")
  /\ WriteStatus(task[t].run, "handoff")
  /\ End(t)
  /\ UNCHANGED <<action, gated, ticketOpen, granted, calls, spent>>

PlanRun(t, p) ==
  /\ At(t, "plan")
  /\ LET steps == [i \in DOMAIN p |-> [tool |-> p[i], status |-> "pending",
                                        approved |-> FALSE, action |-> 0]]
     IN  /\ WriteRow(task[t].run, steps, "running")
         /\ task' = [task EXCEPT ![t].pc = "exec", ![t].steps = steps]
  /\ UNCHANGED <<action, gated, ticketOpen, granted, calls, spent>>

-----------------------------------------------------------------------------
(* execStep *)

\* Mutant: ticket.resolve is never gated.
RestartOnly(t, step) ==
  step.status = "pending" /\ step.tool \in task[t].gated \cap {"restart"}

\* The approval gate, under the policy the chain read.
NeedsApproval(t, step) == step.status = "pending" /\ step.tool \in task[t].gated

\* A gated step that is still pending goes to the approvers.
ExecAskApproval(t) ==
  /\ At(t, "exec")
  /\ Unfinished(task[t].steps) # {}
  /\ LET s == task[t].steps
         i == First(Unfinished(s))
     IN  /\ NeedsApproval(t, s[i])
         /\ WriteRow(task[t].run, [s EXCEPT ![i].status = "awaiting_approval"],
                     "waiting_approval")
  /\ End(t)
  /\ UNCHANGED <<action, gated, ticketOpen, granted, calls, spent>>

\* Every other unfinished step, one awaiting approval included, starts.
ExecStart(t) ==
  /\ At(t, "exec")
  /\ Unfinished(task[t].steps) # {}
  /\ LET s == task[t].steps
         i == First(Unfinished(s))
         started == [s EXCEPT ![i].status = "running"]
     IN  /\ ~NeedsApproval(t, s[i])
         /\ WriteRow(task[t].run, started, "running")
         /\ task' = [task EXCEPT ![t].pc = "tool", ![t].steps = started, ![t].at = i]
  /\ UNCHANGED <<action, gated, ticketOpen, granted, calls, spent>>

\* tool.run in a transaction of its own: device tools insert a device
\* action, ticket.resolve resolves the ticket.
ExecTool(t) ==
  /\ At(t, "tool")
  /\ LET r == task[t].run
         i == task[t].at
         tool == Current(t).tool
         device == tool \in {"script", "restart"}
         n == IF device THEN Len(action) + 1 ELSE 0
     IN  /\ n <= MaxActions
         /\ action' = IF device
                      THEN Append(action, [run |-> r, step |-> i, status |-> "pending"])
                      ELSE action
         /\ ticketOpen' = (ticketOpen /\ tool # "resolve")
         /\ calls' = [calls EXCEPT ![r][i] = @ + 1]
         /\ task' = [task EXCEPT ![t].pc = "record",
                       ![t].steps = [@ EXCEPT ![i].status = "succeeded", ![i].action = n]]
  /\ UNCHANGED <<run, gated, granted, spent>>

\* tool.run throws and its transaction is rolled back.
ExecToolThrows(t) ==
  /\ At(t, "tool")
  /\ task' = [task EXCEPT ![t].pc = "record",
                ![t].steps[task[t].at].status = "failed"]
  /\ UNCHANGED <<run, action, gated, ticketOpen, granted, calls, spent>>

\* Mutant: a failed step ends the chain without handRun.
ExecRecordDropped(t) ==
  /\ At(t, "record")
  /\ WriteRow(task[t].run, task[t].steps, "running")
  /\ CASE Current(t).status = "failed" -> End(t)
       [] Current(t).status # "failed" /\ Current(t).action # 0 -> Goto(t, "dispatch")
       [] OTHER -> Goto(t, "exec")
  /\ UNCHANGED <<action, gated, ticketOpen, granted, calls, spent>>

\* The outcome is written with status 'running'; a failure goes on to
\* handRun, a device action to the waiting status, anything else to the
\* next step.
ExecRecord(t) ==
  /\ At(t, "record")
  /\ WriteRow(task[t].run, task[t].steps, "running")
  /\ Goto(t, CASE Current(t).status = "failed" -> "hand"
               [] Current(t).status # "failed" /\ Current(t).action # 0 -> "dispatch"
               [] OTHER -> "exec")
  /\ UNCHANGED <<action, gated, ticketOpen, granted, calls, spent>>

\* Mutant: the waiting status is written before the step is.
ExecDispatchEarly(t) ==
  /\ At(t, "dispatch")
  /\ WriteStatus(task[t].run, "waiting_action")
  /\ End(t)
  /\ UNCHANGED <<action, gated, ticketOpen, granted, calls, spent>>

\* The step is marked dispatched and the run waits for the agent.
ExecDispatch(t) ==
  /\ At(t, "dispatch")
  /\ WriteRow(task[t].run, [task[t].steps EXCEPT ![task[t].at].status = "dispatched"],
              "waiting_action")
  /\ End(t)
  /\ UNCHANGED <<action, gated, ticketOpen, granted, calls, spent>>

\* handRun, after a failed and after a denied step.
HandRun(t) ==
  /\ At(t, "hand")
  /\ WriteStatus(task[t].run, "handoff")
  /\ End(t)
  /\ UNCHANGED <<action, gated, ticketOpen, granted, calls, spent>>

-----------------------------------------------------------------------------
(* finalizeRun: ticket and run row change in one transaction *)

\* The first terminal tool of the plan; "none" leaves the decision to the
\* model's declared outcome or its answer to a last question.
Terminal(steps) ==
  LET ends == {i \in DOMAIN steps : steps[i].tool \in {"resolve", "handoff"}}
  IN  IF ends = {} THEN "none" ELSE steps[First(ends)].tool

\* applyResolve: the plan's own ticket.resolve, or the model's decision.
FinalizeResolve(t) ==
  /\ At(t, "exec")
  /\ Unfinished(task[t].steps) = {}
  /\ AllSucceeded(task[t].steps)
  /\ Terminal(task[t].steps) # "handoff"
  /\ ticketOpen' = FALSE
  /\ WriteStatus(task[t].run, "resolved")
  /\ End(t)
  /\ UNCHANGED <<action, gated, granted, calls, spent>>

\* applyHandoff: the plan's ticket.handoff, a step that did not succeed, or
\* the model's decision.
FinalizeHandoff(t) ==
  /\ At(t, "exec")
  /\ Unfinished(task[t].steps) = {}
  /\ ~(AllSucceeded(task[t].steps) /\ Terminal(task[t].steps) = "resolve")
  /\ WriteStatus(task[t].run, "handoff")
  /\ End(t)
  /\ UNCHANGED <<action, gated, ticketOpen, granted, calls, spent>>

-----------------------------------------------------------------------------
(* approveWorkerStep, denyWorkerStep, cancelWorkerRun *)

AwaitingSteps(steps) == {i \in DOMAIN steps : steps[i].status = "awaiting_approval"}

\* SELECT ... FOR UPDATE in a transaction of its own, and the two checks.
ReadAwaiting(t, r, pc) ==
  /\ At(t, "idle")
  /\ run[r].status = "waiting_approval"
  /\ AwaitingSteps(run[r].steps) # {}
  /\ task' = [task EXCEPT ![t] = [Idle EXCEPT
                 !.pc = pc, !.run = r, !.steps = run[r].steps,
                 !.at = First(AwaitingSteps(run[r].steps))]]

ApproveRead(t, r) ==
  /\ ReadAwaiting(t, r, "approve")
  /\ granted[r] + Cardinality({u \in Tasks : At(u, "approve")}) < MaxApprovals
  /\ UNCHANGED <<run, action, gated, ticketOpen, granted, calls, spent>>

\* The step goes back to pending, with the approver's name, and the run is
\* advanced.
ApproveWrite(t) ==
  /\ At(t, "approve")
  /\ LET steps == [task[t].steps EXCEPT ![task[t].at].status = "pending",
                                         ![task[t].at].approved = TRUE]
     IN  WriteRow(task[t].run, steps, "running")
  /\ granted' = [granted EXCEPT ![task[t].run] = @ + 1]
  /\ task' = [task EXCEPT ![t] = [Idle EXCEPT !.pc = "advance", !.run = task[t].run]]
  /\ UNCHANGED <<action, gated, ticketOpen, calls, spent>>

DenyRead(t, r) ==
  /\ ReadAwaiting(t, r, "deny")
  /\ UNCHANGED <<run, action, gated, ticketOpen, granted, calls, spent>>

DenyWrite(t) ==
  /\ At(t, "deny")
  /\ WriteRow(task[t].run,
              [task[t].steps EXCEPT ![task[t].at].status = "denied",
                                    ![task[t].at].approved = TRUE], "running")
  /\ Goto(t, "hand")
  /\ UNCHANGED <<action, gated, ticketOpen, granted, calls, spent>>

\* A single conditional UPDATE.
CancelWorkerRun(r) ==
  /\ run[r].status \in Active
  /\ WriteStatus(r, "cancelled")
  /\ UNCHANGED <<task, action, gated, ticketOpen, granted, calls, spent>>

-----------------------------------------------------------------------------
(* The endpoint agent, and resumeWorkerRun *)

\* pendingActionsForDevice: everything pending is marked dispatched.
AgentPoll ==
  /\ \E a \in DOMAIN action : action[a].status = "pending"
  /\ action' = [a \in DOMAIN action |->
                  IF action[a].status = "pending"
                  THEN [action[a] EXCEPT !.status = "dispatched"] ELSE action[a]]
  /\ UNCHANGED <<run, task, gated, ticketOpen, granted, calls, spent>>

\* reportActionResult, once per action the agent was given; the route then
\* resumes the run.
AgentReport(t, a, outcome) ==
  /\ At(t, "idle")
  /\ action[a].status = "dispatched"
  /\ action' = [action EXCEPT ![a].status = outcome]
  /\ task' = [task EXCEPT ![t].pc = "resume", ![t].run = action[a].run, ![t].action = a]
  /\ UNCHANGED <<run, gated, ticketOpen, granted, calls, spent>>

\* SELECT ... FOR UPDATE; nothing to do unless the run waits for this action.
ResumeRead(t) ==
  /\ At(t, "resume")
  /\ LET row == run[task[t].run]
         mine == {i \in DOMAIN row.steps : /\ row.steps[i].action = task[t].action
                                           /\ row.steps[i].status = "dispatched"}
     IN  IF row.status = "waiting_action" /\ mine # {}
         THEN task' = [task EXCEPT ![t].pc = "resume_write",
                         ![t].steps = row.steps, ![t].at = First(mine)]
         ELSE End(t)
  /\ UNCHANGED <<run, action, gated, ticketOpen, granted, calls, spent>>

\* Mutant: the step goes back to pending, as an approved one does.
ResumeAgain(t) ==
  /\ At(t, "resume_write")
  /\ LET steps == [task[t].steps EXCEPT ![task[t].at].status = "pending"]
     IN  /\ WriteRow(task[t].run, steps, "running")
         /\ task' = [task EXCEPT ![t].pc = "exec", ![t].steps = steps,
                       ![t].gated = gated, ![t].action = 0]
  /\ UNCHANGED <<action, gated, ticketOpen, granted, calls, spent>>

\* The step counts as succeeded whatever the agent reported.
ResumeWrite(t) ==
  /\ At(t, "resume_write")
  /\ LET steps == [task[t].steps EXCEPT ![task[t].at].status = "succeeded"]
     IN  /\ WriteRow(task[t].run, steps, "running")
         /\ task' = [task EXCEPT ![t].pc = "exec", ![t].steps = steps,
                       ![t].gated = gated, ![t].action = 0]
  /\ UNCHANGED <<action, gated, ticketOpen, granted, calls, spent>>

-----------------------------------------------------------------------------
(* The rest of the product, and faults *)

\* Settings -> AI: the tenant's worker policy is replaced.
SetPolicy(g) ==
  /\ spent.changes < MaxChanges
  /\ g # gated
  /\ gated' = g
  /\ spent' = [spent EXCEPT !.changes = @ + 1]
  /\ UNCHANGED <<run, task, action, ticketOpen, granted, calls>>

\* A technician or the requester resolves the ticket.
ResolveTicket ==
  /\ ticketOpen
  /\ ticketOpen' = FALSE
  /\ UNCHANGED <<run, task, action, gated, granted, calls, spent>>

\* An await of a task rejects: the planning chain marks the run failed if it
\* is still running, every other chain drops the error.
TaskRejects(t) ==
  /\ spent.faults < MaxFaults
  /\ ~At(t, "idle")
  /\ IF task[t].planning /\ run[task[t].run].status = "running"
     THEN WriteStatus(task[t].run, "failed")
     ELSE run' = run
  /\ End(t)
  /\ spent' = [spent EXCEPT !.faults = @ + 1]
  /\ UNCHANGED <<action, gated, ticketOpen, granted, calls>>

\* The API process stops: every chain is lost and nothing restarts one.
Restart ==
  /\ spent.faults < MaxFaults
  /\ task' = [t \in Tasks |-> Idle]
  /\ spent' = [spent EXCEPT !.faults = @ + 1]
  /\ UNCHANGED <<run, action, gated, ticketOpen, granted, calls>>

-----------------------------------------------------------------------------

\* One transaction of one chain already in flight.
TaskStep(t) ==
  \/ CreateCheckActive(t)
  \/ \E r \in Runs : CreateInsert(t, r)
  \/ AdvanceRun(t)
  \/ PlanUnusable(t)
  \/ \E p \in Plans : PlanRun(t, p)
  \/ ExecAskApproval(t)
  \/ ExecStart(t)
  \/ ExecTool(t)
  \/ ExecToolThrows(t)
  \/ ExecRecord(t)
  \/ ExecDispatch(t)
  \/ HandRun(t)
  \/ FinalizeResolve(t)
  \/ FinalizeHandoff(t)
  \/ ApproveWrite(t)
  \/ DenyWrite(t)
  \/ ResumeRead(t)
  \/ ResumeWrite(t)

Next ==
  \/ \E t \in Tasks : TaskStep(t) \/ CreateReadTicket(t) \/ TaskRejects(t)
  \/ \E t \in Tasks, r \in Runs : ApproveRead(t, r) \/ DenyRead(t, r)
  \/ \E r \in Runs : CancelWorkerRun(r)
  \/ AgentPoll
  \/ \E t \in Tasks, a \in DOMAIN action, outcome \in {"succeeded", "failed"} :
       AgentReport(t, a, outcome)
  \/ \E g \in SUBSET Gateable : SetPolicy(g)
  \/ ResolveTicket
  \/ Restart

Spec == Init /\ [][Next]_vars

\* The event loop runs every promise that is due; nothing makes a person, the
\* agent or the policy move.
FairSpec == Spec /\ \A t \in Tasks : WF_vars(TaskStep(t))

-----------------------------------------------------------------------------
(* Properties *)

\* execStep runs a step that is awaiting approval without looking at who
\* approved it; the gate holds all the same, because no chain ever reaches
\* execStep with such a step: a tool about to run was not gated by the policy
\* its chain read, or a technician approved the step.
GateHolds ==
  \A t \in Tasks :
    At(t, "tool") => \/ Current(t).tool \notin task[t].gated
                     \/ Current(t).approved

\* The status of a row and the steps written with it agree although nine
\* different writes replace them: a run waits for approval exactly when one of
\* its steps does, and one that waits for a device has a dispatched step with
\* its action.
RowsAgree ==
  \A r \in Runs :
    LET row == run[r]
    IN  /\ row.status = "waiting_approval" => Cardinality(AwaitingSteps(row.steps)) = 1
        /\ row.status = "running" => AwaitingSteps(row.steps) = {}
        /\ row.status = "waiting_action" =>
             \E i \in DOMAIN row.steps :
               /\ row.steps[i].status = "dispatched"
               /\ row.steps[i].action \in DOMAIN action
               /\ action[row.steps[i].action].run = r
               /\ action[row.steps[i].action].step = i

\* No retry or resume runs a tool again: a step that was called n > 1 times took
\* n approvals in its run. Not n of that step: an answer that was read early and
\* is written late brings back a list in which a step that has run since is
\* pending, and the chain of an approval already given for another step runs it.
CallsWithinApprovals ==
  \A r \in Runs, i \in StepIx : calls[r][i] > 1 => granted[r] >= calls[r][i]

\* A run that is executing does not stay so: it settles, or waits for a
\* person or the device, unless a promise was rejected or the process stopped.
RunningSettles ==
  \A r \in Runs : (run[r].status = "running") ~>
                    (run[r].status # "running" \/ spent.faults > 0)
=============================================================================
