----------------------------- MODULE DeviceWork -----------------------------
(***************************************************************************)
(* Queued device actions and the reviewed script they run. The technician  *)
(* and the AI worker put rows in device_actions; the endpoint agent polls  *)
(* for them once per heartbeat, runs each in a task of its own and reports *)
(* how it ended; the body of the script is fetched when it is run, and only *)
(* while it is approved. A handler that reads a row and then writes it is  *)
(* two steps. The agent waits for one poll at a time, but the server goes  *)
(* on with a poll whose agent crashed or lost the connection.              *)
(***************************************************************************)
EXTENDS Naturals, FiniteSets

CONSTANTS
  Actions,   \* rows of device_actions, all for one device and one script
  Polls,     \* requests GET /agent/actions/pending the server can have open
  Staff,     \* technicians who may each have a script request open
  MaxBodies, \* bound: texts the script has in all, each edit brings the next
  MaxFaults, \* bound: crashes of the agent and calls that fail on the way
  NoPoll     \* the agent waits for no poll

ASSUME BoundsAssumption == MaxBodies \in Nat \ {0} /\ MaxFaults \in Nat /\ NoPoll \notin Polls

VARIABLES
  script,   \* the row of scripts: approval_status and body
  request,  \* a script request between its SELECT and its UPDATE
  newest,   \* the last text any request has carried
  approved, \* the texts the row held when an approval was written to it
  status,   \* device_actions.status
  poll,     \* the server's side of each poll: how far it is, the rows it read
  up,       \* does the agent run
  awaits,   \* the poll whose answer the agent waits for
  task,     \* the agent's task for an action: how far it is, the text it ran
  starts,   \* how often the endpoint has begun an action
  lost,     \* actions cut off by a fault, or that never end on the endpoint
  faults    \* faults so far

scriptVars == <<script, request, newest, approved>>
agentVars == <<up, awaits, task, starts, lost, faults>>
vars == <<script, request, newest, approved, status, poll, up, awaits, task, starts, lost, faults>>

Idle == [op |-> "none", body |-> 0, read |-> [status |-> "none", body |-> 0]]
NoTask == [at |-> "none", body |-> 0]
FreePoll == [at |-> "free", rows |-> {}]
Final == {"succeeded", "failed"}

Init ==
  /\ script = [status |-> "draft", body |-> 1]
  /\ request = [t \in Staff |-> Idle]
  /\ newest = 1
  /\ approved = {}
  /\ status = [a \in Actions |-> "none"]
  /\ poll = [p \in Polls |-> FreePoll]
  /\ up = TRUE
  /\ awaits = NoPoll
  /\ task = [a \in Actions |-> NoTask]
  /\ starts = [a \in Actions |-> 0]
  /\ lost = {}
  /\ faults = 0

-----------------------------------------------------------------------------
(* The script *)

\* What each handler wants of the row it reads.
Admits(op, row) ==
  CASE op = "submit" -> row.status \in {"draft", "rejected"}
    [] op \in {"approve", "reject"} -> row.status = "pending"
    [] OTHER -> row.status # "deleted"

\* The SELECT of PATCH /scripts/:id, of its submit, its approve and its reject.
\* "edit" is the PATCH that carries a new text, "rename" the one that carries none;
\* only a PATCH uses what it read again.
ScriptRead(t, op) ==
  /\ request[t] = Idle
  /\ Admits(op, script)
  /\ op = "edit" => newest < MaxBodies
  /\ newest' = IF op = "edit" THEN newest + 1 ELSE newest
  /\ request' = [request EXCEPT ![t] =
       [op |-> op,
        body |-> IF op = "edit" THEN newest' ELSE 0,
        read |-> IF op \in {"edit", "rename"} THEN script ELSE Idle.read]]
  /\ UNCHANGED <<script, approved, status, poll>> /\ UNCHANGED agentVars

\* the edit forgets to take the approval back
WrittenApprovalKept(op, body, read, row) ==
  CASE op = "edit" -> [status |-> read.status, body |-> body]
    [] op = "rename" -> read
    [] op = "submit" -> [row EXCEPT !.status = "pending"]
    [] op = "approve" -> [row EXCEPT !.status = "approved"]
    [] op = "reject" -> [row EXCEPT !.status = "rejected"]

\* The row after the UPDATE. PATCH writes both columns, with what it read where
\* the caller gave nothing; the others write the status alone, of whatever row
\* is there now.
Written(op, body, read, row) ==
  CASE op = "edit" -> [status |-> "draft", body |-> body]
    [] op = "rename" -> read
    [] op = "submit" -> [row EXCEPT !.status = "pending"]
    [] op = "approve" -> [row EXCEPT !.status = "approved"]
    [] op = "reject" -> [row EXCEPT !.status = "rejected"]

ScriptWrite(t) ==
  LET r == request[t] IN
  /\ r # Idle
  /\ request' = [request EXCEPT ![t] = Idle]
  /\ script' = IF script.status = "deleted" THEN script ELSE Written(r.op, r.body, r.read, script)
  /\ approved' = IF r.op = "approve" /\ script.status # "deleted"
                 THEN approved \cup {script.body} ELSE approved
  /\ UNCHANGED <<newest, status, poll>> /\ UNCHANGED agentVars

\* DELETE /scripts/:id
ScriptDelete ==
  /\ script.status # "deleted"
  /\ script' = [script EXCEPT !.status = "deleted"]
  /\ UNCHANGED <<request, newest, approved, status, poll>> /\ UNCHANGED agentVars

-----------------------------------------------------------------------------
(* The server's side of the actions *)

\* createActions, and the dispatches of the AI agent and the AI worker
Queue(a) ==
  /\ status[a] = "none"
  /\ status' = [status EXCEPT ![a] = "pending"]
  /\ UNCHANGED <<poll, up, awaits, task, starts, lost, faults>> /\ UNCHANGED scriptVars

\* rows whose agent may have died are handed out again
PendingAgain == {a \in Actions : status[a] \in {"pending", "dispatched"}}

\* pendingActionsForDevice: the rows it returns
Pending == {a \in Actions : status[a] = "pending"}

PollSelect(p) ==
  /\ poll[p].at = "asked"
  /\ poll' = [poll EXCEPT ![p] = [at |-> "selected", rows |-> Pending]]
  /\ UNCHANGED <<status, up, awaits, task, starts, lost, faults>> /\ UNCHANGED scriptVars

\* one UPDATE for every pending row of the device
MarkedByDevice(rows) == [a \in Actions |-> IF a \in Pending THEN "dispatched" ELSE status[a]]

\* The UPDATEs of the rows it read, by id and whatever their status is now.
Marked(rows) == [a \in Actions |-> IF a \in rows THEN "dispatched" ELSE status[a]]

PollMark(p) ==
  /\ poll[p].at = "selected"
  /\ status' = Marked(poll[p].rows)
  /\ poll' = [poll EXCEPT ![p].at = "marked"]
  /\ UNCHANGED <<up, awaits, task, starts, lost, faults>> /\ UNCHANGED scriptVars

\* The answer reaches the agent, which starts a task for each row, or nobody.
PollAnswer(p) ==
  /\ poll[p].at = "marked"
  /\ poll' = [poll EXCEPT ![p] = FreePoll]
  /\ \/ /\ awaits = p
        /\ awaits' = NoPoll
        /\ task' = [a \in Actions |-> IF a \in poll[p].rows THEN [at |-> "fetch", body |-> 0] ELSE task[a]]
        /\ lost' = lost
     \/ /\ awaits # p
        /\ lost' = lost \cup poll[p].rows
        /\ UNCHANGED <<awaits, task>>
  /\ UNCHANGED <<status, up, starts, faults>> /\ UNCHANGED scriptVars

-----------------------------------------------------------------------------
(* The agent *)

\* A turn of the heartbeat loop comes to its poll.
AgentPolls(p) ==
  /\ up
  /\ awaits = NoPoll
  /\ poll[p].at = "free"
  /\ awaits' = p
  /\ poll' = [poll EXCEPT ![p].at = "asked"]
  /\ UNCHANGED <<status, up, task, starts, lost, faults>> /\ UNCHANGED scriptVars

\* The poll fails for the agent, which goes on to its next turn; the server has
\* the request, or never gets it.
PollFails ==
  /\ awaits # NoPoll
  /\ faults < MaxFaults
  /\ faults' = faults + 1
  /\ awaits' = NoPoll
  /\ \/ UNCHANGED poll
     \/ poll[awaits].at = "asked" /\ poll' = [poll EXCEPT ![awaits] = FreePoll]
  /\ UNCHANGED <<status, up, task, starts, lost>> /\ UNCHANGED scriptVars

\* The agent stops or crashes, and its tasks with it.
AgentDies ==
  /\ up
  /\ faults < MaxFaults
  /\ faults' = faults + 1
  /\ up' = FALSE
  /\ awaits' = NoPoll
  /\ lost' = lost \cup {a \in Actions : task[a] # NoTask}
  /\ task' = [a \in Actions |-> NoTask]
  /\ UNCHANGED <<status, poll, starts>> /\ UNCHANGED scriptVars

AgentStarts ==
  /\ ~up
  /\ up' = TRUE
  /\ UNCHANGED <<status, poll, awaits, task, starts, lost, faults>> /\ UNCHANGED scriptVars

\* GET /agent/scripts/:id: the text the task will run
Fetchable == script.status = "approved"

\* run_script_action: fetch the script and start it; the task fails when the
\* script is not approved, or the call does not get through.
TaskFetch(a) ==
  /\ task[a].at = "fetch"
  /\ \/ /\ Fetchable
        /\ task' = [task EXCEPT ![a] = [at |-> "run", body |-> script.body]]
        /\ starts' = [starts EXCEPT ![a] = @ + 1]
        /\ faults' = faults
     \/ /\ ~Fetchable \/ faults < MaxFaults
        /\ task' = [task EXCEPT ![a].at = "failed"]
        /\ faults' = IF Fetchable THEN faults + 1 ELSE faults
        /\ starts' = starts
  /\ UNCHANGED <<status, poll, up, awaits, lost>> /\ UNCHANGED scriptVars

\* The script's process ends, one way or the other, or never does: nothing
\* limits how long the task waits for it.
TaskEnds(a) ==
  /\ task[a].at = "run"
  /\ \/ /\ \E result \in Final : task' = [task EXCEPT ![a].at = result]
        /\ lost' = lost
     \/ /\ task' = [task EXCEPT ![a].at = "hangs"]
        /\ lost' = lost \cup {a}
  /\ UNCHANGED <<status, poll, up, awaits, starts, faults>> /\ UNCHANGED scriptVars

\* reportActionResult takes the result of a row that has none yet
Reportable(a) == status[a] \in {"pending", "dispatched"}

\* The task reports once and ends, whether or not the report arrives.
TaskReports(a) ==
  /\ task[a].at \in Final
  /\ task' = [task EXCEPT ![a] = NoTask]
  /\ \/ /\ status' = IF Reportable(a) THEN [status EXCEPT ![a] = task[a].at] ELSE status
        /\ UNCHANGED <<lost, faults>>
     \/ /\ faults < MaxFaults
        /\ faults' = faults + 1
        /\ lost' = lost \cup {a}
        /\ status' = status
  /\ UNCHANGED <<poll, up, awaits, starts>> /\ UNCHANGED scriptVars

-----------------------------------------------------------------------------

Next ==
  \/ \E t \in Staff :
       \/ \E op \in {"edit", "rename", "submit", "approve", "reject"} : ScriptRead(t, op)
       \/ ScriptWrite(t)
  \/ ScriptDelete
  \/ \E p \in Polls : PollSelect(p) \/ PollMark(p) \/ PollAnswer(p) \/ AgentPolls(p)
  \/ PollFails \/ AgentDies \/ AgentStarts
  \/ \E a \in Actions : Queue(a) \/ TaskFetch(a) \/ TaskEnds(a) \/ TaskReports(a)

Spec == Init /\ [][Next]_vars

-----------------------------------------------------------------------------
(* Properties *)

\* An action is begun on the endpoint at most once, though polls overlap, are
\* answered to nobody and mark rows long after they read them
\* (pendingActionsForDevice, rmm.ts:180; a script is not safe to run twice).
BegunOnce == \A a \in Actions : starts[a] <= 1

\* A text that runs on the endpoint was itself in the row when an approval was
\* written: no edit rides on the approval of an earlier text, however the
\* requests of two technicians fall between each other's reads and writes
\* (scripts.routes.ts:134, "A body change resets approval").
RunsApprovedText == \A a \in Actions : task[a].at \in {"run", "hangs"} => task[a].body \in approved

\* A dispatched action is somebody's: a poll on the server carries it, or a
\* task of the agent, or a fault or an endless script has cut it off. The
\* statements between which other polls, results and new actions fall never
\* mark a row that they do not deliver (rmm.ts:180-214, main.rs run_device_action).
DispatchedIsHeld ==
  \A a \in Actions : status[a] = "dispatched" =>
    \/ a \in lost
    \/ task[a] # NoTask
    \/ \E p \in Polls : a \in poll[p].rows
=============================================================================
