---------------------------- MODULE DeviceProofs ----------------------------
(***************************************************************************)
(* Proofs about what a device does (DeviceWork) and, in the second part,   *)
(* about the alerts raised over it (DeviceAlerts). The two specifications  *)
(* share no variable.                                                      *)
(***************************************************************************)
EXTENDS DeviceWork, DeviceAlerts, TLAPS

(***************************************************************************)
(* For any number of actions, polls and technicians, and any number of     *)
(* faults: an action is begun once, only approved texts run, and a         *)
(* dispatched action is held or was cut off. An action leaves the statuses *)
(* before dispatch for good; the agent waits for one poll at a time; and   *)
(* what a request carries was read from the script's row.                  *)
(***************************************************************************)

Rows == [status : {"draft", "pending", "approved", "rejected", "deleted"}, body : 1..MaxBodies]
Operations == {"none", "edit", "rename", "submit", "approve", "reject"}
RequestRow == [op : Operations, body : 0..MaxBodies, read : Rows \cup {Idle.read}]
TaskRow == [at : {"none", "fetch", "run", "hangs"} \cup Final, body : 0..MaxBodies]
PollRow == [at : {"free", "asked", "selected", "marked"}, rows : SUBSET Actions]
Undispatched == {"none", "pending"}

ScriptTypeOK ==
  /\ script \in Rows
  /\ request \in [Staff -> RequestRow]
  /\ \A t \in Staff : request[t].op = "none" => request[t] = Idle
  /\ \A t \in Staff : request[t].op = "edit" => request[t].body \in 1..MaxBodies
  /\ \A t \in Staff : request[t].op = "rename" => request[t].read \in Rows
  /\ newest \in 1..MaxBodies
  /\ approved \subseteq 1..MaxBodies
ServerTypeOK ==
  /\ status \in [Actions -> Undispatched \cup {"dispatched"} \cup Final]
  /\ poll \in [Polls -> PollRow]
AgentTypeOK ==
  /\ up \in BOOLEAN
  /\ awaits \in Polls \cup {NoPoll}
  /\ task \in [Actions -> TaskRow]
  /\ starts \in [Actions -> Nat]
  /\ lost \subseteq Actions
  /\ faults \in 0..MaxFaults
TypeOK == ScriptTypeOK /\ ServerTypeOK /\ AgentTypeOK

\* What is approved in the row, or was when a technician read it, was approved.
ApprovalsRecorded ==
  /\ script.status = "approved" => script.body \in approved
  /\ \A t \in Staff : request[t].read.status = "approved" => request[t].read.body \in approved

\* An action that was never dispatched was never begun, and a poll that has
\* marked its rows leaves none of them undispatched.
FreshUntilDispatched ==
  /\ \A a \in Actions : status[a] \in Undispatched => starts[a] = 0 /\ task[a] = NoTask
  /\ \A p \in Polls : poll[p].at = "marked" => \A a \in poll[p].rows : status[a] \notin Undispatched

\* The poll the agent waits for carries actions that nobody has begun.
AwaitedIsFresh ==
  awaits # NoPoll => \A a \in poll[awaits].rows : starts[a] = 0 /\ task[a] = NoTask

\* A poll has rows only from its SELECT to its answer.
RowsWhileSelected == \A p \in Polls : poll[p].at \in {"free", "asked"} => poll[p].rows = {}

\* A task that has yet to fetch its script has not begun it.
FetchBeforeStart == \A a \in Actions : task[a].at = "fetch" => starts[a] = 0

ScriptInv == ApprovalsRecorded /\ RunsApprovedText
BegunInv == FreshUntilDispatched /\ AwaitedIsFresh /\ RowsWhileSelected /\ FetchBeforeStart /\ BegunOnce

-----------------------------------------------------------------------------
(* Types *)

\* The steps that change the script's side.
LEMMA ScriptSteps ==
  ASSUME [Next]_vars
  PROVE  \/ \E t \in Staff, op \in {"edit", "rename", "submit", "approve", "reject"} : ScriptRead(t, op)
         \/ \E t \in Staff : ScriptWrite(t)
         \/ ScriptDelete
         \/ UNCHANGED scriptVars
<1>3. CASE \E p \in Polls : PollSelect(p) \/ PollMark(p) \/ PollAnswer(p) \/ AgentPolls(p)
  BY <1>3 DEF PollSelect, PollMark, PollAnswer, AgentPolls
<1>4. CASE PollFails \/ AgentDies \/ AgentStarts
  BY <1>4 DEF PollFails, AgentDies, AgentStarts
<1>5. CASE \E a \in Actions : Queue(a) \/ TaskFetch(a) \/ TaskEnds(a) \/ TaskReports(a)
  BY <1>5 DEF Queue, TaskFetch, TaskEnds, TaskReports
<1>6. CASE UNCHANGED vars
  BY <1>6 DEF vars, scriptVars
<1>. QED BY <1>3, <1>4, <1>5, <1>6 DEF Next

\* The steps that change the server's or the agent's side.
LEMMA WorkSteps ==
  ASSUME [Next]_vars
  PROVE  \/ \E p \in Polls : PollSelect(p) \/ PollMark(p) \/ PollAnswer(p) \/ AgentPolls(p)
         \/ PollFails \/ AgentDies \/ AgentStarts
         \/ \E a \in Actions : Queue(a) \/ TaskFetch(a) \/ TaskEnds(a) \/ TaskReports(a)
         \/ UNCHANGED <<status, poll, up, awaits, task, starts, lost, faults>>
<1>1. CASE \E t \in Staff : (\E op \in {"edit", "rename", "submit", "approve", "reject"} : ScriptRead(t, op)) \/ ScriptWrite(t)
  BY <1>1 DEF ScriptRead, ScriptWrite, agentVars
<1>2. CASE ScriptDelete
  BY <1>2 DEF ScriptDelete, agentVars
<1>6. CASE UNCHANGED vars
  BY <1>6 DEF vars
<1>. QED BY <1>1, <1>2, <1>6 DEF Next

LEMMA ScriptTypeInit == Init => ScriptTypeOK
  BY BoundsAssumption DEF Init, ScriptTypeOK, Rows, RequestRow, Operations, Idle

LEMMA ScriptTypeStep == ScriptTypeOK /\ [Next]_vars => ScriptTypeOK'
<1> SUFFICES ASSUME ScriptTypeOK, [Next]_vars PROVE ScriptTypeOK'
  OBVIOUS
<1> USE BoundsAssumption
<1>1. ASSUME NEW t \in Staff, NEW op \in {"edit", "rename", "submit", "approve", "reject"}, ScriptRead(t, op)
      PROVE  ScriptTypeOK'
  <2> DEFINE row == [op |-> op, body |-> IF op = "edit" THEN newest' ELSE 0,
                     read |-> IF op \in {"edit", "rename"} THEN script ELSE Idle.read]
  <2>1. newest' \in 1..MaxBodies
    BY <1>1 DEF ScriptRead, ScriptTypeOK
  <2>2. row \in RequestRow /\ row.op # "none" /\ (row.op = "edit" => row.body \in 1..MaxBodies) /\ (row.op = "rename" => row.read \in Rows)
    BY <2>1 DEF ScriptTypeOK, RequestRow, Operations
  <2>3. request' = [request EXCEPT ![t] = row]
    BY <1>1 DEF ScriptRead
  <2> HIDE DEF row
  <2>4. UNCHANGED <<script, approved>>
    BY <1>1 DEF ScriptRead
  <2>5. request' \in [Staff -> RequestRow]
    BY <2>2, <2>3 DEF ScriptTypeOK
  <2>6. \A u \in Staff : request'[u] = IF u = t THEN row ELSE request[u]
    BY <2>3 DEF ScriptTypeOK
  <2>. QED BY <2>1, <2>2, <2>4, <2>5, <2>6 DEF ScriptTypeOK
<1>2. ASSUME NEW t \in Staff, ScriptWrite(t) PROVE ScriptTypeOK'
  <2> DEFINE r == request[t]
  <2>1. r # Idle /\ r \in RequestRow
    BY <1>2 DEF ScriptWrite, ScriptTypeOK
  <2>2. script' \in Rows
    <3>1. CASE script.status = "deleted"
      BY <1>2, <3>1 DEF ScriptWrite, ScriptTypeOK
    <3>2. CASE script.status # "deleted"
      <4>1. script' = Written(r.op, r.body, r.read, script)
        BY <1>2, <3>2 DEF ScriptWrite
      <4>2. r.op \in Operations \ {"none"}
        BY <2>1 DEF ScriptTypeOK, RequestRow
      <4>. QED BY <4>1, <4>2 DEF ScriptTypeOK, Written, Operations, Rows
    <3>. QED BY <3>1, <3>2
  <2>3. approved' \subseteq 1..MaxBodies
    BY <1>2 DEF ScriptWrite, ScriptTypeOK, Rows
  <2>. QED BY <1>2, <2>2, <2>3 DEF ScriptWrite, ScriptTypeOK, RequestRow, Operations, Idle
<1>3. CASE ScriptDelete
  BY <1>3 DEF ScriptDelete, ScriptTypeOK, Rows
<1>4. CASE UNCHANGED scriptVars
  BY <1>4 DEF scriptVars, ScriptTypeOK
<1>. QED BY <1>1, <1>2, <1>3, <1>4, ScriptSteps
LEMMA WorkTypeInit == Init => ServerTypeOK /\ AgentTypeOK
  BY BoundsAssumption DEF Init, ServerTypeOK, AgentTypeOK, PollRow, TaskRow, Undispatched, Final, FreePoll, NoTask

LEMMA WorkTypeStep == TypeOK /\ [Next]_vars => ServerTypeOK' /\ AgentTypeOK'
<1> SUFFICES ASSUME TypeOK, [Next]_vars PROVE ServerTypeOK' /\ AgentTypeOK'
  OBVIOUS
<1> USE BoundsAssumption DEF TypeOK, ServerTypeOK, AgentTypeOK
<1>1. ASSUME NEW p \in Polls, PollSelect(p) PROVE ServerTypeOK' /\ AgentTypeOK'
  BY <1>1 DEF PollSelect, Pending, PollRow
<1>2. ASSUME NEW p \in Polls, PollMark(p) PROVE ServerTypeOK' /\ AgentTypeOK'
  BY <1>2 DEF PollMark, Marked, PollRow
<1>3. ASSUME NEW p \in Polls, PollAnswer(p) PROVE ServerTypeOK' /\ AgentTypeOK'
  <2>1. poll' \in [Polls -> PollRow] /\ poll[p].rows \subseteq Actions
    BY <1>3 DEF PollAnswer, PollRow, FreePoll
  <2>2. task' \in [Actions -> TaskRow] /\ lost' \subseteq Actions /\ awaits' \in Polls \cup {NoPoll}
    BY <1>3, <2>1 DEF PollAnswer, TaskRow
  <2>. QED BY <1>3, <2>1, <2>2 DEF PollAnswer
<1>4. ASSUME NEW p \in Polls, AgentPolls(p) PROVE ServerTypeOK' /\ AgentTypeOK'
  BY <1>4 DEF AgentPolls, PollRow
<1>5. CASE PollFails
  BY <1>5 DEF PollFails, PollRow, FreePoll
<1>6. CASE AgentDies
  <2>1. NoTask \in TaskRow
    BY DEF NoTask, TaskRow
  <2>2. task' \in [Actions -> TaskRow]
    BY <1>6, <2>1 DEF AgentDies
  <2>3. faults' \in 0..MaxFaults /\ lost' \subseteq Actions
    BY <1>6 DEF AgentDies
  <2>. QED BY <1>6, <2>2, <2>3 DEF AgentDies
<1>7. CASE AgentStarts
  BY <1>7 DEF AgentStarts
<1>8. ASSUME NEW a \in Actions, Queue(a) PROVE ServerTypeOK' /\ AgentTypeOK'
  BY <1>8 DEF Queue, Undispatched
<1>9. ASSUME NEW a \in Actions, TaskFetch(a) PROVE ServerTypeOK' /\ AgentTypeOK'
  <2>1. task' \in [Actions -> TaskRow]
    BY <1>9 DEF TaskFetch, TaskRow, ScriptTypeOK, Rows, Final
  <2>. QED BY <1>9, <2>1 DEF TaskFetch
<1>10. ASSUME NEW a \in Actions, TaskEnds(a) PROVE ServerTypeOK' /\ AgentTypeOK'
  BY <1>10 DEF TaskEnds, TaskRow
<1>11. ASSUME NEW a \in Actions, TaskReports(a) PROVE ServerTypeOK' /\ AgentTypeOK'
  <2>1. task' \in [Actions -> TaskRow] /\ status' \in [Actions -> Undispatched \cup {"dispatched"} \cup Final]
    BY <1>11 DEF TaskReports, TaskRow, NoTask
  <2>. QED BY <1>11, <2>1 DEF TaskReports
<1>12. CASE UNCHANGED <<status, poll, up, awaits, task, starts, lost, faults>>
  BY <1>12
<1>. QED BY <1>1, <1>2, <1>3, <1>4, <1>5, <1>6, <1>7, <1>8, <1>9, <1>10, <1>11, <1>12, WorkSteps

\* Every variable has a value the code can give it (the whole module).
THEOREM TypeCorrect == Spec => []TypeOK
<1>1. Init => TypeOK
  BY ScriptTypeInit, WorkTypeInit DEF TypeOK
<1>2. TypeOK /\ [Next]_vars => TypeOK'
  BY ScriptTypeStep, WorkTypeStep DEF TypeOK
<1>. QED BY <1>1, <1>2, PTL DEF Spec

-----------------------------------------------------------------------------
(* Only approved texts run *)

LEMMA ApprovalsStep ==
  ASSUME ScriptTypeOK, ScriptInv, [Next]_vars
  PROVE  ApprovalsRecorded' /\ approved \subseteq approved'
<1> USE DEF ApprovalsRecorded, ScriptInv
<1>1. ASSUME NEW t \in Staff, NEW op \in {"edit", "rename", "submit", "approve", "reject"}, ScriptRead(t, op)
      PROVE  ApprovalsRecorded' /\ approved \subseteq approved'
  <2>1. request'[t].read \in {script, Idle.read} /\ \A u \in Staff \ {t} : request'[u] = request[u]
    BY <1>1 DEF ScriptRead, ScriptTypeOK
  <2>. QED BY <1>1, <2>1 DEF ScriptRead, Idle
<1>2. ASSUME NEW t \in Staff, ScriptWrite(t) PROVE ApprovalsRecorded' /\ approved \subseteq approved'
  <2> DEFINE r == request[t]
  <2>1. \A u \in Staff : request'[u].read \in {request[u].read, Idle.read}
    BY <1>2 DEF ScriptWrite, ScriptTypeOK
  <2>2. r # Idle /\ r.op \in Operations \ {"none"}
    BY <1>2 DEF ScriptWrite, ScriptTypeOK, RequestRow
  <2>3. script'.status = "approved" => script'.body \in approved'
    <3>1. CASE script.status = "deleted"
      BY <1>2, <3>1 DEF ScriptWrite
    <3>2. CASE script.status # "deleted"
      <4>1. script' = Written(r.op, r.body, r.read, script)
        BY <1>2, <3>2 DEF ScriptWrite
      <4>2. approved' = IF r.op = "approve" THEN approved \cup {script.body} ELSE approved
        BY <1>2, <3>2 DEF ScriptWrite
      <4>. QED BY <2>2, <4>1, <4>2 DEF Written, Operations, ScriptTypeOK, Rows
    <3>. QED BY <3>1, <3>2
  <2>. QED BY <1>2, <2>1, <2>3 DEF ScriptWrite, Idle
<1>3. CASE ScriptDelete
  BY <1>3 DEF ScriptDelete, ScriptTypeOK, Rows
<1>4. CASE UNCHANGED scriptVars
  BY <1>4 DEF scriptVars
<1>. QED BY <1>1, <1>2, <1>3, <1>4, ScriptSteps

LEMMA RunsStep ==
  ASSUME TypeOK, ScriptInv, approved \subseteq approved', [Next]_vars
  PROVE  RunsApprovedText'
<1> USE DEF RunsApprovedText, ScriptInv, TypeOK, AgentTypeOK
<1>1. ASSUME NEW p \in Polls, PollSelect(p) \/ PollMark(p) \/ AgentPolls(p) PROVE RunsApprovedText'
  BY <1>1 DEF PollSelect, PollMark, AgentPolls
<1>2. ASSUME NEW p \in Polls, PollAnswer(p) PROVE RunsApprovedText'
  BY <1>2 DEF PollAnswer
<1>3. CASE PollFails \/ AgentDies \/ AgentStarts
  BY <1>3 DEF PollFails, AgentDies, AgentStarts, NoTask
<1>4. ASSUME NEW a \in Actions, Queue(a) PROVE RunsApprovedText'
  BY <1>4 DEF Queue
<1>5. ASSUME NEW a \in Actions, TaskFetch(a) PROVE RunsApprovedText'
  BY <1>5 DEF TaskFetch, Fetchable, ApprovalsRecorded, TaskRow
<1>6. ASSUME NEW a \in Actions, TaskEnds(a) PROVE RunsApprovedText'
  BY <1>6 DEF TaskEnds, TaskRow, Final
<1>7. ASSUME NEW a \in Actions, TaskReports(a) PROVE RunsApprovedText'
  BY <1>7 DEF TaskReports, TaskRow, NoTask
<1>8. CASE UNCHANGED <<status, poll, up, awaits, task, starts, lost, faults>>
  BY <1>8
<1>. QED BY <1>1, <1>2, <1>3, <1>4, <1>5, <1>6, <1>7, <1>8, WorkSteps

\* A text that runs on the endpoint was in the row when an approval was written
\* (PATCH, submit and approve of scripts.routes.ts, GET /agent/scripts/:id).
THEOREM RunsOnlyApproved == Spec => []RunsApprovedText
<1>1. Init => ScriptInv
  BY DEF Init, ScriptInv, ApprovalsRecorded, RunsApprovedText, Idle, NoTask
<1>2. TypeOK /\ ScriptInv /\ [Next]_vars => ScriptInv'
  BY ApprovalsStep, RunsStep DEF TypeOK, ScriptInv
<1>3. ScriptInv => RunsApprovedText
  BY DEF ScriptInv
<1>. QED BY <1>1, <1>2, <1>3, TypeCorrect, PTL DEF Spec
-----------------------------------------------------------------------------
(* An action is begun once *)

LEMMA BegunStep == TypeOK /\ BegunInv /\ [Next]_vars => BegunInv'
<1> SUFFICES ASSUME TypeOK, BegunInv, [Next]_vars PROVE BegunInv'
  OBVIOUS
<1> USE DEF TypeOK, ServerTypeOK, AgentTypeOK, BegunInv, FreshUntilDispatched, AwaitedIsFresh,
            RowsWhileSelected, FetchBeforeStart, BegunOnce
<1>1. ASSUME NEW p \in Polls, PollSelect(p) PROVE BegunInv'
  <2>1. poll'[p] = [at |-> "selected", rows |-> Pending] /\ \A q \in Polls \ {p} : poll'[q] = poll[q]
    BY <1>1 DEF PollSelect
  <2>2. \A a \in Pending : starts[a] = 0 /\ task[a] = NoTask
    BY DEF Pending, Undispatched
  <2>. QED BY <1>1, <2>1, <2>2 DEF PollSelect
<1>2. ASSUME NEW p \in Polls, PollMark(p) PROVE BegunInv'
  <2>1. poll'[p].at = "marked" /\ poll'[p].rows = poll[p].rows /\ \A q \in Polls \ {p} : poll'[q] = poll[q]
    BY <1>2 DEF PollMark, PollRow
  <2>2. \A a \in Actions : status'[a] = IF a \in poll[p].rows THEN "dispatched" ELSE status[a]
    BY <1>2 DEF PollMark, Marked
  <2>3. poll[p].rows \subseteq Actions /\ \A q \in Polls : poll[q].rows \subseteq Actions
    BY DEF PollRow
  <2>4. FreshUntilDispatched'
    BY <1>2, <2>1, <2>2, <2>3 DEF PollMark, Undispatched
  <2>. QED BY <1>2, <2>1, <2>4 DEF PollMark
<1>3. ASSUME NEW p \in Polls, PollAnswer(p) PROVE BegunInv'
  <2>1. poll'[p] = FreePoll /\ \A q \in Polls \ {p} : poll'[q] = poll[q]
    BY <1>3 DEF PollAnswer
  <2>2. poll[p].rows \subseteq Actions /\ poll[p].at = "marked"
    BY <1>3 DEF PollAnswer, PollRow
  <2>3. CASE awaits = p
    <3>1. awaits' = NoPoll /\ UNCHANGED <<status, starts>>
      BY <1>3, <2>3 DEF PollAnswer
    <3>2. \A a \in Actions : task'[a] = IF a \in poll[p].rows THEN [at |-> "fetch", body |-> 0] ELSE task[a]
      BY <1>3, <2>3 DEF PollAnswer
    <3>3. \A a \in poll[p].rows : starts[a] = 0 /\ status[a] \notin Undispatched
      BY <2>2, <2>3, BoundsAssumption
    <3>. QED BY <2>1, <3>1, <3>2, <3>3 DEF FreePoll
  <2>4. CASE awaits # p
    BY <1>3, <2>1, <2>4 DEF PollAnswer, FreePoll
  <2>. QED BY <2>3, <2>4
<1>4. ASSUME NEW p \in Polls, AgentPolls(p) PROVE BegunInv'
  <2>1. poll'[p].at = "asked" /\ poll'[p].rows = {} /\ \A q \in Polls \ {p} : poll'[q] = poll[q]
    BY <1>4 DEF AgentPolls, PollRow
  <2>. QED BY <1>4, <2>1 DEF AgentPolls
<1>5. CASE PollFails
  BY <1>5 DEF PollFails, FreePoll, PollRow
<1>6. CASE AgentDies
  BY <1>6 DEF AgentDies, NoTask
<1>7. CASE AgentStarts
  BY <1>7 DEF AgentStarts
<1>8. ASSUME NEW a \in Actions, Queue(a) PROVE BegunInv'
  <2>1. \A b \in Actions : status'[b] = IF b = a THEN "pending" ELSE status[b]
    BY <1>8 DEF Queue
  <2>2. \A q \in Polls : poll[q].rows \subseteq Actions
    BY DEF PollRow
  <2>. QED BY <1>8, <2>1, <2>2 DEF Queue, Undispatched
<1>9. ASSUME NEW a \in Actions, TaskFetch(a) PROVE BegunInv'
  <2>1. task[a].at = "fetch" /\ task[a] # NoTask /\ starts[a] = 0
    BY <1>9 DEF TaskFetch, NoTask
  <2>2. task'[a].at \in {"run", "failed"} /\ starts'[a] \in {0, 1}
    BY <1>9, <2>1 DEF TaskFetch, TaskRow
  <2>3. \A b \in Actions \ {a} : task'[b] = task[b] /\ starts'[b] = starts[b]
    BY <1>9 DEF TaskFetch
  <2>4. UNCHANGED <<status, poll, awaits>>
    BY <1>9 DEF TaskFetch
  <2>5. \A q \in Polls : poll[q].rows \subseteq Actions
    BY DEF PollRow
  <2>6. status[a] \notin Undispatched /\ (awaits # NoPoll => a \notin poll[awaits].rows)
    BY <2>1
  <2>. QED BY <2>1, <2>2, <2>3, <2>4, <2>5, <2>6
<1>10. ASSUME NEW a \in Actions, TaskEnds(a) PROVE BegunInv'
  <2>1. task[a].at = "run" /\ task[a] # NoTask
    BY <1>10 DEF TaskEnds, NoTask
  <2>2. task'[a].at \in Final \cup {"hangs"}
    BY <1>10 DEF TaskEnds, TaskRow
  <2>3. \A b \in Actions \ {a} : task'[b] = task[b]
    BY <1>10 DEF TaskEnds
  <2>4. UNCHANGED <<status, poll, awaits, starts>>
    BY <1>10 DEF TaskEnds
  <2>5. \A q \in Polls : poll[q].rows \subseteq Actions
    BY DEF PollRow
  <2>6. status[a] \notin Undispatched /\ (awaits # NoPoll => a \notin poll[awaits].rows)
    BY <2>1
  <2>. QED BY <2>1, <2>2, <2>3, <2>4, <2>5, <2>6 DEF Final
<1>11. ASSUME NEW a \in Actions, TaskReports(a) PROVE BegunInv'
  <2>1. task[a].at \in Final /\ task[a] # NoTask
    BY <1>11 DEF TaskReports, NoTask, Final
  <2>2. task'[a] = NoTask /\ \A b \in Actions \ {a} : task'[b] = task[b]
    BY <1>11 DEF TaskReports
  <2>3. status'[a] \notin Undispatched /\ \A b \in Actions \ {a} : status'[b] = status[b]
    BY <1>11, <2>1 DEF TaskReports, Undispatched, Final
  <2>4. UNCHANGED <<poll, awaits, starts>>
    BY <1>11 DEF TaskReports
  <2>5. \A q \in Polls : poll[q].rows \subseteq Actions
    BY DEF PollRow
  <2>. QED BY <2>1, <2>2, <2>3, <2>4, <2>5 DEF NoTask
<1>12. CASE UNCHANGED <<status, poll, up, awaits, task, starts, lost, faults>>
  BY <1>12
<1>. QED BY <1>1, <1>2, <1>3, <1>4, <1>5, <1>6, <1>7, <1>8, <1>9, <1>10, <1>11, <1>12, WorkSteps

\* The endpoint begins an action at most once, however many polls the server
\* still has open for it (pendingActionsForDevice, run_agent's loop).
THEOREM ActionsBegunOnce == Spec => []BegunOnce
<1>1. Init => BegunInv
  BY DEF Init, BegunInv, FreshUntilDispatched, AwaitedIsFresh, RowsWhileSelected, FetchBeforeStart,
         BegunOnce, FreePoll, NoTask
<1>2. BegunInv => BegunOnce
  BY DEF BegunInv
<1>. QED BY <1>1, <1>2, BegunStep, TypeCorrect, PTL DEF Spec

-----------------------------------------------------------------------------
(* A dispatched action is held, or was cut off *)

LEMMA HeldStep == TypeOK /\ BegunInv /\ DispatchedIsHeld /\ [Next]_vars => DispatchedIsHeld'
<1> SUFFICES ASSUME TypeOK, BegunInv, DispatchedIsHeld, [Next]_vars PROVE DispatchedIsHeld'
  OBVIOUS
<1> USE DEF TypeOK, ServerTypeOK, AgentTypeOK, DispatchedIsHeld
<1>1. ASSUME NEW p \in Polls, PollSelect(p) PROVE DispatchedIsHeld'
  <2>1. poll[p].rows = {} /\ \A q \in Polls \ {p} : poll'[q] = poll[q]
    BY <1>1 DEF PollSelect, BegunInv, RowsWhileSelected
  <2>. QED BY <1>1, <2>1 DEF PollSelect
<1>2. ASSUME NEW p \in Polls, PollMark(p) PROVE DispatchedIsHeld'
  <2>1. \A q \in Polls : poll'[q].rows = poll[q].rows
    BY <1>2 DEF PollMark, PollRow
  <2>. QED BY <1>2, <2>1 DEF PollMark, Marked
<1>3. ASSUME NEW p \in Polls, PollAnswer(p) PROVE DispatchedIsHeld'
  <2>1. \A q \in Polls \ {p} : poll'[q] = poll[q]
    BY <1>3 DEF PollAnswer
  <2>2. \A a \in Actions : a \in poll[p].rows => a \in lost' \/ task'[a] # NoTask
    BY <1>3 DEF PollAnswer, NoTask
  <2>3. \A a \in Actions : a \notin poll[p].rows => (task'[a] = task[a] /\ (a \in lost => a \in lost'))
    BY <1>3 DEF PollAnswer
  <2>. QED BY <1>3, <2>1, <2>2, <2>3 DEF PollAnswer
<1>4. ASSUME NEW p \in Polls, AgentPolls(p) PROVE DispatchedIsHeld'
  <2>1. \A q \in Polls : poll'[q].rows = poll[q].rows
    BY <1>4 DEF AgentPolls, PollRow
  <2>. QED BY <1>4, <2>1 DEF AgentPolls
<1>5. CASE PollFails
  <2>1. CASE UNCHANGED poll
    BY <1>5, <2>1 DEF PollFails
  <2>2. CASE poll[awaits].at = "asked" /\ poll' = [poll EXCEPT ![awaits] = FreePoll]
    <3>1. awaits \in Polls /\ poll[awaits].rows = {}
      BY <1>5, <2>2 DEF PollFails, BegunInv, RowsWhileSelected
    <3>2. \A q \in Polls \ {awaits} : poll'[q] = poll[q]
      BY <2>2
    <3>. QED BY <1>5, <3>1, <3>2 DEF PollFails
  <2>. QED BY <1>5, <2>1, <2>2 DEF PollFails
<1>6. CASE AgentDies
  BY <1>6 DEF AgentDies
<1>7. CASE AgentStarts
  BY <1>7 DEF AgentStarts
<1>8. ASSUME NEW a \in Actions, Queue(a) PROVE DispatchedIsHeld'
  BY <1>8 DEF Queue
<1>9. ASSUME NEW a \in Actions, TaskFetch(a) PROVE DispatchedIsHeld'
  <2>1. \A b \in Actions : task[b] # NoTask => task'[b] # NoTask
    BY <1>9 DEF TaskFetch, TaskRow, NoTask
  <2>. QED BY <1>9, <2>1 DEF TaskFetch
<1>10. ASSUME NEW a \in Actions, TaskEnds(a) PROVE DispatchedIsHeld'
  <2>1. \A b \in Actions : task[b] # NoTask => task'[b] # NoTask
    <3>1. task'[a].at \in Final \cup {"hangs"} /\ \A b \in Actions \ {a} : task'[b] = task[b]
      BY <1>10 DEF TaskEnds, TaskRow
    <3>. QED BY <3>1 DEF NoTask, Final
  <2>. QED BY <1>10, <2>1 DEF TaskEnds
<1>11. ASSUME NEW a \in Actions, TaskReports(a) PROVE DispatchedIsHeld'
  <2>1. \A b \in Actions \ {a} : task'[b] = task[b] /\ status'[b] = status[b]
    BY <1>11 DEF TaskReports
  <2>2. a \in lost' \/ status'[a] # "dispatched"
    BY <1>11 DEF TaskReports, Reportable, Final
  <2>. QED BY <1>11, <2>1, <2>2 DEF TaskReports
<1>12. CASE UNCHANGED <<status, poll, up, awaits, task, starts, lost, faults>>
  BY <1>12
<1>. QED BY <1>1, <1>2, <1>3, <1>4, <1>5, <1>6, <1>7, <1>8, <1>9, <1>10, <1>11, <1>12, WorkSteps

\* A dispatched action is carried by a poll or run by a task, or a fault or an
\* endless script cut it off (pendingActionsForDevice, reportActionResult, run_device_action).
THEOREM DispatchedActionsHeld == Spec => []DispatchedIsHeld
<1>1. Init => BegunInv /\ DispatchedIsHeld
  BY DEF Init, BegunInv, FreshUntilDispatched, AwaitedIsFresh, RowsWhileSelected, FetchBeforeStart,
         BegunOnce, DispatchedIsHeld, FreePoll, NoTask
<1>. QED BY <1>1, BegunStep, HeldStep, TypeCorrect, PTL DEF Spec

-----------------------------------------------------------------------------
(***************************************************************************)
(* For any delay, window and set of ticket modes: an offline alert gets    *)
(* one ticket at the most. The sweep decides in one statement and opens    *)
(* the ticket in a later one; what it read stays true in between, since    *)
(* nothing but the sweep opens or links.                                   *)
(***************************************************************************)

Alert == [state : {"none", "new", "open"}, tickets : Nat, linked : BOOLEAN,
          due : Nat \cup {NoTicket}, seen : BOOLEAN]
Progress == [at : {"idle", "open", "due", "ticket", "recover", "disk", "commit"},
             stale : BOOLEAN, due : BOOLEAN, seen : BOOLEAN]

AlertTypeOK ==
  /\ mode \in Nat \cup {NoTicket}
  /\ silent \in Nat
  /\ sample \in [disk : {"none", "low", "high"}, age : Nat]
  /\ highAge \in Nat
  /\ offline \in Alert
  /\ disk \in {"none", "open"}
  /\ sweep \in Progress
  /\ raisedOn \in {"none", "low", "high"}

\* An alert is linked to the one ticket opened for it, or has none.
TicketsLinked == offline.tickets = IF offline.linked THEN 1 ELSE 0

\* The alert that the sweep read as due for a ticket has none yet, unless it is gone.
DueIsUnlinked ==
  sweep.at = "ticket" /\ sweep.due /\ offline.state # "none" => ~offline.linked

TicketInv == TicketsLinked /\ DueIsUnlinked

LEMMA NoAlertType == NoAlert \in Alert /\ NoAlert.tickets = 0 /\ ~NoAlert.linked /\ NoAlert.state = "none"
  BY DEF NoAlert, Alert

\* An alert with one field changed is an alert, and its tickets stay as they are.
LEMMA AlertFields ==
  ASSUME NEW alert \in Alert
  PROVE  /\ [alert EXCEPT !.seen = TRUE] \in Alert
         /\ [alert EXCEPT !.state = "open"] \in Alert
         /\ \A n \in Nat : [alert EXCEPT !.due = n] \in Alert
  BY DEF Alert

LEMMA TicketedAlert ==
  ASSUME NEW alert \in Alert
  PROVE  [alert EXCEPT !.tickets = @ + 1, !.linked = TRUE] \in Alert
<1>1. [alert EXCEPT !.tickets = @ + 1] \in Alert
  BY DEF Alert
<1>2. [[alert EXCEPT !.tickets = @ + 1] EXCEPT !.linked = TRUE] \in Alert
  BY <1>1 DEF Alert
<1>. QED BY <1>2

LEMMA SweepFields ==
  ASSUME NEW s \in Progress
  PROVE  /\ \A at \in {"idle", "open", "due", "ticket", "recover", "disk", "commit"} : [s EXCEPT !.at = at] \in Progress
         /\ \A d \in BOOLEAN : [s EXCEPT !.due = d] \in Progress
         /\ [s EXCEPT !.seen = TRUE] \in Progress
  BY DEF Progress

-----------------------------------------------------------------------------
(* The types, by the part of the system that acts *)

LEMMA ReportsType ==
  ASSUME AlertTypeOK, Tick \/ (\E m \in TicketModes : SetPolicy(m)) \/ Heartbeat
                      \/ \E reading \in {"low", "high"} : Metrics(reading)
  PROVE  AlertTypeOK'
<1> USE AgesAssumption, ModesAssumption, NoAlertType, AlertFields, SweepFields DEF AlertTypeOK
<1>1. CASE Tick
  <2>1. \A age, limit \in Nat : Older(age, limit) \in Nat
    BY DEF Older
  <2>2. silent' \in Nat /\ highAge' \in Nat
    BY <1>1, <2>1 DEF Tick
  <2>3. sample' \in [disk : {"none", "low", "high"}, age : Nat]
    <3>1. sample' = [sample EXCEPT !.age = Older(sample.age, Window)]
      BY <1>1 DEF Tick
    <3>2. Older(sample.age, Window) \in Nat
      BY <2>1
    <3>. QED BY <3>1, <3>2
  <2>4. offline' \in Alert
    <3>1. CASE offline.due \in Nat \ {0}
      <4>1. offline' = [offline EXCEPT !.due = offline.due - 1] /\ offline.due - 1 \in Nat
        BY <1>1, <3>1 DEF Tick
      <4>. QED BY <4>1
    <3>. QED BY <1>1, <3>1 DEF Tick
  <2>. QED BY <1>1, <2>2, <2>3, <2>4 DEF Tick
<1>2. CASE \E m \in TicketModes : SetPolicy(m)
  BY <1>2 DEF SetPolicy
<1>3. CASE Heartbeat
  <2>1. offline' \in Alert
    BY <1>3 DEF Heartbeat
  <2>2. sweep' \in Progress
    BY <1>3 DEF Heartbeat, Heard
  <2>. QED BY <1>3, <2>1, <2>2 DEF Heartbeat
<1>4. CASE \E reading \in {"low", "high"} : Metrics(reading)
  <2>1. offline' \in Alert
    BY <1>4 DEF Metrics
  <2>2. sweep' \in Progress
    BY <1>4 DEF Metrics, Heard
  <2>. QED BY <1>4, <2>1, <2>2 DEF Metrics
<1>. QED BY <1>1, <1>2, <1>3, <1>4

LEMMA SweepType ==
  ASSUME AlertTypeOK, Sweep
  PROVE  AlertTypeOK'
<1> USE NoAlertType, AlertFields, SweepFields, TicketedAlert DEF AlertTypeOK
<1>1. CASE SweepLooks
  <2>1. PICK passedOver \in BOOLEAN :
          sweep' = [at |-> "open", stale |-> silent = OfflineAfter /\ ~passedOver, due |-> FALSE, seen |-> FALSE]
    BY <1>1 DEF SweepLooks
  <2>2. (silent = OfflineAfter /\ ~passedOver) \in BOOLEAN
    OBVIOUS
  <2>3. sweep' \in Progress
    BY <2>1, <2>2 DEF Progress
  <2>. QED BY <1>1, <2>3 DEF SweepLooks
<1>2. CASE SweepOpens
  <2>1. offline' \in Alert
    BY <1>2 DEF SweepOpens, Alert, Progress
  <2>. QED BY <1>2, <2>1 DEF SweepOpens
<1>3. CASE SweepReadsDue
  <2>1. Due \in BOOLEAN
    BY DEF Due, Alert
  <2>2. [[sweep EXCEPT !.at = "ticket"] EXCEPT !.due = Due] \in Progress
    BY <2>1
  <2>3. sweep' = [[sweep EXCEPT !.at = "ticket"] EXCEPT !.due = Due]
    BY <1>3 DEF SweepReadsDue
  <2>. QED BY <1>3, <2>2, <2>3 DEF SweepReadsDue
<1>4. CASE SweepOpensTicket
  BY <1>4 DEF SweepOpensTicket
<1>5. CASE SweepRecovers \/ SweepDisk \/ SweepCommits
  <2>1. IdleSweep \in Progress
    BY DEF IdleSweep, Progress
  <2>. QED BY <1>5, <2>1 DEF SweepRecovers, SweepDisk, SweepCommits
<1>. QED BY <1>1, <1>2, <1>3, <1>4, <1>5 DEF Sweep

LEMMA TypeStep == AlertTypeOK /\ [AlertNext]_alertVars => AlertTypeOK'
<1>1. ASSUME AlertTypeOK, UNCHANGED alertVars PROVE AlertTypeOK'
  BY <1>1 DEF AlertTypeOK, alertVars
<1>. QED BY <1>1, ReportsType, SweepType DEF AlertNext

LEMMA Invariant == AlertSpec => [](AlertTypeOK /\ TicketInv)
<1>1. AlertInit => AlertTypeOK /\ TicketInv
  <2> SUFFICES ASSUME AlertInit PROVE AlertTypeOK /\ TicketInv
    OBVIOUS
  <2>1. AlertTypeOK
    BY AgesAssumption, ModesAssumption, NoAlertType DEF AlertInit, AlertTypeOK, IdleSweep, Progress
  <2>2. TicketInv
    BY NoAlertType DEF AlertInit, TicketInv, TicketsLinked, DueIsUnlinked, IdleSweep
  <2>. QED BY <2>1, <2>2
<1>2. AlertTypeOK /\ TicketInv /\ [AlertNext]_alertVars => TicketInv'
  <2> SUFFICES ASSUME AlertTypeOK, TicketInv, [AlertNext]_alertVars PROVE TicketInv'
    OBVIOUS
  <2> USE NoAlertType DEF AlertTypeOK, TicketInv, TicketsLinked, DueIsUnlinked, Alert, Progress
  <2>1. CASE Tick
    BY <2>1 DEF Tick
  <2>2. CASE \E m \in TicketModes : SetPolicy(m)
    BY <2>2 DEF SetPolicy
  <2>3. CASE Heartbeat
    BY <2>3 DEF Heartbeat, Heard
  <2>4. CASE \E reading \in {"low", "high"} : Metrics(reading)
    BY <2>4 DEF Metrics, Heard
  <2>5. CASE SweepLooks
    BY <2>5 DEF SweepLooks
  <2>6. CASE SweepOpens
    BY <2>6 DEF SweepOpens
  <2>7. CASE SweepReadsDue
    BY <2>7 DEF SweepReadsDue, Due
  <2>8. CASE SweepOpensTicket
    BY <2>8 DEF SweepOpensTicket
  <2>9. CASE SweepRecovers \/ SweepDisk \/ SweepCommits
    BY <2>9 DEF SweepRecovers, SweepDisk, SweepCommits, IdleSweep
  <2>10. CASE UNCHANGED alertVars
    BY <2>10 DEF alertVars
  <2>. QED BY <2>1, <2>2, <2>3, <2>4, <2>5, <2>6, <2>7, <2>8, <2>9, <2>10 DEF AlertNext, Sweep
<1>. QED BY <1>1, <1>2, TypeStep, PTL DEF AlertSpec

\* Every variable has a value the code can give it.
THEOREM AlertTypeCorrect == AlertSpec => []AlertTypeOK
<1>1. AlertTypeOK /\ TicketInv => AlertTypeOK
  OBVIOUS
<1>. QED BY <1>1, Invariant, PTL

\* However the sweep's statements and the device's reports fall, an offline alert
\* gets one ticket at the most (createAvailabilityAlert, createDueTicket).
THEOREM OneTicketForAnAlert == AlertSpec => []OneTicketPerAlert
<1>1. AlertTypeOK /\ TicketInv => OneTicketPerAlert
  BY DEF AlertTypeOK, TicketInv, TicketsLinked, OneTicketPerAlert, Alert
<1>. QED BY <1>1, Invariant, PTL
=============================================================================
