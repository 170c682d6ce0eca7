--------------------------- MODULE AiWorkerProofs ---------------------------
(***************************************************************************)
(* For any number of runs, chains, plans, policy changes and faults: no    *)
(* tool that the policy gates is about to run, a row and the steps written *)
(* with it agree, and a step is called again only as often as technicians  *)
(* approved steps of its run. A chain works on a copy of the steps, and    *)
(* others replace the row meanwhile, so that each invariant says something *)
(* of every copy and of every row: GateInv what it may still await, TieInv *)
(* which device action a step was sent as and who carries it, CountInv how *)
(* many calls of a step are still possible.                                *)
(***************************************************************************)
EXTENDS AiWorker, SequenceTheorems, FiniteSetTheorems, WellFoundedInduction, TLAPS

StepStatus ==
  {"pending", "awaiting_approval", "running", "succeeded", "failed", "dispatched", "denied"}
Step == [tool : Tools, status : StepStatus, approved : BOOLEAN, action : Nat]
Steps == Seq(Step)
RunStatus ==
  {"none", "running", "waiting_approval", "waiting_action", "handoff", "resolved", "cancelled", "failed"}
RunRow == [status : RunStatus, steps : Steps]
Pc ==
  {"idle", "check_active", "insert", "advance", "plan", "exec", "tool", "record", "dispatch", "hand",
   "approve", "deny", "resume", "resume_write"}
Chain ==
  [pc : Pc, run : Runs \cup {"none"}, planning : BOOLEAN, gated : SUBSET Gateable,
   steps : Steps, at : Nat, action : Nat]
Action == [run : Runs, step : Nat, status : {"pending", "dispatched", "succeeded", "failed"}]

TypeOK ==
  /\ run \in [Runs -> RunRow]
  /\ task \in [Tasks -> Chain]
  /\ action \in Seq(Action)
  /\ gated \in SUBSET Gateable

\* What a row may await: nothing while the run is carried on, one step while it waits.
RowOK(row) ==
  /\ row.status \in {"running", "waiting_action"} => AwaitingSteps(row.steps) = {}
  /\ row.status = "waiting_approval" => \A i, j \in AwaitingSteps(row.steps) : i = j

\* What the copy of a chain may await: nothing once it executes, the step that
\* is decided on while a technician's answer is written. A tool about to run is
\* one that the policy it read lets run.
ChainOK(c) ==
  /\ c.pc \in {"idle", "check_active", "insert"} \/ c.run \in Runs
  /\ c.pc \in {"exec", "tool", "record", "dispatch", "resume_write"} => AwaitingSteps(c.steps) = {}
  /\ c.pc \in {"approve", "deny"} => AwaitingSteps(c.steps) \subseteq {c.at}
  /\ c.pc = "tool" => c.at \in DOMAIN c.steps /\ c.steps[c.at].tool \notin c.gated

GateInv == (\A r \in Runs : RowOK(run[r])) /\ (\A t \in Tasks : ChainOK(task[t]))

-----------------------------------------------------------------------------
(* Lists of steps *)

\* The least element of a set of naturals, by the order being well founded.
LEMMA FirstIn ==
  ASSUME NEW S \in SUBSET Nat, S # {}
  PROVE  First(S) \in S /\ \A j \in S : First(S) <= j
<1>1. PICK x \in S : \A y \in S : ~(<<y, x>> \in OpToRel(<, Nat))
  BY NatLessThanWellFounded, WFMin
<1>2. \A y \in S : ~(y < x)
  BY <1>1, Zenon DEF OpToRel
<1>3. \A y \in S : x <= y
  BY <1>2
<1>. QED BY <1>3 DEF First

LEMMA StepFields ==
  ASSUME NEW e \in Step
  PROVE  /\ \A st \in StepStatus : [e EXCEPT !.status = st] \in Step
         /\ [e EXCEPT !.approved = TRUE] \in Step
         /\ \A n \in Nat : [e EXCEPT !.action = n] \in Step
  BY DEF Step

LEMMA StepAt == \A s \in Steps : DOMAIN s = 1..Len(s) /\ \A i \in DOMAIN s : s[i] \in Step
  BY DEF Steps

\* A list with one step replaced.
LEMMA StepReplaced ==
  ASSUME NEW s \in Steps, NEW i, NEW e, i \in DOMAIN s => e \in Step
  PROVE  /\ [s EXCEPT ![i] = e] \in Steps
         /\ DOMAIN [s EXCEPT ![i] = e] = DOMAIN s
         /\ \A j \in DOMAIN s : [s EXCEPT ![i] = e][j] = IF j = i THEN e ELSE s[j]
<1>1. CASE i \in DOMAIN s
  <2>1. i \in 1..Len(s) /\ e \in Step
    BY <1>1, StepAt
  <2>. QED BY <2>1, ExceptSeq, StepAt DEF Steps
<1>2. CASE i \notin DOMAIN s
  <2>1. [s EXCEPT ![i] = e] = s
    BY <1>2 DEF Steps
  <2>. QED BY <1>2, <2>1
<1>. QED BY <1>1, <1>2

LEMMA StatusSet ==
  ASSUME NEW s \in Steps, NEW i, NEW st \in StepStatus
  PROVE  /\ [s EXCEPT ![i].status = st] \in Steps
         /\ AwaitingSteps([s EXCEPT ![i].status = st])
              = IF st = "awaiting_approval" THEN AwaitingSteps(s) \cup ({i} \cap DOMAIN s)
                ELSE AwaitingSteps(s) \ {i}
<1>1. i \in DOMAIN s => s[i] \in Step /\ [s[i] EXCEPT !.status = st] \in Step
  BY StepFields, StepAt
<1>2. i \in DOMAIN s => [s[i] EXCEPT !.status = st].status = st
  BY <1>1 DEF Step
<1>. DEFINE e == [s[i] EXCEPT !.status = st]
            s2 == [s EXCEPT ![i] = e]
<1>3. /\ s2 \in Steps
      /\ DOMAIN s2 = DOMAIN s
      /\ \A j \in DOMAIN s : s2[j] = IF j = i THEN e ELSE s[j]
  <2>. HIDE DEF e
  <2>. QED BY <1>1, StepReplaced DEF e
<1>4. \A j \in DOMAIN s : s2[j].status = IF j = i THEN st ELSE s[j].status
  BY <1>2, <1>3
<1>5. AwaitingSteps(s2) = IF st = "awaiting_approval" THEN AwaitingSteps(s) \cup ({i} \cap DOMAIN s)
                          ELSE AwaitingSteps(s) \ {i}
  <2>. HIDE DEF s2
  <2>. QED BY <1>3, <1>4 DEF AwaitingSteps
<1>. QED BY <1>3, <1>5

LEMMA StepAsked ==
  ASSUME NEW s \in Steps, NEW i \in DOMAIN s
  PROVE  LET asked == [s EXCEPT ![i].status = "awaiting_approval"]
         IN  asked \in Steps /\ AwaitingSteps(asked) = AwaitingSteps(s) \cup {i}
<1>1. "awaiting_approval" \in StepStatus
  BY DEF StepStatus
<1>2. AwaitingSteps([s EXCEPT ![i].status = "awaiting_approval"]) = AwaitingSteps(s) \cup ({i} \cap DOMAIN s)
  BY <1>1, StatusSet
<1>3. [s EXCEPT ![i].status = "awaiting_approval"] \in Steps
  BY <1>1, StatusSet
<1>. QED BY <1>2, <1>3

LEMMA StepUpdated ==
  ASSUME NEW s \in Steps, NEW i, NEW st \in StepStatus \ {"awaiting_approval"}
  PROVE  LET updated == [s EXCEPT ![i].status = st]
         IN  updated \in Steps /\ AwaitingSteps(updated) = AwaitingSteps(s) \ {i}
<1>1. AwaitingSteps([s EXCEPT ![i].status = st]) = AwaitingSteps(s) \ {i}
  BY StatusSet
<1>2. [s EXCEPT ![i].status = st] \in Steps
  BY StatusSet
<1>. QED BY <1>1, <1>2

LEMMA ToolKept ==
  ASSUME NEW s \in Steps, NEW i \in DOMAIN s, NEW st \in StepStatus
  PROVE  LET updated == [s EXCEPT ![i].status = st]
         IN  i \in DOMAIN updated /\ updated[i].tool = s[i].tool
<1>1. [s EXCEPT ![i].status = st][i] = [s[i] EXCEPT !.status = st]
  BY DEF Steps
<1>2. s[i] \in Step
  BY StepAt
<1>. QED BY <1>1, <1>2 DEF Step, Steps

\* Who approved a step, and its device action, do not count for what is awaited.
LEMMA OtherFieldSet ==
  ASSUME NEW s \in Steps, NEW i, NEW e, i \in DOMAIN s => e \in Step /\ e.status = s[i].status
  PROVE  [s EXCEPT ![i] = e] \in Steps /\ AwaitingSteps([s EXCEPT ![i] = e]) = AwaitingSteps(s)
<1>. DEFINE s2 == [s EXCEPT ![i] = e]
<1>1. s2 \in Steps /\ DOMAIN s2 = DOMAIN s /\ \A j \in DOMAIN s : s2[j] = IF j = i THEN e ELSE s[j]
  BY StepReplaced
<1>2. AwaitingSteps(s2) = AwaitingSteps(s)
  <2>. HIDE DEF s2
  <2>. QED BY <1>1 DEF AwaitingSteps
<1>. QED BY <1>1, <1>2

LEMMA ApprovedSet ==
  ASSUME NEW s \in Steps, NEW i
  PROVE  [s EXCEPT ![i].approved = TRUE] \in Steps
         /\ AwaitingSteps([s EXCEPT ![i].approved = TRUE]) = AwaitingSteps(s)
<1>1. i \in DOMAIN s => s[i] \in Step /\ [s[i] EXCEPT !.approved = TRUE] \in Step
  BY StepFields, StepAt
<1>2. i \in DOMAIN s => [s[i] EXCEPT !.approved = TRUE].status = s[i].status
  BY <1>1 DEF Step
<1>. QED BY <1>1, <1>2, OtherFieldSet

LEMMA ActionSet ==
  ASSUME NEW s \in Steps, NEW i, NEW n \in Nat
  PROVE  [s EXCEPT ![i].action = n] \in Steps
         /\ AwaitingSteps([s EXCEPT ![i].action = n]) = AwaitingSteps(s)
<1>1. i \in DOMAIN s => s[i] \in Step /\ [s[i] EXCEPT !.action = n] \in Step
  BY StepFields, StepAt
<1>2. i \in DOMAIN s => [s[i] EXCEPT !.action = n].status = s[i].status
  BY <1>1 DEF Step
<1>. QED BY <1>1, <1>2, OtherFieldSet

-----------------------------------------------------------------------------
(* Chains and rows *)

LEMMA ChainFields ==
  ASSUME NEW c \in Chain
  PROVE  /\ \A v \in Pc : LET d == [c EXCEPT !.pc = v]
            IN  d \in Chain /\ d.pc = v /\ d.run = c.run /\ d.steps = c.steps /\ d.at = c.at /\ d.gated = c.gated
         /\ \A v \in Steps : LET d == [c EXCEPT !.steps = v]
            IN  d \in Chain /\ d.pc = c.pc /\ d.run = c.run /\ d.steps = v /\ d.at = c.at /\ d.gated = c.gated
         /\ \A v \in Nat : LET d == [c EXCEPT !.at = v]
            IN  d \in Chain /\ d.pc = c.pc /\ d.run = c.run /\ d.steps = c.steps /\ d.at = v /\ d.gated = c.gated
         /\ \A v \in SUBSET Gateable : LET d == [c EXCEPT !.gated = v]
            IN  d \in Chain /\ d.pc = c.pc /\ d.run = c.run /\ d.steps = c.steps /\ d.at = c.at /\ d.gated = v
         /\ \A v \in Runs \cup {"none"} : LET d == [c EXCEPT !.run = v]
            IN  d \in Chain /\ d.pc = c.pc /\ d.run = v /\ d.steps = c.steps /\ d.at = c.at /\ d.gated = c.gated
         /\ \A v \in Nat : LET d == [c EXCEPT !.action = v]
            IN  d \in Chain /\ d.pc = c.pc /\ d.run = c.run /\ d.steps = c.steps /\ d.at = c.at /\ d.gated = c.gated
         /\ \A v \in BOOLEAN : LET d == [c EXCEPT !.planning = v]
            IN  d \in Chain /\ d.pc = c.pc /\ d.run = c.run /\ d.steps = c.steps /\ d.at = c.at /\ d.gated = c.gated
  BY DEF Chain

LEMMA IdleChain == Idle \in Chain /\ ChainOK(Idle)
  BY DEF Idle, Chain, ChainOK, Pc, Steps

\* One chain moves on, and the row of one run is written or none is.
LEMMA ChainMoves ==
  ASSUME TypeOK, GateInv, NEW t \in Tasks, NEW c \in Chain, ChainOK(c), task' = [task EXCEPT ![t] = c]
  PROVE  task' \in [Tasks -> Chain] /\ \A u \in Tasks : ChainOK(task'[u])
  BY DEF TypeOK, GateInv

LEMMA RowWritten ==
  ASSUME TypeOK, GateInv, NEW r, NEW steps \in Steps, NEW status \in RunStatus,
         RowOK([status |-> status, steps |-> steps]), WriteRow(r, steps, status)
  PROVE  run' \in [Runs -> RunRow] /\ \A q \in Runs : RowOK(run'[q])
<1>1. [status |-> status, steps |-> steps] \in RunRow
  BY DEF RunRow
<1>. QED BY <1>1 DEF TypeOK, GateInv, WriteRow

\* A status that is written alone is one that awaits nothing.
LEMMA StatusWritten ==
  ASSUME TypeOK, GateInv, NEW r, NEW status \in {"handoff", "resolved", "cancelled", "failed"},
         WriteStatus(r, status)
  PROVE  run' \in [Runs -> RunRow] /\ \A q \in Runs : RowOK(run'[q])
<1>1. \A q \in Runs : [run[q] EXCEPT !.status = status] \in RunRow
                      /\ [run[q] EXCEPT !.status = status].status = status
  BY DEF TypeOK, RunRow, RunStatus
<1>2. \A q \in Runs : RowOK([run[q] EXCEPT !.status = status])
  BY <1>1 DEF RowOK
<1>. QED BY <1>1, <1>2 DEF TypeOK, GateInv, WriteStatus

\* The last field of a chain that an action writes, and the rest of the state.
LEMMA Moved ==
  ASSUME TypeOK, GateInv, NEW t \in Tasks, NEW c \in Chain, ChainOK(c), task' = [task EXCEPT ![t] = c],
         run' \in [Runs -> RunRow] /\ \A q \in Runs : RowOK(run'[q]),
         action' \in Seq(Action), gated' \in SUBSET Gateable
  PROVE  TypeOK' /\ GateInv'
  BY ChainMoves DEF TypeOK, GateInv

LEMMA Ended ==
  ASSUME TypeOK, GateInv, NEW t \in Tasks, End(t),
         run' \in [Runs -> RunRow] /\ \A q \in Runs : RowOK(run'[q]),
         UNCHANGED <<action, gated>>
  PROVE  TypeOK' /\ GateInv'
  BY Moved, IdleChain DEF End, TypeOK

LEMMA RowsStay ==
  ASSUME TypeOK, GateInv, UNCHANGED run
  PROVE  run' \in [Runs -> RunRow] /\ \A q \in Runs : RowOK(run'[q])
  BY DEF TypeOK, GateInv

\* A chain goes on with the copy it has, to where nothing more is asked of the copy.
LEMMA Goes ==
  ASSUME TypeOK, GateInv, NEW t \in Tasks, NEW pc \in Pc, Goto(t, pc),
         ChainOK([task[t] EXCEPT !.pc = pc]),
         run' \in [Runs -> RunRow] /\ \A q \in Runs : RowOK(run'[q]),
         UNCHANGED <<action, gated>>
  PROVE  TypeOK' /\ GateInv'
<1>1. [task[t] EXCEPT !.pc = pc] \in Chain
  BY ChainFields DEF TypeOK
<1>2. task' = [task EXCEPT ![t] = [task[t] EXCEPT !.pc = pc]]
  BY DEF Goto
<1>. HIDE DEF ChainOK
<1>. QED BY <1>1, <1>2, Moved DEF TypeOK

LEMMA CreateStep ==
  ASSUME TypeOK, GateInv, NEW t \in Tasks,
         CreateReadTicket(t) \/ CreateCheckActive(t) \/ \E r \in Runs : CreateInsert(t, r)
  PROVE  TypeOK' /\ GateInv'
<1>1. CASE CreateReadTicket(t)
  <2>1. Goto(t, "check_active") /\ UNCHANGED <<run, action, gated>>
    BY <1>1 DEF CreateReadTicket
  <2>2. ChainOK([task[t] EXCEPT !.pc = "check_active"])
    BY ChainFields DEF TypeOK, ChainOK, Pc
  <2>3. "check_active" \in Pc
    BY DEF Pc
  <2>. QED BY <2>1, <2>2, <2>3, Goes, RowsStay
<1>2. CASE CreateCheckActive(t)
  <2>1. End(t) \/ Goto(t, "insert")
    BY <1>2 DEF CreateCheckActive
  <2>2. UNCHANGED <<run, action, gated>>
    BY <1>2 DEF CreateCheckActive
  <2>3. ChainOK([task[t] EXCEPT !.pc = "insert"])
    BY ChainFields DEF TypeOK, ChainOK, Pc
  <2>4. "insert" \in Pc
    BY DEF Pc
  <2>. QED BY <2>1, <2>2, <2>3, <2>4, Goes, Ended, RowsStay
<1>3. ASSUME NEW r \in Runs, CreateInsert(t, r) PROVE TypeOK' /\ GateInv'
  <2>1. WriteRow(r, << >>, "running") /\ UNCHANGED <<action, gated>>
    BY <1>3 DEF CreateInsert
  <2>2. << >> \in Steps /\ RowOK([status |-> "running", steps |-> << >>]) /\ "running" \in RunStatus
    BY DEF Steps, RowOK, AwaitingSteps, RunStatus
  <2>. DEFINE c1 == [task[t] EXCEPT !.pc = "advance"]
              c2 == [c1 EXCEPT !.run = r]
              c3 == [c2 EXCEPT !.planning = TRUE]
  <2>3. c1 \in Chain /\ c1.pc = "advance"
    <3>1. "advance" \in Pc /\ task[t] \in Chain
      BY DEF TypeOK, Pc
    <3>. QED BY <3>1, ChainFields
  <2>4. c2 \in Chain /\ c2.pc = "advance" /\ c2.run = r
    <3>. HIDE DEF c1
    <3>. QED BY <2>3, ChainFields
  <2>5. c3 \in Chain /\ c3.pc = "advance" /\ c3.run = r
    <3>. HIDE DEF c2
    <3>. QED BY <2>4, ChainFields
  <2>6. ChainOK(c3)
    <3>. HIDE DEF c3
    <3>. QED BY <2>5 DEF ChainOK
  <2>7. task' = [task EXCEPT ![t] = c3]
    BY <1>3 DEF CreateInsert, TypeOK
  <2>. HIDE DEF c3
  <2>. QED BY <2>1, <2>2, <2>5, <2>6, <2>7, RowWritten, Moved DEF TypeOK
<1>. QED BY <1>1, <1>2, <1>3

LEMMA PlanStep ==
  ASSUME TypeOK, GateInv, NEW t \in Tasks,
         AdvanceRun(t) \/ PlanUnusable(t) \/ \E p \in Plans : PlanRun(t, p)
  PROVE  TypeOK' /\ GateInv'
<1>1. CASE AdvanceRun(t)
  <2>1. UNCHANGED <<run, action, gated>>
    BY <1>1 DEF AdvanceRun
  <2>2. CASE End(t)
    BY <2>1, <2>2, Ended, RowsStay
  <2>3. CASE ~End(t)
    <3>. DEFINE row == run[task[t].run]
                pc == IF task[t].planning THEN "plan" ELSE "exec"
                c1 == [task[t] EXCEPT !.pc = pc]
                c2 == [c1 EXCEPT !.gated = gated]
                c3 == [c2 EXCEPT !.steps = row.steps]
    <3>1. /\ row.status \in {"running", "waiting_action"}
          /\ task' = [task EXCEPT ![t] = c3]
      BY <1>1, <2>3 DEF AdvanceRun
    <3>2. task[t].run \in Runs
      BY <1>1 DEF AdvanceRun, At, GateInv, ChainOK
    <3>3. row.steps \in Steps /\ AwaitingSteps(row.steps) = {}
      BY <3>1, <3>2 DEF TypeOK, GateInv, RowOK, RunRow
    <3>4. pc \in Pc /\ pc \in {"plan", "exec"} /\ task[t] \in Chain
      BY DEF Pc, TypeOK
    <3>5. c1 \in Chain /\ c1.pc = pc /\ c1.run = task[t].run
      <4>. HIDE DEF pc
      <4>. QED BY <3>4, ChainFields
    <3>6. c2 \in Chain /\ c2.pc = pc /\ c2.run = task[t].run
      <4>1. gated \in SUBSET Gateable
        BY DEF TypeOK
      <4>. HIDE DEF c1, pc
      <4>. QED BY <3>5, <4>1, ChainFields
    <3>7. c3 \in Chain /\ c3.pc = pc /\ c3.run = task[t].run /\ c3.steps = row.steps
      <4>. HIDE DEF c2, row
      <4>. QED BY <3>3, <3>6, ChainFields
    <3>8. ChainOK(c3)
      <4>. HIDE DEF c3, pc, row
      <4>. QED BY <3>2, <3>3, <3>4, <3>7 DEF ChainOK
    <3>. HIDE DEF c3
    <3>. QED BY <2>1, <3>1, <3>7, <3>8, RowsStay, Moved DEF TypeOK
  <2>. QED BY <2>2, <2>3
<1>2. CASE PlanUnusable(t)
  BY <1>2, StatusWritten, Ended DEF PlanUnusable
<1>3. ASSUME NEW p \in Plans, PlanRun(t, p) PROVE TypeOK' /\ GateInv'
  <2>. DEFINE steps == [i \in DOMAIN p |-> [tool |-> p[i], status |-> "pending", approved |-> FALSE, action |-> 0]]
              c1 == [task[t] EXCEPT !.pc = "exec"]
              c2 == [c1 EXCEPT !.steps = steps]
  <2>1. /\ WriteRow(task[t].run, steps, "running") /\ UNCHANGED <<action, gated>>
        /\ task' = [task EXCEPT ![t] = c2]
    BY <1>3 DEF PlanRun
  <2>2. steps \in Steps
    <3>1. p \in Seq(Tools) /\ DOMAIN p = 1..Len(p) /\ Len(p) \in Nat /\ \A i \in 1..Len(p) : p[i] \in Tools
      BY PlansAssumption
    <3>2. \A i \in DOMAIN p : [tool |-> p[i], status |-> "pending", approved |-> FALSE, action |-> 0] \in Step
      BY <3>1 DEF Step, StepStatus
    <3>. QED BY <3>1, <3>2 DEF Steps
  <2>3. AwaitingSteps(steps) = {}
    BY DEF AwaitingSteps
  <2>4. c1 \in Chain /\ c1.pc = "exec" /\ c1.run = task[t].run
    <3>1. "exec" \in Pc /\ task[t] \in Chain
      BY DEF TypeOK, Pc
    <3>. QED BY <3>1, ChainFields
  <2>5. c2 \in Chain /\ c2.pc = "exec" /\ c2.run = task[t].run /\ c2.steps = steps
    <3>. HIDE DEF c1, steps
    <3>. QED BY <2>2, <2>4, ChainFields
  <2>6. task[t].run \in Runs
    BY <1>3 DEF PlanRun, At, GateInv, ChainOK
  <2>7. RowOK([status |-> "running", steps |-> steps]) /\ "running" \in RunStatus
    BY <2>3 DEF RowOK, RunStatus
  <2>8. ChainOK(c2)
    <3>. HIDE DEF c2, steps
    <3>. QED BY <2>3, <2>5, <2>6 DEF ChainOK
  <2>. HIDE DEF c2, steps
  <2>. QED BY <2>1, <2>2, <2>5, <2>7, <2>8, RowWritten, Moved DEF TypeOK
<1>. QED BY <1>1, <1>2, <1>3

\* The step that execStep takes, and the one that a technician decides on.
LEMMA UnfinishedFirst ==
  ASSUME NEW s \in Steps, Unfinished(s) # {}
  PROVE  /\ First(Unfinished(s)) \in DOMAIN s /\ First(Unfinished(s)) \in Nat
         /\ s[First(Unfinished(s))].status = "pending" \/ First(Unfinished(s)) \in AwaitingSteps(s)
<1>1. Unfinished(s) \in SUBSET Nat
  BY StepAt DEF Unfinished
<1>2. First(Unfinished(s)) \in Unfinished(s)
  BY <1>1, FirstIn
<1>. QED BY <1>1, <1>2 DEF Unfinished, AwaitingSteps

LEMMA AwaitingFirst ==
  ASSUME NEW s \in Steps, AwaitingSteps(s) # {}
  PROVE  First(AwaitingSteps(s)) \in AwaitingSteps(s) /\ First(AwaitingSteps(s)) \in Nat
<1>1. AwaitingSteps(s) \in SUBSET Nat
  BY StepAt DEF AwaitingSteps
<1>. QED BY <1>1, FirstIn

\* What the chain's own copy is known to be.
LEMMA Copy ==
  ASSUME TypeOK, GateInv, NEW t \in Tasks
  PROVE  /\ task[t] \in Chain /\ ChainOK(task[t])
         /\ task[t].steps \in Steps /\ task[t].at \in Nat /\ task[t].gated \in SUBSET Gateable
         /\ task[t].run \in Runs \cup {"none"}
  BY DEF TypeOK, GateInv, Chain

LEMMA ExecStep ==
  ASSUME TypeOK, GateInv, NEW t \in Tasks, ExecAskApproval(t) \/ ExecStart(t)
  PROVE  TypeOK' /\ GateInv'
<1>. DEFINE s == task[t].steps
            i == First(Unfinished(s))
<1>1. s \in Steps /\ AwaitingSteps(s) = {} /\ task[t] \in Chain /\ task[t].run \in Runs
  BY Copy DEF ExecAskApproval, ExecStart, At, ChainOK
<1>2. i \in DOMAIN s /\ i \in Nat /\ s[i].status = "pending"
  BY <1>1, UnfinishedFirst DEF ExecAskApproval, ExecStart
<1>3. CASE ExecAskApproval(t)
  <2>. DEFINE asked == [s EXCEPT ![i].status = "awaiting_approval"]
  <2>1. WriteRow(task[t].run, asked, "waiting_approval") /\ End(t) /\ UNCHANGED <<action, gated>>
    BY <1>3 DEF ExecAskApproval
  <2>2. asked \in Steps /\ AwaitingSteps(asked) = {i}
    <3>. HIDE DEF s, i
    <3>. QED BY <1>1, <1>2, StepAsked
  <2>3. RowOK([status |-> "waiting_approval", steps |-> asked]) /\ "waiting_approval" \in RunStatus
    <3>. HIDE DEF asked, i
    <3>. QED BY <2>2 DEF RowOK, RunStatus
  <2>. HIDE DEF asked
  <2>. QED BY <2>1, <2>2, <2>3, RowWritten, Ended
<1>4. CASE ExecStart(t)
  <2>. DEFINE started == [s EXCEPT ![i].status = "running"]
              c1 == [task[t] EXCEPT !.pc = "tool"]
              c2 == [c1 EXCEPT !.steps = started]
              c3 == [c2 EXCEPT !.at = i]
  <2>1. /\ WriteRow(task[t].run, started, "running") /\ UNCHANGED <<action, gated>>
        /\ task' = [task EXCEPT ![t] = c3]
    BY <1>4 DEF ExecStart
  <2>2. s[i].tool \notin task[t].gated
    BY <1>2, <1>4 DEF ExecStart, NeedsApproval
  <2>3. /\ started \in Steps /\ AwaitingSteps(started) = {}
        /\ i \in DOMAIN started /\ started[i].tool = s[i].tool
    <3>1. "running" \in StepStatus \ {"awaiting_approval"}
      BY DEF StepStatus
    <3>. HIDE DEF s, i
    <3>2. started \in Steps /\ AwaitingSteps(started) = AwaitingSteps(s) \ {i}
      BY <1>1, <3>1, StepUpdated
    <3>3. i \in DOMAIN started /\ started[i].tool = s[i].tool
      BY <1>1, <1>2, <3>1, ToolKept
    <3>. QED BY <1>1, <3>2, <3>3
  <2>4. RowOK([status |-> "running", steps |-> started]) /\ "running" \in RunStatus
    <3>. HIDE DEF started
    <3>. QED BY <2>3 DEF RowOK, RunStatus
  <2>5. c1 \in Chain /\ c1.pc = "tool" /\ c1.run = task[t].run /\ c1.gated = task[t].gated
    <3>1. "tool" \in Pc
      BY DEF Pc
    <3>. QED BY <1>1, <3>1, ChainFields
  <2>6. c2 \in Chain /\ c2.pc = "tool" /\ c2.run = task[t].run /\ c2.gated = task[t].gated /\ c2.steps = started
    <3>. HIDE DEF c1, started
    <3>. QED BY <2>3, <2>5, ChainFields
  <2>7. /\ c3 \in Chain /\ c3.pc = "tool" /\ c3.run = task[t].run /\ c3.gated = task[t].gated
        /\ c3.steps = started /\ c3.at = i
    <3>. HIDE DEF c2, i
    <3>. QED BY <1>2, <2>6, ChainFields
  <2>8. ChainOK(c3)
    <3>. HIDE DEF c3, started, s, i
    <3>. QED BY <1>1, <2>2, <2>3, <2>7 DEF ChainOK
  <2>. HIDE DEF c3, started
  <2>. QED BY <2>1, <2>3, <2>4, <2>7, <2>8, RowWritten, Moved DEF TypeOK
<1>. QED BY <1>3, <1>4

LEMMA ToolStep ==
  ASSUME TypeOK, GateInv, NEW t \in Tasks, ExecTool(t) \/ ExecToolThrows(t)
  PROVE  TypeOK' /\ GateInv'
<1>. DEFINE s == task[t].steps
            i == task[t].at
            c1 == [task[t] EXCEPT !.pc = "record"]
<1>1. /\ s \in Steps /\ AwaitingSteps(s) = {} /\ i \in Nat
      /\ task[t] \in Chain /\ task[t].run \in Runs
  BY Copy DEF ExecTool, ExecToolThrows, At, ChainOK
<1>2. c1 \in Chain /\ c1.pc = "record" /\ c1.run = task[t].run /\ c1.steps = s /\ c1.at = i
  <2>1. "record" \in Pc
    BY DEF Pc
  <2>. QED BY <1>1, <2>1, ChainFields
<1>3. CASE ExecTool(t)
  <2>. DEFINE n == IF Current(t).tool \in {"script", "restart"} THEN Len(action) + 1 ELSE 0
              done == [s EXCEPT ![i].status = "succeeded"]
              numbered == [done EXCEPT ![i].action = n]
              c2 == [c1 EXCEPT !.steps = numbered]
  <2>1. n \in Nat
    BY DEF TypeOK
  <2>2. UNCHANGED <<run, gated>>
    BY <1>3 DEF ExecTool
  <2>3. action' \in Seq(Action)
    <3>1. action' = action \/ action' = Append(action, [run |-> task[t].run, step |-> i, status |-> "pending"])
      BY <1>3 DEF ExecTool
    <3>2. [run |-> task[t].run, step |-> i, status |-> "pending"] \in Action
      BY <1>1 DEF Action
    <3>. QED BY <3>1, <3>2 DEF TypeOK
  <2>4. done \in Steps /\ AwaitingSteps(done) = {}
    <3>1. "succeeded" \in StepStatus \ {"awaiting_approval"}
      BY DEF StepStatus
    <3>. HIDE DEF s, i
    <3>. QED BY <1>1, <3>1, StepUpdated
  <2>5. numbered \in Steps /\ AwaitingSteps(numbered) = {}
    <3>. HIDE DEF done, n, i
    <3>. QED BY <2>1, <2>4, ActionSet
  <2>6. c2 \in Chain /\ c2.pc = "record" /\ c2.run = task[t].run /\ c2.steps = numbered
    <3>. HIDE DEF c1, numbered
    <3>. QED BY <1>2, <2>5, ChainFields
  <2>7. ChainOK(c2)
    <3>. HIDE DEF c2, numbered
    <3>. QED BY <1>1, <2>5, <2>6 DEF ChainOK
  <2>8. task' = [task EXCEPT ![t] = c2]
    <3>. DEFINE both == [s EXCEPT ![i].status = "succeeded", ![i].action = n]
    <3>1. task' = [task EXCEPT ![t].pc = "record", ![t].steps = both]
      BY <1>3 DEF ExecTool
    <3>2. both = numbered
      BY <1>1 DEF Steps
    <3>3. task' = [task EXCEPT ![t].pc = "record", ![t].steps = numbered]
      <4>. HIDE DEF numbered, both
      <4>. QED BY <3>1, <3>2
    <3>. HIDE DEF numbered
    <3>. QED BY <3>3 DEF TypeOK
  <2>. HIDE DEF c2
  <2>. QED BY <2>2, <2>3, <2>6, <2>7, <2>8, RowsStay, Moved DEF TypeOK
<1>4. CASE ExecToolThrows(t)
  <2>. DEFINE thrown == [s EXCEPT ![i].status = "failed"]
              c2 == [c1 EXCEPT !.steps = thrown]
  <2>1. UNCHANGED <<run, action, gated>>
    BY <1>4 DEF ExecToolThrows
  <2>2. thrown \in Steps /\ AwaitingSteps(thrown) = {}
    <3>1. "failed" \in StepStatus \ {"awaiting_approval"}
      BY DEF StepStatus
    <3>. HIDE DEF s, i
    <3>. QED BY <1>1, <3>1, StepUpdated
  <2>3. c2 \in Chain /\ c2.pc = "record" /\ c2.run = task[t].run /\ c2.steps = thrown
    <3>. HIDE DEF c1, thrown
    <3>. QED BY <1>2, <2>2, ChainFields
  <2>4. ChainOK(c2)
    <3>. HIDE DEF c2, thrown
    <3>. QED BY <1>1, <2>2, <2>3 DEF ChainOK
  <2>5. task' = [task EXCEPT ![t] = c2]
    BY <1>1, <1>4 DEF ExecToolThrows, TypeOK, Chain
  <2>. HIDE DEF c2
  <2>. QED BY <2>1, <2>3, <2>4, <2>5, RowsStay, Moved DEF TypeOK
<1>. QED BY <1>3, <1>4

LEMMA RecordStep ==
  ASSUME TypeOK, GateInv, NEW t \in Tasks, ExecRecord(t) \/ ExecDispatch(t)
  PROVE  TypeOK' /\ GateInv'
<1>. DEFINE s == task[t].steps
<1>1. s \in Steps /\ AwaitingSteps(s) = {} /\ task[t] \in Chain /\ task[t].run \in Runs
  BY Copy DEF ExecRecord, ExecDispatch, At, ChainOK
<1>2. CASE ExecRecord(t)
  <2>1. WriteRow(task[t].run, s, "running") /\ UNCHANGED <<action, gated>>
    BY <1>2 DEF ExecRecord
  <2>2. PICK pc \in {"hand", "dispatch", "exec"} : Goto(t, pc)
    BY <1>2 DEF ExecRecord
  <2>3. RowOK([status |-> "running", steps |-> s]) /\ "running" \in RunStatus /\ pc \in Pc
    BY <1>1, <2>2 DEF RowOK, RunStatus, Pc
  <2>4. ChainOK([task[t] EXCEPT !.pc = pc])
    <3>. DEFINE c == [task[t] EXCEPT !.pc = pc]
    <3>1. c.pc = pc /\ c.run = task[t].run /\ c.steps = s
      BY <1>1, <2>3, ChainFields
    <3>. HIDE DEF c
    <3>. QED BY <1>1, <2>2, <3>1 DEF ChainOK
  <2>. QED BY <1>1, <2>1, <2>2, <2>3, <2>4, RowWritten, Goes
<1>3. CASE ExecDispatch(t)
  <2>. DEFINE sent == [s EXCEPT ![task[t].at].status = "dispatched"]
  <2>1. WriteRow(task[t].run, sent, "waiting_action") /\ End(t) /\ UNCHANGED <<action, gated>>
    BY <1>3 DEF ExecDispatch
  <2>2. sent \in Steps /\ AwaitingSteps(sent) = {}
    <3>1. "dispatched" \in StepStatus \ {"awaiting_approval"}
      BY DEF StepStatus
    <3>. HIDE DEF s
    <3>. QED BY <1>1, <3>1, StepUpdated
  <2>3. RowOK([status |-> "waiting_action", steps |-> sent]) /\ "waiting_action" \in RunStatus
    <3>. HIDE DEF sent
    <3>. QED BY <2>2 DEF RowOK, RunStatus
  <2>. HIDE DEF sent
  <2>. QED BY <2>1, <2>2, <2>3, RowWritten, Ended
<1>. QED BY <1>2, <1>3

LEMMA SettleStep ==
  ASSUME TypeOK, GateInv, NEW t \in Tasks, HandRun(t) \/ FinalizeResolve(t) \/ FinalizeHandoff(t)
  PROVE  TypeOK' /\ GateInv'
<1>1. End(t) /\ UNCHANGED <<action, gated>>
  BY DEF HandRun, FinalizeResolve, FinalizeHandoff
<1>2. WriteStatus(task[t].run, "handoff") \/ WriteStatus(task[t].run, "resolved")
  BY DEF HandRun, FinalizeResolve, FinalizeHandoff
<1>. QED BY <1>1, <1>2, StatusWritten, Ended

LEMMA AnswerReads ==
  ASSUME TypeOK, GateInv, NEW t \in Tasks, NEW r \in Runs, ApproveRead(t, r) \/ DenyRead(t, r)
  PROVE  TypeOK' /\ GateInv'
<1>. DEFINE s == run[r].steps
            i == First(AwaitingSteps(s))
<1>1. PICK pc \in {"approve", "deny"} : ReadAwaiting(t, r, pc)
  BY DEF ApproveRead, DenyRead
<1>2. UNCHANGED <<run, action, gated>>
  BY DEF ApproveRead, DenyRead
<1>3. s \in Steps /\ AwaitingSteps(s) # {} /\ \A j, k \in AwaitingSteps(s) : j = k
  BY <1>1 DEF ReadAwaiting, TypeOK, GateInv, RowOK, RunRow
<1>4. i \in Nat /\ AwaitingSteps(s) = {i}
  <2>1. i \in AwaitingSteps(s) /\ i \in Nat
    BY <1>3, AwaitingFirst
  <2>. HIDE DEF s, i
  <2>. QED BY <1>3, <2>1
<1>. DEFINE c1 == [Idle EXCEPT !.pc = pc]
            c2 == [c1 EXCEPT !.run = r]
            c3 == [c2 EXCEPT !.steps = s]
            c4 == [c3 EXCEPT !.at = i]
<1>5. c1 \in Chain /\ c1.pc = pc
  <2>1. pc \in Pc
    BY DEF Pc
  <2>. QED BY <2>1, IdleChain, ChainFields
<1>6. c2 \in Chain /\ c2.pc = pc /\ c2.run = r
  <2>. HIDE DEF c1
  <2>. QED BY <1>5, ChainFields
<1>7. c3 \in Chain /\ c3.pc = pc /\ c3.run = r /\ c3.steps = s
  <2>. HIDE DEF c2, s
  <2>. QED BY <1>3, <1>6, ChainFields
<1>8. c4 \in Chain /\ c4.pc = pc /\ c4.run = r /\ c4.steps = s /\ c4.at = i
  <2>. HIDE DEF c3, i
  <2>. QED BY <1>4, <1>7, ChainFields
<1>9. ChainOK(c4)
  <2>. HIDE DEF c4, s, i
  <2>. QED BY <1>4, <1>8 DEF ChainOK
<1>10. task' = [task EXCEPT ![t] = c4]
  BY <1>1 DEF ReadAwaiting
<1>. HIDE DEF c4
<1>. QED BY <1>2, <1>8, <1>9, <1>10, RowsStay, Moved DEF TypeOK

LEMMA AnswerWrites ==
  ASSUME TypeOK, GateInv, NEW t \in Tasks, ApproveWrite(t) \/ DenyWrite(t)
  PROVE  TypeOK' /\ GateInv'
<1>. DEFINE s == task[t].steps
            i == task[t].at
            st == IF ApproveWrite(t) THEN "pending" ELSE "denied"
            decided == [s EXCEPT ![i].status = st]
            named == [decided EXCEPT ![i].approved = TRUE]
<1>1. s \in Steps /\ AwaitingSteps(s) \subseteq {i} /\ task[t] \in Chain /\ task[t].run \in Runs
  BY Copy DEF ApproveWrite, DenyWrite, At, ChainOK
<1>2. WriteRow(task[t].run, named, "running") /\ UNCHANGED <<action, gated>>
  <2>1. CASE ApproveWrite(t)
    <3>1. st = "pending"
      BY <2>1
    <3>. QED BY <1>1, <2>1, <3>1 DEF ApproveWrite, Steps
  <2>2. CASE ~ApproveWrite(t)
    <3>1. st = "denied" /\ DenyWrite(t)
      BY <2>2
    <3>. QED BY <1>1, <3>1 DEF DenyWrite, Steps
  <2>. QED BY <2>1, <2>2
<1>3. named \in Steps /\ AwaitingSteps(named) = {}
  <2>1. st \in StepStatus \ {"awaiting_approval"}
    BY DEF StepStatus
  <2>2. decided \in Steps /\ AwaitingSteps(decided) = AwaitingSteps(s) \ {i}
    <3>. HIDE DEF s, i, st
    <3>. QED BY <1>1, <2>1, StepUpdated
  <2>3. named \in Steps /\ AwaitingSteps(named) = AwaitingSteps(decided)
    <3>. HIDE DEF decided, i
    <3>. QED BY <2>2, ApprovedSet
  <2>. HIDE DEF named, decided, s, i
  <2>. QED BY <1>1, <2>2, <2>3
<1>4. run' \in [Runs -> RunRow] /\ \A q \in Runs : RowOK(run'[q])
  <2>. HIDE DEF named
  <2>1. RowOK([status |-> "running", steps |-> named]) /\ "running" \in RunStatus
    BY <1>3 DEF RowOK, RunStatus
  <2>. QED BY <1>2, <1>3, <2>1, RowWritten
<1>5. CASE ApproveWrite(t)
  <2>. DEFINE c1 == [Idle EXCEPT !.pc = "advance"]
              c2 == [c1 EXCEPT !.run = task[t].run]
  <2>1. c1 \in Chain /\ c1.pc = "advance"
    <3>1. "advance" \in Pc
      BY DEF Pc
    <3>. QED BY <3>1, IdleChain, ChainFields
  <2>2. c2 \in Chain /\ c2.pc = "advance" /\ c2.run = task[t].run
    <3>. HIDE DEF c1
    <3>. QED BY <1>1, <2>1, ChainFields
  <2>3. ChainOK(c2)
    <3>. HIDE DEF c2
    <3>. QED BY <1>1, <2>2 DEF ChainOK
  <2>4. task' = [task EXCEPT ![t] = c2]
    BY <1>5 DEF ApproveWrite
  <2>. HIDE DEF c2
  <2>. QED BY <1>2, <1>4, <2>2, <2>3, <2>4, Moved DEF TypeOK
<1>6. CASE DenyWrite(t)
  <2>1. Goto(t, "hand") /\ "hand" \in Pc
    BY <1>6 DEF DenyWrite, Pc
  <2>2. ChainOK([task[t] EXCEPT !.pc = "hand"])
    <3>. DEFINE c == [task[t] EXCEPT !.pc = "hand"]
    <3>1. c.pc = "hand" /\ c.run = task[t].run
      BY <1>1, <2>1, ChainFields
    <3>. HIDE DEF c
    <3>. QED BY <1>1, <3>1 DEF ChainOK
  <2>. QED BY <1>2, <1>4, <2>1, <2>2, Goes
<1>. QED BY <1>5, <1>6

LEMMA ReportStep ==
  ASSUME TypeOK, GateInv, NEW t \in Tasks, NEW a \in DOMAIN action, NEW outcome \in {"succeeded", "failed"},
         AgentReport(t, a, outcome)
  PROVE  TypeOK' /\ GateInv'
<1>1. DOMAIN action = 1..Len(action) /\ action[a] \in Action /\ a \in Nat
  BY DEF TypeOK
<1>2. action' \in Seq(Action)
  <2>1. [action[a] EXCEPT !.status = outcome] \in Action
    BY <1>1 DEF Action
  <2>2. action' = [action EXCEPT ![a] = [action[a] EXCEPT !.status = outcome]]
    BY DEF AgentReport
  <2>. QED BY <1>1, <2>1, <2>2, ExceptSeq DEF TypeOK
<1>3. action[a].run \in Runs
  BY <1>1 DEF Action
<1>. DEFINE c1 == [task[t] EXCEPT !.pc = "resume"]
            c2 == [c1 EXCEPT !.run = action[a].run]
            c3 == [c2 EXCEPT !.action = a]
<1>4. c1 \in Chain /\ c1.pc = "resume"
  <2>1. "resume" \in Pc
    BY DEF Pc
  <2>. QED BY <2>1, Copy, ChainFields
<1>5. c2 \in Chain /\ c2.pc = "resume" /\ c2.run = action[a].run
  <2>. HIDE DEF c1
  <2>. QED BY <1>3, <1>4, ChainFields
<1>6. c3 \in Chain /\ c3.pc = "resume" /\ c3.run = action[a].run
  <2>. HIDE DEF c2
  <2>. QED BY <1>1, <1>5, ChainFields
<1>7. ChainOK(c3)
  <2>. HIDE DEF c3
  <2>. QED BY <1>3, <1>6 DEF ChainOK
<1>8. task' = [task EXCEPT ![t] = c3] /\ UNCHANGED <<run, gated>>
  BY DEF AgentReport, TypeOK
<1>. HIDE DEF c3
<1>. QED BY <1>2, <1>6, <1>7, <1>8, RowsStay, Moved DEF TypeOK

LEMMA ResumeStep ==
  ASSUME TypeOK, GateInv, NEW t \in Tasks, ResumeRead(t) \/ ResumeWrite(t)
  PROVE  TypeOK' /\ GateInv'
<1>1. task[t].run \in Runs /\ task[t] \in Chain
  BY Copy DEF ResumeRead, ResumeWrite, At, ChainOK
<1>2. CASE ResumeRead(t)
  <2>. DEFINE row == run[task[t].run]
              mine == {i \in DOMAIN row.steps : /\ row.steps[i].action = task[t].action
                                                /\ row.steps[i].status = "dispatched"}
              c1 == [task[t] EXCEPT !.pc = "resume_write"]
              c2 == [c1 EXCEPT !.steps = row.steps]
              c3 == [c2 EXCEPT !.at = First(mine)]
  <2>1. UNCHANGED <<run, action, gated>>
    BY <1>2 DEF ResumeRead
  <2>2. CASE End(t)
    BY <2>1, <2>2, Ended, RowsStay
  <2>3. CASE ~End(t)
    <3>1. row.status = "waiting_action" /\ mine # {} /\ task' = [task EXCEPT ![t] = c3]
      BY <1>2, <2>3 DEF ResumeRead
    <3>2. row.steps \in Steps /\ AwaitingSteps(row.steps) = {}
      BY <1>1, <3>1 DEF TypeOK, GateInv, RowOK, RunRow
    <3>3. First(mine) \in Nat
      <4>1. mine \in SUBSET Nat
        BY <3>2, StepAt
      <4>. HIDE DEF mine
      <4>. QED BY <3>1, <4>1, FirstIn
    <3>4. c1 \in Chain /\ c1.pc = "resume_write" /\ c1.run = task[t].run
      <4>1. "resume_write" \in Pc
        BY DEF Pc
      <4>. QED BY <1>1, <4>1, ChainFields
    <3>5. c2 \in Chain /\ c2.pc = "resume_write" /\ c2.run = task[t].run /\ c2.steps = row.steps
      <4>. HIDE DEF c1, row
      <4>. QED BY <3>2, <3>4, ChainFields
    <3>6. c3 \in Chain /\ c3.pc = "resume_write" /\ c3.run = task[t].run /\ c3.steps = row.steps
      <4>. HIDE DEF c2, row, mine
      <4>. QED BY <3>3, <3>5, ChainFields
    <3>7. ChainOK(c3)
      <4>. HIDE DEF c3, row
      <4>. QED BY <1>1, <3>2, <3>6 DEF ChainOK
    <3>. HIDE DEF c3
    <3>. QED BY <2>1, <3>1, <3>6, <3>7, RowsStay, Moved DEF TypeOK
  <2>. QED BY <2>2, <2>3
<1>3. CASE ResumeWrite(t)
  <2>. DEFINE s == task[t].steps
              steps == [s EXCEPT ![task[t].at].status = "succeeded"]
              c1 == [task[t] EXCEPT !.pc = "exec"]
              c2 == [c1 EXCEPT !.steps = steps]
              c3 == [c2 EXCEPT !.gated = gated]
              c4 == [c3 EXCEPT !.action = 0]
  <2>1. /\ WriteRow(task[t].run, steps, "running") /\ UNCHANGED <<action, gated>>
        /\ task' = [task EXCEPT ![t] = c4]
    BY <1>3 DEF ResumeWrite
  <2>2. s \in Steps /\ AwaitingSteps(s) = {}
    BY <1>3, Copy DEF ResumeWrite, At, ChainOK
  <2>3. steps \in Steps /\ AwaitingSteps(steps) = {}
    <3>1. "succeeded" \in StepStatus \ {"awaiting_approval"}
      BY DEF StepStatus
    <3>. HIDE DEF s
    <3>. QED BY <2>2, <3>1, StepUpdated
  <2>4. RowOK([status |-> "running", steps |-> steps]) /\ "running" \in RunStatus
    <3>. HIDE DEF steps
    <3>. QED BY <2>3 DEF RowOK, RunStatus
  <2>5. c1 \in Chain /\ c1.pc = "exec" /\ c1.run = task[t].run
    <3>1. "exec" \in Pc
      BY DEF Pc
    <3>. QED BY <1>1, <3>1, ChainFields
  <2>6. c2 \in Chain /\ c2.pc = "exec" /\ c2.run = task[t].run /\ c2.steps = steps
    <3>. HIDE DEF c1, steps
    <3>. QED BY <2>3, <2>5, ChainFields
  <2>7. c3 \in Chain /\ c3.pc = "exec" /\ c3.run = task[t].run /\ c3.steps = steps
    <3>1. gated \in SUBSET Gateable
      BY DEF TypeOK
    <3>. HIDE DEF c2, steps
    <3>. QED BY <2>6, <3>1, ChainFields
  <2>8. c4 \in Chain /\ c4.pc = "exec" /\ c4.run = task[t].run /\ c4.steps = steps
    <3>. HIDE DEF c3, steps
    <3>. QED BY <2>7, ChainFields
  <2>9. ChainOK(c4)
    <3>. HIDE DEF c4, steps
    <3>. QED BY <1>1, <2>3, <2>8 DEF ChainOK
  <2>. HIDE DEF c4, steps
  <2>. QED BY <2>1, <2>3, <2>4, <2>8, <2>9, RowWritten, Moved DEF TypeOK
<1>. QED BY <1>2, <1>3

(* An action an agent has fetched is still an action. *)
LEMMA ActionDispatched ==
  ASSUME NEW e \in Action
  PROVE  [e EXCEPT !.status = "dispatched"] \in Action
BY DEF Action

LEMMA ProductStep ==
  ASSUME TypeOK, GateInv,
         \/ \E r \in Runs : CancelWorkerRun(r)
         \/ AgentPoll
         \/ \E g \in SUBSET Gateable : SetPolicy(g)
         \/ ResolveTicket
  PROVE  TypeOK' /\ GateInv'
<1>1. ASSUME NEW r \in Runs, CancelWorkerRun(r) PROVE TypeOK' /\ GateInv'
  <2>1. WriteStatus(r, "cancelled") /\ UNCHANGED <<task, action, gated>>
    BY <1>1 DEF CancelWorkerRun
  <2>. QED BY <2>1, StatusWritten DEF TypeOK, GateInv
<1>2. CASE AgentPoll
  <2>1. UNCHANGED <<run, task, gated>>
    BY <1>2 DEF AgentPoll
  <2>2. action' \in Seq(Action)
    <3>0. \A a \in DOMAIN action : action[a] \in Action
      BY DEF TypeOK
    <3>1. \A a \in DOMAIN action : [action[a] EXCEPT !.status = "dispatched"] \in Action /\ action[a] \in Action
      BY <3>0, ActionDispatched
    <3>2. DOMAIN action = 1..Len(action) /\ Len(action) \in Nat
      BY DEF TypeOK
    <3>. QED BY <1>2, <3>1, <3>2 DEF AgentPoll
  <2>. QED BY <2>1, <2>2 DEF TypeOK, GateInv
<1>3. ASSUME NEW g \in SUBSET Gateable, SetPolicy(g) PROVE TypeOK' /\ GateInv'
  BY <1>3 DEF SetPolicy, TypeOK, GateInv
<1>4. CASE ResolveTicket
  BY <1>4 DEF ResolveTicket, TypeOK, GateInv
<1>. QED BY <1>1, <1>2, <1>3, <1>4

LEMMA FaultStep ==
  ASSUME TypeOK, GateInv, Restart \/ \E t \in Tasks : TaskRejects(t)
  PROVE  TypeOK' /\ GateInv'
<1>1. CASE Restart
  BY <1>1, IdleChain DEF Restart, TypeOK, GateInv
<1>2. ASSUME NEW t \in Tasks, TaskRejects(t) PROVE TypeOK' /\ GateInv'
  <2>1. End(t) /\ UNCHANGED <<action, gated>>
    BY <1>2 DEF TaskRejects
  <2>2. WriteStatus(task[t].run, "failed") \/ UNCHANGED run
    BY <1>2 DEF TaskRejects
  <2>. QED BY <2>1, <2>2, StatusWritten, RowsStay, Ended
<1>. QED BY <1>1, <1>2

LEMMA Invariant == Spec => [](TypeOK /\ GateInv)
<1>1. Init => TypeOK /\ GateInv
  <2>. SUFFICES ASSUME Init PROVE TypeOK /\ GateInv
    OBVIOUS
  <2>1. \A r \in Runs : run[r] \in RunRow /\ RowOK(run[r])
    BY DEF Init, RunRow, RunStatus, Steps, RowOK
  <2>2. action \in Seq(Action) /\ gated \in SUBSET Gateable
    BY DEF Init
  <2>. QED BY <2>1, <2>2, IdleChain DEF Init, TypeOK, GateInv
<1>2. TypeOK /\ GateInv /\ [Next]_vars => (TypeOK /\ GateInv)'
  <2>. SUFFICES ASSUME TypeOK, GateInv, [Next]_vars PROVE TypeOK' /\ GateInv'
    OBVIOUS
  <2>1. ASSUME NEW t \in Tasks, TaskStep(t) PROVE TypeOK' /\ GateInv'
    BY <2>1, CreateStep, PlanStep, ExecStep, ToolStep, RecordStep, SettleStep, AnswerWrites, ResumeStep
       DEF TaskStep
  <2>2. CASE UNCHANGED vars
    BY <2>2 DEF vars, TypeOK, GateInv
  <2>. QED BY <2>1, <2>2, CreateStep, AnswerReads, ReportStep, ProductStep, FaultStep DEF Next
<1>. QED BY <1>1, <1>2, PTL DEF Spec

\* Whatever chains, approvals, policy changes and faults do, a tool that runs is
\* one that the policy its chain read does not gate (execStep).
THEOREM ApprovalGateHolds == Spec => []GateHolds
<1>1. TypeOK /\ GateInv => GateHolds
  BY DEF GateInv, ChainOK, GateHolds, At, Current
<1>. QED BY <1>1, Invariant, PTL

-----------------------------------------------------------------------------
(* Rows, copies and device actions: TieInv *)

\* Action a of the log q was inserted for step i of run r.
Tied(q, r, i, a) == a \in DOMAIN q /\ q[a].run = r /\ q[a].step = i

\* The list has a step that waits for the agent to do action a.
Sent(steps, a) == \E i \in DOMAIN steps : steps[i].status = "dispatched" /\ steps[i].action = a

\* What a list has sent is an action of that step, and every unfinished step comes after it.
SentOK(q, r, steps) ==
  \A i \in DOMAIN steps :
    steps[i].status = "dispatched" =>
      Tied(q, r, i, steps[i].action) /\ \A j \in Unfinished(steps) : i < j

\* The statuses a device action keeps once it is reported.
Final == {"succeeded", "failed"}

\* The chain called the device tool and has not written the step as dispatched yet.
Holds(c, a) ==
  /\ c.pc \in {"record", "dispatch"}
  /\ c.steps[c.at].status # "failed"
  /\ c.steps[c.at].action = a

\* The chain was started by the report of action a.
Resumes(c, a) == c.pc \in {"resume", "resume_write"} /\ c.action = a

\* What a row waits for is among its steps.
WaitOK(row) ==
  /\ row.status = "waiting_approval" => AwaitingSteps(row.steps) # {}
  /\ row.status = "waiting_action" => \E i \in DOMAIN row.steps : row.steps[i].status = "dispatched"

\* Where the copy of a chain stands: an action it holds, resumes or has sent is the
\* one of its step, and the step it works on comes before every unfinished one.
ChainAt(q, c) ==
  /\ c.pc \in {"idle", "check_active", "insert"} => c.run = "none" /\ c.steps = << >>
  /\ c.pc \in {"tool", "record", "dispatch"} =>
       c.at \in DOMAIN c.steps /\ \A j \in Unfinished(c.steps) : c.at < j
  /\ c.pc \in {"record", "dispatch"} /\ c.steps[c.at].status # "failed" /\ c.steps[c.at].action # 0 =>
       Tied(q, c.run, c.at, c.steps[c.at].action)
  /\ c.pc = "dispatch" => c.steps[c.at].status # "failed" /\ c.steps[c.at].action # 0
  /\ c.pc \in {"approve", "deny"} => c.at \in AwaitingSteps(c.steps)
  /\ c.pc \in {"resume", "resume_write"} =>
       /\ c.action \in DOMAIN q /\ q[c.action].run = c.run
       /\ q[c.action].status \in Final
  /\ c.pc = "resume_write" =>
       c.at \in DOMAIN c.steps /\ c.steps[c.at].status = "dispatched" /\ c.steps[c.at].action = c.action

\* Some row or some copy has a step sent as action a.
Mentioned(a) ==
  (\E r \in Runs : Sent(run[r].steps, a)) \/ (\E t \in Tasks : Sent(task[t].steps, a))

\* No second chain holds or resumes an action; while one holds it no list has it sent.
OneCarrier(a) ==
  \A t \in Tasks :
    /\ Holds(task[t], a) => ~Mentioned(a) /\ \A u \in Tasks : Holds(task[u], a) => u = t
    /\ Resumes(task[t], a) => \A u \in Tasks : Resumes(task[u], a) => u = t

ListsOK == /\ \A r \in Runs : SentOK(action, r, run[r].steps)
           /\ \A t \in Tasks : SentOK(action, task[t].run, task[t].steps)

TieInv ==
  /\ ListsOK
  /\ \A r \in Runs : WaitOK(run[r])
  /\ \A t \in Tasks : ChainAt(action, task[t])
  /\ \A a \in DOMAIN action : OneCarrier(a)

\* List e has no more unfinished and no more sent steps than s.
Shrinks(e, s) ==
  /\ Unfinished(e) \subseteq Unfinished(s)
  /\ \A i \in DOMAIN e : e[i].status = "dispatched" =>
       i \in DOMAIN s /\ s[i].status = "dispatched" /\ s[i].action = e[i].action

\* Nothing of the list was sent.
Fresh(e) == \A i \in DOMAIN e : e[i].status # "dispatched"

\* The list says nothing of run r that a row or a copy did not say.
Known(r, e) ==
  \/ Fresh(e)
  \/ r \in Runs /\ Shrinks(e, run[r].steps)
  \/ \E u \in Tasks : task[u].run = r /\ Shrinks(e, task[u].steps)

\* Actions keep their run and step, and what was reported stays reported.
Kept ==
  \A a \in DOMAIN action :
    /\ a \in DOMAIN action' /\ action'[a].run = action[a].run /\ action'[a].step = action[a].step
    /\ action[a].status \in Final => action'[a].status \in Final

\* A list that only drops unfinished and sent steps keeps every tie.
LEMMA ShrinkSent ==
  ASSUME NEW e, NEW s, Shrinks(e, s)
  PROVE  /\ \A q, r : SentOK(q, r, s) => SentOK(q, r, e)
         /\ \A a : Sent(e, a) => Sent(s, a)
  BY DEF Shrinks, SentOK, Sent

\* A list read from a row or a chain mentions no action they do not.
LEMMA KnownLists ==
  ASSUME ListsOK, Kept, NEW r, NEW e, Known(r, e)
  PROVE  /\ SentOK(action', r, e)
         /\ \A a : Sent(e, a) => Mentioned(a)
<1>0. \A s : SentOK(action, r, s) => SentOK(action', r, s)
  BY DEF SentOK, Tied, Kept
<1>1. CASE Fresh(e)
  BY <1>1 DEF Fresh, SentOK, Sent
<1>2. CASE r \in Runs /\ Shrinks(e, run[r].steps)
  BY <1>0, <1>2, ShrinkSent DEF ListsOK, Mentioned
<1>3. ASSUME NEW u \in Tasks, task[u].run = r, Shrinks(e, task[u].steps)
      PROVE  /\ SentOK(action', r, e)
             /\ \A a : Sent(e, a) => Mentioned(a)
  BY <1>0, <1>3, ShrinkSent DEF ListsOK, Mentioned
<1>. QED BY <1>1, <1>2, <1>3 DEF Known

\* Reports and new actions do not disturb what a chain holds.
LEMMA ChainAtKept ==
  ASSUME Kept, NEW c, ChainAt(action, c)
  PROVE  ChainAt(action', c)
  BY DEF Kept, ChainAt, Tied

Off(c) == c.pc \in {"idle", "check_active", "insert"} /\ c.run = "none" /\ c.steps = << >>

\* A chain that has ended, or has no run yet, holds nothing.
LEMMA OffTied ==
  ASSUME NEW c, Off(c)
  PROVE  /\ Known(c.run, c.steps)
         /\ \A q : SentOK(q, c.run, c.steps) /\ ChainAt(q, c)
         /\ \A a : ~Holds(c, a) /\ ~Resumes(c, a) /\ ~Sent(c.steps, a)
  BY DEF Off, Known, Fresh, SentOK, ChainAt, Holds, Resumes, Sent

\* One chain moves, others end at most; the lists that are written or read are known.
LEMMA TieMoves ==
  ASSUME TieInv, Kept, TypeOK', NEW t \in Tasks,
         \A u \in Tasks : u # t => task'[u] = task[u] \/ Off(task'[u]),
         \A r \in Runs : Known(r, run'[r].steps) /\ WaitOK(run'[r]),
         Known(task'[t].run, task'[t].steps),
         ChainAt(action', task'[t]),
         \A a \in DOMAIN action' :
           /\ Holds(task'[t], a) => Holds(task[t], a) \/ a \notin DOMAIN action
           /\ Resumes(task'[t], a) =>
                Resumes(task[t], a) \/ (a \in DOMAIN action /\ action[a].status \notin Final)
  PROVE  TieInv'
<1>1. ListsOK'
  <2>1. \A r \in Runs : SentOK(action', r, run'[r].steps)
    BY KnownLists DEF TieInv
  <2>2. SentOK(action', task'[t].run, task'[t].steps)
    BY KnownLists DEF TieInv
  <2>3. ASSUME NEW u \in Tasks, u # t PROVE SentOK(action', task'[u].run, task'[u].steps)
    <3>1. SentOK(action, task[u].run, task[u].steps)
      BY DEF TieInv, ListsOK
    <3>2. SentOK(action', task[u].run, task[u].steps)
      BY <3>1 DEF SentOK, Tied, Kept
    <3>3. CASE task'[u] = task[u]
      BY <3>2, <3>3
    <3>. QED BY <2>3, <3>3, OffTied
  <2>. QED BY <2>1, <2>2, <2>3 DEF ListsOK
<1>2. \A r \in Runs : WaitOK(run'[r])
  OBVIOUS
<1>3. ASSUME NEW u \in Tasks PROVE ChainAt(action', task'[u])
  <2>1. ChainAt(action', task[u])
    BY ChainAtKept DEF TieInv
  <2>. QED BY <2>1, OffTied
<1>4. ASSUME NEW a \in DOMAIN action' PROVE OneCarrier(a)'
  <2>0. \A u \in Tasks : u # t => /\ Holds(task'[u], a) => Holds(task[u], a)
                                  /\ Resumes(task'[u], a) => Resumes(task[u], a)
                                  /\ Sent(task'[u].steps, a) => Sent(task[u].steps, a)
    BY OffTied
  <2>1. Mentioned(a)' => Mentioned(a)
    <3>1. \A r \in Runs : Sent(run'[r].steps, a) => Mentioned(a)
      BY KnownLists DEF TieInv
    <3>2. Sent(task'[t].steps, a) => Mentioned(a)
      BY KnownLists DEF TieInv
    <3>3. \A u \in Tasks : u # t /\ Sent(task'[u].steps, a) => Mentioned(a)
      BY <2>0 DEF Mentioned
    <3>. QED BY <3>1, <3>2, <3>3 DEF Mentioned
  <2>2. CASE a \in DOMAIN action
    <3>1. OneCarrier(a)
      BY <2>2 DEF TieInv
    <3>2. \A u \in Tasks : Holds(task'[u], a) => Holds(task[u], a)
      BY <2>0, <2>2
    <3>3. \A u \in Tasks : Resumes(task'[u], a) => Resumes(task[u], a) \/ (u = t /\ action[a].status \notin Final)
      BY <2>0, <2>2
    <3>4. \A u \in Tasks : Resumes(task[u], a) => action[a].status \in Final
      BY DEF TieInv, ChainAt, Resumes
    <3>. HIDE DEF Holds, Resumes, Mentioned
    <3>. QED BY <2>1, <3>1, <3>2, <3>3, <3>4 DEF OneCarrier
  <2>3. CASE a \notin DOMAIN action
    <3>1. ~Mentioned(a)
      BY <2>3 DEF TieInv, ListsOK, Mentioned, Sent, SentOK, Tied
    <3>2. \A u \in Tasks : ~Resumes(task[u], a) /\ (a # 0 => ~Holds(task[u], a))
      BY <2>3 DEF TieInv, ChainAt, Holds, Resumes, Tied
    <3>3. \A u \in Tasks : ~Resumes(task'[u], a) /\ (u # t /\ a # 0 => ~Holds(task'[u], a))
      BY <2>0, <2>3, <3>2
    <3>4. a # 0
      BY DEF TypeOK
    <3>. HIDE DEF Holds, Resumes, Mentioned
    <3>. QED BY <2>1, <3>1, <3>3, <3>4 DEF OneCarrier
  <2>. QED BY <2>2, <2>3
<1>. QED BY <1>1, <1>2, <1>3, <1>4 DEF TieInv

\* Rows and chains stay, or a row settles and chains end.
LEMMA TieStays ==
  ASSUME TieInv, Kept, TypeOK',
         \A r \in Runs : /\ run'[r].steps = run[r].steps
                         /\ run'[r].status # run[r].status =>
                              run'[r].status \notin {"waiting_approval", "waiting_action"},
         \A u \in Tasks : task'[u] = task[u] \/ Off(task'[u]),
         DOMAIN action' = DOMAIN action
  PROVE  TieInv'
<1>1. \A r \in Runs : Known(r, run'[r].steps) /\ WaitOK(run'[r])
  <2>1. \A r \in Runs : Known(r, run[r].steps)
    BY DEF Known, Shrinks
  <2>. QED BY <2>1 DEF TieInv, WaitOK
<1>2. CASE Tasks = {}
  <2>1. ListsOK'
    BY <1>1, <1>2, KnownLists DEF TieInv, ListsOK
  <2>. QED BY <1>1, <1>2, <2>1 DEF TieInv, OneCarrier
<1>3. ASSUME NEW t \in Tasks PROVE TieInv'
  <2>1. Known(task'[t].run, task'[t].steps)
    <3>1. Known(task[t].run, task[t].steps)
      BY DEF Known, Shrinks
    <3>. QED BY <3>1, OffTied
  <2>2. ChainAt(action', task'[t])
    <3>1. ChainAt(action', task[t])
      BY ChainAtKept DEF TieInv
    <3>. QED BY <3>1, OffTied
  <2>3. \A a : (Holds(task'[t], a) => Holds(task[t], a)) /\ (Resumes(task'[t], a) => Resumes(task[t], a))
    BY OffTied
  <2>. QED BY <1>1, <2>1, <2>2, <2>3, TieMoves
<1>. QED BY <1>2, <1>3

\* Setting the status of a step leaves the rest of the list alone.
LEMMA Marks ==
  ASSUME NEW s \in Steps, NEW i \in DOMAIN s, NEW st \in StepStatus
  PROVE  LET e == [s EXCEPT ![i].status = st]
         IN  /\ e \in Steps /\ DOMAIN e = DOMAIN s
             /\ \A j \in DOMAIN s : e[j].action = s[j].action /\ e[j].status = IF j = i THEN st ELSE s[j].status
<1>. DEFINE m == [s[i] EXCEPT !.status = st]
            e == [s EXCEPT ![i] = m]
<1>1. s[i] \in Step
  BY StepAt
<1>2. m \in Step /\ m.status = st /\ m.action = s[i].action
  BY <1>1 DEF Step
<1>3. e \in Steps /\ DOMAIN e = DOMAIN s /\ \A j \in DOMAIN s : e[j] = IF j = i THEN m ELSE s[j]
  <2>. HIDE DEF m
  <2>. QED BY <1>2, StepReplaced
<1>4. \A j \in DOMAIN s : e[j].action = s[j].action /\ e[j].status = IF j = i THEN st ELSE s[j].status
  <2>. HIDE DEF m, e
  <2>. QED BY <1>2, <1>3
<1>. QED BY <1>3, <1>4

\* A step that is settled, or asked for, makes the list shrink.
LEMMA MarkShrinks ==
  ASSUME NEW s \in Steps, NEW e, NEW i \in DOMAIN s, DOMAIN e = DOMAIN s,
         \A j \in DOMAIN s : j # i => e[j].action = s[j].action /\ e[j].status = s[j].status,
         e[i].status # "dispatched",
         e[i].status \in {"pending", "awaiting_approval"} => i \in Unfinished(s)
  PROVE  Shrinks(e, s)
  BY DEF Shrinks, Unfinished

\* One chain is replaced.
LEMMA TaskSet ==
  ASSUME TypeOK, NEW t \in Tasks, NEW c, task' = [task EXCEPT ![t] = c]
  PROVE  task'[t] = c /\ \A u \in Tasks : u # t => task'[u] = task[u]
  BY DEF TypeOK

\* One row is replaced (writeRunSteps).
LEMMA RowSet ==
  ASSUME TypeOK, NEW r \in Runs, NEW steps, NEW status, WriteRow(r, steps, status)
  PROVE  /\ run'[r].steps = steps /\ run'[r].status = status
         /\ \A q \in Runs : q # r => run'[q] = run[q]
  BY DEF TypeOK, WriteRow

\* The status of one row is replaced, its steps stay.
LEMMA StatusOnly ==
  ASSUME TypeOK, NEW r, NEW status, WriteStatus(r, status)
  PROVE  \A q \in Runs : /\ run'[q].steps = run[q].steps
                         /\ run'[q].status = IF q = r THEN status ELSE run[q].status
  BY DEF TypeOK, RunRow, WriteStatus

LEMMA SameKept == UNCHANGED action => Kept
  BY DEF Kept

\* A chain that ends is off.
LEMMA EndOff ==
  ASSUME TypeOK, NEW t \in Tasks, End(t)
  PROVE  Off(task'[t]) /\ \A u \in Tasks : task'[u] = task[u] \/ Off(task'[u])
<1>1. task'[t] = Idle /\ \A u \in Tasks : u # t => task'[u] = task[u]
  BY TaskSet DEF End
<1>2. Off(Idle)
  BY DEF Off, Idle
<1>. QED BY <1>1, <1>2

\* What a row or a chain has is known.
LEMMA OwnKnown ==
  /\ \A r \in Runs : Known(r, run[r].steps)
  /\ \A t \in Tasks : Known(task[t].run, task[t].steps)
  BY DEF Known, Shrinks

\* A row that is written, the others as they were.
LEMMA RowKnown ==
  ASSUME TypeOK, TieInv, NEW r \in Runs, NEW steps, NEW status, WriteRow(r, steps, status),
         Known(r, steps), WaitOK([status |-> status, steps |-> steps])
  PROVE  \A q \in Runs : Known(q, run'[q].steps) /\ WaitOK(run'[q])
<1>1. WaitOK(run'[r])
  BY RowSet DEF WaitOK
<1>2. Known(r, run'[r].steps)
  BY RowSet
<1>. QED BY <1>1, <1>2, RowSet, OwnKnown DEF TieInv

\* No row is written.
LEMMA RowsKnown ==
  ASSUME TieInv, UNCHANGED run
  PROVE  \A q \in Runs : Known(q, run'[q].steps) /\ WaitOK(run'[q])
  BY OwnKnown DEF TieInv

-----------------------------------------------------------------------------
(* What each transaction of a chain leaves *)

\* What one transaction of a chain leaves: where the chain is, with which
\* list, and what is written in the row.
Becomes(t, pc, r, steps) ==
  /\ task'[t].pc = pc /\ task'[t].run = r /\ task'[t].steps = steps
  /\ \A u \in Tasks : u # t => task'[u] = task[u]

\* createWorkerRun inserts the row.
LEMMA InsertEffect ==
  ASSUME TypeOK, GateInv, TieInv, NEW t \in Tasks, NEW r \in Runs, CreateInsert(t, r)
  PROVE  /\ WriteRow(r, << >>, "running") /\ UNCHANGED <<action, calls, granted>>
         /\ Becomes(t, "advance", r, << >>)
         /\ run[r].status = "none"
<1>1. /\ task'[t] = [task[t] EXCEPT !.pc = "advance", !.run = r, !.planning = TRUE]
      /\ \A u \in Tasks : u # t => task'[u] = task[u]
  BY DEF CreateInsert, TypeOK
<1>2. task[t] \in Chain /\ task[t].steps = << >>
  BY DEF CreateInsert, At, TypeOK, TieInv, ChainAt
<1>3. Becomes(t, "advance", r, << >>)
  BY <1>1, <1>2 DEF Chain, Becomes
<1>. QED BY <1>3 DEF CreateInsert

\* createWorkerRun before it inserts the row.
LEMMA CreateEffect ==
  ASSUME TypeOK, GateInv, TieInv, NEW t \in Tasks, CreateReadTicket(t) \/ CreateCheckActive(t)
  PROVE  /\ UNCHANGED <<run, action, calls, granted>>
         /\ \A u \in Tasks : task'[u] = task[u] \/ Off(task'[u])
<1>1. UNCHANGED <<run, action, calls, granted>>
  BY DEF CreateReadTicket, CreateCheckActive
<1>2. task[t] \in Chain /\ Off(task[t])
  BY DEF CreateReadTicket, CreateCheckActive, At, TieInv, ChainAt, Off, TypeOK
<1>3. ASSUME NEW pc \in {"check_active", "insert"}, Goto(t, pc)
      PROVE \A u \in Tasks : task'[u] = task[u] \/ Off(task'[u])
  <2>1. Off([task[t] EXCEPT !.pc = pc])
    BY <1>2 DEF Off, Chain
  <2>. QED BY <1>3, <2>1, TaskSet DEF Goto
<1>4. End(t) \/ Goto(t, "check_active") \/ Goto(t, "insert")
  BY DEF CreateReadTicket, CreateCheckActive
<1>. QED BY <1>1, <1>3, <1>4, EndOff

\* advanceRun reads the row, or stops.
LEMMA AdvanceEffect ==
  ASSUME TypeOK, GateInv, NEW t \in Tasks, AdvanceRun(t)
  PROVE  /\ UNCHANGED <<run, action, calls, granted>>
         /\ task[t].pc = "advance" /\ task[t].run \in Runs
         /\ \/ End(t)
            \/ \E pc \in {"plan", "exec"} :
                 /\ Becomes(t, pc, task[t].run, run[task[t].run].steps)
                 /\ pc = "plan" => task[t].planning
<1>1. UNCHANGED <<run, action, calls, granted>>
  BY DEF AdvanceRun
<1>2. task[t].pc = "advance" /\ task[t].run \in Runs /\ task[t] \in Chain
  BY Copy DEF AdvanceRun, At, ChainOK
<1>3. ASSUME ~End(t)
      PROVE  \E pc \in {"plan", "exec"} :
               /\ Becomes(t, pc, task[t].run, run[task[t].run].steps)
               /\ pc = "plan" => task[t].planning
  <2>1. PICK pc \in {"plan", "exec"} :
          /\ task' = [task EXCEPT ![t].pc = pc, ![t].gated = gated, ![t].steps = run[task[t].run].steps]
          /\ pc = "plan" => task[t].planning
    BY <1>3 DEF AdvanceRun
  <2>2. /\ task'[t] = [task[t] EXCEPT !.pc = pc, !.gated = gated, !.steps = run[task[t].run].steps]
        /\ \A u \in Tasks : u # t => task'[u] = task[u]
    BY <2>1 DEF TypeOK
  <2>3. Becomes(t, pc, task[t].run, run[task[t].run].steps)
    BY <1>2, <2>2 DEF Chain, Becomes
  <2>. QED BY <2>1, <2>3
<1>. QED BY <1>1, <1>2, <1>3

\* planRun writes a plan of which nothing was sent.
LEMMA PlanEffect ==
  ASSUME TypeOK, GateInv, NEW t \in Tasks, NEW p \in Plans, PlanRun(t, p)
  PROVE  /\ UNCHANGED <<action, calls, granted>> /\ task[t].pc = "plan" /\ task[t].run \in Runs
         /\ \E steps : /\ Fresh(steps)
                       /\ WriteRow(task[t].run, steps, "running")
                       /\ Becomes(t, "exec", task[t].run, steps)
<1>1. task[t].pc = "plan" /\ task[t].run \in Runs /\ task[t] \in Chain
  BY Copy DEF PlanRun, At, ChainOK
<1>2. PICK steps : /\ Fresh(steps)
                   /\ WriteRow(task[t].run, steps, "running")
                   /\ task' = [task EXCEPT ![t].pc = "exec", ![t].steps = steps]
  <2>. DEFINE planned == [i \in DOMAIN p |-> [tool |-> p[i], status |-> "pending", approved |-> FALSE, action |-> 0]]
  <2>1. Fresh(planned)
    BY DEF Fresh
  <2>. QED BY <2>1 DEF PlanRun
<1>3. /\ task'[t] = [task[t] EXCEPT !.pc = "exec", !.steps = steps]
      /\ \A u \in Tasks : u # t => task'[u] = task[u]
  BY <1>2 DEF TypeOK
<1>4. Becomes(t, "exec", task[t].run, steps)
  BY <1>1, <1>3 DEF Chain, Becomes
<1>5. UNCHANGED <<action, calls, granted>>
  BY DEF PlanRun
<1>. QED BY <1>1, <1>2, <1>4, <1>5

\* The step that execStep takes is before every other that is unfinished.
LEMMA TakesFirst ==
  ASSUME TypeOK, GateInv, NEW t \in Tasks, ExecAskApproval(t) \/ ExecStart(t)
  PROVE  LET s == task[t].steps
             i == First(Unfinished(s))
         IN  /\ task[t] \in Chain /\ task[t].pc = "exec" /\ task[t].run \in Runs /\ s \in Steps
             /\ i \in Unfinished(s) /\ i \in DOMAIN s /\ i \in Nat /\ \A j \in Unfinished(s) : i <= j
<1>. DEFINE s == task[t].steps
            i == First(Unfinished(s))
<1>1. task[t] \in Chain /\ task[t].pc = "exec" /\ task[t].run \in Runs /\ s \in Steps /\ Unfinished(s) # {}
  BY Copy DEF ExecAskApproval, ExecStart, At, ChainOK
<1>2. i \in Unfinished(s) /\ i \in DOMAIN s /\ i \in Nat /\ \A j \in Unfinished(s) : i <= j
  <2>1. Unfinished(s) \subseteq DOMAIN s /\ DOMAIN s \subseteq Nat
    BY <1>1, StepAt DEF Unfinished
  <2>. HIDE DEF s
  <2>. QED BY <1>1, <2>1, FirstIn
<1>. QED BY <1>1, <1>2

\* execStep sends a gated step to the approvers.
LEMMA AskEffect ==
  ASSUME TypeOK, GateInv, NEW t \in Tasks, ExecAskApproval(t)
  PROVE  /\ UNCHANGED <<action, calls, granted>> /\ task[t].pc = "exec" /\ task[t].run \in Runs /\ End(t)
         /\ \E e : /\ Shrinks(e, task[t].steps) /\ AwaitingSteps(e) # {}
                   /\ WriteRow(task[t].run, e, "waiting_approval")
<1>. DEFINE s == task[t].steps
            i == First(Unfinished(s))
            e == [s EXCEPT ![i].status = "awaiting_approval"]
<1>1. /\ task[t].pc = "exec" /\ task[t].run \in Runs /\ s \in Steps
      /\ i \in Unfinished(s) /\ i \in DOMAIN s
  BY TakesFirst
<1>2. WriteRow(task[t].run, e, "waiting_approval") /\ End(t) /\ UNCHANGED <<action, calls, granted>>
  BY DEF ExecAskApproval
<1>3. /\ DOMAIN e = DOMAIN s
      /\ \A j \in DOMAIN s : e[j].action = s[j].action
           /\ e[j].status = IF j = i THEN "awaiting_approval" ELSE s[j].status
  <2>1. "awaiting_approval" \in StepStatus
    BY DEF StepStatus
  <2>. HIDE DEF s, i
  <2>. QED BY <1>1, <2>1, Marks
<1>. HIDE DEF s, i, e
<1>4. i \in AwaitingSteps(e)
  BY <1>1, <1>3 DEF AwaitingSteps
<1>5. Shrinks(e, s)
  BY <1>1, <1>3, MarkShrinks
<1>. QED BY <1>1, <1>2, <1>4, <1>5 DEF s

\* execStep starts a step.
LEMMA StartEffect ==
  ASSUME TypeOK, GateInv, NEW t \in Tasks, ExecStart(t)
  PROVE  /\ UNCHANGED <<action, calls, granted>> /\ task[t].pc = "exec" /\ task[t].run \in Runs
         /\ \E e : /\ Shrinks(e, task[t].steps)
                   /\ WriteRow(task[t].run, e, "running")
                   /\ Becomes(t, "tool", task[t].run, e)
                   /\ task'[t].at \in Unfinished(task[t].steps) /\ task'[t].at \in DOMAIN e
                   /\ \A j \in Unfinished(e) : task'[t].at < j
<1>. DEFINE s == task[t].steps
            i == First(Unfinished(s))
            e == [s EXCEPT ![i].status = "running"]
<1>1. /\ task[t] \in Chain /\ task[t].pc = "exec" /\ task[t].run \in Runs /\ s \in Steps
      /\ i \in Unfinished(s) /\ i \in DOMAIN s /\ i \in Nat /\ \A j \in Unfinished(s) : i <= j
  BY TakesFirst
<1>2. /\ WriteRow(task[t].run, e, "running") /\ UNCHANGED <<action, calls, granted>>
      /\ task' = [task EXCEPT ![t].pc = "tool", ![t].steps = e, ![t].at = i]
  BY DEF ExecStart
<1>3. /\ DOMAIN e = DOMAIN s
      /\ \A j \in DOMAIN s : e[j].action = s[j].action
           /\ e[j].status = IF j = i THEN "running" ELSE s[j].status
  <2>1. "running" \in StepStatus
    BY DEF StepStatus
  <2>. HIDE DEF s, i
  <2>. QED BY <1>1, <2>1, Marks
<1>. HIDE DEF s, i, e
<1>4. Shrinks(e, s)
  BY <1>1, <1>3, MarkShrinks
<1>5. \A j \in Unfinished(e) : i < j
  <2>1. \A j \in Unfinished(e) : j # i /\ j \in Unfinished(s) /\ j \in Nat
    BY <1>1, <1>3, StepAt DEF Unfinished
  <2>. QED BY <1>1, <2>1
<1>6. /\ task'[t] = [task[t] EXCEPT !.pc = "tool", !.steps = e, !.at = i]
      /\ \A u \in Tasks : u # t => task'[u] = task[u]
  BY <1>2 DEF TypeOK
<1>7. Becomes(t, "tool", task[t].run, e) /\ task'[t].at = i
  BY <1>1, <1>6 DEF Chain, Becomes
<1>. QED BY <1>1, <1>2, <1>3, <1>4, <1>5, <1>7 DEF s

\* tool.run is committed: one call more, and an action if the tool is a device's.
LEMMA ToolEffect ==
  ASSUME TypeOK, GateInv, TieInv, NEW t \in Tasks, ExecTool(t)
  PROVE  LET i == task[t].at
             r == task[t].run
         IN  /\ UNCHANGED <<run, granted>> /\ task[t].pc = "tool" /\ r \in Runs
             /\ i \in DOMAIN task[t].steps /\ i \in Nat
             /\ calls' = [calls EXCEPT ![r][i] = @ + 1]
             /\ \E n \in Nat : \E e :
                  /\ Shrinks(e, task[t].steps) /\ \A j \in Unfinished(e) : i < j
                  /\ i \in DOMAIN e /\ e[i].status = "succeeded" /\ e[i].action = n
                  /\ Becomes(t, "record", r, e) /\ task'[t].at = i
                  /\ \/ n = 0 /\ action' = action
                     \/ n = Len(action) + 1 /\ action' = Append(action, [run |-> r, step |-> i, status |-> "pending"])
<1>. DEFINE s == task[t].steps
            r == task[t].run
            i == task[t].at
            n == IF Current(t).tool \in {"script", "restart"} THEN Len(action) + 1 ELSE 0
            e == [s EXCEPT ![i].status = "succeeded", ![i].action = n]
<1>1. task[t] \in Chain /\ r \in Runs /\ s \in Steps /\ i \in Nat /\ task[t].pc = "tool"
  BY Copy DEF ExecTool, At, ChainOK
<1>2. i \in DOMAIN s /\ \A j \in Unfinished(s) : i < j
  BY <1>1 DEF TieInv, ChainAt
<1>3. /\ task' = [task EXCEPT ![t].pc = "record", ![t].steps = e]
      /\ calls' = [calls EXCEPT ![r][i] = @ + 1] /\ UNCHANGED <<run, granted>>
      /\ \/ n = 0 /\ action' = action
         \/ n = Len(action) + 1 /\ action' = Append(action, [run |-> r, step |-> i, status |-> "pending"])
  BY DEF ExecTool, TypeOK
<1>4. n \in Nat
  BY DEF TypeOK
<1>5. DOMAIN e = DOMAIN s /\ e[i].status = "succeeded" /\ e[i].action = n /\ \A j \in DOMAIN s : j # i => e[j] = s[j]
  <2>1. s[i] \in Step /\ s \in Seq(Step)
    BY <1>1, <1>2, StepAt DEF Steps
  <2>. HIDE DEF n, s, i
  <2>2. DOMAIN e = DOMAIN s /\ \A j \in DOMAIN s : j # i => e[j] = s[j]
    BY <1>2, <2>1
  <2>3. e[i] = [s[i] EXCEPT !.status = "succeeded", !.action = n]
    BY <1>2, <2>1
  <2>. QED BY <2>1, <2>2, <2>3 DEF Step
<1>. HIDE DEF e, n
<1>6. Shrinks(e, s) /\ \A j \in Unfinished(e) : i < j
  <2>. HIDE DEF s, i
  <2>1. Shrinks(e, s)
    BY <1>1, <1>2, <1>5, MarkShrinks
  <2>. QED BY <1>2, <2>1 DEF Shrinks
<1>7. /\ task'[t] = [task[t] EXCEPT !.pc = "record", !.steps = e]
      /\ \A u \in Tasks : u # t => task'[u] = task[u]
  BY <1>3 DEF TypeOK
<1>8. Becomes(t, "record", r, e) /\ task'[t].at = i
  BY <1>1, <1>7 DEF Chain, Becomes
<1>. QED BY <1>1, <1>2, <1>3, <1>4, <1>5, <1>6, <1>8

\* tool.run throws.
LEMMA ThrowsEffect ==
  ASSUME TypeOK, GateInv, TieInv, NEW t \in Tasks, ExecToolThrows(t)
  PROVE  LET i == task[t].at
         IN  /\ UNCHANGED <<run, action, calls, granted>> /\ task[t].pc = "tool" /\ task[t].run \in Runs /\ i \in Nat
             /\ \E e : /\ Shrinks(e, task[t].steps) /\ \A j \in Unfinished(e) : i < j
                       /\ i \in DOMAIN e /\ e[i].status = "failed"
                       /\ Becomes(t, "record", task[t].run, e) /\ task'[t].at = i
<1>. DEFINE s == task[t].steps
            i == task[t].at
            e == [s EXCEPT ![i].status = "failed"]
<1>1. task[t] \in Chain /\ task[t].run \in Runs /\ s \in Steps /\ i \in Nat /\ task[t].pc = "tool"
  BY Copy DEF ExecToolThrows, At, ChainOK
<1>2. i \in DOMAIN s /\ \A j \in Unfinished(s) : i < j
  BY <1>1 DEF TieInv, ChainAt
<1>3. task'[t] = [task[t] EXCEPT !.pc = "record", !.steps = e] /\ UNCHANGED <<run, action, calls, granted>>
      /\ \A u \in Tasks : u # t => task'[u] = task[u]
  BY <1>1 DEF ExecToolThrows, TypeOK, Chain
<1>4. /\ DOMAIN e = DOMAIN s
      /\ \A j \in DOMAIN s : e[j].action = s[j].action
           /\ e[j].status = IF j = i THEN "failed" ELSE s[j].status
  <2>1. "failed" \in StepStatus
    BY DEF StepStatus
  <2>. HIDE DEF s, i
  <2>. QED BY <1>1, <1>2, <2>1, Marks
<1>. HIDE DEF e
<1>5. Shrinks(e, s) /\ \A j \in Unfinished(e) : i < j
  <2>. HIDE DEF s, i
  <2>1. Shrinks(e, s)
    BY <1>1, <1>2, <1>4, MarkShrinks
  <2>. QED BY <1>2, <2>1 DEF Shrinks
<1>6. Becomes(t, "record", task[t].run, e) /\ task'[t].at = i
  BY <1>1, <1>3 DEF Chain, Becomes
<1>. QED BY <1>1, <1>2, <1>3, <1>4, <1>5, <1>6

\* The outcome of a step is written.
LEMMA RecordEffect ==
  ASSUME TypeOK, GateInv, NEW t \in Tasks, ExecRecord(t)
  PROVE  LET s == task[t].steps
             i == task[t].at
         IN  /\ UNCHANGED <<action, calls, granted>> /\ task[t].pc = "record" /\ task[t].run \in Runs
             /\ WriteRow(task[t].run, s, "running") /\ task'[t].at = i
             /\ \/ Becomes(t, "hand", task[t].run, s) /\ s[i].status = "failed"
                \/ Becomes(t, "dispatch", task[t].run, s) /\ s[i].status # "failed" /\ s[i].action # 0
                \/ Becomes(t, "exec", task[t].run, s) /\ s[i].action = 0
<1>. DEFINE s == task[t].steps
            i == task[t].at
<1>1. task[t].pc = "record" /\ task[t].run \in Runs /\ task[t] \in Chain
  BY Copy DEF ExecRecord, At, ChainOK
<1>2. WriteRow(task[t].run, s, "running") /\ UNCHANGED <<action, calls, granted>>
  BY DEF ExecRecord
<1>3. \A pc : Goto(t, pc) => Becomes(t, pc, task[t].run, s) /\ task'[t].at = i
  <2>. SUFFICES ASSUME NEW pc, Goto(t, pc) PROVE Becomes(t, pc, task[t].run, s) /\ task'[t].at = i
    OBVIOUS
  <2>1. task'[t] = [task[t] EXCEPT !.pc = pc] /\ \A u \in Tasks : u # t => task'[u] = task[u]
    BY DEF Goto, TypeOK
  <2>. QED BY <1>1, <2>1 DEF Chain, Becomes
<1>4. \/ Goto(t, "hand") /\ s[i].status = "failed"
      \/ Goto(t, "dispatch") /\ s[i].status # "failed" /\ s[i].action # 0
      \/ Goto(t, "exec") /\ s[i].action = 0
  BY DEF ExecRecord, Current
<1>. QED BY <1>1, <1>2, <1>3, <1>4

\* The step that has an action becomes dispatched.
LEMMA DispatchEffect ==
  ASSUME TypeOK, GateInv, TieInv, NEW t \in Tasks, ExecDispatch(t)
  PROVE  LET s == task[t].steps
             i == task[t].at
             r == task[t].run
         IN  /\ UNCHANGED <<action, calls, granted>> /\ task[t].pc = "dispatch" /\ r \in Runs /\ End(t)
             /\ i \in DOMAIN s /\ \A j \in Unfinished(s) : i < j
             /\ Tied(action, r, i, s[i].action) /\ Holds(task[t], s[i].action)
             /\ \E e : /\ WriteRow(r, e, "waiting_action") /\ DOMAIN e = DOMAIN s
                       /\ \A j \in DOMAIN s : /\ e[j].action = s[j].action
                                              /\ e[j].status = IF j = i THEN "dispatched" ELSE s[j].status
<1>. DEFINE s == task[t].steps
            r == task[t].run
            i == task[t].at
            e == [s EXCEPT ![i].status = "dispatched"]
<1>1. task[t].pc = "dispatch" /\ r \in Runs /\ s \in Steps /\ ChainAt(action, task[t])
  BY Copy DEF ExecDispatch, At, ChainOK, TieInv
<1>2. /\ i \in DOMAIN s /\ \A j \in Unfinished(s) : i < j
      /\ Tied(action, r, i, s[i].action) /\ Holds(task[t], s[i].action)
  BY <1>1 DEF ChainAt, Holds
<1>3. WriteRow(r, e, "waiting_action") /\ End(t) /\ UNCHANGED <<action, calls, granted>>
  BY DEF ExecDispatch
<1>4. /\ DOMAIN e = DOMAIN s
      /\ \A j \in DOMAIN s : e[j].action = s[j].action
           /\ e[j].status = IF j = i THEN "dispatched" ELSE s[j].status
  <2>1. "dispatched" \in StepStatus
    BY DEF StepStatus
  <2>. HIDE DEF s, i
  <2>. QED BY <1>1, <1>2, <2>1, Marks
<1>. HIDE DEF e
<1>. QED BY <1>1, <1>2, <1>3, <1>4

\* approveWorkerStep and denyWorkerStep read the row.
LEMMA AnswerReadEffect ==
  ASSUME TypeOK, GateInv, NEW t \in Tasks, NEW r \in Runs, ApproveRead(t, r) \/ DenyRead(t, r)
  PROVE  /\ UNCHANGED <<run, action, calls, granted>> /\ run[r].status = "waiting_approval"
         /\ \E pc \in {"approve", "deny"} : Becomes(t, pc, r, run[r].steps)
         /\ task'[t].at \in AwaitingSteps(run[r].steps)
<1>1. UNCHANGED <<run, action, calls, granted>>
  BY DEF ApproveRead, DenyRead
<1>2. PICK pc \in {"approve", "deny"} : ReadAwaiting(t, r, pc)
  BY DEF ApproveRead, DenyRead
<1>3. /\ Becomes(t, pc, r, run[r].steps)
      /\ task'[t].at = First(AwaitingSteps(run[r].steps))
  BY <1>2 DEF ReadAwaiting, TypeOK, Idle, Becomes
<1>4. First(AwaitingSteps(run[r].steps)) \in AwaitingSteps(run[r].steps) /\ run[r].status = "waiting_approval"
  BY <1>2, AwaitingFirst DEF ReadAwaiting, TypeOK, RunRow
<1>. QED BY <1>1, <1>3, <1>4

\* approveWorkerStep and denyWorkerStep write their copy.
LEMMA AnswerWriteEffect ==
  ASSUME TypeOK, GateInv, TieInv, NEW t \in Tasks, ApproveWrite(t) \/ DenyWrite(t)
  PROVE  /\ UNCHANGED <<action, calls>> /\ task[t].pc \in {"approve", "deny"} /\ task[t].run \in Runs
         /\ \E e : Shrinks(e, task[t].steps) /\ WriteRow(task[t].run, e, "running")
         /\ \/ /\ granted' = [granted EXCEPT ![task[t].run] = @ + 1]
               /\ Becomes(t, "advance", task[t].run, << >>) /\ ~task'[t].planning
            \/ granted' = granted /\ Becomes(t, "hand", task[t].run, task[t].steps)
<1>. DEFINE s == task[t].steps
            r == task[t].run
            i == task[t].at
<1>1. /\ task[t] \in Chain /\ task[t].pc \in {"approve", "deny"} /\ r \in Runs /\ s \in Steps
      /\ i \in AwaitingSteps(s)
  BY Copy DEF ApproveWrite, DenyWrite, At, ChainOK, TieInv, ChainAt
<1>2. PICK st \in {"pending", "denied"} :
        WriteRow(r, [s EXCEPT ![i].status = st, ![i].approved = TRUE], "running")
  BY DEF ApproveWrite, DenyWrite
<1>. DEFINE e == [s EXCEPT ![i].status = st, ![i].approved = TRUE]
<1>3. Shrinks(e, s)
  <2>1. i \in DOMAIN s /\ s[i] \in Step /\ s \in Seq(Step) /\ i \in Unfinished(s)
    BY <1>1, StepAt DEF Steps, AwaitingSteps, Unfinished
  <2>. HIDE DEF s, i
  <2>2. DOMAIN e = DOMAIN s /\ \A j \in DOMAIN s : j # i => e[j] = s[j]
    BY <2>1
  <2>3. e[i] = [s[i] EXCEPT !.status = st, !.approved = TRUE]
    BY <2>1
  <2>4. \A x \in Step : [x EXCEPT !.status = st, !.approved = TRUE].status = st
    BY DEF Step
  <2>. HIDE DEF e
  <2>5. e[i].status = st
    BY <2>1, <2>3, <2>4
  <2>. QED BY <1>1, <2>1, <2>2, <2>5, MarkShrinks
<1>4. WriteRow(r, e, "running")
  BY <1>2
<1>. HIDE DEF e
<1>5. CASE ApproveWrite(t)
  <2>1. granted' = [granted EXCEPT ![r] = @ + 1] /\ UNCHANGED <<action, calls>>
    BY <1>5 DEF ApproveWrite
  <2>2. Becomes(t, "advance", r, << >>) /\ ~task'[t].planning
    BY <1>5 DEF ApproveWrite, TypeOK, Idle, Becomes
  <2>. QED BY <1>1, <1>3, <1>4, <2>1, <2>2
<1>6. CASE DenyWrite(t)
  <2>1. task'[t] = [task[t] EXCEPT !.pc = "hand"] /\ \A u \in Tasks : u # t => task'[u] = task[u]
    BY <1>6 DEF DenyWrite, Goto, TypeOK
  <2>2. Becomes(t, "hand", r, s)
    BY <1>1, <2>1 DEF Chain, Becomes
  <2>3. UNCHANGED <<action, calls, granted>>
    BY <1>6 DEF DenyWrite
  <2>. QED BY <1>1, <1>3, <1>4, <2>2, <2>3
<1>. QED BY <1>5, <1>6

\* The agent reports on an action it was given, once.
LEMMA ReportEffect ==
  ASSUME TypeOK, GateInv, TieInv, NEW t \in Tasks, NEW a \in DOMAIN action,
         NEW outcome \in {"succeeded", "failed"}, AgentReport(t, a, outcome)
  PROVE  /\ UNCHANGED <<run, calls, granted>> /\ Off(task[t])
         /\ DOMAIN action' = DOMAIN action /\ Kept
         /\ action[a].status \notin Final /\ action'[a].status \in Final
         /\ Becomes(t, "resume", action[a].run, << >>) /\ task'[t].action = a
<1>1. /\ task[t] \in Chain /\ Off(task[t])
      /\ action[a].status = "dispatched" /\ UNCHANGED <<run, calls, granted>>
  BY DEF AgentReport, At, TypeOK, TieInv, ChainAt, Off
<1>2. /\ action' = [action EXCEPT ![a] = [action[a] EXCEPT !.status = outcome]]
      /\ \A b \in DOMAIN action : action[b] \in Action
  BY DEF AgentReport, TypeOK
<1>3. Kept /\ DOMAIN action' = DOMAIN action /\ action'[a].status \in Final
  <2>1. DOMAIN action' = DOMAIN action /\ action'[a] = [action[a] EXCEPT !.status = outcome]
    BY <1>2 DEF TypeOK
  <2>2. action'[a].run = action[a].run /\ action'[a].step = action[a].step /\ action'[a].status = outcome
    BY <1>2, <2>1 DEF Action
  <2>3. \A b \in DOMAIN action : b # a => action'[b] = action[b]
    BY <1>2 DEF TypeOK
  <2>. QED BY <2>1, <2>2, <2>3 DEF Kept, Final
<1>4. task'[t] = [task[t] EXCEPT !.pc = "resume", !.run = action[a].run, !.action = a]
      /\ \A u \in Tasks : u # t => task'[u] = task[u]
  BY DEF AgentReport, TypeOK
<1>5. Becomes(t, "resume", action[a].run, << >>) /\ task'[t].action = a
  BY <1>1, <1>4 DEF Chain, Becomes, Off
<1>. QED BY <1>1, <1>3, <1>5 DEF Final

\* resumeWorkerRun finds the step of the action, or stops.
LEMMA ResumeReadEffect ==
  ASSUME TypeOK, GateInv, NEW t \in Tasks, ResumeRead(t)
  PROVE  LET s == run[task[t].run].steps
         IN  /\ UNCHANGED <<run, action, calls, granted>> /\ task[t].pc = "resume" /\ task[t].run \in Runs
             /\ \/ End(t)
                \/ /\ Becomes(t, "resume_write", task[t].run, s) /\ task'[t].action = task[t].action
                   /\ task'[t].at \in DOMAIN s
                   /\ s[task'[t].at].status = "dispatched" /\ s[task'[t].at].action = task[t].action
<1>. DEFINE s == run[task[t].run].steps
            mine == {i \in DOMAIN s : s[i].action = task[t].action /\ s[i].status = "dispatched"}
<1>1. /\ UNCHANGED <<run, action, calls, granted>> /\ task[t].pc = "resume" /\ task[t].run \in Runs
      /\ task[t] \in Chain /\ s \in Steps
  BY Copy DEF ResumeRead, At, ChainOK, TypeOK, RunRow
<1>2. ASSUME ~End(t)
      PROVE  /\ Becomes(t, "resume_write", task[t].run, s) /\ task'[t].action = task[t].action
             /\ task'[t].at \in DOMAIN s
             /\ s[task'[t].at].status = "dispatched" /\ s[task'[t].at].action = task[t].action
  <2>1. mine # {} /\ task' = [task EXCEPT ![t].pc = "resume_write", ![t].steps = s, ![t].at = First(mine)]
    BY <1>2 DEF ResumeRead
  <2>2. First(mine) \in mine
    <3>1. mine \in SUBSET Nat
      BY <1>1, StepAt
    <3>. HIDE DEF mine
    <3>. QED BY <2>1, <3>1, FirstIn
  <2>3. task'[t] = [task[t] EXCEPT !.pc = "resume_write", !.steps = s, !.at = First(mine)]
        /\ \A u \in Tasks : u # t => task'[u] = task[u]
    <3>. HIDE DEF s, mine
    <3>. QED BY <2>1 DEF TypeOK
  <2>4. Becomes(t, "resume_write", task[t].run, s) /\ task'[t].at = First(mine) /\ task'[t].action = task[t].action
    <3>. HIDE DEF s, mine
    <3>. QED BY <1>1, <2>3 DEF Chain, Becomes
  <2>. QED BY <2>2, <2>4
<1>. QED BY <1>1, <1>2

\* resumeWorkerRun writes its copy and goes on.
LEMMA ResumeWriteEffect ==
  ASSUME TypeOK, GateInv, TieInv, NEW t \in Tasks, ResumeWrite(t)
  PROVE  /\ UNCHANGED <<action, calls, granted>> /\ task[t].pc = "resume_write" /\ task[t].run \in Runs
         /\ \E e : /\ Shrinks(e, task[t].steps)
                   /\ WriteRow(task[t].run, e, "running")
                   /\ Becomes(t, "exec", task[t].run, e)
<1>. DEFINE s == task[t].steps
            e == [s EXCEPT ![task[t].at].status = "succeeded"]
<1>1. /\ task[t] \in Chain /\ task[t].run \in Runs /\ task[t].pc = "resume_write"
      /\ s \in Steps /\ task[t].at \in DOMAIN s
  BY Copy DEF ResumeWrite, At, ChainOK, TieInv, ChainAt
<1>2. /\ WriteRow(task[t].run, e, "running") /\ UNCHANGED <<action, calls, granted>>
      /\ task' = [task EXCEPT ![t].pc = "exec", ![t].steps = e, ![t].gated = gated, ![t].action = 0]
  BY DEF ResumeWrite
<1>3. Shrinks(e, s)
  <2>1. "succeeded" \in StepStatus
    BY DEF StepStatus
  <2>2. /\ DOMAIN e = DOMAIN s
        /\ \A j \in DOMAIN s : e[j].action = s[j].action
             /\ e[j].status = IF j = task[t].at THEN "succeeded" ELSE s[j].status
    <3>. HIDE DEF s
    <3>. QED BY <1>1, <2>1, Marks
  <2>. HIDE DEF e, s
  <2>. QED BY <1>1, <2>2, MarkShrinks
<1>. HIDE DEF e
<1>4. task'[t] = [task[t] EXCEPT !.pc = "exec", !.steps = e, !.gated = gated, !.action = 0]
      /\ \A u \in Tasks : u # t => task'[u] = task[u]
  BY <1>2 DEF TypeOK
<1>5. Becomes(t, "exec", task[t].run, e)
  BY <1>1, <1>4 DEF Chain, Becomes
<1>. QED BY <1>1, <1>2, <1>3, <1>5

-----------------------------------------------------------------------------
(* TieInv is inductive *)

\* Chains that end, settle their run or lose it, and what other people do.
LEMMA TieQuiet ==
  ASSUME TypeOK, GateInv, TieInv, TypeOK',
         \/ UNCHANGED vars
         \/ AgentPoll
         \/ Restart
         \/ ResolveTicket
         \/ \E g \in SUBSET Gateable : SetPolicy(g)
         \/ \E r \in Runs : CancelWorkerRun(r)
         \/ \E t \in Tasks : HandRun(t) \/ FinalizeResolve(t) \/ FinalizeHandoff(t) \/ PlanUnusable(t) \/ TaskRejects(t)
  PROVE  TieInv'
<1>1. CASE AgentPoll
  <2>1. DOMAIN action' = DOMAIN action /\ Kept
    BY <1>1 DEF AgentPoll, Kept, TypeOK, Action, Final
  <2>2. UNCHANGED <<run, task>>
    BY <1>1 DEF AgentPoll
  <2>. QED BY <2>1, <2>2, TieStays
<1>2. CASE UNCHANGED vars \/ Restart \/ ResolveTicket \/ \E g \in SUBSET Gateable : SetPolicy(g)
  <2>1. UNCHANGED <<run, action>>
    BY <1>2 DEF vars, Restart, ResolveTicket, SetPolicy
  <2>2. \A u \in Tasks : task'[u] = task[u] \/ Off(task'[u])
    BY <1>2 DEF vars, Restart, ResolveTicket, SetPolicy, Off, Idle
  <2>. QED BY <2>1, <2>2, TieStays, SameKept
<1>3. ASSUME NEW r \in Runs, CancelWorkerRun(r) PROVE TieInv'
  <2>1. WriteStatus(r, "cancelled") /\ UNCHANGED <<task, action>>
    BY <1>3 DEF CancelWorkerRun
  <2>. QED BY <2>1, StatusOnly, TieStays, SameKept
<1>4. ASSUME NEW t \in Tasks,
             HandRun(t) \/ FinalizeResolve(t) \/ FinalizeHandoff(t) \/ PlanUnusable(t) \/ TaskRejects(t)
      PROVE TieInv'
  <2>1. End(t) /\ UNCHANGED action
    BY <1>4 DEF HandRun, FinalizeResolve, FinalizeHandoff, PlanUnusable, TaskRejects
  <2>2. UNCHANGED run \/ \E st \in {"handoff", "resolved", "failed"} : WriteStatus(task[t].run, st)
    BY <1>4 DEF HandRun, FinalizeResolve, FinalizeHandoff, PlanUnusable, TaskRejects
  <2>3. \A u \in Tasks : task'[u] = task[u] \/ Off(task'[u])
    BY <2>1, EndOff
  <2>4. \A r \in Runs : /\ run'[r].steps = run[r].steps
                        /\ run'[r].status # run[r].status =>
                             run'[r].status \notin {"waiting_approval", "waiting_action"}
    BY <2>2, StatusOnly
  <2>. QED BY <2>1, <2>3, <2>4, TieStays, SameKept
<1>. QED BY <1>1, <1>2, <1>3, <1>4

\* Transactions that write no row.
LEMMA TieReads ==
  ASSUME TypeOK, GateInv, TieInv, TypeOK', NEW t \in Tasks,
         CreateReadTicket(t) \/ CreateCheckActive(t) \/ AdvanceRun(t) \/ ResumeRead(t)
         \/ \E r \in Runs : ApproveRead(t, r) \/ DenyRead(t, r)
  PROVE  TieInv'
<1>. DEFINE c == task[t]
            d == task'[t]
<1>1. UNCHANGED <<run, action>> /\ Kept
  BY SameKept DEF CreateReadTicket, CreateCheckActive, AdvanceRun, ResumeRead, ApproveRead, DenyRead
<1>2. CASE \A u \in Tasks : task'[u] = task[u] \/ Off(task'[u])
  BY <1>1, <1>2, TieStays
<1>3. CASE CreateReadTicket(t) \/ CreateCheckActive(t)
  BY <1>2, <1>3, CreateEffect
<1>4. ASSUME NEW r \in Runs, NEW pc, Becomes(t, pc, r, run[r].steps), ChainAt(action', d),
             \A a \in DOMAIN action' : ~Holds(d, a) /\ (Resumes(d, a) => Resumes(c, a))
      PROVE  TieInv'
  <2>1. Known(d.run, d.steps) /\ \A u \in Tasks : u # t => task'[u] = task[u]
    BY <1>4, OwnKnown DEF Becomes
  <2>. QED BY <1>1, <1>4, <2>1, RowsKnown, TieMoves
<1>5. CASE AdvanceRun(t)
  <2>1. CASE ~End(t)
    <3>1. PICK pc \in {"plan", "exec"} : Becomes(t, pc, c.run, run[c.run].steps)
      BY <1>5, <2>1, AdvanceEffect
    <3>2. ChainAt(action', d) /\ \A a : ~Holds(d, a) /\ ~Resumes(d, a)
      BY <3>1 DEF Becomes, ChainAt, Holds, Resumes
    <3>3. c.run \in Runs
      BY <1>5, AdvanceEffect
    <3>. QED BY <1>4, <3>1, <3>2, <3>3
  <2>. QED BY <1>2, <2>1, EndOff
<1>6. CASE ResumeRead(t)
  <2>1. CASE ~End(t)
    <3>1. /\ Becomes(t, "resume_write", c.run, run[c.run].steps) /\ d.action = c.action
          /\ d.at \in DOMAIN run[c.run].steps /\ c.pc = "resume" /\ c.run \in Runs
          /\ run[c.run].steps[d.at].status = "dispatched" /\ run[c.run].steps[d.at].action = c.action
      BY <1>6, <2>1, ResumeReadEffect
    <3>2. ChainAt(action', d)
      BY <1>1, <3>1 DEF Becomes, TieInv, ChainAt
    <3>3. \A a : ~Holds(d, a) /\ (Resumes(d, a) => Resumes(c, a))
      BY <3>1 DEF Becomes, Holds, Resumes
    <3>. QED BY <1>4, <3>1, <3>2, <3>3
  <2>. QED BY <1>2, <2>1, EndOff
<1>7. ASSUME NEW r \in Runs, ApproveRead(t, r) \/ DenyRead(t, r) PROVE TieInv'
  <2>1. PICK pc \in {"approve", "deny"} : Becomes(t, pc, r, run[r].steps)
    BY <1>7, AnswerReadEffect
  <2>2. d.at \in AwaitingSteps(run[r].steps)
    BY <1>7, AnswerReadEffect
  <2>3. ChainAt(action', d) /\ \A a : ~Holds(d, a) /\ ~Resumes(d, a)
    BY <2>1, <2>2 DEF Becomes, ChainAt, Holds, Resumes
  <2>. QED BY <1>4, <2>1, <2>3
<1>. QED BY <1>3, <1>5, <1>6, <1>7

\* A row that its chain writes, going on with a list it knows.
LEMMA TieWrites ==
  ASSUME TypeOK, TieInv, TypeOK', UNCHANGED action, NEW t \in Tasks,
         NEW r \in Runs, NEW e, NEW st, WriteRow(r, e, st), Known(r, e), WaitOK([status |-> st, steps |-> e]),
         \A u \in Tasks : u # t => task'[u] = task[u] \/ Off(task'[u]),
         Known(task'[t].run, task'[t].steps), ChainAt(action', task'[t]),
         \A a : (Holds(task'[t], a) => Holds(task[t], a)) /\ ~Resumes(task'[t], a)
  PROVE  TieInv'
  BY RowKnown, SameKept, TieMoves

\* A row that is running waits for nothing.
LEMMA RunningWaits ==
  \A e : WaitOK([status |-> "running", steps |-> e])
  BY DEF WaitOK

\* A row that is inserted, and a plan.
LEMMA TieStarts ==
  ASSUME TypeOK, GateInv, TieInv, TypeOK', NEW t \in Tasks,
         (\E r \in Runs : CreateInsert(t, r)) \/ (\E p \in Plans : PlanRun(t, p))
  PROVE  TieInv'
<1>1. ASSUME NEW r \in Runs, NEW e, NEW pc \in {"advance", "exec"}, Fresh(e), UNCHANGED action,
             WriteRow(r, e, "running"), Becomes(t, pc, r, e)
      PROVE  TieInv'
  <2>1. Known(r, e) /\ Known(task'[t].run, task'[t].steps) /\ \A u \in Tasks : u # t => task'[u] = task[u]
    BY <1>1 DEF Known, Becomes
  <2>2. ChainAt(action', task'[t]) /\ \A a : ~Holds(task'[t], a) /\ ~Resumes(task'[t], a)
    BY <1>1 DEF Becomes, ChainAt, Holds, Resumes
  <2>. QED BY <1>1, <2>1, <2>2, RunningWaits, TieWrites
<1>2. Fresh(<< >>)
  BY DEF Fresh
<1>3. ASSUME NEW r \in Runs, CreateInsert(t, r) PROVE TieInv'
  BY <1>1, <1>2, <1>3, InsertEffect
<1>4. ASSUME NEW p \in Plans, PlanRun(t, p) PROVE TieInv'
  <2>1. UNCHANGED action /\ task[t].run \in Runs
    BY <1>4, PlanEffect
  <2>2. PICK e : Fresh(e) /\ WriteRow(task[t].run, e, "running") /\ Becomes(t, "exec", task[t].run, e)
    BY <1>4, PlanEffect
  <2>. QED BY <1>1, <2>1, <2>2
<1>. QED BY <1>3, <1>4

\* A step that is asked for, starts, throws, or is called.
LEMMA TieSteps ==
  ASSUME TypeOK, GateInv, TieInv, TypeOK', NEW t \in Tasks,
         ExecAskApproval(t) \/ ExecStart(t) \/ ExecToolThrows(t) \/ ExecTool(t)
  PROVE  TieInv'
<1>. DEFINE c == task[t]
            d == task'[t]
<1>1. CASE ExecAskApproval(t)
  <2>1. PICK e : Shrinks(e, c.steps) /\ AwaitingSteps(e) # {} /\ WriteRow(c.run, e, "waiting_approval")
    BY <1>1, AskEffect
  <2>2. UNCHANGED action /\ c.run \in Runs /\ End(t)
    BY <1>1, AskEffect
  <2>3. Known(c.run, e) /\ WaitOK([status |-> "waiting_approval", steps |-> e])
    BY <2>1 DEF Known, WaitOK
  <2>4. Off(d) /\ \A u \in Tasks : task'[u] = task[u] \/ Off(task'[u])
    BY <2>2, EndOff
  <2>. QED BY <2>1, <2>2, <2>3, <2>4, OffTied, TieWrites
<1>2. CASE ExecStart(t)
  <2>1. PICK e : /\ Shrinks(e, c.steps) /\ WriteRow(c.run, e, "running") /\ Becomes(t, "tool", c.run, e)
                 /\ d.at \in DOMAIN e /\ \A j \in Unfinished(e) : d.at < j
    BY <1>2, StartEffect
  <2>2. UNCHANGED action /\ c.run \in Runs
    BY <1>2, StartEffect
  <2>3. Known(c.run, e) /\ Known(d.run, d.steps) /\ \A u \in Tasks : u # t => task'[u] = task[u]
    BY <2>1 DEF Known, Becomes
  <2>4. ChainAt(action', d) /\ \A a : ~Holds(d, a) /\ ~Resumes(d, a)
    BY <2>1 DEF Becomes, ChainAt, Holds, Resumes
  <2>. QED BY <2>1, <2>2, <2>3, <2>4, RunningWaits, TieWrites
<1>3. ASSUME NEW e, Shrinks(e, c.steps), \A j \in Unfinished(e) : c.at < j, Becomes(t, "record", c.run, e),
             UNCHANGED run, Kept, d.at = c.at, c.at \in DOMAIN e,
             \/ e[c.at].status = "failed"
             \/ e[c.at].action = 0 /\ 0 \notin DOMAIN action'
             \/ Tied(action', c.run, c.at, e[c.at].action) /\ e[c.at].action \notin DOMAIN action
      PROVE  TieInv'
  <2>1. Known(d.run, d.steps) /\ \A u \in Tasks : u # t => task'[u] = task[u]
    BY <1>3 DEF Known, Becomes
  <2>2. ChainAt(action', d)
    BY <1>3 DEF Becomes, ChainAt
  <2>3. \A a \in DOMAIN action' : ~Resumes(d, a) /\ (Holds(d, a) => a \notin DOMAIN action)
    BY <1>3 DEF Becomes, Holds, Resumes
  <2>. QED BY <1>3, <2>1, <2>2, <2>3, RowsKnown, TieMoves
<1>4. CASE ExecToolThrows(t)
  <2>1. PICK e : /\ Shrinks(e, c.steps) /\ \A j \in Unfinished(e) : c.at < j
                 /\ c.at \in DOMAIN e /\ e[c.at].status = "failed"
                 /\ Becomes(t, "record", c.run, e) /\ d.at = c.at
    BY <1>4, ThrowsEffect
  <2>2. UNCHANGED <<run, action>>
    BY <1>4, ThrowsEffect
  <2>. QED BY <1>3, <2>1, <2>2, SameKept
<1>5. CASE ExecTool(t)
  <2>1. PICK n \in Nat : \E e :
          /\ Shrinks(e, c.steps) /\ \A j \in Unfinished(e) : c.at < j
          /\ c.at \in DOMAIN e /\ e[c.at].status = "succeeded" /\ e[c.at].action = n
          /\ Becomes(t, "record", c.run, e) /\ d.at = c.at
          /\ \/ n = 0 /\ action' = action
             \/ n = Len(action) + 1 /\ action' = Append(action, [run |-> c.run, step |-> c.at, status |-> "pending"])
    BY <1>5, ToolEffect
  <2>2. PICK e :
          /\ Shrinks(e, c.steps) /\ \A j \in Unfinished(e) : c.at < j
          /\ c.at \in DOMAIN e /\ e[c.at].status = "succeeded" /\ e[c.at].action = n
          /\ Becomes(t, "record", c.run, e) /\ d.at = c.at
          /\ \/ n = 0 /\ action' = action
             \/ n = Len(action) + 1 /\ action' = Append(action, [run |-> c.run, step |-> c.at, status |-> "pending"])
    BY <2>1
  <2>3. UNCHANGED run /\ action \in Seq(Action)
    BY <1>5, ToolEffect DEF TypeOK
  <2>4. CASE n = 0 /\ action' = action
    <3>1. 0 \notin DOMAIN action'
      BY DEF TypeOK
    <3>. QED BY <1>3, <2>2, <2>3, <2>4, <3>1, SameKept
  <2>5. ASSUME n = Len(action) + 1, action' = Append(action, [run |-> c.run, step |-> c.at, status |-> "pending"])
        PROVE  TieInv'
    <3>. DEFINE row == [run |-> c.run, step |-> c.at, status |-> "pending"]
    <3>1. row.run = c.run /\ row.step = c.at
      OBVIOUS
    <3>2. action' = Append(action, row)
      BY <2>5
    <3>. HIDE DEF row
    <3>3. Kept /\ n \in DOMAIN action' /\ n \notin DOMAIN action /\ action'[n] = row
      BY <2>3, <2>5, <3>2 DEF Kept
    <3>4. Tied(action', c.run, c.at, n)
      BY <3>1, <3>3 DEF Tied
    <3>. QED BY <1>3, <2>2, <2>3, <3>3, <3>4
  <2>. QED BY <2>2, <2>4, <2>5
<1>. QED BY <1>1, <1>2, <1>4, <1>5

\* The outcome of a step is written; the chain keeps what it holds.
LEMMA TieOutcome ==
  ASSUME TypeOK, GateInv, TieInv, TypeOK', NEW t \in Tasks, ExecRecord(t)
  PROVE  TieInv'
<1>. DEFINE c == task[t]
            d == task'[t]
            s == c.steps
<1>1. /\ UNCHANGED action /\ c.pc = "record" /\ c.run \in Runs
      /\ WriteRow(c.run, s, "running") /\ d.at = c.at
      /\ \/ Becomes(t, "hand", c.run, s)
         \/ Becomes(t, "dispatch", c.run, s) /\ s[c.at].status # "failed" /\ s[c.at].action # 0
         \/ Becomes(t, "exec", c.run, s)
  BY RecordEffect
<1>2. /\ Known(c.run, s) /\ Known(d.run, d.steps) /\ \A u \in Tasks : u # t => task'[u] = task[u]
      /\ d.run = c.run /\ d.steps = s
      /\ d.pc \in {"hand", "exec"} \/ (d.pc = "dispatch" /\ s[c.at].status # "failed" /\ s[c.at].action # 0)
  BY <1>1, OwnKnown DEF Becomes
<1>3. ChainAt(action', d)
  BY <1>1, <1>2 DEF TieInv, ChainAt
<1>4. \A a : (Holds(d, a) => Holds(c, a)) /\ ~Resumes(d, a)
  BY <1>1, <1>2 DEF Holds, Resumes
<1>. QED BY <1>1, <1>2, <1>3, <1>4, RunningWaits, TieWrites

\* A device step becomes dispatched: its action passes from the chain to the row.
LEMMA TieDispatch ==
  ASSUME TypeOK, GateInv, TieInv, TypeOK', NEW t \in Tasks, ExecDispatch(t)
  PROVE  TieInv'
<1>. DEFINE s == task[t].steps
            r == task[t].run
            i == task[t].at
            b == s[i].action
<1>1. /\ action' = action /\ r \in Runs /\ End(t)
      /\ i \in DOMAIN s /\ \A j \in Unfinished(s) : i < j
      /\ Tied(action, r, i, b) /\ Holds(task[t], b)
  BY DispatchEffect
<1>2. PICK e : /\ WriteRow(r, e, "waiting_action") /\ DOMAIN e = DOMAIN s
               /\ \A j \in DOMAIN s : /\ e[j].action = s[j].action
                                      /\ e[j].status = IF j = i THEN "dispatched" ELSE s[j].status
  BY DispatchEffect
<1>3. Off(task'[t]) /\ \A u \in Tasks : u # t => task'[u] = task[u]
  BY <1>1, TaskSet, EndOff DEF End
<1>4. /\ run'[r].steps = e /\ run'[r].status = "waiting_action"
      /\ \A q \in Runs : q # r => run'[q] = run[q]
  <2>. HIDE DEF r
  <2>. QED BY <1>1, <1>2, RowSet
<1>5. Unfinished(e) \subseteq Unfinished(s)
  BY <1>2 DEF Unfinished
<1>6. SentOK(action, r, s) /\ \A q \in Runs : SentOK(action, q, run[q].steps)
  BY DEF TieInv, ListsOK
<1>7. SentOK(action, r, e)
  <2>. HIDE DEF s, r, i, b
  <2>1. ASSUME NEW j \in DOMAIN e, e[j].status = "dispatched"
        PROVE  Tied(action, r, j, e[j].action) /\ \A k \in Unfinished(e) : j < k
    <3>1. CASE j = i
      BY <1>1, <1>2, <1>5, <3>1 DEF b
    <3>2. CASE j # i
      BY <1>2, <1>5, <1>6, <2>1, <3>2 DEF SentOK
    <3>. QED BY <3>1, <3>2
  <2>. QED BY <2>1 DEF SentOK
<1>8. \A a : Sent(e, a) => a = b \/ Sent(s, a)
  BY <1>2 DEF Sent
<1>9. ListsOK'
  <2>1. \A q \in Runs : SentOK(action, q, run'[q].steps)
    BY <1>4, <1>6, <1>7
  <2>2. \A u \in Tasks : SentOK(action, task'[u].run, task'[u].steps)
    BY <1>3, OffTied DEF TieInv, ListsOK
  <2>. QED BY <1>1, <2>1, <2>2 DEF ListsOK
<1>10. \A q \in Runs : WaitOK(run'[q])
  <2>1. WaitOK(run'[r])
    BY <1>1, <1>2, <1>4 DEF WaitOK
  <2>. QED BY <1>4, <2>1 DEF TieInv
<1>11. \A u \in Tasks : ChainAt(action', task'[u])
  BY <1>1, <1>3, OffTied DEF TieInv
<1>12. ASSUME NEW a \in DOMAIN action' PROVE OneCarrier(a)'
  <2>1. OneCarrier(a)
    BY <1>1 DEF TieInv
  <2>2. \A u \in Tasks : /\ Holds(task'[u], a) => Holds(task[u], a) /\ u # t
                         /\ Resumes(task'[u], a) => Resumes(task[u], a)
                         /\ Sent(task'[u].steps, a) => Sent(task[u].steps, a)
    BY <1>3, OffTied
  <2>3. Mentioned(a)' => a = b \/ Mentioned(a)
    BY <1>4, <1>8, <2>2 DEF Mentioned
  <2>4. a = b => \A u \in Tasks : ~Holds(task'[u], a)
    <3>. HIDE DEF Holds, Resumes, Mentioned
    <3>. QED BY <1>1, <2>1, <2>2 DEF OneCarrier
  <2>. HIDE DEF Holds, Resumes, Mentioned
  <2>. QED BY <2>1, <2>2, <2>3, <2>4 DEF OneCarrier
<1>. QED BY <1>9, <1>10, <1>11, <1>12 DEF TieInv

\* An answer is written.
LEMMA TieAnswers ==
  ASSUME TypeOK, GateInv, TieInv, TypeOK', NEW t \in Tasks, ApproveWrite(t) \/ DenyWrite(t)
  PROVE  TieInv'
<1>. DEFINE c == task[t]
            d == task'[t]
<1>1. PICK e : Shrinks(e, c.steps) /\ WriteRow(c.run, e, "running")
  BY AnswerWriteEffect
<1>2. /\ UNCHANGED action /\ c.run \in Runs
      /\ Becomes(t, "advance", c.run, << >>) \/ Becomes(t, "hand", c.run, c.steps)
  BY AnswerWriteEffect
<1>3. /\ Known(c.run, e) /\ Known(d.run, d.steps) /\ \A u \in Tasks : u # t => task'[u] = task[u]
      /\ d.pc \in {"advance", "hand"}
  BY <1>1, <1>2, OwnKnown DEF Known, Fresh, Becomes
<1>4. ChainAt(action', d) /\ \A a : ~Holds(d, a) /\ ~Resumes(d, a)
  BY <1>3 DEF ChainAt, Holds, Resumes
<1>. QED BY <1>1, <1>2, <1>3, <1>4, RunningWaits, TieWrites

\* The report of an action, which no chain resumed before.
LEMMA TieReport ==
  ASSUME TypeOK, GateInv, TieInv, TypeOK', NEW t \in Tasks, NEW a \in DOMAIN action,
         NEW outcome \in {"succeeded", "failed"}, AgentReport(t, a, outcome)
  PROVE  TieInv'
<1>. DEFINE d == task'[t]
<1>1. /\ UNCHANGED run /\ DOMAIN action' = DOMAIN action /\ Kept
      /\ action[a].status \notin Final /\ action'[a].status \in Final
      /\ Becomes(t, "resume", action[a].run, << >>) /\ d.action = a
  BY ReportEffect
<1>2. d.pc = "resume" /\ d.run = action[a].run /\ d.steps = << >> /\ \A u \in Tasks : u # t => task'[u] = task[u]
  BY <1>1 DEF Becomes
<1>3. Known(d.run, d.steps)
  BY <1>2 DEF Known, Fresh
<1>4. ChainAt(action', d)
  BY <1>1, <1>2 DEF ChainAt, Kept
<1>5. \A b : ~Holds(d, b) /\ (Resumes(d, b) => b = a)
  BY <1>1, <1>2 DEF Holds, Resumes
<1>. QED BY <1>1, <1>2, <1>3, <1>4, <1>5, RowsKnown, TieMoves

\* The run goes on with the step the agent did.
LEMMA TieResume ==
  ASSUME TypeOK, GateInv, TieInv, TypeOK', NEW t \in Tasks, ResumeWrite(t)
  PROVE  TieInv'
<1>. DEFINE c == task[t]
            d == task'[t]
<1>1. PICK e : Shrinks(e, c.steps) /\ WriteRow(c.run, e, "running") /\ Becomes(t, "exec", c.run, e)
  BY ResumeWriteEffect
<1>2. UNCHANGED action /\ c.run \in Runs
  BY ResumeWriteEffect
<1>3. Known(c.run, e) /\ Known(d.run, d.steps) /\ \A u \in Tasks : u # t => task'[u] = task[u]
  BY <1>1 DEF Known, Becomes
<1>4. ChainAt(action', d) /\ \A a : ~Holds(d, a) /\ ~Resumes(d, a)
  BY <1>1 DEF Becomes, ChainAt, Holds, Resumes
<1>. QED BY <1>1, <1>2, <1>3, <1>4, RunningWaits, TieWrites

\* Every step of the specification keeps TieInv.
LEMMA TieInductive ==
  ASSUME TypeOK, GateInv, TieInv, TypeOK', [Next]_vars
  PROVE  TieInv'
<1>1. ASSUME NEW t \in Tasks, TaskStep(t) PROVE TieInv'
  BY <1>1, TieReads, TieStarts, TieSteps, TieOutcome, TieDispatch, TieAnswers, TieResume, TieQuiet DEF TaskStep
<1>2. ASSUME NEW t \in Tasks, CreateReadTicket(t) \/ TaskRejects(t) PROVE TieInv'
  BY <1>2, TieReads, TieQuiet
<1>3. CASE UNCHANGED vars
  BY <1>3, TieQuiet
<1>. QED BY <1>1, <1>2, <1>3, TieReads, TieReport, TieQuiet DEF Next

\* TieInv holds for any number of runs, chains, actions and faults.
LEMMA TieHolds == Spec => [](TypeOK /\ GateInv /\ TieInv)
<1>1. Init => TieInv
  <2>. SUFFICES ASSUME Init PROVE TieInv
    OBVIOUS
  <2>1. \A t \in Tasks : Off(task[t])
    BY DEF Init, Idle, Off
  <2>2. \A r \in Runs : WaitOK(run[r]) /\ SentOK(action, r, run[r].steps)
    BY DEF Init, WaitOK, SentOK
  <2>3. DOMAIN action = {}
    BY DEF Init
  <2>4. \A t \in Tasks : SentOK(action, task[t].run, task[t].steps) /\ ChainAt(action, task[t])
    BY <2>1, OffTied
  <2>. QED BY <2>2, <2>3, <2>4 DEF TieInv, ListsOK
<1>2. TypeOK /\ GateInv /\ (TypeOK /\ GateInv)' /\ TieInv /\ [Next]_vars => TieInv'
  BY TieInductive
<1>. QED BY <1>1, <1>2, Invariant, PTL DEF Spec

\* Whatever writes replace a row, late ones included, its status and its steps
\* agree: it waits for one approval exactly when one of its steps does, and for a
\* device with a step sent as an action of its own (execStep, resumeWorkerRun).
THEOREM RowsAndStepsAgree == Spec => []RowsAgree
<1>1. TypeOK /\ GateInv /\ TieInv => RowsAgree
  <2>. SUFFICES ASSUME TypeOK, GateInv, TieInv, NEW r \in Runs
                PROVE  /\ run[r].status = "waiting_approval" => Cardinality(AwaitingSteps(run[r].steps)) = 1
                       /\ run[r].status = "running" => AwaitingSteps(run[r].steps) = {}
                       /\ run[r].status = "waiting_action" =>
                            \E i \in DOMAIN run[r].steps :
                              /\ run[r].steps[i].status = "dispatched"
                              /\ run[r].steps[i].action \in DOMAIN action
                              /\ action[run[r].steps[i].action].run = r
                              /\ action[run[r].steps[i].action].step = i
    BY DEF RowsAgree
  <2>1. RowOK(run[r]) /\ WaitOK(run[r]) /\ SentOK(action, r, run[r].steps)
    BY DEF GateInv, TieInv, ListsOK
  <2>2. ASSUME run[r].status = "waiting_approval" PROVE Cardinality(AwaitingSteps(run[r].steps)) = 1
    <3>1. PICK x \in AwaitingSteps(run[r].steps) : TRUE
      BY <2>1, <2>2 DEF WaitOK
    <3>2. AwaitingSteps(run[r].steps) = {x}
      BY <2>1, <2>2, <3>1 DEF RowOK
    <3>. QED BY <3>2, FS_Singleton
  <2>3. run[r].status = "running" => AwaitingSteps(run[r].steps) = {}
    BY <2>1 DEF RowOK
  <2>. QED BY <2>1, <2>2, <2>3 DEF WaitOK, SentOK, Tied
<1>. QED BY <1>1, TieHolds, PTL

-----------------------------------------------------------------------------
(* Calls and approvals: CountInv *)

\* A chain that reads the list may still call step i.
Left(steps, i) == \E j \in Unfinished(steps) : j <= i

\* The chain may call the step, or hands on a list in which it may be called.
Opens(c, i) ==
  \/ c.pc = "tool" /\ c.at <= i
  \/ /\ c.pc \in {"exec", "record", "dispatch", "resume_write", "approve", "deny"}
     /\ Left(c.steps, i)

\* The chain will go on calling steps without another approval or report.
Carries(c) ==
  \/ c.pc \in {"advance", "plan", "exec", "tool"}
  \/ c.pc = "record" /\ (c.steps[c.at].status = "failed" \/ c.steps[c.at].action = 0)

\* The chain may call step i without another approval or report.
May(c, i) == Carries(c) /\ (c.pc = "advance" \/ Opens(c, i))

\* The chain is the planning turn of its run.
Planning(c) == c.pc = "plan" \/ (c.pc = "advance" /\ c.planning)
\* The chain writes a technician's answer.
Deciding(c) == c.pc \in {"approve", "deny"}

\* A report of action a may yet come, or a chain is about to hand it on or to resume.
Live(a) ==
  \/ action[a].status \notin Final
  \/ \E t \in Tasks : Holds(task[t], a) \/ Resumes(task[t], a)

\* Who may call a step of run r next: chains, and the live actions that will start one.
Carriers(r) == {t \in Tasks : task[t].run = r /\ Carries(task[t])}
Errands(r) == {a \in DOMAIN action : action[a].run = r /\ Live(a)}
\* Who may call step i: chains, and the live actions of earlier steps.
Callers(r, i) == {t \in Tasks : task[t].run = r /\ May(task[t], i)}
ErrandsBefore(r, i) == {a \in DOMAIN action : action[a].run = r /\ Live(a) /\ action[a].step < i}

\* The calls that were made of step i, and those that are still possible.
Weight(r, i) == calls[r][i] + Cardinality(Callers(r, i)) + Cardinality(ErrandsBefore(r, i))

\* No list in the row or in any copy lets step i be called again.
Sealed(r, i) ==
  /\ ~Left(run[r].steps, i)
  /\ \A t \in Tasks : task[t].run = r => ~Opens(task[t], i)

\* Until the first approval one chain, or one live action, carries the run on, and a
\* step that was called is sealed: no list brings it back.
Unasked(r) ==
  /\ \A t, u \in Carriers(r) : t = u
  /\ \A a, b \in Errands(r) : a = b
  /\ Carriers(r) = {} \/ Errands(r) = {}
  /\ Carriers(r) # {} \/ Errands(r) # {} =>
       /\ run[r].status # "waiting_approval"
       /\ \A t \in Tasks : task[t].run = r => ~Deciding(task[t])
  /\ \A i \in StepIx : calls[r][i] <= 1 /\ (calls[r][i] = 1 => Sealed(r, i))
  /\ \A t \in Tasks : task[t].run = r /\ task[t].pc = "tool" =>
       \A j \in Unfinished(run[r].steps) : task[t].at < j
  /\ run[r].status = "none" =>
       /\ \A t \in Tasks : task[t].run # r
       /\ \A a \in DOMAIN action : action[a].run # r
       /\ \A i \in StepIx : calls[r][i] = 0
  /\ \A t \in Tasks : task[t].run = r /\ Planning(task[t]) => \A i \in StepIx : calls[r][i] = 0

\* After it several chains may carry the run on, but each of them was paid for by an
\* approval: the calls made and still possible of a step are at most the approvals.
Asked(r) ==
  /\ run[r].status # "none"
  /\ \A t \in Tasks : task[t].run = r => ~Planning(task[t])
  /\ \A i \in StepIx : /\ calls[r][i] <= 1 \/ calls[r][i] <= granted[r]
                       /\ Sealed(r, i) \/ Weight(r, i) <= granted[r]

CountType == calls \in [Runs -> [StepIx -> Nat]] /\ granted \in [Runs -> Nat]

CountInv ==
  \A r \in Runs : (granted[r] = 0 => Unasked(r)) /\ (granted[r] # 0 => Asked(r))

Safe == TypeOK /\ GateInv /\ TieInv /\ CountType /\ CountInv

LEMMA StepNat == \A i \in StepIx : i \in Nat
  BY PlansAssumption DEF StepIx

\* Callers and errands can be counted.
LEMMA WeightSets ==
  ASSUME TypeOK, NEW r, NEW i
  PROVE  /\ IsFiniteSet(Callers(r, i)) /\ IsFiniteSet(ErrandsBefore(r, i))
         /\ Cardinality(Callers(r, i)) \in Nat /\ Cardinality(ErrandsBefore(r, i)) \in Nat
<1>1. IsFiniteSet(Callers(r, i))
  <2>1. Callers(r, i) \in SUBSET Tasks
    BY DEF Callers
  <2>. QED BY <2>1, TasksAssumption, FS_Subset
<1>2. IsFiniteSet(ErrandsBefore(r, i))
  <2>1. IsFiniteSet(1..Len(action)) /\ DOMAIN action = 1..Len(action)
    BY FS_Interval DEF TypeOK
  <2>2. ErrandsBefore(r, i) \in SUBSET (1..Len(action))
    BY <2>1 DEF ErrandsBefore
  <2>. QED BY <2>1, <2>2, FS_Subset
<1>. QED BY <1>1, <1>2, FS_CardinalityType

\* A chain that has ended, or has no run yet, calls nothing.
LEMMA OffQuiet ==
  ASSUME NEW c, Off(c)
  PROVE  /\ c.run \notin Runs /\ ~Carries(c) /\ ~Planning(c) /\ ~Deciding(c) /\ c.pc # "tool"
         /\ \A i : ~Opens(c, i) /\ ~May(c, i)
  BY RunsAssumption DEF Off, Carries, Planning, Deciding, Opens, May

-----------------------------------------------------------------------------
(* Transactions that give nobody a call more *)

\* A row is written by a chain whose copy allows as much, and waits for an
\* answer only when its chain ends.
RowsCalm(t) ==
  LET c == task[t]
  IN  \A r \in Runs :
        /\ \A i \in Nat : Left(run'[r].steps, i) => Left(run[r].steps, i) \/ (c.run = r /\ Opens(c, i))
        /\ run'[r].steps # run[r].steps =>
             c.run = r /\ (Carries(c) \/ Deciding(c) \/ \E a \in DOMAIN action : Holds(c, a))
        /\ run'[r].status = "none" => run[r].status = "none"
        /\ run'[r].status = "waiting_approval" =>
             run[r].status = "waiting_approval" \/ (c.run = r /\ Carries(c) /\ Off(task'[t]))

\* A step that gives no chain and no device action more to call than it had:
\* chain c goes on as d, and the row is one that its copy or the row allows.
Calm(t) ==
  LET c == task[t]
      d == task'[t]
  IN  /\ \A u \in Tasks : u # t => task'[u] = task[u] \/ Off(task'[u])
      /\ DOMAIN action' = DOMAIN action /\ Kept
      /\ UNCHANGED <<calls, granted>>
      /\ d.run \in Runs =>
           \/ d.run = c.run
           \/ run[d.run].status = "waiting_approval"
           \/ \E a \in DOMAIN action : action[a].run = d.run
      /\ Carries(d) => Carries(c) /\ d.run = c.run
      /\ Planning(d) => Planning(c)
      /\ Deciding(d) => (Deciding(c) /\ d.run = c.run) \/ run[d.run].status = "waiting_approval"
      /\ \A i \in Nat : May(d, i) => May(c, i)
      /\ \A i \in Nat : Opens(d, i) => (Opens(c, i) /\ d.run = c.run) \/ Left(run[d.run].steps, i)
      /\ d.pc = "tool" =>
           (d = c /\ run'[c.run].steps = run[c.run].steps) \/ \A j \in Unfinished(run'[d.run].steps) : d.at < j
      /\ \A a \in DOMAIN action : Holds(d, a) \/ Resumes(d, a) => Live(a)
      /\ RowsCalm(t)

\* A calm step adds no carrier, errand or caller, and unseals nothing.
LEMMA CalmSets ==
  ASSUME Safe, NEW t \in Tasks, Calm(t), NEW r \in Runs
  PROVE  /\ Carriers(r)' \subseteq Carriers(r)
         /\ Errands(r)' \subseteq Errands(r)
         /\ \A i \in Nat : /\ Callers(r, i)' \subseteq Callers(r, i)
                           /\ ErrandsBefore(r, i)' \subseteq ErrandsBefore(r, i)
                           /\ Sealed(r, i) => Sealed(r, i)'
<1>1. \A u \in Tasks : u # t => task'[u] = task[u] \/ Off(task'[u])
  BY DEF Calm, RowsCalm
<1>2. \A u \in Tasks : task'[u].run = r /\ Carries(task'[u]) => task[u].run = r /\ Carries(task[u])
  BY <1>1, OffQuiet DEF Calm, RowsCalm
<1>3. \A u \in Tasks, i \in Nat : task'[u].run = r /\ May(task'[u], i) => task[u].run = r /\ May(task[u], i)
  <2>1. \A u \in Tasks, i \in Nat : May(task'[u], i) => May(task[u], i)
    BY <1>1, OffQuiet DEF Calm, RowsCalm
  <2>. QED BY <1>2, <2>1 DEF May
<1>4. \A a \in DOMAIN action : Live(a)' => Live(a)
  <2>. SUFFICES ASSUME NEW a \in DOMAIN action, Live(a)' PROVE Live(a)
    OBVIOUS
  <2>1. CASE action'[a].status \notin Final
    BY <2>1 DEF Calm, Kept, Live
  <2>2. ASSUME NEW u \in Tasks, Holds(task'[u], a) \/ Resumes(task'[u], a) PROVE Live(a)
    <3>1. CASE u = t
      BY <2>2, <3>1 DEF Calm, RowsCalm
    <3>2. CASE u # t
      BY <1>1, <2>2, <3>2, OffTied DEF Live
    <3>. QED BY <3>1, <3>2
  <2>. QED BY <2>1, <2>2 DEF Live
<1>5. \A a \in DOMAIN action : action'[a].run = action[a].run /\ action'[a].step = action[a].step
  BY DEF Calm, Kept
<1>6. DOMAIN action' = DOMAIN action
  BY DEF Calm, RowsCalm
<1>7. ASSUME NEW i \in Nat, Sealed(r, i) PROVE Sealed(r, i)'
  <2>1. ~Left(run[r].steps, i) /\ \A u \in Tasks : task[u].run = r => ~Opens(task[u], i)
    BY <1>7 DEF Sealed
  <2>2. ~Left(run'[r].steps, i)
    BY <2>1 DEF Calm, RowsCalm
  <2>3. ASSUME NEW u \in Tasks, task'[u].run = r, Opens(task'[u], i) PROVE FALSE
    <3>1. CASE u = t
      BY <2>1, <2>3, <3>1 DEF Calm, RowsCalm
    <3>2. CASE u # t
      BY <1>1, <2>1, <2>3, <3>2, OffQuiet
    <3>. QED BY <3>1, <3>2
  <2>. QED BY <2>2, <2>3 DEF Sealed
<1>8. Carriers(r)' \subseteq Carriers(r)
  BY <1>2 DEF Carriers
<1>9. Errands(r)' \subseteq Errands(r)
  BY <1>4, <1>5, <1>6 DEF Errands
<1>10. \A i \in Nat : Callers(r, i)' \subseteq Callers(r, i)
  BY <1>3 DEF Callers
<1>11. \A i \in Nat : ErrandsBefore(r, i)' \subseteq ErrandsBefore(r, i)
  BY <1>4, <1>5, <1>6 DEF ErrandsBefore
<1>. QED BY <1>7, <1>8, <1>9, <1>10, <1>11

\* A calm step of a run nobody approved a step of.
LEMMA CalmUnasked ==
  ASSUME Safe, NEW t \in Tasks, Calm(t), NEW r \in Runs, Unasked(r)
  PROVE  Unasked(r)'
<1>. DEFINE c == task[t]
            d == task'[t]
<1>0. \A u \in Tasks : u # t => task'[u] = task[u] \/ Off(task'[u])
  BY DEF Calm, RowsCalm
<1>1. /\ Carriers(r)' \subseteq Carriers(r)
      /\ Errands(r)' \subseteq Errands(r)
      /\ \A i \in StepIx : Sealed(r, i) => Sealed(r, i)'
  BY CalmSets, StepNat
<1>2. /\ \A x, y \in Carriers(r)' : x = y
      /\ \A a, b \in Errands(r)' : a = b
      /\ Carriers(r)' = {} \/ Errands(r)' = {}
  BY <1>1 DEF Unasked
<1>3. ASSUME Carriers(r)' # {} \/ Errands(r)' # {}
      PROVE  /\ run'[r].status # "waiting_approval"
             /\ \A u \in Tasks : task'[u].run = r => ~Deciding(task'[u])
  <2>1. /\ run[r].status # "waiting_approval"
        /\ \A u \in Tasks : task[u].run = r => ~Deciding(task[u])
    BY <1>1, <1>3 DEF Unasked
  <2>2. run'[r].status # "waiting_approval"
    <3>. SUFFICES ASSUME run'[r].status = "waiting_approval" PROVE FALSE
      OBVIOUS
    <3>1. c.run = r /\ Carries(c) /\ Off(d)
      BY <2>1 DEF Calm, RowsCalm
    <3>2. t \in Carriers(r) /\ t \notin Carriers(r)'
      BY <3>1, OffQuiet DEF Carriers
    <3>3. Carriers(r)' = {} /\ Errands(r)' = {}
      BY <1>1, <3>2 DEF Unasked
    <3>. QED BY <1>3, <3>3
  <2>3. ASSUME NEW u \in Tasks, task'[u].run = r, Deciding(task'[u]) PROVE FALSE
    <3>1. CASE u = t
      BY <2>1, <2>3, <3>1 DEF Calm, RowsCalm
    <3>2. CASE u # t
      BY <1>0, <2>1, <2>3, <3>2, OffQuiet
    <3>. QED BY <3>1, <3>2
  <2>. QED BY <2>2, <2>3
<1>4. \A i \in StepIx : calls'[r][i] <= 1 /\ (calls'[r][i] = 1 => Sealed(r, i)')
  BY <1>1 DEF Unasked, Calm, RowsCalm
<1>5. ASSUME NEW u \in Tasks, task'[u].run = r, task'[u].pc = "tool", NEW j \in Unfinished(run'[r].steps)
      PROVE  task'[u].at < j
  <2>1. CASE u = t
    <3>1. CASE d = c /\ run'[c.run].steps = run[c.run].steps
      BY <1>5, <2>1, <3>1 DEF Unasked
    <3>. QED BY <1>5, <2>1, <3>1 DEF Calm, RowsCalm
  <2>2. CASE u # t
    <3>1. task'[u] = task[u]
      BY <1>0, <1>5, <2>2, OffQuiet
    <3>2. u \in Carriers(r)
      BY <1>5, <3>1 DEF Carriers, Carries
    <3>3. ~Carries(c) \/ c.run # r
      BY <2>2, <3>2 DEF Unasked, Carriers
    <3>4. ~Deciding(c) \/ c.run # r
      BY <3>2 DEF Unasked
    <3>5. \A a \in DOMAIN action : ~Holds(c, a) \/ c.run # r
      <4>. SUFFICES ASSUME NEW a \in DOMAIN action, Holds(c, a), c.run = r PROVE FALSE
        OBVIOUS
      <4>1. a # 0
        BY DEF Safe, TypeOK
      <4>2. action[a].run = r
        BY <4>1 DEF Safe, TieInv, ChainAt, Holds, Tied
      <4>3. a \in Errands(r)
        BY <4>2 DEF Errands, Live
      <4>. QED BY <3>2, <4>3 DEF Unasked
    <3>6. run'[r].steps = run[r].steps
      BY <3>3, <3>4, <3>5 DEF Calm, RowsCalm
    <3>. QED BY <1>5, <3>1, <3>6 DEF Unasked
  <2>. QED BY <2>1, <2>2
<1>6. ASSUME run'[r].status = "none"
      PROVE  /\ \A u \in Tasks : task'[u].run # r
             /\ \A a \in DOMAIN action' : action'[a].run # r
             /\ \A i \in StepIx : calls'[r][i] = 0
  <2>1. run[r].status = "none"
    BY <1>6 DEF Calm, RowsCalm
  <2>2. /\ \A u \in Tasks : task[u].run # r
        /\ \A a \in DOMAIN action : action[a].run # r
        /\ \A i \in StepIx : calls[r][i] = 0
    BY <2>1 DEF Unasked
  <2>3. d.run # r
    BY <2>1, <2>2 DEF Calm, RowsCalm
  <2>4. \A u \in Tasks : task'[u].run # r
    BY <1>0, <2>2, <2>3, OffQuiet
  <2>. QED BY <2>2, <2>4 DEF Calm, Kept
<1>7. ASSUME NEW u \in Tasks, task'[u].run = r, Planning(task'[u]), NEW i \in StepIx PROVE calls'[r][i] = 0
  <2>1. task[u].run = r /\ Planning(task[u])
    <3>1. CASE u = t
      <4>1. Carries(d)
        BY <1>7, <3>1 DEF Planning, Carries
      <4>. QED BY <1>7, <3>1, <4>1 DEF Calm, RowsCalm
    <3>2. CASE u # t
      BY <1>0, <1>7, <3>2, OffQuiet
    <3>. QED BY <3>1, <3>2
  <2>. QED BY <2>1 DEF Unasked, Calm, RowsCalm
<1>. QED BY <1>2, <1>3, <1>4, <1>5, <1>6, <1>7 DEF Unasked

\* A calm step of a run with approvals: no weight grows.
LEMMA CalmAsked ==
  ASSUME Safe, TypeOK', NEW t \in Tasks, Calm(t), NEW r \in Runs, Asked(r)
  PROVE  Asked(r)'
<1>0. \A u \in Tasks : u # t => task'[u] = task[u] \/ Off(task'[u])
  BY DEF Calm, RowsCalm
<1>1. run'[r].status # "none"
  BY DEF Asked, Calm, RowsCalm
<1>2. ASSUME NEW u \in Tasks, task'[u].run = r, Planning(task'[u]) PROVE FALSE
  <2>1. task[u].run = r /\ Planning(task[u])
    <3>1. CASE u = t
      <4>1. Carries(task'[t])
        BY <1>2, <3>1 DEF Planning, Carries
      <4>. QED BY <1>2, <3>1, <4>1 DEF Calm, RowsCalm
    <3>2. CASE u # t
      BY <1>0, <1>2, <3>2, OffQuiet
    <3>. QED BY <3>1, <3>2
  <2>. QED BY <2>1 DEF Asked
<1>3. ASSUME NEW i \in StepIx
      PROVE  /\ calls'[r][i] <= 1 \/ calls'[r][i] <= granted'[r]
             /\ Sealed(r, i)' \/ Weight(r, i)' <= granted'[r]
  <2>1. /\ Callers(r, i)' \subseteq Callers(r, i)
        /\ ErrandsBefore(r, i)' \subseteq ErrandsBefore(r, i)
        /\ Sealed(r, i) => Sealed(r, i)'
    BY CalmSets, StepNat
  <2>2. /\ Cardinality(Callers(r, i)') <= Cardinality(Callers(r, i))
        /\ Cardinality(ErrandsBefore(r, i)') <= Cardinality(ErrandsBefore(r, i))
    BY <2>1, WeightSets, FS_Subset DEF Safe
  <2>3. /\ Cardinality(Callers(r, i)') \in Nat /\ Cardinality(ErrandsBefore(r, i)') \in Nat
        /\ Cardinality(Callers(r, i)) \in Nat /\ Cardinality(ErrandsBefore(r, i)) \in Nat
    BY <2>1, WeightSets, FS_Subset, FS_CardinalityType DEF Safe
  <2>4. calls' = calls /\ granted' = granted /\ calls[r][i] \in Nat /\ granted[r] \in Nat
    BY DEF Calm, Safe, CountType
  <2>5. Weight(r, i)' <= Weight(r, i)
    BY <2>2, <2>3, <2>4 DEF Weight
  <2>6. Weight(r, i) \in Nat /\ Weight(r, i)' \in Nat
    BY <2>3, <2>4 DEF Weight
  <2>. QED BY <2>1, <2>4, <2>5, <2>6 DEF Asked
<1>. QED BY <1>1, <1>2, <1>3 DEF Asked

\* A calm step keeps CountInv.
LEMMA CalmCount ==
  ASSUME Safe, TypeOK', NEW t \in Tasks, Calm(t)
  PROVE  CountType' /\ CountInv'
<1>1. CountType' /\ granted' = granted
  BY DEF Safe, CountType, Calm
<1>2. \A r \in Runs : (granted[r] = 0 => Unasked(r)) /\ (granted[r] # 0 => Asked(r))
  BY DEF Safe, CountInv
<1>3. \A r \in Runs : (Unasked(r) => Unasked(r)') /\ (Asked(r) => Asked(r)')
  BY CalmUnasked, CalmAsked
<1>4. \A r \in Runs : (granted'[r] = 0 => Unasked(r)') /\ (granted'[r] # 0 => Asked(r)')
  BY <1>1, <1>2, <1>3
<1>. QED BY <1>1, <1>4 DEF CountInv

LEMMA RowsStayCalm == ASSUME NEW t \in Tasks, UNCHANGED run PROVE RowsCalm(t)
  BY DEF RowsCalm

\* A status written over a row opens no step.
LEMMA StatusCalm ==
  ASSUME TypeOK, NEW t \in Tasks, NEW q, NEW st \in {"handoff", "resolved", "cancelled", "failed"}, WriteStatus(q, st)
  PROVE  RowsCalm(t)
  BY StatusOnly DEF RowsCalm

\* A row that its chain writes opens no step that the chain did not.
LEMMA RowCalm ==
  ASSUME TypeOK, NEW t \in Tasks, task[t].run \in Runs,
         NEW e, NEW st \in {"running", "waiting_action", "waiting_approval"}, WriteRow(task[t].run, e, st),
         \A i \in Nat : Left(e, i) => Opens(task[t], i),
         Carries(task[t]) \/ Deciding(task[t]) \/ \E a \in DOMAIN action : Holds(task[t], a),
         st = "waiting_approval" => Carries(task[t]) /\ Off(task'[t])
  PROVE  RowsCalm(t)
<1>. DEFINE r == task[t].run
<1>1. run'[r].steps = e /\ run'[r].status = st /\ \A q \in Runs : q # r => run'[q] = run[q]
  <2>. HIDE DEF r
  <2>. QED BY RowSet DEF r
<1>. QED BY <1>1 DEF RowsCalm

\* Every chain stays or ends.
LEMMA StillCalm ==
  ASSUME Safe, NEW t \in Tasks, \A u \in Tasks : task'[u] = task[u] \/ Off(task'[u]),
         DOMAIN action' = DOMAIN action, Kept, UNCHANGED <<calls, granted>>, RowsCalm(t),
         \A q \in Runs : run'[q].steps = run[q].steps
  PROVE  Calm(t)
<1>1. CASE Off(task'[t])
  BY <1>1, OffQuiet, OffTied DEF Calm
<1>2. CASE task'[t] = task[t]
  <2>1. \A a \in DOMAIN action : Holds(task[t], a) \/ Resumes(task[t], a) => Live(a)
    BY DEF Live
  <2>2. task[t].pc = "tool" => run'[task[t].run].steps = run[task[t].run].steps
    BY Copy DEF Safe, ChainOK
  <2>. QED BY <1>2, <2>1, <2>2 DEF Calm
<1>. QED BY <1>1, <1>2

\* The same of a system with no chain at all.
LEMMA NoTasks ==
  ASSUME Safe, TypeOK', Tasks = {}, DOMAIN action' = DOMAIN action, Kept, UNCHANGED <<calls, granted>>,
         \A r \in Runs : /\ run'[r].steps = run[r].steps
                         /\ run'[r].status = "none" => run[r].status = "none"
                         /\ run'[r].status = "waiting_approval" => run[r].status = "waiting_approval"
  PROVE  CountType' /\ CountInv'
<1>1. \A r \in Runs : Errands(r)' \subseteq Errands(r)
  BY DEF Errands, Live, Kept
<1>2. \A r \in Runs, i \in StepIx : /\ Callers(r, i)' = Callers(r, i)
                                    /\ ErrandsBefore(r, i)' \subseteq ErrandsBefore(r, i)
                                    /\ Sealed(r, i) => Sealed(r, i)'
  BY DEF Callers, ErrandsBefore, Live, Kept, Sealed
<1>3. CountType' /\ granted' = granted /\ calls' = calls
  BY DEF Safe, CountType
<1>4. \A r \in Runs : Carriers(r) = {} /\ Carriers(r)' = {}
  BY DEF Carriers
<1>5. ASSUME NEW r \in Runs, Unasked(r) PROVE Unasked(r)'
  <2>1. \A a, b \in Errands(r)' : a = b
    BY <1>1, <1>5 DEF Unasked
  <2>2. Errands(r)' # {} => run'[r].status # "waiting_approval"
    BY <1>1, <1>5 DEF Unasked
  <2>3. \A i \in StepIx : calls'[r][i] <= 1 /\ (calls'[r][i] = 1 => Sealed(r, i)')
    BY <1>2, <1>3, <1>5 DEF Unasked
  <2>4. run'[r].status = "none" => /\ \A a \in DOMAIN action' : action'[a].run # r
                                  /\ \A i \in StepIx : calls'[r][i] = 0
    BY <1>3, <1>5 DEF Unasked, Kept
  <2>. QED BY <1>4, <2>1, <2>2, <2>3, <2>4 DEF Unasked
<1>6. ASSUME NEW r \in Runs, Asked(r) PROVE Asked(r)'
  <2>1. ASSUME NEW i \in StepIx PROVE Weight(r, i)' <= Weight(r, i) /\ Weight(r, i)' \in Nat /\ Weight(r, i) \in Nat
    <3>1. /\ Cardinality(ErrandsBefore(r, i)') <= Cardinality(ErrandsBefore(r, i))
          /\ Cardinality(ErrandsBefore(r, i)') \in Nat
      BY <1>2, WeightSets, FS_Subset, FS_CardinalityType DEF Safe
    <3>2. calls[r][i] \in Nat
      BY DEF Safe, CountType
    <3>. QED BY <1>2, <1>3, <3>1, <3>2, WeightSets DEF Weight, Safe
  <2>2. granted[r] \in Nat
    BY DEF Safe, CountType
  <2>. QED BY <1>2, <1>3, <1>6, <2>1, <2>2 DEF Asked
<1>7. \A r \in Runs : (granted'[r] = 0 => Unasked(r)') /\ (granted'[r] # 0 => Asked(r)')
  BY <1>3, <1>5, <1>6 DEF Safe, CountInv
<1>. QED BY <1>3, <1>7 DEF CountInv

\* Chains that end, settle their run or lose it, and what other people do.
LEMMA CountQuiet ==
  ASSUME Safe, TypeOK',
         \/ UNCHANGED vars
         \/ AgentPoll
         \/ Restart
         \/ ResolveTicket
         \/ \E g \in SUBSET Gateable : SetPolicy(g)
         \/ \E r \in Runs : CancelWorkerRun(r)
         \/ \E t \in Tasks : HandRun(t) \/ FinalizeResolve(t) \/ FinalizeHandoff(t) \/ PlanUnusable(t) \/ TaskRejects(t)
  PROVE  CountType' /\ CountInv'
<1>1. UNCHANGED <<calls, granted>>
  BY DEF vars, AgentPoll, Restart, ResolveTicket, SetPolicy, CancelWorkerRun, HandRun, FinalizeResolve,
         FinalizeHandoff, PlanUnusable, TaskRejects
<1>2. DOMAIN action' = DOMAIN action /\ Kept
  <2>1. CASE AgentPoll
    BY <2>1 DEF AgentPoll, Kept, Safe, TypeOK, Action, Final
  <2>2. CASE ~AgentPoll
    <3>1. UNCHANGED action
      BY <2>2 DEF vars, Restart, ResolveTicket, SetPolicy, CancelWorkerRun, HandRun, FinalizeResolve,
             FinalizeHandoff, PlanUnusable, TaskRejects
    <3>. QED BY <3>1, SameKept
  <2>. QED BY <2>1, <2>2
<1>3. ASSUME NEW t \in Tasks,
             HandRun(t) \/ FinalizeResolve(t) \/ FinalizeHandoff(t) \/ PlanUnusable(t) \/ TaskRejects(t)
      PROVE  CountType' /\ CountInv'
  <2>1. End(t)
    BY <1>3 DEF HandRun, FinalizeResolve, FinalizeHandoff, PlanUnusable, TaskRejects
  <2>2. UNCHANGED run \/ \E st \in {"handoff", "resolved", "failed"} : WriteStatus(task[t].run, st)
    BY <1>3 DEF HandRun, FinalizeResolve, FinalizeHandoff, PlanUnusable, TaskRejects
  <2>3. RowsCalm(t)
    BY <2>2, RowsStayCalm, StatusCalm DEF Safe
  <2>4. Off(task'[t]) /\ \A u \in Tasks : task'[u] = task[u] \/ Off(task'[u])
    BY <2>1, EndOff DEF Safe
  <2>6. \A q \in Runs : run'[q].steps = run[q].steps
    BY <2>2, StatusOnly DEF Safe
  <2>5. Calm(t)
    BY <1>1, <1>2, <2>3, <2>4, <2>6, StillCalm
  <2>. QED BY <2>5, CalmCount
<1>4. CASE \/ UNCHANGED vars
           \/ AgentPoll
           \/ Restart
           \/ ResolveTicket
           \/ \E g \in SUBSET Gateable : SetPolicy(g)
           \/ \E r \in Runs : CancelWorkerRun(r)
  <2>1. UNCHANGED run \/ \E r \in Runs : WriteStatus(r, "cancelled") /\ UNCHANGED task
    BY <1>4 DEF vars, AgentPoll, Restart, ResolveTicket, SetPolicy, CancelWorkerRun
  <2>2. \A u \in Tasks : task'[u] = task[u] \/ Off(task'[u])
    BY <1>4 DEF vars, AgentPoll, Restart, ResolveTicket, SetPolicy, CancelWorkerRun, Off, Idle
  <2>3. \A t \in Tasks : RowsCalm(t)
    BY <2>1, RowsStayCalm, StatusCalm DEF Safe
  <2>4. \A r \in Runs : /\ run'[r].steps = run[r].steps
                        /\ run'[r].status = "none" => run[r].status = "none"
                        /\ run'[r].status = "waiting_approval" => run[r].status = "waiting_approval"
    BY <2>1, StatusOnly DEF Safe
  <2>5. CASE Tasks = {}
    BY <1>1, <1>2, <2>4, <2>5, NoTasks
  <2>6. ASSUME NEW t \in Tasks PROVE CountType' /\ CountInv'
    BY <1>1, <1>2, <2>2, <2>3, <2>4, StillCalm, CalmCount
  <2>. QED BY <2>5, <2>6
<1>. QED BY <1>3, <1>4

\* A list that shrinks leaves nothing new.
LEMMA ShrinkLeft == ASSUME NEW e, NEW s, Shrinks(e, s), NEW i, Left(e, i) PROVE Left(s, i)
  BY DEF Shrinks, Left

\* An action that a chain holds or resumes is live.
LEMMA HeldLive ==
  ASSUME NEW t \in Tasks, NEW a, Holds(task[t], a) \/ Resumes(task[t], a)
  PROVE  Live(a)
  BY DEF Live

\* A chain that ends is calm.
LEMMA EndCalm ==
  ASSUME NEW t \in Tasks, Off(task'[t]), \A u \in Tasks : u # t => task'[u] = task[u] \/ Off(task'[u]),
         DOMAIN action' = DOMAIN action, Kept, UNCHANGED <<calls, granted>>, RowsCalm(t)
  PROVE  Calm(t)
  BY OffQuiet, OffTied DEF Calm

\* The requests that open a run, and what the chain of a run reads.
LEMMA CountReads ==
  ASSUME Safe, TypeOK', NEW t \in Tasks,
         CreateReadTicket(t) \/ CreateCheckActive(t) \/ AdvanceRun(t) \/ ResumeRead(t)
         \/ \E r \in Runs : ApproveRead(t, r) \/ DenyRead(t, r)
  PROVE  CountType' /\ CountInv'
<1>0. TypeOK /\ GateInv /\ TieInv
  BY DEF Safe
<1>1. UNCHANGED <<run, action, calls, granted>>
  BY DEF CreateReadTicket, CreateCheckActive, AdvanceRun, ResumeRead, ApproveRead, DenyRead
<1>2. RowsCalm(t) /\ DOMAIN action' = DOMAIN action /\ Kept
  BY <1>1, RowsStayCalm, SameKept
<1>3. ASSUME \A u \in Tasks : task'[u] = task[u] \/ Off(task'[u]) PROVE Calm(t)
  BY <1>1, <1>2, <1>3, StillCalm
<1>4. CASE CreateReadTicket(t) \/ CreateCheckActive(t)
  BY <1>0, <1>3, <1>4, CreateEffect, CalmCount
<1>5. ASSUME AdvanceRun(t), ~End(t) PROVE Calm(t)
  <2>1. PICK pc \in {"plan", "exec"} :
          /\ Becomes(t, pc, task[t].run, run[task[t].run].steps)
          /\ pc = "plan" => task[t].planning
    BY <1>0, <1>5, AdvanceEffect
  <2>2. task[t].pc = "advance"
    BY <1>5 DEF AdvanceRun, At
  <2>3. Carries(task[t]) /\ (\A i : May(task[t], i)) /\ (task[t].planning => Planning(task[t]))
    BY <2>2 DEF Carries, May, Planning
  <2>4. task'[t].pc = pc /\ task'[t].run = task[t].run /\ \A u \in Tasks : u # t => task'[u] = task[u]
    BY <2>1 DEF Becomes
  <2>5. /\ Planning(task'[t]) => task[t].planning
        /\ ~Deciding(task'[t]) /\ \A a : ~Holds(task'[t], a) /\ ~Resumes(task'[t], a)
        /\ \A i : Opens(task'[t], i) => Left(run[task[t].run].steps, i)
    BY <2>1 DEF Becomes, Planning, Deciding, Holds, Resumes, Opens
  <2>. QED BY <1>1, <1>2, <2>1, <2>3, <2>4, <2>5 DEF Calm
<1>6. CASE AdvanceRun(t)
  BY <1>0, <1>3, <1>5, <1>6, EndOff, CalmCount
<1>7. ASSUME ResumeRead(t), ~End(t) PROVE Calm(t)
  <2>1. /\ Becomes(t, "resume_write", task[t].run, run[task[t].run].steps)
        /\ task'[t].action = task[t].action /\ task[t].pc = "resume"
    BY <1>0, <1>7, ResumeReadEffect
  <2>2. /\ ~Carries(task'[t]) /\ ~Planning(task'[t]) /\ ~Deciding(task'[t]) /\ \A i : ~May(task'[t], i)
        /\ \A i : Opens(task'[t], i) => Left(run[task[t].run].steps, i)
        /\ \A a : ~Holds(task'[t], a) /\ (Resumes(task'[t], a) => Resumes(task[t], a))
    BY <2>1 DEF Becomes, Carries, Planning, Deciding, May, Opens, Holds, Resumes
  <2>3. /\ task'[t].pc = "resume_write" /\ task'[t].run = task[t].run
        /\ \A u \in Tasks : u # t => task'[u] = task[u]
    BY <2>1 DEF Becomes
  <2>. QED BY <1>1, <1>2, <2>2, <2>3, HeldLive DEF Calm
<1>8. CASE ResumeRead(t)
  BY <1>0, <1>3, <1>7, <1>8, EndOff, CalmCount
<1>9. ASSUME NEW r \in Runs, ApproveRead(t, r) \/ DenyRead(t, r) PROVE Calm(t)
  <2>1. run[r].status = "waiting_approval" /\ \E pc \in {"approve", "deny"} : Becomes(t, pc, r, run[r].steps)
    BY <1>0, <1>9, AnswerReadEffect
  <2>2. /\ ~Carries(task'[t]) /\ ~Planning(task'[t]) /\ \A i : ~May(task'[t], i)
        /\ \A i : Opens(task'[t], i) => Left(run[r].steps, i)
        /\ \A a : ~Holds(task'[t], a) /\ ~Resumes(task'[t], a)
    BY <2>1 DEF Becomes, Carries, Planning, May, Opens, Holds, Resumes
  <2>3. task'[t].pc # "tool" /\ task'[t].run = r /\ \A u \in Tasks : u # t => task'[u] = task[u]
    BY <2>1 DEF Becomes
  <2>. QED BY <1>1, <1>2, <2>1, <2>2, <2>3 DEF Calm
<1>. QED BY <1>4, <1>6, <1>8, <1>9, CalmCount

\* A step that waits for its approver, one that starts, one that throws.
LEMMA CountSteps ==
  ASSUME Safe, TypeOK', NEW t \in Tasks, ExecAskApproval(t) \/ ExecStart(t) \/ ExecToolThrows(t)
  PROVE  CountType' /\ CountInv'
<1>. DEFINE c == task[t]
            d == task'[t]
<1>0. TypeOK /\ GateInv /\ TieInv
  BY DEF Safe
<1>1. UNCHANGED <<action, calls, granted>> /\ DOMAIN action' = DOMAIN action /\ Kept
  BY SameKept DEF ExecAskApproval, ExecStart, ExecToolThrows
<1>2. ASSUME ExecAskApproval(t) PROVE Calm(t)
  <2>1. PICK e : Shrinks(e, c.steps) /\ WriteRow(c.run, e, "waiting_approval")
    BY <1>0, <1>2, AskEffect
  <2>2. c.pc = "exec" /\ c.run \in Runs /\ End(t)
    BY <1>0, <1>2, AskEffect
  <2>3. Off(d) /\ \A u \in Tasks : u # t => task'[u] = task[u] \/ Off(task'[u])
    BY <1>0, <2>2, EndOff
  <2>4. Carries(c) /\ \A i \in Nat : Left(e, i) => Opens(c, i)
    BY <2>1, <2>2, ShrinkLeft DEF Carries, Opens
  <2>5. RowsCalm(t)
    BY <1>0, <2>1, <2>2, <2>3, <2>4, RowCalm
  <2>. QED BY <1>1, <2>3, <2>5, EndCalm
<1>3. ASSUME ExecStart(t) PROVE Calm(t)
  <2>1. PICK e : /\ Shrinks(e, c.steps) /\ WriteRow(c.run, e, "running")
                 /\ Becomes(t, "tool", c.run, e)
                 /\ d.at \in Unfinished(c.steps)
                 /\ \A j \in Unfinished(e) : d.at < j
    BY <1>0, <1>3, StartEffect
  <2>2. c.pc = "exec" /\ c.run \in Runs
    BY <1>0, <1>3, StartEffect
  <2>3. d.pc = "tool" /\ d.run = c.run /\ \A u \in Tasks : u # t => task'[u] = task[u]
    BY <2>1 DEF Becomes
  <2>4. Carries(c) /\ \A i \in Nat : Left(e, i) => Opens(c, i)
    BY <2>1, <2>2, ShrinkLeft DEF Carries, Opens
  <2>5. RowsCalm(t)
    BY <1>0, <2>1, <2>2, <2>4, RowCalm
  <2>6. \A i : Opens(d, i) => Opens(c, i)
    BY <2>1, <2>2, <2>3 DEF Opens, Left
  <2>7. ~Planning(d) /\ ~Deciding(d) /\ \A a : ~Holds(d, a) /\ ~Resumes(d, a)
    BY <2>3 DEF Planning, Deciding, Holds, Resumes
  <2>8. \A i : May(d, i) => May(c, i)
    BY <2>3, <2>4, <2>6 DEF May
  <2>9. run'[d.run].steps = e
    BY <1>0, <2>1, <2>2, <2>3, RowSet
  <2>. QED BY <1>1, <2>1, <2>3, <2>4, <2>5, <2>6, <2>7, <2>8, <2>9 DEF Calm
<1>4. ASSUME ExecToolThrows(t) PROVE Calm(t)
  <2>1. PICK e : /\ \A j \in Unfinished(e) : c.at < j
                 /\ e[c.at].status = "failed"
                 /\ Becomes(t, "record", c.run, e) /\ d.at = c.at
    BY <1>0, <1>4, ThrowsEffect
  <2>2. c.pc = "tool" /\ c.run \in Runs /\ c.at \in Nat /\ UNCHANGED run
    BY <1>0, <1>4, ThrowsEffect
  <2>3. d.pc = "record" /\ d.run = c.run /\ d.steps = e /\ \A u \in Tasks : u # t => task'[u] = task[u]
    BY <2>1 DEF Becomes
  <2>4. RowsCalm(t) /\ Carries(c)
    BY <2>2, RowsStayCalm DEF Carries
  <2>5. ASSUME NEW i \in Nat, Opens(d, i) PROVE Opens(c, i)
    <3>1. PICK j \in Unfinished(e) : j <= i
      BY <2>3, <2>5 DEF Opens, Left
    <3>2. j \in Nat
      <4>1. d \in Chain
        BY DEF TypeOK
      <4>2. DOMAIN e \subseteq Nat
        BY <2>3, <4>1, StepAt DEF Chain
      <4>. QED BY <4>2 DEF Unfinished
    <3>3. c.at <= i
      BY <2>1, <2>2, <3>1, <3>2
    <3>. QED BY <2>2, <3>3 DEF Opens
  <2>6. ~Planning(d) /\ ~Deciding(d) /\ \A a : ~Holds(d, a) /\ ~Resumes(d, a)
    BY <2>1, <2>3 DEF Planning, Deciding, Holds, Resumes
  <2>7. \A i \in Nat : May(d, i) => May(c, i)
    BY <2>3, <2>4, <2>5 DEF May
  <2>. QED BY <1>1, <2>3, <2>4, <2>5, <2>6, <2>7 DEF Calm
<1>. QED BY <1>2, <1>3, <1>4, CalmCount

\* The outcome of a step, and the waiting status of a device step.
LEMMA CountOutcome ==
  ASSUME Safe, TypeOK', NEW t \in Tasks, ExecRecord(t) \/ ExecDispatch(t)
  PROVE  CountType' /\ CountInv'
<1>. DEFINE c == task[t]
            d == task'[t]
            s == c.steps
            i == c.at
<1>0. TypeOK /\ GateInv /\ TieInv
  BY DEF Safe
<1>1. UNCHANGED <<action, calls, granted>> /\ DOMAIN action' = DOMAIN action /\ Kept
  BY SameKept DEF ExecRecord, ExecDispatch
<1>2. ASSUME ExecRecord(t) PROVE Calm(t)
  <2>1. /\ c.pc = "record" /\ c.run \in Runs /\ WriteRow(c.run, s, "running") /\ d.at = i
        /\ \/ Becomes(t, "hand", c.run, s) /\ s[i].status = "failed"
           \/ Becomes(t, "dispatch", c.run, s) /\ s[i].status # "failed" /\ s[i].action # 0
           \/ Becomes(t, "exec", c.run, s) /\ s[i].action = 0
    BY <1>0, <1>2, RecordEffect
  <2>2. /\ d.run = c.run /\ d.steps = s /\ \A u \in Tasks : u # t => task'[u] = task[u]
        /\ \/ d.pc = "hand"
           \/ d.pc = "dispatch"
           \/ d.pc = "exec" /\ s[i].action = 0
    BY <2>1 DEF Becomes
  <2>3. Carries(c) \/ \E a \in DOMAIN action : Holds(c, a)
    <3>1. ASSUME ~Carries(c) PROVE s[i].action \in DOMAIN action /\ Holds(c, s[i].action)
      BY <1>0, <2>1, <3>1 DEF Carries, Holds, TieInv, ChainAt, Tied
    <3>. QED BY <3>1
  <2>4. \A j \in Nat : Left(s, j) => Opens(c, j)
    BY <2>1 DEF Opens
  <2>5. RowsCalm(t)
    BY <1>0, <2>1, <2>3, <2>4, RowCalm
  <2>6. d.pc = "exec" => Carries(c)
    BY <2>1, <2>2 DEF Carries
  <2>7. Carries(d) => Carries(c)
    BY <2>2, <2>6 DEF Carries
  <2>8. \A j : Opens(d, j) => Opens(c, j)
    BY <2>1, <2>2 DEF Opens
  <2>9. ~Planning(d) /\ ~Deciding(d) /\ d.pc \notin {"tool", "advance"}
    BY <2>2 DEF Planning, Deciding
  <2>10. \A a : ~Resumes(d, a) /\ (Holds(d, a) => Holds(c, a))
    BY <2>1, <2>2 DEF Holds, Resumes
  <2>11. \A j : May(d, j) => May(c, j)
    BY <2>7, <2>8, <2>9 DEF May
  <2>. QED BY <1>1, <2>2, <2>5, <2>7, <2>8, <2>9, <2>10, <2>11, HeldLive DEF Calm
<1>3. ASSUME ExecDispatch(t) PROVE Calm(t)
  <2>1. /\ c.pc = "dispatch" /\ c.run \in Runs /\ End(t)
        /\ Tied(action, c.run, i, s[i].action) /\ Holds(c, s[i].action)
    BY <1>0, <1>3, DispatchEffect
  <2>2. PICK e : /\ WriteRow(c.run, e, "waiting_action") /\ DOMAIN e = DOMAIN s
                 /\ \A j \in DOMAIN s : /\ e[j].action = s[j].action
                                        /\ e[j].status = IF j = i THEN "dispatched" ELSE s[j].status
    BY <1>0, <1>3, DispatchEffect
  <2>3. \A j \in Nat : Left(e, j) => Opens(c, j)
    <3>1. Unfinished(e) \subseteq Unfinished(s)
      BY <2>2 DEF Unfinished
    <3>. QED BY <2>1, <3>1 DEF Left, Opens
  <2>4. Off(d) /\ \A u \in Tasks : u # t => task'[u] = task[u] \/ Off(task'[u])
    BY <1>0, <2>1, EndOff
  <2>5. \E a \in DOMAIN action : Holds(c, a)
    BY <2>1 DEF Tied
  <2>6. RowsCalm(t)
    BY <1>0, <2>1, <2>2, <2>3, <2>5, RowCalm
  <2>. QED BY <1>1, <2>4, <2>6, EndCalm
<1>. QED BY <1>2, <1>3, CalmCount

\* A denial is written, and the agent reports.
LEMMA CountAnswers ==
  ASSUME Safe, TypeOK', NEW t \in Tasks,
         \/ DenyWrite(t)
         \/ \E a \in DOMAIN action, outcome \in {"succeeded", "failed"} : AgentReport(t, a, outcome)
  PROVE  CountType' /\ CountInv'
<1>. DEFINE c == task[t]
            d == task'[t]
<1>0. TypeOK /\ GateInv /\ TieInv
  BY DEF Safe
<1>1. ASSUME DenyWrite(t) PROVE Calm(t)
  <2>1. UNCHANGED <<action, calls, granted>> /\ DOMAIN action' = DOMAIN action /\ Kept
    BY <1>1, SameKept DEF DenyWrite
  <2>2. PICK e : Shrinks(e, c.steps) /\ WriteRow(c.run, e, "running")
    BY <1>0, <1>1, AnswerWriteEffect
  <2>3. c.pc \in {"approve", "deny"} /\ c.run \in Runs
    BY <1>0, <1>1, AnswerWriteEffect
  <2>4. Becomes(t, "hand", c.run, c.steps)
    <3>1. Goto(t, "hand")
      BY <1>1 DEF DenyWrite
    <3>2. d.pc = "hand"
      <4>1. d = [c EXCEPT !.pc = "hand"] /\ c \in Chain
        BY <1>0, <3>1 DEF Goto, TypeOK
      <4>. QED BY <4>1 DEF Chain
    <3>3. ~Becomes(t, "advance", c.run, << >>)
      BY <3>2 DEF Becomes
    <3>. QED BY <1>0, <1>1, <3>3, AnswerWriteEffect
  <2>5. d.pc = "hand" /\ d.run = c.run /\ \A u \in Tasks : u # t => task'[u] = task[u]
    BY <2>4 DEF Becomes
  <2>6. Deciding(c) /\ \A j \in Nat : Left(e, j) => Opens(c, j)
    BY <2>2, <2>3, ShrinkLeft DEF Deciding, Opens
  <2>7. RowsCalm(t)
    BY <1>0, <2>2, <2>3, <2>6, RowCalm
  <2>8. /\ ~Carries(d) /\ ~Planning(d) /\ ~Deciding(d) /\ \A j : ~Opens(d, j) /\ ~May(d, j)
        /\ \A a : ~Holds(d, a) /\ ~Resumes(d, a)
    BY <2>5 DEF Carries, Planning, Deciding, Opens, May, Holds, Resumes
  <2>. QED BY <2>1, <2>5, <2>7, <2>8 DEF Calm
<1>2. ASSUME NEW a \in DOMAIN action, NEW outcome \in {"succeeded", "failed"}, AgentReport(t, a, outcome)
      PROVE  Calm(t)
  <2>1. /\ UNCHANGED <<run, calls, granted>>
        /\ DOMAIN action' = DOMAIN action /\ Kept
        /\ action[a].status \notin Final
        /\ Becomes(t, "resume", action[a].run, << >>) /\ d.action = a
    BY <1>0, <1>2, ReportEffect
  <2>2. d.pc = "resume" /\ d.run = action[a].run /\ \A u \in Tasks : u # t => task'[u] = task[u]
    BY <2>1 DEF Becomes
  <2>3. /\ ~Carries(d) /\ ~Planning(d) /\ ~Deciding(d) /\ \A j : ~Opens(d, j) /\ ~May(d, j)
        /\ \A b : ~Holds(d, b) /\ (Resumes(d, b) => b = a)
    BY <2>1, <2>2 DEF Carries, Planning, Deciding, Opens, May, Holds, Resumes
  <2>4. Live(a)
    BY <2>1 DEF Live
  <2>5. RowsCalm(t)
    BY <2>1, RowsStayCalm
  <2>. QED BY <2>1, <2>2, <2>3, <2>4, <2>5 DEF Calm
<1>. QED BY <1>1, <1>2, CalmCount

-----------------------------------------------------------------------------
(* The transactions that move a call from one holder to another *)

\* Chain t works on run q: nothing of any other run is touched.
Elsewhere(t, q) ==
  /\ \A u \in Tasks : u # t => task'[u] = task[u]
  /\ task'[t].run = q
  /\ task[t].run \in Runs => task[t].run = q
  /\ \A r \in Runs : r # q => run'[r] = run[r] /\ calls'[r] = calls[r] /\ granted'[r] = granted[r]
  /\ \A a \in DOMAIN action' : action'[a].run # q => a \in DOMAIN action /\ action'[a] = action[a]

\* A chain that lets go of an action makes none live.
LEMMA LivesOn ==
  ASSUME NEW t \in Tasks, \A u \in Tasks : u # t => task'[u] = task[u],
         NEW a \in DOMAIN action, action'[a] = action[a],
         ~Holds(task'[t], a) /\ ~Resumes(task'[t], a), Live(a)'
  PROVE  Live(a)
  BY DEF Live

\* A chain that works on one run leaves the count of every other.
LEMMA OtherRuns ==
  ASSUME Safe, TypeOK', TieInv', NEW t \in Tasks, NEW q \in Runs, Elsewhere(t, q),
         NEW r \in Runs, r # q
  PROVE  (Unasked(r) => Unasked(r)') /\ (Asked(r) => Asked(r)')
<1>0. /\ \A u \in Tasks : task'[u].run = r \/ task[u].run = r => task'[u] = task[u]
      /\ run'[r] = run[r] /\ calls'[r] = calls[r] /\ granted'[r] = granted[r]
  BY DEF Elsewhere
<1>1. \A a \in DOMAIN action' : action'[a].run = r => a \in DOMAIN action /\ action'[a] = action[a]
  BY DEF Elsewhere
<1>2. Carriers(r)' = Carriers(r)
  BY <1>0 DEF Carriers
<1>3. \A i : Callers(r, i)' = Callers(r, i)
  BY <1>0 DEF Callers
<1>4. \A i : Sealed(r, i)' = Sealed(r, i)
  BY <1>0 DEF Sealed
<1>5. ASSUME NEW a \in DOMAIN action', action'[a].run = r, Live(a)' PROVE Live(a)
  <2>1. a # 0
    BY DEF TypeOK
  <2>2. ~Holds(task'[t], a) /\ ~Resumes(task'[t], a)
    BY <1>5, <2>1 DEF TieInv, ChainAt, Holds, Resumes, Tied, Elsewhere
  <2>. QED BY <1>1, <1>5, <2>2, LivesOn DEF Elsewhere
<1>6. Errands(r)' \subseteq Errands(r) /\ \A i : ErrandsBefore(r, i)' \subseteq ErrandsBefore(r, i)
  BY <1>1, <1>5 DEF Errands, ErrandsBefore
<1>7. ASSUME Unasked(r) PROVE Unasked(r)'
  <2>1. /\ \A u, v \in Carriers(r)' : u = v
        /\ \A a, b \in Errands(r)' : a = b
        /\ Carriers(r)' = {} \/ Errands(r)' = {}
    BY <1>2, <1>6, <1>7 DEF Unasked
  <2>2. Carriers(r)' # {} \/ Errands(r)' # {} =>
          /\ run'[r].status # "waiting_approval"
          /\ \A u \in Tasks : task'[u].run = r => ~Deciding(task'[u])
    BY <1>0, <1>2, <1>6, <1>7 DEF Unasked
  <2>3. \A i \in StepIx : calls'[r][i] <= 1 /\ (calls'[r][i] = 1 => Sealed(r, i)')
    BY <1>0, <1>4, <1>7 DEF Unasked
  <2>4. \A u \in Tasks : task'[u].run = r /\ task'[u].pc = "tool" =>
          \A j \in Unfinished(run'[r].steps) : task'[u].at < j
    BY <1>0, <1>7 DEF Unasked
  <2>5. run'[r].status = "none" =>
          /\ \A u \in Tasks : task'[u].run # r
          /\ \A a \in DOMAIN action' : action'[a].run # r
          /\ \A i \in StepIx : calls'[r][i] = 0
    BY <1>0, <1>1, <1>7 DEF Unasked
  <2>6. \A u \in Tasks : task'[u].run = r /\ Planning(task'[u]) => \A i \in StepIx : calls'[r][i] = 0
    BY <1>0, <1>7 DEF Unasked
  <2>. QED BY <2>1, <2>2, <2>3, <2>4, <2>5, <2>6 DEF Unasked
<1>8. ASSUME Asked(r) PROVE Asked(r)'
  <2>1. ASSUME NEW i \in StepIx PROVE Weight(r, i)' <= Weight(r, i) /\ Weight(r, i)' \in Nat /\ Weight(r, i) \in Nat
    <3>1. /\ Cardinality(ErrandsBefore(r, i)') <= Cardinality(ErrandsBefore(r, i))
          /\ Cardinality(ErrandsBefore(r, i)') \in Nat
      BY <1>6, WeightSets, FS_Subset, FS_CardinalityType DEF Safe
    <3>2. calls[r][i] \in Nat
      BY DEF Safe, CountType
    <3>. QED BY <1>0, <1>3, <3>1, <3>2, WeightSets DEF Weight, Safe
  <2>2. granted[r] \in Nat
    BY DEF Safe, CountType
  <2>3. run'[r].status # "none" /\ \A u \in Tasks : task'[u].run = r => ~Planning(task'[u])
    BY <1>0, <1>8 DEF Asked
  <2>4. \A i \in StepIx : /\ calls'[r][i] <= 1 \/ calls'[r][i] <= granted'[r]
                          /\ Sealed(r, i)' \/ Weight(r, i)' <= granted'[r]
    BY <1>0, <1>4, <1>8, <2>1, <2>2 DEF Asked
  <2>. QED BY <2>3, <2>4 DEF Asked
<1>. QED BY <1>7, <1>8

\* What is left to show of an action on run q.
LEMMA CountOne ==
  ASSUME Safe, TypeOK', TieInv', CountType', NEW t \in Tasks, NEW q \in Runs, Elsewhere(t, q),
         granted'[q] = 0 => Unasked(q)', granted'[q] # 0 => Asked(q)'
  PROVE  CountInv'
<1>1. ASSUME NEW r \in Runs, r # q PROVE (granted'[r] = 0 => Unasked(r)') /\ (granted'[r] # 0 => Asked(r)')
  <2>1. granted'[r] = granted[r]
    BY <1>1 DEF Elsewhere
  <2>. QED BY <1>1, <2>1, OtherRuns DEF Safe, CountInv
<1>. QED BY <1>1 DEF CountInv

\* The chain that inserts a row is its only carrier.
LEMMA CountInsert ==
  ASSUME Safe, TypeOK', TieInv', NEW t \in Tasks, NEW q \in Runs, CreateInsert(t, q)
  PROVE  CountType' /\ CountInv'
<1>. DEFINE d == task'[t]
<1>0. TypeOK /\ GateInv /\ TieInv
  BY DEF Safe
<1>1. /\ WriteRow(q, << >>, "running") /\ UNCHANGED <<action, calls, granted>>
      /\ Becomes(t, "advance", q, << >>) /\ run[q].status = "none"
  BY <1>0, InsertEffect
<1>2. CountType'
  BY <1>1 DEF Safe, CountType
<1>3. /\ run'[q].status = "running" /\ \A r \in Runs : r # q => run'[r] = run[r]
  BY <1>0, <1>1, RowSet
<1>4. d.pc = "advance" /\ d.run = q /\ \A u \in Tasks : u # t => task'[u] = task[u]
  BY <1>1 DEF Becomes
<1>5. granted[q] = 0 /\ Unasked(q)
  BY <1>1 DEF Safe, CountInv, Asked
<1>6. /\ \A u \in Tasks : task[u].run # q
      /\ \A a \in DOMAIN action : action[a].run # q
      /\ \A i \in StepIx : calls[q][i] = 0
  BY <1>1, <1>5 DEF Unasked
<1>7. Elsewhere(t, q)
  <2>1. task[t].run \notin Runs
    BY RunsAssumption, <1>0 DEF CreateInsert, At, TieInv, ChainAt
  <2>. QED BY <1>1, <1>3, <1>4, <2>1 DEF Elsewhere
<1>8. Unasked(q)'
  <2>1. \A u \in Tasks : task'[u].run = q => u = t
    BY <1>4, <1>6
  <2>2. Carriers(q)' \subseteq {t} /\ Errands(q)' = {}
    BY <1>1, <1>6, <2>1 DEF Carriers, Errands
  <2>3. d.pc # "tool" /\ ~Deciding(d)
    BY <1>4 DEF Deciding
  <2>. QED BY <1>1, <1>3, <1>6, <2>1, <2>2, <2>3 DEF Unasked
<1>. QED BY <1>1, <1>2, <1>5, <1>7, <1>8, CountOne

\* A plan is written before anything was called or approved.
LEMMA CountPlan ==
  ASSUME Safe, TypeOK', TieInv', NEW t \in Tasks, NEW p \in Plans, PlanRun(t, p),
         NEW q \in Runs, task[t].run = q
  PROVE  CountType' /\ CountInv'
<1>. DEFINE c == task[t]
            d == task'[t]
<1>0. TypeOK /\ GateInv /\ TieInv
  BY DEF Safe
<1>1. UNCHANGED <<action, calls, granted>> /\ c.pc = "plan" /\ q \in Runs
  BY <1>0, PlanEffect
<1>2. PICK e : WriteRow(q, e, "running") /\ Becomes(t, "exec", q, e)
  BY <1>0, PlanEffect
<1>3. CountType'
  BY <1>1 DEF Safe, CountType
<1>4. run'[q].status = "running" /\ \A r \in Runs : r # q => run'[r] = run[r]
  BY <1>0, <1>1, <1>2, RowSet
<1>5. d.pc = "exec" /\ d.run = q /\ \A u \in Tasks : u # t => task'[u] = task[u]
  BY <1>2 DEF Becomes
<1>6. Planning(c) /\ Carries(c) /\ t \in Carriers(q)
  BY <1>1 DEF Planning, Carries, Carriers
<1>7. granted[q] = 0 /\ Unasked(q)
  BY <1>1, <1>6 DEF Safe, CountInv, Asked
<1>8. /\ \A u \in Carriers(q) : u = t
      /\ Errands(q) = {} /\ \A u \in Tasks : task[u].run = q => ~Deciding(task[u])
      /\ \A i \in StepIx : calls[q][i] = 0
  BY <1>6, <1>7 DEF Unasked
<1>9. Elsewhere(t, q)
  BY <1>1, <1>4, <1>5 DEF Elsewhere
<1>10. Unasked(q)'
  <2>1. ASSUME NEW u \in Tasks, task'[u].run = q, u # t PROVE ~Carries(task'[u]) /\ ~Deciding(task'[u])
    BY <1>5, <1>8, <2>1 DEF Carriers
  <2>2. Carriers(q)' \subseteq {t}
    BY <1>1, <2>1 DEF Carriers
  <2>3. \A u \in Tasks : task'[u].run = q => task'[u].pc # "tool" /\ ~Deciding(task'[u])
    BY <1>5, <2>1 DEF Carries, Deciding
  <2>4. \A a \in DOMAIN action : Live(a)' => Live(a)
    <3>1. \A a : ~Holds(d, a) /\ ~Resumes(d, a)
      BY <1>5 DEF Holds, Resumes
    <3>. QED BY <1>1, <1>5, <3>1, LivesOn
  <2>5. Errands(q)' = {}
    BY <1>1, <1>8, <2>4 DEF Errands
  <2>. QED BY <1>1, <1>4, <1>8, <2>2, <2>3, <2>5 DEF Unasked
<1>. QED BY <1>1, <1>3, <1>7, <1>9, <1>10, CountOne

\* Counting a set that lost an element.
LEMMA OneFewer ==
  ASSUME NEW S, IsFiniteSet(S), NEW x \in S, NEW T \in SUBSET (S \ {x})
  PROVE  Cardinality(T) + 1 <= Cardinality(S) /\ Cardinality(T) \in Nat /\ Cardinality(S) \in Nat
<1>1. IsFiniteSet(S \ {x}) /\ Cardinality(S \ {x}) = Cardinality(S) - 1
  BY FS_RemoveElement
<1>2. IsFiniteSet(T) /\ Cardinality(T) <= Cardinality(S \ {x})
  BY <1>1, FS_Subset
<1>3. Cardinality(T) \in Nat /\ Cardinality(S) \in Nat
  BY <1>2, FS_CardinalityType
<1>. QED BY <1>1, <1>2, <1>3

\* Counting a set that may have gained an element.
LEMMA OneMore ==
  ASSUME NEW S, IsFiniteSet(S), NEW x, NEW T \in SUBSET (S \cup {x})
  PROVE  Cardinality(T) <= Cardinality(S) + 1 /\ Cardinality(T) \in Nat /\ Cardinality(S) \in Nat
<1>1. IsFiniteSet(S \cup {x}) /\ Cardinality(S) \in Nat /\ Cardinality(S \cup {x}) <= Cardinality(S) + 1
  <2>1. Cardinality(S) \in Nat
    BY FS_CardinalityType
  <2>. QED BY <2>1, FS_AddElement
<1>2. IsFiniteSet(T) /\ Cardinality(T) <= Cardinality(S \cup {x})
  BY <1>1, FS_Subset
<1>3. Cardinality(T) \in Nat /\ Cardinality(S \cup {x}) \in Nat
  BY <1>1, <1>2, FS_CardinalityType
<1>. QED BY <1>1, <1>2, <1>3

\* Counting a subset.
LEMMA NoMore ==
  ASSUME NEW S, IsFiniteSet(S), NEW T \in SUBSET S
  PROVE  Cardinality(T) <= Cardinality(S) /\ Cardinality(T) \in Nat /\ Cardinality(S) \in Nat
  BY FS_Subset, FS_CardinalityType

\* An action held or resumed by a chain of a run is one of that run's errands.
LEMMA HoldsErrand ==
  ASSUME Safe, NEW u \in Tasks, NEW a, (Holds(task[u], a) /\ a # 0) \/ Resumes(task[u], a)
  PROVE  a \in Errands(task[u].run)
  BY HeldLive DEF Safe, TieInv, ChainAt, Holds, Resumes, Tied, Errands

\* While nobody was asked, the chain that calls steps is alone.
LEMMA Alone ==
  ASSUME Safe, NEW q \in Runs, Unasked(q), NEW t \in Carriers(q),
         NEW u \in Tasks, u # t, task[u].run = q
  PROVE  ~Carries(task[u]) /\ ~Deciding(task[u]) /\ \A j : ~Opens(task[u], j)
<1>1. ~Carries(task[u]) /\ ~Deciding(task[u]) /\ Errands(q) = {}
  BY DEF Unasked, Carriers
<1>2. task[u].pc \notin {"dispatch", "resume_write"}
  BY <1>1, HoldsErrand DEF Safe, TieInv, ChainAt, Holds, Resumes
<1>3. task[u].pc # "record"
  BY <1>1, HoldsErrand DEF Carries, Holds
<1>. QED BY <1>1, <1>2, <1>3 DEF Carries, Deciding, Opens

\* An approval pays for the call its chain may make.
LEMMA CountApprove ==
  ASSUME Safe, TypeOK', TieInv', NEW t \in Tasks, ApproveWrite(t), NEW q \in Runs, task[t].run = q
  PROVE  CountType' /\ CountInv'
<1>. DEFINE c == task[t]
            d == task'[t]
<1>0. TypeOK /\ GateInv /\ TieInv
  BY DEF Safe
<1>1. UNCHANGED <<action, calls>> /\ c.pc \in {"approve", "deny"}
  BY <1>0, AnswerWriteEffect
<1>2. PICK e : Shrinks(e, c.steps) /\ WriteRow(q, e, "running")
  BY <1>0, AnswerWriteEffect
<1>3. /\ granted' = [granted EXCEPT ![q] = @ + 1]
      /\ Becomes(t, "advance", q, << >>) /\ ~d.planning
  <2>1. granted' = [granted EXCEPT ![q] = @ + 1]
    BY DEF ApproveWrite
  <2>2. granted' # granted
    BY <2>1 DEF Safe, CountType
  <2>. QED BY <1>0, <2>1, <2>2, AnswerWriteEffect
<1>4. granted[q] \in Nat /\ granted'[q] = granted[q] + 1 /\ \A r \in Runs : r # q => granted'[r] = granted[r]
  BY <1>3 DEF Safe, CountType
<1>5. CountType'
  BY <1>1, <1>3 DEF Safe, CountType
<1>6. run'[q].steps = e /\ run'[q].status = "running" /\ \A r \in Runs : r # q => run'[r] = run[r]
  BY <1>0, <1>2, RowSet
<1>7. d.pc = "advance" /\ d.run = q /\ \A u \in Tasks : u # t => task'[u] = task[u]
  BY <1>3 DEF Becomes
<1>8. Elsewhere(t, q)
  BY <1>1, <1>4, <1>6, <1>7 DEF Elsewhere
<1>9. Deciding(c) /\ \A j : Left(e, j) => Opens(c, j)
  BY <1>1, <1>2, ShrinkLeft DEF Deciding, Opens
<1>10. ASSUME NEW u \in Tasks, task'[u].run = q, Planning(task'[u]) PROVE FALSE
  <2>1. u # t
    BY <1>3, <1>7, <1>10 DEF Planning
  <2>2. u \in Carriers(q) /\ Planning(task[u])
    BY <1>7, <1>10, <2>1 DEF Carriers, Carries, Planning
  <2>. QED BY <1>7, <1>9, <1>10, <2>1, <2>2 DEF Safe, CountInv, Asked, Unasked
<1>11. ASSUME NEW i \in StepIx, Sealed(q, i) PROVE Sealed(q, i)'
  <2>1. \A u \in Tasks : task[u].run = q => ~Opens(task[u], i)
    BY <1>11 DEF Sealed
  <2>2. ~Left(e, i) /\ ~Opens(d, i)
    BY <1>7, <1>9, <2>1 DEF Opens
  <2>. QED BY <1>6, <1>7, <2>1, <2>2 DEF Sealed
<1>12. \A a \in DOMAIN action : Live(a)' => Live(a)
  <2>1. \A a : ~Holds(d, a) /\ ~Resumes(d, a)
    BY <1>7 DEF Holds, Resumes
  <2>. QED BY <1>1, <1>7, <2>1, LivesOn
<1>13. ASSUME NEW i \in StepIx
       PROVE  Weight(q, i) \in Nat /\ Weight(q, i)' \in Nat /\ Weight(q, i)' <= Weight(q, i) + 1
  <2>1. Callers(q, i)' \subseteq Callers(q, i) \cup {t}
    BY <1>7 DEF Callers
  <2>2. ErrandsBefore(q, i)' \subseteq ErrandsBefore(q, i)
    BY <1>1, <1>12 DEF ErrandsBefore
  <2>3. calls[q][i] \in Nat /\ calls'[q][i] = calls[q][i]
    BY <1>1 DEF Safe, CountType
  <2>4. IsFiniteSet(Callers(q, i)) /\ IsFiniteSet(ErrandsBefore(q, i))
    BY <1>0, WeightSets
  <2>5. /\ Cardinality(Callers(q, i)') <= Cardinality(Callers(q, i)) + 1
        /\ Cardinality(Callers(q, i)') \in Nat /\ Cardinality(Callers(q, i)) \in Nat
    BY <2>1, <2>4, OneMore
  <2>6. /\ Cardinality(ErrandsBefore(q, i)') <= Cardinality(ErrandsBefore(q, i))
        /\ Cardinality(ErrandsBefore(q, i)') \in Nat /\ Cardinality(ErrandsBefore(q, i)) \in Nat
    BY <2>2, <2>4, NoMore
  <2>. QED BY <2>3, <2>5, <2>6 DEF Weight
<1>14. ASSUME NEW i \in StepIx
       PROVE  /\ calls'[q][i] <= 1 \/ calls'[q][i] <= granted'[q]
              /\ Sealed(q, i)' \/ Weight(q, i)' <= granted'[q]
  <2>0. calls[q][i] \in Nat /\ calls'[q][i] = calls[q][i]
    BY <1>1 DEF Safe, CountType
  <2>1. CASE granted[q] # 0
    BY <1>4, <1>11, <1>13, <2>0, <2>1 DEF Safe, CountInv, Asked
  <2>2. CASE granted[q] = 0
    <3>1. Unasked(q)
      BY <2>2 DEF Safe, CountInv
    <3>2. Carriers(q) = {} /\ Errands(q) = {} /\ calls[q][i] <= 1 /\ (calls[q][i] = 1 => Sealed(q, i))
      BY <1>9, <3>1 DEF Unasked
    <3>3. CASE calls[q][i] = 1
      BY <1>11, <2>0, <3>2, <3>3
    <3>4. CASE calls[q][i] = 0
      <4>1. Callers(q, i) = {} /\ ErrandsBefore(q, i) = {}
        BY <3>2 DEF Callers, Carriers, May, ErrandsBefore, Errands
      <4>2. Weight(q, i) = 0
        BY <3>4, <4>1, FS_EmptySet DEF Weight
      <4>. QED BY <1>4, <1>13, <2>0, <2>2, <3>4, <4>2
    <3>. QED BY <2>0, <3>2, <3>3, <3>4
  <2>. QED BY <2>1, <2>2
<1>15. Asked(q)'
  BY <1>6, <1>10, <1>14 DEF Asked
<1>. QED BY <1>4, <1>5, <1>8, <1>15, CountOne

\* The run goes on: the errand becomes a caller of the steps after it.
LEMMA CountResume ==
  ASSUME Safe, TypeOK', TieInv', NEW t \in Tasks, ResumeWrite(t), NEW q \in Runs, task[t].run = q,
         NEW x, task[t].action = x
  PROVE  CountType' /\ CountInv'
<1>. DEFINE c == task[t]
            d == task'[t]
<1>0. TypeOK /\ GateInv /\ TieInv
  BY DEF Safe
<1>1. UNCHANGED <<action, calls, granted>> /\ c.pc = "resume_write"
  BY <1>0, ResumeWriteEffect
<1>2. PICK e : Shrinks(e, c.steps) /\ WriteRow(q, e, "running") /\ Becomes(t, "exec", q, e)
  BY <1>0, ResumeWriteEffect
<1>3. CountType'
  BY <1>1 DEF Safe, CountType
<1>4. run'[q].steps = e /\ run'[q].status = "running" /\ \A r \in Runs : r # q => run'[r] = run[r]
  BY <1>0, <1>2, RowSet
<1>5. d.pc = "exec" /\ d.run = q /\ d.steps = e /\ \A u \in Tasks : u # t => task'[u] = task[u]
  BY <1>2 DEF Becomes
<1>6. Elsewhere(t, q)
  BY <1>1, <1>4, <1>5 DEF Elsewhere
<1>7. \A j : (Left(e, j) => Opens(c, j)) /\ (Opens(d, j) => Left(e, j))
  BY <1>1, <1>2, <1>5, ShrinkLeft DEF Opens
<1>8. /\ c.at \in DOMAIN c.steps /\ c.steps[c.at].status = "dispatched" /\ c.steps[c.at].action = x
      /\ Resumes(c, x) /\ action[x].status \in Final
  BY <1>0, <1>1 DEF TieInv, ChainAt, Resumes
<1>9. /\ x \in DOMAIN action /\ action[x].run = q /\ action[x].step = c.at
      /\ \A j \in Unfinished(c.steps) : c.at < j
      /\ Sent(c.steps, x)
  BY <1>0, <1>8 DEF TieInv, ListsOK, SentOK, Sent, Tied
<1>10. ASSUME NEW a \in DOMAIN action, Live(a)' PROVE Live(a) /\ a # x
  <2>1. \A b : ~Holds(d, b) /\ ~Resumes(d, b)
    BY <1>5 DEF Holds, Resumes
  <2>2. Live(a)
    BY <1>1, <1>5, <1>10, <2>1, LivesOn
  <2>3. \A u \in Tasks : ~Holds(task[u], x) /\ (Resumes(task[u], x) => u = t)
    BY <1>0, <1>8, <1>9 DEF TieInv, OneCarrier, Mentioned
  <2>4. ~Live(x)'
    BY <1>1, <1>5, <1>8, <2>1, <2>3 DEF Live
  <2>. QED BY <1>10, <2>2, <2>4
<1>11. Errands(q)' \subseteq Errands(q) \ {x}
  BY <1>1, <1>10 DEF Errands
<1>12. x \in Errands(q)
  BY <1>8, <1>9, HeldLive DEF Errands
<1>13. ASSUME NEW i \in StepIx, Sealed(q, i) PROVE Sealed(q, i)'
  BY <1>4, <1>5, <1>7, <1>13 DEF Sealed
<1>14. ~Planning(d) /\ ~Deciding(d) /\ d.pc # "tool"
  BY <1>5 DEF Planning, Deciding
<1>15. ASSUME granted[q] = 0 PROVE Unasked(q)'
  <2>1. Unasked(q)
    BY <1>15 DEF Safe, CountInv
  <2>2. Carriers(q) = {} /\ (\A a \in Errands(q) : a = x) /\ \A u \in Tasks : task[u].run = q => ~Deciding(task[u])
    BY <1>12, <2>1 DEF Unasked
  <2>3. ASSUME NEW u \in Tasks, task'[u].run = q, u # t PROVE ~Carries(task'[u]) /\ ~Deciding(task'[u])
    BY <1>5, <2>2, <2>3 DEF Carriers
  <2>4. Carriers(q)' \subseteq {t} /\ Errands(q)' = {}
    BY <1>11, <2>2, <2>3 DEF Carriers
  <2>5. \A u \in Tasks : task'[u].run = q => task'[u].pc # "tool" /\ ~Deciding(task'[u]) /\ ~Planning(task'[u])
    BY <1>14, <2>3 DEF Carries, Planning
  <2>6. \A i \in StepIx : calls'[q][i] <= 1 /\ (calls'[q][i] = 1 => Sealed(q, i)')
    BY <1>1, <1>13, <2>1 DEF Unasked
  <2>. QED BY <1>4, <2>4, <2>5, <2>6 DEF Unasked
<1>16. ASSUME granted[q] # 0 PROVE Asked(q)'
  <2>1. Asked(q)
    BY <1>16 DEF Safe, CountInv
  <2>2. \A u \in Tasks : task'[u].run = q => ~Planning(task'[u])
    BY <1>5, <1>14, <2>1 DEF Asked
  <2>3. ASSUME NEW i \in StepIx PROVE Weight(q, i)' <= Weight(q, i) /\ Weight(q, i)' \in Nat /\ Weight(q, i) \in Nat
    <3>1. calls[q][i] \in Nat /\ calls'[q][i] = calls[q][i]
      BY <1>1 DEF Safe, CountType
    <3>2. IsFiniteSet(Callers(q, i)) /\ IsFiniteSet(ErrandsBefore(q, i))
      BY <1>0, WeightSets
    <3>3. CASE c.at < i
      <4>1. Callers(q, i)' \subseteq Callers(q, i) \cup {t}
        BY <1>5 DEF Callers
      <4>2. x \in ErrandsBefore(q, i) /\ ErrandsBefore(q, i)' \subseteq ErrandsBefore(q, i) \ {x}
        BY <1>1, <1>8, <1>9, <1>10, <3>3, HeldLive DEF ErrandsBefore
      <4>3. /\ Cardinality(Callers(q, i)') <= Cardinality(Callers(q, i)) + 1
            /\ Cardinality(Callers(q, i)') \in Nat /\ Cardinality(Callers(q, i)) \in Nat
        BY <3>2, <4>1, OneMore
      <4>4. /\ Cardinality(ErrandsBefore(q, i)') + 1 <= Cardinality(ErrandsBefore(q, i))
            /\ Cardinality(ErrandsBefore(q, i)') \in Nat /\ Cardinality(ErrandsBefore(q, i)) \in Nat
        BY <3>2, <4>2, OneFewer
      <4>. QED BY <3>1, <4>3, <4>4 DEF Weight
    <3>4. CASE ~(c.at < i)
      <4>1. ~Left(e, i)
        <5>1. \A j \in Unfinished(e) : j \in Nat /\ c.at < j /\ c.at \in Nat
          <6>1. DOMAIN c.steps \subseteq Nat
            BY <1>0, StepAt DEF TypeOK, Chain
          <6>2. Unfinished(e) \subseteq Unfinished(c.steps)
            BY <1>2 DEF Shrinks
          <6>. QED BY <1>8, <1>9, <6>1, <6>2 DEF Unfinished
        <5>. QED BY <3>4, <5>1, StepNat DEF Left
      <4>2. ~May(d, i)
        BY <1>5, <1>7, <4>1 DEF May
      <4>3. Callers(q, i)' \subseteq Callers(q, i)
        BY <1>5, <4>2 DEF Callers
      <4>4. ErrandsBefore(q, i)' \subseteq ErrandsBefore(q, i)
        BY <1>1, <1>10 DEF ErrandsBefore
      <4>5. /\ Cardinality(Callers(q, i)') <= Cardinality(Callers(q, i))
            /\ Cardinality(Callers(q, i)') \in Nat /\ Cardinality(Callers(q, i)) \in Nat
        BY <3>2, <4>3, NoMore
      <4>6. /\ Cardinality(ErrandsBefore(q, i)') <= Cardinality(ErrandsBefore(q, i))
            /\ Cardinality(ErrandsBefore(q, i)') \in Nat /\ Cardinality(ErrandsBefore(q, i)) \in Nat
        BY <3>2, <4>4, NoMore
      <4>. QED BY <3>1, <4>5, <4>6 DEF Weight
    <3>. QED BY <3>3, <3>4
  <2>4. granted[q] \in Nat
    BY DEF Safe, CountType
  <2>5. \A i \in StepIx : /\ calls'[q][i] <= 1 \/ calls'[q][i] <= granted'[q]
                          /\ Sealed(q, i)' \/ Weight(q, i)' <= granted'[q]
    BY <1>1, <1>13, <2>1, <2>3, <2>4 DEF Asked
  <2>. QED BY <1>4, <2>2, <2>5 DEF Asked
<1>. QED BY <1>1, <1>3, <1>6, <1>15, <1>16, CountOne

\* A call: of its own step the chain is no caller any more, of the steps after it
\* the device action may take its place.
LEMMA CountTool ==
  ASSUME Safe, TypeOK', TieInv', NEW t \in Tasks, ExecTool(t), NEW q \in Runs, task[t].run = q,
         NEW i, task[t].at = i
  PROVE  CountType' /\ CountInv'
<1>. DEFINE c == task[t]
            d == task'[t]
<1>0. TypeOK /\ GateInv /\ TieInv
  BY DEF Safe
<1>1. UNCHANGED <<run, granted>> /\ c.pc = "tool" /\ i \in Nat /\ calls' = [calls EXCEPT ![q][i] = @ + 1]
  BY <1>0, ToolEffect
<1>2. PICK n \in Nat :
        \E e : /\ \A j \in Unfinished(e) : i < j
               /\ i \in DOMAIN e /\ e[i].status = "succeeded" /\ e[i].action = n
               /\ Becomes(t, "record", q, e) /\ d.at = i
               /\ \/ n = 0 /\ action' = action
                  \/ n = Len(action) + 1 /\ action' = Append(action, [run |-> q, step |-> i, status |-> "pending"])
  BY <1>0, ToolEffect
<1>3. PICK e : /\ \A j \in Unfinished(e) : i < j
               /\ i \in DOMAIN e /\ e[i].status = "succeeded" /\ e[i].action = n
               /\ Becomes(t, "record", q, e) /\ d.at = i
               /\ \/ n = 0 /\ action' = action
                  \/ n = Len(action) + 1 /\ action' = Append(action, [run |-> q, step |-> i, status |-> "pending"])
  BY <1>2
<1>4. /\ CountType'
      /\ \A r \in Runs : r # q => calls'[r] = calls[r]
      /\ \A j \in StepIx : calls'[q][j] = IF j = i THEN calls[q][j] + 1 ELSE calls[q][j]
  <2>. DEFINE row == [calls[q] EXCEPT ![i] = @ + 1]
  <2>1. calls \in [Runs -> [StepIx -> Nat]]
    BY DEF Safe, CountType
  <2>4. calls' = [calls EXCEPT ![q] = row]
    BY <1>1, <2>1
  <2>2. row \in [StepIx -> Nat] /\ \A j \in StepIx : row[j] = IF j = i THEN calls[q][j] + 1 ELSE calls[q][j]
    <3>1. \A f \in [StepIx -> Nat] :
            /\ [f EXCEPT ![i] = f[i] + 1] \in [StepIx -> Nat]
            /\ \A j \in StepIx : [f EXCEPT ![i] = f[i] + 1][j] = IF j = i THEN f[j] + 1 ELSE f[j]
      <4>. TAKE f \in [StepIx -> Nat]
      <4>1. \A j \in StepIx : [f EXCEPT ![i] = f[i] + 1][j] = IF j = i THEN f[j] + 1 ELSE f[j]
        OBVIOUS
      <4>2. \A j \in StepIx : [f EXCEPT ![i] = f[i] + 1][j] \in Nat
        BY <4>1
      <4>. QED BY <4>1, <4>2
    <3>. QED BY <2>1, <3>1
  <2>3. granted' \in [Runs -> Nat]
    BY <1>1 DEF Safe, CountType
  <2>. HIDE DEF row
  <2>. QED BY <2>1, <2>2, <2>3, <2>4 DEF CountType
<1>5. d.pc = "record" /\ d.run = q /\ d.steps = e /\ \A u \in Tasks : u # t => task'[u] = task[u]
  BY <1>3 DEF Becomes
<1>6. /\ \A a \in DOMAIN action : action'[a] = action[a]
      /\ DOMAIN action' \subseteq DOMAIN action \cup {n}
      /\ n = 0 \/ (n \notin DOMAIN action /\ action'[n].run = q /\ action'[n].step = i)
      /\ n = 0 => action' = action
      /\ 0 \notin DOMAIN action
  <2>1. action \in Seq(Action)
    BY <1>0 DEF TypeOK
  <2>2. CASE n = 0 /\ action' = action
    BY <2>1, <2>2
  <2>3. ASSUME n = Len(action) + 1, action' = Append(action, [run |-> q, step |-> i, status |-> "pending"])
        PROVE  /\ \A a \in DOMAIN action : action'[a] = action[a]
               /\ DOMAIN action' \subseteq DOMAIN action \cup {n}
               /\ n # 0 /\ n \notin DOMAIN action /\ action'[n].run = q /\ action'[n].step = i
               /\ 0 \notin DOMAIN action
    <3>. DEFINE row == [run |-> q, step |-> i, status |-> "pending"]
    <3>1. row.run = q /\ row.step = i
      OBVIOUS
    <3>2. action' = Append(action, row)
      BY <2>3
    <3>. HIDE DEF row
    <3>3. /\ \A a \in DOMAIN action : action'[a] = action[a]
          /\ DOMAIN action' = 1 .. Len(action) + 1 /\ DOMAIN action = 1 .. Len(action)
          /\ action'[Len(action) + 1] = row /\ Len(action) \in Nat
      BY <2>1, <3>2
    <3>. QED BY <2>3, <3>1, <3>3
  <2>. QED BY <1>3, <2>2, <2>3
<1>7. Elsewhere(t, q)
  BY <1>1, <1>4, <1>5, <1>6 DEF Elsewhere
<1>8. Carries(c) /\ t \in Carriers(q) /\ (\A j \in Nat : i <= j => Opens(c, j) /\ May(c, j))
  BY <1>1 DEF Carries, Carriers, Opens, May
<1>9. \A j \in Nat : Opens(d, j) => i < j
  <2>1. \A k \in Unfinished(e) : k \in Nat
    <3>1. DOMAIN e \subseteq Nat
      BY <1>5, StepAt DEF TypeOK, Chain
    <3>. QED BY <3>1 DEF Unfinished
  <2>2. \A j \in Nat : Opens(d, j) => \E k \in Unfinished(e) : k <= j
    BY <1>5 DEF Opens, Left
  <2>. QED BY <1>1, <1>3, <2>1, <2>2
<1>10. Carries(d) => n = 0
  BY <1>3, <1>5 DEF Carries
<1>11. ~Planning(d) /\ ~Deciding(d) /\ d.pc # "tool" /\ \A a : ~Resumes(d, a) /\ (Holds(d, a) => a = n)
  BY <1>3, <1>5 DEF Planning, Deciding, Holds, Resumes
<1>12. ASSUME NEW a \in DOMAIN action, Live(a)' PROVE Live(a)
  <2>1. ~Holds(d, a) /\ ~Resumes(d, a)
    BY <1>6, <1>11
  <2>. QED BY <1>5, <1>6, <1>12, <2>1, LivesOn
<1>13. Errands(q)' \subseteq Errands(q) \cup {n} /\ (n = 0 => Errands(q)' \subseteq Errands(q))
  BY <1>6, <1>12 DEF Errands
<1>14. ASSUME NEW j \in StepIx, Sealed(q, j) PROVE Sealed(q, j)' /\ j # i
  <2>1. j \in Nat
    BY StepNat
  <2>2. ~Left(run[q].steps, j) /\ \A u \in Tasks : task[u].run = q => ~Opens(task[u], j)
    BY <1>14 DEF Sealed
  <2>3. ~(i <= j)
    BY <1>8, <2>1, <2>2
  <2>4. ~Opens(d, j)
    BY <1>1, <1>9, <2>1, <2>3
  <2>. QED BY <1>1, <1>5, <2>1, <2>2, <2>3, <2>4 DEF Sealed
<1>15. ASSUME granted[q] = 0 PROVE Unasked(q)'
  <2>1. Unasked(q)
    BY <1>15 DEF Safe, CountInv
  <2>2. Errands(q) = {} /\ run[q].status # "waiting_approval"
    BY <1>8, <2>1 DEF Unasked
  <2>3. ASSUME NEW u \in Tasks, task'[u].run = q, u # t
        PROVE  ~Carries(task'[u]) /\ ~Deciding(task'[u]) /\ \A j : ~Opens(task'[u], j)
    BY <1>5, <1>8, <2>1, <2>3, Alone
  <2>4. /\ \A u, v \in Carriers(q)' : u = v
        /\ \A a, b \in Errands(q)' : a = b
        /\ Carriers(q)' = {} \/ Errands(q)' = {}
    <3>1. Carriers(q)' \subseteq {t}
      BY <2>3 DEF Carriers
    <3>2. n # 0 => Carriers(q)' = {}
      BY <1>10, <2>3 DEF Carriers
    <3>3. Errands(q)' \subseteq {n} /\ (n = 0 => Errands(q)' = {})
      BY <1>13, <2>2
    <3>. QED BY <3>1, <3>2, <3>3
  <2>5. \A u \in Tasks : task'[u].run = q => task'[u].pc # "tool" /\ ~Deciding(task'[u]) /\ ~Planning(task'[u])
    BY <1>11, <2>3 DEF Carries, Planning
  <2>6. ASSUME NEW j \in StepIx PROVE calls'[q][j] <= 1 /\ (calls'[q][j] = 1 => Sealed(q, j)')
    <3>1. calls[q][j] \in Nat /\ calls[q][j] <= 1 /\ (calls[q][j] = 1 => Sealed(q, j))
      BY <2>1 DEF Unasked, Safe, CountType
    <3>2. CASE j # i
      BY <1>4, <1>14, <3>1, <3>2
    <3>3. CASE j = i
      <4>1. calls[q][j] = 0
        BY <1>14, <3>1, <3>3
      <4>2. ~Left(run[q].steps, i)
        <5>1. \A k \in Unfinished(run[q].steps) : i < k /\ k \in Nat
          <6>1. DOMAIN run[q].steps \subseteq Nat
            BY <1>0, StepAt DEF TypeOK, RunRow
          <6>. QED BY <1>1, <2>1, <6>1 DEF Unasked, Unfinished
        <5>. QED BY <1>1, <5>1 DEF Left
      <4>3. \A u \in Tasks : task'[u].run = q => ~Opens(task'[u], i)
        BY <1>1, <1>9, <2>3
      <4>4. Sealed(q, j)'
        BY <1>1, <3>3, <4>2, <4>3 DEF Sealed
      <4>. QED BY <1>4, <3>3, <4>1, <4>4
    <3>. QED BY <3>2, <3>3
  <2>7. run[q].status # "none"
    BY <2>1 DEF Unasked
  <2>. QED BY <1>1, <2>2, <2>4, <2>5, <2>6, <2>7 DEF Unasked
<1>16. ASSUME granted[q] # 0 PROVE Asked(q)'
  <2>1. Asked(q)
    BY <1>16 DEF Safe, CountInv
  <2>2. run'[q].status # "none" /\ \A u \in Tasks : task'[u].run = q => ~Planning(task'[u])
    BY <1>1, <1>5, <1>11, <2>1 DEF Asked
  <2>3. ASSUME NEW j \in StepIx
        PROVE  /\ Weight(q, j)' <= Weight(q, j) /\ Weight(q, j)' \in Nat /\ Weight(q, j) \in Nat
               /\ calls'[q][j] <= Weight(q, j)' /\ calls'[q][j] \in Nat
    <3>0. j \in Nat
      BY StepNat
    <3>1. calls[q][j] \in Nat /\ calls'[q][j] = IF j = i THEN calls[q][j] + 1 ELSE calls[q][j]
      BY <1>4 DEF Safe, CountType
    <3>2. IsFiniteSet(Callers(q, j)) /\ IsFiniteSet(ErrandsBefore(q, j))
      BY <1>0, WeightSets
    <3>3. Opens(d, j) => Opens(c, j)
      BY <1>1, <1>8, <1>9, <3>0
    <3>4. Callers(q, j)' \subseteq Callers(q, j)
      BY <1>5, <1>8, <3>3 DEF Callers, May
    <3>5. ErrandsBefore(q, j)' \subseteq ErrandsBefore(q, j) \cup {n}
      BY <1>6, <1>12 DEF ErrandsBefore
    <3>6. n = 0 \/ ~(i < j) => ErrandsBefore(q, j)' \subseteq ErrandsBefore(q, j)
      BY <1>6, <1>12 DEF ErrandsBefore
    <3>7. i <= j => t \in Callers(q, j)
      BY <1>8, <3>0 DEF Callers
    <3>8. i = j \/ n # 0 => t \notin Callers(q, j)'
      BY <1>1, <1>5, <1>9, <1>10, <3>0 DEF Callers, May
    <3>9. CASE i = j
      <4>1. /\ Cardinality(Callers(q, j)') + 1 <= Cardinality(Callers(q, j))
            /\ Cardinality(Callers(q, j)') \in Nat /\ Cardinality(Callers(q, j)) \in Nat
        BY <1>1, <3>2, <3>4, <3>7, <3>8, <3>9, OneFewer
      <4>2. /\ Cardinality(ErrandsBefore(q, j)') <= Cardinality(ErrandsBefore(q, j))
            /\ Cardinality(ErrandsBefore(q, j)') \in Nat /\ Cardinality(ErrandsBefore(q, j)) \in Nat
        BY <1>1, <3>2, <3>6, <3>9, NoMore
      <4>. QED BY <3>1, <3>9, <4>1, <4>2 DEF Weight
    <3>10. CASE i < j /\ n # 0
      <4>1. /\ Cardinality(Callers(q, j)') + 1 <= Cardinality(Callers(q, j))
            /\ Cardinality(Callers(q, j)') \in Nat /\ Cardinality(Callers(q, j)) \in Nat
        BY <1>1, <3>0, <3>2, <3>4, <3>7, <3>8, <3>10, OneFewer
      <4>2. /\ Cardinality(ErrandsBefore(q, j)') <= Cardinality(ErrandsBefore(q, j)) + 1
            /\ Cardinality(ErrandsBefore(q, j)') \in Nat /\ Cardinality(ErrandsBefore(q, j)) \in Nat
        BY <3>2, <3>5, OneMore
      <4>. QED BY <1>1, <3>0, <3>1, <3>10, <4>1, <4>2 DEF Weight
    <3>11. CASE i # j /\ (n = 0 \/ ~(i < j))
      <4>1. /\ Cardinality(Callers(q, j)') <= Cardinality(Callers(q, j))
            /\ Cardinality(Callers(q, j)') \in Nat /\ Cardinality(Callers(q, j)) \in Nat
        BY <3>2, <3>4, NoMore
      <4>2. /\ Cardinality(ErrandsBefore(q, j)') <= Cardinality(ErrandsBefore(q, j))
            /\ Cardinality(ErrandsBefore(q, j)') \in Nat /\ Cardinality(ErrandsBefore(q, j)) \in Nat
        BY <3>2, <3>6, <3>11, NoMore
      <4>. QED BY <3>1, <3>11, <4>1, <4>2 DEF Weight
    <3>. QED BY <3>9, <3>10, <3>11
  <2>4. ASSUME NEW j \in StepIx
        PROVE  /\ calls'[q][j] <= 1 \/ calls'[q][j] <= granted'[q]
               /\ Sealed(q, j)' \/ Weight(q, j)' <= granted'[q]
    <3>1. granted[q] \in Nat /\ granted'[q] = granted[q]
      BY <1>1 DEF Safe, CountType
    <3>2. Sealed(q, j)' \/ Weight(q, j)' <= granted[q]
      BY <1>14, <2>1, <2>3, <3>1 DEF Asked
    <3>3. CASE j # i
      BY <1>4, <2>1, <3>1, <3>2, <3>3 DEF Asked
    <3>4. CASE j = i
      <4>1. Weight(q, j)' <= granted[q]
        BY <1>14, <2>1, <2>3, <3>1, <3>4 DEF Asked
      <4>. QED BY <2>3, <3>1, <4>1
    <3>. QED BY <3>3, <3>4
  <2>. QED BY <2>2, <2>4 DEF Asked
<1>. QED BY <1>1, <1>4, <1>7, <1>15, <1>16, CountOne

-----------------------------------------------------------------------------
(* CountInv is inductive *)

\* Every step of the specification keeps CountInv.
LEMMA CountInductive ==
  ASSUME Safe, TypeOK', TieInv', [Next]_vars
  PROVE  CountType' /\ CountInv'
<1>0. TypeOK /\ GateInv /\ TieInv
  BY DEF Safe
<1>1. ASSUME NEW t \in Tasks, TaskStep(t) PROVE CountType' /\ CountInv'
  <2>1. CASE CreateCheckActive(t) \/ AdvanceRun(t) \/ ResumeRead(t)
    BY <2>1, CountReads
  <2>2. ASSUME NEW r \in Runs, CreateInsert(t, r) PROVE CountType' /\ CountInv'
    BY <2>2, CountInsert
  <2>3. ASSUME NEW p \in Plans, PlanRun(t, p) PROVE CountType' /\ CountInv'
    <3>1. task[t].run \in Runs
      BY <1>0, <2>3, PlanEffect
    <3>. QED BY <2>3, <3>1, CountPlan
  <2>4. CASE ExecAskApproval(t) \/ ExecStart(t) \/ ExecToolThrows(t)
    BY <2>4, CountSteps
  <2>5. CASE ExecTool(t)
    <3>1. task[t].run \in Runs
      BY <1>0, <2>5, ToolEffect
    <3>. QED BY <2>5, <3>1, CountTool
  <2>6. CASE ExecRecord(t) \/ ExecDispatch(t)
    BY <2>6, CountOutcome
  <2>7. CASE ApproveWrite(t)
    <3>1. task[t].run \in Runs
      BY <1>0, <2>7, AnswerWriteEffect
    <3>. QED BY <2>7, <3>1, CountApprove
  <2>8. CASE DenyWrite(t)
    BY <2>8, CountAnswers
  <2>9. CASE ResumeWrite(t)
    <3>1. task[t].run \in Runs
      BY <1>0, <2>9, ResumeWriteEffect
    <3>. QED BY <2>9, <3>1, CountResume
  <2>10. CASE HandRun(t) \/ FinalizeResolve(t) \/ FinalizeHandoff(t) \/ PlanUnusable(t)
    BY <2>10, CountQuiet
  <2>. QED BY <1>1, <2>1, <2>2, <2>3, <2>4, <2>5, <2>6, <2>7, <2>8, <2>9, <2>10 DEF TaskStep
<1>2. ASSUME NEW t \in Tasks, CreateReadTicket(t) \/ TaskRejects(t) PROVE CountType' /\ CountInv'
  BY <1>2, CountReads, CountQuiet
<1>3. ASSUME NEW t \in Tasks, NEW r \in Runs, ApproveRead(t, r) \/ DenyRead(t, r) PROVE CountType' /\ CountInv'
  BY <1>3, CountReads
<1>4. ASSUME NEW t \in Tasks, NEW a \in DOMAIN action, NEW outcome \in {"succeeded", "failed"},
             AgentReport(t, a, outcome)
      PROVE  CountType' /\ CountInv'
  BY <1>4, CountAnswers
<1>5. CASE \/ UNCHANGED vars \/ AgentPoll \/ ResolveTicket \/ Restart
           \/ (\E r \in Runs : CancelWorkerRun(r)) \/ (\E g \in SUBSET Gateable : SetPolicy(g))
  BY <1>5, CountQuiet
<1>. QED BY <1>1, <1>2, <1>3, <1>4, <1>5 DEF Next

\* The three invariants together, for any number of runs, chains and faults.
LEMMA SafeHolds == Spec => []Safe
<1>1. Init => CountType /\ CountInv
  <2>. SUFFICES ASSUME Init PROVE CountType /\ CountInv
    OBVIOUS
  <2>1. CountType /\ \A r \in Runs : granted[r] = 0 /\ \A i \in StepIx : calls[r][i] = 0
    BY DEF Init, CountType
  <2>2. \A t \in Tasks : Off(task[t])
    BY DEF Init, Idle, Off
  <2>3. \A r \in Runs, t \in Tasks : task[t].run # r
    BY <2>2, OffQuiet
  <2>4. DOMAIN action = {}
    BY DEF Init
  <2>5. \A r \in Runs : Carriers(r) = {} /\ Errands(r) = {}
    BY <2>3, <2>4 DEF Carriers, Errands
  <2>6. \A r \in Runs : Unasked(r)
    BY <2>1, <2>3, <2>4, <2>5 DEF Unasked
  <2>. QED BY <2>1, <2>6 DEF CountInv
<1>2. /\ TypeOK /\ GateInv /\ TieInv /\ CountType /\ CountInv
      /\ (TypeOK /\ GateInv /\ TieInv)' /\ [Next]_vars
      => (CountType /\ CountInv)'
  BY CountInductive DEF Safe
<1>. QED BY <1>1, <1>2, TieHolds, PTL DEF Spec, Safe

\* However chains, reports, answers and restarts interleave, a step that was
\* called n > 1 times took n approvals of its run: no report that is repeated, no
\* resume and no second chain calls a tool again by itself (resumeWorkerRun,
\* advanceRun, approveWorkerStep).
THEOREM ApprovalsBoundCalls == Spec => []CallsWithinApprovals
<1>1. Safe => CallsWithinApprovals
  <2>. SUFFICES ASSUME Safe, NEW r \in Runs, NEW i \in StepIx, calls[r][i] > 1
                PROVE  granted[r] >= calls[r][i]
    BY DEF CallsWithinApprovals
  <2>1. calls[r][i] \in Nat /\ granted[r] \in Nat
    BY DEF Safe, CountType
  <2>2. granted[r] # 0
    BY <2>1 DEF Safe, CountInv, Unasked
  <2>. QED BY <2>1, <2>2 DEF Safe, CountInv, Asked
<1>. QED BY <1>1, SafeHolds, PTL
=============================================================================
