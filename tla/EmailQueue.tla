----------------------------- MODULE EmailQueue -----------------------------
(***************************************************************************)
(* The API's queue of outgoing mail: an array in the memory of one Node    *)
(* process, drained in batches by one loop at a time, which a timer or a   *)
(* caller starts and which awaits the mail server between two steps.       *)
(* Everything between two awaits is one step.                              *)
(***************************************************************************)
EXTENDS Naturals, Sequences, Functions

CONSTANTS
  Jobs,        \* mails; each is queued at most once
  MaxRetries,  \* maxRetries
  BatchSize    \* batchSize

ASSUME SizesAssumption == MaxRetries \in Nat \ {0} /\ BatchSize \in Nat \ {0}

VARIABLES
  status,   \* EmailJob.status; "new" before add, "gone" once dropped
  retries,  \* EmailJob.retries
  queue,    \* this.queue, in order
  batch,    \* what is left of the running drain's batch, the mail being sent first
  timer,    \* this.drainTimer is set
  sends,    \* history: times the mail server took the mail
  missed    \* history: pending mails that a firing of the timer did not attempt

vars == <<status, retries, queue, batch, timer, sends, missed>>

Init ==
  /\ status = [j \in Jobs |-> "new"]
  /\ retries = [j \in Jobs |-> 0]
  /\ queue = <<>>
  /\ batch = <<>>
  /\ timer = FALSE
  /\ sends = [j \in Jobs |-> 0]
  /\ missed = {}

-----------------------------------------------------------------------------

\* The mails of queue q that are in S, in their order (filter).
Only(q, S) ==
  LET upto[n \in 0..Len(q)] ==
        IF n = 0 THEN <<>>
        ELSE IF q[n] \in S THEN Append(upto[n - 1], q[n]) ELSE upto[n - 1]
  IN  upto[Len(q)]

\* The first BatchSize pending mails of a queue.
FirstPending(q, st) ==
  LET pending == Only(q, {j \in Jobs : st[j] = "pending"})
  IN  SubSeq(pending, 1, IF Len(pending) < BatchSize THEN Len(pending) ELSE BatchSize)

\* Mutant: no look at the drain that is running.
DrainAnyway(q, st) ==
  /\ batch' = FirstPending(q, st) \o batch
  /\ status' = [j \in Jobs |-> IF batch' # <<>> /\ j = Head(batch') THEN "processing" ELSE st[j]]

\* drain() of queue q with statuses st: nothing while a drain is running, else
\* a batch whose first mail is handed to the mail server.
Drain(q, st) ==
  /\ batch' = IF batch = <<>> THEN FirstPending(q, st) ELSE batch
  /\ status' = [j \in Jobs |->
       IF batch = <<>> /\ batch' # <<>> /\ j = Head(batch') THEN "processing" ELSE st[j]]

\* add: queued, and the timer set for at once
Add(j) ==
  /\ status[j] = "new"
  /\ status' = [status EXCEPT ![j] = "pending"]
  /\ queue' = Append(queue, j)
  /\ timer' = TRUE
  /\ UNCHANGED <<retries, batch, sends, missed>>

\* addAndSend: add and drain in one step
AddAndSend(j) ==
  /\ status[j] = "new"
  /\ queue' = Append(queue, j)
  /\ Drain(queue', [status EXCEPT ![j] = "pending"])
  /\ timer' = TRUE
  /\ UNCHANGED <<retries, sends, missed>>

\* The callback of scheduleDrain's timer
TimerFires ==
  /\ timer
  /\ timer' = FALSE
  /\ Drain(queue, status)
  /\ missed' = missed \cup {j \in Jobs : status'[j] = "pending" /\ j \notin Range(batch')}
  /\ UNCHANGED <<retries, queue, sends>>

\* The loop of runDrain goes on to the next mail of the batch.
GoOn(st) ==
  /\ batch' = Tail(batch)
  /\ status' = [j \in Jobs |-> IF batch' # <<>> /\ j = Head(batch') THEN "processing" ELSE st[j]]

SendOk ==
  /\ batch # <<>>
  /\ sends' = [sends EXCEPT ![Head(batch)] = @ + 1]
  /\ GoOn([status EXCEPT ![Head(batch)] = "sent"])
  /\ UNCHANGED <<retries, queue, timer, missed>>

\* Mutant: a mail to be tried again, and no timer for it.
RetryUnscheduled == UNCHANGED timer

\* scheduleDrain: one timer at most; a later one is dropped.
ScheduleRetry == timer' = TRUE

\* retryOrDead: sendMail returned false or threw; a mailer that is not
\* configured is not tried again.
SendFails(configured) ==
  /\ batch # <<>>
  /\ LET j == Head(batch)
         dead == ~configured \/ retries[j] + 1 >= MaxRetries
     IN  /\ retries' = [retries EXCEPT ![j] = @ + 1]
         /\ IF dead THEN UNCHANGED timer ELSE ScheduleRetry
         /\ GoOn([status EXCEPT ![j] = IF dead THEN "dead" ELSE "pending"])
         \* a new wait begins
         /\ missed' = missed \ {j}
  /\ UNCHANGED <<queue, sends>>

\* Mutant: a mail that was sent may be retried.
RetryJobAny(j) ==
  /\ status[j] \in {"dead", "sent"}
  /\ status' = [status EXCEPT ![j] = "pending"]
  /\ retries' = [retries EXCEPT ![j] = 0]
  /\ timer' = TRUE
  /\ UNCHANGED <<queue, batch, sends, missed>>

\* retryJob, of a dead letter
RetryJob(j) ==
  /\ status[j] = "dead"
  /\ status' = [status EXCEPT ![j] = "pending"]
  /\ retries' = [retries EXCEPT ![j] = 0]
  /\ timer' = TRUE
  /\ UNCHANGED <<queue, batch, sends, missed>>

\* purge: sent and dead mails are dropped, and forgotten.
Purge ==
  /\ queue' = Only(queue, {j \in Jobs : status[j] \in {"pending", "processing"}})
  /\ status' = [j \in Jobs |-> IF status[j] \in {"sent", "dead"} THEN "gone" ELSE status[j]]
  /\ UNCHANGED <<retries, batch, timer, sends, missed>>

\* The process dies and starts again, with an empty queue.
Restart ==
  /\ status' = [j \in Jobs |-> IF status[j] = "new" THEN "new" ELSE "gone"]
  /\ queue' = <<>>
  /\ batch' = <<>>
  /\ timer' = FALSE
  /\ missed' = {}
  /\ UNCHANGED <<retries, sends>>

Settle == SendOk \/ \E configured \in BOOLEAN : SendFails(configured)

Next ==
  \/ \E j \in Jobs : Add(j) \/ AddAndSend(j) \/ RetryJob(j)
  \/ TimerFires
  \/ Settle
  \/ Purge
  \/ Restart

Spec == Init /\ [][Next]_vars

\* Node runs timers that are due, and the mail transport gives up on a server
\* that does not answer. Nobody has to queue, retry or purge.
FairSpec == Spec /\ WF_vars(TimerFires) /\ WF_vars(Settle)

-----------------------------------------------------------------------------
(* Properties *)

\* Callers, timers and retries never start a second loop over the queue: the
\* mail at the head of the batch is the only one being sent, and those behind
\* it still wait (drain, runDrain).
OneDrain ==
  /\ {j \in Jobs : status[j] = "processing"} = IF batch = <<>> THEN {} ELSE {Head(batch)}
  /\ \A i \in 2..Len(batch) : status[batch[i]] = "pending"
  /\ \A i, k \in DOMAIN batch : batch[i] = batch[k] => i = k

\* However retries, purges and drains interleave, a mail the server has taken
\* is not sent again (runDrain, retryJob).
SentOnce == \A j \in Jobs : sends[j] <= 1

\* A pending mail is attempted in the end, unless the timer that was to drain
\* it fired and left it out: while another drain was running, or with more
\* mails pending than a batch holds (scheduleDrain, retryOrDead).
AttemptedUnlessMissed ==
  \A j \in Jobs : status[j] = "pending" ~> status[j] # "pending" \/ j \in missed
=============================================================================
