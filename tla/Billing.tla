------------------------------ MODULE Billing ------------------------------
(***************************************************************************)
(* The subscription of one workspace: the rows of tenant_subscriptions, of *)
(* which a partial unique index lets one be live, the checkout invoices,   *)
(* the payment provider with its own idea of what was charged, and the     *)
(* requests and webhook that bring the two together. Most handlers read a *)
(* row in one statement and write it by id in a later one, and several     *)
(* write in two transactions.                                              *)
(***************************************************************************)
EXTENDS Naturals, FiniteSets

CONSTANTS
  Procs,        \* requests that the API may serve at a time
  Invoices,     \* checkouts of the workspace
  MaxSubs,      \* bound: rows of tenant_subscriptions
  MaxRestarts,  \* bound: times the API process dies
  NoInvoice     \* no checkout: a manual subscription, a request about none

ASSUME BoundsAssumption == MaxSubs \in Nat \ {0} /\ MaxRestarts \in Nat
ASSUME InvoiceAssumption == NoInvoice \notin Invoices /\ IsFiniteSet(Procs) /\ IsFiniteSet(Invoices)

VARIABLES
  subs,      \* rows of tenant_subscriptions, by id
  invoice,   \* rows of invoices
  provider,  \* the provider's checkout of an invoice, and the subscription behind it
  offline,   \* has an offline checkout activated a plan, its invoice left open
  hook,      \* the charge's webhook: sent, and what became of it when it was answered
  proc,      \* what each request has read so far
  restarts   \* deaths of the process so far

vars == <<subs, invoice, provider, offline, hook, proc, restarts>>

Rows == 1..MaxSubs
NoRow == 0
NoSub == [status |-> "none", plan |-> "free", via |-> NoInvoice]
NoCheckout == [status |-> "none", row |-> NoRow]
Idle == [op |-> "idle", inv |-> NoInvoice, row |-> NoRow, hook |-> FALSE]

Live(r) == subs[r].status \in {"active", "trialing"}
LiveRow == IF \E r \in Rows : Live(r) THEN CHOOSE r \in Rows : Live(r) ELSE NoRow
Used == {r \in Rows : subs[r].status # "none"}
NextRow == Cardinality(Used) + 1

\* Mutant: the index is not unique.
IndexIgnored(r) == TRUE

\* The index refuses a second live row: may r become live, seen from the others?
IndexAllows(r) == \A q \in Rows \ {r} : ~Live(q)

\* startProTrial, which a failure at signup skips: the workspace is then on Free.
Init ==
  /\ \E trial \in BOOLEAN :
       subs = [r \in Rows |->
         IF trial /\ r = 1 THEN [status |-> "trialing", plan |-> "pro", via |-> NoInvoice]
         ELSE NoSub]
  /\ invoice = [i \in Invoices |-> NoCheckout]
  /\ provider = [i \in Invoices |-> "none"]
  /\ offline = FALSE
  /\ hook = [i \in Invoices |-> "none"]
  /\ proc = [p \in Procs |-> Idle]
  /\ restarts = 0

-----------------------------------------------------------------------------
(* Helpers of the handlers *)

Starts(p, request) == proc[p] = Idle /\ proc' = [proc EXCEPT ![p] = request]
Ends(p) == proc' = [proc EXCEPT ![p] = Idle]

\* The bound keeps a row for each checkout to be honoured that nobody confirms
\* now, and one for each request that may insert.
Inserting == {p \in Procs : proc[p].op \in {"confirm", "offline", "free"}}
Owed == {i \in Invoices :
  /\ invoice[i].status # "paid"
  /\ invoice[i].status = "none" \/ provider[i] \in {"offered", "charged", "ended"}
  /\ \A p \in Inserting : proc[p].inv # i}
RowLeft(owed) == NextRow + Cardinality(Inserting) + Cardinality(owed) <= MaxSubs

\* Rows r after it has become an active row of plan p, opened by checkout i.
Activated(r, plan, i) ==
  [subs EXCEPT ![r] = [status |-> "active", plan |-> plan, via |-> i]]

\* Rows after every live one among R has got status s.
Settled(R, s) == [r \in Rows |-> IF r \in R /\ Live(r) THEN [subs[r] EXCEPT !.status = s] ELSE subs[r]]

-----------------------------------------------------------------------------
(* Checkouts *)

\* POST /billing/checkout with a hosted gateway: the open invoice, then the
\* provider's checkout; a provider that fails leaves the invoice open.
Checkout(i) ==
  /\ invoice[i].status = "none"
  /\ invoice' = [invoice EXCEPT ![i].status = "open"]
  /\ provider' \in {[provider EXCEPT ![i] = "offered"], provider}
  /\ UNCHANGED <<subs, hook, proc, restarts, offline>>

\* ... and without one: that invoice stays open and takes no further part, and
\* the plan is to be active at once.
OfflineStart(p) ==
  /\ RowLeft(Owed)
  /\ Starts(p, [Idle EXCEPT !.op = "offline", !.row = LiveRow])
  /\ UNCHANGED <<subs, invoice, provider, offline, hook, restarts>>

\* The second half of activateManualSubscription: by id, or a new row; the
\* index makes the transaction fail when another row is live by now.
OfflineWrite(p) ==
  /\ proc[p].op = "offline"
  /\ LET r == IF proc[p].row = NoRow THEN NextRow ELSE proc[p].row
     IN  /\ subs' = IF IndexAllows(r) THEN Activated(r, "pro", NoInvoice) ELSE subs
         /\ offline' = (offline \/ IndexAllows(r))
  /\ Ends(p)
  /\ UNCHANGED <<invoice, provider, hook, restarts>>

-----------------------------------------------------------------------------
(* The provider *)

Charge(i) ==
  /\ provider[i] = "offered"
  /\ provider' = [provider EXCEPT ![i] = "charged"]
  /\ hook' = [hook EXCEPT ![i] = "sent"]
  /\ UNCHANGED <<subs, invoice, proc, restarts, offline>>

ProviderEnds(i) ==
  /\ provider[i] = "charged"
  /\ provider' = [provider EXCEPT ![i] = "ended"]
  /\ UNCHANGED <<subs, invoice, hook, proc, restarts, offline>>

-----------------------------------------------------------------------------
(* confirmGatewayCheckout *)

\* Mutant: the webhook is answered first and worked on afterwards.
DeliveredAtOnce(i) == [hook EXCEPT ![i] = "done"]

\* The webhook of checkout i after it has come in: without an answer still.
Delivered(i) == hook

\* The invoice is read, marked paid in a transaction unless it was, and the live
\* row is read. The mark locks the invoice until the commit: a request that has
\* read it unpaid waits for another that did, and finds what that one wrote.
Confirming(p, i, hooked) ==
  /\ provider[i] \in {"charged", "ended"}
  /\ invoice[i].status = "open" => \A q \in Procs : proc[q].op = "confirm" => proc[q].inv # i
  /\ RowLeft(Owed \ {i})
  /\ Starts(p, [op |-> "confirm", inv |-> i, row |-> LiveRow, hook |-> hooked])

\* By the webhook, which may be sent again though it was answered ...
WebhookCharge(p, i) ==
  /\ Confirming(p, i, TRUE)
  /\ hook' = Delivered(i)
  /\ UNCHANGED <<subs, invoice, provider, restarts, offline>>

\* ... or by the page the customer comes back to, once the provider says paid.
CheckoutStatus(p, i) ==
  /\ Confirming(p, i, FALSE)
  /\ UNCHANGED <<subs, invoice, provider, hook, restarts, offline>>

\* Mutant: the invoice is marked paid on its own, whatever becomes of the rest.
HonouredApart(i, r, written) == [invoice EXCEPT ![i] = [status |-> "paid", row |-> IF written THEN r ELSE @.row]]

\* Invoice i after the transaction: paid and linked to the row, or as before.
Honoured(i, r, written) == IF written THEN [invoice EXCEPT ![i] = [status |-> "paid", row |-> r]] ELSE invoice

\* confirmGatewayWebhook answers 200 whether or not the transaction failed.
ConfirmWrite(p) ==
  /\ proc[p].op = "confirm"
  /\ LET i == proc[p].inv
         r == IF proc[p].row = NoRow THEN NextRow ELSE proc[p].row
         written == IndexAllows(r)
     IN  /\ subs' = IF written THEN Activated(r, "pro", i) ELSE subs
         /\ invoice' = Honoured(i, r, written)
         /\ hook' = IF proc[p].hook THEN [hook EXCEPT ![i] = IF written THEN "done" ELSE "vain"] ELSE hook
  /\ Ends(p)
  /\ UNCHANGED <<provider, restarts, offline>>

\* markCanceledByGatewaySubscription and markPaymentFailed: one statement each,
\* whenever the provider's webhook comes in, once or again
WebhookDisable(i) ==
  /\ provider[i] = "ended"
  /\ subs' = Settled({r \in Rows : subs[r].via = i}, "canceled")
  /\ UNCHANGED <<invoice, provider, hook, proc, restarts, offline>>

WebhookFailed(i) ==
  /\ provider[i] \in {"charged", "ended"}
  /\ subs' = Settled({r \in Rows : subs[r].via = i}, "past_due")
  /\ UNCHANGED <<invoice, provider, hook, proc, restarts, offline>>

-----------------------------------------------------------------------------
(* The customer's changes *)

\* POST /billing/subscription, for Free only: what is live is canceled in one
\* transaction and the new row inserted in another.
FreeCancel(p) ==
  /\ RowLeft(Owed)
  /\ Starts(p, [Idle EXCEPT !.op = "free"])
  /\ subs' = Settled(Rows, "canceled")
  /\ UNCHANGED <<invoice, provider, hook, restarts, offline>>

FreeInsert(p) ==
  /\ proc[p].op = "free"
  /\ subs' = IF IndexAllows(NextRow) THEN Activated(NextRow, "free", NoInvoice) ELSE subs
  /\ Ends(p)
  /\ UNCHANGED <<invoice, provider, hook, restarts, offline>>

\* Mutant: the plan of whatever row was live last, also of one that is canceled.
PlanRestored(r) == IF subs[r].status = "none" THEN subs[r] ELSE [subs[r] EXCEPT !.status = "active", !.plan = "pro"]

\* PATCH /billing/subscription: the plan of the live row becomes Free.
PlanChanged(r) == IF Live(r) THEN [subs[r] EXCEPT !.plan = "free"] ELSE subs[r]
ChangePlan ==
  /\ subs' = [r \in Rows |-> PlanChanged(r)]
  /\ UNCHANGED <<invoice, provider, hook, proc, restarts, offline>>

\* DELETE /billing/subscription reads the live row ...
CancelRead(p) ==
  /\ LiveRow # NoRow
  /\ Starts(p, [Idle EXCEPT !.op = "cancel", !.row = LiveRow, !.inv = subs[LiveRow].via])
  /\ UNCHANGED <<subs, invoice, provider, hook, restarts, offline>>

\* ... and cancels a manual one by id, whatever it is by then; for another it
\* asks the gateway of the latest row, and the provider may not answer.
CancelWrite(p) ==
  /\ proc[p].op = "cancel"
  /\ LET i == proc[p].inv
         asks == i # NoInvoice /\ subs[NextRow - 1].via # NoInvoice /\ provider[i] = "charged"
     IN  /\ subs' = IF i = NoInvoice THEN [subs EXCEPT ![proc[p].row].status = "canceled"] ELSE subs
         /\ \/ UNCHANGED provider
            \/ asks /\ provider' = [provider EXCEPT ![i] = "ended"]
  /\ Ends(p)
  /\ UNCHANGED <<invoice, hook, restarts, offline>>

-----------------------------------------------------------------------------
(* Time, reads and crashes *)

\* expireTrialIfDue, the first statement of every read of the subscription: the
\* trial may be over at any time.
ExpireTrial ==
  /\ \E r \in Rows : subs[r].status = "trialing"
  /\ subs' = Settled({r \in Rows : subs[r].status = "trialing"}, "canceled")
  /\ UNCHANGED <<invoice, provider, hook, proc, restarts, offline>>

\* The process dies, by the rejected promise of the dunning timer or another
\* way: transactions are rolled back, requests and webhook get no answer.
Restart ==
  /\ restarts < MaxRestarts
  /\ restarts' = restarts + 1
  /\ proc' = [p \in Procs |-> Idle]
  /\ UNCHANGED <<subs, invoice, provider, hook, offline>>

CheckoutStep(i) ==
  \/ Checkout(i) \/ Charge(i) \/ ProviderEnds(i)
  \/ WebhookDisable(i) \/ WebhookFailed(i)
  \/ \E p \in Procs : WebhookCharge(p, i) \/ CheckoutStatus(p, i)

Finish(p) == OfflineWrite(p) \/ ConfirmWrite(p) \/ FreeInsert(p) \/ CancelWrite(p)

Next ==
  \/ \E i \in Invoices : CheckoutStep(i)
  \/ \E p \in Procs : Finish(p) \/ OfflineStart(p) \/ FreeCancel(p) \/ CancelRead(p)
  \/ ChangePlan \/ ExpireTrial \/ Restart

Spec == Init /\ [][Next]_vars

\* A request that runs goes on to its end, and a webhook without an answer is
\* sent until a request is free to take it: that requests are few is the
\* bound's doing.
FairSpec ==
  /\ Spec
  /\ \A p \in Procs : WF_vars(Finish(p))
  /\ \A i \in Invoices : SF_vars(hook[i] = "sent" /\ \E p \in Procs : WebhookCharge(p, i))

-----------------------------------------------------------------------------
(* Properties *)

SubRow ==
  [status : {"none", "trialing", "active", "past_due", "canceled"}, plan : {"free", "pro"},
   via : Invoices \cup {NoInvoice}]
Request ==
  [op : {"idle", "confirm", "offline", "free", "cancel"},
   inv : Invoices \cup {NoInvoice}, row : Rows \cup {NoRow}, hook : BOOLEAN]

\* Every variable has its type, and the index holds: one row is live at most.
TypeOK ==
  /\ subs \in [Rows -> SubRow]
  /\ \A r, q \in Rows : Live(r) /\ Live(q) => r = q
  /\ invoice \in [Invoices -> [status : {"none", "open", "paid"}, row : Rows \cup {NoRow}]]
  /\ provider \in [Invoices -> {"none", "offered", "charged", "ended"}]
  /\ offline \in BOOLEAN
  /\ hook \in [Invoices -> {"none", "sent", "done", "vain"}]
  /\ proc \in [Procs -> Request]
  /\ restarts \in 0..MaxRestarts

\* 0080_billing_gateways.sql:34 "A paid checkout flips the invoice to 'paid' and
\* activates/syncs the local subscription": both or neither. A paid invoice was
\* charged and is linked to a row that was activated, and so is the row's
\* checkout paid, however confirmations, cancellations and crashes interleave.
PaidIsActivated ==
  /\ \A i \in Invoices : invoice[i].status = "paid" =>
       /\ provider[i] \in {"charged", "ended"}
       /\ invoice[i].row # NoRow /\ subs[invoice[i].row].status # "none"
  /\ \A r \in Rows : subs[r].via # NoInvoice => invoice[subs[r].via].status = "paid"

\* billing.routes.ts:66 "direct activation would bypass payment": an active row
\* of a paid plan was opened by a checkout that was paid, or by an offline one.
\* No order of changes, cancellations and late writes by id gives the plan away.
PaidPlanWasBought ==
  \A r \in Rows : subs[r].status = "active" /\ subs[r].plan = "pro" =>
    \/ subs[r].via # NoInvoice /\ invoice[subs[r].via].status = "paid"
    \/ offline

\* A charge is honoured in the end, or its webhook was answered in vain: the
\* transaction had met another live row and confirmGatewayWebhook kept quiet.
ChargeHonoured ==
  \A i \in Invoices : (provider[i] = "charged") ~> (invoice[i].status = "paid" \/ hook[i] = "vain")
=============================================================================
