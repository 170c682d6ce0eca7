--------------------------- MODULE BillingProofs ----------------------------
(***************************************************************************)
(* The subscription of a workspace, for any requests, any checkouts and    *)
(* any bounds: its rows keep their types and the index holds, what is paid *)
(* is activated, and no order of late writes by id gives a paid plan away. *)
(***************************************************************************)
EXTENDS Billing, FiniteSetTheorems, TLAPS

-----------------------------------------------------------------------------
(* The inductive invariant *)

OneLive == \A r, q \in Rows : Live(r) /\ Live(q) => r = q

\* Every request that may insert has a row to insert: the bound's part of the
\* argument.
Room == Cardinality(Used) + Cardinality(Inserting) <= MaxSubs

\* What a request has read and what cannot be undone under its feet: the
\* checkout that it confirms was charged, the row that it cancels is a row.
Requested ==
  \A p \in Procs :
    /\ proc[p].op = "confirm" =>
         proc[p].inv \in Invoices /\ provider[proc[p].inv] \in {"charged", "ended"}
    /\ proc[p].op = "cancel" =>
         proc[p].row \in Rows /\ subs[proc[p].row].status # "none"

\* The provider knows no checkout that has no invoice.
Offered == \A i \in Invoices : invoice[i].status = "none" => provider[i] = "none"

BillingInv == TypeOK /\ PaidIsActivated /\ PaidPlanWasBought /\ Room /\ Requested /\ Offered

-----------------------------------------------------------------------------
(* Rows *)

LEMMA RowsAreNumbers == Rows \subseteq Nat \ {0} /\ NoRow \notin Rows /\ 1 \in Rows /\ IsFiniteSet(Rows)
<1>1. IsFiniteSet(1..MaxSubs)
  BY FS_Interval, BoundsAssumption
<1> QED
  BY <1>1, BoundsAssumption DEF Rows, NoRow

LEMMA LiveRowIsOne == LiveRow \in Rows \cup {NoRow} /\ (LiveRow # NoRow => Live(LiveRow))
<1>1. CASE \E r \in Rows : Live(r)
  BY <1>1 DEF LiveRow
<1>2. CASE ~ \E r \in Rows : Live(r)
  BY <1>2 DEF LiveRow
<1> QED
  BY <1>1, <1>2

LEMMA Sizes ==
  /\ IsFiniteSet(Used) /\ Cardinality(Used) \in Nat
  /\ IsFiniteSet(Inserting) /\ Cardinality(Inserting) \in Nat
<1>1. Used \subseteq Rows /\ Inserting \subseteq Procs
  BY DEF Used, Inserting
<1> QED
  BY <1>1, RowsAreNumbers, InvoiceAssumption, FS_Subset, FS_CardinalityType

LEMMA SizesNext ==
  /\ IsFiniteSet(Used') /\ Cardinality(Used') \in Nat
  /\ IsFiniteSet(Inserting') /\ Cardinality(Inserting') \in Nat
<1>1. Used' \subseteq Rows /\ Inserting' \subseteq Procs
  BY DEF Used, Inserting, Rows
<1> QED
  BY <1>1, RowsAreNumbers, InvoiceAssumption, FS_Subset, FS_CardinalityType

\* A request that is about to insert finds a row.
LEMMA RowFound ==
  ASSUME Room, NEW p \in Inserting
  PROVE  NextRow \in Rows
<1>1. Cardinality(Inserting) # 0
  BY Sizes, FS_EmptySet
<1> QED
  BY <1>1, Sizes, BoundsAssumption DEF Room, NextRow, Rows

\* A row more than the requests that run need: one of them may start.
LEMMA RowLeftForOne ==
  ASSUME NEW owed \in SUBSET Invoices, RowLeft(owed)
  PROVE  Cardinality(Used) + Cardinality(Inserting) + 1 <= MaxSubs
<1>1. Cardinality(owed) \in Nat
  BY InvoiceAssumption, FS_Subset, FS_CardinalityType
<1> QED
  BY <1>1, Sizes, BoundsAssumption DEF RowLeft, NextRow

LEMMA OneMore ==
  ASSUME NEW S, IsFiniteSet(S), NEW x
  PROVE  /\ IsFiniteSet(S \cup {x}) /\ Cardinality(S \cup {x}) \in Nat
         /\ Cardinality(S \cup {x}) <= Cardinality(S) + 1
<1>1. Cardinality(S) \in Nat
  BY FS_CardinalityType
<1>2. IsFiniteSet(S \cup {x})
  BY FS_AddElement
<1>3. Cardinality(S \cup {x}) = IF x \in S THEN Cardinality(S) ELSE Cardinality(S) + 1
  BY FS_AddElement
<1> QED
  BY <1>1, <1>2, <1>3

\* Room after a step that adds no row and starts at most one request.
LEMMA RoomKept ==
  ASSUME Used' \subseteq Used, NEW p,
         \/ Room /\ Inserting' \subseteq Inserting
         \/ /\ Cardinality(Used) + Cardinality(Inserting) + 1 <= MaxSubs
            /\ Inserting' \subseteq Inserting \cup {p}
  PROVE  Room'
<1>1. Cardinality(Used') <= Cardinality(Used)
  BY Sizes, FS_Subset
<1>2. CASE Room /\ Inserting' \subseteq Inserting
  <2>1. Cardinality(Inserting') <= Cardinality(Inserting)
    BY <1>2, Sizes, FS_Subset
  <2> QED
    BY <1>1, <1>2, <2>1, Sizes, SizesNext, BoundsAssumption DEF Room
<1>3. CASE /\ Cardinality(Used) + Cardinality(Inserting) + 1 <= MaxSubs
           /\ Inserting' \subseteq Inserting \cup {p}
  <2>1. /\ IsFiniteSet(Inserting \cup {p})
        /\ Cardinality(Inserting \cup {p}) <= Cardinality(Inserting) + 1
        /\ Cardinality(Inserting \cup {p}) \in Nat
    BY Sizes, OneMore
  <2>2. Cardinality(Inserting') <= Cardinality(Inserting \cup {p})
    BY <1>3, <2>1, FS_Subset
  <2> QED
    BY <1>1, <1>3, <2>1, <2>2, Sizes, SizesNext, BoundsAssumption DEF Room
<1> QED
  BY <1>2, <1>3

\* Room after a request that may insert has ended, and has inserted or not.
LEMMA RoomSpent ==
  ASSUME Room, NEW p \in Inserting, Inserting' \subseteq Inserting \ {p},
         NEW r, Used' \subseteq Used \cup {r}
  PROVE  Room'
<1>1. /\ IsFiniteSet(Used \cup {r}) /\ Cardinality(Used \cup {r}) <= Cardinality(Used) + 1
      /\ Cardinality(Used \cup {r}) \in Nat
  BY Sizes, OneMore
<1>2. Cardinality(Used') <= Cardinality(Used \cup {r})
  BY <1>1, FS_Subset
<1>3. /\ IsFiniteSet(Inserting \ {p}) /\ Cardinality(Inserting \ {p}) = Cardinality(Inserting) - 1
  BY Sizes, FS_RemoveElement
<1>4. Cardinality(Inserting') <= Cardinality(Inserting \ {p})
  BY <1>3, FS_Subset
<1> QED
  BY <1>1, <1>2, <1>3, <1>4, Sizes, SizesNext, BoundsAssumption DEF Room

-----------------------------------------------------------------------------
(* Steps that only take from the rows, and those that activate one *)

\* No row appears or gets a better status, none is opened by another checkout.
Calmed ==
  /\ subs' \in [Rows -> SubRow]
  /\ \A r \in Rows :
       /\ subs'[r].via = subs[r].via
       /\ subs'[r].plan \in {subs[r].plan, "free"}
       /\ \/ subs'[r].status = subs[r].status
          \/ subs[r].status # "none" /\ subs'[r].status \in {"past_due", "canceled"}

\* What was paid is paid, for the same row, and nothing else is.
PaidSame ==
  \A i \in Invoices :
    /\ invoice'[i].status = "paid" <=> invoice[i].status = "paid"
    /\ invoice[i].status = "paid" => invoice'[i].row = invoice[i].row

\* What was charged was charged.
Forward ==
  \A i \in Invoices : provider[i] \in {"charged", "ended"} => provider'[i] \in {"charged", "ended"}

\* The fields of the state as the types give them.
LEMMA FieldTypes ==
  ASSUME TypeOK
  PROVE  /\ \A r \in Rows : subs[r] \in SubRow /\ subs[r].via \in Invoices \cup {NoInvoice}
         /\ \A i \in Invoices : invoice[i].row \in Rows \cup {NoRow}
         /\ \A p \in Procs : proc[p] \in Request
BY DEF TypeOK, SubRow

\* The properties after a step that only takes.
LEMMA CalmKeeps ==
  ASSUME TypeOK, PaidIsActivated, PaidPlanWasBought, Calmed, PaidSame, Forward, offline' = offline
  PROVE  /\ OneLive' /\ PaidIsActivated' /\ PaidPlanWasBought'
         /\ Used' \subseteq Used
         /\ \A r \in Rows : subs[r].status # "none" => subs'[r].status # "none"
<1>1. \A r \in Rows : subs[r].status # "none" <=> subs'[r].status # "none"
  BY DEF Calmed
<1>2. \A r \in Rows : Live(r)' => Live(r)
  BY DEF Calmed, Live
<1>3. OneLive'
  BY <1>2 DEF TypeOK, OneLive, Rows
<1>4. Used' \subseteq Used
  BY <1>1 DEF Used, Rows
<1>5. PaidIsActivated'
  <2>1. ASSUME NEW i \in Invoices, invoice'[i].status = "paid"
        PROVE  /\ provider'[i] \in {"charged", "ended"}
               /\ invoice'[i].row # NoRow /\ subs'[invoice'[i].row].status # "none"
    BY <2>1, <1>1, FieldTypes DEF PaidIsActivated, PaidSame, Forward
  <2>2. ASSUME NEW r \in Rows, subs'[r].via # NoInvoice
        PROVE  invoice'[subs'[r].via].status = "paid"
    BY <2>2, FieldTypes DEF Calmed, PaidIsActivated, PaidSame
  <2> QED
    BY <2>1, <2>2 DEF PaidIsActivated, Rows, NoRow
<1>6. PaidPlanWasBought'
  <2> SUFFICES ASSUME NEW r \in Rows, subs'[r].status = "active", subs'[r].plan = "pro"
               PROVE  \/ subs'[r].via # NoInvoice /\ invoice'[subs'[r].via].status = "paid"
                      \/ offline'
    BY DEF PaidPlanWasBought, Rows
  <2>1. subs[r].status = "active" /\ subs[r].plan = "pro" /\ subs'[r].via = subs[r].via
    BY DEF Calmed
  <2> QED
    BY <2>1, FieldTypes DEF PaidPlanWasBought, PaidSame
<1> QED
  BY <1>1, <1>3, <1>4, <1>5, <1>6

\* A statement that disables what is live among some rows only takes.
LEMMA SettledCalms ==
  ASSUME TypeOK, NEW R, NEW s \in {"past_due", "canceled"}, subs' = Settled(R, s)
  PROVE  Calmed
<1>1. \A r \in Rows : subs[r] \in SubRow
  BY FieldTypes
<1>2. \A r \in Rows : subs'[r] = IF r \in R /\ Live(r) THEN [subs[r] EXCEPT !.status = s] ELSE subs[r]
  BY DEF Settled
<1>3. subs' = [r \in Rows |-> subs'[r]]
  BY DEF Settled
<1>4. \A r \in Rows : subs'[r] \in SubRow
  BY <1>1, <1>2 DEF SubRow
<1>5. \A r \in Rows :
        /\ subs'[r].via = subs[r].via
        /\ subs'[r].plan \in {subs[r].plan, "free"}
        /\ \/ subs'[r].status = subs[r].status
           \/ subs[r].status # "none" /\ subs'[r].status \in {"past_due", "canceled"}
  BY <1>1, <1>2 DEF SubRow, Live
<1> QED
  BY <1>3, <1>4, <1>5 DEF Calmed

\* The rows after one is activated that the index allows.
LEMMA ActivatedFits ==
  ASSUME TypeOK, NEW r \in Rows, NEW plan \in {"free", "pro"}, NEW i \in Invoices \cup {NoInvoice},
         IndexAllows(r), subs' = Activated(r, plan, i)
  PROVE  /\ subs' \in [Rows -> SubRow]
         /\ OneLive'
         /\ Used' \subseteq Used \cup {r}
         /\ \A q \in Rows : subs'[q] = IF q = r THEN [status |-> "active", plan |-> plan, via |-> i] ELSE subs[q]
<1>1. \A q \in Rows : subs'[q] = IF q = r THEN [status |-> "active", plan |-> plan, via |-> i] ELSE subs[q]
  BY DEF Activated, TypeOK
<1>2. subs' \in [Rows -> SubRow]
  BY DEF Activated, TypeOK, SubRow
<1>3. \A q \in Rows : Live(q)' => q = r
  BY <1>1 DEF IndexAllows, Live
<1>4. OneLive'
  BY <1>3 DEF OneLive, Rows
<1>5. Used' \subseteq Used \cup {r}
  BY <1>1 DEF Used, Rows
<1> QED
  BY <1>1, <1>2, <1>4, <1>5

-----------------------------------------------------------------------------
(* Steps of the requests *)

\* The types of what a step leaves beside the rows and the requests.
RestTyped ==
  /\ invoice' \in [Invoices -> [status : {"none", "open", "paid"}, row : Rows \cup {NoRow}]]
  /\ provider' \in [Invoices -> {"none", "offered", "charged", "ended"}]
  /\ offline' = offline
  /\ hook' \in [Invoices -> {"none", "sent", "done", "vain"}]
  /\ restarts' \in 0..MaxRestarts

\* A step that only takes, and starts no request.
LEMMA CalmGoesOn ==
  ASSUME BillingInv, Calmed, PaidSame, Forward, RestTyped, Offered',
         proc' \in [Procs -> Request],
         \A p \in Procs : proc'[p] = proc[p] \/ proc'[p].op = "idle"
  PROVE  BillingInv'
<1>1. /\ OneLive' /\ PaidIsActivated' /\ PaidPlanWasBought' /\ Used' \subseteq Used
      /\ \A r \in Rows : subs[r].status # "none" => subs'[r].status # "none"
  BY CalmKeeps DEF BillingInv, RestTyped
<1>2. TypeOK'
  BY <1>1 DEF TypeOK, OneLive, RestTyped, Calmed, Rows, BillingInv, NoRow, SubRow, Request
<1>3. Inserting' \subseteq Inserting
  BY DEF Inserting
<1>4. Room'
  BY <1>1, <1>3, RoomKept DEF BillingInv
<1>5. Requested'
  BY <1>1 DEF BillingInv, Requested, Forward, Rows
<1> QED
  BY <1>1, <1>2, <1>4, <1>5 DEF BillingInv

\* A step that only takes, and starts one.
LEMMA CalmStarts ==
  ASSUME BillingInv, Calmed, PaidSame, Forward, RestTyped, Offered',
         NEW p \in Procs, NEW w \in Request, Starts(p, w),
         w.op = "confirm" => w.inv \in Invoices /\ provider[w.inv] \in {"charged", "ended"},
         w.op = "cancel" => w.row \in Rows /\ subs[w.row].status # "none",
         w.op = "cancel" \/ \E owed \in SUBSET Invoices : RowLeft(owed)
  PROVE  BillingInv'
<1>1. /\ OneLive' /\ PaidIsActivated' /\ PaidPlanWasBought' /\ Used' \subseteq Used
      /\ \A r \in Rows : subs[r].status # "none" => subs'[r].status # "none"
  BY CalmKeeps DEF BillingInv, RestTyped
<1>2. /\ proc' \in [Procs -> Request]
      /\ \A q \in Procs : proc'[q] = IF q = p THEN w ELSE proc[q]
  BY DEF Starts, BillingInv, TypeOK
<1>3. TypeOK'
  BY <1>1, <1>2 DEF TypeOK, OneLive, RestTyped, Calmed, Rows, BillingInv, NoRow, SubRow, Request
<1>4. Room'
  <2>1. CASE w.op = "cancel"
    <3>1. Inserting' \subseteq Inserting
      BY <1>2, <2>1 DEF Inserting
    <3> QED
      BY <1>1, <3>1, RoomKept DEF BillingInv
  <2>2. CASE \E owed \in SUBSET Invoices : RowLeft(owed)
    <3>1. Inserting' \subseteq Inserting \cup {p}
      BY <1>2 DEF Inserting
    <3>2. Cardinality(Used) + Cardinality(Inserting) + 1 <= MaxSubs
      BY <2>2, RowLeftForOne
    <3> QED
      BY <1>1, <3>1, <3>2, RoomKept
  <2> QED
    BY <2>1, <2>2
<1>5. Requested'
  BY <1>1, <1>2 DEF BillingInv, Requested, Forward, Rows
<1> QED
  BY <1>1, <1>3, <1>4, <1>5 DEF BillingInv

\* What a request that ends leaves behind.
LEMMA EndsIdle ==
  ASSUME BillingInv, NEW p \in Procs, Ends(p)
  PROVE  /\ proc' \in [Procs -> Request]
         /\ \A q \in Procs : proc'[q] = IF q = p THEN Idle ELSE proc[q]
         /\ Inserting' \subseteq Inserting \ {p}
<1>1. Idle \in Request /\ Idle.op = "idle"
  BY DEF Idle, Request
<1>2. /\ proc' \in [Procs -> Request]
      /\ \A q \in Procs : proc'[q] = IF q = p THEN Idle ELSE proc[q]
  BY <1>1 DEF Ends, BillingInv, TypeOK
<1> QED
  BY <1>1, <1>2 DEF Inserting

\* A request that ends by writing a row that the index allows, of any plan, for
\* a checkout or none: the properties that are left are about the row.
LEMMA WriteEnds ==
  ASSUME BillingInv, NEW p \in Inserting, Ends(p), UNCHANGED provider,
         NEW r \in Rows, NEW plan \in {"free", "pro"}, NEW i \in Invoices \cup {NoInvoice},
         IndexAllows(r), subs' = Activated(r, plan, i),
         invoice' \in [Invoices -> [status : {"none", "open", "paid"}, row : Rows \cup {NoRow}]],
         offline' \in BOOLEAN,
         hook' \in [Invoices -> {"none", "sent", "done", "vain"}],
         restarts' = restarts
  PROVE  TypeOK' /\ Room' /\ Requested'
<1>1. p \in Procs /\ p \in Inserting
  BY DEF Inserting
<1>2. /\ proc' \in [Procs -> Request]
      /\ \A q \in Procs : proc'[q] = IF q = p THEN Idle ELSE proc[q]
      /\ Inserting' \subseteq Inserting \ {p}
  BY <1>1, EndsIdle
<1>3. /\ subs' \in [Rows -> SubRow] /\ OneLive' /\ Used' \subseteq Used \cup {r}
      /\ \A q \in Rows : subs'[q] = IF q = r THEN [status |-> "active", plan |-> plan, via |-> i] ELSE subs[q]
  BY ActivatedFits DEF BillingInv
<1>4. TypeOK'
  BY <1>2, <1>3 DEF TypeOK, OneLive, Rows, BillingInv, NoRow, SubRow, Request
<1>5. Room'
  BY <1>2, <1>3, RoomSpent DEF BillingInv
<1>6. Requested'
  <2>1. Idle.op = "idle"
    BY DEF Idle
  <2>2. \A q \in Rows : subs[q].status # "none" => subs'[q].status # "none"
    BY <1>3
  <2> QED
    BY <1>2, <2>1, <2>2 DEF BillingInv, Requested, Rows
<1> QED
  BY <1>4, <1>5, <1>6

-----------------------------------------------------------------------------
(* The steps *)

LEMMA SameRowsCalm ==
  ASSUME TypeOK, subs' = subs
  PROVE  Calmed
BY FieldTypes DEF Calmed, TypeOK

LEMMA SameRest ==
  ASSUME TypeOK, Offered, invoice' = invoice, provider' = provider, offline' = offline,
         hook' = hook, restarts' = restarts
  PROVE  PaidSame /\ Forward /\ RestTyped /\ Offered'
BY DEF PaidSame, Forward, RestTyped, TypeOK, Offered

LEMMA SameRequests ==
  ASSUME TypeOK, proc' = proc
  PROVE  /\ proc' \in [Procs -> Request]
         /\ \A p \in Procs : proc'[p] = proc[p] \/ proc'[p].op = "idle"
BY DEF TypeOK

LEMMA BillingInit == Init => BillingInv
<1> SUFFICES ASSUME Init PROVE BillingInv
  OBVIOUS
<1>1. PICK trial \in BOOLEAN :
        subs = [r \in Rows |->
          IF trial /\ r = 1 THEN [status |-> "trialing", plan |-> "pro", via |-> NoInvoice]
          ELSE NoSub]
  BY DEF Init
<1>2. /\ subs \in [Rows -> SubRow]
      /\ \A r \in Rows : /\ subs[r].via = NoInvoice
                         /\ subs[r].status \in {"none", "trialing"}
                         /\ subs[r].status # "none" => r = 1
  <2>1. /\ [status |-> "trialing", plan |-> "pro", via |-> NoInvoice] \in SubRow
        /\ NoSub \in SubRow
    BY DEF SubRow, NoSub
  <2> QED
    BY <1>1, <2>1 DEF NoSub
<1>3. Idle \in Request /\ Idle.op = "idle"
  BY DEF Idle, Request
<1>4. /\ invoice \in [Invoices -> [status : {"none", "open", "paid"}, row : Rows \cup {NoRow}]]
      /\ \A i \in Invoices : invoice[i].status = "none"
  BY DEF Init, NoCheckout
<1>5. /\ provider \in [Invoices -> {"none", "offered", "charged", "ended"}]
      /\ hook \in [Invoices -> {"none", "sent", "done", "vain"}]
      /\ offline \in BOOLEAN /\ restarts \in 0..MaxRestarts
  <2>1. offline \in BOOLEAN
    BY Zenon DEF Init
  <2> QED
    BY <2>1, BoundsAssumption DEF Init
<1>6. proc \in [Procs -> Request] /\ \A p \in Procs : proc[p].op = "idle"
  BY <1>3 DEF Init
<1>7. TypeOK
  BY <1>2, <1>4, <1>5, <1>6 DEF TypeOK, Live
<1>8. PaidIsActivated /\ PaidPlanWasBought
  BY <1>2, <1>4 DEF PaidIsActivated, PaidPlanWasBought
<1>9. Room
  <2>1. Inserting = {}
    BY <1>6 DEF Inserting
  <2>2. Used \subseteq {1}
    BY <1>2 DEF Used
  <2>3. IsFiniteSet({1}) /\ Cardinality({1}) = 1 /\ Cardinality({}) = 0
    BY FS_Singleton, FS_EmptySet
  <2>4. Cardinality(Used) <= Cardinality({1})
    BY <2>2, <2>3, FS_Subset, Zenon
  <2> QED
    BY <2>1, <2>3, <2>4, Sizes, BoundsAssumption DEF Room
<1>10. Requested
  BY <1>6 DEF Requested
<1>11. Offered
  BY DEF Init, Offered
<1> QED
  BY <1>7, <1>8, <1>9, <1>10, <1>11 DEF BillingInv

\* Checkout, Charge and ProviderEnds: the rows and the requests stay as they are.
LEMMA CheckoutSteps ==
  ASSUME BillingInv, NEW i \in Invoices, Checkout(i) \/ Charge(i) \/ ProviderEnds(i)
  PROVE  BillingInv'
<1>1. TypeOK /\ Offered
  BY DEF BillingInv
<1>2. proc' = proc /\ restarts' = restarts /\ offline' = offline /\ subs' = subs
  BY DEF Checkout, Charge, ProviderEnds
<1>3. /\ invoice' \in [Invoices -> [status : {"none", "open", "paid"}, row : Rows \cup {NoRow}]]
      /\ PaidSame
  <2>1. CASE Checkout(i)
    <3>1. invoice[i].status = "none" /\ invoice' = [invoice EXCEPT ![i].status = "open"]
      BY <2>1 DEF Checkout
    <3> QED
      BY <1>1, <3>1 DEF PaidSame, TypeOK
  <2>2. CASE Charge(i) \/ ProviderEnds(i)
    <3>1. invoice' = invoice
      BY <2>2 DEF Charge, ProviderEnds
    <3> QED
      BY <1>1, <3>1 DEF PaidSame, TypeOK
  <2> QED
    BY <2>1, <2>2
<1>4. /\ provider' \in [Invoices -> {"none", "offered", "charged", "ended"}]
      /\ hook' \in [Invoices -> {"none", "sent", "done", "vain"}]
      /\ Forward
      /\ Offered'
  <2>1. CASE Checkout(i)
    BY <1>1, <2>1 DEF Checkout, Forward, Offered, TypeOK
  <2>2. CASE Charge(i)
    BY <1>1, <2>2 DEF Charge, Forward, Offered, TypeOK
  <2>3. CASE ProviderEnds(i)
    BY <1>1, <2>3 DEF ProviderEnds, Forward, Offered, TypeOK
  <2> QED
    BY <2>1, <2>2, <2>3
<1>5. RestTyped
  BY <1>1, <1>2, <1>3, <1>4 DEF RestTyped, TypeOK
<1> QED
  BY <1>1, <1>2, <1>3, <1>4, <1>5, SameRowsCalm, SameRequests, CalmGoesOn

\* The webhooks, the plan's change and the trial's end: one statement on the rows.
LEMMA RowSteps ==
  ASSUME BillingInv,
         (\E i \in Invoices : WebhookDisable(i) \/ WebhookFailed(i)) \/ ChangePlan \/ ExpireTrial
  PROVE  BillingInv'
<1>1. TypeOK /\ Offered
  BY DEF BillingInv
<1>2. /\ proc' = proc /\ restarts' = restarts /\ offline' = offline
      /\ invoice' = invoice /\ provider' = provider /\ hook' = hook
  BY DEF WebhookDisable, WebhookFailed, ChangePlan, ExpireTrial
<1>3. ASSUME NEW i \in Invoices, WebhookDisable(i) \/ WebhookFailed(i) PROVE Calmed
  <2>1. \/ subs' = Settled({r \in Rows : subs[r].via = i}, "canceled")
        \/ subs' = Settled({r \in Rows : subs[r].via = i}, "past_due")
    BY <1>3 DEF WebhookDisable, WebhookFailed
  <2> QED
    BY <1>1, <2>1, SettledCalms
<1>4. ASSUME ChangePlan PROVE Calmed
  <2>1. /\ subs' = [r \in Rows |-> subs'[r]]
        /\ \A r \in Rows : subs'[r] = IF Live(r) THEN [subs[r] EXCEPT !.plan = "free"] ELSE subs[r]
    BY <1>4 DEF ChangePlan, PlanChanged
  <2>2. \A r \in Rows :
          /\ subs'[r] \in SubRow
          /\ subs'[r].via = subs[r].via /\ subs'[r].plan \in {subs[r].plan, "free"}
          /\ subs'[r].status = subs[r].status
    BY <1>1, <2>1, FieldTypes DEF SubRow
  <2>3. subs' \in [Rows -> SubRow]
    BY <2>1, <2>2
  <2> QED
    BY <2>2, <2>3 DEF Calmed
<1>5. ASSUME ExpireTrial PROVE Calmed
  <2>1. subs' = Settled({r \in Rows : subs[r].status = "trialing"}, "canceled")
    BY <1>5 DEF ExpireTrial
  <2> QED
    BY <1>1, <2>1, SettledCalms
<1> QED
  BY <1>1, <1>2, <1>3, <1>4, <1>5, SameRest, SameRequests, CalmGoesOn

\* Confirmations, offline activations, changes to Free and cancellations begin.
LEMMA RequestsBegin ==
  ASSUME BillingInv, NEW p \in Procs,
         \/ \E i \in Invoices : WebhookCharge(p, i) \/ CheckoutStatus(p, i)
         \/ OfflineStart(p) \/ FreeCancel(p) \/ CancelRead(p)
  PROVE  BillingInv'
<1>1. TypeOK /\ Offered
  BY DEF BillingInv
<1>2. /\ restarts' = restarts /\ offline' = offline
      /\ invoice' = invoice /\ provider' = provider /\ hook' = hook
  BY DEF WebhookCharge, CheckoutStatus, Delivered, OfflineStart, FreeCancel, CancelRead
<1>3. ASSUME NEW i \in Invoices, WebhookCharge(p, i) \/ CheckoutStatus(p, i) PROVE BillingInv'
  <2>1. PICK hooked \in BOOLEAN : Confirming(p, i, hooked) /\ subs' = subs
    BY <1>3 DEF WebhookCharge, CheckoutStatus
  <2> DEFINE w == [op |-> "confirm", inv |-> i, row |-> LiveRow, hook |-> hooked]
  <2>2. /\ w \in Request /\ w.op = "confirm" /\ w.inv = i
        /\ provider[i] \in {"charged", "ended"} /\ Starts(p, w) /\ RowLeft(Owed \ {i})
    BY <2>1, LiveRowIsOne DEF Confirming, Request
  <2>3. Owed \ {i} \in SUBSET Invoices
    BY DEF Owed
  <2> QED
    BY <1>1, <1>2, <2>1, <2>2, <2>3, SameRest, SameRowsCalm, CalmStarts
<1>4. CASE OfflineStart(p) \/ FreeCancel(p)
  <2>1. PICK w : /\ \/ w = [Idle EXCEPT !.op = "offline", !.row = LiveRow]
                    \/ w = [Idle EXCEPT !.op = "free"]
                 /\ Starts(p, w)
    BY <1>4 DEF OfflineStart, FreeCancel
  <2>2. w \in Request /\ w.op \in {"offline", "free"}
    BY <2>1, LiveRowIsOne DEF Idle, Request
  <2>3. RowLeft(Owed) /\ Owed \in SUBSET Invoices
    BY <1>4 DEF OfflineStart, FreeCancel, Owed
  <2>4. Calmed
    BY <1>1, <1>4, SameRowsCalm, SettledCalms DEF OfflineStart, FreeCancel
  <2> QED
    BY <1>1, <1>2, <2>1, <2>2, <2>3, <2>4, SameRest, CalmStarts
<1>5. CASE CancelRead(p)
  <2> DEFINE w == [Idle EXCEPT !.op = "cancel", !.row = LiveRow, !.inv = subs[LiveRow].via]
  <2>1. LiveRow \in Rows /\ subs[LiveRow].status # "none" /\ subs[LiveRow].via \in Invoices \cup {NoInvoice}
    BY <1>1, <1>5, LiveRowIsOne, FieldTypes DEF CancelRead, Live
  <2>2. w \in Request /\ w.op = "cancel" /\ w.row = LiveRow /\ Starts(p, w) /\ subs' = subs
    BY <1>5, <2>1 DEF CancelRead, Idle, Request
  <2> QED
    BY <1>1, <1>2, <2>1, <2>2, SameRest, SameRowsCalm, CalmStarts
<1> QED
  BY <1>3, <1>4, <1>5

\* An offline checkout activates its plan, or meets another live row.
LEMMA OfflineEnds ==
  ASSUME BillingInv, NEW p \in Procs, OfflineWrite(p)
  PROVE  BillingInv'
<1> DEFINE r == IF proc[p].row = NoRow THEN NextRow ELSE proc[p].row
<1>1. TypeOK /\ Offered
  BY DEF BillingInv
<1>2. /\ proc[p].op = "offline" /\ Ends(p)
      /\ subs' = IF IndexAllows(r) THEN Activated(r, "pro", NoInvoice) ELSE subs
      /\ offline' = (offline \/ IndexAllows(r))
      /\ invoice' = invoice /\ provider' = provider /\ hook' = hook /\ restarts' = restarts
  BY DEF OfflineWrite
<1>3. p \in Inserting
  BY <1>2 DEF Inserting
<1>4. r \in Rows
  BY <1>1, <1>3, RowFound, FieldTypes DEF BillingInv, Request
<1> HIDE DEF r
<1>5. CASE IndexAllows(r)
  <2>1. subs' = Activated(r, "pro", NoInvoice)
    BY <1>2, <1>5, Zenon
  <2>2. offline' = TRUE
    BY <1>2, <1>5, Zenon
  <2>3. TypeOK' /\ Room' /\ Requested'
    BY <1>1, <1>2, <1>3, <1>4, <1>5, <2>1, <2>2, WriteEnds DEF TypeOK
  <2>4. \A q \in Rows : subs'[q] = IF q = r THEN [status |-> "active", plan |-> "pro", via |-> NoInvoice]
                                          ELSE subs[q]
    BY <1>1, <1>4, <1>5, <2>1, ActivatedFits
  <2>5. PaidIsActivated'
    <3>1. ASSUME NEW i \in Invoices, invoice[i].status = "paid"
          PROVE  /\ provider[i] \in {"charged", "ended"}
                 /\ invoice[i].row # NoRow /\ subs'[invoice[i].row].status # "none"
      BY <3>1, <1>1, <2>4, FieldTypes DEF BillingInv, PaidIsActivated
    <3>2. ASSUME NEW q \in Rows, subs'[q].via # NoInvoice
          PROVE  invoice[subs'[q].via].status = "paid"
      BY <3>2, <2>4 DEF BillingInv, PaidIsActivated
    <3> QED
      BY <1>2, <3>1, <3>2 DEF PaidIsActivated, Rows, NoRow
  <2>6. PaidPlanWasBought'
    BY <2>2, Zenon DEF PaidPlanWasBought
  <2>7. Offered'
    BY <1>1, <1>2 DEF Offered
  <2> QED
    BY <2>3, <2>5, <2>6, <2>7 DEF BillingInv
<1>6. CASE ~IndexAllows(r)
  <2>1. subs' = subs
    BY <1>2, <1>6, Zenon
  <2>2. offline' = offline
    BY <1>1, <1>2, <1>6, Zenon DEF TypeOK
  <2>3. Idle.op = "idle"
    BY DEF Idle
  <2> QED
    BY <1>1, <1>2, <2>1, <2>2, <2>3, SameRowsCalm, SameRest, EndsIdle, CalmGoesOn
<1> QED
  BY <1>5, <1>6

\* A change to Free inserts its row, or meets another live one.
LEMMA FreeEnds ==
  ASSUME BillingInv, NEW p \in Procs, FreeInsert(p)
  PROVE  BillingInv'
<1>1. TypeOK /\ Offered
  BY DEF BillingInv
<1>2. /\ proc[p].op = "free" /\ Ends(p)
      /\ subs' = IF IndexAllows(NextRow) THEN Activated(NextRow, "free", NoInvoice) ELSE subs
      /\ offline' = offline
      /\ invoice' = invoice /\ provider' = provider /\ hook' = hook /\ restarts' = restarts
  BY DEF FreeInsert
<1>3. p \in Inserting
  BY <1>2 DEF Inserting
<1>4. NextRow \in Rows
  BY <1>3, RowFound DEF BillingInv
<1>5. CASE IndexAllows(NextRow)
  <2>1. subs' = Activated(NextRow, "free", NoInvoice)
    BY <1>2, <1>5, Zenon
  <2>2. TypeOK' /\ Room' /\ Requested'
    BY <1>1, <1>2, <1>3, <1>4, <1>5, <2>1, WriteEnds DEF TypeOK
  <2>3. \A q \in Rows :
          subs'[q] = IF q = NextRow THEN [status |-> "active", plan |-> "free", via |-> NoInvoice] ELSE subs[q]
    BY <1>1, <1>4, <1>5, <2>1, ActivatedFits
  <2>4. PaidIsActivated'
    <3>1. ASSUME NEW i \in Invoices, invoice[i].status = "paid"
          PROVE  /\ provider[i] \in {"charged", "ended"}
                 /\ invoice[i].row # NoRow /\ subs'[invoice[i].row].status # "none"
      BY <3>1, <1>1, <2>3, FieldTypes DEF BillingInv, PaidIsActivated
    <3>2. ASSUME NEW q \in Rows, subs'[q].via # NoInvoice
          PROVE  invoice[subs'[q].via].status = "paid"
      BY <3>2, <2>3 DEF BillingInv, PaidIsActivated
    <3> QED
      BY <1>2, <3>1, <3>2 DEF PaidIsActivated, Rows, NoRow
  <2>5. PaidPlanWasBought'
    <3> SUFFICES ASSUME NEW q \in Rows, subs'[q].status = "active", subs'[q].plan = "pro"
                 PROVE  \/ subs'[q].via # NoInvoice /\ invoice'[subs'[q].via].status = "paid"
                        \/ offline'
      BY DEF PaidPlanWasBought, Rows
    <3>1. subs'[q] = subs[q]
      BY <2>3
    <3> QED
      BY <1>2, <3>1 DEF BillingInv, PaidPlanWasBought
  <2>6. Offered'
    BY <1>1, <1>2 DEF Offered
  <2> QED
    BY <2>2, <2>4, <2>5, <2>6 DEF BillingInv
<1>6. CASE ~IndexAllows(NextRow)
  <2>1. subs' = subs
    BY <1>2, <1>6, Zenon
  <2>2. Idle.op = "idle"
    BY DEF Idle
  <2> QED
    BY <1>1, <1>2, <2>1, <2>2, SameRowsCalm, SameRest, EndsIdle, CalmGoesOn
<1> QED
  BY <1>5, <1>6

\* A confirmation pays the invoice and activates the row together, or does
\* neither.
LEMMA ConfirmEnds ==
  ASSUME BillingInv, NEW p \in Procs, ConfirmWrite(p)
  PROVE  BillingInv'
<1> DEFINE i == proc[p].inv
           r == IF proc[p].row = NoRow THEN NextRow ELSE proc[p].row
<1>1. TypeOK /\ Offered
  BY DEF BillingInv
<1>2. /\ proc[p].op = "confirm" /\ Ends(p)
      /\ subs' = IF IndexAllows(r) THEN Activated(r, "pro", i) ELSE subs
      /\ invoice' = IF IndexAllows(r) THEN [invoice EXCEPT ![i] = [status |-> "paid", row |-> r]] ELSE invoice
      /\ hook' = IF proc[p].hook THEN [hook EXCEPT ![i] = IF IndexAllows(r) THEN "done" ELSE "vain"] ELSE hook
      /\ offline' = offline /\ provider' = provider /\ restarts' = restarts
  BY DEF ConfirmWrite, Honoured
<1>3. p \in Inserting
  BY <1>2 DEF Inserting
<1>4. r \in Rows /\ r # NoRow
  BY <1>1, <1>3, RowFound, RowsAreNumbers, FieldTypes DEF BillingInv, Request
<1>5. i \in Invoices /\ provider[i] \in {"charged", "ended"}
  BY <1>2 DEF BillingInv, Requested
<1>6. hook' \in [Invoices -> {"none", "sent", "done", "vain"}]
  <2>1. \/ hook' = hook
        \/ hook' = [hook EXCEPT ![i] = "done"]
        \/ hook' = [hook EXCEPT ![i] = "vain"]
    BY <1>2
  <2> QED
    BY <1>1, <2>1 DEF TypeOK
<1> HIDE DEF i, r
<1>7. CASE IndexAllows(r)
  <2>1. subs' = Activated(r, "pro", i)
    BY <1>2, <1>7, Zenon
  <2>2. invoice' = [invoice EXCEPT ![i] = [status |-> "paid", row |-> r]]
    BY <1>2, <1>7, Zenon
  <2>3. /\ invoice' \in [Invoices -> [status : {"none", "open", "paid"}, row : Rows \cup {NoRow}]]
        /\ \A j \in Invoices :
             invoice'[j] = IF j = i THEN [status |-> "paid", row |-> r] ELSE invoice[j]
    BY <1>1, <1>4, <1>5, <2>2 DEF TypeOK
  <2>4. TypeOK' /\ Room' /\ Requested'
    <3>1. offline' \in BOOLEAN
      BY <1>1, <1>2, Zenon DEF TypeOK
    <3> QED
      BY <1>1, <1>2, <1>3, <1>4, <1>5, <1>6, <1>7, <2>1, <2>3, <3>1, WriteEnds
  <2>5. \A q \in Rows : subs'[q] = IF q = r THEN [status |-> "active", plan |-> "pro", via |-> i] ELSE subs[q]
    BY <1>1, <1>4, <1>5, <1>7, <2>1, ActivatedFits
  <2>6. PaidIsActivated'
    <3>1. ASSUME NEW j \in Invoices, invoice'[j].status = "paid"
          PROVE  /\ provider'[j] \in {"charged", "ended"}
                 /\ invoice'[j].row # NoRow /\ subs'[invoice'[j].row].status # "none"
      <4>1. CASE j = i
        BY <1>2, <1>4, <1>5, <2>3, <2>5, <4>1
      <4>2. CASE j # i
        BY <1>1, <1>2, <2>3, <2>5, <3>1, <4>2, FieldTypes DEF BillingInv, PaidIsActivated
      <4> QED
        BY <4>1, <4>2
    <3>2. ASSUME NEW q \in Rows, subs'[q].via # NoInvoice
          PROVE  invoice'[subs'[q].via].status = "paid"
      <4>1. CASE q = r
        BY <1>5, <2>3, <2>5, <4>1
      <4>2. CASE q # r
        BY <1>1, <2>3, <2>5, <3>2, <4>2, FieldTypes DEF BillingInv, PaidIsActivated
      <4> QED
        BY <4>1, <4>2
    <3> QED
      BY <3>1, <3>2 DEF PaidIsActivated, Rows, NoRow
  <2>7. PaidPlanWasBought'
    <3> SUFFICES ASSUME NEW q \in Rows, subs'[q].status = "active", subs'[q].plan = "pro"
                 PROVE  \/ subs'[q].via # NoInvoice /\ invoice'[subs'[q].via].status = "paid"
                        \/ offline'
      BY DEF PaidPlanWasBought, Rows
    <3>1. CASE q = r
      BY <1>5, <2>3, <2>5, <3>1, InvoiceAssumption
    <3>2. CASE q # r
      BY <1>1, <1>2, <2>3, <2>5, <3>2, FieldTypes DEF BillingInv, PaidPlanWasBought
    <3> QED
      BY <3>1, <3>2
  <2>8. Offered'
    BY <1>1, <1>2, <2>3 DEF Offered
  <2> QED
    BY <2>4, <2>6, <2>7, <2>8 DEF BillingInv
<1>8. CASE ~IndexAllows(r)
  <2>1. subs' = subs /\ invoice' = invoice
    BY <1>2, <1>8, Zenon
  <2>2. Idle.op = "idle"
    BY DEF Idle
  <2>3. PaidSame /\ Forward /\ RestTyped /\ Offered'
    BY <1>1, <1>2, <1>6, <2>1 DEF PaidSame, Forward, RestTyped, Offered, TypeOK
  <2> QED
    BY <1>1, <1>2, <2>1, <2>2, <2>3, SameRowsCalm, EndsIdle, CalmGoesOn
<1> QED
  BY <1>7, <1>8

\* A cancellation takes a manual row's life, whatever the row is by then, or
\* asks the provider to end what it charges.
LEMMA CancelEnds ==
  ASSUME BillingInv, NEW p \in Procs, CancelWrite(p)
  PROVE  BillingInv'
<1>1. TypeOK /\ Offered
  BY DEF BillingInv
<1>2. /\ proc[p].op = "cancel" /\ Ends(p)
      /\ subs' = IF proc[p].inv = NoInvoice THEN [subs EXCEPT ![proc[p].row].status = "canceled"] ELSE subs
      /\ \/ provider' = provider
         \/ provider[proc[p].inv] = "charged" /\ provider' = [provider EXCEPT ![proc[p].inv] = "ended"]
      /\ offline' = offline /\ invoice' = invoice /\ hook' = hook /\ restarts' = restarts
  BY DEF CancelWrite
<1>3. proc[p].row \in Rows /\ subs[proc[p].row].status # "none"
  BY <1>2 DEF BillingInv, Requested
<1>4. Calmed
  <2>1. CASE proc[p].inv = NoInvoice
    <3>1. /\ subs' = [r \in Rows |-> subs'[r]]
          /\ \A r \in Rows :
               subs'[r] = IF r = proc[p].row THEN [subs[r] EXCEPT !.status = "canceled"] ELSE subs[r]
      BY <1>1, <1>2, <1>3, <2>1 DEF TypeOK
    <3>2. \A r \in Rows :
            /\ subs'[r] \in SubRow
            /\ subs'[r].via = subs[r].via /\ subs'[r].plan = subs[r].plan
            /\ r # proc[p].row => subs'[r].status = subs[r].status
            /\ r = proc[p].row => subs'[r].status = "canceled"
      BY <1>1, <3>1, FieldTypes DEF SubRow
    <3>3. subs' \in [Rows -> SubRow]
      BY <3>1, <3>2
    <3> QED
      BY <1>3, <3>2, <3>3 DEF Calmed
  <2>2. CASE proc[p].inv # NoInvoice
    <3>1. subs' = subs
      BY <1>2, <2>2
    <3> QED
      BY <1>1, <3>1, SameRowsCalm
  <2> QED
    BY <2>1, <2>2
<1>5. PaidSame /\ Forward /\ RestTyped /\ Offered'
  BY <1>1, <1>2 DEF PaidSame, Forward, RestTyped, Offered, TypeOK
<1>6. Idle.op = "idle"
  BY DEF Idle
<1> QED
  BY <1>2, <1>4, <1>5, <1>6, EndsIdle, CalmGoesOn

LEMMA RestartStep ==
  ASSUME BillingInv, Restart
  PROVE  BillingInv'
<1>1. TypeOK /\ Offered
  BY DEF BillingInv
<1>2. Idle \in Request /\ Idle.op = "idle"
  BY DEF Idle, Request
<1>3. /\ restarts' \in 0..MaxRestarts /\ subs' = subs /\ offline' = offline
      /\ proc' \in [Procs -> Request] /\ \A p \in Procs : proc'[p].op = "idle"
  BY <1>1, <1>2, BoundsAssumption DEF Restart, TypeOK
<1>4. PaidSame /\ Forward /\ RestTyped /\ Offered'
  BY <1>1, <1>3 DEF Restart, PaidSame, Forward, RestTyped, Offered, TypeOK
<1> QED
  BY <1>1, <1>3, <1>4, SameRowsCalm, CalmGoesOn

LEMMA BillingStep == BillingInv /\ [Next]_vars => BillingInv'
<1> SUFFICES ASSUME BillingInv, [Next]_vars PROVE BillingInv'
  OBVIOUS
<1>1. ASSUME NEW i \in Invoices, CheckoutStep(i) PROVE BillingInv'
  BY <1>1, CheckoutSteps, RowSteps, RequestsBegin DEF CheckoutStep
<1>2. ASSUME NEW p \in Procs, Finish(p) PROVE BillingInv'
  BY <1>2, OfflineEnds, ConfirmEnds, FreeEnds, CancelEnds DEF Finish
<1>3. ASSUME NEW p \in Procs, OfflineStart(p) \/ FreeCancel(p) \/ CancelRead(p) PROVE BillingInv'
  BY <1>3, RequestsBegin
<1>4. CASE ChangePlan \/ ExpireTrial
  BY <1>4, RowSteps
<1>5. CASE Restart
  BY <1>5, RestartStep
<1>6. CASE UNCHANGED vars
  <2>1. TypeOK /\ Offered
    BY DEF BillingInv
  <2>2. /\ subs' = subs /\ invoice' = invoice /\ provider' = provider /\ offline' = offline
        /\ hook' = hook /\ proc' = proc /\ restarts' = restarts
    BY <1>6 DEF vars
  <2> QED
    BY <2>1, <2>2, SameRowsCalm, SameRest, SameRequests, CalmGoesOn
<1> QED
  BY <1>1, <1>2, <1>3, <1>4, <1>5, <1>6 DEF Next

LEMMA BillingHolds == Spec => []BillingInv
BY BillingInit, BillingStep, PTL DEF Spec

-----------------------------------------------------------------------------
(* The theorems *)

\* Rows, invoices and requests keep their types, and one row of a workspace is
\* live at most, also when a request writes the row that it read before others
\* wrote (the partial unique index of tenant_subscriptions).
THEOREM TypeCorrect == Spec => []TypeOK
<1>1. BillingInv => TypeOK
  BY DEF BillingInv
<1> QED
  BY <1>1, BillingHolds, PTL

\* An invoice is paid exactly if its row was activated, however confirmations by
\* webhook and by page, cancellations and crashes interleave
\* (confirmGatewayCheckout).
THEOREM PaidAreActivated == Spec => []PaidIsActivated
<1>1. BillingInv => PaidIsActivated
  BY DEF BillingInv
<1> QED
  BY <1>1, BillingHolds, PTL

\* No order of requests, of late writes by id and of webhooks that come again
\* gives a paid plan away (activateManualSubscription, cancelSubscription,
\* changePlan).
THEOREM PaidPlansBought == Spec => []PaidPlanWasBought
<1>1. BillingInv => PaidPlanWasBought
  BY DEF BillingInv
<1> QED
  BY <1>1, BillingHolds, PTL
=============================================================================
