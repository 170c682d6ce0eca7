-------------------------- MODULE EmailQueueProofs --------------------------
(***************************************************************************)
(* One loop over the queue and no mail twice, for any mails, any number of *)
(* retries and any batch size. The batch is what a filter leaves of the    *)
(* queue, a recursive function: the first part says what it returns, by    *)
(* induction over the length of the queue. The library's induction takes a *)
(* predicate as a parameter; here it is a set of numbers, and the argument *)
(* is that a set of numbers that is not empty has a least one.             *)
(***************************************************************************)
EXTENDS EmailQueue, Integers, FiniteSets, FiniteSetTheorems,
        WellFoundedInduction, SequenceTheorems, TLAPS

-----------------------------------------------------------------------------
(* Induction *)

\* The intervals that begin with 0 are ordered by inclusion as by their ends, and
\* inclusion of finite sets is well founded.
LEMMA LeastNumber ==
  ASSUME NEW T \in SUBSET Nat, T # {}
  PROVE  \E m \in T : \A k \in T : m <= k
<1> DEFINE I == {S \in FiniteSubsetsOf(Nat) : \E m \in T : S = 0..m}
<1>1. IsWellFoundedOn(StrictSubsetOrdering(Nat), FiniteSubsetsOf(Nat))
  BY FS_StrictSubsetOrderingWellFounded
<1>2. \A m \in T : 0..m \in I
  <2> TAKE m \in T
  <2>1. 0..m \in SUBSET Nat /\ IsFiniteSet(0..m)
    BY FS_Interval
  <2> QED
    BY <2>1 DEF FiniteSubsetsOf
<1>3. I \subseteq FiniteSubsetsOf(Nat) /\ I # {}
  BY <1>2
<1> HIDE DEF I
<1>4. PICK x \in I : \A y \in I : <<y, x>> \notin StrictSubsetOrdering(Nat)
  BY <1>1, <1>3, WFMin
<1>5. PICK m \in T : x = 0..m
  BY DEF I
<1>6. ASSUME NEW k \in T, k < m PROVE FALSE
  <2>1. 0..k \in I
    BY <1>2
  <2>2. m \in 0..m /\ m \notin 0..k
    BY <1>6
  <2>3. 0..k \subseteq 0..m /\ 0..k # 0..m /\ 0..k \subseteq Nat /\ 0..m \subseteq Nat
    BY <1>6, <2>2
  <2> QED
    BY <2>1, <2>3, <1>4, <1>5 DEF StrictSubsetOrdering
<1> QED
  BY <1>6

\* A set that holds 0 and the successor of each of its numbers holds them all.
LEMMA Induction ==
  ASSUME NEW T, 0 \in T, \A n \in Nat : n \in T => n + 1 \in T
  PROVE  \A n \in Nat : n \in T
<1> SUFFICES ASSUME Nat \ T # {} PROVE FALSE
  OBVIOUS
<1>1. PICK m \in Nat \ T : \A k \in Nat \ T : m <= k
  BY LeastNumber
<1>2. m - 1 \in Nat /\ m - 1 \in T
  BY <1>1
<1> QED
  BY <1>1, <1>2

-----------------------------------------------------------------------------
(* The filter *)

\* The equation of the recursive function behind Only.
Kept(q, S, u, n) ==
  IF n = 0 THEN <<>>
  ELSE IF q[n] \in S THEN Append(u[n - 1], q[n]) ELSE u[n - 1]

\* The function exists, so Only is its last value.
LEMMA OnlyUnfolds ==
  ASSUME NEW J, NEW q \in Seq(J), NEW S
  PROVE  \E u : u = [n \in 0..Len(q) |-> Kept(q, S, u, n)] /\ Only(q, S) = u[Len(q)]
<1> DEFINE Solves(u, m) == u = [n \in 0..m |-> Kept(q, S, u, n)]
           T == {m \in Nat : \E u : Solves(u, m)}
<1>1. 0 \in T
  <2>1. Solves([n \in 0..0 |-> <<>>], 0)
    BY DEF Kept
  <2> QED
    BY <2>1
<1>2. ASSUME NEW m \in Nat, m \in T PROVE m + 1 \in T
  <2>1. PICK u : Solves(u, m)
    BY <1>2
  <2> DEFINE w == [n \in 0..(m + 1) |-> IF n = m + 1 THEN Kept(q, S, u, m + 1) ELSE u[n]]
  <2>2. \A n \in 0..m : u[n] = Kept(q, S, u, n)
    BY <2>1
  <2>3. ASSUME NEW n \in 0..(m + 1) PROVE w[n] = Kept(q, S, w, n)
    <3>1. n # 0 => n - 1 \in 0..m /\ n - 1 \in 0..(m + 1) /\ w[n - 1] = u[n - 1]
      OBVIOUS
    <3>2. Kept(q, S, w, n) = Kept(q, S, u, n)
      BY <3>1 DEF Kept
    <3>3. n # m + 1 => n \in 0..m
      OBVIOUS
    <3> QED
      BY <2>2, <3>2, <3>3
  <2>4. Solves(w, m + 1)
    BY <2>3
  <2> HIDE DEF Solves, w
  <2> QED
    BY <2>4
<1> HIDE DEF T
<1>3. \A m \in Nat : m \in T
  BY <1>1, <1>2, Induction
<1>4. PICK u : Solves(u, Len(q))
  BY <1>3, LenProperties DEF T
<1> DEFINE only == CHOOSE f : f = [n \in 0..Len(q) |->
      IF n = 0 THEN <<>> ELSE IF q[n] \in S THEN Append(f[n - 1], q[n]) ELSE f[n - 1]]
<1>5. u = [n \in 0..Len(q) |->
      IF n = 0 THEN <<>> ELSE IF q[n] \in S THEN Append(u[n - 1], q[n]) ELSE u[n - 1]]
  BY <1>4, Zenon DEF Kept
<1>6. only = [n \in 0..Len(q) |->
      IF n = 0 THEN <<>> ELSE IF q[n] \in S THEN Append(only[n - 1], q[n]) ELSE only[n - 1]]
  BY <1>5, Zenon
<1>7. Only(q, S) = only[Len(q)]
  BY Zenon DEF Only
<1> HIDE DEF only
<1>8. only = [n \in 0..Len(q) |-> Kept(q, S, only, n)]
  BY <1>6, Zenon DEF Kept
<1> QED
  BY <1>7, <1>8

\* No entry of s stands in it twice.
Distinct(s) == \A i, k \in DOMAIN s : s[i] = s[k] => i = k

\* The filter returns entries of the queue that are in S, and none more often
\* than the queue has it.
LEMMA OnlyFilters ==
  ASSUME NEW J, NEW q \in Seq(J), Distinct(q), NEW S
  PROVE  /\ Only(q, S) \in Seq(J)
         /\ \A k \in DOMAIN Only(q, S) :
              Only(q, S)[k] \in S /\ \E i \in DOMAIN q : q[i] = Only(q, S)[k]
         /\ Distinct(Only(q, S))
<1>1. PICK u : u = [n \in 0..Len(q) |-> Kept(q, S, u, n)] /\ Only(q, S) = u[Len(q)]
  BY OnlyUnfolds
<1>2. Len(q) \in Nat /\ DOMAIN q = 1..Len(q)
  BY LenProperties
<1> DEFINE Good(n) ==
             /\ u[n] \in Seq(J)
             /\ \A k \in 1..Len(u[n]) : u[n][k] \in S /\ \E i \in 1..n : q[i] = u[n][k]
             /\ \A k, l \in 1..Len(u[n]) : u[n][k] = u[n][l] => k = l
           T == {n \in Nat : n <= Len(q) => Good(n)}
<1>3. 0 \in T
  <2>1. u[0] = <<>>
    BY <1>1, <1>2 DEF Kept
  <2>2. <<>> \in Seq(J) /\ Len(<<>>) = 0
    BY EmptySeq
  <2>3. Good(0)
    BY <2>1, <2>2
  <2> HIDE DEF Good
  <2> QED
    BY <2>3
<1>4. ASSUME NEW n \in Nat, n \in T PROVE n + 1 \in T
  <2> SUFFICES ASSUME n + 1 <= Len(q) PROVE Good(n + 1)
    OBVIOUS
  <2>1. Good(n)
    BY <1>2, <1>4
  <2>2. n + 1 \in 1..Len(q) /\ q[n + 1] \in J
    BY <1>2, ElementOfSeq
  <2>3. u[n + 1] = IF q[n + 1] \in S THEN Append(u[n], q[n + 1]) ELSE u[n]
    <3>1. u[n + 1] = Kept(q, S, u, n + 1)
      BY <1>1, <1>2, <2>2
    <3> QED
      BY <3>1 DEF Kept
  <2>4. CASE q[n + 1] \notin S
    <3>1. u[n + 1] = u[n]
      BY <2>3, <2>4
    <3>2. \A i \in 1..n : i \in 1..(n + 1)
      OBVIOUS
    <3> QED
      BY <2>1, <3>1, <3>2
  <2>5. CASE q[n + 1] \in S
    <3> DEFINE s == u[n]
               x == q[n + 1]
    <3>1. u[n + 1] = Append(s, x)
      BY <2>3, <2>5
    <3>2. \A k \in 1..Len(s) : s[k] # x
      <4> SUFFICES ASSUME NEW k \in 1..Len(s), s[k] = x PROVE FALSE
        OBVIOUS
      <4>1. PICK i \in 1..n : q[i] = s[k]
        BY <2>1
      <4> QED
        BY <4>1, <2>2, <1>2 DEF Distinct
    <3>3. s \in Seq(J) /\ Len(s) \in Nat
      BY <2>1, LenProperties
    <3>4. /\ Append(s, x) \in Seq(J)
          /\ Len(Append(s, x)) = Len(s) + 1
          /\ \A k \in 1..Len(s) : Append(s, x)[k] = s[k]
          /\ Append(s, x)[Len(s) + 1] = x
      BY <3>3, <2>2, AppendProperties
    <3>5. \A k \in 1..(Len(s) + 1) : k \in 1..Len(s) \/ k = Len(s) + 1
      BY <3>3
    <3> HIDE DEF x
    <3>6. \A k \in 1..(Len(s) + 1) : Append(s, x)[k] \in S /\ \E i \in 1..(n + 1) : q[i] = Append(s, x)[k]
      <4> TAKE k \in 1..(Len(s) + 1)
      <4>1. CASE k \in 1..Len(s)
        <5>1. s[k] \in S /\ \E i \in 1..n : q[i] = s[k]
          BY <2>1, <4>1
        <5> QED
          BY <5>1, <4>1, <3>4
      <4>2. CASE k = Len(s) + 1
        BY <4>2, <3>4, <2>5 DEF x
      <4> QED
        BY <4>1, <4>2, <3>5
    <3>7. \A k, l \in 1..(Len(s) + 1) : Append(s, x)[k] = Append(s, x)[l] => k = l
      BY <2>1, <3>2, <3>4, <3>5
    <3> QED
      BY <3>1, <3>4, <3>6, <3>7
  <2> QED
    BY <2>4, <2>5
<1> HIDE DEF T
<1>5. \A n \in Nat : n \in T
  BY <1>3, <1>4, Induction
<1>6. Good(Len(q))
  BY <1>2, <1>5 DEF T
<1> HIDE DEF Good
<1>7. Only(q, S) \in Seq(J)
  BY <1>1, <1>6 DEF Good
<1>8. DOMAIN Only(q, S) = 1..Len(Only(q, S))
  BY <1>7, LenProperties
<1> QED
  BY <1>1, <1>2, <1>6, <1>7, <1>8 DEF Good, Distinct

-----------------------------------------------------------------------------
(* The queue *)

JobStatuses == {"new", "pending", "processing", "sent", "dead", "gone"}

QueueTypeOK ==
  /\ status \in [Jobs -> JobStatuses]
  /\ retries \in [Jobs -> Nat]
  /\ queue \in Seq(Jobs)
  /\ batch \in Seq(Jobs)
  /\ timer \in BOOLEAN
  /\ sends \in [Jobs -> Nat]
  /\ missed \subseteq Jobs

\* OneDrain, of any batch and statuses: a drain goes through statuses that are
\* never in the variable.
Carried(b, st) ==
  /\ \A j \in Jobs : st[j] = "processing" <=> b # <<>> /\ j = Head(b)
  /\ \A i \in 2..Len(b) : st[b[i]] = "pending"
  /\ Distinct(b)

\* A mail is queued once, by the call that makes it.
QueuedOnce == Distinct(queue) /\ \A i \in DOMAIN queue : status[queue[i]] # "new"

\* A mail the server has taken is sent, or was purged since.
TakenIsSent == \A j \in Jobs : sends[j] = 0 \/ (sends[j] = 1 /\ status[j] \in {"sent", "gone"})

QueueInv == QueueTypeOK /\ Carried(batch, status) /\ QueuedOnce /\ TakenIsSent

\* A batch holds pending mails, each once.
LEMMA BatchIsPending ==
  ASSUME NEW q \in Seq(Jobs), Distinct(q), NEW st
  PROVE  /\ FirstPending(q, st) \in Seq(Jobs)
         /\ Distinct(FirstPending(q, st))
         /\ \A k \in DOMAIN FirstPending(q, st) : st[FirstPending(q, st)[k]] = "pending"
<1> DEFINE p == Only(q, {j \in Jobs : st[j] = "pending"})
           n == IF Len(p) < BatchSize THEN Len(p) ELSE BatchSize
           b == SubSeq(p, 1, n)
<1>1. /\ p \in Seq(Jobs)
      /\ \A k \in DOMAIN p : st[p[k]] = "pending"
      /\ Distinct(p)
  BY OnlyFilters
<1>2. FirstPending(q, st) = b
  BY DEF FirstPending
<1> HIDE DEF p
<1>3. n \in Nat /\ n <= Len(p) /\ DOMAIN p = 1..Len(p) /\ Len(p) \in Nat
  BY <1>1, LenProperties, SizesAssumption DEF SizesAssumption
<1> HIDE DEF n
<1>4. \A i \in 1..n : i \in DOMAIN p /\ p[i] \in Jobs
  BY <1>1, <1>3, ElementOfSeq
<1>5. b \in Seq(Jobs) /\ Len(b) = n /\ \A i \in 1..n : b[i] = p[i]
  BY <1>3, <1>4, SubSeqProperties
<1>6. DOMAIN b = 1..n
  BY <1>5, LenProperties
<1> HIDE DEF b
<1> QED
  BY <1>1, <1>2, <1>4, <1>5, <1>6 DEF Distinct

\* Two ways to name the mail in hand.
LEMMA HeadIsFirst ==
  ASSUME NEW b \in Seq(Jobs), b # <<>>
  PROVE  /\ Head(b) = b[1] /\ Head(b) \in Jobs /\ 1 \in DOMAIN b
         /\ DOMAIN b = 1..Len(b) /\ Len(b) \in Nat \ {0}
BY HeadTailProperties, LenProperties, EmptySeq

\* The statuses after the mail at the head of a pending batch is taken in hand.
LEMMA HeadInHand ==
  ASSUME NEW b \in Seq(Jobs), Distinct(b), NEW st \in [Jobs -> JobStatuses],
         \A k \in DOMAIN b : st[b[k]] = "pending",
         \A j \in Jobs : st[j] # "processing",
         NEW ss, ss = [j \in Jobs |-> IF b # <<>> /\ j = Head(b) THEN "processing" ELSE st[j]]
  PROVE  /\ ss \in [Jobs -> JobStatuses]
         /\ Carried(b, ss)
         /\ \A j \in Jobs : ss[j] = st[j] \/ (st[j] = "pending" /\ ss[j] = "processing")
<1>1. ss \in [Jobs -> JobStatuses]
  BY DEF JobStatuses
<1>2. CASE b = <<>>
  <2>1. 2..Len(b) = {}
    BY <1>2, EmptySeq
  <2>2. \A j \in Jobs : ss[j] = st[j]
    BY <1>2
  <2> QED
    BY <1>1, <1>2, <2>1, <2>2 DEF Carried
<1>3. CASE b # <<>>
  <2>1. /\ Head(b) = b[1] /\ Head(b) \in Jobs /\ 1 \in DOMAIN b
        /\ DOMAIN b = 1..Len(b) /\ Len(b) \in Nat \ {0}
    BY <1>3, HeadIsFirst
  <2>2. \A i \in 2..Len(b) : b[i] \in Jobs /\ b[i] # Head(b) /\ st[b[i]] = "pending"
    <3> TAKE i \in 2..Len(b)
    <3>1. i \in DOMAIN b /\ i # 1
      BY <2>1
    <3>2. b[i] \in Jobs
      BY <2>1, <3>1, ElementOfSeq
    <3> QED
      BY <2>1, <3>1, <3>2 DEF Distinct
  <2>3. \A j \in Jobs : ss[j] = IF j = Head(b) THEN "processing" ELSE st[j]
    BY <1>3
  <2>4. \A i \in 2..Len(b) : ss[b[i]] = "pending"
    BY <2>2, <2>3
  <2>5. \A j \in Jobs : ss[j] = "processing" <=> b # <<>> /\ j = Head(b)
    BY <1>3, <2>3
  <2>6. st[Head(b)] = "pending"
    BY <2>1
  <2> QED
    BY <1>1, <2>3, <2>4, <2>5, <2>6 DEF Carried
<1> QED
  BY <1>2, <1>3

Changes(st) ==
  \A j \in Jobs : status'[j] = st[j] \/ (st[j] = "pending" /\ status'[j] = "processing")

\* A call of drain() leaves one loop, whether it starts that loop or finds it.
LEMMA DrainKeepsOne ==
  ASSUME NEW q \in Seq(Jobs), Distinct(q), NEW st \in [Jobs -> JobStatuses],
         batch \in Seq(Jobs), Carried(batch, st), Drain(q, st)
  PROVE  /\ batch' \in Seq(Jobs) /\ status' \in [Jobs -> JobStatuses]
         /\ Carried(batch', status')
         /\ Changes(st)
<1>1. CASE batch = <<>>
  <2>1. /\ batch' = FirstPending(q, st)
        /\ status' = [j \in Jobs |-> IF batch' # <<>> /\ j = Head(batch') THEN "processing" ELSE st[j]]
    BY <1>1 DEF Drain
  <2>2. \A j \in Jobs : st[j] # "processing"
    BY <1>1 DEF Carried
  <2>3. /\ batch' \in Seq(Jobs) /\ Distinct(batch')
        /\ \A k \in DOMAIN (batch') : st[batch'[k]] = "pending"
    BY <2>1, BatchIsPending
  <2>4. /\ status' \in [Jobs -> JobStatuses]
        /\ Carried(batch', status')
        /\ \A j \in Jobs : status'[j] = st[j] \/ (st[j] = "pending" /\ status'[j] = "processing")
    <3>1. PICK b, ss : b = batch' /\ ss = status'
      OBVIOUS
    <3>2. /\ b \in Seq(Jobs) /\ Distinct(b)
          /\ \A k \in DOMAIN b : st[b[k]] = "pending"
          /\ ss = [j \in Jobs |-> IF b # <<>> /\ j = Head(b) THEN "processing" ELSE st[j]]
      BY <2>1, <2>3, <3>1
    <3> QED
      BY <2>2, <3>1, <3>2, HeadInHand
  <2> QED
    BY <2>3, <2>4 DEF Changes
<1>2. CASE batch # <<>>
  <2>1. batch' = batch /\ status' = [j \in Jobs |-> st[j]]
    BY <1>2 DEF Drain
  <2>2. status' = st
    BY <2>1
  <2> QED
    BY <2>1, <2>2 DEF Changes
<1> QED
  BY <1>1, <1>2

\* The loop lets go of one mail before it takes the next in hand.
LEMMA GoOnKeepsOne ==
  ASSUME QueueTypeOK, Carried(batch, status), batch # <<>>,
         NEW x \in JobStatuses \ {"processing"}, GoOn([status EXCEPT ![Head(batch)] = x])
  PROVE  /\ batch' \in Seq(Jobs) /\ status' \in [Jobs -> JobStatuses]
         /\ Carried(batch', status')
         /\ Changes([status EXCEPT ![Head(batch)] = x])
<1> DEFINE st == [status EXCEPT ![Head(batch)] = x]
<1>1. /\ Head(batch) = batch[1] /\ Head(batch) \in Jobs /\ 1 \in DOMAIN batch
      /\ DOMAIN batch = 1..Len(batch) /\ Len(batch) \in Nat \ {0}
  BY HeadIsFirst DEF QueueTypeOK
<1>2. /\ batch' = Tail(batch) /\ batch' \in Seq(Jobs)
      /\ Len(batch') = Len(batch) - 1 /\ DOMAIN (batch') = 1..Len(batch')
      /\ \A i \in 1..Len(batch') : batch'[i] = batch[i + 1]
  <2>1. batch' = Tail(batch)
    BY DEF GoOn
  <2>2. /\ Tail(batch) \in Seq(Jobs) /\ Len(Tail(batch)) = Len(batch) - 1
        /\ \A i \in 1..Len(Tail(batch)) : Tail(batch)[i] = batch[i + 1]
    BY HeadTailProperties DEF QueueTypeOK
  <2> QED
    BY <2>1, <2>2, LenProperties
<1>3. st \in [Jobs -> JobStatuses]
  BY <1>1 DEF QueueTypeOK
<1>4. \A j \in Jobs : st[j] # "processing"
  BY <1>1 DEF QueueTypeOK, Carried
<1>5. \A i \in DOMAIN (batch') : i + 1 \in 2..Len(batch) /\ i + 1 \in DOMAIN batch
  BY <1>1, <1>2
<1>6. Distinct(batch')
  <2> SUFFICES ASSUME NEW i \in DOMAIN (batch'), NEW k \in DOMAIN (batch'), batch'[i] = batch'[k]
               PROVE  i = k
    BY DEF Distinct
  <2>1. batch[i + 1] = batch[k + 1] /\ i \in Int /\ k \in Int
    BY <1>2
  <2>2. i + 1 = k + 1
    BY <2>1, <1>5 DEF Carried, Distinct
  <2> QED
    BY <2>1, <2>2
<1>7. \A i \in DOMAIN (batch') : st[batch'[i]] = "pending"
  <2> TAKE i \in DOMAIN (batch')
  <2>1. status[batch[i + 1]] = "pending" /\ batch'[i] = batch[i + 1]
    BY <1>2, <1>5 DEF Carried
  <2>2. batch[i + 1] # Head(batch)
    BY <1>1, <1>2, <1>5 DEF Carried, Distinct
  <2>3. batch[i + 1] \in Jobs
    BY <1>1, <1>5, ElementOfSeq DEF QueueTypeOK
  <2> QED
    BY <2>1, <2>2, <2>3 DEF QueueTypeOK
<1>8. status' = [j \in Jobs |-> IF batch' # <<>> /\ j = Head(batch') THEN "processing" ELSE st[j]]
  BY DEF GoOn
<1> HIDE DEF st
<1>9. /\ status' \in [Jobs -> JobStatuses]
      /\ Carried(batch', status')
      /\ \A j \in Jobs : status'[j] = st[j] \/ (st[j] = "pending" /\ status'[j] = "processing")
  <2>1. PICK b, ss : b = batch' /\ ss = status'
    OBVIOUS
  <2>2. /\ b \in Seq(Jobs) /\ Distinct(b)
        /\ \A k \in DOMAIN b : st[b[k]] = "pending"
        /\ ss = [j \in Jobs |-> IF b # <<>> /\ j = Head(b) THEN "processing" ELSE st[j]]
    BY <1>2, <1>6, <1>7, <1>8, <2>1
  <2> QED
    BY <1>3, <1>4, <2>1, <2>2, HeadInHand
<1> QED
  BY <1>2, <1>9 DEF Changes, st

-----------------------------------------------------------------------------
(* The steps *)

LEMMA QueueInit == Init => QueueInv
<1> SUFFICES ASSUME Init PROVE QueueInv
  OBVIOUS
<1>1. <<>> \in Seq(Jobs) /\ Len(<<>>) = 0 /\ DOMAIN <<>> = {}
  BY EmptySeq
<1>2. QueueTypeOK
  BY <1>1 DEF Init, QueueTypeOK, JobStatuses
<1>3. 2..0 = {}
  OBVIOUS
<1> QED
  BY <1>1, <1>2, <1>3 DEF Init, QueueInv, Carried, QueuedOnce, TakenIsSent, Distinct

\* A mail that is new goes to the end of the queue, which then has it once.
LEMMA AppendsNew ==
  ASSUME QueueTypeOK, QueuedOnce, NEW j \in Jobs, status[j] = "new"
  PROVE  /\ Append(queue, j) \in Seq(Jobs)
         /\ Distinct(Append(queue, j))
         /\ \A i \in DOMAIN Append(queue, j) :
              Append(queue, j)[i] = j \/ status[Append(queue, j)[i]] # "new"
<1>1. /\ Append(queue, j) \in Seq(Jobs)
      /\ Len(Append(queue, j)) = Len(queue) + 1
      /\ \A i \in 1..Len(queue) : Append(queue, j)[i] = queue[i]
      /\ Append(queue, j)[Len(queue) + 1] = j
  BY AppendProperties DEF QueueTypeOK
<1>2. Len(queue) \in Nat /\ DOMAIN queue = 1..Len(queue)
  BY LenProperties DEF QueueTypeOK
<1>3. DOMAIN Append(queue, j) = 1..(Len(queue) + 1)
  BY <1>1, LenProperties
<1>4. \A i \in DOMAIN Append(queue, j) : i \in DOMAIN queue \/ i = Len(queue) + 1
  BY <1>2, <1>3
<1>5. \A i \in DOMAIN queue : queue[i] # j
  BY DEF QueuedOnce
<1> QED
  BY <1>1, <1>2, <1>4, <1>5 DEF QueuedOnce, Distinct

\* A new mail is in no batch, so a drain goes on as if it were not there.
LEMMA NewIsNotCarried ==
  ASSUME QueueTypeOK, Carried(batch, status), NEW j \in Jobs, NEW x \in JobStatuses \ {"processing"},
         status[j] \notin {"pending", "processing"}
  PROVE  Carried(batch, [status EXCEPT ![j] = x])
<1> DEFINE st == [status EXCEPT ![j] = x]
<1>1. \A k \in Jobs : st[k] = IF k = j THEN x ELSE status[k]
  BY DEF QueueTypeOK
<1>2. \A i \in 2..Len(batch) : batch[i] \in Jobs
  <2>1. Len(batch) \in Nat
    BY LenProperties DEF QueueTypeOK
  <2> QED
    BY <2>1, ElementOfSeq DEF QueueTypeOK
<1> HIDE DEF st
<1>3. \A i \in 2..Len(batch) : st[batch[i]] = "pending"
  BY <1>1, <1>2 DEF Carried
<1>4. \A k \in Jobs : st[k] = "processing" <=> batch # <<>> /\ k = Head(batch)
  BY <1>1 DEF Carried
<1>5. Carried(batch, st)
  BY <1>3, <1>4 DEF Carried
<1> QED
  BY <1>5 DEF st

LEMMA QueueStep == QueueInv /\ [Next]_vars => QueueInv'
<1> SUFFICES ASSUME QueueInv, [Next]_vars PROVE QueueInv'
  OBVIOUS
<1> USE DEF QueueInv
<1>1. ASSUME NEW j \in Jobs, Add(j) PROVE QueueInv'
  <2>1. /\ status' = [status EXCEPT ![j] = "pending"] /\ queue' = Append(queue, j)
        /\ status[j] = "new" /\ timer' = TRUE
        /\ UNCHANGED <<retries, batch, sends, missed>>
    BY <1>1 DEF Add
  <2>2. /\ queue' \in Seq(Jobs) /\ Distinct(queue')
        /\ \A i \in DOMAIN (queue') : queue'[i] = j \/ status[queue'[i]] # "new"
    BY <2>1, AppendsNew
  <2>3. Carried(batch', status')
    BY <2>1, NewIsNotCarried DEF JobStatuses
  <2>4. QueueTypeOK'
    BY <2>1, <2>2 DEF QueueTypeOK, JobStatuses
  <2>5. \A i \in DOMAIN (queue') : queue'[i] \in Jobs
    BY <2>2, LenProperties, ElementOfSeq
  <2>6. QueuedOnce'
    BY <2>1, <2>2, <2>5 DEF QueuedOnce, QueueTypeOK
  <2>7. TakenIsSent'
    BY <2>1 DEF TakenIsSent, QueueTypeOK
  <2> QED
    BY <2>3, <2>4, <2>6, <2>7
<1>2. ASSUME NEW j \in Jobs, AddAndSend(j) PROVE QueueInv'
  <2> DEFINE st == [status EXCEPT ![j] = "pending"]
  <2>1. /\ queue' = Append(queue, j) /\ status[j] = "new" /\ timer' = TRUE
        /\ Drain(queue', st)
        /\ UNCHANGED <<retries, sends, missed>>
    BY <1>2 DEF AddAndSend
  <2>2. /\ queue' \in Seq(Jobs) /\ Distinct(queue')
        /\ \A i \in DOMAIN (queue') : queue'[i] = j \/ status[queue'[i]] # "new"
    BY <2>1, AppendsNew
  <2>3. Carried(batch, st) /\ st \in [Jobs -> JobStatuses]
    BY <2>1, NewIsNotCarried DEF JobStatuses, QueueTypeOK
  <2>4. \A k \in Jobs : st[k] = IF k = j THEN "pending" ELSE status[k]
    BY DEF QueueTypeOK
  <2> HIDE DEF st
  <2>5. /\ batch' \in Seq(Jobs) /\ status' \in [Jobs -> JobStatuses]
        /\ Carried(batch', status')
        /\ Changes(st)
    <3>1. PICK q : q = queue'
      OBVIOUS
    <3> QED
      BY <2>1, <2>2, <2>3, <3>1, DrainKeepsOne DEF QueueTypeOK
  <2>6. QueueTypeOK'
    BY <2>1, <2>2, <2>5 DEF QueueTypeOK
  <2>7. \A i \in DOMAIN (queue') : queue'[i] \in Jobs
    BY <2>2, LenProperties, ElementOfSeq
  <2>8. QueuedOnce'
    BY <2>1, <2>2, <2>4, <2>5, <2>7 DEF QueuedOnce, Changes
  <2>9. TakenIsSent'
    BY <2>1, <2>4, <2>5 DEF TakenIsSent, Changes
  <2> QED
    BY <2>5, <2>6, <2>8, <2>9
<1>3. ASSUME NEW j \in Jobs, RetryJob(j) PROVE QueueInv'
  <2>1. /\ status' = [status EXCEPT ![j] = "pending"] /\ status[j] = "dead"
        /\ retries' = [retries EXCEPT ![j] = 0] /\ timer' = TRUE
        /\ UNCHANGED <<queue, batch, sends, missed>>
    BY <1>3 DEF RetryJob
  <2>2. Carried(batch', status')
    BY <2>1, NewIsNotCarried DEF JobStatuses
  <2>3. QueueTypeOK'
    BY <2>1 DEF QueueTypeOK, JobStatuses
  <2>4. \A i \in DOMAIN queue : queue[i] \in Jobs
    BY LenProperties, ElementOfSeq DEF QueueTypeOK
  <2>5. QueuedOnce'
    BY <2>1, <2>4 DEF QueuedOnce, QueueTypeOK
  <2>6. TakenIsSent'
    BY <2>1 DEF TakenIsSent, QueueTypeOK
  <2> QED
    BY <2>2, <2>3, <2>5, <2>6
<1>4. CASE TimerFires
  <2>1. /\ Drain(queue, status) /\ timer' = FALSE
        /\ missed' \subseteq missed \cup Jobs
        /\ UNCHANGED <<retries, queue, sends>>
    BY <1>4 DEF TimerFires
  <2>2. /\ batch' \in Seq(Jobs) /\ status' \in [Jobs -> JobStatuses]
        /\ Carried(batch', status')
        /\ Changes(status)
    BY <2>1, DrainKeepsOne DEF QueueTypeOK, QueuedOnce
  <2>3. QueueTypeOK'
    BY <2>1, <2>2 DEF QueueTypeOK
  <2>4. \A i \in DOMAIN queue : queue[i] \in Jobs
    BY LenProperties, ElementOfSeq DEF QueueTypeOK
  <2>5. QueuedOnce'
    BY <2>1, <2>2, <2>4 DEF QueuedOnce, Changes
  <2>6. TakenIsSent'
    BY <2>1, <2>2 DEF TakenIsSent, Changes
  <2> QED
    BY <2>2, <2>3, <2>5, <2>6
<1>5. ASSUME NEW x \in {"sent", "dead", "pending"}, batch # <<>>,
             GoOn([status EXCEPT ![Head(batch)] = x]), UNCHANGED queue,
             retries' \in [Jobs -> Nat], timer' \in BOOLEAN, missed' \subseteq Jobs,
             sends' = IF x = "sent" THEN [sends EXCEPT ![Head(batch)] = @ + 1] ELSE sends
      PROVE  QueueInv'
  <2> DEFINE h == Head(batch)
             st == [status EXCEPT ![h] = x]
  <2>1. h \in Jobs /\ status[h] = "processing"
    BY <1>5, HeadIsFirst DEF QueueTypeOK, Carried
  <2>2. x \in JobStatuses \ {"processing"}
    BY DEF JobStatuses
  <2>3. /\ batch' \in Seq(Jobs) /\ status' \in [Jobs -> JobStatuses]
        /\ Carried(batch', status')
        /\ Changes(st)
    BY <1>5, <2>2, GoOnKeepsOne
  <2>4. \A k \in Jobs : st[k] = IF k = h THEN x ELSE status[k]
    BY DEF QueueTypeOK
  <2> HIDE DEF st, h
  <2>5. sends' = IF x = "sent" THEN [sends EXCEPT ![h] = @ + 1] ELSE sends
    BY <1>5 DEF h
  <2>6. sends[h] = 0
    BY <2>1 DEF TakenIsSent
  <2>7. QueueTypeOK'
    <3>1. sends' \in [Jobs -> Nat]
      BY <2>1, <2>5 DEF QueueTypeOK
    <3>2. queue' \in Seq(Jobs)
      BY <1>5 DEF QueueTypeOK
    <3> QED
      BY <1>5, <2>3, <3>1, <3>2 DEF QueueTypeOK
  <2>8. \A i \in DOMAIN queue : queue[i] \in Jobs
    BY LenProperties, ElementOfSeq DEF QueueTypeOK
  <2>9. QueuedOnce'
    BY <1>5, <2>3, <2>4, <2>8 DEF QueuedOnce, Changes
  <2>10. TakenIsSent'
    <3> SUFFICES ASSUME NEW k \in Jobs
                 PROVE  sends'[k] = 0 \/ (sends'[k] = 1 /\ status'[k] \in {"sent", "gone"})
      BY DEF TakenIsSent
    <3>1. CASE k = h
      <4>1. st[k] = x
        BY <3>1, <2>4
      <4>2. status'[k] = x \/ (x = "pending" /\ status'[k] = "processing")
        BY <4>1, <2>3 DEF Changes
      <4>3. sends'[k] = IF x = "sent" THEN 1 ELSE 0
        BY <3>1, <2>1, <2>5, <2>6 DEF QueueTypeOK
      <4> QED
        BY <4>2, <4>3
    <3>2. CASE k # h
      BY <3>2, <2>1, <2>3, <2>4, <2>5 DEF QueueTypeOK, Changes, TakenIsSent
    <3> QED
      BY <3>1, <3>2
  <2> QED
    BY <2>3, <2>7, <2>9, <2>10
<1>6. CASE SendOk
  <2>1. /\ batch # <<>> /\ sends' = [sends EXCEPT ![Head(batch)] = @ + 1]
        /\ GoOn([status EXCEPT ![Head(batch)] = "sent"])
        /\ UNCHANGED <<retries, queue, timer, missed>>
    BY <1>6 DEF SendOk
  <2> QED
    BY <1>5, <2>1 DEF QueueTypeOK
<1>7. ASSUME NEW configured \in BOOLEAN, SendFails(configured) PROVE QueueInv'
  <2> DEFINE j == Head(batch)
             dead == ~configured \/ retries[j] + 1 >= MaxRetries
  <2>1. /\ batch # <<>> /\ retries' = [retries EXCEPT ![j] = @ + 1]
        /\ IF dead THEN UNCHANGED timer ELSE timer' = TRUE
        /\ GoOn([status EXCEPT ![j] = IF dead THEN "dead" ELSE "pending"])
        /\ missed' = missed \ {j} /\ UNCHANGED <<queue, sends>>
    BY <1>7 DEF SendFails, ScheduleRetry
  <2> HIDE DEF dead, j
  <2>2. retries' \in [Jobs -> Nat] /\ timer' \in BOOLEAN /\ missed' \subseteq Jobs
    <3>1. retries' \in [Jobs -> Nat]
      <4>1. retries' = [retries EXCEPT ![j] = @ + 1] /\ retries \in [Jobs -> Nat]
        BY <2>1 DEF QueueTypeOK
      <4>2. j \in Jobs
        BY <2>1, HeadIsFirst DEF QueueTypeOK, j
      <4> QED
        BY <4>1, <4>2
    <3>2. timer' \in BOOLEAN
      <4>1. timer' = timer \/ timer' = TRUE
        BY <2>1, Zenon
      <4> QED
        BY <4>1, Zenon DEF QueueTypeOK
    <3> QED
      BY <2>1, <3>1, <3>2 DEF QueueTypeOK
  <2> USE DEF j
  <2>3. CASE dead
    BY <1>5, <2>1, <2>2, <2>3
  <2>4. CASE ~dead
    BY <1>5, <2>1, <2>2, <2>4
  <2> QED
    BY <2>3, <2>4
<1>8. CASE Purge
  <2>1. /\ queue' = Only(queue, {j \in Jobs : status[j] \in {"pending", "processing"}})
        /\ status' = [j \in Jobs |-> IF status[j] \in {"sent", "dead"} THEN "gone" ELSE status[j]]
        /\ UNCHANGED <<retries, batch, timer, sends, missed>>
    BY <1>8 DEF Purge
  <2>2. /\ queue' \in Seq(Jobs) /\ Distinct(queue')
        /\ \A i \in DOMAIN (queue') : queue'[i] \in Jobs /\ status[queue'[i]] \in {"pending", "processing"}
    BY <2>1, OnlyFilters DEF QueueTypeOK, QueuedOnce
  <2>3. QueueTypeOK'
    BY <2>1, <2>2 DEF QueueTypeOK, JobStatuses
  <2>4. \A k \in Jobs : /\ status'[k] = "processing" <=> status[k] = "processing"
                        /\ status[k] = "pending" => status'[k] = "pending"
    BY <2>1 DEF QueueTypeOK
  <2>5. \A i \in 2..Len(batch) : batch[i] \in Jobs
    <3>1. Len(batch) \in Nat
      BY LenProperties DEF QueueTypeOK
    <3> QED
      BY <3>1, ElementOfSeq DEF QueueTypeOK
  <2>6. Carried(batch', status')
    BY <2>1, <2>4, <2>5 DEF Carried
  <2>7. QueuedOnce'
    BY <2>1, <2>2 DEF QueuedOnce
  <2>8. TakenIsSent'
    BY <2>1 DEF TakenIsSent, QueueTypeOK
  <2> QED
    BY <2>3, <2>6, <2>7, <2>8
<1>9. CASE Restart
  <2>1. /\ status' = [j \in Jobs |-> IF status[j] = "new" THEN "new" ELSE "gone"]
        /\ queue' = <<>> /\ batch' = <<>> /\ timer' = FALSE /\ missed' = {}
        /\ UNCHANGED <<retries, sends>>
    BY <1>9 DEF Restart
  <2>2. <<>> \in Seq(Jobs) /\ DOMAIN <<>> = {} /\ 2..Len(<<>>) = {}
    BY EmptySeq
  <2>3. QueueTypeOK'
    BY <2>1, <2>2 DEF QueueTypeOK, JobStatuses
  <2>4. Carried(batch', status')
    BY <2>1, <2>2 DEF Carried, Distinct
  <2>5. QueuedOnce'
    BY <2>1, <2>2 DEF QueuedOnce, Distinct
  <2>6. TakenIsSent'
    BY <2>1 DEF TakenIsSent, QueueTypeOK
  <2> QED
    BY <2>3, <2>4, <2>5, <2>6
<1>10. CASE UNCHANGED vars
  BY <1>10 DEF vars, QueueTypeOK, Carried, QueuedOnce, TakenIsSent, Distinct
<1> QED
  BY <1>1, <1>2, <1>3, <1>4, <1>6, <1>7, <1>8, <1>9, <1>10 DEF Next, Settle

LEMMA QueueHolds == Spec => []QueueInv
BY QueueInit, QueueStep, PTL DEF Spec

\* However callers, timers, retries and purges start it, one loop goes through
\* the queue: the mail in hand is the only one being sent, those behind it in
\* the batch still wait (drain, runDrain).
THEOREM OneLoop == Spec => []OneDrain
<1>1. QueueInv => OneDrain
  <2> SUFFICES ASSUME QueueInv PROVE OneDrain
    OBVIOUS
  <2>1. Carried(batch, status)
    BY DEF QueueInv
  <2>2. batch # <<>> => Head(batch) \in Jobs
    BY HeadIsFirst DEF QueueInv, QueueTypeOK
  <2>3. {j \in Jobs : status[j] = "processing"} = IF batch = <<>> THEN {} ELSE {Head(batch)}
    BY <2>1, <2>2 DEF Carried
  <2> QED
    BY <2>1, <2>3 DEF OneDrain, Carried, Distinct
<1> QED
  BY <1>1, QueueHolds, PTL

\* A mail the server has taken is not sent again, however often the queue is
\* drained, retried and purged (runDrain, retryJob).
THEOREM SentNoMoreThanOnce == Spec => []SentOnce
<1>1. QueueInv => SentOnce
  BY DEF QueueInv, TakenIsSent, SentOnce
<1> QED
  BY <1>1, QueueHolds, PTL
=============================================================================
