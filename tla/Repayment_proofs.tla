--------------------------- MODULE Repayment_proofs ----------------------------
(***************************************************************************)
(* Proofs about Repayment, for any loan, schedule, staff, keys, proofs and *)
(* days.  First who posts what: every key is posted once, a proof is       *)
(* verified exactly when its payment was posted, a decided proof stays     *)
(* decided, and each month of an installment is charged once.  Then the    *)
(* money: the installments, the loan, the payments' lines and the accounts *)
(* are sums of one another after every step.                               *)
(***************************************************************************)
EXTENDS Repayment, Sums

ProofRow == [status : ProofStatus, amount : Nat, method : Method, by : Worker]

PostTask == [op : {"post"}, key : PaymentKey, amount : Nat, method : Method,
             today : 0..LastDay, at : Nat]
OverdueTask == [op : {"overdue"}, today : 0..LastDay]

Shape ==
    /\ task \in [Worker -> {Idle} \cup PostTask \cup OverdueTask]
    /\ proofs \in [Proof -> ProofRow]
    /\ \E S : payments \in Seq(S)
    /\ today \in 0..LastDay

\* Worker w is posting the payment of proof p, whose row it has locked.
Verifying(w, p) == task[w].op = "post" /\ task[w].key = p

\* A proof that is being verified is undecided and held by one teller.
HeldByOne ==
    \A p \in Proof : \A w, v \in Worker : Verifying(w, p) =>
        /\ w \in Staff
        /\ proofs[p].status \in {"PENDING_REVIEW", "UNDER_REVIEW"}
        /\ Verifying(v, p) => v = w

\* No payment stands for a proof that is not verified.
OnlyVerifiedPaid ==
    \A p \in Proof : \A i \in DOMAIN payments : payments[i].key = p => proofs[p].status = "VERIFIED"

IndInv == Shape /\ HeldByOne /\ OnlyVerifiedPaid /\ PaidOnce

-------------------------------------------------------------------------------
LEMMA IdleIsNoPost == Idle.op = "idle" /\ Idle.op # "post"
  BY DEF Idle

LEMMA InitInv == Init => IndInv
<1> SUFFICES ASSUME Init PROVE IndInv
  OBVIOUS
<1>1. NoProof \in ProofRow /\ NoProof.status = "NONE"
  BY RepaymentAssumption DEF NoProof, ProofRow, ProofStatus, Method, Worker
<1>2. payments \in Seq({}) /\ DOMAIN payments = {}
  BY DEF Init
<1>3. Shape
  BY <1>1, <1>2, RepaymentAssumption DEF Init, Shape
<1>4. HeldByOne
  BY IdleIsNoPost DEF Init, HeldByOne, Verifying
<1>5. OnlyVerifiedPaid /\ PaidOnce
  BY <1>1, <1>2 DEF Init, OnlyVerifiedPaid, PaidOnce
<1> QED
  BY <1>3, <1>4, <1>5 DEF IndInv

-------------------------------------------------------------------------------
\* A worker turns idle, or takes up something other than a proof, and payments
\* and proofs stay as they are.
LEMMA OtherTask ==
    ASSUME IndInv, NEW w \in Worker, NEW t \in {Idle} \cup PostTask \cup OverdueTask,
           task' = [task EXCEPT ![w] = t], t.op = "post" => t.key \notin Proof,
           UNCHANGED <<payments, proofs, today>>
    PROVE  IndInv'
<1>1. \A v \in Worker : task'[v] = IF v = w THEN t ELSE task[v]
  BY DEF IndInv, Shape
<1>2. Shape'
  BY DEF IndInv, Shape
<1>3. HeldByOne'
  BY <1>1 DEF IndInv, HeldByOne, Verifying
<1> QED
  BY <1>2, <1>3 DEF IndInv, OnlyVerifiedPaid, PaidOnce

LEMMA IdleTask ==
    ASSUME IndInv, NEW w \in Worker, Finish(w), UNCHANGED <<payments, proofs, today>>
    PROVE  IndInv'
  BY OtherTask, IdleIsNoPost DEF Finish

LEMMA PostingType ==
    ASSUME IndInv, NEW key \in PaymentKey, NEW amount \in Nat, NEW method \in Method
    PROVE  Posting(key, amount, method) \in PostTask
<1>1. Len(payments) \in Nat
  BY DEF IndInv, Shape
<1> QED
  BY <1>1 DEF IndInv, Shape, Posting, PostTask

\* A row of payment_proofs that no one is verifying, and that is not verified
\* before or after, changes.
LEMMA OtherRow ==
    ASSUME IndInv, NEW p \in Proof, NEW row \in ProofRow,
           proofs' = [proofs EXCEPT ![p] = row], UNCHANGED <<payments, task, today>>,
           \A w \in Worker : ~Verifying(w, p),
           proofs[p].status # "VERIFIED", row.status # "VERIFIED"
    PROVE  IndInv'
<1>1. \A q \in Proof : proofs'[q] = IF q = p THEN row ELSE proofs[q]
  BY DEF IndInv, Shape
<1>2. Shape'
  BY DEF IndInv, Shape
<1>3. HeldByOne'
  BY <1>1 DEF IndInv, HeldByOne, Verifying
<1>4. OnlyVerifiedPaid'
  BY <1>1 DEF IndInv, OnlyVerifiedPaid
<1>5. PaidOnce'
  BY <1>1 DEF IndInv, OnlyVerifiedPaid, PaidOnce
<1> QED
  BY <1>2, <1>3, <1>4, <1>5 DEF IndInv

\* Nobody is verifying a proof whose row is free.
LEMMA FreeIsHeldByNobody ==
    ASSUME IndInv, NEW p \in Proof, RowFree(p)
    PROVE  \A w \in Worker : ~Verifying(w, p)
  BY DEF IndInv, HeldByOne, RowFree, Verifying

-------------------------------------------------------------------------------
(* The steps *)

LEMMA PostPaymentKeeps ==
    ASSUME IndInv, NEW s \in Staff, PostPayment(s) PROVE IndInv'
<1>1. PICK key \in Key, amount \in Amount, method \in {"CASH"} \cup Reference :
        Start(s, Posting(key, amount, method))
  BY DEF PostPayment
<1>2. Posting(key, amount, method) \in PostTask /\ key \notin Proof
  BY PostingType, RepaymentAssumption DEF PaymentKey, Method
<1> QED
  BY <1>1, <1>2, OtherTask DEF PostPayment, Start, Posting, Worker, books

LEMMA CoverFromFundKeeps ==
    ASSUME IndInv, NEW s \in Staff, CoverFromFund(s) PROVE IndInv'
<1>1. PICK key \in CoverKey, amount \in Amount : Start(s, Posting(key, amount, "SOLIDARITY_FUND"))
  BY DEF CoverFromFund
<1>2. Posting(key, amount, "SOLIDARITY_FUND") \in PostTask /\ key \notin Proof
  BY PostingType, RepaymentAssumption DEF PaymentKey, Method
<1> QED
  BY <1>1, <1>2, OtherTask DEF CoverFromFund, Start, Posting, Worker, books

LEMMA CheckOverdueKeeps ==
    ASSUME IndInv, NEW c \in Checker, CheckOverdue(c) PROVE IndInv'
<1>1. Checking \in OverdueTask /\ Checking.op # "post"
  BY DEF IndInv, Shape, Checking, OverdueTask
<1> QED
  BY <1>1, OtherTask DEF CheckOverdue, Start, Worker, books

LEMMA CheckLoanKeeps ==
    ASSUME IndInv, NEW c \in Checker, CheckLoan(c) PROVE IndInv'
  BY IdleTask DEF CheckLoan, Worker

LEMMA SubmitProofKeeps ==
    ASSUME IndInv, NEW p \in Proof, SubmitProof(p) PROVE IndInv'
<1>1. PICK amount \in Claim, r \in Reference :
        proofs' = [proofs EXCEPT ![p] = [@ EXCEPT !.status = "CHECKED", !.amount = amount, !.method = r]]
  BY DEF SubmitProof
<1> DEFINE row == [proofs[p] EXCEPT !.status = "CHECKED", !.amount = amount, !.method = r]
<1>2. proofs[p] \in ProofRow /\ proofs[p].status = "NONE"
  BY DEF IndInv, Shape, SubmitProof
<1>3. row \in ProofRow /\ row.status = "CHECKED"
  BY <1>2, RepaymentAssumption DEF ProofRow, ProofStatus, Method
<1>4. \A w \in Worker : ~Verifying(w, p)
  BY <1>2 DEF IndInv, HeldByOne
<1>5. proofs' = [proofs EXCEPT ![p] = row]
  BY <1>1
<1> HIDE DEF row
<1> QED
  BY <1>2, <1>3, <1>4, <1>5, OtherRow DEF SubmitProof, books

LEMMA InsertProofKeeps ==
    ASSUME IndInv, NEW p \in Proof, InsertProof(p) PROVE IndInv'
<1> DEFINE row == [proofs[p] EXCEPT !.status = "PENDING_REVIEW"]
<1>1. proofs[p] \in ProofRow /\ proofs[p].status = "CHECKED"
  BY DEF IndInv, Shape, InsertProof
<1>2. row \in ProofRow /\ row.status = "PENDING_REVIEW"
  BY <1>1 DEF ProofRow, ProofStatus
<1>3. \A w \in Worker : ~Verifying(w, p)
  BY <1>1 DEF IndInv, HeldByOne
<1>4. proofs' = [proofs EXCEPT ![p] = row]
  BY DEF InsertProof
<1> HIDE DEF row
<1> QED
  BY <1>1, <1>2, <1>3, <1>4, OtherRow DEF InsertProof, books

LEMMA DecideKeeps ==
    ASSUME IndInv, NEW s \in Staff, NEW p \in Proof, LockProof(s, p),
           NEW outcome \in {"UNDER_REVIEW", "REJECTED"}, Decide(s, p, outcome),
           UNCHANGED <<books, task, today>>
    PROVE  IndInv'
<1> DEFINE row == [proofs[p] EXCEPT !.status = outcome, !.by = s]
<1>1. proofs[p] \in ProofRow /\ proofs[p].status # "VERIFIED"
  BY DEF IndInv, Shape, LockProof
<1>2. row \in ProofRow /\ row.status # "VERIFIED"
  BY <1>1 DEF ProofRow, ProofStatus, Worker
<1>3. \A w \in Worker : ~Verifying(w, p)
  BY FreeIsHeldByNobody DEF LockProof
<1>4. proofs' = [proofs EXCEPT ![p] = row]
  BY DEF Decide, IndInv, Shape
<1> HIDE DEF row
<1> QED
  BY <1>1, <1>2, <1>3, <1>4, OtherRow DEF books

LEMMA VerifyProofKeeps ==
    ASSUME IndInv, NEW s \in Staff, NEW p \in Proof, VerifyProof(s, p) PROVE IndInv'
<1>1. PICK amount \in Amount \cup {proofs[p].amount} : Start(s, Posting(p, amount, proofs[p].method))
  BY DEF VerifyProof
<1> DEFINE t == Posting(p, amount, proofs[p].method)
<1>2. proofs[p] \in ProofRow /\ proofs[p].status \in {"PENDING_REVIEW", "UNDER_REVIEW"}
  BY DEF IndInv, Shape, VerifyProof, LockProof
<1>3. t \in PostTask /\ t.op = "post" /\ t.key = p
  <2>1. amount \in Nat /\ proofs[p].method \in Method /\ p \in PaymentKey
    BY <1>2, RepaymentAssumption DEF ProofRow, PaymentKey
  <2> QED
    BY <2>1, PostingType DEF Posting
<1>4. \A w \in Worker : ~Verifying(w, p)
  BY FreeIsHeldByNobody DEF VerifyProof, LockProof
<1>5. task' = [task EXCEPT ![s] = t] /\ UNCHANGED <<payments, proofs, today>> /\ s \in Worker
  BY <1>1 DEF Start, VerifyProof, books, Worker
<1> HIDE DEF t
<1>6. \A v \in Worker : task'[v] = IF v = s THEN t ELSE task[v]
  BY <1>5 DEF IndInv, Shape
<1>7. Shape'
  BY <1>3, <1>5 DEF IndInv, Shape
<1>8. HeldByOne'
  BY <1>2, <1>3, <1>4, <1>5, <1>6 DEF IndInv, HeldByOne, Verifying
<1> QED
  BY <1>5, <1>7, <1>8 DEF IndInv, OnlyVerifiedPaid, PaidOnce

LEMMA RollBackKeeps ==
    ASSUME IndInv, NEW w \in Worker, RollBack(w) PROVE IndInv'
  BY IdleTask DEF RollBack, books

\* A proof that is being verified is not verified, so its key was never posted.
LEMMA ReplayIsNoProof ==
    ASSUME IndInv, NEW s \in Staff, task[s].op = "post", Replayed(task[s])
    PROVE  task[s].key \notin Proof
  BY DEF IndInv, HeldByOne, Verifying, OnlyVerifiedPaid, Replayed, Worker

LEMMA ReplayKeeps ==
    ASSUME IndInv, NEW s \in Staff, Replay(s) PROVE IndInv'
<1>1. UNCHANGED <<payments, proofs, today>>
  BY ReplayIsNoProof DEF Replay, ProofVerified, books
<1> QED
  BY <1>1, IdleTask DEF Replay, Worker

LEMMA PostTxKeeps ==
    ASSUME IndInv, NEW s \in Staff, PostTx(s) PROVE IndInv'
<1> DEFINE t == task[s]
           lines == Allocation(penaltyDue', t.amount)
           split == Portions(lines)
           x == [key |-> t.key, method |-> t.method, amount |-> t.amount,
                 excess |-> t.amount - Total(split), lines |-> lines,
                 status |-> "POSTED", by |-> s, at |-> t.at]
           n == Len(payments)
<1>1. t \in PostTask /\ t.op = "post" /\ s \in Worker
  BY IdleIsNoPost DEF PostTx, IndInv, Shape, OverdueTask, Worker
<1>2. x.key = t.key /\ x.amount = t.amount
  OBVIOUS
<1>3. /\ payments' = Append(payments, x) /\ task' = [task EXCEPT ![s] = Idle]
      /\ today' = today /\ ProofVerified(s) /\ ~Replayed(t)
  BY DEF PostTx, Finish, Postable
<1> HIDE DEF lines, split, x, t
<1>4. /\ DOMAIN payments = 1..n /\ n \in Nat /\ DOMAIN payments' = 1..(n + 1)
      /\ \A i \in 1..n : payments'[i] = payments[i]
      /\ payments'[n + 1] = x
      /\ \E S : payments' \in Seq(S)
  <2>1. PICK S : payments \in Seq(S)
    BY DEF IndInv, Shape
  <2>2. payments \in Seq(S \cup {x})
    BY <2>1
  <2> QED
    BY <1>3, <2>2
<1>5. \A i \in 1..n : payments[i].key # t.key
  BY <1>3, <1>4 DEF Replayed
<1>6. \A v \in Worker : task'[v] = IF v = s THEN Idle ELSE task[v]
  BY <1>1, <1>3 DEF IndInv, Shape
<1>7. /\ proofs' \in [Proof -> ProofRow]
      /\ \A p \in Proof \ {t.key} : proofs'[p] = proofs[p]
      /\ t.key \in Proof => proofs'[t.key].status = "VERIFIED" /\ proofs'[t.key].amount = t.amount
  <2>1. CASE t.key \in Proof
    <3> DEFINE row == [proofs[t.key] EXCEPT !.status = "VERIFIED", !.amount = t.amount, !.by = s]
    <3>1. proofs' = [proofs EXCEPT ![t.key] = row]
      BY <1>3, <2>1 DEF ProofVerified, t, IndInv, Shape
    <3>2. row \in ProofRow /\ row.status = "VERIFIED" /\ row.amount = t.amount
      BY <1>1, <2>1 DEF IndInv, Shape, ProofRow, ProofStatus, PostTask
    <3> HIDE DEF row
    <3> QED
      BY <2>1, <3>1, <3>2 DEF IndInv, Shape
  <2>2. CASE t.key \notin Proof
    BY <1>3, <2>2 DEF ProofVerified, t, IndInv, Shape
  <2> QED
    BY <2>1, <2>2
<1>8. Shape'
  BY <1>1, <1>3, <1>4, <1>7 DEF IndInv, Shape
<1>9. HeldByOne'
  <2> SUFFICES ASSUME NEW p \in Proof, NEW w \in Worker, NEW v \in Worker, Verifying(w, p)'
               PROVE  /\ w \in Staff
                      /\ proofs'[p].status \in {"PENDING_REVIEW", "UNDER_REVIEW"}
                      /\ Verifying(v, p)' => v = w
    BY DEF HeldByOne
  <2>1. w # s /\ Verifying(w, p) /\ (Verifying(v, p)' => Verifying(v, p))
    BY <1>6, IdleIsNoPost DEF Verifying
  <2>2. p # t.key
    BY <1>1, <2>1 DEF IndInv, HeldByOne, Verifying, t
  <2> QED
    BY <1>7, <2>1, <2>2 DEF IndInv, HeldByOne
<1>10. OnlyVerifiedPaid'
  BY <1>2, <1>4, <1>7 DEF IndInv, OnlyVerifiedPaid
<1>11. PaidOnce'
  <2>1. \A i, j \in DOMAIN payments' : payments'[i].key = payments'[j].key => i = j
    BY <1>2, <1>4, <1>5 DEF IndInv, PaidOnce
  <2>2. ASSUME NEW p \in Proof
        PROVE  proofs'[p].status = "VERIFIED" <=>
                 \E i \in DOMAIN payments' : payments'[i].key = p /\ payments'[i].amount = proofs'[p].amount
    <3>1. CASE p = t.key
      BY <1>2, <1>4, <1>7, <3>1
    <3>2. CASE p # t.key
      BY <1>2, <1>4, <1>7, <3>2 DEF IndInv, PaidOnce
    <3> QED
      BY <3>1, <3>2
  <2> QED
    BY <2>1, <2>2 DEF PaidOnce
<1> QED
  BY <1>8, <1>9, <1>10, <1>11 DEF IndInv

LEMMA ReversePaymentKeeps ==
    ASSUME IndInv, NEW s \in Staff, NEW k \in DOMAIN payments, ReversePayment(s, k) PROVE IndInv'
<1> DEFINE x == [payments[k] EXCEPT !.status = "REVERSED"]
<1>1. payments' = [payments EXCEPT ![k] = x] /\ UNCHANGED <<proofs, task, today>>
  BY DEF ReversePayment
<1>2. PICK S : payments \in Seq(S)
  BY DEF IndInv, Shape
<1>3. x.key = payments[k].key /\ x.amount = payments[k].amount
  OBVIOUS
<1> HIDE DEF x
<1>4. /\ DOMAIN payments' = DOMAIN payments
      /\ \A i \in DOMAIN payments : payments'[i].key = payments[i].key /\ payments'[i].amount = payments[i].amount
  BY <1>1, <1>3
<1>5. payments' \in Seq(S \cup {x})
  BY <1>1, <1>2
<1>6. Shape' /\ HeldByOne'
  BY <1>1, <1>5 DEF IndInv, Shape, HeldByOne, Verifying
<1>7. OnlyVerifiedPaid' /\ PaidOnce'
  BY <1>1, <1>4 DEF IndInv, OnlyVerifiedPaid, PaidOnce
<1> QED
  BY <1>6, <1>7 DEF IndInv

LEMMA NextDayKeeps ==
    ASSUME IndInv, NextDay PROVE IndInv'
<1>1. today' \in 0..LastDay /\ UNCHANGED <<payments, proofs, task>>
  BY RepaymentAssumption DEF IndInv, Shape, NextDay, books
<1> QED
  BY <1>1 DEF IndInv, Shape, HeldByOne, Verifying, OnlyVerifiedPaid, PaidOnce

-------------------------------------------------------------------------------
LEMMA StepKeeps == IndInv /\ [Next]_vars => IndInv'
<1> SUFFICES ASSUME IndInv, [Next]_vars PROVE IndInv'
  OBVIOUS
<1>1. CASE \E c \in Checker : CheckOverdue(c) \/ CheckLoan(c)
  BY <1>1, CheckOverdueKeeps, CheckLoanKeeps
<1>2. CASE \E s \in Staff : StaffStep(s)
  <2>1. PICK s \in Staff : StaffStep(s)
    BY <1>2
  <2>2. CASE PostPayment(s) \/ CoverFromFund(s)
    BY <2>2, PostPaymentKeeps, CoverFromFundKeeps
  <2>3. CASE PostTx(s) \/ Replay(s)
    BY <2>3, PostTxKeeps, ReplayKeeps
  <2>4. CASE \E p \in Proof : ClaimProof(s, p)
    BY <2>4, DecideKeeps DEF ClaimProof
  <2>5. CASE \E p \in Proof : RejectProof(s, p)
    BY <2>5, DecideKeeps DEF RejectProof
  <2>6. CASE \E p \in Proof : VerifyProof(s, p)
    BY <2>6, VerifyProofKeeps
  <2>7. CASE \E i \in DOMAIN payments : ReversePayment(s, i)
    BY <2>7, ReversePaymentKeeps
  <2> QED
    BY <2>1, <2>2, <2>3, <2>4, <2>5, <2>6, <2>7 DEF StaffStep
<1>3. CASE \E w \in Worker : RollBack(w)
  BY <1>3, RollBackKeeps
<1>4. CASE \E p \in Proof : SubmitProof(p) \/ InsertProof(p)
  BY <1>4, SubmitProofKeeps, InsertProofKeeps
<1>5. CASE NextDay
  BY <1>5, NextDayKeeps
<1>6. CASE UNCHANGED vars
  BY <1>6 DEF vars, books, IndInv, Shape, HeldByOne, Verifying, OnlyVerifiedPaid, PaidOnce
<1> QED
  BY <1>1, <1>2, <1>3, <1>4, <1>5, <1>6 DEF Next

\* The inductive invariant holds in every reachable state: a proof someone is
\* verifying is undecided and theirs alone, and no payment stands for a proof
\* that is not verified.
THEOREM RepaymentInvariance == Spec => []IndInv
  BY InitInv, StepKeeps, PTL DEF Spec

\* Every key is posted once, and a proof is verified exactly when its payment,
\* of the amount verified, was posted: whatever tellers verify, retry and lose.
THEOREM KeysArePaidOnce == Spec => []PaidOnce
<1>1. IndInv => PaidOnce
  BY DEF IndInv
<1> QED
  BY <1>1, RepaymentInvariance, PTL

-------------------------------------------------------------------------------
(* Decided proofs *)

LEMMA DecidedStep ==
    ASSUME IndInv, [Next]_vars, NEW p \in Proof, proofs[p].status \in {"VERIFIED", "REJECTED"}
    PROVE  proofs'[p] = proofs[p]
<1>1. CASE \E s \in Staff : PostTx(s) \/ Replay(s)
  <2>1. PICK s \in Staff : (PostTx(s) \/ Replay(s)) /\ task[s].op = "post" /\ ProofVerified(s)
    BY <1>1 DEF PostTx, Replay
  <2>2. task[s].key # p
    BY <2>1 DEF IndInv, HeldByOne, Verifying, Worker
  <2> QED
    BY <2>1, <2>2 DEF ProofVerified, IndInv, Shape
<1>2. CASE \E q \in Proof : SubmitProof(q) \/ InsertProof(q)
  <2>1. PICK q \in Proof : proofs[q].status \in {"NONE", "CHECKED"} /\ \E row : proofs' = [proofs EXCEPT ![q] = row]
    BY <1>2 DEF SubmitProof, InsertProof
  <2> QED
    BY <2>1 DEF IndInv, Shape
<1>3. CASE \E s \in Staff, q \in Proof : ClaimProof(s, q) \/ RejectProof(s, q)
  <2>1. PICK s \in Staff, q \in Proof : LockProof(s, q) /\ \E outcome : Decide(s, q, outcome)
    BY <1>3 DEF ClaimProof, RejectProof
  <2>2. q # p
    BY <2>1 DEF LockProof
  <2> QED
    BY <2>1, <2>2 DEF Decide, IndInv, Shape
<1>4. CASE UNCHANGED proofs
  BY <1>4
<1> QED
  BY <1>1, <1>2, <1>3, <1>4
  DEF Next, StaffStep, PostPayment, CoverFromFund, VerifyProof, ReversePayment, CheckOverdue, CheckLoan,
      RollBack, NextDay, vars, books

\* A verified or rejected proof is never touched again, though other tellers
\* read or claimed it before it was decided.
THEOREM DecisionsStand == Spec => DecidedStaysDecided
<1>1. IndInv /\ [Next]_vars => [\A p \in Proof : proofs[p].status \in {"VERIFIED", "REJECTED"} => proofs'[p] = proofs[p]]_vars
  BY DecidedStep
<1> QED
  BY <1>1, RepaymentInvariance, PTL DEF Spec, DecidedStaysDecided

-------------------------------------------------------------------------------
(* Penalties *)

LEMMA ChargingKeepsMonths ==
    ASSUME OncePerMonth, NEW day, charges' = charges \cup PenaltiesToCharge(day)
    PROVE  OncePerMonth'
<1>1. \A c, d \in PenaltiesToCharge(day) : c.number = d.number /\ c.period = d.period => c = d
  BY DEF PenaltiesToCharge
<1>2. \A c \in charges, d \in PenaltiesToCharge(day) : ~(c.number = d.number /\ c.period = d.period)
  BY DEF PenaltiesToCharge, NotCharged
<1> QED
  BY <1>1, <1>2 DEF OncePerMonth

LEMMA MonthsStep == OncePerMonth /\ [Next]_vars => OncePerMonth'
<1> SUFFICES ASSUME OncePerMonth, [Next]_vars PROVE OncePerMonth'
  OBVIOUS
<1>1. CASE \E day : charges' = charges \cup PenaltiesToCharge(day)
  BY <1>1, ChargingKeepsMonths
<1>2. CASE UNCHANGED charges
  BY <1>2 DEF OncePerMonth
<1>3. ASSUME NEW c \in Checker, CheckLoan(c) PROVE charges' = charges \cup PenaltiesToCharge(task[c].today)
  BY <1>3 DEF CheckLoan, ChargePenalties
<1>4. ASSUME NEW s \in Staff, PostTx(s) PROVE charges' = charges \cup PenaltiesToCharge(task[s].today)
  BY <1>4 DEF PostTx, ChargePenalties
<1> QED
  BY <1>1, <1>2, <1>3, <1>4
  DEF Next, StaffStep, PostPayment, CoverFromFund, VerifyProof, ClaimProof, RejectProof, ReversePayment,
      Replay, SubmitProof, InsertProof, CheckOverdue, RollBack, NextDay, vars, books, schedule

\* No month of an installment is charged twice, by checks and payments of any
\* number of workers, with whatever dates they hold.
THEOREM MonthsAreChargedOnce == Spec => []OncePerMonth
<1>1. Init => OncePerMonth
  BY DEF Init, OncePerMonth
<1> QED
  BY <1>1, MonthsStep, PTL DEF Spec

-------------------------------------------------------------------------------
(***************************************************************************)
(* The money.                                                              *)
(***************************************************************************)

\* What is paid on the installments, and never more than is due.
Paid(due, pd) ==
    /\ due \in [Number -> Nat]
    /\ pd \in [Number -> [Portion -> Nat]]
    /\ \A n \in Number : /\ pd[n].penalty <= due[n]
                         /\ pd[n].interest <= InterestDue[n]
                         /\ pd[n].principal <= PrincipalDue[n]

\* The schedule: numbered installments, each with principal due.
LEMMA Dues ==
    /\ IsFiniteSet(Number) /\ Number \subseteq Nat /\ 1 \in Number
    /\ \A n \in Number : InterestDue[n] \in Nat /\ PrincipalDue[n] \in Nat \ {0}
<1>1. IsFiniteSet(1..Installments)
  BY RepaymentAssumption, FS_Interval
<1> QED
  BY <1>1, RepaymentAssumption DEF Number

\* What an installment owes is a natural number, portion by portion.
LEMMA OwedNat ==
    ASSUME NEW due, Paid(due, paid), NEW n \in Number
    PROVE  /\ Owed(due, n).penalty \in Nat /\ Owed(due, n).interest \in Nat
           /\ Owed(due, n).principal \in Nat /\ Total(Owed(due, n)) \in Nat
<1>1. /\ paid[n].penalty \in Nat /\ paid[n].interest \in Nat /\ paid[n].principal \in Nat
      /\ due[n] \in Nat /\ InterestDue[n] \in Nat /\ PrincipalDue[n] \in Nat
  BY Dues DEF Paid, Portion
<1> QED
  BY <1>1 DEF Paid, Owed, Total

\* The lesser of two amounts is one of them and at most both.
LEMMA LesserNat ==
    ASSUME NEW a \in Nat, NEW b \in Nat
    PROVE  Lesser(a, b) \in Nat /\ Lesser(a, b) <= a /\ Lesser(a, b) <= b /\ (Lesser(a, b) = a \/ Lesser(a, b) = b)
  BY DEF Lesser

\* An amount fills three portions one after the other.
LEMMA Filling ==
    ASSUME NEW left \in Nat, NEW a \in Nat, NEW b \in Nat, NEW c \in Nat
    PROVE  LET x == Lesser(left, a)
               y == Lesser(left - x, b)
               z == Lesser(left - x - y, c)
           IN  /\ x \in Nat /\ y \in Nat /\ z \in Nat
               /\ x <= a /\ y <= b /\ z <= c
               /\ x + y + z = Lesser(left, a + b + c)
<1>1. CASE left < a
  BY <1>1 DEF Lesser
<1>2. CASE left >= a /\ left - a < b
  BY <1>2 DEF Lesser
<1>3. CASE left >= a /\ left - a >= b
  BY <1>3 DEF Lesser
<1> QED
  BY <1>1, <1>2, <1>3

\* What reaches installment n is what the earlier ones leave of the payment.
LEMMA ReachesNat ==
    ASSUME NEW due, Paid(due, paid), NEW amount \in Nat, NEW n \in Number
    PROVE  LET earlier == SumFunctionOnSet([m \in Number |-> Total(Owed(due, m))], 1..(n - 1))
           IN  /\ earlier \in Nat /\ Reaches(due, amount, n) \in Nat
               /\ Reaches(due, amount, n) = IF amount > earlier THEN amount - earlier ELSE 0
<1> DEFINE f == [m \in Number |-> Total(Owed(due, m))]
           g == [m \in 1..(n - 1) |-> Total(Owed(due, m))]
<1>1. 1..(n - 1) \subseteq Number /\ IsFiniteSet(1..(n - 1))
  <2>1. n \in Nat /\ n <= Installments /\ Installments \in Nat
    BY RepaymentAssumption DEF Number
  <2>2. IsFiniteSet(1..(n - 1))
    BY <2>1, FS_Interval
  <2> QED BY <2>1, <2>2 DEF Number
<1>2. \A m \in 1..(n - 1) : f[m] \in Nat /\ f[m] = g[m]
  BY <1>1, OwedNat
<1>3. Reaches(due, amount, n) = IF amount > SumFunctionOnSet(g, 1..(n - 1)) THEN amount - SumFunctionOnSet(g, 1..(n - 1)) ELSE 0
  BY DEF Reaches, SumFunction
<1> HIDE DEF f, g
<1>4. SumFunctionOnSet(f, 1..(n - 1)) \in Nat /\ SumFunctionOnSet(f, 1..(n - 1)) = SumFunctionOnSet(g, 1..(n - 1))
  BY <1>1, <1>2, SumNat, SumSame
<1>5. /\ SumFunctionOnSet(f, 1..(n - 1)) \in Nat /\ Reaches(due, amount, n) \in Nat
      /\ Reaches(due, amount, n) = IF amount > SumFunctionOnSet(f, 1..(n - 1)) THEN amount - SumFunctionOnSet(f, 1..(n - 1)) ELSE 0
  BY <1>3, <1>4
<1> QED
  BY <1>5 DEF f

\* A payment pays no portion beyond what is owed, and of what reaches an
\* installment all that it owes.
LEMMA AllocationWithin ==
    ASSUME NEW due, Paid(due, paid), NEW amount \in Nat, NEW n \in Number
    PROVE  LET line == Allocation(due, amount)[n]
           IN  /\ line.penalty \in Nat /\ line.interest \in Nat /\ line.principal \in Nat
               /\ line.penalty <= Owed(due, n).penalty
               /\ line.interest <= Owed(due, n).interest
               /\ line.principal <= Owed(due, n).principal
               /\ Total(line) = Lesser(Reaches(due, amount, n), Total(Owed(due, n)))
<1> DEFINE owed      == Owed(due, n)
           left      == Reaches(due, amount, n)
           penalty   == Lesser(left, owed.penalty)
           interest  == Lesser(left - penalty, owed.interest)
           principal == Lesser(left - penalty - interest, owed.principal)
<1>1. left \in Nat
  BY ReachesNat
<1>2. owed.penalty \in Nat /\ owed.interest \in Nat /\ owed.principal \in Nat
      /\ Total(owed) = owed.penalty + owed.interest + owed.principal
  BY OwedNat DEF Total
<1>3. Allocation(due, amount)[n] = [penalty |-> penalty, interest |-> interest, principal |-> principal]
  BY DEF Allocation
<1> HIDE DEF owed, left
<1>4. /\ penalty \in Nat /\ interest \in Nat /\ principal \in Nat
      /\ penalty <= owed.penalty /\ interest <= owed.interest /\ principal <= owed.principal
      /\ penalty + interest + principal = Lesser(left, owed.penalty + owed.interest + owed.principal)
  <2> DEFINE a == owed.penalty
             b == owed.interest
             c == owed.principal
  <2>1. a \in Nat /\ b \in Nat /\ c \in Nat
    BY <1>2
  <2> HIDE DEF a, b, c
  <2>2. LET x == Lesser(left, a)
            y == Lesser(left - x, b)
            z == Lesser(left - x - y, c)
        IN  /\ x \in Nat /\ y \in Nat /\ z \in Nat
            /\ x <= a /\ y <= b /\ z <= c
            /\ x + y + z = Lesser(left, a + b + c)
    BY <1>1, <2>1, Filling
  <2> QED BY <2>2 DEF a, b, c
<1> HIDE DEF penalty, interest, principal
<1> QED
  BY <1>2, <1>3, <1>4 DEF Total, owed, left

\* The lines of an allocation add up to the amount, or to the payoff if that is less.
LEMMA AllocationSum ==
    ASSUME NEW due, Paid(due, paid), NEW amount \in Nat
    PROVE  SumFunctionOnSet([n \in Number |-> Total(Allocation(due, amount)[n])], Number)
             = Lesser(amount, Payoff(due)) /\ Payoff(due) \in Nat
<1> DEFINE f == [n \in Number |-> Total(Owed(due, n))]
           g == [n \in Number |-> Total(Allocation(due, amount)[n])]
           K == {k \in Nat : k <= Installments =>
                    SumFunctionOnSet(g, 1..k) = Lesser(amount, SumFunctionOnSet(f, 1..k))}
<1>1. \A n \in Number : f[n] \in Nat /\ g[n] \in Nat
  BY OwedNat, AllocationWithin DEF Total
<1>2. ASSUME NEW n \in Number
      PROVE  LET earlier == SumFunctionOnSet(f, 1..(n - 1))
             IN  earlier \in Nat /\ g[n] = Lesser(IF amount > earlier THEN amount - earlier ELSE 0, f[n])
  BY ReachesNat, AllocationWithin
<1>3. Payoff(due) = SumFunctionOnSet(f, Number)
  BY DEF Payoff, SumFunction
<1> HIDE DEF f, g
<1>4. 0 \in K
  <2>1. 1..0 = {} /\ Lesser(amount, 0) = 0
    BY DEF Lesser
  <2> QED BY <2>1, SumEmpty
<1>5. ASSUME NEW k \in K PROVE k + 1 \in K
  <2> SUFFICES ASSUME k + 1 <= Installments
               PROVE  SumFunctionOnSet(g, 1..(k + 1)) = Lesser(amount, SumFunctionOnSet(f, 1..(k + 1)))
    OBVIOUS
  <2>1. k \in Nat /\ k + 1 \in Number /\ 1..(k + 1) = (1..k) \cup {k + 1} /\ 1..k \subseteq Number /\ k + 1 \notin 1..k
    BY RepaymentAssumption DEF Number
  <2>3. /\ SumFunctionOnSet(g, 1..(k + 1)) = SumFunctionOnSet(g, 1..k) + g[k + 1]
        /\ SumFunctionOnSet(f, 1..(k + 1)) = SumFunctionOnSet(f, 1..k) + f[k + 1]
    <3>1. \A n \in 1..(k + 1) : f[n] \in Int /\ g[n] \in Int
      BY <1>1, <2>1
    <3> QED BY <2>1, <3>1, SumNext
  <2> DEFINE earlier == SumFunctionOnSet(f, 1..k)
  <2>4. earlier \in Nat /\ g[k + 1] = Lesser(IF amount > earlier THEN amount - earlier ELSE 0, f[k + 1])
    <3>1. (k + 1) - 1 = k
      BY <2>1
    <3> QED BY <1>2, <2>1, <3>1
  <2>5. SumFunctionOnSet(g, 1..k) = Lesser(amount, earlier)
    BY RepaymentAssumption, <2>1
  <2> HIDE DEF earlier
  <2>6. f[k + 1] \in Nat
    BY <1>1, <2>1
  <2>7. Lesser(amount, earlier) + g[k + 1] = Lesser(amount, earlier + f[k + 1])
    <3> DEFINE x == f[k + 1]
    <3>1. x \in Nat /\ g[k + 1] = Lesser(IF amount > earlier THEN amount - earlier ELSE 0, x)
      BY <2>4, <2>6
    <3> HIDE DEF x
    <3>2. Lesser(amount, earlier) + Lesser(IF amount > earlier THEN amount - earlier ELSE 0, x) = Lesser(amount, earlier + x)
      BY <2>4, <3>1 DEF Lesser
    <3> QED BY <3>1, <3>2 DEF x
  <2> QED BY <2>3, <2>5, <2>7 DEF earlier
<1>6. K = Nat
  <2> HIDE DEF K
  <2>1. K \in SUBSET Nat
    BY DEF K
  <2> QED BY <1>4, <1>5, <2>1, NatSetInduction
<1>7. Installments \in K
  BY <1>6, RepaymentAssumption
<1>8. SumFunctionOnSet(g, Number) = Lesser(amount, SumFunctionOnSet(f, Number))
  BY <1>7, RepaymentAssumption DEF Number
<1>9. SumFunctionOnSet(f, Number) \in Nat
  BY <1>1, Dues, SumNat
<1> QED
  BY <1>3, <1>8, <1>9 DEF g

\* A payment's portions add up to what its lines pay.
LEMMA PortionsSum ==
    ASSUME NEW lines, \A n \in Number : lines[n].penalty \in Nat /\ lines[n].interest \in Nat /\ lines[n].principal \in Nat
    PROVE  /\ Portions(lines).penalty \in Nat /\ Portions(lines).interest \in Nat /\ Portions(lines).principal \in Nat
           /\ Portions(lines).penalty = SumFunctionOnSet([n \in Number |-> lines[n].penalty], Number)
           /\ Portions(lines).interest = SumFunctionOnSet([n \in Number |-> lines[n].interest], Number)
           /\ Portions(lines).principal = SumFunctionOnSet([n \in Number |-> lines[n].principal], Number)
           /\ Total(Portions(lines)) = SumFunctionOnSet([n \in Number |-> Total(lines[n])], Number)
<1> DEFINE a == [n \in Number |-> lines[n].penalty]
           b == [n \in Number |-> lines[n].interest]
           c == [n \in Number |-> lines[n].principal]
           ab == [n \in Number |-> lines[n].penalty + lines[n].interest]
           abc == [n \in Number |-> Total(lines[n])]
<1>1. /\ Portions(lines).penalty = SumFunctionOnSet(a, Number)
      /\ Portions(lines).interest = SumFunctionOnSet(b, Number)
      /\ Portions(lines).principal = SumFunctionOnSet(c, Number)
  BY DEF Portions, Portion, SumFunction
<1>2. \A n \in Number : /\ a[n] \in Nat /\ b[n] \in Nat /\ c[n] \in Nat /\ ab[n] \in Nat /\ abc[n] \in Nat
                        /\ ab[n] = a[n] + b[n] /\ abc[n] = ab[n] + c[n]
  BY DEF Total
<1> HIDE DEF a, b, c, ab, abc
<1>3. SumFunctionOnSet(a, Number) \in Nat /\ SumFunctionOnSet(b, Number) \in Nat /\ SumFunctionOnSet(c, Number) \in Nat
  BY <1>2, Dues, SumNat
<1>4. SumFunctionOnSet(ab, Number) = SumFunctionOnSet(a, Number) + SumFunctionOnSet(b, Number)
  <2>1. \A n \in Number : a[n] \in Int /\ b[n] \in Int /\ ab[n] = a[n] + b[n]
    BY <1>2
  <2> QED BY <2>1, Dues, SumPlus
<1>5. SumFunctionOnSet(abc, Number) = SumFunctionOnSet(ab, Number) + SumFunctionOnSet(c, Number)
  <2>1. \A n \in Number : ab[n] \in Int /\ c[n] \in Int /\ abc[n] = ab[n] + c[n]
    BY <1>2
  <2> QED BY <2>1, Dues, SumPlus
<1> QED
  BY <1>1, <1>3, <1>4, <1>5 DEF Total, a, b, c, abc

-------------------------------------------------------------------------------
(* Penalties *)

\* loan_penalties holds finitely many rows, each of an installment and an amount.
ChargesOk(S) == IsFiniteSet(S) /\ \A c \in S : c.number \in Number /\ c.amount \in Nat

\* The amount of a set of charges, as a sum over any set that contains them.
LEMMA AmountIsSum ==
    ASSUME NEW U, IsFiniteSet(U), NEW S \in SUBSET U
    PROVE  AmountOf(S) = SumFunctionOnSet([c \in U |-> c.amount], S)
<1> DEFINE f == [c \in U |-> c.amount]
           g == [c \in S |-> c.amount]
<1>1. AmountOf(S) = SumFunctionOnSet(g, S)
  BY DEF AmountOf, SumFunction
<1>2. IsFiniteSet(S) /\ \A c \in S : f[c] = g[c]
  BY FS_Subset
<1> HIDE DEF f, g
<1>3. SumFunctionOnSet(f, S) = SumFunctionOnSet(g, S)
  BY <1>2, SumSame
<1> QED
  BY <1>1, <1>3 DEF f

\* Charges add up to a natural number.
LEMMA AmountNat ==
    ASSUME NEW S, ChargesOk(S) PROVE AmountOf(S) \in Nat
<1> DEFINE f == [c \in S |-> c.amount]
<1>1. AmountOf(S) = SumFunctionOnSet(f, S) /\ IsFiniteSet(S)
  BY AmountIsSum DEF ChargesOk
<1>2. \A c \in S : f[c] \in Nat
  BY DEF ChargesOk
<1> HIDE DEF f
<1> QED
  BY <1>1, <1>2, SumNat

\* Charges planned apart add up.
LEMMA AmountUnion ==
    ASSUME NEW S, NEW T, ChargesOk(S), ChargesOk(T), S \cap T = {}
    PROVE  AmountOf(S \cup T) = AmountOf(S) + AmountOf(T)
<1> DEFINE U == S \cup T
           f == [c \in U |-> c.amount]
<1>1. IsFiniteSet(S) /\ IsFiniteSet(T) /\ IsFiniteSet(U) /\ S \in SUBSET U /\ T \in SUBSET U
  BY FS_Union DEF ChargesOk
<1>2. \A c \in U : f[c] \in Int
  BY DEF ChargesOk
<1>3. U = S \cup T
  OBVIOUS
<1> HIDE DEF U
<1>4. /\ AmountOf(S) = SumFunctionOnSet(f, S) /\ AmountOf(T) = SumFunctionOnSet(f, T)
      /\ AmountOf(U) = SumFunctionOnSet(f, U)
  BY <1>1, AmountIsSum
<1> HIDE DEF f
<1>5. SumFunctionOnSet(f, S \cup T) = SumFunctionOnSet(f, S) + SumFunctionOnSet(f, T)
  BY <1>1, <1>2, <1>3, SumUnion
<1> QED
  BY <1>3, <1>4, <1>5

\* Some of the charges are charges.
LEMMA SomeCharges == ASSUME NEW S, NEW T, ChargesOk(S), T \subseteq S PROVE ChargesOk(T)
  BY FS_Subset DEF ChargesOk

\* What the installments are charged is what is charged in all.
LEMMA ChargedSum ==
    ASSUME NEW plan, ChargesOk(plan)
    PROVE  /\ \A n \in Number : Charged(plan, n) \in Nat
           /\ SumFunctionOnSet([n \in Number |-> Charged(plan, n)], Number) = AmountOf(plan)
<1> DEFINE on(T) == [n \in Number |-> Charged(T, n)]
           Good == {T \in SUBSET plan : SumFunctionOnSet(on(T), Number) = AmountOf(T)}
<1>0. \A T \in SUBSET plan : ChargesOk(T) /\ AmountOf(T) \in Nat
  BY SomeCharges, AmountNat
<1>1. ASSUME NEW T \in SUBSET plan, NEW n \in Number PROVE Charged(T, n) \in Nat
  <2>1. {c \in T : c.number = n} \in SUBSET plan
    OBVIOUS
  <2> QED BY <1>0, <2>1 DEF Charged
<1>2. {} \in Good
  <2>0. AmountOf({}) = 0
    BY SumEmpty DEF AmountOf, SumFunction
  <2>1. \A n \in Number : on({})[n] = 0
    <3>1. \A n \in Number : {c \in {} : c.number = n} = {}
      OBVIOUS
    <3> QED BY <2>0, <3>1 DEF Charged
  <2> DEFINE f == on({})
  <2>2. \A n \in Number : f[n] = 0
    BY <2>1
  <2> HIDE DEF f
  <2>5. SumFunctionOnSet(f, Number) = 0
    BY <2>2, Dues, SumZero
  <2> QED BY <2>0, <2>5 DEF f
<1>3. ASSUME NEW T \in SUBSET plan, T # {}, \A c \in T : T \ {c} \in Good PROVE T \in Good
  <2>1. PICK c \in T : TRUE
    BY <1>3
  <2> DEFINE R == T \ {c}
             f == on(R)
             g == on(T)
  <2>2. SumFunctionOnSet(f, Number) = AmountOf(R)
    BY <1>3
  <2>3. R \in SUBSET plan /\ {c} \in SUBSET plan /\ R \cap {c} = {} /\ T = R \cup {c}
    OBVIOUS
  <2>4. AmountOf(T) = AmountOf(R) + AmountOf({c}) /\ AmountOf({c}) \in Nat /\ AmountOf(R) \in Nat
    BY <1>0, <2>3, AmountUnion
  <2>5. c.number \in Number
    BY DEF ChargesOk
  <2>6. \A n \in Number \ {c.number} : {d \in T : d.number = n} = {d \in R : d.number = n}
    OBVIOUS
  <2>7. g[c.number] = f[c.number] + AmountOf({c})
    <3> DEFINE D == {d \in R : d.number = c.number}
    <3>1. {d \in T : d.number = c.number} = D \cup {c} /\ D \cap {c} = {} /\ D \in SUBSET plan
      BY <2>3
    <3>2. AmountOf(D \cup {c}) = AmountOf(D) + AmountOf({c})
      <4> HIDE DEF D, R
      <4> QED BY <1>0, <2>3, <3>1, AmountUnion
    <3> QED BY <2>5, <3>1, <3>2 DEF Charged
  <2>8. \A n \in Number \ {c.number} : f[n] = g[n]
    BY <2>6 DEF Charged
  <2>9. \A n \in Number : f[n] \in Int /\ g[n] \in Int
    BY <1>1, <2>3
  <2> HIDE DEF f, g, R
  <2>10. SumFunctionOnSet(g, Number) = SumFunctionOnSet(f, Number) + g[c.number] - f[c.number]
    <3> DEFINE x == c.number
    <3>1. x \in Number /\ \A n \in Number \ {x} : f[n] = g[n]
      BY <2>5, <2>8
    <3> HIDE DEF x
    <3>2. SumFunctionOnSet(g, Number) = SumFunctionOnSet(f, Number) + g[x] - f[x]
      <4>1. IsFiniteSet(Number)
        BY Dues
      <4> QED BY <2>9, <3>1, <4>1, SumChange
    <3> QED BY <3>2 DEF x
  <2>11. f[c.number] \in Int /\ g[c.number] \in Int
    BY <2>5, <2>9
  <2>12. SumFunctionOnSet(g, Number) = AmountOf(T)
    BY <2>2, <2>4, <2>7, <2>10, <2>11
  <2> QED BY <2>12 DEF g
<1>4. plan \in Good
  <2> HIDE DEF Good
  <2>1. IsFiniteSet(plan)
    BY DEF ChargesOk
  <2> QED BY <1>2, <1>3, <2>1, SubsetInduction
<1> QED
  BY <1>1, <1>4

\* The months to charge are finitely many, each of an installment and of an amount.
LEMMA PlanOk ==
    ASSUME Paid(penaltyDue, paid), NEW day
    PROVE  ChargesOk(PenaltiesToCharge(day))
<1> DEFINE At(n, k) == [number |-> n, period |-> k, amount |-> Penalty(n)]
           Q == Number \X (1..LastDay)
           all == {At(n, k) : n \in Number, k \in 1..LastDay}
           f == [q \in Q |-> At(q[1], q[2])]
           plan == PenaltiesToCharge(day)
<1>1. IsFiniteSet(all)
  <2>1. IsFiniteSet(1..LastDay)
    BY RepaymentAssumption, FS_Interval
  <2>2. IsFiniteSet(Q)
    BY <2>1, Dues, FS_Product
  <2>3. f \in Surjection(Q, all)
    <3>1. f \in [Q -> all]
      OBVIOUS
    <3>2. ASSUME NEW c \in all PROVE \E q \in Q : f[q] = c
      <4>1. PICK n \in Number, k \in 1..LastDay : c = At(n, k)
        OBVIOUS
      <4>2. <<n, k>> \in Q /\ f[<<n, k>>] = At(n, k)
        OBVIOUS
      <4> QED BY <4>1, <4>2
    <3> HIDE DEF Q, all, f
    <3> QED BY <3>1, <3>2 DEF Surjection
  <2> HIDE DEF Q, all, f
  <2> QED BY <2>2, <2>3, FS_Surjection
<1>2. plan \subseteq all
  BY DEF PenaltiesToCharge
<1>3. IsFiniteSet(plan)
  BY <1>1, <1>2, FS_Subset
<1>4. ASSUME NEW n \in Number PROVE Penalty(n) \in Int
  <2> DEFINE base == Owed(penaltyDue, n).interest + Owed(penaltyDue, n).principal
  <2>1. base \in Nat /\ PenaltyRate \in Nat
    BY OwedNat, RepaymentAssumption
  <2> HIDE DEF base
  <2>2. 2 * base * PenaltyRate + 100 \in Int
    BY <2>1
  <2> QED BY <2>2 DEF Penalty, base
<1>5. ASSUME NEW c \in plan PROVE c.number \in Number /\ c.amount \in Nat
  <2>1. PICK n \in Number, k \in 1..LastDay : c = At(n, k) /\ c.amount > 0
    BY DEF PenaltiesToCharge
  <2> QED BY <1>4, <2>1
<1> QED
  BY <1>3, <1>5 DEF ChargesOk

\* Charging penalties adds to each installment what it is charged.
LEMMA Charging ==
    ASSUME Paid(penaltyDue, paid), ChargesOk(charges), ChargedOnce, NEW day, ChargePenalties(day)
    PROVE  LET plan == PenaltiesToCharge(day)
           IN  /\ Paid(penaltyDue', paid) /\ ChargesOk(charges') /\ ChargedOnce'
               /\ AmountOf(plan) \in Nat
               /\ \A n \in Number : Charged(plan, n) \in Nat /\ penaltyDue'[n] = penaltyDue[n] + Charged(plan, n)
               /\ SumFunctionOnSet([n \in Number |-> Charged(plan, n)], Number) = AmountOf(plan)
<1> DEFINE plan == PenaltiesToCharge(day)
<1>1. ChargesOk(plan) /\ AmountOf(plan) \in Nat
  BY PlanOk, AmountNat
<1>2. /\ \A n \in Number : Charged(plan, n) \in Nat
      /\ SumFunctionOnSet([n \in Number |-> Charged(plan, n)], Number) = AmountOf(plan)
  BY <1>1, ChargedSum
<1>3. charges' = charges \cup plan /\ penaltyDue' = [n \in Number |-> penaltyDue[n] + Charged(plan, n)]
  BY DEF ChargePenalties
<1>4. plan \cap charges = {}
  BY DEF PenaltiesToCharge, NotCharged
<1>5. OncePerMonth'
  BY <1>3, ChargingKeepsMonths DEF ChargedOnce
<1> HIDE DEF plan
<1>6. ChargesOk(charges')
  BY <1>1, <1>3, FS_Union DEF ChargesOk
<1>7. Paid(penaltyDue', paid)
  <2>1. \A n \in Number : penaltyDue[n] \in Nat /\ Charged(plan, n) \in Nat /\ paid[n].penalty \in Nat /\ paid[n].penalty <= penaltyDue[n]
    BY <1>2 DEF Paid, Portion
  <2>2. penaltyDue' \in [Number -> Nat] /\ \A n \in Number : paid[n].penalty <= penaltyDue'[n]
    BY <1>3, <2>1
  <2> QED BY <2>2 DEF Paid
<1>8. ASSUME NEW n \in Number PROVE penaltyDue'[n] = Charged(charges', n)
  <2> DEFINE S == {c \in charges : c.number = n}
             T == {c \in plan : c.number = n}
  <2>1. {c \in charges' : c.number = n} = S \cup T /\ S \cap T = {}
    BY <1>3, <1>4
  <2>2. ChargesOk(S) /\ ChargesOk(T)
    BY <1>1, SomeCharges
  <2> HIDE DEF S, T
  <2>3. AmountOf(S \cup T) = AmountOf(S) + AmountOf(T)
    BY <2>1, <2>2, AmountUnion
  <2>4. Charged(charges', n) = AmountOf(S) + AmountOf(T)
    BY <2>1, <2>3 DEF Charged
  <2>5. penaltyDue'[n] = penaltyDue[n] + Charged(plan, n)
    BY <1>3
  <2> QED BY <2>4, <2>5 DEF ChargedOnce, Charged, S, T
<1>9. ChargedOnce'
  BY <1>5, <1>8 DEF ChargedOnce
<1> QED
  BY <1>1, <1>2, <1>3, <1>6, <1>7, <1>9 DEF plan

-------------------------------------------------------------------------------
(* What is owed in all *)

\* What the installments owe of one portion, and in all.
Owes(due, pd) ==
    [penalty   |-> SumFunctionOnSet([n \in Number |-> due[n] - pd[n].penalty], Number),
     principal |-> SumFunctionOnSet([n \in Number |-> PrincipalDue[n] - pd[n].principal], Number),
     interest  |-> SumFunctionOnSet([n \in Number |-> pd[n].interest], Number),
     total     |-> SumFunctionOnSet([n \in Number |-> (due[n] - pd[n].penalty) + (InterestDue[n] - pd[n].interest)
                                                       + (PrincipalDue[n] - pd[n].principal)], Number)]

\* What an installment is due and was paid are numbers, the paid at most the due.
LEMMA SomeInt ==
    ASSUME NEW due, NEW pd, Paid(due, pd), NEW n \in Number
    PROVE  /\ due[n] \in Nat /\ InterestDue[n] \in Nat /\ PrincipalDue[n] \in Nat
           /\ pd[n].penalty \in Nat /\ pd[n].interest \in Nat /\ pd[n].principal \in Nat
           /\ pd[n].penalty <= due[n] /\ pd[n].interest <= InterestDue[n] /\ pd[n].principal <= PrincipalDue[n]
  BY Dues DEF Paid, Portion

\* Charging a total of amounts makes the installments owe it.
LEMMA ChargeMoves ==
    ASSUME NEW due, NEW more, NEW pd, NEW extra, Paid(due, pd), Paid(more, pd),
           \A n \in Number : extra[n] \in Nat /\ more[n] = due[n] + extra[n]
    PROVE  LET x == SumFunctionOnSet(extra, Number)
           IN  /\ Owes(more, pd).penalty = Owes(due, pd).penalty + x
               /\ Owes(more, pd).total = Owes(due, pd).total + x
               /\ Owes(more, pd).principal = Owes(due, pd).principal
               /\ Owes(more, pd).interest = Owes(due, pd).interest
<1> DEFINE f == [n \in Number |-> due[n] - pd[n].penalty]
           g == [n \in Number |-> more[n] - pd[n].penalty]
           h == [n \in Number |-> (due[n] - pd[n].penalty) + (InterestDue[n] - pd[n].interest) + (PrincipalDue[n] - pd[n].principal)]
           k == [n \in Number |-> (more[n] - pd[n].penalty) + (InterestDue[n] - pd[n].interest) + (PrincipalDue[n] - pd[n].principal)]
<1>1. \A n \in Number : f[n] \in Int /\ extra[n] \in Int /\ g[n] = f[n] + extra[n]
  BY SomeInt
<1>2. \A n \in Number : h[n] \in Int /\ extra[n] \in Int /\ k[n] = h[n] + extra[n]
  BY SomeInt
<1>3. IsFiniteSet(Number)
  BY Dues
<1> HIDE DEF f, g, h, k
<1>4. SumFunctionOnSet(g, Number) = SumFunctionOnSet(f, Number) + SumFunctionOnSet(extra, Number)
  BY <1>1, <1>3, SumPlus
<1>5. SumFunctionOnSet(k, Number) = SumFunctionOnSet(h, Number) + SumFunctionOnSet(extra, Number)
  BY <1>2, <1>3, SumPlus
<1> QED
  BY <1>4, <1>5 DEF Owes, f, g, h, k

\* The lines of a payment: natural portions of every installment.
LinesOk(lines) ==
    \A n \in Number : lines[n].penalty \in Nat /\ lines[n].interest \in Nat /\ lines[n].principal \in Nat

\* Installment by installment, after is before with the lines paid.
PaysLines(pd, lines, after) ==
    \A n \in Number : /\ after[n].penalty = pd[n].penalty + lines[n].penalty
                      /\ after[n].interest = pd[n].interest + lines[n].interest
                      /\ after[n].principal = pd[n].principal + lines[n].principal

\* Paying lines takes them from what the installments owe.
LEMMA PayMoves ==
    ASSUME NEW due, NEW pd, NEW after, NEW lines,
           Paid(due, pd), Paid(due, after), LinesOk(lines), PaysLines(pd, lines, after)
    PROVE  LET split == Portions(lines)
           IN  /\ Owes(due, after).penalty = Owes(due, pd).penalty - split.penalty
               /\ Owes(due, after).interest = Owes(due, pd).interest + split.interest
               /\ Owes(due, after).principal = Owes(due, pd).principal - split.principal
               /\ Owes(due, after).total = Owes(due, pd).total - Total(split)
<1> DEFINE split == Portions(lines)
           pen(p) == [n \in Number |-> due[n] - p[n].penalty]
           int(p) == [n \in Number |-> p[n].interest]
           pri(p) == [n \in Number |-> PrincipalDue[n] - p[n].principal]
           tot(p) == [n \in Number |-> (due[n] - p[n].penalty) + (InterestDue[n] - p[n].interest) + (PrincipalDue[n] - p[n].principal)]
           a == [n \in Number |-> lines[n].penalty]
           b == [n \in Number |-> lines[n].interest]
           c == [n \in Number |-> lines[n].principal]
           d == [n \in Number |-> Total(lines[n])]
<1>0. IsFiniteSet(Number)
  BY Dues
<1>1. \A n \in Number : /\ pen(pd)[n] \in Int /\ pen(after)[n] \in Int /\ a[n] \in Int /\ pen(pd)[n] = pen(after)[n] + a[n]
                        /\ pri(pd)[n] \in Int /\ pri(after)[n] \in Int /\ c[n] \in Int /\ pri(pd)[n] = pri(after)[n] + c[n]
                        /\ int(pd)[n] \in Int /\ int(after)[n] \in Int /\ b[n] \in Int /\ int(after)[n] = int(pd)[n] + b[n]
                        /\ tot(pd)[n] \in Int /\ tot(after)[n] \in Int /\ d[n] \in Int /\ tot(pd)[n] = tot(after)[n] + d[n]
  <2> SUFFICES ASSUME NEW n \in Number
               PROVE  /\ pen(pd)[n] \in Int /\ pen(after)[n] \in Int /\ a[n] \in Int /\ pen(pd)[n] = pen(after)[n] + a[n]
                      /\ pri(pd)[n] \in Int /\ pri(after)[n] \in Int /\ c[n] \in Int /\ pri(pd)[n] = pri(after)[n] + c[n]
                      /\ int(pd)[n] \in Int /\ int(after)[n] \in Int /\ b[n] \in Int /\ int(after)[n] = int(pd)[n] + b[n]
                      /\ tot(pd)[n] \in Int /\ tot(after)[n] \in Int /\ d[n] \in Int /\ tot(pd)[n] = tot(after)[n] + d[n]
    OBVIOUS
  <2>1. /\ due[n] \in Nat /\ InterestDue[n] \in Nat /\ PrincipalDue[n] \in Nat
        /\ pd[n].penalty \in Nat /\ pd[n].interest \in Nat /\ pd[n].principal \in Nat
    BY SomeInt
  <2>2. lines[n].penalty \in Nat /\ lines[n].interest \in Nat /\ lines[n].principal \in Nat
    BY DEF LinesOk
  <2> QED BY <2>1, <2>2 DEF PaysLines, Total
<1> DEFINE p1 == pen(pd)
           p2 == pen(after)
           i1 == int(pd)
           i2 == int(after)
           r1 == pri(pd)
           r2 == pri(after)
           t1 == tot(pd)
           t2 == tot(after)
<1>2. /\ \A n \in Number : p2[n] \in Int /\ a[n] \in Int /\ p1[n] = p2[n] + a[n]
      /\ \A n \in Number : i1[n] \in Int /\ b[n] \in Int /\ i2[n] = i1[n] + b[n]
      /\ \A n \in Number : r2[n] \in Int /\ c[n] \in Int /\ r1[n] = r2[n] + c[n]
      /\ \A n \in Number : t2[n] \in Int /\ d[n] \in Int /\ t1[n] = t2[n] + d[n]
  BY <1>1
<1>3. /\ split.penalty \in Nat /\ split.interest \in Nat /\ split.principal \in Nat
      /\ split.penalty = SumFunctionOnSet(a, Number) /\ split.interest = SumFunctionOnSet(b, Number)
      /\ split.principal = SumFunctionOnSet(c, Number) /\ Total(split) = SumFunctionOnSet(d, Number)
  BY PortionsSum DEF LinesOk
<1>4. /\ Owes(due, pd).penalty = SumFunctionOnSet(p1, Number) /\ Owes(due, after).penalty = SumFunctionOnSet(p2, Number)
      /\ Owes(due, pd).interest = SumFunctionOnSet(i1, Number) /\ Owes(due, after).interest = SumFunctionOnSet(i2, Number)
      /\ Owes(due, pd).principal = SumFunctionOnSet(r1, Number) /\ Owes(due, after).principal = SumFunctionOnSet(r2, Number)
      /\ Owes(due, pd).total = SumFunctionOnSet(t1, Number) /\ Owes(due, after).total = SumFunctionOnSet(t2, Number)
  BY DEF Owes
<1> HIDE DEF a, b, c, d, p1, p2, i1, i2, r1, r2, t1, t2, split
<1>5. SumFunctionOnSet(p1, Number) = SumFunctionOnSet(p2, Number) + SumFunctionOnSet(a, Number)
  BY <1>0, <1>2, SumPlus
<1>6. SumFunctionOnSet(i2, Number) = SumFunctionOnSet(i1, Number) + SumFunctionOnSet(b, Number)
  BY <1>0, <1>2, SumPlus
<1>7. SumFunctionOnSet(r1, Number) = SumFunctionOnSet(r2, Number) + SumFunctionOnSet(c, Number)
  BY <1>0, <1>2, SumPlus
<1>8. SumFunctionOnSet(t1, Number) = SumFunctionOnSet(t2, Number) + SumFunctionOnSet(d, Number)
  BY <1>0, <1>2, SumPlus
<1>9. /\ SumFunctionOnSet(p2, Number) \in Int /\ SumFunctionOnSet(r2, Number) \in Int
      /\ SumFunctionOnSet(t2, Number) \in Int /\ SumFunctionOnSet(d, Number) \in Int
  BY <1>0, <1>2, SumInt
<1> QED
  <2>1. Owes(due, after).penalty = Owes(due, pd).penalty - split.penalty
    BY <1>3, <1>4, <1>5, <1>9
  <2>2. Owes(due, after).principal = Owes(due, pd).principal - split.principal
    BY <1>3, <1>4, <1>7, <1>9
  <2>3. Owes(due, after).total = Owes(due, pd).total - Total(split)
    BY <1>3, <1>4, <1>8, <1>9
  <2>4. Owes(due, after).interest = Owes(due, pd).interest + split.interest
    BY <1>3, <1>4, <1>6
  <2> QED BY <2>1, <2>2, <2>3, <2>4 DEF split

\* What a loan owes, portion by portion, is a number.
LEMMA OwesInt ==
    ASSUME NEW due, NEW pd, Paid(due, pd)
    PROVE  Owes(due, pd).penalty \in Int /\ Owes(due, pd).interest \in Int /\ Owes(due, pd).principal \in Int
<1> DEFINE f == [n \in Number |-> due[n] - pd[n].penalty]
           g == [n \in Number |-> pd[n].interest]
           h == [n \in Number |-> PrincipalDue[n] - pd[n].principal]
<1>1. \A n \in Number : f[n] \in Int
  BY SomeInt
<1>2. \A n \in Number : g[n] \in Int
  BY SomeInt
<1>3. \A n \in Number : h[n] \in Int
  BY SomeInt
<1>4. /\ Owes(due, pd).penalty = SumFunctionOnSet(f, Number) /\ Owes(due, pd).interest = SumFunctionOnSet(g, Number)
      /\ Owes(due, pd).principal = SumFunctionOnSet(h, Number) /\ IsFiniteSet(Number)
  BY Dues DEF Owes
<1> HIDE DEF f, g, h
<1>5. SumFunctionOnSet(f, Number) \in Int
  BY <1>1, <1>4, SumInt
<1>6. SumFunctionOnSet(g, Number) \in Int
  BY <1>2, <1>4, SumInt
<1>7. SumFunctionOnSet(h, Number) \in Int
  BY <1>3, <1>4, SumInt
<1> QED
  BY <1>4, <1>5, <1>6, <1>7

\* What is owed in all is a natural number, and none is owed only if no
\* installment owes any.
LEMMA OwesNat ==
    ASSUME NEW due, NEW pd, Paid(due, pd)
    PROVE  Owes(due, pd).total \in Nat
<1> DEFINE f == [n \in Number |-> (due[n] - pd[n].penalty) + (InterestDue[n] - pd[n].interest) + (PrincipalDue[n] - pd[n].principal)]
<1>1. \A n \in Number : f[n] \in Nat
  BY SomeInt
<1>2. Owes(due, pd).total = SumFunctionOnSet(f, Number) /\ IsFiniteSet(Number)
  BY Dues DEF Owes
<1> HIDE DEF f
<1> QED
  BY <1>1, <1>2, SumNat

-------------------------------------------------------------------------------
(* The books *)

PaymentRow ==
    [key : PaymentKey, method : Method, amount : Amount \cup Claim, excess : Nat,
     lines : [Number -> [penalty : Nat, interest : Nat, principal : Nat]],
     status : {"POSTED", "REVERSED"}, by : Staff, at : Nat]

\* A payment's lines pay its amount, less what is paid over the payoff.
PaymentOk(x) ==
    /\ x \in PaymentRow
    /\ x.excess < x.amount
    /\ Total(Portions(x.lines)) = x.amount - x.excess

\* A payment's lines split what is left of its amount after the excess.
LEMMA PaymentFacts ==
    ASSUME NEW x, PaymentOk(x)
    PROVE  /\ LinesOk(x.lines) /\ x.amount \in Nat \ {0} /\ x.excess \in Nat /\ x.excess < x.amount
           /\ Total(Portions(x.lines)) = x.amount - x.excess
  BY RepaymentAssumption DEF PaymentOk, PaymentRow, LinesOk

\* Amounts that were taken, and claimed, are amounts.
Amounts ==
    /\ \A w \in Worker : task[w].op = "post" => task[w].amount \in Amount \cup Claim
    /\ \A p \in Proof : proofs[p].status # "NONE" => proofs[p].amount \in Amount \cup Claim

\* The posted payments, as functions to sum.
Line(n, p) == [i \in Posted |-> payments[i].lines[n][p]]
Received   == [i \in Posted |-> payments[i].amount]
Excess     == [i \in Posted |-> payments[i].excess]
Used       == [i \in Posted |-> payments[i].amount - payments[i].excess]

Tie ==
    LET owes == Owes(penaltyDue, paid)
    IN  /\ ledger["LOANS_RECEIVABLE"] = owes.principal
        /\ ledger["PENALTIES_RECEIVABLE"] = owes.penalty
        /\ ledger["INTEREST_INCOME"] = -owes.interest
        /\ ledger["OVERPAYMENTS_PAYABLE"] = -SumFunctionOnSet(Excess, Posted)
        /\ ledger["CASH"] + ledger["GROUP_FUND"] = SumFunctionOnSet(Received, Posted)
        /\ member.totalRepaid = SumFunctionOnSet(Used, Posted)
        /\ member.activeLoans = IF status = "Active" THEN 1 ELSE 0

Books ==
    /\ status \in {"Active", "Closed"}
    /\ Paid(penaltyDue, paid) /\ ChargesOk(charges)
    /\ \A i \in DOMAIN payments : PaymentOk(payments[i])
    /\ ledger \in [Account -> Int]
    /\ PaidIsPosted /\ Tie /\ ClosedIsSettled /\ ChargedOnce

\* The payoff a payment is held against is what the loan owes.
LEMMA PayoffIsOwed == ASSUME NEW due PROVE Payoff(due) = Owes(due, paid).total
<1> DEFINE f == [n \in Number |-> Total(Owed(due, n))]
           g == [n \in Number |-> (due[n] - paid[n].penalty) + (InterestDue[n] - paid[n].interest) + (PrincipalDue[n] - paid[n].principal)]
<1>1. \A n \in Number : f[n] = g[n]
  BY DEF Total, Owed
<1>2. Payoff(due) = SumFunctionOnSet(f, Number) /\ Owes(due, paid).total = SumFunctionOnSet(g, Number) /\ IsFiniteSet(Number)
  BY Dues DEF Payoff, SumFunction, Owes
<1> HIDE DEF f, g
<1> QED
  BY <1>1, <1>2, SumSame

\* The payoff with the penalties charged so far.
LEMMA PayoffNow == Payoff(penaltyDue) = Owes(penaltyDue, paid).total
  BY PayoffIsOwed

\* Tie states BooksTie with its sums written over the installments.
LEMMA TieIsBooksTie == Tie <=> BooksTie
<1> DEFINE pen == [n \in Number |-> Owed(penaltyDue, n).penalty]
           pri == [n \in Number |-> Owed(penaltyDue, n).principal]
           pen2 == [n \in Number |-> penaltyDue[n] - paid[n].penalty]
           pri2 == [n \in Number |-> PrincipalDue[n] - paid[n].principal]
<1>1. \A n \in Number : pen[n] = pen2[n] /\ pri[n] = pri2[n]
  BY DEF Owed
<1>2. pen = pen2 /\ pri = pri2
  BY DEF Owed
<1>3. SumFunction(pen) = Owes(penaltyDue, paid).penalty /\ SumFunction(pri) = Owes(penaltyDue, paid).principal
  BY <1>2 DEF Owes, SumFunction
<1>4. SumFunction([n \in Number |-> paid[n].interest]) = Owes(penaltyDue, paid).interest
  BY DEF Owes, SumFunction
<1>5. /\ PostedSum(LAMBDA x : x.excess) = SumFunctionOnSet(Excess, Posted)
      /\ PostedSum(LAMBDA x : x.amount) = SumFunctionOnSet(Received, Posted)
      /\ PostedSum(LAMBDA x : x.amount - x.excess) = SumFunctionOnSet(Used, Posted)
  BY DEF PostedSum, Excess, Received, Used, SumFunction
<1> QED
  BY <1>3, <1>4, <1>5 DEF Tie, BooksTie

\* A line allots a natural number to each portion.
LEMMA LineByPortion ==
    ASSUME NEW lines, LinesOk(lines), NEW n \in Number, NEW p \in Portion
    PROVE  lines[n][p] \in Nat
  BY DEF LinesOk, Portion

\* Payments that stand are finitely many of those recorded.
LEMMA PostedFinite == ASSUME Shape PROVE IsFiniteSet(Posted) /\ Posted \subseteq DOMAIN payments
<1>1. PICK S : payments \in Seq(S)
  BY DEF Shape
<1>2. DOMAIN payments = 1..Len(payments) /\ Len(payments) \in Nat
  BY <1>1
<1>3. IsFiniteSet(1..Len(payments))
  BY <1>2, FS_Interval
<1>4. Posted \subseteq DOMAIN payments
  BY DEF Posted
<1> QED
  BY <1>2, <1>3, <1>4, FS_Subset

\* A payment more: what it adds to a sum over the posted payments.
LEMMA PostedGrows ==
    ASSUME Shape, NEW x, payments' = Append(payments, x), x.status = "POSTED"
    PROVE  /\ DOMAIN payments' = DOMAIN payments \cup {Len(payments) + 1}
           /\ \A i \in DOMAIN payments : payments'[i] = payments[i]
           /\ payments'[Len(payments) + 1] = x
           /\ Posted' = Posted \cup {Len(payments) + 1}
           /\ Len(payments) + 1 \notin Posted
<1>1. PICK S : payments \in Seq(S)
  BY DEF Shape
<1>2. DOMAIN payments = 1..Len(payments) /\ Len(payments) \in Nat
  BY <1>1
<1> DEFINE n == Len(payments)
<1>3. DOMAIN payments' = 1..(n + 1) /\ (\A i \in 1..n : payments'[i] = payments[i]) /\ payments'[n + 1] = x
  BY <1>1, <1>2
<1>4. 1..(n + 1) = (1..n) \cup {n + 1} /\ n + 1 \notin 1..n
  BY <1>2
<1>5. DOMAIN payments = 1..n
  BY <1>2
<1> HIDE DEF n
<1> QED
  BY <1>3, <1>4, <1>5 DEF Posted, n

\* What the entries add to each account.
LEMMA PenaltyEntryIs ==
    ASSUME NEW total \in Int
    PROVE  /\ PenaltyEntry(total) \in [Account -> Int]
           /\ PenaltyEntry(total)["PENALTIES_RECEIVABLE"] = total
           /\ \A a \in {"CASH", "GROUP_FUND", "LOANS_RECEIVABLE", "INTEREST_INCOME", "OVERPAYMENTS_PAYABLE"} :
                PenaltyEntry(total)[a] = 0
  BY DEF PenaltyEntry, NoEntry, Account

\* The accounts a payment is entered on, each with its amount.
LEMMA PaymentEntryIs ==
    ASSUME NEW x, x.amount \in Int, x.excess \in Int, Portions(x.lines).penalty \in Int,
           Portions(x.lines).interest \in Int, Portions(x.lines).principal \in Int
    PROVE  LET e == PaymentEntry(x)
           IN  /\ e \in [Account -> Int]
               /\ e["PENALTIES_RECEIVABLE"] = -Portions(x.lines).penalty
               /\ e["INTEREST_INCOME"] = -Portions(x.lines).interest
               /\ e["LOANS_RECEIVABLE"] = -Portions(x.lines).principal
               /\ e["OVERPAYMENTS_PAYABLE"] = -x.excess
               /\ e["CASH"] + e["GROUP_FUND"] = x.amount
<1> DEFINE a == Portions(x.lines).penalty
           b == Portions(x.lines).interest
           c == Portions(x.lines).principal
           source == IF x.method = "SOLIDARITY_FUND" THEN "GROUP_FUND" ELSE "CASH"
<1>1. PaymentEntry(x) = [NoEntry EXCEPT ![source] = x.amount, !["PENALTIES_RECEIVABLE"] = -a,
                            !["INTEREST_INCOME"] = -b, !["LOANS_RECEIVABLE"] = -c, !["OVERPAYMENTS_PAYABLE"] = -x.excess]
  BY DEF PaymentEntry
<1>2. source = "CASH" \/ source = "GROUP_FUND"
  OBVIOUS
<1> HIDE DEF a, b, c, source
<1>3. -a \in Int /\ -b \in Int /\ -c \in Int /\ -x.excess \in Int
  BY DEF a, b, c
<1> QED
  BY <1>1, <1>2, <1>3 DEF NoEntry, Account, a, b, c

-------------------------------------------------------------------------------
(* The steps that write the books *)

\* The books of a loan just disbursed.
LEMMA InitBooks == Init => Books
<1> SUFFICES ASSUME Init PROVE Books
  OBVIOUS
<1>0. IsFiniteSet(Number) /\ \A n \in Number : InterestDue[n] \in Nat /\ PrincipalDue[n] \in Nat \ {0}
  BY Dues
<1>1. \A n \in Number : paid[n].penalty = 0 /\ paid[n].interest = 0 /\ paid[n].principal = 0 /\ penaltyDue[n] = 0
  BY DEF Init, Portion
<1>2. Paid(penaltyDue, paid)
  BY <1>0, <1>1 DEF Init, Paid
<1>3. ChargesOk(charges) /\ charges = {}
  BY FS_EmptySet DEF Init, ChargesOk
<1>4. ChargedOnce
  <2>1. \A n \in Number : {c \in charges : c.number = n} = {}
    BY <1>3
  <2>2. AmountOf({}) = 0
    BY SumEmpty DEF AmountOf, SumFunction
  <2> QED BY <1>1, <1>3, <2>1, <2>2 DEF ChargedOnce, OncePerMonth, Charged
<1>5. DOMAIN payments = {} /\ Posted = {}
  BY DEF Init, Posted
<1>6. PaidIsPosted
  <2>1. \A n \in Number, p \in Portion : paid[n][p] = 0
    BY DEF Init
  <2>2. \A n \in Number, p \in Portion : PostedSum(LAMBDA x : x.lines[n][p]) = 0
    BY <1>5, SumEmpty DEF PostedSum, SumFunction
  <2> QED BY <2>1, <2>2 DEF PaidIsPosted
<1>7. Owes(penaltyDue, paid).total \in Nat \ {0} /\ Payoff(penaltyDue) = Owes(penaltyDue, paid).total
  <2> DEFINE f == [n \in Number |-> (penaltyDue[n] - paid[n].penalty) + (InterestDue[n] - paid[n].interest) + (PrincipalDue[n] - paid[n].principal)]
  <2>1. 1 \in Number /\ \A n \in Number : f[n] \in Nat \ {0}
    BY <1>0, <1>1, Dues
  <2>2. Owes(penaltyDue, paid).total = SumFunctionOnSet(f, Number)
    BY DEF Owes
  <2> HIDE DEF f
  <2>3. \A n \in Number : f[n] \in Nat
    BY <2>1
  <2>4. f[1] <= SumFunctionOnSet(f, Number) /\ SumFunctionOnSet(f, Number) \in Nat
    BY <1>0, <2>1, <2>3, SumBounds, SumNat
  <2> QED BY <2>1, <2>2, <2>4, PayoffIsOwed
<1>8. ClosedIsSettled
  BY <1>7 DEF Init, ClosedIsSettled
<1>9. ledger \in [Account -> Int] /\ Tie
  <2> DEFINE pri == [n \in Number |-> PrincipalDue[n] - paid[n].principal]
             pen == [n \in Number |-> penaltyDue[n] - paid[n].penalty]
             int == [n \in Number |-> paid[n].interest]
             all == SumFunction(PrincipalDue)
  <2>1. PrincipalDue = pri /\ all = SumFunctionOnSet(PrincipalDue, Number) /\ DOMAIN PrincipalDue = Number
    BY <1>0, <1>1, RepaymentAssumption DEF SumFunction
  <2>2. all = Owes(penaltyDue, paid).principal
    BY <2>1 DEF Owes
  <2>3. \A n \in Number : pen[n] = 0
    BY <1>1
  <2>4. \A n \in Number : int[n] = 0
    BY <1>1
  <2>5. Owes(penaltyDue, paid).penalty = SumFunctionOnSet(pen, Number) /\ Owes(penaltyDue, paid).interest = SumFunctionOnSet(int, Number)
    BY DEF Owes
  <2>6. all \in Int
    BY <1>0, <2>1, SumInt
  <2> HIDE DEF pri, pen, int, all
  <2>7. Owes(penaltyDue, paid).penalty = 0 /\ Owes(penaltyDue, paid).interest = 0
    BY <1>0, <2>3, <2>4, <2>5, SumZero
  <2>8. ledger = [NoEntry EXCEPT !["LOANS_RECEIVABLE"] = all]
    BY DEF Init, all
  <2>9. /\ ledger \in [Account -> Int] /\ ledger["LOANS_RECEIVABLE"] = all
        /\ ledger["PENALTIES_RECEIVABLE"] = 0 /\ ledger["INTEREST_INCOME"] = 0 /\ ledger["OVERPAYMENTS_PAYABLE"] = 0
        /\ ledger["CASH"] = 0 /\ ledger["GROUP_FUND"] = 0
    BY <2>6, <2>8 DEF NoEntry, Account
  <2>10. SumFunctionOnSet(Excess, Posted) = 0 /\ SumFunctionOnSet(Received, Posted) = 0 /\ SumFunctionOnSet(Used, Posted) = 0
    BY <1>5, SumEmpty
  <2>11. member.totalRepaid = 0 /\ member.activeLoans = 1 /\ status = "Active"
    BY DEF Init
  <2>12. ledger["INTEREST_INCOME"] = -Owes(penaltyDue, paid).interest /\ ledger["OVERPAYMENTS_PAYABLE"] = -SumFunctionOnSet(Excess, Posted)
    <3> DEFINE a == Owes(penaltyDue, paid).interest
               b == SumFunctionOnSet(Excess, Posted)
    <3>1. a \in Int /\ b \in Int /\ ledger["INTEREST_INCOME"] = 0 - a /\ ledger["OVERPAYMENTS_PAYABLE"] = 0 - b
      BY <2>7, <2>9, <2>10
    <3> HIDE DEF a, b
    <3>2. ledger["INTEREST_INCOME"] = -a /\ ledger["OVERPAYMENTS_PAYABLE"] = -b
      BY <3>1
    <3> QED BY <3>2 DEF a, b
  <2>13. ledger["CASH"] + ledger["GROUP_FUND"] = 0
    BY <2>9
  <2> QED BY <2>2, <2>7, <2>9, <2>10, <2>11, <2>12, <2>13 DEF Tie
<1> QED
  BY <1>2, <1>3, <1>4, <1>5, <1>6, <1>8, <1>9 DEF Books, Init

\* The sweep's check charges what is due, on the loan and in the books.
LEMMA CheckLoanBooks ==
    ASSUME IndInv, Books, NEW c \in Checker, CheckLoan(c) PROVE Books'
<1> DEFINE day == task[c].today
           plan == PenaltiesToCharge(day)
           total == AmountOf(plan)
           extra == [n \in Number |-> Charged(plan, n)]
<1>1. /\ ChargePenalties(day) /\ status = "Active" /\ UNCHANGED <<status, paid, payments, member>>
      /\ ledger' = Add(ledger, PenaltyEntry(total))
  BY DEF CheckLoan, PenaltiesEntry
<1>2. /\ Paid(penaltyDue', paid) /\ ChargesOk(charges') /\ ChargedOnce' /\ total \in Nat
      /\ \A n \in Number : Charged(plan, n) \in Nat /\ penaltyDue'[n] = penaltyDue[n] + Charged(plan, n)
      /\ SumFunctionOnSet(extra, Number) = total
  BY <1>1, Charging DEF Books
<1>3. \A n \in Number : extra[n] \in Nat /\ penaltyDue'[n] = penaltyDue[n] + extra[n]
  BY <1>2
<1> HIDE DEF plan, total, extra, day
<1>4. /\ Owes(penaltyDue', paid).penalty = Owes(penaltyDue, paid).penalty + total
      /\ Owes(penaltyDue', paid).total = Owes(penaltyDue, paid).total + total
      /\ Owes(penaltyDue', paid).principal = Owes(penaltyDue, paid).principal
      /\ Owes(penaltyDue', paid).interest = Owes(penaltyDue, paid).interest
  <2>1. Paid(penaltyDue, paid) /\ Paid(penaltyDue', paid)
    BY <1>2 DEF Books
  <2> QED BY <1>2, <1>3, <2>1, ChargeMoves
<1>5. Posted' = Posted /\ Excess' = Excess /\ Received' = Received /\ Used' = Used
  BY <1>1 DEF Posted, Excess, Received, Used
<1>6. PaidIsPosted'
  BY <1>1, <1>5 DEF Books, PaidIsPosted, PostedSum
<1>7. ClosedIsSettled'
  <2>1. Payoff(penaltyDue) = Owes(penaltyDue, paid).total /\ Payoff(penaltyDue') = Owes(penaltyDue', paid).total
    BY PayoffIsOwed
  <2>2. Payoff(penaltyDue)' = Payoff(penaltyDue')
    BY <1>1 DEF Payoff, Owed
  <2>3. Owes(penaltyDue, paid).total \in Nat /\ Owes(penaltyDue, paid).total # 0
    BY <1>1, <2>1, OwesNat DEF Books, ClosedIsSettled
  <2>4. Payoff(penaltyDue)' # 0
    BY <1>2, <1>4, <2>1, <2>2, <2>3
  <2> QED BY <1>1, <2>4 DEF ClosedIsSettled
<1>8. ledger' \in [Account -> Int] /\ Tie'
  <2>1. /\ ledger \in [Account -> Int]
        /\ PenaltyEntry(total) \in [Account -> Int]
        /\ PenaltyEntry(total)["PENALTIES_RECEIVABLE"] = total
        /\ \A a \in {"CASH", "GROUP_FUND", "LOANS_RECEIVABLE", "INTEREST_INCOME", "OVERPAYMENTS_PAYABLE"} :
             PenaltyEntry(total)[a] = 0
    BY <1>2, PenaltyEntryIs DEF Books
  <2>2. ledger' \in [Account -> Int] /\ \A a \in Account : ledger'[a] = ledger[a] + PenaltyEntry(total)[a]
    BY <1>1, <2>1 DEF Add
  <2>3. /\ ledger'["PENALTIES_RECEIVABLE"] = ledger["PENALTIES_RECEIVABLE"] + total
        /\ \A a \in {"CASH", "GROUP_FUND", "LOANS_RECEIVABLE", "INTEREST_INCOME", "OVERPAYMENTS_PAYABLE"} : ledger'[a] = ledger[a]
    BY <2>1, <2>2 DEF Account
  <2> QED BY <1>1, <1>4, <1>5, <2>2, <2>3 DEF Books, Tie
<1> QED
  BY <1>1, <1>2, <1>6, <1>7, <1>8 DEF Books

\* An allocation is a payment's lines, paid within what is due.
LEMMA Allocating ==
    ASSUME NEW due, Paid(due, paid), NEW amount \in Nat, NEW after, after = Apply(Allocation(due, amount))
    PROVE  LET lines == Allocation(due, amount)
           IN  /\ LinesOk(lines) /\ PaysLines(paid, lines, after) /\ Paid(due, after)
               /\ \A n \in Number, p \in Portion : after[n][p] = paid[n][p] + lines[n][p]
               /\ Total(Portions(lines)) = Lesser(amount, Owes(due, paid).total)
<1> DEFINE lines == Allocation(due, amount)
<1>1. \A n \in Number :
        /\ lines[n].penalty \in Nat /\ lines[n].interest \in Nat /\ lines[n].principal \in Nat
        /\ lines[n].penalty <= Owed(due, n).penalty
        /\ lines[n].interest <= Owed(due, n).interest
        /\ lines[n].principal <= Owed(due, n).principal
  BY AllocationWithin
<1>2. LinesOk(lines)
  BY <1>1 DEF LinesOk
<1>3. Total(Portions(lines)) = Lesser(amount, Owes(due, paid).total)
  <2>1. SumFunctionOnSet([n \in Number |-> Total(lines[n])], Number) = Lesser(amount, Payoff(due))
    BY AllocationSum
  <2>2. Total(Portions(lines)) = SumFunctionOnSet([n \in Number |-> Total(lines[n])], Number)
    <3> HIDE DEF lines
    <3> QED BY <1>2, PortionsSum DEF LinesOk
  <2> QED BY <2>1, <2>2, PayoffIsOwed
<1> HIDE DEF lines
<1>4. after = [n \in Number |-> [p \in Portion |-> paid[n][p] + lines[n][p]]]
  BY DEF Apply, lines
<1>5. \A n \in Number, p \in Portion : after[n][p] = paid[n][p] + lines[n][p]
  BY <1>4
<1>6. PaysLines(paid, lines, after)
  BY <1>5 DEF PaysLines, Portion
<1>7. Paid(due, after)
  <2>1. ASSUME NEW n \in Number
        PROVE  after[n].penalty <= due[n] /\ after[n].interest <= InterestDue[n] /\ after[n].principal <= PrincipalDue[n]
    <3>1. /\ due[n] \in Nat /\ InterestDue[n] \in Nat /\ PrincipalDue[n] \in Nat
          /\ paid[n].penalty \in Nat /\ paid[n].interest \in Nat /\ paid[n].principal \in Nat
      BY SomeInt
    <3>2. /\ lines[n].penalty \in Nat /\ lines[n].interest \in Nat /\ lines[n].principal \in Nat
          /\ lines[n].penalty <= due[n] - paid[n].penalty
          /\ lines[n].interest <= InterestDue[n] - paid[n].interest
          /\ lines[n].principal <= PrincipalDue[n] - paid[n].principal
      BY <1>1 DEF Owed
    <3> QED BY <1>6, <3>1, <3>2 DEF PaysLines
  <2>2. \A n \in Number, p \in Portion : paid[n][p] \in Nat /\ lines[n][p] \in Nat
    BY <1>2, LineByPortion DEF Paid
  <2>3. after \in [Number -> [Portion -> Nat]]
    BY <1>4, <2>2
  <2> QED BY <2>1, <2>3 DEF Paid
<1> QED
  BY <1>2, <1>3, <1>5, <1>6, <1>7 DEF lines

\* A posting: penalties are charged, the payment is allotted, entered and kept.
LEMMA PostTxBooks ==
    ASSUME IndInv, Books, Amounts, NEW s \in Staff, PostTx(s) PROVE Books'
<1> DEFINE t == task[s]
           plan == PenaltiesToCharge(t.today)
           total == AmountOf(plan)
           extra == [n \in Number |-> Charged(plan, n)]
           lines == Allocation(penaltyDue', t.amount)
           split == Portions(lines)
           x == [key |-> t.key, method |-> t.method, amount |-> t.amount,
                 excess |-> t.amount - Total(split), lines |-> lines,
                 status |-> "POSTED", by |-> s, at |-> t.at]
           k == Len(payments) + 1
           before == Owes(penaltyDue, paid)
           charged == Owes(penaltyDue', paid)
           after == Owes(penaltyDue', paid')
<1>1. t \in PostTask /\ t.op = "post" /\ s \in Worker /\ t.amount \in Amount \cup Claim
  BY IdleIsNoPost DEF PostTx, IndInv, Shape, OverdueTask, Worker, Amounts
<1>2. t.amount \in Nat \ {0} /\ t.amount \in Nat
  BY <1>1, RepaymentAssumption
<1>3. /\ status = "Active" /\ ChargePenalties(t.today) /\ paid' = Apply(lines)
      /\ payments' = Append(payments, x)
      /\ ledger' = Add(Add(ledger, PenaltyEntry(total)), PaymentEntry(x))
      /\ status' = IF Settles(split) THEN "Closed" ELSE "Active"
      /\ member' = [totalRepaid |-> member.totalRepaid + Total(split),
                    activeLoans |-> member.activeLoans - (IF Settles(split) THEN 1 ELSE 0)]
  BY DEF PostTx, Postable, PenaltiesEntry
<1>4. /\ x.key = t.key /\ x.method = t.method /\ x.by = s /\ x.amount = t.amount /\ x.status = "POSTED"
      /\ x.lines = lines /\ x.excess = t.amount - Total(split)
  OBVIOUS
<1>5. /\ Paid(penaltyDue', paid) /\ ChargesOk(charges') /\ ChargedOnce' /\ total \in Nat
      /\ \A n \in Number : Charged(plan, n) \in Nat /\ penaltyDue'[n] = penaltyDue[n] + Charged(plan, n)
      /\ SumFunctionOnSet(extra, Number) = total
  BY <1>3, Charging DEF Books
<1>6. \A n \in Number : extra[n] \in Nat /\ penaltyDue'[n] = penaltyDue[n] + extra[n]
  BY <1>5
<1>7. Paid(penaltyDue, paid)
  BY DEF Books
<1>8. /\ LinesOk(lines) /\ PaysLines(paid, lines, paid') /\ Paid(penaltyDue', paid')
      /\ \A n \in Number, p \in Portion : paid'[n][p] = paid[n][p] + lines[n][p]
      /\ Total(split) = Lesser(t.amount, charged.total)
  BY <1>2, <1>3, <1>5, Allocating
<1>b. lines \in [Number -> [penalty : Nat, interest : Nat, principal : Nat]]
  <2>1. \A n \in Number : lines[n].penalty \in Nat /\ lines[n].interest \in Nat /\ lines[n].principal \in Nat
    BY <1>8 DEF LinesOk
  <2> QED BY <2>1 DEF Allocation
<1> HIDE DEF plan, total, extra, lines
<1>9. /\ charged.penalty = before.penalty + total /\ charged.total = before.total + total
      /\ charged.principal = before.principal /\ charged.interest = before.interest
  BY <1>5, <1>6, <1>7, ChargeMoves
<1>10. /\ after.penalty = charged.penalty - split.penalty
       /\ after.interest = charged.interest + split.interest
       /\ after.principal = charged.principal - split.principal
       /\ after.total = charged.total - Total(split)
  BY <1>5, <1>8, PayMoves
<1>11. split.penalty \in Nat /\ split.interest \in Nat /\ split.principal \in Nat
  BY <1>8, PortionsSum DEF LinesOk
<1> HIDE DEF split, x, t, before, charged, after
<1>12. /\ before.total \in Nat \ {0} /\ charged.total \in Nat \ {0} /\ after.total \in Nat
       /\ Payoff(penaltyDue') = charged.total /\ Payoff(penaltyDue)' = after.total
  <2>1. Payoff(penaltyDue) = before.total /\ Payoff(penaltyDue') = charged.total
    BY PayoffIsOwed DEF before, charged
  <2>2. Payoff(penaltyDue)' = after.total
    <3>1. (Payoff(penaltyDue) = Owes(penaltyDue, paid).total)'
      BY PayoffNow, PTL
    <3> QED BY <3>1 DEF after
  <2>3. before.total \in Nat /\ before.total # 0
    BY <1>3, <1>7, <2>1, OwesNat DEF Books, ClosedIsSettled, before
  <2>4. after.total \in Nat
    BY <1>8, OwesNat DEF after
  <2> QED BY <1>5, <1>9, <2>1, <2>2, <2>3, <2>4
<1>13. Total(split) \in Nat \ {0} /\ Total(split) <= t.amount
  <2> DEFINE y == charged.total
  <2>1. y \in Nat \ {0} /\ Total(split) = Lesser(t.amount, y)
    BY <1>8, <1>12
  <2> HIDE DEF y
  <2> QED BY <1>2, <2>1 DEF Lesser
<1>14. PaymentOk(x)
  <2>1. x.excess \in Nat /\ x.excess < x.amount /\ Total(Portions(x.lines)) = x.amount - x.excess
    BY <1>2, <1>4, <1>13 DEF split
  <2>2. x = [key |-> t.key, method |-> t.method, amount |-> t.amount, excess |-> t.amount - Total(split),
             lines |-> lines, status |-> "POSTED", by |-> s, at |-> t.at]
    BY DEF x
  <2>3. t.amount - Total(split) \in Nat
    BY <1>4, <2>1
  <2>4. x \in PaymentRow
    BY <1>1, <1>b, <2>2, <2>3 DEF PostTask, PaymentRow
  <2> QED BY <2>1, <2>4 DEF PaymentOk
<1>15. /\ DOMAIN payments' = DOMAIN payments \cup {k} /\ (\A i \in DOMAIN payments : payments'[i] = payments[i])
       /\ payments'[k] = x /\ Posted' = Posted \cup {k} /\ k \notin Posted
       /\ IsFiniteSet(Posted) /\ Posted \subseteq DOMAIN payments
  BY <1>3, <1>4, PostedGrows, PostedFinite DEF IndInv
<1>16. \A i \in DOMAIN payments' : PaymentOk(payments'[i])
  BY <1>14, <1>15 DEF Books
<1> HIDE DEF k
<1>17. \A i \in Posted : PaymentOk(payments[i]) /\ payments'[i] = payments[i]
  BY <1>15 DEF Books
<1>a. IsFiniteSet(Posted) /\ k \notin Posted
  BY <1>15
<1>18. PaidIsPosted'
  <2> SUFFICES ASSUME NEW n \in Number, NEW p \in Portion
               PROVE  paid'[n][p] = SumFunctionOnSet(Line(n, p)', Posted')
    BY DEF PaidIsPosted, PostedSum, SumFunction, Line
  <2> DEFINE v == Line(n, p)
             w == Line(n, p)'
  <2>1. paid[n][p] = SumFunctionOnSet(v, Posted)
    BY DEF Books, PaidIsPosted, PostedSum, SumFunction, Line
  <2>2. \A i \in Posted : v[i] \in Int /\ w[i] = v[i]
    BY <1>15, <1>17, PaymentFacts, LineByPortion DEF Line
  <2>3. w[k] = lines[n][p] /\ lines[n][p] \in Int
    BY <1>4, <1>8, <1>15, LineByPortion DEF Line
  <2> HIDE DEF v, w
  <2>4. SumFunctionOnSet(w, Posted \cup {k}) = SumFunctionOnSet(v, Posted) + w[k]
    <3>1. w[k] \in Int
      BY <2>3
    <3> QED BY <1>a, <2>2, <3>1, SumGrows
  <2> QED BY <1>8, <1>15, <2>1, <2>3, <2>4 DEF w
<1>19. /\ SumFunctionOnSet(Excess', Posted') = SumFunctionOnSet(Excess, Posted) + x.excess
       /\ SumFunctionOnSet(Received', Posted') = SumFunctionOnSet(Received, Posted) + x.amount
       /\ SumFunctionOnSet(Used', Posted') = SumFunctionOnSet(Used, Posted) + Total(split)
  <2>1. \A i \in Posted : payments[i].excess \in Nat /\ payments[i].amount \in Nat
    BY <1>17, PaymentFacts
  <2>2. x.excess \in Nat /\ x.amount \in Nat /\ x.amount - x.excess = Total(split)
    BY <1>2, <1>4, <1>13
  <2>3. /\ \A i \in Posted : Excess[i] \in Int /\ Excess'[i] = Excess[i]
        /\ Excess'[k] = x.excess /\ Excess'[k] \in Int
    BY <1>15, <1>17, <2>1, <2>2 DEF Excess
  <2>4. /\ \A i \in Posted : Received[i] \in Int /\ Received'[i] = Received[i]
        /\ Received'[k] = x.amount /\ Received'[k] \in Int
    BY <1>15, <1>17, <2>1, <2>2 DEF Received
  <2>5. /\ \A i \in Posted : Used[i] \in Int /\ Used'[i] = Used[i]
        /\ Used'[k] = Total(split) /\ Used'[k] \in Int
    BY <1>13, <1>15, <1>17, <2>1, <2>2 DEF Used
  <2>6. SumFunctionOnSet(Excess', Posted \cup {k}) = SumFunctionOnSet(Excess, Posted) + Excess'[k]
    <3> DEFINE v == Excess
               w == Excess'
    <3>1. \A i \in Posted : v[i] \in Int /\ w[i] = v[i]
      BY <2>3
    <3>2. w[k] \in Int
      BY <2>3
    <3> HIDE DEF v, w
    <3>3. SumFunctionOnSet(w, Posted \cup {k}) = SumFunctionOnSet(v, Posted) + w[k]
      BY <1>a, <3>1, <3>2, SumGrows
    <3> QED BY <3>3 DEF v, w
  <2>7. SumFunctionOnSet(Received', Posted \cup {k}) = SumFunctionOnSet(Received, Posted) + Received'[k]
    <3> DEFINE v == Received
               w == Received'
    <3>1. \A i \in Posted : v[i] \in Int /\ w[i] = v[i]
      BY <2>4
    <3>2. w[k] \in Int
      BY <2>4
    <3> HIDE DEF v, w
    <3>3. SumFunctionOnSet(w, Posted \cup {k}) = SumFunctionOnSet(v, Posted) + w[k]
      BY <1>a, <3>1, <3>2, SumGrows
    <3> QED BY <3>3 DEF v, w
  <2>8. SumFunctionOnSet(Used', Posted \cup {k}) = SumFunctionOnSet(Used, Posted) + Used'[k]
    <3> DEFINE v == Used
               w == Used'
    <3>1. \A i \in Posted : v[i] \in Int /\ w[i] = v[i]
      BY <2>5
    <3>2. w[k] \in Int
      BY <2>5
    <3> HIDE DEF v, w
    <3>3. SumFunctionOnSet(w, Posted \cup {k}) = SumFunctionOnSet(v, Posted) + w[k]
      BY <1>a, <3>1, <3>2, SumGrows
    <3> QED BY <3>3 DEF v, w
  <2> QED BY <1>15, <2>3, <2>4, <2>5, <2>6, <2>7, <2>8
<1>20. Settles(split) <=> after.total = 0
  BY <1>10, <1>12, <1>13 DEF Settles
<1>21. ClosedIsSettled' /\ status' \in {"Active", "Closed"}
  BY <1>3, <1>12, <1>20 DEF ClosedIsSettled
<1>22. ledger' \in [Account -> Int] /\ Tie'
  <2> DEFINE e == PenaltyEntry(total)
             g == PaymentEntry(x)
  <2>1. ledger \in [Account -> Int] /\ Tie
    BY DEF Books
  <2>2. /\ e \in [Account -> Int] /\ e["PENALTIES_RECEIVABLE"] = total
        /\ \A a \in {"CASH", "GROUP_FUND", "LOANS_RECEIVABLE", "INTEREST_INCOME", "OVERPAYMENTS_PAYABLE"} : e[a] = 0
    BY <1>5, PenaltyEntryIs
  <2>3. x.amount \in Int /\ x.excess \in Int /\ Portions(x.lines) = split
    BY <1>2, <1>4, <1>13 DEF split
  <2>4. /\ g \in [Account -> Int]
        /\ g["PENALTIES_RECEIVABLE"] = -split.penalty
        /\ g["INTEREST_INCOME"] = -split.interest
        /\ g["LOANS_RECEIVABLE"] = -split.principal
        /\ g["OVERPAYMENTS_PAYABLE"] = -x.excess
        /\ g["CASH"] + g["GROUP_FUND"] = x.amount
    BY <1>11, <2>3, PaymentEntryIs
  <2> HIDE DEF e, g
  <2>5. ledger' \in [Account -> Int] /\ \A a \in Account : ledger'[a] = ledger[a] + e[a] + g[a]
    BY <1>3, <2>1, <2>2, <2>4 DEF Add, e, g
  <2>6. ledger'["LOANS_RECEIVABLE"] = after.principal
    <3>1. ledger'["LOANS_RECEIVABLE"] = ledger["LOANS_RECEIVABLE"] + 0 + g["LOANS_RECEIVABLE"]
      BY <2>2, <2>5 DEF Account
    <3>2. ledger["LOANS_RECEIVABLE"] = before.principal /\ ledger["LOANS_RECEIVABLE"] \in Int
      BY <2>1 DEF Tie, before, Account
    <3> QED BY <1>9, <1>10, <1>11, <2>4, <3>1, <3>2
  <2>7. ledger'["PENALTIES_RECEIVABLE"] = after.penalty
    <3>1. ledger'["PENALTIES_RECEIVABLE"] = ledger["PENALTIES_RECEIVABLE"] + total + g["PENALTIES_RECEIVABLE"]
      BY <2>2, <2>5 DEF Account
    <3>2. ledger["PENALTIES_RECEIVABLE"] = before.penalty /\ ledger["PENALTIES_RECEIVABLE"] \in Int
      BY <2>1 DEF Tie, before, Account
    <3> QED BY <1>5, <1>9, <1>10, <1>11, <2>4, <3>1, <3>2
  <2>8. ledger'["INTEREST_INCOME"] = -after.interest
    <3>1. ledger'["INTEREST_INCOME"] = ledger["INTEREST_INCOME"] + 0 + g["INTEREST_INCOME"]
      BY <2>2, <2>5 DEF Account
    <3>2. ledger["INTEREST_INCOME"] = -before.interest
      BY <2>1 DEF Tie, before
    <3>3. before.interest \in Int
      BY <1>7, OwesInt DEF before
    <3> QED BY <1>9, <1>10, <1>11, <2>4, <3>1, <3>2, <3>3
  <2>9. ledger'["OVERPAYMENTS_PAYABLE"] = -SumFunctionOnSet(Excess', Posted')
    <3> DEFINE y == SumFunctionOnSet(Excess, Posted)
    <3>1. ledger'["OVERPAYMENTS_PAYABLE"] = ledger["OVERPAYMENTS_PAYABLE"] + 0 + g["OVERPAYMENTS_PAYABLE"]
      BY <2>2, <2>5 DEF Account
    <3>2. ledger["OVERPAYMENTS_PAYABLE"] = -y
      BY <2>1 DEF Tie
    <3>3. y \in Int
      <4>1. \A i \in Posted : Excess[i] \in Int
        BY <1>17, PaymentFacts DEF Excess
      <4> QED BY <1>a, <4>1, SumInt
    <3> HIDE DEF y
    <3>4. SumFunctionOnSet(Excess', Posted') = y + x.excess
      BY <1>19 DEF y
    <3> QED BY <2>3, <2>4, <3>1, <3>2, <3>3, <3>4
  <2>10. ledger'["CASH"] + ledger'["GROUP_FUND"] = SumFunctionOnSet(Received', Posted')
    <3>1. ledger'["CASH"] = ledger["CASH"] + 0 + g["CASH"] /\ ledger'["GROUP_FUND"] = ledger["GROUP_FUND"] + 0 + g["GROUP_FUND"]
      BY <2>2, <2>5 DEF Account
    <3>2. /\ ledger["CASH"] \in Int /\ ledger["GROUP_FUND"] \in Int /\ g["CASH"] \in Int /\ g["GROUP_FUND"] \in Int
          /\ ledger["CASH"] + ledger["GROUP_FUND"] = SumFunctionOnSet(Received, Posted)
      BY <2>1, <2>4 DEF Tie, Account
    <3>3. ledger'["CASH"] + ledger'["GROUP_FUND"] = (ledger["CASH"] + ledger["GROUP_FUND"]) + (g["CASH"] + g["GROUP_FUND"])
      BY <3>1, <3>2
    <3> QED BY <1>19, <2>4, <3>2, <3>3
  <2>11. /\ member'.totalRepaid = SumFunctionOnSet(Used', Posted')
         /\ member'.activeLoans = IF status' = "Active" THEN 1 ELSE 0
    BY <1>3, <1>19, <2>1 DEF Tie
  <2> QED BY <2>5, <2>6, <2>7, <2>8, <2>9, <2>10, <2>11 DEF Tie, after
<1> QED
  BY <1>5, <1>8, <1>16, <1>18, <1>21, <1>22 DEF Books

\* A natural number is its own maximum with 0.
LEMMA MaxWithZero == ASSUME NEW a \in Nat PROVE Max({a, 0}) = a
  BY DEF Max

\* A reversal takes off the lines the payment put on and enters its opposite.
LEMMA ReversePaymentBooks ==
    ASSUME IndInv, Books, NEW s \in Staff, NEW k \in DOMAIN payments, ReversePayment(s, k) PROVE Books'
<1> DEFINE x == payments[k]
           lines == x.lines
           split == Portions(lines)
           used == x.amount - x.excess
           before == Owes(penaltyDue, paid)
           after == Owes(penaltyDue, paid')
<1>1. /\ paid' = Unapply(lines)
      /\ payments' = [payments EXCEPT ![k].status = "REVERSED"]
      /\ ledger' = Add(ledger, Mirror(PaymentEntry(x)))
      /\ status' = "Active"
      /\ member' = [totalRepaid |-> Max({member.totalRepaid - used, 0}),
                    activeLoans |-> IF status = "Closed" THEN member.activeLoans + 1 ELSE member.activeLoans]
      /\ UNCHANGED <<penaltyDue, charges>>
  BY DEF ReversePayment
<1>2. k \in Posted
  BY DEF ReversePayment, Reversible, Posted
<1>3. PaymentOk(x)
  BY DEF Books
<1>4. /\ LinesOk(lines) /\ x.amount \in Nat /\ x.excess \in Nat /\ used \in Nat \ {0} /\ Total(split) = used
      /\ split.penalty \in Nat /\ split.interest \in Nat /\ split.principal \in Nat
  <2>1. LinesOk(lines) /\ x.amount \in Nat /\ x.excess \in Nat /\ used \in Nat \ {0} /\ Total(split) = used
    BY <1>3, PaymentFacts
  <2> QED BY <2>1, PortionsSum DEF LinesOk
<1>5. IsFiniteSet(Posted) /\ Posted \subseteq DOMAIN payments
  BY PostedFinite DEF IndInv
<1>6. \A i \in Posted : PaymentOk(payments[i])
  BY <1>5 DEF Books
<1>7. /\ DOMAIN payments' = DOMAIN payments
      /\ \A i \in DOMAIN payments \ {k} : payments'[i] = payments[i]
      /\ payments'[k] = [x EXCEPT !.status = "REVERSED"]
  BY <1>1
<1>8. PaymentOk(payments'[k]) /\ payments'[k].status = "REVERSED"
  BY <1>3, <1>7 DEF PaymentOk, PaymentRow
<1>9. \A i \in DOMAIN payments' : PaymentOk(payments'[i])
  BY <1>7, <1>8 DEF Books
<1>10. Posted' = Posted \ {k} /\ \A i \in Posted \ {k} : payments'[i] = payments[i]
  BY <1>5, <1>7, <1>8 DEF Posted
<1>11. Paid(penaltyDue, paid) /\ \A n \in Number, p \in Portion : paid[n][p] \in Nat /\ lines[n][p] \in Nat
  BY <1>4, LineByPortion DEF Books, Paid
<1> HIDE DEF x, lines, used, split
<1>12. \A n \in Number, p \in Portion : paid'[n][p] = paid[n][p] - lines[n][p]
  BY <1>1 DEF Unapply
<1>13. \A n \in Number, p \in Portion :
         LET v == Line(n, p)
             w == Line(n, p)'
         IN  /\ \A i \in Posted : v[i] \in Nat
             /\ v[k] = lines[n][p]
             /\ paid[n][p] = SumFunctionOnSet(v, Posted)
             /\ SumFunctionOnSet(w, Posted') = paid[n][p] - lines[n][p]
             /\ lines[n][p] <= paid[n][p]
  <2> TAKE n \in Number, p \in Portion
  <2> DEFINE v == Line(n, p)
             w == Line(n, p)'
  <2>1. \A i \in Posted : v[i] \in Nat
    BY <1>6, PaymentFacts, LineByPortion DEF Line
  <2>2. v[k] = lines[n][p]
    BY <1>2 DEF Line, lines, x
  <2>3. paid[n][p] = SumFunctionOnSet(v, Posted)
    BY DEF Books, PaidIsPosted, PostedSum, SumFunction, Line
  <2>4. \A i \in Posted \ {k} : w[i] = v[i]
    BY <1>10 DEF Line
  <2> HIDE DEF v, w
  <2>5. SumFunctionOnSet(w, Posted \ {k}) = SumFunctionOnSet(v, Posted) - v[k]
    <3>1. \A i \in Posted : v[i] \in Int
      BY <2>1
    <3> QED BY <1>2, <1>5, <2>4, <3>1, SumShrinks
  <2>6. v[k] <= SumFunctionOnSet(v, Posted)
    BY <1>2, <1>5, <2>1, SumBounds
  <2> QED BY <1>10, <2>1, <2>2, <2>3, <2>5, <2>6 DEF v, w
<1>14. PaidIsPosted'
  <2> SUFFICES ASSUME NEW n \in Number, NEW p \in Portion
               PROVE  paid'[n][p] = SumFunctionOnSet(Line(n, p)', Posted')
    BY DEF PaidIsPosted, PostedSum, SumFunction, Line
  <2> QED BY <1>12, <1>13
<1>15. Paid(penaltyDue, paid')
  <2>1. \A n \in Number, p \in Portion : paid'[n][p] \in Nat /\ paid'[n][p] <= paid[n][p]
    BY <1>11, <1>12, <1>13
  <2>2. paid' \in [Number -> [Portion -> Nat]]
    BY <1>1, <1>12, <2>1 DEF Unapply
  <2>3. ASSUME NEW n \in Number
        PROVE  paid'[n].penalty <= penaltyDue[n] /\ paid'[n].interest <= InterestDue[n] /\ paid'[n].principal <= PrincipalDue[n]
    <3>1. /\ penaltyDue[n] \in Nat /\ InterestDue[n] \in Nat /\ PrincipalDue[n] \in Nat
          /\ paid[n].penalty \in Nat /\ paid[n].interest \in Nat /\ paid[n].principal \in Nat
          /\ paid[n].penalty <= penaltyDue[n] /\ paid[n].interest <= InterestDue[n] /\ paid[n].principal <= PrincipalDue[n]
      BY <1>11, SomeInt
    <3>2. /\ paid'[n].penalty \in Nat /\ paid'[n].interest \in Nat /\ paid'[n].principal \in Nat
          /\ paid'[n].penalty <= paid[n].penalty /\ paid'[n].interest <= paid[n].interest /\ paid'[n].principal <= paid[n].principal
      BY <2>1 DEF Portion
    <3> QED BY <3>1, <3>2
  <2> QED BY <1>11, <2>2, <2>3 DEF Paid
<1>16. PaysLines(paid', lines, paid)
  <2>1. \A n \in Number, p \in Portion : paid[n][p] = paid'[n][p] + lines[n][p]
    BY <1>11, <1>12
  <2> QED BY <2>1 DEF PaysLines, Portion
<1>17. /\ before.penalty = after.penalty - split.penalty
       /\ before.interest = after.interest + split.interest
       /\ before.principal = after.principal - split.principal
       /\ before.total = after.total - Total(split)
  BY <1>4, <1>11, <1>15, <1>16, PayMoves DEF split
<1>18. /\ after.penalty \in Int /\ after.interest \in Int /\ after.principal \in Int
       /\ after.total \in Nat /\ before.total \in Nat
  BY <1>11, <1>15, OwesNat, OwesInt
<1> HIDE DEF before, after
<1>19. ClosedIsSettled' /\ status' \in {"Active", "Closed"}
  <2>1. (Payoff(penaltyDue) = Owes(penaltyDue, paid).total)'
    BY PayoffNow, PTL
  <2>2. Payoff(penaltyDue)' = after.total
    BY <1>1, <2>1 DEF after
  <2>3. after.total # 0
    BY <1>4, <1>17, <1>18
  <2> QED BY <1>1, <2>2, <2>3 DEF ClosedIsSettled
<1>20. /\ SumFunctionOnSet(Excess', Posted') = SumFunctionOnSet(Excess, Posted) - x.excess
       /\ SumFunctionOnSet(Received', Posted') = SumFunctionOnSet(Received, Posted) - x.amount
       /\ SumFunctionOnSet(Used', Posted') = SumFunctionOnSet(Used, Posted) - used
       /\ SumFunctionOnSet(Excess, Posted) \in Int /\ SumFunctionOnSet(Received, Posted) \in Int
       /\ SumFunctionOnSet(Used, Posted) \in Int /\ used <= SumFunctionOnSet(Used, Posted)
  <2>1. \A i \in Posted : payments[i].excess \in Nat /\ payments[i].amount \in Nat /\ payments[i].amount - payments[i].excess \in Nat
    BY <1>6, PaymentFacts
  <2>2. SumFunctionOnSet(Excess', Posted \ {k}) = SumFunctionOnSet(Excess, Posted) - x.excess /\ SumFunctionOnSet(Excess, Posted) \in Int
    <3> DEFINE v == Excess
               w == Excess'
    <3>1. (\A i \in Posted : v[i] \in Int) /\ (\A i \in Posted \ {k} : w[i] = v[i]) /\ v[k] = x.excess
      BY <1>2, <1>10, <2>1 DEF Excess, x
    <3> HIDE DEF v, w
    <3>2. SumFunctionOnSet(w, Posted \ {k}) = SumFunctionOnSet(v, Posted) - v[k]
      BY <1>2, <1>5, <3>1, SumShrinks
    <3>3. SumFunctionOnSet(v, Posted) \in Int
      BY <1>5, <3>1, SumInt
    <3> QED BY <3>1, <3>2, <3>3 DEF v, w
  <2>3. SumFunctionOnSet(Received', Posted \ {k}) = SumFunctionOnSet(Received, Posted) - x.amount /\ SumFunctionOnSet(Received, Posted) \in Int
    <3> DEFINE v == Received
               w == Received'
    <3>1. (\A i \in Posted : v[i] \in Int) /\ (\A i \in Posted \ {k} : w[i] = v[i]) /\ v[k] = x.amount
      BY <1>2, <1>10, <2>1 DEF Received, x
    <3> HIDE DEF v, w
    <3>2. SumFunctionOnSet(w, Posted \ {k}) = SumFunctionOnSet(v, Posted) - v[k]
      BY <1>2, <1>5, <3>1, SumShrinks
    <3>3. SumFunctionOnSet(v, Posted) \in Int
      BY <1>5, <3>1, SumInt
    <3> QED BY <3>1, <3>2, <3>3 DEF v, w
  <2>4. /\ SumFunctionOnSet(Used', Posted \ {k}) = SumFunctionOnSet(Used, Posted) - used
        /\ SumFunctionOnSet(Used, Posted) \in Int /\ used <= SumFunctionOnSet(Used, Posted)
    <3> DEFINE v == Used
               w == Used'
    <3>0. \A i \in Posted : v[i] \in Nat
      BY <2>1 DEF Used
    <3>1. (\A i \in Posted : v[i] \in Int) /\ (\A i \in Posted \ {k} : w[i] = v[i]) /\ v[k] = used
      BY <1>2, <1>10, <2>1 DEF Used, used, x
    <3> HIDE DEF v, w
    <3>2. SumFunctionOnSet(w, Posted \ {k}) = SumFunctionOnSet(v, Posted) - v[k]
      BY <1>2, <1>5, <3>1, SumShrinks
    <3>3. SumFunctionOnSet(v, Posted) \in Int
      BY <1>5, <3>1, SumInt
    <3>4. v[k] <= SumFunctionOnSet(v, Posted)
      BY <1>2, <1>5, <3>0, SumBounds
    <3> QED BY <3>1, <3>2, <3>3, <3>4 DEF v, w
  <2> QED BY <1>10, <2>2, <2>3, <2>4
<1>21. ledger' \in [Account -> Int] /\ Tie'
  <2> DEFINE g == PaymentEntry(x)
  <2>1. ledger \in [Account -> Int] /\ Tie
    BY DEF Books
  <2>2. Portions(x.lines) = split
    BY DEF split, lines
  <2>3. /\ g \in [Account -> Int]
        /\ g["PENALTIES_RECEIVABLE"] = -split.penalty
        /\ g["INTEREST_INCOME"] = -split.interest
        /\ g["LOANS_RECEIVABLE"] = -split.principal
        /\ g["OVERPAYMENTS_PAYABLE"] = -x.excess
        /\ g["CASH"] + g["GROUP_FUND"] = x.amount
    <3>1. x.amount \in Int /\ x.excess \in Int
      BY <1>4
    <3> QED BY <1>4, <2>2, <3>1, PaymentEntryIs
  <2> HIDE DEF g
  <2>4. ledger' \in [Account -> Int] /\ \A a \in Account : ledger'[a] = ledger[a] - g[a]
    BY <1>1, <2>1, <2>3 DEF Add, Mirror, g
  <2>5. /\ ledger'["LOANS_RECEIVABLE"] = after.principal
        /\ ledger'["PENALTIES_RECEIVABLE"] = after.penalty
    <3>1. /\ ledger["LOANS_RECEIVABLE"] = before.principal /\ ledger["PENALTIES_RECEIVABLE"] = before.penalty
          /\ ledger'["LOANS_RECEIVABLE"] = ledger["LOANS_RECEIVABLE"] - g["LOANS_RECEIVABLE"]
          /\ ledger'["PENALTIES_RECEIVABLE"] = ledger["PENALTIES_RECEIVABLE"] - g["PENALTIES_RECEIVABLE"]
      BY <2>1, <2>4 DEF Tie, before, Account
    <3> QED BY <1>4, <1>17, <1>18, <2>3, <3>1
  <2>6. ledger'["INTEREST_INCOME"] = -after.interest
    <3>1. ledger["INTEREST_INCOME"] = -before.interest /\ ledger'["INTEREST_INCOME"] = ledger["INTEREST_INCOME"] - g["INTEREST_INCOME"]
      BY <2>1, <2>4 DEF Tie, before, Account
    <3> QED BY <1>4, <1>17, <1>18, <2>3, <3>1
  <2>7. ledger'["OVERPAYMENTS_PAYABLE"] = -SumFunctionOnSet(Excess', Posted')
    <3> DEFINE y == SumFunctionOnSet(Excess, Posted)
    <3>1. ledger["OVERPAYMENTS_PAYABLE"] = -y /\ ledger'["OVERPAYMENTS_PAYABLE"] = ledger["OVERPAYMENTS_PAYABLE"] - g["OVERPAYMENTS_PAYABLE"]
      BY <2>1, <2>4 DEF Tie, Account
    <3>2. y \in Int /\ SumFunctionOnSet(Excess', Posted') = y - x.excess
      BY <1>20
    <3> HIDE DEF y
    <3> QED BY <1>4, <2>3, <3>1, <3>2
  <2>8. ledger'["CASH"] + ledger'["GROUP_FUND"] = SumFunctionOnSet(Received', Posted')
    <3>1. ledger'["CASH"] = ledger["CASH"] - g["CASH"] /\ ledger'["GROUP_FUND"] = ledger["GROUP_FUND"] - g["GROUP_FUND"]
      BY <2>4 DEF Account
    <3>2. /\ ledger["CASH"] \in Int /\ ledger["GROUP_FUND"] \in Int /\ g["CASH"] \in Int /\ g["GROUP_FUND"] \in Int
          /\ ledger["CASH"] + ledger["GROUP_FUND"] = SumFunctionOnSet(Received, Posted)
      BY <2>1, <2>3 DEF Tie, Account
    <3>3. ledger'["CASH"] + ledger'["GROUP_FUND"] = (ledger["CASH"] + ledger["GROUP_FUND"]) - (g["CASH"] + g["GROUP_FUND"])
      BY <3>1, <3>2
    <3> QED BY <1>20, <2>3, <3>2, <3>3
  <2>9. member'.totalRepaid = SumFunctionOnSet(Used', Posted')
    <3>1. member.totalRepaid = SumFunctionOnSet(Used, Posted) /\ member'.totalRepaid = Max({member.totalRepaid - used, 0})
      BY <1>1, <2>1 DEF Tie
    <3>2. member.totalRepaid - used \in Nat
      BY <1>4, <1>20, <3>1
    <3> QED BY <1>20, <3>1, <3>2, MaxWithZero
  <2>10. member'.activeLoans = IF status' = "Active" THEN 1 ELSE 0
    BY <1>1, <2>1 DEF Tie, Books
  <2>11. Owes(penaltyDue', paid') = after
    BY <1>1 DEF after
  <2> QED BY <2>4, <2>5, <2>6, <2>7, <2>8, <2>9, <2>10, <2>11 DEF Tie
<1>22. ChargesOk(charges') /\ ChargedOnce' /\ Paid(penaltyDue', paid')
  BY <1>1, <1>15 DEF Books, ChargedOnce, OncePerMonth
<1> QED
  BY <1>9, <1>14, <1>19, <1>21, <1>22 DEF Books

\* A step that touches none of the tables leaves the books.
LEMMA QuietBooks == ASSUME Books, UNCHANGED books PROVE Books'
  BY DEF Books, books, schedule, PaidIsPosted, PostedSum, Tie, Excess, Received, Used, Posted, ClosedIsSettled,
         Payoff, Owed, ChargedOnce, OncePerMonth

-------------------------------------------------------------------------------
(* Amounts *)

\* Every amount a teller is posting is positive, as are the proofs' amounts.
LEMMA AmountsStep ==
    ASSUME IndInv, Amounts, [Next]_vars PROVE Amounts'
<1>0. task \in [Worker -> {Idle} \cup PostTask \cup OverdueTask] /\ proofs \in [Proof -> ProofRow]
  BY DEF IndInv, Shape
<1>1. ASSUME NEW w \in Worker, Finish(w) \/ (\E t : t.op # "post" /\ Start(w, t)), UNCHANGED proofs
      PROVE  Amounts'
  BY <1>0, <1>1, IdleIsNoPost DEF Amounts, Finish, Start
<1>2. ASSUME NEW s \in Staff, NEW key, NEW amount \in Amount \cup Claim, NEW method,
             Start(s, Posting(key, amount, method)), UNCHANGED proofs
      PROVE  Amounts'
  <2>1. \A w \in Worker : task'[w] = IF w = s THEN Posting(key, amount, method) ELSE task[w]
    BY <1>0, <1>2 DEF Start, Worker
  <2> QED BY <1>2, <2>1 DEF Amounts, Posting
<1>3. ASSUME NEW s \in Staff, task[s].op = "post", ProofVerified(s), Finish(s) PROVE Amounts'
  <2>1. task[s].amount \in Amount \cup Claim
    BY <1>3 DEF Amounts, Worker
  <2>2. \A p \in Proof : proofs'[p] = proofs[p] \/ proofs'[p].amount = task[s].amount
    BY <1>0, <1>3 DEF ProofVerified, ProofRow
  <2>3. \A w \in Worker : task'[w].op = "post" => task'[w] = task[w]
    BY <1>0, <1>3, IdleIsNoPost DEF Finish, Worker
  <2> QED BY <2>1, <2>2, <2>3 DEF Amounts
<1>4. ASSUME NEW p \in Proof, NEW row, proofs' = [proofs EXCEPT ![p] = row], UNCHANGED task,
             row.amount \in Amount \cup Claim
      PROVE  Amounts'
  BY <1>0, <1>4 DEF Amounts
<1>5. CASE \E s \in Staff : StaffStep(s)
  <2>1. PICK s \in Staff : StaffStep(s)
    BY <1>5
  <2>2. CASE PostPayment(s) \/ CoverFromFund(s)
    BY <1>2, <2>2 DEF PostPayment, CoverFromFund
  <2>3. CASE PostTx(s) \/ Replay(s)
    BY <1>3, <2>3 DEF PostTx, Replay
  <2>4. CASE \E p \in Proof : ClaimProof(s, p) \/ RejectProof(s, p)
    <3>1. PICK p \in Proof, outcome \in ProofStatus : LockProof(s, p) /\ Decide(s, p, outcome) /\ UNCHANGED task
      BY <2>4 DEF ClaimProof, RejectProof, ProofStatus
    <3>2. proofs[p].status # "NONE" /\ proofs[p] \in ProofRow
      BY <1>0, <3>1 DEF LockProof
    <3> DEFINE row == [proofs[p] EXCEPT !.status = outcome, !.by = s]
    <3>3. proofs' = [proofs EXCEPT ![p] = row] /\ row.amount \in Amount \cup Claim
      BY <1>0, <3>1, <3>2 DEF Decide, Amounts, ProofRow
    <3> HIDE DEF row
    <3> QED BY <1>4, <3>1, <3>3
  <2>5. CASE \E p \in Proof : VerifyProof(s, p)
    <3>1. PICK p \in Proof : VerifyProof(s, p)
      BY <2>5
    <3>2. proofs[p].amount \in Amount \cup Claim
      BY <3>1 DEF VerifyProof, LockProof, Amounts
    <3>3. PICK amount \in Amount \cup {proofs[p].amount} : Start(s, Posting(p, amount, proofs[p].method)) /\ UNCHANGED proofs
      BY <3>1 DEF VerifyProof
    <3> QED BY <1>2, <3>2, <3>3
  <2>6. CASE \E i \in DOMAIN payments : ReversePayment(s, i)
    BY <2>6 DEF ReversePayment, Amounts
  <2> QED BY <2>1, <2>2, <2>3, <2>4, <2>5, <2>6 DEF StaffStep
<1>6. CASE \E p \in Proof : SubmitProof(p) \/ InsertProof(p)
  <2>1. PICK p \in Proof : SubmitProof(p) \/ InsertProof(p)
    BY <1>6
  <2>2. CASE SubmitProof(p)
    <3>1. PICK amount \in Claim, r \in Reference :
            proofs' = [proofs EXCEPT ![p] = [@ EXCEPT !.status = "CHECKED", !.amount = amount, !.method = r]]
      BY <2>2 DEF SubmitProof
    <3> DEFINE row == [proofs[p] EXCEPT !.status = "CHECKED", !.amount = amount, !.method = r]
    <3>2. proofs' = [proofs EXCEPT ![p] = row] /\ row.amount \in Amount \cup Claim /\ UNCHANGED task
      BY <1>0, <2>2, <3>1 DEF SubmitProof, ProofRow
    <3> HIDE DEF row
    <3> QED BY <1>4, <3>2
  <2>3. CASE InsertProof(p)
    <3> DEFINE row == [proofs[p] EXCEPT !.status = "PENDING_REVIEW"]
    <3>1. proofs[p].amount \in Amount \cup Claim
      BY <2>3 DEF InsertProof, Amounts
    <3>2. proofs' = [proofs EXCEPT ![p] = row] /\ row.amount \in Amount \cup Claim /\ UNCHANGED task
      BY <1>0, <2>3, <3>1 DEF InsertProof, ProofRow
    <3> HIDE DEF row
    <3> QED BY <1>4, <3>2
  <2> QED BY <2>1, <2>2, <2>3
<1>7. CASE \E c \in Checker : CheckOverdue(c) \/ CheckLoan(c)
  BY <1>1, <1>7 DEF CheckOverdue, CheckLoan, Checking, Worker
<1>8. CASE \E w \in Worker : RollBack(w)
  BY <1>1, <1>8 DEF RollBack
<1>9. CASE NextDay \/ UNCHANGED vars
  BY <1>9 DEF NextDay, vars, Amounts
<1> QED
  BY <1>5, <1>6, <1>7, <1>8, <1>9 DEF Next

\* Every step keeps the books.
LEMMA BooksStep ==
    ASSUME IndInv, Books, Amounts, [Next]_vars PROVE Books'
<1>1. CASE \E s \in Staff : PostTx(s)
  BY <1>1, PostTxBooks
<1>2. CASE \E s \in Staff, i \in DOMAIN payments : ReversePayment(s, i)
  BY <1>2, ReversePaymentBooks
<1>3. CASE \E c \in Checker : CheckLoan(c)
  BY <1>3, CheckLoanBooks
<1>4. CASE UNCHANGED books
  BY <1>4, QuietBooks
<1> QED
  BY <1>1, <1>2, <1>3, <1>4
  DEF Next, StaffStep, PostPayment, CoverFromFund, VerifyProof, ClaimProof, RejectProof, Replay,
      SubmitProof, InsertProof, CheckOverdue, RollBack, NextDay, vars

\* The inductive invariant of the tables of money: what the installments show,
\* what the lines of the standing payments add up to, and what the accounts
\* were entered with, all at once.
THEOREM BooksInvariance == Spec => [](IndInv /\ Books /\ Amounts)
<1>1. Init => IndInv /\ Books /\ Amounts
  <2>1. Init => Amounts
    BY IdleIsNoPost DEF Init, Amounts, NoProof
  <2> QED BY <2>1, InitInv, InitBooks
<1>2. IndInv /\ Books /\ Amounts /\ [Next]_vars => (IndInv /\ Books /\ Amounts)'
  BY StepKeeps, BooksStep, AmountsStep
<1> QED
  BY <1>1, <1>2, PTL DEF Spec

\* BooksTie: cash, income, the fund and the borrower's debt, each the sum of
\* what the standing payments, the penalties and the schedule say it is.
THEOREM BooksTellOneStory == Spec => []BooksTie
<1>1. Books => BooksTie
  BY TieIsBooksTie DEF Books
<1> QED
  BY <1>1, BooksInvariance, PTL

\* PaidIsPosted: what an installment shows as paid is the sum of its lines in
\* the payments that stand, through any reversals and races.
THEOREM InstallmentsShowPostings == Spec => []PaidIsPosted
<1>1. Books => PaidIsPosted
  BY DEF Books
<1> QED
  BY <1>1, BooksInvariance, PTL

\* ClosedIsSettled: a loan closes exactly when nothing is owed on it.
THEOREM ClosedMeansSettled == Spec => []ClosedIsSettled
<1>1. Books => ClosedIsSettled
  BY DEF Books
<1> QED
  BY <1>1, BooksInvariance, PTL

\* ChargedOnce: what an installment owes in penalties is the sum of distinct
\* months, each charged once by whoever came first.
THEOREM PenaltiesChargedOnce == Spec => []ChargedOnce
<1>1. Books => ChargedOnce
  BY DEF Books
<1> QED
  BY <1>1, BooksInvariance, PTL

\* TypeOK: in particular no installment is ever paid more than is due on it.
THEOREM TypesHold == Spec => []TypeOK
<1>1. IndInv /\ Books => TypeOK
  <2> SUFFICES ASSUME IndInv, Books PROVE TypeOK
    OBVIOUS
  <2>1. \A n \in Number : /\ paid[n].penalty \in 0..penaltyDue[n]
                          /\ paid[n].interest \in 0..InterestDue[n]
                          /\ paid[n].principal \in 0..PrincipalDue[n]
    <3> TAKE n \in Number
    <3>1. Paid(penaltyDue, paid)
      BY DEF Books
    <3> QED BY <3>1, SomeInt
  <2>2. ASSUME NEW i \in DOMAIN payments
        PROVE  /\ payments[i].key \in PaymentKey /\ payments[i].method \in Method
               /\ payments[i].amount \in Amount \cup Claim /\ payments[i].excess \in 0..payments[i].amount
               /\ payments[i].status \in {"POSTED", "REVERSED"} /\ payments[i].by \in Staff
    <3>1. PaymentOk(payments[i])
      BY DEF Books
    <3>2. payments[i].amount \in Nat /\ payments[i].excess \in Nat /\ payments[i].excess < payments[i].amount
      BY <3>1, PaymentFacts
    <3>3. payments[i] \in PaymentRow
      BY <3>1 DEF PaymentOk
    <3> QED BY <3>2, <3>3 DEF PaymentRow
  <2>3. \A p \in Proof : proofs[p].status \in ProofStatus
    BY DEF IndInv, Shape, ProofRow
  <2>4. \A w \in Worker : task[w] = Idle \/ task[w].op \in {"post", "overdue"}
    BY DEF IndInv, Shape, PostTask, OverdueTask
  <2>5. today \in 0..LastDay
    BY DEF IndInv, Shape
  <2> QED BY <2>1, <2>2, <2>3, <2>4, <2>5 DEF TypeOK, Books
<1> QED
  BY <1>1, BooksInvariance, PTL
================================================================================
