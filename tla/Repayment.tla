------------------------------ MODULE Repayment ------------------------------
(***************************************************************************)
(* Repayment of one released loan: payments over the counter, from payment *)
(* proofs and from a group's fund, late penalties, and reversals           *)
(* (src/src/lending/repayment.ts, src/shared/lending/repayment.ts).        *)
(*                                                                         *)
(* Every transaction locks the loan's row before it reads or writes        *)
(* anything of the loan, so what it does from there on is one step.  What  *)
(* it took before it had the lock (the date, the time of posting, the      *)
(* loans that look overdue, a group's overdue amount) may be old by then:  *)
(* that is a worker's task.                                                *)
(***************************************************************************)
EXTENDS Integers, Sequences, FiniteSets, FiniteSetsExt, Functions

CONSTANTS
    Staff,            \* the staff who post, verify, cover and reverse
    Checker,          \* runs of the overdue check: those staff ask for, and ...
    Timer,            \* ... the server's own, every six hours
    Key,              \* idempotency keys of payments over the counter
    CoverKey,         \* idempotency keys of covers by the group's fund
    Proof,            \* payment proofs the member may upload
    Reference,        \* bank and e-wallet transfer references
    Amount,           \* amounts received
    Claim,            \* amounts members say they sent
    Installments,     \* number of installments of the schedule
    PrincipalDue, InterestDue,    \* per installment
    DueDate,          \* per installment, as a day
    Month,            \* days from one penalty date to the next
    PenaltyRate,      \* per month, in percent
    LastDay           \* bound on the business day

Worker == Staff \cup Checker
Number == 1..Installments
PaymentKey == Key \cup CoverKey \cup Proof

ASSUME RepaymentAssumption ==
    /\ IsFiniteSet(Staff) /\ Timer \in Checker /\ Staff \cap Checker = {}
    /\ Key \cap CoverKey = {} /\ Key \cap Proof = {} /\ CoverKey \cap Proof = {}
    /\ Amount \subseteq Nat \ {0} /\ Claim \subseteq Nat \ {0}
    /\ Reference \cap {"CASH", "SOLIDARITY_FUND"} = {}
    /\ Installments \in Nat \ {0}
    /\ PrincipalDue \in [Number -> Nat \ {0}] /\ InterestDue \in [Number -> Nat]
    /\ DueDate \in [Number -> Nat] /\ Month \in Nat \ {0} /\ PenaltyRate \in Nat
    /\ LastDay \in Nat

VARIABLES
    status,        \* of the loan: "Active" or "Closed"
    penaltyDue,    \* loan_schedule: per installment
    paid,          \* loan_schedule: per installment, its three portions
    charges,       \* loan_penalties
    payments,      \* in the order they were posted, which their receipt numbers keep
    ledger,        \* balances of the ledger's accounts, debit less credit
    member,        \* the borrower's totalRepaid and activeLoansCount
    proofs,        \* payment_proofs
    task,          \* what each worker took before it waits for the loan's row
    today

schedule == <<penaltyDue, paid, charges>>
books    == <<status, schedule, payments, ledger, member>>
vars     == <<books, proofs, task, today>>

-------------------------------------------------------------------------------
Portion == {"penalty", "interest", "principal"}
Account == {"CASH", "GROUP_FUND", "LOANS_RECEIVABLE", "PENALTIES_RECEIVABLE",
            "INTEREST_INCOME", "PENALTY_INCOME", "OVERPAYMENTS_PAYABLE"}
ProofStatus == {"NONE", "CHECKED", "PENDING_REVIEW", "UNDER_REVIEW", "VERIFIED", "REJECTED"}

\* A payment's method is cash, the group's fund, or a transfer by its reference.
Method == {"CASH", "SOLIDARITY_FUND"} \cup Reference

Idle == [op |-> "idle"]

\* The time taken for a payment matters only against those of other payments, so
\* it is kept as the number of payments posted before it.  Tasks that overlap
\* may have taken theirs in either order.
Posting(key, amount, method) ==
    [op |-> "post", key |-> key, amount |-> amount, method |-> method,
     today |-> today, at |-> Len(payments)]
Checking == [op |-> "overdue", today |-> today]

NoProof == [status |-> "NONE", amount |-> 0, method |-> "CASH", by |-> Timer]
Lesser(a, b) == IF a < b THEN a ELSE b

-------------------------------------------------------------------------------
(* shared/lending/repayment.ts *)

\* outstandingOf, with the penalties charged so far given.
Owed(due, n) ==
    [penalty   |-> due[n] - paid[n].penalty,
     interest  |-> InterestDue[n] - paid[n].interest,
     principal |-> PrincipalDue[n] - paid[n].principal]
Total(portions) == portions.penalty + portions.interest + portions.principal
Payoff(due) == SumFunction([n \in Number |-> Total(Owed(due, n))])

\* allocatePayment, oldest installment first: what the earlier installments
\* leave of the amount reaches this one, and pays its penalty, then its
\* interest, then its principal.
Reaches(due, amount, n) ==
    LET earlier == SumFunction([m \in 1..(n - 1) |-> Total(Owed(due, m))])
    IN  IF amount > earlier THEN amount - earlier ELSE 0

Allocation(due, amount) ==
    [n \in Number |->
       LET owed      == Owed(due, n)
           left      == Reaches(due, amount, n)
           penalty   == Lesser(left, owed.penalty)
           interest  == Lesser(left - penalty, owed.interest)
           principal == Lesser(left - penalty - interest, owed.principal)
       IN  [penalty |-> penalty, interest |-> interest, principal |-> principal]]

Portions(lines) == [p \in Portion |-> SumFunction([n \in Number |-> lines[n][p]])]

Apply(lines) == [n \in Number |-> [p \in Portion |-> paid[n][p] + lines[n][p]]]

\* Mistaken: a penalty once paid stays paid.
KeepPenalty(lines) ==
    [n \in Number |-> [p \in Portion |-> IF p = "penalty" THEN paid[n][p] ELSE paid[n][p] - lines[n][p]]]

\* unapplyAllocation.
Unapply(lines) == [n \in Number |-> [p \in Portion |-> paid[n][p] - lines[n][p]]]

\* applyRate rounds half up; nothing is charged on penalties.
Penalty(n) ==
    LET base == Owed(penaltyDue, n).interest + Owed(penaltyDue, n).principal
    IN  (2 * base * PenaltyRate + 100) \div 200

\* penaltyDates: the day after the due date, and every month after that.
Periods(n, day) == {k \in 1..LastDay : DueDate[n] + (k - 1) * Month + 1 <= day}

\* Mistaken: every month that has passed is charged again at every check.
EveryMonth(n, k) == TRUE

\* The months of an installment that loan_penalties does not hold yet.
NotCharged(n, k) == ~\E c \in charges : c.number = n /\ c.period = k

PenaltiesToCharge(day) ==
    {c \in {[number |-> n, period |-> k, amount |-> Penalty(n)] : n \in Number, k \in 1..LastDay} :
       /\ c.period \in Periods(c.number, day)
       /\ NotCharged(c.number, c.period)
       /\ c.amount > 0}

AmountOf(plan) == SumFunction([c \in plan |-> c.amount])
Charged(plan, n) == AmountOf({c \in plan : c.number = n})

(* The journal: each entry is what it adds to every account. *)

NoEntry == [a \in Account |-> 0]

PenaltyEntry(total) ==
    [NoEntry EXCEPT !["PENALTIES_RECEIVABLE"] = total, !["PENALTY_INCOME"] = -total]

\* Mistaken: what is paid over the payoff is not entered.
EntryOfApplied(p) ==
    LET split == Portions(p.lines)
    IN  [NoEntry EXCEPT !["CASH"] = p.amount - p.excess,
                        !["PENALTIES_RECEIVABLE"] = -split.penalty,
                        !["INTEREST_INCOME"] = -split.interest,
                        !["LOANS_RECEIVABLE"] = -split.principal]

PaymentEntry(p) ==
    LET split  == Portions(p.lines)
        source == IF p.method = "SOLIDARITY_FUND" THEN "GROUP_FUND" ELSE "CASH"
    IN  [NoEntry EXCEPT ![source] = p.amount,
                        !["PENALTIES_RECEIVABLE"] = -split.penalty,
                        !["INTEREST_INCOME"] = -split.interest,
                        !["LOANS_RECEIVABLE"] = -split.principal,
                        !["OVERPAYMENTS_PAYABLE"] = -p.excess]

Mirror(entry) == [a \in Account |-> -entry[a]]
Add(e, f) == [a \in Account |-> e[a] + f[a]]

-------------------------------------------------------------------------------
Init ==
    /\ status = "Active"
    /\ penaltyDue = [n \in Number |-> 0]
    /\ paid = [n \in Number |-> [p \in Portion |-> 0]]
    /\ charges = {}
    /\ payments = <<>>
    /\ ledger = [NoEntry EXCEPT !["LOANS_RECEIVABLE"] = SumFunction(PrincipalDue)]
    /\ member = [totalRepaid |-> 0, activeLoans |-> 1]
    /\ proofs = [p \in Proof |-> NoProof]
    /\ task = [w \in Worker |-> Idle]
    /\ today = 0

Start(w, t) == task[w] = Idle /\ task' = [task EXCEPT ![w] = t]
Finish(w) == task' = [task EXCEPT ![w] = Idle]

-------------------------------------------------------------------------------
(* Before the loan's row is locked *)

\* postPayment: at the counter, or a transfer seen on the bank's statement.
PostPayment(s) ==
    /\ \E key \in Key, amount \in Amount, method \in {"CASH"} \cup Reference :
         Start(s, Posting(key, amount, method))
    /\ UNCHANGED <<books, proofs, today>>

\* overdueOn of groups/service.ts, read without the loan's lock.
Overdue == SumFunction([n \in {n \in Number : DueDate[n] < today} |-> Total(Owed(penaltyDue, n))])

\* coverFromFund: the group's row is locked from here to its end.
CoverFromFund(s) ==
    /\ status = "Active"
    /\ \A w \in Staff : task[w].op = "post" => task[w].key \notin CoverKey
    /\ \E key \in CoverKey, amount \in Amount :
         /\ amount <= Overdue
         /\ Start(s, Posting(key, amount, "SOLIDARITY_FUND"))
    /\ UNCHANGED <<books, proofs, today>>

\* runOverdueCheck selects the loan: it is active and an installment is late.
CheckOverdue(c) ==
    /\ status = "Active"
    /\ Overdue > 0
    /\ Start(c, Checking)
    /\ UNCHANGED <<books, proofs, today>>

-------------------------------------------------------------------------------
(* Payment proofs *)

\* submitProof looks for a proof of the same transfer, and stores the file ...
SubmitProof(p) ==
    /\ proofs[p].status = "NONE"
    /\ status = "Active"
    /\ \E amount \in Claim, r \in Reference :
         /\ \A q \in Proof : proofs[q].method = r => proofs[q].status \in {"NONE", "CHECKED", "REJECTED"}
         /\ proofs' = [proofs EXCEPT ![p] = [@ EXCEPT !.status = "CHECKED", !.amount = amount, !.method = r]]
    /\ UNCHANGED <<books, task, today>>

\* ... before it inserts the row.
InsertProof(p) ==
    /\ proofs[p].status = "CHECKED"
    /\ proofs' = [proofs EXCEPT ![p].status = "PENDING_REVIEW"]
    /\ UNCHANGED <<books, task, today>>

\* Mistaken: the proof is read without a lock.
NoRowLock(p) == TRUE

\* The proof's row is locked by the transaction that is verifying it.
RowFree(p) == \A s \in Staff : task[s].op = "post" => task[s].key # p

\* lockProof: not decided, and not claimed by someone else.
LockProof(s, p) ==
    /\ RowFree(p)
    /\ \/ proofs[p].status = "PENDING_REVIEW"
       \/ proofs[p].status = "UNDER_REVIEW" /\ proofs[p].by = s

Decide(s, p, outcome) == proofs' = [proofs EXCEPT ![p].status = outcome, ![p].by = s]

ClaimProof(s, p) ==
    /\ task[s] = Idle
    /\ LockProof(s, p)
    /\ Decide(s, p, "UNDER_REVIEW")
    /\ UNCHANGED <<books, task, today>>

RejectProof(s, p) ==
    /\ task[s] = Idle
    /\ LockProof(s, p)
    /\ Decide(s, p, "REJECTED")
    /\ UNCHANGED <<books, task, today>>

\* verifyProof: what arrived may be less than the member said, never more.
VerifyProof(s, p) ==
    /\ LockProof(s, p)
    /\ \E amount \in Amount \cup {proofs[p].amount} :
         /\ amount <= proofs[p].amount
         /\ Start(s, Posting(p, amount, proofs[p].method))
    /\ UNCHANGED <<books, proofs, today>>

-------------------------------------------------------------------------------
(* Under the loan's lock *)

\* chargePenalties.
ChargePenalties(day) ==
    LET plan == PenaltiesToCharge(day)
    IN  /\ charges' = charges \cup plan
        /\ penaltyDue' = [n \in Number |-> penaltyDue[n] + Charged(plan, n)]

PenaltiesEntry(day) == PenaltyEntry(AmountOf(PenaltiesToCharge(day)))

\* The overdue check of this loan.
CheckLoan(c) ==
    /\ task[c].op = "overdue"
    /\ status = "Active"
    /\ ChargePenalties(task[c].today)
    /\ ledger' = Add(ledger, PenaltiesEntry(task[c].today))
    /\ Finish(c)
    /\ UNCHANGED <<status, paid, payments, member, proofs, today>>

Posted == {i \in DOMAIN payments : payments[i].status = "POSTED"}

\* The payment's key, read under the lock.
Replayed(t) == \E i \in DOMAIN payments : payments[i].key = t.key

\* A transfer is posted once (uq_payments_reference).
TransferIsNew(t) == t.method \in Reference => \A i \in Posted : payments[i].method # t.method

\* Mistaken: the key was only looked for before the loan was locked.
PostableAgain(t) == status = "Active" /\ TransferIsNew(t)

Postable(t) == status = "Active" /\ ~Replayed(t) /\ TransferIsNew(t)

\* Mistaken: against what was owed before the penalties of the day.
SettledBefore(split) == Payoff(penaltyDue) <= Total(split)

Settles(split) == Payoff(penaltyDue') = Total(split)

\* verifyProof, after the payment and in its transaction.
ProofVerified(s) ==
    LET t == task[s]
    IN  IF t.key \in Proof
        THEN proofs' = [proofs EXCEPT ![t.key] =
                          [@ EXCEPT !.status = "VERIFIED", !.amount = t.amount, !.by = s]]
        ELSE UNCHANGED proofs

\* postPaymentTx: penalties first, so that the payment pays what is really owed.
PostTx(s) ==
    LET t       == task[s]
        lines   == Allocation(penaltyDue', t.amount)
        split   == Portions(lines)
        payment == [key |-> t.key, method |-> t.method, amount |-> t.amount,
                    excess |-> t.amount - Total(split), lines |-> lines,
                    status |-> "POSTED", by |-> s, at |-> t.at]
    IN  /\ t.op = "post"
        /\ Postable(t)
        /\ ChargePenalties(t.today)
        /\ paid' = Apply(lines)
        /\ payments' = Append(payments, payment)
        /\ ledger' = Add(Add(ledger, PenaltiesEntry(t.today)), PaymentEntry(payment))
        /\ status' = IF Settles(split) THEN "Closed" ELSE "Active"
        /\ member' = [totalRepaid |-> member.totalRepaid + Total(split),
                      activeLoans |-> member.activeLoans - (IF Settles(split) THEN 1 ELSE 0)]
        /\ ProofVerified(s)
        /\ Finish(s)
        /\ UNCHANGED today

\* The key was posted before: its payment is the answer.
Replay(s) ==
    /\ task[s].op = "post" /\ Replayed(task[s])
    /\ ProofVerified(s)
    /\ Finish(s)
    /\ UNCHANGED <<books, today>>

\* A refusal, a lost connection or a restart: the transaction leaves nothing.
RollBack(w) ==
    /\ task[w] # Idle
    /\ Finish(w)
    /\ UNCHANGED <<books, proofs, today>>

\* The row a query for the latest posted payment may return.
IsLatest(i) == i \in Posted /\ \A j \in Posted : payments[j].at <= payments[i].at

\* Mistaken: the payment was read as posted before the loan was locked.
ReversibleAgain(s, i) ==
    /\ payments[i].method # "SOLIDARITY_FUND"
    /\ payments[i].by # s
    /\ \A j \in Posted : payments[j].at <= payments[i].at

\* Covers stay, and the officer who posted a payment does not reverse it.
Reversible(s, i) ==
    /\ payments[i].status = "POSTED"
    /\ payments[i].method # "SOLIDARITY_FUND"
    /\ payments[i].by # s
    /\ IsLatest(i)

\* reversePayment; a loan the payment closed is active again.
ReversePayment(s, i) ==
    LET payment == payments[i]
    IN  /\ task[s] = Idle
        /\ Reversible(s, i)
        /\ paid' = Unapply(payment.lines)
        /\ payments' = [payments EXCEPT ![i].status = "REVERSED"]
        /\ ledger' = Add(ledger, Mirror(PaymentEntry(payment)))
        /\ status' = "Active"
        /\ member' = [totalRepaid |-> Max({member.totalRepaid - (payment.amount - payment.excess), 0}),
                      activeLoans |-> IF status = "Closed" THEN member.activeLoans + 1 ELSE member.activeLoans]
        /\ UNCHANGED <<penaltyDue, charges, proofs, task, today>>

NextDay ==
    /\ today < LastDay
    /\ today' = today + 1
    /\ UNCHANGED <<books, proofs, task>>

-------------------------------------------------------------------------------
StaffStep(s) ==
    \/ PostPayment(s) \/ CoverFromFund(s)
    \/ PostTx(s) \/ Replay(s)
    \/ \E p \in Proof : ClaimProof(s, p) \/ RejectProof(s, p) \/ VerifyProof(s, p)
    \/ \E i \in DOMAIN payments : ReversePayment(s, i)

Next ==
    \/ \E c \in Checker : CheckOverdue(c) \/ CheckLoan(c)
    \/ \E s \in Staff : StaffStep(s)
    \/ \E w \in Worker : RollBack(w)
    \/ \E p \in Proof : SubmitProof(p) \/ InsertProof(p)
    \/ NextDay

Spec == Init /\ [][Next]_vars

-------------------------------------------------------------------------------
\* Every variable keeps its type; in particular nothing is ever paid twice over,
\* nor taken back twice: an installment's portions stay between nothing and what
\* is due (the constraint loan_schedule_paid_within_due never refuses anything).
TypeOK ==
    /\ status \in {"Active", "Closed"}
    /\ \A n \in Number :
         /\ paid[n].penalty \in 0..penaltyDue[n]
         /\ paid[n].interest \in 0..InterestDue[n]
         /\ paid[n].principal \in 0..PrincipalDue[n]
    /\ \A i \in DOMAIN payments :
         /\ payments[i].key \in PaymentKey /\ payments[i].method \in Method
         /\ payments[i].amount \in Amount \cup Claim /\ payments[i].excess \in 0..payments[i].amount
         /\ payments[i].status \in {"POSTED", "REVERSED"} /\ payments[i].by \in Staff
    /\ \A p \in Proof : proofs[p].status \in ProofStatus
    /\ \A w \in Worker : task[w] = Idle \/ task[w].op \in {"post", "overdue"}
    /\ today \in 0..LastDay

PostedSum(f(_)) == SumFunction([i \in Posted |-> f(payments[i])])

\* What an installment shows as paid is what the posted payments paid on it, so
\* that a reversal gives back exactly what its payment took, in whatever order
\* payments, penalties and reversals fell.
PaidIsPosted == \A n \in Number, p \in Portion :
    paid[n][p] = PostedSum(LAMBDA x : x.lines[n][p])

\* The general ledger, the borrower's totals and the loan's schedule, each
\* written on its own in every transaction, tell one story.
BooksTie ==
    LET Outstanding(p) == SumFunction([n \in Number |-> Owed(penaltyDue, n)[p]])
        Applied == PostedSum(LAMBDA x : x.amount - x.excess)
    IN  /\ ledger["LOANS_RECEIVABLE"] = Outstanding("principal")
        /\ ledger["PENALTIES_RECEIVABLE"] = Outstanding("penalty")
        /\ ledger["INTEREST_INCOME"] = -SumFunction([n \in Number |-> paid[n].interest])
        /\ ledger["OVERPAYMENTS_PAYABLE"] = -PostedSum(LAMBDA x : x.excess)
        /\ ledger["CASH"] + ledger["GROUP_FUND"] = PostedSum(LAMBDA x : x.amount)
        /\ member.totalRepaid = Applied
        /\ member.activeLoans = IF status = "Active" THEN 1 ELSE 0

\* A loan is closed exactly while nothing is owed on it: neither a late penalty
\* nor a reversal leaves money owed on a closed loan, and no settled loan is
\* left open.
ClosedIsSettled == status = "Closed" <=> Payoff(penaltyDue) = 0

\* "Each (installment, month) is charged once" (repayment.ts:160), by checks and
\* payments that overlap and hold different dates.
OncePerMonth == \A c, d \in charges : c.number = d.number /\ c.period = d.period => c = d

\* And what an installment owes in penalties is the sum of its charges.
ChargedOnce == OncePerMonth /\ \A n \in Number : penaltyDue[n] = Charged(charges, n)

\* Each key is posted once, and a proof is verified if and only if one payment
\* was posted for it, of the amount verified: not by a retry, nor by two tellers,
\* nor when the payment is refused because the loan has closed.
PaidOnce ==
    /\ \A i, j \in DOMAIN payments : payments[i].key = payments[j].key => i = j
    /\ \A p \in Proof : proofs[p].status = "VERIFIED" <=>
         \E i \in DOMAIN payments : payments[i].key = p /\ payments[i].amount = proofs[p].amount

\* A decided proof stays as it was decided, though another teller read it before.
DecidedStaysDecided ==
    [][\A p \in Proof : proofs[p].status \in {"VERIFIED", "REJECTED"} => proofs'[p] = proofs[p]]_vars
===============================================================================
