---------------------------- MODULE SavingsAccount ----------------------------
(***************************************************************************)
(* Savings accounts over the months (src/src/savings/service.ts and        *)
(* src/shared/lending/savings.ts): opening and closing, deposits and       *)
(* withdrawals under the product's rules, withdrawal requests, freezing    *)
(* and dormancy, and the posting of interest.                              *)
(*                                                                         *)
(* Every operation locks the account's row before it reads it and holds    *)
(* the lock until it commits, so it is one step.  A run of the interest    *)
(* posting is not: it lists the open accounts first and then takes one     *)
(* transaction for each of them.  What happens inside the locks, and the   *)
(* tie of the cached balance to its rows, is MemberLocks.                  *)
(*                                                                         *)
(* A day is a number, a month is DaysPerMonth of them, and a balance is    *)
(* the centavos of the source.  A repeated call finds its idempotency key  *)
(* and changes nothing, so a key is used at most once.  The member's KYC,  *)
(* checked when an account is opened or a withdrawal requested, and the    *)
(* destination of a payout are left out.                                   *)
(***************************************************************************)
EXTENDS Integers, FiniteSets, Functions

CONSTANTS
    Account, Member,
    Owner,            \* the member of each account
    Product,          \* the product of each account, with its rules
    Key,              \* idempotency keys of the counter
    Payout,           \* instant withdrawals, which may come back
    Request,          \* withdrawal requests
    Poster,           \* runs of the interest posting: those staff ask for, and ...
    Timer,            \* ... the server's own, every six hours
    Amount,
    DaysPerMonth, Year,   \* a month and a year, in days
    Dormancy,         \* DORMANCY_MONTHS, in days
    FirstDay, LastDay \* bounds on the calendar

Kinds == {"REGULAR", "COMPULSORY", "TIME_DEPOSIT"}

ASSUME SavingsAssumption ==
    /\ Owner \in [Account -> Member]
    /\ Product \in [Account -> [code : STRING, kind : Kinds, lowest : BOOLEAN, rate : Nat,
                                minimum : Nat, opening : Nat, most : Nat, perMonth : Nat,
                                term : Nat]]
    /\ Account # {} /\ IsFiniteSet(Account)
    /\ Key \cap Payout = {} /\ Key \cap Request = {} /\ Payout \cap Request = {}
    /\ (Key \cup Payout \cup Request) \cap Int = {}
    /\ Timer \in Poster
    /\ Amount \subseteq Nat \ {0}
    /\ DaysPerMonth \in Nat \ {0} /\ Year \in Nat \ {0}
    /\ Dormancy \in Nat /\ FirstDay \in Nat /\ LastDay \in Nat /\ FirstDay <= LastDay

VARIABLES
    status, balance,  \* savings_accounts
    opened,           \* the day each account was opened
    activity,         \* lastActivityDate
    rows,             \* savings_transactions
    request,          \* savings_withdrawal_requests
    task,             \* per run: the accounts still to do, and the day it began
    today

account == <<status, balance, opened, activity>>
vars    == <<account, rows, request, task, today>>

MonthOf(day) == day \div DaysPerMonth
Idle == [todo |-> {}, date |-> 0]
NoRequest == [status |-> "NONE", account |-> CHOOSE a \in Account : TRUE, amount |-> 0]

IsOpen(a) == status[a] \notin {"NONE", "CLOSED"}
RowsOf(a) == {r \in rows : r.account = a}
Fresh(k)  == \A r \in rows : r.key # k
\* Each operation of the counter comes with a key of its own.
NewKey(k) == k \in Key /\ Fresh(k) /\ k = CHOOSE x \in Key : Fresh(x)

Init ==
    /\ status = [a \in Account |-> "NONE"]
    /\ balance = [a \in Account |-> 0]
    /\ opened = [a \in Account |-> 0]
    /\ activity = [a \in Account |-> 0]
    /\ rows = {}
    /\ request = [q \in Request |-> NoRequest]
    /\ task = [p \in Poster |-> Idle]
    /\ today = FirstDay

-----------------------------------------------------------------------------
\* The rules

Signed(r) == IF r.kind = "WITHDRAWAL" THEN 0 - r.amount ELSE r.amount

\* The balance at the end of a day: the opening balance of its month and the
\* movements since.
ClosingOn(a, day) ==
    LET before == {r \in rows : r.account = a /\ r.day <= day}
    IN  SumFunction([r \in before |-> Signed(r)])

\* interestForPeriod: on the average of the month's daily balances, or on the
\* lowest, nothing below the product's minimum, rounded half up.
DaysOf(month) == (month * DaysPerMonth)..(month * DaysPerMonth + DaysPerMonth - 1)
Interest(a, month) ==
    LET p      == Product[a]
        daily  == [d \in DaysOf(month) |-> ClosingOn(a, d)]
        reached == {ClosingOn(a, d) : d \in DaysOf(month)}
        lowest == CHOOSE n \in reached : \A m \in reached : n <= m
        base   == IF p.lowest THEN lowest * DaysPerMonth ELSE SumFunction(daily)
    IN  IF base \div DaysPerMonth < p.minimum THEN 0
        ELSE (2 * base * p.rate + Year) \div (2 * Year)

\* Mistaken: the month that is not over is paid too.
DueSoFar(a, date) ==
    {m \in MonthOf(opened[a])..MonthOf(date) :
        /\ \A r \in RowsOf(a) : ~(r.kind = "INTEREST" /\ r.key = m)
        /\ Interest(a, m) > 0}

\* The complete months up to a day that have interest to post.
Due(a, date) ==
    {m \in MonthOf(opened[a])..(MonthOf(date) - 1) :
        /\ \A r \in RowsOf(a) : ~(r.kind = "INTEREST" /\ r.key = m)
        /\ Interest(a, m) > 0}

\* Mistaken: what came back is counted over all months.
LessEveryRefund(a) ==
    LET n == Cardinality({r \in RowsOf(a) : r.kind = "WITHDRAWAL" /\ MonthOf(r.day) = MonthOf(today)})
             - Cardinality({r \in RowsOf(a) : r.kind = "PAYOUT_REFUND"})
    IN  IF n < 0 THEN 0 ELSE n

\* Withdrawals of the month, less what came back in it.
WithdrawalsThisMonth(a) ==
    LET since(kind) == {r \in RowsOf(a) : r.kind = kind /\ r.day >= MonthOf(today) * DaysPerMonth}
        n == Cardinality(since("WITHDRAWAL")) - Cardinality(since("PAYOUT_REFUND"))
    IN  IF n < 0 THEN 0 ELSE n

\* checkWithdrawal, when the account is not being closed
MayWithdraw(a, amount) ==
    LET p == Product[a] IN
    /\ status[a] = "ACTIVE"
    /\ p.kind # "COMPULSORY"
    /\ p.kind = "TIME_DEPOSIT" => today >= opened[a] + p.term
    /\ amount <= p.most
    /\ WithdrawalsThisMonth(a) < p.perMonth
    /\ amount <= balance[a] - p.minimum

-----------------------------------------------------------------------------
\* Posting

\* Mistaken: a closed account may hold a balance.
NotNegative(s, b) == b >= 0

\* The CHECK savings_accounts_valid
Valid(s, b) == b >= 0 /\ (s = "CLOSED" => b = 0)

\* postTx for one row that is not interest.  s is the status it leaves.
Post(a, kind, amount, key, s) ==
    LET row == [account |-> a, kind |-> kind, amount |-> amount, day |-> today, key |-> key] IN
    /\ Valid(s, balance[a] + Signed(row))
    /\ rows' = rows \cup {row}
    /\ balance' = [balance EXCEPT ![a] = @ + Signed(row)]
    /\ activity' = [activity EXCEPT ![a] = today]
    /\ status' = [status EXCEPT ![a] = s]

Deposit(a, amount, k) ==
    /\ NewKey(k) /\ IsOpen(a)
    /\ Post(a, "DEPOSIT", amount, k, IF status[a] = "DORMANT" THEN "ACTIVE" ELSE status[a])
    /\ UNCHANGED <<opened, request, task, today>>

\* At the counter, or online: then it may come back.
Withdraw(a, amount, k) ==
    /\ NewKey(k) \/ (k \in Payout /\ Fresh(k))
    /\ MayWithdraw(a, amount)
    /\ Post(a, "WITHDRAWAL", amount, k, status[a])
    /\ UNCHANGED <<opened, request, task, today>>

PayoutReturns(p) ==
    \E w \in rows :
        /\ w.key = p /\ w.kind = "WITHDRAWAL"
        /\ \A r \in rows : ~(r.key = p /\ r.kind = "PAYOUT_REFUND")
        /\ Post(w.account, "PAYOUT_REFUND", w.amount, p, status[w.account])
        /\ UNCHANGED <<opened, request, task, today>>

-----------------------------------------------------------------------------
\* Opening, closing, status

\* The member's row is locked while the existing accounts are read.
NoOtherOpen(a) ==
    Product[a].kind # "TIME_DEPOSIT" =>
        \A b \in Account : ~(Owner[b] = Owner[a] /\ Product[b].code = Product[a].code /\ IsOpen(b))

OpenAccount(a, amount, k) ==
    /\ status[a] = "NONE" /\ NoOtherOpen(a)
    /\ amount >= Product[a].opening
    /\ opened' = [opened EXCEPT ![a] = today]
    /\ IF amount > 0
       THEN NewKey(k) /\ Post(a, "DEPOSIT", amount, k, "ACTIVE")
       ELSE /\ status' = [status EXCEPT ![a] = "ACTIVE"]
            /\ activity' = [activity EXCEPT ![a] = today]
            /\ UNCHANGED <<balance, rows>>
    /\ UNCHANGED <<request, task, today>>

\* With the approval of the member's KYC: openRegularAccountTx.
OpenRegularAccount(a) ==
    /\ status[a] = "NONE" /\ Product[a].kind = "REGULAR"
    /\ \A b \in Account : ~(Owner[b] = Owner[a] /\ IsOpen(b))
    /\ status' = [status EXCEPT ![a] = "ACTIVE"]
    /\ opened' = [opened EXCEPT ![a] = today]
    /\ activity' = [activity EXCEPT ![a] = today]
    /\ UNCHANGED <<balance, rows, request, task, today>>

\* Closing pays out what is left, whatever the minimum, the limits and the
\* term say.  Compulsory savings stay while the member has a running loan:
\* loans are no state of this module, so that they may always be closed here.
CloseAccount(a, k) ==
    /\ status[a] \in {"ACTIVE", "DORMANT"}
    /\ IF balance[a] > 0
       THEN status[a] = "ACTIVE" /\ NewKey(k) /\ Post(a, "WITHDRAWAL", balance[a], k, "CLOSED")
       ELSE status' = [status EXCEPT ![a] = "CLOSED"] /\ UNCHANGED <<balance, activity, rows>>
    /\ UNCHANGED <<opened, request, task, today>>

ChangeStatus(a, from, to) ==
    /\ status[a] \in from
    /\ status' = [status EXCEPT ![a] = to]
    /\ UNCHANGED <<balance, opened, rows, request, task, today>>

Freeze(a)   == ChangeStatus(a, {"ACTIVE", "DORMANT"}, "FROZEN") /\ UNCHANGED activity
Unfreeze(a) == ChangeStatus(a, {"FROZEN"}, "ACTIVE") /\ UNCHANGED activity
Reactivate(a) ==
    ChangeStatus(a, {"DORMANT"}, "ACTIVE") /\ activity' = [activity EXCEPT ![a] = today]

-----------------------------------------------------------------------------
\* Withdrawal requests

Pending(a) == {q \in Request : request[q].status = "PENDING" /\ request[q].account = a}

RequestWithdrawal(q, a, amount) ==
    /\ request[q].status = "NONE" /\ Pending(a) = {}
    /\ MayWithdraw(a, amount)
    /\ request' = [request EXCEPT ![q] = [status |-> "PENDING", account |-> a, amount |-> amount]]
    /\ UNCHANGED <<account, rows, task, today>>

\* Mistaken: the request's status is not read again under its lock.
ApproveAny(q) ==
    LET a == request[q].account IN
    /\ request[q].status # "NONE"
    /\ MayWithdraw(a, request[q].amount)
    /\ Post(a, "WITHDRAWAL", request[q].amount, q, status[a])
    /\ request' = [request EXCEPT ![q].status = "APPROVED"]
    /\ UNCHANGED <<opened, task, today>>

\* decideWithdrawalRequest: the rules are applied again, as things are now.
ApproveRequest(q) ==
    LET a == request[q].account IN
    /\ request[q].status = "PENDING"
    /\ MayWithdraw(a, request[q].amount)
    /\ Post(a, "WITHDRAWAL", request[q].amount, q, status[a])
    /\ request' = [request EXCEPT ![q].status = "APPROVED"]
    /\ UNCHANGED <<opened, task, today>>

\* REJECT by staff, or cancelWithdrawalRequest by the member
DropRequest(q, to) ==
    /\ request[q].status = "PENDING"
    /\ request' = [request EXCEPT ![q].status = to]
    /\ UNCHANGED <<account, rows, task, today>>

-----------------------------------------------------------------------------
\* runInterestPosting

\* Mistaken: only active accounts are listed.
ListsActive(p) ==
    /\ task[p].todo = {}
    /\ \E a \in Account : status[a] = "ACTIVE"
    /\ task' = [task EXCEPT ![p] = [todo |-> {a \in Account : status[a] = "ACTIVE"}, date |-> today]]
    /\ UNCHANGED <<account, rows, request, today>>

RunStarts(p) ==
    /\ task[p].todo = {}
    /\ \E a \in Account : IsOpen(a)
    /\ task' = [task EXCEPT ![p] = [todo |-> {a \in Account : IsOpen(a)}, date |-> today]]
    /\ UNCHANGED <<account, rows, request, today>>

Earned(a, due) == SumFunction([m \in due |-> Interest(a, m)])
InterestRows(a, due) ==
    {[account |-> a, kind |-> "INTEREST", amount |-> Interest(a, m), day |-> today, key |-> m] : m \in due}

\* savings_accounts_valid, and the unique index uq_savings_txn_interest
Accepted(a, due) ==
    /\ Valid(status[a], balance[a] + Earned(a, due))
    /\ \A r \in RowsOf(a) : ~(r.kind = "INTEREST" /\ r.key \in due)

\* One account, with every month it is due.  The day of the rows is the day
\* they are posted on, the months are those of the day the run began.
PostInterest(p, a) ==
    LET due == Due(a, task[p].date) IN
    /\ Accepted(a, due)
    /\ rows' = rows \cup InterestRows(a, due)
    /\ balance' = [balance EXCEPT ![a] = @ + Earned(a, due)]
    /\ status' = [status EXCEPT ![a] =
                    IF @ = "ACTIVE" /\ activity[a] + Dormancy < task[p].date THEN "DORMANT" ELSE @]
    /\ task' = [task EXCEPT ![p].todo = @ \ {a}]
    /\ UNCHANGED <<opened, activity, request, today>>

\* What the database refuses ends the run: the accounts it had still to do
\* are left to the next.
RunFails(p, a) ==
    /\ ~Accepted(a, Due(a, task[p].date))
    /\ task' = [task EXCEPT ![p] = Idle]
    /\ UNCHANGED <<account, rows, request, today>>

RunGoesOn(p) == \E a \in task[p].todo : PostInterest(p, a) \/ RunFails(p, a)

-----------------------------------------------------------------------------
Tick == today < LastDay /\ today' = today + 1 /\ UNCHANGED <<account, rows, request, task>>

Next ==
    \/ \E a \in Account, amount \in Amount, k \in Key : Deposit(a, amount, k)
    \/ \E a \in Account, amount \in Amount, k \in Key \cup Payout : Withdraw(a, amount, k)
    \/ \E p \in Payout : PayoutReturns(p)
    \/ \E a \in Account, amount \in Amount \cup {0}, k \in Key : OpenAccount(a, amount, k)
    \/ \E a \in Account : OpenRegularAccount(a) \/ Freeze(a) \/ Unfreeze(a) \/ Reactivate(a)
    \/ \E a \in Account, k \in Key : CloseAccount(a, k)
    \/ \E q \in Request, a \in Account, amount \in Amount : RequestWithdrawal(q, a, amount)
    \/ \E q \in Request : ApproveRequest(q) \/ \E to \in {"REJECTED", "CANCELLED"} : DropRequest(q, to)
    \/ \E p \in Poster : RunStarts(p) \/ RunGoesOn(p)
    \/ Tick

Spec == Init /\ [][Next]_vars

\* The server's own run starts at once and every six hours after.
FairSpec == Spec /\ WF_vars(RunStarts(Timer)) /\ WF_vars(RunGoesOn(Timer))

-----------------------------------------------------------------------------
\* Properties

RequestStatus == {"NONE", "PENDING", "APPROVED", "REJECTED", "CANCELLED"}

\* A withdrawal request is paid exactly when it is approved, once, from the
\* account and in the amount it was made for (decideWithdrawalRequest).
RequestPaidOnce ==
    \A q \in Request :
        LET paid == {r \in rows : r.key = q} IN
        IF request[q].status # "APPROVED" THEN paid = {}
        ELSE \E r \in paid : /\ paid = {r} /\ r.kind = "WITHDRAWAL"
                             /\ r.account = request[q].account /\ r.amount = request[q].amount

\* Interest is what its month earned, by the rows as they are now: no deposit,
\* withdrawal or returned payout ever enters a month that has been paid for,
\* and no month is paid before it is over (runInterestPosting).
InterestIsEarned ==
    \A r \in rows : r.kind = "INTEREST" =>
        r.key < MonthOf(r.day) /\ r.amount = Interest(r.account, r.key)

\* The withdrawals dated in a month that did not come back.
Kept(a, month) ==
    {w \in RowsOf(a) : /\ w.kind = "WITHDRAWAL" /\ MonthOf(w.day) = month
                       /\ ~ \E r \in rows : r.key = w.key /\ r.kind = "PAYOUT_REFUND"}
\* The payouts of an earlier month that came back in this one.
LateRefunds(a, month) ==
    {r \in RowsOf(a) : /\ r.kind = "PAYOUT_REFUND" /\ MonthOf(r.day) = month
                       /\ \E w \in RowsOf(a) : w.key = r.key /\ MonthOf(w.day) < month}

\* The monthly limit of the product gives way by no more than the payouts of
\* earlier months that came back in the month (withdrawalsThisMonth subtracts
\* them from a count they were never in); closing is outside the limit.
MonthlyLimitBends ==
    \A a \in Account, m \in 0..MonthOf(LastDay) : IsOpen(a) =>
        Cardinality(Kept(a, m)) <= Product[a].perMonth + Cardinality(LateRefunds(a, m))

\* A closed account stays closed, and nothing is posted to it any more: not by
\* a run of the interest that listed it while it was open, not by a payout
\* that comes back, not by a request made before.
ClosedIsFinal ==
    [][\A a \in Account : status[a] = "CLOSED" =>
          status'[a] = "CLOSED" /\ {r \in rows' : r.account = a} = RowsOf(a)]_vars

\* Every month's interest is posted in the end unless the account is closed
\* first, even though a closed account on a run's list ends the run.
InterestArrives ==
    \A a \in Account, m \in 0..(MonthOf(LastDay) - 1) :
        (IsOpen(a) /\ m \in MonthOf(opened[a])..(MonthOf(today) - 1) /\ Interest(a, m) > 0)
            ~> (status[a] = "CLOSED" \/ \E r \in RowsOf(a) : r.kind = "INTEREST" /\ r.key = m)

=============================================================================
