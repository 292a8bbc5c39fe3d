------------------------------ MODULE MemberLocks ------------------------------
(***************************************************************************)
(* The database transactions that move one member's savings, statement by  *)
(* statement (src/src/payments/service.ts, src/src/savings/service.ts).    *)
(*                                                                         *)
(* OnlinePayout and OnlineDeposit take each of them as one step.  Here a   *)
(* transaction takes its row locks one at a time, reads what is committed  *)
(* when each of its statements begins (PostgreSQL, READ COMMITTED), and    *)
(* what it writes is seen by the others, all at once, when it commits.     *)
(***************************************************************************)
EXTENDS Integers, FiniteSets, Functions

CONSTANTS
    Payout,          \* payout rows the member may create
    Account,         \* the member's savings accounts
    Member,          \* the member's row in borrowers
    Session,         \* database connections
    None,            \* no session, no row
    From,            \* From[p]: the savings account payout p is taken from
    Amount,          \* Amount[p]
    CounterAmount,   \* amount of a deposit or withdrawal at the counter
    Opening,         \* Opening[a]: balance of account a at first
    DailyLimit,      \* deps.dailyLimit; one day
    MaxBalance       \* bound on what deposits make of a balance

Row == Payout \cup Account \cup {Member}

ASSUME LockAssumption ==
    /\ IsFiniteSet(Payout) /\ IsFiniteSet(Account)
    /\ Payout \cap Account = {} /\ Member \notin Payout \cup Account
    /\ None \notin Session \cup Row
    /\ From \in [Payout -> Account]
    /\ Amount \in [Payout -> Nat \ {0}]
    /\ CounterAmount \in Nat \ {0}
    /\ Opening \in [Account -> Nat]
    /\ DailyLimit \in Nat /\ MaxBalance \in Nat

VARIABLES
    \* committed
    status,     \* status of each payout
    balance,    \* savings_accounts.balance
    posted,     \* the sum of an account's savings_transactions
    total,      \* borrowers.savings_balance
    \* not committed
    owner,      \* the session that holds each row's lock
    session,    \* what each session is doing
    sum         \* the sum of the balances each session has read

committed == <<status, balance, posted, total>>
vars      == <<committed, owner, session, sum>>

-------------------------------------------------------------------------------
\* SUBMITTING stands for every status of a payout that was taken and not returned.
Status == {"NONE", "AWAITING_OTP", "SUBMITTING", "REFUNDED", "CANCELLED"}

Kind  == {"none", "start", "confirm", "cancel", "refund", "deposit", "withdraw"}
Stage == {"idle",
          "row", "account", "member",   \* about to lock that row
          "check",    \* about to check the limit and the balance
          "earlier",  \* about to look for earlier codes to cancel
          "other",    \* about to lock, and cancel, one of them
          "insert",   \* about to insert the payout
          "sync",     \* about to sum the balances (syncMemberTotal)
          "total"}    \* has the sum, about to lock and write the member's row

Work == [kind : Kind, payout : Payout \cup {None}, account : Account \cup {None}, at : Stage,
         read : Nat,               \* the balance read when the account was locked
         others : SUBSET Payout,   \* earlier codes the statement found and has yet to visit
         other : Payout \cup {None},
         cancelled : SUBSET Payout]

Fresh(kind, p, a, stage) ==
    [kind |-> kind, payout |-> p, account |-> a, at |-> stage, read |-> 0,
     others |-> {}, other |-> None, cancelled |-> {}]

Idle == Fresh("none", None, None, "idle")

Init ==
    /\ status = [p \in Payout |-> "NONE"]
    /\ balance = Opening /\ posted = Opening
    /\ total = SumFunction(Opening)
    /\ owner = [r \in Row |-> None]
    /\ session = [s \in Session |-> Idle]
    /\ sum = [s \in Session |-> 0]

-------------------------------------------------------------------------------
(***************************************************************************)
(* Rows and their locks.                                                   *)
(***************************************************************************)

Available(s, r) == owner[r] \in {s, None}

Lock(s, r) == Available(s, r) /\ owner' = [owner EXCEPT ![r] = s]

\* Commit or roll back: every lock is released.
End(s) ==
    /\ owner' = [r \in Row |-> IF owner[r] = s THEN None ELSE owner[r]]
    /\ session' = [session EXCEPT ![s] = Idle]

GoesTo(s, stage) == session' = [session EXCEPT ![s].at = stage]

\* The insert of a payout refers to the member: it waits for a session that
\* selected the member's row FOR UPDATE, not for one that updates its total.
MemberSelected(s) ==
    owner[Member] \notin {s, None} /\ session[owner[Member]].kind = "confirm"

\* The row a session cannot go on without.
Wanted(s) ==
    LET t == session[s] IN
    CASE t.at = "row"                 -> t.payout
      [] t.at = "account"             -> t.account
      [] t.at \in {"member", "total"} -> Member
      [] t.at = "other"               -> t.other
      [] t.at = "insert" /\ MemberSelected(s) -> Member
      [] OTHER                        -> None

WaitsFor(s, u) ==
    Wanted(s) # None /\ u # s /\ owner[Wanted(s)] = u

\* Every session is waited for by another of them: somewhere, a cycle.
WaitCycle(S) == S # {} /\ \A s \in S : \E u \in S : WaitsFor(s, u)

-------------------------------------------------------------------------------
(***************************************************************************)
(* The transactions begin.                                                 *)
(***************************************************************************)

Begin(s, work) ==
    /\ session[s] = Idle
    /\ session' = [session EXCEPT ![s] = work]
    /\ UNCHANGED <<committed, owner, sum>>

\* The id of a new payout is its own.
StartPayout(s, p) ==
    /\ status[p] = "NONE" /\ \A u \in Session : session[u].payout # p
    /\ Begin(s, Fresh("start", p, From[p], "account"))
ConfirmPayout(s, p) == status[p] # "NONE" /\ Begin(s, Fresh("confirm", p, From[p], "row"))
CancelPayout(s, p)  == status[p] # "NONE" /\ Begin(s, Fresh("cancel", p, From[p], "row"))
RefundPayout(s, p)  == status[p] # "NONE" /\ Begin(s, Fresh("refund", p, From[p], "row"))
Deposit(s, a) ==
    balance[a] + CounterAmount <= MaxBalance /\ Begin(s, Fresh("deposit", None, a, "account"))
Withdraw(s, a) == Begin(s, Fresh("withdraw", None, a, "account"))

-------------------------------------------------------------------------------
(***************************************************************************)
(* Each of their statements.                                               *)
(***************************************************************************)

\* What the status of the locked row leaves to be done.
RowAllows(kind, st) ==
    \/ kind \in {"confirm", "cancel"} /\ st = "AWAITING_OTP"
    \/ kind = "refund" /\ st = "SUBMITTING"

\* Mistaken: the account's lock is thought to be enough; the member's row is
\* locked before the account.
AccountIsEnough(kind, stage) ==
    CASE stage = "row" -> "account"
      [] stage = "account" /\ kind \in {"deposit", "refund"} -> "sync"
      [] OTHER -> "check"
MemberFirst(kind, stage) ==
    CASE stage = "row" -> IF kind = "confirm" THEN "member" ELSE "account"
      [] stage = "member" -> "account"
      [] stage = "account" /\ kind \in {"deposit", "refund"} -> "sync"
      [] OTHER -> "check"

\* What follows a lock: the row, the account, and for a confirmation the member.
After(kind, stage) ==
    CASE stage = "row" -> "account"
      [] stage = "account" /\ kind = "confirm" -> "member"
      [] stage = "account" /\ kind \in {"deposit", "refund"} -> "sync"
      [] OTHER -> "check"

\* Every handler of a payout but startPayout locks its row first.  A code that
\* is wrong or has expired is refused, and may cancel the payout.
LockRow(s) ==
    LET t == session[s]
        allowed == RowAllows(t.kind, status[t.payout]) IN
    /\ t.at = "row"
    /\ Available(s, t.payout)
    /\ \/ /\ allowed /\ t.kind # "cancel"
          /\ Lock(s, t.payout) /\ GoesTo(s, After(t.kind, "row"))
          /\ UNCHANGED status
       \/ /\ allowed /\ t.kind # "refund"
          /\ status' = [status EXCEPT ![t.payout] = "CANCELLED"]
          /\ End(s)
       \/ /\ allowed => t.kind = "confirm"
          /\ End(s)
          /\ UNCHANGED status
    /\ UNCHANGED <<balance, posted, total, sum>>

\* Mistaken: the account is read and not locked.
ReadAccount(s) ==
    LET t == session[s] IN
    /\ t.at = "account"
    /\ session' = [session EXCEPT ![s].read = balance[t.account], ![s].at = After(t.kind, "account")]
    /\ UNCHANGED <<committed, owner, sum>>

\* lockAccount.
LockAccount(s) ==
    LET t == session[s] IN
    /\ t.at = "account"
    /\ Lock(s, t.account)
    /\ session' = [session EXCEPT ![s].read = balance[t.account], ![s].at = After(t.kind, "account")]
    /\ UNCHANGED <<committed, sum>>

\* confirmPayout: select ... from borrowers ... for update.
LockMember(s) ==
    /\ session[s].at = "member"
    /\ Lock(s, Member)
    /\ GoesTo(s, After(session[s].kind, "member"))
    /\ UNCHANGED <<committed, sum>>

UsedToday == SumFunctionOnSet(Amount, {p \in Payout : status[p] = "SUBMITTING"})

\* Mistaken: the balance was looked at when the withdrawal was started.
AllowedByLimit(t) ==
    IF t.kind = "withdraw" THEN CounterAmount <= t.read
    ELSE UsedToday + Amount[t.payout] <= DailyLimit

Allowed(t) ==
    IF t.kind = "withdraw"
    THEN CounterAmount <= t.read
    ELSE Amount[t.payout] <= t.read /\ UsedToday + Amount[t.payout] <= DailyLimit

\* A withdrawal that is not allowed is undone; a confirmed one is cancelled.
Check(s) ==
    LET t == session[s] IN
    /\ t.at = "check"
    /\ \/ /\ Allowed(t)
          /\ GoesTo(s, IF t.kind = "start" THEN "earlier" ELSE "sync")
          /\ UNCHANGED <<status, owner>>
       \/ ~Allowed(t) /\ t.kind # "confirm" /\ End(s) /\ UNCHANGED status
       \/ /\ ~Allowed(t) /\ t.kind = "confirm"
          /\ status' = [status EXCEPT ![t.payout] = "CANCELLED"] /\ End(s)
    /\ UNCHANGED <<balance, posted, total, sum>>

\* One code at a time: the update of startPayout visits the rows it found one
\* by one, in no particular order.
Visit(s, t, rest) ==
    IF rest = {}
    THEN session' = [session EXCEPT ![s] = [t EXCEPT !.others = {}, !.other = None, !.at = "insert"]]
    ELSE \E p \in rest :
           session' = [session EXCEPT ![s] = [t EXCEPT !.others = rest, !.other = p, !.at = "other"]]

FindEarlier(s) ==
    /\ session[s].at = "earlier"
    /\ Visit(s, session[s], {p \in Payout : status[p] = "AWAITING_OTP"})
    /\ UNCHANGED <<committed, owner, sum>>

\* Mistaken: what the statement found is cancelled whatever became of it.
CancelFound(s) ==
    LET t == session[s] IN
    /\ t.at = "other"
    /\ Lock(s, t.other)
    /\ Visit(s, [t EXCEPT !.cancelled = @ \cup {t.other}], t.others \ {t.other})
    /\ UNCHANGED <<committed, sum>>

\* A row another session changed meanwhile is looked at again once it is free.
CancelEarlier(s) ==
    LET t == session[s] IN
    /\ t.at = "other"
    /\ Available(s, t.other)
    /\ IF status[t.other] = "AWAITING_OTP"
       THEN /\ Lock(s, t.other)
            /\ Visit(s, [t EXCEPT !.cancelled = @ \cup {t.other}], t.others \ {t.other})
       ELSE Visit(s, t, t.others \ {t.other}) /\ UNCHANGED owner
    /\ UNCHANGED <<committed, sum>>

InsertPayout(s) ==
    LET t == session[s] IN
    /\ t.at = "insert" /\ ~MemberSelected(s)
    /\ status' = [p \in Payout |-> IF p = t.payout THEN "AWAITING_OTP"
                                   ELSE IF p \in t.cancelled THEN "CANCELLED" ELSE status[p]]
    /\ End(s)
    /\ UNCHANGED <<balance, posted, total, sum>>

Signed(t) ==
    CASE t.kind = "deposit"  -> CounterAmount
      [] t.kind = "withdraw" -> -CounterAmount
      [] t.kind = "confirm"  -> -Amount[t.payout]
      [] OTHER               -> Amount[t.payout]

\* syncMemberTotal sums what is committed as its statement begins, and the
\* session's own change; the statement may then wait for the member's row.
SumBalances(s) ==
    LET t == session[s] IN
    /\ t.at = "sync"
    /\ sum' = [sum EXCEPT ![s] =
                 t.read + Signed(t) + SumFunctionOnSet(balance, Account \ {t.account})]
    /\ GoesTo(s, "total")
    /\ UNCHANGED <<committed, owner>>

\* The member's row is written and the transaction commits.
Commit(s) ==
    LET t == session[s] IN
    /\ t.at = "total"
    /\ Available(s, Member)
    /\ balance' = [balance EXCEPT ![t.account] = t.read + Signed(t)]
    /\ posted' = [posted EXCEPT ![t.account] = @ + Signed(t)]
    /\ total' = sum[s]
    /\ status' = CASE t.kind = "confirm" -> [status EXCEPT ![t.payout] = "SUBMITTING"]
                   [] t.kind = "refund"  -> [status EXCEPT ![t.payout] = "REFUNDED"]
                   [] OTHER              -> status
    /\ End(s)
    /\ UNCHANGED sum

\* PostgreSQL breaks a wait cycle by rolling one of its transactions back
\* (nobody retries it); a lost connection or a crash does the same.
RollBack(s) ==
    /\ session[s] # Idle
    /\ End(s)
    /\ UNCHANGED <<committed, sum>>

-------------------------------------------------------------------------------
BeginStep(s) ==
    \/ \E p \in Payout : \/ StartPayout(s, p)
                         \/ ConfirmPayout(s, p)
                         \/ CancelPayout(s, p)
                         \/ RefundPayout(s, p)
    \/ \E a \in Account : Deposit(s, a) \/ Withdraw(s, a)

Statement(s) ==
    \/ LockRow(s)
    \/ LockAccount(s)
    \/ LockMember(s)
    \/ Check(s)
    \/ FindEarlier(s)
    \/ CancelEarlier(s)
    \/ InsertPayout(s)
    \/ SumBalances(s)
    \/ Commit(s)

Next == \E s \in Session : BeginStep(s) \/ Statement(s) \/ RollBack(s)

Spec == Init /\ [][Next]_vars

-------------------------------------------------------------------------------
TypeOK ==
    /\ status \in [Payout -> Status]
    /\ balance \in [Account -> Nat]
    /\ posted \in [Account -> Nat]
    /\ total \in Nat
    /\ owner \in [Row -> Session \cup {None}]
    /\ session \in [Session -> Work]
    /\ sum \in [Session -> Nat]

\* The fields a session's kind and stage call for.
Shaped(t) ==
    /\ t.kind = "none" <=> t.at = "idle"
    /\ t.at # "idle" => t.account \in Account
    /\ t.at = "row" => t.kind \in {"confirm", "cancel", "refund"}
    /\ t.kind = "cancel" => t.at = "row"
    /\ t.at = "member" => t.kind = "confirm"
    /\ t.kind \in {"deposit", "refund"} => t.at # "check"
    /\ t.at \in {"earlier", "other", "insert"} => t.kind = "start"
    /\ t.kind = "start" => t.at \in {"account", "check", "earlier", "other", "insert"}
    /\ t.at = "other" => t.other \in Payout
    /\ t.kind \in {"start", "confirm", "cancel", "refund"} => t.payout \in Payout
    /\ t.kind # "start" => t.cancelled = {}

\* What a session has read under a lock it still holds is still so.
AccountHeld == \A s \in Session : LET t == session[s] IN
    t.at \notin {"idle", "row", "account"} =>
        owner[t.account] = s /\ t.read = balance[t.account]

RowHeld == \A s \in Session : LET t == session[s] IN
    /\ t.kind \in {"confirm", "refund"} /\ t.at # "row" =>
           owner[t.payout] = s /\ RowAllows(t.kind, status[t.payout])
    /\ \A p \in t.cancelled : owner[p] = s /\ status[p] = "AWAITING_OTP"

\* A payout being started is known to nobody else.
StartsFresh == \A s \in Session : session[s].kind = "start" =>
    /\ status[session[s].payout] = "NONE"
    /\ \A u \in Session : session[u].payout = session[s].payout => u = s

\* A withdrawal is posted only if the balance allows it.
Affordable == \A s \in Session : LET t == session[s] IN
    t.at \in {"sync", "total"} => t.read + Signed(t) >= 0

\* How far a session that holds a lock has come.
OwnersKnown == \A r \in Row : owner[r] # None =>
    LET t == session[owner[r]] IN
    /\ t.at \notin {"idle", "row"}
    /\ r \in Account => t.at # "account"
    /\ r = Member => t.kind = "confirm" /\ t.at \in {"check", "sync", "total"}

\* "Two withdrawals at once cannot overdraw" (service.ts:657): no posting is
\* lost, whichever counter, confirmation and refund meet on an account.
BalanceIsLedger == balance = posted

\* Inductive (MemberLocks_proofs), whatever the totals.
IndInv ==
    /\ status \in [Payout -> Status]
    /\ balance \in [Account -> Nat]
    /\ owner \in [Row -> Session \cup {None}]
    /\ session \in [Session -> Work]
    /\ \A s \in Session : Shaped(session[s])
    /\ AccountHeld
    /\ RowHeld
    /\ StartsFresh
    /\ Affordable
    /\ OwnersKnown
    /\ BalanceIsLedger

\* "... or exceed it": two confirmations on two accounts of the member share
\* the day's limit.  Two codes can wait at once, when two starts on two
\* accounts do not see each other.
DailyLimitHeld == UsedToday <= DailyLimit

\* A start that found a code waiting does not cancel the payout if it was
\* confirmed meanwhile (service.ts:614): what was taken is only ever returned.
TakenStaysTaken ==
    [][\A p \in Payout : status[p] = "SUBMITTING" => status'[p] \in {"SUBMITTING", "REFUNDED"}]_vars

\* Every wait cycle goes through a startPayout: all the other transactions keep
\* the lock order (service.ts:48).
OnlyStartsDeadlock ==
    \A S \in SUBSET {s \in Session : session[s].kind # "start"} : ~WaitCycle(S)

\* "borrowers.savings_balance is a cache rewritten from the exact account
\* balances" (docs/AUDIT.md:141).
MemberTotalIsSum == total = SumFunction(balance)
===============================================================================
