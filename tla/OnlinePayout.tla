----------------------------- MODULE OnlinePayout -----------------------------
(***************************************************************************)
(* Instant withdrawals of one member from one savings account              *)
(* (src/src/payments/service.ts).                                          *)
(*                                                                         *)
(* The unit of atomicity is the database transaction: every handler locks  *)
(* the payout's row FOR UPDATE and commits once.  What interleaves is what *)
(* happens between transactions: a handler reads the row without a lock,   *)
(* asks or instructs the payment provider over the network, and acts on    *)
(* the answer later, while other requests, webhook deliveries, staff and   *)
(* the sweep do the same.  A handler in progress is a worker's task.  One  *)
(* transaction reads one business day, however often it asks the clock.    *)
(***************************************************************************)
EXTENDS Integers, FiniteSets, Functions

CONSTANTS
    Payout,           \* payout rows the member may create
    NoPayout,         \* not a payout: the task of an idle worker
    Request,          \* workers that serve members, webhooks and staff
    Sweeper,          \* workers that run sweepOnlinePayments
    StaffAction,      \* what staff may do to a payout: resolvePayout's actions
    BranchAction,     \* what staff may do to the savings account
    Amount,           \* Amount[p]: what payout p is for
    Cash,             \* amounts moved over the branch counter
    OpeningBalance,   \* balance of the savings account at first
    MaxBalance,       \* bound on the balance counter deposits can reach
    MinimumBalance,   \* the product's minimum balance
    DailyLimit,       \* ONLINE_WITHDRAWAL_DAILY_LIMIT
    MaxStarts,        \* MAX_WITHDRAWAL_STARTS_PER_DAY
    OtpMaxAttempts,   \* OTP_MAX_ATTEMPTS
    LastDay,          \* bound on the business day
    MaxCrashes        \* bound on server restarts

Worker == Request \cup Sweeper

ASSUME PayoutAssumption ==
    /\ NoPayout \notin Payout
    /\ IsFiniteSet(Payout)
    /\ Request \cap Sweeper = {}
    /\ StaffAction \subseteq {"RECHECK", "RETRY", "REFUND"}
    /\ BranchAction \subseteq {"CLOSE", "FREEZE", "UNFREEZE", "REMOVE"}
    /\ Amount \in [Payout -> Nat \ {0}]
    /\ Cash \subseteq Nat \ {0}
    /\ OpeningBalance \in Nat /\ MaxBalance \in Nat /\ MinimumBalance \in Nat
    /\ DailyLimit \in Nat /\ MaxStarts \in Nat
    /\ OtpMaxAttempts \in Nat \ {0}
    /\ LastDay \in Nat \ {0} /\ MaxCrashes \in Nat

VARIABLES
    \* the rows of online_payouts
    status, businessDate, otpAttempts,
    idle,        \* updatedAt is more than two minutes ago
    overdue,     \* submittedAt is more than PAYOUT_REVIEW_AFTER_MS ago
    \* the savings account and its postings
    account, balance,
    posted,      \* idempotency keys in savings_transactions
    debited,     \* the date of the withdrawal posted for a payout, 0 if none is
    counter,     \* net cash moved over the counter
    verified,    \* the member's payout account is VERIFIED
    \* the payment provider
    provider,    \* its record under the payout's reference, "NONE" if it has none
    mismatch,    \* that record's amount is not the row's
    late,        \* payouts with a createPayout request underway nobody waits for
    \* the server
    task, today, crashes

row      == <<status, businessDate, otpAttempts, idle, overdue>>
savings  == <<account, balance, posted, debited, counter, verified>>
external == <<provider, mismatch, late>>
vars     == <<row, savings, external, task, today, crashes>>

-------------------------------------------------------------------------------
Status == {"NONE", "AWAITING_OTP", "CANCELLED", "SUBMITTING", "PROCESSING",
           "PAID", "REFUNDED", "NEEDS_REVIEW"}
TAKEN  == {"SUBMITTING", "PROCESSING", "PAID", "NEEDS_REVIEW"}
Open   == {"SUBMITTING", "PROCESSING"}
NotTaken == {"NONE", "AWAITING_OTP", "CANCELLED"}

PayoutState == {"NONE", "PENDING", "SUCCEEDED", "FAILED"}
AccountStatus == {"ACTIVE", "FROZEN", "CLOSED"}

Kind == {"none", "submit", "webhook", "sweep"} \cup StaffAction
Stage == {"idle",
          "ask",       \* about to ask the provider about the payout
          "act",       \* holds the provider's answer
          "send",      \* in submitPayout, before it reads the row
          "calling",   \* createPayout sent, not at the provider yet
          "called",    \* createPayout reached the provider, answer not back yet
          "apply",     \* holds createPayout's answer
          "refused",   \* holds a definite refusal of createPayout
          "check"}     \* sweep: is the payout overdue?

\* "seen" is the status in the row a handler read, "view" the provider's answer.
Task == [kind : Kind, payout : Payout \cup {NoPayout}, at : Stage,
         seen : Status, view : PayoutState]

Job(kind, p, stage) ==
    [kind |-> kind, payout |-> p, at |-> stage, seen |-> "NONE", view |-> "NONE"]

Idle == Job("none", NoPayout, "idle")

Waiting(w, p) == task[w].payout = p /\ task[w].at \in {"calling", "called"}
Underway(p) == p \in late \/ \E w \in Worker : Waiting(w, p) /\ task[w].at = "calling"

Debit(p)  == <<"online-payout", p>>
Credit(p) == <<"online-payout-refund", p>>
Key == {"online-payout", "online-payout-refund"} \X Payout

SumOf(ps) == SumFunctionOnSet(Amount, ps)

UsedToday(day) == SumOf({p \in Payout : status[p] \in TAKEN /\ businessDate[p] = day})
StartsOn(day)  == Cardinality({p \in Payout : status[p] # "NONE" /\ businessDate[p] = day})

\* Mistaken: only the status of the account is looked at.
AllowedByStatus(amount) == account = "ACTIVE"

\* checkWithdrawal, for the account's status and balance rules.
WithdrawalAllowed(amount) ==
    /\ account = "ACTIVE"
    /\ amount <= balance
    /\ balance - amount >= MinimumBalance

\* instantWithdrawalRoom against the day's limit.
HasRoom(p) == Amount[p] <= DailyLimit - UsedToday(today)

-------------------------------------------------------------------------------
Init ==
    /\ status = [p \in Payout |-> "NONE"]
    /\ businessDate = [p \in Payout |-> 1]
    /\ otpAttempts = [p \in Payout |-> 0]
    /\ idle = [p \in Payout |-> FALSE]
    /\ overdue = [p \in Payout |-> FALSE]
    /\ account = "ACTIVE"
    /\ balance = OpeningBalance
    /\ posted = {}
    /\ debited = [p \in Payout |-> 0]
    /\ counter = 0
    /\ verified = TRUE
    /\ provider = [p \in Payout |-> "NONE"]
    /\ mismatch = [p \in Payout |-> FALSE]
    /\ late = {}
    /\ task = [w \in Worker |-> Idle]
    /\ today = 1
    /\ crashes = 0

-------------------------------------------------------------------------------
\* An UPDATE of payout p's status sets updatedAt.  How old submittedAt is
\* matters only while the payout may be open again.
SetStatus(p, s) ==
    /\ status' = [status EXCEPT ![p] = s]
    /\ idle' = [idle EXCEPT ![p] = FALSE]
    /\ overdue' = [overdue EXCEPT ![p] = IF s \in Open \cup {"NEEDS_REVIEW"} THEN @ ELSE FALSE]

-------------------------------------------------------------------------------
(***************************************************************************)
(* The member's requests that only touch the row.                          *)
(***************************************************************************)

\* A new withdrawal cancels the one still waiting for its code.
StartPayout(p) ==
    /\ status[p] = "NONE"
    /\ verified
    /\ HasRoom(p)
    /\ WithdrawalAllowed(Amount[p])
    /\ StartsOn(today) < MaxStarts
    /\ status' = [q \in Payout |->
                    IF q = p THEN "AWAITING_OTP"
                    ELSE IF status[q] = "AWAITING_OTP" THEN "CANCELLED"
                    ELSE status[q]]
    /\ businessDate' = [businessDate EXCEPT ![p] = today]
    /\ UNCHANGED <<otpAttempts, idle, overdue, savings, external, task, today, crashes>>

\* The code could not be emailed, the member cancels, or the code is right but
\* it expired or a check no longer passes.
CancelPayout(p) ==
    /\ status[p] = "AWAITING_OTP"
    /\ SetStatus(p, "CANCELLED")
    /\ UNCHANGED <<businessDate, otpAttempts, savings, external, task, today, crashes>>

WrongCode(p) ==
    /\ status[p] = "AWAITING_OTP"
    /\ otpAttempts' = [otpAttempts EXCEPT ![p] = @ + 1]
    /\ IF otpAttempts[p] + 1 >= OtpMaxAttempts
       THEN SetStatus(p, "CANCELLED")
       ELSE UNCHANGED <<status, idle, overdue>>
    /\ UNCHANGED <<businessDate, savings, external, task, today, crashes>>

-------------------------------------------------------------------------------
(***************************************************************************)
(* confirmPayout: one transaction that checks everything again and takes   *)
(* the money, then submitPayout outside it.                                *)
(***************************************************************************)

\* postOnlineMovement: a repeat under the same key returns the first posting.
TakeMoney(p) ==
    /\ balance' = IF Debit(p) \in posted THEN balance ELSE balance - Amount[p]
    /\ posted' = posted \cup {Debit(p)}
    /\ debited' = IF Debit(p) \in posted THEN debited ELSE [debited EXCEPT ![p] = today]

\* Mistaken: the payout goes on counting on the day it was started.
CountsFromStart(p) == businessDate' = businessDate

\* A payout counts on the day its money is taken.
CountsToday(p) == businessDate' = [businessDate EXCEPT ![p] = today]

ConfirmPayout(w, p) ==
    /\ task[w] = Idle
    /\ status[p] = "AWAITING_OTP"
    /\ verified
    /\ HasRoom(p)
    /\ WithdrawalAllowed(Amount[p])
    /\ TakeMoney(p)
    /\ SetStatus(p, "SUBMITTING")
    /\ CountsToday(p)
    /\ task' = [task EXCEPT ![w] = Job("submit", p, "send")]
    /\ UNCHANGED <<otpAttempts, account, counter, verified, external, today, crashes>>

-------------------------------------------------------------------------------
(***************************************************************************)
(* What a task does when its handler returns or throws.  The sweep goes on *)
(* to ask whether a payout that is still open is overdue: after a return,  *)
(* from the returned row; after an error, always.                          *)
(***************************************************************************)

\* Mistaken: an error ends the sweep's work on the payout.
ThrownAway(t) == Idle

Thrown(t) == IF t.kind = "sweep" THEN Job("sweep", t.payout, "check") ELSE Idle

Returned(t, s) ==
    IF t.kind = "sweep" /\ s \in Open THEN Job("sweep", t.payout, "check") ELSE Idle

Return(w) == task' = [task EXCEPT ![w] = Returned(task[w], status'[task[w].payout])]
Throw(w)  == task' = [task EXCEPT ![w] = Thrown(task[w])]
Finish(w) == task' = [task EXCEPT ![w] = Idle]

\* On to submitPayout.
Send(w) ==
    LET kind == IF task[w].kind = "sweep" THEN "sweep" ELSE "submit"
    IN  task' = [task EXCEPT ![w] = Job(kind, task[w].payout, "send")]

-------------------------------------------------------------------------------
(***************************************************************************)
(* Transactions on a taken payout.                                         *)
(***************************************************************************)

\* Mistaken: the status is set, the money is not posted.
RefundUnposted(p) ==
    /\ account # "CLOSED"
    /\ SetStatus(p, "REFUNDED")
    /\ posted' = posted \cup {Credit(p)}
    /\ UNCHANGED <<account, balance, debited, counter, verified>>

\* refundTx: a second posting under the same key returns the first, and a
\* CLOSED account may hold no balance (constraint savings_accounts_valid), so
\* the transaction that would credit one rolls back.
RefundTx(p) ==
    /\ account # "CLOSED"
    /\ balance' = IF Credit(p) \in posted THEN balance ELSE balance + Amount[p]
    /\ posted' = posted \cup {Credit(p)}
    /\ SetStatus(p, "REFUNDED")
    /\ UNCHANGED <<account, debited, counter, verified>>

RefundRollsBack ==
    /\ account = "CLOSED"
    /\ UNCHANGED <<status, idle, overdue, savings>>

LeaveAlone == UNCHANGED <<status, idle, overdue, savings>>

\* refundPayout, for a payout the provider is believed not to have.
RefundPayout(w) ==
    LET p == task[w].payout IN
    /\ \/ status[p] \in NotTaken \cup {"REFUNDED"} /\ LeaveAlone /\ Return(w)
       \/ status[p] \in TAKEN /\ RefundTx(p) /\ Return(w)
       \/ status[p] \in TAKEN /\ RefundRollsBack /\ Throw(w)
    /\ UNCHANGED <<businessDate, otpAttempts>>

\* Mistaken: a reviewed payout is not left for staff; a refunded one is
\* marked paid; only open payouts are refunded.
ForgetsReview(view) == CASE view = "PENDING"   -> Status \ {"SUBMITTING", "NEEDS_REVIEW"}
                         [] view = "SUCCEEDED" -> {"PAID", "REFUNDED"}
                         [] view = "FAILED"    -> {"REFUNDED"}
                         [] OTHER              -> Status
ForgetsRefund(view) == CASE view = "PENDING"   -> Status \ {"SUBMITTING"}
                         [] view = "SUCCEEDED" -> {"PAID"}
                         [] view = "FAILED"    -> {"REFUNDED"}
                         [] OTHER              -> Status
ForgetsReversal(view) == CASE view = "PENDING" -> Status \ {"SUBMITTING"}
                         [] view \in {"SUCCEEDED", "FAILED"} -> {"PAID", "REFUNDED"}
                         [] OTHER              -> Status

\* applyPayout: the statuses a matching answer leaves as they are.
LeftAsIs(view) == CASE view = "PENDING"   -> Status \ {"SUBMITTING"}
                    [] view = "SUCCEEDED" -> {"PAID", "REFUNDED"}
                    [] view = "FAILED"    -> {"REFUNDED"}
                    [] OTHER              -> Status

NothingToApply(p, view) ==
    \/ status[p] \in NotTaken
    \/ view = "NONE"
    \/ mismatch[p] /\ status[p] \in {"REFUNDED", "PAID", "NEEDS_REVIEW"}
    \/ ~mismatch[p] /\ status[p] \in LeftAsIs(view)

\* Mistaken: a payout the provider accepted counts as paid.
AcceptedIsPaid(view) == "PAID"

\* applyPayout: what a matching answer makes of a row it does change.
Outcome(view) == CASE view = "PENDING"   -> "PROCESSING"
                   [] view = "SUCCEEDED" -> "PAID"
                   [] OTHER              -> "REFUNDED"

ApplyPayout(w) ==
    LET p == task[w].payout
        view == task[w].view
        outcome == IF mismatch[p] THEN "NEEDS_REVIEW" ELSE Outcome(view) IN
    /\ \/ NothingToApply(p, view) /\ LeaveAlone /\ Return(w)
       \/ /\ ~NothingToApply(p, view)
          /\ \/ outcome # "REFUNDED" /\ SetStatus(p, outcome) /\ UNCHANGED savings /\ Return(w)
             \/ outcome = "REFUNDED" /\ RefundTx(p) /\ Return(w)
             \/ outcome = "REFUNDED" /\ RefundRollsBack /\ Throw(w)
    /\ UNCHANGED <<businessDate, otpAttempts>>

-------------------------------------------------------------------------------
(***************************************************************************)
(* submitPayout.                                                           *)
(***************************************************************************)

\* The unlocked read: only a SUBMITTING payout is sent.
SubmitRead(w) ==
    LET p == task[w].payout IN
    /\ task[w].at = "send"
    /\ task' = [task EXCEPT ![w] = IF status[p] = "SUBMITTING"
                                   THEN [@ EXCEPT !.at = "calling"]
                                   ELSE Returned(@, status[p])]
    /\ UNCHANGED <<row, savings, external, today, crashes>>

\* The provider answered with its record of the payout.
SubmitAnswered(w) ==
    /\ task[w].at = "called"
    /\ task' = [task EXCEPT ![w].at = "apply", ![w].view = provider[task[w].payout]]
    /\ UNCHANGED <<row, savings, external, today, crashes>>

\* A definite refusal: the provider certainly did not take this request.
SubmitRefused(w) ==
    /\ task[w].at = "calling"
    /\ provider[task[w].payout] = "NONE"
    /\ task' = [task EXCEPT ![w].at = "refused"]
    /\ UNCHANGED <<row, savings, external, today, crashes>>

\* Mistaken: no answer is taken for a refusal.
UnknownIsRefused(w) ==
    /\ task[w].at \in {"calling", "called"}
    /\ late' = IF task[w].at = "calling" THEN late \cup {task[w].payout} ELSE late
    /\ RefundPayout(w)
    /\ UNCHANGED <<provider, mismatch, today, crashes>>

\* Timed out or unreachable: the request may or may not have arrived, and may
\* still arrive.  The row gets a note whatever its status; updatedAt moves.
SubmitUnknown(w) ==
    LET p == task[w].payout IN
    /\ task[w].at \in {"calling", "called"}
    /\ late' = IF task[w].at = "calling" THEN late \cup {p} ELSE late
    /\ idle' = [idle EXCEPT ![p] = FALSE]
    /\ task' = [task EXCEPT ![w] = Returned(task[w], status[p])]
    /\ UNCHANGED <<status, businessDate, otpAttempts, overdue, savings, provider, mismatch,
                   today, crashes>>

SubmitApply(w) ==
    /\ task[w].at = "apply"
    /\ ApplyPayout(w)
    /\ UNCHANGED <<external, today, crashes>>

SubmitRefund(w) ==
    /\ task[w].at = "refused"
    /\ RefundPayout(w)
    /\ UNCHANGED <<external, today, crashes>>

-------------------------------------------------------------------------------
(***************************************************************************)
(* Handlers that ask the provider first: webhookForPayout, one payout of   *)
(* sweepOnlinePayments, and resolvePayout.  Each begins with an unlocked   *)
(* read of the row; the sweep and RECHECK go by what they saw.             *)
(***************************************************************************)

Begin(w, kind, p) ==
    /\ task[w] = Idle
    /\ task' = [task EXCEPT ![w] = [Job(kind, p, "ask") EXCEPT
                    !.seen = IF kind \in {"sweep", "RECHECK"} THEN status[p] ELSE @]]
    /\ UNCHANGED <<row, savings, external, today, crashes>>

\* The provider may notify at any time after it has the payout, repeatedly and
\* late; syncPayout ignores what was never taken or is already refunded.
WebhookArrives(w, p) ==
    /\ provider[p] # "NONE"
    /\ status[p] \notin NotTaken \cup {"REFUNDED"}
    /\ Begin(w, "webhook", p)

\* The sweep lists open payouts nobody touched for two minutes.
SweepPicks(w, p) ==
    /\ status[p] \in Open
    /\ idle[p]
    /\ Begin(w, "sweep", p)

StaffResolves(w, p, action) ==
    /\ status[p] \in Open \cup {"NEEDS_REVIEW"}
    /\ Begin(w, action, p)

\* getPayout or findPayout; "NONE" is null, the provider never received it.
ProviderLookup(w) ==
    /\ task[w].at = "ask"
    /\ task' = [task EXCEPT ![w].at = "act", ![w].view = provider[task[w].payout]]
    /\ UNCHANGED <<row, savings, external, today, crashes>>

\* The provider cannot be asked: a webhook is answered 500, staff get an error.
LookupFails(w) ==
    /\ task[w].at = "ask"
    /\ Throw(w)
    /\ UNCHANGED <<row, savings, external, today, crashes>>

WebhookActs(w) ==
    /\ task[w].at = "act" /\ task[w].kind = "webhook"
    /\ ApplyPayout(w)
    /\ UNCHANGED <<external, today, crashes>>

\* Only a payout seen SUBMITTING is sent again.  (The code also asks that it
\* had no provider id; a payout with one is never reported as unknown.)
SweepActs(w) ==
    /\ task[w].at = "act" /\ task[w].kind = "sweep"
    /\ IF task[w].view = "NONE" /\ task[w].seen = "SUBMITTING"
       THEN Send(w) /\ UNCHANGED <<row, savings>>
       ELSE ApplyPayout(w)
    /\ UNCHANGED <<external, today, crashes>>

\* Past two hours an open payout goes to staff, read again under its lock.
SweepChecks(w) ==
    LET p == task[w].payout IN
    /\ task[w].at = "check"
    /\ IF overdue[p] /\ status[p] \in Open
       THEN SetStatus(p, "NEEDS_REVIEW")
       ELSE UNCHANGED <<status, idle, overdue>>
    /\ Finish(w)
    /\ UNCHANGED <<businessDate, otpAttempts, savings, external, today, crashes>>

\* RECHECK of a reviewed payout the provider still has pending reopens it,
\* unless it left review meanwhile; otherwise it applies the answer.
Recheck(w) ==
    LET p == task[w].payout IN
    /\ task[w].at = "act" /\ task[w].kind = "RECHECK"
    /\ IF task[w].view = "PENDING" /\ task[w].seen = "NEEDS_REVIEW"
       THEN /\ IF status[p] = "NEEDS_REVIEW"
               THEN SetStatus(p, "PROCESSING")
               ELSE UNCHANGED <<status, idle, overdue>>
            /\ Finish(w)
            /\ UNCHANGED <<businessDate, otpAttempts, savings>>
       ELSE ApplyPayout(w)
    /\ UNCHANGED <<external, today, crashes>>

\* Mistaken: the row is put back whatever became of it meanwhile.
RetryAnyRow(p) == SetStatus(p, "SUBMITTING")

\* RETRY: the row is put back to SUBMITTING unless it was settled meanwhile.
RetryRow(p) ==
    IF status[p] \in {"NEEDS_REVIEW", "SUBMITTING"}
    THEN SetStatus(p, "SUBMITTING")
    ELSE UNCHANGED <<status, idle, overdue>>

\* Only a payout the provider has no record of is sent again.
Retry(w) ==
    /\ task[w].at = "act" /\ task[w].kind = "RETRY"
    /\ IF task[w].view = "NONE"
       THEN RetryRow(task[w].payout) /\ Send(w)
       ELSE UNCHANGED <<status, idle, overdue>> /\ Finish(w)
    /\ UNCHANGED <<businessDate, otpAttempts, savings, external, today, crashes>>

\* REFUND when the provider had no record, or reports the payout failed.
StaffRefund(w) ==
    /\ task[w].at = "act" /\ task[w].kind = "REFUND"
    /\ CASE task[w].view = "NONE"   -> RefundPayout(w)
         [] task[w].view = "FAILED" -> ApplyPayout(w)
         [] OTHER -> UNCHANGED <<row, savings>> /\ Finish(w)
    /\ UNCHANGED <<external, today, crashes>>

-------------------------------------------------------------------------------
(***************************************************************************)
(* The provider: one record per reference, PENDING until it succeeds or    *)
(* fails; a success may be reversed later.  A request nobody waits for may *)
(* still arrive.                                                           *)
(***************************************************************************)

\* The reference is the idempotency key: only the first request has an effect.
AcceptRequest(p) ==
    IF provider[p] = "NONE"
    THEN /\ provider' = [provider EXCEPT ![p] = "PENDING"]
         /\ \E differs \in BOOLEAN : mismatch' = [mismatch EXCEPT ![p] = differs]
    ELSE UNCHANGED <<provider, mismatch>>

RequestArrives(w) ==
    /\ task[w].at = "calling"
    /\ AcceptRequest(task[w].payout)
    /\ task' = [task EXCEPT ![w].at = "called"]
    /\ UNCHANGED <<row, savings, late, today, crashes>>

LateRequestArrives(p) ==
    /\ p \in late
    /\ late' = late \ {p}
    /\ AcceptRequest(p)
    /\ UNCHANGED <<row, savings, task, today, crashes>>

ProviderSettles(p, state) ==
    /\ \/ provider[p] = "PENDING"   /\ state \in {"SUCCEEDED", "FAILED"}
       \/ provider[p] = "SUCCEEDED" /\ state = "FAILED"
    /\ provider' = [provider EXCEPT ![p] = state]
    /\ UNCHANGED <<row, savings, mismatch, late, task, today, crashes>>

-------------------------------------------------------------------------------
(***************************************************************************)
(* The branch, on the same account, and the member's payout account.       *)
(***************************************************************************)

BranchOnly == UNCHANGED <<row, posted, debited, external, task, today, crashes>>

CounterDeposit(amount) ==
    /\ account # "CLOSED"
    /\ balance + amount <= MaxBalance
    /\ balance' = balance + amount
    /\ counter' = counter + amount
    /\ BranchOnly /\ UNCHANGED <<account, verified>>

CounterWithdraw(amount) ==
    /\ WithdrawalAllowed(amount)
    /\ balance' = balance - amount
    /\ counter' = counter - amount
    /\ BranchOnly /\ UNCHANGED <<account, verified>>

\* Closing pays out whatever is left; payouts on their way are not looked at.
CloseAccount ==
    /\ "CLOSE" \in BranchAction
    /\ account = "ACTIVE"
    /\ account' = "CLOSED"
    /\ balance' = 0
    /\ counter' = counter - balance
    /\ BranchOnly /\ UNCHANGED verified

ChangeStatus ==
    /\ \/ "FREEZE" \in BranchAction /\ account = "ACTIVE" /\ account' = "FROZEN"
       \/ "UNFREEZE" \in BranchAction /\ account = "FROZEN" /\ account' = "ACTIVE"
    /\ BranchOnly /\ UNCHANGED <<balance, counter, verified>>

RemovePayoutAccount ==
    /\ "REMOVE" \in BranchAction
    /\ verified
    /\ verified' = FALSE
    /\ BranchOnly /\ UNCHANGED <<account, balance, counter>>

-------------------------------------------------------------------------------
(***************************************************************************)
(* Time and crashes.                                                       *)
(***************************************************************************)

\* No call to the provider lasts two minutes: it is given up after 15 seconds.
GrowIdle(p) ==
    /\ status[p] \in Open /\ ~idle[p]
    /\ \A w \in Worker : ~Waiting(w, p)
    /\ idle' = [idle EXCEPT ![p] = TRUE]
    /\ UNCHANGED <<status, businessDate, otpAttempts, overdue, savings, external, task, today,
                   crashes>>

GrowOverdue(p) ==
    /\ status[p] \in Open /\ ~overdue[p]
    /\ overdue' = [overdue EXCEPT ![p] = TRUE]
    /\ UNCHANGED <<status, businessDate, otpAttempts, idle, savings, external, task, today,
                   crashes>>

NextDay ==
    /\ today < LastDay
    /\ today' = today + 1
    /\ UNCHANGED <<row, savings, external, task, crashes>>

\* The server stops: every task is lost between two of its transactions, and
\* the requests it had sent may still arrive.
Crash ==
    /\ crashes < MaxCrashes
    /\ crashes' = crashes + 1
    /\ task' = [w \in Worker |-> Idle]
    /\ late' = {p \in Payout : Underway(p)}
    /\ UNCHANGED <<row, savings, provider, mismatch, today>>

-------------------------------------------------------------------------------
MemberStep == \E p \in Payout :
    \/ StartPayout(p)
    \/ CancelPayout(p)
    \/ WrongCode(p)
    \/ \E w \in Request : ConfirmPayout(w, p)

BeginStep == \E p \in Payout :
    \/ \E w \in Request : WebhookArrives(w, p)
    \/ \E w \in Request, action \in StaffAction : StaffResolves(w, p, action)
    \/ \E w \in Sweeper : SweepPicks(w, p)

\* A step of a handler in progress.
HandlerStep(w) ==
    \/ SubmitRead(w)
    \/ SubmitAnswered(w)
    \/ SubmitRefused(w)
    \/ SubmitUnknown(w)
    \/ SubmitApply(w)
    \/ SubmitRefund(w)
    \/ ProviderLookup(w)
    \/ LookupFails(w)
    \/ WebhookActs(w)
    \/ SweepActs(w)
    \/ SweepChecks(w)
    \/ Recheck(w)
    \/ Retry(w)
    \/ StaffRefund(w)

ProviderStep ==
    \/ \E w \in Worker : RequestArrives(w)
    \/ \E p \in Payout : LateRequestArrives(p)
    \/ \E p \in Payout, state \in PayoutState : ProviderSettles(p, state)

BranchStep ==
    \/ \E amount \in Cash : CounterDeposit(amount) \/ CounterWithdraw(amount)
    \/ CloseAccount
    \/ ChangeStatus
    \/ RemovePayoutAccount

TimeStep ==
    \/ \E p \in Payout : GrowIdle(p) \/ GrowOverdue(p)
    \/ NextDay

Next ==
    \/ MemberStep
    \/ BeginStep
    \/ \E w \in Worker : HandlerStep(w)
    \/ ProviderStep
    \/ BranchStep
    \/ TimeStep
    \/ Crash

Spec == Init /\ [][Next]_vars

(***************************************************************************)
(* startOnlinePaymentSweep (src/server.ts) runs the sweep now and every    *)
(* five minutes, over every payout that qualifies, oldest first; a handler *)
(* that has begun goes on unless the server stops; and clocks run.  Staff  *)
(* may retry as often as they like, but not for ever without once leaving  *)
(* the payout alone for two minutes (each try moves updatedAt).  Nothing   *)
(* else is assumed of members, staff or the provider.                      *)
(***************************************************************************)
Fairness ==
    /\ \A w \in Worker : WF_vars(HandlerStep(w))
    /\ \A p \in Payout : /\ \A w \in Sweeper : SF_vars(SweepPicks(w, p))
                         /\ SF_vars(GrowIdle(p))
                         /\ WF_vars(GrowOverdue(p))

FairSpec == Spec /\ Fairness

(***************************************************************************)
(* In addition, a provider that sends a notice again until it is answered  *)
(* 200 (receiveWebhook answers 500 to ask for that), and that answers some *)
(* of the questions these deliveries make the server ask.                  *)
(***************************************************************************)
NoticeLookup(w) == task[w].kind = "webhook" /\ ProviderLookup(w)

ReachableProvider == \A w \in Request :
    /\ SF_vars(NoticeLookup(w))
    /\ \A p \in Payout : SF_vars(WebhookArrives(w, p))

NotifiedSpec == FairSpec /\ ReachableProvider

-------------------------------------------------------------------------------
TypeOK ==
    /\ status \in [Payout -> Status]
    /\ businessDate \in [Payout -> 1..LastDay]
    /\ otpAttempts \in [Payout -> 0..OtpMaxAttempts]
    /\ idle \in [Payout -> BOOLEAN]
    /\ overdue \in [Payout -> BOOLEAN]
    /\ account \in AccountStatus
    /\ balance \in Nat
    /\ posted \subseteq Key
    /\ debited \in [Payout -> 0..LastDay]
    /\ counter \in Int
    /\ verified \in BOOLEAN
    /\ provider \in [Payout -> PayoutState]
    /\ mismatch \in [Payout -> BOOLEAN]
    /\ late \subseteq Payout
    /\ task \in [Worker -> Task]
    /\ today \in 1..LastDay
    /\ crashes \in 0..MaxCrashes

\* A row's status and its savings transactions agree at every commit, whatever
\* handlers overlapped: the money was taken exactly from the payouts past the
\* code, and came back exactly for the refunded ones (the check constraints of
\* migration 0030 and "Exactly once", service.ts:45).
BookMatchesRows == \A p \in Payout :
    /\ Debit(p) \in posted <=> status[p] \in TAKEN \cup {"REFUNDED"}
    /\ Credit(p) \in posted <=> status[p] = "REFUNDED"

\* The savings balance is what the counter moved less what instant withdrawals
\* still hold: no debit or refund is lost or doubled by racing handlers, and a
\* refund that rolls back leaves nothing behind.
Conservation ==
    balance = OpeningBalance + counter - SumOf({p \in Payout : status[p] \in TAKEN})

\* The withdrawals posted to savings on a business day, and not returned, stay
\* within the member's daily limit, whatever day each was started on and however
\* many are on their way at once: usedToday counts payouts by the day on their
\* rows, and confirmPayout moves that day to the one it takes the money on.
DailyLimitHeld == \A day \in 1..LastDay :
    SumOf({p \in Payout : status[p] \in TAKEN /\ debited[p] = day}) <= DailyLimit

\* The provider is never told of, and never holds, a payout whose money was not
\* taken from savings first, even by a task that read the row long before.
SentOnlyIfTaken == \A p \in Payout :
    provider[p] # "NONE" \/ Underway(p) => Debit(p) \in posted

\* A payout is PAID only if the provider really paid it, however stale the
\* answer that was applied (the payment may have been reversed since).
PaidIsBacked == \A p \in Payout :
    status[p] = "PAID" => provider[p] \in {"SUCCEEDED", "FAILED"}

\* A handler holds a definite refusal, or staff's REFUND holds the answer that
\* the provider has no record.
RefusedOrUnknownToProvider(t) ==
    \/ t.at = "refused"
    \/ t.at = "act" /\ t.kind = "REFUND" /\ t.view = "NONE"

\* A payout's money comes back only when the provider reports the payout failed,
\* after createPayout was definitely refused, or when staff's REFUND asked the
\* provider and it had no record.  In particular the handler that got no answer
\* from createPayout never refunds it (submitPayout's catch, service.ts:735-739),
\* and no webhook or sweep takes a missing record for a failure.
RefundIsGrounded ==
    [][\A p \in Payout :
         status[p] \in TAKEN /\ status'[p] = "REFUNDED" =>
            \/ provider[p] = "FAILED"
            \/ \E w \in Worker : /\ task[w].payout = p /\ task'[w] # task[w]
                                 /\ RefusedOrUnknownToProvider(task[w])]_vars

\* A payout leaves review only by a staff action on it, or because the payment
\* was settled: no sweep, webhook or late createPayout answer quietly puts it
\* back on its way.
ReviewEndsDeliberately ==
    [][\A p \in Payout :
         status[p] = "NEEDS_REVIEW" /\ status'[p] # "NEEDS_REVIEW" =>
            \/ status'[p] \in {"PAID", "REFUNDED"}
            \/ \E w \in Worker : /\ task[w].payout = p
                                 /\ task[w].at = "act"
                                 /\ task[w].kind \in StaffAction]_vars

\* No handler works on a payout whose money was not taken.
TasksOnTaken == \A w \in Worker :
    \/ task[w] = Idle
    \/ task[w].payout \in Payout /\ status[task[w].payout] \notin NotTaken

\* The provider hears only of payouts whose money was taken.
ProviderOnTaken == \A p \in Payout :
    provider[p] # "NONE" \/ p \in late => status[p] \notin NotTaken

\* An answer a handler holds may be old, but the provider has not gone back on
\* it, except to reverse a payment.
ViewsHold == \A w \in Worker :
    LET t == task[w] IN
    /\ t.view = "PENDING"   => provider[t.payout] # "NONE"
    /\ t.view = "SUCCEEDED" => provider[t.payout] \in {"SUCCEEDED", "FAILED"}
    /\ t.view = "FAILED"    => provider[t.payout] = "FAILED"
    /\ t.at \notin {"act", "apply"} => t.view = "NONE"
    /\ t.at = "called" => provider[t.payout] # "NONE"
    /\ t.at = "apply"  => t.view # "NONE"

\* A withdrawal that still waits for its code has tries left.
AttemptsLeft == \A p \in Payout :
    status[p] \in {"NONE", "AWAITING_OTP"} => otpAttempts[p] < OtpMaxAttempts

\* What the safety properties rest on, inductive (OnlinePayout_proofs): handlers
\* and provider only ever deal with taken payouts, a taken payout is never
\* untaken, and answers in hand still mean what they said.
IndInv ==
    /\ TypeOK
    /\ AttemptsLeft
    /\ BookMatchesRows
    /\ TasksOnTaken
    /\ ProviderOnTaken
    /\ ViewsHold
    /\ PaidIsBacked

\* Where a payout's money is, in the terms of InstantWithdrawal.
MoneyOf(p) ==
    IF status[p] \in NotTaken THEN "saved"
    ELSE IF status[p] = "PAID" THEN "sent"
    ELSE IF status[p] = "REFUNDED" THEN "returned"
    ELSE "taken"

Promise == INSTANCE InstantWithdrawal
             WITH funds <- balance, money <- [p \in Payout |-> MoneyOf(p)]

\* The handlers, however they overlap and crash, implement the promise: taken
\* at most once, then sent or returned, and never sent or taken again after
\* coming back.
ImplementsPromise == Promise!Spec

\* Nothing stays on its way forever, even if the provider never answers: every
\* open payout is settled or handed to staff.
OpenIsResolved == \A p \in Payout :
    status[p] \in Open ~> status[p] \in {"PAID", "REFUNDED", "NEEDS_REVIEW"}

\* Money the provider failed to deliver, or took back after delivering, returns
\* to the savings account without anyone at the branch doing anything, from
\* every status a taken payout can be in -- unless the account was closed
\* meanwhile or the provider's record does not match.
FailedComesBack == \A p \in Payout :
    provider[p] = "FAILED" /\ status[p] \in TAKEN
        ~> status[p] = "REFUNDED" \/ account = "CLOSED" \/ mismatch[p]

\* README.md:36 "A failed payout is returned to savings automatically." stated
\* for matching records; a closed account breaks it.
FailedIsReturned == \A p \in Payout :
    provider[p] = "FAILED" /\ status[p] \in TAKEN /\ ~mismatch[p]
        ~> status[p] = "REFUNDED"
===============================================================================
