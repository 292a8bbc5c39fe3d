# Microfinance system: TLA+ specifications

Specifications of the services of this repository that lend, keep and move members' money and decide who may
have it, the TLC configurations that check them on small instances, and TLAPS proofs of their safety properties
for instances of every size.
File names without a directory are in this directory; `payments/service.ts` and the like are below
`src/src/`, `shared/...` below `src/shared/`, `migrations/...` below `src/database/migrations/`, and `server.ts` is
`src/server.ts`.

1. [The system](#the-system): its parts, what each must get right
2. [Modules](#modules): how the specifications correspond to the code
3. [Runs](#runs): what is checked, the bounds, the fairness
4. [Findings](#findings): where code and documentation disagree
5. [Proofs](#proofs): what holds for every value of the constants
6. [What is not covered](#what-is-not-covered)
7. [Plan](#plan)

## The system

A cooperative lends to its members, keeps their savings, and moves money to and from their bank and e-wallet
accounts. One Node process (`server.ts`) serves staff and members in front of one PostgreSQL database; a
payment provider and a mail service are reached over the network. The services keep no state in memory. What
they share is rows, and each operation is one database transaction (`inTransaction`, lending/service.ts:94)
that locks the rows it is about to change, or several of them with calls to the provider in between.

### Components

| Component | Code | State | Operations |
|---|---|---|---|
| Instant withdrawals | payments/service.ts | `online_payouts`, payout accounts | start, confirm, cancel, submit, apply an answer, refund, RETRY, REFUND, RECHECK |
| Online deposits | payments/service.ts | `online_deposits` | start, refresh, apply a checkout, CREDIT_PAID, DISMISS |
| Payment sweep | server.ts, payments/service.ts | none (a timer) | ask about open payouts and pending deposits, resend, hand over to staff |
| Payment provider | payments/provider.ts and adapters | the provider's records | create, look up; notices |
| Savings | savings/service.ts, shared/lending/savings.ts | accounts, transactions, requests, interest runs, `borrowers.savings_balance` | deposit, withdraw, request and decide, interest, freeze, close, reconcile |
| Repayment | lending/repayment.ts, shared/lending/repayment.ts | `loan_schedule`, `loan_penalties`, `payments`, `payment_proofs` | post, charge penalties, check overdue loans, reverse, submit, claim, verify and reject proofs |
| Loans | lending/service.ts, shared/lending/workflow.ts | `loans`, approvals, disbursements | apply, submit, return, review, approve, reject, cancel, release |
| General ledger | lending/ledger.ts | journal entries | post a balanced entry under an idempotency key |
| Groups | groups/service.ts, groups/rules.ts | groups, members, consents, fund, covers | join, leave, consent, collect, contribute, cover, repay a cover |
| KYC | kyc/service.ts, shared/kyc-core | applications, documents, decisions | draft, submit, claim, release, request changes, decide |
| Onboarding | onboarding/ | registrations, codes | register, send and check a code |
| Loan mathematics | shared/lending/calculator.ts, money.ts | none | schedules, rates, rounding |
| Staff, authentication, routes, reports, documents, user interface | the rest of src/src | rows read and edited one at a time | see PROJECT.json |

### How they interact

* A withdrawal debits savings in the transaction that accepts the member's code (`postOnlineMovement`), and
  only then is the provider instructed. Answers come back to the request itself, by notice, by the sweep, and
  by staff asking; any of them may be old when it is applied.
* A deposit's row is written first, then the provider's checkout is created, then its id is saved. A payment
  is always confirmed by asking the provider, and credited to savings in one transaction.
* Savings postings of all kinds lock the account, insert a posting, write the balance, and rewrite the
  member's total (`syncMemberTotal`). The documented lock order is payment row, savings account, member.
* Payments of a loan, verified proofs, and covers by a group's fund all end in `postPaymentTx`, under the
  loan's lock, which first charges the penalties of the day, as the overdue check also does.
* A group's operations lock the group and then loans; consent locks a loan and then its group.

### What is hard

| Behaviour | Where | What must hold |
|---|---|---|
| Several handlers act on one payout with answers of different age, across a restart | payments/service.ts:708-830 | taken once, sent only after taking, returned once; review ends deliberately |
| A request whose answer is lost may still reach the provider | :735, :1012 | neither refunded nor sent twice on a guess |
| Nobody asks about a payout | :848 | the sweep settles it or hands it to staff |
| The member's daily limit spans accounts and midnight | :571, :680 | no day exceeds it |
| Transactions wait for each other's rows | :48, :615 | lock order; no lost posting; stale reads after a wait |
| Late, wrong or foreign payments of a checkout | :365-372 | credited once, for what was paid, or brought to staff |
| Payment, penalty check, cover and reversal of one loan overlap | lending/repayment.ts:164-546 | schedule, ledger and borrower agree; each month and key counts once |
| A product changes between application, approval and release; a release is repeated | lending/service.ts:748, :831 | released once, as approved |
| Interest is posted beside everything else; accounts close meanwhile | savings/service.ts:792 | each month once, what it earned; a closed account stays empty |
| A request or a payout comes back in a later month | savings/service.ts:349, :694 | paid once; the monthly limit |
| Each installment is rounded | shared/lending/calculator.ts:230 | the schedule repays the loan |
| Consent and membership of a group change while its loan is decided | groups/rules.ts:143 | those who guarantee a loan consented to it; nobody leaves owing |
| Several reviewers and the member act on one application | kyc/service.ts:987 | one decision, on what was submitted; no check of replaced photos |

`hazards` in PROJECT.json lists them line by line, with the property that covers each or the reason none does.

## Modules

| Module | Extends / instantiates | What it is |
|---|---|---|
| InstantWithdrawal | | abstract: what an instant withdrawal promises |
| OnlinePayout | instance of InstantWithdrawal | withdrawals and everything that can happen to them; one step per transaction or network event |
| OnlineDeposit | | deposits, in the same style |
| MemberLocks | | the transactions on one member's savings, statement by statement, with row locks |
| SavingsAccount | | savings accounts over the months: the rules, requests, interest |
| Repayment | | one loan from its release to its closing and reopening |
| LoanSchedule | | pure operators: rates, rounding, schedules, fees, the release entry |
| LoanRelease | LoanSchedule | loans from the application to the release, while the product changes |
| GroupLending | | one group: members, consent, group loans and the solidarity fund |
| ReviewedFile | | abstract: what the review of an application promises |
| KycReview | instance of ReviewedFile | one KYC application: drafts, photos, checks in flight, reviewers |
| OnlinePayoutMC, OnlineDepositMC, MemberLocksMC, SavingsAccountMC, RepaymentMC, LoanReleaseMC, GroupLendingMC, KycReviewMC | the module they name | values and symmetry for TLC |
| OnlinePayout_proofs, MemberLocks_proofs, SavingsAccount_proofs, Repayment_proofs, GroupLending_proofs | the module they name, Sums | theorems |
| KycReview_proofs | KycReview, TLAPS | theorems |
| DepositRelease_proofs | OnlineDeposit, LoanRelease, Sums | theorems about each of the two |
| Sums | TLAPS | lemmas about sums over finite sets |

`map` in PROJECT.json gives the source lines of every definition. Operators marked "Mistaken" model plausible
errors in the code; no specification uses them, and each shows that some property would notice.

### InstantWithdrawal and OnlinePayout

*State.* `status`, `businessDate`, `otpAttempts` are columns; `idle` and `overdue` stand for `updatedAt` and
`submittedAt` by the only comparisons made with them (two minutes, `PAYOUT_REVIEW_AFTER_MS`). `account`,
`balance`, `posted` and `debited` (the idempotency keys of `savings_transactions`, and the date of a withdrawal's posting) and
`counter` are the savings account; a transaction is taken to read one business day, where the code asks the clock twice
(payments/service.ts:681, savings/service.ts:217).
`provider`, `mismatch` and `late` are the other side of the network. `task[w]` is what a handler remembers between
two of its transactions: which payout, the status it read without a lock (`seen`), the provider's answer
(`view`), and where it is.

*Steps.* A transaction on a locked row is one step. `ConfirmPayout` is confirmPayout's transaction;
`SubmitRead` to `SubmitRefund` are submitPayout; `ApplyPayout` is applyPayout; `RefundTx` and
`RefundRollsBack` are refundTx, which a closed account makes fail; `WebhookArrives`/`WebhookActs`,
`SweepPicks`/`SweepActs`/`SweepChecks` and `StaffResolves`/`Recheck`/`Retry`/`StaffRefund` are the other
callers. Every one of them looks at the provider in a step of its own (`ProviderLookup`, `LookupFails`). A
request to the provider may arrive, be refused, or be given up and arrive later (`late`), also after `Crash`,
which loses every task. `CounterDeposit`, `CounterWithdraw`, `CloseAccount`, `ChangeStatus` and
`RemovePayoutAccount` are the branch's operations that a withdrawal can meet.

*Refinement.* InstantWithdrawal has no rows, handlers or provider: money is saved, taken, sent or returned.
OnlinePayout maps `funds` to the balance and `money` to a function of the status, and `ImplementsPromise`
says that its every step is a step of the promise or leaves it as it was.

*Left out.* Mail, audit rows and notifications; expiry of a code is covered by `CancelPayout`, which may happen
at any time before the code is accepted; permissions (every call is allowed, which only adds behaviours).

### OnlineDeposit

`status`, `saved` (whether the provider's id is in the row) and `age` are the row; `credited` is the amount
posted under the deposit's key; `checkout`, `paid`, `mismatch` and `late` are the provider. `StartDeposit` is
startDeposit up to its call, `CheckoutSaved` and `CheckoutFails` the rest of it. `Refresh`, `WebhookArrives`,
`SweepPicks` and `StaffCredits` are the four ways to ask about a checkout; `ApplyCheckout` and `ResolveCredit`
apply the answer under the row's lock; `Dismiss` needs none. The specification is `DepositSpec`, and its parts are
named likewise, so that one proof module extends it beside LoanRelease.

### MemberLocks

Where the other modules take a transaction as one step, this one takes it apart. `owner` holds the row locks,
`session` what each database session is doing and has read, `sum` what syncMemberTotal has summed. Each
statement is a step; a statement that needs a held row waits; what a transaction writes appears at its commit.
This is PostgreSQL under READ COMMITTED, modelled from how the services use it: in particular an UPDATE that
has waited looks again at the row it waited for, and a SELECT inside an UPDATE does not look again. `RollBack`
is a deadlock broken by the database, a lost connection or a crash. It justifies the coarser steps of
OnlinePayout and OnlineDeposit, as far as balances go, and shows what is not covered by the locks.

### Repayment

*State.* `penaltyDue`, `paid` and `charges` are `loan_schedule` and `loan_penalties`; `payments` is a sequence
in the order of posting (the order of receipt numbers), each entry with its allocation, its status and `at`;
`ledger` holds the balances of the seven accounts the loan touches; `member` the borrower's totals; `proofs`
the payment proofs; `task[w]` what a transaction took before it had the loan's lock.

*Steps.* Everything postPaymentTx does after `lockLoanRow` is `PostTx`: penalties, allocation, journal,
installments, borrower, closing, and the proof when the caller is verifyProof. Starting it is a step of
`PostPayment`, `VerifyProof` or `CoverFromFund`, which fix the date, the time of posting and the amount.
`CheckOverdue` selects a loan and `CheckLoan` charges it. `ReversePayment` locks the loan before it reads what
it acts on and is one step. `Replay` answers a repeated key; `RollBack` is a refusal or a lost transaction.

*Data.* Allocation (`Allocation`) and penalties (`PenaltiesToCharge`, with the rounding of applyRate) are
operators with the code's arithmetic, over an arbitrary schedule. The time of posting is kept as the number of
payments posted when it was taken: that orders it against payments before and after, and lets payments that
overlap have it in either order, which is all the code can rely on. The date of a cover and the date of its
posting, read a moment apart in the code, are read at once. The loan's display totals, the next payment date
and the group's rows (its fund, the debt a cover creates) are left out.

### SavingsAccount

*State.* `status`, `balance`, `opened` and `activity` are `savings_accounts`; `rows` is `savings_transactions`, each
with its day and its key (the month, for interest); `request` is `savings_withdrawal_requests`; `task` is what a run of
the interest posting holds between two of its transactions: the accounts it listed and has still to do, and the
day it began.

*Steps.* Each operation holds the account's lock from its first read to its commit, and is one step
(MemberLocks is about the inside). A run is not one: `RunStarts` lists the open accounts, `PostInterest` does one
of them with every month it is due, and `RunFails` ends the run where the database refuses what it writes, which
leaves the rest of the list to the next run. `PayoutReturns` is the refund of a withdrawal made online, possibly in
a later month. `OpenRegularAccount` is what the approval of a KYC application does.

*Data.* A month is a few days, a year a few months; interest is computed as in the code, on the average or the
lowest of the daily balances, rounded half up. Not modelled: KYC at opening, the destinations of payouts, editing of
products, and `reconcileSavings`, which only reads. Compulsory savings may always be closed here; the code asks
for no running loan.

### LoanSchedule and LoanRelease

LoanSchedule has no state. `Installments` is quoteLoan; `BalanceAfter`, a recursive function, is what is owed after
each diminishing installment, `LevelPayment` the annuity with its `Power`. LoanRelease keeps what the service stores (`product`, `loan`, `schedule`, `releases`, `ledger`,
`borrowed`) and two observers, `asked` and `approved`, which no guard reads. `File` is createApplication and
submitApplication; `Approve` and `PostRelease` compute the schedule again from what the row holds then; the fees are
those of the approval, the rate and method those of the application. A release looks its key up (`StartRelease`)
under the lock of its own loan, so two loans may be released with one key until `KeyAccepted`, the unique index.
KYC, purposes, documents, due dates and replayed request keys are left out; a product's limits on terms only
refuse.

### GroupLending

*State.* `role` is each person's active membership; `loan` has of a loan what a group sees (status, borrower, link,
installments owed and overdue, payments); `consent` is `group_loan_consents`; `cover`, `fund` the solidarity fund.
`filing` is an application between its reads, `covering` a cover between its reading of the loan and its posting,
with the group's lock held. `guarantors` and `reopened` are observers. `ProductOf` gives each row of a loan its product: a member
may have one open loan of each.

*Steps.* All of group membership, roles and status; applications in three steps (eligibility, membership again,
filing), because they lock the member and the loan but not the group; consent, review and decisions; collections,
covers, repayment of covers and refunds of the fund; payments and reversals of the loans, which take no lock of
the group. Left out: meetings, attendance, alerts, KYC and terms, a member's loans outside the group, and
all groups but one. A cover is waited out by what needs the group's lock (`Unlocked`), which is how the locks work
when no two requests wait for each other; see the hazard at groups/service.ts:388.

### KycReview and ReviewedFile

*State.* The columns of `kyc_submissions` that have behaviour; the draft as one value; a photo as the number
of its upload; `ocr` and `face` with the photos they were made of; `sealed` and `verdict`, the snapshots and
what was decided on each; `call`, the member's requests in flight.

*Steps.* Drafts, submissions and reviewers' operations take the row's lock and are one step. An upload, a reading of the
ID and a face check look at the application without it, store a file or wait for a service, and lock it only then:
each is a start and an end, and `Fails` is the refusal, error or loss between.

*Refinement.* ReviewedFile knows no statuses, reviewers or photos: an application is edited while it is open, sealed,
and decided once, unchanged. KycReview maps its content to the draft with its photos and checks.
`ImplementsFile` says no call that was in flight, and no second reviewer, breaks that.

## Runs

| Run | Instance | Shows | States |
|---|---|---|---|
| payout_races | 1 payout, 2 requests, 1 sweep, 1 crash, closing | whatever handlers overlap, the books match, refunds have grounds, review ends deliberately, the promise is implemented | 2.0 million |
| payout_limits | 2 payouts of 1 and 2, 2 days, limit 2, counter, freezing | no balance made, lost or overdrawn; no day over the limit | 3.1 million |
| payout_liveness | 1 payout, 1 request, 1 sweep, 1 crash, closing, staff | every payout is settled or handed to staff; a failed one comes back | 103,000 |
| deposit_races | 1 deposit, 2 requests, 1 sweep, 1 crash, closing, payments of 1 and 2 | credited once and for what was paid; staff decisions stand; no payment unnoticed | 112,000 |
| lock_races | 3 payouts on 2 accounts, 2 sessions, counter | no posting lost, no cycle without a start, limit held across accounts | 1.05 million |
| savings_months | 2 accounts, 2 months of 2 days, 2 counter postings, a payout, a request, runs of the interest | requests paid once, interest what was earned and in time, closed is final, the monthly limit | 397,000 |
| repayment_races | 2 installments, 3 days, 2 tellers, a check, a payment, a proof, a cover | schedule, ledger, borrower, proofs and penalties agree | 716,000 |
| loan_release | 2 loans, 2 officers, 2 keys, 3 versions of a product | released once, as approved; every schedule repays its loan | 772,000 |
| group_lending | 3 persons, 2 loans of 2 products, 2 covers, 1 installment | guarantees stand; no orphaned debt; one holder of an office | 2.24 million |
| kyc_review | 2 reviewers, 2 calls in flight, 2 versions, 2 photos of each kind | checks are current, approvals grounded, the promise is implemented | 1.81 million |
| closed_account_refund, member_total | smaller | violations, see [Findings](#findings) | |

### The properties worth knowing

* `BookMatchesRows`: at every commit the payouts past their code are exactly the debited ones, and the
  refunded ones exactly those credited back.
* `RefundIsGrounded`: money comes back when the provider reports a failure, after a definite refusal of createPayout, or
  by staff's REFUND when the provider has no record; a call without an answer is never grounds.
* `PaidIsBacked`, `ReviewEndsDeliberately`: what an old answer may do to a row.
* `DailyLimitHeld` (OnlinePayout): what savings *posted* on a day stays within the limit. The code counts payouts by the day on
  their rows, so a row that kept the day of its start would count on the wrong one.
* `FailedComesBack`: a payout the provider failed, or paid and then reversed, comes back from any status.
* `PaidIsDealtWith`, `EndedIsSettled`: what the provider received is credited or before staff; what ended
  unpaid does not leave its row waiting.
* `OnlyStartsDeadlock`: all wait cycles contain a startPayout, the one operation out of order.
* `InterestIsEarned`: a month that was paid for is never changed afterwards, so that interest recomputed from the rows
  as they are now is what was paid.
* `MonthlyLimitBends`: the exact amount by which the product's monthly limit can be passed.
* `InterestArrives`: an account that closes under a run ends the run, and yet every month is paid in the end.
* `PaidIsPosted`, `BooksTie`, `ClosedIsSettled`: six places are written separately by each posting, charge and
  reversal (installments, penalties, payments, ledger, borrower, status); they agree after any sequence of
  them, also when penalties were charged between a payment and its reversal.
* `PaidOnce`, `DecidedStaysDecided`: a proof is verified exactly when one payment of that amount was posted.
* `ReleasedAsApproved`: the schedule in force is the one that was approved, though it is computed three times from
  a product that may differ each time.
* `ScheduleRepays`: the reference definition of a schedule. A level payment is characterised, not recomputed:
  no whole centavo is nearer to the annuity.
* `GuaranteesStand`, `NoOrphanDebt`: consent and membership against everything that happens to the loan afterwards.
* `ChecksAreCurrent`, `ApprovalIsGrounded`: what a reviewer saw is what the member submitted, and the face comparison was
  made on those photos. A reading of the ID is tied to its front only, as in the code (see [Findings](#findings)).

### Bounds, and why they are enough

* The interesting races of a payout are between handlers of the *same* payout: `payout_races` has one payout,
  three workers and one crash, so that an answer in hand can be outdated twice. Two payouts matter for the limit
  and for the cancelling of earlier codes (`payout_limits`, `lock_races`).
* Amounts are chosen so that each withdrawal alone fits the balance and the limit and both together do not.
  `LastDay` is 2, for a start before midnight and a confirmation after. `MaxCrashes` 1 allows a crash in every
  state; the state after recovery is one that could also be reached afresh.
* Deposits do not interact except through the account and the limit of open checkouts; one is enough for the
  rest. Payments of 1 and 2 are the right and a wrong amount.
* `lock_races` uses two sessions: a lost update, an overdraft and a breach of the limit take two transactions.
  A wait cycle could take three, but `NoCycleWithoutStart` is proved for any number. Deposits stop at `MaxBalance`. Its
  VIEW leaves out the member's total, which no transaction reads; `member_total` is about it.
* `savings_months`: a withdrawal in the first month and its return in the second need two months; months of two days
  make an average differ from a lowest balance; one account has a limit of one withdrawal, the other a minimum
  opening deposit and no withdrawals but its closing. One run of the interest at a time
  is enough to overlap every operation; it is the timer's, because liveness is checked in the same run. That two runs
  may overlap each other, the timer's and one that staff start, is left to the proofs, which hold for any number.
* `repayment_races`: a first installment with interest and a second one without, due a month (one day) apart,
  a rate of 50 percent on amounts of 1 and 2 so that both rounding and a second month's charge occur; a payment
  that leaves the loan open, closes it or overpays it, depending on what came before; and three sources of payments.
  `LastDay` 2 gives the first installment two penalty months. Each key, cover and proof posts at most once, which
  bounds the sequence.
* `loan_release`: rates are in tenths (`Unit` 10), because TLC's integers must hold the powers of a level payment. The
  principal 19 over 3 months at 100 percent leaves more than a level payment to the last installment, 7 over
  26 periods a year gives uneven parts; one officer's limit admits only the smaller amount; the product changes its
  method, rate, fees, limits and whether it is open.
* `group_lending`: three persons with a minimum of two, so that one may leave and none more; one installment, so that a
  payment settles a loan and a reversal opens it again; two covers for the order of their repayment. `MaxFund` 1. The two loans are
  of different products, so one member or two may have them; loans of one product could do nothing else besides.
* `kyc_review`: two photos of the front and of the face, so that each can be replaced while a check of it is in flight;
  two calls for two uploads or checks that overlap; two versions for a late repeat of the first one's decision.
* Symmetry is used for requests, sessions, staff, persons, loans and keys, which are interchangeable in the
  specification and not named by any property, and not where liveness is checked. Runs do not check for deadlock
  because every system here may rightly stop (no member asks for anything more).

### Fairness

* A handler that has begun takes its next step unless the server stops: weak fairness of `HandlerStep`. Calls
  to the provider are given up after 15 seconds, so a handler is never stuck in one.
* The sweep: startOnlinePaymentSweep (server.ts:2771-2786) runs it at start and every five minutes. A run takes
  up to 200 qualifying rows, oldest first, and older payouts leave the list within two hours (settled or handed to
  staff), so a row that qualifies again and again is picked up: strong fairness of
  `SweepPicks`. The clock makes rows old: fairness of `GrowIdle`, `GrowOverdue`, `GrowOld`; for `GrowIdle` it is
  strong because staff may touch a row again and again, and is assumed not to do so every two minutes for ever.
* With that alone `OpenIsResolved` would hold even if the provider never answered. `FailedComesBack` and
  `PaidIsDealtWith` also need the provider to repeat a notice until it is answered 200 (receiveWebhook answers
  500 to ask for that) and some questions to be answered: `ReachableProvider` in OnlinePayout, and the last
  conjuncts of `Fairness` in OnlineDeposit.
* Interest: startInterestPosting (server.ts:2748) runs at start and every six hours, and a run that has listed accounts
  goes on to the end of its list or fails: weak fairness of `RunStarts` and `RunGoesOn` for the `Timer`'s run.
* Nothing is assumed of members, staff, payments or crashes, except that the latter are finitely many.

## Findings

Each of the first two is a run that violates one property, in which a sentence of the repository is written down.

* **closed_account_refund** (`FailedIsReturned`): "A failed payout is returned to savings automatically"
  (src/README.md:36). closeAccount (savings/service.ts:580) does not look for payouts on their way; a CLOSED account may hold no
  balance (migrations/0027_savings.sql:123), so the refund rolls back each time it is tried.
* **member_total** (`MemberTotalIsSum`): "`borrowers.savings_balance` is a cache rewritten from the exact account
  balances" (src/docs/AUDIT.md:141). syncMemberTotal sums before it waits for the member's row; two postings on
  two accounts leave the total short of one of them until the next posting.

While modelling, other differences between the code and what is said of it were met. The specifications follow the
code in each, and no run is about them:

* "Lock order is payment row, then savings account, then member" (payments/service.ts:48): startPayout locks the
  account and then other payouts (line 615). `OnlyStartsDeadlock` says it is the only one.
* "Nothing is refunded while the provider may still pay" (payments/service.ts:990): REFUND relies on a lookup that
  finds nothing, while a createPayout of the same reference may be on its way.
* "Only the latest posted payment on a loan can be reversed (undo in order)" (lending/repayment.ts:445): the latest is
  by `posted_at`, taken at line 288 before the loan's lock is waited for. Of two payments that overlap, the first to
  post may carry the later time and be undone first. `PaidIsPosted` and `BooksTie` hold all the same: each reversal
  takes back its own allocation.
* A product's withdrawals per month: a payout refunded in a later month is subtracted from that month's count
  (savings/service.ts:349), and lets one more withdrawal through. `MonthlyLimitBends` states the bound that holds.
* "The server refuses changes to other parts" (docs/KYC_FLOW.md:76): an upload is held against the parts requested before
  it is stored (kyc/service.ts:537) and not under the lock; one that was in flight while changes were requested gets through.
* "A new ID or selfie invalidates checks made against the old one." (kyc/service.ts:587): an upload of either side of the ID clears
  the reading of it, but a reading that was in flight is saved if the *front* is still the one it read (lines 639-640). If the back was
  replaced meanwhile, the reading of the old back stands beside the new one. `ChecksAreCurrent` claims the front.
* "An active group keeps its officers" (docs/GROUP_LENDING.md:40; groups/service.ts:313): an active group's secretary or
  treasurer may be removed from it, and a leader who is made secretary, where there is none, leaves it without a leader.
* "A member with an open group loan [...] cannot leave" (docs/GROUP_LENDING.md:40): a member whose application is being filed
  may (lending/service.ts:487), and a loan a reversal opens again may be of someone who has left. The first is
  never approved; the second is running again, and may be covered: hence `reopened` in `NoOrphanDebt`.
* Consents to a loan that was returned stay, and count for what is submitted next with other terms
  (groups/rules.ts:143, lending/service.ts:701).
* "The approver may not be the person who filed the application" (lending/service.ts:677): compared with the first filer
  only; who submitted it again may approve it.
* "Others differ by at most a few centavos" (shared/lending/calculator.ts:106): the last installment of a long
  diminishing loan carries the rounding of all of them, up to half a centavo an installment and its interest.
* repayCover looks its key up before it locks the group (groups/service.ts:718); only the unique keys of what it writes
  stop a second one beside it. `RepayCover` is one step and may be taken again in any case.

## Proofs

TLAPS proves every safety property of every passing run, type invariants, action properties and the two
refinements included, for any finite or infinite sets and any numbers that satisfy the modules'
assumptions. These are about types, ranges and disjointness (`PayoutAssumption`, `DepositAssumption`,
`LockAssumption`, `RepaymentAssumption`, `SavingsAssumption`, `ScheduleAssumption`, `ReleaseAssumption`,
`GroupAssumption`, `KycAssumption`; payouts, accounts, persons and covers are finitely many where they are counted
or summed). TLC evaluates them in the runs. The inductive invariants are no properties of the
runs: the proofs show them, for these instances as for all others.

### Sums

Money is added up with `SumFunctionOnSet` of the community modules, a fold in an order that CHOOSE picks. Its recursion is a
function on the subsets of the set; that the function exists (`IterExists`) and agrees with itself on smaller sets
(`IterOnSubset`) gives `SumStep`: *some* element splits off. That *every* element does (`SumRemove`) takes induction over
subsets (`SubsetInduction`). Library theorems that take an operator cannot be instantiated; so both
inductions, `NatSetInduction` and `SubsetInduction`, are stated for a set of the numbers or subsets that are good, and
the first is derived from the well-foundedness of `<`. The rest is what the modules need: sums of a function that
changed in one place (`SumChange`), of disjoint sets, of functions added, and of a set that gains or loses an element.

### OnlinePayout_proofs

`Invariance`: `IndInv` is inductive. The safety properties are not inductive alone: whether a refund doubles
depends on what a handler in the middle of a call believes. `IndInv` adds three facts about what is underway.
`TasksOnTaken`, no handler works on a payout whose money was not taken (a taken payout never becomes untaken);
`ProviderOnTaken`, the provider has, or is being sent, only taken payouts; `ViewsHold`, an answer in hand may be
old but was not taken back, except that a success may have been reversed. `AttemptsLeft` is needed to
count tries. From it: `TypesHold` (with the balance never negative), `BooksMatch`, `SentAfterTaking`,
`PaidWasPaid`; the action properties `RefundsAreGrounded` (each refund is traced to the failed payout, the
refusal or the staff lookup the handler acts on) and `ReviewIsDeliberate`, by cases over the effect of each handler on the row; and `Implements`, the refinement of InstantWithdrawal, step by step.

`MoneyIsConserved` and `LimitIsHeld` follow from what a step does to the set of payouts whose money is out of savings
(`Held`): it takes one, returns one, or keeps the set and its dates (`StepOnHeld`). Only the confirmation adds to a
day, and it looked at that day's sum (`CountedWithinLimit`, by the rows' dates); the posting bears the date the row gets
(`DatesAgree`), so the limit holds for what was posted.

### DepositRelease_proofs

One module extends OnlineDeposit and LoanRelease, which share nothing but the names of their helpers.

*Deposits.* `DepositInvariance`: `IndInv` adds `OneCheckout` (at most one request for a checkout is ever underway, and none
after the checkout exists, so a payment cannot be attached to a second one) and `AnswersHold` (a PAID answer
stays true) to the type invariant. From it `CreditsAreBacked`, `ClosedStaysEmpty`, `ResolutionsAreFinal`,
`OnlyExactCreditsItself`.

*Releases.* `ReleaseInv` follows what was asked for and approved onto the row: `AsAsked` until the decision, `AsApproved` until
the release and after, `ReleasesHold` in what was released; `HeldAlone` says a release under way holds an approved
loan that no other holds. From it `ReleasesAreAsApproved`, where the schedule is the same one because it is computed from
the same terms; and, with `Books`, that ledger and borrowers are the sums of the releases, `LoansAreReleasedOnce`.

*Schedules.* `SchedulesRepay` is about arithmetic: for any principal, term, rate and fee. `SplitIsEven`: the parts differ by
at most one and add up. `NatRecursion` says a recursive function on the naturals is what its definition says, which
makes `Power` and `BalanceAfter` usable. `WorthIs` gives the closed form of an annuity's worth, and `LevelIsNearest` that
the rounded level payment is nearest to the exact one. `BalancesFall`: what is owed never rises or falls below zero and the
last installment leaves nothing; summed, the portions telescope to the principal (`Telescope`). `TermsFit` carries the
hypotheses, positive principal and count of installments, to every filed loan.

### MemberLocks_proofs

`LockInvariance`: what a session read under a lock it still holds is still so (`AccountHeld`, `RowHeld`), each
lock is held by a session that has come far enough to hold it (`OwnersKnown`), a payout being started is
private (`StartsFresh`), and a posting about to be made is affordable. The lemma `OneMoves` does the common
part once: in a step of one session that leaves the others' rows alone, the others keep what they know. From
it `LedgerHolds` (no posting lost), `TakenIsFinal` (no taken payout cancelled by a start that saw it waiting),
and `NoCycleWithoutStart`: the rows that sessions other than starts wait for rise in rank along a cycle, which is impossible.

`LimitIsShared`: the accounts of a member are locked apart, and what keeps the sum of two confirmations below the limit is that each
holds the member's row from its check to its commit (`MemberHeld`): in between, the room it saw is still there
(`RoomKept`). `TypesHold` adds that the totals are natural numbers.

### Repayment_proofs

*Who posts what.* `RepaymentInvariance`: a proof someone is verifying is undecided and held by that teller alone (`HeldByOne`,
the proof's row lock), and a payment for a proof exists only if the proof is verified (`OnlyVerifiedPaid`).
Hence verifyProof never meets an old payment of its own key (`ReplayIsNoProof`), and from that `KeysArePaidOnce` and
`DecisionsStand`. `MonthsAreChargedOnce` is inductive on its own: months are read under the lock they are charged under.

*The money.* `Books` is inductive with `Amounts` (what tasks and proofs hold are amounts). Its parts are properties of the
run, written for sums (`Tie` is `BooksTie`, by `TieIsBooksTie`), and two facts they need: no portion is paid beyond what
is due (`Paid`), and every payment's lines add up to its amount less the excess (`PaymentOk`), a fact that outlasts
its reversal. `AllocationWithin` and `AllocationSum` are about the allocation: it never fills a portion beyond
what is owed, and spends the lesser of the amount and the payoff. `PlanOk` and `Charging` do the same
for penalties: the months charged are new, and an installment's penalty grows by their amount. With these the steps that
move money, `CheckLoan`, `PostTx` and `ReversePayment`, are compared sum by sum. From `BooksInvariance`: `BooksTellOneStory`,
`InstallmentsShowPostings`, `ClosedMeansSettled`, `PenaltiesChargedOnce`, `TypesHold`.

### SavingsAccount_proofs

`RequestsArePaidOnce`: with `Dated` (days, requests and tasks have their types) `RequestPaidOnce` is inductive: a key of a
request is no key of the counter, of a payout or of a month, so only its approval posts under it.

`StepsAre` says what any step does to rows, statuses and balances: one posting of today (`Posting`), the interest of one
account, or nothing (`Quiet`); the other proofs are by these three cases. `InterestStaysEarned`: rows are dated no earlier than
today, so that a month that was over when it was paid gains none (`LaterMonth`), and the interest of a month depends only on
rows up to its end (`InterestStays`). `ClosedAccountsAreFinal`: a closed account has no balance and an amount is
positive, so what is posted to it is refused; its due months, were it listed, come to nothing it may be paid.
`LimitBendsNoFurther`: withdrawals and their returns are matched by key (`KeysTell`); a return in the month of
its withdrawal makes room for itself, one in a later month does not (`CountIsKept`), and a withdrawal needs room.

### KycReview_proofs

`ReviewInvariance`: `IndInv` adds `StatusTells` (the status says what was decided on the latest version; earlier ones were sent
back; what is under review is the application as it stands) and `SealedComplete`. From it `ReviewTypes`,
`ChecksStayCurrent`, `ApprovalsAreGrounded`, and `ReviewImplements`, the refinement: an edit is an edit because
the status that allows it tells that the latest version was reopened, a decision decides what stands because it was
sealed as it stands.

### GroupLending_proofs

`IndInv` adds that a filing holds a loan that was not submitted (`FilingsAreNew`) and that covers are of released
loans (`CoversAreOnLoans`): then a borrower of an approved loan is bound to the group by it. Lemmas treat the
group's steps, the loans' and the fund's apart, since each changes one of the three; `PaidRow`, `UndoneRow` and `BackRows` are
about payments. From it `GuaranteesAlwaysStand` and `NoDebtIsOrphaned`; `ActiveGroupsKeepTheirSize` is inductive on its own.

`TypesHold` is about amounts, and not inductive: a reversal adds to what is owed what its payment applied, and only
the history bounds that. `Trail` is that history, a balance before and after each payment that stands, all within what
was lent. `CoversFit`, `FundFits` and `OneOfEach` complete it: covers are outstanding while something of them is
left, the fund holds what a cover under way is about to take, and an office changes hands in one step.

### Only model-checked

* Liveness (`OpenIsResolved`, `FailedComesBack`, `PaidIsDealtWith`, `EndedIsSettled`, `InterestArrives`): it rests on
  fairness, hence on ENABLED, for which TLAPS has no support.
* The two violations: each is one behaviour, which TLC finds.

## What is not covered

* Parts listed as `not_modelled` in PROJECT.json: user interface, reports, documents, routes, authentication and the legacy
  backend either keep no state the services branch on or only read. They are most of the repository's lines.
* Registration and the verification of an e-mail address: see the plan.
* What the modelled services refuse and nothing else: validation of fields, permissions, KYC at each step of a loan,
  limits on rates of requests. Every call is allowed where they are left out, which only adds behaviours.
* The adapters of the provider, signatures of notices, and the mail service: modelled by their outcomes.
* Widths of numbers: amounts are PostgreSQL numerics and safe integers in centavos, checked by the code; no
  bound is near.
* Several members: their transactions share no rows except through groups. Several groups share none.
* A month's interest under a product that is edited in the month: products are constants of SavingsAccount.
* Several server processes, as such. The specifications allow any number of requests, sweeps and overdue checks
  at once: a sweep that takes longer than five minutes overlaps the next one, and nothing in server.ts prevents
  it. The runs have one sweep and one check beside other workers; the proofs hold for any number.

## Plan

Done: payouts, deposits, locks, savings, repayment, applications and releases, groups, KYC. What is left, in order:

1. **Registration**: codes, tokens and accounts, across the mail service and the account provider: attempts counted without
   a lock (onboarding/emailVerification.ts:79), a token that is replaced, an account left behind when the transaction fails.
2. **The composition of LoanRelease and Repayment**: the schedule released is the one repaid. Each states its half
   (`ReleasedAsApproved` ends with the stored schedule, Repayment starts from an arbitrary one).
3. **Products**: rates and limits edited under open accounts and months not yet paid.
4. **More proofs**: that the coarse steps of OnlinePayout and SavingsAccount are implemented by MemberLocks' statements.
