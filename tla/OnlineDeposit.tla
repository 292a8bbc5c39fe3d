----------------------------- MODULE OnlineDeposit -----------------------------
(***************************************************************************)
(* Online deposits of one member into one savings account                  *)
(* (src/src/payments/service.ts).                                          *)
(*                                                                         *)
(* startDeposit writes the row, then asks the provider for a checkout page *)
(* and saves its id.  Whether the page was paid is always asked of the     *)
(* provider: by the member coming back, a notice, the sweep, or staff.     *)
(* The question is asked outside any transaction, so each answer is        *)
(* applied to a row that others may have changed meanwhile.                *)
(***************************************************************************)
EXTENDS Integers, FiniteSets

CONSTANTS
    Deposit,          \* deposit rows the member may create
    NoDeposit,        \* not a deposit: the task of an idle worker
    Request,          \* workers that serve the member, notices and staff
    Sweeper,          \* workers that run sweepOnlinePayments
    Amount,           \* Amount[d]: what deposit d is for
    Payment,          \* amounts the provider may receive
    OpeningBalance,   \* balance of the savings account at first
    MaxOpen,          \* MAX_OPEN_CHECKOUTS
    MaxCrashes        \* bound on server restarts

Worker == Request \cup Sweeper

ASSUME DepositAssumption ==
    /\ NoDeposit \notin Deposit
    /\ Request \cap Sweeper = {}
    /\ Amount \in [Deposit -> Nat \ {0}]
    /\ Payment \subseteq Nat \ {0}
    /\ OpeningBalance \in Nat /\ MaxOpen \in Nat /\ MaxCrashes \in Nat

VARIABLES
    \* the rows of online_deposits
    status,
    saved,       \* providerRef is set
    age,         \* 0, then 1 after five minutes, then 2 after DEPOSIT_TTL_SECONDS
    \* the savings account
    account, balance,
    credited,    \* the amount posted under the key online-deposit:d, 0 if none
    \* the payment provider
    checkout,    \* the state of the checkout, "NONE" if it was not created
    paid,        \* what was paid on it
    mismatch,    \* its reference is not the row's
    late,        \* deposits with a createCheckout request underway nobody waits for
    \* the server
    task, crashes

depositRow  == <<status, saved, age>>
savings     == <<account, balance, credited>>
external    == <<checkout, paid, mismatch, late>>
depositVars == <<depositRow, savings, external, task, crashes>>

-------------------------------------------------------------------------------
Status == {"NONE", "PENDING", "CREDITED", "EXPIRED", "FAILED", "NEEDS_REVIEW", "DISMISSED"}
CheckoutState == {"NONE", "PENDING", "PAID", "EXPIRED", "FAILED"}

\* What applyCheckout and syncDeposit never touch again.
Settled == {"CREDITED", "DISMISSED", "NEEDS_REVIEW"}

Kind == {"none", "start", "refresh", "webhook", "sweep", "CREDIT_PAID"}
Stage == {"idle",
          "calling",   \* createCheckout sent, not at the provider yet
          "called",    \* createCheckout reached the provider, answer not saved yet
          "ask",       \* about to ask the provider about the checkout
          "act"}       \* holds the provider's answer, "view"

Task == [kind : Kind, deposit : Deposit \cup {NoDeposit}, at : Stage, view : CheckoutState]

Job(kind, d, stage) == [kind |-> kind, deposit |-> d, at |-> stage, view |-> "NONE"]

Idle == Job("none", NoDeposit, "idle")

Finish(w) == task' = [task EXCEPT ![w] = Idle]

DepositInit ==
    /\ status = [d \in Deposit |-> "NONE"]
    /\ saved = [d \in Deposit |-> FALSE]
    /\ age = [d \in Deposit |-> 0]
    /\ account = "OPEN"
    /\ balance = OpeningBalance
    /\ credited = [d \in Deposit |-> 0]
    /\ checkout = [d \in Deposit |-> "NONE"]
    /\ paid = [d \in Deposit |-> 0]
    /\ mismatch = [d \in Deposit |-> FALSE]
    /\ late = {}
    /\ task = [w \in Worker |-> Idle]
    /\ crashes = 0

-------------------------------------------------------------------------------
(***************************************************************************)
(* startDeposit: a row, a call, and the answer saved in the row.           *)
(***************************************************************************)

OpenCheckouts == {d \in Deposit : status[d] = "PENDING" /\ age[d] < 2}

StartDeposit(w, d) ==
    /\ task[w] = Idle
    /\ status[d] = "NONE"
    /\ account # "CLOSED"
    /\ Cardinality(OpenCheckouts) < MaxOpen
    /\ status' = [status EXCEPT ![d] = "PENDING"]
    /\ task' = [task EXCEPT ![w] = Job("start", d, "calling")]
    /\ UNCHANGED <<saved, age, savings, external, crashes>>

\* Whatever became of the row meanwhile, only the provider's id is written.
CheckoutSaved(w) ==
    /\ task[w].at = "called"
    /\ saved' = [saved EXCEPT ![task[w].deposit] = TRUE]
    /\ Finish(w)
    /\ UNCHANGED <<status, age, savings, external, crashes>>

\* createCheckout threw: refused, answered with nonsense, or given up, in which
\* case the request may still be on its way.
CheckoutFails(w) ==
    LET d == task[w].deposit IN
    /\ task[w].at \in {"calling", "called"}
    /\ status' = IF status[d] = "PENDING" THEN [status EXCEPT ![d] = "FAILED"] ELSE status
    /\ \/ late' = late
       \/ task[w].at = "calling" /\ late' = late \cup {d}
    /\ Finish(w)
    /\ UNCHANGED <<saved, age, savings, checkout, paid, mismatch, crashes>>

-------------------------------------------------------------------------------
(***************************************************************************)
(* Who asks the provider about a deposit, and when.                        *)
(***************************************************************************)

Asks(w, d, kind) ==
    /\ task[w] = Idle
    /\ task' = [task EXCEPT ![w] = Job(kind, d, "ask")]
    /\ UNCHANGED <<depositRow, savings, external, crashes>>

\* refreshMyDeposit.
Refresh(w, d) == saved[d] /\ status[d] = "PENDING" /\ Asks(w, d, "refresh")

\* A notice names the checkout, so it may come before its id is saved.
WebhookArrives(w, d) ==
    /\ checkout[d] # "NONE"
    /\ ~saved[d] \/ status[d] \notin Settled
    /\ Asks(w, d, "webhook")

\* Mistaken: deposits past their time are left to expire by themselves.
WhileFresh(d) == saved[d] /\ status[d] = "PENDING" /\ age[d] = 1

\* The rows sweepOnlinePayments selects.
SweepSelects(d) == saved[d] /\ status[d] = "PENDING" /\ age[d] >= 1

SweepPicks(w, d) == SweepSelects(d) /\ Asks(w, d, "sweep")

\* resolveDeposit CREDIT_PAID.
StaffCredits(w, d) ==
    saved[d] /\ status[d] = "NEEDS_REVIEW" /\ Asks(w, d, "CREDIT_PAID")

Lookup(w) ==
    /\ task[w].at = "ask"
    /\ task' = [task EXCEPT ![w].at = "act", ![w].view = checkout[task[w].deposit]]
    /\ UNCHANGED <<depositRow, savings, external, crashes>>

\* The provider could not be asked: a notice is answered 500, and sent again.
LookupFails(w) ==
    /\ task[w].at = "ask"
    /\ Finish(w)
    /\ UNCHANGED <<depositRow, savings, external, crashes>>

-------------------------------------------------------------------------------
(***************************************************************************)
(* Applying the answer: one transaction, which locks the row and then the  *)
(* savings account.                                                        *)
(***************************************************************************)

\* Mistaken: staff credit what was asked for, not what was paid.
CreditAsked(d) ==
    /\ balance' = IF credited[d] = 0 THEN balance + Amount[d] ELSE balance
    /\ credited' = [credited EXCEPT ![d] = IF @ = 0 THEN Amount[d] ELSE @]
    /\ UNCHANGED account

\* postOnlineMovement: a repeat under the same key returns the first posting.
Credit(d) ==
    /\ balance' = IF credited[d] = 0 THEN balance + paid[d] ELSE balance
    /\ credited' = [credited EXCEPT ![d] = IF @ = 0 THEN paid[d] ELSE @]
    /\ UNCHANGED account

Becomes(d, s) == status' = [status EXCEPT ![d] = s]
SaveRef(d)    == saved' = [saved EXCEPT ![d] = TRUE]

\* Mistaken: a closed account is not looked for; and a payment counts only
\* while the deposit waits for it.
ClosedPasses(d) == paid[d] = Amount[d]
WhenPending(d, view) ==
    \/ status[d] # "PENDING"
    \/ view = "PENDING" /\ ~mismatch[d]

CreditsAtOnce(d) == paid[d] = Amount[d] /\ account # "CLOSED"

NothingToApply(d, view) ==
    \/ status[d] \in Settled
    \/ view = "PENDING" /\ ~mismatch[d]
    \/ view \in {"EXPIRED", "FAILED"} /\ ~mismatch[d] /\ status[d] # "PENDING"

\* A late payment on an expired or failed checkout is credited all the same; a
\* different amount, another reference or a closed account is left to staff.
ApplyCheckout(w) ==
    LET d == task[w].deposit
        view == task[w].view IN
    /\ task[w].at = "act" /\ task[w].kind # "CREDIT_PAID"
    /\ \/ NothingToApply(d, view) /\ UNCHANGED <<status, saved, savings>>
       \/ /\ ~NothingToApply(d, view) /\ mismatch[d]
          /\ Becomes(d, "NEEDS_REVIEW") /\ UNCHANGED <<saved, savings>>
       \/ /\ ~NothingToApply(d, view) /\ ~mismatch[d] /\ view # "PAID"
          /\ Becomes(d, view) /\ UNCHANGED <<saved, savings>>
       \/ /\ ~NothingToApply(d, view) /\ ~mismatch[d] /\ view = "PAID"
          /\ SaveRef(d)
          /\ IF CreditsAtOnce(d)
             THEN Becomes(d, "CREDITED") /\ Credit(d)
             ELSE Becomes(d, "NEEDS_REVIEW") /\ UNCHANGED savings
    /\ Finish(w)
    /\ UNCHANGED <<age, external, crashes>>

\* Mistaken: the row is not looked at again under the lock.
AnyReview(d) == account # "CLOSED"

StillInReview(d) == status[d] = "NEEDS_REVIEW" /\ account # "CLOSED"

ResolveCredit(w) ==
    LET d == task[w].deposit IN
    /\ task[w].at = "act" /\ task[w].kind = "CREDIT_PAID"
    /\ IF task[w].view = "PAID" /\ ~mismatch[d] /\ StillInReview(d)
       THEN Becomes(d, "CREDITED") /\ Credit(d)
       ELSE UNCHANGED <<status, savings>>
    /\ Finish(w)
    /\ UNCHANGED <<saved, age, external, crashes>>

\* resolveDeposit DISMISS: the money was dealt with elsewhere.
Dismiss(d) ==
    /\ status[d] = "NEEDS_REVIEW"
    /\ Becomes(d, "DISMISSED")
    /\ UNCHANGED <<saved, age, savings, external, task, crashes>>

-------------------------------------------------------------------------------
(***************************************************************************)
(* The provider, the branch, time and crashes.                             *)
(***************************************************************************)

CreateCheckout(d) ==
    /\ checkout' = [checkout EXCEPT ![d] = "PENDING"]
    /\ \E differs \in BOOLEAN : mismatch' = [mismatch EXCEPT ![d] = differs]
    /\ UNCHANGED paid

RequestArrives(w) ==
    /\ task[w].at = "calling"
    /\ CreateCheckout(task[w].deposit)
    /\ task' = [task EXCEPT ![w].at = "called"]
    /\ UNCHANGED <<depositRow, savings, late, crashes>>

LateRequestArrives(d) ==
    /\ d \in late
    /\ late' = late \ {d}
    /\ CreateCheckout(d)
    /\ UNCHANGED <<depositRow, savings, task, crashes>>

\* The provider may take a payment late.
Pay(d, amount) ==
    /\ checkout[d] \in {"PENDING", "EXPIRED", "FAILED"}
    /\ checkout' = [checkout EXCEPT ![d] = "PAID"]
    /\ paid' = [paid EXCEPT ![d] = amount]
    /\ UNCHANGED <<depositRow, savings, mismatch, late, task, crashes>>

EndUnpaid(d, state) ==
    /\ checkout[d] = "PENDING"
    /\ state \in {"EXPIRED", "FAILED"}
    /\ checkout' = [checkout EXCEPT ![d] = state]
    /\ UNCHANGED <<depositRow, savings, paid, mismatch, late, task, crashes>>

\* closeAccount pays out the balance; deposits on their way are not looked at.
CloseAccount ==
    /\ account = "OPEN"
    /\ account' = "CLOSED"
    /\ balance' = 0
    /\ UNCHANGED <<depositRow, credited, external, task, crashes>>

GrowOld(d) ==
    /\ status[d] = "PENDING" /\ age[d] < 2
    /\ age' = [age EXCEPT ![d] = @ + 1]
    /\ UNCHANGED <<status, saved, savings, external, task, crashes>>

Crash ==
    /\ crashes < MaxCrashes
    /\ crashes' = crashes + 1
    /\ late' = late \cup {d \in Deposit : \E w \in Worker :
                            task[w].deposit = d /\ task[w].at = "calling"}
    /\ task' = [w \in Worker |-> Idle]
    /\ UNCHANGED <<depositRow, savings, checkout, paid, mismatch>>

-------------------------------------------------------------------------------
RequestStep(w, d) ==
    \/ StartDeposit(w, d)
    \/ Refresh(w, d)
    \/ WebhookArrives(w, d)
    \/ StaffCredits(w, d)

HandlerStep(w) ==
    \/ CheckoutSaved(w)
    \/ CheckoutFails(w)
    \/ Lookup(w)
    \/ LookupFails(w)
    \/ ApplyCheckout(w)
    \/ ResolveCredit(w)

ProviderStep ==
    \/ \E w \in Worker : RequestArrives(w)
    \/ \E d \in Deposit : \/ LateRequestArrives(d)
                          \/ \E amount \in Payment : Pay(d, amount)
                          \/ \E state \in CheckoutState : EndUnpaid(d, state)

DepositNext ==
    \/ \E d \in Deposit : \/ \E w \in Request : RequestStep(w, d)
                          \/ \E w \in Sweeper : SweepPicks(w, d)
                          \/ Dismiss(d)
                          \/ GrowOld(d)
    \/ \E w \in Worker : HandlerStep(w)
    \/ ProviderStep
    \/ CloseAccount
    \/ Crash

DepositSpec == DepositInit /\ [][DepositNext]_depositVars

(***************************************************************************)
(* A handler that has begun goes on unless the server stops, the sweep     *)
(* runs every five minutes over every deposit it selects, and clocks run   *)
(* (startOnlinePaymentSweep, src/server.ts).  The provider answers some of *)
(* the sweep's questions, and sends the notice of a payment again until it *)
(* is answered 200, which takes an answer to the question it makes the     *)
(* server ask.  Nothing is assumed of the member, of staff, or of notices  *)
(* about anything but a payment.                                           *)
(***************************************************************************)
NoticeLookup(w) == task[w].kind = "webhook" /\ Lookup(w)
PaymentNotice(w, d) == checkout[d] = "PAID" /\ WebhookArrives(w, d)

Fairness ==
    /\ \A w \in Worker : WF_depositVars(HandlerStep(w))
    /\ \A w \in Sweeper : SF_depositVars(Lookup(w))
    /\ \A w \in Request : SF_depositVars(NoticeLookup(w))
    /\ \A d \in Deposit : /\ WF_depositVars(GrowOld(d))
                          /\ \A w \in Sweeper : SF_depositVars(SweepPicks(w, d))
                          /\ \A w \in Request : SF_depositVars(PaymentNotice(w, d))

FairSpec == DepositSpec /\ Fairness

-------------------------------------------------------------------------------
TypeOK ==
    /\ status \in [Deposit -> Status]
    /\ saved \in [Deposit -> BOOLEAN]
    /\ age \in [Deposit -> 0..2]
    /\ account \in {"OPEN", "CLOSED"}
    /\ balance \in Nat
    /\ credited \in [Deposit -> Nat]
    /\ checkout \in [Deposit -> CheckoutState]
    /\ paid \in [Deposit -> Nat]
    /\ mismatch \in [Deposit -> BOOLEAN]
    /\ late \subseteq Deposit
    /\ task \in [Worker -> Task]
    /\ crashes \in 0..MaxCrashes

\* A deposit is CREDITED exactly when its money was posted, once, for what the
\* provider received and nothing else, whoever asked and however late the
\* answer was applied ("Exactly once", service.ts:45).
CreditIsBacked == \A d \in Deposit :
    IF status[d] = "CREDITED"
    THEN checkout[d] = "PAID" /\ credited[d] = paid[d] /\ ~mismatch[d]
    ELSE credited[d] = 0

\* No answer applied after the account was closed leaves money on it (the
\* constraint savings_accounts_valid would refuse it, and the notice with it).
ClosedHoldsNothing == account = "CLOSED" => balance = 0

\* A deposit that was not started is known to nobody, and at most one request
\* for its checkout ever reaches the provider.
OneCheckout ==
    /\ \A d \in Deposit :
         /\ saved[d] => checkout[d] # "NONE"
         /\ d \in late => checkout[d] = "NONE"
         /\ status[d] = "NONE" => checkout[d] = "NONE" /\ d \notin late
    /\ \A w \in Worker : task[w].at = "calling" =>
         /\ checkout[task[w].deposit] = "NONE" /\ task[w].deposit \notin late
         /\ \A v \in Worker : task[v].at = "calling" /\ task[v].deposit = task[w].deposit => v = w

\* What a handler was told still means what it said: a payment is never undone.
AnswersHold == \A w \in Worker :
    LET t == task[w] IN
    \/ t = Idle
    \/ /\ t.deposit \in Deposit /\ t.at # "idle"
       /\ status[t.deposit] # "NONE"
       /\ t.at # "calling" => checkout[t.deposit] # "NONE"
       /\ t.at = "act" => t.view # "NONE"
       /\ t.view = "PAID" => checkout[t.deposit] = "PAID"

\* Inductive (OnlineDeposit_proofs).
IndInv ==
    /\ TypeOK
    /\ CreditIsBacked
    /\ ClosedHoldsNothing
    /\ OneCheckout
    /\ AnswersHold

\* A deposit closed by staff because the money was dealt with elsewhere is never
\* credited as well, nor a credited one reopened, by a handler that looked at it
\* before ("DISMISS closes it", service.ts:936).
ResolvedIsFinal ==
    [][\A d \in Deposit :
         status[d] \in {"CREDITED", "DISMISSED"} => status'[d] = status[d]]_depositVars

\* Without a staff member's decision only the exact amount is ever credited.
OnlyExactIsAutomatic ==
    [][\A d \in Deposit :
         status[d] # "CREDITED" /\ status'[d] = "CREDITED" =>
            \/ paid[d] = Amount[d]
            \/ \E w \in Worker : task[w].kind = "CREDIT_PAID" /\ task[w].deposit = d]_depositVars

\* Money the provider received is credited or brought before staff, whatever
\* the row said when it came: expired, failed, or without the provider's id.
PaidIsDealtWith == \A d \in Deposit :
    checkout[d] = "PAID" ~> status[d] \in Settled

\* A checkout that ended does not leave its deposit waiting, though no notice
\* says so: the sweep finds it, if the provider's id was saved.
EndedIsSettled == \A d \in Deposit :
    saved[d] /\ checkout[d] \in {"EXPIRED", "FAILED"} ~> status[d] # "PENDING" \/ checkout[d] = "PAID"
===============================================================================
