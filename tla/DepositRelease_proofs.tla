------------------------- MODULE DepositRelease_proofs -------------------------
(***************************************************************************)
(* Proofs about OnlineDeposit and, below them, about LoanRelease.  The two *)
(* share no constant and no variable, so that one module extends both.     *)
(*                                                                         *)
(* For any number of deposits, workers, payments and crashes, a deposit is *)
(* credited once, for what was paid.  For any loans, keys, officers,       *)
(* limits and products, a loan is released once, as it was approved, and   *)
(* its schedule repays it.                                                 *)
(***************************************************************************)
EXTENDS OnlineDeposit, LoanRelease, Sums

LEMMA JobType ==
    ASSUME NEW kind \in Kind, NEW d \in Deposit, NEW stage \in Stage
    PROVE  Job(kind, d, stage) \in Task /\ Idle \in Task
  BY DEF Job, Idle, Task, Kind, Stage, CheckoutState

LEMMA DepositInitInv == DepositInit => IndInv
<1> SUFFICES ASSUME DepositInit PROVE IndInv
  OBVIOUS
<1>1. Idle \in Task
  BY DEF Job, Idle, Task, Kind, Stage, CheckoutState
<1>2. TypeOK
  BY <1>1, DepositAssumption DEF DepositInit, TypeOK, Status, CheckoutState
<1>3. CreditIsBacked /\ ClosedHoldsNothing
  BY DEF DepositInit, CreditIsBacked, ClosedHoldsNothing
<1>4. OneCheckout /\ AnswersHold
  BY DEF DepositInit, OneCheckout, AnswersHold, Idle, Job
<1> QED
  BY <1>2, <1>3, <1>4 DEF IndInv

\* What handlers know survives a step in which one worker turns to a deposit
\* that was started, without calling createCheckout, or turns idle, and in
\* which no row is undone and the provider's records stay as they are.
LEMMA HandlersKeep ==
    ASSUME IndInv, NEW w \in Worker, NEW t \in Task, task' = [task EXCEPT ![w] = t],
           UNCHANGED <<checkout, late>>,
           saved' \in [Deposit -> BOOLEAN],
           \A d \in Deposit : saved'[d] => checkout[d] # "NONE",
           \A d \in Deposit : status[d] # "NONE" <=> status'[d] # "NONE",
           \/ t = Idle
           \/ /\ t.deposit \in Deposit /\ status[t.deposit] # "NONE"
              /\ t.at \in {"ask", "act"} /\ checkout[t.deposit] # "NONE"
              /\ t.at = "act" => t.view # "NONE"
              /\ t.view = "PAID" => checkout[t.deposit] = "PAID"
    PROVE  task' \in [Worker -> Task] /\ OneCheckout' /\ AnswersHold'
<1>1. task' \in [Worker -> Task] /\ \A v \in Worker : task'[v] = IF v = w THEN t ELSE task[v]
  BY DEF IndInv, TypeOK
<1>2. t.at # "calling"
  BY DEF Idle, Job
<1>3. OneCheckout'
  BY <1>1, <1>2 DEF IndInv, OneCheckout
<1>4. AnswersHold'
  BY <1>1 DEF IndInv, AnswersHold
<1> QED
  BY <1>1, <1>3, <1>4

LEMMA AskKeeps ==
    ASSUME IndInv, NEW w \in Worker, NEW d \in Deposit, NEW kind \in Kind,
           Asks(w, d, kind), checkout[d] # "NONE"
    PROVE  IndInv'
<1>1. Job(kind, d, "ask") \in Task
  BY JobType DEF Stage
<1>2. task' = [task EXCEPT ![w] = Job(kind, d, "ask")] /\ UNCHANGED <<depositRow, savings, external, crashes>>
  BY DEF Asks
<1>3. status[d] # "NONE"
  BY DEF IndInv, OneCheckout
<1>4. task' \in [Worker -> Task] /\ OneCheckout' /\ AnswersHold'
  BY <1>1, <1>2, <1>3, HandlersKeep DEF Job, depositRow, external, IndInv, TypeOK, OneCheckout
<1>5. TypeOK'
  BY <1>2, <1>4 DEF IndInv, TypeOK, depositRow, savings, external
<1>6. CreditIsBacked' /\ ClosedHoldsNothing'
  BY <1>2 DEF IndInv, CreditIsBacked, ClosedHoldsNothing, depositRow, savings, external
<1> QED
  BY <1>4, <1>5, <1>6 DEF IndInv

LEMMA StartKeeps ==
    ASSUME IndInv, NEW w \in Worker, NEW d \in Deposit, StartDeposit(w, d) PROVE IndInv'
<1> USE DEF StartDeposit, savings, external
<1> DEFINE t == Job("start", d, "calling")
<1>1. t \in Task /\ t.deposit = d /\ t.at = "calling" /\ t.view = "NONE"
  BY JobType DEF Kind, Stage, Job
<1>2. \A v \in Worker : task'[v] = IF v = w THEN t ELSE task[v]
  BY DEF IndInv, TypeOK
<1>3. \A e \in Deposit : status'[e] = IF e = d THEN "PENDING" ELSE status[e]
  BY DEF IndInv, TypeOK
<1>4. \A v \in Worker : task[v].deposit # d \/ task[v].at # "calling"
  BY DEF IndInv, AnswersHold, Idle, Job
<1>5. TypeOK'
  BY <1>1 DEF IndInv, TypeOK, Status
<1>6. CreditIsBacked' /\ ClosedHoldsNothing'
  BY <1>3 DEF IndInv, CreditIsBacked, ClosedHoldsNothing
<1>7. OneCheckout'
  BY <1>1, <1>2, <1>3, <1>4 DEF IndInv, OneCheckout
<1>8. AnswersHold'
  BY <1>1, <1>2, <1>3 DEF IndInv, AnswersHold
<1> QED
  BY <1>5, <1>6, <1>7, <1>8 DEF IndInv

LEMMA RequestKeeps ==
    ASSUME IndInv, NEW w \in Worker, NEW d \in Deposit, RequestStep(w, d) \/ SweepPicks(w, d)
    PROVE  IndInv'
<1>1. saved[d] => checkout[d] # "NONE"
  BY DEF IndInv, OneCheckout
<1> QED
  BY <1>1, StartKeeps, AskKeeps DEF RequestStep, Refresh, WebhookArrives, StaffCredits, SweepPicks,
     SweepSelects, Kind

LEMMA SavedKeeps == ASSUME IndInv, NEW w \in Worker, CheckoutSaved(w) PROVE IndInv'
<1> USE DEF CheckoutSaved, Finish, savings, external
<1> DEFINE d == task[w].deposit
<1>1. d \in Deposit /\ checkout[d] # "NONE" /\ Idle \in Task
  BY DEF IndInv, AnswersHold, Idle, Job, Task, Kind, Stage, CheckoutState
<1>2. saved' \in [Deposit -> BOOLEAN] /\ \A e \in Deposit : saved'[e] => e = d \/ saved[e]
  BY <1>1 DEF IndInv, TypeOK
<1>3. task' \in [Worker -> Task] /\ OneCheckout' /\ AnswersHold'
  BY <1>1, <1>2, HandlersKeep DEF IndInv, OneCheckout
<1>4. TypeOK'
  BY <1>2, <1>3 DEF IndInv, TypeOK
<1>5. CreditIsBacked' /\ ClosedHoldsNothing'
  BY DEF IndInv, CreditIsBacked, ClosedHoldsNothing
<1> QED
  BY <1>3, <1>4, <1>5 DEF IndInv

LEMMA FailsKeeps == ASSUME IndInv, NEW w \in Worker, CheckoutFails(w) PROVE IndInv'
<1> USE DEF CheckoutFails, Finish, savings
<1> DEFINE d == task[w].deposit
<1>1. /\ d \in Deposit /\ Idle \in Task /\ Idle.at = "idle"
      /\ status[d] # "NONE"
      /\ task[w].at = "calling" => checkout[d] = "NONE"
  BY DEF IndInv, AnswersHold, OneCheckout, Idle, Job, Task, Kind, Stage, CheckoutState
<1>2. \A v \in Worker : task'[v] = IF v = w THEN Idle ELSE task[v]
  BY DEF IndInv, TypeOK
<1>3. \A e \in Deposit : /\ status'[e] = "NONE" <=> status[e] = "NONE"
                         /\ \/ status'[e] = status[e]
                            \/ status[e] = "PENDING" /\ status'[e] = "FAILED"
  BY <1>1 DEF IndInv, TypeOK
<1>4. TypeOK'
  BY <1>1 DEF IndInv, TypeOK, Status
<1>5. CreditIsBacked' /\ ClosedHoldsNothing'
  BY <1>3 DEF IndInv, CreditIsBacked, ClosedHoldsNothing
<1>6. AnswersHold'
  BY <1>2, <1>3 DEF IndInv, AnswersHold
<1>7. OneCheckout'
  <2>1. CASE late' = late
    BY <2>1, <1>1, <1>2, <1>3 DEF IndInv, OneCheckout
  <2>2. CASE task[w].at = "calling" /\ late' = late \cup {d}
    <3>1. \A v \in Worker : v # w /\ task[v].at = "calling" => task[v].deposit # d
      BY <2>2 DEF IndInv, OneCheckout
    <3> QED
      BY <2>2, <1>1, <1>2, <1>3, <3>1 DEF IndInv, OneCheckout
  <2> QED
    BY <2>1, <2>2
<1> QED
  BY <1>4, <1>5, <1>6, <1>7 DEF IndInv

LEMMA LookupKeeps ==
    ASSUME IndInv, NEW w \in Worker, Lookup(w) \/ LookupFails(w) PROVE IndInv'
<1> USE DEF depositRow, savings, external
<1> DEFINE d == task[w].deposit
           answered == [task[w] EXCEPT !.at = "act", !.view = checkout[d]]
<1>1. /\ task[w].at = "ask" /\ d \in Deposit /\ task[w] \in Task /\ Idle \in Task
      /\ checkout[d] # "NONE" /\ status[d] # "NONE" /\ checkout[d] \in CheckoutState
  BY DEF Lookup, LookupFails, IndInv, TypeOK, AnswersHold, Idle, Job, Task, Kind, Stage,
         CheckoutState
<1>2. answered \in Task /\ answered.at = "act" /\ answered.view = checkout[d] /\ answered.deposit = d
  BY <1>1 DEF Task, Stage
<1>3. \/ task' = [task EXCEPT ![w] = answered]
      \/ task' = [task EXCEPT ![w] = Idle]
  BY <1>1 DEF Lookup, LookupFails, Finish, IndInv, TypeOK
<1>4. UNCHANGED <<depositRow, savings, external, crashes>>
  BY DEF Lookup, LookupFails
<1>5. \A e \in Deposit : saved'[e] => checkout[e] # "NONE"
  BY <1>4 DEF IndInv, OneCheckout
<1>6. task' \in [Worker -> Task] /\ OneCheckout' /\ AnswersHold'
  <2>1. saved' \in [Deposit -> BOOLEAN]
    BY <1>4 DEF IndInv, TypeOK
  <2>2. CASE task' = [task EXCEPT ![w] = answered]
    BY <1>1, <1>2, <2>2, <1>4, <1>5, <2>1, HandlersKeep
  <2>3. CASE task' = [task EXCEPT ![w] = Idle]
    BY <1>1, <2>3, <1>4, <1>5, <2>1, HandlersKeep
  <2> QED
    BY <1>3, <2>2, <2>3
<1>7. TypeOK'
  BY <1>4, <1>6 DEF IndInv, TypeOK
<1>8. CreditIsBacked' /\ ClosedHoldsNothing'
  BY <1>4 DEF IndInv, CreditIsBacked, ClosedHoldsNothing
<1> QED
  BY <1>6, <1>7, <1>8 DEF IndInv

\* What applying an answer may do to a row and its money.
Applied(w) ==
    LET d == task[w].deposit IN
    \/ UNCHANGED <<status, saved, savings>>
    \/ /\ status[d] \notin {"CREDITED", "DISMISSED"}
       /\ \E s \in {"NEEDS_REVIEW", "EXPIRED", "FAILED"} : Becomes(d, s)
       /\ UNCHANGED saved \/ SaveRef(d)
       /\ UNCHANGED savings
    \/ /\ status[d] \notin {"CREDITED", "DISMISSED"}
       /\ checkout[d] = "PAID" /\ ~mismatch[d] /\ account # "CLOSED"
       /\ paid[d] = Amount[d] \/ task[w].kind = "CREDIT_PAID"
       /\ Becomes(d, "CREDITED") /\ Credit(d)
       /\ UNCHANGED saved \/ SaveRef(d)

LEMMA ApplyIsApplied ==
    ASSUME IndInv, NEW w \in Worker, ApplyCheckout(w) \/ ResolveCredit(w)
    PROVE  /\ Applied(w) /\ Finish(w) /\ UNCHANGED <<age, external, crashes>>
           /\ task[w] # Idle /\ task[w].deposit \in Deposit
           /\ status[task[w].deposit] # "NONE" /\ checkout[task[w].deposit] # "NONE"
<1> DEFINE d == task[w].deposit
           view == task[w].view
<1>1. /\ task[w].at = "act" /\ task[w] # Idle /\ d \in Deposit
      /\ status[d] # "NONE" /\ checkout[d] # "NONE" /\ view # "NONE"
      /\ view = "PAID" => checkout[d] = "PAID"
      /\ view \in CheckoutState
  BY DEF ApplyCheckout, ResolveCredit, IndInv, TypeOK, AnswersHold, Task, Idle, Job
<1>2. ASSUME ApplyCheckout(w) PROVE Applied(w)
  <2>1. CASE NothingToApply(d, view) /\ UNCHANGED <<status, saved, savings>>
    BY <2>1 DEF Applied
  <2>2. CASE ~NothingToApply(d, view)
    <3>1. status[d] \notin {"CREDITED", "DISMISSED"}
      BY <2>2 DEF NothingToApply, Settled
    <3>2. CASE mismatch[d]
      BY <1>2, <2>2, <3>1, <3>2 DEF ApplyCheckout, Applied
    <3>3. CASE ~mismatch[d] /\ view # "PAID"
      <4>1. view \in {"EXPIRED", "FAILED"}
        BY <1>1, <2>2, <3>3 DEF NothingToApply, CheckoutState
      <4>2. Becomes(d, view) /\ UNCHANGED <<saved, savings>>
        BY <1>2, <2>2, <3>3 DEF ApplyCheckout
      <4> QED
        BY <3>1, <4>1, <4>2 DEF Applied
    <3>4. CASE ~mismatch[d] /\ view = "PAID" /\ CreditsAtOnce(d)
      BY <1>1, <1>2, <2>2, <3>1, <3>4 DEF ApplyCheckout, Applied, CreditsAtOnce
    <3>5. CASE ~mismatch[d] /\ view = "PAID" /\ ~CreditsAtOnce(d)
      BY <1>1, <1>2, <2>2, <3>1, <3>5 DEF ApplyCheckout, Applied
    <3> QED
      BY <3>2, <3>3, <3>4, <3>5
  <2> QED
    BY <1>2, <2>1, <2>2 DEF ApplyCheckout
<1>3. ASSUME ResolveCredit(w) PROVE Applied(w)
  BY <1>1, <1>3 DEF ResolveCredit, StillInReview, Applied
<1> QED
  BY <1>1, <1>2, <1>3 DEF ApplyCheckout, ResolveCredit

LEMMA ApplyKeeps ==
    ASSUME IndInv, NEW w \in Worker, ApplyCheckout(w) \/ ResolveCredit(w) PROVE IndInv'
<1> DEFINE d == task[w].deposit
<1>1. /\ Applied(w) /\ task' = [task EXCEPT ![w] = Idle] /\ UNCHANGED <<age, external, crashes>>
      /\ d \in Deposit /\ status[d] # "NONE" /\ checkout[d] # "NONE"
  BY ApplyIsApplied DEF Finish
<1>2. saved' \in [Deposit -> BOOLEAN] /\ \A e \in Deposit : saved'[e] => e = d \/ saved[e]
  BY <1>1 DEF Applied, SaveRef, IndInv, TypeOK
<1>3. \A e \in Deposit : status[e] # "NONE" <=> status'[e] # "NONE"
  BY <1>1 DEF Applied, Becomes, IndInv, TypeOK
<1>4. Idle \in Task
  BY DEF Job, Idle, Task, Kind, Stage, CheckoutState
<1>5. task' \in [Worker -> Task] /\ OneCheckout' /\ AnswersHold'
  BY <1>1, <1>2, <1>3, <1>4, HandlersKeep DEF external, IndInv, OneCheckout
<1>6. TypeOK' /\ CreditIsBacked' /\ ClosedHoldsNothing'
  <2> USE DEF IndInv, TypeOK, CreditIsBacked, ClosedHoldsNothing, savings, external
  <2>1. CASE UNCHANGED <<status, saved, savings>>
    BY <2>1, <1>1, <1>5
  <2>2. CASE /\ status[d] \notin {"CREDITED", "DISMISSED"}
             /\ \E s \in {"NEEDS_REVIEW", "EXPIRED", "FAILED"} : Becomes(d, s)
             /\ UNCHANGED savings
    BY <2>2, <1>1, <1>2, <1>5 DEF Becomes, Status
  <2>3. CASE /\ status[d] \notin {"CREDITED", "DISMISSED"}
             /\ checkout[d] = "PAID" /\ ~mismatch[d] /\ account # "CLOSED"
             /\ Becomes(d, "CREDITED") /\ Credit(d)
    <3>1. credited[d] = 0
      BY <1>1, <2>3
    <3>2. /\ balance' = balance + paid[d] /\ account' = account
          /\ credited' = [credited EXCEPT ![d] = paid[d]]
      BY <1>1, <2>3, <3>1 DEF Credit
    <3>3. status' \in [Deposit -> Status] /\ balance' \in Nat /\ credited' \in [Deposit -> Nat]
      BY <2>3, <3>2, <1>1 DEF Becomes, Status
    <3>5. TypeOK'
      BY <3>2, <3>3, <1>1, <1>2, <1>5
    <3>4. CreditIsBacked' /\ ClosedHoldsNothing'
      BY <2>3, <3>2, <1>1 DEF Becomes
    <3> QED
      BY <3>4, <3>5
  <2> QED
    BY <1>1, <2>1, <2>2, <2>3 DEF Applied
<1> QED
  BY <1>5, <1>6 DEF IndInv

LEMMA HandlerKeeps == ASSUME IndInv, NEW w \in Worker, HandlerStep(w) PROVE IndInv'
  BY SavedKeeps, FailsKeeps, LookupKeeps, ApplyKeeps DEF HandlerStep

LEMMA ArrivalKeeps ==
    ASSUME IndInv, NEW d \in Deposit, CreateCheckout(d), UNCHANGED <<depositRow, savings, crashes>>,
           checkout[d] = "NONE", status[d] # "NONE",
           \/ UNCHANGED task /\ d \in late /\ late' = late \ {d}
           \/ \E w \in Worker : /\ task[w].at = "calling" /\ task[w].deposit = d
                                /\ task' = [task EXCEPT ![w].at = "called"]
                                /\ UNCHANGED late
    PROVE  IndInv'
<1> USE DEF CreateCheckout, depositRow, savings
<1>1. /\ checkout' \in [Deposit -> CheckoutState] /\ mismatch' \in [Deposit -> BOOLEAN]
      /\ checkout'[d] = "PENDING"
      /\ \A e \in Deposit : e # d => checkout'[e] = checkout[e] /\ mismatch'[e] = mismatch[e]
  BY DEF IndInv, TypeOK, CheckoutState
<1>2. /\ task' \in [Worker -> Task]
      /\ \A v \in Worker : \/ task'[v] = task[v]
                           \/ /\ task[v].at = "calling" /\ task[v].deposit = d
                              /\ task[v] \in Task
                              /\ task'[v] = [task[v] EXCEPT !.at = "called"]
  BY DEF IndInv, TypeOK, Task, Stage
<1>3. TypeOK'
  BY <1>1, <1>2 DEF IndInv, TypeOK
<1>4. CreditIsBacked' /\ ClosedHoldsNothing'
  <2>1. status[d] # "CREDITED"
    BY DEF IndInv, CreditIsBacked
  <2> QED
    BY <1>1, <2>1 DEF IndInv, CreditIsBacked, ClosedHoldsNothing
<1>5. \A v \in Worker : task'[v].at = "calling" =>
          task'[v] = task[v] /\ task[v].deposit # d
  BY <1>2 DEF IndInv, OneCheckout, Task
<1>6. OneCheckout'
  BY <1>1, <1>5 DEF IndInv, OneCheckout, AnswersHold, Idle, Job
<1>7. AnswersHold'
  <2> SUFFICES ASSUME NEW v \in Worker, task'[v] # Idle
               PROVE  LET t == task'[v] IN
                      /\ t.deposit \in Deposit /\ t.at # "idle"
                      /\ status[t.deposit] # "NONE"
                      /\ t.at # "calling" => checkout'[t.deposit] # "NONE"
                      /\ t.at = "act" => t.view # "NONE"
                      /\ t.view = "PAID" => checkout'[t.deposit] = "PAID"
    BY DEF AnswersHold
  <2>1. CASE task'[v] = task[v]
    BY <1>1, <2>1 DEF IndInv, AnswersHold
  <2>2. CASE /\ task[v].at = "calling" /\ task[v].deposit = d /\ task[v] \in Task
             /\ task'[v] = [task[v] EXCEPT !.at = "called"]
    BY <1>1, <2>2 DEF IndInv, AnswersHold, Idle, Job, Task
  <2> QED
    BY <1>2, <2>1, <2>2
<1> QED
  BY <1>3, <1>4, <1>6, <1>7 DEF IndInv

LEMMA ProviderKeeps == IndInv /\ ProviderStep => IndInv'
<1> SUFFICES ASSUME IndInv, ProviderStep PROVE IndInv'
  OBVIOUS
<1>1. ASSUME NEW w \in Worker, RequestArrives(w) PROVE IndInv'
  <2> DEFINE d == task[w].deposit
  <2>1. d \in Deposit /\ checkout[d] = "NONE" /\ status[d] # "NONE"
    BY <1>1 DEF RequestArrives, IndInv, OneCheckout, AnswersHold, Idle, Job
  <2> QED
    BY <1>1, <2>1, ArrivalKeeps DEF RequestArrives
<1>2. ASSUME NEW d \in Deposit, LateRequestArrives(d) PROVE IndInv'
  <2>1. checkout[d] = "NONE" /\ status[d] # "NONE"
    BY <1>2 DEF LateRequestArrives, IndInv, OneCheckout
  <2> QED
    BY <1>2, <2>1, ArrivalKeeps DEF LateRequestArrives
<1>3. ASSUME NEW d \in Deposit, NEW s \in CheckoutState, checkout[d] \notin {"NONE", "PAID"}, s # "NONE",
             checkout' = [checkout EXCEPT ![d] = s], paid' \in [Deposit -> Nat],
             \A e \in Deposit : e # d => paid'[e] = paid[e],
             UNCHANGED <<depositRow, savings, mismatch, late, task, crashes>>
      PROVE  IndInv'
  <2> USE DEF depositRow, savings
  <2>1. \A e \in Deposit : /\ e # d => checkout'[e] = checkout[e]
                           /\ checkout'[e] = "NONE" <=> checkout[e] = "NONE"
                           /\ checkout[e] = "PAID" => checkout'[e] = "PAID" /\ e # d
    BY <1>3 DEF IndInv, TypeOK
  <2>2. TypeOK'
    BY <1>3 DEF IndInv, TypeOK
  <2>3. CreditIsBacked' /\ ClosedHoldsNothing'
    BY <1>3, <2>1 DEF IndInv, CreditIsBacked, ClosedHoldsNothing
  <2>4. OneCheckout' /\ AnswersHold'
    BY <1>3, <2>1 DEF IndInv, OneCheckout, AnswersHold, Idle, Job
  <2> QED
    BY <2>2, <2>3, <2>4 DEF IndInv
<1>4. ASSUME NEW d \in Deposit, NEW amount \in Payment, Pay(d, amount) PROVE IndInv'
  <2>1. paid' \in [Deposit -> Nat] /\ \A e \in Deposit : e # d => paid'[e] = paid[e]
    BY <1>4, DepositAssumption DEF Pay, IndInv, TypeOK
  <2> QED
    BY <1>3, <1>4, <2>1 DEF Pay, CheckoutState
<1>5. ASSUME NEW d \in Deposit, NEW state \in CheckoutState, EndUnpaid(d, state) PROVE IndInv'
  <2>1. paid' \in [Deposit -> Nat]
    BY <1>5 DEF EndUnpaid, IndInv, TypeOK
  <2> QED
    BY <1>3, <1>5, <2>1 DEF EndUnpaid
<1> QED
  BY <1>1, <1>2, <1>4, <1>5 DEF ProviderStep

LEMMA OthersKeep ==
    ASSUME IndInv,
           \/ \E d \in Deposit : Dismiss(d) \/ GrowOld(d)
           \/ CloseAccount
           \/ Crash
           \/ UNCHANGED depositVars
    PROVE  IndInv'
<1> USE DEF depositRow, savings, external, depositVars
<1>1. ASSUME NEW d \in Deposit, Dismiss(d) PROVE IndInv'
  <2>1. \A e \in Deposit : status'[e] = IF e = d THEN "DISMISSED" ELSE status[e]
    BY <1>1 DEF Dismiss, Becomes, IndInv, TypeOK
  <2>2. TypeOK' /\ CreditIsBacked' /\ ClosedHoldsNothing'
    BY <1>1, <2>1 DEF Dismiss, Becomes, IndInv, TypeOK, Status, CreditIsBacked, ClosedHoldsNothing
  <2>3. OneCheckout' /\ AnswersHold'
    BY <1>1, <2>1 DEF Dismiss, IndInv, OneCheckout, AnswersHold
  <2> QED
    BY <2>2, <2>3 DEF IndInv
<1>2. ASSUME NEW d \in Deposit, GrowOld(d) PROVE IndInv'
  BY <1>2 DEF GrowOld, IndInv, TypeOK, CreditIsBacked, ClosedHoldsNothing, OneCheckout, AnswersHold
<1>3. CASE CloseAccount
  BY <1>3 DEF CloseAccount, IndInv, TypeOK, CreditIsBacked, ClosedHoldsNothing, OneCheckout,
              AnswersHold
<1>4. CASE Crash
  <2>1. Idle \in Task /\ Idle.at = "idle"
    BY DEF Job, Idle, Task, Kind, Stage, CheckoutState
  <2>2. TypeOK' /\ CreditIsBacked' /\ ClosedHoldsNothing'
    BY <1>4, <2>1, DepositAssumption DEF Crash, IndInv, TypeOK, CreditIsBacked, ClosedHoldsNothing
  <2>3. AnswersHold'
    BY <1>4 DEF Crash, AnswersHold
  <2>4. OneCheckout'
    BY <1>4, <2>1 DEF Crash, IndInv, OneCheckout, AnswersHold
  <2> QED
    BY <2>2, <2>3, <2>4 DEF IndInv
<1>5. CASE UNCHANGED depositVars
  BY <1>5 DEF IndInv, TypeOK, CreditIsBacked, ClosedHoldsNothing, OneCheckout, AnswersHold
<1> QED
  BY <1>1, <1>2, <1>3, <1>4, <1>5

LEMMA NextKeeps == IndInv /\ [DepositNext]_depositVars => IndInv'
  BY RequestKeeps, HandlerKeeps, ProviderKeeps, OthersKeep DEF DepositNext, Worker

-------------------------------------------------------------------------------
(***************************************************************************)
(* The safety properties, for every value of the constants.                *)
(***************************************************************************)

\* Every reachable state satisfies the inductive invariant.
THEOREM DepositInvariance == DepositSpec => []IndInv
  BY DepositInitInv, NextKeeps, PTL DEF DepositSpec

\* A deposit is CREDITED exactly when its money was posted, once, for what the
\* provider received.
THEOREM CreditsAreBacked == DepositSpec => []CreditIsBacked
<1>1. IndInv => CreditIsBacked
  BY DEF IndInv
<1> QED
  BY <1>1, DepositInvariance, PTL

\* No late answer leaves money on a closed account.
THEOREM ClosedStaysEmpty == DepositSpec => []ClosedHoldsNothing
<1>1. IndInv => ClosedHoldsNothing
  BY DEF IndInv
<1> QED
  BY <1>1, DepositInvariance, PTL

-------------------------------------------------------------------------------
(***************************************************************************)
(* What a step does to the statuses.                                       *)
(***************************************************************************)

\* Only a deposit that is neither credited nor dismissed changes its status, and
\* it is credited for the exact amount or by the staff member who asked.
StatusMoves(d) ==
    \/ status'[d] = status[d]
    \/ /\ status[d] \notin {"CREDITED", "DISMISSED"}
       /\ status'[d] = "CREDITED" =>
             \/ paid[d] = Amount[d]
             \/ \E w \in Worker : task[w].kind = "CREDIT_PAID" /\ task[w].deposit = d

LEMMA StepsMove ==
    ASSUME IndInv, [DepositNext]_depositVars, NEW d \in Deposit PROVE StatusMoves(d)
<1> USE DEF StatusMoves, IndInv, TypeOK
<1>1. ASSUME NEW w \in Worker, ApplyCheckout(w) \/ ResolveCredit(w) PROVE StatusMoves(d)
  <2>1. Applied(w) /\ task[w].deposit \in Deposit
    BY <1>1, ApplyIsApplied
  <2> QED
    BY <2>1 DEF Applied, Becomes
<1>2. ASSUME NEW w \in Worker, HandlerStep(w) PROVE StatusMoves(d)
  BY <1>1, <1>2 DEF HandlerStep, CheckoutSaved, CheckoutFails, Lookup, LookupFails, depositRow
<1>3. ASSUME NEW e \in Deposit,
             \/ \E w \in Request : RequestStep(w, e)
             \/ \E w \in Sweeper : SweepPicks(w, e)
             \/ Dismiss(e)
             \/ GrowOld(e)
      PROVE  StatusMoves(d)
  BY <1>3 DEF RequestStep, StartDeposit, Refresh, WebhookArrives, StaffCredits, SweepPicks, Asks,
              Dismiss, Becomes, GrowOld, depositRow
<1>4. CASE ProviderStep \/ CloseAccount \/ Crash \/ UNCHANGED depositVars
  BY <1>4 DEF ProviderStep, RequestArrives, LateRequestArrives, Pay, EndUnpaid, CloseAccount, Crash,
              depositVars, depositRow
<1> QED
  BY <1>2, <1>3, <1>4 DEF DepositNext

\* A deposit staff dismissed is never credited, nor a credited one reopened.
THEOREM ResolutionsAreFinal == DepositSpec => ResolvedIsFinal
<1>1. IndInv /\ [DepositNext]_depositVars =>
        \A d \in Deposit : status[d] \in {"CREDITED", "DISMISSED"} => status'[d] = status[d]
  BY StepsMove DEF StatusMoves
<1> QED
  BY <1>1, DepositInvariance, PTL DEF DepositSpec, ResolvedIsFinal

\* Only the exact amount is credited without a staff member's decision.
THEOREM OnlyExactCreditsItself == DepositSpec => OnlyExactIsAutomatic
<1>1. IndInv /\ [DepositNext]_depositVars =>
        \A d \in Deposit :
          status[d] # "CREDITED" /\ status'[d] = "CREDITED" =>
            \/ paid[d] = Amount[d]
            \/ \E w \in Worker : task[w].kind = "CREDIT_PAID" /\ task[w].deposit = d
  BY StepsMove DEF StatusMoves
<1> QED
  BY <1>1, DepositInvariance, PTL DEF DepositSpec, OnlyExactIsAutomatic

-------------------------------------------------------------------------------
(***************************************************************************)
(* LoanRelease                                                             *)
(***************************************************************************)

LoanStatus == {"NONE", "Draft", "Submitted", "Under Review", "Approved", "Active", "Rejected", "Cancelled"}
Method == {"FLAT", "DIMINISHING"}
Terms  == [principal : Int, term : Int, method : Method, periods : Int, rate : Int, fees : Int]
Row    == [status : LoanStatus, filedBy : Staff \cup {Member}, terms : Terms]
Held   == [loan : Loan, key : Key]

Shape ==
    /\ product \in Product
    /\ loan \in [Loan -> Row]
    /\ schedule = [l \in Loan |-> schedule[l]]
    /\ asked = [l \in Loan |-> asked[l]] /\ approved = [l \in Loan |-> approved[l]]
    /\ releasing \in [Staff -> Held \cup {NotHeld}]

\* A release under way holds the lock of an approved loan, alone.
HeldAlone ==
    \A w \in Staff : releasing[w] # NotHeld =>
        /\ loan[releasing[w].loan].status = "Approved"
        /\ \A v \in Staff \ {w} : releasing[v].loan # releasing[w].loan

\* What is before the officers is what was asked for.
AsksFor(row, q) == /\ row.terms.principal = q.principal /\ row.terms.method = q.method
                /\ row.terms.periods = q.periods /\ row.terms.rate = q.rate
AsAsked == \A l \in Loan : loan[l].status \in {"Submitted", "Under Review"} => AsksFor(loan[l], asked[l])

\* What was approved is on the row until it is released, and after.
Grants(row, a, q) ==
    /\ row.terms = a.terms /\ a.lines = Lines(a.terms)
    /\ a.by # row.filedBy
    /\ a.terms.principal <= Limit[a.by] /\ a.terms.principal <= q.principal
    /\ a.terms.method = q.method /\ a.terms.periods = q.periods /\ a.terms.rate = q.rate
AsApproved ==
    \A l \in Loan : loan[l].status \in {"Approved", "Active"} => Grants(loan[l], approved[l], asked[l])

\* The part of ReleasedOnce that is not about the books.
OneRelease ==
    /\ \A r, s \in releases : r.loan = s.loan \/ r.key = s.key => r = s
    /\ \A l \in Loan : loan[l].status = "Active" <=> Released(l)

Records(r, row, lines) ==
    r.gross = row.terms.principal /\ r.net = row.terms.principal - row.terms.fees /\ lines = Lines(row.terms)
ReleasesHold ==
    \A r \in releases : r.loan \in Loan /\ Records(r, loan[r.loan], schedule[r.loan])

ReleaseInv == Shape /\ HeldAlone /\ AsAsked /\ AsApproved /\ OneRelease /\ ReleasesHold

LEMMA ReleaseInitInv == Init => ReleaseInv
<1> SUFFICES ASSUME Init PROVE ReleaseInv
  OBVIOUS
<1>1. NotFiled \in Row /\ NotFiled.status = "NONE"
  BY DEF NotFiled, NoTerms, Row, Terms, LoanStatus, Method
<1>2. NotHeld \notin Held
  BY ReleaseAssumption DEF NotHeld, Held
<1>3. Shape
  BY <1>1 DEF Init, Shape
<1> QED
  BY <1>1, <1>3 DEF Init, ReleaseInv, HeldAlone, AsAsked, AsApproved, OneRelease, ReleasesHold, Released

\* One row changes that is not being released and was not; it keeps what was
\* asked for and approved as far as its status says.
LEMMA RowKeeps ==
    ASSUME ReleaseInv, NEW l \in Loan, Free(l), NEW row \in Row,
           loan' = [loan EXCEPT ![l] = row],
           loan[l].status # "Active", row.status # "Active",
           asked' = [k \in Loan |-> asked'[k]], approved' = [k \in Loan |-> approved'[k]],
           \A k \in Loan \ {l} : asked'[k] = asked[k] /\ approved'[k] = approved[k],
           UNCHANGED <<product, rows, releasing>>,
           row.status \in {"Submitted", "Under Review"} => AsksFor(row, asked'[l]),
           row.status = "Approved" => Grants(row, approved'[l], asked'[l])
    PROVE  ReleaseInv'
<1>1. loan'[l] = row /\ \A k \in Loan \ {l} : loan'[k] = loan[k]
  BY DEF ReleaseInv, Shape
<1>2. UNCHANGED <<product, schedule, releases, ledger, borrowed, releasing>>
  BY DEF rows
<1>3. Shape'
  BY <1>2 DEF ReleaseInv, Shape
<1>4. HeldAlone'
  <2>1. ASSUME NEW w \in Staff, releasing[w] # NotHeld
        PROVE  /\ loan'[releasing[w].loan].status = "Approved"
               /\ \A v \in Staff \ {w} : releasing[v].loan # releasing[w].loan
    <3>1. releasing[w].loan \in Loan \ {l}
      BY <2>1 DEF ReleaseInv, Shape, Held, Free
    <3> QED
      BY <2>1, <3>1, <1>1 DEF ReleaseInv, HeldAlone
  <2> QED
    BY <2>1, <1>2 DEF HeldAlone
<1>5. AsAsked'
  BY <1>1 DEF ReleaseInv, AsAsked
<1>6. AsApproved'
  BY <1>1 DEF ReleaseInv, AsApproved
<1>7. ~Released(l)
  BY DEF ReleaseInv, OneRelease
<1>8. OneRelease'
  <2>1. \A r, s \in releases : r.loan = s.loan \/ r.key = s.key => r = s
    BY DEF ReleaseInv, OneRelease
  <2>2. ASSUME NEW k \in Loan PROVE loan'[k].status = "Active" <=> \E r \in releases : r.loan = k
    <3>0. loan[k].status = "Active" <=> \E r \in releases : r.loan = k
      BY DEF ReleaseInv, OneRelease, Released
    <3>1. CASE k = l
      BY <1>1, <1>7, <3>1 DEF Released
    <3>2. CASE k # l
      BY <1>1, <3>0, <3>2
    <3> QED
      BY <3>1, <3>2
  <2> QED
    BY <1>2, <2>1, <2>2 DEF OneRelease, Released
<1>9. ReleasesHold'
  BY <1>1, <1>2, <1>7 DEF ReleaseInv, ReleasesHold, Released
<1> QED
  BY <1>3, <1>4, <1>5, <1>6, <1>8, <1>9 DEF ReleaseInv

LEMMA FeesInt == ASSUME NEW p \in Product, NEW n \in Int PROVE Fees(n, p) \in Int
<1> DEFINE a == n * p.percent * 1
           b == Unit * 1
<1>1. p.percent \in Int /\ p.fixed \in Int /\ Unit \in Nat \ {0}
  BY ReleaseAssumption, ScheduleAssumption
<1>2. a \in Int /\ b \in Int /\ b > 0
  BY <1>1
<1>3. ApplyRate(n, p.percent, 1, 1) = DivRoundHalfUp(a, b)
  BY DEF ApplyRate
<1> HIDE DEF a, b
<1>4. DivRoundHalfUp(a, b) \in Int
  BY <1>2 DEF DivRoundHalfUp
<1>5. DivRoundHalfUp(a, b) + p.fixed \in Int
  BY <1>1, <1>4
<1> QED
  BY <1>3, <1>5 DEF Fees

\* Before the release
LEMMA ApplicationInv ==
    ASSUME ReleaseInv, NEW l \in Loan,
           \/ \E who \in Staff \cup {Member}, principal \in Principal, term \in Term,
                 next \in {"Draft", "Submitted"} : File(l, who, principal, term, next)
           \/ StartReview(l) \/ Return(l) \/ Reject(l) \/ Cancel(l)
    PROVE  ReleaseInv'
<1>0. /\ loan \in [Loan -> Row] /\ loan[l] \in Row /\ product \in Product
      /\ asked = [k \in Loan |-> asked[k]] /\ approved = [k \in Loan |-> approved[k]]
  BY DEF ReleaseInv, Shape
<1>1. ASSUME NEW who \in Staff \cup {Member}, NEW principal \in Principal, NEW term \in Term,
             NEW next \in {"Draft", "Submitted"}, File(l, who, principal, term, next)
      PROVE  ReleaseInv'
  <2> DEFINE terms == Quoted(principal, term)
             filer == IF loan[l].status = "NONE" THEN who ELSE loan[l].filedBy
             row   == [status |-> next, filedBy |-> filer, terms |-> terms]
             ask   == [principal |-> principal, method |-> product.method,
                       periods |-> product.periods, rate |-> product.rate]
  <2>1. principal \in Int /\ term \in Int
    BY ReleaseAssumption
  <2>2. product.method \in Method /\ product.periods \in Int /\ product.rate \in Int
    BY <1>0, ReleaseAssumption, ScheduleAssumption DEF Method
  <2>3. terms \in Terms /\ terms.principal = ask.principal /\ terms.method = ask.method
        /\ terms.periods = ask.periods /\ terms.rate = ask.rate
    <3> DEFINE fees == Fees(principal, product)
    <3>1. fees \in Int
      BY <1>0, <2>1, FeesInt
    <3> HIDE DEF fees
    <3>2. terms = [principal |-> principal, term |-> term, fees |-> fees, method |-> product.method,
                   periods |-> product.periods, rate |-> product.rate]
      BY DEF Quoted, fees
    <3> QED
      BY <2>1, <2>2, <3>1, <3>2 DEF Terms
  <2>4. loan' = [loan EXCEPT ![l] = row] /\ asked' = [asked EXCEPT ![l] = ask]
    BY <1>1 DEF File
  <2>5. filer \in Staff \cup {Member} /\ loan[l].status \in {"NONE", "Draft"}
    BY <1>0, <1>1 DEF File, Row
  <2> HIDE DEF terms, filer, ask
  <2>6. row \in Row /\ row.status = next /\ AsksFor(row, ask)
    BY <2>3, <2>5 DEF Row, LoanStatus, AsksFor
  <2>7. asked' = [k \in Loan |-> asked'[k]] /\ asked'[l] = ask /\ \A k \in Loan \ {l} : asked'[k] = asked[k]
    BY <1>0, <2>4
  <2>8. UNCHANGED <<product, rows, releasing>> /\ approved' = approved /\ Free(l)
    BY <1>1 DEF File
  <2> HIDE DEF row
  <2> QED
    BY <1>0, <2>4, <2>5, <2>6, <2>7, <2>8, RowKeeps
<1>2. ASSUME NEW from, NEW to \in LoanStatus \ {"Submitted", "Approved", "Active"}, Move(l, from, to),
             "Active" \notin from, to = "Under Review" => from = {"Submitted"}
      PROVE  ReleaseInv'
  <2> DEFINE row == [loan[l] EXCEPT !.status = to]
  <2>1. row \in Row /\ row.status = to /\ row.terms = loan[l].terms /\ loan' = [loan EXCEPT ![l] = row]
    BY <1>0, <1>2 DEF Move, Row
  <2>2. loan[l].status # "Active" /\ Free(l) /\ UNCHANGED <<product, rows, releasing, asked, approved>>
    BY <1>2 DEF Move
  <2>3. to = "Under Review" => AsksFor(row, asked[l])
    BY <1>2, <2>1 DEF Move, ReleaseInv, AsAsked, AsksFor
  <2> HIDE DEF row
  <2> QED
    BY <1>0, <1>2, <2>1, <2>2, <2>3, RowKeeps
<1>3. ASSUME StartReview(l) PROVE ReleaseInv'
  BY <1>2, <1>3 DEF StartReview, LoanStatus
<1>4. ASSUME Return(l) \/ Reject(l) \/ Cancel(l) PROVE ReleaseInv'
  BY <1>2, <1>4 DEF Return, Reject, Cancel, LoanStatus
<1> QED
  BY <1>1, <1>3, <1>4

LEMMA ApproveInv ==
    ASSUME ReleaseInv, NEW l \in Loan, NEW who \in Staff, NEW principal \in Principal, NEW term \in Term,
           Approve(l, who, principal, term)
    PROVE  ReleaseInv'
<1> DEFINE fees  == Fees(principal, product)
           terms == [loan[l].terms EXCEPT !.principal = principal, !.term = term, !.fees = fees]
           row   == [loan[l] EXCEPT !.status = "Approved", !.terms = terms]
           quote == [by |-> who, terms |-> terms, lines |-> Lines(terms)]
<1>1. /\ loan \in [Loan -> Row] /\ loan[l] \in Row /\ product \in Product
      /\ asked = [k \in Loan |-> asked[k]] /\ approved = [k \in Loan |-> approved[k]]
      /\ loan[l].status \in {"Submitted", "Under Review"} /\ AsksFor(loan[l], asked[l])
  BY DEF ReleaseInv, Shape, Approve, AsAsked
<1>2. principal \in Int /\ term \in Int /\ fees \in Int
  <2>1. principal \in Int /\ term \in Int
    BY ReleaseAssumption
  <2>2. fees \in Int
    BY <1>1, <2>1, FeesInt
  <2> QED
    BY <2>1, <2>2
<1>3. loan' = [loan EXCEPT ![l] = row] /\ approved' = [approved EXCEPT ![l] = quote]
  BY DEF Approve, ApprovedTerms
<1> HIDE DEF fees
<1>4. terms \in Terms /\ terms.principal = principal /\ terms.method = loan[l].terms.method
      /\ terms.periods = loan[l].terms.periods /\ terms.rate = loan[l].terms.rate
  BY <1>1, <1>2 DEF Row, Terms
<1> HIDE DEF terms
<1>5. row \in Row /\ row.status = "Approved" /\ row.terms = terms /\ row.filedBy = loan[l].filedBy
  BY <1>1, <1>4 DEF Row, LoanStatus
<1>6. quote.by = who /\ quote.terms = terms /\ quote.lines = Lines(terms)
  OBVIOUS
<1> HIDE DEF row, quote
<1>7. Free(l) /\ UNCHANGED <<product, rows, releasing, asked>> /\ who # loan[l].filedBy
      /\ principal <= Limit[who] /\ principal <= loan[l].terms.principal
  BY DEF Approve
<1>8. Grants(row, quote, asked[l])
  BY <1>1, <1>4, <1>5, <1>6, <1>7 DEF Grants, AsksFor
<1>9. approved' = [k \in Loan |-> approved'[k]] /\ approved'[l] = quote
      /\ \A k \in Loan \ {l} : approved'[k] = approved[k]
  BY <1>1, <1>3
<1> QED
  BY <1>1, <1>3, <1>5, <1>7, <1>8, <1>9, RowKeeps

LEMMA StartInv ==
    ASSUME ReleaseInv, NEW w \in Staff, NEW l \in Loan, NEW k \in Key, StartRelease(w, l, k)
    PROVE  ReleaseInv'
<1> DEFINE held == [loan |-> l, key |-> k]
<1>1. held \in Held /\ held.loan = l
  BY DEF Held
<1>2. releasing' = [releasing EXCEPT ![w] = held] /\ loan[l].status = "Approved" /\ Free(l)
      /\ UNCHANGED <<product, loan, schedule, releases, asked, approved>>
  BY DEF StartRelease, rows
<1> HIDE DEF held
<1>3. Shape'
  BY <1>1, <1>2 DEF ReleaseInv, Shape
<1>4. HeldAlone'
  BY <1>1, <1>2 DEF ReleaseInv, Shape, HeldAlone, Free
<1> QED
  BY <1>2, <1>3, <1>4 DEF ReleaseInv, AsAsked, AsApproved, OneRelease, ReleasesHold, Released

LEMMA RollBackInv == ASSUME ReleaseInv, NEW w \in Staff, RollBack(w) PROVE ReleaseInv'
<1>1. releasing' = [releasing EXCEPT ![w] = NotHeld] /\ releasing[w] # NotHeld
      /\ UNCHANGED <<product, loan, schedule, releases, asked, approved>>
  BY DEF RollBack, rows
<1>2. Shape'
  BY <1>1 DEF ReleaseInv, Shape
<1>3. \A v \in Staff : releasing'[v] # NotHeld => v # w /\ releasing'[v] = releasing[v]
  BY <1>1 DEF ReleaseInv, Shape
<1>4. HeldAlone'
  <2>1. ASSUME NEW v \in Staff, releasing'[v] # NotHeld
        PROVE  /\ loan[releasing'[v].loan].status = "Approved"
               /\ \A u \in Staff \ {v} : releasing'[u].loan # releasing'[v].loan
    <3>1. releasing[v] \in Held /\ releasing'[v] = releasing[v]
      BY <1>3, <2>1 DEF ReleaseInv, Shape
    <3>2. releasing[v].loan \in Loan /\ NotHeld.loan \notin Loan
      BY <3>1, ReleaseAssumption DEF Held, NotHeld
    <3>3. \A u \in Staff \ {v} : releasing'[u] \in {NotHeld, releasing[u]}
      BY <1>1 DEF ReleaseInv, Shape
    <3> QED
      BY <2>1, <3>1, <3>2, <3>3 DEF ReleaseInv, HeldAlone
  <2> QED
    BY <1>1, <2>1 DEF HeldAlone
<1> QED
  BY <1>1, <1>2, <1>4 DEF ReleaseInv, AsAsked, AsApproved, OneRelease, ReleasesHold, Released

LEMMA PostInv == ASSUME ReleaseInv, NEW w \in Staff, PostRelease(w) PROVE ReleaseInv'
<1> DEFINE l     == releasing[w].loan
           key   == releasing[w].key
           terms == loan[l].terms
           row   == [loan[l] EXCEPT !.status = "Active"]
           new   == [loan |-> l, key |-> key, gross |-> terms.principal, net |-> terms.principal - terms.fees]
<1>1. releasing[w] # NotHeld /\ l \in Loan /\ loan[l].status = "Approved" /\ loan[l] \in Row
  BY DEF PostRelease, ReleaseInv, Shape, HeldAlone, Held
<1>2. /\ schedule' = [schedule EXCEPT ![l] = Lines(terms)] /\ releases' = releases \cup {new}
      /\ loan' = [loan EXCEPT ![l] = row] /\ releasing' = [releasing EXCEPT ![w] = NotHeld]
      /\ UNCHANGED <<product, asked, approved>> /\ ~KeyTaken(key)
  BY DEF PostRelease, FeesOf, KeyAccepted
<1>3. row \in Row /\ row.status = "Active" /\ row.terms = terms /\ row.filedBy = loan[l].filedBy
  BY <1>1 DEF Row, LoanStatus
<1>4. new.loan = l /\ new.key = key /\ new.gross = terms.principal /\ new.net = terms.principal - terms.fees
  OBVIOUS
<1> HIDE DEF row, new
<1>5. Shape'
  BY <1>1, <1>2, <1>3 DEF ReleaseInv, Shape
<1>6. loan'[l] = row /\ schedule'[l] = Lines(terms)
      /\ \A k \in Loan \ {l} : loan'[k] = loan[k] /\ schedule'[k] = schedule[k]
  BY <1>1, <1>2 DEF ReleaseInv, Shape
<1>7. ~Released(l) /\ \A r \in releases : r.loan # l /\ r.key # key
  BY <1>1, <1>2 DEF ReleaseInv, OneRelease, Released, KeyTaken
<1>8. HeldAlone'
  <2>1. ASSUME NEW v \in Staff, releasing'[v] # NotHeld
        PROVE  /\ loan'[releasing'[v].loan].status = "Approved"
               /\ \A u \in Staff \ {v} : releasing'[u].loan # releasing'[v].loan
    <3>1. v # w /\ releasing'[v] = releasing[v] /\ releasing[v] \in Held
      BY <1>2, <2>1 DEF ReleaseInv, Shape
    <3>2. releasing[v].loan \in Loan \ {l} /\ NotHeld.loan \notin Loan
      BY <1>1, <3>1, ReleaseAssumption DEF Held, NotHeld, ReleaseInv, HeldAlone
    <3>3. \A u \in Staff \ {v} : releasing'[u] \in {NotHeld, releasing[u]}
      BY <1>2 DEF ReleaseInv, Shape
    <3> QED
      BY <1>6, <2>1, <3>1, <3>2, <3>3 DEF ReleaseInv, HeldAlone
  <2> QED
    BY <2>1 DEF HeldAlone
<1>9. AsAsked'
  BY <1>2, <1>3, <1>6 DEF ReleaseInv, AsAsked
<1>10. AsApproved'
  BY <1>1, <1>2, <1>3, <1>6 DEF ReleaseInv, AsApproved, Grants
<1>11. OneRelease'
  <2>1. \A r, s \in releases' : r.loan = s.loan \/ r.key = s.key => r = s
    BY <1>2, <1>4, <1>7 DEF ReleaseInv, OneRelease
  <2>2. ASSUME NEW k \in Loan PROVE loan'[k].status = "Active" <=> \E r \in releases' : r.loan = k
    <3>1. CASE k = l
      BY <1>2, <1>3, <1>4, <1>6, <3>1
    <3>2. CASE k # l
      BY <1>2, <1>4, <1>6, <3>2 DEF ReleaseInv, OneRelease, Released
    <3> QED
      BY <3>1, <3>2
  <2> QED
    BY <2>1, <2>2 DEF OneRelease, Released
<1>12. ReleasesHold'
  <2>1. ASSUME NEW r \in releases' PROVE r.loan \in Loan /\ Records(r, loan'[r.loan], schedule'[r.loan])
    <3>1. CASE r = new
      BY <1>1, <1>3, <1>4, <1>6, <3>1 DEF Records
    <3>2. CASE r \in releases
      BY <1>6, <1>7, <3>2 DEF ReleaseInv, ReleasesHold
    <3> QED
      BY <1>2, <3>1, <3>2
  <2> QED
    BY <2>1 DEF ReleasesHold
<1> QED
  BY <1>5, <1>8, <1>9, <1>10, <1>11, <1>12 DEF ReleaseInv

LEMMA NextInv == ASSUME ReleaseInv, [Next]_vars PROVE ReleaseInv'
<1>1. CASE UNCHANGED vars
  BY <1>1 DEF vars, rows, ReleaseInv, Shape, HeldAlone, AsAsked, AsApproved, OneRelease, ReleasesHold, Released
<1>2. ASSUME NEW p \in Product, SaveProduct(p) PROVE ReleaseInv'
  BY <1>2 DEF SaveProduct, rows, ReleaseInv, Shape, HeldAlone, AsAsked, AsApproved, OneRelease, ReleasesHold,
     Released
<1> QED
  BY <1>1, <1>2, ApplicationInv, ApproveInv, StartInv, PostInv, RollBackInv DEF Next

LEMMA Invariance == Spec => []ReleaseInv
  BY ReleaseInitInv, NextInv, PTL DEF Spec

\* What is released is the quote that was approved, within the approver's limit
\* and what was asked, whatever happened to the product (disburseLoan).
THEOREM ReleasesAreAsApproved == Spec => []ReleasedAsApproved
<1>1. ReleaseInv => ReleasedAsApproved
  <2> SUFFICES ASSUME ReleaseInv, NEW r \in releases
               PROVE  LET a == approved[r.loan]
                          q == asked[r.loan]
                      IN  /\ r.gross = a.terms.principal /\ r.net = a.terms.principal - a.terms.fees
                          /\ schedule[r.loan] = a.lines
                          /\ a.by # loan[r.loan].filedBy
                          /\ a.terms.principal <= Limit[a.by] /\ a.terms.principal <= q.principal
                          /\ a.terms.method = q.method /\ a.terms.periods = q.periods
                          /\ a.terms.rate = q.rate
    BY DEF ReleasedAsApproved
  <2>1. r.loan \in Loan /\ Records(r, loan[r.loan], schedule[r.loan]) /\ loan[r.loan].status = "Active"
    BY DEF ReleaseInv, ReleasesHold, OneRelease, Released
  <2>2. Grants(loan[r.loan], approved[r.loan], asked[r.loan])
    BY <2>1 DEF ReleaseInv, AsApproved
  <2> QED
    BY <2>1, <2>2 DEF Records, Grants
<1> QED
  BY <1>1, Invariance, PTL

-------------------------------------------------------------------------------
\* The sums

Gross(rs) == SumFunction([r \in rs |-> r.gross])
Net(rs)   == SumFunction([r \in rs |-> r.net])

\* The accounts and the members' totals are what was released.
Books ==
    /\ IsFiniteSet(releases) /\ \A r \in releases : r.gross \in Int /\ r.net \in Int
    /\ ledger \in [Account -> Int]
    /\ ledger.LOANS_RECEIVABLE = Gross(releases)
    /\ ledger.CASH + Net(releases) = 0
    /\ ledger.LOANS_RECEIVABLE + ledger.CASH + ledger.SERVICE_FEE_INCOME = 0
    /\ borrowed = [l \in Loan |-> borrowed[l]]
    /\ \A l \in Loan : ~Released(l) => borrowed[l] = 0
    /\ \A r \in releases : borrowed[r.loan] = r.gross

LEMMA InitBooks == Init => Books
<1> SUFFICES ASSUME Init PROVE Books
  OBVIOUS
<1>1. Gross({}) = 0 /\ Net({}) = 0
  <2>1. \A f : DOMAIN f = {} => SumFunction(f) = 0
    BY SumEmpty DEF SumFunction
  <2> QED
    BY <2>1 DEF Gross, Net
<1>2. IsFiniteSet({})
  BY FS_EmptySet
<1> QED
  BY <1>1, <1>2 DEF Init, Books, Released, Account

\* One release more, as sums.
LEMMA SumsGrow ==
    ASSUME NEW rs, IsFiniteSet(rs), \A r \in rs : r.gross \in Int /\ r.net \in Int,
           NEW new, new \notin rs, new.gross \in Int, new.net \in Int
    PROVE  /\ Gross(rs \cup {new}) = Gross(rs) + new.gross /\ Gross(rs) \in Int
           /\ Net(rs \cup {new}) = Net(rs) + new.net /\ Net(rs) \in Int
<1> DEFINE g == [r \in rs |-> r.gross]
           n == [r \in rs |-> r.net]
           h == [r \in rs \cup {new} |-> r.gross]
           m == [r \in rs \cup {new} |-> r.net]
<1>1. (\A r \in rs : g[r] \in Int /\ h[r] = g[r]) /\ h[new] = new.gross /\ h[new] \in Int
  OBVIOUS
<1>2. (\A r \in rs : n[r] \in Int /\ m[r] = n[r]) /\ m[new] = new.net /\ m[new] \in Int
  OBVIOUS
<1>3. /\ Gross(rs) = SumFunctionOnSet(g, rs) /\ Gross(rs \cup {new}) = SumFunctionOnSet(h, rs \cup {new})
      /\ Net(rs) = SumFunctionOnSet(n, rs) /\ Net(rs \cup {new}) = SumFunctionOnSet(m, rs \cup {new})
  BY DEF Gross, Net, SumFunction
<1> HIDE DEF g, n, h, m
<1>4. SumFunctionOnSet(h, rs \cup {new}) = SumFunctionOnSet(g, rs) + h[new] /\ SumFunctionOnSet(g, rs) \in Int
  <2>1. \A r \in rs : g[r] \in Int
    BY <1>1
  <2>2. SumFunctionOnSet(g, rs) \in Int
    BY <2>1, SumInt
  <2>3. SumFunctionOnSet(h, rs \cup {new}) = SumFunctionOnSet(g, rs) + h[new]
    <3>1. \A r \in rs : g[r] \in Int /\ h[r] = g[r]
      BY <1>1
    <3>2. h[new] \in Int
      BY <1>1
    <3> QED
      BY <3>1, <3>2, SumGrows
  <2> QED
    BY <2>2, <2>3
<1>5. SumFunctionOnSet(m, rs \cup {new}) = SumFunctionOnSet(n, rs) + m[new] /\ SumFunctionOnSet(n, rs) \in Int
  <2>1. \A r \in rs : n[r] \in Int
    BY <1>2
  <2>2. SumFunctionOnSet(n, rs) \in Int
    BY <2>1, SumInt
  <2>3. SumFunctionOnSet(m, rs \cup {new}) = SumFunctionOnSet(n, rs) + m[new]
    <3>1. \A r \in rs : n[r] \in Int /\ m[r] = n[r]
      BY <1>2
    <3>2. m[new] \in Int
      BY <1>2
    <3> QED
      BY <3>1, <3>2, SumGrows
  <2> QED
    BY <2>2, <2>3
<1> QED
  BY <1>1, <1>2, <1>3, <1>4, <1>5

LEMMA PostBooks == ASSUME ReleaseInv, Books, NEW w \in Staff, PostRelease(w) PROVE Books'
<1> DEFINE l     == releasing[w].loan
           terms == loan[l].terms
           new   == [loan |-> l, key |-> releasing[w].key, gross |-> terms.principal,
                     net |-> terms.principal - terms.fees]
           entry == ReleaseEntry(terms.principal, terms.fees)
<1>1. l \in Loan /\ loan[l].status = "Approved" /\ terms.principal \in Int /\ terms.fees \in Int
  BY DEF PostRelease, ReleaseInv, Shape, HeldAlone, Held, Row, Terms
<1>2. ~Released(l)
  BY <1>1 DEF ReleaseInv, OneRelease
<1>3. /\ releases' = releases \cup {new} /\ ledger' = [a \in Account |-> ledger[a] + entry[a]]
      /\ borrowed' = [borrowed EXCEPT ![l] = @ + terms.principal]
  BY DEF PostRelease, FeesOf
<1>4. /\ new.loan = l /\ new.gross = terms.principal /\ new.net = terms.principal - terms.fees
      /\ entry.LOANS_RECEIVABLE = terms.principal /\ entry.CASH = terms.fees - terms.principal
      /\ entry.SERVICE_FEE_INCOME = -terms.fees
  BY DEF ReleaseEntry
<1> HIDE DEF new, entry
<1>5. new \notin releases /\ new.gross \in Int /\ new.net \in Int
  BY <1>1, <1>2, <1>4 DEF Released
<1>6. /\ Gross(releases') = Gross(releases) + new.gross /\ Gross(releases) \in Int
      /\ Net(releases') = Net(releases) + new.net /\ Net(releases) \in Int
  <2>1. IsFiniteSet(releases) /\ \A r \in releases : r.gross \in Int /\ r.net \in Int
    BY DEF Books
  <2> QED
    BY <1>3, <1>5, <2>1, SumsGrow
<1>7. IsFiniteSet(releases') /\ \A r \in releases' : r.gross \in Int /\ r.net \in Int
  <2>1. IsFiniteSet(releases \cup {new})
    BY FS_AddElement DEF Books
  <2> QED
    BY <1>3, <1>5, <2>1 DEF Books
<1>8. /\ ledger' \in [Account -> Int]
      /\ ledger'.LOANS_RECEIVABLE = ledger.LOANS_RECEIVABLE + terms.principal
      /\ ledger'.CASH = ledger.CASH + (terms.fees - terms.principal)
      /\ ledger'.SERVICE_FEE_INCOME = ledger.SERVICE_FEE_INCOME + (-terms.fees)
      /\ ledger.LOANS_RECEIVABLE \in Int /\ ledger.CASH \in Int /\ ledger.SERVICE_FEE_INCOME \in Int
  BY <1>1, <1>3, <1>4 DEF Books, Account
<1>9. /\ ledger'.LOANS_RECEIVABLE = Gross(releases') /\ ledger'.CASH + Net(releases') = 0
      /\ ledger'.LOANS_RECEIVABLE + ledger'.CASH + ledger'.SERVICE_FEE_INCOME = 0
  <2> DEFINE principal == terms.principal
             fees == terms.fees
  <2>1. principal \in Int /\ fees \in Int /\ new.gross = principal /\ new.net = principal - fees
    BY <1>1, <1>4
  <2> HIDE DEF terms
  <2>2. /\ ledger'.LOANS_RECEIVABLE = ledger.LOANS_RECEIVABLE + principal
        /\ ledger'.CASH = ledger.CASH + (fees - principal)
        /\ ledger'.SERVICE_FEE_INCOME = ledger.SERVICE_FEE_INCOME + (-fees)
    BY <1>8
  <2>3. /\ ledger.LOANS_RECEIVABLE = Gross(releases) /\ ledger.CASH + Net(releases) = 0
        /\ ledger.LOANS_RECEIVABLE + ledger.CASH + ledger.SERVICE_FEE_INCOME = 0
    BY DEF Books
  <2> HIDE DEF principal, fees
  <2> QED
    BY <1>6, <1>8, <2>1, <2>2, <2>3
<1>10. borrowed' = [k \in Loan |-> borrowed'[k]] /\ borrowed'[l] = new.gross
       /\ \A k \in Loan \ {l} : borrowed'[k] = borrowed[k]
  <2>1. borrowed = [k \in Loan |-> borrowed[k]] /\ borrowed[l] = 0
    BY <1>1, <1>2 DEF Books
  <2>2. 0 + terms.principal = terms.principal
    BY <1>1
  <2> QED
    BY <1>1, <1>3, <1>4, <2>1, <2>2
<1>11. \A k \in Loan : ~Released(k)' => borrowed'[k] = 0
  <2>1. \A k \in Loan : ~Released(k)' => k # l /\ ~Released(k)
    BY <1>3, <1>4 DEF Released
  <2> QED
    BY <1>10, <2>1 DEF Books
<1>12. \A r \in releases' : borrowed'[r.loan] = r.gross
  <2>1. \A r \in releases : r.loan \in Loan \ {l}
    BY <1>2 DEF ReleaseInv, ReleasesHold, Released
  <2> QED
    BY <1>3, <1>4, <1>10, <2>1 DEF Books
<1> QED
  BY <1>7, <1>8, <1>9, <1>10, <1>11, <1>12 DEF Books

\* Nothing but a release changes the rows of the books.
LEMMA NextBooks == ASSUME ReleaseInv, Books, [Next]_vars PROVE Books'
<1>1. ASSUME UNCHANGED <<releases, ledger, borrowed>> PROVE Books'
  BY <1>1 DEF Books, Released
<1>2. ASSUME \E p \in Product : SaveProduct(p) PROVE UNCHANGED <<releases, ledger, borrowed>>
  BY <1>2 DEF SaveProduct, rows
<1>3. ASSUME NEW l \in Loan, NEW who, NEW principal, NEW term, NEW next,
             File(l, who, principal, term, next) \/ Approve(l, who, principal, term)
      PROVE  UNCHANGED <<releases, ledger, borrowed>>
  BY <1>3 DEF File, Approve, rows
<1>4. ASSUME NEW l \in Loan, StartReview(l) \/ Return(l) \/ Reject(l) \/ Cancel(l)
      PROVE  UNCHANGED <<releases, ledger, borrowed>>
  BY <1>4 DEF StartReview, Return, Reject, Cancel, Move, rows
<1>5. ASSUME NEW w \in Staff, NEW l, NEW k, StartRelease(w, l, k) \/ RollBack(w)
      PROVE  UNCHANGED <<releases, ledger, borrowed>>
  BY <1>5 DEF StartRelease, RollBack, rows
<1>6. ASSUME UNCHANGED vars PROVE UNCHANGED <<releases, ledger, borrowed>>
  BY <1>6 DEF vars, rows
<1> QED
  BY <1>1, <1>2, <1>3, <1>4, <1>5, <1>6, PostBooks DEF Next

LEMMA BooksInvariance == Spec => []Books
  BY InitBooks, NextBooks, Invariance, PTL DEF Spec

\* No loan and no idempotency key is released twice, a loan is active exactly
\* when it was released, and the ledger and the members' totals are the sums of
\* what was released (disburseLoan).
THEOREM LoansAreReleasedOnce == Spec => []ReleasedOnce
<1>1. ReleaseInv /\ Books => ReleasedOnce
  <2> SUFFICES ASSUME ReleaseInv, Books PROVE ReleasedOnce
    OBVIOUS
  <2>1. Net(releases) \in Int /\ ledger.CASH \in Int
    <3> DEFINE n == [r \in releases |-> r.net]
    <3>1. IsFiniteSet(releases) /\ \A r \in releases : n[r] \in Int
      BY DEF Books
    <3>2. Net(releases) = SumFunctionOnSet(n, releases)
      BY DEF Net, SumFunction
    <3> HIDE DEF n
    <3>3. SumFunctionOnSet(n, releases) \in Int
      BY <3>1, SumInt
    <3> QED
      BY <3>2, <3>3 DEF Books, Account
  <2>2. ledger.CASH = -Net(releases)
    BY <2>1 DEF Books
  <2> QED
    BY <2>2 DEF ReleaseInv, OneRelease, Books, ReleasedOnce, Gross, Net
<1> QED
  BY <1>1, Invariance, BooksInvariance, PTL

-------------------------------------------------------------------------------
\* The schedule

\* Rounding to the nearest whole, half upwards.
LEMMA RoundedToNearest ==
    ASSUME NEW a \in Nat, NEW b \in Nat \ {0}
    PROVE  LET q == DivRoundHalfUp(a, b) IN q \in Nat /\ 2 * (b * q - a) \in (1 - b)..b
<1> DEFINE n == 2 * a + b
           d == 2 * b
           q == n \div d
<1>1. n \in Nat /\ d \in Nat /\ d > 0
  OBVIOUS
<1> HIDE DEF n, d
<1>2. q \in Nat /\ d * q <= n /\ n < d * q + d
  BY <1>1
<1>3. DivRoundHalfUp(a, b) = q
  BY DEF DivRoundHalfUp, n, d
<1> HIDE DEF q
<1>4. d * q = 2 * (b * q) /\ b * q \in Int
  BY <1>2 DEF d
<1>5. 2 * (b * q) <= 2 * a + b /\ 2 * a + b < 2 * (b * q) + 2 * b
  BY <1>2, <1>4 DEF n, d
<1> QED
  BY <1>2, <1>3, <1>4, <1>5

LEMMA RoundedInt == ASSUME NEW a \in Int, NEW b \in Nat \ {0} PROVE DivRoundHalfUp(a, b) \in Int
<1> DEFINE n == 2 * a + b
           d == 2 * b
<1>1. n \in Int /\ d \in Nat /\ d > 0
  OBVIOUS
<1> HIDE DEF n, d
<1>2. n \div d \in Int
  BY <1>1
<1> QED
  BY <1>2 DEF DivRoundHalfUp, n, d

\* The parts of an amount differ by a centavo at most, the larger ones first,
\* and add up to it.
LEMMA SplitIsEven ==
    ASSUME NEW total \in Nat, NEW parts \in Nat \ {0}
    PROVE  LET split == SplitEvenly(total, parts)
           IN  /\ split \in [1..parts -> Nat]
               /\ \A i, j \in 1..parts : i < j => split[i] - split[j] \in {0, 1}
               /\ SumFunctionOnSet(split, 1..parts) = total
<1> DEFINE split == SplitEvenly(total, parts)
           q == total \div parts
           m == total % parts
           sum(k) == SumFunctionOnSet(split, 1..k)
           N == {k \in Nat : k <= parts => sum(k) = k * q + (IF k <= m THEN k ELSE m)}
<1>1. q \in Nat /\ m \in 0..(parts - 1) /\ total = parts * q + m
  OBVIOUS
<1>2. split = [i \in 1..parts |-> q + (IF i <= m THEN 1 ELSE 0)]
  BY DEF SplitEvenly
<1> HIDE DEF split, q, m
<1>3. split \in [1..parts -> Nat] /\ \A i, j \in 1..parts : i < j => split[i] - split[j] \in {0, 1}
  BY <1>1, <1>2
<1>4. 0 \in N
  <2>1. sum(0) = 0
    BY SumEmpty, 1..0 = {}
  <2> QED
    BY <1>1, <2>1
<1>5. ASSUME NEW k \in N PROVE k + 1 \in N
  <2> SUFFICES ASSUME k + 1 <= parts PROVE sum(k + 1) = (k + 1) * q + (IF k + 1 <= m THEN k + 1 ELSE m)
    OBVIOUS
  <2>1. sum(k + 1) = sum(k) + split[k + 1]
    <3>1. \A n \in 1..(k + 1) : split[n] \in Int
      BY <1>3
    <3> QED
      BY <3>1, SumNext
  <2>2. sum(k) = k * q + (IF k <= m THEN k ELSE m)
    OBVIOUS
  <2>3. split[k + 1] = q + (IF k + 1 <= m THEN 1 ELSE 0)
    BY <1>2
  <2> HIDE DEF sum
  <2>4. (k + 1) * q = k * q + q /\ k * q \in Int
    BY <1>1
  <2> QED
    BY <1>1, <2>1, <2>2, <2>3, <2>4
<1>6. parts \in N
  <2> HIDE DEF N
  <2>1. N \in SUBSET Nat
    BY DEF N
  <2> QED
    BY <1>4, <1>5, <2>1, NatSetInduction
<1>7. sum(parts) = total
  BY <1>1, <1>6
<1> QED
  BY <1>3, <1>7 DEF split

LEMMA CountIsPositive ==
    ASSUME NEW term \in Nat \ {0}, NEW periods \in {12, 26, 52}
    PROVE  InstallmentCount(term, periods) \in Nat \ {0}
<1> DEFINE a == term * periods
           q == DivRoundHalfUp(a, 12)
<1>1. a \in Nat /\ (periods # 12 => a >= 26)
  OBVIOUS
<1> HIDE DEF a
<1>2. q \in Nat /\ 2 * (12 * q - a) \in (1 - 12)..12
  <2>1. 12 \in Nat \ {0}
    OBVIOUS
  <2> QED
    BY <1>1, <2>1, RoundedToNearest
<1> QED
  BY <1>1, <1>2 DEF InstallmentCount, a

\* A recursion whose step is a function has a solution on the naturals.
LEMMA NatRecursion ==
    ASSUME NEW V, NEW first \in V, NEW F \in [Nat -> [V -> V]]
    PROVE  \E g \in [Nat -> V] : g = [n \in Nat |-> IF n = 0 THEN first ELSE F[n][g[n - 1]]]
<1> DEFINE Sol(n) == {g \in [0..n -> V] : g[0] = first /\ \A k \in 1..n : g[k] = F[k][g[k - 1]]}
           N == {n \in Nat : Sol(n) # {}}
<1>1. 0 \in N
  <2>1. [k \in 0..0 |-> first] \in Sol(0)
    OBVIOUS
  <2> QED
    BY <2>1
<1>2. ASSUME NEW n \in N PROVE n + 1 \in N
  <2>1. PICK g \in Sol(n) : TRUE
    OBVIOUS
  <2> DEFINE h == [k \in 0..(n + 1) |-> IF k = n + 1 THEN F[n + 1][g[n]] ELSE g[k]]
  <2>2. h \in [0..(n + 1) -> V]
    OBVIOUS
  <2>3. h[0] = first /\ h[n + 1] = F[n + 1][h[n]]
    OBVIOUS
  <2>4. ASSUME NEW k \in 1..n PROVE h[k] = F[k][h[k - 1]]
    BY <2>1
  <2>5. \A k \in 1..(n + 1) : h[k] = F[k][h[k - 1]]
    <3> HIDE DEF h
    <3>1. \A k \in 1..(n + 1) : k = n + 1 \/ k \in 1..n
      OBVIOUS
    <3>2. (n + 1) - 1 = n
      OBVIOUS
    <3> QED
      BY <2>3, <2>4, <3>1, <3>2
  <2>6. h \in Sol(n + 1)
    <3> HIDE DEF h
    <3> QED BY <2>2, <2>3, <2>5
  <2> HIDE DEF Sol
  <2>7. n + 1 \in Nat /\ Sol(n + 1) # {}
    BY <2>6
  <2> QED
    BY <2>7
<1>3. N = Nat
  <2> HIDE DEF N
  <2>1. N \in SUBSET Nat
    BY DEF N
  <2> QED
    BY <1>1, <1>2, <2>1, NatSetInduction
<1>4. ASSUME NEW n \in Nat, NEW m \in Nat, NEW g \in Sol(n), NEW h \in Sol(m)
      PROVE  \A k \in Nat : k <= n /\ k <= m => g[k] = h[k]
  <2> DEFINE M == {k \in Nat : k <= n /\ k <= m => g[k] = h[k]}
  <2>1. 0 \in M
    OBVIOUS
  <2>2. ASSUME NEW k \in M PROVE k + 1 \in M
    <3> SUFFICES ASSUME k + 1 <= n, k + 1 <= m PROVE g[k + 1] = h[k + 1]
      OBVIOUS
    <3>1. g[k] = h[k] /\ k + 1 \in 1..n /\ k + 1 \in 1..m /\ (k + 1) - 1 = k
      OBVIOUS
    <3> QED
      BY <3>1
  <2>3. M = Nat
    <3> HIDE DEF M
    <3>1. M \in SUBSET Nat
      BY DEF M
    <3> QED
      BY <2>1, <2>2, <3>1, NatSetInduction
  <2> QED
    BY <2>3
<1> DEFINE sol == [n \in Nat |-> CHOOSE g \in Sol(n) : TRUE]
           all == [n \in Nat |-> sol[n][n]]
<1>5. \A n \in Nat : sol[n] \in Sol(n)
  BY <1>3
<1>6. all \in [Nat -> V]
  <2>1. \A n \in Nat : \A g \in Sol(n) : g[n] \in V
    OBVIOUS
  <2> HIDE DEF Sol, sol
  <2> QED
    BY <1>5, <2>1
<1>7. all[0] = first
  BY <1>5
<1>8. ASSUME NEW n \in Nat \ {0} PROVE all[n] = F[n][all[n - 1]]
  <2> DEFINE p == n - 1
  <2>0. p \in Nat /\ p <= n /\ p <= p /\ n \in Nat
    OBVIOUS
  <2>1. sol[n][n] = F[n][sol[n][p]]
    <3> HIDE DEF sol
    <3>1. n \in 1..n /\ sol[n] \in Sol(n)
      <4> HIDE DEF Sol
      <4> QED
        BY <1>5
    <3> QED
      BY <3>1
  <2>2. sol[n][p] = sol[p][p]
    <3> HIDE DEF Sol, sol, p
    <3> QED
      BY <1>4, <1>5, <2>0
  <2> QED
    BY <2>0, <2>1, <2>2
<1>9. all = [n \in Nat |-> IF n = 0 THEN first ELSE F[n][all[n - 1]]]
  <2> HIDE DEF all
  <2>1. all = [n \in Nat |-> all[n]]
    BY <1>6
  <2>2. \A n \in Nat : all[n] = IF n = 0 THEN first ELSE F[n][all[n - 1]]
    BY <1>7, <1>8
  <2> QED
    BY <2>1, <2>2
<1> QED
  <2> HIDE DEF all
  <2> QED BY <1>6, <1>9

\* base ** n, and that a larger base has the larger powers.
LEMMA PowerIs ==
    ASSUME NEW base \in Nat
    PROVE  Power(base, 0) = 1 /\ \A n \in Nat : Power(base, n) \in Nat /\ Power(base, n + 1) = base * Power(base, n)
<1> DEFINE powers == CHOOSE g : g = [k \in Nat |-> IF k = 0 THEN 1 ELSE base * g[k - 1]]
           times  == [v \in Nat |-> base * v]
           F      == [k \in Nat |-> times]
<1>1. \A n : Power(base, n) = powers[n]
  BY DEF Power
<1>2. \E g \in [Nat -> Nat] : g = [k \in Nat |-> IF k = 0 THEN 1 ELSE F[k][g[k - 1]]]
  <2> DEFINE V == Nat
             first == 1
  <2>1. F \in [Nat -> [V -> V]] /\ first \in V
    OBVIOUS
  <2> HIDE DEF F, V, first
  <2>2. \E g \in [Nat -> V] : g = [k \in Nat |-> IF k = 0 THEN first ELSE F[k][g[k - 1]]]
    BY <2>1, NatRecursion
  <2> QED
    BY <2>2 DEF V, first
<1>3. PICK g \in [Nat -> Nat] : g = [k \in Nat |-> IF k = 0 THEN 1 ELSE F[k][g[k - 1]]]
  BY <1>2
<1>4. g = [k \in Nat |-> IF k = 0 THEN 1 ELSE base * g[k - 1]]
  <2>1. \A k \in Nat \ {0} : F[k][g[k - 1]] = base * g[k - 1]
    OBVIOUS
  <2> HIDE DEF F
  <2> QED
    BY <1>3, <2>1
<1>5. powers = [k \in Nat |-> IF k = 0 THEN 1 ELSE base * powers[k - 1]]
  BY <1>4
<1> HIDE DEF powers
<1>6. powers[0] = 1 /\ \A n \in Nat : powers[n + 1] = base * powers[n]
  <2>1. powers[0] = 1
    BY <1>5
  <2>2. ASSUME NEW n \in Nat PROVE powers[n + 1] = base * powers[n]
    <3>1. n + 1 \in Nat /\ n + 1 # 0 /\ (n + 1) - 1 = n
      OBVIOUS
    <3> QED
      BY <1>5, <3>1
  <2> QED
    BY <2>1, <2>2
<1>7. \A n \in Nat : powers[n] \in Nat
  <2> DEFINE N == {n \in Nat : powers[n] \in Nat}
  <2>1. 0 \in N /\ \A n \in N : n + 1 \in N
    BY <1>6
  <2>2. N = Nat
    <3> HIDE DEF N
    <3>1. N \in SUBSET Nat
      BY DEF N
    <3> QED
      BY <2>1, <3>1, NatSetInduction
  <2> QED
    BY <2>2
<1> QED
  BY <1>1, <1>6, <1>7

LEMMA PowersGrow ==
    ASSUME NEW D \in Nat \ {0}, NEW rate \in Nat \ {0}, NEW n \in Nat \ {0}
    PROVE  Power(D + rate, n) > Power(D, n) /\ Power(D, n) > 0
<1> DEFINE B == D + rate
           N == {k \in Nat : Power(D, k + 1) > 0 /\ Power(B, k + 1) > Power(D, k + 1)}
<1>1. B \in Nat /\ B > D /\ D > 0
  OBVIOUS
<1>2. /\ Power(D, 0) = 1 /\ \A k \in Nat : Power(D, k) \in Nat /\ Power(D, k + 1) = D * Power(D, k)
      /\ Power(B, 0) = 1 /\ \A k \in Nat : Power(B, k) \in Nat /\ Power(B, k + 1) = B * Power(B, k)
  <2> HIDE DEF B
  <2> QED
    BY <1>1, PowerIs
<1> HIDE DEF B
<1>3. 0 \in N
  BY <1>1, <1>2
<1>4. ASSUME NEW k \in N PROVE k + 1 \in N
  <2> DEFINE d == Power(D, k + 1)
             b == Power(B, k + 1)
  <2>1. d \in Nat /\ b \in Nat /\ b > d /\ d > 0
    BY <1>2
  <2>2. Power(D, (k + 1) + 1) = D * d /\ Power(B, (k + 1) + 1) = B * b
    BY <1>2
  <2> HIDE DEF d, b
  <2>3. D * d > 0 /\ B * b > D * d
    <3>1. D * d > 0 /\ D * b > D * d
      BY <1>1, <2>1
    <3>2. B * b > D * b
      BY <1>1, <2>1
    <3>3. D * d \in Int /\ D * b \in Int /\ B * b \in Int
      BY <1>1, <2>1
    <3> QED
      BY <3>1, <3>2, <3>3
  <2> QED
    BY <2>2, <2>3
<1>5. N = Nat
  <2> HIDE DEF N
  <2>1. N \in SUBSET Nat
    BY DEF N
  <2> QED
    BY <1>3, <1>4, <2>1, NatSetInduction
<1>6. n - 1 \in N /\ (n - 1) + 1 = n
  <2> HIDE DEF N
  <2> QED
    BY <1>5
<1> QED
  BY <1>6 DEF B

\* What a centavo at the end of every period is worth at the last one: a
\* geometric sum, times the periodic rate.
LEMMA WorthIs ==
    ASSUME NEW D \in Nat \ {0}, NEW rate \in Nat \ {0}, NEW n \in Nat \ {0}
    PROVE  LET B == D + rate
               worth == SumFunction([i \in 1..n |-> Power(D, i) * Power(B, n - i)])
           IN  worth \in Nat /\ rate * worth = D * (Power(B, n) - Power(D, n))
<1> DEFINE B == D + rate
           w == [i \in 1..n |-> Power(D, i) * Power(B, n - i)]
           sum(k) == SumFunctionOnSet(w, 1..k)
           N == {k \in Nat : k <= n => rate * sum(k) = D * Power(B, n) - Power(D, k + 1) * Power(B, n - k)}
<1>1. B \in Nat /\ B = D + rate
  OBVIOUS
<1>2. /\ Power(D, 0) = 1 /\ \A k \in Nat : Power(D, k) \in Nat /\ Power(D, k + 1) = D * Power(D, k)
      /\ Power(B, 0) = 1 /\ \A k \in Nat : Power(B, k) \in Nat /\ Power(B, k + 1) = B * Power(B, k)
  <2> HIDE DEF B
  <2> QED
    BY <1>1, PowerIs
<1> HIDE DEF B
<1>3. \A i \in 1..n : w[i] \in Nat /\ w[i] = Power(D, i) * Power(B, n - i)
  BY <1>2
<1> HIDE DEF w
<1>4. 0 \in N
  <2>1. sum(0) = 0
    BY SumEmpty, 1..0 = {}
  <2>2. Power(D, 0 + 1) = D /\ n - 0 = n /\ Power(B, n) \in Nat
    BY <1>2
  <2> QED
    BY <2>1, <2>2
<1>5. ASSUME NEW k \in N PROVE k + 1 \in N
  <2> SUFFICES ASSUME k + 1 <= n
               PROVE  rate * sum(k + 1) = D * Power(B, n) - Power(D, (k + 1) + 1) * Power(B, n - (k + 1))
    OBVIOUS
  <2> DEFINE d == Power(D, k + 1)
             b == Power(B, n - (k + 1))
             all == Power(B, n)
  <2>1. d \in Nat /\ b \in Nat /\ all \in Nat /\ Power(D, (k + 1) + 1) = D * d /\ Power(B, n - k) = B * b
    <3>1. k \in Nat /\ n \in Nat
      OBVIOUS
    <3>2. n - (k + 1) \in Nat /\ (n - (k + 1)) + 1 = n - k /\ k + 1 \in Nat
      BY <3>1
    <3> HIDE DEF N
    <3>3. d \in Nat /\ Power(D, (k + 1) + 1) = D * d
      BY <1>2, <3>2
    <3>4. b \in Nat /\ Power(B, (n - (k + 1)) + 1) = B * b
      BY <1>2, <3>2
    <3> QED
      BY <1>2, <3>1, <3>2, <3>3, <3>4
  <2>2. sum(k + 1) = sum(k) + d * b
    <3>1. \A i \in 1..(k + 1) : w[i] \in Int
      BY <1>3
    <3>2. SumFunctionOnSet(w, 1..(k + 1)) = SumFunctionOnSet(w, 1..k) + w[k + 1]
      BY <3>1, SumNext
    <3>3. w[k + 1] = d * b
      BY <1>3
    <3> QED
      BY <3>2, <3>3
  <2>3. sum(k) \in Int
    <3>1. IsFiniteSet(1..k)
      BY FS_Interval
    <3>2. \A i \in 1..k : w[i] \in Int
      BY <1>3
    <3> QED
      BY <3>1, <3>2, SumInt
  <2>4. rate * sum(k) = D * all - d * (B * b)
    BY <2>1
  <2> DEFINE s == sum(k)
  <2> HIDE DEF sum, d, b, all, s
  <2>5. rate * (s + d * b) = D * all - (D * d) * b
    <3>1. rate * (s + d * b) = rate * s + rate * (d * b)
      BY <2>1, <2>3 DEF s
    <3>2. d * (B * b) = D * (d * b) + rate * (d * b) /\ (D * d) * b = D * (d * b)
      BY <1>1, <2>1
    <3>3. rate * s = D * all - d * (B * b)
      BY <2>4 DEF s
    <3>4. rate * s \in Int /\ rate * (d * b) \in Int /\ D * (d * b) \in Int /\ D * all \in Int
      BY <2>1, <2>3 DEF s
    <3> QED
      BY <3>1, <3>2, <3>3, <3>4
  <2> QED
    BY <2>1, <2>2, <2>5 DEF s, all, b
<1>6. n \in N
  <2>1. N = Nat
    <3> HIDE DEF N
    <3>1. N \in SUBSET Nat
      BY DEF N
    <3> QED
      BY <1>4, <1>5, <3>1, NatSetInduction
  <2> QED
    BY <2>1
<1>7. rate * sum(n) = D * (Power(B, n) - Power(D, n))
  <2>1. rate * sum(n) = D * Power(B, n) - Power(D, n + 1) * Power(B, n - n)
    BY <1>6
  <2>2. Power(B, n - n) = 1 /\ Power(D, n + 1) = D * Power(D, n) /\ Power(B, n) \in Nat /\ Power(D, n) \in Nat
    BY <1>2
  <2> HIDE DEF sum
  <2> QED
    BY <2>1, <2>2
<1>8. sum(n) \in Nat
  <2>1. IsFiniteSet(1..n) /\ \A i \in 1..n : w[i] \in Nat
    BY <1>3, FS_Interval
  <2> QED
    BY <2>1, SumNat
<1>9. SumFunction(w) = sum(n)
  BY DEF SumFunction, w
<1> QED
  BY <1>7, <1>8, <1>9 DEF B, w

\* The level payment is the annuity, to the nearest centavo.
LEMMA LevelIsNearest ==
    ASSUME NEW principal \in Nat, NEW rate \in Nat \ {0}, NEW periods \in Nat \ {0}, NEW n \in Nat \ {0}
    PROVE  LET D == Unit * periods
               B == D + rate
               worth == SumFunction([i \in 1..n |-> Power(D, i) * Power(B, n - i)])
               payment == LevelPayment(principal, rate, periods, n)
               gap == 2 * (payment * worth - principal * Power(B, n))
           IN  payment \in Nat /\ worth \in Nat /\ gap \in Int /\ gap <= worth /\ -gap <= worth
<1> DEFINE D == Unit * periods
           B == D + rate
           worth == SumFunction([i \in 1..n |-> Power(D, i) * Power(B, n - i)])
           payment == LevelPayment(principal, rate, periods, n)
           all == Power(B, n)
           a == principal * rate * all
           b == D * (all - Power(D, n))
<1>1. D \in Nat \ {0}
  BY ScheduleAssumption
<1>2. payment = DivRoundHalfUp(a, b)
  BY DEF LevelPayment
<1> HIDE DEF D
<1>3. worth \in Nat /\ rate * worth = b
  BY <1>1, WorthIs
<1>4. all \in Nat /\ all > Power(D, n) /\ Power(D, n) \in Nat
  <2>1. all > Power(D, n)
    BY <1>1, PowersGrow
  <2>2. B \in Nat
    BY <1>1
  <2> HIDE DEF B
  <2>3. all \in Nat /\ Power(D, n) \in Nat
    BY <1>1, <2>2, PowerIs
  <2> QED
    BY <2>1, <2>3
<1> HIDE DEF worth, all, B, payment
<1>5. a \in Nat /\ b \in Nat \ {0}
  <2>1. all - Power(D, n) \in Nat \ {0}
    BY <1>4
  <2>2. b \in Nat \ {0}
    BY <1>1, <2>1
  <2> QED
    BY <1>4, <2>2
<1> HIDE DEF a, b
<1>6. payment \in Nat /\ 2 * (b * payment - a) \in (1 - b)..b
  BY <1>2, <1>5, RoundedToNearest
<1> DEFINE gap == 2 * (payment * worth - principal * all)
<1>7. gap \in Int /\ rate * gap = 2 * (b * payment - a)
  <2>1. b * payment = rate * (worth * payment) /\ a = rate * (principal * all)
    BY <1>3, <1>4, <1>6 DEF a
  <2>2. worth * payment \in Int /\ principal * all \in Int /\ worth * payment = payment * worth
    BY <1>3, <1>4, <1>6
  <2> QED
    BY <2>1, <2>2
<1> HIDE DEF gap
<1>8. rate * gap <= rate * worth /\ -(rate * gap) < rate * worth
  BY <1>3, <1>5, <1>6, <1>7
<1>9. gap <= worth /\ -gap <= worth
  <2>1. ASSUME NEW x \in Int, NEW y \in Int, rate * x <= rate * y PROVE x <= y
    BY <2>1
  <2>2. rate * (-gap) <= rate * worth /\ -gap \in Int
    BY <1>3, <1>7, <1>8
  <2> QED
    BY <1>3, <1>7, <1>8, <2>1, <2>2
<1> QED
  BY <1>3, <1>6, <1>7, <1>9 DEF gap, worth, payment, all, B, D

\* What is owed never grows nor falls below zero, and nothing is left at the end.
LEMMA BalancesFall ==
    ASSUME NEW principal \in Nat, NEW rate \in Nat, NEW periods \in Nat \ {0}, NEW n \in Nat \ {0},
           LevelPayment(principal, rate, periods, n) \in Int
    PROVE  LET after    == BalanceAfter(principal, rate, periods, n)
               interest(i) == ApplyRate(after[i - 1], rate, 1, periods)
               level(i) == LevelPayment(principal, rate, periods, n) - interest(i)
           IN  /\ after[0] = principal /\ after[n] = 0
               /\ \A i \in 0..n : after[i] \in 0..principal
               /\ \A i \in 1..n : /\ interest(i) \in Nat /\ after[i] <= after[i - 1]
                                  /\ after[i] = after[i - 1] - PrincipalPart(i, n, after[i - 1], level(i))
<1> DEFINE payment == LevelPayment(principal, rate, periods, n)
           after == BalanceAfter(principal, rate, periods, n)
           interest(v) == ApplyRate(v, rate, 1, periods)
           next(k, v) == v - PrincipalPart(k, n, v, payment - interest(v))
           F == [k \in Nat |-> [v \in Int |-> next(k, v)]]
<1>1. Unit * periods \in Nat \ {0}
  BY ScheduleAssumption
<1>2. \A v \in Int : interest(v) \in Int
  <2> SUFFICES ASSUME NEW v \in Int PROVE interest(v) \in Int
    OBVIOUS
  <2> DEFINE a == v * rate * 1
             b == Unit * periods
  <2>1. a \in Int /\ b \in Nat \ {0}
    BY <1>1
  <2>2. interest(v) = DivRoundHalfUp(a, b)
    BY DEF ApplyRate
  <2> HIDE DEF a, b
  <2>3. DivRoundHalfUp(a, b) \in Int
    BY <2>1, RoundedInt
  <2> QED
    BY <2>2, <2>3
<1>3. \A v \in Nat : interest(v) \in Nat
  <2> SUFFICES ASSUME NEW v \in Nat PROVE interest(v) \in Nat
    OBVIOUS
  <2> DEFINE a == v * rate * 1
             b == Unit * periods
  <2>1. a \in Nat /\ b \in Nat \ {0}
    BY <1>1
  <2>2. interest(v) = DivRoundHalfUp(a, b)
    BY DEF ApplyRate
  <2> HIDE DEF a, b
  <2>3. DivRoundHalfUp(a, b) \in Nat
    BY <2>1, RoundedToNearest
  <2> QED
    BY <2>2, <2>3
<1> HIDE DEF interest, payment
<1>4. \A k \in Nat, v \in Int : next(k, v) \in Int
  <2> SUFFICES ASSUME NEW k \in Nat, NEW v \in Int PROVE next(k, v) \in Int
    OBVIOUS
  <2> DEFINE level == payment - interest(v)
  <2>1. level \in Int
    BY <1>2 DEF payment
  <2> HIDE DEF level
  <2>2. PrincipalPart(k, n, v, level) \in Int
    BY <2>1 DEF PrincipalPart, Least
  <2> QED
    BY <2>2 DEF level
<1>5. F \in [Nat -> [Int -> Int]] /\ \A k \in Nat, v \in Int : F[k][v] = next(k, v)
  <2> HIDE DEF next
  <2> QED
    BY <1>4
<1> HIDE DEF F
<1>6. PICK g \in [Nat -> Int] : g = [k \in Nat |-> IF k = 0 THEN principal ELSE F[k][g[k - 1]]]
  <2> DEFINE V == Int
             first == principal
  <2>1. F \in [Nat -> [V -> V]] /\ first \in V
    BY <1>5
  <2> HIDE DEF V, first
  <2>2. \E g \in [Nat -> V] : g = [k \in Nat |-> IF k = 0 THEN first ELSE F[k][g[k - 1]]]
    BY ONLY <2>1, NatRecursion
  <2> QED
    BY <2>2 DEF V, first
<1> DEFINE h == [i \in 0..n |-> g[i]]
<1>7. h = [i \in 0..n |-> IF i = 0 THEN principal ELSE next(i, h[i - 1])]
  <2> HIDE DEF next
  <2>1. ASSUME NEW i \in 0..n PROVE g[i] = IF i = 0 THEN principal ELSE next(i, h[i - 1])
    <3>1. CASE i = 0
      BY <1>6, <3>1
    <3>2. CASE i # 0
      <4>1. i \in Nat /\ i - 1 \in Nat /\ i - 1 \in 0..n
        BY <3>2
      <4>2. g[i] = F[i][g[i - 1]] /\ g[i - 1] \in Int /\ h[i - 1] = g[i - 1]
        BY <1>6, <3>2, <4>1
      <4> QED
        BY <1>5, <3>2, <4>1, <4>2
    <3> QED
      BY <3>1, <3>2
  <2> QED
    BY <2>1
<1>8. after = [i \in 0..n |-> IF i = 0 THEN principal ELSE next(i, after[i - 1])]
  <2> DEFINE Eq(a) == a = [i \in 0..n |-> IF i = 0 THEN principal ELSE next(i, a[i - 1])]
  <2>1. after = CHOOSE a : Eq(a)
    BY DEF BalanceAfter, payment, interest
  <2>2. \E a : Eq(a)
    <3> HIDE DEF next, h
    <3> QED
      BY <1>7
  <2> HIDE DEF Eq
  <2>3. Eq(after)
    BY <2>1, <2>2
  <2> QED
    BY <2>3 DEF Eq
<1> HIDE DEF after
<1>9. after[0] = principal /\ \A i \in 1..n : after[i] = next(i, after[i - 1])
  <2> HIDE DEF next
  <2>1. 0 \in 0..n /\ \A i \in 1..n : i \in 0..n /\ i # 0
    OBVIOUS
  <2> QED
    BY <1>8, <2>1
<1>10. ASSUME NEW i \in Nat, NEW v \in Nat PROVE next(i, v) \in 0..v /\ (i = n => next(i, v) = 0)
  <2> DEFINE level == payment - interest(v)
  <2>1. level \in Int
    BY <1>2 DEF payment
  <2> HIDE DEF level
  <2>2. PrincipalPart(i, n, v, level) \in 0..v /\ (i = n => PrincipalPart(i, n, v, level) = v)
    BY <2>1 DEF PrincipalPart, Least
  <2> QED
    BY <2>2 DEF level
<1> HIDE DEF next
<1>11. \A i \in 0..n : after[i] \in 0..principal
  <2> DEFINE N == {i \in Nat : i <= n => after[i] \in 0..principal}
  <2>1. 0 \in N
    BY <1>9
  <2>2. ASSUME NEW i \in N PROVE i + 1 \in N
    <3> SUFFICES ASSUME i + 1 <= n PROVE after[i + 1] \in 0..principal
      OBVIOUS
    <3>1. i \in Nat /\ i + 1 \in Nat /\ i + 1 \in 1..n /\ (i + 1) - 1 = i /\ after[i] \in 0..principal
      OBVIOUS
    <3> HIDE DEF N
    <3>2. after[i + 1] = next(i + 1, after[i])
      BY <1>9, <3>1
    <3>3. next(i + 1, after[i]) \in 0..after[i]
      <4> DEFINE v == after[i]
                 j == i + 1
      <4>1. v \in Nat /\ j \in Nat
        BY <3>1
      <4> HIDE DEF v, j
      <4>2. next(j, v) \in 0..v
        BY <1>10, <4>1
      <4> QED
        BY <4>2 DEF v, j
    <3> QED
      BY <3>1, <3>2, <3>3
  <2>3. N = Nat
    <3> HIDE DEF N
    <3>1. N \in SUBSET Nat
      BY DEF N
    <3> QED
      BY <2>1, <2>2, <3>1, NatSetInduction
  <2> QED
    BY <2>3
<1>12. ASSUME NEW i \in 1..n
       PROVE  /\ after[i - 1] \in Nat /\ after[i] = next(i, after[i - 1]) /\ after[i] <= after[i - 1]
              /\ i = n => after[i] = 0
  <2>1. i \in Nat /\ i - 1 \in 0..n
    OBVIOUS
  <2>2. after[i - 1] \in Nat
    BY <1>11, <2>1
  <2>3. next(i, after[i - 1]) \in 0..after[i - 1] /\ (i = n => next(i, after[i - 1]) = 0)
    BY <1>10, <2>1, <2>2
  <2> QED
    BY <1>9, <2>2, <2>3
<1>13. after[n] = 0
  BY <1>12
<1>14. \A i \in 1..n : interest(after[i - 1]) \in Nat
  BY <1>3, <1>12
<1> QED
  BY <1>9, <1>11, <1>12, <1>13, <1>14 DEF after, next, interest, payment

\* A portion of the installments, as a sum of its amounts.
LEMMA PortionSum ==
    ASSUME NEW n \in Nat, NEW lines, DOMAIN lines = 1..n, NEW portion, NEW f,
           \A i \in 1..n : lines[i][portion] = f[i]
    PROVE  Sum(lines, portion) = SumFunctionOnSet(f, 1..n)
<1> DEFINE g == [i \in DOMAIN lines |-> lines[i][portion]]
<1>1. Sum(lines, portion) = SumFunctionOnSet(g, 1..n)
  BY DEF Sum, SumFunction
<1>2. \A i \in 1..n : g[i] = f[i]
  OBVIOUS
<1> HIDE DEF g
<1>3. IsFiniteSet(1..n)
  BY FS_Interval
<1>4. SumFunctionOnSet(g, 1..n) = SumFunctionOnSet(f, 1..n)
  BY <1>2, <1>3, SumSame
<1> QED
  BY <1>1, <1>4

\* The differences of a sequence of balances add up to the first less the last.
LEMMA Telescope ==
    ASSUME NEW n \in Nat, NEW after, \A i \in 0..n : after[i] \in Int, NEW d,
           \A i \in 1..n : d[i] = after[i - 1] - after[i]
    PROVE  \A k \in 0..n : SumFunctionOnSet(d, 1..k) = after[0] - after[k]
<1> DEFINE sum(k) == SumFunctionOnSet(d, 1..k)
           N == {k \in Nat : k <= n => sum(k) = after[0] - after[k]}
<1>1. 0 \in N
  <2>1. sum(0) = 0
    BY SumEmpty, 1..0 = {}
  <2>2. after[0] \in Int
    OBVIOUS
  <2> QED
    BY <2>1, <2>2
<1>2. ASSUME NEW k \in N PROVE k + 1 \in N
  <2> SUFFICES ASSUME k + 1 <= n PROVE sum(k + 1) = after[0] - after[k + 1]
    OBVIOUS
  <2>1. k \in Nat /\ sum(k) = after[0] - after[k]
    OBVIOUS
  <2>2. \A i \in 1..(k + 1) : d[i] \in Int
    <3>1. \A i \in 1..(k + 1) : i \in 1..n /\ i \in 0..n /\ i - 1 \in 0..n
      BY <2>1
    <3> QED
      BY <3>1
  <2>3. sum(k + 1) = sum(k) + d[k + 1]
    BY <2>1, <2>2, SumNext
  <2>4. d[k + 1] = after[k] - after[k + 1]
    <3>1. k + 1 \in 1..n /\ (k + 1) - 1 = k
      BY <2>1
    <3> QED
      BY <3>1
  <2>5. after[0] \in Int /\ after[k] \in Int /\ after[k + 1] \in Int
    <3>1. 0 \in 0..n /\ k \in 0..n /\ k + 1 \in 0..n
      BY <2>1
    <3> QED
      BY <3>1
  <2> HIDE DEF sum
  <2> QED
    BY <2>1, <2>3, <2>4, <2>5
<1>3. N = Nat
  <2> HIDE DEF N
  <2>1. N \in SUBSET Nat
    BY DEF N
  <2> QED
    BY <1>1, <1>2, <2>1, NatSetInduction
<1> QED
  BY <1>3

\* What terms the products and the applications allow.
Fit(terms) ==
    /\ terms.principal \in Nat \ {0} /\ terms.term \in Nat \ {0}
    /\ terms.method \in {"FLAT", "DIMINISHING"} /\ terms.periods \in {12, 26, 52} /\ terms.rate \in Nat

\* Equal parts of the principal and of the interest, or no interest at all
LEMMA EvenRepays ==
    ASSUME NEW terms, Fit(terms), terms.method = "FLAT" \/ terms.rate = 0
    PROVE  Repays(Installments(terms.principal, terms.term, terms), terms)
<1> DEFINE n == InstallmentCount(terms.term, terms.periods)
           total == IF terms.method = "FLAT" THEN ApplyRate(terms.principal, terms.rate, terms.term, 12) ELSE 0
           p == SplitEvenly(terms.principal, n)
           q == IF terms.method = "FLAT" THEN SplitEvenly(total, n) ELSE [i \in 1..n |-> 0]
           lines == [i \in 1..n |-> [principal |-> p[i], interest |-> q[i]]]
<1>1. n \in Nat \ {0}
  BY CountIsPositive DEF Fit
<1> HIDE DEF n
<1>2. Installments(terms.principal, terms.term, terms) = lines
  BY DEF Installments, n, Fit
<1>3. terms.method = "FLAT" =>
        total \in Nat /\ 2 * (12 * Unit * total - terms.principal * terms.rate * terms.term) \in (1 - 12 * Unit)..(12 * Unit)
  <2> DEFINE a == terms.principal * terms.rate * terms.term
             b == Unit * 12
  <2>1. a \in Nat /\ b \in Nat \ {0} /\ 12 * Unit = b
    BY ScheduleAssumption DEF Fit
  <2>2. terms.method = "FLAT" => total = DivRoundHalfUp(a, b)
    BY DEF ApplyRate
  <2> HIDE DEF a, b, total
  <2>3. terms.method = "FLAT" => total \in Nat /\ 2 * (b * total - a) \in (1 - b)..b
    BY <2>1, <2>2, RoundedToNearest
  <2> QED
    BY <2>1, <2>3 DEF a
<1>4. total \in Nat
  BY <1>3
<1> HIDE DEF total
<1>5. /\ p \in [1..n -> Nat] /\ SumFunctionOnSet(p, 1..n) = terms.principal
      /\ \A i, j \in 1..n : i < j => p[i] - p[j] \in {0, 1}
  <2>1. terms.principal \in Nat
    BY DEF Fit
  <2> QED
    BY <1>1, <2>1, SplitIsEven
<1>6. /\ q \in [1..n -> Nat]
      /\ terms.method = "FLAT" => SumFunctionOnSet(q, 1..n) = total
      /\ terms.method = "FLAT" => \A i, j \in 1..n : i < j => q[i] - q[j] \in {0, 1}
  <2>1. LET s == SplitEvenly(total, n)
        IN  /\ s \in [1..n -> Nat] /\ SumFunctionOnSet(s, 1..n) = total
            /\ \A i, j \in 1..n : i < j => s[i] - s[j] \in {0, 1}
    BY <1>1, <1>4, SplitIsEven
  <2> QED
    BY <2>1
<1> HIDE DEF p, q
<1>7. DOMAIN lines = 1..n /\ \A i \in 1..n : lines[i].principal = p[i] /\ lines[i].interest = q[i]
  OBVIOUS
<1> HIDE DEF lines
<1>8. Sum(lines, "principal") = terms.principal
  <2>1. Sum(lines, "principal") = SumFunctionOnSet(p, 1..n)
    BY <1>1, <1>7, PortionSum
  <2> QED
    BY <1>5, <2>1
<1>9. terms.method = "FLAT" => Sum(lines, "interest") = total
  <2>1. Sum(lines, "interest") = SumFunctionOnSet(q, 1..n)
    BY <1>1, <1>7, PortionSum
  <2> QED
    BY <1>6, <2>1
<1>10. Complete(lines, n, terms.principal)
  BY <1>5, <1>6, <1>7, <1>8 DEF Complete
<1>11. terms.method = "FLAT" => EvenlyCharged(lines, n, terms)
  <2> SUFFICES ASSUME terms.method = "FLAT" PROVE EvenlyCharged(lines, n, terms)
    OBVIOUS
  <2>1. 12 * Unit * total - terms.principal * terms.rate * terms.term \in (1 - 6 * Unit)..(6 * Unit)
    <3> DEFINE x == 12 * Unit * total - terms.principal * terms.rate * terms.term
    <3>1. x \in Int /\ Unit \in Nat
      BY <1>4, ScheduleAssumption DEF Fit
    <3>2. 2 * x \in (1 - 12 * Unit)..(12 * Unit)
      BY <1>3
    <3> HIDE DEF x
    <3>3. x \in (1 - 6 * Unit)..(6 * Unit)
      BY <3>1, <3>2
    <3> QED
      BY <3>3 DEF x
  <2>2. \A i, j \in 1..n : i < j => /\ lines[i].principal - lines[j].principal \in {0, 1}
                                    /\ lines[i].interest - lines[j].interest \in {0, 1}
    BY <1>5, <1>6, <1>7
  <2> QED
    BY <1>9, <2>1, <2>2 DEF EvenlyCharged
<1>12. ~(terms.method = "DIMINISHING" /\ terms.rate > 0)
  BY DEF Fit
<1> QED
  BY <1>2, <1>10, <1>11, <1>12 DEF Repays, n

\* Interest on what is owed, and the level payment
LEMMA DiminishingRepays ==
    ASSUME NEW terms, Fit(terms), terms.method = "DIMINISHING", terms.rate # 0
    PROVE  Repays(Installments(terms.principal, terms.term, terms), terms)
<1> DEFINE principal == terms.principal
           rate == terms.rate
           periods == terms.periods
           n == InstallmentCount(terms.term, periods)
           payment == LevelPayment(principal, rate, periods, n)
           after == BalanceAfter(principal, rate, periods, n)
           interest(i) == ApplyRate(after[i - 1], rate, 1, periods)
           level(i) == payment - interest(i)
           p == [i \in 1..n |-> after[i - 1] - after[i]]
           lines == Diminishing(principal, rate, periods, n)
           D == Unit * periods
<1>0. principal \in Nat /\ rate \in Nat \ {0} /\ periods \in Nat \ {0} /\ D \in Nat \ {0} /\ n \in Nat \ {0}
  <2>1. n \in Nat \ {0}
    BY CountIsPositive DEF Fit
  <2> QED
    BY <2>1, ScheduleAssumption DEF Fit
<1>1. Installments(principal, terms.term, terms) = lines
  BY DEF Installments
<1>2. payment \in Nat /\ \A x : x = payment => NearAnnuity(x, n, terms)
  <2> DEFINE B == D + rate
             worth == SumFunction([i \in 1..n |-> Power(D, i) * Power(B, n - i)])
             gap == 2 * (payment * worth - principal * Power(B, n))
  <2>1. payment \in Nat /\ gap <= worth /\ -gap <= worth
    <3> HIDE DEF n, principal, rate, periods
    <3> QED
      BY <1>0, LevelIsNearest
  <2> QED
    BY <2>1 DEF NearAnnuity
<1> HIDE DEF n, payment
<1>3. /\ after[0] = principal /\ after[n] = 0
      /\ \A i \in 0..n : after[i] \in 0..principal
      /\ \A i \in 1..n : /\ interest(i) \in Nat /\ after[i] <= after[i - 1]
                         /\ after[i] = after[i - 1] - PrincipalPart(i, n, after[i - 1], level(i))
  <2> HIDE DEF principal, rate, periods
  <2> QED
    BY <1>0, <1>2, BalancesFall DEF payment
<1>4. DOMAIN lines = 1..n /\ \A i \in 1..n : lines[i].principal = p[i] /\ lines[i].interest = interest(i)
  BY DEF Diminishing
<1>5. \A i \in 1..n : p[i] = after[i - 1] - after[i]
  OBVIOUS
<1> HIDE DEF after, p, lines
<1>6. \A k \in 0..n : SumFunctionOnSet(p, 1..k) = principal - after[k]
  <2>1. \A i \in 0..n : after[i] \in Int
    BY <1>0, <1>3
  <2>2. \A k \in 0..n : SumFunctionOnSet(p, 1..k) = after[0] - after[k]
    <3>1. n \in Nat
      BY <1>0
    <3> QED
      BY ONLY <1>5, <2>1, <3>1, Telescope
  <2> QED
    BY <1>3, <2>2
<1>7. ASSUME NEW i \in 1..n
      PROVE  principal - Sum([j \in 1..(i - 1) |-> lines[j]], "principal") = after[i - 1]
  <2> DEFINE first == [j \in 1..(i - 1) |-> lines[j]]
             k == i - 1
  <2>1. k \in Nat /\ k \in 0..n /\ DOMAIN first = 1..k
    BY <1>0
  <2>2. \A j \in 1..k : first[j]["principal"] = p[j]
    BY <1>0, <1>4
  <2> HIDE DEF first, k
  <2>3. Sum(first, "principal") = SumFunctionOnSet(p, 1..k)
    BY <2>1, <2>2, PortionSum
  <2>4. SumFunctionOnSet(p, 1..k) = principal - after[k]
    BY <1>6, <2>1
  <2>5. principal \in Int /\ after[k] \in Int
    BY <1>0, <1>3, <2>1
  <2>6. principal - Sum(first, "principal") = after[k]
    BY <2>3, <2>4, <2>5
  <2> QED
    BY <2>6 DEF first, k
<1>8. Complete(lines, n, principal)
  <2>1. \A i \in 1..n : lines[i].principal >= 0 /\ lines[i].interest >= 0
    <3> SUFFICES ASSUME NEW i \in 1..n PROVE lines[i].principal >= 0 /\ lines[i].interest >= 0
      OBVIOUS
    <3>1. i \in 0..n /\ i - 1 \in 0..n
      BY <1>0
    <3>2. after[i] \in Int /\ after[i - 1] \in Int /\ after[i] <= after[i - 1] /\ interest(i) >= 0
      BY <1>0, <1>3, <3>1
    <3> QED
      BY <1>4, <1>5, <3>2
  <2>2. Sum(lines, "principal") = principal
    <3>1. Sum(lines, "principal") = SumFunctionOnSet(p, 1..n)
      BY <1>0, <1>4, PortionSum
    <3>2. SumFunctionOnSet(p, 1..n) = principal - 0
      BY <1>0, <1>3, <1>6
    <3> QED
      BY <1>0, <3>1, <3>2
  <2> QED
    BY <1>4, <2>1, <2>2 DEF Complete
<1>9. ASSUME NEW i \in 1..n
      PROVE  2 * (D * lines[i].interest - after[i - 1] * rate) \in (1 - D)..D
  <2> DEFINE a == after[i - 1] * rate * 1
  <2>1. after[i - 1] \in Nat
    BY <1>0, <1>3
  <2>2. a \in Nat /\ a = after[i - 1] * rate
    BY <1>0, <2>1
  <2>3. lines[i].interest = DivRoundHalfUp(a, D)
    BY <1>4 DEF ApplyRate
  <2> HIDE DEF a, D
  <2>4. LET q == DivRoundHalfUp(a, D) IN 2 * (D * q - a) \in (1 - D)..D
    BY <1>0, <2>2, RoundedToNearest
  <2> QED
    BY <2>2, <2>3, <2>4
<1>10. ASSUME NEW i \in 1..(n - 1)
       PROVE  \/ NearAnnuity(lines[i].principal + lines[i].interest, n, terms)
              \/ lines[i].principal = after[i - 1] \/ lines[i].principal = 0
  <2>1. i \in 1..n /\ i # n /\ i \in 0..n /\ i - 1 \in 0..n
    BY <1>0
  <2> DEFINE v == after[i - 1]
             w == after[i]
             c == interest(i)
  <2>2. v \in Int /\ w \in Int /\ c \in Int /\ payment \in Int
    BY <1>0, <1>2, <1>3, <2>1
  <2>3. w = v - PrincipalPart(i, n, v, payment - c)
    BY <1>3, <2>1
  <2>4. lines[i].principal = v - w /\ lines[i].interest = c
    BY <1>4, <1>5, <2>1
  <2> HIDE DEF v, w, c
  <2>5. PrincipalPart(i, n, v, payment - c) \in {0, v, payment - c}
    BY <2>1, <2>2 DEF PrincipalPart, Least
  <2>6. v - w \in {0, v, payment - c}
    BY <2>2, <2>3, <2>5
  <2>7. v - w = payment - c => (v - w) + c = payment
    BY <2>2
  <2> QED
    BY <1>2, <2>4, <2>6, <2>7 DEF v
<1>11. ChargedOnBalance(lines, n, terms)
  <2>1. \A i \in 1..n : 2 * (D * lines[i].interest
            - (principal - Sum([j \in 1..(i - 1) |-> lines[j]], "principal")) * rate) \in (1 - D)..D
    BY <1>7, <1>9
  <2>2. \A i \in 1..(n - 1) : i \in 1..n
    BY <1>0
  <2>3. \A i \in 1..(n - 1) :
            \/ NearAnnuity(lines[i].principal + lines[i].interest, n, terms)
            \/ lines[i].principal = principal - Sum([j \in 1..(i - 1) |-> lines[j]], "principal")
            \/ lines[i].principal = 0
    BY <1>7, <1>10, <2>2
  <2> QED
    BY <2>1, <2>3 DEF ChargedOnBalance
<1> QED
  BY <1>1, <1>8, <1>11 DEF Repays, n

\* A loan that was filed has terms that fit.
TermsFit == \A l \in Loan : loan[l].status # "NONE" => Fit(loan[l].terms)

LEMMA InitFits == Init => TermsFit
  BY DEF Init, TermsFit, NotFiled

LEMMA NextFits == ASSUME ReleaseInv, TermsFit, [Next]_vars PROVE TermsFit'
<1>0. loan \in [Loan -> Row] /\ product \in Product
  BY DEF ReleaseInv, Shape
<1>1. ASSUME UNCHANGED loan PROVE TermsFit'
  BY <1>1 DEF TermsFit
<1>2. ASSUME NEW l \in Loan, NEW row \in Row, loan' = [loan EXCEPT ![l] = row], Fit(row.terms) PROVE TermsFit'
  <2>1. loan'[l] = row /\ \A k \in Loan \ {l} : loan'[k] = loan[k]
    BY <1>0, <1>2
  <2> QED
    BY <1>2, <2>1 DEF TermsFit
<1>3. ASSUME NEW l \in Loan, NEW who \in Staff \cup {Member}, NEW principal \in Principal, NEW term \in Term,
             NEW next \in {"Draft", "Submitted"}, File(l, who, principal, term, next)
      PROVE  TermsFit'
  <2> DEFINE terms == Quoted(principal, term)
             row   == [status |-> next, terms |-> terms,
                       filedBy |-> IF loan[l].status = "NONE" THEN who ELSE loan[l].filedBy]
  <2>1. Fit(terms)
    BY <1>0, ReleaseAssumption, ScheduleAssumption DEF Fit, Quoted
  <2>2. loan' = [loan EXCEPT ![l] = row] /\ row.terms = terms
    BY <1>3 DEF File
  <2> HIDE DEF terms, row
  <2>3. loan'[l] = row /\ \A k \in Loan \ {l} : loan'[k] = loan[k]
    BY <1>0, <2>2
  <2> QED
    BY <2>1, <2>2, <2>3 DEF TermsFit
<1>4. ASSUME NEW l \in Loan, NEW next \in LoanStatus, loan[l].status # "NONE",
             loan' = [loan EXCEPT ![l] = [@ EXCEPT !.status = next]]
      PROVE  TermsFit'
  <2> DEFINE row == [loan[l] EXCEPT !.status = next]
  <2>1. row \in Row /\ row.terms = loan[l].terms /\ loan' = [loan EXCEPT ![l] = row]
    BY <1>0, <1>4 DEF Row
  <2> HIDE DEF row
  <2>2. Fit(row.terms)
    BY <1>4, <2>1 DEF TermsFit
  <2> QED
    BY <1>2, <2>1, <2>2
<1>5. ASSUME NEW l \in Loan, StartReview(l) \/ Return(l) \/ Reject(l) \/ Cancel(l) PROVE TermsFit'
  BY <1>4, <1>5 DEF StartReview, Return, Reject, Cancel, Move, LoanStatus
<1>6. ASSUME NEW l \in Loan, NEW who \in Staff, NEW principal \in Principal, NEW term \in Term,
             Approve(l, who, principal, term)
      PROVE  TermsFit'
  <2> DEFINE fees  == Fees(principal, product)
             terms == [loan[l].terms EXCEPT !.principal = principal, !.term = term, !.fees = fees]
             row   == [loan[l] EXCEPT !.status = "Approved", !.terms = terms]
  <2>1. loan[l] \in Row /\ loan[l].status \in {"Submitted", "Under Review"}
    BY <1>0, <1>6 DEF Approve
  <2>2. principal \in Nat \ {0} /\ term \in Nat \ {0} /\ fees \in Int
    <3>1. principal \in Nat \ {0} /\ term \in Nat \ {0} /\ principal \in Int
      BY ReleaseAssumption
    <3>2. fees \in Int
      BY <1>0, <3>1, FeesInt
    <3> QED
      BY <3>1, <3>2
  <2>3. loan' = [loan EXCEPT ![l] = row]
    BY <1>6 DEF Approve, ApprovedTerms
  <2> HIDE DEF fees
  <2>a. principal \in Int /\ term \in Int /\ fees \in Int
    BY <2>2
  <2>4. terms \in Terms /\ terms.principal = principal /\ terms.term = term
        /\ terms.method = loan[l].terms.method /\ terms.periods = loan[l].terms.periods
        /\ terms.rate = loan[l].terms.rate
    BY <2>1, <2>a DEF Row, Terms
  <2> HIDE DEF terms
  <2>5. row \in Row /\ row.terms = terms
    BY <2>1, <2>4 DEF Row, LoanStatus
  <2> HIDE DEF row
  <2>6. Fit(loan[l].terms)
    BY <2>1 DEF TermsFit
  <2>7. Fit(terms)
    BY <2>2, <2>4, <2>6 DEF Fit
  <2> QED
    BY <1>2, <2>3, <2>5, <2>7
<1>7. ASSUME NEW w \in Staff, PostRelease(w) PROVE TermsFit'
  <2>1. releasing[w].loan \in Loan /\ loan[releasing[w].loan].status = "Approved"
    BY <1>7 DEF PostRelease, ReleaseInv, Shape, HeldAlone, Held
  <2>2. loan' = [loan EXCEPT ![releasing[w].loan] = [@ EXCEPT !.status = "Active"]]
    BY <1>7 DEF PostRelease
  <2> QED
    BY <1>4, <2>1, <2>2 DEF LoanStatus
<1>8. ASSUME \/ UNCHANGED vars \/ \E p \in Product : SaveProduct(p)
             \/ \E w \in Staff, l \in Loan, k \in Key : StartRelease(w, l, k)
             \/ \E w \in Staff : RollBack(w)
      PROVE  UNCHANGED loan
  BY <1>8 DEF vars, SaveProduct, StartRelease, RollBack
<1> QED
  BY <1>1, <1>3, <1>5, <1>6, <1>7, <1>8 DEF Next

LEMMA FitInvariance == Spec => []TermsFit
  BY InitFits, NextFits, Invariance, PTL DEF Spec

\* Whatever was agreed, the schedule of a released loan repays it: its parts are
\* never negative and add up to the principal, its interest is that of its method
\* and its payments are the annuity's, to the centavo (quoteLoan, disburseLoan).
THEOREM SchedulesRepay == Spec => []ScheduleRepays
<1>1. ReleaseInv /\ TermsFit => ScheduleRepays
  <2> SUFFICES ASSUME ReleaseInv, TermsFit, NEW r \in releases
               PROVE  Repays(schedule[r.loan], loan[r.loan].terms)
    BY DEF ScheduleRepays
  <2> DEFINE terms == loan[r.loan].terms
  <2>1. r.loan \in Loan /\ schedule[r.loan] = Lines(terms) /\ loan[r.loan].status = "Active"
    BY DEF ReleaseInv, ReleasesHold, Records, OneRelease, Released
  <2>2. Fit(terms)
    BY <2>1 DEF TermsFit
  <2> HIDE DEF terms
  <2>3. terms.method = "FLAT" \/ terms.method = "DIMINISHING"
    BY <2>2 DEF Fit
  <2>4. Repays(Lines(terms), terms)
    BY <2>2, <2>3, EvenRepays, DiminishingRepays DEF Lines
  <2> QED
    BY <2>1, <2>4 DEF terms
<1> QED
  BY <1>1, Invariance, FitInvariance, PTL
===============================================================================
