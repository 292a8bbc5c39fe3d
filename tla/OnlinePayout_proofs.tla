------------------------- MODULE OnlinePayout_proofs --------------------------
(***************************************************************************)
(* Proofs about OnlinePayout, for any number of payouts, workers, amounts, *)
(* limits, days and crashes: IndInv is inductive, the safety properties    *)
(* follow from it, and every step is a step or a stutter of the promise.   *)
(***************************************************************************)
EXTENDS OnlinePayout, Sums

-------------------------------------------------------------------------------
(***************************************************************************)
(* The keys of savings transactions, and what SetStatus does to types.     *)
(***************************************************************************)

\* Idempotency keys of different payouts, and of a debit and a refund, differ.
LEMMA KeyFacts ==
    \A p, q \in Payout :
        /\ Debit(p) \in Key /\ Credit(p) \in Key
        /\ Debit(p) # Credit(q)
        /\ Debit(p) = Debit(q) => p = q
        /\ Credit(p) = Credit(q) => p = q
  BY DEF Debit, Credit, Key

\* An update of a status keeps the row's types.
LEMMA SetStatusType ==
    ASSUME TypeOK, NEW p \in Payout, NEW s \in Status, SetStatus(p, s)
    PROVE  /\ status' \in [Payout -> Status]
           /\ idle' \in [Payout -> BOOLEAN]
           /\ overdue' \in [Payout -> BOOLEAN]
  BY DEF TypeOK, SetStatus

LEMMA InitInv == Init => IndInv
<1> SUFFICES ASSUME Init PROVE IndInv
  OBVIOUS
<1>1. Idle \in Task
  BY DEF Idle, Job, Task, Kind, Stage, Status, PayoutState
<1>2. TypeOK
  BY <1>1, PayoutAssumption DEF Init, TypeOK, Status, AccountStatus, PayoutState
<1>3. AttemptsLeft
  BY PayoutAssumption DEF Init, AttemptsLeft
<1>4. BookMatchesRows /\ ProviderOnTaken /\ PaidIsBacked
  BY DEF Init, BookMatchesRows, ProviderOnTaken, PaidIsBacked, TAKEN
<1>5. TasksOnTaken /\ ViewsHold
  BY DEF Init, TasksOnTaken, ViewsHold, Idle, Job
<1> QED
  BY <1>2, <1>3, <1>4, <1>5 DEF IndInv

-------------------------------------------------------------------------------
(***************************************************************************)
(* Three kinds of step, by what they touch.                                *)
(***************************************************************************)

\* A step outside rows, postings, provider and tasks only has types to keep.
LEMMA QuietStep ==
    ASSUME IndInv, TypeOK', UNCHANGED <<status, otpAttempts, posted, provider, late, task>>
    PROVE  IndInv'
  BY DEF IndInv, TypeOK, AttemptsLeft, BookMatchesRows, TasksOnTaken, ProviderOnTaken,
         ViewsHold, PaidIsBacked

\* What a task must satisfy for TasksOnTaken and ViewsHold.
Fits(t) ==
    \/ t = Idle
    \/ /\ t.payout \in Payout /\ status[t.payout] \notin NotTaken
       /\ t.view = "PENDING"   => provider[t.payout] # "NONE"
       /\ t.view = "SUCCEEDED" => provider[t.payout] \in {"SUCCEEDED", "FAILED"}
       /\ t.view = "FAILED"    => provider[t.payout] = "FAILED"
       /\ t.at \notin {"act", "apply"} => t.view = "NONE"
       /\ t.at = "called" => provider[t.payout] # "NONE"
       /\ t.at = "apply"  => t.view # "NONE"

\* A step that moves one task on, and at most adds a late request for a taken
\* payout, keeps the invariant if the task still fits.
LEMMA TaskStep ==
    ASSUME IndInv, NEW w \in Worker, NEW t \in Task, Fits(t),
           task' = [task EXCEPT ![w] = t],
           idle' \in [Payout -> BOOLEAN], late' \subseteq Payout,
           \A p \in Payout : p \in late' => status[p] \notin NotTaken,
           UNCHANGED <<status, businessDate, otpAttempts, overdue, savings, provider,
                       mismatch, today, crashes>>
    PROVE  IndInv'
<1>1. TypeOK'
  BY DEF IndInv, TypeOK, savings
<1>2. AttemptsLeft' /\ BookMatchesRows' /\ PaidIsBacked'
  BY DEF IndInv, AttemptsLeft, BookMatchesRows, PaidIsBacked, savings
<1>3. ProviderOnTaken'
  BY DEF IndInv, ProviderOnTaken
<1>4. TasksOnTaken'
  BY DEF IndInv, TypeOK, TasksOnTaken, Fits
<1>5. ViewsHold'
  BY DEF IndInv, TypeOK, ViewsHold, Fits, Idle, Job
<1> QED
  BY <1>1, <1>2, <1>3, <1>4, <1>5 DEF IndInv

\* What every transaction on a taken payout leaves alone.
RowFrame == UNCHANGED <<businessDate, otpAttempts, external, today, crashes>>

\* The task after a handler's last transaction, or on its way to "check", fits
\* whenever its payout is still taken.
LEMMA AfterHandler ==
    ASSUME IndInv, NEW w \in Worker, task[w] # Idle, NEW s \in Status
    PROVE  /\ Returned(task[w], s) \in Task /\ Thrown(task[w]) \in Task /\ Idle \in Task
           /\ Fits(Returned(task[w], s)) /\ Fits(Thrown(task[w])) /\ Fits(Idle)
<1> USE DEF Job, Task, Kind, Stage, Status, PayoutState
<1>1. task[w].payout \in Payout /\ status[task[w].payout] \notin NotTaken
  BY DEF IndInv, TasksOnTaken
<1>2. Idle \in Task /\ Job("sweep", task[w].payout, "check") \in Task
  BY <1>1 DEF Idle
<1>3. Fits(Idle) /\ Fits(Job("sweep", task[w].payout, "check"))
  BY <1>1 DEF Fits, Idle
<1> QED
  BY <1>2, <1>3 DEF Returned, Thrown

\* A transaction that gives a taken payout another status without moving
\* money: it must not end in REFUNDED, nor in PAID unless the provider paid.
LEMMA SetStep ==
    ASSUME IndInv, NEW w \in Worker, NEW p \in Payout, NEW t \in Task, Fits(t),
           NEW s \in TAKEN, status[p] \in TAKEN,
           s = "PAID" => provider[p] \in {"SUCCEEDED", "FAILED"},
           SetStatus(p, s), task' = [task EXCEPT ![w] = t], UNCHANGED savings, RowFrame
    PROVE  IndInv'
<1> USE DEF RowFrame, savings, external
<1>1. s \in Status /\ s \notin NotTaken
  BY DEF TAKEN, Status, NotTaken
<1>2. TypeOK'
  BY <1>1, SetStatusType DEF IndInv, TypeOK
<1>3. status' = [status EXCEPT ![p] = s]
  BY DEF SetStatus
<1>4. AttemptsLeft'
  BY <1>1, <1>3 DEF IndInv, TypeOK, AttemptsLeft, NotTaken
<1>5. BookMatchesRows' /\ PaidIsBacked'
  BY <1>3 DEF IndInv, TypeOK, BookMatchesRows, PaidIsBacked, TAKEN
<1>6. ProviderOnTaken'
  BY <1>1, <1>3 DEF IndInv, TypeOK, ProviderOnTaken
<1>7. TasksOnTaken'
  BY <1>1, <1>3 DEF IndInv, TypeOK, TasksOnTaken, Fits
<1>8. ViewsHold'
  BY DEF IndInv, TypeOK, ViewsHold, Fits, Idle, Job
<1> QED
  BY <1>2, <1>4, <1>5, <1>6, <1>7, <1>8 DEF IndInv

\* The transaction that returns a taken payout's money.
LEMMA RefundStep ==
    ASSUME IndInv, NEW w \in Worker, NEW p \in Payout, NEW t \in Task, Fits(t),
           status[p] \in TAKEN, RefundTx(p), task' = [task EXCEPT ![w] = t], RowFrame
    PROVE  IndInv'
<1> USE DEF RowFrame, external
<1>1. "REFUNDED" \in Status /\ SetStatus(p, "REFUNDED")
  BY DEF Status, RefundTx
<1>2. /\ status' = [status EXCEPT ![p] = "REFUNDED"]
      /\ posted' = posted \cup {Credit(p)}
  BY <1>1 DEF RefundTx, SetStatus
<1>3. balance' \in Nat
  BY PayoutAssumption DEF IndInv, TypeOK, RefundTx
<1>4. TypeOK'
  BY <1>1, <1>2, <1>3, SetStatusType, KeyFacts DEF IndInv, TypeOK, RefundTx
<1>5. AttemptsLeft'
  BY <1>2 DEF IndInv, TypeOK, AttemptsLeft
<1>6. BookMatchesRows'
  BY <1>2, KeyFacts DEF IndInv, TypeOK, BookMatchesRows, TAKEN
<1>7. PaidIsBacked' /\ ProviderOnTaken'
  BY <1>2 DEF IndInv, TypeOK, PaidIsBacked, ProviderOnTaken, NotTaken
<1>8. TasksOnTaken'
  BY <1>2 DEF IndInv, TypeOK, TasksOnTaken, Fits, NotTaken
<1>9. ViewsHold'
  BY DEF IndInv, TypeOK, ViewsHold, Fits, Idle, Job
<1> QED
  BY <1>4, <1>5, <1>6, <1>7, <1>8, <1>9 DEF IndInv

\* A transaction that changes nothing, or rolls back.
LEMMA NoStep ==
    ASSUME IndInv, NEW w \in Worker, NEW t \in Task, Fits(t),
           task' = [task EXCEPT ![w] = t], LeaveAlone, RowFrame
    PROVE  IndInv'
  BY TaskStep DEF IndInv, TypeOK, ProviderOnTaken, LeaveAlone, RowFrame, external

-------------------------------------------------------------------------------
(***************************************************************************)
(* The transactions handlers end in.                                       *)
(***************************************************************************)

LEMMA RefundPayoutKeeps ==
    ASSUME IndInv, NEW w \in Worker, task[w] # Idle, RefundPayout(w),
           UNCHANGED <<external, today, crashes>>
    PROVE  IndInv'
<1> DEFINE p == task[w].payout
<1>1. p \in Payout /\ RowFrame
  BY DEF IndInv, TasksOnTaken, RefundPayout, RowFrame
<1>2. CASE status[p] \in NotTaken \cup {"REFUNDED"} /\ LeaveAlone /\ Return(w)
  <2>1. status'[p] \in Status
    BY <1>1, <1>2 DEF IndInv, TypeOK, LeaveAlone
  <2> QED
    BY <1>1, <1>2, <2>1, AfterHandler, NoStep DEF Return
<1>3. CASE status[p] \in TAKEN /\ RefundTx(p) /\ Return(w)
  <2>1. status'[p] \in Status
    BY <1>1, <1>3, SetStatusType DEF IndInv, RefundTx, Status
  <2> QED
    BY <1>1, <1>3, <2>1, AfterHandler, RefundStep DEF Return
<1>4. CASE status[p] \in TAKEN /\ RefundRollsBack /\ Throw(w)
  BY <1>1, <1>4, AfterHandler, NoStep DEF Throw, RefundRollsBack, LeaveAlone, Status
<1> QED
  BY <1>2, <1>3, <1>4 DEF RefundPayout

\* A handler in "act" or "apply" applies the answer it holds.
LEMMA ApplyPayoutKeeps ==
    ASSUME IndInv, NEW w \in Worker, task[w] # Idle, ApplyPayout(w),
           UNCHANGED <<external, today, crashes>>
    PROVE  IndInv'
<1> DEFINE p == task[w].payout
           view == task[w].view
           outcome == IF mismatch[p] THEN "NEEDS_REVIEW" ELSE Outcome(view)
<1>1. p \in Payout /\ RowFrame
  BY DEF IndInv, TasksOnTaken, ApplyPayout, RowFrame
<1>2. CASE NothingToApply(p, view) /\ LeaveAlone /\ Return(w)
  <2>1. status'[p] \in Status
    BY <1>1, <1>2 DEF IndInv, TypeOK, LeaveAlone
  <2> QED
    BY <1>1, <1>2, <2>1, AfterHandler, NoStep DEF Return
<1>3. CASE /\ ~NothingToApply(p, view) /\ outcome # "REFUNDED"
           /\ SetStatus(p, outcome) /\ UNCHANGED savings /\ Return(w)
  <2>1. status[p] \in TAKEN
    BY <1>1, <1>3 DEF IndInv, TypeOK, NothingToApply, LeftAsIs, Status, TAKEN, NotTaken, Outcome
  <2>2. outcome \in TAKEN /\ outcome \in Status
    BY <1>3 DEF Outcome, TAKEN, Status
  <2>3. outcome = "PAID" => provider[p] \in {"SUCCEEDED", "FAILED"}
    BY <1>1 DEF IndInv, ViewsHold, Outcome
  <2>4. status'[p] \in Status
    BY <1>1, <1>3, <2>2, SetStatusType DEF IndInv
  <2> QED
    BY <1>1, <1>3, <2>1, <2>2, <2>3, <2>4, AfterHandler, SetStep DEF Return
<1>4. CASE ~NothingToApply(p, view) /\ outcome = "REFUNDED" /\ RefundTx(p) /\ Return(w)
  <2>1. status[p] \in TAKEN
    BY <1>1, <1>4 DEF IndInv, TypeOK, NothingToApply, LeftAsIs, Status, TAKEN, NotTaken, Outcome
  <2>2. status'[p] \in Status
    BY <1>1, <1>4, SetStatusType DEF IndInv, RefundTx, Status
  <2> QED
    BY <1>1, <1>4, <2>1, <2>2, AfterHandler, RefundStep DEF Return
<1>5. CASE ~NothingToApply(p, view) /\ outcome = "REFUNDED" /\ RefundRollsBack /\ Throw(w)
  BY <1>1, <1>5, AfterHandler, NoStep DEF Throw, RefundRollsBack, LeaveAlone, Status
<1> QED
  BY <1>2, <1>3, <1>4, <1>5 DEF ApplyPayout

-------------------------------------------------------------------------------
(***************************************************************************)
(* Every action keeps the invariant.                                       *)
(***************************************************************************)

LEMMA StartPayoutKeeps ==
    ASSUME IndInv, NEW p \in Payout, StartPayout(p) PROVE IndInv'
<1> USE DEF StartPayout, IndInv, TypeOK, savings, external
<1>1. TypeOK'
  BY DEF Status
<1>2. AttemptsLeft' /\ BookMatchesRows' /\ PaidIsBacked'
  BY DEF AttemptsLeft, BookMatchesRows, PaidIsBacked, TAKEN
<1>3. ProviderOnTaken' /\ TasksOnTaken'
  BY DEF ProviderOnTaken, TasksOnTaken, NotTaken
<1>4. ViewsHold'
  BY DEF ViewsHold
<1> QED
  BY <1>1, <1>2, <1>3, <1>4

\* An unconfirmed withdrawal is cancelled.
LEMMA CancelStep ==
    ASSUME IndInv, NEW p \in Payout, status[p] = "AWAITING_OTP", SetStatus(p, "CANCELLED"),
           otpAttempts' \in [Payout -> 0..OtpMaxAttempts],
           \A q \in Payout : q # p => otpAttempts'[q] = otpAttempts[q],
           UNCHANGED <<businessDate, savings, external, task, today, crashes>>
    PROVE  IndInv'
<1> USE DEF IndInv, savings, external
<1>1. status' = [status EXCEPT ![p] = "CANCELLED"] /\ "CANCELLED" \in Status
  BY DEF SetStatus, Status
<1>2. TypeOK'
  BY <1>1, SetStatusType DEF TypeOK
<1>3. AttemptsLeft' /\ BookMatchesRows' /\ PaidIsBacked'
  BY <1>1 DEF TypeOK, AttemptsLeft, BookMatchesRows, PaidIsBacked, TAKEN
<1>4. ProviderOnTaken' /\ TasksOnTaken'
  BY <1>1 DEF TypeOK, ProviderOnTaken, TasksOnTaken, NotTaken
<1>5. ViewsHold'
  BY DEF ViewsHold
<1> QED
  BY <1>2, <1>3, <1>4, <1>5

LEMMA WrongCodeKeeps ==
    ASSUME IndInv, NEW p \in Payout, WrongCode(p) PROVE IndInv'
<1>1. /\ otpAttempts[p] < OtpMaxAttempts
      /\ otpAttempts' = [otpAttempts EXCEPT ![p] = @ + 1]
      /\ otpAttempts' \in [Payout -> 0..OtpMaxAttempts]
  BY PayoutAssumption DEF WrongCode, IndInv, AttemptsLeft, TypeOK
<1>2. CASE otpAttempts[p] + 1 >= OtpMaxAttempts
  BY <1>1, <1>2, CancelStep DEF WrongCode, IndInv, TypeOK
<1>3. CASE ~(otpAttempts[p] + 1 >= OtpMaxAttempts)
  <2> USE DEF IndInv, savings, external, WrongCode
  <2>1. TypeOK'
    BY <1>1, <1>3 DEF TypeOK
  <2>2. AttemptsLeft'
    BY <1>1, <1>3, PayoutAssumption DEF TypeOK, AttemptsLeft
  <2>3. BookMatchesRows' /\ PaidIsBacked' /\ ProviderOnTaken' /\ TasksOnTaken' /\ ViewsHold'
    BY <1>3 DEF BookMatchesRows, PaidIsBacked, ProviderOnTaken, TasksOnTaken, ViewsHold
  <2> QED
    BY <2>1, <2>2, <2>3
<1> QED
  BY <1>2, <1>3

LEMMA ConfirmPayoutKeeps ==
    ASSUME IndInv, NEW w \in Worker, NEW p \in Payout, ConfirmPayout(w, p) PROVE IndInv'
<1> DEFINE t == Job("submit", p, "send")
<1> USE DEF ConfirmPayout, external
<1>1. /\ status' = [status EXCEPT ![p] = "SUBMITTING"] /\ status[p] = "AWAITING_OTP"
      /\ posted' = posted \cup {Debit(p)} /\ "SUBMITTING" \in Status
      /\ task' = [task EXCEPT ![w] = t]
  BY DEF SetStatus, TakeMoney, Status
<1>2. t \in Task
  BY DEF Job, Task, Kind, Stage, Status, PayoutState
<1>3. balance' \in Nat /\ debited' \in [Payout -> 0..LastDay]
  BY PayoutAssumption DEF IndInv, TypeOK, TakeMoney, WithdrawalAllowed
<1>4. businessDate' \in [Payout -> 1..LastDay]
  BY DEF IndInv, TypeOK, CountsToday
<1>5. TypeOK'
  BY <1>1, <1>2, <1>3, <1>4, SetStatusType, KeyFacts DEF IndInv, TypeOK
<1>6. AttemptsLeft' /\ PaidIsBacked'
  BY <1>1 DEF IndInv, TypeOK, AttemptsLeft, PaidIsBacked
<1>7. BookMatchesRows'
  BY <1>1, KeyFacts DEF IndInv, TypeOK, BookMatchesRows, TAKEN
<1>8. ProviderOnTaken'
  BY <1>1 DEF IndInv, TypeOK, ProviderOnTaken, NotTaken
<1>9. TasksOnTaken' /\ ViewsHold'
  BY <1>1 DEF IndInv, TypeOK, TasksOnTaken, ViewsHold, NotTaken, Job, Idle
<1> QED
  BY <1>5, <1>6, <1>7, <1>8, <1>9 DEF IndInv

LEMMA MemberKeeps == IndInv /\ MemberStep => IndInv'
<1> SUFFICES ASSUME IndInv, NEW p \in Payout,
                    \/ StartPayout(p) \/ CancelPayout(p) \/ WrongCode(p)
                    \/ \E w \in Request : ConfirmPayout(w, p)
             PROVE  IndInv'
  BY DEF MemberStep
<1>1. CASE CancelPayout(p)
  BY <1>1, CancelStep DEF CancelPayout, IndInv, TypeOK
<1>2. CASE \E w \in Request : ConfirmPayout(w, p)
  BY <1>2, ConfirmPayoutKeeps DEF Worker
<1> QED
  BY <1>1, <1>2, StartPayoutKeeps, WrongCodeKeeps

\* An idle worker begins on a taken payout.
LEMMA BeginKeeps == IndInv /\ BeginStep => IndInv'
<1> SUFFICES ASSUME IndInv, NEW p \in Payout, NEW w \in Worker, NEW kind \in Kind,
                    status[p] \notin NotTaken, Begin(w, kind, p)
             PROVE  IndInv'
  BY PayoutAssumption DEF BeginStep, WebhookArrives, StaffResolves, SweepPicks, Worker, Kind,
                          Open, NotTaken
<1> DEFINE t == [Job(kind, p, "ask") EXCEPT
                   !.seen = IF kind \in {"sweep", "RECHECK"} THEN status[p] ELSE @]
<1>1. t \in Task
  BY DEF IndInv, TypeOK, Job, Task, Stage, Status, PayoutState
<1>2. Fits(t)
  BY DEF Fits, Job
<1>3. task' = [task EXCEPT ![w] = t]
  BY DEF Begin
<1> QED
  BY <1>1, <1>2, <1>3, TaskStep DEF Begin, row, external, IndInv, TypeOK, ProviderOnTaken

LEMMA SubmitKeeps ==
    ASSUME IndInv, NEW w \in Worker,
           \/ SubmitRead(w) \/ SubmitAnswered(w) \/ SubmitRefused(w) \/ SubmitUnknown(w)
           \/ SubmitApply(w) \/ SubmitRefund(w)
    PROVE  IndInv'
<1> DEFINE p == task[w].payout
<1>1. task[w].at # "idle" /\ task[w] # Idle
  BY DEF SubmitRead, SubmitAnswered, SubmitRefused, SubmitUnknown, SubmitApply, SubmitRefund,
         Idle, Job
<1>2. p \in Payout /\ status[p] \notin NotTaken /\ status[p] \in Status /\ task[w] \in Task
  BY <1>1 DEF IndInv, TypeOK, TasksOnTaken
<1>3. late \subseteq Payout /\ idle \in [Payout -> BOOLEAN]
      /\ \A q \in Payout : q \in late => status[q] \notin NotTaken
  BY DEF IndInv, TypeOK, ProviderOnTaken
<1>4. CASE SubmitRead(w)
  <2> DEFINE sent == [task[w] EXCEPT !.at = "calling"]
  <2>1. sent \in Task /\ Fits(sent)
    BY <1>2, <1>4 DEF SubmitRead, IndInv, ViewsHold, Fits, Task, Stage
  <2>2. UNCHANGED <<status, businessDate, otpAttempts, idle, overdue, savings, provider,
                    mismatch, late, today, crashes>>
    BY <1>4 DEF SubmitRead, row, external
  <2>3. \/ task' = [task EXCEPT ![w] = sent]
        \/ task' = [task EXCEPT ![w] = Returned(task[w], status[p])]
    BY <1>2, <1>4 DEF SubmitRead, IndInv, TypeOK
  <2>4. Returned(task[w], status[p]) \in Task /\ Fits(Returned(task[w], status[p]))
    BY <1>1, <1>2, AfterHandler
  <2> QED
    BY <1>3, <2>1, <2>2, <2>3, <2>4, TaskStep
<1>5. CASE SubmitAnswered(w)
  <2> DEFINE t == [task[w] EXCEPT !.at = "apply", !.view = provider[p]]
  <2>1. t \in Task
    BY <1>2 DEF IndInv, TypeOK, Task, Stage
  <2>2. Fits(t)
    BY <1>2, <1>5 DEF SubmitAnswered, IndInv, TypeOK, ViewsHold, Fits, Task
  <2> QED
    BY <1>2, <1>3, <1>5, <2>1, <2>2, TaskStep DEF SubmitAnswered, row, external, IndInv, TypeOK
<1>6. CASE SubmitRefused(w)
  <2> DEFINE t == [task[w] EXCEPT !.at = "refused"]
  <2>1. t \in Task /\ Fits(t)
    BY <1>2, <1>6 DEF SubmitRefused, IndInv, ViewsHold, Fits, Task, Stage
  <2> QED
    BY <1>2, <1>3, <1>6, <2>1, TaskStep DEF SubmitRefused, row, external, IndInv, TypeOK
<1>7. CASE SubmitUnknown(w)
  <2> DEFINE t == Returned(task[w], status[p])
  <2>1. t \in Task /\ Fits(t)
    BY <1>1, <1>2, AfterHandler
  <2> QED
    BY <1>2, <1>3, <1>7, <2>1, TaskStep DEF SubmitUnknown
<1>8. CASE SubmitApply(w)
  BY <1>1, <1>8, ApplyPayoutKeeps DEF SubmitApply
<1>9. CASE SubmitRefund(w)
  BY <1>1, <1>9, RefundPayoutKeeps DEF SubmitRefund
<1> QED
  BY <1>4, <1>5, <1>6, <1>7, <1>8, <1>9

LEMMA ResolveKeeps ==
    ASSUME IndInv, NEW w \in Worker,
           \/ ProviderLookup(w) \/ LookupFails(w) \/ WebhookActs(w) \/ SweepActs(w)
           \/ SweepChecks(w) \/ Recheck(w) \/ Retry(w) \/ StaffRefund(w)
    PROVE  IndInv'
<1> DEFINE p == task[w].payout
<1>1. task[w].at # "idle" /\ task[w] # Idle
  BY DEF ProviderLookup, LookupFails, WebhookActs, SweepActs, SweepChecks, Recheck, Retry,
         StaffRefund, Idle, Job
<1>2. p \in Payout /\ status[p] \notin NotTaken /\ status[p] \in Status /\ task[w] \in Task
  BY <1>1 DEF IndInv, TypeOK, TasksOnTaken
<1>3. late \subseteq Payout /\ idle \in [Payout -> BOOLEAN]
      /\ \A q \in Payout : q \in late => status[q] \notin NotTaken
  BY DEF IndInv, TypeOK, ProviderOnTaken
<1>4. Idle \in Task /\ Fits(Idle)
  BY <1>1, <1>2, AfterHandler
<1>5. ASSUME Send(w), NEW job \in Task, task' = [task EXCEPT ![w] = job]
      PROVE  Fits(job)
  <2>1. job.payout = p /\ job.at = "send" /\ job.view = "NONE"
    BY <1>5 DEF Send, Job, IndInv, TypeOK
  <2> QED
    BY <1>2, <2>1 DEF Fits
<1>6. Send(w) => \E job \in Task : task' = [task EXCEPT ![w] = job]
  BY <1>2 DEF Send, Job, Task, Kind, Stage, Status, PayoutState
<1>7. CASE ProviderLookup(w)
  <2> DEFINE t == [task[w] EXCEPT !.at = "act", !.view = provider[p]]
  <2>1. t \in Task
    BY <1>2 DEF IndInv, TypeOK, Task, Stage
  <2>2. Fits(t)
    BY <1>2 DEF IndInv, TypeOK, Fits, Task
  <2> QED
    BY <1>2, <1>3, <1>7, <2>1, <2>2, TaskStep DEF ProviderLookup, row, external, IndInv, TypeOK
<1>8. CASE LookupFails(w)
  <2>1. Thrown(task[w]) \in Task /\ Fits(Thrown(task[w]))
    BY <1>1, <1>2, AfterHandler
  <2> QED
    BY <1>3, <1>8, <2>1, TaskStep DEF LookupFails, Throw, row, external
<1>9. CASE WebhookActs(w)
  BY <1>1, <1>9, ApplyPayoutKeeps DEF WebhookActs
<1>10. CASE SweepActs(w)
  <2>1. CASE Send(w) /\ UNCHANGED <<row, savings>>
    BY <1>3, <1>5, <1>6, <1>10, <2>1, TaskStep DEF SweepActs, row, external
  <2> QED
    BY <1>1, <1>10, <2>1, ApplyPayoutKeeps DEF SweepActs
<1>11. CASE SweepChecks(w)
  <2>1. CASE overdue[p] /\ status[p] \in Open
    <3>1. /\ "NEEDS_REVIEW" \in TAKEN /\ status[p] \in TAKEN
          /\ SetStatus(p, "NEEDS_REVIEW")
      BY <1>11, <2>1 DEF SweepChecks, TAKEN, Open
    <3> QED
      BY <1>2, <1>4, <1>11, <3>1, SetStep DEF SweepChecks, Finish, RowFrame, external
  <2>2. CASE ~(overdue[p] /\ status[p] \in Open)
    BY <1>4, <1>11, <2>2, NoStep DEF SweepChecks, Finish, LeaveAlone, RowFrame
  <2> QED
    BY <2>1, <2>2
<1>12. CASE Recheck(w)
  <2>1. CASE status[p] = "NEEDS_REVIEW" /\ SetStatus(p, "PROCESSING") /\ Finish(w)
             /\ UNCHANGED savings /\ RowFrame
    <3>1. "PROCESSING" \in TAKEN /\ "NEEDS_REVIEW" \in TAKEN
      BY DEF TAKEN
    <3> QED
      BY <1>2, <1>4, <2>1, <3>1, SetStep DEF Finish
  <2>2. CASE LeaveAlone /\ RowFrame /\ Finish(w)
    BY <1>4, <2>2, NoStep DEF Finish
  <2>3. CASE ApplyPayout(w)
    BY <1>1, <1>12, <2>3, ApplyPayoutKeeps DEF Recheck
  <2> QED
    BY <1>12, <2>1, <2>2, <2>3 DEF Recheck, LeaveAlone, RowFrame
<1>13. CASE Retry(w)
  <2> USE DEF Retry, RetryRow
  <2>1. RowFrame /\ UNCHANGED savings
    BY <1>13 DEF RowFrame
  <2>2. CASE Send(w) /\ SetStatus(p, "SUBMITTING")
             /\ status[p] \in {"NEEDS_REVIEW", "SUBMITTING"}
    <3>1. "SUBMITTING" \in TAKEN /\ status[p] \in TAKEN
      BY <2>2 DEF TAKEN
    <3> QED
      BY <1>2, <1>5, <1>6, <2>1, <2>2, <3>1, SetStep
  <2>3. CASE Send(w) /\ UNCHANGED <<status, idle, overdue>>
    BY <1>5, <1>6, <2>1, <2>3, NoStep DEF LeaveAlone
  <2>4. CASE Finish(w) /\ UNCHANGED <<status, idle, overdue>>
    BY <1>4, <2>1, <2>4, NoStep DEF Finish, LeaveAlone
  <2> QED
    BY <1>13, <2>2, <2>3, <2>4
<1>14. CASE StaffRefund(w)
  <2>1. CASE RefundPayout(w)
    BY <1>1, <1>14, <2>1, RefundPayoutKeeps DEF StaffRefund
  <2>2. CASE ApplyPayout(w)
    BY <1>1, <1>14, <2>2, ApplyPayoutKeeps DEF StaffRefund
  <2>3. CASE UNCHANGED <<row, savings>> /\ Finish(w)
    BY <1>4, <1>14, <2>3, NoStep DEF StaffRefund, Finish, LeaveAlone, RowFrame, row
  <2> QED
    BY <1>14, <2>1, <2>2, <2>3 DEF StaffRefund
<1> QED
  BY <1>7, <1>8, <1>9, <1>10, <1>11, <1>12, <1>13, <1>14

LEMMA HandlerKeeps == ASSUME IndInv, NEW w \in Worker, HandlerStep(w) PROVE IndInv'
  BY SubmitKeeps, ResolveKeeps DEF HandlerStep

\* The provider's records and the answers it gives only move on.
LEMMA AcceptFacts ==
    ASSUME TypeOK, NEW p \in Payout, AcceptRequest(p)
    PROVE  /\ provider' \in [Payout -> PayoutState] /\ mismatch' \in [Payout -> BOOLEAN]
           /\ provider'[p] # "NONE"
           /\ \A q \in Payout : provider[q] # "NONE" => provider'[q] = provider[q]
           /\ \A q \in Payout : q # p => provider'[q] = provider[q]
  BY DEF TypeOK, AcceptRequest, PayoutState

LEMMA ProviderKeeps == IndInv /\ ProviderStep => IndInv'
<1> SUFFICES ASSUME IndInv, ProviderStep PROVE IndInv'
  OBVIOUS
<1> USE DEF IndInv, row, savings, ProviderOnTaken, PaidIsBacked, TasksOnTaken, ViewsHold,
            AttemptsLeft, BookMatchesRows, TypeOK
<1>1. ASSUME NEW w \in Worker, RequestArrives(w) PROVE IndInv'
  <2> DEFINE p == task[w].payout
  <2>1. task[w] # Idle /\ p \in Payout /\ task[w].view = "NONE" /\ AcceptRequest(p)
        /\ task[w] \in Task /\ status[p] \notin NotTaken
    BY <1>1 DEF RequestArrives, Idle, Job
  <2>2. task' = [task EXCEPT ![w] = [task[w] EXCEPT !.at = "called"]]
    BY <1>1 DEF RequestArrives
  <2>3. [task[w] EXCEPT !.at = "called"] \in Task
    BY <2>1 DEF Task, Stage
  <2>4. TypeOK'
    BY <1>1, <2>1, <2>2, <2>3, AcceptFacts DEF RequestArrives
  <2>5. AttemptsLeft' /\ BookMatchesRows' /\ PaidIsBacked' /\ ProviderOnTaken'
    BY <1>1, <2>1, AcceptFacts DEF RequestArrives
  <2>6. TasksOnTaken'
    BY <1>1, <2>1, <2>2 DEF RequestArrives, Task
  <2>7. ASSUME NEW v \in Worker, v # w, task[v].view # "NONE" \/ task[v].at = "called"
        PROVE  provider'[task[v].payout] = provider[task[v].payout]
    <3>1. task[v] \in Task /\ task[v].payout \in Payout
      BY <2>7 DEF Idle, Job
    <3>2. provider[task[v].payout] # "NONE"
      BY <3>1, <2>7 DEF Task, PayoutState
    <3> QED
      BY <2>1, <3>1, <3>2, AcceptFacts
  <2>8. ViewsHold'
    BY <2>1, <2>2, <2>7, AcceptFacts DEF Task
  <2> QED
    BY <2>4, <2>5, <2>6, <2>8
<1>2. ASSUME NEW p \in Payout, LateRequestArrives(p) PROVE IndInv'
  <2>1. AcceptRequest(p) /\ late' \subseteq late /\ status[p] \notin NotTaken
    BY <1>2 DEF LateRequestArrives
  <2>2. TypeOK'
    BY <1>2, <2>1, AcceptFacts DEF LateRequestArrives
  <2>3. AttemptsLeft' /\ BookMatchesRows' /\ PaidIsBacked' /\ ProviderOnTaken' /\ TasksOnTaken'
    BY <1>2, <2>1, AcceptFacts DEF LateRequestArrives
  <2>4. ASSUME NEW v \in Worker, task[v].view # "NONE" \/ task[v].at = "called"
        PROVE  provider'[task[v].payout] = provider[task[v].payout]
    <3>1. task[v] \in Task /\ task[v].payout \in Payout
      BY <2>4 DEF Idle, Job
    <3>2. provider[task[v].payout] # "NONE"
      BY <3>1, <2>4 DEF Task, PayoutState
    <3> QED
      BY <2>1, <3>1, <3>2, AcceptFacts
  <2>5. ViewsHold'
    BY <1>2, <2>4 DEF LateRequestArrives
  <2> QED
    BY <2>2, <2>3, <2>5
<1>3. ASSUME NEW p \in Payout, NEW state \in PayoutState, ProviderSettles(p, state) PROVE IndInv'
  <2>1. TypeOK'
    BY <1>3 DEF ProviderSettles
  <2>2. AttemptsLeft' /\ BookMatchesRows' /\ PaidIsBacked' /\ ProviderOnTaken' /\ TasksOnTaken'
    BY <1>3 DEF ProviderSettles
  <2>3. ViewsHold'
    BY <1>3 DEF ProviderSettles
  <2> QED
    BY <2>1, <2>2, <2>3
<1> QED
  BY <1>1, <1>2, <1>3 DEF ProviderStep

LEMMA BranchKeeps == IndInv /\ BranchStep => IndInv'
<1> SUFFICES ASSUME IndInv, BranchStep PROVE IndInv'
  OBVIOUS
<1> USE DEF BranchOnly, row, external, IndInv
<1>1. TypeOK'
  <2> USE DEF TypeOK, AccountStatus
  <2>1. ASSUME NEW amount \in Cash, CounterDeposit(amount) PROVE TypeOK'
    BY <2>1, PayoutAssumption DEF CounterDeposit
  <2>2. ASSUME NEW amount \in Cash, CounterWithdraw(amount) PROVE TypeOK'
    BY <2>2, PayoutAssumption DEF CounterWithdraw, WithdrawalAllowed
  <2>3. CASE CloseAccount
    BY <2>3 DEF CloseAccount
  <2>4. CASE ChangeStatus
    BY <2>4 DEF ChangeStatus
  <2>5. CASE RemovePayoutAccount
    <3>1. verified' \in BOOLEAN
      BY <2>5 DEF RemovePayoutAccount
    <3> QED
      BY <2>5, <3>1 DEF RemovePayoutAccount
  <2> QED
    BY <2>1, <2>2, <2>3, <2>4, <2>5 DEF BranchStep
<1>2. UNCHANGED <<status, otpAttempts, posted, provider, late, task>>
  BY DEF BranchStep, CounterDeposit, CounterWithdraw, CloseAccount, ChangeStatus,
     RemovePayoutAccount
<1> QED
  BY <1>1, <1>2, QuietStep

LEMMA TimeKeeps == IndInv /\ TimeStep => IndInv'
<1> SUFFICES ASSUME IndInv, TimeStep PROVE IndInv'
  OBVIOUS
<1>1. TypeOK'
  <2> USE DEF IndInv, TypeOK, row, savings, external
  <2>1. ASSUME NEW p \in Payout, GrowIdle(p) PROVE TypeOK'
    BY <2>1 DEF GrowIdle
  <2>2. ASSUME NEW p \in Payout, GrowOverdue(p) PROVE TypeOK'
    BY <2>2 DEF GrowOverdue
  <2>3. CASE NextDay
    BY <2>3, PayoutAssumption DEF NextDay
  <2> QED
    BY <2>1, <2>2, <2>3 DEF TimeStep
<1>2. UNCHANGED <<status, otpAttempts, posted, provider, late, task>>
  BY DEF TimeStep, GrowIdle, GrowOverdue, NextDay, row, savings, external
<1> QED
  BY <1>1, <1>2, QuietStep

LEMMA CrashKeeps == IndInv /\ Crash => IndInv'
<1> SUFFICES ASSUME IndInv, Crash PROVE IndInv'
  OBVIOUS
<1> USE DEF Crash, row, savings, IndInv
<1>1. Idle \in Task
  BY DEF Idle, Job, Task, Kind, Stage, Status, PayoutState
<1>2. TypeOK'
  BY <1>1, PayoutAssumption DEF TypeOK
<1>3. AttemptsLeft' /\ BookMatchesRows' /\ PaidIsBacked'
  BY DEF AttemptsLeft, BookMatchesRows, PaidIsBacked
<1>4. ProviderOnTaken'
  BY DEF ProviderOnTaken, TasksOnTaken, Underway, Waiting, Idle, Job
<1>5. TasksOnTaken' /\ ViewsHold'
  BY DEF TasksOnTaken, ViewsHold, Idle, Job
<1> QED
  BY <1>2, <1>3, <1>4, <1>5

LEMMA NextKeeps == IndInv /\ [Next]_vars => IndInv'
<1>1. IndInv /\ UNCHANGED vars => IndInv'
  BY QuietStep DEF vars, row, savings, external, IndInv, TypeOK
<1> QED
  BY <1>1, MemberKeeps, BeginKeeps, HandlerKeeps, ProviderKeeps, BranchKeeps, TimeKeeps,
     CrashKeeps DEF Next

-------------------------------------------------------------------------------
(***************************************************************************)
(* The safety properties, for every value of the constants.                *)
(***************************************************************************)

\* Every reachable state satisfies the inductive invariant.
THEOREM Invariance == Spec => []IndInv
  BY InitInv, NextKeeps, PTL DEF Spec

\* Every variable keeps its type: in particular the savings balance is never
\* negative, whichever withdrawals and refunds overlap.
THEOREM TypesHold == Spec => []TypeOK
<1>1. IndInv => TypeOK
  BY DEF IndInv
<1> QED
  BY <1>1, Invariance, PTL

\* Rows and savings transactions agree at every commit: each payout is taken
\* once and returned once.
THEOREM BooksMatch == Spec => []BookMatchesRows
<1>1. IndInv => BookMatchesRows
  BY DEF IndInv
<1> QED
  BY <1>1, Invariance, PTL

\* The provider only ever hears of payouts whose money was taken.
THEOREM SentAfterTaking == Spec => []SentOnlyIfTaken
<1>1. IndInv => SentOnlyIfTaken
  <2> SUFFICES ASSUME IndInv, NEW p \in Payout, provider[p] # "NONE" \/ Underway(p)
               PROVE  Debit(p) \in posted
    BY DEF SentOnlyIfTaken
  <2>1. status[p] \notin NotTaken
    BY DEF IndInv, ProviderOnTaken, TasksOnTaken, Underway, Waiting, Idle, Job
  <2>2. status[p] \in TAKEN \cup {"REFUNDED"}
    BY <2>1 DEF IndInv, TypeOK, Status, TAKEN, NotTaken
  <2> QED
    BY <2>2 DEF IndInv, BookMatchesRows
<1> QED
  BY <1>1, Invariance, PTL

\* A payout is PAID only if the provider paid it.
THEOREM PaidWasPaid == Spec => []PaidIsBacked
<1>1. IndInv => PaidIsBacked
  BY DEF IndInv
<1> QED
  BY <1>1, Invariance, PTL

-------------------------------------------------------------------------------
(***************************************************************************)
(* What a step does to the statuses.                                       *)
(***************************************************************************)

\* How a handler moves one taken payout without moving money.
Moves(w, p, s) ==
    /\ status[p] \in TAKEN \ {"PAID"} /\ s \in TAKEN
    /\ SetStatus(p, s) /\ UNCHANGED savings
    /\ status[p] = "NEEDS_REVIEW" =>
          \/ s = "PAID"
          \/ task[w].payout = p /\ task[w].at = "act" /\ task[w].kind \in StaffAction

\* How a handler returns the money of a payout.
Refunds(w, p) ==
    /\ status[p] \in TAKEN /\ RefundTx(p)
    /\ \/ provider[p] = "FAILED"
       \/ /\ task[w].payout = p /\ task'[w] # task[w]
          /\ RefusedOrUnknownToProvider(task[w])

HandlerEffect(w) ==
    \/ UNCHANGED <<status, balance>>
    \/ \E p \in Payout, s \in TAKEN : Moves(w, p, s)
    \/ \E p \in Payout : Refunds(w, p)

LEMMA ApplyEffect ==
    ASSUME IndInv, NEW w \in Worker, task[w] # Idle, ApplyPayout(w)
    PROVE  HandlerEffect(w)
<1> DEFINE p == task[w].payout
           view == task[w].view
           outcome == IF mismatch[p] THEN "NEEDS_REVIEW" ELSE Outcome(view)
<1>1. p \in Payout /\ status[p] \in Status /\ view \in PayoutState
  BY DEF IndInv, TypeOK, TasksOnTaken, Task
<1>2. CASE NothingToApply(p, view) /\ LeaveAlone
  BY <1>2 DEF HandlerEffect, LeaveAlone, savings
<1>3. CASE /\ ~NothingToApply(p, view) /\ outcome # "REFUNDED"
           /\ SetStatus(p, outcome) /\ UNCHANGED savings
  <2>1. outcome \in TAKEN
    BY <1>3 DEF Outcome, TAKEN
  <2>2. status[p] \in TAKEN \ {"PAID"} /\ (status[p] = "NEEDS_REVIEW" => outcome = "PAID")
    BY <1>1, <1>3 DEF NothingToApply, LeftAsIs, Outcome, Status, TAKEN, NotTaken, PayoutState
  <2>3. Moves(w, p, outcome)
    BY <1>3, <2>1, <2>2 DEF Moves
  <2> QED
    BY <1>1, <2>1, <2>3 DEF HandlerEffect
<1>4. CASE ~NothingToApply(p, view) /\ outcome = "REFUNDED" /\ RefundTx(p)
  <2>1. view = "FAILED" /\ status[p] \in TAKEN
    BY <1>1, <1>4 DEF NothingToApply, LeftAsIs, Outcome, Status, TAKEN, NotTaken, PayoutState
  <2>2. Refunds(w, p)
    BY <1>4, <2>1 DEF Refunds, IndInv, ViewsHold
  <2> QED
    BY <1>1, <2>2 DEF HandlerEffect
<1>5. CASE RefundRollsBack
  BY <1>5 DEF HandlerEffect, RefundRollsBack, savings
<1> QED
  BY <1>2, <1>3, <1>4, <1>5 DEF ApplyPayout

LEMMA RefundPayoutEffect ==
    ASSUME IndInv, NEW w \in Worker, task[w] # Idle, RefundPayout(w),
           RefusedOrUnknownToProvider(task[w])
    PROVE  HandlerEffect(w)
<1> DEFINE p == task[w].payout
<1>1. p \in Payout
  BY DEF IndInv, TasksOnTaken
<1>2. CASE LeaveAlone \/ RefundRollsBack
  BY <1>2 DEF HandlerEffect, LeaveAlone, RefundRollsBack, savings
<1>3. CASE status[p] \in TAKEN /\ RefundTx(p) /\ Return(w)
  <2>1. task'[w].at # task[w].at
    BY <1>3 DEF Return, Returned, Job, Idle, RefusedOrUnknownToProvider, IndInv, TypeOK
  <2>2. Refunds(w, p)
    BY <1>3, <2>1 DEF Refunds
  <2> QED
    BY <1>1, <2>2 DEF HandlerEffect
<1> QED
  BY <1>2, <1>3 DEF RefundPayout

LEMMA HandlerEffects ==
    ASSUME IndInv, NEW w \in Worker, HandlerStep(w) PROVE HandlerEffect(w)
<1> DEFINE p == task[w].payout
<1>1. /\ task[w] # Idle /\ p \in Payout /\ task[w] \in Task
  BY DEF HandlerStep, SubmitRead, SubmitAnswered, SubmitRefused, SubmitUnknown, SubmitApply,
         SubmitRefund, ProviderLookup, LookupFails, WebhookActs, SweepActs, SweepChecks, Recheck,
         Retry, StaffRefund, Idle, Job, IndInv, TypeOK, TasksOnTaken
<1>2. CASE \/ SubmitRead(w) \/ SubmitAnswered(w) \/ SubmitRefused(w) \/ SubmitUnknown(w)
           \/ ProviderLookup(w) \/ LookupFails(w)
  BY <1>2 DEF SubmitRead, SubmitAnswered, SubmitRefused, SubmitUnknown, ProviderLookup,
              LookupFails, row, savings, HandlerEffect
<1>3. CASE SubmitApply(w) \/ WebhookActs(w)
  BY <1>1, <1>3, ApplyEffect DEF SubmitApply, WebhookActs
<1>4. CASE SubmitRefund(w)
  BY <1>1, <1>4, RefundPayoutEffect DEF SubmitRefund, RefusedOrUnknownToProvider
<1>5. CASE SweepActs(w)
  BY <1>1, <1>5, ApplyEffect DEF SweepActs, HandlerEffect, row, savings
<1>6. CASE SweepChecks(w)
  <2>1. CASE overdue[p] /\ status[p] \in Open
    <3>1. Moves(w, p, "NEEDS_REVIEW") /\ "NEEDS_REVIEW" \in TAKEN
      BY <1>6, <2>1 DEF SweepChecks, Moves, Open, TAKEN
    <3> QED
      BY <1>1, <3>1 DEF HandlerEffect
  <2> QED
    BY <1>6, <2>1 DEF SweepChecks, HandlerEffect, savings
<1>7. CASE Recheck(w)
  <2>1. CASE status[p] = "NEEDS_REVIEW" /\ SetStatus(p, "PROCESSING") /\ UNCHANGED savings
    <3>1. task[w].at = "act" /\ task[w].kind \in StaffAction
      BY <1>1, <1>7 DEF Recheck, Task, Kind
    <3>2. Moves(w, p, "PROCESSING") /\ "PROCESSING" \in TAKEN
      BY <2>1, <3>1 DEF Moves, TAKEN
    <3> QED
      BY <1>1, <3>2 DEF HandlerEffect
  <2>2. CASE UNCHANGED <<status, savings>>
    BY <2>2 DEF HandlerEffect, savings
  <2> QED
    BY <1>1, <1>7, <2>1, <2>2, ApplyEffect DEF Recheck
<1>8. CASE Retry(w)
  <2>1. CASE status[p] \in {"NEEDS_REVIEW", "SUBMITTING"} /\ SetStatus(p, "SUBMITTING")
    <3>1. task[w].at = "act" /\ task[w].kind \in StaffAction /\ UNCHANGED savings
      BY <1>1, <1>8 DEF Retry, Task, Kind
    <3>2. Moves(w, p, "SUBMITTING") /\ "SUBMITTING" \in TAKEN
      BY <2>1, <3>1 DEF Moves, TAKEN
    <3> QED
      BY <1>1, <3>2 DEF HandlerEffect
  <2>2. CASE UNCHANGED <<status, idle, overdue>>
    BY <1>8, <2>2 DEF Retry, HandlerEffect, savings
  <2> QED
    BY <1>8, <2>1, <2>2 DEF Retry, RetryRow
<1>9. CASE StaffRefund(w)
  <2>1. CASE task[w].view = "NONE" /\ RefundPayout(w)
    BY <1>1, <1>9, <2>1, RefundPayoutEffect DEF StaffRefund, RefusedOrUnknownToProvider
  <2>2. CASE ApplyPayout(w)
    BY <1>1, <2>2, ApplyEffect
  <2>3. CASE UNCHANGED <<row, savings>>
    BY <2>3 DEF HandlerEffect, row, savings
  <2> QED
    BY <1>9, <2>1, <2>2, <2>3 DEF StaffRefund
<1> QED
  BY <1>2, <1>3, <1>4, <1>5, <1>6, <1>7, <1>8, <1>9 DEF HandlerStep

\* Any other step confirms one payout or keeps every payout taken or not.
LEMMA OtherEffects ==
    ASSUME IndInv, [Next]_vars, ~ \E w \in Worker : HandlerStep(w)
    PROVE  \/ \E w \in Worker, p \in Payout : ConfirmPayout(w, p)
           \/ \A p \in Payout : \/ status'[p] = status[p]
                                \/ status[p] \in NotTaken /\ status'[p] \in NotTaken
<1>1. CASE MemberStep
  BY <1>1 DEF MemberStep, StartPayout, CancelPayout, WrongCode, SetStatus, IndInv, TypeOK,
              NotTaken, Worker
<1>2. CASE BeginStep \/ ProviderStep \/ BranchStep \/ TimeStep \/ Crash \/ UNCHANGED vars
  BY <1>2 DEF BeginStep, WebhookArrives, StaffResolves, SweepPicks, Begin, ProviderStep,
     RequestArrives, LateRequestArrives, ProviderSettles, BranchStep, CounterDeposit,
     CounterWithdraw, CloseAccount, ChangeStatus, RemovePayoutAccount, BranchOnly, TimeStep,
     GrowIdle, GrowOverdue, NextDay, Crash, vars, row
<1> QED
  BY <1>1, <1>2 DEF Next

\* A refund is only ever made of a payout the provider reports failed, or by the
\* very handler whose createPayout was definitely refused, or by staff's REFUND
\* that asked the provider and was told it has no record; never by a handler that
\* got no answer.
THEOREM RefundsAreGrounded == Spec => RefundIsGrounded
<1>1. ASSUME IndInv, [Next]_vars, NEW p \in Payout,
             status[p] \in TAKEN, status'[p] = "REFUNDED"
      PROVE  \/ provider[p] = "FAILED"
             \/ \E w \in Worker : /\ task[w].payout = p /\ task'[w] # task[w]
                                  /\ RefusedOrUnknownToProvider(task[w])
  <2>1. status[p] # "REFUNDED" /\ status[p] \notin NotTaken
    BY <1>1 DEF TAKEN, NotTaken
  <2>2. CASE \E w \in Worker : HandlerStep(w)
    <3>1. PICK w \in Worker : HandlerEffect(w)
      BY <1>1, <2>2, HandlerEffects
    <3>2. ASSUME NEW q \in Payout, NEW s \in TAKEN, Moves(w, q, s) PROVE FALSE
      BY <1>1, <2>1, <3>2 DEF Moves, SetStatus, TAKEN, IndInv, TypeOK
    <3>3. ASSUME NEW q \in Payout, Refunds(w, q) PROVE q = p
      BY <1>1, <2>1, <3>3 DEF Refunds, RefundTx, SetStatus, IndInv, TypeOK
    <3> QED
      BY <1>1, <2>1, <3>1, <3>2, <3>3 DEF HandlerEffect, Refunds
  <2>3. CASE ~ \E w \in Worker : HandlerStep(w)
    <3>1. ASSUME NEW w \in Worker, NEW q \in Payout, ConfirmPayout(w, q) PROVE FALSE
      BY <1>1, <2>1, <3>1 DEF ConfirmPayout, SetStatus, IndInv, TypeOK
    <3> QED
      BY <1>1, <2>1, <2>3, <3>1, OtherEffects
  <2> QED
    BY <2>2, <2>3
<1>2. IndInv /\ [Next]_vars =>
        \A p \in Payout :
          status[p] \in TAKEN /\ status'[p] = "REFUNDED" =>
            \/ provider[p] = "FAILED"
            \/ \E w \in Worker : /\ task[w].payout = p /\ task'[w] # task[w]
                                 /\ RefusedOrUnknownToProvider(task[w])
  BY <1>1
<1> QED
  BY <1>2, Invariance, PTL DEF Spec, RefundIsGrounded

\* A payout leaves review because the payment was settled, or by a staff action
\* on that payout.
THEOREM ReviewIsDeliberate == Spec => ReviewEndsDeliberately
<1>1. ASSUME IndInv, [Next]_vars, NEW p \in Payout,
             status[p] = "NEEDS_REVIEW", status'[p] # "NEEDS_REVIEW"
      PROVE  \/ status'[p] \in {"PAID", "REFUNDED"}
             \/ \E w \in Worker : /\ task[w].payout = p
                                  /\ task[w].at = "act"
                                  /\ task[w].kind \in StaffAction
  <2>1. CASE \E w \in Worker : HandlerStep(w)
    <3>1. PICK w \in Worker : HandlerEffect(w)
      BY <1>1, <2>1, HandlerEffects
    <3>2. ASSUME NEW q \in Payout, NEW s \in TAKEN, Moves(w, q, s)
          PROVE  /\ q = p /\ status'[p] = s
      BY <1>1, <3>2 DEF Moves, SetStatus, IndInv, TypeOK
    <3>3. ASSUME NEW q \in Payout, Refunds(w, q) PROVE status'[p] = "REFUNDED"
      BY <1>1, <3>3 DEF Refunds, RefundTx, SetStatus, IndInv, TypeOK
    <3> QED
      BY <1>1, <3>1, <3>2, <3>3 DEF HandlerEffect, Moves
  <2>2. CASE ~ \E w \in Worker : HandlerStep(w)
    <3>1. ASSUME NEW w \in Worker, NEW q \in Payout, ConfirmPayout(w, q) PROVE FALSE
      BY <1>1, <3>1 DEF ConfirmPayout, SetStatus, IndInv, TypeOK
    <3> QED
      BY <1>1, <2>2, <3>1, OtherEffects DEF NotTaken
  <2> QED
    BY <2>1, <2>2
<1>2. IndInv /\ [Next]_vars =>
        \A p \in Payout :
          status[p] = "NEEDS_REVIEW" /\ status'[p] # "NEEDS_REVIEW" =>
            \/ status'[p] \in {"PAID", "REFUNDED"}
            \/ \E w \in Worker : /\ task[w].payout = p
                                 /\ task[w].at = "act"
                                 /\ task[w].kind \in StaffAction
  BY <1>1
<1> QED
  BY <1>2, Invariance, PTL DEF Spec, ReviewEndsDeliberately

-------------------------------------------------------------------------------
(***************************************************************************)
(* OnlinePayout implements InstantWithdrawal.                              *)
(***************************************************************************)

LEMMA PromiseInit == Init => Promise!Init
  BY DEF Init, Promise!Init, MoneyOf, NotTaken

\* Only the payout whose status changes can change place.
LEMMA PlaceOfOne ==
    ASSUME TypeOK, NEW p \in Payout, NEW s, SetStatus(p, s)
    PROVE  [q \in Payout |-> MoneyOf(q)]' =
             [[q \in Payout |-> MoneyOf(q)] EXCEPT ![p] = MoneyOf(p)']
<1>1. \A q \in Payout : q # p => MoneyOf(q)' = MoneyOf(q)
  BY DEF MoneyOf, SetStatus, TypeOK
<1> QED
  BY <1>1

LEMMA ConfirmTakes ==
    ASSUME IndInv, NEW w \in Worker, NEW p \in Payout, ConfirmPayout(w, p)
    PROVE  Promise!Take(p)
<1>1. status[p] = "AWAITING_OTP" /\ status'[p] = "SUBMITTING" /\ SetStatus(p, "SUBMITTING")
  BY DEF ConfirmPayout, SetStatus, IndInv, TypeOK
<1>2. MoneyOf(p) = "saved" /\ MoneyOf(p)' = "taken"
  BY <1>1 DEF MoneyOf, NotTaken
<1>3. Debit(p) \notin posted
  BY <1>1 DEF IndInv, BookMatchesRows, TAKEN
<1>4. balance >= Amount[p] /\ balance' = balance - Amount[p]
  BY <1>3, PayoutAssumption DEF ConfirmPayout, TakeMoney, WithdrawalAllowed, IndInv, TypeOK
<1> QED
  BY <1>1, <1>2, <1>4, PlaceOfOne DEF Promise!Take, IndInv

LEMMA MoveSends ==
    ASSUME IndInv, NEW w \in Worker, NEW p \in Payout, NEW s \in TAKEN, Moves(w, p, s)
    PROVE  Promise!Next \/ UNCHANGED Promise!promise
<1>1. /\ status'[p] = s /\ SetStatus(p, s) /\ balance' = balance
      /\ status[p] \in TAKEN \ {"PAID"}
  BY DEF Moves, SetStatus, IndInv, TypeOK, savings
<1>2. MoneyOf(p) = "taken"
  BY <1>1 DEF MoneyOf, TAKEN, NotTaken
<1>3. CASE s = "PAID"
  <2>1. MoneyOf(p)' = "sent"
    BY <1>1, <1>3 DEF MoneyOf, NotTaken
  <2>2. Promise!Send(p)
    BY <1>1, <1>2, <2>1, PlaceOfOne DEF Promise!Send, IndInv
  <2> QED
    BY <2>2 DEF Promise!Next
<1>4. CASE s # "PAID"
  <2>1. MoneyOf(p)' = "taken"
    BY <1>1, <1>4 DEF MoneyOf, TAKEN, NotTaken
  <2>2. [q \in Payout |-> MoneyOf(q)]' = [q \in Payout |-> MoneyOf(q)]
    BY <1>1, <1>2, <2>1, PlaceOfOne DEF IndInv
  <2> QED
    BY <1>1, <2>2 DEF Promise!promise
<1> QED
  BY <1>3, <1>4

LEMMA RefundReturns ==
    ASSUME IndInv, NEW w \in Worker, NEW p \in Payout, Refunds(w, p)
    PROVE  Promise!Return(p)
<1>1. status[p] \in TAKEN /\ status'[p] = "REFUNDED" /\ SetStatus(p, "REFUNDED")
  BY DEF Refunds, RefundTx, SetStatus, IndInv, TypeOK
<1>2. MoneyOf(p) \in {"taken", "sent"} /\ MoneyOf(p)' = "returned"
  BY <1>1 DEF MoneyOf, TAKEN, NotTaken
<1>3. balance' = balance + Amount[p]
  BY <1>1 DEF Refunds, RefundTx, IndInv, BookMatchesRows, TAKEN
<1> QED
  BY <1>1, <1>2, <1>3, PlaceOfOne DEF Promise!Return, IndInv

LEMMA PromiseNext == IndInv /\ [Next]_vars => [Promise!Next]_(Promise!promise)
<1> SUFFICES ASSUME IndInv, [Next]_vars PROVE Promise!Next \/ UNCHANGED Promise!promise
  OBVIOUS
<1>1. balance' \in Nat
  BY NextKeeps DEF IndInv, TypeOK
<1>2. ASSUME [q \in Payout |-> MoneyOf(q)]' = [q \in Payout |-> MoneyOf(q)]
      PROVE  Promise!Next
  BY <1>1, <1>2 DEF Promise!Next, Promise!OtherMovement
<1>3. CASE \E w \in Worker : HandlerStep(w)
  <2>1. PICK w \in Worker : HandlerEffect(w)
    BY <1>3, HandlerEffects
  <2>2. CASE UNCHANGED <<status, balance>>
    <3>1. \A q \in Payout : MoneyOf(q)' = MoneyOf(q)
      BY <2>2 DEF MoneyOf
    <3> QED
      BY <1>2, <3>1
  <2>3. ASSUME NEW p \in Payout, Refunds(w, p) PROVE Promise!Next
    BY <2>3, RefundReturns DEF Promise!Next
  <2> QED
    BY <2>1, <2>2, <2>3, MoveSends DEF HandlerEffect
<1>4. CASE ~ \E w \in Worker : HandlerStep(w)
  <2>1. ASSUME NEW w \in Worker, NEW p \in Payout, ConfirmPayout(w, p) PROVE Promise!Next
    BY <2>1, ConfirmTakes DEF Promise!Next
  <2>2. ASSUME \A p \in Payout : \/ status'[p] = status[p]
                                 \/ status[p] \in NotTaken /\ status'[p] \in NotTaken
        PROVE  Promise!Next
    <3>1. \A q \in Payout : MoneyOf(q)' = MoneyOf(q)
      BY <2>2 DEF MoneyOf
    <3> QED
      BY <1>2, <3>1
  <2> QED
    BY <1>4, <2>1, <2>2, OtherEffects
<1> QED
  BY <1>3, <1>4

\* Taken at most once, sent or returned, returned at most once, for any number
\* of payouts, handlers and crashes.
THEOREM Implements == Spec => ImplementsPromise
<1> QED
  BY PromiseInit, PromiseNext, Invariance, PTL DEF Spec, ImplementsPromise, Promise!Spec

-------------------------------------------------------------------------------
(***************************************************************************)
(* The sums: conservation of money, and the daily limit.                   *)
(***************************************************************************)

\* The payouts whose money is out of savings, and those that count on a day.
Held == {p \in Payout : status[p] \in TAKEN}
CountsOn(day) == {p \in Payout : status[p] \in TAKEN /\ businessDate[p] = day}

\* What some payouts are for is a natural number, no less than what fewer are
\* for, and one more adds its amount.
LEMMA AmountsAddUp ==
    ASSUME NEW S \in SUBSET Payout
    PROVE  /\ SumOf(S) \in Nat
           /\ \A T \in SUBSET S : SumOf(T) <= SumOf(S)
           /\ \A p \in S : SumOf(S \ {p}) = SumOf(S) - Amount[p]
<1>1. IsFiniteSet(S) /\ \A x \in S : Amount[x] \in Nat
  BY PayoutAssumption, FS_Subset
<1>2. SumOf(S) \in Nat
  BY <1>1, SumNat DEF SumOf
<1>3. ASSUME NEW T \in SUBSET S PROVE SumOf(T) <= SumOf(S)
  <2>1. IsFiniteSet(T) /\ IsFiniteSet(S \ T)
    BY <1>1, FS_Subset
  <2>2. \A x \in T \cup (S \ T) : Amount[x] \in Int
    BY <1>1
  <2>3. SumFunctionOnSet(Amount, T \cup (S \ T))
          = SumFunctionOnSet(Amount, T) + SumFunctionOnSet(Amount, S \ T)
    BY <2>1, <2>2, SumUnion, T \cap (S \ T) = {}
  <2>4. SumFunctionOnSet(Amount, T) \in Nat /\ SumFunctionOnSet(Amount, S \ T) \in Nat
    BY <1>1, <2>1, SumNat
  <2>5. T \cup (S \ T) = S
    OBVIOUS
  <2>6. SumFunctionOnSet(Amount, S) = SumFunctionOnSet(Amount, T) + SumFunctionOnSet(Amount, S \ T)
    BY <2>3, <2>5
  <2>7. SumFunctionOnSet(Amount, T) <= SumFunctionOnSet(Amount, S)
    BY <2>4, <2>6
  <2> QED BY <2>7 DEF SumOf
<1>4. ASSUME NEW p \in S PROVE SumOf(S \ {p}) = SumOf(S) - Amount[p]
  <2>1. \A x \in S : Amount[x] \in Int
    BY <1>1
  <2>2. SumFunctionOnSet(Amount, S) = Amount[p] + SumFunctionOnSet(Amount, S \ {p})
    BY <1>1, <2>1, SumRemove
  <2>3. IsFiniteSet(S \ {p}) /\ \A x \in S \ {p} : Amount[x] \in Nat
    BY <1>1, FS_Subset
  <2>4. SumFunctionOnSet(Amount, S \ {p}) \in Nat
    BY <2>3, SumNat
  <2> QED BY <1>1, <2>2, <2>4 DEF SumOf
<1> QED
  BY <1>2, <1>3, <1>4

\* A handler never moves cash over the counter, nor a withdrawal to another day.
LEMMA HandlerFrame ==
    ASSUME NEW w \in Worker, HandlerStep(w) PROVE UNCHANGED <<businessDate, debited, counter>>
<1>1. ApplyPayout(w) \/ RefundPayout(w) => UNCHANGED <<businessDate, debited, counter>>
  BY DEF ApplyPayout, RefundPayout, LeaveAlone, RefundTx, RefundRollsBack, savings
<1> QED
  BY <1>1
  DEF HandlerStep, SubmitRead, SubmitAnswered, SubmitRefused, SubmitUnknown, SubmitApply,
      SubmitRefund, ProviderLookup, LookupFails, WebhookActs, SweepActs, SweepChecks, Recheck,
      Retry, StaffRefund, row, savings

\* What a step may do to the payouts held: confirm one, return one, or leave
\* them.  Only confirming gives a held payout its day, on its row and in savings.
Confirms(p) ==
    /\ p \notin Held /\ Held' = Held \cup {p} /\ HasRoom(p)
    /\ businessDate' = [businessDate EXCEPT ![p] = today]
    /\ debited' = [debited EXCEPT ![p] = today]
    /\ balance' = balance - Amount[p] /\ counter' = counter
Returns(p) ==
    /\ p \in Held /\ Held' = Held \ {p} /\ UNCHANGED <<businessDate, debited>>
    /\ balance' = balance + Amount[p] /\ counter' = counter
Keeps ==
    /\ Held' = Held /\ debited' = debited
    /\ \A p \in Held : businessDate'[p] = businessDate[p]
    /\ balance' - counter' = balance - counter

\* A handler refunds a payout or leaves what is held.
LEMMA HandlerOnHeld ==
    ASSUME IndInv, NEW w \in Worker, HandlerStep(w)
    PROVE  Keeps \/ \E p \in Payout : Returns(p)
<1>1. UNCHANGED <<businessDate, debited, counter>> /\ HandlerEffect(w)
  BY HandlerFrame, HandlerEffects
<1>2. CASE UNCHANGED <<status, balance>>
  BY <1>1, <1>2 DEF Keeps, Held
<1>3. ASSUME NEW p \in Payout, NEW s \in TAKEN, Moves(w, p, s) PROVE Keeps
  <2>1. status' = [status EXCEPT ![p] = s] /\ status[p] \in TAKEN /\ balance' = balance
    BY <1>3 DEF Moves, SetStatus, savings
  <2>2. Held' = Held
    BY <2>1 DEF Held, IndInv, TypeOK
  <2> QED
    BY <1>1, <2>1, <2>2 DEF Keeps
<1>4. ASSUME NEW p \in Payout, Refunds(w, p) PROVE Returns(p)
  <2>1. status' = [status EXCEPT ![p] = "REFUNDED"] /\ status[p] \in TAKEN
    BY <1>4 DEF Refunds, RefundTx, SetStatus
  <2>2. "REFUNDED" \notin TAKEN
    BY DEF TAKEN
  <2>3. p \in Held /\ Held' = Held \ {p}
    BY <2>1, <2>2 DEF Held, IndInv, TypeOK
  <2>4. balance' = balance + Amount[p]
    BY <1>4, <2>1 DEF Refunds, RefundTx, IndInv, BookMatchesRows, TAKEN
  <2> QED
    BY <1>1, <2>3, <2>4 DEF Returns
<1> QED
  BY <1>1, <1>2, <1>3, <1>4 DEF HandlerEffect

\* Confirming takes one payout more, on its day.
LEMMA ConfirmHolds ==
    ASSUME IndInv, NEW w \in Worker, NEW p \in Payout, ConfirmPayout(w, p)
    PROVE  Confirms(p)
<1>1. status[p] = "AWAITING_OTP" /\ status' = [status EXCEPT ![p] = "SUBMITTING"]
  BY DEF ConfirmPayout, SetStatus
<1>2. "AWAITING_OTP" \notin TAKEN /\ "SUBMITTING" \in TAKEN
  BY DEF TAKEN
<1>3. p \notin Held /\ Held' = Held \cup {p}
  BY <1>1, <1>2 DEF Held, IndInv, TypeOK
<1>4. Debit(p) \notin posted
  BY <1>1 DEF IndInv, BookMatchesRows, TAKEN
<1> QED
  BY <1>3, <1>4 DEF Confirms, ConfirmPayout, TakeMoney, CountsToday

\* The counter moves balance and cash alike, and closing an account too.
LEMMA BranchKeepsHeld == ASSUME IndInv, BranchStep PROVE Keeps
<1>1. UNCHANGED <<status, businessDate, debited>>
  BY DEF BranchStep, CounterDeposit, CounterWithdraw, CloseAccount, ChangeStatus,
         RemovePayoutAccount, BranchOnly, row
<1>2. balance' - counter' = balance - counter
  BY PayoutAssumption
  DEF BranchStep, CounterDeposit, CounterWithdraw, CloseAccount, ChangeStatus,
      RemovePayoutAccount, IndInv, TypeOK
<1> QED
  BY <1>1, <1>2 DEF Keeps, Held

\* What any step does to the payouts held.
LEMMA StepOnHeld ==
    ASSUME IndInv, [Next]_vars
    PROVE  Keeps \/ \E p \in Payout : Confirms(p) \/ Returns(p)
<1>1. CASE \E w \in Worker : HandlerStep(w)
  BY <1>1, HandlerOnHeld
<1>2. CASE \E w \in Request, p \in Payout : ConfirmPayout(w, p)
  BY <1>2, ConfirmHolds DEF Worker
<1>3. CASE \E p \in Payout : StartPayout(p)
  <2>1. PICK p \in Payout : StartPayout(p)
    BY <1>3
  <2>2. \A q \in Payout : /\ status'[q] \in TAKEN <=> status[q] \in TAKEN
                          /\ status[q] \in TAKEN => q # p
    BY <2>1 DEF StartPayout, TAKEN
  <2>3. Held' = Held /\ p \notin Held
    BY <2>2 DEF Held
  <2>4. \A q \in Held : businessDate'[q] = businessDate[q]
    BY <2>1, <2>3 DEF StartPayout, Held, IndInv, TypeOK
  <2> QED
    BY <2>1, <2>3, <2>4 DEF Keeps, StartPayout, savings
<1>4. CASE \E p \in Payout : CancelPayout(p) \/ WrongCode(p)
  <2>1. PICK p \in Payout : CancelPayout(p) \/ WrongCode(p)
    BY <1>4
  <2>2. \A q \in Payout : status'[q] \in TAKEN <=> status[q] \in TAKEN
    BY <2>1 DEF CancelPayout, WrongCode, SetStatus, TAKEN, IndInv, TypeOK
  <2>3. Held' = Held
    BY <2>2 DEF Held
  <2> QED
    BY <2>1, <2>3 DEF Keeps, CancelPayout, WrongCode, savings
<1>5. CASE BranchStep
  BY <1>5, BranchKeepsHeld
<1>6. CASE BeginStep \/ ProviderStep \/ TimeStep \/ Crash \/ UNCHANGED vars
  <2>1. UNCHANGED <<status, businessDate, debited, balance, counter>>
    BY <1>6 DEF BeginStep, WebhookArrives, StaffResolves, SweepPicks, Begin, ProviderStep,
       RequestArrives, LateRequestArrives, ProviderSettles, TimeStep, GrowIdle, GrowOverdue,
       NextDay, Crash, vars, row, savings
  <2> QED
    BY <2>1 DEF Keeps, Held
<1> QED
  BY <1>1, <1>2, <1>3, <1>4, <1>5, <1>6 DEF Next, MemberStep

\* Every step keeps the balance in line with the payouts held.
LEMMA ConservationStep == ASSUME IndInv, Conservation, [Next]_vars PROVE Conservation'
<1>0. /\ Held \in SUBSET Payout /\ Held' \in SUBSET Payout
      /\ balance \in Int /\ counter \in Int /\ balance' \in Int /\ counter' \in Int
  BY NextKeeps DEF Held, IndInv, TypeOK
<1>1. balance = OpeningBalance + counter - SumOf(Held)
  BY DEF Conservation, Held
<1>2. SumOf(Held) \in Nat /\ SumOf(Held') \in Nat /\ OpeningBalance \in Nat
  BY <1>0, AmountsAddUp, PayoutAssumption
<1>3. balance' = OpeningBalance + counter' - SumOf(Held')
  <2>1. CASE Keeps
    BY <1>0, <1>1, <1>2, <2>1 DEF Keeps
  <2>2. ASSUME NEW p \in Payout, Confirms(p) PROVE balance' = OpeningBalance + counter' - SumOf(Held')
    <3>1. p \in Held' /\ Held' \ {p} = Held /\ Amount[p] \in Nat
      BY <2>2, PayoutAssumption DEF Confirms
    <3>2. SumOf(Held) = SumOf(Held') - Amount[p]
      BY <1>0, <3>1, AmountsAddUp
    <3> QED
      BY <1>0, <1>1, <1>2, <2>2, <3>1, <3>2 DEF Confirms
  <2>3. ASSUME NEW p \in Payout, Returns(p) PROVE balance' = OpeningBalance + counter' - SumOf(Held')
    <3>1. p \in Held /\ Held' = Held \ {p} /\ Amount[p] \in Nat
      BY <2>3, PayoutAssumption DEF Returns
    <3>2. SumOf(Held') = SumOf(Held) - Amount[p]
      BY <1>0, <3>1, AmountsAddUp
    <3> QED
      BY <1>0, <1>1, <1>2, <2>3, <3>1, <3>2 DEF Returns
  <2> QED
    BY <2>1, <2>2, <2>3, StepOnHeld
<1> QED
  BY <1>3 DEF Conservation, Held

\* What instantWithdrawalRoom keeps: by the days on their rows, the payouts held
\* are within each day's limit.
CountedWithinLimit == \A day \in 1..LastDay : UsedToday(day) <= DailyLimit

\* A payout held counts on the day its money was taken.
DatesAgree == \A p \in Held : debited[p] = businessDate[p]

\* Every step keeps each day within the limit: only confirming adds to a day, and
\* it checks the room left on it.
LEMMA LimitStep == ASSUME IndInv, CountedWithinLimit, [Next]_vars PROVE CountedWithinLimit'
<1> SUFFICES ASSUME NEW day \in 1..LastDay PROVE SumOf(CountsOn(day)') <= DailyLimit
  BY DEF CountedWithinLimit, UsedToday, CountsOn
<1>0. /\ CountsOn(day) \in SUBSET Payout /\ CountsOn(day)' \in SUBSET Payout
      /\ DailyLimit \in Nat /\ SumOf(CountsOn(day)) <= DailyLimit
      /\ businessDate \in [Payout -> 1..LastDay]
  BY PayoutAssumption DEF CountsOn, CountedWithinLimit, UsedToday, IndInv, TypeOK
<1>1. SumOf(CountsOn(day)) \in Nat /\ SumOf(CountsOn(day)') \in Nat
  BY <1>0, AmountsAddUp
<1>2. CountsOn(day) = {p \in Held : businessDate[p] = day}
      /\ CountsOn(day)' = {p \in Held' : businessDate'[p] = day}
  BY DEF CountsOn, Held
<1>3. CASE CountsOn(day)' \subseteq CountsOn(day)
  <2>1. SumOf(CountsOn(day)') <= SumOf(CountsOn(day))
    BY <1>0, <1>3, AmountsAddUp
  <2> QED
    BY <1>0, <1>1, <2>1
<1>4. CASE Keeps \/ \E p \in Payout : Returns(p)
  BY <1>2, <1>3, <1>4 DEF Keeps, Returns
<1>5. ASSUME NEW p \in Payout, Confirms(p) PROVE SumOf(CountsOn(day)') <= DailyLimit
  <2>1. /\ businessDate'[p] = today
        /\ \A q \in Payout \ {p} : businessDate'[q] = businessDate[q]
        /\ p \notin Held /\ Held' = Held \cup {p}
    BY <1>0, <1>5 DEF Confirms
  <2>2. CASE day # today
    <3>1. CountsOn(day)' \subseteq CountsOn(day)
      BY <1>2, <2>1, <2>2 DEF Held
    <3> QED
      BY <1>3, <3>1
  <2>3. CASE day = today
    <3>1. p \in CountsOn(day)' /\ CountsOn(day)' \ {p} = CountsOn(day)
      BY <1>2, <2>1, <2>3 DEF Held
    <3>2. SumOf(CountsOn(day)) = SumOf(CountsOn(day)') - Amount[p] /\ Amount[p] \in Nat
      BY <1>0, <3>1, AmountsAddUp, PayoutAssumption
    <3>3. Amount[p] <= DailyLimit - SumOf(CountsOn(day))
      BY <1>5, <2>3 DEF Confirms, HasRoom, UsedToday, CountsOn
    <3> QED
      BY <1>0, <1>1, <3>2, <3>3
  <2> QED
    BY <2>2, <2>3
<1> QED
  BY <1>4, <1>5, StepOnHeld

\* Every step keeps the two dates of a payout held alike: confirming sets both to
\* the same day, and nothing else touches either.
LEMMA DatesStep == ASSUME IndInv, DatesAgree, [Next]_vars PROVE DatesAgree'
<1>1. businessDate \in [Payout -> 1..LastDay] /\ debited \in [Payout -> 0..LastDay]
      /\ Held \in SUBSET Payout
  BY DEF IndInv, TypeOK, Held
<1>2. CASE Keeps \/ \E p \in Payout : Returns(p)
  BY <1>2 DEF DatesAgree, Keeps, Returns
<1>3. ASSUME NEW p \in Payout, Confirms(p) PROVE DatesAgree'
  BY <1>1, <1>3 DEF DatesAgree, Confirms
<1> QED
  BY <1>2, <1>3, StepOnHeld

\* With the dates alike, what savings posted on a day is what the rows count.
LEMMA LimitFollows == CountedWithinLimit /\ DatesAgree => DailyLimitHeld
<1> SUFFICES ASSUME CountedWithinLimit, DatesAgree, NEW day \in 1..LastDay
             PROVE  SumOf({p \in Payout : status[p] \in TAKEN /\ debited[p] = day}) <= DailyLimit
  BY DEF DailyLimitHeld
<1>1. {p \in Payout : status[p] \in TAKEN /\ debited[p] = day}
        = {p \in Payout : status[p] \in TAKEN /\ businessDate[p] = day}
  BY DEF DatesAgree, Held
<1> QED
  BY <1>1 DEF CountedWithinLimit, UsedToday

\* At first nothing is held.
LEMMA InitSums == Init => Conservation /\ CountedWithinLimit /\ DatesAgree
<1> SUFFICES ASSUME Init PROVE Conservation /\ CountedWithinLimit /\ DatesAgree
  OBVIOUS
<1>1. Held = {} /\ \A day : CountsOn(day) = {}
  BY DEF Init, Held, CountsOn, TAKEN
<1>2. SumOf({}) = 0
  BY SumEmpty DEF SumOf
<1>3. Conservation
  <2>1. SumOf({p \in Payout : status[p] \in TAKEN}) = 0
    BY <1>1, <1>2 DEF Held
  <2>2. balance = OpeningBalance /\ counter = 0 /\ OpeningBalance \in Nat
    BY PayoutAssumption DEF Init
  <2> QED
    BY <2>1, <2>2 DEF Conservation
<1>4. CountedWithinLimit
  BY <1>1, <1>2, PayoutAssumption DEF CountedWithinLimit, UsedToday, CountsOn
<1>5. DatesAgree
  BY <1>1 DEF DatesAgree
<1> QED
  BY <1>3, <1>4, <1>5

\* Conservation: no debit or refund is lost or doubled, for any number of
\* payouts, handlers, counter movements and crashes.
THEOREM MoneyIsConserved == Spec => []Conservation
<1>1. IndInv /\ Conservation /\ [Next]_vars => Conservation'
  BY ConservationStep
<1> QED
  BY <1>1, InitSums, Invariance, PTL DEF Spec

\* DailyLimitHeld: the withdrawals posted on any business day and not returned
\* stay within the limit, whatever day they were started on.
THEOREM LimitIsHeld == Spec => []DailyLimitHeld
<1>1. IndInv /\ CountedWithinLimit /\ [Next]_vars => CountedWithinLimit'
  BY LimitStep
<1>2. IndInv /\ DatesAgree /\ [Next]_vars => DatesAgree'
  BY DatesStep
<1> QED
  BY <1>1, <1>2, InitSums, LimitFollows, Invariance, PTL DEF Spec
===============================================================================
