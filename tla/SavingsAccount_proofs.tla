------------------------- MODULE SavingsAccount_proofs -------------------------
(***************************************************************************)
(* Proofs about SavingsAccount, for any number of accounts, requests and   *)
(* runs of the interest posting, any products and any calendar: a request  *)
(* is paid exactly when it is approved, interest once posted is what the   *)
(* rows of its period still say, a closed account stays closed with        *)
(* nothing on it, and only refunds of earlier withdrawals bend the         *)
(* monthly limit.                                                          *)
(***************************************************************************)
EXTENDS SavingsAccount, Sums

Asked == [status : RequestStatus, account : Account, amount : Nat]

\* The calendar and the requests have their types, whatever is posted.
Dated ==
    /\ today \in Nat /\ opened \in [Account -> Nat]
    /\ task \in [Poster -> [todo : SUBSET Account, date : Nat]]
    /\ request \in [Request -> Asked]
    /\ DOMAIN status = Account

Inv == Dated /\ RequestPaidOnce

LEMMA InitInv == Init => Inv
<1> SUFFICES ASSUME Init PROVE Inv
  OBVIOUS
<1>1. NoRequest \in Asked
  BY SavingsAssumption DEF NoRequest, Asked, RequestStatus
<1>2. Idle \in [todo : SUBSET Account, date : Nat]
  BY DEF Idle
<1>3. Dated
  BY <1>1, <1>2, SavingsAssumption DEF Init, Dated
<1>4. RequestPaidOnce
  BY DEF Init, RequestPaidOnce, NoRequest
<1> QED
  BY <1>3, <1>4 DEF Inv

\* A posting under another key, or none at all, leaves the requests paid as
\* they were.
LEMMA OtherRowsKeep ==
    ASSUME Inv, request' = request, NEW new, rows' = rows \cup new,
           \A r \in new : r.key \notin Request
    PROVE  RequestPaidOnce'
<1> SUFFICES ASSUME NEW q \in Request
             PROVE  {r \in rows' : r.key = q} = {r \in rows : r.key = q}
  BY DEF Inv, RequestPaidOnce
<1> QED
  OBVIOUS

LEMMA SameRowsKeep ==
    ASSUME Inv, request' = request, rows' = rows
    PROVE  RequestPaidOnce'
  BY DEF Inv, RequestPaidOnce

\* Post writes one row, with its key.
LEMMA PostKeeps ==
    ASSUME Inv, NEW a, NEW kind, NEW amount, NEW k, NEW s, Post(a, kind, amount, k, s),
           k \notin Request, request' = request
    PROVE  RequestPaidOnce'
<1> DEFINE new == {[account |-> a, kind |-> kind, amount |-> amount, day |-> today, key |-> k]}
<1>1. rows' = rows \cup new
  BY DEF Post
<1>2. \A r \in new : r.key \notin Request
  OBVIOUS
<1> HIDE DEF new
<1> QED
  BY <1>1, <1>2, OtherRowsKeep

LEMMA ApproveKeeps ==
    ASSUME Inv, NEW q \in Request, ApproveRequest(q)
    PROVE  Inv'
<1> DEFINE row == [account |-> request[q].account, kind |-> "WITHDRAWAL",
                   amount |-> request[q].amount, day |-> today, key |-> q]
<1>1. rows' = rows \cup {row} /\ {r \in rows : r.key = q} = {}
  <2>1. rows' = rows \cup {row}
    BY DEF ApproveRequest, Post
  <2>2. request[q].status # "APPROVED"
    BY DEF ApproveRequest
  <2> QED
    BY <2>1, <2>2 DEF Inv, RequestPaidOnce
<1>2. request' \in [Request -> Asked]
  BY DEF ApproveRequest, Inv, Dated, Asked, RequestStatus
<1>3. request'[q].status = "APPROVED" /\ request'[q].account = row.account /\ request'[q].amount = row.amount
  BY DEF ApproveRequest, Inv, Dated, Asked
<1>4. ASSUME NEW p \in Request, p # q
      PROVE  request'[p] = request[p] /\ {r \in rows' : r.key = p} = {r \in rows : r.key = p}
  BY <1>1, <1>4 DEF ApproveRequest, Inv, Dated
<1>5. {r \in rows' : r.key = q} = {row} /\ row.kind = "WITHDRAWAL"
  BY <1>1
<1> HIDE DEF row
<1>6. RequestPaidOnce'
  BY <1>3, <1>4, <1>5 DEF Inv, RequestPaidOnce
<1>7. Dated'
  BY <1>2 DEF ApproveRequest, Post, Inv, Dated
<1> QED
  BY <1>6, <1>7 DEF Inv

\* A request that is made, rejected or cancelled is not paid.
LEMMA RequestKeeps ==
    ASSUME Inv, NEW q \in Request, NEW to \in Asked, to.status # "APPROVED",
           request[q].status \in {"NONE", "PENDING"}, request' = [request EXCEPT ![q] = to],
           UNCHANGED <<account, rows, task, today>>
    PROVE  Inv'
<1>1. Dated'
  BY DEF Inv, Dated, account
<1>2. \A p \in Request : request'[p] = IF p = q THEN to ELSE request[p]
  BY DEF Inv, Dated
<1>3. RequestPaidOnce'
  BY <1>2 DEF Inv, RequestPaidOnce
<1> QED
  BY <1>1, <1>3 DEF Inv

\* The rows of interest are keyed by their month, which is no request.
LEMMA InterestKeeps ==
    ASSUME Inv, NEW p \in Poster, NEW a \in Account, PostInterest(p, a)
    PROVE  Inv'
<1> DEFINE due == Due(a, task[p].date)
<1>1. \A m \in due : m \in Int
  BY DEF Due
<1>2. \A r \in InterestRows(a, due) : r.key \notin Request
  <2>1. \A m \in due : m \notin Request
    BY <1>1, SavingsAssumption
  <2> QED
    BY <2>1 DEF InterestRows
<1>3. RequestPaidOnce'
  BY <1>2, OtherRowsKeep DEF PostInterest
<1>4. Dated'
  BY DEF Inv, Dated, PostInterest
<1> QED
  BY <1>3, <1>4 DEF Inv

LEMMA StepInv == Inv /\ [Next]_vars => Inv'
<1> SUFFICES ASSUME Inv, [Next]_vars PROVE Inv'
  OBVIOUS
<1>1. CASE UNCHANGED vars
  BY <1>1 DEF vars, account, Inv, Dated, RequestPaidOnce
<1>2. ASSUME NEW k \in Key \cup Payout PROVE k \notin Request
  BY <1>2, SavingsAssumption
<1>3. ASSUME NEW a \in Account, NEW amount \in Amount, NEW k \in Key, Deposit(a, amount, k) PROVE Inv'
  BY <1>2, <1>3, PostKeeps DEF Deposit, Post, Inv, Dated
<1>4. ASSUME NEW a \in Account, NEW amount \in Amount, NEW k \in Key \cup Payout, Withdraw(a, amount, k) PROVE Inv'
  BY <1>2, <1>4, PostKeeps DEF Withdraw, Post, Inv, Dated
<1>5. ASSUME NEW p \in Payout, PayoutReturns(p) PROVE Inv'
  <2>1. PICK w \in rows : /\ Post(w.account, "PAYOUT_REFUND", w.amount, p, status[w.account])
                          /\ UNCHANGED <<opened, request, task, today>>
    BY <1>5 DEF PayoutReturns
  <2>2. RequestPaidOnce'
    BY <1>2, <2>1, PostKeeps
  <2>3. Dated'
    BY <2>1 DEF Post, Inv, Dated
  <2> QED
    BY <2>2, <2>3 DEF Inv
<1>6. ASSUME NEW a \in Account, NEW amount \in Amount \cup {0}, NEW k \in Key, OpenAccount(a, amount, k) PROVE Inv'
  <2>1. Dated'
    BY <1>6, SavingsAssumption DEF OpenAccount, Post, Inv, Dated
  <2>2. RequestPaidOnce'
    BY <1>2, <1>6, PostKeeps, SameRowsKeep DEF OpenAccount
  <2> QED
    BY <2>1, <2>2 DEF Inv
<1>7. ASSUME NEW a \in Account, OpenRegularAccount(a) \/ Freeze(a) \/ Unfreeze(a) \/ Reactivate(a) PROVE Inv'
  <2>1. rows' = rows /\ request' = request /\ task' = task /\ today' = today
        /\ (opened' = opened \/ opened' = [opened EXCEPT ![a] = today]) /\ DOMAIN status' = Account
    BY <1>7 DEF OpenRegularAccount, Freeze, Unfreeze, Reactivate, ChangeStatus, Inv, Dated
  <2> QED
    BY <2>1, SameRowsKeep DEF Inv, Dated
<1>8. ASSUME NEW a \in Account, NEW k \in Key, CloseAccount(a, k) PROVE Inv'
  <2>1. Dated'
    BY <1>8 DEF CloseAccount, Post, Inv, Dated
  <2>2. RequestPaidOnce'
    BY <1>2, <1>8, PostKeeps, SameRowsKeep DEF CloseAccount
  <2> QED
    BY <2>1, <2>2 DEF Inv
<1>9. ASSUME NEW q \in Request, NEW a \in Account, NEW amount \in Amount, RequestWithdrawal(q, a, amount) PROVE Inv'
  <2>1. [status |-> "PENDING", account |-> a, amount |-> amount] \in Asked
    BY SavingsAssumption DEF Asked, RequestStatus
  <2> QED
    BY <1>9, <2>1, RequestKeeps DEF RequestWithdrawal
<1>10. ASSUME NEW q \in Request, NEW to \in {"REJECTED", "CANCELLED"}, DropRequest(q, to) PROVE Inv'
  <2> DEFINE dropped == [request[q] EXCEPT !.status = to]
  <2>1. dropped \in Asked /\ dropped.status # "APPROVED" /\ request' = [request EXCEPT ![q] = dropped]
    BY <1>10 DEF DropRequest, Inv, Dated, Asked, RequestStatus
  <2> QED
    BY <1>10, <2>1, RequestKeeps DEF DropRequest
<1>11. ASSUME NEW p \in Poster, RunStarts(p) \/ RunGoesOn(p) PROVE Inv'
  <2>1. CASE RunStarts(p)
    BY <2>1, SameRowsKeep DEF RunStarts, account, Inv, Dated
  <2>2. ASSUME NEW a \in Account, RunFails(p, a) PROVE Inv'
    BY <2>2, SameRowsKeep DEF RunFails, Idle, account, Inv, Dated
  <2> QED
    BY <1>11, <2>1, <2>2, InterestKeeps DEF RunGoesOn, Inv, Dated
<1>12. CASE Tick
  BY <1>12, SameRowsKeep DEF Tick, account, Inv, Dated
<1> QED
  BY <1>1, <1>3, <1>4, <1>5, <1>6, <1>7, <1>8, <1>9, <1>10, <1>11, <1>12, ApproveKeeps DEF Next

\* A withdrawal request is paid exactly when it is approved, once, and as it
\* was made: a rejection, a cancellation and two approvals that overlap
\* exclude each other (decideWithdrawalRequest).
THEOREM RequestsArePaidOnce == Spec => []RequestPaidOnce
<1>1. Inv => RequestPaidOnce
  BY DEF Inv
<1> QED
  BY <1>1, InitInv, StepInv, PTL DEF Spec

-----------------------------------------------------------------------------
\* What the rows are

RowKinds == {"DEPOSIT", "WITHDRAWAL", "PAYOUT_REFUND", "INTEREST"}

FitRow(r) ==
    /\ r.account \in Account /\ r.kind \in RowKinds /\ r.amount \in Int
    /\ r.day \in Nat
    /\ IF r.kind = "INTEREST" THEN r.key \in Int ELSE r.key \notin Int /\ r.amount > 0

\* The rows and the cached balances have their types, nothing is dated ahead,
\* and what the database checks of an account holds of each.
Fits ==
    /\ IsFiniteSet(rows) /\ \A r \in rows : FitRow(r) /\ r.day <= today
    /\ status = [a \in Account |-> status[a]] /\ balance \in [Account -> Nat]
    /\ \A a \in Account : status[a] = "CLOSED" => balance[a] = 0
    /\ \A p \in Poster : task[p].date <= today
    /\ \A q \in Request : request[q].status # "NONE" => request[q].account \in Account /\ request[q].amount > 0

\* One row is posted at the counter, with its key.
Posting(a, kind, amount, k, s) ==
    /\ Post(a, kind, amount, k, s) /\ a \in Account /\ amount \in Nat \ {0} /\ k \notin Int
    /\ status[a] = "CLOSED" => s = "CLOSED"
    /\ \/ kind = "DEPOSIT"
       \/ kind = "WITHDRAWAL" /\ Fresh(k) /\ (s = "CLOSED" \/ MayWithdraw(a, amount))
       \/ /\ kind = "PAYOUT_REFUND" /\ \A r \in rows : ~(r.key = k /\ r.kind = "PAYOUT_REFUND")
          /\ \E w \in rows : w.key = k /\ w.kind = "WITHDRAWAL" /\ w.account = a

\* Nothing is posted.
Quiet ==
    /\ rows' = rows /\ balance' = balance
    /\ status' = [a \in Account |-> status'[a]]
    /\ \A a \in Account : /\ status[a] = "CLOSED" => status'[a] = "CLOSED"
                          /\ status'[a] = "CLOSED" => balance[a] = 0

\* The calendar and the requests, after any step
Timely ==
    /\ today' \in Nat /\ today <= today'
    /\ \A p \in Poster : task'[p].date <= today'
    /\ \A q \in Request : request'[q].status # "NONE" => request'[q].account \in Account /\ request'[q].amount > 0

LEMMA InitFits == Init => Fits
<1> SUFFICES ASSUME Init PROVE Fits
  OBVIOUS
<1>1. IsFiniteSet({})
  BY FS_EmptySet
<1>2. FirstDay \in Nat
  BY SavingsAssumption
<1> QED
  BY <1>1, <1>2 DEF Init, Fits, Idle, NoRequest

\* Every step posts one row, or the interest of one account, or nothing.
LEMMA StepsAre ==
    ASSUME Inv, Fits, [Next]_vars
    PROVE  \/ \E a, kind, amount, k, s : Posting(a, kind, amount, k, s) /\ today' = today
           \/ Quiet
           \/ \E p \in Poster, a \in Account : PostInterest(p, a)
<1>0. /\ status = [a \in Account |-> status[a]] /\ balance \in [Account -> Nat] /\ Amount \subseteq Nat \ {0}
      /\ \A k \in Key \cup Payout \cup Request : k \notin Int
      /\ \A a \in Account : status[a] = "CLOSED" => balance[a] = 0
      /\ \A r \in rows : FitRow(r)
  BY SavingsAssumption DEF Fits
<1>1. CASE UNCHANGED vars
  BY <1>0, <1>1 DEF vars, account, Quiet
<1>2. ASSUME NEW a \in Account, NEW amount \in Amount, NEW k \in Key, Deposit(a, amount, k)
      PROVE  \E s : Posting(a, "DEPOSIT", amount, k, s) /\ today' = today
  <2> DEFINE s == IF status[a] = "DORMANT" THEN "ACTIVE" ELSE status[a]
  <2>1. Post(a, "DEPOSIT", amount, k, s) /\ today' = today /\ status[a] # "CLOSED"
    BY <1>2 DEF Deposit, IsOpen
  <2> HIDE DEF s
  <2> QED
    BY <1>0, <2>1 DEF Posting
<1>3. ASSUME NEW a \in Account, NEW amount \in Amount, NEW k \in Key \cup Payout, Withdraw(a, amount, k)
      PROVE  Posting(a, "WITHDRAWAL", amount, k, status[a]) /\ today' = today
  BY <1>0, <1>3 DEF Withdraw, NewKey, Posting
<1>4. ASSUME NEW p \in Payout, PayoutReturns(p)
      PROVE  \E w \in rows : Posting(w.account, "PAYOUT_REFUND", w.amount, p, status[w.account]) /\ today' = today
  <2>1. PICK w \in rows : /\ w.key = p /\ w.kind = "WITHDRAWAL"
                          /\ \A r \in rows : ~(r.key = p /\ r.kind = "PAYOUT_REFUND")
                          /\ Post(w.account, "PAYOUT_REFUND", w.amount, p, status[w.account])
                          /\ today' = today
    BY <1>4 DEF PayoutReturns
  <2>2. w.account \in Account /\ w.amount \in Nat \ {0}
    BY <1>0, <2>1 DEF FitRow
  <2> QED
    BY <1>0, <2>1, <2>2 DEF Posting
<1>5. ASSUME NEW a \in Account, NEW amount \in Amount \cup {0}, NEW k \in Key, OpenAccount(a, amount, k)
      PROVE  (Posting(a, "DEPOSIT", amount, k, "ACTIVE") /\ today' = today) \/ Quiet
  <2>1. CASE amount > 0
    BY <1>0, <1>5, <2>1 DEF OpenAccount, Posting
  <2>2. CASE ~(amount > 0)
    <3>1. status[a] = "NONE" /\ status' = [status EXCEPT ![a] = "ACTIVE"] /\ balance' = balance /\ rows' = rows
      BY <1>5, <2>2 DEF OpenAccount
    <3> QED
      BY <1>0, <3>1 DEF Quiet
  <2> QED
    BY <2>1, <2>2
<1>6. ASSUME NEW a \in Account, OpenRegularAccount(a) \/ Freeze(a) \/ Unfreeze(a) \/ Reactivate(a) PROVE Quiet
  <2>1. PICK s \in {"ACTIVE", "FROZEN"} : /\ status' = [status EXCEPT ![a] = s] /\ status[a] # "CLOSED"
                                           /\ balance' = balance /\ rows' = rows
    BY <1>6 DEF OpenRegularAccount, Freeze, Unfreeze, Reactivate, ChangeStatus
  <2> QED
    BY <1>0, <2>1 DEF Quiet
<1>7. ASSUME NEW a \in Account, NEW k \in Key, CloseAccount(a, k)
      PROVE  (Posting(a, "WITHDRAWAL", balance[a], k, "CLOSED") /\ today' = today) \/ Quiet
  <2>1. CASE balance[a] > 0
    BY <1>0, <1>7, <2>1 DEF CloseAccount, NewKey, Posting
  <2>2. CASE ~(balance[a] > 0)
    <3>1. status' = [status EXCEPT ![a] = "CLOSED"] /\ balance' = balance /\ rows' = rows
      BY <1>7, <2>2 DEF CloseAccount
    <3>2. balance[a] = 0
      BY <1>0, <2>2
    <3> QED
      BY <1>0, <3>1, <3>2 DEF Quiet
  <2> QED
    BY <2>1, <2>2
<1>8. ASSUME NEW q \in Request, ApproveRequest(q)
      PROVE  LET a == request[q].account IN
             Posting(a, "WITHDRAWAL", request[q].amount, q, status[a]) /\ today' = today
  <2>1. /\ request[q].status = "PENDING" /\ MayWithdraw(request[q].account, request[q].amount)
        /\ Post(request[q].account, "WITHDRAWAL", request[q].amount, q, status[request[q].account])
        /\ today' = today
    BY <1>8 DEF ApproveRequest
  <2>2. request[q].account \in Account /\ request[q].amount \in Nat \ {0}
    BY <2>1 DEF Inv, Dated, Asked, Fits
  <2>3. Fresh(q)
    BY <2>1 DEF Inv, RequestPaidOnce, Fresh
  <2> QED
    BY <1>0, <2>1, <2>2, <2>3 DEF Posting
<1>9. ASSUME \/ \E q \in Request, a \in Account, amount \in Amount : RequestWithdrawal(q, a, amount)
             \/ \E q \in Request, to \in {"REJECTED", "CANCELLED"} : DropRequest(q, to)
             \/ \E p \in Poster : RunStarts(p)
             \/ \E p \in Poster, a \in Account : RunFails(p, a)
             \/ Tick
      PROVE  Quiet
  <2>1. status' = status /\ balance' = balance /\ rows' = rows
    BY <1>9 DEF RequestWithdrawal, DropRequest, RunStarts, RunFails, Tick, account
  <2> QED
    BY <1>0, <2>1 DEF Quiet
<1>10. ASSUME NEW p \in Poster, RunGoesOn(p)
       PROVE  \E a \in Account : PostInterest(p, a) \/ RunFails(p, a)
  BY <1>10 DEF RunGoesOn, Inv, Dated
<1> QED
  BY <1>1, <1>2, <1>3, <1>4, <1>5, <1>6, <1>7, <1>8, <1>9, <1>10 DEF Next

LEMMA StepsAreTimely == ASSUME Inv, Fits, [Next]_vars PROVE Timely
<1>0. /\ today \in Nat /\ task \in [Poster -> [todo : SUBSET Account, date : Nat]]
      /\ request \in [Request -> Asked]
      /\ \A p \in Poster : task[p].date <= today
      /\ \A q \in Request : request[q].status # "NONE" => request[q].account \in Account /\ request[q].amount > 0
  BY DEF Inv, Dated, Fits
<1>1. ASSUME today' = today, task' = task, request' = request PROVE Timely
  BY <1>0, <1>1 DEF Timely
<1>2. ASSUME NEW p \in Poster, NEW t \in [todo : SUBSET Account, date : Nat], t.date <= today,
             task' = [task EXCEPT ![p] = t], today' = today, request' = request
      PROVE  Timely
  BY <1>0, <1>2 DEF Timely
<1>3. ASSUME NEW q \in Request, NEW to \in Asked, to.status # "NONE" => to.amount > 0,
             request' = [request EXCEPT ![q] = to], today' = today, task' = task
      PROVE  Timely
  BY <1>0, <1>3 DEF Timely, Asked
<1>4. CASE UNCHANGED vars
  BY <1>1, <1>4 DEF vars
<1>5. ASSUME \/ \E a \in Account, amount \in Amount, k \in Key : Deposit(a, amount, k)
             \/ \E a \in Account, amount \in Amount, k \in Key \cup Payout : Withdraw(a, amount, k)
             \/ \E p \in Payout : PayoutReturns(p)
             \/ \E a \in Account, amount \in Amount \cup {0}, k \in Key : OpenAccount(a, amount, k)
             \/ \E a \in Account : OpenRegularAccount(a) \/ Freeze(a) \/ Unfreeze(a) \/ Reactivate(a)
             \/ \E a \in Account, k \in Key : CloseAccount(a, k)
      PROVE  Timely
  <2>1. today' = today /\ task' = task /\ request' = request
    BY <1>5 DEF Deposit, Withdraw, PayoutReturns, OpenAccount, OpenRegularAccount, Freeze, Unfreeze,
       Reactivate, ChangeStatus, CloseAccount
  <2> QED
    BY <1>1, <2>1
<1>6. ASSUME NEW q \in Request, NEW a \in Account, NEW amount \in Amount, RequestWithdrawal(q, a, amount)
      PROVE  Timely
  <2> DEFINE made == [status |-> "PENDING", account |-> a, amount |-> amount]
  <2>1. made \in Asked /\ made.amount > 0
    BY SavingsAssumption DEF Asked, RequestStatus
  <2>2. request' = [request EXCEPT ![q] = made] /\ today' = today /\ task' = task
    BY <1>6 DEF RequestWithdrawal
  <2> HIDE DEF made
  <2> QED
    BY <1>3, <2>1, <2>2
<1>7. ASSUME NEW q \in Request, NEW to \in {"APPROVED", "REJECTED", "CANCELLED"},
             request[q].status = "PENDING", request' = [request EXCEPT ![q].status = to],
             today' = today, task' = task
      PROVE  Timely
  <2> DEFINE made == [request[q] EXCEPT !.status = to]
  <2>1. made \in Asked /\ made.amount = request[q].amount /\ request' = [request EXCEPT ![q] = made]
    BY <1>0, <1>7 DEF Asked, RequestStatus
  <2> HIDE DEF made
  <2>2. made.amount > 0
    BY <1>0, <1>7, <2>1
  <2> QED
    BY <1>3, <1>7, <2>1, <2>2
<1>8. ASSUME NEW q \in Request, ApproveRequest(q) \/ \E to \in {"REJECTED", "CANCELLED"} : DropRequest(q, to)
      PROVE  Timely
  BY <1>7, <1>8 DEF ApproveRequest, DropRequest
<1>9. ASSUME NEW p \in Poster, RunStarts(p) PROVE Timely
  <2> DEFINE t == [todo |-> {a \in Account : IsOpen(a)}, date |-> today]
  <2>1. t \in [todo : SUBSET Account, date : Nat] /\ t.date <= today
    BY <1>0
  <2>2. task' = [task EXCEPT ![p] = t] /\ today' = today /\ request' = request
    BY <1>9 DEF RunStarts
  <2> HIDE DEF t
  <2> QED
    BY <1>2, <2>1, <2>2
<1>10. ASSUME NEW p \in Poster, NEW a \in Account, PostInterest(p, a) PROVE Timely
  <2> DEFINE t == [task[p] EXCEPT !.todo = @ \ {a}]
  <2>1. t \in [todo : SUBSET Account, date : Nat] /\ t.date <= today
    BY <1>0
  <2>2. task' = [task EXCEPT ![p] = t] /\ today' = today /\ request' = request
    BY <1>10 DEF PostInterest
  <2> HIDE DEF t
  <2> QED
    BY <1>2, <2>1, <2>2
<1>11. ASSUME NEW p \in Poster, NEW a \in Account, RunFails(p, a) PROVE Timely
  <2>1. Idle \in [todo : SUBSET Account, date : Nat] /\ Idle.date <= today
    BY <1>0 DEF Idle
  <2>2. task' = [task EXCEPT ![p] = Idle] /\ today' = today /\ request' = request
    BY <1>11 DEF RunFails
  <2> QED
    BY <1>2, <2>1, <2>2
<1>12. ASSUME Tick PROVE Timely
  <2>1. today' = today + 1 /\ task' = task /\ request' = request
    BY <1>12 DEF Tick
  <2> QED
    BY <1>0, <2>1 DEF Timely
<1>13. ASSUME NEW p \in Poster, RunGoesOn(p)
       PROVE  \E a \in Account : PostInterest(p, a) \/ RunFails(p, a)
  BY <1>0, <1>13 DEF RunGoesOn
<1> QED
  BY <1>4, <1>5, <1>6, <1>8, <1>9, <1>10, <1>11, <1>12, <1>13 DEF Next

-----------------------------------------------------------------------------
\* The interest of a month

\* A function on a finite set has a least value.
LEMMA LeastExists ==
    ASSUME NEW S, IsFiniteSet(S), S # {}, NEW f, \A x \in S : f[x] \in Int
    PROVE  \E x \in S : \A y \in S : f[x] <= f[y]
<1> DEFINE Good == {T \in SUBSET S : T # {} => \E x \in T : \A y \in T : f[x] <= f[y]}
<1>1. {} \in Good
  OBVIOUS
<1>2. ASSUME NEW T \in SUBSET S, T # {}, \A x \in T : T \ {x} \in Good PROVE T \in Good
  <2>1. PICK z \in T : TRUE
    BY <1>2
  <2>2. CASE T \ {z} = {}
    <3>1. \A y \in T : y = z
      BY <2>2
    <3> QED
      BY <2>1, <3>1
  <2>3. CASE T \ {z} # {}
    <3>1. PICK x \in T \ {z} : \A y \in T \ {z} : f[x] <= f[y]
      BY <1>2, <2>3
    <3>2. \E u \in {x, z} : f[u] <= f[x] /\ f[u] <= f[z]
      <4>1. f[x] \in Int /\ f[z] \in Int
        OBVIOUS
      <4> QED
        BY <4>1
    <3>3. PICK u \in {x, z} : f[u] <= f[x] /\ f[u] <= f[z]
      BY <3>2
    <3>4. \A y \in T : f[u] <= f[y]
      <4> SUFFICES ASSUME NEW y \in T PROVE f[u] <= f[y]
        OBVIOUS
      <4>1. f[u] \in Int /\ f[x] \in Int /\ f[y] \in Int
        OBVIOUS
      <4>2. y = z \/ f[x] <= f[y]
        BY <3>1
      <4> QED
        BY <3>3, <4>1, <4>2
    <3> QED
      BY <3>4
  <2> QED
    BY <2>2, <2>3
<1>3. S \in Good
  <2> HIDE DEF Good
  <2> QED
    BY <1>1, <1>2, SubsetInduction
<1> QED
  BY <1>3

LEMMA ClosingInt ==
    ASSUME Fits, NEW a, NEW d PROVE ClosingOn(a, d) \in Int
<1> DEFINE before == {r \in rows : r.account = a /\ r.day <= d}
           f == [r \in before |-> Signed(r)]
<1>1. IsFiniteSet(before)
  BY FS_Subset DEF Fits
<1>2. \A r \in before : f[r] \in Int
  BY DEF Fits, FitRow, Signed
<1>3. ClosingOn(a, d) = SumFunctionOnSet(f, before)
  BY DEF ClosingOn, SumFunction
<1> HIDE DEF f, before
<1>4. SumFunctionOnSet(f, before) \in Int
  BY <1>1, <1>2, SumInt
<1> QED
  BY <1>3, <1>4

LEMMA InterestInt ==
    ASSUME Fits, NEW a \in Account, NEW month \in Int PROVE Interest(a, month) \in Int
<1> DEFINE p       == Product[a]
           days    == DaysOf(month)
           daily   == [d \in days |-> ClosingOn(a, d)]
           reached == {ClosingOn(a, d) : d \in days}
           lowest  == CHOOSE n \in reached : \A m \in reached : n <= m
           base    == IF p.lowest THEN lowest * DaysPerMonth ELSE SumFunction(daily)
<1>1. p.rate \in Nat /\ p.minimum \in Nat /\ DaysPerMonth \in Nat \ {0} /\ Year \in Nat \ {0}
  BY SavingsAssumption
<1>2. IsFiniteSet(days) /\ days # {}
  <2> DEFINE first == month * DaysPerMonth
             last  == first + DaysPerMonth - 1
  <2>1. first \in Int /\ last \in Int /\ first <= last
    BY <1>1
  <2>2. days = first..last
    BY DEF DaysOf
  <2> HIDE DEF first, last, days
  <2>3. IsFiniteSet(first..last)
    BY <2>1, FS_Interval
  <2>4. first \in first..last
    BY <2>1
  <2> QED
    BY <2>2, <2>3, <2>4
<1>3. \A d \in days : daily[d] \in Int /\ daily[d] = ClosingOn(a, d)
  BY ClosingInt
<1>4. lowest \in Int
  <2>1. \E d \in days : \A e \in days : daily[d] <= daily[e]
    <3> HIDE DEF days, daily
    <3> QED
      BY <1>2, <1>3, LeastExists
  <2>2. \E n \in reached : \A m \in reached : n <= m
    <3> HIDE DEF days
    <3> QED
      BY <1>3, <2>1
  <2>3. lowest \in reached
    BY <2>2
  <2> QED
    BY <1>3, <2>3
<1>5. SumFunction(daily) \in Int
  <2>1. SumFunction(daily) = SumFunctionOnSet(daily, days)
    BY DEF SumFunction
  <2> HIDE DEF daily, days
  <2>2. SumFunctionOnSet(daily, days) \in Int
    BY <1>2, <1>3, SumInt
  <2> QED
    BY <2>1, <2>2
<1>6. base \in Int
  <2> HIDE DEF lowest, daily
  <2> QED
    BY <1>1, <1>4, <1>5
<1>7. Interest(a, month) = IF base \div DaysPerMonth < p.minimum THEN 0
                           ELSE (2 * base * p.rate + Year) \div (2 * Year)
  BY DEF Interest
<1> HIDE DEF base, p
<1>8. (2 * base * p.rate + Year) \div (2 * Year) \in Int
  <2> DEFINE n == 2 * base * p.rate + Year
             y == 2 * Year
  <2>1. n \in Int /\ y \in Nat \ {0}
    BY <1>1, <1>6
  <2> HIDE DEF n, y
  <2>2. n \div y \in Int
    BY <2>1
  <2> QED
    BY <2>2 DEF n, y
<1> QED
  BY <1>7, <1>8

\* The days of a month before a day's are before it.
LEMMA DaysBefore ==
    ASSUME NEW day \in Nat, NEW month \in Int, month < MonthOf(day), NEW d \in DaysOf(month)
    PROVE  d \in Int /\ d < day
<1> DEFINE n == DaysPerMonth
           q == MonthOf(day)
<1>1. n \in Nat \ {0}
  BY SavingsAssumption
<1>2. q \in Nat /\ n * q <= day
  BY <1>1 DEF MonthOf
<1>3. d \in Int /\ d <= month * n + n - 1
  BY <1>1 DEF DaysOf
<1> HIDE DEF n, q
<1>4. n * (month + 1) <= n * q /\ n * (month + 1) = month * n + n
  <2>1. month + 1 <= q /\ month + 1 \in Int
    BY <1>2 DEF q
  <2> QED
    BY <1>1, <1>2, <2>1
<1> QED
  BY <1>1, <1>2, <1>3, <1>4

LEMMA LaterMonth ==
    ASSUME NEW d \in Nat, NEW e \in Nat, d <= e
    PROVE  MonthOf(d) \in Nat /\ MonthOf(e) \in Nat /\ MonthOf(d) <= MonthOf(e)
<1> DEFINE n == DaysPerMonth
           p == MonthOf(d)
           q == MonthOf(e)
<1>1. n \in Nat \ {0}
  BY SavingsAssumption
<1>2. p \in Nat /\ n * p <= d /\ q \in Nat /\ e < n * q + n
  BY <1>1 DEF MonthOf
<1> HIDE DEF n, p, q
<1>3. n * p < n * (q + 1)
  BY <1>1, <1>2
<1>4. p < q + 1
  BY <1>1, <1>2, <1>3
<1> QED
  BY <1>2, <1>4 DEF p, q

\* Rows dated after a month do not change its interest.
LEMMA InterestStays ==
    ASSUME Fits, NEW new, rows' = rows \cup new, NEW a, NEW month \in Int,
           \A r \in new : r.day \in Nat /\ month < MonthOf(r.day)
    PROVE  Interest(a, month)' = Interest(a, month)
<1>1. ASSUME NEW d \in DaysOf(month) PROVE ClosingOn(a, d)' = ClosingOn(a, d)
  <2>1. \A r \in new : d \in Int /\ d < r.day /\ r.day \in Nat
    BY DaysBefore
  <2>2. \A r \in new : ~(r.day <= d)
    BY <2>1
  <2>3. {r \in rows' : r.account = a /\ r.day <= d} = {r \in rows : r.account = a /\ r.day <= d}
    BY <2>2
  <2> QED
    BY <2>3 DEF ClosingOn
<1>2. [d \in DaysOf(month) |-> ClosingOn(a, d)'] = [d \in DaysOf(month) |-> ClosingOn(a, d)]
  BY <1>1
<1>3. {ClosingOn(a, d)' : d \in DaysOf(month)} = {ClosingOn(a, d) : d \in DaysOf(month)}
  BY <1>1
<1> DEFINE Of(daily, reached) ==
               LET lowest == CHOOSE n \in reached : \A m \in reached : n <= m
                   base   == IF Product[a].lowest THEN lowest * DaysPerMonth ELSE SumFunction(daily)
               IN  IF base \div DaysPerMonth < Product[a].minimum THEN 0
                   ELSE (2 * base * Product[a].rate + Year) \div (2 * Year)
<1>4. /\ Interest(a, month) = Of([d \in DaysOf(month) |-> ClosingOn(a, d)], {ClosingOn(a, d) : d \in DaysOf(month)})
      /\ Interest(a, month)' = Of([d \in DaysOf(month) |-> ClosingOn(a, d)'], {ClosingOn(a, d)' : d \in DaysOf(month)})
  BY DEF Interest
<1> HIDE DEF Of
<1> QED
  BY <1>2, <1>3, <1>4

\* The months a run pays are over, and each has interest.
LEMMA DueMonths ==
    ASSUME Inv, Fits, NEW p \in Poster, NEW a \in Account
    PROVE  LET due == Due(a, task[p].date)
           IN  /\ IsFiniteSet(due)
               /\ \A m \in due : /\ m \in Int /\ m < MonthOf(today)
                                 /\ Interest(a, m) \in Int /\ Interest(a, m) > 0
<1> DEFINE due  == Due(a, task[p].date)
           from == MonthOf(opened[a])
           to   == MonthOf(task[p].date) - 1
<1>1. task[p].date \in Nat /\ today \in Nat /\ task[p].date <= today /\ opened[a] \in Nat
  BY DEF Inv, Dated, Fits
<1>2. MonthOf(task[p].date) \in Nat /\ MonthOf(today) \in Nat /\ MonthOf(task[p].date) <= MonthOf(today)
  BY <1>1, LaterMonth
<1>3. from \in Nat
  BY <1>1, LaterMonth
<1>4. due \subseteq from..to /\ \A m \in due : Interest(a, m) > 0
  BY DEF Due
<1> HIDE DEF due
<1>5. IsFiniteSet(due)
  <2>1. IsFiniteSet(from..to)
    <3>1. from \in Int /\ to \in Int
      BY <1>2, <1>3
    <3> HIDE DEF from, to
    <3> QED
      BY <3>1, FS_Interval
  <2> HIDE DEF from, to
  <2> QED
    BY <1>4, <2>1, FS_Subset
<1>6. \A m \in due : m \in Int /\ m < MonthOf(today)
  BY <1>2, <1>3, <1>4
<1> QED
  BY <1>4, <1>5, <1>6, InterestInt DEF due

\* What a run posts to an account: nothing, or more than nothing.
LEMMA EarnedIs ==
    ASSUME Inv, Fits, NEW p \in Poster, NEW a \in Account
    PROVE  LET due == Due(a, task[p].date)
           IN  Earned(a, due) \in Nat /\ (Earned(a, due) = 0 => due = {})
<1> DEFINE due == Due(a, task[p].date)
           f == [m \in due |-> Interest(a, m)]
<1>1. IsFiniteSet(due) /\ \A m \in due : Interest(a, m) \in Int /\ Interest(a, m) > 0
  BY DueMonths
<1> HIDE DEF due
<1>2. \A m \in due : f[m] \in Nat /\ f[m] > 0
  BY <1>1
<1>3. Earned(a, due) = SumFunctionOnSet(f, due)
  BY DEF Earned, SumFunction
<1> HIDE DEF f
<1>4. SumFunctionOnSet(f, due) \in Nat
  BY <1>1, <1>2, SumNat
<1>5. \A m \in due : f[m] <= SumFunctionOnSet(f, due)
  BY <1>1, <1>2, SumBounds
<1>6. SumFunctionOnSet(f, due) = 0 => due = {}
  BY <1>2, <1>4, <1>5
<1> QED
  BY <1>3, <1>4, <1>6 DEF due

\* The rows of the interest that is due
LEMMA InterestRowsAre ==
    ASSUME Inv, Fits, NEW p \in Poster, NEW a \in Account
    PROVE  LET due == Due(a, task[p].date)
           IN  /\ IsFiniteSet(InterestRows(a, due))
               /\ \A r \in InterestRows(a, due) :
                     /\ FitRow(r) /\ r.kind = "INTEREST" /\ r.account = a /\ r.day = today
                     /\ r.key \in due /\ r.amount = Interest(a, r.key)
               /\ due = {} => InterestRows(a, due) = {}
<1> DEFINE due == Due(a, task[p].date)
           row(m) == [account |-> a, kind |-> "INTEREST", amount |-> Interest(a, m), day |-> today, key |-> m]
           f == [m \in due |-> row(m)]
           T == InterestRows(a, due)
<1>1. IsFiniteSet(due) /\ \A m \in due : m \in Int /\ Interest(a, m) \in Int
  BY DueMonths
<1> HIDE DEF due
<1>2. f \in Surjection(due, T)
  BY DEF InterestRows, Surjection
<1>3. IsFiniteSet(T)
  <2> HIDE DEF f, T
  <2> QED
    BY <1>1, <1>2, FS_Surjection
<1>4. \A r \in T : \E m \in due : r = row(m)
  BY DEF InterestRows
<1>5. ASSUME NEW m \in due
      PROVE  LET r == row(m) IN
             /\ FitRow(r) /\ r.kind = "INTEREST" /\ r.account = a /\ r.day = today
             /\ r.key \in due /\ r.amount = Interest(a, r.key)
  BY <1>1 DEF FitRow, RowKinds, Inv, Dated
<1>6. due = {} => T = {}
  BY DEF InterestRows
<1> HIDE DEF row, T
<1> QED
  BY <1>3, <1>4, <1>5, <1>6 DEF T, due

LEMMA PostingFits ==
    ASSUME Inv, Fits, Timely, today' = today,
           NEW a, NEW kind, NEW amount, NEW k, NEW s, Posting(a, kind, amount, k, s)
    PROVE  Fits'
<1> DEFINE row == [account |-> a, kind |-> kind, amount |-> amount, day |-> today, key |-> k]
<1>0. a \in Account /\ amount \in Nat \ {0} /\ k \notin Int /\ today \in Nat
      /\ kind \in {"DEPOSIT", "WITHDRAWAL", "PAYOUT_REFUND"}
  BY DEF Posting, Inv, Dated
<1>1. /\ rows' = rows \cup {row} /\ Valid(s, balance[a] + Signed(row))
      /\ balance' = [balance EXCEPT ![a] = @ + Signed(row)] /\ status' = [status EXCEPT ![a] = s]
  BY DEF Posting, Post
<1>2. FitRow(row) /\ row.day = today /\ Signed(row) \in Int
  BY <1>0 DEF FitRow, RowKinds, Signed
<1> HIDE DEF row
<1>3. IsFiniteSet(rows') /\ \A r \in rows' : FitRow(r) /\ r.day <= today
  <2>1. IsFiniteSet(rows \cup {row})
    BY FS_AddElement DEF Fits
  <2> QED
    BY <1>0, <1>1, <1>2, <2>1 DEF Fits
<1>4. balance[a] + Signed(row) \in Nat /\ (s = "CLOSED" => balance[a] + Signed(row) = 0)
  BY <1>0, <1>1, <1>2 DEF Fits, Valid
<1>5. balance' \in [Account -> Nat] /\ \A b \in Account : status'[b] = "CLOSED" => balance'[b] = 0
  BY <1>0, <1>1, <1>4 DEF Fits
<1>6. status' = [b \in Account |-> status'[b]]
  BY <1>1 DEF Fits
<1> QED
  BY <1>3, <1>5, <1>6 DEF Fits, Timely, FitRow

LEMMA InterestFits ==
    ASSUME Inv, Fits, Timely, NEW p \in Poster, NEW a \in Account, PostInterest(p, a)
    PROVE  Fits'
<1> DEFINE due == Due(a, task[p].date)
           new == InterestRows(a, due)
           earned == Earned(a, due)
           s == IF status[a] = "ACTIVE" /\ activity[a] + Dormancy < task[p].date THEN "DORMANT" ELSE status[a]
<1>1. IsFiniteSet(new) /\ \A r \in new : FitRow(r) /\ r.day = today
  BY InterestRowsAre
<1>2. earned \in Nat
  BY EarnedIs
<1>3. /\ rows' = rows \cup new /\ Valid(status[a], balance[a] + earned)
      /\ balance' = [balance EXCEPT ![a] = @ + earned] /\ status' = [status EXCEPT ![a] = s]
      /\ today' = today
  BY DEF PostInterest, Accepted
<1>4. s = "CLOSED" => status[a] = "CLOSED"
  OBVIOUS
<1> HIDE DEF due, new, earned, s
<1>5. IsFiniteSet(rows') /\ \A r \in rows' : FitRow(r) /\ r.day <= today
  <2>1. IsFiniteSet(rows \cup new)
    BY <1>1, FS_Union DEF Fits
  <2>2. today \in Nat
    BY DEF Inv, Dated
  <2> QED
    BY <1>1, <1>3, <2>1, <2>2 DEF Fits
<1>6. balance' \in [Account -> Nat] /\ \A b \in Account : status'[b] = "CLOSED" => balance'[b] = 0
  BY <1>2, <1>3, <1>4 DEF Fits, Valid
<1>7. status' = [b \in Account |-> status'[b]]
  BY <1>3 DEF Fits
<1> QED
  BY <1>3, <1>5, <1>6, <1>7 DEF Fits, Timely, FitRow

LEMMA NextFits == ASSUME Inv, Fits, [Next]_vars PROVE Fits'
<1>1. Timely
  BY StepsAreTimely
<1>2. CASE Quiet
  <2>1. \A r \in rows : r.day \in Nat /\ r.day <= today /\ today \in Nat /\ today' \in Nat /\ today <= today'
    BY <1>1 DEF Fits, FitRow, Timely, Inv, Dated
  <2>2. \A r \in rows' : FitRow(r) /\ r.day <= today'
    BY <1>2, <2>1 DEF Quiet, Fits
  <2> QED
    BY <1>1, <1>2, <2>2 DEF Quiet, Fits, Timely, FitRow
<1> QED
  BY <1>1, <1>2, StepsAre, PostingFits, InterestFits

LEMMA Invariance == Spec => []Inv /\ []Fits
  BY InitInv, StepInv, InitFits, NextFits, PTL DEF Spec

-----------------------------------------------------------------------------
\* What is paid of a month stays true of it: whatever is dated later is in a
\* later month.

LEMMA InterestEarnedInv ==
    ASSUME Inv, Fits, InterestIsEarned, [Next]_vars PROVE InterestIsEarned'
<1>0. today \in Nat /\ \A r \in rows : FitRow(r) /\ r.day <= today
  BY DEF Inv, Dated, Fits
<1>1. ASSUME NEW new, rows' = rows \cup new, \A r \in new : r.day = today,
             \A r \in new : r.kind = "INTEREST" => /\ r.key \in Int /\ r.key < MonthOf(today)
                                                   /\ r.amount = Interest(r.account, r.key)
      PROVE  InterestIsEarned'
  <2> SUFFICES ASSUME NEW r \in rows', r.kind = "INTEREST"
               PROVE  r.key < MonthOf(r.day) /\ r.amount = Interest(r.account, r.key)'
    BY DEF InterestIsEarned
  <2>1. r.key \in Int /\ r.key < MonthOf(r.day) /\ r.key < MonthOf(today)
        /\ r.amount = Interest(r.account, r.key)
    <3>1. CASE r \in new
      BY <1>1, <3>1
    <3>2. CASE r \in rows
      <4>1. r.key \in Int /\ r.key < MonthOf(r.day) /\ r.day \in Nat /\ r.day <= today
            /\ r.amount = Interest(r.account, r.key)
        BY <1>0, <3>2 DEF FitRow, InterestIsEarned
      <4>2. MonthOf(r.day) \in Nat /\ MonthOf(today) \in Nat /\ MonthOf(r.day) <= MonthOf(today)
        BY <1>0, <4>1, LaterMonth
      <4> QED
        BY <4>1, <4>2
    <3> QED
      BY <1>1, <3>1, <3>2
  <2>2. \A x \in new : x.day \in Nat /\ r.key < MonthOf(x.day)
    BY <1>0, <1>1, <2>1
  <2>3. Interest(r.account, r.key)' = Interest(r.account, r.key)
    <3> DEFINE a == r.account
               m == r.key
    <3>1. m \in Int /\ \A x \in new : x.day \in Nat /\ m < MonthOf(x.day)
      BY <2>1, <2>2
    <3> HIDE DEF a, m
    <3>2. Interest(a, m)' = Interest(a, m)
      BY <1>1, <3>1, InterestStays
    <3> QED
      BY <3>2 DEF a, m
  <2> QED
    BY <2>1, <2>3
<1>2. ASSUME NEW a, NEW kind, NEW amount, NEW k, NEW s, Posting(a, kind, amount, k, s) PROVE InterestIsEarned'
  <2> DEFINE row == [account |-> a, kind |-> kind, amount |-> amount, day |-> today, key |-> k]
             new == {row}
  <2>1. rows' = rows \cup new /\ \A r \in new : r.day = today /\ r.kind # "INTEREST"
    BY <1>2 DEF Posting, Post
  <2> HIDE DEF new
  <2> QED
    BY <1>1, <2>1
<1>3. CASE Quiet
  <2> DEFINE new == {}
  <2>1. rows' = rows \cup new /\ \A r \in new : r.day = today /\ r.kind # "INTEREST"
    BY <1>3 DEF Quiet
  <2> HIDE DEF new
  <2> QED
    BY <1>1, <2>1
<1>4. ASSUME NEW p \in Poster, NEW a \in Account, PostInterest(p, a) PROVE InterestIsEarned'
  <2> DEFINE due == Due(a, task[p].date)
             new == InterestRows(a, due)
  <2>1. rows' = rows \cup new
    BY <1>4 DEF PostInterest
  <2>2. \A m \in due : m \in Int /\ m < MonthOf(today)
    BY DueMonths
  <2>3. \A r \in new : r.account = a /\ r.day = today /\ r.key \in due /\ r.amount = Interest(a, r.key)
    BY InterestRowsAre
  <2> HIDE DEF new, due
  <2> QED
    BY <1>1, <2>1, <2>2, <2>3
<1> QED
  BY <1>2, <1>3, <1>4, StepsAre

\* Interest is what its month earned by the rows as they are now: nothing is
\* ever dated into a month that was paid for, and no month is paid before it is
\* over (runInterestPosting).
THEOREM InterestStaysEarned == Spec => []InterestIsEarned
<1>1. Init => InterestIsEarned
  BY DEF Init, InterestIsEarned
<1> QED
  BY <1>1, InterestEarnedInv, Invariance, PTL DEF Spec

\* A closed account stays closed and nothing is posted to it: interest of it is
\* none, and what comes back to it is refused (postTx, savings_accounts_valid).
THEOREM ClosedAccountsAreFinal == Spec => ClosedIsFinal
<1>1. ASSUME Inv, Fits, [Next]_vars, NEW b \in Account, status[b] = "CLOSED"
      PROVE  status'[b] = "CLOSED" /\ {r \in rows' : r.account = b} = RowsOf(b)
  <2>1. CASE Quiet
    BY <1>1, <2>1 DEF Quiet, RowsOf
  <2>2. ASSUME NEW a, NEW kind, NEW amount, NEW k, NEW s, Posting(a, kind, amount, k, s)
        PROVE  status'[b] = "CLOSED" /\ {r \in rows' : r.account = b} = RowsOf(b)
    <3> DEFINE row == [account |-> a, kind |-> kind, amount |-> amount, day |-> today, key |-> k]
    <3>1. rows' = rows \cup {row} /\ row.account = a /\ status' = [status EXCEPT ![a] = s]
      BY <2>2 DEF Posting, Post
    <3>2. a # b
      <4> SUFFICES ASSUME a = b PROVE FALSE
        OBVIOUS
      <4>1. balance[b] = 0 /\ s = "CLOSED" /\ amount \in Nat \ {0}
        BY <1>1, <2>2 DEF Fits, Posting
      <4>2. Signed(row) = amount \/ Signed(row) = 0 - amount
        BY DEF Signed
      <4>3. balance[b] + Signed(row) = 0
        BY <2>2, <4>1 DEF Posting, Post, Valid
      <4> HIDE DEF row
      <4> QED
        BY <4>1, <4>2, <4>3
    <3> HIDE DEF row
    <3> QED
      BY <1>1, <3>1, <3>2 DEF RowsOf, Fits
  <2>3. ASSUME NEW p \in Poster, NEW a \in Account, PostInterest(p, a)
        PROVE  status'[b] = "CLOSED" /\ {r \in rows' : r.account = b} = RowsOf(b)
    <3> DEFINE due == Due(a, task[p].date)
               new == InterestRows(a, due)
    <3>1. rows' = rows \cup new /\ Valid(status[a], balance[a] + Earned(a, due))
      BY <2>3 DEF PostInterest, Accepted
    <3>2. status'[b] = "CLOSED"
      BY <1>1, <2>3 DEF PostInterest, Fits
    <3>3. /\ Earned(a, due) \in Nat /\ (Earned(a, due) = 0 => due = {})
          /\ (due = {} => new = {}) /\ \A r \in new : r.account = a
      BY <1>1, EarnedIs, InterestRowsAre
    <3> HIDE DEF due, new
    <3>4. a = b => new = {}
      BY <1>1, <3>1, <3>3 DEF Fits, Valid
    <3> QED
      BY <3>1, <3>2, <3>3, <3>4 DEF RowsOf
  <2> QED
    BY <1>1, <2>1, <2>2, <2>3, StepsAre
<1>2. Inv /\ Fits /\ [Next]_vars => [\A a \in Account : status[a] = "CLOSED" =>
          status'[a] = "CLOSED" /\ {r \in rows' : r.account = a} = RowsOf(a)]_vars
  BY <1>1
<1> QED
  BY <1>2, Invariance, PTL DEF Spec, ClosedIsFinal

-----------------------------------------------------------------------------
\* The monthly limit

\* A key names one withdrawal and what came back of it.
KeysTell ==
    /\ \A r, s \in rows : r.kind = s.kind /\ r.kind \in {"WITHDRAWAL", "PAYOUT_REFUND"} /\ r.key = s.key => r = s
    /\ \A r \in rows : r.kind = "PAYOUT_REFUND" =>
          \E w \in rows : w.kind = "WITHDRAWAL" /\ w.key = r.key /\ w.account = r.account /\ w.day <= r.day

LimitBends ==
    \A a \in Account, m \in Nat : status[a] # "CLOSED" =>
        Cardinality(Kept(a, m)) <= Product[a].perMonth + Cardinality(LateRefunds(a, m))

LEMMA KeysInv == ASSUME Inv, Fits, KeysTell, [Next]_vars PROVE KeysTell'
<1>0. today \in Nat /\ \A r \in rows : FitRow(r) /\ r.day <= today
  BY DEF Inv, Dated, Fits
<1>1. CASE Quiet
  BY <1>1 DEF Quiet, KeysTell
<1>2. ASSUME NEW p \in Poster, NEW a \in Account, PostInterest(p, a) PROVE KeysTell'
  <2> DEFINE new == InterestRows(a, Due(a, task[p].date))
  <2>1. rows' = rows \cup new /\ \A r \in new : r.kind = "INTEREST"
    BY <1>2, InterestRowsAre DEF PostInterest
  <2> HIDE DEF new
  <2> QED
    BY <2>1 DEF KeysTell
<1>3. ASSUME NEW a, NEW kind, NEW amount, NEW k, NEW s, Posting(a, kind, amount, k, s) PROVE KeysTell'
  <2> DEFINE row == [account |-> a, kind |-> kind, amount |-> amount, day |-> today, key |-> k]
  <2>1. rows' = rows \cup {row} /\ row.kind = kind /\ row.key = k /\ row.account = a /\ row.day = today
    BY <1>3 DEF Posting, Post
  <2> HIDE DEF row
  <2>2. \A r \in rows : r.kind = kind /\ kind \in {"WITHDRAWAL", "PAYOUT_REFUND"} => r.key # k
    BY <1>3 DEF Posting, Fresh
  <2>3. kind = "PAYOUT_REFUND" => \E w \in rows : /\ w.kind = "WITHDRAWAL" /\ w.key = k
                                                  /\ w.account = a /\ w.day <= today
    BY <1>0, <1>3 DEF Posting
  <2>4. \A r, x \in rows' : r.kind = x.kind /\ r.kind \in {"WITHDRAWAL", "PAYOUT_REFUND"} /\ r.key = x.key => r = x
    BY <2>1, <2>2 DEF KeysTell
  <2>5. \A r \in rows' : r.kind = "PAYOUT_REFUND" =>
            \E w \in rows' : w.kind = "WITHDRAWAL" /\ w.key = r.key /\ w.account = r.account /\ w.day <= r.day
    BY <2>1, <2>3 DEF KeysTell
  <2> QED
    BY <2>4, <2>5 DEF KeysTell
<1> QED
  BY <1>1, <1>2, <1>3, StepsAre

\* Among the withdrawals of a month the rules count, and what came back in it,
\* those that are kept are no more than the difference and the late refunds.
LEMMA CountIsKept ==
    ASSUME Inv, Fits, KeysTell, NEW a \in Account, WithdrawalsThisMonth(a) < Product[a].perMonth
    PROVE  LET m == MonthOf(today)
           IN  Cardinality(Kept(a, m)) < Product[a].perMonth + Cardinality(LateRefunds(a, m))
<1> DEFINE m == MonthOf(today)
           start == m * DaysPerMonth
           W == {r \in RowsOf(a) : r.kind = "WITHDRAWAL" /\ r.day >= start}
           R == {r \in RowsOf(a) : r.kind = "PAYOUT_REFUND" /\ r.day >= start}
           kept == Kept(a, m)
           late == LateRefunds(a, m)
           back == W \ kept
           ontime == R \ late
           per == Product[a].perMonth
<1>0. today \in Nat /\ DaysPerMonth \in Nat \ {0} /\ per \in Nat
  BY SavingsAssumption DEF Inv, Dated
<1>1. \A r \in rows : FitRow(r) /\ r.day \in Nat /\ r.day <= today
  BY DEF Fits, FitRow
<1>2. \A day \in Nat : day <= today => (day >= start <=> MonthOf(day) = m)
  <2> SUFFICES ASSUME NEW day \in Nat, day <= today PROVE day >= start <=> MonthOf(day) = m
    OBVIOUS
  <2> DEFINE n == DaysPerMonth
             q == MonthOf(day)
  <2>1. q \in Nat /\ m \in Nat /\ q <= m
    BY <1>0, LaterMonth
  <2>2. n \in Nat \ {0} /\ start = n * m
    BY <1>0, <2>1
  <2>3. n * q <= day /\ day < n * q + n
    BY <2>2 DEF MonthOf
  <2> HIDE DEF n, q, m, start
  <2>4. q < m => day < start
    <3> SUFFICES ASSUME q < m PROVE day < start
      OBVIOUS
    <3>1. n * (q + 1) <= n * m
      BY <2>1, <2>2
    <3>2. n * (q + 1) = n * q + n /\ n * q \in Int /\ n * m \in Int
      BY <2>1, <2>2
    <3> QED
      BY <2>2, <2>3, <3>1, <3>2
  <2>5. q = m => day >= start
    BY <2>2, <2>3
  <2>6. start \in Int
    BY <2>1, <2>2
  <2> QED
    BY <2>1, <2>4, <2>5, <2>6 DEF q
<1> HIDE DEF start
<1>3. RowsOf(a) = {r \in rows : r.account = a}
  BY DEF RowsOf
<1>4. /\ W = {r \in RowsOf(a) : r.kind = "WITHDRAWAL" /\ MonthOf(r.day) = m}
      /\ R = {r \in RowsOf(a) : r.kind = "PAYOUT_REFUND" /\ MonthOf(r.day) = m}
  BY <1>1, <1>2, <1>3
<1>5. kept \subseteq W /\ late \subseteq R
  BY <1>4 DEF Kept, LateRefunds
<1>6. IsFiniteSet(W) /\ IsFiniteSet(R)
  <2>1. W \subseteq rows /\ R \subseteq rows
    BY <1>3
  <2> HIDE DEF W, R
  <2> QED
    BY <2>1, FS_Subset DEF Fits
\* What came back in time came back of this month's.
<1>7. \A r \in ontime : \E w \in back : w.key = r.key
  <2> SUFFICES ASSUME NEW r \in ontime PROVE \E w \in back : w.key = r.key
    OBVIOUS
  <2>1. r \in rows /\ r.account = a /\ r.kind = "PAYOUT_REFUND" /\ MonthOf(r.day) = m
    BY <1>3, <1>4
  <2>2. PICK w \in rows : w.kind = "WITHDRAWAL" /\ w.key = r.key /\ w.account = a /\ w.day <= r.day
    BY <2>1 DEF KeysTell
  <2>3. w.day \in Nat /\ MonthOf(w.day) \in Nat /\ m \in Nat /\ MonthOf(w.day) <= m
    <3>1. w.day \in Nat /\ r.day \in Nat
      BY <1>1, <2>1
    <3> QED
      BY <2>1, <2>2, <3>1, LaterMonth
  <2>4. w \in RowsOf(a)
    BY <1>3, <2>2
  <2>5. ~(MonthOf(w.day) < m)
    BY <1>3, <1>4, <2>1, <2>2, <2>4 DEF LateRefunds
  <2>6. w \in W
    BY <1>4, <2>2, <2>3, <2>4, <2>5
  <2>7. w \notin kept
    BY <2>1, <2>2 DEF Kept
  <2> QED
    BY <2>2, <2>6, <2>7
<1>8. \A r, s \in ontime : r.key = s.key => r = s
  BY <1>3 DEF KeysTell
<1>9. Cardinality(ontime) <= Cardinality(back) /\ IsFiniteSet(back)
  <2> DEFINE f == [r \in ontime |-> CHOOSE w \in back : w.key = r.key]
  <2> HIDE DEF ontime, back
  <2>1. \A r \in ontime : f[r] \in back /\ f[r].key = r.key
    BY <1>7
  <2>2. f \in Injection(ontime, back)
    <3>1. f \in [ontime -> back]
      BY <2>1
    <3>2. \A r, s \in ontime : f[r] = f[s] => r = s
      BY <1>8, <2>1
    <3> HIDE DEF f
    <3> QED
      BY <3>1, <3>2 DEF Injection, IsInjective
  <2>3. IsFiniteSet(back)
    BY <1>6, FS_Subset DEF back
  <2> HIDE DEF f
  <2> QED
    BY <2>2, <2>3, FS_Injection
<1>10. /\ Cardinality(W) = Cardinality(kept) + Cardinality(back)
       /\ Cardinality(R) = Cardinality(late) + Cardinality(ontime)
       /\ Cardinality(kept) \in Nat /\ Cardinality(back) \in Nat
       /\ Cardinality(late) \in Nat /\ Cardinality(ontime) \in Nat
  <2> HIDE DEF W, R, kept, late
  <2>1. ASSUME NEW S, IsFiniteSet(S), NEW T, T \subseteq S
        PROVE  Cardinality(S) = Cardinality(T) + Cardinality(S \ T)
               /\ Cardinality(T) \in Nat /\ Cardinality(S \ T) \in Nat
    <3>1. IsFiniteSet(T) /\ IsFiniteSet(S \ T) /\ T \cup (S \ T) = S /\ T \cap (S \ T) = {}
      BY <2>1, FS_Subset
    <3>2. Cardinality(T \cup (S \ T)) = Cardinality(T) + Cardinality(S \ T) - Cardinality(T \cap (S \ T))
      BY <3>1, FS_Union
    <3>3. Cardinality({}) = 0 /\ Cardinality(T) \in Nat /\ Cardinality(S \ T) \in Nat
      BY <3>1, FS_EmptySet, FS_CardinalityType
    <3>4. Cardinality(S) = Cardinality(T) + Cardinality(S \ T) - 0
      BY <3>1, <3>2, <3>3
    <3> QED
      BY <3>3, <3>4
  <2> QED
    BY <1>5, <1>6, <2>1
<1>11. Cardinality(W) - Cardinality(R) < per
  <2> DEFINE n == Cardinality(W) - Cardinality(R)
  <2>1. WithdrawalsThisMonth(a) = IF n < 0 THEN 0 ELSE n
    BY DEF WithdrawalsThisMonth, start
  <2>2. n \in Int
    BY <1>10
  <2> HIDE DEF n, per
  <2>3. (IF n < 0 THEN 0 ELSE n) < per
    BY <2>1 DEF per
  <2>4. n < per
    BY <1>0, <2>2, <2>3
  <2> QED
    BY <2>4 DEF n
<1> HIDE DEF W, R, kept, late, back, ontime, per
<1>12. Cardinality(kept) < per + Cardinality(late)
  BY <1>0, <1>9, <1>10, <1>11
<1> QED
  BY <1>12 DEF kept, late, per

\* Rows that are no withdrawals of an account leave it within its limit.
LEMMA OthersBend ==
    ASSUME Fits, NEW new, rows' = rows \cup new, IsFiniteSet(rows'), NEW a \in Account, NEW m \in Nat,
           \A r \in new : ~(r.kind = "WITHDRAWAL" /\ r.account = a /\ MonthOf(r.day) = m),
           Cardinality(Kept(a, m)) <= Product[a].perMonth + Cardinality(LateRefunds(a, m))
    PROVE  Cardinality(Kept(a, m)') <= Product[a].perMonth + Cardinality(LateRefunds(a, m)')
<1> DEFINE K == Kept(a, m)
           L == LateRefunds(a, m)
<1>1. K' \subseteq K /\ L \subseteq L'
  BY DEF Kept, LateRefunds, RowsOf
<1>2. K \subseteq rows /\ L' \subseteq rows'
  BY DEF Kept, LateRefunds, RowsOf
<1> HIDE DEF K, L
<1>3. /\ IsFiniteSet(K) /\ IsFiniteSet(L')
      /\ Cardinality(K') <= Cardinality(K) /\ Cardinality(L) <= Cardinality(L')
  <2>1. IsFiniteSet(K) /\ IsFiniteSet(L')
    BY <1>2, FS_Subset DEF Fits
  <2> QED
    BY <1>1, <2>1, FS_Subset
<1>4. /\ Cardinality(K) \in Nat /\ Cardinality(K') \in Nat /\ Cardinality(L) \in Nat
      /\ Cardinality(L') \in Nat /\ Product[a].perMonth \in Nat
  <2>1. IsFiniteSet(K') /\ IsFiniteSet(L)
    BY <1>1, <1>3, FS_Subset
  <2> QED
    BY <1>3, <2>1, FS_CardinalityType, SavingsAssumption
<1>5. Cardinality(K) <= Product[a].perMonth + Cardinality(L)
  BY DEF K, L
<1>6. Cardinality(K') <= Product[a].perMonth + Cardinality(L')
  BY <1>3, <1>4, <1>5
<1> QED
  BY <1>6 DEF K, L

\* A withdrawal is one more at most.
LEMMA WithdrawalBends ==
    ASSUME Inv, Fits, KeysTell, LimitBends, NEW a \in Account, NEW m \in Nat, IsFiniteSet(rows'),
           NEW row, rows' = rows \cup {row}, row.day = today, row.account = a, row.kind = "WITHDRAWAL",
           MayWithdraw(a, row.amount)
    PROVE  Cardinality(Kept(a, m)') <= Product[a].perMonth + Cardinality(LateRefunds(a, m)')
<1>1. status[a] # "CLOSED"
  BY DEF MayWithdraw
<1>2. CASE m # MonthOf(today)
  <2>1. Cardinality(Kept(a, m)) <= Product[a].perMonth + Cardinality(LateRefunds(a, m))
    BY <1>1 DEF LimitBends
  <2> DEFINE new == {row}
  <2>2. \A r \in new : ~(r.kind = "WITHDRAWAL" /\ r.account = a /\ MonthOf(r.day) = m)
    BY <1>2
  <2>3. rows' = rows \cup new
    OBVIOUS
  <2> HIDE DEF new
  <2> QED
    BY <2>1, <2>2, <2>3, OthersBend
<1>3. CASE m = MonthOf(today)
  <2> DEFINE K == Kept(a, m)
             L == LateRefunds(a, m)
             per == Product[a].perMonth
  <2>1. WithdrawalsThisMonth(a) < Product[a].perMonth
    BY DEF MayWithdraw
  <2>2. Cardinality(K) < per + Cardinality(L)
    BY <1>3, <2>1, CountIsKept
  <2>3. K' \subseteq K \cup {row} /\ L \subseteq L' /\ K \subseteq rows /\ L' \subseteq rows'
    BY DEF Kept, LateRefunds, RowsOf
  <2> HIDE DEF K, L
  <2>4. IsFiniteSet(K) /\ IsFiniteSet(L')
    BY <2>3, FS_Subset DEF Fits
  <2>5. IsFiniteSet(K \cup {row}) /\ Cardinality(K \cup {row}) <= Cardinality(K) + 1
        /\ Cardinality(K) \in Nat /\ Cardinality(K \cup {row}) \in Nat
    <3>1. IsFiniteSet(K)
      BY <2>4
    <3>2. /\ IsFiniteSet(K \cup {row})
          /\ Cardinality(K \cup {row}) = IF row \in K THEN Cardinality(K) ELSE Cardinality(K) + 1
      BY ONLY <3>1, FS_AddElement
    <3>3. Cardinality(K) \in Nat
      BY ONLY <3>1, FS_CardinalityType
    <3>4. Cardinality(K \cup {row}) \in Nat
      BY ONLY <3>2, FS_CardinalityType
    <3> QED
      BY ONLY <3>2, <3>3, <3>4
  <2>6. Cardinality(K') <= Cardinality(K \cup {row}) /\ IsFiniteSet(K')
    BY <2>3, <2>5, FS_Subset
  <2>7. Cardinality(L) <= Cardinality(L') /\ IsFiniteSet(L)
    BY <2>3, <2>4, FS_Subset
  <2>8. Cardinality(K') \in Nat /\ Cardinality(L) \in Nat /\ Cardinality(L') \in Nat /\ per \in Nat
    BY <2>4, <2>6, <2>7, FS_CardinalityType, SavingsAssumption
  <2> HIDE DEF per
  <2>9. Cardinality(K') <= per + Cardinality(L')
    BY <2>2, <2>5, <2>6, <2>7, <2>8
  <2> QED
    BY <2>9 DEF K, L, per
<1> QED
  BY <1>2, <1>3

LEMMA LimitInv == ASSUME Inv, Fits, KeysTell, LimitBends, [Next]_vars PROVE LimitBends'
<1>0. IsFiniteSet(rows')
  BY NextFits DEF Fits
<1> SUFFICES ASSUME NEW b \in Account, NEW m \in Nat, status'[b] # "CLOSED"
             PROVE  Cardinality(Kept(b, m)') <= Product[b].perMonth + Cardinality(LateRefunds(b, m)')
  BY DEF LimitBends
<1>1. ASSUME status[b] # "CLOSED", NEW new, rows' = rows \cup new,
             \A r \in new : ~(r.kind = "WITHDRAWAL" /\ r.account = b /\ MonthOf(r.day) = m)
      PROVE  Cardinality(Kept(b, m)') <= Product[b].perMonth + Cardinality(LateRefunds(b, m)')
  <2>1. Cardinality(Kept(b, m)) <= Product[b].perMonth + Cardinality(LateRefunds(b, m))
    BY <1>1 DEF LimitBends
  <2> QED
    BY <1>0, <1>1, <2>1, OthersBend
<1>2. CASE Quiet
  <2> DEFINE new == {}
  <2>1. rows' = rows \cup new /\ status[b] # "CLOSED"
        /\ \A r \in new : ~(r.kind = "WITHDRAWAL" /\ r.account = b /\ MonthOf(r.day) = m)
    BY <1>2 DEF Quiet
  <2> HIDE DEF new
  <2> QED
    BY <1>1, <2>1
<1>3. ASSUME NEW p \in Poster, NEW a \in Account, PostInterest(p, a)
      PROVE  Cardinality(Kept(b, m)') <= Product[b].perMonth + Cardinality(LateRefunds(b, m)')
  <2> DEFINE new == InterestRows(a, Due(a, task[p].date))
  <2>1. rows' = rows \cup new /\ \A r \in new : r.kind = "INTEREST"
    BY <1>3, InterestRowsAre DEF PostInterest
  <2>2. status[b] # "CLOSED"
    BY <1>3 DEF PostInterest, Fits
  <2> HIDE DEF new
  <2>3. \A r \in new : ~(r.kind = "WITHDRAWAL" /\ r.account = b /\ MonthOf(r.day) = m)
    BY <2>1
  <2> QED
    BY <1>1, <2>1, <2>2, <2>3
<1>4. ASSUME NEW a, NEW kind, NEW amount, NEW k, NEW s, Posting(a, kind, amount, k, s)
      PROVE  Cardinality(Kept(b, m)') <= Product[b].perMonth + Cardinality(LateRefunds(b, m)')
  <2> DEFINE row == [account |-> a, kind |-> kind, amount |-> amount, day |-> today, key |-> k]
             new == {row}
  <2>1. /\ rows' = rows \cup {row} /\ row.day = today /\ row.account = a /\ row.kind = kind
        /\ row.amount = amount /\ status' = [status EXCEPT ![a] = s] /\ a \in Account
        /\ status = [c \in Account |-> status[c]] /\ (status[a] = "CLOSED" => s = "CLOSED")
    BY <1>4 DEF Posting, Post, Fits
  <2> HIDE DEF row
  <2>2. status[b] # "CLOSED"
    BY <2>1
  <2>3. CASE kind = "WITHDRAWAL" /\ a = b
    <3>1. MayWithdraw(b, row.amount)
      BY <1>4, <2>1, <2>3 DEF Posting
    <3> QED
      BY <1>0, <2>1, <2>3, <3>1, WithdrawalBends
  <2>4. CASE ~(kind = "WITHDRAWAL" /\ a = b)
    <3>1. rows' = rows \cup new /\ \A r \in new : ~(r.kind = "WITHDRAWAL" /\ r.account = b /\ MonthOf(r.day) = m)
      BY <2>1, <2>4
    <3> HIDE DEF new
    <3> QED
      BY <1>1, <2>2, <3>1
  <2> QED
    BY <2>3, <2>4
<1> QED
  BY <1>2, <1>3, <1>4, StepsAre

\* Within a month an account that is open gave out no more withdrawals that were
\* kept than its product allows and the payouts of earlier months that came back
\* in it (withdrawalsThisMonth, checkWithdrawal).
THEOREM LimitBendsNoFurther == Spec => []MonthlyLimitBends
<1>1. Init => KeysTell /\ LimitBends
  <2> SUFFICES ASSUME Init PROVE KeysTell /\ LimitBends
    OBVIOUS
  <2>1. KeysTell
    BY DEF Init, KeysTell
  <2>2. \A a, m : Kept(a, m) = {} /\ LateRefunds(a, m) = {}
    BY DEF Init, Kept, LateRefunds, RowsOf
  <2>3. Cardinality({}) = 0 /\ \A a \in Account : Product[a].perMonth \in Nat
    BY FS_EmptySet, SavingsAssumption
  <2> QED
    BY <2>1, <2>2, <2>3 DEF LimitBends
<1>2. LimitBends => MonthlyLimitBends
  <2> SUFFICES ASSUME LimitBends, NEW a \in Account, NEW m \in 0..MonthOf(LastDay), IsOpen(a)
               PROVE  Cardinality(Kept(a, m)) <= Product[a].perMonth + Cardinality(LateRefunds(a, m))
    BY DEF MonthlyLimitBends
  <2>1. m \in Nat
    OBVIOUS
  <2> QED
    BY <2>1 DEF LimitBends, IsOpen
<1> QED
  BY <1>1, <1>2, KeysInv, LimitInv, Invariance, PTL DEF Spec
===============================================================================
