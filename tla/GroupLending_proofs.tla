-------------------------- MODULE GroupLending_proofs --------------------------
(***************************************************************************)
(* Proofs about GroupLending, for any number of persons, loans and covers: *)
(* guarantees stand, no debt is left without its group, an active group    *)
(* keeps its size, and amounts stay within what was lent and collected.    *)
(***************************************************************************)
EXTENDS GroupLending, Sums

Decided   == {"Approved", "Active", "Closed"}
Payments  == [from : {"MEMBER", "FUND"}, applied : Int]
Row       == [status : Open \cup {"NONE", "Closed", "ENDED"}, by : Person \cup {NoOne},
              linked : BOOLEAN, owes : Int, overdue : Int, payments : Seq(Payments)]
CoverRow  == [status : {"NONE", "OUTSTANDING", "REPAID"}, loan : Loan \cup {NoLoan}, left : Int]

\* What the variables look like; amounts are not bounded here.
Shape ==
    /\ status \in {"FORMING", "ACTIVE", "SUSPENDED", "DISSOLVED"}
    /\ role \in [Person -> Role \cup {"NONE"}]
    /\ loan \in [Loan -> Row]
    /\ consent \in [Loan -> SUBSET Person] /\ guarantors \in [Loan -> SUBSET Person]
    /\ filing \in [Loan -> {"IDLE", "CHECKED", "MEMBER", "STRANGER"}]
    /\ cover \in [Cover -> CoverRow]
    /\ covering \in [loan : Loan, amount : Int] \cup {NotCovering}
    /\ reopened \subseteq Loan

\* An application holds the lock of a loan that was not submitted yet.
FilingsAreNew == \A l \in Loan : filing[l] # "IDLE" => loan[l].status \in {"NONE", "Draft"}

\* A cover is owed for a loan that was released.
CoversAreOnLoans == \A c \in Outstanding :
    cover[c].loan \in Loan /\ loan[cover[c].loan].status \in {"Active", "Closed"}

IndInv == /\ Shape /\ FilingsAreNew /\ CoversAreOnLoans
          /\ covering # NotCovering => FundUsable
          /\ GuaranteesStand /\ NoOrphanDebt

LEMMA InitInv == Init => IndInv
<1> SUFFICES ASSUME Init PROVE IndInv
  OBVIOUS
<1>1. NoLoanYet \in Row /\ NoLoanYet.status = "NONE"
  BY DEF NoLoanYet, Row, Open
<1>2. Shape
  BY <1>1 DEF Init, Shape, CoverRow
<1>3. Outstanding = {} /\ FilingsAreNew /\ GuaranteesStand
  BY <1>1 DEF Init, Outstanding, FilingsAreNew, GuaranteesStand
<1>4. NoOrphanDebt
  BY <1>1, <1>3 DEF Init, NoOrphanDebt
<1> QED
  BY <1>2, <1>3, <1>4 DEF Init, IndInv, CoversAreOnLoans

\* Membership and status change with nothing else, and nobody who is bound to
\* the group leaves it.
LEMMA GroupKeeps ==
    ASSUME IndInv, UNCHANGED <<loans, money>>, Unlocked,
           status' \in {"FORMING", "ACTIVE", "SUSPENDED", "DISSOLVED"},
           role' \in [Person -> Role \cup {"NONE"}],
           \A p \in Members : Bound(p) => p \in Members',
           status' = "DISSOLVED" => Outstanding = {} /\ fund = 0 /\ Members' = {}
    PROVE  IndInv'
<1>1. UNCHANGED <<loan, consent, filing, guarantors, reopened, cover, fund, covering>>
  BY DEF loans, money
<1>2. Shape' /\ FilingsAreNew' /\ GuaranteesStand' /\ CoversAreOnLoans' /\ Outstanding' = Outstanding
  BY <1>1 DEF IndInv, Shape, FilingsAreNew, GuaranteesStand, CoversAreOnLoans, Outstanding
<1>3. ASSUME NEW l \in Loan \ reopened, loan[l].status \in {"Approved", "Active"}
      PROVE  loan[l].linked /\ loan[l].by \in Members'
  BY <1>3 DEF IndInv, NoOrphanDebt, Bound, GroupLoans, Open
<1>4. ASSUME NEW c \in Outstanding, cover[c].loan \notin reopened
      PROVE  Borrower(c) \in Members'
  BY <1>4 DEF IndInv, NoOrphanDebt, Bound
<1>5. NoOrphanDebt'
  BY <1>1, <1>2, <1>3, <1>4 DEF NoOrphanDebt, Borrower
<1> QED
  BY <1>1, <1>2, <1>5 DEF IndInv, Unlocked

LEMMA GroupInv == ASSUME IndInv, GroupNext PROVE IndInv'
<1> USE DEF Members
<1>1. ASSUME NEW p \in Person, NEW r \in Role, AddMember(p, r) PROVE IndInv'
  <2>1. role' \in [Person -> Role \cup {"NONE"}] /\ Members \subseteq Members'
    BY <1>1 DEF AddMember, IndInv, Shape, Role, Officers
  <2> QED
    BY <1>1, <2>1, GroupKeeps DEF AddMember, IndInv, Shape, MembershipOpen
<1>2. ASSUME NEW p \in Person, NEW r \in Role, SetRole(p, r) PROVE IndInv'
  <2>1. role' \in [Person -> Role \cup {"NONE"}] /\ Members \subseteq Members'
    BY <1>2 DEF SetRole, SwapsRole, IndInv, Shape, Role, Officers
  <2> QED
    BY <1>2, <2>1, GroupKeeps DEF SetRole, IndInv, Shape, MembershipOpen
<1>3. ASSUME NEW p \in Person, RemoveMember(p) PROVE IndInv'
  <2>1. role' \in [Person -> Role \cup {"NONE"}] /\ \A q \in Members : q # p => q \in Members'
    BY <1>3 DEF RemoveMember, IndInv, Shape
  <2> QED
    BY <1>3, <2>1, GroupKeeps DEF RemoveMember, IndInv, Shape, MembershipOpen
<1>4. ASSUME Activate PROVE IndInv'
  BY <1>4, GroupKeeps DEF Activate, IndInv, Shape
<1>5. ASSUME Suspend PROVE IndInv'
  BY <1>5, GroupKeeps DEF Suspend, IndInv, Shape
<1>6. ASSUME Dissolve PROVE IndInv'
  <2>1. role' \in [Person -> Role \cup {"NONE"}] /\ Members' = {}
    BY <1>6 DEF Dissolve
  <2>2. \A p \in Members : ~Bound(p)
    BY <1>6 DEF Dissolve, Settled, Bound
  <2> QED
    BY <1>6, <2>1, <2>2, GroupKeeps DEF Dissolve, Settled
<1> QED
  BY <1>1, <1>2, <1>3, <1>4, <1>5, <1>6 DEF GroupNext

\* One loan's row, answers and guarantors change, as far as its state allows.
LEMMA LoanKeeps ==
    ASSUME IndInv, NEW l \in Loan, NEW row \in Row,
           loan' = [loan EXCEPT ![l] = row],
           consent' \in [Loan -> SUBSET Person], guarantors' \in [Loan -> SUBSET Person],
           filing' \in [Loan -> {"IDLE", "CHECKED", "MEMBER", "STRANGER"}],
           \A k \in Loan \ {l} : /\ consent'[k] = consent[k] /\ guarantors'[k] = guarantors[k]
                                 /\ filing'[k] = filing[k],
           reopened \subseteq reopened', reopened' \subseteq Loan,
           UNCHANGED <<group, money>>,
           loan[l].status \in {"Active", "Closed"} =>
               row.status \in {"Active", "Closed"} /\ row.by = loan[l].by,
           row.status \in {"Approved", "Active"} /\ l \notin reopened' =>
               row.linked /\ row.by \in Members,
           row.status \in Decided =>
               guarantors'[l] # {} /\ row.by \notin guarantors'[l] /\ guarantors'[l] \subseteq consent'[l],
           filing'[l] # "IDLE" => row.status \in {"NONE", "Draft"}
    PROVE  IndInv'
<1>1. UNCHANGED <<status, role, cover, fund, covering>> /\ Members' = Members /\ Outstanding' = Outstanding
  BY DEF group, money, Members, Outstanding
<1>2. loan'[l] = row /\ \A k \in Loan \ {l} : loan'[k] = loan[k]
  BY DEF IndInv, Shape
<1>3. Shape'
  BY <1>1 DEF IndInv, Shape
<1>4. FilingsAreNew'
  BY <1>2 DEF IndInv, FilingsAreNew
<1>5. CoversAreOnLoans' /\ \A c \in Outstanding : Borrower(c)' = Borrower(c)
  BY <1>1, <1>2 DEF IndInv, CoversAreOnLoans, Borrower
<1>6. GuaranteesStand'
  <2> SUFFICES ASSUME NEW k \in Loan, loan'[k].status \in Decided
               PROVE  /\ guarantors'[k] # {} /\ loan'[k].by \notin guarantors'[k]
                      /\ guarantors'[k] \subseteq consent'[k]
    BY DEF GuaranteesStand, Decided
  <2>1. CASE k = l
    BY <2>1, <1>2
  <2>2. CASE k # l
    BY <2>2, <1>2 DEF IndInv, GuaranteesStand, Decided
  <2> QED
    BY <2>1, <2>2
<1>7. NoOrphanDebt'
  <2>1. ASSUME NEW k \in Loan \ reopened', loan'[k].status \in {"Approved", "Active"}
        PROVE  loan'[k].linked /\ loan'[k].by \in Members
    BY <2>1, <1>2 DEF IndInv, NoOrphanDebt
  <2>2. \A c \in Outstanding : cover[c].loan \notin reopened' => Borrower(c)' \in Members
    BY <1>5 DEF IndInv, NoOrphanDebt
  <2> QED
    BY <2>1, <2>2, <1>1 DEF IndInv, NoOrphanDebt
<1> QED
  BY <1>1, <1>3, <1>4, <1>5, <1>6, <1>7 DEF IndInv, FundUsable

\* A payment changes what is owed and may close the loan; nothing else.
LEMMA PaidRow ==
    ASSUME NEW row \in Row, NEW amount \in Int, NEW from \in {"MEMBER", "FUND"},
           amount = 0 \/ row.status = "Active"
    PROVE  /\ Paid(row, amount, from) \in Row
           /\ Paid(row, amount, from).by = row.by
           /\ Paid(row, amount, from).linked = row.linked
           /\ \/ Paid(row, amount, from).status = row.status
              \/ row.status = "Active" /\ Paid(row, amount, from).status = "Closed"
<1>1. CASE amount = 0
  BY <1>1 DEF Paid
<1>2. CASE amount # 0
  <2> DEFINE applied == Smaller(row.owes, amount)
             owes    == row.owes - applied
             overdue == row.overdue - Smaller(row.overdue, amount)
             log     == Append(row.payments, [from |-> from, applied |-> applied])
             next    == IF amount >= row.owes THEN "Closed" ELSE row.status
  <2>1. applied \in Int /\ owes \in Int /\ overdue \in Int
    <3>1. row.owes \in Int /\ row.overdue \in Int
      BY DEF Row
    <3>2. \A n \in Int : Smaller(n, amount) \in Int
      BY DEF Smaller
    <3> QED
      BY <3>1, <3>2
  <2>2. [from |-> from, applied |-> applied] \in Payments
    BY <2>1 DEF Payments
  <2>3. log \in Seq(Payments)
    BY <2>2 DEF Row
  <2>4. next \in {"Active", "Closed"} /\ row.status = "Active"
    BY <1>2
  <2>5. Paid(row, amount, from) = [row EXCEPT !.owes = owes, !.overdue = overdue,
                                              !.payments = log, !.status = next]
    BY <1>2 DEF Paid
  <2> HIDE DEF applied, owes, overdue, log, next
  <2> QED
    BY <2>1, <2>3, <2>4, <2>5 DEF Row, Open
<1> QED
  BY <1>1, <1>2

LEMMA UndoneRow ==
    ASSUME NEW row \in Row, NEW due \in Int, row.payments # <<>>
    PROVE  /\ Undone(row, due) \in Row
           /\ Undone(row, due).status = "Active"
           /\ Undone(row, due).by = row.by
           /\ Undone(row, due).linked = row.linked
<1> DEFINE log  == Front(row.payments)
           last == Last(row.payments)
           owes == row.owes + last.applied
<1>1. row.payments \in Seq(Payments) /\ row.owes \in Int
  BY DEF Row
<1>2. log \in Seq(Payments) /\ last \in Payments
  BY <1>1 DEF Front, Last
<1>3. owes \in Int
  BY <1>1, <1>2 DEF Payments
<1>4. Undone(row, due) = [row EXCEPT !.status = "Active", !.overdue = due,
                                     !.payments = log, !.owes = owes]
  BY DEF Undone
<1> HIDE DEF log, last, owes
<1> QED
  BY <1>2, <1>3, <1>4 DEF Row, Open

LEMMA LoanInv == ASSUME IndInv, LoanNext PROVE IndInv'
<1> SUFFICES ASSUME NEW l \in Loan,
                    \/ \E p \in Person : Apply(p, l)
                    \/ Resubmit(l) \/ ReadGroup(l) \/ Abandon(l)
                    \/ \E as \in {"Draft", "Submitted"} : File(l, as)
                    \/ \E p \in Person, agrees \in BOOLEAN : RecordConsent(l, p, agrees)
                    \/ StartReview(l) \/ Approve(l) \/ Return(l) \/ Reject(l) \/ Cancel(l)
                    \/ Disburse(l) \/ FallDue(l)
                    \/ \E amount \in Amount : Pay(l, amount) \/ ReversePayment(l, amount)
             PROVE  IndInv'
  BY DEF LoanNext
<1>0. /\ loan \in [Loan -> Row] /\ loan[l] \in Row /\ reopened \subseteq Loan
      /\ consent \in [Loan -> SUBSET Person] /\ guarantors \in [Loan -> SUBSET Person]
      /\ filing \in [Loan -> {"IDLE", "CHECKED", "MEMBER", "STRANGER"}]
      /\ filing[l] # "IDLE" => loan[l].status \in {"NONE", "Draft"}
      /\ loan[l].status \in Decided =>
            guarantors[l] # {} /\ loan[l].by \notin guarantors[l] /\ guarantors[l] \subseteq consent[l]
      /\ loan[l].status \in {"Approved", "Active"} /\ l \notin reopened =>
            loan[l].linked /\ loan[l].by \in Members
  BY DEF IndInv, Shape, FilingsAreNew, GuaranteesStand, NoOrphanDebt, Decided
<1>1. ASSUME NEW p \in Person, Apply(p, l) PROVE IndInv'
  <2> DEFINE row == [loan[l] EXCEPT !["by"] = p]
  <2>1. row \in Row /\ row.status = "NONE" /\ loan' = [loan EXCEPT ![l] = row]
    BY <1>0, <1>1 DEF Apply, Set, Row
  <2> HIDE DEF row
  <2> QED
    BY <2>1, <1>0, <1>1, LoanKeeps DEF Apply, Decided
<1>2. ASSUME Resubmit(l) \/ ReadGroup(l) PROVE IndInv'
  <2>1. loan' = [loan EXCEPT ![l] = loan[l]]
    BY <1>0, <1>2 DEF Resubmit, ReadGroup
  <2>2. loan[l].status \in {"NONE", "Draft"}
    BY <1>0, <1>2 DEF Resubmit, ReadGroup
  <2> QED
    BY <2>1, <2>2, <1>0, <1>2, LoanKeeps DEF Resubmit, ReadGroup, Decided
<1>3. ASSUME Abandon(l) PROVE IndInv'
  <2> DEFINE row == IF loan[l].status = "NONE" THEN NoLoanYet ELSE loan[l]
  <2>1. row \in Row /\ row.status \in {"NONE", "Draft"} /\ loan' = [loan EXCEPT ![l] = row]
    BY <1>0, <1>3 DEF Abandon, NoLoanYet, Row
  <2> HIDE DEF row
  <2> QED
    BY <2>1, <1>0, <1>3, LoanKeeps DEF Abandon, Decided
<1>4. ASSUME NEW as \in {"Draft", "Submitted"}, File(l, as) PROVE IndInv'
  <2> DEFINE row == [loan[l] EXCEPT !.status = as, !.linked = filing[l] = "MEMBER"]
  <2>1. row \in Row /\ row.status \in {"Draft", "Submitted"} /\ loan' = [loan EXCEPT ![l] = row]
    BY <1>0, <1>4 DEF File, Row, Open
  <2> HIDE DEF row
  <2> QED
    BY <2>1, <1>0, <1>4, LoanKeeps DEF File, Decided
<1>5. ASSUME NEW p \in Person, NEW agrees \in BOOLEAN, RecordConsent(l, p, agrees) PROVE IndInv'
  <2>1. loan' = [loan EXCEPT ![l] = loan[l]] /\ loan[l].status \in Pending
    BY <1>0, <1>5 DEF RecordConsent, ConsentOpen
  <2>2. consent' \in [Loan -> SUBSET Person] /\ \A k \in Loan \ {l} : consent'[k] = consent[k]
    BY <1>0, <1>5 DEF RecordConsent
  <2> QED
    BY <2>1, <2>2, <1>0, <1>5, LoanKeeps DEF RecordConsent, Mine, Decided, Pending
<1>6. ASSUME NEW next \in {"Under Review", "Draft", "ENDED"}, Mine(l),
             loan[l].status \in {"Draft", "Approved"} \cup Pending, Set(l, "status", next),
             UNCHANGED <<group, consent, filing, guarantors, reopened, money>>
      PROVE  IndInv'
  <2> DEFINE row == [loan[l] EXCEPT !["status"] = next]
  <2>1. row \in Row /\ row.status = next /\ loan' = [loan EXCEPT ![l] = row]
    BY <1>0, <1>6 DEF Set, Row, Open
  <2> HIDE DEF row
  <2> QED
    BY <2>1, <1>0, <1>6, LoanKeeps DEF Mine, Decided, Pending
<1>7. ASSUME Approve(l) PROVE IndInv'
  <2> DEFINE row == [loan[l] EXCEPT !["status"] = "Approved"]
  <2>1. row \in Row /\ row.status = "Approved" /\ row.by = loan[l].by /\ row.linked = loan[l].linked
        /\ loan' = [loan EXCEPT ![l] = row]
    BY <1>0, <1>7 DEF Approve, Set, Row, Open
  <2>2. guarantors' \in [Loan -> SUBSET Person] /\ guarantors'[l] = Others(l)
        /\ \A k \in Loan \ {l} : guarantors'[k] = guarantors[k]
    BY <1>0, <1>7 DEF Approve, Others, Members
  <2>3. Others(l) # {} /\ Others(l) \subseteq consent[l] /\ loan[l].by \notin Others(l)
        /\ loan[l].linked /\ loan[l].by \in Members /\ loan[l].status \in Pending /\ filing[l] = "IDLE"
    BY <1>7 DEF Approve, Complete, Others, GroupAllows, Mine
  <2> HIDE DEF row
  <2> QED
    BY <2>1, <2>2, <2>3, <1>0, <1>7, LoanKeeps DEF Approve, Decided, Pending
<1>8. ASSUME Disburse(l) PROVE IndInv'
  <2> DEFINE row == [loan[l] EXCEPT !.status = "Active", !.owes = Installments]
  <2>0. loan' = [loan EXCEPT ![l] = row]
    BY <1>8 DEF Disburse
  <2>1. row \in Row /\ row.status = "Active" /\ row.by = loan[l].by /\ row.linked = loan[l].linked
    <3>1. Installments \in Int
      BY GroupAssumption
    <3>2. ASSUME NEW n \in Int, NEW r \in Row
          PROVE  LET x == [r EXCEPT !.status = "Active", !.owes = n]
                 IN  x \in Row /\ x.status = "Active" /\ x.by = r.by /\ x.linked = r.linked
      BY DEF Row, Open
    <3> QED
      BY <1>0, <3>1, <3>2
  <2>2. loan[l].linked /\ loan[l].by \in Members /\ loan[l].status = "Approved" /\ filing[l] = "IDLE"
    BY <1>8 DEF Disburse, GroupAllows, Mine
  <2> HIDE DEF row
  <2> QED
    BY <2>0, <2>1, <2>2, <1>0, <1>8, LoanKeeps DEF Disburse, Decided
<1>9. ASSUME FallDue(l) PROVE IndInv'
  <2> DEFINE row == [loan[l] EXCEPT !["overdue"] = loan[l].overdue + 1]
  <2>0. loan' = [loan EXCEPT ![l] = row] /\ loan[l].status = "Active"
    BY <1>9 DEF FallDue, Set
  <2>1. row \in Row /\ row.status = "Active" /\ row.by = loan[l].by /\ row.linked = loan[l].linked
    <3>1. loan[l].overdue + 1 \in Int
      BY <1>0 DEF Row
    <3>2. ASSUME NEW n \in Int, NEW r \in Row
          PROVE  LET x == [r EXCEPT !["overdue"] = n]
                 IN  x \in Row /\ x.status = r.status /\ x.by = r.by /\ x.linked = r.linked
      BY DEF Row
    <3> QED
      BY <2>0, <1>0, <3>1, <3>2
  <2> HIDE DEF row
  <2> QED
    BY <2>0, <2>1, <1>0, <1>9, LoanKeeps DEF FallDue, Decided
<1>10. ASSUME NEW amount \in Amount, Pay(l, amount) PROVE IndInv'
  <2> DEFINE row == Paid(loan[l], amount, "MEMBER")
  <2>1. amount \in Int /\ loan[l].status = "Active" /\ loan' = [loan EXCEPT ![l] = row]
    BY <1>10, GroupAssumption DEF Pay, Amount
  <2>2. row \in Row /\ row.status \in {"Active", "Closed"} /\ row.by = loan[l].by
        /\ row.linked = loan[l].linked
    BY <2>1, <1>0, PaidRow
  <2> HIDE DEF row
  <2> QED
    BY <2>1, <2>2, <1>0, <1>10, LoanKeeps DEF Pay, Decided
<1>11. ASSUME NEW due \in Amount, ReversePayment(l, due) PROVE IndInv'
  <2> DEFINE row == Undone(loan[l], due)
  <2>1. loan[l].payments # <<>> /\ due \in Int /\ loan[l].status \in {"Active", "Closed"}
        /\ loan' = [loan EXCEPT ![l] = row]
    BY <1>11, GroupAssumption DEF ReversePayment, Amount
  <2>2. row \in Row /\ row.status = "Active" /\ row.by = loan[l].by /\ row.linked = loan[l].linked
    BY <2>1, <1>0, UndoneRow
  <2>3. reopened \subseteq reopened' /\ reopened' \subseteq Loan
        /\ (loan[l].status = "Closed" => l \in reopened')
    BY <1>0, <1>11 DEF ReversePayment
  <2>4. UNCHANGED <<group, consent, filing, guarantors, money>>
    BY <1>11 DEF ReversePayment
  <2> HIDE DEF row
  <2> QED
    BY <2>1, <2>2, <2>3, <2>4, <1>0, LoanKeeps DEF Decided
<1>12. ASSUME StartReview(l) \/ Return(l) \/ Reject(l) \/ Cancel(l) PROVE IndInv'
  BY <1>6, <1>12 DEF StartReview, Return, Reject, Cancel, Pending
<1> QED
  BY <1>1, <1>2, <1>3, <1>4, <1>5, <1>7, <1>8, <1>9, <1>10, <1>11, <1>12

\* Paying covers back leaves fewer of them, each where it was.
LEMMA BackRows ==
    ASSUME IndInv, NEW back \in [Cover -> Amount], GiveBack(back)
    PROVE  /\ cover' \in [Cover -> CoverRow]
           /\ Outstanding' \subseteq Outstanding
           /\ \A c \in Cover : cover'[c].loan = cover[c].loan
<1>1. \A c \in Cover : cover[c] \in CoverRow /\ cover[c].left - back[c] \in Int
  BY GroupAssumption DEF IndInv, Shape, Amount, CoverRow
<1>2. ASSUME NEW c \in Cover
      PROVE  /\ cover'[c] \in CoverRow /\ cover'[c].loan = cover[c].loan
             /\ cover'[c].status \in {"REPAID", cover[c].status}
  <2> DEFINE r == cover[c]
             n == r.left - back[c]
             s == IF back[c] > 0 /\ back[c] = r.left THEN "REPAID" ELSE r.status
  <2>1. cover'[c] = [r EXCEPT !.left = n, !.status = s]
    BY DEF GiveBack
  <2>2. n \in Int /\ s \in {"REPAID", r.status}
    BY <1>1
  <2>3. r \in CoverRow
    BY <1>1
  <2> HIDE DEF n, s, r
  <2>4. s \in {"NONE", "OUTSTANDING", "REPAID"}
    BY <2>2, <2>3 DEF CoverRow
  <2>5. cover'[c] \in CoverRow /\ cover'[c].loan = r.loan /\ cover'[c].status = s
    BY <2>1, <2>2, <2>3, <2>4 DEF CoverRow
  <2> QED
    BY <2>2, <2>5 DEF r
<1>3. cover' \in [Cover -> CoverRow]
  BY <1>2 DEF GiveBack
<1> QED
  BY <1>2, <1>3 DEF Outstanding

\* Only covers that are paid back and the fund change.
LEMMA BackKeeps ==
    ASSUME IndInv, NEW back \in [Cover -> Amount], GiveBack(back),
           UNCHANGED <<group, loans, covering>>, status # "DISSOLVED" \/ fund' = fund
    PROVE  IndInv'
<1>1. UNCHANGED <<status, role, loan, consent, filing, guarantors, reopened, covering>> /\ Members' = Members
  BY DEF group, loans, Members
<1>2. Shape' /\ FilingsAreNew' /\ GuaranteesStand'
  BY <1>1, BackRows DEF IndInv, Shape, FilingsAreNew, GuaranteesStand
<1>3. \A c \in Outstanding' : c \in Outstanding /\ cover'[c].loan = cover[c].loan
  BY BackRows DEF Outstanding
<1>4. CoversAreOnLoans' /\ \A c \in Outstanding' : Borrower(c)' = Borrower(c)
  BY <1>1, <1>3 DEF IndInv, CoversAreOnLoans, Borrower
<1>5. NoOrphanDebt'
  BY <1>1, <1>3, <1>4 DEF IndInv, NoOrphanDebt
<1> QED
  BY <1>1, <1>2, <1>4, <1>5 DEF IndInv, FundUsable

\* Loans change by payments alone.
LEMMA PaymentsKeep ==
    ASSUME IndInv, UNCHANGED <<status, role, consent, filing, guarantors, reopened>>,
           loan' \in [Loan -> Row],
           \A l \in Loan : /\ loan'[l].by = loan[l].by /\ loan'[l].linked = loan[l].linked
                           /\ \/ loan'[l].status = loan[l].status
                              \/ loan[l].status = "Active" /\ loan'[l].status = "Closed"
    PROVE  /\ FilingsAreNew' /\ GuaranteesStand'
           /\ \A l \in Loan \ reopened : loan'[l].status \in {"Approved", "Active"} =>
                 loan'[l].linked /\ loan'[l].by \in Members'
<1>1. Members' = Members
  BY DEF Members
<1>2. FilingsAreNew'
  BY DEF IndInv, FilingsAreNew
<1>3. GuaranteesStand'
  BY DEF IndInv, GuaranteesStand
<1> QED
  BY <1>1, <1>2, <1>3 DEF IndInv, NoOrphanDebt

LEMMA FundInv == ASSUME IndInv, FundNext PROVE IndInv'
<1>1. ASSUME NEW l \in Loan, NEW amount \in Amount, StartCover(l, amount) PROVE IndInv'
  <2>1. UNCHANGED <<status, role, loan, consent, filing, guarantors, reopened, cover, fund>>
        /\ Members' = Members /\ Outstanding' = Outstanding
    BY <1>1 DEF StartCover, group, loans, Members, Outstanding
  <2>2. covering' \in [loan : Loan, amount : Int] /\ FundUsable'
    BY <1>1, <2>1, GroupAssumption DEF StartCover, FundUsable, Amount
  <2> QED
    BY <2>1, <2>2 DEF IndInv, Shape, FilingsAreNew, CoversAreOnLoans, GuaranteesStand, NoOrphanDebt,
       Borrower
<1>2. ASSUME NEW c \in Cover, PostCover(c) PROVE IndInv'
  <2> DEFINE l == covering.loan
             row == Paid(loan[l], covering.amount, "FUND")
  <2>1. l \in Loan /\ covering.amount \in Int /\ loan[l] \in Row /\ loan[l].status = "Active"
        /\ loan' = [loan EXCEPT ![l] = row] /\ status # "DISSOLVED"
    BY <1>2 DEF PostCover, IndInv, Shape, FundUsable
  <2>2. row \in Row /\ row.by = loan[l].by /\ row.linked = loan[l].linked
        /\ row.status \in {"Active", "Closed"}
    BY <2>1, PaidRow
  <2> HIDE DEF row
  <2>3. UNCHANGED <<status, role, consent, filing, guarantors, reopened>> /\ Members' = Members
    BY <1>2 DEF PostCover, group, Members
  <2>4. loan' \in [Loan -> Row] /\ loan'[l] = row /\ \A k \in Loan \ {l} : loan'[k] = loan[k]
    BY <2>1, <2>2 DEF IndInv, Shape
  <2>5. /\ FilingsAreNew' /\ GuaranteesStand'
        /\ \A k \in Loan \ reopened : loan'[k].status \in {"Approved", "Active"} =>
              loan'[k].linked /\ loan'[k].by \in Members'
    <3>1. ASSUME NEW k \in Loan
          PROVE  /\ loan'[k].by = loan[k].by /\ loan'[k].linked = loan[k].linked
                 /\ \/ loan'[k].status = loan[k].status
                    \/ loan[k].status = "Active" /\ loan'[k].status = "Closed"
      BY <2>1, <2>2, <2>4
    <3> QED
      BY <2>3, <2>4, <3>1, PaymentsKeep
  <2>6. cover' \in [Cover -> CoverRow] /\ cover'[c].loan = l /\ \A d \in Cover \ {c} : cover'[d] = cover[d]
    <3>1. [status |-> "OUTSTANDING", loan |-> l, left |-> covering.amount] \in CoverRow
      BY <2>1 DEF CoverRow
    <3> QED
      BY <1>2, <3>1 DEF PostCover, IndInv, Shape
  <2>7. covering' = NotCovering
    BY <1>2 DEF PostCover
  <2>8. Shape'
    BY <2>3, <2>4, <2>6, <2>7 DEF IndInv, Shape
  <2>9. \A d \in Outstanding' : d = c \/ (d \in Outstanding /\ d # c)
    BY <2>6 DEF Outstanding
  <2>10. CoversAreOnLoans'
    <3>1. ASSUME NEW d \in Outstanding'
          PROVE  cover'[d].loan \in Loan /\ loan'[cover'[d].loan].status \in {"Active", "Closed"}
      <4>1. CASE d = c
        BY <4>1, <2>1, <2>2, <2>4, <2>6
      <4>2. CASE d # c
        <5>1. d \in Outstanding /\ cover'[d] = cover[d]
          BY <4>2, <2>6, <2>9 DEF Outstanding
        <5> QED
          BY <5>1, <2>1, <2>2, <2>4 DEF IndInv, CoversAreOnLoans
      <4> QED
        BY <4>1, <4>2
    <3> QED
      BY <3>1 DEF CoversAreOnLoans
  <2>11. ASSUME NEW d \in Outstanding', cover'[d].loan \notin reopened' PROVE Borrower(d)' \in Members'
    <3>1. CASE d = c
      BY <3>1, <2>1, <2>2, <2>3, <2>4, <2>6, <2>11 DEF Borrower, IndInv, NoOrphanDebt
    <3>2. CASE d # c
      <4>1. d \in Outstanding /\ cover'[d] = cover[d] /\ cover[d].loan \in Loan
        BY <3>2, <2>6, <2>9 DEF Outstanding, IndInv, CoversAreOnLoans
      <4>2. Borrower(d)' = Borrower(d)
        BY <4>1, <2>1, <2>2, <2>4 DEF Borrower
      <4> QED
        BY <4>1, <4>2, <2>3, <2>11 DEF IndInv, NoOrphanDebt
    <3> QED
      BY <3>1, <3>2
  <2>12. NoOrphanDebt'
    BY <2>1, <2>3, <2>5, <2>11 DEF NoOrphanDebt
  <2> QED
    BY <2>5, <2>7, <2>8, <2>10, <2>12 DEF IndInv
<1>3. ASSUME AbandonCover PROVE IndInv'
  <2>1. UNCHANGED <<status, role, loan, consent, filing, guarantors, reopened, cover, fund>>
        /\ Members' = Members /\ Outstanding' = Outstanding
    BY <1>3 DEF AbandonCover, group, loans, Members, Outstanding
  <2> QED
    BY <1>3, <2>1 DEF AbandonCover, IndInv, Shape, FilingsAreNew, CoversAreOnLoans, GuaranteesStand,
       NoOrphanDebt, Borrower
<1>4. ASSUME NEW back \in [Cover -> Amount], NEW p \in Person, RepayCover(p, back) PROVE IndInv'
  <2>1. status # "DISSOLVED"
    <3>1. PICK c \in Cover : back[c] > 0
      BY <1>4 DEF RepayCover
    <3>2. c \in Outstanding
      BY <1>4, <3>1 DEF RepayCover, OldestFirst, Outstanding
    <3> QED
      BY <3>2 DEF IndInv, NoOrphanDebt
  <2> QED
    BY <1>4, <2>1, BackKeeps DEF RepayCover
<1>5. ASSUME NEW amount \in 1..MaxFund, RefundFund(amount) PROVE IndInv'
  <2>1. UNCHANGED <<status, role, loan, consent, filing, guarantors, reopened, cover, covering>>
        /\ Members' = Members /\ Outstanding' = Outstanding
    BY <1>5 DEF RefundFund, group, loans, Members, Outstanding
  <2>2. status # "DISSOLVED"
    BY <1>5 DEF RefundFund, IndInv, NoOrphanDebt
  <2> QED
    BY <2>1, <2>2 DEF IndInv, Shape, FilingsAreNew, CoversAreOnLoans, GuaranteesStand,
       NoOrphanDebt, Borrower, FundUsable
<1>6. ASSUME NEW pays \in [Loan -> Amount], NEW given \in 0..MaxFund, NEW back \in [Cover -> Amount],
             PostCollection(pays, given, back)
      PROVE  IndInv'
  <2>1. UNCHANGED <<status, role, consent, filing, guarantors, reopened, covering>> /\ Members' = Members
        /\ status # "DISSOLVED" /\ GiveBack(back)
    BY <1>6 DEF PostCollection, group, Members, FundUsable
  <2>2. ASSUME NEW l \in Loan
        PROVE  /\ loan'[l] \in Row /\ loan'[l].by = loan[l].by /\ loan'[l].linked = loan[l].linked
               /\ \/ loan'[l].status = loan[l].status
                  \/ loan[l].status = "Active" /\ loan'[l].status = "Closed"
    <3>1. pays[l] \in Int /\ loan[l] \in Row /\ (pays[l] = 0 \/ loan[l].status = "Active")
      BY <1>6, GroupAssumption DEF PostCollection, IndInv, Shape, Amount
    <3>2. loan'[l] = Paid(loan[l], pays[l], "MEMBER")
      BY <1>6 DEF PostCollection
    <3> QED
      BY <3>1, <3>2, PaidRow
  <2>3. loan' \in [Loan -> Row]
    BY <1>6, <2>2 DEF PostCollection
  <2>4. /\ FilingsAreNew' /\ GuaranteesStand'
        /\ \A l \in Loan \ reopened : loan'[l].status \in {"Approved", "Active"} =>
              loan'[l].linked /\ loan'[l].by \in Members'
    BY <2>1, <2>2, <2>3, PaymentsKeep
  <2>5. \A c \in Outstanding' : c \in Outstanding /\ cover'[c].loan = cover[c].loan
    BY <2>1, BackRows DEF Outstanding
  <2>6. Shape'
    BY <2>1, <2>3, BackRows DEF IndInv, Shape
  <2>7. CoversAreOnLoans' /\ \A c \in Outstanding' : Borrower(c)' = Borrower(c)
    BY <2>2, <2>5 DEF IndInv, CoversAreOnLoans, Borrower
  <2>8. NoOrphanDebt'
    BY <2>1, <2>4, <2>5, <2>7 DEF IndInv, NoOrphanDebt
  <2> QED
    BY <2>1, <2>4, <2>6, <2>7, <2>8 DEF IndInv, FundUsable
<1> QED
  BY <1>1, <1>2, <1>3, <1>4, <1>5, <1>6 DEF FundNext

LEMMA NextInv == ASSUME IndInv, [Next]_vars PROVE IndInv'
<1>1. CASE UNCHANGED vars
  BY <1>1 DEF vars, group, loans, money, IndInv, Shape, FilingsAreNew, CoversAreOnLoans,
     GuaranteesStand, NoOrphanDebt, Borrower, Outstanding, Members, FundUsable
<1> QED
  BY <1>1, GroupInv, LoanInv, FundInv DEF Next

LEMMA Invariance == Spec => []IndInv
  BY InitInv, NextInv, PTL DEF Spec

\* A loan that was approved keeps its guarantors and their consent, whatever the
\* group does afterwards (recordConsent, decideApplication).
THEOREM GuaranteesAlwaysStand == Spec => []GuaranteesStand
<1>1. IndInv => GuaranteesStand
  BY DEF IndInv
<1> QED
  BY <1>1, Invariance, PTL

\* Nobody leaves, and no group dissolves, over a debt that was never settled
\* (removeMember, changeGroupStatus).
THEOREM NoDebtIsOrphaned == Spec => []NoOrphanDebt
<1>1. IndInv => NoOrphanDebt
  BY DEF IndInv
<1> QED
  BY <1>1, Invariance, PTL

-------------------------------------------------------------------------------
\* The size of an active group depends on the members alone.
SizeInv == role \in [Person -> Role \cup {"NONE"}] /\ ActiveKeepsItsSize

LEMMA FiniteMembers == IsFiniteSet(Members) /\ Cardinality(Members) \in Nat
  BY GroupAssumption, FS_Subset, FS_CardinalityType DEF Members

LEMMA SizeKept ==
    ASSUME SizeInv, [Next]_vars
    PROVE  SizeInv'
<1> USE DEF SizeInv, ActiveKeepsItsSize
<1>1. CASE UNCHANGED group
  BY <1>1 DEF group, Members
<1>2. ASSUME NEW p \in Person, NEW r \in Role, AddMember(p, r) PROVE SizeInv'
  <2>1. Members' = Members \cup {p} /\ role' \in [Person -> Role \cup {"NONE"}] /\ status' = status
    BY <1>2 DEF AddMember, Members, Role, Officers
  <2>2. Cardinality(Members') \in {Cardinality(Members), Cardinality(Members) + 1}
    BY <2>1, FiniteMembers, FS_AddElement
  <2>3. Cardinality(Members) \in Nat
    BY FiniteMembers
  <2> DEFINE before == Cardinality(Members)
             after  == Cardinality(Members')
  <2> HIDE DEF before, after
  <2>4. MinMembers \in Nat /\ before \in Nat /\ after \in {before, before + 1}
    BY <2>2, <2>3, GroupAssumption DEF before, after
  <2>5. before >= MinMembers => after >= MinMembers
    BY <2>4
  <2> QED
    BY <2>1, <2>5 DEF before, after
<1>3. ASSUME NEW p \in Person, NEW r \in Role, SetRole(p, r) PROVE SizeInv'
  <2>1. Members' = Members /\ role' \in [Person -> Role \cup {"NONE"}] /\ status' = status
    BY <1>3 DEF SetRole, SwapsRole, Members, Role, Officers
  <2> QED
    BY <2>1
<1>4. ASSUME NEW p \in Person, RemoveMember(p) PROVE SizeInv'
  <2>1. Members' = Members \ {p} /\ p \in Members /\ status' = status
        /\ role' \in [Person -> Role \cup {"NONE"}]
    BY <1>4 DEF RemoveMember, Members
  <2>2. Cardinality(Members') = Cardinality(Members) - 1
    BY <2>1, FiniteMembers, FS_RemoveElement
  <2> QED
    BY <1>4, <2>1, <2>2, FiniteMembers, GroupAssumption DEF RemoveMember
<1>5. ASSUME Activate PROVE SizeInv'
  <2>1. Members' = Members
    BY <1>5 DEF Activate, Members
  <2> QED
    BY <1>5, <2>1 DEF Activate, Ready
<1>6. ASSUME Suspend \/ Dissolve PROVE SizeInv'
  BY <1>6 DEF Suspend, Dissolve
<1>7. LoanNext \/ FundNext \/ UNCHANGED vars => UNCHANGED group
  BY DEF LoanNext, FundNext, vars, group, Apply, Resubmit, ReadGroup, Abandon, File, RecordConsent,
     StartReview, Approve, Return, Reject, Cancel, Disburse, FallDue, Pay, ReversePayment, StartCover,
     PostCover, AbandonCover, RepayCover, RefundFund, PostCollection
<1> QED
  BY <1>1, <1>2, <1>3, <1>4, <1>5, <1>6, <1>7 DEF Next, GroupNext

\* An active group keeps its minimum size: it is asked for when the group is
\* activated or reinstated and at every removal (changeGroupStatus, removeMember).
THEOREM ActiveGroupsKeepTheirSize == Spec => []ActiveKeepsItsSize
<1>1. Init => SizeInv
  BY DEF Init, SizeInv, ActiveKeepsItsSize
<1>2. SizeInv => ActiveKeepsItsSize
  BY DEF SizeInv
<1> QED
  BY <1>1, <1>2, SizeKept, PTL DEF Spec

-------------------------------------------------------------------------------
\* What was owed before each payment lies between nothing and the whole loan:
\* the last payment can be taken back without owing more than was lent.
Trail(row) ==
    \E due \in [Nat -> Int] :
        /\ due[Len(row.payments)] = row.owes
        /\ \A k \in 0..Len(row.payments) : due[k] \in 0..Installments
        /\ \A k \in 1..Len(row.payments) : due[k - 1] = due[k] + row.payments[k].applied

RowFits(row) ==
    /\ row.owes \in 0..Installments /\ row.overdue \in 0..row.owes
    /\ row.status \notin {"Active", "Closed"} => row.owes = 0 /\ row.payments = <<>>
    /\ Trail(row)

LoansFit  == \A l \in Loan : RowFits(loan[l])
CoversFit == \A c \in Cover : /\ cover[c].left \in Nat
                              /\ cover[c].status = "OUTSTANDING" <=> cover[c].left > 0
FundFits  == /\ fund \in 0..MaxFund
             /\ covering # NotCovering => covering.amount \in 1..fund
OneOfEach == \A p, q \in Person : role[p] \in Officers /\ role[q] = role[p] => p = q

\* Nothing is owed on a loan without payments but what its row says.
LEMMA FreshTrail ==
    ASSUME NEW row, row.payments = <<>>, row.owes \in 0..Installments
    PROVE  Trail(row)
<1> DEFINE due == [k \in Nat |-> row.owes]
<1>1. row.owes \in Int /\ Len(row.payments) = 0
  BY GroupAssumption
<1>2. due \in [Nat -> Int] /\ \A k \in Nat : due[k] = row.owes
  BY <1>1
<1> HIDE DEF due
<1> QED
  BY <1>1, <1>2 DEF Trail

\* A change of status or borrower leaves the amounts as they were.
LEMMA SameAmounts ==
    ASSUME NEW row, NEW next, RowFits(row),
           next.owes = row.owes, next.overdue = row.overdue, next.payments = row.payments,
           next.status \notin {"Active", "Closed"} => row.status \notin {"Active", "Closed"}
    PROVE  RowFits(next)
  BY DEF RowFits, Trail

LEMMA PaidFits ==
    ASSUME NEW row \in Row, RowFits(row), NEW amount \in Nat, NEW from \in {"MEMBER", "FUND"},
           amount = 0 \/ row.status = "Active"
    PROVE  RowFits(Paid(row, amount, from))
<1>1. CASE amount = 0
  BY <1>1 DEF Paid
<1>2. CASE amount # 0
  <2> DEFINE applied == Smaller(row.owes, amount)
             owes    == row.owes - applied
             overdue == row.overdue - Smaller(row.overdue, amount)
             last    == [from |-> from, applied |-> applied]
             log     == Append(row.payments, last)
             next    == IF amount >= row.owes THEN "Closed" ELSE row.status
             n       == Len(row.payments)
  <2>1. row.owes \in 0..Installments /\ row.overdue \in 0..row.owes /\ Installments \in Nat
    BY GroupAssumption DEF RowFits
  <2>2. applied \in 0..row.owes /\ owes \in 0..Installments /\ overdue \in 0..owes
    BY <2>1 DEF Smaller
  <2>3. row.payments \in Seq(Payments) /\ n \in Nat
    BY DEF Row
  <2>4. next \in {"Active", "Closed"}
    BY <1>2
  <2>5. last.applied = applied
    OBVIOUS
  <2>6. Paid(row, amount, from) = [row EXCEPT !.owes = owes, !.overdue = overdue,
                                              !.payments = log, !.status = next]
    BY <1>2 DEF Paid
  <2>7. Len(log) = n + 1 /\ log[n + 1] = last /\ \A k \in 1..n : log[k] = row.payments[k]
    <3> HIDE DEF last
    <3> QED
      BY <2>3
  <2>8. PICK due \in [Nat -> Int] :
            /\ due[n] = row.owes
            /\ \A k \in 0..n : due[k] \in 0..Installments
            /\ \A k \in 1..n : due[k - 1] = due[k] + row.payments[k].applied
    BY DEF RowFits, Trail
  <2> HIDE DEF applied, owes, overdue, last, log, next, n
  <2> DEFINE after == [due EXCEPT ![n + 1] = owes]
  <2>9. after \in [Nat -> Int] /\ after[n + 1] = owes /\ \A k \in 0..n : after[k] = due[k]
    BY <2>1, <2>2, <2>3, <2>8
  <2> HIDE DEF after
  <2>10. row.owes = owes + applied
    BY <2>1, <2>2 DEF owes
  <2>11. ASSUME NEW k \in 0..(n + 1) PROVE after[k] \in 0..Installments
    <3>1. k = n + 1 \/ k \in 0..n
      BY <2>3
    <3> QED
      BY <2>2, <2>8, <2>9, <3>1
  <2>12. ASSUME NEW k \in 1..(n + 1) PROVE after[k - 1] = after[k] + log[k].applied
    <3>1. CASE k = n + 1
      <4>1. k - 1 = n /\ n \in 0..n
        BY <3>1, <2>3
      <4>2. after[k - 1] = row.owes /\ after[k] = owes /\ log[k].applied = applied
        BY <3>1, <4>1, <2>5, <2>7, <2>8, <2>9
      <4> QED
        BY <4>2, <2>10
    <3>2. CASE k # n + 1
      <4>1. k \in 1..n /\ k \in 0..n /\ k - 1 \in 0..n
        BY <3>2, <2>3
      <4> QED
        BY <4>1, <2>7, <2>8, <2>9
    <3> QED
      BY <3>1, <3>2
  <2> DEFINE paid == [row EXCEPT !.owes = owes, !.overdue = overdue, !.payments = log, !.status = next]
  <2>13. paid.owes = owes /\ paid.overdue = overdue /\ paid.payments = log /\ paid.status = next
    BY DEF Row
  <2> HIDE DEF paid
  <2>14. Trail(paid)
    BY <2>7, <2>9, <2>11, <2>12, <2>13 DEF Trail
  <2>15. RowFits(paid)
    BY <2>2, <2>4, <2>13, <2>14 DEF RowFits
  <2> QED
    BY <2>6, <2>15 DEF paid
<1> QED
  BY <1>1, <1>2

LEMMA UndoneFits ==
    ASSUME NEW row \in Row, RowFits(row), row.payments # <<>>,
           NEW overdue \in row.overdue .. (row.overdue + Last(row.payments).applied)
    PROVE  RowFits(Undone(row, overdue))
<1> DEFINE n    == Len(row.payments)
           log  == Front(row.payments)
           last == Last(row.payments)
           owes == row.owes + last.applied
<1>1. row.payments \in Seq(Payments) /\ row.owes \in Int /\ row.overdue \in Int
  BY DEF Row
<1>2. n \in Nat \ {0} /\ last = row.payments[n] /\ last \in Payments
  BY <1>1 DEF Last
<1>3. Len(log) = n - 1 /\ \A k \in 1..(n - 1) : log[k] = row.payments[k]
  BY <1>1, <1>2 DEF Front
<1>4. Undone(row, overdue) = [row EXCEPT !.status = "Active", !.overdue = overdue,
                                         !.payments = log, !.owes = owes]
  BY DEF Undone
<1>5. PICK due \in [Nat -> Int] :
          /\ due[n] = row.owes
          /\ \A k \in 0..n : due[k] \in 0..Installments
          /\ \A k \in 1..n : due[k - 1] = due[k] + row.payments[k].applied
  BY DEF RowFits, Trail
<1>6. last.applied \in Int
  BY <1>2 DEF Payments
<1>7. overdue \in Int /\ overdue >= row.overdue /\ overdue <= row.overdue + last.applied
  BY <1>1, <1>6
<1> DEFINE undone == [row EXCEPT !.status = "Active", !.overdue = overdue, !.payments = log, !.owes = owes]
<1> HIDE DEF n, log, last, owes
<1>8. undone.owes = owes /\ undone.overdue = overdue /\ undone.payments = log /\ undone.status = "Active"
  BY DEF Row
<1> HIDE DEF undone
<1>9. due[n - 1] = owes
  <2>1. n \in 1..n
    BY <1>2
  <2>2. due[n - 1] = due[n] + row.payments[n].applied
    BY <2>1, <1>5
  <2> QED
    BY <2>2, <1>2, <1>5 DEF owes
<1>10. owes \in 0..Installments
  <2>1. n - 1 \in 0..n
    BY <1>2
  <2> QED
    BY <2>1, <1>5, <1>9
<1>11. overdue \in 0..owes
  <2>1. row.overdue \in 0..row.owes
    BY DEF RowFits
  <2> QED
    BY <2>1, <1>1, <1>6, <1>7 DEF owes
<1>12. Trail(undone)
  <2>1. \A k \in 0..(n - 1) : due[k] \in 0..Installments
    BY <1>2, <1>5
  <2>2. ASSUME NEW k \in 1..(n - 1) PROVE due[k - 1] = due[k] + log[k].applied
    <3>1. k \in 1..n
      BY <1>2
    <3>2. due[k - 1] = due[k] + row.payments[k].applied
      BY <1>5, <3>1
    <3>3. log[k] = row.payments[k]
      BY <1>3
    <3> QED
      BY <3>2, <3>3
  <2> QED
    BY <1>3, <1>8, <1>9, <2>1, <2>2 DEF Trail
<1>13. RowFits(undone)
  BY <1>8, <1>10, <1>11, <1>12 DEF RowFits
<1> QED
  BY <1>4, <1>13 DEF undone

\* One loan's row changes, or all of them do.
LEMMA LoansFitInv ==
    ASSUME IndInv, LoansFit, FundFits, [Next]_vars
    PROVE  LoansFit'
<1>0. loan \in [Loan -> Row] /\ Installments \in Nat
  BY GroupAssumption DEF IndInv, Shape
<1> USE DEF LoansFit
<1>1. ASSUME NEW l \in Loan, NEW row, RowFits(row), loan' = [loan EXCEPT ![l] = row] PROVE LoansFit'
  BY <1>0, <1>1
<1>2. CASE UNCHANGED loan
  BY <1>2 DEF RowFits, Trail
<1>3. CASE LoanNext
  <2> SUFFICES ASSUME NEW l \in Loan,
                      \/ \E p \in Person : Apply(p, l)
                      \/ Resubmit(l) \/ ReadGroup(l) \/ Abandon(l)
                      \/ \E as \in {"Draft", "Submitted"} : File(l, as)
                      \/ \E p \in Person, agrees \in BOOLEAN : RecordConsent(l, p, agrees)
                      \/ StartReview(l) \/ Approve(l) \/ Return(l) \/ Reject(l) \/ Cancel(l)
                      \/ Disburse(l) \/ FallDue(l)
                      \/ \E amount \in Amount : Pay(l, amount) \/ ReversePayment(l, amount)
               PROVE  LoansFit'
    BY <1>3 DEF LoanNext
  <2>0. loan[l] \in Row /\ RowFits(loan[l]) /\ (filing[l] # "IDLE" => loan[l].status \in {"NONE", "Draft"})
    BY <1>0 DEF IndInv, FilingsAreNew
  <2>1. ASSUME NEW row, loan' = [loan EXCEPT ![l] = row],
               row.owes = loan[l].owes, row.overdue = loan[l].overdue, row.payments = loan[l].payments,
               loan[l].status \notin {"Active", "Closed"}
        PROVE  LoansFit'
    BY <2>0, <2>1, <1>1, SameAmounts
  <2>2. ASSUME NEW p \in Person, Apply(p, l) PROVE LoansFit'
    <3> DEFINE row == [loan[l] EXCEPT !["by"] = p]
    <3>1. row.owes = loan[l].owes /\ row.overdue = loan[l].overdue /\ row.payments = loan[l].payments
          /\ loan' = [loan EXCEPT ![l] = row] /\ loan[l].status = "NONE"
      BY <2>0, <2>2 DEF Apply, Set, Row
    <3> HIDE DEF row
    <3> QED
      BY <2>1, <3>1
  <2>3. CASE Resubmit(l) \/ ReadGroup(l) \/ \E p \in Person, agrees \in BOOLEAN : RecordConsent(l, p, agrees)
    BY <2>3, <1>2 DEF Resubmit, ReadGroup, RecordConsent
  <2>4. CASE Abandon(l)
    <3> DEFINE row == IF loan[l].status = "NONE" THEN NoLoanYet ELSE loan[l]
    <3>1. NoLoanYet.owes = 0 /\ NoLoanYet.overdue = 0 /\ NoLoanYet.payments = <<>>
          /\ NoLoanYet.status = "NONE"
      BY DEF NoLoanYet
    <3>2. Trail(NoLoanYet)
      BY <3>1, <1>0, FreshTrail
    <3>3. RowFits(NoLoanYet)
      BY <3>1, <3>2, <1>0 DEF RowFits
    <3>4. RowFits(row) /\ loan' = [loan EXCEPT ![l] = row]
      BY <2>0, <2>4, <3>3 DEF Abandon
    <3> HIDE DEF row
    <3> QED
      BY <3>4, <1>1
  <2>5. ASSUME NEW as \in {"Draft", "Submitted"}, File(l, as) PROVE LoansFit'
    <3> DEFINE row == [loan[l] EXCEPT !.status = as, !.linked = filing[l] = "MEMBER"]
    <3>1. row.owes = loan[l].owes /\ row.overdue = loan[l].overdue /\ row.payments = loan[l].payments
          /\ loan' = [loan EXCEPT ![l] = row] /\ loan[l].status \in {"NONE", "Draft"}
      BY <2>0, <2>5 DEF File, Row
    <3> HIDE DEF row
    <3> QED
      BY <2>1, <3>1
  <2>6. ASSUME NEW next, Set(l, "status", next), loan[l].status \notin {"Active", "Closed"} PROVE LoansFit'
    <3> DEFINE row == [loan[l] EXCEPT !["status"] = next]
    <3>1. row.owes = loan[l].owes /\ row.overdue = loan[l].overdue /\ row.payments = loan[l].payments
          /\ loan' = [loan EXCEPT ![l] = row]
      BY <2>0, <2>6 DEF Set, Row
    <3> HIDE DEF row
    <3> QED
      BY <2>1, <2>6, <3>1
  <2>7. CASE StartReview(l) \/ Approve(l) \/ Return(l) \/ Reject(l) \/ Cancel(l)
    BY <2>7, <2>6 DEF StartReview, Approve, Return, Reject, Cancel, Pending
  <2>8. CASE Disburse(l)
    <3> DEFINE row == [loan[l] EXCEPT !.status = "Active", !.owes = Installments]
    <3>1. row.owes = Installments /\ row.overdue = loan[l].overdue /\ row.payments = loan[l].payments
          /\ row.status = "Active" /\ loan' = [loan EXCEPT ![l] = row] /\ loan[l].status = "Approved"
      BY <2>0, <2>8 DEF Disburse, Row
    <3> HIDE DEF row
    <3>2. row.payments = <<>> /\ row.overdue = 0
      BY <2>0, <3>1 DEF RowFits
    <3>3. Trail(row)
      BY <3>1, <3>2, <1>0, FreshTrail
    <3>4. RowFits(row)
      BY <3>1, <3>2, <3>3, <1>0 DEF RowFits
    <3> QED
      BY <3>1, <3>4, <1>1
  <2>9. CASE FallDue(l)
    <3> DEFINE row == [loan[l] EXCEPT !["overdue"] = loan[l].overdue + 1]
    <3>1. row.owes = loan[l].owes /\ row.overdue = loan[l].overdue + 1 /\ row.payments = loan[l].payments
          /\ row.status = loan[l].status /\ loan' = [loan EXCEPT ![l] = row]
          /\ loan[l].overdue < loan[l].owes /\ loan[l].status = "Active"
      BY <2>0, <2>9 DEF FallDue, Set, Row
    <3> HIDE DEF row
    <3>2. row.overdue \in 0..row.owes
      BY <2>0, <3>1, <1>0 DEF RowFits
    <3>3. RowFits(row)
      BY <2>0, <3>1, <3>2 DEF RowFits, Trail
    <3> QED
      BY <3>1, <3>3, <1>1
  <2>10. ASSUME NEW amount \in Amount, Pay(l, amount) PROVE LoansFit'
    <3>1. RowFits(Paid(loan[l], amount, "MEMBER")) /\ loan' = [loan EXCEPT ![l] = Paid(loan[l], amount, "MEMBER")]
      BY <2>0, <2>10, <1>0, PaidFits DEF Pay, Amount
    <3> QED
      BY <3>1, <1>1
  <2>11. ASSUME NEW due \in Amount, ReversePayment(l, due) PROVE LoansFit'
    <3>1. RowFits(Undone(loan[l], due)) /\ loan' = [loan EXCEPT ![l] = Undone(loan[l], due)]
      BY <2>0, <2>11, UndoneFits DEF ReversePayment
    <3> QED
      BY <3>1, <1>1
  <2> QED
    BY <2>2, <2>3, <2>4, <2>5, <2>7, <2>8, <2>9, <2>10, <2>11
<1>4. ASSUME NEW c \in Cover, PostCover(c) PROVE LoansFit'
  <2> DEFINE l == covering.loan
             row == Paid(loan[l], covering.amount, "FUND")
  <2>1. l \in Loan /\ covering.amount \in Nat /\ loan[l].status = "Active" /\ loan' = [loan EXCEPT ![l] = row]
    BY <1>4 DEF PostCover, IndInv, Shape, FundFits
  <2>2. RowFits(row)
    BY <2>1, <1>0, PaidFits
  <2> QED
    BY <2>1, <2>2, <1>1
<1>5. ASSUME NEW pays \in [Loan -> Amount], NEW given \in 0..MaxFund, NEW back \in [Cover -> Amount],
             PostCollection(pays, given, back)
      PROVE  LoansFit'
  <2> SUFFICES ASSUME NEW l \in Loan PROVE RowFits(loan'[l])
    OBVIOUS
  <2>1. loan'[l] = Paid(loan[l], pays[l], "MEMBER") /\ pays[l] \in Nat
        /\ (pays[l] = 0 \/ loan[l].status = "Active")
    BY <1>0, <1>5 DEF PostCollection, Amount
  <2> QED
    BY <2>1, <1>0, PaidFits
<1>6. CASE GroupNext \/ UNCHANGED vars
  BY <1>6, <1>2 DEF GroupNext, AddMember, SetRole, RemoveMember, Activate, Suspend, Dissolve, vars, loans
<1>7. CASE FundNext
  BY <1>2, <1>4, <1>5, <1>7 DEF FundNext, StartCover, AbandonCover, RepayCover, RefundFund, loans
<1> QED
  BY <1>3, <1>6, <1>7 DEF Next

\* What is paid back is not negative, and at most what is left.
LEMMA BackFits ==
    ASSUME IndInv, CoversFit, NEW back \in [Cover -> Amount], OldestFirst(back), GiveBack(back)
    PROVE  CoversFit' /\ Total(back) \in Nat
<1>1. \A c \in Cover : back[c] \in Nat
  BY GroupAssumption DEF Amount
<1>2. Total(back) \in Nat
  <2>1. IsFiniteSet(Cover) /\ DOMAIN back = Cover
    BY GroupAssumption
  <2>2. SumFunctionOnSet(back, Cover) \in Nat
    BY ONLY <1>1, <2>1, SumNat
  <2> QED
    BY <2>1, <2>2 DEF Total, SumFunction
<1>3. ASSUME NEW c \in Cover
      PROVE  cover'[c].left \in Nat /\ (cover'[c].status = "OUTSTANDING" <=> cover'[c].left > 0)
  <2> DEFINE r == cover[c]
             n == r.left - back[c]
             s == IF back[c] > 0 /\ back[c] = r.left THEN "REPAID" ELSE r.status
  <2>1. cover'[c] = [r EXCEPT !.left = n, !.status = s]
    BY DEF GiveBack
  <2>2. r \in CoverRow /\ r.left \in Nat /\ (r.status = "OUTSTANDING" <=> r.left > 0)
    BY DEF IndInv, Shape, CoversFit
  <2>3. back[c] \in Nat /\ back[c] <= r.left /\ (back[c] > 0 => r.status = "OUTSTANDING")
    BY <1>1 DEF OldestFirst
  <2>4. n \in Nat /\ (s = "OUTSTANDING" <=> n > 0)
    BY <2>2, <2>3
  <2> HIDE DEF n, s, r
  <2>5. cover'[c].left = n /\ cover'[c].status = s
    BY <2>1, <2>2 DEF CoverRow
  <2> QED
    BY <2>4, <2>5
<1> QED
  BY <1>2, <1>3 DEF CoversFit

\* The fund is spent on covers and refunds as far as it goes, and holds what it
\* can: nothing else takes from it while a cover is under way.
LEMMA MoneyFits ==
    ASSUME IndInv, CoversFit, FundFits, [Next]_vars
    PROVE  CoversFit' /\ FundFits'
<1>0. fund \in 0..MaxFund /\ MaxFund \in Nat /\ Installments \in Nat
  BY GroupAssumption DEF FundFits
<1>1. CASE UNCHANGED money
  BY <1>1 DEF money, CoversFit, FundFits
<1>2. ASSUME NEW l \in Loan, NEW amount \in Amount, StartCover(l, amount) PROVE CoversFit' /\ FundFits'
  <2>1. amount \in 1..fund /\ covering' = [loan |-> l, amount |-> amount] /\ UNCHANGED <<cover, fund>>
    <3>1. loan[l].overdue \in Int /\ amount \in 1..Smaller(fund, loan[l].overdue)
      BY <1>2 DEF StartCover, IndInv, Shape, Row
    <3>2. amount \in 1..fund
      BY <1>0, <3>1 DEF Smaller
    <3> QED
      BY <1>2, <3>2 DEF StartCover
  <2> QED
    BY <2>1 DEF CoversFit, FundFits
<1>3. ASSUME NEW c \in Cover, PostCover(c) PROVE CoversFit' /\ FundFits'
  <2>1. covering.amount \in 1..fund /\ fund' = fund - covering.amount /\ covering' = NotCovering
    BY <1>3 DEF PostCover, FundFits
  <2>2. FundFits'
    BY <1>0, <2>1 DEF FundFits
  <2> DEFINE row == [status |-> "OUTSTANDING", loan |-> covering.loan, left |-> covering.amount]
  <2>3. row.status = "OUTSTANDING" /\ row.left = covering.amount
    OBVIOUS
  <2>4. cover' = [cover EXCEPT ![c] = row]
    BY <1>3 DEF PostCover
  <2> HIDE DEF row
  <2>5. cover'[c] = row /\ \A d \in Cover \ {c} : cover'[d] = cover[d]
    BY <2>4 DEF IndInv, Shape
  <2>6. row.left \in Nat /\ row.left > 0
    BY <1>0, <2>1, <2>3
  <2>7. CoversFit'
    BY <2>3, <2>5, <2>6 DEF CoversFit
  <2> QED
    BY <2>2, <2>7
<1>4. CASE AbandonCover
  BY <1>4 DEF AbandonCover, CoversFit, FundFits
<1>5. ASSUME NEW back \in [Cover -> Amount], NEW p \in Person, RepayCover(p, back) PROVE CoversFit' /\ FundFits'
  <2>1. CoversFit' /\ Total(back) \in Nat
    BY <1>5, BackFits DEF RepayCover
  <2>2. fund' = fund + Total(back) /\ fund' <= MaxFund /\ covering' = NotCovering
    BY <1>5 DEF RepayCover, Unlocked
  <2> QED
    BY <1>0, <2>1, <2>2 DEF FundFits
<1>6. ASSUME NEW amount \in 1..MaxFund, RefundFund(amount) PROVE CoversFit' /\ FundFits'
  <2>1. amount \in 1..fund /\ fund' = fund - amount /\ cover' = cover /\ covering' = NotCovering
    BY <1>6 DEF RefundFund, Unlocked
  <2> QED
    BY <1>0, <2>1 DEF FundFits, CoversFit
<1>7. ASSUME NEW pays \in [Loan -> Amount], NEW given \in 0..MaxFund, NEW back \in [Cover -> Amount],
             PostCollection(pays, given, back)
      PROVE  CoversFit' /\ FundFits'
  <2>1. CoversFit' /\ Total(back) \in Nat
    BY <1>7, BackFits DEF PostCollection
  <2>2. fund' = fund + given + Total(back) /\ fund' <= MaxFund /\ covering' = NotCovering
    BY <1>7 DEF PostCollection, Unlocked
  <2> QED
    BY <1>0, <2>1, <2>2 DEF FundFits
<1>8. CASE GroupNext \/ LoanNext \/ UNCHANGED vars
  <2>1. UNCHANGED money
    BY <1>8 DEF GroupNext, AddMember, SetRole, RemoveMember, Activate, Suspend, Dissolve, vars,
       LoanNext, Apply, Resubmit, ReadGroup, Abandon, File, RecordConsent, StartReview, Approve,
       Return, Reject, Cancel, Disburse, FallDue, Pay, ReversePayment
  <2> QED
    BY <2>1, <1>1
<1>9. CASE FundNext
  BY <1>2, <1>3, <1>4, <1>5, <1>6, <1>7, <1>9 DEF FundNext
<1> QED
  BY <1>8, <1>9 DEF Next

\* A person takes an officer's role from its holder, or when nobody has it.
LEMMA OfficersInv ==
    ASSUME IndInv, OneOfEach, [Next]_vars
    PROVE  OneOfEach'
<1>0. role \in [Person -> Role \cup {"NONE"}] /\ "NONE" \notin Officers /\ "MEMBER" \notin Officers
  BY DEF IndInv, Shape, Officers
<1>1. CASE UNCHANGED role
  BY <1>1 DEF OneOfEach
<1>2. ASSUME NEW p \in Person, NEW r \in Role, AddMember(p, r) PROVE OneOfEach'
  BY <1>0, <1>2 DEF AddMember, OneOfEach
<1>3. ASSUME NEW p \in Person, NEW r \in Role, SetRole(p, r) PROVE OneOfEach'
  <2>1. role[p] # r /\ \A q \in Person :
           role'[q] = IF q = p THEN r ELSE IF r \in Officers /\ role[q] = r THEN role[p] ELSE role[q]
    BY <1>3 DEF SetRole, SwapsRole
  <2> QED
    BY <1>0, <2>1 DEF OneOfEach
<1>4. ASSUME NEW p \in Person, RemoveMember(p) PROVE OneOfEach'
  BY <1>0, <1>4 DEF RemoveMember, OneOfEach
<1>5. CASE Dissolve
  BY <1>0, <1>5 DEF Dissolve, OneOfEach
<1>6. CASE LoanNext \/ FundNext \/ UNCHANGED vars \/ Activate \/ Suspend
  <2>1. UNCHANGED role
    BY <1>6 DEF LoanNext, FundNext, vars, group, Activate, Suspend, Apply, Resubmit, ReadGroup, Abandon,
       File, RecordConsent, StartReview, Approve, Return, Reject, Cancel, Disburse, FallDue, Pay,
       ReversePayment, StartCover, PostCover, AbandonCover, RepayCover, RefundFund, PostCollection
  <2> QED
    BY <2>1, <1>1
<1> QED
  BY <1>2, <1>3, <1>4, <1>5, <1>6 DEF Next, GroupNext

\* A loan never owes more than was lent nor has more in arrears than it owes, a
\* cover is outstanding while something of it is left, the fund is never
\* overdrawn, and each office has one holder (postPaymentTx, reversePayment,
\* coverFromFund, repayCoversTx, setRole).
THEOREM TypesHold == Spec => []TypeOK
<1> DEFINE Fits == LoansFit /\ CoversFit /\ FundFits /\ OneOfEach
<1>1. Init => Fits
  <2> SUFFICES ASSUME Init PROVE Fits
    OBVIOUS
  <2>0. Installments \in Nat /\ MaxFund \in Nat
    BY GroupAssumption
  <2>1. NoLoanYet.owes = 0 /\ NoLoanYet.overdue = 0 /\ NoLoanYet.payments = <<>>
        /\ NoLoanYet.status = "NONE"
    BY DEF NoLoanYet
  <2>2. RowFits(NoLoanYet)
    BY <2>0, <2>1, FreshTrail DEF RowFits
  <2>3. LoansFit
    BY <2>2 DEF Init, LoansFit
  <2>4. CoversFit /\ FundFits /\ OneOfEach
    BY <2>0 DEF Init, CoversFit, FundFits, OneOfEach, Officers
  <2> QED
    BY <2>3, <2>4
<1>2. IndInv /\ Fits /\ [Next]_vars => Fits'
  BY LoansFitInv, MoneyFits, OfficersInv
<1>3. IndInv /\ Fits => TypeOK
  <2> SUFFICES ASSUME IndInv, Fits PROVE TypeOK
    OBVIOUS
  <2>1. ASSUME NEW l \in Loan
        PROVE  /\ loan[l].status \in Open \cup {"NONE", "Closed", "ENDED"}
               /\ loan[l].by \in Person \cup {NoOne} /\ loan[l].linked \in BOOLEAN
               /\ loan[l].owes \in 0..Installments /\ loan[l].overdue \in 0..loan[l].owes
    BY DEF IndInv, Shape, Row, LoansFit, RowFits
  <2>2. covering \in [loan : Loan, amount : 1..MaxFund] \cup {NotCovering}
    BY GroupAssumption DEF IndInv, Shape, FundFits
  <2>3. ASSUME NEW c \in Cover
        PROVE  /\ cover[c].status \in {"NONE", "OUTSTANDING", "REPAID"}
               /\ cover[c].left \in Nat /\ (cover[c].status = "OUTSTANDING" <=> cover[c].left > 0)
    BY DEF IndInv, Shape, CoverRow, CoversFit
  <2> QED
    BY <2>1, <2>2, <2>3 DEF IndInv, Shape, FundFits, OneOfEach, TypeOK
<1> HIDE DEF Fits
<1> QED
  BY <1>1, <1>2, <1>3, Invariance, PTL DEF Spec
=================================================================================
