----------------------------- MODULE GroupLending -----------------------------
(***************************************************************************)
(* One lending group: its members and officers, the loans its members take *)
(* with the consent of the others, and its solidarity fund                 *)
(* (src/src/groups/service.ts, src/src/groups/rules.ts and the workflow of *)
(* a loan in src/src/lending/service.ts).                                  *)
(*                                                                         *)
(* What locks the loan or the group before it reads is one step.  Two      *)
(* things are not: an application reads the membership without the group's *)
(* lock, and a cover reads the loan without the loan's lock.               *)
(*                                                                         *)
(* Amounts are in installments.  The arrears limit is 0 days and members   *)
(* have no loans but those of the group.  KYC, terms, approval limits, the *)
(* roles of staff and the product's other conditions are left out: they    *)
(* only refuse what is allowed here.  Person is at most GROUP_MAX_MEMBERS. *)
(***************************************************************************)
EXTENDS Integers, SequencesExt

CONSTANTS
    Person,       \* verified members of the cooperative, of the group's branch
    NoOne,
    Loan,         \* rows of loans that may be filed
    NoLoan,
    ProductOf,    \* the loan product each row is of
    Cover,        \* numbers of the covers that may be made
    MinMembers,   \* GROUP_MIN_MEMBERS
    Installments, \* of a loan
    MaxFund       \* bound on the fund

ASSUME GroupAssumption ==
    /\ IsFiniteSet(Person) /\ NoOne \notin Person /\ NoLoan \notin Loan
    /\ DOMAIN ProductOf = Loan
    /\ Cover \subseteq Nat /\ IsFiniteSet(Cover)
    /\ MinMembers \in Nat \ {0} /\ Installments \in Nat \ {0} /\ MaxFund \in Nat

VARIABLES
    status,     \* solidarity_groups.status
    role,       \* each person's role in the group, NONE when not an active member
    loan,       \* each loan's status, borrower and installments
    consent,    \* group_loan_consents: who consents to each loan
    filing,     \* applications under way
    cover,      \* solidarity_covers
    fund,       \* solidarity_groups.fund_balance
    covering,   \* the cover under way, which holds the group's lock
    guarantors, \* who guaranteed each loan when it was approved
    reopened    \* loans settled once and opened again by a reversal

group == <<status, role>>
loans == <<loan, consent, filing, guarantors, reopened>>
money == <<cover, fund, covering>>
vars  == <<group, loans, money>>

Officers == {"LEADER", "SECRETARY", "TREASURER"}
Role     == Officers \cup {"MEMBER"}
Members  == {p \in Person : role[p] # "NONE"}

Open    == {"Draft", "Submitted", "Under Review", "Approved", "Active"}
Pending == {"Submitted", "Under Review"}

\* linked is loans.group_id; payments are those posted and not reversed.
NoLoanYet == [status |-> "NONE", by |-> NoOne, linked |-> FALSE,
              owes |-> 0, overdue |-> 0, payments |-> <<>>]
NotCovering == [loan |-> NoLoan, amount |-> 0]

Init ==
    /\ status = "FORMING" /\ role = [p \in Person |-> "NONE"]
    /\ loan = [l \in Loan |-> NoLoanYet]
    /\ consent = [l \in Loan |-> {}]
    /\ filing = [l \in Loan |-> "IDLE"]
    /\ cover = [c \in Cover |-> [status |-> "NONE", loan |-> NoLoan, left |-> 0]]
    /\ fund = 0 /\ covering = NotCovering
    /\ guarantors = [l \in Loan |-> {}] /\ reopened = {}

Set(l, field, value) == loan' = [loan EXCEPT ![l] = [@ EXCEPT ![field] = value]]

-------------------------------------------------------------------------------
\* The group: everything here locks it.

Unlocked == covering = NotCovering

\* Mistaken: only loans already released count.
RunningGroupLoans == {l \in Loan : loan[l].linked /\ loan[l].status = "Active"}

\* openGroupLoans, outstandingCovers
GroupLoans  == {l \in Loan : loan[l].linked /\ loan[l].status \in Open}
Outstanding == {c \in Cover : cover[c].status = "OUTSTANDING"}
Borrower(c) == loan[cover[c].loan].by

MembershipOpen == status \in {"FORMING", "ACTIVE"}

AddMember(p, r) ==
    /\ Unlocked /\ MembershipOpen
    /\ role[p] = "NONE"
    /\ r \in Officers => \A q \in Person : role[q] # r
    /\ role' = [role EXCEPT ![p] = r]
    /\ UNCHANGED <<status, loans, money>>

\* What keeps a member: a group loan, or a cover still owed.
Bound(p) ==
    \/ \E l \in GroupLoans : loan[l].by = p
    \/ \E c \in Outstanding : Borrower(c) = p

RemoveMember(p) ==
    /\ Unlocked /\ MembershipOpen
    /\ role[p] # "NONE"
    /\ ~Bound(p)
    /\ status = "ACTIVE" => role[p] # "LEADER" /\ Cardinality(Members) > MinMembers
    /\ role' = [role EXCEPT ![p] = "NONE"]
    /\ UNCHANGED <<status, loans, money>>

\* Mistaken: the holder of the role is not asked for it.
TakesRole(p, r) == role' = [role EXCEPT ![p] = r]

\* The holder of an officer's role gets the role of the person who takes it.
SwapsRole(p, r) ==
    role' = [q \in Person |->
               CASE q = p -> r
                 [] q # p /\ r \in Officers /\ role[q] = r -> role[p]
                 [] OTHER -> role[q]]

SetRole(p, r) ==
    /\ Unlocked /\ MembershipOpen
    /\ role[p] \notin {"NONE", r}
    /\ status = "ACTIVE" /\ role[p] \in Officers => r # "MEMBER"
    /\ SwapsRole(p, r)
    /\ UNCHANGED <<status, loans, money>>

\* activationIssues
Ready == /\ Cardinality(Members) >= MinMembers
         /\ \A o \in Officers : \E p \in Person : role[p] = o

Activate ==
    /\ Unlocked
    /\ status \in {"FORMING", "SUSPENDED"} /\ Ready
    /\ status' = "ACTIVE"
    /\ UNCHANGED <<role, loans, money>>

Suspend ==
    /\ Unlocked
    /\ status = "ACTIVE" /\ status' = "SUSPENDED"
    /\ UNCHANGED <<role, loans, money>>

\* dissolutionIssues
Settled == GroupLoans = {} /\ Outstanding = {} /\ fund = 0

Dissolve ==
    /\ Unlocked
    /\ status # "DISSOLVED" /\ Settled
    /\ status' = "DISSOLVED" /\ role' = [p \in Person |-> "NONE"]
    /\ UNCHANGED <<loans, money>>

-------------------------------------------------------------------------------
\* Applications: createApplication and submitApplication lock the member's row
\* (and the loan's), never the group's.

\* groupBlock: an installment past due, or a cover still owed.
Blocked ==
    \/ \E l \in Loan : loan[l].by \in Members /\ loan[l].status = "Active" /\ loan[l].overdue > 0
    \/ Outstanding # {}

\* assessEligibility, the loan itself excepted: one open application or loan per
\* product.  An overdue loan of the member's own already blocks the group.
Eligible(p, l) ==
    /\ status = "ACTIVE" /\ p \in Members /\ ~Blocked
    /\ \A other \in Loan \ {l} :
          loan[other].by = p /\ ProductOf[other] = ProductOf[l] => loan[other].status \notin Open

MemberFree(p) == \A l \in Loan : filing[l] # "IDLE" => loan[l].by # p

Apply(p, l) ==
    /\ loan[l].status = "NONE" /\ filing[l] = "IDLE"
    /\ MemberFree(p) /\ Eligible(p, l)
    /\ Set(l, "by", p)
    /\ filing' = [filing EXCEPT ![l] = "CHECKED"]
    /\ UNCHANGED <<group, consent, guarantors, reopened, money>>

Resubmit(l) ==
    /\ loan[l].status = "Draft" /\ filing[l] = "IDLE"
    /\ MemberFree(loan[l].by) /\ Eligible(loan[l].by, l)
    /\ filing' = [filing EXCEPT ![l] = "CHECKED"]
    /\ UNCHANGED <<group, loan, consent, guarantors, reopened, money>>

\* membershipOf, asked again for the row's group_id
ReadGroup(l) ==
    /\ filing[l] = "CHECKED"
    /\ filing' = [filing EXCEPT ![l] = IF loan[l].by \in Members THEN "MEMBER" ELSE "STRANGER"]
    /\ UNCHANGED <<group, loan, consent, guarantors, reopened, money>>

File(l, as) ==
    /\ filing[l] \in {"MEMBER", "STRANGER"}
    /\ loan[l].status = "Draft" => as = "Submitted"
    /\ loan' = [loan EXCEPT ![l] = [@ EXCEPT !.status = as, !.linked = filing[l] = "MEMBER"]]
    /\ filing' = [filing EXCEPT ![l] = "IDLE"]
    /\ UNCHANGED <<group, consent, guarantors, reopened, money>>

\* Refused or lost with the server: nothing is kept.
Abandon(l) ==
    /\ filing[l] # "IDLE" /\ filing' = [filing EXCEPT ![l] = "IDLE"]
    /\ loan' = [loan EXCEPT ![l] = IF @.status = "NONE" THEN NoLoanYet ELSE @]
    /\ UNCHANGED <<group, consent, guarantors, reopened, money>>

-------------------------------------------------------------------------------
\* Consent and decision: each locks the loan, then its group.

Mine(l) == filing[l] = "IDLE"    \* no application holds the loan's lock

\* Mistaken: until the money is out.
OpenToConsent(l) == loan[l].status \in Pending \cup {"Approved"}

ConsentOpen(l) == loan[l].status \in Pending

\* recordConsent: one row for each loan and member, the last answer counts.
RecordConsent(l, p, agrees) ==
    /\ Mine(l) /\ Unlocked
    /\ ConsentOpen(l) /\ loan[l].linked
    /\ p \in Members \ {loan[l].by}
    /\ consent' = [consent EXCEPT ![l] = IF agrees THEN @ \cup {p} ELSE @ \ {p}]
    /\ UNCHANGED <<group, loan, filing, guarantors, reopened, money>>

StartReview(l) ==
    /\ Mine(l) /\ loan[l].status = "Submitted"
    /\ Set(l, "status", "Under Review")
    /\ UNCHANGED <<group, consent, filing, guarantors, reopened, money>>

\* assertGroupLoanAllowed, at approval and at release
GroupAllows(l) ==
    /\ Unlocked
    /\ loan[l].linked /\ status = "ACTIVE" /\ loan[l].by \in Members
    /\ ~Blocked

\* consentStatus.required, over the members of the moment
Others(l) == Members \ {loan[l].by}

Complete(l) == Others(l) # {} /\ Others(l) \subseteq consent[l]

Approve(l) ==
    /\ Mine(l) /\ loan[l].status \in Pending
    /\ GroupAllows(l) /\ Complete(l)
    /\ Set(l, "status", "Approved")
    /\ guarantors' = [guarantors EXCEPT ![l] = Others(l)]
    /\ UNCHANGED <<group, consent, filing, reopened, money>>

\* What members consented to stays on the row.
Return(l) ==
    /\ Mine(l) /\ loan[l].status \in Pending
    /\ Set(l, "status", "Draft")
    /\ UNCHANGED <<group, consent, filing, guarantors, reopened, money>>

\* ENDED is Rejected or Cancelled.
Reject(l) ==
    /\ Mine(l) /\ loan[l].status \in Pending
    /\ Set(l, "status", "ENDED")
    /\ UNCHANGED <<group, consent, filing, guarantors, reopened, money>>

Cancel(l) ==
    /\ Mine(l) /\ loan[l].status \in {"Draft", "Approved"} \cup Pending
    /\ Set(l, "status", "ENDED")
    /\ UNCHANGED <<group, consent, filing, guarantors, reopened, money>>

Disburse(l) ==
    /\ Mine(l) /\ loan[l].status = "Approved"
    /\ GroupAllows(l)
    /\ loan' = [loan EXCEPT ![l] = [@ EXCEPT !.status = "Active", !.owes = Installments]]
    /\ UNCHANGED <<group, consent, filing, guarantors, reopened, money>>

-------------------------------------------------------------------------------
\* Repayment, in what the group sees of it

FallDue(l) ==
    /\ loan[l].status = "Active" /\ loan[l].overdue < loan[l].owes
    /\ Set(l, "overdue", loan[l].overdue + 1)
    /\ UNCHANGED <<group, consent, filing, guarantors, reopened, money>>

Smaller(a, b) == IF a < b THEN a ELSE b

\* postPaymentTx: oldest installments first; what is above the debt is not
\* applied; the last installment closes the loan.
Paid(row, amount, from) ==
    IF amount = 0 THEN row
    ELSE [row EXCEPT !.owes     = @ - Smaller(@, amount),
                     !.overdue  = @ - Smaller(@, amount),
                     !.payments = Append(@, [from |-> from, applied |-> Smaller(row.owes, amount)]),
                     !.status   = IF amount >= row.owes THEN "Closed" ELSE @]

Pay(l, amount) ==
    /\ loan[l].status = "Active" /\ amount \in 1..loan[l].owes
    /\ loan' = [loan EXCEPT ![l] = Paid(@, amount, "MEMBER")]
    /\ UNCHANGED <<group, consent, filing, guarantors, reopened, money>>

\* unapplyAllocation: what had fallen due before today is past due again.
Undone(row, due) ==
    [row EXCEPT !.status = "Active", !.overdue = due, !.payments = Front(@),
                !.owes = @ + Last(row.payments).applied]

\* reversePayment: the latest, unless the fund paid it.  No lock of the group:
\* the loan is open again whoever has left meanwhile.
ReversePayment(l, due) ==
    LET row == loan[l]
    IN  /\ row.status \in {"Active", "Closed"}
        /\ row.payments # <<>> /\ Last(row.payments).from = "MEMBER"
        /\ due \in row.overdue .. (row.overdue + Last(row.payments).applied)
        /\ loan' = [loan EXCEPT ![l] = Undone(@, due)]
        /\ reopened' = IF row.status = "Closed" THEN reopened \cup {l} ELSE reopened
        /\ UNCHANGED <<group, consent, filing, guarantors, money>>

-------------------------------------------------------------------------------
\* The solidarity fund

FundUsable == status \in {"ACTIVE", "SUSPENDED"}

\* coverFromFund: at most what is past due and what the fund holds; the loan
\* is read without its lock ...
StartCover(l, amount) ==
    /\ Unlocked /\ FundUsable
    /\ loan[l].linked /\ loan[l].status = "Active"
    /\ amount \in 1..Smaller(fund, loan[l].overdue)
    /\ covering' = [loan |-> l, amount |-> amount]
    /\ UNCHANGED <<group, loans, cover, fund>>

\* ... and the payment is posted with it.
PostCover(c) ==
    /\ covering # NotCovering
    /\ loan[covering.loan].status = "Active"
    /\ cover[c].status = "NONE" /\ \A d \in Cover : d < c => cover[d].status # "NONE"
    /\ loan' = [loan EXCEPT ![covering.loan] = Paid(@, covering.amount, "FUND")]
    /\ cover' = [cover EXCEPT ![c] = [status |-> "OUTSTANDING", loan |-> covering.loan,
                                      left |-> covering.amount]]
    /\ fund' = fund - covering.amount
    /\ covering' = NotCovering
    /\ UNCHANGED <<group, consent, filing, guarantors, reopened>>

\* The loan is no longer active, or the server went down: nothing is kept.
AbandonCover ==
    /\ covering # NotCovering /\ covering' = NotCovering
    /\ UNCHANGED <<group, loans, cover, fund>>

Total(back) == SumFunction(back)

\* repayCoversTx: back[c] of each cover, at most what is left of it, the
\* earlier covers of the same member first.
OldestFirst(back) ==
    \A c \in Cover :
        /\ back[c] > 0 => cover[c].status = "OUTSTANDING"
        /\ back[c] <= cover[c].left
        /\ back[c] > 0 => \A d \in Outstanding :
              d < c /\ Borrower(d) = Borrower(c) => back[d] = cover[d].left
GiveBack(back) ==
    cover' = [c \in Cover |->
                [cover[c] EXCEPT !.left = @ - back[c],
                                 !.status = IF back[c] > 0 /\ back[c] = cover[c].left
                                            THEN "REPAID" ELSE @]]

\* repayCover: by a member or by one who left, in a group of any status.
RepayCover(p, back) ==
    /\ Unlocked
    /\ OldestFirst(back)
    /\ \E c \in Cover : back[c] > 0
    /\ \A c \in Cover : back[c] > 0 => Borrower(c) = p
    /\ fund + Total(back) <= MaxFund
    /\ GiveBack(back) /\ fund' = fund + Total(back)
    /\ UNCHANGED <<group, loans, covering>>

RefundFund(amount) ==
    /\ Unlocked
    /\ Outstanding = {}
    /\ amount \in 1..fund
    /\ fund' = fund - amount
    /\ UNCHANGED <<group, loans, cover, covering>>

\* postCollection: payments on members' loans, contributions and covers paid
\* back, all of it or nothing.
PostCollection(pays, given, back) ==
    /\ Unlocked /\ FundUsable
    /\ \A l \in Loan : pays[l] > 0 =>
          /\ loan[l].linked /\ loan[l].by \in Members
          /\ loan[l].status = "Active" /\ pays[l] <= loan[l].owes
    /\ given > 0 => Members # {}
    /\ OldestFirst(back) /\ \A c \in Cover : back[c] > 0 => Borrower(c) \in Members
    /\ fund + given + Total(back) <= MaxFund
    /\ loan' = [l \in Loan |-> Paid(loan[l], pays[l], "MEMBER")]
    /\ GiveBack(back) /\ fund' = fund + given + Total(back)
    /\ UNCHANGED <<group, consent, filing, guarantors, reopened, covering>>

-------------------------------------------------------------------------------
Amount == 0..Installments

GroupNext ==
    \/ \E p \in Person, r \in Role : AddMember(p, r) \/ SetRole(p, r)
    \/ \E p \in Person : RemoveMember(p)
    \/ Activate \/ Suspend \/ Dissolve

LoanNext ==
    \E l \in Loan :
        \/ \E p \in Person : Apply(p, l)
        \/ Resubmit(l) \/ ReadGroup(l) \/ Abandon(l)
        \/ \E as \in {"Draft", "Submitted"} : File(l, as)
        \/ \E p \in Person, agrees \in BOOLEAN : RecordConsent(l, p, agrees)
        \/ StartReview(l) \/ Approve(l) \/ Return(l) \/ Reject(l) \/ Cancel(l)
        \/ Disburse(l) \/ FallDue(l)
        \/ \E amount \in Amount : Pay(l, amount) \/ ReversePayment(l, amount)

FundNext ==
    \/ \E l \in Loan, amount \in Amount : StartCover(l, amount)
    \/ \E c \in Cover : PostCover(c)
    \/ AbandonCover
    \/ \E back \in [Cover -> Amount], p \in Person : RepayCover(p, back)
    \/ \E amount \in 1..MaxFund : RefundFund(amount)
    \/ \E pays \in [Loan -> Amount], given \in 0..MaxFund, back \in [Cover -> Amount] :
          PostCollection(pays, given, back)

Next == GroupNext \/ LoanNext \/ FundNext
Spec == Init /\ [][Next]_vars

-------------------------------------------------------------------------------
\* Types: every variable stays in its domain; a person holds one role.
TypeOK ==
    /\ status \in {"FORMING", "ACTIVE", "SUSPENDED", "DISSOLVED"}
    /\ role \in [Person -> Role \cup {"NONE"}]
    /\ \A p, q \in Person : role[p] \in Officers /\ role[q] = role[p] => p = q
    /\ \A l \in Loan :
          /\ loan[l].status \in Open \cup {"NONE", "Closed", "ENDED"}
          /\ loan[l].by \in Person \cup {NoOne} /\ loan[l].linked \in BOOLEAN
          /\ loan[l].owes \in 0..Installments /\ loan[l].overdue \in 0..loan[l].owes
    /\ consent \in [Loan -> SUBSET Person] /\ guarantors \in [Loan -> SUBSET Person]
    /\ filing \in [Loan -> {"IDLE", "CHECKED", "MEMBER", "STRANGER"}]
    /\ \A c \in Cover :
          /\ cover[c].status \in {"NONE", "OUTSTANDING", "REPAID"}
          /\ cover[c].left \in Nat /\ (cover[c].status = "OUTSTANDING" <=> cover[c].left > 0)
    /\ fund \in 0..MaxFund
    /\ covering \in [loan : Loan, amount : 1..MaxFund] \cup {NotCovering}
    /\ reopened \subseteq Loan

\* A loan that was approved keeps its guarantors: there is at least one, none
\* of them is the borrower, and the consent of each still stands, whoever
\* joined, left or changed their mind since (recordConsent, decideApplication).
GuaranteesStand ==
    \A l \in Loan : loan[l].status \in {"Approved", "Active", "Closed"} =>
        /\ guarantors[l] # {} /\ loan[l].by \notin guarantors[l]
        /\ guarantors[l] \subseteq consent[l]

\* Nobody leaves with the group's money, and no group dissolves over it: who
\* has an approved or running loan, or owes a cover, is a member, unless a
\* reversal opened the loan again (removeMember, changeGroupStatus,
\* assertGroupLoanAllowed, coverFromFund).
NoOrphanDebt ==
    /\ \A l \in Loan \ reopened :
          loan[l].status \in {"Approved", "Active"} => loan[l].linked /\ loan[l].by \in Members
    /\ \A c \in Outstanding : cover[c].loan \notin reopened => Borrower(c) \in Members
    /\ status = "DISSOLVED" => Outstanding = {} /\ fund = 0 /\ Members = {}

\* "An active group keeps its minimum size" (docs/GROUP_LENDING.md), through
\* suspensions and everyone who joins and leaves.
ActiveKeepsItsSize == status = "ACTIVE" => Cardinality(Members) >= MinMembers
===============================================================================
