------------------------------ MODULE LoanRelease ------------------------------
(***************************************************************************)
(* Loans from the application to the release, while the product they were  *)
(* applied for may be changed (src/src/lending/service.ts).                *)
(*                                                                         *)
(* Every operation locks the loan's row and is one step, except a release: *)
(* it looks for its idempotency key under the lock of its own loan, so     *)
(* that another loan's release with the same key may run beside it, and    *)
(* only the unique key of loan_disbursements keeps them apart.             *)
(*                                                                         *)
(* Each loan is another member's.  KYC, groups (see GroupLending),         *)
(* eligibility, a product's limits on terms, purposes, documents and dates *)
(* are left out: they only refuse what is allowed here.                    *)
(***************************************************************************)
EXTENDS LoanSchedule

CONSTANTS
    Loan,
    Staff,         \* who may file, decide and release
    Member,        \* who files through the portal
    Limit,         \* approval limit of each one's role, 0 without one
    Key,           \* idempotency keys of releases
    Principal, Term,  \* what may be applied for
    Product,       \* what the product may be, now or after a change
    NoLoan

ASSUME ReleaseAssumption ==
    /\ Member \notin Staff /\ NoLoan \notin Loan
    /\ Limit \in [Staff -> Nat] /\ Principal \subseteq Nat \ {0} /\ Term \subseteq Nat \ {0}
    /\ \A p \in Product :
          /\ p.method \in {"FLAT", "DIMINISHING"} /\ p.periods \in {12, 26, 52}
          /\ p.rate \in 0..Unit /\ p.percent \in 0..(Unit - 1) /\ p.fixed \in Nat
          /\ p.min \in Nat \ {0} /\ p.max \in Nat /\ p.open \in BOOLEAN

VARIABLES
    product,    \* the row of loan_products
    loan,       \* rows of loans
    schedule,   \* rows of loan_schedule, by loan
    releases,   \* rows of loan_disbursements
    ledger,     \* balances of the accounts
    borrowed,   \* borrowers.total_borrowed, of each loan's member
    releasing,  \* the loan and key each clerk's release holds
    asked,      \* amount and rate last applied for: an observer, as is ...
    approved    \* ... the quote that was approved, and who approved it

rows == <<schedule, releases, ledger, borrowed>>
vars == <<product, loan, rows, releasing, asked, approved>>

Account == {"LOANS_RECEIVABLE", "CASH", "SERVICE_FEE_INCOME"}

NoTerms    == [principal |-> 0, term |-> 0, method |-> "FLAT", periods |-> 12, rate |-> 0, fees |-> 0]
NotFiled   == [status |-> "NONE", filedBy |-> Member, terms |-> NoTerms]
NotHeld    == [loan |-> NoLoan, key |-> NoLoan]
NotAsked   == [principal |-> 0, method |-> "FLAT", periods |-> 12, rate |-> 0]
NoApproval == [by |-> Member, terms |-> NoTerms, lines |-> <<>>]

Init ==
    /\ product \in Product
    /\ loan = [l \in Loan |-> NotFiled]
    /\ schedule = [l \in Loan |-> <<>>]
    /\ releases = {} /\ ledger = [a \in Account |-> 0] /\ borrowed = [l \in Loan |-> 0]
    /\ releasing = [w \in Staff |-> NotHeld]
    /\ asked = [l \in Loan |-> NotAsked]
    /\ approved = [l \in Loan |-> NoApproval]

Free(l) == \A w \in Staff : releasing[w].loan # l    \* nobody holds its lock

-------------------------------------------------------------------------------
\* Before the decision

SaveProduct(p) ==
    /\ p # product /\ product' = p
    /\ UNCHANGED <<loan, rows, releasing, asked, approved>>

\* validateLoanTerms, and the QuoteError of fees that take it all
TermsAllowed(principal) ==
    principal \in product.min .. product.max /\ Fees(principal, product) < principal

\* quoteFor: the product's terms and fees of this moment
Quoted(principal, term) ==
    [principal |-> principal, term |-> term, fees |-> Fees(principal, product),
     method |-> product.method, periods |-> product.periods, rate |-> product.rate]

\* createApplication, or submitApplication of a draft or of what was returned,
\* with the same terms or others.  The filer stays the first one.
File(l, who, principal, term, status) ==
    /\ Free(l)
    /\ \/ loan[l].status = "NONE" /\ status \in {"Draft", "Submitted"}
       \/ loan[l].status = "Draft" /\ status = "Submitted"
    /\ product.open /\ TermsAllowed(principal)
    /\ loan' = [loan EXCEPT ![l] = [status |-> status, terms |-> Quoted(principal, term),
                                    filedBy |-> IF @.status = "NONE" THEN who ELSE @.filedBy]]
    /\ asked' = [asked EXCEPT ![l] = [principal |-> principal, method |-> product.method,
                                      periods |-> product.periods, rate |-> product.rate]]
    /\ UNCHANGED <<product, rows, releasing, approved>>

Move(l, from, to) ==
    /\ Free(l) /\ loan[l].status \in from
    /\ loan' = [loan EXCEPT ![l] = [@ EXCEPT !.status = to]]
    /\ UNCHANGED <<product, rows, releasing, asked, approved>>

StartReview(l) == Move(l, {"Submitted"}, "Under Review")
Return(l)      == Move(l, {"Submitted", "Under Review"}, "Draft")
Reject(l)      == Move(l, {"Submitted", "Under Review"}, "Rejected")
Cancel(l)      == Move(l, {"Draft", "Submitted", "Under Review", "Approved"}, "Cancelled")

-------------------------------------------------------------------------------
\* Approval

\* "The rate and method are the ones applied for; fees are fixed now."
ApprovedTerms(row, principal, term) ==
    [row.terms EXCEPT !.principal = principal, !.term = term, !.fees = Fees(principal, product)]

Lines(terms) == Installments(terms.principal, terms.term, terms)

Approve(l, who, principal, term) ==
    /\ Free(l) /\ loan[l].status \in {"Submitted", "Under Review"}
    /\ loan[l].filedBy # who
    /\ TermsAllowed(principal) /\ principal <= loan[l].terms.principal
    /\ principal <= Limit[who]
    /\ LET terms == ApprovedTerms(loan[l], principal, term)
       IN  /\ loan' = [loan EXCEPT ![l] = [@ EXCEPT !.status = "Approved", !.terms = terms]]
           /\ approved' = [approved EXCEPT ![l] = [by |-> who, terms |-> terms, lines |-> Lines(terms)]]
    /\ UNCHANGED <<product, rows, releasing, asked>>

-------------------------------------------------------------------------------
\* Release

Released(l) == \E r \in releases : r.loan = l
KeyTaken(k) == \E r \in releases : r.key = k

\* A key that was used is answered or refused, here and below, without a change.
StartRelease(w, l, k) ==
    /\ releasing[w] = NotHeld /\ Free(l)
    /\ ~KeyTaken(k) /\ ~Released(l)
    /\ loan[l].status = "Approved"
    /\ releasing' = [releasing EXCEPT ![w] = [loan |-> l, key |-> k]]
    /\ UNCHANGED <<product, loan, rows, asked, approved>>

\* Mistaken: the fees of the day.
FeesNow(terms) == Fees(terms.principal, product)

FeesOf(terms) == terms.fees

\* Mistaken: what the key was looked up for is still so.
NoUniqueKey(k) == TRUE

\* loan_disbursements.idempotency_key UNIQUE
KeyAccepted(k) == ~KeyTaken(k)

\* The schedule is redone from the terms on the row.
PostRelease(w) ==
    LET l == releasing[w].loan
        terms == loan[l].terms
        entry == ReleaseEntry(terms.principal, FeesOf(terms))
    IN  /\ releasing[w] # NotHeld
        /\ KeyAccepted(releasing[w].key)
        /\ schedule' = [schedule EXCEPT ![l] = Lines(terms)]
        /\ releases' = releases \cup {[loan |-> l, key |-> releasing[w].key, gross |-> terms.principal,
                                       net |-> terms.principal - FeesOf(terms)]}
        /\ ledger' = [a \in Account |-> ledger[a] + entry[a]]
        /\ borrowed' = [borrowed EXCEPT ![l] = @ + terms.principal]
        /\ loan' = [loan EXCEPT ![l] = [@ EXCEPT !.status = "Active"]]
        /\ releasing' = [releasing EXCEPT ![w] = NotHeld]
        /\ UNCHANGED <<product, asked, approved>>

\* The key was taken meanwhile, a check refuses, or the connection is lost.
RollBack(w) ==
    /\ releasing[w] # NotHeld
    /\ releasing' = [releasing EXCEPT ![w] = NotHeld]
    /\ UNCHANGED <<product, loan, rows, asked, approved>>

-------------------------------------------------------------------------------
Next ==
    \/ \E p \in Product : SaveProduct(p)
    \/ \E l \in Loan :
          \/ \E who \in Staff \cup {Member}, principal \in Principal, term \in Term,
                status \in {"Draft", "Submitted"} : File(l, who, principal, term, status)
          \/ StartReview(l) \/ Return(l) \/ Reject(l) \/ Cancel(l)
          \/ \E who \in Staff, principal \in Principal, term \in Term : Approve(l, who, principal, term)
          \/ \E w \in Staff, k \in Key : StartRelease(w, l, k)
    \/ \E w \in Staff : PostRelease(w) \/ RollBack(w)

Spec == Init /\ [][Next]_vars

-------------------------------------------------------------------------------
\* Money leaves once: no loan and no key is released twice, a loan is active
\* exactly when it was released, and the ledger, the members' totals and the
\* releases agree, whatever releases overlap (disburseLoan).
ReleasedOnce ==
    /\ \A r, s \in releases : r.loan = s.loan \/ r.key = s.key => r = s
    /\ \A l \in Loan : loan[l].status = "Active" <=> Released(l)
    /\ ledger.LOANS_RECEIVABLE = SumFunction([r \in releases |-> r.gross])
    /\ ledger.CASH = -SumFunction([r \in releases |-> r.net])
    /\ ledger.LOANS_RECEIVABLE + ledger.CASH + ledger.SERVICE_FEE_INCOME = 0
    /\ \A r \in releases : borrowed[r.loan] = r.gross

\* What the member gets and owes is what was approved, by someone else than who
\* filed it, within their limit and the amount asked for, at the rate applied
\* for, however the product was changed meanwhile (decideApplication, disburseLoan).
ReleasedAsApproved ==
    \A r \in releases :
        LET a == approved[r.loan]
            q == asked[r.loan]
        IN  /\ r.gross = a.terms.principal /\ r.net = a.terms.principal - a.terms.fees
            /\ schedule[r.loan] = a.lines
            /\ a.by # loan[r.loan].filedBy
            /\ a.terms.principal <= Limit[a.by] /\ a.terms.principal <= q.principal
            /\ a.terms.method = q.method /\ a.terms.periods = q.periods /\ a.terms.rate = q.rate

\* What a schedule must be, in parts
Complete(lines, n, principal) ==
    /\ DOMAIN lines = 1..n
    /\ \A i \in 1..n : lines[i].principal >= 0 /\ lines[i].interest >= 0
    /\ Sum(lines, "principal") = principal

EvenlyCharged(lines, n, terms) ==
    /\ 12 * Unit * Sum(lines, "interest") - terms.principal * terms.rate * terms.term
          \in (1 - 6 * Unit) .. (6 * Unit)
    /\ \A i, j \in 1..n : i < j => /\ lines[i].principal - lines[j].principal \in {0, 1}
                                   /\ lines[i].interest - lines[j].interest \in {0, 1}

\* A payment at the end of every period is worth the principal, to the nearest centavo.
NearAnnuity(payment, n, terms) ==
    LET D == Unit * terms.periods
        B == D + terms.rate
        worth == SumFunction([i \in 1..n |-> Power(D, i) * Power(B, n - i)])
        gap == 2 * (payment * worth - terms.principal * Power(B, n))
    IN  gap <= worth /\ -gap <= worth

ChargedOnBalance(lines, n, terms) ==
    LET D == Unit * terms.periods
        owed(i) == terms.principal - Sum([j \in 1..(i - 1) |-> lines[j]], "principal")
    IN  /\ \A i \in 1..n : 2 * (D * lines[i].interest - owed(i) * terms.rate) \in (1 - D) .. D
        /\ \A i \in 1..(n - 1) :
              \/ NearAnnuity(lines[i].principal + lines[i].interest, n, terms)
              \/ lines[i].principal = owed(i) \/ lines[i].principal = 0

Repays(lines, terms) ==
    LET n == InstallmentCount(terms.term, terms.periods)
    IN  /\ Complete(lines, n, terms.principal)
        /\ terms.method = "FLAT" => EvenlyCharged(lines, n, terms)
        /\ terms.method = "DIMINISHING" /\ terms.rate > 0 => ChargedOnBalance(lines, n, terms)

\* The schedule repays the loan: each installment charges the interest of its
\* method, none is negative, the principal ends at zero, and an installment
\* before the last pays no more than the level payment, of which no whole
\* centavo comes nearer to the annuity (quoteLoan).
ScheduleRepays == \A r \in releases : Repays(schedule[r.loan], loan[r.loan].terms)
================================================================================
