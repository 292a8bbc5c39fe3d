----------------------------- MODULE LoanSchedule -----------------------------
(***************************************************************************)
(* What a loan costs and how it is repaid: rates, fees, installments and   *)
(* the entry its release posts (src/shared/lending/money.ts,               *)
(* calculator.ts, disbursement.ts).  Amounts are centavos.  Due dates are  *)
(* left out.                                                               *)
(***************************************************************************)
EXTENDS Integers, Sequences, Functions

CONSTANT Unit    \* rates are parts of this: a million in the code

ASSUME ScheduleAssumption == Unit \in Nat \ {0}

DivRoundHalfUp(numerator, denominator) == (2 * numerator + denominator) \div (2 * denominator)

\* applyRate: a year's rate, for num of den parts of it
ApplyRate(amount, rate, num, den) == DivRoundHalfUp(amount * rate * num, Unit * den)

SplitEvenly(total, parts) ==
    [i \in 1..parts |-> total \div parts + (IF i <= total % parts THEN 1 ELSE 0)]

\* installmentCount: a term in months at 12, 26 or 52 periods a year
InstallmentCount(term, periods) ==
    IF periods = 12 THEN term ELSE DivRoundHalfUp(term * periods, 12)

\* base ** n
Power(base, n) ==
    LET power[k \in Nat] == IF k = 0 THEN 1 ELSE base * power[k - 1]
    IN  power[n]

\* The exact level payment, rounded once.
LevelPayment(principal, rate, periods, n) ==
    LET D == Unit * periods
        B == D + rate
    IN  DivRoundHalfUp(principal * rate * Power(B, n), D * (Power(B, n) - Power(D, n)))

Least(a, b) == IF a < b THEN a ELSE b

\* Mistaken: the last installment is a level one as well.
LevelToTheEnd(i, n, balance, level) == Least(balance, level)

\* The last installment repays whatever principal is left.
PrincipalPart(i, n, balance, level) ==
    CASE i = n -> balance
      [] i # n /\ level < 0 -> 0
      [] OTHER -> Least(balance, level)

\* What is owed after each installment,
BalanceAfter(principal, rate, periods, n) ==
    LET payment == LevelPayment(principal, rate, periods, n)
        after[i \in 0..n] ==
            IF i = 0 THEN principal
            ELSE after[i - 1] - PrincipalPart(i, n, after[i - 1],
                                              payment - ApplyRate(after[i - 1], rate, 1, periods))
    IN  after

\* and what each repays, with the interest charged on what was owed before it.
Diminishing(principal, rate, periods, n) ==
    LET after == BalanceAfter(principal, rate, periods, n)
    IN  [i \in 1..n |-> [principal |-> after[i - 1] - after[i],
                         interest |-> ApplyRate(after[i - 1], rate, 1, periods)]]

\* quoteLoan: the installments of these terms.
Installments(principal, term, terms) ==
    LET n       == InstallmentCount(term, terms.periods)
        even    == SplitEvenly(principal, n)
        charged == SplitEvenly(ApplyRate(principal, terms.rate, term, 12), n)
    IN  IF terms.method = "FLAT" THEN [i \in 1..n |-> [principal |-> even[i], interest |-> charged[i]]]
        ELSE IF terms.rate = 0 THEN [i \in 1..n |-> [principal |-> even[i], interest |-> 0]]
        ELSE Diminishing(principal, terms.rate, terms.periods, n)

Sum(lines, portion) == SumFunction([i \in DOMAIN lines |-> lines[i][portion]])

\* computeFees, as their total: a part of the principal and a fixed amount
Fees(principal, product) == ApplyRate(principal, product.percent, 1, 1) + product.fixed

\* disbursementJournal: debits are positive, credits negative.
ReleaseEntry(principal, fees) ==
    [LOANS_RECEIVABLE |-> principal, CASH |-> fees - principal, SERVICE_FEE_INCOME |-> -fees]
===============================================================================
