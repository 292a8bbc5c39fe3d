----------------------------- MODULE LoanReleaseMC -----------------------------
(* Rates are in tenths, so that TLC's integers hold the powers of a level      *)
(* payment: a diminishing product at 100 percent a year and 12 periods, the    *)
(* same with other fees and a lower limit, and a flat one at 26.               *)
EXTENDS LoanRelease, TLC

DiminishingMC == [method |-> "DIMINISHING", periods |-> 12, rate |-> 10, percent |-> 1, fixed |-> 1,
                  min |-> 2, max |-> 20, open |-> TRUE]
FlatMC == [method |-> "FLAT", periods |-> 26, rate |-> 3, percent |-> 0, fixed |-> 0,
           min |-> 2, max |-> 20, open |-> TRUE]
ProductMC == {DiminishingMC, FlatMC, [DiminishingMC EXCEPT !.fixed = 3, !.max = 7, !.open = FALSE]}

LimitMC == [w \in Staff |-> IF w = CHOOSE s \in Staff : TRUE THEN 20 ELSE 7]

Symmetry == Permutations(Loan) \cup Permutations(Key)
================================================================================
