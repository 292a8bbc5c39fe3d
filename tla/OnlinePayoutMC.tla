---------------------------- MODULE OnlinePayoutMC ----------------------------
(***************************************************************************)
(* Small instances of OnlinePayout.  Amounts are in units of PHP 1,000.    *)
(***************************************************************************)
EXTENDS OnlinePayout, TLC

CONSTANTS p1, p2, p3

\* Withdrawals of 1, 2 and 2.
AmountMC == [p \in Payout |-> IF p = p1 THEN 1 ELSE 2]

\* Requests are served by interchangeable workers.
RequestSymmetry == Permutations(Request)
===============================================================================
