----------------------------- MODULE MemberLocksMC -----------------------------
(***************************************************************************)
(* Instances of MemberLocks for TLC.  Two accounts, and amounts such that  *)
(* either withdrawal fits the day's limit and both do not.                 *)
(***************************************************************************)
EXTENDS MemberLocks, TLC

CONSTANTS p1, p2, p3, a1, a2

TwoFrom   == p1 :> a1 @@ p2 :> a2
SameFrom  == p1 :> a1 @@ p2 :> a1
ThreeFrom == p1 :> a1 @@ p2 :> a2 @@ p3 :> a1

Twos     == [p \in Payout |-> 2]
Balances == [a \in Account |-> 2]

\* The member's total is written and read by nobody: where no property is about
\* it, states that differ only in it, or in the sums on their way there, are one.
ExceptTotal == <<status, balance, posted, owner, session>>

Symmetry == Permutations(Session)
===============================================================================
