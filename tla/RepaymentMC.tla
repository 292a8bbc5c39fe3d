------------------------------ MODULE RepaymentMC ------------------------------
(***************************************************************************)
(* Small instances of Repayment: two installments, the second due a month  *)
(* after the first, with a day for a month, amounts in units of PHP 100.   *)
(***************************************************************************)
EXTENDS Repayment, TLC

PrincipalMC == <<1, 2>>
InterestMC == <<1, 0>>
DueMC == <<0, 1>>

StaffSymmetry == Permutations(Staff)
===============================================================================
