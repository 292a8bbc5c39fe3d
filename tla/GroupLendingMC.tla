----------------------------- MODULE GroupLendingMC -----------------------------
(***************************************************************************)
(* Two loans, of two products, which one member may have at once.  Persons *)
(* differ in nothing but their names, nor do loans: Eligible asks only     *)
(* whether two of them are of the same product, and no two are.            *)
(***************************************************************************)
EXTENDS GroupLending, TLC

ProductsMC == [l \in Loan |-> l]

Symmetry == Permutations(Person) \cup Permutations(Loan)
=================================================================================
