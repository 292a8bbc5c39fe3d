--------------------------- MODULE SavingsAccountMC ---------------------------
(* Two accounts of one member: regular savings on the average balance with  *)
(* one withdrawal a month, and another account on the lowest balance.       *)
EXTENDS SavingsAccount

CONSTANTS a1, a2, member

Owned == [a \in Account |-> member]

Regular ==
    [code |-> "REG", kind |-> "REGULAR", lowest |-> FALSE, rate |-> 1, minimum |-> 1,
     opening |-> 0, most |-> 1, perMonth |-> 1, term |-> 0]
Group ==
    [code |-> "GRP", kind |-> "COMPULSORY", lowest |-> TRUE, rate |-> 1, minimum |-> 0,
     opening |-> 3, most |-> 9, perMonth |-> 9, term |-> 0]
Products == [a \in Account |-> IF a = a1 THEN Regular ELSE Group]
Amounts  == {1, 3}

===============================================================================
