---------------------------- MODULE OnlineDepositMC ----------------------------
(***************************************************************************)
(* Small instances of OnlineDeposit.                                       *)
(***************************************************************************)
EXTENDS OnlineDeposit

\* Every deposit is for 1; the provider may receive 1, or 2 by mistake.
AmountMC == [d \in Deposit |-> 1]
===============================================================================
