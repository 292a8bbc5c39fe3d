-------------------------- MODULE InstantWithdrawal --------------------------
(***************************************************************************)
(* What an instant withdrawal promises, said without rows, locks, requests *)
(* or a provider: src/src/payments/service.ts:41 "The money leaves the     *)
(* savings account when the code is accepted and comes back automatically  *)
(* if the payout fails", and :45 "Exactly once".  Each withdrawal's money  *)
(* is taken from the savings account at most once, is then either sent to  *)
(* the member or returned to the account, and is returned at most once.    *)
(* OnlinePayout implements this specification.                             *)
(***************************************************************************)
EXTENDS Integers

CONSTANTS
    Payout,          \* the withdrawals a member may ask for
    Amount,          \* how much each one is for
    OpeningBalance   \* what the savings account holds at first

VARIABLES
    funds,   \* the savings balance
    money    \* where each withdrawal's money is

promise == <<funds, money>>

Place == {"saved", "taken", "sent", "returned"}

Init ==
    /\ funds = OpeningBalance
    /\ money = [p \in Payout |-> "saved"]

\* The code was accepted: the amount leaves the account, which can afford it.
Take(p) ==
    /\ money[p] = "saved"
    /\ funds >= Amount[p]
    /\ funds' = funds - Amount[p]
    /\ money' = [money EXCEPT ![p] = "taken"]

\* The money reached the member's bank or e-wallet account.
Send(p) ==
    /\ money[p] = "taken"
    /\ money' = [money EXCEPT ![p] = "sent"]
    /\ UNCHANGED funds

\* The payout failed or was reversed: the same amount comes back.
Return(p) ==
    /\ money[p] \in {"taken", "sent"}
    /\ money' = [money EXCEPT ![p] = "returned"]
    /\ funds' = funds + Amount[p]

\* Anything else that moves the balance leaves the withdrawals alone.
OtherMovement ==
    /\ funds' \in Nat
    /\ UNCHANGED money

Next ==
    \/ \E p \in Payout : Take(p) \/ Send(p) \/ Return(p)
    \/ OtherMovement

Spec == Init /\ [][Next]_promise
===============================================================================
