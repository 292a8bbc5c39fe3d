SPECIFICATION FairSpec
CONSTANTS
    NoDeposit = NoDeposit
    Deposit = {d1}
    Request = {r1, r2}
    Sweeper = {s1}
    Amount <- AmountMC
    Payment = {1, 2}
    OpeningBalance = 1
    MaxOpen = 1
    MaxCrashes = 1
INVARIANTS
    CreditIsBacked
    ClosedHoldsNothing
PROPERTIES
    ResolvedIsFinal
    PaidIsDealtWith
    EndedIsSettled
CHECK_DEADLOCK FALSE
