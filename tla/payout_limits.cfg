SPECIFICATION Spec
CONSTANTS
    p1 = p1
    p2 = p2
    p3 = p3
    NoPayout = NoPayout
    Payout = {p1, p2}
    Request = {r1}
    Sweeper = {}
    StaffAction = {}
    BranchAction = {"FREEZE", "UNFREEZE", "REMOVE"}
    Amount <- AmountMC
    Cash = {1}
    OpeningBalance = 3
    MaxBalance = 4
    MinimumBalance = 1
    DailyLimit = 2
    MaxStarts = 2
    OtpMaxAttempts = 2
    LastDay = 2
    MaxCrashes = 0
INVARIANTS
    TypeOK
    Conservation
    DailyLimitHeld
CHECK_DEADLOCK FALSE
