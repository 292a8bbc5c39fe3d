SPECIFICATION NotifiedSpec
CONSTANTS
    p1 = p1
    p2 = p2
    p3 = p3
    NoPayout = NoPayout
    Payout = {p1}
    Request = {r1}
    Sweeper = {s1}
    StaffAction = {}
    BranchAction = {"CLOSE"}
    Amount <- AmountMC
    Cash = {}
    OpeningBalance = 2
    MaxBalance = 2
    MinimumBalance = 0
    DailyLimit = 2
    MaxStarts = 1
    OtpMaxAttempts = 1
    LastDay = 1
    MaxCrashes = 0
PROPERTIES
    FailedIsReturned
CHECK_DEADLOCK FALSE
