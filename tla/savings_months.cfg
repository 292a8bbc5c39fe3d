SPECIFICATION FairSpec
CONSTANTS
    a1 = a1
    a2 = a2
    member = member
    Account = {a1, a2}
    Member = {member}
    Owner <- Owned
    Product <- Products
    Key = {k1, k2}
    Payout = {p1}
    Request = {q1}
    Poster = {t1}
    Timer = t1
    Amount <- Amounts
    DaysPerMonth = 2
    Year = 4
    Dormancy = 2
    FirstDay = 0
    LastDay = 3
INVARIANTS
    RequestPaidOnce
    InterestIsEarned
    MonthlyLimitBends
PROPERTIES
    ClosedIsFinal
    InterestArrives
CHECK_DEADLOCK FALSE
