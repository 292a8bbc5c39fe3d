CONSTANTS
    p1 = p1
    p2 = p2
    p3 = p3
    a1 = a1
    a2 = a2
    Payout = {p1, p2}
    Account = {a1, a2}
    Member = member
    Session = {s1, s2}
    None = none
    From <- TwoFrom
    Amount <- Twos
    CounterAmount = 1
    Opening <- Balances
    DailyLimit = 3
    MaxBalance = 3
SYMMETRY Symmetry
SPECIFICATION Spec
CHECK_DEADLOCK FALSE
INVARIANT MemberTotalIsSum
