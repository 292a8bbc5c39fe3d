SPECIFICATION Spec
CONSTANTS
    Unit = 10
    Loan = {l1, l2}
    Staff = {o1, o2}
    Member = Member
    Limit <- LimitMC
    Key = {k1, k2}
    Principal = {7, 19}
    Term = {1, 3}
    Product <- ProductMC
    NoLoan = NoLoan
SYMMETRY Symmetry
INVARIANTS
    ReleasedOnce
    ReleasedAsApproved
    ScheduleRepays
CHECK_DEADLOCK FALSE
