SPECIFICATION Spec
CONSTANTS
    Staff = {t1, t2}
    Timer = Timer
    Checker = {Timer}
    Key = {k1}
    CoverKey = {c1}
    Proof = {f1}
    Reference = {r1}
    Amount = {2}
    Claim = {3}
    Installments = 2
    PrincipalDue <- PrincipalMC
    InterestDue <- InterestMC
    DueDate <- DueMC
    Month = 1
    PenaltyRate = 50
    LastDay = 2
SYMMETRY StaffSymmetry
INVARIANTS
    TypeOK
    PaidIsPosted
    BooksTie
    ClosedIsSettled
    ChargedOnce
    PaidOnce
PROPERTIES
    DecidedStaysDecided
CHECK_DEADLOCK FALSE
