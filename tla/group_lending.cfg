SPECIFICATION Spec
CONSTANTS
    Person = {p1, p2, p3}
    NoOne = NoOne
    Loan = {l1, l2}
    NoLoan = NoLoan
    ProductOf <- ProductsMC
    Cover = {1, 2}
    MinMembers = 2
    Installments = 1
    MaxFund = 1
SYMMETRY Symmetry
INVARIANTS
    TypeOK
    GuaranteesStand
    NoOrphanDebt
CHECK_DEADLOCK FALSE
