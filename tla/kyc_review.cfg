SPECIFICATION Spec
CONSTANTS
    Reviewer = {r1, r2}
    NoOne = NoOne
    Key = {k1}
    NoKey = NoKey
    Call = {c1, c2}
    Form = {f1, f2}
    Required <- EveryPhoto
    Requests <- Asked
    MaxUploads <- Photos
    MaxVersions = 2
SYMMETRY Symmetry
INVARIANTS
    ChecksAreCurrent
    ApprovalIsGrounded
PROPERTIES
    ImplementsFile
CHECK_DEADLOCK FALSE
