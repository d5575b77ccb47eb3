SPECIFICATION Spec
CONSTANTS
    Callers = {c1, c2}
    Items = {i1, i2}
    MaxVersion = 10
    MaxAttempt = 2
    Null = Null
SYMMETRY Alike
INVARIANTS
    TypeOK
    VerdictMatchesReviews
    EndedGraphIsRecoverable
PROPERTIES
    TerminalIsFinal
    NoDraftAfterCancel
CHECK_DEADLOCK FALSE
