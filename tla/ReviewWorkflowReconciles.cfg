SPECIFICATION Spec
CONSTANTS
    Callers = {c1, c2}
    Items = {i1, i2}
    MaxVersion = 4
    MaxAttempt = 1
    Null = Null
SYMMETRY Alike
INVARIANTS
    LiveItemsReconcile
CHECK_DEADLOCK FALSE
