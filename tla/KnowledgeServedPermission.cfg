SPECIFICATION Spec
CONSTANTS
    Items = {i1, i2}
    Sources = {s1, s2}
    Versions = {v1, v2}
    Levels = {"public", "internal"}
    MaxChanges = 2
    LinkGuards = FALSE
    None = None
SYMMETRY RowSymmetry
INVARIANTS
    ServedAtStrictestPermission
