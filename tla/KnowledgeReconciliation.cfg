SPECIFICATION FairSpec
CONSTANTS
    Items = {i1, i2}
    Sources = {s1}
    Versions = {v1, v2}
    Levels = {"public", "internal"}
    MaxChanges = 2
    LinkGuards = TRUE
    None = None
PROPERTIES
    ReconciliationConverges
