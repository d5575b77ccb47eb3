SPECIFICATION Spec
CONSTANTS
    Items = {i1, i2, i3}
    Sources = {s1}
    Versions = {v1, v2}
    Levels = {"public", "internal", "restricted"}
    MaxChanges = 2
    LinkGuards = FALSE
    None = None
SYMMETRY RowSymmetry
INVARIANTS
    TypeOK
    ReadyProjectionIsExact
    WithdrawnLeavesNoTrace
    KnowledgeNoBroaderThanApprovals
PROPERTIES
    AutoJoinsOnlyDuplicate
    RefinesTrustLifecycle
