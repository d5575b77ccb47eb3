SPECIFICATION FairSpec
CONSTANTS
    Agents = {a1}
    Batches = {b1, b2}
    Workers = {w1}
    Reserve = 2
    Usages = {1, 3}
    NoUsage = NoUsage
    ExtractionCeiling = 2
    ValidationCeiling = 4
    TotalCeiling = 5
    MaxBatches = 2
    MaxLeases = 1
    MaxChanges = 0
INVARIANTS
    BudgetKept
PROPERTIES
    ClaimedCallsSettle
CHECK_DEADLOCK FALSE
