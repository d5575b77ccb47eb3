SPECIFICATION Spec
CONSTANTS
    Agents = {a1}
    Batches = {b1}
    Workers = {w1, w2}
    Reserve = 2
    Usages = {1, 3}
    NoUsage = NoUsage
    ExtractionCeiling = 2
    ValidationCeiling = 2
    TotalCeiling = 4
    MaxBatches = 2
    MaxLeases = 2
    MaxChanges = 1
SYMMETRY WorkerSymmetry
INVARIANTS
    TypeOK
    SingleDispatch
PROPERTIES
    StaleAnswersAreDropped
    ValidationIsOneShot
CHECK_DEADLOCK FALSE
