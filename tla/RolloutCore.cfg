SPECIFICATION Spec
CONSTANTS
    Items = {i1, i2, i3}
    Sessions = {s1}
    Recovery = recovery
    Reasons = {incorrect}
    MandatoryAudits = 2
    ShadowGate = 1
    CanaryPromotions = 2
    MaxShadow = 1
    AuditRowGuards = FALSE
    None = None
SYMMETRY ItemSymmetry
INVARIANTS
    TypeOK
    BreakerLatch
    FullRolloutEarned
    RemediatedItemsAreRevoked
    EventsReplayToRow
    WithdrawnNeverCritical
    SamplingIsEarned
PROPERTIES
    NoPromotionAcrossControlChange
    OperatorMissesOnlyInvalidations
