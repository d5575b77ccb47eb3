SPECIFICATION FairSpec
CONSTANTS
    Items = {i1, i2}
    Sessions = {s1}
    Recovery = recovery
    Reasons = {incorrect}
    MandatoryAudits = 1
    ShadowGate = 1
    CanaryPromotions = 2
    MaxShadow = 1
    AuditRowGuards = TRUE
    None = None
PROPERTIES
    RemediationCompletes
