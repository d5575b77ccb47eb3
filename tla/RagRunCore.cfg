SPECIFICATION Spec
CONSTANTS
    Runs = {r1, r2}
    Routes = {"keyword_search", "keyword_ask", "search", "ask", "shadow"}
    Reserve = 2
    Actual = 1
    Overrun = 3
    MaxGeneration = 3
INVARIANTS
    TypeOK
    TotalsAreHonest
PROPERTIES
    FinishedRunsStay
    NoSendAfterOverrun
    ComponentsAreOneShot
    PendingShadowEnds
CHECK_DEADLOCK FALSE
