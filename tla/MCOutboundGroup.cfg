SPECIFICATION GroupSpec
CONSTANTS
    OutboundOrder <- MCOutboundOrder
    NoOutbound = NoOutbound
    Latencies = {1, 60}
    Rounds = {"loop", "test"}
    ToleranceMS = 50
    Tolerance = 2
    Callers = {c1}
    QualityConfigs <- MCQualityConfigs
    NoProbe = NoProbe
INVARIANTS
    GroupTypeOK
    SelectedHasWorked
    ErrorMeansAllTried
PROPERTIES
    NearBestFirst
    DeadSelectionLeft
CHECK_DEADLOCK FALSE
