SPECIFICATION GroupSpec
CONSTANTS
    OutboundOrder <- MCOutboundOrder
    NoOutbound = NoOutbound
    Latencies = {1, 60}
    Rounds = {"loop"}
    ToleranceMS = 50
    Tolerance = 2
    Callers = {c1}
    QualityConfigs <- MCQualityConfigs
    NoProbe = NoProbe
PROPERTY SwitchesToWorking
CHECK_DEADLOCK FALSE
