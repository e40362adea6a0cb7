CONSTANTS
    Images = {f1, f2}
    Jobs = {j1, j2}
    NoDevice = NoDevice
    Devices = {d1}
    Dense = {f1, f2}
    UseS3 = TRUE
    MaxFaults = 1
SPECIFICATION FairSpec
INVARIANT ReportMatchesRow
INVARIANT SuspiciousIsAlerted
PROPERTY AnalysisEnds
CHECK_DEADLOCK FALSE
