CONSTANTS
    Scans = {s1, s2}
    PortChoices <- MCPortChoices
    ListSize = 3
    FileCap = 2
    PairCap = 2
    MaxPairs <- MCMaxPairs
    Histories <- MCHistories
    MaxFaults = 1
    MaxResolved = 1
SPECIFICATION AssessSpec
SYMMETRY Symmetry
CHECK_DEADLOCK FALSE
INVARIANTS ReportedInFull  LoginsExplained BreakdownAddsUp
