CONSTANTS
    ScanIds = {s1, s2}
    Resolvers = {u1}
    Devices = {d1}
    Findings = {f1}
    PoolSize = 1
    MaxFaults = 1
SPECIFICATION FairSpec
INVARIANT WorkersAccounted
INVARIANT ScoreExplained
PROPERTY EveryScanEnds
