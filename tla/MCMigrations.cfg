CONSTANTS
    r1 = r1
    r2 = r2
    r3 = r3
    Replicas <- MCReplicas
    N = 3
    Checksums = {"a", "b"}
    NotApplied = NotApplied
    Files <- MCFiles
    Checksum <- EditedContents
    MaxFaults = 2
SPECIFICATION FairSpec
INVARIANT UpMeansMigrated
PROPERTY LedgerSpec
PROPERTY AllComeUp
CHECK_DEADLOCK FALSE
