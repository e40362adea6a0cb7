CONSTANTS
    Callers = {c1, c2}
    MaxFailures = 2
    ResetTimeout = 1
SPECIFICATION FairSpec
INVARIANT SingleProber
INVARIANT ClosedUnderThreshold
PROPERTY LockOutIsLeak
PROPERTY RecoversUnlessLeaked
