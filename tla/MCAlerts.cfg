CONSTANTS
    Callers = {c1, c2}
    Kinds = {"creds", "review"}
    AlertIds = {a1, a2}
    Hooks = {h1}
    Severity <- MCSeverity
    MinSeverity <- MCMinSeverity
    MaxRetries = 3
    MaxFaults = 2
SPECIFICATION Spec
SYMMETRY Symmetry
INVARIANT TypeOK
INVARIANT DuplicatesExplained
INVARIANT FinishedIsLogged
