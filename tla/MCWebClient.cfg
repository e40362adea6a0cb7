CONSTANTS
    Requests = {q1, q2}
    Replicas = {r1, r2}
    Tokens = {t1, t2, t3, t4}
    NoToken = NoToken
    MaxFaults = 1
SPECIFICATION FairClientSpec
INVARIANT SingleRefresh
INVARIANT LoginRefusedExplained
PROPERTY EveryRequestSettles
