CONSTANTS
    Reqs = {r1, r2}
    r1 = r1
    r2 = r2
    FileTypes = {0, 3}
    Tick = 500
    MaxTime = 4000
    None = None
SPECIFICATION TokSpec
INVARIANT CredentialsOutlivePolicy
