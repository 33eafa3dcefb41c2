CONSTANTS
    Reqs = {r1, r2}
    r1 = r1
    r2 = r2
    None = None
SPECIFICATION RepoSpec
INVARIANT LockedReadInTransaction
