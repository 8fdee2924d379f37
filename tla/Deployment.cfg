SPECIFICATION FairSpec
CONSTANTS
    r1 = r1
    r2 = r2
    i1 = i1
    i2 = i2
    i3 = i3
    p1 = p1
    t1 = t1
    t2 = t2
    f1 = f1
    f2 = f2
    Run = {r1, r2}
    Item = {i1, i2, i3}
    run_of <- MC_run_of
    Probe = {p1}
    Token = {t1, t2}
    Fetch = {f1, f2}
    token_of <- MC_token_of
    Made <- MC_Made
    MaxRuns = 1
    MaxConcurrent = 2
    MaxPending = 1
    MaxEvents = 2
INVARIANTS IdentityIsRecorded ResultIsFinal EndedHoldsNothing
PROPERTIES RunEnds
