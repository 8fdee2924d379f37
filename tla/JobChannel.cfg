SPECIFICATION FairSpec
CONSTANTS
    o1 = o1
    o2 = o2
    h1 = h1
    h2 = h2
    Op = {o1, o2}
    Host = {h1, h2}
    Item = {i1, i2}
    Target <- ToFirstHost
    Confirmed = {o2}
    BlastCap = 1
    Scenarios <- TwoRequests
    TTL = 1
    MaxClock = 2
INVARIANTS SingleUse ExecutedMeansDone ActedOnOnce LedgerMatchesDispatch
PROPERTIES NoStartAfterGiveUp DispatchEnds
