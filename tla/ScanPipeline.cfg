SPECIFICATION FairSpec
CONSTANTS
    a = a
    c = c
    File = {f1, f2}
    Content = {a, c}
    Partial <- HeadAndTail
    Chunk = 1
    MaxChanges = 2
    MaxFaults = 1
    MaxForced = 1
    MaxEvents = 3
INVARIANTS CycleMeansExact PushedIsIngested ChurnBalances DuplicatesAreFound
PROPERTY EventuallyExact
