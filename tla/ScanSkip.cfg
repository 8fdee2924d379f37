SPECIFICATION FairSpec
CONSTANTS
    a = a
    c = c
    File = {f1}
    Content = {a}
    Partial <- HeadAndTail
    Chunk = 1
    MaxChanges = 0
    MaxFaults = 1
    MaxForced = 0
    MaxEvents = 1
PROPERTY SeenAgainIsPresent
