SPECIFICATION FairSpec
CONSTANTS
    p1 = p1
    p2 = p2
    b1 = b1
    h1 = h1
    h2 = h2
    e1 = e1
    e2 = e2
    Preview = {p1, p2}
    Browse = {b1}
    Host = {h1, h2}
    Entry = {e1, e2}
    target <- MC_target
    host_of <- MC_host_of
    stored <- MC_stored
    Made <- MC_Made
    Content = {"A", "B", "L"}
    Big = {"L"}
    MaxConcurrent = 1
    MaxEntries = 1
    MaxEvents = 2
INVARIANTS PreviewShowsItsHash SlotsAreReturned
PROPERTIES NoReadAfterGiveUp PullEnds
