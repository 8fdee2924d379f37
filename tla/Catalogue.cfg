SPECIFICATION Spec
CONSTANTS
    Volume = {"v1", "v2"}
    Network = {"v2"}
    Entry = {"e1", "e2", "e3"}
    On <- Volumes
    Path <- Paths
    Size <- OneSize
    Age <- Ages
    Preferred = {"e1"}
    MaxSnap = 3
    MaxFaults = 1
INVARIANTS FinalizedMeansExact LoneRebuildIsExact
CHECK_DEADLOCK FALSE
