SPECIFICATION Spec
CONSTANTS
    p1 = p1
    p2 = p2
    p3 = p3
    p4 = p4
    p5 = p5
    p6 = p6
    p7 = p7
    p8 = p8
    n1 = n1
    n2 = n2
    n3 = n3
    n4 = n4
    n5 = n5
    n6 = n6
    n7 = n7
    n8 = n8
    Path = {p1, p2, p3, p4, p5, p6, p7, p8}
    Rank <- Order
    Action <- Actions
    prior_inode <- Inodes
    Base <- SameBase
    Dest <- SameDest
    Hashed = {p1, p2, p5, p8}
    Fresh = {f1}
    MaxChanges = 1
    MaxRuns = 1
    MaxCrashes = 1
INVARIANTS EveryActIsLogged StatusIsTrue
PROPERTY PlanFilesKeepAName
