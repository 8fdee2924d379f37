SPECIFICATION FairSpec
CONSTANTS
    Proc = {"p1", "p2"}
    Req = {"r1", "r2"}
    NoReq = "nobody"
    FernetKey <- SharedKey
    MaxFaults = 1
    Admins = {"ann", "bob"}
    Members = {"dee"}
    Others = {"cid"}
    Forwarded = {"fay"}
    GroupRole = "viewer"
    Session = {"x1", "x2", "x3"}
    NoSession = "x0"
    FirstSession <- Sessions1
    FirstGrants <- Grants1
    NewGrants <- Grants2
    Kinds <- AllAndWriters
    Route <- FirstToFirst
    SecretRefs <- SomeRefs
    MaxEnroll = 3
INVARIANT EnrollmentHasSecret
PROPERTY Converges
CHECK_DEADLOCK FALSE
