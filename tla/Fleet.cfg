SPECIFICATION FairSpec
CONSTANTS
    Host = {"h1", "h2"}
    MaxHeavy = 1
    Order <- TwoHosts
    Settings <- OneOfTwo
    Sizes <- OneGrows
    Filling = {"h1"}
    MaxFaults = 1
    MaxGone = 1
PROPERTIES LeaseEnds PersistentAlertIsShown
