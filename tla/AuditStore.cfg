SPECIFICATION FairSpec
CONSTANTS
    Req = {r1, r2, r3}
    Durable = {r3}
    MaxRecs = 2
    MaxRetries = 2
    SeqBurns = TRUE
INVARIANTS TypeOK ChainUnbroken OneWriterAtTheHead
PROPERTIES AllOrNothing AppendOnly EveryRequestEnds
