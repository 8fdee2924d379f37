SPECIFICATION CheckpointSpec
CONSTANTS
    Req = {r1, r2, r3}
    Durable = {r3}
    MaxRecs = 1
    MaxRetries = 2
    SeqBurns = FALSE
    MaxTamper = 2
INVARIANTS CleanLogVerifies HarmIsCaught
