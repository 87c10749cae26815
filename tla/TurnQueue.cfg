SPECIFICATION FairSpec
CONSTANTS
    Msg = {m1, m2, m3}
    NoMsg = NoMsg
    MaxCrashes = 1
CHECK_DEADLOCK FALSE
INVARIANTS TypeOK AtMostOnce SteersAreDurable OnePlace QueueKeepsOrder AnswersAreTrue
PROPERTIES ImplementsLedger NobodyWaits
