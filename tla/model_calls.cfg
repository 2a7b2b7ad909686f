CONSTANTS
    Steps = {s1, s2}
    Jobs <- Mixed
    Slots <- One
    MaxRetries = 1
    Rounds <- Few
SPECIFICATION FairSpec
INVARIANTS
    CallsAccounted
    NoPhotoForgotten
    BestOfWhatWasRead
PROPERTIES
    EveryStepEnds
CONSTRAINTS OneProvider NoSwap
