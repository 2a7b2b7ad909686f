CONSTANTS
    Steps = {s1, s2}
    Jobs <- Photos
    Slots <- One
    MaxRetries = 0
    Rounds <- Few
SPECIFICATION FairSpec
INVARIANT PhotoLeftOnlyByFault
CONSTRAINT OneProvider
