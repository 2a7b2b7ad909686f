CONSTANTS
    Steps = {s1}
    Jobs <- Mixed
    Slots <- One
    MaxRetries = 1
    Rounds <- Few
SPECIFICATION Spec
INVARIANTS
    NoHiddenCharge
