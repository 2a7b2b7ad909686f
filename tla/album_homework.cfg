CONSTANTS
    Pages <- MCPages
    Praises <- MCPraises
    MaxPhotos = 1
    Ttl = 2
    MaxHomework = 2
    MaxSent = 3
    MaxNow = 3
SPECIFICATION Spec
INVARIANT ConditionsOfOneHomework
CHECK_DEADLOCK FALSE
