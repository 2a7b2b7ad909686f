CONSTANTS
    c1 = c1
    c2 = c2
    NoChat = NoChat
    Chats <- MCChats
    Concurrency = 2
    QueueLimit = 3
    MaxBatch = 2
    MaxUpdates = 4
SPECIFICATION FairSpec
INVARIANTS
    QueuesSound
    ChatOrder
PROPERTIES
    AbortIsFinal
    EveryUpdateEnds
    LoopMovesOn
ACTION_CONSTRAINT NamedInOrder
