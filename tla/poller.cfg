CONSTANTS
    c1 = c1
    NoChat = NoChat
    Chats <- MCChats
    Concurrency = 2
    QueueLimit = 2
    MaxBatch = 2
    MaxUpdates = 3
    MaxArrived = 3
    ChatAt <- MCChatAt
SPECIFICATION PFairSpec
INVARIANTS
    AtMostOnce
    NothingSkipped
PROPERTIES
    Spec
    StopHonoured
