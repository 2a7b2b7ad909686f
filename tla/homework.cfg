CONSTANTS
    Pages <- MCPages
    Praises <- MCPraises
    MaxPhotos = 3
    Ttl = 2
    MaxHomework = 2
    MaxSent = 3
    MaxNow = 3
    Works <- MCWorks
    Textbooks <- MCTextbooks
    Slips <- MCSlips
    Split <- MCSplit
    Added <- MCAdded
    Below <- MCBelow
    Tears <- MCTears
    MaxSlips = 2
    MaxEnds = 3
    MaxReplies = 5
SPECIFICATION HSpec
INVARIANTS
    OneHomework
    AnswersInPlace
    ShownRight
    VerdictsStand
    EveryWordCounts
    QuestionsAreExact
    RepliesAreSafe
    EndsAfterShowing
CHECK_DEADLOCK FALSE
