CONSTANTS
    Checks = {c1, c2}
    Texts <- MCTexts
    Gaps <- MCGaps
    Replies <- MCReplies
    MaxChecks = 3
SPECIFICATION Spec
INVARIANT CorrectionIsUsed
CHECK_DEADLOCK FALSE
