CONSTANTS
    Young = {y1, y2}
    Student = s1
    Photos = {p1, p2}
    Policies = {1, 2}
    OwnerTtl = 1
    StateTtl = 2
    RemindEvery = 3
    RenewalTtl = 4
    Cooldown = 2
    MaxNow = 4
    NoKid = NoKid
    Checks = {c1, c2}
    Texts <- MCTexts
    Gaps <- MCGaps
    Replies <- MCReplies
    MaxChecks = 3
SPECIFICATION FSpec
INVARIANTS
    PhotosNeedConsent
    VerifiedIsProved
PROPERTIES
    CheckedOnce
    NotPestered
    AnswersKeptOnce
SYMMETRY Symmetry
CHECK_DEADLOCK FALSE
