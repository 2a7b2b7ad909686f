CONSTANTS
    Albums <- MCAlbums
    Subjects <- MCSubjects
    MaxChecks = 2
    MaxResolved = 2
    MaxFailures = 1
    None = None
SPECIFICATION Spec
INVARIANTS
    QuestionsMatch
    ErrorsStand
    CountedOnce
PROPERTIES
    ButtonAnswersItsQuestion
