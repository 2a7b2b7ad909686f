CONSTANTS
    Albums <- MCSeeded
    Subjects <- MCSubjects
    MaxChecks = 1
    MaxResolved = 3
    MaxFailures = 0
    None = None
SPECIFICATION Spec
PROPERTIES
    FixedByAnswer
