CONSTANTS
    Textbooks <- MCCut
    Slips <- MCSlips
    Split <- MCSplit
    Added <- MCAdded
    Below <- MCBelow
    Tears <- MCTears
    MaxSlips = 0
    MaxEnds = 3
SPECIFICATION SSpec
INVARIANT OwnExercise
CHECK_DEADLOCK FALSE
