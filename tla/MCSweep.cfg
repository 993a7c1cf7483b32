SPECIFICATION Spec
CONSTANTS
    Selected <- MCSelected
    Levels <- MCLevels
    Commands = 2
    Iterations = 5
INVARIANTS
    HeldTogether
    LevelReport
