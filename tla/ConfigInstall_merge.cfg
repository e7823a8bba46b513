SPECIFICATION Spec
CONSTANTS
    Installers = {p1, p2}
    Others = {"a"}
    UserTexts <- MCUserTexts
    MaxRuns = 2
    MaxSaves = 1
SYMMETRY MCSymmetry
INVARIANTS
    Recoverable
    AllOrNothing
PROPERTIES
    OverwritesOnlyMergeable
CHECK_DEADLOCK FALSE
