SPECIFICATION Spec
CONSTANTS
    Commands = {c1, c2}
    Files = {"skill", "reference"}
    Shipped = {"skill", "reference"}
    Skill = "skill"
    Targets = {"codex", "continue"}
    Stamps = {t1, t2}
    UserDirs <- MCUserDirs
    MaxVisits = 2
    MaxSaves = 1
SYMMETRY MCSymmetry
INVARIANTS
    Recoverable
    ReportedAsLeft
CHECK_DEADLOCK FALSE
