SPECIFICATION Spec
CONSTANTS
    Commands = {c1}
    Files = {"skill", "reference", "notes"}
    Shipped = {"skill", "reference"}
    Skill = "skill"
    Targets = {"codex", "continue"}
    Stamps = {t1, t2}
    UserDirs <- MCUserDirs
    MaxVisits = 2
    MaxSaves = 1
SYMMETRY MCSymmetry
INVARIANTS
    TypeOK
    Recoverable
CHECK_DEADLOCK FALSE
