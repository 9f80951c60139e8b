CONSTANTS
    Slabs = {s1, s2}
    NObj = 1
    Online = {0, 3, 4}
    Nodes = {0}
    NoSlab = NoSlab
    Levels = {1, 2, 3, 4}
    Flaws = {"none"}
SPECIFICATION Spec
INVARIANTS InUseRight
CHECK_DEADLOCK FALSE
