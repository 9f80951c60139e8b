CONSTANTS
    Slabs = {s1, s2}
    NObj = 2
    Online = {0, 1}
    Nodes = {0}
    NoSlab = NoSlab
    Levels = {1, 4}
    Flaws = {"none", "fault", "hole"}
SPECIFICATION FairSpec
INVARIANTS InUseRight ShownRight NoFalseAlarm FaultReported
PROPERTIES CommandEnds
