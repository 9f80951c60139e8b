CONSTANTS
    Formats = {"lockless", "structured", "plain"}
    N = 4
    MaxId = 8
    BufLen = 6
    Lengths = {1, 2, 3}
    MaxSeq = 7
    MayClear = TRUE
SPECIFICATION Spec
INVARIANTS ShowsTheLog LiveRecordsShown
PROPERTIES LogEnds
