CONSTANTS
    h = h
    a = a
    b = b
    c = c
    Nodes = {h, a, b}
    head = h
    NULL = NULL
    Calls <- MCCalls
    Unreadable <- MCOneAbsent
    MaxYields = 16
    Kinds = {"list", "tree", "bitmap", "bios", "requests"}
    TreeNodes = {n1, n2, n3, n4}
    W = 4
    B = 2
    Shifts <- MCShifts
    Words = 2
    Starts = {0, 4, 8}
    Bios = {b1, b2}
    Bhs = {bh}
    Depth = 3
    Shift = 1
    MaxReserved = 1
SPECIFICATION MCSpec
INVARIANTS SuccessExact ExactCycles YieldsPostorder BitmapAgrees StackDecoded
INVARIANTS RequestsRight
PROPERTIES WalkEnds
CHECK_DEADLOCK FALSE
