CONSTANTS
    Kinds = {"percpu", "page", "sys"}
    NR_CPUS = 4
    StaticSize = 4
    Starts = {0, 100}
    ChunkBase = 4
    ChunkSize = 6
    MaxChunks = 2
    MaxPfn = 4
    Bits = 12
    NodesShift = 2
    ZoneCounts = {1, 3, 4}
    Hertz = {3, 4}
    Seconds = {0, 1, 5}
    Wrap = 64
    Grace = 3
SPECIFICATION Spec
INVARIANTS PercpuRight EveryCpuRead  UptimeRight
CHECK_DEADLOCK FALSE
