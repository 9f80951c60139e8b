CONSTANTS
    Slabs = {s1, s2}
    NObj = 2
    Nodes = {0, 1}
    CPUs = {0, 1}
    NULL = NULL
    MaxCached = 2
    Flaws = {"none", "object", "slab", "link", "hole", "off"}
SPECIFICATION Spec
INVARIANTS AllocatedRight FaultsJudged RetryReachesAll ReportsAddUp
