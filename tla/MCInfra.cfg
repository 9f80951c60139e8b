CONSTANTS
    c1 = c1
    c2 = c2
    c3 = c3
    vmlinux = vmlinux
    module = module
    Callbacks = {c1, c2, c3}
    Objfiles = {vmlinux, module}
    Needs <- MCNeeds
    WaitForTarget <- MCWait
    Outcomes <- MCTame
    Reentrant = {}
    MaxDepth = 2
    Specs <- MCSpecs
    OverrideSpecs <- MCOverrides
    Alternatives = {"a"}
SPECIFICATION MCSpec
INVARIANTS ListsAgree StaleOnlyIfOverridden NoneForgotten
PROPERTIES NeverRerun ReadyCompletes KeepsContract ReadableStays BecomesReadable
