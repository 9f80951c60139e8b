CONSTANTS
    c1 = c1
    c2 = c2
    c3 = c3
    vmlinux = vmlinux
    module = module
    Callbacks = {c1, c2, c3}
    Objfiles = {vmlinux, module}
    Needs <- MCNeeds
    WaitForTarget <- MCWait
    Outcomes <- MCWild
    Reentrant = {c1}
    MaxDepth = 5
SPECIFICATION Spec
INVARIANTS CallInv
