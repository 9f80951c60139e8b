CONSTANTS
    c1 = c1
    c2 = c2
    c3 = c3
    vmlinux = vmlinux
    module = module
    Callbacks = {c1, c2, c3}
    Objfiles = {vmlinux, module}
    Needs <- MCEarly
    WaitForTarget = {}
    Outcomes <- MCRaises
    Reentrant = {}
    MaxDepth = 2
SPECIFICATION Spec
PROPERTIES FutureLoadsSpared
