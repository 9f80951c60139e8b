CONSTANTS
    Kinds = {"target", "tasks", "modules"}
    Targets <- MCTargets
    Enablers <- MCEnablers
    Threads <- MCThreads
    Pid <- MCPid
    Cpus = {0, 1}
    CrashSymbols = {TRUE, FALSE}
    HasSymbols = {TRUE, FALSE}
    FetchFaults = {"AttributeError", "other"}
    Varied = "init"
    Releases = {"2.4", "2.6.22", "3.9", "3.14", "4.14"}
    Rss = {"rss", "rss_stat", "fields", "none"}
    m1 = m1
    m2 = m2
    modules = modules
    lib = lib
    dbg = dbg
    Modules <- MCModules
    ModulePath <- MCModulePath
    DebugPath <- MCDebugPath
    Listed <- MCListed
    FileChoices <- MCFiles
    DebugChoices <- MCDebug
SPECIFICATION Spec
INVARIANTS SelectionRight TasksMatchRunqueues FirstFitLoaded DebuginfoFound CallbacksSeeModules StatesShown PsSelects
CHECK_DEADLOCK FALSE
