----------------------------- MODULE KernelState -----------------------------
(***************************************************************************)
(* What crash/types and crash/cache learn about the kernel when its target *)
(* is set up, and what is then read with it: the CPUs and per-CPU          *)
(* variables (PerCpu), the pages, nodes and zones (Pages), the             *)
(* configuration and the uptime (SysCache).                                *)
(*                                                                         *)
(* The callbacks of a module run together.  Those of the types come first; *)
(* those of symbols wait for the target and then run in the order in which *)
(* the modules were imported: percpu.py imports page.py and cpu.py, and    *)
(* page.py imports syscache.py.  An exception that is not a gdb.error ends *)
(* the round, and the callbacks that are left are not run.                 *)
(***************************************************************************)
EXTENDS Integers, Sequences, FiniteSets

CONSTANTS
    Kinds,          \* which kernels are varied: "percpu", "page", "sys"
    NR_CPUS, StaticSize, Starts, ChunkBase, ChunkSize, MaxChunks,
    MaxPfn, Bits, NodesShift, ZoneCounts,
    Hertz, Seconds, Wrap, Grace

VARIABLES
    kind, todo, failed,
    dump, cpus_online, cpus_possible, _static_ranges, _module_ranges,
    _dynamic_offset_cache, _last_cpu, _nr_cpus, answer,
    kernel, Page, nids_possible, nids_online, reported,
    system, configured, jiffies, _adjust_jiffies, resetOnClass,
    resetOnInstance, _hz, _uptime, shown, time, late

P == INSTANCE Pages WITH loaded <- configured
C == INSTANCE PerCpu WITH PAGE_SIZE <- Page.PAGE_SIZE
S == INSTANCE SysCache

ASSUME StateAssumption ==
    P!ConstantsOK /\ C!ConstantsOK /\ S!ConstantsOK
    /\ Kinds \subseteq {"percpu", "page", "sys"}

cpuVars == <<dump, cpus_online, cpus_possible, _static_ranges, _module_ranges,
             _dynamic_offset_cache, _last_cpu, _nr_cpus, answer>>
pageVars == <<kernel, Page, nids_possible, nids_online, reported>>
sysVars == <<system, jiffies, _adjust_jiffies, resetOnClass, resetOnInstance,
             _hz, _uptime, shown, time, late>>
vars == <<kind, todo, failed, cpuVars, pageVars, sysVars, configured>>

Orders == {<<"types", "cpu", "sys", "page", "percpu", "node">>,
           <<"types", "sys", "page", "cpu", "percpu", "node">>}

\* The kernel that the other two are combined with when one is varied.
PlainDump == [possible |-> C!CPUs, hasMasks |-> TRUE, start |-> 0, module |-> FALSE,
              chunks |-> <<>>, map |-> "offsets", broken |-> 0]
PlainKernel(config) ==
    [arch |-> "x86", head |-> "compound_head", tailFlag |-> FALSE,
     compound |-> [p \in P!Pfns |-> p], moved |-> FALSE, zones |-> 1,
     config |-> config, nids |-> {0}, unpopulated |-> {}, where |-> <<0, 0>>,
     area |-> P!NoArea]
PlainSystem(config) ==
    [hz |-> CHOOSE h \in Hertz : TRUE, up |-> CHOOSE u \in Seconds : TRUE,
     has64 |-> TRUE, readable64 |-> TRUE, config |-> config]

\* The two views of the kernel's configuration agree.
ForSystem(c) == CASE c = "bad magic" -> "bad magic" [] c \in {"no config", "untyped"} -> "none"
                  [] OTHER -> "good"
ForPages(c) == CASE c = "bad magic" -> "bad magic" [] c = "none" -> "no config"
                 [] OTHER -> "shift"
Init ==
    /\ todo \in Orders /\ failed = FALSE /\ kind \in Kinds
    /\ \/ \E config \in {"shift", "bad magic"} :
              /\ kind = "percpu" /\ dump \in C!Kernels
              /\ kernel = PlainKernel(config) /\ system = PlainSystem(ForSystem(config))
       \/ /\ kind = "page" /\ kernel \in P!Kernels
          /\ dump = PlainDump /\ system = PlainSystem(ForSystem(kernel.config))
       \/ /\ kind = "sys" /\ system \in S!Systems
          /\ dump = PlainDump /\ kernel = PlainKernel(ForPages(system.config))
    /\ C!Start /\ P!Start /\ S!Start

-----------------------------------------------------------------------------
Turn(group) == todo # <<>> /\ Head(todo) = group
Done == todo' = Tail(todo) /\ UNCHANGED <<kind, failed>>

SetupTypes == Turn("types") /\ P!SetupTypes /\ Done
              /\ UNCHANGED <<cpuVars, sysVars>>
SetupCpu == Turn("cpu") /\ C!SetupMasks /\ Done
            /\ UNCHANGED <<pageVars, sysVars, configured>>
SetupSys == Turn("sys") /\ S!SetupJiffies /\ Done
            /\ UNCHANGED <<cpuVars, pageVars>>
SetupPage == Turn("page") /\ P!SetupSymbols /\ Done
             /\ UNCHANGED <<cpuVars, sysVars>>
SetupPageRaises == /\ Turn("page") /\ P!SetupSymbolsRaises
                   /\ todo' = <<>> /\ failed' = TRUE
                   /\ UNCHANGED <<kind, cpuVars, sysVars>>
SetupPerCpu == Turn("percpu") /\ C!SetupPerCpu /\ Done
               /\ UNCHANGED <<pageVars, sysVars, configured>>
SetupNode == Turn("node") /\ P!setup_node_states /\ Done
             /\ UNCHANGED <<cpuVars, sysVars>>

\* The commands: only the ones about what this behaviour varies.
Asked(k) == todo = <<>> /\ kind = k /\ UNCHANGED <<kind, todo, failed>>
AskPercpu == \E a \in C!Addresses :
    /\ Asked("percpu") /\ (C!IsPercpuVar(a) \/ C!GetPercpuVars(a))
    /\ UNCHANGED <<pageVars, sysVars, configured>>
AskZones == /\ Asked("page") /\ P!print_zones
            /\ UNCHANGED <<cpuVars, sysVars>>
AskUptime == /\ Asked("sys") /\ S!Uptime
             /\ UNCHANGED <<cpuVars, pageVars>>
PutJiffies == \E up \in Seconds :
    /\ Asked("sys") /\ S!SetJiffies(up)
    /\ UNCHANGED <<cpuVars, pageVars>>

Next == \/ SetupTypes \/ SetupCpu \/ SetupSys \/ SetupPage \/ SetupPageRaises
        \/ SetupPerCpu \/ SetupNode
        \/ AskPercpu \/ AskZones \/ AskUptime \/ PutJiffies
Spec == Init /\ [][Next]_vars

-----------------------------------------------------------------------------
(***************************************************************************)
(* Whatever the order of the imports: is_percpu_var takes no other address *)
(* for a variable, and after a complete set-up it denies none but those    *)
(* behind a chunk that could not be read.  Where an exception has ended    *)
(* the set-up the ranges are not known, and it may deny any.               *)
(***************************************************************************)
PercpuRight == C!PercpuRight /\ (~failed /\ answer # C!NoAnswer => C!Resolved)

(***************************************************************************)
(* get_percpu_vars has the right variable for every CPU there may be.      *)
(***************************************************************************)
EveryCpuRead == C!EveryCpuRead

(***************************************************************************)
(* After a complete set-up the pages are found in every sort of kernel,    *)
(* and if the configuration tells the width of the node, so are a page's   *)
(* node and zone, and `kmem -z' reports about the zones' free pages what   *)
(* is wrong with them, and nothing if they are right.                      *)
(***************************************************************************)
PagesFound ==
    todo = <<>> /\ ~failed =>
        P!PagesFound /\ (kernel.config = "shift" => P!ZonesFound /\ P!AreaJudged)

(***************************************************************************)
(* The uptime shown is that of the dump, or of the jiffies that were put   *)
(* in before it was first asked for.                                       *)
(***************************************************************************)
UptimeRight == S!UptimeRight

=============================================================================
