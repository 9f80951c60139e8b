---------------------------- MODULE SessionProofs ----------------------------
(***************************************************************************)
(* Proofs about Session, the composition of Target, Tasks and              *)
(* KernelModules, for every list of target classes, threads and modules,   *)
(* any number of CPUs, any runqueues and any contents of the directories.  *)
(***************************************************************************)
EXTENDS Session, LeastElement

-----------------------------------------------------------------------------
(* Facts about the constants.                                              *)

LEMMA TargetConstants ==
    /\ Len(Threads) \in Nat /\ DOMAIN Threads = 1..Len(Threads)
    /\ \A j \in 1..Len(Threads) : Threads[j] \in T!Tasks
    /\ \A t \in T!Tasks : \E j \in 1..Len(Threads) : t = Threads[j]
    /\ T!None \notin T!Tasks
    /\ \A t \in T!Tasks : Pid[t] \in Nat
    /\ Cpus \subseteq Nat
    /\ \A k \in Cpus : k + 1 \in 1..Len(Threads)
<1>1. Threads \in Seq(T!Tasks)
    BY SessionAssumption DEF T!ConstantsOK
<1>2. Len(Threads) \in Nat /\ DOMAIN Threads = 1..Len(Threads)
    BY <1>1
<1>3. /\ \A j \in 1..Len(Threads) : Threads[j] \in T!Tasks
      /\ \A t \in T!Tasks : \E j \in 1..Len(Threads) : t = Threads[j]
    BY <1>2 DEF T!Tasks
<1>4. /\ T!None \notin T!Tasks
      /\ \A t \in T!Tasks : Pid[t] \in Nat
      /\ Cpus \subseteq Nat
    BY SessionAssumption DEF T!ConstantsOK
<1>5. \A k \in Cpus : k + 1 \in 1..Len(Threads)
    BY <1>2, SessionAssumption
<1> QED
    BY <1>2, <1>3, <1>4, <1>5

\* The CPU recorded for a task that runs is one whose runqueue runs it.
LEMMA CpuOfRuns ==
    ASSUME NEW t, T!Running(t)
    PROVE  T!CpuOf(t) \in Cpus /\ curr[T!CpuOf(t)] = t
<1> DEFINE S == {k \in Cpus : curr[k] = t}
<1>1. S # {}
    BY DEF T!Running
<1>2. S \in SUBSET (0..Len(Threads)) /\ Len(Threads) \in Nat
    <2>1. \A k \in Cpus : k \in Nat /\ k + 1 \in 1..Len(Threads)
        BY TargetConstants
    <2>2. Len(Threads) \in Nat
        BY TargetConstants
    <2>3. \A k \in Cpus : k \in 0..Len(Threads)
        BY <2>1, <2>2
    <2> QED
        BY <2>2, <2>3
<1> HIDE DEF S
<1>3. \E x \in S : \A y \in S : x >= y
    BY <1>1, <1>2, GreatestNatural
<1>4. T!Max(S) \in S
    BY <1>3 DEF T!Max
<1> QED
    BY <1>4 DEF S, T!CpuOf

-----------------------------------------------------------------------------
(***************************************************************************)
(* The inductive invariant of the target.  Each thread's info is either    *)
(* not set or what the runqueues say of it, and the threads before n have  *)
(* been set up; the crashing thread and the cache of tasks are what those  *)
(* say.  The runqueues never change, so none of this goes out of date.     *)
(***************************************************************************)
TargetTypeOK ==
    /\ curr \in [Cpus -> T!Tasks]
    /\ n \in Nat /\ n >= 1
    /\ DOMAIN info = T!Tasks
    /\ crashing \in T!Tasks \cup {T!None}
    /\ DOMAIN cache = {Pid[t] : t \in T!Tasks}
    /\ call \in T!Tasks \cup {T!None}
InfoRight == \A t \in T!Tasks : info[t] = T!Unset \/ info[t] = T!InfoOf(t)
SetUp == \A j \in 1..Len(Threads) : j < n =>
             /\ info[Threads[j]] = T!InfoOf(Threads[j])
             /\ cache[Pid[Threads[j]]] # T!None
             /\ T!InfoOf(Threads[j]).active /\ T!InfoOf(Threads[j]).cpu = crashing_cpu
                    => crashing # T!None
CrashingRight ==
    crashing # T!None => /\ info[crashing].active /\ info[crashing].cpu = crashing_cpu
CacheRight == \A q \in DOMAIN cache : cache[q] # T!None =>
                  cache[q] \in T!Tasks /\ Pid[cache[q]] = q
FetchRight ==
    /\ call # T!None => info[call] = T!InfoOf(call)
    /\ answer.is = "active" => T!Running(answer.to)
    /\ answer.is = "scheduled" => ~T!Running(answer.to)
TargetInv ==
    /\ TargetTypeOK /\ InfoRight /\ SetUp /\ CrashingRight /\ CacheRight /\ FetchRight
    /\ pc = "done" => n > Len(Threads)

\* What InfoOf and Unset are made of.
LEMMA InfoFields ==
    /\ T!Unset.set = FALSE /\ T!Unset.active = FALSE
    /\ \A t : /\ T!InfoOf(t).set = TRUE
              /\ T!InfoOf(t).active <=> T!Running(t)
              /\ T!InfoOf(t).active => curr[T!InfoOf(t).cpu] = t
<1>1. T!Unset.set = FALSE /\ T!Unset.active = FALSE
    BY DEF T!Unset
<1>2. ASSUME NEW t, T!Running(t)
      PROVE  /\ T!InfoOf(t).set = TRUE /\ T!InfoOf(t).active = TRUE
             /\ T!InfoOf(t).cpu = T!CpuOf(t)
    BY <1>2 DEF T!InfoOf
<1>3. ASSUME NEW t, ~T!Running(t)
      PROVE  T!InfoOf(t).set = TRUE /\ T!InfoOf(t).active = FALSE
    BY <1>3 DEF T!InfoOf, T!InfoIdle
<1> QED
    BY <1>1, <1>2, <1>3, CpuOfRuns

LEMMA TargetInit == Init => TargetInv
<1> SUFFICES ASSUME Init PROVE TargetInv
    OBVIOUS
<1>1. curr \in [Cpus -> T!Tasks]
    <2>1. CASE kind = "target"
        BY <2>1 DEF Init, T!AnyDump
    <2>2. CASE kind # "target"
        <3>1. curr = [k \in Cpus |-> Threads[k + 1]]
            BY <2>2 DEF Init
        <3> QED
            BY <3>1, TargetConstants
    <2> QED
        BY <2>1, <2>2
<1>2. /\ pc = "before" /\ n = 1 /\ info = [t \in T!Tasks |-> T!Unset]
      /\ crashing = T!None /\ call = T!None
      /\ cache = [q \in {Pid[t] : t \in T!Tasks} |-> T!None]
      /\ answer.is = "nothing"
    BY DEF Init, T!Start
<1>3. TargetTypeOK
    BY <1>1, <1>2 DEF TargetTypeOK
<1> QED
    BY <1>2, <1>3, TargetConstants
    DEF TargetInv, InfoRight, SetUp, CrashingRight, CacheRight, FetchRight

\* The runqueues never change.
LEMMA DumpFixed ==
    ASSUME [Next]_vars
    PROVE  /\ curr' = curr /\ crashing_cpu' = crashing_cpu
           /\ \A t : T!InfoOf(t)' = T!InfoOf(t) /\ T!Running(t)' = T!Running(t)
<1>1. curr' = curr /\ crashing_cpu' = crashing_cpu
    BY DEF Next, vars, own, targetVars, taskVars, moduleVars, T!dump,
       Enable, SetupTarget, SetupTasks, SetupTasksRaises, Fetch, LoadModules, Ready,
       ps, task, T!enable, T!SetupTarget, T!TryTarget, T!NoTarget, T!SetupDone,
       T!SetupTasks, T!SetupThread, T!SetupRaises, T!FetchEnter, T!FetchUnset,
       T!FetchNested, T!FetchReturn, T!FetchDelayed, T!FetchRaise
<1> QED
    BY <1>1 DEF T!InfoOf, T!InfoIdle, T!Running, T!CpuOf

\* Steps that do not set up a thread and do not end the loop.
LEMMA TargetIdle ==
    ASSUME TargetInv, [Next]_vars, UNCHANGED <<n, info, crashing, cache>>,
           pc' = "done" => pc = "done" \/ n > Len(Threads),
           call' \in T!Tasks \cup {T!None}, FetchRight'
    PROVE  TargetInv'
<1>1. /\ curr' = curr /\ crashing_cpu' = crashing_cpu
      /\ \A t : T!InfoOf(t)' = T!InfoOf(t)
    BY DumpFixed
<1> QED
    BY <1>1 DEF TargetInv, TargetTypeOK, InfoRight, SetUp, CrashingRight, CacheRight

\* fetch_registers: an answer is about what the runqueues say.
LEMMA FetchStep ==
    ASSUME TargetInv, [Next]_vars, Fetch
    PROVE  TargetInv'
<1>1. /\ info' = info /\ n' = n /\ pc' = pc /\ crashing' = crashing /\ cache' = cache
    BY DEF Fetch, T!FetchEnter, T!FetchUnset, T!FetchNested, T!FetchReturn,
       T!FetchDelayed, T!FetchRaise, T!setup
<1>2. \A t : T!InfoOf(t)' = T!InfoOf(t) /\ T!Running(t)' = T!Running(t)
    BY DumpFixed
<1>3. FetchRight' /\ call' \in T!Tasks \cup {T!None}
    <2>1. ASSUME NEW t \in T!Tasks, T!FetchEnter(t)
          PROVE  FetchRight' /\ call' \in T!Tasks \cup {T!None}
        <3>1. call' = t /\ answer' = answer /\ info[t].set
            BY <2>1 DEF T!FetchEnter
        <3>2. info[t] = T!InfoOf(t)
            BY <3>1, InfoFields DEF TargetInv, InfoRight
        <3> QED
            BY <1>1, <1>2, <3>1, <3>2 DEF TargetInv, FetchRight
    <2>2. ASSUME NEW t \in T!Tasks, T!FetchUnset(t) \/ T!FetchNested(t)
          PROVE  FetchRight' /\ call' \in T!Tasks \cup {T!None}
        <3>1. call' = call /\ answer'.is = "nothing"
            BY <2>2 DEF T!FetchUnset, T!FetchNested
        <3> QED
            BY <1>1, <1>2, <3>1 DEF TargetInv, TargetTypeOK, FetchRight
    <2>3. ASSUME T!FetchReturn
          PROVE  FetchRight' /\ call' \in T!Tasks \cup {T!None}
        <3>1. /\ call # T!None /\ call' = T!None /\ answer'.to = call
              /\ answer'.is = IF info[call].active THEN "active" ELSE "scheduled"
            BY <2>3 DEF T!FetchReturn
        <3>2. info[call].active <=> T!Running(call)
            BY <3>1, InfoFields DEF TargetInv, FetchRight
        <3> QED
            BY <1>2, <3>1, <3>2 DEF FetchRight
    <2>4. ASSUME T!FetchDelayed \/ T!FetchRaise
          PROVE  FetchRight' /\ call' \in T!Tasks \cup {T!None}
        <3>1. call' = T!None /\ answer'.is \in {"nothing", "exception"}
            BY <2>4 DEF T!FetchDelayed, T!FetchRaise
        <3> QED
            BY <3>1 DEF FetchRight
    <2> QED
        BY <2>1, <2>2, <2>3, <2>4 DEF Fetch
<1> QED
    BY <1>1, <1>3, TargetIdle

\* One turn of the loop in setup_tasks.
LEMMA SetupThreadStep ==
    ASSUME TargetInv, [Next]_vars, T!SetupThread
    PROVE  TargetInv'
<1> DEFINE t == Threads[n]
<1>1. n \in 1..Len(Threads) /\ t \in T!Tasks /\ t # T!None
    BY TargetConstants DEF TargetInv, TargetTypeOK, T!SetupThread
<1>2. /\ info' = [info EXCEPT ![t] = T!InfoOf(t)]
      /\ crashing' = IF T!IsCrashing(t) THEN t ELSE crashing
      /\ cache' = [cache EXCEPT ![Pid[t]] = t]
      /\ n' = n + 1 /\ pc' = pc /\ pc # "done" /\ call' = call /\ answer' = answer
    BY DEF T!SetupThread, T!fetch
<1>3. /\ curr' = curr /\ crashing_cpu' = crashing_cpu
      /\ \A u : T!InfoOf(u)' = T!InfoOf(u) /\ T!Running(u)' = T!Running(u)
    BY DumpFixed
<1> HIDE DEF t
<1>4. TargetTypeOK'
    BY <1>1, <1>2, <1>3 DEF TargetInv, TargetTypeOK
<1>5. info'[t] = T!InfoOf(t) /\ \A u \in T!Tasks : u # t => info'[u] = info[u]
    BY <1>1, <1>2 DEF TargetInv, TargetTypeOK
<1>6. InfoRight'
    BY <1>3, <1>5 DEF TargetInv, InfoRight
<1>7. T!IsCrashing(t) <=> T!InfoOf(t).active /\ T!InfoOf(t).cpu = crashing_cpu
    BY <1>5 DEF T!IsCrashing
<1>8. CrashingRight'
    <2>1. CASE T!IsCrashing(t)
        BY <1>2, <1>3, <2>1 DEF T!IsCrashing, CrashingRight
    <2>2. CASE ~T!IsCrashing(t) /\ crashing # T!None
        <3>1. info[crashing].active /\ info[crashing].cpu = crashing_cpu
            BY <2>2 DEF TargetInv, CrashingRight
        <3>2. crashing \in T!Tasks /\ crashing' = crashing
            BY <1>2, <2>2 DEF TargetInv, TargetTypeOK
        <3>3. info[crashing] = T!InfoOf(crashing)
            BY <3>1, <3>2, InfoFields DEF TargetInv, InfoRight
        <3>4. info'[crashing] = info[crashing]
            BY <1>5, <3>2, <3>3
        <3> QED
            BY <1>3, <3>1, <3>2, <3>4 DEF CrashingRight
    <2>3. CASE ~T!IsCrashing(t) /\ crashing = T!None
        BY <1>2, <2>3 DEF CrashingRight
    <2> QED
        BY <2>1, <2>2, <2>3
<1>9. cache'[Pid[t]] = t /\ \A q \in DOMAIN cache : q # Pid[t] => cache'[q] = cache[q]
    BY <1>1, <1>2 DEF TargetInv, TargetTypeOK
<1>10. CacheRight'
    BY <1>1, <1>2, <1>9 DEF TargetInv, CacheRight
<1>11. ASSUME NEW j \in 1..Len(Threads), j < n + 1
       PROVE  /\ info'[Threads[j]] = T!InfoOf(Threads[j])
              /\ cache'[Pid[Threads[j]]] # T!None
              /\ T!InfoOf(Threads[j]).active /\ T!InfoOf(Threads[j]).cpu = crashing_cpu
                     => crashing' # T!None
    <2>1. CASE Threads[j] = t
        BY <1>1, <1>2, <1>5, <1>7, <1>9, <2>1
    <2>2. CASE Threads[j] # t
        <3>1. j < n /\ Threads[j] \in T!Tasks
            BY <1>1, <1>11, <2>2, TargetConstants DEF TargetInv, TargetTypeOK, t
        <3>2. Pid[Threads[j]] \in DOMAIN cache
            BY <3>1 DEF TargetInv, TargetTypeOK
        <3> QED
            BY <1>1, <1>2, <1>5, <1>9, <2>2, <3>1, <3>2 DEF TargetInv, SetUp
    <2> QED
        BY <2>1, <2>2
<1>12. SetUp'
    BY <1>2, <1>3, <1>11 DEF SetUp
<1>13. FetchRight'
    BY <1>2, <1>3, <1>5 DEF TargetInv, TargetTypeOK, FetchRight
<1> QED
    BY <1>2, <1>4, <1>6, <1>8, <1>10, <1>12, <1>13 DEF TargetInv

LEMMA TargetStep ==
    ASSUME TargetInv, [Next]_vars
    PROVE  TargetInv'
<1>1. CASE Fetch
    BY <1>1, FetchStep
<1>2. CASE T!SetupThread
    BY <1>2, SetupThreadStep
<1>3. ASSUME UNCHANGED <<n, info, crashing, cache, call, answer>>,
             pc' = "done" => pc = "done" \/ n > Len(Threads)
      PROVE  TargetInv'
    <2>1. FetchRight' /\ call' \in T!Tasks \cup {T!None}
        BY <1>3, DumpFixed DEF TargetInv, TargetTypeOK, FetchRight
    <2> QED
        BY <1>3, <2>1, TargetIdle
<1>4. CASE UNCHANGED targetVars
    BY <1>3, <1>4 DEF targetVars
<1>5. CASE Enable \/ SetupTarget \/ (SetupTasks /\ ~T!SetupThread) \/ SetupTasksRaises
    <2>1. UNCHANGED <<n, info, crashing, cache, call, answer>>
        BY <1>5 DEF Enable, SetupTarget, SetupTasks, SetupTasksRaises, T!enable,
           T!SetupTarget, T!TryTarget, T!NoTarget, T!SetupDone, T!SetupTasks,
           T!SetupRaises, T!setup, T!fetch
    <2>2. pc' = "done" => pc = "done" \/ n > Len(Threads)
        BY <1>5 DEF Enable, SetupTarget, SetupTasks, SetupTasksRaises, T!enable,
           T!SetupTarget, T!TryTarget, T!NoTarget, T!SetupDone, T!SetupTasks,
           T!SetupRaises, T!setup
    <2> QED
        BY <1>3, <2>1, <2>2
<1>6. CASE UNCHANGED vars
    BY <1>4, <1>6 DEF vars
<1>7. CASE LoadModules \/ Ready \/ ps \/ \E q \in DOMAIN cache \cup {NoPid} : task(q)
    BY <1>4, <1>7 DEF LoadModules, Ready, ps, task
<1> QED
    BY <1>1, <1>2, <1>5, <1>6, <1>7 DEF Next

\* The invariant implies what Target states of its answers and threads.
LEMMA TargetInvImplies ==
    ASSUME TargetInv
    PROVE  T!CrashingThreadRight /\ T!TasksMatchRunqueues
<1>1. ASSUME crashing # T!None
      PROVE  info[crashing].active /\ curr[crashing_cpu] = crashing
    BY <1>1, InfoFields DEF TargetInv, TargetTypeOK, CrashingRight, InfoRight
<1>2. \A t \in T!Tasks : pc = "done" =>
          \E j \in 1..Len(Threads) : t = Threads[j] /\ j < n
    BY TargetConstants DEF TargetInv, TargetTypeOK
<1>3. ASSUME pc = "done", crashing_cpu \in Cpus,
             crashing_cpu = T!CpuOf(curr[crashing_cpu])
      PROVE  crashing = curr[crashing_cpu]
    <2> DEFINE t == curr[crashing_cpu]
    <2>1. t \in T!Tasks /\ T!Running(t)
        BY <1>3 DEF TargetInv, TargetTypeOK, T!Running
    <2> HIDE DEF t
    <2>2. T!InfoOf(t).active /\ T!InfoOf(t).cpu = T!CpuOf(t)
        BY <2>1 DEF T!InfoOf
    <2>3. crashing # T!None
        BY <1>2, <1>3, <2>1, <2>2 DEF TargetInv, SetUp, t
    <2> QED
        BY <1>1, <2>3 DEF t
<1>4. \A t \in T!Tasks : info[t].active => curr[info[t].cpu] = t
    BY InfoFields DEF TargetInv, InfoRight
<1>5. ASSUME pc = "done", NEW t \in T!Tasks,
             \A u \in T!Tasks : Pid[u] = Pid[t] => u = t
      PROVE  cache[Pid[t]] = t
    <2>1. cache[Pid[t]] # T!None
        BY <1>2, <1>5 DEF TargetInv, SetUp
    <2>2. Pid[t] \in DOMAIN cache
        BY DEF TargetInv, TargetTypeOK
    <2> QED
        BY <1>5, <2>1, <2>2 DEF TargetInv, CacheRight
<1>6. T!CrashingThreadRight
    BY <1>1, <1>3 DEF T!CrashingThreadRight
<1>7. T!TasksMatchRunqueues
    BY <1>4, <1>5 DEF T!TasksMatchRunqueues, TargetInv, FetchRight
<1> QED
    BY <1>6, <1>7

-----------------------------------------------------------------------------
(* load_modules.                                                           *)

LEMMA ModuleConstants ==
    /\ Len(Modules) \in Nat /\ DOMAIN Modules = 1..Len(Modules)
    /\ \A j \in 1..Len(Modules) : Modules[j] \in M!Mods
    /\ \A x \in M!Mods : \E j \in 1..Len(Modules) : x = Modules[j]
    /\ \A j, k \in 1..Len(Modules) : Modules[j] = Modules[k] => j = k
    /\ Len(ModulePath) \in Nat /\ DOMAIN ModulePath = 1..Len(ModulePath)
    /\ \A q \in 1..Len(ModulePath) : ModulePath[q] \in M!Dirs
    /\ Len(DebugPath) \in Nat /\ DOMAIN DebugPath = 1..Len(DebugPath)
    /\ \A q \in 1..Len(DebugPath) : DebugPath[q] \in M!Dirs
<1>1. /\ Modules \in Seq(M!Mods) /\ ModulePath \in Seq(M!Dirs) /\ DebugPath \in Seq(M!Dirs)
      /\ \A j, k \in DOMAIN Modules : Modules[j] = Modules[k] => j = k
    BY SessionAssumption DEF M!ConstantsOK
<1>2. /\ Len(Modules) \in Nat /\ DOMAIN Modules = 1..Len(Modules)
      /\ Len(ModulePath) \in Nat /\ DOMAIN ModulePath = 1..Len(ModulePath)
      /\ Len(DebugPath) \in Nat /\ DOMAIN DebugPath = 1..Len(DebugPath)
    BY <1>1
<1>3. /\ \A j \in 1..Len(Modules) : Modules[j] \in M!Mods
      /\ \A x \in M!Mods : \E j \in 1..Len(Modules) : x = Modules[j]
    BY <1>2 DEF M!Mods
<1>4. /\ \A q \in 1..Len(ModulePath) : ModulePath[q] \in M!Dirs
      /\ \A q \in 1..Len(DebugPath) : DebugPath[q] \in M!Dirs
    BY <1>2 DEF M!Dirs
<1> QED
    BY <1>1, <1>2, <1>3, <1>4

(***************************************************************************)
(* The inductive invariant of load_modules.  In the middle of its loops:   *)
(* no directory before the p-th has a file that would have done for the    *)
(* module at hand, and none before the d-th its debuginfo; the module is   *)
(* already with gdb, but not counted yet, while it is Busy with it.        *)
(***************************************************************************)
Patterns == {"*.ko", "*.ko.debug"}
Busy == loading = "debuginfo" \/ (loading = "account" /\ p <= Len(ModulePath))
Inside == loading \in {"path", "debuginfo", "account"}
Helps(q, x) == "good" \in {debug[<<DebugPath[q], x>>].byid, debug[<<DebugPath[q], x>>].named}
HasSymbolsFrom(dir, x) == file[<<dir, x>>] = "full" \/ M!DebugHelps(x)

FilesTypeOK ==
    /\ file \in [M!Dirs \X M!Mods -> M!FileKinds]
    /\ debug \in [M!Dirs \X M!Mods -> [byid : M!DebugKinds, named : M!DebugKinds]]
ModulesTypeOK ==
    /\ loading \in {"start", "module", "path", "debuginfo", "account", "raised", "done"}
    /\ m \in 1..(Len(Modules) + 1) /\ p \in 1..(Len(ModulePath) + 1)
    /\ d \in 1..(Len(DebugPath) + 1)
    /\ findmap \in [M!Dirs -> SUBSET Patterns]
    /\ added \in Seq(M!Mods \X M!Dirs)
    /\ loaded \in Nat /\ failed \in Nat
    /\ Inside => m <= Len(Modules)
    /\ loading = "debuginfo" => p <= Len(ModulePath)
    /\ loading = "done" => m > Len(Modules)
Scanned ==
    /\ Inside => \A q \in 1..Len(ModulePath) : q < p => q \notin M!Candidates(M!Module)
    /\ Busy => M!Fits(p, M!Module) /\ \E x \in DOMAIN added : added[x] = <<M!Module, M!Dir>>
    /\ loading = "debuginfo" =>
           /\ file[<<M!Dir, M!Module>>] # "full"
           /\ \A q \in 1..Len(DebugPath) : q < d => ~Helps(q, M!Module)
AddedRight == \A x \in DOMAIN added : \E j \in 1..Len(Modules) :
    /\ added[x][1] = Modules[j] /\ (j < m \/ (j = m /\ Busy))
    /\ added[x][2] = ModulePath[M!FirstIn(M!Candidates(Modules[j]))]
AddedOnce == \A x, y \in DOMAIN added : added[x][1] = added[y][1] => x = y
AllTried == \A j \in 1..Len(Modules) : j < m /\ M!Candidates(Modules[j]) # {} =>
    \E x \in DOMAIN added : added[x][1] = Modules[j]
Counted == /\ loaded + (IF Busy THEN 1 ELSE 0) = Len(added)
           /\ loaded + failed = m - 1
SymbolsFrom ==
    /\ \A s \in symbols : \E j \in 1..Len(Modules) :
           s = Modules[j] /\ (j < m \/ (j = m /\ loading = "account" /\ Busy))
    /\ \A x \in DOMAIN added : \A j \in 1..Len(Modules) :
           added[x][1] = Modules[j] /\ (j < m \/ (j = m /\ loading = "account")) =>
               (Modules[j] \in symbols <=> HasSymbolsFrom(added[x][2], Modules[j]))
Seen ==
    /\ M!CallbacksSeeModules
    /\ loading = "start" => added = <<>> /\ unseen = {}
ModulesInv == /\ FilesTypeOK /\ ModulesTypeOK /\ Scanned /\ AddedRight /\ AddedOnce
              /\ AllTried /\ Counted /\ SymbolsFrom /\ Seen

LEMMA ModulesInit == Init => ModulesInv
<1> SUFFICES ASSUME Init PROVE ModulesInv
    OBVIOUS
<1>1. FilesTypeOK
    <2>1. CASE kind = "modules"
        BY <2>1, SessionAssumption DEF Init, M!AnyFiles, M!ConstantsOK, FilesTypeOK
    <2>2. CASE kind # "modules"
        <3>1. /\ file = [x \in M!Dirs \X M!Mods |-> "full"]
              /\ debug = CHOOSE g \in DebugChoices : TRUE
            BY <2>2 DEF Init
        <3>2. debug \in DebugChoices
            BY <3>1, SessionAssumption DEF M!ConstantsOK
        <3> QED
            BY <3>1, <3>2, SessionAssumption DEF M!ConstantsOK, M!FileKinds, FilesTypeOK
    <2> QED
        BY <2>1, <2>2
<1>2. /\ loading = "start" /\ m = 1 /\ p = 1 /\ d = 1
      /\ findmap = [x \in M!Dirs |-> {}]
      /\ added = <<>> /\ symbols = {} /\ loaded = 0 /\ failed = 0
      /\ paused = FALSE /\ unseen = {}
    BY DEF Init, M!Begin
<1>3. ModulesTypeOK
    BY <1>2, ModuleConstants DEF ModulesTypeOK, Inside
<1>4. Scanned /\ AddedRight /\ AddedOnce /\ AllTried /\ Counted
    BY <1>2, ModuleConstants
    DEF Scanned, Inside, Busy, AddedRight, AddedOnce, AllTried, Counted
<1>5. SymbolsFrom /\ Seen
    BY <1>2 DEF SymbolsFrom, Seen, M!CallbacksSeeModules
<1> QED
    BY <1>1, <1>3, <1>4, <1>5 DEF ModulesInv

\* What the directories hold never changes.
LEMMA FilesFixed ==
    ASSUME UNCHANGED <<file, debug>>
    PROVE  /\ \A q, x : M!Fits(q, x)' = M!Fits(q, x) /\ Helps(q, x)' = Helps(q, x)
           /\ \A x : M!Candidates(x)' = M!Candidates(x)
           /\ \A dir, x : HasSymbolsFrom(dir, x)' = HasSymbolsFrom(dir, x)
    BY DEF M!Fits, M!Stops, Helps, M!Candidates, HasSymbolsFrom, M!DebugHelps

LEMMA StartStep ==
    ASSUME ModulesInv, M!Start
    PROVE  ModulesInv'
<1>1. /\ loading = "start" /\ loading' = "module" /\ paused' = TRUE
      /\ UNCHANGED <<file, debug, m, p, d, findmap, added, symbols, loaded, failed, unseen>>
    BY DEF M!Start, M!fs, M!caches, M!counters
<1>2. FilesTypeOK' /\ ModulesTypeOK' /\ Scanned'
    BY <1>1 DEF ModulesInv, FilesTypeOK, ModulesTypeOK, Scanned, Inside, Busy
<1>3. AddedRight' /\ AllTried' /\ AddedOnce' /\ SymbolsFrom'
    BY <1>1, FilesFixed
    DEF ModulesInv, AddedRight, AllTried, AddedOnce, SymbolsFrom, Busy
<1>4. Counted' /\ Seen'
    BY <1>1 DEF ModulesInv, Counted, Busy, Seen, M!CallbacksSeeModules
<1> QED
    BY <1>2, <1>3, <1>4 DEF ModulesInv

LEMMA NextModuleStep ==
    ASSUME ModulesInv, M!NextModule
    PROVE  ModulesInv'
<1>1. /\ loading = "module" /\ loading' = "path" /\ p' = 1 /\ m <= Len(Modules)
      /\ UNCHANGED <<file, debug, m, d, findmap, added, symbols, loaded, failed,
                     paused, unseen>>
    BY DEF M!NextModule, M!fs, M!caches, M!counters
<1>2. FilesTypeOK' /\ ModulesTypeOK'
    BY <1>1, ModuleConstants DEF ModulesInv, FilesTypeOK, ModulesTypeOK, Inside
<1>3. Scanned'
    BY <1>1 DEF Scanned, Inside, Busy
<1>4. AddedRight' /\ AllTried' /\ AddedOnce' /\ SymbolsFrom'
    BY <1>1, FilesFixed
    DEF ModulesInv, AddedRight, AllTried, AddedOnce, SymbolsFrom, Busy
<1>5. Counted' /\ Seen'
    BY <1>1 DEF ModulesInv, Counted, Busy, Seen, M!CallbacksSeeModules
<1> QED
    BY <1>2, <1>3, <1>4, <1>5 DEF ModulesInv

LEMMA NoPathStep ==
    ASSUME ModulesInv, M!NoPath
    PROVE  ModulesInv'
<1>1. /\ loading = "path" /\ loading' = "account" /\ p > Len(ModulePath)
      /\ UNCHANGED <<file, debug, m, p, d, findmap, added, symbols, loaded, failed,
                     paused, unseen>>
    BY DEF M!NoPath, M!fs, M!caches, M!counters
<1>2. ~Busy /\ ~Busy' /\ Inside /\ Inside'
    BY <1>1, ModuleConstants DEF ModulesInv, ModulesTypeOK, Busy, Inside
<1>3. FilesTypeOK' /\ ModulesTypeOK'
    BY <1>1, <1>2 DEF ModulesInv, FilesTypeOK, ModulesTypeOK
<1>4. Scanned'
    BY <1>1, <1>2, FilesFixed DEF ModulesInv, Scanned, M!Module
<1>5. AddedRight' /\ AllTried' /\ AddedOnce'
    BY <1>1, <1>2, FilesFixed DEF ModulesInv, AddedRight, AllTried, AddedOnce
<1>6. SymbolsFrom'
    <2>1. \A x \in DOMAIN added : added[x][1] # Modules[m]
        BY <1>2, ModuleConstants DEF ModulesInv, AddedRight, ModulesTypeOK
    <2> QED
        BY <1>1, <1>2, <2>1, FilesFixed DEF ModulesInv, SymbolsFrom
<1>7. Counted' /\ Seen'
    BY <1>1, <1>2 DEF ModulesInv, Counted, Seen, M!CallbacksSeeModules
<1> QED
    BY <1>3, <1>4, <1>5, <1>6, <1>7 DEF ModulesInv

LEMMA NoDebuginfoStep ==
    ASSUME ModulesInv, M!NoDebuginfo
    PROVE  ModulesInv'
<1>1. /\ loading = "debuginfo" /\ loading' = "account" /\ d > Len(DebugPath)
      /\ UNCHANGED <<file, debug, m, p, d, findmap, added, symbols, loaded, failed,
                     paused, unseen>>
    BY DEF M!NoDebuginfo, M!fs, M!caches, M!counters
<1>2. Busy /\ Busy' /\ Inside /\ Inside'
    BY <1>1, ModuleConstants DEF ModulesInv, ModulesTypeOK, Busy, Inside
<1>3. FilesTypeOK' /\ ModulesTypeOK'
    BY <1>1, <1>2 DEF ModulesInv, FilesTypeOK, ModulesTypeOK
<1>4. Scanned'
    BY <1>1, <1>2, FilesFixed DEF ModulesInv, Scanned, M!Module, M!Dir
<1>5. AddedRight' /\ AllTried' /\ AddedOnce'
    <2>1. \A x : M!Candidates(x)' = M!Candidates(x)
        BY <1>1, FilesFixed
    <2>2. AddedRight'
        BY <1>1, <1>2, <2>1 DEF ModulesInv, AddedRight
    <2>3. AllTried' /\ AddedOnce'
        BY <1>1, <2>1 DEF ModulesInv, AllTried, AddedOnce
    <2> QED
        BY <2>2, <2>3
<1>6. SymbolsFrom'
    <2>1. ~M!DebugHelps(M!Module) /\ file[<<M!Dir, M!Module>>] # "full"
        <3>1. \A q \in 1..Len(DebugPath) : ~Helps(q, M!Module)
            BY <1>1, ModuleConstants DEF ModulesInv, ModulesTypeOK, Scanned
        <3>2. ~M!DebugHelps(M!Module)
            BY <3>1, ModuleConstants DEF Helps, M!DebugHelps
        <3> QED
            BY <1>1, <3>2 DEF ModulesInv, Scanned
    <2>2. \A x \in DOMAIN added : added[x][1] = Modules[m] => added[x][2] = M!Dir
        <3>1. PICK y \in DOMAIN added : added[y] = <<M!Module, M!Dir>>
            BY <1>2 DEF ModulesInv, Scanned
        <3> QED
            BY <3>1 DEF ModulesInv, AddedOnce, M!Module
    <2>3. Modules[m] \notin symbols
        BY <1>1, <1>2, ModuleConstants DEF ModulesInv, ModulesTypeOK, SymbolsFrom
    <2>4. \A x \in DOMAIN added : added[x][1] = Modules[m] =>
              ~HasSymbolsFrom(added[x][2], Modules[m])
        BY <2>1, <2>2 DEF HasSymbolsFrom, M!Module
    <2> QED
        BY <1>1, <1>2, <2>3, <2>4, FilesFixed DEF ModulesInv, SymbolsFrom
<1>7. Counted' /\ Seen'
    BY <1>1, <1>2 DEF ModulesInv, Counted, Seen, M!CallbacksSeeModules
<1> QED
    BY <1>3, <1>4, <1>5, <1>6, <1>7 DEF ModulesInv

LEMMA AccountStep ==
    ASSUME ModulesInv, M!Account
    PROVE  ModulesInv'
<1>1. /\ loading = "account" /\ loading' = "module" /\ m' = m + 1
      /\ IF p <= Len(ModulePath) THEN loaded' = loaded + 1 /\ failed' = failed
                                 ELSE failed' = failed + 1 /\ loaded' = loaded
      /\ UNCHANGED <<file, debug, p, d, findmap, added, symbols, paused, unseen>>
    BY DEF M!Account, M!fs, M!caches
<1>2. Inside /\ ~Inside' /\ ~Busy' /\ (Busy <=> p <= Len(ModulePath)) /\ m \in 1..Len(Modules)
    BY <1>1, ModuleConstants DEF ModulesInv, ModulesTypeOK, Busy, Inside
<1>3. FilesTypeOK' /\ ModulesTypeOK'
    BY <1>1, <1>2, ModuleConstants DEF ModulesInv, FilesTypeOK, ModulesTypeOK
<1>4. Scanned'
    BY <1>1, <1>2 DEF Scanned
<1>5. AddedRight' /\ AddedOnce'
    BY <1>1, <1>2, FilesFixed DEF ModulesInv, AddedRight, AddedOnce
<1>6. AllTried'
    <2>1. M!Candidates(M!Module) # {} => \E x \in DOMAIN added : added[x][1] = M!Module
        <3>1. CASE Busy
            BY <3>1 DEF ModulesInv, Scanned
        <3>2. CASE ~Busy
            <4>1. M!Candidates(M!Module) = {}
                BY <1>2, <3>2, ModuleConstants
                DEF ModulesInv, ModulesTypeOK, Scanned, M!Candidates
            <4> QED
                BY <4>1
        <3> QED
            BY <3>1, <3>2
    <2>2. \A x : M!Candidates(x)' = M!Candidates(x)
        BY <1>1, FilesFixed
    <2>3. \A j \in 1..Len(Modules) : j < m + 1 => j < m \/ j = m
        BY <1>2, ModuleConstants
    <2> QED
        BY <1>1, <2>1, <2>2, <2>3 DEF ModulesInv, AllTried, M!Module
<1>7. SymbolsFrom'
    BY <1>1, <1>2, FilesFixed DEF ModulesInv, SymbolsFrom
<1>8. Counted'
    <2>1. loaded \in Nat /\ failed \in Nat /\ m \in Nat /\ loaded + failed = m - 1
        BY <1>2 DEF ModulesInv, ModulesTypeOK, Counted
    <2>2. CASE Busy
        <3>1. loaded + 1 = Len(added) /\ loaded' = loaded + 1 /\ failed' = failed
            BY <1>1, <1>2, <2>2 DEF ModulesInv, Counted
        <3> QED
            BY <1>1, <1>2, <2>1, <3>1 DEF Counted
    <2>3. CASE ~Busy
        <3>1. loaded + 0 = Len(added) /\ loaded' = loaded /\ failed' = failed + 1
            BY <1>1, <1>2, <2>3 DEF ModulesInv, Counted
        <3> QED
            BY <1>1, <1>2, <2>1, <3>1 DEF Counted
    <2> QED
        BY <2>2, <2>3
<1>9. Seen'
    BY <1>1 DEF ModulesInv, Seen, M!CallbacksSeeModules
<1> QED
    BY <1>3, <1>4, <1>5, <1>6, <1>7, <1>8, <1>9 DEF ModulesInv

LEMMA FinishStep ==
    ASSUME ModulesInv, M!Finish
    PROVE  ModulesInv'
<1>1. /\ loading = "module" /\ loading' = "done" /\ m > Len(Modules)
      /\ findmap' = [x \in M!Dirs |-> {}] /\ paused' = FALSE /\ unseen' = {}
      /\ UNCHANGED <<file, debug, m, p, d, added, symbols, loaded, failed>>
    BY DEF M!Finish, M!fs, M!counters
<1>2. ~Busy /\ ~Busy' /\ ~Inside'
    BY <1>1 DEF Busy, Inside
<1>3. FilesTypeOK' /\ ModulesTypeOK'
    BY <1>1, <1>2 DEF ModulesInv, FilesTypeOK, ModulesTypeOK
<1>4. Scanned' /\ AddedRight' /\ AllTried' /\ AddedOnce' /\ SymbolsFrom'
    BY <1>1, <1>2, FilesFixed
    DEF ModulesInv, Scanned, AddedRight, AllTried, AddedOnce, SymbolsFrom
<1>5. Counted' /\ Seen'
    BY <1>1, <1>2 DEF ModulesInv, Counted, Seen, M!CallbacksSeeModules
<1> QED
    BY <1>3, <1>4, <1>5 DEF ModulesInv

\* A file that is there is found, in modules.order or by walking the directory.
LEMMA FoundIfThere ==
    ASSUME ModulesInv, M!TryPath
    PROVE  /\ M!Found(findmap') <=> file[<<M!Dir, M!Module>>] # "none"
           /\ findmap' \in [M!Dirs -> SUBSET Patterns]
<1>1. M!Dir \in M!Dirs /\ findmap \in [M!Dirs -> SUBSET Patterns]
    BY ModuleConstants DEF ModulesInv, ModulesTypeOK, M!TryPath, M!Dir
<1>2. findmap' = IF M!InOrder THEN findmap ELSE M!Walk(M!Dir, "*.ko")
    BY DEF M!TryPath
<1>3. CASE M!InOrder
    BY <1>1, <1>2, <1>3 DEF M!Found, M!InOrder
<1>4. CASE ~M!InOrder
    <2>1. findmap' = [findmap EXCEPT ![M!Dir] = findmap[M!Dir] \cup {"*.ko"}]
        BY <1>2, <1>4 DEF M!Walk
    <2>2. "*.ko" \in findmap'[M!Dir]
        BY <1>1, <2>1
    <2>3. findmap' \in [M!Dirs -> SUBSET Patterns]
        <3>1. findmap[M!Dir] \cup {"*.ko"} \in SUBSET Patterns
            BY <1>1 DEF Patterns
        <3> QED
            BY <1>1, <2>1, <3>1
    <2> QED
        BY <1>4, <2>2, <2>3 DEF M!Found, M!Cached
<1> QED
    BY <1>3, <1>4

\* The first candidate is the p-th if none comes before it.
LEMMA FirstCandidate ==
    ASSUME NEW x, NEW q \in M!Candidates(x),
           \A k \in 1..Len(ModulePath) : k < q => k \notin M!Candidates(x)
    PROVE  M!FirstIn(M!Candidates(x)) = q
<1> DEFINE S == M!Candidates(x)
<1>1. S \subseteq 1..Len(ModulePath) /\ Len(ModulePath) \in Nat
    BY ModuleConstants DEF M!Candidates
<1> HIDE DEF S
<1>2. \A k \in S : q <= k
    BY <1>1 DEF S
<1>3. \A k \in S : (\A j \in S : k <= j) => k = q
    BY <1>1, <1>2 DEF S
<1> QED
    BY <1>2, <1>3 DEF M!FirstIn, S

\* The module at hand goes to gdb: as the last, and from the right directory.
LEMMA AddModuleStep ==
    ASSUME ModulesInv, loading = "path", p <= Len(ModulePath),
           file[<<M!Dir, M!Module>>] \in {"full", "stripped"},
           M!AddModule, loading' \in {"debuginfo", "account"},
           UNCHANGED <<file, debug, m, p, loaded, failed, paused>>
    PROVE  /\ Busy' /\ Inside' /\ M!Fits(p, M!Module)
           /\ added' \in Seq(M!Mods \X M!Dirs)
           /\ \E x \in DOMAIN added' : added'[x] = <<M!Module, M!Dir>>
           /\ \A x \in DOMAIN added' : \/ x \in DOMAIN added /\ added'[x] = added[x]
                                       \/ added'[x] = <<M!Module, M!Dir>>
           /\ AddedRight' /\ AddedOnce' /\ AllTried' /\ Counted' /\ Seen'
<1>1. m \in 1..Len(Modules) /\ p \in 1..Len(ModulePath) /\ Inside /\ ~Busy
    BY ModuleConstants DEF ModulesInv, ModulesTypeOK, Inside, Busy
<1>2. M!Module \in M!Mods /\ M!Dir \in M!Dirs
    BY <1>1, ModuleConstants DEF M!Module, M!Dir
<1>3. added' = Append(added, <<M!Module, M!Dir>>) /\ added \in Seq(M!Mods \X M!Dirs)
    BY DEF M!AddModule, ModulesInv, ModulesTypeOK
<1> DEFINE N == Len(added)
<1>4. /\ N \in Nat /\ DOMAIN added = 1..N /\ DOMAIN added' = 1..(N + 1)
      /\ added'[N + 1] = <<M!Module, M!Dir>> /\ Len(added') = N + 1
      /\ \A x \in 1..N : added'[x] = added[x]
      /\ added' \in Seq(M!Mods \X M!Dirs)
    BY <1>2, <1>3
<1>5. \A x \in 1..N : added[x][1] # M!Module
    <2>1. \A x \in 1..N : \E j \in 1..Len(Modules) : added[x][1] = Modules[j] /\ j < m
        BY <1>1, <1>4 DEF ModulesInv, AddedRight
    <2> QED
        BY <1>1, <2>1, ModuleConstants DEF M!Module
<1>6. Busy' /\ Inside' /\ M!Fits(p, M!Module)
    BY <1>1 DEF Busy, Inside, M!Fits, M!Dir
<1>7. M!FirstIn(M!Candidates(M!Module)) = p
    <2>1. p \in M!Candidates(M!Module)
        BY <1>1, <1>6, ModuleConstants DEF M!Candidates
    <2> QED
        BY <1>1, <2>1, FirstCandidate DEF ModulesInv, Scanned
<1>8. \A x : M!Candidates(x)' = M!Candidates(x)
    BY FilesFixed
<1>9. AddedRight'
    <2> SUFFICES ASSUME NEW x \in 1..(N + 1)
                 PROVE  \E j \in 1..Len(Modules) :
                            /\ added'[x][1] = Modules[j] /\ (j < m \/ j = m)
                            /\ added'[x][2] = ModulePath[M!FirstIn(M!Candidates(Modules[j]))]
        BY <1>4, <1>6, <1>8 DEF AddedRight
    <2>1. CASE x = N + 1
        BY <1>1, <1>4, <1>7, <2>1 DEF M!Module, M!Dir
    <2>2. CASE x \in 1..N
        BY <1>1, <1>4, <2>2 DEF ModulesInv, AddedRight
    <2> QED
        BY <1>4, <2>1, <2>2
<1>10. AddedOnce'
    BY <1>4, <1>5 DEF ModulesInv, AddedOnce
<1>11. AllTried'
    <2> SUFFICES ASSUME NEW j \in 1..Len(Modules), j < m, M!Candidates(Modules[j]) # {}
                 PROVE  \E x \in DOMAIN added' : added'[x][1] = Modules[j]
        BY <1>8 DEF AllTried
    <2>1. PICK x \in 1..N : added[x][1] = Modules[j]
        BY <1>4 DEF ModulesInv, AllTried
    <2>2. x \in 1..(N + 1)
        BY <1>4
    <2> QED
        BY <1>4, <2>1, <2>2
<1>12. Counted'
    <2>1. loaded + 0 = N /\ loaded + failed = m - 1 /\ loaded \in Nat
        BY <1>1 DEF ModulesInv, ModulesTypeOK, Counted
    <2> QED
        BY <1>4, <1>6, <2>1 DEF Counted
<1>13. Seen'
    <2>1. paused /\ unseen = {added[x][1] : x \in 1..N}
        BY <1>4 DEF ModulesInv, Seen, M!CallbacksSeeModules
    <2>2. unseen' = unseen \cup {M!Module}
        BY <2>1 DEF M!AddModule
    <2>3. {added'[x][1] : x \in 1..(N + 1)} = {added[x][1] : x \in 1..N} \cup {M!Module}
        <3>1. \A x \in 1..(N + 1) : x \in 1..N \/ x = N + 1
            BY <1>4
        <3>2. 1..N \subseteq 1..(N + 1) /\ N + 1 \in 1..(N + 1)
            BY <1>4
        <3>3. added'[N + 1][1] = M!Module /\ \A x \in 1..N : added'[x][1] = added[x][1]
            BY <1>4
        <3> HIDE DEF N
        <3> QED
            BY <3>1, <3>2, <3>3
    <2> QED
        BY <1>4, <2>1, <2>2, <2>3 DEF Seen, M!CallbacksSeeModules
<1> QED
    BY <1>4, <1>6, <1>9, <1>10, <1>11, <1>12, <1>13

LEMMA TryPathStep ==
    ASSUME ModulesInv, M!TryPath
    PROVE  ModulesInv'
<1> DEFINE F == file[<<M!Dir, M!Module>>]
<1>1. /\ loading = "path" /\ p <= Len(ModulePath)
      /\ UNCHANGED <<file, debug, m, loaded, failed, paused>>
    BY DEF M!TryPath, M!fs, M!counters
<1>2. m \in 1..Len(Modules) /\ p \in 1..Len(ModulePath) /\ Inside /\ ~Busy
    BY <1>1, ModuleConstants DEF ModulesInv, ModulesTypeOK, Inside, Busy
<1>3. findmap' \in [M!Dirs -> SUBSET Patterns]
    BY FoundIfThere
<1>4. FilesTypeOK'
    BY <1>1 DEF ModulesInv, FilesTypeOK
<1>5. F \in M!FileKinds
    BY <1>2, ModuleConstants DEF ModulesInv, FilesTypeOK, M!Dir, M!Module
<1>6. \A x : M!Candidates(x)' = M!Candidates(x)
    BY <1>1, FilesFixed
<1>7. CASE F \in {"none", "mismatch", "oserror", "rejected"}
    <2>1. /\ UNCHANGED <<d, added, symbols, unseen>>
          /\ IF F = "rejected" THEN loading' = "raised" /\ p' = p
                               ELSE loading' = loading /\ p' = p + 1
        BY <1>7, FoundIfThere DEF M!TryPath
    <2> HIDE DEF F
    <2>2. ~Busy' /\ (Inside' <=> F # "rejected")
        BY <1>1, <2>1 DEF Busy, Inside
    <2>3. ModulesTypeOK'
        BY <1>1, <1>2, <1>3, <2>1, <2>2, ModuleConstants DEF ModulesInv, ModulesTypeOK
    <2>4. F # "rejected" => p \notin M!Candidates(M!Module)
        BY <1>7 DEF F, M!Candidates, M!Fits, M!Stops, M!Dir
    <2>5. Scanned'
        BY <1>1, <1>2, <1>6, <2>1, <2>2, <2>4 DEF ModulesInv, Scanned, M!Module
    <2>6. AddedRight' /\ AddedOnce' /\ AllTried'
        BY <1>1, <1>2, <1>6, <2>1, <2>2 DEF ModulesInv, AddedRight, AddedOnce, AllTried
    <2>7. SymbolsFrom'
        BY <1>1, <1>2, <2>1, <2>2, FilesFixed DEF ModulesInv, SymbolsFrom
    <2>8. Counted'
        BY <1>1, <1>2, <2>1, <2>2 DEF ModulesInv, Counted
    <2>9. Seen'
        BY <1>1, <2>1 DEF ModulesInv, Seen, M!CallbacksSeeModules
    <2> QED
        BY <1>4, <2>3, <2>5, <2>6, <2>7, <2>8, <2>9 DEF ModulesInv
<1>8. CASE F \in {"full", "stripped"}
    <2>1. /\ M!AddModule /\ p' = p
          /\ IF F = "full"
             THEN loading' = "account" /\ symbols' = symbols \cup {M!Module} /\ d' = d
             ELSE loading' = "debuginfo" /\ symbols' = symbols /\ d' = 1
        BY <1>8, FoundIfThere DEF M!TryPath
    <2>2. /\ Busy' /\ Inside' /\ M!Fits(p, M!Module)
          /\ added' \in Seq(M!Mods \X M!Dirs)
          /\ \E x \in DOMAIN added' : added'[x] = <<M!Module, M!Dir>>
          /\ AddedRight' /\ AddedOnce' /\ AllTried' /\ Counted' /\ Seen'
        BY <1>1, <1>8, <2>1, AddModuleStep
    <2>3. \A x \in DOMAIN added' : \/ x \in DOMAIN added /\ added'[x] = added[x]
                                   \/ added'[x] = <<M!Module, M!Dir>>
        BY <1>1, <1>8, <2>1, AddModuleStep
    <2>4. ModulesTypeOK'
        BY <1>1, <1>2, <1>3, <2>1, <2>2, ModuleConstants DEF ModulesInv, ModulesTypeOK
    <2>5. Scanned'
        <3>1. UNCHANGED <<M!Module, M!Dir>>
            BY <1>1, <2>1 DEF M!Module, M!Dir
        <3>2. \A q \in 1..Len(ModulePath) : q < p => q \notin M!Candidates(M!Module)
            BY <1>2 DEF ModulesInv, Scanned
        <3>3. M!Fits(p, M!Module)'
            BY <1>1, <2>1, <2>2, <3>1 DEF M!Fits
        <3>4. loading' = "debuginfo" =>
                  F # "full" /\ \A q \in 1..Len(DebugPath) : ~(q < d')
            BY <1>8, <2>1, ModuleConstants
        <3> QED
            BY <1>1, <1>6, <2>1, <2>2, <3>1, <3>2, <3>3, <3>4 DEF Scanned
    <2>6. SymbolsFrom'
        <3>1. M!Module = Modules[m] /\ M!Module \notin symbols
            BY <1>2, ModuleConstants DEF M!Module, ModulesInv, SymbolsFrom
        <3>2. \A s \in symbols' : \E j \in 1..Len(Modules) :
                  s = Modules[j] /\ (j < m \/ (j = m /\ loading' = "account"))
            BY <1>1, <1>2, <2>1, <3>1 DEF ModulesInv, SymbolsFrom
        <3>3. ASSUME NEW x \in DOMAIN added', NEW j \in 1..Len(Modules),
                     added'[x][1] = Modules[j],
                     j < m \/ (j = m /\ loading' = "account")
              PROVE  Modules[j] \in symbols' <=> HasSymbolsFrom(added'[x][2], Modules[j])
            <4>1. CASE j = m
                <5>1. added'[x] = <<M!Module, M!Dir>>
                    <6> SUFFICES ASSUME x \in DOMAIN added, added[x][1] = Modules[m]
                                 PROVE  FALSE
                        BY <2>3, <3>3, <4>1
                    <6> QED
                        BY <1>2, ModuleConstants DEF ModulesInv, AddedRight
                <5>2. F = "full" /\ M!Module \in symbols'
                    BY <2>1, <3>3, <4>1, <1>2
                <5> QED
                    BY <3>1, <4>1, <5>1, <5>2 DEF HasSymbolsFrom
            <4>2. CASE j < m
                <5>1. Modules[j] # M!Module
                    BY <1>2, <4>2, ModuleConstants DEF M!Module
                <5>2. x \in DOMAIN added /\ added'[x] = added[x]
                    BY <2>3, <3>3, <5>1
                <5>3. Modules[j] \in symbols' <=> Modules[j] \in symbols
                    BY <2>1, <5>1
                <5> QED
                    BY <3>3, <4>2, <5>2, <5>3 DEF ModulesInv, SymbolsFrom
            <4> QED
                BY <3>3, <4>1, <4>2
        <3>4. \A dir, x : HasSymbolsFrom(dir, x)' = HasSymbolsFrom(dir, x)
            BY <1>1, FilesFixed
        <3> QED
            BY <1>1, <2>2, <3>2, <3>3, <3>4 DEF SymbolsFrom
    <2> QED
        BY <1>4, <2>2, <2>4, <2>5, <2>6 DEF ModulesInv
<1> QED
    BY <1>5, <1>7, <1>8 DEF M!FileKinds

LEMMA TryDebugDirStep ==
    ASSUME ModulesInv, M!TryDebugDir
    PROVE  ModulesInv'
<1> DEFINE dir == DebugPath[d]
           has == debug[<<dir, M!Module>>]
<1>1. /\ loading = "debuginfo" /\ d <= Len(DebugPath)
      /\ UNCHANGED <<file, debug, m, p, added, loaded, failed, paused, unseen>>
    BY DEF M!TryDebugDir, M!fs, M!counters
<1>2. /\ m \in 1..Len(Modules) /\ p \in 1..Len(ModulePath) /\ d \in 1..Len(DebugPath)
      /\ Inside /\ Busy /\ dir \in M!Dirs
    BY <1>1, ModuleConstants DEF ModulesInv, ModulesTypeOK, Inside, Busy
<1>3. /\ findmap' = IF has.byid = "good" THEN findmap ELSE M!Walk(dir, "*.ko.debug")
      /\ IF \/ has.byid = "good"
            \/ /\ M!Cached(findmap', dir, "*.ko.debug", has.named # "none")
               /\ has.named = "good"
         THEN symbols' = symbols \cup {M!Module} /\ loading' = "account" /\ d' = d
         ELSE d' = d + 1 /\ loading' = loading /\ symbols' = symbols
    BY DEF M!TryDebugDir
<1> HIDE DEF dir
<1>4. /\ findmap' \in [M!Dirs -> SUBSET Patterns]
      /\ has.byid # "good" => "*.ko.debug" \in findmap'[dir]
    <2>1. findmap \in [M!Dirs -> SUBSET Patterns]
        BY DEF ModulesInv, ModulesTypeOK
    <2>2. findmap[dir] \cup {"*.ko.debug"} \in SUBSET Patterns
        BY <1>2, <2>1 DEF Patterns
    <2> QED
        BY <1>2, <1>3, <2>1, <2>2 DEF M!Walk
<1>5. IF Helps(d, M!Module)
      THEN symbols' = symbols \cup {M!Module} /\ loading' = "account" /\ d' = d
      ELSE d' = d + 1 /\ loading' = loading /\ symbols' = symbols
    <2>1. Helps(d, M!Module) <=> has.byid = "good" \/ has.named = "good"
        BY DEF Helps, dir
    <2>2. has.byid # "good" =>
              (M!Cached(findmap', dir, "*.ko.debug", has.named # "none") /\ has.named = "good"
                   <=> has.named = "good")
        BY <1>4 DEF M!Cached
    <2> QED
        BY <1>3, <2>1, <2>2
<1>6. Busy' /\ Inside'
    BY <1>1, <1>2, <1>5 DEF Busy, Inside
<1>7. FilesTypeOK' /\ ModulesTypeOK'
    BY <1>1, <1>2, <1>4, <1>5, <1>6, ModuleConstants DEF ModulesInv, FilesTypeOK, ModulesTypeOK
<1>8. UNCHANGED <<M!Module, M!Dir>>
    BY <1>1 DEF M!Module, M!Dir
<1>9. Scanned'
    <2>1. M!Fits(p, M!Module)'
        BY <1>1, <1>2, <1>8 DEF ModulesInv, Scanned, M!Fits
    <2>2. /\ \A q \in 1..Len(ModulePath) : q < p' => q \notin M!Candidates(M!Module)'
          /\ \E x \in DOMAIN added' : added'[x] = <<M!Module, M!Dir>>'
        BY <1>1, <1>2, <1>8, FilesFixed DEF ModulesInv, Scanned, M!Candidates
    <2>3. ASSUME loading' = "debuginfo"
          PROVE  \A q \in 1..Len(DebugPath) : q < d' => ~Helps(q, M!Module)'
        <3>1. ~Helps(d, M!Module) /\ d' = d + 1
            BY <1>5, <2>3
        <3>2. \A q \in 1..Len(DebugPath) : q < d => ~Helps(q, M!Module)
            BY <1>1 DEF ModulesInv, Scanned
        <3>3. \A q \in 1..Len(DebugPath) : q < d + 1 => ~Helps(q, M!Module)
            BY <1>2, <3>1, <3>2
        <3> QED
            BY <1>1, <1>8, <3>1, <3>3 DEF Helps
    <2>4. file[<<M!Dir, M!Module>>] # "full"
        BY <1>1 DEF ModulesInv, Scanned
    <2> QED
        BY <1>1, <1>8, <2>1, <2>2, <2>3, <2>4 DEF Scanned
<1>10. AddedRight'
    BY <1>1, <1>2, <1>6, FilesFixed DEF ModulesInv, AddedRight
<1>11. AddedOnce' /\ AllTried'
    BY <1>1, FilesFixed DEF ModulesInv, AddedOnce, AllTried
<1>12. Counted'
    BY <1>1, <1>2, <1>6 DEF ModulesInv, Counted
<1>13. Seen'
    BY <1>1, <1>5 DEF ModulesInv, Seen, M!CallbacksSeeModules
<1>14. SymbolsFrom'
    <2>1. M!Module = Modules[m] /\ M!Module \notin symbols
        BY <1>1, <1>2, ModuleConstants DEF M!Module, ModulesInv, SymbolsFrom
    <2>2. \A s \in symbols' : \E j \in 1..Len(Modules) :
              s = Modules[j] /\ (j < m \/ (j = m /\ loading' = "account"))
        BY <1>1, <1>2, <1>5, <2>1 DEF ModulesInv, SymbolsFrom
    <2>3. ASSUME NEW x \in DOMAIN added, NEW j \in 1..Len(Modules),
                 added[x][1] = Modules[j],
                 j < m \/ (j = m /\ loading' = "account")
          PROVE  Modules[j] \in symbols' <=> HasSymbolsFrom(added[x][2], Modules[j])
        <3>1. CASE j = m
            <4>1. loading' = "account" /\ Helps(d, M!Module) /\ M!Module \in symbols'
                BY <1>1, <1>2, <1>5, <2>3, <3>1
            <4>2. M!DebugHelps(M!Module)
                BY <1>2, <4>1, ModuleConstants DEF Helps, M!DebugHelps
            <4> QED
                BY <2>1, <3>1, <4>1, <4>2 DEF HasSymbolsFrom
        <3>2. CASE j < m
            <4>1. Modules[j] # M!Module
                BY <1>2, <3>2, ModuleConstants DEF M!Module
            <4>2. Modules[j] \in symbols' <=> Modules[j] \in symbols
                BY <1>5, <4>1
            <4> QED
                BY <2>3, <3>2, <4>2 DEF ModulesInv, SymbolsFrom
        <3> QED
            BY <2>3, <3>1, <3>2
    <2>4. \A e, x : HasSymbolsFrom(e, x)' = HasSymbolsFrom(e, x)
        BY <1>1, FilesFixed
    <2> QED
        BY <1>1, <1>6, <2>2, <2>3, <2>4 DEF SymbolsFrom
<1> QED
    BY <1>7, <1>9, <1>10, <1>11, <1>12, <1>13, <1>14 DEF ModulesInv

LEMMA ModulesStep ==
    ASSUME ModulesInv, [Next]_vars
    PROVE  ModulesInv'
<1>1. CASE LoadModules
    <2>1. CASE M!Start
        BY <2>1, StartStep
    <2>2. CASE M!Step
        BY <2>2, NextModuleStep, TryPathStep, NoPathStep, TryDebugDirStep,
           NoDebuginfoStep, AccountStep, FinishStep DEF M!Step
    <2> QED
        BY <1>1, <2>1, <2>2 DEF LoadModules
<1>2. CASE ~LoadModules
    <2>1. UNCHANGED moduleVars
        BY <1>2 DEF Next, vars, Enable, SetupTarget, SetupTasks, SetupTasksRaises,
           Fetch, Ready, ps, task
    <2>2. UNCHANGED <<file, debug, loading, m, p, d, findmap, added, symbols, loaded,
                      failed, paused, unseen>>
        BY <2>1 DEF moduleVars
    <2>3. UNCHANGED <<Busy, Inside, M!Module, M!Dir>>
        BY <2>2 DEF Busy, Inside, M!Module, M!Dir
    <2>4. /\ \A q, x : M!Fits(q, x)' = M!Fits(q, x) /\ Helps(q, x)' = Helps(q, x)
          /\ \A x : M!Candidates(x)' = M!Candidates(x)
          /\ \A dir, x : HasSymbolsFrom(dir, x)' = HasSymbolsFrom(dir, x)
        BY <2>2, FilesFixed
    <2>5. FilesTypeOK' /\ ModulesTypeOK'
        BY <2>2, <2>3 DEF ModulesInv, FilesTypeOK, ModulesTypeOK
    <2>6. Scanned'
        BY <2>2, <2>3, <2>4 DEF ModulesInv, Scanned
    <2>7. AddedRight' /\ AddedOnce' /\ AllTried'
        BY <2>2, <2>3, <2>4 DEF ModulesInv, AddedRight, AddedOnce, AllTried
    <2>8. Counted' /\ SymbolsFrom' /\ Seen'
        BY <2>2, <2>3, <2>4 DEF ModulesInv, Counted, SymbolsFrom, Seen, M!CallbacksSeeModules
    <2> QED
        BY <2>5, <2>6, <2>7, <2>8 DEF ModulesInv
<1> QED
    BY <1>1, <1>2

\* The invariant implies what KernelModules states of the modules.
LEMMA ModulesInvImplies ==
    ASSUME ModulesInv
    PROVE  M!FirstFitLoaded /\ M!DebuginfoFound /\ M!CallbacksSeeModules
<1>1. \A x \in DOMAIN added :
          added[x][2] = ModulePath[M!FirstIn(M!Candidates(added[x][1]))]
    BY DEF ModulesInv, AddedRight
<1>2. ASSUME loading = "done"
      PROVE  /\ m = Len(Modules) + 1
             /\ loaded = Len(added) /\ loaded + failed = Len(Modules)
    <2>1. m = Len(Modules) + 1 /\ loaded \in Nat /\ failed \in Nat
        BY <1>2, ModuleConstants DEF ModulesInv, ModulesTypeOK
    <2>2. loaded + 0 = Len(added) /\ loaded + failed = m - 1
        BY <1>2 DEF ModulesInv, Counted, Busy
    <2> QED
        BY <2>1, <2>2, ModuleConstants
<1>3. ASSUME loading = "done", NEW x \in M!Mods, M!Candidates(x) # {}
      PROVE  \E y \in DOMAIN added : added[y][1] = x
    <2>1. PICK j \in 1..Len(Modules) : x = Modules[j]
        BY ModuleConstants
    <2>2. j < m
        BY <1>2, <1>3, ModuleConstants
    <2> QED
        BY <1>3, <2>1, <2>2 DEF ModulesInv, AllTried
<1>4. M!FirstFitLoaded
    BY <1>1, <1>2, <1>3 DEF M!FirstFitLoaded, ModulesInv, AddedOnce
<1>5. ASSUME loading = "done", NEW x \in DOMAIN added
      PROVE  added[x][1] \in symbols <=> HasSymbolsFrom(added[x][2], added[x][1])
    BY <1>2, <1>5, ModuleConstants DEF ModulesInv, AddedRight, SymbolsFrom
<1>6. M!DebuginfoFound
    BY <1>5 DEF M!DebuginfoFound, HasSymbolsFrom
<1> QED
    BY <1>4, <1>6 DEF ModulesInv, Seen

-----------------------------------------------------------------------------
(***************************************************************************)
(* The order of Session.__init__: the modules are loaded once the target   *)
(* is set up, and a thread is selected after that.  So the crashing thread *)
(* does not change any more when it is selected.                           *)
(***************************************************************************)
InOrderInv ==
    /\ loading # "start" => pc = "done"
    /\ stage = "ready" => loading # "start"
    /\ stage = "setup" => selected = T!None /\ asked = NoPid
    /\ stage \in {"setup", "ready"}
Selected ==
    selected # T!None => IF asked = NoPid THEN selected = crashing
                         ELSE Pid[selected] = asked
SessionInv == TargetInv /\ ModulesInv /\ InOrderInv /\ Selected

LEMMA SessionInit == Init => SessionInv
<1>1. Init => InOrderInv /\ Selected
    BY DEF Init, T!Start, M!Begin, InOrderInv, Selected
<1> QED
    BY <1>1, TargetInit, ModulesInit DEF SessionInv

LEMMA SessionStep ==
    ASSUME SessionInv, [Next]_vars
    PROVE  SessionInv'
<1>1. TargetInv' /\ ModulesInv'
    BY TargetStep, ModulesStep DEF SessionInv
<1>2. InOrderInv /\ Selected
    BY DEF SessionInv
<1> SUFFICES InOrderInv' /\ Selected'
    BY <1>1 DEF SessionInv
<1>3. CASE UNCHANGED vars
    BY <1>2, <1>3
    DEF vars, own, targetVars, moduleVars, InOrderInv, Selected
<1>4. CASE Enable \/ SetupTarget \/ SetupTasks \/ SetupTasksRaises
    <2>1. UNCHANGED <<kind, stage, selected, asked, loading>>
        BY <1>4 DEF Enable, SetupTarget, SetupTasks, SetupTasksRaises, own, moduleVars
    <2>2. pc # "done"
        BY <1>4 DEF Enable, SetupTarget, SetupTasks, SetupTasksRaises, T!enable,
           T!SetupTarget, T!TryTarget, T!NoTarget, T!SetupDone, T!SetupTasks,
           T!SetupThread, T!SetupRaises
    <2> QED
        BY <1>2, <2>1, <2>2 DEF InOrderInv, Selected
<1>5. CASE Fetch
    <2>1. UNCHANGED <<kind, stage, selected, asked, loading, pc, crashing>>
        BY <1>5 DEF Fetch, own, moduleVars, T!setup, T!FetchEnter, T!FetchUnset,
           T!FetchNested, T!FetchReturn, T!FetchDelayed, T!FetchRaise
    <2> QED
        BY <1>2, <2>1 DEF InOrderInv, Selected
<1>6. CASE LoadModules
    <2>1. UNCHANGED <<kind, stage, selected, asked, pc, crashing>>
        BY <1>6 DEF LoadModules, own, targetVars
    <2>2. loading' # "start" /\ (pc = "done" \/ loading # "start")
        BY <1>6 DEF LoadModules, M!Start, M!Step, M!NextModule, M!TryPath, M!NoPath,
           M!TryDebugDir, M!NoDebuginfo, M!Account, M!Finish
    <2> QED
        BY <1>2, <2>1, <2>2 DEF InOrderInv, Selected
<1>7. CASE Ready
    BY <1>2, <1>7 DEF Ready, targetVars, moduleVars, InOrderInv, Selected
<1>8. CASE ps
    BY <1>2, <1>8 DEF ps, own, targetVars, moduleVars, InOrderInv, Selected
<1>9. ASSUME NEW q \in DOMAIN cache \cup {NoPid}, task(q)
      PROVE  InOrderInv' /\ Selected'
    <2>1. UNCHANGED <<stage, pc, loading, crashing>> /\ stage = "ready"
        BY <1>9 DEF task, targetVars, moduleVars
    <2>2. CASE q \in DOMAIN cache /\ cache[q] # T!None
        <3>1. selected' = cache[q] /\ asked' = q
            BY <1>9, <2>2 DEF task
        <3>2. cache[q] \in T!Tasks /\ Pid[cache[q]] = q /\ q # NoPid
            BY <2>2, TargetConstants DEF SessionInv, TargetInv, CacheRight, NoPid
        <3> QED
            BY <1>2, <2>1, <3>1, <3>2 DEF InOrderInv, Selected
    <2>3. CASE ~(q \in DOMAIN cache /\ cache[q] # T!None)
        BY <1>2, <1>9, <2>1, <2>3 DEF task, InOrderInv, Selected
    <2> QED
        BY <2>2, <2>3
<1> QED
    BY <1>3, <1>4, <1>5, <1>6, <1>7, <1>8, <1>9 DEF Next

-----------------------------------------------------------------------------
(***************************************************************************)
(* The inductive invariant of a session: the target, the loaded modules    *)
(* and the order in which Session.__init__ sets them up.                   *)
(***************************************************************************)
THEOREM SessionInvariant == Spec => []SessionInv
<1>1. SessionInv /\ [Next]_vars => SessionInv'
    BY SessionStep
<1> QED
    BY <1>1, SessionInit, PTL DEF Spec

(***************************************************************************)
(* The crashing thread is that of the CPU that crashed, and the thread     *)
(* gdb has selected is that one or one with the pid given to `task'.       *)
(***************************************************************************)
THEOREM RightThreadSelected == Spec => []SelectionRight
<1>1. SessionInv => SelectionRight
    BY TargetInvImplies DEF SessionInv, Selected, SelectionRight
<1> QED
    BY <1>1, SessionInvariant, PTL

(***************************************************************************)
(* fetch_registers answers with the registers of a running task exactly    *)
(* for the tasks that a runqueue runs, and a task with a pid of its own    *)
(* is found by it.                                                         *)
(***************************************************************************)
THEOREM RunqueuesMatched == Spec => []TasksMatchRunqueues
<1>1. SessionInv => TasksMatchRunqueues
    BY TargetInvImplies DEF SessionInv, TasksMatchRunqueues
<1> QED
    BY <1>1, SessionInvariant, PTL

(***************************************************************************)
(* load_modules gives each module to gdb once, from the first directory    *)
(* that has a file fit for it, and counts the ones it loads and fails on.  *)
(***************************************************************************)
THEOREM EachModuleOnce == Spec => []FirstFitLoaded
<1>1. SessionInv => FirstFitLoaded
    BY ModulesInvImplies DEF SessionInv, FirstFitLoaded
<1> QED
    BY <1>1, SessionInvariant, PTL

(***************************************************************************)
(* The caches of load_modules, shared by modules and debuginfo, lose no    *)
(* debuginfo file.                                                         *)
(***************************************************************************)
THEOREM NoDebuginfoLost == Spec => []DebuginfoFound
<1>1. SessionInv => DebuginfoFound
    BY ModulesInvImplies DEF SessionInv, DebuginfoFound
<1> QED
    BY <1>1, SessionInvariant, PTL

(***************************************************************************)
(* The objfile callbacks are held back while modules are added and have    *)
(* been offered all of them when load_modules returns.                     *)
(***************************************************************************)
THEOREM ModulesOffered == Spec => []CallbacksSeeModules
<1>1. SessionInv => CallbacksSeeModules
    BY ModulesInvImplies DEF SessionInv, CallbacksSeeModules
<1> QED
    BY <1>1, SessionInvariant, PTL
=============================================================================
