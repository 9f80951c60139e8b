------------------------------- MODULE Session -------------------------------
(***************************************************************************)
(* Session.__init__ of crash/session.py, which puts together the target    *)
(* (Target), the tasks (Tasks) and the modules of the kernel               *)
(* (KernelModules), and the commands that can be given once it has         *)
(* returned: ps, and task of crash/commands/task.py.                       *)
(*                                                                         *)
(* setup_target opens the target, whose setup_tasks imports task.py and    *)
(* makes a LinuxTask for every thread; load_modules follows; at last gdb's *)
(* thread is switched to the crashing one.                                 *)
(***************************************************************************)
EXTENDS Integers, Sequences, FiniteSets

CONSTANTS
    Kinds,          \* what is varied: "target", "tasks", "modules"
    Targets, Enablers, Threads, Pid, Cpus, CrashSymbols, HasSymbols, FetchFaults,
    Varied, Releases, Rss,
    Modules, ModulePath, DebugPath, Listed, FileChoices, DebugChoices

VARIABLES
    kind,
    stage,          \* where Session.__init__ is: "setup", "ready"
    selected,       \* the thread gdb has selected
    asked,          \* the pid given to the last successful task command
    enabled, curr, crashing_cpu, has_crash_sym, has_symbols, pc, i, n, current,
    info, crashing, cache, fetching, call, answer,
    kernel, TF, _valid, mem, task_states, output,
    file, debug, loading, m, p, d, order, findmap, added, symbols, loaded,
    failed, paused, unseen

T == INSTANCE Target
K == INSTANCE Tasks
M == INSTANCE KernelModules WITH pc <- loading

ASSUME SessionAssumption ==
    T!ConstantsOK /\ K!ConstantsOK /\ M!ConstantsOK
    /\ Kinds \subseteq {"target", "tasks", "modules"}
    /\ \A k \in Cpus : k + 1 \in DOMAIN Threads    \* each CPU has its idle task

own == <<kind, stage, selected, asked>>
targetVars == <<enabled, curr, crashing_cpu, has_crash_sym, has_symbols, pc, i, n,
                current, info, crashing, cache, fetching, call, answer>>
taskVars == <<kernel, TF, _valid, mem, task_states, output>>
moduleVars == <<file, debug, loading, m, p, d, order, findmap, added, symbols,
                loaded, failed, paused, unseen>>
vars == <<own, targetVars, taskVars, moduleVars>>

NoPid == -1
Init ==
    /\ kind \in Kinds /\ stage = "setup" /\ selected = T!None /\ asked = NoPid
    /\ T!Start /\ K!Start /\ M!Begin
    /\ IF kind = "target" THEN T!AnyDump /\ enabled = {}
       ELSE /\ enabled = {Targets[1]} /\ curr = [k \in Cpus |-> Threads[k + 1]]
            /\ crashing_cpu = 0 /\ has_crash_sym = TRUE /\ has_symbols = TRUE
    /\ IF kind = "tasks" THEN kernel \in K!Kernels
       ELSE kernel = K!Plain("4.14")
    /\ IF kind = "modules" THEN M!AnyFiles
       ELSE file = [x \in M!Dirs \X M!Mods |-> "full"] /\ debug \in {CHOOSE g \in DebugChoices : TRUE}

-----------------------------------------------------------------------------
Enable == \E c \in T!Classes : /\ kind = "target" /\ T!enable(c)
                               /\ UNCHANGED <<own, taskVars, moduleVars>>
SetupTarget == /\ T!SetupTarget \/ T!TryTarget \/ T!NoTarget \/ T!SetupDone
               /\ UNCHANGED <<own, taskVars, moduleVars>>
SetupTasks == /\ \/ T!SetupTasks /\ K!ImportTasks
                 \/ T!SetupThread /\ K!NewTask
              /\ UNCHANGED <<own, moduleVars>>
SetupTasksRaises == /\ T!SetupRaises
                    /\ \/ pc = "opened" /\ K!ImportRaises
                       \/ pc = "tasks" /\ K!NewTaskRaises
                    /\ UNCHANGED <<own, moduleVars>>

\* gdb asks for registers at any time; only the dumps that vary need it.
Fetch == /\ kind = "target"
         /\ \/ \E t \in T!Tasks : T!FetchEnter(t) \/ T!FetchUnset(t) \/ T!FetchNested(t)
            \/ T!FetchReturn \/ T!FetchDelayed \/ T!FetchRaise
         /\ UNCHANGED <<own, taskVars, moduleVars>>

LoadModules == /\ (pc = "done" /\ M!Start) \/ M!Step
               /\ UNCHANGED <<own, targetVars, taskVars>>

\* load_modules returns, and the crashing thread is selected if it is known,
\* unless gdb refuses to switch to it; or load_modules raises CrashKernelError.
\* Either error is printed, and nothing is selected.
Ready == /\ stage = "setup" /\ stage' = "ready"
         /\ \/ loading = "done" /\ selected' = crashing
            \/ loading = "done" /\ crashing # T!None /\ UNCHANGED selected
            \/ loading = "raised" /\ UNCHANGED selected
         /\ UNCHANGED <<kind, asked, targetVars, taskVars, moduleVars>>

-----------------------------------------------------------------------------
ps == /\ stage = "ready" /\ kind = "tasks"
      /\ K!Unimplemented \/ (\E o \in K!Options : K!Ps(o))
      /\ UNCHANGED <<own, targetVars, moduleVars>>

\* task: a pid that is in the cache selects that task's thread.
task(pid) == /\ stage = "ready" /\ kind = "target"
             /\ IF pid \in DOMAIN cache /\ cache[pid] # T!None
                THEN selected' = cache[pid] /\ asked' = pid
                ELSE UNCHANGED <<selected, asked>>
             /\ UNCHANGED <<kind, stage, targetVars, taskVars, moduleVars>>

Next == \/ Enable \/ SetupTarget \/ SetupTasks \/ SetupTasksRaises \/ Fetch
        \/ LoadModules \/ Ready
        \/ ps
        \/ \E pid \in DOMAIN cache \cup {NoPid} : task(pid)
Spec == Init /\ [][Next]_vars

-----------------------------------------------------------------------------
(***************************************************************************)
(* The crashing thread is an active task of the CPU that crashed, and the  *)
(* thread selected at the end is that one, if any; after `task' it is one  *)
(* with the pid that was given.                                            *)
(***************************************************************************)
SelectionRight ==
    /\ T!CrashingThreadRight
    /\ selected # T!None =>
           IF asked = NoPid THEN selected = crashing ELSE Pid[selected] = asked

\* See Target: each thread's task is active exactly if a runqueue runs it.
TasksMatchRunqueues == T!TasksMatchRunqueues

\* See Target: a register fetch is turned down only inside another.
RefusesOnlyNested == T!RefusesOnlyNested

\* See KernelModules: each module comes from the first directory that has it.
FirstFitLoaded == M!FirstFitLoaded

\* See KernelModules: separate debuginfo is found if there is any.
DebuginfoFound == M!DebuginfoFound

\* See KernelModules: the callbacks are held back until the modules are in.
CallbacksSeeModules == M!CallbacksSeeModules

\* See Tasks: ps shows the state of a task on every kernel.
StatesShown == K!StatesShown

\* See Tasks: ps lists the tasks asked for, in order and with their memory.
PsSelects == K!PsSelects

=============================================================================
