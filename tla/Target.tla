-------------------------------- MODULE Target --------------------------------
(***************************************************************************)
(* The gdb target of crash/target/__init__.py with the register fetching   *)
(* of crash/target/x86_64.py and ppc64.py: how setup_target chooses and    *)
(* opens a target, how setup_tasks gives every gdb thread its task, and    *)
(* how gdb asks for the registers of a thread at any time from then on,    *)
(* also while it already waits for the registers of another.               *)
(***************************************************************************)
EXTENDS Integers, Sequences, FiniteSets, FiniteSetsExt

CONSTANTS
    Targets,        \* _targets: the registered target classes, in order
    Enablers,       \* Enablers[c]: the symbols whose discovery enables class c
    Threads,        \* gdb's threads, in order; each is a task
    Pid,            \* Pid[t]: the pid of task t
    Cpus,           \* the numbers of the CPUs
    CrashSymbols,   \* whether the kernel may define crashing_cpu: SUBSET BOOLEAN
    HasSymbols,     \* whether the first objfile may have symbols: SUBSET BOOLEAN
    FetchFaults     \* how reading the registers may fail

Classes == {Targets[i] : i \in DOMAIN Targets}
Tasks == {Threads[i] : i \in DOMAIN Threads}
Symbols == UNION {Enablers[c] : c \in Classes}
None == "none"
NoCpu == -1

ConstantsOK ==
    /\ Targets \in Seq(Classes) /\ None \notin Classes
    /\ Threads \in Seq(Tasks) /\ None \notin Tasks
    /\ \A t \in Tasks : Pid[t] \in Nat
    /\ Cpus \subseteq Nat
    /\ FetchFaults \subseteq {"AttributeError", "other"}

VARIABLES
    enabled,        \* the classes whose enable() has been called
    curr,           \* curr[k]: the task that the runqueue of CPU k runs
    crashing_cpu,   \* the kernel's variable
    has_crash_sym,  \* whether the kernel defines it
    has_symbols,    \* gdb.objfiles()[0].has_symbols()
    pc,             \* where setup_target is
    i,              \* the index of its loop over the classes
    n,              \* the index of the loop in setup_tasks
    current,        \* gdb's current target
    info,           \* info[t]: thread.info, with the fields active and cpu
    crashing,       \* self.crashing_thread
    cache,          \* crash.cache.tasks.tasks
    fetching,       \* self.fetching
    call,           \* the thread whose registers arch code is reading
    answer          \* the last answer of fetch_registers

dump == <<curr, crashing_cpu, has_crash_sym, has_symbols>>
setup == <<pc, i, n, current, info, crashing, cache>>
fetch == <<fetching, call, answer>>
vars == <<enabled, curr, crashing_cpu, has_crash_sym, has_symbols, pc, i, n,
          current, info, crashing, cache, fetching, call, answer>>

Unset == [set |-> FALSE, active |-> FALSE, cpu |-> NoCpu]

AnyDump ==
    /\ curr \in [Cpus -> Tasks]
    /\ crashing_cpu \in Cpus \cup {NoCpu}
    /\ has_crash_sym \in CrashSymbols
    /\ has_symbols \in HasSymbols
Start ==
    /\ pc = "before" /\ i = 1 /\ n = 1 /\ current = None
    /\ info = [t \in Tasks |-> Unset] /\ crashing = None
    /\ cache = [p \in {Pid[t] : t \in Tasks} |-> None]
    /\ fetching = FALSE /\ call = None
    /\ answer = [to |-> None, is |-> "nothing"]

\* A type or minimal symbol callback calls enable() on a class.
enable(c) ==
    /\ pc = "before" /\ c \notin enabled /\ Enablers[c] # {}
    /\ enabled' = enabled \cup {c}
    /\ UNCHANGED <<dump, setup, fetch>>

\* Session.__init__ calls setup_target.
SetupTarget ==
    /\ pc = "before"
    /\ pc' = "class"
    /\ UNCHANGED <<enabled, dump, i, n, current, info, crashing, cache, fetch>>

(***************************************************************************)
(* One turn of the loop in setup_target, up to super().open(): the class   *)
(* refuses with IncorrectTargetError unless it is enabled; the ValueError  *)
(* of a kernel without symbols is not caught.                              *)
(***************************************************************************)
fetch_registers_usable(c) == c \in enabled
TryTarget ==
    /\ pc = "class" /\ i <= Len(Targets)
    /\ \/ /\ ~fetch_registers_usable(Targets[i])
          /\ i' = i + 1 /\ UNCHANGED <<pc, current>>
       \/ /\ fetch_registers_usable(Targets[i]) /\ ~has_symbols
          /\ pc' = "raised" /\ UNCHANGED <<i, current>>
       \/ /\ fetch_registers_usable(Targets[i]) /\ has_symbols
          /\ current' = Targets[i] /\ pc' = "opened" /\ UNCHANGED i
    /\ UNCHANGED <<enabled, dump, n, info, crashing, cache, fetch>>

\* No class would do: IncorrectTargetError.
NoTarget ==
    /\ pc = "class" /\ i > Len(Targets)
    /\ pc' = "raised"
    /\ UNCHANGED <<enabled, dump, i, n, current, info, crashing, cache, fetch>>

(***************************************************************************)
(* The rest of open() up to the loop over the threads: target_ready(), the *)
(* runqueues, and symvals.crashing_cpu, which raises DelayedAttributeError *)
(* if the kernel has no such symbol.  The except clause is for another     *)
(* exception.                                                              *)
(***************************************************************************)
SetupTasks ==
    /\ pc = "opened" /\ call = None
    /\ pc' = IF has_crash_sym THEN "tasks" ELSE "raised"
    /\ UNCHANGED <<enabled, dump, i, n, current, info, crashing, cache, fetch>>

\* task.py cannot be imported or a LinuxTask not be made: see Tasks.
SetupRaises ==
    /\ call = None /\ (pc = "opened" \/ (pc = "tasks" /\ n <= Len(Threads)))
    /\ pc' = "raised"
    /\ UNCHANGED <<enabled, dump, i, n, current, info, crashing, cache, fetch>>

\* rqscurrs: the CPU recorded for a task, the last one if several claim it.
Running(t) == \E k \in Cpus : curr[k] = t
CpuOf(t) == Max({k \in Cpus : curr[k] = t})

(***************************************************************************)
(* One turn of the loop in setup_tasks.                                    *)
(***************************************************************************)
InfoIdle(t) == [set |-> TRUE, active |-> FALSE, cpu |-> NoCpu]
InfoOf(t) == IF Running(t) THEN [set |-> TRUE, active |-> TRUE, cpu |-> CpuOf(t)]
             ELSE InfoIdle(t)
IsCrashingAny(t) == info'[t].cpu = crashing_cpu
IsCrashing(t) == info'[t].active /\ info'[t].cpu = crashing_cpu
SetupThread ==
    /\ pc = "tasks" /\ n <= Len(Threads) /\ call = None
    /\ LET t == Threads[n]
       IN  /\ info' = [info EXCEPT ![t] = InfoOf(t)]
           /\ crashing' = IF IsCrashing(t) THEN t ELSE crashing
           /\ cache' = [cache EXCEPT ![Pid[t]] = t]
    /\ n' = n + 1
    /\ UNCHANGED <<enabled, dump, pc, i, current, fetch>>

SetupDone ==
    /\ pc = "tasks" /\ n > Len(Threads)
    /\ pc' = "done"
    /\ UNCHANGED <<enabled, dump, i, n, current, info, crashing, cache, fetch>>

-----------------------------------------------------------------------------
(***************************************************************************)
(* gdb calls fetch_registers of the current target.  The call enters the   *)
(* arch code, unless one is in progress, or the thread has no task yet:    *)
(* then thread.info.active raises AttributeError and the answer is None.   *)
(***************************************************************************)
FetchEnter(t) ==
    /\ current # None /\ ~fetching /\ info[t].set
    /\ fetching' = TRUE /\ call' = t
    /\ UNCHANGED <<enabled, dump, setup, answer>>

FetchUnset(t) ==
    /\ current # None /\ ~fetching /\ ~info[t].set
    /\ answer' = [to |-> t, is |-> "nothing"]
    /\ UNCHANGED <<enabled, dump, setup, fetching, call>>

FetchNested(t) ==
    /\ current # None /\ fetching
    /\ answer' = [to |-> t, is |-> "nothing"]
    /\ UNCHANGED <<enabled, dump, setup, fetching, call>>

\* fetch_active or fetch_scheduled returns the registers.
FetchReturn ==
    /\ call # None
    /\ answer' = [to |-> call,
                  is |-> IF info[call].active THEN "active" ELSE "scheduled"]
    /\ fetching' = FALSE /\ call' = None
    /\ UNCHANGED <<enabled, dump, setup>>

\* It raises AttributeError, for a type not resolved yet: the answer is None.
FetchDelayed ==
    /\ call # None /\ "AttributeError" \in FetchFaults
    /\ answer' = [to |-> call, is |-> "nothing"]
    /\ fetching' = FALSE /\ call' = None
    /\ UNCHANGED <<enabled, dump, setup>>

\* It raises something else, such as gdb.MemoryError or RuntimeError.
FetchRaise ==
    /\ call # None /\ "other" \in FetchFaults
    /\ answer' = [to |-> call, is |-> "exception"]
    /\ call' = None
    /\ UNCHANGED <<enabled, dump, setup, fetching>>

-----------------------------------------------------------------------------
(***************************************************************************)
(* The crashing thread is an active task and runs on the CPU that crashed; *)
(* once all tasks are set up it is known if any runqueue tells it.         *)
(***************************************************************************)
CrashingThreadRight ==
    /\ crashing # None => /\ info[crashing].active
                          /\ curr[crashing_cpu] = crashing
    /\ pc = "done" /\ crashing_cpu \in Cpus
           /\ crashing_cpu = CpuOf(curr[crashing_cpu]) =>
               crashing = curr[crashing_cpu]

(***************************************************************************)
(* A thread answers with the registers of a running task exactly if some   *)
(* runqueue runs it, and the CPU they are taken from is that runqueue's;   *)
(* tasks that have a pid of their own can be looked up by it.              *)
(***************************************************************************)
TasksMatchRunqueues ==
    /\ answer.is = "active" => Running(answer.to)
    /\ answer.is = "scheduled" => ~Running(answer.to)
    /\ \A t \in Tasks : info[t].active => curr[info[t].cpu] = t
    /\ pc = "done" => \A t \in Tasks :
           (\A u \in Tasks : Pid[u] = Pid[t] => u = t) => cache[Pid[t]] = t

(***************************************************************************)
(* "Don't recurse, but don't fail either": fetch_registers turns a call    *)
(* down, by the flag, only while another is in progress.                   *)
(***************************************************************************)
RefusesOnlyNested == fetching => call # None

=============================================================================
