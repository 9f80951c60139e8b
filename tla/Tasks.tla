-------------------------------- MODULE Tasks --------------------------------
(***************************************************************************)
(* The tasks as crash/types/task.py understands them (TaskStateFlags,      *)
(* LinuxTask) and the ps command of crash/commands/ps.py that lists them.  *)
(*                                                                         *)
(* The values of the task state flags differ between kernels and are       *)
(* worked out from the strings of task_state_array, of which some kernels  *)
(* leave a part out.  An int is modelled as the set of its bits.           *)
(***************************************************************************)
EXTENDS Integers, Sequences, FiniteSets, SequencesExt

CONSTANTS
    Threads,        \* gdb's threads, in order; each is a task
    Pid,            \* Pid[t]: the pid of task t
    Varied,         \* the task whose condition varies; the others are idle tasks
    Releases,       \* the kernels, see Strings
    Rss             \* how the kernels account for resident pages

ConstantsOK ==
    /\ Varied \in Range(Threads)
    /\ Releases \subseteq {"2.4", "2.6.22", "3.9", "3.14", "4.14"}
    /\ Rss \subseteq {"rss", "rss_stat", "fields", "none"}

VARIABLES
    kernel,         \* the kernel and its tasks
    TF,             \* TaskStateFlags: the value of each flag
    _valid,         \* LinuxTask._valid
    mem,            \* the mem_valid and rss of each LinuxTask
    task_states,    \* PSCommand.task_states: pairs <<bits, letters>>, in order
    output          \* of the last ps: its options, result and lines

vars == <<kernel, TF, _valid, mem, task_states, output>>

Tasks == Range(Threads)
Flags == {"TASK_RUNNING", "TASK_INTERRUPTIBLE", "TASK_UNINTERRUPTIBLE",
          "TASK_STOPPED", "TASK_TRACING_STOPPED", "EXIT_ZOMBIE", "EXIT_DEAD",
          "TASK_DEAD", "TASK_WAKEKILL", "TASK_WAKING", "TASK_PARKED",
          "TASK_NOLOAD", "TASK_NEW", "TASK_IDLE", "TASK_SWAPPING"}
\* TASK_FLAG_UNINITIALIZED, which is -1 and has all bits.
Uninitialized == {-1}
And(a, b) == IF b = Uninitialized THEN a ELSE IF a = Uninitialized THEN b ELSE a \cap b
Or(a, b) == IF Uninitialized \in {a, b} THEN Uninitialized ELSE a \cup b
Shl(a, n) == {b + n : b \in a}
\* a > b: the highest bit in which they differ is a's.
Above(a, b) == /\ a # b /\ a # Uninitialized
               /\ b # Uninitialized => Max((a \ b) \cup (b \ a)) \in a

-----------------------------------------------------------------------------
(***************************************************************************)
(* The kernels: the flags that task_state_array has a string for, in the   *)
(* order of their bits, and the bits that they really have.                *)
(***************************************************************************)
Common == <<"TASK_RUNNING", "TASK_INTERRUPTIBLE", "TASK_UNINTERRUPTIBLE">>
Stops == <<"TASK_STOPPED", "TASK_TRACING_STOPPED">>
Strings(release) == Common \o
    CASE release = "2.4"    -> <<"EXIT_ZOMBIE", "TASK_STOPPED", "TASK_SWAPPING">>
      [] release = "2.6.22" -> Stops \o <<"EXIT_ZOMBIE", "EXIT_DEAD">>
      [] release = "3.9"    -> Stops \o <<"EXIT_ZOMBIE", "EXIT_DEAD", "TASK_DEAD",
                                          "TASK_WAKEKILL", "TASK_WAKING", "TASK_PARKED">>
      [] release = "3.14"   -> Stops \o <<"EXIT_DEAD", "EXIT_ZOMBIE">>
      [] release = "4.14"   -> Stops \o <<"EXIT_DEAD", "EXIT_ZOMBIE", "TASK_PARKED">>
Missing(release) ==
    CASE release = "2.4"    -> <<>>
      [] release = "2.6.22" -> <<"TASK_DEAD">>
      [] release = "3.9"    -> <<>>
      [] release = "3.14"   -> <<"TASK_DEAD", "TASK_WAKEKILL", "TASK_WAKING", "TASK_PARKED",
                                 "TASK_NOLOAD", "TASK_NEW">>
      [] release = "4.14"   -> <<"TASK_DEAD", "TASK_WAKEKILL", "TASK_WAKING",
                                 "TASK_NOLOAD", "TASK_NEW">>
BitOf(k) == IF k = 1 THEN {} ELSE {k - 2}
Bit(flags, f) == BitOf(CHOOSE k \in DOMAIN flags : flags[k] = f)
RealFlags(release) == Strings(release) \o Missing(release)
Known(release) == Range(RealFlags(release))
Real(release, flag) == LET flags == RealFlags(release) IN Bit(flags, flag)

\* What a task may be doing: the flags of its state and of its exit_state.
Conditions ==
    [running |-> {}, sleeping |-> {"TASK_INTERRUPTIBLE"},
     waiting |-> {"TASK_UNINTERRUPTIBLE"},
     killable |-> {"TASK_UNINTERRUPTIBLE", "TASK_WAKEKILL"},
     stopped |-> {"TASK_STOPPED"}, traced |-> {"TASK_TRACING_STOPPED"},
     idle |-> {"TASK_UNINTERRUPTIBLE", "TASK_NOLOAD"},
     parked |-> {"TASK_PARKED"}, swapping |-> {"TASK_SWAPPING"},
     zombie |-> {"EXIT_ZOMBIE"}, exited |-> {"TASK_DEAD", "EXIT_ZOMBIE"},
     dead |-> {"TASK_DEAD", "EXIT_DEAD"}]
Gone == {"zombie", "exited", "dead"}

\* The tasks.  A user's task loses its mm in exit, a kernel thread has none.
IdleTask == [does |-> "running", exiting |-> FALSE, kthread |-> TRUE, mm |-> "none",
             leader |-> TRUE, matches |-> FALSE]
Conditioned ==
    {t \in [does : DOMAIN Conditions, exiting : BOOLEAN, kthread : BOOLEAN,
            mm : {"none", "init_mm", "own"}, leader : BOOLEAN, matches : BOOLEAN] :
        /\ t.kthread => t.mm # "own"
        /\ ~t.kthread => t.mm = "own" \/ (t.mm = "none" /\ t.exiting)
        /\ t.does \in Gone => t.exiting /\ t.mm = "none"
        /\ t.leader # t.matches}
Kernels ==
    {k \in [release : Releases, task : Conditioned, ran : {0, 9}, rss : Rss,
            last_run : BOOLEAN, swapped : 0..1, unreadable : {0, 3}] :
        /\ Conditions[k.task.does] \subseteq Known(k.release)
        /\ k.ran = (IF k.task.leader THEN 0 ELSE 9)
        /\ k.rss # "fields" => k.task.does \in {"sleeping", "zombie"}
        /\ k.swapped = 1 => k.rss = "rss_stat"
        /\ k.unreadable # 0 => k.rss = "fields"
        /\ ~k.last_run => k.rss = "rss"}
Plain(release) == [release |-> release,
                   task |-> [IdleTask EXCEPT !.mm = "own", !.kthread = FALSE],
                   ran |-> 9, rss |-> "fields", last_run |-> TRUE,
                   swapped |-> 0, unreadable |-> 0]
TaskOf(t) == IF t = Varied THEN kernel.task ELSE IdleTask
FilePages == 2
AnonPages == 3

NoOutput == [result |-> "none"]
Start ==
    /\ TF = [f \in Flags |-> IF f = "TASK_RUNNING" THEN {} ELSE Uninitialized]
    /\ _valid = FALSE
    /\ mem = [t \in Tasks |-> [mem_valid |-> FALSE, rss |-> 0]]
    /\ task_states = <<>> /\ output = NoOutput

-----------------------------------------------------------------------------
(***************************************************************************)
(* task_state_flags_callback: first the bits of the strings, up to one     *)
(* that cannot be read, if any.                                            *)
(***************************************************************************)
Has(tf, flag) == tf[flag] # Uninitialized
StringsRead == IF kernel.unreadable = 0 THEN Strings(kernel.release)
               ELSE SubSeq(Strings(kernel.release), 1, kernel.unreadable - 1)
FromStrings == [f \in Flags |->
    IF Contains(StringsRead, f) THEN Bit(StringsRead, f) ELSE TF[f]]

\* Then those without a string, which follow one after the other.
Numbered(tf, first, flags) == [f \in Flags |->
    IF Contains(flags, f)
    THEN Shl(first, (CHOOSE k \in DOMAIN flags : flags[k] = f) - 1) ELSE tf[f]]
Highest(tf) == IF Above(tf.EXIT_ZOMBIE, tf.EXIT_DEAD) THEN tf.EXIT_ZOMBIE
               ELSE tf.EXIT_DEAD
DerivedOneWay(tf) ==
    IF Has(tf, "EXIT_DEAD")
    THEN Numbered(tf, Shl(Highest(tf), 1),
                  <<"TASK_DEAD", "TASK_WAKEKILL", "TASK_WAKING", "TASK_PARKED",
                    "TASK_NOLOAD", "TASK_NEW">>)
    ELSE tf
Derived(tf) ==
    IF Has(tf, "TASK_PARKED") /\ ~Has(tf, "TASK_DEAD")
    THEN Numbered(tf, Shl(tf.TASK_PARKED, 1),
                  <<"TASK_DEAD", "TASK_WAKEKILL", "TASK_WAKING", "TASK_NOLOAD", "TASK_NEW">>)
    ELSE IF Has(tf, "EXIT_DEAD")
    THEN Numbered(tf, Shl(Highest(tf), 1),
                  <<"TASK_DEAD", "TASK_WAKEKILL", "TASK_WAKING", "TASK_PARKED",
                    "TASK_NOLOAD", "TASK_NEW">>)
    ELSE tf
WithIdle(tf) == IF Has(tf, "TASK_NOLOAD")
                THEN [tf EXCEPT !.TASK_IDLE = Or(tf.TASK_NOLOAD, tf.TASK_UNINTERRUPTIBLE)]
                ELSE tf
\* The assertions, of which 2.4 fails the first, and _check_state_bits.
Asserted(tf) ==
    /\ tf.TASK_DEAD \in {{6}, {7}}
    /\ Has(tf, "TASK_NOLOAD") => tf.TASK_NOLOAD = {10} /\ tf.TASK_IDLE = {1, 10}
    /\ \A f \in {"TASK_INTERRUPTIBLE", "TASK_UNINTERRUPTIBLE", "EXIT_ZOMBIE",
                 "TASK_STOPPED"} : Has(tf, f)

FoundFlags == WithIdle(Derived(FromStrings))
\* The import of task.py in setup_tasks runs the callback; an unreadable string
\* is a gdb.error, after which the callback stays pending; other errors go on.
ImportTasks ==
    /\ kernel.unreadable # 0 \/ Asserted(FoundFlags)
    /\ TF' = IF kernel.unreadable # 0 THEN FromStrings ELSE FoundFlags
    /\ UNCHANGED <<kernel, _valid, mem, task_states, output>>
ImportRaises ==
    /\ kernel.unreadable = 0 /\ ~Asserted(FoundFlags)
    /\ TF' = FoundFlags
    /\ UNCHANGED <<kernel, _valid, mem, task_states, output>>

\* LinuxTask(): the first one picks the methods for rss and last_run, or raises.
Picks == kernel.rss # "none" /\ kernel.last_run
NewTask ==
    /\ _valid \/ Picks
    /\ _valid' = TRUE
    /\ UNCHANGED <<kernel, TF, mem, task_states, output>>
NewTaskRaises ==
    /\ ~_valid /\ ~Picks
    /\ UNCHANGED <<kernel, TF, _valid, mem, task_states, output>>

-----------------------------------------------------------------------------
\* The methods of LinuxTask.
task_state(t) == UNION {Real(kernel.release, f) : f \in Conditions[TaskOf(t).does]}
known == LET or(a, f) == Or(a, TF[f])
             swapping == IF Has(TF, "TASK_SWAPPING") THEN <<"TASK_SWAPPING">> ELSE <<>>
         IN  FoldLeft(or, {}, <<"TASK_INTERRUPTIBLE", "TASK_UNINTERRUPTIBLE",
                                "EXIT_ZOMBIE", "TASK_STOPPED">> \o swapping)
maybe_dead(t) == And(task_state(t), known) = {}
is_zombie(t) == And(task_state(t), TF.EXIT_ZOMBIE) # {}
is_exiting(t) == TaskOf(t).exiting
KernelIfNoMm(t) == Pid[t] = 0 \/ TaskOf(t).mm \in {"none", "init_mm"}
is_kernel_task(t) ==
    \/ Pid[t] = 0
    \/ ~is_zombie(t) /\ ~is_exiting(t) /\ TaskOf(t).mm \in {"none", "init_mm"}
is_thread_group_leader(t) == TaskOf(t).leader
last_run(t) == IF t = Varied THEN kernel.ran ELSE CHOOSE k \in DOMAIN Threads : Threads[k] = t
\* rss_stat has a counter for swap entries, too.  The methods for the oldest
\* kernels call a method that a gdb.Value does not have, an AttributeError.
get_rss == IF kernel.rss = "rss_stat" THEN FilePages + AnonPages + kernel.swapped
           ELSE FilePages + AnonPages
Unchanging(t) == mem[t].mem_valid \/ is_zombie(t) \/ is_exiting(t)
MemRaises(t) == kernel.rss = "rss" /\ ~Unchanging(t) /\ TaskOf(t).mm # "none"
update_mem_usage(t) ==
    IF Unchanging(t) THEN mem[t]
    ELSE IF TaskOf(t).mm = "none" THEN [mem[t] EXCEPT !.mem_valid = TRUE]
    ELSE [mem_valid |-> TRUE, rss |-> IF TaskOf(t).mm = "own" THEN get_rss ELSE 0]

(***************************************************************************)
(* ps.  The letters are set up by the first one; a dictionary keeps what   *)
(* was stored last under a key.                                            *)
(***************************************************************************)
setup_task_states ==
    LET always == <<<<TF.TASK_RUNNING, "RU">>, <<TF.TASK_INTERRUPTIBLE, "IN">>,
                    <<TF.TASK_UNINTERRUPTIBLE, "UN">>, <<TF.EXIT_ZOMBIE, "ZO">>,
                    <<TF.TASK_STOPPED, "ST">>>>
        perhaps == <<<<TF.TASK_SWAPPING, "SW">>, <<TF.TASK_DEAD, "DE">>,
                     <<TF.TASK_TRACING_STOPPED, "TR">>, <<TF.TASK_IDLE, "ID">>>>
    IN  always \o SelectSeq(perhaps, LAMBDA x : x[1] # Uninitialized)
LettersOf(states, bits) ==
    states[Max({k \in DOMAIN states : states[k][1] = bits})][2]
task_state_string(states, t) ==
    LET state == task_state(t)
        fits == {states[k][1] : k \in {k \in DOMAIN states : And(state, states[k][1]) = states[k][1]}}
        best == CHOOSE b \in fits : \A c \in fits : ~Above(c, b)
    IN  IF And(state, TF.TASK_DEAD) # {} /\ maybe_dead(t)
        THEN LettersOf(states, TF.TASK_DEAD) ELSE LettersOf(states, best)

Options == {o \in [filter : {"none", "k", "u", "G"}, l : BOOLEAN, pattern : BOOLEAN] :
               o.pattern => ~o.l /\ o.filter \in {"none", "u"}}
should_print_task(o, t) ==
    /\ CASE o.filter = "k" -> is_kernel_task(t) [] o.filter = "u" -> ~is_kernel_task(t)
         [] o.filter = "G" -> is_thread_group_leader(t) [] OTHER -> TRUE
    /\ o.pattern => TaskOf(t).matches
Key(o, t) == IF o.l THEN -last_run(t) ELSE Pid[t]
\* sorted(), which keeps the order of what has the same key.
Sorted(o) == LET at(t) == CHOOSE k \in DOMAIN Threads : Threads[k] = t
             IN  SortSeq(Threads, LAMBDA a, b :
                    \/ Key(o, a) < Key(o, b)
                    \/ Key(o, a) = Key(o, b) /\ at(a) < at(b))

\* With one of -p, -c, -t, -a, -g and -r.
Unimplemented ==
    /\ output' = [result |-> "unimplemented"]
    /\ UNCHANGED <<kernel, TF, _valid, mem, task_states>>
Ps(o) ==
    /\ task_states' = IF task_states = <<>> THEN setup_task_states ELSE task_states
    /\ LET chosen == SelectSeq(Sorted(o), LAMBDA t : should_print_task(o, t))
           raising == {k \in DOMAIN chosen : MemRaises(chosen[k])}
           listed == IF raising = {} THEN chosen ELSE SubSeq(chosen, 1, Min(raising) - 1)
       IN  /\ mem' = [t \in Tasks |-> IF Contains(listed, t) THEN update_mem_usage(t)
                                      ELSE mem[t]]
           /\ output' =
                  [result |-> IF raising # {} THEN "raised"
                              ELSE IF listed # <<>> THEN "listed"
                              ELSE IF o.pattern THEN "no matches" ELSE "BUG?",
                   options |-> o,
                   lines |-> [k \in DOMAIN listed |->
                       [task |-> listed[k], rss |-> mem'[listed[k]].rss,
                        state |-> task_state_string(task_states', listed[k])]]]
    /\ UNCHANGED <<kernel, TF, _valid>>

-----------------------------------------------------------------------------
(***************************************************************************)
(* Whatever kernel it is, and however much its strings leave out, ps shows *)
(* a task's state.  There are no letters for a parked task, which is shown *)
(* as running, and a zombie that will not run again is shown as dead.      *)
(***************************************************************************)
Letters == [running |-> "RU", sleeping |-> "IN", waiting |-> "UN", killable |-> "UN",
            stopped |-> "ST", traced |-> "TR", idle |-> "ID", parked |-> "RU",
            swapping |-> "SW", zombie |-> "ZO", exited |-> "DE", dead |-> "DE"]
StatesShown ==
    output.result = "listed" /\ kernel.unreadable = 0 =>
        \A k \in DOMAIN output.lines :
            output.lines[k].state = Letters[TaskOf(output.lines[k].task).does]

(***************************************************************************)
(* ps lists exactly the tasks that are asked for, each once, in order, and *)
(* with its resident pages.  Nothing is said of two cases in which code    *)
(* and documentation disagree: -k and -u for a kernel thread that exits,   *)
(* which the code takes for a user task, and the size of a task with       *)
(* entries in swap, which the code counts.  The pages of an exiting task   *)
(* are not read.  If the strings could not be read, every task that does   *)
(* not run is taken for a zombie, and nothing is known of it.              *)
(***************************************************************************)
Asked(o, t) ==
    /\ o.pattern => TaskOf(t).matches
    /\ CASE o.filter = "k" -> TaskOf(t).kthread [] o.filter = "u" -> ~TaskOf(t).kthread
         [] o.filter = "G" -> TaskOf(t).leader [] OTHER -> TRUE
Odd(o, t) == /\ o.filter \in {"k", "u"} /\ Pid[t] # 0
             /\ TaskOf(t).kthread /\ TaskOf(t).exiting
Pages(t) == IF TaskOf(t).mm = "own" THEN FilePages + AnonPages ELSE 0
PsSelects ==
    output.result \in {"listed", "no matches", "BUG?"} /\ kernel.unreadable = 0 =>
        LET o == output.options
            shown == {output.lines[k].task : k \in DOMAIN output.lines}
        IN  /\ \A t \in Tasks : Odd(o, t) \/ (t \in shown <=> Asked(o, t))
            /\ \A j, k \in DOMAIN output.lines : j < k =>
                   LET a == output.lines[j].task
                       b == output.lines[k].task
                   IN  a # b /\ (IF o.l THEN last_run(a) >= last_run(b) ELSE Pid[a] <= Pid[b])
            /\ \A k \in DOMAIN output.lines :
                   LET t == output.lines[k].task
                   IN  \/ output.lines[k].rss = Pages(t)
                       \/ kernel.swapped # 0 \/ TaskOf(t).exiting

=============================================================================
