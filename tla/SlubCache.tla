------------------------------ MODULE SlubCache ------------------------------
(***************************************************************************)
(* One kmem cache of the SLUB allocator as crash/types/slab.py reads it    *)
(* (KmemCacheSLUB, SlabSLUB), driven by the kmem command.                  *)
(*                                                                         *)
(* What is read from the dump is remembered in the KmemCacheSLUB object    *)
(* (cpu_slabs, cpu_freelists, node_slabs, processed) and used by every     *)
(* later command.  process_all fills it; the header of a slab asks for the *)
(* slab's role, and that calls process_all again if the one in progress is *)
(* the first: `stack' holds the process_all calls in progress, innermost   *)
(* first.                                                                  *)
(*                                                                         *)
(* The dump is fixed.  It is described by where each slab is and whether   *)
(* each object is allocated; objects of a slab s are pairs <<s, i>>.       *)
(***************************************************************************)
EXTENDS Integers, Sequences, FiniteSets, SequencesExt

CONSTANTS
    Slabs,          \* the struct pages of the cache
    NObj,           \* objects per slab
    Online,         \* the numbers of the online CPUs
    Nodes,          \* the NUMA nodes
    NoSlab,         \* a null pointer to a slab
    Levels,         \* how often -S may be repeated; 1 is also what -s does
    Flaws           \* what the dumps may suffer from: "none", "fault", "hole"

ASSUME SlubAssumption ==
    /\ IsFiniteSet(Slabs) /\ NoSlab \notin Slabs
    /\ NObj \in Nat \ {0}
    /\ IsFiniteSet(Online) /\ Online \subseteq Nat
    /\ IsFiniteSet(Nodes) /\ Nodes \subseteq Nat
    /\ Levels \subseteq 1..4
    /\ Flaws \subseteq {"none", "fault", "hole"}

VARIABLES
    mem,            \* the dump
    cpu_slabs, cpu_freelists, node_slabs, cpu_slabs_free, processed,
    stack,          \* the process_all calls in progress
    asked,          \* the object `kmem addr' is asked about, or NoObj
    errors,         \* the kinds of errors reported
    said,           \* what the command says last: objects and "in use",
    shown,          \*   slabs and their roles,
    totals          \*   the summary line

cache == <<cpu_slabs, cpu_freelists, node_slabs, cpu_slabs_free, processed>>
output == <<said, shown, totals>>
vars == <<mem, cpu_slabs, cpu_freelists, node_slabs, cpu_slabs_free, processed,
          stack, asked, errors, said, shown, totals>>

Objs == Slabs \X (1..NObj)
ObjsOf(s) == {s} \X (1..NObj)
NoObj == <<NoSlab, 0>>
\* A slab's role: the list it is on and the CPU or node the list belongs to.
NoRole == <<"none", 0>>
CpuRoles == {"cpu slab", "cpu partial"} \X Online
NodeRoles == {"partial", "full"} \X Nodes
Untracked == <<"untracked full", 0>>
Unknown == <<"unknown", 0>>
Nobody == -1

-----------------------------------------------------------------------------
(***************************************************************************)
(* The dumps a kernel leaves.  A slab is where `role' says; an object is   *)
(* allocated, on its page's freelist, or on the freelist of the CPU whose  *)
(* slab it is in.  `inuse' counts the objects not on the page's freelist.  *)
(***************************************************************************)
\* Bound: nothing looks at an object's index, so one order of them will do.
Rank == [allocated |-> 0, page |-> 1, cpu |-> 2]
Ordered(obj) == \A o, p \in Objs : o[1] = p[1] /\ o[2] < p[2] => Rank[obj[o]] <= Rank[obj[p]]
At(role, r) == SetToSeq({s \in Slabs : role[s] = r})
Consistent(role, obj, tracks) ==
    /\ \A c \in Online : Cardinality({s \in Slabs : role[s] = <<"cpu slab", c>>}) <= 1
    /\ \A o \in Objs : obj[o] = "cpu" => role[o[1]][1] = "cpu slab"
    /\ \A s \in Slabs :
        LET free == {o \in ObjsOf(s) : obj[o] = "page"}
        IN  CASE role[s][1] \in {"partial", "cpu partial"} -> free # {}
              [] role[s][1] = "full"      -> free = {} /\ tracks
              [] role[s] = Untracked      -> free = {} /\ ~tracks
              [] OTHER -> TRUE
Memory(role, obj, tracks) ==
    LET page == [s \in Slabs |-> {o \in ObjsOf(s) : obj[o] = "page"}]
        list == [r \in CpuRoles \cup NodeRoles |-> At(role, r)]
    IN  [list     |-> list,
         pageFree |-> page,
         cpuFree  |-> [c \in Online |->
                         {o \in Objs : obj[o] = "cpu"
                                       /\ role[o[1]] = <<"cpu slab", c>>}],
         cyclic   |-> {},
         round    |-> [c \in Online |-> 0],
         inuse    |-> [s \in Slabs |-> NObj - Cardinality(page[s])],
         frozen   |-> {s \in Slabs : role[s] \in CpuRoles},
         pages    |-> [s \in Slabs |->
                         IF role[s][1] # "cpu partial" THEN 0
                         ELSE LET l == list[role[s]]
                                  k == CHOOSE k \in DOMAIN l : l[k] = s
                              IN  Len(l) - k + 1],
         nr_partial |-> [n \in Nodes |-> Len(list[<<"partial", n>>])],
         nr_slabs |-> Cardinality(Slabs),
         tracks   |-> tracks,
         missing  |-> {},
         fault    |-> NoRole]

(***************************************************************************)
(* The same dump with one thing wrong: an object on two freelists, a       *)
(* freelist that is a circle, a wrong counter or flag, a slab on a second  *)
(* CPU's list, or a CPU's chain of partial slabs whose last one leads back *)
(* into it: `round' tells how many slabs the circle has.  `fault' records  *)
(* what, and where.                                                        *)
(***************************************************************************)
WithFault(m) ==
    (UNION {{[m EXCEPT !.cpuFree[c] = @ \cup {o}, !.fault = <<"cached", <<o, c>>>>] :
        o \in UNION {m.pageFree[s] : s \in Slabs}} :
        c \in {c \in Online : m.list[<<"cpu slab", c>>] # <<>>
                             /\ Cardinality(m.cpuFree[c]) < NObj}})
    \cup {[m EXCEPT !.cyclic = {x}, !.fault = <<"cyclic", x>>] :
        x \in {s \in Slabs : m.pageFree[s] # {}}}
    \cup {[m EXCEPT !.cyclic = {<<c>>}, !.fault = <<"cyclic", <<c>>>>] :
        c \in {c \in Online : m.cpuFree[c] # {}}}
    \cup (UNION {{[m EXCEPT !.inuse[s] = i, !.fault = <<"inuse", s>>] :
        i \in (0..NObj) \ {m.inuse[s]}} : s \in Slabs})
    \cup {[m EXCEPT !.frozen = (@ \cup {s}) \ (@ \cap {s}),
                    !.fault = <<"frozen", s>>] : s \in Slabs}
    \cup {[m EXCEPT !.pages[s] = @ + 1, !.fault = <<"pages", s>>] :
        s \in {s \in Slabs : m.pages[s] # 0}}
    \cup (UNION {{[m EXCEPT !.list[<<"cpu slab", c>>] = <<s>>, !.fault = <<"twice", s>>] :
        s \in {s \in Slabs : s \in m.frozen}} :
        c \in {c \in Online : m.list[<<"cpu slab", c>>] = <<>>}})
    \cup (UNION {{[m EXCEPT !.round[c] = n, !.fault = <<"round", c>>] :
        n \in 1..Len(m.list[<<"cpu partial", c>>])} : c \in Online})
    \cup {[m EXCEPT !.nr_partial[n] = @ + 1, !.fault = <<"nr_partial", n>>] :
        n \in Nodes}
    \cup {[m EXCEPT !.nr_slabs = @ + 1, !.fault = <<"nr_full", 0>>]}
    \cup {[m EXCEPT !.tracks = t, !.fault = <<"tracks", 0>>] :
        t \in {t \in {~m.tracks} : \E s \in Slabs :
                  \A r \in CpuRoles \cup ({"partial"} \X Nodes) :
                      ~Contains(m.list[r], s)}}

\* The same dump without one of the struct pages.
WithHole(m) == {[m EXCEPT !.missing = {s}] : s \in Slabs}

Variants(m) == UNION {CASE f = "none"  -> {m}
                        [] f = "fault" -> WithFault(m)
                        [] f = "hole"  -> WithHole(m) : f \in Flaws}
Dumped == \E role \in [Slabs -> CpuRoles \cup NodeRoles \cup {Untracked}],
             obj \in [Objs -> {"allocated", "page", "cpu"}], tracks \in BOOLEAN :
              /\ Consistent(role, obj, tracks) /\ Ordered(obj)
              /\ mem \in Variants(Memory(role, obj, tracks))

Init ==
    /\ Dumped
    /\ cpu_slabs = [s \in Slabs |-> NoRole]
    /\ cpu_freelists = [o \in Objs |-> Nobody]
    /\ node_slabs = [s \in Slabs |-> NoRole]
    /\ cpu_slabs_free = 0
    /\ processed = FALSE
    /\ stack = <<>> /\ asked = NoObj
    /\ errors = {} /\ said = {} /\ shown = {} /\ totals = {}

-----------------------------------------------------------------------------
(***************************************************************************)
(* The locals of a process_all call.  `work' lists what it has still to    *)
(* go through: the CPUs unless it has nothing to do there, then each       *)
(* node's partial and full list.  `left' are the slabs left of the list it *)
(* is in.                                                                  *)
(***************************************************************************)
InOrder(S) == CHOOSE q \in [1..Cardinality(S) -> S] :
                  \A i, j \in DOMAIN q : i < j => q[i] < q[j]
Known == {s \in Slabs : cpu_slabs[s] # NoRole}
Cached == {o \in Objs : cpu_freelists[o] # Nobody}
NodeWork == [k \in 1..(2 * Cardinality(Nodes)) |->
                <<IF k % 2 = 1 THEN "partial" ELSE "full",
                  InOrder(Nodes)[(k + 1) \div 2]>>]
ProcessAll(level) ==
    LET fill == Known = {}
        cpus == IF ~fill /\ level = 0 THEN <<>> ELSE InOrder(Online)
    IN  [level |-> level, fill |-> fill, pc |-> "begin",
         work  |-> [k \in 1..Len(cpus) |-> <<"cpu", cpus[k]>>]
                   \o <<<<"free", 0>>>> \o NodeWork,
         left  |-> <<>>, pages |-> -1, expected |-> -1,
         nr_free_objs |-> 0, nr_full_list |-> 0]

top == stack[1]
Continue(f) == stack' = [stack EXCEPT ![1] = f]
\* An exception ends the command; the cache object keeps what it has.
Raise == stack' = <<>> /\ asked' = NoObj

\* The kmem command on a cache: check_all is level 1, list_all any level.
Process(level) ==
    /\ stack = <<>> /\ asked = NoObj
    /\ stack' = <<ProcessAll(level)>>
    /\ said' = {} /\ shown' = {} /\ totals' = {}
    /\ UNCHANGED <<mem, cache, asked, errors>>

\* kmem addr: obj_in_use first lets the cache be processed once.
AskUnprocessed(o) ==
    /\ stack = <<>> /\ asked = NoObj /\ o[1] \notin mem.missing
    /\ asked' = o
    /\ said' = {} /\ shown' = {} /\ totals' = {}
    /\ UNCHANGED <<mem, cache, stack, errors>>
Ask(o) ==
    /\ stack = <<>> /\ asked = NoObj /\ o[1] \notin mem.missing
    /\ asked' = o
    /\ stack' = IF processed THEN <<>> ELSE <<ProcessAll(0)>>
    /\ said' = {} /\ shown' = {} /\ totals' = {}
    /\ UNCHANGED <<mem, cache, errors>>

-----------------------------------------------------------------------------
\* What _do_populate_free of a slab reports; the set it fills is pageFree.
PopulateErrors(s) ==
    {e \in {"too many", "nr_free", "cached"} :
        CASE e = "too many" -> s \in mem.cyclic
          [] e = "nr_free"  -> Cardinality(mem.pageFree[s]) # NObj - mem.inuse[s]
          [] e = "cached"   -> mem.pageFree[s] \cap Cached # {}}

\* obj_in_use and print_objects: free is what is on either freelist.
InUse(o) == o \notin mem.pageFree[o[1]] /\ o \notin Cached

\* slab_role, once the cache is processed.
slab_role(s) ==
    IF cpu_slabs[s] # NoRole THEN cpu_slabs[s]
    ELSE IF node_slabs[s] # NoRole THEN node_slabs[s]
    ELSE IF NObj - mem.inuse[s] = 0 THEN Untracked ELSE Unknown

(***************************************************************************)
(* _process_percpu turns to a CPU: _populate_cpu_freelist if the cache     *)
(* has nothing yet, and the count goes into cpu_freelists_sizes, a list    *)
(* with one entry per online CPU that is indexed by the CPU's number, or   *)
(* is taken from it.  The slabs of the CPU are looked at next; <<"free",   *)
(* 0>> stands for the start of the rest of process_all.                    *)
(***************************************************************************)
Items(w) == CASE w[1] = "cpu"  -> LET slab == mem.list[<<"cpu slab", w[2]>>]
                                      part == mem.list[<<"cpu partial", w[2]>>]
                                  IN  [k \in 1..Len(slab) |-> <<slab[k], <<"cpu slab", w[2]>>>>]
                                      \o [k \in 1..Len(part) |-> <<part[k], <<"cpu partial", w[2]>>>>]
              [] w[1] = "free" -> <<>>
              [] OTHER         -> [k \in 1..Len(mem.list[w]) |-> <<mem.list[w][k], w>>]

FreelistUnreadable(c) ==
    mem.cpuFree[c] # {} /\ mem.list[<<"cpu slab", c>>][1] \in mem.missing

BeginCpu ==
    /\ stack # <<>> /\ top.pc = "begin" /\ top.work # <<>>
    /\ Head(top.work)[1] = "cpu"
    /\ LET c == Head(top.work)[2]
       IN  /\ IF ~top.fill
              THEN UNCHANGED <<cpu_freelists, errors>>
              ELSE IF FreelistUnreadable(c) THEN UNCHANGED <<cpu_freelists, errors>>
              ELSE /\ cpu_freelists' = [o \in Objs |->
                          IF o \in mem.cpuFree[c] \ Cached THEN c ELSE cpu_freelists[o]]
                   /\ errors' = errors
                          \cup (IF <<c>> \in mem.cyclic THEN {"cpu too many"} ELSE {})
                          \cup (IF <<c>> \in mem.cyclic
                                   \/ mem.cpuFree[c] \cap Cached # {}
                                THEN {"cpu twice"} ELSE {})
           /\ IF (top.fill /\ FreelistUnreadable(c)) \/ c >= Cardinality(Online)
              THEN Raise
              ELSE /\ Continue([top EXCEPT !.left = Items(<<"cpu", c>>), !.pc = "load",
                                           !.pages = -1, !.expected = -1])
                   /\ UNCHANGED asked
    /\ UNCHANGED <<mem, cpu_slabs, node_slabs, cpu_slabs_free, processed, output>>

BeginFree ==
    /\ stack # <<>> /\ top.pc = "begin" /\ top.work # <<>>
    /\ Head(top.work)[1] = "free"
    /\ Continue([top EXCEPT !.work = Tail(@),
                            !.nr_free_objs = cpu_slabs_free + Cardinality(Cached)])
    /\ UNCHANGED <<mem, cache, asked, errors, output>>

BeginNode ==
    /\ stack # <<>> /\ top.pc = "begin" /\ top.work # <<>>
    /\ Head(top.work) \in NodeRoles
    /\ Continue([top EXCEPT !.left = Items(Head(top.work)), !.pc = "load"])
    /\ UNCHANGED <<mem, cache, asked, errors, output>>

(***************************************************************************)
(* The next slab of the list: its struct page is read and, on a first      *)
(* pass, _add_percpu_slub files a CPU's slab and populates its free set.   *)
(* How much is printed depends on the level.                               *)
(***************************************************************************)
HeaderLevel(role) == IF role[1] = "cpu slab" THEN 2 ELSE 3

FilesAlways(role) == role \in CpuRoles
Files(role) == role \in CpuRoles /\ top.fill

AddUnpopulated(s, role) ==
    IF s \in Known
    THEN errors' = errors \cup {"both"} /\ UNCHANGED <<cpu_slabs, cpu_slabs_free>>
    ELSE /\ cpu_slabs' = [cpu_slabs EXCEPT ![s] = role]
         /\ cpu_slabs_free' = cpu_slabs_free + (NObj - mem.inuse[s])
         /\ UNCHANGED errors
add_percpu_slub(s, role) ==
    IF s \in Known
    THEN errors' = errors \cup {"both"} /\ UNCHANGED <<cpu_slabs, cpu_slabs_free>>
    ELSE /\ cpu_slabs' = [cpu_slabs EXCEPT ![s] = role]
         /\ cpu_slabs_free' = cpu_slabs_free + (NObj - mem.inuse[s])
         /\ errors' = errors \cup PopulateErrors(s)

Load ==
    /\ stack # <<>> /\ top.pc = "load" /\ top.left # <<>>
    /\ LET s == Head(top.left)[1]
           role == Head(top.left)[2]
       IN  /\ s \notin mem.missing
           /\ Continue([top EXCEPT !.pc = IF top.level >= HeaderLevel(role)
                                          THEN "header" ELSE "note"])
           /\ IF Files(role) THEN add_percpu_slub(s, role)
              ELSE UNCHANGED <<cpu_slabs, cpu_slabs_free, errors>>
    /\ UNCHANGED <<mem, cpu_freelists, node_slabs, processed, asked, output>>

LoadFails ==
    /\ stack # <<>> /\ top.pc = "load" /\ top.left # <<>>
    /\ Head(top.left)[1] \in mem.missing
    /\ Raise
    /\ UNCHANGED <<mem, cache, errors, output>>

\* long_header wants the role: slub_process_once may start a second call, and
\* when that has returned the role is looked up.
HeaderProcesses ==
    /\ stack # <<>> /\ top.pc = "header" /\ ~processed
    /\ stack' = <<ProcessAll(0), [top EXCEPT !.pc = "role"]>> \o Tail(stack)
    /\ UNCHANGED <<mem, cache, asked, errors, output>>

Header ==
    /\ stack # <<>> /\ (top.pc = "role" \/ (top.pc = "header" /\ processed))
    /\ shown' = {<<Head(top.left)[1], slab_role(Head(top.left)[1])>>}
    /\ Continue([top EXCEPT !.pc = "note"])
    /\ UNCHANGED <<mem, cache, asked, errors, said, totals>>

(***************************************************************************)
(* The rest of what is done with a slab: the frozen flag, its objects at   *)
(* level 4, the pages fields of a CPU's partial list, and the role and     *)
(* the free objects of a node's slab.  A CPU's partial slabs are followed  *)
(* until a null pointer, whether or not they have been seen before.        *)
(***************************************************************************)
AfterSame(left) == IF Head(left)[2][1] = "cpu partial" THEN left ELSE Tail(left)
After(left) ==
    LET role == Head(left)[2]
        all == Items(<<"cpu", role[2]>>)
    IN  IF role[1] = "cpu partial" /\ Len(left) = 1
        THEN SubSeq(all, Len(all) - mem.round[role[2]] + 1, Len(all))
        ELSE Tail(left)

NotesRoleLate(role) == role \in NodeRoles /\ processed
NotesRole(role) == role \in NodeRoles /\ ~processed

Note ==
    /\ stack # <<>> /\ top.pc = "note"
    /\ LET s == Head(top.left)[1]
           role == Head(top.left)[2]
           pages == mem.pages[s]
           onCpu == role[1] = "cpu partial"
       IN  /\ errors' = errors
                  \cup (IF (s \in mem.frozen) # (role \in CpuRoles)
                        THEN {"frozen"} ELSE {})
                  \cup (IF top.level >= 4 /\ (role \in NodeRoles \/ ~top.fill)
                        THEN PopulateErrors(s) ELSE {})
                  \cup (IF onCpu /\ top.expected # -1 /\ pages # top.expected
                        THEN {"pages"} ELSE {})
           /\ said' = IF top.level >= 4
                      THEN {<<o, InUse(o)>> : o \in ObjsOf(s)} ELSE said
           /\ node_slabs' = IF NotesRole(role)
                            THEN [node_slabs EXCEPT ![s] = role] ELSE node_slabs
           /\ Continue([top EXCEPT
                  !.pc = "load", !.left = After(@),
                  !.pages = IF onCpu THEN pages ELSE @,
                  !.expected = IF onCpu THEN pages - 1 ELSE @,
                  !.nr_free_objs = IF role[1] = "partial"
                                   THEN @ + (NObj - mem.inuse[s]) ELSE @,
                  !.nr_full_list = IF role[1] = "full" THEN @ + 1 ELSE @])
    /\ UNCHANGED <<mem, cpu_slabs, cpu_freelists, cpu_slabs_free, processed,
                   asked, shown, totals>>

\* The end of a CPU's partial list, or of one of a node's lists.
EndList ==
    /\ stack # <<>> /\ top.pc = "load" /\ top.left = <<>>
    /\ LET w == Head(top.work)
       IN  errors' = errors
               \cup (IF /\ w[1] = "cpu" /\ mem.list[<<"cpu partial", w[2]>>] # <<>>
                        /\ top.pages # 1 THEN {"pages"} ELSE {})
               \cup (IF /\ w[1] = "partial"
                        /\ mem.nr_partial[w[2]] # Len(mem.list[w])
                     THEN {"nr_partial"} ELSE {})
               \cup (IF w[1] = "full" /\ mem.list[w] # <<>> /\ ~mem.tracks
                     THEN {"full list"} ELSE {})
    /\ Continue([top EXCEPT !.work = Tail(@), !.pc = "begin"])
    /\ UNCHANGED <<mem, cache, asked, output>>

\* The end of process_all: the sums are checked and, at a level, printed.
NrPartial == FoldFunctionOnSet(+, 0, mem.nr_partial, Nodes)
Finish ==
    /\ stack # <<>> /\ top.pc = "begin" /\ top.work = <<>>
    /\ LET nr_percpu == Cardinality(Known)
           nr_full == mem.nr_slabs - NrPartial - nr_percpu
       IN  /\ errors' = errors \cup (IF mem.tracks /\ top.nr_full_list # nr_full
                                     THEN {"nr_full"} ELSE {})
           /\ totals' = IF top.level = 0 THEN totals
                        ELSE {[free |-> top.nr_free_objs, percpu |-> nr_percpu,
                               full |-> nr_full]}
    /\ processed' = TRUE
    /\ stack' = Tail(stack)
    /\ UNCHANGED <<mem, cpu_slabs, cpu_freelists, node_slabs, cpu_slabs_free,
                   asked, said, shown>>

\* obj_in_use goes on, and the command prints the answer and the slab's role.
Answer ==
    /\ stack = <<>> /\ asked # NoObj
    /\ said' = {<<asked, InUse(asked)>>}
    /\ shown' = {<<asked[1], slab_role(asked[1])>>}
    /\ errors' = errors \cup PopulateErrors(asked[1])
    /\ asked' = NoObj
    /\ UNCHANGED <<mem, cache, stack, totals>>

Step == \/ BeginCpu \/ BeginFree \/ BeginNode \/ Load \/ LoadFails
        \/ HeaderProcesses \/ Header \/ Note \/ EndList \/ Finish \/ Answer
Next == \/ \E level \in Levels : Process(level)
        \/ \E o \in Objs : Ask(o)
        \/ Step
Spec == Init /\ [][Next]_vars

\* A command runs until it ends.
FairSpec == Spec /\ WF_vars(Step)

-----------------------------------------------------------------------------
Free == (UNION {mem.pageFree[s] : s \in Slabs}) \cup (UNION {mem.cpuFree[c] : c \in Online})

(***************************************************************************)
(* Whatever was asked before, an object of a sound cache is said to be in  *)
(* use only if it is on no freelist.  An object that is said to be free is *)
(* on one even if a struct page is not in the dump and a pass through the  *)
(* cache was cut short.                                                    *)
(***************************************************************************)
Sound == mem.fault = NoRole /\ mem.missing = {}
InUseRight == \A a \in said : IF a[2] THEN Sound => a[1] \notin Free
                              ELSE a[1] \in Free

(***************************************************************************)
(* A slab of a sound cache is shown under the list it is on, although the  *)
(* header of the first slab is printed while the lists are still being     *)
(* read, and the summary counts every free object and every full slab      *)
(* once, in the first pass and in later ones.                              *)
(***************************************************************************)
Summarised(t) ==
    /\ t.free = Cardinality(Free)
    /\ t.full = Cardinality({s \in Slabs : \A r \in CpuRoles \cup ({"partial"} \X Nodes) :
                                ~Contains(mem.list[r], s)})
RolesRight ==
    Sound => \A h \in shown :
        \/ h[2] \in DOMAIN mem.list /\ Contains(mem.list[h[2]], h[1])
        \/ h[2] = Untracked /\ \A r \in DOMAIN mem.list : ~Contains(mem.list[r], h[1])
ShownRight == RolesRight /\ (Sound => \A t \in totals : Summarised(t))

(***************************************************************************)
(* Nothing is reported for a consistent cache.  The one exception is the   *)
(* sum of the full slabs of a cache that tracks them: the process_all that *)
(* a slab header starts adds up while the CPUs are still being read.       *)
(***************************************************************************)
NoFalseAlarm == Sound => errors \subseteq (IF mem.tracks THEN {"nr_full"} ELSE {})

(***************************************************************************)
(* Once a command has gone through the cache, a single fault has been      *)
(* reported, if it is one that the checks are for: the freelists of slabs  *)
(* that no CPU holds are not followed, and an object found on the freelist *)
(* of a later CPU is not noticed.                                          *)
(***************************************************************************)
OnCpu(s) == {c \in Online : \E k \in {"cpu slab", "cpu partial"} :
                                Contains(mem.list[<<k, c>>], s)}
Reported(kind, x) ==
    CASE kind = "cached" -> (\E c \in OnCpu(x[1][1]) : x[2] <= c) => "cached" \in errors
      [] kind = "cyclic" -> x \in Slabs /\ OnCpu(x) # {} => "too many" \in errors
      [] kind = "inuse"  -> OnCpu(x) # {} => "nr_free" \in errors
      [] kind = "frozen" -> (\E r \in DOMAIN mem.list : Contains(mem.list[r], x))
                                => "frozen" \in errors
      [] kind = "pages"  -> "pages" \in errors
      [] kind = "twice"  -> "both" \in errors
      [] kind = "nr_partial" -> "nr_partial" \in errors
      [] kind = "nr_full" -> mem.tracks => "nr_full" \in errors
      [] kind = "tracks" -> errors \cap {"nr_full", "full list"} # {}
      [] OTHER -> TRUE
FaultReported == processed /\ stack = <<>> => Reported(mem.fault[1], mem.fault[2])

(***************************************************************************)
(* Every command ends, the ones that process the cache twice included,     *)
(* unless a CPU's chain of partial slabs is a circle: that loop has no     *)
(* check for one.                                                          *)
(***************************************************************************)
NoCircle == \A c \in Online : mem.round[c] = 0
CommandEnds ==
    NoCircle /\ (stack # <<>> \/ asked # NoObj) ~> stack = <<>> /\ asked = NoObj

=============================================================================
