# A verification project for crash-python

crash-python turns gdb into a debugger for Linux kernel crash dumps.  This
directory holds TLA+ models of the parts of it that keep state or walk
structures that may be damaged, the TLC configurations that check them, and
TLAPS proofs about the registry everything else is built on, the lookups, the
session, the list walks, the log readers, the SLAB and SLUB readers and the
kernel's state.  `PROJECT.json` lists components, runs, mutants, the map from
definitions to source lines, findings, hazards and theorems.

    tlc -workers 2 -config MCSession.cfg MCSession   # one run
    tlapm SessionProofs.tla                          # the proofs of one module

Paths below are relative to `src/crash/`.

## The system

| component | state | operations | hard because |
|---|---|---|---|
| callback registry, `infra/callback.py` | pending list, target waitlist, paused flag, flags of each object | construct, connect, evaluate, complete, pause, unpause, target_ready | bodies re-enter it; one failing body leaves lists half updated |
| delayed lookup, `infra/lookup.py`, `util/symbols.py` | a value per declared name, attributes cached on the collection | item and attribute reads, resolution by callback, override | order of loads, reads and overrides; cached attributes |
| containers, `types/list.py`, `klist.py`, `rbtree.py`, `bitmap.py` | locals of the generators | walks, bit searches | dumps hold half-linked lists, cycles, unreadable nodes; offsets and word borders |
| module loading, `kernel.py` | caches of file names, counts, paused callbacks | load_modules and what it calls | several candidates and directories, each of which may fail |
| target, `target/` | current target, threads' tasks, crashing thread, re-entrancy flag | setup_target, open, setup_tasks, fetch_registers | gdb fetches registers during the setup and from within a fetch |
| printk readers, `subsystem/printk/`, `commands/dmesg.py` | corrected symbol values | log command | the crash may hit between any two steps of the writers |
| SLUB reader, `types/slab.py`, `commands/kmem.py` | dictionaries of slabs and cached objects kept in the cache object | kmem -s, -S, kmem address | filled by the first command and used by all later ones; calls itself; a dump with faults |
| SLAB reader, `types/slab.py` | array caches, the cache of off-slab struct slabs, the layout | check_all, kmem address, get_allocated_objects | a partly filled table is taken for complete; broken lists are read twice |
| per-CPU variables and CPU masks, `types/percpu.py`, `cpu.py` | ranges, counts, masks | is_percpu_var, get_percpu_vars | filled by callbacks in the order of imports, and lazily; two map formats |
| pages, nodes, zones, `types/page.py`, `node.py`, `zone.py` | attributes of Page and NodeStates | address to page and back, compound heads, free area checks | seven callbacks that build on one another |
| system cache, `cache/syscache.py` | configuration, jiffies, HZ, uptime | uptime, set_jiffies | flags on class and instance |
| tasks and ps, `types/task.py`, `commands/ps.py`, `commands/task.py` | state bits, picked methods, memory usage, letters | ps, task | every release numbers the states differently |
| session, `session.py` | the selected thread | Session() | target, tasks and modules one after the other, each of which may fail |
| storage and file system decoders, request queues, `subsystem/storage/`, `subsystem/filesystem/decoders.py`, `ext3.py` | registry of decoders | for_each_bio_in_stack, for_each_request_in_queue, statistics | decoders appear while a stack is walked; tags in several states |
| other file system code, cgroups, other commands, utilities | little | structure decoding, formatting | not modelled, see below |

Everything hangs on the registry: gdb's event for a new objfile, the target's
`open` (target_ready) and `load_modules` (pause, unpause) drive it; lookups,
targets, allocator variants and decoders are chosen by its callbacks; the
readers use the values the lookups deliver and the container walks.

## The modules

**ObjfileCallbacks** — `pending`, `waitlist`, `paused` are the class
attributes, `completed`, `connected`, `waiting` the flags of each object,
`loaded` and the target's state what gdb knows.  `stack` holds the registry
calls in progress, so that a body (`callback`) can be in the middle of
`evaluate_all`, `target_ready` or `connect_callback`.  A body ends in one of
four ways (`Outcomes`): done, to be tried again, `gdb.error`, any other
exception; the callbacks in `Reentrant` may call the registry while they run.
Every instance adds an event handler, as the code does (it tests the flag on
the class and sets it on the instance), so one objfile starts several
evaluations (`NextHandler`).

**CallbackContract** — what the registry promises to the classes derived from
it, without lists, loops or call stack.  An object is absent, created,
connected, running or completed; its body runs alone, once what it needs is
loaded, never after completion and not while it waits for the target or while a
pause concerns it; and no call returns while a callback that is sure to succeed
could still be called.  `KeepsContract` in ObjfileCallbacks is this
specification under the mapping `Phases`, `Busy`.

**DelayedLookup** — one collection of each of the three kinds that differ in
how a callback stores its value.  `value` is what each declaration resolved to,
`cached` the attributes `get` leaves on the object, `available` the names gdb
can look up.  `resolve_type` and `FiledUnder` are the conversion of a
declaration to its name and attribute name; several declarations may share one.
The registry is here as a collection meets it: `Load`, `Hold`, `Resume` and
`TargetReady` say which of the collection's callbacks are evaluated (`due`), in
order and each once, whether or not the collection waits for the target
(`wait_for_target`); a pause (`heldBack`) puts off all but what `TargetReady`
evaluates.

**MCInfra** picks the registry or a collection in the initial state.

**ListWalk**, **RbTreeWalk**, **Bitmap** — one step per turn of the code's
loops, over arbitrary links (`next`, `prev`) and missing nodes for lists, over
every forest for trees and every content for bitmaps.  A klist is a list walk
whose consumer may refuse a node.

**BioStack** — the registry of decoders (`_decoders`) and
`for_each_bio_in_stack`, which yields a decoder after the other down a stack of
bios and buffer heads; `register_decoder` may run between two of them.  The two
decoders of device mapper clones end in a RecursionError, as in the code.  Only
they lead from a bio to another bio, so no path that is yielded is longer than a
bio and its buffer head.

**BlockQueue** — `for_each_request_in_queue` and the statistics for single
queues and, context by context, for multiqueue queues: a scalable bitmap of the
tags and one of the reserved tags (`sbitmap_for_each_set`, with the words for
tags freed lately), the table of requests that both index, and the three forms
of a request's state.

**MCWalks** picks one of the five structures in the initial state.

**KernelModules** — `load_modules`: a loop over modules and directories, the
cache of walked trees (`findmap`), `modules.order`, the outcome of each
candidate file, the debuginfo search, and the pausing of callbacks (`unseen`
are the modules no callback has been offered yet).  The constructor's own search
for a vmlinux with symbols is not here: `open` refuses a vmlinux without
(`target/__init__.py:73`), so that it never has to search.

**Target** — `setup_target` tries the classes in turn, `open` and `setup_tasks`
fill in the threads' tasks, and `fetch_registers` calls come from gdb at any
moment, also nested.

**Tasks** — `TF` are the attributes of `TaskStateFlags`, as sets of bits;
`Strings` is what five sorts of kernels have in `task_state_array`, from which
the callback derives the rest (`FromStrings`, `Derived`, `WithIdle`,
`Asserted`).  `mem` is the memory usage that tasks cache, `task_states` the
letters that the first `ps` sets up, those for swapping tasks of old kernels
included.

**Session** — composes Target, Tasks and KernelModules in the order of
`Session.__init__`: the import of `task.py` and the construction of a task for
each thread are steps of both Target and Tasks.  When it is ready `ps` and
`task` can be given.  `kind` says which of the three parts is varied in a
behaviour; the others have one typical dump.

**PerCpu**, **Pages**, **SysCache** — what `percpu.py` and `cpu.py`, `page.py`
with `node.py` and `zone.py`, and `syscache.py` keep as attributes, the
callbacks that set them and the queries that use them.  The kernels they read
(chunk maps as lengths or offsets, compound pages marked in three ways,
sparsemem, two jiffies counters, a configuration with and without the options
or none, free lists with pages of other zones, wrong counts or damage) are
chosen in the initial state.  Without a configuration the widths of node and
zone in the page flags stay at -1, and if its data cannot be located the node
is taken to have 8 bits: then `kmem -z` compares with what the formulas make
of the raw flags, or ends with the ValueError of a negative shift.  **KernelState** composes them: the callbacks
run in the two orders that the imports allow, PerCpu uses the page size that
Pages sets, and Pages and SysCache share the configuration cache.  An exception
in the callbacks of page.py leaves those of percpu.py and node.py undone, and
commands may be given all the same.

**LocklessLog**, **StructuredLog** — the readers, each on a memory written by a
model of the kernel's own writers that may crash after any atomic step.  The
writers are external: they do what the readers rely on.  **LogCommand** composes
both with the plain buffer into the `log` command, given any number of times.

**SlubCache** — `mem` is a dump: where each slab is, which objects are on which
freelist, the counters and flags.  The other variables are the attributes of
`KmemCacheSLUB`.  `stack` holds the `process_all` calls in progress: printing a
slab's header needs its role and starts a second one.  `Flaws` chooses between
consistent dumps, dumps with one fault and dumps without one of the pages.  Among
the faults is a CPU's chain of partial slabs that runs back into itself
(`round`): the code follows it for ever.

**SlabCache** — `mem` is a dump of a SLAB cache: the lists of both directions,
the freelists, the array caches, the pages.  `array_caches`, `off_slab_cache`
and `page_slab` are the attributes the code keeps, `run` the locals of
`check_all`: one step per slab of a list, a second pass over a list that
failed, the counters for the summary lines.  A fill of `array_caches` is one
step: the slots of the array caches have an order (`Turn`, `Before`), and what
is filed is the first slot of each object among those before the first that
cannot be read (`Reached`, `First`, `Filled`).  `Flaws` chooses between consistent
dumps, ones with a wrong object, slab or link, ones without some memory, and
ones with off-slab struct slabs.

**InfraProofs** (ObjfileCallbacks and DelayedLookup, the parts of
`crash/infra`), **SessionProofs**, **ListWalkProofs**, **LogCommandProofs**,
**SlabCacheProofs**, **SlubCacheProofs**, **KernelStateProofs** — proofs about
the module in the name.
**LeastElement** — the lemmas about naturals that they share: least and
greatest elements, induction up to a bound, finite sets listed in order.

## The runs

| run | instance | shows |
|---|---|---|
| infra | 3 callbacks, 2 objfiles, two of the callbacks wait for the target, bodies neither raise nor re-enter | `ListsAgree`, `NeverRerun`, `ReadyCompletes` and the refinement of CallbackContract (`KeepsContract`) |
| infra, lookups | 3 declarations per collection, shared names, overrides, a fault; every order of loads, pauses and target opening | `StaleOnlyIfOverridden`, `NoneForgotten`, `ReadableStays`, `BecomesReadable` |
| callbacks_nested | the same with exceptions and a re-entrant body, depth 5 | `CallInv` holds at every depth |
| callbacks_rerun | 3 callbacks, two that need vmlinux, one of which raises, and a module | the module's load runs a completed callback again (`FutureLoadsSpared`) |
| walks | all links of 3 nodes with at most one missing, 4 tree nodes, all bitmaps of 2 words of 4 bits, stacks of 2 bios and a buffer head, queues of 3 tags and a reserved one | `SuccessExact`, `ExactCycles`, `YieldsPostorder`, `BitmapAgrees`, `StackDecoded`, `RequestsRight`, `WalkEnds` |
| bitmap_start | searches from position 1 | a search from inside a word misses bits of the next |
| log | 4 descriptors and ids up to 8; 6 cells, records of 1 to 3 cells, 7 of them | `ShowsTheLog`, `LiveRecordsShown`, `LogEnds` |
| session | the 3 target classes, 2 CPUs, 3 threads, every runqueue; 5 releases, every condition of a task, every option of ps; 2 modules, 3 directories, every placement of files | `SelectionRight`, `TasksMatchRunqueues`, `FirstFitLoaded`, `DebuginfoFound`, `CallbacksSeeModules`, `StatesShown`, `PsSelects` |
| fetch_stuck | the same targets | an exception in a fetch has all later ones turned down (`RefusesOnlyNested`) |
| kernel_state | 4 CPU numbers with every mask, 2 chunks of 3 areas in either map format, 4 pages with every compound layout, 1, 3 or 4 zones, five sorts of configurations, two free lists with any pages in one zone, 2 values of HZ, both orders of imports | `PercpuRight`, `EveryCpuRead`, `PagesFound`, `UptimeRight` |
| slab | every cache of 2 slabs with 2 objects, 2 nodes, 2 CPUs; one fault, one wrong link, a page missing or off-slab slabs | `AllocatedRight`, `FaultsJudged`, `RetryReachesAll`, `ReportsAddUp` |
| slub | every cache of 2 slabs with 2 objects, 2 CPUs, consistent, with one fault (a circular chain is one) or with one page missing | `InUseRight`, `ShownRight`, `NoFalseAlarm`, `FaultReported`, `CommandEnds` |
| slub_sparse | online CPUs 0, 3, 4 | free objects are said to be allocated |

Why the bounds are enough.  Three callbacks are one that is evaluated, one
before and one behind it in the list; a re-entrant body needs three frames and
its nested evaluation two more.  Three list nodes give every shape of a path
with a tail and a cycle, with and without the head; a hare that laps the
tortoise needs no more.  Two words of four bits have a word border, a partial
word, an empty and a full word; the halving steps of the searches are those of
64 bits with fewer of them.  Four descriptors and eight ids let every
descriptor be used again while others are reserved; seven records in six cells
wrap more than once.  Two slabs and two CPUs allow each pair of lists, and one
fault is what the checks can be asked to find.  `MaxYields`, `MaxDepth`,
`MaxId` and `MaxSeq` name the bounds on what the code does not bound.

The SLUB run prints at levels 1 and 4, which take every branch that 2 and 3
take, and has one order of the objects of a slab (`Ordered`), which only the
chain of a freelist depends on.  In SlabCache `CachedBound` limits the objects
in array caches: two where a fill is cut short, one where the fault is about
objects, none where it is about links.  In BioStack up to two of the seven
functions are registered late: one above the other is what a walk can meet.
In KernelState a page is a section (`PagesPerSection`) and small numbers stand
for page sizes, bases and the range of 32-bit jiffies (`Wrap`, `Grace`); they keep
the relations that the formulas use.

Deadlock is not checked where the system may stop: a walk ends, and so does a
session whose setup was left by an exception, and a kernel without the
configuration that a query needs has nothing more to be asked.  All other runs
check it.

Fairness.  A call that is in progress goes on: Python runs it without yielding
(`WF_vars(Steps)`, `WF_vars(Running)`, `WF_vars(Step)`, and the walks' own
steps).  Nothing is assumed of gdb, the kernel or the user: no objfile need be
loaded, no target opened, the kernel need not crash, and a pause need not end.
In DelayedLookup it is the round over the callbacks that are due (`Turn`) that
goes on; a name becomes readable only while the registry serves it (`Findable`).

## What is proved

The proofs hold for every value of the constants that the assumptions of the
modules allow.  Each component's main theorem is an inductive invariant; the
others follow from it.

| module | theorems | properties of the runs |
|---|---|---|
| InfraProofs | *RegistryInvariant*, *TypeCorrect*, *FlagsAlwaysAgree*; *TameInvariant*, *TameNeverRerun*, *TameListsAgree*, *TameNoMissedWakeup*; *TameContractInvariant*, *TameKeepsContract* | `CallInv`; `NeverRerun`, `ListsAgree`; `KeepsContract` |
| | *LookupInvariant*, *NeverStale*, *NamesStayReadable*, *NoLookupForgotten* | `StaleOnlyIfOverridden`, `ReadableStays`, `NoneForgotten` |
| SessionProofs | *SessionInvariant*, *RightThreadSelected*, *RunqueuesMatched*, *EachModuleOnce*, *NoDebuginfoLost*, *ModulesOffered* | `SelectionRight`, `TasksMatchRunqueues`, `FirstFitLoaded`, `DebuginfoFound`, `CallbacksSeeModules` |
| ListWalkProofs | *WalkInvariant*, *SoundListsWalked*, *CyclesExact* | `SuccessExact`, `ExactCycles` |
| LogCommandProofs | *RingInvariant*, *LocklessLogShown*, *RecordsInvariant*, *LiveRecordsYielded* | `ShowsTheLog`, `LiveRecordsShown` |
| SlubCacheProofs | *CacheInvariant*, *ObjectsJudgedRight*, *NoFalseAlarms*; *RoleInvariant*, *RolesShownRight* | `InUseRight`, `NoFalseAlarm`; the roles in `ShownRight` |
| SlabCacheProofs | *CachesInvariant*, *AllocatedSaidRight*, *CountInvariant*, *SummaryLinesAddUp*, *VisitInvariant*, *EverySlabReached*, *JudgeInvariant*, *FaultsAlwaysJudged* | `AllocatedRight`, `ReportsAddUp`, `RetryReachesAll`, `FaultsJudged` |
| KernelStateProofs | *UptimeShown*, *EveryCpusVariable*, *PagesAlwaysFound* | `UptimeRight`, `EveryCpuRead`, a part of `PagesFound` |

### The registry

Any finite set of callbacks, any objfiles, needs and depth.

*RegistryInvariant*: `Spec => []CallInv`, with no assumption on the bodies: they
may raise anything and re-enter.  That completed callbacks are neither
connected nor waiting (`FlagsAgree`) is not inductive: the return of a body
relies on what its frame says about an object that may have been changed by
nested calls.  `CallInv` adds that a body on the stack belongs to a constructed
object that does not wait and sits on a frame that evaluates, and that lists
and flags mention only constructed objects.

*TameInvariant*: `Tame /\ Spec => []TameInv`.  `Tame` says that no body raises
anything but `gdb.error` and none re-enters; the violation run shows that it
cannot be dropped for `NeverRerun`.  Between calls the lists are exact, but not
within one: `TameInv` says how far each loop is (`Evaluated`, `Woken`), that
only completed objects it has passed are still listed, that every waiting
object is in the waitlist, and that a callback that is due is being called or
ahead of the loop.

*TameKeepsContract*: `Tame /\ Spec => KeepsContract`, the refinement.  The phase
of an object is read off its flags and the bodies on the stack.  Each step of
the registry is a step of the contract or changes nothing that it sees; the
returns need most, because a call of the contract may end only with nobody left
to serve, which is `NoMissedWakeup` (*TameNoMissedWakeup*) at that moment.
Beside `TameInv` this takes *TameContractInvariant*: `evaluate_all`
is in progress only while the registry is not paused, `target_ready` only with
a target.

The proofs use lemmas about `Kept` (the list comprehension of
`_update_pending`: it keeps the members it should, in order and without new
duplicates) and about pushing to and popping from the stack.  `Kept` is a
recursive function over positions; LeastElement has the least-number
principle its lemmas are proved with.

### Lookups

Any declarations, names and overrides; the overriding values differ from what
gdb delivers (`AlternativesAssumption`).  A stale attribute can only come from
an override, but to show that a callback does not make one stale, `LookupInv`
adds that a stored value was delivered by a completed callback or by an
override (`Sourced`).  `Writes` states once what storing a value does; the three
kinds of collections are instances of it.  *NoLookupForgotten* is inductive by
itself: whatever makes it possible to serve a collection (a load, the end of a
pause, the target) makes all its open declarations due, and one leaves `due` only by
being resolved or because its name cannot be found or its memory not be read.

### Session, target and modules

Any CPUs, threads, runqueues, modules, directories and outcomes.  Assumed: pids
are natural numbers, each CPU has its idle task, module names are distinct, and
the set of debuginfo outcomes (`DebugChoices`) is not empty.  `SessionInv` has four parts.  `TargetInv`: the
threads before the loop's counter are set up with the information their task
should have, the crashing thread is the one of the crashed CPU, and a fetch in
progress holds the flag.  `ModulesInv`: the cached scans are those of the
directories as they are (`Scanned`); what was added is right, added once, and
all that was tried before the loop's counter; the counters agree with it even
in the middle of a module; what callbacks have not been offered was added while
they are paused.  `InOrderInv` says which part of the session may have started,
`Selected` where the selected thread comes from.

### List walks

Lists of any finite number of nodes with arbitrary links, every combination of
arguments; the bound on what a walk yields, which exists only in the model, is
above the number of nodes (`MaxYields > Cardinality(Nodes)`).  `WalkInv`: a
walk either is at position k of `Path`, the positions before it being distinct
nodes that it has yielded and whose back links it has checked (`Along`, `Read`),
or it is in a set of nodes that links do not leave and the head is not in
(`Trap`).  The second half is what makes a success impossible after a cycle
was entered; it follows from the first repetition on the path (`RepeatTraps`),
and that the first n positions cannot be distinct for more than the number of
nodes (`DistinctIsShort`) is a cardinality argument.

### Logs

The lockless ring has any number N of descriptors from 2 on, the structured log a
buffer of any positive length and records of any length that fits.

`RingInv`: the ids from the tail on own the descriptors in order, each
`Taken` or still `Vacant` with the state of the id N before it; the tail's
descriptor can be read; a number is handed out only to open records.
`ReaderInv`: the reader has shown the finished records below the id it has
come to.  The argument rests on *ValidIsFinished*: what the reader takes for a
valid descriptor is a finished record of the current round, so that it needs
no look at tail_id + 1.

`RecordsInv`: there are positions for the live records such that each header
leads to the next, rising except at one wrap header; the reader is at one of
them and has yielded the records before it, up to the wrap marker, which
counts as a record.

### SLUB caches

Any finite slabs, objects and nodes, any dump that `Init` allows, with the
hypothesis `GapFree`: the numbers of online CPUs have no gap.  The run
`slub_sparse` shows that `InUseRight` is false without it: the code counts in a
list that has one entry per CPU and is indexed by CPU numbers.

`InUseRight` is not inductive: between commands it depends on what earlier ones
left in the dictionaries, and in the middle of a command on how far they were
filled.  `CacheInv` has, for every dump, that what is cached for a CPU is on its
freelist (`CachedOK`); this gives the second half of `InUseRight` also after a
command was cut short.  For sound dumps, every slab is on one list, the
freelists are apart and the counters agree with them (`SoundMem`; *DumpOK* shows
it of each consistent dump); at most two `process_all` calls are in progress;
if the outer one fills the dictionaries, what is not yet in them is exactly
what is ahead of it (`Filling`, `Unfiled`), otherwise all CPUs have been read;
the nested one prints nothing, and has no CPU left to read or no CPU has slabs;
and the `pages` fields count down along a list (`PagesOK`).  *Moves* carries
this from one frame to the next, and there is one lemma per action.

*RolesShownRight* is `RolesRight`, the first half of `ShownRight`.  A role is
looked up in `cpu_slabs`, then in `node_slabs`, and a slab in neither is taken
for an untracked full one, so an entry that is missing gives a wrong answer as
much as a wrong one does.  `RoleInv` has both sides: the entries are right
(`FiledRight`); a node's slab without an entry is ahead of the innermost
`process_all` (`Noted`), so that none is left when that call sets `processed`,
even if the outer one has not come to the nodes (*FinishRoles*); and a slab on
no list has no free object (`UnlistedFull`, from the dumps).  That a CPU's slab
is filed before its header is printed comes from `CacheInv` (*HeaderFiled*).

### SLAB caches

Any finite slabs, objects, nodes and CPUs, every dump of `Init`, with any
number of objects in array caches.  Assumed: there is a node, a slab is not a
list head, and NULL is neither (`PlacesAssumption`).

*CachesInvariant*: `CachesInv` says that `array_caches` is empty or exactly what
a fill leaves, whichever command made it.  `DumpOK` is what all dumps have in
common, with every fault in it; *InitDump* shows it of each of them.
*AllocatedSaidRight* then rests on two facts: an object of the dump is in the
slab's freelist or in an array cache exactly if it is not allocated, and a fill
that is not cut short files it, since the order of the slots (`Before`) has a
least element for each object (*LeastFour*).

*CountInvariant*: `CountInv` adds what dumps without a fault, or with a wrong
link, have in common (`TidyDump`), that a run stays on the places of its node,
and that the slabs on the summary lines and those since the last line together
are the slabs checked, each as often as it was checked (`Tally`).
*SummaryLinesAddUp* is its last state.

*VisitInvariant*: the lists of a dump are rings in which at most one link is not
the right one (`RingsOK`, derived from `Memory` by *MemoryRings* and for every
variant by *VariantRelinked*).  A pass that does not meet the wrong link is
`Straight`: what it has seen is the part of the list up to the place it came
from, so it meets nothing twice, and at the head it has seen everything.  A
first pass that meets the link ends with a NULL, at a place seen before, or with
a back link that disagrees (`pending`), and so is followed by a second one,
unless a wrong `next` leads to the list's own head (`Closed`): then the list ends
too early, and nothing in the dump tells.  A first pass over a list with a wrong
`prev` meets every slab and notices it, unless it is the head's, which no pass
compares.  A second pass is straight if the wrong link is a `next`; if it is a
`prev`, the first one was.  So a first pass that is over has reported the wrong link,
but for these two (`Reported`; *PassNotices*).  `Most` counts the
passes that can have met a slab: the first over its list and one more, either
the second over it or the one that the link leads there.
*EverySlabReached* is what this leaves at the end of a check_all.

*JudgeInvariant*: `JudgeInv` has two parts.  `StaticOK` is about the dump alone:
each fault shows in what the check of some slab reports, in the count of a node
or in the fill of the array caches (`Shows`, one lemma per fault, derived from
`Memory`), and a sound dump shows none.  A wrong `inuse` is the one case that
takes an argument: either the sum is wrong, or the free objects that are read
are not as many as the node declares.  `Judgement` is about what has been done
unless a link is wrong:
everything that is wrong with the slabs checked so far has been reported,
with their node's free objects counted exactly once, with every node that is
over compared; and from a sound dump nothing has been reported, because a pass
meets only slabs of its own list (*RightList*).  *FaultsAlwaysJudged* puts it
together with *VisitInvariant*: at the end every slab has been checked, or
missing memory has been reported, and a wrong link has been reported with the two
exceptions above.  For a struct slab in the wrong one of the
two small caches, two slabs that disagree cannot both be in the one
`off_slab_cache`.

### The kernel's state

Any CPUs and masks, any number of pages, any HZ and uptime.  Assumed: a
relocated `__per_cpu_start` lies above all per-CPU offsets, as an address of the
kernel does.  `ClockInv`: until the first uptime the jiffies are one of the two
counters of the time they stand for, whether they were read or put in; from then
on the instance has that uptime and no longer looks at them, so that it is
right until they are put in again (`late`).  `CpuInv`: the callback of percpu.py is still awaited, or the
ranges are known and `_nr_cpus` is above every possible CPU, which rests on the
masks being listed in order (*HighestIsLast*).  As in the run, a kernel that was
relocated has no dynamic chunks.  `PageInv` follows the class Page
through the callbacks: nothing is known before the types', the layout but not
the moved bases before the symbols'.  *LayoutFound* is the arithmetic: the
formulas undo the layout, with and without sparsemem.

### Only model-checked

* Liveness (`ReadyCompletes`, `BecomesReadable`, `WalkEnds`, `LogEnds`,
  `CommandEnds`): fairness and ENABLED are out of the prover's reach.
* `YieldsPostorder`, `BitmapAgrees`, `StackDecoded`, `RequestsRight`: what
  recursive definitions compute, which needs induction over data.
* `StatesShown`, `PsSelects`: a comparison of five fixed tables, of which
  TLC looks at every entry; there is no constant to generalise over.
* `PercpuRight`: sums by folds over the areas of a chunk, which need induction
  over data; the nodes and zones in `PagesFound`, and with them what `kmem -z`
  tells: powers of two, of which the provers know nothing.
* The summary line in `ShownRight` of SlubCache, and `FaultReported`: they
  compare with a sum over the nodes by a fold, which needs induction over data;
  for the faults that do not depend on that sum, no proof was made.

## Where code and documentation disagree

Shown by runs: see `findings` in `PROJECT.json`.  Also met while modelling,
visible in the source and kept in the models as the code has them:

* `infra/callback.py:49-52`: the handler is connected once per instance.
* `kernel.py:493-542`: callbacks stay paused if `load_modules` is left by an
  exception, and `session.py:53` goes on after a CrashKernelError.
* `kernel.py:563`: `modules.order` that cannot be read to its end leaves a
  partial table; `kernel.py:530` `% 10 == 10` is never true.
* `util/symbols.py:81`: a name read as an attribute before an override keeps
  the old value (`types/list.py:59` overrides a type that way).
* `infra/lookup.py:326`: a late callback replaces an overridden type, although
  `Types.override` is to "override the type value" (`util/symbols.py:137`).
* `types/list.py:118-130`: without exact_cycles, a broken first back link in a
  list that is closed is reported as a cycle.
* `types/rbtree.py:62` promises CorruptTreeError; nothing raises it, and a
  cyclic tree is walked forever.
* `target/__init__.py:95-98`: a kernel without `crashing_cpu` cannot be set up,
  because another exception is caught than is raised.
* `target/ppc64.py`: nothing enables the class, so it is never usable.
* `subsystem/printk/lockless_ringbuffer.py:200-202`: the comment mentions
  tail_id + 1, the loop looks at tail_id only; `ShowsTheLog` says that this is
  enough.
* `subsystem/printk/structured_ringbuffer.py:66-70`: the wrap header counts as
  a record, so the newest one is not shown; if the log was cleared, the reader
  starts at the oldest record all the same and stops early.
* `types/slab.py:1326`: printing a cache that tracks full slabs at a level from 2
  on reports a wrong number of full slabs: the nested `process_all` adds up
  before the CPUs have been read (the exception in `NoFalseAlarm`).
* `types/slab.py:590`: one address too many belongs to an object.
* `types/slab.py:908`: an `array_caches` that was cut short by a missing page is
  used as if it were complete (the exception in `AllocatedRight`).
* `types/slab.py:1048-1066`: the messages format a dictionary with `:x`, so an
  array cache entry without its slab ends the command with a TypeError.
* `types/slab.py:1027-1046`: objects met in both passes over a broken list are
  counted twice, and the comparison with the declared number then reports it.
* `types/percpu.py:183`: the same for the ranges of the chunks (the exception in
  `PercpuRight`).
* `types/page.py:131-151`: a configuration without NODES_SHIFT gives None, and
  the TypeError leaves the round of callbacks that are being evaluated; those of
  percpu.py and node.py are then not run, so that per-CPU variables are denied
  and `kmem -z` fails.
* `types/page.py:45-47, 217-224`: without a configuration the widths stay -1, and
  `kmem -z` calls sound pages misplaced or ends with a ValueError.
* `types/zone.py:57-69`: of the errors of a list walk only BufferError is caught; a
  corrupt list ends the whole command.
* `types/slab.py:1227`: a circular chain of a CPU's partial slabs is followed for
  ever (the exception in `CommandEnds`).
* `types/list.py:87`: the `prev` of a list head is not compared with the last node
  (an exception in `FaultsJudged`).
* `cache/syscache.py:250`: `set_jiffies` asks for a new uptime by a flag on the
  class, which the first uptime has hidden by one on the instance, so that later
  jiffies have no effect (`UptimeRight` is about earlier ones).
* `types/task.py:546-550`: the methods for the oldest kernels call `value()` on a
  gdb.Value, an AttributeError; the assertions at 148-152 fail for tables like
  that of Linux 2.4.
* `types/task.py:516-530`: an exiting kernel thread counts as a user task, so that
  `ps -u` lists it (left open by `PsSelects`).
* `types/task.py:552-557`: the resident memory includes the entries in swap, where
  `mm_struct` has `rss_stat` (left open by `PsSelects`).
* `commands/ps.py:611-643`: there are no letters for parked tasks, which are
  shown as running, and a zombie with TASK_DEAD is shown as dead.
* `subsystem/storage/device_mapper.py:30-38, 88-97`: the constructors read an
  attribute that only `interpret` sets and recurse through `__getattr__`.  So a
  clone, which has a decoder, ends the walk of its stack with a RecursionError,
  although `decoders.py:306-309` has it interrupted only by objects without a
  decoder (`StackDecoded` says nothing of where a walk that raises ends).
* `subsystem/storage/__init__.py:331-333`: compares with a gdb.Field, a TypeError.
* `subsystem/filesystem/decoders.py`: DIOBioDecoder names `dio_bio_end_io` twice,
  so that bios of asynchronous direct I/O are not decoded.
* `types/slab.py:1300`: level 4 prints the objects of partial slabs twice.

## What is not modelled

Formatting and argument parsing (the other commands), and reads of kernel
structures that keep nothing (XFS, Btrfs, mounts, kernfs, cgroups, block
devices, vmstat, utsname, load average) have no state a property could be
about; what can go wrong in them is in the readers they use, which are
modelled.  Reading registers from stack slots, address translation and
container_of are arithmetic on the dump.  Which paths are searched for vmlinux
and modules is string building.  Utilities are pure functions of gdb values, and
the contributed scripts are examples.

## Plan

1. `load_modules` and the imports composed with ObjfileCallbacks: what the rest
   of a session finds after a round of callbacks was left by an exception.
2. Proofs: what the SLUB reader reports of each fault (`FaultReported`).
