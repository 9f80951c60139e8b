-------------------------------- MODULE PerCpu --------------------------------
(***************************************************************************)
(* The CPU masks of crash/types/cpu.py and the per-CPU variables of        *)
(* crash/types/percpu.py.                                                  *)
(*                                                                         *)
(* A per-CPU variable is known by an address that is no memory address: it *)
(* is in the kernel's static range, in the range of a module, or in a part *)
(* of a dynamic chunk that is in use.  The last are collected from the     *)
(* dump when first asked for, and kept.                                    *)
(***************************************************************************)
EXTENDS Integers, Sequences, FiniteSets, SequencesExt

CONSTANTS
    NR_CPUS,        \* the length of __per_cpu_offset
    StaticSize,     \* __per_cpu_end - __per_cpu_start
    Starts,         \* where gdb may have relocated __per_cpu_start to
    ChunkBase,      \* where a chunk's addresses begin; they are ChunkSize apart
    ChunkSize,
    MaxChunks       \* bound on the chunks

ModuleStart == ChunkBase + MaxChunks * ChunkSize
ModuleSize == 2

\* A relocated __per_cpu_start is an address of the kernel, above all offsets.
ConstantsOK ==
    /\ NR_CPUS \in Nat \ {0} /\ StaticSize \in Nat /\ MaxChunks \in Nat
    /\ ChunkBase \in Nat /\ ChunkBase >= StaticSize
    /\ ChunkSize \in {2 * n : n \in 1..100}
    /\ Starts \subseteq Nat /\ 0 \in Starts
    /\ \A s \in Starts \ {0} : s >= ModuleStart + ModuleSize

VARIABLES
    dump,           \* the kernel
    PAGE_SIZE,      \* Page.PAGE_SIZE, which Pages changes; chunks are of one page
    cpus_online, cpus_possible,
    _static_ranges, _module_ranges,     \* sets of <<start, size>>
    _dynamic_offset_cache,              \* sequence of <<start, end>>
    _last_cpu, _nr_cpus,
    answer          \* the last answer to is_percpu_var or get_percpu_vars

vars == <<dump, cpus_online, cpus_possible, _static_ranges,
          _module_ranges, _dynamic_offset_cache, _last_cpu, _nr_cpus, answer>>
ranges == <<_static_ranges, _module_ranges, _dynamic_offset_cache>>
counts == <<_last_cpu, _nr_cpus>>
masks == <<cpus_online, cpus_possible>>

CPUs == 0..(NR_CPUS - 1)
InOrder(S) == CHOOSE q \in [1..Cardinality(S) -> S] :
                  \A i, j \in DOMAIN q : i < j => q[i] < q[j]
NoAnswer == [kind |-> "none"]

-----------------------------------------------------------------------------
(***************************************************************************)
(* The kernels.  A chunk is a sequence of areas, in use or not, of even    *)
(* sizes.  The kernel describes it by the lengths of the areas, negative   *)
(* for those in use, or by their offsets, odd for those in use and with an *)
(* end mark; kernels with a bitmap are not looked into.  `broken' is the   *)
(* chunk whose list_head cannot be read, or 0.                             *)
(***************************************************************************)
Areas == [used : BOOLEAN, len : {n \in 1..ChunkSize : n % 2 = 0}]
Chunks == {c \in UNION {[1..n -> Areas] : n \in 1..(ChunkSize \div 2)} :
              FoldLeft(LAMBDA n, a : n + a.len, 0, c) = ChunkSize}
AllKernels ==
    [possible : (SUBSET CPUs) \ {{}},
     hasMasks : BOOLEAN, start : Starts, module : BOOLEAN,
     chunks : {<<>>}, map : {"lengths"}, broken : {0}]
    \cup
    [possible : {CPUs}, hasMasks : {TRUE}, start : {0}, module : {TRUE},
     chunks : UNION {[1..n -> Chunks] : n \in 1..MaxChunks},
     map : {"lengths", "offsets", "bitmap"}, broken : 0..MaxChunks]
Kernels == {d \in AllKernels : d.broken <= Len(d.chunks)}
OffsetOf(c, k) == FoldLeft(LAMBDA n, a : n + a.len, 0, SubSeq(c, 1, k - 1))
BaseOf(k) == ChunkBase + (k - 1) * ChunkSize
\* The kernel's __per_cpu_offset; that of a CPU that cannot be is 0.
Offset(cpu) == IF cpu \in dump.possible THEN 1000 * (cpu + 1) ELSE 0

Start ==
    /\ cpus_online = <<>> /\ cpus_possible = <<>>
    /\ _static_ranges = {} /\ _module_ranges = {}
    /\ _dynamic_offset_cache = <<>>
    /\ _last_cpu = -1 /\ _nr_cpus = 0
    /\ answer = NoAnswer
-----------------------------------------------------------------------------
\* setup_online_mask and setup_possible_mask, if the kernel has the symbols.
SetupMasks ==
    /\ IF dump.hasMasks
       THEN /\ cpus_online' = InOrder(dump.possible)
            /\ cpus_possible' = InOrder(dump.possible)
       ELSE UNCHANGED masks
    /\ UNCHANGED <<dump, ranges, counts, answer>>

\* highest_possible_cpu_nr: the last of the list.
highest_possible_cpu_nr == Last(cpus_possible)

(***************************************************************************)
(* The callbacks: setup_per_cpu_size, twice, then setup_nr_cpus and        *)
(* setup_module_ranges.  Without the masks NR_CPUS is what there is.       *)
(***************************************************************************)
SizeCounts == IF cpus_possible = <<>> THEN counts
              ELSE <<highest_possible_cpu_nr, highest_possible_cpu_nr + 1>>
CountsExclusive == IF cpus_possible = <<>> THEN <<NR_CPUS, NR_CPUS>>
                   ELSE <<highest_possible_cpu_nr, highest_possible_cpu_nr>>
FinalCounts == LET c == SizeCounts
                   nr == IF c[2] = 0 THEN NR_CPUS ELSE c[2]
               IN  <<IF c[1] = -1 THEN nr ELSE c[1], nr>>
SetupPerCpu ==
    /\ _static_ranges' = {<<0, StaticSize>>, <<dump.start, StaticSize>>}
    /\ _module_ranges' = IF dump.module THEN {<<ModuleStart, ModuleSize>>} ELSE {}
    /\ _last_cpu' = FinalCounts[1] /\ _nr_cpus' = FinalCounts[2]
    /\ UNCHANGED <<dump, masks, _dynamic_offset_cache, answer>>

-----------------------------------------------------------------------------
(***************************************************************************)
(* The map of a chunk as the kernel keeps it, and the ranges in use that   *)
(* _setup_dynamic_offset_cache_area_map reads from it.  Nothing says which *)
(* of the two forms it is: a negative value does.                          *)
(***************************************************************************)
LengthMap(c) == [k \in 1..Len(c) |-> IF c[k].used THEN -c[k].len ELSE c[k].len]
OffsetMap(c) == Append([k \in 1..Len(c) |-> OffsetOf(c, k) + (IF c[k].used THEN 1 ELSE 0)],
                       ChunkSize + 1)

None == -1
Scan == [off |-> 0, start |-> None, found |-> <<>>]
Close(s, end) == IF s.start = None THEN s
                 ELSE [s EXCEPT !.found = Append(@, <<s.start, end>>), !.start = None]
Open(s, off) == IF s.start = None THEN [s EXCEPT !.start = off] ELSE s
LengthStep(s, v) ==
    LET t == IF v < 0 THEN Open(s, s.off) ELSE Close(s, s.off)
    IN  [t EXCEPT !.off = @ + (IF v < 0 THEN -v ELSE v)]
OffsetStep(s, v) == IF v % 2 = 1 THEN Open(s, v - 1) ELSE Close(s, v)
FromLengths(map) == LET s == FoldLeft(LengthStep, Scan, map)
                    IN  Close(s, s.off).found
FromOffsetsOpen(map) == FoldLeft(OffsetStep, Scan, Front(map)).found
FromOffsets(map) == LET s == FoldLeft(OffsetStep, Scan, Front(map))
                    IN  Close(s, Last(map) - 1).found
\* Without a negative value the other form is assumed, whose map is one longer.
AreaMap(c) ==
    IF dump.map = "lengths" /\ \E k \in DOMAIN c : LengthMap(c)[k] < 0
    THEN FromLengths(LengthMap(c))
    ELSE IF dump.map = "lengths"
    THEN FromOffsets(Append(LengthMap(c), 0))
    ELSE FromOffsets(OffsetMap(c))
Bitmap == <<<<0, PAGE_SIZE>>>>
RangesOf(k) ==
    LET r == IF dump.map = "bitmap" THEN Bitmap ELSE AreaMap(dump.chunks[k])
    IN  [j \in 1..Len(r) |-> <<BaseOf(k) + r[j][1], BaseOf(k) + r[j][2]>>]

(***************************************************************************)
(* _setup_dynamic_offset_cache: chunk by chunk, up to the end of the list  *)
(* or to the one that cannot be read.  What there is is kept either way.   *)
(***************************************************************************)
ChunksRead == IF dump.broken = 0 THEN Len(dump.chunks) ELSE dump.broken - 1
Collected == FlattenSeq([k \in 1..ChunksRead |-> RangesOf(k)])
\* pcpu_slot and the others are looked up by callbacks of this module, too: if
\* its callbacks were not run, the DelayedAttributeError is caught.
Resolved == _static_ranges # {}
Cache == IF _dynamic_offset_cache = <<>> /\ Resolved THEN Collected
         ELSE _dynamic_offset_cache
CacheRaises == _dynamic_offset_cache = <<>> /\ Resolved /\ dump.broken # 0

Within(addr, rs) == \E r \in rs : r[1] <= addr /\ addr < r[1] + r[2]
is_static_percpu_var(addr) == Within(addr, _static_ranges)
is_module_percpu_var(addr) == Within(addr, _module_ranges)
Dynamic(addr) == \E r \in Range(Cache) : r[1] <= addr /\ addr < r[2]
NeedsDynamic(addr) == ~is_static_percpu_var(addr) /\ ~is_module_percpu_var(addr)
is_percpu_var(addr) == ~NeedsDynamic(addr) \/ Dynamic(addr)

IsPercpuVar(addr) ==
    /\ _dynamic_offset_cache' = IF NeedsDynamic(addr) THEN Cache ELSE _dynamic_offset_cache
    /\ answer' = IF NeedsDynamic(addr) /\ CacheRaises
                 THEN [kind |-> "raised", addr |-> addr]
                 ELSE [kind |-> "is", addr |-> addr, is |-> is_percpu_var(addr)]
    /\ UNCHANGED <<dump, masks, counts, _static_ranges, _module_ranges>>

\* _relocated_offset and _get_percpu_var: where the variable of a CPU is.
_relocated_offset(addr) ==
    IF dump.start <= addr /\ addr < dump.start + StaticSize THEN addr - dump.start ELSE addr
VarOf(addr, cpu) == IF Offset(cpu) > 0 THEN Offset(cpu) + _relocated_offset(addr) ELSE 0

\* get_percpu_vars, which percpu_counter_sum adds up; no CPUs are a ValueError.
GetPercpuVars(addr) ==
    /\ _dynamic_offset_cache' = IF NeedsDynamic(addr) /\ _nr_cpus > 0
                                THEN Cache ELSE _dynamic_offset_cache
    /\ answer' = IF _nr_cpus <= 0 \/ (NeedsDynamic(addr) /\ CacheRaises)
                 THEN [kind |-> "raised", addr |-> addr]
                 ELSE IF ~is_percpu_var(addr)
                 THEN [kind |-> "is", addr |-> addr, is |-> FALSE]
                 ELSE [kind |-> "vars", addr |-> addr,
                       vals |-> [cpu \in 0..(_nr_cpus - 1) |-> VarOf(addr, cpu)]]
    /\ UNCHANGED <<dump, masks, counts, _static_ranges, _module_ranges>>

Addresses == (0..(StaticSize - 1)) \cup {s + 1 : s \in Starts}
             \cup (ChunkBase..(ModuleStart + ModuleSize))

-----------------------------------------------------------------------------
\* The addresses that the kernel means, and how much of an area a reader sees.
InUse(addr) == \E k \in 1..Len(dump.chunks) : \E j \in DOMAIN dump.chunks[k] :
    LET c == dump.chunks[k]
        from == BaseOf(k) + OffsetOf(c, j)
    IN  c[j].used /\ from <= addr /\ addr < from + c[j].len
InChunk(addr) == BaseOf(1) <= addr /\ addr < BaseOf(1 + Len(dump.chunks))
Static(addr) == \E s \in {0, dump.start} : s <= addr /\ addr < s + StaticSize
OfModule(addr) == dump.module /\ ModuleStart <= addr /\ addr < ModuleStart + ModuleSize
BehindBreak(addr) == dump.broken # 0 /\ addr >= BaseOf(dump.broken)

Meant(addr) == \/ Static(addr) \/ OfModule(addr)
               \/ IF dump.map = "bitmap" THEN InChunk(addr) ELSE InUse(addr)

(***************************************************************************)
(* is_percpu_var is right about every address, in either form of the maps: *)
(* it never takes another address for a variable, and denies a variable    *)
(* only where a walk of the chunks has failed in front of it, or where the *)
(* callbacks that tell the ranges have not run.                            *)
(***************************************************************************)
PercpuRight ==
    answer.kind = "is" =>
        /\ answer.is => Meant(answer.addr)
        /\ Meant(answer.addr) /\ Resolved => answer.is \/ BehindBreak(answer.addr)

(***************************************************************************)
(* get_percpu_vars has a value for every CPU there may be, and each is the *)
(* variable of that CPU and no other's.                                    *)
(***************************************************************************)
EveryCpuRead ==
    answer.kind = "vars" =>
        /\ dump.possible \subseteq DOMAIN answer.vals
        /\ \A cpu \in dump.possible :
               answer.vals[cpu] = Offset(cpu) + (IF dump.start # 0 /\ answer.addr >= dump.start
                                                 THEN answer.addr - dump.start ELSE answer.addr)
=============================================================================
