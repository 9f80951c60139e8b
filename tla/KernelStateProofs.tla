--------------------------- MODULE KernelStateProofs ---------------------------
(***************************************************************************)
(* What a session learns of its kernel is right, for any numbers of CPUs,  *)
(* pages, zones and any values of HZ: the uptime, the per-CPU variables    *)
(* of every CPU, and the struct pages.                                     *)
(***************************************************************************)
EXTENDS KernelState, LeastElement

-----------------------------------------------------------------------------
(***************************************************************************)
(* The uptime.  Until it is first worked out the jiffies stand for `time', *)
(* whether the callback read them or a caller put them in; from then on    *)
(* the instance has the uptime and does not look at them again, so that it *)
(* is theirs as long as they are not put in anew.                          *)
(***************************************************************************)
JiffiesRight ==
    \/ jiffies = S!NoValue
    \/ jiffies = S!Counter(time) /\ _adjust_jiffies = FALSE
    \/ jiffies = S!Counter64(time) /\ _adjust_jiffies = TRUE
ClockInv ==
    /\ kind = "sys" => system \in S!Systems /\ time \in Nat
    /\ todo # <<>> => time = system.up /\ resetOnInstance = "absent"
    /\ kind # "sys" => shown = S!NoValue
    /\ _adjust_jiffies \in BOOLEAN
    /\ resetOnClass = TRUE /\ resetOnInstance \in {"absent", "FALSE"}
    /\ resetOnInstance = "absent" => /\ shown = S!NoValue /\ _hz = S!NoValue
                                     /\ late = FALSE /\ JiffiesRight
    /\ resetOnInstance = "FALSE" => kind = "sys" /\ (~late => _uptime = time)
    /\ UptimeRight

LEMMA SystemTypes ==
    ASSUME system \in S!Systems
    PROVE  /\ system.hz \in Nat \ {0} /\ system.up \in Nat
           /\ Wrap \in Nat /\ Grace \in Nat
BY StateAssumption DEF S!Systems, S!ConstantsOK

\* Seconds that are turned into ticks and back.
LEMMA WholeSeconds ==
    ASSUME NEW u \in Nat, NEW h \in Nat \ {0}
    PROVE  (u * h) \div h = u
<1> DEFINE d == (u * h) \div h
           r == (u * h) % h
<1>1. u * h \in Int
    OBVIOUS
<1>2. d \in Int /\ r \in 0..(h - 1) /\ u * h = h * d + r
    BY <1>1
<1> HIDE DEF d, r
<1>3. h * (u - d) = r
    BY <1>2
<1>4. ASSUME u - d >= 1 PROVE FALSE
    <2>1. h * (u - d) >= h
        BY <1>2, <1>4
    <2> QED
        BY <1>2, <1>3, <2>1
<1>5. ASSUME u - d <= -1 PROVE FALSE
    <2>1. h * (d - u) >= h
        BY <1>2, <1>5
    <2>2. h * (d - u) = -r
        BY <1>2, <1>3
    <2> QED
        BY <1>2, <2>1, <2>2
<1> QED
    BY <1>2, <1>4, <1>5 DEF d

LEMMA ClockInit == Init => ClockInv
<1> SUFFICES ASSUME Init PROVE ClockInv
    OBVIOUS
<1>1. kind = "sys" => system \in S!Systems
    BY DEF Init
<1>2. S!Start
    BY DEF Init
<1>3. kind = "sys" => system.up \in Nat
    BY <1>1, SystemTypes
<1> QED
    BY <1>1, <1>2, <1>3 DEF ClockInv, S!Start, JiffiesRight, UptimeRight, S!UptimeRight,
                            S!NoValue

LEMMA ClockFixed ==
    ASSUME ClockInv, UNCHANGED <<kind, sysVars>>, todo' # <<>> => todo # <<>>
    PROVE  ClockInv'
<1>1. S!Counter(time)' = S!Counter(time) /\ S!Counter64(time)' = S!Counter64(time)
      /\ S!Systems' = S!Systems /\ S!NoValue' = S!NoValue
    BY DEF sysVars, S!Counter, S!Counter64, S!Systems, S!NoValue
<1>2. /\ kind' = kind /\ system' = system /\ time' = time /\ shown' = shown /\ late' = late
      /\ jiffies' = jiffies /\ _adjust_jiffies' = _adjust_jiffies /\ _hz' = _hz
      /\ resetOnClass' = resetOnClass /\ resetOnInstance' = resetOnInstance
      /\ _uptime' = _uptime
    BY DEF sysVars
<1>3. JiffiesRight' <=> JiffiesRight
    BY <1>1, <1>2 DEF JiffiesRight
<1>4. UptimeRight' <=> UptimeRight
    BY <1>1, <1>2 DEF UptimeRight, S!UptimeRight
<1> QED
    BY <1>1, <1>2, <1>3, <1>4 DEF ClockInv

LEMMA SetupJiffiesKeeps == ClockInv /\ SetupSys => ClockInv'
<1> SUFFICES ASSUME ClockInv, SetupSys PROVE ClockInv'
    OBVIOUS
<1>1. /\ system' = system /\ kind' = kind /\ resetOnInstance' = resetOnInstance
      /\ _hz' = _hz /\ _uptime' = _uptime /\ shown' = shown /\ time' = time /\ late' = late
      /\ todo # <<>>
    BY DEF SetupSys, S!SetupJiffies, Done, Turn
<1>2. time = system.up
    BY <1>1 DEF ClockInv
<1>3. \/ UNCHANGED <<jiffies, _adjust_jiffies, resetOnClass>>
      \/ jiffies' = S!Counter(time) /\ _adjust_jiffies' = FALSE /\ resetOnClass' = TRUE
      \/ jiffies' = S!Counter64(time) /\ _adjust_jiffies' = TRUE /\ resetOnClass' = TRUE
    BY <1>2 DEF SetupSys, S!SetupJiffies, S!set_jiffies, S!clock
<1>4. S!Counter(time)' = S!Counter(time) /\ S!Counter64(time)' = S!Counter64(time)
      /\ S!Systems' = S!Systems
    BY <1>1 DEF S!Counter, S!Counter64, S!Systems
<1>5. /\ resetOnClass' = TRUE /\ _adjust_jiffies' \in BOOLEAN
      /\ JiffiesRight => JiffiesRight'
    BY <1>1, <1>3, <1>4 DEF ClockInv, JiffiesRight, S!NoValue
<1>6. UptimeRight'
    BY <1>1 DEF ClockInv, UptimeRight, S!UptimeRight, S!NoValue
<1> QED
    BY <1>1, <1>4, <1>5, <1>6 DEF ClockInv, S!NoValue

LEMMA PutJiffiesKeeps == ClockInv /\ PutJiffies => ClockInv'
<1> SUFFICES ASSUME ClockInv, PutJiffies PROVE ClockInv'
    OBVIOUS
<1>1. PICK up \in Seconds : S!SetJiffies(up) /\ Asked("sys")
    BY DEF PutJiffies
<1>2. /\ system' = system /\ kind' = kind /\ resetOnInstance' = resetOnInstance
      /\ _hz' = _hz /\ _uptime' = _uptime /\ _adjust_jiffies' = _adjust_jiffies
      /\ resetOnClass' = TRUE /\ shown' = S!NoValue /\ time' = up
      /\ late' = (late \/ resetOnInstance # "absent") /\ todo' = <<>> /\ kind = "sys"
    BY <1>1 DEF Asked, S!SetJiffies, S!set_jiffies
<1>3. up \in Nat
    BY StateAssumption DEF S!ConstantsOK
<1>4. JiffiesRight'
    <2>1. S!Counter(up)' = S!Counter(up) /\ S!Counter64(up)' = S!Counter64(up)
        BY <1>2 DEF S!Counter, S!Counter64
    <2>2. jiffies' = IF _adjust_jiffies THEN S!Counter64(up) ELSE S!Counter(up)
        BY <1>1 DEF S!SetJiffies, S!set_jiffies
    <2>3. _adjust_jiffies \in BOOLEAN
        BY DEF ClockInv
    <2>4. S!Counter(time)' = S!Counter(up) /\ S!Counter64(time)' = S!Counter64(up)
        BY <1>2 DEF S!Counter, S!Counter64
    <2> QED
        BY <1>2, <2>2, <2>3, <2>4 DEF JiffiesRight
<1>5. UptimeRight'
    BY <1>2 DEF UptimeRight, S!UptimeRight, S!NoValue
<1>6. S!Systems' = S!Systems
    BY DEF S!Systems
<1> QED
    BY <1>2, <1>3, <1>4, <1>5, <1>6 DEF ClockInv, S!NoValue

\* The first uptime is worked out from the jiffies in force.
LEMMA UptimeKeeps == ClockInv /\ AskUptime => ClockInv'
<1> SUFFICES ASSUME ClockInv, AskUptime PROVE ClockInv'
    OBVIOUS
<1>1. /\ kind = "sys" /\ kind' = kind /\ system' = system /\ time' = time /\ late' = late
      /\ UNCHANGED <<jiffies, _adjust_jiffies, resetOnClass>> /\ todo' = <<>>
    BY DEF AskUptime, Asked, S!Uptime, S!clock
<1>2. S!Systems' = S!Systems
    BY DEF S!Systems
<1>3. /\ system \in S!Systems /\ system.hz \in Nat \ {0} /\ time \in Nat
      /\ Wrap \in Nat /\ Grace \in Nat
    BY <1>1, SystemTypes DEF ClockInv
<1>4. CASE resetOnInstance = "FALSE"
    <2>1. ~S!_reset_uptime
        BY <1>4 DEF S!_reset_uptime
    <2>2. shown' = _uptime /\ UNCHANGED <<_hz, _uptime, resetOnInstance>>
        BY <2>1 DEF AskUptime, S!Uptime
    <2>3. UptimeRight'
        BY <1>1, <1>4, <2>2 DEF ClockInv, UptimeRight, S!UptimeRight
    <2> QED
        BY <1>1, <1>2, <1>4, <2>2, <2>3 DEF ClockInv, S!NoValue
<1>5. CASE resetOnInstance = "absent"
    <2>1. S!_reset_uptime /\ S!Hz = system.hz
        BY <1>5 DEF S!_reset_uptime, ClockInv, S!Hz
    <2>2. CASE jiffies # S!NoValue /\ S!HzKnown
        <3>1. /\ _uptime' = S!_adjusted_jiffies(system.hz) \div system.hz
              /\ shown' = _uptime' /\ resetOnInstance' = "FALSE"
            BY <2>1, <2>2 DEF AskUptime, S!Uptime
        <3>2. S!_adjusted_jiffies(system.hz) = time * system.hz
            <4>1. CASE jiffies = S!Counter(time) /\ _adjust_jiffies = FALSE
                BY <4>1 DEF S!_adjusted_jiffies, S!Counter
            <4>2. CASE jiffies = S!Counter64(time) /\ _adjust_jiffies = TRUE
                BY <4>2, <1>3 DEF S!_adjusted_jiffies, S!Counter64
            <4> QED
                BY <1>5, <2>2, <4>1, <4>2 DEF ClockInv, JiffiesRight
        <3>3. _uptime' = time
            BY <3>1, <3>2, <1>3, WholeSeconds
        <3>4. UptimeRight'
            BY <1>1, <3>1, <3>3 DEF UptimeRight, S!UptimeRight
        <3> QED
            BY <1>1, <1>2, <3>1, <3>3, <3>4 DEF ClockInv, S!NoValue
    <2>3. CASE ~(jiffies # S!NoValue /\ S!HzKnown)
        <3>1. UNCHANGED <<_hz, _uptime, resetOnInstance, shown>>
            BY <2>1, <2>3 DEF AskUptime, S!Uptime
        <3> QED
            BY <1>1, <3>1, ClockFixed DEF sysVars
    <2> QED
        BY <2>2, <2>3
<1> QED
    BY <1>4, <1>5 DEF ClockInv

LEMMA ClockStep == ClockInv /\ [Next]_vars => ClockInv'
<1> SUFFICES ASSUME ClockInv, [Next]_vars PROVE ClockInv'
    OBVIOUS
<1>1. CASE SetupSys
    BY <1>1, SetupJiffiesKeeps
<1>2. CASE AskUptime
    BY <1>2, UptimeKeeps
<1>3. CASE PutJiffies
    BY <1>3, PutJiffiesKeeps
<1>4. CASE \/ SetupTypes \/ SetupCpu \/ SetupPage \/ SetupPageRaises
           \/ SetupPerCpu \/ SetupNode \/ AskPercpu \/ AskZones
    <2>1. UNCHANGED <<kind, sysVars>>
        BY <1>4 DEF SetupTypes, SetupCpu, SetupPage, SetupPageRaises, SetupPerCpu,
                    SetupNode, AskPercpu, AskZones, Done, Asked
    <2>2. todo' # <<>> => todo # <<>>
        BY <1>4 DEF SetupTypes, SetupCpu, SetupPage, SetupPageRaises, SetupPerCpu,
                    SetupNode, AskPercpu, AskZones, Asked, Turn
    <2> QED
        BY <2>1, <2>2, ClockFixed
<1>5. CASE UNCHANGED vars
    BY <1>5, ClockFixed DEF vars
<1> QED
    BY <1>1, <1>2, <1>3, <1>4, <1>5 DEF Next

(***************************************************************************)
(* The uptime that is shown is to the second that of the dump, or of the   *)
(* jiffies put in before it was first asked for, for every HZ and either   *)
(* counter.                                                                *)
(***************************************************************************)
THEOREM UptimeShown == Spec => []UptimeRight
<1>1. Init => ClockInv
    BY ClockInit
<1>2. ClockInv /\ [Next]_vars => ClockInv'
    BY ClockStep
<1>3. ClockInv => UptimeRight
    BY DEF ClockInv
<1> QED
    BY <1>1, <1>2, <1>3, PTL DEF Spec
-----------------------------------------------------------------------------
(***************************************************************************)
(* The per-CPU variables.  As long as their callbacks have not run there   *)
(* are no CPUs and get_percpu_vars raises an exception; afterwards the     *)
(* ranges are known, and the number of CPUs is one more than the highest   *)
(* that is possible or, without the masks, that of all there are.          *)
(***************************************************************************)
Groups == {"types", "cpu", "sys", "page", "percpu", "node"}
Awaited(group) == \E i \in DOMAIN todo : todo[i] = group
Covers(nr) == \A cpu \in dump.possible : cpu \in 0..(nr - 1)
RangesKnown ==
    /\ _static_ranges = {<<0, StaticSize>>, <<dump.start, StaticSize>>}
    /\ _module_ranges = IF dump.module THEN {<<C!ModuleStart, C!ModuleSize>>} ELSE {}
    /\ Covers(_nr_cpus)
DumpOK ==
    /\ dump.possible \in SUBSET C!CPUs /\ dump.possible # {}
    /\ dump.start \in Starts
    /\ dump.start # 0 => dump.chunks = <<>> /\ dump.broken = 0

CpuParts ==
    /\ DumpOK
    /\ cpus_possible = <<>> \/ cpus_possible = C!InOrder(dump.possible)
    /\ _nr_cpus \in Nat /\ (_nr_cpus # 0 => Covers(_nr_cpus))
    /\ _nr_cpus = 0 \/ RangesKnown
    /\ dump.start # 0 => DOMAIN _dynamic_offset_cache = {}
    /\ EveryCpuRead
CpuInv ==
    /\ todo \in Seq(Groups)
    /\ kind = "percpu" => CpuParts
    /\ kind # "percpu" => answer = C!NoAnswer

LEMMA CpuConstants ==
    /\ NR_CPUS \in Nat \ {0} /\ StaticSize \in Nat /\ Starts \subseteq Nat
    /\ C!ModuleStart \in Nat /\ C!ModuleSize = 2 /\ ChunkBase \in Nat
    /\ ChunkBase >= StaticSize /\ C!ModuleStart >= ChunkBase
    /\ \A s \in Starts \ {0} : s >= C!ModuleStart + C!ModuleSize
<1>1. ChunkSize \in Nat /\ MaxChunks \in Nat /\ ChunkBase \in Nat
    BY StateAssumption DEF C!ConstantsOK
<1>2. MaxChunks * ChunkSize \in Nat
    BY <1>1
<1>3. C!ModuleStart \in Nat /\ C!ModuleStart >= ChunkBase
    BY <1>1, <1>2 DEF C!ModuleStart
<1> QED
    BY <1>1, <1>3, StateAssumption DEF C!ConstantsOK, C!ModuleSize

LEMMA KernelOK ==
    ASSUME dump \in C!Kernels
    PROVE  DumpOK
<1>1. StaticSize \in Nat /\ NR_CPUS \in Nat \ {0} /\ 0 \in Starts
    BY StateAssumption DEF C!ConstantsOK
<1>2. C!CPUs # {} /\ C!CPUs \in SUBSET C!CPUs
    BY <1>1 DEF C!CPUs
<1>3. dump \in C!AllKernels
    BY DEF C!Kernels
<1> QED
    BY <1>1, <1>2, <1>3 DEF C!AllKernels, DumpOK

LEMMA CpuInit == Init => CpuInv
<1> SUFFICES ASSUME Init PROVE CpuInv
    OBVIOUS
<1>1. todo \in Seq(Groups)
    <2>1. CASE todo = <<"types", "cpu", "sys", "page", "percpu", "node">>
        BY <2>1 DEF Groups
    <2>2. CASE todo = <<"types", "sys", "page", "cpu", "percpu", "node">>
        BY <2>2 DEF Groups
    <2> QED
        BY <2>1, <2>2 DEF Init, Orders
<1>2. /\ cpus_possible = <<>> /\ _nr_cpus = 0 /\ answer = C!NoAnswer
      /\ _dynamic_offset_cache = <<>>
    BY DEF Init, C!Start
<1>3. EveryCpuRead
    BY <1>2 DEF EveryCpuRead, C!EveryCpuRead, C!NoAnswer
<1>4. ASSUME kind = "percpu" PROVE DumpOK
    BY <1>4, KernelOK DEF Init
<1> QED
    BY <1>1, <1>2, <1>3, <1>4 DEF CpuInv, CpuParts

\* The bits of a mask as a list.
LEMMA ListedInOrder ==
    ASSUME NEW T \in SUBSET Nat, IsFiniteSet(T)
    PROVE  /\ C!InOrder(T) \in Seq(T) /\ Len(C!InOrder(T)) = Cardinality(T)
           /\ \A x \in T : \E i \in 1..Cardinality(T) : C!InOrder(T)[i] = x
           /\ \A i, j \in 1..Cardinality(T) : i < j => C!InOrder(T)[i] < C!InOrder(T)[j]
<1> DEFINE n == Cardinality(T)
           f == C!InOrder(T)
<1>1. \E q \in [1..n -> T] : \A i, j \in DOMAIN q : i < j => q[i] < q[j]
    <2>1. PICK q \in [1..n -> T] : \A i, j \in 1..n : i < j => q[i] < q[j]
        BY OrderExists
    <2> QED
        BY <2>1
<1>2. f \in [1..n -> T] /\ \A i, j \in DOMAIN f : i < j => f[i] < f[j]
    <2>1. C!Cardinality(T) = n
        BY DEF C!Cardinality, Cardinality
    <2> QED
        BY <1>1, <2>1 DEF C!InOrder
<1> HIDE DEF f
<1>3. \A i, j \in 1..n : i < j => f[i] < f[j]
    BY <1>2
<1> QED
    BY <1>2, <1>3, Ascending DEF f

\* The list of the possible CPUs ends with the highest.
LEMMA HighestIsLast ==
    ASSUME DumpOK, cpus_possible = C!InOrder(dump.possible)
    PROVE  /\ cpus_possible # <<>>
           /\ C!highest_possible_cpu_nr \in Nat
           /\ Covers(C!highest_possible_cpu_nr + 1)
<1> DEFINE D == dump.possible
           n == Cardinality(D)
           q == C!InOrder(D)
<1>1. D \in SUBSET Nat /\ D # {} /\ IsFiniteSet(D)
    <2>1. C!CPUs \in SUBSET Nat /\ IsFiniteSet(C!CPUs)
        BY CpuConstants, FS_Interval DEF C!CPUs
    <2> QED
        BY <2>1, FS_Subset DEF DumpOK
<1>2. n \in Nat /\ n # 0
    BY <1>1, FS_CardinalityType, FS_EmptySet
<1>3. /\ q \in Seq(D) /\ Len(q) = n /\ \A x \in D : \E i \in 1..n : q[i] = x
      /\ \A i, j \in 1..n : i < j => q[i] < q[j]
    BY <1>1, ListedInOrder
<1> HIDE DEF q
<1>5. C!highest_possible_cpu_nr = q[n] /\ q[n] \in D /\ q # <<>>
    BY <1>2, <1>3 DEF C!highest_possible_cpu_nr, C!Last, q
<1>6. ASSUME NEW x \in D PROVE x \in 0..q[n]
    <2>1. PICK i \in 1..n : q[i] = x
        BY <1>3
    <2>2. q[i] <= q[n]
        <3>1. CASE i = n
            BY <3>1, <1>1, <1>5
        <3>2. CASE i < n
            BY <3>2, <1>1, <1>2, <1>3, <1>5
        <3> QED
            BY <3>1, <3>2, <1>2
    <2> QED
        BY <1>1, <1>5, <2>1, <2>2
<1> QED
    BY <1>1, <1>5, <1>6 DEF Covers, q

LEMMA TurnMoves ==
    ASSUME todo \in Seq(Groups), NEW g, Turn(g), todo' = Tail(todo)
    PROVE  /\ todo' \in Seq(Groups)
           /\ \A h : h # g /\ Awaited(h) => Awaited(h)'
<1>1. todo # <<>> /\ todo[1] = g /\ todo' \in Seq(Groups) /\ Len(todo') = Len(todo) - 1
      /\ \A i \in 1..Len(todo') : todo'[i] = todo[i + 1]
    BY DEF Turn
<1>2. ASSUME NEW h, h # g, Awaited(h) PROVE Awaited(h)'
    <2>1. PICK i \in 1..Len(todo) : todo[i] = h
        BY <1>2 DEF Awaited
    <2>2. i # 1 /\ i - 1 \in 1..Len(todo') /\ todo'[i - 1] = h
        BY <1>1, <1>2, <2>1
    <2>3. i - 1 \in DOMAIN todo'
        BY <1>1, <2>2
    <2> QED
        BY <2>2, <2>3 DEF Awaited
<1> QED
    BY <1>1, <1>2

\* Steps that leave PerCPUState and the masks alone.
LEMMA CpuFixed ==
    ASSUME CpuInv, todo' \in Seq(Groups), UNCHANGED <<kind, cpuVars>>
    PROVE  CpuInv'
<1>1. /\ dump' = dump /\ cpus_possible' = cpus_possible /\ _static_ranges' = _static_ranges
      /\ _module_ranges' = _module_ranges /\ _nr_cpus' = _nr_cpus /\ answer' = answer
      /\ _dynamic_offset_cache' = _dynamic_offset_cache
    BY DEF cpuVars
<1>2. EveryCpuRead => EveryCpuRead'
    BY <1>1 DEF EveryCpuRead, C!EveryCpuRead, C!Offset
<1> QED
    BY <1>1, <1>2 DEF CpuInv, CpuParts, DumpOK, RangesKnown, Covers, C!InOrder, C!CPUs,
                      C!ModuleStart, C!ModuleSize, C!NoAnswer

LEMMA SetupCpuKeeps == CpuInv /\ SetupCpu => CpuInv'
<1> SUFFICES ASSUME CpuInv, SetupCpu PROVE CpuInv'
    OBVIOUS
<1>1. /\ dump' = dump /\ _static_ranges' = _static_ranges /\ _module_ranges' = _module_ranges
      /\ _nr_cpus' = _nr_cpus /\ answer' = answer /\ kernel' = kernel /\ kind' = kind
      /\ _dynamic_offset_cache' = _dynamic_offset_cache
      /\ cpus_possible' \in {cpus_possible, C!InOrder(dump.possible)}
    BY DEF SetupCpu, C!SetupMasks, C!ranges, C!counts, C!masks, pageVars, Done
<1>2. todo' \in Seq(Groups)
    BY TurnMoves DEF SetupCpu, Done, CpuInv
<1>3. EveryCpuRead => EveryCpuRead'
    BY <1>1 DEF EveryCpuRead, C!EveryCpuRead, C!Offset
<1>4. C!InOrder(dump.possible)' = C!InOrder(dump.possible)
    BY <1>1 DEF C!InOrder
<1> QED
    BY <1>1, <1>2, <1>3, <1>4 DEF CpuInv, CpuParts, DumpOK, RangesKnown, Covers, C!CPUs,
                      C!ModuleStart, C!ModuleSize, C!NoAnswer

LEMMA SetupPerCpuKeeps == CpuInv /\ SetupPerCpu => CpuInv'
<1> SUFFICES ASSUME CpuInv, SetupPerCpu PROVE CpuInv'
    OBVIOUS
<1>1. /\ dump' = dump /\ cpus_possible' = cpus_possible
      /\ answer' = answer /\ kernel' = kernel /\ kind' = kind
      /\ _dynamic_offset_cache' = _dynamic_offset_cache
    BY DEF SetupPerCpu, C!SetupPerCpu, C!masks, pageVars, Done
<1>2. /\ _static_ranges' = {<<0, StaticSize>>, <<dump.start, StaticSize>>}
      /\ _module_ranges' = IF dump.module THEN {<<C!ModuleStart, C!ModuleSize>>} ELSE {}
      /\ _nr_cpus' = C!FinalCounts[2]
    BY DEF SetupPerCpu, C!SetupPerCpu
<1>3. todo' \in Seq(Groups)
    BY TurnMoves DEF SetupPerCpu, Done, CpuInv
<1>4. EveryCpuRead => EveryCpuRead'
    BY <1>1 DEF EveryCpuRead, C!EveryCpuRead, C!Offset
<1>5. ASSUME kind = "percpu" PROVE _nr_cpus' \in Nat /\ Covers(_nr_cpus')
    <2>1. DumpOK /\ _nr_cpus \in Nat /\ (_nr_cpus # 0 => Covers(_nr_cpus))
        BY <1>5 DEF CpuInv, CpuParts
    <2>2. CASE cpus_possible = <<>>
        <3>1. _nr_cpus' = IF _nr_cpus = 0 THEN NR_CPUS ELSE _nr_cpus
            BY <1>2, <2>2 DEF C!FinalCounts, C!SizeCounts, C!counts
        <3>2. Covers(NR_CPUS) /\ NR_CPUS \in Nat
            BY <2>1, CpuConstants DEF Covers, DumpOK, C!CPUs
        <3> QED
            BY <2>1, <3>1, <3>2
    <2>3. CASE cpus_possible # <<>>
        <3>1. /\ C!highest_possible_cpu_nr \in Nat
              /\ Covers(C!highest_possible_cpu_nr + 1)
            BY <1>5, <2>1, <2>3, HighestIsLast DEF CpuInv, CpuParts
        <3>2. _nr_cpus' = C!highest_possible_cpu_nr + 1
            BY <1>2, <2>3, <3>1 DEF C!FinalCounts, C!SizeCounts, C!counts
        <3> QED
            BY <3>1, <3>2
    <2> QED
        BY <2>2, <2>3
<1>6. kind = "percpu" => RangesKnown'
    BY <1>1, <1>2, <1>5 DEF RangesKnown, Covers, C!ModuleStart, C!ModuleSize
<1>7. kind = "percpu" => _nr_cpus' \in Nat /\ Covers(_nr_cpus)'
    BY <1>1, <1>5 DEF Covers
<1> QED
    BY <1>1, <1>3, <1>4, <1>6, <1>7 DEF CpuInv, CpuParts, DumpOK, C!CPUs, C!InOrder, C!NoAnswer

\* The kernels that gdb has relocated have no chunks, see AllKernels.
LEMMA NoChunksRelocated ==
    ASSUME CpuParts, dump.start # 0
    PROVE  DOMAIN C!Cache = {}
<1>1. dump.chunks = <<>> /\ dump.broken = 0 /\ DOMAIN _dynamic_offset_cache = {}
    BY DEF CpuParts, DumpOK
<1>2. C!ChunksRead = 0
    BY <1>1 DEF C!ChunksRead
<1> DEFINE none == [k \in 1..0 |-> C!RangesOf(k)]
<1>3. Len(none) = 0 /\ DOMAIN none = {}
    OBVIOUS
<1>4. C!Collected = none
    BY <1>2, <1>3 DEF C!Collected, C!FlattenSeq
<1> QED
    BY <1>1, <1>3, <1>4 DEF C!Cache

\* A per-CPU address of a kernel that was relocated is below its range or in it.
LEMMA RelocatedRight ==
    ASSUME CpuParts, RangesKnown, NEW a \in Int, C!is_percpu_var(a)
    PROVE  C!_relocated_offset(a) = IF dump.start # 0 /\ a >= dump.start
                                    THEN a - dump.start ELSE a
<1>1. dump.start \in Nat /\ dump.start \in Starts
    BY CpuConstants DEF CpuParts, DumpOK
<1>2. CASE dump.start = 0
    BY <1>1, <1>2 DEF C!_relocated_offset
<1>3. CASE dump.start # 0
    <2>1. dump.start >= C!ModuleStart + C!ModuleSize
        BY <1>1, <1>3, CpuConstants
    <2>2. ~C!Dynamic(a)
        BY <1>3, NoChunksRelocated DEF C!Dynamic, C!Range
    <2>3. C!is_static_percpu_var(a) \/ C!is_module_percpu_var(a)
        BY <2>2 DEF C!is_percpu_var, C!NeedsDynamic
    <2>4. \/ a < StaticSize
          \/ dump.start <= a /\ a < dump.start + StaticSize
          \/ a < C!ModuleStart + C!ModuleSize
        <3>1. CASE C!is_static_percpu_var(a)
            BY <3>1, <1>1, CpuConstants DEF C!is_static_percpu_var, C!Within, RangesKnown
        <3>2. CASE C!is_module_percpu_var(a)
            BY <3>2, CpuConstants DEF C!is_module_percpu_var, C!Within, RangesKnown
        <3> QED
            BY <2>3, <3>1, <3>2
    <2>5. a >= dump.start => a < dump.start + StaticSize
        BY <2>1, <2>4, <1>1, CpuConstants
    <2> QED
        BY <1>1, <1>3, <2>5, CpuConstants DEF C!_relocated_offset
<1> QED
    BY <1>2, <1>3

LEMMA AddressTypes == \A a \in C!Addresses : a \in Int
BY CpuConstants DEF C!Addresses

LEMMA AskPercpuKeeps == CpuInv /\ AskPercpu => CpuInv'
<1> SUFFICES ASSUME CpuInv, AskPercpu PROVE CpuInv'
    OBVIOUS
<1>1. PICK a \in C!Addresses : /\ Asked("percpu") /\ (C!IsPercpuVar(a) \/ C!GetPercpuVars(a))
                               /\ UNCHANGED pageVars
    BY DEF AskPercpu
<1>2. /\ kind = "percpu" /\ kind' = kind /\ todo = <<>> /\ todo' = todo /\ kernel' = kernel
    BY <1>1 DEF Asked, pageVars
<1>3. /\ dump' = dump /\ cpus_possible' = cpus_possible /\ _nr_cpus' = _nr_cpus
      /\ _static_ranges' = _static_ranges /\ _module_ranges' = _module_ranges
      /\ _dynamic_offset_cache' \in {C!Cache, _dynamic_offset_cache}
    BY <1>1 DEF C!IsPercpuVar, C!GetPercpuVars, C!masks, C!counts
<1>4. CpuParts /\ a \in Int
    BY <1>1, <1>2, AddressTypes DEF CpuInv
<1>5. dump.start # 0 => DOMAIN _dynamic_offset_cache' = {}
    BY <1>3, <1>4, NoChunksRelocated DEF CpuParts
<1>6. \/ answer'.kind # "vars"
      \/ /\ RangesKnown /\ C!is_percpu_var(a) /\ answer'.addr = a
         /\ answer'.vals = [cpu \in 0..(_nr_cpus - 1) |-> C!VarOf(a, cpu)]
    <2>1. CASE C!IsPercpuVar(a)
        <3>1. \/ answer' = [kind |-> "raised", addr |-> a]
              \/ answer' = [kind |-> "is", addr |-> a, is |-> C!is_percpu_var(a)]
            BY <2>1 DEF C!IsPercpuVar
        <3> QED
            BY <3>1
    <2>2. CASE C!GetPercpuVars(a)
        <3> DEFINE vals == [cpu \in 0..(_nr_cpus - 1) |-> C!VarOf(a, cpu)]
        <3>1. \/ answer' = [kind |-> "raised", addr |-> a]
              \/ answer' = [kind |-> "is", addr |-> a, is |-> FALSE]
              \/ /\ C!is_percpu_var(a) /\ _nr_cpus > 0
                 /\ answer' = [kind |-> "vars", addr |-> a, vals |-> vals]
            BY <2>2, <1>4 DEF C!GetPercpuVars, CpuParts
        <3> HIDE DEF vals
        <3>2. \/ answer'.kind # "vars"
              \/ /\ RangesKnown /\ C!is_percpu_var(a) /\ answer'.addr = a
                 /\ answer'.vals = vals
            BY <3>1, <1>4 DEF CpuParts
        <3> QED
            BY <3>2 DEF vals
    <2> QED
        BY <1>1, <2>1, <2>2
<1>7. EveryCpuRead'
    <2> SUFFICES ASSUME answer'.kind = "vars", RangesKnown, C!is_percpu_var(a), answer'.addr = a,
                        answer'.vals = [cpu \in 0..(_nr_cpus - 1) |-> C!VarOf(a, cpu)]
                 PROVE  EveryCpuRead'
        BY <1>6 DEF EveryCpuRead, C!EveryCpuRead
    <2>1. ASSUME NEW cpu \in dump.possible
          PROVE  /\ cpu \in 0..(_nr_cpus - 1)
                 /\ C!Offset(cpu) > 0 /\ C!Offset(cpu)' = C!Offset(cpu)
        <3>1. cpu \in Nat
            BY <1>4, CpuConstants DEF CpuParts, DumpOK, C!CPUs
        <3>2. C!Offset(cpu) > 0 /\ C!Offset(cpu)' = C!Offset(cpu)
            BY <1>3, <3>1 DEF C!Offset
        <3> QED
            BY <1>4, <3>2 DEF RangesKnown, Covers
    <2>2. ASSUME NEW cpu \in dump.possible
          PROVE  answer'.vals[cpu] = C!Offset(cpu) +
                     (IF dump.start # 0 /\ a >= dump.start THEN a - dump.start ELSE a)
        BY <2>1, <1>4, RelocatedRight DEF C!VarOf
    <2> QED
        BY <1>3, <2>1, <2>2 DEF EveryCpuRead, C!EveryCpuRead
<1> QED
    BY <1>2, <1>3, <1>4, <1>5, <1>7
       DEF CpuInv, CpuParts, DumpOK, RangesKnown, Covers, C!InOrder, C!CPUs,
           C!ModuleStart, C!ModuleSize, C!NoAnswer

LEMMA CpuStep == CpuInv /\ [Next]_vars => CpuInv'
<1> SUFFICES ASSUME CpuInv, [Next]_vars PROVE CpuInv'
    OBVIOUS
<1>1. CASE SetupCpu
    BY <1>1, SetupCpuKeeps
<1>2. CASE SetupPerCpu
    BY <1>2, SetupPerCpuKeeps
<1>3. CASE AskPercpu
    BY <1>3, AskPercpuKeeps
<1>4. CASE SetupTypes \/ SetupSys \/ SetupPage \/ SetupNode
    <2>1. UNCHANGED <<kind, cpuVars>> /\ todo' = Tail(todo)
        BY <1>4 DEF SetupTypes, SetupSys, SetupPage, SetupNode, Done
    <2>2. \E g \in Groups \ {"percpu"} : Turn(g)
        BY <1>4 DEF SetupTypes, SetupSys, SetupPage, SetupNode, Groups
    <2>3. todo' \in Seq(Groups)
        BY <2>1, <2>2, TurnMoves DEF CpuInv
    <2> QED
        BY <2>1, <2>3, CpuFixed
<1>5. CASE SetupPageRaises
    <2>1. UNCHANGED <<kind, cpuVars>> /\ todo' \in Seq(Groups)
        BY <1>5 DEF SetupPageRaises
    <2> QED
        BY <2>1, CpuFixed
<1>6. CASE AskZones \/ AskUptime \/ PutJiffies \/ UNCHANGED vars
    <2>1. UNCHANGED <<kind, cpuVars>> /\ todo' = todo
        BY <1>6 DEF AskZones, AskUptime, PutJiffies, Asked, vars
    <2> QED
        BY <2>1, CpuFixed DEF CpuInv
<1> QED
    BY <1>1, <1>2, <1>3, <1>4, <1>5, <1>6 DEF Next

(***************************************************************************)
(* get_percpu_vars has the right variable for every CPU there may be, for  *)
(* any masks, with and without relocation.                                 *)
(***************************************************************************)
THEOREM EveryCpusVariable == Spec => []EveryCpuRead
<1>1. Init => CpuInv
    BY CpuInit
<1>2. CpuInv /\ [Next]_vars => CpuInv'
    BY CpuStep
<1>3. CpuInv => EveryCpuRead
    BY DEF CpuInv, CpuParts, EveryCpuRead, C!EveryCpuRead, C!NoAnswer
<1> QED
    BY <1>1, <1>2, <1>3, PTL DEF Spec
-----------------------------------------------------------------------------
(***************************************************************************)
(* The struct pages.  The callbacks of the types run first, those of the   *)
(* symbols correct what they have set; what the class Page knows then is   *)
(* how the kernel has laid out its pages.                                  *)
(***************************************************************************)
KernelTyped ==
    /\ kernel.arch \in {"x86", "ppc64"} /\ kernel.head \in {"first_page", "compound_head"}
    /\ kernel.tailFlag \in BOOLEAN /\ (kernel.tailFlag => kernel.head = "first_page")
    /\ kernel.moved \in BOOLEAN /\ (kernel.arch = "ppc64" => ~kernel.moved)
    /\ kernel.compound \in P!Compounds

\* What the type callbacks leave, and the symbol callbacks do not touch.
TypesKnown ==
    /\ Page.PAGE_SIZE = P!PageSize
    /\ Page.sparsemem = (kernel.arch = "ppc64")
    /\ Page.SECTIONS_PER_ROOT = P!PageSize \div P!SectionSize
    /\ Page.is_tail = IF kernel.tailFlag THEN "flag"
                      ELSE IF kernel.head = "first_page" THEN "combo" ELSE "low bit"
    /\ Page.compound_head = IF kernel.head = "first_page" THEN "first_page" ELSE "low bit"
Bases(virtual, direct) ==
    /\ Page.vmemmap_base = virtual /\ Page.vmemmap = virtual
    /\ Page.directmap_base = direct
Unmoved == Bases(P!DefaultVmemmap,
                 IF kernel.arch = "ppc64" THEN P!PpcDirectmap ELSE P!DefaultDirectmap)
PageFields == DOMAIN P!InitPage

TypesFirst == \A i \in DOMAIN todo : todo[i] = "types" => i = 1
EachOnce == \A i, j \in DOMAIN todo : todo[i] = todo[j] => i = j

PageInv ==
    /\ KernelTyped /\ todo \in Seq(Groups)
    /\ Awaited("page") => Page = [x \in PageFields |-> Page[x]]
    /\ TypesFirst /\ EachOnce
    /\ Awaited("types") => Page = P!InitPage /\ Awaited("page")
    /\ ~Awaited("types") => TypesKnown
    /\ ~Awaited("types") /\ Awaited("page") => Unmoved
    /\ ~Awaited("page") /\ ~failed => Bases(P!StructBase, P!DirectBase)

LEMMA PlainCompound == [p \in P!Pfns |-> p] \in P!Compounds
<1>1. MaxPfn \in Nat \ {0}
    BY StateAssumption DEF P!ConstantsOK
<1> QED
    BY <1>1 DEF P!Compounds, P!Pfns

LEMMA KernelsTyped == ASSUME kernel \in P!Kernels PROVE KernelTyped
<1>1. /\ kernel.tailFlag => kernel.head = "first_page"
      /\ kernel.arch = "ppc64" => ~kernel.moved
    BY DEF P!Kernels
<1>2. CASE kernel \in P!PageKernels
    BY <1>1, <1>2 DEF P!PageKernels, KernelTyped
<1>3. CASE kernel \in P!AreaKernels
    <2>1. /\ kernel.arch = "x86" /\ kernel.head = "compound_head" /\ kernel.tailFlag = FALSE
          /\ kernel.compound = [p \in P!Pfns |-> p] /\ kernel.moved = FALSE
        BY <1>3 DEF P!AreaKernels
    <2> QED
        BY <2>1, PlainCompound DEF KernelTyped
<1> QED
    BY <1>2, <1>3 DEF P!Kernels

LEMMA PageInit == Init => PageInv
<1> SUFFICES ASSUME Init PROVE PageInv
    OBVIOUS
<1>1. KernelTyped
    <2>1. ASSUME NEW c, kernel = PlainKernel(c) PROVE KernelTyped
        <3>1. /\ kernel.arch = "x86" /\ kernel.head = "compound_head"
              /\ kernel.tailFlag = FALSE /\ kernel.compound = [p \in P!Pfns |-> p]
              /\ kernel.moved = FALSE
            BY <2>1 DEF PlainKernel
        <3> QED
            BY <3>1, PlainCompound DEF KernelTyped
    <2> QED
        BY <2>1, KernelsTyped DEF Init
<1>2. Page = P!InitPage /\ Page = [x \in PageFields |-> Page[x]]
    BY DEF Init, P!Start, PageFields, P!InitPage
<1>3. /\ todo \in Seq(Groups) /\ Awaited("types") /\ Awaited("page")
      /\ TypesFirst /\ EachOnce
    <2>1. CASE todo = <<"types", "cpu", "sys", "page", "percpu", "node">>
        <3>1. todo \in Seq(Groups) /\ Len(todo) = 6
            BY <2>1 DEF Groups
        <3>2. /\ todo[1] = "types" /\ todo[2] = "cpu" /\ todo[3] = "sys"
              /\ todo[4] = "page" /\ todo[5] = "percpu" /\ todo[6] = "node"
            BY <2>1
        <3> QED
            BY <3>1, <3>2 DEF Awaited, TypesFirst, EachOnce
    <2>2. CASE todo = <<"types", "sys", "page", "cpu", "percpu", "node">>
        <3>1. todo \in Seq(Groups) /\ Len(todo) = 6
            BY <2>2 DEF Groups
        <3>2. /\ todo[1] = "types" /\ todo[2] = "sys" /\ todo[3] = "page"
              /\ todo[4] = "cpu" /\ todo[5] = "percpu" /\ todo[6] = "node"
            BY <2>2
        <3> QED
            BY <3>1, <3>2 DEF Awaited, TypesFirst, EachOnce
    <2> QED
        BY <2>1, <2>2 DEF Init, Orders
<1> QED
    BY <1>1, <1>2, <1>3 DEF PageInv

\* What the four type callbacks make of a class that knows nothing yet.
LEMMA TypesSet ==
    ASSUME KernelTyped, Page = P!InitPage, Page' = P!TypesSetUp, kernel' = kernel
    PROVE  TypesKnown' /\ Unmoved' /\ Page' = [x \in PageFields |-> Page'[x]]
<1> DEFINE ppc == kernel.arch = "ppc64"
           size == IF ppc THEN P!LargePage ELSE P!SmallPage
           direct == IF ppc THEN P!PpcDirectmap ELSE P!DefaultDirectmap
           typed == [P!InitPage EXCEPT !.PAGE_SIZE = size, !.directmap_base = direct,
                        !.sparsemem = ppc, !.compound_head_name = kernel.head,
                        !.vmemmap = P!DefaultVmemmap, !.typeKnown = TRUE]
           flagged == [typed EXCEPT !.flagsKnown = TRUE]
           tail == IF kernel.tailFlag THEN "flag"
                   ELSE IF kernel.head = "first_page" THEN "combo" ELSE "low bit"
           way == IF kernel.head = "first_page" THEN "first_page" ELSE "low bit"
           finished == [flagged EXCEPT !.finished = TRUE, !.is_tail = tail,
                                       !.compound_head = way]
<1>1. P!setup_page_type(P!InitPage) = typed
    BY DEF P!setup_page_type, P!FinishIfDone, P!InitPage, P!Unset
<1>2. P!setup_pageflags(typed) = finished
    <2>1. /\ flagged.typeKnown = TRUE /\ flagged.flagsKnown = TRUE /\ flagged.finished = FALSE
          /\ flagged.compound_head_name = kernel.head
        BY DEF P!InitPage
    <2> HIDE DEF flagged
    <2>2. P!FinishIfDone(flagged) = finished
        BY <2>1 DEF P!FinishIfDone, P!setup_pageflags_finish
    <2> QED
        BY <2>2 DEF P!setup_pageflags, flagged
<1>3. Page' = P!setup_mem_section(P!setup_zone_type(finished))
    BY <1>1, <1>2 DEF P!TypesSetUp
<1>4. Page' = [finished EXCEPT !.ZONES_WIDTH = P!Width(kernel.zones),
                               !.SECTIONS_PER_ROOT = size \div P!SectionSize]
    BY <1>3 DEF P!setup_mem_section, P!setup_zone_type, P!InitPage
<1>5. /\ Page'.PAGE_SIZE = size /\ Page'.directmap_base = direct
      /\ Page'.sparsemem = ppc /\ Page'.vmemmap = P!DefaultVmemmap
      /\ Page'.vmemmap_base = P!DefaultVmemmap
      /\ Page'.SECTIONS_PER_ROOT = size \div P!SectionSize
      /\ Page'.is_tail = tail /\ Page'.compound_head = way
    BY <1>4 DEF P!InitPage
<1>6. Page' = [x \in PageFields |-> Page'[x]]
    BY <1>4 DEF PageFields, P!InitPage
<1>7. P!PageSize' = size
    BY DEF P!PageSize
<1> QED
    BY <1>5, <1>6, <1>7 DEF TypesKnown, Unmoved, Bases

\* Steps that leave kernel and Page alone.
LEMMA PageFixed ==
    ASSUME PageInv, kernel' = kernel, Page' = Page, failed' = failed, todo' \in Seq(Groups),
           TypesFirst', EachOnce',
           Awaited("types")' = Awaited("types"), Awaited("page")' = Awaited("page")
    PROVE  PageInv'
<1>1. /\ KernelTyped' /\ (TypesKnown => TypesKnown') /\ (Unmoved => Unmoved')
      /\ (Bases(P!StructBase, P!DirectBase) => Bases(P!StructBase, P!DirectBase)')
    <2>1. KernelTyped'
        BY DEF PageInv, KernelTyped, P!Compounds, P!Pfns
    <2>2. /\ P!PageSize' = P!PageSize /\ P!StructBase' = P!StructBase
          /\ P!DirectBase' = P!DirectBase
        BY DEF P!PageSize, P!StructBase, P!DirectBase
    <2>3. TypesKnown => TypesKnown'
        BY <2>2 DEF TypesKnown
    <2> QED
        BY <2>1, <2>2, <2>3 DEF Unmoved, Bases
<1> QED
    BY <1>1 DEF PageInv, PageFields, P!InitPage

\* Turn by turn: the first group is taken off, and the others are still awaited.
LEMMA TurnTaken ==
    ASSUME PageInv, NEW g, Turn(g), todo' = Tail(todo)
    PROVE  /\ todo' \in Seq(Groups)
           /\ TypesFirst' /\ EachOnce' /\ ~Awaited(g)'
           /\ ~Awaited("types")' /\ (Awaited("types") => g = "types")
           /\ \A h : h # g => Awaited(h)' = Awaited(h)
<1>1. todo # <<>> /\ todo[1] = g /\ todo' \in Seq(Groups) /\ Len(todo') = Len(todo) - 1
      /\ \A i \in 1..Len(todo') : todo'[i] = todo[i + 1]
    BY DEF Turn, PageInv
<1>2. DOMAIN todo' = 1..Len(todo') /\ DOMAIN todo = 1..Len(todo)
    BY <1>1 DEF PageInv
<1>3. \A i \in DOMAIN todo' : todo'[i] # "types" /\ todo'[i] # g
    BY <1>1, <1>2 DEF PageInv, TypesFirst, EachOnce
<1>4. Awaited("types") => g = "types"
    BY <1>1 DEF PageInv, Awaited, TypesFirst
<1>6. EachOnce'
    BY <1>1, <1>2 DEF PageInv, EachOnce
<1>5. ASSUME NEW h, h # g PROVE Awaited(h)' = Awaited(h)
    <2>1. ASSUME Awaited(h)' PROVE Awaited(h)
        <3>1. PICK i \in DOMAIN todo' : todo'[i] = h
            BY <2>1 DEF Awaited
        <3>2. i + 1 \in DOMAIN todo /\ todo[i + 1] = h
            BY <1>1, <1>2, <3>1
        <3> QED
            BY <3>2 DEF Awaited
    <2>2. Awaited(h) => Awaited(h)'
        BY <1>5, TurnMoves DEF PageInv
    <2>3. Awaited(h) \in BOOLEAN /\ Awaited(h)' \in BOOLEAN
        BY DEF Awaited
    <2> QED
        BY <2>1, <2>2, <2>3
<1> QED
    BY <1>1, <1>3, <1>4, <1>5, <1>6 DEF Awaited, TypesFirst

LEMMA SetupTypesKeeps == PageInv /\ SetupTypes => PageInv'
<1> SUFFICES ASSUME PageInv, SetupTypes PROVE PageInv'
    OBVIOUS
<1>1. /\ Turn("types") /\ todo' = Tail(todo) /\ kernel' = kernel /\ failed' = failed
      /\ Page' = P!TypesSetUp
    BY DEF SetupTypes, P!SetupTypes, Done
<1>2. Awaited("types")
    BY <1>1 DEF Turn, Awaited, PageInv
<1>3. TypesKnown' /\ Unmoved' /\ Page' = [x \in PageFields |-> Page'[x]]
    BY <1>1, <1>2, TypesSet DEF PageInv
<1>4. /\ todo' \in Seq(Groups) /\ TypesFirst' /\ EachOnce'
      /\ ~Awaited("types")' /\ Awaited("page")'
    BY <1>1, <1>2, TurnTaken DEF PageInv
<1>5. KernelTyped'
    BY <1>1 DEF PageInv, KernelTyped, P!Compounds, P!Pfns
<1> QED
    BY <1>3, <1>4, <1>5 DEF PageInv, PageFields, P!InitPage

LEMMA SetupPageKeeps == PageInv /\ SetupPage => PageInv'
<1> SUFFICES ASSUME PageInv, SetupPage PROVE PageInv'
    OBVIOUS
<1>1. /\ Turn("page") /\ todo' = Tail(todo) /\ kernel' = kernel /\ failed' = failed
      /\ Page' = P!WithBases(P!WithNodesWidth(Page))
    BY DEF SetupPage, P!SetupSymbols, Done
<1>2. Awaited("page") /\ ~Awaited("types")
    BY <1>1, TurnTaken DEF Turn, Awaited, PageInv
<1>3. TypesKnown /\ Unmoved /\ KernelTyped
    BY <1>2 DEF PageInv
<1>4. /\ Page'.PAGE_SIZE = Page.PAGE_SIZE /\ Page'.sparsemem = Page.sparsemem
      /\ Page'.SECTIONS_PER_ROOT = Page.SECTIONS_PER_ROOT /\ Page'.is_tail = Page.is_tail
      /\ Page'.compound_head = Page.compound_head
      /\ Page'.vmemmap_base = IF kernel.moved THEN 2000 ELSE Page.vmemmap_base
      /\ Page'.vmemmap = IF kernel.moved THEN 2000 ELSE Page.vmemmap
      /\ Page'.directmap_base = IF kernel.moved THEN 6000 ELSE Page.directmap_base
    <2> DEFINE wide == P!WithNodesWidth(Page)
    <2>1. Page = [x \in PageFields |-> Page[x]]
        BY <1>2 DEF PageInv
    <2>2. /\ wide.PAGE_SIZE = Page.PAGE_SIZE /\ wide.sparsemem = Page.sparsemem
          /\ wide.SECTIONS_PER_ROOT = Page.SECTIONS_PER_ROOT /\ wide.is_tail = Page.is_tail
          /\ wide.compound_head = Page.compound_head /\ wide.vmemmap = Page.vmemmap
          /\ wide.vmemmap_base = Page.vmemmap_base
          /\ wide.directmap_base = Page.directmap_base
          /\ wide = [x \in PageFields |-> wide[x]]
        <3>1. CASE kernel.config = "no config"
            BY <2>1, <3>1 DEF P!WithNodesWidth
        <3>2. CASE kernel.config # "no config"
            <4>1. \E w : wide = [Page EXCEPT !.NODES_WIDTH = w, !.BITS_PER_LONG = Bits]
                BY <3>2 DEF P!WithNodesWidth
            <4> HIDE DEF wide
            <4> QED
                BY <2>1, <4>1 DEF PageFields, P!InitPage
        <3> QED
            BY <3>1, <3>2
    <2> HIDE DEF wide
    <2>3. CASE ~kernel.moved
        BY <1>1, <2>2, <2>3 DEF P!WithBases, wide
    <2>4. CASE kernel.moved
        <3>1. Page' = [wide EXCEPT !.vmemmap_base = 2000, !.vmemmap = 2000,
                                   !.directmap_base = 6000]
            BY <1>1, <2>4 DEF P!WithBases, wide
        <3>2. /\ DOMAIN wide = PageFields
              /\ {"vmemmap_base", "vmemmap", "directmap_base"} \subseteq PageFields
              /\ {"PAGE_SIZE", "sparsemem", "SECTIONS_PER_ROOT"} \subseteq PageFields
              /\ {"is_tail", "compound_head"} \subseteq PageFields
            BY <2>2 DEF PageFields, P!InitPage
        <3>3. Page'.vmemmap_base = 2000 /\ Page'.vmemmap = 2000 /\ Page'.directmap_base = 6000
            BY <3>1, <3>2
        <3>4. /\ Page'.PAGE_SIZE = wide.PAGE_SIZE /\ Page'.sparsemem = wide.sparsemem
              /\ Page'.SECTIONS_PER_ROOT = wide.SECTIONS_PER_ROOT
              /\ Page'.is_tail = wide.is_tail /\ Page'.compound_head = wide.compound_head
            BY <3>1, <3>2
        <3> QED
            BY <2>2, <2>4, <3>3, <3>4
    <2> QED
        BY <2>3, <2>4
<1>5. TypesKnown' /\ KernelTyped'
    BY <1>1, <1>3, <1>4 DEF TypesKnown, P!PageSize, KernelTyped, P!Compounds, P!Pfns
<1>6. Bases(P!StructBase, P!DirectBase)'
    BY <1>1, <1>3, <1>4 DEF Bases, Unmoved, P!StructBase, P!DirectBase, KernelTyped
<1>7. /\ todo' \in Seq(Groups) /\ TypesFirst' /\ EachOnce'
      /\ ~Awaited("types")' /\ ~Awaited("page")'
    BY <1>1, TurnTaken
<1> QED
    BY <1>4, <1>5, <1>6, <1>7 DEF PageInv, PageFields, P!InitPage

LEMMA PageStep == PageInv /\ [Next]_vars => PageInv'
<1> SUFFICES ASSUME PageInv, [Next]_vars PROVE PageInv'
    OBVIOUS
<1>1. CASE SetupTypes
    BY <1>1, SetupTypesKeeps
<1>2. CASE SetupPage
    BY <1>2, SetupPageKeeps
<1>3. CASE SetupPageRaises
    <2>1. /\ Turn("page") /\ todo' = <<>> /\ failed' = TRUE /\ kernel' = kernel /\ Page' = Page
        BY <1>3 DEF SetupPageRaises, P!SetupSymbolsRaises
    <2>2. ~Awaited("types")
        BY <2>1 DEF Turn, Awaited, PageInv, TypesFirst
    <2>3. TypesKnown' /\ KernelTyped'
        BY <2>1, <2>2 DEF PageInv, TypesKnown, P!PageSize, KernelTyped, P!Compounds, P!Pfns
    <2>4. /\ ~Awaited("types")' /\ ~Awaited("page")' /\ todo' \in Seq(Groups)
          /\ TypesFirst' /\ EachOnce'
        BY <2>1 DEF Awaited, TypesFirst, EachOnce
    <2> QED
        BY <2>1, <2>3, <2>4 DEF PageInv
<1>4. CASE SetupCpu \/ SetupSys \/ SetupPerCpu \/ SetupNode
    <2>1. kernel' = kernel /\ Page' = Page /\ failed' = failed /\ todo' = Tail(todo)
        BY <1>4 DEF SetupCpu, SetupSys, SetupPerCpu, SetupNode, Done,
                    P!setup_node_states, pageVars
    <2>2. PICK g \in Groups \ {"types", "page"} : Turn(g)
        BY <1>4 DEF SetupCpu, SetupSys, SetupPerCpu, SetupNode, Groups
    <2>3. /\ todo' \in Seq(Groups) /\ TypesFirst' /\ EachOnce'
          /\ Awaited("types")' = Awaited("types") /\ Awaited("page")' = Awaited("page")
        BY <2>1, <2>2, TurnTaken
    <2> QED
        BY <2>1, <2>3, PageFixed
<1>5. CASE AskPercpu \/ AskZones \/ AskUptime \/ PutJiffies \/ UNCHANGED vars
    <2>1. kernel' = kernel /\ Page' = Page /\ failed' = failed /\ todo' = todo
        BY <1>5 DEF AskPercpu, AskZones, AskUptime, PutJiffies, Asked, P!print_zones,
                    pageVars, vars
    <2>2. /\ TypesFirst' /\ EachOnce' /\ todo' \in Seq(Groups)
          /\ Awaited("types")' = Awaited("types") /\ Awaited("page")' = Awaited("page")
        BY <2>1 DEF PageInv, TypesFirst, EachOnce, Awaited
    <2> QED
        BY <2>1, <2>2, PageFixed
<1> QED
    BY <1>1, <1>2, <1>3, <1>4, <1>5 DEF Next

\* The formulas of page.py undo the layout of the kernel, once it is known.
LEMMA LayoutFound ==
    ASSUME KernelTyped, TypesKnown, Bases(P!StructBase, P!DirectBase)
    PROVE  P!PagesFound
<1> SUFFICES ASSUME NEW p \in P!Pfns
             PROVE  /\ P!page_from_addr(P!DirectBase + p * P!PageSize + 1) = P!StructOf(p)
                    /\ kernel.arch = "x86" =>
                           P!page_addr(P!StructOf(p)) = P!DirectBase + p * P!PageSize
                    /\ P!compound_head(p) = P!StructOf(kernel.compound[p])
    BY DEF P!PagesFound
<1>1. /\ P!Pfns \subseteq Nat /\ p \in Nat /\ kernel.compound \in [P!Pfns -> P!Pfns]
      /\ kernel.compound[p] \in Nat
    BY StateAssumption DEF P!ConstantsOK, P!Pfns, KernelTyped, P!Compounds
<1>2. /\ P!PageSize \in {6, 12} /\ (kernel.arch = "ppc64" => P!PageSize = 12)
      /\ P!StructBase \in {1000, 2000} /\ P!DirectBase \in Nat
    BY DEF P!PageSize, P!SmallPage, P!LargePage, P!StructBase, P!DefaultVmemmap, P!DirectBase,
           P!PpcDirectmap, P!DefaultDirectmap
<1>3. \A q \in Nat : P!StructOf(q) = P!StructBase + 4 * q
    BY <1>2 DEF P!StructOf, P!StructSize
<1>4. P!pfn_to_page(p) = P!StructOf(p)
    <2>1. CASE kernel.arch # "ppc64"
        BY <1>1, <2>1 DEF P!pfn_to_page, TypesKnown, Bases, P!StructOf
    <2>2. CASE kernel.arch = "ppc64"
        <3>1. Page.SECTIONS_PER_ROOT = 4 /\ P!KernelRoots = 4 /\ p \div P!PagesPerSection = p
            <4>1. P!PageSize \div P!SectionSize = 4
                BY <1>2, <2>2 DEF P!SectionSize
            <4>2. p \div P!PagesPerSection = p
                BY <1>1 DEF P!PagesPerSection
            <4> QED
                BY <4>1, <4>2 DEF TypesKnown, P!KernelRoots
        <3>2. p = (p \div 4) * 4 + (p % 4)
            BY <1>1
        <3> QED
            BY <2>2, <3>1, <3>2 DEF P!pfn_to_page, P!SectionAt, TypesKnown
    <2> QED
        BY <2>1, <2>2
<1>5. P!page_from_addr(P!DirectBase + p * P!PageSize + 1) = P!StructOf(p)
    <2> DEFINE a == P!DirectBase + p * P!PageSize + 1
    <2>1. a - P!DirectBase = p * P!PageSize + 1
        BY <1>1, <1>2
    <2>2. (p * P!PageSize + 1) \div P!PageSize = p
        BY <1>1, <1>2
    <2> HIDE DEF a
    <2>3. P!page_from_addr(a) = P!pfn_to_page((a - Page.directmap_base) \div Page.PAGE_SIZE)
        BY DEF P!page_from_addr
    <2>4. (a - Page.directmap_base) \div Page.PAGE_SIZE = p
        BY <2>1, <2>2 DEF Bases, TypesKnown
    <2>5. P!page_from_addr(a) = P!StructOf(p)
        BY <1>4, <2>3, <2>4
    <2> QED
        BY <2>5 DEF a
<1>6. P!page_addr(P!StructOf(p)) = P!DirectBase + p * P!PageSize
    <2>1. (P!StructOf(p) - Page.vmemmap_base) \div P!StructSize = p
        BY <1>1, <1>2, <1>3 DEF Bases, P!StructSize
    <2> QED
        BY <2>1 DEF P!page_addr, Bases, TypesKnown
<1>7. P!is_tail(p) <=> P!IsTail(p)
    <2>1. CASE kernel.tailFlag
        BY <2>1 DEF P!is_tail, TypesKnown, P!FlagsOf, P!IsTail
    <2>2. CASE ~kernel.tailFlag /\ kernel.head = "first_page"
        BY <2>2 DEF P!is_tail, TypesKnown, P!FlagsOf, P!IsTail, P!Combo
    <2>3. CASE ~kernel.tailFlag /\ kernel.head # "first_page"
        <3>1. P!is_tail(p) <=> P!HeadField(p) % 2 = 1
            BY <2>3 DEF P!is_tail, TypesKnown
        <3>2. P!HeadField(p) % 2 = 1 <=> P!IsTail(p)
            BY <1>1, <1>2, <1>3 DEF P!HeadField
        <3> QED
            BY <3>1, <3>2
    <2> QED
        BY <2>1, <2>2, <2>3
<1>8. P!compound_head(p) = P!StructOf(kernel.compound[p])
    <2>1. CASE ~P!IsTail(p)
        BY <1>7, <2>1 DEF P!compound_head, P!IsTail
    <2>2. CASE P!IsTail(p) /\ kernel.head = "first_page"
        BY <1>7, <2>2 DEF P!compound_head, TypesKnown
    <2>3. CASE P!IsTail(p) /\ kernel.head # "first_page"
        <3>1. P!HeadField(p) = P!StructOf(kernel.compound[p]) + 1
            BY <2>3 DEF P!HeadField
        <3>2. P!StructOf(kernel.compound[p]) \in Int
            BY <1>1, <1>2, <1>3
        <3>3. P!compound_head(p) = P!HeadField(p) - 1
            BY <1>7, <2>3 DEF P!compound_head, TypesKnown
        <3> QED
            BY <3>1, <3>2, <3>3
    <2> QED
        BY <2>1, <2>2, <2>3
<1> QED
    BY <1>5, <1>6, <1>8

(***************************************************************************)
(* After a set-up that was not left by an exception every page is found    *)
(* from its address, its address from the page, and a compound page's head *)
(* from its tails, for any number of pages in every sort of kernel and     *)
(* whichever order the modules were imported in.                           *)
(***************************************************************************)
THEOREM PagesAlwaysFound == Spec => [](todo = <<>> /\ ~failed => P!PagesFound)
<1>1. Init => PageInv
    BY PageInit
<1>2. PageInv /\ [Next]_vars => PageInv'
    BY PageStep
<1>3. PageInv => (todo = <<>> /\ ~failed => P!PagesFound)
    BY LayoutFound DEF PageInv, Awaited
<1> QED
    BY <1>1, <1>2, <1>3, PTL DEF Spec
=============================================================================
