--------------------------- MODULE SlubCacheProofs ---------------------------
(***************************************************************************)
(* Proofs about SlubCache for every number of slabs, objects, CPUs and     *)
(* nodes.  The theorems assume that the numbers of the online CPUs have no *)
(* gaps: the run slub_sparse shows that they are false otherwise.          *)
(***************************************************************************)
EXTENDS SlubCache, FiniteSetTheorems, SequenceTheorems, LeastElement

-----------------------------------------------------------------------------
(* Sequences made of sets.                                                   *)

LEMMA Members ==
    ASSUME NEW S, NEW l \in Seq(S), NEW i \in DOMAIN l
    PROVE  l[i] \in S
OBVIOUS

\* SetToSeq lists every member once.
LEMMA Enumerated ==
    ASSUME NEW S, IsFiniteSet(S)
    PROVE  /\ SetToSeq(S) \in Seq(S) /\ Len(SetToSeq(S)) = Cardinality(S)
           /\ \A i, j \in DOMAIN SetToSeq(S) : SetToSeq(S)[i] = SetToSeq(S)[j] => i = j
           /\ \A x \in S : \E i \in DOMAIN SetToSeq(S) : SetToSeq(S)[i] = x
<1> DEFINE n == Cardinality(S)
           f == SetToSeq(S)
<1>1. \E g \in [1..n -> S] : IsInjective(g)
    <2>1. PICK g \in [1..n -> S] : \A i, j \in 1..n : g[i] = g[j] => i = j
        BY Enumeration
    <2> QED
        BY <2>1 DEF IsInjective
<1>2. f \in [1..n -> S] /\ IsInjective(f)
    BY <1>1 DEF SetToSeq
<1> HIDE DEF f
<1>3. \A i, j \in 1..n : f[i] = f[j] => i = j
    BY <1>2 DEF IsInjective
<1>4. f \in Seq(S) /\ Len(f) = n /\ \A x \in S : \E i \in 1..n : f[i] = x
    BY <1>2, <1>3, Enumeration
<1> QED
    BY <1>2, <1>3, <1>4 DEF f

\* InOrder lists every member of a finite set of naturals once.
LEMMA Listed ==
    ASSUME NEW S \in SUBSET Nat, IsFiniteSet(S)
    PROVE  /\ InOrder(S) \in Seq(S) /\ Len(InOrder(S)) = Cardinality(S)
           /\ \A i, j \in 1..Len(InOrder(S)) : i < j => InOrder(S)[i] < InOrder(S)[j]
           /\ \A x \in S : \E i \in 1..Len(InOrder(S)) : InOrder(S)[i] = x
<1> DEFINE n == Cardinality(S)
           f == InOrder(S)
<1>1. \E q \in [1..n -> S] : \A i, j \in DOMAIN q : i < j => q[i] < q[j]
    <2>1. PICK q \in [1..n -> S] : \A i, j \in 1..n : i < j => q[i] < q[j]
        BY OrderExists
    <2> QED
        BY <2>1
<1>2. f \in [1..n -> S] /\ \A i, j \in DOMAIN f : i < j => f[i] < f[j]
    BY <1>1 DEF InOrder
<1> HIDE DEF f
<1>3. \A i, j \in 1..n : i < j => f[i] < f[j]
    BY <1>2
<1>4. f \in Seq(S) /\ Len(f) = n /\ \A x \in S : \E i \in 1..n : f[i] = x
    BY <1>2, <1>3, Ascending
<1> QED
    BY <1>3, <1>4 DEF f

-----------------------------------------------------------------------------
(* The dumps.                                                                *)

Roles == CpuRoles \cup NodeRoles
CpuSlabs(c) == {s \in Slabs : \/ Contains(mem.list[<<"cpu slab", c>>], s)
                              \/ Contains(mem.list[<<"cpu partial", c>>], s)}

FieldsOK(m) ==
    /\ m.list \in [Roles -> Seq(Slabs)]
    /\ m.pageFree \in [Slabs -> SUBSET Objs]
    /\ m.cpuFree \in [Online -> SUBSET Objs]
    /\ m.inuse \in [Slabs -> Int] /\ m.pages \in [Slabs -> Int]
    /\ m.round \in [Online -> Nat]
    /\ \A c \in Online : m.round[c] <= Len(m.list[<<"cpu partial", c>>])
MemTypeOK == FieldsOK(mem)

(***************************************************************************)
(* What a sound dump is like: each slab is on one list, the CPUs' free     *)
(* objects are in the CPUs' slabs, counters and flags agree.               *)
(***************************************************************************)
ListsApart ==
    \A r, q \in Roles : \A j \in DOMAIN mem.list[r], k \in DOMAIN mem.list[q] :
        mem.list[r][j] = mem.list[q][k] => r = q /\ j = k
FreeApart ==
    /\ \A c \in Online : \A o \in mem.cpuFree[c] :
           /\ Contains(mem.list[<<"cpu slab", c>>], o[1])
           /\ o \notin mem.pageFree[o[1]]
    /\ \A s \in Slabs : mem.pageFree[s] \subseteq ObjsOf(s)
CountersAgree ==
    /\ mem.cyclic = {} /\ mem.missing = {} /\ NoCircle
    /\ \A s \in Slabs : Cardinality(mem.pageFree[s]) = NObj - mem.inuse[s]
    /\ \A r \in Roles : \A k \in DOMAIN mem.list[r] :
           mem.list[r][k] \in mem.frozen <=> r \in CpuRoles
    /\ \A c \in Online : LET l == mem.list[<<"cpu partial", c>>]
                         IN  \A k \in DOMAIN l : mem.pages[l[k]] = Len(l) - k + 1
    /\ \A n \in Nodes : /\ mem.nr_partial[n] = Len(mem.list[<<"partial", n>>])
                        /\ mem.list[<<"full", n>>] # <<>> => mem.tracks
SoundMem == ListsApart /\ FreeApart /\ CountersAgree

-----------------------------------------------------------------------------
(* Every dump has its types, and a sound one is a kernel's own memory.       *)

Places == CpuRoles \cup NodeRoles \cup {Untracked}
States == {"allocated", "page", "cpu"}

LEMMA ListOf ==
    ASSUME NEW role \in [Slabs -> Places], NEW r
    PROVE  /\ At(role, r) \in Seq(Slabs)
           /\ \A i, j \in DOMAIN At(role, r) : At(role, r)[i] = At(role, r)[j] => i = j
           /\ \A i \in DOMAIN At(role, r) : role[At(role, r)[i]] = r
           /\ \A s \in Slabs : role[s] = r => \E i \in DOMAIN At(role, r) : At(role, r)[i] = s
<1> DEFINE S == {s \in Slabs : role[s] = r}
<1>1. IsFiniteSet(S) /\ S \subseteq Slabs
    BY SlubAssumption, FS_Subset
<1>2. At(role, r) = SetToSeq(S)
    BY DEF At
<1>3. /\ SetToSeq(S) \in Seq(S)
      /\ \A i, j \in DOMAIN SetToSeq(S) : SetToSeq(S)[i] = SetToSeq(S)[j] => i = j
      /\ \A x \in S : \E i \in DOMAIN SetToSeq(S) : SetToSeq(S)[i] = x
    <2> HIDE DEF S
    <2> QED
        BY <1>1, Enumerated
<1>4. \A i \in DOMAIN SetToSeq(S) : SetToSeq(S)[i] \in S
    <2> HIDE DEF S
    <2> QED
        BY <1>3
<1>5. SetToSeq(S) \in Seq(Slabs)
    <2> HIDE DEF S
    <2> QED
        BY <1>1, <1>3, SeqMonotonic
<1>6. \A i \in DOMAIN SetToSeq(S) : role[SetToSeq(S)[i]] = r
    BY <1>4
<1>7. \A s \in Slabs : role[s] = r => s \in S
    OBVIOUS
<1> HIDE DEF S
<1> QED
    BY <1>2, <1>3, <1>5, <1>6, <1>7

Shape == [list : [Roles -> Seq(Slabs)], pageFree : [Slabs -> SUBSET Objs],
          cpuFree : [Online -> SUBSET Objs], cyclic : {{}}, round : {[c \in Online |-> 0]},
          inuse : [Slabs -> Int], frozen : SUBSET Slabs, pages : [Slabs -> Int],
          nr_partial : [Nodes -> Int], nr_slabs : Int, tracks : BOOLEAN,
          missing : {{}}, fault : {NoRole}]

\* The free objects of a slab can be counted.
LEMMA SlabFinite ==
    ASSUME NEW s, NEW T \in SUBSET ObjsOf(s)
    PROVE  IsFiniteSet(T) /\ Cardinality(T) \in Nat
<1>1. IsFiniteSet({s})
    BY FS_Singleton
<1>2. IsFiniteSet(1..NObj)
    BY SlubAssumption, FS_Interval
<1>3. IsFiniteSet(ObjsOf(s))
    BY <1>1, <1>2, FS_Product DEF ObjsOf
<1> QED
    BY <1>3, FS_Subset, FS_CardinalityType

Position(l, s) == CHOOSE k \in DOMAIN l : l[k] = s
PageCount(l, s) == Len(l) - Position(l, s) + 1

LEMMA Positioned ==
    ASSUME NEW l \in Seq(Slabs), NEW s, \E k \in DOMAIN l : l[k] = s
    PROVE  /\ Position(l, s) \in DOMAIN l /\ l[Position(l, s)] = s
           /\ PageCount(l, s) \in Int
<1>1. Position(l, s) \in DOMAIN l /\ l[Position(l, s)] = s
    BY DEF Position
<1>2. Len(l) \in Nat /\ DOMAIN l = 1..Len(l)
    OBVIOUS
<1> QED
    BY <1>1, <1>2 DEF PageCount

LEMMA PagesOf ==
    ASSUME NEW role \in [Slabs -> Places], NEW s \in Slabs,
           role[s][1] = "cpu partial"
    PROVE  /\ role[s] \in CpuRoles
           /\ Position(At(role, role[s]), s) \in DOMAIN At(role, role[s])
           /\ At(role, role[s])[Position(At(role, role[s]), s)] = s
           /\ PageCount(At(role, role[s]), s) \in Int
<1>1. role[s] \in CpuRoles
    <2>1. role[s] \in Places
        OBVIOUS
    <2>2. role[s] \notin NodeRoles
        BY DEF NodeRoles
    <2>3. Untracked[1] # "cpu partial"
        BY DEF Untracked
    <2> QED
        BY <2>1, <2>2, <2>3 DEF Places
<1>2. At(role, role[s]) \in Seq(Slabs) /\ \E k \in DOMAIN At(role, role[s]) : At(role, role[s])[k] = s
    BY ListOf
<1> QED
    BY <1>1, <1>2, Positioned

IsMemory(m, role, obj, tracks) ==
    /\ m \in Shape
    /\ m.list = [r \in Roles |-> At(role, r)]
    /\ \A s \in Slabs : m.pageFree[s] = {o \in ObjsOf(s) : obj[o] = "page"}
    /\ \A c \in Online : m.cpuFree[c]
           = {o \in Objs : obj[o] = "cpu" /\ role[o[1]] = <<"cpu slab", c>>}
    /\ \A s \in Slabs : m.inuse[s] = NObj - Cardinality(m.pageFree[s])
    /\ m.frozen = {s \in Slabs : role[s] \in CpuRoles}
    /\ \A s \in Slabs : role[s][1] = "cpu partial" =>
           m.pages[s] = PageCount(At(role, role[s]), s)
    /\ \A n \in Nodes : m.nr_partial[n] = Len(At(role, <<"partial", n>>))
    /\ m.tracks = tracks

LEMMA MemoryShape ==
    ASSUME NEW role \in [Slabs -> Places], NEW obj \in [Objs -> States],
           NEW tracks \in BOOLEAN
    PROVE  IsMemory(Memory(role, obj, tracks), role, obj, tracks)
<1> DEFINE page == [s \in Slabs |-> {o \in ObjsOf(s) : obj[o] = "page"}]
           cpu == [c \in Online |-> {o \in Objs : obj[o] = "cpu"
                                       /\ role[o[1]] = <<"cpu slab", c>>}]
           list == [r \in Roles |-> At(role, r)]
           used == [s \in Slabs |-> NObj - Cardinality(page[s])]
           frozen == {s \in Slabs : role[s] \in CpuRoles}
           pages == [s \in Slabs |->
                         IF role[s][1] # "cpu partial" THEN 0
                         ELSE LET l == list[role[s]]
                                  k == CHOOSE k \in DOMAIN l : l[k] = s
                              IN  Len(l) - k + 1]
           partial == [n \in Nodes |-> Len(list[<<"partial", n>>])]
<1>1. Memory(role, obj, tracks) =
        [list |-> list, pageFree |-> page, cpuFree |-> cpu, cyclic |-> {}, round |-> [c \in Online |-> 0],
         inuse |-> used, frozen |-> frozen, pages |-> pages, nr_partial |-> partial,
         nr_slabs |-> Cardinality(Slabs), tracks |-> tracks, missing |-> {},
         fault |-> NoRole]
    BY DEF Memory, Roles
<1>2. list \in [Roles -> Seq(Slabs)]
    BY ListOf
<1>3. page \in [Slabs -> SUBSET Objs]
    BY DEF Objs, ObjsOf
<1>4. cpu \in [Online -> SUBSET Objs]
    OBVIOUS
<1>5. \A s \in Slabs : page[s] \in SUBSET ObjsOf(s)
    OBVIOUS
<1>6. used \in [Slabs -> Int]
    <2>1. \A s \in Slabs : Cardinality(page[s]) \in Nat
        <3> HIDE DEF page
        <3> QED
            BY <1>5, SlabFinite
    <2> HIDE DEF page
    <2> QED
        BY <2>1, SlubAssumption
<1>7. ASSUME NEW s \in Slabs
      PROVE  /\ role[s][1] = "cpu partial" => pages[s] = PageCount(At(role, role[s]), s)
             /\ pages[s] \in Int
    <2>1. CASE role[s][1] = "cpu partial"
        <3>1. role[s] \in Roles
            BY <2>1, PagesOf DEF Roles
        <3>2. pages[s] = PageCount(list[role[s]], s)
            BY <2>1 DEF PageCount, Position
        <3>3. list[role[s]] = At(role, role[s])
            BY <3>1
        <3> HIDE DEF pages, list
        <3> QED
            BY <2>1, <3>2, <3>3, PagesOf
    <2>2. CASE role[s][1] # "cpu partial"
        <3>1. pages[s] = 0
            BY <2>2
        <3> HIDE DEF pages
        <3>2. pages[s] \in Int
            BY <3>1
        <3> QED
            BY <2>2, <3>2, Zenon
    <2> QED
        BY <2>1, <2>2
<1>8. pages \in [Slabs -> Int]
    <2>1. pages = [s \in Slabs |-> pages[s]]
        OBVIOUS
    <2> HIDE DEF pages
    <2> QED
        BY <2>1, <1>7
<1>9. \A n \in Nodes : <<"partial", n>> \in Roles
    BY DEF Roles, NodeRoles
<1>10. \A n \in Nodes : partial[n] = Len(At(role, <<"partial", n>>))
    BY <1>9
<1>11. partial \in [Nodes -> Int]
    <2>1. \A n \in Nodes : Len(list[<<"partial", n>>]) \in Int
        <3> HIDE DEF list
        <3> QED
            BY <1>2, <1>9
    <2> HIDE DEF list
    <2> QED
        BY <2>1
<1>12. Cardinality(Slabs) \in Int /\ frozen \in SUBSET Slabs
    BY SlubAssumption, FS_CardinalityType
<1>13. /\ \A s \in Slabs : page[s] = {o \in ObjsOf(s) : obj[o] = "page"}
       /\ \A c \in Online : cpu[c] = {o \in Objs : obj[o] = "cpu"
                                       /\ role[o[1]] = <<"cpu slab", c>>}
       /\ \A s \in Slabs : used[s] = NObj - Cardinality(page[s])
    OBVIOUS
<1>14. Memory(role, obj, tracks) \in Shape
    <2> HIDE DEF page, cpu, list, used, frozen, pages, partial
    <2> QED
        BY <1>1, <1>2, <1>3, <1>4, <1>6, <1>8, <1>11, <1>12 DEF Shape
<1>15. /\ list = [r \in Roles |-> At(role, r)]
       /\ frozen = {s \in Slabs : role[s] \in CpuRoles}
    OBVIOUS
<1> HIDE DEF page, cpu, list, used, frozen, pages, partial
<1>16. /\ Memory(role, obj, tracks).list = list
       /\ Memory(role, obj, tracks).pageFree = page
       /\ Memory(role, obj, tracks).cpuFree = cpu
       /\ Memory(role, obj, tracks).inuse = used
       /\ Memory(role, obj, tracks).frozen = frozen
       /\ Memory(role, obj, tracks).pages = pages
       /\ Memory(role, obj, tracks).nr_partial = partial
       /\ Memory(role, obj, tracks).tracks = tracks
    BY <1>1
<1> HIDE DEF Memory
<1> QED
    BY <1>7, <1>10, <1>13, <1>14, <1>15, <1>16 DEF IsMemory

LEMMA ShapeOK ==
    ASSUME NEW m \in Shape
    PROVE  FieldsOK(m) /\ \A c \in Online : m.round[c] = 0
<1>1. /\ m.list \in [Roles -> Seq(Slabs)] /\ m.pageFree \in [Slabs -> SUBSET Objs]
      /\ m.cpuFree \in [Online -> SUBSET Objs]
      /\ m.inuse \in [Slabs -> Int] /\ m.pages \in [Slabs -> Int]
      /\ m.round = [c \in Online |-> 0]
    BY DEF Shape
<1>2. m.round \in [Online -> Nat] /\ \A c \in Online : m.round[c] = 0
    BY <1>1
<1>3. \A c \in Online : <<"cpu partial", c>> \in Roles
    BY DEF Roles, CpuRoles
<1>5. \A r \in Roles : Len(m.list[r]) \in Nat
    BY <1>1
<1>4. ASSUME NEW c \in Online PROVE m.round[c] <= Len(m.list[<<"cpu partial", c>>])
    <2>1. Len(m.list[<<"cpu partial", c>>]) \in Nat /\ m.round[c] = 0
        BY <1>2, <1>3, <1>5
    <2> DEFINE k == Len(m.list[<<"cpu partial", c>>])
    <2>2. k \in Nat
        BY <2>1
    <2>3. 0 <= k
        <3> HIDE DEF k
        <3> QED
            BY <2>2
    <2> QED
        BY <2>1, <2>3
<1> QED
    BY <1>1, <1>2, <1>4 DEF FieldsOK

LEMMA ListsLeft ==
    ASSUME NEW m, NEW x, FieldsOK(m), x.list = m.list, x.round = m.round,
           x.pageFree = m.pageFree, x.cpuFree \in [Online -> SUBSET Objs],
           x.inuse \in [Slabs -> Int], x.pages \in [Slabs -> Int]
    PROVE  FieldsOK(x)
BY DEF FieldsOK

\* A fault and a hole leave the types alone, and each leaves its mark.
LEMMA FaultOK ==
    ASSUME NEW m \in Shape, NEW x \in WithFault(m)
    PROVE  FieldsOK(x) /\ x.fault # NoRole
<1>0. FieldsOK(m)
    BY ShapeOK
<1>1. ASSUME NEW o \in UNION {m.pageFree[s] : s \in Slabs}, NEW c \in Online,
             x = [m EXCEPT !.cpuFree[c] = @ \cup {o}, !.fault = <<"cached", <<o, c>>>>]
      PROVE  FieldsOK(x) /\ x.fault[1] = "cached"
    <2>1. o \in Objs
        BY <1>0 DEF FieldsOK
    <2>2. /\ x.list = m.list /\ x.pageFree = m.pageFree /\ x.inuse = m.inuse
          /\ x.pages = m.pages /\ x.round = m.round
          /\ x.cpuFree = [m.cpuFree EXCEPT ![c] = @ \cup {o}]
          /\ x.fault = <<"cached", <<o, c>>>>
        BY <1>1 DEF Shape
    <2>3. x.cpuFree \in [Online -> SUBSET Objs]
        BY <2>1, <2>2, <1>0 DEF FieldsOK
    <2>4. x.fault[1] = "cached"
        BY <2>2
    <2> QED
        BY <2>2, <2>3, <2>4, <1>0 DEF FieldsOK
<1>2. ASSUME NEW y, NEW z, x = [m EXCEPT !.cyclic = y, !.fault = <<"cyclic", z>>]
      PROVE  FieldsOK(x) /\ x.fault[1] = "cyclic"
    <2>1. /\ x.list = m.list /\ x.round = m.round /\ x.pageFree = m.pageFree
          /\ x.cpuFree = m.cpuFree
        BY <1>2 DEF Shape
    <2>2. x.inuse \in [Slabs -> Int] /\ x.pages \in [Slabs -> Int]
        BY <1>2, <1>0 DEF FieldsOK, Shape
    <2>3. x.fault[1] = "cyclic"
        BY <1>2 DEF Shape
    <2> QED
        BY <2>1, <2>2, <2>3, <1>0, ListsLeft DEF FieldsOK
<1>3. ASSUME NEW s \in Slabs, NEW i \in 0..NObj,
             x = [m EXCEPT !.inuse[s] = i, !.fault = <<"inuse", s>>]
      PROVE  FieldsOK(x) /\ x.fault[1] = "inuse"
    <2>1. /\ x.list = m.list /\ x.round = m.round /\ x.pageFree = m.pageFree
          /\ x.cpuFree = m.cpuFree
        BY <1>3 DEF Shape
    <2>4. x.inuse = [m.inuse EXCEPT ![s] = i] /\ x.pages = m.pages
        BY <1>3 DEF Shape
    <2>5. i \in Int
        BY SlubAssumption
    <2>2. x.inuse \in [Slabs -> Int] /\ x.pages \in [Slabs -> Int]
        <3>1. m.inuse \in [Slabs -> Int] /\ m.pages \in [Slabs -> Int]
            BY <1>0 DEF FieldsOK
        <3> QED
            BY <2>4, <2>5, <3>1
    <2>3. x.fault[1] = "inuse"
        BY <1>3 DEF Shape
    <2> QED
        BY <2>1, <2>2, <2>3, <1>0, ListsLeft DEF FieldsOK
<1>4. ASSUME NEW s \in Slabs,
             x = [m EXCEPT !.frozen = (@ \cup {s}) \ (@ \cap {s}), !.fault = <<"frozen", s>>]
      PROVE  FieldsOK(x) /\ x.fault[1] = "frozen"
    <2>1. /\ x.list = m.list /\ x.round = m.round /\ x.pageFree = m.pageFree
          /\ x.cpuFree = m.cpuFree
        BY <1>4 DEF Shape
    <2>2. x.inuse \in [Slabs -> Int] /\ x.pages \in [Slabs -> Int]
        BY <1>4, <1>0 DEF FieldsOK, Shape
    <2>3. x.fault[1] = "frozen"
        BY <1>4 DEF Shape
    <2> QED
        BY <2>1, <2>2, <2>3, <1>0, ListsLeft DEF FieldsOK
<1>5. ASSUME NEW s \in Slabs,
             x = [m EXCEPT !.pages[s] = @ + 1, !.fault = <<"pages", s>>]
      PROVE  FieldsOK(x) /\ x.fault[1] = "pages"
    <2>1. /\ x.list = m.list /\ x.round = m.round /\ x.pageFree = m.pageFree
          /\ x.cpuFree = m.cpuFree
        BY <1>5 DEF Shape
    <2>4. x.pages = [m.pages EXCEPT ![s] = @ + 1] /\ x.inuse = m.inuse
        BY <1>5 DEF Shape
    <2>2. x.inuse \in [Slabs -> Int] /\ x.pages \in [Slabs -> Int]
        <3>1. m.inuse \in [Slabs -> Int] /\ m.pages \in [Slabs -> Int]
            BY <1>0 DEF FieldsOK
        <3>2. m.pages[s] + 1 \in Int
            BY <3>1
        <3> QED
            BY <2>4, <3>1, <3>2
    <2>3. x.fault[1] = "pages"
        BY <1>5 DEF Shape
    <2> QED
        BY <2>1, <2>2, <2>3, <1>0, ListsLeft DEF FieldsOK
<1>6. ASSUME NEW s \in Slabs, NEW c \in Online,
             x = [m EXCEPT !.list[<<"cpu slab", c>>] = <<s>>, !.fault = <<"twice", s>>]
      PROVE  FieldsOK(x) /\ x.fault[1] = "twice"
    <2>1. <<s>> \in Seq(Slabs)
        OBVIOUS
    <2>2. /\ x.list = [m.list EXCEPT ![<<"cpu slab", c>>] = <<s>>]
          /\ x.pageFree = m.pageFree /\ x.inuse = m.inuse
          /\ x.pages = m.pages /\ x.cpuFree = m.cpuFree /\ x.round = m.round
        BY <1>6 DEF Shape
    <2>5. \A d \in Online : x.round[d] <= Len(x.list[<<"cpu partial", d>>])
        <3> TAKE d \in Online
        <3>1. <<"cpu partial", d>> \in Roles /\ <<"cpu partial", d>> # <<"cpu slab", c>>
            BY DEF Roles, CpuRoles
        <3>2. x.list[<<"cpu partial", d>>] = m.list[<<"cpu partial", d>>]
            BY <2>2, <3>1, <1>0 DEF FieldsOK
        <3> QED
            BY <2>2, <3>2, <1>0 DEF FieldsOK
    <2>3. x.list \in [Roles -> Seq(Slabs)]
        BY <2>1, <2>2, <1>0 DEF FieldsOK
    <2>4. x.fault[1] = "twice"
        BY <1>6 DEF Shape
    <2> QED
        BY <2>2, <2>3, <2>4, <2>5, <1>0 DEF FieldsOK
<1>7. ASSUME NEW n \in Nodes,
             x = [m EXCEPT !.nr_partial[n] = @ + 1, !.fault = <<"nr_partial", n>>]
      PROVE  FieldsOK(x) /\ x.fault[1] = "nr_partial"
    <2>1. /\ x.list = m.list /\ x.round = m.round /\ x.pageFree = m.pageFree
          /\ x.cpuFree = m.cpuFree
        BY <1>7 DEF Shape
    <2>2. x.inuse \in [Slabs -> Int] /\ x.pages \in [Slabs -> Int]
        BY <1>7, <1>0 DEF FieldsOK, Shape
    <2>3. x.fault[1] = "nr_partial"
        BY <1>7 DEF Shape
    <2> QED
        BY <2>1, <2>2, <2>3, <1>0, ListsLeft DEF FieldsOK
<1>8. ASSUME x = [m EXCEPT !.nr_slabs = @ + 1, !.fault = <<"nr_full", 0>>]
      PROVE  FieldsOK(x) /\ x.fault[1] = "nr_full"
    <2>1. /\ x.list = m.list /\ x.round = m.round /\ x.pageFree = m.pageFree
          /\ x.cpuFree = m.cpuFree
        BY <1>8 DEF Shape
    <2>2. x.inuse \in [Slabs -> Int] /\ x.pages \in [Slabs -> Int]
        BY <1>8, <1>0 DEF FieldsOK, Shape
    <2>3. x.fault[1] = "nr_full"
        BY <1>8 DEF Shape
    <2> QED
        BY <2>1, <2>2, <2>3, <1>0, ListsLeft DEF FieldsOK
<1>9. ASSUME NEW t, x = [m EXCEPT !.tracks = t, !.fault = <<"tracks", 0>>]
      PROVE  FieldsOK(x) /\ x.fault[1] = "tracks"
    <2>1. /\ x.list = m.list /\ x.round = m.round /\ x.pageFree = m.pageFree
          /\ x.cpuFree = m.cpuFree
        BY <1>9 DEF Shape
    <2>2. x.inuse \in [Slabs -> Int] /\ x.pages \in [Slabs -> Int]
        BY <1>9, <1>0 DEF FieldsOK, Shape
    <2>3. x.fault[1] = "tracks"
        BY <1>9 DEF Shape
    <2> QED
        BY <2>1, <2>2, <2>3, <1>0, ListsLeft DEF FieldsOK
<1>23. ASSUME NEW c \in Online, NEW n \in Nat, n <= Len(m.list[<<"cpu partial", c>>]),
              x = [m EXCEPT !.round[c] = n, !.fault = <<"round", c>>]
       PROVE  FieldsOK(x) /\ x.fault[1] = "round"
    <2>1. /\ x.list = m.list /\ x.pageFree = m.pageFree /\ x.inuse = m.inuse
          /\ x.pages = m.pages /\ x.cpuFree = m.cpuFree
          /\ x.round = [m.round EXCEPT ![c] = n]
          /\ x.fault = <<"round", c>>
        BY <1>23 DEF Shape
    <2>2. x.fault[1] = "round"
        <3>1. x.fault = <<"round", c>>
            BY <2>1
        <3> QED
            BY <3>1
    <2>3. <<"cpu partial", c>> \in Roles
        BY DEF Roles, CpuRoles
    <2>7. m.list[<<"cpu partial", c>>] \in Seq(Slabs) /\ m.round \in [Online -> Nat]
        BY <2>3, <1>0 DEF FieldsOK
    <2>4. n \in Nat /\ n <= Len(m.list[<<"cpu partial", c>>])
        BY <1>23
    <2>5. x.round \in [Online -> Nat]
        BY <2>1, <2>4, <2>7
    <2>6. ASSUME NEW d \in Online
          PROVE  x.round[d] <= Len(x.list[<<"cpu partial", d>>])
        <3>1. CASE d = c
            BY <2>1, <2>4, <2>7, <3>1
        <3>2. CASE d # c
            <4>1. x.round[d] = m.round[d]
                BY <2>1, <2>7, <3>2
            <4> QED
                BY <4>1, <2>1, <1>0 DEF FieldsOK
        <3> QED
            BY <3>1, <3>2
    <2> QED
        BY <2>1, <2>2, <2>5, <2>6, <1>0 DEF FieldsOK
<1>10. NoRole[1] = "none"
    BY DEF NoRole
<1> DEFINE Cach == UNION {{[m EXCEPT !.cpuFree[c] = @ \cup {o}, !.fault = <<"cached", <<o, c>>>>] :
               o \in UNION {m.pageFree[s] : s \in Slabs}} :
               c \in {c \in Online : m.list[<<"cpu slab", c>>] # <<>>
                                    /\ Cardinality(m.cpuFree[c]) < NObj}}
           Circ == {[m EXCEPT !.cyclic = {y}, !.fault = <<"cyclic", y>>] :
               y \in {s \in Slabs : m.pageFree[s] # {}}}
           CpuCirc == {[m EXCEPT !.cyclic = {<<c>>}, !.fault = <<"cyclic", <<c>>>>] :
               c \in {c \in Online : m.cpuFree[c] # {}}}
           Inus == UNION {{[m EXCEPT !.inuse[s] = i, !.fault = <<"inuse", s>>] :
               i \in (0..NObj) \ {m.inuse[s]}} : s \in Slabs}
           Froz == {[m EXCEPT !.frozen = (@ \cup {s}) \ (@ \cap {s}),
                              !.fault = <<"frozen", s>>] : s \in Slabs}
           Page == {[m EXCEPT !.pages[s] = @ + 1, !.fault = <<"pages", s>>] :
               s \in {s \in Slabs : m.pages[s] # 0}}
           Twic == UNION {{[m EXCEPT !.list[<<"cpu slab", c>>] = <<s>>, !.fault = <<"twice", s>>] :
               s \in {s \in Slabs : s \in m.frozen}} :
               c \in {c \in Online : m.list[<<"cpu slab", c>>] = <<>>}}
           Roun == UNION {{[m EXCEPT !.round[c] = n, !.fault = <<"round", c>>] :
               n \in 1..Len(m.list[<<"cpu partial", c>>])} : c \in Online}
           Part == {[m EXCEPT !.nr_partial[n] = @ + 1, !.fault = <<"nr_partial", n>>] :
               n \in Nodes}
           Full == {[m EXCEPT !.nr_slabs = @ + 1, !.fault = <<"nr_full", 0>>]}
           Trac == {[m EXCEPT !.tracks = t, !.fault = <<"tracks", 0>>] :
               t \in {t \in {~m.tracks} : \E s \in Slabs :
                         \A r \in CpuRoles \cup ({"partial"} \X Nodes) :
                             ~Contains(m.list[r], s)}}
           Named == FieldsOK(x) /\ \E k \in {"cached", "cyclic", "inuse", "frozen", "pages",
                        "twice", "round", "nr_partial", "nr_full", "tracks"} : x.fault[1] = k
<1>11. WithFault(m) = Cach \cup Circ \cup CpuCirc \cup Inus \cup Froz \cup Page \cup Twic
                      \cup Roun \cup Part \cup Full \cup Trac
    BY DEF WithFault
<1>12. ASSUME x \in Cach PROVE Named
    <2>1. PICK c \in Online : x \in
              {[m EXCEPT !.cpuFree[c] = @ \cup {o}, !.fault = <<"cached", <<o, c>>>>] :
                   o \in UNION {m.pageFree[s] : s \in Slabs}}
        BY <1>12
    <2>2. PICK o \in UNION {m.pageFree[s] : s \in Slabs} :
              x = [m EXCEPT !.cpuFree[c] = @ \cup {o}, !.fault = <<"cached", <<o, c>>>>]
        BY <2>1
    <2> QED
        BY <2>2, <1>1
<1>13. x \in Circ => Named
    BY <1>2
<1>14. x \in CpuCirc => Named
    BY <1>2
<1>15. x \in Inus => Named
    BY <1>3
<1>16. x \in Froz => Named
    BY <1>4
<1>17. x \in Page => Named
    BY <1>5
<1>18. ASSUME x \in Twic PROVE Named
    <2>1. PICK c \in Online : x \in
              {[m EXCEPT !.list[<<"cpu slab", c>>] = <<s>>, !.fault = <<"twice", s>>] :
                   s \in {s \in Slabs : s \in m.frozen}}
        BY <1>18
    <2>2. PICK s \in Slabs :
              x = [m EXCEPT !.list[<<"cpu slab", c>>] = <<s>>, !.fault = <<"twice", s>>]
        BY <2>1
    <2> QED
        BY <2>2, <1>6
<1>24. ASSUME x \in Roun PROVE Named
    <2>1. PICK c \in Online : x \in
              {[m EXCEPT !.round[c] = n, !.fault = <<"round", c>>] :
                   n \in 1..Len(m.list[<<"cpu partial", c>>])}
        BY <1>24
    <2> DEFINE k == Len(m.list[<<"cpu partial", c>>])
    <2>2. PICK n : /\ n \in 1..k
                   /\ x = [m EXCEPT !.round[c] = n, !.fault = <<"round", c>>]
        BY <2>1
    <2>3. <<"cpu partial", c>> \in Roles
        BY DEF Roles, CpuRoles
    <2>6. m.list[<<"cpu partial", c>>] \in Seq(Slabs)
        BY <2>3, <1>0 DEF FieldsOK
    <2>4. k \in Nat /\ n \in 1..k
        <3>1. \A l \in Seq(Slabs) : Len(l) \in Nat
            OBVIOUS
        <3>2. k \in Nat
            BY <2>6, <3>1, Zenon
        <3> QED
            BY <2>2, <3>2
    <2>5. n \in Nat /\ n <= k
        <3> HIDE DEF k
        <3> QED
            BY <2>4
    <2> QED
        BY <2>2, <2>5, <1>23
<1>19. x \in Part => Named
    BY <1>7
<1>20. x \in Full => Named
    BY <1>8
<1>21. x \in Trac => Named
    BY <1>9
<1>22. Named
    <2> HIDE DEF Cach, Circ, CpuCirc, Inus, Froz, Page, Twic, Roun, Part, Full, Trac, Named
    <2> QED
        BY <1>11, <1>24, <1>12, <1>13, <1>14, <1>15, <1>16, <1>17, <1>18, <1>19, <1>20, <1>21
<1> QED
    BY <1>10, <1>22

LEMMA VariantOK ==
    ASSUME NEW m \in Shape, NEW x \in Variants(m)
    PROVE  FieldsOK(x) /\ (x.fault = NoRole /\ x.missing = {} => x = m)
<1>1. x = m \/ x \in WithFault(m) \/ x \in WithHole(m)
    BY SlubAssumption DEF Variants
<1>2. ASSUME x \in WithHole(m) PROVE FieldsOK(x) /\ x.missing # {}
    <2>1. PICK s \in Slabs : x = [m EXCEPT !.missing = {s}]
        BY <1>2 DEF WithHole
    <2> QED
        BY <2>1, ShapeOK DEF Shape, FieldsOK
<1>3. FieldsOK(m)
    BY ShapeOK
<1> QED
    BY <1>1, <1>2, <1>3, FaultOK

\* The memory of a running kernel is sound.
LEMMA MemorySound ==
    ASSUME NEW role \in [Slabs -> Places], NEW obj \in [Objs -> States],
           NEW tracks \in BOOLEAN, Consistent(role, obj, tracks),
           IsMemory(mem, role, obj, tracks)
    PROVE  SoundMem
<1>1. /\ mem \in Shape
      /\ \A s \in Slabs : mem.pageFree[s] = {o \in ObjsOf(s) : obj[o] = "page"}
      /\ \A s \in Slabs : mem.inuse[s] = NObj - Cardinality(mem.pageFree[s])
      /\ mem.frozen = {s \in Slabs : role[s] \in CpuRoles}
      /\ \A n \in Nodes : mem.nr_partial[n] = Len(At(role, <<"partial", n>>))
      /\ mem.tracks = tracks
    BY DEF IsMemory
<1>6. \A c \in Online : mem.cpuFree[c]
          = {o \in Objs : obj[o] = "cpu" /\ role[o[1]] = <<"cpu slab", c>>}
    BY Zenon DEF IsMemory
<1>7. \A s \in Slabs : role[s][1] = "cpu partial" =>
          mem.pages[s] = PageCount(At(role, role[s]), s)
    BY Zenon DEF IsMemory
<1>2. \A r \in Roles : mem.list[r] = At(role, r)
    BY DEF IsMemory
<1>3. ListsApart
    <2> SUFFICES ASSUME NEW r \in Roles, NEW q \in Roles,
                        NEW j \in DOMAIN At(role, r), NEW k \in DOMAIN At(role, q),
                        At(role, r)[j] = At(role, q)[k]
                 PROVE  r = q /\ j = k
        BY <1>2 DEF ListsApart
    <2>1. r = q
        BY ListOf
    <2> QED
        BY <2>1, ListOf
<1>4. FreeApart
    <2>1. ASSUME NEW c \in Online, NEW o \in mem.cpuFree[c]
          PROVE  /\ Contains(mem.list[<<"cpu slab", c>>], o[1])
                 /\ o \notin mem.pageFree[o[1]]
        <3>1. o \in Objs /\ obj[o] = "cpu" /\ role[o[1]] = <<"cpu slab", c>>
            BY <1>6, <2>1, Zenon
        <3>2. o[1] \in Slabs
            BY <3>1 DEF Objs
        <3>3. <<"cpu slab", c>> \in Roles
            BY DEF Roles, CpuRoles
        <3> DEFINE r == <<"cpu slab", c>>
                   l == At(role, r)
        <3>7. l \in Seq(Slabs)
            BY ListOf
        <3>8. role[o[1]] = r
            BY <3>1
        <3>4. \E i \in DOMAIN l : l[i] = o[1]
            <4> HIDE DEF r
            <4> QED
                BY <3>2, <3>8, ListOf
        <3>5. Contains(l, o[1])
            <4> HIDE DEF l
            <4> QED
                BY <3>4, <3>7 DEF Contains
        <3>6. o \notin mem.pageFree[o[1]]
            BY <3>1, <3>2, <1>1
        <3> QED
            BY <3>3, <3>5, <3>6, <1>2
    <2>2. \A s \in Slabs : mem.pageFree[s] \subseteq ObjsOf(s)
        BY <1>1
    <2> QED
        BY <2>1, <2>2 DEF FreeApart
<1>5. CountersAgree
    <2>1. mem.cyclic = {} /\ mem.missing = {} /\ NoCircle
        BY <1>1, ShapeOK DEF Shape, NoCircle
    <2>2. \A s \in Slabs : Cardinality(mem.pageFree[s]) = NObj - mem.inuse[s]
        <3> TAKE s \in Slabs
        <3>1. mem.pageFree[s] \in SUBSET ObjsOf(s)
            BY <1>1
        <3>2. Cardinality(mem.pageFree[s]) \in Nat
            BY <3>1, SlabFinite
        <3>3. mem.inuse[s] = NObj - Cardinality(mem.pageFree[s]) /\ NObj \in Nat
            BY <1>1, SlubAssumption
        <3> QED
            BY <3>2, <3>3
    <2>3. ASSUME NEW r \in Roles, NEW k \in DOMAIN mem.list[r]
          PROVE  mem.list[r][k] \in mem.frozen <=> r \in CpuRoles
        <3>1. k \in DOMAIN At(role, r) /\ mem.list[r][k] = At(role, r)[k]
            BY <2>3, <1>2
        <3>2. role[At(role, r)[k]] = r /\ At(role, r)[k] \in Slabs
            BY <3>1, ListOf
        <3> QED
            BY <3>1, <3>2, <1>1
    <2>4. ASSUME NEW c \in Online, NEW k \in DOMAIN mem.list[<<"cpu partial", c>>]
          PROVE  mem.pages[mem.list[<<"cpu partial", c>>][k]]
                     = Len(mem.list[<<"cpu partial", c>>]) - k + 1
        <3> DEFINE r == <<"cpu partial", c>>
                   l == At(role, r)
                   s == l[k]
        <3>1. r \in Roles /\ r[1] = "cpu partial"
            BY DEF Roles, CpuRoles
        <3> HIDE DEF r
        <3>2. mem.list[r] = l /\ k \in DOMAIN l
            BY <3>1, <2>4, <1>2 DEF r
        <3>3. l \in Seq(Slabs)
            BY ListOf
        <3>7. role[s] = r
            BY <3>2, ListOf
        <3>8. s \in Slabs
            BY <3>2, <3>3, Members
        <3>4. mem.pages[s] = PageCount(l, s)
            BY <3>1, <3>7, <3>8, <1>7
        <3>5. \A i, j \in DOMAIN l : l[i] = l[j] => i = j
            BY ListOf
        <3> HIDE DEF l
        <3>6. Position(l, s) = k
            <4>1. Position(l, s) \in DOMAIN l /\ l[Position(l, s)] = s
                BY <3>2, <3>3, Positioned
            <4> QED
                BY <4>1, <3>2, <3>5
        <3> QED
            BY <3>2, <3>4, <3>6 DEF PageCount, r
    <2>5. ASSUME NEW n \in Nodes
          PROVE  /\ mem.nr_partial[n] = Len(mem.list[<<"partial", n>>])
                 /\ mem.list[<<"full", n>>] # <<>> => mem.tracks
        <3>1. <<"partial", n>> \in Roles /\ <<"full", n>> \in Roles
            BY DEF Roles, NodeRoles
        <3>2. ASSUME mem.list[<<"full", n>>] # <<>> PROVE mem.tracks
            <4> DEFINE r == <<"full", n>>
                       l == At(role, r)
            <4>1. l # <<>> /\ l \in Seq(Slabs)
                BY <3>1, <3>2, <1>2, ListOf
            <4>2. 1 \in DOMAIN l
                <5> HIDE DEF l
                <5> QED
                    BY <4>1
            <4>3. role[l[1]] = r
                BY <4>1, <4>2, ListOf
            <4>4. role[l[1]][1] = "full"
                BY <4>3
            <4> HIDE DEF l
            <4>6. l[1] \in Slabs
                BY <4>1, <4>2
            <4>8. Untracked[1] # "full"
                BY DEF Untracked
            <4>7. role[l[1]] # Untracked
                BY <4>4, <4>8
            <4>5. tracks
                BY <4>6, <4>4, <4>7 DEF Consistent
            <4> QED
                BY <4>5, <1>1
        <3> QED
            BY <3>1, <3>2, <1>1, <1>2
    <2> QED
        BY <2>1, <2>2, <2>3, <2>4, <2>5 DEF CountersAgree
<1> QED
    BY <1>3, <1>4, <1>5 DEF SoundMem

LEMMA DumpOK ==
    ASSUME Dumped
    PROVE  MemTypeOK /\ (Sound => SoundMem)
<1>1. PICK role \in [Slabs -> Places], obj \in [Objs -> States], tracks \in BOOLEAN :
          /\ Consistent(role, obj, tracks)
          /\ mem \in Variants(Memory(role, obj, tracks))
    BY DEF Dumped, Places, States
<1> DEFINE m == Memory(role, obj, tracks)
<1>5. IsMemory(m, role, obj, tracks)
    BY MemoryShape
<1>2. IsMemory(m, role, obj, tracks) /\ m \in Shape
    <2> HIDE DEF m
    <2> QED
        BY <1>5 DEF IsMemory
<1>3. FieldsOK(mem) /\ (mem.fault = NoRole /\ mem.missing = {} => mem = m)
    <2> HIDE DEF m
    <2>1. mem \in Variants(m)
        BY <1>1 DEF m
    <2> QED
        BY <1>2, <2>1, VariantOK
<1>4. mem = m => SoundMem
    <2> HIDE DEF m
    <2> QED
        BY <1>1, <1>2, MemorySound
<1> QED
    BY <1>3, <1>4 DEF MemTypeOK, Sound

-----------------------------------------------------------------------------
(* The lists a process_all call goes through.                                *)

SlabRole(c) == <<"cpu slab", c>>
PartRole(c) == <<"cpu partial", c>>
CpuWork(c) == <<"cpu", c>>
FreeWork == <<"free", 0>>
On(s, r) == \E k \in DOMAIN mem.list[r] : mem.list[r][k] = s
SlabsOf(c) == mem.list[SlabRole(c)]
PartOf(c) == mem.list[PartRole(c)]

-----------------------------------------------------------------------------
(* The process_all calls.                                                    *)

Works == ({"cpu"} \X Online) \cup {<<"free", 0>>} \cup NodeRoles
Frames == [level : Nat, fill : BOOLEAN, pc : {"begin", "load", "header", "role", "note"},
           work : Seq(Works), left : Seq(Slabs \X Roles), pages : Int,
           expected : Int, nr_free_objs : Int, nr_full_list : Int]

Ready(f) == /\ f.pc # "begin" => f.work # <<>>
            /\ f.pc \in {"header", "role", "note"} => f.left # <<>>
Calls == {f \in Frames : Ready(f)}

\* The CPUs come first, and each once.
WorkOK(f) == \A i, j \in DOMAIN f.work :
                 i < j /\ f.work[j][1] = "cpu" =>
                     f.work[i][1] = "cpu" /\ f.work[i] # f.work[j]

\* How many items of the list it is in the call is done with.
Offset(f) == Len(Items(Head(f.work))) - Len(f.left)
LeftOK(f) ==
    f.pc # "begin" =>
        /\ f.work # <<>> /\ Offset(f) >= 0
        /\ \A j \in DOMAIN f.left : f.left[j] = Items(Head(f.work))[Offset(f) + j]
        /\ f.pc # "load" => f.left # <<>>
\* What it has seen of the pages fields of a CPU's partial list.
PagesOK(f) ==
    f.pc # "begin" /\ Head(f.work)[1] = "cpu" =>
        LET c == Head(f.work)[2]
            n == Offset(f) - Len(SlabsOf(c))
        IN  IF n <= 0 THEN f.pages = -1 /\ f.expected = -1
            ELSE f.pages = Len(PartOf(c)) - n + 1 /\ f.expected = f.pages - 1
FrameOK(f) == WorkOK(f) /\ LeftOK(f) /\ PagesOK(f)

\* The CPUs it has still to turn to, and their slabs it has not come to.
Todo(f) == {c \in Online : \E i \in DOMAIN f.work :
                /\ f.work[i] = CpuWork(c) /\ (f.pc = "begin" \/ i > 1)}
InLeft(f, s) == /\ f.pc # "begin"
                /\ \E j \in DOMAIN f.left : f.left[j][1] = s /\ (f.pc = "load" \/ j > 1)
Unfiled(f, s) == InLeft(f, s) \/ \E c \in Todo(f) : s \in CpuSlabs(c)

CpusRead == \A c \in Online : mem.cpuFree[c] \subseteq Cached /\ CpuSlabs(c) \subseteq Known
NoCpuSlabs == \A c \in Online : CpuSlabs(c) = {}

Filling(f) ==
    /\ \A c \in Online \ Todo(f) : mem.cpuFree[c] \subseteq Cached
    /\ \A o \in Cached : cpu_freelists[o] \notin Todo(f)
    /\ \A c \in Online : \A s \in CpuSlabs(c) : s \in Known <=> ~Unfiled(f, s)
Outer(f) == FrameOK(f) /\ (IF f.fill THEN Filling(f) ELSE CpusRead)
Inner(f) == /\ FrameOK(f) /\ f.level = 0 /\ f.pc # "header" /\ f.pc # "role"
            /\ IF f.fill THEN NoCpuSlabs ELSE \A i \in DOMAIN f.work : f.work[i][1] # "cpu"

CallsOK ==
    /\ stack = <<>> => \/ CpusRead
                       \/ Known = {} /\ Cached = {} /\ ~processed
    /\ stack = <<>> /\ asked # NoObj => processed
    /\ \A f \in Calls : stack = <<f>> => Outer(f) /\ (f.pc = "role" => processed)
    /\ \A f, g \in Calls : stack = <<g, f>> =>
           Outer(f) /\ f.pc = "role" /\ Inner(g)

CacheTypeOK ==
    /\ MemTypeOK
    /\ cpu_slabs \in [Slabs -> CpuRoles \cup {NoRole}]
    /\ cpu_freelists \in [Objs -> Online \cup {Nobody}]
    /\ cpu_slabs_free \in Int /\ processed \in BOOLEAN
    /\ asked \in Objs \cup {NoObj}
    /\ stack \in Seq(Calls)
\* A cached object is on its CPU's freelist, in every dump.
CachedOK == \A o \in Cached : o \in mem.cpuFree[cpu_freelists[o]]

SoundInv == Sound => SoundMem /\ Len(stack) <= 2 /\ CallsOK /\ NoFalseAlarm
CacheInv == CacheTypeOK /\ CachedOK /\ InUseRight /\ SoundInv

-----------------------------------------------------------------------------
(* What the lists hold.                                                      *)

LEMMA Pairs ==
    ASSUME NEW A, NEW B, NEW r \in A \X B
    PROVE  r = <<r[1], r[2]>> /\ r[1] \in A /\ r[2] \in B
OBVIOUS

LEMMA RoleFacts ==
    /\ \A c \in Online : /\ SlabRole(c) \in CpuRoles /\ PartRole(c) \in CpuRoles
                         /\ SlabRole(c)[1] = "cpu slab" /\ SlabRole(c)[2] = c
                         /\ PartRole(c)[1] = "cpu partial" /\ PartRole(c)[2] = c
    /\ \A r \in CpuRoles : r[2] \in Online /\ (r = SlabRole(r[2]) \/ r = PartRole(r[2]))
    /\ \A r \in NodeRoles : r[1] \in {"partial", "full"} /\ r[2] \in Nodes
    /\ \A r \in CpuRoles : r \notin NodeRoles
    /\ Roles = CpuRoles \cup NodeRoles
<1>1. \A c \in Online : /\ SlabRole(c) \in CpuRoles /\ PartRole(c) \in CpuRoles
                        /\ SlabRole(c)[1] = "cpu slab" /\ SlabRole(c)[2] = c
                        /\ PartRole(c)[1] = "cpu partial" /\ PartRole(c)[2] = c
    BY DEF CpuRoles, SlabRole, PartRole
<1>2. ASSUME NEW r \in CpuRoles
      PROVE  r[2] \in Online /\ (r = SlabRole(r[2]) \/ r = PartRole(r[2]))
    <2>1. r = <<r[1], r[2]>> /\ r[2] \in Online /\ r[1] \in {"cpu slab", "cpu partial"}
        BY Pairs DEF CpuRoles
    <2>2. r[1] = "cpu slab" \/ r[1] = "cpu partial"
        BY <2>1
    <2> QED
        BY <2>1, <2>2 DEF SlabRole, PartRole
<1>3. \A r \in NodeRoles : r[1] \in {"partial", "full"} /\ r[2] \in Nodes
    BY DEF NodeRoles
<1>4. \A r \in CpuRoles : r \notin NodeRoles
    BY DEF CpuRoles, NodeRoles
<1> QED
    BY <1>1, <1>2, <1>3, <1>4 DEF Roles

LEMMA WorkFacts ==
    /\ \A c \in Online : CpuWork(c) \in Works /\ CpuWork(c)[1] = "cpu" /\ CpuWork(c)[2] = c
    /\ FreeWork \in Works /\ FreeWork[1] = "free"
    /\ \A r \in NodeRoles : r \in Works /\ r[1] # "cpu" /\ r[1] # "free"
    /\ \A w \in Works : \/ w[2] \in Online /\ w = CpuWork(w[2])
                        \/ w = FreeWork
                        \/ w \in NodeRoles
<1>1. \A c \in Online : CpuWork(c) \in Works /\ CpuWork(c)[1] = "cpu" /\ CpuWork(c)[2] = c
    BY DEF Works, CpuWork
<1>2. FreeWork \in Works /\ FreeWork[1] = "free"
    BY DEF Works, FreeWork
<1>3. \A r \in NodeRoles : r \in Works /\ r[1] # "cpu" /\ r[1] # "free"
    BY DEF Works, NodeRoles
<1>4. \A w \in Works : \/ w[2] \in Online /\ w = CpuWork(w[2])
                       \/ w = FreeWork
                       \/ w \in NodeRoles
    BY DEF Works, CpuWork, FreeWork
<1> QED
    BY <1>1, <1>2, <1>3, <1>4

LEMMA ListTypes ==
    ASSUME MemTypeOK, NEW r \in Roles
    PROVE  mem.list[r] \in Seq(Slabs)
BY DEF MemTypeOK, FieldsOK

LEMMA CpuItems ==
    ASSUME MemTypeOK, NEW c \in Online
    PROVE  /\ SlabsOf(c) \in Seq(Slabs) /\ PartOf(c) \in Seq(Slabs)
           /\ Items(CpuWork(c)) \in Seq(Slabs \X Roles)
           /\ Len(Items(CpuWork(c))) = Len(SlabsOf(c)) + Len(PartOf(c))
           /\ \A k \in 1..Len(Items(CpuWork(c))) :
                  /\ k <= Len(SlabsOf(c)) =>
                         Items(CpuWork(c))[k] = <<SlabsOf(c)[k], SlabRole(c)>>
                  /\ k > Len(SlabsOf(c)) =>
                         Items(CpuWork(c))[k] = <<PartOf(c)[k - Len(SlabsOf(c))], PartRole(c)>>
<1> DEFINE q == SlabRole(c)
           r == PartRole(c)
           l == SlabsOf(c)
           m == PartOf(c)
           a == [k \in 1..Len(l) |-> <<l[k], q>>]
           b == [k \in 1..Len(m) |-> <<m[k], r>>]
<1>1. l \in Seq(Slabs) /\ m \in Seq(Slabs) /\ q \in Roles /\ r \in Roles
    BY RoleFacts, ListTypes DEF SlabsOf, PartOf
<1>2. Items(CpuWork(c)) = a \o b
    <2>1. Items(<<"cpu", c>>) = [k \in 1..Len(mem.list[<<"cpu slab", c>>]) |->
                 <<mem.list[<<"cpu slab", c>>][k], <<"cpu slab", c>>>>]
          \o [k \in 1..Len(mem.list[<<"cpu partial", c>>]) |->
                 <<mem.list[<<"cpu partial", c>>][k], <<"cpu partial", c>>>>]
        BY DEF Items
    <2> QED
        BY <2>1 DEF CpuWork, SlabRole, PartRole, SlabsOf, PartOf
<1> HIDE DEF q, r, l, m
<1>3. a \in Seq(Slabs \X Roles) /\ Len(a) = Len(l)
    BY <1>1
<1>4. b \in Seq(Slabs \X Roles) /\ Len(b) = Len(m)
    BY <1>1
<1>5. /\ \A k \in 1..Len(l) : a[k] = <<l[k], q>>
      /\ \A k \in 1..Len(m) : b[k] = <<m[k], r>>
    OBVIOUS
<1> HIDE DEF a, b
<1>6. a \o b \in Seq(Slabs \X Roles) /\ Len(a \o b) = Len(l) + Len(m)
    <2>1. a \o b \in Seq(Slabs \X Roles) /\ Len(a \o b) = Len(a) + Len(b)
        BY <1>3, <1>4, ConcatProperties
    <2> QED
        BY <2>1, <1>3, <1>4
<1>7. ASSUME NEW k \in 1..Len(a \o b)
      PROVE  /\ k <= Len(l) => (a \o b)[k] = <<l[k], q>>
             /\ k > Len(l) => (a \o b)[k] = <<m[k - Len(l)], r>>
    <2>0. Len(l) \in Nat /\ Len(m) \in Nat
        BY <1>1
    <2>1. (a \o b)[k] = IF k <= Len(a) THEN a[k] ELSE b[k - Len(a)]
        BY <1>3, <1>4
    <2>2. k > Len(l) => k - Len(l) \in 1..Len(m)
        BY <2>0, <1>6
    <2>3. k <= Len(l) => k \in 1..Len(l)
        BY <2>0, <1>6
    <2>4. CASE k <= Len(l)
        BY <2>0, <2>1, <2>3, <2>4, <1>3, <1>5
    <2>5. CASE k > Len(l)
        BY <2>0, <2>1, <2>2, <2>5, <1>3, <1>5
    <2> QED
        BY <2>0, <2>4, <2>5
<1> QED
    BY <1>1, <1>2, <1>6, <1>7 DEF q, r, l, m

LEMMA NodeItems ==
    ASSUME MemTypeOK, NEW w \in NodeRoles
    PROVE  /\ mem.list[w] \in Seq(Slabs)
           /\ Items(w) \in Seq(Slabs \X Roles)
           /\ Len(Items(w)) = Len(mem.list[w])
           /\ \A k \in 1..Len(Items(w)) : Items(w)[k] = <<mem.list[w][k], w>>
<1> DEFINE l == mem.list[w]
<1>1. w \in Roles /\ l \in Seq(Slabs)
    BY RoleFacts, ListTypes
<1>2. w[1] # "cpu" /\ w[1] # "free"
    BY WorkFacts
<1>3. Items(w) = [k \in 1..Len(l) |-> <<l[k], w>>]
    BY <1>2 DEF Items
<1> HIDE DEF l
<1> QED
    BY <1>1, <1>3 DEF l

LEMMA FreeItems == Items(FreeWork) = <<>>
BY DEF Items, FreeWork

\* What any work has to go through is a sequence of slabs under roles.
LEMMA ItemTypes ==
    ASSUME MemTypeOK, NEW w \in Works
    PROVE  Items(w) \in Seq(Slabs \X Roles)
<1>1. <<>> \in Seq(Slabs \X Roles)
    OBVIOUS
<1> QED
    BY <1>1, WorkFacts, CpuItems, NodeItems, FreeItems

\* What a call has still to go through after a slab, and that it is just the rest of
\* the list unless a CPU's partial slabs are a circle.
LEMMA AfterTyped ==
    ASSUME MemTypeOK, NEW l \in Seq(Slabs \X Roles), l # <<>>
    PROVE  /\ After(l) \in Seq(Slabs \X Roles)
           /\ NoCircle => After(l) = Tail(l)
<1> DEFINE role == Head(l)[2]
           c == role[2]
           all == Items(CpuWork(c))
<1>1. Tail(l) \in Seq(Slabs \X Roles) /\ Head(l) \in Slabs \X Roles
    OBVIOUS
<1>2. role \in Roles
    BY <1>1, Pairs
<1>3. After(l) = IF role[1] = "cpu partial" /\ Len(l) = 1
                 THEN SubSeq(all, Len(all) - mem.round[c] + 1, Len(all)) ELSE Tail(l)
    BY DEF After, CpuWork
<1>4. CASE role[1] = "cpu partial" /\ Len(l) = 1
    <2>7. role \notin NodeRoles
        BY <1>4, RoleFacts
    <2>1. c \in Online
        BY <1>2, <2>7, RoleFacts
    <2> HIDE DEF role
    <2>2. /\ all \in Seq(Slabs \X Roles) /\ PartOf(c) \in Seq(Slabs)
          /\ SlabsOf(c) \in Seq(Slabs) /\ Len(all) = Len(SlabsOf(c)) + Len(PartOf(c))
        BY <2>1, CpuItems
    <2>3. mem.round[c] \in Nat /\ mem.round[c] <= Len(PartOf(c))
        BY <2>1 DEF MemTypeOK, FieldsOK, PartOf, PartRole
    <2> DEFINE n == Len(all)
               k == n - mem.round[c] + 1
    <2> HIDE DEF all, c
    <2>4. n \in Nat /\ k \in 1..(n + 1)
        BY <2>2, <2>3
    <2>5. SubSeq(all, k, n) \in Seq(Slabs \X Roles)
        <3>1. \A i \in k..n : i \in 1..Len(all)
            BY <2>4
        <3> HIDE DEF k, n
        <3> QED
            BY <2>2, <2>4, <3>1
    <2>6. ASSUME NoCircle PROVE After(l) = Tail(l)
        <3>1. mem.round[c] = 0
            BY <2>1, <2>6 DEF NoCircle
        <3>2. k = n + 1
            BY <3>1, <2>4
        <3>3. SubSeq(all, n + 1, n) = <<>>
            <4> HIDE DEF n
            <4> QED
                BY <2>4
        <3>4. Tail(l) = <<>>
            <4>1. l \in Seq(Slabs \X Roles) /\ Len(l) = 1
                BY <1>4
            <4>2. Tail(l) \in Seq(Slabs \X Roles) /\ Len(Tail(l)) = 0
                BY <4>1
            <4> QED
                BY <4>2, EmptySeq
        <3> QED
            BY <3>2, <3>3, <3>4, <1>3, <1>4
    <2> QED
        BY <2>5, <2>6, <1>3, <1>4
<1>5. CASE ~(role[1] = "cpu partial" /\ Len(l) = 1)
    BY <1>1, <1>3, <1>5
<1> QED
    BY <1>4, <1>5

LEMMA OnOnce ==
    ASSUME SoundMem, NEW s, NEW r \in Roles, NEW q \in Roles, On(s, r), On(s, q)
    PROVE  r = q
BY DEF SoundMem, ListsApart, On

LEMMA OnTyped ==
    ASSUME MemTypeOK, NEW r \in Roles, NEW s
    PROVE  Contains(mem.list[r], s) <=> On(s, r)
<1>1. DOMAIN mem.list[r] = 1..Len(mem.list[r])
    BY ListTypes
<1> QED
    BY <1>1 DEF Contains, On

LEMMA CpuSlabsOn ==
    ASSUME MemTypeOK, NEW c \in Online, NEW s
    PROVE  s \in CpuSlabs(c) <=> s \in Slabs /\ (On(s, SlabRole(c)) \/ On(s, PartRole(c)))
<1>1. /\ Contains(mem.list[SlabRole(c)], s) <=> On(s, SlabRole(c))
      /\ Contains(mem.list[PartRole(c)], s) <=> On(s, PartRole(c))
    BY RoleFacts, OnTyped
<1>2. s \in CpuSlabs(c) <=> s \in Slabs /\ \/ Contains(mem.list[SlabRole(c)], s)
                                           \/ Contains(mem.list[PartRole(c)], s)
    BY DEF CpuSlabs, SlabRole, PartRole
<1> QED
    BY <1>1, <1>2

\* The slabs of two CPUs are apart.
LEMMA CpuApart ==
    ASSUME SoundMem, MemTypeOK, NEW c \in Online, NEW d \in Online, NEW s,
           s \in CpuSlabs(c), s \in CpuSlabs(d)
    PROVE  c = d
<1>1. PICK r \in {SlabRole(c), PartRole(c)} : On(s, r)
    BY CpuSlabsOn
<1>2. PICK q \in {SlabRole(d), PartRole(d)} : On(s, q)
    BY CpuSlabsOn
<1>3. r \in Roles /\ q \in Roles /\ r[2] = c /\ q[2] = d
    BY <1>1, <1>2, RoleFacts
<1>4. r = q
    BY <1>1, <1>2, <1>3, OnOnce
<1> QED
    BY <1>3, <1>4

\* An item is a slab of the list and the list's role.
LEMMA ItemOn ==
    ASSUME MemTypeOK, NEW w \in Works, NEW k \in DOMAIN Items(w)
    PROVE  /\ Items(w)[k][1] \in Slabs /\ Items(w)[k][2] \in Roles
           /\ On(Items(w)[k][1], Items(w)[k][2])
           /\ w \in NodeRoles => Items(w)[k][2] = w
           /\ w \notin NodeRoles =>
                  /\ w[2] \in Online /\ w = CpuWork(w[2])
                  /\ Items(w)[k][2] \in {SlabRole(w[2]), PartRole(w[2])}
                  /\ Items(w)[k][1] \in CpuSlabs(w[2])
<1>0. Items(w) \in Seq(Slabs \X Roles)
    BY ItemTypes
<1>1. k \in 1..Len(Items(w)) /\ Items(w)[k] \in Slabs \X Roles
    BY <1>0
<1>2. Items(w)[k][1] \in Slabs /\ Items(w)[k][2] \in Roles
    BY <1>1, Pairs
<1>3. CASE w \in NodeRoles
    <2>1. /\ mem.list[w] \in Seq(Slabs) /\ Len(Items(w)) = Len(mem.list[w])
          /\ Items(w)[k] = <<mem.list[w][k], w>>
        BY <1>1, <1>3, NodeItems
    <2>2. k \in DOMAIN mem.list[w]
        BY <1>1, <2>1
    <2>3. Items(w)[k][1] = mem.list[w][k] /\ Items(w)[k][2] = w
        BY <2>1
    <2> QED
        BY <1>2, <1>3, <2>2, <2>3 DEF On
<1>4. CASE w \notin NodeRoles
    <2>1. w # FreeWork
        BY <1>1, FreeItems
    <2>2. w[2] \in Online /\ w = CpuWork(w[2])
        BY <2>1, <1>4, WorkFacts
    <2> DEFINE c == w[2]
               l == SlabsOf(c)
               m == PartOf(c)
    <2> HIDE DEF c
    <2>3. c \in Online /\ w = CpuWork(c)
        BY <2>2 DEF c
    <2>4. /\ l \in Seq(Slabs) /\ m \in Seq(Slabs) /\ Len(Items(w)) = Len(l) + Len(m)
          /\ k <= Len(l) => Items(w)[k] = <<l[k], SlabRole(c)>>
          /\ k > Len(l) => Items(w)[k] = <<m[k - Len(l)], PartRole(c)>>
        BY <1>1, <2>3, CpuItems
    <2>8. l = mem.list[SlabRole(c)] /\ m = mem.list[PartRole(c)]
        BY DEF SlabsOf, PartOf
    <2> HIDE DEF l, m
    <2>9. Len(l) \in Nat /\ Len(m) \in Nat /\ DOMAIN l = 1..Len(l) /\ DOMAIN m = 1..Len(m)
        BY <2>4
    <2>5. CASE k <= Len(l)
        <3>1. k \in DOMAIN l /\ Items(w)[k][1] = l[k] /\ Items(w)[k][2] = SlabRole(c)
            BY <2>4, <2>5, <2>9, <1>1
        <3>2. On(Items(w)[k][1], SlabRole(c))
            BY <3>1, <2>8 DEF On
        <3> QED
            BY <3>1, <3>2, <2>2, <1>2, <1>4, <2>3, CpuSlabsOn DEF c
    <2>6. CASE k > Len(l)
        <3>1. k - Len(l) \in DOMAIN m /\ Items(w)[k][1] = m[k - Len(l)]
              /\ Items(w)[k][2] = PartRole(c)
            BY <2>4, <2>6, <2>9, <1>1
        <3>2. On(Items(w)[k][1], PartRole(c))
            BY <3>1, <2>8 DEF On
        <3> QED
            BY <3>1, <3>2, <2>2, <1>2, <1>4, <2>3, CpuSlabsOn DEF c
    <2> QED
        BY <2>5, <2>6, <2>9, <1>1
<1> QED
    BY <1>3, <1>4

\* A CPU's items are its slabs.
LEMMA ItemEvery ==
    ASSUME MemTypeOK, NEW c \in Online, NEW s \in CpuSlabs(c)
    PROVE  \E k \in DOMAIN Items(CpuWork(c)) : Items(CpuWork(c))[k][1] = s
<1> DEFINE l == SlabsOf(c)
           m == PartOf(c)
           w == CpuWork(c)
<1>1. /\ l \in Seq(Slabs) /\ m \in Seq(Slabs) /\ Items(w) \in Seq(Slabs \X Roles)
      /\ Len(Items(w)) = Len(l) + Len(m)
      /\ \A k \in 1..Len(Items(w)) :
             /\ k <= Len(l) => Items(w)[k] = <<l[k], SlabRole(c)>>
             /\ k > Len(l) => Items(w)[k] = <<m[k - Len(l)], PartRole(c)>>
    BY CpuItems
<1>2. On(s, SlabRole(c)) \/ On(s, PartRole(c))
    BY CpuSlabsOn
<1>3. On(s, SlabRole(c)) => \E k \in DOMAIN l : l[k] = s
    BY DEF On, SlabsOf
<1>4. On(s, PartRole(c)) => \E k \in DOMAIN m : m[k] = s
    BY DEF On, PartOf
<1> HIDE DEF l, m, w
<1>5. /\ Len(l) \in Nat /\ Len(m) \in Nat /\ DOMAIN l = 1..Len(l) /\ DOMAIN m = 1..Len(m)
      /\ DOMAIN Items(w) = 1..Len(Items(w))
    BY <1>1
<1>6. ASSUME NEW k \in DOMAIN l, l[k] = s
      PROVE  \E i \in DOMAIN Items(w) : Items(w)[i][1] = s
    <2>1. k \in DOMAIN Items(w) /\ Items(w)[k] = <<l[k], SlabRole(c)>>
        BY <1>1, <1>5
    <2> QED
        BY <2>1, <1>6
<1>7. ASSUME NEW k \in DOMAIN m, m[k] = s
      PROVE  \E i \in DOMAIN Items(w) : Items(w)[i][1] = s
    <2>1. /\ Len(l) + k \in DOMAIN Items(w) /\ Len(l) + k > Len(l)
          /\ (Len(l) + k) - Len(l) = k
        BY <1>1, <1>5
    <2>2. Items(w)[Len(l) + k] = <<m[k], PartRole(c)>>
        BY <2>1, <1>1, <1>5
    <2> QED
        BY <2>1, <2>2, <1>7
<1> QED
    BY <1>2, <1>3, <1>4, <1>6, <1>7 DEF w

\* No slab comes twice in one list.
LEMMA ItemOnce ==
    ASSUME MemTypeOK, SoundMem, NEW w \in Works,
           NEW j \in DOMAIN Items(w), NEW k \in DOMAIN Items(w),
           Items(w)[j][1] = Items(w)[k][1]
    PROVE  j = k
<1>0. Items(w) \in Seq(Slabs \X Roles)
    BY ItemTypes
<1>1. j \in 1..Len(Items(w)) /\ k \in 1..Len(Items(w))
    BY <1>0
<1>2. Items(w)[j][2] = Items(w)[k][2]
    <2>1. /\ Items(w)[j][2] \in Roles /\ On(Items(w)[j][1], Items(w)[j][2])
          /\ Items(w)[k][2] \in Roles /\ On(Items(w)[k][1], Items(w)[k][2])
        BY ItemOn
    <2> QED
        BY <2>1, OnOnce
<1>3. \A r \in Roles : \A x, y \in DOMAIN mem.list[r] : mem.list[r][x] = mem.list[r][y] => x = y
    BY DEF SoundMem, ListsApart
<1>4. CASE w \in NodeRoles
    <2>1. /\ mem.list[w] \in Seq(Slabs) /\ Len(Items(w)) = Len(mem.list[w])
          /\ Items(w)[j] = <<mem.list[w][j], w>> /\ Items(w)[k] = <<mem.list[w][k], w>>
        BY <1>1, <1>4, NodeItems
    <2>2. /\ j \in DOMAIN mem.list[w] /\ k \in DOMAIN mem.list[w]
          /\ mem.list[w][j] = mem.list[w][k]
        BY <1>1, <2>1
    <2> QED
        BY <2>2, <1>3, <1>4, RoleFacts
<1>5. CASE w \notin NodeRoles
    <2>1. PICK c \in Online : w = CpuWork(c)
        BY <1>5, ItemOn
    <2> DEFINE l == SlabsOf(c)
               m == PartOf(c)
    <2>2. /\ l \in Seq(Slabs) /\ m \in Seq(Slabs) /\ Len(Items(w)) = Len(l) + Len(m)
          /\ \A i \in {j, k} : /\ i <= Len(l) => Items(w)[i] = <<l[i], SlabRole(c)>>
                               /\ i > Len(l) => Items(w)[i] = <<m[i - Len(l)], PartRole(c)>>
        BY <1>1, <2>1, CpuItems
    <2>3. /\ \A x, y \in DOMAIN l : l[x] = l[y] => x = y
          /\ \A x, y \in DOMAIN m : m[x] = m[y] => x = y
        BY <1>3, RoleFacts DEF SlabsOf, PartOf
    <2>4. SlabRole(c) # PartRole(c)
        BY RoleFacts
    <2> HIDE DEF l, m
    <2>5. /\ Len(l) \in Nat /\ Len(m) \in Nat /\ DOMAIN l = 1..Len(l) /\ DOMAIN m = 1..Len(m)
          /\ j \in Nat /\ k \in Nat
        BY <2>2, <1>1
    <2>6. CASE j <= Len(l) /\ k <= Len(l)
        <3>1. j \in DOMAIN l /\ k \in DOMAIN l /\ l[j] = l[k]
            BY <2>2, <2>5, <2>6, <1>1
        <3> QED
            BY <3>1, <2>3
    <2>7. CASE j > Len(l) /\ k > Len(l)
        <3>1. j - Len(l) \in DOMAIN m /\ k - Len(l) \in DOMAIN m
              /\ m[j - Len(l)] = m[k - Len(l)]
            BY <2>2, <2>5, <2>7, <1>1
        <3>2. j - Len(l) = k - Len(l)
            BY <3>1, <2>3
        <3> QED
            BY <3>2, <2>5
    <2>8. CASE (j <= Len(l)) # (k <= Len(l))
        <3>1. \/ Items(w)[j][2] = SlabRole(c) /\ Items(w)[k][2] = PartRole(c)
              \/ Items(w)[k][2] = SlabRole(c) /\ Items(w)[j][2] = PartRole(c)
            BY <2>2, <2>5, <2>8
        <3> QED
            BY <3>1, <2>4, <1>2
    <2> QED
        BY <2>5, <2>6, <2>7, <2>8
<1> QED
    BY <1>4, <1>5

\* The slabs of the nodes are not the CPUs'.
LEMMA NodeApart ==
    ASSUME MemTypeOK, SoundMem, NEW w \in NodeRoles, NEW k \in DOMAIN Items(w),
           NEW c \in Online
    PROVE  Items(w)[k][1] \notin CpuSlabs(c)
<1>1. w \in Works /\ w \in Roles
    BY WorkFacts, RoleFacts
<1>2. On(Items(w)[k][1], w)
    BY <1>1, ItemOn
<1>3. SlabRole(c) \in Roles /\ PartRole(c) \in Roles /\ SlabRole(c) # w /\ PartRole(c) # w
    BY RoleFacts
<1> QED
    BY <1>1, <1>2, <1>3, CpuSlabsOn, OnOnce

\* A CPU's free objects are in its slab.
LEMMA FreeHome ==
    ASSUME MemTypeOK, SoundMem, NEW c \in Online, NEW o \in mem.cpuFree[c]
    PROVE  /\ o \in Objs /\ o[1] \in Slabs /\ o \notin mem.pageFree[o[1]]
           /\ On(o[1], SlabRole(c)) /\ o[1] \in CpuSlabs(c)
<1>1. o \in Objs
    BY DEF MemTypeOK, FieldsOK
<1>2. o[1] \in Slabs
    BY <1>1 DEF Objs
<1>3. Contains(mem.list[SlabRole(c)], o[1]) /\ o \notin mem.pageFree[o[1]]
    BY DEF SoundMem, FreeApart, SlabRole
<1>4. On(o[1], SlabRole(c))
    BY <1>3, RoleFacts, OnTyped
<1> QED
    BY <1>1, <1>2, <1>3, <1>4, CpuSlabsOn

\* The pages fields of a CPU's partial list count down.
LEMMA PageItems ==
    ASSUME MemTypeOK, SoundMem, NEW c \in Online, NEW k \in DOMAIN Items(CpuWork(c)),
           k > Len(SlabsOf(c))
    PROVE  mem.pages[Items(CpuWork(c))[k][1]]
               = Len(PartOf(c)) - (k - Len(SlabsOf(c))) + 1
<1> DEFINE l == SlabsOf(c)
           m == PartOf(c)
           w == CpuWork(c)
<1>1. /\ l \in Seq(Slabs) /\ m \in Seq(Slabs) /\ Items(w) \in Seq(Slabs \X Roles)
      /\ Len(Items(w)) = Len(l) + Len(m)
      /\ \A i \in 1..Len(Items(w)) :
             i > Len(l) => Items(w)[i] = <<m[i - Len(l)], PartRole(c)>>
    BY CpuItems
<1>2. \A i \in DOMAIN m : mem.pages[m[i]] = Len(m) - i + 1
    BY DEF SoundMem, CountersAgree, PartOf, PartRole
<1>3. k \in DOMAIN Items(w) /\ k > Len(l)
    OBVIOUS
<1> HIDE DEF l, m, w
<1>4. k \in 1..Len(Items(w)) /\ k - Len(l) \in DOMAIN m
    BY <1>1, <1>3
<1>5. Items(w)[k][1] = m[k - Len(l)]
    BY <1>1, <1>3, <1>4
<1>6. mem.pages[Items(w)[k][1]] = Len(m) - (k - Len(l)) + 1
    BY <1>2, <1>4, <1>5
<1> QED
    BY <1>6 DEF l, m, w

-----------------------------------------------------------------------------
(* A process_all call moves on.  e is the call before a step, g after it.    *)

LEMMA HeadWork ==
    ASSUME NEW e \in Frames, e.work # <<>>
    PROVE  /\ e.work \in Seq(Works) /\ DOMAIN e.work = 1..Len(e.work) /\ Len(e.work) \in Nat
           /\ 1 \in DOMAIN e.work /\ Head(e.work) = e.work[1] /\ Head(e.work) \in Works
           /\ Tail(e.work) \in Seq(Works) /\ Len(Tail(e.work)) = Len(e.work) - 1
           /\ \A i \in 1..(Len(e.work) - 1) : Tail(e.work)[i] = e.work[i + 1]
<1>1. e.work \in Seq(Works)
    BY DEF Frames
<1> QED
    BY <1>1

LEMMA HeadLeft ==
    ASSUME NEW e \in Frames, e.left # <<>>
    PROVE  /\ e.left \in Seq(Slabs \X Roles) /\ DOMAIN e.left = 1..Len(e.left)
           /\ Len(e.left) \in Nat /\ 1 \in DOMAIN e.left
           /\ Head(e.left) = e.left[1] /\ Head(e.left) \in Slabs \X Roles
           /\ Head(e.left)[1] \in Slabs /\ Head(e.left)[2] \in Roles
           /\ Tail(e.left) \in Seq(Slabs \X Roles) /\ Len(Tail(e.left)) = Len(e.left) - 1
           /\ \A i \in 1..(Len(e.left) - 1) : Tail(e.left)[i] = e.left[i + 1]
<1>1. e.left \in Seq(Slabs \X Roles)
    BY DEF Frames
<1>2. Head(e.left) \in Slabs \X Roles
    BY <1>1
<1>3. Head(e.left)[1] \in Slabs /\ Head(e.left)[2] \in Roles
    BY <1>2, Pairs
<1> QED
    BY <1>1, <1>2, <1>3

\* The item a call looks at.
LEMMA HeadItem ==
    ASSUME MemTypeOK, NEW e \in Frames, LeftOK(e), e.pc # "begin", e.left # <<>>
    PROVE  /\ e.work # <<>> /\ Head(e.work) \in Works
           /\ Offset(e) + 1 \in DOMAIN Items(Head(e.work)) /\ Offset(e) \in Nat
           /\ Head(e.left) = Items(Head(e.work))[Offset(e) + 1]
<1> DEFINE w == Head(e.work)
<1>1. /\ e.work # <<>> /\ Offset(e) >= 0
      /\ \A j \in DOMAIN e.left : e.left[j] = Items(w)[Offset(e) + j]
    BY DEF LeftOK
<1>2. w \in Works /\ Items(w) \in Seq(Slabs \X Roles)
    BY <1>1, HeadWork, ItemTypes
<1>3. Offset(e) = Len(Items(w)) - Len(e.left)
    BY DEF Offset
<1>4. 1 \in DOMAIN e.left /\ Head(e.left) = e.left[1] /\ Len(e.left) \in Nat /\ Len(e.left) >= 1
    BY HeadLeft
<1> HIDE DEF w
<1>5. Len(Items(w)) \in Nat /\ DOMAIN Items(w) = 1..Len(Items(w))
    BY <1>2
<1>6. Offset(e) \in Nat /\ Offset(e) + 1 \in DOMAIN Items(w)
    BY <1>1, <1>3, <1>4, <1>5
<1>7. Head(e.left) = Items(w)[Offset(e) + 1]
    BY <1>1, <1>4
<1> QED
    BY <1>1, <1>2, <1>6, <1>7 DEF w

LEMMA UnfiledIs ==
    ASSUME MemTypeOK, SoundMem, NEW f, NEW c \in Online, NEW s \in CpuSlabs(c)
    PROVE  Unfiled(f, s) <=> InLeft(f, s) \/ c \in Todo(f)
<1>1. \A d \in Todo(f) : d \in Online /\ (s \in CpuSlabs(d) => d = c)
    BY CpuApart DEF Todo
<1> QED
    BY <1>1 DEF Unfiled

\* The call turns to a list.
LEMMA BeginMoves ==
    ASSUME MemTypeOK, SoundMem, NEW e \in Frames, NEW g \in Frames,
           FrameOK(e), e.pc = "begin", e.work # <<>>,
           g.pc = "load", g.work = e.work, g.left = Items(Head(e.work)),
           Head(e.work)[1] = "cpu" => g.pages = -1 /\ g.expected = -1
    PROVE  /\ FrameOK(g)
           /\ Todo(g) = Todo(e) \ {c \in Online : CpuWork(c) = Head(e.work)}
           /\ \A c \in Online : \A s \in CpuSlabs(c) : Unfiled(g, s) <=> Unfiled(e, s)
<1> DEFINE w == Head(e.work)
<1>1. w \in Works /\ w = e.work[1] /\ 1 \in DOMAIN e.work /\ DOMAIN e.work = 1..Len(e.work)
      /\ Len(e.work) \in Nat /\ e.work \in Seq(Works)
    BY HeadWork
<1>2. Items(w) \in Seq(Slabs \X Roles)
    BY <1>1, ItemTypes
<1>3. Len(Items(w)) \in Nat /\ DOMAIN Items(w) = 1..Len(Items(w))
    BY <1>2
<1>4. Offset(g) = 0
    BY <1>3 DEF Offset
<1>5. WorkOK(g)
    BY DEF FrameOK, WorkOK
<1>6. LeftOK(g)
    <2>1. \A j \in DOMAIN g.left : g.left[j] = Items(w)[Offset(g) + j]
        BY <1>3, <1>4
    <2> QED
        BY <2>1, <1>4 DEF LeftOK
<1>7. PagesOK(g)
    <2> SUFFICES ASSUME w[1] = "cpu"
                 PROVE  Offset(g) - Len(SlabsOf(w[2])) <= 0
        BY DEF PagesOK
    <2>1. w[2] \in Online
        BY <1>1, WorkFacts
    <2>2. Len(SlabsOf(w[2])) \in Nat
        BY <2>1, CpuItems
    <2> QED
        BY <2>2, <1>4
<1>8. \A i \in DOMAIN e.work : i > 1 /\ e.work[i][1] = "cpu" => w[1] = "cpu" /\ w # e.work[i]
    BY <1>1 DEF FrameOK, WorkOK
<1>9. ASSUME NEW c \in Online
      PROVE  /\ c \in Todo(e) <=> c \in Todo(g) \/ CpuWork(c) = w
             /\ ~(c \in Todo(g) /\ CpuWork(c) = w)
    <2>1. c \in Todo(e) <=> \E i \in DOMAIN e.work : e.work[i] = CpuWork(c)
        BY DEF Todo
    <2>2. c \in Todo(g) <=> \E i \in DOMAIN e.work : e.work[i] = CpuWork(c) /\ i > 1
        BY DEF Todo
    <2>3. CpuWork(c)[1] = "cpu"
        BY WorkFacts
    <2>4. \A i \in DOMAIN e.work : i = 1 \/ i > 1
        BY <1>1
    <2> HIDE DEF w
    <2> QED
        BY <2>1, <2>2, <2>3, <2>4, <1>1, <1>8
<1>10. Todo(g) = Todo(e) \ {c \in Online : CpuWork(c) = w}
    <2>1. Todo(g) \subseteq Online /\ Todo(e) \subseteq Online
        BY DEF Todo
    <2> HIDE DEF w
    <2> QED
        BY <1>9, <2>1
<1>11. ASSUME NEW c \in Online, NEW s \in CpuSlabs(c) PROVE Unfiled(g, s) <=> Unfiled(e, s)
    <2>1. ~InLeft(e, s)
        BY DEF InLeft
    <2>2. InLeft(g, s) <=> \E j \in DOMAIN Items(w) : Items(w)[j][1] = s
        BY DEF InLeft
    <2>3. CpuWork(c) = w => InLeft(g, s)
        BY <2>2, ItemEvery
    <2>4. InLeft(g, s) => CpuWork(c) = w
        <3> SUFFICES ASSUME NEW j \in DOMAIN Items(w), Items(w)[j][1] = s
                     PROVE  CpuWork(c) = w
            BY <2>2
        <3>1. w \notin NodeRoles
            BY NodeApart
        <3>2. w[2] \in Online /\ w = CpuWork(w[2]) /\ s \in CpuSlabs(w[2])
            BY <3>1, <1>1, ItemOn
        <3> QED
            BY <3>2, CpuApart
    <2> QED
        BY <2>1, <2>3, <2>4, <1>9, UnfiledIs
<1> QED
    BY <1>5, <1>6, <1>7, <1>10, <1>11 DEF FrameOK

\* The call leaves a list, or there was nothing to go through.
LEMMA TailMoves ==
    ASSUME MemTypeOK, SoundMem, NEW e \in Frames, NEW g \in Frames,
           FrameOK(e), e.work # <<>>, g.pc = "begin", g.work = Tail(e.work),
           \/ e.pc = "begin" /\ Head(e.work)[1] # "cpu"
           \/ e.pc = "load" /\ e.left = <<>>
    PROVE  /\ FrameOK(g) /\ Todo(g) = Todo(e)
           /\ \A c \in Online : \A s \in CpuSlabs(c) : Unfiled(g, s) <=> Unfiled(e, s)
           /\ \A i \in DOMAIN g.work : \E j \in DOMAIN e.work : g.work[i] = e.work[j]
<1>1. /\ e.work \in Seq(Works) /\ DOMAIN e.work = 1..Len(e.work) /\ Len(e.work) \in Nat
      /\ Head(e.work) = e.work[1] /\ g.work \in Seq(Works) /\ Len(g.work) = Len(e.work) - 1
      /\ \A i \in 1..(Len(e.work) - 1) : g.work[i] = e.work[i + 1]
    BY HeadWork
<1>2. DOMAIN g.work = 1..(Len(e.work) - 1)
    BY <1>1
<1>3. \A i \in DOMAIN g.work : i + 1 \in DOMAIN e.work /\ g.work[i] = e.work[i + 1]
    BY <1>1, <1>2
<1>4. WorkOK(g)
    <2> SUFFICES ASSUME NEW i \in DOMAIN g.work, NEW j \in DOMAIN g.work,
                        i < j, g.work[j][1] = "cpu"
                 PROVE  g.work[i][1] = "cpu" /\ g.work[i] # g.work[j]
        BY DEF WorkOK
    <2>1. i + 1 < j + 1 /\ i + 1 \in DOMAIN e.work /\ j + 1 \in DOMAIN e.work
          /\ g.work[i] = e.work[i + 1] /\ g.work[j] = e.work[j + 1]
        BY <1>2, <1>3
    <2> QED
        BY <2>1 DEF FrameOK, WorkOK
<1>5. FrameOK(g)
    BY <1>4 DEF FrameOK, LeftOK, PagesOK
<1>6. ASSUME NEW c \in Online PROVE c \in Todo(g) <=> c \in Todo(e)
    <2>1. c \in Todo(g) <=> \E i \in DOMAIN g.work : g.work[i] = CpuWork(c)
        BY DEF Todo
    <2>2. c \in Todo(e) <=> \E i \in DOMAIN e.work : e.work[i] = CpuWork(c) /\ i > 1
        <3>1. CASE e.pc = "begin"
            <4>1. e.work[1] # CpuWork(c)
                BY <3>1, <1>1, WorkFacts
            <4>2. c \in Todo(e) <=> \E i \in DOMAIN e.work : e.work[i] = CpuWork(c)
                BY <3>1 DEF Todo
            <4> QED
                BY <4>1, <4>2, <1>1
        <3>2. CASE e.pc = "load"
            BY <3>2 DEF Todo
        <3> QED
            BY <3>1, <3>2
    <2>3. ASSUME NEW i \in DOMAIN e.work, i > 1
          PROVE  i - 1 \in DOMAIN g.work /\ g.work[i - 1] = e.work[i]
        BY <2>3, <1>1, <1>2, <1>3
    <2>4. \A i \in DOMAIN g.work : i + 1 > 1
        BY <1>2
    <2> QED
        BY <2>1, <2>2, <2>3, <2>4, <1>3
<1>7. Todo(g) = Todo(e)
    <2>1. Todo(g) \subseteq Online /\ Todo(e) \subseteq Online
        BY DEF Todo
    <2> QED
        BY <2>1, <1>6
<1>8. ASSUME NEW s PROVE ~InLeft(e, s) /\ ~InLeft(g, s)
    BY DEF InLeft
<1>9. \A c \in Online : \A s \in CpuSlabs(c) : Unfiled(g, s) <=> Unfiled(e, s)
    BY <1>7, <1>8, UnfiledIs
<1> QED
    BY <1>3, <1>5, <1>7, <1>9

\* The call looks at the next slab.
LEMMA LoadMoves ==
    ASSUME MemTypeOK, SoundMem, NEW e \in Frames, NEW g \in Frames,
           FrameOK(e), e.pc = "load", e.left # <<>>, g.pc \in {"header", "role", "note"},
           g.work = e.work, g.left = e.left, g.pages = e.pages, g.expected = e.expected
    PROVE  /\ FrameOK(g) /\ Todo(g) = Todo(e)
           /\ \A c \in Online : \A s \in CpuSlabs(c) :
                  Unfiled(g, s) <=> Unfiled(e, s) /\ s # Head(e.left)[1]
<1>1. Offset(g) = Offset(e)
    BY DEF Offset
<1>2. FrameOK(g)
    BY <1>1 DEF FrameOK, WorkOK, LeftOK, PagesOK
<1>3. Todo(g) = Todo(e)
    BY DEF Todo
<1> DEFINE w == Head(e.work)
<1>4. /\ e.work # <<>> /\ w \in Works
      /\ Offset(e) + 1 \in DOMAIN Items(w) /\ Offset(e) \in Nat
      /\ Head(e.left) = Items(w)[Offset(e) + 1]
      /\ \A j \in DOMAIN e.left : e.left[j] = Items(w)[Offset(e) + j]
    <2>1. LeftOK(e)
        BY DEF FrameOK
    <2>2. \A j \in DOMAIN e.left : e.left[j] = Items(w)[Offset(e) + j]
        BY <2>1 DEF LeftOK
    <2> QED
        BY <2>1, <2>2, HeadItem
<1>5. /\ DOMAIN e.left = 1..Len(e.left) /\ Len(e.left) \in Nat /\ 1 \in DOMAIN e.left
      /\ Head(e.left) = e.left[1]
    BY HeadLeft
<1>6. Items(w) \in Seq(Slabs \X Roles) /\ Offset(e) = Len(Items(w)) - Len(e.left)
    BY <1>4, ItemTypes DEF Offset
<1> HIDE DEF w
<1>7. \A j \in DOMAIN e.left : Offset(e) + j \in DOMAIN Items(w)
    BY <1>4, <1>5, <1>6
<1>8. ASSUME NEW j \in DOMAIN e.left, e.left[j][1] = Head(e.left)[1] PROVE j = 1
    <2>1. Offset(e) + j = Offset(e) + 1
        BY <1>4, <1>7, <1>8, ItemOnce
    <2> QED
        BY <2>1, <1>4, <1>5
<1>9. ASSUME NEW s PROVE InLeft(g, s) <=> InLeft(e, s) /\ s # Head(e.left)[1]
    <2>1. InLeft(e, s) <=> \E j \in DOMAIN e.left : e.left[j][1] = s
        BY DEF InLeft
    <2>2. InLeft(g, s) <=> \E j \in DOMAIN e.left : e.left[j][1] = s /\ j > 1
        BY DEF InLeft
    <2>3. \A j \in DOMAIN e.left : j = 1 \/ j > 1
        BY <1>5
    <2>4. ~(1 > 1)
        OBVIOUS
    <2> QED
        BY <2>1, <2>2, <2>3, <2>4, <1>5, <1>8
<1>10. ASSUME NEW c \in Todo(e), NEW s \in CpuSlabs(c) PROVE s # Head(e.left)[1]
    <2> SUFFICES ASSUME s = Head(e.left)[1] PROVE FALSE
        OBVIOUS
    <2>0. c \in Online
        BY DEF Todo
    <2>1. w \notin NodeRoles
        BY <1>4, <2>0, NodeApart
    <2>2. w[2] \in Online /\ w = CpuWork(w[2]) /\ s \in CpuSlabs(w[2])
        BY <2>1, <1>4, ItemOn
    <2>3. w = CpuWork(c)
        BY <2>0, <2>2, CpuApart
    <2>4. PICK i \in DOMAIN e.work : e.work[i] = CpuWork(c) /\ i > 1
        BY DEF Todo
    <2>5. w = e.work[1] /\ 1 \in DOMAIN e.work /\ DOMAIN e.work = 1..Len(e.work)
        BY <1>4, HeadWork DEF w
    <2>6. e.work[i][1] = "cpu"
        BY <2>0, <2>4, WorkFacts
    <2> QED
        BY <2>3, <2>4, <2>5, <2>6 DEF FrameOK, WorkOK
<1>11. ASSUME NEW c \in Online, NEW s \in CpuSlabs(c)
       PROVE  Unfiled(g, s) <=> Unfiled(e, s) /\ s # Head(e.left)[1]
    BY <1>3, <1>9, <1>10, UnfiledIs
<1> QED
    BY <1>2, <1>3, <1>11

\* The header is being printed.
LEMMA HeaderMoves ==
    ASSUME MemTypeOK, NEW e \in Frames, NEW g \in Frames,
           FrameOK(e), e.pc \in {"header", "role"}, g.pc \in {"role", "note"},
           g.work = e.work, g.left = e.left, g.pages = e.pages, g.expected = e.expected
    PROVE  FrameOK(g) /\ Todo(g) = Todo(e) /\ \A s : Unfiled(g, s) <=> Unfiled(e, s)
<1>1. Offset(g) = Offset(e)
    BY DEF Offset
<1>2. FrameOK(g)
    BY <1>1 DEF FrameOK, WorkOK, LeftOK, PagesOK
<1>3. Todo(g) = Todo(e)
    BY DEF Todo
<1>4. \A s : InLeft(g, s) <=> InLeft(e, s)
    BY DEF InLeft
<1> QED
    BY <1>2, <1>3, <1>4 DEF Unfiled

\* The item a call looks at says what it is in.
LEMMA ItemKind ==
    ASSUME MemTypeOK, NEW c \in Online, NEW k \in DOMAIN Items(CpuWork(c))
    PROVE  Items(CpuWork(c))[k][2][1] = "cpu partial" <=> k > Len(SlabsOf(c))
<1> DEFINE w == CpuWork(c)
<1>1. /\ SlabsOf(c) \in Seq(Slabs) /\ Items(w) \in Seq(Slabs \X Roles)
      /\ \A i \in 1..Len(Items(w)) :
             /\ i <= Len(SlabsOf(c)) => Items(w)[i] = <<SlabsOf(c)[i], SlabRole(c)>>
             /\ i > Len(SlabsOf(c)) =>
                    Items(w)[i] = <<PartOf(c)[i - Len(SlabsOf(c))], PartRole(c)>>
    BY CpuItems
<1> HIDE DEF w
<1>2. k \in DOMAIN Items(w)
    BY DEF w
<1>3. k \in 1..Len(Items(w)) /\ Len(SlabsOf(c)) \in Nat
    BY <1>1, <1>2
<1>4. k <= Len(SlabsOf(c)) => Items(w)[k][2] = SlabRole(c)
    BY <1>1, <1>3
<1>5. k > Len(SlabsOf(c)) => Items(w)[k][2] = PartRole(c)
    BY <1>1, <1>3
<1>6. SlabRole(c)[1] = "cpu slab" /\ PartRole(c)[1] = "cpu partial"
    BY RoleFacts
<1>7. k <= Len(SlabsOf(c)) \/ k > Len(SlabsOf(c))
    BY <1>3
<1>8. k <= Len(SlabsOf(c)) => ~(k > Len(SlabsOf(c)))
    BY <1>3
<1> QED
    BY <1>4, <1>5, <1>6, <1>7, <1>8 DEF w

PagesNoted(e, g) ==
    IF Head(e.left)[2][1] = "cpu partial"
    THEN /\ g.pages = mem.pages[Head(e.left)[1]]
         /\ g.expected = mem.pages[Head(e.left)[1]] - 1
    ELSE g.pages = e.pages /\ g.expected = e.expected

\* The call is done with a slab.
LEMMA NoteMoves ==
    ASSUME MemTypeOK, SoundMem, NEW e \in Frames, NEW g \in Frames,
           FrameOK(e), e.pc = "note", g.pc = "load",
           g.work = e.work, g.left = Tail(e.left), PagesNoted(e, g)
    PROVE  FrameOK(g) /\ Todo(g) = Todo(e) /\ \A s : Unfiled(g, s) <=> Unfiled(e, s)
<1> DEFINE w == Head(e.work)
<1>0. LeftOK(e) /\ e.left # <<>>
    BY DEF FrameOK, LeftOK
<1>1. /\ e.work # <<>> /\ w \in Works
      /\ Offset(e) + 1 \in DOMAIN Items(w) /\ Offset(e) \in Nat
      /\ Head(e.left) = Items(w)[Offset(e) + 1]
    BY <1>0, HeadItem
<1>2. \A j \in DOMAIN e.left : e.left[j] = Items(w)[Offset(e) + j]
    BY <1>0 DEF LeftOK
<1>3. /\ DOMAIN e.left = 1..Len(e.left) /\ Len(e.left) \in Nat /\ 1 \in DOMAIN e.left
      /\ g.left \in Seq(Slabs \X Roles) /\ Len(g.left) = Len(e.left) - 1
      /\ \A i \in 1..(Len(e.left) - 1) : g.left[i] = e.left[i + 1]
    BY <1>0, HeadLeft
<1>4. DOMAIN g.left = 1..(Len(e.left) - 1)
    BY <1>3
<1>5. Items(w) \in Seq(Slabs \X Roles)
    BY <1>1, ItemTypes
<1>6. Offset(e) = Len(Items(w)) - Len(e.left) /\ Offset(g) = Len(Items(w)) - Len(g.left)
    BY DEF Offset
<1>7. Offset(g) = Offset(e) + 1
    <2>1. Len(Items(w)) \in Nat
        BY <1>5
    <2> QED
        BY <2>1, <1>3, <1>6
<1>8. WorkOK(g)
    BY DEF FrameOK, WorkOK
<1>9. LeftOK(g)
    <2>1. ASSUME NEW j \in DOMAIN g.left PROVE g.left[j] = Items(w)[Offset(g) + j]
        <3>1. j + 1 \in DOMAIN e.left /\ g.left[j] = e.left[j + 1]
            BY <1>3, <1>4
        <3>2. Offset(e) + (j + 1) = Offset(g) + j
            BY <1>1, <1>4, <1>7
        <3> QED
            BY <3>1, <3>2, <1>2
    <2>2. Offset(g) >= 0
        BY <1>1, <1>7
    <2> QED
        BY <2>1, <2>2, <1>1 DEF LeftOK
<1>10. PagesOK(g)
    <2> SUFFICES ASSUME w[1] = "cpu" PROVE PagesOK(g)
        BY DEF PagesOK
    <2> DEFINE c == w[2]
               n == Offset(e) - Len(SlabsOf(c))
               p == Len(PartOf(c))
    <2>1. c \in Online /\ w = CpuWork(c)
        BY <1>1, WorkFacts
    <2>2. Len(SlabsOf(c)) \in Nat /\ p \in Nat
        BY <2>1, CpuItems
    <2>3. Head(e.left)[2][1] = "cpu partial" <=> Offset(e) + 1 > Len(SlabsOf(c))
        <3> HIDE DEF c
        <3> QED
            BY <2>1, <1>1, ItemKind
    <2>4. n \in Int /\ (Offset(e) + 1 > Len(SlabsOf(c)) <=> n + 1 > 0)
          /\ Offset(g) - Len(SlabsOf(c)) = n + 1
        BY <2>2, <1>1, <1>7
    <2>5. n <= 0 => e.pages = -1 /\ e.expected = -1
        BY DEF FrameOK, PagesOK
    <2>6. PagesOK(g) <=> IF n + 1 <= 0 THEN g.pages = -1 /\ g.expected = -1
                         ELSE g.pages = p - (n + 1) + 1 /\ g.expected = g.pages - 1
        BY <2>4 DEF PagesOK
    <2>7. CASE n + 1 <= 0
        <3>1. n <= 0 /\ ~(n + 1 > 0)
            BY <2>4, <2>7
        <3>2. g.pages = -1 /\ g.expected = -1
            BY <3>1, <2>3, <2>4, <2>5 DEF PagesNoted
        <3> QED
            BY <2>6, <2>7, <3>2
    <2>8. CASE n + 1 > 0
        <3>1. Head(e.left)[2][1] = "cpu partial"
            BY <2>3, <2>4, <2>8
        <3>2. mem.pages[Head(e.left)[1]] = p - ((Offset(e) + 1) - Len(SlabsOf(c))) + 1
            <4> HIDE DEF c
            <4>1. Offset(e) + 1 > Len(SlabsOf(c))
                BY <2>4, <2>8
            <4> QED
                BY <4>1, <2>1, <1>1, PageItems
        <3>3. (Offset(e) + 1) - Len(SlabsOf(c)) = n + 1
            BY <2>2, <1>1
        <3>6. g.pages = mem.pages[Head(e.left)[1]]
              /\ g.expected = mem.pages[Head(e.left)[1]] - 1
            BY <3>1 DEF PagesNoted
        <3>4. g.pages = p - (n + 1) + 1 /\ g.expected = g.pages - 1
            BY <3>2, <3>3, <3>6
        <3>5. ~(n + 1 <= 0)
            BY <2>4, <2>8
        <3> QED
            BY <2>6, <3>4, <3>5
    <2> QED
        BY <2>4, <2>7, <2>8
<1>11. Todo(g) = Todo(e)
    BY DEF Todo
<1>12. ASSUME NEW s PROVE InLeft(g, s) <=> InLeft(e, s)
    <2>1. InLeft(g, s) <=> \E j \in DOMAIN g.left : g.left[j][1] = s
        BY DEF InLeft
    <2>2. InLeft(e, s) <=> \E j \in DOMAIN e.left : e.left[j][1] = s /\ j > 1
        BY DEF InLeft
    <2>3. \A j \in DOMAIN g.left : j + 1 \in DOMAIN e.left /\ j + 1 > 1 /\ g.left[j] = e.left[j + 1]
        BY <1>3, <1>4
    <2>4. ASSUME NEW j \in DOMAIN e.left, j > 1
          PROVE  j - 1 \in DOMAIN g.left /\ g.left[j - 1] = e.left[j]
        <3>1. j - 1 \in 1..(Len(e.left) - 1) /\ (j - 1) + 1 = j
            BY <1>3, <2>4
        <3> QED
            BY <3>1, <1>3, <1>4
    <2> QED
        BY <2>1, <2>2, <2>3, <2>4
<1> QED
    BY <1>8, <1>9, <1>10, <1>11, <1>12 DEF FrameOK, Unfiled

-----------------------------------------------------------------------------
(* A new process_all call.                                                   *)

LEMMA NodeWorkOK == NodeWork \in Seq(NodeRoles)
<1> DEFINE n == Cardinality(Nodes)
           q == InOrder(Nodes)
<1>1. n \in Nat /\ q \in Seq(Nodes) /\ Len(q) = n
    BY SlubAssumption, FS_CardinalityType, Listed
<1>2. NodeWork = [k \in 1..(2 * n) |->
                     <<IF k % 2 = 1 THEN "partial" ELSE "full", q[(k + 1) \div 2]>>]
    BY DEF NodeWork
<1> HIDE DEF n, q
<1>3. ASSUME NEW k \in 1..(2 * n) PROVE NodeWork[k] \in NodeRoles
    <2>1. (k + 1) \div 2 \in 1..n
        BY <1>1
    <2>2. q[(k + 1) \div 2] \in Nodes
        BY <2>1, <1>1
    <2>3. (IF k % 2 = 1 THEN "partial" ELSE "full") \in {"partial", "full"}
        OBVIOUS
    <2>4. NodeWork[k] = <<IF k % 2 = 1 THEN "partial" ELSE "full", q[(k + 1) \div 2]>>
        BY <1>2
    <2> QED
        BY <2>2, <2>3, <2>4 DEF NodeRoles
<1>4. 2 * n \in Nat
    BY <1>1
<1>5. NodeWork \in [1..(2 * n) -> NodeRoles]
    BY <1>2, <1>3
<1> QED
    BY <1>4, <1>5

LEMMA NewCall ==
    ASSUME NEW level \in Nat
    PROVE  /\ ProcessAll(level) \in Frames /\ ProcessAll(level).level = level
           /\ ProcessAll(level).pc = "begin" /\ ProcessAll(level).fill = (Known = {})
           /\ FrameOK(ProcessAll(level))
           /\ Known = {} => Todo(ProcessAll(level)) = Online
           /\ Known # {} /\ level = 0 =>
                  \A i \in DOMAIN ProcessAll(level).work : ProcessAll(level).work[i][1] # "cpu"
<1> DEFINE cpus == IF ~(Known = {}) /\ level = 0 THEN <<>> ELSE InOrder(Online)
           a == [k \in 1..Len(cpus) |-> <<"cpu", cpus[k]>>]
           b == <<<<"free", 0>>>>
           f == ProcessAll(level)
           blank == Known = {}
<1>1. /\ InOrder(Online) \in Seq(Online)
      /\ \A i, j \in 1..Len(InOrder(Online)) :
             i < j => InOrder(Online)[i] < InOrder(Online)[j]
      /\ \A x \in Online : \E i \in 1..Len(InOrder(Online)) : InOrder(Online)[i] = x
    BY SlubAssumption, Listed
<1>2. /\ cpus \in Seq(Online)
      /\ \A i, j \in 1..Len(cpus) : i < j => cpus[i] < cpus[j]
    BY <1>1
<1>3. /\ f.work = a \o b \o NodeWork /\ f.left = <<>> /\ f.pages = -1 /\ f.expected = -1
      /\ f.nr_free_objs = 0 /\ f.nr_full_list = 0
      /\ f.level = level /\ f.pc = "begin" /\ f.fill = (Known = {})
      /\ f = [level |-> level, fill |-> blank, pc |-> "begin", work |-> f.work,
              left |-> <<>>, pages |-> -1, expected |-> -1,
              nr_free_objs |-> 0, nr_full_list |-> 0]
    BY DEF ProcessAll
<1>4. Known = {} => cpus = InOrder(Online)
    OBVIOUS
<1>5. Known # {} /\ level = 0 => cpus = <<>>
    OBVIOUS
<1> HIDE DEF cpus, f
<1>6. Len(cpus) \in Nat /\ \A k \in 1..Len(cpus) : cpus[k] \in Online
    BY <1>2
<1>7. a \in Seq(Works) /\ Len(a) = Len(cpus) /\ \A k \in 1..Len(cpus) : a[k] = CpuWork(cpus[k])
    <2>1. \A k \in 1..Len(cpus) : a[k] = CpuWork(cpus[k])
        BY DEF CpuWork
    <2>2. \A k \in 1..Len(cpus) : a[k] \in Works
        <3> HIDE DEF a
        <3> QED
            BY <2>1, <1>6, WorkFacts
    <2>3. a = [k \in 1..Len(cpus) |-> a[k]]
        OBVIOUS
    <2> HIDE DEF a
    <2>4. a \in [1..Len(cpus) -> Works]
        BY <2>2, <2>3
    <2> QED
        BY <2>1, <2>4, <1>6
<1>8. b \in Seq(Works) /\ Len(b) = 1 /\ b[1] = FreeWork
    BY WorkFacts DEF FreeWork
<1>9. NodeWork \in Seq(Works) /\ Len(NodeWork) \in Nat
      /\ \A k \in 1..Len(NodeWork) : NodeWork[k] \in NodeRoles
    BY NodeWorkOK, WorkFacts
<1> HIDE DEF a, b
<1>10. a \o b \in Seq(Works) /\ Len(a \o b) = Len(cpus) + 1
       /\ \A k \in 1..(Len(cpus) + 1) :
              (a \o b)[k] = IF k <= Len(cpus) THEN a[k] ELSE b[k - Len(cpus)]
    <2>1. a \o b \in Seq(Works) /\ Len(a \o b) = Len(a) + Len(b)
          /\ \A k \in 1..(Len(a) + Len(b)) :
              (a \o b)[k] = IF k <= Len(a) THEN a[k] ELSE b[k - Len(a)]
        BY <1>7, <1>8, ConcatProperties
    <2> QED
        BY <2>1, <1>7, <1>8
<1> DEFINE ab == a \o b
<1> HIDE DEF ab
<1>11. /\ f.work \in Seq(Works) /\ Len(f.work) = Len(ab) + Len(NodeWork)
       /\ \A k \in 1..(Len(ab) + Len(NodeWork)) :
              f.work[k] = IF k <= Len(ab) THEN ab[k] ELSE NodeWork[k - Len(ab)]
    <2>1. f.work = ab \o NodeWork /\ ab \in Seq(Works)
        BY <1>3, <1>10 DEF ab
    <2> QED
        BY <2>1, <1>9, ConcatProperties
<1>12. Len(ab) = Len(cpus) + 1
    BY <1>10 DEF ab
<1>13. DOMAIN f.work = 1..(Len(cpus) + 1 + Len(NodeWork))
    BY <1>6, <1>9, <1>11, <1>12
<1>14. \A k \in 1..Len(cpus) : k \in DOMAIN f.work /\ f.work[k] = CpuWork(cpus[k])
    <2> TAKE k \in 1..Len(cpus)
    <2>1. k \in 1..(Len(cpus) + 1) /\ k <= Len(cpus) /\ k <= Len(ab) /\ k \in DOMAIN f.work
          /\ k \in 1..(Len(ab) + Len(NodeWork))
        BY <1>6, <1>9, <1>12, <1>13
    <2>2. f.work[k] = ab[k]
        BY <2>1, <1>11
    <2>3. ab[k] = a[k]
        BY <2>1, <1>10 DEF ab
    <2> QED
        BY <2>1, <2>2, <2>3, <1>7
<1>15. ASSUME NEW k \in DOMAIN f.work, k > Len(cpus) PROVE f.work[k][1] # "cpu"
    <2>1. CASE k = Len(cpus) + 1
        <3>1. k \in 1..(Len(cpus) + 1) /\ ~(k <= Len(cpus)) /\ k <= Len(ab) /\ k - Len(cpus) = 1
              /\ k \in 1..(Len(ab) + Len(NodeWork))
            BY <2>1, <1>6, <1>9, <1>12
        <3>2. f.work[k] = ab[k]
            BY <3>1, <1>11
        <3>3. ab[k] = b[1]
            BY <3>1, <1>10 DEF ab
        <3> QED
            BY <3>2, <3>3, <1>8, WorkFacts
    <2>2. CASE k # Len(cpus) + 1
        <3>1. ~(k <= Len(ab)) /\ k - Len(ab) \in 1..Len(NodeWork)
              /\ k \in 1..(Len(ab) + Len(NodeWork))
            BY <2>2, <1>6, <1>9, <1>12, <1>13, <1>15
        <3>2. f.work[k] = NodeWork[k - Len(ab)]
            BY <3>1, <1>11
        <3> QED
            BY <3>1, <3>2, <1>9, WorkFacts
    <2> QED
        BY <2>1, <2>2
<1>16. f \in Frames
    <2>1. <<>> \in Seq(Slabs \X Roles) /\ -1 \in Int
        OBVIOUS
    <2>2. blank \in BOOLEAN
        OBVIOUS
    <2> DEFINE W == f.work
    <2>3. /\ W \in Seq(Works)
          /\ f = [level |-> level, fill |-> blank, pc |-> "begin", work |-> W,
                  left |-> <<>>, pages |-> -1, expected |-> -1,
                  nr_free_objs |-> 0, nr_full_list |-> 0]
        BY <1>3, <1>11
    <2> HIDE DEF blank, W
    <2> QED
        BY <2>1, <2>2, <2>3 DEF Frames
<1>17. WorkOK(f)
    <2> SUFFICES ASSUME NEW i \in DOMAIN f.work, NEW j \in DOMAIN f.work,
                        i < j, f.work[j][1] = "cpu"
                 PROVE  f.work[i][1] = "cpu" /\ f.work[i] # f.work[j]
        BY DEF WorkOK
    <2>1. j <= Len(cpus)
        BY <1>6, <1>13, <1>15
    <2>2. i \in 1..Len(cpus) /\ j \in 1..Len(cpus)
        BY <2>1, <1>6, <1>13
    <2>3. cpus[i] < cpus[j] /\ cpus[i] \in Online /\ cpus[j] \in Online
        BY <2>2, <1>2, <1>6
    <2>4. cpus[i] # cpus[j]
        <3>1. cpus[i] \in Nat /\ cpus[j] \in Nat
            BY <2>3, SlubAssumption
        <3> QED
            BY <3>1, <2>3
    <2>5. f.work[i] = CpuWork(cpus[i]) /\ f.work[j] = CpuWork(cpus[j])
        BY <2>2, <1>14
    <2> QED
        BY <2>3, <2>4, <2>5, WorkFacts
<1>18. FrameOK(f)
    BY <1>3, <1>17 DEF FrameOK, LeftOK, PagesOK
<1>19. Known = {} => Todo(f) = Online
    <2> SUFFICES ASSUME Known = {}, NEW c \in Online PROVE c \in Todo(f)
        BY DEF Todo
    <2>1. PICK i \in 1..Len(cpus) : cpus[i] = c
        BY <1>1, <1>4
    <2> QED
        BY <2>1, <1>14, <1>3 DEF Todo
<1>20. Known # {} /\ level = 0 => \A i \in DOMAIN f.work : f.work[i][1] # "cpu"
    <2> SUFFICES ASSUME Known # {}, level = 0, NEW i \in DOMAIN f.work
                 PROVE  f.work[i][1] # "cpu"
        OBVIOUS
    <2>1. Len(cpus) = 0
        BY <1>5
    <2>2. i > Len(cpus)
        BY <2>1, <1>13, <1>9
    <2> QED
        BY <2>2, <1>15
<1> QED
    BY <1>3, <1>16, <1>18, <1>19, <1>20 DEF f

-----------------------------------------------------------------------------
(* What a step leaves alone.                                                 *)

LEMMA MemFixed ==
    ASSUME mem' = mem
    PROVE  /\ (MemTypeOK' <=> MemTypeOK) /\ (Sound' <=> Sound) /\ (SoundMem' <=> SoundMem)
           /\ Free' = Free
           /\ \A w : Items(w)' = Items(w)
           /\ \A c : CpuSlabs(c)' = CpuSlabs(c)
           /\ \A f : FrameOK(f)' <=> FrameOK(f)
           /\ \A f, s : Unfiled(f, s)' <=> Unfiled(f, s)
           /\ NoCpuSlabs' <=> NoCpuSlabs
<1>1. (MemTypeOK' <=> MemTypeOK) /\ (Sound' <=> Sound) /\ Free' = Free
    BY DEF MemTypeOK, Sound, Free
<1>2. ListsApart' <=> ListsApart
    BY DEF ListsApart
<1>3. FreeApart' <=> FreeApart
    BY DEF FreeApart
<1>4. CountersAgree' <=> CountersAgree
    BY DEF CountersAgree, NoCircle
<1>5. \A w : Items(w)' = Items(w)
    BY DEF Items
<1>6. \A c : CpuSlabs(c)' = CpuSlabs(c)
    BY DEF CpuSlabs
<1>7. \A f : WorkOK(f)' <=> WorkOK(f)
    BY DEF WorkOK
<1>8. \A f : Offset(f)' = Offset(f)
    BY <1>5 DEF Offset
<1>9. \A f : LeftOK(f)' <=> LeftOK(f)
    BY <1>5, <1>8 DEF LeftOK
<1>10. \A c : SlabsOf(c)' = SlabsOf(c) /\ PartOf(c)' = PartOf(c)
    BY DEF SlabsOf, PartOf
<1>11. \A f : PagesOK(f)' <=> PagesOK(f)
    BY <1>8, <1>10 DEF PagesOK
<1>12. \A f : FrameOK(f)' <=> FrameOK(f)
    BY <1>7, <1>9, <1>11 DEF FrameOK
<1>13. \A f, s : Unfiled(f, s)' <=> Unfiled(f, s)
    BY <1>6 DEF Unfiled
<1>14. NoCpuSlabs' <=> NoCpuSlabs
    BY <1>6 DEF NoCpuSlabs
<1>15. SoundMem' <=> SoundMem
    BY <1>2, <1>3, <1>4 DEF SoundMem
<1> QED
    BY <1>1, <1>5, <1>6, <1>12, <1>13, <1>14, <1>15

LEMMA CacheFixed ==
    ASSUME mem' = mem, cpu_slabs' = cpu_slabs, cpu_freelists' = cpu_freelists
    PROVE  /\ Known' = Known /\ Cached' = Cached
           /\ (CpusRead' <=> CpusRead) /\ (CachedOK' <=> CachedOK)
           /\ \A f : Outer(f)' <=> Outer(f)
           /\ \A f : Inner(f)' <=> Inner(f)
<1>1. Known' = Known /\ Cached' = Cached
    BY DEF Known, Cached
<1>2. CpusRead' <=> CpusRead
    BY <1>1, MemFixed DEF CpusRead
<1>3. CachedOK' <=> CachedOK
    BY <1>1 DEF CachedOK
<1>4. \A f : Filling(f)' <=> Filling(f)
    BY <1>1, MemFixed DEF Filling
<1>5. \A f : Outer(f)' <=> Outer(f)
    BY <1>2, <1>4, MemFixed DEF Outer
<1>6. \A f : Inner(f)' <=> Inner(f)
    BY MemFixed DEF Inner
<1> QED
    BY <1>1, <1>2, <1>3, <1>5, <1>6

LEMMA CallTypes ==
    ASSUME CacheTypeOK, stack # <<>>
    PROVE  /\ top \in Calls /\ top \in Frames /\ Ready(top)
           /\ Tail(stack) \in Seq(Calls)
           /\ \A g \in Calls : [stack EXCEPT ![1] = g] \in Seq(Calls)
           /\ \A g, d \in Calls : <<g, d>> \o Tail(stack) \in Seq(Calls)
<1>1. stack \in Seq(Calls)
    BY DEF CacheTypeOK
<1>2. top \in Calls
    BY <1>1 DEF top
<1>3. Tail(stack) \in Seq(Calls)
    BY <1>1
<1>4. ASSUME NEW g \in Calls PROVE [stack EXCEPT ![1] = g] \in Seq(Calls)
    BY <1>1
<1>5. ASSUME NEW g \in Calls, NEW d \in Calls
      PROVE  <<g, d>> \o Tail(stack) \in Seq(Calls)
    <2>1. <<g, d>> \in Seq(Calls)
        OBVIOUS
    <2> QED
        BY <2>1, <1>3, ConcatProperties
<1> QED
    BY <1>2, <1>3, <1>4, <1>5 DEF Calls

\* In a sound dump at most two calls are in progress.
LEMMA OneOrTwo ==
    ASSUME stack \in Seq(Calls), stack # <<>>, Len(stack) <= 2
    PROVE  \/ stack = <<top>>
           \/ stack = <<top, stack[2]>> /\ stack[2] \in Calls
<1>1. Len(stack) = 1 \/ Len(stack) = 2
    <2> DEFINE n == Len(stack)
    <2>1. n \in Nat /\ n # 0 /\ n <= 2
        OBVIOUS
    <2> HIDE DEF n
    <2>2. n = 1 \/ n = 2
        BY <2>1
    <2> QED
        BY <2>2 DEF n
<1>2. CASE Len(stack) = 1
    BY <1>2 DEF top
<1>3. CASE Len(stack) = 2
    BY <1>3 DEF top
<1> QED
    BY <1>1, <1>2, <1>3

\* The call in progress, an outer one or one that a header has started.
LEMMA TopOK ==
    ASSUME CacheInv, Sound, stack # <<>>
    PROVE  /\ SoundMem /\ FrameOK(top)
           /\ \/ stack = <<top>> /\ Outer(top) /\ (top.pc = "role" => processed)
              \/ /\ stack = <<top, stack[2]>> /\ stack[2] \in Calls /\ stack[2].pc = "role"
                 /\ Outer(stack[2]) /\ Inner(top)
<1>1. SoundMem /\ Len(stack) <= 2 /\ CallsOK /\ stack \in Seq(Calls) /\ top \in Calls
    BY CallTypes DEF CacheInv, SoundInv, CacheTypeOK
<1>2. CASE stack = <<top>>
    <2>1. Outer(top) /\ (top.pc = "role" => processed)
        BY <1>1, <1>2 DEF CallsOK
    <2> QED
        BY <1>1, <1>2, <2>1 DEF Outer
<1>3. CASE stack = <<top, stack[2]>> /\ stack[2] \in Calls
    <2>1. Outer(stack[2]) /\ stack[2].pc = "role" /\ Inner(top)
        BY <1>1, <1>3 DEF CallsOK
    <2> QED
        BY <1>1, <1>3, <2>1 DEF Inner
<1> QED
    BY <1>1, <1>2, <1>3, OneOrTwo

LEMMA OuterMoves ==
    ASSUME NEW e, NEW g, Outer(e), FrameOK(g), g.fill = e.fill, Todo(g) = Todo(e),
           \A c \in Online : \A s \in CpuSlabs(c) : Unfiled(g, s) <=> Unfiled(e, s)
    PROVE  Outer(g)
BY DEF Outer, Filling

LEMMA InnerMoves ==
    ASSUME NEW e, NEW g, Inner(e), FrameOK(g), g.fill = e.fill, g.level = e.level,
           g.pc # "header", g.pc # "role",
           \A i \in DOMAIN g.work : \E j \in DOMAIN e.work : g.work[i] = e.work[j]
    PROVE  Inner(g)
BY DEF Inner

\* A step that only moves the call in progress on.
LEMMA Moves ==
    ASSUME CacheInv, stack # <<>>, NEW g \in Calls, Continue(g), g.pc # "role",
           mem' = mem, cpu_slabs' = cpu_slabs, cpu_freelists' = cpu_freelists,
           cpu_slabs_free' \in Int, processed' = processed, asked' = asked,
           InUseRight', Sound => NoFalseAlarm',
           Sound => (Outer(top) => Outer(g)) /\ (Inner(top) => Inner(g))
    PROVE  CacheInv'
<1>1. stack' = [stack EXCEPT ![1] = g] /\ stack' \in Seq(Calls) /\ stack \in Seq(Calls)
    BY CallTypes DEF CacheInv, Continue, CacheTypeOK
<1>2. CacheTypeOK'
    BY <1>1, MemFixed DEF CacheInv, CacheTypeOK
<1>3. CachedOK'
    BY CacheFixed DEF CacheInv
<1>4. ASSUME Sound PROVE SoundMem' /\ Len(stack') <= 2 /\ CallsOK' /\ NoFalseAlarm'
    <2>1. SoundMem' /\ NoFalseAlarm'
        BY <1>4, TopOK, MemFixed
    <2>2. CASE stack = <<top>> /\ Outer(top)
        <3>1. stack' = <<g>>
            BY <1>1, <2>2
        <3>2. Outer(g)'
            BY <1>4, <2>2, CacheFixed
        <3>3. stack' # <<>> /\ \A f, h : stack' # <<h, f>> /\ (stack' = <<f>> => f = g)
            BY <3>1
        <3>4. Len(stack') <= 2
            BY <3>1
        <3>5. /\ \A f \in Calls : stack' = <<f>> => Outer(f)' /\ (f.pc = "role" => processed')
              /\ \A f, h \in Calls : stack' = <<h, f>> =>
                     Outer(f)' /\ f.pc = "role" /\ Inner(h)'
            BY <3>2, <3>3
        <3>6. CallsOK'
            BY <3>3, <3>5 DEF CallsOK
        <3> QED
            BY <2>1, <3>4, <3>6
    <2>3. CASE /\ stack = <<top, stack[2]>> /\ stack[2] \in Calls /\ stack[2].pc = "role"
               /\ Outer(stack[2]) /\ Inner(top)
        <3> DEFINE d == stack[2]
        <3>0. stack = <<top, d>> /\ d.pc = "role" /\ Outer(d)
            BY <2>3
        <3> HIDE DEF d
        <3>1. stack' = <<g, d>>
            BY <1>1, <3>0
        <3>2. Inner(g)'
            BY <1>4, <2>3, CacheFixed
        <3>3. stack' # <<>> /\ \A f, h : stack' # <<f>> /\ (stack' = <<h, f>> => f = d /\ h = g)
            BY <3>1
        <3>4. Len(stack') <= 2
            BY <3>1
        <3>5. \A f \in Calls : f = d => Outer(f)'
            BY <3>0, CacheFixed
        <3>6. /\ \A f \in Calls : stack' = <<f>> => Outer(f)' /\ (f.pc = "role" => processed')
              /\ \A f, h \in Calls : stack' = <<h, f>> =>
                     Outer(f)' /\ f.pc = "role" /\ Inner(h)'
            BY <3>0, <3>2, <3>3, <3>5
        <3>7. CallsOK'
            BY <3>3, <3>6 DEF CallsOK
        <3> QED
            BY <2>1, <3>4, <3>7
    <2> QED
        BY <1>4, <2>2, <2>3, TopOK
<1>5. SoundInv'
    BY <1>4, MemFixed DEF SoundInv
<1> QED
    BY <1>2, <1>3, <1>5 DEF CacheInv

-----------------------------------------------------------------------------
(* What is said and what is reported.                                        *)

LEMMA SaidSame ==
    ASSUME InUseRight, mem' = mem, said' = said \/ said' = {}
    PROVE  InUseRight'
BY MemFixed DEF InUseRight

LEMMA Silent ==
    ASSUME Sound => NoFalseAlarm, mem' = mem,
           errors' \subseteq errors \cup (IF mem.tracks THEN {"nr_full"} ELSE {})
    PROVE  Sound => NoFalseAlarm'
BY MemFixed DEF NoFalseAlarm

LEMMA Alarms ==
    ASSUME CacheInv
    PROVE  Sound => NoFalseAlarm
BY DEF CacheInv, SoundInv

LEMMA CachedTyped ==
    ASSUME CacheInv, NEW o \in Cached
    PROVE  o \in Objs /\ cpu_freelists[o] \in Online /\ o \in mem.cpuFree[cpu_freelists[o]]
<1>1. o \in Objs /\ cpu_freelists[o] # Nobody
    BY DEF Cached
<1> QED
    BY <1>1 DEF CacheInv, CacheTypeOK, CachedOK

\* An object said to be free is on a freelist.
LEMMA FreeRight ==
    ASSUME CacheInv, NEW o \in Objs, ~InUse(o)
    PROVE  o \in Free
<1>1. CASE o \in Cached
    <2>1. cpu_freelists[o] \in Online /\ o \in mem.cpuFree[cpu_freelists[o]]
        BY <1>1, CachedTyped
    <2> QED
        BY <2>1 DEF Free
<1>2. CASE o \in mem.pageFree[o[1]]
    <2>1. o[1] \in Slabs
        BY DEF Objs
    <2> QED
        BY <1>2, <2>1 DEF Free
<1> QED
    BY <1>1, <1>2 DEF InUse

\* An object on no freelist that has been read is in use.
LEMMA UseRight ==
    ASSUME MemTypeOK, SoundMem, NEW o \in Objs, InUse(o),
           \A c \in Online : On(o[1], SlabRole(c)) => mem.cpuFree[c] \subseteq Cached
    PROVE  o \notin Free
<1>1. ASSUME NEW s \in Slabs, o \in mem.pageFree[s] PROVE FALSE
    <2>1. o \in ObjsOf(s)
        BY <1>1 DEF SoundMem, FreeApart
    <2>2. o[1] = s
        BY <2>1 DEF ObjsOf
    <2> QED
        BY <1>1, <2>2 DEF InUse
<1>2. ASSUME NEW c \in Online, o \in mem.cpuFree[c] PROVE FALSE
    <2>1. On(o[1], SlabRole(c))
        BY <1>2, FreeHome
    <2> QED
        BY <1>2, <2>1 DEF InUse
<1> QED
    BY <1>1, <1>2 DEF Free

\* Populating a slab of a sound dump finds nothing wrong.
LEMMA NothingPopulated ==
    ASSUME CacheInv, Sound, SoundMem, NEW s \in Slabs
    PROVE  PopulateErrors(s) = {}
<1>1. s \notin mem.cyclic
    BY DEF SoundMem, CountersAgree
<1>2. Cardinality(mem.pageFree[s]) = NObj - mem.inuse[s]
    BY DEF SoundMem, CountersAgree
<1>3. ASSUME NEW o \in mem.pageFree[s], o \in Cached PROVE FALSE
    <2>1. o \in ObjsOf(s)
        BY DEF SoundMem, FreeApart
    <2>2. o[1] = s
        BY <2>1 DEF ObjsOf
    <2>3. cpu_freelists[o] \in Online /\ o \in mem.cpuFree[cpu_freelists[o]] /\ MemTypeOK
        BY <1>3, CachedTyped DEF CacheInv, CacheTypeOK
    <2>4. o \notin mem.pageFree[o[1]]
        BY <2>3, FreeHome
    <2> QED
        BY <2>2, <2>4
<1>4. mem.pageFree[s] \cap Cached = {}
    BY <1>3
<1> QED
    BY <1>1, <1>2, <1>4 DEF PopulateErrors

-----------------------------------------------------------------------------
(* The steps.                                                                *)

LEMMA CachedFinite ==
    Cardinality(Cached) \in Nat
<1>1. IsFiniteSet(1..NObj)
    BY SlubAssumption, FS_Interval
<1>2. IsFiniteSet(Objs)
    BY <1>1, SlubAssumption, FS_Product DEF Objs
<1>3. Cached \subseteq Objs
    BY DEF Cached
<1> QED
    BY <1>2, <1>3, FS_Subset, FS_CardinalityType

LEMMA BeginFreeKeeps ==
    ASSUME CacheInv, BeginFree
    PROVE  CacheInv'
<1> DEFINE e == top
           n == cpu_slabs_free + Cardinality(Cached)
           g == [e EXCEPT !.work = Tail(@), !.nr_free_objs = n]
<1>1. stack # <<>> /\ e.pc = "begin" /\ e.work # <<>> /\ Head(e.work)[1] = "free"
    BY DEF BeginFree
<1>2. Continue(g)
    BY DEF BeginFree
<1>3. /\ mem' = mem /\ cpu_slabs' = cpu_slabs /\ cpu_freelists' = cpu_freelists
      /\ cpu_slabs_free' = cpu_slabs_free /\ processed' = processed /\ asked' = asked
      /\ errors' = errors /\ said' = said
    BY DEF BeginFree, cache, output
<1>4. e \in Frames /\ MemTypeOK /\ n \in Int /\ cpu_slabs_free \in Int
    <2>1. cpu_slabs_free \in Int /\ MemTypeOK
        BY DEF CacheInv, CacheTypeOK
    <2> QED
        BY <1>1, <2>1, CallTypes, CachedFinite DEF CacheInv
<1> HIDE DEF e, n
<1>5. Tail(e.work) \in Seq(Works)
    BY <1>1, <1>4, HeadWork
<1>6. /\ g \in Frames /\ g.pc = "begin" /\ g.work = Tail(e.work)
      /\ g.fill = e.fill /\ g.level = e.level
    BY <1>1, <1>4, <1>5 DEF Frames
<1> HIDE DEF g
<1>7. g \in Calls
    BY <1>6 DEF Calls, Ready
<1>8. ASSUME Sound
      PROVE  /\ FrameOK(g) /\ Todo(g) = Todo(e)
             /\ \A c \in Online : \A s \in CpuSlabs(c) : Unfiled(g, s) <=> Unfiled(e, s)
             /\ \A i \in DOMAIN g.work : \E j \in DOMAIN e.work : g.work[i] = e.work[j]
    <2>1. SoundMem /\ FrameOK(e)
        BY <1>1, <1>8, TopOK DEF e
    <2> QED
        BY <1>1, <1>4, <1>6, <2>1, TailMoves
<1>9. Sound => (Outer(e) => Outer(g)) /\ (Inner(e) => Inner(g))
    BY <1>6, <1>8, OuterMoves, InnerMoves
<1>10. InUseRight'
    BY <1>3, SaidSame DEF CacheInv
<1>11. Sound => NoFalseAlarm'
    BY <1>3, Alarms, Silent
<1> QED
    BY <1>1, <1>2, <1>3, <1>4, <1>6, <1>7, <1>9, <1>10, <1>11, Moves DEF e

LEMMA BeginNodeKeeps ==
    ASSUME CacheInv, BeginNode
    PROVE  CacheInv'
<1> DEFINE e == top
           l == Items(Head(e.work))
           g == [e EXCEPT !.left = l, !.pc = "load"]
<1>1. stack # <<>> /\ e.pc = "begin" /\ e.work # <<>> /\ Head(e.work) \in NodeRoles
    BY DEF BeginNode
<1>2. Continue(g)
    BY DEF BeginNode
<1>3. /\ mem' = mem /\ cpu_slabs' = cpu_slabs /\ cpu_freelists' = cpu_freelists
      /\ cpu_slabs_free' = cpu_slabs_free /\ processed' = processed /\ asked' = asked
      /\ errors' = errors /\ said' = said
    BY DEF BeginNode, cache, output
<1>4. e \in Frames /\ MemTypeOK /\ cpu_slabs_free \in Int
    BY <1>1, CallTypes DEF CacheInv, CacheTypeOK
<1> HIDE DEF e
<1>5. l \in Seq(Slabs \X Roles)
    BY <1>1, <1>4, WorkFacts, ItemTypes
<1>6. Head(e.work)[1] # "cpu" /\ \A c \in Online : CpuWork(c) # Head(e.work)
    BY <1>1, WorkFacts
<1> HIDE DEF l
<1>7. /\ g \in Frames /\ g.pc = "load" /\ g.work = e.work /\ g.left = l
      /\ g.fill = e.fill /\ g.level = e.level
    BY <1>1, <1>4, <1>5 DEF Frames
<1> HIDE DEF g
<1>8. g \in Calls
    BY <1>1, <1>7 DEF Calls, Ready
<1>9. ASSUME Sound
      PROVE  /\ FrameOK(g) /\ Todo(g) = Todo(e)
             /\ \A c \in Online : \A s \in CpuSlabs(c) : Unfiled(g, s) <=> Unfiled(e, s)
    <2>1. SoundMem /\ FrameOK(e)
        BY <1>1, <1>9, TopOK DEF e
    <2>2. /\ FrameOK(g)
          /\ Todo(g) = Todo(e) \ {c \in Online : CpuWork(c) = Head(e.work)}
          /\ \A c \in Online : \A s \in CpuSlabs(c) : Unfiled(g, s) <=> Unfiled(e, s)
        BY <1>1, <1>4, <1>6, <1>7, <2>1, BeginMoves DEF l
    <2> QED
        BY <2>2, <1>6
<1>10. Sound => (Outer(e) => Outer(g)) /\ (Inner(e) => Inner(g))
    BY <1>7, <1>9, OuterMoves, InnerMoves
<1>11. InUseRight'
    BY <1>3, SaidSame DEF CacheInv
<1>12. Sound => NoFalseAlarm'
    BY <1>3, Alarms, Silent
<1> QED
    BY <1>1, <1>2, <1>3, <1>4, <1>7, <1>8, <1>10, <1>11, <1>12, Moves DEF e

LEMMA HeaderKeeps ==
    ASSUME CacheInv, Header
    PROVE  CacheInv'
<1> DEFINE e == top
           g == [e EXCEPT !.pc = "note"]
<1>1. stack # <<>> /\ e.pc \in {"header", "role"}
    BY DEF Header
<1>2. Continue(g)
    BY DEF Header
<1>3. /\ mem' = mem /\ cpu_slabs' = cpu_slabs /\ cpu_freelists' = cpu_freelists
      /\ cpu_slabs_free' = cpu_slabs_free /\ processed' = processed /\ asked' = asked
      /\ errors' = errors /\ said' = said
    BY DEF Header, cache
<1>4. e \in Frames /\ Ready(e) /\ MemTypeOK /\ cpu_slabs_free \in Int
    BY <1>1, CallTypes DEF CacheInv, CacheTypeOK
<1> HIDE DEF e
<1>5. /\ g \in Frames /\ g.pc = "note" /\ g.work = e.work /\ g.left = e.left
      /\ g.pages = e.pages /\ g.expected = e.expected /\ g.fill = e.fill /\ g.level = e.level
    BY <1>1, <1>4 DEF Frames
<1> HIDE DEF g
<1>6. g \in Calls
    BY <1>1, <1>4, <1>5 DEF Calls, Ready
<1>7. ASSUME Sound
      PROVE  FrameOK(g) /\ Todo(g) = Todo(e) /\ \A s : Unfiled(g, s) <=> Unfiled(e, s)
    BY <1>1, <1>4, <1>5, <1>7, TopOK, HeaderMoves DEF e
<1>8. Sound => (Outer(e) => Outer(g)) /\ (Inner(e) => Inner(g))
    BY <1>5, <1>7, OuterMoves, InnerMoves
<1>9. InUseRight'
    BY <1>3, SaidSame DEF CacheInv
<1>10. Sound => NoFalseAlarm'
    BY <1>3, Alarms, Silent
<1> QED
    BY <1>1, <1>2, <1>3, <1>4, <1>5, <1>6, <1>8, <1>9, <1>10, Moves DEF e

\* The end of a list: the counts agree.
LEMMA ListEnds ==
    ASSUME MemTypeOK, SoundMem, NEW e \in Frames, FrameOK(e), e.pc = "load", e.left = <<>>
    PROVE  LET w == Head(e.work)
           IN  /\ w[1] = "cpu" /\ mem.list[<<"cpu partial", w[2]>>] # <<>> => e.pages = 1
               /\ w[1] = "partial" => mem.nr_partial[w[2]] = Len(mem.list[w])
               /\ w[1] = "full" /\ mem.list[w] # <<>> => mem.tracks
<1> DEFINE w == Head(e.work)
<1>1. e.work # <<>> /\ w \in Works
    BY HeadWork DEF FrameOK, LeftOK
<1>2. ASSUME w[1] = "cpu", mem.list[<<"cpu partial", w[2]>>] # <<>> PROVE e.pages = 1
    <2> DEFINE c == w[2]
               n == Offset(e) - Len(SlabsOf(c))
               p == Len(PartOf(c))
    <2>1. c \in Online /\ w = CpuWork(c)
        BY <1>1, <1>2, WorkFacts
    <2>2. PartOf(c) # <<>>
        BY <1>2 DEF PartOf, PartRole
    <2>3. Offset(e) = Len(Items(w)) - Len(e.left)
        BY DEF Offset
    <2>4. PagesOK(e)
        BY DEF FrameOK
    <2>5. IF n <= 0 THEN e.pages = -1 /\ e.expected = -1
          ELSE e.pages = p - n + 1 /\ e.expected = e.pages - 1
        BY <1>2, <2>4 DEF PagesOK
    <2> HIDE DEF c
    <2>6. /\ SlabsOf(c) \in Seq(Slabs) /\ PartOf(c) \in Seq(Slabs)
          /\ Len(Items(w)) = Len(SlabsOf(c)) + p
        BY <2>1, CpuItems
    <2>7. Len(SlabsOf(c)) \in Nat /\ p \in Nat /\ p # 0 /\ Len(e.left) = 0
        BY <2>2, <2>6
    <2>8. n = p
        BY <2>3, <2>6, <2>7
    <2> HIDE DEF n, p
    <2>9. e.pages = p - n + 1
        BY <2>5, <2>7, <2>8
    <2> QED
        BY <2>7, <2>8, <2>9
<1>3. ASSUME w[1] = "partial" PROVE mem.nr_partial[w[2]] = Len(mem.list[w])
    <2>1. w \in NodeRoles
        BY <1>1, <1>3, WorkFacts
    <2>2. w = <<"partial", w[2]>> /\ w[2] \in Nodes
        BY <2>1, <1>3, Pairs DEF NodeRoles
    <2>3. mem.nr_partial[w[2]] = Len(mem.list[<<"partial", w[2]>>])
        BY <2>2 DEF SoundMem, CountersAgree
    <2> QED
        BY <2>2, <2>3
<1>4. ASSUME w[1] = "full", mem.list[w] # <<>> PROVE mem.tracks
    <2>1. w \in NodeRoles
        BY <1>1, <1>4, WorkFacts
    <2>2. w = <<"full", w[2]>> /\ w[2] \in Nodes
        BY <2>1, <1>4, Pairs DEF NodeRoles
    <2> HIDE DEF w
    <2>3. mem.list[<<"full", w[2]>>] # <<>> => mem.tracks
        BY <2>2 DEF SoundMem, CountersAgree
    <2> QED
        BY <2>2, <2>3, <1>4
<1> QED
    BY <1>2, <1>3, <1>4

LEMMA EndListKeeps ==
    ASSUME CacheInv, EndList
    PROVE  CacheInv'
<1> DEFINE e == top
           g == [e EXCEPT !.work = Tail(@), !.pc = "begin"]
           w == Head(e.work)
<1>1. stack # <<>> /\ e.pc = "load" /\ e.left = <<>>
    BY DEF EndList
<1>2. Continue(g)
    BY DEF EndList
<1>3. /\ mem' = mem /\ cpu_slabs' = cpu_slabs /\ cpu_freelists' = cpu_freelists
      /\ cpu_slabs_free' = cpu_slabs_free /\ processed' = processed /\ asked' = asked
      /\ said' = said
    BY DEF EndList, cache, output
<1>4. e \in Frames /\ Ready(e) /\ MemTypeOK /\ cpu_slabs_free \in Int
    BY <1>1, CallTypes DEF CacheInv, CacheTypeOK
<1>12. errors' = errors
               \cup (IF /\ w[1] = "cpu" /\ mem.list[<<"cpu partial", w[2]>>] # <<>>
                        /\ e.pages # 1 THEN {"pages"} ELSE {})
               \cup (IF /\ w[1] = "partial"
                        /\ mem.nr_partial[w[2]] # Len(mem.list[w])
                     THEN {"nr_partial"} ELSE {})
               \cup (IF w[1] = "full" /\ mem.list[w] # <<>> /\ ~mem.tracks
                     THEN {"full list"} ELSE {})
    BY DEF EndList
<1> HIDE DEF e
<1>5. e.work # <<>>
    BY <1>1, <1>4 DEF Ready
<1>6. Tail(e.work) \in Seq(Works)
    BY <1>4, <1>5, HeadWork
<1>7. /\ g \in Frames /\ g.pc = "begin" /\ g.work = Tail(e.work)
      /\ g.fill = e.fill /\ g.level = e.level
    BY <1>1, <1>4, <1>6 DEF Frames
<1> HIDE DEF g
<1>8. g \in Calls
    BY <1>7 DEF Calls, Ready
<1>9. ASSUME Sound
      PROVE  /\ FrameOK(g) /\ Todo(g) = Todo(e) /\ errors' = errors
             /\ \A c \in Online : \A s \in CpuSlabs(c) : Unfiled(g, s) <=> Unfiled(e, s)
             /\ \A i \in DOMAIN g.work : \E j \in DOMAIN e.work : g.work[i] = e.work[j]
    <2>1. SoundMem /\ FrameOK(e)
        BY <1>1, <1>9, TopOK DEF e
    <2>2. /\ ~(w[1] = "cpu" /\ mem.list[<<"cpu partial", w[2]>>] # <<>> /\ e.pages # 1)
          /\ ~(w[1] = "partial" /\ mem.nr_partial[w[2]] # Len(mem.list[w]))
          /\ ~(w[1] = "full" /\ mem.list[w] # <<>> /\ ~mem.tracks)
        BY <1>1, <1>4, <2>1, ListEnds, Zenon
    <2>3. errors' = errors
        BY <1>12, <2>2, Zenon
    <2> QED
        BY <1>1, <1>4, <1>5, <1>7, <2>1, <2>3, TailMoves
<1>10. Sound => (Outer(e) => Outer(g)) /\ (Inner(e) => Inner(g))
    BY <1>7, <1>9, OuterMoves, InnerMoves
<1>11. InUseRight'
    BY <1>3, SaidSame DEF CacheInv
<1>13. Sound => NoFalseAlarm'
    BY <1>3, <1>9, Alarms, Silent
<1> QED
    BY <1>1, <1>2, <1>3, <1>4, <1>7, <1>8, <1>10, <1>11, <1>13, Moves DEF e

\* The CPU whose slab a call looks at has been turned to, and the slab is filed.
LEMMA HeadFiled ==
    ASSUME MemTypeOK, SoundMem, NEW e \in Frames, FrameOK(e), e.pc \in {"header", "role", "note"},
           NEW c \in Online, Head(e.left)[1] \in CpuSlabs(c)
    PROVE  ~Unfiled(e, Head(e.left)[1]) /\ c \notin Todo(e)
<1> DEFINE d == [e EXCEPT !.pc = "load"]
<1>1. /\ d \in Frames /\ d.pc = "load" /\ d.work = e.work /\ d.left = e.left
      /\ d.pages = e.pages /\ d.expected = e.expected
    BY DEF Frames
<1> HIDE DEF d
<1>2. Offset(d) = Offset(e)
    BY <1>1 DEF Offset
<1>3. FrameOK(d) /\ e.left # <<>>
    BY <1>1, <1>2 DEF FrameOK, WorkOK, LeftOK, PagesOK
<1>4. ~Unfiled(e, Head(e.left)[1])
    BY <1>1, <1>3, LoadMoves
<1> QED
    BY <1>4 DEF Unfiled

LEMMA NoteErrors ==
    ASSUME MemTypeOK, SoundMem, NEW e \in Frames, FrameOK(e), e.pc = "note"
    PROVE  /\ Head(e.left)[1] \in mem.frozen <=> Head(e.left)[2] \in CpuRoles
           /\ Head(e.left)[2][1] = "cpu partial" /\ e.expected # -1 =>
                  mem.pages[Head(e.left)[1]] = e.expected
<1> DEFINE w == Head(e.work)
           k == Offset(e) + 1
<1>0. LeftOK(e) /\ PagesOK(e) /\ e.left # <<>>
    BY DEF FrameOK, LeftOK
<1>1. /\ w \in Works /\ k \in DOMAIN Items(w) /\ Offset(e) \in Nat
      /\ Head(e.left) = Items(w)[k]
    BY <1>0, HeadItem
<1>2. Head(e.left)[2] \in Roles /\ On(Head(e.left)[1], Head(e.left)[2])
    BY <1>1, ItemOn
<1>3. Head(e.left)[1] \in mem.frozen <=> Head(e.left)[2] \in CpuRoles
    BY <1>2 DEF SoundMem, CountersAgree, On
<1>4. ASSUME Head(e.left)[2][1] = "cpu partial", e.expected # -1
      PROVE  mem.pages[Head(e.left)[1]] = e.expected
    <2>1. w \notin NodeRoles
        <3>1. w \in NodeRoles => Head(e.left)[2] = w
            BY <1>1, ItemOn
        <3> QED
            BY <3>1, <1>4, RoleFacts
    <2>2. PICK c \in Online : w = CpuWork(c)
        BY <2>1, <1>1, ItemOn
    <2> DEFINE n == Offset(e) - Len(SlabsOf(c))
               p == Len(PartOf(c))
               q == Len(SlabsOf(c))
    <2>3. q \in Nat /\ p \in Nat
        BY CpuItems
    <2>4. k > q
        BY <1>1, <1>4, <2>2, ItemKind
    <2>5. mem.pages[Head(e.left)[1]] = p - (k - q) + 1
        BY <1>1, <2>2, <2>4, PageItems
    <2>6. w[1] = "cpu" /\ w[2] = c
        BY <2>2, WorkFacts
    <2>7. IF n <= 0 THEN e.pages = -1 /\ e.expected = -1
          ELSE e.pages = p - n + 1 /\ e.expected = e.pages - 1
        BY <1>0, <2>6 DEF PagesOK
    <2>8. ~(n <= 0) /\ e.pages = p - n + 1 /\ e.expected = e.pages - 1
        BY <1>4, <2>7
    <2>9. n = Offset(e) - q
        OBVIOUS
    <2> HIDE DEF n, p, q
    <2>10. e.expected = p - (k - q) + 1
        BY <2>3, <2>8, <2>9, <1>1
    <2> QED
        BY <2>5, <2>10
<1> QED
    BY <1>3, <1>4

\* What is said of the objects of a slab that a call looks at.
LEMMA NoteRight ==
    ASSUME CacheInv, Sound, stack # <<>>, top.pc = "note", top.level >= 4,
           NEW o \in ObjsOf(Head(top.left)[1]), InUse(o)
    PROVE  o \notin Free
<1> DEFINE e == top
           s == Head(e.left)[1]
<1>1. SoundMem /\ FrameOK(e) /\ MemTypeOK /\ e \in Frames
    BY TopOK, CallTypes DEF CacheInv, CacheTypeOK
<1>2. Outer(e)
    <2>1. ~Inner(e)
        BY DEF Inner
    <2> QED
        BY <2>1, TopOK
<1>3. s \in Slabs
    <2>1. e.left # <<>>
        BY <1>1 DEF FrameOK, LeftOK
    <2> QED
        BY <2>1, <1>1, HeadLeft
<1>4. o \in Objs /\ o[1] = s
    BY <1>3 DEF ObjsOf, Objs
<1> HIDE DEF e
<1>5. ASSUME NEW c \in Online, On(o[1], SlabRole(c)) PROVE mem.cpuFree[c] \subseteq Cached
    <2>1. s \in CpuSlabs(c)
        BY <1>1, <1>3, <1>4, <1>5, CpuSlabsOn
    <2>2. c \notin Todo(e)
        BY <1>1, <2>1, HeadFiled DEF e
    <2> QED
        BY <1>2, <2>2 DEF Outer, Filling, CpusRead
<1> QED
    BY <1>1, <1>4, <1>5, UseRight

LEMMA NoteKeeps ==
    ASSUME CacheInv, Note
    PROVE  CacheInv'
<1> DEFINE e == top
           s == Head(e.left)[1]
           role == Head(e.left)[2]
           onCpu == role[1] = "cpu partial"
           p == IF onCpu THEN mem.pages[s] ELSE e.pages
           x == IF onCpu THEN mem.pages[s] - 1 ELSE e.expected
           nf == IF role[1] = "partial" THEN e.nr_free_objs + (NObj - mem.inuse[s])
                 ELSE e.nr_free_objs
           nl == IF role[1] = "full" THEN e.nr_full_list + 1 ELSE e.nr_full_list
           g == [e EXCEPT !.pc = "load", !.left = After(@), !.pages = p, !.expected = x,
                          !.nr_free_objs = nf, !.nr_full_list = nl]
<1>1. stack # <<>> /\ e.pc = "note"
    BY DEF Note
<1>2. e \in Frames /\ Ready(e) /\ MemTypeOK /\ cpu_slabs_free \in Int
    BY <1>1, CallTypes DEF CacheInv, CacheTypeOK
<1>3. Continue(g)
    <2>1. Continue([e EXCEPT
                  !.pc = "load", !.left = After(@),
                  !.pages = IF onCpu THEN mem.pages[s] ELSE @,
                  !.expected = IF onCpu THEN mem.pages[s] - 1 ELSE @,
                  !.nr_free_objs = IF role[1] = "partial"
                                   THEN @ + (NObj - mem.inuse[s]) ELSE @,
                  !.nr_full_list = IF role[1] = "full" THEN @ + 1 ELSE @])
        BY DEF Note
    <2> QED
        BY <2>1
<1>4. /\ mem' = mem /\ cpu_slabs' = cpu_slabs /\ cpu_freelists' = cpu_freelists
      /\ cpu_slabs_free' = cpu_slabs_free /\ processed' = processed /\ asked' = asked
    BY DEF Note
<1>5. errors' = errors
         \cup (IF (s \in mem.frozen) # (role \in CpuRoles) THEN {"frozen"} ELSE {})
         \cup (IF e.level >= 4 /\ (role \in NodeRoles \/ ~e.fill)
               THEN PopulateErrors(s) ELSE {})
         \cup (IF onCpu /\ e.expected # -1 /\ mem.pages[s] # e.expected
               THEN {"pages"} ELSE {})
    BY DEF Note
<1>6. said' = IF e.level >= 4 THEN {<<o, InUse(o)>> : o \in ObjsOf(s)} ELSE said
    BY DEF Note
<1> HIDE DEF e
<1>7. e.left # <<>> /\ e.work # <<>>
    BY <1>1, <1>2 DEF Ready
<1>8. s \in Slabs /\ After(e.left) \in Seq(Slabs \X Roles)
    <2>1. e.left \in Seq(Slabs \X Roles)
        BY <1>2 DEF Frames
    <2> QED
        BY <1>2, <1>7, <2>1, HeadLeft, AfterTyped
<1>19. NoCircle => After(e.left) = Tail(e.left)
    <2>1. e.left \in Seq(Slabs \X Roles)
        BY <1>2 DEF Frames
    <2> QED
        BY <1>2, <1>7, <2>1, AfterTyped
<1>9. mem.pages[s] \in Int /\ mem.inuse[s] \in Int
    BY <1>2, <1>8 DEF MemTypeOK, FieldsOK
<1>10. /\ e.pages \in Int /\ e.expected \in Int /\ e.nr_free_objs \in Int
       /\ e.nr_full_list \in Int
    BY <1>2 DEF Frames
<1> HIDE DEF role
<1>11. p \in Int /\ x \in Int /\ nf \in Int /\ nl \in Int
    <2>1. NObj \in Int
        BY SlubAssumption
    <2>2. mem.pages[s] - 1 \in Int
        BY <1>9
    <2>3. e.nr_free_objs + (NObj - mem.inuse[s]) \in Int
        BY <2>1, <1>9, <1>10
    <2>4. e.nr_full_list + 1 \in Int
        BY <1>10
    <2> QED
        BY <2>2, <2>3, <2>4, <1>9, <1>10, Zenon
<1>12. /\ g \in Frames /\ g.pc = "load" /\ g.work = e.work /\ g.left = After(e.left)
       /\ g.pages = p /\ g.expected = x /\ g.fill = e.fill /\ g.level = e.level
    <2> HIDE DEF p, x, nf, nl
    <2> QED
        BY <1>2, <1>8, <1>11 DEF Frames
<1> HIDE DEF g
<1>13. g \in Calls
    BY <1>7, <1>12 DEF Calls, Ready
<1>14. PagesNoted(e, g)
    BY <1>12 DEF PagesNoted, role
<1>15. ASSUME Sound
       PROVE  /\ FrameOK(g) /\ Todo(g) = Todo(e)
              /\ \A y : Unfiled(g, y) <=> Unfiled(e, y)
              /\ errors' = errors
    <2>1. SoundMem /\ FrameOK(e)
        BY <1>1, <1>15, TopOK DEF e
    <2>7. g.left = Tail(e.left)
        BY <1>12, <1>19, <2>1 DEF SoundMem, CountersAgree
    <2>2. FrameOK(g) /\ Todo(g) = Todo(e) /\ \A y : Unfiled(g, y) <=> Unfiled(e, y)
        BY <1>1, <1>2, <1>12, <1>14, <2>1, <2>7, NoteMoves
    <2>3. PopulateErrors(s) = {}
        BY <1>8, <1>15, <2>1, NothingPopulated
    <2>4. s \in mem.frozen <=> role \in CpuRoles
        BY <1>1, <1>2, <2>1, NoteErrors DEF role
    <2>5. ~(onCpu /\ e.expected # -1 /\ mem.pages[s] # e.expected)
        BY <1>1, <1>2, <2>1, NoteErrors DEF role
    <2>6. errors' = errors
        <3> HIDE DEF s, onCpu
        <3> QED
            BY <1>5, <2>3, <2>4, <2>5
    <2> QED
        BY <2>2, <2>6
<1>16. Sound => (Outer(e) => Outer(g)) /\ (Inner(e) => Inner(g))
    BY <1>12, <1>15, OuterMoves, InnerMoves
<1>17. InUseRight'
    <2>1. CASE ~(e.level >= 4)
        BY <2>1, <1>4, <1>6, SaidSame DEF CacheInv
    <2>2. CASE e.level >= 4
        <3>1. said' = {<<o, InUse(o)>> : o \in ObjsOf(s)}
            BY <2>2, <1>6
        <3>2. ASSUME NEW o \in ObjsOf(s)
              PROVE  IF InUse(o) THEN Sound => o \notin Free ELSE o \in Free
            <4>1. o \in Objs
                BY <1>8 DEF ObjsOf, Objs
            <4> QED
                BY <4>1, <1>1, <2>2, NoteRight, FreeRight DEF e
        <3>3. ASSUME NEW a \in said'
              PROVE  IF a[2] THEN Sound => a[1] \notin Free ELSE a[1] \in Free
            <4>1. PICK o \in ObjsOf(s) : a = <<o, InUse(o)>>
                BY <3>1
            <4>2. a[1] = o /\ a[2] = InUse(o)
                BY <4>1
            <4> QED
                BY <4>2, <3>2
        <3> QED
            BY <3>3, <1>4, MemFixed DEF InUseRight
    <2> QED
        BY <2>1, <2>2
<1>18. Sound => NoFalseAlarm'
    BY <1>4, <1>15, Alarms, Silent
<1> QED
    BY <1>1, <1>2, <1>3, <1>4, <1>12, <1>13, <1>16, <1>17, <1>18, Moves DEF e

\* One call is in progress after the step.
LEMMA OneCall ==
    ASSUME NEW g, stack' = <<g>>, Outer(g)', g.pc = "role" => processed'
    PROVE  Len(stack') <= 2 /\ CallsOK'
<1>1. stack' # <<>> /\ \A f, h : stack' # <<h, f>> /\ (stack' = <<f>> => f = g)
    OBVIOUS
<1>2. Len(stack') <= 2
    OBVIOUS
<1>3. /\ \A f \in Calls : stack' = <<f>> => Outer(f)' /\ (f.pc = "role" => processed')
      /\ \A f, h \in Calls : stack' = <<h, f>> => Outer(f)' /\ f.pc = "role" /\ Inner(h)'
    BY <1>1
<1> QED
    BY <1>1, <1>2, <1>3 DEF CallsOK

\* No call is in progress after the step.
LEMMA NoCall ==
    ASSUME stack' = <<>>, asked' # NoObj => processed',
           CpusRead' \/ (Known' = {} /\ Cached' = {} /\ ~processed')
    PROVE  Len(stack') <= 2 /\ CallsOK'
<1>1. Len(stack') <= 2
    OBVIOUS
<1>2. \A f, h : stack' # <<f>> /\ stack' # <<h, f>>
    OBVIOUS
<1> QED
    BY <1>1, <1>2 DEF CallsOK

LEMMA LoadKeeps ==
    ASSUME CacheInv, Load
    PROVE  CacheInv'
<1> DEFINE e == top
           s == Head(e.left)[1]
           role == Head(e.left)[2]
           pc == IF e.level >= HeaderLevel(role) THEN "header" ELSE "note"
           g == [e EXCEPT !.pc = pc]
<1>1. stack # <<>> /\ e.pc = "load" /\ e.left # <<>>
    BY DEF Load
<1>2. Continue(g)
    BY DEF Load
<1>3. /\ mem' = mem /\ cpu_freelists' = cpu_freelists
      /\ processed' = processed /\ asked' = asked /\ said' = said
    BY DEF Load, output
<1>4. IF Files(role) THEN add_percpu_slub(s, role)
      ELSE UNCHANGED <<cpu_slabs, cpu_slabs_free, errors>>
    BY DEF Load
<1>5. e \in Frames /\ Ready(e) /\ MemTypeOK /\ cpu_slabs_free \in Int
    BY <1>1, CallTypes DEF CacheInv, CacheTypeOK
<1>6. Files(role) <=> role \in CpuRoles /\ e.fill
    BY DEF Files
<1> HIDE DEF e
<1>7. s \in Slabs /\ role \in Roles
    BY <1>1, <1>5, HeadLeft
<1>8. pc \in {"header", "note"} /\ (e.level = 0 => pc = "note")
    <2>1. HeaderLevel(role) = 2 \/ HeaderLevel(role) = 3
        BY DEF HeaderLevel
    <2> QED
        BY <2>1
<1> HIDE DEF s, role, pc
<1>9. /\ g \in Frames /\ g.pc = pc /\ g.work = e.work /\ g.left = e.left
      /\ g.pages = e.pages /\ g.expected = e.expected /\ g.fill = e.fill /\ g.level = e.level
    BY <1>5, <1>8 DEF Frames
<1> HIDE DEF g
<1>10. g \in Calls
    BY <1>1, <1>5, <1>9 DEF Calls, Ready
<1>11. InUseRight'
    BY <1>3, SaidSame DEF CacheInv
<1>12. ASSUME Sound
       PROVE  /\ SoundMem /\ FrameOK(e) /\ FrameOK(g) /\ Todo(g) = Todo(e) /\ On(s, role)
              /\ \A c \in Online : \A y \in CpuSlabs(c) :
                     Unfiled(g, y) <=> Unfiled(e, y) /\ y # s
    <2>1. SoundMem /\ FrameOK(e)
        BY <1>1, <1>12, TopOK DEF e
    <2>2. /\ FrameOK(g) /\ Todo(g) = Todo(e)
          /\ \A c \in Online : \A y \in CpuSlabs(c) :
                 Unfiled(g, y) <=> Unfiled(e, y) /\ y # s
        BY <1>1, <1>5, <1>8, <1>9, <2>1, LoadMoves DEF s
    <2>3. On(s, role)
        <3>1. LeftOK(e) /\ e.pc # "begin"
            BY <1>1, <2>1 DEF FrameOK
        <3>2. /\ Head(e.work) \in Works /\ Offset(e) + 1 \in DOMAIN Items(Head(e.work))
              /\ Head(e.left) = Items(Head(e.work))[Offset(e) + 1]
            BY <1>1, <1>5, <3>1, HeadItem
        <3> QED
            BY <1>5, <3>2, ItemOn DEF s, role
    <2> QED
        BY <2>1, <2>2, <2>3
<1>13. CASE ~Files(role)
    <2>1. cpu_slabs' = cpu_slabs /\ cpu_slabs_free' = cpu_slabs_free /\ errors' = errors
        BY <1>4, <1>13
    <2>2. ASSUME Sound, Outer(e) PROVE Outer(g)
        <3>1. CASE e.fill
            <4>1. role \in NodeRoles
                BY <3>1, <1>6, <1>7, <1>13, RoleFacts
            <4>2. ASSUME NEW c \in Online PROVE s \notin CpuSlabs(c)
                <5>1. /\ SlabRole(c) \in Roles /\ PartRole(c) \in Roles
                      /\ SlabRole(c) # role /\ PartRole(c) # role
                    BY <4>1, RoleFacts
                <5> QED
                    BY <5>1, <1>5, <1>7, <1>12, <2>2, CpuSlabsOn, OnOnce
            <4>3. \A c \in Online : \A y \in CpuSlabs(c) : Unfiled(g, y) <=> Unfiled(e, y)
                BY <4>2, <1>12, <2>2
            <4> QED
                BY <4>3, <1>9, <1>12, <2>2, OuterMoves
        <3>2. CASE ~e.fill
            BY <3>2, <1>9, <1>12, <2>2 DEF Outer
        <3> QED
            BY <3>1, <3>2
    <2>3. ASSUME Sound, Inner(e) PROVE Inner(g)
        <3>1. e.level = 0
            BY <2>3 DEF Inner
        <3> QED
            BY <3>1, <1>8, <1>9, <1>12, <2>3, InnerMoves
    <2>4. Sound => NoFalseAlarm'
        BY <1>3, <2>1, Alarms, Silent
    <2>5. g.pc # "role"
        BY <1>8, <1>9
    <2> QED
        BY <1>1, <1>2, <1>3, <1>5, <1>10, <1>11, <2>5, <2>1, <2>2, <2>3, <2>4, Moves DEF e
<1>14. CASE Files(role)
    <2>1. add_percpu_slub(s, role) /\ role \in CpuRoles /\ e.fill
        BY <1>4, <1>6, <1>14
    <2>2. cpu_slabs \in [Slabs -> CpuRoles \cup {NoRole}] /\ stack \in Seq(Calls)
        BY DEF CacheInv, CacheTypeOK
    <2>3. cpu_slabs' \in [Slabs -> CpuRoles \cup {NoRole}] /\ cpu_slabs_free' \in Int
        <3>2. mem.inuse \in [Slabs -> Int]
            BY <1>5 DEF MemTypeOK, FieldsOK
        <3>1. mem.inuse[s] \in Int /\ NObj \in Int
            BY <1>7, <3>2, SlubAssumption
        <3> QED
            BY <3>1, <2>1, <2>2, <1>5, <1>7 DEF add_percpu_slub
    <2>4. stack' \in Seq(Calls) /\ stack' = [stack EXCEPT ![1] = g]
        BY <1>1, <1>2, <1>10, CallTypes DEF CacheInv, Continue
    <2>5. CacheTypeOK'
        BY <1>3, <2>3, <2>4, MemFixed DEF CacheInv, CacheTypeOK
    <2>6. CachedOK'
        BY <1>3 DEF CacheInv, CachedOK, Cached
    <2>7. ASSUME Sound PROVE SoundMem' /\ Len(stack') <= 2 /\ CallsOK' /\ NoFalseAlarm'
        <3>1. PICK c \in Online : s \in CpuSlabs(c)
            <4>1. role[2] \in Online /\ (role = SlabRole(role[2]) \/ role = PartRole(role[2]))
                BY <2>1, RoleFacts
            <4> QED
                BY <4>1, <1>5, <1>7, <1>12, <2>7, CpuSlabsOn
        <3>2. stack = <<e>> /\ Outer(e)
            <4>1. ~Inner(e)
                BY <2>1, <3>1 DEF Inner, NoCpuSlabs
            <4> QED
                BY <4>1, <1>1, <2>7, TopOK DEF e
        <3>3. Filling(e)
            BY <3>2, <2>1 DEF Outer
        <3>4. s \notin Known
            <4>1. InLeft(e, s)
                BY <1>1, <1>5, HeadLeft DEF InLeft, s
            <4> QED
                BY <4>1, <3>1, <3>3 DEF Filling, Unfiled
        <3>5. PopulateErrors(s) = {}
            BY <1>7, <1>12, <2>7, NothingPopulated
        <3>6. cpu_slabs' = [cpu_slabs EXCEPT ![s] = role] /\ errors' = errors
            BY <2>1, <3>4, <3>5 DEF add_percpu_slub
        <3>7. role # NoRole
            <4>1. role[1] # "none"
                BY <2>1, RoleFacts
            <4>2. NoRole[1] = "none"
                BY DEF NoRole
            <4> QED
                BY <4>1, <4>2
        <3>8. Known' = Known \cup {s} /\ Cached' = Cached
            BY <1>3, <1>7, <2>2, <3>6, <3>7 DEF Known, Cached
        <3>9. PICK h \in Calls : h = g
            BY <1>10
        <3>10. Filling(h)'
            <4>1. Todo(h) = Todo(e)
                BY <1>12, <2>7, <3>9
            <4>2. \A d \in Online \ Todo(h) : mem'.cpuFree[d] \subseteq Cached'
                BY <3>3, <3>8, <4>1, <1>3 DEF Filling
            <4>3. \A o \in Cached' : cpu_freelists'[o] \notin Todo(h)
                BY <3>3, <3>8, <4>1, <1>3 DEF Filling
            <4>4. ASSUME NEW d \in Online, NEW y \in CpuSlabs(d)
                  PROVE  y \in Known' <=> ~Unfiled(h, y)
                <5>1. Unfiled(h, y) <=> Unfiled(e, y) /\ y # s
                    BY <1>12, <2>7, <3>9
                <5>2. y \in Known <=> ~Unfiled(e, y)
                    BY <3>3 DEF Filling
                <5> QED
                    BY <5>1, <5>2, <3>8
            <4>5. \A d \in Online : \A y \in CpuSlabs(d)' : y \in Known' <=> ~Unfiled(h, y)'
                BY <4>4, <1>3, MemFixed
            <4> QED
                BY <4>2, <4>3, <4>5 DEF Filling, Todo
        <3>11. Outer(h)'
            <4>1. FrameOK(h)'
                BY <1>3, <1>12, <2>7, <3>9, MemFixed
            <4> QED
                BY <4>1, <3>10, <3>9, <1>9, <2>1 DEF Outer
        <3>12. stack' = <<h>>
            BY <2>4, <3>2, <3>9
        <3>13. NoFalseAlarm'
            BY <1>3, <3>6, <2>7, Alarms, Silent
        <3>14. h.pc # "role"
            BY <1>8, <1>9, <3>9
        <3> QED
            BY <1>3, <1>12, <2>7, <3>11, <3>12, <3>13, <3>14, OneCall, MemFixed
    <2>8. SoundInv'
        BY <2>7, <1>3, MemFixed DEF SoundInv
    <2> QED
        BY <1>11, <2>5, <2>6, <2>8 DEF CacheInv
<1> QED
    BY <1>13, <1>14

LEMMA LoadFailsKeeps ==
    ASSUME CacheInv, LoadFails
    PROVE  CacheInv'
<1>1. /\ mem' = mem /\ cpu_slabs' = cpu_slabs /\ cpu_freelists' = cpu_freelists
      /\ cpu_slabs_free' = cpu_slabs_free /\ processed' = processed
      /\ said' = said /\ stack' = <<>> /\ asked' = NoObj
    BY DEF LoadFails, cache, output, Raise
<1>2. ~Sound
    BY DEF LoadFails, Sound
<1>3. <<>> \in Seq(Calls)
    OBVIOUS
<1>4. CacheTypeOK'
    BY <1>1, <1>3, MemFixed DEF CacheInv, CacheTypeOK
<1>5. CachedOK' /\ InUseRight' /\ SoundInv'
    BY <1>1, <1>2, CacheFixed, MemFixed, SaidSame DEF CacheInv, SoundInv
<1> QED
    BY <1>4, <1>5 DEF CacheInv

\* The numbers of the online CPUs have no gaps.
GapFree == Online = 0..(Cardinality(Online) - 1)

LEMMA BeginCpuKeeps ==
    ASSUME GapFree, CacheInv, BeginCpu
    PROVE  CacheInv'
<1> DEFINE e == top
           c == Head(e.work)[2]
           l == Items(<<"cpu", c>>)
           g == [e EXCEPT !.left = l, !.pc = "load", !.pages = -1, !.expected = -1]
           read == e.fill /\ ~FreelistUnreadable(c)
           lists == [o \in Objs |-> IF o \in mem.cpuFree[c] \ Cached THEN c
                                    ELSE cpu_freelists[o]]
           found == errors \cup (IF <<c>> \in mem.cyclic THEN {"cpu too many"} ELSE {})
                           \cup (IF <<c>> \in mem.cyclic \/ mem.cpuFree[c] \cap Cached # {}
                                 THEN {"cpu twice"} ELSE {})
<1>1. stack # <<>> /\ e.pc = "begin" /\ e.work # <<>> /\ Head(e.work)[1] = "cpu"
    BY DEF BeginCpu
<1>2. /\ mem' = mem /\ cpu_slabs' = cpu_slabs /\ cpu_slabs_free' = cpu_slabs_free
      /\ processed' = processed /\ said' = said
    BY DEF BeginCpu, output
<1>3. /\ read => cpu_freelists' = lists /\ errors' = found
      /\ ~read => cpu_freelists' = cpu_freelists /\ errors' = errors
    BY DEF BeginCpu
<1>4. IF (e.fill /\ FreelistUnreadable(c)) \/ c >= Cardinality(Online) THEN Raise
      ELSE Continue(g) /\ asked' = asked
    BY DEF BeginCpu
<1>5. e \in Frames /\ MemTypeOK /\ cpu_slabs_free \in Int /\ stack \in Seq(Calls)
    BY <1>1, CallTypes DEF CacheInv, CacheTypeOK
<1> HIDE DEF e
<1>6. c \in Online /\ Head(e.work) = CpuWork(c)
    BY <1>1, <1>5, HeadWork, WorkFacts
<1>7. l = Items(Head(e.work)) /\ l \in Seq(Slabs \X Roles)
    <2>1. l = Items(CpuWork(c))
        BY DEF CpuWork
    <2> QED
        BY <2>1, <1>5, <1>6, CpuItems
<1> HIDE DEF c, l
<1>8. /\ g \in Frames /\ g.pc = "load" /\ g.work = e.work /\ g.left = l
      /\ g.pages = -1 /\ g.expected = -1 /\ g.fill = e.fill /\ g.level = e.level
    <2>1. -1 \in Int
        OBVIOUS
    <2> QED
        BY <2>1, <1>5, <1>7 DEF Frames
<1> HIDE DEF g
<1>9. g \in Calls
    BY <1>1, <1>8 DEF Calls, Ready
<1>10. InUseRight'
    BY <1>2, SaidSame DEF CacheInv
<1>11. cpu_freelists \in [Objs -> Online \cup {Nobody}] /\ mem.cpuFree[c] \subseteq Objs
    BY <1>5, <1>6 DEF CacheInv, CacheTypeOK, MemTypeOK, FieldsOK
<1>12. cpu_freelists' \in [Objs -> Online \cup {Nobody}]
    BY <1>3, <1>6, <1>11
<1>13. stack' \in Seq(Calls) /\ asked' \in Objs \cup {NoObj}
    <2>1. <<>> \in Seq(Calls)
        OBVIOUS
    <2>2. CASE Raise
        BY <2>1, <2>2 DEF Raise
    <2>3. CASE Continue(g) /\ asked' = asked
        BY <2>3, <1>1, <1>9, CallTypes DEF Continue, CacheInv, CacheTypeOK
    <2> QED
        BY <1>4, <2>2, <2>3
<1>14. CacheTypeOK'
    BY <1>2, <1>12, <1>13, MemFixed DEF CacheInv, CacheTypeOK
<1>15. c # Nobody
    BY <1>6, SlubAssumption DEF Nobody
<1>16. Cached' = IF read THEN Cached \cup mem.cpuFree[c] ELSE Cached
    BY <1>3, <1>11, <1>15 DEF Cached
<1>17. CachedOK'
    <2>1. ASSUME NEW o \in Cached' PROVE o \in mem.cpuFree[cpu_freelists'[o]]
        <3>1. CASE o \in Cached /\ cpu_freelists'[o] = cpu_freelists[o]
            BY <3>1, CachedTyped
        <3>2. CASE read /\ o \in mem.cpuFree[c] /\ o \notin Cached
            BY <3>2, <1>3, <1>11
        <3>3. o \in Cached => cpu_freelists'[o] = cpu_freelists[o]
            BY <1>3 DEF Cached
        <3> QED
            BY <3>1, <3>2, <3>3, <1>16
    <2> QED
        BY <2>1, <1>2 DEF CachedOK
<1>18. ASSUME Sound
       PROVE  /\ ~FreelistUnreadable(c) /\ Continue(g) /\ asked' = asked
              /\ SoundMem /\ FrameOK(e) /\ FrameOK(g) /\ Todo(g) = Todo(e) \ {c}
              /\ \A d \in Online : \A s \in CpuSlabs(d) : Unfiled(g, s) <=> Unfiled(e, s)
    <2>1. ~FreelistUnreadable(c)
        BY <1>18 DEF FreelistUnreadable, Sound
    <2>2. ~(c >= Cardinality(Online))
        <3>1. Cardinality(Online) \in Nat
            BY SlubAssumption, FS_CardinalityType
        <3> QED
            BY <3>1, <1>6 DEF GapFree
    <2>3. SoundMem /\ FrameOK(e)
        BY <1>1, <1>18, TopOK DEF e
    <2>4. /\ FrameOK(g)
          /\ Todo(g) = Todo(e) \ {d \in Online : CpuWork(d) = Head(e.work)}
          /\ \A d \in Online : \A s \in CpuSlabs(d) : Unfiled(g, s) <=> Unfiled(e, s)
        BY <1>1, <1>5, <1>7, <1>8, <2>3, BeginMoves
    <2>5. {d \in Online : CpuWork(d) = Head(e.work)} = {c}
        BY <1>6, WorkFacts
    <2> QED
        BY <2>1, <2>2, <2>3, <2>4, <2>5, <1>4
<1>19. CASE ~Sound
    <2>1. SoundInv'
        BY <1>2, <1>19, MemFixed DEF SoundInv
    <2> QED
        BY <1>10, <1>14, <1>17, <2>1 DEF CacheInv
<1>20. CASE Sound /\ cpu_freelists' = cpu_freelists /\ errors' = errors
    <2>1. ASSUME Outer(e), e.fill PROVE Outer(g)
        <3>2. ASSUME read PROVE mem.cpuFree[c] \subseteq Cached
            <4>1. Cached' = Cached
                BY <1>20 DEF Cached
            <4> QED
                BY <4>1, <3>2, <1>16
        <3>3. mem.cpuFree[c] \subseteq Cached
            BY <3>2, <2>1, <1>18, <1>20
        <3>4. Filling(e)
            BY <2>1 DEF Outer
        <3>5. Filling(g)
            BY <3>3, <3>4, <1>18, <1>20 DEF Filling
        <3> QED
            BY <3>5, <2>1, <1>8, <1>18, <1>20 DEF Outer
    <2>2. ASSUME Outer(e), ~e.fill PROVE Outer(g)
        BY <2>2, <1>8, <1>18, <1>20 DEF Outer
    <2>3. Inner(e) => Inner(g)
        BY <1>8, <1>18, <1>20, InnerMoves
    <2>4. Sound => NoFalseAlarm'
        BY <1>2, <1>20, Alarms, Silent
    <2> QED
        BY <1>1, <1>2, <1>5, <1>8, <1>9, <1>10, <1>18, <1>20, <2>1, <2>2, <2>3, <2>4, Moves DEF e
<1>21. CASE Sound /\ ~(cpu_freelists' = cpu_freelists /\ errors' = errors)
    <2>1. read /\ e.fill /\ cpu_freelists' = lists /\ errors' = found
        BY <1>3, <1>21
    <2>2. <<c>> \notin mem.cyclic
        BY <1>18, <1>21 DEF SoundMem, CountersAgree
    <2>3. stack = <<e>> /\ Outer(e)
        <3> SUFFICES ASSUME Inner(e) PROVE FALSE
            BY <1>1, <1>21, TopOK DEF e
        <3>1. NoCpuSlabs
            BY <2>1 DEF Inner
        <3>2. mem.cpuFree[c] = {}
            BY <3>1, <1>5, <1>6, <1>18, <1>21, FreeHome DEF NoCpuSlabs
        <3>3. lists = cpu_freelists
            BY <3>2, <1>11
        <3>4. found = errors
            BY <2>2, <3>2
        <3> HIDE DEF lists, found
        <3> QED
            BY <2>1, <3>3, <3>4, <1>21
    <2>4. Filling(e) /\ c \in Todo(e)
        BY <2>1, <2>3, <1>1, <1>5, <1>6, HeadWork DEF Outer, Todo
    <2>5. mem.cpuFree[c] \cap Cached = {}
        <3> SUFFICES ASSUME NEW o \in mem.cpuFree[c], o \in Cached PROVE FALSE
            OBVIOUS
        <3>1. cpu_freelists[o] \in Online /\ o \in mem.cpuFree[cpu_freelists[o]]
            BY CachedTyped
        <3>2. o[1] \in CpuSlabs(c) /\ o[1] \in CpuSlabs(cpu_freelists[o])
            BY <3>1, <1>5, <1>6, <1>18, <1>21, FreeHome
        <3>3. c = cpu_freelists[o]
            BY <3>1, <3>2, <1>5, <1>6, <1>18, <1>21, CpuApart
        <3> QED
            BY <3>3, <2>4 DEF Filling
    <2>6. errors' = errors
        BY <2>1, <2>2, <2>5
    <2>7. Cached' = Cached \cup mem.cpuFree[c] /\ Known' = Known
        BY <1>2, <1>16, <2>1 DEF Known
    <2>8. PICK h \in Calls : h = g
        BY <1>9
    <2>9. Filling(h)'
        <3>1. Todo(h) = Todo(e) \ {c}
            BY <1>18, <1>21, <2>8
        <3>2. \A d \in Online \ Todo(h) : mem'.cpuFree[d] \subseteq Cached'
            BY <2>4, <2>7, <3>1, <1>2 DEF Filling
        <3>3. ASSUME NEW o \in Cached' PROVE cpu_freelists'[o] \notin Todo(h)
            <4>1. CASE o \in Cached
                <5>1. cpu_freelists'[o] = cpu_freelists[o]
                    BY <4>1, <2>1 DEF Cached
                <5> QED
                    BY <4>1, <5>1, <2>4, <3>1 DEF Filling
            <4>2. CASE o \notin Cached
                <5>1. o \in mem.cpuFree[c]
                    BY <4>2, <2>7
                <5>2. cpu_freelists'[o] = c
                    BY <4>2, <5>1, <2>1, <1>11
                <5> QED
                    BY <5>2, <3>1
            <4> QED
                BY <4>1, <4>2
        <3>4. ASSUME NEW d \in Online, NEW y \in CpuSlabs(d)
              PROVE  y \in Known' <=> ~Unfiled(h, y)
            BY <1>18, <1>21, <2>4, <2>7, <2>8 DEF Filling
        <3>5. \A d \in Online : \A y \in CpuSlabs(d)' : y \in Known' <=> ~Unfiled(h, y)'
            BY <3>4, <1>2, MemFixed
        <3> QED
            BY <3>2, <3>3, <3>5 DEF Filling, Todo
    <2>10. Outer(h)'
        <3>1. FrameOK(h)'
            BY <1>2, <1>18, <1>21, <2>8, MemFixed
        <3> QED
            BY <3>1, <2>9, <2>8, <1>8, <2>1 DEF Outer
    <2>11. stack' = <<h>>
        <3>1. Continue(g)
            BY <1>18, <1>21
        <3> QED
            BY <3>1, <2>3, <2>8 DEF Continue
    <2>12. NoFalseAlarm'
        BY <1>2, <1>21, <2>6, Alarms, Silent
    <2>13. SoundInv'
        BY <1>2, <1>8, <1>18, <1>21, <2>8, <2>10, <2>11, <2>12, OneCall, MemFixed DEF SoundInv
    <2> QED
        BY <1>10, <1>14, <1>17, <2>13 DEF CacheInv
<1> QED
    BY <1>19, <1>20, <1>21

\* What is left unread when the first call comes to a node's list: nothing.
LEMMA NothingOnCpus ==
    ASSUME MemTypeOK, SoundMem, NEW e \in Frames, Outer(e), e.pc \in {"header", "role"}, Known = {}
    PROVE  NoCpuSlabs
<1>1. CASE ~e.fill
    BY <1>1 DEF Outer, CpusRead, NoCpuSlabs, CpuSlabs
<1>2. CASE e.fill
    <2> DEFINE w == Head(e.work)
    <2>1. Filling(e) /\ FrameOK(e)
        BY <1>2 DEF Outer
    <2>2. LeftOK(e) /\ e.left # <<>> /\ e.work # <<>>
        BY <2>1 DEF FrameOK, LeftOK
    <2>3. /\ w \in Works /\ Offset(e) + 1 \in DOMAIN Items(w) /\ Offset(e) \in Nat
          /\ Head(e.left) = Items(w)[Offset(e) + 1]
          /\ \A j \in DOMAIN e.left : e.left[j] = Items(w)[Offset(e) + j]
        <3>1. \A j \in DOMAIN e.left : e.left[j] = Items(w)[Offset(e) + j]
            BY <2>2 DEF LeftOK
        <3> QED
            BY <2>2, <3>1, HeadItem
    <2>4. w \in NodeRoles
        <3> SUFFICES ASSUME w \notin NodeRoles PROVE FALSE
            OBVIOUS
        <3>1. w[2] \in Online /\ Head(e.left)[1] \in CpuSlabs(w[2])
            BY <2>3, ItemOn
        <3>2. ~Unfiled(e, Head(e.left)[1])
            BY <2>1, <3>1, HeadFiled
        <3> QED
            BY <2>1, <3>1, <3>2 DEF Filling
    <2>5. /\ DOMAIN e.left = 1..Len(e.left) /\ Len(e.left) \in Nat
          /\ Items(w) \in Seq(Slabs \X Roles) /\ Offset(e) = Len(Items(w)) - Len(e.left)
        BY <2>2, <2>3, HeadLeft, ItemTypes DEF Offset
    <2>6. w[1] # "cpu" /\ w = e.work[1] /\ DOMAIN e.work = 1..Len(e.work) /\ 1 \in DOMAIN e.work
        BY <2>2, <2>4, HeadWork, WorkFacts
    <2> HIDE DEF w
    <2>7. \A j \in DOMAIN e.left : Offset(e) + j \in DOMAIN Items(w)
        BY <2>3, <2>5
    <2>8. ASSUME NEW c \in Online, NEW s \in CpuSlabs(c) PROVE FALSE
        <3>1. ~InLeft(e, s)
            BY <2>3, <2>4, <2>7, NodeApart DEF InLeft
        <3>2. c \notin Todo(e)
            <4> SUFFICES ASSUME NEW i \in DOMAIN e.work, e.work[i] = CpuWork(c), i > 1
                         PROVE  FALSE
                BY DEF Todo
            <4>1. e.work[i][1] = "cpu"
                BY WorkFacts
            <4> QED
                BY <4>1, <2>1, <2>6 DEF FrameOK, WorkOK
        <3>3. ~Unfiled(e, s)
            BY <3>1, <3>2, UnfiledIs
        <3> QED
            BY <3>3, <2>1 DEF Filling
    <2> QED
        BY <2>8 DEF NoCpuSlabs
<1> QED
    BY <1>1, <1>2

LEMMA HeaderProcessesKeeps ==
    ASSUME CacheInv, HeaderProcesses
    PROVE  CacheInv'
<1> DEFINE e == top
           g == ProcessAll(0)
           r == [e EXCEPT !.pc = "role"]
<1>1. stack # <<>> /\ e.pc = "header" /\ stack' = <<g, r>> \o Tail(stack)
    BY DEF HeaderProcesses
<1>2. /\ mem' = mem /\ cpu_slabs' = cpu_slabs /\ cpu_freelists' = cpu_freelists
      /\ cpu_slabs_free' = cpu_slabs_free /\ processed' = processed /\ asked' = asked
      /\ errors' = errors /\ said' = said
    BY DEF HeaderProcesses, cache, output
<1>3. /\ g \in Frames /\ g.level = 0 /\ g.pc = "begin" /\ g.fill = (Known = {})
      /\ FrameOK(g)
      /\ Known # {} => \A i \in DOMAIN g.work : g.work[i][1] # "cpu"
    BY NewCall
<1>4. e \in Frames /\ e \in Calls /\ MemTypeOK
    BY <1>1, CallTypes DEF CacheInv, CacheTypeOK
<1> HIDE DEF e, g
<1>10. /\ r \in Frames /\ r.pc = "role" /\ r.work = e.work /\ r.left = e.left
       /\ r.pages = e.pages /\ r.expected = e.expected /\ r.fill = e.fill
    BY <1>4 DEF Frames
<1> HIDE DEF r
<1>11. r \in Calls
    BY <1>1, <1>4, <1>10 DEF Calls, Ready
<1>5. g \in Calls
    BY <1>3 DEF Calls, Ready
<1>6. stack' \in Seq(Calls)
    BY <1>1, <1>5, <1>11, CallTypes DEF CacheInv
<1>7. CacheTypeOK' /\ CachedOK' /\ InUseRight'
    BY <1>2, <1>6, MemFixed, CacheFixed, SaidSame DEF CacheInv, CacheTypeOK
<1>8. ASSUME Sound PROVE SoundMem' /\ Len(stack') <= 2 /\ CallsOK' /\ NoFalseAlarm'
    <2>1. SoundMem /\ stack = <<e>> /\ Outer(e)
        <3>1. ~Inner(e)
            BY <1>1 DEF Inner
        <3> QED
            BY <1>1, <1>8, <3>1, TopOK DEF e
    <2>2. Inner(g)
        <3>1. Known = {} => NoCpuSlabs
            BY <1>1, <1>4, <2>1, NothingOnCpus
        <3> QED
            BY <3>1, <1>3 DEF Inner
    <2>10. Outer(r)
        <3>1. FrameOK(e)
            BY <2>1 DEF Outer
        <3>2. FrameOK(r) /\ Todo(r) = Todo(e) /\ \A s : Unfiled(r, s) <=> Unfiled(e, s)
            BY <1>1, <1>4, <1>10, <3>1, HeaderMoves
        <3> QED
            BY <1>10, <2>1, <3>2, OuterMoves
    <2>3. PICK h \in Calls, d \in Calls : h = g /\ d = r
        BY <1>5, <1>11
    <2>4. stack' = <<h, d>>
        <3>1. Tail(stack) = <<>>
            BY <2>1
        <3>2. <<h, d>> \in Seq(Calls)
            OBVIOUS
        <3>3. <<h, d>> \o <<>> = <<h, d>>
            BY <3>2, ConcatEmptySeq
        <3> QED
            BY <1>1, <2>3, <3>1, <3>3
    <2>5. Inner(h)' /\ Outer(d)' /\ d.pc = "role"
        BY <1>2, <1>10, <2>2, <2>3, <2>10, CacheFixed
    <2>6. stack' # <<>> /\ \A f, k : stack' # <<f>> /\ (stack' = <<k, f>> => f = d /\ k = h)
        BY <2>4
    <2>7. Len(stack') <= 2
        BY <2>4
    <2>8. /\ \A f \in Calls : stack' = <<f>> => Outer(f)' /\ (f.pc = "role" => processed')
          /\ \A f, k \in Calls : stack' = <<k, f>> =>
                 Outer(f)' /\ f.pc = "role" /\ Inner(k)'
        BY <2>5, <2>6
    <2>9. CallsOK'
        BY <2>6, <2>8 DEF CallsOK
    <2> QED
        BY <1>2, <1>8, <2>1, <2>7, <2>9, MemFixed, Alarms, Silent
<1>9. SoundInv'
    BY <1>2, <1>8, MemFixed DEF SoundInv
<1> QED
    BY <1>7, <1>9 DEF CacheInv

LEMMA FinishKeeps ==
    ASSUME CacheInv, Finish
    PROVE  CacheInv'
<1> DEFINE e == top
<1>1. stack # <<>> /\ e.pc = "begin" /\ e.work = <<>> /\ stack' = Tail(stack) /\ processed' = TRUE
    BY DEF Finish
<1>2. /\ mem' = mem /\ cpu_slabs' = cpu_slabs /\ cpu_freelists' = cpu_freelists
      /\ cpu_slabs_free' = cpu_slabs_free /\ asked' = asked /\ said' = said
    BY DEF Finish
<1>3. errors' \subseteq errors \cup (IF mem.tracks THEN {"nr_full"} ELSE {})
    BY DEF Finish
<1>4. stack' \in Seq(Calls)
    BY <1>1, CallTypes DEF CacheInv
<1>5. CacheTypeOK' /\ CachedOK' /\ InUseRight'
    BY <1>1, <1>2, <1>4, MemFixed, CacheFixed, SaidSame DEF CacheInv, CacheTypeOK
<1>6. ASSUME Sound PROVE SoundMem' /\ Len(stack') <= 2 /\ CallsOK' /\ NoFalseAlarm'
    <2>1. SoundMem' /\ NoFalseAlarm'
        BY <1>2, <1>3, <1>6, TopOK, <1>1, MemFixed, Alarms, Silent
    <2>2. CASE stack = <<e>> /\ Outer(e)
        <3>1. stack' = <<>>
            BY <1>1, <2>2
        <3>2. CpusRead
            <4>1. CASE e.fill
                <5>1. Todo(e) = {}
                    BY <1>1 DEF Todo
                <5>2. \A s : ~Unfiled(e, s)
                    BY <1>1, <5>1 DEF Unfiled, InLeft
                <5> QED
                    BY <4>1, <5>1, <5>2, <2>2 DEF Outer, Filling, CpusRead
            <4>2. CASE ~e.fill
                BY <4>2, <2>2 DEF Outer
            <4> QED
                BY <4>1, <4>2
        <3>3. CpusRead'
            BY <3>2, <1>2, CacheFixed
        <3> QED
            BY <1>1, <2>1, <3>1, <3>3, NoCall
    <2>3. CASE stack = <<e, stack[2]>> /\ stack[2] \in Calls /\ Outer(stack[2])
        <3>1. PICK h \in Calls : h = stack[2]
            BY <2>3
        <3>2. stack' = <<h>>
            <4>1. stack = <<e, h>>
                BY <2>3, <3>1
            <4> QED
                BY <4>1, <1>1
        <3>3. Outer(h)'
            BY <1>2, <2>3, <3>1, CacheFixed
        <3> QED
            BY <1>1, <2>1, <3>2, <3>3, OneCall
    <2> QED
        BY <1>1, <1>6, <2>2, <2>3, TopOK
<1>7. SoundInv'
    BY <1>2, <1>6, MemFixed DEF SoundInv
<1> QED
    BY <1>5, <1>7 DEF CacheInv

LEMMA AnswerKeeps ==
    ASSUME CacheInv, Answer
    PROVE  CacheInv'
<1>1. stack = <<>> /\ asked # NoObj /\ stack' = <<>> /\ asked' = NoObj
    BY DEF Answer
<1>2. /\ mem' = mem /\ cpu_slabs' = cpu_slabs /\ cpu_freelists' = cpu_freelists
      /\ cpu_slabs_free' = cpu_slabs_free /\ processed' = processed
      /\ said' = {<<asked, InUse(asked)>>}
      /\ errors' = errors \cup PopulateErrors(asked[1])
    BY DEF Answer, cache
<1>3. asked \in Objs /\ MemTypeOK
    BY <1>1 DEF CacheInv, CacheTypeOK
<1>4. asked[1] \in Slabs
    BY <1>3 DEF Objs
<1>5. CacheTypeOK' /\ CachedOK'
    BY <1>1, <1>2, MemFixed, CacheFixed DEF CacheInv, CacheTypeOK
<1>6. ASSUME Sound PROVE SoundMem /\ CpusRead /\ CallsOK
    BY <1>1, <1>6 DEF CacheInv, SoundInv, CallsOK
<1>7. InUseRight'
    <2>1. ASSUME InUse(asked), Sound PROVE asked \notin Free
        <3>1. \A c \in Online : mem.cpuFree[c] \subseteq Cached
            BY <1>6, <2>1 DEF CpusRead
        <3> QED
            BY <3>1, <1>3, <1>6, <2>1, UseRight
    <2>2. ASSUME ~InUse(asked) PROVE asked \in Free
        BY <1>3, <2>2, FreeRight
    <2>3. ASSUME NEW a \in said'
          PROVE  IF a[2] THEN Sound => a[1] \notin Free ELSE a[1] \in Free
        <3>1. a = <<asked, InUse(asked)>>
            BY <1>2
        <3>2. a[1] = asked /\ a[2] = InUse(asked)
            BY <3>1
        <3> QED
            BY <3>2, <2>1, <2>2
    <2> QED
        BY <2>3, <1>2, MemFixed DEF InUseRight
<1>8. ASSUME Sound PROVE SoundMem' /\ Len(stack') <= 2 /\ CallsOK' /\ NoFalseAlarm'
    <2>1. PopulateErrors(asked[1]) = {}
        BY <1>4, <1>6, <1>8, NothingPopulated
    <2>2. NoFalseAlarm'
        BY <1>2, <1>8, <2>1, Alarms, Silent
    <2>3. CpusRead'
        BY <1>2, <1>6, <1>8, CacheFixed
    <2> QED
        BY <1>1, <1>2, <1>6, <1>8, <2>2, <2>3, NoCall, MemFixed
<1>9. SoundInv'
    BY <1>2, <1>8, MemFixed DEF SoundInv
<1> QED
    BY <1>5, <1>7, <1>9 DEF CacheInv

\* A command starts a call, or an answer without one.
LEMMA NewOuter ==
    ASSUME CacheInv, Sound, stack = <<>>, NEW level \in Nat
    PROVE  Outer(ProcessAll(level))
<1> DEFINE f == ProcessAll(level)
<1>1. f.fill = (Known = {}) /\ f.pc = "begin" /\ FrameOK(f) /\ (Known = {} => Todo(f) = Online)
    BY NewCall
<1> SUFFICES Outer(f)
    OBVIOUS
<1> HIDE DEF f
<1>2. SoundMem /\ MemTypeOK /\ (CpusRead \/ (Known = {} /\ Cached = {}))
    BY DEF CacheInv, SoundInv, CallsOK, CacheTypeOK
<1>3. CASE Known # {}
    BY <1>1, <1>2, <1>3 DEF Outer
<1>4. CASE Known = {}
    <2>1. Cached = {}
        <3>1. CASE CpusRead
            <4>1. NoCpuSlabs
                BY <3>1, <1>4 DEF CpusRead, NoCpuSlabs, CpuSlabs
            <4> SUFFICES ASSUME NEW o \in Cached PROVE FALSE
                OBVIOUS
            <4>2. cpu_freelists[o] \in Online /\ o \in mem.cpuFree[cpu_freelists[o]]
                BY CachedTyped
            <4>3. o[1] \in CpuSlabs(cpu_freelists[o])
                BY <4>2, <1>2, FreeHome
            <4> QED
                BY <4>1, <4>2, <4>3 DEF NoCpuSlabs
        <3> QED
            BY <3>1, <1>2
    <2>2. \A c \in Online : \A s \in CpuSlabs(c) : Unfiled(f, s)
        BY <1>1, <1>4 DEF Unfiled
    <2>3. Filling(f)
        BY <1>1, <1>4, <2>1, <2>2 DEF Filling
    <2> QED
        BY <1>1, <1>4, <2>3 DEF Outer
<1> QED
    BY <1>3, <1>4

LEMMA Starts ==
    ASSUME CacheInv, stack = <<>>, NEW level \in Nat, stack' = <<ProcessAll(level)>>,
           mem' = mem, cpu_slabs' = cpu_slabs, cpu_freelists' = cpu_freelists,
           cpu_slabs_free' = cpu_slabs_free, processed' = processed,
           asked' \in Objs \cup {NoObj}, errors' = errors, said' = {}
    PROVE  CacheInv'
<1> DEFINE g == ProcessAll(level)
<1>1. g \in Frames /\ g.pc = "begin"
    BY NewCall
<1>2. stack' = <<g>>
    OBVIOUS
<1>3. Sound => Outer(g)
    BY NewOuter
<1> HIDE DEF g
<1>4. PICK h \in Calls : h = g
    BY <1>1 DEF Calls, Ready
<1>5. stack' = <<h>> /\ stack' \in Seq(Calls)
    BY <1>2, <1>4
<1>6. CacheTypeOK' /\ CachedOK' /\ InUseRight'
    BY <1>5, MemFixed, CacheFixed, SaidSame DEF CacheInv, CacheTypeOK
<1>7. ASSUME Sound PROVE SoundMem' /\ Len(stack') <= 2 /\ CallsOK' /\ NoFalseAlarm'
    <2>1. Outer(h)'
        BY <1>3, <1>4, <1>7, CacheFixed
    <2>2. SoundMem' /\ NoFalseAlarm'
        BY <1>7, MemFixed, Alarms, Silent DEF CacheInv, SoundInv
    <2> QED
        BY <2>1, <2>2, <1>1, <1>4, <1>5, OneCall
<1>8. SoundInv'
    BY <1>7, MemFixed DEF SoundInv
<1> QED
    BY <1>6, <1>8 DEF CacheInv

LEMMA AskKeeps ==
    ASSUME CacheInv, NEW o \in Objs, Ask(o)
    PROVE  CacheInv'
<1>1. /\ stack = <<>> /\ mem' = mem /\ cpu_slabs' = cpu_slabs
      /\ cpu_freelists' = cpu_freelists /\ cpu_slabs_free' = cpu_slabs_free
      /\ processed' = processed /\ asked' = o /\ errors' = errors /\ said' = {}
      /\ stack' = IF processed THEN <<>> ELSE <<ProcessAll(0)>>
    BY DEF Ask, cache
<1>2. CASE ~processed
    BY <1>1, <1>2, Starts
<1>3. CASE processed
    <2>1. stack' = <<>> /\ stack' \in Seq(Calls)
        BY <1>1, <1>3
    <2>2. CacheTypeOK' /\ CachedOK' /\ InUseRight'
        BY <1>1, <2>1, MemFixed, CacheFixed, SaidSame DEF CacheInv, CacheTypeOK
    <2>3. ASSUME Sound PROVE SoundMem' /\ Len(stack') <= 2 /\ CallsOK' /\ NoFalseAlarm'
        <3>1. SoundMem /\ CpusRead
            BY <1>1, <1>3, <2>3 DEF CacheInv, SoundInv, CallsOK
        <3>2. CpusRead' /\ SoundMem'
            BY <1>1, <3>1, CacheFixed, MemFixed
        <3>3. NoFalseAlarm'
            BY <1>1, <2>3, Alarms, Silent
        <3> QED
            BY <1>1, <1>3, <2>1, <3>2, <3>3, NoCall
    <2>4. SoundInv'
        BY <1>1, <2>3, MemFixed DEF SoundInv
    <2> QED
        BY <2>2, <2>4 DEF CacheInv
<1> QED
    BY <1>2, <1>3

-----------------------------------------------------------------------------
(* The theorems.                                                             *)

LEMMA CacheInit ==
    ASSUME Init
    PROVE  CacheInv
<1>1. MemTypeOK /\ (Sound => SoundMem)
    BY DumpOK DEF Init
<1>2. Known = {} /\ Cached = {}
    BY DEF Init, Known, Cached
<1>3. CacheTypeOK
    <2>1. stack \in Seq(Calls)
        BY DEF Init
    <2>2. /\ cpu_slabs \in [Slabs -> CpuRoles \cup {NoRole}]
          /\ cpu_freelists \in [Objs -> Online \cup {Nobody}]
        BY DEF Init
    <2>3. cpu_slabs_free \in Int /\ asked \in Objs \cup {NoObj}
        BY DEF Init
    <2>4. processed = FALSE
        BY DEF Init
    <2>5. processed \in BOOLEAN
        BY <2>4
    <2> QED
        BY <1>1, <2>1, <2>2, <2>3, <2>5 DEF CacheTypeOK
<1>4. CachedOK /\ InUseRight /\ NoFalseAlarm
    BY <1>2 DEF Init, CachedOK, InUseRight, NoFalseAlarm
<1>5. Len(stack) <= 2 /\ CallsOK
    <2>1. stack = <<>> /\ asked = NoObj /\ ~processed
        BY DEF Init
    <2>2. Len(stack) <= 2 /\ \A f, h : stack # <<f>> /\ stack # <<h, f>>
        BY <2>1
    <2> QED
        BY <1>2, <2>1, <2>2 DEF CallsOK
<1> QED
    BY <1>1, <1>3, <1>4, <1>5 DEF CacheInv, SoundInv

LEMMA CacheStep ==
    ASSUME GapFree, CacheInv, [Next]_vars
    PROVE  CacheInv'
<1>1. CASE UNCHANGED vars
    <2>1. /\ mem' = mem /\ cpu_slabs' = cpu_slabs /\ cpu_freelists' = cpu_freelists
          /\ cpu_slabs_free' = cpu_slabs_free /\ processed' = processed /\ stack' = stack
          /\ asked' = asked /\ errors' = errors /\ said' = said
        BY <1>1 DEF vars
    <2>2. CacheTypeOK' /\ CachedOK' /\ InUseRight'
        BY <2>1, MemFixed, CacheFixed, SaidSame DEF CacheInv, CacheTypeOK
    <2>3. CallsOK' <=> CallsOK
        BY <2>1, CacheFixed DEF CallsOK
    <2>4. SoundInv'
        BY <2>1, <2>3, MemFixed, Alarms, Silent DEF CacheInv, SoundInv
    <2> QED
        BY <2>2, <2>4 DEF CacheInv
<1>2. ASSUME NEW level \in Levels, Process(level) PROVE CacheInv'
    <2>1. level \in Nat
        BY SlubAssumption
    <2>2. /\ stack = <<>> /\ mem' = mem /\ cpu_slabs' = cpu_slabs
          /\ cpu_freelists' = cpu_freelists /\ cpu_slabs_free' = cpu_slabs_free
          /\ processed' = processed /\ asked' = NoObj /\ errors' = errors /\ said' = {}
          /\ stack' = <<ProcessAll(level)>>
        BY <1>2 DEF Process, cache
    <2> QED
        BY <2>1, <2>2, Starts
<1>3. ASSUME NEW o \in Objs, Ask(o) PROVE CacheInv'
    BY <1>3, AskKeeps
<1>4. CASE Step
    BY <1>4, BeginCpuKeeps, BeginFreeKeeps, BeginNodeKeeps, LoadKeeps, LoadFailsKeeps,
       HeaderProcessesKeeps, HeaderKeeps, NoteKeeps, EndListKeeps, FinishKeeps, AnswerKeeps
       DEF Step
<1> QED
    BY <1>1, <1>2, <1>3, <1>4 DEF Next

(***************************************************************************)
(* The invariant: while the cache is read, what is cached is what the      *)
(* outer process_all call has come past.                                   *)
(***************************************************************************)
THEOREM CacheInvariant == GapFree => (Spec => []CacheInv)
<1> SUFFICES ASSUME GapFree PROVE Spec => []CacheInv
    OBVIOUS
<1>1. Init => CacheInv
    BY CacheInit
<1>2. CacheInv /\ [Next]_vars => CacheInv'
    BY CacheStep
<1> QED
    BY <1>1, <1>2, PTL DEF Spec

(***************************************************************************)
(* Whatever is asked and however often the cache is processed, an object   *)
(* said to be in use is on no freelist of a sound cache, and one said to   *)
(* be free is on one, in every dump.                                       *)
(***************************************************************************)
THEOREM ObjectsJudgedRight == GapFree => (Spec => []InUseRight)
<1> SUFFICES ASSUME GapFree PROVE Spec => []InUseRight
    OBVIOUS
<1>1. CacheInv => InUseRight
    BY DEF CacheInv
<1> QED
    BY <1>1, CacheInvariant, PTL

(***************************************************************************)
(* The checks of process_all report nothing for a sound cache, except the  *)
(* sum of full slabs that the call started by a slab header gets wrong.    *)
(***************************************************************************)
THEOREM NoFalseAlarms == GapFree => (Spec => []NoFalseAlarm)
<1> SUFFICES ASSUME GapFree PROVE Spec => []NoFalseAlarm
    OBVIOUS
<1>1. CacheInv => NoFalseAlarm
    BY DEF CacheInv, SoundInv, NoFalseAlarm
<1> QED
    BY <1>1, CacheInvariant, PTL

-----------------------------------------------------------------------------
(***************************************************************************)
(* The roles of slabs.  What the dictionaries say of a slab is right; and  *)
(* before the first process_all has ended, the slabs of the nodes that     *)
(* they say nothing of are ahead of the call in progress.                  *)
(***************************************************************************)
Ahead(f, r, s) ==
    \E i \in DOMAIN f.work :
        /\ f.work[i] = r
        /\ f.pc = "begin" \/ i > 1 \/ \E j \in DOMAIN f.left : f.left[j] = <<s, r>>
Noted(ns, f) == \A r \in NodeRoles : \A s \in Slabs : On(s, r) => ns[s] # NoRole \/ Ahead(f, r, s)
AllNoted(ns) == \A r \in NodeRoles : \A s \in Slabs : On(s, r) => ns[s] # NoRole
FiledRight == /\ \A s \in Slabs : cpu_slabs[s] # NoRole => On(s, cpu_slabs[s])
              /\ \A s \in Slabs : node_slabs[s] # NoRole => On(s, node_slabs[s])
NodesNoted == IF processed THEN AllNoted(node_slabs)
              ELSE stack # <<>> => Noted(node_slabs, top)
\* A slab that is on no list has no free object.
UnlistedFull == \A s \in Slabs : (\A r \in Roles : ~On(s, r)) => mem.inuse[s] = NObj
RoleInv ==
    /\ node_slabs \in [Slabs -> NodeRoles \cup {NoRole}]
    /\ Sound => UnlistedFull /\ FiledRight /\ NodesNoted /\ RolesRight

LEMMA RolesFixed ==
    ASSUME mem' = mem
    PROVE  /\ \A s, r : On(s, r)' <=> On(s, r)
           /\ UnlistedFull' <=> UnlistedFull
           /\ Sound' <=> Sound
<1>1. \A s, r : On(s, r)' <=> On(s, r)
    BY DEF On
<1> QED
    BY <1>1 DEF UnlistedFull, Sound

LEMMA RolesKept ==
    ASSUME RoleInv, mem' = mem, shown' = shown \/ shown' = {}, Sound
    PROVE  RolesRight'
BY RolesFixed DEF RoleInv, RolesRight

\* A step that files and processes nothing.
LEMMA RolesQuiet ==
    ASSUME RoleInv, mem' = mem, cpu_slabs' = cpu_slabs, node_slabs' = node_slabs,
           processed' = processed, Sound => RolesRight',
           NEW g, stack' = <<>> \/ stack'[1] = g,
           Sound /\ ~processed => stack' = <<>> \/ Noted(node_slabs, g)
    PROVE  RoleInv'
<1>1. ASSUME NEW f, Noted(node_slabs, f) PROVE Noted(node_slabs, f)'
    BY <1>1, RolesFixed DEF Noted
<1>2. AllNoted(node_slabs)' <=> AllNoted(node_slabs)
    BY RolesFixed DEF AllNoted
<1>3. Sound => FiledRight'
    BY RolesFixed DEF FiledRight, RoleInv
<1>4. ASSUME Sound PROVE NodesNoted'
    <2>1. CASE processed
        BY <1>2, <1>4, <2>1 DEF NodesNoted, RoleInv
    <2>2. CASE ~processed /\ stack' = <<>>
        BY <2>2 DEF NodesNoted
    <2>3. CASE ~processed /\ stack' # <<>>
        <3>1. Noted(node_slabs, g)' /\ top' = g
            BY <1>1, <1>4, <2>3 DEF top
        <3> QED
            BY <2>3, <3>1 DEF NodesNoted, Noted, Ahead
    <2> QED
        BY <2>1, <2>2, <2>3
<1> QED
    BY <1>3, <1>4, RolesFixed DEF RoleInv

-----------------------------------------------------------------------------
\* A new call has every list of the nodes ahead of it.
LEMMA NodeWorkAll ==
    ASSUME NEW r \in NodeRoles
    PROVE  \E k \in 1..Len(NodeWork) : NodeWork[k] = r
<1> DEFINE n == Cardinality(Nodes)
           q == InOrder(Nodes)
<1>1. n \in Nat /\ q \in Seq(Nodes) /\ Len(q) = n /\ \A x \in Nodes : \E i \in 1..Len(q) : q[i] = x
    BY SlubAssumption, FS_CardinalityType, Listed
<1>2. NodeWork = [k \in 1..(2 * n) |->
                     <<IF k % 2 = 1 THEN "partial" ELSE "full", q[(k + 1) \div 2]>>]
    BY DEF NodeWork
<1>3. r = <<r[1], r[2]>> /\ r[1] \in {"partial", "full"} /\ r[2] \in Nodes
    BY Pairs DEF NodeRoles
<1> HIDE DEF n, q
<1>4. PICK j \in 1..n : q[j] = r[2]
    BY <1>1, <1>3
<1>5. /\ 2 * j - 1 \in 1..(2 * n) /\ 2 * j \in 1..(2 * n)
      /\ ((2 * j - 1) + 1) \div 2 = j /\ (2 * j + 1) \div 2 = j
      /\ (2 * j - 1) % 2 = 1 /\ (2 * j) % 2 # 1
    BY <1>1, <1>4
<1>6. NodeWork[2 * j - 1] = <<"partial", r[2]>> /\ NodeWork[2 * j] = <<"full", r[2]>>
    BY <1>2, <1>4, <1>5
<1>7. Len(NodeWork) = 2 * n
    BY <1>1, <1>2
<1> QED
    BY <1>3, <1>5, <1>6, <1>7

LEMMA NewNoted ==
    ASSUME NEW level \in Nat, NEW ns
    PROVE  Noted(ns, ProcessAll(level))
<1> DEFINE cpus == IF ~(Known = {}) /\ level = 0 THEN <<>> ELSE InOrder(Online)
           a == [k \in 1..Len(cpus) |-> <<"cpu", cpus[k]>>]
           b == <<<<"free", 0>>>>
           f == ProcessAll(level)
<1>1. f.work = a \o b \o NodeWork /\ f.pc = "begin"
    BY DEF ProcessAll
<1>2. cpus \in Seq(Online)
    BY SlubAssumption, Listed
<1> HIDE DEF f, cpus
<1>3. Len(cpus) \in Nat /\ \A k \in 1..Len(cpus) : cpus[k] \in Online
    BY <1>2
<1>4. a \in Seq(Works)
    <2>1. \A k \in 1..Len(cpus) : a[k] \in Works
        BY <1>3 DEF Works
    <2>2. a = [k \in 1..Len(cpus) |-> a[k]]
        OBVIOUS
    <2> HIDE DEF a
    <2>3. a \in [1..Len(cpus) -> Works]
        BY <2>1, <2>2
    <2> QED
        BY <1>3, <2>3
<1>5. b \in Seq(Works) /\ NodeWork \in Seq(Works)
    BY NodeWorkOK, WorkFacts DEF FreeWork
<1> HIDE DEF a, b
<1> DEFINE ab == a \o b
<1>6. ab \in Seq(Works)
    BY <1>4, <1>5, ConcatProperties
<1>7. f.work = ab \o NodeWork
    BY <1>1
<1> HIDE DEF ab
<1>8. /\ ab \o NodeWork \in Seq(Works) /\ Len(ab \o NodeWork) = Len(ab) + Len(NodeWork)
      /\ \A k \in 1..(Len(ab) + Len(NodeWork)) :
             (ab \o NodeWork)[k] = IF k <= Len(ab) THEN ab[k] ELSE NodeWork[k - Len(ab)]
    BY <1>5, <1>6, ConcatProperties
<1>9. Len(ab) \in Nat /\ Len(NodeWork) \in Nat
    BY <1>5, <1>6
<1>10. ASSUME NEW r \in NodeRoles PROVE \E i \in DOMAIN f.work : f.work[i] = r
    <2>1. PICK k \in 1..Len(NodeWork) : NodeWork[k] = r
        BY NodeWorkAll
    <2>2. /\ Len(ab) + k \in 1..(Len(ab) + Len(NodeWork)) /\ ~(Len(ab) + k <= Len(ab))
          /\ Len(ab) + k - Len(ab) = k
        BY <1>9
    <2>3. DOMAIN f.work = 1..(Len(ab) + Len(NodeWork))
        BY <1>7, <1>8
    <2>4. f.work[Len(ab) + k] = NodeWork[k]
        BY <1>7, <1>8, <2>2
    <2> QED
        BY <2>1, <2>2, <2>3, <2>4
<1> QED
    BY <1>1, <1>10 DEF Noted, Ahead, f

LEMMA SameNoted ==
    ASSUME NEW ns, NEW e, NEW g, Noted(ns, e), g.work = e.work, g.left = e.left,
           e.pc # "begin", g.pc # "begin"
    PROVE  Noted(ns, g)
BY DEF Noted, Ahead

\* The call is done with the first of its lists.
LEMMA TailNoted ==
    ASSUME NEW ns, NEW e \in Frames, NEW g, Noted(ns, e), e.work # <<>>, g.work = Tail(e.work),
           g.pc = "begin", Head(e.work) \notin NodeRoles \/ (e.pc # "begin" /\ e.left = <<>>)
    PROVE  Noted(ns, g)
<1>1. /\ DOMAIN e.work = 1..Len(e.work) /\ Len(e.work) \in Nat /\ Head(e.work) = e.work[1]
      /\ Tail(e.work) \in Seq(Works) /\ Len(Tail(e.work)) = Len(e.work) - 1
      /\ \A i \in 1..(Len(e.work) - 1) : Tail(e.work)[i] = e.work[i + 1]
    BY HeadWork
<1>2. DOMAIN g.work = 1..(Len(e.work) - 1)
    BY <1>1
<1>3. DOMAIN <<>> = {}
    OBVIOUS
<1>4. ASSUME NEW r \in NodeRoles, NEW s, Ahead(e, r, s) PROVE Ahead(g, r, s)
    <2>1. PICK i \in DOMAIN e.work :
              /\ e.work[i] = r
              /\ e.pc = "begin" \/ i > 1 \/ \E j \in DOMAIN e.left : e.left[j] = <<s, r>>
        BY <1>4 DEF Ahead
    <2>2. i > 1
        <3>1. i # 1
            BY <1>1, <1>3, <2>1
        <3> QED
            BY <1>1, <3>1
    <2>3. i - 1 \in DOMAIN g.work /\ (i - 1) + 1 = i /\ i - 1 \in 1..(Len(e.work) - 1)
        BY <1>1, <1>2, <2>2
    <2>4. g.work[i - 1] = r
        BY <1>1, <2>1, <2>3
    <2> QED
        BY <2>3, <2>4 DEF Ahead
<1> QED
    BY <1>4 DEF Noted

\* The call turns to a list.
LEMMA BeginNoted ==
    ASSUME MemTypeOK, NEW ns, NEW e \in Frames, NEW g, Noted(ns, e), e.work # <<>>, g.work = e.work,
           Head(e.work) \in NodeRoles => g.left = Items(Head(e.work))
    PROVE  Noted(ns, g)
<1>1. DOMAIN e.work = 1..Len(e.work) /\ Len(e.work) \in Nat /\ Head(e.work) = e.work[1]
    BY HeadWork
<1>2. ASSUME NEW r \in NodeRoles, NEW s \in Slabs, On(s, r), Ahead(e, r, s) PROVE Ahead(g, r, s)
    <2>1. PICK i \in DOMAIN e.work : e.work[i] = r
        BY <1>2 DEF Ahead
    <2>2. CASE i > 1
        BY <2>1, <2>2 DEF Ahead
    <2>3. CASE ~(i > 1)
        <3>1. i = 1 /\ Head(e.work) = r
            BY <1>1, <2>1, <2>3
        <3>2. /\ mem.list[r] \in Seq(Slabs) /\ Items(r) \in Seq(Slabs \X Roles)
              /\ Len(Items(r)) = Len(mem.list[r])
              /\ \A k \in 1..Len(Items(r)) : Items(r)[k] = <<mem.list[r][k], r>>
            BY NodeItems
        <3>3. PICK k \in DOMAIN mem.list[r] : mem.list[r][k] = s
            BY <1>2 DEF On
        <3>4. k \in DOMAIN Items(r) /\ Items(r)[k] = <<s, r>>
            BY <3>2, <3>3
        <3> QED
            BY <2>1, <3>1, <3>4 DEF Ahead
    <2> QED
        BY <2>2, <2>3
<1> QED
    BY <1>2 DEF Noted

\* The call is done with a slab.
LEMMA NextNoted ==
    ASSUME NEW ns, NEW ms, NEW e \in Frames, NEW g, Noted(ns, e), e.pc # "begin", e.left # <<>>,
           g.work = e.work, g.left = Tail(e.left),
           \A s \in Slabs : ns[s] # NoRole => ms[s] # NoRole,
           Head(e.left)[2] \in NodeRoles => ms[Head(e.left)[1]] # NoRole
    PROVE  Noted(ms, g)
<1>1. /\ DOMAIN e.left = 1..Len(e.left) /\ Len(e.left) \in Nat /\ Head(e.left) = e.left[1]
      /\ Tail(e.left) \in Seq(Slabs \X Roles) /\ Len(Tail(e.left)) = Len(e.left) - 1
      /\ \A i \in 1..(Len(e.left) - 1) : Tail(e.left)[i] = e.left[i + 1]
    BY HeadLeft
<1>2. DOMAIN g.left = 1..(Len(e.left) - 1)
    BY <1>1
<1>3. ASSUME NEW r \in NodeRoles, NEW s \in Slabs, Ahead(e, r, s), ms[s] = NoRole
      PROVE  Ahead(g, r, s)
    <2>1. PICK i \in DOMAIN e.work :
              e.work[i] = r /\ (i > 1 \/ \E j \in DOMAIN e.left : e.left[j] = <<s, r>>)
        BY <1>3 DEF Ahead
    <2>2. CASE i > 1
        BY <2>1, <2>2 DEF Ahead
    <2>3. CASE \E j \in DOMAIN e.left : e.left[j] = <<s, r>>
        <3>1. PICK j \in DOMAIN e.left : e.left[j] = <<s, r>>
            BY <2>3
        <3>2. j # 1
            BY <1>1, <1>3, <3>1
        <3>3. j - 1 \in 1..(Len(e.left) - 1) /\ (j - 1) + 1 = j
            BY <1>1, <3>2
        <3>4. g.left[j - 1] = <<s, r>>
            BY <1>1, <3>1, <3>3
        <3> QED
            BY <1>2, <2>1, <3>3, <3>4 DEF Ahead
    <2> QED
        BY <2>1, <2>2, <2>3
<1> QED
    BY <1>3 DEF Noted

-----------------------------------------------------------------------------
(* The steps.                                                                *)

LEMMA TopNow ==
    ASSUME CacheTypeOK, stack # <<>>, NEW g, Continue(g)
    PROVE  stack'[1] = g
<1>1. stack \in Seq(Calls) /\ stack' = [stack EXCEPT ![1] = g]
    BY DEF CacheTypeOK, Continue
<1>2. 1 \in DOMAIN stack
    BY <1>1
<1> QED
    BY <1>1, <1>2

LEMMA NowNoted ==
    ASSUME CacheInv, RoleInv, Sound, ~processed, stack # <<>>
    PROVE  Noted(node_slabs, top)
BY DEF RoleInv, NodesNoted

LEMMA BeginCpuRoles ==
    ASSUME CacheInv, RoleInv, BeginCpu
    PROVE  RoleInv'
<1> DEFINE e == top
           c == Head(e.work)[2]
           g == [e EXCEPT !.left = Items(<<"cpu", c>>), !.pc = "load", !.pages = -1, !.expected = -1]
<1>1. stack # <<>> /\ e.work # <<>> /\ Head(e.work)[1] = "cpu"
    BY DEF BeginCpu
<1>2. /\ mem' = mem /\ cpu_slabs' = cpu_slabs /\ node_slabs' = node_slabs
      /\ processed' = processed /\ shown' = shown
    BY DEF BeginCpu, output
<1>3. stack' = <<>> \/ Continue(g)
    BY DEF BeginCpu, Raise
<1>4. e \in Frames /\ MemTypeOK /\ CacheTypeOK
    BY <1>1, CallTypes DEF CacheInv, CacheTypeOK
<1>5. Sound /\ ~processed => Noted(node_slabs, e)
    BY <1>1, NowNoted
<1>6. Head(e.work) \notin NodeRoles
    BY <1>1, WorkFacts
<1> HIDE DEF e
<1>7. g.work = e.work
    BY <1>4 DEF Frames
<1> HIDE DEF g
<1>8. Sound /\ ~processed => Noted(node_slabs, g)
    BY <1>1, <1>4, <1>5, <1>6, <1>7, BeginNoted
<1>9. stack' = <<>> \/ stack'[1] = g
    BY <1>1, <1>3, <1>4, TopNow
<1>10. Sound => RolesRight'
    BY <1>2, RolesKept
<1> QED
    BY <1>2, <1>8, <1>9, <1>10, RolesQuiet

LEMMA BeginFreeRoles ==
    ASSUME CacheInv, RoleInv, BeginFree
    PROVE  RoleInv'
<1> DEFINE e == top
           g == [e EXCEPT !.work = Tail(@), !.nr_free_objs = cpu_slabs_free + Cardinality(Cached)]
<1>1. stack # <<>> /\ e.work # <<>> /\ Head(e.work)[1] = "free" /\ e.pc = "begin"
    BY DEF BeginFree
<1>2. /\ mem' = mem /\ cpu_slabs' = cpu_slabs /\ node_slabs' = node_slabs
      /\ processed' = processed /\ shown' = shown
    BY DEF BeginFree, output, cache
<1>3. Continue(g)
    BY DEF BeginFree
<1>4. e \in Frames /\ CacheTypeOK
    BY <1>1, CallTypes DEF CacheInv
<1>5. Sound /\ ~processed => Noted(node_slabs, e)
    BY <1>1, NowNoted
<1>6. Head(e.work) \notin NodeRoles
    BY <1>1, WorkFacts
<1> HIDE DEF e
<1>7. g.work = Tail(e.work) /\ g.pc = "begin"
    BY <1>1, <1>4 DEF Frames
<1> HIDE DEF g
<1>8. Sound /\ ~processed => Noted(node_slabs, g)
    BY <1>1, <1>4, <1>5, <1>6, <1>7, TailNoted
<1>9. stack'[1] = g
    BY <1>1, <1>3, <1>4, TopNow
<1>10. Sound => RolesRight'
    BY <1>2, RolesKept
<1> QED
    BY <1>2, <1>8, <1>9, <1>10, RolesQuiet

LEMMA BeginNodeRoles ==
    ASSUME CacheInv, RoleInv, BeginNode
    PROVE  RoleInv'
<1> DEFINE e == top
           g == [e EXCEPT !.left = Items(Head(e.work)), !.pc = "load"]
<1>1. stack # <<>> /\ e.work # <<>>
    BY DEF BeginNode
<1>2. /\ mem' = mem /\ cpu_slabs' = cpu_slabs /\ node_slabs' = node_slabs
      /\ processed' = processed /\ shown' = shown
    BY DEF BeginNode, output, cache
<1>3. Continue(g)
    BY DEF BeginNode
<1>4. e \in Frames /\ CacheTypeOK /\ MemTypeOK
    BY <1>1, CallTypes DEF CacheInv, CacheTypeOK
<1>5. Sound /\ ~processed => Noted(node_slabs, e)
    BY <1>1, NowNoted
<1> HIDE DEF e
<1>7. g.work = e.work /\ g.left = Items(Head(e.work))
    BY <1>4 DEF Frames
<1> HIDE DEF g
<1>8. Sound /\ ~processed => Noted(node_slabs, g)
    BY <1>1, <1>4, <1>5, <1>7, BeginNoted
<1>9. stack'[1] = g
    BY <1>1, <1>3, <1>4, TopNow
<1>10. Sound => RolesRight'
    BY <1>2, RolesKept
<1> QED
    BY <1>2, <1>8, <1>9, <1>10, RolesQuiet

LEMMA EndListRoles ==
    ASSUME CacheInv, RoleInv, EndList
    PROVE  RoleInv'
<1> DEFINE e == top
           g == [e EXCEPT !.work = Tail(@), !.pc = "begin"]
<1>1. stack # <<>> /\ e.pc = "load" /\ e.left = <<>>
    BY DEF EndList
<1>2. /\ mem' = mem /\ cpu_slabs' = cpu_slabs /\ node_slabs' = node_slabs
      /\ processed' = processed /\ shown' = shown
    BY DEF EndList, output, cache
<1>3. Continue(g)
    BY DEF EndList
<1>4. e \in Frames /\ Ready(e) /\ CacheTypeOK
    BY <1>1, CallTypes DEF CacheInv
<1>5. Sound /\ ~processed => Noted(node_slabs, e)
    BY <1>1, NowNoted
<1> HIDE DEF e
<1>6. e.work # <<>>
    BY <1>1, <1>4 DEF Ready
<1>7. g.work = Tail(e.work) /\ g.pc = "begin"
    BY <1>4 DEF Frames
<1> HIDE DEF g
<1>8. Sound /\ ~processed => Noted(node_slabs, g)
    BY <1>1, <1>4, <1>5, <1>6, <1>7, TailNoted
<1>9. stack'[1] = g
    BY <1>1, <1>3, <1>4, TopNow
<1>10. Sound => RolesRight'
    BY <1>2, RolesKept
<1> QED
    BY <1>2, <1>8, <1>9, <1>10, RolesQuiet

\* The slab a call looks at is on the list it looks at it for.
LEMMA LooksRight ==
    ASSUME CacheInv, Sound, stack # <<>>, top.pc # "begin", top.left # <<>>
    PROVE  /\ Head(top.left)[1] \in Slabs /\ Head(top.left)[2] \in Roles
           /\ On(Head(top.left)[1], Head(top.left)[2])
<1>1. top \in Frames /\ MemTypeOK /\ FrameOK(top)
    BY CallTypes, TopOK DEF CacheInv, CacheTypeOK
<1> DEFINE e == top
           w == Head(e.work)
           k == Offset(e) + 1
<1>2. w \in Works /\ k \in DOMAIN Items(w) /\ Head(e.left) = Items(w)[k]
    BY <1>1, HeadItem DEF FrameOK
<1>3. Items(w)[k][1] \in Slabs /\ Items(w)[k][2] \in Roles /\ On(Items(w)[k][1], Items(w)[k][2])
    BY <1>1, <1>2, ItemOn
<1> QED
    BY <1>2, <1>3

LEMMA LoadRoles ==
    ASSUME CacheInv, RoleInv, Load
    PROVE  RoleInv'
<1> DEFINE e == top
           s == Head(e.left)[1]
           role == Head(e.left)[2]
           pc == IF e.level >= HeaderLevel(role) THEN "header" ELSE "note"
           g == [e EXCEPT !.pc = pc]
<1>1. stack # <<>> /\ e.pc = "load" /\ e.left # <<>>
    BY DEF Load
<1>2. /\ mem' = mem /\ node_slabs' = node_slabs /\ processed' = processed /\ shown' = shown
    BY DEF Load, output
<1>3. Continue(g)
    BY DEF Load
<1>4. cpu_slabs' = cpu_slabs \/ cpu_slabs' = [cpu_slabs EXCEPT ![s] = role]
    BY DEF Load, add_percpu_slub
<1>5. /\ e \in Frames /\ CacheTypeOK /\ cpu_slabs \in [Slabs -> CpuRoles \cup {NoRole}]
    BY <1>1, CallTypes DEF CacheInv, CacheTypeOK
<1>6. Sound /\ ~processed => Noted(node_slabs, e)
    BY <1>1, NowNoted
<1>7. Sound => s \in Slabs /\ On(s, role)
    BY <1>1, LooksRight
<1> HIDE DEF e
<1>8. g.work = e.work /\ g.left = e.left /\ g.pc # "begin"
    BY <1>5 DEF Frames
<1> HIDE DEF g, s, role
<1>9. Sound /\ ~processed => Noted(node_slabs, g)
    BY <1>1, <1>6, <1>8, SameNoted
<1>10. stack'[1] = g
    BY <1>1, <1>3, <1>5, TopNow DEF e
<1>11. Sound => RolesRight'
    BY <1>2, RolesKept
<1>12. ASSUME Sound PROVE FiledRight'
    <2>1. ASSUME NEW x \in Slabs, cpu_slabs'[x] # NoRole PROVE On(x, cpu_slabs'[x])
        <3>1. CASE cpu_slabs'[x] = cpu_slabs[x]
            BY <1>12, <2>1, <3>1 DEF RoleInv, FiledRight
        <3>2. CASE cpu_slabs'[x] # cpu_slabs[x]
            BY <1>4, <1>5, <1>7, <1>12, <2>1, <3>2
        <3> QED
            BY <3>1, <3>2
    <2> QED
        BY <1>2, <1>12, <2>1, RolesFixed DEF RoleInv, FiledRight
<1>13. ASSUME Sound PROVE NodesNoted'
    <2>1. CASE processed
        BY <1>2, <1>13, <2>1, RolesFixed DEF NodesNoted, RoleInv, AllNoted
    <2>2. CASE ~processed
        <3>1. Noted(node_slabs, g) /\ top' = g
            BY <1>9, <1>10, <1>13, <2>2 DEF top
        <3> QED
            BY <1>2, <2>2, <3>1, RolesFixed DEF NodesNoted, Noted, Ahead
    <2> QED
        BY <2>1, <2>2
<1> QED
    BY <1>2, <1>11, <1>12, <1>13, RolesFixed DEF RoleInv

LEMMA LoadFailsRoles ==
    ASSUME CacheInv, RoleInv, LoadFails
    PROVE  RoleInv'
<1>1. /\ mem' = mem /\ cpu_slabs' = cpu_slabs /\ node_slabs' = node_slabs
      /\ processed' = processed /\ shown' = shown /\ stack' = <<>>
    BY DEF LoadFails, Raise, cache, output
<1>2. Sound => RolesRight'
    BY <1>1, RolesKept
<1> QED
    BY <1>1, <1>2, RolesQuiet

\* Commands and headers start a call.
LEMMA StartRoles ==
    ASSUME RoleInv, NEW level \in Nat, stack' = <<>> \/ stack'[1] = ProcessAll(level),
           mem' = mem, cpu_slabs' = cpu_slabs, node_slabs' = node_slabs,
           processed' = processed, shown' = shown \/ shown' = {}
    PROVE  RoleInv'
<1>1. Noted(node_slabs, ProcessAll(level))
    BY NewNoted
<1>2. Sound => RolesRight'
    BY RolesKept
<1> DEFINE g == ProcessAll(level)
<1>3. stack' = <<>> \/ stack'[1] = g
    OBVIOUS
<1>4. Noted(node_slabs, g)
    BY <1>1
<1> HIDE DEF g
<1> QED
    BY <1>2, <1>3, <1>4, RolesQuiet

LEMMA HeaderProcessesRoles ==
    ASSUME CacheInv, RoleInv, HeaderProcesses
    PROVE  RoleInv'
<1>1. /\ mem' = mem /\ cpu_slabs' = cpu_slabs /\ node_slabs' = node_slabs
      /\ processed' = processed /\ shown' = shown
      /\ stack' = <<ProcessAll(0), [top EXCEPT !.pc = "role"]>> \o Tail(stack)
    BY DEF HeaderProcesses, cache, output
<1>2. Tail(stack) \in Seq(Calls)
    BY CallTypes DEF CacheInv, HeaderProcesses
<1> DEFINE g == ProcessAll(0)
           d == [top EXCEPT !.pc = "role"]
<1>3. stack' = <<g, d>> \o Tail(stack)
    BY <1>1
<1> HIDE DEF g, d
<1>4. stack'[1] = g
    BY <1>2, <1>3
<1>5. ASSUME NEW level \in Nat, level = 0 PROVE stack'[1] = ProcessAll(level)
    BY <1>4, <1>5 DEF g
<1>6. ASSUME NEW level \in Nat, level = 0 PROVE RoleInv'
    BY <1>1, <1>5, <1>6, StartRoles
<1> QED
    BY <1>6

LEMMA NoteRoles ==
    ASSUME CacheInv, RoleInv, Note
    PROVE  RoleInv'
<1> DEFINE e == top
           s == Head(e.left)[1]
           role == Head(e.left)[2]
           ns == IF role \in NodeRoles /\ ~processed
                 THEN [node_slabs EXCEPT ![s] = role] ELSE node_slabs
<1>1. stack # <<>> /\ e.pc = "note"
    BY DEF Note
<1>2. /\ mem' = mem /\ cpu_slabs' = cpu_slabs /\ processed' = processed /\ shown' = shown
      /\ node_slabs' = ns
    BY DEF Note, NotesRole
<1>3. PICK p, x, nf, nl : Continue([e EXCEPT !.pc = "load", !.left = After(@), !.pages = p,
                                      !.expected = x, !.nr_free_objs = nf, !.nr_full_list = nl])
    <2>1. Continue([e EXCEPT
                  !.pc = "load", !.left = After(@),
                  !.pages = IF role[1] = "cpu partial" THEN mem.pages[s] ELSE @,
                  !.expected = IF role[1] = "cpu partial" THEN mem.pages[s] - 1 ELSE @,
                  !.nr_free_objs = IF role[1] = "partial"
                                   THEN @ + (NObj - mem.inuse[s]) ELSE @,
                  !.nr_full_list = IF role[1] = "full" THEN @ + 1 ELSE @])
        BY DEF Note
    <2> QED
        BY <2>1
<1> DEFINE g == [e EXCEPT !.pc = "load", !.left = After(@), !.pages = p,
                          !.expected = x, !.nr_free_objs = nf, !.nr_full_list = nl]
<1>4. Continue(g)
    BY <1>3
<1>5. e \in Frames /\ Ready(e) /\ CacheTypeOK
    BY <1>1, CallTypes DEF CacheInv
<1>6. Sound /\ ~processed => Noted(node_slabs, e)
    BY <1>1, NowNoted
<1>7. e.left # <<>>
    BY <1>1, <1>5 DEF Ready
<1>8. Sound => s \in Slabs /\ On(s, role)
    BY <1>1, <1>7, LooksRight
<1>14. s \in Slabs
    BY <1>5, <1>7, HeadLeft
<1> HIDE DEF e
<1>9. g.work = e.work /\ g.left = After(e.left) /\ g.pc # "begin"
    BY <1>5 DEF Frames
<1>18. Sound => After(e.left) = Tail(e.left)
    <2>1. e.left \in Seq(Slabs \X Roles) /\ MemTypeOK
        BY <1>5 DEF Frames, CacheTypeOK
    <2>2. Sound => NoCircle
        BY DEF CacheInv, SoundInv, SoundMem, CountersAgree
    <2> QED
        BY <2>1, <2>2, <1>7, AfterTyped
<1> HIDE DEF g
<1>10. node_slabs \in [Slabs -> NodeRoles \cup {NoRole}] /\ NoRole \notin NodeRoles
    BY DEF RoleInv, NodeRoles, NoRole
<1>11. /\ ns \in [Slabs -> NodeRoles \cup {NoRole}]
       /\ \A t \in Slabs : ns[t] = node_slabs[t] \/ (t = s /\ ns[t] = role /\ role \in NodeRoles)
       /\ role \in NodeRoles /\ ~processed => ns[s] = role
       /\ processed => ns = node_slabs
    BY <1>10, <1>14
<1> HIDE DEF ns
<1>12. ASSUME Sound, ~processed PROVE Noted(ns, g)
    <2>1. \A t \in Slabs : node_slabs[t] # NoRole => ns[t] # NoRole
        BY <1>10, <1>11
    <2>2. Head(e.left)[2] \in NodeRoles => ns[Head(e.left)[1]] # NoRole
        BY <1>10, <1>11, <1>12
    <2>3. g.left = Tail(e.left)
        BY <1>9, <1>12, <1>18
    <2> QED
        BY <1>1, <1>5, <1>6, <1>7, <1>9, <1>12, <2>1, <2>2, <2>3, NextNoted
<1>13. stack'[1] = g
    BY <1>1, <1>4, <1>5, TopNow DEF e
<1> HIDE DEF s, role
<1>15. Sound => RolesRight'
    BY <1>2, RolesKept
<1>16. ASSUME Sound PROVE FiledRight'
    <2>1. ASSUME NEW t \in Slabs, ns[t] # NoRole PROVE On(t, ns[t])
        <3>1. CASE ns[t] = node_slabs[t]
            BY <1>16, <2>1, <3>1 DEF RoleInv, FiledRight
        <3>2. CASE t = s /\ ns[t] = role
            BY <1>8, <1>16, <3>2
        <3> QED
            BY <1>11, <3>1, <3>2
    <2> QED
        BY <1>2, <1>16, <2>1, RolesFixed DEF RoleInv, FiledRight
<1>17. ASSUME Sound PROVE NodesNoted'
    <2>1. CASE processed
        BY <1>2, <1>11, <1>17, <2>1, RolesFixed DEF NodesNoted, RoleInv, AllNoted
    <2>2. CASE ~processed
        <3>1. Noted(ns, g) /\ top' = g
            BY <1>12, <1>13, <1>17, <2>2 DEF top
        <3> QED
            BY <1>2, <2>2, <3>1, RolesFixed DEF NodesNoted, Noted, Ahead
    <2> QED
        BY <2>1, <2>2
<1> QED
    BY <1>2, <1>11, <1>15, <1>16, <1>17, RolesFixed DEF RoleInv

LEMMA FinishRoles ==
    ASSUME CacheInv, RoleInv, Finish
    PROVE  RoleInv'
<1>1. /\ stack # <<>> /\ top.work = <<>> /\ mem' = mem /\ cpu_slabs' = cpu_slabs
      /\ node_slabs' = node_slabs /\ processed' = TRUE /\ shown' = shown
    BY DEF Finish
<1>2. ASSUME Sound PROVE AllNoted(node_slabs)
    <2>1. CASE processed
        BY <1>2, <2>1 DEF RoleInv, NodesNoted
    <2>2. CASE ~processed
        <3>1. Noted(node_slabs, top)
            BY <1>1, <1>2, <2>2, NowNoted
        <3>2. DOMAIN top.work = {}
            BY <1>1
        <3> QED
            BY <3>1, <3>2 DEF Noted, Ahead, AllNoted
    <2> QED
        BY <2>1, <2>2
<1>3. Sound => NodesNoted'
    BY <1>1, <1>2, RolesFixed DEF NodesNoted, AllNoted
<1>4. Sound => FiledRight'
    BY <1>1, RolesFixed DEF FiledRight, RoleInv
<1>5. Sound => RolesRight'
    BY <1>1, RolesKept
<1> QED
    BY <1>1, <1>3, <1>4, <1>5, RolesFixed DEF RoleInv

-----------------------------------------------------------------------------
(* What slab_role says.                                                      *)
RoleOf(s, r) == \/ r \in Roles /\ On(s, r)
                \/ r = Untracked /\ \A q \in Roles : ~On(s, q)

\* A CPU's slab must have been filed when its role is asked for.
LEMMA RoleTold ==
    ASSUME CacheInv, RoleInv, Sound, processed, NEW s \in Slabs,
           \A r \in CpuRoles : On(s, r) => cpu_slabs[s] # NoRole
    PROVE  RoleOf(s, slab_role(s))
<1>1. /\ cpu_slabs \in [Slabs -> CpuRoles \cup {NoRole}]
      /\ node_slabs \in [Slabs -> NodeRoles \cup {NoRole}]
    BY DEF CacheInv, CacheTypeOK, RoleInv
<1>2. FiledRight /\ AllNoted(node_slabs) /\ UnlistedFull
    BY DEF RoleInv, NodesNoted
<1>3. CASE cpu_slabs[s] # NoRole
    BY <1>1, <1>2, <1>3 DEF slab_role, RoleOf, FiledRight, Roles
<1>4. CASE cpu_slabs[s] = NoRole /\ node_slabs[s] # NoRole
    BY <1>1, <1>2, <1>4 DEF slab_role, RoleOf, FiledRight, Roles
<1>5. CASE cpu_slabs[s] = NoRole /\ node_slabs[s] = NoRole
    <2>1. \A r \in Roles : ~On(s, r)
        BY <1>2, <1>5 DEF AllNoted, Roles
    <2>2. NObj - mem.inuse[s] = 0
        BY <1>2, <2>1, SlubAssumption DEF UnlistedFull
    <2> QED
        BY <1>5, <2>1, <2>2 DEF slab_role, RoleOf
<1> QED
    BY <1>3, <1>4, <1>5

LEMMA ToldRight ==
    ASSUME MemTypeOK, mem' = mem, NEW s, NEW r, shown' = {<<s, r>>}, RoleOf(s, r)
    PROVE  RolesRight'
<1>1. DOMAIN mem.list = Roles
    BY DEF MemTypeOK, FieldsOK
<1>2. CASE r \in Roles /\ On(s, r)
    <2>1. Contains(mem.list[r], s)
        BY <1>2, OnTyped
    <2> QED
        BY <1>1, <1>2, <2>1 DEF RolesRight
<1>3. CASE r = Untracked /\ \A q \in Roles : ~On(s, q)
    <2>1. \A q \in Roles : ~Contains(mem.list[q], s)
        BY <1>3, OnTyped
    <2> QED
        BY <1>1, <1>3, <2>1 DEF RolesRight
<1> QED
    BY <1>2, <1>3 DEF RoleOf

\* Once the CPUs are read, every slab of theirs is filed.
LEMMA ReadFiled ==
    ASSUME MemTypeOK, CpusRead, NEW s \in Slabs, NEW r \in CpuRoles, On(s, r)
    PROVE  cpu_slabs[s] # NoRole
<1>1. r[2] \in Online /\ s \in CpuSlabs(r[2])
    BY RoleFacts, CpuSlabsOn
<1> QED
    BY <1>1 DEF CpusRead, Known

\* At its header, a slab of a CPU is filed.
LEMMA HeaderFiled ==
    ASSUME CacheInv, Sound, stack # <<>>, top.pc \in {"header", "role"},
           NEW r \in CpuRoles, Head(top.left)[1] \in Slabs, On(Head(top.left)[1], r)
    PROVE  cpu_slabs[Head(top.left)[1]] # NoRole
<1> DEFINE e == top
           s == Head(e.left)[1]
           c == r[2]
<1>1. e \in Frames /\ MemTypeOK /\ SoundMem /\ FrameOK(e) /\ Outer(e)
    BY CallTypes, TopOK DEF CacheInv, CacheTypeOK, Inner
<1>2. c \in Online /\ s \in CpuSlabs(c)
    BY <1>1, RoleFacts, CpuSlabsOn
<1>3. CASE e.fill
    <2>1. ~Unfiled(e, s)
        BY <1>1, <1>2, HeadFiled
    <2> QED
        BY <1>1, <1>2, <1>3, <2>1 DEF Outer, Filling, Known
<1>4. CASE ~e.fill
    BY <1>1, <1>4, ReadFiled DEF Outer
<1> QED
    BY <1>3, <1>4

LEMMA HeaderRoles ==
    ASSUME CacheInv, RoleInv, Header
    PROVE  RoleInv'
<1> DEFINE s == Head(top.left)[1]
<1>1. /\ stack # <<>> /\ top.pc \in {"header", "role"}
      /\ (top.pc = "header" => processed)
      /\ shown' = {<<s, slab_role(s)>>} /\ Continue([top EXCEPT !.pc = "note"])
    BY DEF Header
<1>2. /\ mem' = mem /\ cpu_slabs' = cpu_slabs /\ node_slabs' = node_slabs /\ processed' = processed
    BY DEF Header, cache
<1>3. top \in Frames /\ top.left # <<>> /\ MemTypeOK /\ CacheTypeOK
    BY <1>1, CallTypes DEF CacheInv, CacheTypeOK, Ready
<1>4. s \in Slabs
    BY <1>3, HeadLeft
<1>8. Sound => processed
    BY <1>1, TopOK DEF Inner
<1>5. ASSUME Sound PROVE RolesRight'
    <2>1. \A r \in CpuRoles : On(s, r) => cpu_slabs[s] # NoRole
        BY <1>1, <1>4, <1>5, HeaderFiled
    <2> HIDE DEF s
    <2>2. RoleOf(s, slab_role(s))
        BY <1>4, <1>5, <1>8, <2>1, RoleTold
    <2> DEFINE r == slab_role(s)
    <2>3. RoleOf(s, r) /\ shown' = {<<s, r>>}
        BY <1>1, <2>2
    <2> HIDE DEF r
    <2> QED
        BY <1>2, <1>3, <2>3, ToldRight
<1> DEFINE g == [top EXCEPT !.pc = "note"]
<1>6. Continue(g)
    BY <1>1
<1> HIDE DEF g
<1>7. stack'[1] = g
    BY <1>1, <1>3, <1>6, TopNow
<1> QED
    BY <1>2, <1>5, <1>7, <1>8, RolesQuiet

LEMMA AnswerRoles ==
    ASSUME CacheInv, RoleInv, Answer
    PROVE  RoleInv'
<1> DEFINE s == asked[1]
<1>1. /\ stack = <<>> /\ asked # NoObj /\ stack' = <<>> /\ shown' = {<<s, slab_role(s)>>}
      /\ mem' = mem /\ cpu_slabs' = cpu_slabs /\ node_slabs' = node_slabs /\ processed' = processed
    BY DEF Answer, cache
<1>2. asked \in Objs /\ MemTypeOK
    BY <1>1 DEF CacheInv, CacheTypeOK
<1>3. s \in Slabs
    BY <1>2 DEF Objs
<1> HIDE DEF s
<1>4. ASSUME Sound PROVE RolesRight'
    <2>1. processed /\ CpusRead
        BY <1>1, <1>4 DEF CacheInv, SoundInv, CallsOK
    <2>2. \A r \in CpuRoles : On(s, r) => cpu_slabs[s] # NoRole
        BY <1>2, <1>3, <2>1, ReadFiled
    <2>3. RoleOf(s, slab_role(s))
        BY <1>3, <1>4, <2>1, <2>2, RoleTold
    <2> DEFINE r == slab_role(s)
    <2>4. RoleOf(s, r) /\ shown' = {<<s, r>>}
        BY <1>1, <2>3
    <2> HIDE DEF r
    <2> QED
        BY <1>1, <1>2, <2>4, ToldRight
<1> QED
    BY <1>1, <1>4, RolesQuiet

LEMMA AskRoles ==
    ASSUME RoleInv, NEW o \in Objs, Ask(o)
    PROVE  RoleInv'
<1>1. /\ mem' = mem /\ cpu_slabs' = cpu_slabs /\ node_slabs' = node_slabs
      /\ processed' = processed /\ shown' = {}
      /\ stack' = IF processed THEN <<>> ELSE <<ProcessAll(0)>>
    BY DEF Ask, cache
<1> DEFINE g == ProcessAll(0)
<1>2. stack' = <<>> \/ stack' = <<g>>
    BY <1>1
<1> HIDE DEF g
<1>3. stack' = <<>> \/ stack'[1] = g
    BY <1>2
<1>4. ASSUME NEW level \in Nat, level = 0 PROVE stack' = <<>> \/ stack'[1] = ProcessAll(level)
    BY <1>3, <1>4 DEF g
<1>5. ASSUME NEW level \in Nat, level = 0 PROVE RoleInv'
    BY <1>1, <1>4, <1>5, StartRoles
<1> QED
    BY <1>5

LEMMA DumpUnlisted ==
    ASSUME Dumped, Sound
    PROVE  UnlistedFull
<1>1. PICK role \in [Slabs -> Places], obj \in [Objs -> States], tracks \in BOOLEAN :
          /\ Consistent(role, obj, tracks)
          /\ mem \in Variants(Memory(role, obj, tracks))
    BY DEF Dumped, Places, States
<1> DEFINE m == Memory(role, obj, tracks)
<1>2. IsMemory(m, role, obj, tracks)
    BY MemoryShape
<1>3. IsMemory(mem, role, obj, tracks)
    <2> HIDE DEF m
    <2>1. mem \in Variants(m) /\ m \in Shape
        BY <1>1, <1>2 DEF m, IsMemory
    <2>2. mem = m
        BY <2>1, VariantOK DEF Sound
    <2> QED
        BY <1>2, <2>2
<1>4. /\ \A s \in Slabs : mem.pageFree[s] = {o \in ObjsOf(s) : obj[o] = "page"}
      /\ \A s \in Slabs : mem.inuse[s] = NObj - Cardinality(mem.pageFree[s])
      /\ \A r \in Roles : mem.list[r] = At(role, r)
    BY <1>3 DEF IsMemory
<1> HIDE DEF m
<1>5. ASSUME NEW s \in Slabs, \A r \in Roles : ~On(s, r) PROVE mem.inuse[s] = NObj
    <2>1. role[s] \notin Roles
        <3>1. ASSUME role[s] \in Roles PROVE FALSE
            <4>1. \E i \in DOMAIN At(role, role[s]) : At(role, role[s])[i] = s
                BY ListOf
            <4> QED
                BY <1>4, <1>5, <3>1, <4>1 DEF On
        <3> QED
            BY <3>1
    <2>2. role[s] = Untracked
        BY <2>1 DEF Places, Roles
    <2>3. role[s][1] \notin {"partial", "cpu partial"} /\ role[s][1] # "full"
        <3>1. Untracked[1] = "untracked full"
            BY DEF Untracked
        <3>2. role[s][1] = "untracked full"
            BY <2>2, <3>1
        <3> QED
            BY <3>2
    <2>4. {o \in ObjsOf(s) : obj[o] = "page"} = {}
        BY <1>1, <2>2, <2>3 DEF Consistent
    <2>5. Cardinality(mem.pageFree[s]) = 0
        BY <1>4, <2>4, FS_EmptySet
    <2> QED
        BY <1>4, <2>5, SlubAssumption
<1> QED
    BY <1>5 DEF UnlistedFull

LEMMA RoleInit ==
    ASSUME Init
    PROVE  RoleInv
<1>1. /\ cpu_slabs = [s \in Slabs |-> NoRole] /\ node_slabs = [s \in Slabs |-> NoRole]
      /\ stack = <<>> /\ shown = {} /\ processed = FALSE /\ Dumped
    BY DEF Init
<1>2. Sound => UnlistedFull
    BY <1>1, DumpUnlisted
<1>3. FiledRight /\ NodesNoted /\ RolesRight
    BY <1>1 DEF FiledRight, NodesNoted, RolesRight
<1>4. node_slabs \in [Slabs -> NodeRoles \cup {NoRole}]
    BY <1>1
<1> QED
    BY <1>2, <1>3, <1>4 DEF RoleInv

LEMMA RoleStep ==
    ASSUME CacheInv, RoleInv, [Next]_vars
    PROVE  RoleInv'
<1>1. CASE UNCHANGED vars
    <2>1. /\ mem' = mem /\ cpu_slabs' = cpu_slabs /\ node_slabs' = node_slabs
          /\ processed' = processed /\ stack' = stack /\ shown' = shown
        BY <1>1 DEF vars
    <2>2. Sound => RolesRight'
        BY <2>1, RolesKept
    <2>3. Sound /\ ~processed => stack' = <<>> \/ Noted(node_slabs, top)
        BY <2>1, NowNoted
    <2>4. stack' = <<>> \/ stack'[1] = top
        BY <2>1 DEF top
    <2> QED
        BY <2>1, <2>2, <2>3, <2>4, RolesQuiet
<1>2. ASSUME NEW level \in Levels, Process(level) PROVE RoleInv'
    <2>1. level \in Nat
        BY SlubAssumption
    <2>2. /\ mem' = mem /\ cpu_slabs' = cpu_slabs /\ node_slabs' = node_slabs
          /\ processed' = processed /\ shown' = {} /\ stack' = <<ProcessAll(level)>>
        BY <1>2 DEF Process, cache
    <2>3. stack'[1] = ProcessAll(level)
        BY <2>2
    <2> QED
        BY <2>1, <2>2, <2>3, StartRoles
<1>3. ASSUME NEW o \in Objs, Ask(o) PROVE RoleInv'
    BY <1>3, AskRoles
<1>4. CASE Step
    BY <1>4, BeginCpuRoles, BeginFreeRoles, BeginNodeRoles, LoadRoles, LoadFailsRoles,
       HeaderProcessesRoles, HeaderRoles, NoteRoles, EndListRoles, FinishRoles, AnswerRoles
       DEF Step
<1> QED
    BY <1>1, <1>2, <1>3, <1>4 DEF Next

(***************************************************************************)
(* The invariant behind the roles: the dictionaries hold nothing wrong,    *)
(* and a slab of a node that node_slabs does not have yet is ahead of the  *)
(* innermost process_all, which is the one that sets processed.            *)
(***************************************************************************)
THEOREM RoleInvariant == GapFree => (Spec => []RoleInv)
<1> SUFFICES ASSUME GapFree PROVE Spec => []RoleInv
    OBVIOUS
<1>1. Init => RoleInv
    BY RoleInit
<1>2. CacheInv /\ RoleInv /\ [Next]_vars => RoleInv'
    BY RoleStep
<1> QED
    BY <1>1, <1>2, CacheInvariant, PTL DEF Spec

(***************************************************************************)
(* slab_role is right whenever it is printed: a slab of a sound cache is   *)
(* shown under the list it is on, or as untracked if it is on none, by     *)
(* `kmem addr' and by a header, the first header included, which prints    *)
(* while the outer process_all is still reading the CPUs.                  *)
(***************************************************************************)
THEOREM RolesShownRight == GapFree => (Spec => []RolesRight)
<1> SUFFICES ASSUME GapFree PROVE Spec => []RolesRight
    OBVIOUS
<1>1. RoleInv => RolesRight
    BY DEF RoleInv, RolesRight
<1> QED
    BY <1>1, RoleInvariant, PTL
=============================================================================
