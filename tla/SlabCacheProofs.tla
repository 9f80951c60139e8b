--------------------------- MODULE SlabCacheProofs ---------------------------
(***************************************************************************)
(* Proofs about SlabCache for every number of slabs, objects, CPUs and     *)
(* nodes, and any number of objects in the array caches.                   *)
(***************************************************************************)
EXTENDS SlabCache, FiniteSetTheorems, SequenceTheorems, LeastElement

-----------------------------------------------------------------------------
(* Sets listed in sequences.                                                 *)

\* SetToSeq lists every member once.
LEMMA SetListed ==
    ASSUME NEW S, IsFiniteSet(S)
    PROVE  /\ SetToSeq(S) \in Seq(S)
           /\ \A i, j \in DOMAIN SetToSeq(S) : SetToSeq(S)[i] = SetToSeq(S)[j] => i = j
           /\ \A x \in S : \E i \in DOMAIN SetToSeq(S) : SetToSeq(S)[i] = x
<1> DEFINE n == Cardinality(S)
           f == SetToSeq(S)
<1>1. \E g \in [1..n -> S] : IsInjective(g)
    <2>1. PICK g \in [1..n -> S] : \A i, j \in 1..n : g[i] = g[j] => i = j
        BY Enumeration
    <2> QED
        BY <2>1 DEF IsInjective
<1>2. f \in [1..n -> S] /\ IsInjective(f)
    BY <1>1 DEF SetToSeq
<1> HIDE DEF f
<1>3. \A i, j \in 1..n : f[i] = f[j] => i = j
    BY <1>2 DEF IsInjective
<1>4. f \in Seq(S) /\ \A x \in S : \E i \in 1..n : f[i] = x
    BY <1>2, <1>3, Enumeration
<1> QED
    BY <1>2, <1>3, <1>4 DEF f

\* InOrder lists every member of a finite set of naturals once.
LEMMA OrderListed ==
    ASSUME NEW S \in SUBSET Nat, IsFiniteSet(S)
    PROVE  /\ InOrder(S) \in Seq(S) /\ Len(InOrder(S)) = Cardinality(S)
           /\ \A i, j \in 1..Len(InOrder(S)) : InOrder(S)[i] = InOrder(S)[j] => i = j
           /\ \A x \in S : \E i \in 1..Len(InOrder(S)) : InOrder(S)[i] = x
<1> DEFINE n == Cardinality(S)
           f == InOrder(S)
<1>1. \E q \in [1..n -> S] : \A i, j \in DOMAIN q : i < j => q[i] < q[j]
    <2>1. PICK q \in [1..n -> S] : \A i, j \in 1..n : i < j => q[i] < q[j]
        BY OrderExists
    <2> QED
        BY <2>1
<1>2. f \in [1..n -> S] /\ \A i, j \in DOMAIN f : i < j => f[i] < f[j]
    BY <1>1 DEF InOrder
<1> HIDE DEF f
<1>3. \A i, j \in 1..n : i < j => f[i] < f[j]
    BY <1>2
<1>4. f \in Seq(S) /\ Len(f) = n /\ \A x \in S : \E i \in 1..n : f[i] = x
    BY <1>2, <1>3, Ascending
<1>5. ASSUME NEW i \in 1..n, NEW j \in 1..n, f[i] = f[j] PROVE i = j
    <2>1. f[i] \in Nat /\ f[j] \in Nat
        BY <1>2
    <2>2. ~(f[i] < f[j]) /\ ~(f[j] < f[i])
        BY <1>5, <2>1
    <2>3. ~(i < j) /\ ~(j < i)
        BY <1>3, <2>2
    <2> QED
        BY <2>3
<1> QED
    BY <1>4, <1>5 DEF f

-----------------------------------------------------------------------------
(* The indices of a slab.                                                    *)

ObjStates == {Allocated, InSlab} \cup Caches
Indices == 0..(NObj - 1)
FreeSet(obj, s) == {i \in Indices : obj[<<s, i>>] = InSlab}
\* The members of S, each once.
Lists(q, S) == /\ q \in Seq(S) /\ Len(q) = Cardinality(S)
               /\ \A i, j \in 1..Len(q) : q[i] = q[j] => i = j
               /\ \A x \in S : \E i \in 1..Len(q) : q[i] = x

LEMMA IndexSets ==
    ASSUME NEW obj, NEW s
    PROVE  /\ UsedIn(obj, s) \in Seq(Indices \ FreeSet(obj, s))
           /\ Len(UsedIn(obj, s)) + Len(FreeIn(obj, s)) = NObj
           /\ Lists(FreeIn(obj, s), FreeSet(obj, s))
<1> DEFINE U == Indices \ FreeSet(obj, s)
           F == FreeSet(obj, s)
<1>1. IsFiniteSet(Indices) /\ Cardinality(Indices) = NObj /\ Indices \subseteq Nat
    <2>1. 0 \in Int /\ NObj - 1 \in Int /\ NObj \in Nat \ {0}
        BY SlabAssumption
    <2>2. IsFiniteSet(0..(NObj - 1))
          /\ Cardinality(0..(NObj - 1)) = IF 0 > NObj - 1 THEN 0 ELSE (NObj - 1) - 0 + 1
        BY <2>1, FS_Interval
    <2> QED
        BY <2>1, <2>2 DEF Indices
<1>2. /\ F \subseteq Indices /\ U \subseteq Indices /\ F \cap U = {} /\ F \cup U = Indices
      /\ IsFiniteSet(F) /\ IsFiniteSet(U)
    BY <1>1, FS_Subset DEF FreeSet
<1>3. UsedIn(obj, s) = InOrder(U) /\ FreeIn(obj, s) = InOrder(F)
    <2>1. U = {i \in 0..(NObj - 1) : obj[<<s, i>>] # InSlab}
        BY DEF FreeSet, Indices
    <2> QED
        BY <2>1 DEF UsedIn, FreeIn, FreeSet, Indices
<1> HIDE DEF U, F
<1>4. Cardinality(F) + Cardinality(U) = NObj
    <2>1. Cardinality(F \cup U) = Cardinality(F) + Cardinality(U) - Cardinality(F \cap U)
        BY <1>2, FS_Union
    <2>2. Cardinality(F) \in Nat /\ Cardinality(U) \in Nat /\ Cardinality({}) = 0
        BY <1>2, FS_CardinalityType, FS_EmptySet
    <2>3. Cardinality(F \cup U) = NObj
        BY <1>1, <1>2
    <2>4. Cardinality(F \cap U) = 0
        BY <1>2, <2>2
    <2> QED
        BY <2>1, <2>2, <2>3, <2>4
<1>5. F \in SUBSET Nat /\ U \in SUBSET Nat
    BY <1>1, <1>2
<1>6. /\ InOrder(U) \in Seq(U) /\ Len(InOrder(U)) = Cardinality(U)
      /\ InOrder(F) \in Seq(F) /\ Len(InOrder(F)) = Cardinality(F)
      /\ \A i, j \in 1..Len(InOrder(F)) : InOrder(F)[i] = InOrder(F)[j] => i = j
      /\ \A x \in F : \E i \in 1..Len(InOrder(F)) : InOrder(F)[i] = x
    BY <1>2, <1>5, OrderListed
<1>7. Cardinality(F) \in Nat /\ Cardinality(U) \in Nat
    BY <1>2, FS_CardinalityType
<1>8. Lists(InOrder(F), F)
    BY <1>6 DEF Lists
<1> QED
    BY <1>3, <1>4, <1>6, <1>7, <1>8 DEF U, F

\* The tail of the array of a page is the list of the free indices.
LEMMA TailIsFree ==
    ASSUME NEW S, NEW u \in Seq(S), NEW f \in Seq(S), NEW N \in Nat, Len(u) + Len(f) = N
    PROVE  SubSeq(u \o f, Len(u) + 1, N) = f
<1>1. /\ u \o f \in Seq(S) /\ Len(u \o f) = Len(u) + Len(f)
      /\ \A i \in 1..(Len(u) + Len(f)) :
             (u \o f)[i] = IF i <= Len(u) THEN u[i] ELSE f[i - Len(u)]
    BY ConcatProperties
<1> DEFINE g == u \o f
           t == SubSeq(g, Len(u) + 1, N)
<1> HIDE DEF g
<1>2. Len(u) \in Nat /\ Len(f) \in Nat
    OBVIOUS
<1>3. \A i \in (Len(u) + 1)..N : g[i] \in S
    BY <1>1, <1>2 DEF g
<1>4. /\ t \in Seq(S)
      /\ Len(t) = IF Len(u) + 1 <= N THEN N - (Len(u) + 1) + 1 ELSE 0
      /\ \A i \in 1..(N - (Len(u) + 1) + 1) : t[i] = g[(Len(u) + 1) + i - 1]
    BY <1>1, <1>2, <1>3, SubSeqProperties DEF g
<1>5. Len(t) = Len(f)
    BY <1>2, <1>4
<1>6. ASSUME NEW i \in 1..Len(f) PROVE t[i] = f[i]
    <2>1. i \in 1..(N - (Len(u) + 1) + 1) /\ Len(u) + 1 + i - 1 = Len(u) + i
        BY <1>2
    <2>2. t[i] = g[Len(u) + i]
        BY <2>1, <1>4
    <2>3. Len(u) + i \in 1..(Len(u) + Len(f)) /\ ~(Len(u) + i <= Len(u))
          /\ (Len(u) + i) - Len(u) = i
        BY <1>2
    <2> QED
        BY <1>1, <2>2, <2>3 DEF g
<1>7. t = f
    <2> HIDE DEF t
    <2> QED
        BY <1>4, <1>5, <1>6, SeqEqual
<1> QED
    BY <1>7 DEF g

-----------------------------------------------------------------------------
(* The dumps.                                                                *)

SlabsAsKept(m) ==
    \A s \in Slabs : /\ m.chain[s] = FreeIn(m.obj, s)
                     /\ m.freelist[s] = UsedIn(m.obj, s) \o FreeIn(m.obj, s)
                     /\ m.inuse[s] = Len(UsedIn(m.obj, s))
CachesAsKept(m) ==
    /\ m.ac \in [Caches -> Seq(Objs)]
    /\ \A c \in Caches : \A j \in DOMAIN m.ac[c] :
           \/ m.obj[m.ac[c][j]] \in Caches
           \/ m.fault[1] = "cached" /\ m.obj[m.ac[c][j]] = InSlab
    /\ \A o \in Objs : m.obj[o] \in Caches =>
           \E j \in DOMAIN m.ac[m.obj[o]] : m.ac[m.obj[o]][j] = o
ListsAsKept(m) ==
    /\ m.list \in [Heads -> Seq(Slabs)]
    /\ \A s \in Slabs : Contains(m.list[<<m.nid[s], TypeFor(m.obj, s)>>], s)
WorldOK(m) ==
    /\ m.isPage \in BOOLEAN
    /\ m.nid \in [Slabs -> Nodes]
    /\ m.obj \in [Objs -> ObjStates]
DumpOK(m) ==
    /\ WorldOK(m) /\ ListsAsKept(m) /\ CachesAsKept(m)
    /\ m.fault[1] \notin {"index", "inuse"} => SlabsAsKept(m)
    /\ m.fault[1] # "hole" => m.absentPages = {}

-----------------------------------------------------------------------------
(* The free objects of a slab.                                               *)

\* A slab as the kernel keeps it is read right under both layouts.
KeptAt(s) == /\ mem.chain[s] = FreeIn(mem.obj, s) /\ mem.inuse[s] = Len(UsedIn(mem.obj, s))
             /\ mem.freelist[s] = UsedIn(mem.obj, s) \o FreeIn(mem.obj, s)
LEMMA FreeAt ==
    ASSUME NEW s, KeptAt(s)
    PROVE  /\ FreeOf(s) = {o \in ObjsOf(s) : mem.obj[o] = InSlab}
           /\ BadAt(s) = {}
           /\ FreeIndices(s) = FreeIn(mem.obj, s)
<1> DEFINE u == UsedIn(mem.obj, s)
           f == FreeIn(mem.obj, s)
           F == FreeSet(mem.obj, s)
<1>1. /\ u \in Seq(Indices \ F) /\ f \in Seq(F) /\ Len(u) + Len(f) = NObj
      /\ \A i, j \in 1..Len(f) : f[i] = f[j] => i = j
      /\ \A x \in F : \E i \in 1..Len(f) : f[i] = x
    <2>1. u \in Seq(Indices \ F) /\ Len(u) + Len(f) = NObj /\ Lists(f, F)
        BY IndexSets
    <2> HIDE DEF u, f, F
    <2> QED
        BY <2>1 DEF Lists
<1>2. F \subseteq Indices
    BY DEF FreeSet
<1>3. /\ mem.chain[s] = f /\ mem.freelist[s] = u \o f /\ mem.inuse[s] = Len(u)
    BY DEF KeptAt
<1>4. SubSeq(u \o f, Len(u) + 1, NObj) = f
    <2>1. u \in Seq(Indices) /\ f \in Seq(Indices)
        <3> HIDE DEF u, f, F
        <3>1. Indices \ F \subseteq Indices
            OBVIOUS
        <3> QED
            BY <1>1, <1>2, <3>1, SeqMonotonic
    <2>2. NObj \in Nat
        BY SlabAssumption
    <2> HIDE DEF u, f, F
    <2> QED
        BY <1>1, <2>1, <2>2, TailIsFree
<1>5. FreeIndices(s) = f
    BY <1>3, <1>4 DEF FreeIndices
<1> HIDE DEF u, f
<1>6. BadAt(s) = {}
    <2> SUFFICES ASSUME NEW k \in DOMAIN f PROVE ~Bad(f, k)
        BY <1>5 DEF BadAt
    <2>1. f[k] \in Indices /\ k \in 1..Len(f) /\ Len(f) \in Nat
        <3> HIDE DEF F
        <3> QED
            BY <1>1, <1>2
    <2>2. f[k] < NObj
        BY <2>1, SlabAssumption DEF Indices
    <2>3. \A j \in 1..(k - 1) : j \in 1..Len(f) /\ j # k
        BY <2>1
    <2>4. f[k] \in Nat /\ NObj \in Nat
        BY <2>1, SlabAssumption DEF Indices
    <2>5. \A j \in 1..(k - 1) : f[j] # f[k]
        <3> HIDE DEF F
        <3> QED
            BY <1>1, <2>1, <2>3
    <2>6. ~(f[k] >= NObj)
        BY <2>2, <2>4
    <2> QED
        BY <2>5, <2>6 DEF Bad
<1>7. FreeOf(s) = {<<s, f[k]>> : k \in DOMAIN f}
    BY <1>5, <1>6 DEF FreeOf
<1>8. {<<s, f[k]>> : k \in DOMAIN f} = {o \in ObjsOf(s) : mem.obj[o] = InSlab}
    <2>1. DOMAIN f = 1..Len(f)
        <3> HIDE DEF F
        <3> QED
            BY <1>1
    <2>2. ASSUME NEW k \in DOMAIN f
          PROVE  <<s, f[k]>> \in {o \in ObjsOf(s) : mem.obj[o] = InSlab}
        <3>1. f[k] \in F
            <4> HIDE DEF F
            <4> QED
                BY <1>1
        <3> QED
            BY <3>1 DEF FreeSet, ObjsOf, Indices
    <2>3. ASSUME NEW o \in ObjsOf(s), mem.obj[o] = InSlab
          PROVE  \E k \in DOMAIN f : o = <<s, f[k]>>
        <3>1. o = <<s, o[2]>> /\ o[2] \in Indices
            BY DEF ObjsOf, Indices
        <3>2. o[2] \in F
            BY <2>3, <3>1 DEF FreeSet
        <3>3. PICK k \in 1..Len(f) : f[k] = o[2]
            <4> HIDE DEF F
            <4> QED
                BY <1>1, <3>2
        <3> QED
            BY <2>1, <3>1, <3>3
    <2> QED
        BY <2>2, <2>3
<1> QED
    BY <1>5, <1>6, <1>7, <1>8 DEF f

LEMMA FreeExact ==
    ASSUME DumpOK(mem), mem.fault[1] \notin {"index", "inuse"}, NEW s \in Slabs
    PROVE  /\ FreeOf(s) = {o \in ObjsOf(s) : mem.obj[o] = InSlab}
           /\ BadAt(s) = {}
           /\ FreeIndices(s) = FreeIn(mem.obj, s)
BY FreeAt DEF DumpOK, SlabsAsKept, KeptAt

-----------------------------------------------------------------------------
(* The array caches are filled in an order that has a first slot for each    *)
(* object.                                                                   *)

Least(x, S, a, b, c, d) ==
    /\ x \in S
    /\ \A y \in S :
           /\ ~(a[y] < a[x])
           /\ ~(a[y] = a[x] /\ b[y] < b[x])
           /\ ~(a[y] = a[x] /\ b[y] = b[x] /\ c[y] < c[x])
           /\ ~(a[y] = a[x] /\ b[y] = b[x] /\ c[y] = c[x] /\ d[y] < d[x])
LEMMA LeastFour ==
    ASSUME NEW S, NEW a \in [S -> Nat], NEW b \in [S -> Nat],
           NEW c \in [S -> Nat], NEW d \in [S -> Nat], S # {}
    PROVE  \E x : Least(x, S, a, b, c, d)
<1>1. ASSUME NEW T \in SUBSET S, T # {}, NEW g \in [S -> Nat]
      PROVE  \E x \in T : \A y \in T : ~(g[y] < g[x])
    <2>1. PICK n \in {g[x] : x \in T} : \A m \in {g[x] : x \in T} : n <= m
        <3>1. {g[x] : x \in T} \in SUBSET Nat /\ {g[x] : x \in T} # {}
            BY <1>1
        <3> QED
            BY <3>1, LeastNatural
    <2>2. PICK x \in T : n = g[x]
        BY <2>1
    <2>3. \A y \in T : g[y] \in Nat /\ g[x] <= g[y]
        BY <2>1, <2>2
    <2> QED
        BY <2>2, <2>3
<1>2. PICK p \in S : \A y \in S : ~(a[y] < a[p])
    BY <1>1
<1> DEFINE P == {y \in S : a[y] = a[p]}
<1>3. PICK q \in P : \A y \in P : ~(b[y] < b[q])
    <2>1. P \in SUBSET S /\ p \in P
        OBVIOUS
    <2> HIDE DEF P
    <2> QED
        BY <1>1, <2>1
<1> DEFINE Q == {y \in P : b[y] = b[q]}
<1>4. PICK r \in Q : \A y \in Q : ~(c[y] < c[r])
    <2>1. Q \in SUBSET S /\ q \in Q
        OBVIOUS
    <2> HIDE DEF Q
    <2> QED
        BY <1>1, <2>1
<1> DEFINE R == {y \in Q : c[y] = c[r]}
<1>5. PICK x \in R : \A y \in R : ~(d[y] < d[x])
    <2>1. R \in SUBSET S /\ r \in R
        OBVIOUS
    <2> HIDE DEF R
    <2> QED
        BY <1>1, <2>1
<1>6. x \in S /\ a[x] = a[p] /\ b[x] = b[q] /\ c[x] = c[r]
    OBVIOUS
<1> SUFFICES ASSUME NEW y \in S
             PROVE  /\ ~(a[y] < a[x])
                    /\ ~(a[y] = a[x] /\ b[y] < b[x])
                    /\ ~(a[y] = a[x] /\ b[y] = b[x] /\ c[y] < c[x])
                    /\ ~(a[y] = a[x] /\ b[y] = b[x] /\ c[y] = c[x] /\ d[y] < d[x])
    BY <1>6 DEF Least
<1>7. a[y] = a[x] => y \in P
    BY <1>6
<1>8. y \in P /\ b[y] = b[x] => y \in Q
    BY <1>6
<1>9. y \in Q /\ c[y] = c[x] => y \in R
    BY <1>6
<1> HIDE DEF P, Q, R
<1> QED
    BY <1>2, <1>3, <1>4, <1>5, <1>6, <1>7, <1>8, <1>9

LEMMA TurnType ==
    ASSUME NEW e \in Slots, DumpOK(mem)
    PROVE  /\ e[1] \in Caches /\ e[2] \in DOMAIN mem.ac[e[1]] /\ Entry(e) \in Objs
           /\ \A i \in 1..4 : Turn(e)[i] \in Nat
<1>1. PICK c \in Caches : e \in {c} \X DOMAIN mem.ac[c]
    BY DEF Slots
<1>2. e[1] = c /\ e[2] \in DOMAIN mem.ac[c]
    BY <1>1
<1>3. mem.ac[c] \in Seq(Objs)
    BY DEF DumpOK, CachesAsKept
<1>4. e[2] \in Nat /\ mem.ac[c][e[2]] \in Objs
    BY <1>2, <1>3
<1>5. c[2] \in Nat /\ c[3] \in Nat
    <2>1. Nodes \subseteq Nat /\ CPUs \subseteq Nat
        BY SlabAssumption
    <2>2. CASE c \in PerCpu
        BY <2>1, <2>2 DEF PerCpu
    <2>3. CASE c \in Shared
        BY <2>1, <2>3 DEF Shared
    <2>4. CASE c \in Alien
        <3>1. PICK x \in Nodes \X Nodes : c = <<"alien", x[1], x[2]>>
            BY <2>4 DEF Alien
        <3> QED
            BY <2>1, <3>1
    <2> QED
        BY <2>2, <2>3, <2>4 DEF Caches
<1>6. \A i \in 1..4 : i = 1 \/ i = 2 \/ i = 3 \/ i = 4
    OBVIOUS
<1>7. Turn(e)[1] \in Nat /\ Turn(e)[2] \in Nat /\ Turn(e)[3] \in Nat /\ Turn(e)[4] \in Nat
    BY <1>2, <1>4, <1>5 DEF Turn
<1> QED
    BY <1>2, <1>4, <1>6, <1>7 DEF Entry

\* The first slot that holds an object.
LEMMA FirstExists ==
    ASSUME DumpOK(mem), NEW e \in Slots
    PROVE  \E f \in Slots : Entry(f) = Entry(e) /\ First(f)
<1> DEFINE S == {f \in Slots : Entry(f) = Entry(e)}
           g1 == [f \in S |-> Turn(f)[1]]
           g2 == [f \in S |-> Turn(f)[2]]
           g3 == [f \in S |-> Turn(f)[3]]
           g4 == [f \in S |-> Turn(f)[4]]
<1>1. S # {} /\ \A f \in S : f \in Slots /\ Entry(f) = Entry(e)
    OBVIOUS
<1>2. \A f \in S : \A i \in 1..4 : Turn(f)[i] \in Nat
    BY TurnType
<1>3. \A f \in Slots : Entry(f) = Entry(e) => f \in S
    OBVIOUS
<1> HIDE DEF S
<1>4. g1 \in [S -> Nat] /\ g2 \in [S -> Nat] /\ g3 \in [S -> Nat] /\ g4 \in [S -> Nat]
    BY <1>2
<1>5. \A f \in S : g1[f] = Turn(f)[1] /\ g2[f] = Turn(f)[2]
                   /\ g3[f] = Turn(f)[3] /\ g4[f] = Turn(f)[4]
    OBVIOUS
<1> HIDE DEF g1, g2, g3, g4
<1>6. PICK x : Least(x, S, g1, g2, g3, g4)
    BY <1>1, <1>4, LeastFour
<1>7. ASSUME NEW y \in S PROVE ~Before(y, x)
    <2> SUFFICES ASSUME NEW i \in 1..4, Turn(y)[i] < Turn(x)[i],
                        \A k \in 1..(i - 1) : Turn(y)[k] = Turn(x)[k]
                 PROVE  FALSE
        BY DEF Before
    <2>1. /\ i > 1 => Turn(y)[1] = Turn(x)[1]
          /\ i > 2 => Turn(y)[2] = Turn(x)[2]
          /\ i > 3 => Turn(y)[3] = Turn(x)[3]
        OBVIOUS
    <2>2. i = 1 \/ i = 2 \/ i = 3 \/ i = 4
        OBVIOUS
    <2> QED
        BY <1>5, <1>6, <2>1, <2>2 DEF Least
<1>8. x \in S /\ First(x)
    BY <1>1, <1>3, <1>6, <1>7 DEF First, Least
<1> QED
    BY <1>1, <1>8

-----------------------------------------------------------------------------
(* What is in array_caches.                                                  *)

\* Nothing that is allocated is in an array cache.
LEMMA CachedFree ==
    ASSUME DumpOK(mem), NEW o \in CachedObjs(Filled)
    PROVE  o \in Objs /\ (mem.obj[o] \in Caches \/ mem.obj[o] = InSlab)
           /\ (mem.fault[1] # "cached" => mem.obj[o] \in Caches)
<1>1. PICK x \in Filled : o = x[1]
    BY DEF CachedObjs
<1>2. PICK e \in Slots : x = <<Entry(e), e[1]>>
    BY DEF Filled, Reached
<1>3. e[1] \in Caches /\ e[2] \in DOMAIN mem.ac[e[1]] /\ Entry(e) \in Objs /\ o = Entry(e)
    BY <1>1, <1>2, TurnType
<1> QED
    BY <1>3 DEF DumpOK, CachesAsKept, Entry

\* What is in an array cache has a slot and is filed unless the fill is cut short.
LEMMA CachedFound ==
    ASSUME DumpOK(mem), NEW o \in Objs, mem.obj[o] \in Caches
    PROVE  o \in CachedObjs(Filled) \/ CutOff(o)
<1>1. PICK j \in DOMAIN mem.ac[mem.obj[o]] : mem.ac[mem.obj[o]][j] = o
    BY DEF DumpOK, CachesAsKept
<1> DEFINE e == <<mem.obj[o], j>>
<1>2. e \in Slots /\ Entry(e) = o
    <2>1. e \in {mem.obj[o]} \X DOMAIN mem.ac[mem.obj[o]]
        OBVIOUS
    <2>2. e[1] = mem.obj[o] /\ e[2] = j
        OBVIOUS
    <2> HIDE DEF e
    <2> QED
        BY <1>1, <2>1, <2>2 DEF Slots, Entry
<1> HIDE DEF e
<1>3. CASE FillRaises
    BY <1>2, <1>3 DEF CutOff
<1>4. CASE ~FillRaises
    <2>1. PICK f \in Slots : Entry(f) = o /\ First(f)
        BY <1>2, FirstExists
    <2>2. f \in Reached
        BY <1>4 DEF Reached, FillRaises
    <2>3. <<Entry(f), f[1]>> \in Filled
        BY <2>1, <2>2 DEF Filled
    <2>4. <<Entry(f), f[1]>>[1] = o
        BY <2>1
    <2> QED
        BY <2>3, <2>4 DEF CachedObjs
<1> QED
    BY <1>3, <1>4

LEMMA NotAllocated ==
    /\ Allocated \notin Caches /\ InSlab \notin Caches /\ Allocated # InSlab
<1>1. \A c \in Caches : c[1] \in {"percpu", "shared", "alien"}
    BY DEF Caches, PerCpu, Shared, Alien
<1>2. Allocated[1] = "allocated" /\ InSlab[1] = "free"
    BY DEF Allocated, InSlab
<1> QED
    BY <1>1, <1>2

-----------------------------------------------------------------------------
(* The invariant.                                                            *)

(***************************************************************************)
(* The dump has its shape, the layout is the dump's, array_caches is empty *)
(* or what a fill leaves, and the last answers are right.                  *)
(***************************************************************************)
CachesInv ==
    /\ DumpOK(mem) /\ page_slab = mem.isPage
    /\ array_caches \in {{}, Filled}
    /\ AllocatedRight

LEMMA SameDump ==
    ASSUME mem' = mem
    PROVE  Filled' = Filled /\ (\A o : CutOff(o)' <=> CutOff(o)) /\ (DumpOK(mem))' = DumpOK(mem)
<1>1. Slots' = Slots /\ (\A e : Entry(e)' = Entry(e))
    BY DEF Slots, Entry
<1>2. Unreadable' = Unreadable
    BY <1>1 DEF Unreadable
<1>3. Reached' = Reached /\ (\A e : First(e)' <=> First(e)) /\ (FillRaises' <=> FillRaises)
    BY <1>1, <1>2 DEF Reached, First, FillRaises
<1>4. Filled' = Filled
    BY <1>1, <1>3 DEF Filled
<1>5. \A o : CutOff(o)' <=> CutOff(o)
    BY <1>1, <1>3, <1>4 DEF CutOff, CachedObjs
<1> QED
    BY <1>4, <1>5

\* A step that gives no answers.
LEMMA NoAnswer ==
    ASSUME CachesInv, mem' = mem, page_slab' = page_slab,
           array_caches' \in {array_caches, get_array_caches},
           said' = {} \/ said' = said,
           outcome' = "listed" => outcome = "listed" /\ said' = said
    PROVE  CachesInv'
<1>1. Filled' = Filled /\ (\A o : CutOff(o)' <=> CutOff(o)) /\ (DumpOK(mem))' = DumpOK(mem)
    BY SameDump
<1>2. DumpOK(mem)' /\ page_slab' = mem'.isPage
    BY <1>1 DEF CachesInv
<1>3. array_caches' \in {{}, Filled'}
    BY <1>1 DEF CachesInv, get_array_caches
<1>4. AllocatedRight'
    BY <1>1 DEF CachesInv, AllocatedRight
<1> QED
    BY <1>2, <1>3, <1>4 DEF CachesInv

LEMMA AskKeeps ==
    ASSUME CachesInv, NEW o \in Objs, Ask(o)
    PROVE  CachesInv'
<1>1. /\ mem' = mem /\ page_slab' = page_slab /\ outcome' # "listed"
      /\ array_caches' \in {array_caches, get_array_caches}
    BY DEF Ask
<1>2. Filled' = Filled /\ (\A x : CutOff(x)' <=> CutOff(x)) /\ (DumpOK(mem))' = DumpOK(mem)
    BY <1>1, SameDump
<1>3. DumpOK(mem)' /\ page_slab' = mem'.isPage /\ array_caches' \in {{}, Filled'}
    BY <1>1, <1>2 DEF CachesInv, get_array_caches
<1>4. AllocatedRight'
    <2> SUFFICES ASSUME mem.fault[1] \notin {"index", "inuse"}, NEW a \in said'
                 PROVE  a[2] = (mem.obj[a[1]] = Allocated) \/ (a[2] /\ CutOff(a[1]))
        BY <1>1, <1>2 DEF AllocatedRight
    <2>1. o[1] \in Slabs /\ o \in ObjsOf(o[1])
        BY DEF Objs, ObjsOf
    <2>2. FreeOf(o[1]) = {x \in ObjsOf(o[1]) : mem.obj[x] = InSlab}
        BY <2>1, FreeExact DEF CachesInv
    <2>3. o \in FreeOf(o[1]) <=> mem.obj[o] = InSlab
        BY <2>1, <2>2
    <2>4. mem.obj[o] \in ObjStates
        BY DEF CachesInv, DumpOK, WorldOK
    <2>5. CASE a = <<o, FALSE>> /\ o \in FreeOf(o[1])
        BY <2>3, <2>5, NotAllocated
    <2>6. CASE /\ o \notin FreeOf(o[1]) /\ ~GetRaises
               /\ a = <<o, o \notin CachedObjs(get_array_caches)>>
        <3>1. get_array_caches = Filled
            BY DEF get_array_caches, NeedsFill, CachesInv
        <3>2. a[1] = o /\ a[2] = (o \notin CachedObjs(Filled))
            BY <2>6, <3>1
        <3>3. CASE o \in CachedObjs(Filled)
            <4>1. mem.obj[o] # Allocated
                BY <2>3, <2>6, <3>3, CachedFree, NotAllocated DEF CachesInv
            <4> QED
                BY <3>2, <3>3, <4>1
        <3>4. CASE o \notin CachedObjs(Filled)
            <4>1. CASE mem.obj[o] \in Caches
                BY <3>2, <3>4, <4>1, CachedFound DEF CachesInv
            <4>2. CASE mem.obj[o] = Allocated
                BY <3>2, <3>4, <4>2
            <4> QED
                BY <2>3, <2>4, <2>6, <4>1, <4>2 DEF ObjStates
        <3> QED
            BY <3>3, <3>4
    <2> QED
        BY <2>5, <2>6 DEF Ask
<1> QED
    BY <1>3, <1>4 DEF CachesInv

\* A slab with an allocated object is on one of the two lists that are read.
LEMMA AllocatedListed ==
    ASSUME DumpOK(mem), NEW o \in Objs, mem.obj[o] = Allocated
    PROVE  o[1] \in Listed
<1> DEFINE s == o[1]
           t == TypeFor(mem.obj, s)
           n == Len(FreeIn(mem.obj, s))
<1>1. s \in Slabs /\ o[2] \in Indices /\ o = <<s, o[2]>>
    BY DEF Objs, Indices
<1>2. o[2] \notin FreeSet(mem.obj, s)
    BY <1>1, NotAllocated DEF FreeSet
<1>3. Lists(FreeIn(mem.obj, s), FreeSet(mem.obj, s))
    BY IndexSets
<1>4. n = Cardinality(FreeSet(mem.obj, s))
    BY <1>3 DEF Lists
<1>5. n # NObj
    <2>1. IsFiniteSet(Indices) /\ Cardinality(Indices) = NObj
        <3>1. 0 \in Int /\ NObj - 1 \in Int /\ NObj \in Nat \ {0}
            BY SlabAssumption
        <3>2. IsFiniteSet(0..(NObj - 1))
              /\ Cardinality(0..(NObj - 1)) = IF 0 > NObj - 1 THEN 0 ELSE (NObj - 1) - 0 + 1
            BY <3>1, FS_Interval
        <3> QED
            BY <3>1, <3>2 DEF Indices
    <2>2. FreeSet(mem.obj, s) \in SUBSET Indices
        BY DEF FreeSet
    <2>3. FreeSet(mem.obj, s) # Indices
        BY <1>1, <1>2
    <2> HIDE DEF n
    <2> QED
        BY <1>4, <2>1, <2>2, <2>3, FS_Subset
<1>6. t \in {slab_partial, slab_full}
    BY <1>5 DEF TypeFor
<1>7. Contains(mem.list[<<mem.nid[s], t>>], s) /\ mem.nid[s] \in Nodes
    BY <1>1 DEF DumpOK, ListsAsKept, WorldOK
<1> HIDE DEF t
<1> QED
    BY <1>1, <1>6, <1>7 DEF Listed

LEMMA GetAllocatedKeeps ==
    ASSUME CachesInv, GetAllocatedObjects
    PROVE  CachesInv'
<1> DEFINE candidates == UNION {ObjsOf(s) \ FreeOf(s) : s \in Listed}
           ac == IF candidates = {} THEN array_caches ELSE get_array_caches
<1>1. /\ mem' = mem /\ page_slab' = page_slab /\ outcome' = "listed"
      /\ mem.fault[1] \notin {"link", "hole"}
      /\ array_caches' = ac
      /\ said' = {<<o, TRUE>> : o \in candidates \ CachedObjs(ac)}
    BY DEF GetAllocatedObjects
<1>2. Filled' = Filled /\ (\A o : CutOff(o)' <=> CutOff(o)) /\ (DumpOK(mem))' = DumpOK(mem)
    BY <1>1, SameDump
<1>3. DumpOK(mem)' /\ page_slab' = mem'.isPage /\ array_caches' \in {{}, Filled'}
    BY <1>1, <1>2 DEF CachesInv, get_array_caches
<1>4. ASSUME mem.fault[1] \notin {"index", "inuse"}
      PROVE  /\ \A a \in said' : a[2] = (mem.obj[a[1]] = Allocated)
             /\ \A o \in Objs : mem.obj[o] = Allocated => <<o, TRUE>> \in said'
    <2>1. \A s \in Listed : s \in Slabs
        BY DEF Listed
    <2>2. \A s \in Listed : ObjsOf(s) \ FreeOf(s) = {o \in ObjsOf(s) : mem.obj[o] # InSlab}
        <3> SUFFICES ASSUME NEW s \in Listed
                     PROVE  FreeOf(s) = {o \in ObjsOf(s) : mem.obj[o] = InSlab}
            OBVIOUS
        <3> QED
            BY <1>4, <2>1, FreeExact DEF CachesInv
    <2>3. candidates # {} => ac = Filled
        BY DEF get_array_caches, NeedsFill, CachesInv
    <2>4. ~FillRaises
        BY <1>1 DEF FillRaises, Unreadable, CachesInv, DumpOK
    <2>5. ASSUME NEW o \in candidates \ CachedObjs(ac)
          PROVE  mem.obj[o] = Allocated
        <3>1. PICK s \in Listed : o \in ObjsOf(s) /\ mem.obj[o] # InSlab
            BY <2>2
        <3>2. o \in Objs
            BY <2>1, <3>1 DEF ObjsOf, Objs
        <3>3. mem.obj[o] \in ObjStates
            BY <3>2 DEF CachesInv, DumpOK, WorldOK
        <3>4. o \notin CachedObjs(Filled)
            <4> HIDE DEF ac, candidates
            <4> QED
                BY <2>3
        <3>5. mem.obj[o] \notin Caches
            BY <2>4, <3>2, <3>4, CachedFound DEF CachesInv, CutOff
        <3> QED
            BY <3>1, <3>3, <3>5 DEF ObjStates
    <2>6. ASSUME NEW o \in Objs, mem.obj[o] = Allocated
          PROVE  o \in candidates \ CachedObjs(ac)
        <3>1. o[1] \in Listed
            BY <2>6, AllocatedListed DEF CachesInv
        <3>2. o \in ObjsOf(o[1]) /\ mem.obj[o] # InSlab
            BY <2>6, NotAllocated DEF Objs, ObjsOf
        <3>3. o \in ObjsOf(o[1]) \ FreeOf(o[1])
            BY <2>2, <3>1, <3>2
        <3>4. o \in candidates
            BY <3>1, <3>3
        <3>5. ac = Filled
            <4> HIDE DEF ac, candidates
            <4> QED
                BY <2>3, <3>4
        <3>6. o \notin CachedObjs(Filled)
            BY <2>6, CachedFree, NotAllocated DEF CachesInv
        <3> HIDE DEF ac, candidates
        <3> QED
            BY <3>4, <3>5, <3>6
    <2> HIDE DEF ac, candidates
    <2>7. ASSUME NEW a \in said' PROVE a[2] = (mem.obj[a[1]] = Allocated)
        <3>1. PICK o \in candidates \ CachedObjs(ac) : a = <<o, TRUE>>
            BY <1>1
        <3> QED
            BY <3>1, <2>5
    <2>8. ASSUME NEW o \in Objs, mem.obj[o] = Allocated PROVE <<o, TRUE>> \in said'
        BY <1>1, <2>6, <2>8
    <2> QED
        BY <2>7, <2>8
<1>5. AllocatedRight'
    BY <1>1, <1>4 DEF AllocatedRight
<1> QED
    BY <1>3, <1>5 DEF CachesInv

LEMMA CachesStep ==
    ASSUME CachesInv, [Next]_vars
    PROVE  CachesInv'
<1>1. CASE \E o \in Objs : Ask(o)
    BY <1>1, AskKeeps
<1>2. CASE GetAllocatedObjects
    BY <1>2, GetAllocatedKeeps
<1>3. CASE CheckAll
    <2>1. /\ mem' = mem /\ page_slab' = page_slab /\ array_caches' = array_caches
          /\ said' = {} /\ outcome' # "listed"
        BY <1>3 DEF CheckAll
    <2> QED
        BY <2>1, NoAnswer
<1>4. CASE Step
    <2>1. mem' = mem /\ page_slab' = page_slab /\ said' = said
        BY <1>4 DEF Step, WalkEnds, WalkFails, WalkRaises, WalkNull, SkipHead, CheckCannot,
                    CheckSlab, EndNode
    <2>2. array_caches' \in {array_caches, get_array_caches}
        BY <1>4 DEF Step, WalkEnds, WalkFails, WalkRaises, WalkNull, SkipHead, CheckCannot,
                    CheckSlab, EndNode
    <2>3. outcome' = "listed" => outcome = "listed"
        BY <1>4 DEF Step, WalkEnds, WalkFails, WalkRaises, WalkNull, SkipHead, CheckCannot,
                    CheckSlab, EndNode, Raise
    <2> QED
        BY <2>1, <2>2, <2>3, NoAnswer
<1>5. CASE UNCHANGED vars
    BY <1>5, NoAnswer DEF vars
<1> QED
    BY <1>1, <1>2, <1>3, <1>4, <1>5 DEF Next

-----------------------------------------------------------------------------
(* The dumps a kernel leaves have this shape.                                *)

NearLinks(m) ==
    /\ m.next \in [Places -> Places \cup {NULL}]
    /\ m.prev \in [Places -> Places \cup {NULL}]
    /\ \A x \in Places :
           /\ m.next[x] # NULL => NodeOf(m, m.next[x]) = NodeOf(m, x)
           /\ m.prev[x] # NULL => NodeOf(m, m.prev[x]) = NodeOf(m, x)
PagesAsKept(m) ==
    /\ m.pageNid = m.nid /\ m.slabFlag = Slabs /\ m.cachePtr = Slabs
    /\ m.slabPtr = [s \in Slabs |-> s] /\ m.home = [s \in Slabs |-> "size-64"]
TidyDump(m) == m.fault[1] \in {"none", "link"} => PagesAsKept(m) /\ NearLinks(m)

Fields == {"isPage", "next", "prev", "inuse", "chain", "freelist", "ac", "free_objects",
           "nid", "obj", "list", "pageNid", "slabFlag", "cachePtr", "slabPtr", "off_slab",
           "home", "absentPages", "absentBufctl", "fault"}
KernelDump(m) ==
    /\ DOMAIN m = Fields /\ m.fault = <<"none", NULL>>
    /\ DumpOK(m) /\ PagesAsKept(m) /\ NearLinks(m)

LEMMA ObjsFinite ==
    IsFiniteSet(Objs)
<1>1. IsFiniteSet(0..(NObj - 1)) /\ IsFiniteSet(Slabs)
    BY SlabAssumption, FS_Interval
<1> QED
    BY <1>1, FS_Product DEF Objs

LEMMA TurnsAround ==
    ASSUME NEW n \in Nat \ {0}, NEW k \in Int
    PROVE  (k % n) + 1 \in 1..n
OBVIOUS

LEMMA TypeIsType ==
    ASSUME NEW obj, NEW s
    PROVE  TypeFor(obj, s) \in Types
BY DEF TypeFor, Types, slab_partial, slab_full, slab_free

LEMMA MemoryShape ==
    ASSUME NEW nid \in [Slabs -> Nodes], NEW obj \in [Objs -> ObjStates], NEW isPage \in BOOLEAN
    PROVE  KernelDump(Memory(nid, obj, isPage))
<1> DEFINE m == Memory(nid, obj, isPage)
           home == [x \in Places |-> IF x \in Heads THEN x ELSE <<nid[x], TypeFor(obj, x)>>]
           list == [h \in Heads |-> SetToSeq({s \in Slabs : home[s] = h})]
           ring == [h \in Heads |-> <<h>> \o list[h]]
           turn(x, d) == LET r == ring[home[x]]
                             k == CHOOSE k \in DOMAIN r : r[k] = x
                         IN  r[((k - 1 + d) % Len(r)) + 1]
           next == [x \in Places |-> turn(x, 1)]
           prev == [x \in Places |-> turn(x, -1)]
           inuse == [s \in Slabs |-> Len(UsedIn(obj, s))]
           chain == [s \in Slabs |-> FreeIn(obj, s)]
           freelist == [s \in Slabs |-> UsedIn(obj, s) \o FreeIn(obj, s)]
           ac == [c \in Caches |-> SetToSeq({o \in Objs : obj[o] = c})]
           free_objects == [n \in Nodes |->
               Cardinality({o \in Objs : nid[o[1]] = n /\ obj[o] = InSlab})]
           ptrs == [s \in Slabs |-> s]
           homes == [s \in Slabs |-> "size-64"]
           fault == <<"none", NULL>>
<1>1. m = [isPage |-> isPage, next |-> next, prev |-> prev, inuse |-> inuse,
           chain |-> chain, freelist |-> freelist, ac |-> ac, free_objects |-> free_objects,
           nid |-> nid, obj |-> obj, list |-> list,
           pageNid |-> nid, slabFlag |-> Slabs, cachePtr |-> Slabs, slabPtr |-> ptrs,
           off_slab |-> FALSE, home |-> homes,
           absentPages |-> {}, absentBufctl |-> {}, fault |-> fault]
    BY DEF Memory
<1>2. \A s \in Slabs : /\ chain[s] = FreeIn(obj, s) /\ inuse[s] = Len(UsedIn(obj, s))
                       /\ freelist[s] = UsedIn(obj, s) \o FreeIn(obj, s)
    OBVIOUS
<1>3. /\ \A h \in Heads : home[h] = h
      /\ \A s \in Slabs : home[s] = <<nid[s], TypeFor(obj, s)>> /\ s \notin Heads
      /\ \A x \in Places : home[x] \in Heads
    BY TypeIsType, PlacesAssumption DEF Places, Heads
<1>4. ASSUME NEW h \in Heads
      PROVE  /\ list[h] \in Seq(Slabs)
             /\ \A i \in DOMAIN list[h] : home[list[h][i]] = h
             /\ \A s \in Slabs : home[s] = h => \E i \in DOMAIN list[h] : list[h][i] = s
    <2> DEFINE S == {s \in Slabs : home[s] = h}
    <2>1. IsFiniteSet(S) /\ S \subseteq Slabs
        BY SlabAssumption, FS_Subset
    <2>2. list[h] = SetToSeq(S) /\ (\A s \in S : home[s] = h)
          /\ (\A s \in Slabs : home[s] = h => s \in S)
        OBVIOUS
    <2> HIDE DEF S, list, home
    <2>3. /\ SetToSeq(S) \in Seq(S)
          /\ \A x \in S : \E i \in DOMAIN SetToSeq(S) : SetToSeq(S)[i] = x
        BY <2>1, SetListed
    <2>4. SetToSeq(S) \in Seq(Slabs)
        BY <2>1, <2>3, SeqMonotonic
    <2>5. \A i \in DOMAIN SetToSeq(S) : SetToSeq(S)[i] \in S
        BY <2>3
    <2> QED
        BY <2>2, <2>3, <2>4, <2>5
<1>5. ASSUME NEW c \in Caches
      PROVE  /\ ac[c] \in Seq(Objs)
             /\ \A i \in DOMAIN ac[c] : obj[ac[c][i]] = c
             /\ \A o \in Objs : obj[o] = c => \E i \in DOMAIN ac[c] : ac[c][i] = o
    <2> DEFINE S == {o \in Objs : obj[o] = c}
    <2>1. IsFiniteSet(S) /\ S \subseteq Objs
        BY ObjsFinite, FS_Subset
    <2>2. ac[c] = SetToSeq(S) /\ (\A o \in S : obj[o] = c)
          /\ (\A o \in Objs : obj[o] = c => o \in S)
        OBVIOUS
    <2> HIDE DEF S, ac
    <2>3. /\ SetToSeq(S) \in Seq(S)
          /\ \A x \in S : \E i \in DOMAIN SetToSeq(S) : SetToSeq(S)[i] = x
        BY <2>1, SetListed
    <2>4. SetToSeq(S) \in Seq(Objs)
        BY <2>1, <2>3, SeqMonotonic
    <2>5. \A i \in DOMAIN SetToSeq(S) : SetToSeq(S)[i] \in S
        BY <2>3
    <2> QED
        BY <2>2, <2>3, <2>4, <2>5
<1>6. ASSUME NEW h \in Heads
      PROVE  /\ Len(ring[h]) \in Nat \ {0}
             /\ \A i \in 1..Len(ring[h]) : ring[h][i] \in Places /\ home[ring[h][i]] = h
             /\ DOMAIN ring[h] = 1..Len(ring[h])
             /\ \A x \in Places : home[x] = h => \E i \in DOMAIN ring[h] : ring[h][i] = x
    <2> DEFINE one == <<h>>
               l == list[h]
    <2>1. one \in Seq(Places) /\ Len(one) = 1 /\ one[1] = h
        BY DEF Places
    <2>2. l \in Seq(Places)
        <3> HIDE DEF l
        <3>1. Slabs \subseteq Places /\ l \in Seq(Slabs)
            BY <1>4 DEF Places, l
        <3> QED
            BY <3>1, SeqMonotonic
    <2>3. /\ \A i \in DOMAIN l : home[l[i]] = h
          /\ \A s \in Slabs : home[s] = h => \E i \in DOMAIN l : l[i] = s
        <3> HIDE DEF home, list
        <3> QED
            BY <1>4
    <2>4. ring[h] = one \o l
        OBVIOUS
    <2> HIDE DEF one, l, ring, home, list
    <2>5. /\ one \o l \in Seq(Places) /\ Len(one \o l) = 1 + Len(l)
          /\ \A i \in 1..(1 + Len(l)) :
                 (one \o l)[i] = IF i <= 1 THEN one[i] ELSE l[i - 1]
        <3>1. /\ one \o l \in Seq(Places) /\ Len(one \o l) = Len(one) + Len(l)
              /\ \A i \in 1..(Len(one) + Len(l)) :
                     (one \o l)[i] = IF i <= Len(one) THEN one[i] ELSE l[i - Len(one)]
            BY <2>1, <2>2, ConcatProperties
        <3> QED
            BY <2>1, <3>1
    <2>6. Len(l) \in Nat /\ DOMAIN l = 1..Len(l)
        BY <2>2
    <2>7. ASSUME NEW i \in 1..(1 + Len(l)) PROVE home[(one \o l)[i]] = h
        <3>1. CASE i = 1
            BY <1>3, <2>1, <2>5, <3>1
        <3>2. CASE i # 1
            <4>1. i - 1 \in DOMAIN l /\ (one \o l)[i] = l[i - 1]
                BY <2>5, <2>6, <3>2
            <4> QED
                BY <4>1, <2>3
        <3> QED
            BY <3>1, <3>2
    <2>8. ASSUME NEW x \in Places, home[x] = h
          PROVE  \E i \in 1..(1 + Len(l)) : (one \o l)[i] = x
        <3>1. CASE x \in Heads
            <4>1. x = h
                BY <1>3, <2>8, <3>1
            <4> QED
                BY <2>1, <2>5, <2>6, <4>1
        <3>2. CASE x \in Slabs
            <4>1. PICK i \in DOMAIN l : l[i] = x
                BY <2>3, <2>8, <3>2
            <4>2. i + 1 \in 1..(1 + Len(l)) /\ ~(i + 1 <= 1) /\ (i + 1) - 1 = i
                BY <2>6
            <4> QED
                BY <2>5, <4>1, <4>2
        <3> QED
            BY <3>1, <3>2 DEF Places
    <2>9. DOMAIN (one \o l) = 1..(1 + Len(l))
        BY <2>5
    <2>10. \A i \in 1..(1 + Len(l)) : (one \o l)[i] \in Places
        BY <2>5, <2>9
    <2>11. 1 + Len(l) \in Nat \ {0} /\ Len(one \o l) = 1 + Len(l)
        BY <2>5, <2>6
    <2> QED
        BY <2>4, <2>7, <2>8, <2>9, <2>10, <2>11
<1>7. ASSUME NEW x \in Places, NEW d \in {1, -1}
      PROVE  turn(x, d) \in Places /\ home[turn(x, d)] = home[x]
    <2> DEFINE r == ring[home[x]]
               k == CHOOSE k \in DOMAIN r : r[k] = x
               j == ((k - 1 + d) % Len(r)) + 1
    <2>1. turn(x, d) = r[j]
        OBVIOUS
    <2> HIDE DEF turn, ring, home
    <2>2. /\ Len(r) \in Nat \ {0} /\ DOMAIN r = 1..Len(r)
          /\ \A i \in 1..Len(r) : r[i] \in Places /\ home[r[i]] = home[x]
          /\ \E i \in DOMAIN r : r[i] = x
        BY <1>3, <1>6
    <2> HIDE DEF r
    <2>3. k \in DOMAIN r
        BY <2>2
    <2>4. k - 1 + d \in Int
        <3> HIDE DEF k
        <3> QED
            BY <2>2, <2>3
    <2>5. j \in 1..Len(r)
        <3> HIDE DEF k
        <3> QED
            BY <2>2, <2>4, TurnsAround
    <2> HIDE DEF j
    <2> QED
        BY <2>1, <2>2, <2>5
<1>8. ASSUME NEW x \in Places
      PROVE  /\ next[x] \in Places /\ home[next[x]] = home[x]
             /\ prev[x] \in Places /\ home[prev[x]] = home[x]
    <2>1. next[x] = turn(x, 1) /\ prev[x] = turn(x, -1)
        OBVIOUS
    <2> HIDE DEF turn, next, prev, home
    <2> QED
        BY <1>7, <2>1
<1>9. next \in [Places -> Places \cup {NULL}] /\ prev \in [Places -> Places \cup {NULL}]
    <2> HIDE DEF turn
    <2>1. next = [x \in Places |-> next[x]] /\ prev = [x \in Places |-> prev[x]]
        OBVIOUS
    <2> HIDE DEF next, prev, home
    <2> QED
        BY <2>1, <1>8
<1>10. ac \in [Caches -> Seq(Objs)] /\ list \in [Heads -> Seq(Slabs)]
    <2>1. ac = [c \in Caches |-> ac[c]] /\ list = [h \in Heads |-> list[h]]
        OBVIOUS
    <2> HIDE DEF ac, list, home
    <2> QED
        BY <2>1, <1>4, <1>5
<1>11. ptrs = [s \in Slabs |-> s] /\ homes = [s \in Slabs |-> "size-64"]
       /\ fault = <<"none", NULL>> /\ fault[1] = "none"
    OBVIOUS
<1> HIDE DEF next, prev, turn, home, list, ring, inuse, chain, freelist, ac, free_objects,
             ptrs, homes, fault
<1>12. DOMAIN m = Fields
    BY <1>1 DEF Fields
<1>13. /\ m.isPage = isPage /\ m.next = next /\ m.prev = prev /\ m.inuse = inuse
       /\ m.chain = chain /\ m.freelist = freelist /\ m.ac = ac
       /\ m.nid = nid /\ m.obj = obj /\ m.list = list
    BY <1>1
<1>14. /\ m.pageNid = nid /\ m.slabFlag = Slabs /\ m.cachePtr = Slabs
       /\ m.slabPtr = ptrs /\ m.home = homes /\ m.absentPages = {} /\ m.fault = fault
    BY <1>1
<1> HIDE DEF m
<1>15. SlabsAsKept(m)
    BY <1>2, <1>13 DEF SlabsAsKept
<1>16. CachesAsKept(m)
    <2>1. \A o \in Objs : obj[o] \in Caches =>
              \E i \in DOMAIN ac[obj[o]] : ac[obj[o]][i] = o
        BY <1>5
    <2>2. \A c \in Caches : \A j \in DOMAIN ac[c] : obj[ac[c][j]] \in Caches
        BY <1>5
    <2> QED
        BY <2>1, <2>2, <1>10, <1>13 DEF CachesAsKept
<1>17. ListsAsKept(m)
    <2>1. \A s \in Slabs : \E i \in DOMAIN list[home[s]] : list[home[s]][i] = s
        BY <1>3, <1>4 DEF Places
    <2>2. \A s \in Slabs : home[s] = <<nid[s], TypeFor(obj, s)>>
        BY <1>3
    <2>3. ASSUME NEW s \in Slabs PROVE Contains(list[home[s]], s)
        <3>1. home[s] \in Heads
            BY <1>3 DEF Places
        <3>2. DOMAIN list[home[s]] = 1..Len(list[home[s]])
            BY <3>1, <1>10
        <3> QED
            BY <2>1, <3>2 DEF Contains
    <2> QED
        BY <2>2, <2>3, <1>10, <1>13 DEF ListsAsKept
<1>18. WorldOK(m)
    BY <1>13 DEF WorldOK
<1>19. DumpOK(m)
    BY <1>14, <1>15, <1>16, <1>17, <1>18 DEF DumpOK
<1>20. PagesAsKept(m)
    BY <1>11, <1>13, <1>14 DEF PagesAsKept
<1>21. NearLinks(m)
    <2>1. \A x \in Places : NodeOf(m, x) = home[x][1]
        BY <1>3, <1>13 DEF NodeOf, Places
    <2> QED
        BY <2>1, <1>8, <1>9, <1>13 DEF NearLinks
<1> QED
    BY <1>11, <1>12, <1>14, <1>19, <1>20, <1>21 DEF KernelDump, m

-----------------------------------------------------------------------------
(* Each flaw leaves the rest of the dump alone.                              *)

SameWorld(x, m) == x.isPage = m.isPage /\ x.nid = m.nid /\ x.obj = m.obj /\ x.list = m.list
SameSlabs(x, m) == x.chain = m.chain /\ x.freelist = m.freelist /\ x.inuse = m.inuse
SamePages(x, m) == /\ x.pageNid = m.pageNid /\ x.slabFlag = m.slabFlag
                   /\ x.cachePtr = m.cachePtr /\ x.slabPtr = m.slabPtr /\ x.home = m.home

LEMMA FlawRule ==
    ASSUME NEW m, KernelDump(m), NEW x, SameWorld(x, m), x.ac = m.ac,
           x.fault[1] \notin {"index", "inuse"} => SameSlabs(x, m),
           x.fault[1] # "hole" => x.absentPages = m.absentPages,
           x.fault[1] \in {"none", "link"} => SamePages(x, m) /\ NearLinks(x)
    PROVE  DumpOK(x) /\ TidyDump(x)
<1>1. m.fault[1] = "none"
    BY DEF KernelDump
<1>2. WorldOK(x) /\ ListsAsKept(x)
    BY DEF KernelDump, DumpOK, WorldOK, ListsAsKept, SameWorld
<1>3. CachesAsKept(x)
    BY <1>1 DEF KernelDump, DumpOK, CachesAsKept, SameWorld
<1>4. x.fault[1] \notin {"index", "inuse"} => SlabsAsKept(x)
    BY <1>1 DEF KernelDump, DumpOK, SlabsAsKept, SameWorld, SameSlabs
<1>5. x.fault[1] # "hole" => x.absentPages = {}
    BY <1>1 DEF KernelDump, DumpOK
<1>6. TidyDump(x)
    BY DEF KernelDump, TidyDump, PagesAsKept, SamePages, SameWorld
<1> QED
    BY <1>2, <1>3, <1>4, <1>5, <1>6 DEF DumpOK

\* One more entry in an array cache, of an object that is free.
LEMMA EntryRule ==
    ASSUME NEW m, KernelDump(m), NEW c \in Caches, NEW o \in Objs, NEW w,
           w \in {"cached", "twice"},
           m.obj[o] \in Caches \/ (w = "cached" /\ m.obj[o] = InSlab),
           NEW x, x = [m EXCEPT !.ac[c] = Append(@, o), !.fault = <<w, o>>]
    PROVE  DumpOK(x) /\ TidyDump(x)
<1>1. DOMAIN m = Fields /\ m.ac \in [Caches -> Seq(Objs)]
    BY DEF KernelDump, DumpOK, CachesAsKept
<1>2. /\ SameWorld(x, m) /\ SameSlabs(x, m) /\ x.absentPages = m.absentPages
    BY <1>1 DEF Fields, SameWorld, SameSlabs
<1>3. x.fault = <<w, o>> /\ x.ac = [m.ac EXCEPT ![c] = Append(m.ac[c], o)]
    BY <1>1 DEF Fields
<1>4. x.fault[1] = w /\ m.fault[1] = "none"
    BY <1>3 DEF KernelDump
<1> DEFINE l == m.ac[c]
           q == Append(l, o)
<1>5. x.ac[c] = q /\ (\A e \in Caches : e # c => x.ac[e] = m.ac[e])
      /\ l \in Seq(Objs)
    BY <1>1, <1>3
<1>6. \A e \in Caches : \A j \in DOMAIN m.ac[e] : m.obj[m.ac[e][j]] \in Caches
    BY <1>4 DEF KernelDump, DumpOK, CachesAsKept
<1>7. \A p \in Objs : m.obj[p] \in Caches =>
          \E j \in DOMAIN m.ac[m.obj[p]] : m.ac[m.obj[p]][j] = p
    BY DEF KernelDump, DumpOK, CachesAsKept
<1>8. \A j \in DOMAIN l : m.obj[l[j]] \in Caches
    BY <1>6
<1> HIDE DEF l
<1>9. /\ q \in Seq(Objs) /\ Len(q) = Len(l) + 1
      /\ \A i \in 1..Len(l) : q[i] = l[i]
      /\ q[Len(l) + 1] = o
    BY <1>5, AppendProperties
<1> HIDE DEF q
<1>10. DOMAIN l = 1..Len(l) /\ DOMAIN q = 1..(Len(l) + 1) /\ Len(l) \in Nat
    BY <1>5, <1>9
<1>11. \A j \in DOMAIN q : m.obj[q[j]] \in Caches \/ (w = "cached" /\ m.obj[q[j]] = InSlab)
    <2> SUFFICES ASSUME NEW j \in DOMAIN q
                 PROVE  m.obj[q[j]] \in Caches \/ (w = "cached" /\ m.obj[q[j]] = InSlab)
        OBVIOUS
    <2>1. CASE j = Len(l) + 1
        BY <2>1, <1>9
    <2>2. CASE j # Len(l) + 1
        <3>1. j \in 1..Len(l)
            BY <2>2, <1>10
        <3> QED
            BY <3>1, <1>8, <1>9, <1>10
    <2> QED
        BY <2>1, <2>2
<1>12. ASSUME NEW e \in Caches, NEW j \in DOMAIN x.ac[e]
       PROVE  m.obj[x.ac[e][j]] \in Caches \/ (w = "cached" /\ m.obj[x.ac[e][j]] = InSlab)
    <2>1. CASE e = c
        BY <2>1, <1>5, <1>11
    <2>2. CASE e # c
        BY <2>2, <1>5, <1>6
    <2> QED
        BY <2>1, <2>2
<1>13. ASSUME NEW p \in Objs, m.obj[p] \in Caches
       PROVE  \E j \in DOMAIN x.ac[m.obj[p]] : x.ac[m.obj[p]][j] = p
    <2>1. PICK j \in DOMAIN m.ac[m.obj[p]] : m.ac[m.obj[p]][j] = p
        BY <1>7, <1>13
    <2>2. CASE m.obj[p] = c
        <3>1. j \in 1..Len(l) /\ l[j] = p
            BY <2>1, <2>2, <1>10 DEF l
        <3>2. j \in DOMAIN q /\ q[j] = p
            BY <3>1, <1>9, <1>10
        <3> QED
            BY <2>2, <3>2, <1>5
    <2>3. CASE m.obj[p] # c
        BY <2>1, <2>3, <1>5, <1>13
    <2> QED
        BY <2>2, <2>3
<1>14. x.ac \in [Caches -> Seq(Objs)]
    <2>1. q \in Seq(Objs) /\ x.ac = [m.ac EXCEPT ![c] = q]
        BY <1>3, <1>9 DEF q, l
    <2> QED
        BY <2>1, <1>1
<1>15. CachesAsKept(x)
    BY <1>2, <1>4, <1>12, <1>13, <1>14 DEF CachesAsKept, SameWorld
<1>16. SlabsAsKept(x) /\ WorldOK(x) /\ ListsAsKept(x) /\ x.absentPages = {}
    BY <1>2, <1>4 DEF KernelDump, DumpOK, SlabsAsKept, WorldOK, ListsAsKept, SameWorld, SameSlabs
<1> QED
    BY <1>4, <1>15, <1>16 DEF DumpOK, TidyDump

LEMMA ObjectFaultOK ==
    ASSUME NEW m, KernelDump(m), NEW x \in WithObjectFault(m)
    PROVE  DumpOK(x) /\ TidyDump(x)
<1>0. /\ DOMAIN m = Fields /\ m.ac \in [Caches -> Seq(Objs)] /\ m.fault[1] = "none"
      /\ \A e \in Caches : \A j \in DOMAIN m.ac[e] : m.obj[m.ac[e][j]] \in Caches
    <2>1. DOMAIN m = Fields /\ m.fault[1] = "none"
        BY DEF KernelDump
    <2> QED
        BY <2>1 DEF KernelDump, DumpOK, CachesAsKept
<1>1. ASSUME NEW c \in Caches, NEW o \in Objs, Contains(m.chain[o[1]], o[2]),
             x = [m EXCEPT !.ac[c] = Append(@, o), !.fault = <<"cached", o>>]
      PROVE  DumpOK(x) /\ TidyDump(x)
    <2>1. o[1] \in Slabs /\ o = <<o[1], o[2]>>
        BY DEF Objs
    <2>2. m.chain[o[1]] = FreeIn(m.obj, o[1])
        BY <1>0, <2>1 DEF KernelDump, DumpOK, SlabsAsKept
    <2>3. Lists(FreeIn(m.obj, o[1]), FreeSet(m.obj, o[1]))
        BY IndexSets
    <2>4. o[2] \in FreeSet(m.obj, o[1])
        BY <1>1, <2>2, <2>3 DEF Lists, Contains
    <2>5. m.obj[o] = InSlab
        BY <2>1, <2>4 DEF FreeSet
    <2> QED
        BY <1>1, <2>5, EntryRule
<1>2. ASSUME NEW c \in Caches, NEW o \in UNION {Range(m.ac[e]) : e \in Caches},
             x = [m EXCEPT !.ac[c] = Append(@, o), !.fault = <<"twice", o>>]
      PROVE  DumpOK(x) /\ TidyDump(x)
    <2>1. PICK e \in Caches : o \in Range(m.ac[e])
        OBVIOUS
    <2>2. PICK j \in DOMAIN m.ac[e] : o = m.ac[e][j]
        BY <2>1 DEF Range
    <2>3. o \in Objs /\ m.obj[o] \in Caches
        BY <1>0, <2>2
    <2> QED
        BY <1>2, <2>3, EntryRule
<1>3. ASSUME NEW y, x = [m EXCEPT !.chain[y[1]] = Append(@, y[2]), !.freelist[y[1]][NObj] = y[2],
                                  !.fault = <<"index", y[1]>>]
      PROVE  DumpOK(x) /\ TidyDump(x)
    <2>1. x.fault = <<"index", y[1]>>
        BY <1>0, <1>3 DEF Fields
    <2>2. x.isPage = m.isPage /\ x.nid = m.nid /\ x.obj = m.obj /\ x.list = m.list
        BY <1>0, <1>3 DEF Fields
    <2>3. x.ac = m.ac /\ x.absentPages = m.absentPages
        BY <1>0, <1>3 DEF Fields
    <2>4. x.fault[1] = "index"
        BY <2>1
    <2> QED
        BY <2>2, <2>3, <2>4, FlawRule DEF SameWorld
<1> DEFINE Cached == {[m EXCEPT !.ac[y[1]] = Append(@, y[2]), !.fault = <<"cached", y[2]>>] :
               y \in Caches \X {o \in Objs : Contains(m.chain[o[1]], o[2])}}
           Twice == {[m EXCEPT !.ac[y[1]] = Append(@, y[2]), !.fault = <<"twice", y[2]>>] :
               y \in Caches \X UNION {Range(m.ac[c]) : c \in Caches}}
           Index == {[m EXCEPT !.chain[y[1]] = Append(@, y[2]), !.freelist[y[1]][NObj] = y[2],
                               !.fault = <<"index", y[1]>>] :
               y \in {y \in Slabs \X (0..NObj) :
                   \/ y[2] = NObj /\ m.chain[y[1]] # <<>>
                   \/ Len(m.chain[y[1]]) > 1 /\ y[2] = m.chain[y[1]][1]}}
<1>4. WithObjectFault(m) = Cached \cup Twice \cup Index
    BY DEF WithObjectFault
<1>5. ASSUME x \in Cached PROVE DumpOK(x) /\ TidyDump(x)
    <2>1. PICK y \in Caches \X {o \in Objs : Contains(m.chain[o[1]], o[2])} :
              x = [m EXCEPT !.ac[y[1]] = Append(@, y[2]), !.fault = <<"cached", y[2]>>]
        BY <1>5
    <2>2. y[1] \in Caches /\ y[2] \in Objs /\ Contains(m.chain[y[2][1]], y[2][2])
        OBVIOUS
    <2> QED
        BY <2>1, <2>2, <1>1
<1>6. ASSUME x \in Twice PROVE DumpOK(x) /\ TidyDump(x)
    <2>1. PICK y \in Caches \X UNION {Range(m.ac[c]) : c \in Caches} :
              x = [m EXCEPT !.ac[y[1]] = Append(@, y[2]), !.fault = <<"twice", y[2]>>]
        BY <1>6
    <2>2. y[1] \in Caches /\ y[2] \in UNION {Range(m.ac[c]) : c \in Caches}
        OBVIOUS
    <2> QED
        BY <2>1, <2>2, <1>2
<1>7. ASSUME x \in Index PROVE DumpOK(x) /\ TidyDump(x)
    BY <1>3, <1>7
<1> HIDE DEF Cached, Twice, Index
<1> QED
    BY <1>4, <1>5, <1>6, <1>7

LEMMA SlabFaultOK ==
    ASSUME NEW m, KernelDump(m), NEW x \in WithSlabFault(m)
    PROVE  DumpOK(x) /\ TidyDump(x)
<1>0. DOMAIN m = Fields
    BY DEF KernelDump
<1>1. ASSUME NEW y, x = [m EXCEPT !.inuse[y[1]] = y[2], !.fault = <<"inuse", y[1]>>]
      PROVE  DumpOK(x) /\ TidyDump(x)
    <2>1. /\ SameWorld(x, m) /\ x.ac = m.ac /\ x.absentPages = m.absentPages
          /\ x.fault = <<"inuse", y[1]>>
        BY <1>0, <1>1 DEF Fields, SameWorld
    <2>2. x.fault[1] = "inuse"
        BY <2>1
    <2> QED
        BY <2>1, <2>2, FlawRule
<1>2. ASSUME NEW n, x = [m EXCEPT !.free_objects[n] = @ + 1, !.fault = <<"declared", n>>]
      PROVE  DumpOK(x) /\ TidyDump(x)
    <2>1. /\ SameWorld(x, m) /\ SameSlabs(x, m) /\ x.ac = m.ac /\ x.absentPages = m.absentPages
          /\ x.fault = <<"declared", n>>
        BY <1>0, <1>2 DEF Fields, SameWorld, SameSlabs
    <2>2. x.fault[1] = "declared"
        BY <2>1
    <2> QED
        BY <2>1, <2>2, FlawRule
<1>3. ASSUME NEW y, x = [m EXCEPT !.pageNid[y[1]] = y[2], !.fault = <<"nid", y[1]>>]
      PROVE  DumpOK(x) /\ TidyDump(x)
    <2>1. /\ SameWorld(x, m) /\ SameSlabs(x, m) /\ x.ac = m.ac /\ x.absentPages = m.absentPages
          /\ x.fault = <<"nid", y[1]>>
        BY <1>0, <1>3 DEF Fields, SameWorld, SameSlabs
    <2>2. x.fault[1] = "nid"
        BY <2>1
    <2> QED
        BY <2>1, <2>2, FlawRule
<1>4. ASSUME NEW s, x = [m EXCEPT !.slabFlag = @ \ {s}, !.fault = <<"flag", s>>]
      PROVE  DumpOK(x) /\ TidyDump(x)
    <2>1. /\ SameWorld(x, m) /\ SameSlabs(x, m) /\ x.ac = m.ac /\ x.absentPages = m.absentPages
          /\ x.fault = <<"flag", s>>
        BY <1>0, <1>4 DEF Fields, SameWorld, SameSlabs
    <2>2. x.fault[1] = "flag"
        BY <2>1
    <2> QED
        BY <2>1, <2>2, FlawRule
<1>5. ASSUME NEW s, x = [m EXCEPT !.cachePtr = @ \ {s}, !.fault = <<"cache", s>>]
      PROVE  DumpOK(x) /\ TidyDump(x)
    <2>1. /\ SameWorld(x, m) /\ SameSlabs(x, m) /\ x.ac = m.ac /\ x.absentPages = m.absentPages
          /\ x.fault = <<"cache", s>>
        BY <1>0, <1>5 DEF Fields, SameWorld, SameSlabs
    <2>2. x.fault[1] = "cache"
        BY <2>1
    <2> QED
        BY <2>1, <2>2, FlawRule
<1>6. ASSUME NEW y, x = [m EXCEPT !.slabPtr[y[1]] = y[2], !.fault = <<"owner", y[1]>>]
      PROVE  DumpOK(x) /\ TidyDump(x)
    <2>1. /\ SameWorld(x, m) /\ SameSlabs(x, m) /\ x.ac = m.ac /\ x.absentPages = m.absentPages
          /\ x.fault = <<"owner", y[1]>>
        BY <1>0, <1>6 DEF Fields, SameWorld, SameSlabs
    <2>2. x.fault[1] = "owner"
        BY <2>1
    <2> QED
        BY <2>1, <2>2, FlawRule
<1> QED
    BY <1>1, <1>2, <1>3, <1>4, <1>5, <1>6 DEF WithSlabFault

LEMMA LinkOK ==
    ASSUME NEW m, KernelDump(m), NEW x \in WithLink(m)
    PROVE  DumpOK(x) /\ TidyDump(x)
<1>0. DOMAIN m = Fields /\ NearLinks(m)
    BY DEF KernelDump
<1>1. ASSUME NEW p \in Near(m), x = [m EXCEPT !.next[p[1]] = p[2], !.fault = <<"link", p[1]>>]
      PROVE  DumpOK(x) /\ TidyDump(x)
    <2>1. /\ SameWorld(x, m) /\ SameSlabs(x, m) /\ x.ac = m.ac /\ x.absentPages = m.absentPages
          /\ SamePages(x, m)
        BY <1>0, <1>1 DEF Fields, SameWorld, SameSlabs, SamePages
    <2>2. x.prev = m.prev /\ x.next = [m.next EXCEPT ![p[1]] = p[2]]
        BY <1>0, <1>1 DEF Fields
    <2>3. p[1] \in Places /\ p[2] \in Places \cup {NULL}
          /\ (p[2] # NULL => NodeOf(m, p[1]) = NodeOf(m, p[2]))
        BY DEF Near
    <2>4. \A y : NodeOf(x, y) = NodeOf(m, y)
        BY <2>1 DEF NodeOf, SameWorld
    <2>5. NearLinks(x)
        BY <1>0, <2>2, <2>3, <2>4 DEF NearLinks
    <2> QED
        BY <2>1, <2>5, FlawRule
<1>2. ASSUME NEW p \in Near(m), x = [m EXCEPT !.prev[p[1]] = p[2], !.fault = <<"link", p[1]>>]
      PROVE  DumpOK(x) /\ TidyDump(x)
    <2>1. /\ SameWorld(x, m) /\ SameSlabs(x, m) /\ x.ac = m.ac /\ x.absentPages = m.absentPages
          /\ SamePages(x, m)
        BY <1>0, <1>2 DEF Fields, SameWorld, SameSlabs, SamePages
    <2>2. x.next = m.next /\ x.prev = [m.prev EXCEPT ![p[1]] = p[2]]
        BY <1>0, <1>2 DEF Fields
    <2>3. p[1] \in Places /\ p[2] \in Places \cup {NULL}
          /\ (p[2] # NULL => NodeOf(m, p[1]) = NodeOf(m, p[2]))
        BY DEF Near
    <2>4. \A y : NodeOf(x, y) = NodeOf(m, y)
        BY <2>1 DEF NodeOf, SameWorld
    <2>5. NearLinks(x)
        BY <1>0, <2>2, <2>3, <2>4 DEF NearLinks
    <2> QED
        BY <2>1, <2>5, FlawRule
<1> QED
    BY <1>1, <1>2 DEF WithLink

LEMMA HoleOK ==
    ASSUME NEW m, KernelDump(m), NEW x \in WithHole(m)
    PROVE  DumpOK(x) /\ TidyDump(x)
<1>0. DOMAIN m = Fields
    BY DEF KernelDump
<1>1. ASSUME NEW s, x = [m EXCEPT !.absentPages = {s}, !.fault = <<"hole", s>>]
      PROVE  DumpOK(x) /\ TidyDump(x)
    <2>1. SameWorld(x, m) /\ SameSlabs(x, m) /\ x.ac = m.ac /\ x.fault = <<"hole", s>>
        BY <1>0, <1>1 DEF Fields, SameWorld, SameSlabs
    <2>2. x.fault[1] = "hole"
        BY <2>1
    <2> QED
        BY <2>1, <2>2, FlawRule
<1>2. ASSUME NEW s, x = [m EXCEPT !.absentBufctl = {s}, !.fault = <<"hole", s>>]
      PROVE  DumpOK(x) /\ TidyDump(x)
    <2>1. SameWorld(x, m) /\ SameSlabs(x, m) /\ x.ac = m.ac /\ x.fault = <<"hole", s>>
        BY <1>0, <1>2 DEF Fields, SameWorld, SameSlabs
    <2>2. x.fault[1] = "hole"
        BY <2>1
    <2> QED
        BY <2>1, <2>2, FlawRule
<1> QED
    BY <1>1, <1>2 DEF WithHole

LEMMA OffOK ==
    ASSUME NEW m, KernelDump(m), NEW x \in WithOff(m)
    PROVE  DumpOK(x) /\ TidyDump(x)
<1>0. DOMAIN m = Fields /\ NearLinks(m)
    BY DEF KernelDump
<1>1. CASE x = [m EXCEPT !.off_slab = TRUE]
    <2>1. /\ SameWorld(x, m) /\ SameSlabs(x, m) /\ x.ac = m.ac /\ x.absentPages = m.absentPages
          /\ SamePages(x, m)
        BY <1>0, <1>1 DEF Fields, SameWorld, SameSlabs, SamePages
    <2>2. x.next = m.next /\ x.prev = m.prev
        BY <1>0, <1>1 DEF Fields
    <2>3. NearLinks(x)
        BY <1>0, <2>1, <2>2 DEF NearLinks, NodeOf, SameWorld
    <2> QED
        BY <2>1, <2>3, FlawRule
<1>2. ASSUME NEW y, x = [m EXCEPT !.off_slab = TRUE, !.home[y[1]] = y[2],
                                  !.fault = <<"off", y[1]>>]
      PROVE  DumpOK(x) /\ TidyDump(x)
    <2>1. /\ SameWorld(x, m) /\ SameSlabs(x, m) /\ x.ac = m.ac /\ x.absentPages = m.absentPages
          /\ x.fault = <<"off", y[1]>>
        BY <1>0, <1>2 DEF Fields, SameWorld, SameSlabs
    <2>2. x.fault[1] = "off"
        BY <2>1
    <2> QED
        BY <2>1, <2>2, FlawRule
<1> QED
    BY <1>1, <1>2 DEF WithOff

LEMMA VariantOK ==
    ASSUME NEW m, KernelDump(m), NEW flaw \in Flaws, NEW x \in Variants(m, flaw)
    PROVE  DumpOK(x) /\ TidyDump(x)
<1>1. flaw \in {"none", "object", "slab", "link", "hole", "off"}
    BY SlabAssumption
<1>2. CASE flaw = "none"
    BY <1>2 DEF Variants, KernelDump, TidyDump
<1>3. CASE flaw = "object"
    BY <1>3, ObjectFaultOK DEF Variants
<1>4. CASE flaw = "slab"
    BY <1>4, SlabFaultOK DEF Variants
<1>5. CASE flaw = "link"
    BY <1>5, LinkOK DEF Variants
<1>6. CASE flaw = "hole"
    BY <1>6, HoleOK DEF Variants
<1>7. CASE flaw = "off"
    BY <1>7, OffOK DEF Variants
<1> QED
    BY <1>1, <1>2, <1>3, <1>4, <1>5, <1>6, <1>7

LEMMA InitDump ==
    ASSUME Init
    PROVE  DumpOK(mem) /\ TidyDump(mem)
<1>1. PICK w \in Worlds, isPage \in BOOLEAN, flaw \in Flaws :
          mem \in Variants(Memory(w[1], w[2], isPage), flaw)
    BY DEF Init
<1>2. w[1] \in [Slabs -> Nodes] /\ w[2] \in [Objs -> ObjStates]
    BY DEF Worlds, ObjStates
<1>3. KernelDump(Memory(w[1], w[2], isPage))
    BY <1>2, MemoryShape
<1> QED
    BY <1>1, <1>3, VariantOK

-----------------------------------------------------------------------------
(***************************************************************************)
(* For any cache, any flaw of the dump and any order of commands: the      *)
(* collection of the cached objects is empty or what one fill leaves, and  *)
(* the answers rest on the dump alone.                                     *)
(***************************************************************************)
THEOREM CachesInvariant == Spec => []CachesInv
<1>1. Init => CachesInv
    <2> SUFFICES ASSUME Init PROVE CachesInv
        OBVIOUS
    <2>1. DumpOK(mem)
        BY InitDump
    <2>2. page_slab = mem.isPage
        <3>1. mem.isPage \in BOOLEAN
            BY <2>1 DEF DumpOK, WorldOK
        <3>2. page_slab = Layout(mem.isPage)
            BY DEF Init
        <3> QED
            BY <3>1, <3>2 DEF Layout, check_page_type, check_slab_type
    <2>3. array_caches = {} /\ said = {} /\ outcome = "none"
        BY DEF Init
    <2> QED
        BY <2>1, <2>2, <2>3 DEF CachesInv, AllocatedRight
<1>2. CachesInv /\ [Next]_vars => CachesInv'
    BY CachesStep
<1> QED
    BY <1>1, <1>2, PTL DEF Spec

(***************************************************************************)
(* An object is said to be allocated exactly if it is neither free in its  *)
(* slab nor in an array cache, or if it was cut off when the first fill of *)
(* array_caches hit a missing page (obj_in_use, get_allocated_objects).    *)
(***************************************************************************)
THEOREM AllocatedSaidRight == Spec => []AllocatedRight
<1>1. CachesInv => AllocatedRight
    BY DEF CachesInv
<1> QED
    BY <1>1, CachesInvariant, PTL

-----------------------------------------------------------------------------
(* The summary lines of check_all.                                           *)

Judged == mem.fault[1] \in {"none", "link"}
Tally(ch) == UNION {{s} \X (1..ch[s]) : s \in Slabs}
RunFields == {"nids", "type", "rev", "free", "pc", "at", "last", "seen", "pending",
              "ok", "misplaced"}
RunOK(r) ==
    /\ DOMAIN r = RunFields /\ r.nids \in Seq(Nodes) /\ r.nids # <<>> /\ r.type \in Types
    /\ r.ok \in Nat /\ r.misplaced \in Nat
    /\ Judged /\ r.pc = "walk" => r.at \in Places /\ NodeOf(mem, r.at) = Head(r.nids)
Uncounted(r) == IF r # NoRun /\ r.pc # "node" THEN r.ok + r.misplaced ELSE 0

(***************************************************************************)
(* A run in a sound list, or one with a wrong link, stays on its node; the *)
(* slabs on the summary lines and the ones since the last of these lines   *)
(* are the slabs that were checked.                                        *)
(***************************************************************************)
CountInv ==
    /\ CachesInv /\ TidyDump(mem)
    /\ checks \in [Slabs -> Nat] /\ IsFiniteSet(Tally(checks))
    /\ printed \in [ok : Nat, misplaced : Nat]
    /\ run = NoRun \/ RunOK(run)
    /\ run # NoRun => outcome # "checked"
    /\ Judged => off_slab_cache \in {"unknown", "size-64"}
    /\ Judged /\ (run # NoRun \/ outcome = "checked") =>
           printed.ok + printed.misplaced + Uncounted(run) = Cardinality(Tally(checks))

LEMMA RunNotNone ==
    ASSUME NEW r, RunOK(r)
    PROVE  r # NoRun
BY DEF RunOK, NoRun

LEMMA EmptyTally ==
    ASSUME NEW ch, ch = [s \in Slabs |-> 0]
    PROVE  /\ ch \in [Slabs -> Nat] /\ IsFiniteSet(Tally(ch))
           /\ Cardinality(Tally(ch)) = 0
<1>1. Tally(ch) = {}
    BY DEF Tally
<1> QED
    BY <1>1, FS_EmptySet

LEMMA TallyGrows ==
    ASSUME NEW ch \in [Slabs -> Nat], IsFiniteSet(Tally(ch)), NEW s \in Slabs,
           NEW d, d = [ch EXCEPT ![s] = @ + 1]
    PROVE  /\ d \in [Slabs -> Nat] /\ IsFiniteSet(Tally(d))
           /\ Cardinality(Tally(d)) = Cardinality(Tally(ch)) + 1
<1>1. \A t \in Slabs : d[t] = IF t = s THEN ch[s] + 1 ELSE ch[t]
    OBVIOUS
<1> DEFINE e == <<s, ch[s] + 1>>
<1>2. \A x : x \in Tally(d) <=> \E t \in Slabs : \E k \in 1..d[t] : x = <<t, k>>
    BY DEF Tally
<1>3. \A x : x \in Tally(ch) <=> \E t \in Slabs : \E k \in 1..ch[t] : x = <<t, k>>
    BY DEF Tally
<1>4. e \notin Tally(ch)
    BY <1>3
<1>5. ASSUME NEW x \in Tally(d) PROVE x \in Tally(ch) \/ x = e
    <2>0. PICK t \in Slabs : \E k \in 1..d[t] : x = <<t, k>>
        BY <1>2
    <2>1. PICK k \in 1..d[t] : x = <<t, k>>
        BY <2>0
    <2>2. k \in 1..ch[t] \/ (t = s /\ k = ch[s] + 1)
        BY <1>1
    <2> QED
        BY <1>3, <2>1, <2>2
<1>6. ASSUME NEW x \in Tally(ch) PROVE x \in Tally(d)
    <2>0. PICK t \in Slabs : \E k \in 1..ch[t] : x = <<t, k>>
        BY <1>3
    <2>1. PICK k \in 1..ch[t] : x = <<t, k>>
        BY <2>0
    <2>2. k \in 1..d[t]
        BY <1>1
    <2> QED
        BY <1>2, <2>1, <2>2
<1>7. e \in Tally(d)
    <2>1. d[s] = ch[s] + 1 /\ ch[s] + 1 \in 1..d[s]
        BY <1>1
    <2> QED
        BY <1>2, <2>1
<1>8. Tally(d) = Tally(ch) \cup {e}
    <2> HIDE DEF e
    <2> QED
        BY <1>5, <1>6, <1>7
<1> HIDE DEF e
<1>9. /\ IsFiniteSet(Tally(ch) \cup {e})
      /\ Cardinality(Tally(ch) \cup {e}) = Cardinality(Tally(ch)) + 1
    BY <1>4, FS_AddElement
<1>10. d \in [Slabs -> Nat]
    OBVIOUS
<1> QED
    BY <1>8, <1>9, <1>10

LEMMA FreeSize ==
    ASSUME NEW obj, NEW s
    PROVE  /\ Cardinality({o \in ObjsOf(s) : obj[o] = InSlab}) = Len(FreeIn(obj, s))
           /\ Len(UsedIn(obj, s)) + Len(FreeIn(obj, s)) = NObj
           /\ IsFiniteSet({o \in ObjsOf(s) : obj[o] = InSlab})
<1> DEFINE F == FreeSet(obj, s)
           T == {o \in ObjsOf(s) : obj[o] = InSlab}
           g == [i \in F |-> <<s, i>>]
<1>2. g \in [F -> T] /\ (\A i, j \in F : g[i] = g[j] => i = j)
    BY DEF FreeSet, ObjsOf, Indices
<1>3. \A o \in T : \E i \in F : g[i] = o
    BY DEF FreeSet, ObjsOf, Indices
<1>4. Lists(FreeIn(obj, s), F) /\ Len(UsedIn(obj, s)) + Len(FreeIn(obj, s)) = NObj
    BY IndexSets
<1>5. IsFiniteSet(F)
    <2>1. IsFiniteSet(Indices)
        BY SlabAssumption, FS_Interval DEF Indices
    <2>2. F \in SUBSET Indices
        BY DEF FreeSet
    <2> HIDE DEF F
    <2> QED
        BY <2>1, <2>2, FS_Subset
<1>6. IsFiniteSet(T)
    <2>1. T \in SUBSET ObjsOf(s)
        OBVIOUS
    <2> HIDE DEF T
    <2>2. IsFiniteSet(ObjsOf(s))
        <3> DEFINE I == 0..(NObj - 1)
                   S == {s}
        <3>0. IsFiniteSet(S) /\ ObjsOf(s) = S \X I
            BY FS_Singleton DEF ObjsOf
        <3>1. IsFiniteSet(I)
            BY SlabAssumption, FS_Interval
        <3> HIDE DEF I, S
        <3> QED
            BY <3>0, <3>1, FS_Product
    <2> QED
        BY <2>1, <2>2, FS_Subset
<1> HIDE DEF F, T, g
<1>7. g \in Bijection(F, T)
    BY <1>2, <1>3 DEF Bijection, Injection, Surjection, IsInjective
<1>8. Cardinality(T) = Cardinality(F)
    BY <1>5, <1>7, FS_Bijection DEF ExistsBijection
<1> QED
    BY <1>4, <1>6, <1>8 DEF T, Lists

LEMMA FreeCount ==
    ASSUME CachesInv, mem.fault[1] \notin {"index", "inuse"}, NEW s \in Slabs
    PROVE  mem.inuse[s] + Cardinality(FreeOf(s)) = NObj
<1>1. FreeOf(s) = {o \in ObjsOf(s) : mem.obj[o] = InSlab}
    BY FreeExact DEF CachesInv
<1>2. mem.inuse[s] = Len(UsedIn(mem.obj, s))
    BY DEF CachesInv, DumpOK, SlabsAsKept
<1>3. /\ Cardinality({o \in ObjsOf(s) : mem.obj[o] = InSlab}) = Len(FreeIn(mem.obj, s))
      /\ Len(UsedIn(mem.obj, s)) + Len(FreeIn(mem.obj, s)) = NObj
    BY FreeSize
<1> QED
    BY <1>1, <1>2, <1>3

LEMMA NothingFound ==
    ASSUME CountInv, Judged, NEW s \in Slabs
    PROVE  CheckErrors(s, mem.nid[s]) = {}
<1>1. BadAt(s) = {} /\ FreeOf(s) = {o \in ObjsOf(s) : mem.obj[o] = InSlab}
    BY FreeExact DEF CountInv, CachesInv, Judged
<1>2. PagesAsKept(mem)
    BY DEF CountInv, TidyDump, Judged
<1>3. mem.absentPages = {} /\ mem.fault[1] # "cached"
    BY DEF CountInv, CachesInv, DumpOK, Judged
<1>4. mem.home[s] = "size-64" /\ mem.slabPtr[s] = s /\ mem.pageNid[s] = mem.nid[s]
    BY <1>2 DEF PagesAsKept
<1>5. OffSlabErrors(s) = {}
    BY <1>4 DEF OffSlabErrors, CountInv
<1>6. PageErrors(s, mem.nid[s]) = {}
    BY <1>2, <1>3, <1>4 DEF PageErrors, PagesAsKept
<1>7. EarlyErrors(s, mem.nid[s]) = {}
    BY <1>1, <1>4, <1>5, FreeCount DEF EarlyErrors, PopulateErrors, CountInv, Judged
<1>8. get_array_caches = Filled
    BY DEF get_array_caches, NeedsFill, CountInv, CachesInv
<1>9. FreeOf(s) \cap CachedObjs(Filled) = {}
    BY <1>1, <1>3, CachedFree, NotAllocated DEF CountInv, CachesInv
<1> QED
    BY <1>6, <1>7, <1>8, <1>9 DEF CheckErrors

LEMMA PassOK ==
    ASSUME TidyDump(mem), NEW nids \in Seq(Nodes), nids # <<>>, NEW type \in Types,
           NEW rev, NEW free
    PROVE  /\ RunOK(Pass(nids, type, rev, free))
           /\ Uncounted(Pass(nids, type, rev, free)) = 0
<1> DEFINE h == <<Head(nids), type>>
           first == Link(rev, h)
           p == Pass(nids, type, rev, free)
<1>1. p = [nids |-> nids, type |-> type, rev |-> rev, free |-> free,
           pc |-> IF first = NULL THEN "null" ELSE "walk",
           at |-> first, last |-> h, seen |-> {}, pending |-> FALSE,
           ok |-> 0, misplaced |-> 0]
    BY DEF Pass
<1>2. Head(nids) \in Nodes
    BY HeadTailProperties
<1>3. h \in Heads /\ h \in Places /\ h[1] = Head(nids)
    BY <1>2 DEF Heads, Places
<1>4. ASSUME Judged, first # NULL
      PROVE  first \in Places /\ NodeOf(mem, first) = Head(nids)
    <2> HIDE DEF h
    <2>1. NearLinks(mem)
        BY <1>4 DEF TidyDump, Judged
    <2>2. NodeOf(mem, h) = Head(nids)
        BY <1>3 DEF NodeOf
    <2>3. first = mem.next[h] \/ first = mem.prev[h]
        BY DEF Link
    <2> HIDE DEF first
    <2> QED
        BY <1>3, <1>4, <2>1, <2>2, <2>3 DEF NearLinks
<1> HIDE DEF h, first
<1>5. /\ DOMAIN p = RunFields /\ p.nids = nids /\ p.type = type /\ p.ok = 0 /\ p.misplaced = 0
      /\ p.at = first /\ p.pc = IF first = NULL THEN "null" ELSE "walk"
    BY <1>1 DEF RunFields
<1> HIDE DEF p
<1>6. RunOK(p)
    BY <1>4, <1>5 DEF RunOK
<1>7. Uncounted(p) = 0
    BY <1>5 DEF Uncounted
<1> QED
    BY <1>6, <1>7 DEF p

\* What a step leaves alone can be left out of the invariant's last conjuncts.
LEMMA SameJudgement ==
    ASSUME mem' = mem
    PROVE  /\ (Judged' <=> Judged) /\ (TidyDump(mem))' = TidyDump(mem)
           /\ \A r : RunOK(r)' <=> RunOK(r)
BY DEF Judged, RunOK, NodeOf

\* The end of a pass moves the counts to the summary lines.
LEMMA EndPassKeeps ==
    ASSUME CountInv, RunOK(run), run.pc \in {"walk", "null"}, NEW failed, EndPass(failed),
           mem' = mem, checks' = checks, outcome' = outcome, off_slab_cache' = off_slab_cache,
           CachesInv'
    PROVE  CountInv'
<1>1. /\ (Judged' <=> Judged) /\ (TidyDump(mem))' = TidyDump(mem)
      /\ \A r : RunOK(r)' <=> RunOK(r)
    BY SameJudgement
<1>2. /\ run' = Following(failed)
      /\ printed' = [ok |-> printed.ok + run.ok, misplaced |-> printed.misplaced + run.misplaced]
    BY DEF EndPass
<1>3. RunOK(run') /\ Uncounted(run') = 0
    <2>1. run.nids \in Seq(Nodes) /\ run.nids # <<>> /\ run.type \in Types /\ DOMAIN run = RunFields
        BY DEF RunOK
    <2>2. CASE run' = Pass(run.nids, run.type, TRUE, run.free)
        BY <2>1, <2>2, PassOK DEF CountInv
    <2>3. CASE run.type < slab_free /\ run' = Pass(run.nids, run.type + 1, FALSE, run.free)
        <3>1. run.type + 1 \in Types
            BY <2>1, <2>3 DEF Types, slab_free
        <3> QED
            BY <2>1, <2>3, <3>1, PassOK DEF CountInv
    <2>4. CASE run' = [run EXCEPT !.pc = "node"]
        <3>1. /\ DOMAIN run' = RunFields /\ run'.nids = run.nids /\ run'.type = run.type
              /\ run'.ok = run.ok /\ run'.misplaced = run.misplaced /\ run'.pc = "node"
            BY <2>1, <2>4 DEF RunFields
        <3> QED
            BY <3>1 DEF RunOK, Uncounted
    <2> QED
        BY <1>2, <2>2, <2>3, <2>4 DEF Following
<1>4. /\ printed.ok \in Nat /\ printed.misplaced \in Nat /\ run.ok \in Nat /\ run.misplaced \in Nat
    BY DEF CountInv, RunOK
<1>5. /\ printed'.ok = printed.ok + run.ok
      /\ printed'.misplaced = printed.misplaced + run.misplaced
      /\ printed' \in [ok : Nat, misplaced : Nat]
    BY <1>2, <1>4
<1>6. run # NoRun /\ Uncounted(run) = run.ok + run.misplaced
    BY RunNotNone DEF Uncounted
<1>7. Judged => printed'.ok + printed'.misplaced + Uncounted(run') = Cardinality(Tally(checks))
    BY <1>3, <1>4, <1>5, <1>6 DEF CountInv
<1> QED
    BY <1>1, <1>3, <1>5, <1>6, <1>7 DEF CountInv

\* A step over one place of a list.
LEMMA GoOnOK ==
    ASSUME TidyDump(mem), RunOK(run), run.pc = "walk", NEW r, DOMAIN r = RunFields,
           r.nids = run.nids, r.type = run.type, r.ok \in Nat, r.misplaced \in Nat,
           r.pc = run.pc, r.at = run.at, Judged => run.at \in Places
    PROVE  RunOK(GoOn(r)) /\ Uncounted(GoOn(r)) = r.ok + r.misplaced
<1> DEFINE g == GoOn(r)
           n == Onward(run.at)
<1>1. CASE n = NULL
    <2>1. g = [r EXCEPT !.pc = "null"]
        BY <1>1 DEF GoOn
    <2>2. /\ DOMAIN g = RunFields /\ g.nids = r.nids /\ g.type = r.type
          /\ g.ok = r.ok /\ g.misplaced = r.misplaced /\ g.pc = "null"
        BY <2>1 DEF RunFields
    <2> HIDE DEF g
    <2>3. RunOK(g)
        BY <2>2 DEF RunOK
    <2> QED
        BY <2>2, <2>3, RunNotNone DEF Uncounted, g
<1>2. CASE n # NULL
    <2>1. g = [r EXCEPT !.at = n, !.last = run.at]
        BY <1>2 DEF GoOn
    <2> HIDE DEF n
    <2>2. /\ DOMAIN g = RunFields /\ g.nids = r.nids /\ g.type = r.type
          /\ g.ok = r.ok /\ g.misplaced = r.misplaced /\ g.pc = "walk" /\ g.at = n
        BY <2>1 DEF RunFields
    <2>3. Judged => n \in Places /\ NodeOf(mem, n) = Head(run.nids)
        <3> SUFFICES ASSUME Judged PROVE n \in Places /\ NodeOf(mem, n) = Head(run.nids)
            OBVIOUS
        <3>1. NearLinks(mem)
            BY DEF TidyDump, Judged
        <3>2. n = mem.next[run.at] \/ n = mem.prev[run.at]
            BY DEF n, Onward, Link
        <3>3. run.at \in Places /\ NodeOf(mem, run.at) = Head(run.nids)
            BY DEF RunOK
        <3> QED
            BY <1>2, <3>1, <3>2, <3>3 DEF NearLinks
    <2> HIDE DEF g
    <2>4. RunOK(g)
        BY <2>2, <2>3 DEF RunOK
    <2> QED
        BY <2>2, <2>4, RunNotNone DEF Uncounted, g
<1> QED
    BY <1>1, <1>2

LEMMA EnteredOK ==
    ASSUME RunOK(run)
    PROVE  /\ DOMAIN Entered = RunFields /\ Entered.nids = run.nids /\ Entered.type = run.type
           /\ Entered.ok = run.ok /\ Entered.misplaced = run.misplaced
           /\ Entered.pc = run.pc /\ Entered.at = run.at
<1>1. DOMAIN run = RunFields
    BY DEF RunOK
<1> QED
    BY <1>1 DEF Entered, RunFields

\* A place that is stepped over, or a slab that cannot be checked, is not counted.
LEMMA SkipKeeps ==
    ASSUME CountInv, Here, run' = GoOn(Entered), mem' = mem, checks' = checks,
           printed' = printed, outcome' = outcome, CachesInv',
           off_slab_cache' = off_slab_cache \/
               (run.at \in Slabs /\ off_slab_cache' = NextOffSlabCache(run.at))
    PROVE  CountInv'
<1>1. /\ (Judged' <=> Judged) /\ (TidyDump(mem))' = TidyDump(mem)
      /\ \A r : RunOK(r)' <=> RunOK(r)
    BY SameJudgement
<1>2. RunOK(run) /\ run.pc = "walk" /\ run # NoRun
    BY DEF CountInv, Here
<1>3. /\ DOMAIN Entered = RunFields /\ Entered.nids = run.nids /\ Entered.type = run.type
      /\ Entered.ok = run.ok /\ Entered.misplaced = run.misplaced
      /\ Entered.pc = run.pc /\ Entered.at = run.at
    BY <1>2, EnteredOK
<1>4. run.ok \in Nat /\ run.misplaced \in Nat /\ (Judged => run.at \in Places)
    BY <1>2 DEF RunOK
<1> DEFINE e == Entered
<1>5. RunOK(GoOn(e)) /\ Uncounted(GoOn(e)) = e.ok + e.misplaced
    <2> HIDE DEF e
    <2> QED
        BY <1>2, <1>3, <1>4, GoOnOK DEF CountInv, e
<1>6. RunOK(run') /\ Uncounted(run') = run.ok + run.misplaced
    BY <1>3, <1>5
<1>7. Uncounted(run) = run.ok + run.misplaced
    BY <1>2 DEF Uncounted
<1>8. Judged => off_slab_cache' \in {"unknown", "size-64"}
    BY DEF CountInv, TidyDump, Judged, PagesAsKept, NextOffSlabCache
<1> QED
    BY <1>1, <1>2, <1>6, <1>7, <1>8 DEF CountInv

\* A slab that is checked is counted as ok or as misplaced.
LEMMA CheckSlabKeeps ==
    ASSUME CountInv, CheckSlab, CachesInv'
    PROVE  CountInv'
<1> DEFINE s == run.at
           found == CheckErrors(s, head[1])
           misplaced == Misplaced(s, run.type)
           bad == found # {} \/ misplaced
           flush == Flush(bad, misplaced)
           fr == Entered.free + Cardinality(FreeOf(s))
           ok == IF bad THEN 0 ELSE Entered.ok + 1
           mis == IF misplaced THEN Entered.misplaced + 1 ELSE 0
           e == [Entered EXCEPT !.free = fr, !.ok = ok, !.misplaced = mis]
<1>1. /\ mem' = mem /\ outcome' = outcome /\ Here /\ s \in Slabs
      /\ off_slab_cache' = NextOffSlabCache(s)
      /\ checks' = [checks EXCEPT ![s] = @ + 1]
    BY DEF CheckSlab
<1>2. /\ printed' = [ok |-> printed.ok + flush.ok,
                     misplaced |-> printed.misplaced + flush.misplaced]
      /\ run' = GoOn(e)
    BY DEF CheckSlab
<1>3. /\ (Judged' <=> Judged) /\ (TidyDump(mem))' = TidyDump(mem)
      /\ \A r : RunOK(r)' <=> RunOK(r)
    BY <1>1, SameJudgement
<1>4. RunOK(run) /\ run.pc = "walk" /\ run # NoRun
    BY <1>1 DEF CountInv, Here
<1>5. /\ DOMAIN Entered = RunFields /\ Entered.nids = run.nids /\ Entered.type = run.type
      /\ Entered.ok = run.ok /\ Entered.misplaced = run.misplaced
      /\ Entered.pc = run.pc /\ Entered.at = run.at
    BY <1>4, EnteredOK
<1>6. run.ok \in Nat /\ run.misplaced \in Nat /\ printed.ok \in Nat /\ printed.misplaced \in Nat
    BY <1>4 DEF RunOK, CountInv
<1>7. /\ flush.ok = IF bad THEN run.ok ELSE 0
      /\ flush.misplaced = IF misplaced THEN 0 ELSE run.misplaced
    BY DEF Flush
<1>8. Judged => found = {}
    <2> SUFFICES ASSUME Judged PROVE found = {}
        OBVIOUS
    <2>1. NodeOf(mem, s) = Head(run.nids)
        BY <1>4 DEF RunOK
    <2>2. NodeOf(mem, s) = mem.nid[s]
        BY <1>1, PlacesAssumption DEF NodeOf
    <2>3. head[1] = mem.nid[s]
        BY <2>1, <2>2 DEF head
    <2> QED
        BY <1>1, <2>3, NothingFound
<1>9. ok \in Nat /\ mis \in Nat /\ flush.ok \in Nat /\ flush.misplaced \in Nat
    BY <1>5, <1>6, <1>7
<1>10. Judged => /\ bad <=> misplaced
                 /\ flush.ok + flush.misplaced + ok + mis = run.ok + run.misplaced + 1
    <2> HIDE DEF found, misplaced, flush
    <2> QED
        BY <1>5, <1>6, <1>7, <1>8
<1> HIDE DEF ok, mis, fr, flush, found, misplaced
<1>11. /\ DOMAIN e = RunFields /\ e.nids = run.nids /\ e.type = run.type
       /\ e.ok = ok /\ e.misplaced = mis /\ e.pc = run.pc /\ e.at = run.at
    BY <1>5 DEF RunFields
<1> HIDE DEF e
<1>12. RunOK(GoOn(e)) /\ Uncounted(GoOn(e)) = e.ok + e.misplaced
    <2>1. run.at \in Places
        BY <1>1 DEF Places
    <2> QED
        BY <1>4, <1>9, <1>11, <2>1, GoOnOK DEF CountInv
<1>13. RunOK(run') /\ Uncounted(run') = ok + mis
    BY <1>2, <1>11, <1>12
<1>14. /\ printed'.ok = printed.ok + flush.ok
       /\ printed'.misplaced = printed.misplaced + flush.misplaced
       /\ printed' \in [ok : Nat, misplaced : Nat]
    BY <1>2, <1>6, <1>9
<1>15. /\ checks' \in [Slabs -> Nat] /\ IsFiniteSet(Tally(checks'))
       /\ Cardinality(Tally(checks')) = Cardinality(Tally(checks)) + 1
    <2>1. checks \in [Slabs -> Nat] /\ IsFiniteSet(Tally(checks))
        BY DEF CountInv
    <2> HIDE DEF s
    <2> QED
        BY <1>1, <2>1, TallyGrows
<1>16. Uncounted(run) = run.ok + run.misplaced
    BY <1>4 DEF Uncounted
<1>17. Judged => printed'.ok + printed'.misplaced + Uncounted(run') = Cardinality(Tally(checks'))
    <2> SUFFICES ASSUME Judged
                 PROVE  printed'.ok + printed'.misplaced + Uncounted(run')
                            = Cardinality(Tally(checks'))
        OBVIOUS
    <2>1. printed.ok + printed.misplaced + Uncounted(run) = Cardinality(Tally(checks))
        BY <1>4 DEF CountInv
    <2> QED
        BY <2>1, <1>6, <1>9, <1>10, <1>13, <1>14, <1>15, <1>16
<1>18. Judged => off_slab_cache' \in {"unknown", "size-64"}
    BY <1>1 DEF CountInv, TidyDump, Judged, PagesAsKept, NextOffSlabCache
<1>19. Tally(checks)' = Tally(checks')
    BY DEF Tally
<1> QED
    BY <1>1, <1>3, <1>4, <1>13, <1>14, <1>15, <1>17, <1>18, <1>19 DEF CountInv

LEMMA EndNodeKeeps ==
    ASSUME CountInv, EndNode, CachesInv'
    PROVE  CountInv'
<1>1. /\ mem' = mem /\ checks' = checks /\ printed' = printed /\ off_slab_cache' = off_slab_cache
      /\ run # NoRun /\ run.pc = "node"
    BY DEF EndNode
<1>2. /\ (Judged' <=> Judged) /\ (TidyDump(mem))' = TidyDump(mem)
      /\ \A r : RunOK(r)' <=> RunOK(r)
    BY <1>1, SameJudgement
<1>3. RunOK(run) /\ Uncounted(run) = 0
    BY <1>1 DEF CountInv, Uncounted
<1>4. \/ run' = NoRun
      \/ /\ run' = Pass(Tail(run.nids), slab_partial, FALSE, 0)
         /\ Len(run.nids) # 1 /\ outcome' = outcome
    BY DEF EndNode, Raise
<1>5. (run' = NoRun \/ RunOK(run')) /\ Uncounted(run') = 0
    <2>1. CASE run' = NoRun
        BY <2>1 DEF Uncounted
    <2>2. CASE Len(run.nids) # 1 /\ run' = Pass(Tail(run.nids), slab_partial, FALSE, 0)
        <3>1. run.nids \in Seq(Nodes) /\ run.nids # <<>>
            BY <1>3 DEF RunOK
        <3>2. Tail(run.nids) \in Seq(Nodes) /\ Len(Tail(run.nids)) = Len(run.nids) - 1
            BY <3>1, HeadTailProperties
        <3>3. Tail(run.nids) # <<>>
            <4>1. Len(run.nids) \in Nat /\ Len(run.nids) # 0
                BY <3>1
            <4>2. Len(Tail(run.nids)) # 0
                BY <2>2, <3>2, <4>1
            <4>3. Len(<<>>) = 0
                OBVIOUS
            <4> QED
                BY <4>2, <4>3
        <3>4. slab_partial \in Types
            BY DEF slab_partial, Types
        <3> QED
            BY <2>2, <3>2, <3>3, <3>4, PassOK DEF CountInv
    <2> QED
        BY <1>4, <2>1, <2>2
<1>6. Judged => printed.ok + printed.misplaced + Uncounted(run') = Cardinality(Tally(checks))
    BY <1>1, <1>3, <1>5 DEF CountInv
<1>7. run' # NoRun => outcome' # "checked"
    BY <1>1, <1>4 DEF CountInv
<1> QED
    BY <1>1, <1>2, <1>5, <1>6, <1>7 DEF CountInv

LEMMA CheckAllKeeps ==
    ASSUME CountInv, CheckAll, CachesInv'
    PROVE  CountInv'
<1>1. /\ mem' = mem /\ checks' = [s \in Slabs |-> 0] /\ printed' = [ok |-> 0, misplaced |-> 0]
      /\ off_slab_cache' = off_slab_cache
      /\ run' = Pass(InOrder(Nodes), slab_partial, FALSE, 0) /\ outcome' = "none"
    BY DEF CheckAll
<1>2. /\ (Judged' <=> Judged) /\ (TidyDump(mem))' = TidyDump(mem)
      /\ \A r : RunOK(r)' <=> RunOK(r)
    BY <1>1, SameJudgement
<1>3. InOrder(Nodes) \in Seq(Nodes) /\ InOrder(Nodes) # <<>>
    <2>1. Nodes \in SUBSET Nat /\ IsFiniteSet(Nodes) /\ Nodes # {}
        BY SlabAssumption
    <2>2. /\ InOrder(Nodes) \in Seq(Nodes)
          /\ \A x \in Nodes : \E i \in 1..Len(InOrder(Nodes)) : InOrder(Nodes)[i] = x
        BY <2>1, OrderListed
    <2> DEFINE q == InOrder(Nodes)
    <2>3. Len(q) # 0
        <3> HIDE DEF q
        <3>1. \E i \in 1..Len(q) : TRUE
            BY <2>1, <2>2 DEF q
        <3> QED
            BY <3>1
    <2>4. Len(<<>>) = 0
        OBVIOUS
    <2> QED
        BY <2>2, <2>3, <2>4
<1>4. slab_partial \in Types
    BY DEF slab_partial, Types
<1>5. RunOK(run') /\ Uncounted(run') = 0
    BY <1>1, <1>3, <1>4, PassOK DEF CountInv
<1>6. /\ checks' \in [Slabs -> Nat] /\ IsFiniteSet(Tally(checks'))
      /\ Cardinality(Tally(checks')) = 0
    BY <1>1, EmptyTally
<1>7. /\ printed' \in [ok : Nat, misplaced : Nat]
      /\ printed'.ok + printed'.misplaced + Uncounted(run') = 0
    <2>1. printed' \in [ok : Nat, misplaced : Nat] /\ printed'.ok = 0 /\ printed'.misplaced = 0
        BY <1>1
    <2> QED
        BY <1>5, <2>1
<1>8. Tally(checks)' = Tally(checks')
    BY DEF Tally
<1> QED
    BY <1>1, <1>2, <1>5, <1>6, <1>7, <1>8 DEF CountInv

\* A question, or a list of the allocated objects, ends what check_all left.
LEMMA ResetKeeps ==
    ASSUME CountInv, Reset, mem' = mem, run = NoRun, run' = run, off_slab_cache' = off_slab_cache,
           outcome' # "checked", CachesInv'
    PROVE  CountInv'
<1>1. /\ (Judged' <=> Judged) /\ (TidyDump(mem))' = TidyDump(mem)
    BY SameJudgement
<1>2. checks' = [s \in Slabs |-> 0] /\ printed' = [ok |-> 0, misplaced |-> 0]
    BY DEF Reset
<1>3. checks' \in [Slabs -> Nat] /\ IsFiniteSet(Tally(checks'))
    BY <1>2, EmptyTally
<1>4. printed' \in [ok : Nat, misplaced : Nat]
    BY <1>2
<1>5. Tally(checks)' = Tally(checks')
    BY DEF Tally
<1> QED
    BY <1>1, <1>3, <1>4, <1>5 DEF CountInv

LEMMA CountStep ==
    ASSUME CountInv, [Next]_vars
    PROVE  CountInv'
<1>1. CachesInv'
    BY CachesStep DEF CountInv
<1>2. CASE CheckAll
    BY <1>1, <1>2, CheckAllKeeps
<1>3. CASE \E o \in Objs : Ask(o)
    <2>1. PICK o \in Objs : Ask(o)
        BY <1>3
    <2>2. /\ Reset /\ mem' = mem /\ run = NoRun /\ run' = run /\ off_slab_cache' = off_slab_cache
          /\ outcome' # "checked"
        BY <2>1 DEF Ask
    <2> QED
        BY <1>1, <2>2, ResetKeeps
<1>4. CASE GetAllocatedObjects
    <2>1. /\ Reset /\ mem' = mem /\ run = NoRun /\ run' = run /\ off_slab_cache' = off_slab_cache
          /\ outcome' # "checked"
        BY <1>4 DEF GetAllocatedObjects
    <2> QED
        BY <1>1, <2>1, ResetKeeps
<1>5. CASE WalkEnds \/ WalkFails \/ WalkNull
    <2>1. PICK failed : EndPass(failed)
        BY <1>5 DEF WalkEnds, WalkFails, WalkNull
    <2>2. /\ run # NoRun /\ run.pc \in {"walk", "null"}
          /\ mem' = mem /\ checks' = checks /\ outcome' = outcome
          /\ off_slab_cache' = off_slab_cache
        BY <1>5 DEF WalkEnds, WalkFails, WalkNull
    <2> QED
        BY <1>1, <2>1, <2>2, EndPassKeeps DEF CountInv
<1>6. CASE WalkRaises
    <2>1. /\ mem' = mem /\ checks' = checks /\ printed' = printed
          /\ off_slab_cache' = off_slab_cache /\ run' = NoRun /\ outcome' = "raised"
        BY <1>6 DEF WalkRaises, Raise
    <2>2. /\ (Judged' <=> Judged) /\ (TidyDump(mem))' = TidyDump(mem)
        BY <2>1, SameJudgement
    <2> QED
        BY <1>1, <2>1, <2>2 DEF CountInv
<1>7. CASE SkipHead
    BY <1>1, <1>7, SkipKeeps DEF SkipHead
<1>8. CASE CheckCannot
    <2>1. /\ Here /\ run.at \in Slabs /\ run' = GoOn(Entered) /\ mem' = mem /\ checks' = checks
          /\ printed' = printed /\ outcome' = outcome
        BY <1>8 DEF CheckCannot
    <2>2. off_slab_cache' = off_slab_cache \/ off_slab_cache' = NextOffSlabCache(run.at)
        BY <1>8 DEF CheckCannot
    <2> QED
        BY <1>1, <2>1, <2>2, SkipKeeps
<1>9. CASE CheckSlab
    BY <1>1, <1>9, CheckSlabKeeps
<1>10. CASE EndNode
    BY <1>1, <1>10, EndNodeKeeps
<1>11. CASE UNCHANGED vars
    <2>1. /\ mem' = mem /\ checks' = checks /\ printed' = printed /\ run' = run
          /\ off_slab_cache' = off_slab_cache /\ outcome' = outcome
        BY <1>11 DEF vars
    <2>2. /\ (Judged' <=> Judged) /\ (TidyDump(mem))' = TidyDump(mem)
          /\ \A r : RunOK(r)' <=> RunOK(r)
        BY <2>1, SameJudgement
    <2> QED
        BY <1>1, <2>1, <2>2 DEF CountInv
<1> QED
    BY <1>2, <1>3, <1>4, <1>5, <1>6, <1>7, <1>8, <1>9, <1>10, <1>11 DEF Next, Step

(***************************************************************************)
(* check_all keeps count: whichever way the lists lead it, each slab that  *)
(* is checked is on a summary line or waits for the next one.              *)
(***************************************************************************)
THEOREM CountInvariant == Spec => []CountInv
<1>1. Init => CountInv
    <2> SUFFICES ASSUME Init PROVE CountInv
        OBVIOUS
    <2>1. CachesInv
        <3>1. DumpOK(mem) /\ mem.isPage \in BOOLEAN
            BY InitDump DEF DumpOK, WorldOK
        <3>2. page_slab = mem.isPage
            BY <3>1 DEF Init, Layout, check_page_type, check_slab_type
        <3> QED
            BY <3>1, <3>2 DEF Init, CachesInv, AllocatedRight
    <2>2. TidyDump(mem)
        BY InitDump
    <2>3. /\ checks = [s \in Slabs |-> 0] /\ printed = [ok |-> 0, misplaced |-> 0]
          /\ run = NoRun /\ outcome = "none" /\ off_slab_cache = "unknown"
        BY DEF Init
    <2>4. checks \in [Slabs -> Nat] /\ IsFiniteSet(Tally(checks))
        BY <2>3, EmptyTally
    <2>5. printed \in [ok : Nat, misplaced : Nat]
        BY <2>3
    <2> QED
        BY <2>1, <2>2, <2>3, <2>4, <2>5 DEF CountInv
<1>2. CountInv /\ [Next]_vars => CountInv'
    BY CountStep
<1> QED
    BY <1>1, <1>2, PTL DEF Spec

(***************************************************************************)
(* The summary lines of a check_all that ends account for every slab it    *)
(* has checked, in sound lists and with one wrong link anywhere            *)
(* (__check_slab, ___check_slabs).                                         *)
(***************************************************************************)
THEOREM SummaryLinesAddUp == Spec => []ReportsAddUp
<1>1. CountInv => ReportsAddUp
    <2> SUFFICES ASSUME CountInv, outcome = "checked", mem.fault[1] \in {"none", "link"}
                 PROVE  printed.ok + printed.misplaced = Checked
        BY DEF ReportsAddUp
    <2>1. printed.ok + printed.misplaced + Uncounted(run) = Cardinality(Tally(checks))
        BY DEF CountInv, Judged
    <2>2. Cardinality(Tally(checks)) = Checked
        BY DEF Tally, Checked
    <2>3. Uncounted(run) = 0
        BY DEF CountInv, Uncounted
    <2> QED
        BY <2>1, <2>2, <2>3 DEF CountInv
<1> QED
    BY <1>1, CountInvariant, PTL

-----------------------------------------------------------------------------
(***************************************************************************)
(* The walks of check_all.  Each list is a ring: its head, then its slabs. *)
(* A place is known by its list and by how far it is from the head in the  *)
(* direction of the pass; a wrong link is the one place whose link is not  *)
(* the Right one.                                                          *)
(***************************************************************************)
\* The list that x is on, its place there, and the k-th place of list h.
HomeOf(m, x) == IF x \in Heads THEN x ELSE <<m.nid[x], TypeFor(m.obj, x)>>
PosIn(q, x) == CHOOSE i \in DOMAIN q : q[i] = x
Pos(m, x) == IF x \in Heads THEN 0 ELSE PosIn(m.list[HomeOf(m, x)], x)
Size(m, x) == Len(m.list[HomeOf(m, x)])
Nth(m, h, k) == IF k \in 1..Len(m.list[h]) THEN m.list[h][k] ELSE h
\* The place after x in a sound list, and how far from the head x is.
Right(m, rev, x) ==
    Nth(m, HomeOf(m, x), IF ~rev THEN Pos(m, x) + 1
                         ELSE IF x \in Heads THEN Size(m, x) ELSE Pos(m, x) - 1)
Rank(m, rev, x) == IF x \in Heads THEN 0
                   ELSE IF rev THEN Size(m, x) + 1 - Pos(m, x) ELSE Pos(m, x)
LinkIn(m, rev, x) == IF rev THEN m.prev[x] ELSE m.next[x]

RingOK(m) ==
    /\ \A x \in Places : HomeOf(m, x) \in Heads /\ (x \in Heads => HomeOf(m, x) = x)
    /\ \A rev \in BOOLEAN, x, y \in Places :
           HomeOf(m, x) = HomeOf(m, y) /\ Rank(m, rev, x) = Rank(m, rev, y) => x = y
    /\ \A rev \in BOOLEAN, x \in Places :
        /\ Right(m, rev, x) \in Places
        /\ HomeOf(m, Right(m, rev, x)) = HomeOf(m, x)
        /\ Rank(m, rev, x) \in Nat
        /\ (Rank(m, rev, x) = 0 <=> x \in Heads)
        /\ Right(m, rev, x) \in Heads \/ Rank(m, rev, Right(m, rev, x)) = Rank(m, rev, x) + 1
        /\ Right(m, rev, x) \in Heads =>
               \A y \in Places : HomeOf(m, y) = HomeOf(m, x) => Rank(m, rev, y) <= Rank(m, rev, x)
        /\ Right(m, ~rev, Right(m, rev, x)) = x
Wrong(m, rev) == m.fault[1] = "link" /\ LinkIn(m, rev, m.fault[2]) # Right(m, rev, m.fault[2])
LinksOK(m) ==
    /\ m.fault[1] = "link" => m.fault[2] \in Places
    /\ \A rev \in BOOLEAN : \A x \in Places :
           /\ LinkIn(m, rev, x) \in Places \cup {NULL}
           /\ LinkIn(m, rev, x) = Right(m, rev, x) \/ (m.fault[1] = "link" /\ x = m.fault[2])
    /\ ~(Wrong(m, TRUE) /\ Wrong(m, FALSE))

HeadOf(r) == <<Head(r.nids), r.type>>
\* The pass over list h in direction rev meets the wrong link, which leads to Target.
Astray(m, rev, h) == Wrong(m, rev) /\ HomeOf(m, m.fault[2]) = h
Target(m, rev) == LinkIn(m, rev, m.fault[2])
\* x can be met in the pass over list h in direction rev.
Meets(m, rev, h, x) ==
    \/ HomeOf(m, x) = h
    \/ Astray(m, rev, h) /\ Target(m, rev) # NULL /\ HomeOf(m, x) = HomeOf(m, Target(m, rev))
\* So far the pass has gone through its list in order.
Straight(m, r) ==
    /\ r.pc = "walk" /\ r.last \in Places /\ HomeOf(m, r.last) = HeadOf(r)
    /\ r.at = Right(m, r.rev, r.last)
    /\ r.seen = {y \in Places : /\ HomeOf(m, y) = HeadOf(r) /\ y \notin Heads
                                /\ Rank(m, r.rev, y) <= Rank(m, r.rev, r.last)}
\* Slab s has been checked, or what kept it from that has been reported.
Found(m, ch, e, s) == ch[s] >= 1 \/ (m.fault[1] = "hole" /\ e # {})
AllFound(m, ch, e, h) == \A s \in Slabs : HomeOf(m, s) = h => Found(m, ch, e, s)
\* The passes over list h are over.
Past(r, h) == \/ r = NoRun
              \/ h[1] \notin Range(r.nids)
              \/ h[1] = Head(r.nids) /\ (h[2] < r.type \/ r.pc = "node")
Had(r, h, rev, s) == \/ Past(r, h)
                     \/ h = HeadOf(r) /\ r.rev /\ ~rev
                     \/ h = HeadOf(r) /\ r.rev = rev /\ s \in r.seen
\* The one pass besides the first over its own list that can meet s.
Second(m, rev, s) ==
    /\ m.fault[1] = "link"
    /\ IF HomeOf(m, s) = HomeOf(m, m.fault[2]) THEN rev = TRUE
       ELSE Astray(m, rev, HomeOf(m, m.fault[2])) /\ Meets(m, rev, HomeOf(m, m.fault[2]), s)
HadFirst(m, r, s) == Had(r, HomeOf(m, s), FALSE, s)
HadSecond(m, r, s) ==
    \E rev \in BOOLEAN : Second(m, rev, s) /\ Had(r, HomeOf(m, m.fault[2]), rev, s)
Most(m, r, s) == (IF HadFirst(m, r, s) THEN 1 ELSE 0) + (IF HadSecond(m, r, s) THEN 1 ELSE 0)

\* A first pass that is past the wrong link has noticed it, or is about to.
Notices(m, r) ==
    /\ Astray(m, FALSE, HeadOf(r)) /\ m.fault[2] \in r.seen \cup Heads =>
           r.pending \/ r.pc = "null" \/ (r.last = m.fault[2] /\ r.at = Target(m, FALSE))
    /\ Wrong(m, TRUE) /\ m.fault[2] \in r.seen => r.pending
\* A pass that meets no wrong link is straight; a first pass that is not is going
\* to fail, unless the link leads it to the head; a second pass is straight, or
\* the first one was and has left nothing to find.
PassInv(m, r, ch, e) ==
    /\ r.seen \subseteq Places /\ (r.pc = "walk" => r.at \in Places)
    /\ \A x \in r.seen : Meets(m, r.rev, HeadOf(r), x)
    /\ r.pc = "walk" => Meets(m, r.rev, HeadOf(r), r.at)
    /\ r.rev \/ r.pending => m.fault[1] = "link" /\ HomeOf(m, m.fault[2]) = HeadOf(r)
    /\ ~Astray(m, r.rev, HeadOf(r)) => Straight(m, r)
    /\ ~r.rev => \/ Straight(m, r) \/ r.pending \/ r.pc = "null"
                 \/ r.last = m.fault[2] /\ r.at = Target(m, FALSE)
    /\ \A s \in Slabs \cap r.seen : Found(m, ch, e, s)
    /\ r.rev /\ Wrong(m, TRUE) => AllFound(m, ch, e, HeadOf(r))
    /\ ~r.rev => Notices(m, r)
Closed(m) == Wrong(m, FALSE) /\ m.next[m.fault[2]] = HomeOf(m, m.fault[2])
Apart(q) == \A i, j \in DOMAIN q : q[i] = q[j] => i = j
RunShape(r) == /\ r.rev \in BOOLEAN /\ r.pc \in {"walk", "null", "node"} /\ Apart(r.nids)
               /\ r.pending \in BOOLEAN
VisitedSlab(m, r, ch, e, s) ==
    /\ Past(r, HomeOf(m, s)) => Found(m, ch, e, s) \/ Closed(m)
    /\ ch[s] <= Most(m, r, s)
\* The wrong link is one that a first pass notices, and that pass is over.
Notable(m) == \/ Wrong(m, FALSE) /\ ~Closed(m)
              \/ Wrong(m, TRUE) /\ m.fault[2] \notin Heads
Behind(r, h) == Past(r, h) \/ (HeadOf(r) = h /\ r.rev)
Reported(m, r, e) == Notable(m) /\ Behind(r, HomeOf(m, m.fault[2])) => "list" \in e
RingsOK(m) == /\ RingOK(m) /\ LinksOK(m)
              /\ m.fault[1] # "hole" => m.absentBufctl = {}
(***************************************************************************)
(* Where check_all is, and what it has behind it: of a list that is over,  *)
(* every slab has been checked, and no slab more often than passes can     *)
(* have met it; and a wrong link has been reported.                        *)
(***************************************************************************)
VisitInv ==
    /\ RingsOK(mem)
    /\ run # NoRun => RunShape(run) /\ (run.pc # "node" => PassInv(mem, run, checks, errors))
    /\ run # NoRun \/ outcome = "checked" =>
           /\ \A s \in Slabs : VisitedSlab(mem, run, checks, errors, s)
           /\ Reported(mem, run, errors)
-----------------------------------------------------------------------------
(* The lists of a dump are rings.                                            *)

ListsExact(m) ==
    /\ m.nid \in [Slabs -> Nodes]
    /\ m.list \in [Heads -> Seq(Slabs)]
    /\ \A h \in Heads : /\ \A i \in DOMAIN m.list[h] : HomeOf(m, m.list[h][i]) = h
                        /\ \A i, j \in DOMAIN m.list[h] : m.list[h][i] = m.list[h][j] => i = j
    /\ \A s \in Slabs : \E i \in DOMAIN m.list[HomeOf(m, s)] : m.list[HomeOf(m, s)][i] = s

LEMMA HomeIsHead ==
    ASSUME NEW m, m.nid \in [Slabs -> Nodes], NEW x \in Places
    PROVE  /\ HomeOf(m, x) \in Heads /\ (x \in Heads => HomeOf(m, x) = x)
           /\ (x \in Slabs <=> x \notin Heads)
BY TypeIsType, PlacesAssumption DEF HomeOf, Places, Heads

LEMMA NthFacts ==
    ASSUME NEW m, ListsExact(m), NEW h \in Heads, NEW k \in Nat
    PROVE  /\ Len(m.list[h]) \in Nat
           /\ k \in 1..Len(m.list[h]) =>
                  /\ Nth(m, h, k) \in Slabs /\ Nth(m, h, k) \notin Heads
                  /\ HomeOf(m, Nth(m, h, k)) = h /\ Pos(m, Nth(m, h, k)) = k
           /\ k \notin 1..Len(m.list[h]) => Nth(m, h, k) = h /\ HomeOf(m, h) = h /\ Pos(m, h) = 0
<1> DEFINE l == m.list[h]
           x == l[k]
<1>1. l \in Seq(Slabs) /\ Len(l) \in Nat /\ DOMAIN l = 1..Len(l)
    BY DEF ListsExact
<1>2. ASSUME k \in 1..Len(l)
      PROVE  /\ x \in Slabs /\ x \notin Heads /\ HomeOf(m, x) = h /\ Pos(m, x) = k
    <2>1. x \in Slabs /\ HomeOf(m, x) = h
        BY <1>1, <1>2 DEF ListsExact
    <2>2. x \notin Heads
        BY <2>1, PlacesAssumption
    <2> DEFINE j == CHOOSE j \in DOMAIN l : l[j] = x
    <2>3. j \in DOMAIN l /\ l[j] = x
        BY <1>1, <1>2
    <2>4. Pos(m, x) = j
        BY <2>1, <2>2 DEF Pos, PosIn
    <2> HIDE DEF j
    <2>5. j = k
        BY <1>1, <1>2, <2>3 DEF ListsExact
    <2> QED
        BY <2>1, <2>2, <2>4, <2>5
<1> QED
    BY <1>1, <1>2 DEF Nth, HomeOf, Pos

LEMMA PosFacts ==
    ASSUME NEW m, ListsExact(m), NEW x \in Places
    PROVE  /\ HomeOf(m, x) \in Heads /\ Size(m, x) = Len(m.list[HomeOf(m, x)])
           /\ Size(m, x) \in Nat /\ Pos(m, x) \in 0..Size(m, x)
           /\ (Pos(m, x) = 0 <=> x \in Heads)
           /\ Nth(m, HomeOf(m, x), Pos(m, x)) = x
<1>1. HomeOf(m, x) \in Heads /\ (x \in Slabs <=> x \notin Heads)
    BY HomeIsHead DEF ListsExact
<1> DEFINE l == m.list[HomeOf(m, x)]
<1>2. l \in Seq(Slabs) /\ Len(l) \in Nat /\ DOMAIN l = 1..Len(l)
    BY <1>1 DEF ListsExact
<1>3. CASE x \in Heads
    BY <1>1, <1>2, <1>3 DEF Size, Pos, Nth, HomeOf
<1>4. CASE x \notin Heads
    <2> DEFINE j == CHOOSE j \in DOMAIN l : l[j] = x
    <2>1. j \in DOMAIN l /\ l[j] = x
        BY <1>1, <1>4 DEF ListsExact
    <2>2. Pos(m, x) = j
        BY <1>4 DEF Pos, PosIn
    <2> HIDE DEF j
    <2> QED
        BY <1>1, <1>2, <1>4, <2>1, <2>2 DEF Size, Nth
<1> QED
    BY <1>3, <1>4

LEMMA RingFromLists ==
    ASSUME NEW m, ListsExact(m)
    PROVE  RingOK(m)
<1>1. \A x \in Places : HomeOf(m, x) \in Heads /\ (x \in Heads => HomeOf(m, x) = x)
    BY PosFacts DEF HomeOf
<1>3. ASSUME NEW rev \in BOOLEAN, NEW x \in Places, NEW y \in Places,
             HomeOf(m, x) = HomeOf(m, y), Rank(m, rev, x) = Rank(m, rev, y)
      PROVE  x = y
    <2>1. \A z \in {x, y} : /\ Size(m, z) = Len(m.list[HomeOf(m, z)]) /\ Size(m, z) \in Nat
                            /\ Pos(m, z) \in 0..Size(m, z) /\ (Pos(m, z) = 0 <=> z \in Heads)
                            /\ Nth(m, HomeOf(m, z), Pos(m, z)) = z
        BY PosFacts
    <2>2. Size(m, x) = Size(m, y)
        BY <1>3, <2>1
    <2>3. Pos(m, x) = Pos(m, y)
        BY <1>3, <2>1, <2>2 DEF Rank
    <2> QED
        BY <1>3, <2>1, <2>3
<1>2. ASSUME NEW rev \in BOOLEAN, NEW x \in Places
      PROVE  /\ Right(m, rev, x) \in Places
             /\ HomeOf(m, Right(m, rev, x)) = HomeOf(m, x)
             /\ Rank(m, rev, x) \in Nat
             /\ (Rank(m, rev, x) = 0 <=> x \in Heads)
             /\ Right(m, rev, x) \in Heads
                 \/ Rank(m, rev, Right(m, rev, x)) = Rank(m, rev, x) + 1
             /\ Right(m, rev, x) \in Heads =>
                    \A y \in Places : HomeOf(m, y) = HomeOf(m, x) =>
                        Rank(m, rev, y) <= Rank(m, rev, x)
             /\ Right(m, ~rev, Right(m, rev, x)) = x
    <2> DEFINE h == HomeOf(m, x)
               n == Size(m, x)
               k == Pos(m, x)
               j == IF ~rev THEN k + 1 ELSE IF x \in Heads THEN n ELSE k - 1
               y == Right(m, rev, x)
    <2>1. /\ h \in Heads /\ n = Len(m.list[h]) /\ n \in Nat /\ k \in 0..n
          /\ (k = 0 <=> x \in Heads) /\ Nth(m, h, k) = x
        BY PosFacts
    <2>2. y = Nth(m, h, j)
        BY DEF Right
    <2>3. j \in Nat /\ j \in 0..(n + 1) /\ (j \in 1..n <=> (j # 0 /\ j # n + 1))
        <3> HIDE DEF n, k
        <3> QED
            BY <2>1
    <2>4. /\ j \in 1..n => y \in Slabs /\ y \notin Heads /\ HomeOf(m, y) = h /\ Pos(m, y) = j
          /\ j \notin 1..n => y = h /\ HomeOf(m, y) = h /\ Pos(m, y) = 0
        <3> HIDE DEF n, k, j, h, y
        <3> QED
            BY <2>1, <2>2, <2>3, NthFacts
    <2>5. Size(m, y) = n
        BY <2>1, <2>4 DEF Size
    <2>6. Rank(m, rev, x) = IF x \in Heads THEN 0 ELSE IF rev THEN n + 1 - k ELSE k
        BY DEF Rank
    <2>7. Rank(m, rev, y) = IF y \in Heads THEN 0 ELSE IF rev THEN n + 1 - Pos(m, y) ELSE Pos(m, y)
        BY <2>5 DEF Rank
    <2>8. Right(m, ~rev, y) =
              Nth(m, h, IF rev THEN Pos(m, y) + 1
                        ELSE IF y \in Heads THEN n ELSE Pos(m, y) - 1)
        BY <2>4, <2>5 DEF Right
    <2>9. ASSUME NEW z \in Places, HomeOf(m, z) = h
          PROVE  Rank(m, rev, z) = 0 \/ (Rank(m, rev, z) \in 1..n)
        <3>1. Size(m, z) = n /\ Pos(m, z) \in 0..n /\ (Pos(m, z) = 0 <=> z \in Heads)
            BY <2>1, <2>9, PosFacts DEF Size
        <3> HIDE DEF n
        <3> QED
            BY <2>1, <3>1 DEF Rank
    <2>10. y \in Places
        BY <2>1, <2>4 DEF Places
    <2>11. j # k => (j \in 1..n) \/ (~rev /\ k = n) \/ (rev /\ k = 1) \/ (rev /\ n = 0)
        <3> HIDE DEF n, k, h, y
        <3> QED
            BY <2>1
    <2> DEFINE i == IF rev THEN Pos(m, y) + 1 ELSE IF y \in Heads THEN n ELSE Pos(m, y) - 1
    <2>12. Nth(m, h, i) = x
        <3>1. i = k \/ (k = 0 /\ i \notin 1..n /\ i \in Nat)
            <4>1. y \in Heads <=> j \notin 1..n
                BY <2>1, <2>4
            <4> HIDE DEF n, k, h, y
            <4> QED
                BY <2>1, <2>3, <2>4, <4>1
        <3>2. CASE k = 0 /\ i \notin 1..n
            <4>1. x = h
                BY <2>1, <3>2 DEF HomeOf
            <4> HIDE DEF i, n, k, h
            <4> QED
                BY <2>1, <3>2, <4>1 DEF Nth
        <3> QED
            BY <2>1, <3>1, <3>2
    <2>13. Rank(m, rev, x) \in Nat /\ (Rank(m, rev, x) = 0 <=> x \in Heads)
        <3> HIDE DEF n, k
        <3> QED
            BY <2>1, <2>6
    <2>14. y \in Heads \/ Rank(m, rev, y) = Rank(m, rev, x) + 1
        <3>1. y \in Heads <=> j \notin 1..n
            BY <2>1, <2>4
        <3> HIDE DEF n, k, h, y
        <3> QED
            BY <2>1, <2>3, <2>4, <2>6, <2>7, <3>1
    <2>15. y \in Heads => Rank(m, rev, x) = n
        <3>1. y \in Heads <=> j \notin 1..n
            BY <2>1, <2>4
        <3> HIDE DEF n, k, h, y
        <3> QED
            BY <2>1, <2>3, <2>6, <3>1
    <2>16. y \in Heads => \A z \in Places : HomeOf(m, z) = h => Rank(m, rev, z) <= Rank(m, rev, x)
        <3> HIDE DEF n, h, y
        <3> QED
            BY <2>1, <2>9, <2>15
    <2> QED
        BY <2>4, <2>8, <2>10, <2>12, <2>13, <2>14, <2>16
<1> QED
    BY <1>1, <1>2, <1>3 DEF RingOK
\* The indices of a ring of n places before and after place k.
LEMMA RoundTheRing ==
    ASSUME NEW n \in Nat \ {0}, NEW k \in 1..n
    PROVE  /\ ((k - 1 + 1) % n) + 1 = IF k = n THEN 1 ELSE k + 1
           /\ ((k - 1 + (-1)) % n) + 1 = IF k = 1 THEN n ELSE k - 1
<1>1. CASE n = 1
    <2>1. ((k - 1 + 1) % n) + 1 \in 1..n /\ ((k - 1 + (-1)) % n) + 1 \in 1..n
        <3>1. k - 1 + 1 \in Int /\ k - 1 + (-1) \in Int
            OBVIOUS
        <3> QED
            BY <3>1, TurnsAround
    <2> QED
        BY <1>1, <2>1
<1>2. CASE n # 1
    <2>0. n \in Nat \ {0, 1}
        BY <1>2
    <2>1. k - 1 + 1 = k /\ k - 1 + (-1) = k - 2
        OBVIOUS
    <2>2. k # n => k % n = k
        BY <2>0, RemainderSmall
    <2>3. n % n = 0
        <3>1. n = n * 1 + 0 /\ n \in Int /\ 0 \in 0..(n - 1)
            BY <2>0
        <3> QED
            BY <2>0, <3>1, RemainderUnique
    <2>4. k # 1 => (k - 2) % n = k - 2
        BY <2>0, RemainderSmall
    <2>5. (-1) % n = n - 1
        BY <2>0, RemainderMinusOne
    <2>6. k = 1 => k - 2 = -1
        OBVIOUS
    <2> QED
        BY <2>1, <2>2, <2>3, <2>4, <2>5, <2>6
<1> QED
    BY <1>1, <1>2

\* A list written down as a ring, and the places before and after x there.
RingAt(m, h, r) == /\ Len(r) = Len(m.list[h]) + 1 /\ DOMAIN r = 1..(Len(m.list[h]) + 1)
                   /\ \A i \in 1..(Len(m.list[h]) + 1) : r[i] = Nth(m, h, i - 1)
LEMMA RingShape ==
    ASSUME NEW m, ListsExact(m), NEW h \in Heads
    PROVE  RingAt(m, h, <<h>> \o m.list[h])
<1> DEFINE l == m.list[h]
           one == <<h>>
           r == one \o l
           n == Len(l)
<1>1. one \in Seq(Places) /\ Len(one) = 1 /\ one[1] = h
    BY DEF Places
<1>2. l \in Seq(Slabs) /\ Slabs \subseteq Places
    BY DEF ListsExact, Places
<1>3. \A i \in Nat : Nth(m, h, i) = IF i \in 1..n THEN l[i] ELSE h
    BY DEF Nth
<1> HIDE DEF one, l
<1>4. l \in Seq(Places)
    BY <1>2, SeqMonotonic
<1>5. /\ r \in Seq(Places) /\ Len(r) = Len(one) + n
      /\ \A i \in 1..(Len(one) + n) : r[i] = IF i <= Len(one) THEN one[i] ELSE l[i - Len(one)]
    BY <1>1, <1>4, ConcatProperties
<1>6. n \in Nat
    BY <1>4
<1> HIDE DEF r, n
<1>7. Len(r) = n + 1 /\ DOMAIN r = 1..(n + 1)
    BY <1>1, <1>5, <1>6
<1>8. ASSUME NEW i \in 1..(n + 1) PROVE r[i] = Nth(m, h, i - 1)
    <2>1. i - 1 \in Nat /\ (i - 1 \in 1..n <=> i # 1) /\ (i <= 1 <=> i = 1)
        BY <1>6
    <2>2. r[i] = IF i <= 1 THEN h ELSE l[i - 1]
        BY <1>1, <1>5, <1>6
    <2> QED
        BY <1>3, <2>1, <2>2
<1> QED
    BY <1>7, <1>8 DEF RingAt, r, one, l, n

TurnsRight(m, x, r, k) ==
    /\ k \in Nat
    /\ r[((k - 1 + 1) % Len(r)) + 1] = Right(m, FALSE, x)
    /\ r[((k - 1 + (-1)) % Len(r)) + 1] = Right(m, TRUE, x)
LEMMA RingTurns ==
    ASSUME NEW m, ListsExact(m), NEW x \in Places, NEW r, RingAt(m, HomeOf(m, x), r)
    PROVE  /\ \E k \in DOMAIN r : r[k] = x
           /\ \A k \in DOMAIN r : r[k] = x => TurnsRight(m, x, r, k)
<1> DEFINE h == HomeOf(m, x)
           n == Len(m.list[h])
           p == Pos(m, x)
<1>1. /\ h \in Heads /\ Size(m, x) = n /\ n \in Nat /\ p \in 0..n
      /\ (p = 0 <=> x \in Heads) /\ Nth(m, h, p) = x
    BY PosFacts
<1>2. /\ Len(r) = n + 1 /\ DOMAIN r = 1..(n + 1)
      /\ \A i \in 1..(n + 1) : r[i] = Nth(m, h, i - 1)
    BY DEF RingAt
<1>3. \A i \in Nat : /\ (i \in 1..n => Nth(m, h, i) \notin Heads /\ Pos(m, Nth(m, h, i)) = i)
                      /\ (i \notin 1..n => Nth(m, h, i) = h)
    BY <1>1, NthFacts
<1>4. Right(m, FALSE, x) = Nth(m, h, p + 1)
      /\ Right(m, TRUE, x) = Nth(m, h, IF p = 0 THEN n ELSE p - 1)
    BY <1>1 DEF Right
<1>5. Pos(m, x) = p
    OBVIOUS
<1> HIDE DEF h, n, p
<1>6. p + 1 \in DOMAIN r /\ r[p + 1] = x
    <2>1. p + 1 \in 1..(n + 1) /\ (p + 1) - 1 = p
        BY <1>1
    <2> QED
        BY <1>1, <1>2, <2>1
<1>7. ASSUME NEW k \in DOMAIN r, r[k] = x
      PROVE  /\ k \in Nat
             /\ r[((k - 1 + 1) % Len(r)) + 1] = Right(m, FALSE, x)
             /\ r[((k - 1 + (-1)) % Len(r)) + 1] = Right(m, TRUE, x)
    <2>1. k \in 1..(n + 1) /\ k - 1 \in Nat /\ k - 1 <= n /\ Nth(m, h, k - 1) = x
        BY <1>1, <1>2, <1>7
    <2>2. k - 1 = p
        BY <1>1, <1>3, <1>5, <2>1
    <2>3. k = p + 1 /\ k \in Nat /\ n + 1 \in Nat \ {0}
        BY <1>1, <2>1, <2>2
    <2>4. /\ ((k - 1 + 1) % (n + 1)) + 1 = IF k = n + 1 THEN 1 ELSE k + 1
          /\ ((k - 1 + (-1)) % (n + 1)) + 1 = IF k = 1 THEN n + 1 ELSE k - 1
        BY <2>1, <2>3, RoundTheRing
    <2> DEFINE f == ((k - 1 + 1) % (n + 1)) + 1
               b == ((k - 1 + (-1)) % (n + 1)) + 1
    <2>5. f = (IF p = n THEN 1 ELSE p + 2) /\ b = IF p = 0 THEN n + 1 ELSE p
        <3> HIDE DEF f, b
        <3>1. f = (IF k = n + 1 THEN 1 ELSE k + 1) /\ b = IF k = 1 THEN n + 1 ELSE k - 1
            BY <2>4 DEF f, b
        <3> QED
            BY <1>1, <2>3, <3>1
    <2>6. r[((k - 1 + 1) % Len(r)) + 1] = r[f] /\ r[((k - 1 + (-1)) % Len(r)) + 1] = r[b]
        BY <1>2
    <2> HIDE DEF f, b
    <2>7. r[f] = Nth(m, h, IF p = n THEN 0 ELSE p + 1)
        <3>1. CASE p = n
            <4>1. f = 1 /\ 1 \in 1..(n + 1) /\ 1 - 1 = 0
                BY <1>1, <2>5, <3>1
            <4> QED
                BY <1>2, <3>1, <4>1
        <3>2. CASE p # n
            <4>1. f = p + 2 /\ p + 2 \in 1..(n + 1) /\ (p + 2) - 1 = p + 1
                BY <1>1, <2>5, <3>2
            <4> QED
                BY <1>2, <3>2, <4>1
        <3> QED
            BY <3>1, <3>2
    <2>8. r[b] = Nth(m, h, IF p = 0 THEN n ELSE p - 1)
        <3>1. CASE p = 0
            <4>1. b = n + 1 /\ n + 1 \in 1..(n + 1) /\ (n + 1) - 1 = n
                BY <1>1, <2>5, <3>1
            <4> QED
                BY <1>2, <3>1, <4>1
        <3>2. CASE p # 0
            <4>1. b = p /\ p \in 1..(n + 1)
                BY <1>1, <2>5, <3>2
            <4> QED
                BY <1>2, <3>2, <4>1
        <3> QED
            BY <3>1, <3>2
    <2>9. Nth(m, h, 0) = h /\ Nth(m, h, n + 1) = h
        BY <1>1, <1>3
    <2> QED
        BY <1>4, <2>3, <2>6, <2>7, <2>8, <2>9
<1> QED
    BY <1>6, <1>7 DEF TurnsRight

LEMMA MemoryRings ==
    ASSUME NEW nid \in [Slabs -> Nodes], NEW obj \in [Objs -> ObjStates], NEW isPage \in BOOLEAN
    PROVE  /\ ListsExact(Memory(nid, obj, isPage))
           /\ \A rev \in BOOLEAN, x \in Places :
                  LinkIn(Memory(nid, obj, isPage), rev, x) = Right(Memory(nid, obj, isPage), rev, x)
<1> DEFINE m == Memory(nid, obj, isPage)
           home == [x \in Places |-> IF x \in Heads THEN x ELSE <<nid[x], TypeFor(obj, x)>>]
           list == [h \in Heads |-> SetToSeq({s \in Slabs : home[s] = h})]
           ring == [h \in Heads |-> <<h>> \o list[h]]
           turn(x, d) == LET r == ring[home[x]]
                             k == CHOOSE k \in DOMAIN r : r[k] = x
                         IN  r[((k - 1 + d) % Len(r)) + 1]
           next == [x \in Places |-> turn(x, 1)]
           prev == [x \in Places |-> turn(x, -1)]
<1>1. m.nid = nid /\ m.obj = obj /\ m.list = list /\ m.next = next /\ m.prev = prev
    BY DEF Memory
<1>2. \A x \in Places : home[x] = HomeOf(m, x)
    BY <1>1 DEF HomeOf
<1>3. \A s \in Slabs : s \in Places
    BY DEF Places
<1>4. ASSUME NEW h \in Heads
      PROVE  /\ list[h] \in Seq(Slabs)
             /\ \A i \in DOMAIN list[h] : HomeOf(m, list[h][i]) = h
             /\ \A i, j \in DOMAIN list[h] : list[h][i] = list[h][j] => i = j
             /\ \A s \in Slabs : HomeOf(m, s) = h => \E i \in DOMAIN list[h] : list[h][i] = s
    <2> DEFINE S == {s \in Slabs : home[s] = h}
    <2>1. IsFiniteSet(S) /\ S \subseteq Slabs
        BY SlabAssumption, FS_Subset
    <2>2. list[h] = SetToSeq(S)
        OBVIOUS
    <2>3. (\A s \in S : HomeOf(m, s) = h) /\ (\A s \in Slabs : HomeOf(m, s) = h => s \in S)
        <3> HIDE DEF home, m
        <3> QED
            BY <1>2, <1>3
    <2> HIDE DEF S, list, home, m
    <2>4. /\ SetToSeq(S) \in Seq(S)
          /\ \A i, j \in DOMAIN SetToSeq(S) : SetToSeq(S)[i] = SetToSeq(S)[j] => i = j
          /\ \A x \in S : \E i \in DOMAIN SetToSeq(S) : SetToSeq(S)[i] = x
        BY <2>1, SetListed
    <2>5. SetToSeq(S) \in Seq(Slabs)
        BY <2>1, <2>4, SeqMonotonic
    <2>6. \A i \in DOMAIN SetToSeq(S) : SetToSeq(S)[i] \in S
        BY <2>4
    <2> QED
        BY <2>2, <2>3, <2>4, <2>5, <2>6
<1>5. ListsExact(m)
    <2>1. list = [h \in Heads |-> list[h]]
        OBVIOUS
    <2> HIDE DEF m, list, home
    <2>2. ASSUME NEW s \in Slabs PROVE HomeOf(m, s) \in Heads
        BY <1>1, <1>3, HomeIsHead
    <2>3. m.list \in [Heads -> Seq(Slabs)]
        BY <1>1, <1>4, <2>1
    <2>4. ASSUME NEW s \in Slabs
          PROVE  \E i \in DOMAIN list[HomeOf(m, s)] : list[HomeOf(m, s)][i] = s
        BY <1>4, <2>2
    <2> QED
        BY <1>1, <1>4, <2>3, <2>4 DEF ListsExact
<1>6. ASSUME NEW x \in Places
      PROVE  next[x] = Right(m, FALSE, x) /\ prev[x] = Right(m, TRUE, x)
    <2> DEFINE h == HomeOf(m, x)
               r == <<h>> \o m.list[h]
               k == CHOOSE k \in DOMAIN r : r[k] = x
    <2>1. h \in Heads /\ m.list = list
        <3>1. m.nid \in [Slabs -> Nodes] /\ m.list = list
            BY <1>1
        <3> HIDE DEF m, list
        <3> QED
            BY <3>1, HomeIsHead
    <2>2. ring[home[x]] = r
        BY <1>2, <2>1
    <2>3. next[x] = r[((k - 1 + 1) % Len(r)) + 1] /\ prev[x] = r[((k - 1 + (-1)) % Len(r)) + 1]
        <3>1. next[x] = turn(x, 1) /\ prev[x] = turn(x, -1)
            OBVIOUS
        <3>2. \A d : turn(x, d) = r[((k - 1 + d) % Len(r)) + 1]
            BY <2>2
        <3> HIDE DEF turn, next, prev
        <3> QED
            BY <3>1, <3>2
    <2> HIDE DEF turn, next, prev, ring, home, list, m
    <2>4. RingAt(m, h, r)
        BY <1>5, <2>1, RingShape
    <2> HIDE DEF r
    <2>5. \E i \in DOMAIN r : r[i] = x
        BY <1>5, <2>4, RingTurns
    <2>6. k \in DOMAIN r /\ r[k] = x
        BY <2>5
    <2> HIDE DEF k
    <2>7. TurnsRight(m, x, r, k)
        BY <1>5, <2>4, <2>6, RingTurns
    <2> QED
        BY <2>3, <2>7 DEF TurnsRight
<1>7. ASSUME NEW rev \in BOOLEAN, NEW x \in Places PROVE LinkIn(m, rev, x) = Right(m, rev, x)
    <2> HIDE DEF next, prev, m, turn, ring, home, list
    <2>1. rev = TRUE \/ rev = FALSE
        OBVIOUS
    <2> QED
        BY <1>1, <1>6, <2>1 DEF LinkIn
<1> QED
    BY <1>5, <1>7
-----------------------------------------------------------------------------
(* One pass over a list.                                                     *)

\* What the links of a dump are, one by one.
LEMMA LinkFacts ==
    ASSUME NEW m, RingsOK(m), NEW rev \in BOOLEAN, NEW x \in Places
    PROVE  /\ LinkIn(m, rev, x) \in Places \cup {NULL}
           /\ Right(m, rev, x) \in Places /\ Right(m, rev, x) # NULL
           /\ HomeOf(m, Right(m, rev, x)) = HomeOf(m, x)
           /\ Right(m, ~rev, Right(m, rev, x)) = x
           /\ HomeOf(m, x) \in Heads /\ (x \in Heads => HomeOf(m, x) = x)
           /\ \/ LinkIn(m, rev, x) = Right(m, rev, x)
              \/ /\ m.fault[1] = "link" /\ x = m.fault[2] /\ Wrong(m, rev)
                 /\ LinkIn(m, rev, x) = Target(m, rev)
<1>1. NULL \notin Places
    BY SlabAssumption, PlacesAssumption DEF Places
<1>2. /\ Right(m, rev, x) \in Places /\ HomeOf(m, Right(m, rev, x)) = HomeOf(m, x)
      /\ Right(m, ~rev, Right(m, rev, x)) = x
      /\ HomeOf(m, x) \in Heads /\ (x \in Heads => HomeOf(m, x) = x)
    BY DEF RingsOK, RingOK
<1>3. /\ LinkIn(m, rev, x) \in Places \cup {NULL}
      /\ LinkIn(m, rev, x) = Right(m, rev, x) \/ (m.fault[1] = "link" /\ x = m.fault[2])
    BY DEF RingsOK, LinksOK
<1> QED
    BY <1>1, <1>2, <1>3 DEF Wrong, Target

\* Following a link, a pass stays among the places that it can meet.
LEMMA MeetsNext ==
    ASSUME NEW m, RingsOK(m), NEW rev \in BOOLEAN, NEW h, NEW x \in Places,
           Meets(m, rev, h, x), LinkIn(m, rev, x) # NULL
    PROVE  Meets(m, rev, h, LinkIn(m, rev, x))
<1>1. CASE LinkIn(m, rev, x) = Right(m, rev, x)
    <2>1. HomeOf(m, LinkIn(m, rev, x)) = HomeOf(m, x)
        BY <1>1, LinkFacts
    <2> QED
        BY <2>1 DEF Meets
<1>2. CASE LinkIn(m, rev, x) # Right(m, rev, x)
    <2>1. x = m.fault[2] /\ Wrong(m, rev) /\ LinkIn(m, rev, x) = Target(m, rev)
        BY <1>2, LinkFacts
    <2>2. HomeOf(m, x) = h
        BY <2>1 DEF Meets, Astray
    <2> QED
        BY <2>1, <2>2 DEF Meets, Astray
<1> QED
    BY <1>1, <1>2

\* A pass that goes through its list in order meets nothing twice, and at the
\* head it has seen the whole list.
LEMMA StraightFacts ==
    ASSUME NEW m, RingsOK(m), NEW r, r.rev \in BOOLEAN, Straight(m, r)
    PROVE  /\ r.at \in Places /\ HomeOf(m, r.at) = HeadOf(r) /\ r.at \notin r.seen
           /\ r.at \in Heads => r.at = HeadOf(r)
           /\ r.at = HeadOf(r) => \A s \in Slabs : HomeOf(m, s) = HeadOf(r) => s \in r.seen
<1> DEFINE h == HeadOf(r)
           rank(x) == Rank(m, r.rev, x)
<1>1. r.last \in Places /\ HomeOf(m, r.last) = h /\ r.at = Right(m, r.rev, r.last)
    BY DEF Straight
<1>2. r.at \in Places /\ HomeOf(m, r.at) = h /\ h \in Heads /\ (r.at \in Heads => r.at = h)
    BY <1>1, LinkFacts
<1>3. /\ rank(r.last) \in Nat /\ (r.at \in Heads \/ rank(r.at) = rank(r.last) + 1)
      /\ r.at \in Heads => \A y \in Places : HomeOf(m, y) = h => rank(y) <= rank(r.last)
    BY <1>1 DEF RingsOK, RingOK
<1>4. r.seen = {y \in Places : HomeOf(m, y) = h /\ y \notin Heads /\ rank(y) <= rank(r.last)}
    BY DEF Straight
<1> HIDE DEF h, rank
<1>5. r.at \notin r.seen
    BY <1>3, <1>4
<1>6. ASSUME r.at = h, NEW s \in Slabs, HomeOf(m, s) = h PROVE s \in r.seen
    <2>1. s \in Places /\ s \notin Heads
        BY PlacesAssumption DEF Places
    <2> QED
        BY <1>2, <1>3, <1>4, <1>6, <2>1
<1> QED
    BY <1>2, <1>5, <1>6 DEF h

\* A straight pass stays straight over a sound link.
LEMMA StraightOn ==
    ASSUME NEW m, RingsOK(m), NEW r, r.rev \in BOOLEAN, Straight(m, r), r.at # HeadOf(r),
           LinkIn(m, r.rev, r.at) = Right(m, r.rev, r.at),
           NEW g, g.pc = "walk", g.rev = r.rev, HeadOf(g) = HeadOf(r),
           g.at = LinkIn(m, r.rev, r.at), g.last = r.at, g.seen = r.seen \cup {r.at}
    PROVE  Straight(m, g)
<1> DEFINE h == HeadOf(r)
           rank(x) == Rank(m, r.rev, x)
           S(k) == {y \in Places : HomeOf(m, y) = h /\ y \notin Heads /\ rank(y) <= k}
<1>1. r.at \in Places /\ HomeOf(m, r.at) = h /\ r.at \notin Heads
    BY StraightFacts
<1>2. r.last \in Places /\ HomeOf(m, r.last) = h /\ r.at = Right(m, r.rev, r.last)
    BY DEF Straight
<1>3. /\ \A y \in Places : rank(y) \in Nat
      /\ rank(r.at) = rank(r.last) + 1
      /\ \A y \in Places : HomeOf(m, y) = h /\ rank(y) = rank(r.at) => y = r.at
    BY <1>1, <1>2 DEF RingsOK, RingOK
<1>4. r.seen = S(rank(r.last))
    BY DEF Straight
<1>5. S(rank(r.last)) \cup {r.at} = S(rank(r.at))
    <2> HIDE DEF h, rank
    <2>1. \A y \in Places : rank(y) <= rank(r.at) <=> rank(y) <= rank(r.last) \/ rank(y) = rank(r.at)
        BY <1>2, <1>3
    <2> QED
        BY <1>1, <1>3, <2>1
<1>6. g.seen = S(rank(r.at))
    BY <1>4, <1>5
<1>7. g.seen = {y \in Places : /\ HomeOf(m, y) = HeadOf(g) /\ y \notin Heads
                              /\ Rank(m, g.rev, y) <= Rank(m, g.rev, g.last)}
    BY <1>6
<1> QED
    BY <1>1, <1>7 DEF Straight

\* A pass starts right.
LEMMA FreshPass ==
    ASSUME NEW m, RingsOK(m), NEW h \in Heads, NEW r, HeadOf(r) = h, r.rev \in BOOLEAN,
           r.at = LinkIn(m, r.rev, h), r.pc = IF r.at = NULL THEN "null" ELSE "walk",
           r.last = h, r.seen = {}, r.pending = FALSE, NEW ch, NEW e,
           r.rev => m.fault[1] = "link" /\ HomeOf(m, m.fault[2]) = h,
           r.rev /\ Wrong(m, TRUE) => AllFound(m, ch, e, h)
    PROVE  PassInv(m, r, ch, e)
<1>1. h \in Places /\ HomeOf(m, h) = h
    BY DEF Places, HomeOf
<1>2. /\ r.at \in Places \cup {NULL} /\ Right(m, r.rev, h) # NULL
      /\ \/ r.at = Right(m, r.rev, h)
         \/ h = m.fault[2] /\ Wrong(m, r.rev) /\ r.at = Target(m, r.rev)
    BY <1>1, LinkFacts
<1>3. r.pc = "walk" => Meets(m, r.rev, h, r.at)
    <2>1. Meets(m, r.rev, h, h)
        BY <1>1 DEF Meets
    <2> QED
        BY <1>1, <2>1, MeetsNext
<1>4. r.at = Right(m, r.rev, h) => Straight(m, r)
    <2>1. {y \in Places : HomeOf(m, y) = h /\ y \notin Heads
                           /\ Rank(m, r.rev, y) <= Rank(m, r.rev, h)} = {}
        <3>1. Rank(m, r.rev, h) = 0
            BY DEF Rank
        <3>2. \A y \in Places : Rank(m, r.rev, y) \in Nat /\ (Rank(m, r.rev, y) = 0 <=> y \in Heads)
            BY DEF RingsOK, RingOK
        <3> QED
            BY <3>1, <3>2
    <2> QED
        BY <1>1, <1>2, <2>1 DEF Straight
<1>5. ~Astray(m, r.rev, h) => Straight(m, r)
    BY <1>1, <1>2, <1>4 DEF Astray
<1>6. ~r.rev => r.rev = FALSE
    OBVIOUS
<1>7. ~r.rev => \/ Straight(m, r) \/ r.pc = "null"
                \/ r.last = m.fault[2] /\ r.at = Target(m, FALSE)
    BY <1>2, <1>4, <1>6
<1>8. /\ r.seen \subseteq Places /\ (r.pc = "walk" => r.at \in Places)
      /\ \A x \in r.seen : Meets(m, r.rev, HeadOf(r), x)
      /\ \A s \in Slabs \cap r.seen : Found(m, ch, e, s)
    BY <1>2
<1>9. /\ r.rev \/ r.pending => m.fault[1] = "link" /\ HomeOf(m, m.fault[2]) = HeadOf(r)
      /\ r.rev /\ Wrong(m, TRUE) => AllFound(m, ch, e, HeadOf(r))
    OBVIOUS
<1>10. ~r.rev => Notices(m, r)
    <2> SUFFICES ASSUME r.rev = FALSE, Astray(m, FALSE, h), m.fault[2] \in Heads
                 PROVE  r.pc = "null" \/ (r.last = m.fault[2] /\ r.at = Target(m, FALSE))
        BY <1>6 DEF Notices
    <2>1. m.fault[2] = h
        BY DEF Astray, HomeOf
    <2> QED
        BY <2>1 DEF Target
<1> QED
    BY <1>3, <1>5, <1>7, <1>8, <1>9, <1>10 DEF PassInv

\* A step over one place of a list.
LEMMA PassOn ==
    ASSUME NEW m, RingsOK(m), NEW r, NEW ch, NEW e, PassInv(m, r, ch, e),
           r.rev \in BOOLEAN, r.pending \in BOOLEAN, r.pc = "walk",
           r.at # HeadOf(r), r.at \notin r.seen,
           NEW g, g.rev = r.rev, HeadOf(g) = HeadOf(r), g.seen = r.seen \cup {r.at},
           g.pending = (r.pending \/ LinkIn(m, ~r.rev, r.at) # r.last),
           IF LinkIn(m, r.rev, r.at) = NULL
               THEN g.pc = "null"
               ELSE g.pc = "walk" /\ g.at = LinkIn(m, r.rev, r.at) /\ g.last = r.at,
           NEW c2, NEW e2, \A s \in Slabs : Found(m, ch, e, s) => Found(m, c2, e2, s),
           r.at \in Slabs => Found(m, c2, e2, r.at)
    PROVE  PassInv(m, g, c2, e2)
<1> DEFINE h == HeadOf(r)
           x == r.at
           n == LinkIn(m, r.rev, x)
           b == LinkIn(m, ~r.rev, x)
<1>1. x \in Places /\ Meets(m, r.rev, h, x)
    BY DEF PassInv
<1>2. /\ n \in Places \cup {NULL} /\ Right(m, r.rev, x) # NULL
      /\ \/ n = Right(m, r.rev, x)
         \/ x = m.fault[2] /\ Wrong(m, r.rev) /\ n = Target(m, r.rev)
    BY <1>1, LinkFacts
<1>3. \/ b = Right(m, ~r.rev, x)
      \/ m.fault[1] = "link" /\ x = m.fault[2] /\ Wrong(m, ~r.rev)
    BY <1>1, LinkFacts
<1>4. ~(Wrong(m, TRUE) /\ Wrong(m, FALSE))
    BY DEF RingsOK, LinksOK
<1>5. Straight(m, r) =>
          /\ r.last \in Places /\ x = Right(m, r.rev, r.last) /\ HomeOf(m, x) = h
          /\ Right(m, ~r.rev, x) = r.last
    <2> SUFFICES ASSUME Straight(m, r)
                 PROVE  /\ r.last \in Places /\ x = Right(m, r.rev, r.last) /\ HomeOf(m, x) = h
                        /\ Right(m, ~r.rev, x) = r.last
        OBVIOUS
    <2>1. r.last \in Places /\ x = Right(m, r.rev, r.last)
        BY DEF Straight
    <2> QED
        BY <2>1, StraightFacts, LinkFacts
<1>6. Straight(m, r) /\ n = Right(m, r.rev, x) => Straight(m, g)
    BY <1>2, StraightOn
<1>7. ~Astray(m, r.rev, h) => Straight(m, r)
    BY DEF PassInv
<1>8. ~Astray(m, g.rev, HeadOf(g)) => Straight(m, g)
    BY <1>2, <1>5, <1>6, <1>7 DEF Astray
<1>9. g.rev \/ g.pending => m.fault[1] = "link" /\ HomeOf(m, m.fault[2]) = h
    <2>1. r.rev \/ r.pending => m.fault[1] = "link" /\ HomeOf(m, m.fault[2]) = h
        BY DEF PassInv
    <2>2. Astray(m, r.rev, h) => m.fault[1] = "link" /\ HomeOf(m, m.fault[2]) = h
        BY DEF Astray, Wrong
    <2> QED
        BY <2>1, <2>2, <1>3, <1>5, <1>7
<1>10. ~g.rev => \/ Straight(m, g) \/ g.pending \/ g.pc = "null"
                 \/ g.last = m.fault[2] /\ g.at = Target(m, FALSE)
    <2> SUFFICES ASSUME r.rev = FALSE
                 PROVE  \/ Straight(m, g) \/ g.pending \/ g.pc = "null"
                        \/ g.last = m.fault[2] /\ g.at = Target(m, FALSE)
        OBVIOUS
    <2>1. CASE Straight(m, r)
        BY <1>2, <1>6, <2>1
    <2>2. CASE r.pending
        BY <2>2
    <2>3. CASE ~Straight(m, r) /\ r.last = m.fault[2] /\ x = Target(m, FALSE)
        <3>1. Wrong(m, FALSE)
            BY <1>7, <2>3 DEF Astray
        <3>2. b = Right(m, TRUE, x)
            BY <1>3, <1>4, <3>1
        <3>3. Right(m, FALSE, Right(m, TRUE, x)) = x
            BY <1>1, LinkFacts
        <3>4. b # r.last
            BY <2>3, <3>1, <3>2, <3>3 DEF Wrong, Target
        <3> QED
            BY <3>4
    <2> QED
        BY <2>1, <2>2, <2>3 DEF PassInv
<1>11. g.seen \subseteq Places /\ (g.pc = "walk" => g.at \in Places)
    BY <1>1, <1>2 DEF PassInv
<1>12. \A y \in g.seen : Meets(m, g.rev, HeadOf(g), y)
    BY <1>1 DEF PassInv
<1>13. g.pc = "walk" => Meets(m, g.rev, HeadOf(g), g.at)
    BY <1>1, MeetsNext
<1>14. \A s \in Slabs \cap g.seen : Found(m, c2, e2, s)
    BY DEF PassInv
<1>15. g.rev /\ Wrong(m, TRUE) => AllFound(m, c2, e2, HeadOf(g))
    BY DEF PassInv, AllFound
<1>16. ~g.rev => Notices(m, g)
    <2> SUFFICES ASSUME r.rev = FALSE PROVE Notices(m, g)
        OBVIOUS
    <2>1. Notices(m, r)
        BY DEF PassInv
    <2>2. ASSUME Astray(m, FALSE, h), m.fault[2] \in g.seen \cup Heads
          PROVE  g.pending \/ g.pc = "null" \/ (g.last = m.fault[2] /\ g.at = Target(m, FALSE))
        <3>1. CASE x = m.fault[2]
            BY <3>1 DEF Target
        <3>2. CASE x # m.fault[2] /\ r.pending
            BY <3>2
        <3>3. CASE x # m.fault[2] /\ ~r.pending
            <4>1. r.last = m.fault[2] /\ x = Target(m, FALSE)
                BY <2>1, <2>2, <3>3 DEF Notices
            <4>2. Wrong(m, FALSE) /\ b = Right(m, TRUE, x)
                BY <1>3, <1>4, <2>2 DEF Astray
            <4>3. Right(m, FALSE, Right(m, TRUE, x)) = x
                BY <1>1, LinkFacts
            <4>4. b # r.last
                BY <4>1, <4>2, <4>3 DEF Wrong, Target
            <4> QED
                BY <4>4
        <3> QED
            BY <3>1, <3>2, <3>3
    <2>3. ASSUME Wrong(m, TRUE), m.fault[2] \in g.seen PROVE g.pending
        <3>1. CASE m.fault[2] \in r.seen
            BY <2>1, <2>3, <3>1 DEF Notices
        <3>2. CASE m.fault[2] = x
            <4>1. Right(m, TRUE, x) = r.last
                BY <1>4, <1>5, <1>7, <2>3 DEF Astray
            <4>2. b # Right(m, TRUE, x)
                BY <2>3, <3>2 DEF Wrong
            <4> QED
                BY <4>1, <4>2
        <3> QED
            BY <2>3, <3>1, <3>2
    <2> QED
        BY <2>2, <2>3 DEF Notices
<1> QED
    BY <1>8, <1>9, <1>10, <1>11, <1>12, <1>13, <1>14, <1>15, <1>16 DEF PassInv

\* A list is read again only for a wrong link, and only if the first pass is
\* the one that it leads astray or has found all of the list.
LEMMA PassFailed ==
    ASSUME NEW m, RingsOK(m), NEW r, NEW ch, NEW e, PassInv(m, r, ch, e), r.rev \in BOOLEAN,
           \/ r.pc = "walk" /\ r.at = HeadOf(r) /\ r.pending
           \/ r.pc = "walk" /\ r.at \in r.seen
           \/ r.pc = "null"
    PROVE  /\ m.fault[1] = "link" /\ HomeOf(m, m.fault[2]) = HeadOf(r)
           /\ ~Wrong(m, r.rev) => AllFound(m, ch, e, HeadOf(r))
<1> DEFINE h == HeadOf(r)
<1>1. ~Astray(m, r.rev, h) => Straight(m, r)
    BY DEF PassInv
<1>2. Straight(m, r) => r.pc = "walk" /\ r.at = h /\ r.pending
    <2>1. Straight(m, r) => r.pc = "walk" /\ r.at \notin r.seen
        BY StraightFacts DEF Straight
    <2> QED
        BY <2>1
<1>3. m.fault[1] = "link" /\ HomeOf(m, m.fault[2]) = h
    BY <1>1, <1>2 DEF PassInv, Astray, Wrong
<1>4. ASSUME ~Wrong(m, r.rev) PROVE AllFound(m, ch, e, h)
    <2>1. Straight(m, r) /\ r.at = h
        BY <1>1, <1>2, <1>4 DEF Astray
    <2>2. \A s \in Slabs : HomeOf(m, s) = h => s \in r.seen
        BY <2>1, StraightFacts
    <2> QED
        BY <2>2 DEF PassInv, AllFound
<1> QED
    BY <1>3, <1>4

\* A pass that is not followed by another over its list leaves nothing out.
LEMMA PassDone ==
    ASSUME NEW m, RingsOK(m), NEW r, NEW ch, NEW e, PassInv(m, r, ch, e),
           r.rev \in BOOLEAN, r.pending \in BOOLEAN,
           \/ r.pc = "walk" /\ r.at = HeadOf(r) /\ (r.rev \/ ~r.pending)
           \/ r.pc = "walk" /\ r.at \in r.seen /\ r.rev
           \/ r.pc = "null" /\ r.rev
    PROVE  AllFound(m, ch, e, HeadOf(r)) \/ Closed(m)
<1> DEFINE h == HeadOf(r)
<1>1. ~Astray(m, r.rev, h) => Straight(m, r)
    BY DEF PassInv
<1>2. Straight(m, r) => AllFound(m, ch, e, h)
    <2> SUFFICES ASSUME Straight(m, r) PROVE AllFound(m, ch, e, h)
        OBVIOUS
    <2>1. r.pc = "walk" /\ r.at \notin r.seen
        BY StraightFacts DEF Straight
    <2>2. \A s \in Slabs : HomeOf(m, s) = h => s \in r.seen
        BY <2>1, StraightFacts
    <2> QED
        BY <2>2 DEF PassInv, AllFound
<1>3. CASE r.rev
    BY <1>1, <1>2, <1>3 DEF PassInv, Astray
<1>4. CASE r.rev = FALSE
    <2>1. r.pc = "walk" /\ r.at = h /\ ~r.pending
        BY <1>4
    <2>2. CASE ~Straight(m, r)
        <3>1. r.last = m.fault[2] /\ h = Target(m, FALSE)
            BY <1>4, <2>1, <2>2 DEF PassInv
        <3>2. Wrong(m, FALSE) /\ HomeOf(m, m.fault[2]) = h
            BY <1>1, <1>4, <2>2 DEF Astray
        <3> QED
            BY <3>1, <3>2 DEF Closed, Target, LinkIn
    <2> QED
        BY <1>2, <2>2
<1> QED
    BY <1>3, <1>4

\* A first pass that ends at its head as if nothing was wrong has met nothing
\* that it should have noticed.
LEMMA PassNotices ==
    ASSUME NEW m, RingsOK(m), NEW r, NEW ch, NEW e, PassInv(m, r, ch, e), r.rev = FALSE,
           r.pc = "walk", r.at = HeadOf(r), ~r.pending, HomeOf(m, m.fault[2]) = HeadOf(r)
    PROVE  ~Notable(m)
<1> DEFINE h == HeadOf(r)
           x == m.fault[2]
<1>1. Notices(m, r) /\ (Straight(m, r) \/ (r.last = x /\ r.at = Target(m, FALSE)))
    BY DEF PassInv
<1>2. ASSUME Straight(m, r) PROVE \A s \in Slabs : HomeOf(m, s) = h => s \in r.seen
    <2>1. r.rev \in BOOLEAN
        OBVIOUS
    <2> QED
        BY <1>2, <2>1, StraightFacts
<1>3. ~(Wrong(m, TRUE) /\ Wrong(m, FALSE)) /\ (Wrong(m, TRUE) \/ Wrong(m, FALSE) => x \in Places)
    BY DEF RingsOK, LinksOK, Wrong
<1>4. CASE Wrong(m, FALSE)
    <2>1. r.at = Target(m, FALSE)
        <3>1. Straight(m, r) => x \in r.seen \cup Heads
            BY <1>2, <1>3, <1>4 DEF Places
        <3> QED
            BY <1>1, <1>4, <3>1 DEF Notices, Astray
    <2>2. Closed(m)
        BY <1>4, <2>1 DEF Closed, Target, LinkIn
    <2> QED
        BY <1>3, <1>4, <2>2 DEF Notable
<1>5. CASE Wrong(m, TRUE)
    <2>1. Straight(m, r)
        BY <1>3, <1>5 DEF PassInv, Astray
    <2>2. x \in Heads
        BY <1>1, <1>2, <1>3, <1>5, <2>1 DEF Notices, Places
    <2> QED
        BY <1>3, <1>5, <2>2 DEF Notable
<1> QED
    BY <1>4, <1>5 DEF Notable

-----------------------------------------------------------------------------
(* How often a slab can have been met.                                       *)

LEMMA MostGrows ==
    ASSUME NEW m, NEW r, NEW g, NEW s,
           \A h, rev : Had(r, h, rev, s) => Had(g, h, rev, s)
    PROVE  /\ Most(m, r, s) \in 0..2 /\ Most(m, g, s) \in 0..2
           /\ Most(m, r, s) <= Most(m, g, s)
           /\ HadFirst(m, g, s) /\ ~HadFirst(m, r, s) => Most(m, r, s) + 1 <= Most(m, g, s)
           /\ HadSecond(m, g, s) /\ ~HadSecond(m, r, s) => Most(m, r, s) + 1 <= Most(m, g, s)
<1>1. HadFirst(m, r, s) => HadFirst(m, g, s)
    BY DEF HadFirst
<1>2. HadSecond(m, r, s) => HadSecond(m, g, s)
    BY DEF HadSecond
<1> QED
    BY <1>1, <1>2 DEF Most

\* A place that a pass meets for the first time may be met once more.
LEMMA MostOn ==
    ASSUME NEW m, RingsOK(m), NEW r, NEW ch, NEW e, PassInv(m, r, ch, e), RunShape(r), r # NoRun,
           r.pc = "walk", r.at \notin r.seen, Head(r.nids) \in Range(r.nids), r.type \in Types,
           NEW g, g # NoRun, g.nids = r.nids, g.type = r.type, g.rev = r.rev, g.pc # "node",
           g.seen = r.seen \cup {r.at}
    PROVE  /\ \A h : Past(g, h) <=> Past(r, h)
           /\ \A s : Most(m, r, s) \in 0..2 /\ Most(m, g, s) \in 0..2
                    /\ Most(m, r, s) <= Most(m, g, s)
           /\ r.at \in Slabs => Most(m, r, r.at) + 1 <= Most(m, g, r.at)
<1> DEFINE h == HeadOf(r)
           s == r.at
<1>1. HeadOf(g) = h
    BY DEF HeadOf
<1>2. \A x : Past(g, x) <=> Past(r, x)
    BY DEF Past
<1>3. \A x, rev, y : Had(r, x, rev, y) => Had(g, x, rev, y)
    BY <1>1, <1>2 DEF Had
<1>4. ~Past(r, h)
    <2>1. h[1] = Head(r.nids) /\ h[2] = r.type
        BY DEF HeadOf
    <2>2. ~(r.type < r.type)
        BY DEF Types
    <2> QED
        BY <2>1, <2>2 DEF Past
<1>5. \A rev \in BOOLEAN : rev = r.rev => ~Had(r, h, rev, s) /\ Had(g, h, rev, s)
    BY <1>1, <1>4 DEF Had, RunShape
<1>6. ASSUME s \in Slabs PROVE Most(m, r, s) + 1 <= Most(m, g, s)
    <2>1. s \in Places /\ Meets(m, r.rev, h, s)
        BY DEF PassInv
    <2>2. r.rev \in BOOLEAN
        BY DEF RunShape
    <2>3. CASE HomeOf(m, s) = h /\ r.rev = FALSE
        <3>1. HadFirst(m, g, s) /\ ~HadFirst(m, r, s)
            BY <1>5, <2>3 DEF HadFirst
        <3> QED
            BY <1>3, <3>1, MostGrows
    <2>4. CASE HomeOf(m, s) = h /\ r.rev = TRUE
        <3>1. m.fault[1] = "link" /\ HomeOf(m, m.fault[2]) = h
            BY <2>4 DEF PassInv
        <3>2. Second(m, TRUE, s) /\ ~Second(m, FALSE, s)
            BY <2>4, <3>1 DEF Second
        <3>3. ~Had(r, h, TRUE, s) /\ Had(g, h, TRUE, s)
            BY <1>5, <2>4
        <3>4. HadSecond(m, g, s)
            BY <3>1, <3>2, <3>3 DEF HadSecond
        <3>5. ~HadSecond(m, r, s)
            <4>1. \A rev \in BOOLEAN : rev = TRUE \/ rev = FALSE
                OBVIOUS
            <4> QED
                BY <3>1, <3>2, <3>3, <4>1 DEF HadSecond
        <3> QED
            BY <1>3, <3>4, <3>5, MostGrows
    <2>5. CASE HomeOf(m, s) # h
        <3>1. Astray(m, r.rev, h) /\ HomeOf(m, m.fault[2]) = h /\ m.fault[1] = "link"
            BY <2>1, <2>5 DEF Meets, Astray, Wrong
        <3>2. Second(m, r.rev, s)
            BY <2>1, <2>5, <3>1 DEF Second
        <3>3. \A rev \in BOOLEAN : rev # r.rev => ~Second(m, rev, s)
            <4>1. ~(Wrong(m, TRUE) /\ Wrong(m, FALSE)) /\ Wrong(m, r.rev)
                BY <3>1 DEF RingsOK, LinksOK, Astray
            <4>2. \A rev \in BOOLEAN : rev # r.rev => ~Wrong(m, rev)
                BY <2>2, <4>1
            <4> QED
                BY <2>5, <3>1, <4>2 DEF Second, Astray
        <3>4. ~Had(r, h, r.rev, s) /\ Had(g, h, r.rev, s)
            BY <1>5, <2>2
        <3>5. HadSecond(m, g, s) /\ ~HadSecond(m, r, s)
            BY <2>2, <3>1, <3>2, <3>3, <3>4 DEF HadSecond
        <3> QED
            BY <1>3, <3>5, MostGrows
    <2> QED
        BY <2>2, <2>3, <2>4, <2>5
<1>7. \A y : Most(m, r, y) \in 0..2 /\ Most(m, g, y) \in 0..2 /\ Most(m, r, y) <= Most(m, g, y)
    BY <1>3, MostGrows
<1> QED
    BY <1>2, <1>6, <1>7

-----------------------------------------------------------------------------
(* The steps of check_all.                                                   *)

\* A list is over for good when its passes are.
LEMMA HeadIn ==
    ASSUME NEW r, RunOK(r)
    PROVE  /\ Head(r.nids) \in Range(r.nids) /\ Head(r.nids) \in Nodes /\ HeadOf(r) \in Heads
           /\ r.nids \in Seq(Nodes) /\ r.nids # <<>> /\ r.type \in Types
<1>1. r.nids \in Seq(Nodes) /\ r.nids # <<>> /\ r.type \in Types
    BY DEF RunOK
<1>2. Len(r.nids) \in Nat /\ Len(r.nids) # 0 /\ Head(r.nids) = r.nids[1]
    BY <1>1
<1>3. 1 \in DOMAIN r.nids
    BY <1>1, <1>2
<1> QED
    BY <1>1, <1>2, <1>3 DEF Range, HeadOf, Heads

\* A place that is entered, whether it is a slab that is checked or not.
LEMMA VisitOn ==
    ASSUME CountInv, VisitInv, Here, mem' = mem, outcome' = outcome,
           NEW g, run' = GoOn(g), DOMAIN g = RunFields, g.nids = run.nids, g.type = run.type,
           g.rev = run.rev, g.pc = run.pc, g.seen = run.seen \cup {run.at},
           g.pending = (run.pending \/ Back(run.at) # run.last),
           errors \subseteq errors',
           \/ checks' = checks /\ (run.at \in Slabs => mem.fault[1] = "hole" /\ errors' # {})
           \/ run.at \in Slabs /\ checks' = [checks EXCEPT ![run.at] = @ + 1]
    PROVE  VisitInv'
<1> DEFINE s == run.at
           n == LinkIn(mem, run.rev, s)
<1>1. /\ run # NoRun /\ run.pc = "walk" /\ s # HeadOf(run) /\ s \notin run.seen
      /\ RunOK(run) /\ RunShape(run) /\ PassInv(mem, run, checks, errors) /\ RingsOK(mem)
    BY DEF Here, CountInv, VisitInv, head, HeadOf
<1>2. /\ Head(run.nids) \in Range(run.nids) /\ run.type \in Types
    BY <1>1, HeadIn
<1>3. n = Onward(s) /\ Back(s) = LinkIn(mem, ~run.rev, s)
    BY DEF Onward, Back, Link, LinkIn
<1>4. /\ run'.nids = run.nids /\ run'.type = run.type /\ run'.rev = run.rev
      /\ run'.seen = run.seen \cup {s} /\ run'.pending = g.pending
      /\ IF n = NULL THEN run'.pc = "null" ELSE run'.pc = "walk" /\ run'.at = n /\ run'.last = s
      /\ DOMAIN run' = RunFields
    <2>0. g.seen = run.seen \cup {s}
        OBVIOUS
    <2>1. CASE n = NULL
        <3>1. run' = [g EXCEPT !.pc = "null"]
            BY <1>3, <2>1 DEF GoOn
        <3> HIDE DEF n, s
        <3> QED
            BY <2>0, <2>1, <3>1 DEF RunFields
    <2>2. CASE n # NULL
        <3>1. run' = [g EXCEPT !.at = n, !.last = s]
            BY <1>3, <2>2 DEF GoOn
        <3> HIDE DEF n, s
        <3> QED
            BY <1>1, <2>0, <2>2, <3>1 DEF RunFields
    <2> QED
        BY <2>1, <2>2
<1>5. run' # NoRun /\ HeadOf(run') = HeadOf(run) /\ run'.pc \in {"walk", "null"}
    BY <1>4 DEF NoRun, RunFields, HeadOf
<1>6. checks \in [Slabs -> Nat]
    BY DEF CountInv
<1>7. \A x \in Slabs : /\ checks[x] \in Nat /\ checks'[x] \in Nat /\ checks[x] <= checks'[x]
                       /\ checks'[x] # checks[x] => x = s /\ checks'[x] = checks[x] + 1
    BY <1>6
<1>8. \A x \in Slabs : Found(mem, checks, errors, x) => Found(mem, checks', errors', x)
    BY <1>7 DEF Found
<1>9. s \in Slabs => Found(mem, checks', errors', s)
    BY <1>6, <1>7 DEF Found
<1> HIDE DEF n, s
<1>10. PassInv(mem, run', checks', errors')
    <2> DEFINE r == run
               q == run'
               c2 == checks'
               e2 == errors'
    <2>1. /\ r.rev \in BOOLEAN /\ r.pending \in BOOLEAN
          /\ q.pending = (r.pending \/ LinkIn(mem, ~r.rev, r.at) # r.last)
        BY <1>1, <1>3, <1>4 DEF RunShape, s
    <2>2. IF LinkIn(mem, r.rev, r.at) = NULL
              THEN q.pc = "null"
              ELSE q.pc = "walk" /\ q.at = LinkIn(mem, r.rev, r.at) /\ q.last = r.at
        BY <1>4 DEF n, s
    <2>3. PassInv(mem, r, checks, errors) /\ r.pc = "walk" /\ r.at # HeadOf(r) /\ r.at \notin r.seen
        BY <1>1 DEF s
    <2>4. q.rev = r.rev /\ HeadOf(q) = HeadOf(r) /\ q.seen = r.seen \cup {r.at}
        BY <1>4, <1>5 DEF s
    <2>5. /\ \A x \in Slabs : Found(mem, checks, errors, x) => Found(mem, c2, e2, x)
          /\ r.at \in Slabs => Found(mem, c2, e2, r.at)
        BY <1>8, <1>9 DEF s
    <2> HIDE DEF r, q, c2, e2
    <2>6. PassInv(mem, q, c2, e2)
        BY <1>1, <2>1, <2>2, <2>3, <2>4, <2>5, PassOn
    <2> QED
        BY <2>6 DEF q, c2, e2
<1>11. /\ \A h : Past(run', h) <=> Past(run, h)
       /\ \A x : Most(mem, run, x) \in 0..2 /\ Most(mem, run', x) \in 0..2
                /\ Most(mem, run, x) <= Most(mem, run', x)
       /\ s \in Slabs => Most(mem, run, s) + 1 <= Most(mem, run', s)
    <2> DEFINE r == run
               q == run'
    <2>1. /\ PassInv(mem, r, checks, errors) /\ RunShape(r) /\ r # NoRun /\ r.pc = "walk"
          /\ r.at \notin r.seen /\ Head(r.nids) \in Range(r.nids) /\ r.type \in Types
        BY <1>1, <1>2 DEF s
    <2>2. /\ q # NoRun /\ q.nids = r.nids /\ q.type = r.type /\ q.rev = r.rev /\ q.pc # "node"
          /\ q.seen = r.seen \cup {r.at}
        BY <1>4, <1>5 DEF s
    <2> HIDE DEF r, q
    <2>3. /\ \A h : Past(q, h) <=> Past(r, h)
          /\ \A x : Most(mem, r, x) \in 0..2 /\ Most(mem, q, x) \in 0..2
                   /\ Most(mem, r, x) <= Most(mem, q, x)
          /\ r.at \in Slabs => Most(mem, r, r.at) + 1 <= Most(mem, q, r.at)
        BY <1>1, <2>1, <2>2, MostOn
    <2> QED
        BY <2>3 DEF r, q, s
<1>12. ASSUME NEW x \in Slabs PROVE VisitedSlab(mem, run', checks', errors', x)
    <2>1. VisitedSlab(mem, run, checks, errors, x)
        BY <1>1 DEF VisitInv
    <2>2. checks'[x] <= Most(mem, run', x)
        <3>1. checks[x] <= Most(mem, run, x)
            BY <2>1 DEF VisitedSlab
        <3>2. CASE checks'[x] = checks[x]
            BY <1>7, <1>11, <3>1, <3>2
        <3>3. CASE x = s /\ checks'[x] = checks[x] + 1
            BY <1>7, <1>11, <3>1, <3>3
        <3> QED
            BY <1>7, <3>2, <3>3
    <2> QED
        BY <1>8, <1>11, <2>1, <2>2 DEF VisitedSlab
<1>13. RunShape(run')
    BY <1>1, <1>4, <1>5 DEF RunShape
<1>14. Reported(mem, run', errors')
    <2>1. \A h : Behind(run', h) <=> Behind(run, h)
        BY <1>4, <1>5, <1>11 DEF Behind
    <2>2. Reported(mem, run, errors)
        BY <1>1 DEF VisitInv
    <2> QED
        BY <2>1, <2>2 DEF Reported
<1> QED
    BY <1>1, <1>5, <1>10, <1>12, <1>13, <1>14 DEF VisitInv

\* The record of a pass that starts.
FreshRun(m, p, nids, type, rev) ==
    /\ p.nids = nids /\ p.type = type /\ p.rev = rev /\ p # NoRun
    /\ HeadOf(p) = <<Head(nids), type>> /\ HeadOf(p) \in Heads
    /\ p.at = LinkIn(m, rev, HeadOf(p))
    /\ p.pc = IF p.at = NULL THEN "null" ELSE "walk"
    /\ p.last = HeadOf(p) /\ p.seen = {} /\ p.pending = FALSE
LEMMA PassFields ==
    ASSUME NEW nids \in Seq(Nodes), nids # <<>>, NEW type \in Types, NEW rev \in BOOLEAN, NEW free,
           NEW p, p = Pass(nids, type, rev, free)
    PROVE  FreshRun(mem, p, nids, type, rev)
<1> DEFINE h == <<Head(nids), type>>
           first == Link(rev, h)
<1>1. p = [nids |-> nids, type |-> type, rev |-> rev, free |-> free,
           pc |-> IF first = NULL THEN "null" ELSE "walk",
           at |-> first, last |-> h, seen |-> {}, pending |-> FALSE,
           ok |-> 0, misplaced |-> 0]
    BY DEF Pass
<1>2. Head(nids) \in Nodes
    BY HeadTailProperties
<1>3. h \in Heads
    BY <1>2 DEF Heads
<1>4. first = LinkIn(mem, rev, h)
    BY DEF Link, LinkIn
<1> HIDE DEF h, first
<1>5. /\ p.nids = nids /\ p.type = type /\ p.rev = rev /\ p.at = first
      /\ p.pc = IF p.at = NULL THEN "null" ELSE "walk"
      /\ p.last = h /\ p.seen = {} /\ p.pending = FALSE /\ DOMAIN p = RunFields
    BY <1>1 DEF RunFields
<1>6. HeadOf(p) = h
    BY <1>5 DEF HeadOf, h
<1>7. p # NoRun
    BY <1>5 DEF NoRun, RunFields
<1> QED
    BY <1>3, <1>4, <1>5, <1>6, <1>7 DEF h, FreshRun

LEMMA FaultHome ==
    ASSUME NEW m, RingsOK(m), Notable(m)
    PROVE  HomeOf(m, m.fault[2]) \in Heads
<1>1. m.fault[2] \in Places
    BY DEF Notable, Wrong, RingsOK, LinksOK
<1> QED
    BY <1>1 DEF RingsOK, RingOK

\* What remains to be shown when a pass starts and nothing is checked.
LEMMA VisitFresh ==
    ASSUME RingsOK(mem), mem' = mem, NEW nids \in Seq(Nodes), nids # <<>>, Apart(nids),
           NEW type \in Types, NEW rev \in BOOLEAN, NEW free,
           run' = Pass(nids, type, rev, free),
           rev => /\ mem.fault[1] = "link" /\ HomeOf(mem, mem.fault[2]) = <<Head(nids), type>>
                  /\ Wrong(mem, TRUE) => AllFound(mem, checks', errors', <<Head(nids), type>>),
           \A s \in Slabs : VisitedSlab(mem, run', checks', errors', s),
           Reported(mem, run', errors')
    PROVE  VisitInv'
<1> DEFINE p == run'
           c == checks'
           e == errors'
<1>0. p = Pass(nids, type, rev, free)
    OBVIOUS
<1> HIDE DEF p
<1>1. /\ p.nids = nids /\ p.type = type /\ p.rev = rev /\ p # NoRun
      /\ HeadOf(p) = <<Head(nids), type>> /\ HeadOf(p) \in Heads
      /\ p.at = LinkIn(mem, rev, HeadOf(p))
      /\ p.pc = IF p.at = NULL THEN "null" ELSE "walk"
      /\ p.last = HeadOf(p) /\ p.seen = {} /\ p.pending = FALSE
    <2>1. FreshRun(mem, p, nids, type, rev)
        BY <1>0, PassFields
    <2> QED
        BY <2>1 DEF FreshRun
<1>2. /\ rev => mem.fault[1] = "link" /\ HomeOf(mem, mem.fault[2]) = HeadOf(p)
      /\ rev /\ Wrong(mem, TRUE) => AllFound(mem, c, e, HeadOf(p))
    BY <1>1
<1> HIDE DEF c, e
<1>3. PassInv(mem, p, c, e)
    BY <1>1, <1>2, FreshPass
<1>4. RunShape(p) /\ p.pc # "node"
    BY <1>1 DEF RunShape
<1> QED
    BY <1>3, <1>4 DEF VisitInv, p, c, e

LEMMA VisitEnd ==
    ASSUME CountInv, VisitInv, run # NoRun, NEW failed \in BOOLEAN, EndPass(failed),
           mem' = mem, checks' = checks, outcome' = outcome,
           \/ run.pc = "walk" /\ run.at = head /\ failed = run.pending
           \/ run.pc = "walk" /\ run.at \in run.seen /\ failed
           \/ run.pc = "null" /\ failed
    PROVE  VisitInv'
<1> DEFINE h == HeadOf(run)
<1>1. /\ RunOK(run) /\ RunShape(run) /\ PassInv(mem, run, checks, errors) /\ RingsOK(mem)
      /\ run.pc \in {"walk", "null"} /\ DOMAIN run = RunFields
    BY DEF CountInv, VisitInv, RunOK
<1>2. /\ Head(run.nids) \in Range(run.nids) /\ run.type \in Types /\ h \in Heads
      /\ run.nids \in Seq(Nodes) /\ run.nids # <<>>
    BY <1>1, HeadIn
<1>3. head = h /\ h[1] = Head(run.nids) /\ h[2] = run.type /\ h = <<Head(run.nids), run.type>>
    BY DEF head, HeadOf
<1>4. /\ run' = Following(failed) /\ errors \subseteq errors' /\ run.rev \in BOOLEAN
      /\ run.pending \in BOOLEAN /\ Apart(run.nids)
    BY <1>1 DEF EndPass, RunShape
<1>5. \A s \in Slabs : Found(mem, checks, errors, s) => Found(mem, checks', errors', s)
    BY <1>4 DEF Found
<1>6. \A s \in Slabs : /\ checks[s] \in Nat /\ checks'[s] = checks[s]
                       /\ VisitedSlab(mem, run, checks, errors, s)
    BY DEF VisitInv, CountInv
<1>0. /\ failed => "list" \in errors'
      /\ Reported(mem, run, errors)
    BY DEF EndPass, VisitInv
<1>7. CASE failed /\ run.rev = FALSE
    <2>1. run' = Pass(run.nids, run.type, TRUE, run.free)
        BY <1>4, <1>7 DEF Following
    <2>2. /\ mem.fault[1] = "link" /\ HomeOf(mem, mem.fault[2]) = h
          /\ ~Wrong(mem, FALSE) => AllFound(mem, checks, errors, h)
        <3> DEFINE r == run
        <3>1. /\ PassInv(mem, r, checks, errors) /\ r.rev = FALSE
              /\ \/ r.pc = "walk" /\ r.at = HeadOf(r) /\ r.pending
                 \/ r.pc = "walk" /\ r.at \in r.seen
                 \/ r.pc = "null"
            BY <1>1, <1>3, <1>7
        <3> HIDE DEF r
        <3>2. /\ mem.fault[1] = "link" /\ HomeOf(mem, mem.fault[2]) = HeadOf(r)
              /\ ~Wrong(mem, r.rev) => AllFound(mem, checks, errors, HeadOf(r))
            BY <1>1, <3>1, PassFailed
        <3> QED
            BY <3>1, <3>2 DEF r
    <2>3. Wrong(mem, TRUE) => AllFound(mem, checks', errors', h)
        <3>1. ~(Wrong(mem, TRUE) /\ Wrong(mem, FALSE))
            BY <1>1 DEF RingsOK, LinksOK
        <3> QED
            BY <1>5, <2>2, <3>1 DEF AllFound
    <2> DEFINE p == run'
    <2>4. /\ p.nids = run.nids /\ p.type = run.type /\ p.rev = TRUE /\ p # NoRun
          /\ HeadOf(p) = h /\ p.pc # "node" /\ p.seen = {}
        <3>1. p = Pass(run.nids, run.type, TRUE, run.free)
            BY <2>1
        <3> HIDE DEF p
        <3>2. TRUE \in BOOLEAN
            OBVIOUS
        <3>3. FreshRun(mem, p, run.nids, run.type, TRUE)
            BY <1>2, <3>1, <3>2, PassFields
        <3> QED
            BY <1>3, <3>3 DEF FreshRun
    <2> HIDE DEF p
    <2>5. \A x : Past(p, x) <=> Past(run, x)
        BY <1>1, <2>4 DEF Past
    <2>6. \A x, s : \A rev : Had(run, x, rev, s) => Had(p, x, rev, s)
        BY <1>7, <2>4, <2>5 DEF Had
    <2>7. ASSUME NEW s \in Slabs PROVE VisitedSlab(mem, p, checks', errors', s)
        <3>1. Most(mem, run, s) <= Most(mem, p, s) /\ Most(mem, run, s) \in 0..2
              /\ Most(mem, p, s) \in 0..2
            BY <2>6, MostGrows
        <3>2. checks[s] \in Nat /\ checks'[s] = checks[s] /\ checks[s] <= Most(mem, run, s)
            BY <1>6 DEF VisitedSlab
        <3>3. checks'[s] <= Most(mem, p, s)
            BY <3>1, <3>2
        <3> QED
            BY <1>5, <1>6, <2>5, <3>3 DEF VisitedSlab
    <2>8. \A s \in Slabs : VisitedSlab(mem, run', checks', errors', s)
        BY <2>7 DEF p
    <2>9. Reported(mem, run', errors')
        BY <1>0, <1>7 DEF Reported
    <2> QED
        BY <1>1, <1>2, <1>3, <1>4, <2>1, <2>2, <2>3, <2>8, <2>9, VisitFresh
<1>8. CASE ~failed \/ run.rev = TRUE
    <2>1. AllFound(mem, checks, errors, h) \/ Closed(mem)
        <3> DEFINE r == run
        <3>1. /\ PassInv(mem, r, checks, errors) /\ r.rev \in BOOLEAN /\ r.pending \in BOOLEAN
              /\ \/ r.pc = "walk" /\ r.at = HeadOf(r) /\ (r.rev \/ ~r.pending)
                 \/ r.pc = "walk" /\ r.at \in r.seen /\ r.rev
                 \/ r.pc = "null" /\ r.rev
            BY <1>1, <1>3, <1>4, <1>8
        <3> HIDE DEF r
        <3>2. AllFound(mem, checks, errors, HeadOf(r)) \/ Closed(mem)
            BY <1>1, <3>1, PassDone
        <3> QED
            BY <3>2 DEF r
    <2> DEFINE p == run'
    <2>2. \/ run.type < slab_free /\ p = Pass(run.nids, run.type + 1, FALSE, run.free)
          \/ ~(run.type < slab_free) /\ p = [run EXCEPT !.pc = "node"]
        BY <1>4, <1>8 DEF Following
    <2>3. run.type < slab_free => run.type + 1 \in Types
        BY <1>2 DEF Types, slab_free
    <2>4. ~(run.type < slab_free) => run.type = 2
        BY <1>2 DEF Types, slab_free
    <2> HIDE DEF p
    <2>5. /\ p.nids = run.nids /\ p # NoRun
          /\ \/ p.type = run.type + 1 /\ p.pc # "node" /\ p.rev = FALSE /\ run.type + 1 \in Types
             \/ /\ p.type = run.type /\ run.type = 2 /\ p.pc = "node" /\ p.rev = run.rev
                /\ p.pending = run.pending
        <3>1. CASE run.type < slab_free /\ p = Pass(run.nids, run.type + 1, FALSE, run.free)
            <4>1. /\ p.nids = run.nids /\ p # NoRun /\ p.type = run.type + 1 /\ p.rev = FALSE
                  /\ p.pc = IF p.at = NULL THEN "null" ELSE "walk"
                <5>1. FALSE \in BOOLEAN /\ run.type + 1 \in Types
                    BY <2>3, <3>1
                <5>2. FreshRun(mem, p, run.nids, run.type + 1, FALSE)
                    BY <1>2, <3>1, <5>1, PassFields
                <5> QED
                    BY <5>2 DEF FreshRun
            <4> QED
                BY <2>3, <3>1, <4>1
        <3>2. CASE ~(run.type < slab_free) /\ p = [run EXCEPT !.pc = "node"]
            BY <1>1, <2>4, <3>2 DEF RunFields, NoRun
        <3> QED
            BY <2>2, <3>1, <3>2
    <2>6. ASSUME NEW x \in Heads PROVE (Past(run, x) => Past(p, x)) /\ (Past(p, x) => Past(run, x) \/ x = h)
        <3>1. x = <<x[1], x[2]>> /\ x[2] \in 0..2 /\ run.type \in 0..2
            BY <1>2 DEF Heads, Types
        <3>2. x[1] = Head(run.nids) /\ x[2] = run.type => x = h
            BY <1>3, <3>1
        <3> QED
            BY <1>1, <1>3, <2>5, <3>1, <3>2 DEF Past
    <2>7. Past(p, h)
        BY <1>2, <1>3, <2>5 DEF Past, Types
    <2>8. ASSUME NEW s \in Slabs PROVE VisitedSlab(mem, p, checks', errors', s)
        <3>1. s \in Places /\ HomeOf(mem, s) \in Heads
            BY <1>1 DEF RingsOK, RingOK, Places
        <3>2. Past(p, HomeOf(mem, s)) => Found(mem, checks', errors', s) \/ Closed(mem)
            BY <1>5, <1>6, <2>1, <2>6, <3>1 DEF VisitedSlab, AllFound
        <3>3. \A x \in Heads : \A rev : Had(run, x, rev, s) => Had(p, x, rev, s)
            BY <2>6, <2>7 DEF Had
        <3>4. HadFirst(mem, run, s) => HadFirst(mem, p, s)
            BY <3>1, <3>3 DEF HadFirst
        <3>5. HadSecond(mem, run, s) => HadSecond(mem, p, s)
            <4> SUFFICES ASSUME HadSecond(mem, run, s) PROVE HadSecond(mem, p, s)
                OBVIOUS
            <4>1. PICK rev \in BOOLEAN : /\ Second(mem, rev, s)
                                         /\ Had(run, HomeOf(mem, mem.fault[2]), rev, s)
                BY DEF HadSecond
            <4>2. mem.fault[2] \in Places
                BY <1>1, <4>1 DEF Second, RingsOK, LinksOK
            <4>3. HomeOf(mem, mem.fault[2]) \in Heads
                BY <1>1, <4>2 DEF RingsOK, RingOK
            <4> QED
                BY <3>3, <4>1, <4>3 DEF HadSecond
        <3>6. checks[s] \in Nat /\ checks'[s] = checks[s] /\ checks[s] <= Most(mem, run, s)
            BY <1>6 DEF VisitedSlab
        <3>7. checks'[s] <= Most(mem, p, s)
            BY <3>4, <3>5, <3>6 DEF Most
        <3> QED
            BY <3>2, <3>7 DEF VisitedSlab
    <2>9. \A s \in Slabs : VisitedSlab(mem, run', checks', errors', s)
        BY <2>8 DEF p
    <2>12. Reported(mem, p, errors')
        <3> DEFINE H == HomeOf(mem, mem.fault[2])
        <3> SUFFICES ASSUME Notable(mem), Behind(p, H) PROVE "list" \in errors'
            BY DEF Reported
        <3>1. H \in Heads
            BY <1>1, FaultHome
        <3> HIDE DEF H
        <3>2. Past(p, H)
            BY <1>3, <2>5, <3>1 DEF Behind, Past, HeadOf
        <3>3. Behind(run, H) => "list" \in errors'
            BY <1>0, <1>4 DEF Reported, H
        <3>4. CASE H = h /\ ~failed /\ run.rev = FALSE
            <4> DEFINE r == run
            <4>1. /\ PassInv(mem, r, checks, errors) /\ r.rev = FALSE /\ r.pc = "walk"
                  /\ r.at = HeadOf(r) /\ ~r.pending /\ HomeOf(mem, mem.fault[2]) = HeadOf(r)
                BY <1>1, <1>3, <3>4 DEF H
            <4> HIDE DEF r
            <4> QED
                BY <1>1, <4>1, PassNotices
        <3>5. CASE H = h /\ run.rev = TRUE
            BY <3>3, <3>5 DEF Behind
        <3> QED
            BY <1>0, <1>4, <2>6, <3>1, <3>2, <3>3, <3>4, <3>5 DEF Behind
    <2>10. CASE run.type < slab_free
        <3>1. run' = Pass(run.nids, run.type + 1, FALSE, run.free) /\ Reported(mem, run', errors')
            BY <2>2, <2>10, <2>12 DEF p
        <3> QED
            BY <1>1, <1>2, <1>4, <2>3, <2>9, <2>10, <3>1, VisitFresh
    <2>11. CASE ~(run.type < slab_free)
        <3>1. p.pc = "node" /\ RunShape(p)
            <4>1. run.type + 1 \notin Types
                BY <2>4, <2>11 DEF Types
            <4> QED
                BY <1>4, <2>5, <4>1 DEF RunShape
        <3> QED
            BY <1>1, <2>9, <2>12, <3>1 DEF VisitInv, p
    <2> QED
        BY <2>10, <2>11
<1> QED
    BY <1>4, <1>7, <1>8

\* The nodes after the first one.
LEMMA TailOf ==
    ASSUME NEW q \in Seq(Nodes), q # <<>>, Len(q) # 1, Apart(q)
    PROVE  /\ Tail(q) \in Seq(Nodes) /\ Tail(q) # <<>> /\ Apart(Tail(q))
           /\ \A n : n \in Range(Tail(q)) <=> n \in Range(q) /\ n # Head(q)
<1> DEFINE t == Tail(q)
<1>1. t \in Seq(Nodes) /\ Len(t) = Len(q) - 1 /\ Len(q) \in Nat \ {0, 1}
    BY HeadTailProperties
<1>2. t # <<>>
    <2>1. Len(<<>>) = 0 /\ Len(t) # 0
        BY <1>1
    <2> QED
        BY <2>1
<1>3. /\ \A i \in DOMAIN t : i + 1 \in DOMAIN q /\ t[i] = q[i + 1]
      /\ \A i \in DOMAIN q : i # 1 => i - 1 \in DOMAIN t /\ t[i - 1] = q[i]
      /\ Head(q) = q[1] /\ 1 \in DOMAIN q /\ DOMAIN t \subseteq Nat \ {0}
    <2>1. DOMAIN t = 1..(Len(q) - 1) /\ DOMAIN q = 1..Len(q)
        BY <1>1
    <2>2. \A i \in 1..(Len(q) - 1) : t[i] = q[i + 1]
        BY <1>1
    <2> HIDE DEF t
    <2>3. \A i \in 1..Len(q) : i # 1 => i - 1 \in 1..(Len(q) - 1) /\ (i - 1) + 1 = i
        BY <1>1
    <2>4. Head(q) = q[1]
        OBVIOUS
    <2> QED
        BY <1>1, <2>1, <2>2, <2>3, <2>4
<1> HIDE DEF t
<1>4. Apart(t)
    <2> SUFFICES ASSUME NEW i \in DOMAIN t, NEW j \in DOMAIN t, t[i] = t[j] PROVE i = j
        BY DEF Apart
    <2>1. i + 1 = j + 1
        BY <1>3 DEF Apart
    <2> QED
        BY <1>3, <2>1
<1>5. \A n : n \in Range(t) <=> n \in Range(q) /\ n # Head(q)
    <2>1. ASSUME NEW n \in Range(t) PROVE n \in Range(q) /\ n # Head(q)
        <3>1. PICK i \in DOMAIN t : n = t[i]
            BY DEF Range
        <3>2. i + 1 \in DOMAIN q /\ n = q[i + 1] /\ i + 1 # 1
            BY <1>3, <3>1
        <3> QED
            BY <1>3, <3>2 DEF Apart, Range
    <2>2. ASSUME NEW n \in Range(q), n # Head(q) PROVE n \in Range(t)
        <3>1. PICK i \in DOMAIN q : n = q[i]
            BY DEF Range
        <3> QED
            BY <1>3, <2>2, <3>1 DEF Range
    <2> QED
        BY <2>1, <2>2
<1> QED
    BY <1>1, <1>2, <1>4, <1>5 DEF t

LEMMA VisitEndNode ==
    ASSUME CountInv, VisitInv, EndNode
    PROVE  VisitInv'
<1>1. /\ mem' = mem /\ checks' = checks /\ errors \subseteq errors'
      /\ run # NoRun /\ run.pc = "node" /\ RunOK(run) /\ RunShape(run) /\ RingsOK(mem)
    BY DEF EndNode, Raise, CountInv, VisitInv
<1>2. /\ Head(run.nids) \in Range(run.nids) /\ run.nids \in Seq(Nodes) /\ run.nids # <<>>
      /\ Apart(run.nids)
    BY <1>1, HeadIn DEF RunShape
<1>3. \/ run' = NoRun /\ outcome' = "raised"
      \/ run' = NoRun /\ outcome' = "checked" /\ Len(run.nids) = 1
      \/ run' = Pass(Tail(run.nids), slab_partial, FALSE, 0) /\ Len(run.nids) # 1
    BY DEF EndNode, Raise
<1>4. \A s \in Slabs : /\ checks[s] \in Nat /\ VisitedSlab(mem, run, checks, errors, s)
                       /\ Found(mem, checks, errors, s) => Found(mem, checks', errors', s)
    BY <1>1 DEF VisitInv, CountInv, Found
<1>5. \A x : Past(run, x) <=> x[1] \notin Range(run.nids) \/ x[1] = Head(run.nids)
    BY <1>1 DEF Past
<1>6. \A x, rev, s : Had(run, x, rev, s) => Past(run, x)
    BY <1>1 DEF Had, Past, HeadOf
<1> DEFINE p == run'
<1> HIDE DEF p
<1>7. ASSUME \A x : Past(p, x) <=> Past(run, x), NEW s \in Slabs
      PROVE  VisitedSlab(mem, p, checks', errors', s)
    <2>1. \A x, rev : Had(run, x, rev, s) => Had(p, x, rev, s)
        BY <1>6, <1>7 DEF Had
    <2>2. Most(mem, run, s) <= Most(mem, p, s) /\ Most(mem, run, s) \in 0..2
          /\ Most(mem, p, s) \in 0..2
        BY <2>1, MostGrows
    <2>3. checks[s] <= Most(mem, run, s)
        BY <1>4 DEF VisitedSlab
    <2>4. checks'[s] <= Most(mem, p, s)
        BY <1>1, <1>4, <2>2, <2>3
    <2> QED
        BY <1>4, <1>7, <2>4 DEF VisitedSlab
<1>8. CASE run' = NoRun /\ outcome' = "raised"
    BY <1>1, <1>8 DEF VisitInv
<1>9. CASE run' = NoRun /\ outcome' = "checked" /\ Len(run.nids) = 1
    <2>1. \A x : Past(run, x)
        <3>1. DOMAIN run.nids = {1} /\ Head(run.nids) = run.nids[1]
            BY <1>2, <1>9
        <3>2. Range(run.nids) = {Head(run.nids)}
            BY <3>1 DEF Range
        <3> QED
            BY <1>5, <3>2
    <2>2. \A x : Past(p, x)
        BY <1>9 DEF Past, p
    <2>3. \A s \in Slabs : VisitedSlab(mem, p, checks', errors', s)
        BY <1>7, <2>1, <2>2
    <2>4. Reported(mem, p, errors')
        BY <1>1, <2>1 DEF VisitInv, Reported, Behind
    <2> QED
        BY <1>1, <1>9, <2>3, <2>4 DEF VisitInv, p
<1>10. CASE run' = Pass(Tail(run.nids), slab_partial, FALSE, 0) /\ Len(run.nids) # 1
    <2> DEFINE t == Tail(run.nids)
    <2>1. /\ t \in Seq(Nodes) /\ t # <<>> /\ Apart(t)
          /\ \A n : n \in Range(t) <=> n \in Range(run.nids) /\ n # Head(run.nids)
        BY <1>2, <1>10, TailOf
    <2> HIDE DEF t
    <2>6. slab_partial \in Types /\ FALSE \in BOOLEAN /\ slab_partial = 0
        BY DEF slab_partial, Types
    <2>7. p = Pass(t, slab_partial, FALSE, 0)
        BY <1>10 DEF p, t
    <2>8. FreshRun(mem, p, t, slab_partial, FALSE)
        BY <2>1, <2>6, <2>7, PassFields
    <2>9. /\ p # NoRun /\ p.nids = t /\ p.type = 0 /\ p.pc # "node"
        BY <2>6, <2>8 DEF FreshRun
    <2>12. \A x \in Heads : Past(p, x) <=> Past(run, x)
        <3>1. \A x \in Heads : x[2] \in 0..2
            BY DEF Heads, Types
        <3>2. \A x \in Heads : Past(p, x) <=> x[1] \notin Range(t)
            BY <2>9, <3>1 DEF Past
        <3> QED
            BY <1>5, <2>1, <3>2
    <2>13. Reported(mem, p, errors')
        <3> SUFFICES ASSUME Notable(mem), Behind(p, HomeOf(mem, mem.fault[2]))
                     PROVE  "list" \in errors'
            BY DEF Reported
        <3>1. HomeOf(mem, mem.fault[2]) \in Heads /\ p.rev = FALSE
            BY <1>1, <2>8, FaultHome DEF FreshRun
        <3> QED
            BY <1>1, <2>12, <3>1 DEF VisitInv, Reported, Behind
    <2>10. ASSUME NEW s \in Slabs PROVE VisitedSlab(mem, p, checks', errors', s)
        <3>1. \A x \in Heads : Past(p, x) <=> Past(run, x)
            BY <2>12
        <3>2. HomeOf(mem, s) \in Heads
            BY <1>1 DEF RingsOK, RingOK, Places
        <3>3. \A x \in Heads : \A rev : Had(run, x, rev, s) => Had(p, x, rev, s)
            BY <1>6, <3>1 DEF Had
        <3>4. HadFirst(mem, run, s) => HadFirst(mem, p, s)
            BY <3>2, <3>3 DEF HadFirst
        <3>5. HadSecond(mem, run, s) => HadSecond(mem, p, s)
            <4> SUFFICES ASSUME HadSecond(mem, run, s) PROVE HadSecond(mem, p, s)
                OBVIOUS
            <4>1. PICK rev \in BOOLEAN : /\ Second(mem, rev, s)
                                         /\ Had(run, HomeOf(mem, mem.fault[2]), rev, s)
                BY DEF HadSecond
            <4>2. mem.fault[2] \in Places
                BY <1>1, <4>1 DEF Second, RingsOK, LinksOK
            <4>3. HomeOf(mem, mem.fault[2]) \in Heads
                BY <1>1, <4>2 DEF RingsOK, RingOK
            <4> QED
                BY <3>3, <4>1, <4>3 DEF HadSecond
        <3>6. checks[s] \in Nat /\ checks'[s] = checks[s] /\ checks[s] <= Most(mem, run, s)
            BY <1>1, <1>4 DEF VisitedSlab
        <3>7. checks'[s] <= Most(mem, p, s)
            BY <3>4, <3>5, <3>6 DEF Most
        <3> QED
            BY <1>4, <3>1, <3>2, <3>7 DEF VisitedSlab
    <2>11. /\ run' = Pass(t, slab_partial, FALSE, 0) /\ Reported(mem, run', errors')
           /\ \A s \in Slabs : VisitedSlab(mem, run', checks', errors', s)
        BY <2>7, <2>10, <2>13 DEF p
    <2> QED
        BY <1>1, <2>1, <2>6, <2>11, VisitFresh
<1> QED
    BY <1>3, <1>8, <1>9, <1>10

LEMMA VisitCheckAll ==
    ASSUME CountInv, VisitInv, CheckAll
    PROVE  VisitInv'
<1> DEFINE q == InOrder(Nodes)
           p == run'
<1>1. /\ mem' = mem /\ checks' = [s \in Slabs |-> 0]
      /\ run' = Pass(q, slab_partial, FALSE, 0) /\ RingsOK(mem)
    BY DEF CheckAll, VisitInv
<1>2. /\ q \in Seq(Nodes) /\ q # <<>> /\ Apart(q) /\ Nodes \subseteq Range(q)
    <2>1. Nodes \in SUBSET Nat /\ IsFiniteSet(Nodes) /\ Nodes # {}
        BY SlabAssumption
    <2>2. /\ q \in Seq(Nodes)
          /\ \A i, j \in 1..Len(q) : q[i] = q[j] => i = j
          /\ \A x \in Nodes : \E i \in 1..Len(q) : q[i] = x
        BY <2>1, OrderListed
    <2> HIDE DEF q
    <2>3. DOMAIN q = 1..Len(q)
        BY <2>2
    <2>4. Nodes \subseteq Range(q)
        BY <2>2, <2>3 DEF Range
    <2>5. q # <<>>
        <3>1. \E i \in 1..Len(q) : TRUE
            BY <2>1, <2>2
        <3>2. Len(<<>>) = 0 /\ 1..0 = {}
            OBVIOUS
        <3> QED
            BY <3>1, <3>2
    <2> QED
        BY <2>2, <2>3, <2>4, <2>5 DEF Apart
<1>3. slab_partial \in Types /\ FALSE \in BOOLEAN /\ slab_partial = 0
    BY DEF slab_partial, Types
<1>4. p = Pass(q, slab_partial, FALSE, 0)
    BY <1>1
<1> HIDE DEF p, q
<1>5. FreshRun(mem, p, q, slab_partial, FALSE)
    BY <1>2, <1>3, <1>4, PassFields
<1>6. p # NoRun /\ p.nids = q /\ p.type = 0 /\ p.pc # "node"
    BY <1>3, <1>5 DEF FreshRun
<1>9. \A x \in Heads : ~Past(p, x)
    <2>1. \A x \in Heads : x[1] \in Nodes /\ x[2] \in 0..2
        BY DEF Heads, Types
    <2> QED
        BY <1>2, <1>6, <2>1 DEF Past
<1>10. Reported(mem, p, errors')
    <2> SUFFICES ASSUME Notable(mem) PROVE ~Behind(p, HomeOf(mem, mem.fault[2]))
        BY DEF Reported
    <2>1. HomeOf(mem, mem.fault[2]) \in Heads /\ p.rev = FALSE
        BY <1>1, <1>5, FaultHome DEF FreshRun
    <2> QED
        BY <1>9, <2>1 DEF Behind
<1>7. ASSUME NEW s \in Slabs PROVE VisitedSlab(mem, p, checks', errors', s)
    <2>1. HomeOf(mem, s) \in Heads
        BY <1>1 DEF RingsOK, RingOK, Places
    <2>2. ~Past(p, HomeOf(mem, s))
        BY <1>9, <2>1
    <2>3. checks'[s] = 0 /\ Most(mem, p, s) \in Nat
        BY <1>1 DEF Most
    <2> QED
        BY <2>2, <2>3 DEF VisitedSlab
<1>8. /\ run' = Pass(q, slab_partial, FALSE, 0) /\ Reported(mem, run', errors')
      /\ \A s \in Slabs : VisitedSlab(mem, run', checks', errors', s)
    BY <1>4, <1>7, <1>10 DEF p
<1> QED
    BY <1>1, <1>2, <1>3, <1>8, VisitFresh

-----------------------------------------------------------------------------
(* The lists of the dumps.                                                   *)

SameLinks(y, m) == y.next = m.next /\ y.prev = m.prev
OneLink(y, m) ==
    \E p \in Places, q \in Places \cup {NULL} :
        /\ y.fault = <<"link", p>>
        /\ \/ y.prev = m.prev /\ y.next = [m.next EXCEPT ![p] = q] /\ q # m.next[p]
           \/ y.next = m.next /\ y.prev = [m.prev EXCEPT ![p] = q] /\ q # m.prev[p]
Relinked(y, m) ==
    /\ SameWorld(y, m) /\ (y.fault[1] # "hole" => y.absentBufctl = m.absentBufctl)
    /\ (SameLinks(y, m) /\ y.fault[1] # "link") \/ OneLink(y, m)

LEMMA ObjectRelinked ==
    ASSUME NEW m, DOMAIN m = Fields, NEW y \in WithObjectFault(m)
    PROVE  Relinked(y, m)
<1>1. ASSUME NEW x, y = [m EXCEPT !.ac[x[1]] = Append(@, x[2]), !.fault = <<"cached", x[2]>>]
      PROVE  Relinked(y, m)
    <2>1. /\ SameWorld(y, m) /\ y.absentBufctl = m.absentBufctl /\ SameLinks(y, m)
          /\ y.fault = <<"cached", x[2]>>
        BY <1>1 DEF Fields, SameWorld, SameLinks
    <2> QED
        BY <2>1 DEF Relinked
<1>2. ASSUME NEW x, y = [m EXCEPT !.ac[x[1]] = Append(@, x[2]), !.fault = <<"twice", x[2]>>]
      PROVE  Relinked(y, m)
    <2>1. /\ SameWorld(y, m) /\ y.absentBufctl = m.absentBufctl /\ SameLinks(y, m)
          /\ y.fault = <<"twice", x[2]>>
        BY <1>2 DEF Fields, SameWorld, SameLinks
    <2> QED
        BY <2>1 DEF Relinked
<1>3. ASSUME NEW x, y = [m EXCEPT !.chain[x[1]] = Append(@, x[2]), !.freelist[x[1]][NObj] = x[2],
                                  !.fault = <<"index", x[1]>>]
      PROVE  Relinked(y, m)
    <2>1. /\ y.isPage = m.isPage /\ y.nid = m.nid /\ y.obj = m.obj /\ y.list = m.list
          /\ y.absentBufctl = m.absentBufctl
        BY <1>3 DEF Fields
    <2>2. y.next = m.next /\ y.prev = m.prev /\ y.fault = <<"index", x[1]>>
        BY <1>3 DEF Fields
    <2> QED
        BY <2>1, <2>2 DEF Relinked, SameWorld, SameLinks
<1> QED
    BY <1>1, <1>2, <1>3 DEF WithObjectFault

LEMMA SlabRelinked ==
    ASSUME NEW m, DOMAIN m = Fields, NEW y \in WithSlabFault(m)
    PROVE  Relinked(y, m)
<1>1. ASSUME NEW x, y = [m EXCEPT !.inuse[x[1]] = x[2], !.fault = <<"inuse", x[1]>>]
      PROVE  Relinked(y, m)
    <2>1. /\ SameWorld(y, m) /\ y.absentBufctl = m.absentBufctl /\ SameLinks(y, m)
          /\ y.fault = <<"inuse", x[1]>>
        BY <1>1 DEF Fields, SameWorld, SameLinks
    <2> QED
        BY <2>1 DEF Relinked
<1>2. ASSUME NEW n, y = [m EXCEPT !.free_objects[n] = @ + 1, !.fault = <<"declared", n>>]
      PROVE  Relinked(y, m)
    <2>1. /\ SameWorld(y, m) /\ y.absentBufctl = m.absentBufctl /\ SameLinks(y, m)
          /\ y.fault = <<"declared", n>>
        BY <1>2 DEF Fields, SameWorld, SameLinks
    <2> QED
        BY <2>1 DEF Relinked
<1>3. ASSUME NEW x, y = [m EXCEPT !.pageNid[x[1]] = x[2], !.fault = <<"nid", x[1]>>]
      PROVE  Relinked(y, m)
    <2>1. /\ SameWorld(y, m) /\ y.absentBufctl = m.absentBufctl /\ SameLinks(y, m)
          /\ y.fault = <<"nid", x[1]>>
        BY <1>3 DEF Fields, SameWorld, SameLinks
    <2> QED
        BY <2>1 DEF Relinked
<1>4. ASSUME NEW s, y = [m EXCEPT !.slabFlag = @ \ {s}, !.fault = <<"flag", s>>]
      PROVE  Relinked(y, m)
    <2>1. /\ SameWorld(y, m) /\ y.absentBufctl = m.absentBufctl /\ SameLinks(y, m)
          /\ y.fault = <<"flag", s>>
        BY <1>4 DEF Fields, SameWorld, SameLinks
    <2> QED
        BY <2>1 DEF Relinked
<1>5. ASSUME NEW s, y = [m EXCEPT !.cachePtr = @ \ {s}, !.fault = <<"cache", s>>]
      PROVE  Relinked(y, m)
    <2>1. /\ SameWorld(y, m) /\ y.absentBufctl = m.absentBufctl /\ SameLinks(y, m)
          /\ y.fault = <<"cache", s>>
        BY <1>5 DEF Fields, SameWorld, SameLinks
    <2> QED
        BY <2>1 DEF Relinked
<1>6. ASSUME NEW x, y = [m EXCEPT !.slabPtr[x[1]] = x[2], !.fault = <<"owner", x[1]>>]
      PROVE  Relinked(y, m)
    <2>1. /\ SameWorld(y, m) /\ y.absentBufctl = m.absentBufctl /\ SameLinks(y, m)
          /\ y.fault = <<"owner", x[1]>>
        BY <1>6 DEF Fields, SameWorld, SameLinks
    <2> QED
        BY <2>1 DEF Relinked
<1> QED
    BY <1>1, <1>2, <1>3, <1>4, <1>5, <1>6 DEF WithSlabFault

LEMMA LinkRelinked ==
    ASSUME NEW m, DOMAIN m = Fields, NEW y \in WithLink(m)
    PROVE  Relinked(y, m)
<1>1. ASSUME NEW p \in Near(m), p[2] # m.next[p[1]],
             y = [m EXCEPT !.next[p[1]] = p[2], !.fault = <<"link", p[1]>>]
      PROVE  Relinked(y, m)
    <2>1. SameWorld(y, m) /\ y.absentBufctl = m.absentBufctl
        BY <1>1 DEF Fields, SameWorld
    <2>2. y.prev = m.prev /\ y.next = [m.next EXCEPT ![p[1]] = p[2]] /\ y.fault = <<"link", p[1]>>
        BY <1>1 DEF Fields
    <2>3. p[1] \in Places /\ p[2] \in Places \cup {NULL}
        BY DEF Near
    <2>4. OneLink(y, m)
        BY <1>1, <2>2, <2>3 DEF OneLink
    <2> QED
        BY <2>1, <2>4 DEF Relinked
<1>2. ASSUME NEW p \in Near(m), p[2] # m.prev[p[1]],
             y = [m EXCEPT !.prev[p[1]] = p[2], !.fault = <<"link", p[1]>>]
      PROVE  Relinked(y, m)
    <2>1. SameWorld(y, m) /\ y.absentBufctl = m.absentBufctl
        BY <1>2 DEF Fields, SameWorld
    <2>2. y.next = m.next /\ y.prev = [m.prev EXCEPT ![p[1]] = p[2]] /\ y.fault = <<"link", p[1]>>
        BY <1>2 DEF Fields
    <2>3. p[1] \in Places /\ p[2] \in Places \cup {NULL}
        BY DEF Near
    <2>4. OneLink(y, m)
        BY <1>2, <2>2, <2>3 DEF OneLink
    <2> QED
        BY <2>1, <2>4 DEF Relinked
<1> QED
    BY <1>1, <1>2 DEF WithLink

LEMMA HoleRelinked ==
    ASSUME NEW m, DOMAIN m = Fields, NEW y \in WithHole(m)
    PROVE  Relinked(y, m)
<1>1. ASSUME NEW s, y = [m EXCEPT !.absentPages = {s}, !.fault = <<"hole", s>>]
      PROVE  Relinked(y, m)
    <2>1. SameWorld(y, m) /\ SameLinks(y, m) /\ y.fault = <<"hole", s>>
        BY <1>1 DEF Fields, SameWorld, SameLinks
    <2> QED
        BY <2>1 DEF Relinked
<1>2. ASSUME NEW s, y = [m EXCEPT !.absentBufctl = {s}, !.fault = <<"hole", s>>]
      PROVE  Relinked(y, m)
    <2>1. SameWorld(y, m) /\ SameLinks(y, m) /\ y.fault = <<"hole", s>>
        BY <1>2 DEF Fields, SameWorld, SameLinks
    <2> QED
        BY <2>1 DEF Relinked
<1> QED
    BY <1>1, <1>2 DEF WithHole

LEMMA OffRelinked ==
    ASSUME NEW m, DOMAIN m = Fields, m.fault[1] = "none", NEW y \in WithOff(m)
    PROVE  Relinked(y, m)
<1>1. CASE y = [m EXCEPT !.off_slab = TRUE]
    <2>1. /\ SameWorld(y, m) /\ SameLinks(y, m) /\ y.absentBufctl = m.absentBufctl
          /\ y.fault = m.fault
        BY <1>1 DEF Fields, SameWorld, SameLinks
    <2> QED
        BY <2>1 DEF Relinked
<1>2. ASSUME NEW x, y = [m EXCEPT !.off_slab = TRUE, !.home[x[1]] = x[2],
                                  !.fault = <<"off", x[1]>>]
      PROVE  Relinked(y, m)
    <2>1. /\ SameWorld(y, m) /\ SameLinks(y, m) /\ y.absentBufctl = m.absentBufctl
          /\ y.fault = <<"off", x[1]>>
        BY <1>2 DEF Fields, SameWorld, SameLinks
    <2> QED
        BY <2>1 DEF Relinked
<1> QED
    BY <1>1, <1>2 DEF WithOff

LEMMA VariantRelinked ==
    ASSUME NEW m, KernelDump(m), NEW flaw \in Flaws, NEW y \in Variants(m, flaw)
    PROVE  Relinked(y, m)
<1>0. DOMAIN m = Fields /\ m.fault[1] = "none"
    BY DEF KernelDump
<1>1. flaw \in {"none", "object", "slab", "link", "hole", "off"}
    BY SlabAssumption
<1>2. CASE flaw = "none"
    BY <1>0, <1>2 DEF Variants, Relinked, SameWorld, SameLinks
<1>3. CASE flaw = "object"
    BY <1>0, <1>3, ObjectRelinked DEF Variants
<1>4. CASE flaw = "slab"
    BY <1>0, <1>4, SlabRelinked DEF Variants
<1>5. CASE flaw = "link"
    BY <1>0, <1>5, LinkRelinked DEF Variants
<1>6. CASE flaw = "hole"
    BY <1>0, <1>6, HoleRelinked DEF Variants
<1>7. CASE flaw = "off"
    BY <1>0, <1>7, OffRelinked DEF Variants
<1> QED
    BY <1>1, <1>2, <1>3, <1>4, <1>5, <1>6, <1>7

\* The dump has the rings of the kernel, and at most the one link wrong.
\* The lists are kept beside their links, and the fault of a link is that it is wrong.
LinkFault(m) == ListsExact(m) /\ (m.fault[1] = "link" => Wrong(m, FALSE) \/ Wrong(m, TRUE))

LEMMA RelinkedRings ==
    ASSUME NEW m, ListsExact(m), NearLinks(m), m.absentBufctl = {}, NEW y, Relinked(y, m),
           \A rev \in BOOLEAN, x \in Places : LinkIn(m, rev, x) = Right(m, rev, x)
    PROVE  RingsOK(y) /\ LinkFault(y)
<1>1. y.nid = m.nid /\ y.obj = m.obj /\ y.list = m.list
    BY DEF Relinked, SameWorld
<1>2. \A x : HomeOf(y, x) = HomeOf(m, x)
    BY <1>1 DEF HomeOf
<1>3. ListsExact(y)
    BY <1>1, <1>2 DEF ListsExact
<1>4. \A rev, x : Right(y, rev, x) = Right(m, rev, x)
    <2>1. \A h, k : Nth(y, h, k) = Nth(m, h, k)
        BY <1>1 DEF Nth
    <2>2. \A x : Size(y, x) = Size(m, x)
        BY <1>1, <1>2 DEF Size
    <2>3. ASSUME NEW x PROVE Pos(y, x) = Pos(m, x)
        <3>1. y.list[HomeOf(y, x)] = m.list[HomeOf(m, x)]
            BY <1>1, <1>2
        <3> QED
            BY <3>1 DEF Pos
    <2> QED
        BY <1>2, <2>1, <2>2, <2>3 DEF Right
<1>5. RingOK(y) /\ (y.fault[1] # "hole" => y.absentBufctl = {})
    BY <1>3, RingFromLists DEF Relinked
<1>6. \A rev \in BOOLEAN, x \in Places : Right(m, rev, x) \in Places
    BY RingFromLists DEF RingOK
<1>7. CASE SameLinks(y, m) /\ y.fault[1] # "link"
    <2>1. \A rev, x : LinkIn(y, rev, x) = LinkIn(m, rev, x)
        BY <1>7 DEF LinkIn, SameLinks
    <2> QED
        <3>1. \A rev \in BOOLEAN, x \in Places :
                  LinkIn(y, rev, x) = Right(y, rev, x) /\ LinkIn(y, rev, x) \in Places
            BY <1>4, <1>6, <2>1
        <3>2. LinksOK(y)
            BY <1>7, <3>1 DEF LinksOK, Wrong
        <3> QED
            BY <1>3, <1>5, <1>7, <3>2 DEF RingsOK, LinkFault
<1>8. CASE OneLink(y, m)
    <2>1. PICK p \in Places, q \in Places \cup {NULL} :
              /\ y.fault = <<"link", p>>
              /\ \/ y.prev = m.prev /\ y.next = [m.next EXCEPT ![p] = q] /\ q # m.next[p]
                 \/ y.next = m.next /\ y.prev = [m.prev EXCEPT ![p] = q] /\ q # m.prev[p]
        BY <1>8 DEF OneLink
    <2>2. y.fault[1] = "link" /\ y.fault[2] = p
        BY <2>1
    <2>3. m.next \in [Places -> Places \cup {NULL}] /\ m.prev \in [Places -> Places \cup {NULL}]
        BY DEF NearLinks
    <2>4. \A x \in Places : m.next[x] = Right(y, FALSE, x) /\ m.prev[x] = Right(y, TRUE, x)
        <3>1. \A x \in Places : m.next[x] = LinkIn(m, FALSE, x) /\ m.prev[x] = LinkIn(m, TRUE, x)
            BY DEF LinkIn
        <3> QED
            BY <1>4, <3>1
    <2>5. \A x \in Places : /\ y.next[x] \in Places \cup {NULL} /\ y.prev[x] \in Places \cup {NULL}
                            /\ x # p => y.next[x] = m.next[x] /\ y.prev[x] = m.prev[x]
        BY <2>1, <2>3
    <2>6. y.next[p] = m.next[p] \/ y.prev[p] = m.prev[p]
        BY <2>1
    <2>7. \A x : LinkIn(y, FALSE, x) = y.next[x] /\ LinkIn(y, TRUE, x) = y.prev[x]
        BY DEF LinkIn
    <2>8. ~(Wrong(y, TRUE) /\ Wrong(y, FALSE))
        BY <2>2, <2>4, <2>6, <2>7 DEF Wrong
    <2>9. ASSUME NEW rev \in BOOLEAN, NEW x \in Places
          PROVE  /\ LinkIn(y, rev, x) \in Places \cup {NULL}
                 /\ LinkIn(y, rev, x) = Right(y, rev, x) \/ x = p
        <3>1. rev = TRUE \/ rev = FALSE
            OBVIOUS
        <3> QED
            BY <2>4, <2>5, <2>7, <3>1
    <2>10. Wrong(y, FALSE) \/ Wrong(y, TRUE)
        <3>1. y.next[p] # m.next[p] \/ y.prev[p] # m.prev[p]
            BY <2>1, <2>3
        <3> QED
            BY <2>2, <2>4, <2>7, <3>1 DEF Wrong
    <2> QED
        BY <1>3, <1>5, <2>2, <2>8, <2>9, <2>10 DEF RingsOK, LinksOK, LinkFault
<1> QED
    BY <1>7, <1>8 DEF Relinked

LEMMA InitRings ==
    ASSUME Init
    PROVE  RingsOK(mem) /\ LinkFault(mem)
<1>1. PICK w \in Worlds, isPage \in BOOLEAN, flaw \in Flaws :
          mem \in Variants(Memory(w[1], w[2], isPage), flaw)
    BY DEF Init
<1>2. w[1] \in [Slabs -> Nodes] /\ w[2] \in [Objs -> ObjStates]
    BY DEF Worlds, ObjStates
<1> DEFINE m == Memory(w[1], w[2], isPage)
<1>3. KernelDump(m)
    BY <1>2, MemoryShape
<1>4. /\ ListsExact(m)
      /\ \A rev \in BOOLEAN, x \in Places : LinkIn(m, rev, x) = Right(m, rev, x)
    BY <1>2, MemoryRings
<1>5. m.absentBufctl = {}
    BY DEF Memory
<1> HIDE DEF m
<1>6. Relinked(mem, m)
    BY <1>1, <1>3, VariantRelinked DEF m
<1> QED
    BY <1>3, <1>4, <1>5, <1>6, RelinkedRings DEF KernelDump

LEMMA VisitStep ==
    ASSUME CountInv, VisitInv, [Next]_vars
    PROVE  VisitInv'
<1>1. CASE CheckAll
    BY <1>1, VisitCheckAll
<1>2. CASE \E o \in Objs : Ask(o)
    <2>1. PICK o \in Objs : Ask(o)
        BY <1>2
    <2>2. mem' = mem /\ run = NoRun /\ run' = run /\ outcome' # "checked"
        BY <2>1 DEF Ask
    <2> QED
        BY <2>2 DEF VisitInv
<1>3. CASE GetAllocatedObjects
    <2>1. mem' = mem /\ run = NoRun /\ run' = run /\ outcome' # "checked"
        BY <1>3 DEF GetAllocatedObjects
    <2> QED
        BY <2>1 DEF VisitInv
<1>4. CASE WalkEnds
    <2>1. /\ run # NoRun /\ run.pc = "walk" /\ run.at = head /\ EndPass(run.pending)
          /\ mem' = mem /\ checks' = checks /\ outcome' = outcome
        BY <1>4 DEF WalkEnds
    <2>2. run.pending \in BOOLEAN
        BY <2>1 DEF VisitInv, RunShape
    <2> QED
        BY <2>1, <2>2, VisitEnd
<1>5. CASE WalkFails
    <2>1. /\ run # NoRun /\ run.pc = "walk" /\ run.at \in run.seen /\ EndPass(TRUE)
          /\ mem' = mem /\ checks' = checks /\ outcome' = outcome
        BY <1>5 DEF WalkFails
    <2> QED
        BY <2>1, VisitEnd
<1>6. CASE WalkNull
    <2>1. /\ run # NoRun /\ run.pc = "null" /\ EndPass(TRUE)
          /\ mem' = mem /\ checks' = checks /\ outcome' = outcome
        BY <1>6 DEF WalkNull
    <2> QED
        BY <2>1, VisitEnd
<1>7. CASE WalkRaises
    <2>1. mem' = mem /\ run' = NoRun /\ outcome' = "raised"
        BY <1>7 DEF WalkRaises, Raise
    <2> QED
        BY <2>1 DEF VisitInv
<1> DEFINE e == Entered
<1>8. Here => /\ DOMAIN e = RunFields /\ e.nids = run.nids /\ e.type = run.type /\ e.rev = run.rev
              /\ e.pc = run.pc /\ e.seen = run.seen \cup {run.at}
              /\ e.pending = (run.pending \/ Back(run.at) # run.last)
    <2> SUFFICES ASSUME Here
                 PROVE  /\ DOMAIN e = RunFields /\ e.nids = run.nids /\ e.type = run.type
                        /\ e.rev = run.rev /\ e.pc = run.pc /\ e.seen = run.seen \cup {run.at}
                        /\ e.pending = (run.pending \/ Back(run.at) # run.last)
        OBVIOUS
    <2>1. DOMAIN run = RunFields
        BY DEF Here, CountInv, RunOK
    <2> DEFINE S == run.seen \cup {run.at}
               b == run.pending \/ Back(run.at) # run.last
    <2>2. e = [run EXCEPT !.seen = S, !.pending = b]
        BY DEF Entered
    <2> HIDE DEF e, S, b
    <2>3. /\ DOMAIN e = RunFields /\ e.nids = run.nids /\ e.type = run.type
          /\ e.rev = run.rev /\ e.pc = run.pc /\ e.seen = S /\ e.pending = b
        BY <2>1, <2>2 DEF RunFields
    <2> QED
        BY <2>3 DEF S, b
<1>9. CASE SkipHead
    <2>1. /\ Here /\ run.at \in Heads /\ run' = GoOn(e) /\ errors \subseteq errors'
          /\ mem' = mem /\ checks' = checks /\ outcome' = outcome
        BY <1>9 DEF SkipHead
    <2>2. run.at \notin Slabs
        BY <2>1, PlacesAssumption
    <2> HIDE DEF e
    <2> QED
        BY <1>8, <2>1, <2>2, VisitOn
<1>10. CASE CheckCannot
    <2>1. /\ Here /\ run.at \in Slabs /\ run' = GoOn(e) /\ errors \subseteq errors'
          /\ errors' # {} /\ mem' = mem /\ checks' = checks /\ outcome' = outcome
          /\ PopulateRaises(run.at) \/ GetRaises
        BY <1>10 DEF CheckCannot
    <2>2. mem.fault[1] = "hole"
        <3> SUFFICES ASSUME mem.fault[1] # "hole" PROVE FALSE
            OBVIOUS
        <3>1. mem.absentBufctl = {} /\ mem.absentPages = {}
            BY DEF VisitInv, RingsOK, CountInv, CachesInv, DumpOK
        <3> QED
            BY <2>1, <3>1 DEF PopulateRaises, GetRaises, FillRaises, Unreadable
    <2> HIDE DEF e
    <2> QED
        BY <1>8, <2>1, <2>2, VisitOn
<1>11. CASE CheckSlab
    <2> DEFINE s == run.at
               misplaced == Misplaced(s, run.type)
               bad == CheckErrors(s, head[1]) # {} \/ misplaced
               fr == Entered.free + Cardinality(FreeOf(s))
               ok == IF bad THEN 0 ELSE Entered.ok + 1
               mis == IF misplaced THEN Entered.misplaced + 1 ELSE 0
               g == [e EXCEPT !.free = fr, !.ok = ok, !.misplaced = mis]
    <2>1. /\ Here /\ s \in Slabs /\ run' = GoOn(g)
          /\ mem' = mem /\ checks' = [checks EXCEPT ![s] = @ + 1] /\ outcome' = outcome
        BY <1>11 DEF CheckSlab
    <2>2. errors \subseteq errors'
        BY <1>11 DEF CheckSlab
    <2> HIDE DEF e, fr, ok, mis, misplaced, bad
    <2>3. /\ DOMAIN g = RunFields /\ g.nids = e.nids /\ g.type = e.type /\ g.rev = e.rev
          /\ g.pc = e.pc /\ g.seen = e.seen /\ g.pending = e.pending
        BY <1>8, <2>1 DEF RunFields
    <2> HIDE DEF g
    <2>4. /\ DOMAIN g = RunFields /\ g.nids = run.nids /\ g.type = run.type /\ g.rev = run.rev
          /\ g.pc = run.pc /\ g.seen = run.seen \cup {run.at}
          /\ g.pending = (run.pending \/ Back(run.at) # run.last)
        BY <1>8, <2>1, <2>3
    <2> QED
        BY <2>1, <2>2, <2>4, VisitOn
<1>12. CASE EndNode
    BY <1>12, VisitEndNode
<1>13. CASE UNCHANGED vars
    BY <1>13 DEF vars, VisitInv
<1> QED
    BY <1>1, <1>2, <1>3, <1>4, <1>5, <1>6, <1>7, <1>9, <1>10, <1>11, <1>12, <1>13 DEF Next, Step

(***************************************************************************)
(* check_all goes through the lists as VisitInv says, in sound lists, with *)
(* a wrong link anywhere, and whatever else is wrong with the dump.        *)
(***************************************************************************)
THEOREM VisitInvariant == Spec => [](CountInv /\ VisitInv)
<1>1. Init => VisitInv
    BY InitRings DEF Init, VisitInv
<1>2. CountInv /\ VisitInv /\ [Next]_vars => VisitInv'
    BY VisitStep
<1> QED
    BY <1>1, <1>2, CountInvariant, PTL DEF Spec

LEMMA LinkFaultStays == Spec => []LinkFault(mem)
<1>1. Init => LinkFault(mem)
    BY InitRings
<1>2. LinkFault(mem) /\ [Next]_vars => LinkFault(mem)'
    <2> SUFFICES ASSUME LinkFault(mem), [Next]_vars PROVE LinkFault(mem)'
        OBVIOUS
    <2>1. mem' = mem
        BY DEF Next, Step, vars, CheckAll, Ask, GetAllocatedObjects, WalkEnds, WalkFails, WalkRaises,
               WalkNull, SkipHead, CheckCannot, CheckSlab, EndNode
    <2>2. LinkFault(mem')
        BY <2>1
    <2> QED
        BY <2>1, <2>2 DEF LinkFault, ListsExact, HomeOf, Wrong, LinkIn, Right, Nth, Pos, Size
<1> QED
    BY <1>1, <1>2, PTL DEF Spec

\* The link that is wrong, as the properties have it.
LEMMA WhichLink ==
    ASSUME LinkFault(mem), VisitInv
    PROVE  /\ NextWrong <=> Wrong(mem, FALSE)
           /\ ClosedEarly <=> Closed(mem)
<1> DEFINE x == mem.fault[2]
<1>1. \A y : Own(y) = HomeOf(mem, y)
    BY DEF Own, HomeOf
<1>2. ASSUME mem.fault[1] = "link" PROVE Rightful(x) = Right(mem, FALSE, x)
    <2>1. x \in Places /\ ListsExact(mem)
        BY <1>2 DEF VisitInv, RingsOK, LinksOK, LinkFault
    <2> DEFINE r == <<HomeOf(mem, x)>> \o mem.list[HomeOf(mem, x)]
               k == CHOOSE k \in DOMAIN r : r[k] = x
    <2>2. Rightful(x) = r[(k % Len(r)) + 1]
        BY <1>1 DEF Rightful
    <2>3. r[(k % Len(r)) + 1] = Right(mem, FALSE, x)
        <3>1. RingAt(mem, HomeOf(mem, x), r)
            <4>1. HomeOf(mem, x) \in Heads
                BY <2>1, HomeIsHead DEF ListsExact
            <4> QED
                BY <2>1, <4>1, RingShape
        <3> HIDE DEF r, x
        <3>2. \E i \in DOMAIN r : r[i] = x
            BY <2>1, <3>1, RingTurns
        <3>3. k \in DOMAIN r /\ r[k] = x
            BY <3>2
        <3> HIDE DEF k
        <3>4. TurnsRight(mem, x, r, k)
            BY <2>1, <3>1, <3>3, RingTurns
        <3>5. k - 1 + 1 = k
            BY <3>4 DEF TurnsRight
        <3> QED
            BY <3>4, <3>5 DEF TurnsRight
    <2> QED
        BY <2>2, <2>3
<1>3. NextWrong <=> Wrong(mem, FALSE)
    BY <1>2 DEF NextWrong, Wrong, LinkIn
<1> QED
    BY <1>1, <1>3 DEF ClosedEarly, Closed

(***************************************************************************)
(* For any number of slabs and nodes and one wrong link anywhere: reading  *)
(* a broken list again from its end reaches every slab once or twice,      *)
(* unless a wrong next leads back to the list's own head; in sound lists   *)
(* each slab is checked exactly once (__check_slabs, ___check_slabs,       *)
(* list_for_each).                                                         *)
(***************************************************************************)
THEOREM EverySlabReached == Spec => []RetryReachesAll
<1>1. CountInv /\ VisitInv /\ LinkFault(mem) => RetryReachesAll
    <2> SUFFICES ASSUME CountInv, VisitInv, LinkFault(mem), outcome = "checked", NEW s \in Slabs
                 PROVE  /\ mem.fault[1] = "link" =>
                               checks[s] \in (IF ClosedEarly THEN 0 ELSE 1)..2
                        /\ mem.fault[1] = "none" => checks[s] = 1
        BY DEF RetryReachesAll
    <2>1. run = NoRun /\ checks[s] \in Nat
        BY DEF CountInv
    <2>2. /\ mem.fault[1] \in {"none", "link"} => checks[s] >= 1 \/ ClosedEarly
          /\ checks[s] <= Most(mem, run, s)
        <3>1. Closed(mem) <=> ClosedEarly
            BY WhichLink
        <3> QED
            BY <2>1, <3>1 DEF VisitInv, VisitedSlab, Past, Found
    <2>3. Most(mem, run, s) \in 0..2 /\ (mem.fault[1] = "none" => Most(mem, run, s) <= 1)
        BY DEF Most, HadSecond, Second
    <2>4. ClosedEarly => mem.fault[1] = "link"
        BY DEF ClosedEarly, NextWrong
    <2> QED
        BY <2>1, <2>2, <2>3, <2>4
<1> QED
    BY <1>1, VisitInvariant, LinkFaultStays, PTL

-----------------------------------------------------------------------------
(***************************************************************************)
(* The judgement of check_all.  What is wrong with a dump shows in what    *)
(* some slab's check reports, in a node's count or in the fill of the      *)
(* array caches (StaticOK); what check_all has been through it has         *)
(* reported (Judgement); and it has been through all of it when it ends.   *)
(***************************************************************************)
\* The struct slabs are objects of another cache.
Outside == mem.off_slab /\ ~page_slab
\* What every check of s reports.
SlabErrors(s) ==
    PopulateErrors(s) \cup PageErrors(s, mem.nid[s])
    \cup (IF Outside /\ mem.home[s] \in {"none", "shifted", "elsewhere"} THEN {"off"} ELSE {})
    \cup (IF mem.inuse[s] + Cardinality(FreeOf(s)) # NObj THEN {"sum"} ELSE {})
    \cup (IF FreeOf(s) \cap CachedObjs(Filled) # {} THEN {"cached"} ELSE {})
Checkable(s) == Readable(s) /\ ~PopulateRaises(s)
\* The free objects of node n, and of its slabs that have been checked.
FreeOn(n) == UNION {FreeOf(s) : s \in {s \in Slabs : mem.nid[s] = n}}
Counted(n, ch) == UNION {FreeOf(s) : s \in {s \in Slabs : mem.nid[s] = n /\ ch[s] >= 1}}
Mismatched(n) == mem.free_objects[n] # Cardinality(FreeOn(n))

\* A dump with nothing wrong but where its struct slabs are, and what may be reported.
Sound == mem.fault[1] \in {"none", "off"}
Allowed == IF mem.fault[1] = "off" THEN {"off"} ELSE {}
Clean(r, e) == Sound => e \subseteq Allowed /\ (r # NoRun /\ r.pc # "node" => r.misplaced = 0)
OffAgrees(s, e, oc) == Outside /\ mem.home[s] \in {"size-64", "size-128"} =>
                           "off" \in e \/ oc = mem.home[s]
CheckedOK(ch, e, oc) ==
    \A s \in Slabs : ch[s] >= 1 => /\ SlabErrors(s) \cup FillErrors \subseteq e
                                   /\ Checkable(s) /\ OffAgrees(s, e, oc)
FreeOK(r, ch) == r # NoRun => r.free = Cardinality(Counted(Head(r.nids), ch))
NodesOK(r, e, out) ==
    r # NoRun \/ out = "checked" =>
        \A n \in Nodes : (r = NoRun \/ n \notin Range(r.nids)) /\ Mismatched(n) => e # {}
Judgement(r, ch, e, oc, out, ac) ==
    /\ Clean(r, e)
    /\ out = "raised" => e # {} /\ mem.fault[1] # "off"
    /\ ac # {} => FillErrors \subseteq e
    /\ mem.fault[1] # "link" => CheckedOK(ch, e, oc) /\ FreeOK(r, ch) /\ NodesOK(r, e, out)

\* What the dumps without a fault, or with struct slabs elsewhere, have.
SoundPages(m) == /\ m.pageNid = m.nid /\ m.absentPages = {} /\ m.absentBufctl = {}
                 /\ m.slabFlag = Slabs /\ m.cachePtr = Slabs /\ m.slabPtr = [s \in Slabs |-> s]
\* What a fault leaves to be seen.
Shows == \/ FillErrors # {}
         \/ \E s \in Slabs : SlabErrors(s) # {} \/ ~Checkable(s)
         \/ \E n \in Nodes : Mismatched(n)
OffShows ==
    /\ mem.fault[2] \in Slabs /\ Outside
    /\ mem.home[mem.fault[2]] \in {"size-128", "elsewhere", "shifted", "none"}
    /\ \A s \in Slabs : s # mem.fault[2] => mem.home[s] = "size-64"
StaticOK ==
    /\ \A s \in Slabs : FreeOf(s) \subseteq ObjsOf(s)
    /\ mem.fault[1] = "off" => OffShows
    /\ mem.fault[1] \notin {"none", "link", "off"} => Shows
    /\ Sound => SoundPages(mem) /\ FillErrors = {} /\ \A n \in Nodes : ~Mismatched(n)
JudgeInv == StaticOK /\ Judgement(run, checks, errors, off_slab_cache, outcome, array_caches)

LEMMA SameStatic ==
    ASSUME mem' = mem, page_slab' = page_slab
    PROVE  /\ StaticOK' <=> StaticOK
           /\ \A r, ch, e, oc, out, ac :
                  Judgement(r, ch, e, oc, out, ac)' <=> Judgement(r, ch, e, oc, out, ac)
<1>1. Filled' = Filled
    BY SameDump
<1>2. FillErrors' = FillErrors
    <2>1. Slots' = Slots /\ (\A e : Entry(e)' = Entry(e))
        BY DEF Slots, Entry
    <2>2. Unreadable' = Unreadable
        BY <2>1 DEF Unreadable
    <2>3. Reached' = Reached /\ (\A e : First(e)' <=> First(e))
        BY <2>1, <2>2 DEF Reached, First
    <2> QED
        BY <2>1, <2>2, <2>3 DEF FillErrors
<1>3. \A s : /\ FreeIndices(s)' = FreeIndices(s) /\ (Readable(s)' <=> Readable(s))
    BY DEF FreeIndices, Readable
<1>4. \A s : /\ BadAt(s)' = BadAt(s) /\ (PopulateRaises(s)' <=> PopulateRaises(s))
    BY <1>3 DEF BadAt, PopulateRaises
<1>5. \A s : FreeOf(s)' = FreeOf(s)
    BY <1>3, <1>4 DEF FreeOf
<1>6. \A s : SlabErrors(s)' = SlabErrors(s)
    BY <1>1, <1>4, <1>5 DEF SlabErrors, PopulateErrors, PageErrors, Outside, CachedObjs
<1>7. \A n : FreeOn(n)' = FreeOn(n) /\ (\A ch : Counted(n, ch)' = Counted(n, ch))
    BY <1>5 DEF FreeOn, Counted
<1>8. \A n : Mismatched(n)' <=> Mismatched(n)
    BY <1>7 DEF Mismatched
<1>9. StaticOK' <=> StaticOK
    <2>1. (Shows' <=> Shows) /\ (OffShows' <=> OffShows)
        BY <1>2, <1>3, <1>4, <1>6, <1>8 DEF Shows, OffShows, Checkable, Outside
    <2> QED
        BY <1>2, <1>5, <1>8, <2>1 DEF StaticOK, Sound
<1>10. \A ch, e, oc : CheckedOK(ch, e, oc)' <=> CheckedOK(ch, e, oc)
    BY <1>2, <1>3, <1>4, <1>6 DEF CheckedOK, Checkable, OffAgrees, Outside
<1>11. \A r, ch, e, out : (FreeOK(r, ch)' <=> FreeOK(r, ch)) /\ (NodesOK(r, e, out)' <=> NodesOK(r, e, out))
    BY <1>7, <1>8 DEF FreeOK, NodesOK
<1> QED
    BY <1>2, <1>9, <1>10, <1>11 DEF Judgement, Clean, Sound, Allowed

\* Nothing keeps a sound dump from being read.
LEMMA NothingRaises ==
    ASSUME CachesInv, StaticOK, Sound
    PROVE  /\ \A s \in Slabs : Readable(s) /\ ~PopulateRaises(s) /\ ~Stray(s) /\ ~Lost(s)
           /\ ~GetRaises
           /\ \A x \in CachedObjs(get_array_caches) : x[1] \in Slabs
<1>1. SoundPages(mem)
    BY DEF StaticOK
<1>2. get_array_caches = Filled
    BY DEF get_array_caches, NeedsFill, CachesInv
<1>3. \A x \in CachedObjs(Filled) : x[1] \in Slabs
    BY CachedFree DEF CachesInv, Objs
<1>4. ~GetRaises
    BY <1>1 DEF GetRaises, FillRaises, Unreadable, SoundPages
<1> QED
    BY <1>1, <1>2, <1>3, <1>4 DEF Readable, PopulateRaises, Stray, Lost, SoundPages, CachesInv

\* A fill reports what there is to report.
LEMMA FillReports ==
    ASSUME Judgement(run, checks, errors, off_slab_cache, outcome, array_caches),
           NEW e, errors \subseteq e, GetErrors \subseteq e
    PROVE  FillErrors \subseteq e
<1>1. CASE NeedsFill
    BY <1>1 DEF GetErrors
<1>2. CASE ~NeedsFill
    BY <1>2 DEF NeedsFill, Judgement
<1> QED
    BY <1>1, <1>2

\* A step that checks no slab and ends no node.
LEMMA QuietStep ==
    ASSUME JudgeInv, mem' = mem, page_slab' = page_slab, run # NoRun,
           run' # NoRun, run'.nids = run.nids, run'.free = run.free,
           checks' = checks, outcome' = outcome, errors \subseteq errors',
           array_caches' = array_caches \/ FillErrors \subseteq errors',
           off_slab_cache' = off_slab_cache \/ off_slab_cache = "unknown",
           Clean(run', errors')
    PROVE  JudgeInv'
<1> DEFINE e == errors'
           r == run'
           oc == off_slab_cache'
           ac == array_caches'
<1>1. Judgement(run, checks, errors, off_slab_cache, outcome, array_caches) /\ StaticOK
    BY DEF JudgeInv
<1> HIDE DEF e, r, oc, ac
<1>2. errors \subseteq e /\ (ac = array_caches \/ FillErrors \subseteq e) /\ Clean(r, e)
      /\ (oc = off_slab_cache \/ off_slab_cache = "unknown")
      /\ r # NoRun /\ r.nids = run.nids /\ r.free = run.free
    BY DEF e, r, oc, ac
<1>3. mem.fault[1] # "link" => CheckedOK(checks, e, oc)
    <2>1. ASSUME NEW s, OffAgrees(s, errors, off_slab_cache) PROVE OffAgrees(s, e, oc)
        BY <1>2, <2>1 DEF OffAgrees
    <2> QED
        BY <1>1, <1>2, <2>1 DEF Judgement, CheckedOK
<1>4. mem.fault[1] # "link" => FreeOK(r, checks) /\ NodesOK(r, e, outcome)
    BY <1>1, <1>2 DEF Judgement, FreeOK, NodesOK
<1>5. outcome = "raised" => e # {} /\ mem.fault[1] # "off"
    BY <1>1, <1>2 DEF Judgement
<1>6. ac # {} => FillErrors \subseteq e
    BY <1>1, <1>2 DEF Judgement
<1>7. Judgement(r, checks, e, oc, outcome, ac)
    BY <1>2, <1>3, <1>4, <1>5, <1>6 DEF Judgement
<1>8. Judgement(run', checks', errors', off_slab_cache', outcome', array_caches')
    BY <1>7 DEF e, r, oc, ac
<1> QED
    BY <1>1, <1>8, SameStatic DEF JudgeInv

\* A step that leaves no check behind.
LEMMA ResetStep ==
    ASSUME JudgeInv, mem' = mem, page_slab' = page_slab, checks' = [s \in Slabs |-> 0],
           errors \subseteq errors', array_caches' = array_caches \/ FillErrors \subseteq errors',
           outcome' # "checked", outcome' = "raised" => errors' # {} /\ mem.fault[1] # "off",
           Clean(run', errors'),
           run' # NoRun => run'.free = 0 /\ Nodes \subseteq Range(run'.nids)
    PROVE  JudgeInv'
<1> DEFINE e == errors'
           r == run'
           ch == checks'
           ac == array_caches'
           out == outcome'
           oc == off_slab_cache'
<1>1. Judgement(run, checks, errors, off_slab_cache, outcome, array_caches) /\ StaticOK
    BY DEF JudgeInv
<1> HIDE DEF e, r, ch, ac, out, oc
<1>2. /\ errors \subseteq e /\ (ac = array_caches \/ FillErrors \subseteq e) /\ Clean(r, e)
      /\ out # "checked" /\ (out = "raised" => e # {} /\ mem.fault[1] # "off")
      /\ (r # NoRun => r.free = 0 /\ Nodes \subseteq Range(r.nids))
    BY DEF e, r, ac, out
<1>3. \A s \in Slabs : ch[s] = 0
    BY DEF ch
<1>4. CheckedOK(ch, e, oc)
    BY <1>3 DEF CheckedOK
<1>5. \A n : Counted(n, ch) = {}
    BY <1>3 DEF Counted
<1>6. FreeOK(r, ch) /\ NodesOK(r, e, out)
    BY <1>2, <1>5, FS_EmptySet DEF FreeOK, NodesOK
<1>7. ac # {} => FillErrors \subseteq e
    BY <1>1, <1>2 DEF Judgement
<1>8. Judgement(r, ch, e, oc, out, ac)
    BY <1>2, <1>4, <1>6, <1>7 DEF Judgement
<1>9. Judgement(run', checks', errors', off_slab_cache', outcome', array_caches')
    BY <1>8 DEF e, r, ch, ac, out, oc
<1> QED
    BY <1>1, <1>9, SameStatic DEF JudgeInv

\* Without a wrong link every pass is straight, and what it comes to is new.
LEMMA StraightPass ==
    ASSUME CountInv, VisitInv, run # NoRun, run.pc # "node", mem.fault[1] # "link"
    PROVE  /\ run.pc = "walk" /\ run.rev = FALSE /\ run.pending = FALSE
           /\ run.at \in Places /\ run.at \notin run.seen /\ (run.at \in Heads => run.at = head)
           /\ run.at \in Slabs => /\ head = <<mem.nid[run.at], TypeFor(mem.obj, run.at)>>
                                   /\ checks[run.at] = 0
<1>1. /\ RunOK(run) /\ RunShape(run) /\ PassInv(mem, run, checks, errors) /\ RingsOK(mem)
      /\ run.rev \in BOOLEAN /\ run.pending \in BOOLEAN /\ head = HeadOf(run)
    BY DEF CountInv, VisitInv, RunShape, head, HeadOf
<1>2. run.rev = FALSE /\ run.pending = FALSE
    BY <1>1 DEF PassInv
<1>3. Straight(mem, run) /\ run.pc = "walk"
    BY <1>1 DEF PassInv, Astray, Wrong, Straight
<1>4. /\ run.at \in Places /\ HomeOf(mem, run.at) = head /\ run.at \notin run.seen
      /\ run.at \in Heads => run.at = head
    BY <1>1, <1>3, StraightFacts
<1>5. ASSUME run.at \in Slabs
      PROVE  head = <<mem.nid[run.at], TypeFor(mem.obj, run.at)>> /\ checks[run.at] = 0
    <2>1. run.at \notin Heads
        BY <1>5, PlacesAssumption
    <2>2. ~HadSecond(mem, run, run.at)
        BY DEF HadSecond, Second
    <2>3. ~Past(run, head)
        <3>1. Head(run.nids) \in Range(run.nids) /\ run.type \in Types
            BY <1>1, HeadIn
        <3>2. ~(run.type < run.type) /\ head[1] = Head(run.nids) /\ head[2] = run.type
            BY <3>1 DEF Types, head
        <3> QED
            BY <3>1, <3>2 DEF Past
    <2>4. ~HadFirst(mem, run, run.at)
        BY <1>2, <1>4, <2>3 DEF HadFirst, Had
    <2>5. checks[run.at] \in Nat /\ checks[run.at] <= Most(mem, run, run.at)
        BY <1>5 DEF CountInv, VisitInv, VisitedSlab
    <2>6. Most(mem, run, run.at) = 0
        BY <2>2, <2>4 DEF Most
    <2> QED
        BY <1>4, <2>1, <2>5, <2>6 DEF HomeOf
<1> QED
    BY <1>2, <1>3, <1>4, <1>5

LEMMA PassStart ==
    ASSUME NEW nids, NEW type, NEW rev \in BOOLEAN, NEW free, NEW p,
           p = Pass(nids, type, rev, free)
    PROVE  p # NoRun /\ p.nids = nids /\ p.free = free /\ p.misplaced = 0
<1> DEFINE f == Link(rev, <<Head(nids), type>>)
           h == <<Head(nids), type>>
<1>1. p = [nids |-> nids, type |-> type, rev |-> rev, free |-> free,
           pc |-> IF f = NULL THEN "null" ELSE "walk",
           at |-> f, last |-> h, seen |-> {}, pending |-> FALSE,
           ok |-> 0, misplaced |-> 0]
    BY DEF Pass
<1> HIDE DEF f, h
<1> QED
    BY <1>1 DEF NoRun

LEMMA JudgeEnd ==
    ASSUME CountInv, VisitInv, JudgeInv, run # NoRun, run.pc # "node", NEW failed, EndPass(failed),
           Sound => failed = FALSE,
           mem' = mem, page_slab' = page_slab, checks' = checks, outcome' = outcome,
           array_caches' = array_caches, off_slab_cache' = off_slab_cache
    PROVE  JudgeInv'
<1>1. /\ run' = Following(failed) /\ errors \subseteq errors'
      /\ errors' = errors \cup (IF failed THEN {"list"} ELSE {})
                          \cup (IF run.misplaced > 0 THEN {"misplaced"} ELSE {})
    BY DEF EndPass
<1>2. RunOK(run) /\ DOMAIN run = RunFields /\ run.rev \in BOOLEAN
    BY DEF CountInv, RunOK, VisitInv, RunShape
<1>3. run.nids \in Seq(Nodes) /\ run.nids # <<>> /\ run.type \in Types
    BY <1>2, HeadIn
<1>4. ASSUME NEW type, NEW rev \in BOOLEAN, run' = Pass(run.nids, type, rev, run.free)
      PROVE  run' # NoRun /\ run'.nids = run.nids /\ run'.free = run.free /\ run'.misplaced = 0
    <2> DEFINE p == run'
    <2>1. p = Pass(run.nids, type, rev, run.free)
        BY <1>4
    <2> HIDE DEF p
    <2>2. p # NoRun /\ p.nids = run.nids /\ p.free = run.free /\ p.misplaced = 0
        BY <2>1, PassStart
    <2> QED
        BY <2>2 DEF p
<1>5. /\ run' # NoRun /\ run'.nids = run.nids /\ run'.free = run.free
      /\ run'.misplaced = 0 \/ run'.pc = "node"
    <2>1. CASE run' = Pass(run.nids, run.type, TRUE, run.free)
        BY <1>4, <2>1
    <2>2. CASE run' = Pass(run.nids, run.type + 1, FALSE, run.free)
        BY <1>4, <2>2
    <2>3. CASE run' = [run EXCEPT !.pc = "node"]
        BY <1>2, <2>3 DEF RunFields, NoRun
    <2> QED
        BY <1>1, <2>1, <2>2, <2>3 DEF Following
<1>6. Clean(run', errors')
    <2> SUFFICES ASSUME Sound
                 PROVE  errors' \subseteq Allowed /\ (run'.pc # "node" => run'.misplaced = 0)
        BY DEF Clean
    <2>1. errors \subseteq Allowed /\ run.misplaced = 0
        BY DEF JudgeInv, Judgement, Clean
    <2> QED
        BY <1>1, <1>5, <2>1
<1> QED
    BY <1>1, <1>5, <1>6, QuietStep

\* A place that is stepped over, or a slab that cannot be checked.
LEMMA JudgeSkip ==
    ASSUME CountInv, VisitInv, JudgeInv, Here, ~Sound, run' = GoOn(Entered),
           mem' = mem, page_slab' = page_slab, checks' = checks, outcome' = outcome,
           errors \subseteq errors', array_caches' = array_caches \/ FillErrors \subseteq errors',
           off_slab_cache' = off_slab_cache \/ off_slab_cache = "unknown"
    PROVE  JudgeInv'
<1>1. DOMAIN run = RunFields /\ run # NoRun
    BY DEF Here, CountInv, RunOK
<1>2. /\ DOMAIN Entered = RunFields /\ Entered.nids = run.nids /\ Entered.free = run.free
    BY <1>1 DEF Entered, RunFields
<1> DEFINE e == Entered
           n == Onward(run.at)
<1>3. run' = [e EXCEPT !.pc = "null"] \/ run' = [e EXCEPT !.at = n, !.last = run.at]
    BY DEF GoOn
<1> HIDE DEF n
<1>4. run' # NoRun /\ run'.nids = run.nids /\ run'.free = run.free
    <2>1. DOMAIN e = RunFields /\ e.nids = run.nids /\ e.free = run.free
        BY <1>2
    <2> HIDE DEF e
    <2>2. CASE run' = [e EXCEPT !.pc = "null"]
        BY <2>1, <2>2 DEF RunFields, NoRun
    <2>3. CASE run' = [e EXCEPT !.at = n, !.last = run.at]
        BY <2>1, <2>3 DEF RunFields, NoRun
    <2> QED
        BY <1>3, <2>2, <2>3
<1>5. Clean(run', errors')
    BY DEF Clean
<1> QED
    BY <1>1, <1>4, <1>5, QuietStep

\* The list that a slab of a sound dump is on is the one for its free objects.
LEMMA RightList ==
    ASSUME CachesInv, mem.fault[1] \notin {"index", "inuse"}, NEW s \in Slabs
    PROVE  ~Misplaced(s, TypeFor(mem.obj, s))
<1> DEFINE n == Cardinality(FreeOf(s))
           k == Len(FreeIn(mem.obj, s))
<1>1. n = k /\ k \in Nat
    <2>1. mem.inuse[s] + n = NObj /\ mem.inuse[s] = Len(UsedIn(mem.obj, s))
        BY FreeCount DEF CachesInv, DumpOK, SlabsAsKept
    <2>2. /\ UsedIn(mem.obj, s) \in Seq(Indices \ FreeSet(mem.obj, s))
          /\ Len(UsedIn(mem.obj, s)) + k = NObj /\ Lists(FreeIn(mem.obj, s), FreeSet(mem.obj, s))
        BY IndexSets
    <2>3. Len(UsedIn(mem.obj, s)) \in Nat /\ k \in Nat
        BY <2>2 DEF Lists
    <2>4. n \in Nat
        <3>1. FreeOf(s) \in SUBSET Objs
            BY FreeExact DEF CachesInv, ObjsOf, Objs
        <3> QED
            BY <3>1, ObjsFinite, FS_Subset, FS_CardinalityType
    <2> HIDE DEF n, k
    <2> QED
        BY <2>1, <2>2, <2>3, <2>4, SlabAssumption
<1>2. TypeFor(mem.obj, s) = CASE k = 0 -> slab_full [] k = NObj -> slab_free
                              [] OTHER -> slab_partial
    BY DEF TypeFor
<1>3. NObj \in Nat \ {0}
    BY SlabAssumption
<1> DEFINE t == TypeFor(mem.obj, s)
<1> HIDE DEF k, t
<1>4. /\ t = slab_full => (Misplaced(s, t) <=> n > 0)
      /\ t = slab_free => (Misplaced(s, t) <=> n # NObj)
      /\ t = slab_partial => (Misplaced(s, t) <=> n \in {0, NObj})
    <2>1. Misplaced(s, slab_full) <=> n > 0
        BY DEF Misplaced, slab_full, slab_free, slab_partial
    <2>2. Misplaced(s, slab_free) <=> n # NObj
        BY DEF Misplaced, slab_full, slab_free, slab_partial
    <2>3. Misplaced(s, slab_partial) <=> n \in {0, NObj}
        BY DEF Misplaced, slab_full, slab_free, slab_partial
    <2> QED
        BY <2>1, <2>2, <2>3
<1> HIDE DEF n
<1>5. \/ k = 0 /\ t = slab_full
      \/ k = NObj /\ t = slab_free
      \/ k # 0 /\ k # NObj /\ t = slab_partial
    BY <1>2, <1>3 DEF t
<1>6. ~Misplaced(s, t)
    BY <1>1, <1>3, <1>4, <1>5
<1> QED
    BY <1>6 DEF t

\* A slab adds its own free objects to those of its node.
LEMMA CountedGrows ==
    ASSUME StaticOK, NEW ch, NEW ch2, NEW s \in Slabs, NEW n, mem.nid[s] = n,
           ~(ch[s] >= 1), ch2[s] >= 1, \A x \in Slabs : x # s => ch2[x] = ch[x]
    PROVE  Cardinality(Counted(n, ch2)) = Cardinality(Counted(n, ch)) + Cardinality(FreeOf(s))
<1>1. \A x \in Slabs : FreeOf(x) \subseteq Objs /\ \A o \in FreeOf(x) : o[1] = x
    BY DEF StaticOK, ObjsOf, Objs
<1> DEFINE A == Counted(n, ch)
           B == FreeOf(s)
<1>2. Counted(n, ch2) = A \cup B
    BY DEF Counted
<1>3. A \cap B = {} /\ A \in SUBSET Objs /\ B \in SUBSET Objs
    BY <1>1 DEF Counted
<1> HIDE DEF A, B
<1>4. IsFiniteSet(A) /\ IsFiniteSet(B)
    BY <1>3, ObjsFinite, FS_Subset
<1>5. Cardinality(A \cup B) = Cardinality(A) + Cardinality(B) - Cardinality(A \cap B)
    BY <1>4, FS_Union
<1>6. Cardinality(A) \in Nat /\ Cardinality(B) \in Nat /\ Cardinality(A \cap B) = 0
    BY <1>3, <1>4, FS_CardinalityType, FS_EmptySet
<1>7. Cardinality(A \cup B) = Cardinality(A) + Cardinality(B)
    BY <1>5, <1>6
<1> QED
    BY <1>2, <1>7 DEF A, B

\* About a slab of a sound dump there is nothing to say but where its struct slab is.
LEMMA OnlyOff ==
    ASSUME CachesInv, StaticOK, Sound, NEW s \in Slabs,
           mem.fault[1] = "none" => CheckErrors(s, mem.nid[s]) = {}
    PROVE  CheckErrors(s, mem.nid[s]) \subseteq Allowed
<1>1. CASE mem.fault[1] = "none"
    BY <1>1
<1>2. CASE mem.fault[1] = "off"
    <2>1. BadAt(s) = {} /\ FreeOf(s) = {o \in ObjsOf(s) : mem.obj[o] = InSlab}
        BY <1>2, FreeExact DEF CachesInv
    <2>2. SoundPages(mem)
        BY DEF StaticOK
    <2>3. OffSlabErrors(s) \subseteq {"off"}
        BY DEF OffSlabErrors
    <2>4. PageErrors(s, mem.nid[s]) = {} /\ mem.pageNid[s] = mem.nid[s]
        BY <2>2 DEF PageErrors, SoundPages
    <2>5. EarlyErrors(s, mem.nid[s]) \subseteq {"off"}
        BY <1>2, <2>1, <2>3, <2>4, FreeCount DEF EarlyErrors, PopulateErrors
    <2>6. get_array_caches = Filled
        BY DEF get_array_caches, NeedsFill, CachesInv
    <2>7. FreeOf(s) \cap CachedObjs(Filled) = {}
        BY <1>2, <2>1, CachedFree, NotAllocated DEF CachesInv
    <2> QED
        BY <1>2, <2>4, <2>5, <2>6, <2>7 DEF CheckErrors, Allowed
<1> QED
    BY <1>1, <1>2 DEF Sound

\* The check of a slab reports what there is to report.
LEMMA SlabReported ==
    ASSUME CachesInv, NEW s \in Slabs, NEW e, CheckErrors(s, mem.nid[s]) \subseteq e
    PROVE  SlabErrors(s) \subseteq e /\ OffAgrees(s, e, NextOffSlabCache(s))
<1>1. get_array_caches = Filled
    BY DEF get_array_caches, NeedsFill, CachesInv
<1>2. Outside /\ mem.home[s] \in {"none", "shifted", "elsewhere"} => OffSlabErrors(s) = {"off"}
    BY DEF OffSlabErrors, Outside
<1>3. SlabErrors(s) \subseteq e
    BY <1>1, <1>2 DEF SlabErrors, CheckErrors, EarlyErrors
<1>4. ASSUME Outside, mem.home[s] \in {"size-64", "size-128"}, "off" \notin e
      PROVE  NextOffSlabCache(s) = mem.home[s]
    <2>1. OffSlabErrors(s) = IF off_slab_cache \notin {"unknown", mem.home[s]}
                             THEN {"off"} ELSE {}
        BY <1>4 DEF OffSlabErrors, Outside
    <2>2. off_slab_cache \in {"unknown", mem.home[s]}
        BY <1>4, <2>1 DEF CheckErrors, EarlyErrors
    <2> QED
        BY <1>4, <2>2 DEF NextOffSlabCache, Outside
<1> QED
    BY <1>3, <1>4 DEF OffAgrees

LEMMA JudgeCheckSlab ==
    ASSUME CountInv, VisitInv, JudgeInv, CheckSlab
    PROVE  JudgeInv'
<1> DEFINE s == run.at
           found == CheckErrors(s, head[1])
           misplaced == Misplaced(s, run.type)
           bad == found # {} \/ misplaced
           fr == Entered.free + Cardinality(FreeOf(s))
           ok == IF bad THEN 0 ELSE Entered.ok + 1
           mis == IF misplaced THEN Entered.misplaced + 1 ELSE 0
           g == [Entered EXCEPT !.free = fr, !.ok = ok, !.misplaced = mis]
<1>1. /\ Here /\ s \in Slabs /\ run' = GoOn(g) /\ Readable(s) /\ ~PopulateRaises(s)
      /\ mem' = mem /\ page_slab' = page_slab /\ outcome' = outcome
      /\ checks' = [checks EXCEPT ![s] = @ + 1]
      /\ off_slab_cache' = NextOffSlabCache(s)
    BY DEF CheckSlab
<1>2. errors' = errors \cup found \cup GetErrors \cup (IF misplaced THEN {"misplaced"} ELSE {})
    BY DEF CheckSlab
<1>3. /\ StaticOK /\ Judgement(run, checks, errors, off_slab_cache, outcome, array_caches)
      /\ run # NoRun /\ run.pc = "walk" /\ RunOK(run) /\ CachesInv
      /\ checks \in [Slabs -> Nat]
    BY <1>1 DEF JudgeInv, Here, CountInv
<1>4. DOMAIN Entered = RunFields /\ Entered.nids = run.nids /\ Entered.free = run.free
      /\ Entered.pc = "walk"
    BY <1>3 DEF Entered, RunFields, RunOK
<1> DEFINE r == run'
           e == errors'
           ch == checks'
           oc == off_slab_cache'
           ac == array_caches'
           en == Entered
           nx == Onward(s)
<1>5. /\ r # NoRun /\ r.nids = run.nids /\ r.free = run.free + Cardinality(FreeOf(s))
      /\ r.misplaced = mis
    <2>1. r = [g EXCEPT !.pc = "null"] \/ r = [g EXCEPT !.at = nx, !.last = s]
        BY <1>1 DEF GoOn
    <2>2. fr = run.free + Cardinality(FreeOf(s))
        BY <1>4
    <2>3. DOMAIN en = RunFields /\ en.nids = run.nids /\ g = [en EXCEPT !.free = fr, !.ok = ok, !.misplaced = mis]
        BY <1>4
    <2> HIDE DEF fr, ok, mis, nx, en, r
    <2>4. DOMAIN g = RunFields /\ g.nids = run.nids /\ g.free = fr /\ g.misplaced = mis
        BY <2>3 DEF RunFields
    <2> HIDE DEF g
    <2>5. CASE r = [g EXCEPT !.pc = "null"]
        BY <2>2, <2>4, <2>5 DEF RunFields, NoRun
    <2>6. CASE r = [g EXCEPT !.at = nx, !.last = s]
        BY <2>2, <2>4, <2>6 DEF RunFields, NoRun
    <2> QED
        BY <2>1, <2>5, <2>6
<1>6. FillErrors \subseteq e
    BY <1>2, <1>3, FillReports
<1>7. mem.fault[1] # "link" =>
          /\ head = <<mem.nid[s], TypeFor(mem.obj, s)>> /\ checks[s] = 0
          /\ head[1] = mem.nid[s] /\ Head(run.nids) = mem.nid[s]
          /\ run.type = TypeFor(mem.obj, s)
    <2> SUFFICES ASSUME mem.fault[1] # "link"
                 PROVE  /\ head = <<mem.nid[s], TypeFor(mem.obj, s)>> /\ checks[s] = 0
                        /\ head[1] = mem.nid[s] /\ Head(run.nids) = mem.nid[s]
                        /\ run.type = TypeFor(mem.obj, s)
        OBVIOUS
    <2>1. head = <<mem.nid[s], TypeFor(mem.obj, s)>> /\ checks[s] = 0
        BY <1>1, <1>3, StraightPass
    <2> QED
        BY <2>1 DEF head
<1>8. Clean(r, e)
    <2> SUFFICES ASSUME Sound PROVE e \subseteq Allowed /\ r.misplaced = 0
        BY DEF Clean
    <2>1. mem.fault[1] # "link" /\ mem.fault[1] \notin {"index", "inuse"}
        BY DEF Sound
    <2>2. ~misplaced
        BY <1>1, <1>3, <1>7, <2>1, RightList
    <2>3. mem.fault[1] = "none" => CheckErrors(s, mem.nid[s]) = {}
        BY <1>1, NothingFound DEF Judged
    <2>4. found \subseteq Allowed
        BY <1>1, <1>3, <1>7, <2>1, <2>3, OnlyOff
    <2>5. GetErrors = {} /\ errors \subseteq Allowed
        BY <1>3 DEF GetErrors, StaticOK, Judgement, Clean
    <2> HIDE DEF misplaced, found
    <2> QED
        BY <1>2, <1>5, <2>2, <2>4, <2>5
<1>9. errors \subseteq e /\ found \subseteq e
    BY <1>2
<1>10. ASSUME mem.fault[1] # "link"
       PROVE  CheckedOK(ch, e, oc) /\ FreeOK(r, ch) /\ NodesOK(r, e, outcome)
    <2>0. CheckedOK(checks, errors, off_slab_cache) /\ FreeOK(run, checks)
          /\ NodesOK(run, errors, outcome)
        BY <1>3, <1>10 DEF Judgement
    <2>1. CheckErrors(s, mem.nid[s]) \subseteq e
        BY <1>7, <1>9, <1>10
    <2>2. oc = NextOffSlabCache(s)
        BY <1>1
    <2>3. oc = off_slab_cache \/ off_slab_cache = "unknown"
        BY <2>2 DEF NextOffSlabCache
    <2>4. checks[s] = 0 /\ ch[s] = 1 /\ \A x \in Slabs : x # s => ch[x] = checks[x]
        BY <1>1, <1>3, <1>7, <1>10
    <2> HIDE DEF found, misplaced, bad, fr, ok, mis, g, r, e, ch, oc, s
    <2>5. SlabErrors(s) \subseteq e /\ OffAgrees(s, e, oc)
        BY <1>1, <1>3, <2>1, <2>2, SlabReported
    <2>6. CheckedOK(ch, e, oc)
        <3> SUFFICES ASSUME NEW x \in Slabs, ch[x] >= 1
                     PROVE  /\ SlabErrors(x) \cup FillErrors \subseteq e
                            /\ Checkable(x) /\ OffAgrees(x, e, oc)
            BY DEF CheckedOK
        <3>1. CASE x = s
            BY <1>1, <1>6, <2>5, <3>1 DEF Checkable
        <3>2. CASE x # s
            <4>1. /\ SlabErrors(x) \cup FillErrors \subseteq errors
                  /\ Checkable(x) /\ OffAgrees(x, errors, off_slab_cache)
                BY <2>0, <2>4, <3>2 DEF CheckedOK
            <4> QED
                BY <4>1, <1>9, <2>3 DEF OffAgrees
        <3> QED
            BY <3>1, <3>2
    <2>7. Cardinality(Counted(mem.nid[s], ch)) = Cardinality(Counted(mem.nid[s], checks))
                                                 + Cardinality(FreeOf(s))
        BY <1>1, <1>3, <2>4, CountedGrows
    <2>8. FreeOK(r, ch)
        BY <1>3, <1>5, <1>7, <1>10, <2>0, <2>7 DEF FreeOK
    <2>9. NodesOK(r, e, outcome)
        BY <1>3, <1>5, <1>9, <2>0 DEF NodesOK
    <2> QED
        BY <2>6, <2>8, <2>9
<1> HIDE DEF found, misplaced, bad, fr, ok, mis, g, r, e, ch, oc, ac
<1>11. outcome = "raised" => e # {} /\ mem.fault[1] # "off"
    BY <1>3, <1>9 DEF Judgement
<1>12. Judgement(r, ch, e, oc, outcome, ac)
    BY <1>6, <1>8, <1>10, <1>11 DEF Judgement
<1>13. Judgement(run', checks', errors', off_slab_cache', outcome', array_caches')
    BY <1>1, <1>12 DEF r, e, ch, oc, ac
<1> QED
    BY <1>1, <1>3, <1>13, SameStatic DEF JudgeInv

\* The slabs of a node that is over have been checked, or missing memory was reported.
LEMMA NodeOver ==
    ASSUME CountInv, VisitInv, run # NoRun, run.pc = "node", mem.fault[1] # "link",
           NEW s \in Slabs, mem.nid[s] = Head(run.nids)
    PROVE  checks[s] >= 1 \/ (mem.fault[1] = "hole" /\ errors # {})
<1>1. HomeOf(mem, s)[1] = Head(run.nids)
    <2>1. s \notin Heads
        BY PlacesAssumption
    <2> QED
        BY <2>1 DEF HomeOf
<1>2. Past(run, HomeOf(mem, s))
    BY <1>1 DEF Past
<1>3. VisitedSlab(mem, run, checks, errors, s)
    BY DEF VisitInv
<1> QED
    BY <1>2, <1>3 DEF VisitedSlab, Found, Closed, Wrong

\* At the end of a node whose count is wrong there is something to report.
LEMMA NodeCounted ==
    ASSUME CountInv, VisitInv, JudgeInv, run # NoRun, run.pc = "node", mem.fault[1] # "link"
    PROVE  \/ /\ run.free = Cardinality(FreeOn(Head(run.nids)))
              /\ mem.free_objects[Head(run.nids)] # run.free <=> Mismatched(Head(run.nids))
           \/ mem.fault[1] = "hole" /\ errors # {}
<1> DEFINE n == Head(run.nids)
<1>1. run.free = Cardinality(Counted(n, checks))
    BY DEF JudgeInv, Judgement, FreeOK
<1>2. CASE \A s \in Slabs : mem.nid[s] = n => checks[s] >= 1
    <2>1. Counted(n, checks) = FreeOn(n)
        BY <1>2 DEF Counted, FreeOn
    <2> QED
        BY <1>1, <2>1 DEF Mismatched
<1>3. CASE \E s \in Slabs : mem.nid[s] = n /\ ~(checks[s] >= 1)
    BY <1>3, NodeOver
<1> QED
    BY <1>2, <1>3

LEMMA JudgeEndNode ==
    ASSUME CountInv, VisitInv, JudgeInv, EndNode
    PROVE  JudgeInv'
<1> DEFINE n == Head(run.nids)
           mismatch == IF mem.free_objects[n] # run.free THEN {"mismatch"} ELSE {}
           cached == {o[1] : o \in CachedObjs(get_array_caches)}
           raises == GetRaises \/ (\E s \in cached : Stray(s) \/ Lost(s))
           next == Pass(Tail(run.nids), slab_partial, FALSE, 0)
<1>1. /\ run # NoRun /\ run.pc = "node" /\ mem' = mem /\ page_slab' = page_slab
      /\ off_slab_cache' = off_slab_cache /\ checks' = checks
    BY DEF EndNode
<1>2. \/ /\ raises /\ run' = NoRun /\ outcome' = "raised"
         /\ errors' = errors \cup (mismatch \cup GetErrors \cup {"exception"})
      \/ /\ ~raises /\ errors' = errors \cup mismatch \cup GetErrors
         /\ run' = IF Len(run.nids) = 1 THEN NoRun ELSE next
         /\ outcome' = IF Len(run.nids) = 1 THEN "checked" ELSE outcome
    BY DEF EndNode, Raise
<1>3. /\ StaticOK /\ Judgement(run, checks, errors, off_slab_cache, outcome, array_caches)
      /\ RunOK(run) /\ CachesInv /\ RunShape(run) /\ outcome # "checked"
    BY <1>1 DEF JudgeInv, CountInv, VisitInv
<1>4. errors \subseteq errors' /\ mismatch \subseteq errors' /\ GetErrors \subseteq errors'
    BY <1>2
<1>5. FillErrors \subseteq errors'
    BY <1>3, <1>4, FillReports
<1>6. mem.fault[1] # "link" /\ Mismatched(n) => errors' # {}
    BY <1>1, <1>4, NodeCounted
<1>7. Sound => ~raises /\ mismatch = {} /\ GetErrors = {}
    <2> SUFFICES ASSUME Sound PROVE ~raises /\ mismatch = {} /\ GetErrors = {}
        OBVIOUS
    <2>1. \A s \in cached : s \in Slabs
        BY <1>3, NothingRaises
    <2>2. ~raises
        BY <1>3, <2>1, NothingRaises
    <2>3. mem.fault[1] \notin {"link", "hole"} /\ n \in Nodes
        BY <1>3, HeadIn DEF Sound
    <2>4. ~Mismatched(n) /\ GetErrors = {}
        BY <1>3, <2>3 DEF StaticOK, GetErrors
    <2> QED
        BY <1>1, <2>2, <2>3, <2>4, NodeCounted
<1>8. /\ run.nids \in Seq(Nodes) /\ run.nids # <<>> /\ Apart(run.nids)
    BY <1>3, HeadIn DEF RunShape
<1> DEFINE r == run'
           e == errors'
           out == outcome'
           ac == array_caches'
<1> HIDE DEF n, mismatch, raises, next
<1>9. out = "raised" => e # {} /\ mem.fault[1] # "off"
    <2>1. outcome = "raised" => errors # {} /\ mem.fault[1] # "off"
        BY <1>3 DEF Judgement
    <2>2. raises => mem.fault[1] # "off"
        BY <1>7 DEF Sound
    <2> QED
        BY <1>2, <2>1, <2>2
<1>10. errors \subseteq Allowed \/ ~Sound
    BY <1>3 DEF Judgement, Clean
<1>11. Sound => e \subseteq Allowed
    BY <1>2, <1>7, <1>10
<1>12. mem.fault[1] # "link" => CheckedOK(checks, e, off_slab_cache)
    <2>1. ASSUME NEW s, OffAgrees(s, errors, off_slab_cache) PROVE OffAgrees(s, e, off_slab_cache)
        BY <1>4, <2>1 DEF OffAgrees
    <2> HIDE DEF e
    <2>2. errors \subseteq e
        BY <1>4 DEF e
    <2> QED
        BY <1>3, <2>1, <2>2 DEF Judgement, CheckedOK
<1>13. mem.fault[1] # "link" => \A x \in Nodes : x \notin Range(run.nids) \/ x = n =>
                                     (Mismatched(x) => e # {})
    <2>1. mem.fault[1] # "link" => NodesOK(run, errors, outcome)
        BY <1>3 DEF Judgement
    <2> QED
        BY <1>1, <1>4, <1>6, <2>1 DEF NodesOK
<1> HIDE DEF r, e, out, ac
<1>14. ASSUME Clean(r, e), mem.fault[1] # "link" => FreeOK(r, checks) /\ NodesOK(r, e, out)
       PROVE  JudgeInv'
    <2>1. Judgement(r, checks, e, off_slab_cache, out, ac)
        <3>1. FillErrors \subseteq e
            BY <1>5 DEF e
        <3> QED
            BY <1>9, <1>12, <1>14, <3>1 DEF Judgement
    <2>2. Judgement(run', checks', errors', off_slab_cache', outcome', array_caches')
        BY <1>1, <2>1 DEF r, e, out, ac
    <2> QED
        BY <1>1, <1>3, <2>2, SameStatic DEF JudgeInv
<1>15. CASE r = NoRun /\ out = "raised"
    BY <1>11, <1>14, <1>15 DEF Clean, FreeOK, NodesOK
<1>16. CASE r = NoRun /\ out = "checked" /\ Len(run.nids) = 1
    <2>1. Range(run.nids) = {n}
        <3>1. DOMAIN run.nids = {1} /\ n = run.nids[1]
            BY <1>8, <1>16 DEF n
        <3> QED
            BY <3>1 DEF Range
    <2>2. mem.fault[1] # "link" => NodesOK(r, e, out)
        BY <1>13, <2>1 DEF NodesOK
    <2> QED
        BY <1>11, <1>14, <1>16, <2>2 DEF Clean, FreeOK
<1>17. CASE r = next /\ Len(run.nids) # 1
    <2> DEFINE t == Tail(run.nids)
    <2>1. /\ t \in Seq(Nodes) /\ t # <<>>
          /\ \A x : x \in Range(t) <=> x \in Range(run.nids) /\ x # n
        BY <1>8, <1>17, TailOf DEF n
    <2>2. r = Pass(t, slab_partial, FALSE, 0)
        BY <1>17 DEF next
    <2> HIDE DEF t
    <2>3. r # NoRun /\ r.nids = t /\ r.free = 0 /\ r.misplaced = 0
        <3>1. ASSUME NEW type, NEW rev \in BOOLEAN, NEW free, r = Pass(t, type, rev, free)
              PROVE  r # NoRun /\ r.nids = t /\ r.free = free /\ r.misplaced = 0
            BY <3>1, PassStart
        <3>2. FALSE \in BOOLEAN
            OBVIOUS
        <3> QED
            BY <2>2, <3>1, <3>2
    <2>4. Head(t) \in Range(t)
        <3>1. 1 \in DOMAIN t /\ Head(t) = t[1]
            BY <2>1
        <3> QED
            BY <3>1 DEF Range
    <2>5. ASSUME mem.fault[1] # "link", NEW s \in Slabs, mem.nid[s] = Head(t)
          PROVE  ~(checks[s] >= 1)
        <3>1. HomeOf(mem, s)[1] = Head(t)
            <4>1. s \notin Heads
                BY PlacesAssumption
            <4> QED
                BY <2>5, <4>1 DEF HomeOf
        <3>2. HeadOf(run)[1] = n
            BY DEF HeadOf, n
        <3>3. ~HadFirst(mem, run, s)
            BY <1>1, <2>1, <2>4, <3>1, <3>2 DEF HadFirst, Had, Past, n
        <3>4. ~HadSecond(mem, run, s)
            BY <2>5 DEF HadSecond, Second
        <3>5. Most(mem, run, s) = 0
            BY <3>3, <3>4 DEF Most
        <3>6. checks[s] \in Nat /\ checks[s] <= Most(mem, run, s)
            BY <1>1 DEF CountInv, VisitInv, VisitedSlab
        <3> QED
            BY <3>5, <3>6
    <2>6. mem.fault[1] # "link" => FreeOK(r, checks)
        <3> SUFFICES ASSUME mem.fault[1] # "link" PROVE FreeOK(r, checks)
            OBVIOUS
        <3>1. Counted(Head(t), checks) = {}
            BY <2>5 DEF Counted
        <3> QED
            BY <2>3, <3>1, FS_EmptySet DEF FreeOK
    <2>7. mem.fault[1] # "link" => NodesOK(r, e, out)
        BY <1>13, <2>1, <2>3 DEF NodesOK
    <2>8. Clean(r, e)
        BY <1>11, <2>3 DEF Clean
    <2> QED
        BY <1>14, <2>6, <2>7, <2>8
<1> QED
    BY <1>2, <1>15, <1>16, <1>17 DEF r, out

\* What array_caches holds is what a fill leaves, and the fill is not silent.
LEMMA FillKept ==
    ASSUME Judgement(run, checks, errors, off_slab_cache, outcome, array_caches),
           errors \subseteq errors',
           \/ array_caches' = array_caches
           \/ array_caches' = get_array_caches /\ GetErrors \subseteq errors'
    PROVE  array_caches' = array_caches \/ FillErrors \subseteq errors'
<1>1. CASE NeedsFill
    BY <1>1 DEF GetErrors
<1>2. CASE ~NeedsFill
    BY <1>2 DEF get_array_caches
<1> QED
    BY <1>1, <1>2

LEMMA NoBadIndex ==
    ASSUME CachesInv, Sound, NEW s \in Slabs
    PROVE  PopulateErrors(s) = {}
BY FreeExact DEF CachesInv, Sound, PopulateErrors

LEMMA JudgeAsk ==
    ASSUME CachesInv, JudgeInv, NEW o \in Objs, Ask(o)
    PROVE  JudgeInv'
<1> DEFINE s == o[1]
<1>1. /\ mem' = mem /\ page_slab' = page_slab /\ checks' = [x \in Slabs |-> 0]
      /\ run = NoRun /\ run' = NoRun /\ s \in Slabs
    BY DEF Ask, Reset, Objs
<1>2. /\ errors \subseteq errors' /\ outcome' # "checked"
      /\ \/ array_caches' = array_caches
         \/ array_caches' = get_array_caches /\ GetErrors \subseteq errors'
      /\ outcome' = "raised" => errors' # {} /\ (PopulateRaises(s) \/ GetRaises)
      /\ \/ PopulateRaises(s) \/ GetRaises
         \/ errors' \subseteq errors \cup PopulateErrors(s) \cup GetErrors
    BY DEF Ask
<1>3. /\ StaticOK /\ Judgement(run, checks, errors, off_slab_cache, outcome, array_caches)
    BY DEF JudgeInv
<1>4. array_caches' = array_caches \/ FillErrors \subseteq errors'
    BY <1>2, <1>3, FillKept
<1>5. Sound => /\ ~PopulateRaises(s) /\ ~GetRaises /\ PopulateErrors(s) = {} /\ GetErrors = {}
               /\ errors \subseteq Allowed
    BY <1>1, <1>3, NothingRaises, NoBadIndex DEF StaticOK, GetErrors, Judgement, Clean
<1>6. outcome' = "raised" => errors' # {} /\ mem.fault[1] # "off"
    BY <1>2, <1>5 DEF Sound
<1>7. Clean(run', errors')
    BY <1>1, <1>2, <1>5 DEF Clean
<1> QED
    BY <1>1, <1>2, <1>4, <1>6, <1>7, ResetStep

LEMMA JudgeAllocated ==
    ASSUME CachesInv, JudgeInv, GetAllocatedObjects
    PROVE  JudgeInv'
<1>1. /\ mem' = mem /\ page_slab' = page_slab /\ checks' = [x \in Slabs |-> 0]
      /\ run = NoRun /\ run' = NoRun /\ outcome' = "listed"
    BY DEF GetAllocatedObjects, Reset
<1>2. /\ errors \subseteq errors'
      /\ \/ array_caches' = array_caches
         \/ array_caches' = get_array_caches /\ GetErrors \subseteq errors'
      /\ errors' \subseteq errors \cup (UNION {PopulateErrors(s) : s \in Listed}) \cup GetErrors
    BY DEF GetAllocatedObjects
<1>3. /\ StaticOK /\ Judgement(run, checks, errors, off_slab_cache, outcome, array_caches)
    BY DEF JudgeInv
<1>4. array_caches' = array_caches \/ FillErrors \subseteq errors'
    BY <1>2, <1>3, FillKept
<1>5. Sound => /\ \A s \in Slabs : PopulateErrors(s) = {}
               /\ GetErrors = {} /\ errors \subseteq Allowed
    BY <1>3, NoBadIndex DEF StaticOK, GetErrors, Judgement, Clean
<1>6. Clean(run', errors')
    BY <1>1, <1>2, <1>5 DEF Clean, Listed
<1> QED
    BY <1>1, <1>2, <1>4, <1>6, ResetStep

LEMMA JudgeCheckAll ==
    ASSUME JudgeInv, CheckAll
    PROVE  JudgeInv'
<1> DEFINE q == InOrder(Nodes)
           p == run'
<1>1. /\ mem' = mem /\ page_slab' = page_slab /\ checks' = [s \in Slabs |-> 0]
      /\ errors' = errors /\ array_caches' = array_caches /\ outcome' = "none"
      /\ p = Pass(q, slab_partial, FALSE, 0)
    BY DEF CheckAll
<1>2. Nodes \subseteq Range(q)
    <2>1. Nodes \in SUBSET Nat /\ IsFiniteSet(Nodes)
        BY SlabAssumption
    <2>2. q \in Seq(Nodes) /\ \A x \in Nodes : \E i \in 1..Len(q) : q[i] = x
        BY <2>1, OrderListed
    <2> HIDE DEF q
    <2>3. DOMAIN q = 1..Len(q)
        BY <2>2
    <2> QED
        BY <2>2, <2>3 DEF Range
<1> HIDE DEF p, q
<1>3. p.nids = q /\ p.free = 0 /\ p.misplaced = 0
    <2>1. ASSUME NEW type, NEW rev \in BOOLEAN, NEW free, p = Pass(q, type, rev, free)
          PROVE  p.nids = q /\ p.free = free /\ p.misplaced = 0
        BY <2>1, PassStart
    <2>2. FALSE \in BOOLEAN
        OBVIOUS
    <2> QED
        BY <1>1, <2>1, <2>2
<1>4. Clean(run, errors)
    BY DEF JudgeInv, Judgement
<1>5. Clean(run', errors') /\ run'.free = 0 /\ Nodes \subseteq Range(run'.nids)
    BY <1>1, <1>2, <1>3, <1>4 DEF Clean, p
<1> QED
    BY <1>1, <1>5, ResetStep

LEMMA JudgeRaises ==
    ASSUME CachesInv, JudgeInv, WalkRaises
    PROVE  JudgeInv'
<1>1. /\ mem' = mem /\ page_slab' = page_slab /\ checks' = checks /\ run' = NoRun
      /\ outcome' = "raised" /\ errors' = errors \cup {"exception"}
      /\ array_caches' = array_caches /\ off_slab_cache' = off_slab_cache
      /\ run.at \in Slabs /\ ~Readable(run.at)
    BY DEF WalkRaises, Raise
<1>2. /\ StaticOK /\ Judgement(run, checks, errors, off_slab_cache, outcome, array_caches)
    BY DEF JudgeInv
<1>3. ~Sound
    BY <1>1, <1>2, NothingRaises
<1> DEFINE e == errors'
<1>4. errors \subseteq e /\ e # {}
    BY <1>1
<1> HIDE DEF e
<1>5. mem.fault[1] # "link" => CheckedOK(checks, e, off_slab_cache)
    <2>1. ASSUME NEW s, OffAgrees(s, errors, off_slab_cache) PROVE OffAgrees(s, e, off_slab_cache)
        BY <1>4, <2>1 DEF OffAgrees
    <2> QED
        BY <1>2, <1>4, <2>1 DEF Judgement, CheckedOK
<1>6. Clean(NoRun, e) /\ FreeOK(NoRun, checks) /\ NodesOK(NoRun, e, "raised")
    BY <1>3 DEF Clean, FreeOK, NodesOK
<1>7. Judgement(NoRun, checks, e, off_slab_cache, "raised", array_caches)
    BY <1>2, <1>3, <1>4, <1>5, <1>6 DEF Judgement, Sound
<1>8. Judgement(run', checks', errors', off_slab_cache', outcome', array_caches')
    BY <1>1, <1>7 DEF e
<1> QED
    BY <1>1, <1>2, <1>8, SameStatic DEF JudgeInv

LEMMA JudgeStep ==
    ASSUME CountInv, VisitInv, JudgeInv, [Next]_vars
    PROVE  JudgeInv'
<1>0. /\ CachesInv /\ StaticOK
      /\ Judgement(run, checks, errors, off_slab_cache, outcome, array_caches)
    BY DEF CountInv, JudgeInv
<1>1. CASE CheckAll
    BY <1>1, JudgeCheckAll
<1>2. CASE \E o \in Objs : Ask(o)
    BY <1>0, <1>2, JudgeAsk
<1>3. CASE GetAllocatedObjects
    BY <1>0, <1>3, JudgeAllocated
<1>4. Sound => mem.fault[1] # "link"
    BY DEF Sound
<1>5. CASE WalkEnds
    <2>1. /\ run # NoRun /\ run.pc = "walk" /\ EndPass(run.pending) /\ run.pc # "node"
          /\ mem' = mem /\ page_slab' = page_slab /\ checks' = checks /\ outcome' = outcome
          /\ array_caches' = array_caches /\ off_slab_cache' = off_slab_cache
        BY <1>5 DEF WalkEnds
    <2>2. Sound => run.pending = FALSE
        BY <1>4, <2>1, StraightPass
    <2> QED
        BY <2>1, <2>2, JudgeEnd
<1>6. CASE WalkFails
    <2>1. /\ run # NoRun /\ run.pc = "walk" /\ EndPass(TRUE) /\ run.pc # "node" /\ run.at \in run.seen
          /\ mem' = mem /\ page_slab' = page_slab /\ checks' = checks /\ outcome' = outcome
          /\ array_caches' = array_caches /\ off_slab_cache' = off_slab_cache
        BY <1>6 DEF WalkFails
    <2>2. ~Sound
        BY <1>4, <2>1, StraightPass
    <2> QED
        BY <2>1, <2>2, JudgeEnd
<1>7. CASE WalkNull
    <2>1. /\ run # NoRun /\ run.pc = "null" /\ EndPass(TRUE) /\ run.pc # "node" /\ run.pc # "walk"
          /\ mem' = mem /\ page_slab' = page_slab /\ checks' = checks /\ outcome' = outcome
          /\ array_caches' = array_caches /\ off_slab_cache' = off_slab_cache
        BY <1>7 DEF WalkNull
    <2>2. ~Sound
        BY <1>4, <2>1, StraightPass
    <2> QED
        BY <2>1, <2>2, JudgeEnd
<1>8. CASE WalkRaises
    BY <1>0, <1>8, JudgeRaises
<1>9. CASE SkipHead
    <2>1. /\ Here /\ run.at \in Heads /\ run' = GoOn(Entered) /\ errors \subseteq errors'
          /\ mem' = mem /\ page_slab' = page_slab /\ checks' = checks /\ outcome' = outcome
          /\ array_caches' = array_caches /\ off_slab_cache' = off_slab_cache
        BY <1>9 DEF SkipHead
    <2>2. run # NoRun /\ run.pc # "node" /\ run.at # head
        BY <2>1 DEF Here
    <2>3. ~Sound
        BY <1>4, <2>1, <2>2, StraightPass
    <2> QED
        BY <2>1, <2>3, JudgeSkip
<1>10. CASE CheckCannot
    <2>1. /\ Here /\ run.at \in Slabs /\ run' = GoOn(Entered) /\ errors \subseteq errors'
          /\ mem' = mem /\ page_slab' = page_slab /\ checks' = checks /\ outcome' = outcome
          /\ PopulateRaises(run.at) \/ GetRaises
        BY <1>10 DEF CheckCannot
    <2>2. /\ \/ array_caches' = array_caches
             \/ array_caches' = get_array_caches /\ GetErrors \subseteq errors'
          /\ off_slab_cache' = off_slab_cache \/ off_slab_cache' = NextOffSlabCache(run.at)
        BY <1>10 DEF CheckCannot
    <2>3. ~Sound
        BY <1>0, <2>1, NothingRaises
    <2>4. array_caches' = array_caches \/ FillErrors \subseteq errors'
        BY <1>0, <2>1, <2>2, FillKept
    <2>5. off_slab_cache' = off_slab_cache \/ off_slab_cache = "unknown"
        BY <2>2 DEF NextOffSlabCache
    <2> QED
        BY <2>1, <2>3, <2>4, <2>5, JudgeSkip
<1>11. CASE CheckSlab
    BY <1>11, JudgeCheckSlab
<1>12. CASE EndNode
    BY <1>12, JudgeEndNode
<1>13. CASE UNCHANGED vars
    <2>1. /\ mem' = mem /\ page_slab' = page_slab /\ run' = run /\ checks' = checks
          /\ errors' = errors /\ off_slab_cache' = off_slab_cache /\ outcome' = outcome
          /\ array_caches' = array_caches
        BY <1>13 DEF vars
    <2>2. Judgement(run', checks', errors', off_slab_cache', outcome', array_caches')
        BY <1>0, <2>1
    <2> QED
        BY <1>0, <2>1, <2>2, SameStatic DEF JudgeInv
<1> QED
    BY <1>1, <1>2, <1>3, <1>5, <1>6, <1>7, <1>8, <1>9, <1>10, <1>11, <1>12, <1>13 DEF Next, Step

-----------------------------------------------------------------------------
(* What a fault leaves to be seen.                                           *)

\* The dump of a kernel: each object has one slot at most, in a cache for its
\* node, and the counts of the nodes are right.
FreeAtNode(m, n) == {o \in Objs : m.nid[o[1]] = n /\ m.obj[o] = InSlab}
OneSlot(m) ==
    /\ \A c \in Caches : \A i \in DOMAIN m.ac[c] :
           /\ m.obj[m.ac[c][i]] = c
           /\ \A j \in DOMAIN m.ac[c] : m.ac[c][i] = m.ac[c][j] => i = j
    /\ \A o \in Objs : m.obj[o] \in Caches => m.obj[o][3] = m.nid[o[1]]
NodesAsKept(m) == \A n \in Nodes : m.free_objects[n] = Cardinality(FreeAtNode(m, n))
BaseOK(m) ==
    /\ KernelDump(m) /\ OneSlot(m) /\ NodesAsKept(m)
    /\ m.absentPages = {} /\ m.absentBufctl = {} /\ m.off_slab = FALSE
    /\ m.free_objects \in [Nodes -> Nat] /\ m.inuse \in [Slabs -> 0..NObj]
    /\ m.chain \in [Slabs -> Seq(Nat)] /\ m.freelist \in [Slabs -> Seq(Nat)]
    /\ \A s \in Slabs : Len(m.freelist[s]) = NObj

LEMMA MemoryBase ==
    ASSUME NEW w \in Worlds, NEW isPage \in BOOLEAN
    PROVE  BaseOK(Memory(w[1], w[2], isPage))
<1> DEFINE nid == w[1]
           obj == w[2]
           m == Memory(nid, obj, isPage)
           inuse == [s \in Slabs |-> Len(UsedIn(obj, s))]
           chain == [s \in Slabs |-> FreeIn(obj, s)]
           freelist == [s \in Slabs |-> UsedIn(obj, s) \o FreeIn(obj, s)]
           ac == [c \in Caches |-> SetToSeq({o \in Objs : obj[o] = c})]
           free_objects == [n \in Nodes |->
               Cardinality({o \in Objs : nid[o[1]] = n /\ obj[o] = InSlab})]
<1>1. /\ nid \in [Slabs -> Nodes] /\ obj \in [Objs -> ObjStates]
      /\ \A o \in Objs : obj[o] \in Caches => obj[o][3] = nid[o[1]]
    BY DEF Worlds, ObjStates
<1> HIDE DEF nid, obj
<1>2. KernelDump(m)
    BY <1>1, MemoryShape
<1>3. /\ m.inuse = inuse /\ m.chain = chain /\ m.freelist = freelist /\ m.ac = ac
      /\ m.free_objects = free_objects /\ m.nid = nid /\ m.obj = obj
      /\ m.absentPages = {} /\ m.absentBufctl = {} /\ m.off_slab = FALSE
    BY DEF Memory
<1>4. ASSUME NEW c \in Caches
      PROVE  \A i \in DOMAIN ac[c] : /\ obj[ac[c][i]] = c
                                     /\ \A j \in DOMAIN ac[c] : ac[c][i] = ac[c][j] => i = j
    <2> DEFINE S == {o \in Objs : obj[o] = c}
    <2>1. IsFiniteSet(S)
        BY ObjsFinite, FS_Subset
    <2>2. ac[c] = SetToSeq(S) /\ (\A o \in S : obj[o] = c)
        OBVIOUS
    <2> HIDE DEF S, ac
    <2>3. /\ SetToSeq(S) \in Seq(S)
          /\ \A i, j \in DOMAIN SetToSeq(S) : SetToSeq(S)[i] = SetToSeq(S)[j] => i = j
        BY <2>1, SetListed
    <2>4. \A i \in DOMAIN SetToSeq(S) : SetToSeq(S)[i] \in S
        BY <2>3
    <2> QED
        BY <2>2, <2>3, <2>4
<1>5. ASSUME NEW n \in Nodes
      PROVE  free_objects[n] = Cardinality(FreeAtNode(m, n)) /\ free_objects[n] \in Nat
    <2>1. free_objects[n] = Cardinality({o \in Objs : nid[o[1]] = n /\ obj[o] = InSlab})
        OBVIOUS
    <2>2. FreeAtNode(m, n) = {o \in Objs : nid[o[1]] = n /\ obj[o] = InSlab}
        BY <1>3 DEF FreeAtNode
    <2>3. IsFiniteSet(FreeAtNode(m, n))
        BY ObjsFinite, FS_Subset DEF FreeAtNode
    <2> QED
        BY <2>1, <2>2, <2>3, FS_CardinalityType
<1>6. ASSUME NEW s \in Slabs
      PROVE  /\ inuse[s] \in 0..NObj /\ chain[s] \in Seq(Nat) /\ freelist[s] \in Seq(Nat)
             /\ Len(freelist[s]) = NObj
    <2> DEFINE u == UsedIn(obj, s)
               f == FreeIn(obj, s)
               F == FreeSet(obj, s)
    <2>1. u \in Seq(Indices \ F) /\ Len(u) + Len(f) = NObj /\ Lists(f, F)
        BY IndexSets
    <2>2. F \subseteq Nat /\ Indices \ F \subseteq Nat
        BY SlabAssumption DEF FreeSet, Indices
    <2>3. inuse[s] = Len(u) /\ chain[s] = f /\ freelist[s] = u \o f
        OBVIOUS
    <2> HIDE DEF u, f, F, inuse, chain, freelist
    <2>4. u \in Seq(Nat) /\ f \in Seq(Nat)
        BY <2>1, <2>2, SeqMonotonic DEF Lists
    <2>5. u \o f \in Seq(Nat) /\ Len(u \o f) = Len(u) + Len(f)
        BY <2>4, ConcatProperties
    <2>6. Len(u) \in Nat /\ Len(f) \in Nat /\ NObj \in Nat
        BY <2>4, SlabAssumption
    <2> QED
        BY <2>1, <2>3, <2>4, <2>5, <2>6
<1>7. /\ inuse = [s \in Slabs |-> inuse[s]] /\ chain = [s \in Slabs |-> chain[s]]
      /\ freelist = [s \in Slabs |-> freelist[s]]
      /\ free_objects = [n \in Nodes |-> free_objects[n]]
    OBVIOUS
<1> HIDE DEF inuse, chain, freelist, ac, free_objects, m
<1>8. /\ inuse \in [Slabs -> 0..NObj] /\ chain \in [Slabs -> Seq(Nat)]
      /\ freelist \in [Slabs -> Seq(Nat)] /\ free_objects \in [Nodes -> Nat]
    BY <1>5, <1>6, <1>7
<1>9. OneSlot(m)
    BY <1>1, <1>3, <1>4 DEF OneSlot
<1>10. NodesAsKept(m)
    BY <1>3, <1>5 DEF NodesAsKept
<1>11. BaseOK(m)
    BY <1>2, <1>3, <1>6, <1>8, <1>9, <1>10 DEF BaseOK
<1> QED
    BY <1>11 DEF m, nid, obj

\* Indices that are not bad belong to the slab.
LEMMA FreeTyped ==
    ASSUME NEW s \in Slabs, FreeIndices(s) \in Seq(Nat)
    PROVE  FreeOf(s) \subseteq ObjsOf(s)
<1> DEFINE q == FreeIndices(s)
<1>1. DOMAIN q = 1..Len(q) /\ \A k \in DOMAIN q : q[k] \in Nat /\ k \in Nat
    OBVIOUS
<1>2. \A k \in DOMAIN q : k \notin BadAt(s) => q[k] \in 0..(NObj - 1)
    BY <1>1, SlabAssumption DEF BadAt, Bad
<1>3. \A k \in DOMAIN q : (\A b \in BadAt(s) : k < b) => k \notin BadAt(s)
    BY <1>1
<1>4. \A o \in FreeOf(s) : \E k \in DOMAIN q : k \notin BadAt(s) /\ o = <<s, q[k]>>
    BY <1>3 DEF FreeOf
<1> QED
    BY <1>2, <1>4 DEF ObjsOf

LEMMA IndicesTyped ==
    ASSUME NEW s \in Slabs, mem.chain[s] \in Seq(Nat), mem.freelist[s] \in Seq(Nat),
           Len(mem.freelist[s]) = NObj, mem.inuse[s] \in 0..NObj
    PROVE  /\ FreeIndices(s) \in Seq(Nat)
           /\ page_slab => /\ Len(FreeIndices(s)) = NObj - mem.inuse[s]
                           /\ \A k \in 1..(NObj - mem.inuse[s]) :
                                  FreeIndices(s)[k] = mem.freelist[s][mem.inuse[s] + k]
<1> DEFINE f == mem.freelist[s]
           a == mem.inuse[s]
           t == SubSeq(f, a + 1, NObj)
<1>1. NObj \in Nat /\ a \in 0..NObj /\ a \in Nat /\ f \in Seq(Nat) /\ Len(f) = NObj
    BY SlabAssumption
<1>2. FreeIndices(s) = IF page_slab THEN t ELSE mem.chain[s]
    BY DEF FreeIndices
<1> HIDE DEF f, a
<1>3. \A i \in (a + 1)..NObj : f[i] \in Nat
    BY <1>1
<1>4. /\ t \in Seq(Nat)
      /\ Len(t) = IF a + 1 <= NObj THEN NObj - (a + 1) + 1 ELSE 0
      /\ \A i \in 1..(NObj - (a + 1) + 1) : t[i] = f[(a + 1) + i - 1]
    BY <1>1, <1>3, SubSeqProperties
<1>5. Len(t) = NObj - a /\ \A k \in 1..(NObj - a) : t[k] = f[a + k]
    <2>1. NObj - (a + 1) + 1 = NObj - a /\ (a + 1 <= NObj \/ NObj - a = 0)
        BY <1>1
    <2> HIDE DEF t
    <2>2. Len(t) = NObj - a /\ \A i \in 1..(NObj - a) : t[i] = f[(a + 1) + i - 1]
        BY <1>4, <2>1
    <2>3. \A k \in 1..(NObj - a) : (a + 1) + k - 1 = a + k
        BY <1>1
    <2> QED
        BY <2>2, <2>3
<1> HIDE DEF t
<1> QED
    BY <1>2, <1>4, <1>5 DEF f, a

LEMMA FreeOnExact ==
    ASSUME \A s \in Slabs : KeptAt(s), NEW n
    PROVE  FreeOn(n) = FreeAtNode(mem, n)
<1>1. \A s \in Slabs : FreeOf(s) = {o \in ObjsOf(s) : mem.obj[o] = InSlab}
    BY FreeAt
<1>2. \A o : o \in Objs <=> \E s \in Slabs : o \in ObjsOf(s) /\ o[1] = s
    BY DEF Objs, ObjsOf
<1>3. \A s \in Slabs : \A o \in ObjsOf(s) : o[1] = s
    BY DEF ObjsOf
<1> QED
    BY <1>1, <1>2, <1>3 DEF FreeOn, FreeAtNode

-----------------------------------------------------------------------------
(* The order of the slots.                                                   *)

LEMMA TurnsApart ==
    ASSUME DumpOK(mem), NEW e \in Slots, NEW f \in Slots, \A i \in 1..4 : Turn(e)[i] = Turn(f)[i]
    PROVE  e = f
<1>1. /\ e[1] \in Caches /\ f[1] \in Caches /\ e = <<e[1], e[2]>> /\ f = <<f[1], f[2]>>
    BY DEF Slots
<1> DEFINE c == e[1]
           d == f[1]
<1>2. Turn(e)[1] = Turn(f)[1] /\ Turn(e)[2] = Turn(f)[2] /\ Turn(e)[3] = Turn(f)[3]
      /\ Turn(e)[4] = Turn(f)[4]
    OBVIOUS
<1>3. /\ (IF c[1] = "percpu" THEN 0 ELSE 1) = (IF d[1] = "percpu" THEN 0 ELSE 1)
      /\ c[2] = d[2] /\ e[2] = f[2]
      /\ (IF c[1] = "alien" THEN c[3] + 1 ELSE 0) = (IF d[1] = "alien" THEN d[3] + 1 ELSE 0)
    BY <1>2 DEF Turn
<1>4. ASSUME NEW x \in Caches
      PROVE  /\ x = <<x[1], x[2], x[3]>> /\ x[3] \in Nat /\ x[1] \in {"percpu", "shared", "alien"}
             /\ x[1] # "alien" => x[3] = x[2]
    <2>1. Nodes \subseteq Nat /\ CPUs \subseteq Nat
        BY SlabAssumption
    <2>2. CASE x \in PerCpu
        BY <2>1, <2>2 DEF PerCpu
    <2>3. CASE x \in Shared
        BY <2>1, <2>3 DEF Shared
    <2>4. CASE x \in Alien
        <3>1. PICK y \in Nodes \X Nodes : x = <<"alien", y[1], y[2]>>
            BY <2>4 DEF Alien
        <3> QED
            BY <2>1, <3>1
    <2> QED
        BY <2>2, <2>3, <2>4 DEF Caches
<1>5. c \in Caches /\ d \in Caches
    BY <1>1
<1> HIDE DEF c, d
<1>6. c[1] = d[1] /\ c[3] = d[3]
    BY <1>3, <1>4, <1>5
<1>7. c = d
    BY <1>3, <1>4, <1>5, <1>6
<1> QED
    BY <1>1, <1>3, <1>7 DEF c, d

LEMMA BeforeTotal ==
    ASSUME DumpOK(mem), NEW e \in Slots, NEW f \in Slots, e # f
    PROVE  Before(e, f) \/ Before(f, e)
<1> DEFINE a == Turn(e)
           b == Turn(f)
<1>1. \A i \in 1..4 : a[i] \in Nat /\ b[i] \in Nat
    BY TurnType
<1>2. \E i \in 1..4 : a[i] # b[i]
    BY TurnsApart
<1>3. ASSUME NEW i \in 1..4, a[i] # b[i], \A k \in 1..(i - 1) : a[k] = b[k]
      PROVE  Before(e, f) \/ Before(f, e)
    <2>1. a[i] < b[i] \/ b[i] < a[i]
        BY <1>1, <1>3
    <2> QED
        BY <1>3, <2>1 DEF Before
<1> HIDE DEF a, b
<1>4. CASE a[1] # b[1]
    <2>1. 1 \in 1..4 /\ \A k \in 1..(1 - 1) : a[k] = b[k]
        OBVIOUS
    <2> QED
        BY <1>3, <1>4, <2>1
<1>5. CASE a[1] = b[1] /\ a[2] # b[2]
    <2>1. 2 \in 1..4 /\ \A k \in 1..(2 - 1) : a[k] = b[k]
        BY <1>5
    <2> QED
        BY <1>3, <1>5, <2>1
<1>6. CASE a[1] = b[1] /\ a[2] = b[2] /\ a[3] # b[3]
    <2>1. 3 \in 1..4 /\ \A k \in 1..(3 - 1) : a[k] = b[k]
        BY <1>6
    <2> QED
        BY <1>3, <1>6, <2>1
<1>7. CASE a[1] = b[1] /\ a[2] = b[2] /\ a[3] = b[3] /\ a[4] # b[4]
    <2>1. 4 \in 1..4 /\ \A k \in 1..(4 - 1) : a[k] = b[k]
        BY <1>7
    <2> QED
        BY <1>3, <1>7, <2>1
<1>8. \A i \in 1..4 : i = 1 \/ i = 2 \/ i = 3 \/ i = 4
    OBVIOUS
<1> QED
    BY <1>2, <1>4, <1>5, <1>6, <1>7, <1>8

\* A fill of caches that hold each object once has nothing to report.
LEMMA NoFillErrors ==
    ASSUME DumpOK(mem), OneSlot(mem), mem.pageNid = mem.nid
    PROVE  FillErrors = {}
<1>1. ASSUME NEW e \in Slots, NEW f \in Slots, Entry(f) = Entry(e)
      PROVE  f = e
    <2>1. /\ e[1] \in Caches /\ e[2] \in DOMAIN mem.ac[e[1]]
          /\ f[1] \in Caches /\ f[2] \in DOMAIN mem.ac[f[1]]
        BY TurnType
    <2>2. e = <<e[1], e[2]>> /\ f = <<f[1], f[2]>>
        BY DEF Slots
    <2>3. e[1] = f[1]
        BY <1>1, <2>1 DEF OneSlot, Entry
    <2>4. e[2] = f[2]
        BY <1>1, <2>1, <2>3 DEF OneSlot, Entry
    <2> QED
        BY <2>2, <2>3, <2>4
<1>2. ASSUME NEW e \in Slots PROVE First(e)
    <2>1. ~Before(e, e)
        BY TurnType DEF Before
    <2> QED
        BY <1>1, <2>1 DEF First
<1>3. ASSUME NEW e \in Slots PROVE mem.pageNid[Entry(e)[1]] = e[1][3]
    <2>1. /\ e[1] \in Caches /\ e[2] \in DOMAIN mem.ac[e[1]] /\ Entry(e) \in Objs
        BY TurnType
    <2>2. mem.obj[Entry(e)] = e[1]
        BY <2>1 DEF OneSlot, Entry
    <2> QED
        BY <2>1, <2>2 DEF OneSlot
<1> QED
    BY <1>2, <1>3 DEF FillErrors, Reached

-----------------------------------------------------------------------------
(* The faults, one by one.                                                   *)

LEMMA AllKept ==
    ASSUME DumpOK(mem), mem.fault[1] \notin {"index", "inuse"}
    PROVE  \A s \in Slabs : KeptAt(s)
BY DEF DumpOK, SlabsAsKept, KeptAt

LEMMA KeptTyped ==
    ASSUME DumpOK(mem), mem.fault[1] \notin {"index", "inuse"}, NEW s \in Slabs
    PROVE  FreeOf(s) \subseteq ObjsOf(s)
BY FreeExact

\* The nodes of a dump whose slabs are as they were are counted right.
LEMMA CountsRight ==
    ASSUME NEW m, BaseOK(m), DumpOK(mem), mem.fault[1] \notin {"index", "inuse"},
           SameWorld(mem, m), NEW n \in Nodes
    PROVE  Cardinality(FreeOn(n)) = m.free_objects[n] /\ m.free_objects[n] \in Nat
<1>1. FreeOn(n) = FreeAtNode(mem, n)
    BY AllKept, FreeOnExact
<1>2. FreeAtNode(mem, n) = FreeAtNode(m, n)
    BY DEF FreeAtNode, SameWorld
<1> QED
    BY <1>1, <1>2 DEF BaseOK, NodesAsKept

LEMMA SoundStatic ==
    ASSUME NEW m, BaseOK(m), DumpOK(mem), Sound, SameWorld(mem, m), mem.ac = m.ac,
           mem.free_objects = m.free_objects, mem.pageNid = m.pageNid,
           mem.slabFlag = m.slabFlag, mem.cachePtr = m.cachePtr, mem.slabPtr = m.slabPtr,
           mem.absentPages = {}, mem.absentBufctl = {}, mem.fault[1] = "off" => OffShows
    PROVE  StaticOK
<1>1. mem.fault[1] \notin {"index", "inuse"} /\ (mem.fault[1] = "none" \/ mem.fault[1] = "off")
    BY DEF Sound
<1>2. PagesAsKept(m) /\ OneSlot(m)
    BY DEF BaseOK, KernelDump
<1>3. SoundPages(mem)
    BY <1>2 DEF SoundPages, PagesAsKept, SameWorld
<1>4. OneSlot(mem)
    BY <1>2 DEF OneSlot, SameWorld
<1>5. FillErrors = {}
    BY <1>3, <1>4, NoFillErrors DEF SoundPages
<1>6. \A n \in Nodes : ~Mismatched(n)
    BY <1>1, CountsRight DEF Mismatched
<1> QED
    BY <1>1, <1>3, <1>5, <1>6, KeptTyped DEF StaticOK

LEMMA FlawStatic ==
    ASSUME DumpOK(mem), ~Sound, mem.fault[1] = "link" \/ Shows,
           mem.fault[1] \in {"index", "inuse"} => \A s \in Slabs : FreeOf(s) \subseteq ObjsOf(s)
    PROVE  StaticOK
BY KeptTyped DEF StaticOK, Sound

LEMMA EntryFiled ==
    ASSUME DumpOK(mem), NEW e \in Slots, mem.absentPages = {}
    PROVE  Entry(e) \in CachedObjs(Filled)
<1>1. PICK f \in Slots : Entry(f) = Entry(e) /\ First(f)
    BY FirstExists
<1>2. f \in Reached
    BY DEF Reached, Unreadable
<1>3. <<Entry(f), f[1]>> \in Filled
    BY <1>1, <1>2 DEF Filled
<1>4. <<Entry(f), f[1]>>[1] = Entry(e)
    BY <1>1
<1> QED
    BY <1>3, <1>4 DEF CachedObjs

LEMMA AppendedSlot ==
    ASSUME NEW m, DOMAIN m = Fields, m.ac \in [Caches -> Seq(Objs)], NEW c \in Caches,
           NEW o \in Objs, NEW w, mem = [m EXCEPT !.ac[c] = Append(@, o), !.fault = <<w, o>>]
    PROVE  /\ SameWorld(mem, m) /\ mem.absentPages = m.absentPages /\ mem.fault[1] = w
           /\ <<c, Len(m.ac[c]) + 1>> \in Slots /\ Entry(<<c, Len(m.ac[c]) + 1>>) = o
           /\ \A d \in Caches : \A j \in DOMAIN m.ac[d] :
                  /\ <<d, j>> \in Slots /\ Entry(<<d, j>>) = m.ac[d][j]
                  /\ <<d, j>> # <<c, Len(m.ac[c]) + 1>>
<1>1. /\ SameWorld(mem, m) /\ mem.absentPages = m.absentPages
      /\ mem.fault = <<w, o>> /\ mem.ac = [m.ac EXCEPT ![c] = Append(m.ac[c], o)]
    BY DEF Fields, SameWorld
<1> DEFINE l == m.ac[c]
           q == Append(l, o)
           k == Len(l) + 1
<1>2. mem.ac[c] = q /\ (\A d \in Caches : d # c => mem.ac[d] = m.ac[d]) /\ l \in Seq(Objs)
    BY <1>1
<1> HIDE DEF l
<1>3. /\ q \in Seq(Objs) /\ Len(q) = Len(l) + 1 /\ q[Len(l) + 1] = o
      /\ \A i \in 1..Len(l) : q[i] = l[i]
    BY <1>2, AppendProperties
<1> HIDE DEF q
<1>4. DOMAIN l = 1..Len(l) /\ DOMAIN q = 1..(Len(l) + 1) /\ Len(l) \in Nat
    BY <1>2, <1>3
<1>5. \A d \in Caches : \A j \in DOMAIN mem.ac[d] : <<d, j>> \in Slots
    BY DEF Slots
<1>6. \A d, j : Entry(<<d, j>>) = mem.ac[d][j]
    BY DEF Entry
<1>7. k \in DOMAIN q /\ q[k] = o
    BY <1>3, <1>4
<1>8. <<c, k>> \in Slots /\ Entry(<<c, k>>) = o
    BY <1>2, <1>5, <1>6, <1>7
<1>9. ASSUME NEW d \in Caches, NEW j \in DOMAIN m.ac[d]
      PROVE  <<d, j>> \in Slots /\ Entry(<<d, j>>) = m.ac[d][j] /\ <<d, j>> # <<c, k>>
    <2>1. CASE d = c
        <3>1. j \in 1..Len(l)
            BY <1>4, <1>9, <2>1 DEF l
        <3>2. j \in DOMAIN q /\ q[j] = m.ac[d][j] /\ j # k
            BY <1>3, <1>4, <2>1, <3>1 DEF l
        <3> QED
            BY <1>2, <1>5, <1>6, <2>1, <3>2
    <2>2. CASE d # c
        BY <1>2, <1>5, <1>6, <1>9, <2>2
    <2> QED
        BY <2>1, <2>2
<1> QED
    BY <1>1, <1>8, <1>9 DEF k, l

\* An object that is free in its slab and in an array cache.
LEMMA CachedShows ==
    ASSUME NEW m, BaseOK(m), DumpOK(mem), NEW c \in Caches, NEW o \in Objs,
           Contains(m.chain[o[1]], o[2]),
           mem = [m EXCEPT !.ac[c] = Append(@, o), !.fault = <<"cached", o>>]
    PROVE  mem.fault[1] = "cached" /\ Shows
<1>1. DOMAIN m = Fields /\ m.ac \in [Caches -> Seq(Objs)] /\ m.absentPages = {}
    BY DEF BaseOK, KernelDump, DumpOK, CachesAsKept
<1>2. /\ SameWorld(mem, m) /\ mem.absentPages = m.absentPages /\ mem.fault[1] = "cached"
      /\ <<c, Len(m.ac[c]) + 1>> \in Slots /\ Entry(<<c, Len(m.ac[c]) + 1>>) = o
    BY <1>1, AppendedSlot
<1>3. o[1] \in Slabs /\ o = <<o[1], o[2]>> /\ o \in ObjsOf(o[1])
    BY DEF Objs, ObjsOf
<1>4. mem.obj[o] = InSlab
    <2>1. m.chain[o[1]] = FreeIn(m.obj, o[1])
        BY <1>3 DEF BaseOK, KernelDump, DumpOK, SlabsAsKept
    <2>2. Lists(FreeIn(m.obj, o[1]), FreeSet(m.obj, o[1]))
        BY IndexSets
    <2>3. o[2] \in FreeSet(m.obj, o[1])
        BY <2>1, <2>2 DEF Lists, Contains
    <2> QED
        BY <1>2, <1>3, <2>3 DEF FreeSet, SameWorld
<1>5. o \in FreeOf(o[1])
    BY <1>2, <1>3, <1>4, FreeExact
<1>6. o \in CachedObjs(Filled)
    BY <1>1, <1>2, EntryFiled
<1>7. SlabErrors(o[1]) # {}
    BY <1>5, <1>6 DEF SlabErrors
<1> QED
    BY <1>2, <1>3, <1>7 DEF Shows

\* An object that is in two slots.
LEMMA TwiceShows ==
    ASSUME NEW m, BaseOK(m), DumpOK(mem), NEW c \in Caches,
           NEW o \in UNION {Range(m.ac[d]) : d \in Caches},
           mem = [m EXCEPT !.ac[c] = Append(@, o), !.fault = <<"twice", o>>]
    PROVE  mem.fault[1] = "twice" /\ Shows
<1>1. DOMAIN m = Fields /\ m.ac \in [Caches -> Seq(Objs)] /\ m.absentPages = {}
    BY DEF BaseOK, KernelDump, DumpOK, CachesAsKept
<1>2. PICK d \in Caches : o \in Range(m.ac[d])
    OBVIOUS
<1>3. PICK j \in DOMAIN m.ac[d] : o = m.ac[d][j]
    BY <1>2 DEF Range
<1>4. o \in Objs
    BY <1>1, <1>3
<1> DEFINE e == <<c, Len(m.ac[c]) + 1>>
           f == <<d, j>>
<1>5. /\ mem.absentPages = m.absentPages /\ mem.fault[1] = "twice"
      /\ e \in Slots /\ Entry(e) = o /\ f \in Slots /\ Entry(f) = o /\ f # e
    <2>1. /\ mem.absentPages = m.absentPages /\ mem.fault[1] = "twice"
          /\ <<c, Len(m.ac[c]) + 1>> \in Slots /\ Entry(<<c, Len(m.ac[c]) + 1>>) = o
          /\ \A x \in Caches : \A i \in DOMAIN m.ac[x] :
                 /\ <<x, i>> \in Slots /\ Entry(<<x, i>>) = m.ac[x][i]
                 /\ <<x, i>> # <<c, Len(m.ac[c]) + 1>>
        BY <1>1, <1>4, AppendedSlot
    <2>2. f \in Slots /\ Entry(f) = m.ac[d][j] /\ f # e
        BY <1>3, <2>1
    <2> QED
        BY <1>3, <2>1, <2>2
<1> HIDE DEF e, f
<1>6. Before(e, f) \/ Before(f, e)
    BY <1>5, BeforeTotal
<1>7. ~First(e) \/ ~First(f)
    BY <1>5, <1>6 DEF First
<1>8. e \in Reached /\ f \in Reached
    BY <1>1, <1>5 DEF Reached, Unreadable
<1>9. FillErrors # {}
    BY <1>7, <1>8 DEF FillErrors
<1> QED
    BY <1>5, <1>9 DEF Shows

LEMMA EntrySet ==
    ASSUME NEW g \in Seq(Nat), NEW n \in 1..Len(g), NEW v \in Nat
    PROVE  /\ [g EXCEPT ![n] = v] \in Seq(Nat) /\ Len([g EXCEPT ![n] = v]) = Len(g)
           /\ [g EXCEPT ![n] = v][n] = v
           /\ \A i \in 1..Len(g) : i # n => [g EXCEPT ![n] = v][i] = g[i]
<1>1. DOMAIN g = 1..Len(g)
    OBVIOUS
<1>2. [g EXCEPT ![n] = v][n] = v /\ \A i \in 1..Len(g) : i # n => [g EXCEPT ![n] = v][i] = g[i]
    BY <1>1
<1> QED
    BY <1>2, ExceptSeq

\* An index that is too large, or the first of several a second time.
LEMMA IndexShows ==
    ASSUME NEW m, BaseOK(m), DumpOK(mem), page_slab = mem.isPage, NEW s \in Slabs,
           NEW v \in 0..NObj,
           \/ v = NObj /\ m.chain[s] # <<>>
           \/ Len(m.chain[s]) > 1 /\ v = m.chain[s][1],
           mem = [m EXCEPT !.chain[s] = Append(@, v), !.freelist[s][NObj] = v,
                           !.fault = <<"index", s>>]
    PROVE  /\ mem.fault[1] = "index" /\ Shows
           /\ \A x \in Slabs : FreeOf(x) \subseteq ObjsOf(x)
<1>1. /\ DOMAIN m = Fields /\ m.inuse \in [Slabs -> 0..NObj]
      /\ m.chain \in [Slabs -> Seq(Nat)] /\ m.freelist \in [Slabs -> Seq(Nat)]
      /\ \A x \in Slabs : Len(m.freelist[x]) = NObj
    BY DEF BaseOK, KernelDump
<1>2. /\ m.chain[s] = FreeIn(m.obj, s) /\ m.inuse[s] = Len(UsedIn(m.obj, s))
      /\ m.freelist[s] = UsedIn(m.obj, s) \o FreeIn(m.obj, s)
    BY DEF BaseOK, KernelDump, DumpOK, SlabsAsKept
<1> DEFINE u == UsedIn(m.obj, s)
           l == m.chain[s]
           g == m.freelist[s]
           l2 == Append(l, v)
           g2 == [g EXCEPT ![NObj] = v]
<1>3. /\ mem.chain = [m.chain EXCEPT ![s] = l2] /\ mem.freelist = [m.freelist EXCEPT ![s] = g2]
      /\ mem.inuse = m.inuse /\ mem.fault = <<"index", s>>
    BY <1>1 DEF Fields
<1>4. NObj \in Nat \ {0} /\ v \in Nat
    BY SlabAssumption
<1>5. /\ l \in Seq(Nat) /\ g \in Seq(Nat) /\ Len(g) = NObj /\ g = u \o l /\ m.inuse[s] = Len(u)
      /\ Len(u) + Len(l) = NObj
    BY <1>1, <1>2, IndexSets
<1>6. mem.fault[1] = "index"
    BY <1>3
<1>7. /\ mem.chain[s] = l2 /\ mem.freelist[s] = g2 /\ mem.inuse[s] = m.inuse[s]
      /\ \A x \in Slabs : x # s => mem.chain[x] = m.chain[x] /\ mem.freelist[x] = m.freelist[x]
    BY <1>1, <1>3
<1>8. u \in Seq(Nat)
    <2>1. u \in Seq(Indices \ FreeSet(m.obj, s))
        BY IndexSets
    <2>2. Indices \ FreeSet(m.obj, s) \subseteq Nat
        BY SlabAssumption DEF Indices
    <2> HIDE DEF u
    <2> QED
        BY <2>1, <2>2, SeqMonotonic
<1> HIDE DEF u, l, g
<1>9. /\ l2 \in Seq(Nat) /\ Len(l2) = Len(l) + 1 /\ l2[Len(l) + 1] = v
      /\ \A i \in 1..Len(l) : l2[i] = l[i]
    BY <1>4, <1>5, AppendProperties
<1>10. g2 \in Seq(Nat) /\ Len(g2) = NObj /\ g2[NObj] = v
       /\ \A i \in 1..NObj : i # NObj => g2[i] = g[i]
    <2>1. NObj \in 1..Len(g)
        BY <1>4, <1>5
    <2>2. g \in Seq(Nat) /\ Len(g) = NObj
        BY <1>5
    <2>3. /\ g2 \in Seq(Nat) /\ Len(g2) = Len(g) /\ g2[NObj] = v
          /\ \A i \in 1..Len(g) : i # NObj => g2[i] = g[i]
        BY <1>4, <2>1, <2>2, EntrySet
    <2> HIDE DEF g2
    <2> QED
        BY <2>2, <2>3
<1> HIDE DEF l2, g2
<1>11. ASSUME NEW x \in Slabs
       PROVE  /\ mem.chain[x] \in Seq(Nat) /\ mem.freelist[x] \in Seq(Nat)
              /\ Len(mem.freelist[x]) = NObj /\ mem.inuse[x] \in 0..NObj
    BY <1>1, <1>3, <1>7, <1>9, <1>10
<1>12. \A x \in Slabs : FreeOf(x) \subseteq ObjsOf(x)
    BY <1>11, IndicesTyped, FreeTyped
<1> DEFINE q == FreeIndices(s)
<1>13. /\ Len(l) \in Nat \ {0} /\ Len(u) \in Nat
       /\ v = NObj \/ (Len(l) > 1 /\ v = l[1])
    <2>1. l # <<>> => Len(l) # 0
        BY <1>5
    <2> QED
        BY <1>5, <1>8, <2>1 DEF l
<1>14. ASSUME NEW k \in DOMAIN q, q[k] = v, v = NObj \/ (k > 1 /\ q[1] = v), k \in Nat
       PROVE  BadAt(s) # {}
    <2>1. v = NObj => q[k] >= NObj
        BY <1>4, <1>14
    <2>2. k > 1 => 1 \in 1..(k - 1)
        BY <1>14
    <2>3. Bad(q, k)
        BY <1>14, <2>1, <2>2 DEF Bad
    <2> QED
        BY <1>14, <2>3 DEF BadAt
<1>15. ASSUME ~page_slab PROVE BadAt(s) # {}
    <2>1. q = l2
        BY <1>7, <1>15 DEF FreeIndices
    <2>2. Len(l) + 1 \in DOMAIN q /\ Len(l) + 1 > 1 /\ q[1] = l[1] /\ q[Len(l) + 1] = v
        BY <1>9, <1>13, <2>1
    <2> HIDE DEF q
    <2> QED
        BY <1>13, <1>14, <2>2
<1>16. ASSUME page_slab PROVE BadAt(s) # {}
    <2>0. /\ FreeIndices(s) \in Seq(Nat)
          /\ page_slab => /\ Len(FreeIndices(s)) = NObj - mem.inuse[s]
                          /\ \A k \in 1..(NObj - mem.inuse[s]) :
                                 FreeIndices(s)[k] = mem.freelist[s][mem.inuse[s] + k]
        BY <1>11, IndicesTyped
    <2>2. NObj - Len(u) = Len(l) /\ Len(u) + Len(l) = NObj
        BY <1>5, <1>13
    <2> HIDE DEF q
    <2>1. /\ q \in Seq(Nat) /\ Len(q) = Len(l)
          /\ \A k \in 1..Len(l) : q[k] = g2[Len(u) + k]
        <3>1. mem.inuse[s] = Len(u) /\ mem.freelist[s] = g2
            BY <1>5, <1>7
        <3>2. Len(q) = NObj - Len(u) /\ \A k \in 1..(NObj - Len(u)) : q[k] = g2[Len(u) + k]
            BY <1>16, <2>0, <3>1 DEF q
        <3> QED
            BY <2>0, <2>2, <3>2 DEF q
    <2>3. Len(l) \in DOMAIN q /\ q[Len(l)] = v
        BY <1>10, <1>13, <2>1, <2>2
    <2>4. ASSUME Len(l) > 1 PROVE q[1] = l[1]
        <3>0. Len(l) \in Nat /\ Len(u) \in Nat
            BY <1>5, <1>8
        <3>1. q[1] = g2[Len(u) + 1] /\ Len(u) + 1 # NObj /\ Len(u) + 1 \in 1..NObj
            BY <2>1, <2>2, <2>4, <3>0
        <3>2. q[1] = (u \o l)[Len(u) + 1]
            BY <1>5, <1>10, <3>1
        <3>3. \A i \in 1..(Len(u) + Len(l)) :
                  (u \o l)[i] = IF i <= Len(u) THEN u[i] ELSE l[i - Len(u)]
            BY <1>5, <1>8, ConcatProperties
        <3>4. Len(u) + 1 \in 1..(Len(u) + Len(l)) /\ ~(Len(u) + 1 <= Len(u))
              /\ (Len(u) + 1) - Len(u) = 1
            BY <1>13
        <3> QED
            BY <3>2, <3>3, <3>4
    <2> QED
        BY <1>13, <1>14, <2>3, <2>4
<1>17. SlabErrors(s) # {}
    BY <1>15, <1>16 DEF SlabErrors, PopulateErrors
<1> QED
    BY <1>6, <1>12, <1>17 DEF Shows

\* A count of objects in use that is wrong.
LEMMA InuseShows ==
    ASSUME NEW m, BaseOK(m), DumpOK(mem), page_slab = mem.isPage, NEW s \in Slabs,
           NEW v \in 0..NObj, v # m.inuse[s],
           mem = [m EXCEPT !.inuse[s] = v, !.fault = <<"inuse", s>>]
    PROVE  /\ mem.fault[1] = "inuse" /\ Shows
           /\ \A x \in Slabs : FreeOf(x) \subseteq ObjsOf(x)
<1>1. /\ DOMAIN m = Fields /\ m.inuse \in [Slabs -> 0..NObj]
      /\ m.chain \in [Slabs -> Seq(Nat)] /\ m.freelist \in [Slabs -> Seq(Nat)]
      /\ \A x \in Slabs : Len(m.freelist[x]) = NObj
      /\ m.nid \in [Slabs -> Nodes]
    BY DEF BaseOK, KernelDump, DumpOK, WorldOK
<1>2. SlabsAsKept(m) /\ NodesAsKept(m)
    BY DEF BaseOK, KernelDump, DumpOK
<1>3. /\ SameWorld(mem, m) /\ mem.chain = m.chain /\ mem.freelist = m.freelist
      /\ mem.inuse = [m.inuse EXCEPT ![s] = v] /\ mem.fault = <<"inuse", s>>
      /\ mem.free_objects = m.free_objects
    BY <1>1 DEF Fields, SameWorld
<1>4. mem.fault[1] = "inuse"
    BY <1>3
<1>5. mem.inuse[s] = v /\ (\A x \in Slabs : x # s => mem.inuse[x] = m.inuse[x])
      /\ (\A x \in Slabs : mem.inuse[x] \in 0..NObj)
    BY <1>1, <1>3
<1>6. ASSUME NEW x \in Slabs PROVE FreeOf(x) \subseteq ObjsOf(x)
    <2>1. /\ mem.chain[x] \in Seq(Nat) /\ mem.freelist[x] \in Seq(Nat)
          /\ Len(mem.freelist[x]) = NObj /\ mem.inuse[x] \in 0..NObj
        BY <1>1, <1>3, <1>5
    <2>2. FreeIndices(x) \in Seq(Nat)
        BY <2>1, IndicesTyped
    <2> QED
        BY <2>2, FreeTyped
<1>7. ASSUME NEW x \in Slabs, x # s
      PROVE  FreeOf(x) = {o \in ObjsOf(x) : m.obj[o] = InSlab}
    <2>1. mem.obj = m.obj
        BY <1>3 DEF SameWorld
    <2>2. KeptAt(x)
        BY <1>2, <1>3, <1>5, <1>7, <2>1 DEF SlabsAsKept, KeptAt
    <2> QED
        BY <2>1, <2>2, FreeAt
<1> DEFINE n == m.nid[s]
           O == {o \in ObjsOf(s) : m.obj[o] = InSlab}
           R == {o \in FreeAtNode(m, n) : o[1] # s}
           F == FreeOf(s)
<1>8. n \in Nodes
    BY <1>1
<1>9. FreeAtNode(m, n) = R \cup O /\ R \cap O = {}
    BY DEF FreeAtNode, Objs, ObjsOf
<1>10. FreeOn(n) = R \cup F /\ R \cap F = {}
    <2>1. mem.nid = m.nid
        BY <1>3 DEF SameWorld
    <2>2. F \subseteq ObjsOf(s)
        BY <1>6
    <2>3. \A o \in ObjsOf(s) : o[1] = s
        BY DEF ObjsOf
    <2>4. R \cap F = {}
        BY <2>2, <2>3
    <2>5. \A o : o \in R <=> \E x \in Slabs : x # s /\ m.nid[x] = n /\ o \in ObjsOf(x) /\ m.obj[o] = InSlab
        BY DEF FreeAtNode, Objs, ObjsOf
    <2>6. \A o : o \in R <=> \E x \in Slabs : x # s /\ m.nid[x] = n /\ o \in FreeOf(x)
        BY <1>7, <2>5
    <2> HIDE DEF R
    <2>7. \A o : o \in FreeOn(n) <=> \E x \in Slabs : m.nid[x] = n /\ o \in FreeOf(x)
        BY <2>1 DEF FreeOn
    <2> QED
        BY <2>4, <2>6, <2>7
<1>11. IsFiniteSet(R) /\ IsFiniteSet(F) /\ IsFiniteSet(O)
    <2>1. R \subseteq Objs /\ O \subseteq Objs /\ F \subseteq Objs
        BY <1>6 DEF FreeAtNode, Objs, ObjsOf
    <2> HIDE DEF R, O, F
    <2> QED
        BY <2>1, ObjsFinite, FS_Subset
<1>12. Cardinality(O) = NObj - m.inuse[s]
    <2>1. /\ Cardinality(O) = Len(FreeIn(m.obj, s))
          /\ Len(UsedIn(m.obj, s)) + Len(FreeIn(m.obj, s)) = NObj
        BY FreeSize
    <2>2. m.inuse[s] = Len(UsedIn(m.obj, s)) /\ m.inuse[s] \in 0..NObj
        BY <1>1, <1>2 DEF SlabsAsKept
    <2>3. Cardinality(O) \in Nat
        BY <1>11, FS_CardinalityType
    <2> HIDE DEF O
    <2> QED
        BY <2>1, <2>2, <2>3, SlabAssumption
<1> HIDE DEF R, O, F
<1>13. Cardinality(R) \in Nat /\ Cardinality(F) \in Nat /\ Cardinality(O) \in Nat
    BY <1>11, FS_CardinalityType
<1>14. /\ Cardinality(R \cup O) = Cardinality(R) + Cardinality(O)
       /\ Cardinality(R \cup F) = Cardinality(R) + Cardinality(F)
    <2>1. Cardinality({}) = 0
        BY FS_EmptySet
    <2>2. /\ Cardinality(R \cup O) = Cardinality(R) + Cardinality(O) - Cardinality(R \cap O)
          /\ Cardinality(R \cup F) = Cardinality(R) + Cardinality(F) - Cardinality(R \cap F)
        BY <1>11, FS_Union
    <2>3. Cardinality(R \cap O) = 0 /\ Cardinality(R \cap F) = 0
        BY <1>9, <1>10, <2>1
    <2> HIDE DEF n
    <2> QED
        BY <1>13, <2>2, <2>3
<1>15. ASSUME v + Cardinality(F) = NObj PROVE Mismatched(n)
    <2>1. mem.free_objects[n] = Cardinality(R) + Cardinality(O)
        BY <1>2, <1>3, <1>8, <1>9, <1>14 DEF NodesAsKept
    <2>2. Cardinality(FreeOn(n)) = Cardinality(R) + Cardinality(F)
        BY <1>10, <1>14
    <2>3. m.inuse[s] \in Nat /\ v \in Nat /\ NObj \in Nat
        BY <1>1, SlabAssumption
    <2>4. Cardinality(O) # Cardinality(F)
        BY <1>12, <1>13, <1>15, <2>3
    <2> QED
        BY <1>13, <2>1, <2>2, <2>4 DEF Mismatched
<1>16. ASSUME v + Cardinality(F) # NObj PROVE SlabErrors(s) # {}
    BY <1>5, <1>16 DEF SlabErrors, F
<1>17. Shows
    BY <1>8, <1>15, <1>16 DEF Shows
<1> QED
    BY <1>4, <1>6, <1>17

\* A count of a node's free objects that is one too large.
LEMMA DeclaredShows ==
    ASSUME NEW m, BaseOK(m), DumpOK(mem), NEW n \in Nodes,
           mem = [m EXCEPT !.free_objects[n] = @ + 1, !.fault = <<"declared", n>>]
    PROVE  mem.fault[1] = "declared" /\ Shows
<1>1. DOMAIN m = Fields /\ m.free_objects \in [Nodes -> Nat]
    BY DEF BaseOK, KernelDump
<1>2. /\ SameWorld(mem, m) /\ mem.fault = <<"declared", n>>
      /\ mem.free_objects = [m.free_objects EXCEPT ![n] = m.free_objects[n] + 1]
    BY <1>1 DEF Fields, SameWorld
<1>3. mem.fault[1] = "declared"
    BY <1>2
<1>4. mem.free_objects[n] = m.free_objects[n] + 1
    BY <1>1, <1>2
<1>5. Cardinality(FreeOn(n)) = m.free_objects[n] /\ m.free_objects[n] \in Nat
    BY <1>2, <1>3, CountsRight
<1>6. Mismatched(n)
    BY <1>4, <1>5 DEF Mismatched
<1> QED
    BY <1>3, <1>6 DEF Shows

\* A page that does not say what it should.
LEMMA PageShows ==
    ASSUME NEW s \in Slabs, mem.absentPages = {},
           \/ mem.pageNid[s] # mem.nid[s] \/ s \notin mem.slabFlag
           \/ s \notin mem.cachePtr \/ (~page_slab /\ mem.slabPtr[s] # s)
    PROVE  Shows
<1>1. PageErrors(s, mem.nid[s]) # {}
    BY DEF PageErrors
<1> QED
    BY <1>1 DEF Shows, SlabErrors

LEMMA SlabFaultShows ==
    ASSUME NEW m, BaseOK(m), DumpOK(mem), page_slab = mem.isPage, mem \in WithSlabFault(m)
    PROVE  StaticOK
<1>0. /\ DOMAIN m = Fields /\ m.nid \in [Slabs -> Nodes] /\ m.pageNid = m.nid
      /\ m.slabPtr = [s \in Slabs |-> s] /\ m.absentPages = {}
    BY DEF BaseOK, KernelDump, DumpOK, WorldOK, PagesAsKept
<1>1. ASSUME NEW y \in {x \in Slabs \X (0..NObj) : x[2] # m.inuse[x[1]]},
             mem = [m EXCEPT !.inuse[y[1]] = y[2], !.fault = <<"inuse", y[1]>>]
      PROVE  StaticOK
    <2>1. y[1] \in Slabs /\ y[2] \in 0..NObj /\ y[2] # m.inuse[y[1]]
        OBVIOUS
    <2>2. /\ mem.fault[1] = "inuse" /\ Shows
          /\ \A x \in Slabs : FreeOf(x) \subseteq ObjsOf(x)
        BY <1>1, <2>1, InuseShows
    <2> QED
        BY <2>2, FlawStatic DEF Sound
<1>2. ASSUME NEW n \in Nodes, mem = [m EXCEPT !.free_objects[n] = @ + 1, !.fault = <<"declared", n>>]
      PROVE  StaticOK
    BY <1>2, DeclaredShows, FlawStatic DEF Sound
<1>3. ASSUME NEW y \in {x \in Slabs \X Nodes : x[2] # m.nid[x[1]]},
             mem = [m EXCEPT !.pageNid[y[1]] = y[2], !.fault = <<"nid", y[1]>>]
      PROVE  StaticOK
    <2>1. y[1] \in Slabs /\ y[2] # m.nid[y[1]]
        OBVIOUS
    <2>2. /\ mem.nid = m.nid /\ mem.absentPages = m.absentPages /\ mem.fault = <<"nid", y[1]>>
          /\ mem.pageNid = [m.nid EXCEPT ![y[1]] = y[2]]
        BY <1>0, <1>3 DEF Fields
    <2>3. mem.pageNid[y[1]] # mem.nid[y[1]] /\ mem.fault[1] = "nid"
        BY <1>0, <2>1, <2>2
    <2> QED
        BY <1>0, <2>1, <2>2, <2>3, PageShows, FlawStatic DEF Sound
<1>4. ASSUME NEW s \in Slabs, mem = [m EXCEPT !.slabFlag = @ \ {s}, !.fault = <<"flag", s>>]
      PROVE  StaticOK
    <2>1. /\ mem.absentPages = m.absentPages /\ mem.fault = <<"flag", s>>
          /\ mem.slabFlag = m.slabFlag \ {s}
        BY <1>0, <1>4 DEF Fields
    <2>2. mem.fault[1] = "flag" /\ s \notin mem.slabFlag
        BY <2>1
    <2> QED
        BY <1>0, <2>1, <2>2, PageShows, FlawStatic DEF Sound
<1>5. ASSUME NEW s \in Slabs, mem = [m EXCEPT !.cachePtr = @ \ {s}, !.fault = <<"cache", s>>]
      PROVE  StaticOK
    <2>1. /\ mem.absentPages = m.absentPages /\ mem.fault = <<"cache", s>>
          /\ mem.cachePtr = m.cachePtr \ {s}
        BY <1>0, <1>5 DEF Fields
    <2>2. mem.fault[1] = "cache" /\ s \notin mem.cachePtr
        BY <2>1
    <2> QED
        BY <1>0, <2>1, <2>2, PageShows, FlawStatic DEF Sound
<1>6. ASSUME ~m.isPage, NEW y \in {x \in Slabs \X Slabs : x[1] # x[2]},
             mem = [m EXCEPT !.slabPtr[y[1]] = y[2], !.fault = <<"owner", y[1]>>]
      PROVE  StaticOK
    <2>1. y[1] \in Slabs /\ y[2] # y[1]
        OBVIOUS
    <2>2. /\ mem.absentPages = m.absentPages /\ mem.fault = <<"owner", y[1]>> /\ mem.isPage = m.isPage
          /\ mem.slabPtr = [m.slabPtr EXCEPT ![y[1]] = y[2]]
        BY <1>0, <1>6 DEF Fields
    <2>3. mem.fault[1] = "owner" /\ mem.slabPtr[y[1]] # y[1] /\ ~page_slab
        BY <1>0, <1>6, <2>1, <2>2
    <2> QED
        BY <1>0, <2>1, <2>2, <2>3, PageShows, FlawStatic DEF Sound
<1> DEFINE Inuse == {[m EXCEPT !.inuse[x[1]] = x[2], !.fault = <<"inuse", x[1]>>] :
               x \in {x \in Slabs \X (0..NObj) : x[2] # m.inuse[x[1]]}}
           Declared == {[m EXCEPT !.free_objects[n] = @ + 1, !.fault = <<"declared", n>>] : n \in Nodes}
           Nid == {[m EXCEPT !.pageNid[x[1]] = x[2], !.fault = <<"nid", x[1]>>] :
               x \in {x \in Slabs \X Nodes : x[2] # m.nid[x[1]]}}
           Flag == {[m EXCEPT !.slabFlag = @ \ {s}, !.fault = <<"flag", s>>] : s \in Slabs}
           Ptr == {[m EXCEPT !.cachePtr = @ \ {s}, !.fault = <<"cache", s>>] : s \in Slabs}
           Owner == {[m EXCEPT !.slabPtr[x[1]] = x[2], !.fault = <<"owner", x[1]>>] :
               x \in {x \in Slabs \X Slabs : x[1] # x[2]}}
<1>7. mem \in Inuse \cup Declared \cup Nid \cup Flag \cup Ptr \cup (IF m.isPage THEN {} ELSE Owner)
    BY DEF WithSlabFault
<1>8. (mem \in Inuse => StaticOK) /\ (mem \in Declared => StaticOK)
    BY <1>1, <1>2
<1>9. (mem \in Nid => StaticOK) /\ (mem \in Flag => StaticOK) /\ (mem \in Ptr => StaticOK)
    BY <1>3, <1>4, <1>5
<1>10. ~m.isPage /\ mem \in Owner => StaticOK
    BY <1>6
<1> HIDE DEF Inuse, Declared, Nid, Flag, Ptr, Owner
<1> QED
    BY <1>7, <1>8, <1>9, <1>10

LEMMA ObjectFaultShows ==
    ASSUME NEW m, BaseOK(m), DumpOK(mem), page_slab = mem.isPage, mem \in WithObjectFault(m)
    PROVE  StaticOK
<1> DEFINE Cached == {[m EXCEPT !.ac[y[1]] = Append(@, y[2]), !.fault = <<"cached", y[2]>>] :
               y \in Caches \X {o \in Objs : Contains(m.chain[o[1]], o[2])}}
           Twice == {[m EXCEPT !.ac[y[1]] = Append(@, y[2]), !.fault = <<"twice", y[2]>>] :
               y \in Caches \X UNION {Range(m.ac[c]) : c \in Caches}}
           Index == {[m EXCEPT !.chain[y[1]] = Append(@, y[2]), !.freelist[y[1]][NObj] = y[2],
                               !.fault = <<"index", y[1]>>] :
               y \in {y \in Slabs \X (0..NObj) :
                   \/ y[2] = NObj /\ m.chain[y[1]] # <<>>
                   \/ Len(m.chain[y[1]]) > 1 /\ y[2] = m.chain[y[1]][1]}}
<1>1. mem \in Cached \cup Twice \cup Index
    BY DEF WithObjectFault
<1>2. ASSUME mem \in Cached PROVE StaticOK
    <2>1. PICK y \in Caches \X {o \in Objs : Contains(m.chain[o[1]], o[2])} :
              mem = [m EXCEPT !.ac[y[1]] = Append(@, y[2]), !.fault = <<"cached", y[2]>>]
        BY <1>2
    <2>2. y[1] \in Caches /\ y[2] \in Objs /\ Contains(m.chain[y[2][1]], y[2][2])
        OBVIOUS
    <2>3. mem.fault[1] = "cached" /\ Shows
        BY <2>1, <2>2, CachedShows
    <2> QED
        BY <2>3, FlawStatic DEF Sound
<1>3. ASSUME mem \in Twice PROVE StaticOK
    <2>1. PICK y \in Caches \X UNION {Range(m.ac[c]) : c \in Caches} :
              mem = [m EXCEPT !.ac[y[1]] = Append(@, y[2]), !.fault = <<"twice", y[2]>>]
        BY <1>3
    <2>2. y[1] \in Caches /\ y[2] \in UNION {Range(m.ac[c]) : c \in Caches}
        OBVIOUS
    <2>3. mem.fault[1] = "twice" /\ Shows
        BY <2>1, <2>2, TwiceShows
    <2> QED
        BY <2>3, FlawStatic DEF Sound
<1>4. ASSUME mem \in Index PROVE StaticOK
    <2>1. PICK y \in {y \in Slabs \X (0..NObj) :
                   \/ y[2] = NObj /\ m.chain[y[1]] # <<>>
                   \/ Len(m.chain[y[1]]) > 1 /\ y[2] = m.chain[y[1]][1]} :
              mem = [m EXCEPT !.chain[y[1]] = Append(@, y[2]), !.freelist[y[1]][NObj] = y[2],
                              !.fault = <<"index", y[1]>>]
        BY <1>4
    <2>2. /\ y[1] \in Slabs /\ y[2] \in 0..NObj
          /\ \/ y[2] = NObj /\ m.chain[y[1]] # <<>>
             \/ Len(m.chain[y[1]]) > 1 /\ y[2] = m.chain[y[1]][1]
        OBVIOUS
    <2>3. /\ mem.fault[1] = "index" /\ Shows
          /\ \A x \in Slabs : FreeOf(x) \subseteq ObjsOf(x)
        BY <2>1, <2>2, IndexShows
    <2> QED
        BY <2>3, FlawStatic DEF Sound
<1> HIDE DEF Cached, Twice, Index
<1> QED
    BY <1>1, <1>2, <1>3, <1>4

LEMMA HoleShows ==
    ASSUME NEW m, BaseOK(m), DumpOK(mem), mem \in WithHole(m)
    PROVE  StaticOK
<1>0. DOMAIN m = Fields /\ SlabsAsKept(m)
    BY DEF BaseOK, KernelDump, DumpOK
<1>1. ASSUME NEW s \in Slabs, mem = [m EXCEPT !.absentPages = {s}, !.fault = <<"hole", s>>]
      PROVE  StaticOK
    <2>1. mem.absentPages = {s} /\ mem.fault = <<"hole", s>>
        BY <1>0, <1>1 DEF Fields
    <2>2. PageErrors(s, mem.nid[s]) # {} /\ mem.fault[1] = "hole"
        BY <2>1 DEF PageErrors
    <2>3. Shows
        BY <2>2 DEF Shows, SlabErrors
    <2> QED
        BY <2>2, <2>3, FlawStatic DEF Sound
<1>2. ASSUME NEW s \in Slabs, m.chain[s] # <<>>,
             mem = [m EXCEPT !.absentBufctl = {s}, !.fault = <<"hole", s>>]
      PROVE  StaticOK
    <2>1. mem.absentBufctl = {s} /\ mem.fault = <<"hole", s>> /\ mem.obj = m.obj
        BY <1>0, <1>2 DEF Fields
    <2>2. mem.fault[1] = "hole"
        BY <2>1
    <2>3. FreeIndices(s) = FreeIn(mem.obj, s)
        BY <2>2, FreeExact
    <2>4. FreeIndices(s) # <<>>
        BY <1>0, <1>2, <2>1, <2>3 DEF SlabsAsKept
    <2>5. ~Checkable(s)
        BY <2>1, <2>4 DEF Checkable, PopulateRaises
    <2>6. Shows
        BY <2>5 DEF Shows
    <2> QED
        BY <2>2, <2>6, FlawStatic DEF Sound
<1> QED
    BY <1>1, <1>2 DEF WithHole

LEMMA LinkStatic ==
    ASSUME NEW m, BaseOK(m), DumpOK(mem), mem \in WithLink(m)
    PROVE  StaticOK
<1>0. DOMAIN m = Fields
    BY DEF BaseOK, KernelDump
<1>1. ASSUME NEW p, \/ mem = [m EXCEPT !.next[p[1]] = p[2], !.fault = <<"link", p[1]>>]
                    \/ mem = [m EXCEPT !.prev[p[1]] = p[2], !.fault = <<"link", p[1]>>]
      PROVE  mem.fault[1] = "link"
    <2>1. mem.fault = <<"link", p[1]>>
        BY <1>0, <1>1 DEF Fields
    <2> QED
        BY <2>1
<1>2. mem.fault[1] = "link"
    BY <1>1 DEF WithLink
<1> QED
    BY <1>2, FlawStatic DEF Sound

LEMMA OffStatic ==
    ASSUME NEW m, BaseOK(m), DumpOK(mem), page_slab = mem.isPage, mem \in WithOff(m)
    PROVE  StaticOK
<1>0. DOMAIN m = Fields /\ m.fault = <<"none", NULL>> /\ m.home = [s \in Slabs |-> "size-64"]
      /\ m.absentPages = {} /\ m.absentBufctl = {} /\ m.isPage \in BOOLEAN
    BY DEF BaseOK, KernelDump, PagesAsKept, DumpOK, WorldOK
<1>1. ASSUME mem = [m EXCEPT !.off_slab = TRUE] PROVE StaticOK
    <2>1. /\ SameWorld(mem, m) /\ mem.ac = m.ac /\ mem.free_objects = m.free_objects
          /\ mem.absentPages = m.absentPages /\ mem.absentBufctl = m.absentBufctl
          /\ mem.pageNid = m.pageNid /\ mem.slabFlag = m.slabFlag /\ mem.cachePtr = m.cachePtr
          /\ mem.slabPtr = m.slabPtr /\ mem.fault = <<"none", NULL>>
        BY <1>0, <1>1 DEF Fields, SameWorld
    <2>2. mem.fault[1] = "none"
        BY <2>1
    <2>3. Sound
        BY <2>2 DEF Sound
    <2> QED
        BY <1>0, <2>1, <2>2, <2>3, SoundStatic
<1>2. ASSUME ~m.isPage, NEW y \in Slabs \X {"size-128", "elsewhere", "shifted", "none"},
             mem = [m EXCEPT !.off_slab = TRUE, !.home[y[1]] = y[2], !.fault = <<"off", y[1]>>]
      PROVE  StaticOK
    <2>1. /\ SameWorld(mem, m) /\ mem.ac = m.ac /\ mem.free_objects = m.free_objects
          /\ mem.absentPages = m.absentPages /\ mem.absentBufctl = m.absentBufctl
          /\ mem.pageNid = m.pageNid /\ mem.slabFlag = m.slabFlag /\ mem.cachePtr = m.cachePtr
          /\ mem.slabPtr = m.slabPtr
        BY <1>0, <1>2 DEF Fields, SameWorld
    <2>2. /\ mem.off_slab = TRUE /\ mem.home = [m.home EXCEPT ![y[1]] = y[2]]
          /\ mem.fault = <<"off", y[1]>>
        BY <1>0, <1>2 DEF Fields
    <2>3. mem.fault[1] = "off" /\ mem.fault[2] = y[1] /\ y[1] \in Slabs
          /\ y[2] \in {"size-128", "elsewhere", "shifted", "none"}
        BY <2>2
    <2>4. Outside
        BY <1>2, <2>1, <2>2 DEF Outside, SameWorld
    <2>5. mem.home[y[1]] = y[2] /\ \A s \in Slabs : s # y[1] => mem.home[s] = "size-64"
        BY <1>0, <2>2, <2>3
    <2>6. OffShows /\ Sound
        BY <2>3, <2>4, <2>5 DEF OffShows, Sound
    <2> QED
        BY <1>0, <2>1, <2>6, SoundStatic
<1> QED
    BY <1>1, <1>2 DEF WithOff

LEMMA InitStatic ==
    ASSUME Init
    PROVE  StaticOK
<1>1. PICK w \in Worlds, isPage \in BOOLEAN, flaw \in Flaws :
          mem \in Variants(Memory(w[1], w[2], isPage), flaw)
    BY DEF Init
<1> DEFINE m == Memory(w[1], w[2], isPage)
<1>2. BaseOK(m)
    BY MemoryBase
<1>3. DumpOK(mem)
    BY InitDump
<1>4. page_slab = mem.isPage
    <2>1. mem.isPage \in BOOLEAN
        BY <1>3 DEF DumpOK, WorldOK
    <2>2. page_slab = Layout(mem.isPage)
        BY DEF Init
    <2> QED
        BY <2>1, <2>2 DEF Layout, check_page_type, check_slab_type
<1>5. mem \in Variants(m, flaw)
    BY <1>1
<1> HIDE DEF m
<1>6. flaw \in {"none", "object", "slab", "link", "hole", "off"}
    BY SlabAssumption
<1>7. CASE flaw = "none"
    <2>1. mem = m
        BY <1>5, <1>7 DEF Variants
    <2>2. mem.fault = <<"none", NULL>> /\ mem.absentPages = {} /\ mem.absentBufctl = {}
        BY <1>2, <2>1 DEF BaseOK, KernelDump
    <2>3. mem.fault[1] = "none"
        BY <2>2
    <2>4. Sound /\ SameWorld(mem, m)
        BY <2>1, <2>3 DEF Sound, SameWorld
    <2> QED
        BY <1>2, <1>3, <2>1, <2>2, <2>3, <2>4, SoundStatic
<1>8. CASE flaw = "object"
    BY <1>2, <1>3, <1>4, <1>5, <1>8, ObjectFaultShows DEF Variants
<1>9. CASE flaw = "slab"
    BY <1>2, <1>3, <1>4, <1>5, <1>9, SlabFaultShows DEF Variants
<1>10. CASE flaw = "link"
    BY <1>2, <1>3, <1>5, <1>10, LinkStatic DEF Variants
<1>11. CASE flaw = "hole"
    BY <1>2, <1>3, <1>5, <1>11, HoleShows DEF Variants
<1>12. CASE flaw = "off"
    BY <1>2, <1>3, <1>4, <1>5, <1>12, OffStatic DEF Variants
<1> QED
    BY <1>6, <1>7, <1>8, <1>9, <1>10, <1>11, <1>12

LEMMA InitJudged ==
    ASSUME Init
    PROVE  JudgeInv
<1>1. /\ run = NoRun /\ errors = {} /\ outcome = "none" /\ array_caches = {}
      /\ \A s \in Slabs : checks[s] = 0
    BY DEF Init
<1>2. StaticOK
    BY InitStatic
<1>3. CheckedOK(checks, errors, off_slab_cache)
    BY <1>1 DEF CheckedOK
<1>4. Clean(run, errors) /\ FreeOK(run, checks) /\ NodesOK(run, errors, outcome)
    BY <1>1 DEF Clean, FreeOK, NodesOK
<1> QED
    BY <1>1, <1>2, <1>3, <1>4 DEF JudgeInv, Judgement

(***************************************************************************)
(* What check_all has reported so far: of every slab it has checked all    *)
(* that is wrong with it, of every node that is over a wrong count, of the *)
(* array caches what their fill came upon; and nothing else.               *)
(***************************************************************************)
THEOREM JudgeInvariant == Spec => []JudgeInv
<1>1. Init => JudgeInv
    BY InitJudged
<1>2. CountInv /\ VisitInv /\ JudgeInv /\ [Next]_vars => JudgeInv'
    BY JudgeStep
<1> QED
    BY <1>1, <1>2, VisitInvariant, PTL DEF Spec

\* When check_all has ended, every slab was checked or something reported.
LEMMA EndReports ==
    ASSUME CountInv, VisitInv, JudgeInv, outcome = "checked", mem.fault[1] \notin {"none", "link"}
    PROVE  /\ run = NoRun
           /\ \A s \in Slabs : \/ mem.fault[1] = "hole" /\ errors # {}
                               \/ /\ SlabErrors(s) \cup FillErrors \subseteq errors
                                  /\ Checkable(s) /\ OffAgrees(s, errors, off_slab_cache)
           /\ \A n \in Nodes : Mismatched(n) => errors # {}
<1>1. run = NoRun
    BY DEF CountInv
<1>2. mem.fault[1] # "link"
    OBVIOUS
<1>3. \A s \in Slabs : Found(mem, checks, errors, s)
    BY <1>1, <1>2 DEF VisitInv, VisitedSlab, Past, Closed, Wrong
<1>4. CheckedOK(checks, errors, off_slab_cache) /\ NodesOK(run, errors, outcome)
    BY <1>2 DEF JudgeInv, Judgement
<1>5. \A n \in Nodes : Mismatched(n) => errors # {}
    BY <1>1, <1>4 DEF NodesOK
<1> QED
    BY <1>1, <1>3, <1>4, <1>5 DEF Found, CheckedOK

LEMMA FaultsShown ==
    ASSUME CountInv, VisitInv, JudgeInv, outcome = "checked", checks # [s \in Slabs |-> 0],
           mem.fault[1] \notin {"none", "link", "off"}
    PROVE  errors # {}
<1>1. PICK s \in Slabs : TRUE
    <2>1. checks = [s \in Slabs |-> checks[s]]
        BY DEF CountInv
    <2> QED
        BY <2>1
<1>2. Shows
    BY DEF JudgeInv, StaticOK
<1>3. CASE FillErrors # {}
    BY <1>1, <1>3, EndReports
<1>4. CASE \E x \in Slabs : SlabErrors(x) # {} \/ ~Checkable(x)
    BY <1>4, EndReports
<1>5. CASE \E n \in Nodes : Mismatched(n)
    BY <1>5, EndReports
<1> QED
    BY <1>2, <1>3, <1>4, <1>5 DEF Shows

LEMMA OffShown ==
    ASSUME CountInv, VisitInv, JudgeInv, outcome = "checked", mem.fault[1] = "off"
    PROVE  IF mem.home[mem.fault[2]] = "size-128" THEN Cardinality(Slabs) > 1 => "off" \in errors
           ELSE "off" \in errors
<1> DEFINE f == mem.fault[2]
<1>1. /\ f \in Slabs /\ Outside /\ mem.home[f] \in {"size-128", "elsewhere", "shifted", "none"}
      /\ \A s \in Slabs : s # f => mem.home[s] = "size-64"
    BY DEF JudgeInv, StaticOK, OffShows
<1>2. \A s \in Slabs : /\ SlabErrors(s) \subseteq errors
                       /\ OffAgrees(s, errors, off_slab_cache)
    BY EndReports
<1>3. CASE mem.home[f] # "size-128"
    <2>1. "off" \in SlabErrors(f)
        BY <1>1, <1>3 DEF SlabErrors
    <2> QED
        BY <1>1, <1>2, <1>3, <2>1
<1>4. CASE mem.home[f] = "size-128" /\ Cardinality(Slabs) > 1
    <2>1. PICK t \in Slabs : t # f
        <3> HIDE DEF f
        <3>0. Cardinality({f}) = 1
            BY FS_Singleton
        <3>1. Slabs # {f}
            BY <1>4, <3>0
        <3> QED
            BY <1>1, <3>1
    <2>2. mem.home[t] = "size-64"
        BY <1>1, <2>1
    <2>3. "off" \in errors \/ (off_slab_cache = "size-128" /\ off_slab_cache = "size-64")
        BY <1>1, <1>2, <1>4, <2>2 DEF OffAgrees
    <2> QED
        BY <2>3
<1> QED
    BY <1>3, <1>4

\* No command fails because of a wrong link.
NoneRaised == mem.fault[1] = "link" => outcome # "raised"
LEMMA LinksNeverRaise == Spec => []NoneRaised
<1>1. Init => NoneRaised
    BY DEF Init, NoneRaised
<1>2. CountInv /\ VisitInv /\ NoneRaised /\ [Next]_vars => NoneRaised'
    <2> SUFFICES ASSUME CountInv, VisitInv, NoneRaised, [Next]_vars, mem.fault[1] = "link", mem' = mem
                 PROVE  outcome' # "raised"
        BY DEF NoneRaised, Next, Step, vars, CheckAll, Ask, GetAllocatedObjects, WalkEnds, WalkFails,
               WalkRaises, WalkNull, SkipHead, CheckCannot, CheckSlab, EndNode
    <2>1. /\ mem.absentBufctl = {} /\ mem.absentPages = {} /\ page_slab = mem.isPage
          /\ mem.slabFlag = Slabs /\ mem.cachePtr = Slabs /\ mem.slabPtr = [s \in Slabs |-> s]
        BY DEF CountInv, CachesInv, DumpOK, VisitInv, RingsOK, TidyDump, PagesAsKept
    <2>2. \A s \in Slabs : Readable(s) /\ ~PopulateRaises(s) /\ ~Stray(s) /\ ~Lost(s)
        BY <2>1 DEF Readable, PopulateRaises, Stray, Lost
    <2>3. ~GetRaises
        BY <2>1 DEF GetRaises, FillRaises, Unreadable
    <2>4. \A x \in CachedObjs(get_array_caches) : x[1] \in Slabs
        <3>1. get_array_caches = Filled
            BY DEF get_array_caches, NeedsFill, CountInv, CachesInv
        <3> QED
            BY <3>1, CachedFree DEF CountInv, CachesInv, Objs
    <2>5. CASE \E o \in Objs : Ask(o)
        <3>1. PICK o \in Objs : Ask(o)
            BY <2>5
        <3>2. o[1] \in Slabs
            BY DEF Objs
        <3> QED
            BY <2>2, <2>3, <3>1, <3>2 DEF Ask
    <2>6. CASE WalkRaises
        BY <2>2, <2>6 DEF WalkRaises
    <2>7. CASE EndNode
        BY <2>2, <2>3, <2>4, <2>7 DEF EndNode, NoneRaised
    <2>8. CASE CheckAll \/ GetAllocatedObjects
        BY <2>8 DEF CheckAll, GetAllocatedObjects
    <2>9. CASE \/ WalkEnds \/ WalkFails \/ WalkNull \/ SkipHead \/ CheckCannot \/ CheckSlab
               \/ UNCHANGED vars
        BY <2>9 DEF WalkEnds, WalkFails, WalkNull, SkipHead, CheckCannot, CheckSlab, vars, NoneRaised
    <2> QED
        BY <2>5, <2>6, <2>7, <2>8, <2>9 DEF Next, Step
<1> QED
    BY <1>1, <1>2, VisitInvariant, PTL DEF Spec

(***************************************************************************)
(* check_all reports nothing about a consistent cache, and one that ends   *)
(* has reported the fault of the dump, whatever was asked before it: a     *)
(* wrong link too, unless it is a next that leads back to the list's own   *)
(* head, or the prev of a head.                                            *)
(***************************************************************************)
THEOREM FaultsAlwaysJudged == Spec => []FaultsJudged
<1>1. CountInv /\ VisitInv /\ JudgeInv /\ LinkFault(mem) /\ NoneRaised => FaultsJudged
    <2> SUFFICES ASSUME CountInv, VisitInv, JudgeInv, LinkFault(mem), NoneRaised
                 PROVE  FaultsJudged
        OBVIOUS
    <2>1. mem.fault[1] = "none" => errors = {}
        BY DEF JudgeInv, Judgement, Clean, Sound, Allowed
    <2> DEFINE none == mem.fault[1] \in {"none", "link"}
               small == mem.fault[1] = "off" /\ mem.home[mem.fault[2]] = "size-128"
    <2>2. ASSUME outcome \in {"checked", "raised"}, checks # [s \in Slabs |-> 0], ~none
          PROVE  IF small THEN Cardinality(Slabs) > 1 => "off" \in errors ELSE errors # {}
        <3>1. CASE outcome = "raised"
            BY <3>1 DEF JudgeInv, Judgement
        <3>2. CASE outcome = "checked" /\ mem.fault[1] = "off"
            BY <3>2, OffShown
        <3>3. CASE outcome = "checked" /\ mem.fault[1] # "off"
            BY <2>2, <3>3, FaultsShown
        <3> QED
            BY <2>2, <3>1, <3>2, <3>3
    <2>3. ASSUME outcome \in {"checked", "raised"}, mem.fault[1] = "link" PROVE LinkNoticed
        <3>1. run = NoRun /\ outcome = "checked"
            BY <2>3 DEF NoneRaised, CountInv
        <3>2. Notable(mem) => "list" \in errors
            BY <3>1 DEF VisitInv, Reported, Behind, Past
        <3>3. Wrong(mem, FALSE) \/ Wrong(mem, TRUE)
            BY <2>3 DEF LinkFault
        <3> QED
            BY <3>2, <3>3, WhichLink DEF LinkNoticed, Notable
    <2> QED
        BY <2>1, <2>2, <2>3 DEF FaultsJudged
<1> QED
    BY <1>1, VisitInvariant, JudgeInvariant, LinkFaultStays, LinksNeverRaise, PTL
=============================================================================
