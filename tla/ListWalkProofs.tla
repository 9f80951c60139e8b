---------------------------- MODULE ListWalkProofs ----------------------------
(***************************************************************************)
(* What list_for_each and klist_for_each promise of the lists of any size  *)
(* in any memory of a dump: SuccessExact and ExactCycles of ListWalk.      *)
(*                                                                         *)
(* The proof follows the walk along Path.  As long as the walk has met no  *)
(* node twice it has yielded exactly the nodes of the path, and there are  *)
(* fewer of them than nodes of the dump.  Once it meets a node twice it is *)
(* in a trap: a set of nodes without the head that no link leaves.  From   *)
(* there it never reports success, and no list that the kernel would call  *)
(* sound leads there.                                                      *)
(***************************************************************************)
EXTENDS ListWalk, FiniteSetTheorems, LeastElement

Size == Cardinality(Nodes)

\* Path as a function of the memory, so that a step can be seen to keep it.
PathOf(nx, ab) ==
    CHOOSE f : f = [i \in 0..Size |->
                       IF i = 0 THEN head
                       ELSE IF f[i - 1] \in Nodes \ ab THEN nx[f[i - 1]]
                       ELSE NULL]

PathUpTo(f, nx, ab, n) ==
    f = [i \in 0..n |-> IF i = 0 THEN head
                        ELSE IF f[i - 1] \in Nodes \ ab THEN nx[f[i - 1]]
                        ELSE NULL]

LEMMA SizeNat == Size \in Nat /\ Size >= 1
<1>1. Size \in Nat
    BY FiniteAssumption, FS_CardinalityType DEF Size
<1>2. Size # 0
    BY FiniteAssumption, HeadAssumption, FS_EmptySet DEF Size
<1> QED
    BY <1>1, <1>2

LEMMA PathIsPathOf == Path = PathOf(next, absent) /\ Path' = PathOf(next', absent')
<1>1. Path = PathOf(next, absent)
    BY DEF Path, PathOf, Follow, Readable, Size
<1>2. Path' = PathOf(next', absent')
    BY DEF Path, PathOf, Follow, Readable, Size
<1> QED
    BY <1>1, <1>2

LEMMA PathOfExists ==
    ASSUME NEW nx \in [Nodes -> Links], NEW ab
    PROVE  \E f \in [0..Size -> Links] : PathUpTo(f, nx, ab, Size)
<1> DEFINE G == {n \in 0..Size : \E f \in [0..n -> Links] :
                                     PathUpTo(f, nx, ab, n)}
<1>1. 0 \in G
    <2> DEFINE f == [i \in 0..0 |-> head]
    <2>1. f \in [0..0 -> Links]
        BY HeadAssumption DEF Links
    <2>2. PathUpTo(f, nx, ab, 0)
        BY DEF PathUpTo
    <2> QED
        BY <2>1, <2>2, SizeNat
<1>2. ASSUME NEW n \in 1..Size, n - 1 \in G
      PROVE  n \in G
    <2>1. PICK g \in [0..(n - 1) -> Links] : PathUpTo(g, nx, ab, n - 1)
        BY <1>2
    <2> DEFINE v == IF g[n - 1] \in Nodes \ ab THEN nx[g[n - 1]] ELSE NULL
               f == [i \in 0..n |-> IF i = n THEN v ELSE g[i]]
    <2>2. v \in Links
        BY DEF Links
    <2>3. f \in [0..n -> Links]
        <3> HIDE DEF v
        <3> QED
            BY <2>2, <1>2, SizeNat
    <2>4. ASSUME NEW i \in 0..n
          PROVE  f[i] = IF i = 0 THEN head
                        ELSE IF f[i - 1] \in Nodes \ ab THEN nx[f[i - 1]]
                        ELSE NULL
        <3>1. CASE i = n
            <4>1. f[i] = v /\ f[i - 1] = g[i - 1] /\ i # 0
                BY <3>1, <1>2, SizeNat
            <4> QED
                BY <4>1, <3>1
        <3>2. CASE i # n
            <4>1. f[i] = g[i] /\ i \in 0..(n - 1)
                BY <3>2, <1>2, SizeNat
            <4>2. i # 0 => f[i - 1] = g[i - 1]
                BY <3>2, <1>2, SizeNat
            <4>3. g[i] = IF i = 0 THEN head
                         ELSE IF g[i - 1] \in Nodes \ ab THEN nx[g[i - 1]]
                         ELSE NULL
                BY <2>1, <4>1 DEF PathUpTo
            <4> HIDE DEF f
            <4> QED
                BY <4>1, <4>2, <4>3
        <3> QED
            BY <3>1, <3>2
    <2>5. PathUpTo(f, nx, ab, n)
        <3>1. DOMAIN f = 0..n /\ f = [i \in 0..n |-> f[i]]
            OBVIOUS
        <3> HIDE DEF f
        <3> QED
            BY <2>4, <3>1 DEF PathUpTo
    <2> QED
        BY <2>3, <2>5
<1>3. G = 0..Size
    <2>1. G \in SUBSET (0..Size)
        OBVIOUS
    <2> HIDE DEF G
    <2> QED
        BY <1>1, <1>2, <2>1, SizeNat, InductionUpTo
<1>4. Size \in G
    BY <1>3, SizeNat
<1> QED
    BY <1>4

LEMMA PathUnfolds ==
    ASSUME next \in [Nodes -> Links]
    PROVE  /\ Path \in [0..Size -> Links]
           /\ Path[0] = head
           /\ \A i \in 1..Size : Path[i] = Follow(Path[i - 1])
<1> DEFINE F == PathOf(next, absent)
<1>1. PICK f \in [0..Size -> Links] : PathUpTo(f, next, absent, Size)
    BY PathOfExists
<1>2. PathUpTo(F, next, absent, Size)
    BY <1>1 DEF PathUpTo, PathOf
<1>3. Path = F
    BY PathIsPathOf
<1> HIDE DEF F
<1>4. /\ DOMAIN F = 0..Size /\ F = [i \in 0..Size |-> F[i]]
      /\ F[0] = head
      /\ \A i \in 1..Size : F[i] = Follow(F[i - 1])
    BY <1>2, SizeNat DEF PathUpTo, Follow, Readable
<1>5. \A i \in 0..Size : F[i] \in Links
    <2>1. ASSUME NEW i \in 1..Size PROVE F[i] \in Links
        BY <1>4 DEF Follow, Readable, Links
    <2> QED
        BY <2>1, <1>4, HeadAssumption, SizeNat DEF Links
<1> QED
    BY <1>3, <1>4, <1>5

-----------------------------------------------------------------------------
\* The first k links lead through nodes other than the head that differ.
Distinct(k) == \A i, j \in 0..k : Path[i] = Path[j] => i = j
Onwards(k) == \A i \in 1..k : Path[i] \in Nodes \ {head}

\* A set of nodes without the head that no link leaves.
Trap(x) ==
    \E U \in SUBSET (Nodes \ {head}) :
        x \in U /\ \A y \in U : Readable(y) => next[y] \in U

(***************************************************************************)
(* A path that enters a set its links do not leave, before it comes back   *)
(* to the head, does not come back if the head is not in the set.          *)
(***************************************************************************)
LEMMA NeverLeaves ==
    ASSUME next \in [Nodes -> Links],
           NEW k \in 1..Size, \A i \in 1..k : Path[i] # head,
           NEW U, head \notin U, Path[k] \in U,
           \A y \in U : Follow(y) \in U
    PROVE  ~Closed
<1> DEFINE G == {n \in 0..Size : n >= k => Path[n] \in U}
<1>1. 0 \in G
    BY SizeNat
<1>2. ASSUME NEW n \in 1..Size, n - 1 \in G
      PROVE  n \in G
    <2>1. CASE n < k
        BY <2>1, SizeNat
    <2>2. CASE n = k
        BY <2>2, SizeNat
    <2>3. CASE n > k
        <3>1. n - 1 >= k
            BY <2>3, SizeNat
        <3>2. Path[n - 1] \in U
            BY <3>1, <1>2
        <3>3. Path[n] = Follow(Path[n - 1])
            BY PathUnfolds
        <3> QED
            BY <3>2, <3>3, SizeNat
    <2> QED
        BY <2>1, <2>2, <2>3, SizeNat
<1>3. G = 0..Size
    <2>1. G \in SUBSET (0..Size)
        OBVIOUS
    <2> HIDE DEF G
    <2> QED
        BY <1>1, <1>2, <2>1, SizeNat, InductionUpTo
<1>4. \A n \in 1..Size : Path[n] # head
    <2> TAKE n \in 1..Size
    <2>1. CASE n <= k
        BY <2>1, SizeNat
    <2>2. CASE n > k
        <3>1. n \in G
            <4> HIDE DEF G
            <4> QED
                BY <1>3, SizeNat
        <3> QED
            BY <3>1, <2>2, SizeNat
    <2> QED
        BY <2>1, <2>2, SizeNat
<1>5. DOMAIN Path = 0..Size
    BY PathUnfolds
<1> QED
    BY <1>4, <1>5, SizeNat DEF Closed, Returns

(***************************************************************************)
(* A path that ends before it comes back to the head does not come back.   *)
(***************************************************************************)
LEMMA NullNeverCloses ==
    ASSUME next \in [Nodes -> Links],
           NEW k \in 1..Size, \A i \in 1..k : Path[i] # head,
           Path[k] = NULL
    PROVE  ~Closed
<1>1. \A y \in {NULL} : Follow(y) \in {NULL}
    BY HeadAssumption DEF Follow, Readable
<1> QED
    BY <1>1, HeadAssumption, NeverLeaves

(***************************************************************************)
(* A path that meets one of its nodes again, other than the head, is in a  *)
(* trap and does not come back to the head.                                *)
(***************************************************************************)
LEMMA RepeatTraps ==
    ASSUME next \in [Nodes -> Links],
           NEW k \in 1..Size, Onwards(k),
           NEW j \in 1..(k - 1), Path[j] = Path[k]
    PROVE  Trap(Path[k]) /\ ~Closed
<1> DEFINE U == {Path[l] : l \in j..(k - 1)}
<1>1. U \in SUBSET (Nodes \ {head})
    BY SizeNat DEF Onwards
<1>2. Path[k] \in U
    BY SizeNat
<1>3. ASSUME NEW y \in U, Readable(y) PROVE next[y] \in U
    <2>1. PICK l \in j..(k - 1) : y = Path[l]
        OBVIOUS
    <2>2. l + 1 \in 1..Size /\ (l + 1) - 1 = l
        BY SizeNat
    <2>3. Path[l + 1] = next[y]
        <3>1. Path[l + 1] = Follow(Path[(l + 1) - 1])
            BY <2>2, PathUnfolds
        <3> QED
            BY <3>1, <2>1, <2>2, <1>3 DEF Follow
    <2>4. CASE l = k - 1
        <3>1. l + 1 = k
            BY <2>4, SizeNat
        <3> QED
            BY <3>1, <2>3, <1>2
    <2>5. CASE l # k - 1
        <3>1. l + 1 \in j..(k - 1)
            BY <2>5, SizeNat
        <3> QED
            BY <3>1, <2>3
    <2> QED
        BY <2>4, <2>5
<1>4. Trap(Path[k])
    <2> HIDE DEF U
    <2> QED
        BY <1>1, <1>2, <1>3 DEF Trap
<1>5. ~Closed
    <2> DEFINE V == U \cup {NULL}
    <2>1. head \notin V /\ Path[k] \in V
        <3> HIDE DEF U
        <3> QED
            BY <1>1, <1>2, HeadAssumption
    <2>2. \A y \in V : Follow(y) \in V
        <3> HIDE DEF U
        <3> QED
            BY <1>3, HeadAssumption DEF Follow, Readable
    <2>3. \A i \in 1..k : Path[i] # head
        BY DEF Onwards
    <2> HIDE DEF V
    <2> QED
        BY <2>1, <2>2, <2>3, NeverLeaves
<1> QED
    BY <1>4, <1>5

(***************************************************************************)
(* A path along nodes that differ is shorter than the number of nodes.     *)
(***************************************************************************)
LEMMA DistinctIsShort ==
    ASSUME next \in [Nodes -> Links],
           NEW k \in 0..Size, Onwards(k), Distinct(k)
    PROVE  k < Size
<1> SUFFICES ASSUME k >= Size PROVE FALSE
    BY SizeNat
<1> DEFINE S == 0..k
           f == [i \in S |-> Path[i]]
<1>1. IsFiniteSet(S) /\ Cardinality(S) = k + 1
    BY SizeNat, FS_Interval
<1>2. f \in [S -> Nodes]
    <2>1. ASSUME NEW i \in S PROVE Path[i] \in Nodes
        BY HeadAssumption, PathUnfolds, SizeNat DEF Onwards
    <2> QED
        BY <2>1
<1>3. \E x, y \in S : x # y /\ f[x] = f[y]
    <2> HIDE DEF S, f
    <2> QED
        BY <1>1, <1>2, FiniteAssumption, SizeNat, FS_PigeonHole DEF Size
<1> QED
    BY <1>3 DEF Distinct

(***************************************************************************)
(* The list that a path along k nodes and then back to the head describes  *)
(* is that of those k nodes; a closed list that the path has followed for  *)
(* k nodes has at least k.                                                 *)
(***************************************************************************)
LEMMA LengthAtReturn ==
    ASSUME next \in [Nodes -> Links],
           NEW k \in 0..(Size - 1), Onwards(k), Path[k + 1] = head
    PROVE  Closed /\ Length = k
<1>1. k + 1 \in Returns
    BY PathUnfolds, SizeNat DEF Returns
<1>2. \A i \in Returns : k + 1 <= i
    <2> SUFFICES ASSUME NEW i \in Returns, i <= k PROVE FALSE
        <3>1. \A i \in Returns : i \in 1..Size
            BY PathUnfolds, SizeNat DEF Returns
        <3> QED
            BY <3>1, SizeNat
    <2> QED
        BY PathUnfolds, SizeNat DEF Returns, Onwards
<1>3. (CHOOSE i \in Returns : \A j \in Returns : i <= j) = k + 1
    <2>1. ASSUME NEW i \in Returns, \A j \in Returns : i <= j
          PROVE  i = k + 1
        <3>1. i \in 1..Size
            BY PathUnfolds, SizeNat DEF Returns
        <3> QED
            BY <1>1, <1>2, <2>1, <3>1, SizeNat
    <2> QED
        BY <1>1, <1>2, <2>1
<1>4. Length = (k + 1) - 1
    BY <1>3 DEF Length
<1> QED
    BY <1>1, <1>4, SizeNat DEF Closed

LEMMA ClosedLength ==
    ASSUME next \in [Nodes -> Links], Closed
    PROVE  /\ Length \in 0..(Size - 1)
           /\ Path[Length + 1] = head
           /\ \A i \in 1..Length : Path[i] # head
           /\ \A k \in 0..Size : Onwards(k) => k <= Length
<1> DEFINE m == CHOOSE i \in Returns : \A j \in Returns : i <= j
<1>1. Returns \in SUBSET (1..Size) /\ \A i \in 1..Size : Path[i] = head => i \in Returns
    BY PathUnfolds, SizeNat DEF Returns
<1>2. \E i \in Returns : \A j \in Returns : i <= j
    BY <1>1, LeastNatural, SizeNat DEF Closed
<1>3. m \in Returns /\ \A j \in Returns : m <= j
    BY <1>2
<1>4. Length = m - 1 
    BY DEF Length
<1> HIDE DEF m
<1>5. m \in 1..Size /\ Path[m] = head /\ \A i \in 1..(m - 1) : Path[i] # head
    BY <1>1, <1>3, SizeNat DEF Returns
<1>6. ASSUME NEW k \in 0..Size, Onwards(k) PROVE k <= m - 1
    BY <1>5, <1>6, SizeNat DEF Onwards
<1> QED
    BY <1>4, <1>5, <1>6, SizeNat

-----------------------------------------------------------------------------
\* What the walk has yielded after k nodes of the path.
Prefix(k) == (IF args.include_head THEN <<head>> ELSE <<>>)
                 \o [i \in 1..k |-> Path[i]]

LEMMA PrefixOfPath ==
    ASSUME next \in [Nodes -> Links], args \in Arguments,
           NEW k \in 0..Size
    PROVE  /\ Prefix(k) \in Seq(Links) /\ Len(Prefix(k)) <= k + 1
           /\ k > 0 => Append(Prefix(k - 1), Path[k]) = Prefix(k)
           /\ Onwards(k) => Prefix(k) \in Seq(Nodes)
           /\ Distinct(k) => IsInjective(Prefix(k))
<1> DEFINE F(n) == [i \in 1..n |-> Path[i]]
           H == IF args.include_head THEN <<head>> ELSE <<>>
<1>1. /\ H \in Seq(Links) /\ H \in Seq(Nodes) /\ Len(H) \in {0, 1}
      /\ Len(H) = 1 => H[1] = head
    <2>1. CASE args.include_head
        <3>1. H = <<head>>
            BY <2>1
        <3> HIDE DEF H
        <3> QED
            BY <3>1, HeadAssumption DEF Links
    <2>2. CASE ~args.include_head
        <3>1. H = <<>>
            BY <2>2
        <3> HIDE DEF H
        <3> QED
            BY <3>1
    <2> QED
        BY <2>1, <2>2
<1>2. \A n \in 0..Size : F(n) \in Seq(Links) /\ Len(F(n)) = n
    BY PathUnfolds, SizeNat
<1>3. /\ Prefix(k) \in Seq(Links) /\ Len(Prefix(k)) = Len(H) + k
      /\ \A i \in 1..(Len(H) + k) :
            Prefix(k)[i] = IF i <= Len(H) THEN H[i] ELSE Path[i - Len(H)]
    <2>1. Prefix(k) = H \o F(k)
        BY DEF Prefix
    <2>2. \A i \in 1..k : F(k)[i] = Path[i]
        OBVIOUS
    <2> HIDE DEF H, F
    <2> QED
        BY <1>1, <1>2, <2>1, <2>2, SizeNat
<1>4. ASSUME k > 0 PROVE Append(Prefix(k - 1), Path[k]) = Prefix(k)
    <2>1. Prefix(k) = H \o F(k) /\ Prefix(k - 1) = H \o F(k - 1)
        BY DEF Prefix
    <2>2. Append(F(k - 1), Path[k]) = F(k)
        BY <1>4, PathUnfolds, SizeNat
    <2>3. F(k - 1) \in Seq(Links) /\ Path[k] \in Links /\ k - 1 \in 0..Size
        BY <1>2, <1>4, PathUnfolds, SizeNat
    <2> HIDE DEF H, F
    <2>4. Append(H \o F(k - 1), Path[k]) = H \o Append(F(k - 1), Path[k])
        BY <2>3, <1>1
    <2> QED
        BY <2>1, <2>2, <2>4
<1>5. ASSUME Onwards(k) PROVE Prefix(k) \in Seq(Nodes)
    <2>1. F(k) \in Seq(Nodes)
        BY <1>5, SizeNat DEF Onwards
    <2>2. Prefix(k) = H \o F(k)
        BY DEF Prefix
    <2> HIDE DEF H, F
    <2> QED
        BY <2>1, <2>2, <1>1
<1>6. ASSUME Distinct(k) PROVE IsInjective(Prefix(k))
    <2>1. DOMAIN Prefix(k) = 1..(Len(H) + k)
        BY <1>3, <1>1
    <2>2. Path[0] = head
        BY PathUnfolds
    <2> HIDE DEF H
    <2>3. \A i \in 1..(Len(H) + k) :
             \E l \in 0..k : l = i - Len(H) /\ Prefix(k)[i] = Path[l]
        <3> TAKE i \in 1..(Len(H) + k)
        <3>1. CASE i <= Len(H)
            <4>1. i = 1 /\ Len(H) = 1 /\ Prefix(k)[i] = head
                BY <1>1, <1>3, <3>1, SizeNat
            <4> QED
                BY <4>1, <2>2, SizeNat
        <3>2. CASE i > Len(H)
            BY <1>1, <1>3, <3>2, SizeNat
        <3> QED
            BY <3>1, <3>2, <1>1
    <2>4. ASSUME NEW i \in DOMAIN Prefix(k), NEW j \in DOMAIN Prefix(k),
                 Prefix(k)[i] = Prefix(k)[j]
          PROVE  i = j
        <3>1. PICK l \in 0..k : l = i - Len(H) /\ Prefix(k)[i] = Path[l]
            BY <2>1, <2>3
        <3>2. PICK m \in 0..k : m = j - Len(H) /\ Prefix(k)[j] = Path[m]
            BY <2>1, <2>3
        <3>3. l = m
            BY <2>4, <3>1, <3>2, <1>6 DEF Distinct
        <3>4. i \in Int /\ j \in Int /\ Len(H) \in Int
            BY <2>1, <1>1
        <3> QED
            BY <3>1, <3>2, <3>3, <3>4
    <2> QED
        BY <2>4 DEF IsInjective
<1> QED
    BY <1>1, <1>3, <1>4, <1>5, <1>6, SizeNat

(***************************************************************************)
(* The memory of a dump does not change, nor what follows from it alone.   *)
(***************************************************************************)
Sound == /\ Closed /\ Consistent
         /\ \A i \in 1..Length : Readable(Path[i]) /\ Path[i] \in owned

LEMMA MemoryKept ==
    ASSUME UNCHANGED memory
    PROVE  /\ Path' = Path /\ Length' = Length /\ Expected' = Expected
           /\ Closed' = Closed /\ Consistent' = Consistent /\ Sound' = Sound
           /\ \A x : Trap(x)' = Trap(x) /\ Readable(x)' = Readable(x)
<1>1. /\ next' = next /\ absent' = absent /\ prev' = prev /\ args' = args
      /\ owned' = owned
    BY DEF memory
<1>2. Path' = Path
    BY <1>1, PathIsPathOf
<1>3. Returns' = Returns
    BY <1>2 DEF Returns
<1>4. Length' = Length /\ Closed' = Closed
    BY <1>3 DEF Length, Closed
<1>5. Expected' = Expected /\ Consistent' = Consistent
    BY <1>1, <1>2, <1>4 DEF Expected, Members, Consistent
<1>6. \A x : Readable(x)' = Readable(x)
    BY <1>1 DEF Readable
<1>7. \A x : Trap(x)' = Trap(x)
    BY <1>1 DEF Trap, Readable
<1>8. Sound' = Sound
    BY <1>1, <1>2, <1>4, <1>5 DEF Sound, Readable
<1> QED
    BY <1>2, <1>4, <1>5, <1>6, <1>7, <1>8

(***************************************************************************)
(* The two ways to end: with an error, on a list that is not sound, and    *)
(* with success, on a list that is.                                        *)
(***************************************************************************)
LEMMA EndsInError ==
    ASSUME UNCHANGED memory, result' # "ok", ~Sound,
           args.exact => IsInjective(yielded'),
           args.exact /\ result' = "ListCycleError" =>
               ~Closed /\ \E i, j \in DOMAIN Path : i < j /\ Path[i] = Path[j]
                                                    /\ Path[i] # NULL
    PROVE  SuccessExact' /\ ExactCycles'
<1>1. args' = args /\ Path' = Path /\ Closed' = Closed /\ Sound' = Sound
    BY MemoryKept DEF memory
<1>2. SuccessExact'
    <2>1. ~Sound'
        BY <1>1
    <2> QED
        BY <2>1 DEF SuccessExact, Sound
<1>3. ExactCycles'
    BY <1>1 DEF ExactCycles
<1> QED
    BY <1>2, <1>3

LEMMA EndsInSuccess ==
    ASSUME UNCHANGED memory, result' = "ok", Closed, Consistent,
           yielded' = Expected, \A i \in 1..Length : Path[i] \in owned,
           args.exact => IsInjective(yielded')
    PROVE  SuccessExact' /\ ExactCycles'
<1>1. /\ args' = args /\ owned' = owned /\ Path' = Path /\ Closed' = Closed
      /\ Consistent' = Consistent /\ Expected' = Expected /\ Length' = Length
    BY MemoryKept DEF memory
<1>2. SuccessExact'
    BY <1>1 DEF SuccessExact
<1>3. ExactCycles'
    BY <1>1 DEF ExactCycles
<1> QED
    BY <1>2, <1>3

-----------------------------------------------------------------------------
(***************************************************************************)
(* The inductive invariant.  Along(k): the walk is at the node k links     *)
(* after the head.  Read(k): it has been given those k nodes, each once,   *)
(* and knows whether their links agree.  Stuck: it has met a node twice.   *)
(***************************************************************************)
WalkTypeOK ==
    /\ next \in [Nodes -> Links] /\ prev \in [Nodes -> Links]
    /\ absent \in SUBSET Nodes /\ owned \in SUBSET Nodes
    /\ args \in Arguments /\ (~args.klist => owned = Nodes)
    /\ pc \in {"start", "visit", "advance", "done"}
    /\ node \in Nodes /\ pending \in BOOLEAN

Agree(k) == \A i \in 1..k : prev[Path[i]] = Path[i - 1]

Along(k) ==
    /\ Onwards(k)
    /\ node = Path[k] /\ last = Path[k - 1]

Read(k) ==
    /\ Distinct(k)
    /\ yielded = Prefix(k)
    /\ pending = ~Agree(k)
    /\ \A i \in 1..k : Path[i] \in owned
    /\ visited = IF args.exact THEN {Path[i] : i \in 1..k} ELSE {}

Stuck == Trap(node) /\ ~Closed /\ ~args.exact

Armed == fast # NULL => pending /\ ~args.exact
Running == pc # "done" => result = "none"
AtStart ==
    pc = "start" => /\ fast = NULL /\ visited = {} /\ pending = FALSE
                    /\ yielded = <<>>
AtVisit ==
    pc = "visit" => Stuck \/ \E k \in 1..Size : Along(k) /\ Read(k - 1)
AtAdvance ==
    pc = "advance" =>
        /\ Readable(node)
        /\ Stuck \/ \E k \in 1..(Size - 1) : Along(k) /\ Read(k)
AtEnd == pc = "done" => SuccessExact /\ ExactCycles

WalkInv == /\ WalkTypeOK /\ Armed /\ Running
           /\ AtStart /\ AtVisit /\ AtAdvance /\ AtEnd

(***************************************************************************)
(* A list on whose path the walk is, and that is sound, has links that     *)
(* agree, nodes that can be read and nodes that are owned so far.          *)
(***************************************************************************)
LEMMA SoundSoFar ==
    ASSUME next \in [Nodes -> Links], Sound, NEW k \in 0..Size, Onwards(k)
    PROVE  /\ Agree(k)
           /\ \A i \in 1..k : Readable(Path[i]) /\ Path[i] \in owned
<1>1. k <= Length /\ Length \in 0..(Size - 1)
    BY ClosedLength DEF Sound
<1>2. \A i \in 1..k : i \in 1..Length
    BY <1>1, SizeNat
<1> QED
    BY <1>2 DEF Sound, Agree, Consistent

LEMMA MemoryKeptAtNode ==
    ASSUME UNCHANGED memory
    PROVE  \A k : /\ Onwards(k)' = Onwards(k) /\ Distinct(k)' = Distinct(k)
                  /\ Prefix(k)' = Prefix(k) /\ Agree(k)' = Agree(k)
<1>1. Path' = Path /\ args' = args /\ prev' = prev
    BY MemoryKept DEF memory
<1> QED
    BY <1>1 DEF Onwards, Distinct, Prefix, Agree

LEMMA WalkInit == Init => WalkInv
<1> SUFFICES ASSUME Init PROVE WalkInv
    OBVIOUS
<1>1. args \in Arguments /\ absent \in SUBSET Nodes
    BY ArgumentAssumption DEF Init
<1>2. WalkTypeOK
    <2>1. owned \in SUBSET Nodes /\ (~args.klist => owned = Nodes)
        BY <1>1 DEF Init
    <2> QED
        BY <1>1, <2>1, HeadAssumption DEF Init, WalkTypeOK
<1> QED
    BY <1>2 DEF Init, WalkInv, Armed, Running, AtStart, AtVisit, AtAdvance, AtEnd

(***************************************************************************)
(* The first link.                                                         *)
(***************************************************************************)
LEMMA StartKeeps == WalkInv /\ Start => WalkInv'
<1> SUFFICES ASSUME WalkInv, Start PROVE WalkInv'
    OBVIOUS
<1> USE SizeNat
<1>1. /\ UNCHANGED memory /\ pc = "start" /\ result = "none"
      /\ fast = NULL /\ visited = {} /\ pending = FALSE
      /\ fast' = NULL /\ visited' = {} /\ pending' = FALSE
      /\ next \in [Nodes -> Links] /\ args \in Arguments
    BY DEF WalkInv, Running, AtStart, WalkTypeOK, Start
<1>2. yielded' = Prefix(0)
    <2>1. [i \in 1..0 |-> Path[i]] = <<>>
        OBVIOUS
    <2>2. yielded' = IF args.include_head THEN <<head>> ELSE <<>>
        BY DEF Start
    <2>3. yielded' \in Seq(Nodes)
        BY <2>2, HeadAssumption
    <2>4. \A t \in Seq(Nodes) : t \o <<>> = t
        OBVIOUS
    <2> QED
        BY <2>1, <2>2, <2>3, <2>4, Zenon DEF Prefix
<1>3. Onwards(0) /\ Distinct(0) /\ Agree(0) /\ Path[0] = head
    BY <1>1, PathUnfolds DEF Onwards, Distinct, Agree
<1>4. IsInjective(yielded')
    BY <1>1, <1>2, <1>3, PrefixOfPath
<1>5. Path[1] = Follow(head)
    <2>1. 1 \in 1..Size /\ 1 - 1 = 0
        OBVIOUS
    <2> QED
        BY <1>1, <1>3, <2>1, PathUnfolds
<1>6. Armed' /\ WalkTypeOK' /\ Running'
    <2>1. Armed'
        BY <1>1 DEF Armed
    <2>2. pc' \in {"visit", "done"} /\ node' \in Nodes /\ (pc' # "done" => result' = "none")
        BY <1>1, HeadAssumption DEF Start, Goto, Raise, WalkInv, WalkTypeOK, Links
    <2> QED
        BY <1>1, <2>1, <2>2 DEF WalkInv, WalkTypeOK, memory, Running
<1>7. CASE ~Readable(head) \/ next[head] = NULL
    <2>1. pc' = "done" /\ result' # "ok" /\ result' # "ListCycleError"
        BY <1>7 DEF Start, Raise
    <2>2. Path[1] = NULL
        BY <1>5, <1>7 DEF Follow
    <2>3. \A i \in 1..1 : Path[i] # head
        BY <2>2, HeadAssumption
    <2>4. ~Closed
        BY <1>1, <2>2, <2>3, NullNeverCloses
    <2>5. AtEnd'
        BY <1>1, <1>4, <2>1, <2>4, EndsInError DEF AtEnd, Sound
    <2> QED
        BY <1>6, <2>1, <2>5 DEF WalkInv, AtStart, AtVisit, AtAdvance
<1>8. CASE Readable(head) /\ next[head] = head
    <2>1. pc' = "done" /\ result' = "ok"
        BY <1>1, <1>8, HeadAssumption DEF Start, Goto, Raise
    <2>2. Path[0 + 1] = head
        BY <1>5, <1>8 DEF Follow
    <2>3. Closed /\ Length = 0
        BY <1>1, <1>3, <2>2, LengthAtReturn
    <2>4. Consistent /\ Expected = Prefix(0) /\ \A i \in 1..Length : Path[i] \in owned
        BY <2>3 DEF Consistent, Expected, Members, Prefix
    <2>5. AtEnd'
        BY <1>1, <1>2, <1>4, <2>1, <2>3, <2>4, EndsInSuccess DEF AtEnd
    <2> QED
        BY <1>6, <2>1, <2>5 DEF WalkInv, AtStart, AtVisit, AtAdvance
<1>9. CASE Readable(head) /\ next[head] \notin {NULL, head}
    <2>1. pc' = "visit" /\ node' = next[head] /\ last' = head
        BY <1>9 DEF Start, Goto
    <2>2. Path[1] = next[head] /\ Path[1] \in Nodes \ {head}
        BY <1>1, <1>5, <1>9, HeadAssumption DEF Follow, Links
    <2>3. Along(1)'
        <3>1. Onwards(1)
            BY <2>2 DEF Onwards
        <3>2. Path' = Path /\ Onwards(1)'
            BY <1>1, <3>1, MemoryKept, MemoryKeptAtNode
        <3> QED
            BY <2>1, <2>2, <3>2, <1>3 DEF Along
    <2>4. Read(0)'
        <3>1. Prefix(0)' = Prefix(0) /\ Distinct(0)' /\ Agree(0)'
            BY <1>1, <1>3, MemoryKeptAtNode
        <3>2. \A i \in 1..0 : Path'[i] \in owned'
            OBVIOUS
        <3>3. {} = IF args'.exact THEN {Path'[i] : i \in 1..0} ELSE {}
            OBVIOUS
        <3>4. pending' = ~Agree(0)'
            BY <1>1, <3>1, Zenon
        <3> QED
            BY <1>1, <1>2, <3>1, <3>2, <3>3, <3>4, Zenon DEF Read
    <2>5. AtVisit'
        BY <2>3, <2>4 DEF AtVisit
    <2> QED
        BY <1>6, <2>1, <2>5 DEF WalkInv, AtStart, AtAdvance, AtEnd
<1> QED
    BY <1>7, <1>8, <1>9

(***************************************************************************)
(* A node on the path: it is one of those before, and the walk reports the *)
(* cycle or is in a trap; or it ends the walk; or the walk gets on.        *)
(***************************************************************************)
LEMMA VisitKeepsTypes ==
    ASSUME WalkInv, Visit
    PROVE  /\ WalkTypeOK' /\ Armed' /\ Running' /\ UNCHANGED memory
           /\ pc' \in {"advance", "done"} /\ UNCHANGED <<node, last>>
<1>1. UNCHANGED memory /\ UNCHANGED <<node, last>> /\ pc = "visit" /\ result = "none"
    BY DEF Visit, WalkInv, Running
<1>2. pc' \in {"advance", "done"} /\ (pc' # "done" => result' = result)
    BY DEF Visit, Raise
<1>3. pending' \in BOOLEAN /\ (pending => pending')
    BY DEF Visit, WalkInv, WalkTypeOK
<1>4. fast' = fast \/ (fast' = node /\ Broken /\ ~args.exact /\ pending')
    BY <1>3 DEF Visit, ArmFast
<1>5. Armed'
    BY <1>1, <1>3, <1>4 DEF WalkInv, Armed, memory
<1>6. WalkTypeOK'
    BY <1>1, <1>2, <1>3 DEF WalkInv, WalkTypeOK, memory
<1> QED
    BY <1>1, <1>2, <1>5, <1>6 DEF Running

LEMMA VisitStuck ==
    ASSUME WalkInv, Visit, Stuck
    PROVE  WalkInv'
<1>1. /\ WalkTypeOK' /\ Armed' /\ Running' /\ UNCHANGED memory
      /\ pc' \in {"advance", "done"} /\ node' = node
    BY VisitKeepsTypes
<1>2. ~args.exact /\ ~Sound /\ Trap(node) /\ ~Closed
    BY DEF Stuck, Sound
<1>3. CASE pc' = "done"
    <2>1. result' # "ok"
        BY <1>2, <1>3 DEF Visit, Raise
    <2>2. AtEnd'
        BY <1>1, <1>2, <2>1, EndsInError DEF AtEnd
    <2> QED
        BY <1>1, <1>3, <2>2 DEF WalkInv, AtStart, AtVisit, AtAdvance
<1>4. CASE pc' = "advance"
    <2>1. Readable(node)
        BY <1>2, <1>4 DEF Visit, Raise
    <2>2. Readable(node)'
        BY <1>1, <2>1 DEF Readable, memory
    <2>3. Trap(node)'
        BY <1>1, <1>2 DEF Trap, Readable, memory
    <2>4. ~Closed' /\ ~args'.exact
        BY <1>1, <1>2, MemoryKept DEF memory
    <2> QED
        BY <1>1, <1>4, <2>2, <2>3, <2>4
        DEF WalkInv, AtStart, AtVisit, AtAdvance, AtEnd, Stuck
<1> QED
    BY <1>1, <1>3, <1>4

LEMMA VisitAlong ==
    ASSUME WalkInv, Visit, NEW k \in 1..Size, Along(k), Read(k - 1)
    PROVE  WalkInv'
<1> USE SizeNat
<1>1. /\ WalkTypeOK' /\ Armed' /\ Running' /\ UNCHANGED memory
      /\ pc' \in {"advance", "done"} /\ node' = node /\ last' = last
    BY VisitKeepsTypes
<1>2. /\ next \in [Nodes -> Links] /\ args \in Arguments
      /\ ~args.klist => owned = Nodes
    BY DEF WalkInv, WalkTypeOK
<1>3. Onwards(k) /\ node = Path[k] /\ last = Path[k - 1] /\ k \in 0..Size /\ k - 1 \in 0..Size
    BY DEF Along
<1>4. /\ Distinct(k - 1) /\ yielded = Prefix(k - 1)
      /\ IsInjective(yielded)
    BY <1>2, <1>3, PrefixOfPath DEF Read
<1>5. k \in 1..k
    OBVIOUS
<1>6. ASSUME NEW i \in 1..(k - 1), Path[i] = Path[k]
      PROVE  Trap(Path[k]) /\ ~Closed
    BY <1>2, <1>3, <1>6, RepeatTraps
<1>7. CASE args.exact /\ node \in visited
    <2>1. pc' = "done" /\ result' = "ListCycleError" /\ yielded' = yielded
        BY <1>7 DEF Visit, Raise
    <2>2. PICK i \in 1..(k - 1) : Path[i] = Path[k]
        BY <1>3, <1>7 DEF Read
    <2>3. ~Closed
        BY <1>6, <2>2
    <2>4. \E a, b \in DOMAIN Path : a < b /\ Path[a] = Path[b] /\ Path[a] # NULL
        <3>1. i \in DOMAIN Path /\ k \in DOMAIN Path /\ i < k
            BY <1>2, PathUnfolds
        <3>2. Path[k] # NULL
            BY <1>3, <1>5, HeadAssumption DEF Onwards
        <3> QED
            BY <2>2, <3>1, <3>2
    <2>5. AtEnd'
        BY <1>1, <1>4, <2>1, <2>3, <2>4, EndsInError DEF AtEnd, Sound
    <2> QED
        BY <1>1, <2>1, <2>5 DEF WalkInv, AtStart, AtVisit, AtAdvance
<1>8. CASE ~(args.exact /\ node \in visited) /\ pc' = "done"
    <2>1. /\ result' # "ok" /\ result' # "ListCycleError" /\ yielded' = yielded
          /\ ~Readable(node) \/ node \notin owned
        BY <1>8 DEF Visit, Raise, Accept
    <2>2. ~Sound
        BY <1>2, <1>3, <1>5, <2>1, SoundSoFar
    <2>3. AtEnd'
        BY <1>1, <1>4, <2>1, <2>2, EndsInError DEF AtEnd
    <2> QED
        BY <1>1, <1>8, <2>3 DEF WalkInv, AtStart, AtVisit, AtAdvance
<1>9. CASE ~(args.exact /\ node \in visited) /\ pc' = "advance"
    <2>1. /\ Readable(node) /\ (args.klist => node \in owned)
          /\ visited' = IF args.exact THEN visited \cup {node} ELSE visited
          /\ pending' = (pending \/ Broken)
          /\ Yield(node)
        BY <1>9 DEF Visit, Raise, Accept
    <2>2. Readable(node)'
        BY <1>1, <2>1 DEF Readable, memory
    <2>3. CASE \E i \in 1..(k - 1) : Path[i] = Path[k]
        <3>1. Trap(node) /\ ~Closed
            BY <1>3, <1>6, <2>3
        <3>2. ~args.exact
            BY <1>3, <1>9, <2>3 DEF Read
        <3>3. Trap(node)'
            BY <1>1, <3>1 DEF Trap, Readable, memory
        <3>4. ~Closed' /\ ~args'.exact
            BY <1>1, <3>1, <3>2, MemoryKept DEF memory
        <3> QED
            BY <1>1, <1>9, <2>2, <3>3, <3>4
            DEF WalkInv, AtStart, AtVisit, AtAdvance, AtEnd, Stuck
    <2>4. CASE \A i \in 1..(k - 1) : Path[i] # Path[k]
        <3>1. Distinct(k)
            <4>1. Path[k] # Path[0]
                BY <1>2, <1>3, <1>5, PathUnfolds DEF Onwards
            <4>2. \A i \in 0..(k - 1) : Path[i] # Path[k]
                BY <2>4, <4>1
            <4>3. \A i \in 0..k : i = k \/ i \in 0..(k - 1)
                OBVIOUS
            <4> QED
                BY <1>4, <4>2, <4>3 DEF Distinct
        <3>2. k \in 1..(Size - 1)
            BY <1>2, <1>3, <3>1, DistinctIsShort
        <3>3. yielded' = Prefix(k)
            <4>1. Len(yielded) < MaxYields
                BY <1>2, <1>3, <1>4, PrefixOfPath, ArgumentAssumption DEF Size
            <4>2. yielded' = Append(Prefix(k - 1), Path[k])
                BY <1>3, <1>4, <2>1, <4>1 DEF Yield
            <4> QED
                BY <4>2, <1>2, <1>3, PrefixOfPath
        <3>4. pending' = ~Agree(k)
            <4>1. \A i \in 1..k : i = k \/ i \in 1..(k - 1)
                OBVIOUS
            <4>2. \A i \in 1..(k - 1) : i \in 1..k
                OBVIOUS
            <4>3. Agree(k) <=> Agree(k - 1) /\ ~Broken
                BY <1>3, <1>5, <4>1, <4>2 DEF Agree, Broken
            <4>4. pending = ~Agree(k - 1)
                BY DEF Read
            <4> QED
                BY <2>1, <4>3, <4>4
        <3>5. \A i \in 1..k : Path[i] \in owned
            <4>1. \A i \in 1..(k - 1) : Path[i] \in owned
                BY DEF Read
            <4>2. Path[k] \in owned
                BY <1>2, <1>3, <1>5, <2>1 DEF Onwards
            <4> QED
                BY <4>1, <4>2
        <3>6. visited' = IF args.exact THEN {Path[i] : i \in 1..k} ELSE {}
            <4>1. visited = IF args.exact THEN {Path[i] : i \in 1..(k - 1)} ELSE {}
                BY DEF Read
            <4>2. {Path[i] : i \in 1..k} = {Path[i] : i \in 1..(k - 1)} \cup {Path[k]}
                OBVIOUS
            <4> QED
                BY <1>3, <2>1, <4>1, <4>2
        <3>7. /\ Path' = Path /\ args' = args /\ owned' = owned
              /\ Distinct(k)' = Distinct(k) /\ Prefix(k)' = Prefix(k)
              /\ Agree(k)' = Agree(k) /\ Onwards(k)' = Onwards(k)
            BY <1>1, MemoryKept, MemoryKeptAtNode DEF memory
        <3>8. Read(k)' 
            BY <3>1, <3>3, <3>4, <3>5, <3>6, <3>7 DEF Read
        <3>9. Along(k)'
            BY <1>1, <1>3, <3>7 DEF Along
        <3> QED
            BY <1>1, <1>9, <2>2, <3>2, <3>8, <3>9
            DEF WalkInv, AtStart, AtVisit, AtAdvance, AtEnd
    <2> QED
        BY <2>3, <2>4
<1> QED
    BY <1>1, <1>7, <1>8, <1>9

LEMMA VisitKeeps == WalkInv /\ Visit => WalkInv'
<1> SUFFICES ASSUME WalkInv, Visit PROVE WalkInv'
    OBVIOUS
<1>1. Stuck \/ \E k \in 1..Size : Along(k) /\ Read(k - 1)
    BY DEF WalkInv, AtVisit, Visit
<1> QED
    BY <1>1, VisitStuck, VisitAlong

(***************************************************************************)
(* The link of a node on the path: it leads to the next node of the path,  *)
(* back to the head, or nowhere.                                           *)
(***************************************************************************)
LEMMA AdvanceKeepsTypes ==
    ASSUME WalkInv, Advance
    PROVE  /\ WalkTypeOK' /\ Armed' /\ Running' /\ UNCHANGED memory
           /\ pc' \in {"visit", "done"} /\ last' = node
           /\ UNCHANGED <<visited, pending, yielded>>
<1>1. /\ UNCHANGED memory /\ UNCHANGED <<visited, pending, yielded>>
      /\ last' = node /\ pc = "advance" /\ result = "none"
    BY DEF Advance, WalkInv, Running
<1>2. pc' \in {"visit", "done"} /\ (pc' # "done" => result' = result)
    BY DEF Advance, Raise, Goto
<1>3. node' \in Nodes
    BY DEF Advance, Goto, WalkInv, WalkTypeOK, Links
<1>4. fast' = fast \/ fast' = NULL \/ fast # NULL
    BY DEF Advance, Lost
<1>5. Armed'
    BY <1>1, <1>4 DEF WalkInv, Armed, memory
<1>6. WalkTypeOK'
    BY <1>1, <1>2, <1>3 DEF WalkInv, WalkTypeOK, memory
<1> QED
    BY <1>1, <1>2, <1>5, <1>6 DEF Running

LEMMA AdvanceStuck ==
    ASSUME WalkInv, Advance, Stuck
    PROVE  WalkInv'
<1>1. /\ WalkTypeOK' /\ Armed' /\ Running' /\ UNCHANGED memory
      /\ pc' \in {"visit", "done"}
    BY AdvanceKeepsTypes
<1>2. ~args.exact /\ ~Sound /\ Trap(node) /\ ~Closed /\ Readable(node)
    BY DEF Stuck, Sound, WalkInv, AtAdvance, Advance
<1>3. Trap(next[node]) /\ next[node] # NULL /\ next[node] # head
    BY <1>2, HeadAssumption DEF Trap
<1>4. CASE pc' = "done"
    <2>1. result' # "ok"
        BY <1>3, <1>4 DEF Advance, Goto, Raise
    <2>2. AtEnd'
        BY <1>1, <1>2, <2>1, EndsInError DEF AtEnd
    <2> QED
        BY <1>1, <1>4, <2>2 DEF WalkInv, AtStart, AtVisit, AtAdvance
<1>5. CASE pc' = "visit"
    <2>1. node' = next[node]
        BY <1>3, <1>5 DEF Advance, Goto, Raise
    <2>2. Trap(node)'
        BY <1>1, <1>3, <2>1 DEF Trap, Readable, memory
    <2>3. ~Closed' /\ ~args'.exact
        BY <1>1, <1>2, MemoryKept DEF memory
    <2> QED
        BY <1>1, <1>5, <2>2, <2>3
        DEF WalkInv, AtStart, AtVisit, AtAdvance, AtEnd, Stuck
<1> QED
    BY <1>1, <1>4, <1>5

LEMMA AdvanceAlong ==
    ASSUME WalkInv, Advance, NEW k \in 1..(Size - 1), Along(k), Read(k)
    PROVE  WalkInv'
<1> USE SizeNat
<1>1. /\ WalkTypeOK' /\ Armed' /\ Running' /\ UNCHANGED memory
      /\ pc' \in {"visit", "done"} /\ last' = node
      /\ visited' = visited /\ pending' = pending /\ yielded' = yielded
    BY AdvanceKeepsTypes
<1>2. /\ next \in [Nodes -> Links] /\ args \in Arguments /\ pc = "advance"
      /\ Readable(node) /\ pending \in BOOLEAN
    BY DEF WalkInv, WalkTypeOK, AtAdvance, Advance
<1>3. /\ Onwards(k) /\ node = Path[k] /\ k \in 0..Size /\ k \in 0..(Size - 1)
      /\ k + 1 \in 1..Size /\ (k + 1) - 1 = k
    BY DEF Along
<1>4. /\ Distinct(k) /\ yielded = Prefix(k) /\ IsInjective(yielded)
      /\ pending = ~Agree(k) /\ \A i \in 1..k : Path[i] \in owned
    BY <1>2, <1>3, PrefixOfPath DEF Read
<1>5. Path[k + 1] = next[node]
    <2>1. Path[k + 1] = Follow(Path[(k + 1) - 1])
        BY <1>2, <1>3, PathUnfolds
    <2> QED
        BY <2>1, <1>2, <1>3 DEF Follow
<1>6. CASE pending /\ pc' = "done" /\ result' # "ok"
    <2>1. ~Sound
        BY <1>2, <1>3, <1>4, <1>6, SoundSoFar
    <2>2. ~(args.exact /\ result' = "ListCycleError")
        <3>1. args.exact => fast = NULL
            BY DEF WalkInv, Armed
        <3> QED
            BY <3>1, <1>6 DEF Advance, Met, Raise, Goto
    <2>3. AtEnd'
        BY <1>1, <1>4, <1>6, <2>1, <2>2, EndsInError DEF AtEnd
    <2> QED
        BY <1>1, <1>6, <2>3 DEF WalkInv, AtStart, AtVisit, AtAdvance
<1>7. ~pending => ~Met
    BY DEF WalkInv, Armed, Met
<1>8. CASE ~pending /\ next[node] = NULL
    <2>1. pc' = "done" /\ result' = "CorruptListError"
        BY <1>7, <1>8 DEF Advance, Raise
    <2>2. Path[k + 1] = NULL /\ \A i \in 1..(k + 1) : Path[i] # head
        <3>1. \A i \in 1..(k + 1) : i = k + 1 \/ i \in 1..k
            OBVIOUS
        <3> QED
            BY <3>1, <1>3, <1>5, <1>8, HeadAssumption DEF Onwards
    <2>3. ~Sound
        BY <1>2, <1>3, <2>2, NullNeverCloses DEF Sound
    <2>4. AtEnd'
        BY <1>1, <1>4, <2>1, <2>3, EndsInError DEF AtEnd
    <2> QED
        BY <1>1, <2>1, <2>4 DEF WalkInv, AtStart, AtVisit, AtAdvance
<1>9. CASE ~pending /\ next[node] = head
    <2>1. pc' = "done" /\ result' = "ok"
        BY <1>7, <1>9, HeadAssumption DEF Advance, Raise, Goto
    <2>2. Closed /\ Length = k
        BY <1>2, <1>3, <1>5, <1>9, LengthAtReturn
    <2>3. Consistent
        BY <1>4, <1>9, <2>2 DEF Consistent, Agree
    <2>4. Expected = Prefix(k)
        BY <2>2 DEF Expected, Members, Prefix
    <2>5. AtEnd'
        BY <1>1, <1>4, <2>1, <2>2, <2>3, <2>4, EndsInSuccess DEF AtEnd
    <2> QED
        BY <1>1, <2>1, <2>5 DEF WalkInv, AtStart, AtVisit, AtAdvance
<1>10. CASE pc' = "visit"
    <2>1. node' = next[node] /\ next[node] \notin {NULL, head}
        BY <1>10 DEF Advance, Raise, Goto
    <2>2. Onwards(k + 1)
        <3>1. \A i \in 1..(k + 1) : i = k + 1 \/ i \in 1..k
            OBVIOUS
        <3>2. next[node] \in Nodes \ {head}
            BY <1>2, <2>1 DEF Readable, Links
        <3> QED
            BY <3>1, <3>2, <1>3, <1>5 DEF Onwards
    <2>3. /\ Path' = Path /\ args' = args /\ owned' = owned
          /\ Distinct(k)' = Distinct(k) /\ Prefix(k)' = Prefix(k)
          /\ Agree(k)' = Agree(k) /\ Onwards(k + 1)' = Onwards(k + 1)
        BY <1>1, MemoryKept, MemoryKeptAtNode DEF memory
    <2>4. Along(k + 1)'
        BY <1>1, <1>3, <1>5, <2>1, <2>2, <2>3 DEF Along
    <2>5. Read((k + 1) - 1)'
        BY <1>1, <1>3, <2>3 DEF Read
    <2>6. AtVisit'
        BY <1>3, <2>4, <2>5 DEF AtVisit
    <2> QED
        BY <1>1, <1>10, <2>6 DEF WalkInv, AtStart, AtAdvance, AtEnd
<1>11. ASSUME pending, pc' = "done" PROVE result' # "ok"
    BY <1>11 DEF Advance, Raise, Goto
<1>12. ~pending /\ pc' = "done" => next[node] \in {NULL, head}
    BY <1>7 DEF Advance, Raise, Goto
<1> QED
    BY <1>1, <1>2, <1>6, <1>8, <1>9, <1>10, <1>11, <1>12

LEMMA AdvanceKeeps == WalkInv /\ Advance => WalkInv'
<1> SUFFICES ASSUME WalkInv, Advance PROVE WalkInv'
    OBVIOUS
<1>1. Stuck \/ \E k \in 1..(Size - 1) : Along(k) /\ Read(k)
    BY DEF WalkInv, AtAdvance, Advance
<1> QED
    BY <1>1, AdvanceStuck, AdvanceAlong

LEMMA WalkStutters == WalkInv /\ UNCHANGED vars => WalkInv'
<1> SUFFICES ASSUME WalkInv, UNCHANGED vars PROVE WalkInv'
    OBVIOUS
<1>1. /\ UNCHANGED memory
      /\ UNCHANGED <<pc, node, last, fast, visited, pending, yielded, result>>
    BY DEF vars, memory
<1>2. /\ Path' = Path /\ args' = args /\ owned' = owned /\ prev' = prev
      /\ Closed' = Closed /\ Consistent' = Consistent /\ Length' = Length
      /\ Expected' = Expected
      /\ \A k : Distinct(k)' = Distinct(k) /\ Prefix(k)' = Prefix(k)
                /\ Agree(k)' = Agree(k) /\ Onwards(k)' = Onwards(k)
    BY <1>1, MemoryKept, MemoryKeptAtNode DEF memory
<1>3. WalkTypeOK' /\ Armed' /\ Running' /\ AtStart'
    BY <1>1 DEF WalkInv, WalkTypeOK, Armed, Running, AtStart, memory
<1>4. Stuck' = Stuck /\ Readable(node)' = Readable(node)
    BY <1>1, <1>2 DEF Stuck, Trap, Readable, memory
<1>5. \A k : Along(k)' = Along(k)
    BY <1>1, <1>2 DEF Along
<1>6. \A k : Read(k)' = Read(k)
    BY <1>1, <1>2 DEF Read
<1>7. AtVisit' /\ AtAdvance'
    BY <1>1, <1>4, <1>5, <1>6 DEF WalkInv, AtVisit, AtAdvance
<1>8. SuccessExact' = SuccessExact /\ ExactCycles' = ExactCycles
    <2>1. absent' = absent
        BY <1>1 DEF memory
    <2> QED
        BY <1>1, <1>2, <2>1 DEF SuccessExact, ExactCycles, Readable
<1> QED
    BY <1>1, <1>3, <1>7, <1>8 DEF WalkInv, AtEnd

(***************************************************************************)
(* At every step of list_for_each the nodes given to the caller are those  *)
(* of the path from the head, each once, and pending_exception is set      *)
(* exactly if their links disagree, or the walk has left every list that   *)
(* comes back to the head.                                                 *)
(***************************************************************************)
THEOREM WalkInvariant == Spec => []WalkInv
<1>1. ASSUME WalkInv, [Next]_vars PROVE WalkInv'
    BY <1>1, StartKeeps, VisitKeeps, AdvanceKeeps, WalkStutters DEF Next
<1> QED
    BY WalkInit, <1>1, PTL DEF Spec

(***************************************************************************)
(* list_for_each reports success only for a list that is closed, whose     *)
(* links agree and, for klist_for_each, whose nodes belong to the klist,   *)
(* having yielded each node once and in order; and it reports success for  *)
(* every such list that can be read.                                       *)
(***************************************************************************)
THEOREM SoundListsWalked == Spec => []SuccessExact
<1>1. WalkInv => SuccessExact
    BY DEF WalkInv, Running, AtEnd, SuccessExact
<1> QED
    BY <1>1, WalkInvariant, PTL

(***************************************************************************)
(* With exact_cycles list_for_each yields no node twice, and a             *)
(* ListCycleError means that the path runs into itself without passing     *)
(* the head.                                                               *)
(***************************************************************************)
THEOREM CyclesExact == Spec => []ExactCycles
<1>1. ASSUME WalkInv PROVE ExactCycles
    <2>1. ASSUME NEW k \in 0..Size, Read(k), result = "none" PROVE ExactCycles
        <3>1. IsInjective(yielded)
            BY <1>1, <2>1, PrefixOfPath DEF Read, WalkInv, WalkTypeOK
        <3> QED
            BY <2>1, <3>1 DEF ExactCycles
    <2>2. CASE pc = "start"
        <3>1. yielded = <<>> /\ result = "none"
            BY <1>1, <2>2 DEF WalkInv, AtStart, Running
        <3>2. IsInjective(yielded)
            BY <3>1 DEF IsInjective
        <3> QED
            BY <3>1, <3>2 DEF ExactCycles
    <2>3. CASE pc = "visit"
        <3>1. result = "none" /\ (Stuck \/ \E k \in 1..Size : Read(k - 1))
            BY <1>1, <2>3 DEF WalkInv, AtVisit, Running
        <3>2. \A k \in 1..Size : k - 1 \in 0..Size
            BY SizeNat
        <3> QED
            BY <2>1, <3>1, <3>2 DEF Stuck, ExactCycles
    <2>4. CASE pc = "advance"
        <3>1. result = "none" /\ (Stuck \/ \E k \in 1..(Size - 1) : Read(k))
            BY <1>1, <2>4 DEF WalkInv, AtAdvance, Running
        <3>2. \A k \in 1..(Size - 1) : k \in 0..Size
            BY SizeNat
        <3> QED
            BY <2>1, <3>1, <3>2 DEF Stuck, ExactCycles
    <2>5. CASE pc = "done"
        BY <1>1, <2>5 DEF WalkInv, AtEnd
    <2> QED
        BY <1>1, <2>2, <2>3, <2>4, <2>5 DEF WalkInv, WalkTypeOK
<1> QED
    BY <1>1, WalkInvariant, PTL
=============================================================================
