----------------------------- MODULE LeastElement -----------------------------
(***************************************************************************)
(* Induction over the naturals in a form without an operator parameter:    *)
(* the proofs of this project take the least counterexample.  And finite   *)
(* sets of naturals listed in order, as the loops of the code take them,   *)
(* and remainders.                                                         *)
(***************************************************************************)
EXTENDS Integers, Sequences, FiniteSetTheorems, WellFoundedInduction, TLAPS

(***************************************************************************)
(* A set of naturals that is not empty has a least element.                *)
(***************************************************************************)
LEMMA LeastNatural ==
    ASSUME NEW U \in SUBSET Nat, U # {}
    PROVE  \E n \in U : \A m \in U : n <= m
<1>1. IsWellFoundedOn(OpToRel(<, Nat), Nat)
    BY NatLessThanWellFounded
<1>2. PICK n \in U : \A m \in U : ~(<<m, n>> \in OpToRel(<, Nat))
    BY <1>1, WFMin
<1>3. \A m \in U : ~(m < n)
    BY <1>2 DEF OpToRel
<1> QED
    BY <1>3

(***************************************************************************)
(* Induction up to a bound, for a set of naturals that holds 0 and, below  *)
(* the bound, the successor of each of its members.                        *)
(***************************************************************************)
LEMMA InductionUpTo ==
    ASSUME NEW N \in Nat, NEW G \in SUBSET (0..N),
           0 \in G,
           \A n \in 1..N : n - 1 \in G => n \in G
    PROVE  G = 0..N
<1> DEFINE Bad == (0..N) \ G
<1> SUFFICES ASSUME Bad # {} PROVE FALSE
    OBVIOUS
<1>1. PICK n \in Bad : \A m \in Bad : n <= m
    <2>1. Bad \in SUBSET Nat
        OBVIOUS
    <2> HIDE DEF Bad
    <2> QED
        BY <2>1, LeastNatural
<1>2. n # 0 /\ n \in 1..N /\ n - 1 \in 0..N
    BY <1>1
<1>3. n - 1 \notin Bad
    <2> HIDE DEF Bad
    <2> QED
        BY <1>1, <1>2
<1> QED
    BY <1>1, <1>2, <1>3

(***************************************************************************)
(* A set of naturals that is not empty and has a bound has a greatest      *)
(* element: the least of its bounds.                                       *)
(***************************************************************************)
LEMMA GreatestNatural ==
    ASSUME NEW b \in Nat, NEW S \in SUBSET (0..b), S # {}
    PROVE  \E x \in S : \A y \in S : x >= y
<1> DEFINE U == {u \in Nat : \A y \in S : u >= y}
<1>1. b \in U /\ U \in SUBSET Nat
    OBVIOUS
<1>2. PICK u \in U : \A v \in U : u <= v
    <2> HIDE DEF U
    <2> QED
        BY <1>1, LeastNatural
<1>3. u \in S
    <2> SUFFICES ASSUME u \notin S PROVE FALSE
        OBVIOUS
    <2>1. PICK s \in S : TRUE
        OBVIOUS
    <2>2. u >= s /\ s \in 0..b /\ u \in Nat
        BY <1>2, <2>1
    <2>3. \A y \in S : u - 1 >= y
        <3>1. \A y \in S : y \in 0..b /\ u >= y /\ u # y
            BY <1>2
        <3> QED
            BY <3>1, <2>2
    <2>4. u # s
        BY <2>1
    <2>5. u - 1 \in U
        BY <2>2, <2>3, <2>4
    <2> QED
        BY <1>2, <2>2, <2>5
<1> QED
    BY <1>2, <1>3

(***************************************************************************)
(* A finite set of naturals can be put in order.                           *)
(***************************************************************************)
LEMMA OrderExists ==
    ASSUME NEW S \in SUBSET Nat, IsFiniteSet(S)
    PROVE  \E q \in [1..Cardinality(S) -> S] :
               \A i, j \in 1..Cardinality(S) : i < j => q[i] < q[j]
<1> DEFINE Rises(q, n) == \A i, j \in 1..n : i < j => q[i] < q[j]
           N == Cardinality(S)
           G == {n \in 0..N : \A T \in SUBSET S :
                    Cardinality(T) = n => \E q \in [1..n -> T] : Rises(q, n)}
<1>1. N \in Nat
    BY FS_CardinalityType
<1>2. 0 \in G
    <2>1. ASSUME NEW T PROVE \E q \in [1..0 -> T] : Rises(q, 0)
        <3>1. [i \in 1..0 |-> 0] \in [1..0 -> T]
            OBVIOUS
        <3>2. \A q : Rises(q, 0)
            OBVIOUS
        <3> HIDE DEF Rises
        <3> QED
            BY <3>1, <3>2
    <2> QED
        BY <1>1, <2>1
<1>3. ASSUME NEW n \in 1..N, n - 1 \in G PROVE n \in G
    <2> SUFFICES ASSUME NEW T \in SUBSET S, Cardinality(T) = n
                 PROVE  \E q \in [1..n -> T] : Rises(q, n)
        BY <1>1
    <2>1. IsFiniteSet(T) /\ T \in SUBSET Nat
        BY FS_Subset
    <2>2. T # {}
        BY <1>1, FS_EmptySet
    <2>3. PICK m \in T : \A x \in T : m <= x
        BY <2>1, <2>2, LeastNatural
    <2>4. Cardinality(T \ {m}) = n - 1
        BY <2>1, <2>3, FS_RemoveElement
    <2>5. PICK q \in [1..(n - 1) -> T \ {m}] : Rises(q, n - 1)
        BY <1>3, <2>4
    <2> DEFINE p == [i \in 1..n |-> IF i = 1 THEN m ELSE q[i - 1]]
    <2>6. \A i \in 1..n : i # 1 => i - 1 \in 1..(n - 1)
        BY <1>1
    <2>7. \A i \in 1..(n - 1) : q[i] \in T /\ q[i] # m /\ q[i] \in Nat
        BY <2>1, <2>5
    <2>8. p \in [1..n -> T]
        BY <2>3, <2>6, <2>7
    <2>9. ASSUME NEW i \in 1..n, NEW j \in 1..n, i < j PROVE p[i] < p[j]
        <3>1. j # 1 /\ j - 1 \in 1..(n - 1)
            BY <1>1, <2>9
        <3>2. CASE i = 1
            <4>1. m <= q[j - 1] /\ m # q[j - 1] /\ m \in Nat /\ q[j - 1] \in Nat
                BY <3>1, <2>1, <2>3, <2>7
            <4> QED
                BY <3>1, <3>2, <4>1
        <3>3. CASE i # 1
            <4>1. i - 1 \in 1..(n - 1) /\ i - 1 < j - 1
                BY <3>3, <1>1, <2>9
            <4> QED
                BY <3>1, <3>3, <4>1, <2>5
        <3> QED
            BY <3>2, <3>3
    <2> QED
        BY <2>8, <2>9
<1>4. N \in G
    <2>1. G \in SUBSET (0..N)
        OBVIOUS
    <2> HIDE DEF G
    <2>2. G = 0..N
        BY <1>1, <1>2, <1>3, <2>1, InductionUpTo
    <2> QED
        BY <1>1, <2>2
<1> QED
    BY <1>4

(***************************************************************************)
(* Members in rising order, as many as the set has, are all of them.       *)
(***************************************************************************)
LEMMA Ascending ==
    ASSUME NEW S \in SUBSET Nat, IsFiniteSet(S), NEW f \in [1..Cardinality(S) -> S],
           \A i, j \in 1..Cardinality(S) : i < j => f[i] < f[j]
    PROVE  /\ f \in Seq(S) /\ Len(f) = Cardinality(S)
           /\ \A x \in S : \E i \in 1..Cardinality(S) : f[i] = x
<1> DEFINE n == Cardinality(S)
<1>1. n \in Nat /\ Cardinality(1..n) = n
    BY FS_CardinalityType, FS_Interval
<1>2. f \in Injection(1..n, S)
    <2>1. \A i \in 1..n : f[i] \in Nat
        OBVIOUS
    <2>2. ASSUME NEW i \in 1..n, NEW j \in 1..n, f[i] = f[j] PROVE i = j
        <3>1. ~(f[i] < f[j]) /\ ~(f[j] < f[i])
            BY <2>1, <2>2
        <3>2. ~(i < j) /\ ~(j < i)
            BY <3>1
        <3> QED
            BY <3>2, <1>1
    <2> QED
        BY <2>2 DEF Injection, IsInjective
<1>3. f \in Surjection(1..n, S)
    <2> HIDE DEF n
    <2>1. Cardinality(1..n) = Cardinality(S) <=> f \in Surjection(1..n, S)
        BY <1>2, FS_Injection
    <2> QED
        BY <2>1, <1>1 DEF n
<1>4. f \in Seq(S) /\ Len(f) = n
    BY <1>1
<1> QED
    BY <1>3, <1>4 DEF Surjection

(***************************************************************************)
(* A finite set can be listed without repetition, and as many members as   *)
(* the set has, none of them twice, are all of them.                       *)
(***************************************************************************)
LEMMA Enumeration ==
    ASSUME NEW S, IsFiniteSet(S)
    PROVE  /\ \E f \in [1..Cardinality(S) -> S] :
                  \A i, j \in 1..Cardinality(S) : f[i] = f[j] => i = j
           /\ \A f \in [1..Cardinality(S) -> S] :
                  (\A i, j \in 1..Cardinality(S) : f[i] = f[j] => i = j)
                  => /\ f \in Seq(S) /\ Len(f) = Cardinality(S)
                     /\ \A x \in S : \E i \in 1..Cardinality(S) : f[i] = x
<1> DEFINE n == Cardinality(S)
<1>1. n \in Nat /\ ExistsBijection(1..n, S) /\ Cardinality(1..n) = n
    BY FS_CardinalityType, FS_Interval
<1>2. \E f \in [1..n -> S] : \A i, j \in 1..n : f[i] = f[j] => i = j
    BY <1>1 DEF ExistsBijection, Bijection, Injection, IsInjective
<1>3. ASSUME NEW f \in [1..n -> S], \A i, j \in 1..n : f[i] = f[j] => i = j
      PROVE  f \in Seq(S) /\ Len(f) = n /\ \A x \in S : \E i \in 1..n : f[i] = x
    <2>1. f \in Injection(1..n, S)
        BY <1>3 DEF Injection, IsInjective
    <2>2. f \in Surjection(1..n, S)
        <3> HIDE DEF n
        <3>1. Cardinality(1..n) = Cardinality(S) <=> f \in Surjection(1..n, S)
            BY <2>1, FS_Injection
        <3> QED
            BY <3>1, <1>1 DEF n
    <2> QED
        BY <1>1, <2>2 DEF Surjection
<1> QED
    BY <1>2, <1>3

-----------------------------------------------------------------------------
(***************************************************************************)
(* Remainders.                                                             *)
(***************************************************************************)
LEMMA Quotient ==
    ASSUME NEW n \in Nat \ {0, 1}, NEW a \in Int
    PROVE  /\ a % n \in 0..(n - 1) /\ a \div n \in Int
           /\ a = (n * (a \div n)) + (a % n)
    OBVIOUS

LEMMA MultiplesApart ==
    ASSUME NEW n \in Nat \ {0, 1}, NEW p \in Int, NEW q \in Int, p > q
    PROVE  n * p - n * q >= n
<1>1. n * (p - q) >= n
    OBVIOUS
<1> QED
    BY <1>1

LEMMA RemainderUnique ==
    ASSUME NEW n \in Nat \ {0, 1}, NEW a \in Int, NEW q \in Int,
           NEW r \in 0..(n - 1), a = n * q + r
    PROVE  a % n = r
<1>1. PICK p \in Int, s \in 0..(n - 1) : a = n * p + s /\ s = a % n
    BY Quotient
<1>2. ASSUME p > q PROVE FALSE
    <2>1. n * p - n * q >= n
        BY <1>2, MultiplesApart
    <2> QED
        BY <2>1, <1>1
<1>3. ASSUME q > p PROVE FALSE
    <2>1. n * q - n * p >= n
        BY <1>3, MultiplesApart
    <2> QED
        BY <2>1, <1>1
<1>4. n * p = n * q
    BY <1>2, <1>3
<1>5. n * p \in Int /\ n * q \in Int
    OBVIOUS
<1>6. s = r
    BY <1>1, <1>4, <1>5
<1> QED
    BY <1>1, <1>6

LEMMA RemainderSmall ==
    ASSUME NEW n \in Nat \ {0, 1}, NEW a \in 0..(n - 1)
    PROVE  a % n = a
<1>1. a = n * 0 + a
    OBVIOUS
<1> QED
    BY <1>1, RemainderUnique

LEMMA RemainderMinusOne ==
    ASSUME NEW n \in Nat \ {0, 1}
    PROVE  (-1) % n = n - 1
<1>1. -1 = n * (-1) + (n - 1) /\ -1 \in Int /\ n - 1 \in 0..(n - 1)
    OBVIOUS
<1> QED
    BY <1>1, RemainderUnique

LEMMA RemainderShifts ==
    ASSUME NEW n \in Nat \ {0, 1}, NEW a \in Int
    PROVE  (a + n) % n = a % n
<1>1. PICK p \in Int, s \in 0..(n - 1) : a = n * p + s /\ s = a % n
    BY Quotient
<1>2. a + n = n * (p + 1) + s /\ p + 1 \in Int /\ a + n \in Int
    BY <1>1
<1>3. (a + n) % n = s
    BY <1>2, RemainderUnique
<1> QED
    BY <1>1, <1>3

LEMMA RemainderDiffers ==
    ASSUME NEW n \in Nat \ {0, 1}, NEW a \in Int, NEW b \in Int,
           a - b < n, b - a < n, a % n = b % n
    PROVE  a = b
<1>1. /\ a = n * (a \div n) + (a % n) /\ b = n * (b \div n) + (b % n)
      /\ a \div n \in Int /\ b \div n \in Int
    BY Quotient
<1>2. ASSUME a \div n > b \div n PROVE FALSE
    BY <1>1, <1>2, MultiplesApart
<1>3. ASSUME b \div n > a \div n PROVE FALSE
    BY <1>1, <1>3, MultiplesApart
<1> QED
    BY <1>1, <1>2, <1>3

=============================================================================
