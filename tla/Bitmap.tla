-------------------------------- MODULE Bitmap --------------------------------
(***************************************************************************)
(* The bitmap functions of crash/types/bitmap.py.  An unsigned long is the *)
(* set of the bits that are 1, numbered from 0; W is its width.  The       *)
(* positions the find functions return are counted from 1, 0 meaning that  *)
(* there is none, while for_each_set_bit, test_bit and the argument start  *)
(* count from 0: a position returned by one call is the start of the next. *)
(*                                                                         *)
(* The state machine is a caller that scans a bitmap in this way, for the  *)
(* set bits or for the zero bits, from an arbitrary start.                 *)
(***************************************************************************)
EXTENDS Integers, Sequences, FiniteSets, FiniteSetsExt, Folds

CONSTANTS
    W,              \* types.unsigned_long_type.sizeof << 3
    B,              \* the bits of a byte
    Shifts,         \* the shifts of _find_first_set_bit, in order
    Words,          \* the number of words in memory
    Starts          \* where a scan may start

ConstantsOK == /\ W \in Nat \ {0} /\ B \in Nat \ {0} /\ W % B = 0
               /\ Shifts \in Seq(Nat) /\ Words \in Nat /\ Starts \subseteq Nat

Bits == 0..(W - 1)
Bitmaps == [0..(Words - 1) -> SUBSET Bits]

VARIABLES
    bitmap,         \* the words
    size,           \* the argument size_in_bytes
    zero,           \* the scan is for zero bits
    start,          \* where the scan began
    pos,            \* the start of the next call
    found,          \* the positions returned so far, counted from 0
    ended           \* the last call returned 0

vars == <<bitmap, size, zero, start, pos, found, ended>>

-----------------------------------------------------------------------------
ShiftRight(w, n) == {b - n : b \in {c \in w : c >= n}}
ShiftLeft(w, n) == {b + n : b \in {c \in w : c + n < W}}
LowBits(n) == 0..(n - 1)
HighBits(n) == (W - n)..(W - 1)

(***************************************************************************)
(* _find_first_set_bit: if the low half holds no bit, drop it; then the    *)
(* same with a quarter, and so on.                                         *)
(***************************************************************************)
FirstStep(a, n) == IF a.val \cap LowBits(n) = {}
                   THEN [val |-> ShiftRight(a.val, n), r |-> a.r + n]
                   ELSE a
FirstSteps[i \in 0..Len(Shifts)] ==
    [w \in SUBSET Bits |->
        IF i = 0 THEN [val |-> w, r |-> 1]
        ELSE FirstStep(FirstSteps[i - 1][w], Shifts[i])]
find_first_in_word(w) == IF w = {} THEN 0 ELSE FirstSteps[Len(Shifts)][w].r

\* _find_last_set_bit: the same from the other end.
LastStep(a, n) == IF a.val \cap HighBits(n) = {}
                  THEN [val |-> ShiftLeft(a.val, n), r |-> a.r - n]
                  ELSE a
LastSteps[i \in 0..Len(Shifts)] ==
    [w \in SUBSET Bits |->
        IF i = 0 THEN [val |-> w, r |-> W]
        ELSE LastStep(LastSteps[i - 1][w], Shifts[i])]
find_last_in_word(w) == IF w = {} THEN 0 ELSE LastSteps[Len(Shifts)][w].r

Elements == size \div (W \div B)
Word(n, inverted) == IF inverted THEN Bits \ bitmap[n] ELSE bitmap[n]

(***************************************************************************)
(* The loop of find_next_zero_bit and find_next_set_bit from the word n,   *)
(* with the offset below which the bits of the word are ignored.  A word   *)
(* without a bit of the kind looked for is passed by `continue', which     *)
(* leaves the offset alone; a word whose bits are all ignored resets it.   *)
(***************************************************************************)
Masked(w, offset) == IF offset > 0 THEN w \ LowBits(offset) ELSE w
NextBit(inverted, from) ==
    LET loop[n \in 0..Words, offset \in Bits] ==
            IF n >= Elements THEN 0
            ELSE LET w == Word(n, inverted)
                     v == find_first_in_word(Masked(w, offset))
                 IN  IF w = {} THEN loop[n + 1, offset]
                     ELSE IF v > 0 THEN n * W + v
                     ELSE loop[n + 1, 0]
    IN  loop[from \div W, from % W]

find_next_zero_bit(from) == NextBit(TRUE, from)
find_next_set_bit(from) == NextBit(FALSE, from)
find_first_zero_bit == find_next_zero_bit(0)
find_first_set_bit == find_next_set_bit(0)

find_last_set_bit ==
    LET loop[n \in 0..Words] ==
            IF n = 0 THEN 0
            ELSE IF bitmap[n - 1] = {} THEN loop[n - 1]
            ELSE (n - 1) * W + find_last_in_word(bitmap[n - 1])
    IN  loop[Elements]

(***************************************************************************)
(* for_each_set_bit: the set bits one by one.  `bit' is the position the   *)
(* loop has reached; the last word may be taken in part.                   *)
(***************************************************************************)
WordBits(w, n) == [j \in 1..Cardinality(w \cap LowBits(n)) |->
                      CHOOSE b \in w : Cardinality(w \cap LowBits(b)) = j - 1]
SkipNone(bit) == bit
SkipWord(bit) == bit + W
for_each_set_bit ==
    LET loop[n \in 0..Words, bit \in 0..(Words * W)] ==
            LET left == size * B - n * W
                w == bitmap[n]
                taken == IF left < W THEN left ELSE W
            IN  IF left <= 0 THEN <<>>
                ELSE IF w = {} THEN loop[n + 1, SkipWord(bit)]
                ELSE [j \in DOMAIN WordBits(w, taken) |->
                         bit + WordBits(w, taken)[j]] \o loop[n + 1, bit + taken]
    IN  loop[0, 0]

\* test_bit, for the bits it does not reject with ValueError.
test_bit(bit) == bit % W \in bitmap[bit \div W]

-----------------------------------------------------------------------------
\* A caller's bitmap; a start past the end raises IndexError.
Init ==
    /\ bitmap \in Bitmaps
    /\ size \in 0..(Words * (W \div B))
    /\ zero \in BOOLEAN
    /\ start \in Starts /\ start <= size * B
    /\ pos = start /\ found = <<>> /\ ended = FALSE

\* The record of the scan is as long as the bitmap at most.
Note(p) == found' = IF Len(found) < Words * W THEN Append(found, p) ELSE found

Find ==
    /\ ~ended
    /\ LET ret == IF zero THEN find_next_zero_bit(pos) ELSE find_next_set_bit(pos)
       IN  IF ret = 0
           THEN ended' = TRUE /\ UNCHANGED <<pos, found>>
           ELSE pos' = ret /\ Note(ret - 1) /\ UNCHANGED ended
    /\ UNCHANGED <<bitmap, size, zero, start>>

Next == Find
Spec == Init /\ [][Next]_vars /\ WF_vars(Next)

-----------------------------------------------------------------------------
(***************************************************************************)
(* The positions that are set or zero, among those of the whole words.     *)
(***************************************************************************)
Whole == 0..(Elements * W - 1)
Positions(inverted) == {p \in Whole : test_bit(p) # inverted}
Ascending(S) == [j \in 1..Cardinality(S) |->
                    CHOOSE p \in S : Cardinality({q \in S : q < p}) = j - 1]

(***************************************************************************)
(* for_each_set_bit yields every set bit of the bitmap once, in ascending  *)
(* order, those of a last word that is only partly in the bitmap included. *)
(***************************************************************************)
ForEachYieldsAll ==
    for_each_set_bit = Ascending({p \in 0..(size * B - 1) : test_bit(p)})

(***************************************************************************)
(* On bitmaps of whole words the find functions and for_each_set_bit see   *)
(* the same first and last bit, up to the different counting.              *)
(***************************************************************************)
EndsAgree ==
    size % (W \div B) = 0 =>
        IF for_each_set_bit = <<>>
        THEN find_first_set_bit = 0 /\ find_last_set_bit = 0
        ELSE /\ find_first_set_bit = for_each_set_bit[1] + 1
             /\ find_last_set_bit = for_each_set_bit[Len(for_each_set_bit)] + 1

(***************************************************************************)
(* A scan that passes each result on as the next start meets every bit of  *)
(* its kind from its start on, in order, and then ends.  The skipped reset *)
(* of the offset cannot hurt it when it starts at a word: later starts lie *)
(* right behind a bit of the kind looked for.                              *)
(***************************************************************************)
ScanFindsAll ==
    ended => found = Ascending({p \in Positions(zero) : p >= start})


(***************************************************************************)
(* "Return the next unset bit in the bitmap starting at position start,    *)
(* inclusive", or 0 if there is none.                                      *)
(***************************************************************************)
NextIsFirstFromStart ==
    LET rest == {p \in Positions(zero) : p >= start}
    IN  NextBit(zero, start) = IF rest = {} THEN 0 ELSE Min(rest) + 1

=============================================================================
