--------------------------- MODULE LogCommandProofs ---------------------------
(***************************************************************************)
(* ShowsTheLog of LogCommand for rings and writers of any number: whenever *)
(* the kernel crashes, log_show of lockless_ringbuffer.py accepts the tail *)
(* it finds and shows exactly the records it is entitled to.               *)
(*                                                                         *)
(* The reader trusts a descriptor if it is in a state that can be read and *)
(* printk_info has the number it looks for.  The proof shows what that is  *)
(* worth: at every moment each id of the N that the ring can hold next has *)
(* its descriptor, or the descriptor is still as the id before it in the   *)
(* same place has left it, and then its number is another one.             *)
(***************************************************************************)
EXTENDS LogCommand, FiniteSetTheorems, LeastElement

-----------------------------------------------------------------------------
(***************************************************************************)
(* The places of ids in the ring.                                          *)
(***************************************************************************)
LEMMA RingSize == N \in Nat \ {0, 1} /\ N \in Int /\ N >= 2
    BY LogAssumption DEF Lockless!ConstantsOK

LEMMA Places ==
    /\ \A a \in Int : Lockless!get_idx(a) \in Lockless!Index
    /\ \A a \in Int : Lockless!get_idx(a + N) = Lockless!get_idx(a)
    /\ \A a, b \in Int :
          a - b < N /\ b - a < N /\ Lockless!get_idx(a) = Lockless!get_idx(b)
              => a = b
    /\ \A a \in 0..(N - 1) : Lockless!get_idx(a) = a
    /\ Lockless!get_idx(-1) = N - 1
    /\ Lockless!get_idx(N) = 0
<1>1. \A a \in Int : Lockless!get_idx(a) \in Lockless!Index
    BY RingSize, Quotient DEF Lockless!get_idx, Lockless!Index
<1>2. \A a \in Int : Lockless!get_idx(a + N) = Lockless!get_idx(a)
    BY RingSize, RemainderShifts DEF Lockless!get_idx
<1>3. \A a, b \in Int :
          a - b < N /\ b - a < N /\ Lockless!get_idx(a) = Lockless!get_idx(b)
              => a = b
    BY RingSize, RemainderDiffers DEF Lockless!get_idx
<1>4. \A a \in 0..(N - 1) : Lockless!get_idx(a) = a
    BY RingSize, RemainderSmall DEF Lockless!get_idx
<1>5. Lockless!get_idx(-1) = N - 1
    BY RingSize, RemainderMinusOne DEF Lockless!get_idx
<1>6. Lockless!get_idx(N) = 0
    <2>1. 0 \in 0..(N - 1) /\ 0 \in Int /\ 0 + N = N
        BY RingSize
    <2>2. Lockless!get_idx(0 + N) = Lockless!get_idx(0) /\ Lockless!get_idx(0) = 0
        BY <1>2, <1>4, <2>1
    <2> QED
        BY <2>1, <2>2
<1> QED
    BY <1>1, <1>2, <1>3, <1>4, <1>5, <1>6

-----------------------------------------------------------------------------
(***************************************************************************)
(* The ring.  A slot is an id of the N that the ring can hold from the     *)
(* tail on.  Taken: its descriptor is the id's, and numbered unless it was *)
(* only just reserved.  Vacant: its descriptor is still of an earlier      *)
(* record, long finished, or was never used.                               *)
(***************************************************************************)
States == {"reserved", "committed", "finalized", "reusable"}

RingTypeOK ==
    /\ state \in [Lockless!Index -> States]
    /\ owner \in [Lockless!Index -> Int]
    /\ seq \in [Lockless!Index -> Int]
    /\ tail_id \in Int /\ head_id \in Int
    /\ numbered \in SUBSET Nat

Slots == tail_id..(tail_id + N - 1)

HeadInRing == tail_id >= -1 /\ tail_id <= head_id /\ head_id < tail_id + N

\* What printk_info of its place has before record id is numbered.
Before(id) == IF id >= N THEN id - N ELSE IF id = 0 THEN -N ELSE 0

Taken(id) ==
    LET x == Lockless!get_idx(id)
    IN  /\ owner[x] = id /\ id <= head_id
        /\ seq[x] = IF id < 0 THEN 0
                    ELSE IF state[x] = "reserved" /\ id \notin numbered
                    THEN Before(id) ELSE id
Vacant(id) ==
    LET x == Lockless!get_idx(id)
    IN  /\ id > tail_id /\ owner[x] # id
        /\ owner[x] < 0 \/ Lockless!Readable(x)
        /\ seq[x] = Before(id)

SlotsInOrder == \A id \in Slots : Taken(id) \/ Vacant(id)

TailReadable == /\ Lockless!Owned(tail_id)
                /\ Lockless!Readable(Lockless!get_idx(tail_id))

NumberedOpen ==
    \A id \in numbered : /\ Lockless!Owned(id)
                         /\ state[Lockless!get_idx(id)] = "reserved"

RingInv == /\ RingTypeOK /\ HeadInRing /\ SlotsInOrder
           /\ TailReadable /\ NumberedOpen

LEMMA BeforeIsOther ==
    \A id \in Nat : Before(id) # id /\ Before(id) \in Int
    BY RingSize DEF Before

\* Numbering a record: the kernel's arithmetic on printk_info gives the id.
LEMMA NumberedRight ==
    ASSUME NEW id \in Nat
    PROVE  id = IF Before(id) = 0 /\ Lockless!get_idx(id) # 0
                THEN Lockless!get_idx(id) ELSE Before(id) + N
<1> USE RingSize
<1>1. CASE id < N /\ id # 0
    <2>1. Before(id) = 0 /\ Lockless!get_idx(id) = id
        BY <1>1, Places DEF Before
    <2> QED
        BY <2>1, <1>1
<1>2. CASE id = 0
    <2>1. Before(id) = -N
        BY <1>2 DEF Before
    <2> QED
        BY <2>1, <1>2
<1>3. CASE id >= N
    <2>1. Before(id) = id - N
        BY <1>3 DEF Before
    <2>2. id = N => Lockless!get_idx(id) = 0
        BY Places
    <2> QED
        BY <2>1, <2>2
<1> QED
    BY <1>1, <1>2, <1>3

LEMMA RingInit == Lockless!Init => RingInv
<1> SUFFICES ASSUME Lockless!Init PROVE RingInv
    OBVIOUS
<1> USE RingSize
<1>1. /\ state = [x \in Lockless!Index |-> IF x = N - 1 THEN "reusable" ELSE "reserved"]
      /\ seq = [x \in Lockless!Index |-> IF x = 0 THEN -N ELSE 0]
      /\ owner = [x \in Lockless!Index |-> IF x = N - 1 THEN -1 ELSE -1 - N]
      /\ tail_id = -1 /\ head_id = -1 /\ numbered = {}
    BY DEF Lockless!Init, Lockless!Booted
<1>2. RingTypeOK
    BY <1>1 DEF RingTypeOK, States, Lockless!Index
<1>3. HeadInRing
    BY <1>1 DEF HeadInRing
<1>4. N - 1 \in Lockless!Index /\ Lockless!get_idx(-1) = N - 1 /\ N - 1 # 0
    BY Places DEF Lockless!Index
<1>5. TailReadable
    BY <1>1, <1>4 DEF TailReadable, Lockless!Owned, Lockless!Readable
<1>6. NumberedOpen
    BY <1>1 DEF NumberedOpen
<1>7. ASSUME NEW id \in Slots PROVE Taken(id) \/ Vacant(id)
    <2>1. CASE id = -1
        BY <2>1, <1>1, <1>4 DEF Taken
    <2>2. CASE id # -1
        <3>1. id \in 0..(N - 1) /\ id \in Lockless!Index /\ Lockless!get_idx(id) = id
            BY <2>2, <1>1, <1>7, Places DEF Slots, Lockless!Index
        <3>2. owner[id] < 0 /\ owner[id] # id
            BY <3>1, <1>1
        <3>3. seq[id] = Before(id)
            BY <3>1, <1>1 DEF Before
        <3> QED
            BY <3>1, <3>2, <3>3, <1>1 DEF Vacant
    <2> QED
        BY <2>1, <2>2
<1> QED
    BY <1>2, <1>3, <1>5, <1>6, <1>7 DEF RingInv, SlotsInOrder

(***************************************************************************)
(* The writers, one by one.                                                *)
(***************************************************************************)
LEMMA MakeReusableKeeps == RingInv /\ Lockless!MakeReusable => RingInv'
<1> SUFFICES ASSUME RingInv, Lockless!MakeReusable PROVE RingInv'
    OBVIOUS
<1> DEFINE x == Lockless!get_idx(tail_id)
<1> USE RingSize
<1>1. /\ state' = [state EXCEPT ![x] = "reusable"]
      /\ seq' = seq /\ owner' = owner /\ tail_id' = tail_id
      /\ head_id' = head_id /\ numbered' = numbered
      /\ Lockless!Readable(x) /\ x \in Lockless!Index
    BY Places DEF Lockless!MakeReusable, RingInv, RingTypeOK
<1> HIDE DEF x
<1>2. /\ \A y : Lockless!Readable(y) /\ y \in Lockless!Index => Lockless!Readable(y)'
      /\ \A y \in Lockless!Index : (state'[y] = "reserved") <=> (state[y] = "reserved")
    BY <1>1 DEF Lockless!Readable, RingInv, RingTypeOK
<1>3. RingTypeOK' /\ HeadInRing'
    BY <1>1 DEF RingInv, RingTypeOK, HeadInRing, States
<1>4. TailReadable'
    BY <1>1, <1>2, Places DEF RingInv, TailReadable, Lockless!Owned, RingTypeOK
<1>5. NumberedOpen'
    BY <1>1, <1>2, Places DEF RingInv, NumberedOpen, Lockless!Owned, RingTypeOK
<1>6. SlotsInOrder'
    <2> SUFFICES ASSUME NEW id \in Slots PROVE Taken(id)' \/ Vacant(id)'
        BY <1>1 DEF SlotsInOrder, Slots
    <2>1. Lockless!get_idx(id) \in Lockless!Index
        BY Places DEF Slots, RingInv, RingTypeOK
    <2>2. Taken(id) \/ Vacant(id)
        BY DEF RingInv, SlotsInOrder
    <2> QED
        BY <2>1, <2>2, <1>1, <1>2 DEF Taken, Vacant
<1> QED
    BY <1>3, <1>4, <1>5, <1>6 DEF RingInv

LEMMA MoveTailKeeps == RingInv /\ Lockless!MoveTail => RingInv'
<1> SUFFICES ASSUME RingInv, Lockless!MoveTail PROVE RingInv'
    OBVIOUS
<1> USE RingSize
<1>1. /\ state' = state /\ seq' = seq /\ owner' = owner
      /\ tail_id' = tail_id + 1 /\ head_id' = head_id /\ numbered' = numbered
      /\ Lockless!Owned(tail_id + 1)
      /\ Lockless!Readable(Lockless!get_idx(tail_id + 1))
    BY DEF Lockless!MoveTail
<1>2. tail_id \in Int /\ tail_id >= -1
    BY DEF RingInv, RingTypeOK, HeadInRing
<1>3. Taken(tail_id + 1) /\ tail_id + 1 <= head_id
    <2>1. tail_id + 1 \in Slots
        BY <1>2 DEF Slots
    <2>2. ~Vacant(tail_id + 1)
        BY <1>1 DEF Vacant, Lockless!Owned
    <2> QED
        BY <2>1, <2>2 DEF RingInv, SlotsInOrder, Taken
<1>4. RingTypeOK' /\ HeadInRing'
    BY <1>1, <1>2, <1>3 DEF RingInv, RingTypeOK, HeadInRing
<1>5. TailReadable'
    BY <1>1 DEF TailReadable, Lockless!Owned, Lockless!Readable
<1>6. NumberedOpen'
    BY <1>1 DEF RingInv, NumberedOpen, Lockless!Owned
<1>7. ASSUME NEW id \in Slots' PROVE Taken(id)' \/ Vacant(id)'
    <2>1. CASE id \in Slots /\ id # tail_id + 1
        <3>1. id > tail_id + 1 /\ (Taken(id) \/ Vacant(id))
            BY <2>1, <1>1, <1>2, <1>7 DEF RingInv, SlotsInOrder, Slots
        <3> QED
            BY <3>1, <1>1, <1>2 DEF Taken, Vacant, Lockless!Readable
    <2>2. CASE id = tail_id + 1
        BY <2>2, <1>1, <1>3 DEF Taken
    <2>3. CASE id \notin Slots
        <3>1. id = tail_id + N
            BY <2>3, <1>1, <1>2, <1>7 DEF Slots
        <3> DEFINE x == Lockless!get_idx(tail_id)
        <3>2. Lockless!get_idx(id) = x
            BY <3>1, <1>2, Places
        <3>3. Taken(tail_id)
            BY <1>2 DEF RingInv, SlotsInOrder, Slots, Vacant
        <3>4. Lockless!Readable(x) /\ owner[x] = tail_id
            BY DEF RingInv, TailReadable, Lockless!Owned
        <3>5. seq[x] = IF tail_id < 0 THEN 0 ELSE tail_id
            BY <3>3, <3>4 DEF Taken, Lockless!Readable
        <3> HIDE DEF x
        <3>6. seq[x] = Before(id)
            BY <3>1, <3>5, <1>2 DEF Before
        <3> QED
            BY <3>1, <3>2, <3>4, <3>6, <1>1, <1>2 DEF Vacant, Lockless!Readable
    <2> QED
        BY <2>1, <2>2, <2>3
<1> QED
    BY <1>4, <1>5, <1>6, <1>7 DEF RingInv, SlotsInOrder

LEMMA MoveHeadKeeps == RingInv /\ Lockless!MoveHead => RingInv'
<1> SUFFICES ASSUME RingInv, Lockless!MoveHead PROVE RingInv'
    OBVIOUS
<1> USE RingSize
<1>1. /\ state' = state /\ seq' = seq /\ owner' = owner
      /\ tail_id' = tail_id /\ head_id' = head_id + 1 /\ numbered' = numbered
      /\ head_id + 1 - N # tail_id
    BY DEF Lockless!MoveHead, Lockless!Wraps
<1>2. RingTypeOK' /\ HeadInRing'
    BY <1>1 DEF RingInv, RingTypeOK, HeadInRing
<1>3. TailReadable' /\ NumberedOpen'
    BY <1>1 DEF RingInv, TailReadable, NumberedOpen, Lockless!Owned, Lockless!Readable
<1>4. ASSUME NEW id \in Slots' PROVE Taken(id)' \/ Vacant(id)'
    <2>1. Taken(id) \/ Vacant(id)
        BY <1>1, <1>4 DEF RingInv, SlotsInOrder, Slots
    <2>2. id \in Int /\ head_id \in Int
        BY <1>4, <1>1 DEF Slots, RingInv, RingTypeOK
    <2> QED
        BY <2>1, <2>2, <1>1 DEF Taken, Vacant, Lockless!Readable
<1> QED
    BY <1>2, <1>3, <1>4 DEF RingInv, SlotsInOrder

LEMMA ReserveKeeps ==
    ASSUME RingInv, NEW id \in Nat, Lockless!Reserve(id)
    PROVE  RingInv'
<1> DEFINE x == Lockless!get_idx(id)
<1> USE RingSize
<1>1. /\ state' = [state EXCEPT ![x] = "reserved"]
      /\ owner' = [owner EXCEPT ![x] = id]
      /\ seq' = seq /\ tail_id' = tail_id /\ head_id' = head_id
      /\ numbered' = numbered
      /\ id \in (tail_id + 1)..head_id /\ owner[x] # id
    BY DEF Lockless!Reserve, Lockless!Owned
<1>2. x \in Lockless!Index /\ tail_id \in Int /\ head_id \in Int
    BY Places DEF RingInv, RingTypeOK
<1>3. id \in Slots
    BY <1>1, <1>2 DEF Slots, RingInv, HeadInRing
<1>4. Vacant(id)
    BY <1>1, <1>3 DEF RingInv, SlotsInOrder, Taken
<1>5. owner[x] < 0 \/ Lockless!Readable(x)
    BY <1>4 DEF Vacant
<1>6. seq[x] = Before(id)
    BY <1>4 DEF Vacant
<1>7. \A j \in Slots : Lockless!get_idx(j) = x => j = id
    BY <1>2, <1>3, Places DEF Slots
<1>8. \A j \in numbered : j \in Nat /\ Lockless!get_idx(j) # x
    BY <1>5 DEF RingInv, NumberedOpen, RingTypeOK, Lockless!Owned, Lockless!Readable
<1>9. id \notin numbered
    BY <1>8
<1> HIDE DEF x
<1>10. RingTypeOK' /\ HeadInRing'
    BY <1>1, <1>2 DEF RingInv, RingTypeOK, HeadInRing, States
<1>11. TailReadable'
    <2>1. tail_id \in Slots /\ tail_id # id
        BY <1>1, <1>2 DEF Slots
    <2>2. Lockless!get_idx(tail_id) # x /\ Lockless!get_idx(tail_id) \in Lockless!Index
        BY <2>1, <1>2, <1>7, Places
    <2> QED
        BY <1>1, <1>2, <2>2 DEF RingInv, RingTypeOK, TailReadable, Lockless!Owned, Lockless!Readable
<1>12. NumberedOpen'
    <2>1. \A j \in numbered : Lockless!get_idx(j) \in Lockless!Index
        BY <1>8, Places
    <2> QED
        BY <1>1, <1>2, <1>8, <2>1 DEF RingInv, RingTypeOK, NumberedOpen, Lockless!Owned
<1>13. ASSUME NEW j \in Slots' PROVE Taken(j)' \/ Vacant(j)'
    <2>1. j \in Slots /\ j \in Int /\ Lockless!get_idx(j) \in Lockless!Index
        BY <1>1, <1>2, <1>13, Places DEF Slots
    <2>2. CASE j = id
        <3>1. /\ Lockless!get_idx(j) = x /\ owner'[x] = id /\ state'[x] = "reserved"
              /\ seq'[x] = Before(id) /\ id \notin numbered' /\ id <= head_id'
            BY <2>2, <1>1, <1>2, <1>6, <1>9 DEF x, RingInv, RingTypeOK
        <3> QED
            BY <3>1, <2>2 DEF Taken
    <2>3. CASE j # id
        <3> DEFINE y == Lockless!get_idx(j)
        <3>1. y # x
            BY <2>1, <2>3, <1>7
        <3>2. /\ owner'[y] = owner[y] /\ state'[y] = state[y] /\ seq'[y] = seq[y]
            BY <2>1, <3>1, <1>1, <1>2 DEF RingInv, RingTypeOK
        <3>3. Taken(j) \/ Vacant(j)
            BY <2>1 DEF RingInv, SlotsInOrder
        <3> QED
            BY <3>2, <3>3, <1>1 DEF Taken, Vacant, Lockless!Readable
    <2> QED
        BY <2>2, <2>3
<1> QED
    BY <1>10, <1>11, <1>12, <1>13 DEF RingInv, SlotsInOrder

(***************************************************************************)
(* A descriptor that belongs to a record and cannot be read yet is the     *)
(* descriptor of a slot that is taken.                                     *)
(***************************************************************************)
LEMMA OpenIsTaken ==
    ASSUME RingInv, NEW id \in Nat, Lockless!Owned(id),
           ~Lockless!Readable(Lockless!get_idx(id)),
           NEW j \in Slots, Lockless!get_idx(j) = Lockless!get_idx(id)
    PROVE  j = id /\ Taken(id)
<1>1. Taken(j) \/ Vacant(j)
    BY DEF RingInv, SlotsInOrder
<1>2. ~Vacant(j)
    BY DEF Vacant, Lockless!Owned
<1> QED
    BY <1>1, <1>2 DEF Taken, Lockless!Owned

LEMMA NumberKeeps ==
    ASSUME RingInv, NEW id \in Nat, Lockless!Number(id)
    PROVE  RingInv'
<1> DEFINE x == Lockless!get_idx(id)
<1> USE RingSize
<1>1. /\ seq' = [seq EXCEPT ![x] = IF seq[x] = 0 /\ x # 0 THEN x ELSE seq[x] + N]
      /\ numbered' = numbered \cup {id}
      /\ state' = state /\ owner' = owner /\ tail_id' = tail_id
      /\ head_id' = head_id
      /\ Lockless!Owned(id) /\ id \notin numbered /\ state[x] = "reserved"
    BY DEF Lockless!Number
<1>2. x \in Lockless!Index /\ x \in Int /\ ~Lockless!Readable(x)
    BY <1>1, Places DEF Lockless!Index, Lockless!Readable
<1>3. RingTypeOK' /\ HeadInRing'
    <2> HIDE DEF x
    <2> QED
        BY <1>1, <1>2 DEF RingInv, RingTypeOK, HeadInRing
<1>4. TailReadable' /\ NumberedOpen'
    BY <1>1 DEF RingInv, TailReadable, NumberedOpen, Lockless!Owned, Lockless!Readable
<1>5. ASSUME NEW j \in Slots' PROVE Taken(j)' \/ Vacant(j)'
    <2>1. j \in Slots /\ Lockless!get_idx(j) \in Lockless!Index
        BY <1>1, <1>5, Places DEF Slots, RingInv, RingTypeOK
    <2>2. CASE Lockless!get_idx(j) = x
        <3>1. j = id /\ Taken(id)
            BY <2>1, <2>2, <1>1, <1>2, OpenIsTaken
        <3>2. seq[x] = Before(id)
            BY <3>1, <1>1 DEF Taken
        <3>3. seq'[x] = id
            <4>1. seq'[x] = IF seq[x] = 0 /\ x # 0 THEN x ELSE seq[x] + N
                BY <1>1, <1>2 DEF RingInv, RingTypeOK
            <4> QED
                BY <4>1, <3>2, NumberedRight
        <3>4. owner[x] = id /\ id <= head_id
            BY <3>1 DEF Taken
        <3> QED
            BY <3>1, <3>3, <3>4, <1>1 DEF Taken
    <2>3. CASE Lockless!get_idx(j) # x
        <3>1. seq'[Lockless!get_idx(j)] = seq[Lockless!get_idx(j)] /\ j # id
            BY <2>1, <2>3, <1>1 DEF RingInv, RingTypeOK
        <3>2. Taken(j) \/ Vacant(j)
            BY <2>1 DEF RingInv, SlotsInOrder
        <3> QED
            BY <3>1, <3>2, <1>1 DEF Taken, Vacant, Lockless!Readable
    <2> QED
        BY <2>2, <2>3
<1> QED
    BY <1>3, <1>4, <1>5 DEF RingInv, SlotsInOrder

LEMMA CommitKeeps ==
    ASSUME RingInv, NEW id \in Nat, Lockless!Commit(id)
    PROVE  RingInv'
<1> DEFINE x == Lockless!get_idx(id)
<1> USE RingSize
<1>1. PICK t \in {"committed", "finalized"} : state' = [state EXCEPT ![x] = t]
    BY DEF Lockless!Commit
<1>2. /\ numbered' = numbered \ {id} /\ id \in numbered
      /\ seq' = seq /\ owner' = owner /\ tail_id' = tail_id /\ head_id' = head_id
    BY DEF Lockless!Commit
<1>3. x \in Lockless!Index /\ state[x] = "reserved" /\ Lockless!Owned(id) /\ ~Lockless!Readable(x)
    BY <1>2, Places DEF RingInv, NumberedOpen, Lockless!Readable
<1>4. RingTypeOK' /\ HeadInRing'
    <2> HIDE DEF x
    <2> QED
        BY <1>1, <1>2, <1>3 DEF RingInv, RingTypeOK, HeadInRing, States
<1>5. \A y \in Lockless!Index : y # x => state'[y] = state[y]
    BY <1>1 DEF RingInv, RingTypeOK
<1>6. TailReadable'
    <2>1. Lockless!get_idx(tail_id) # x /\ Lockless!get_idx(tail_id) \in Lockless!Index
        BY <1>3, Places DEF RingInv, TailReadable, RingTypeOK
    <2> QED
        BY <2>1, <1>2, <1>5 DEF RingInv, TailReadable, Lockless!Owned, Lockless!Readable
<1>7. NumberedOpen'
    <2>1. ASSUME NEW j \in numbered' PROVE Lockless!get_idx(j) # x /\ Lockless!get_idx(j) \in Lockless!Index
        BY <2>1, <1>2, <1>3, Places DEF RingInv, NumberedOpen, RingTypeOK, Lockless!Owned
    <2> QED
        BY <2>1, <1>2, <1>5 DEF RingInv, NumberedOpen, Lockless!Owned
<1>8. ASSUME NEW j \in Slots' PROVE Taken(j)' \/ Vacant(j)'
    <2>1. j \in Slots /\ Lockless!get_idx(j) \in Lockless!Index
        BY <1>2, <1>8, Places DEF Slots, RingInv, RingTypeOK
    <2>2. CASE Lockless!get_idx(j) = x
        <3>1. j = id /\ Taken(id)
            BY <2>1, <2>2, <1>2, <1>3, OpenIsTaken
        <3>2. seq[x] = id /\ owner[x] = id /\ id <= head_id
            BY <3>1, <1>2 DEF Taken
        <3>3. state'[x] # "reserved"
            BY <1>1, <1>3 DEF RingInv, RingTypeOK
        <3> QED
            BY <3>1, <3>2, <3>3, <1>2 DEF Taken
    <2>3. CASE Lockless!get_idx(j) # x
        <3>1. state'[Lockless!get_idx(j)] = state[Lockless!get_idx(j)] /\ j # id
            BY <2>1, <2>3, <1>5
        <3>2. Taken(j) \/ Vacant(j)
            BY <2>1 DEF RingInv, SlotsInOrder
        <3> QED
            BY <3>1, <3>2, <1>2 DEF Taken, Vacant, Lockless!Readable
    <2> QED
        BY <2>2, <2>3
<1> QED
    BY <1>4, <1>6, <1>7, <1>8 DEF RingInv, SlotsInOrder

LEMMA FinalizeKeeps ==
    ASSUME RingInv, NEW id \in Nat, Lockless!Finalize(id)
    PROVE  RingInv'
<1> DEFINE x == Lockless!get_idx(id)
<1> USE RingSize
<1>1. /\ state' = [state EXCEPT ![x] = "finalized"] /\ numbered' = numbered
      /\ seq' = seq /\ owner' = owner /\ tail_id' = tail_id /\ head_id' = head_id
      /\ Lockless!Owned(id) /\ state[x] = "committed"
    BY DEF Lockless!Finalize, Lockless!writers
<1>2. x \in Lockless!Index /\ ~Lockless!Readable(x)
    BY <1>1, Places DEF Lockless!Readable
<1>3. RingTypeOK' /\ HeadInRing'
    <2> HIDE DEF x
    <2> QED
        BY <1>1, <1>2 DEF RingInv, RingTypeOK, HeadInRing, States
<1>4. \A y \in Lockless!Index : y # x => state'[y] = state[y]
    BY <1>1 DEF RingInv, RingTypeOK
<1>5. TailReadable'
    <2>1. Lockless!get_idx(tail_id) # x /\ Lockless!get_idx(tail_id) \in Lockless!Index
        BY <1>2, Places DEF RingInv, TailReadable, RingTypeOK
    <2> QED
        BY <2>1, <1>1, <1>4 DEF RingInv, TailReadable, Lockless!Owned, Lockless!Readable
<1>6. NumberedOpen'
    <2>1. ASSUME NEW j \in numbered' PROVE Lockless!get_idx(j) # x /\ Lockless!get_idx(j) \in Lockless!Index
        BY <2>1, <1>1, Places DEF RingInv, NumberedOpen, RingTypeOK
    <2> QED
        BY <2>1, <1>1, <1>4 DEF RingInv, NumberedOpen, Lockless!Owned
<1>7. ASSUME NEW j \in Slots' PROVE Taken(j)' \/ Vacant(j)'
    <2>1. j \in Slots /\ Lockless!get_idx(j) \in Lockless!Index
        BY <1>1, <1>7, Places DEF Slots, RingInv, RingTypeOK
    <2>2. CASE Lockless!get_idx(j) = x
        <3>1. j = id /\ Taken(id)
            BY <2>1, <2>2, <1>1, <1>2, OpenIsTaken
        <3>2. seq[x] = id /\ owner[x] = id /\ id <= head_id
            BY <3>1, <1>1 DEF Taken
        <3>3. state'[x] # "reserved"
            BY <1>1, <1>2 DEF RingInv, RingTypeOK
        <3> QED
            BY <3>1, <3>2, <3>3, <1>1 DEF Taken
    <2>3. CASE Lockless!get_idx(j) # x
        <3>1. state'[Lockless!get_idx(j)] = state[Lockless!get_idx(j)]
            BY <2>1, <2>3, <1>4
        <3>2. Taken(j) \/ Vacant(j)
            BY <2>1 DEF RingInv, SlotsInOrder
        <3> QED
            BY <3>1, <3>2, <1>1 DEF Taken, Vacant, Lockless!Readable
    <2> QED
        BY <2>2, <2>3
<1> QED
    BY <1>3, <1>5, <1>6, <1>7 DEF RingInv, SlotsInOrder

LEMMA RingKept ==
    ASSUME RingInv, UNCHANGED <<state, owner, seq, tail_id, head_id, numbered>>
    PROVE  RingInv'
<1>1. RingTypeOK' /\ HeadInRing' /\ Slots' = Slots
    BY DEF RingInv, RingTypeOK, HeadInRing, Slots
<1>2. TailReadable' /\ NumberedOpen'
    BY DEF RingInv, TailReadable, NumberedOpen, Lockless!Owned, Lockless!Readable
<1>3. SlotsInOrder'
    BY <1>1 DEF RingInv, SlotsInOrder, Taken, Vacant, Lockless!Readable
<1> QED
    BY <1>1, <1>2, <1>3 DEF RingInv

LEMMA KernelKeeps ==
    RingInv /\ Lockless!Kernel => /\ RingInv'
                                  /\ shown' = shown /\ next' = next /\ prbPc = "kernel"
                                  /\ prbPc' \in {"kernel", "first"}
<1> SUFFICES ASSUME RingInv, Lockless!Kernel
             PROVE  /\ RingInv' /\ shown' = shown /\ next' = next /\ prbPc = "kernel"
                    /\ prbPc' \in {"kernel", "first"}
    OBVIOUS
<1>1. \A id \in 0..MaxId : id \in Nat
    BY LogAssumption DEF Lockless!ConstantsOK
<1>2. CASE Lockless!MakeReusable
    BY <1>2, MakeReusableKeeps DEF Lockless!MakeReusable, Lockless!Reader
<1>3. CASE Lockless!MoveTail
    BY <1>3, MoveTailKeeps DEF Lockless!MoveTail, Lockless!Reader
<1>4. CASE Lockless!MoveHead
    BY <1>4, MoveHeadKeeps DEF Lockless!MoveHead, Lockless!Reader
<1>5. CASE Lockless!Crash
    BY <1>5, RingKept DEF Lockless!Crash, Lockless!ring, Lockless!writers
<1>6. CASE \E id \in 0..MaxId : Lockless!Reserve(id)
    BY <1>1, <1>6, ReserveKeeps DEF Lockless!Reserve, Lockless!Reader
<1>7. CASE \E id \in 0..MaxId : Lockless!Number(id)
    BY <1>1, <1>7, NumberKeeps DEF Lockless!Number, Lockless!Reader
<1>8. CASE \E id \in 0..MaxId : Lockless!Commit(id)
    BY <1>1, <1>8, CommitKeeps DEF Lockless!Commit, Lockless!Reader
<1>9. CASE \E id \in 0..MaxId : Lockless!Finalize(id)
    BY <1>1, <1>9, FinalizeKeeps DEF Lockless!Finalize, Lockless!Reader
<1> QED
    BY <1>2, <1>3, <1>4, <1>5, <1>6, <1>7, <1>8, <1>9 DEF Lockless!Kernel

-----------------------------------------------------------------------------
(***************************************************************************)
(* The reader.  What it has shown are the records in memory below the      *)
(* number it has come to, all of which are finished.                       *)
(***************************************************************************)
ShownUpTo(n) ==
    /\ \A a, b \in DOMAIN shown : a < b => shown[a] < shown[b]
    /\ {shown[a] : a \in DOMAIN shown} =
           {id \in Lockless!Oldest..(n - 1) : Lockless!Present(id)}

ReaderInv ==
    /\ prbPc \in {"kernel", "first", "show", "done"}
    /\ shown \in Seq(Int)
    /\ prbPc \in {"kernel", "first"} => shown = <<>>
    /\ prbPc \in {"show", "done"} =>
           /\ next \in Lockless!Oldest..(head_id + 1)
           /\ \A id \in Lockless!Oldest..(next - 1) : Lockless!Finished(id)
           /\ ShownUpTo(next)
    /\ prbPc = "done" => ~Lockless!Finished(next)

(***************************************************************************)
(* is_valid_desc is right: a descriptor that can be read and has the       *)
(* number looked for is that of the record, and of no other.               *)
(***************************************************************************)
LEMMA ValidIsFinished ==
    ASSUME RingInv, NEW s \in Lockless!Oldest..(head_id + 1)
    PROVE  Lockless!is_valid_desc(Lockless!get_idx(s), s) <=> Lockless!Finished(s)
<1> DEFINE x == Lockless!get_idx(s)
<1> USE RingSize
<1>1. /\ tail_id \in Int /\ head_id \in Int /\ tail_id >= -1
      /\ tail_id <= head_id /\ head_id < tail_id + N
    BY DEF RingInv, RingTypeOK, HeadInRing
<1>2. s \in Nat /\ s >= tail_id /\ s <= head_id + 1
    BY <1>1 DEF Lockless!Oldest
<1>3. Lockless!is_valid_desc(x, s) <=> Lockless!Readable(x) /\ seq[x] = s
    BY DEF Lockless!is_valid_desc, Lockless!is_finalized, Lockless!is_reusable,
           Lockless!Readable
<1>4. Lockless!Finished(s) <=> s <= head_id /\ owner[x] = s /\ Lockless!Readable(x)
    BY <1>1, <1>2 DEF Lockless!Finished, Lockless!Owned
<1>5. CASE s \in Slots
    <2>1. CASE Taken(s)
        <3>1. owner[x] = s /\ s <= head_id /\ (Lockless!Readable(x) => seq[x] = s)
            BY <2>1, <1>2 DEF Taken, Lockless!Readable
        <3> QED
            BY <3>1, <1>3, <1>4
    <2>2. CASE Vacant(s)
        <3>1. owner[x] # s /\ seq[x] # s
            BY <2>2, <1>2, BeforeIsOther DEF Vacant
        <3> QED
            BY <3>1, <1>3, <1>4
    <2> QED
        BY <1>5, <2>1, <2>2 DEF RingInv, SlotsInOrder
<1>6. CASE s \notin Slots
    <2>1. s = tail_id + N /\ s = head_id + 1
        BY <1>1, <1>2, <1>6 DEF Slots
    <2>2. x = Lockless!get_idx(tail_id)
        BY <1>1, <2>1, Places
    <2>3. Taken(tail_id) /\ Lockless!Readable(x)
        BY <1>1, <2>2 DEF RingInv, SlotsInOrder, Slots, Vacant, TailReadable
    <2>4. seq[x] = IF tail_id < 0 THEN 0 ELSE tail_id
        BY <2>2, <2>3 DEF Taken, Lockless!Readable
    <2>5. seq[x] # s /\ ~(s <= head_id)
        BY <2>1, <2>4, <1>1
    <2> QED
        BY <2>5, <1>3, <1>4
<1> QED
    BY <1>5, <1>6

LEMMA FirstSeqKeeps ==
    ASSUME RingInv, ReaderInv, Lockless!first_seq
    PROVE  RingInv' /\ ReaderInv'
<1> DEFINE x == Lockless!get_idx(tail_id)
<1> USE RingSize
<1>1. /\ UNCHANGED <<state, owner, seq, tail_id, head_id, numbered>>
      /\ shown' = shown /\ prbPc = "first"
    BY DEF Lockless!first_seq, Lockless!ring, Lockless!writers
<1>2. RingInv'
    BY <1>1, RingKept
<1>3. Lockless!Readable(x)
    BY DEF RingInv, TailReadable
<1>4. next' = seq[x] /\ prbPc' = "show"
    BY <1>3 DEF Lockless!first_seq, Lockless!Readable, Lockless!is_finalized,
                Lockless!is_reusable
<1>5. tail_id \in Int /\ head_id \in Int /\ tail_id >= -1 /\ tail_id <= head_id
    BY DEF RingInv, RingTypeOK, HeadInRing
<1>6. Taken(tail_id)
    BY <1>5 DEF RingInv, SlotsInOrder, Slots, Vacant
<1>7. seq[x] = Lockless!Oldest
    BY <1>3, <1>6 DEF Taken, Lockless!Readable, Lockless!Oldest
<1>8. Lockless!Oldest \in Int /\ Lockless!Oldest <= head_id + 1 /\ Lockless!Oldest' = Lockless!Oldest
    BY <1>1, <1>5 DEF Lockless!Oldest
<1>9. Lockless!Oldest'..(next' - 1) = {} /\ next' \in Lockless!Oldest'..(head_id' + 1)
    BY <1>1, <1>4, <1>5, <1>7, <1>8
<1>10. shown' = <<>>
    BY <1>1 DEF ReaderInv
<1>11. ShownUpTo(next)'
    BY <1>9, <1>10 DEF ShownUpTo
<1> QED
    BY <1>1, <1>2, <1>4, <1>9, <1>10, <1>11 DEF ReaderInv

LEMMA FinishedKept ==
    ASSUME UNCHANGED <<state, owner, seq, tail_id, head_id>>
    PROVE  /\ Lockless!Oldest' = Lockless!Oldest
           /\ \A id : Lockless!Finished(id)' = Lockless!Finished(id)
           /\ \A id : Lockless!Present(id)' = Lockless!Present(id)
<1>1. Lockless!Oldest' = Lockless!Oldest
    BY DEF Lockless!Oldest
<1>2. \A id : Lockless!Finished(id)' = Lockless!Finished(id)
    BY DEF Lockless!Finished, Lockless!Owned, Lockless!Readable
<1>3. \A id : Lockless!Present(id)' = Lockless!Present(id)
    BY <1>2 DEF Lockless!Present, Lockless!is_finalized
<1> QED
    BY <1>1, <1>2, <1>3

LEMMA ShowLogKeeps ==
    ASSUME RingInv, ReaderInv, Lockless!show_log
    PROVE  RingInv' /\ ReaderInv'
<1> DEFINE x == Lockless!get_idx(next)
<1> USE RingSize
<1>1. /\ UNCHANGED <<state, owner, seq, tail_id, head_id, numbered>>
      /\ prbPc = "show"
    BY DEF Lockless!show_log, Lockless!ring, Lockless!writers
<1>2. RingInv'
    BY <1>1, RingKept
<1>3. /\ next \in Lockless!Oldest..(head_id + 1) /\ shown \in Seq(Int)
      /\ \A id \in Lockless!Oldest..(next - 1) : Lockless!Finished(id)
      /\ ShownUpTo(next)
    BY <1>1 DEF ReaderInv
<1>4. Lockless!Oldest \in Int /\ head_id \in Int
    BY DEF RingInv, RingTypeOK, Lockless!Oldest
<1>5. /\ Lockless!Oldest' = Lockless!Oldest
      /\ \A id : Lockless!Finished(id)' = Lockless!Finished(id)
      /\ \A id : Lockless!Present(id)' = Lockless!Present(id)
    BY <1>1, FinishedKept
<1>6. Lockless!is_valid_desc(x, next) <=> Lockless!Finished(next)
    BY <1>3, ValidIsFinished
<1>7. CASE ~Lockless!Finished(next)
    <2>1. prbPc' = "done" /\ next' = next /\ shown' = shown
        BY <1>6, <1>7 DEF Lockless!show_log
    <2>2. ShownUpTo(next)'
        BY <2>1, <1>3, <1>5 DEF ShownUpTo
    <2> QED
        BY <2>1, <2>2, <1>1, <1>2, <1>3, <1>5, <1>7 DEF ReaderInv
<1>8. CASE Lockless!Finished(next)
    <2>1. /\ prbPc' = prbPc /\ next' = next + 1
          /\ shown' = IF Lockless!HasText(x) THEN Append(shown, next) ELSE shown
        BY <1>6, <1>8 DEF Lockless!show_log
    <2>2. next \in Int /\ next >= Lockless!Oldest /\ next <= head_id
        BY <1>3, <1>4, <1>8 DEF Lockless!Finished
    <2>3. next' \in Lockless!Oldest'..(head_id' + 1)
        BY <2>1, <2>2, <1>1, <1>4, <1>5
    <2>4. \A id \in Lockless!Oldest'..(next' - 1) : Lockless!Finished(id)'
        <3>1. \A id \in Lockless!Oldest..next : id = next \/ id \in Lockless!Oldest..(next - 1)
            BY <2>2, <1>4
        <3>2. next' - 1 = next
            BY <2>1, <2>2
        <3> QED
            BY <3>1, <3>2, <1>3, <1>5, <1>8
    <2>5. Lockless!HasText(x) <=> Lockless!Present(next)
        BY <1>8 DEF Lockless!HasText, Lockless!Present, Lockless!Finished,
                    Lockless!Readable, Lockless!is_reusable, Lockless!is_finalized
    <2> DEFINE P(n) == {id \in Lockless!Oldest..(n - 1) : Lockless!Present(id)}
               Q(t) == {t[a] : a \in DOMAIN t}
    <2>6. P(next + 1) = P(next) \cup (IF Lockless!Present(next) THEN {next} ELSE {})
        BY <2>2, <1>4
    <2>7. \A a \in DOMAIN shown : shown[a] < next
        <3>1. \A a \in DOMAIN shown : shown[a] \in P(next)
            BY <1>3 DEF ShownUpTo
        <3> QED
            BY <3>1, <2>2, <1>4
    <2>8. ShownUpTo(next)'
        <3>1. CASE Lockless!Present(next)
            <4>1. shown' = Append(shown, next)
                BY <2>1, <2>5, <3>1
            <4>2. /\ DOMAIN shown = 1..Len(shown) /\ Len(shown) \in Nat
                  /\ DOMAIN shown' = 1..(Len(shown) + 1)
                  /\ \A a \in DOMAIN shown : shown'[a] = shown[a]
                  /\ shown'[Len(shown) + 1] = next
                BY <4>1, <1>3, <2>2
            <4>3. Q(shown') = Q(shown) \cup {next}
                BY <4>2
            <4>4. \A a, b \in DOMAIN shown' : a < b => shown'[a] < shown'[b]
                BY <4>2, <2>7, <1>3 DEF ShownUpTo
            <4>5. Q(shown') = P(next + 1)
                BY <4>3, <2>6, <3>1, <1>3 DEF ShownUpTo
            <4> QED
                BY <4>4, <4>5, <2>1, <1>5 DEF ShownUpTo
        <3>2. CASE ~Lockless!Present(next)
            <4>1. shown' = shown
                BY <2>1, <2>5, <3>2
            <4>2. Q(shown') = P(next + 1)
                BY <4>1, <2>6, <3>2, <1>3 DEF ShownUpTo
            <4> QED
                BY <4>1, <4>2, <2>1, <1>3, <1>5 DEF ShownUpTo
        <3> QED
            BY <3>1, <3>2
    <2>9. shown' \in Seq(Int)
        BY <2>1, <2>2, <1>3
    <2> QED
        BY <2>1, <2>3, <2>4, <2>8, <2>9, <1>1, <1>2 DEF ReaderInv
<1> QED
    BY <1>7, <1>8

LEMMA LogKept ==
    ASSUME RingInv, ReaderInv, UNCHANGED lockless
    PROVE  RingInv' /\ ReaderInv'
<1>1. /\ UNCHANGED <<state, owner, seq, tail_id, head_id, numbered>>
      /\ prbPc' = prbPc /\ next' = next /\ shown' = shown
    BY DEF lockless, ring
<1>2. RingInv'
    BY <1>1, RingKept
<1>3. /\ Lockless!Oldest' = Lockless!Oldest
      /\ \A id : Lockless!Finished(id)' = Lockless!Finished(id)
      /\ \A id : Lockless!Present(id)' = Lockless!Present(id)
    BY <1>1, FinishedKept
<1>4. ShownUpTo(next)' = ShownUpTo(next)
    BY <1>1, <1>3 DEF ShownUpTo
<1>5. ReaderInv'
    BY <1>1, <1>3, <1>4 DEF ReaderInv
<1> QED
    BY <1>2, <1>5

LEMMA AgainKeeps ==
    ASSUME RingInv, ReaderInv, Again
    PROVE  RingInv' /\ ReaderInv'
<1>1. /\ UNCHANGED <<state, owner, seq, tail_id, head_id, numbered>>
      /\ prbPc' = "first" /\ shown' = <<>>
    BY DEF Again, ring
<1>2. RingInv'
    BY <1>1, RingKept
<1> QED
    BY <1>1, <1>2 DEF ReaderInv

(***************************************************************************)
(* Whatever the writers and the reader do, the ring stays in order and     *)
(* the reader has shown the records below the one it has come to.          *)
(***************************************************************************)
THEOREM RingInvariant == Spec => [](RingInv /\ ReaderInv)
<1>1. ASSUME Init PROVE RingInv /\ ReaderInv
    BY <1>1, RingInit DEF Init, ReaderInv, Lockless!Init, Lockless!Booted
<1>2. ASSUME RingInv, ReaderInv, [Next]_vars
      PROVE  RingInv' /\ ReaderInv'
    <2>1. CASE LocklessKernel
        <3>1. /\ RingInv' /\ shown' = shown /\ prbPc = "kernel"
              /\ prbPc' \in {"kernel", "first"}
            BY <1>2, <2>1, KernelKeeps DEF LocklessKernel
        <3> QED
            BY <1>2, <3>1 DEF ReaderInv
    <2>2. CASE ShowLockless
        BY <1>2, <2>2, FirstSeqKeeps, ShowLogKeeps DEF ShowLockless
    <2>3. CASE Again
        BY <1>2, <2>3, AgainKeeps
    <2>4. CASE StructuredKernel \/ PlainKernel \/ ShowStructured \/ NotThis \/ ShowPlain
        BY <1>2, <2>4, LogKept
        DEF StructuredKernel, PlainKernel, ShowStructured, NotThis, ShowPlain
    <2>5. CASE UNCHANGED vars
        BY <1>2, <2>5, LogKept DEF vars
    <2> QED
        BY <1>2, <2>1, <2>2, <2>3, <2>4, <2>5 DEF Next
<1> QED
    BY <1>1, <1>2, PTL DEF Spec

(***************************************************************************)
(* Whenever the kernel crashes, in whatever step of whichever writers, the *)
(* reader of lockless_ringbuffer.py accepts the tail it finds and shows    *)
(* exactly the finished records that are not behind an unfinished one, in  *)
(* order, however often the log command is given.                          *)
(***************************************************************************)
THEOREM LocklessLogShown == Spec => []ShowsTheLog
<1>1. ASSUME RingInv, ReaderInv PROVE ShowsTheLog
    <2>1. prbPc # "inconsistent"
        BY <1>1 DEF ReaderInv
    <2>2. ASSUME prbPc = "done"
          PROVE  /\ \A a, b \in DOMAIN shown : a < b => shown[a] < shown[b]
                 /\ {shown[a] : a \in DOMAIN shown} = Lockless!Entitled
        <3>1. /\ next \in Lockless!Oldest..(head_id + 1)
              /\ \A id \in Lockless!Oldest..(next - 1) : Lockless!Finished(id)
              /\ ShownUpTo(next) /\ ~Lockless!Finished(next)
            BY <1>1, <2>2 DEF ReaderInv
        <3>2. Lockless!Oldest \in Int /\ head_id \in Int
            BY <1>1 DEF RingInv, RingTypeOK, Lockless!Oldest
        <3>3. ASSUME NEW id \in Lockless!Oldest..(next - 1), Lockless!Present(id)
              PROVE  id \in Lockless!Entitled
            <4>1. id \in Lockless!Oldest..head_id
                BY <3>1, <3>2
            <4>2. \A j \in Lockless!Oldest..id : Lockless!Finished(j)
                BY <3>1, <3>2
            <4> QED
                BY <3>3, <4>1, <4>2 DEF Lockless!Entitled
        <3>4. ASSUME NEW id \in Lockless!Entitled
              PROVE  id \in Lockless!Oldest..(next - 1) /\ Lockless!Present(id)
            <4>1. /\ id \in Lockless!Oldest..head_id /\ Lockless!Present(id)
                  /\ \A j \in Lockless!Oldest..id : Lockless!Finished(j)
                BY <3>4 DEF Lockless!Entitled
            <4> QED
                BY <4>1, <3>1, <3>2
        <3> QED
            BY <3>1, <3>3, <3>4 DEF ShownUpTo
    <2> QED
        BY <2>1, <2>2 DEF ShowsTheLog, Lockless!ShowsTheLog
<1> QED
    BY <1>1, RingInvariant, PTL

-----------------------------------------------------------------------------
(***************************************************************************)
(* The structured buffer.  f gives each record in it, and the one to be    *)
(* written next, the index at which the reader of the one before arrives;  *)
(* w is the record in front of which there is a wrap header, if one of     *)
(* them has one, and log_next_seq if not.  The indices rise up to that of  *)
(* w, and again after it; the second lot stays below the first.            *)
(***************************************************************************)
Live == log_first_seq..log_next_seq

BufTypeOK ==
    /\ buf \in [Structured!Cells -> [len : Nat, no : Int]]
    /\ log_first_idx \in Structured!Cells /\ log_next_idx \in Structured!Cells
    /\ log_first_seq \in Nat /\ log_next_seq \in Nat /\ clear_seq \in Nat
    /\ log_first_seq <= log_next_seq /\ clear_seq <= log_next_seq

Ends(f) == f[log_first_seq] = log_first_idx /\ f[log_next_seq] = log_next_idx

Plain(f, q) == /\ buf[f[q]].no = q /\ buf[f[q]].len >= 1
               /\ f[q + 1] = f[q] + buf[f[q]].len
Wrapped(f, q) == /\ buf[f[q]] = Structured!Wrap
                 /\ buf[0].no = q /\ buf[0].len >= 1
                 /\ f[q + 1] = buf[0].len
Chain(f, w) == \A q \in log_first_seq..(log_next_seq - 1) :
                   IF q = w THEN Wrapped(f, q) ELSE Plain(f, q)

Rising(f, w) ==
    /\ \A q, r \in log_first_seq..w : q < r => f[q] < f[r]
    /\ \A q, r \in (w + 1)..log_next_seq : q < r => f[q] < f[r]
    /\ w < log_next_seq => f[log_next_seq] < f[log_first_seq]

Layout(f, w) == Ends(f) /\ Chain(f, w) /\ Rising(f, w)

(***************************************************************************)
(* The reader of the structured buffer: what it has yielded, and where it  *)
(* has come to.                                                            *)
(***************************************************************************)
MarkerAt(w) == w - log_first_seq + 1

Yields(w) ==
    /\ Len(yielded) <= log_next_seq - log_first_seq
    /\ \A j \in 1..Len(yielded) :
           yielded[j] = IF j < MarkerAt(w) THEN log_first_seq + j - 1
                        ELSE IF j = MarkerAt(w) THEN Structured!Marker
                        ELSE log_first_seq + j - 2
Arrived(f, w) ==
    recPc \in {"loop", "done"} =>
        idx = IF Len(yielded) < MarkerAt(w) THEN f[log_first_seq + Len(yielded)]
              ELSE IF Len(yielded) = MarkerAt(w) THEN 0
              ELSE f[log_first_seq + Len(yielded) - 1]

Counts ==
    /\ recPc \in {"kernel", "start", "loop", "done"}
    /\ yielded \in Seq(Int)
    /\ recPc \in {"kernel", "start"} => yielded = <<>>
    /\ recPc \in {"loop", "done"} =>
           /\ clear_seq >= log_first_seq
           /\ recSeq = clear_seq + Len(yielded) /\ recSeq <= log_next_seq
    /\ recPc = "done" => recSeq = log_next_seq

InBuffer == \E w \in Live : \E f \in [Live -> Structured!Cells] :
                Layout(f, w) /\ Yields(w) /\ Arrived(f, w)

RecordsInv == BufTypeOK /\ Counts /\ InBuffer

LEMMA BufSize ==
    /\ BufLen \in Nat \ {0} /\ Lengths \in SUBSET (1..BufLen)
    /\ Structured!Cells = 0..(BufLen - 1) /\ 0 \in Structured!Cells
    BY LogAssumption DEF Structured!ConstantsOK, Structured!Cells

LEMMA NothingYielded ==
    ASSUME yielded = <<>>, BufTypeOK, recPc \in {"kernel", "start"}
    PROVE  \A w : Yields(w) /\ \A f : Arrived(f, w)
    BY DEF Yields, Arrived, BufTypeOK

LEMMA RecordsInit == Structured!Init => RecordsInv
<1> SUFFICES ASSUME Structured!Init PROVE RecordsInv
    OBVIOUS
<1> USE BufSize
<1>1. /\ buf = [x \in Structured!Cells |-> Structured!Wrap]
      /\ log_first_idx = 0 /\ log_next_idx = 0
      /\ log_first_seq = 0 /\ log_next_seq = 0 /\ clear_seq = 0
      /\ recPc = "kernel" /\ yielded = <<>>
    BY DEF Structured!Init
<1>2. BufTypeOK
    BY <1>1 DEF BufTypeOK, Structured!Wrap, Structured!Header, Structured!Marker
<1>3. Counts
    BY <1>1 DEF Counts
<1> DEFINE f == [q \in Live |-> 0]
<1>4. 0 \in Live /\ Live = {0}
    BY <1>1 DEF Live
<1>5. f \in [Live -> Structured!Cells]
    OBVIOUS
<1>6. Ends(f)
    BY <1>1, <1>4 DEF Ends
<1>7. Chain(f, 0)
    BY <1>1 DEF Chain
<1>8. Rising(f, 0)
    BY <1>1 DEF Rising
<1>9. Yields(0) /\ Arrived(f, 0)
    BY <1>1, <1>2, NothingYielded
<1> HIDE DEF f
<1> QED
    BY <1>2, <1>3, <1>4, <1>5, <1>6, <1>7, <1>8, <1>9 DEF RecordsInv, InBuffer, Layout

(***************************************************************************)
(* The oldest record is dropped.                                           *)
(***************************************************************************)
LEMMA DropKeeps ==
    ASSUME RecordsInv, NEW l \in Lengths, Structured!Drop(l)
    PROVE  RecordsInv'
<1> USE BufSize
<1>1. /\ recPc = "kernel" /\ log_first_seq < log_next_seq
      /\ log_first_idx' = Structured!KernelNext(log_first_idx)
      /\ log_first_seq' = log_first_seq + 1
      /\ buf' = buf /\ log_next_idx' = log_next_idx /\ log_next_seq' = log_next_seq
      /\ clear_seq' = clear_seq /\ recPc' = recPc /\ yielded' = yielded
    BY DEF Structured!Drop, Structured!reader
<1>2. BufTypeOK /\ Counts /\ yielded = <<>>
    BY <1>1 DEF RecordsInv, Counts
<1>3. log_first_seq \in Nat /\ log_next_seq \in Nat
    BY <1>2 DEF BufTypeOK
<1>4. PICK w \in Live, f \in [Live -> Structured!Cells] : Layout(f, w)
    BY DEF RecordsInv, InBuffer
<1> DEFINE a == log_first_seq
           b == log_next_seq
<1>a. PICK v : v = IF w = a THEN b ELSE w
    OBVIOUS
<1>b. PICK g : g = [q \in Live' |-> f[q]]
    OBVIOUS
<1>5. Live' = (a + 1)..b /\ w \in a..b /\ v \in (a + 1)..b /\ Live = a..b
    BY <1>1, <1>3, <1>4, <1>a DEF Live
<1>6. g \in [Live' -> Structured!Cells] /\ \A q \in Live' : g[q] = f[q] /\ q \in Live
    BY <1>3, <1>5, <1>b
<1>7. log_first_idx' = f[a + 1] /\ a + 1 \in Live'
    <2>1. f[a] = log_first_idx /\ (IF a = w THEN Wrapped(f, a) ELSE Plain(f, a))
        BY <1>1, <1>3, <1>4 DEF Layout, Ends, Chain
    <2>2. CASE a = w
        BY <2>1, <2>2, <1>1, <1>3, <1>5
        DEF Wrapped, Structured!KernelNext, Structured!Wrap, Structured!Header
    <2>3. CASE a # w
        BY <2>1, <2>3, <1>1, <1>3, <1>5 DEF Plain, Structured!KernelNext
    <2> QED
        BY <2>2, <2>3
<1>8. BufTypeOK'
    <2>1. log_first_idx' \in Structured!Cells
        BY <1>4, <1>5, <1>6, <1>7
    <2>2. log_first_seq' \in Nat /\ log_first_seq' <= log_next_seq
        BY <1>1, <1>3
    <2> QED
        BY <2>1, <2>2, <1>1, <1>2 DEF BufTypeOK, Structured!Cells
<1>9. Counts'
    BY <1>1, <1>2 DEF Counts
<1>10. Ends(g)'
    BY <1>1, <1>3, <1>4, <1>5, <1>6, <1>7 DEF Layout, Ends
<1>11. Chain(g, v)'
    <2> SUFFICES ASSUME NEW q \in (a + 1)..(b - 1)
                 PROVE  IF q = v THEN Wrapped(g, q)' ELSE Plain(g, q)'
        BY <1>1 DEF Chain
    <2>1. q \in Live' /\ q + 1 \in Live' /\ q \in a..(b - 1) /\ (q = v <=> q = w)
        BY <1>3, <1>5, <1>a
    <2>2. IF q = w THEN Wrapped(f, q) ELSE Plain(f, q)
        BY <2>1, <1>4 DEF Layout, Chain
    <2>3. g[q] = f[q] /\ g[q + 1] = f[q + 1]
        BY <2>1, <1>6
    <2> QED
        BY <2>1, <2>2, <2>3, <1>1 DEF Wrapped, Plain
<1>12. Rising(g, v)'
    <2>1. /\ \A q, r \in a..w : q < r => f[q] < f[r]
          /\ \A q, r \in (w + 1)..b : q < r => f[q] < f[r]
          /\ w < b => f[b] < f[a]
        BY <1>4 DEF Layout, Rising
    <2>2. CASE w = a
        <3>1. \A q, r \in (a + 1)..b : q < r => g[q] < g[r]
            BY <2>1, <2>2, <1>5, <1>6
        <3> QED
            BY <3>1, <2>2, <1>1, <1>3, <1>a DEF Rising
    <2>3. CASE w # a
        <3>1. /\ \A q, r \in (a + 1)..w : q < r => g[q] < g[r]
              /\ \A q, r \in (w + 1)..b : q < r => g[q] < g[r]
            BY <2>1, <2>3, <1>3, <1>5, <1>6
        <3>2. ASSUME w < b PROVE g[b] < g[a + 1]
            <4>1. f[b] < f[a] /\ f[a] < f[a + 1]
                BY <3>2, <2>1, <2>3, <1>3, <1>5
            <4>2. a \in Live /\ b \in Live /\ a + 1 \in Live /\ b \in Live'
                BY <1>3, <1>1, <1>5
            <4>3. f[a] \in Int /\ f[b] \in Int /\ f[a + 1] \in Int
                BY <4>2
            <4> QED
                BY <4>1, <4>2, <4>3, <1>6, <1>7
        <3> QED
            BY <3>1, <3>2, <2>3, <1>1, <1>3, <1>a DEF Rising
    <2> QED
        BY <2>2, <2>3
<1>13. Yields(v)' /\ Arrived(g, v)'
    BY <1>1, <1>2, <1>8 DEF Yields, Arrived, BufTypeOK
<1>14. v \in Live'
    BY <1>5
<1>15. InBuffer'
    BY <1>6, <1>10, <1>11, <1>12, <1>13, <1>14 DEF InBuffer, Layout
<1> QED
    BY <1>8, <1>9, <1>15 DEF RecordsInv

(***************************************************************************)
(* A record of length l is stored at the cell at.  The records that are    *)
(* in the buffer are not touched by it.                                    *)
(***************************************************************************)
At(l) == IF log_next_idx + l + 1 > BufLen THEN 0 ELSE log_next_idx

LEMMA StoreApart ==
    ASSUME BufTypeOK, NEW l \in Lengths,
           Structured!HasSpace(log_first_idx, log_next_idx,
                               log_first_seq = log_next_seq, l),
           NEW w \in Live, NEW f \in [Live -> Structured!Cells], Layout(f, w)
    PROVE  /\ At(l) + l \in Structured!Cells
           /\ w < log_next_seq =>
                 /\ At(l) = log_next_idx /\ log_next_idx + l < log_first_idx
                 /\ log_next_idx # 0
           /\ At(l) # log_next_idx => log_next_idx # 0 /\ l < log_first_idx
           /\ \A q \in log_first_seq..(log_next_seq - 1) :
                 f[q] # log_next_idx /\ f[q] # At(l)
<1> USE BufSize
<1> DEFINE a == log_first_seq
           b == log_next_seq
           i == log_first_idx
           n == log_next_idx
<1>1. /\ a \in Nat /\ b \in Nat /\ a <= b /\ w \in a..b /\ l \in Nat /\ l >= 1
      /\ i \in Nat /\ n \in Nat /\ i < BufLen /\ n < BufLen /\ Live = a..b
    BY DEF BufTypeOK, Live
<1>2. /\ f[a] = i /\ f[b] = n
      /\ \A q, r \in a..w : q < r => f[q] < f[r]
      /\ \A q, r \in (w + 1)..b : q < r => f[q] < f[r]
      /\ w < b => n < i
    BY DEF Layout, Ends, Rising
<1>3. \A q \in a..b : f[q] \in Nat
    BY <1>1
<1>4. CASE w = b
    <2>1. a # b => i < n
        BY <1>4, <1>1, <1>2
    <2>2. Structured!Free(i, n, a = b) = Structured!Larger(BufLen - n, i)
        BY <2>1 DEF Structured!Free
    <2>3. BufLen - n >= l + 1 \/ i >= l + 1
        BY <2>2, <1>1 DEF Structured!HasSpace, Structured!Larger
    <2>4. \A q \in a..(b - 1) : f[q] < n /\ f[q] >= i
        BY <1>4, <1>1, <1>2, <1>3
    <2>5. CASE n + l + 1 > BufLen
        <3>1. At(l) = 0 /\ i >= l + 1 /\ n # 0
            BY <2>5, <2>1, <2>3, <1>1, <1>2 DEF At
        <3> QED
            BY <3>1, <2>4, <1>4, <1>1, <1>3
    <2>6. CASE ~(n + l + 1 > BufLen)
        <3>1. At(l) = n
            BY <2>6 DEF At
        <3>2. n = 0 \/ n # 0
            OBVIOUS
        <3> QED
            BY <3>1, <2>4, <2>6, <1>4, <1>1, <1>3
    <2> QED
        BY <2>5, <2>6
<1>5. CASE w < b
    <2>1. n < i /\ a # b
        BY <1>5, <1>1, <1>2
    <2>2. i - n >= l + 1
        BY <2>1, <1>1 DEF Structured!HasSpace, Structured!Free
    <2>3. At(l) = n
        BY <2>2, <1>1 DEF At
    <2>4. f[w + 1] >= 1 /\ f[w + 1] <= n
        <3>1. w \in a..(b - 1) /\ w + 1 \in (w + 1)..b /\ b \in (w + 1)..b
            BY <1>5, <1>1
        <3>2. Wrapped(f, w)
            BY <3>1 DEF Layout, Chain
        <3> QED
            BY <3>1, <3>2, <1>1, <1>2, <1>3 DEF Wrapped
    <2>5. ASSUME NEW q \in a..(b - 1) PROVE f[q] # n
        <3>1. CASE q <= w
            <4>1. f[q] >= i
                BY <3>1, <1>1, <1>2, <1>3
            <4> QED
                BY <4>1, <2>1, <1>1, <1>3
        <3>2. CASE q > w
            BY <3>2, <1>1, <1>2, <1>3
        <3> QED
            BY <3>1, <3>2, <1>1
    <2> QED
        BY <2>1, <2>2, <2>3, <2>4, <2>5, <1>1, <1>3
<1> QED
    BY <1>1, <1>4, <1>5

LEMMA StoreKeeps ==
    ASSUME RecordsInv, NEW l \in Lengths, Structured!Store(l)
    PROVE  RecordsInv'
<1> USE BufSize
<1> DEFINE a == log_first_seq
           b == log_next_seq
           n == log_next_idx
           stored == Structured!Header(l, b)
           marked == IF At(l) # n THEN [buf EXCEPT ![n] = Structured!Wrap] ELSE buf
<1>2. BufTypeOK /\ Counts
    BY DEF RecordsInv
<1>3. a \in Nat /\ b \in Nat /\ n \in Structured!Cells /\ a <= b /\ l \in Nat /\ l >= 1
    BY <1>2 DEF BufTypeOK
<1>4. PICK w \in Live, f \in [Live -> Structured!Cells] : Layout(f, w)
    BY DEF RecordsInv, InBuffer
<1>s. Structured!HasSpace(log_first_idx, n, a = b, l)
    BY DEF Structured!Store
<1>5. /\ At(l) + l \in Structured!Cells
      /\ w < b => At(l) = n /\ n + l < log_first_idx /\ n # 0
      /\ At(l) # n => n # 0 /\ l < log_first_idx
      /\ \A q \in a..(b - 1) : f[q] # n /\ f[q] # At(l)
    BY <1>2, <1>4, <1>s, StoreApart
<1>c. At(l) \in Structured!Cells /\ (At(l) # n => At(l) = 0)
    BY <1>3 DEF At
<1>1. /\ recPc = "kernel"
      /\ buf' = [marked EXCEPT ![At(l)] = stored]
      /\ log_next_idx' = At(l) + l
      /\ log_next_seq' = b + 1
      /\ log_first_idx' = log_first_idx /\ log_first_seq' = a
      /\ clear_seq' = clear_seq /\ recPc' = recPc /\ yielded' = yielded
    <2>1. /\ recPc = "kernel" /\ log_next_seq' = b + 1
          /\ log_first_idx' = log_first_idx /\ log_first_seq' = a
          /\ clear_seq' = clear_seq /\ recPc' = recPc /\ yielded' = yielded
        BY DEF Structured!Store, Structured!reader
    <2>2. CASE n + l + 1 > BufLen
        <3>1. At(l) = 0
            BY <2>2 DEF At
        <3>2. /\ buf' = [[buf EXCEPT ![n] = Structured!Wrap] EXCEPT ![0] = stored]
              /\ log_next_idx' = 0 + l
            BY <2>2, <1>3 DEF Structured!Store
        <3>3. n # 0
            <4>1. CASE w < b
                BY <4>1, <1>5
            <4>2. CASE w = b
                <5>1. n = 0 => l + 1 > BufLen
                    BY <2>2, <1>3
                <5> QED
                    BY <5>1, <3>1, <1>5, <1>3
            <4> QED
                BY <4>1, <4>2, <1>3, <1>4 DEF Live
        <3> QED
            BY <3>1, <3>2, <3>3, <2>1
    <2>3. CASE ~(n + l + 1 > BufLen)
        <3>1. At(l) = n
            BY <2>3 DEF At
        <3>2. buf' = [buf EXCEPT ![n] = stored] /\ log_next_idx' = n + l
            BY <2>3 DEF Structured!Store
        <3> QED
            BY <3>1, <3>2, <2>1
    <2> QED
        BY <2>2, <2>3
<1>6. /\ buf' \in [Structured!Cells -> [len : Nat, no : Int]]
      /\ buf'[At(l)] = stored
      /\ At(l) # n => buf'[n] = Structured!Wrap
      /\ \A x \in Structured!Cells : x # n /\ x # At(l) => buf'[x] = buf[x]
    <2>1. stored \in [len : Nat, no : Int] /\ Structured!Wrap \in [len : Nat, no : Int]
        BY <1>3 DEF Structured!Header, Structured!Wrap, Structured!Marker
    <2>2. buf \in [Structured!Cells -> [len : Nat, no : Int]]
        BY <1>2 DEF BufTypeOK
    <2> HIDE DEF stored
    <2>3. /\ marked \in [Structured!Cells -> [len : Nat, no : Int]]
          /\ At(l) # n => marked[n] = Structured!Wrap
          /\ \A x \in Structured!Cells : x # n => marked[x] = buf[x]
        BY <2>1, <2>2, <1>3
    <2> HIDE DEF marked
    <2> QED
        BY <2>1, <2>3, <1>1, <1>3, <1>c
<1>7. yielded = <<>>
    BY <1>1, <1>2 DEF Counts
<1>8. BufTypeOK'
    <2>1. /\ log_first_seq' <= log_next_seq' /\ clear_seq' <= log_next_seq'
          /\ log_next_seq' \in Nat
        BY <1>1, <1>2, <1>3 DEF BufTypeOK
    <2> QED
        BY <2>1, <1>1, <1>2, <1>5, <1>6 DEF BufTypeOK, Structured!Cells
<1>9. Counts'
    BY <1>1, <1>2 DEF Counts
<1>a. PICK v : v = IF w < b THEN w ELSE IF At(l) = n THEN b + 1 ELSE b
    OBVIOUS
<1>b. PICK g : g = [q \in a..(b + 1) |-> IF q = b + 1 THEN At(l) + l ELSE f[q]]
    OBVIOUS
<1>10. Live' = a..(b + 1) /\ v \in a..(b + 1) /\ Live = a..b /\ w \in a..b
    BY <1>1, <1>3, <1>4, <1>a DEF Live
<1>11. /\ g \in [Live' -> Structured!Cells] /\ g[b + 1] = At(l) + l
       /\ \A q \in a..b : g[q] = f[q] /\ f[q] \in Structured!Cells
    <2>1. \A q \in a..b : f[q] \in Structured!Cells
        BY <1>4, <1>10
    <2>2. /\ \A q \in a..(b + 1) : q # b + 1 => q \in a..b
          /\ \A q \in a..b : q \in a..(b + 1) /\ q # b + 1
          /\ b + 1 \in a..(b + 1)
        BY <1>3
    <2> QED
        BY <2>1, <2>2, <1>5, <1>10, <1>b
<1>12. /\ f[a] = log_first_idx /\ f[b] = n
       /\ \A q, r \in a..w : q < r => f[q] < f[r]
       /\ \A q, r \in (w + 1)..b : q < r => f[q] < f[r]
    BY <1>4 DEF Layout, Ends, Rising
<1>13. Ends(g)'
    BY <1>1, <1>3, <1>11, <1>12 DEF Ends
<1>14. Chain(g, v)'
    <2> SUFFICES ASSUME NEW q \in a..b
                 PROVE  IF q = v THEN Wrapped(g, q)' ELSE Plain(g, q)'
        <3>1. log_first_seq'..(log_next_seq' - 1) = a..b
            BY <1>1, <1>3
        <3> QED
            BY <3>1 DEF Chain
    <2>1. CASE q = b
        <3>1. g[b] = n
            BY <1>3, <1>11, <1>12
        <3>2. CASE At(l) = n
            <4>1. q # v
                BY <2>1, <3>2, <1>a, <1>3, <1>10
            <4>2. buf'[g[q]] = stored /\ g[q + 1] = n + l
                BY <2>1, <3>1, <3>2, <1>6, <1>11
            <4> QED
                BY <4>1, <4>2, <2>1, <3>1, <1>3 DEF Plain, Structured!Header
        <3>3. CASE At(l) # n
            <4>1. q = v /\ At(l) = 0
                BY <2>1, <3>3, <1>a, <1>3, <1>10, <1>5, <1>c
            <4>2. buf'[g[q]] = Structured!Wrap /\ buf'[0] = stored /\ g[q + 1] = l
                <5>1. g[q + 1] = 0 + l /\ 0 + l = l
                    BY <2>1, <4>1, <1>11, <1>3
                <5> QED
                    BY <5>1, <2>1, <3>1, <3>3, <4>1, <1>6
            <4> QED
                BY <4>1, <4>2, <2>1, <1>3 DEF Wrapped, Structured!Header
        <3> QED
            BY <3>2, <3>3
    <2>2. CASE q # b
        <3>1. q \in a..(b - 1) /\ q + 1 \in a..b /\ (q = v <=> q = w)
            BY <2>2, <1>3, <1>10, <1>a
        <3>2. IF q = w THEN Wrapped(f, q) ELSE Plain(f, q)
            BY <3>1, <1>4 DEF Layout, Chain
        <3>3. g[q] = f[q] /\ g[q + 1] = f[q + 1] /\ buf'[f[q]] = buf[f[q]]
            BY <3>1, <1>5, <1>6, <1>11
        <3>4. q = w => buf'[0] = buf[0]
            <4>1. q = w => At(l) = n /\ n # 0
                BY <3>1, <1>3, <1>5
            <4> QED
                BY <4>1, <1>6
        <3> QED
            BY <3>1, <3>2, <3>3, <3>4 DEF Wrapped, Plain
    <2> QED
        BY <2>1, <2>2
<1>15. Rising(g, v)'
    <2>1. \A q \in a..b : g[q] = f[q] /\ g[q] \in Nat
        BY <1>11
    <2>2. At(l) \in Nat /\ n \in Nat
        BY <1>3, <1>c
    <2>3. CASE w < b
        <3>1. v = w /\ g[b + 1] = n + l /\ g[a] = log_first_idx /\ g[b] = n
            BY <2>3, <1>a, <1>3, <1>5, <1>11, <1>12
        <3>2. \A q, r \in a..w : q < r => g[q] < g[r]
            BY <2>1, <1>10, <1>12, <1>3
        <3>3. \A q \in (w + 1)..b : g[q] <= n
            BY <2>1, <1>10, <1>12, <1>3
        <3>4. ASSUME NEW q \in (w + 1)..(b + 1), NEW r \in (w + 1)..(b + 1), q < r
              PROVE  g[q] < g[r]
            <4>1. CASE r = b + 1
                BY <4>1, <3>1, <3>3, <3>4, <2>1, <2>2, <1>3, <1>10
            <4>2. CASE r # b + 1
                BY <4>2, <3>4, <2>1, <1>3, <1>10, <1>12
            <4> QED
                BY <4>1, <4>2
        <3>5. g[b + 1] < g[a]
            BY <3>1, <1>5, <2>3
        <3> QED
            BY <3>1, <3>2, <3>4, <3>5, <1>1 DEF Rising
    <2>4. CASE w = b /\ At(l) = n
        <3>1. v = b + 1 /\ g[b + 1] = n + l /\ g[b] = n
            BY <2>4, <1>a, <1>3, <1>11, <1>12
        <3>2. \A q \in a..b : g[q] <= n
            BY <2>1, <2>4, <1>12, <1>3
        <3>3. ASSUME NEW q \in a..(b + 1), NEW r \in a..(b + 1), q < r
              PROVE  g[q] < g[r]
            <4>1. CASE r = b + 1
                BY <4>1, <3>1, <3>2, <3>3, <2>1, <2>2, <1>3
            <4>2. CASE r # b + 1
                BY <4>2, <3>3, <2>1, <2>4, <1>3, <1>12
            <4> QED
                BY <4>1, <4>2
        <3> QED
            BY <3>1, <3>3, <1>1, <1>3 DEF Rising
    <2>5. CASE w = b /\ At(l) # n
        <3>1. v = b /\ g[b + 1] = l /\ g[a] = log_first_idx
            BY <2>5, <1>a, <1>3, <1>c, <1>11, <1>12
        <3>2. \A q, r \in a..b : q < r => g[q] < g[r]
            BY <2>1, <2>5, <1>12
        <3>3. g[b + 1] < g[a]
            BY <3>1, <1>5, <2>5
        <3> QED
            BY <3>1, <3>2, <3>3, <1>1, <1>3 DEF Rising
    <2> QED
        BY <2>3, <2>4, <2>5, <1>3, <1>10
<1>16. Yields(v)' /\ Arrived(g, v)'
    BY <1>1, <1>3, <1>7 DEF Yields, Arrived
<1>17. InBuffer'
    BY <1>10, <1>11, <1>13, <1>14, <1>15, <1>16 DEF InBuffer, Layout
<1> QED
    BY <1>8, <1>9, <1>17 DEF RecordsInv

(***************************************************************************)
(* The steps that leave the buffer alone.                                  *)
(***************************************************************************)
LEMMA LayoutKept ==
    ASSUME UNCHANGED records, NEW f, NEW w
    PROVE  Live' = Live /\ (Layout(f, w)' <=> Layout(f, w))
    BY DEF records, Live, Layout, Ends, Chain, Rising, Plain, Wrapped

LEMMA RecordsKept ==
    ASSUME RecordsInv, UNCHANGED structured
    PROVE  RecordsInv'
<1>1. /\ UNCHANGED records /\ clear_seq' = clear_seq /\ recPc' = recPc
      /\ recSeq' = recSeq /\ idx' = idx /\ yielded' = yielded
    BY DEF structured
<1>2. BufTypeOK' /\ Counts'
    BY <1>1 DEF records, RecordsInv, BufTypeOK, Counts, Structured!Cells
<1>3. InBuffer'
    <2>1. PICK w \in Live, f \in [Live -> Structured!Cells] :
              Layout(f, w) /\ Yields(w) /\ Arrived(f, w)
        BY DEF RecordsInv, InBuffer
    <2>2. Layout(f, w)' /\ Live' = Live
        BY <1>1, <2>1, LayoutKept
    <2>3. Yields(w)' /\ Arrived(f, w)'
        BY <1>1, <2>1 DEF records, Yields, Arrived, MarkerAt
    <2> QED
        BY <2>1, <2>2, <2>3 DEF InBuffer, Structured!Cells
<1> QED
    BY <1>2, <1>3 DEF RecordsInv

(***************************************************************************)
(* So are the steps after which nothing has been yielded.                  *)
(***************************************************************************)
LEMMA NotYetRead ==
    ASSUME RecordsInv, UNCHANGED records, recPc' \in {"kernel", "start"},
           yielded' = <<>>, clear_seq' \in Nat, clear_seq' <= log_next_seq
    PROVE  RecordsInv'
<1>1. BufTypeOK'
    BY DEF RecordsInv, BufTypeOK, records, Structured!Cells
<1>2. Counts'
    BY DEF Counts
<1>3. PICK w \in Live, f \in [Live -> Structured!Cells] : Layout(f, w)
    BY DEF RecordsInv, InBuffer
<1>4. Layout(f, w)' /\ Live' = Live
    BY <1>3, LayoutKept
<1>5. Yields(w)' /\ Arrived(f, w)'
    <2>1. Len(yielded') = 0 /\ 1..Len(yielded') = {}
        OBVIOUS
    <2>2. 0 <= log_next_seq' - log_first_seq'
        <3>1. log_first_seq' = log_first_seq /\ log_next_seq' = log_next_seq
            BY DEF records
        <3>2. 0 <= log_next_seq - log_first_seq
            BY DEF RecordsInv, BufTypeOK
        <3> QED
            BY <3>1, <3>2
    <2> QED
        BY <2>1, <2>2 DEF Yields, Arrived
<1>6. InBuffer'
    BY <1>3, <1>4, <1>5 DEF InBuffer, Structured!Cells
<1> QED
    BY <1>1, <1>2, <1>6 DEF RecordsInv

LEMMA ClearKeeps == RecordsInv /\ Structured!Clear => RecordsInv'
<1> SUFFICES ASSUME RecordsInv, Structured!Clear PROVE RecordsInv'
    OBVIOUS
<1>1. /\ UNCHANGED records /\ recPc' = "kernel" /\ recPc = "kernel"
      /\ yielded' = yielded /\ clear_seq' = log_next_seq
    BY DEF Structured!Clear, Structured!reader, records
<1>2. yielded = <<>> /\ log_next_seq \in Nat
    BY <1>1 DEF RecordsInv, Counts, BufTypeOK
<1> QED
    BY <1>1, <1>2, NotYetRead

LEMMA CrashKeeps == RecordsInv /\ Structured!Crash => RecordsInv'
<1> SUFFICES ASSUME RecordsInv, Structured!Crash PROVE RecordsInv'
    OBVIOUS
<1>1. /\ UNCHANGED records /\ recPc' = "start" /\ recPc = "kernel"
      /\ yielded' = yielded /\ clear_seq' = clear_seq
    BY DEF Structured!Crash, Structured!reader, Structured!kernel, records
<1>2. yielded = <<>> /\ clear_seq \in Nat /\ clear_seq <= log_next_seq
    BY <1>1 DEF RecordsInv, Counts, BufTypeOK
<1> QED
    BY <1>1, <1>2, NotYetRead

LEMMA RereadKeeps == RecordsInv /\ Again => RecordsInv'
<1> SUFFICES ASSUME RecordsInv, Again PROVE RecordsInv'
    OBVIOUS
<1>1. /\ UNCHANGED records /\ recPc' = "start"
      /\ yielded' = <<>> /\ clear_seq' = clear_seq
    BY DEF Again
<1>2. clear_seq \in Nat /\ clear_seq <= log_next_seq
    BY DEF RecordsInv, BufTypeOK
<1> QED
    BY <1>1, <1>2, NotYetRead

(***************************************************************************)
(* get_log_msgs comes to the first record.                                 *)
(***************************************************************************)
LEMMA StartReadingKeeps == RecordsInv /\ Structured!StartReading => RecordsInv'
<1> SUFFICES ASSUME RecordsInv, Structured!StartReading PROVE RecordsInv'
    OBVIOUS
<1>1. /\ UNCHANGED records /\ recPc = "start" /\ recPc' = "loop"
      /\ clear_seq' = IF clear_seq < log_first_seq THEN log_first_seq ELSE clear_seq
      /\ recSeq' = clear_seq' /\ idx' = log_first_idx /\ yielded' = yielded
    BY DEF Structured!StartReading, records
<1>2. BufTypeOK /\ yielded = <<>>
    BY <1>1 DEF RecordsInv, Counts
<1>3. clear_seq' \in Nat /\ clear_seq' <= log_next_seq /\ clear_seq' >= log_first_seq
    BY <1>1, <1>2 DEF BufTypeOK
<1>4. BufTypeOK'
    BY <1>1, <1>2, <1>3 DEF BufTypeOK, records, Structured!Cells
<1>5. Counts'
    <2>1. Len(yielded') = 0 /\ clear_seq' + 0 = clear_seq' /\ yielded' \in Seq(Int)
        BY <1>1, <1>2, <1>3
    <2>2. log_first_seq' = log_first_seq /\ log_next_seq' = log_next_seq
        BY <1>1 DEF records
    <2> QED
        BY <2>1, <2>2, <1>1, <1>3 DEF Counts
<1>6. PICK w \in Live, f \in [Live -> Structured!Cells] : Layout(f, w)
    BY DEF RecordsInv, InBuffer
<1>7. Layout(f, w)' /\ Live' = Live
    BY <1>1, <1>6, LayoutKept
<1>8. Yields(w)'
    <2>1. yielded' = <<>> /\ Len(yielded') = 0 /\ 1..Len(yielded') = {}
        BY <1>1, <1>2
    <2>2. 0 <= log_next_seq' - log_first_seq'
        <3>1. log_first_seq' = log_first_seq /\ log_next_seq' = log_next_seq
            BY <1>1 DEF records
        <3>2. 0 <= log_next_seq - log_first_seq
            BY <1>2 DEF BufTypeOK
        <3> QED
            BY <3>1, <3>2
    <2> QED
        BY <2>1, <2>2 DEF Yields
<1>9. Arrived(f, w)'
    <2>1. Len(yielded') = 0 /\ log_first_seq' = log_first_seq
        BY <1>1, <1>2 DEF records
    <2>2. log_first_seq \in Nat /\ w \in Int /\ w >= log_first_seq
        BY <1>2, <1>6 DEF Live, BufTypeOK
    <2>3. 0 < MarkerAt(w)' /\ log_first_seq' + 0 = log_first_seq
        BY <2>1, <2>2 DEF MarkerAt
    <2>4. f[log_first_seq] = log_first_idx
        BY <1>6 DEF Layout, Ends
    <2> QED
        BY <2>1, <2>3, <2>4, <1>1 DEF Arrived
<1>10. InBuffer'
    BY <1>6, <1>7, <1>8, <1>9 DEF InBuffer, Structured!Cells
<1> QED
    BY <1>4, <1>5, <1>10 DEF RecordsInv

(***************************************************************************)
(* One turn of its loop: the next header, which is the wrap header once.   *)
(***************************************************************************)
LEMMA HeaderRead ==
    ASSUME BufTypeOK, NEW w \in Live, NEW f \in [Live -> Structured!Cells],
           Layout(f, w), Arrived(f, w), recPc = "loop",
           yielded \in Seq(Int), Len(yielded) < log_next_seq - log_first_seq
    PROVE  LET n == Len(yielded) + 1
           IN  /\ buf[idx].no = IF n < MarkerAt(w) THEN log_first_seq + n - 1
                                ELSE IF n = MarkerAt(w) THEN Structured!Marker
                                ELSE log_first_seq + n - 2
               /\ Structured!NextIdx(idx) =
                     IF n < MarkerAt(w) THEN f[log_first_seq + n]
                     ELSE IF n = MarkerAt(w) THEN 0
                     ELSE f[log_first_seq + n - 1]
<1> DEFINE a == log_first_seq
           b == log_next_seq
           k == Len(yielded)
           m == MarkerAt(w)
<1>1. a \in Nat /\ b \in Nat /\ w \in a..b /\ k \in Nat /\ k < b - a
    BY DEF BufTypeOK, Live
<1>2. m = w - a + 1 /\ m \in Nat
    BY <1>1 DEF MarkerAt
<1>3. idx = IF k < m THEN f[a + k] ELSE IF k = m THEN 0 ELSE f[a + k - 1]
    BY DEF Arrived
<1>4. \A q \in a..(b - 1) : IF q = w THEN Wrapped(f, q) ELSE Plain(f, q)
    BY DEF Layout, Chain
<1> HIDE DEF a, b, k, m
<1>5. CASE k + 1 < m
    <2>1. idx = f[a + k] /\ a + k \in a..(b - 1) /\ a + k # w
        BY <1>5, <1>1, <1>2, <1>3
    <2>2. Plain(f, a + k)
        BY <2>1, <1>4
    <2>3. a + (k + 1) - 1 = a + k /\ a + (k + 1) = (a + k) + 1
        BY <1>1
    <2> QED
        BY <2>1, <2>2, <2>3, <1>5 DEF Plain, Structured!NextIdx, a, k, m
<1>6. CASE k + 1 = m
    <2>1. idx = f[w] /\ w \in a..(b - 1)
        BY <1>6, <1>1, <1>2, <1>3
    <2>2. buf[idx] = Structured!Wrap
        BY <2>1, <1>4 DEF Wrapped
    <2>3. ~(k + 1 < m)
        BY <1>6, <1>1
    <2> QED
        BY <2>2, <2>3, <1>6 DEF Structured!Wrap, Structured!Header, Structured!NextIdx, k, m
<1>7. CASE k = m
    <2>1. idx = 0 /\ w \in a..(b - 1) /\ a + (k + 1) - 2 = w /\ a + (k + 1) - 1 = w + 1
        BY <1>7, <1>1, <1>2, <1>3
    <2>2. buf[0].no = w /\ buf[0].len >= 1 /\ f[w + 1] = buf[0].len
        BY <2>1, <1>4 DEF Wrapped
    <2>3. ~(k + 1 < m) /\ k + 1 # m
        BY <1>7, <1>1
    <2>4. Structured!NextIdx(0) = f[w + 1]
        <3>1. f[w + 1] \in Nat
            <4>1. w + 1 \in Live
                BY <2>1, <1>1 DEF Live, a, b
            <4> QED
                BY <4>1, BufSize
        <3> QED
            BY <2>2, <3>1 DEF Structured!NextIdx
    <2> QED
        BY <2>1, <2>2, <2>3, <2>4 DEF a, k, m
<1>8. CASE k > m
    <2>1. /\ idx = f[a + k - 1] /\ a + k - 1 \in a..(b - 1) /\ a + k - 1 # w
          /\ a + (k + 1) - 2 = a + k - 1 /\ a + (k + 1) - 1 = (a + k - 1) + 1
        BY <1>8, <1>1, <1>2, <1>3
    <2>2. Plain(f, a + k - 1)
        BY <2>1, <1>4
    <2>3. ~(k + 1 < m) /\ k + 1 # m
        BY <1>8, <1>1, <1>2
    <2> QED
        BY <2>1, <2>2, <2>3 DEF Plain, Structured!NextIdx, a, k, m
<1>9. k + 1 < m \/ k + 1 = m \/ k = m \/ k > m
    BY <1>1, <1>2
<1> QED
    BY <1>5, <1>6, <1>7, <1>8, <1>9

LEMMA ReadKeeps == RecordsInv /\ Structured!Read => RecordsInv'
<1> SUFFICES ASSUME RecordsInv, Structured!Read PROVE RecordsInv'
    OBVIOUS
<1>1. recPc = "loop" /\ UNCHANGED records /\ clear_seq' = clear_seq
    BY DEF Structured!Read, Structured!kernel, records
<1>2. BufTypeOK /\ Counts
    BY DEF RecordsInv
<1>3. /\ yielded \in Seq(Int) /\ Len(yielded) \in Nat
      /\ clear_seq >= log_first_seq
      /\ recSeq = clear_seq + Len(yielded) /\ recSeq <= log_next_seq
    BY <1>1, <1>2 DEF Counts
<1>t. log_first_seq \in Nat /\ log_next_seq \in Nat /\ clear_seq \in Nat
    BY <1>2 DEF BufTypeOK
<1>4. BufTypeOK'
    BY <1>1, <1>2 DEF BufTypeOK, records, Structured!Cells
<1>5. PICK w \in Live, f \in [Live -> Structured!Cells] :
          Layout(f, w) /\ Yields(w) /\ Arrived(f, w)
    BY DEF RecordsInv, InBuffer
<1>6. Layout(f, w)' /\ Live' = Live
    BY <1>1, <1>5, LayoutKept
<1>7. log_first_seq' = log_first_seq /\ log_next_seq' = log_next_seq
    BY <1>1 DEF records
<1>8. CASE recSeq < log_next_seq
    <2> DEFINE n == Len(yielded) + 1
    <2>1. /\ yielded' = Append(yielded, buf[idx].no) /\ recSeq' = recSeq + 1
          /\ idx' = Structured!NextIdx(idx) /\ recPc' = "loop"
        BY <1>8, <1>1 DEF Structured!Read
    <2>2. Len(yielded) < log_next_seq - log_first_seq
        BY <1>8, <1>3, <1>t
    <2>3. /\ buf[idx].no = IF n < MarkerAt(w) THEN log_first_seq + n - 1
                           ELSE IF n = MarkerAt(w) THEN Structured!Marker
                           ELSE log_first_seq + n - 2
          /\ idx' = IF n < MarkerAt(w) THEN f[log_first_seq + n]
                    ELSE IF n = MarkerAt(w) THEN 0
                    ELSE f[log_first_seq + n - 1]
        BY <1>1, <1>2, <1>3, <1>5, <2>1, <2>2, HeaderRead
    <2>4. buf[idx].no \in Int
        BY <2>3, <1>3, <1>t DEF Structured!Marker
    <2>5. /\ yielded' \in Seq(Int) /\ Len(yielded') = n
          /\ \A j \in 1..(n - 1) : yielded'[j] = yielded[j]
          /\ yielded'[n] = buf[idx].no
        BY <2>1, <2>4, <1>3
    <2>6. MarkerAt(w)' = MarkerAt(w)
        BY <1>7 DEF MarkerAt
    <2>7. Counts'
        BY <2>1, <2>5, <1>1, <1>3, <1>7, <1>8, <1>t DEF Counts
    <2>8. Yields(w)'
        <3>1. n <= log_next_seq - log_first_seq
            BY <2>2, <1>3, <1>t
        <3>2. ASSUME NEW j \in 1..n
              PROVE  yielded'[j] = IF j < MarkerAt(w) THEN log_first_seq + j - 1
                                   ELSE IF j = MarkerAt(w) THEN Structured!Marker
                                   ELSE log_first_seq + j - 2
            <4>1. CASE j = n
                BY <4>1, <2>3, <2>5
            <4>2. CASE j # n
                <5>1. j \in 1..Len(yielded) /\ j \in 1..(n - 1)
                    BY <4>2, <1>3
                <5> QED
                    BY <5>1, <2>5, <1>5 DEF Yields
            <4> QED
                BY <4>1, <4>2
        <3> QED
            BY <3>1, <3>2, <2>5, <2>6, <1>7 DEF Yields
    <2>9. Arrived(f, w)'
        BY <2>3, <2>5, <2>6, <1>7 DEF Arrived
    <2>10. InBuffer'
        BY <1>5, <1>6, <2>8, <2>9 DEF InBuffer, Structured!Cells
    <2> QED
        BY <1>4, <2>7, <2>10 DEF RecordsInv
<1>9. CASE ~(recSeq < log_next_seq)
    <2>1. recPc' = "done" /\ recSeq' = recSeq /\ idx' = idx /\ yielded' = yielded
        BY <1>9, <1>1 DEF Structured!Read, Structured!reader
    <2>2. recSeq = log_next_seq
        BY <1>9, <1>3, <1>t
    <2>3. Counts'
        BY <2>1, <2>2, <1>1, <1>3, <1>7 DEF Counts
    <2>4. Yields(w)' /\ Arrived(f, w)'
        BY <2>1, <1>1, <1>5, <1>7 DEF Yields, Arrived, MarkerAt
    <2>5. InBuffer'
        BY <1>5, <1>6, <2>4 DEF InBuffer, Structured!Cells
    <2> QED
        BY <1>4, <2>3, <2>5 DEF RecordsInv
<1> QED
    BY <1>8, <1>9

(***************************************************************************)
(* Whatever the kernel writes, drops and clears, the indices and numbers   *)
(* of the structured buffer delimit a chain of headers, and the reader has *)
(* followed it from its start.                                             *)
(***************************************************************************)
THEOREM RecordsInvariant == Spec => []RecordsInv
<1>1. Init => RecordsInv
    BY RecordsInit DEF Init
<1>2. RecordsInv /\ [Next]_vars => RecordsInv'
    <2> SUFFICES ASSUME RecordsInv, [Next]_vars PROVE RecordsInv'
        OBVIOUS
    <2>1. CASE StructuredKernel
        BY <2>1, DropKeeps, StoreKeeps, ClearKeeps, CrashKeeps
        DEF StructuredKernel, Structured!Kernel
    <2>2. CASE ShowStructured
        BY <2>2, StartReadingKeeps, ReadKeeps DEF ShowStructured
    <2>3. CASE Again
        BY <2>3, RereadKeeps
    <2>4. CASE LocklessKernel \/ PlainKernel \/ ShowLockless \/ NotThis \/ ShowPlain
        BY <2>4, RecordsKept
        DEF LocklessKernel, PlainKernel, ShowLockless, NotThis, ShowPlain
    <2>5. CASE UNCHANGED vars
        BY <2>5, RecordsKept DEF vars
    <2> QED
        BY <2>1, <2>2, <2>3, <2>4, <2>5 DEF Next
<1> QED
    BY <1>1, <1>2, PTL DEF Spec

(***************************************************************************)
(* The records among the first j - 1 things yielded: all of them, or all   *)
(* but the wrap header.                                                    *)
(***************************************************************************)
LEMMA MarkersLeftOut ==
    ASSUME BufTypeOK, NEW w \in Live, Yields(w), yielded \in Seq(Int),
           NEW j \in 1..Len(yielded), j # MarkerAt(w)
    PROVE  Structured!RecordsBefore(j) = IF j < MarkerAt(w) THEN j - 1 ELSE j - 2
<1> DEFINE R == {i \in 1..(j - 1) : yielded[i] # Structured!Marker}
<1>1. /\ log_first_seq \in Nat /\ log_next_seq \in Nat /\ w \in Int
      /\ w >= log_first_seq /\ Len(yielded) \in Nat /\ j \in Nat /\ j >= 1
      /\ MarkerAt(w) \in Nat /\ MarkerAt(w) >= 1
    BY DEF BufTypeOK, Live, MarkerAt
<1>2. ASSUME NEW i \in 1..(j - 1)
      PROVE  yielded[i] = Structured!Marker <=> i = MarkerAt(w)
    <2>1. i \in 1..Len(yielded)
        BY <1>1
    <2> QED
        BY <2>1, <1>1 DEF Yields, Structured!Marker
<1>3. IsFiniteSet(1..(j - 1)) /\ Cardinality(1..(j - 1)) = j - 1
    <2>1. 1 \in Int /\ j - 1 \in Int
        BY <1>1
    <2>2. /\ IsFiniteSet(1..(j - 1))
          /\ Cardinality(1..(j - 1)) = IF 1 > j - 1 THEN 0 ELSE (j - 1) - 1 + 1
        BY <2>1, FS_Interval
    <2> QED
        BY <2>2, <1>1
<1>4. CASE j < MarkerAt(w)
    <2>1. R = 1..(j - 1)
        BY <1>4, <1>1, <1>2
    <2>2. Structured!RecordsBefore(j) = Cardinality(R)
        BY DEF Structured!RecordsBefore, Structured!Cardinality, Cardinality
    <2> QED
        BY <2>1, <2>2, <1>3, <1>4
<1>5. CASE j > MarkerAt(w)
    <2>1. R = (1..(j - 1)) \ {MarkerAt(w)} /\ MarkerAt(w) \in 1..(j - 1)
        BY <1>5, <1>1, <1>2
    <2>2. Cardinality(R) = (j - 1) - 1
        BY <2>1, <1>3, FS_RemoveElement
    <2>3. Structured!RecordsBefore(j) = Cardinality(R)
        BY DEF Structured!RecordsBefore, Structured!Cardinality, Cardinality
    <2> HIDE DEF R
    <2> QED
        BY <2>2, <2>3, <1>1, <1>5
<1> QED
    BY <1>1, <1>4, <1>5

(***************************************************************************)
(* What the reader of structured_ringbuffer.py yields are records that are *)
(* still in the buffer, the oldest first and without gaps, for buffers and *)
(* records of every length and however often the log wraps; a log that has *)
(* not wrapped and was not cleared is yielded completely, by the first log *)
(* command and by every later one.                                         *)
(***************************************************************************)
THEOREM LiveRecordsYielded == Spec => []LiveRecordsShown
<1>1. ASSUME RecordsInv PROVE LiveRecordsShown
    <2> DEFINE a == log_first_seq
               b == log_next_seq
    <2>1. BufTypeOK /\ Counts /\ yielded \in Seq(Int)
        BY <1>1 DEF RecordsInv, Counts
    <2>2. /\ a \in Nat /\ b \in Nat /\ Len(yielded) \in Nat
          /\ DOMAIN yielded = 1..Len(yielded)
        BY <2>1 DEF BufTypeOK
    <2>3. PICK w \in Live, f \in [Live -> Structured!Cells] :
              Layout(f, w) /\ Yields(w) /\ Arrived(f, w)
        BY <1>1 DEF RecordsInv, InBuffer
    <2>4. w \in a..b /\ MarkerAt(w) = w - a + 1
        BY <2>3 DEF Live, MarkerAt
    <2>5. ASSUME NEW j \in DOMAIN yielded, yielded[j] # Structured!Marker
          PROVE  /\ yielded[j] = a + Structured!RecordsBefore(j)
                 /\ yielded[j] < b
        <3>1. /\ j \in 1..Len(yielded) /\ Len(yielded) <= b - a
              /\ yielded[j] = IF j < MarkerAt(w) THEN a + j - 1
                              ELSE IF j = MarkerAt(w) THEN Structured!Marker
                              ELSE a + j - 2
            BY <2>2, <2>3 DEF Yields
        <3>2. j # MarkerAt(w)
            BY <3>1, <2>2, <2>4, <2>5
        <3>3. Structured!RecordsBefore(j) = IF j < MarkerAt(w) THEN j - 1 ELSE j - 2
            BY <3>1, <3>2, <2>1, <2>3, MarkersLeftOut
        <3> QED
            BY <3>1, <3>2, <3>3, <2>2, <2>4
    <2>6. ASSUME recPc = "done", clear_seq = a, log_first_idx < log_next_idx,
                 NEW s \in a..(b - 1)
          PROVE  \E j \in DOMAIN yielded : yielded[j] = s
        <3>1. Len(yielded) = b - a
            BY <2>6, <2>1, <2>2 DEF Counts
        <3>2. w = b
            <4>1. log_first_idx \in Int /\ log_next_idx \in Int
                BY <2>1, BufSize DEF BufTypeOK
            <4>2. w < b => log_next_idx < log_first_idx
                BY <2>3 DEF Layout, Ends, Rising
            <4> QED
                BY <4>1, <4>2, <2>2, <2>4, <2>6
        <3>3. s - a + 1 \in 1..Len(yielded) /\ s - a + 1 < MarkerAt(w)
            BY <3>1, <3>2, <2>2, <2>4, <2>6
        <3>4. yielded[s - a + 1] = a + (s - a + 1) - 1
            BY <3>3, <2>3 DEF Yields
        <3>5. yielded[s - a + 1] = s
            BY <3>4, <2>2, <2>6
        <3> QED
            BY <3>3, <3>5, <2>2
    <2> QED
        BY <2>5, <2>6
        DEF LiveRecordsShown, Structured!OnlyLiveRecords, Structured!PlainLogComplete
<1> QED
    BY <1>1, RecordsInvariant, PTL
=============================================================================
