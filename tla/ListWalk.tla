------------------------------- MODULE ListWalk -------------------------------
(***************************************************************************)
(* list_for_each of crash/types/list.py, walking a kernel list in a crash  *)
(* dump, and klist_for_each of crash/types/klist.py on top of it.          *)
(*                                                                         *)
(* The memory of a dump never changes while it is read but may hold        *)
(* anything: links that are NULL, that point into another list, that do    *)
(* not agree with each other, and nodes that cannot be read.  Init takes   *)
(* every such memory.  The walk is a generator: Visit runs it up to the    *)
(* next yield, Advance from there to the next test of the loop.            *)
(***************************************************************************)
EXTENDS Integers, Sequences, FiniteSets, Functions

CONSTANTS
    Nodes,          \* the addresses where a list_head may be
    head,           \* the one the caller passes
    NULL,           \* the NULL pointer
    Calls,          \* the arguments of the calls, see Arguments
    Unreadable,     \* the sets of nodes the dump may lack
    MaxYields       \* bound on the recorded nodes, larger than any walk's

ASSUME HeadAssumption == head \in Nodes /\ NULL \notin Nodes
ASSUME FiniteAssumption == IsFiniteSet(Nodes)
\* exact_cycles and include_head, and whether klist_for_each is the caller.
Arguments == [exact : BOOLEAN, include_head : BOOLEAN, klist : BOOLEAN]
ASSUME ArgumentAssumption ==
    /\ Calls \subseteq {c \in Arguments : c.klist => ~c.exact /\ ~c.include_head}
    /\ Unreadable \subseteq SUBSET Nodes
    /\ MaxYields \in Nat /\ MaxYields > Cardinality(Nodes)

VARIABLES
    next, prev,     \* the links that lead onwards and back (swapped by reverse)
    absent,         \* the nodes that cannot be read
    owned,          \* the klist nodes whose n_klist is this klist
    args,           \* the arguments of the call
    pc,             \* where the generator is suspended
    node, last,     \* the locals node and prev: the current and previous node
    fast,           \* the local fast; NULL when cycles are not looked for
    visited,        \* the local visited
    pending,        \* pending_exception is set
    yielded,        \* the nodes yielded so far
    result          \* how the walk ended

memory == <<next, prev, absent, owned, args>>
vars == <<next, prev, absent, owned, args, pc, node, last, fast, visited,
          pending, yielded, result>>

Links == Nodes \cup {NULL}
Readable(n) == n \in Nodes \ absent

Init ==
    /\ next \in [Nodes -> Links] /\ prev \in [Nodes -> Links]
    /\ absent \in Unreadable
    /\ args \in Calls
    /\ owned \in IF args.klist THEN SUBSET Nodes ELSE {Nodes}
    /\ pc = "start" /\ result = "none"
    /\ node = head /\ last = head /\ fast = NULL
    /\ visited = {} /\ pending = FALSE /\ yielded = <<>>

Yield(n) == yielded' = IF Len(yielded) < MaxYields THEN Append(yielded, n)
                       ELSE yielded
Raise(e) == pc' = "done" /\ result' = e

(***************************************************************************)
(* The node whose link is followed next; the loop ends at the head, where  *)
(* a broken link seen on the way is reported.                              *)
(***************************************************************************)
GotoNeverPending(n) ==
    IF n = head THEN Raise("ok") /\ UNCHANGED node
    ELSE pc' = "visit" /\ node' = n /\ UNCHANGED result
Goto(n) ==
    IF n = head
    THEN Raise(IF pending THEN "CorruptListError" ELSE "ok") /\ UNCHANGED node
    ELSE pc' = "visit" /\ node' = n /\ UNCHANGED result

\* From the call to the first test of the loop.
Start ==
    /\ pc = "start"
    /\ yielded' = IF args.include_head THEN <<head>> ELSE <<>>
    /\ last' = head
    /\ IF ~Readable(head)
       THEN Raise("BufferError") /\ UNCHANGED node
       ELSE IF next[head] = NULL
       THEN Raise("CorruptListError") /\ UNCHANGED node
       ELSE Goto(next[head])
    /\ UNCHANGED <<memory, fast, visited, pending>>

\* A back link that does not agree arms the detection of cycles.
Broken == prev[node] # last
NeverArm == UNCHANGED fast
ArmFast == fast' = IF Broken /\ ~args.exact /\ fast = NULL THEN node ELSE fast

\* The caller's check of the node it is given.
Accept(n) == n \in owned

(***************************************************************************)
(* The first half of the loop body: the test for a node seen before, the   *)
(* test of the back link, and the yield, which a klist's caller may answer *)
(* by giving up.                                                           *)
(***************************************************************************)
VisitForgets ==
    /\ pc = "visit"
    /\ IF Readable(node)
       THEN Yield(node) /\ pc' = "advance"
            /\ pending' = (pending \/ Broken) /\ UNCHANGED result
       ELSE Raise("BufferError") /\ UNCHANGED <<yielded, pending>>
    /\ UNCHANGED <<memory, node, last, fast, visited>>
Visit ==
    /\ pc = "visit"
    /\ \/ /\ args.exact /\ node \in visited
          /\ Raise("ListCycleError")
          /\ UNCHANGED <<fast, visited, pending, yielded>>
       \/ /\ ~(args.exact /\ node \in visited)
          /\ visited' = IF args.exact THEN visited \cup {node} ELSE visited
          /\ \/ /\ ~Readable(node)
                /\ Raise("BufferError")
                /\ UNCHANGED <<fast, pending, yielded>>
             \/ /\ Readable(node)
                /\ pending' = (pending \/ Broken)
                /\ ArmFast
                /\ IF args.klist /\ ~Accept(node)
                   THEN Raise("KlistCorruptedError") /\ UNCHANGED yielded
                   ELSE /\ Yield(node)
                        /\ pc' = "advance" /\ UNCHANGED result
    /\ UNCHANGED <<memory, node, last>>

(***************************************************************************)
(* Two steps of the hare.  Following a link of an unreadable node, NULL    *)
(* included, raises gdb.error and ends the detection.                      *)
(***************************************************************************)
Hare1 == next[fast]
Hare2 == next[Hare1]
Met == /\ fast # NULL /\ Readable(fast)
       /\ \/ Hare1 = node
          \/ Readable(Hare1) /\ Hare2 = node
Lost == fast = NULL \/ ~Readable(fast) \/ ~Readable(Hare1)

\* The second half of the loop body.
Advance ==
    /\ pc = "advance"
    /\ last' = node
    /\ \/ Met /\ Raise("ListCycleError") /\ UNCHANGED <<fast, node>>
       \/ /\ ~Met
          /\ fast' = IF Lost THEN NULL ELSE Hare2
          /\ IF next[node] = NULL
             THEN Raise("CorruptListError") /\ UNCHANGED node
             ELSE Goto(next[node])
    /\ UNCHANGED <<memory, visited, pending, yielded>>

Next == Start \/ Visit \/ Advance
Spec == Init /\ [][Next]_vars

\* The caller keeps asking for the next node.
FairSpec == Spec /\ WF_vars(Next)

-----------------------------------------------------------------------------
(***************************************************************************)
(* The list as the kernel means it.  Path[i] is the node i links after the *)
(* head, NULL once a link is NULL or cannot be read.                       *)
(***************************************************************************)
Follow(n) == IF Readable(n) THEN next[n] ELSE NULL
Path[i \in 0..Cardinality(Nodes)] ==
    IF i = 0 THEN head ELSE Follow(Path[i - 1])
Returns == {i \in DOMAIN Path \ {0} : Path[i] = head}
Closed == Returns # {}
Length == (CHOOSE i \in Returns : \A j \in Returns : i <= j) - 1
Members == [i \in 1..Length |-> Path[i]]
Expected == (IF args.include_head THEN <<head>> ELSE <<>>) \o Members
Consistent == \A i \in 1..Length : prev[Path[i]] = Path[i - 1]

(***************************************************************************)
(* The walk reports success only for a list that is closed, whose links    *)
(* agree and, for a klist, whose nodes belong to it, having yielded each   *)
(* node once and in order; and it reports success for every such list      *)
(* that can be read.                                                       *)
(***************************************************************************)
SuccessExact ==
    /\ result = "ok" => /\ Closed /\ Consistent /\ yielded = Expected
                        /\ \A i \in 1..Length : Path[i] \in owned
    /\ (/\ pc = "done" /\ Closed /\ Consistent
        /\ \A i \in 1..Length : Readable(Path[i]) /\ Path[i] \in owned)
           => result = "ok"

(***************************************************************************)
(* With exact_cycles no node is yielded twice, and ListCycleError means    *)
(* that the path runs into itself without passing the head.                *)
(***************************************************************************)
ExactCycles ==
    args.exact =>
        /\ IsInjective(yielded)
        /\ result = "ListCycleError" =>
               /\ ~Closed
               /\ \E i, j \in DOMAIN Path : i < j /\ Path[i] = Path[j]
                                                /\ Path[i] # NULL

=============================================================================
