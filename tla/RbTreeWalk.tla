----------------------------- MODULE RbTreeWalk -----------------------------
(***************************************************************************)
(* rbtree_postorder_for_each of crash/types/rbtree.py: the walk of a red-  *)
(* black tree in a crash dump, children before their parent.  Colours are  *)
(* left out: `parent' is the parent pointer with the colour bits masked.   *)
(***************************************************************************)
EXTENDS Integers, Sequences, FiniteSets

CONSTANTS
    Nodes,          \* the addresses where an rb_node may be
    NULL,           \* the NULL pointer
    MaxYields       \* bound on the recorded nodes

ConstantsOK == IsFiniteSet(Nodes) /\ NULL \notin Nodes /\ MaxYields \in Nat

VARIABLES
    root,                   \* root->rb_node
    left, right, parent,    \* the links of the nodes
    pc,                     \* "descend": in _rb_left_deepest_node
    node,                   \* the local node of the loop that is running
    yielded                 \* the nodes yielded so far

memory == <<root, left, right, parent>>
vars == <<root, left, right, parent, pc, node, yielded>>

Links == Nodes \cup {NULL}

(***************************************************************************)
(* What the kernel maintains: no node is linked to twice, the root not at  *)
(* all, and each points back to the node that links to it.                 *)
(***************************************************************************)
Children(n) == {left[n], right[n]} \ {NULL}
IsForest ==
    /\ \A n \in Nodes : left[n] = right[n] => left[n] = NULL
    /\ \A n, m \in Nodes : n # m => Children(n) \cap Children(m) = {}
    /\ \A n \in Nodes : root \notin Children(n)
ParentOf(n) == IF \E m \in Nodes : n \in Children(m)
               THEN CHOOSE m \in Nodes : n \in Children(m)
               ELSE NULL

Init ==
    /\ root \in Links
    /\ left \in [Nodes -> Links] /\ right \in [Nodes -> Links]
    /\ IsForest /\ parent = [n \in Nodes |-> ParentOf(n)]
    /\ pc = "descend" /\ node = root /\ yielded = <<>>

(***************************************************************************)
(* _rb_left_deepest_node: one turn of its loop.  It returns None for a     *)
(* NULL node, which ends the walk.                                         *)
(***************************************************************************)
DescendLeft ==
    /\ pc = "descend"
    /\ \/ node = NULL /\ pc' = "done" /\ UNCHANGED node
       \/ /\ node # NULL
          /\ IF left[node] # NULL THEN node' = left[node] /\ UNCHANGED pc
             ELSE pc' = "yield" /\ UNCHANGED node
    /\ UNCHANGED <<memory, yielded>>
Descend ==
    /\ pc = "descend"
    /\ \/ node = NULL /\ pc' = "done" /\ UNCHANGED node
       \/ /\ node # NULL
          /\ IF left[node] # NULL THEN node' = left[node] /\ UNCHANGED pc
             ELSE IF right[node] # NULL THEN node' = right[node] /\ UNCHANGED pc
             ELSE pc' = "yield" /\ UNCHANGED node
    /\ UNCHANGED <<memory, yielded>>

Yield(n) == yielded' = IF Len(yielded) < MaxYields THEN Append(yielded, n)
                       ELSE yielded

(***************************************************************************)
(* The loop of rbtree_postorder_for_each with _rb_next_postorder: after a  *)
(* left child the deepest node of its right sibling's subtree, otherwise   *)
(* the parent.                                                             *)
(***************************************************************************)
NextPostorder(n) ==
    LET p == parent[n]
    IN  IF p # NULL /\ n = left[p] /\ right[p] # NULL
        THEN node' = right[p] /\ pc' = "descend"
        ELSE node' = p /\ pc' = IF p = NULL THEN "done" ELSE "yield"

Visit ==
    /\ pc = "yield"
    /\ Yield(node)
    /\ NextPostorder(node)
    /\ UNCHANGED memory

Next == Descend \/ Visit
Spec == Init /\ [][Next]_vars

\* The caller keeps asking for the next node.
FairSpec == Spec /\ WF_vars(Next)

-----------------------------------------------------------------------------
(***************************************************************************)
(* The nodes below n in post-order, for trees of height at most h.         *)
(***************************************************************************)
Postorder[h \in 0..Cardinality(Nodes)] ==
    [n \in Links |->
        IF n = NULL \/ h = 0 THEN <<>>
        ELSE Postorder[h - 1][left[n]] \o Postorder[h - 1][right[n]] \o <<n>>]

(***************************************************************************)
(* On every tree the nodes come out in post-order, each once, and none is  *)
(* missing when the walk ends.                                             *)
(***************************************************************************)
YieldsPostorder ==
    LET expected == Postorder[Cardinality(Nodes)][root]
    IN  /\ yielded = SubSeq(expected, 1, Len(yielded))
        /\ Len(yielded) <= Len(expected)
        /\ pc = "done" => yielded = expected

=============================================================================
