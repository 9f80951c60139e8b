------------------------------- MODULE MCWalks -------------------------------
(***************************************************************************)
(* The readers that walk a data structure in the dump, for TLC: a list or  *)
(* klist (ListWalk), a red-black tree (RbTreeWalk), a bitmap (Bitmap), a   *)
(* stack of bios (BioStack) or the requests of a queue (BlockQueue).       *)
(* `kind' says which one this behaviour is about; the variables of the     *)
(* others keep the values of an empty structure.                           *)
(***************************************************************************)
EXTENDS ListWalk

CONSTANTS
    h, a, b, c,     \* the nodes of the list
    Kinds,          \* the structures this run walks
    TreeNodes,      \* the nodes of the tree
    W, B, Shifts, Words, Starts,
    Bios, Bhs,
    Depth, Shift, MaxReserved

VARIABLES
    kind,
    root, left, right, parent, treePc, treeNode, treeYielded,
    bitmap, size, zero, start, pos, found, ended,
    endio, private, unavailable, _decoders, decoder, bioYielded, known, bioState,
    queue, op, hctx, requests, stats, status

Tree == INSTANCE RbTreeWalk WITH Nodes <- TreeNodes, pc <- treePc,
                                 node <- treeNode, yielded <- treeYielded
Bits == INSTANCE Bitmap
Stack == INSTANCE BioStack WITH yielded <- bioYielded, state <- bioState
Queue == INSTANCE BlockQueue

ASSUME StructuresAssumption ==
    /\ Tree!ConstantsOK /\ Bits!ConstantsOK /\ Stack!ConstantsOK /\ Queue!ConstantsOK
    /\ Kinds \subseteq {"list", "tree", "bitmap", "bios", "requests"}

listVars == vars
treeVars == <<root, left, right, parent, treePc, treeNode, treeYielded>>
bitmapVars == <<bitmap, size, zero, start, pos, found, ended>>
bioVars == <<endio, private, unavailable, _decoders, decoder, bioYielded, known, bioState>>
queueVars == <<queue, op, hctx, requests, stats, status>>
allVars == <<kind, listVars, treeVars, bitmapVars, bioVars, queueVars>>

\* Plain, exact and klist calls; at most one node is missing from the dump.
MCCalls == {[exact |-> FALSE, include_head |-> FALSE, klist |-> FALSE],
            [exact |-> TRUE, include_head |-> TRUE, klist |-> FALSE],
            [exact |-> FALSE, include_head |-> FALSE, klist |-> TRUE]}
MCOneAbsent == {{}} \cup {{n} : n \in Nodes}
MCShifts == <<2, 1>>

NoList == /\ next = [n \in Nodes |-> NULL] /\ prev = next
          /\ absent = {} /\ owned = {} /\ args = CHOOSE x \in Calls : TRUE
          /\ pc = "start" /\ result = "none" /\ node = head /\ last = head
          /\ fast = NULL /\ visited = {} /\ pending = FALSE /\ yielded = <<>>
NoTree == /\ root = NULL /\ left = [n \in TreeNodes |-> NULL]
          /\ right = left /\ parent = left
          /\ treePc = "descend" /\ treeNode = NULL /\ treeYielded = <<>>
NoBitmap == /\ bitmap = [n \in 0..(Words - 1) |-> {}] /\ size = 0 /\ zero = FALSE
            /\ start = 0 /\ pos = 0 /\ found = <<>> /\ ended = FALSE

NoBios == /\ endio = [x \in Bios \cup Bhs |-> "other"] /\ private = [x \in Bios |-> x]
          /\ unavailable = {} /\ _decoders = {} /\ decoder = Stack!NoDecoder
          /\ bioYielded = <<>> /\ known = {} /\ bioState = "idle"
NoRequests == /\ queue = [mq |-> FALSE] /\ op = "requests_queued" /\ hctx = 1
              /\ requests = <<>> /\ stats = <<0, 0, 0, 0>> /\ status = "idle"

MCInit ==
    /\ kind \in Kinds
    /\ IF kind = "list" THEN Init ELSE NoList
    /\ IF kind = "tree" THEN Tree!Init ELSE NoTree
    /\ IF kind = "bitmap" THEN Bits!Init ELSE NoBitmap
    /\ IF kind = "bios" THEN Stack!Init ELSE NoBios
    /\ IF kind = "requests" THEN Queue!Init ELSE NoRequests

OnlyList == UNCHANGED <<kind, treeVars, bitmapVars, bioVars, queueVars>>
OnlyTree == UNCHANGED <<kind, listVars, bitmapVars, bioVars, queueVars>>
OnlyBitmap == UNCHANGED <<kind, listVars, treeVars, bioVars, queueVars>>
OnlyBios == UNCHANGED <<kind, listVars, treeVars, bitmapVars, queueVars>>
OnlyQueue == UNCHANGED <<kind, listVars, treeVars, bitmapVars, bioVars>>

ListStart == kind = "list" /\ Start /\ OnlyList
ListVisit == kind = "list" /\ Visit /\ OnlyList
ListAdvance == kind = "list" /\ Advance /\ OnlyList
TreeDescend == kind = "tree" /\ Tree!Descend /\ OnlyTree
TreeVisit == kind = "tree" /\ Tree!Visit /\ OnlyTree
BitmapFind == kind = "bitmap" /\ Bits!Find /\ OnlyBitmap
RegisterDecoder == kind = "bios" /\ (\E e \in Stack!Endios : Stack!register_decoder(e)) /\ OnlyBios
BioBegin == kind = "bios" /\ (\E x \in Bios : Stack!Begin(x)) /\ OnlyBios
BioYield == kind = "bios" /\ Stack!Yield /\ OnlyBios
SingleQueue == kind = "requests" /\ Queue!SingleQueue /\ OnlyQueue
MultiQueue == kind = "requests" /\ Queue!MultiQueue /\ OnlyQueue
NextHctx == kind = "requests" /\ Queue!NextHctx /\ OnlyQueue
EndQueue == kind = "requests" /\ Queue!EndQueue /\ OnlyQueue

MCNext == \/ ListStart \/ ListVisit \/ ListAdvance
          \/ TreeDescend \/ TreeVisit
          \/ BitmapFind
          \/ RegisterDecoder \/ BioBegin \/ BioYield
          \/ SingleQueue \/ MultiQueue \/ NextHctx \/ EndQueue

\* The caller of a generator keeps asking for the next element.
MCSpec == MCInit /\ [][MCNext]_allVars /\ WF_allVars(MCNext)

-----------------------------------------------------------------------------
(***************************************************************************)
(* rbtree_postorder_for_each yields the nodes of every tree in post-order, *)
(* each once, and none is missing when the walk ends.                      *)
(***************************************************************************)
YieldsPostorder == kind = "tree" => Tree!YieldsPostorder

(***************************************************************************)
(* for_each_set_bit, find_first_set_bit and find_last_set_bit agree with   *)
(* the set of the bits that test_bit finds, and a scan with                *)
(* find_next_set_bit or find_next_zero_bit that starts at a word meets     *)
(* every bit of its kind, in order.                                        *)
(***************************************************************************)
BitmapAgrees ==
    kind = "bitmap" => Bits!ForEachYieldsAll /\ Bits!EndsAgree /\ Bits!ScanFindsAll

(***************************************************************************)
(* for_each_bio_in_stack yields a path down the stack, each object with    *)
(* the decoder that was registered for it, and stops only where there is   *)
(* nothing below or nothing registered.                                    *)
(***************************************************************************)
StackDecoded == kind = "bios" => Stack!StackDecoded

(***************************************************************************)
(* The requests and statistics of a multiqueue queue are those of the tags *)
(* in use.                                                                 *)
(***************************************************************************)
RequestsRight == kind = "requests" => Queue!RequestsRight

(***************************************************************************)
(* "Return the next unset bit in the bitmap starting at position start,    *)
(* inclusive": the first call of a scan finds the first bit there is.      *)
(***************************************************************************)
NextIsFirstFromStart == kind = "bitmap" => Bits!NextIsFirstFromStart

(***************************************************************************)
(* Every walk ends: of a list in a memory that may hold any links, of a    *)
(* tree, the scan of a bitmap, of a stack of bios while decoders are being *)
(* registered, and of a queue.                                             *)
(***************************************************************************)
WalkEnds == <>(CASE kind = "list" -> pc = "done"
                 [] kind = "tree" -> treePc = "done"
                 [] kind = "bitmap" -> ended
                 [] kind = "bios" -> bioState \in {"done", "raised"}
                 [] kind = "requests" -> status \in {"read", "raised"})

=============================================================================
