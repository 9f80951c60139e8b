------------------------------ MODULE SlabCache ------------------------------
(***************************************************************************)
(* One kmem cache of the SLAB allocator as crash/types/slab.py reads it    *)
(* (KmemCacheSLAB, SlabSLAB), driven by the kmem command.                  *)
(*                                                                         *)
(* check_all goes through the three slab lists of each node, slab by slab, *)
(* and a list that turns out to be broken is read again from its end.  The *)
(* free objects that are kept in array caches are collected once and kept  *)
(* in array_caches, by check_all or by the first question about an object. *)
(***************************************************************************)
EXTENDS Integers, Sequences, FiniteSets, SequencesExt

CONSTANTS
    Slabs,          \* the slabs of the cache
    NObj,           \* objects per slab (the cache's num)
    Nodes,          \* the NUMA nodes
    CPUs,           \* the online CPUs; CPU n is on node n
    NULL,           \* a null pointer
    MaxCached,      \* bound on the objects in array caches, see CachedBound
    Flaws           \* what the dumps suffer from, see Variants

ASSUME SlabAssumption ==
    /\ IsFiniteSet(Slabs) /\ NULL \notin Slabs
    /\ NObj \in Nat \ {0} /\ MaxCached \in Nat
    /\ IsFiniteSet(Nodes) /\ Nodes # {} /\ Nodes \subseteq Nat /\ CPUs \subseteq Nodes
    /\ Flaws \subseteq {"none", "object", "slab", "link", "hole", "off"}

VARIABLES
    mem,            \* the dump
    page_slab,      \* SlabSLAB.page_slab: the struct slab is the struct page
    array_caches,   \* where the cached objects are, as pairs <<object, cache>>
    off_slab_cache, \* the cache the struct slabs are in, once known
    run,            \* the check_all in progress
    errors,         \* the kinds of errors reported
    said,           \* what the last question was answered
    outcome,        \* how the last command ended
    checks,         \* how often the last check_all has checked each slab
    printed         \* its summary lines: the slabs that were ok, and misplaced

vars == <<mem, page_slab, array_caches, off_slab_cache, run, errors, said,
          outcome, checks, printed>>

Types == 0..2
slab_partial == 0
slab_full == 1
slab_free == 2
Objs == Slabs \X (0..(NObj - 1))
ObjsOf(s) == {s} \X (0..(NObj - 1))
Heads == Nodes \X Types
Places == Slabs \cup Heads
ASSUME PlacesAssumption == Slabs \cap Heads = {} /\ NULL \notin Heads
\* A cache of free objects: whose it is, and the node of what it may hold.
PerCpu == {<<"percpu", c, c>> : c \in CPUs}
Shared == {<<"shared", n, n>> : n \in Nodes}
Alien == {<<"alien", x[1], x[2]>> : x \in {x \in Nodes \X Nodes : x[1] # x[2]}}
Allocated == <<"allocated", 0, 0>>
InSlab == <<"free", 0, 0>>
Caches == PerCpu \cup Shared \cup Alien
InOrder(S) == CHOOSE q \in [1..Cardinality(S) -> S] :
                  \A i, j \in DOMAIN q : i < j => q[i] < q[j]

-----------------------------------------------------------------------------
(***************************************************************************)
(* The dumps a kernel leaves.  An object is allocated, free in its slab or *)
(* in an array cache for the slab's node; a slab is on the list that its   *)
(* free objects call for.                                                  *)
(***************************************************************************)
FreeIn(obj, s) == InOrder({i \in 0..(NObj - 1) : obj[<<s, i>>] = InSlab})
UsedIn(obj, s) == InOrder({i \in 0..(NObj - 1) : obj[<<s, i>>] # InSlab})
TypeFor(obj, s) == LET n == Len(FreeIn(obj, s)) IN
    CASE n = 0 -> slab_full [] n = NObj -> slab_free [] OTHER -> slab_partial
Memory(nid, obj, isPage) ==
    LET home == [x \in Places |-> IF x \in Heads THEN x ELSE <<nid[x], TypeFor(obj, x)>>]
        list == [h \in Heads |-> SetToSeq({s \in Slabs : home[s] = h})]
        ring == [h \in Heads |-> <<h>> \o list[h]]
        turn(x, d) == LET r == ring[home[x]]
                          k == CHOOSE k \in DOMAIN r : r[k] = x
                      IN  r[((k - 1 + d) % Len(r)) + 1]
    IN  [isPage |-> isPage,
         next |-> [x \in Places |-> turn(x, 1)],
         prev |-> [x \in Places |-> turn(x, -1)],
         inuse |-> [s \in Slabs |-> Len(UsedIn(obj, s))],
         chain |-> [s \in Slabs |-> FreeIn(obj, s)],
         freelist |-> [s \in Slabs |-> UsedIn(obj, s) \o FreeIn(obj, s)],
         ac |-> [c \in Caches |-> SetToSeq({o \in Objs : obj[o] = c})],
         free_objects |-> [n \in Nodes |->
             Cardinality({o \in Objs : nid[o[1]] = n /\ obj[o] = InSlab})],
         nid |-> nid, obj |-> obj, list |-> list,
         pageNid |-> nid, slabFlag |-> Slabs, cachePtr |-> Slabs,
         slabPtr |-> [s \in Slabs |-> s],
         off_slab |-> FALSE, home |-> [s \in Slabs |-> "size-64"],
         absentPages |-> {}, absentBufctl |-> {},
         fault |-> <<"none", NULL>>]

(***************************************************************************)
(* The same dump with one thing wrong: with the objects, with a slab or    *)
(* its page, with a link of a list; or without some of its memory; or with *)
(* the struct slabs outside of the slabs.                                  *)
(***************************************************************************)
WithObjectFault(m) ==
    {[m EXCEPT !.ac[x[1]] = Append(@, x[2]), !.fault = <<"cached", x[2]>>] :
        x \in Caches \X {o \in Objs : Contains(m.chain[o[1]], o[2])}}
    \cup {[m EXCEPT !.ac[x[1]] = Append(@, x[2]), !.fault = <<"twice", x[2]>>] :
        x \in Caches \X UNION {Range(m.ac[c]) : c \in Caches}}
    \cup {[m EXCEPT !.chain[x[1]] = Append(@, x[2]), !.freelist[x[1]][NObj] = x[2],
                    !.fault = <<"index", x[1]>>] :
        x \in {x \in Slabs \X (0..NObj) :
            \/ x[2] = NObj /\ m.chain[x[1]] # <<>>
            \/ Len(m.chain[x[1]]) > 1 /\ x[2] = m.chain[x[1]][1]}}
WithSlabFault(m) ==
    {[m EXCEPT !.inuse[x[1]] = x[2], !.fault = <<"inuse", x[1]>>] :
        x \in {x \in Slabs \X (0..NObj) : x[2] # m.inuse[x[1]]}}
    \cup {[m EXCEPT !.free_objects[n] = @ + 1, !.fault = <<"declared", n>>] : n \in Nodes}
    \cup {[m EXCEPT !.pageNid[x[1]] = x[2], !.fault = <<"nid", x[1]>>] :
        x \in {x \in Slabs \X Nodes : x[2] # m.nid[x[1]]}}
    \cup {[m EXCEPT !.slabFlag = @ \ {s}, !.fault = <<"flag", s>>] : s \in Slabs}
    \cup {[m EXCEPT !.cachePtr = @ \ {s}, !.fault = <<"cache", s>>] : s \in Slabs}
    \cup (IF m.isPage THEN {} ELSE
          {[m EXCEPT !.slabPtr[x[1]] = x[2], !.fault = <<"owner", x[1]>>] :
              x \in {x \in Slabs \X Slabs : x[1] # x[2]}})
\* A wrong link is NULL or leads to a place of the same node.
NodeOf(m, x) == IF x \in Heads THEN x[1] ELSE m.nid[x]
Near(m) == {p \in Places \X (Places \cup {NULL}) :
               /\ \E s \in Slabs : NodeOf(m, p[1]) = m.nid[s]
               /\ p[2] # NULL => NodeOf(m, p[1]) = NodeOf(m, p[2])}
WithLink(m) ==
    {[m EXCEPT !.next[p[1]] = p[2], !.fault = <<"link", p[1]>>] :
        p \in {p \in Near(m) : p[2] # m.next[p[1]]}}
    \cup {[m EXCEPT !.prev[p[1]] = p[2], !.fault = <<"link", p[1]>>] :
        p \in {p \in Near(m) : p[2] # m.prev[p[1]]}}
WithHole(m) == {[m EXCEPT !.absentPages = {s}, !.fault = <<"hole", s>>] : s \in Slabs}
    \cup {[m EXCEPT !.absentBufctl = {s}, !.fault = <<"hole", s>>] :
        s \in {s \in Slabs : m.chain[s] # <<>>}}
\* CFLGS_OFF_SLAB: the struct slabs are objects of a cache for small objects.
WithOff(m) ==
    IF m.isPage THEN {[m EXCEPT !.off_slab = TRUE]} ELSE
    {[m EXCEPT !.off_slab = TRUE]}
    \cup {[m EXCEPT !.off_slab = TRUE, !.home[x[1]] = x[2], !.fault = <<"off", x[1]>>] :
        x \in Slabs \X {"size-128", "elsewhere", "shifted", "none"}}

Variants(m, flaw) ==
    CASE flaw = "none" -> {m} [] flaw = "object" -> WithObjectFault(m)
      [] flaw = "slab" -> WithSlabFault(m) [] flaw = "link" -> WithLink(m)
      [] flaw = "hole" -> WithHole(m) [] flaw = "off" -> WithOff(m)
Worlds == {w \in [Slabs -> Nodes] \X [Objs -> {Allocated, InSlab} \cup Caches] :
              \A o \in Objs : w[2][o] \in Caches => w[2][o][3] = w[1][o[1]]}
\* Bound on the objects in array caches: the links of the lists have nothing to
\* do with them, and only a fill that is cut short needs more than one.
CachedBound(flaw) == CASE flaw = "link" -> 0 [] flaw = "hole" -> MaxCached [] OTHER -> 1

-----------------------------------------------------------------------------
(***************************************************************************)
(* Which layout the slabs have: the callbacks of the types that exist run  *)
(* in the order they are registered.  Only older kernels have struct slab. *)
(***************************************************************************)
check_page_type(is) == IF is = FALSE THEN TRUE ELSE is
check_slab_type(is) == FALSE
LayoutSwapped(isPage) == check_page_type(IF isPage THEN FALSE ELSE check_slab_type(FALSE))
Layout(isPage) == LET page == check_page_type(FALSE)
                  IN  IF isPage THEN page ELSE check_slab_type(page)

NoRun == [nids |-> <<>>]
Init ==
    /\ \E w \in Worlds, isPage \in BOOLEAN, flaw \in Flaws :
           /\ Cardinality({o \in Objs : w[2][o] \in Caches}) <= CachedBound(flaw)
           /\ mem \in Variants(Memory(w[1], w[2], isPage), flaw)
    /\ page_slab = Layout(mem.isPage)
    /\ array_caches = {} /\ off_slab_cache = "unknown"
    /\ run = NoRun /\ errors = {} /\ said = {} /\ outcome = "none"
    /\ checks = [s \in Slabs |-> 0] /\ printed = [ok |-> 0, misplaced |-> 0]

\* A struct slab is read under the layout that was found.
Readable(s) == page_slab = mem.isPage /\ ~(mem.isPage /\ s \in mem.absentPages)

(***************************************************************************)
(* populate_free.  The free indices are the tail of an array of all, or a  *)
(* chain that is followed up to its end or to the first index that is bad. *)
(***************************************************************************)
Bad(seq, k) == seq[k] >= NObj \/ \E j \in 1..(k - 1) : seq[j] = seq[k]
FreeIndices(s) == IF page_slab THEN SubSeq(mem.freelist[s], mem.inuse[s] + 1, NObj)
                  ELSE mem.chain[s]
BadAt(s) == {k \in DOMAIN FreeIndices(s) : Bad(FreeIndices(s), k)}
FreeOf(s) ==
    LET taken == IF page_slab THEN DOMAIN FreeIndices(s) \ BadAt(s)
                 ELSE {k \in DOMAIN FreeIndices(s) : \A b \in BadAt(s) : k < b}
    IN  {<<s, FreeIndices(s)[k]>> : k \in taken}
PopulateErrors(s) == IF BadAt(s) # {} THEN {"index"} ELSE {}
PopulateRaises(s) == s \in mem.absentBufctl /\ FreeIndices(s) # <<>>

(***************************************************************************)
(* __fill_all_array_caches: the caches of the CPUs, then of each node the  *)
(* shared one and those for the objects of other nodes; the slots of each  *)
(* in order.  An object's page is read after the object is filed; where it *)
(* is missing the fill ends.                                               *)
(***************************************************************************)
Turn(e) == LET c == e[1] IN
    <<IF c[1] = "percpu" THEN 0 ELSE 1, c[2], IF c[1] = "alien" THEN c[3] + 1 ELSE 0, e[2]>>
Before(e, f) == \E i \in 1..4 : /\ Turn(e)[i] < Turn(f)[i]
                                /\ \A k \in 1..(i - 1) : Turn(e)[k] = Turn(f)[k]
Slots == UNION {{c} \X DOMAIN mem.ac[c] : c \in Caches}
Entry(e) == mem.ac[e[1]][e[2]]
Unreadable == {e \in Slots : Entry(e)[1] \in mem.absentPages}
FillRaises == Unreadable # {}
Reached == {e \in Slots : \A u \in Unreadable : ~Before(u, e)}
First(e) == \A f \in Slots : Before(f, e) => Entry(f) # Entry(e)
Filled == {<<Entry(e), e[1]>> : e \in {e \in Reached : First(e)}}
FillErrors ==
    (IF \E e \in Reached : ~First(e) THEN {"twice"} ELSE {})
    \cup (IF \E e \in Reached \ Unreadable : mem.pageNid[Entry(e)[1]] # e[1][3]
          THEN {"nid"} ELSE {})

\* get_array_caches fills what is empty; what is not is taken for complete.
NeedsFill == array_caches = {}
CachesKept == IF NeedsFill THEN {x \in Filled : x[2][1] # "alien"} ELSE array_caches
get_array_caches == IF NeedsFill THEN Filled ELSE array_caches
GetErrors == IF NeedsFill THEN FillErrors ELSE {}
GetRaises == NeedsFill /\ FillRaises
CachedObjs(ac) == {x[1] : x \in ac}

-----------------------------------------------------------------------------
(***************************************************************************)
(* SlabSLAB.check: what it reports about slab s on a list of node nid.     *)
(***************************************************************************)
OffSlabErrors(s) ==
    IF ~mem.off_slab \/ page_slab THEN {}
    ELSE CASE mem.home[s] = "none" -> {"off"}
           [] mem.home[s] = "shifted" -> {"off"}
           [] mem.home[s] = "elsewhere" -> {"off"}
           [] OTHER -> IF off_slab_cache \notin {"unknown", mem.home[s]}
                       THEN {"off"} ELSE {}
NextOffSlabCache(s) ==
    IF /\ mem.off_slab /\ ~page_slab /\ off_slab_cache = "unknown"
       /\ mem.home[s] \in {"size-64", "size-128", "shifted"}
    THEN IF mem.home[s] = "shifted" THEN "size-64" ELSE mem.home[s]
    ELSE off_slab_cache

Misplaced(s, type) ==
    LET n == Cardinality(FreeOf(s))
    IN  CASE type = slab_free -> n # NObj
          [] type = slab_partial -> n \in {0, NObj}
          [] type = slab_full -> n > 0

PageErrors(s, nid) ==
    IF s \in mem.absentPages THEN {"page"}
    ELSE (IF mem.pageNid[s] # nid THEN {"nid"} ELSE {})
         \cup (IF s \notin mem.slabFlag THEN {"flag"} ELSE {})
         \cup (IF s \notin mem.cachePtr THEN {"cache"} ELSE {})
         \cup (IF ~page_slab /\ mem.slabPtr[s] # s THEN {"owner"} ELSE {})

EarlyErrors(s, nid) ==
    PopulateErrors(s) \cup OffSlabErrors(s)
    \cup (IF mem.inuse[s] + Cardinality(FreeOf(s)) # NObj THEN {"sum"} ELSE {})
    \cup (IF page_slab /\ mem.pageNid[s] # nid THEN {"nid"} ELSE {})
CheckErrors(s, nid) ==
    EarlyErrors(s, nid)
    \cup (IF FreeOf(s) \cap CachedObjs(get_array_caches) # {} THEN {"cached"} ELSE {})
    \cup PageErrors(s, nid)

-----------------------------------------------------------------------------
(***************************************************************************)
(* check_all.  `run' holds its locals: the nodes left, the list and the    *)
(* direction, where list_for_each is, the free objects counted so far for  *)
(* the node, and the slabs since the last summary line.                    *)
(***************************************************************************)
head == <<Head(run.nids), run.type>>
Link(rev, x) == IF rev THEN mem.prev[x] ELSE mem.next[x]
Onward(x) == Link(run.rev, x)
Back(x) == Link(~run.rev, x)
Pass(nids, type, rev, free) ==
    LET h == <<Head(nids), type>>
        first == Link(rev, h)
    IN  [nids |-> nids, type |-> type, rev |-> rev, free |-> free,
         pc |-> IF first = NULL THEN "null" ELSE "walk",
         at |-> first, last |-> h, seen |-> {}, pending |-> FALSE,
         ok |-> 0, misplaced |-> 0]
Raise(e) == run' = NoRun /\ outcome' = "raised" /\ errors' = errors \cup e

CheckAll ==
    /\ run = NoRun
    /\ run' = Pass(InOrder(Nodes), slab_partial, FALSE, 0)
    /\ said' = {} /\ outcome' = "none" /\ checks' = [s \in Slabs |-> 0]
    /\ printed' = [ok |-> 0, misplaced |-> 0]
    /\ UNCHANGED <<mem, page_slab, array_caches, off_slab_cache, errors>>

\* The end of ___check_slabs: the summary lines, and on to what is next.
NoRetry(failed) ==
    IF run.type < slab_free THEN Pass(run.nids, run.type + 1, FALSE, run.free)
    ELSE [run EXCEPT !.pc = "node"]
Following(failed) ==
    IF failed /\ ~run.rev THEN Pass(run.nids, run.type, TRUE, run.free)
    ELSE IF run.type < slab_free THEN Pass(run.nids, run.type + 1, FALSE, run.free)
    ELSE [run EXCEPT !.pc = "node"]
EndPass(failed) ==
    /\ run' = Following(failed)
    /\ printed' = [ok |-> printed.ok + run.ok,
                   misplaced |-> printed.misplaced + run.misplaced]
    /\ errors' = errors \cup (IF failed THEN {"list"} ELSE {})
                        \cup (IF run.misplaced > 0 THEN {"misplaced"} ELSE {})

\* list_for_each comes back to the head, to a place it has seen, to a NULL link.
WalkEnds ==
    /\ run # NoRun /\ run.pc = "walk" /\ run.at = head
    /\ EndPass(run.pending)
    /\ UNCHANGED <<mem, page_slab, array_caches, off_slab_cache, said, outcome, checks>>
WalkFails ==
    /\ run # NoRun /\ run.pc = "walk" /\ run.at # head
    /\ run.at \in run.seen
    /\ EndPass(TRUE)
    /\ UNCHANGED <<mem, page_slab, array_caches, off_slab_cache, said, outcome, checks>>
\* A list_head that cannot be read raises a BufferError, which nobody catches.
WalkRaises ==
    /\ run # NoRun /\ run.pc = "walk" /\ run.at \in Slabs \ run.seen
    /\ ~Readable(run.at)
    /\ Raise({"exception"})
    /\ UNCHANGED <<mem, page_slab, array_caches, off_slab_cache, said, checks,
                   printed>>

\* After the body of the loop: the walk goes on, or ends at a NULL link.
GoOn(r) == IF Onward(run.at) = NULL
           THEN [r EXCEPT !.pc = "null"]
           ELSE [r EXCEPT !.at = Onward(run.at), !.last = run.at]
WalkNull ==
    /\ run # NoRun /\ run.pc = "null"
    /\ EndPass(TRUE)
    /\ UNCHANGED <<mem, page_slab, array_caches, off_slab_cache, said, outcome, checks>>
Entered == [run EXCEPT !.seen = @ \cup {run.at},
                       !.pending = @ \/ Back(run.at) # run.last]
Here == run # NoRun /\ run.pc = "walk" /\ run.at # head /\ run.at \notin run.seen

\* get_slabs_of_type steps over the head of another list.
SkipHead ==
    /\ Here /\ run.at \in Heads
    /\ run' = GoOn(Entered)
    /\ errors' = errors \cup {"wrong head"}
    /\ UNCHANGED <<mem, page_slab, array_caches, off_slab_cache, said, outcome,
                   checks, printed>>

(***************************************************************************)
(* __check_slab.  Slabs that are ok and slabs that are misplaced are only  *)
(* counted; a count is printed when a slab of another sort follows.  A     *)
(* slab whose check hits missing memory is left at that.                   *)
(***************************************************************************)
CheckCannot ==
    /\ Here /\ run.at \in Slabs /\ Readable(run.at)
    /\ \/ /\ PopulateRaises(run.at)
          /\ errors' = errors \cup {"check"}
          /\ UNCHANGED <<array_caches, off_slab_cache>>
       \/ /\ ~PopulateRaises(run.at) /\ GetRaises
          /\ errors' = errors \cup {"check"} \cup EarlyErrors(run.at, head[1])
                              \cup GetErrors
          /\ array_caches' = get_array_caches
          /\ off_slab_cache' = NextOffSlabCache(run.at)
    /\ run' = GoOn(Entered)
    /\ UNCHANGED <<mem, page_slab, said, outcome, checks, printed>>

FlushNever(bad, misplaced) == [ok |-> 0, misplaced |-> 0]
Flush(bad, misplaced) == [ok |-> IF bad THEN run.ok ELSE 0,
                          misplaced |-> IF misplaced THEN 0 ELSE run.misplaced]
CheckSlab ==
    /\ Here /\ run.at \in Slabs /\ Readable(run.at)
    /\ ~PopulateRaises(run.at) /\ ~GetRaises
    /\ LET s == run.at
           found == CheckErrors(s, head[1])
           misplaced == Misplaced(s, run.type)
           bad == found # {} \/ misplaced
           flush == Flush(bad, misplaced)
       IN  /\ errors' = errors \cup found \cup GetErrors
                        \cup (IF misplaced THEN {"misplaced"} ELSE {})
           /\ printed' = [ok |-> printed.ok + flush.ok,
                          misplaced |-> printed.misplaced + flush.misplaced]
           /\ run' = GoOn([Entered EXCEPT
                  !.free = @ + Cardinality(FreeOf(s)),
                  !.ok = IF bad THEN 0 ELSE @ + 1,
                  !.misplaced = IF misplaced THEN @ + 1 ELSE 0])
           /\ checks' = [checks EXCEPT ![s] = @ + 1]
    /\ array_caches' = get_array_caches
    /\ off_slab_cache' = NextOffSlabCache(run.at)
    /\ UNCHANGED <<mem, page_slab, said, outcome>>

(***************************************************************************)
(* The end of a node: its count is compared, and check_array_caches finds  *)
(* the slab of every cached object.  The message for one that it does not  *)
(* find cannot be formatted, which ends the command with a TypeError.      *)
(***************************************************************************)
Stray(s) == s \notin mem.slabFlag \/ mem.slabPtr[s] # s
Lost(s) == s \in mem.absentPages \/ s \notin mem.cachePtr
EndNode ==
    /\ run # NoRun /\ run.pc = "node"
    /\ LET mismatch == IF mem.free_objects[Head(run.nids)] # run.free
                       THEN {"mismatch"} ELSE {}
           cached == {o[1] : o \in CachedObjs(get_array_caches)}
       IN  IF GetRaises \/ (\E s \in cached : Stray(s) \/ Lost(s))
           THEN Raise(mismatch \cup GetErrors \cup {"exception"})
           ELSE /\ errors' = errors \cup mismatch \cup GetErrors
                /\ run' = IF Len(run.nids) = 1 THEN NoRun
                          ELSE Pass(Tail(run.nids), slab_partial, FALSE, 0)
                /\ outcome' = IF Len(run.nids) = 1 THEN "checked" ELSE outcome
    /\ array_caches' = get_array_caches
    /\ UNCHANGED <<mem, page_slab, off_slab_cache, said, checks, printed>>

-----------------------------------------------------------------------------
(***************************************************************************)
(* kmem addr: the slab is found through the page, and obj_in_use looks at  *)
(* the slab's free objects first and at the array caches then.             *)
(***************************************************************************)
SlabFound(s) == ~Lost(s) /\ s \in mem.slabFlag /\ Readable(mem.slabPtr[s])
Reset == /\ checks' = [s \in Slabs |-> 0]
         /\ printed' = [ok |-> 0, misplaced |-> 0]
Ask(o) ==
    /\ run = NoRun /\ SlabFound(o[1])
    /\ LET s == o[1] IN
       \/ /\ mem.slabPtr[s] # s
          /\ said' = {} /\ outcome' = "invalid"
          /\ UNCHANGED <<array_caches, errors>>
       \/ /\ mem.slabPtr[s] = s /\ PopulateRaises(s)
          /\ said' = {} /\ outcome' = "raised" /\ errors' = errors \cup {"exception"}
          /\ UNCHANGED array_caches
       \/ /\ mem.slabPtr[s] = s /\ ~PopulateRaises(s) /\ o \in FreeOf(s)
          /\ said' = {<<o, FALSE>>} /\ outcome' = "asked"
          /\ errors' = errors \cup PopulateErrors(s)
          /\ UNCHANGED array_caches
       \/ /\ mem.slabPtr[s] = s /\ ~PopulateRaises(s) /\ o \notin FreeOf(s)
          /\ array_caches' = get_array_caches
          /\ errors' = errors \cup PopulateErrors(s) \cup GetErrors
                       \cup (IF GetRaises THEN {"exception"} ELSE {})
          /\ said' = IF GetRaises THEN {}
                     ELSE {<<o, o \notin CachedObjs(get_array_caches)>>}
          /\ outcome' = IF GetRaises THEN "raised" ELSE "asked"
    /\ Reset
    /\ UNCHANGED <<mem, page_slab, off_slab_cache, run>>

(***************************************************************************)
(* get_allocated_objects goes through the partial and the full lists of    *)
(* the nodes.  (What list_for_each does with a broken list and no exact    *)
(* detection of cycles is ListWalk's subject.)                             *)
(***************************************************************************)
Listed == {s \in Slabs : \E n \in Nodes, t \in {slab_partial, slab_full} :
                             Contains(mem.list[<<n, t>>], s)}
GetAllocatedObjects ==
    /\ run = NoRun /\ mem.fault[1] \notin {"link", "hole"}
    /\ LET candidates == UNION {ObjsOf(s) \ FreeOf(s) : s \in Listed}
           ac == IF candidates = {} THEN array_caches ELSE get_array_caches
       IN  /\ said' = {<<o, TRUE>> : o \in candidates \ CachedObjs(ac)}
           /\ array_caches' = ac
           /\ errors' = errors \cup (UNION {PopulateErrors(s) : s \in Listed})
                        \cup (IF candidates = {} THEN {} ELSE GetErrors)
    /\ outcome' = "listed" /\ Reset
    /\ UNCHANGED <<mem, page_slab, off_slab_cache, run>>

Step == \/ WalkEnds \/ WalkFails \/ WalkRaises \/ WalkNull \/ SkipHead
        \/ CheckCannot \/ CheckSlab \/ EndNode
Next == CheckAll \/ (\E o \in Objs : Ask(o)) \/ GetAllocatedObjects \/ Step
Spec == Init /\ [][Next]_vars

-----------------------------------------------------------------------------
(***************************************************************************)
(* An object is said to be allocated exactly if it is neither free in its  *)
(* slab nor in an array cache, and get_allocated_objects yields them all:  *)
(* whichever layout, whichever cache, whatever was asked before.  What     *)
(* goes wrong: once the collection of the caches has been cut short by a   *)
(* missing page, the objects behind that place are taken for allocated.    *)
(***************************************************************************)
CutOff(o) == /\ FillRaises /\ o \in {Entry(e) : e \in Slots}
             /\ o \notin CachedObjs(Filled)
AllocatedRight ==
    mem.fault[1] \notin {"index", "inuse"} =>
        /\ \A a \in said : \/ a[2] = (mem.obj[a[1]] = Allocated)
                           \/ a[2] /\ CutOff(a[1])
        /\ outcome = "listed" =>
               \A o \in Objs : mem.obj[o] = Allocated => <<o, TRUE>> \in said

\* The list that x is on; the place that the link of x should lead to; whether
\* that is the wrong link of the dump, and leads back to the list's own head.
Own(x) == IF x \in Heads THEN x ELSE <<mem.nid[x], TypeFor(mem.obj, x)>>
Rightful(x) == LET ring == <<Own(x)>> \o mem.list[Own(x)]
                   k == CHOOSE k \in DOMAIN ring : ring[k] = x
               IN  ring[(k % Len(ring)) + 1]
NextWrong == mem.fault[1] = "link" /\ mem.next[mem.fault[2]] # Rightful(mem.fault[2])
ClosedEarly == NextWrong /\ mem.next[mem.fault[2]] = Own(mem.fault[2])

(***************************************************************************)
(* Nothing is reported, and nothing raised, for a consistent cache, and a  *)
(* check_all that ends has reported the fault of the dump.  A struct slab  *)
(* in the other of the two caches for small objects is noticed only when a *)
(* second slab disagrees.  A wrong link is reported as a broken list, with *)
(* two exceptions: a next that leads back to the list's own head closes    *)
(* the list early, and the prev of a head is read only if the list has to  *)
(* be read again.                                                          *)
(***************************************************************************)
LinkNoticed == \/ ClosedEarly
               \/ ~NextWrong /\ mem.fault[2] \in Heads
               \/ "list" \in errors
FaultsJudged ==
    /\ mem.fault[1] = "none" => errors = {}
    /\ outcome \in {"checked", "raised"} /\ checks # [s \in Slabs |-> 0] =>
           CASE mem.fault[1] = "none" -> TRUE
             [] mem.fault[1] = "link" -> LinkNoticed
             [] mem.fault[1] = "off" /\ mem.home[mem.fault[2]] = "size-128" ->
                   Cardinality(Slabs) > 1 => "off" \in errors
             [] OTHER -> errors # {}

(***************************************************************************)
(* With one wrong link anywhere in the lists, reading a broken list again  *)
(* from its end reaches every slab, so that each is checked once or twice: *)
(* unless a wrong next leads back to the list's own head, which no check   *)
(* can see.  In sound lists each slab is checked, and its free objects are *)
(* counted, once.                                                          *)
(***************************************************************************)
RetryReachesAll ==
    outcome = "checked" =>
        \A s \in Slabs :
            /\ mem.fault[1] = "link" => checks[s] \in (IF ClosedEarly THEN 0 ELSE 1)..2
            /\ mem.fault[1] = "none" => checks[s] = 1

(***************************************************************************)
(* The summary lines of a check_all account for every slab that was ok and *)
(* every slab that was misplaced.                                          *)
(***************************************************************************)
Checked == Cardinality(UNION {{s} \X (1..checks[s]) : s \in Slabs})
ReportsAddUp ==
    outcome = "checked" /\ mem.fault[1] \in {"none", "link"} =>
        printed.ok + printed.misplaced = Checked

=============================================================================
