-------------------------------- MODULE Pages --------------------------------
(***************************************************************************)
(* The struct pages of the dump: crash/types/page.py, and what node.py,    *)
(* zone.py and vmstat.py read with their help.                             *)
(*                                                                         *)
(* Where the struct pages are and how a page's node, zone and compound     *)
(* head are found differs between kernels.  The class Page learns it from  *)
(* callbacks: those of the types run when the kernel's symbols are loaded, *)
(* those of symbols later, when its memory can be read.                    *)
(***************************************************************************)
EXTENDS Integers, Sequences, FiniteSets, SequencesExt

CONSTANTS
    MaxPfn,         \* the pages are 0 .. MaxPfn - 1
    Bits,           \* the width of page flags (BITS_PER_LONG)
    NodesShift,     \* CONFIG_NODES_SHIFT
    ZoneCounts      \* what __MAX_NR_ZONES may be

ConstantsOK == /\ MaxPfn \in Nat \ {0} /\ Bits \in Nat /\ NodesShift \in Nat
               /\ ZoneCounts \subseteq Nat \ {0}

VARIABLES
    kernel,         \* the kernel of the dump
    Page,           \* the attributes of the class Page
    nids_possible, nids_online,     \* the attributes of NodeStates
    loaded,         \* the in-kernel configuration has been read
    reported        \* what the last `kmem -z' reports about a zone

vars == <<kernel, Page, nids_possible, nids_online, loaded, reported>>

Pfns == 0..(MaxPfn - 1)
StructSize == 4                 \* sizeof(struct page)
SmallPage == 6                  \* 4K, and 64K
LargePage == 12
SectionSize == 3                \* sizeof(struct mem_section)
DefaultVmemmap == 1000
DefaultDirectmap == 5000
PpcDirectmap == 7000
PagesPerSection == 1
Unset == -1

-----------------------------------------------------------------------------
(***************************************************************************)
(* The kernels.  `compound' gives each page the head of its compound page. *)
(* `config' says what becomes of reading NODES_SHIFT: it is in the         *)
(* configuration, it is not, the data are no configuration, they cannot be *)
(* located for want of symbols, or the kernel has none.  `area' is an area *)
(* of free pages in one zone: the pages on its lists, the lists that       *)
(* cannot be read to the end, by which error, and nr_free.                 *)
(***************************************************************************)
Compounds == {f \in [Pfns -> Pfns] : \A p \in Pfns : f[p] <= p /\ f[f[p]] = f[p]}
NoArea == [lists |-> <<<<>>, <<>>>>, cut |-> {}, by |-> "BufferError", nr_free |-> 0]
Configs == {"shift", "no shift", "no config", "untyped", "bad magic"}
PageKernels ==
    [arch : {"x86", "ppc64"}, head : {"first_page", "compound_head"},
     tailFlag : BOOLEAN, compound : Compounds, moved : BOOLEAN,
     zones : ZoneCounts, config : Configs, nids : {{0, 1}},
     unpopulated : {{}}, where : {<<0, 0>>}, area : {NoArea}]
TwoLists == {<<<<t[1]>>, <<t[2], t[3]>>>> : t \in Pfns \X Pfns \X Pfns}
Areas == ({"shift"} \X [lists : TwoLists, cut : SUBSET {1, 2},
                        by : {"BufferError", "CorruptListError"}, nr_free : 1..3])
         \cup (Configs \X [lists : TwoLists, cut : {{}, {1}},
                            by : {"BufferError"}, nr_free : {3}])
AreaKernels ==
    {[arch |-> "x86", head |-> "compound_head", tailFlag |-> FALSE,
      compound |-> [p \in Pfns |-> p], moved |-> FALSE, zones |-> Max(ZoneCounts),
      config |-> a[1], nids |-> {0, 1}, unpopulated |-> (IF empty THEN {z} ELSE {}),
      where |-> z, area |-> a[2]] :
        a \in Areas, z \in {<<0, 1>>, <<1, 3>>}, empty \in BOOLEAN}
Kernels == {k \in PageKernels \cup AreaKernels :
               /\ k.tailFlag => k.head = "first_page"
               /\ k.arch = "ppc64" => ~k.moved}

\* How a kernel of this sort lays out a page: its node and zone, its flags.
Width(n) == CHOOSE w \in 0..8 : 2 ^ w >= n /\ (w > 0 => 2 ^ (w - 1) < n)
PageSize == IF kernel.arch = "ppc64" THEN LargePage ELSE SmallPage
StructBase == IF kernel.moved THEN 2000 ELSE DefaultVmemmap
DirectBase == IF kernel.arch = "ppc64" THEN PpcDirectmap
              ELSE IF kernel.moved THEN 6000 ELSE DefaultDirectmap
StructOf(p) == StructBase + p * StructSize
NodeOf(p) == IF p >= MaxPfn \div 2 THEN 1 ELSE 0
ZoneOf(p) == p % kernel.zones
KernelShift == IF kernel.config = "no shift" THEN 0 ELSE NodesShift
IsTail(p) == kernel.compound[p] # p
Combo == {"PG_compound", "PG_reclaim"}
\* A head has PG_compound, any page may be about to be reclaimed.
FlagsOf(p) == IF IsTail(p) THEN (IF kernel.tailFlag THEN {"PG_tail"} ELSE Combo)
              ELSE IF \E q \in Pfns : kernel.compound[q] = p /\ q # p
              THEN {"PG_compound"} ELSE {"PG_reclaim"}
\* page->flags, above the flags proper, of which a free page has none.
Field(p) == (IF KernelShift = 0 THEN 0 ELSE NodeOf(p) * 2 ^ (Bits - KernelShift))
            + ZoneOf(p) * 2 ^ (Bits - KernelShift - Width(kernel.zones))
\* page->compound_head, with the low bit set in a tail page.
HeadField(p) == IF IsTail(p) THEN StructOf(kernel.compound[p]) + 1 ELSE 0

NoReport == [visited |-> {}, errors |-> <<>>, raised |-> FALSE]
InitPage ==
    [PAGE_SIZE |-> SmallPage, vmemmap_base |-> DefaultVmemmap, vmemmap |-> Unset,
     directmap_base |-> DefaultDirectmap, sparsemem |-> FALSE,
     SECTIONS_PER_ROOT |-> Unset, compound_head_name |-> "none",
     flagsKnown |-> FALSE, typeKnown |-> FALSE, finished |-> FALSE,
     is_tail |-> "none", compound_head |-> "none",
     ZONES_WIDTH |-> Unset, NODES_WIDTH |-> Unset, BITS_PER_LONG |-> Unset]
Start ==
    /\ Page = InitPage
    /\ nids_possible = {} /\ nids_online = {}
    /\ loaded = FALSE /\ reported = NoReport
-----------------------------------------------------------------------------
(***************************************************************************)
(* The callbacks of the types, as functions on the attributes of Page.     *)
(* Whichever of struct page and enum pageflags comes second goes on to     *)
(* setup_pageflags_finish.                                                 *)
(***************************************************************************)
setup_pageflags_finish(c) ==
    LET tail == IF kernel.tailFlag THEN "flag"
                ELSE IF c.compound_head_name = "first_page" THEN "combo" ELSE "low bit"
    IN  [c EXCEPT !.finished = TRUE, !.is_tail = tail,
                  !.compound_head = IF c.compound_head_name = "first_page"
                                    THEN "first_page" ELSE "low bit"]
FinishIfDone(c) == IF c.typeKnown /\ c.flagsKnown /\ ~c.finished
                   THEN setup_pageflags_finish(c) ELSE c
setup_page_type(c) ==
    LET ppc == kernel.arch = "ppc64"
    IN  FinishIfDone([c EXCEPT
            !.PAGE_SIZE = IF ppc THEN LargePage ELSE SmallPage,
            !.directmap_base = IF ppc THEN PpcDirectmap ELSE @,
            !.sparsemem = ppc, !.compound_head_name = kernel.head,
            !.vmemmap = IF @ = Unset THEN c.vmemmap_base ELSE @,
            !.typeKnown = TRUE])
setup_pageflags(c) == FinishIfDone([c EXCEPT !.flagsKnown = TRUE])
setup_zone_type(c) == [c EXCEPT !.ZONES_WIDTH = Width(kernel.zones)]
setup_mem_section(c) == [c EXCEPT !.SECTIONS_PER_ROOT = c.PAGE_SIZE \div SectionSize]

TypesReversed == setup_page_type(setup_pageflags(setup_zone_type(setup_mem_section(Page))))
TypesSetUp == setup_mem_section(setup_zone_type(setup_pageflags(setup_page_type(Page))))
SetupTypes ==
    /\ Page' = TypesSetUp
    /\ UNCHANGED <<kernel, nids_possible, nids_online, loaded, reported>>

(***************************************************************************)
(* setup_nodes_width.  A configuration without NODES_SHIFT gives None,     *)
(* which int() does not take: the TypeError is not one of the errors that  *)
(* are caught, and neither is the IOError of data without the magic marks. *)
(* The DelayedAttributeError of data that cannot be located is caught.     *)
(***************************************************************************)
AssumedWidth == 8
NodesWidthRaises == kernel.config \in {"no shift", "bad magic"}
WithNodesWidth(c) ==
    IF kernel.config = "no config" THEN c
    ELSE [c EXCEPT !.NODES_WIDTH = IF kernel.config = "untyped" THEN AssumedWidth
                                   ELSE NodesShift,
                   !.BITS_PER_LONG = Bits]
\* setup_vmemmap_base and setup_directmap_base, where the kernel has the symbols.
WithBases(c) == IF ~kernel.moved THEN c
                ELSE [c EXCEPT !.vmemmap_base = 2000, !.vmemmap = 2000,
                               !.directmap_base = 6000]
SetupSymbols ==
    /\ ~NodesWidthRaises
    /\ Page' = WithBases(WithNodesWidth(Page))
    /\ loaded' = (loaded \/ kernel.config = "shift")
    /\ UNCHANGED <<kernel, nids_possible, nids_online, reported>>
\* The exception goes to whoever runs the callbacks.
SetupSymbolsRaises ==
    /\ NodesWidthRaises
    /\ loaded' = (loaded \/ kernel.config = "no shift")
    /\ UNCHANGED <<kernel, Page, nids_possible, nids_online, reported>>

setup_node_states ==
    /\ nids_possible' = kernel.nids /\ nids_online' = kernel.nids
    /\ UNCHANGED <<kernel, Page, loaded, reported>>

-----------------------------------------------------------------------------
(***************************************************************************)
(* From an address of the direct map to a struct page and back.  With      *)
(* sparsemem the page is found through the table of sections, which the    *)
(* kernel has laid out for its page size; NULL where it has no entry.      *)
(***************************************************************************)
NULL == 0
KernelRoots == PageSize \div SectionSize
SectionAt(root, offset) == root * KernelRoots + offset
pfn_to_page(p) ==
    IF ~Page.sparsemem THEN Page.vmemmap + p * StructSize
    ELSE LET nr == p \div PagesPerSection
             root == nr \div Page.SECTIONS_PER_ROOT
             offset == nr % Page.SECTIONS_PER_ROOT
         IN  IF nr = SectionAt(root, offset) THEN StructOf(p) ELSE NULL
page_from_addr(addr) == pfn_to_page((addr - Page.directmap_base) \div Page.PAGE_SIZE)
page_addr(struct) == Page.directmap_base
                     + ((struct - Page.vmemmap_base) \div StructSize) * Page.PAGE_SIZE

\* is_tail and compound_head, one way for each sort of kernel.
is_tail(p) == CASE Page.is_tail = "flag"    -> "PG_tail" \in FlagsOf(p)
                [] Page.is_tail = "combo"   -> Combo \subseteq FlagsOf(p)
                [] Page.is_tail = "low bit" -> HeadField(p) % 2 = 1
compound_head(p) ==
    IF ~is_tail(p) THEN StructOf(p)
    ELSE IF Page.compound_head = "first_page" THEN StructOf(kernel.compound[p])
    ELSE HeadField(p) - 1

\* Without a width the shifts are made of the -1 of the class; Python does not
\* shift by a negative number.
NidShift == Page.BITS_PER_LONG - Page.NODES_WIDTH
ZidShift == NidShift - Page.ZONES_WIDTH
ShiftRaises == ZidShift < 0
get_nid(p) == Field(p) \div 2 ^ NidShift
get_zid(p) == (Field(p) \div 2 ^ ZidShift) % 2 ^ Page.ZONES_WIDTH

(***************************************************************************)
(* Zone._check_free_area for one zone: the pages are counted and each      *)
(* compared with the zone.  A list that cannot be read (cut) is left after *)
(* what was read of it, here all but its last page; a BufferError is       *)
(* reported and the next list taken, any other error leaves the command.   *)
(***************************************************************************)
AreaOf(zone) == IF zone = kernel.where THEN kernel.area ELSE NoArea
ReadOf(a, k) == IF k \in a.cut THEN Front(a.lists[k]) ELSE a.lists[k]
ListRaises(a, k) == \/ ReadOf(a, k) # <<>> /\ ShiftRaises
                    \/ k \in a.cut /\ a.by # "BufferError"
ListsTried(a) == {k \in {1, 2} : \A l \in 1..(k - 1) : ~ListRaises(a, l)}
AreaRaises(a) == \E k \in {1, 2} : ListRaises(a, k)
Misplaced(p, zone) == get_nid(p) # zone[1] \/ get_zid(p) # zone[2]
Count(a) == Len(ReadOf(a, 1)) + Len(ReadOf(a, 2))
_check_free_area(zone) ==
    LET a == AreaOf(zone)
    IN  {e \in {"misplaced", "traversing", "mismatch"} :
            CASE e = "misplaced"  -> ~ShiftRaises /\ \E k \in ListsTried(a) :
                                         \E p \in Range(ReadOf(a, k)) : Misplaced(p, zone)
              [] e = "traversing" -> \E k \in ListsTried(a) \cap a.cut : ~ListRaises(a, k)
              [] e = "mismatch"   -> ~AreaRaises(a) /\ Count(a) # a.nr_free}

(***************************************************************************)
(* print_zones: the zones of all nodes in order, as far as no exception    *)
(* ends it; without node_states there is one at once.                      *)
(***************************************************************************)
Zones == nids_possible \X (0..(kernel.zones - 1))
ZoneRaises(zone) == zone \notin kernel.unpopulated /\ AreaRaises(AreaOf(zone))
Before(y, z) == y[1] < z[1] \/ (y[1] = z[1] /\ y[2] < z[2])
Visited == {z \in Zones : \A y \in Zones : Before(y, z) => ~ZoneRaises(y)}
print_zones ==
    /\ reported' = [visited |-> Visited,
                    errors  |-> [z \in Visited |-> IF z \in kernel.unpopulated THEN {}
                                                  ELSE _check_free_area(z)],
                    raised  |-> Zones = {} \/ \E z \in Zones : ZoneRaises(z)]
    /\ UNCHANGED <<kernel, Page, nids_possible, nids_online, loaded>>

-----------------------------------------------------------------------------
(***************************************************************************)
(* Once the callbacks have run, every page is found from its address and,  *)
(* where struct pages are an array, its address from the page; a page's    *)
(* compound head is found in every sort of kernel.                         *)
(***************************************************************************)
PagesFound ==
    \A p \in Pfns :
        /\ page_from_addr(DirectBase + p * PageSize + 1) = StructOf(p)
        /\ kernel.arch = "x86" => page_addr(StructOf(p)) = DirectBase + p * PageSize
        /\ compound_head(p) = StructOf(kernel.compound[p])

\* With the widths from the configuration a page's node and zone are right.
ZonesFound == \A p \in Pfns : get_nid(p) = NodeOf(p) /\ get_zid(p) = ZoneOf(p)

(***************************************************************************)
(* What `kmem -z' tells: a zone is passed without a word exactly if its    *)
(* free pages are all there and are its own, and every zone is gone        *)
(* through unless the lists of one are corrupt.                            *)
(***************************************************************************)
AllPages(a) == a.lists[1] \o a.lists[2]
Sound(zone) == LET a == AreaOf(zone)
               IN  /\ a.cut = {} /\ Len(AllPages(a)) = a.nr_free
                   /\ \A p \in Range(AllPages(a)) : <<NodeOf(p), ZoneOf(p)>> = zone
Corrupt(zone) == /\ zone \notin kernel.unpopulated
                 /\ AreaOf(zone).cut # {} /\ AreaOf(zone).by # "BufferError"
AreaJudged ==
    reported # NoReport =>
        /\ \A z \in reported.visited \ kernel.unpopulated :
               IF Corrupt(z) THEN reported.raised
               ELSE Sound(z) <=> reported.errors[z] = {}
        /\ reported.raised => \E z \in reported.visited : Corrupt(z)
        /\ ~reported.raised => reported.visited = kernel.nids \X (0..(kernel.zones - 1))
=============================================================================
