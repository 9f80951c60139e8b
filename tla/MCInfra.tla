------------------------------- MODULE MCInfra -------------------------------
(***************************************************************************)
(* The registry of callbacks and the lookups that it serves, for TLC.      *)
(* `kind' says which of the two this behaviour is about; the variables of  *)
(* the other keep their initial values.                                    *)
(*                                                                         *)
(* The collections of DelayedLookup.  The types: a structure declared      *)
(* plain and as a pointer, and a typedef that shares the structure's       *)
(* attribute name, the way crash/types/slab.py declares kmem_cache.  The   *)
(* symbols and the symbol values: two names, one of them declared twice.   *)
(***************************************************************************)
EXTENDS MCObjfileCallbacks, DelayedLookup

VARIABLE kind

allVars == <<kind, vars, lookupVars>>

Declare(tag, id, pointer) == [tag |-> tag, id |-> id, pointer |-> pointer]
Plain(id) == Declare("", id, FALSE)

MCTypes == << Plain("cache"), Declare("struct", "cache", FALSE),
              Declare("struct", "cache", TRUE) >>
MCSymbols == << Plain("jiffies"), Plain("jiffies_64"), Plain("jiffies") >>
MCSpecs == [DelayedType |-> MCTypes, DelayedSymbol |-> MCSymbols,
            DelayedSymval |-> MCSymbols]
MCOverrides == [DelayedType   |-> {MCTypes[2], MCTypes[3], Declare("enum", "cache", FALSE),
                                   Declare("", "cache", TRUE)},
                DelayedSymbol |-> {MCSymbols[1], MCSymbols[2]},
                DelayedSymval |-> {MCSymbols[1], MCSymbols[2]}]

MCInit ==
    /\ kind \in {"registry", "lookup"}
    /\ Init
    /\ LookupInit
    /\ kind = "registry" => cls = "DelayedSymbol" /\ ~wait_for_target

OnlyRegistry == kind = "registry" /\ UNCHANGED <<kind, lookupVars>>
OnlyLookup == kind = "lookup" /\ UNCHANGED <<kind, vars>>

MCNext ==
    \/ OnlyRegistry /\ Calls
    \/ OnlyRegistry /\ Steps
    \/ OnlyLookup /\ LookupNext

(***************************************************************************)
(* A call in progress goes on, as in FairSpec and FairLookupSpec.          *)
(***************************************************************************)
MCSpec ==
    /\ MCInit /\ [][MCNext]_allVars
    /\ WF_allVars(OnlyRegistry /\ Steps)
    /\ WF_allVars(OnlyLookup /\ Turn)

=============================================================================
