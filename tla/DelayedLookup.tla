---------------------------- MODULE DelayedLookup ----------------------------
(***************************************************************************)
(* The delayed lookups of crash/infra/lookup.py and their containers in    *)
(* crash/util/symbols.py.  A collection (Types, Symvals, ...) holds one    *)
(* DelayedValue per declaration, filed in the dictionary `attrs' under its *)
(* attribute name and under its real name.  The registry of                *)
(* ObjfileCallbacks calls each DelayedValue back once its name can be      *)
(* looked up; code reads the collection by item or by attribute, before    *)
(* and after that, and may override a value.                               *)
(*                                                                         *)
(* A read through `get' also leaves the value in an instance attribute of  *)
(* the collection, where Python finds it without calling __getattr__.      *)
(***************************************************************************)
EXTENDS Integers, Sequences, FiniteSets, FiniteSetsExt

CONSTANTS
    Specs,          \* Specs[c]: the declarations of a collection of class c, in order
    OverrideSpecs,  \* OverrideSpecs[c]: the declarations that callers override
    Alternatives    \* where the values they pass come from

Classes == {"DelayedType", "DelayedSymbol", "DelayedMinimalSymbol",
            "DelayedSymval", "DelayedMinimalSymval"}

Declarations == [tag : STRING, id : STRING, pointer : BOOLEAN]
SpecsOK ==
    /\ DOMAIN Specs \subseteq Classes /\ DOMAIN OverrideSpecs = DOMAIN Specs
    /\ \A c \in DOMAIN Specs : /\ Specs[c] \in Seq(Declarations)
                              /\ OverrideSpecs[c] \subseteq Declarations
ASSUME SpecsAssumption == SpecsOK
\* A caller's value is told from the one in gdb's tables.
ASSUME AlternativesAssumption == "gdb" \notin Alternatives

VARIABLES
    cls,            \* the class of the delayed values of this collection
    unreadable,     \* the symbols whose memory the target cannot read
    wait_for_target,\* the collection's callbacks wait for the target
    targetOpen,     \* a kernel target has been opened
    heldBack,       \* the registry is paused
    available,      \* the names gdb can look up in the loaded object files
    due,            \* the declarations that the registry is about to evaluate
    value,          \* value[i]: DelayedValue.value of the i-th declaration
    done,           \* the declarations whose callback has completed
    cached,         \* the instance attributes get() has set
    overridden      \* history: the declarations override() has written

lookupWorld == <<cls, unreadable, wait_for_target>>
registry == <<targetOpen, heldBack, available, due>>
lookupVars == <<cls, unreadable, wait_for_target, targetOpen, heldBack, available,
                due, value, done, cached, overridden>>

Entries == 1..Len(Specs[cls])

(***************************************************************************)
(* TypeCallback.resolve_type.  A declaration `tag id *' gives the name     *)
(* `tag id' with the star removed, and the attribute name made of the id,  *)
(* prefixed by the tag unless that is `struct', and the suffix that tells  *)
(* pointers from other types.                                              *)
(***************************************************************************)
resolve_type(s) ==
    [name     |-> <<s.tag, s.id>>,
     attrname |-> <<IF s.tag = "struct" THEN "" ELSE s.tag, s.id,
                    IF s.pointer THEN "_p_type" ELSE "_type">>,
     pointer  |-> s.pointer]

(***************************************************************************)
(* The names of the DelayedValues of a collection of class c: only types   *)
(* have an attribute name of their own.                                    *)
(***************************************************************************)
ResolvedOf ==
    [c \in DOMAIN Specs |-> [i \in 1..Len(Specs[c]) |->
        LET s == Specs[c][i]
        IN  IF c = "DelayedType" THEN resolve_type(s)
            ELSE [name |-> <<s.tag, s.id>>, attrname |-> <<s.tag, s.id>>,
                  pointer |-> FALSE]]]
FiledUnder(c, i) == {ResolvedOf[c][i].name, ResolvedOf[c][i].attrname}
NamesOf == [c \in DOMAIN Specs |-> {ResolvedOf[c][i].name : i \in 1..Len(Specs[c])}]
KeysOf == [c \in DOMAIN Specs |-> UNION {FiledUnder(c, i) : i \in 1..Len(Specs[c])}]

(***************************************************************************)
(* DelayedCollection.__init__: the last declaration filed under a key      *)
(* replaces the ones before it.                                            *)
(***************************************************************************)
AttrsOf == [c \in DOMAIN Specs |-> [k \in KeysOf[c] |->
               Max({i \in 1..Len(Specs[c]) : k \in FiledUnder(c, i)})]]

Name(i) == ResolvedOf[cls][i].name
Names == NamesOf[cls]
Keys == KeysOf[cls]
attrs == AttrsOf[cls]

(***************************************************************************)
(* Values.  What the symbol table holds for a name, a pointer to it, or    *)
(* something a caller supplied.                                            *)
(***************************************************************************)
None == [none |-> TRUE]
Found(i) == [of |-> Name(i), pointer |-> ResolvedOf[cls][i].pointer, from |-> "gdb"]
Supplied(n, a) == [of |-> n, pointer |-> FALSE, from |-> a]

(***************************************************************************)
(* DelayedValue.__init__ and DelayedCollection.__init__.  The constructor  *)
(* of a callback connects it, which evaluates it if there is an object     *)
(* file and it need not wait: for a collection made later than the first   *)
(* object file, Load or TargetReady comes first.                           *)
(***************************************************************************)
Served == targetOpen \/ ~wait_for_target
Waiting == Entries \ done
LookupInit ==
    /\ cls \in DOMAIN Specs
    /\ unreadable \in IF cls = "DelayedSymval" THEN SUBSET Names ELSE {{}}
    /\ wait_for_target \in BOOLEAN
    /\ targetOpen = FALSE /\ heldBack = FALSE
    /\ available = {} /\ due = {}
    /\ value = [i \in Entries |-> None]
    /\ done = {}
    /\ cached = [k \in Keys |-> None]
    /\ overridden = {}

(***************************************************************************)
(* What the registry of ObjfileCallbacks does, seen from a collection:     *)
(* evaluate_all, when an object file that defines the names S is loaded    *)
(* and at the end of a pause, and target_ready, paused or not.  A call     *)
(* ends before the next one is made: calls from within a callback are the  *)
(* subject of ObjfileCallbacks, and those of a DelayedValue make none.     *)
(***************************************************************************)
Load(S) ==
    /\ due = {} /\ S # {} /\ S \subseteq Names \ available
    /\ available' = available \cup S
    /\ due' = IF Served /\ ~heldBack THEN Waiting ELSE {}
    /\ UNCHANGED <<lookupWorld, targetOpen, heldBack, value, done, cached, overridden>>
TargetReadyOnly ==
    /\ due = {} /\ ~targetOpen
    /\ targetOpen' = TRUE
    /\ UNCHANGED <<lookupWorld, heldBack, available, due, value, done, cached, overridden>>
TargetReady ==
    /\ due = {} /\ ~targetOpen
    /\ targetOpen' = TRUE
    /\ due' = IF wait_for_target THEN Waiting ELSE {}
    /\ UNCHANGED <<lookupWorld, heldBack, available, value, done, cached, overridden>>
Hold ==
    /\ due = {} /\ heldBack' = TRUE
    /\ UNCHANGED <<lookupWorld, targetOpen, available, due, value, done, cached, overridden>>
ResumeOnly ==
    /\ due = {} /\ heldBack' = FALSE
    /\ UNCHANGED <<lookupWorld, targetOpen, available, due, value, done, cached, overridden>>
Resume ==
    /\ due = {} /\ heldBack' = FALSE
    /\ due' = IF Served THEN Waiting ELSE {}
    /\ UNCHANGED <<lookupWorld, targetOpen, available, value, done, cached, overridden>>

(***************************************************************************)
(* The registry finds the i-th name (check_ready) and calls                *)
(* DelayedValue.callback or the method that replaces it in a subclass:     *)
(* the generic one keeps a value that is already there, those for types    *)
(* and for symbol values do not look.                                      *)
(***************************************************************************)
CallbackKeeps == cls \in {"DelayedSymbol", "DelayedMinimalSymbol"}
\* The list is gone through in the order in which the callbacks were connected.
Passed(i) ==
    /\ \A j \in due : i <= j
    /\ due' = due \ {i}
    /\ UNCHANGED <<targetOpen, heldBack, available>>
Resolve(i) ==
    /\ i \in due \ done /\ Name(i) \in available \ unreadable
    /\ done' = done \cup {i}
    /\ value' = IF CallbackKeeps /\ value[i] # None
                THEN value
                ELSE [value EXCEPT ![i] = Found(i)]
    /\ Passed(i)
    /\ UNCHANGED <<lookupWorld, cached, overridden>>

\* check_ready returns None: the callback stays connected.
NotFound(i) ==
    /\ i \in due /\ Name(i) \notin available
    /\ Passed(i)
    /\ UNCHANGED <<lookupWorld, value, done, cached, overridden>>

(***************************************************************************)
(* DelayedSymval.callback reads the target; gdb.MemoryError leaves through *)
(* evaluate(), which keeps the callback connected for the next time.       *)
(***************************************************************************)
ResolveFaultClears(i) ==
    /\ i \in due /\ Name(i) \in available \cap unreadable
    /\ value' = [value EXCEPT ![i] = None]
    /\ Passed(i)
    /\ UNCHANGED <<lookupWorld, done, cached, overridden>>
ResolveFault(i) ==
    /\ i \in due /\ Name(i) \in available \cap unreadable
    /\ Passed(i)
    /\ UNCHANGED <<lookupWorld, value, done, cached, overridden>>

(***************************************************************************)
(* DelayedCollection.get: what it returns for the key k, None standing for *)
(* DelayedAttributeError, and the attribute it leaves behind.              *)
(***************************************************************************)
get(k) == value[attrs[k]]
SetByName(k) == cached' = [cached EXCEPT ![Name(attrs[k])] = get(k)]
SetAttribute(k) == cached' = [cached EXCEPT ![k] = get(k)]

\* collection[k]: __getitem__ always goes through get().
GetItem(k) ==
    /\ get(k) # None
    /\ SetAttribute(k)
    /\ UNCHANGED <<lookupWorld, registry, value, done, overridden>>

\* collection.k: __getattr__ is called only while there is no attribute k.
GetAttr(k) ==
    /\ cached[k] = None /\ get(k) # None
    /\ SetAttribute(k)
    /\ UNCHANGED <<lookupWorld, registry, value, done, overridden>>

\* What the two forms of a read return now; None when they raise.
ItemRead(k) == get(k)
AttrRead(k) == IF cached[k] # None THEN cached[k] ELSE get(k)

(***************************************************************************)
(* DelayedCollection.override takes a key.  Types.override takes the text  *)
(* of a declaration and writes through its real name, then through its     *)
(* attribute name; a key the collection does not have raises RuntimeError, *)
(* which for the second one comes after the first has been written.        *)
(***************************************************************************)
OverrideKeys(s) ==
    IF cls = "DelayedType"
    THEN IF resolve_type(s).name \in Keys
         THEN {resolve_type(s).name, resolve_type(s).attrname} \cap Keys
         ELSE {}
    ELSE {<<s.tag, s.id>>} \cap Keys

Override(s, a) ==
    LET written == {attrs[k] : k \in OverrideKeys(s)}
    IN  /\ value' = [i \in Entries |-> IF i \in written
                                       THEN Supplied(<<s.tag, s.id>>, a)
                                       ELSE value[i]]
        /\ overridden' = overridden \cup written
        /\ UNCHANGED <<lookupWorld, registry, done, cached>>

Turn == \E i \in Entries : Resolve(i) \/ ResolveFault(i) \/ NotFound(i)
LookupNext ==
    \/ \E S \in SUBSET Names : Load(S)
    \/ TargetReady \/ Hold \/ Resume
    \/ Turn
    \/ \E k \in Keys : GetItem(k)
    \/ \E k \in Keys : GetAttr(k)
    \/ \E s \in OverrideSpecs[cls], a \in Alternatives : Override(s, a)

LookupSpec == LookupInit /\ [][LookupNext]_lookupVars

(***************************************************************************)
(* A call of the registry in progress goes on: Python runs it to its end.  *)
(* Nothing is assumed of gdb: no object file need be loaded, no target     *)
(* opened, and a pause may last for ever.                                  *)
(***************************************************************************)
FairLookupSpec == LookupSpec /\ WF_lookupVars(Turn)

-----------------------------------------------------------------------------
Readable(k) == ItemRead(k) # None

(***************************************************************************)
(* Unless somebody overrides it, a value read by attribute is the value    *)
(* read by item, at every moment from the first read on: get() may leave   *)
(* its attribute behind because nothing else changes a resolved value.     *)
(***************************************************************************)
StaleOnlyIfOverridden ==
    \A k \in Keys : cached[k] # None /\ cached[k] # get(k)
                        => attrs[k] \in overridden

(***************************************************************************)
(* A name that could be read once can be read for good, by item and by     *)
(* attribute: neither a late callback, nor a fault in one, nor an override *)
(* brings DelayedAttributeError back.                                      *)
(***************************************************************************)
ReadableStays == [][\A k \in Keys : Readable(k) => Readable(k)']_lookupVars

(***************************************************************************)
(* Between the calls of the registry, nothing that could be resolved is    *)
(* left over: a declaration whose name can be found is done, or waits for  *)
(* the target, or for the end of a pause, whatever was loaded, opened and  *)
(* paused in which order.                                                  *)
(***************************************************************************)
NoneForgotten ==
    Served /\ ~heldBack =>
        \A i \in Entries : Name(i) \in available \ unreadable => i \in done \cup due

(***************************************************************************)
(* A key becomes readable if gdb can look up the name it is filed for,     *)
(* which for a shared key is the last declaration's, and read its memory,  *)
(* while the registry is not paused and has the target that the callback   *)
(* waits for: whichever of the object file, the target and the end of the  *)
(* pause came last, it has the callback evaluated.                         *)
(***************************************************************************)
Findable(k) == Served /\ ~heldBack /\ Name(attrs[k]) \in available \ unreadable
BecomesReadable ==
    \A c \in DOMAIN Specs : \A k \in KeysOf[c] :
        (cls = c /\ Findable(k)) ~> (cls = c /\ Readable(k))

=============================================================================
