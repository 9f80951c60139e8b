------------------------------- MODULE BioStack -------------------------------
(***************************************************************************)
(* The decoders of the storage stack: crash/subsystem/storage/decoders.py, *)
(* device_mapper.py, and of crash/subsystem/filesystem decoders.py and     *)
(* ext3.py.                                                                *)
(*                                                                         *)
(* A bio or buffer_head is decoded by the class that is registered for the *)
(* address of its endio function.  The classes name that function; they    *)
(* are registered when its symbol is found, which may be while the caller  *)
(* of for_each_bio_in_stack is going through a stack.                      *)
(***************************************************************************)
EXTENDS Integers, Sequences, FiniteSets, Functions

CONSTANTS
    Bios, Bhs,      \* the struct bios and struct buffer_heads
    NULL            \* the end of a stack

ConstantsOK == NULL \notin Bios \cup Bhs /\ Bios \cap Bhs = {}

VARIABLES
    endio,          \* endio[x]: the function that bi_end_io or b_end_io points to
    private,        \* private[x]: what bi_private or the clone's info leads to
    unavailable,    \* the objects that are not in the dump
    _decoders,      \* the endio functions that have a decoder registered
    decoder,        \* the current Decoder of for_each_bio_in_stack
    yielded,        \* the Decoders it has yielded
    known,          \* the functions registered when it was called
    state           \* "idle", "stack", "done" or "raised"

vars == <<endio, private, unavailable, _decoders, decoder, yielded, known, state>>

Objects == Bios \cup Bhs
\* The __endio__ of the classes.
ClassOf ==
    [dio_bio_end_io             |-> "DIOBioDecoder",
     mpage_end_io               |-> "DecodeMPage",
     end_bio_bh_io_sync         |-> "DecodeBioBH",
     end_clone_bio              |-> "ClonedBioReqDecoder",
     clone_endio                |-> "ClonedBioDecoder",
     end_buffer_write_sync      |-> "DecodeSyncWBBH",
     journal_end_buffer_io_sync |-> "Ext3Decoder"]
Endios == DOMAIN ClassOf
BhEndios == {"end_buffer_write_sync", "journal_end_buffer_io_sync", "other"}
BioEndios == (Endios \ BhEndios) \cup {"other", "dio_bio_end_aio"}
Clones == {"ClonedBioReqDecoder", "ClonedBioDecoder"}
NoDecoder == [class |-> "None", of |-> NULL]

\* The stacks of a kernel: buffer_heads are under the bios made for them, and
\* a clone leads to the bio it was made from.  Up to two of the functions are
\* in modules that are loaded late.
Init ==
    /\ endio \in {f \in [Objects -> BioEndios \cup BhEndios] :
                     /\ \A x \in Bios : f[x] \in BioEndios
                     /\ \A x \in Bhs : f[x] \in BhEndios}
    /\ private \in {f \in [Bios -> Objects] :
                       \A x \in Bios :
                           f[x] \in IF endio[x] = "end_bio_bh_io_sync" THEN Bhs
                                    ELSE IF endio[x] \in {"end_clone_bio", "clone_endio"}
                                    THEN Bios \ {x} ELSE {x}}
    /\ \A x, y \in Bios : x # y /\ private[x] = y => private[y] # x
    /\ unavailable \in {{}} \cup {{x} : x \in Objects}
    /\ _decoders \in {Endios \ {e, f} : e, f \in Endios}
    /\ decoder = NoDecoder /\ yielded = <<>> /\ known = {} /\ state = "idle"

-----------------------------------------------------------------------------
(***************************************************************************)
(* decode_bio and decode_bh.  The constructors of the two classes for      *)
(* clones test an attribute that is only annotated: __getattr__ calls      *)
(* interpret, which reads it again, and so on to a RecursionError.         *)
(***************************************************************************)
Decode(x) ==
    [class |-> IF x \in unavailable THEN "Bad"
               ELSE IF endio[x] \in _decoders THEN ClassOf[endio[x]] ELSE "Generic",
     of |-> x]
Constructs(x) == Decode(x).class \notin Clones

\* register_decoder with a name: when the callback for the symbol runs.
register_decoder(e) ==
    /\ e \notin _decoders /\ state \in {"idle", "stack"}
    /\ _decoders' = _decoders \cup {e}
    /\ UNCHANGED <<endio, private, unavailable, decoder, yielded, known, state>>

\* for_each_bio_in_stack: the first decoder, or the exception of its class.
Begin(bio) ==
    /\ state = "idle"
    /\ known' = _decoders
    /\ IF Constructs(bio) THEN decoder' = Decode(bio) /\ state' = "stack"
       ELSE decoder' = NoDecoder /\ state' = "raised"
    /\ UNCHANGED <<endio, private, unavailable, _decoders, yielded>>

\* __next__ of the classes: the buffer_head of the bio, the bio that was
\* cloned, and None for the others.
NextOfAnything(dec) == IF dec.of \in Bios THEN Decode(private[dec.of]) ELSE NoDecoder
NextOf(dec) == IF dec.class \in {"DecodeBioBH"} \cup Clones THEN Decode(private[dec.of])
               ELSE NoDecoder

\* It yields, and goes on with next(decoder).
Yield ==
    /\ state = "stack"
    /\ yielded' = Append(yielded, decoder)
    /\ LET below == NextOf(decoder)
       IN  /\ decoder' = IF below.class \in Clones THEN NoDecoder ELSE below
           /\ state' = IF below = NoDecoder THEN "done"
                       ELSE IF below.class \in Clones THEN "raised" ELSE "stack"
    /\ UNCHANGED <<endio, private, unavailable, _decoders, known>>

-----------------------------------------------------------------------------
\* The bios that were made for another object.
Stacked(x) == x \in Bios /\ private[x] # x

(***************************************************************************)
(* What for_each_bio_in_stack yields is a path down the stack: each object *)
(* once, with its own decoder if its function was registered before the    *)
(* call; and where it returns, the path ends at an object that has none    *)
(* (undecoded, or not in the dump) or with nothing below.                  *)
(***************************************************************************)
StackDecoded ==
    /\ \A k \in DOMAIN yielded :
           LET x == yielded[k].of
           IN  /\ yielded[k].class = "Bad" <=> x \in unavailable
               /\ yielded[k].class = "Generic" => endio[x] \notin known
               /\ yielded[k].class \notin {"Bad", "Generic"} =>
                      endio[x] \in _decoders /\ yielded[k].class = ClassOf[endio[x]]
               /\ k > 1 => Stacked(yielded[k - 1].of) /\ x = private[yielded[k - 1].of]
               /\ \A j \in DOMAIN yielded : yielded[j].of = x => j = k
    /\ state = "done" =>
           LET end == yielded[Len(yielded)]
           IN  end.class \in {"Bad", "Generic"} \/ ~Stacked(end.of)

=============================================================================
