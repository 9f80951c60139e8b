---------------------------- MODULE StructuredLog ----------------------------
(***************************************************************************)
(* The reader of the kernel's older, structured printk buffer in           *)
(* crash/subsystem/printk/structured_ringbuffer.py.                        *)
(*                                                                         *)
(* The buffer is a circle of cells; a record takes a header cell and some  *)
(* cells of text.  The writer is external code, modelled from what the     *)
(* reader relies on: it drops old records to make room, and a record that  *)
(* does not fit before the end of the buffer is preceded by a header of    *)
(* length 0 that sends the reader back to the start.                       *)
(***************************************************************************)
EXTENDS Integers, Sequences, FiniteSets

CONSTANTS
    BufLen,         \* log_buf_len, in cells
    Lengths,        \* the lengths records may have, header included
    MaxSeq,         \* bound on the records written
    MayClear        \* whether the log may be cleared: BOOLEAN

ConstantsOK == /\ BufLen \in Nat \ {0} /\ MaxSeq \in Nat
               /\ Lengths \subseteq 1..BufLen /\ MayClear \in BOOLEAN

VARIABLES
    buf,            \* buf[x]: the header at cell x, if one was written there
    log_first_idx, log_next_idx,
    log_first_seq, log_next_seq,
    clear_seq,
    pc,             \* "kernel" until the crash, then the reader's place
    seq, idx,       \* the locals of get_log_msgs
    yielded         \* what the reader has yielded: a record's number or Marker

kernel == <<buf, log_first_idx, log_next_idx, log_first_seq, log_next_seq,
            clear_seq>>
reader == <<seq, idx, yielded>>
vars == <<buf, log_first_idx, log_next_idx, log_first_seq, log_next_seq,
          clear_seq, pc, seq, idx, yielded>>

Cells == 0..(BufLen - 1)
Marker == -1
\* A header: the length of the record and, for the properties, its number.
Header(l, s) == [len |-> l, no |-> s]
Wrap == Header(0, Marker)

Init ==
    /\ buf = [x \in Cells |-> Wrap]
    /\ log_first_idx = 0 /\ log_next_idx = 0
    /\ log_first_seq = 0 /\ log_next_seq = 0 /\ clear_seq = 0
    /\ pc = "kernel" /\ seq = 0 /\ idx = 0 /\ yielded = <<>>

-----------------------------------------------------------------------------
Larger(a, b) == IF a > b THEN a ELSE b
Free(first, next, empty) == IF next > first \/ empty
                            THEN Larger(BufLen - next, first)
                            ELSE first - next
HasSpace(first, next, empty, l) == Free(first, next, empty) >= l + 1

\* The index of the record after the one at x, as the kernel computes it.
KernelNext(x) == IF buf[x].len = 0 THEN buf[0].len ELSE x + buf[x].len

\* The writer drops the oldest record to make room for one of length l.
Drop(l) ==
    /\ pc = "kernel" /\ log_next_seq < MaxSeq
    /\ log_first_seq < log_next_seq
    /\ ~HasSpace(log_first_idx, log_next_idx, FALSE, l)
    /\ log_first_idx' = KernelNext(log_first_idx)
    /\ log_first_seq' = log_first_seq + 1
    /\ UNCHANGED <<buf, log_next_idx, log_next_seq, clear_seq, pc, reader>>

\* It stores the record, behind a wrap header if there is no room at the end.
Store(l) ==
    /\ pc = "kernel" /\ log_next_seq < MaxSeq
    /\ HasSpace(log_first_idx, log_next_idx, log_first_seq = log_next_seq, l)
    /\ LET wraps == log_next_idx + l + 1 > BufLen
           at == IF wraps THEN 0 ELSE log_next_idx
           marked == IF wraps /\ log_next_idx \in Cells
                     THEN [buf EXCEPT ![log_next_idx] = Wrap] ELSE buf
       IN  /\ buf' = [marked EXCEPT ![at] = Header(l, log_next_seq)]
           /\ log_next_idx' = at + l
    /\ log_next_seq' = log_next_seq + 1
    /\ UNCHANGED <<log_first_idx, log_first_seq, clear_seq, pc, reader>>

\* Somebody clears the log: later readers start behind what is in it now.
Clear ==
    /\ pc = "kernel" /\ MayClear /\ clear_seq # log_next_seq
    /\ clear_seq' = log_next_seq
    /\ UNCHANGED <<buf, log_first_idx, log_next_idx, log_first_seq,
                   log_next_seq, pc, reader>>

Crash ==
    /\ pc = "kernel"
    /\ pc' = "start"
    /\ UNCHANGED <<kernel, reader>>

-----------------------------------------------------------------------------
(***************************************************************************)
(* get_log_msgs up to its loop.  The correction of clear_seq is stored in  *)
(* the collection of symbol values and is there for later calls as well.   *)
(***************************************************************************)
StartUncorrected ==
    /\ pc = "start"
    /\ seq' = clear_seq /\ idx' = log_first_idx /\ pc' = "loop"
    /\ UNCHANGED <<kernel, yielded>>
StartReading ==
    /\ pc = "start"
    /\ clear_seq' = IF clear_seq < log_first_seq THEN log_first_seq ELSE clear_seq
    /\ seq' = clear_seq' /\ idx' = log_first_idx /\ pc' = "loop"
    /\ UNCHANGED <<buf, log_first_idx, log_next_idx, log_first_seq,
                   log_next_seq, yielded>>

\* log_from_idx: the index of the next header; length 0 leads to the start.
NextIdx(x) == IF buf[x].len = 0 THEN 0 ELSE x + buf[x].len

\* One turn of the loop of get_log_msgs: every header counts as a record.
Read ==
    /\ pc = "loop"
    /\ IF seq < log_next_seq
       THEN /\ yielded' = Append(yielded, buf[idx].no)
            /\ seq' = seq + 1
            /\ idx' = NextIdx(idx)
            /\ UNCHANGED pc
       ELSE pc' = "done" /\ UNCHANGED reader
    /\ UNCHANGED kernel

Kernel == \/ \E l \in Lengths : Drop(l)
          \/ \E l \in Lengths : Store(l)
          \/ Clear \/ Crash
Next == Kernel \/ StartReading \/ Read
Spec == Init /\ [][Next]_vars


-----------------------------------------------------------------------------
RecordsBefore(j) == Cardinality({i \in 1..(j - 1) : yielded[i] # Marker})

(***************************************************************************)
(* What the reader yields, wrap headers aside, are records that are still  *)
(* in the buffer, the oldest first and without gaps: it never runs into    *)
(* the remains of records that were overwritten.                           *)
(***************************************************************************)
OnlyLiveRecords ==
    \A j \in DOMAIN yielded :
        yielded[j] # Marker => /\ yielded[j] = log_first_seq + RecordsBefore(j)
                               /\ yielded[j] < log_next_seq

(***************************************************************************)
(* If the log has not wrapped and was not cleared, nothing is left out.    *)
(***************************************************************************)
PlainLogComplete ==
    pc = "done" /\ clear_seq = log_first_seq /\ log_first_idx < log_next_idx
        => \A s \in log_first_seq..(log_next_seq - 1) :
               \E j \in DOMAIN yielded : yielded[j] = s

=============================================================================
