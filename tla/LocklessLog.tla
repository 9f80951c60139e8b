----------------------------- MODULE LocklessLog -----------------------------
(***************************************************************************)
(* The reader of the kernel's lockless printk ring buffer in               *)
(* crash/subsystem/printk/lockless_ringbuffer.py, on dumps taken at any    *)
(* moment of the kernel's own writers.                                     *)
(*                                                                         *)
(* The ring has N descriptors.  A record is known by its id, here equal to *)
(* its sequence number, and lives in the descriptor id % N.  The writers   *)
(* are external code, modelled from what the reader relies on: a writer    *)
(* takes the oldest descriptor in several atomic steps, fills it and       *)
(* commits it, while others do the same.  Crash ends the writing; what is  *)
(* in memory then is what the reader sees.                                 *)
(***************************************************************************)
EXTENDS Integers, Sequences, FiniteSets

CONSTANTS
    N,              \* 1 << count_bits: the number of descriptors
    MaxId           \* bound on the ids the writers use

ConstantsOK == N \in Nat \ {0, 1} /\ MaxId \in Nat

VARIABLES
    state,          \* state[x]: the state bits of descriptor x's state_var
    owner,          \* owner[x]: the id in the other bits of it
    seq,            \* seq[x]: the sequence number in printk_info x
    tail_id, head_id,
    tail_step,      \* the writers' next step in moving the tail
    numbered,       \* reserved ids whose printk_info has its number
    pc,             \* "kernel" until the crash, then the reader's place
    next,           \* the local seq of show_log
    shown           \* the sequence numbers shown so far

writers == <<owner, tail_id, head_id, tail_step, numbered>>
ring == <<state, seq>>
vars == <<state, owner, seq, tail_id, head_id, tail_step, numbered, pc, next,
          shown>>

Index == 0..(N - 1)
get_idx(id) == id % N

(***************************************************************************)
(* A kernel that boots: one reusable descriptor before the first record,   *)
(* the others never used.                                                  *)
(***************************************************************************)
Booted ==
    /\ state = [x \in Index |-> IF x = N - 1 THEN "reusable" ELSE "reserved"]
    /\ seq = [x \in Index |-> IF x = 0 THEN -N ELSE 0]
    /\ owner = [x \in Index |-> IF x = N - 1 THEN -1 ELSE -1 - N]
    /\ tail_id = -1 /\ head_id = -1
    /\ pc = "kernel"
Init ==
    /\ Booted
    /\ tail_step = "idle" /\ numbered = {}
    /\ next = 0 /\ shown = <<>>

-----------------------------------------------------------------------------
Reader == <<pc, next, shown>>
Readable(x) == state[x] \in {"finalized", "reusable"}
Owned(id) == owner[get_idx(id)] = id
Wraps == head_id + 1 - N = tail_id

\* The oldest descriptor has to go: first its data, if it is finished.
MakeReusable ==
    /\ pc = "kernel" /\ Wraps /\ tail_step = "idle" /\ head_id < MaxId
    /\ Owned(tail_id) /\ Readable(get_idx(tail_id))
    /\ state' = [state EXCEPT ![get_idx(tail_id)] = "reusable"]
    /\ tail_step' = "reusable"
    /\ UNCHANGED <<seq, owner, tail_id, head_id, numbered, Reader>>

\* Then the tail moves on, if the next one can be a tail.
MoveTail ==
    /\ pc = "kernel" /\ tail_step = "reusable"
    /\ Owned(tail_id + 1) /\ Readable(get_idx(tail_id + 1))
    /\ tail_id' = tail_id + 1 /\ tail_step' = "idle"
    /\ UNCHANGED <<state, seq, owner, head_id, numbered, Reader>>

\* A writer gets the next id.
MoveHead ==
    /\ pc = "kernel" /\ ~Wraps /\ head_id < MaxId
    /\ head_id' = head_id + 1
    /\ UNCHANGED <<state, seq, owner, tail_id, tail_step, numbered, Reader>>

Reserve(id) ==
    /\ pc = "kernel" /\ id \in (tail_id + 1)..head_id /\ ~Owned(id)
    /\ state' = [state EXCEPT ![get_idx(id)] = "reserved"]
    /\ owner' = [owner EXCEPT ![get_idx(id)] = id]
    /\ UNCHANGED <<seq, tail_id, head_id, tail_step, numbered, Reader>>

Number(id) ==
    /\ pc = "kernel" /\ Owned(id) /\ id \notin numbered
    /\ state[get_idx(id)] = "reserved"
    /\ LET x == get_idx(id)
       IN  seq' = [seq EXCEPT ![x] = IF @ = 0 /\ x # 0 THEN x ELSE @ + N]
    /\ numbered' = numbered \cup {id}
    /\ UNCHANGED <<state, owner, tail_id, head_id, tail_step, Reader>>

\* The record is complete: committed while it may be continued, or finalized.
Commit(id) ==
    /\ pc = "kernel" /\ id \in numbered
    /\ state' \in {[state EXCEPT ![get_idx(id)] = s] :
                      s \in {"committed", "finalized"}}
    /\ numbered' = numbered \ {id}
    /\ UNCHANGED <<seq, owner, tail_id, head_id, tail_step, Reader>>

\* A committed record is finalized once there is a newer one.
Finalize(id) ==
    /\ pc = "kernel" /\ Owned(id) /\ id < head_id
    /\ state[get_idx(id)] = "committed"
    /\ state' = [state EXCEPT ![get_idx(id)] = "finalized"]
    /\ UNCHANGED <<seq, writers, Reader>>

Crash ==
    /\ pc = "kernel"
    /\ pc' = "first"
    /\ UNCHANGED <<ring, writers, next, shown>>

-----------------------------------------------------------------------------
is_finalized(x) == state[x] = "finalized"
is_reusable(x) == state[x] = "reusable"
is_valid_desc(x, s) == (is_finalized(x) \/ is_reusable(x)) /\ seq[x] = s

\* PrbRingBuffer.first_seq: the loop over range(0, 1) looks at the tail only.
first_seq ==
    /\ pc = "first"
    /\ LET x == get_idx(tail_id)
       IN  IF is_finalized(x) \/ is_reusable(x)
           THEN next' = seq[x] /\ pc' = "show"
           ELSE pc' = "inconsistent" /\ UNCHANGED next
    /\ UNCHANGED <<ring, writers, shown>>

(***************************************************************************)
(* One turn of the loop in show_log.  A reusable descriptor has its number *)
(* but no longer its text.                                                 *)
(***************************************************************************)
ShowStale(x) == TRUE
HasText(x) == ~is_reusable(x)
ShowLogSticks ==
    /\ pc = "show"
    /\ LET x == get_idx(next)
       IN  IF is_valid_desc(x, next)
           THEN IF is_reusable(x) THEN UNCHANGED <<pc, next, shown>>
                ELSE next' = next + 1 /\ shown' = Append(shown, next) /\ UNCHANGED pc
           ELSE pc' = "done" /\ UNCHANGED <<next, shown>>
    /\ UNCHANGED <<ring, writers>>
show_log ==
    /\ pc = "show"
    /\ LET x == get_idx(next)
       IN  IF is_valid_desc(x, next)
           THEN /\ next' = next + 1
                /\ shown' = IF HasText(x) THEN Append(shown, next) ELSE shown
                /\ UNCHANGED pc
           ELSE pc' = "done" /\ UNCHANGED <<next, shown>>
    /\ UNCHANGED <<ring, writers>>

Kernel == \/ MakeReusable \/ MoveTail \/ MoveHead \/ Crash
          \/ \E id \in 0..MaxId : Reserve(id)
          \/ \E id \in 0..MaxId : Number(id)
          \/ \E id \in 0..MaxId : Commit(id)
          \/ \E id \in 0..MaxId : Finalize(id)
Next == Kernel \/ first_seq \/ show_log
Spec == Init /\ [][Next]_vars

-----------------------------------------------------------------------------
(***************************************************************************)
(* The records a reader is entitled to: from the oldest on, each finished  *)
(* one, up to the first that a writer had not finished.                    *)
(***************************************************************************)
Finished(id) == /\ id \in tail_id..head_id /\ id >= 0 /\ Owned(id)
                /\ Readable(get_idx(id))
Present(id) == Finished(id) /\ is_finalized(get_idx(id))
Oldest == IF tail_id < 0 THEN 0 ELSE tail_id
Entitled == {id \in Oldest..head_id : Present(id) /\
                \A j \in Oldest..id : Finished(j)}

(***************************************************************************)
(* Whenever the kernel crashes, in whatever step of whichever writers, the *)
(* reader accepts the tail it finds and shows exactly the records it is    *)
(* entitled to, in order: none is missing, none stale, none that was still *)
(* being written.                                                          *)
(***************************************************************************)
ShowsTheLog ==
    /\ pc # "inconsistent"
    /\ pc = "done" =>
        /\ \A a, b \in DOMAIN shown : a < b => shown[a] < shown[b]
        /\ {shown[a] : a \in DOMAIN shown} = Entitled

=============================================================================
