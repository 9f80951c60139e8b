------------------------------ MODULE BlockQueue ------------------------------
(***************************************************************************)
(* The requests of a queue: crash/subsystem/storage block.py, blockmq.py   *)
(* and blocksq.py, the functions on requests of its __init__.py, and       *)
(* crash/types/sbitmap.py.                                                 *)
(*                                                                         *)
(* A multiqueue queue is read through the tags of its hardware contexts:   *)
(* a scalable bitmap has the tags in use, a table has the request of each  *)
(* tag, the reserved tags first.                                           *)
(***************************************************************************)
EXTENDS Integers, Sequences, FiniteSets, SequencesExt

CONSTANTS
    Depth,          \* the tags of a context that are not reserved
    Shift,          \* a word of the bitmap has 2^Shift bits
    MaxReserved     \* the reserved tags of a context

ConstantsOK == Depth \in Nat \ {0} /\ Shift \in Nat /\ MaxReserved \in Nat

VARIABLES
    queue,          \* the queue: mq or not, its contexts, or its list and counters
    op,             \* what is asked for: "requests_queued" or "queue_request_stats"
    hctx,           \* the index of the loop over the contexts
    requests,       \* what for_each_request_in_queue has yielded
    stats,          \* queued async and sync, in flight async and sync
    status          \* "idle", "reading", "read" or "raised"

vars == <<queue, op, hctx, requests, stats, status>>

WordBits == 2 ^ Shift
MapNr(depth) == (depth + WordBits - 1) \div WordBits
Tags == 0..(Depth + MaxReserved - 1)
\* What a slot of the table may hold: no request of this queue (a null pointer,
\* or one of another queue that shares the tags), or one, started or not.
Slots == {"other", "async", "sync started"}
\* How a struct request tells that it was started, see _check_struct_request.
Forms == {"rq_state", "atomic_flags", "cmd_flags"}

-----------------------------------------------------------------------------
(***************************************************************************)
(* A scalable bitmap as the kernel keeps it: a tag that was freed lately   *)
(* is still set in its word and set in `cleared' as well, in kernels that  *)
(* have it (they have rq_state too).                                       *)
(***************************************************************************)
WordsOf(depth, set) ==
    [i \in 0..(MapNr(depth) - 1) |->
        {t - i * WordBits : t \in {t \in set : t \div WordBits = i}}]
Sbitmap(depth, used, freed) ==
    [depth |-> depth, map_nr |-> MapNr(depth),
     word |-> WordsOf(depth, used \cup freed), cleared |-> WordsOf(depth, freed),
     bits |-> [i \in 0..(MapNr(depth) - 1) |->
                  IF i = MapNr(depth) - 1 THEN depth - i * WordBits ELSE WordBits]]

\* The tags in use and freed lately are tags of the table, the reserved ones
\* first; each kind has a bitmap of its own.
Context(nr_ctx, tags, nr_reserved, used, freed, rqs) ==
    [nr_ctx |-> nr_ctx, tags |-> tags, nr_reserved |-> nr_reserved,
     used |-> used, freed |-> freed, rqs |-> rqs]
Being(m, x) == {t \in Tags : m[t] = x}
Contexts == {Context(1, TRUE, MaxReserved, Being(m, "used"), Being(m, "freed"), q) :
                m \in [Tags -> {"free", "used", "freed"}], q \in [Tags -> Slots]}
Reserved(hc, set) == {t \in set : t < hc.nr_reserved}
Plain(hc, set) == {t - hc.nr_reserved : t \in set \ Reserved(hc, set)}
breserved_tags(hc) == Sbitmap(hc.nr_reserved, Reserved(hc, hc.used), Reserved(hc, hc.freed))
bitmap_tags(hc) == Sbitmap(Depth, Plain(hc, hc.used), Plain(hc, hc.freed))

\* Contexts that are not in use, and a second one with a single request.
Full == [t \in Tags |-> "async"]
Unmapped == {Context(0, TRUE, 0, {0}, {}, Full), Context(1, FALSE, 0, {0}, {}, Full)}
Second == Context(1, TRUE, 0, {0}, {}, Full)

SingleQueues == {[mq |-> FALSE, null |-> n, list |-> l, counters |-> <<1, 2, 0, 1>>] :
                    n \in BOOLEAN, l \in {<<>>, <<"async", "sync started">>}}
MultiQueues == {[mq |-> TRUE, hw |-> h, form |-> f] :
                   h \in {<<x>> : x \in Contexts} \cup {<<x, Second>> : x \in Unmapped},
                   f \in Forms}
Init ==
    /\ queue \in SingleQueues \cup {q \in MultiQueues :
           q.form # "rq_state" => \A k \in DOMAIN q.hw : q.hw[k].freed = {}}
    /\ op \in {"requests_queued", "queue_request_stats"}
    /\ hctx = 1 /\ requests = <<>> /\ stats = <<0, 0, 0, 0>> /\ status = "idle"

-----------------------------------------------------------------------------
\* sbitmap_for_each_set, word by word.
BitsWithCleared(sb, i) == {i * WordBits + j : j \in sb.word[i]}
BitsOfWord(sb, i) ==
    LET offset == i * WordBits
        bits == Min({sb.bits[i], sb.depth - offset})
    IN  {offset + j : j \in (sb.word[i] \ sb.cleared[i]) \cap (0..(bits - 1))}
InOrder(S) == SetToSortSeq(S, <)
sbitmap_for_each_set(sb) == InOrder(UNION {BitsOfWord(sb, i) : i \in 0..(sb.map_nr - 1)})

\* rq_is_sync; reads are sync, too.
rq_is_sync(rq) == rq[2] = "sync started"
\* rq_in_flight: the form with rq_state compares it with a field of the enum
\* type, not with its value, which gdb refuses with a TypeError.
rq_in_flight(rq) == rq[2] = "sync started"
InFlightRaises == op = "queue_request_stats" /\ queue.form = "rq_state"

\* mq_for_each_request_in_queue: the requests of one context, as pairs of
\* the slot and what it holds.
OfThisQueue(rq) == rq[2] # "other"
RequestsOf(k) ==
    LET hc == queue.hw[k]
        slot(t) == <<<<k, t>>, hc.rqs[t]>>
        reserved == IF hc.nr_reserved > 0 THEN sbitmap_for_each_set(breserved_tags(hc))
                    ELSE <<>>
        tags == sbitmap_for_each_set(bitmap_tags(hc))
        all == [j \in DOMAIN reserved |-> slot(reserved[j])]
               \o [j \in DOMAIN tags |-> slot(tags[j] + hc.nr_reserved)]
    IN  IF hc.nr_ctx = 0 \/ ~hc.tags THEN <<>> ELSE SelectSeq(all, OfThisQueue)

\* mq_requests_queued and mq_queue_request_stats.
Sync(rq) == IF rq_is_sync(rq) THEN 2 ELSE 1
Tally(s, rq) ==
    LET t == [s EXCEPT ![Sync(rq)] = @ + 1]
    IN  IF op = "queue_request_stats" /\ rq_in_flight(rq)
        THEN [t EXCEPT ![2 + Sync(rq)] = @ + 1] ELSE t

\* The caller's call: a single queue is listed and its counters are read, a
\* NULL one raises.
SingleQueue ==
    /\ status = "idle" /\ ~queue.mq
    /\ IF queue.null THEN status' = "raised" /\ UNCHANGED <<requests, stats>>
       ELSE /\ status' = "read"
            /\ requests' = [k \in DOMAIN queue.list |-> <<<<0, k>>, queue.list[k]>>]
            /\ stats' = IF op = "queue_request_stats" THEN queue.counters
                        ELSE SubSeq(queue.counters, 1, 2) \o <<0, 0>>
    /\ UNCHANGED <<queue, op, hctx>>
MultiQueue ==
    /\ status = "idle" /\ queue.mq
    /\ status' = "reading"
    /\ UNCHANGED <<queue, op, hctx, requests, stats>>

\* One turn of the loop over the contexts; a raise keeps what was counted.
NextHctx ==
    /\ status = "reading" /\ hctx <= Len(queue.hw)
    /\ LET all == RequestsOf(hctx)
       IN  IF InFlightRaises /\ all # <<>>
           THEN /\ status' = "raised" /\ requests' = Append(requests, all[1])
                /\ UNCHANGED <<hctx, stats>>
           ELSE /\ requests' = requests \o all
                /\ stats' = FoldLeft(Tally, stats, all)
                /\ hctx' = hctx + 1 /\ UNCHANGED status
    /\ UNCHANGED <<queue, op>>
EndQueue ==
    /\ status = "reading" /\ hctx > Len(queue.hw)
    /\ status' = "read"
    /\ UNCHANGED <<queue, op, hctx, requests, stats>>

-----------------------------------------------------------------------------
(***************************************************************************)
(* The requests yielded for a multiqueue queue are those of the tags in    *)
(* use that belong to the queue: a tag freed lately gives none, a reserved *)
(* tag its own and not that of another tag, none comes twice; and the      *)
(* statistics count them, in flight those that the driver has started.     *)
(***************************************************************************)
Outstanding ==
    UNION {LET hc == queue.hw[k]
           IN  {<<k, t>> : t \in {x \in hc.used :
                    hc.nr_ctx # 0 /\ hc.tags /\ hc.rqs[x] # "other"}} : k \in DOMAIN queue.hw}
RequestsRight ==
    status = "read" /\ queue.mq =>
        /\ {requests[k][1] : k \in DOMAIN requests} = Outstanding
        /\ Len(requests) = Cardinality(Outstanding)
        /\ stats[1] + stats[2] = Len(requests)
        /\ op = "queue_request_stats" =>
               stats[3] + stats[4] = Cardinality({x \in Outstanding :
                   queue.hw[x[1]].rqs[x[2]] = "sync started"})

=============================================================================
