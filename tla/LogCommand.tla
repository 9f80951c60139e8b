------------------------------ MODULE LogCommand ------------------------------
(***************************************************************************)
(* The log command of crash/commands/dmesg.py: it tries the reader of the  *)
(* lockless ring buffer, then that of the structured buffer, then the      *)
(* plain text of crash/subsystem/printk/plain_ringbuffer.py, each saying   *)
(* with LogTypeException that the kernel's log is not of its kind.         *)
(*                                                                         *)
(* `format' is the kind of the kernel, which runs and writes its log until *)
(* it crashes; then the command is given, any number of times.             *)
(***************************************************************************)
EXTENDS Integers, Sequences, FiniteSets

CONSTANTS
    Formats,                            \* the kinds of kernels
    N, MaxId,                           \* of LocklessLog
    BufLen, Lengths, MaxSeq, MayClear   \* of StructuredLog

VARIABLES
    format,
    cmd,            \* the reader that LogCommand.execute is at
    outcome,        \* how the last command ended
    state, owner, seq, tail_id, head_id, tail_step, numbered, prbPc, next, shown,
    buf, log_first_idx, log_next_idx, log_first_seq, log_next_seq, clear_seq,
    recPc, recSeq, idx, yielded

Lockless == INSTANCE LocklessLog WITH pc <- prbPc
Structured == INSTANCE StructuredLog WITH pc <- recPc, seq <- recSeq

ASSUME LogAssumption ==
    /\ Formats \subseteq {"lockless", "structured", "plain"}
    /\ Lockless!ConstantsOK /\ Structured!ConstantsOK

ring == <<state, owner, seq, tail_id, head_id, tail_step, numbered>>
lockless == <<ring, prbPc, next, shown>>
records == <<buf, log_first_idx, log_next_idx, log_first_seq, log_next_seq>>
structured == <<records, clear_seq, recPc, recSeq, idx, yielded>>
command == <<cmd, outcome>>
vars == <<format, command, lockless, structured>>

Init ==
    /\ format \in Formats
    /\ cmd = "kernel" /\ outcome = "none"
    /\ Lockless!Init /\ Structured!Init

-----------------------------------------------------------------------------
LocklessKernel ==
    /\ format = "lockless" /\ cmd = "kernel"
    /\ Lockless!Kernel
    /\ UNCHANGED <<format, outcome, structured>>
    /\ cmd' = IF prbPc' = "kernel" THEN "kernel" ELSE "lockless"

StructuredKernel ==
    /\ format = "structured" /\ cmd = "kernel"
    /\ Structured!Kernel
    /\ UNCHANGED <<format, outcome, lockless>>
    /\ cmd' = IF recPc' = "kernel" THEN "kernel" ELSE "lockless"

PlainKernel ==
    /\ format = "plain" /\ cmd = "kernel"
    /\ cmd' = "lockless"
    /\ UNCHANGED <<format, outcome, lockless, structured>>

-----------------------------------------------------------------------------
\* symvals.prb is there; the exception of first_seq is nobody's to catch.
ShowLockless ==
    /\ cmd = "lockless" /\ format = "lockless"
    /\ Lockless!first_seq \/ Lockless!show_log
    /\ cmd' = IF prbPc' \in {"done", "inconsistent"} THEN "done" ELSE cmd
    /\ outcome' = CASE prbPc' = "done"         -> "shown"
                    [] prbPc' = "inconsistent" -> "LogConsistencyException"
                    [] OTHER                   -> outcome
    /\ UNCHANGED <<format, structured>>

ShowStructured ==
    /\ cmd = "structured" /\ format = "structured"
    /\ Structured!StartReading \/ Structured!Read
    /\ cmd' = IF recPc' = "done" THEN "done" ELSE cmd
    /\ outcome' = IF recPc' = "done" THEN "shown" ELSE outcome
    /\ UNCHANGED <<format, lockless>>

\* LogTypeException: the next reader is tried.
NotThis ==
    /\ cmd \in {"lockless", "structured"} /\ format # cmd
    /\ cmd' = IF cmd = "lockless" THEN "structured" ELSE "plain"
    /\ UNCHANGED <<format, outcome, lockless, structured>>

\* plain_rb_show: the whole text, or LogInvalidOption for the option -d.
ShowPlain ==
    /\ cmd = "plain"
    /\ cmd' = "done"
    /\ outcome' \in {"shown", "CommandError"}
    /\ UNCHANGED <<format, lockless, structured>>

\* The command is given again; what it stored in symvals is still there.
Again ==
    /\ cmd = "done"
    /\ cmd' = "lockless"
    /\ prbPc' = "first" /\ shown' = <<>>
    /\ recPc' = "start" /\ yielded' = <<>>
    /\ UNCHANGED <<format, outcome, ring, next, records, clear_seq, recSeq, idx>>

Next == \/ LocklessKernel \/ StructuredKernel \/ PlainKernel
        \/ ShowLockless \/ ShowStructured \/ NotThis \/ ShowPlain \/ Again

\* A command that is given runs on; the kernel need not crash.
Running == ShowLockless \/ ShowStructured \/ NotThis \/ ShowPlain
Spec == Init /\ [][Next]_vars /\ WF_vars(Running)

-----------------------------------------------------------------------------
(***************************************************************************)
(* Whenever the kernel crashes, in whatever step of whichever writers, the *)
(* reader of the lockless buffer accepts the tail it finds and shows       *)
(* exactly the finished records that are not behind an unfinished one, in  *)
(* order, however often the command is given.                              *)
(***************************************************************************)
ShowsTheLog == format = "lockless" => Lockless!ShowsTheLog

(***************************************************************************)
(* What the reader of the structured buffer yields are records that are    *)
(* still in the buffer, the oldest first and without gaps: it never runs   *)
(* into the remains of records that were overwritten.  If the log has not  *)
(* wrapped and was not cleared, nothing is left out, by the first command  *)
(* or by a later one.                                                      *)
(***************************************************************************)
LiveRecordsShown ==
    format = "structured" => Structured!OnlyLiveRecords /\ Structured!PlainLogComplete

(***************************************************************************)
(* Every log command ends, with one of the three readers.                  *)
(***************************************************************************)
LogEnds == cmd = "lockless" ~> cmd = "done"

=============================================================================
