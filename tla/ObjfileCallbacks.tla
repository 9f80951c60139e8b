--------------------------- MODULE ObjfileCallbacks ---------------------------
(***************************************************************************)
(* The objfile callback registry of crash/infra/callback.py: the class     *)
(* ObjfileEventCallback with its two class-wide lists (_target_waitlist    *)
(* and _pending_list), the _paused flag, and the three flags of each       *)
(* object (completed, connected, _waiting_for_target).                     *)
(*                                                                         *)
(* gdb calls into the registry from its command line and from its          *)
(* new_objfile event; the registry calls the check_ready and callback      *)
(* methods of the objects.  All of it runs on one thread, so what can      *)
(* interleave is the Python call stack: `stack' holds the calls in         *)
(* progress, the innermost first.  Lists are iterated the way Python does  *)
(* it, by an index into the live list that is advanced before the body of  *)
(* the loop runs.                                                          *)
(***************************************************************************)
EXTENDS Integers, Sequences, FiniteSets

CONSTANTS
    Callbacks,       \* the ObjfileEventCallback objects the session may create
    Objfiles,        \* the object files gdb may load
    Needs,           \* Needs[c]: the object files that define what c looks up
    WaitForTarget,   \* the callbacks constructed with wait_for_target = True
    Outcomes,        \* Outcomes[c]: the ways a call of c.callback() may end
    Reentrant,       \* the callbacks whose body calls gdb or the registry
    MaxDepth         \* bound on the depth of the call stack

(***************************************************************************)
(* How the body of a callback ends: it returns None or True, it returns    *)
(* False, it raises gdb.error, or it raises another exception.             *)
(***************************************************************************)
AllOutcomes == {"done", "retry", "gdb_error", "exception"}

ASSUME CallbacksAssumption == IsFiniteSet(Callbacks)
ASSUME NeedsAssumption == Needs \in [Callbacks -> SUBSET Objfiles]
ASSUME WaitAssumption == WaitForTarget \subseteq Callbacks
ASSUME OutcomesAssumption == Outcomes \in [Callbacks -> SUBSET AllOutcomes]
ASSUME ReentrantAssumption == Reentrant \subseteq Callbacks
ASSUME DepthAssumption == MaxDepth \in Nat

VARIABLES
    constructed,     \* the objects whose __init__ has run
    completed,       \* completed[c], connected[c], waiting[c]: the flags of c
    connected,
    waiting,
    waitlist,        \* ObjfileEventCallback._target_waitlist
    pending,         \* ObjfileEventCallback._pending_list
    paused,          \* ObjfileEventCallback._paused
    loaded,          \* gdb.objfiles()
    target,          \* gdb.current_target() is a LinuxKernelTarget
    stack            \* the registry calls in progress, innermost first

flags == <<completed, connected, waiting>>
lists == <<waitlist, pending>>
world == <<constructed, paused, loaded, target>>
vars == <<constructed, completed, connected, waiting, waitlist, pending,
          paused, loaded, target, stack>>

(***************************************************************************)
(* Frames of the call stack.  `more' counts the handlers of a new_objfile  *)
(* event that gdb has still to call.                                       *)
(***************************************************************************)
EvaluateAllFrame == [op : {"evaluate_all"}, pos : Nat \ {0}, more : Nat]
TargetReadyFrame == [op : {"target_ready"}, pos : Nat \ {0}]
ConnectFrame == [op : {"connect_callback"}, cb : Callbacks]
BodyFrame == [op : {"callback"}, cb : Callbacks]
Frames == EvaluateAllFrame \cup TargetReadyFrame \cup ConnectFrame
              \cup BodyFrame

Push(f, s) == <<f>> \o s
Top == Head(stack)
Running(op) == stack # <<>> /\ Top.op = op

TypeOK ==
    /\ constructed \in SUBSET Callbacks
    /\ completed \in [Callbacks -> BOOLEAN]
    /\ connected \in [Callbacks -> BOOLEAN]
    /\ waiting \in [Callbacks -> BOOLEAN]
    /\ waitlist \in Seq(Callbacks)
    /\ pending \in Seq(Callbacks)
    /\ paused \in BOOLEAN
    /\ loaded \in SUBSET Objfiles
    /\ target \in BOOLEAN
    /\ stack \in Seq(Frames)

Init ==
    /\ constructed = {}
    /\ completed = [c \in Callbacks |-> FALSE]
    /\ connected = [c \in Callbacks |-> FALSE]
    /\ waiting = [c \in Callbacks |-> FALSE]
    /\ waitlist = <<>>
    /\ pending = <<>>
    /\ paused = FALSE
    /\ loaded = {}
    /\ target = FALSE
    /\ stack = <<>>

(***************************************************************************)
(* The registry is called by gdb when no call is in progress, and by the   *)
(* body of a callback that calls back.                                     *)
(***************************************************************************)
CanCall ==
    \/ stack = <<>>
    \/ /\ Running("callback")
       /\ Top.cb \in Reentrant
       /\ Len(stack) < MaxDepth

\* check_ready() finds what it looks for once the object files are there.
Ready(c) == Needs[c] \subseteq loaded

(***************************************************************************)
(* The elements of s that are in T, in order: the list comprehension of    *)
(* _update_pending.  It is SelectSeq, written as a recursive function that *)
(* a proof can unfold.                                                     *)
(***************************************************************************)
Kept(s, T) ==
    LET kept[i \in 0..Len(s)] ==
            IF i = 0 THEN <<>>
            ELSE IF s[i] \in T THEN Append(kept[i - 1], s[i])
            ELSE kept[i - 1]
    IN  kept[Len(s)]

Connected(conn) == {c \in Callbacks : conn[c]}

\* ObjfileEventCallback._update_pending()
UpdatePending(conn) == Kept(pending, Connected(conn))

(***************************************************************************)
(* c.evaluate() called from the frame on top of `below': the body of c is  *)
(* entered when c does not wait and check_ready() returns something.       *)
(***************************************************************************)
Evaluate(c, isWaiting, below) ==
    IF ~isWaiting /\ Ready(c)
    THEN Push([op |-> "callback", cb |-> c], below)
    ELSE below

-----------------------------------------------------------------------------
(* Operations of gdb and of the rest of crash-python.                        *)

\* __init__: sets the flags and connects one more new_objfile handler, for
\* the flag it tests is set on the instance and never on the class.
Construct(c) ==
    /\ CanCall
    /\ c \notin constructed
    /\ constructed' = constructed \cup {c}
    /\ waiting' = [waiting EXCEPT ![c] = c \in WaitForTarget /\ ~target]
    /\ UNCHANGED <<completed, connected, lists, paused, loaded, target, stack>>

\* connect_callback up to its evaluate(): a completed object raises
\* CallbackCompleted and a connected one returns False, neither with effect.
ConnectCallback(c) ==
    /\ CanCall
    /\ c \in constructed
    /\ ~completed[c]
    /\ ~connected[c]
    /\ LET self == Push([op |-> "connect_callback", cb |-> c], stack)
       IN  stack' = IF loaded # {} THEN Evaluate(c, waiting[c], self) ELSE self
    /\ waitlist' = IF waiting[c] THEN Append(waitlist, c) ELSE waitlist
    /\ UNCHANGED <<flags, pending, world>>

\* Fault: connects an object that its evaluate() has just completed.
ConnectReturnUnchecked ==
    /\ Running("connect_callback")
    /\ connected' = [connected EXCEPT ![Top.cb] = TRUE]
    /\ pending' = Append(pending, Top.cb)
    /\ stack' = Tail(stack)
    /\ UNCHANGED <<completed, waiting, waitlist, world>>

\* The rest of connect_callback, after evaluate() has returned.
ConnectReturn ==
    /\ Running("connect_callback")
    /\ LET c == Top.cb
       IN  IF completed[c]
           THEN UNCHANGED <<connected, pending>>
           ELSE /\ connected' = [connected EXCEPT ![c] = TRUE]
                /\ pending' = Append(pending, c)
    /\ stack' = Tail(stack)
    /\ UNCHANGED <<completed, waiting, waitlist, world>>

\* Fault: evaluate_all() does not look at _paused.
NewObjfilePauseIgnored(o) ==
    /\ CanCall
    /\ o \notin loaded
    /\ loaded' = loaded \cup {o}
    /\ stack' = IF constructed = {} THEN stack
                ELSE Push([op |-> "evaluate_all", pos |-> 1,
                           more |-> Cardinality(constructed) - 1], stack)
    /\ UNCHANGED <<flags, lists, constructed, paused, target>>

\* gdb has loaded o and calls the handlers of new_objfile, one per object
\* constructed so far; a paused evaluate_all() returns at once.
NewObjfile(o) ==
    /\ CanCall
    /\ o \notin loaded
    /\ loaded' = loaded \cup {o}
    /\ stack' = IF paused \/ constructed = {} THEN stack
                ELSE Push([op |-> "evaluate_all", pos |-> 1,
                           more |-> Cardinality(constructed) - 1], stack)
    /\ UNCHANGED <<flags, lists, constructed, paused, target>>

Pause ==
    /\ CanCall
    /\ paused' = TRUE
    /\ UNCHANGED <<flags, lists, constructed, loaded, target, stack>>

\* Fault: does not look at what was loaded in the meantime.
UnpauseOnly ==
    /\ CanCall
    /\ paused' = FALSE
    /\ UNCHANGED <<flags, lists, constructed, loaded, target, stack>>

Unpause ==
    /\ CanCall
    /\ paused' = FALSE
    /\ stack' = Push([op |-> "evaluate_all", pos |-> 1, more |-> 0], stack)
    /\ UNCHANGED <<flags, lists, constructed, loaded, target>>

\* TargetBase.open(): the target becomes the current one, then target_ready().
\* The user may open it again.
OpenTarget ==
    /\ stack = <<>>
    /\ loaded # {}
    /\ target' = TRUE
    /\ stack' = Push([op |-> "target_ready", pos |-> 1], stack)
    /\ UNCHANGED <<flags, lists, constructed, paused, loaded>>

-----------------------------------------------------------------------------
(* Steps of the calls in progress.                                           *)

\* The frames left when the evaluate_all() on top of s has ended: gdb calls
\* the next handler of the event, if there is one.
NextHandler(s) ==
    IF Head(s).more > 0 /\ ~paused
    THEN Push([op |-> "evaluate_all", pos |-> 1, more |-> Head(s).more - 1],
              Tail(s))
    ELSE Tail(s)

\* The iterator of the loop on top of s moves on before the body runs.
Advance(s) == [s EXCEPT ![1].pos = @ + 1]

EvaluateAllStep ==
    /\ Running("evaluate_all")
    /\ Top.pos <= Len(pending)
    /\ LET c == pending[Top.pos]
       IN  stack' = Evaluate(c, waiting[c], Advance(stack))
    /\ UNCHANGED <<flags, lists, world>>

\* Fault: leaves the completed objects on the pending list.
EvaluateAllDoneNoUpdate ==
    /\ Running("evaluate_all")
    /\ Top.pos > Len(pending)
    /\ stack' = NextHandler(stack)
    /\ UNCHANGED <<flags, lists, world>>

EvaluateAllDone ==
    /\ Running("evaluate_all")
    /\ Top.pos > Len(pending)
    /\ pending' = UpdatePending(connected)
    /\ stack' = NextHandler(stack)
    /\ UNCHANGED <<flags, waitlist, world>>

\* Fault: the object stops waiting and is not evaluated.
TargetReadyStepOnly ==
    /\ Running("target_ready")
    /\ Top.pos <= Len(waitlist)
    /\ waiting' = [waiting EXCEPT ![waitlist[Top.pos]] = FALSE]
    /\ stack' = Advance(stack)
    /\ UNCHANGED <<completed, connected, lists, world>>

\* complete_wait_for_target() of the next object of the waitlist.
TargetReadyStep ==
    /\ Running("target_ready")
    /\ Top.pos <= Len(waitlist)
    /\ LET c == waitlist[Top.pos]
       IN  /\ waiting' = [waiting EXCEPT ![c] = FALSE]
           /\ stack' = Evaluate(c, FALSE, Advance(stack))
    /\ UNCHANGED <<completed, connected, lists, world>>

TargetReadyDone ==
    /\ Running("target_ready")
    /\ Top.pos > Len(waitlist)
    /\ waitlist' = <<>>
    /\ pending' = UpdatePending(connected)
    /\ stack' = Tail(stack)
    /\ UNCHANGED <<flags, world>>

\* An exception that evaluate() does not catch leaves the body on top and the
\* call that evaluated it, whose remaining work is lost.  gdb prints what a
\* new_objfile handler raises and calls the next handler.
Unwind ==
    LET caller == Tail(stack)
    IN  stack' = IF Head(caller).op = "evaluate_all" THEN NextHandler(caller)
                 ELSE Tail(caller)

\* complete(update_now) of an object that is not complete.
Complete(c, update_now) ==
    /\ completed' = [completed EXCEPT ![c] = TRUE]
    /\ connected' = [connected EXCEPT ![c] = FALSE]
    /\ pending' = IF connected[c] /\ update_now
                  THEN UpdatePending(connected') ELSE pending

\* The body returned None or True.  Only connect_callback calls evaluate()
\* with update_now set.
BodyDone ==
    /\ Running("callback")
    /\ "done" \in Outcomes[Top.cb]
    /\ ~completed[Top.cb]
    /\ Complete(Top.cb, stack[2].op = "connect_callback")
    /\ stack' = Tail(stack)
    /\ UNCHANGED <<waiting, waitlist, world>>

\* complete() of an object that is already complete raises CallbackCompleted.
BodyDoneAgain ==
    /\ Running("callback")
    /\ "done" \in Outcomes[Top.cb]
    /\ completed[Top.cb]
    /\ Unwind
    /\ UNCHANGED <<flags, lists, world>>

\* The body returned False, or raised a gdb.error that evaluate() swallows.
BodyRetry ==
    /\ Running("callback")
    /\ {"retry", "gdb_error"} \cap Outcomes[Top.cb] # {}
    /\ stack' = Tail(stack)
    /\ UNCHANGED <<flags, lists, world>>

\* The body raised something else.
BodyException ==
    /\ Running("callback")
    /\ "exception" \in Outcomes[Top.cb]
    /\ Unwind
    /\ UNCHANGED <<flags, lists, world>>

-----------------------------------------------------------------------------

Calls ==
    \/ \E c \in Callbacks : Construct(c) \/ ConnectCallback(c)
    \/ \E o \in Objfiles : NewObjfile(o)
    \/ Pause
    \/ Unpause
    \/ OpenTarget

Steps ==
    \/ ConnectReturn
    \/ EvaluateAllStep \/ EvaluateAllDone
    \/ TargetReadyStep \/ TargetReadyDone
    \/ BodyDone \/ BodyDoneAgain \/ BodyRetry \/ BodyException

Next == Calls \/ Steps

Spec == Init /\ [][Next]_vars

(***************************************************************************)
(* A call in progress goes on: Python runs it to its end.  Nothing is      *)
(* assumed of gdb and of the user.                                         *)
(***************************************************************************)
FairSpec == Spec /\ WF_vars(Steps)

-----------------------------------------------------------------------------
(* Properties.                                                               *)

Members(s) == {s[i] : i \in DOMAIN s}
NoDuplicates(s) == \A i, j \in DOMAIN s : s[i] = s[j] => i = j

\* What is known of the calls in progress: they are about constructed
\* objects, and a body belongs to an object that does not wait and runs on
\* behalf of the call below it.
StackOK(s, cons, wait) ==
    \A k \in 1..Len(s) :
        /\ s[k].op = "connect_callback" => s[k].cb \in cons
        /\ s[k].op = "callback" => /\ s[k].cb \in cons
                                   /\ ~wait[s[k].cb]
                                   /\ k < Len(s)
                                   /\ s[k + 1].op # "callback"

\* A callback is not entered again once it is complete, whatever lists
\* nested calls before have left behind.
NeverRerun ==
    [][\A c \in Callbacks :
         /\ Len(stack') > Len(stack)
         /\ Head(stack') = [op |-> "callback", cb |-> c]
         => ~completed[c]]_vars

\* The first handler that gdb calls for a load finds no body to enter of a
\* callback that was complete before the load ("Once marked complete, the
\* callback is removed so it doesn't trigger for future objfile loads").  It
\* is the handler with all the others of its event still to come.
FutureLoadsSpared ==
    [][\A c \in Callbacks :
         /\ Running("evaluate_all")
         /\ Top.more > 0 /\ Top.more = Cardinality(constructed) - 1
         /\ Len(stack') > Len(stack)
         /\ Head(stack') = [op |-> "callback", cb |-> c]
         => ~completed[c]]_vars

\* Completion and connection exclude each other, and a callback that waits
\* for the target has not completed, at every point of every nested call.
FlagsAgree ==
    \A c \in Callbacks :
        /\ completed[c] => ~connected[c] /\ ~waiting[c]
        /\ connected[c] => c \in Members(pending)

\* The inductive invariant behind FlagsAgree: what the lists, the flags and
\* the stack mention has been constructed.
CallInv ==
    /\ TypeOK
    /\ FlagsAgree
    /\ Members(pending) \cup Members(waitlist) \subseteq constructed
    /\ \A c \in Callbacks : completed[c] \/ connected[c] => c \in constructed
    /\ StackOK(stack, constructed, waiting)

\* Between calls the two lists hold exactly the objects they are meant to:
\* the pending list the connected ones and the waitlist those among them that
\* still wait, each once.
ListsAgree ==
    stack = <<>> =>
        /\ Members(pending) = {c \in Callbacks : connected[c]}
        /\ Members(waitlist) = {c \in Callbacks : connected[c] /\ waiting[c]}
        /\ NoDuplicates(pending)
        /\ NoDuplicates(waitlist)

\* No wake-up is lost: when nothing runs and the registry is not paused,
\* every connected callback that waits for no target and whose symbols are
\* there has had its call.
NoMissedWakeup ==
    stack = <<>> /\ ~paused /\ loaded # {} =>
        \A c \in Callbacks :
            connected[c] /\ ~waiting[c] /\ Outcomes[c] = {"done"} => ~Ready(c)

\* The bodies call nothing back and raise nothing but gdb.error.
Tame == Reentrant = {} /\ \A c \in Callbacks : "exception" \notin Outcomes[c]

\* The position from which the loop `op' at the bottom of the stack s goes
\* on.  Every element is still to come when that loop is not running.
PosOf(s, op) == IF s # <<>> /\ s[Len(s)].op = op THEN s[Len(s)].pos ELSE 1

\* The elements of l that a loop with the next position pos has taken.
Taken(l, pos) == {l[i] : i \in {j \in 1..Len(l) : j < pos}}
Evaluated == Taken(pending, PosOf(stack, "evaluate_all"))
Woken == Taken(waitlist, PosOf(stack, "target_ready"))

\* The objects whose connect_callback or whose body is in progress.
Subjects(s, op) ==
    {c \in Callbacks : \E k \in 1..Len(s) : s[k].op = op /\ s[k].cb = c}
Connecting == Subjects(stack, "connect_callback")
InBody == Subjects(stack, "callback")

\* c can be called and has not completed.
Due(c) ==
    /\ ~waiting[c] /\ ~completed[c] /\ Outcomes[c] = {"done"}
    /\ loaded # {} /\ Ready(c)

\* At most a body on top of the call that evaluates it.
StackShape ==
    /\ Len(stack) <= 2
    /\ \A k \in 1..Len(stack) :
           stack[k].op = "callback" <=> k = 1 /\ Len(stack) = 2

\* What a loop has not reached holds no completed object.
PendingOK ==
    \A c \in Members(pending) :
        connected[c] \/ (completed[c] /\ (c \in Evaluated \/ c \in Woken))

WaitlistOK ==
    \A c \in Members(waitlist) :
        /\ c \in Members(pending) \/ c \in Connecting
        /\ waiting[c] <=> c \notin Woken

CurrentOK ==
    /\ \A c \in Connecting : ~connected[c] /\ c \notin Members(pending)
    /\ \A c \in InBody :
           /\ ~completed[c]
           /\ c \in Connecting \/ c \in Evaluated \/ c \in Woken

WaitingListed ==
    \A c \in Callbacks :
        waiting[c] /\ (connected[c] \/ c \in Connecting) => c \in Members(waitlist)

\* A callback that is due is one that is being called or that the loop in
\* progress has yet to reach.
DueOK ==
    \A c \in Callbacks : Due(c) =>
        /\ connected[c] /\ ~paused =>
              \/ c \in InBody
              \/ /\ stack # <<>> /\ stack[Len(stack)].op = "evaluate_all"
                 /\ c \notin Evaluated
        /\ c \in Connecting => c \in InBody

\* The inductive invariant behind NeverRerun, ListsAgree and NoMissedWakeup
\* when the bodies are tame.
TameInv ==
    /\ CallInv
    /\ StackShape
    /\ NoDuplicates(pending) /\ NoDuplicates(waitlist)
    /\ CurrentOK
    /\ PendingOK
    /\ WaitlistOK
    /\ WaitingListed
    /\ DueOK

\* A callback that always succeeds is completed once it is connected, needs
\* to wait for no target and finds its symbols, unless the registry is paused.
ReadyCompletes ==
    \A c \in Callbacks :
        (/\ connected[c] /\ ~waiting[c] /\ Outcomes[c] = {"done"}
         /\ loaded # {} /\ Ready(c) /\ ~paused)
        ~> completed[c]

\* evaluate_all() runs only while the registry is not paused, and
\* target_ready() only once there is a target.
CallsOK ==
    stack # <<>> =>
        /\ stack[Len(stack)].op = "evaluate_all" => ~paused
        /\ stack[Len(stack)].op = "target_ready" => target

\* The inductive invariant behind KeepsContract when the bodies are tame.
ContractInv == TameInv /\ CallsOK

\* The phase of an object, read off the flags and the stack: a body on the
\* stack says more than the flags do, and an object being connected counts
\* as connected from the moment its connect_callback is entered.
Phase(c) ==
    IF c \in InBody THEN "running"
    ELSE IF completed[c] THEN "completed"
    ELSE IF connected[c] \/ c \in Connecting THEN "connected"
    ELSE IF c \in constructed THEN "created" ELSE "absent"

Phases == [c \in Callbacks |-> Phase(c)]
Busy == stack # <<>>

Contract == INSTANCE CallbackContract WITH
    phase <- Phases, waits <- waiting, busy <- Busy

\* The registry with its lists, its loops and its nested calls does nothing
\* that the contract of the objects does not allow: a body runs alone, never
\* after completion, never early, never during a pause that does not concern
\* it, and no call returns with a callback left that should have run.
KeepsContract == Contract!Spec
=============================================================================
