--------------------------- MODULE CallbackContract ---------------------------
(***************************************************************************)
(* What the registry of crash/infra/callback.py promises to the code that  *)
(* derives a class from ObjfileEventCallback, with none of the means: no   *)
(* lists, no loop positions, no call stack.  An object goes through its    *)
(* phases one at a time and never leaves the last one, its body runs       *)
(* alone, only once what it needs is loaded and never while it waits for   *)
(* the target or, unless it is being connected or woken, while the         *)
(* registry is paused; and a call of the registry does not return while a  *)
(* callback that is sure to succeed could still be called.                 *)
(***************************************************************************)

CONSTANTS Callbacks, Objfiles, Needs, WaitForTarget, Outcomes

VARIABLES
    phase,       \* phase[c]: c is "absent", "created", "connected",
                 \* "running" (its body) or "completed"
    waits,       \* waits[c]: c waits for the target
    paused, loaded, target,
    busy         \* a call of the registry is in progress

vars == <<phase, waits, paused, loaded, target, busy>>

Init ==
    /\ phase = [c \in Callbacks |-> "absent"]
    /\ waits = [c \in Callbacks |-> FALSE]
    /\ paused = FALSE /\ loaded = {} /\ target = FALSE /\ busy = FALSE

Ready(c) == Needs[c] \subseteq loaded

\* No body is running.
Alone == \A c \in Callbacks : phase[c] # "running"

\* Some callback is connected, can be called and cannot fail.
Unserved ==
    \E c \in Callbacks :
        /\ phase[c] = "connected" /\ ~waits[c] /\ Outcomes[c] = {"done"}
        /\ loaded # {} /\ Ready(c)

Enter(c, p) == phase' = [phase EXCEPT ![c] = p]

-----------------------------------------------------------------------------
(* Calls of the registry.                                                    *)

Create(c) ==
    /\ ~busy
    /\ phase[c] = "absent"
    /\ Enter(c, "created")
    /\ waits' = [waits EXCEPT ![c] = c \in WaitForTarget /\ ~target]
    /\ UNCHANGED <<paused, loaded, target, busy>>

Connect(c) ==
    /\ ~busy
    /\ phase[c] = "created"
    /\ Enter(c, IF ~waits[c] /\ loaded # {} /\ Ready(c) THEN "running"
                ELSE "connected")
    /\ busy' = TRUE
    /\ UNCHANGED <<waits, paused, loaded, target>>

Load(o) ==
    /\ ~busy
    /\ o \notin loaded
    /\ loaded' = loaded \cup {o}
    /\ busy' = (~paused /\ \E c \in Callbacks : phase[c] # "absent")
    /\ UNCHANGED <<phase, waits, paused, target>>

Pause ==
    /\ ~busy
    /\ paused' = TRUE
    /\ UNCHANGED <<phase, waits, loaded, target, busy>>

Unpause ==
    /\ ~busy
    /\ paused' = FALSE /\ busy' = TRUE
    /\ UNCHANGED <<phase, waits, loaded, target>>

Open ==
    /\ ~busy
    /\ loaded # {}
    /\ target' = TRUE /\ busy' = TRUE
    /\ UNCHANGED <<phase, waits, paused, loaded>>

-----------------------------------------------------------------------------
(* What happens during a call.                                               *)

Call(c) ==
    /\ busy /\ Alone
    /\ ~paused
    /\ phase[c] = "connected" /\ ~waits[c] /\ Ready(c)
    /\ Enter(c, "running")
    /\ UNCHANGED <<waits, paused, loaded, target, busy>>

Wake(c) ==
    /\ busy /\ Alone
    /\ target
    /\ phase[c] = "connected" /\ waits[c]
    /\ waits' = [waits EXCEPT ![c] = FALSE]
    /\ Enter(c, IF Ready(c) THEN "running" ELSE "connected")
    /\ UNCHANGED <<paused, loaded, target, busy>>

Finish(c) ==
    /\ busy
    /\ phase[c] = "running" /\ "done" \in Outcomes[c]
    /\ Enter(c, "completed")
    /\ UNCHANGED <<waits, paused, loaded, target, busy>>

Retry(c) ==
    /\ busy
    /\ phase[c] = "running" /\ Outcomes[c] # {"done"}
    /\ Enter(c, "connected")
    /\ UNCHANGED <<waits, paused, loaded, target, busy>>

Return ==
    /\ busy /\ Alone
    /\ paused \/ ~Unserved
    /\ busy' = FALSE
    /\ UNCHANGED <<phase, waits, paused, loaded, target>>

Next ==
    \/ \E c \in Callbacks : Create(c) \/ Connect(c)
    \/ \E o \in Objfiles : Load(o)
    \/ Pause \/ Unpause \/ Open
    \/ \E c \in Callbacks : Call(c) \/ Wake(c) \/ Finish(c) \/ Retry(c)
    \/ Return

Spec == Init /\ [][Next]_vars
=============================================================================
