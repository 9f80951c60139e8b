------------------------------ MODULE MCSession ------------------------------
(***************************************************************************)
(* Instances of Session for TLC: the three classes of targets of the       *)
(* repository, two CPUs and three tasks, two of which are idle tasks and   *)
(* share pid 0; two modules, two directories of the module path, the       *)
(* second of which is also the first of the debuginfo path; modules.order  *)
(* of the first lists one module.                                          *)
(***************************************************************************)
EXTENDS Session

CONSTANTS m1, m2, modules, lib, dbg

MCTargets == <<"X8664ThreadReturnTarget", "X8664InactiveFrameTarget",
               "PPC64Target">>
MCEnablers == [c \in {MCTargets[j] : j \in 1..3} |->
                  CASE c = "X8664ThreadReturnTarget" -> {"thread_return"}
                    [] c = "X8664InactiveFrameTarget" -> {"inactive_task_frame"}
                    [] OTHER -> {}]
MCThreads == <<"idle0", "init", "idle1">>
MCPid == [t \in {MCThreads[j] : j \in 1..3} |-> IF t = "init" THEN 1 ELSE 0]

MCModules == <<m1, m2>>
MCModulePath == <<modules, lib>>
MCDebugPath == <<lib, dbg>>
MCListed == {<<modules, m1>>}
Places == {modules, lib, dbg} \X {m1, m2}

Files == {"none", "full", "stripped", "mismatch", "oserror", "rejected"}
MCFiles == {f \in [Places -> Files] : \A x \in {m1, m2} : f[dbg, x] = "none"}

\* Only the first module has debuginfo somewhere.
Lacking == [byid |-> "none", named |-> "none"]
MCDebug == {[y \in Places |->
                CASE y = <<lib, m1>> -> [byid |-> a, named |-> b]
                  [] y = <<dbg, m1>> -> [byid |-> "none", named |-> c]
                  [] y = <<lib, m2>> -> [byid |-> "none", named |-> "good"]
                  [] OTHER -> Lacking] : a, b, c \in {"none", "good", "useless"}}

=============================================================================
