-------------------------- MODULE MCObjfileCallbacks --------------------------
(***************************************************************************)
(* Instances of ObjfileCallbacks for TLC.  c1 needs the kernel's own       *)
(* object file, c2 that and a module, c3 only the module; c1 and c3 wait   *)
(* for the target.                                                         *)
(***************************************************************************)
EXTENDS ObjfileCallbacks

CONSTANTS c1, c2, c3, vmlinux, module

MCNeeds == [c \in Callbacks |-> CASE c = c1 -> {vmlinux}
                                  [] c = c2 -> {vmlinux, module}
                                  [] OTHER -> {module}]
MCWait == {c1, c3} \cap Callbacks

\* Bodies that end normally: c3 is the one that may have to be called again.
MCTame == [c \in Callbacks |-> IF c = c3 THEN {"done", "retry", "gdb_error"}
                               ELSE {"done"}]
\* Bodies that may also raise.
MCWild == [c \in Callbacks |-> IF c = c2 THEN {"done", "exception"}
                               ELSE {"done", "retry"}]
\* c2 needs no more than c1 does and always raises, and nobody waits for the
\* target: the module is a load to come after the exception.
MCEarly == [c \in Callbacks |-> IF c = c3 THEN {module} ELSE {vmlinux}]
MCRaises == [c \in Callbacks |-> IF c = c2 THEN {"exception"} ELSE {"done"}]

=============================================================================
