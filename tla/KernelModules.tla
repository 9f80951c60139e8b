---------------------------- MODULE KernelModules ----------------------------
(***************************************************************************)
(* CrashKernel.load_modules of crash/kernel.py: for every module of the    *)
(* crashed kernel, find its file in the module path, add its symbols to    *)
(* gdb and, if the file was stripped, find its separate debuginfo.  The    *)
(* objfile callbacks are paused meanwhile.                                 *)
(*                                                                         *)
(* Files are looked up through two caches: modules_order, from the file of *)
(* that name in a directory, and findmap, from a walk of the directory per *)
(* pattern.  A directory may serve for modules and for their debuginfo.    *)
(***************************************************************************)
EXTENDS Integers, Sequences, FiniteSets

CONSTANTS
    Modules,        \* the modules of for_each_module(), in order
    ModulePath,     \* self.module_path
    DebugPath,      \* self.module_debuginfo_path
    Listed,         \* the <<directory, module>> pairs modules.order names
    FileChoices,    \* what the directories may hold for each module
    DebugChoices    \* what they may hold as its debuginfo

Dirs == {ModulePath[i] : i \in DOMAIN ModulePath}
            \cup {DebugPath[i] : i \in DOMAIN DebugPath}
Mods == {Modules[i] : i \in DOMAIN Modules}

(***************************************************************************)
(* A module file: with symbols, without, for another kernel (vermagic or   *)
(* srcversion differs), not to be opened (OSError), or one that gdb's      *)
(* add-symbol-file rejects.                                                *)
(***************************************************************************)
FileKinds == {"none", "full", "stripped", "mismatch", "oserror", "rejected"}
\* A debuginfo file: one with the symbols, or one that does not help.
DebugKinds == {"none", "good", "useless"}

ConstantsOK ==
    /\ Modules \in Seq(Mods) /\ ModulePath \in Seq(Dirs) /\ DebugPath \in Seq(Dirs)
    /\ \A x, y \in DOMAIN Modules : Modules[x] = Modules[y] => x = y
    /\ Listed \subseteq Dirs \X Mods
    /\ FileChoices \subseteq [Dirs \X Mods -> FileKinds]
    /\ DebugChoices \subseteq [Dirs \X Mods -> [byid : DebugKinds, named : DebugKinds]]
    /\ DebugChoices # {}

VARIABLES
    file, debug,    \* what the directories hold, fixed in Init
    pc,             \* where load_modules is
    m, p,           \* the indices of its loops over modules and directories
    d,              \* the index of the loop in _load_module_debuginfo
    order,          \* self.modules_order: the directories cached
    findmap,        \* self.findmap: per directory the patterns walked
    added,          \* the <<module, directory>> gdb was given, in order
    symbols,        \* the modules whose objfile has symbols
    loaded, failed, \* the two counters
    paused,         \* ObjfileEventCallback._paused
    unseen          \* modules added while paused that no callback has seen

fs == <<file, debug>>
caches == <<order, findmap>>
counters == <<loaded, failed>>
vars == <<file, debug, pc, m, p, d, order, findmap, added, symbols, loaded,
          failed, paused, unseen>>

AnyFiles == file \in FileChoices /\ debug \in DebugChoices
Begin ==
    /\ pc = "start" /\ m = 1 /\ p = 1 /\ d = 1
    /\ order = {} /\ findmap = [x \in Dirs |-> {}]
    /\ added = <<>> /\ symbols = {} /\ loaded = 0 /\ failed = 0
    /\ paused = FALSE /\ unseen = {}

\* From the call to the loop over the modules.
Start ==
    /\ pc = "start"
    /\ paused' = TRUE
    /\ pc' = "module"
    /\ UNCHANGED <<fs, m, p, d, caches, added, symbols, counters, unseen>>

\* The head of the loop over the modules.
NextModule ==
    /\ pc = "module" /\ m <= Len(Modules)
    /\ p' = 1 /\ pc' = "path"
    /\ UNCHANGED <<fs, m, d, caches, added, symbols, counters, paused, unseen>>

(***************************************************************************)
(* _cache_file_tree: walk a directory unless the pattern was walked; the   *)
(* files dictionary has what the patterns walked so far match.             *)
(***************************************************************************)
WalkOnce(dir, pattern) == IF findmap[dir] # {} THEN findmap
                          ELSE [findmap EXCEPT ![dir] = {pattern}]
Walk(dir, pattern) == [findmap EXCEPT ![dir] = @ \cup {pattern}]
Cached(walked, dir, pattern, present) == pattern \in walked[dir] /\ present

Module == Modules[m]
Dir == ModulePath[p]

(***************************************************************************)
(* One turn of the loop over the module path: _find_module_file, then      *)
(* try_load_module.  A file that does not fit or cannot be opened sends    *)
(* the loop to the next directory; what gdb rejects is raised as           *)
(* CrashKernelError and leaves load_modules.                               *)
(***************************************************************************)
InOrder == <<Dir, Module>> \in Listed /\ file[<<Dir, Module>>] # "none"
Found(walked) == \/ InOrder
                 \/ Cached(walked, Dir, "*.ko", file[<<Dir, Module>>] # "none")
AddModule == /\ added' = Append(added, <<Module, Dir>>)
             /\ unseen' = IF paused THEN unseen \cup {Module} ELSE unseen
TryPathOn ==
    /\ pc = "path" /\ p <= Len(ModulePath)
    /\ order' = order \cup {Dir}
    /\ findmap' = IF InOrder THEN findmap ELSE Walk(Dir, "*.ko")
    /\ IF Found(findmap') /\ file[<<Dir, Module>>] \in {"full", "stripped"}
       THEN /\ AddModule
            /\ symbols' = IF file[<<Dir, Module>>] = "full"
                          THEN symbols \cup {Module} ELSE symbols
       ELSE UNCHANGED <<added, symbols, unseen>>
    /\ p' = p + 1 /\ pc' = "path"
    /\ UNCHANGED <<fs, m, d, counters, paused>>
TryPath ==
    /\ pc = "path" /\ p <= Len(ModulePath)
    /\ order' = order \cup {Dir}
    /\ findmap' = IF InOrder THEN findmap ELSE Walk(Dir, "*.ko")
    /\ \/ /\ ~Found(findmap') \/ file[<<Dir, Module>>] \in {"mismatch", "oserror"}
          /\ p' = p + 1
          /\ UNCHANGED <<pc, d, added, symbols, unseen>>
       \/ /\ Found(findmap') /\ file[<<Dir, Module>>] = "rejected"
          /\ pc' = "raised"
          /\ UNCHANGED <<p, d, added, symbols, unseen>>
       \/ /\ Found(findmap') /\ file[<<Dir, Module>>] = "full"
          /\ AddModule
          /\ symbols' = symbols \cup {Module} /\ pc' = "account"
          /\ UNCHANGED <<p, d>>
       \/ /\ Found(findmap') /\ file[<<Dir, Module>>] = "stripped"
          /\ AddModule
          /\ d' = 1 /\ pc' = "debuginfo"
          /\ UNCHANGED <<p, symbols>>
    /\ UNCHANGED <<fs, m, counters, paused>>

\* The module path is exhausted without success.
NoPath ==
    /\ pc = "path" /\ p > Len(ModulePath)
    /\ pc' = "account"
    /\ UNCHANGED <<fs, m, p, d, caches, added, symbols, counters, paused, unseen>>

(***************************************************************************)
(* One turn of the loop in _load_module_debuginfo: the file named by the   *)
(* build id, then the one found by the module's name.                      *)
(***************************************************************************)
TryDebugDir ==
    /\ pc = "debuginfo" /\ d <= Len(DebugPath)
    /\ LET dir == DebugPath[d]
           has == debug[<<dir, Module>>]
       IN  /\ findmap' = IF has.byid = "good" THEN findmap
                         ELSE Walk(dir, "*.ko.debug")
           /\ IF \/ has.byid = "good"
                 \/ /\ Cached(findmap', dir, "*.ko.debug", has.named # "none")
                    /\ has.named = "good"
              THEN symbols' = symbols \cup {Module} /\ pc' = "account" /\ UNCHANGED d
              ELSE d' = d + 1 /\ UNCHANGED <<pc, symbols>>
    /\ UNCHANGED <<fs, m, p, order, added, counters, paused, unseen>>

NoDebuginfo ==
    /\ pc = "debuginfo" /\ d > Len(DebugPath)
    /\ pc' = "account"
    /\ UNCHANGED <<fs, m, p, d, caches, added, symbols, counters, paused, unseen>>

\* The rest of the loop over the modules: the counters.
Account ==
    /\ pc = "account"
    /\ IF p <= Len(ModulePath) THEN loaded' = loaded + 1 /\ UNCHANGED failed
                               ELSE failed' = failed + 1 /\ UNCHANGED loaded
    /\ m' = m + 1 /\ pc' = "module"
    /\ UNCHANGED <<fs, p, d, caches, added, symbols, paused, unseen>>

(***************************************************************************)
(* After the loop: drop findmap and unpause the callbacks, which evaluates *)
(* all of them.                                                            *)
(***************************************************************************)
FinishPaused ==
    /\ pc = "module" /\ m > Len(Modules)
    /\ findmap' = [x \in Dirs |-> {}]
    /\ pc' = "done"
    /\ UNCHANGED <<fs, m, p, d, order, added, symbols, counters, paused, unseen>>
Finish ==
    /\ pc = "module" /\ m > Len(Modules)
    /\ findmap' = [x \in Dirs |-> {}]
    /\ paused' = FALSE /\ unseen' = {}
    /\ pc' = "done"
    /\ UNCHANGED <<fs, m, p, d, order, added, symbols, counters>>

Step == \/ NextModule \/ TryPath \/ NoPath \/ TryDebugDir
        \/ NoDebuginfo \/ Account \/ Finish

-----------------------------------------------------------------------------
Fits(i, x) == file[<<ModulePath[i], x>>] \in {"full", "stripped"}
Stops(i, x) == file[<<ModulePath[i], x>>] = "rejected"
FirstIn(S) == CHOOSE i \in S : \A j \in S : i <= j
Candidates(x) == {i \in DOMAIN ModulePath : Fits(i, x) \/ Stops(i, x)}
DebugHelps(x) == \E i \in DOMAIN DebugPath :
                     "good" \in {debug[<<DebugPath[i], x>>].byid,
                                 debug[<<DebugPath[i], x>>].named}

(***************************************************************************)
(* Each module goes to gdb once at most, from the first directory of the   *)
(* module path that has a file fit for it; and when load_modules returns,  *)
(* every module that has such a file was loaded and the others counted as  *)
(* failed.                                                                 *)
(***************************************************************************)
FirstFitLoaded ==
    /\ \A i \in DOMAIN added :
           /\ added[i][2] = ModulePath[FirstIn(Candidates(added[i][1]))]
           /\ \A j \in DOMAIN added : added[i][1] = added[j][1] => i = j
    /\ pc = "done" =>
           /\ loaded = Len(added) /\ loaded + failed = Len(Modules)
           /\ \A x \in Mods : Candidates(x) # {} =>
                  \E i \in DOMAIN added : added[i][1] = x

(***************************************************************************)
(* The caches lose no file: when load_modules returns, a module that was   *)
(* loaded has symbols exactly if its file had them or some directory of    *)
(* the debuginfo path holds them, also where that directory was walked     *)
(* before for the modules themselves.                                      *)
(***************************************************************************)
DebuginfoFound ==
    pc = "done" => \A i \in DOMAIN added :
        added[i][1] \in symbols <=>
            \/ file[<<added[i][2], added[i][1]>>] = "full"
            \/ DebugHelps(added[i][1])

(***************************************************************************)
(* Callbacks are not run while modules are being added, and when           *)
(* load_modules returns they have been offered every module that was.      *)
(***************************************************************************)
CallbacksSeeModules ==
    /\ pc \in {"module", "path", "debuginfo", "account"} =>
           paused /\ unseen = {added[i][1] : i \in DOMAIN added}
    /\ pc = "done" => ~paused /\ unseen = {}

=============================================================================
