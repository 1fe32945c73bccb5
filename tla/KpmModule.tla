------------------------------ MODULE KpmModule ------------------------------
(***************************************************************************)
(* Loading, controlling and unloading kernel patch modules,                *)
(* kernel/patch/module/module.c.                                           *)
(*                                                                         *)
(* The supercalls run in the threads of the processes that make them and   *)
(* module_lock is never taken, so a call is a sequence of steps any other  *)
(* call may come between.  A module's init, exit and control functions are *)
(* its own code: here they run for a while and return.                     *)
(***************************************************************************)
EXTENDS Integers, FiniteSets

CONSTANTS
    Thread, Name,
    Mod,       \* memory for struct module
    Buf,       \* memory for control arguments
    Calls,     \* Calls[t]: the supercalls a thread makes
    Names,     \* Names[t]: the modules it makes them about
    Ctl,       \* the modules that have the sections .kpm.ctl0 and .kpm.ctl1
    HEAD,      \* modules.list
    POISON,    \* LIST_POISON1 and LIST_POISON2
    NIL,      \* nothing
    MaxKpmCalls \* bound on the number of calls

Op == {"load", "unload", "control0", "control1", "info", "list"}

\* The calls that change the list.
Changes == {"load", "unload"}

ASSUME ModuleAssumption ==
    /\ IsFiniteSet(Mod) /\ MaxKpmCalls \in Nat
    /\ {HEAD, POISON, NIL} \cap (Mod \cup Buf \cup Name) = {}
    /\ HEAD # POISON /\ HEAD # NIL /\ POISON # NIL
    /\ Calls \in [Thread -> SUBSET Op] /\ Names \in [Thread -> SUBSET Name]
    /\ Ctl \subseteq Name

VARIABLES
    next, prev,  \* list pointers of the modules and of the head
    parts,       \* what is allocated for a module: struct, args, exec memory
    name,        \* mod->info.name
    stage,       \* which of its functions was called last
    ctl_args,    \* mod->ctl_args
    bufs,        \* the argument buffers that are allocated
    pc, op, arg, \* where a thread is, in which call, about which name
    cur,         \* mod or pos, HEAD at the end of the list
    last,        \* the tail a load is about to link behind
    buf,         \* the arguments a control function was given
    depth,       \* read sections a thread has open
    found,       \* history: modules whose load returned 0 and no unload removed
    missed,      \* history: info calls about a module that is not there
    overlap,     \* history: which kinds of calls ran at the same time (see Meet)
    kpmCalls

list == <<next, prev>>
held == <<parts, name, stage, ctl_args, bufs>>
local == <<pc, op, arg, cur, last, buf>>
hist == <<found, missed, overlap>>
kpmVars == <<list, held, local, depth, hist, kpmCalls>>

Part == {"struct", "args", "exec"}
KpmInit ==
    /\ next = [m \in Mod \cup {HEAD} |-> IF m = HEAD THEN HEAD ELSE NIL]
    /\ prev = [m \in Mod \cup {HEAD} |-> IF m = HEAD THEN HEAD ELSE NIL]
    /\ parts = [m \in Mod |-> {}] /\ name = [m \in Mod |-> NIL]
    /\ stage = [m \in Mod |-> "none"] /\ ctl_args = [m \in Mod |-> NIL] /\ bufs = {}
    /\ pc = [t \in Thread |-> "idle"] /\ op = [t \in Thread |-> NIL]
    /\ arg = [t \in Thread |-> NIL] /\ cur = [t \in Thread |-> NIL]
    /\ last = [t \in Thread |-> NIL] /\ buf = [t \in Thread |-> NIL]
    /\ depth = [t \in Thread |-> 0] /\ missed = [t \in Thread |-> 0]
    /\ found = {} /\ overlap = {} /\ kpmCalls = 0

-----------------------------------------------------------------------------
\* The modules that a walk from the head comes by.
ModuleAt[k \in 0 .. Cardinality(Mod)] ==
    IF k = 0 THEN next[HEAD]
    ELSE IF ModuleAt[k - 1] \in Mod THEN next[ModuleAt[k - 1]] ELSE ModuleAt[k - 1]

ListedModules == {ModuleAt[k] : k \in 0 .. Cardinality(Mod)} \cap Mod

Goto(t, label) == pc' = [pc EXCEPT ![t] = label]

InCall(t, o, label) == pc[t] = label /\ op[t] = o

Return(t) ==
    /\ Goto(t, "idle")
    /\ op' = [op EXCEPT ![t] = NIL] /\ arg' = [arg EXCEPT ![t] = NIL]
    /\ cur' = [cur EXCEPT ![t] = NIL] /\ last' = [last EXCEPT ![t] = NIL]
    /\ buf' = [buf EXCEPT ![t] = NIL]

\* All calls but load_module open a read section.
rcu_read_unlock(t) == depth' = [depth EXCEPT ![t] = @ - 1]

\* Call o about n begins while u is in a call: one more call; an unload, which may
\* take what the other uses, or a second control0 of one module; two that change
\* the list.
Meet(kind, o, n, u) ==
    \/ kind = "calls"
    \/ kind = "uses" /\ \/ "unload" \in {o, op[u]}
                        \/ o = "control0" /\ op[u] = o /\ arg[u] = n
    \/ kind = "changes" /\ {o, op[u]} \subseteq Changes

\* Every call begins with a walk along the list; get_module_nums and list_modules
\* are nothing else.
BeginCall(t, o, n) ==
    /\ pc[t] = "idle" /\ kpmCalls < MaxKpmCalls
    /\ o \in Calls[t] /\ n \in IF o = "list" THEN {NIL} ELSE Names[t]
    /\ kpmCalls' = kpmCalls + 1
    /\ Goto(t, "find")
    /\ op' = [op EXCEPT ![t] = o] /\ arg' = [arg EXCEPT ![t] = n]
    /\ cur' = [cur EXCEPT ![t] = next[HEAD]]
    /\ depth' = IF o = "load" THEN depth ELSE [depth EXCEPT ![t] = @ + 1]
    /\ overlap' = overlap \cup {kind \in {"calls", "uses", "changes"} :
                                   \E u \in Thread : pc[u] # "idle" /\ Meet(kind, o, n, u)}
    /\ UNCHANGED <<list, held, last, buf, found, missed>>

\* The strcmp of find_module.
HasName(t) == name[cur[t]] = arg[t]

Found(t, o) == InCall(t, o, "find") /\ cur[t] \in Mod /\ HasName(t)

Absent(t, o) == InCall(t, o, "find") /\ cur[t] = HEAD

FindNext(t) ==
    /\ pc[t] = "find" /\ cur[t] \in Mod /\ ~HasName(t)
    /\ cur' = [cur EXCEPT ![t] = next[cur[t]]]
    /\ UNCHANGED <<list, held, pc, op, arg, last, buf, depth, hist, kpmCalls>>

\* The element a walk stood on was unlinked by list_del, which poisons it.
FindFault(t) ==
    /\ pc[t] = "find" /\ cur[t] = POISON
    /\ Goto(t, "fault")
    /\ UNCHANGED <<list, held, op, arg, cur, last, buf, depth, hist, kpmCalls>>

-----------------------------------------------------------------------------
\* load_module

LoadExists(t) ==
    /\ Found(t, "load")
    /\ Return(t)
    /\ UNCHANGED <<list, held, depth, hist, kpmCalls>>

\* What a failure before init has taken, and what the label it goes to frees.
Failure == { [taken |-> {}, freed |-> {}],
             [taken |-> {"struct"}, freed |-> {"struct"}],
             [taken |-> {"struct", "args"}, freed |-> {"args", "exec", "struct"}],
             [taken |-> Part, freed |-> {"args", "exec", "struct"}] }

LoadFails(t) ==
    /\ Absent(t, "load")
    /\ \E m \in Mod, f \in Failure :
          /\ parts[m] = {}
          /\ parts' = [parts EXCEPT ![m] = f.taken \ f.freed]
    /\ Return(t)
    /\ UNCHANGED <<list, name, stage, ctl_args, bufs, depth, hist, kpmCalls>>

LoadInit(t) ==
    /\ Absent(t, "load")
    /\ \E m \in Mod :
          /\ parts[m] = {}
          /\ parts' = [parts EXCEPT ![m] = Part]
          /\ name' = [name EXCEPT ![m] = arg[t]]
          /\ stage' = [stage EXCEPT ![m] = "init"]
          /\ cur' = [cur EXCEPT ![t] = m]
    /\ Goto(t, "init")
    /\ UNCHANGED <<list, ctl_args, bufs, op, arg, last, buf, depth, hist, kpmCalls>>

\* Mutant: exit is not called for a module whose init failed.
LoadInitNoExit(t) ==
    /\ InCall(t, "load", "init")
    /\ Goto(t, "exit")
    /\ UNCHANGED <<list, held, op, arg, cur, last, buf, depth, hist, kpmCalls>>

\* init returned an error: exit is called, then everything is freed.
LoadInitFails(t) ==
    /\ InCall(t, "load", "init")
    /\ stage' = [stage EXCEPT ![cur[t]] = "exit"]
    /\ Goto(t, "exit")
    /\ UNCHANGED <<list, parts, name, ctl_args, bufs, op, arg, cur, last, buf, depth, hist, kpmCalls>>

Free(m) ==
    /\ parts' = [parts EXCEPT ![m] = {}]
    /\ name' = [name EXCEPT ![m] = NIL]
    /\ stage' = [stage EXCEPT ![m] = "none"]
    /\ ctl_args' = [ctl_args EXCEPT ![m] = NIL]
    /\ next' = [next EXCEPT ![m] = NIL] /\ prev' = [prev EXCEPT ![m] = NIL]

LoadFree(t) ==
    /\ InCall(t, "load", "exit")
    /\ Free(cur[t]) /\ Return(t)
    /\ UNCHANGED <<bufs, depth, hist, kpmCalls>>

\* init returned 0: list_add_tail, which first loads the tail.
LoadTail(t) ==
    /\ InCall(t, "load", "init")
    /\ stage' = [stage EXCEPT ![cur[t]] = "up"]
    /\ last' = [last EXCEPT ![t] = prev[HEAD]]
    /\ Goto(t, "link")
    /\ UNCHANGED <<list, parts, name, ctl_args, bufs, op, arg, cur, buf, depth, hist, kpmCalls>>

LoadLink(t) ==
    LET m == cur[t] IN
    /\ InCall(t, "load", "link")
    /\ prev' = [prev EXCEPT ![HEAD] = m, ![m] = last[t]]
    /\ next' = [next EXCEPT ![m] = HEAD, ![last[t]] = m]
    /\ found' = found \cup {m}
    /\ Return(t)
    /\ UNCHANGED <<held, depth, missed, overlap, kpmCalls>>

-----------------------------------------------------------------------------
\* unload_module

UnloadAbsent(t) ==
    /\ Absent(t, "unload")
    /\ rcu_read_unlock(t) /\ Return(t)
    /\ UNCHANGED <<list, held, hist, kpmCalls>>

\* Mutant: exit is called for a module that stays on the list.
UnloadNoDelete(t) ==
    LET m == cur[t] IN
    /\ Found(t, "unload")
    /\ stage' = [stage EXCEPT ![m] = "exit"]
    /\ found' = found \ {m}
    /\ Goto(t, "unload")
    /\ UNCHANGED <<list, parts, name, ctl_args, bufs, op, arg, cur, last, buf, depth, missed, overlap, kpmCalls>>

\* Mutant: the memory is freed before exit is called.
UnloadFreeFirst(t) ==
    LET m == cur[t] IN
    /\ Found(t, "unload")
    /\ prev[m] \in Mod \cup {HEAD}
    /\ prev' = [prev EXCEPT ![next[m]] = prev[m], ![m] = POISON]
    /\ next' = [next EXCEPT ![prev[m]] = next[m], ![m] = POISON]
    /\ parts' = [parts EXCEPT ![m] = {}]
    /\ stage' = [stage EXCEPT ![m] = "exit"]
    /\ found' = found \ {m}
    /\ Goto(t, "unload")
    /\ UNCHANGED <<name, ctl_args, bufs, op, arg, cur, last, buf, depth, missed, overlap, kpmCalls>>

\* list_del, then exit is called.
UnloadDelete(t) ==
    LET m == cur[t] IN
    /\ Found(t, "unload")
    /\ prev[m] \in Mod \cup {HEAD}
    /\ prev' = [prev EXCEPT ![next[m]] = prev[m], ![m] = POISON]
    /\ next' = [next EXCEPT ![prev[m]] = next[m], ![m] = POISON]
    /\ stage' = [stage EXCEPT ![m] = "exit"]
    /\ found' = found \ {m}
    /\ Goto(t, "unload")
    /\ UNCHANGED <<parts, name, ctl_args, bufs, op, arg, cur, last, buf, depth, missed, overlap, kpmCalls>>

\* Another unload has been there, or the module is not linked yet: list_del
\* stores through the poison or through a null pointer.
UnloadFault(t) ==
    /\ Found(t, "unload")
    /\ prev[cur[t]] \in {POISON, NIL}
    /\ Goto(t, "fault")
    /\ UNCHANGED <<list, held, op, arg, cur, last, buf, depth, hist, kpmCalls>>

\* exit has returned: everything is freed at once.
UnloadFree(t) ==
    /\ InCall(t, "unload", "unload")
    /\ bufs' = bufs \ {ctl_args[cur[t]]}
    /\ Free(cur[t])
    /\ rcu_read_unlock(t) /\ Return(t)
    /\ UNCHANGED <<hist, kpmCalls>>

-----------------------------------------------------------------------------
\* module_control0

ControlAbsent(t) ==
    /\ Absent(t, "control0") \/ Absent(t, "control1")
    /\ rcu_read_unlock(t) /\ Return(t)
    /\ UNCHANGED <<list, held, hist, kpmCalls>>

\* mod->ctl0 points to the section; without one the test "!*mod->ctl0" reads
\* through a null pointer.
ControlFault(t) ==
    /\ Found(t, "control0") \/ Found(t, "control1")
    /\ arg[t] \notin Ctl
    /\ Goto(t, "fault")
    /\ UNCHANGED <<list, held, op, arg, cur, last, buf, depth, hist, kpmCalls>>

\* The arguments of the last call are freed; the pointer stays until "alloc".
ControlFreeArgs(t) ==
    /\ Found(t, "control0") /\ arg[t] \in Ctl
    /\ bufs' = bufs \ {ctl_args[cur[t]]}
    /\ Goto(t, "alloc")
    /\ UNCHANGED <<list, parts, name, stage, ctl_args, op, arg, cur, last, buf, depth, hist, kpmCalls>>

ControlNoMemory(t) ==
    /\ InCall(t, "control0", "alloc")
    /\ ctl_args' = [ctl_args EXCEPT ![cur[t]] = NIL]
    /\ rcu_read_unlock(t) /\ Return(t)
    /\ UNCHANGED <<list, parts, name, stage, bufs, hist, kpmCalls>>

ControlAlloc(t) ==
    /\ InCall(t, "control0", "alloc")
    /\ \E b \in Buf \ bufs :
          /\ bufs' = bufs \cup {b}
          /\ ctl_args' = [ctl_args EXCEPT ![cur[t]] = b]
    /\ Goto(t, "call")
    /\ UNCHANGED <<list, parts, name, stage, op, arg, cur, last, buf, depth, hist, kpmCalls>>

\* ctl0 is called with what mod->ctl_args holds now.
ControlCall(t) ==
    /\ InCall(t, "control0", "call")
    /\ buf' = [buf EXCEPT ![t] = ctl_args[cur[t]]]
    /\ Goto(t, "running")
    /\ UNCHANGED <<list, held, op, arg, cur, last, depth, hist, kpmCalls>>

\* module_control1 has no arguments to keep.
Control1Call(t) ==
    /\ Found(t, "control1") /\ arg[t] \in Ctl
    /\ Goto(t, "running")
    /\ UNCHANGED <<list, held, op, arg, cur, last, buf, depth, hist, kpmCalls>>

ControlReturn(t) ==
    /\ pc[t] = "running"
    /\ rcu_read_unlock(t) /\ Return(t)
    /\ UNCHANGED <<list, held, hist, kpmCalls>>

\* get_module_info

InfoReturn(t) ==
    /\ Found(t, "info")
    /\ rcu_read_unlock(t) /\ Return(t)
    /\ UNCHANGED <<list, held, hist, kpmCalls>>

\* The early return leaves the read section open.
InfoAbsent(t) ==
    /\ Absent(t, "info")
    /\ missed' = [missed EXCEPT ![t] = @ + 1]
    /\ Return(t)
    /\ UNCHANGED <<list, held, depth, found, overlap, kpmCalls>>

\* get_module_nums, list_modules: the walk was all.
ListReturn(t) ==
    /\ Absent(t, "list")
    /\ rcu_read_unlock(t) /\ Return(t)
    /\ UNCHANGED <<list, held, hist, kpmCalls>>

CallStep(t) ==
    \/ FindNext(t) \/ FindFault(t)
    \/ LoadExists(t) \/ LoadFails(t) \/ LoadInit(t) \/ LoadInitFails(t) \/ LoadFree(t)
    \/ LoadTail(t) \/ LoadLink(t)
    \/ UnloadAbsent(t) \/ UnloadDelete(t) \/ UnloadFault(t) \/ UnloadFree(t)
    \/ ControlAbsent(t) \/ ControlFault(t) \/ ControlFreeArgs(t) \/ ControlNoMemory(t) \/ ControlAlloc(t)
    \/ ControlCall(t) \/ Control1Call(t) \/ ControlReturn(t)
    \/ InfoReturn(t) \/ InfoAbsent(t) \/ ListReturn(t)

KpmNext == \E t \in Thread : CallStep(t) \/ \E o \in Op, n \in Name \cup {NIL} : BeginCall(t, o, n)

KpmSpec == KpmInit /\ [][KpmNext]_kpmVars

-----------------------------------------------------------------------------
\* Properties

\* What module_lock would give if every call took it in the way of a lock for
\* readers and writers: no unload, and no second control of the same module,
\* beside a call.
Gentle == overlap \cap {"uses", "changes"} = {}

\* The struct module a call works on and the code it runs are allocated.
CodeStaysWhileUsed ==
    \A t \in Thread :
        /\ pc[t] \notin {"idle", "fault"} /\ cur[t] \in Mod => "struct" \in parts[cur[t]]
        /\ pc[t] \in {"init", "running"} => "exec" \in parts[cur[t]]
        /\ pc[t] = "link" /\ last[t] \in Mod => "struct" \in parts[last[t]]

\* The arguments a control function was given stay its own until it returns.
ArgsStayWhileUsed ==
    \A t \in Thread : pc[t] = "running" /\ buf[t] # NIL =>
        /\ buf[t] \in bufs
        /\ \A u \in Thread \ {t} : pc[u] = "running" => buf[u] # buf[t]

\* Whatever loads, controls and walks overlap (module.c:536-564, 592-602), nobody
\* works on memory that is not a module's any more, or on another's arguments.
UsedStaysAllocated == Gentle => CodeStaysWhileUsed /\ ArgsStayWhileUsed

\* Loads and unloads came one after another, in between any other calls.
Orderly == "changes" \notin overlap

\* find_module's answer is unique: a module that exists is not loaded again.
OneModulePerName == \A m, n \in ListedModules : name[m] = name[n] => m = n

\* What the calls can find are the modules whose load returned 0 and whose unload
\* has not begun, and each of them has been initialised and not left.
ListedAreUp == found = ListedModules /\ \A m \in ListedModules : stage[m] = "up"

\* Calls that came one after another leave nothing allocated that does not
\* belong to a listed module, whichever of their steps failed, and no read
\* section open but those of a get_module_info that found no such name.
NothingLost ==
    (overlap = {} /\ \A t \in Thread : pc[t] = "idle") =>
        /\ \A m \in Mod : parts[m] # {} => m \in ListedModules
        /\ bufs \subseteq {ctl_args[m] : m \in ListedModules}
        /\ \A t \in Thread : depth[t] = missed[t]

\* The list of modules (module.c:395-483): every load and unload, also one that
\* fails at any step, leaves it with the modules that are up, one of a name, and
\* leaves nothing behind.
ListHoldsModulesUp == (Orderly => OneModulePerName /\ ListedAreUp) /\ NothingLost

\* Module memory is freed only after its exit function ran, also when init failed.
FreedAfterExit ==
    [][\A m \in Mod : "exec" \in parts[m] /\ "exec" \notin parts'[m] => stage[m] = "exit"]_kpmVars
=============================================================================
