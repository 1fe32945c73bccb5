------------------------------ MODULE Syscalls ------------------------------
(* syscall.c: where the code of a system call is, how its arguments are     *)
(* passed, and how it is hooked: in the table when the table is known, at   *)
(* its code otherwise.  The kernel is a build; kallsyms answers for it.     *)
(* HookTable and HookChain say what a hook does at its place.               *)
EXTENDS Integers, FiniteSets, Sequences

CONSTANTS Numbers,          \* system call numbers, of which
          Shared32,         \* these have one function for both kinds of callers
          Unnamed64, Unnamed32, \* and these have no entry in the two name tables
          narg,             \* how many arguments each takes, and hooks are told
          Callbacks,
          Hidden32          \* whether a kernel may hide its 32-bit table

\* the arguments the model tells apart are Args
ASSUME SyscallsAssumption ==
    /\ Shared32 \subseteq Numbers /\ Hidden32 \in BOOLEAN
    /\ narg \in [Numbers -> 0 .. 3]

VARIABLES build,            \* the kernel
          sys_call_table, compat_sys_call_table, has_config_compat, has_syscall_wrapper,
          cached,           \* the addresses kept in the two name tables
          chains,           \* the hook chain at a slot of a table or at code
          hooked            \* what callers hooked, was answered 0 and not taken back

tables == <<build, sys_call_table, compat_sys_call_table, has_config_compat, has_syscall_wrapper>>
yvars == <<tables, cached, chains, hooked>>

NoAddr == <<>>
Calls == BOOLEAN \X Numbers           \* <<is_compat, nr>>
Builds == [wrapper : BOOLEAN, compat : BOOLEAN, table : BOOLEAN, ctable : BOOLEAN,
           suffix : {".cfi_jt", ".cfi", ""}]
RealBuild(b) == /\ b.ctable => b.compat
                /\ b.compat => b.ctable \/ Hidden32
Real(call) == call[1] => build.compat

Function(call) == IF call[1] /\ call[2] \in Shared32 THEN <<FALSE, call[2]>> ELSE call
\* both name tables name the 64-bit function, where they name one
HasName64(nr) == nr \notin Unnamed64
HasName32(nr) == nr \notin Unnamed32
HasName(call) == IF call[1] THEN HasName32(call[2]) ELSE HasName64(call[2])
syscall_name_table(call) == <<FALSE, call[2]>>
kallsyms_lookup_name(prefix, function, suffix) ==
    IF prefix = (IF build.wrapper THEN "__arm64_" ELSE "") /\ suffix = build.suffix
    THEN function ELSE NoAddr

\* syscall_init: what the symbols say of the kernel.  openat has a function
\* of its own for 32-bit callers.
DetectCompat == build.compat          \* by __arm64_compat_sys_openat or the other two names
DetectWrapper == (build.wrapper /\ build.compat) \/ build.wrapper
syscall_init ==
    /\ sys_call_table = build.table /\ compat_sys_call_table = build.ctable
    /\ has_config_compat = DetectCompat
    /\ has_syscall_wrapper = DetectWrapper
    /\ cached = [c \in Calls |-> NoAddr]

\* under the first prefix and suffix that name something
syscalln_name_addr(call) ==
    LET hits == {kallsyms_lookup_name(p, syscall_name_table(call), s) :
                   p \in {"__arm64_", ""}, s \in {".cfi_jt", ".cfi", ""}} \ {NoAddr}
    IN IF cached[call] # NoAddr THEN cached[call]
       ELSE IF ~HasName(call) \/ hits = {} THEN NoAddr ELSE CHOOSE a \in hits : TRUE
UsesTable(call) == IF call[1] THEN compat_sys_call_table ELSE sys_call_table

Slot(call) == <<"slot", call>>
Code(addr) == <<"code", addr>>
At(place) == IF place \in DOMAIN chains THEN chains[place].cbs ELSE {}

\* a chain keeps the number of arguments of the hook that made it, takes no
\* callback twice and goes with its last one
Wrap(place, args, cb) ==
    LET n == IF has_syscall_wrapper THEN 1 ELSE args
        c == IF place \in DOMAIN chains THEN [chains[place] EXCEPT !.cbs = @ \cup {cb}]
             ELSE [narg |-> n, cbs |-> {cb}] IN
    chains' = [p \in DOMAIN chains \cup {place} |-> IF p = place THEN c ELSE chains[p]]
Unwrap(place, cb) ==
    chains' = [p \in {q \in DOMAIN chains : q # place \/ chains[q].cbs # {cb}} |->
                 IF p = place THEN [chains[p] EXCEPT !.cbs = @ \ {cb}] ELSE chains[p]]

fp_wrap_syscalln(call, cb) == Wrap(Slot(call), narg[call[2]], cb) /\ UNCHANGED cached
fp_unwrap_syscalln(call, cb) == Unwrap(Slot(call), cb) /\ UNCHANGED cached
Remember(call) == cached' = [cached EXCEPT ![call] = syscalln_name_addr(call)]
inline_wrap_syscalln(call, cb) == Remember(call) /\ Wrap(Code(syscalln_name_addr(call)), narg[call[2]], cb)
MutantUnwrap(call, cb) == Remember(call) /\ UNCHANGED chains
inline_unwrap_syscalln(call, cb) == Remember(call) /\ Unwrap(Code(syscalln_name_addr(call)), cb)

Place(call) == IF UsesTable(call) THEN Slot(call) ELSE Code(syscalln_name_addr(call))
\* where raw_syscall0 to raw_syscall6 go
syscalln_addr(call) == IF UsesTable(call) THEN Function(call) ELSE syscalln_name_addr(call)
\* hook_syscalln and hook_compat_syscalln: a callback that is there already is
\* answered HOOK_DUPLICATED, and a call without a name HOOK_BAD_ADDRESS
NoPlace(call) == ~UsesTable(call) /\ syscalln_name_addr(call) = NoAddr
hook_syscalln(call, cb) ==
    IF NoPlace(call) \/ cb \in At(Place(call)) THEN UNCHANGED <<chains, hooked>> /\ Remember(call)
    ELSE /\ IF UsesTable(call) THEN fp_wrap_syscalln(call, cb) ELSE inline_wrap_syscalln(call, cb)
         /\ hooked' = hooked \cup {<<call, cb>>}
unhook_syscalln(call, cb) ==
    /\ <<call, cb>> \in hooked
    /\ IF UsesTable(call) THEN fp_unwrap_syscalln(call, cb) ELSE inline_unwrap_syscalln(call, cb)
    /\ hooked' = hooked \ {<<call, cb>>}

\* what a function gets from raw_syscall0 to raw_syscall6, and from the
\* kernel's own entry: a pt_regs or the arguments
Passed(wrapper, args) == IF wrapper THEN [regs |-> args, args |-> <<"regs">>] ELSE [regs |-> <<>>, args |-> args]
RawGets(args) == Passed(has_syscall_wrapper, args)
EntryGets(args) == Passed(build.wrapper, args)
\* a callback sees the arguments its chain passes on, or the pt_regs behind the first
syscall_argn(place, got, n) ==
    IF has_syscall_wrapper THEN got.regs[n]
    ELSE IF n <= chains[place].narg THEN got.args[n] ELSE "not passed"
\* the chains that a call runs through: of its slot, and of its code
Through(call) == {p \in DOMAIN chains : p \in {Slot(call), Code(Function(call))}}

\* get_user_arg_ptr(a0, a1, nr): a0 is true for a 32-bit caller, and is the
\* vector itself where there are none; where it reads and how much
get_user_arg_ptr(a0, a1, nr) ==
    IF ~has_config_compat THEN [at |-> a0, off |-> nr * 8, size |-> 8]
    ELSE IF a0 # 0 THEN [at |-> a1, off |-> nr * 4, size |-> 4] ELSE [at |-> a1, off |-> nr * 8, size |-> 8]

SyscallsInit == /\ build \in {b \in Builds : RealBuild(b)} /\ syscall_init
                /\ chains = <<>> /\ hooked = {}
SyscallsNext ==
    /\ \E call \in Calls, cb \in Callbacks :
          Real(call) /\ (hook_syscalln(call, cb) \/ unhook_syscalln(call, cb))
    /\ UNCHANGED tables
---------------------------------------------------------------------------
\* A callback runs on every call it was hooked to, once, and on no other after
\* it was unhooked, whatever the kernel shows of its tables; calls that share
\* a function share what is hooked at its code (syscall.c:266-353;
\* sucompat.c:241-250 names execve's 32-bit function as one of its own).
CallsReachHooks ==
    \A call \in {c \in Calls : Real(c)}, cb \in Callbacks :
        LET runs == {p \in Through(call) : cb \in chains[p].cbs}
            asked == {h \in hooked : h[2] = cb /\ (h[1] = call \/ Function(h[1]) = Function(call))} IN
        /\ <<call, cb>> \in hooked => runs # {}
        /\ runs # {} => asked # {}

Args == <<"a", "b", "c">>
\* Every callback reads the arguments the system call was given, and a raw call
\* passes them as the kernel's own entry does, to the function the kernel calls
\* (syscall.h:41-64, syscall.c:145-264).
ArgumentsArrive ==
    /\ RawGets(Args) = EntryGets(Args)
    /\ \A nr \in Numbers : LET call == <<FALSE, nr>> IN
          syscalln_addr(call) \in {Function(call), NoAddr} /\ (HasName64(nr) => syscalln_addr(call) # NoAddr)
    /\ \A call \in Calls : \A p \in Through(call), n \in 1 .. narg[call[2]] :
          syscall_argn(p, EntryGets(Args), n) = Args[n]

\* A hooked system call (syscall.c, syscall.h) reaches its callbacks, with the
\* arguments it was made with.
CallsReachHooksWhole == CallsReachHooks /\ ArgumentsArrive
=============================================================================
