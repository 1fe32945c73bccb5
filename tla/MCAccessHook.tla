---------------------------- MODULE MCAccessHook ----------------------------
(* The breakpoint module at work, a part at a time: two processes and two   *)
(* filters, of which the first matches one process and the second both; a   *)
(* thread that walks its stack in a map of a file of three segments,        *)
(* another file and an anonymous mapping; two readers of a process; the     *)
(* module loaded on five kernels, given command lines and unloaded.         *)
EXTENDS AccessHook, ProcMem, TraceModule

CONSTANTS p1, p2, f1, f2

VARIABLES part

MCMatches == [f \in Filter |-> IF f = f1 THEN Process \cap {p1} ELSE Process]

Mapping(s, e, f) == [start |-> s, end |-> e, file |-> f]
MCVmas ==
    "a1" :> Mapping(4, 6, "a") @@ "a2" :> Mapping(6, 7, "a") @@ "a3" :> Mapping(8, 9, "a") @@
    "b" :> Mapping(9, 12, "b") @@ "n" :> Mapping(13, 14, "anon")

Exported(has, wraps, user) == [has |-> has, wraps |-> wraps, user |-> user, vital |-> TRUE]
MCTraceKernels ==
    LET new == {"do_faccessat", "do_sys_openat2", "do_sys_open", "__arm64_sys_kill", "sys_kill"} IN
    {Exported(new, new, TRUE), Exported(new, new \ {"do_sys_openat2", "__arm64_sys_kill"}, FALSE),
     Exported({"do_faccessat", "do_sys_open", "sys_kill"}, new, TRUE), Exported(new, {"sys_kill"}, TRUE),
     [Exported(new, new, TRUE) EXCEPT !.vital = FALSE]}
Addresses == {<<"0", "x", "1", "2">>, <<"0">>}
BpLines == {<<"bp_set", a, t, s>> : a \in Addresses, t \in {<<"0">>, <<"3">>, <<"4">>, <<>>, <<"1", "0">>},
                                    s \in {<<"2">>, <<"9">>, <<>>}}
MCLines ==
    BpLines \cup {l \o r : l \in {<<"bp_set", a, <<"1">>, <<"3">>>> : a \in Addresses},
                   r \in {<<<<"7">>>>, <<<<"1", "7">>>>, <<<<"m", "3">>>>, <<<<"7", "m">>>>,
                          <<<<"7">>, <<"m">>>>, <<<<"0">>, <<"m", ":", "7">>>>, <<<<"7">>, <<"m">>, <<"more">>>>}}
    \cup {<<"bp_clear", i>> : i \in {<<"0">>, <<"1">>, <<"2">>, <<"1", "0">>}}
    \cup {<<"mem_read", q, a, n>> : q \in {<<"7">>, <<"0">>}, a \in Addresses,
                                    n \in {<<"1">>, <<"2", "5", "6">>, <<"2", "5", "7">>, <<"0">>}}
    \cup {<<"bp_set">>, <<"bp_clear">>, <<"mem_read">>, <<"bp_clear_all">>, <<"get_status">>, <<"bp_list">>, <<"other">>}

MCInit ==
    /\ part \in {"hooks", "walk", "read", "module"}
    /\ Init
    /\ MemInit
    /\ TraceInit
    /\ part # "walk" => symbols = Needed
    /\ part # "module" => tkernel = CHOOSE k \in TraceKernels : TRUE
MCNext ==
    \/ part = "hooks" /\ Next /\ UNCHANGED <<part, memVars, traceVars>>
    \/ part = "walk" /\ WalkNext /\ UNCHANGED <<part, vars, traceVars>>
    \/ part = "read" /\ ReadNext /\ UNCHANGED <<part, vars, traceVars>>
    \/ part = "module" /\ TraceNext /\ UNCHANGED <<part, vars, memVars>>
MCSpec == MCInit /\ [][MCNext]_<<part, vars, memVars, traceVars>>
=============================================================================
