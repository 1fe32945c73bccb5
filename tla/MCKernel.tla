------------------------------ MODULE MCKernel ------------------------------
(* The patched kernel, from the image the tools write to its callers: the    *)
(* instances of MCBoot; calls of user programs; a chain of two slots with    *)
(* three callbacks, of which one has no after and one no before; a hook      *)
(* table of two slots for three functions and a function pointer, with two   *)
(* modules; two threads and two modules of three names; two lists of four    *)
(* nodes with a reader.  A behaviour is about one of them.                   *)
EXTENDS HookChain, HookTable, KpmModule, Lists, MCBoot, Client
CONSTANTS x1, x2, x3, m1, m2
VARIABLE part

MCHasBefore == {x1, x2}
MCHasAfter == {x2, x3}
MCOwner == [x \in Item |-> IF x = x3 THEN m2 ELSE m1]
MCCalls == [t \in Thread |-> Op]
MCNames == [t \in Thread |-> Name]

---------------------------------------------------------------------------
(* Callers with the superkey, with a longer key, the root key, "su" and     *)
(* none of them; every function with arguments on both sides of what it     *)
(* takes.                                                                    *)
MCSuperkeys == {<<"a">>, <<"b">>}
MCRootKey == <<"r", "o", "o", "t">>
MCRandom == <<"x", "y">>
MCJunk == {Num(0), Num(10)}
CallerKeys == {<<>>, <<"a">>, <<"a", "b">>, MCRootKey, SuKey}
MCHash == [k \in CallerKeys |-> Len(k) * 5000]
MCSize == ("context" :> 100) @@ ("path" :> 20) @@ ("arg" :> 30) @@ ("none" :> 0)
          @@ ("su path" :> 14) @@ ("all_allow_sctx" :> 9) @@ ("modules" :> 40) @@ ("info" :> 50)
          @@ ("build time" :> 24)
Strings == {Null, Str(0), Str(1), Str(31), Str(32), Str(63), Str(64), Str(1023), Str(1024)}
Rooms == {Num(n) : n \in {-1, 0, 4, 5, 14, 15, 40, 41, 50, 4096}}
Profiles == {Profile(1, 2, n) : n \in {0, 95, 96}}
All(f, S) == {<<f, <<x>>>> : x \in S}
Plain(F) == {<<f, <<>>>> : f \in F}
Asks ==
    Plain({"sc_hello", "sc_kp_ver", "sc_k_ver", "sc_su_uid_nums", "sc_kpm_nums", "sc_su_get_safemode",
           "sc_bootlog", "sc_panic"})
    \cup {<<"sc_test", <<Num(1), Num(2), Num(3)>>>>}
    \cup UNION {All(f, Strings) : f \in {"sc_klog", "sc_su_reset_path"}}
    \cup All("sc_skey_set", {Key(k) : k \in CallerKeys \cup {<<"a", "b", "c", "d", "e">>}})
    \cup All("sc_su_reset_all_allow_sctx", {Null, Str(1), Str(9), Str(95), Str(96)})
    \cup All("sc_su", Profiles) \cup All("sc_su_grant_uid", Profiles \cup {Null})
    \cup {<<"sc_su_task", <<Num(7), p>>>> : p \in Profiles \cup {Null}}
    \cup All("sc_su_revoke_uid", {Num(1)}) \cup All("sc_skey_root_enable", {Num(0), Num(1)})
    \cup All("sc_get_ap_mod_exclude", {Num(1)}) \cup {<<"sc_su_uid_profile", <<Num(1), Buffer>>>>}
    \cup {<<f, <<Num(2), Num(3), Buffer, Num(o), Num(n)>>>> :
            f \in {"sc_kstorage_write", "sc_kstorage_read"}, o \in {0, 4, 100000}, n \in {-1, 0, 8, 100000}}
    \cup {<<"sc_kstorage_list_ids", <<Num(2), Buffer, Num(4)>>>>}
    \cup {<<f, <<b, n>>>> : f \in {"sc_su_allow_uids", "sc_su_get_path", "sc_kpm_list", "sc_skey_get"},
                            b \in {Null, Buffer}, n \in Rooms}
    \cup {<<f, <<Num(2), Num(3)>>>> : f \in {"sc_kstorage_remove"}} \cup All("sc_su_get_all_allow_sctx", {Null, Buffer})
    \cup {<<"sc_kpm_load", <<p, a, Null>>>> : p \in Strings, a \in Strings}
    \cup {<<"sc_kpm_control", <<m, a, Buffer, Num(64)>>>> : m \in Strings, a \in Strings}
    \cup {<<"sc_kpm_unload", <<m, Null>>>> : m \in Strings}
    \cup {<<"sc_kpm_info", <<m, b, n>>>> : m \in Strings \ {Str(0)}, b \in {Null, Buffer}, n \in Rooms}
\* One call of every kind: for the superkey and for "su" as well, a probe
\* that counts the caller out, one that changes what later calls meet.
FewAsks == {<<"sc_hello", <<>>>>, <<"sc_panic", <<>>>>, <<"sc_su_revoke_uid", <<Num(1)>>>>, <<"sc_kpm_nums", <<>>>>,
         <<"sc_kstorage_remove", <<Num(2), Num(3)>>>>, <<"sc_su_get_all_allow_sctx", <<Buffer>>>>,
         <<"sc_skey_set", <<Key(<<"b">>)>>>>, <<"sc_skey_root_enable", <<Num(1)>>>>, <<"sc_kpm_list", <<Buffer, Num(4096)>>>>}
Lines ==
    {<<>>, <<"hello">>, <<"kpver">>, <<"kver">>, <<"bootlog">>, <<"panic">>, <<"kpm">>, <<"key">>, <<"what">>,
     <<"key", "get">>, <<"key", "set">>, <<"key", "set", <<"b">>>>, <<"key", "rootkey">>,
     <<"key", "rootkey", "enable">>, <<"key", "rootkey", "disable">>, <<"key", "rootkey", "path">>,
     <<"kpm", "load">>, <<"kpm", "load", "path">>, <<"kpm", "load", "path", "arg">>, <<"kpm", "load", "path", "none">>,
     <<"kpm", "ctl0">>, <<"kpm", "ctl0", "path">>, <<"kpm", "ctl0", "path", "arg">>, <<"kpm", "unload">>,
     <<"kpm", "unload", "path">>, <<"kpm", "num">>, <<"kpm", "list">>, <<"kpm", "info">>, <<"kpm", "info", "path">>,
     <<"su">>, <<"su", "-Z">>, <<"su", "-M", "-Z", "path">>, <<"su", "-Z", "path", "-Z", "context">>, <<"su", "-M", "-t", "arg">>}
Callers(by, K, Q) == {[by |-> by, key |-> k, f |-> q[1], a |-> q[2]] : k \in K, q \in Q}
Program(K) == {[by |-> "program", key |-> k, words |-> w] : k \in K, w \in Lines}
MCJobs ==
    Callers("new", {<<"a">>}, Asks) \cup Callers("new", CallerKeys, FewAsks)
    \cup Callers("old", {<<"a">>}, {q \in Asks : q[1] \notin NewOnly})
    \cup Callers("old", CallerKeys, {q \in FewAsks : q[1] \notin NewOnly})
    \cup Program({<<"a">>, <<>>, MCRootKey, SuKey})
    \cup {[by |-> "raw", key |-> k, cmd |-> c, a |-> <<Buffer, Num(25)>>] :
            k \in CallerKeys, c \in {4095, 4096, 4103, 4160, 4165, 4608, 4609}}
---------------------------------------------------------------------------
KernelParts == {"chain", "table", "modules", "lists", "boot", "tables", "structs", "symbols", "client"}
\* A part that no behaviour is about rests in its first state, or in one
\* with nothing in it.
NoLists == shape = "ring" /\ shared = FALSE /\ lists = [left |-> <<>>, right |-> <<>>] /\ ListInit
NoBoot == /\ orig = [words |-> <<>>] /\ kfile = [kernel |-> <<>>, preset |-> NoPreset] /\ asked = {} /\ toolruns = 0
          /\ phase = "off" /\ ram = <<>> /\ kp = <<>> /\ regions = <<>> /\ page = 4 /\ pre = <<>>
          /\ kfuncs = {} /\ hooked = {} /\ inits = <<>> /\ loaded = <<>>
NoTables == /\ tables = <<>> /\ former = <<>> /\ used = {} /\ region = -1 /\ vmalloc = FALSE
            /\ tphase = "start" /\ writing = None /\ tlb = None /\ writes = 0
NoStructs == /\ kern = <<>> /\ memory = <<>> /\ known = <<>> /\ now = "none" /\ bl_list = {}
             /\ step = "current" /\ harmed = FALSE
NoSymbols == kernel = <<>> /\ kinfo = <<>> /\ copied = <<>> /\ at = <<"none">>
NoClient == /\ job = <<>> /\ server = <<>> /\ authed = <<>> /\ turn = "start" /\ call = <<>>
            /\ form = "version" /\ reply = <<>>
KernelInit ==
    /\ part \in KernelParts
    /\ ChainInit /\ Init /\ KpmInit
    /\ IF part = "lists" THEN ListInit ELSE NoLists
    /\ IF part = "boot" THEN KernelImageInit /\ BootInit ELSE NoBoot
    /\ IF part = "tables" THEN TableInit ELSE NoTables
    /\ IF part = "structs" THEN StructsInit ELSE NoStructs
    /\ IF part = "symbols" THEN KallsymInit ELSE NoSymbols
    /\ IF part = "client" THEN ClientInit ELSE NoClient
KernelNext ==
    /\ UNCHANGED part
    /\ \/ part = "chain" /\ ChainNext
          /\ UNCHANGED <<vars, kpmVars, listVars, kvars, bvars, tvars, svars, qvars, clientVars>>
       \/ part = "table" /\ Next
          /\ UNCHANGED <<chainVars, kpmVars, listVars, kvars, bvars, tvars, svars, qvars, clientVars>>
       \/ part = "modules" /\ KpmNext
          /\ UNCHANGED <<chainVars, vars, listVars, kvars, bvars, tvars, svars, qvars, clientVars>>
       \/ part = "lists" /\ ListNext
          /\ UNCHANGED <<chainVars, vars, kpmVars, kvars, bvars, tvars, svars, qvars, clientVars>>
       \/ part = "boot" /\ StartNext
          /\ UNCHANGED <<chainVars, vars, kpmVars, listVars, tvars, svars, qvars, clientVars>>
       \/ part = "tables" /\ TableNext
          /\ UNCHANGED <<chainVars, vars, kpmVars, listVars, kvars, bvars, svars, qvars, clientVars>>
       \/ part = "structs" /\ StructsNext
          /\ UNCHANGED <<chainVars, vars, kpmVars, listVars, kvars, bvars, tvars, qvars, clientVars>>
       \/ part = "symbols" /\ KallsymNext
          /\ UNCHANGED <<chainVars, vars, kpmVars, listVars, kvars, bvars, tvars, svars, clientVars>>
       \/ part = "client" /\ ClientNext
          /\ UNCHANGED <<chainVars, vars, kpmVars, listVars, kvars, bvars, tvars, svars, qvars>>
KernelSpec == KernelInit /\ [][KernelNext]_<<part, chainVars, vars, kpmVars, listVars,
                                              kvars, bvars, tvars, svars, qvars, clientVars>>

\* what rests tells no states apart
KernelView ==
    <<part,
      CASE part = "chain" -> chainVars [] part = "table" -> vars [] part = "modules" -> kpmVars
        [] part = "lists" -> listVars [] part = "boot" -> <<kvars, bvars>> [] part = "tables" -> tvars
        [] part = "structs" -> svars [] part = "symbols" -> qvars [] part = "client" -> clientVars>>
=============================================================================
