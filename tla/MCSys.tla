------------------------------- MODULE MCSys --------------------------------
(* Instances of Su, Supercmd, Syscalls and UserInit: an ordinary uid and    *)
(* root, one context SELinux knows; execve, whose 32-bit function is its    *)
(* own, and faccessat; init and two processes that start apps.  A behaviour *)
(* is about one of the four.                                                *)
EXTENDS Supercmd, Syscalls, UserInit
CONSTANTS t0, t1
VARIABLE part
MCUids == {0, 1000}
MCContexts == {"magisk"}
MCBadContexts == {"", "nowhere"}

Prefixes == {<<>>, <<"-u", "1000">>, <<"-u">>, <<"-Z", "magisk">>, <<"-x">>,
             <<"-u", "1000", "-Z", "nowhere">>, <<"-u", "exec">>,
             <<"-x", "-u", "0">>, <<"-x", "-x", "-x", "-u">>, <<"-x", "-x", "-x", "-x", "-Z">>}
Words == {<<>>, <<"-c">>, <<"-c", "id", "a">>, <<"exec">>, <<"exec", "/bin/id">>,
          <<"exec", "/bin/id", "exec", "-c">>, <<"help">>,
          <<"sumgr">>, <<"sumgr", "grant", "1000">>, <<"sumgr", "grant", "1000", "0", "magisk">>,
          <<"sumgr", "revoke", "0">>, <<"sumgr", "revoke", "x">>, <<"sumgr", "path", "/bin/x">>,
          <<"sumgr", "path">>, <<"sumgr", "sctx", "magisk">>, <<"sumgr", "exclude", "1000", "1">>,
          <<"event", "boot">>, <<"key", "set", "new">>, <<"key", "hash", "enable">>,
          <<"module", "load", "/a.kpm", "x">>, <<"module", "ctl0", "m", "x">>, <<"module", "unload", "m">>}
MCCommands == {c \in {<<"truncate", k>> \o p \o w :
                  k \in {"su", "skey"}, p \in {<<>>, <<"-u", "1000">>}, w \in Words}
                \cup {<<"truncate", "su">> \o p \o w : p \in Prefixes,
                         w \in {<<>>, <<"-c", "id", "a">>, <<"exec", "/bin/id">>, <<"sumgr", "path", "/bin/x">>}}
                \cup {<<"truncate", "no", "help">>} : Sensible(c)}

MCNumbers == {"execve", "faccessat", "lookup_dcookie"}
MCUnnamed == {"lookup_dcookie"}
MCShared32 == {"faccessat"}
MCnarg == [n \in MCNumbers |-> 3]
MCCallbacks == {"su", "user"}
\* no more hooks at a time than two callbacks on both calls of a number
MaxHooked == 4
MCProcs == {1, 2, 3}
MCProgram == <<<<<<"execve", "init">>, <<"execve", "init second_stage">>, <<"openat", "atrace.rc">>>>,
               <<<<"openat", "other.rc">>, <<"execve", "app_process">>, <<"execve", "sh">>>>,
               <<<<"execveat", "app_process">>>>>>

\* a module that does not move rests in one of its first states
SyscallsRest == SyscallsInit /\ build = [wrapper |-> TRUE, compat |-> TRUE, table |-> TRUE,
                                        ctable |-> TRUE, suffix |-> ""]
SuRest == CmdInit /\ calls = 0 /\ ext[t1].valid
UserInitRest == UserInitInit /\ wrapper = TRUE
Init == \/ part = "tasks" /\ CmdInit /\ calls = 0 /\ SyscallsRest /\ UserInitRest
        \/ part = "commands" /\ CmdInit /\ calls = MaxCalls - 2 /\ SyscallsRest /\ UserInitRest
        \/ part = "syscalls" /\ SuRest /\ SyscallsInit /\ UserInitRest
        \/ part = "boot" /\ SuRest /\ SyscallsRest /\ UserInitInit
Next == /\ UNCHANGED part
        /\ \/ part = "tasks" /\ SuNext /\ UNCHANGED <<cvars, yvars, uvars>>
           \/ part = "commands" /\ CmdNext /\ UNCHANGED <<yvars, uvars>>
           \/ part = "syscalls" /\ SyscallsNext /\ Cardinality(hooked') <= MaxHooked
              /\ UNCHANGED <<svars, cvars, uvars>>
           \/ part = "boot" /\ UserInitNext /\ UNCHANGED <<svars, cvars, yvars>>
Spec == Init /\ [][Next]_<<part, svars, cvars, yvars, uvars>>

\* of the credentials' numbers only which are the same decides anything
Held(t) == IF tasks[t].state = "gone" THEN <<>>
           ELSE <<tasks[t].by, creds[tasks[t].cred], creds[tasks[t].real_cred],
                  tasks[t].cred = tasks[t].real_cred, tasks[t].seccomp>>
CredOf(h) == tasks[h[1]][h[2]]
Holders == {t \in Tasks : tasks[t].state # "gone"} \X {"cred", "real_cred"}
Shared == {p \in Holders \X Holders : CredOf(p[1]) = CredOf(p[2])}
MCView == <<part, [t \in Tasks |-> <<tasks[t].state, Held(t)>>], Shared, ext,
            su_list, exclude, all_allow, su_path, blessed, promised, calls, cvars, yvars, uvars>>
=============================================================================
