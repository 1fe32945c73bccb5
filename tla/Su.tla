--------------------------------- MODULE Su ---------------------------------
(* su: who may become whom (sucompat.c), what becoming somebody does to a   *)
(* task (accctl.c), the extension every task carries on its stack           *)
(* (taskob.c) and the calls that reach them (supercall.c).  A credential is *)
(* an object tasks point to; the calls of one system call run as one step,  *)
(* except that a new task is visible before its extension is ready.         *)
EXTENDS Integers, FiniteSets, TLC

CONSTANTS Tasks, init_task,
          Uids,             \* 0 is root
          Contexts,         \* security contexts SELinux knows
          BadContexts,      \* "" and contexts it does not know
          Threads,          \* whether a new task may share its parent's credential
          MaxCalls,
          Observed          \* the symbol task_observer hooks: "copy_process",
                            \* "cgroup_post_fork" or "none"

ASSUME SuAssumption == init_task \in Tasks /\ "" \notin Contexts

VARIABLES tasks,      \* each task: where in its life it is, its credentials, its seccomp filter
          ext,        \* task_ext, on the stack of each task
          creds,      \* the credentials
          su_list, exclude, all_allow, su_path,
          blessed,    \* tasks su let pass SELinux, and their descendants
          promised,   \* tasks whose su answered 0 to a context SELinux does not know
          calls       \* supercalls and execve calls that got through (bound: MaxCalls)

svars == <<tasks, ext, creds, su_list, exclude, all_allow, su_path, blessed, promised, calls>>

NoSid == "nosid"          \* SECSID_NULL
Other == "other"          \* the context a task has by itself
Paths == {"/system/bin/kp", "/system/bin/other"}
default_su_path == "/system/bin/kp"
Slots == 1 .. 2 * Cardinality(Tasks)
NoCred == [uid |-> -1, full |-> FALSE, ctx |-> Other]
Gone == [state |-> "gone", by |-> init_task, cred |-> 0, real_cred |-> 0, seccomp |-> FALSE]
Running == {t \in Tasks : tasks[t].state = "running"}
\* tasks inside fork: they do nothing else until the child is ready
Forking == {tasks[n].by : n \in {k \in Tasks : tasks[k].state = "new"}}
Idle == Running \ Forking
Cred(t) == creds[tasks[t].cred]

Used == UNION {{tasks[t].cred, tasks[t].real_cred} : t \in Tasks}
Unused == CHOOSE c \in Slots : c \notin Used
\* a credential nobody points to is freed
Freed(ts, cs) == [c \in Slots |->
    IF \E t \in Tasks : c \in {ts[t].cred, ts[t].real_cred} THEN cs[c] ELSE NoCred]

Bless(t, yes) ==
    /\ blessed' = IF yes THEN blessed \cup {t} ELSE blessed
    /\ promised' = IF yes /\ t \in Running THEN promised \cup {t} ELSE promised \ {t}
NoBlessing == UNCHANGED <<blessed, promised>>
Unset == UNCHANGED <<su_list, exclude, all_allow, su_path>>
Call == calls < MaxCalls /\ calls' = calls + 1
---------------------------------------------------------------------------
(* Task extensions                                                         *)
task_ext_valid(e) == e.valid
prepare_init_ext == [valid |-> TRUE, sel_allow |-> FALSE, priv_sel_allow |-> FALSE]
\* the new extension is not cleared first
MutantDirty(new, old) ==
    IF ~task_ext_valid(ext[old]) THEN ext
    ELSE [ext EXCEPT ![new].valid = TRUE, ![new].sel_allow = ext[old].sel_allow]
prepare_task_ext(new, old) ==
    IF ~task_ext_valid(ext[old]) THEN ext
    ELSE [ext EXCEPT ![new] = [valid |-> TRUE, sel_allow |-> ext[old].sel_allow,
                               priv_sel_allow |-> FALSE]]

\* the kernel makes a task; its stack holds whatever the last owner left
copy_process(parent, new, thread) ==
    /\ parent \in Idle /\ tasks[new].state = "gone" /\ (thread => Threads)
    /\ LET mine == IF thread THEN tasks[parent].cred ELSE Unused IN
       /\ tasks' = [tasks EXCEPT ![new] = [state |-> "new", by |-> parent, cred |-> mine,
                                  real_cred |-> mine, seccomp |-> tasks[parent].seccomp]]
       /\ creds' = [creds EXCEPT ![mine] = Cred(parent)]
    /\ UNCHANGED ext /\ Unset /\ NoBlessing

\* after_copy_process or after_cgroup_post_fork, in the parent, before the
\* new task is woken; without a hook the task runs as it is
AfterFork(parent, new) ==
    /\ tasks[new].state = "new" /\ tasks[new].by = parent
    /\ tasks' = [tasks EXCEPT ![new].state = "running"]
    /\ ext' = IF Observed = "none" THEN ext ELSE prepare_task_ext(new, parent)
    /\ blessed' = IF parent \in blessed THEN blessed \cup {new} ELSE blessed
    /\ UNCHANGED <<creds, promised>> /\ Unset

Exit(t) ==
    /\ t \in Idle \ {init_task}
    /\ tasks' = [tasks EXCEPT ![t] = Gone]
    /\ creds' = Freed(tasks', creds)
    /\ blessed' = blessed \ {t} /\ promised' = promised \ {t}
    /\ UNCHANGED ext /\ Unset
---------------------------------------------------------------------------
(* Becoming somebody                                                       *)
su_cred(cred, uid) == [cred EXCEPT !.uid = uid, !.full = TRUE]
\* set_security_override_from_ctx: 0 when SELinux knows the context
set_security_override_from_ctx(cred, ctx) ==
    IF ctx \in Contexts THEN [cred EXCEPT !.ctx = ctx] ELSE cred
OverrideRc(ctx) == IF ctx \in Contexts THEN 0 ELSE 22

commit_creds(t, new, cleared) ==
    LET slot == Unused
        moved == [tasks EXCEPT ![t].cred = slot, ![t].real_cred = slot,
                               ![t].seccomp = IF cleared THEN FALSE ELSE @] IN
    tasks' = moved /\ creds' = Freed(moved, [creds EXCEPT ![slot] = new])

commit_kernel_su(t) ==
    /\ commit_creds(t, [uid |-> 0, full |-> TRUE, ctx |-> all_allow], FALSE)
    /\ Bless(t, FALSE) /\ UNCHANGED ext

commit_common_su(t, to_uid, sctx) ==
    IF ~task_ext_valid(ext[t]) THEN NoBlessing /\ UNCHANGED <<tasks, creds, ext>>
    ELSE LET new == set_security_override_from_ctx(su_cred(Cred(t), to_uid), sctx) IN
         /\ ext' = [ext EXCEPT ![t].sel_allow = IF sctx = "" THEN TRUE ELSE OverrideRc(sctx) # 0]
         /\ commit_creds(t, new, TRUE)
         /\ Bless(t, sctx \notin Contexts)

commit_su(t, to_uid, sctx) ==
    IF all_allow # NoSid /\ to_uid = 0 THEN commit_kernel_su(t)
    ELSE commit_common_su(t, to_uid, sctx)

\* the credentials are changed where they are
task_su(pid, to_uid, sctx) ==
    LET c == tasks[pid].cred
        r == tasks[pid].real_cred
        become(cred) == set_security_override_from_ctx(su_cred(cred, to_uid), sctx)
        changed == sctx # "" /\ OverrideRc(sctx) = 0 IN
    IF tasks[pid].state = "gone" \/ ~task_ext_valid(ext[pid])
    THEN NoBlessing /\ UNCHANGED <<tasks, creds, ext>>
    ELSE /\ tasks' = [tasks EXCEPT ![pid].seccomp = FALSE]
         /\ creds' = [creds EXCEPT ![c] = become(@), ![r] = IF c = r THEN become(creds[c]) ELSE become(@)]
         /\ ext' = [ext EXCEPT ![pid].priv_sel_allow = ~changed]
         /\ Bless(pid, ~changed)

\* a kernel service acts under another credential for a while
override_creds(t) ==
    /\ t \in Idle /\ tasks[t].cred = tasks[t].real_cred
    /\ LET slot == Unused IN
       /\ tasks' = [tasks EXCEPT ![t].cred = slot]
       /\ creds' = [creds EXCEPT ![slot] = Cred(t)]
    /\ UNCHANGED ext /\ Unset /\ NoBlessing
revert_creds(t) ==
    /\ t \in Idle /\ tasks[t].cred # tasks[t].real_cred
    /\ tasks' = [tasks EXCEPT ![t].cred = tasks[t].real_cred]
    /\ creds' = Freed(tasks', creds)
    /\ UNCHANGED ext /\ Unset /\ NoBlessing

\* avc_denied_replace and slow_avc_audit_replace: what SELinux denied is allowed
Bypasses(t) ==
    \/ all_allow # NoSid /\ Cred(t).ctx = all_allow
    \/ task_ext_valid(ext[t]) /\ (ext[t].sel_allow \/ ext[t].priv_sel_allow)

\* kernel_read_file and kernel_write_file let the current task pass for the
\* time of the call
set_priv_sel_allow(t, val) == [ext EXCEPT ![t].priv_sel_allow = val]
KernelFile(t) ==
    /\ t \in Idle
    /\ promised' = promised \ {t}
    /\ ext' = set_priv_sel_allow(t, FALSE)
    /\ UNCHANGED <<tasks, creds, blessed>> /\ Unset
---------------------------------------------------------------------------
(* The list of uids that may use su, a group of the key-value storage      *)
get_kstorage(uid) == IF uid \in DOMAIN su_list THEN {su_list[uid]} ELSE {}
is_su_allow_uid(uid) == \E p \in get_kstorage(uid) : p.uid = uid
write_kstorage(map, id, data) == [k \in DOMAIN map \cup {id} |-> IF k = id THEN data ELSE map[k]]
remove_kstorage(map, id) == [k \in DOMAIN map \ {id} |-> map[k]]

su_add_allow_uid(uid, to_uid, ctx) ==
    su_list' = write_kstorage(su_list, uid, [uid |-> uid, to_uid |-> to_uid, ctx |-> ctx])
su_remove_allow_uid(uid) == su_list' = remove_kstorage(su_list, uid)
set_ap_mod_exclude(uid, on) ==
    exclude' = IF on # 0 THEN write_kstorage(exclude, uid, on) ELSE remove_kstorage(exclude, uid)

\* what execve runs when uid names file; what fstatat and faccessat look at
ExecRuns(uid, file) ==
    IF file = su_path /\ get_kstorage(uid) # {} THEN "sh" ELSE file
StatSees(uid, file) ==
    IF is_su_allow_uid(uid) /\ file = su_path THEN "sh" ELSE file

before_execve(t, file) ==
    /\ t \in Idle /\ tasks[t].cred = tasks[t].real_cred
    /\ LET uid == Cred(t).uid IN
       /\ ExecRuns(uid, file) = "sh"
       /\ \E p \in get_kstorage(uid) :
             /\ commit_su(t, p.to_uid, p.ctx)
    /\ Unset
---------------------------------------------------------------------------
(* The calls.  A caller is authenticated by the key or because its uid is   *)
(* in the list; what a call needs besides is in its arguments.             *)
supercall(t, key) == t \in Idle /\ tasks[t].cred = tasks[t].real_cred
                     /\ (key \/ is_su_allow_uid(Cred(t).uid))

call_su(t, to_uid, ctx) ==
    /\ commit_su(t, to_uid, ctx)
    /\ Unset
call_su_task(pid, to_uid, ctx) ==
    /\ task_su(pid, to_uid, ctx)
    /\ Unset
Setting(t) ==
    /\ NoBlessing /\ UNCHANGED <<tasks, ext, creds>>
call_grant_uid(t, uid, to_uid, ctx) ==
    Setting(t) /\ su_add_allow_uid(uid, to_uid, ctx) /\ UNCHANGED <<exclude, all_allow, su_path>>
call_revoke_uid(t, uid) ==
    Setting(t) /\ su_remove_allow_uid(uid) /\ UNCHANGED <<exclude, all_allow, su_path>>
call_exclude(t, uid, on) ==
    Setting(t) /\ set_ap_mod_exclude(uid, on) /\ UNCHANGED <<su_list, all_allow, su_path>>
call_reset_su_path(t, path) ==
    Setting(t) /\ su_path' = path /\ UNCHANGED <<su_list, exclude, all_allow>>
set_all_allow_sctx(ctx) ==
    IF ctx = "" THEN all_allow' = NoSid
    ELSE IF OverrideRc(ctx) = 0 THEN all_allow' = ctx ELSE UNCHANGED all_allow
call_su_set_allow_sctx(t, ctx) ==
    Setting(t) /\ set_all_allow_sctx(ctx) /\ UNCHANGED <<su_list, exclude, su_path>>

SuInit ==
    /\ tasks = [t \in Tasks |-> IF t # init_task THEN Gone
                  ELSE [state |-> "running", by |-> init_task, cred |-> 1, real_cred |-> 1, seccomp |-> FALSE]]
    /\ ext \in {[t \in Tasks |-> IF t = init_task THEN prepare_init_ext
                   ELSE [valid |-> v, sel_allow |-> TRUE, priv_sel_allow |-> TRUE]] : v \in BOOLEAN}
    /\ creds = [c \in Slots |-> IF c = 1 THEN [uid |-> 0, full |-> TRUE, ctx |-> Other] ELSE NoCred]
    /\ su_list = [u \in {0} |-> [uid |-> 0, to_uid |-> 0, ctx |-> ""]] /\ exclude = <<>>
    /\ all_allow = NoSid /\ su_path = default_su_path
    /\ blessed = {} /\ promised = {} /\ calls \in 0 .. MaxCalls
SuCalls(t) ==
    \/ \E u \in Uids, c \in Contexts \cup BadContexts :
          \/ call_su(t, u, c)
          \/ \E pid \in Tasks : call_su_task(pid, u, c)
          \/ \E to \in Uids : call_grant_uid(t, u, to, c)
    \/ \E u \in Uids : call_revoke_uid(t, u) \/ \E on \in 0..1 : call_exclude(t, u, on)
    \/ \E p \in Paths : call_reset_su_path(t, p)
    \/ \E c \in Contexts \cup BadContexts : call_su_set_allow_sctx(t, c)
SuNext ==
    \/ /\ \E p \in Tasks, n \in Tasks : \/ \E thread \in BOOLEAN : copy_process(p, n, thread)
                                        \/ AfterFork(p, n)
       /\ UNCHANGED calls
    \/ /\ \E t \in Tasks : Exit(t) \/ override_creds(t) \/ revert_creds(t) \/ KernelFile(t)
       /\ UNCHANGED calls
    \/ /\ Call
       /\ \E t \in Tasks : \/ \E key \in BOOLEAN : supercall(t, key) /\ SuCalls(t)
                           \/ \E f \in Paths : before_execve(t, f)
SuSpec == SuInit /\ [][SuNext]_svars
---------------------------------------------------------------------------
\* Every running task has an extension of its own: the hook that fills it in
\* runs before the task does, and the first task's is made before the hooks
\* (taskob.c:24-62).
TasksHaveExtensions == Observed # "none" => \A t \in Running : task_ext_valid(ext[t])

\* What a dead task left on a stack never lets its next owner pass SELinux:
\* a task passes through its extension only when su without a context SELinux
\* knows reached it, or reached the task it descends from (taskob.c:35).
BypassHasReason ==
    Observed # "none" =>
        \A t \in Running : ext[t].sel_allow \/ ext[t].priv_sel_allow => t \in blessed

\* "if scontext is invalid or illegal, all selinux permission checks will
\* bypass via hook" (user/supercall.h:112-127), whoever su named, and until
\* that task becomes somebody else, uses a kernel file or exits: no fork, no
\* other task's su and no change of the settings takes it away.
BadContextBypasses == \A t \in promised : Bypasses(t)

\* The file a caller is shown is the file it can run: fstatat and faccessat
\* ask one question of the list, execve another (sucompat.c:47, 203, 279).
ShownIsRun == \A u \in Uids, f \in Paths : StatSees(u, f) = ExecRuns(u, f)

\* Who passes SELinux (taskob.c, sucompat.c, accctl.c): every task has an
\* extension, one lets it pass only for a reason, and does when su promised it.
BypassesAreRight == TasksHaveExtensions /\ BypassHasReason /\ BadContextBypasses
=============================================================================
