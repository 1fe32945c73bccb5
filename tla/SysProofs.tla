------------------------------ MODULE SysProofs ------------------------------
(* Whatever the numbers of tasks, calls, callbacks and processes: who       *)
(* passes SELinux does so for a reason (Su), a command runs as it was typed *)
(* (Supercmd), a hooked system call reaches its callbacks (Syscalls), and   *)
(* the hooks of the boot leave (UserInit).                                  *)
EXTENDS Supercmd, Syscalls, UserInit, FiniteSetTheorems, TLAPS
-----------------------------------------------------------------------------
(* Su: who passes SELinux, for any number of tasks, forks and callers       *)

Ext == [valid : BOOLEAN, sel_allow : BOOLEAN, priv_sel_allow : BOOLEAN]
IsTask(r) == DOMAIN r = {"state", "by", "cred", "real_cred", "seccomp"}
\* what the records are made of
SuShapes ==
    /\ DOMAIN tasks = Tasks /\ \A t \in Tasks : IsTask(tasks[t])
    /\ ext \in [Tasks -> Ext]
    /\ blessed \subseteq Tasks /\ promised \subseteq Tasks

\* while a task is being made, the one that makes it does nothing else
ParentsRun == \A n \in Tasks : tasks[n].state = "new" => tasks[n].by \in Running
\* a promise is kept by the task's own extension, which no fork writes to
PromisesHeld == \A t \in promised : t \in Running /\ ext[t].valid /\ (ext[t].sel_allow \/ ext[t].priv_sel_allow)
SuInv == SuShapes /\ ParentsRun /\ TasksHaveExtensions /\ BypassHasReason /\ PromisesHeld

\* what the invariant reads
bypassVars == <<tasks, ext, blessed, promised>>

\* At the start the first task alone runs, with an extension of its own
\* (taskob.c:73).
LEMMA SuStart == SuInit => SuInv
<1> SUFFICES ASSUME SuInit PROVE SuInv  OBVIOUS
<1>1. /\ tasks = [t \in Tasks |-> IF t # init_task THEN Gone
                  ELSE [state |-> "running", by |-> init_task, cred |-> 1, real_cred |-> 1, seccomp |-> FALSE]]
      /\ blessed = {} /\ promised = {}  BY DEF SuInit
<1>2. PICK v \in BOOLEAN : ext = [t \in Tasks |-> IF t = init_task THEN prepare_init_ext
                   ELSE [valid |-> v, sel_allow |-> TRUE, priv_sel_allow |-> TRUE]]  BY DEF SuInit
<1>3. Running = {init_task}  BY <1>1, SuAssumption DEF Running, Gone
<1>4. SuShapes  BY <1>1, <1>2 DEF SuShapes, Ext, IsTask, Gone, prepare_init_ext
<1> QED  BY <1>1, <1>2, <1>3, <1>4, SuAssumption DEF SuInv, Gone, ParentsRun, TasksHaveExtensions, BypassHasReason,
     PromisesHeld, prepare_init_ext, task_ext_valid

\* Nothing else than the tasks, their extensions and what su said counts.
LEMMA Unchanged == SuInv /\ UNCHANGED bypassVars => SuInv'
  BY DEF bypassVars, SuInv, SuShapes, Ext, IsTask, ParentsRun, TasksHaveExtensions, BypassHasReason, PromisesHeld, Running, task_ext_valid

\* A task that is being made does not run yet, and may find anything where its
\* extension will be.
LEMMA Forks == ASSUME SuInv, NEW p \in Tasks, NEW n \in Tasks, NEW thread \in BOOLEAN, copy_process(p, n, thread)
               PROVE SuInv'
  BY DEF copy_process, NoBlessing, Idle, SuInv, SuShapes, Ext, IsTask, ParentsRun, TasksHaveExtensions, BypassHasReason,
     PromisesHeld, Running, task_ext_valid

\* Before it runs its extension is written, in the parent (taskob.c:34-52).
LEMMA Afters == ASSUME SuInv, NEW p \in Tasks, NEW n \in Tasks, AfterFork(p, n) PROVE SuInv'
  BY DEF AfterFork, prepare_task_ext, NoBlessing, Idle, SuInv, SuShapes, Ext, IsTask, ParentsRun, TasksHaveExtensions, BypassHasReason,
     PromisesHeld, Running, task_ext_valid

\* A service that acts under another credential changes no extension.
LEMMA Shared == ASSUME SuInv, NEW t \in Tasks, override_creds(t) \/ revert_creds(t) PROVE SuInv'
  BY DEF override_creds, revert_creds, NoBlessing, Idle, SuInv, SuShapes, Ext, IsTask, ParentsRun, TasksHaveExtensions, BypassHasReason,
     PromisesHeld, Running, task_ext_valid

\* A kernel file takes the promise back with the flag (userd.c:73-117).
LEMMA Files == ASSUME SuInv, NEW t \in Tasks, KernelFile(t) PROVE SuInv'
<1>1. ext' = [ext EXCEPT ![t].priv_sel_allow = FALSE] /\ ext \in [Tasks -> Ext]
  BY DEF KernelFile, set_priv_sel_allow, SuInv, SuShapes, Ext
<1>2. /\ ext' \in [Tasks -> Ext] /\ \A k \in Tasks \ {t} : ext'[k] = ext[k]
      /\ (ext'[t].valid <=> ext[t].valid) /\ ~ext'[t].priv_sel_allow /\ (ext'[t].sel_allow <=> ext[t].sel_allow)
  <2>1. ext[t] \in Ext /\ ext'[t] = [ext[t] EXCEPT !.priv_sel_allow = FALSE]  BY <1>1
  <2>2. ext'[t] \in Ext /\ \A k \in Tasks \ {t} : ext'[k] = ext[k]  BY <1>1, <2>1 DEF Ext
  <2> QED BY <1>1, <2>1, <2>2 DEF Ext
<1>3. tasks' = tasks /\ blessed' = blessed /\ promised' = promised \ {t}  BY DEF KernelFile
<1> QED BY <1>2, <1>3 DEF SuInv, SuShapes, Ext, IsTask, ParentsRun, TasksHaveExtensions, BypassHasReason,
     PromisesHeld, Running, task_ext_valid

\* becoming somebody moves no task from one part of its life to another
LEMMA Moves == ASSUME SuInv, NEW t \in Tasks, NEW new, NEW cleared, commit_creds(t, new, cleared)
               PROVE /\ DOMAIN tasks' = Tasks /\ \A k \in Tasks : IsTask(tasks'[k])
                     /\ \A k \in Tasks : tasks'[k].state = tasks[k].state /\ tasks'[k].by = tasks[k].by
                     /\ Running' = Running
  BY DEF commit_creds, SuInv, SuShapes, Ext, IsTask, Running

\* commit_kernel_su changes the credential only.
LEMMA KernelSu == ASSUME SuInv, NEW t \in Tasks, commit_kernel_su(t) PROVE SuInv'
  BY Moves DEF commit_kernel_su, Bless, SuInv, SuShapes, ParentsRun, TasksHaveExtensions, BypassHasReason,
     PromisesHeld, task_ext_valid

\* su lets a task pass, or takes its promise back: the extension agrees
LEMMA Becomes ==
    ASSUME SuInv, NEW t \in Tasks, NEW yes \in BOOLEAN, Bless(t, yes), ext' \in [Tasks -> Ext],
           DOMAIN tasks' = Tasks, \A k \in Tasks : IsTask(tasks'[k]),
           \A k \in Tasks : tasks'[k].state = tasks[k].state /\ tasks'[k].by = tasks[k].by,
           \A k \in Tasks \ {t} : ext'[k] = ext[k], ext[t].valid, ext'[t].valid,
           yes => ext'[t].sel_allow \/ ext'[t].priv_sel_allow,
           ~yes => (ext'[t].sel_allow \/ ext'[t].priv_sel_allow => ext[t].sel_allow \/ ext[t].priv_sel_allow)
    PROVE SuInv'
<1>1. Running' = Running  BY DEF Running
<1>2. /\ blessed' \subseteq Tasks /\ promised' \subseteq Tasks /\ blessed \subseteq blessed'
      /\ (yes => t \in blessed') /\ (~yes => t \notin promised')
      /\ \A k \in Tasks \ {t} : k \in promised' <=> k \in promised
      /\ t \in promised' => t \in Running
  BY DEF Bless, SuInv, SuShapes
<1>3. SuShapes'  BY <1>2 DEF Ext, SuShapes
<1>4. ParentsRun'  BY <1>1 DEF SuInv, ParentsRun
<1>8. ASSUME NEW k \in Running, Observed # "none" PROVE ext'[k].valid
  <2>1. CASE k # t  BY <1>8, <2>1 DEF SuInv, TasksHaveExtensions, Running, task_ext_valid
  <2> QED BY <2>1
<1>9. TasksHaveExtensions'  BY <1>1, <1>8 DEF TasksHaveExtensions, task_ext_valid
<1>6. ASSUME NEW k \in Running, Observed # "none", ext'[k].sel_allow \/ ext'[k].priv_sel_allow PROVE k \in blessed'
  <2>1. CASE k # t  BY <1>2, <1>6, <2>1 DEF SuInv, BypassHasReason, Running
  <2>2. CASE k = t /\ yes  BY <1>2, <2>2
  <2>3. CASE k = t /\ ~yes
    <3>1. ext[k].sel_allow \/ ext[k].priv_sel_allow  BY <1>6, <2>3
    <3> QED BY <1>2, <1>6, <3>1 DEF SuInv, BypassHasReason
  <2> QED BY <2>1, <2>2, <2>3
<1>7. BypassHasReason'  BY <1>1, <1>6 DEF BypassHasReason
<1>5. PromisesHeld'  BY <1>1, <1>2 DEF SuInv, SuShapes, PromisesHeld
<1> QED BY <1>3, <1>4, <1>5, <1>7, <1>9 DEF SuInv

\* commit_common_su: a context SELinux does not know sets the flag, one it knows
\* clears it (accctl.c).
LEMMA CommonSu == ASSUME SuInv, NEW t \in Tasks, NEW u, NEW c, commit_common_su(t, u, c) PROVE SuInv'
<1>1. CASE ~task_ext_valid(ext[t])
  BY <1>1, Unchanged DEF commit_common_su, NoBlessing, bypassVars
<1>2. CASE task_ext_valid(ext[t])
  <2> DEFINE b == IF c = "" THEN TRUE ELSE OverrideRc(c) # 0
             new == set_security_override_from_ctx(su_cred(Cred(t), u), c)
  <2>1. ext' = [ext EXCEPT ![t].sel_allow = b] /\ commit_creds(t, new, TRUE) /\ Bless(t, c \notin Contexts)
    BY <1>2 DEF commit_common_su
  <2>2. b \in BOOLEAN /\ ext \in [Tasks -> Ext]  BY DEF SuInv, SuShapes, Ext
  <2>3. (c \notin Contexts) <=> b
    <3>1. c = "" => c \notin Contexts  BY SuAssumption DEF SuAssumption
    <3>2. OverrideRc(c) # 0 <=> c \notin Contexts  BY DEF OverrideRc
    <3> QED BY <3>1, <3>2, Zenon
  <2> HIDE DEF b, new
  <2>4. /\ ext' \in [Tasks -> Ext] /\ \A k \in Tasks \ {t} : ext'[k] = ext[k]
        /\ (ext'[t].valid <=> ext[t].valid) /\ (ext'[t].sel_allow <=> b) /\ (ext'[t].priv_sel_allow <=> ext[t].priv_sel_allow)
    <3>1. ext[t] \in Ext /\ ext'[t] = [ext[t] EXCEPT !.sel_allow = b]  BY <2>1, <2>2
    <3>2. ext'[t] \in Ext /\ \A k \in Tasks \ {t} : ext'[k] = ext[k]  BY <2>1, <2>2, <3>1 DEF Ext
    <3> QED BY <2>1, <2>2, <3>1, <3>2 DEF Ext
  <2>5. /\ DOMAIN tasks' = Tasks /\ \A k \in Tasks : IsTask(tasks'[k])
        /\ \A k \in Tasks : tasks'[k].state = tasks[k].state /\ tasks'[k].by = tasks[k].by
    BY <2>1, Moves
  <2> QED BY <1>2, <2>1, <2>3, <2>4, <2>5, Becomes DEF task_ext_valid
<1> QED BY <1>1, <1>2

\* task_su does the same to another task, running or being made (accctl.c).
LEMMA TaskSu == ASSUME SuInv, NEW pid \in Tasks, NEW u, NEW c, task_su(pid, u, c) PROVE SuInv'
<1>1. CASE tasks[pid].state = "gone" \/ ~task_ext_valid(ext[pid])
  BY <1>1, Unchanged DEF task_su, NoBlessing, bypassVars
<1>2. CASE ~(tasks[pid].state = "gone" \/ ~task_ext_valid(ext[pid]))
  <2> DEFINE changed == c # "" /\ OverrideRc(c) = 0
  <2>1. /\ ext' = [ext EXCEPT ![pid].priv_sel_allow = ~changed] /\ Bless(pid, ~changed)
        /\ tasks' = [tasks EXCEPT ![pid].seccomp = FALSE]
    BY <1>2 DEF task_su
  <2>2. (~changed) \in BOOLEAN /\ ext \in [Tasks -> Ext]  BY DEF SuInv, SuShapes, Ext
  <2> HIDE DEF changed
  <2>4. /\ ext' \in [Tasks -> Ext] /\ \A k \in Tasks \ {pid} : ext'[k] = ext[k]
        /\ (ext'[pid].valid <=> ext[pid].valid) /\ (ext'[pid].priv_sel_allow <=> ~changed)
        /\ (ext'[pid].sel_allow <=> ext[pid].sel_allow)
    <3>1. ext[pid] \in Ext /\ ext'[pid] = [ext[pid] EXCEPT !.priv_sel_allow = ~changed]  BY <2>1, <2>2
    <3>2. ext'[pid] \in Ext /\ \A k \in Tasks \ {pid} : ext'[k] = ext[k]  BY <2>1, <2>2, <3>1 DEF Ext
    <3> QED BY <2>1, <2>2, <3>1, <3>2 DEF Ext
  <2>5. /\ DOMAIN tasks' = Tasks /\ \A k \in Tasks : IsTask(tasks'[k])
        /\ \A k \in Tasks : tasks'[k].state = tasks[k].state /\ tasks'[k].by = tasks[k].by
    BY <2>1 DEF SuInv, SuShapes, Ext, IsTask
  <2> QED BY <1>2, <2>1, <2>2, <2>4, <2>5, Becomes DEF task_ext_valid
<1> QED BY <1>1, <1>2

\* A task that makes another one does not exit, so its extension can be copied.
LEMMA Exits == ASSUME SuInv, NEW t \in Tasks, Exit(t) PROVE SuInv'
  BY DEF Exit, Gone, Idle, Forking, SuInv, SuShapes, Ext, IsTask, ParentsRun, TasksHaveExtensions, BypassHasReason,
     PromisesHeld, Running, task_ext_valid

\* Every step keeps the invariant.
LEMMA SuStep == SuInv /\ [SuNext]_svars => SuInv'
<1> SUFFICES ASSUME SuInv, [SuNext]_svars PROVE SuInv'  OBVIOUS
<1>1. CASE UNCHANGED svars  BY <1>1, Unchanged DEF svars, bypassVars
<1>2. ASSUME NEW t \in Tasks, NEW u, NEW c, t \in Idle, commit_su(t, u, c) PROVE SuInv'
  BY <1>2, KernelSu, CommonSu DEF commit_su, Idle
<1>3. ASSUME NEW t \in Tasks, NEW f, before_execve(t, f) PROVE SuInv'
  BY <1>3, <1>2 DEF before_execve
<1>4. ASSUME NEW t \in Tasks, NEW key, supercall(t, key), SuCalls(t) PROVE SuInv'
  <2>1. CASE \E u \in Uids, c \in Contexts \cup BadContexts : call_su(t, u, c)
    BY <2>1, <1>2, <1>4 DEF call_su, supercall
  <2>2. CASE \E pid \in Tasks, u \in Uids, c \in Contexts \cup BadContexts : call_su_task(pid, u, c)
    BY <2>2, TaskSu DEF call_su_task
  <2>3. CASE Setting(t)
    BY <2>3, Unchanged DEF Setting, NoBlessing, bypassVars
  <2> QED BY <1>4, <2>1, <2>2, <2>3 DEF SuCalls, call_grant_uid, call_revoke_uid, call_exclude, call_reset_su_path,
             call_su_set_allow_sctx
<1>5. CASE SuNext
  BY <1>5, <1>3, <1>4, Forks, Afters, Exits, Shared, Files DEF SuNext
<1> QED BY <1>1, <1>5

\* However many tasks fork, exit, become somebody and change the settings at the
\* same time: every running task has an extension of its own, passes SELinux
\* through it only when su reached it or an ancestor, and does as long as su
\* promised it (taskob.c, sucompat.c, accctl.c).
THEOREM SuBypasses == SuSpec => []BypassesAreRight
<1>1. SuInv => BypassesAreRight
  BY DEF SuInv, PromisesHeld, BypassesAreRight, BadContextBypasses, Bypasses, task_ext_valid
<1> QED BY <1>1, SuStart, SuStep, PTL DEF SuSpec
-----------------------------------------------------------------------------
(* Syscalls: hooks and what they see, for any calls and callbacks           *)

\* the function a name table leads to, and where a hook of the call goes
NameAddr(sc) == IF HasName(sc) THEN syscall_name_table(sc) ELSE NoAddr
PlaceOf(sc) == IF UsesTable(sc) THEN Slot(sc) ELSE Code(NameAddr(sc))
Placed(sc) == UsesTable(sc) \/ HasName(sc)

\* syscall_init saw the kernel as it is
SeenAsItIs ==
    /\ build \in Builds /\ RealBuild(build)
    /\ sys_call_table <=> build.table
    /\ compat_sys_call_table <=> build.ctable
    /\ has_syscall_wrapper <=> build.wrapper
    /\ has_syscall_wrapper \in BOOLEAN
NamesKept == /\ DOMAIN cached = Calls
             /\ \A c \in Calls : cached[c] = NoAddr \/ (HasName(c) /\ cached[c] = syscall_name_table(c))
ChainsMade ==
    \A p \in DOMAIN chains :
        /\ DOMAIN chains[p] = {"narg", "cbs"}
        /\ chains[p].narg = IF has_syscall_wrapper THEN 1 ELSE narg[p[2][2]]
HookedAre == /\ \A h \in hooked : h \in Calls \X Callbacks
             /\ \A h \in hooked : Real(h[1]) /\ Placed(h[1])
             /\ \A h, k \in hooked : h[2] = k[2] /\ PlaceOf(h[1]) = PlaceOf(k[1]) => h = k
\* what is in the chains is what was hooked
ChainsAreHooked ==
    /\ \A p \in DOMAIN chains, cb \in Callbacks :
          cb \in chains[p].cbs => \E h \in hooked : h[2] = cb /\ PlaceOf(h[1]) = p
    /\ \A h \in hooked : PlaceOf(h[1]) \in DOMAIN chains /\ h[2] \in chains[PlaceOf(h[1])].cbs
    /\ \A p \in DOMAIN chains : chains[p].cbs \subseteq Callbacks
    /\ \A p \in DOMAIN chains : chains[p].cbs # {}
SysInv == SeenAsItIs /\ NamesKept /\ ChainsMade /\ HookedAre /\ ChainsAreHooked

LEMMA CallParts ==
    ASSUME NEW sc \in Calls
    PROVE /\ sc[1] \in BOOLEAN /\ sc[2] \in Numbers /\ sc = <<sc[1], sc[2]>>
          /\ sc[1] = FALSE => sc = <<FALSE, sc[2]>>
          /\ syscall_name_table(sc) # NoAddr
          /\ syscall_name_table(sc) = <<FALSE, sc[2]>>
          /\ syscall_name_table(sc) \in Calls
<1>1. sc[1] \in BOOLEAN /\ sc[2] \in Numbers /\ sc = <<sc[1], sc[2]>>  BY DEF Calls
<1>2. syscall_name_table(sc) = <<FALSE, sc[2]>> /\ syscall_name_table(sc) \in Calls  BY <1>1 DEF syscall_name_table, Calls
<1>3. <<FALSE, sc[2]>> # <<>>  OBVIOUS
<1> QED  BY <1>1, <1>2, <1>3 DEF NoAddr

LEMMA NameIsFound ==
    ASSUME SeenAsItIs, NamesKept, NEW sc \in Calls
    PROVE syscalln_name_addr(sc) = NameAddr(sc)
<1> DEFINE name == syscall_name_table(sc)
           prefixes == {"__arm64_", ""}
           suffixes == {".cfi_jt", ".cfi", ""}
           pre == IF build.wrapper THEN "__arm64_" ELSE ""
           suf == build.suffix
           hits == {kallsyms_lookup_name(p, name, s) : p \in prefixes, s \in suffixes} \ {NoAddr}
<1>1. name # NoAddr  BY CallParts
<1>2. suf \in suffixes  BY DEF SeenAsItIs, Builds
<1>3. pre \in prefixes  OBVIOUS
<1>4. \A p, s : kallsyms_lookup_name(p, name, s) \in {name, NoAddr}  BY DEF kallsyms_lookup_name
<1>5. kallsyms_lookup_name(pre, name, suf) = name  BY DEF kallsyms_lookup_name
<1>6. syscalln_name_addr(sc) = IF cached[sc] # NoAddr THEN cached[sc]
                                 ELSE IF ~HasName(sc) \/ hits = {} THEN NoAddr ELSE CHOOSE a \in hits : TRUE
  BY DEF syscalln_name_addr
<1>7. cached[sc] = NoAddr \/ (HasName(sc) /\ cached[sc] = name)  BY DEF NamesKept
<1> HIDE DEF name, prefixes, suffixes, pre, suf
<1>8. name \in hits  BY <1>1, <1>2, <1>3, <1>5
<1>9. \A x \in hits : x = name  BY <1>4
<1> HIDE DEF hits
<1>10. (CHOOSE a \in hits : TRUE) = name  BY <1>8, <1>9
<1> QED  BY <1>1, <1>6, <1>7, <1>8, <1>10 DEF NameAddr, name

LEMMA PlaceIsPlace ==
    ASSUME SeenAsItIs, NamesKept, NEW sc \in Calls
    PROVE Place(sc) = PlaceOf(sc) /\ (NoPlace(sc) <=> ~Placed(sc))
<1>1. syscalln_name_addr(sc) = NameAddr(sc)  BY NameIsFound
<1>2. NameAddr(sc) = NoAddr <=> ~HasName(sc)  BY CallParts DEF NameAddr
<1> QED  BY <1>1, <1>2 DEF Place, PlaceOf, NoPlace, Placed

\* places of different kinds or calls differ, and a place names its number
LEMMA PlacesDiffer ==
    ASSUME NEW c \in Calls, NEW d \in Calls
    PROVE /\ Slot(c) = Slot(d) => c = d
          /\ Code(c) = Code(d) => c = d
          /\ Slot(c) # Code(d)
          /\ Slot(c)[2] = c /\ Code(c)[2] = c
  BY DEF Slot, Code

LEMMA NumberOfPlace ==
    ASSUME NEW sc \in Calls, Placed(sc)
    PROVE PlaceOf(sc)[2] \in Calls /\ PlaceOf(sc)[2][2] = sc[2]
<1>1. CASE UsesTable(sc)  BY <1>1 DEF PlaceOf, Slot
<1>2. CASE ~UsesTable(sc)
  <2>1. PlaceOf(sc) = Code(syscall_name_table(sc))  BY <1>2 DEF PlaceOf, NameAddr, Placed
  <2>2. PlaceOf(sc)[2] = syscall_name_table(sc)  BY <2>1 DEF Code
  <2>3. <<FALSE, sc[2]>>[2] = sc[2]  OBVIOUS
  <2>4. syscall_name_table(sc) = <<FALSE, sc[2]>> /\ syscall_name_table(sc) \in Calls  BY CallParts
  <2> QED  BY <2>2, <2>3, <2>4
<1> QED  BY <1>1, <1>2

\* what a hook made of the state before: the same kernel, the same places
LEMMA KernelStays ==
    ASSUME SeenAsItIs, UNCHANGED tables
    PROVE /\ SeenAsItIs'
          /\ \A c \in Calls : PlaceOf(c)' = PlaceOf(c) /\ (Placed(c)' <=> Placed(c))
          /\ \A c \in Calls : Real(c)' <=> Real(c)
          /\ has_syscall_wrapper' = has_syscall_wrapper
<1>1. /\ build' = build /\ sys_call_table' = sys_call_table /\ compat_sys_call_table' = compat_sys_call_table
      /\ has_syscall_wrapper' = has_syscall_wrapper
  BY DEF tables
<1>2. SeenAsItIs'  BY <1>1 DEF SeenAsItIs
<1>3. \A c \in Calls : UsesTable(c)' = UsesTable(c)  BY <1>1 DEF UsesTable
<1>4. \A c \in Calls : PlaceOf(c)' = PlaceOf(c) /\ (Placed(c)' <=> Placed(c))
  BY <1>3 DEF PlaceOf, Placed
<1>5. \A c \in Calls : Real(c)' <=> Real(c)  BY <1>1 DEF Real
<1> QED  BY <1>1, <1>2, <1>4, <1>5

\* names that were looked up are kept
LEMMA Remembered ==
    ASSUME SeenAsItIs, NamesKept, NEW sc \in Calls, Remember(sc)
    PROVE NamesKept'
<1>1. syscalln_name_addr(sc) = NameAddr(sc)  BY NameIsFound
<1>2. cached' = [cached EXCEPT ![sc] = NameAddr(sc)]  BY <1>1 DEF Remember
<1> QED  BY <1>2 DEF NamesKept, NameAddr

\* a callback more at a place it was not at
LEMMA OneMore ==
    ASSUME SysInv, UNCHANGED tables, NamesKept', NEW sc \in Calls, NEW cb \in Callbacks,
           Real(sc), Placed(sc), cb \notin At(PlaceOf(sc)),
           Wrap(PlaceOf(sc), narg[sc[2]], cb), hooked' = hooked \cup {<<sc, cb>>}
    PROVE SysInv'
<1> DEFINE at == PlaceOf(sc)
           c == IF at \in DOMAIN chains THEN [chains[at] EXCEPT !.cbs = @ \cup {cb}]
                ELSE [narg |-> IF has_syscall_wrapper THEN 1 ELSE narg[sc[2]], cbs |-> {cb}]
<1>1. chains' = [p \in DOMAIN chains \cup {at} |-> IF p = at THEN c ELSE chains[p]]  BY DEF Wrap
<1>2. SeenAsItIs /\ NamesKept /\ ChainsMade /\ HookedAre /\ ChainsAreHooked  BY DEF SysInv
<1>3. /\ SeenAsItIs'
      /\ \A d \in Calls : PlaceOf(d)' = PlaceOf(d) /\ (Placed(d)' <=> Placed(d))
      /\ \A d \in Calls : Real(d)' <=> Real(d)
      /\ has_syscall_wrapper' = has_syscall_wrapper
  BY <1>2, KernelStays
<1>4. at[2][2] = sc[2]  BY NumberOfPlace
<1>5. DOMAIN c = {"narg", "cbs"} /\ c.narg = (IF has_syscall_wrapper THEN 1 ELSE narg[at[2][2]])
  <2>1. CASE at \in DOMAIN chains  BY <1>2, <2>1 DEF ChainsMade
  <2>2. CASE at \notin DOMAIN chains  BY <1>4, <2>2
  <2> QED  BY <2>1, <2>2
<1>6. c.cbs = At(at) \cup {cb}
  <2>1. CASE at \in DOMAIN chains  BY <1>2, <2>1 DEF ChainsMade, At
  <2>2. CASE at \notin DOMAIN chains  BY <2>2 DEF At
  <2> QED  BY <2>1, <2>2
<1>7. \A p \in DOMAIN chains : At(p) = chains[p].cbs  BY DEF At
<1> HIDE DEF at, c
<1>8. DOMAIN chains' = DOMAIN chains \cup {at} /\ chains'[at] = c
      /\ \A p \in DOMAIN chains : p # at => chains'[p] = chains[p]
  BY <1>1
<1>9. ChainsMade'  BY <1>2, <1>3, <1>5, <1>8 DEF ChainsMade
<1>10. \A h \in hooked : h \in Calls \X Callbacks /\ h[1] \in Calls /\ h[2] \in Callbacks  BY <1>2 DEF HookedAre
<1>11. HookedAre'
  <2>1. \A h \in hooked : h[2] = cb => PlaceOf(h[1]) # at
    BY <1>2, <1>7 DEF ChainsAreHooked, at
  <2>2. <<sc, cb>> \in Calls \X Callbacks /\ <<sc, cb>>[1] = sc /\ <<sc, cb>>[2] = cb  OBVIOUS
  <2>3. \A h \in hooked' : h \in hooked \/ h = <<sc, cb>>  OBVIOUS
  <2>4. \A h \in hooked' : h \in Calls \X Callbacks /\ Real(h[1])' /\ Placed(h[1])'
    BY <1>2, <1>3, <1>10, <2>2, <2>3 DEF HookedAre
  <2>5. ASSUME NEW h \in hooked', NEW k \in hooked', h[2] = k[2], PlaceOf(h[1])' = PlaceOf(k[1])'
        PROVE h = k
    <3>1. h[1] \in Calls /\ k[1] \in Calls  BY <2>4
    <3>2. PlaceOf(h[1]) = PlaceOf(k[1])  BY <1>3, <2>5, <3>1
    <3>3. CASE h \in hooked /\ k \in hooked  BY <1>2, <2>5, <3>2, <3>3 DEF HookedAre
    <3>4. CASE h = <<sc, cb>> /\ k \in hooked  BY <2>1, <2>2, <2>5, <3>2, <3>4 DEF at
    <3>5. CASE k = <<sc, cb>> /\ h \in hooked  BY <2>1, <2>2, <2>5, <3>2, <3>5 DEF at
    <3> QED  BY <2>3, <3>3, <3>4, <3>5
  <2> QED  BY <2>4, <2>5 DEF HookedAre
<1>12. ChainsAreHooked'
  <2>1. \A p \in DOMAIN chains', b \in Callbacks :
            b \in chains'[p].cbs => \E h \in hooked' : h[2] = b /\ PlaceOf(h[1])' = p
    <3> SUFFICES ASSUME NEW p \in DOMAIN chains', NEW b \in Callbacks, b \in chains'[p].cbs
                 PROVE \E h \in hooked' : h[2] = b /\ PlaceOf(h[1])' = p
      OBVIOUS
    <3>1. CASE p = at /\ b = cb
      <4>1. <<sc, cb>> \in hooked' /\ <<sc, cb>>[2] = b /\ PlaceOf(sc)' = p  BY <1>3, <3>1 DEF at
      <4>2. <<sc, cb>>[1] = sc  OBVIOUS
      <4> QED  BY <4>1, <4>2
    <3>2. CASE ~(p = at /\ b = cb)
      <4>1. p \in DOMAIN chains /\ b \in chains[p].cbs  BY <1>6, <1>7, <1>8, <3>2 DEF At
      <4>2. PICK h \in hooked : h[2] = b /\ PlaceOf(h[1]) = p  BY <1>2, <4>1 DEF ChainsAreHooked
      <4>3. PlaceOf(h[1])' = p  BY <1>3, <1>10, <4>2
      <4> QED  BY <4>2, <4>3
    <3> QED  BY <3>1, <3>2
  <2>2. \A h \in hooked' : PlaceOf(h[1])' \in DOMAIN chains' /\ h[2] \in chains'[PlaceOf(h[1])'].cbs
    <3> SUFFICES ASSUME NEW h \in hooked'
                 PROVE PlaceOf(h[1])' \in DOMAIN chains' /\ h[2] \in chains'[PlaceOf(h[1])'].cbs
      OBVIOUS
    <3>1. CASE h = <<sc, cb>>
      <4>1. h[1] = sc /\ h[2] = cb  BY <3>1
      <4>2. PlaceOf(h[1])' = at  BY <1>3, <4>1 DEF at
      <4> QED  BY <1>6, <1>8, <4>1, <4>2
    <3>2. CASE h \in hooked
      <4>1. PlaceOf(h[1])' = PlaceOf(h[1])  BY <1>3, <1>10, <3>2
      <4>2. PlaceOf(h[1]) \in DOMAIN chains /\ h[2] \in chains[PlaceOf(h[1])].cbs  BY <1>2, <3>2 DEF ChainsAreHooked
      <4>3. chains[PlaceOf(h[1])].cbs \subseteq chains'[PlaceOf(h[1])].cbs  BY <1>6, <1>7, <1>8, <4>2
      <4> QED  BY <1>8, <4>1, <4>2, <4>3
    <3> QED  BY <3>1, <3>2
  <2>3. \A p \in DOMAIN chains' : chains'[p].cbs \subseteq Callbacks /\ chains'[p].cbs # {}
    BY <1>2, <1>6, <1>7, <1>8 DEF ChainsAreHooked, At
  <2> QED  BY <2>1, <2>2, <2>3 DEF ChainsAreHooked
<1> QED  BY <1>3, <1>9, <1>11, <1>12 DEF SysInv

\* a callback less at the place of the call it was hooked to
LEMMA OneLess ==
    ASSUME SysInv, UNCHANGED tables, NamesKept', NEW sc \in Calls, NEW cb \in Callbacks,
           <<sc, cb>> \in hooked,
           Unwrap(PlaceOf(sc), cb), hooked' = hooked \ {<<sc, cb>>}
    PROVE SysInv'
<1> DEFINE at == PlaceOf(sc)
           rest == {q \in DOMAIN chains : q # at \/ chains[q].cbs # {cb}}
           c == [chains[at] EXCEPT !.cbs = @ \ {cb}]
<1>1. chains' = [p \in rest |-> IF p = at THEN c ELSE chains[p]]  BY DEF Unwrap
<1>2. SeenAsItIs /\ NamesKept /\ ChainsMade /\ HookedAre /\ ChainsAreHooked  BY DEF SysInv
<1>3. /\ SeenAsItIs'
      /\ \A d \in Calls : PlaceOf(d)' = PlaceOf(d) /\ (Placed(d)' <=> Placed(d))
      /\ \A d \in Calls : Real(d)' <=> Real(d)
      /\ has_syscall_wrapper' = has_syscall_wrapper
  BY <1>2, KernelStays
<1>4. /\ \A h \in hooked : h \in Calls \X Callbacks /\ h[1] \in Calls /\ h[2] \in Callbacks
      /\ <<sc, cb>>[1] = sc /\ <<sc, cb>>[2] = cb
  BY <1>2 DEF HookedAre
<1>5. at \in DOMAIN chains /\ cb \in chains[at].cbs  BY <1>2, <1>4 DEF ChainsAreHooked
<1>6. DOMAIN c = {"narg", "cbs"} /\ c.narg = chains[at].narg /\ c.cbs = chains[at].cbs \ {cb}
  BY <1>2, <1>5 DEF ChainsMade
<1>7. \A h \in hooked : h[2] = cb /\ PlaceOf(h[1]) = at => h = <<sc, cb>>
  BY <1>2, <1>4 DEF HookedAre
<1> HIDE DEF at, c
<1>8. /\ DOMAIN chains' = rest /\ (at \in rest => chains'[at] = c)
      /\ \A p \in rest : p # at => chains'[p] = chains[p]
  BY <1>1
<1>9. \A p \in rest : p \in DOMAIN chains  OBVIOUS
<1>10. \A p \in DOMAIN chains : p \notin rest => p = at /\ chains[p].cbs = {cb}  OBVIOUS
<1>11. at \in rest => chains[at].cbs # {cb}  OBVIOUS
<1> HIDE DEF rest
<1>12. ChainsMade'  BY <1>2, <1>3, <1>5, <1>6, <1>8, <1>9 DEF ChainsMade
<1>13. HookedAre'
  <2>1. \A h \in hooked' : h \in Calls \X Callbacks /\ Real(h[1])' /\ Placed(h[1])'
    BY <1>2, <1>3, <1>4 DEF HookedAre
  <2>2. ASSUME NEW h \in hooked', NEW k \in hooked', h[2] = k[2], PlaceOf(h[1])' = PlaceOf(k[1])'
        PROVE h = k
    BY <1>2, <1>3, <1>4, <2>2 DEF HookedAre
  <2> QED  BY <2>1, <2>2 DEF HookedAre
<1>14. ChainsAreHooked'
  <2>1. \A p \in DOMAIN chains', b \in Callbacks :
            b \in chains'[p].cbs => \E h \in hooked' : h[2] = b /\ PlaceOf(h[1])' = p
    <3> SUFFICES ASSUME NEW p \in DOMAIN chains', NEW b \in Callbacks, b \in chains'[p].cbs
                 PROVE \E h \in hooked' : h[2] = b /\ PlaceOf(h[1])' = p
      OBVIOUS
    <3>1. p \in DOMAIN chains /\ b \in chains[p].cbs /\ ~(p = at /\ b = cb)  BY <1>6, <1>8, <1>9
    <3>2. PICK h \in hooked : h[2] = b /\ PlaceOf(h[1]) = p  BY <1>2, <3>1 DEF ChainsAreHooked
    <3>3. h # <<sc, cb>>  BY <1>4, <3>1, <3>2 DEF at
    <3>4. PlaceOf(h[1])' = p  BY <1>3, <1>4, <3>2
    <3> QED  BY <3>2, <3>3, <3>4
  <2>2. \A h \in hooked' : PlaceOf(h[1])' \in DOMAIN chains' /\ h[2] \in chains'[PlaceOf(h[1])'].cbs
    <3> SUFFICES ASSUME NEW h \in hooked'
                 PROVE PlaceOf(h[1])' \in DOMAIN chains' /\ h[2] \in chains'[PlaceOf(h[1])'].cbs
      OBVIOUS
    <3>1. h \in hooked /\ h # <<sc, cb>>  OBVIOUS
    <3>2. PlaceOf(h[1])' = PlaceOf(h[1])  BY <1>3, <1>4, <3>1
    <3>3. PlaceOf(h[1]) \in DOMAIN chains /\ h[2] \in chains[PlaceOf(h[1])].cbs  BY <1>2, <3>1 DEF ChainsAreHooked
    <3>4. ~(PlaceOf(h[1]) = at /\ h[2] = cb)  BY <1>7, <3>1
    <3>5. PlaceOf(h[1]) \in rest  BY <1>10, <3>3, <3>4
    <3> QED  BY <1>6, <1>8, <3>2, <3>3, <3>4, <3>5
  <2>3. \A p \in DOMAIN chains' : chains'[p].cbs \subseteq Callbacks /\ chains'[p].cbs # {}
    BY <1>2, <1>5, <1>6, <1>8, <1>9, <1>11 DEF ChainsAreHooked
  <2> QED  BY <2>1, <2>2, <2>3 DEF ChainsAreHooked
<1> QED  BY <1>3, <1>12, <1>13, <1>14 DEF SysInv

LEMMA HookKeeps ==
    ASSUME SysInv, UNCHANGED tables, NEW sc \in Calls, NEW cb \in Callbacks, Real(sc), hook_syscalln(sc, cb)
    PROVE SysInv'
<1>1. SeenAsItIs /\ NamesKept /\ ChainsMade /\ HookedAre /\ ChainsAreHooked  BY DEF SysInv
<1>2. Place(sc) = PlaceOf(sc) /\ (NoPlace(sc) <=> ~Placed(sc))  BY <1>1, PlaceIsPlace
<1>3. CASE NoPlace(sc) \/ cb \in At(Place(sc))
  <2>1. chains' = chains /\ hooked' = hooked /\ Remember(sc)  BY <1>3 DEF hook_syscalln
  <2>2. NamesKept'  BY <1>1, <2>1, Remembered
  <2>3. /\ SeenAsItIs'
        /\ \A d \in Calls : PlaceOf(d)' = PlaceOf(d) /\ (Placed(d)' <=> Placed(d))
        /\ \A d \in Calls : Real(d)' <=> Real(d)
        /\ has_syscall_wrapper' = has_syscall_wrapper
    BY <1>1, KernelStays
  <2>4. \A h \in hooked : h \in Calls \X Callbacks /\ h[1] \in Calls  BY <1>1 DEF HookedAre
  <2>5. ChainsMade'  BY <1>1, <2>1, <2>3 DEF ChainsMade
  <2>6. HookedAre'  BY <1>1, <2>1, <2>3, <2>4 DEF HookedAre
  <2>7. ChainsAreHooked'  BY <1>1, <2>1, <2>3, <2>4 DEF ChainsAreHooked
  <2> QED  BY <2>2, <2>3, <2>5, <2>6, <2>7 DEF SysInv
<1>4. CASE ~(NoPlace(sc) \/ cb \in At(Place(sc)))
  <2>1. hooked' = hooked \cup {<<sc, cb>>}  BY <1>4 DEF hook_syscalln
  <2>2. CASE UsesTable(sc)
    <3>1. Wrap(Slot(sc), narg[sc[2]], cb) /\ cached' = cached  BY <1>4, <2>2 DEF hook_syscalln, fp_wrap_syscalln
    <3>2. PlaceOf(sc) = Slot(sc)  BY <2>2 DEF PlaceOf
    <3>3. NamesKept'  BY <1>1, <3>1 DEF NamesKept
    <3> QED  BY <1>2, <1>4, <2>1, <3>1, <3>2, <3>3, OneMore
  <2>3. CASE ~UsesTable(sc)
    <3>1. Remember(sc) /\ Wrap(Code(syscalln_name_addr(sc)), narg[sc[2]], cb)
      BY <1>4, <2>3 DEF hook_syscalln, inline_wrap_syscalln
    <3>2. PlaceOf(sc) = Code(syscalln_name_addr(sc))  BY <1>2, <2>3 DEF Place
    <3>3. NamesKept'  BY <1>1, <3>1, Remembered
    <3> QED  BY <1>2, <1>4, <2>1, <3>1, <3>2, <3>3, OneMore
  <2> QED  BY <2>2, <2>3
<1> QED  BY <1>3, <1>4

LEMMA UnhookKeeps ==
    ASSUME SysInv, UNCHANGED tables, NEW sc \in Calls, NEW cb \in Callbacks, unhook_syscalln(sc, cb)
    PROVE SysInv'
<1>1. SeenAsItIs /\ NamesKept  BY DEF SysInv
<1>2. Place(sc) = PlaceOf(sc)  BY <1>1, PlaceIsPlace
<1>3. <<sc, cb>> \in hooked /\ hooked' = hooked \ {<<sc, cb>>}  BY DEF unhook_syscalln
<1>4. CASE UsesTable(sc)
  <2>1. Unwrap(Slot(sc), cb) /\ cached' = cached  BY <1>4 DEF unhook_syscalln, fp_unwrap_syscalln
  <2>2. PlaceOf(sc) = Slot(sc)  BY <1>4 DEF PlaceOf
  <2>3. NamesKept'  BY <1>1, <2>1 DEF NamesKept
  <2> QED  BY <1>3, <2>1, <2>2, <2>3, OneLess
<1>5. CASE ~UsesTable(sc)
  <2>1. Remember(sc) /\ Unwrap(Code(syscalln_name_addr(sc)), cb)
    BY <1>5 DEF unhook_syscalln, inline_unwrap_syscalln
  <2>2. PlaceOf(sc) = Code(syscalln_name_addr(sc))  BY <1>2, <1>5 DEF Place
  <2>3. NamesKept'  BY <1>1, <2>1, Remembered
  <2> QED  BY <1>3, <2>1, <2>2, <2>3, OneLess
<1> QED  BY <1>4, <1>5

LEMMA SysStart == SyscallsInit => SysInv
<1> SUFFICES ASSUME SyscallsInit PROVE SysInv  OBVIOUS
<1>1. build \in Builds /\ RealBuild(build) /\ syscall_init /\ chains = <<>> /\ hooked = {}  BY DEF SyscallsInit
<1>2. build.wrapper \in BOOLEAN /\ build.compat \in BOOLEAN  BY <1>1 DEF Builds
<1>3. SeenAsItIs  BY <1>1, <1>2 DEF SeenAsItIs, syscall_init, DetectWrapper
<1>4. NamesKept  BY <1>1 DEF syscall_init, NamesKept
<1>5. DOMAIN chains = {}  BY <1>1
<1>6. ChainsMade  BY <1>5 DEF ChainsMade
<1>7. HookedAre  BY <1>1 DEF HookedAre
<1>8. ChainsAreHooked  BY <1>1, <1>5 DEF ChainsAreHooked
<1> QED  BY <1>3, <1>4, <1>6, <1>7, <1>8 DEF SysInv

LEMMA SysStep == SysInv /\ [SyscallsNext]_yvars => SysInv'
<1> SUFFICES ASSUME SysInv, [SyscallsNext]_yvars PROVE SysInv'  OBVIOUS
<1>1. CASE SyscallsNext
  <2>1. UNCHANGED tables  BY <1>1 DEF SyscallsNext
  <2>2. PICK sc \in Calls, cb \in Callbacks :
          Real(sc) /\ (hook_syscalln(sc, cb) \/ unhook_syscalln(sc, cb))
    BY <1>1 DEF SyscallsNext
  <2> QED  BY <2>1, <2>2, HookKeeps, UnhookKeeps
<1>2. CASE UNCHANGED yvars
  BY <1>2 DEF yvars, tables, SysInv, SeenAsItIs, NamesKept, ChainsMade, HookedAre, ChainsAreHooked, PlaceOf, Placed,
     Real, UsesTable
<1> QED  BY <1>1, <1>2

\* a 32-bit call that has no table of its own would be looked for by a name of the 64-bit function
LEMMA OwnFunction ==
    ASSUME SeenAsItIs, ~Hidden32, NEW sc \in Calls, Real(sc), ~UsesTable(sc)
    PROVE Function(sc) = sc /\ syscall_name_table(sc) = sc
<1>1. sc[1] \in BOOLEAN /\ (sc[1] = FALSE => sc = <<FALSE, sc[2]>>)  BY CallParts
<1>2. sc[1] = FALSE
  BY <1>1 DEF Real, SeenAsItIs, RealBuild, UsesTable
<1>3. Function(sc) = sc  BY <1>2 DEF Function
<1>4. syscall_name_table(sc) = sc  BY <1>1, <1>2 DEF syscall_name_table
<1> QED  BY <1>3, <1>4

LEMMA HooksAreReached == SysInv /\ ~Hidden32 => CallsReachHooks
<1> SUFFICES ASSUME SysInv, ~Hidden32, NEW sc \in {c \in Calls : Real(c)}, NEW cb \in Callbacks
             PROVE LET runs == {p \in Through(sc) : cb \in chains[p].cbs}
                       asked == {h \in hooked : h[2] = cb /\ (h[1] = sc \/ Function(h[1]) = Function(sc))} IN
                   /\ <<sc, cb>> \in hooked => runs # {}
                   /\ runs # {} => asked # {}
  BY DEF CallsReachHooks
<1>1. SeenAsItIs /\ NamesKept /\ ChainsMade /\ HookedAre /\ ChainsAreHooked  BY DEF SysInv
<1>2. \A h \in hooked : h[1] \in Calls /\ Real(h[1]) /\ Placed(h[1])  BY <1>1 DEF HookedAre
<1>3. sc \in Calls /\ Real(sc)  OBVIOUS
<1>4. \A c \in Calls : Real(c) /\ Placed(c) => PlaceOf(c) = Slot(c) \/ (PlaceOf(c) = Code(c) /\ Function(c) = c)
  <2> SUFFICES ASSUME NEW c \in Calls, Real(c), Placed(c)
               PROVE PlaceOf(c) = Slot(c) \/ (PlaceOf(c) = Code(c) /\ Function(c) = c)
    OBVIOUS
  <2>1. CASE UsesTable(c)  BY <2>1 DEF PlaceOf
  <2>2. CASE ~UsesTable(c)
    <3>1. Function(c) = c /\ syscall_name_table(c) = c  BY <1>1, <2>2, OwnFunction
    <3>2. PlaceOf(c) = Code(c)  BY <2>2, <3>1 DEF PlaceOf, NameAddr, Placed
    <3> QED  BY <3>1, <3>2
  <2> QED  BY <2>1, <2>2
<1>5. ASSUME <<sc, cb>> \in hooked
      PROVE \E p \in Through(sc) : cb \in chains[p].cbs
  <2>1. <<sc, cb>>[1] = sc /\ <<sc, cb>>[2] = cb  OBVIOUS
  <2>2. PlaceOf(sc) \in DOMAIN chains /\ cb \in chains[PlaceOf(sc)].cbs
    BY <1>1, <1>5, <2>1 DEF ChainsAreHooked
  <2>3. Placed(sc)  BY <1>2, <1>5, <2>1
  <2>4. PlaceOf(sc) \in Through(sc)  BY <1>3, <1>4, <2>2, <2>3 DEF Through
  <2> QED  BY <2>2, <2>4
<1>6. Function(sc) \in Calls  BY <1>3 DEF Function, Calls
<1>7. ASSUME NEW p \in Through(sc), cb \in chains[p].cbs
      PROVE \E h \in hooked : h[2] = cb /\ (h[1] = sc \/ Function(h[1]) = Function(sc))
  <2>1. p \in DOMAIN chains /\ (p = Slot(sc) \/ p = Code(Function(sc)))  BY <1>7 DEF Through
  <2>2. PICK h \in hooked : h[2] = cb /\ PlaceOf(h[1]) = p  BY <1>1, <1>7, <2>1 DEF ChainsAreHooked
  <2>3. PlaceOf(h[1]) = Slot(h[1]) \/ (PlaceOf(h[1]) = Code(h[1]) /\ Function(h[1]) = h[1])  BY <1>2, <1>4
  <2>4. h[1] \in Calls  BY <1>2
  <2>5. CASE p = Slot(sc)
    <3>1. h[1] = sc  BY <1>3, <2>2, <2>3, <2>4, <2>5, PlacesDiffer
    <3> QED  BY <2>2, <3>1
  <2>6. CASE p = Code(Function(sc))
    <3>1. h[1] = Function(sc) /\ Function(h[1]) = h[1]  BY <1>6, <2>2, <2>3, <2>4, <2>6, PlacesDiffer
    <3> QED  BY <2>2, <3>1
  <2> QED  BY <2>1, <2>5, <2>6
<1> QED  BY <1>5, <1>7

LEMMA ArgumentsDo == SysInv /\ ~Hidden32 => ArgumentsArrive
<1> SUFFICES ASSUME SysInv, ~Hidden32 PROVE ArgumentsArrive  OBVIOUS
<1>1. SeenAsItIs /\ NamesKept /\ ChainsMade /\ HookedAre /\ ChainsAreHooked  BY DEF SysInv
<1>2. RawGets(Args) = EntryGets(Args)  BY <1>1 DEF RawGets, EntryGets, SeenAsItIs, Passed
<1>3. ASSUME NEW nr \in Numbers
      PROVE LET sc == <<FALSE, nr>> IN
            syscalln_addr(sc) \in {Function(sc), NoAddr} /\ (HasName64(nr) => syscalln_addr(sc) # NoAddr)
  <2> DEFINE sc == <<FALSE, nr>>
  <2>1. sc \in Calls /\ sc[1] = FALSE /\ sc[2] = nr  BY DEF Calls
  <2>2. Function(sc) = sc  BY <2>1 DEF Function
  <2>3. syscall_name_table(sc) = sc  BY <2>1 DEF syscall_name_table
  <2>4. sc # NoAddr  BY <2>1, <2>3, CallParts
  <2>5. HasName(sc) <=> HasName64(nr)  BY <2>1 DEF HasName
  <2> HIDE DEF sc
  <2>6. syscalln_name_addr(sc) = NameAddr(sc)  BY <1>1, <2>1, NameIsFound
  <2>7. syscalln_addr(sc) \in {sc, NoAddr} /\ (HasName(sc) => syscalln_addr(sc) = sc)
    BY <2>2, <2>3, <2>6 DEF syscalln_addr, NameAddr
  <2> QED  BY <2>2, <2>4, <2>5, <2>7 DEF sc
<1>4. ASSUME NEW sc \in Calls, NEW p \in Through(sc), NEW n \in 1 .. narg[sc[2]]
      PROVE syscall_argn(p, EntryGets(Args), n) = Args[n]
  <2>1. p \in DOMAIN chains /\ (p = Slot(sc) \/ p = Code(Function(sc)))  BY DEF Through
  <2>2. p[2][2] = sc[2]
    <3>1. Slot(sc)[2] = sc /\ Code(Function(sc))[2] = Function(sc)  BY DEF Slot, Code
    <3>2. Function(sc)[2] = sc[2]  BY DEF Function
    <3> QED  BY <2>1, <3>1, <3>2
  <2>3. CASE has_syscall_wrapper
    <3>1. EntryGets(Args).regs = Args  BY <1>1, <2>3 DEF EntryGets, Passed, SeenAsItIs
    <3> QED  BY <2>3, <3>1 DEF syscall_argn
  <2>4. CASE ~has_syscall_wrapper
    <3>1. EntryGets(Args).args = Args  BY <1>1, <2>4 DEF EntryGets, Passed, SeenAsItIs
    <3>2. chains[p].narg = narg[sc[2]]  BY <1>1, <2>1, <2>2, <2>4 DEF ChainsMade
    <3>3. sc[2] \in Numbers  BY DEF Calls
    <3>4. narg[sc[2]] \in Int  BY <3>3, SyscallsAssumption
    <3>5. n <= chains[p].narg  BY <3>2, <3>4
    <3> QED  BY <2>4, <3>1, <3>5 DEF syscall_argn
  <2> QED  BY <2>3, <2>4
<1> QED  BY <1>2, <1>3, <1>4 DEF ArgumentsArrive

\* Whatever the kernel shows of its tables and names its functions by: a
\* callback runs on the calls it was hooked to and on no others, and reads the
\* arguments they were made with (syscall.c:145-353, syscall.h:41-64).  A kernel
\* that has 32-bit calls is taken to show their table (~Hidden32).
THEOREM HooksReachCalls ==
    ASSUME ~Hidden32
    PROVE SyscallsInit /\ [][SyscallsNext]_yvars => []CallsReachHooksWhole
<1>1. SysInv => CallsReachHooksWhole  BY HooksAreReached, ArgumentsDo DEF CallsReachHooksWhole
<1> QED  BY <1>1, SysStart, SysStep, PTL
-----------------------------------------------------------------------------
(* UserInit: what init reads is whole, and the hooks of the boot go away    *)

Pcs == {"out", "before", "run", "run copy", "after"}
Whats == STRING \cup {"none", "atrace.rc", "user_init.rc"}
CallRecord == [pc : Pcs, nr : Nrs, what : Whats, old : BOOLEAN, unhook : BOOLEAN, copied : BOOLEAN]
UiShapes ==
    /\ todo \in [Procs -> Seq(KindOfCall)]
    /\ call \in [Procs -> CallRecord]
    /\ items \in [Nrs -> SUBSET {"user", "regs"}]
    /\ path \in [Procs -> Whats]
    /\ DOMAIN read = Procs
    /\ replaced \in BOOLEAN /\ first_app \in BOOLEAN

In(p) == call[p].pc # "out"
Kinds == \A p \in Procs : In(p) => <<call[p].nr, call[p].what>> \in KindOfCall
\* the two exec calls have the same hooks; a flag seen set is set
Alike == /\ \A x \in {"user", "regs"} : x \in items["execve"] <=> x \in items["execveat"]
         /\ \A p \in Procs : In(p) /\ call[p].old =>
                /\ call[p].what = "app_process" => first_app
                /\ call[p].what = "atrace.rc" => replaced

\* a call of the program is still to be made
Waiting(p, c) == \E j \in DOMAIN todo[p] : todo[p][j] = c
\* the process is on its way to take the callbacks of the call off
TakesOff(p, ns) == In(p) /\ call[p].pc # "before" /\ call[p].unhook /\ call[p].nr \in ns
\* an app_process that is not waiting set first_app, and who set it takes off
AppLeads ==
    /\ \A p \in Procs : \A i \in DOMAIN Program[p] : Program[p][i][2] = "app_process" =>
          \/ Waiting(p, Program[p][i]) \/ "user" \notin items["execve"] \/ first_app
          \/ call[p].pc = "before" /\ call[p].what = "app_process"
    /\ first_app => "user" \notin items["execve"] \/ \E p \in Procs : TakesOff(p, Execs)
RegsLeave ==
    \A p \in Procs : \A i \in DOMAIN Program[p] : Program[p][i][1] \in Execs =>
        \/ Waiting(p, Program[p][i]) \/ "regs" \notin items["execve"] \/ (In(p) /\ call[p].nr \in Execs)
RcLeads ==
    /\ \A p \in Procs : \A i \in DOMAIN Program[p] : Program[p][i][2] = "atrace.rc" =>
          \/ Waiting(p, Program[p][i]) \/ "user" \notin items["openat"] \/ replaced
          \/ call[p].pc = "before" /\ call[p].what = "atrace.rc"
    /\ replaced => "user" \notin items["openat"] \/ \E p \in Procs : TakesOff(p, {"openat"})
    /\ "regs" \notin items["openat"]
LeaveInv == UiShapes /\ Kinds /\ Alike /\ AppLeads /\ RegsLeave /\ RcLeads

\* only one process opens the rc file, as init does
Reader(r) == \A p \in Procs : \A i \in DOMAIN Program[p] : Program[p][i][2] = "atrace.rc" => p = r
OneReader == \E r \in Procs : Reader(r)
\* a file name in the caller's memory or on its stack is changed once the file
\* is whole
RcInv(r) ==
    /\ \A p \in Procs : \A j \in DOMAIN todo[p] : todo[p][j][2] = "atrace.rc" => p = r
    /\ \A p \in Procs : In(p) /\ call[p].what = "atrace.rc" => p = r
    /\ \A p \in Procs : call[p].pc = "before" => path[p] = call[p].what
    /\ \A p \in Procs : call[p].pc = "run copy" => call[p].what = "atrace.rc"
    /\ call[r].what = "atrace.rc" /\ (call[r].pc = "run copy" \/ (call[r].pc = "run" /\ path[r] = "user_init.rc")) =>
           rc = <<"old", "added">>
    /\ RcIsWhole
---------------------------------------------------------------------------
\* What was waiting is the call entered now or waits on.
LEMMA HeadOrTail ==
    ASSUME NEW S, NEW s \in Seq(S), s # <<>>
    PROVE /\ Head(s) \in S /\ Tail(s) \in Seq(S)
          /\ Head(s) = s[1] /\ 1 \in DOMAIN s
          /\ \A j \in DOMAIN s : s[j] = Head(s) \/ \E k \in DOMAIN Tail(s) : Tail(s)[k] = s[j]
          /\ \A k \in DOMAIN Tail(s) : k + 1 \in DOMAIN s /\ Tail(s)[k] = s[k + 1]
<1>1. Head(s) \in S /\ Tail(s) \in Seq(S) /\ Head(s) = s[1] /\ 1 \in DOMAIN s  OBVIOUS
<1>2. Len(Tail(s)) = Len(s) - 1 /\ DOMAIN Tail(s) = 1 .. Len(s) - 1 /\ DOMAIN s = 1 .. Len(s) /\ Len(s) \in Nat  OBVIOUS
<1>3. \A k \in 1 .. Len(s) - 1 : Tail(s)[k] = s[k + 1]  OBVIOUS
<1>4. ASSUME NEW j \in DOMAIN s, j # 1 PROVE \E k \in DOMAIN Tail(s) : Tail(s)[k] = s[j]
  <2>1. j - 1 \in DOMAIN Tail(s) /\ Tail(s)[j - 1] = s[(j - 1) + 1] /\ (j - 1) + 1 = j  BY <1>2, <1>3, <1>4
  <2> QED BY <2>1
<1>5. \A k \in DOMAIN Tail(s) : k + 1 \in DOMAIN s /\ Tail(s)[k] = s[k + 1]  BY <1>2, <1>3
<1> QED BY <1>1, <1>4, <1>5

\* At the start no call is made and every hook is there.
LEMMA UiStart == UserInitInit => LeaveInv
<1> SUFFICES ASSUME UserInitInit PROVE LeaveInv  OBVIOUS
<1>1. /\ todo = Program /\ call = [p \in Procs |-> NoCall] /\ replaced = FALSE /\ first_app = FALSE
      /\ items = [n \in Nrs |-> IF n \in Execs THEN {"user", "regs"} ELSE {"user"}]
      /\ path = [p \in Procs |-> "none"] /\ read = [p \in Procs |-> <<>>]
  BY DEF UserInitInit
<1>2. NoCall \in CallRecord /\ "none" \in Whats  BY DEF NoCall, CallRecord, Pcs, Nrs, Whats
<1>3. UiShapes  BY <1>1, <1>2, UserInitAssumption DEF UiShapes, Nrs, Execs, UserInitAssumption
<1>4. \A p \in Procs : ~In(p)  BY <1>1 DEF In, NoCall
<1>5. \A p \in Procs : \A i \in DOMAIN Program[p] : Waiting(p, Program[p][i])  BY <1>1 DEF Waiting
<1>6. Kinds /\ Alike  BY <1>1, <1>4 DEF Kinds, Alike, Nrs, Execs
<1>7. AppLeads /\ RegsLeave /\ RcLeads  BY <1>1, <1>5 DEF AppLeads, RegsLeave, RcLeads, Nrs, Execs
<1> QED BY <1>3, <1>6, <1>7 DEF LeaveInv

\* Entering a call: it waits no longer, and its callback is before it.
LEMMA Enters == ASSUME LeaveInv, NEW p \in Procs, Enter(p) PROVE LeaveInv'
<1> DEFINE nr == Head(todo[p])[1]
           what == Head(todo[p])[2]
           old == CASE what = "app_process" -> first_app [] what = "atrace.rc" -> replaced [] OTHER -> FALSE
           new == [pc |-> IF "user" \in items[nr] THEN "before" ELSE "run", nr |-> nr,
                   what |-> what, old |-> old, unhook |-> FALSE, copied |-> FALSE]
<1>1. /\ call[p].pc = "out" /\ todo[p] # <<>> /\ call' = [call EXCEPT ![p] = new]
      /\ path' = [path EXCEPT ![p] = what] /\ todo' = [todo EXCEPT ![p] = Tail(@)]
      /\ UNCHANGED <<items, replaced, first_app, read>>
  BY DEF Enter
<1>2. todo[p] \in Seq(KindOfCall)  BY DEF LeaveInv, UiShapes
<1>3. /\ Head(todo[p]) \in KindOfCall /\ Tail(todo[p]) \in Seq(KindOfCall)
      /\ \A j \in DOMAIN todo[p] : todo[p][j] = Head(todo[p]) \/ \E k \in DOMAIN Tail(todo[p]) : Tail(todo[p])[k] = todo[p][j]
  BY <1>1, <1>2, HeadOrTail
<1>4. nr \in Nrs /\ what \in Whats /\ Head(todo[p]) = <<nr, what>>  BY <1>3 DEF KindOfCall, Whats
<1>5. old \in BOOLEAN  BY DEF LeaveInv, UiShapes
<1>6. new \in CallRecord  BY <1>4, <1>5 DEF CallRecord, Pcs
<1>7. UiShapes'  BY <1>1, <1>3, <1>4, <1>6 DEF LeaveInv, UiShapes
<1>8. /\ call'[p] = new /\ \A q \in Procs \ {p} : call'[q] = call[q] /\ todo'[q] = todo[q]
      /\ todo'[p] = Tail(todo[p])
  BY <1>1 DEF LeaveInv, UiShapes
<1>9. ASSUME NEW c, Waiting(p, c), ~Waiting(p, c)' PROVE c = <<nr, what>>
  <2>1. PICK j \in DOMAIN todo[p] : todo[p][j] = c  BY <1>9 DEF Waiting
  <2>2. ~\E k \in DOMAIN Tail(todo[p]) : Tail(todo[p])[k] = c  BY <1>8, <1>9 DEF Waiting
  <2>3. c = Head(todo[p])  BY <1>3, <2>1, <2>2
  <2> QED BY <1>4, <2>3
<1>10. \A q \in Procs : \A c : Waiting(q, c) => Waiting(q, c)' \/ (q = p /\ c = <<nr, what>>)
  <2>1. \A q \in Procs \ {p} : \A c : Waiting(q, c) => Waiting(q, c)'  BY <1>8 DEF Waiting
  <2> HIDE DEF nr, what
  <2>2. \A c : Waiting(p, c) => Waiting(p, c)' \/ c = <<nr, what>>  BY <1>9
  <2> QED BY <2>1, <2>2
<1>11. /\ new.nr = nr /\ new.what = what /\ new.unhook = FALSE
       /\ new.pc = (IF "user" \in items[nr] THEN "before" ELSE "run")
       /\ (new.old <=> old)
  OBVIOUS
<1>12. /\ what = "app_process" => (old <=> first_app)
       /\ what = "atrace.rc" => (old <=> replaced)
  OBVIOUS
<1>13. \A q \in Procs : \A ns : TakesOff(q, ns) => TakesOff(q, ns)'
  BY <1>1, <1>8 DEF TakesOff, In
<1> HIDE DEF new, old
<1>14. Kinds'  BY <1>3, <1>4, <1>8, <1>11 DEF LeaveInv, Kinds, In
<1>15. Alike'
  <2>1. ASSUME NEW q \in Procs, In(q)', call'[q].old PROVE
               (call'[q].what = "app_process" => first_app) /\ (call'[q].what = "atrace.rc" => replaced)
    <3>1. CASE q = p  BY <2>1, <3>1, <1>8, <1>11, <1>12
    <3>2. CASE q # p  BY <2>1, <3>2, <1>8 DEF LeaveInv, Alike, In
    <3> QED BY <3>1, <3>2
  <2> QED BY <1>1, <2>1 DEF LeaveInv, Alike
<1>16. AppLeads'
  <2>1. ASSUME NEW q \in Procs, NEW i \in DOMAIN Program[q], Program[q][i][2] = "app_process"
        PROVE \/ Waiting(q, Program[q][i])' \/ "user" \notin items["execve"] \/ first_app
              \/ call'[q].pc = "before" /\ call'[q].what = "app_process"
    <3>1. CASE Waiting(q, Program[q][i])' \/ "user" \notin items["execve"] \/ first_app  BY <3>1
    <3>2. CASE ~(Waiting(q, Program[q][i])' \/ "user" \notin items["execve"] \/ first_app)
      <4>1. CASE Waiting(q, Program[q][i])
        <5>1. q = p /\ Program[q][i] = <<nr, what>>  BY <1>10, <3>2, <4>1
        <5>2. what = "app_process" /\ nr \in Execs  BY <2>1, <5>1, <1>3, <1>4 DEF KindOfCall
        <5>3. "user" \in items[nr]  BY <3>2, <5>2 DEF LeaveInv, Alike, Execs
        <5> QED BY <5>1, <5>2, <5>3, <1>8, <1>11
      <4>2. CASE ~Waiting(q, Program[q][i])
        <5>1. call[q].pc = "before" /\ call[q].what = "app_process"  BY <2>1, <3>2, <4>2 DEF LeaveInv, AppLeads
        <5> QED BY <5>1, <1>1, <1>8
      <4> QED BY <4>1, <4>2
    <3> QED BY <3>1, <3>2
  <2>2. first_app => "user" \notin items["execve"] \/ \E q \in Procs : TakesOff(q, Execs)'
    BY <1>13 DEF LeaveInv, AppLeads
  <2> QED BY <1>1, <2>1, <2>2 DEF AppLeads
<1>17. RegsLeave'
  <2>1. ASSUME NEW q \in Procs, NEW i \in DOMAIN Program[q], Program[q][i][1] \in Execs,
               ~Waiting(q, Program[q][i])', "regs" \in items["execve"]
        PROVE In(q)' /\ call'[q].nr \in Execs
    <3>1. CASE Waiting(q, Program[q][i])
      <4>1. q = p /\ Program[q][i] = <<nr, what>>  BY <1>10, <2>1, <3>1
      <4> QED BY <4>1, <2>1, <1>8, <1>11 DEF In
    <3>2. CASE ~Waiting(q, Program[q][i])
      <4>1. In(q) /\ call[q].nr \in Execs  BY <2>1, <3>2 DEF LeaveInv, RegsLeave
      <4> QED BY <4>1, <1>1, <1>8 DEF In
    <3> QED BY <3>1, <3>2
  <2> QED BY <1>1, <2>1 DEF RegsLeave
<1>18. RcLeads'
  <2>1. ASSUME NEW q \in Procs, NEW i \in DOMAIN Program[q], Program[q][i][2] = "atrace.rc",
               ~Waiting(q, Program[q][i])', "user" \in items["openat"], ~replaced
        PROVE call'[q].pc = "before" /\ call'[q].what = "atrace.rc"
    <3>1. CASE Waiting(q, Program[q][i])
      <4>1. q = p /\ Program[q][i] = <<nr, what>>  BY <1>10, <2>1, <3>1
      <4>2. what = "atrace.rc" /\ nr = "openat"  BY <2>1, <4>1, <1>3, <1>4 DEF KindOfCall
      <4> QED BY <2>1, <4>1, <4>2, <1>8, <1>11
    <3>2. CASE ~Waiting(q, Program[q][i])
      <4>1. call[q].pc = "before" /\ call[q].what = "atrace.rc"  BY <2>1, <3>2 DEF LeaveInv, RcLeads
      <4> QED BY <4>1, <1>1, <1>8
    <3> QED BY <3>1, <3>2
  <2>2. replaced => "user" \notin items["openat"] \/ \E q \in Procs : TakesOff(q, {"openat"})'
    BY <1>13 DEF LeaveInv, RcLeads
  <2> QED BY <1>1, <2>1, <2>2 DEF LeaveInv, RcLeads
<1> QED BY <1>7, <1>14, <1>15, <1>16, <1>17, <1>18 DEF LeaveInv
---------------------------------------------------------------------------
\* A step that makes a process go on inside its call: what is left to show.
LEMMA GoesOn ==
    ASSUME LeaveInv, NEW p \in Procs, In(p), todo' = todo, call' \in [Procs -> CallRecord],
           \A q \in Procs \ {p} : call'[q] = call[q],
           call'[p].pc # "out", call'[p].nr = call[p].nr, call'[p].what = call[p].what, call'[p].old <=> call[p].old,
           items' = items, path' \in [Procs -> Whats], DOMAIN read' = Procs,
           replaced' \in BOOLEAN, first_app' \in BOOLEAN, replaced => replaced', first_app => first_app',
           TakesOff(p, Nrs) => TakesOff(p, Nrs)',
           call[p].pc = "before" /\ call'[p].pc # "before" =>
               /\ call[p].what = "app_process" => first_app'
               /\ call[p].what = "atrace.rc" => replaced',
           first_app' => first_app \/ TakesOff(p, Execs)',
           replaced' => replaced \/ TakesOff(p, {"openat"})'
    PROVE LeaveInv'
<1>1. UiShapes'  BY DEF LeaveInv, UiShapes
<1>2. Kinds'  BY DEF LeaveInv, Kinds, In
<1>3. Alike'
  <2>1. ASSUME NEW q \in Procs, In(q)', call'[q].old PROVE
               (call'[q].what = "app_process" => first_app') /\ (call'[q].what = "atrace.rc" => replaced')
    BY <2>1 DEF LeaveInv, Alike, In
  <2> QED BY <2>1 DEF LeaveInv, Alike
<1>4. \A q \in Procs : \A c : Waiting(q, c) <=> Waiting(q, c)'  BY DEF Waiting
<1>5. \A q \in Procs, ns \in SUBSET Nrs : TakesOff(q, ns) => TakesOff(q, ns)'
  BY DEF TakesOff, In
<1>11. \A q \in Procs : In(q) <=> In(q)'  BY DEF In
<1>12. Execs \in SUBSET Nrs /\ {"openat"} \in SUBSET Nrs  BY DEF Execs, Nrs
<1>6. \A q \in Procs : call[q].pc = "before" => \/ call'[q].pc = "before" /\ call'[q].what = call[q].what
                                               \/ /\ call[q].what = "app_process" => first_app'
                                                  /\ call[q].what = "atrace.rc" => replaced'
  OBVIOUS
<1>7. \A q \in Procs : call'[q].nr = call[q].nr  OBVIOUS
<1>8. AppLeads'
  <2>1. ASSUME NEW q \in Procs, NEW i \in DOMAIN Program[q], Program[q][i][2] = "app_process",
               ~Waiting(q, Program[q][i])', "user" \in items["execve"], ~first_app'
        PROVE call'[q].pc = "before" /\ call'[q].what = "app_process"
    <3>1. call[q].pc = "before" /\ call[q].what = "app_process"  BY <2>1, <1>4 DEF LeaveInv, AppLeads
    <3> QED BY <3>1, <2>1, <1>6
  <2>2. first_app' => "user" \notin items["execve"] \/ \E q \in Procs : TakesOff(q, Execs)'
    BY <1>5, <1>12 DEF LeaveInv, AppLeads
  <2> QED BY <2>1, <2>2 DEF AppLeads
<1>9. RegsLeave'
  <2>1. ASSUME NEW q \in Procs, NEW i \in DOMAIN Program[q], Program[q][i][1] \in Execs,
               ~Waiting(q, Program[q][i])', "regs" \in items["execve"]
        PROVE In(q)' /\ call'[q].nr \in Execs
    <3>1. In(q) /\ call[q].nr \in Execs  BY <2>1, <1>4 DEF LeaveInv, RegsLeave
    <3> QED BY <3>1, <1>11, <1>7
  <2> QED BY <2>1 DEF RegsLeave
<1>10. RcLeads'
  <2>1. ASSUME NEW q \in Procs, NEW i \in DOMAIN Program[q], Program[q][i][2] = "atrace.rc",
               ~Waiting(q, Program[q][i])', "user" \in items["openat"], ~replaced'
        PROVE call'[q].pc = "before" /\ call'[q].what = "atrace.rc"
    <3>1. call[q].pc = "before" /\ call[q].what = "atrace.rc"  BY <2>1, <1>4 DEF LeaveInv, RcLeads
    <3> QED BY <3>1, <2>1, <1>6
  <2>2. replaced' => "user" \notin items["openat"] \/ \E q \in Procs : TakesOff(q, {"openat"})'
    BY <1>5, <1>12 DEF LeaveInv, RcLeads
  <2> QED BY <2>1, <2>2 DEF LeaveInv, RcLeads
<1> QED BY <1>1, <1>2, <1>3, <1>8, <1>9, <1>10 DEF LeaveInv
\* before_execve: an app_process that did not see first_app sets it and is to
\* take the callbacks off.
LEMMA BeforeExecs == ASSUME LeaveInv, NEW p \in Procs, handle_before_execve(p) PROVE LeaveInv'
<1> DEFINE app == call[p].what = "app_process" /\ ~call[p].old
<1>1. /\ call[p].pc = "before" /\ call[p].nr \in Execs /\ first_app' = (first_app \/ app)
      /\ call' = [call EXCEPT ![p].pc = "run", ![p].unhook = app, ![p].copied = FALSE]
      /\ UNCHANGED <<items, todo, replaced, path, read>>
  BY DEF handle_before_execve, Go
<1>2. call[p] \in CallRecord /\ app \in BOOLEAN /\ first_app \in BOOLEAN  BY DEF LeaveInv, UiShapes
<1>3. call'[p] = [call[p] EXCEPT !.pc = "run", !.unhook = app, !.copied = FALSE]
  BY <1>1 DEF LeaveInv, UiShapes
<1>4. call'[p] \in CallRecord  BY <1>2, <1>3 DEF CallRecord, Pcs
<1>5. /\ call'[p].pc = "run" /\ call'[p].nr = call[p].nr /\ call'[p].what = call[p].what
      /\ (call'[p].old <=> call[p].old) /\ (call'[p].unhook <=> app)
  BY <1>2, <1>3 DEF CallRecord
<1>6. call' \in [Procs -> CallRecord] /\ \A q \in Procs \ {p} : call'[q] = call[q]
  BY <1>1, <1>4 DEF LeaveInv, UiShapes
<1>7. call[p].what = "app_process" => first_app'
  BY <1>1 DEF LeaveInv, Alike, In
<1>8. call[p].what # "atrace.rc"
  BY <1>1 DEF LeaveInv, Kinds, In, KindOfCall, Execs
<1>9. first_app' => first_app \/ TakesOff(p, Execs)'
  BY <1>1, <1>5 DEF TakesOff, In
<1>10. ~TakesOff(p, Nrs)  BY <1>1 DEF TakesOff
<1>11. first_app' \in BOOLEAN /\ (first_app => first_app')  BY <1>1, <1>2
<1>12. replaced \in BOOLEAN /\ path \in [Procs -> Whats] /\ DOMAIN read = Procs  BY DEF LeaveInv, UiShapes
<1>13. In(p)  BY <1>1 DEF In
<1> HIDE DEF app
<1> QED BY <1>1, <1>5, <1>6, <1>7, <1>8, <1>9, <1>10, <1>11, <1>12, <1>13, GoesOn
\* before_openat: whoever sees the rc file first sets replaced and is to take
\* the callback off, wherever the copying stops.
LEMMA BeforeOpenats == ASSUME LeaveInv, NEW p \in Procs, before_openat(p) PROVE LeaveInv'
<1>1. /\ call[p].pc = "before" /\ call[p].nr = "openat" /\ UNCHANGED <<items, todo, first_app, read>>
  BY DEF before_openat
<1>2. call[p] \in CallRecord /\ path \in [Procs -> Whats] /\ replaced \in BOOLEAN /\ first_app \in BOOLEAN
  BY DEF LeaveInv, UiShapes
<1>3. call[p].what # "app_process"
  BY <1>1 DEF LeaveInv, Kinds, In, KindOfCall, Execs
<1>4. In(p) /\ ~TakesOff(p, Nrs) /\ DOMAIN read' = Procs  BY <1>1 DEF In, TakesOff, LeaveInv, UiShapes
<1>5. CASE call[p].what # "atrace.rc" \/ call[p].old
  <2>1. /\ call' = [call EXCEPT ![p].pc = "run", ![p].unhook = FALSE, ![p].copied = FALSE]
        /\ UNCHANGED <<replaced, path>>
    BY <1>5 DEF before_openat, Go
  <2>2. call'[p] = [call[p] EXCEPT !.pc = "run", !.unhook = FALSE, !.copied = FALSE]
    BY <2>1 DEF LeaveInv, UiShapes
  <2>3. call'[p] \in CallRecord  BY <1>2, <2>2 DEF CallRecord, Pcs
  <2>4. /\ call'[p].pc = "run" /\ call'[p].nr = call[p].nr /\ call'[p].what = call[p].what
        /\ (call'[p].old <=> call[p].old)
    BY <1>2, <2>2 DEF CallRecord
  <2>5. call' \in [Procs -> CallRecord] /\ \A q \in Procs \ {p} : call'[q] = call[q]
    BY <2>1, <2>3 DEF LeaveInv, UiShapes
  <2>6. call[p].what = "atrace.rc" => replaced
    BY <1>4, <1>5 DEF LeaveInv, Alike
  <2> QED BY <1>1, <1>2, <1>3, <1>4, <2>1, <2>4, <2>5, <2>6, GoesOn
<1>6. CASE ~(call[p].what # "atrace.rc" \/ call[p].old)
  <2>1. PICK at \in {"create", "read", "write", "add", "done"}, name \in BOOLEAN :
          /\ path' = IF Redirects(at) /\ name THEN [path EXCEPT ![p] = "user_init.rc"] ELSE path
          /\ call' = [call EXCEPT ![p].pc = IF Redirects(at) /\ ~name /\ ~wrapper THEN "run copy" ELSE "run",
                                  ![p].unhook = TRUE, ![p].copied = Redirects(at) /\ name]
    BY <1>6, ZenonT(30) DEF before_openat
  <2> DEFINE goes == IF Redirects(at) /\ ~name /\ ~wrapper THEN "run copy" ELSE "run"
             there == Redirects(at) /\ name
  <2>2. replaced'  BY <1>6 DEF before_openat
  <2>3. goes \in {"run", "run copy"} /\ there \in BOOLEAN  BY DEF Redirects
  <2>4. call'[p] = [call[p] EXCEPT !.pc = goes, !.unhook = TRUE, !.copied = there]
    BY <2>1 DEF LeaveInv, UiShapes
  <2>5. path' \in [Procs -> Whats]  BY <1>2, <2>1 DEF Whats
  <2>6. \A q \in Procs \ {p} : call'[q] = call[q]  BY <2>1 DEF LeaveInv, UiShapes
  <2>7. DOMAIN call' = Procs /\ call' = [q \in Procs |-> call'[q]]  BY <2>1 DEF LeaveInv, UiShapes
  <2> HIDE DEF goes, there
  <2>8. call'[p] \in CallRecord  BY <1>2, <2>3, <2>4 DEF CallRecord, Pcs
  <2>9. /\ call'[p].pc \in {"run", "run copy"} /\ call'[p].nr = call[p].nr /\ call'[p].what = call[p].what
        /\ (call'[p].old <=> call[p].old) /\ call'[p].unhook
    BY <1>2, <2>3, <2>4 DEF CallRecord
  <2>10. call' \in [Procs -> CallRecord]
    <3>1. \A q \in Procs : call'[q] \in CallRecord  BY <2>6, <2>8 DEF LeaveInv, UiShapes
    <3> QED BY <2>7, <3>1
  <2>11. TakesOff(p, {"openat"})'  BY <1>1, <2>9 DEF TakesOff, In
  <2>12. replaced' \in BOOLEAN  BY <1>2, <1>6 DEF before_openat
  <2> QED BY <1>1, <1>2, <1>3, <1>4, <2>2, <2>5, <2>6, <2>9, <2>10, <2>11, <2>12, GoesOn
<1> QED BY <1>5, <1>6

\* The system call changes nothing of this.
LEMMA Runs == ASSUME LeaveInv, NEW p \in Procs, Run(p) PROVE LeaveInv'
<1>1. /\ call[p].pc \in {"run", "run copy"} /\ call' = [call EXCEPT ![p].pc = "after"]
      /\ UNCHANGED <<items, todo, replaced, first_app, path>> /\ DOMAIN read' = DOMAIN read
  BY DEF Run, flags
<1>2. call[p] \in CallRecord /\ path \in [Procs -> Whats] /\ replaced \in BOOLEAN /\ first_app \in BOOLEAN
      /\ DOMAIN read = Procs
  BY DEF LeaveInv, UiShapes
<1>3. call'[p] = [call[p] EXCEPT !.pc = "after"]  BY <1>1 DEF LeaveInv, UiShapes
<1>4. call'[p] \in CallRecord  BY <1>2, <1>3 DEF CallRecord, Pcs
<1>5. /\ call'[p].pc = "after" /\ call'[p].nr = call[p].nr /\ call'[p].what = call[p].what
      /\ (call'[p].old <=> call[p].old) /\ (call'[p].unhook <=> call[p].unhook)
  BY <1>2, <1>3 DEF CallRecord
<1>6. call' \in [Procs -> CallRecord] /\ \A q \in Procs \ {p} : call'[q] = call[q]
  BY <1>1, <1>4 DEF LeaveInv, UiShapes
<1>7. TakesOff(p, Nrs) => TakesOff(p, Nrs)'  BY <1>5 DEF TakesOff, In
<1>8. In(p)  BY <1>1 DEF In
<1> QED BY <1>1, <1>2, <1>5, <1>6, <1>7, <1>8, GoesOn
\* A call ends: who was to take a callback off has.
LEMMA Ends ==
    ASSUME LeaveInv, NEW p \in Procs, call[p].pc = "after", call' = [call EXCEPT ![p] = NoCall],
           UNCHANGED <<todo, replaced, first_app, read>>, path' \in [Procs -> Whats],
           items' \in [Nrs -> SUBSET {"user", "regs"}], \A n \in Nrs : items'[n] \subseteq items[n],
           \A x \in {"user", "regs"} : x \in items'["execve"] <=> x \in items'["execveat"],
           call[p].nr \in Execs => "regs" \notin items'["execve"],
           call[p].unhook /\ call[p].nr \in Execs => "user" \notin items'["execve"],
           call[p].unhook /\ call[p].nr = "openat" => "user" \notin items'["openat"]
    PROVE LeaveInv'
<1>1. NoCall \in CallRecord  BY DEF NoCall, CallRecord, Pcs, Nrs, Whats
<1>2. call'[p] = NoCall /\ \A q \in Procs \ {p} : call'[q] = call[q]  BY DEF LeaveInv, UiShapes
<1>3. UiShapes'  BY <1>1 DEF LeaveInv, UiShapes
<1>4. ~In(p)'  BY <1>2 DEF In, NoCall
<1>5. Kinds'  BY <1>2, <1>4 DEF LeaveInv, Kinds, In
<1>6. Alike'
  <2>1. ASSUME NEW q \in Procs, In(q)', call'[q].old PROVE
               (call'[q].what = "app_process" => first_app) /\ (call'[q].what = "atrace.rc" => replaced)
    <3>1. q # p  BY <2>1, <1>4
    <3> QED BY <3>1, <2>1, <1>2 DEF LeaveInv, Alike, In
  <2> QED BY <2>1 DEF Alike
<1>7. \A q \in Procs : \A c : Waiting(q, c) <=> Waiting(q, c)'  BY DEF Waiting
<1>8. \A q \in Procs \ {p}, ns \in SUBSET Nrs : TakesOff(q, ns) => TakesOff(q, ns)'  BY <1>2 DEF TakesOff, In
<1>9. {"execve", "openat"} \subseteq Nrs /\ Execs \in SUBSET Nrs /\ {"openat"} \in SUBSET Nrs  BY DEF Nrs, Execs
<1>10. AppLeads'
  <2>1. ASSUME NEW q \in Procs, NEW i \in DOMAIN Program[q], Program[q][i][2] = "app_process",
               ~Waiting(q, Program[q][i])', "user" \in items'["execve"], ~first_app
        PROVE call'[q].pc = "before" /\ call'[q].what = "app_process"
    <3>1. "user" \in items["execve"]  BY <2>1, <1>9
    <3>2. call[q].pc = "before" /\ call[q].what = "app_process"  BY <2>1, <3>1, <1>7 DEF LeaveInv, AppLeads
    <3>3. q # p  BY <3>2
    <3> QED BY <3>2, <3>3, <1>2
  <2>2. ASSUME first_app, "user" \in items'["execve"] PROVE \E q \in Procs : TakesOff(q, Execs)'
    <3>1. "user" \in items["execve"]  BY <2>2, <1>9
    <3>2. PICK q \in Procs : TakesOff(q, Execs)  BY <2>2, <3>1 DEF LeaveInv, AppLeads
    <3>3. q # p  BY <2>2, <3>2 DEF TakesOff
    <3> QED BY <3>2, <3>3, <1>8, <1>9
  <2> QED BY <2>1, <2>2 DEF AppLeads
<1>11. RegsLeave'
  <2>1. ASSUME NEW q \in Procs, NEW i \in DOMAIN Program[q], Program[q][i][1] \in Execs,
               ~Waiting(q, Program[q][i])', "regs" \in items'["execve"]
        PROVE In(q)' /\ call'[q].nr \in Execs
    <3>1. "regs" \in items["execve"]  BY <2>1, <1>9
    <3>2. In(q) /\ call[q].nr \in Execs  BY <2>1, <3>1, <1>7 DEF LeaveInv, RegsLeave
    <3>3. q # p  BY <2>1, <3>2
    <3> QED BY <3>2, <3>3, <1>2 DEF In
  <2> QED BY <2>1 DEF RegsLeave
<1>12. RcLeads'
  <2>1. ASSUME NEW q \in Procs, NEW i \in DOMAIN Program[q], Program[q][i][2] = "atrace.rc",
               ~Waiting(q, Program[q][i])', "user" \in items'["openat"], ~replaced
        PROVE call'[q].pc = "before" /\ call'[q].what = "atrace.rc"
    <3>1. "user" \in items["openat"]  BY <2>1, <1>9
    <3>2. call[q].pc = "before" /\ call[q].what = "atrace.rc"  BY <2>1, <3>1, <1>7 DEF LeaveInv, RcLeads
    <3>3. q # p  BY <3>2
    <3> QED BY <3>2, <3>3, <1>2
  <2>2. ASSUME replaced, "user" \in items'["openat"] PROVE \E q \in Procs : TakesOff(q, {"openat"})'
    <3>1. "user" \in items["openat"]  BY <2>2, <1>9
    <3>2. PICK q \in Procs : TakesOff(q, {"openat"})  BY <2>2, <3>1 DEF LeaveInv, RcLeads
    <3>3. q # p  BY <2>2, <3>2 DEF TakesOff
    <3> QED BY <3>2, <3>3, <1>8, <1>9
  <2>3. "regs" \notin items'["openat"]  BY <1>9 DEF LeaveInv, RcLeads
  <2> QED BY <2>1, <2>2, <2>3 DEF RcLeads
<1> QED BY <1>3, <1>5, <1>6, <1>10, <1>11, <1>12 DEF LeaveInv

\* after_execve and after_execv: both callbacks leave both calls.
LEMMA AfterExecs == ASSUME LeaveInv, NEW p \in Procs, handle_after_execve(p) PROVE LeaveInv'
<1> DEFINE mine == items[call[p].nr]
           gone == (IF "user" \in mine /\ call[p].unhook THEN {"user"} ELSE {})
                   \cup (IF "regs" \in mine THEN {"regs"} ELSE {})
<1>1. /\ call[p].pc = "after" /\ call[p].nr \in Execs /\ call' = [call EXCEPT ![p] = NoCall]
      /\ items' = [n \in Nrs |-> IF n \in Execs THEN items[n] \ gone ELSE items[n]]
      /\ UNCHANGED <<todo, replaced, first_app, read, path>>
  BY DEF handle_after_execve, flags
<1>2. path' \in [Procs -> Whats] /\ items \in [Nrs -> SUBSET {"user", "regs"}]  BY <1>1 DEF LeaveInv, UiShapes
<1>3. \A x \in {"user", "regs"} : x \in items["execve"] <=> x \in items["execveat"]  BY DEF LeaveInv, Alike
<1>4. /\ \A n \in Nrs : items'[n] \subseteq items[n]
      /\ items'["execve"] = items["execve"] \ gone /\ items'["execveat"] = items["execveat"] \ gone
      /\ items' \in [Nrs -> SUBSET {"user", "regs"}]
  BY <1>1, <1>2 DEF Nrs, Execs
<1>5. "regs" \in items["execve"] => "regs" \in gone  BY <1>1, <1>3 DEF Execs
<1>6. call[p].unhook /\ "user" \in items["execve"] => "user" \in gone  BY <1>1, <1>3 DEF Execs
<1>7. call[p].nr # "openat"  BY <1>1 DEF Execs
<1> HIDE DEF mine, gone
<1> QED BY <1>1, <1>2, <1>3, <1>4, <1>5, <1>6, <1>7, Ends

\* after_openat.
LEMMA AfterOpenats == ASSUME LeaveInv, NEW p \in Procs, after_openat(p) PROVE LeaveInv'
<1> DEFINE mine == "user" \in items["openat"]
<1>1. /\ call[p].pc = "after" /\ call[p].nr = "openat" /\ call' = [call EXCEPT ![p] = NoCall]
      /\ items' = IF mine /\ call[p].unhook THEN Off({"openat"}, "user") ELSE items
      /\ path' = IF mine /\ call[p].copied /\ ~wrapper THEN [path EXCEPT ![p] = "atrace.rc"] ELSE path
      /\ UNCHANGED <<todo, replaced, first_app, read>>
  BY DEF after_openat, flags
<1>2. path' \in [Procs -> Whats] /\ items \in [Nrs -> SUBSET {"user", "regs"}]  BY <1>1 DEF LeaveInv, UiShapes, Whats
<1>3. \A x \in {"user", "regs"} : x \in items["execve"] <=> x \in items["execveat"]  BY DEF LeaveInv, Alike
<1>4. /\ \A n \in Nrs : items'[n] \subseteq items[n]
      /\ items'["execve"] = items["execve"] /\ items'["execveat"] = items["execveat"]
      /\ items' \in [Nrs -> SUBSET {"user", "regs"}]
      /\ call[p].unhook => "user" \notin items'["openat"]
  BY <1>1, <1>2 DEF Nrs, Off
<1>5. call[p].nr \notin Execs  BY <1>1 DEF Execs
<1> QED BY <1>1, <1>2, <1>3, <1>4, <1>5, Ends

\* Every step keeps the invariant.
LEMMA LeaveStep == LeaveInv /\ [UserInitNext]_uvars => LeaveInv'
<1> SUFFICES ASSUME LeaveInv, [UserInitNext]_uvars PROVE LeaveInv'  OBVIOUS
<1>1. CASE UNCHANGED uvars
  BY <1>1 DEF uvars, flags, LeaveInv, UiShapes, Kinds, Alike, AppLeads, RegsLeave, RcLeads, In, Waiting, TakesOff
<1>2. CASE UserInitNext
  <2>1. PICK p \in Procs : Step(p)  BY <1>2 DEF UserInitNext
  <2> QED BY <2>1, Enters, BeforeExecs, BeforeOpenats, Runs, AfterExecs, AfterOpenats DEF Step
<1> QED BY <1>1, <1>2

\* When no process has anything left to do, no hook has.
LEMMA LeaveGoes == LeaveInv => HooksGoAway
<1> SUFFICES ASSUME LeaveInv, \A p \in Procs : todo[p] = <<>> /\ call[p].pc = "out"
             PROVE /\ Made("app_process") => \A n \in Execs : items[n] = {}
                   /\ Made("atrace.rc") => items["openat"] = {}
  BY DEF HooksGoAway
<1>1. \A p \in Procs : \A c : ~Waiting(p, c)  BY DEF Waiting
<1>2. \A p \in Procs : \A ns : ~TakesOff(p, ns) /\ ~In(p)  BY DEF TakesOff, In
<1>3. ASSUME Made("app_process") PROVE \A n \in Execs : items[n] = {}
  <2>1. PICK p \in Procs : \E i \in DOMAIN Program[p] : Program[p][i][2] = "app_process"  BY <1>3 DEF Made
  <2>2. PICK i \in DOMAIN Program[p] : Program[p][i][2] = "app_process"  BY <2>1
  <2>3. Program[p][i] \in KindOfCall  BY <2>2, UserInitAssumption DEF UserInitAssumption
  <2>4. Program[p][i][1] \in Execs  BY <2>2, <2>3 DEF KindOfCall
  <2>5. "user" \notin items["execve"]  BY <1>1, <1>2, <2>2 DEF LeaveInv, AppLeads
  <2>6. "regs" \notin items["execve"]  BY <1>1, <1>2, <2>2, <2>4 DEF LeaveInv, RegsLeave
  <2> QED BY <2>5, <2>6 DEF LeaveInv, Alike, UiShapes, Execs, Nrs
<1>4. ASSUME Made("atrace.rc") PROVE items["openat"] = {}
  <2>1. PICK p \in Procs : \E i \in DOMAIN Program[p] : Program[p][i][2] = "atrace.rc"  BY <1>4 DEF Made
  <2>2. PICK i \in DOMAIN Program[p] : Program[p][i][2] = "atrace.rc"  BY <2>1
  <2>3. "user" \notin items["openat"]  BY <1>1, <1>2, <2>2 DEF LeaveInv, RcLeads
  <2> QED BY <2>3 DEF LeaveInv, RcLeads, UiShapes, Nrs
<1> QED BY <1>3, <1>4

\* Nobody has opened anything at the start.
LEMMA RcStart == ASSUME UserInitInit, NEW r \in Procs, Reader(r) PROVE RcInv(r)
<1>1. todo = Program /\ call = [p \in Procs |-> NoCall] /\ read = [p \in Procs |-> <<>>]  BY DEF UserInitInit
<1>2. \A p \in Procs : ~In(p) /\ call[p].pc = "out"  BY <1>1 DEF In, NoCall
<1>3. RcIsWhole  BY <1>1 DEF RcIsWhole
<1>4. \A p \in Procs : \A j \in DOMAIN todo[p] : todo[p][j][2] = "atrace.rc" => p = r  BY <1>1 DEF Reader
<1> QED BY <1>2, <1>3, <1>4 DEF RcInv

\* Only the process that opens the rc file enters that call, with the name in
\* its memory as it was.
LEMMA RcEnters == ASSUME LeaveInv, NEW r \in Procs, RcInv(r), NEW p \in Procs, Enter(p) PROVE RcInv(r)'
<1> DEFINE nr == Head(todo[p])[1]
           what == Head(todo[p])[2]
           pc == IF "user" \in items[nr] THEN "before" ELSE "run"
<1>1. /\ call[p].pc = "out" /\ todo[p] # <<>> /\ path' = [path EXCEPT ![p] = what]
      /\ todo' = [todo EXCEPT ![p] = Tail(@)] /\ UNCHANGED <<rc, read>>
  BY DEF Enter
<1>2. call'[p].pc = pc /\ call'[p].what = what /\ \A q \in Procs \ {p} : call'[q] = call[q]
  BY DEF Enter, LeaveInv, UiShapes
<1>3. todo[p] \in Seq(KindOfCall)  BY DEF LeaveInv, UiShapes
<1>4. /\ Head(todo[p]) = todo[p][1] /\ 1 \in DOMAIN todo[p]
      /\ \A k \in DOMAIN Tail(todo[p]) : k + 1 \in DOMAIN todo[p] /\ Tail(todo[p])[k] = todo[p][k + 1]
  BY <1>1, <1>3, HeadOrTail
<1>5. todo'[p] = Tail(todo[p]) /\ path'[p] = what
      /\ \A q \in Procs \ {p} : todo'[q] = todo[q] /\ path'[q] = path[q]
  BY <1>1 DEF LeaveInv, UiShapes
<1>6. what = "atrace.rc" => p = r  BY <1>4 DEF RcInv
<1>7. pc \in {"before", "run"}  OBVIOUS
<1> HIDE DEF nr, what, pc
<1>8. \A q \in Procs : \A j \in DOMAIN todo'[q] : todo'[q][j][2] = "atrace.rc" => q = r
  <2>1. ASSUME NEW j \in DOMAIN todo'[p], todo'[p][j][2] = "atrace.rc" PROVE p = r
    <3>1. j + 1 \in DOMAIN todo[p] /\ todo'[p][j] = todo[p][j + 1]  BY <2>1, <1>4, <1>5
    <3>2. todo[p][j + 1][2] = "atrace.rc"  BY <3>1, <2>1
    <3> QED BY <3>1, <3>2 DEF RcInv
  <2>2. \A q \in Procs \ {p} : \A j \in DOMAIN todo'[q] : todo'[q][j][2] = "atrace.rc" => q = r  BY <1>5 DEF RcInv
  <2> QED BY <2>1, <2>2
<1>9. \A q \in Procs : In(q)' /\ call'[q].what = "atrace.rc" => q = r  BY <1>2, <1>6 DEF RcInv, In
<1>10. \A q \in Procs : call'[q].pc = "before" => path'[q] = call'[q].what  BY <1>2, <1>5 DEF RcInv
<1>11. \A q \in Procs : call'[q].pc = "run copy" => call'[q].what = "atrace.rc"  BY <1>2, <1>7 DEF RcInv
<1>12. ASSUME call'[r].what = "atrace.rc", call'[r].pc = "run copy" \/ (call'[r].pc = "run" /\ path'[r] = "user_init.rc")
       PROVE rc' = <<"old", "added">>
  <2>1. r # p  BY <1>2, <1>5, <1>7, <1>12
  <2> QED BY <2>1, <1>1, <1>2, <1>5, <1>12 DEF RcInv
<1>13. RcIsWhole'  BY <1>1 DEF RcInv, RcIsWhole
<1> QED BY <1>8, <1>9, <1>10, <1>11, <1>12, <1>13 DEF RcInv

\* A step inside a call that leaves the reader's file name and file alone.
LEMMA RcGoesOn ==
    ASSUME LeaveInv, NEW r \in Procs, RcInv(r), NEW p \in Procs, call[p].pc # "out",
           \A q \in Procs \ {p} : call'[q] = call[q] /\ path'[q] = path[q], UNCHANGED todo,
           call'[p].what \in {call[p].what, "none"}, call'[p].pc \notin {"before", "run copy"},
           call'[p].pc = "run" => call[p].pc = "before" /\ path'[p] = path[p], p # r => UNCHANGED rc,
           RcIsWhole'
    PROVE RcInv(r)'
<1>1. \A q \in Procs : In(q)' /\ call'[q].what = "atrace.rc" => q = r  BY DEF RcInv, In
<1>2. ASSUME call'[r].what = "atrace.rc", call'[r].pc = "run copy" \/ (call'[r].pc = "run" /\ path'[r] = "user_init.rc")
      PROVE rc' = <<"old", "added">>
  <2>1. r # p
    <3>1. r = p => path[r] = call[r].what /\ call[r].what = "atrace.rc"  BY <1>2 DEF RcInv
    <3> QED BY <3>1, <1>2
  <2> QED BY <2>1, <1>2 DEF RcInv
<1>3. \A q \in Procs : call'[q].pc = "before" => path'[q] = call'[q].what  BY DEF RcInv
<1>4. \A q \in Procs : call'[q].pc = "run copy" => call'[q].what = "atrace.rc"  BY DEF RcInv
<1> QED BY <1>1, <1>2, <1>3, <1>4 DEF RcInv

\* before_openat changes a file name once the copy is whole.
LEMMA RcCopies == ASSUME LeaveInv, NEW r \in Procs, RcInv(r), NEW p \in Procs, before_openat(p) PROVE RcInv(r)'
<1>1. call[p].pc = "before" /\ UNCHANGED <<todo, read>>  BY DEF before_openat
<1>2. RcIsWhole'  BY <1>1 DEF RcInv, RcIsWhole
<1>3. CASE call[p].what # "atrace.rc" \/ call[p].old
  <2>1. /\ call' = [call EXCEPT ![p].pc = "run", ![p].unhook = FALSE, ![p].copied = FALSE] /\ UNCHANGED <<rc, path>>
    BY <1>3 DEF before_openat, Go
  <2>2. call'[p].pc = "run" /\ call'[p].what = call[p].what /\ \A q \in Procs \ {p} : call'[q] = call[q]
    BY <2>1 DEF LeaveInv, UiShapes, CallRecord
  <2> QED BY <1>1, <1>2, <2>1, <2>2, RcGoesOn
<1>4. CASE ~(call[p].what # "atrace.rc" \/ call[p].old)
  <2>1. PICK at \in {"create", "read", "write", "add", "done"}, name \in BOOLEAN :
          /\ rc' = IF at = "create" THEN rc ELSE Written(at)
          /\ path' = IF Redirects(at) /\ name THEN [path EXCEPT ![p] = "user_init.rc"] ELSE path
          /\ call' = [call EXCEPT ![p].pc = IF Redirects(at) /\ ~name /\ ~wrapper THEN "run copy" ELSE "run",
                                  ![p].unhook = TRUE, ![p].copied = Redirects(at) /\ name]
    BY <1>4 DEF before_openat
  <2> DEFINE goes == IF Redirects(at) /\ ~name /\ ~wrapper THEN "run copy" ELSE "run"
  <2>2. p = r /\ path[p] = "atrace.rc"
    BY <1>1, <1>4 DEF RcInv, In
  <2>3. call'[p].pc = goes /\ call'[p].what = "atrace.rc" /\ \A q \in Procs \ {p} : call'[q] = call[q]
    BY <1>4, <2>1 DEF LeaveInv, UiShapes, CallRecord
  <2>4. \A q \in Procs \ {p} : path'[q] = path[q]  BY <2>1 DEF LeaveInv, UiShapes
  <2>5. goes = "run copy" \/ path'[p] = "user_init.rc" => rc' = <<"old", "added">>
    BY <2>1, <2>2 DEF Redirects, Written, LeaveInv, UiShapes
  <2>6. goes \in {"run", "run copy"}  OBVIOUS
  <2> HIDE DEF goes
  <2>7. \A q \in Procs : In(q)' /\ call'[q].what = "atrace.rc" => q = r  BY <2>2, <2>3 DEF RcInv, In
  <2>8. \A q \in Procs : call'[q].pc = "before" => path'[q] = call'[q].what  BY <2>3, <2>4, <2>6 DEF RcInv
  <2>9. \A q \in Procs : call'[q].pc = "run copy" => call'[q].what = "atrace.rc"  BY <2>3 DEF RcInv
  <2> QED BY <1>1, <1>2, <2>2, <2>3, <2>5, <2>7, <2>8, <2>9 DEF RcInv
<1> QED BY <1>3, <1>4

\* The call reads what the file name now says.
LEMMA RcReads == ASSUME LeaveInv, NEW r \in Procs, RcInv(r), NEW p \in Procs, Run(p) PROVE RcInv(r)'
<1>1. /\ call[p].pc \in {"run", "run copy"} /\ call' = [call EXCEPT ![p].pc = "after"] /\ UNCHANGED <<todo, rc, path>>
      /\ read' = IF call[p].what # "atrace.rc" THEN read
                 ELSE [read EXCEPT ![p] = IF call[p].pc = "run copy" \/ path[p] = "user_init.rc" THEN rc ELSE <<"old">>]
  BY DEF Run
<1>2. call'[p].pc = "after" /\ call'[p].what = call[p].what /\ \A q \in Procs \ {p} : call'[q] = call[q]
  BY <1>1 DEF LeaveInv, UiShapes, CallRecord
<1>3. RcIsWhole'
  <2>1. call[p].what = "atrace.rc" => p = r  BY <1>1 DEF RcInv, In
  <2>2. call[p].what = "atrace.rc" /\ (call[p].pc = "run copy" \/ path[p] = "user_init.rc") => rc = <<"old", "added">>
    BY <1>1, <2>1 DEF RcInv
  <2>3. call[p].what = "atrace.rc" => read'[p] \in {<<"old">>, <<"old", "added">>}
    BY <1>1, <2>2 DEF LeaveInv, UiShapes
  <2>4. \A q \in Procs : q # p \/ call[p].what # "atrace.rc" => read'[q] = read[q]
    BY <1>1 DEF LeaveInv, UiShapes
  <2> QED BY <2>3, <2>4 DEF RcInv, RcIsWhole
<1> QED BY <1>1, <1>2, <1>3, RcGoesOn

\* Every step keeps what holds of the rc file.
LEMMA RcStep == ASSUME LeaveInv, NEW r \in Procs, RcInv(r), [UserInitNext]_uvars PROVE RcInv(r)'
<1>1. CASE UNCHANGED uvars
  BY <1>1 DEF uvars, flags, RcInv, In, RcIsWhole
<1>2. ASSUME NEW p \in Procs, handle_before_execve(p) PROVE RcInv(r)'
  <2>1. /\ call[p].pc = "before" /\ UNCHANGED <<todo, rc, path, read>>
        /\ call'[p].pc = "run" /\ call'[p].what = call[p].what /\ \A q \in Procs \ {p} : call'[q] = call[q]
    BY <1>2 DEF handle_before_execve, Go, LeaveInv, UiShapes, CallRecord
  <2>2. RcIsWhole'  BY <2>1 DEF RcInv, RcIsWhole
  <2> QED BY <2>1, <2>2, RcGoesOn
<1>3. ASSUME NEW p \in Procs, handle_after_execve(p) \/ after_openat(p) PROVE RcInv(r)'
  <2>1. call[p].pc = "after" /\ UNCHANGED <<todo, rc, read>> /\ call' = [call EXCEPT ![p] = NoCall]
        /\ path' \in {path, [path EXCEPT ![p] = "atrace.rc"]}
    BY <1>3 DEF handle_after_execve, after_openat
  <2>2. call'[p] = NoCall /\ \A q \in Procs \ {p} : call'[q] = call[q] /\ path'[q] = path[q]
    BY <2>1 DEF LeaveInv, UiShapes
  <2>3. call'[p].pc = "out" /\ call'[p].what = "none"  BY <2>2 DEF NoCall
  <2>4. RcIsWhole'  BY <2>1 DEF RcInv, RcIsWhole
  <2> QED BY <2>1, <2>2, <2>3, <2>4, RcGoesOn
<1>4. CASE UserInitNext
  <2>1. PICK p \in Procs : Step(p)  BY <1>4 DEF UserInitNext
  <2> QED BY <2>1, <1>2, <1>3, RcEnters, RcCopies, RcReads DEF Step
<1> QED BY <1>1, <1>4

---------------------------------------------------------------------------
\* The callbacks of the boot take themselves off, whatever the processes
\* execute and open and wherever the copying of the rc file stops
\* (userd.c:207-215, 315; execv.c:55-59).
THEOREM HooksLeave == UserInitSpec => []HooksGoAway
<1>1. UserInitSpec => []LeaveInv
  BY UiStart, LeaveStep, PTL DEF UserInitSpec
<1> QED BY <1>1, LeaveGoes, PTL

\* Where one process opens the rc file, as init does, the boot hooks also let
\* it read the file whole (userd.c:262-300).
THEOREM BootHooks == OneReader => (UserInitSpec => []BootHooksDoTheirWork)
<1> SUFFICES ASSUME NEW r \in Procs, Reader(r) PROVE UserInitSpec => []BootHooksDoTheirWork
  BY DEF OneReader
<1>1. UserInitInit => LeaveInv /\ RcInv(r)  BY UiStart, RcStart
<1>2. LeaveInv /\ RcInv(r) /\ [UserInitNext]_uvars => (LeaveInv /\ RcInv(r))'  BY LeaveStep, RcStep
<1>3. LeaveInv /\ RcInv(r) => BootHooksDoTheirWork
  BY LeaveGoes DEF BootHooksDoTheirWork, RcInv
<1> QED BY <1>1, <1>2, <1>3, PTL DEF UserInitSpec
-----------------------------------------------------------------------------
(* Supercmd: commands on the line, of any words and any number of them     *)

\* A set of numbers has a least one: initial segments are finite, and being a
\* part of is well-founded among finite sets.
LEMMA Least ==
    ASSUME NEW T \in SUBSET Nat, T # {}
    PROVE  \E n \in T : \A m \in T : n <= m
<1> DEFINE F == {0 .. n : n \in T}
<1>1. F \subseteq FiniteSubsetsOf(Nat)
  <2> SUFFICES ASSUME NEW n \in T PROVE 0 .. n \in FiniteSubsetsOf(Nat)
    OBVIOUS
  <2>1. IsFiniteSet(0 .. n)
    BY FS_Interval
  <2> QED BY <2>1 DEF FiniteSubsetsOf
<1>2. F # {}
  OBVIOUS
<1>3. \E x \in F : \A y \in F : ~(<<y, x>> \in StrictSubsetOrdering(Nat))
  <2> HIDE DEF F
  <2> QED BY <1>1, <1>2, WFMin, FS_StrictSubsetOrderingWellFounded
<1>4. PICK n \in T : \A m \in T : ~(<<0 .. m, 0 .. n>> \in StrictSubsetOrdering(Nat))
  BY <1>3
<1>5. ASSUME NEW m \in T, m < n PROVE FALSE
  <2>1. n \in 0 .. n /\ n \notin 0 .. m
    BY <1>5
  <2>2. 0 .. m \in SUBSET Nat /\ 0 .. n \in SUBSET Nat /\ 0 .. m \subseteq 0 .. n /\ 0 .. m # 0 .. n
    BY <2>1, <1>5
  <2>3. <<0 .. m, 0 .. n>> \in StrictSubsetOrdering(Nat)
    BY <2>2 DEF StrictSubsetOrdering
  <2> QED BY <2>3, <1>4
<1> QED BY <1>5

\* Hence what holds at 0 and goes on from each number to the next holds of all.
LEMMA Induct ==
    ASSUME NEW T \in SUBSET Nat, 0 \in T, \A n \in T : n + 1 \in T
    PROVE  T = Nat
<1> SUFFICES ASSUME Nat \ T # {} PROVE FALSE
  OBVIOUS
<1>1. PICK n \in Nat \ T : \A m \in Nat \ T : n <= m
  BY Least
<1>2. n # 0 /\ n - 1 \in Nat /\ n - 1 \notin Nat \ T
  BY <1>1
<1> QED BY <1>2

\* How far the options reach: only options and their values have been passed,
\* and an option that lacks its value is an error.
PassedOver(parr, s) ==
    /\ s.pi \in 2 .. ArgsNo + 1 /\ s.err \in BOOLEAN
    /\ \A j \in 2 .. s.pi - 1 :
          \/ IsOption(parr[j])
          \/ j > 2 /\ parr[j - 1] \in {"-u", "-Z"}

\* One turn of the option loop goes past an option, or past one and its value.
LEMMA OptionPasses ==
    ASSUME NEW parr, NEW s, DOMAIN s = {"pi", "p", "err"}, s = [f \in {"pi", "p", "err"} |-> s[f]],
           PassedOver(parr, s)
    PROVE  /\ DOMAIN Option(parr, s) = {"pi", "p", "err"}
           /\ Option(parr, s) = [f \in {"pi", "p", "err"} |-> Option(parr, s)[f]]
           /\ PassedOver(parr, Option(parr, s))
<1> DEFINE w == Word(parr, s.pi)
           v == Word(parr, s.pi + 1)
           o == Option(parr, s)
<1>1. ArgsNo \in Nat /\ ArgsNo > 2 /\ s.pi \in 2 .. ArgsNo + 1 /\ s.err \in BOOLEAN
  BY CommandAssumption DEF PassedOver
\* One word more, or two.
<1>2. ASSUME NEW q, q.pi = s.pi + 1, q.err \in BOOLEAN, s.pi < ArgsNo, IsOption(parr[s.pi])
      PROVE  PassedOver(parr, q)
  <2>1. q.pi \in 2 .. ArgsNo + 1
    BY <1>1, <1>2
  <2>2. ASSUME NEW j \in 2 .. q.pi - 1 PROVE IsOption(parr[j]) \/ (j > 2 /\ parr[j - 1] \in {"-u", "-Z"})
    <3>1. CASE j = s.pi
      BY <1>2, <3>1
    <3>2. CASE j # s.pi
      <4>1. j \in 2 .. s.pi - 1
        BY <1>1, <1>2, <3>2
      <4> QED BY <4>1 DEF PassedOver
    <3> QED BY <3>1, <3>2
  <2> QED BY <1>2, <2>1, <2>2 DEF PassedOver
<1>3. ASSUME NEW q, q.pi = s.pi + 2, q.err \in BOOLEAN, s.pi < ArgsNo, parr[s.pi] \in {"-u", "-Z"}
      PROVE  PassedOver(parr, q)
  <2>1. q.pi \in 2 .. ArgsNo + 1
    BY <1>1, <1>3
  <2>2. ASSUME NEW j \in 2 .. q.pi - 1 PROVE IsOption(parr[j]) \/ (j > 2 /\ parr[j - 1] \in {"-u", "-Z"})
    <3>1. CASE j = s.pi
      BY <1>3, <3>1 DEF IsOption
    <3>2. CASE j = s.pi + 1
      <4>1. j > 2 /\ j - 1 = s.pi
        BY <1>1, <3>2
      <4> QED BY <1>3, <4>1
    <3>3. CASE j \in 2 .. s.pi - 1
      BY <3>3 DEF PassedOver
    <3> QED BY <1>1, <1>3, <3>1, <3>2, <3>3
  <2> QED BY <1>3, <2>1, <2>2 DEF PassedOver
<1>4. CASE s.err \/ s.pi >= ArgsNo \/ ~IsOption(w)
  <2>1. o = s
    BY <1>1, <1>4 DEF Option
  <2> QED BY <2>1
<1>5. CASE ~(s.err \/ s.pi >= ArgsNo \/ ~IsOption(w))
  <2>1. w = parr[s.pi] /\ IsOption(parr[s.pi]) /\ s.pi < ArgsNo
    BY <1>1, <1>5 DEF Word, Array
  <2>2. CASE w \in {"-u", "-Z"} /\ v = ""
    <3>1. o = [s EXCEPT !.pi = @ + 1, !.err = TRUE]
      BY <1>1, <1>5, <2>2 DEF Option
    <3>2. o.pi = s.pi + 1 /\ o.err = TRUE
      BY <3>1
    <3>3. PassedOver(parr, o)
      BY <1>1, <2>1, <3>2, <1>2
    <3> QED BY <3>1, <3>3
  <2>3. CASE w \in {"-u", "-Z"} /\ v # ""
    <3>1. \/ o = [s EXCEPT !.pi = @ + 2, !.p.to_uid = kstrtoull(v, @)]
          \/ o = [s EXCEPT !.pi = @ + 2, !.p.ctx = v]
      BY <1>1, <1>5, <2>3 DEF Option
    <3>2. o.pi = s.pi + 2 /\ o.err = s.err
      BY <3>1
    <3>3. PassedOver(parr, o)
      BY <1>1, <2>1, <2>3, <3>2, <1>3
    <3> QED BY <3>1, <3>3
  <2>4. CASE w \notin {"-u", "-Z"}
    <3>1. o = [s EXCEPT !.pi = @ + 1]
      BY <1>1, <1>5, <2>4 DEF Option
    <3>2. o.pi = s.pi + 1 /\ o.err = s.err
      BY <3>1
    <3>3. PassedOver(parr, o)
      BY <1>1, <2>1, <3>2, <1>2
    <3> QED BY <3>1, <3>3
  <2> QED BY <2>2, <2>3, <2>4
<1> QED BY <1>4, <1>5

Shape(s) == DOMAIN s = {"pi", "p", "err"} /\ s = [f \in {"pi", "p", "err"} |-> s[f]]

\* after is a recursive function: there is one that satisfies its equation.
Takes(f, parr, start, n) ==
    f = [i \in 0 .. n |-> IF i = 0 THEN start
                          ELSE Option(parr, f[i - 1])]

\* By induction on how many turns the loop takes.
LEMMA SomeTakes ==
    ASSUME NEW parr, NEW start, NEW n \in Nat
    PROVE  \E f : Takes(f, parr, start, n)
<1> DEFINE T == {k \in Nat : \E f : Takes(f, parr, start, k)}
<1>1. 0 \in T
  <2>1. Takes([i \in 0 .. 0 |-> start], parr, start, 0)
    BY DEF Takes
  <2> QED BY <2>1
<1>2. ASSUME NEW k \in T PROVE k + 1 \in T
  <2>1. PICK f : Takes(f, parr, start, k)
    OBVIOUS
  <2> DEFINE g == [i \in 0 .. k + 1 |-> IF i = k + 1 THEN Option(parr, f[k]) ELSE f[i]]
  <2>2. Takes(g, parr, start, k + 1)
    <3> SUFFICES ASSUME NEW i \in 0 .. k + 1
                 PROVE  g[i] = IF i = 0 THEN start
                               ELSE Option(parr, g[i - 1])
      BY DEF Takes
    <3>1. \A j \in 0 .. k : g[j] = f[j]
      OBVIOUS
    <3>2. \A j \in 0 .. k : f[j] = IF j = 0 THEN start
                                   ELSE Option(parr, f[j - 1])
      BY <2>1 DEF Takes
    <3>3. CASE i = 0
      BY <3>1, <3>2, <3>3
    <3>4. CASE i \in 1 .. k
      <4>1. i \in 0 .. k /\ i - 1 \in 0 .. k /\ i # 0
        BY <3>4
      <4>2. g[i] = f[i] /\ g[i - 1] = f[i - 1]
        BY <3>1, <4>1
      <4> QED BY <3>2, <4>1, <4>2
    <3>5. CASE i = k + 1
      BY <3>1, <3>5
    <3> QED BY <3>3, <3>4, <3>5
  <2> QED BY <2>2
<1>3. T = Nat
  <2> HIDE DEF T
  <2>1. T \in SUBSET Nat
    BY DEF T
  <2> QED BY <1>1, <1>2, <2>1, Induct
<1> QED BY <1>3

\* Before the word where the options end there are only options and values.
LEMMA OptionsPass ==
    ASSUME NEW parr, NEW profile
    PROVE  PassedOver(parr, Options(parr, profile))
<1> DEFINE start == [pi |-> 2, p |-> profile, err |-> FALSE]
           after == CHOOSE f : Takes(f, parr, start, ArgsNo)
<1>1. ArgsNo \in Nat /\ ArgsNo > 2
  BY CommandAssumption
<1>2. Options(parr, profile) = after[ArgsNo]
  BY Zenon DEF Options, Takes
<1>3. Takes(after, parr, start, ArgsNo)
  <2> HIDE DEF start
  <2> QED BY <1>1, SomeTakes
<1> HIDE DEF start, after
<1>4. /\ after[0] = start
      /\ \A i \in 1 .. ArgsNo : after[i] = Option(parr, after[i - 1])
  <2>1. \A i \in 0 .. ArgsNo : after[i] = IF i = 0 THEN start
                                           ELSE Option(parr, after[i - 1])
    BY <1>3 DEF Takes
  <2> QED BY <1>1, <2>1
<1> DEFINE T == {i \in Nat : i <= ArgsNo => Shape(after[i]) /\ PassedOver(parr, after[i])}
<1>5. 0 \in T
  <2>1. Shape(after[0])
    BY <1>4 DEF Shape, start
  <2>2. PassedOver(parr, after[0])
    BY <1>1, <1>4 DEF PassedOver, start
  <2> QED BY <2>1, <2>2
<1>6. ASSUME NEW i \in T PROVE i + 1 \in T
  <2>1. CASE i + 1 <= ArgsNo
    <3>1. i + 1 \in 1 .. ArgsNo /\ (i + 1) - 1 = i
      BY <1>1, <2>1
    <3>2. after[i + 1] = Option(parr, after[i])
      BY <1>4, <3>1
    <3>3. Shape(after[i]) /\ PassedOver(parr, after[i])
      BY <1>1, <2>1
    <3>4. Shape(after[i + 1]) /\ PassedOver(parr, after[i + 1])
      BY <3>2, <3>3, OptionPasses DEF Shape
    <3> QED BY <3>4
  <2> QED BY <2>1
<1>7. T = Nat
  <2> HIDE DEF T
  <2>1. T \in SUBSET Nat
    BY DEF T
  <2> QED BY <1>5, <1>6, <2>1, Induct
<1> QED BY <1>1, <1>2, <1>7

\* The words of the command, from where the options end.
CommandWords(parr, pi) == [i \in 0 .. 4 |-> Word(parr, pi + i)]

\* How a command ends, by its way out.
LEMMA CommandEnds ==
    ASSUME NEW t \in Tasks, NEW argv \in Commands, handle_supercmd(t, argv)
    PROVE  LET parr == CopyArgs(argv)
               made == {i \in Array : parr[i] # ""} IN
           \/ /\ answer' = [file |-> "sh", argv |-> <<"sh">>, effect |-> <<>>]
              /\ strings' = [given |-> argv, made |-> {}, freed |-> {}, taken |-> {}, top |-> 2]
           \/ \E profile, key : LET o == Options(parr, profile)
                                    carr == CommandWords(parr, o.pi) IN
              \/ /\ answer' = supercmd_echo(<<>>)
                 /\ strings' = [given |-> argv, made |-> made, freed |-> made, taken |-> {}, top |-> o.pi]
              \/ /\ o.err # TRUE /\ Room(o.pi)
                 /\ answer' = Answer(argv, carr, o.pi, key)
                 /\ strings' = [given |-> argv, made |-> made, freed |-> made \ Kept(carr, o.pi),
                                taken |-> Taken(carr, o.pi), top |-> o.pi + Reads(carr[0]) - 1]
<1> DEFINE parr == CopyArgs(argv)
           made == {i \in Array : parr[i] # ""}
           key == user_arg(argv, 1) = Key
           start == IF key THEN [to_uid |-> 0, ctx |-> ""]
                    ELSE CHOOSE p \in {[to_uid |-> q.to_uid, ctx |-> q.ctx] : q \in get_kstorage(Cred(t).uid)} : TRUE
           o == Options(parr, start)
           carr == CommandWords(parr, o.pi)
<1>1. CASE parr[2] = ""
  BY <1>1 DEF handle_supercmd
<1>2. CASE parr[2] # "" /\ o.err
  <2>1. /\ answer' = supercmd_echo(<<>>)
        /\ strings' = [given |-> argv, made |-> made, freed |-> made, taken |-> {}, top |-> o.pi]
    BY <1>2 DEF handle_supercmd
  <2> HIDE DEF start
  <2> QED BY <2>1
<1>3. CASE parr[2] # "" /\ ~o.err /\ ~Room(o.pi)
  <2>1. /\ answer' = supercmd_echo(<<>>)
        /\ strings' = [given |-> argv, made |-> made, freed |-> made, taken |-> {}, top |-> o.pi]
    BY <1>3 DEF handle_supercmd
  <2> HIDE DEF start
  <2> QED BY <2>1
<1>4. CASE parr[2] # "" /\ ~o.err /\ Room(o.pi)
  <2>1. /\ answer' = Answer(argv, carr, o.pi, key)
        /\ strings' = [given |-> argv, made |-> made, freed |-> made \ Kept(carr, o.pi),
                       taken |-> Taken(carr, o.pi), top |-> o.pi + Reads(carr[0]) - 1]
    BY <1>4 DEF handle_supercmd, CommandWords
  <2> HIDE DEF start, key
  <2> QED BY <1>4, <2>1
<1> QED BY <1>1, <1>2, <1>3, <1>4

\* What the words copied are: each is the caller's, and none follows a -c.
LEMMA Copied ==
    ASSUME NEW argv \in Commands
    PROVE  LET parr == CopyArgs(argv) IN
           /\ \A i \in Array : parr[i] # "" =>
                 /\ i \in 2 .. ArgsNo - 1 /\ i + 1 \in 3 .. Len(argv) /\ parr[i] = argv[i + 1]
                 /\ \A j \in 2 .. i - 1 : parr[j] = argv[j + 1] /\ parr[j] \notin {"", "-c"}
           /\ \A i \in 2 .. ArgsNo - 1 : parr[i] = "" =>
                 \/ i >= Len(argv)
                 \/ \E j \in 2 .. i - 1 : parr[j] = "-c" /\ j + 1 \in 3 .. Len(argv) /\ argv[j + 1] = "-c"
                                          /\ \A k \in 2 .. j - 1 : parr[k] = argv[k + 1]
<1>1. PICK End, C : End = "" /\ C = "-c"
  OBVIOUS
<1> DEFINE parr == CopyArgs(argv)
           ends == {i \in 2 .. ArgsNo - 1 : user_arg(argv, i) \in {End, C}}
           S == STRING
<1>2. ArgsNo \in Nat /\ ArgsNo > 2
  BY CommandAssumption
<1>3. \A i \in 1 .. Len(argv) : argv[i] # End
  BY Zenon, <1>1, CommandAssumption
<1>4. argv \in Seq(S)
  BY Zenon, <1>1, CommandAssumption
<1>5. \A i : user_arg(argv, i) = IF i < Len(argv) THEN argv[i + 1] ELSE End
  BY Zenon, <1>1 DEF user_arg
<1>6. \A i \in Array : parr[i] = IF i \in 2 .. ArgsNo - 1 /\ (\A j \in ends : i <= j)
                                 THEN user_arg(argv, i) ELSE End
  BY Zenon, <1>1 DEF CopyArgs
<1>7. End # C
  BY Zenon, <1>1
<1>8. /\ ends \in SUBSET (2 .. ArgsNo - 1)
      /\ \A j \in 2 .. ArgsNo - 1 : j \in ends <=> user_arg(argv, j) \in {End, C}
  BY Zenon, <1>1
<1>9. SUFFICES
           /\ \A i \in Array : parr[i] # End =>
                 /\ i \in 2 .. ArgsNo - 1 /\ i + 1 \in 3 .. Len(argv) /\ parr[i] = argv[i + 1]
                 /\ \A j \in 2 .. i - 1 : parr[j] = argv[j + 1] /\ parr[j] \notin {End, C}
           /\ \A i \in 2 .. ArgsNo - 1 : parr[i] = End =>
                 \/ i >= Len(argv)
                 \/ \E j \in 2 .. i - 1 : parr[j] = C /\ j + 1 \in 3 .. Len(argv) /\ argv[j + 1] = C
                                          /\ \A k \in 2 .. j - 1 : parr[k] = argv[k + 1]
  BY Zenon, <1>1
<1> HIDE DEF parr, ends, S
<1>10. ArgsNo \in Nat /\ ArgsNo > 2 /\ Len(argv) \in Nat
  BY <1>2, <1>4
<1>11. \A i \in Nat : /\ i < Len(argv) => user_arg(argv, i) = argv[i + 1] /\ user_arg(argv, i) # End
                      /\ i >= Len(argv) => user_arg(argv, i) = End
  BY <1>10, <1>5, <1>3
<1>12. 2 .. ArgsNo - 1 \subseteq Array /\ Array \subseteq Nat
  BY <1>10 DEF Array
<1>13. ASSUME NEW i \in Array, parr[i] # End
       PROVE  /\ i \in 2 .. ArgsNo - 1 /\ i + 1 \in 3 .. Len(argv) /\ parr[i] = argv[i + 1]
              /\ \A j \in 2 .. i - 1 : parr[j] = argv[j + 1] /\ parr[j] \notin {End, C}
  <2>1. /\ i \in 2 .. ArgsNo - 1 /\ (\A j \in ends : i <= j) /\ parr[i] = user_arg(argv, i)
    BY <1>6, <1>13
  <2>2. i < Len(argv) /\ i \in Nat
    BY <1>10, <1>11, <1>13, <2>1
  <2>3. i + 1 \in 3 .. Len(argv) /\ parr[i] = argv[i + 1]
    BY <1>10, <1>11, <2>1, <2>2
  <2>4. ASSUME NEW j \in 2 .. i - 1
        PROVE  parr[j] = argv[j + 1] /\ parr[j] \notin {End, C}
    <3>1. j \in 2 .. ArgsNo - 1 /\ j < i /\ j \notin ends /\ j < Len(argv) /\ j \in Nat
      BY <1>10, <2>1, <2>2, <2>4
    <3>2. \A k \in ends : j <= k
      BY <1>10, <1>8, <2>1, <3>1
    <3>3. parr[j] = user_arg(argv, j)
      BY <1>6, <1>12, <3>1, <3>2
    <3> QED BY <1>11, <1>8, <3>1, <3>3
  <2> QED BY <2>1, <2>3, <2>4
<1>14. ASSUME NEW i \in 2 .. ArgsNo - 1, parr[i] = End, i < Len(argv)
       PROVE  \E j \in 2 .. i - 1 : /\ parr[j] = C /\ j + 1 \in 3 .. Len(argv) /\ argv[j + 1] = C
                                    /\ \A k \in 2 .. j - 1 : parr[k] = argv[k + 1]
  <2>1. \E j \in ends : j < i
    <3>1. i \in Array /\ user_arg(argv, i) # End
      BY <1>10, <1>11, <1>12, <1>14
    <3> QED BY <1>10, <1>6, <1>8, <1>14, <3>1
  <2>2. ends \in SUBSET Nat /\ ends # {}
    BY <1>10, <1>8, <2>1
  <2>3. PICK j \in ends : \A k \in ends : j <= k
    BY <2>2, Least
  <2>4. j \in 2 .. i - 1 /\ j \in 2 .. ArgsNo - 1 /\ j < Len(argv) /\ j \in Array /\ j \in Nat
    BY <1>10, <1>12, <1>8, <1>14, <2>1, <2>2, <2>3
  <2>5. parr[j] = user_arg(argv, j) /\ user_arg(argv, j) = argv[j + 1] /\ user_arg(argv, j) = C
    BY <1>11, <1>6, <1>8, <2>3, <2>4
  <2>6. j + 1 \in 3 .. Len(argv)
    BY <1>10, <2>4
  <2>7. ASSUME NEW k \in 2 .. j - 1 PROVE parr[k] = argv[k + 1]
    <3>1. k \in 2 .. ArgsNo - 1 /\ k < j /\ k < Len(argv) /\ k \in Nat /\ k \in Array
      BY <1>10, <1>12, <2>4, <2>7
    <3>2. \A l \in ends : k <= l
      BY <1>10, <1>8, <2>3, <2>4, <3>1
    <3> QED BY <1>11, <1>6, <3>1, <3>2
  <2> QED BY <2>4, <2>5, <2>6, <2>7
<1> QED BY <1>10, <1>13, <1>14

\* What is executed, field by field.
LEMMA Executes ==
    ASSUME NEW file, NEW argv, NEW shift
    PROVE  /\ supercmd_exec(file, argv, shift).file = file
           /\ supercmd_exec(file, argv, shift).argv = SubSeq(argv, shift + 1, Len(argv))
<1> DEFINE words == SubSeq(argv, shift + 1, Len(argv))
<1>1. supercmd_exec(file, argv, shift) = [file |-> file, argv |-> words, effect |-> <<>>]
  BY DEF supercmd_exec
<1> HIDE DEF words
<1>2. /\ supercmd_exec(file, argv, shift).file = file
      /\ supercmd_exec(file, argv, shift).argv = words
  BY <1>1
<1> QED BY <1>2 DEF words

\* What is answered to the words carr that start at pi.
LEMMA Answers ==
    ASSUME NEW argv, NEW carr, NEW pi, NEW key, NEW a, a = Answer(argv, carr, pi, key)
    PROVE  \/ carr[0] = "" /\ a = supercmd_exec("sh", argv, pi)
           \/ carr[0] = "-c" /\ a = supercmd_exec("sh", argv, pi - 1)
           \/ carr[0] = "exec" /\ carr[1] # "" /\ a = supercmd_exec(carr[1], argv, pi + 1)
           \/ a.file = "echo"
<1>1. CASE carr[0] = ""
  <2>1. a = supercmd_exec("sh", argv, pi)
    BY <1>1 DEF Answer
  <2> QED BY Zenon, <1>1, <2>1
<1>2. CASE carr[0] = "-c"
  <2>1. a = supercmd_exec("sh", argv, pi - 1)
    BY <1>2 DEF Answer
  <2> QED BY Zenon, <1>2, <2>1
<1>3. CASE carr[0] = "exec" /\ carr[1] # ""
  <2>1. a = supercmd_exec(carr[1], argv, pi + 1)
    BY <1>3 DEF Answer, ExecShift
  <2> QED BY Zenon, <1>3, <2>1
<1>4. CASE carr[0] = "event" /\ carr[1] # ""
  <2>1. a = supercmd_echo(<<"report_user_event", carr[1], carr[2]>>)
    BY <1>4 DEF Answer
  <2>2. a.file = "echo"
    BY <2>1 DEF supercmd_echo
  <2> QED BY Zenon, <2>2
<1>5. CASE carr[0] \in {"key", "module"} /\ key
  <2>1. a = supercmd_echo(handle_cmd_key_auth(carr))
    BY <1>5 DEF Answer
  <2>2. a.file = "echo"
    BY <2>1 DEF supercmd_echo
  <2> QED BY Zenon, <2>2
<1>6. CASE /\ carr[0] # "" /\ carr[0] # "-c" /\ ~(carr[0] = "exec" /\ carr[1] # "")
           /\ ~(carr[0] = "event" /\ carr[1] # "") /\ ~(carr[0] \in {"key", "module"} /\ key)
  <2>1. a = supercmd_echo(<<>>)
    BY <1>6 DEF Answer
  <2>2. a.file = "echo"
    BY <2>1 DEF supercmd_echo
  <2> QED BY Zenon, <2>2
<1> QED BY Zenon, <1>1, <1>2, <1>3, <1>4, <1>5, <1>6

\* A program that is run gets its arguments.
LEMMA ArgumentsGiven ==
    ASSUME NEW argv \in Commands, Sensible(argv), NEW profile, NEW key,
           LET pi == Options(CopyArgs(argv), profile).pi IN
           /\ Room(pi)
           /\ answer' = Answer(argv, CommandWords(CopyArgs(argv), pi), pi, key)
           /\ strings'.given = argv
    PROVE  ProgramGetsItsArguments'
<1>1. PICK End, C : End = "" /\ C = "-c"
  OBVIOUS
<1> DEFINE parr == CopyArgs(argv)
           pi == Options(parr, profile).pi
           carr == CommandWords(parr, pi)
           S == STRING
<1>2. argv \in Seq(S)
  BY Zenon, CommandAssumption
<1>3. ArgsNo \in Nat /\ ArgsNo > 2
  BY CommandAssumption
<1>4. pi < ArgsNo - 1 /\ answer' = Answer(argv, carr, pi, key) /\ strings'.given = argv
  BY DEF Room
<1>5. /\ pi \in 2 .. ArgsNo + 1
      /\ \A j \in 2 .. pi - 1 : \/ IsOption(parr[j])
                                \/ j > 2 /\ parr[j - 1] \in {"-u", "-Z"}
  BY OptionsPass DEF PassedOver
<1>6. /\ \A i \in Array : parr[i] # "" =>
            /\ i \in 2 .. ArgsNo - 1 /\ i + 1 \in 3 .. Len(argv) /\ parr[i] = argv[i + 1]
            /\ \A j \in 2 .. i - 1 : parr[j] = argv[j + 1] /\ parr[j] \notin {"", "-c"}
      /\ \A i \in 2 .. ArgsNo - 1 : parr[i] = "" =>
            \/ i >= Len(argv)
            \/ \E j \in 2 .. i - 1 : parr[j] = "-c" /\ j + 1 \in 3 .. Len(argv) /\ argv[j + 1] = "-c"
                                     /\ \A k \in 2 .. j - 1 : parr[k] = argv[k + 1]
  BY Copied
<1>7. /\ \A i \in Array : parr[i] # End =>
            /\ i \in 2 .. ArgsNo - 1 /\ i + 1 \in 3 .. Len(argv) /\ parr[i] = argv[i + 1]
            /\ \A j \in 2 .. i - 1 : parr[j] = argv[j + 1] /\ parr[j] \notin {End, C}
      /\ \A i \in 2 .. ArgsNo - 1 : parr[i] = End =>
            \/ i >= Len(argv)
            \/ \E j \in 2 .. i - 1 : parr[j] = C /\ j + 1 \in 3 .. Len(argv) /\ argv[j + 1] = C
                                     /\ \A k \in 2 .. j - 1 : parr[k] = argv[k + 1]
  BY Zenon, <1>1, <1>6
<1>8. carr[0] = Word(parr, pi + 0) /\ carr[1] = Word(parr, pi + 1)
  BY DEF CommandWords
<1>9. \/ carr[0] = "" /\ answer' = supercmd_exec("sh", argv, pi)
      \/ carr[0] = "-c" /\ answer' = supercmd_exec("sh", argv, pi - 1)
      \/ carr[0] = "exec" /\ carr[1] # "" /\ answer' = supercmd_exec(carr[1], argv, pi + 1)
      \/ answer'.file = "echo"
  <2> HIDE DEF carr, pi
  <2> QED BY <1>4, Answers
<1>10. \/ carr[0] = End /\ answer' = supercmd_exec("sh", argv, pi)
       \/ carr[0] = C /\ answer' = supercmd_exec("sh", argv, pi - 1)
       \/ carr[0] = "exec" /\ carr[1] # End /\ answer' = supercmd_exec(carr[1], argv, pi + 1)
       \/ answer'.file = "echo"
  BY Zenon, <1>1, <1>9
<1> HIDE DEF parr, pi, carr, S
<1>11. /\ ArgsNo \in Nat /\ Len(argv) \in Nat /\ pi \in Nat /\ pi \in 2 .. ArgsNo - 2
       /\ pi \in Array /\ pi + 1 \in Array /\ pi + 0 = pi
  BY <1>3, <1>2, <1>4, <1>5 DEF Array
<1>12. carr[0] = parr[pi] /\ carr[1] = parr[pi + 1]
  BY <1>11, <1>8 DEF Word
<1>13. CASE carr[0] = End /\ answer' = supercmd_exec("sh", argv, pi)
  <2>1. pi \in 2 .. ArgsNo - 1
    BY <1>11
  <2>2. ASSUME NEW j \in 2 .. pi - 1, parr[j] = C, j + 1 \in 3 .. Len(argv), argv[j + 1] = C,
               \A k \in 2 .. j - 1 : parr[k] = argv[k + 1]
        PROVE  FALSE
    <3>1. ~IsOption(parr[j])
      BY Zenon, <1>1, <2>2 DEF IsOption
    <3>2. j > 2 /\ parr[j - 1] \in {"-u", "-Z"}
      BY <1>5, <2>2, <3>1
    <3>3. j - 1 \in 2 .. j - 1 /\ (j - 1) + 1 = j /\ j + 1 \in 4 .. Len(argv) /\ (j + 1) - 1 = j
      BY <1>11, <2>2, <3>2
    <3>4. parr[j - 1] = argv[j]
      BY <2>2, <3>3
    <3>5. argv[(j + 1) - 1] \notin {"-u", "-Z"}
      BY Zenon, <1>1, <2>2, <3>3 DEF Sensible
    <3> QED BY Zenon, <3>2, <3>3, <3>4, <3>5
  <2>3. pi >= Len(argv)
    BY <1>7, <1>12, <1>13, <2>1, <2>2
  <2>4. Len(SubSeq(argv, pi + 1, Len(argv))) < 2
    BY <1>11, <1>2, <2>3
  <2>5. answer'.file = "sh" /\ answer'.argv = SubSeq(argv, pi + 1, Len(argv))
    BY <1>13, Executes
  <2> QED BY Zenon, <2>4, <2>5 DEF ProgramGetsItsArguments
<1>14. CASE carr[0] = C /\ answer' = supercmd_exec("sh", argv, pi - 1)
  <2>1. parr[pi] # End
    BY Zenon, <1>1, <1>12, <1>14
  <2>2. pi + 1 \in 3 .. Len(argv) /\ argv[pi + 1] = C
    BY <1>7, <1>11, <1>12, <1>14, <2>1
  <2>3. answer'.file = "sh" /\ answer'.argv = SubSeq(argv, (pi - 1) + 1, Len(argv))
    BY <1>14, Executes
  <2>4. (pi - 1) + 1 = (pi + 1) - 1
    BY <1>11
  <2>5. \E i \in 3 .. Len(argv) : /\ argv[i] = "-c" /\ answer'.file = "sh"
                                  /\ answer'.argv = SubSeq(argv, i - 1, Len(argv))
    BY Zenon, <1>1, <2>2, <2>3, <2>4
  <2> QED BY Zenon, <1>4, <2>5 DEF ProgramGetsItsArguments
<1>15. CASE carr[0] = "exec" /\ carr[1] # End /\ answer' = supercmd_exec(carr[1], argv, pi + 1)
  <2>1. parr[pi] # End
    BY Zenon, <1>1, <1>12, <1>15
  <2>2. pi + 1 \in 3 .. Len(argv) /\ argv[pi + 1] = "exec"
    BY <1>7, <1>11, <1>12, <1>15, <2>1
  <2>3. carr[1] = argv[(pi + 1) + 1]
    BY <1>7, <1>11, <1>12, <1>15
  <2>4. answer'.file = carr[1] /\ answer'.argv = SubSeq(argv, (pi + 1) + 1, Len(argv))
    BY <1>15, Executes
  <2>5. \E i \in 3 .. Len(argv) : /\ argv[i] = "exec" /\ answer'.file = argv[i + 1]
                                  /\ answer'.argv = SubSeq(argv, i + 1, Len(argv))
    BY Zenon, <2>2, <2>3, <2>4
  <2> QED BY Zenon, <1>4, <2>5 DEF ProgramGetsItsArguments
<1>16. CASE answer'.file = "echo"
  BY Zenon, <1>16 DEF ProgramGetsItsArguments
<1> QED BY Zenon, <1>10, <1>13, <1>14, <1>15, <1>16

\* No way out of a command reads past the array or frees a copy twice, or
\* keeps one without a reason.
LEMMA CommandDone ==
    ASSUME NEW t \in Tasks, NEW argv \in Commands, Sensible(argv), handle_supercmd(t, argv)
    PROVE  ProgramGetsItsArguments' /\ ArgsInBounds' /\ StringsFreedOnce'
<1> DEFINE parr == CopyArgs(argv)
           made == {i \in Array : parr[i] # ""}
<1>0. ArgsNo \in Nat /\ ArgsNo > 2
  BY CommandAssumption
<1>1. \/ /\ answer' = [file |-> "sh", argv |-> <<"sh">>, effect |-> <<>>]
         /\ strings' = [given |-> argv, made |-> {}, freed |-> {}, taken |-> {}, top |-> 2]
      \/ \E profile, key : LET o == Options(parr, profile)
                               carr == CommandWords(parr, o.pi) IN
         \/ /\ answer' = supercmd_echo(<<>>)
            /\ strings' = [given |-> argv, made |-> made, freed |-> made, taken |-> {}, top |-> o.pi]
         \/ /\ o.err # TRUE /\ Room(o.pi)
            /\ answer' = Answer(argv, carr, o.pi, key)
            /\ strings' = [given |-> argv, made |-> made, freed |-> made \ Kept(carr, o.pi),
                           taken |-> Taken(carr, o.pi), top |-> o.pi + Reads(carr[0]) - 1]
  BY CommandEnds
<1>2. CASE /\ answer' = [file |-> "sh", argv |-> <<"sh">>, effect |-> <<>>]
           /\ strings' = [given |-> argv, made |-> {}, freed |-> {}, taken |-> {}, top |-> 2]
  <2>1. answer'.file = "sh" /\ answer'.argv = <<"sh">>
    BY <1>2
  <2>2. Len(answer'.argv) < 2
    <3> DEFINE sh == "sh"
    <3> HIDE DEF sh
    <3>1. Len(<<sh>>) < 2
      OBVIOUS
    <3> QED BY Zenon, <2>1, <3>1 DEF sh
  <2>3. ProgramGetsItsArguments'
    BY Zenon, <2>1, <2>2 DEF ProgramGetsItsArguments
  <2>4. strings'.top = 2 /\ strings'.made = {} /\ strings'.freed = {} /\ strings'.taken = {}
    BY <1>2
  <2>5. ArgsInBounds'
    BY <1>0, <2>4 DEF ArgsInBounds, Array
  <2>6. StringsFreedOnce'
    BY <2>4 DEF StringsFreedOnce
  <2> QED BY <2>3, <2>5, <2>6
<1>3. ASSUME NEW profile, answer' = supercmd_echo(<<>>),
             strings' = [given |-> argv, made |-> made, freed |-> made, taken |-> {},
                         top |-> Options(parr, profile).pi]
      PROVE  ProgramGetsItsArguments' /\ ArgsInBounds' /\ StringsFreedOnce'
  <2>1. answer'.file = "echo"
    BY <1>3 DEF supercmd_echo
  <2>2. ProgramGetsItsArguments'
    BY Zenon, <2>1 DEF ProgramGetsItsArguments
  <2>3. Options(parr, profile).pi \in 2 .. ArgsNo + 1
    BY OptionsPass DEF PassedOver
  <2> HIDE DEF parr, made
  <2>4. /\ strings'.top = Options(parr, profile).pi
        /\ strings'.made = made /\ strings'.freed = made /\ strings'.taken = {}
    BY <1>3
  <2>5. ArgsInBounds'
    BY <1>0, <2>3, <2>4 DEF ArgsInBounds, Array
  <2>6. StringsFreedOnce'
    BY <2>4 DEF StringsFreedOnce
  <2> QED BY <2>2, <2>5, <2>6
<1>4. ASSUME NEW profile, NEW key, NEW pi, pi = Options(parr, profile).pi,
             NEW carr, carr = CommandWords(parr, pi),
             Room(pi), answer' = Answer(argv, carr, pi, key),
             strings' = [given |-> argv, made |-> made, freed |-> made \ Kept(carr, pi),
                         taken |-> Taken(carr, pi), top |-> pi + Reads(carr[0]) - 1]
      PROVE  ProgramGetsItsArguments' /\ ArgsInBounds' /\ StringsFreedOnce'
  <2>1. pi \in 2 .. ArgsNo + 1
    BY <1>4, OptionsPass DEF PassedOver
  <2>2. pi < ArgsNo - 1
    BY <1>4 DEF Room
  <2>3. Reads(carr[0]) \in 1 .. 5
    BY DEF Reads
  <2>4. carr[2] = Word(parr, pi + 2)
    <3> DEFINE words == [i \in 0 .. 4 |-> Word(parr, pi + i)]
    <3>1. carr = words
      BY Zenon, <1>4 DEF CommandWords
    <3>2. words[2] = Word(parr, pi + 2)
      <4> HIDE DEF parr
      <4> QED OBVIOUS
    <3> QED BY Zenon, <3>1, <3>2
  <2>5. pi + 2 \in Array
    BY <1>0, <2>1, <2>2 DEF Array
  <2>6. ASSUME SetsPath(carr) PROVE pi + 2 \in made
    <3>1. parr[pi + 2] # ""
      BY Zenon, <2>4, <2>5, <2>6 DEF SetsPath, Word
    <3> QED BY Zenon, <2>5, <3>1
  <2>7. Kept(carr, pi) = Taken(carr, pi) /\ Taken(carr, pi) \subseteq made
    BY <2>6 DEF Kept, Taken
  <2>8. ProgramGetsItsArguments'
    <3>1. strings'.given = argv
      BY Zenon, <1>4
    <3> QED BY <1>4, <3>1, ArgumentsGiven
  <2> HIDE DEF parr, made
  <2>9. /\ strings'.top = pi + Reads(carr[0]) - 1
        /\ strings'.made = made /\ strings'.freed = made \ Kept(carr, pi) /\ strings'.taken = Taken(carr, pi)
    BY <1>4
  <2>10. ArgsInBounds'
    BY <1>0, <2>1, <2>2, <2>3, <2>9 DEF ArgsInBounds, Array
  <2>11. StringsFreedOnce'
    BY <2>7, <2>9 DEF StringsFreedOnce
  <2> QED BY <2>8, <2>10, <2>11
<1> HIDE DEF parr, made
<1> QED BY <1>1, <1>2, <1>3, <1>4

\* Each profile is stored under its own uid, so the two questions that are
\* asked of the list have one answer (sucompat.c:47, 203).
ListInv == \A u \in DOMAIN su_list : su_list[u].uid = u

\* A grant is stored under the uid it names.
LEMMA ListGrants ==
    ASSUME ListInv, NEW uid, NEW to, NEW c, su_add_allow_uid(uid, to, c)
    PROVE  ListInv'
<1> DEFINE r == [uid |-> uid, to_uid |-> to, ctx |-> c]
<1>1. su_list' = [x \in DOMAIN su_list \cup {uid} |-> IF x = uid THEN r ELSE su_list[x]]
  BY Zenon DEF su_add_allow_uid, write_kstorage
<1>2. r.uid = uid
  OBVIOUS
<1> HIDE DEF r
<1> QED BY <1>1, <1>2 DEF ListInv

LEMMA ListRevokes ==
    ASSUME ListInv, NEW uid, su_remove_allow_uid(uid)
    PROVE  ListInv'
BY DEF ListInv, su_remove_allow_uid, remove_kstorage

LEMMA ListStays == ListInv /\ UNCHANGED su_list => ListInv'
BY DEF ListInv

LEMMA ListCommand ==
    ASSUME ListInv, NEW t \in Tasks, NEW argv \in Commands, handle_supercmd(t, argv)
    PROVE  ListInv'
<1>1. \/ UNCHANGED su_list
      \/ \E carr : handle_cmd_sumgr(carr)
  <2>1. Unset => UNCHANGED su_list
    BY DEF Unset
  <2> QED BY Zenon, <2>1 DEF handle_supercmd
<1>2. ASSUME NEW carr, handle_cmd_sumgr(carr) PROVE ListInv'
  <2>1. CASE carr[1] = "grant" /\ carr[2] \in DOMAIN Nums
    BY <1>2, <2>1, ListGrants DEF handle_cmd_sumgr
  <2>2. CASE carr[1] = "revoke" /\ carr[2] \in DOMAIN Nums
    BY <1>2, <2>2, ListRevokes DEF handle_cmd_sumgr
  <2>3. CASE carr[1] = "path" /\ carr[2] # ""
    BY <1>2, <2>3, ListStays DEF handle_cmd_sumgr
  <2>4. CASE carr[1] = "sctx" /\ carr[2] # ""
    BY <1>2, <2>4, ListStays DEF handle_cmd_sumgr
  <2>5. CASE carr[1] = "exclude" /\ carr[2] \in DOMAIN Nums /\ carr[3] # ""
    BY <1>2, <2>5, ListStays DEF handle_cmd_sumgr
  <2>6. CASE /\ ~(carr[1] = "grant" /\ carr[2] \in DOMAIN Nums)
             /\ ~(carr[1] = "revoke" /\ carr[2] \in DOMAIN Nums)
             /\ ~(carr[1] = "path" /\ carr[2] # "") /\ ~(carr[1] = "sctx" /\ carr[2] # "")
             /\ ~(carr[1] = "exclude" /\ carr[2] \in DOMAIN Nums /\ carr[3] # "")
    BY <1>2, <2>6, ListStays DEF handle_cmd_sumgr, Unset
  <2> QED BY Zenon, <2>1, <2>2, <2>3, <2>4, <2>5, <2>6
<1> QED BY <1>1, <1>2, ListStays

LEMMA ListCall ==
    ASSUME ListInv, NEW t \in Tasks, SuCalls(t)
    PROVE  ListInv'
<1>1. \/ UNCHANGED su_list
      \/ \E u, to, c : su_add_allow_uid(u, to, c)
      \/ \E u : su_remove_allow_uid(u)
  BY Zenon DEF SuCalls, call_su, call_su_task, call_grant_uid, call_revoke_uid, call_exclude,
               call_reset_su_path, call_su_set_allow_sctx, Unset
<1> QED BY <1>1, ListGrants, ListRevokes, ListStays

LEMMA ListStep == ASSUME ListInv, SuNext PROVE ListInv'
<1>1. CASE \E p \in Tasks, n \in Tasks : \/ \E thread \in BOOLEAN : copy_process(p, n, thread)
                                         \/ AfterFork(p, n)
  <2>1. UNCHANGED su_list
    BY Zenon, <1>1 DEF copy_process, AfterFork, Unset
  <2> QED BY <2>1, ListStays
<1>2. CASE \E t \in Tasks : Exit(t) \/ override_creds(t) \/ revert_creds(t) \/ KernelFile(t)
  <2>1. UNCHANGED su_list
    BY Zenon, <1>2 DEF Exit, override_creds, revert_creds, KernelFile, Unset
  <2> QED BY <2>1, ListStays
<1>3. ASSUME NEW t \in Tasks, SuCalls(t) PROVE ListInv'
  BY <1>3, ListCall
<1>4. ASSUME NEW t \in Tasks, NEW f, before_execve(t, f) PROVE ListInv'
  <2>1. UNCHANGED su_list
    BY Zenon, <1>4 DEF before_execve, Unset
  <2> QED BY <2>1, ListStays
<1> QED BY Zenon, <1>1, <1>2, <1>3, <1>4 DEF SuNext

CmdInv == ListInv /\ ProgramGetsItsArguments /\ ArgsInBounds /\ StringsFreedOnce

\* At the start nothing has been asked, and root alone is in the list.
LEMMA CmdStart == CmdInit => CmdInv
<1> SUFFICES ASSUME CmdInit PROVE CmdInv
  OBVIOUS
<1>1. ListInv
  <2> DEFINE r == [uid |-> 0, to_uid |-> 0, ctx |-> ""]
  <2>1. r.uid = 0
    OBVIOUS
  <2>2. su_list = [x \in {0} |-> r]
    BY Zenon DEF CmdInit, SuInit
  <2> HIDE DEF r
  <2> QED BY <2>1, <2>2 DEF ListInv
<1>2. ProgramGetsItsArguments
  <2>1. answer.file = ""
    BY DEF CmdInit
  <2> QED BY Zenon, <2>1 DEF ProgramGetsItsArguments
<1>3. strings.top = 2 /\ strings.made = {} /\ strings.freed = {} /\ strings.taken = {}
  BY DEF CmdInit
<1>4. ArgsInBounds /\ StringsFreedOnce
  <2>1. ArgsNo \in Nat
    BY CommandAssumption
  <2> QED BY <1>3, <2>1 DEF ArgsInBounds, StringsFreedOnce, Array
<1> QED BY <1>1, <1>2, <1>4 DEF CmdInv

\* What is asked of a task or of a setting leaves the last command as it was.
LEMMA CmdStep ==
    ASSUME \A c \in Commands : Sensible(c), CmdInv,
           [CmdNext \/ (SuNext /\ UNCHANGED cvars)]_<<svars, cvars>>
    PROVE  CmdInv'
<1>0. UNCHANGED cvars => (ProgramGetsItsArguments /\ ArgsInBounds /\ StringsFreedOnce)'
  BY DEF CmdInv, cvars, ProgramGetsItsArguments, ArgsInBounds, StringsFreedOnce
<1>1. ASSUME NEW t \in Tasks, NEW argv \in Commands, handle_supercmd(t, argv) PROVE CmdInv'
  BY <1>1, CommandDone, ListCommand DEF CmdInv
<1>2. CASE SuNext /\ UNCHANGED cvars
  BY <1>0, <1>2, ListStep DEF CmdInv
<1>3. CASE UNCHANGED <<svars, cvars>>
  <2>1. ListInv'
    BY <1>3, ListStays DEF CmdInv, svars
  <2> QED BY <1>0, <1>3, <2>1 DEF CmdInv
<1> QED BY <1>1, <1>2, <1>3 DEF CmdNext

\* Whoever asks is answered by one profile, the one under its uid.
LEMMA ListShows == ListInv => ShownIsRun
<1> SUFFICES ASSUME ListInv, NEW u \in Uids, NEW f \in Paths
             PROVE  StatSees(u, f) = ExecRuns(u, f)
  BY DEF ShownIsRun
<1>1. is_su_allow_uid(u) <=> get_kstorage(u) # {}
  BY DEF ListInv, is_su_allow_uid, get_kstorage
<1> QED BY <1>1 DEF StatSees, ExecRuns

\* Whatever stands on the command line, and whatever is granted and revoked
\* in between: a program is given its own words, no word past the array is
\* read, no copy is freed twice or left (supercmd.c:303-488), and whom fstatat
\* shows the su path execve lets run it (sucompat.c:47, 203).  A -c as the
\* value of an option is left out: CopyArgs stops at it and the options do not.
THEOREM CommandsRun ==
    (\A c \in Commands : Sensible(c)) => (CmdSpec => []CommandsRunAsTyped)
<1> SUFFICES ASSUME \A c \in Commands : Sensible(c)
             PROVE  CmdSpec => []CommandsRunAsTyped
  OBVIOUS
<1>1. CmdInit => CmdInv
  BY CmdStart
<1>2. CmdInv /\ [CmdNext \/ (SuNext /\ UNCHANGED cvars)]_<<svars, cvars>> => CmdInv'
  BY CmdStep
<1>3. CmdInv => CommandsRunAsTyped
  BY ListShows DEF CmdInv, CommandsRunAsTyped
<1> QED BY <1>1, <1>2, <1>3, PTL DEF CmdSpec
=============================================================================
