-------------------------------- MODULE Boot --------------------------------
(* A patched image starts: the setup code copies itself and hooks           *)
(* paging_init, the kernel clears its bss, the hook moves the program to    *)
(* memory of its own, and start puts the kernel back and lays out that      *)
(* memory (setup1.S, map.c, start.c, predata.c).  Addresses are cells,      *)
(* counted from the first of the kernel; those of the new memory from its.  *)
EXTENDS KernelImage, TLC

CONSTANTS MapStart, MapEnd,     \* the map code in kpimg: _map_start, _map_end
          KpStart, StartSize,   \* _kp_start in kpimg, and _kp_end - _kp_start
          MemTop,
          PageSizes,            \* page_size of the kernel
          HookSize, RwSize, RoxSize     \* HOOK_ALLOC_SIZE, MEMORY_RW_SIZE, MEMORY_ROX_SIZE

VARIABLES phase,
          ram,          \* memory from the kernel on
          pre,          \* start_preset and map_data, as far as they are used
          kp,           \* the memory of the program
          page,         \* page_size
          regions,      \* _kp_extra_start ... _kp_rox_end
          kfuncs,       \* the functions of the kernel it has found
          hooked,       \* those patch has hooked
          inits,        \* the parts of the program that were initialised
          loaded        \* what load_module was given, in order

bvars == <<phase, ram, pre, kp, page, regions, kfuncs, hooked, inits, loaded>>
lateVars == <<kfuncs, hooked, inits, loaded>>

Copy(to, at, cells) == [i \in DOMAIN to |-> IF i \in at .. at + Len(cells) - 1 THEN cells[i - at + 1] ELSE to[i]]
PacMask(word) == IsPac(word)
MapCode == From(Kpimg, MapStart + 1, MapEnd - MapStart)

\* the boot loader
Load ==
    /\ phase = "off" /\ kfile.preset # NoPreset
    /\ LET p == kfile.preset
           blank == [i \in 1 .. MemTop |-> Garbage]
           image == kfile.kernel \o Zeros(p.setup_offset - p.kimg_size) \o Kpimg \o kfile.extra IN
       ram' = Copy(blank, 1, image)
    /\ page' \in PageSizes
    /\ phase' = "loaded"
    /\ UNCHANGED <<pre, kp, regions>> /\ UNCHANGED lateVars

\* start_prepare: what start will need, the kernel under the map code among
\* it, and a copy of the program and the items behind the kernel
start_prepare(m) ==
    LET p == kfile.preset
        img == p.kpimg_size - KpStart
        \* the copy runs from the last cell to the first
        copied == Copy(m, p.start_offset + 1, From(m, p.setup_offset + KpStart + 1, img + p.extra_size)) IN
    [m |-> copied,
     pre |-> [map_backup |-> From(m, p.map_offset, MapEnd - MapStart), start_img_size |-> img]]
\* map_prepare: paging_init's first instruction is kept, without pointer
\* authentication at its start and end, and a branch to the map code put there
map_prepare(m) ==
    LET at == kfile.preset.paging_init_offset
        auth == CHOOSE i \in at + 1 .. MemTop : PacMask(m[i]) /\ \A j \in at + 1 .. i - 1 : ~PacMask(m[j])
        plain == IF PacMask(m[at]) THEN [m EXCEPT ![auth] = W("nop")] ELSE m IN
    [m |-> Copy([plain EXCEPT ![at] = W("b map")], kfile.preset.map_offset, MapCode),
     backup |-> IF PacMask(m[at]) THEN W("nop") ELSE m[at]]
\* the program's copy is made after the kernel is changed
MutantSetup ==
    /\ phase = "loaded"
    /\ LET m == map_prepare(ram)
           s == start_prepare(m.m) IN
       /\ ram' = [s.m EXCEPT ![1] = kfile.preset.header_backup]
       /\ pre' = s.pre @@ [paging_init_backup |-> m.backup]
    /\ phase' = "set up"
    /\ UNCHANGED <<kp, page, regions>> /\ UNCHANGED lateVars
setup ==
    /\ phase = "loaded"
    /\ LET s == start_prepare(ram)
           m == map_prepare(s.m) IN
       /\ ram' = [m.m EXCEPT ![1] = kfile.preset.header_backup]
       /\ pre' = s.pre @@ [paging_init_backup |-> m.backup]
    /\ phase' = "set up"
    /\ UNCHANGED <<kp, page, regions>> /\ UNCHANGED lateVars

\* the kernel starts: its bss, which begins where the image ends, is cleared
ClearBss ==
    /\ phase = "set up"
    /\ ram' = Copy(ram, Len(orig.words) + 1, Zeros(orig.size - Len(orig.words)))
    /\ phase' = "running"
    /\ UNCHANGED <<pre, kp, page, regions>> /\ UNCHANGED lateVars

AllSize == StartSize + align_ceil(kfile.preset.extra_size, page) + HookSize + RwSize + RoxSize
\* paging_init has been called: put back, it runs, and the program is moved;
\* what the copy behind the kernel took is given back and used by others
_paging_init ==
    /\ phase = "running" /\ ram[kfile.preset.paging_init_offset] = W("b map")
    /\ LET p == kfile.preset
           old == p.start_offset + 1
           zeroed == Zeros(AllSize) IN
       /\ kp' = Copy(Copy(zeroed, 1, From(ram, old, pre.start_img_size)),
                     StartSize + 1, From(ram, old + pre.start_img_size, p.extra_size))
       /\ ram' = Copy([ram EXCEPT ![p.paging_init_offset] = pre.paging_init_backup], old,
                      [i \in 1 .. pre.start_img_size + p.extra_size |-> Garbage])
    /\ phase' = "moved"
    /\ UNCHANGED <<pre, page, regions>> /\ UNCHANGED lateVars

\* start: prot_myself, restore_map
Layout ==
    LET extra == StartSize
        hook == align_ceil(extra + kfile.preset.extra_size, page)
        rw == hook + HookSize
        rox == rw + RwSize IN
    [text |-> <<0, pre.start_img_size>>, extra |-> <<extra, extra + kfile.preset.extra_size>>,
     hook |-> <<hook, rw>>, rw |-> <<rw, rox>>, rox |-> <<rox, rox + RoxSize>>]
restore_map(m) == Copy(m, kfile.preset.map_offset, pre.map_backup)
start ==
    /\ phase = "moved"
    /\ regions' = Layout
    /\ ram' = restore_map(ram)
    /\ phase' = "up"
    /\ UNCHANGED <<pre, kp, page>> /\ UNCHANGED lateVars

\* on_each_extra_item: each item's name, arguments up to the zero that ends
\* them, and contents
OnEach ==
    LET cells == From(kp, regions.extra[1] + 1, regions.extra[2] - regions.extra[1])
        read(p) == LET item == cells[p][2] IN
            [name |-> item.name, type |-> item.type, event |-> item.event,
             args |-> IF item.args_size > 0 THEN StrLen(cells, p + 1) ELSE 0,
             con |-> From(cells, p + 1 + item.args_size, item.con_size)]
        at == Items(cells) IN
    [i \in DOMAIN at |-> read(at[i])]

---------------------------------------------------------------------------
(* patch first looks up the functions of the kernel that the program calls, *)
(* a null pointer standing for one that is not there (patch/ksyms, ksyms.h). *)
_linux_lib_misc == {"dump_stack_lvl", "dump_stack"}
_linux_lib_strncpy_from_user_sym_match == {"strncpy_from_user_nofault", "strncpy_from_unsafe_user",
    "strncpy_from_user"}
_linux_lib_string_sym_match == {"strncasecmp", "strcasecmp", "strcpy", "strncpy", "strlcpy", "strscpy",
    "strscpy_pad", "stpcpy", "strcat", "strncat", "strlcat", "strcmp", "strncmp", "strchr", "strchrnul",
    "strnchrnul", "strrchr", "strnchr", "skip_spaces", "strim", "strlen", "strnlen", "strspn", "strcspn", "strpbrk",
    "strsep", "match_string", "memset", "memcpy", "memmove", "memcmp", "bcmp", "memscan", "strstr", "strnstr",
    "memchr", "memchr_inv", "strreplace", "kstrtoull", "kstrtoll"}
_linux_lib_argv_split_sym_match == {"argv_free", "argv_split"}
_linux_lib_seq_buf_sym_match == {"seq_buf_to_user", "trace_seq_to_user", "xt_data_to_user", "bits_to_user"}
_linux_include_kernel_sym_match == {"sprintf", "vsprintf", "snprintf", "vsnprintf", "scnprintf", "vscnprintf",
    "kasprintf", "kvasprintf", "sscanf", "vsscanf"}
linux_libs_symbol_init == UNION {_linux_lib_misc, _linux_lib_strncpy_from_user_sym_match,
    _linux_lib_string_sym_match, _linux_lib_argv_split_sym_match, _linux_lib_seq_buf_sym_match,
    _linux_include_kernel_sym_match}
_linux_kernel_cred_sym_match == {"groups_alloc", "set_groups", "__put_cred", "copy_creds", "get_task_cred",
    "cred_alloc_blank", "prepare_creds", "prepare_exec_creds", "commit_creds", "override_creds",
    "prepare_kernel_cred", "set_security_override", "set_security_override_from_ctx"}
_linux_locking_spinlock_sym_match == {"_raw_spin_trylock", "_raw_spin_lock", "_raw_spin_lock_irqsave",
    "_raw_spin_lock_irq", "_raw_spin_unlock", "_raw_spin_unlock_irqrestore", "_raw_spin_unlock_irq"}
_linux_kernel_pid_sym_match == {"pidfd_get_pid", "put_pid", "pid_task", "get_pid_task", "get_task_pid",
    "__task_pid_nr_ns", "task_active_pid_ns", "find_pid_ns", "find_vpid", "pid_nr_ns", "pid_vnr",
    "find_task_by_vpid", "find_task_by_pid_ns", "find_get_task_by_vpid"}
_linux_kernel_stop_machine_sym_match == {"stop_machine"}
_linux_mm_utils_sym_match == {"memdup_user", "strndup_user", "kvfree", "kfree"}
_linux_mm_vmalloc_sym_match == {"vmalloc", "vmalloc_noprof", "vzalloc", "__vmalloc", "vfree"}
_linux_fs_sym_match == {"kernel_read", "kernel_write", "file_open_name", "filp_open", "filp_close", "vfs_llseek"}
_linux_stacktrace_sym_match == {"save_stack_trace_tsk"}
_linux_security_selinux_avc_sym_match == {"avc_denied", "slow_avc_audit"}
_linux_security_commoncap_sym_match == {"cap_capable", "cap_capget", "cap_capset", "cap_task_prctl",
    "security_secctx_to_secid"}
_linux_seccomp_sym_match == {"prctl_get_seccomp"}
_linux_misc_misc == {"panic"}
_linux_rcu_symbol_init == {"_local_bh_enable", "local_bh_blocked", "call_rcu", "synchronize_rcu", "__rcu_read_lock",
    "__rcu_read_unlock"}
_linux_sched_mm_init == {"mmput", "mmput_async", "get_task_mm"}
\* the groups of fork.c and of SELinux look up nothing
linux_misc_symbol_init == UNION {_linux_kernel_cred_sym_match, _linux_locking_spinlock_sym_match,
    _linux_kernel_pid_sym_match, _linux_kernel_stop_machine_sym_match, _linux_mm_utils_sym_match,
    _linux_mm_vmalloc_sym_match, _linux_fs_sym_match, _linux_stacktrace_sym_match,
    _linux_security_selinux_avc_sym_match, _linux_security_commoncap_sym_match, _linux_seccomp_sym_match,
    _linux_misc_misc, _linux_rcu_symbol_init, _linux_sched_mm_init}
kfunc_match(names) == names \ orig.lacks

\* kver > VERSION(...)
Newer(v) == \E i \in 1 .. 3 : orig.version[i] > v[i] /\ \A j \in 1 .. i - 1 : orig.version[j] = v[j]
\* the first of these functions that was found, from 6.7 on another way round
FirstOf(found, order, late) ==
    LET there == SelectSeq(IF Newer(<<6, 7, 0>>) THEN late ELSE order, LAMBDA f : f \in found) IN
    IF there = <<>> THEN "none" ELSE there[1]

\* the kernel's: bytes copied, or that it went well, or an error when the memory is not there
EFAULT == 14
xt_data_to_user(ok) == IF ok THEN 0 ELSE -EFAULT
seq_buf_to_user(s, cnt, ok) == IF ok THEN Min({cnt, s.len - s.readpos}) ELSE -EFAULT
bits_to_user(maxbit, maxlen, ok) == IF ok THEN Min({((maxbit + 63) \div 64) * 8, maxlen}) ELSE -EFAULT
\* the kernel's: what it answers for a string of len characters and where the copy ends in a zero, -1 for nowhere
strncpy_from_user(len, count, ok) ==
    IF ~ok THEN [rc |-> -EFAULT, end |-> -1]
    ELSE IF len < count THEN [rc |-> len, end |-> len] ELSE [rc |-> count, end |-> -1]
strncpy_from_user_nofault(len, count, ok) ==
    IF ~ok THEN [rc |-> -EFAULT, end |-> -1] ELSE [rc |-> Min({len + 1, count}), end |-> Min({len, count - 1})]

trace_seq_copy_to_user(n, ok) == IF n > page THEN 0 ELSE seq_buf_to_user([len |-> n, readpos |-> 0], n, ok)
compat_copy_to_user(found, n, ok) ==
    LET f == FirstOf(found, <<"seq_buf_to_user", "bits_to_user", "trace_seq_to_user", "xt_data_to_user">>,
                     <<"xt_data_to_user", "seq_buf_to_user", "bits_to_user", "trace_seq_to_user">>) IN
    CASE f = "xt_data_to_user" -> IF xt_data_to_user(ok) = 0 THEN n ELSE xt_data_to_user(ok)
      [] f = "seq_buf_to_user" -> seq_buf_to_user([len |-> n, readpos |-> 0], n, ok)
      [] f = "bits_to_user" -> bits_to_user(n * 8, n, ok)
      [] f = "trace_seq_to_user" -> trace_seq_copy_to_user(n, ok)
      [] f = "none" -> 0
compat_strncpy(found, len, count, ok) ==
    LET f == FirstOf(found, <<"strncpy_from_user", "strncpy_from_user_nofault", "strncpy_from_unsafe_user">>,
                     <<"strncpy_from_user_nofault", "strncpy_from_unsafe_user", "strncpy_from_user">>)
        own == strncpy_from_user(len, count, ok) IN
    CASE f = "none" -> [rc |-> 0, end |-> -1]
      [] f = "strncpy_from_user" ->
            IF own.rc >= count THEN [rc |-> count, end |-> count - 1]
            ELSE IF own.rc > 0 THEN [own EXCEPT !.rc = @ + 1] ELSE own
      [] f \in {"strncpy_from_user_nofault", "strncpy_from_unsafe_user"} -> strncpy_from_user_nofault(len, count, ok)
\* below the stack pointer, on 8 bytes; what could not be copied is answered instead of an address
copy_to_user_stack(found, sp, len, ok) ==
    LET cplen == compat_copy_to_user(found, len, ok) IN
    IF cplen > 0 THEN ((sp - len) \div 8) * 8 ELSE cplen

\* what patch/ and base/ call without asking whether it was found (kfunc_direct_call)
Called == {"__task_pid_nr_ns", "_raw_spin_lock", "_raw_spin_unlock", "commit_creds", "filp_close", "filp_open",
    "find_get_task_by_vpid", "kfree", "kstrtoull", "kvfree", "memcmp", "memcpy", "memdup_user",
    "panic", "prepare_creds", "prepare_kernel_cred", "security_secctx_to_secid", "set_security_override",
    "set_security_override_from_ctx", "snprintf", "sprintf", "strchr", "strcmp", "strcpy", "strlen", "strncmp",
    "strncpy", "strndup_user", "vfs_llseek", "vsnprintf"}
---------------------------------------------------------------------------
(* The rest is done in hooks of the kernel's own start (patch.c)           *)
Hooks == <<"panic", "rest_init", "kernel_init">>
\* what the tool found of them, rest_init or cgroup_init at least; the first
\* hook that fails is the last one tried
patch ==
    /\ phase = "up" /\ phase' = "patched"
    /\ kfuncs' = kfunc_match(linux_libs_symbol_init \cup linux_misc_symbol_init)
    /\ \E known \in SUBSET ToSet(Hooks), good \in 0 .. 3 :
          /\ "rest_init" \in known
          /\ hooked' = known \cap {Hooks[i] : i \in 1 .. good}
    /\ UNCHANGED <<ram, pre, kp, page, regions, inits, loaded>>
InitOrder == <<"bypass_kcfi", "resolve_struct", "bypass_selinux", "task_observer", "supercall_install", "kstorage_init",
               "su_compat_init", "resolve_pt_regs", "android_sepolicy_flags_fix", "android_user_init">>
\* one of the first four that fails is the last
before_rest_init ==
    /\ phase = "patched" /\ phase' = "rest_init"
    /\ \E tried \in {1, 2, 3, 4, Len(InitOrder)} :
          inits' = IF "rest_init" \in hooked THEN SubSeq(InitOrder, 1, tried) ELSE <<>>
    /\ UNCHANGED <<ram, pre, kp, page, regions, kfuncs, hooked, loaded>>
extra_event_pre_kernel_init(item) == item.type = "kpm" /\ item.event \in {"", "pre-kernel-init"}
before_kernel_init ==
    /\ phase = "rest_init" /\ phase' = "kernel_init"
    /\ loaded' = IF "kernel_init" \in hooked THEN SelectSeq(OnEach, extra_event_pre_kernel_init) ELSE <<>>
    /\ UNCHANGED <<ram, pre, kp, page, regions, kfuncs, hooked, inits>>

BootInit == /\ phase = "off" /\ ram = <<>> /\ kp = <<>> /\ regions = <<>> /\ page \in PageSizes
            /\ pre = [map_backup |-> <<>>, start_img_size |-> 0, paging_init_backup |-> Zero]
            /\ kfuncs = {} /\ hooked = {} /\ inits = <<>> /\ loaded = <<>>
BootNext == /\ \/ Load \/ setup \/ ClearBss \/ _paging_init \/ start
               \/ patch \/ before_rest_init \/ before_kernel_init
            /\ UNCHANGED kvars
---------------------------------------------------------------------------
\* Started, the kernel is the one the tool was given, but for the pointer
\* authentication taken out of paging_init and of where the map code was: its
\* header, the word under the hook and the words under the map code are back
\* (setup1.S:80-120, 180-235; map.c:199; start.c:319-336).
KernelIsBack ==
    phase = "up" =>
        LET at == kfile.preset.paging_init_offset IN
        \A i \in DOMAIN orig.words :
            \/ ram[i] = orig.words[i]
            \/ ram[i] = W("nop") /\ IsPac(orig.words[i]) /\ (i >= at \/ i \in Tcp .. Tcp + 2 * MapMax - 1)
            \/ ram[i] = W("no pi") /\ orig.words[i] = W("pi")

\* The program starts whole, wherever the kernel's bss and its own image lie,
\* and in memory of its own that no other part of it uses.
ProgramIsWhole ==
    phase = "up" =>
        /\ From(kp, 1, pre.start_img_size) = SubSeq(Kpimg, KpStart + 1, Len(Kpimg))
        /\ \A a, b \in DOMAIN regions : a # b => regions[a][2] <= regions[b][1] \/ regions[b][2] <= regions[a][1]
        /\ \A a \in DOMAIN regions : regions[a][2] <= Len(kp)
        /\ \A a \in {"hook", "rw", "rox"} : regions[a][1] % page = 0

\* The kernel is handed the items that were asked for, with the arguments and
\* the contents they were given, whatever was patched in between ("Embed new extra item", "Preserve and modifiy embedded
\* extra item", "Set arguments of previous extra item", kptools.c:58-64).
ItemsAsAsked ==
    phase = "up" =>
        LET got == OnEach
            of(a) == {i \in DOMAIN got : got[i].name = a.name} IN
        /\ Len(got) = Cardinality(asked)
        /\ \A a \in asked : \E i \in of(a) :
              /\ got[i].args = a.args
              /\ SubSeq(got[i].con, 1, Len(a.con)) = a.con

\* Each module asked for goes to load_module once, before kernel_init, with the
\* arguments it was given: those without an event or with the one of that time
\* (patch.c:98-117).
ModulesAsAsked ==
    phase = "kernel_init" /\ "kernel_init" \in hooked =>
        LET due == {a \in asked : a.type = "kpm" /\ a.event # "post-kernel-init"} IN
        /\ Len(loaded) = Cardinality(due)
        /\ \A a \in due : \E i \in DOMAIN loaded :
              /\ loaded[i].name = a.name /\ loaded[i].args = a.args
              /\ SubSeq(loaded[i].con, 1, Len(a.con)) = a.con

\* Once the kernel's start goes through the hooks, no call of the program goes to
\* a function that was not found though the kernel has it (ksyms.h:36-45).
CallsGoSomewhere ==
    phase = "patched" => (Called \ orig.lacks) \subseteq kfuncs

\* Whichever of its functions the kernel has: what fits in a page is copied whole
\* and counted, and nothing else is; a string that is not empty ends in a zero
\* that is counted, the same on every kernel; the user's stack is written below its pointer
\* (utils.c:74-160).
CopiesAreTrue ==
    phase = "patched" /\ hooked = {} =>
        /\ \A found \in SUBSET _linux_lib_seq_buf_sym_match, n \in {1, 7, page, page + 1, 9 * page}, ok \in BOOLEAN :
              LET c == compat_copy_to_user(found, n, ok)
                  at == copy_to_user_stack(found, 16 * page, n, ok) IN
              /\ c > 0 => ok /\ c = n
              /\ ok /\ n <= page /\ found # {} => c = n
              /\ at > 0 => at % 8 = 0 /\ at + n <= 16 * page
        /\ \A found \in SUBSET _linux_lib_strncpy_from_user_sym_match \ {{}}, len \in 1 .. 4, count \in 1 .. 3 :
              /\ compat_strncpy(found, len, count, TRUE) = [rc |-> Min({len + 1, count}), end |-> Min({len, count - 1})]
              /\ compat_strncpy(found, len, count, FALSE).rc < 0

\* The image the tools make (patch.c, kptools.c), whatever was done to it before,
\* is patched once, and once started it hands over what was asked for.
ImageIsAsAsked == PatchedOnce /\ ItemsAsAsked /\ ModulesAsAsked

\* Starting (setup1.S, map.c, start.c) gives the kernel back as it was, and the
\* program gets memory of its own, whole, and can call the kernel from it.
BothStartWhole == KernelIsBack /\ ProgramIsWhole /\ CallsGoSomewhere /\ CopiesAreTrue
=============================================================================
