------------------------------ MODULE Structs -------------------------------
(* KernelPatch is not built with the kernel's headers: at boot it finds out *)
(* where the fields of struct task_struct and struct cred are               *)
(* (src/kernel/patch/ksyms/task_cred.c), by what the memory of the first    *)
(* task holds and by writing a value that stands out into one cell after    *)
(* another and asking the kernel.  A cell is four bytes, a pointer, a       *)
(* capability set and the magic number two; addresses count cells.          *)
EXTENDS Integers, Sequences, FiniteSets, SequencesExt

CONSTANTS SKernels,         \* the kernels: how they are built and laid out
          HI,               \* the upper cell of a pointer into the kernel
          FLAG,             \* 1158, the value that stands out
          STACK_END_MAGIC, Swapper, \* and the cells that begin the name "swapper"
          ThreadSizes,      \* 1 << 14, 1 << 15, 1 << 16
          THREAD_INFO_MAX_SIZE, TASK_STRUCT_MAX_SIZE, CRED_MAX_SIZE, MM_STRUCT_MAX_SIZE, page_size

VARIABLES
    kern,       \* the kernel
    memory,     \* its memory, and the copies of init_task ("task") and of init_cred ("cred", "cred1")
    now,        \* which task sp_el0, or the thread_info, names
    known,      \* task_struct_offset, cred_offset, mm_struct_offset and what resolve_current finds
    bl_list,    \* the cells whose field is known
    step,       \* the function or the part of it that is next
    harmed      \* the kernel followed a pointer that was overwritten

svars == <<kern, memory, now, known, bl_list, step, harmed>>
---------------------------------------------------------------------------
Address(a) == <<a, HI>>
CellAt(m, p) == IF p \in DOMAIN m THEN m[p] ELSE 0
Read64(m, p) == <<CellAt(m, p), CellAt(m, p + 1)>>
Write64(m, p, v) == [m EXCEPT ![p] = v[1], ![p + 1] = v[2]]
Null64 == <<0, 0>>
kernelMem == memory.kernel
is_kimg_range(v) == v[2] = HI /\ v[1] \in DOMAIN kernelMem
Least(S) == CHOOSE x \in S : \A y \in S : x <= y
\* the first of the addresses for which T holds, -1 when there is none
First(S, T(_)) == LET found == {p \in S : T(p)} IN IF found = {} THEN -1 ELSE Least(found)
find_swapper_comm_offset(v) ==
    IF ~is_kimg_range(v) \/ ~is_kimg_range(<<v[1] + TASK_STRUCT_MAX_SIZE, v[2]>>) THEN -1
    ELSE First(0 .. TASK_STRUCT_MAX_SIZE - 1, LAMBDA i : kernelMem[v[1] + i] = Swapper)
---------------------------------------------------------------------------
(* resolve_current                                                         *)
\* what sp_el0 holds: the task, its thread_info, or something of user space
sp_el0 == CASE kern.sp_el0 = "task" -> Address(kern.init_task)
            [] kern.sp_el0 = "info" -> Address(kern.stack)
            [] OTHER -> <<7, 0>>
Kallsyms(name, a) == IF name \in kern.symbols THEN Address(a) ELSE Null64
MutantStackEnd(low, size) == First(low + 1 .. low + THREAD_INFO_MAX_SIZE - 1, LAMBDA p : Read64(kernelMem, p) = <<STACK_END_MAGIC, 0>>)
\* where the magic number is, if the stack has this size
StackEnd(low, size) == First(low .. low + THREAD_INFO_MAX_SIZE - 1, LAMBDA p : Read64(kernelMem, p) = <<STACK_END_MAGIC, 0>>)
resolve_current ==
    LET looked == Kallsyms("init_task", kern.init_task)
        comm == find_swapper_comm_offset(sp_el0)
        isInfo == is_kimg_range(sp_el0) /\ sp_el0 = Kallsyms("init_thread_union", kern.stack)
        isTask == /\ is_kimg_range(sp_el0) /\ ~isInfo
                  /\ (sp_el0 = looked) \/ (sp_el0[1] % page_size # 0) \/ comm > 0
        low(size) == kern.sp - (kern.sp % size)
        sizes == SelectSeq(ThreadSizes, LAMBDA s : StackEnd(low(s), s) # -1)
        size == IF sizes = <<>> THEN 0 ELSE sizes[1]
        base == IF size = 0 THEN 0 ELSE low(size)
        end == IF size = 0 THEN 36 ELSE StackEnd(base, size) - base
        inTask == size # 0 /\ end = 0
        task0 == IF isTask THEN sp_el0 ELSE looked
        named == First(base .. base + end - 1, LAMBDA p :
                       IF task0 # Null64 THEN Read64(kernelMem, p) = task0 ELSE find_swapper_comm_offset(Read64(kernelMem, p)) > 0)
        task == IF task0 = Null64 /\ ~inTask /\ named # -1 THEN Read64(kernelMem, named) ELSE task0
        stack == First(0 .. TASK_STRUCT_MAX_SIZE - 1, LAMBDA i : Read64(kernelMem, task[1] + i) = Address(base)) IN
    /\ step = "current" /\ step' = "creds"
    /\ known' = [known EXCEPT
         !.sp_el0_is_current = isTask,
         !.sp_el0_is_thread_info = is_kimg_range(sp_el0) /\ ~isTask,
         !.thread_size = size, !.stack_end_offset = end, !.thread_info_in_task = inTask,
         !.init_task = task,
         !.task_in_thread_info = IF inTask \/ named = -1 THEN -1 ELSE named - base,
         !.comm = find_swapper_comm_offset(task),
         !.stack = stack]
    /\ UNCHANGED <<kern, memory, now, bl_list, harmed>>

\* get_current, override_current and revert_current: by the address read or
\* written, the task the kernel takes for the current one or something else
CurrentAt ==
    IF known.sp_el0_is_current THEN "sp_el0"
    ELSE LET info == IF known.thread_info_in_task \/ known.sp_el0_is_thread_info THEN sp_el0
                     ELSE Address(kern.sp - (kern.sp % known.thread_size)) IN
         IF info = Address(kern.stack) /\ known.task_in_thread_info = kern.task_in_info THEN "info" ELSE "elsewhere"
override_current(t) == IF CurrentAt = (IF kern.sp_el0 = "task" THEN "sp_el0" ELSE "info") THEN t ELSE now
---------------------------------------------------------------------------
(* resolve_task_offset                                                     *)
get_task_cred == Read64(kernelMem, kern.init_task + kern.task.real_cred)
init_cred == get_task_cred
TaskOf(m) == [i \in 0 .. TASK_STRUCT_MAX_SIZE - 1 |-> m[known.init_task[1] + i]]
Restored(m, p, v) == Write64(m, p, v)
\* the two pointers to init_cred; the first is overwritten, and then init_cred
\* the variable, not the kernel, is asked which of them it was
resolve_task_offset_creds ==
    LET t == known.init_task[1]
        first == First(0 .. TASK_STRUCT_MAX_SIZE - 1, LAMBDA i : Read64(kernelMem, t + i) = init_cred)
        second == First(first + 1 .. TASK_STRUCT_MAX_SIZE - 1, LAMBDA i : Read64(kernelMem, t + i) = init_cred)
        flag_cred == Address(kern.sp)
        written == Write64(kernelMem, t + first, flag_cred)
        isReal == init_cred = flag_cred IN
    /\ step = "creds" /\ step' = "seccomp"
    /\ now' = override_current("task")
    /\ known' = [known EXCEPT !.real_cred = IF isReal THEN first ELSE second, !.cred = IF isReal THEN second ELSE first]
    /\ memory' = [memory EXCEPT !.task = TaskOf(kernelMem), !.kernel = Restored(written, t + first, init_cred)]
    /\ UNCHANGED <<kern, bl_list, harmed>>
resolve_task_offset_seccomp ==
    LET asked(i) == [memory.task EXCEPT ![i] = FLAG]
        mode(i) == IF now = "task" THEN asked(i)[kern.task.seccomp] ELSE kernelMem[kern.init_task + kern.task.seccomp]
        found == {i \in DOMAIN memory.task : memory.task[i] = 0 /\ mode(i) = FLAG} IN
    /\ step = "seccomp" /\ step' = "active_mm"
    /\ known' = [known EXCEPT !.seccomp = IF "prctl_get_seccomp" \in kern.symbols /\ found # {}
                                          THEN CHOOSE i \in found : \A j \in found : i >= j ELSE -1]
    /\ UNCHANGED <<kern, memory, now, bl_list, harmed>>
resolve_task_offset_active_mm ==
    LET mm == Kallsyms("init_mm", kern.init_mm)
        found == First(DOMAIN memory.task, LAMBDA i : Read64(memory.task, i) = mm) IN
    /\ step = "active_mm" /\ step' = "caps"
    /\ known' = [known EXCEPT !.init_mm = mm, !.active_mm = IF mm = Null64 THEN -1 ELSE found]
    /\ now' = override_current("init_task")         \* revert_current
    /\ UNCHANGED <<kern, memory, bl_list, harmed>>
---------------------------------------------------------------------------
(* What the kernel does with the current task's credentials                *)
Held(c, f) == c[kern.cred[f]]
Sane(c) == Read64(c, kern.cred.user_ns) = Address(kern.user_ns)
\* cap_capset: the new sets, in the copy
cap_capset(c, e, i, p) ==
    Write64(Write64(Write64(c, kern.cred.cap_effective, e), kern.cred.cap_inheritable, i), kern.cred.cap_permitted, p)
HasField(f) == f \in DOMAIN kern.cred
\* PR_CAP_AMBIENT_RAISE: in new credentials
RaiseAmbient(c, bit) ==
    IF HasField("cap_ambient") /\ Read64(c, kern.cred.cap_permitted) = kern.full /\ Held(c, "securebits") = 0
    THEN Write64(c, kern.cred.cap_ambient, bit) ELSE c
---------------------------------------------------------------------------
(* resolve_cred_offset: each search goes over the cells whose field is not  *)
(* known yet                                                                *)
is_bl(bl, i) == i \in bl
add_bll(bl, i, size) == bl \cup (IF size = 8 THEN {i, i + 1} ELSE {i})
\* where T names a field: the cells not yet known, the second cell of a hit not
\* looked at again; all of them, or the first only
Hits(c, T(_, _)) == {i \in 0 .. CRED_MAX_SIZE - 1 : ~is_bl(bl_list, i) /\ T(c, i) # "none"}
Taken(H, size, once) ==
    IF once THEN {i \in H : \A j \in H : i <= j}
    ELSE IF size = 4 THEN H
    ELSE {i \in H : \E j \in H : j - 1 \notin H /\ j .. i \subseteq H /\ i >= j /\ (i - j) % 2 = 0}
Swept(c, size, once, T(_, _)) ==
    LET found == Taken(Hits(c, T), size, once) IN
    [found |-> {<<T(c, i), i>> : i \in found}, bl |-> bl_list \cup UNION {add_bll({}, i, size) : i \in found}]
\* a field found more than once is where it was found last
Learnt(s) == LET of(f) == {p \in s.found : p[1] = f} IN
    [f \in DOMAIN known |-> IF of(f) = {} THEN known[f]
                                  ELSE CHOOSE i \in {p[2] : p \in of(f)} : \A p \in of(f) : i >= p[2]]
Full == kern.full
E_ == <<255, 0>>
I_ == <<15, 0>>
P_ == <<4095, 0>>
Search(from, to, s) ==
    /\ step = from /\ step' = to
    /\ known' = Learnt(s) /\ bl_list' = s.bl
    /\ UNCHANGED kern

caps ==
    LET c == kern.creds
        c1 == cap_capset(c, E_, I_, P_)
        Which(m, i) == IF Read64(c, i) = Full /\ Read64(c1, i) = E_ THEN "cap_effective"
                       ELSE IF Read64(c, i) = Null64 /\ Read64(c1, i) = I_ THEN "cap_inheritable"
                       ELSE IF Read64(c, i) = Full /\ Read64(c1, i) = P_ THEN "cap_permitted" ELSE "none" IN
    /\ Search("caps", "cap_bset", Swept(c, 8, FALSE, Which))
    /\ now' = override_current("task")
    /\ memory' = [memory EXCEPT !.cred = c, !.cred1 = c1, !.new_cred = c]
    /\ UNCHANGED harmed
cap_bset ==
    /\ Search("cap_bset", "securebits", Swept(memory.cred1, 8, FALSE, LAMBDA c, i : IF Read64(c, i) = Full THEN "cap_bset" ELSE "none"))
    /\ UNCHANGED <<memory, now, harmed>>
\* a cell is written, the kernel is asked, and the cell is written back
Asked(c, f, i) == now = "task" /\ Held([c EXCEPT ![i] = FLAG], f) = FLAG
securebits ==
    /\ Search("securebits", "ids", Swept(memory.cred, 4, TRUE, LAMBDA c, i : IF Asked(c, "securebits", i) THEN "securebits" ELSE "none"))
    /\ UNCHANGED <<memory, now, harmed>>
Probed(c, i) == [c EXCEPT ![i] = 0]
\* geteuid, getuid, getegid and getgid, of the cells that hold zero
ids ==
    LET answers(c) == SelectSeq(<<"euid", "uid", "egid", "gid">>, LAMBDA f : now = "task" /\ Held(c, f) = FLAG)
        skipped(c, i) == is_bl(bl_list, i) \/ c[i] # 0
        Loop[i \in 0 .. CRED_MAX_SIZE, c \in [DOMAIN memory.cred -> Int], found \in SUBSET (STRING \X Int)] ==
          IF i = CRED_MAX_SIZE THEN <<c, found>>
          ELSE Loop[i + 1, IF skipped(c, i) THEN c ELSE Probed(c, i),
                    LET hit == answers([c EXCEPT ![i] = FLAG]) IN
                    IF skipped(c, i) \/ hit = <<>> THEN found ELSE found \cup {<<hit[1], i>>}]
        s == Loop[0, memory.cred, {}] IN
    /\ Search("ids", "fsuid", [found |-> s[2], bl |-> bl_list \cup {p[2] : p \in s[2]}])
    /\ memory' = [memory EXCEPT !.cred = s[1], !.new_cred = s[1]]
    /\ UNCHANGED <<now, harmed>>
\* the cells a search that stops at what it finds has written to
Tried(s) == {i \in 0 .. CRED_MAX_SIZE - 1 : ~is_bl(bl_list, i) /\ \A p \in s.found : i <= p[2]}
\* setfsuid and setfsgid of -1 change nothing, answer the old one, and look
\* at the user namespace
FsId(f, to) ==
    LET s == Swept(memory.cred, 4, TRUE, LAMBDA c, i : IF Asked(c, f, i) THEN f ELSE "none") IN
    /\ Search(f, to, s)
    /\ harmed' = (harmed \/ \E i \in Tried(s) : ~Sane([memory.cred EXCEPT ![i] = FLAG]))
    /\ UNCHANGED <<memory, now>>
\* setresuid(0, 0, 1158) and setresgid(0, 0, 1158) give the task new credentials
SId(f, to) ==
    LET fs == IF f = "suid" THEN {"uid", "euid", "fsuid"} ELSE {"gid", "egid", "fsgid"}
        at(i) == IF \E g \in fs : kern.cred[g] = i THEN 0 ELSE IF kern.cred[f] = i THEN FLAG ELSE memory.new_cred[i]
        new == IF now = "task" THEN [i \in DOMAIN memory.new_cred |-> at(i)] ELSE memory.new_cred
        s == Swept(new, 4, TRUE, LAMBDA c, i : IF c[i] = FLAG THEN f ELSE "none") IN
    /\ Search(f, to, s)
    /\ memory' = [memory EXCEPT !.new_cred = [i \in DOMAIN new |-> IF \E p \in s.found : p[2] = i THEN 0 ELSE new[i]]]
    /\ UNCHANGED <<now, harmed>>
cap_ambient ==
    LET raised == Write64(Write64(Write64(memory.new_cred, known.cap_effective, Full), known.cap_inheritable, Full),
                          known.cap_permitted, Full)
        new == RaiseAmbient([raised EXCEPT ![known.securebits] = 0], <<32768, 0>>)
        s == Swept(new, 8, FALSE, LAMBDA c, i : IF Read64(memory.cred, i) = Null64 /\ Read64(c, i) = <<32768, 0>>
                                                THEN "cap_ambient" ELSE "none")
        lost == \E f \in {"cap_effective", "cap_inheritable", "cap_permitted", "securebits"} : known[f] = -1 IN
    /\ IF lost THEN Search("cap_ambient", "mm", [found |-> {}, bl |-> bl_list]) /\ UNCHANGED memory
       ELSE Search("cap_ambient", "mm", s) /\ memory' = [memory EXCEPT !.new_cred = new]
    /\ harmed' = (harmed \/ lost)                   \* written before the structure
    /\ now' = override_current("init_task")         \* revert_current
resolve_mm_struct_offset ==
    LET found == {i \in 0 .. MM_STRUCT_MAX_SIZE - 1 : known.init_mm # Null64 /\ Read64(kernelMem, known.init_mm[1] + i) = Address(kern.pgd)} IN
    /\ step = "mm" /\ step' = "done"
    /\ known' = [known EXCEPT !.pgd = IF found = {} THEN -1 ELSE CHOOSE i \in found : \A j \in found : i >= j]
    /\ UNCHANGED <<kern, memory, now, bl_list, harmed>>

OffsetFields == {"thread_size", "stack_end_offset", "comm", "stack", "real_cred", "cred", "seccomp", "active_mm", "pgd", "task_in_thread_info",
                 "cap_effective", "cap_inheritable", "cap_permitted", "cap_bset", "cap_ambient", "securebits",
                 "uid", "euid", "suid", "fsuid", "gid", "egid", "sgid", "fsgid"}
StructsInit ==
    /\ kern \in SKernels /\ step = "current" /\ now = "init_task" /\ bl_list = {} /\ harmed = FALSE
    /\ memory = [kernel |-> kern.mem, task |-> <<>>, cred |-> <<>>, cred1 |-> <<>>, new_cred |-> <<>>]
    /\ known = [f \in OffsetFields \cup {"sp_el0_is_current", "sp_el0_is_thread_info", "thread_info_in_task", "init_task", "init_mm"} |->
                IF f \in {"init_task", "init_mm"} THEN Null64 ELSE IF f \in OffsetFields THEN -1 ELSE FALSE]
\* resolve_struct
StructsNext == \/ resolve_current \/ resolve_task_offset_creds \/ resolve_task_offset_seccomp \/ resolve_task_offset_active_mm
               \/ caps \/ cap_bset \/ securebits \/ ids \/ FsId("fsuid", "fsgid") \/ FsId("fsgid", "suid")
               \/ SId("suid", "sgid") \/ SId("sgid", "cap_ambient") \/ cap_ambient \/ resolve_mm_struct_offset
---------------------------------------------------------------------------
TrueOffset(f) == IF f \in DOMAIN kern.cred THEN kern.cred[f] ELSE IF f \in DOMAIN kern.task THEN kern.task[f] ELSE -1
\* Whatever the kernel was built with, each field is where the search says, and
\* a field it says nothing of is one the kernel has not or cannot be asked for;
\* which of the two pointers to the credentials is which is left out.
OffsetsAreTrue ==
    step = "done" => \A f \in OffsetFields \ {"cred", "real_cred", "thread_size", "stack_end_offset"} :
        known[f] = IF f \in kern.hidden THEN -1 ELSE TrueOffset(f)
\* The current task, its stack and its thread_info are found, with an sp_el0
\* that names one, the other or neither, so that override_current changes what
\* the kernel takes for the current task.
CurrentIsFound ==
    step # "current" =>
        /\ known.init_task = Address(kern.init_task)
        /\ known.thread_size = kern.size /\ known.thread_info_in_task = kern.in_task
        /\ override_current("task") = "task"
\* No search makes the kernel follow a pointer it has overwritten, and at the
\* end the first task and the current task are as they were.
ProbesDoNoHarm ==
    /\ ~harmed
    /\ step = "done" => now = "init_task" /\ memory.kernel = kern.mem

\* Finding where the structures have their fields (task_cred.c) gives the true
\* places and leaves the kernel as it was.
FieldsAreFound == OffsetsAreTrue /\ CurrentIsFound /\ ProbesDoNoHarm
=============================================================================
