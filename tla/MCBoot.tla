------------------------------- MODULE MCBoot -------------------------------
(* Instances of what runs before and while the kernel starts: the tools'    *)
(* image and symbol search, start, the page tables, structure offsets.      *)
EXTENDS Boot, PageTable, Structs, Kallsym
---------------------------------------------------------------------------
(* An instance of Boot: pages of 4 cells and a kernel of ten words, with    *)
(* pointer authentication, a short branch or a page table check in various  *)
(* places; three extra items.  The tool runs before the image starts.         *)
Words(s) == [i \in DOMAIN s |-> W(s[i])]
MCKernels ==
    {[words |-> Words(<<"h", "k", "l", "pac", "m", "aut", "pi", "pac", "k", "aut">>), size |-> 15, version |-> <<6, 7, 0>>, lacks |-> {"vmalloc", "strncpy_from_user", "seq_buf_to_user", "find_get_task_by_vpid"}],
     [words |-> Words(<<"h", "k", "l", "k", "m", "k", "pi", "b2", "k", "n">>), size |-> 37, version |-> <<6, 12, 3>>, lacks |-> {"strncpy_from_user_nofault", "bits_to_user"}],
     [words |-> Words(<<"h", "k", "pac", "pac", "aut", "pi", "k", "o", "k">>), size |-> 9, version |-> <<5, 15, 0>>, lacks |-> {"vmalloc_noprof", "strncpy_from_unsafe_user", "strncpy_from_user_nofault", "seq_buf_to_user", "bits_to_user"}]}
MCKpimg == Words(<<"s1", "s2", "m1", "m2", "p1", "p2", "p3">>)
MCPaths == {[type |-> "kpm", name |-> "a", event |-> "", con |-> Words(<<"a1">>)],
            [type |-> "kpm", name |-> "c", event |-> "post-kernel-init", con |-> Words(<<"a1">>)],
            [type |-> "shell", name |-> "b", event |-> "pre-kernel-init", con |-> Words(<<"b1", "b2", "b3">>)]}

\* kernel text at physical pages 0 to 3: a block; a contiguous pair and a page;
\* or pages with attributes of their own
PageEntry(pa, prot, attr) == [bits |-> 3, pa |-> pa, prot |-> prot, attr |-> attr]
TableEntry(pa) == PageEntry(pa, {}, 0)
Tables(lv2, lv3) == [p \in 0 .. 19 |->
    IF p = 16 THEN [EmptyTable EXCEPT ![2] = TableEntry(17)]
    ELSE IF p = 17 THEN [EmptyTable EXCEPT ![0] = lv2]
    ELSE IF p = 18 THEN lv3 ELSE None]
TextProt == {"UXN", "AF", "SHARED", "RDONLY"}
MCTables ==
    {Tables([bits |-> 1, pa |-> 0, prot |-> TextProt, attr |-> 4], None),
     Tables(TableEntry(18), [EmptyTable EXCEPT ![0] = PageEntry(0, TextProt \cup {"CONT"}, 4),
                ![1] = PageEntry(1, TextProt \cup {"CONT"}, 4), ![2] = PageEntry(2, TextProt \cup {"GP"}, 4)]),
     Tables(TableEntry(18), [i \in 0 .. 3 |-> PageEntry(i, IF i < 2 THEN TextProt ELSE {"UXN", "AF", "DBM", "PXN"},
                                                        IF i < 2 THEN 0 ELSE 4)])}
MCParts == [text |-> 2, data |-> 1, extra |-> 1, hook |-> 1, rw |-> 1, rox |-> 1]

StartNext == BootNext \/ (phase = "off" /\ KernelImageNext /\ UNCHANGED bvars)
---------------------------------------------------------------------------
(* Kernels for Structs: thread_info in the task or at the end of the stack, *)
(* stacks of three sizes, symbols there or not, and struct cred with and    *)
(* without what its options add; and images for Kallsym.                    *)
MCFull == <<65535, 63>>
Region(n, parts) == [p \in 0 .. n - 1 |->
    LET s == {q \in parts : p - q[1] \in 0 .. Len(q[2]) - 1} IN
    IF s = {} THEN 0 ELSE LET q == CHOOSE q \in s : TRUE IN q[2][p - q[1] + 1]]
Ids == <<"uid", "gid", "suid", "sgid", "euid", "egid", "fsuid", "fsgid", "securebits">>
CredFields(debug, ambient, pad) ==
    <<<<"usage", <<4>>>>>>
    \o (IF debug THEN <<<<"subscribers", <<2>>>>, <<"put_addr", <<0, 0>>>>, <<"magic", <<5>>>>>> ELSE <<>>)
    \o [i \in 1 .. 9 |-> <<Ids[i], <<0>>>>] \o (IF pad THEN <<<<"pad", <<0>>>>>> ELSE <<>>)
    \o <<<<"cap_inheritable", <<0, 0>>>>, <<"cap_permitted", MCFull>>, <<"cap_effective", MCFull>>, <<"cap_bset", MCFull>>>>
    \o (IF ambient THEN <<<<"cap_ambient", <<0, 0>>>>>> ELSE <<>>)
    \o <<<<"session_keyring", <<0, 0>>>>, <<"security", Address(20)>>, <<"user", Address(24)>>,
         <<"user_ns", Address(28)>>, <<"group_info", Address(32)>>, <<"rcu", <<0, 0>>>>>>
CellsOf(fields) == FlattenSeq([i \in DOMAIN fields |-> fields[i][2]])
OffsetsOf(fields) == [f \in {fields[i][1] : i \in DOMAIN fields} |->
    LET i == CHOOSE i \in DOMAIN fields : fields[i][1] = f IN Len(CellsOf(SubSeq(fields, 1, i - 1)))]
\* the first task after its thread_info, if that is in it
TaskFields(inTask, stack) ==
    (IF inTask THEN <<<<"thread_info", <<0, 9, 0, 0>>>>>> ELSE <<>>)
    \o <<<<"state", <<0, 0>>>>, <<"stack", Address(stack)>>, <<"usage", <<2, 77>>>>, <<"mm", <<0, 0>>>>,
         <<"active_mm", Address(210)>>, <<"pid", <<0, 0>>>>, <<"ptracer_cred", <<0, 0>>>>, <<"real_cred", Address(180)>>,
         <<"cred", Address(180)>>, <<"comm", <<Swapper, 0>>>>, <<"seccomp", <<0>>>>, <<"filter", <<0, 0, 0>>>>,
         <<"task_security", Address(40)>>>>
Kern(el0, size, symbols, place, fields) ==
    LET stack == 128 - size
        inTask == el0 = "task"
        task == TaskFields(inTask, stack)
        info == IF inTask THEN <<STACK_END_MAGIC, 0>> ELSE <<1, 0>> \o Address(44) \o Address(place) \o <<0, 0, STACK_END_MAGIC, 0>> IN
    [sp_el0 |-> el0, size |-> size, symbols |-> symbols, init_task |-> place, stack |-> stack, sp |-> 126, in_task |-> inTask,
     task_in_info |-> 4, init_mm |-> 210, pgd |-> 48, user_ns |-> 28, full |-> MCFull,
     task |-> [f \in {task[i][1] : i \in DOMAIN task} \cup (IF inTask THEN {} ELSE {"task_in_thread_info"}) \cup {"pgd"} |->
               IF f = "task_in_thread_info" THEN 4 ELSE IF f = "pgd" THEN 6 ELSE OffsetsOf(task)[f]],
     cred |-> OffsetsOf(fields), creds |-> Region(CRED_MAX_SIZE, {<<0, CellsOf(fields)>>}),
     hidden |-> (IF "init_mm" \in symbols THEN {} ELSE {"active_mm", "pgd"})
                \cup (IF "prctl_get_seccomp" \in symbols THEN {} ELSE {"seccomp"}),
     mem |-> Region(230, {<<stack, info>>, <<place, CellsOf(task)>>, <<216, Address(48)>>})]
MCSKernels ==
    {Kern(e, size, symbols, place, CredFields(debug, ambient, debug)) :
        e \in {"task", "info", "user"}, size \in {16, 32, 64}, place \in {132, 136},
        symbols \in {{}, {"init_task", "init_thread_union", "init_mm", "prctl_get_seccomp"}, {"init_thread_union", "init_mm"}},
        debug \in BOOLEAN, ambient \in BOOLEAN}
MCThreadSizes == <<16, 32, 64>>

\* A kernel's symbols, each a place and the tokens of its type and name; two of
\* them at the start, one with a name longer than Wide
MCTokens == <<<<9, 5>>, <<5, 6>>, <<2>>, <<3>>, <<9, 6, 5>>, <<5>>, <<6>>, <<2, 3>>>>
NameOf(tokens) == Tail(FlattenSeq([i \in DOMAIN tokens |-> MCTokens[tokens[i] + 1]]))
Sym(offset, tokens) == [offset |-> offset, tokens |-> tokens]
MCVectors == NameOf(<<0, 1, 2>>)
MCPidVnr == NameOf(<<4, 3, 3>>)
MCBanner == NameOf(<<0, 6, 6>>)
SymbolList(all, extra) ==
    <<Sym(0, <<0>>), Sym(0, <<4, 5>>), Sym(3, <<0, 2, 2, 3, 7>>), Sym(8, <<0, 1, 2>>), Sym(12, <<4, 3, 3>>),
      Sym(17, <<0, 7>>), Sym(20, <<4, 7, 7>>)>>
    \o (IF all THEN <<Sym(24, <<0, 6, 6>>)>> ELSE <<Sym(23, <<0, 3, 4>>)>>)
    \o (IF extra THEN <<Sym(28, <<4>>), Sym(29, <<0, 3, 0>>)>> ELSE <<Sym(28, <<4, 3>>)>>)
\* 9 is the character before a suffix: one function of four is there only as
\* a clone, one is absent, one at 0, others depend on the options
MCNameIn ==
    [f \in {"memblock_reserve", "__cfi_slowpath", "printk", "kallsyms_lookup_name"} |-> <<5, 2, 3>>]
    @@ [f \in {"memblock_free", "report_cfi_failure"} |-> <<6, 5, 2, 3, 2, 3>>]
    @@ [f \in {"memblock_mark_nomap", "_printk"} |-> <<5>>]
    @@ [f \in {"memblock_phys_alloc_try_nid", "slow_avc_audit"} |-> MCBanner]
    @@ [f \in {"memblock_virt_alloc_try_nid", "cgroup_post_fork", "__cfi_slowpath_diag"} |-> <<6, 5>>]
    @@ [f \in {"memblock_alloc_try_nid", "avc_denied"} |-> MCPidVnr]
    @@ [f \in {"rest_init", "panic"} |-> <<5, 3>>]
    @@ [f \in {"cgroup_init", "kernel_init", "copy_process"} |-> <<6, 5, 3>>]
    @@ [f \in {"input_handle_event"} |-> <<3>>]
MCCfi == <<9, 6, 5>>
Pad(s) == IF Len(s) % 2 = 0 THEN s ELSE Append(s, 0)
Rep(n, c) == [i \in 1 .. n |-> c]
NameCells(tokens) == LET n == Len(tokens) IN
    (IF n > Wide THEN <<(n % (Wide + 1)) + Wide + 1, n \div (Wide + 1)>> ELSE <<n>>) \o tokens
\* wide: 8-byte markers, as before 4.20 unless backported; relo: "none", "applied", "needed" or "wrong", with an entry beyond the image
Build(v, wide, relative, relo, all, extra, zeros, base) ==
    LET list == SymbolList(all, extra)
        n == Len(list)
        version == 600 + 32 * v[1] + v[2]
        text == [i \in 1 .. 30 |-> IF i = 15 THEN SpEl0 ELSE IF i \in {25} \cup (IF extra THEN {22} ELSE {}) THEN Banner
                                  ELSE IF i = 26 \/ (extra /\ i = 23) THEN version ELSE IF i % 2 = 0 THEN 5 ELSE 3]
        addr(a) == <<a + base, Hi>>
        table == text \o Rep(2 * zeros, 0)
        entries == IF relative THEN [i \in 1 .. n |-> list[i].offset] \o <<0>> \o addr(0)
                   ELSE FlattenSeq([i \in 1 .. n |-> IF relo = "needed" THEN <<0, 0>> ELSE addr(list[i].offset)])
        names == FlattenSeq([i \in 1 .. n |-> NameCells(list[i].tokens)])
        mark(i) == Len(FlattenSeq([j \in 1 .. PerMarker * i |-> NameCells(list[j].tokens)]))
        markers == FlattenSeq([i \in 1 .. (n + PerMarker - 1) \div PerMarker |->
                               IF wide THEN <<mark(i - 1), 0>> ELSE <<mark(i - 1)>>])
        head_ == Pad(Pad(table \o entries) \o <<n, 0>> \o names) \o Pad(markers \o <<0, 0>>)
        tokens == FlattenSeq([i \in 1 .. T |-> Append(MCTokens[i], 0)])
        off(i) == Len(FlattenSeq([j \in 1 .. i |-> Append(MCTokens[j], 0)]))
        index == [i \in 1 .. T \div 2 |-> off(2 * i - 2) + Unit * off(2 * i - 1)]
        \* the entry of the table of addresses has the place of its own address
        rela(i) == addr(Len(table) + 2 * (i - 1)) \o <<403, 0>> \o addr(list[i].offset)
        all_ == Pad(head_ \o tokens \o <<0>> \o index)
        size == Len(all_) + 6 * n + 6
        img == all_ \o (IF relo = "none" THEN <<>> ELSE FlattenSeq([i \in 1 .. n |-> rela(i)]))
                    \o (IF relo = "wrong" THEN addr(size + 12) \o <<403, 0>> \o addr(0) ELSE <<>>) \o Rep(8, 0)
    IN [img |-> [p \in 0 .. Len(img) - 1 |-> img[p + 1]], len |-> Len(img),
        symbols |-> {[name |-> NameOf(list[i].tokens), offset |-> list[i].offset] : i \in 1 .. n}]
MCVersions == {<<<<4, 4>>, TRUE>>, <<<<4, 9>>, TRUE>>, <<<<4, 9>>, FALSE>>, <<<<5, 10>>, FALSE>>}
MCImages ==
    {Build(v[1], v[2], TRUE, "none", all, extra, zeros, 8) :
        v \in MCVersions \ {<<<<4, 4>>, TRUE>>, <<<<4, 9>>, FALSE>>}, all \in BOOLEAN, extra \in BOOLEAN, zeros \in {0, 1}}
    \cup {Build(v[1], v[2], FALSE, relo, all, extra, 1, base) : v \in MCVersions, all \in BOOLEAN, extra \in BOOLEAN,
                                       relo \in {"none", "applied", "needed", "wrong"}, base \in {8, 16}}
=============================================================================
