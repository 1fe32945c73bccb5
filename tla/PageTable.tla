----------------------------- MODULE PageTable ------------------------------
(* The kernel's page tables as KernelPatch changes them (src/kernel/base/   *)
(* map.c, start.c, hook.c): the program's memory is mapped, its parts are   *)
(* protected, and a page of code is writable while a hook is written.       *)
(* Addresses are pages; a table is a physical page, reached through the     *)
(* linear map.                                                              *)
EXTENDS Integers, FiniteSets, Sequences, SequencesExt

CONSTANTS PxdBits, Levels,  \* page_shift - 3, and page_level
          PhysPages,        \* physical pages 0 .. PhysPages - 1
          KernelTables,     \* the tables the kernel has made: page -> entries
          Pgd,              \* the page of the root
          VOffset,          \* kimage_voffset, in pages
          TextVa,           \* a page of kernel text
          Parts,            \* pages of text, data, extra, hook, rw and rox
          WithVmalloc,      \* has_vmalloc_area() may be
          CONT_PTES, MaxWrites

ASSUME PageTableAssumption ==
    /\ PxdBits \in Nat \ {0} /\ Levels \in 1 .. 4 /\ PhysPages \in Nat /\ CONT_PTES \in Nat \ {0}
    /\ Pgd \in 0 .. PhysPages - 1

VARIABLES tables,       \* the tables
          used,         \* physical pages taken
          region,       \* first physical page of the program, or -1
          vmalloc,      \* has_vmalloc_area()
          tphase,       \* "start", "mapped", "ready"
          writing,      \* the page being written and its old entry, or none
          tlb,          \* a translation the hardware holds, or none
          former,       \* the tables as the last change found them
          writes

tvars == <<tables, used, region, vmalloc, tphase, writing, tlb, former, writes>>

pxd_ptrs == 2 ^ PxdBits
VaPages == 0 .. 2 ^ (PxdBits * Levels) - 1
None == <<>>
Zeroed == [bits |-> 0, pa |-> 0, prot |-> {}, attr |-> 0]
EmptyTable == [i \in 0 .. pxd_ptrs - 1 |-> Zeroed]
FirstLevel == 4 - Levels
pxd_index(va, lv) == (va \div 2 ^ (PxdBits * (3 - lv))) % pxd_ptrs
BlockPages(lv) == 2 ^ (PxdBits * (3 - lv))
---------------------------------------------------------------------------
(* The hardware                                                            *)
\* what va translates to: the entry's place, the page and the protection
HwWalk(t, va) ==
    LET Step(s, lv) ==
          IF s.done THEN s
          ELSE LET d == t[s.page][pxd_index(va, lv)] IN
               [page |-> d.pa, done |-> d.bits # 3 \/ lv = 3,
                at |-> <<s.page, pxd_index(va, lv)>>, desc |-> d,
                pa |-> IF d.bits = 3 /\ lv = 3 THEN d.pa
                       ELSE IF d.bits = 1 /\ lv < 3 THEN d.pa + (va % BlockPages(lv)) ELSE -1]
        s == FoldLeft(Step, [page |-> Pgd, done |-> FALSE, at |-> <<Pgd, 0>>, desc |-> Zeroed, pa |-> -1],
                      [i \in 1 .. Levels |-> FirstLevel + i - 1]) IN
    [at |-> s.at, desc |-> s.desc, pa |-> s.pa]
Mapped(t) == {va \in VaPages : HwWalk(t, va).pa # -1}
\* the pages one entry of the TLB stands for
SameEntry(t, va) == LET w == HwWalk(t, va) IN
    {v \in Mapped(t) : \/ HwWalk(t, v).at = w.at
                       \/ /\ "CONT" \in w.desc.prot /\ HwWalk(t, v).at[1] = w.at[1]
                          /\ HwWalk(t, v).at[2] \div CONT_PTES = w.at[2] \div CONT_PTES}
TlbFill == /\ tlb = None
           /\ \E va \in Mapped(tables) :
                 \* that a group is contiguous is a hint only
                 \E vas \in {SameEntry(tables, va), {v \in Mapped(tables) : HwWalk(tables, v).at = HwWalk(tables, va).at}} :
                     tlb' = <<[vas |-> vas, prot |-> HwWalk(tables, va).desc.prot]>>
           /\ UNCHANGED <<tables, used, region, vmalloc, tphase, writing, former, writes>>
\* flush_tlb_kernel_page, flush_tlb_kernel_range
Flushed(vas) == IF tlb # None /\ tlb[1].vas \cap vas # {} THEN None ELSE tlb
---------------------------------------------------------------------------
(* map.c                                                                   *)
\* memblock_phys_alloc
FreePage(taken) == CHOOSE p \in 0 .. PhysPages - 1 : p \notin taken /\ \A q \in 0 .. p - 1 : q \in taken
AttrProt == {"UXN", "AF", "SHARED"}         \* 0x40000000000703

\* the entry of va, made with the tables above it when it is not there
get_or_create_pte(s0, va, pa, attr_indx) ==
    LET Step(s, lv) ==
          LET at == <<s.page, pxd_index(va, lv)>>
              d == s.t[at[1]][at[2]]
              new == IF lv # 3 THEN FreePage(s.taken) ELSE pa
              made == [s.t EXCEPT ![at[1]][at[2]] = [bits |-> 3, pa |-> new, prot |-> AttrProt, attr |-> attr_indx]] IN
          IF s.block THEN s
          ELSE IF d.bits = 3 THEN [s EXCEPT !.page = d.pa, !.at = at]
          ELSE IF d.bits = 1 THEN [s EXCEPT !.block = TRUE, !.at = at]
          ELSE [t |-> IF lv # 3 THEN [made EXCEPT ![new] = EmptyTable] ELSE made,
                taken |-> s.taken \cup {new}, page |-> new, block |-> FALSE, at |-> at] IN
    FoldLeft(Step, [t |-> s0.t, taken |-> s0.taken, page |-> Pgd, block |-> FALSE, at |-> <<Pgd, 0>>],
             [i \in 1 .. Levels |-> FirstLevel + i - 1])

PartOrder == <<"text", "data", "extra", "hook", "rw", "rox">>
PagesOf(part) == LET i == CHOOSE j \in 1 .. 6 : PartOrder[j] = part
                     first == FoldLeft(LAMBDA n, p : n + Parts[p], 0, SubSeq(PartOrder, 1, i - 1)) IN
                 first .. first + Parts[part] - 1
AllPages == FoldLeft(LAMBDA n, p : n + Parts[p], 0, PartOrder)

\* _paging_init: each page of the new memory gets an entry, with the text's
\* memory attributes, writable and executable
MapRegion ==
    /\ tphase = "start"
    /\ \E start_pa \in 0 .. PhysPages - AllPages :
          /\ \A i \in 0 .. AllPages - 1 : start_pa + i \notin used /\ start_pa + i + VOffset \notin Mapped(tables)
          /\ start_pa + VOffset + AllPages - 1 \in VaPages
          /\ LET taken == used \cup start_pa .. start_pa + AllPages - 1
                 text == get_or_create_pte([t |-> tables, taken |-> taken], TextVa, 0, 0)
                 attr == text.t[text.at[1]][text.at[2]].attr
                 One(s, i) == LET e == get_or_create_pte(s, start_pa + i + VOffset, start_pa + i, attr) IN
                     [t |-> [e.t EXCEPT ![e.at[1]][e.at[2]].prot = (@ \cup {"DBM"}) \ {"PXN", "RDONLY"}],
                      taken |-> e.taken]
                 s == FoldLeft(One, [t |-> text.t, taken |-> text.taken], [i \in 1 .. AllPages |-> i - 1]) IN
             tables' = s.t /\ used' = s.taken
          /\ region' = start_pa
    /\ tlb' = None                          \* flush_tlb_all
    /\ tphase' = "mapped" /\ former' = tables
    /\ UNCHANGED <<vmalloc, writing, writes>>
---------------------------------------------------------------------------
(* start.c                                                                 *)
\* pgtable_entry: where the entry of va is, None when it has none
pgtable_entry(va) ==
    LET Step(s, lv) ==
          LET at == <<s.page, pxd_index(va, lv)>>
              d == tables[at[1]][at[2]] IN
          IF s.stop THEN s
          ELSE IF d.bits = 3 THEN [s EXCEPT !.page = d.pa, !.at = at]
          ELSE [s EXCEPT !.stop = TRUE, !.at = IF d.bits = 1 THEN at ELSE None] IN
    FoldLeft(Step, [page |-> Pgd, stop |-> FALSE, at |-> None], [i \in 1 .. Levels |-> FirstLevel + i - 1]).at

pte_valid_cont(d) == d.bits = 3 /\ "CONT" \in d.prot
MutantModified(va, at, value) ==
    IF ~pte_valid_cont(tables[at[1]][at[2]]) /\ ~pte_valid_cont(value)
    THEN [t |-> [tables EXCEPT ![at[1]][at[2]] = value], flush |-> {va}]
    ELSE LET first == (at[2] \div CONT_PTES) * CONT_PTES
             group == first .. first + CONT_PTES - 1 IN
         [t |-> [tables EXCEPT ![at[1]] = [i \in DOMAIN @ |->
                    IF i = at[2] THEN value
                    ELSE IF i \in group THEN [value EXCEPT !.pa = tables[at[1]][i].pa] ELSE @[i]]],
          flush |-> {va}]
\* modify_entry_kernel: of a contiguous group, all entries get the protection;
\* and what is taken out of the TLB
Modified(va, at, value) ==
    IF ~pte_valid_cont(tables[at[1]][at[2]]) /\ ~pte_valid_cont(value)
    THEN [t |-> [tables EXCEPT ![at[1]][at[2]] = value], flush |-> {va}]
    ELSE LET first == (at[2] \div CONT_PTES) * CONT_PTES
             group == first .. first + CONT_PTES - 1
             start == (va \div CONT_PTES) * CONT_PTES IN
         [t |-> [tables EXCEPT ![at[1]] = [i \in DOMAIN @ |->
                    IF i = at[2] THEN value
                    ELSE IF i \in group THEN [value EXCEPT !.pa = tables[at[1]][i].pa] ELSE @[i]]],
          flush |-> start .. start + CONT_PTES - 1]
modify_entry_kernel(va, at, value) ==
    LET m == Modified(va, at, value) IN tables' = m.t /\ tlb' = Flushed(m.flush)

\* prot_myself, page by page of each part
Protect(part, prot) ==
    CASE part = "text" -> LET p == (prot \cup {"SHARED"}) \ {"PXN", "GP"} IN
                          IF vmalloc THEN (p \cup {"RDONLY"}) \ {"DBM"} ELSE p
      [] part \in {"data", "extra", "rw"} -> LET p == (prot \cup {"DBM", "SHARED"}) \ {"RDONLY"} IN
                          IF vmalloc THEN p \cup {"PXN"} ELSE p
      [] part = "hook" -> (prot \cup {"DBM", "SHARED"}) \ {"PXN", "RDONLY", "GP"}
      [] part = "rox" -> (prot \cup {"SHARED"}) \ {"PXN", "GP"}
prot_myself ==
    /\ tphase = "mapped"
    /\ LET Protected(t, i) ==
             LET at == pgtable_entry(region + i + VOffset)
                 part == CHOOSE p \in DOMAIN Parts : i \in PagesOf(p) IN
             [t EXCEPT ![at[1]][at[2]].prot = Protect(part, @)] IN
       tables' = FoldLeft(Protected, tables, [i \in 1 .. AllPages |-> i - 1])
    /\ tlb' = Flushed({region + i + VOffset : i \in 0 .. AllPages - 1})
    /\ tphase' = "ready" /\ former' = tables
    /\ UNCHANGED <<used, region, vmalloc, writing, writes>>
---------------------------------------------------------------------------
(* hook_install, hook_uninstall, fp_hook, fp_unhook: the page made writable *)
(* and, when the words are written, put back                               *)
Unprotect(va) ==
    /\ tphase = "ready" /\ writing = None /\ writes < MaxWrites
    /\ LET at == pgtable_entry(va)
           ori_prot == tables[at[1]][at[2]] IN
       /\ at # None
       /\ modify_entry_kernel(va, at, [ori_prot EXCEPT !.prot = (@ \cup {"DBM"}) \ {"RDONLY"}])
       /\ writing' = <<[va |-> va, at |-> at, ori_prot |-> ori_prot]>>
    /\ former' = tables /\ writes' = writes + 1
    /\ UNCHANGED <<used, region, vmalloc, tphase>>
Reprotect ==
    /\ writing # None
    /\ LET w == writing[1] IN modify_entry_kernel(w.va, w.at, w.ori_prot)
    /\ writing' = None
    /\ UNCHANGED <<used, region, vmalloc, tphase, former, writes>>

TableInit ==
    /\ tables \in KernelTables
    /\ used = {p \in 0 .. PhysPages - 1 : tables[p] # EmptyTable /\ tables[p] # None}
               \cup {HwWalk(tables, va).pa : va \in Mapped(tables)} \cup {Pgd}
    /\ region = -1 /\ vmalloc \in WithVmalloc /\ tphase = "start"
    /\ writing = None /\ tlb = None /\ former = tables /\ writes = 0
TableNext == \/ TlbFill \/ MapRegion \/ prot_myself \/ Reprotect
             \/ \E va \in Mapped(tables) : Unprotect(va)
---------------------------------------------------------------------------
Mine == IF region = -1 THEN {} ELSE region + VOffset .. region + VOffset + AllPages - 1

\* Mapping the program disturbs nothing: what the kernel had mapped still goes
\* where it went, the program's pages go to its memory, with the kernel text's
\* attributes, and no page is mapped besides (map.c:111-170, 206-222).
OnlyTheRegionIsAdded ==
    LET w(t, va) == HwWalk(t, va) IN
    IF tphase = "start" THEN tables = former ELSE
    /\ Mapped(tables) = Mapped(former) \cup Mine
    /\ \A va \in Mapped(former) : w(tables, va).pa = w(former, va).pa
    /\ \A va \in Mine : /\ w(tables, va).pa = va - VOffset
                        /\ w(tables, va).desc.attr = w(tables, TextVa).desc.attr

\* When no hook is being written every page has the protection it had before,
\* and while one is, the page can be written, and only pages that share its
\* entry or its contiguous group are open with it (hook.c:604-637,
\* fphook.c:220-245, start.c:177-194).
ProtectionComesBack ==
    tphase = "ready" =>
        LET prot(t, va) == HwWalk(t, va).desc.prot IN
        IF writing = None
        THEN writes > 0 => \A va \in Mapped(tables) : prot(tables, va) = prot(former, va)
        ELSE /\ "RDONLY" \notin prot(tables, writing[1].va)
             /\ \A va \in Mapped(tables) \ SameEntry(former, writing[1].va) : prot(tables, va) = prot(former, va)

\* The hardware never goes on with a protection that is no longer in the
\* tables: what is changed is taken out of the TLB, a contiguous group whole
\* (start.c:177-194, 222-300).
TlbIsFresh == tlb # None => \A va \in tlb[1].vas : HwWalk(tables, va).desc.prot = tlb[1].prot

\* The page tables (map.c, start.c, hook.c): only the program's region is added,
\* every page that is opened is closed again, and no stale protection is used.
TablesStayTrue == OnlyTheRegionIsAdded /\ ProtectionComesBack /\ TlbIsFresh
=============================================================================
