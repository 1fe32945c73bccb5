---------------------------- MODULE ModuleLayout ----------------------------
(***************************************************************************)
(* How load_module turns the sections of a module's file into a module:    *)
(* module.c up to the relocations, which are ElfRelocate.  The headers are *)
(* changed in place, in the caller's image, and the image may be loaded    *)
(* again from there (a module embedded in the kernel is).  Sizes are       *)
(* integers: mod->size is 32 bits wide and would wrap at 4 GiB.            *)
(***************************************************************************)
EXTENDS SequencesExt, FiniteSetsExt, FiniteSets, Integers

CONSTANTS
    Images,        \* The files: their sections, symbols and defects.
    KernelSymbols, \* What symbol_lookup_name finds.
    PageSize,
    SymSize,       \* sizeof(Elf_Sym)
    MaxLoads       \* Bound: loads of one image.

\* ALIGN masks bits off: alignments are powers of two.
PowerOfTwo(a) == \E e \in 0 .. 30 : a = 2 ^ e
ASSUME LayoutAssumption == PageSize \in Nat \ {0} /\ PowerOfTwo(PageSize) /\ SymSize \in Nat \ {0} /\ MaxLoads \in Nat

SHN_UNDEF == 0
SHN_ABS == 65521
SHN_COMMON == 65522
\* A file with its sections, fewer than the reserved numbers, and symbols; a
\* symbol table names another section as the one of its strings.
IsImage(f) ==
    /\ DOMAIN f = {"secs", "len", "syms", "info", "magic", "tableFits"}
    /\ IsFiniteSet(DOMAIN f.secs) /\ DOMAIN f.secs = 1 .. Cardinality(DOMAIN f.secs)
    /\ Cardinality(DOMAIN f.secs) < SHN_ABS
    /\ \A i \in DOMAIN f.secs :
        /\ DOMAIN f.secs[i] = {"name", "type", "flags", "size", "align", "link", "offset", "addr", "entsize"}
        /\ f.secs[i].size \in Nat /\ f.secs[i].align \in Nat /\ (f.secs[i].align = 0 \/ PowerOfTwo(f.secs[i].align))
        /\ f.secs[i].type = "symtab" => f.secs[i].link \in DOMAIN f.secs \ {i}
    /\ Len(f.syms) \in Nat /\ DOMAIN f.syms = 1 .. Len(f.syms) /\ \A k \in DOMAIN f.syms : f.syms[k].len \in Nat
ASSUME ImagesAssumption == \A f \in Images : IsImage(f)

VARIABLES
    image,   \* The file, its section headers and its symbols as they are.
    stage,   \* What load_module does next, "loaded" or "refused".
    mod,     \* The module.
    loads

layoutVars == <<image, stage, mod, loads>>

Secs == DOMAIN image.secs
Sec(i) == image.secs[i]
Alloc(s) == "alloc" \in s.flags
Unset == -1
e_shnum == Cardinality(Secs)
AlignUp(n, a) == ((n + a - 1) \div a) * a
\* The first section that is allocated and has the name; 0 for none.
find_sec(name) ==
    LET found == {i \in Secs : Alloc(Sec(i)) /\ Sec(i).name = name}
    IN  IF found = {} THEN 0 ELSE Min(found)
SymTab == LET found == {i \in Secs : Sec(i).type = "symtab"} IN IF found = {} THEN 0 ELSE Min(found)
StrTab == Sec(SymTab).link
\* The place of a string of .kpm.info: the first with the tag.
get_modinfo(tag) ==
    LET found == {k \in DOMAIN image.info : image.info[k] = tag}
    IN  IF found = {} THEN 0 ELSE Min(found)

-----------------------------------------------------------------------------
(* The steps of load_module *)

Becomes(st) == stage' = st
elf_header_check ==
    /\ stage = "check"
    /\ Becomes(IF image.magic /\ image.tableFits THEN "setup" ELSE "refused")
    /\ UNCHANGED <<image, mod, loads>>

\* The headers get their address in the file; every section must be in it.
rewrite_section_headers ==
    [i \in Secs |-> [Sec(i) EXCEPT !.addr = <<"file", Sec(i).offset>>]]
InFile(s) == s.type = "nobits" \/ s.offset + s.size <= image.len
setup_load_info ==
    /\ stage = "setup"
    /\ IF /\ \A i \in Secs : InFile(Sec(i))
          /\ \A name \in {".kpm.init", ".kpm.exit", ".kpm.info"} : find_sec(name) # 0
          /\ get_modinfo("name") # 0 /\ get_modinfo("version") # 0
          /\ SymTab # 0
       THEN /\ image' = [image EXCEPT !.secs = rewrite_section_headers]
            /\ mod' = [mod EXCEPT !.info = <<"file", Sec(find_sec(".kpm.info")).offset>>]
            /\ Becomes("layout")
       ELSE Becomes("refused") /\ UNCHANGED <<image, mod>>
    /\ UNCHANGED loads

\* Where a section goes when the module has this size so far.
MutantOffset(size, s) == size
get_offset(size, s) == AlignUp(size, IF s.align = 0 THEN 1 ELSE s.align)
Placed(lay, i) ==
    LET at == get_offset(lay.size, Sec(i))
    IN  [lay EXCEPT !.size = at + Sec(i).size, !.ent[i] = at]
Masks == <<[with |-> {"exec", "alloc"}, without |-> {}], [with |-> {"alloc"}, without |-> {"write"}],
           [with |-> {"write", "alloc"}, without |-> {}], [with |-> {"alloc"}, without |-> {}]>>
\* Those of one kind that have no place yet get one in a pass over the
\* sections, in their order.
Due(lay, i, m) ==
    Masks[m].with \subseteq Sec(i).flags /\ Masks[m].without \cap Sec(i).flags = {} /\ lay.ent[i] = Unset
Pass(lay, m) ==
    LET upto[i \in 0 .. e_shnum] ==
          IF i = 0 THEN lay ELSE IF Due(upto[i - 1], i, m) THEN Placed(upto[i - 1], i) ELSE upto[i - 1]
    IN  upto[e_shnum]
Paged(lay) == [lay EXCEPT !.size = AlignUp(lay.size, PageSize)]
layout_sections ==
    LET text == Paged(Pass([size |-> 0, ent |-> [i \in Secs |-> Unset]], 1))
        ro == Paged(Pass(text, 2))
        all == Paged(Pass(Pass(ro, 3), 4))
    IN  /\ stage = "layout"
        /\ mod' = [mod EXCEPT !.size = all.size, !.text_size = text.size, !.ro_size = ro.size]
        /\ image' = [image EXCEPT !.secs = [i \in Secs |-> [Sec(i) EXCEPT !.entsize = all.ent[i]]]]
        /\ Becomes("symtab") /\ UNCHANGED loads

is_core_symbol(y) ==
    /\ y.shndx \in Secs /\ y.name # ""
    /\ {"alloc", "exec"} \subseteq Sec(y.shndx).flags
core_symbols == {k \in DOMAIN image.syms : k = 1 \/ is_core_symbol(image.syms[k])}
\* Room for their names, each with its zero, after the empty one.
core_strings ==
    LET strtab_size[k \in 0 .. Len(image.syms)] ==
            IF k = 0 THEN 1
            ELSE IF k \in core_symbols THEN strtab_size[k - 1] + image.syms[k].len + 1 ELSE strtab_size[k - 1]
    IN  strtab_size[Len(image.syms)]
AtPlace(s, at) == [s EXCEPT !.flags = @ \cup {"alloc"}, !.entsize = at]
\* The symbols and their names at the end of the module, and between them
\* room for those of functions.
layout_symtab ==
    LET sym == SymTab
        str == StrTab
        symAt == get_offset(mod.size, Sec(sym))
        symoffs == get_offset(symAt + Sec(sym).size, Sec(sym))
        stroffs == symoffs + Cardinality(core_symbols) * SymSize
        strAt == get_offset(stroffs + core_strings, Sec(str))
    IN  /\ stage = "symtab"
        /\ image' = [image EXCEPT !.secs =
                        [@ EXCEPT ![sym] = AtPlace(Sec(sym), symAt), ![str] = AtPlace(Sec(str), strAt)]]
        /\ mod' = [mod EXCEPT !.size = strAt + Sec(str).size, !.core = <<symoffs, stroffs + core_strings>>]
        /\ Becomes("move") /\ UNCHANGED loads

\* The memory, if there is any; the sections are copied, their headers point
\* to the copies, and so do the module's entry points and strings.
Copied == [i \in Secs |-> IF Alloc(Sec(i)) THEN [Sec(i) EXCEPT !.addr = <<"module", Sec(i).entsize>>] ELSE Sec(i)]
EntryOf(i) == IF i = 0 THEN Unset ELSE Sec(i).entsize
ctl0_sec ==
    LET found == {i \in Secs : Alloc(Sec(i)) /\ Sec(i).name = ".kpm.ctl0"}
    IN  IF found = {} THEN 0 ELSE Max(found)
move_module ==
    /\ stage = "move"
    /\ \/ Becomes("refused") /\ UNCHANGED <<image, mod>>
       \/ /\ Becomes("simplify")
          /\ image' = [image EXCEPT !.secs = Copied]
          /\ mod' = [mod EXCEPT !.init = EntryOf(find_sec(".kpm.init")),
                                !.exit = EntryOf(find_sec(".kpm.exit")), !.ctl0 = EntryOf(ctl0_sec),
                                !.info = <<"module", EntryOf(find_sec(".kpm.info"))>>,
                                !.copies = {[sec |-> i, from |-> Sec(i).addr, at |-> Sec(i).entsize] :
                                                i \in {i \in Secs : Alloc(Sec(i)) /\ Sec(i).type # "nobits"}}]
    /\ UNCHANGED loads

Simplified(y) ==
    CASE y.shndx \in {SHN_ABS, SHN_COMMON} -> <<"abs", y.value>>
      [] y.shndx = SHN_UNDEF -> <<"kernel", y.value>>
      [] OTHER -> <<Sec(y.shndx).addr[1], Sec(y.shndx).addr[2] + y.value>>
\* The symbols in the module's copy get their addresses.
simplify_symbols ==
    LET all == 2..Len(image.syms)
        bad == \E k \in all : \/ image.syms[k].shndx = SHN_COMMON /\ image.syms[k].lto
                              \/ image.syms[k].shndx = SHN_UNDEF /\ image.syms[k].name \notin KernelSymbols
    IN  /\ stage = "simplify"
        /\ mod' = [mod EXCEPT !.syms = [k \in all |-> Simplified(image.syms[k])]]
        /\ Becomes(IF bad THEN "refused" ELSE "loaded")
        /\ UNCHANGED <<image, loads>>

NoModule == [size |-> 0, text_size |-> 0, ro_size |-> 0, core |-> <<0, 0>>, init |-> Unset, exit |-> Unset,
             ctl0 |-> Unset, info |-> <<"file", 0>>, copies |-> {}, syms |-> << >>]
\* The module is gone, and its image is loaded once more.
LoadAgain ==
    /\ stage \in {"loaded", "refused"} /\ loads < MaxLoads
    /\ Becomes("check") /\ mod' = NoModule /\ loads' = loads + 1
    /\ UNCHANGED image

LayoutInit == image \in Images /\ stage = "check" /\ mod = NoModule /\ loads = 1
LayoutNext ==
    \/ elf_header_check \/ setup_load_info \/ layout_sections \/ layout_symtab
    \/ move_module \/ simplify_symbols \/ LoadAgain
LayoutSpec == LayoutInit /\ [][LayoutNext]_layoutVars

-----------------------------------------------------------------------------
(* Properties *)

Extent(i) == Sec(i).entsize .. Sec(i).entsize + Sec(i).size - 1
Kept == {i \in Secs : Alloc(Sec(i))}
Tables == {SymTab, StrTab}
\* What a module must be, or it is no module: the defects of a file.
Defective ==
    \/ ~image.magic \/ ~image.tableFits \/ SymTab = 0 \/ \E i \in Secs : ~InFile(Sec(i))
    \/ \E name \in {".kpm.init", ".kpm.exit", ".kpm.info"} : find_sec(name) = 0
    \/ {"name", "version"} \ ToSet(image.info) # {}
    \/ \E k \in 2..Len(image.syms) : \/ image.syms[k].shndx = SHN_UNDEF /\ image.syms[k].name \notin KernelSymbols
                                     \/ image.syms[k].shndx = SHN_COMMON /\ image.syms[k].lto
Apart == \A i, j \in Kept : i # j => Extent(i) \cap Extent(j) = {}
\* The first time and every other time an image is loaded, its sections are
\* side by side in the module, aligned, code before the rest and what is
\* not written before what is; the entry points, the strings and the
\* symbols are the ones of the copies; a file with a defect is refused.
ModuleIsWhole ==
    stage = "loaded" =>
        /\ ~Defective
        /\ Apart
        /\ \A i \in Kept :
            /\ Extent(i) \subseteq 0..mod.size - 1
            /\ Sec(i).align > 1 => Sec(i).entsize % Sec(i).align = 0
            /\ Extent(i) \cap mod.core[1]..mod.core[2] - 1 = {}
            /\ Sec(i).type # "nobits" =>
                \E c \in mod.copies : c.sec = i /\ c.from = <<"file", Sec(i).offset>> /\ c.at = Sec(i).entsize
        /\ \A i \in Kept \ Tables : Sec(i).size > 0 =>
            /\ "exec" \in Sec(i).flags <=> Sec(i).entsize < mod.text_size
            /\ "write" \notin Sec(i).flags => Sec(i).entsize + Sec(i).size <= mod.ro_size
            /\ Sec(i).flags = {"alloc", "write"} => Sec(i).entsize >= mod.ro_size
        /\ mod.init = Sec(find_sec(".kpm.init")).entsize /\ mod.exit = Sec(find_sec(".kpm.exit")).entsize
        /\ mod.info = <<"module", Sec(find_sec(".kpm.info")).entsize>>
        /\ \A k \in DOMAIN mod.syms :
            LET y == image.syms[k]
            IN  /\ y.shndx \in Secs /\ y.shndx \in Kept => mod.syms[k] = <<"module", Sec(y.shndx).entsize + y.value>>
                /\ y.shndx = SHN_UNDEF => y.name \in KernelSymbols
=============================================================================
