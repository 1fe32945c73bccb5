---------------------------- MODULE KernelImage -----------------------------
(* kptools: patching, unpatching and patching again a kernel image          *)
(* (src/tools/patch.c, image.c, symbol.c, common.c).  An image is a         *)
(* sequence of cells: words of the kernel, then, from the next page on, the *)
(* cells of kpimg and those of the extra items.  A cell is a tuple.         *)
EXTENDS Integers, Sequences, FiniteSets, SequencesExt

CONSTANTS Page, Align,          \* SZ_4K and EXTRA_ALIGN, in cells
          InsnsPer16,           \* instructions in 16 bytes
          Kernels,              \* original kernels: words, pages taken with bss, and the
                                \* numbers of their version in the last banner, and
                                \* the functions the program looks up that they lack
          Kpimg,                \* the cells of kpimg
          Tcp, MapMax, Paging,  \* offsets of tcp_init_sock and paging_init, 0x800
          Paths,                \* the new items there are: name, type, event, contents
          Args,                 \* lengths of arguments given
          Keys, MaxRuns

VARIABLES orig,     \* the original kernel
          kfile,    \* the image now: kernel, preset, cells of the extra items
          asked,    \* the items asked for so far
          toolruns

kvars == <<orig, kfile, asked, toolruns>>

W(word) == <<word>>
Zero == W("0")
NoPreset == <<>>
align_ceil(x, a) == ((x + a - 1) \div a) * a
Zeros(n) == [i \in 1 .. n |-> Zero]
Garbage == W("garbage")
From(m, at, n) == [i \in 1 .. n |-> IF at + i - 1 \in DOMAIN m THEN m[at + i - 1] ELSE Garbage]
IsHdr(cell) == cell[1] = "hdr"
\* the string at position p: it ends at a zero
StrLen(cells, p) == CHOOSE n \in 0 .. Len(cells) :
    /\ \A i \in p .. p + n - 1 : i <= Len(cells) /\ cells[i] # Zero /\ ~IsHdr(cells[i])
    /\ p + n > Len(cells) \/ cells[p + n] = Zero \/ IsHdr(cells[p + n])
---------------------------------------------------------------------------
(* The kernel                                                              *)
IsPac(word) == word \in {W("pac"), W("aut")}        \* (insn & 0xFFFFFD1F) == 0xD503211F
\* NOPs for the pointer authentication where the map code will be, and for the
\* one after it that belongs to the last of an odd number
select_map_area(k) ==
    LET pacs == {i \in Tcp .. Tcp + MapMax - 1 : IsPac(k[i])}
        more == {i \in Tcp + MapMax .. Tcp + 2 * MapMax - 1 : i <= Len(k) /\ IsPac(k[i])}
        second == IF more = {} THEN Tcp ELSE CHOOSE i \in more : \A j \in more : i <= j
        nops == pacs \cup (IF Cardinality(pacs) % 2 = 1 THEN {second} ELSE {}) IN
    [i \in DOMAIN k |-> IF i \in nops THEN W("nop") ELSE k[i]]
\* where the map code goes: a multiple of 16 bytes
MapAt == ((Tcp - 1) \div InsnsPer16) * InsnsPer16 + 1
\* from 6.7 on the kernel maps itself early; so written that 7.0 to 7.6 are not
kernel_if_need_patch(version) == version[1] >= 6 /\ version[2] >= 7
disable_pi_map(k) ==
    IF ~\E i \in DOMAIN k : k[i] = W("pi") THEN k
    ELSE [k EXCEPT ![CHOOSE i \in DOMAIN k : k[i] = W("pi") /\ \A j \in 1 .. i - 1 : k[j] # W("pi")] = W("no pi")]
\* a function that is only a branch is found where it goes
relo_branch_func(k, at) == IF k[at] = W("b2") THEN at + 2 ELSE at

MutantParsed(f) == f.kernel
\* parse_image_patch_info: the kernel as it was, with its first word back
Parsed(f) == IF f.preset = NoPreset THEN f.kernel ELSE [f.kernel EXCEPT ![1] = f.preset.header_backup]
Patched(k, pi) ==
    LET known == select_map_area(k)         \* kallsym_kimg
        out == IF pi THEN disable_pi_map(k) ELSE k
        synced == [i \in DOMAIN k |-> IF i \in Tcp .. Tcp + 2 * MapMax - 1 THEN known[i] ELSE out[i]] IN
    [synced EXCEPT ![1] = W("branch")]
---------------------------------------------------------------------------
(* Extra items: a header cell, the arguments, the contents                 *)
Hdr(item) == <<"hdr", item>>
NoItem == [type |-> "none", name |-> "", event |-> "", args_size |-> 0, con_size |-> 0]
\* where the items are, up to the empty one
Items(cells) ==
    LET On[p \in 1 .. Len(cells) + 1] ==
          IF p > Len(cells) \/ ~IsHdr(cells[p]) \/ cells[p] = Hdr(NoItem) THEN <<>>
          ELSE <<p>> \o On[p + 1 + cells[p][2].args_size + cells[p][2].con_size]
    IN On[1]

\* the string of n characters, as much of it and what follows it as asked for
CommandLine(n, len) == [i \in 1 .. len |-> IF i <= n THEN W("a") ELSE IF i = n + 1 THEN Zero ELSE W("?")]

\* what becomes of a configuration: the cells of its item.  -1 is no argument
\* given.
NewItem(path, args) ==
    LET con == path.con \o Zeros(align_ceil(Len(path.con), Align) - Len(path.con))
        size == IF args = -1 THEN 0 ELSE align_ceil(args, Align) IN
    <<Hdr([type |-> path.type, name |-> path.name, event |-> path.event, args_size |-> size, con_size |-> Len(con)])>>
    \o CommandLine(args, size) \o con
KeptItem(cells, p, args) ==
    LET item == cells[p][2]
        set == args = -1 /\ item.args_size > 0
        size == IF set THEN align_ceil(StrLen(cells, p + 1), Align)
                ELSE IF args = -1 THEN 0 ELSE align_ceil(args, Align) IN
    <<Hdr([item EXCEPT !.args_size = size])>>
    \o (IF set THEN From(cells, p + 1, size) ELSE CommandLine(args, size))
    \o From(cells, p + 1 + item.args_size, item.con_size)

\* the cells of the items, which qsort may leave in another order as nothing
\* sets the priorities it compares, and an empty one
Appended(items, swapped) ==
    FlattenSeq(IF swapped THEN Reverse(items) ELSE items) \o <<Hdr(NoItem)>>

\* where start goes: behind the kernel with its bss, and behind the image
StartOffset(kernel_size, all) ==
    IF all > align_ceil(kernel_size, Page) THEN align_ceil(all, Page) ELSE align_ceil(kernel_size, Page)

\* the configuration of an item: a path, or the name of one embedded
Configs == [path : BOOLEAN, of : Paths, args : Args \cup {-1}]
\* an item that is not there ends the program
Embedded(name) == {p \in {Items(kfile.extra)[i] : i \in DOMAIN Items(kfile.extra)} :
                     kfile.extra[p][2].name = name}
Acceptable(c) == c.path \/ Embedded(c.of.name) # {}
ItemOf(c) == IF c.path THEN NewItem(c.of, c.args)
             ELSE KeptItem(kfile.extra, CHOOSE p \in Embedded(c.of.name) : TRUE, c.args)
\* what it asks for: arguments that are not given stay
AskedOf(c) ==
    LET old == CHOOSE a \in asked : a.name = c.of.name IN
    [name |-> c.of.name, type |-> c.of.type, event |-> c.of.event, con |-> c.of.con,
     args |-> IF c.args # -1 THEN c.args ELSE IF c.path THEN 0 ELSE old.args]

patch_update_img(configs, swapped, key) ==
    LET old == Parsed(kfile)
        extra == Appended([i \in DOMAIN configs |-> ItemOf(configs[i])], swapped)
        offset == align_ceil(Len(old), Page) IN
    /\ toolruns < MaxRuns /\ toolruns' = toolruns + 1
    /\ \A i \in DOMAIN configs : Acceptable(configs[i])
    /\ kfile' = [kernel |-> Patched(old, kernel_if_need_patch(orig.version)), extra |-> extra,
                 preset |-> [kimg_size |-> Len(old), kpimg_size |-> Len(Kpimg), setup_offset |-> offset,
                    start_offset |-> StartOffset(orig.size, offset + Len(Kpimg) + Len(extra)),
                    extra_size |-> Len(extra), map_offset |-> MapAt,
                    paging_init_offset |-> relo_branch_func(old, Paging),
                    header_backup |-> old[1], superkey |-> key]]
    /\ asked' = {AskedOf(configs[i]) : i \in DOMAIN configs}
    /\ UNCHANGED orig

unpatch_img ==
    /\ toolruns < MaxRuns /\ toolruns' = toolruns + 1
    /\ kfile.preset # NoPreset
    /\ kfile' = [kernel |-> [kfile.kernel EXCEPT ![1] = kfile.preset.header_backup],
                 extra |-> <<>>, preset |-> NoPreset]
    /\ asked' = {}
    /\ UNCHANGED orig

reset_key(key) ==
    /\ toolruns < MaxRuns /\ toolruns' = toolruns + 1
    /\ kfile.preset # NoPreset
    /\ kfile' = [kfile EXCEPT !.preset.superkey = key]
    /\ UNCHANGED <<orig, asked>>

KernelImageInit ==
    /\ orig \in Kernels
    /\ kfile = [kernel |-> orig.words, extra |-> <<>>, preset |-> NoPreset]
    /\ asked = {} /\ toolruns = 0

Lists == {<<>>} \cup {<<c>> : c \in Configs}
         \cup {<<c, d>> : c \in Configs, d \in {e \in Configs : e.args = -1}}
KernelImageNext ==
    \/ \E l \in Lists, swapped \in BOOLEAN, k \in Keys :
          (Len(l) = 2 => l[1].of # l[2].of) /\ patch_update_img(l, swapped, k)
    \/ unpatch_img
    \/ \E k \in Keys : reset_key(k)
---------------------------------------------------------------------------
\* However often an image is patched, unpatched and patched again, its kernel
\* is the original one patched once, or that with its first word back, and
\* an image that carries nothing is as long as the original (patch.c:226-243,
\* 560-567, 690-710).
PatchedOnce ==
    LET once == Patched(orig.words, kernel_if_need_patch(orig.version)) IN
    IF kfile.preset # NoPreset
    THEN kfile.kernel = once /\ kfile.preset.header_backup = orig.words[1]
    ELSE kfile.kernel = orig.words \/ kfile.kernel = [once EXCEPT ![1] = orig.words[1]]

=============================================================================
