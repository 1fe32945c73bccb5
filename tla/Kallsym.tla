------------------------------ MODULE Kallsym -------------------------------
(* kptools finds the symbols of a kernel image (src/tools/kallsym.c): it    *)
(* looks for the tables scripts/kallsyms.c left in it, each search starting *)
(* from what the ones before it found, and tries again without, or with     *)
(* another idea of, the kernel's relocations.  The image is a function on   *)
(* cells counted from 0: a byte of a name or a token, four bytes elsewhere; *)
(* an address is two cells.                                                 *)
EXTENDS Integers, Sequences, FiniteSets, SequencesExt, TLC

CONSTANTS Images,               \* the kernels: image, symbols, tokens, and where they are
          T,                    \* KSYM_TOKEN_NUMS
          Ch0, Digits, ChA, Letters,    \* the codes of '0' and 'a', how many of each are looked for
          KSYM_MIN_NEQ_SYMS, KSYM_MIN_MARKER, KSYM_FIND_NAMES_USED_MARKER,
          KSYM_SYMBOL_LEN, NSYMS_MAX_GAP, MAX_ZERO_OFFSET_NUM, ARM64_RELO_MIN_NUM,
          PerMarker,            \* 256
          Wide,                 \* 0x7F: longer lengths take two bytes
          FirstNames, FirstMarkers, Window, \* 0x4000, 0x10000, 4096
          FirstAddress, KernelAlign, VectorAlign, VectorSize,   \* 0xff + 1, 0x1000, 1 << 11, 0x600
          Hi, Unit,             \* the upper cell of an address, and its weight
          MinVa                 \* ELF64_KERNEL_MIN_VA

VARIABLES kernel,   \* the kernel looked at
          kinfo,    \* kallsym_t
          copied,   \* copied_img
          at        \* the function to be called next, or "done", and how often it was tried

qvars == <<kernel, kinfo, copied, at>>

len == kernel.len
Cell(img, p) == IF p \in 0 .. len - 1 THEN img[p] ELSE 0
\* uint_unpack and int_unpack of one or two cells
uint_unpack(img, p, size) == IF size = 1 THEN Cell(img, p) ELSE Cell(img, p) + Unit * Cell(img, p + 1)
int_unpack(img, p, size) == IF size = 1 /\ Cell(img, p) = Hi THEN -1 ELSE uint_unpack(img, p, size)
Matches(img, p, cells) == \A i \in DOMAIN cells : Cell(img, p + i - 1) = cells[i]
Smallest(S) == CHOOSE x \in S : \A y \in S : x <= y
Largest(S) == CHOOSE x \in S : \A y \in S : x >= y
Fail == [rc |-> -1]
\* a loop over numbers
While(s0, More(_), Body(_)) ==
    LET Loop[s \in Seq(Int)] == IF More(s) THEN Loop[Body(s)] ELSE s IN Loop[s0]
---------------------------------------------------------------------------
(* The banner, a cell followed by one with the version                     *)
Banner == 900
IsVersion(c) == c \in 600 .. Banner
Major(c) == (c - 600) \div 32
Minor(c) == (c - 600) % 32
Older(v, major, minor) == (v[1] < major) \/ (v[1] = major /\ v[2] < minor)
find_linux_banner ==
    LET found == {p \in 1 .. len - 1 : copied[p] = Banner /\ IsVersion(Cell(copied, p + 1))}
        c == Cell(copied, Largest(found) + 1) IN
    [rc |-> 0, info |-> [kinfo EXCEPT !.banners = SetToSortSeq(found, <), !.version = <<Major(c), Minor(c)>>]]

(* The tokens                                                              *)
Spelled(first, n) == [i \in 1 .. 2 * n |-> IF i % 2 = 0 THEN 0 ELSE first + (i \div 2)]
\* the position behind the n-th zero from p on, and before the n-th down from p
Nth(Z, n, Before(_, _)) == CHOOSE z \in Z : Cardinality({y \in Z : Before(y, z)}) = n - 1
AfterZeros(p, n) ==
    LET Z == {q \in p .. len - 1 : copied[q] = 0} IN
    IF n = 0 THEN p ELSE IF Cardinality(Z) < n THEN len ELSE Nth(Z, n, <) + 1
BeforeZeros(p, n) ==
    LET Z == {q \in 1 .. p : copied[q] = 0} IN IF Cardinality(Z) < n THEN 0 ELSE Nth(Z, n, >) - 1
find_token_table ==
    LET end(p) == p + 2 * Digits
        found == {p \in 0 .. len - 1 :
                    /\ Matches(copied, p, Spelled(Ch0, Digits))
                    /\ Cell(copied, end(p)) # 0 /\ Cell(copied, end(p) + 1) # 0
                    /\ Matches(copied, AfterZeros(end(p), ChA - (Ch0 + Digits - 1) - 1), Spelled(ChA, Letters))} IN
    IF found = {} THEN Fail
    ELSE [rc |-> 0, info |-> [kinfo EXCEPT !.token_table = BeforeZeros(Smallest(found), Ch0 + 1) + 2]]
Token(info, i) == LET p == AfterZeros(info.token_table, i) IN
    [j \in 1 .. AfterZeros(p, 1) - 1 - p |-> copied[p + j - 1]]
find_token_index ==
    LET off(i) == AfterZeros(kinfo.token_table, i) - kinfo.token_table
        index == [i \in 1 .. T \div 2 |-> off(2 * i - 2) + Unit * off(2 * i - 1)]  \* two to a cell
        found == {p \in 0 .. len - 1 : Matches(copied, p, index)} IN
    IF found = {} THEN Fail
    ELSE [rc |-> 0, info |-> [kinfo EXCEPT !.token_index = Smallest(found),
                                           !.tokens = [i \in 1 .. T |-> Token(kinfo, i - 1)]]]
---------------------------------------------------------------------------
(* Relocations: 24 bytes, r_offset, r_info and r_addend                    *)
MaxVa == Unit * Unit
R_RELATIVE == 403
try_find_arm64_relo_table ==
    LET img == copied
        off(p) == uint_unpack(img, p, 2)
        add(p) == uint_unpack(img, p + 4, 2)
        none(p) == off(p) = 0 /\ uint_unpack(img, p + 2, 2) = 0 /\ add(p) = 0
        Body(s) ==
          LET p == s[1] n == s[2] va == s[3] IN
          IF off(p) >= Hi * Unit /\ uint_unpack(img, p + 2, 2) = R_RELATIVE
          THEN <<p + 6, n + 1, IF add(p) % KernelAlign = 0 /\ add(p) >= MinVa /\ add(p) < va THEN add(p) ELSE va>>
          ELSE IF n > 0 /\ none(p) THEN <<p + 6, n + 1, va>> ELSE <<p + 2, 0, MaxVa>>
        ends(s) == s[2] >= ARM64_RELO_MIN_NUM /\ Body(s)[2] = 0
        s == While(<<0, 0, MaxVa>>, LAMBDA t : t[1] < len - 6 /\ ~ends(t), Body)
        va == IF kinfo.kernel_base # 0 THEN kinfo.kernel_base ELSE s[3]
        first == s[1] - 6 * s[2]
        whole == {i \in 1 .. s[2] : LET p == first + 6 * (i - 1) IN
                    off(p) # 0 /\ uint_unpack(img, p + 2, 2) # 0 /\ add(p) # 0}
        num == IF whole = {} THEN 0 ELSE Largest(whole)
        uses == {i \in 1 .. num : LET p == first + 6 * (i - 1) IN
                   ~none(p) /\ off(p) > va /\ off(p) < MaxVa - len}
        bad == {i \in uses : off(first + 6 * (i - 1)) - va >= len - 2}
        info == [kinfo EXCEPT !.kernel_base = va] IN
    IF num < ARM64_RELO_MIN_NUM \/ ~kinfo.try_relo
    THEN [rc |-> 0, info |-> IF kinfo.try_relo THEN info ELSE kinfo, img |-> img]
    ELSE IF bad # {} THEN [rc |-> -1, info |-> [info EXCEPT !.try_relo = FALSE], img |-> img]
    ELSE LET Of(p) == {i \in uses : off(first + 6 * (i - 1)) - va = p}
             new(p) == LET a == add(first + 6 * (Smallest(Of(p)) - 1)) IN
                       IF uint_unpack(img, p, 2) = a THEN a ELSE uint_unpack(img, p, 2) + a IN
         [rc |-> 0, info |-> info,
          img |-> [p \in DOMAIN img |-> IF Of(p) # {} THEN new(p) % Unit
                                        ELSE IF Of(p - 1) # {} THEN new(p - 1) \div Unit ELSE img[p]]]
---------------------------------------------------------------------------
(* Markers: where every 256th name is                                      *)
get_markers_elem_size == IF kinfo.marker_size # 0 THEN kinfo.marker_size
                         ELSE IF Older(kinfo.version, 4, 20) THEN 2 ELSE 1
find_markers_internal(size) ==
    LET m(p) == int_unpack(copied, p, size)
        count(s) == IF s[2] > m(s[1]) THEN s[3] + 1 ELSE 0
        first(s) == s[2] > m(s[1]) /\ m(s[1]) = 0 /\ count(s) > KSYM_MIN_MARKER
        e == While(<<kinfo.token_table, len, 0>>, LAMBDA s : s[1] > FirstMarkers /\ ~first(s),
                   LAMBDA s : <<s[1] - size, m(s[1]), count(s)>>)
        s == <<e[1], IF e[1] > FirstMarkers THEN count(e) ELSE e[3]>> IN
    IF s[2] < KSYM_MIN_MARKER THEN Fail
    ELSE [rc |-> 0, img |-> copied, info |-> [kinfo EXCEPT !.markers = s[1], !.marker_size = size]]
find_markers ==
    LET first == find_markers_internal(get_markers_elem_size) IN
    IF first.rc # 0 /\ get_markers_elem_size = 2 THEN find_markers_internal(1) ELSE first
---------------------------------------------------------------------------
(* Offsets or addresses, nearly                                            *)
\* where a run of values that do not fall ends
RunEnd(from, size, signed) ==
    LET val(p) == IF signed THEN int_unpack(copied, p, size) ELSE uint_unpack(copied, p, size)
    IN While(<<from, 0>>, LAMBDA s : s[1] < len /\ val(s[1]) >= s[2], LAMBDA s : <<s[1] + size, val(s[1])>>)[1]
\* over the image from its start, s being a position, the last value and how
\* many there were that did not fall: up to the first run of enough of them
Rising(size, Body(_)) ==
    LET enough(s) == Body(s)[3] > s[3] /\ s[3] >= KSYM_MIN_NEQ_SYMS
        s == While(<<0, 0, 0>>, LAMBDA t : t[1] < len - size * KSYM_MIN_NEQ_SYMS /\ ~enough(t), Body)
    IN <<s[1], IF s[1] < len - size * KSYM_MIN_NEQ_SYMS THEN s[3] + 1 ELSE s[3]>>
find_approx_offsets ==
    LET val(p) == int_unpack(copied, p, 1)
        s == Rising(1, LAMBDA t : IF val(t[1]) = t[2] THEN <<t[1] + 1, t[2], t[3]>>
                                  ELSE IF val(t[1]) < t[2] THEN <<t[1] + 1, 0, 0>>
                                  ELSE <<t[1] + 1, val(t[1]), t[3] + 1>>)
        zero == Largest({-1} \cup {p \in 0 .. s[1] - KSYM_MIN_NEQ_SYMS : val(p) = 0})
        left == Largest({p \in -1 .. zero : p = -1 \/ val(p) # 0 \/ zero - p >= MAX_ZERO_OFFSET_NUM}) IN
    IF s[2] < KSYM_MIN_NEQ_SYMS THEN Fail
    ELSE [rc |-> 0, img |-> copied,
          info |-> [kinfo EXCEPT !.approx = left + 1, !.approx_end = RunEnd(left + 1, 1, TRUE), !.relative = TRUE]]
find_approx_addresses ==
    LET val(p) == uint_unpack(copied, p, 2)
        First(p) == val(p) % FirstAddress = 0 /\ val(p) >= Hi * Unit
        s == Rising(2, LAMBDA t : IF t[3] = 0 THEN IF First(t[1]) THEN <<t[1] + 2, val(t[1]), 1>> ELSE <<t[1] + 2, t[2], 0>>
                                  ELSE IF val(t[1]) < t[2] THEN <<t[1] + 2, 0, 0>>
                                  ELSE <<t[1] + 2, val(t[1]), t[3] + 1>>)
        start == s[1] - 2 * KSYM_MIN_NEQ_SYMS IN
    IF s[2] < KSYM_MIN_NEQ_SYMS THEN Fail
    ELSE [rc |-> 0, img |-> copied,
          info |-> [kinfo EXCEPT !.approx = start, !.approx_end = RunEnd(start, 2, FALSE), !.relative = FALSE]]
find_approx_addresses_or_offset ==
    LET offsets == find_approx_offsets IN
    IF ~Older(kinfo.version, 4, 6) /\ offsets.rc = 0 THEN offsets ELSE find_approx_addresses
elem(info) == IF info.relative THEN 1 ELSE 2
---------------------------------------------------------------------------
(* Names                                                                   *)
MutantLengthAt(img, p) == <<Cell(img, p), p + 1>>
\* the length of the name at p, and where its tokens start
LengthAt(img, p) ==
    LET n == Cell(img, p) IN
    IF n > Wide THEN <<(n % (Wide + 1)) + (Wide + 1) * Cell(img, p + 1), p + 2>> ELSE <<n, p + 1>>
IsName(img, p) == LengthAt(img, p)[1] \in 1 .. KSYM_SYMBOL_LEN - 1
NextName(img, p) == LengthAt(img, p)[1] + LengthAt(img, p)[2]
\* of two in a row, those behind the i-th name, -1 when there is none
find_names ==
    LET Agrees(cand) ==
          LET Walk[p \in 0 .. 2 * len, i \in 0 .. len, left \in 0 .. KSYM_FIND_NAMES_USED_MARKER] ==
                LET q == NextName(copied, p) IN
                IF left = 0 THEN TRUE
                ELSE IF ~IsName(copied, p) \/ q >= kinfo.markers THEN FALSE
                ELSE IF i > 0 /\ i % PerMarker = PerMarker - 1
                     THEN /\ q - cand = int_unpack(copied, kinfo.markers + (i \div PerMarker + 1) * kinfo.marker_size,
                                                   kinfo.marker_size)
                          /\ Walk[q, i + 1, left - 1]
                     ELSE Walk[q, i + 1, left]
          IN Walk[cand, 0, KSYM_FIND_NAMES_USED_MARKER]
        found == {p \in FirstNames .. kinfo.markers - 1 : Agrees(p)} IN
    IF found = {} THEN Fail
    ELSE [rc |-> 0, img |-> copied, info |-> [kinfo EXCEPT !.names = Smallest(found)]]
\* decompress_symbol_name: without its type, the first character
decompress_symbol_name(info, img, p) ==
    LET n == LengthAt(img, p)
        token(i) == info.tokens[Cell(img, n[2] + i - 1) + 1] IN
    Tail(FlattenSeq([i \in 1 .. n[1] |-> token(i)]))
find_num_syms ==
    LET approx == (kinfo.approx_end - kinfo.approx) \div elem(kinfo)
        near(n) == n # 0 /\ n - approx \in -NSYMS_MAX_GAP .. NSYMS_MAX_GAP
        found == {p \in kinfo.names - Window + 1 .. kinfo.names : near(int_unpack(copied, p, 1))} IN
    [rc |-> 0, img |-> copied,
     info |-> [kinfo EXCEPT !.num_syms = IF found = {} THEN approx - NSYMS_MAX_GAP
                                         ELSE int_unpack(copied, Largest(found), 1)]]
\* the names from the first on: the index of one of them, -1 when the table ends
IndexOf(name) ==
    LET On[p \in 0 .. 2 * len, i \in 0 .. len] ==
          IF p >= kinfo.markers \/ ~IsName(copied, p) THEN -1
          ELSE IF decompress_symbol_name(kinfo, copied, p) = name THEN i
          ELSE On[NextName(copied, p), i + 1]
    IN On[kinfo.names, 0]
---------------------------------------------------------------------------
(* Offsets or addresses, exactly                                           *)
CONSTANTS linux_banner, pid_vnr, vectors    \* the names looked for
SpEl0 == 290
\* pid_vnr reads the current task, in one of its first instructions
arm64_verify_pid_vnr(p) == \E i \in 0 .. 5 : Cell(copied, p + i) = SpEl0
correct_by_banner ==
    LET e == elem(kinfo)
        index == IndexOf(linux_banner)
        base(p) == uint_unpack(copied, p, e)
        Found(target) == {p \in kinfo.approx .. kinfo.approx + Window + e - 1 :
              (p - kinfo.approx) % e = 0 /\ uint_unpack(copied, p + index * e, e) - base(p) = target}
        good == {i \in DOMAIN kinfo.banners : Found(kinfo.banners[i]) # {}}
        p == Smallest(Found(kinfo.banners[Smallest(good)])) IN
    IF index = -1 \/ good = {} THEN Fail
    ELSE [rc |-> 0, img |-> copied,
          info |-> [kinfo EXCEPT !.table = p, !.all = TRUE, !.kernel_base = IF kinfo.relative THEN @ ELSE base(p)]]
correct_by_vectors ==
    LET e == elem(kinfo)
        v == IndexOf(vectors)
        n == IndexOf(pid_vnr)
        val(p, i) == uint_unpack(copied, p + i * e, e)
        bases == IF kinfo.relative THEN <<0>>
                 ELSE <<uint_unpack(copied, kinfo.approx, e)>>
                      \o (IF kinfo.kernel_base # 0 THEN <<kinfo.kernel_base>> ELSE <<>>)
                      \o (IF kinfo.kernel_base # MinVa THEN <<MinVa>> ELSE <<>>)
        Found(b) == {p \in kinfo.approx .. kinfo.approx_end - n * e - 1 :
              /\ (p - kinfo.approx) % e = 0
              /\ val(p, v + 1) - val(p, v) >= VectorSize /\ (val(p, v) - b) % VectorAlign = 0
              /\ arm64_verify_pid_vnr(val(p, n) - b)}
        good == {i \in DOMAIN bases : Found(bases[i]) # {}}
        b == bases[Smallest(good)] IN
    IF v < 1 \/ n < 1 \/ good = {} THEN Fail
    ELSE [rc |-> 0, img |-> copied, info |-> [kinfo EXCEPT !.table = Smallest(Found(b)), !.kernel_base = b]]
correct_addresses_or_offsets ==
    LET banner == correct_by_banner IN IF banner.rc = 0 THEN banner ELSE correct_by_vectors
---------------------------------------------------------------------------
\* the three base functions, a failure of which is the answer
analyze(i) ==
    /\ at = <<"base", i>>
    /\ LET r == CASE i = 1 -> find_linux_banner [] i = 2 -> find_token_table [] i = 3 -> find_token_index IN
       IF r.rc # 0 THEN at' = <<"done", -1>> /\ UNCHANGED kinfo
       ELSE /\ at' = IF i = 3 THEN <<"try", 1, 1>> ELSE <<"base", i + 1>>
            /\ kinfo' = r.info
    /\ UNCHANGED <<kernel, copied>>
\* the others, up to three times: again on the image as it was when the
\* relocations were of no use, and again from another base
Continue(try, i, r) ==
    LET info == IF "info" \in DOMAIN r THEN r.info ELSE kinfo
        again == try = 1 /\ ~info.try_relo
        third == ~again /\ try < 3 /\ info.kernel_base # MinVa IN
    IF r.rc = 0
    THEN /\ at' = IF i = 6 THEN <<"done", 0>> ELSE <<"try", try, i + 1>>
         /\ kinfo' = info /\ copied' = r.img
    ELSE /\ at' = IF again THEN <<"try", 2, 1>> ELSE IF third THEN <<"try", 3, 1>> ELSE <<"done", -1>>
         /\ kinfo' = IF third THEN [info EXCEPT !.kernel_base = MinVa] ELSE info
         /\ copied' = IF again \/ third THEN kernel.img ELSE copied
retry_relo(try, i) ==
    /\ at = <<"try", try, i>>
    /\ Continue(try, i, CASE i = 1 -> try_find_arm64_relo_table [] i = 2 -> find_markers
                        [] i = 3 -> find_approx_addresses_or_offset [] i = 4 -> find_names
                        [] i = 5 -> find_num_syms [] i = 6 -> correct_addresses_or_offsets)
    /\ UNCHANGED kernel

get_symbol_index_offset(i) ==
    LET target == uint_unpack(copied, kinfo.table + i * elem(kinfo), elem(kinfo)) IN
    IF kinfo.relative THEN target ELSE target - kinfo.kernel_base
\* on_each_symbol: the offset of the first whose name is such a one
FirstSymbol(Is(_), none) ==
    LET On[p \in 0 .. 2 * len, i \in 0 .. len] ==
          IF i >= kinfo.num_syms THEN none
          ELSE IF IsName(copied, p) /\ Is(decompress_symbol_name(kinfo, copied, p)) THEN get_symbol_index_offset(i)
          ELSE On[NextName(copied, p), i + 1]
    IN On[kinfo.names, 0]
get_symbol_offset(name) == FirstSymbol(LAMBDA n : n = name, -1)
---------------------------------------------------------------------------
(* What patch.c tells the program of the kernel                            *)
CONSTANTS NameIn,       \* the names asked for, in the characters of the tables
          Dots, Cfi     \* '.' and '$', and ".cfi_jt"
get_symbol_offset_zero(f) == Largest({get_symbol_offset(NameIn[f]), 0})
\* a name with what the compiler put behind it
Suffixed(name, n) ==
    /\ Len(n) > Len(name) /\ IsPrefix(name, n) /\ n[Len(name) + 1] \in Dots
    /\ \A i \in DOMAIN n : ~IsPrefix(Cfi, SubSeq(n, i, Len(n)))
find_suffixed_symbol(f) == FirstSymbol(LAMBDA n : Suffixed(NameIn[f], n), 0)
\* the first of them that is not 0
Else(a, b) == IF a > 0 THEN a ELSE b
try_get_symbol_offset_zero(f) == Else(get_symbol_offset_zero(f), find_suffixed_symbol(f))
\* the tool goes on with these only when they are there
fillin_map_symbol ==
    LET zero == [f \in {"memblock_mark_nomap", "memblock_phys_alloc_try_nid", "memblock_virt_alloc_try_nid"} |->
                 get_symbol_offset_zero(f)]
        exit == [f \in {"memblock_reserve", "memblock_free"} |-> get_symbol_offset(NameIn[f])]
        any == get_symbol_offset_zero("memblock_alloc_try_nid")
        phys == zero["memblock_phys_alloc_try_nid"]
        virt == zero["memblock_virt_alloc_try_nid"] IN
    IF (\E f \in DOMAIN exit : exit[f] < 0) \/ (phys = 0 /\ virt = 0) THEN Fail
    ELSE [rc |-> 0, words |-> exit @@ [zero EXCEPT !["memblock_phys_alloc_try_nid"] = Else(phys, any),
                                                   !["memblock_virt_alloc_try_nid"] = Else(virt, any)]]
fillin_patch_config ==
    LET zero == [f \in {"panic", "report_cfi_failure", "__cfi_slowpath_diag", "__cfi_slowpath", "input_handle_event"} |->
                 get_symbol_offset_zero(f)]
        clone == [f \in {"rest_init", "kernel_init", "copy_process", "avc_denied", "slow_avc_audit"} |->
                  try_get_symbol_offset_zero(f)]
        else_ == [f \in {"cgroup_init", "cgroup_post_fork"} |->
                  IF f = "cgroup_init" THEN IF clone["rest_init"] > 0 THEN 0 ELSE try_get_symbol_offset_zero(f)
                  ELSE IF clone["copy_process"] > 0 THEN 0 ELSE get_symbol_offset_zero(f)] IN
    IF \/ clone["rest_init"] = 0 /\ else_["cgroup_init"] = 0
       \/ clone["copy_process"] = 0 /\ else_["cgroup_post_fork"] = 0 THEN Fail
    ELSE [rc |-> 0, words |-> zero @@ clone @@ else_]
\* patch_update_img
setup_symbols ==
    LET lookup == get_symbol_offset(NameIn["kallsyms_lookup_name"])
        printk == Else(get_symbol_offset_zero("printk"), get_symbol_offset_zero("_printk")) IN
    IF lookup < 0 \/ printk = 0 THEN Fail
    ELSE [rc |-> 0, words |-> [f \in {"kallsyms_lookup_name", "printk"} |-> IF f = "printk" THEN printk ELSE lookup]]

KallsymInit ==
    /\ kernel \in Images /\ copied = kernel.img /\ at = <<"base", 1>>
    /\ kinfo = [banners |-> <<>>, version |-> <<0, 0>>, token_table |-> 0, token_index |-> 0, tokens |-> <<>>,
                try_relo |-> TRUE, kernel_base |-> 0, marker_size |-> 0, markers |-> 0,
                approx |-> 0, approx_end |-> 0, relative |-> FALSE, names |-> 0, num_syms |-> 0,
                table |-> 0, all |-> FALSE]
KallsymNext == \/ \E i \in 1 .. 3 : analyze(i)
               \/ \E try \in 1 .. 3, i \in 1 .. 6 : retry_relo(try, i)
---------------------------------------------------------------------------
\* another name under which a word may be found
OtherName(f) == CASE f \in {"memblock_phys_alloc_try_nid", "memblock_virt_alloc_try_nid"} -> "memblock_alloc_try_nid"
              [] f = "printk" -> "_printk" [] OTHER -> f
\* Whatever kind of kernel it is, old or new, with offsets or addresses, filled
\* in or left to relocation, with data symbols or not, the search ends and each
\* symbol is where the kernel has it, so patch.c writes to no other place; and
\* each word it tells the program is 0, or the place of the symbol meant or of
\* the compiler's clone of it.  What the kernel has under its own name is told,
\* but for what stands in for something that was found (symbol.c:114-186).
SymbolsAreFound ==
    at[1] = "done" =>
        /\ at[2] = 0
        /\ \A s \in kernel.symbols : get_symbol_offset(s.name) = s.offset
        /\ \A told \in {fillin_map_symbol, fillin_patch_config, setup_symbols} : told.rc = 0 =>
              \A f \in DOMAIN told.words :
                 /\ told.words[f] # 0 =>
                       \E s \in kernel.symbols : /\ s.offset = told.words[f]
                                                 /\ \/ s.name \in {NameIn[f], NameIn[OtherName(f)]}
                                                    \/ Suffixed(NameIn[f], s.name)
                 /\ f \notin {"cgroup_init", "cgroup_post_fork"} =>
                       \A s \in kernel.symbols : s.name = NameIn[f] => told.words[f] = s.offset
=============================================================================
