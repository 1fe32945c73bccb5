------------------------------- MODULE MCCode -------------------------------
(* Relocated functions, modules laid out, relocated modules and encoded    *)
(* instructions: components that do not meet, one behaviour each.          *)
EXTENDS Relocate, ElfRelocate, ToolsInsn, ModuleLayout

(* Functions of six words at ORIGIN, at most two of the first five of which *)
(* depend on where they run.                                                *)
MCOrigin == 40960
MCRelo == 8192
MCReplace == 20480
Plain == W("mov", 0, 0)
Jumps == UNION {{W(op, 0, 1), W(op, 0, 2), W(op, 0, 2 ^ Width(op) - 1), W(op, 0, 2 ^ Width(op) - 64),
                 W(op, 0, 99)} : op \in {"b", "bc", "bl", "cbz", "tbnz"}}
Moving == Jumps \cup {W("adr", 0, 2 ^ 21 - 7), W("adrp", 16, 1), W("adr", 17, 15), W("adrp", 0, 0),
                      W("prfm", 0, 2)}
Literals == {W("ldr32", 0, 100), W("ldrsw", 17, 100), W("ldr64", 16, 2), W("ldr64", 0, 2 ^ 19 - 100),
             W("simd64", 0, 100)}
Pairs(S) == {[k \in 1..6 |-> IF k = i THEN u ELSE IF k = j THEN v ELSE Plain]
                : i \in 1..4, j \in 1..4, u \in S, v \in S}
Long == {[k \in 1..6 |-> IF k = 1 THEN f ELSE IF k = 5 THEN Plain ELSE g] :
            f \in {W("bc", 0, 9), W("pac", 0, 0)}, g \in {W("bl", 0, 99), W("bc", 0, 3)}}
Stubs == {<<W("bti_c", 0, 0)>> \o f : f \in Long} \cup {<<W("b", 0, 2), Plain>> \o f : f \in Long}
MCFunctions == {f \in Pairs(Moving) : f[1].op # "b"} \cup Stubs
MCLiterals == {[k \in 1..6 |-> IF k = i THEN u ELSE Plain] : i \in 1..4, u \in Literals}

(* Every type of relocation, with values on both sides of every boundary.   *)
Near(k) == LET up == {k}  down == Minus({}, {k}) IN
           {up, down} \cup {Add(a, c) : a \in {up, down}, c \in {{0}, {2}, {3}, Neg1, Minus({}, {2})}}
Edges(type) ==
    CASE type \in DOMAIN Data -> {Data[type][2] - 1, Data[type][2]} \ {64}
      [] type \in DOMAIN Movw -> {Movw[type][2], Movw[type][2] + 15, Movw[type][2] + 16} \ {64}
      [] OTHER -> {Imm[type][2] + Imm[type][3] - 1, Imm[type][2] + Imm[type][3] - 2, 12}
Places == {Hex(<<15,15,15,15,15,12,0,0>>) \cup 34..63, {14, 2}}
RelJobs(type) ==
    {[type |-> type, place |-> p, val |-> IF pc THEN Add(p, v) ELSE v, insn |-> insn] :
        p \in Places, v \in UNION {Near(k) : k \in Edges(type)}, pc \in BOOLEAN,
        insn \in {{}, 0..31}}
MCJobs == UNION {RelJobs(type) : type \in DOMAIN Data \cup DOMAIN Movw \cup DOMAIN Imm}
          \cup {[type |-> t, place |-> {}, val |-> {3}, insn |-> {4}] : t \in {"NONE", "TLSDESC"}}

Gen(op, word, fields, ok) ==
    [kind |-> "generate", op |-> op, word |-> word, fields |-> fields, ok |-> ok]
Pc == 2 ^ 28
Sfx(variant) == <<31, 1, IF variant = 64 THEN 1 ELSE 0>>
R == {0, 17, 31}
Regs(d, n) == {<<0, 5, d>>, <<5, 5, n>>}
Distances == {-2 ^ 27, 2 ^ 27 - 4, 2 ^ 27, -2 ^ 27 - 4, -2 ^ 20, 2 ^ 20 - 4, 2 ^ 20, -2 ^ 20 - 4, 0, 4, -4, 6}
Legal(d, range) == d % 4 = 0 /\ d >= -range /\ d < range
BranchJobs ==
    UNION {UNION {
      UNION {{Gen(op, w, {<<0, 26, (d \div 4) % 2 ^ 26>>}, Legal(d, SZ_128M)) :
                w \in {gen_branch_imm(Pc, Pc + d, op), tools_gen_branch_imm(Pc, Pc + d, op)}}
                : op \in {"b", "bl"}},
      UNION {{Gen(op, w, {<<0, 5, 17>>, <<5, 19, (d \div 4) % 2 ^ 19>>, Sfx(v)}, Legal(d, SZ_1M)) :
                w \in {gen_comp_branch_imm(Pc, Pc + d, 17, v, op),
                       tools_gen_comp_branch_imm(Pc, Pc + d, 17, v, op)}}
                : op \in {"cbz", "cbnz"}, v \in {32, 64}},
      {Gen("bcond", gen_cond_branch_imm(Pc, Pc + d, c),
           {<<0, 4, c % 16>>, <<5, 19, (d \div 4) % 2 ^ 19>>}, Legal(d, SZ_1M) /\ c < 15) : c \in {0, 14, 15}},
      \* the host's gen_cond_branch_imm does not refuse a distance (see README)
      {Gen("bcond", tools_gen_cond_branch_imm(Pc, Pc + d, c),
           {<<0, 4, c % 16>>, <<5, 19, (d \div 4) % 2 ^ 19>>}, c < 15) :
               c \in IF Legal(d, SZ_1M) THEN {0, 14, 15} ELSE {}}}
      : d \in Distances}
RegisterJobs ==
    UNION {UNION {
      {Gen(op, w, {<<5, 5, n>>}, TRUE) : w \in {gen_branch_reg(n, op), tools_gen_branch_reg(n, op)}}
         : op \in {"br", "blr", "ret"}} : n \in R}
    \cup {Gen("hint", gen_hint(k), {<<5, 7, k>>}, TRUE) : k \in {0, 5, 36}}
    \cup UNION {UNION {{Gen(op, w, Regs(d, n) \cup {<<16, 5, m>>}, TRUE) :
             w \in {gen_data2(d, n, m, 64, op), tools_gen_data2(d, n, m, 64, op)}}
             : op \in {"udiv", "sdiv", "lslv", "lsrv", "asrv", "rorv"}} : d \in R, n \in R, m \in R}
    \cup UNION {UNION {{Gen(op, w, {<<0, 5, d>>, <<10, 5, n>>, <<5, 5, m>>, <<16, 5, 1>>, Sfx(v)}, TRUE) :
             w \in {gen_data3(d, n, m, 1, v, op), tools_gen_data3(d, n, m, 1, v, op)}}
             : op \in {"madd", "msub"}, v \in {32, 64}} : d \in R, n \in R, m \in R}
    \cup UNION {{Gen(op, w, Regs(d, n) \cup {Sfx(v)}, op # "rev64" \/ v = 64) :
             w \in {gen_data1(d, n, v, op), tools_gen_data1(d, n, v, op)}}
             : op \in {"rev16", "rev32", "rev64"}, v \in {32, 64}, d \in R, n \in R}
    \cup UNION {{Gen(op, w, Regs(t, n) \cup {<<16, 5, m>>, <<30, 2, s>>}, TRUE) :
             w \in {gen_load_store_reg(t, n, m, 8 * 2 ^ s, op), tools_gen_load_store_reg(t, n, m, 8 * 2 ^ s, op)}}
             : op \in {"ldr_reg", "str_reg"}, s \in 0..3, t \in R, n \in R, m \in {2, 31}}
    \cup {Gen(op, gen_load_store_ex(t, n, 9, 8 * 2 ^ s, op),
              Regs(t, n) \cup {<<10, 5, 31>>, <<16, 5, 9>>, <<30, 2, s>>}, TRUE)
             : op \in {"load_ex", "store_ex"}, s \in 0..3, t \in R, n \in R}
ImmediateJobs ==
    UNION {{Gen(op, w, Regs(t, n) \cup {<<10, 5, 30>>, <<15, 7, (o \div (v \div 8)) % 128>>, Sfx(v)},
                o % (v \div 8) = 0 /\ o \div (v \div 8) \in -64..63) :
             w \in {gen_load_store_pair(t, 30, n, o, v, op), tools_gen_load_store_pair(t, 30, n, o, v, op)}}
             : op \in {"stp_post", "ldp_post", "stp_pre", "ldp_pre"}, v \in {32, 64},
               o \in {-516, -512, -256, -260, 0, 4, 252, 256, 504, 508, 512}, t \in R, n \in R}
    \cup {Gen(op, gen_add_sub_imm(d, n, i, v, op), Regs(d, n) \cup {<<10, 12, i % 4096>>, <<22, 2, 0>>, Sfx(v)},
              i \in 0..4095) : op \in {"add_imm", "adds_imm", "sub_imm", "subs_imm"}, v \in {32, 64},
              i \in {-1, 0, 4095, 4096}, d \in R, n \in R}
    \cup {Gen(op, tools_gen_add_sub_imm(d, n, i, v, op),
              Regs(d, n) \cup {<<10, 12, IF i < 4096 THEN i % 4096 ELSE (i \div 4096) % 4096>>,
                               <<22, 2, IF i < 4096 THEN 0 ELSE 1>>, Sfx(v)},
              i \in 0..4095 \cup {4096, 4095 * 4096}) : op \in {"add_imm", "subs_imm"}, v \in {32, 64},
              i \in {-1, 0, 4095, 4096, 4097, 4095 * 4096, 4096 * 4096}, d \in R, n \in R}
    \cup UNION {{Gen(op, w, Regs(d, n) \cup {<<16, 6, r % 64>>, <<10, 6, s % 64>>, <<22, 1, Sfx(v)[3]>>, Sfx(v)},
              {r, s} \subseteq 0..v - 1) :
              w \in {gen_bitfield(d, n, r, s, v, op), tools_gen_bitfield(d, n, r, s, v, op)}}
              : op \in {"sbfm", "bfm", "ubfm"}, v \in {32, 64}, r \in {0, 31, 32, 63, 64}, s \in {-1, 31, 32, 63},
                d \in {17}, n \in {31}}
    \cup UNION {{Gen(op, w, {<<0, 5, d>>, <<5, 16, i % 65536>>, <<21, 2, (h \div 16) % 4>>, Sfx(v)},
              i \in 0..65535 /\ h \in {0, 16} \cup (IF v = 64 THEN {32, 48} ELSE {})) :
              w \in {gen_movewide(d, i, h, v, op), tools_gen_movewide(d, i, h, v, op)}}
              : op \in {"movn", "movz", "movk"}, v \in {32, 64}, i \in {0, 65535, 65536}, h \in {0, 8, 16, 32, 48, 64},
                d \in R}
    \cup UNION {{Gen(op, w, Regs(d, n) \cup {<<16, 5, 30>>, <<10, 6, s % 64>>, Sfx(v)}, s \in 0..v - 1) :
              w \in {gen_add_sub_shifted_reg(d, n, 30, s, v, op), tools_gen_add_sub_shifted_reg(d, n, 30, s, v, op)}}
              : op \in {"add", "adds", "sub", "subs"}, v \in {32, 64}, s \in {-1, 0, 31, 32, 63, 64}, d \in R, n \in R}
    \cup UNION {{Gen(op, w, Regs(d, n) \cup {<<16, 5, 30>>, <<10, 6, s % 64>>, Sfx(v)}, s \in 0..v - 1) :
              w \in {gen_logical_shifted_reg(d, n, 30, s, v, op), tools_gen_logical_shifted_reg(d, n, 30, s, v, op)}}
              : op \in {"and", "bic", "orr", "orn", "eor", "eon", "ands", "bics"}, v \in {32, 64},
                s \in {-1, 0, 31, 32, 63, 64}, d \in {0}, n \in {31}}
    \cup {Gen("extr", gen_extr(30, n, d, s, v), Regs(d, n) \cup {<<16, 5, 30>>, <<10, 6, s % 64>>, Sfx(v)},
              s \in 0..v - 1) : v \in {32, 64}, s \in {0, 31, 32, 63, 64}, d \in R, n \in R}
    \cup {Gen("prfm", gen_prefetch(n, t, g, p), {<<5, 5, n>>, <<10, 12, 0>>, <<0, 1, p>>, <<1, 2, g>>, <<3, 2, t>>,
                                                 <<30, 2, 3>>}, TRUE)
              : n \in R, t \in 0..2, g \in 0..2, p \in 0..1}

OffsetBits(op) == IF op \in {"b", "bl"} THEN 26 ELSE IF op \in {"tbz", "tbnz"} THEN 14 ELSE 19
HostJobs ==
    UNION {{[kind |-> "branch", offset |-> 4 * o,
                  word |-> (IF op \in DOMAIN Value THEN Value[op] ELSE ToolValue[op]) \cup old] :
                  o \in {0, 1, -1, 2 ^ (OffsetBits(op) - 1) - 1, -2 ^ (OffsetBits(op) - 1)},
                  old \in {{}, IF op \in {"b", "bl"} THEN 0..25 ELSE 5..18}}
                 : op \in {"b", "bl", "cbz", "cbnz", "bcond", "tbz", "tbnz"}}
    \cup {[kind |-> "adrp", offset |-> o, word |-> {28, 31, 0, 4} \cup old] :
             o \in {{}, {12}, {14, 30}, {31}, 12..31, 12..30}, old \in {{}, 5..23 \cup {29, 30}}}
    \cup {[kind |-> "condition", cond |-> c, pstate |-> p \cup q] :
             c \in 0..15, p \in SUBSET {28, 29, 30, 31}, q \in {{}, 0..27, {26, 32}}}
    \cup UNION {{[kind |-> "logical", variant |-> v, ok |-> TRUE,
                  imm |-> {k \in 0..v - 1 : ((k % e) + e - r) % e < n}] :
                  n \in 1..e - 1, r \in 0..e - 1}
                : <<v, e>> \in {<<32, 2>>, <<32, 4>>, <<32, 8>>, <<64, 2>>, <<64, 8>>, <<64, 16>>}}
    \cup UNION {{[kind |-> "logical", variant |-> v, ok |-> TRUE, imm |-> r..r + n - 1] :
                  n \in {1, 7, 8}, r \in {0, 1, 5, v - 8}} : v \in {32, 64}}
    \cup {[kind |-> "logical", variant |-> v, ok |-> FALSE, imm |-> m] :
             v \in {32, 64}, m \in {{}, 0..63, {0, 2, 5}, {1, 3, 60}}}
MCRequests == BranchJobs \cup RegisterJobs \cup ImmediateJobs \cup HostJobs

(* Modules of nine sections, two of them of every kind, and defective ones. *)
Section(name, type, flags, size, align) ==
    [name |-> name, type |-> type, flags |-> flags, size |-> size, align |-> align, link |-> 0,
     offset |-> 0, addr |-> <<"none", 0>>, entsize |-> 0]
AW == {"alloc", "write"}
Extra(name) ==
    {Section(name, "progbits", flags, size, align) : size \in {0, 5, 16}, align \in {0, 8, 16},
        flags \in {{}, {"alloc"}, AW, {"alloc", "exec"}, {"alloc", "exec", "write"}}}
Bss == {Section(".bss", "nobits", AW, size, align) : size \in {0, 3, 40}, align \in {1, 16}}
SectionsOf(x, y) ==
    <<Section(".kpm.info", "progbits", {"alloc"}, 11, 1), x, Section(".text", "progbits", {"alloc", "exec"}, 12, 4),
      Section(".kpm.init", "progbits", AW, 8, 8), y, Section(".kpm.exit", "progbits", AW, 8, 8),
      Section(".kpm.ctl0", "progbits", AW, 8, 8), [Section(".symtab", "symtab", {}, 120, 8) EXCEPT !.link = 9],
      Section(".strtab", "strtab", {}, 21, 1)>>
Symbol(shndx, name, value, len) == [shndx |-> shndx, name |-> name, value |-> value, len |-> len, lto |-> FALSE]
File(secs) ==
    [secs |-> [i \in DOMAIN secs |-> [secs[i] EXCEPT !.offset = 128 * i]], len |-> 128 * (Len(secs) + 1),
     syms |-> <<Symbol(SHN_UNDEF, "", 0, 0), Symbol(3, "init", 4, 4), Symbol(5, "datum", 2, 5),
                Symbol(SHN_UNDEF, "known", 0, 5), Symbol(SHN_ABS, "sixteen", 16, 7)>>,
     info |-> <<"author", "name", "version">>, magic |-> TRUE, tableFits |-> TRUE]
Whole == File(SectionsOf(Section(".rodata", "progbits", {"alloc"}, 5, 8), Section(".bss", "nobits", AW, 3, 16)))
Renamed(i) == [Whole EXCEPT !.secs[i].name = ".other"]
MCImages ==
    {File(SectionsOf(x, y)) : x \in Extra(".data"), y \in Extra(".more") \cup Bss}
    \cup {File([SectionsOf(x, y) EXCEPT ![8] = [Section(".symtab", "symtab", {}, 120, 8) EXCEPT !.link = 1],
                                       ![1] = Section(".strtab", "strtab", {}, 21, 0),
                                       ![9] = Section(".kpm.info", "progbits", {"alloc"}, 11, 1)])
            : x \in Extra(".data"), y \in Bss}
    \cup {[Whole EXCEPT !.magic = FALSE], [Whole EXCEPT !.tableFits = FALSE], [Whole EXCEPT !.len = 1200],
          [Whole EXCEPT !.secs[8].type = "progbits"], [Whole EXCEPT !.info = <<"author", "version">>],
          [Whole EXCEPT !.info = <<"name">>], [Whole EXCEPT !.syms[4].name = "unknown"],
          [Whole EXCEPT !.syms[5].shndx = SHN_COMMON],
          [Whole EXCEPT !.syms[5] = [Symbol(SHN_COMMON, "__gnu_lto", 1, 9) EXCEPT !.lto = TRUE]]}
    \cup {Renamed(i) : i \in {1, 4, 6, 7}}

---------------------------------------------------------------------------
NoFunction == /\ phase = "none" /\ code = <<>> /\ origin = 0 /\ hook = NoHook
              /\ cpu = Fresh(RELO) /\ ref = Fresh(0) /\ taken = FALSE
NoJob == job = [type |-> "-"] /\ result = [state |-> "idle", word |-> {}]
NoRequest == request = [kind |-> "-"] /\ answer = <<>>
NoImage == image = [secs |-> <<>>] /\ stage = "none" /\ mod = NoModule /\ loads = 0
CInit == \/ RelocateInit /\ NoJob /\ NoRequest /\ NoImage
         \/ ElfInit /\ NoFunction /\ NoRequest /\ NoImage
         \/ ToolsInit /\ NoFunction /\ NoJob /\ NoImage
         \/ LayoutInit /\ NoFunction /\ NoJob /\ NoRequest
CNext == \/ RelocateNext /\ UNCHANGED <<evars, qvars, layoutVars>>
         \/ ElfNext /\ UNCHANGED <<rvars, qvars, layoutVars>>
         \/ ToolsNext /\ UNCHANGED <<rvars, evars, layoutVars>>
         \/ LayoutNext /\ UNCHANGED <<rvars, evars, qvars>>
CSpec == CInit /\ [][CNext]_<<rvars, evars, qvars, layoutVars>>
=============================================================================
