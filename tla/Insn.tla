-------------------------------- MODULE Insn --------------------------------
(***************************************************************************)
(* The instruction encoder of kernel/patch/module/insn.c and insn.h.       *)
(* A word is the set of its bits that are 1, so that |, & and ~ are union, *)
(* intersection and difference; a 64-bit value is a set of bits as well.   *)
(* BUG_ON, which panics, yields Panic.                                     *)
(***************************************************************************)
EXTENDS Integers, FiniteSets, Sequences, FiniteSetsExt

Up(s, k) == {b + k : b \in s}                     \* s << k
Down(s, k) == {b - k : b \in {c \in s : c >= k}}  \* s >> k
GENMASK(h, l) == l..h
BitsOf(n) == {k \in 0..30 : (n \div 2 ^ k) % 2 = 1}
NumOf(s) == SumSet({2 ^ b : b \in s})
Hex(nibbles) == UNION {Up(BitsOf(nibbles[i]), 4 * (Len(nibbles) - i)) : i \in DOMAIN nibbles}

Panic == {-1}
Guard(bug, word) == IF bug THEN Panic ELSE word

AARCH64_INSN_SF_BIT == {31}
AARCH64_INSN_N_BIT == {22}

(* The table of aarch64_insn_get_*_value, and the bits *_is_* looks at.     *)
Value == [
    str_reg |-> Hex(<<3,8,2,0,6,8,0,0>>), ldr_reg |-> Hex(<<3,8,6,0,6,8,0,0>>),
    stp_post |-> Hex(<<2,8,8,0,0,0,0,0>>), ldp_post |-> Hex(<<2,8,12,0,0,0,0,0>>),
    stp_pre |-> Hex(<<2,9,8,0,0,0,0,0>>), ldp_pre |-> Hex(<<2,9,12,0,0,0,0,0>>),
    add_imm |-> Hex(<<1,1,0,0,0,0,0,0>>), adds_imm |-> Hex(<<3,1,0,0,0,0,0,0>>),
    sub_imm |-> Hex(<<5,1,0,0,0,0,0,0>>), subs_imm |-> Hex(<<7,1,0,0,0,0,0,0>>),
    movn |-> Hex(<<1,2,8,0,0,0,0,0>>), sbfm |-> Hex(<<1,3,0,0,0,0,0,0>>),
    bfm |-> Hex(<<3,3,0,0,0,0,0,0>>), movz |-> Hex(<<5,2,8,0,0,0,0,0>>),
    ubfm |-> Hex(<<5,3,0,0,0,0,0,0>>), movk |-> Hex(<<7,2,8,0,0,0,0,0>>),
    add |-> Hex(<<0,11,0,0,0,0,0,0>>), adds |-> Hex(<<2,11,0,0,0,0,0,0>>),
    sub |-> Hex(<<4,11,0,0,0,0,0,0>>), subs |-> Hex(<<6,11,0,0,0,0,0,0>>),
    madd |-> Hex(<<1,11,0,0,0,0,0,0>>), msub |-> Hex(<<1,11,0,0,8,0,0,0>>),
    udiv |-> Hex(<<1,10,12,0,0,8,0,0>>), sdiv |-> Hex(<<1,10,12,0,0,12,0,0>>),
    lslv |-> Hex(<<1,10,12,0,2,0,0,0>>), lsrv |-> Hex(<<1,10,12,0,2,4,0,0>>),
    asrv |-> Hex(<<1,10,12,0,2,8,0,0>>), rorv |-> Hex(<<1,10,12,0,2,12,0,0>>),
    rev16 |-> Hex(<<5,10,12,0,0,4,0,0>>), rev32 |-> Hex(<<5,10,12,0,0,8,0,0>>),
    rev64 |-> Hex(<<5,10,12,0,0,12,0,0>>),
    and |-> Hex(<<0,10,0,0,0,0,0,0>>), bic |-> Hex(<<0,10,2,0,0,0,0,0>>),
    orr |-> Hex(<<2,10,0,0,0,0,0,0>>), orn |-> Hex(<<2,10,2,0,0,0,0,0>>),
    eor |-> Hex(<<4,10,0,0,0,0,0,0>>), eon |-> Hex(<<4,10,2,0,0,0,0,0>>),
    ands |-> Hex(<<6,10,0,0,0,0,0,0>>), bics |-> Hex(<<6,10,2,0,0,0,0,0>>),
    b |-> Hex(<<1,4,0,0,0,0,0,0>>), bl |-> Hex(<<9,4,0,0,0,0,0,0>>),
    cbz |-> Hex(<<3,4,0,0,0,0,0,0>>), cbnz |-> Hex(<<3,5,0,0,0,0,0,0>>),
    bcond |-> Hex(<<5,4,0,0,0,0,0,0>>),
    svc |-> Hex(<<13,4,0,0,0,0,0,1>>), hvc |-> Hex(<<13,4,0,0,0,0,0,2>>),
    smc |-> Hex(<<13,4,0,0,0,0,0,3>>), brk |-> Hex(<<13,4,2,0,0,0,0,0>>),
    hint |-> Hex(<<13,5,0,3,2,0,1,15>>),
    br |-> Hex(<<13,6,1,15,0,0,0,0>>), blr |-> Hex(<<13,6,3,15,0,0,0,0>>),
    ret |-> Hex(<<13,6,5,15,0,0,0,0>>)]
Op == DOMAIN Value

Mask(op) ==
    CASE op \in {"str_reg", "ldr_reg"} -> Hex(<<3,15,14,0,14,12,0,0>>)
      [] op \in {"stp_post", "ldp_post", "stp_pre", "ldp_pre"} -> Hex(<<7,15,12,0,0,0,0,0>>)
      [] op \in {"add_imm", "adds_imm", "sub_imm", "subs_imm"} -> Hex(<<7,15,0,0,0,0,0,0>>)
      [] op \in {"movn", "sbfm", "bfm", "movz", "ubfm", "movk"} -> Hex(<<7,15,8,0,0,0,0,0>>)
      [] op \in {"add", "adds", "sub", "subs", "and", "bic", "orr", "orn", "eor", "eon",
                 "ands", "bics"} -> Hex(<<7,15,2,0,0,0,0,0>>)
      [] op \in {"madd", "msub"} -> Hex(<<7,15,14,0,8,0,0,0>>)
      [] op \in {"udiv", "sdiv", "lslv", "lsrv", "asrv", "rorv"} -> Hex(<<7,15,14,0,15,12,0,0>>)
      [] op \in {"rev16", "rev32", "rev64"} -> Hex(<<7,15,15,15,15,12,0,0>>)
      [] op \in {"b", "bl"} -> Hex(<<15,12,0,0,0,0,0,0>>)
      [] op \in {"cbz", "cbnz"} -> Hex(<<15,14,0,0,0,0,0,0>>)
      [] op = "bcond" -> Hex(<<15,15,0,0,0,0,1,0>>)
      [] op \in {"svc", "hvc", "smc", "brk"} -> Hex(<<15,15,14,0,0,0,1,15>>)
      [] op = "hint" -> Hex(<<15,15,15,15,15,0,1,15>>)
      [] op \in {"br", "blr", "ret"} -> Hex(<<15,15,15,15,15,12,1,15>>)
InsnIs(op, word) == word \cap Mask(op) = Value[op]

(* aarch64_insn_encode_immediate: <<width, shift>> of a field; ADR apart.   *)
ImmField(type) == CASE type = "26" -> <<26, 0>> [] type = "19" -> <<19, 5>>
                    [] type = "16" -> <<16, 5>> [] type = "14" -> <<14, 5>>
                    [] type = "12" -> <<12, 10>> [] type = "9" -> <<9, 12>>
                    [] type = "7" -> <<7, 15>> [] type \in {"6", "S"} -> <<6, 10>>
                    [] type = "R" -> <<6, 16>>
Put(word, imm, width, shift) ==
    (word \ GENMASK(shift + width - 1, shift)) \cup Up(imm \cap GENMASK(width - 1, 0), shift)

(* ADR with the two low bits left where the other immediates start.         *)
encode_immediate(type, word, imm) ==
    IF type = "ADR" THEN Put(Put(word, imm, 2, 29), Down(imm, 2), 19, 5)
    ELSE Put(word, imm, ImmField(type)[1], ImmField(type)[2])

RegShift(type) == CASE type \in {"RT", "RD"} -> 0 [] type = "RN" -> 5
                    [] type \in {"RT2", "RA"} -> 10 [] type = "RM" -> 16
encode_register(type, word, reg) ==
    IF reg \notin 0..31 THEN {} ELSE Put(word, BitsOf(reg), 5, RegShift(type))

encode_ldst_size(size, word) ==
    Put(word, BitsOf(CASE size = 8 -> 0 [] size = 16 -> 1 [] size = 32 -> 2 [] size = 64 -> 3), 2, 30)

Sf(variant, word) == IF variant = 64 THEN word \cup AARCH64_INSN_SF_BIT ELSE word

(* Displacements and immediates are numbers here; Field(n, w) is n & mask.  *)
Field(n, width) == BitsOf(n % 2 ^ width)
branch_bad(pc, addr, range) ==
    pc % 4 # 0 \/ addr % 4 # 0 \/ addr - pc < -range \/ addr - pc >= range
SZ_1M == 2 ^ 20
SZ_128M == 2 ^ 27

gen_branch_imm(pc, addr, op) ==
    Guard(branch_bad(pc, addr, SZ_128M) \/ op \notin {"b", "bl"},
          encode_immediate("26", Value[op], Field((addr - pc) \div 4, 26)))

gen_comp_branch_imm(pc, addr, reg, variant, op) ==
    Guard(branch_bad(pc, addr, SZ_1M) \/ op \notin {"cbz", "cbnz"},
          encode_immediate("19", encode_register("RT", Sf(variant, Value[op]), reg),
                           Field((addr - pc) \div 4, 19)))

gen_cond_branch_imm(pc, addr, cond) ==
    Guard(branch_bad(pc, addr, SZ_1M) \/ cond \notin 0..14,
          encode_immediate("19", Value["bcond"] \cup BitsOf(cond), Field((addr - pc) \div 4, 19)))

gen_hint(op) == Value["hint"] \cup Up(BitsOf(op), 5)

gen_branch_reg(reg, op) ==
    Guard(op \notin {"br", "blr", "ret"}, encode_register("RN", Value[op], reg))

gen_load_store_reg(reg, base, offset, size, op) ==
    Guard(op \notin {"ldr_reg", "str_reg"},
          encode_register("RM", encode_register("RN", encode_register("RT",
              encode_ldst_size(size, Value[op]), reg), base), offset))

gen_load_store_pair(reg1, reg2, base, offset, variant, op) ==
    LET unit == variant \div 8
    IN Guard(offset % unit # 0 \/ offset < -64 * unit \/ offset > 63 * unit,
             encode_immediate("7", encode_register("RN", encode_register("RT2",
                 encode_register("RT", Sf(variant, Value[op]), reg1), reg2), base),
                 Field(offset \div unit, 7)))

gen_add_sub_imm(dst, src, imm, variant, op) ==
    Guard(imm \notin 0..4095,
          encode_immediate("12", encode_register("RN", encode_register("RD",
              Sf(variant, Value[op]), dst), src), BitsOf(imm)))

gen_bitfield(dst, src, immr, imms, variant, op) ==
    LET base == Sf(variant, Value[op]) \cup (IF variant = 64 THEN AARCH64_INSN_N_BIT ELSE {})
    IN Guard(~({immr, imms} \subseteq 0..variant - 1),
             encode_immediate("S", encode_immediate("R", encode_register("RN",
                 encode_register("RD", base, dst), src), BitsOf(immr)), BitsOf(imms)))

gen_movewide(dst, imm, shift, variant, op) ==
    Guard(imm \notin 0..65535 \/ shift \notin {16 * k : k \in 0..(variant \div 16 - 1)},
          encode_immediate("16", encode_register("RD",
              Sf(variant, Value[op]) \cup Up(BitsOf(shift \div 16), 21), dst), BitsOf(imm)))

Regs3(word, dst, src, reg) ==
    encode_register("RM", encode_register("RN", encode_register("RD", word, dst), src), reg)

gen_add_sub_shifted_reg(dst, src, reg, shift, variant, op) ==
    Guard(shift \notin 0..variant - 1,
          encode_immediate("6", Regs3(Sf(variant, Value[op]), dst, src, reg), BitsOf(shift)))

gen_data1(dst, src, variant, op) ==
    Guard(op = "rev64" /\ variant # 64,
          encode_register("RN", encode_register("RD", Sf(variant, Value[op]), dst), src))

gen_data2(dst, src, reg, variant, op) == Regs3(Sf(variant, Value[op]), dst, src, reg)

gen_data3(dst, src, reg1, reg2, variant, op) ==
    encode_register("RM", encode_register("RN", encode_register("RA",
        encode_register("RD", Sf(variant, Value[op]), dst), src), reg1), reg2)

gen_logical_shifted_reg(dst, src, reg, shift, variant, op) ==
    Guard(shift \notin 0..variant - 1,
          encode_immediate("6", Regs3(Sf(variant, Value[op]), dst, src, reg), BitsOf(shift)))

(* aarch64_get_insn_class, on bits 25 to 28.                                *)
insn_class(word) ==
    LET n == NumOf(Down(word, 25) \cap 0..3)
    IN CASE n \in 0..3 -> "unknown" [] n \in {4, 6, 12, 14} -> "ldst"
         [] n \in {5, 13} -> "dp_reg" [] n \in {7, 15} -> "dp_fpsimd"
         [] n \in {8, 9} -> "dp_imm" [] n \in {10, 11} -> "br_sys"
HintYieldToSevl == {BitsOf(32 * k) : k \in 1..5}
insn_is_nop(word) == InsnIs("hint", word) /\ word \cap GENMASK(11, 5) \notin HintYieldToSevl
hotpatch_safe(word) ==
    /\ insn_class(word) = "br_sys"
    /\ \/ \E op \in {"b", "bl", "svc", "hvc", "smc", "brk"} : InsnIs(op, word)
       \/ insn_is_nop(word)
=============================================================================
