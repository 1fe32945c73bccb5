----------------------------- MODULE ToolsInsn ------------------------------
(***************************************************************************)
(* tools/insn.c: the host's copy of the encoder, which answers             *)
(* AARCH64_BREAK_FAULT (Panic here) where the kernel's panics, with what   *)
(* only the host has: decoders, exclusive loads, prefetches, logical       *)
(* immediates, EXTR and the AArch32 condition checks.  One request at a    *)
(* time to either encoder.  pstate is a set of bits too.                   *)
(***************************************************************************)
EXTENDS Insn

CONSTANT Requests
VARIABLES request, answer

qvars == <<request, answer>>

ToolValue == [
    adr |-> {28}, adrp |-> {31, 28}, prfm |-> Hex(<<3,9,8,0,0,0,0,0>>),
    prfm_lit |-> Hex(<<13,8,0,0,0,0,0,0>>), ldr_lit |-> Hex(<<1,8,0,0,0,0,0,0>>),
    ldrsw_lit |-> Hex(<<9,8,0,0,0,0,0,0>>),
    load_ex |-> Hex(<<0,8,4,0,0,0,0,0>>), store_ex |-> Hex(<<0,8,0,0,0,0,0,0>>),
    and_imm |-> Hex(<<1,2,0,0,0,0,0,0>>), orr_imm |-> Hex(<<3,2,0,0,0,0,0,0>>),
    eor_imm |-> Hex(<<5,2,0,0,0,0,0,0>>), ands_imm |-> Hex(<<7,2,0,0,0,0,0,0>>),
    extr |-> Hex(<<1,3,8,0,0,0,0,0>>), tbz |-> Hex(<<3,6,0,0,0,0,0,0>>),
    tbnz |-> Hex(<<3,7,0,0,0,0,0,0>>),
    mrs |-> Hex(<<13,5,3,0,0,0,0,0>>), msr_reg |-> Hex(<<13,5,1,0,0,0,0,0>>)]
ToolMask(op) ==
    CASE op \in {"adr", "adrp"} -> Hex(<<9,15,0,0,0,0,0,0>>)
      [] op = "prfm" -> Hex(<<3,15,12,0,0,0,0,0>>)
      [] op \in {"prfm_lit", "ldrsw_lit"} -> Hex(<<15,15,0,0,0,0,0,0>>)
      [] op = "ldr_lit" -> Hex(<<11,15,0,0,0,0,0,0>>)
      [] op \in {"load_ex", "store_ex"} -> Hex(<<3,15,4,0,0,0,0,0>>)
      [] op \in {"and_imm", "orr_imm", "eor_imm", "ands_imm"} -> Hex(<<7,15,8,0,0,0,0,0>>)
      [] op = "extr" -> Hex(<<7,15,10,0,0,0,0,0>>)
      [] op \in {"cbz", "cbnz", "tbz", "tbnz"} -> Hex(<<7,15,0,0,0,0,0,0>>)
      [] op \in {"mrs", "msr_reg"} -> Hex(<<15,15,15,0,0,0,0,0>>)
      [] OTHER -> Mask(op)
ToolIs(op, word) ==
    word \cap ToolMask(op) = (IF op \in DOMAIN ToolValue THEN ToolValue[op] ELSE Value[op])
ToolOp == DOMAIN ToolValue \cup Op

insn_is_branch_imm(word) ==
    \E op \in {"b", "bl", "tbz", "tbnz", "cbz", "cbnz", "bcond"} : ToolIs(op, word)
insn_uses_literal(word) ==
    \E op \in {"ldr_lit", "ldrsw_lit", "adr", "adrp", "prfm_lit"} : ToolIs(op, word)
insn_is_branch(word) ==
    insn_is_branch_imm(word) \/ \E op \in {"br", "blr", "ret"} : ToolIs(op, word)

ToolField(type) == IF type = "N" THEN <<1, 22>> ELSE ImmField(type)
decode_immediate(type, word) ==
    IF type = "ADR" THEN (Down(word, 29) \cap 0..1) \cup (Up(Down(word, 5) \cap 0..18, 2))
    ELSE Down(word, ToolField(type)[2]) \cap 0..(ToolField(type)[1] - 1)
tools_encode_immediate(type, word, imm) ==
    IF word = Panic THEN Panic
    ELSE IF type = "N" THEN Put(word, imm, 1, 22) ELSE encode_immediate(type, word, imm)
decode_register(type, word) == NumOf(Down(word, RegShift(type)) \cap 0..4)
ToolRegShift(type) == IF type = "RS" THEN 16 ELSE RegShift(type)
tools_encode_register(type, word, reg) ==
    IF word = Panic \/ reg \notin 0..31 THEN Panic
    ELSE Put(word, BitsOf(reg), 5, ToolRegShift(type))
tools_encode_ldst_size(size, word) == encode_ldst_size(size, word)

(* The generators the host has in common with the kernel.                   *)
tools_gen_branch_imm(pc, addr, op) == gen_branch_imm(pc, addr, op)
tools_gen_comp_branch_imm(pc, addr, reg, variant, op) ==
    gen_comp_branch_imm(pc, addr, reg, variant, op)
(* Here the answer of branch_imm_common, range itself, is not looked at.    *)
tools_gen_cond_branch_imm(pc, addr, cond) ==
    LET offset == IF branch_bad(pc, addr, SZ_1M) THEN SZ_1M ELSE addr - pc
    IN Guard(cond \notin 0..14,
             tools_encode_immediate("19", Value["bcond"] \cup BitsOf(cond), Field(offset \div 4, 19)))
tools_gen_branch_reg(reg, op) == gen_branch_reg(reg, op)
tools_gen_load_store_reg(reg, base, offset, size, op) ==
    gen_load_store_reg(reg, base, offset, size, op)
tools_gen_load_store_pair(reg1, reg2, base, offset, variant, op) ==
    gen_load_store_pair(reg1, reg2, base, offset, variant, op)
(* A value of up to 24 bits, one half of which is zero.                     *)
tools_gen_add_sub_imm(dst, src, imm, variant, op) ==
    Guard(imm \notin 0..2 ^ 24 - 1 \/ (imm >= 4096 /\ imm % 4096 # 0),
          IF imm >= 4096
          THEN gen_add_sub_imm(dst, src, imm \div 4096, variant, op) \cup {22}
          ELSE gen_add_sub_imm(dst, src, imm, variant, op))
tools_gen_bitfield(dst, src, immr, imms, variant, op) ==
    gen_bitfield(dst, src, immr, imms, variant, op)
tools_gen_movewide(dst, imm, shift, variant, op) == gen_movewide(dst, imm, shift, variant, op)
tools_gen_add_sub_shifted_reg(dst, src, reg, shift, variant, op) ==
    gen_add_sub_shifted_reg(dst, src, reg, shift, variant, op)
tools_gen_data1(dst, src, variant, op) == gen_data1(dst, src, variant, op)
tools_gen_data2(dst, src, reg, variant, op) == gen_data2(dst, src, reg, variant, op)
tools_gen_data3(dst, src, reg1, reg2, variant, op) == gen_data3(dst, src, reg1, reg2, variant, op)
tools_gen_logical_shifted_reg(dst, src, reg, shift, variant, op) ==
    gen_logical_shifted_reg(dst, src, reg, shift, variant, op)

gen_load_store_ex(reg, base, state, size, op) ==
    tools_encode_register("RS", tools_encode_register("RT2", tools_encode_register("RN",
        tools_encode_register("RT", tools_encode_ldst_size(size, ToolValue[op]), reg), base), 31), state)

encode_prfm_imm(type, target, policy, word) ==
    (word \ GENMASK(4, 0)) \cup BitsOf(policy + 2 * target + 8 * type)
gen_prefetch(base, type, target, policy) ==
    tools_encode_immediate("12", tools_encode_register("RN",
        encode_prfm_imm(type, target, policy, encode_ldst_size(64, ToolValue["prfm"])), base), {})

gen_extr(rm, rn, rd, lsb, variant) ==
    LET word == IF variant = 64 THEN tools_encode_immediate("N", Sf(64, ToolValue["extr"]), {0})
                ELSE ToolValue["extr"]
    IN Guard(lsb \notin 0..variant - 1, Regs3(tools_encode_immediate("S", word, BitsOf(lsb)), rd, rn, rm))

---------------------------------------------------------------------------
(* Branch offsets.                                                          *)
BranchField(word) ==
    IF ToolIs("b", word) \/ ToolIs("bl", word) THEN <<"26", 26>>
    ELSE IF \E op \in {"cbz", "cbnz", "bcond"} : ToolIs(op, word) THEN <<"19", 19>>
    ELSE <<"14", 14>>
get_branch_offset(word) ==
    LET f == BranchField(word)
        imm == NumOf(decode_immediate(f[1], word))
    IN 4 * (IF imm >= 2 ^ (f[2] - 1) THEN imm - 2 ^ f[2] ELSE imm)
MutantSetOffset(word, offset) ==                \* the old offset shines through
    word \cup tools_encode_immediate(BranchField(word)[1], word,
                                     Field(offset \div 4, BranchField(word)[2]))
set_branch_offset(word, offset) ==
    tools_encode_immediate(BranchField(word)[1], word, Field(offset \div 4, BranchField(word)[2]))

(* Offsets of an s32: bit 31 is the sign.                                   *)
adrp_get_offset(word) == Up(decode_immediate("ADR", word), 12) \cap 0..31
adrp_set_offset(word, offset) ==
    tools_encode_immediate("ADR", word, Down(offset, 12) \cup (IF 31 \in offset THEN {20} ELSE {}))

(* __check_eq ... __check_al: bits 31 to 28 of pstate are N, Z, C and V.    *)
Xor(a, c) == (a \ c) \cup (c \ a)
cond_checks(cond, pstate) ==
    LET nv == Xor(pstate, Up(pstate, 3))
        holds == CASE cond \div 2 = 0 -> 30 \in pstate
                   [] cond \div 2 = 1 -> 29 \in pstate
                   [] cond \div 2 = 2 -> 31 \in pstate
                   [] cond \div 2 = 3 -> 28 \in pstate
                   [] cond \div 2 = 4 -> 29 \in pstate \ Down(pstate, 1)
                   [] cond \div 2 = 5 -> 31 \notin nv
                   [] cond \div 2 = 6 -> 31 \notin nv \cup Up(pstate, 1)
                   [] OTHER -> TRUE
    IN IF cond < 14 /\ cond % 2 = 1 THEN ~holds ELSE holds

(* Logical immediates.                                                      *)
Lowest(s) == CHOOSE k \in s : \A j \in s : k <= j
Highest(s) == CHOOSE k \in s : \A j \in s : k >= j
range_of_ones(val) == val # {} /\ val = Lowest(val)..Highest(val)
fls(val) == IF val \cap 0..31 = {} THEN 0 ELSE Highest(val \cap 0..31) + 1    \* int fls(u32)

(* The element sizes the loop tries, down to the first that does not repeat *)
ElementSize(imm, variant) ==
    LET repeats(k) == imm \cap 0..k - 1 = Down(imm, k) \cap 0..k - 1
    IN CHOOSE e \in {2, 4, 8, 16, 32, 64} :
          /\ e <= variant
          /\ \A k \in {2, 4, 8, 16, 32} : k >= e /\ k < variant => repeats(k)
          /\ e = 2 \/ ~repeats(e \div 2)

encode_logical(imm, variant, word) ==
    LET esz == ElementSize(imm, variant)
        mask == IF esz = variant THEN 0..63 ELSE 0..esz - 1
        low == imm \cap mask
        ones == Cardinality(low)
        imms == BitsOf(ones - 1) \cup (CASE esz = 2 -> 2..5 [] esz = 4 -> 3..5 [] esz = 8 -> 4..5
                                         [] esz = 16 -> {5} [] OTHER -> {})
        holes == mask \ low
        ror == IF range_of_ones(low) THEN Lowest(low) ELSE fls(holes)
        fields == tools_encode_immediate("S", tools_encode_immediate("R",
                      tools_encode_immediate("N", Sf(variant, word), IF esz = 64 THEN {0} ELSE {}),
                      BitsOf((esz - ror) % esz)), imms \cap 0..5)
    IN IF imm \in {{}, 0..63} \/ ~(imm \subseteq 0..variant - 1) THEN Panic
       ELSE IF ~range_of_ones(low) /\ ~range_of_ones(holes) THEN Panic
       ELSE fields
gen_logical_immediate(op, variant, rn, rd, imm) ==
    encode_logical(imm, variant,
        tools_encode_register("RN", tools_encode_register("RD", ToolValue[op], rd), rn))

---------------------------------------------------------------------------
ToolsInit == request \in Requests /\ answer = <<>>
Answer(kind, value) ==
    /\ answer = <<>> /\ request.kind = kind
    /\ answer' = <<value>>
    /\ UNCHANGED request

(* A request names the word a generator made, the fields it should have, or *)
(* ok = FALSE if the instruction does not exist.                            *)
Generate == Answer("generate", request.word)
MoveBranch == Answer("branch", set_branch_offset(request.word, request.offset))
MoveAdrp == Answer("adrp", adrp_set_offset(request.word, request.offset))
CheckCondition == Answer("condition", cond_checks(request.cond, request.pstate))
EncodeLogical ==
    Answer("logical", gen_logical_immediate("orr_imm", request.variant, 3, 17, request.imm))

ToolsNext == Generate \/ MoveBranch \/ MoveAdrp \/ CheckCondition \/ EncodeLogical

---------------------------------------------------------------------------
FieldAt(word, shift, width) == NumOf(Down(word, shift) \cap 0..width - 1)

(* Both encoders: every argument is in the field the architecture reads it  *)
(* from, however many were put into the word, the word is recognised as     *)
(* what it was made for and as nothing else, and what cannot be encoded is  *)
(* refused (the BUG_ONs and AARCH64_BREAK_FAULTs), nothing else.            *)
GeneratedWordsDecode ==
    answer # <<>> /\ request.kind = "generate" =>
        LET word == answer[1]
        IN /\ word = Panic <=> ~request.ok
           /\ request.ok =>
                /\ \A f \in request.fields : FieldAt(word, f[1], f[2]) = f[3]
                /\ {op \in ToolOp : ToolIs(op, word)} = {request.op}
                /\ ~insn_uses_literal(word)
                /\ hotpatch_safe(word) <=>
                     \/ request.op \in {"b", "bl"}
                     \/ request.op = "hint" /\ FieldAt(word, 5, 7) \notin 1..5

(* DecodeBitMasks of the architecture manual.                               *)
DecodeBitMasks(word, variant) ==
    LET n == IF 22 \in word THEN {6} ELSE {}
        len == Highest(n \cup {k \in 0..5 : k + 10 \notin word})
        esize == 2 ^ len
        ones == FieldAt(word, 10, len) + 1
        rotate == FieldAt(word, 16, len)
    IN {k \in 0..variant - 1 : ((k % esize) + rotate) % esize < ones}

(* What the host writes it reads back: a branch moved goes where it was sent *)
(* and is otherwise the branch it was, an ADRP has the signed offset it was given, *)
(* a condition holds as ConditionHolds of the architecture manual says, a   *)
(* logical immediate of ones that do not wrap round its element decodes to  *)
(* itself.                                                                  *)
HostReadsItsWords ==
    answer # <<>> =>
      /\ request.kind = "branch" =>
            /\ get_branch_offset(answer[1]) = request.offset
            /\ \A op \in ToolOp : ToolIs(op, answer[1]) = ToolIs(op, request.word)
            /\ \A offset \in {0, 4} : set_branch_offset(answer[1], offset)
                                        = set_branch_offset(request.word, offset)
            /\ insn_is_branch(answer[1])
      /\ request.kind = "adrp" =>
            /\ adrp_get_offset(answer[1]) = request.offset
            /\ 20 \in decode_immediate("ADR", answer[1]) <=> 31 \in request.offset
            /\ ToolIs("adrp", answer[1]) /\ insn_uses_literal(answer[1])
      /\ request.kind = "condition" =>
            LET p == request.pstate
                n == 31 \in p  z == 30 \in p  c == 29 \in p  v == 28 \in p
                table == <<z, ~z, c, ~c, n, ~n, v, ~v, c /\ ~z, ~c \/ z,
                           n = v, n # v, ~z /\ n = v, z \/ n # v, TRUE, TRUE>>
            IN answer[1] = table[request.cond + 1]
      /\ request.kind = "logical" =>
            /\ (answer[1] = Panic <=> ~request.ok)
            /\ request.ok =>
                /\ DecodeBitMasks(answer[1], request.variant) = request.imm
                /\ ToolIs("orr_imm", answer[1]) /\ decode_register("RN", answer[1]) = 3
                /\ decode_register("RD", answer[1]) = 17

\* The generators and the decoders of both copies of insn.c: a generated word is
\* the instruction asked for, and the host reads back what it wrote.
WordsSayWhatWasAsked == GeneratedWordsDecode /\ HostReadsItsWords
=============================================================================
