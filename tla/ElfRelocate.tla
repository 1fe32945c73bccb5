---------------------------- MODULE ElfRelocate -----------------------------
(***************************************************************************)
(* kernel/patch/module/relo.c: the relocations of a module, one at a time. *)
(* 64-bit values are sets of bits, two's complement.                       *)
(***************************************************************************)
EXTENDS Insn

CONSTANTS
    Jobs,       \* relocations to be done: [type, place, val, insn]
    ERANGE

VARIABLES job, result       \* the job at hand and what it left

evars == <<job, result>>

Neg1 == 0..63
Add(a, c) ==        \* a + c mod 2^64: c[i] is the carry into bit i
    LET carry[i \in 0..64] ==
            IF i = 0 THEN FALSE
            ELSE (i - 1 \in a /\ i - 1 \in c) \/ (carry[i - 1] /\ (i - 1 \in a \/ i - 1 \in c))
    IN {i \in 0..63 : (i \in a) # ((i \in c) # carry[i])}
Minus(a, c) == Add(a, Add(Neg1 \ c, {0}))
Sar(a, k) ==        \* (s64)a >> k
    Down(a, k) \cup (IF 63 \in a THEN (63 - k)..63 ELSE {})
Low(a, k) == a \cap 0..k - 1

do_reloc(op, place, val) ==
    CASE op = "ABS" -> val
      [] op = "PREL" -> Minus(val, place)
      [] op = "PAGE" -> Minus(val \ 0..11, place \ 0..11)
      [] op = "NONE" -> {}

(* The signed value keeps its sign bit when the upper bits are compared.    *)
MutantUpper(sval, len) == Sar(sval, len)
Upper(sval, len) == Sar(sval, len - 1)

(* (u64)(sval + 1) > 2: the bits above the field are 0, 1 or -1.            *)
reloc_data(op, place, val, len) ==
    LET sval == do_reloc(op, place, val)
    IN [word |-> Low(sval, len),
        ovf |-> IF Upper(sval, len) \in {{}, {0}, Neg1} THEN 0 ELSE -ERANGE]

(* imm is masked before its sign is tested (line 93): it is never negative, *)
(* and imm_type is IMM_16 from then on, so the check is the unsigned one.   *)
reloc_insn_movw(op, place, val, insn, lsb, type) ==
    LET sval == Sar(do_reloc(op, place, val), lsb)
        movz == IF type = "MOVNZ" THEN (insn \ {29, 30}) \cup {30} ELSE insn
    IN [word |-> encode_immediate("16", movz, Low(sval, 16)),
        ovf |-> IF Sar(sval, 16) = {} THEN 0 ELSE -ERANGE]

reloc_insn_imm(op, place, val, insn, lsb, len, type) ==
    LET sval == Sar(do_reloc(op, place, val), lsb)
    IN [word |-> encode_immediate(type, insn, Low(sval, len)),
        ovf |-> IF Upper(sval, len) \in {{}, Neg1} THEN 0 ELSE -ERANGE]

Movw == [
    UABS_G0_NC |-> <<"ABS", 0, "16">>, UABS_G0 |-> <<"ABS", 0, "16">>,
    UABS_G1_NC |-> <<"ABS", 16, "16">>, UABS_G1 |-> <<"ABS", 16, "16">>,
    UABS_G2_NC |-> <<"ABS", 32, "16">>, UABS_G2 |-> <<"ABS", 32, "16">>,
    UABS_G3 |-> <<"ABS", 48, "16">>,
    SABS_G0 |-> <<"ABS", 0, "MOVNZ">>, SABS_G1 |-> <<"ABS", 16, "MOVNZ">>,
    SABS_G2 |-> <<"ABS", 32, "MOVNZ">>,
    PREL_G0_NC |-> <<"PREL", 0, "16">>, PREL_G0 |-> <<"PREL", 0, "MOVNZ">>,
    PREL_G1_NC |-> <<"PREL", 16, "16">>, PREL_G1 |-> <<"PREL", 16, "MOVNZ">>,
    PREL_G2_NC |-> <<"PREL", 32, "16">>, PREL_G2 |-> <<"PREL", 32, "MOVNZ">>,
    PREL_G3 |-> <<"PREL", 48, "MOVNZ">>]
Imm == [
    LD_PREL_LO19 |-> <<"PREL", 2, 19, "19">>, ADR_PREL_LO21 |-> <<"PREL", 0, 21, "ADR">>,
    ADR_PREL_PG_HI21_NC |-> <<"PAGE", 12, 21, "ADR">>,
    ADR_PREL_PG_HI21 |-> <<"PAGE", 12, 21, "ADR">>,
    ADD_ABS_LO12_NC |-> <<"ABS", 0, 12, "12">>, LDST8_ABS_LO12_NC |-> <<"ABS", 0, 12, "12">>,
    LDST16_ABS_LO12_NC |-> <<"ABS", 1, 11, "12">>, LDST32_ABS_LO12_NC |-> <<"ABS", 2, 10, "12">>,
    LDST64_ABS_LO12_NC |-> <<"ABS", 3, 9, "12">>, LDST128_ABS_LO12_NC |-> <<"ABS", 4, 8, "12">>,
    TSTBR14 |-> <<"PREL", 2, 14, "14">>, CONDBR19 |-> <<"PREL", 2, 19, "19">>,
    JUMP26 |-> <<"PREL", 2, 26, "26">>, CALL26 |-> <<"PREL", 2, 26, "26">>]
Data == [ABS64 |-> <<"ABS", 64>>, ABS32 |-> <<"ABS", 32>>, ABS16 |-> <<"ABS", 16>>,
         PREL64 |-> <<"PREL", 64>>, PREL32 |-> <<"PREL", 32>>, PREL16 |-> <<"PREL", 16>>]

(* overflow_check                                                           *)
Unchecked == {"ABS64", "PREL64", "UABS_G0_NC", "UABS_G1_NC", "UABS_G2_NC", "UABS_G3",
              "PREL_G0_NC", "PREL_G1_NC", "PREL_G2_NC", "PREL_G3", "ADR_PREL_PG_HI21_NC",
              "ADD_ABS_LO12_NC", "LDST8_ABS_LO12_NC", "LDST16_ABS_LO12_NC",
              "LDST32_ABS_LO12_NC", "LDST64_ABS_LO12_NC", "LDST128_ABS_LO12_NC"}

Reloc(rel) ==
    CASE rel.type \in DOMAIN Data ->
            reloc_data(Data[rel.type][1], rel.place, rel.val, Data[rel.type][2])
      [] rel.type \in DOMAIN Movw ->
            LET m == Movw[rel.type]
            IN reloc_insn_movw(m[1], rel.place, rel.val, rel.insn, m[2], m[3])
      [] rel.type \in DOMAIN Imm ->
            LET m == Imm[rel.type]
            IN reloc_insn_imm(m[1], rel.place, rel.val, rel.insn, m[2], m[3], m[4])
      [] OTHER -> [word |-> rel.insn, ovf |-> 0]        \* R_AARCH64_NONE

---------------------------------------------------------------------------
ElfInit == job \in Jobs /\ result = [state |-> "none", word |-> {}]

(* One round of apply_relocate_add's loop.                                  *)
Known(type) == type \in DOMAIN Data \cup DOMAIN Movw \cup DOMAIN Imm \cup {"NONE"}
apply_relocate_add ==
    /\ result.state = "none"
    /\ result' = IF ~Known(job.type) THEN [state |-> "failed", word |-> job.insn]
                 ELSE [state |-> IF job.type \notin Unchecked /\ Reloc(job).ovf = -ERANGE
                                 THEN "failed" ELSE "done",
                       word |-> Reloc(job).word]
    /\ UNCHANGED job

ElfNext == apply_relocate_add

---------------------------------------------------------------------------
(* The reference: what a relocated word stands for, by the ELF document.    *)
Extend(a, len) == IF len - 1 \in a THEN a \cup len..63 ELSE a
FieldOf(word, shift, width) == Down(word, shift) \cap 0..width - 1
ImmOf(type, word) ==
    IF type = "ADR" THEN FieldOf(word, 29, 2) \cup Up(FieldOf(word, 5, 19), 2)
    ELSE FieldOf(word, ImmField(type)[2], ImmField(type)[1])
Fits(a, len) == a = Extend(Low(a, len), len)

(* A module is loaded only with references that reach what they name:       *)
(* relo.c:57-61 and :151-154.  The displacement of a relocated instruction, *)
(* shifted back, is S + A - P without the bits below the field (checked     *)
(* relocations) or agrees with it in the field; a value that does not fit   *)
(* is refused, and one that fits is not.                                    *)
RelocationsReach ==
    result.state \in {"done", "failed"} =>
      /\ job.type \in DOMAIN Imm =>
            LET m == Imm[job.type]
                want == do_reloc(m[1], job.place, job.val)
                got == Up(Extend(ImmOf(m[4], result.word) \cap 0..m[3] - 1, m[3]), m[2])
            IN IF job.type \in Unchecked
               THEN got \cap 0..m[2] + m[3] - 1 = (want \ 0..m[2] - 1) \cap 0..m[2] + m[3] - 1
               ELSE result.state = "done" <=> got \cap 0..63 = want \ 0..m[2] - 1
      /\ job.type \in DOMAIN Data =>
            LET want == do_reloc(Data[job.type][1], job.place, job.val)
                len == Data[job.type][2]
            IN /\ result.word = Low(want, len)
               /\ result.state = "done" <=> \/ job.type \in Unchecked
                                           \/ want = Low(want, len) \/ Fits(want, len)
      /\ job.type \in DOMAIN Movw =>
            LET m == Movw[job.type]
                want == Sar(do_reloc(m[1], job.place, job.val), m[2])
            IN /\ FieldOf(result.word, 5, 16) = Low(want, 16)
               /\ result.state = "done" <=> job.type \in Unchecked \/ want = Low(want, 16)
=============================================================================
