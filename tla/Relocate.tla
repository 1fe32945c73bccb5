------------------------------ MODULE Relocate ------------------------------
(***************************************************************************)
(* hook_prepare and hook_install of kernel/base/hook.c: the first words of *)
(* a function are overwritten by a trampoline and rewritten into           *)
(* relo_insts, from where the original function (the "backup") runs.       *)
(*                                                                         *)
(* A word is [op, rt, imm]: a register and the raw field that holds its    *)
(* displacement, in words (ADRP: pages; ADR: bytes).  Exec is the          *)
(* processor, on just the instructions that occur; it runs the relocated   *)
(* words (cpu) beside the words they replace (ref).                        *)
(* Values: what a register held at first, an address, what an address      *)
(* holds, or Junk.  X17 is the scratch register IP1: a branch may lose it. *)
(***************************************************************************)
EXTENDS Integers, Sequences, SequencesExt

CONSTANTS
    Functions,          \* the words found at func_addr: sequences
    ORIGIN, RELO, REPLACE,       \* func_addr, relo_addr and replace_addr
    RELOCATE_INST_NUM   \* the size of relo_insts

TRAMPOLINE_MAX_NUM == 6
HOOK_BAD_ADDRESS == 4095
HOOK_BAD_RELO == 4092

VARIABLES
    phase,      \* "resolve", "prepare", "run", "failed"
    code,       \* the words at ORIGIN, ORIGIN + 4, ...
    origin,     \* hook->origin_addr: where branch_func_addr has got to
    hook,       \* hook->origin_insts, tramp_insts and relo_insts
    cpu,        \* a thread inside the backup
    ref,        \* the same thread had the function not been hooked
    taken       \* whether the condition of the instruction under way holds

rvars == <<phase, code, origin, hook, cpu, ref, taken>>

W(op, rt, imm) == [op |-> op, rt |-> rt, imm |-> imm]
NOP == W("nop", 0, 0)
Junk == <<"junk", "", 0>>
Lost == <<"any", "", 0>>
Addr(a) == <<"addr", "", a>>
Reg == {0, 16, 17, 30, 100}     \* X0, X16, X17, X30; V0 is 100
Scratch == 17

BranchOps == {"b", "bc", "bl", "cbz", "cbnz", "tbz", "tbnz"}
CondOps == BranchOps \ {"b", "bl"}
LdrOps == {"ldr32", "ldr64", "ldrsw", "prfm", "simd32", "simd64", "simd128"}

(* The architecture: widths of the fields and what each word does.          *)
Width(op) == CASE op \in {"b", "bl"} -> 26
               [] op \in {"tbz", "tbnz"} -> 14
               [] op \in {"adr", "adrp"} -> 21
               [] OTHER -> 19
Signed(v, w) == IF v >= 2 ^ (w - 1) THEN v - 2 ^ w ELSE v
Disp(w) == Signed(w.imm, Width(w.op))

InWords(words, base, a) == a >= base /\ a < base + 4 * Len(words)
WordAt(words, base, a) == words[(a - base) \div 4 + 1]

(* A load of the given kind: the pair of words of a trampoline, or memory.  *)
Load(words, base, kind, a) ==
    IF InWords(words, base, a)
    THEN IF /\ kind = "64" /\ InWords(words, base, a + 4)
            /\ WordAt(words, base, a).op = "lo" /\ WordAt(words, base, a + 4).op = "hi"
            /\ WordAt(words, base, a).imm = WordAt(words, base, a + 4).imm
         THEN Addr(WordAt(words, base, a).imm) ELSE Junk
    ELSE <<"load", kind, a>>

Kind(op) == CASE op \in {"ldr32", "ldr32r"} -> "32"
              [] op \in {"ldr64", "ldr64r"} -> "64"
              [] op \in {"ldrsw", "ldrswr"} -> "sw"
              [] op \in {"simd32", "simd32r"} -> "s"
              [] op \in {"simd64", "simd64r"} -> "d"
              [] OTHER -> "q"

Exec(words, base, s, cond) ==
    LET w == WordAt(words, base, s.pc)
        next == [s EXCEPT !.pc = @ + 4]
        to(a) == [s EXCEPT !.pc = a]
        set(r, v) == [next EXCEPT !.x[r] = v]
        dest == IF w.op \in {"simd32", "simd64", "simd128", "simd32r", "simd64r", "simd128r"}
                THEN w.rt + 100 ELSE w.rt
    IN CASE w.op = "b" -> to(s.pc + 4 * Disp(w))
         [] w.op = "bl" -> [to(s.pc + 4 * Disp(w)) EXCEPT !.x[30] = Addr(s.pc + 4)]
         [] w.op \in CondOps -> IF cond THEN to(s.pc + 4 * Disp(w)) ELSE next
         [] w.op = "ret" -> to(IF s.x[w.rt][1] = "addr" THEN s.x[w.rt][3] ELSE -1)
         [] w.op = "adr" -> set(w.rt, Addr(s.pc + Disp(w)))
         [] w.op = "adrp" -> set(w.rt, Addr((s.pc \div 4096 + Disp(w)) * 4096))
         [] w.op = "add" -> set(w.rt, Addr(s.x[w.rt][3] + w.imm))
         [] w.op = "prfm" -> next
         [] w.op \in LdrOps \ {"prfm"} ->
                set(dest, Load(words, base, Kind(w.op), s.pc + 4 * Disp(w)))
         [] w.op \in {"ldr32r", "ldr64r", "ldrswr", "simd32r", "simd64r", "simd128r"} ->
                set(dest, IF s.x[w.imm][1] # "addr" THEN Junk
                          ELSE Load(words, base, Kind(w.op), s.x[w.imm][3]))
         [] w.op = "stp" -> [next EXCEPT !.below = <<s.x[16], s.x[17]>>]
         [] w.op = "ldur" -> set(w.rt, s.below[2])
         [] w.op \in {"lo", "hi"} -> to(-1)
         [] OTHER -> next       \* nop, bti, pac, prfmr and plain words

---------------------------------------------------------------------------
(* hook.c: the words relocate_inst writes for one instruction.              *)
sign64_extend(n, len) == IF (n \div 2 ^ (len - 1)) % 2 = 1 THEN n - 2 ^ len ELSE n

(* relo_len, in the order of types[].                                       *)
ReloLen(op) == CASE op \in {"adr", "adrp"} -> 4
                 [] op \in {"bc", "bl", "prfm", "simd32", "simd64", "simd128"} -> 8
                 [] op \in {"b", "ldr32", "ldr64", "ldrsw", "cbz", "cbnz", "tbz", "tbnz"} -> 6
                 [] OTHER -> 2

(* The index in relo_insts of what replaces word i of the trampoline.       *)
ReloIndex(insts, i) ==
    FoldLeft(LAMBDA n, w : n + ReloLen(w.op), 0, SubSeq(insts, 1, i))

is_in_tramp(h, addr) == addr >= h.origin /\ addr < h.origin + 4 * h.num

MutantRelo(h, addr) == addr        \* a branch into the trampoline left as it was
relo_in_tramp(h, addr) ==
    IF is_in_tramp(h, addr)
    THEN RELO + 4 * ReloIndex(h.insts, (addr - h.origin) \div 4) ELSE addr

ldr17(words) == W("ldr64", 17, words)          \* LDR X17, #(4 * words)
jump(words) == W("b", 0, words)
ret17 == W("ret", 17, 0)
pair(addr) == <<W("lo", 0, addr), W("hi", 0, addr)>>

BranchAddr(h, pc, w) ==
    relo_in_tramp(h, pc + (IF w.op = "bc" THEN sign64_extend(4 * w.imm, 21)
                           ELSE sign64_extend(4 * w.imm, 28)))

relo_b(h, pc, w) ==
    (IF w.op = "bc" THEN <<[w EXCEPT !.imm = 2], jump(6)>> ELSE <<>>)
    \o <<ldr17(2), jump(3)>> \o pair(BranchAddr(h, pc, w))
    \o (IF w.op = "bl" THEN <<W("adr", 30, 0), W("add", 30, 12)>> ELSE <<>>)
    \o <<ret17, NOP>>

AdrAddr(pc, w) ==
    LET immlo == w.imm % 4
        immhi == w.imm \div 4
    IN IF w.op = "adr" THEN pc + sign64_extend(4 * immhi + immlo, 21)
       ELSE ((pc + 4096 * sign64_extend(4 * immhi + immlo, 21)) \div 4096) * 4096

relo_adr(pc, w) == <<W("ldr64", w.rt, 2), jump(3)>> \o pair(AdrAddr(pc, w))

LdrAddr(pc, w) == pc + sign64_extend(4 * w.imm, 21)

relo_ldr(h, pc, w) ==
    LET addr == relo_in_tramp(h, LdrAddr(pc, w))
        through == CASE w.op = "ldr32" -> "ldr32r" [] w.op = "ldr64" -> "ldr64r"
                     [] w.op = "ldrsw" -> "ldrswr" [] w.op = "prfm" -> "prfmr"
                     [] w.op = "simd32" -> "simd32r" [] w.op = "simd64" -> "simd64r"
                     [] OTHER -> "simd128r"
    IN IF w.op \in {"ldr32", "ldr64", "ldrsw"}
       THEN <<W("ldr64", w.rt, 3), W(through, w.rt, w.rt), jump(4), NOP>> \o pair(addr)
       ELSE <<W("stp", 16, 0), ldr17(4), W(through, w.rt, 17), W("ldur", 17, 0), jump(4), NOP>>
            \o pair(addr)

relo_cb(h, pc, w) ==
    <<[w EXCEPT !.imm = 2], jump(5), ldr17(2), ret17>>
    \o pair(relo_in_tramp(h, pc + sign64_extend(4 * w.imm, 21)))

relo_tb(h, pc, w) ==
    <<[w EXCEPT !.imm = 2], jump(5), ldr17(2), ret17>>
    \o pair(relo_in_tramp(h, pc + sign64_extend(4 * w.imm, 16)))

relo_ignore(w) == <<w, NOP>>

(* The two cases in which an address inside the trampoline is refused.      *)
BadRelo(h, pc, w) ==
    \/ w.op = "adrp" /\ is_in_tramp(h, AdrAddr(pc, w))
    \/ w.op \in LdrOps \ {"prfm"} /\ is_in_tramp(h, LdrAddr(pc, w))

relocate_inst(h, pc, w) ==
    CASE w.op \in {"b", "bc", "bl"} -> relo_b(h, pc, w)
      [] w.op \in {"adr", "adrp"} -> relo_adr(pc, w)
      [] w.op \in LdrOps -> relo_ldr(h, pc, w)
      [] w.op \in {"cbz", "cbnz"} -> relo_cb(h, pc, w)
      [] w.op \in {"tbz", "tbnz"} -> relo_tb(h, pc, w)
      [] OTHER -> relo_ignore(w)

(* branch_from_to is ret_absolute: four words.                              *)
ret_absolute(addr) == <<ldr17(2), ret17>> \o pair(addr)
branch_from_to(addr) == ret_absolute(addr)

(* branch_func_addr_once: a function that starts with a branch or a landing *)
(* pad is hooked behind it; BTI JC is passed unless it is the first word of *)
(* a trampoline.                                                            *)
BranchFuncAddrOnce(words, hooked, a) ==
    LET w == WordAt(words, ORIGIN, a)
    IN IF ~InWords(words, ORIGIN, a) THEN a
       ELSE IF w.op = "b" THEN a + sign64_extend(4 * w.imm, 28)
       ELSE IF w.op \in {"bti_c", "bti_j"} \/ (w.op = "bti_jc" /\ a \notin hooked) THEN a + 4
       ELSE a

BranchFuncAddr(words, hooked) ==
    LET at[n \in 0..Len(words)] ==
            IF n = 0 THEN ORIGIN ELSE BranchFuncAddrOnce(words, hooked, at[n - 1])
    IN at[Len(words)]

(* branch_relative, exported; branch_from_to does not use it.               *)
B_REL_RANGE == 2 ^ 27
can_b_rel(src, dst) == \/ dst >= src /\ dst - src <= B_REL_RANGE
                       \/ src >= dst /\ src - dst <= B_REL_RANGE
branch_relative(src, dst) ==
    IF can_b_rel(src, dst) THEN <<W("b", 0, ((dst - src) % 2 ^ 28) \div 4), NOP>> ELSE <<>>

---------------------------------------------------------------------------
NoHook == [origin |-> 0, num |-> 0, insts |-> <<>>, tramp |-> <<>>, relo |-> <<>>,
           old |-> <<>>, err |-> 0]
Fresh(pc) == [pc |-> pc, below |-> <<Junk, Junk>>,
              x |-> [r \in Reg |-> <<"init", "", r>>]]

RelocateInit ==
    /\ phase = "prepare"
    /\ code \in Functions
    /\ origin = BranchFuncAddr(code, {})
    /\ hook = NoHook
    /\ cpu = Fresh(RELO) /\ ref = Fresh(origin)
    /\ taken = FALSE

Overwrite(words, base, a, new) ==
    [i \in 1..Len(words) |->
        LET k == i - (a - base) \div 4
        IN IF k \in 1..Len(new) THEN new[k] ELSE words[i]]

Fail(err) ==
    /\ phase' = "failed"
    /\ hook' = [NoHook EXCEPT !.err = err]
    /\ UNCHANGED <<code, origin, cpu, ref, taken>>

(* The relocated words of the instructions the trampoline takes the place of *)
Relocated(h, insts) ==
    FoldLeftDomain(LAMBDA words, i : words \o relocate_inst(h, h.origin + 4 * (i - 1), insts[i]),
                   <<>>, insts)
MutantMoved(h) == Relocated(h, h.insts)     \* all six words that were read
Moved(h) == Relocated(h, SubSeq(h.insts, 1, h.num))

(* hook_prepare(hook), then hook_install(hook).                             *)
Prepared ==
    LET insts == SubSeq(code, (origin - ORIGIN) \div 4 + 1,
                        (origin - ORIGIN) \div 4 + TRAMPOLINE_MAX_NUM)
        pac == insts[1].op = "pac"
        tramp == (IF pac THEN <<W("bti_jc", 0, 0)>> ELSE <<>>) \o branch_from_to(REPLACE)
        h == [NoHook EXCEPT !.origin = origin, !.num = Len(tramp), !.insts = insts,
                            !.tramp = tramp, !.old = code]
        pc(i) == origin + 4 * (i - 1)
        bad == \E i \in 1..h.num : BadRelo(h, pc(i), insts[i])
    IN [h EXCEPT !.err = IF bad THEN HOOK_BAD_RELO ELSE 0,
                 !.relo = Moved(h) \o branch_from_to(origin + 4 * h.num)]

hook_prepare(bad) ==
    /\ phase = "prepare"
    /\ IF bad THEN Fail(HOOK_BAD_ADDRESS)
       ELSE LET h == Prepared
            IN IF h.err # 0 THEN Fail(h.err)
               ELSE /\ phase' = "run"
                    /\ hook' = h
                    /\ code' = Overwrite(code, ORIGIN, origin, h.tramp)
                    /\ UNCHANGED <<origin, cpu, ref, taken>>

(* The number of the instruction whose relocated words start at pc; 0: none *)
Block(pc) ==
    IF \E i \in 0..hook.num - 1 : pc = RELO + 4 * ReloIndex(hook.insts, i)
    THEN 1 + CHOOSE i \in 0..hook.num - 1 : pc = RELO + 4 * ReloIndex(hook.insts, i)
    ELSE 0

InRelo(pc) == InWords(hook.relo, RELO, pc)

(* What the instruction itself would have done; a branch may lose X17.      *)
RefStep(s, cond) ==
    LET w == WordAt(hook.old, ORIGIN, s.pc)
        after == Exec(hook.old, ORIGIN, s, cond)
    IN IF w.op \in {"b", "bl"} \/ (w.op \in CondOps /\ cond)
       THEN [after EXCEPT !.x[Scratch] = Lost] ELSE after

(* The backup executes one word; at the first word of an instruction the    *)
(* condition is chosen and the original takes the same step.                *)
RunBackup ==
    /\ phase = "run" /\ InRelo(cpu.pc)
    /\ \E t \in IF Block(cpu.pc) # 0 /\ WordAt(hook.relo, RELO, cpu.pc).op \in CondOps
                THEN BOOLEAN ELSE {taken} :
        /\ taken' = t
        /\ cpu' = Exec(hook.relo, RELO, cpu, t)
        /\ ref' = IF Block(cpu.pc) # 0 THEN RefStep(ref, t) ELSE ref
    /\ UNCHANGED <<phase, code, origin, hook>>

(* The code outside, a function called by a relocated BL, returns; it may   *)
(* have used X17.                                                           *)
Returned(s) == [s EXCEPT !.pc = s.x[30][3]]
CalleeReturns ==
    /\ phase = "run" /\ ~InRelo(cpu.pc)
    /\ cpu.x[30][1] = "addr" /\ ref.x[30][1] = "addr"
    /\ ref.pc # ref.x[30][3]
    /\ cpu' = Returned(cpu) /\ ref' = [Returned(ref) EXCEPT !.x[Scratch] = Lost]
    /\ UNCHANGED <<phase, code, origin, hook, taken>>

hook_uninstall ==
    /\ phase = "run"
    /\ phase' = "unhooked"
    /\ code' = Overwrite(code, ORIGIN, origin, SubSeq(hook.insts, 1, hook.num))
    /\ UNCHANGED <<origin, hook, cpu, ref, taken>>

RelocateNext ==
    \/ \E bad \in BOOLEAN : hook_prepare(bad)
    \/ RunBackup
    \/ CalleeReturns
    \/ hook_uninstall

---------------------------------------------------------------------------
(* Where the backup must be when the original is at a.                      *)
Image(a) == IF is_in_tramp(hook, a)
            THEN RELO + 4 * ReloIndex(hook.insts, (a - hook.origin) \div 4) ELSE a

(* A moved call returns to the NOP at the end of its own words.             *)
ReturnImage(a) == IF is_in_tramp(hook, a - 4)
                  THEN RELO + 4 * ReloIndex(hook.insts, (a - hook.origin) \div 4) - 4 ELSE a

(* "after hook, original func is backuped in backup" (hook.h:251): whenever *)
(* the backup is between two instructions it is where the original is, and  *)
(* its registers hold the same, X17 after a branch or the jump back and the  *)
(* return address of a moved call excepted.                                 *)
BackupIsOriginal ==
    phase = "run" /\ (Block(cpu.pc) # 0 \/ ~InRelo(cpu.pc)) =>
        /\ cpu.pc = Image(ref.pc)
        /\ \A r \in Reg :
              \/ ref.x[r] = Lost \/ (r = Scratch /\ ~InRelo(cpu.pc))
              \/ cpu.x[r] = ref.x[r]
              \/ r = 30 /\ ref.x[r][1] = "addr" /\ cpu.x[r] = Addr(ReturnImage(ref.x[r][3]))

(* hook.c:599: what is written to relo_insts, the jump back included, stays *)
(* inside it: the chain's own fields follow.                                *)
RelocatedFits == phase = "run" => Len(hook.relo) <= RELOCATE_INST_NUM

(* A call of a hooked function arrives at replace_addr with the scratch     *)
(* register changed and nothing else; the hooked function is found again    *)
(* at the same origin address (hook.c:117); unhooking restores the words.   *)
EntersReplace ==
    /\ phase = "run" =>
        /\ LET at[n \in 0..Len(code)] ==
                   IF n = 0 THEN Fresh(ORIGIN)
                   ELSE IF InWords(code, ORIGIN, at[n - 1].pc)
                        THEN Exec(code, ORIGIN, at[n - 1], FALSE) ELSE at[n - 1]
           IN /\ at[Len(code)].pc = REPLACE
              /\ \A r \in Reg \ {Scratch} : at[Len(code)].x[r] = Fresh(ORIGIN).x[r]
        /\ BranchFuncAddr(code, {origin}) = origin
    /\ phase = "unhooked" => code = hook.old

\* What is installed (hook.c:480-600): the copy fits its room, and a call of
\* the function comes to the replacement.
HookIsEntered == RelocatedFits /\ EntersReplace
=============================================================================
