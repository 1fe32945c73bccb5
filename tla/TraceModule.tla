---------------------------- MODULE TraceModule -----------------------------
(* The tracing module from outside: how it comes and goes (kpm_init and      *)
(* kpm_exit of accessOffstinlineHook.c), and what becomes of a command line  *)
(* on its way through the program kpm_control.c, which joins the words with  *)
(* colons, and kpm_control, which takes them apart again.  A word is a       *)
(* sequence of characters.  The breakpoints themselves are HwBreakpoint, the *)
(* switches and filters AccessHook, the reading of memory ProcMem.           *)
EXTENDS SequencesExt, FiniteSetsExt, FiniteSets, Integers, TLC

CONSTANTS
    TraceKernels,   \* has: functions it exports, wraps: those hook_wrap takes,
                    \* vital: the symbols without which an init fails, user:
                    \* register_user_hw_breakpoint
    Lines,          \* Command lines: a command and the words after it.
    Pids,           \* Pids of running processes.
    BpSlots         \* The slots of breakpoints[].

VARIABLES
    tkernel,  \* The kernel.
    tlife,    \* "access", "openat", "open", "kill": the step of kpm_init; "up",
              \* "failed", "gone"
    wrapped,  \* The functions whose chains hold a callback of the module.
    place,    \* g_do_faccessat_addr, g_do_sys_openat2_addr, g_sys_kill_addr
    slots,    \* breakpoints, as set.
    reply     \* The last command, what it found, and what it answered and did.

traceVars == <<tkernel, tlife, wrapped, place, slots, reply>>

NoFunction == "null"
NoBp == [addr |-> 0, type |-> 0, size |-> 2, pid |-> 0, desc |-> <<>>]   \* a slot that is free
Bps == 0 .. BpSlots - 1
NoBps == [i \in Bps |-> NoBp]
Kills == <<"__arm64_sys_kill", "__sys_kill", "sys_kill">>
NoReply == [line |-> <<"none">>, before |-> <<>>, ret |-> 0, did |-> <<>>, fits |-> TRUE]
---------------------------------------------------------------------------
(* Coming and going.                                                         *)
\* Mutant: the address is kept when hook_wrap refused.
MutantHookWrap(f, slot, next, otherwise) ==
    /\ place' = [place EXCEPT ![slot] = f]
    /\ wrapped' = wrapped \cup ({f} \cap tkernel.wraps)
    /\ tlife' = IF f \in tkernel.wraps THEN next ELSE otherwise
HookWrap(f, slot, next, otherwise) ==   \* hook_wrap of f, its address kept in slot
    /\ place' = [place EXCEPT ![slot] = IF f \in tkernel.wraps \/ slot = "access" THEN f ELSE NoFunction]
    /\ wrapped' = wrapped \cup ({f} \cap tkernel.wraps)
    /\ tlife' = IF f \in tkernel.wraps THEN next ELSE otherwise
Pass(next) == tlife' = next /\ UNCHANGED <<place, wrapped>>

init_access ==
    /\ tlife = "access"
    /\ IF tkernel.vital /\ "do_faccessat" \in tkernel.has
       THEN HookWrap("do_faccessat", "access", "openat", "failed") ELSE Pass("failed")
init_openat ==
    /\ tlife = "openat"
    /\ IF "do_sys_openat2" \in tkernel.has THEN HookWrap("do_sys_openat2", "openat", "kill", "open") ELSE Pass("open")
init_open ==
    /\ tlife = "open"
    /\ IF "do_sys_open" \in tkernel.has THEN HookWrap("do_sys_open", "openat", "kill", "kill") ELSE Pass("kill")
init_kill ==
    /\ tlife = "kill"
    /\ LET found == {i \in DOMAIN Kills : Kills[i] \in tkernel.has} IN
       IF found # {} THEN HookWrap(Kills[Min(found)], "kill", "up", "up") ELSE Pass("up")
kpm_init == (init_access \/ init_openat \/ init_open \/ init_kill) /\ UNCHANGED <<tkernel, slots, reply>>

\* called by an unload, and by load_module when kpm_init failed
kpm_exit ==
    /\ tlife \in {"up", "failed"} /\ tlife' = "gone"
    /\ slots' = NoBps /\ wrapped' = wrapped \ {place[s] : s \in DOMAIN place}
    /\ UNCHANGED <<tkernel, place, reply>>
---------------------------------------------------------------------------
(* A command: the words joined, and taken apart.                             *)
Val == "0" :> 0 @@ "1" :> 1 @@ "2" :> 2 @@ "3" :> 3 @@ "4" :> 4 @@ "5" :> 5 @@ "6" :> 6 @@ "7" :> 7 @@ "8" :> 8 @@ "9" :> 9
Digit == DOMAIN Val
IsNumber(w) == ToSet(w) \subseteq Digit
Number(w, base) ==
    LET value[n \in 0 .. Len(w)] == IF n = 0 THEN 0 ELSE base * value[n - 1] + Val[w[n]] IN value[Len(w)]
Join(words) ==
    LET text[n \in DOMAIN words] == IF n = 1 THEN words[1] ELSE text[n - 1] \o <<":">> \o words[n]
    IN text[Len(words)]

\* kpm_control.c; "short" when words are missing
full_command(line) ==
    LET words == Tail(line) IN
    CASE line[1] = "bp_set" -> IF Len(words) < 3 THEN <<"short">>
                               ELSE IF Len(words) >= 5 THEN Join(SubSeq(words, 1, 5))
                               ELSE IF Len(words) = 4 /\ ~IsNumber(words[4]) THEN Join(words)
                               ELSE Join(words) \o <<":">>
      [] line[1] = "bp_clear" -> IF words = <<>> THEN <<"short">> ELSE words[1]
      [] line[1] = "mem_read" -> IF Len(words) < 3 THEN <<"short">> ELSE Join(SubSeq(words, 1, 3))
      [] OTHER -> <<>>

\* the text s read from position p on; an address of the run has no letters
Chr(s, p) == IF p \in DOMAIN s THEN s[p] ELSE "end"
Ends(s, p) == CHOOSE e \in p .. Len(s) + 1 : Chr(s, e) \notin Digit /\ \A q \in p .. e - 1 : s[q] \in Digit
NumAt(s, p, base) == Number(SubSeq(s, p, Ends(s, p) - 1), base)
CharVal(c) == IF c \in Digit THEN Val[c] ELSE 10    \* c - '0': out of every range
SkipHex(s, p) == IF Chr(s, p) = "0" /\ Chr(s, p + 1) = "x" THEN p + 2 ELSE p

bp_spec(s) ==
    LET start == SkipHex(s, 1)
        p == Ends(s, start)
        field(n) == \A k \in 0 .. n - 1 : Chr(s, p + 2 * k) = ":"
        third == p + 5
        pid == field(3) /\ Chr(s, third) \in Digit
        fourth == IF pid THEN Ends(s, third) + 1 ELSE third
    IN [addr |-> NumAt(s, start, 16), type |-> IF field(1) THEN CharVal(Chr(s, p + 1)) ELSE 0,
        size |-> IF field(2) THEN CharVal(Chr(s, p + 3)) ELSE 2,
        pid |-> IF pid THEN NumAt(s, third, 10) ELSE 0,
        desc |-> IF field(3) /\ (pid => Chr(s, fourth - 1) = ":") THEN SubSeq(s, fourth, Len(s)) ELSE <<>>]

mem_spec(s) ==
    LET p == Ends(s, 1)
        start == SkipHex(s, p + 1)
        q == IF Chr(s, p) = ":" THEN Ends(s, start) ELSE p
    IN [pid |-> NumAt(s, 1, 10), addr |-> IF Chr(s, p) = ":" THEN NumAt(s, start, 16) ELSE 0,
        size |-> IF Chr(s, q) = ":" THEN NumAt(s, q + 1, 10) ELSE 16]

\* hw_breakpoint_set_for_pid: the first free slot, or -1 for any error
set_result(bp, refused) ==
    LET free == {i \in Bps : slots[i] = NoBp} IN
    IF \/ bp.type > 3 \/ bp.size > 3 \/ bp.addr = 0
       \/ bp.pid > 0 /\ (~tkernel.user \/ bp.pid \notin Pids)
       \/ free = {} \/ refused
    THEN -1 ELSE CHOOSE i \in free : \A j \in free : i <= j
Reply(line, ret, did, fits) ==
    reply' = [line |-> line, before |-> slots, ret |-> ret, did |-> did, fits |-> fits]

bp_set(line, s) == \E bp \in {bp_spec(s)}, refused \in BOOLEAN :
    LET ret == set_result(bp, refused) IN
    /\ slots' = IF ret >= 0 THEN [slots EXCEPT ![ret] = bp] ELSE slots
    /\ Reply(line, ret, <<refused>>, TRUE)
bp_clear(line, s) == \E i \in {NumAt(s, 1, 10)} :
    LET used == i \in Bps /\ slots[i] # NoBp IN
    /\ slots' = IF used THEN [slots EXCEPT ![i] = NoBp] ELSE slots
    /\ Reply(line, IF used THEN 0 ELSE -1, <<>>, TRUE)
bp_clear_all(line) == slots' = NoBps /\ Reply(line, 0, <<>>, TRUE)
mem_read(line, s) == \E m \in {mem_spec(s)}, result \in {-1, 0} :   \* process_memory_read_hex: ProcMem
    /\ IF m.pid = 0 \/ m.addr = 0 \/ m.size \notin 1 .. 256 THEN Reply(line, -1, <<>>, TRUE)
       ELSE Reply(line, result, <<m>>, TRUE)
    /\ UNCHANGED slots

\* The text of an answer is put together in kernel_out; each snprintf is told
\* the room that is left, which must not be negative.  length[n] is the
\* length the calls have answered after n lines: more than there is room for,
\* when a line was cut.
ROOM == 1024
MAX_HW_BREAKPOINTS == 4
Written(head, line, n) ==
    LET length[k \in 0 .. n] == IF k = 0 THEN head
                                ELSE LET l == length[k - 1] IN IF l < ROOM - 100 THEN l + line ELSE l
    IN length
Inside(head, line, n) ==   \* every line begins inside
    LET length == Written(head, line, n) IN \A k \in 1 .. n : length[k] # length[k - 1] => length[k - 1] <= ROOM
get_status(line) == \E n \in {0, 3, 16}, name \in {1, 255} :
    Reply(line, 0, <<>>, Inside(170, 17 + name, n)) /\ UNCHANGED slots
bp_list(line) == \E desc \in {0, 127} :
    /\ Reply(line, 0, <<>>, Inside(22, 64 + desc, MAX_HW_BREAKPOINTS)   \* every slot used
                             /\ Written(22, 64 + desc, MAX_HW_BREAKPOINTS)[MAX_HW_BREAKPOINTS] <= ROOM)
    /\ UNCHANGED slots

kpm_command(line) ==
    /\ tlife = "up"
    /\ \E s \in {full_command(line)} \ {<<"short">>} :
        CASE line[1] = "bp_set" -> bp_set(line, s) [] line[1] = "bp_clear" -> bp_clear(line, s)
          [] line[1] = "bp_clear_all" -> bp_clear_all(line) [] line[1] = "mem_read" -> mem_read(line, s)
          [] line[1] = "get_status" -> get_status(line) [] line[1] = "bp_list" -> bp_list(line)
          [] OTHER -> Reply(line, -1, <<>>, TRUE) /\ UNCHANGED slots
    /\ UNCHANGED <<tkernel, tlife, wrapped, place>>

TraceInit ==
    /\ tkernel \in TraceKernels /\ tlife = "access"
    /\ wrapped = {}
    /\ place = [s \in {"access", "openat", "kill"} |-> NoFunction]
    /\ slots = NoBps /\ reply = NoReply
TraceNext == kpm_init \/ kpm_exit \/ \E line \in Lines : kpm_command(line)
TraceSpec == TraceInit /\ [][TraceNext]_traceVars
---------------------------------------------------------------------------
\* What the usage text of kpm_control.c promises: the words one by one.
HexOf(w) == Number(IF Len(w) > 1 /\ w[2] = "x" THEN SubSeq(w, 3, Len(w)) ELSE w, 16)
Meant(w) == [addr |-> HexOf(w[1]), type |-> Number(w[2], 10), size |-> Number(w[3], 10),
             pid |-> IF Len(w) >= 4 /\ IsNumber(w[4]) THEN Number(w[4], 10) ELSE 0,
             desc |-> IF Len(w) >= 5 THEN w[5] ELSE IF Len(w) = 4 /\ ~IsNumber(w[4]) THEN w[4] ELSE <<>>]
\* type and size are one digit; a description alone does not begin with one,
\* which the module takes for a pid
Documented(w) == Len(w[2]) = 1 /\ Len(w[3]) = 1 /\ (Len(w) = 4 => IsNumber(w[4]) \/ w[4][1] \notin Digit)
BpSetAsTyped(w) ==
    LET bp == Meant(w)
        impossible == \/ bp.addr = 0 \/ bp.type > 3 \/ bp.size > 3
                      \/ bp.pid # 0 /\ ~(tkernel.user /\ bp.pid \in Pids)
                      \/ \A i \in Bps : reply.before[i] # NoBp
    IN IF impossible \/ reply.did[1] THEN reply.ret < 0 /\ slots = reply.before
       ELSE /\ reply.before[reply.ret] = NoBp
            /\ slots = [reply.before EXCEPT ![reply.ret] = bp]
BpClearAsTyped(w) ==
    LET i == Number(w[1], 10) IN
    /\ reply.ret = 0 <=> i \in Bps /\ reply.before[i] # NoBp
    /\ slots = [j \in Bps |-> IF j = i THEN NoBp ELSE reply.before[j]]
MemReadAsTyped(w) ==
    LET m == [pid |-> Number(w[1], 10), addr |-> HexOf(w[2]), size |-> Number(w[3], 10)] IN
    IF m.pid > 0 /\ m.addr > 0 /\ m.size \in 1 .. 256 THEN reply.did = <<m>> ELSE reply.ret < 0
CommandsDoAsTyped ==
    tlife = "up" =>
        /\ (reply.line[1] = "bp_set" /\ Documented(Tail(reply.line))) => BpSetAsTyped(Tail(reply.line))
        /\ reply.line[1] = "bp_clear" => BpClearAsTyped(Tail(reply.line))
        /\ reply.line[1] = "mem_read" => MemReadAsTyped(Tail(reply.line))
        /\ reply.fits

\* Each kind of call is hooked once, where it can be, and kpm_exit finds every
\* hook again, whichever of kpm_init's fallbacks was taken or failed.
HooksComeAndGo ==
    /\ tlife = "gone" => wrapped = {} /\ slots = NoBps
    /\ ~({"do_sys_openat2", "do_sys_open"} \subseteq wrapped)
    /\ Cardinality(wrapped \cap ToSet(Kills)) <= 1
    /\ tlife = "up" => /\ "do_faccessat" \in wrapped
                       /\ wrapped = {place[s] : s \in DOMAIN place} \ {NoFunction}
                       /\ {"do_sys_openat2", "do_sys_open"} \cap tkernel.has \cap tkernel.wraps # {}
                            => {"do_sys_openat2", "do_sys_open"} \cap wrapped # {}

\* The tracing module comes and goes without leaving hooks or breakpoints, and
\* does what the user typed (accessOffstinlineHook.c:233-770, kpm_control.c).
TracerDoesAsTold == CommandsDoAsTyped /\ HooksComeAndGo
=============================================================================
