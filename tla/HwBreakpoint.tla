---------------------------- MODULE HwBreakpoint ----------------------------
(***************************************************************************)
(* The hardware breakpoints of the demo_accessOffstinlineHook module       *)
(* (hw_breakpoint.c) seen together with the threads they watch.            *)
(*                                                                         *)
(* A slot of the module owns one perf event of the kernel.  When a thread  *)
(* reaches an instruction that an armed event matches, the CPU traps       *)
(* before the instruction takes effect and the kernel calls                *)
(* hw_bp_handler; the thread then retries the same instruction.  So that   *)
(* the retry does not trap for ever the handler moves the event to the     *)
(* following instruction, and back again when that one is reached          *)
(* ("move to next instruction").                                           *)
(*                                                                         *)
(* Here a control call and a run of the handler are each one step, as they *)
(* are when the target is stopped or the event is another CPU's only user; *)
(* HwBreakpointRace splits them.  Addresses count instructions: pc + 4 in  *)
(* the code is pc + 1 here.  The size of a breakpoint only distinguishes   *)
(* valid from invalid requests and is left out with the description.       *)
(***************************************************************************)
EXTENDS Integers, FiniteSets

CONSTANTS
    MAX_HW_BREAKPOINTS,  \* number of slots (4 in hw_breakpoint.h)
    Event,               \* perf events the kernel can hand out
    Thread,              \* the tasks that run and can be watched
    Code,                \* addresses of the program's instructions
    Data,                \* addresses the instructions read and write
    Succ,                \* Succ[a]: where control may go after instruction a
    Access,              \* Access[a]: <<"R"|"W", address>> of instruction a
    Kernels,             \* what the kernels export: sets of symbols
    Refused,             \* addresses modify_user_hw_breakpoint refuses
    Gone,                \* a pid no task has
    Request,             \* bp_set commands issued: <<address, type, pid>>
    NULL,
    MaxCalls,            \* bound: control calls
    MaxInstr             \* bound: instructions a thread runs before it ends

Slot == 0 .. MAX_HW_BREAKPOINTS - 1
BpType == {"exec", "write", "read", "rw"}

\* Results, negative as the code returns them; ENOSPC stands for whatever
\* error pointer register_*_hw_breakpoint returns.
ENOENT == -2
ESRCH == -3
ENOMEM == -12
EINVAL == -22
ENOSPC == -28
ENOSYS == -38

Symbols == {"register_wide", "register_user", "unregister_wide",
            "unregister_user", "modify_user", "find_vpid", "pid_task"}

\* hw_breakpoint_init returns -1, and the module is not loaded, without the
\* two system-wide calls.
ASSUME KernelAssumption ==
    \A k \in Kernels : k \subseteq Symbols /\ {"register_wide", "unregister_wide"} \subseteq k

ASSUME ProgramAssumption ==
    /\ Code \subseteq Nat \ {0} /\ Data \subseteq Nat \ {0}
    /\ Code \cap Data = {}
    /\ Succ \in [Code -> SUBSET Code]
    /\ Access \in [Code -> SUBSET ({"R", "W"} \X Data)]
    /\ Refused \subseteq Nat

\* pid NULL is 0: every task.
ASSUME RequestAssumption ==
    Request \subseteq Nat \X {"exec", "write", "read", "rw", "invalid"}
                      \X (Thread \cup {NULL, Gone})

ASSUME BoundAssumption ==
    /\ MAX_HW_BREAKPOINTS \in Nat \ {0}
    /\ MaxCalls \in Nat /\ MaxInstr \in Nat

ASSUME NullAssumption ==
    /\ NULL \notin Event \cup Thread
    /\ Gone \notin Thread \cup {NULL}
    /\ NULL \notin [addr : Nat, type : SUBSET {"X", "R", "W"},
                    task : Thread \cup {NULL}]

VARIABLES
    Api,                     \* symbols hw_breakpoint_init resolved
    breakpoints,             \* struct hw_breakpoint[]
    bp_events, bp_tasks,     \* the slot's perf event and target task
    bp_at_next_instruction, bp_original_addr, bp_next_addr,
    perf,                    \* kernel: attributes of each registered event
    pc, fuel,                \* threads: next instruction, instructions left
    calls, ret,              \* control calls left, result of the last one
    credit                   \* history: hits counted minus watched
                             \* instructions executed, since the slot was set

slotVars == <<breakpoints, bp_events, bp_tasks, bp_at_next_instruction,
              bp_original_addr, bp_next_addr>>
vars == <<Api, slotVars, perf, pc, fuel, calls, ret, credit>>

PerfAttr == [addr : Nat, type : SUBSET {"X", "R", "W"}, task : Thread \cup {NULL}]

TypeOK ==
    /\ Api \in Kernels
    /\ breakpoints \in [Slot -> [enabled : BOOLEAN, addr : Nat, type : BpType,
                                 hit_count : Nat]]
    /\ bp_events \in [Slot -> Event \cup {NULL}]
    /\ bp_tasks \in [Slot -> Thread \cup {NULL}]
    /\ bp_at_next_instruction \in [Slot -> BOOLEAN]
    /\ bp_original_addr \in [Slot -> Nat]
    /\ bp_next_addr \in [Slot -> Nat]
    /\ perf \in [Event -> PerfAttr \cup {NULL}]
    /\ pc \in [Thread -> Code]
    /\ fuel \in [Thread -> 0 .. MaxInstr]
    /\ calls \in 0 .. MaxCalls
    /\ ret \in Slot \cup {EINVAL, ENOSYS, ESRCH, ENOMEM, ENOENT, ENOSPC}
    /\ credit \in [Slot -> Int]

-----------------------------------------------------------------------------
(* Which instructions an event matches *)

\* What instruction a does: it is fetched, and it reads and writes data.
Touches(a) == {<<"X", a>>} \cup Access[a]

\* hw_breakpoint_set_for_pid: HW_BP_TYPE_* to HW_BREAKPOINT_* (RW is R | W).
PerfType(type) ==
    CASE type = "exec"  -> {"X"}
      [] type = "write" -> {"W"}
      [] type = "read"  -> {"R"}
      [] type = "rw"    -> {"R", "W"}

Matches(type, addr, a) == \E k \in type : <<k, addr>> \in Touches(a)

\* Events that trap thread t at its next instruction.
Trapping(t) ==
    {e \in Event : /\ perf[e] # NULL
                   /\ perf[e].task \in {NULL, t}
                   /\ Matches(perf[e].type, perf[e].addr, pc[t])}

\* Slots whose breakpoint, as bp_list shows it, is about t's next instruction.
Watching(t) ==
    {i \in Slot : /\ breakpoints[i].enabled
                  /\ bp_tasks[i] \in {NULL, t}
                  /\ Matches(PerfType(breakpoints[i].type), breakpoints[i].addr, pc[t])}

-----------------------------------------------------------------------------
Init ==
    /\ Api \in Kernels
    /\ breakpoints = [i \in Slot |-> [enabled |-> FALSE, addr |-> 0,
                                      type |-> "exec", hit_count |-> 0]]
    /\ bp_events = [i \in Slot |-> NULL]
    /\ bp_tasks = [i \in Slot |-> NULL]
    /\ bp_at_next_instruction = [i \in Slot |-> FALSE]
    /\ bp_original_addr = [i \in Slot |-> 0]
    /\ bp_next_addr = [i \in Slot |-> 0]
    /\ perf = [e \in Event |-> NULL]
    /\ pc \in [Thread -> Code]
    /\ fuel = [t \in Thread |-> MaxInstr]
    /\ calls = MaxCalls
    /\ ret = 0
    /\ credit = [i \in Slot |-> 0]

-----------------------------------------------------------------------------
(* Control calls *)

Call == calls > 0 /\ calls' = calls - 1 /\ UNCHANGED <<Api, pc, fuel>>

\* Mutant: the result of find_vpid and pid_task is not looked at.
SetCheckNoLookup(addr, type, pid) ==
    IF type \notin BpType \/ addr = 0 THEN EINVAL
    ELSE IF \A i \in Slot : breakpoints[i].enabled THEN ENOMEM
    ELSE 0

\* Checks of hw_breakpoint_set_for_pid, in the order the code makes them; pid
\* is a task, NULL (0: system-wide) or Gone, type may be invalid.
SetCheck(addr, type, pid) ==
    IF Api \cap {"register_wide", "register_user"} = {} THEN ENOSYS
    ELSE IF type \notin BpType \/ addr = 0 THEN EINVAL
    ELSE IF pid # NULL /\ ~({"register_user", "find_vpid", "pid_task"} \subseteq Api)
         THEN ENOSYS
    ELSE IF pid \notin Thread \cup {NULL} THEN ESRCH
    ELSE IF \A i \in Slot : breakpoints[i].enabled THEN ENOMEM
    ELSE 0

FirstFreeSlot(i) ==
    /\ ~breakpoints[i].enabled
    /\ \A j \in Slot : j < i => breakpoints[j].enabled

SetRejected(addr, type, pid) ==
    /\ Call
    /\ SetCheck(addr, type, pid) # 0
    /\ ret' = SetCheck(addr, type, pid)
    /\ UNCHANGED <<slotVars, perf, credit>>

\* register_*_hw_breakpoint returns an error pointer.
SetRefused(addr, type, pid) ==
    /\ Call
    /\ SetCheck(addr, type, pid) = 0
    /\ ret' = ENOSPC
    /\ UNCHANGED <<slotVars, perf, credit>>

\* Mutant: a slot that is used again keeps its old bp_at_next_instruction.
SetRegisteredKeepsFlag(addr, type, pid, i, e) ==
    /\ Call
    /\ FirstFreeSlot(i)
    /\ SetCheck(addr, type, pid) = 0
    /\ perf[e] = NULL
    /\ perf' = [perf EXCEPT ![e] = [addr |-> addr, type |-> PerfType(type), task |-> pid]]
    /\ breakpoints' = [breakpoints EXCEPT ![i] =
           [enabled |-> TRUE, addr |-> addr, type |-> type, hit_count |-> 0]]
    /\ bp_events' = [bp_events EXCEPT ![i] = e]
    /\ bp_tasks' = [bp_tasks EXCEPT ![i] = pid]
    /\ bp_original_addr' = [bp_original_addr EXCEPT ![i] = addr]
    /\ bp_next_addr' = [bp_next_addr EXCEPT ![i] = 0]
    /\ credit' = [credit EXCEPT ![i] = 0]
    /\ ret' = i
    /\ UNCHANGED bp_at_next_instruction

SetRegistered(addr, type, pid, i, e) ==
    /\ Call
    /\ FirstFreeSlot(i)
    /\ SetCheck(addr, type, pid) = 0
    /\ perf[e] = NULL
    /\ perf' = [perf EXCEPT ![e] = [addr |-> addr, type |-> PerfType(type), task |-> pid]]
    /\ breakpoints' = [breakpoints EXCEPT ![i] =
           [enabled |-> TRUE, addr |-> addr, type |-> type, hit_count |-> 0]]
    /\ bp_events' = [bp_events EXCEPT ![i] = e]
    /\ bp_tasks' = [bp_tasks EXCEPT ![i] = pid]
    /\ bp_at_next_instruction' = [bp_at_next_instruction EXCEPT ![i] = FALSE]
    /\ bp_original_addr' = [bp_original_addr EXCEPT ![i] = addr]
    /\ bp_next_addr' = [bp_next_addr EXCEPT ![i] = 0]
    /\ credit' = [credit EXCEPT ![i] = 0]
    /\ ret' = i

hw_breakpoint_set_for_pid ==
    \E r \in Request :
        \/ SetRejected(r[1], r[2], r[3])
        \/ SetRefused(r[1], r[2], r[3])
        \/ \E i \in Slot, e \in Event : SetRegistered(r[1], r[2], r[3], i, e)

\* Mutant: the pointer to the unregistered event stays in its slot.
EmptiedKeepsPointer(S) ==
    /\ perf' = [e \in Event |-> IF \E i \in S : bp_events[i] = e THEN NULL ELSE perf[e]]
    /\ UNCHANGED <<bp_events, bp_tasks>>

\* The slots that clear empties, and the kernel's events after it; the call
\* chosen by bp_tasks (unregister_hw_breakpoint or the wide one) ends the
\* event either way.
Emptied(S) ==
    /\ perf' = [e \in Event |-> IF \E i \in S : bp_events[i] = e THEN NULL ELSE perf[e]]
    /\ bp_events' = [i \in Slot |-> IF i \in S THEN NULL ELSE bp_events[i]]
    /\ bp_tasks' = [i \in Slot |-> IF i \in S THEN NULL ELSE bp_tasks[i]]

Zeroed(S) ==
    breakpoints' = [i \in Slot |->
        IF i \in S
        THEN [breakpoints[i] EXCEPT !.enabled = FALSE, !.addr = 0, !.hit_count = 0]
        ELSE breakpoints[i]]

\* idx is the number bp_clear:<idx> parsed: any natural.
hw_breakpoint_clear(idx) ==
    /\ Call
    /\ UNCHANGED <<bp_at_next_instruction, bp_original_addr, bp_next_addr, credit>>
    /\ \/ /\ idx \notin Slot
          /\ ret' = EINVAL
          /\ UNCHANGED <<breakpoints, bp_events, bp_tasks, perf>>
       \/ /\ idx \in Slot /\ ~breakpoints[idx].enabled
          /\ ret' = ENOENT
          /\ UNCHANGED <<breakpoints, bp_events, bp_tasks, perf>>
       \/ /\ idx \in Slot /\ breakpoints[idx].enabled
          /\ ret' = 0
          /\ Emptied({idx})
          /\ Zeroed({idx})

hw_breakpoint_clear_all ==
    LET S == {i \in Slot : breakpoints[i].enabled} IN
    /\ Call
    /\ Emptied(S)
    /\ Zeroed(S)
    /\ ret' = 0
    /\ UNCHANGED <<bp_at_next_instruction, bp_original_addr, bp_next_addr, credit>>

-----------------------------------------------------------------------------
(* The handler, run when thread t traps on event e *)

\* The loop stops at the first slot that holds e and is enabled.
Handles(e, i) ==
    /\ bp_events[i] = e /\ breakpoints[i].enabled
    /\ \A j \in Slot : j < i => ~(bp_events[j] = e /\ breakpoints[j].enabled)

CountHit(i, enabled) ==
    /\ breakpoints' = [breakpoints EXCEPT ![i].hit_count = @ + 1, ![i].enabled = enabled]
    /\ credit' = [credit EXCEPT ![i] = @ + 1]

\* modify_user_hw_breakpoint(bp_events[i], X at addr)
Modify(i, addr) == perf' = [perf EXCEPT ![bp_events[i]].addr = addr,
                                        ![bp_events[i]].type = {"X"}]

HandlerFrame == UNCHANGED <<Api, pc, fuel, calls, ret, bp_original_addr>>

MoveToNext(i, a) ==
    /\ ~bp_at_next_instruction[i]
    /\ "modify_user" \in Api /\ a + 1 \notin Refused
    /\ CountHit(i, TRUE)
    /\ bp_next_addr' = [bp_next_addr EXCEPT ![i] = a + 1]
    /\ Modify(i, a + 1)
    /\ bp_at_next_instruction' = [bp_at_next_instruction EXCEPT ![i] = TRUE]
    /\ UNCHANGED <<bp_events, bp_tasks>>

\* Mutant: a move that fails is only logged.
MoveToNextFailsLogged(i, a) ==
    /\ ~bp_at_next_instruction[i]
    /\ "modify_user" \in Api /\ a + 1 \in Refused
    /\ UNCHANGED <<slotVars, perf, credit>>

\* modify failed: the breakpoint is unregistered and its slot freed; addr and
\* hit_count stay as they are.
MoveToNextFails(i, a) ==
    /\ ~bp_at_next_instruction[i]
    /\ "modify_user" \in Api /\ a + 1 \in Refused
    /\ bp_next_addr' = [bp_next_addr EXCEPT ![i] = a + 1]
    /\ CountHit(i, FALSE)
    /\ Emptied({i})
    /\ UNCHANGED bp_at_next_instruction

\* modify_user_hw_breakpoint was not resolved: one-shot mode.
OneShot(i) ==
    /\ ~bp_at_next_instruction[i]
    /\ "modify_user" \notin Api
    /\ CountHit(i, FALSE)
    /\ Emptied({i})
    /\ UNCHANGED <<bp_at_next_instruction, bp_next_addr>>

\* Mutant: the second trap of the protocol is counted as a hit too.
MoveBackCounts(i) ==
    /\ bp_at_next_instruction[i]
    /\ "modify_user" \in Api /\ bp_original_addr[i] \notin Refused
    /\ Modify(i, bp_original_addr[i])
    /\ bp_at_next_instruction' = [bp_at_next_instruction EXCEPT ![i] = FALSE]
    /\ CountHit(i, TRUE)
    /\ UNCHANGED <<bp_events, bp_tasks, bp_next_addr>>

MoveBack(i) ==
    /\ bp_at_next_instruction[i]
    /\ "modify_user" \in Api /\ bp_original_addr[i] \notin Refused
    /\ Modify(i, bp_original_addr[i])
    /\ bp_at_next_instruction' = [bp_at_next_instruction EXCEPT ![i] = FALSE]
    /\ UNCHANGED <<breakpoints, bp_events, bp_tasks, bp_next_addr, credit>>

\* The failure to move back is only logged.
MoveBackFails(i) ==
    /\ bp_at_next_instruction[i]
    /\ "modify_user" \notin Api \/ bp_original_addr[i] \in Refused
    /\ UNCHANGED <<slotVars, perf, credit>>

hw_bp_handler(t, e) ==
    /\ HandlerFrame
    /\ \E i \in Slot :
          /\ Handles(e, i)
          /\ \/ MoveToNext(i, pc[t])
             \/ MoveToNextFails(i, pc[t])
             \/ OneShot(i)
             \/ MoveBack(i)
             \/ MoveBackFails(i)

-----------------------------------------------------------------------------
(* Threads *)

Trap(t) == fuel[t] > 0 /\ \E e \in Trapping(t) : hw_bp_handler(t, e)

Execute(t) ==
    /\ fuel[t] > 0
    /\ Trapping(t) = {}
    /\ \E a \in Succ[pc[t]] : pc' = [pc EXCEPT ![t] = a]
    /\ fuel' = [fuel EXCEPT ![t] = @ - 1]
    /\ credit' = [i \in Slot |-> IF i \in Watching(t) THEN credit[i] - 1 ELSE credit[i]]
    /\ UNCHANGED <<Api, slotVars, perf, calls, ret>>

ControlStep ==
    \/ hw_breakpoint_set_for_pid
    \/ \E idx \in 0 .. MAX_HW_BREAKPOINTS : hw_breakpoint_clear(idx)
    \/ hw_breakpoint_clear_all

ThreadStep(t) == Trap(t) \/ Execute(t)

Next == ControlStep \/ \E t \in Thread : ThreadStep(t)

Spec == Init /\ [][Next]_vars

\* A runnable thread is scheduled, and a trap is taken when it is due.
FairSpec == Spec /\ \A t \in Thread : WF_vars(ThreadStep(t))

-----------------------------------------------------------------------------
(* Properties *)

\* A slot is enabled exactly while it owns a perf event, no two slots own the
\* same one, and the kernel holds no event of this module that no slot owns
\* (set, clear, clear_all and both ways the handler disables a breakpoint).
SlotsOwnEvents ==
    /\ \A i \in Slot : breakpoints[i].enabled <=> bp_events[i] # NULL
    /\ \A i, j \in Slot : bp_events[i] = bp_events[j] /\ bp_events[i] # NULL => i = j
    /\ \A e \in Event : perf[e] # NULL <=> \E i \in Slot : bp_events[i] = e

\* The kernel's event is where bp_at_next_instruction says it is, for the task
\* the slot names (move to next, move back, reuse of a slot that was cleared
\* while its breakpoint was at the next instruction).
FlagMatchesHardware ==
    \A i \in Slot : breakpoints[i].enabled =>
        LET e == bp_events[i] IN
        /\ perf[e].addr = IF bp_at_next_instruction[i] THEN bp_next_addr[i]
                                                        ELSE breakpoints[i].addr
        /\ perf[e].task = bp_tasks[i]
        /\ bp_original_addr[i] = breakpoints[i].addr

\* Breakpoint i is an execution breakpoint of one task on an instruction that
\* falls through.
FallsThrough(i) ==
    /\ breakpoints[i].enabled /\ breakpoints[i].type = "exec"
    /\ bp_tasks[i] # NULL \/ \A t, u \in Thread : t = u
    /\ breakpoints[i].addr \in Code
    /\ Succ[breakpoints[i].addr] \subseteq {breakpoints[i].addr + 1}

\* The watched instruction never runs uncounted and no hit is counted twice
\* for one run of it, over any number of hits and with other slots moving on
\* and off the same instructions (the two-hit protocol of hw_bp_handler).  Without
\* modify_user_hw_breakpoint a slot counts one hit and is given up with it.
EachRunCountedOnce ==
    \A i \in Slot :
        /\ FallsThrough(i) => credit[i] \in {0, 1}
        /\ "modify_user" \notin Api /\ breakpoints[i].enabled => breakpoints[i].hit_count = 0

\* A trapped thread gets past its instruction: the program runs to its end
\* whatever breakpoints it meets ("avoids an infinite loop").
ThreadsFinish == \A t \in Thread : <>(fuel[t] = 0)

\* README.md: data breakpoints watch reads, writes or both; back at its own
\* address the event still does.
DataBreakpointStaysData ==
    \A i \in Slot :
        (breakpoints[i].enabled /\ ~bp_at_next_instruction[i])
            => perf[bp_events[i]].type = PerfType(breakpoints[i].type)
=============================================================================
