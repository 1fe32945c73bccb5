-------------------------- MODULE HwBreakpointRace --------------------------
(***************************************************************************)
(* hw_breakpoint.c with its calls and its handler split at the kernel      *)
(* calls and at the stores another CPU can see.  Control calls come from   *)
(* any thread (kpm_control runs under rcu_read_lock only); the handler of  *)
(* an event runs in the debug exception of the task that hit.  No lock is  *)
(* taken anywhere, and the stores are in program order.                    *)
(*                                                                         *)
(* The kernel is given every benefit: an event's handler runs on one CPU   *)
(* at a time, unregistering an event from a control call waits until its   *)
(* handler is done, and a released event never fires again.                *)
(***************************************************************************)
EXTENDS Integers, FiniteSets

CONSTANTS
    MAX_HW_BREAKPOINTS,
    Event,
    Caller,       \* threads that issue control calls
    Kernels,      \* kernels to run on: whether modify_user_hw_breakpoint was
                  \* resolved, whether modify and register may return an error
    NULL,
    MaxCalls      \* bound: control calls of each thread

Slot == 0 .. MAX_HW_BREAKPOINTS - 1

ASSUME RaceAssumption ==
    /\ MAX_HW_BREAKPOINTS \in Nat \ {0} /\ MaxCalls \in [Caller -> Nat]
    /\ Kernels \subseteq [modify : BOOLEAN, refuses : BOOLEAN]
    /\ NULL \notin Event

VARIABLES
    kernel,     \* the one of Kernels
    enabled,    \* breakpoints[i].enabled
    bp_events,
    at_next,    \* bp_at_next_instruction
    hw,         \* kernel: "free", or where a registered event is armed
    ctl,        \* control calls in progress
    hnd,        \* handlers in progress, by event
    misused,    \* history: the kernel was handed NULL or a released event
    cleared,    \* history: a clear_all ended and no set began since
    overlap,    \* history: a control call began while another ran
    calls

slots == <<enabled, bp_events, at_next>>
state == <<slots, hw, ctl, hnd, misused, cleared, overlap, calls>>
vars == <<kernel, state>>

IdleCtl == [pc |-> "idle", slot |-> 0, ev |-> NULL, all |-> FALSE]
HasModify == kernel.modify
MayRefuse == kernel.refuses
IdleHnd == [pc |-> "idle", slot |-> 0]

Init ==
    /\ kernel \in Kernels
    /\ enabled = [i \in Slot |-> FALSE]
    /\ bp_events = [i \in Slot |-> NULL]
    /\ at_next = [i \in Slot |-> FALSE]
    /\ hw = [e \in Event |-> "free"]
    /\ ctl = [c \in Caller |-> IdleCtl]
    /\ hnd = [e \in Event |-> IdleHnd]
    /\ misused = FALSE /\ cleared = FALSE /\ overlap = FALSE
    /\ calls = MaxCalls

-----------------------------------------------------------------------------
(* The kernel *)

Registered(e) == e # NULL /\ hw[e] # "free"

\* unregister_hw_breakpoint(e), whatever e is by now.
Unregister(e) ==
    IF Registered(e)
    THEN hw' = [hw EXCEPT ![e] = "free"] /\ UNCHANGED misused
    ELSE misused' = TRUE /\ UNCHANGED hw

\* modify_user_hw_breakpoint(e, at where)
ModifyOk(e, where) ==
    IF Registered(e)
    THEN hw' = [hw EXCEPT ![e] = where] /\ UNCHANGED misused
    ELSE misused' = TRUE /\ UNCHANGED hw

-----------------------------------------------------------------------------
(* hw_breakpoint_set_for_pid *)

BusyCtl(c) == ctl[c].pc # "idle"

CallStart(c) ==
    /\ ~BusyCtl(c) /\ calls[c] > 0
    /\ calls' = [calls EXCEPT ![c] = @ - 1]
    /\ overlap' = (overlap \/ \E d \in Caller : BusyCtl(d))

FirstFreeSlot(i) == ~enabled[i] /\ \A j \in Slot : j < i => enabled[j]

\* No slot free: ENOMEM, nothing changes.
SetStart(c) ==
    /\ CallStart(c)
    /\ cleared' = FALSE
    /\ \E i \in Slot :
          /\ FirstFreeSlot(i)
          /\ ctl' = [ctl EXCEPT ![c] = [IdleCtl EXCEPT !.pc = "register", !.slot = i]]
    /\ UNCHANGED <<slots, hw, hnd, misused>>

\* The event fires from here on, before the slot knows it.
SetRegister(c) ==
    /\ ctl[c].pc = "register"
    /\ \/ \E e \in Event :
             /\ hw[e] = "free" /\ hnd[e].pc = "idle"
             /\ hw' = [hw EXCEPT ![e] = "original"]
             /\ ctl' = [ctl EXCEPT ![c].pc = "store", ![c].ev = e]
       \/ /\ MayRefuse \/ \A e \in Event : hw[e] # "free" \/ hnd[e].pc # "idle"
          /\ ctl' = [ctl EXCEPT ![c] = IdleCtl]
          /\ UNCHANGED hw
    /\ UNCHANGED <<slots, hnd, misused, cleared, overlap, calls>>

SetStore(c) ==
    /\ ctl[c].pc = "store"
    /\ enabled' = [enabled EXCEPT ![ctl[c].slot] = TRUE]
    /\ ctl' = [ctl EXCEPT ![c].pc = "publish"]
    /\ UNCHANGED <<bp_events, at_next, hw, hnd, misused, cleared, overlap, calls>>

SetPublish(c) ==
    /\ ctl[c].pc = "publish"
    /\ bp_events' = [bp_events EXCEPT ![ctl[c].slot] = ctl[c].ev]
    /\ at_next' = [at_next EXCEPT ![ctl[c].slot] = FALSE]
    /\ ctl' = [ctl EXCEPT ![c] = IdleCtl]
    /\ UNCHANGED <<enabled, hw, hnd, misused, cleared, overlap, calls>>

-----------------------------------------------------------------------------
(* hw_breakpoint_clear and hw_breakpoint_clear_all *)

\* Where clear goes after it saw slot i enabled: it reads bp_events[i] once
\* for the test and hands it to the unregister call.
EnterClear(c, i, all) ==
    ctl' = [ctl EXCEPT ![c] = [pc |-> IF bp_events[i] = NULL THEN "zero" ELSE "unregister",
                               slot |-> i, ev |-> bp_events[i], all |-> all]]

ClearStart(c, i) ==
    /\ CallStart(c)
    /\ enabled[i]
    /\ EnterClear(c, i, FALSE)
    /\ UNCHANGED <<slots, hw, hnd, misused, cleared>>

ClearAllStart(c) ==
    /\ CallStart(c)
    /\ ctl' = [ctl EXCEPT ![c] = [IdleCtl EXCEPT !.pc = "scan", !.all = TRUE]]
    /\ UNCHANGED <<slots, hw, hnd, misused, cleared>>

ClearAllScan(c) ==
    LET i == ctl[c].slot IN
    /\ ctl[c].pc = "scan"
    /\ \/ /\ i \in Slot /\ enabled[i]
          /\ EnterClear(c, i, TRUE)
          /\ UNCHANGED cleared
       \/ /\ i \in Slot /\ ~enabled[i]
          /\ ctl' = [ctl EXCEPT ![c].slot = i + 1]
          /\ UNCHANGED cleared
       \/ /\ i \notin Slot
          /\ ctl' = [ctl EXCEPT ![c] = IdleCtl]
          /\ cleared' = TRUE
    /\ UNCHANGED <<slots, hw, hnd, misused, overlap, calls>>

\* Mutant: the event is released without waiting for its handler.
ClearUnregisterNoWait(c) ==
    /\ ctl[c].pc = "unregister"
    /\ Unregister(ctl[c].ev)
    /\ ctl' = [ctl EXCEPT ![c].pc = "forget"]
    /\ UNCHANGED <<slots, hnd, cleared, overlap, calls>>

ClearUnregister(c) ==
    /\ ctl[c].pc = "unregister"
    /\ hnd[ctl[c].ev].pc = "idle"
    /\ Unregister(ctl[c].ev)
    /\ ctl' = [ctl EXCEPT ![c].pc = "forget"]
    /\ UNCHANGED <<slots, hnd, cleared, overlap, calls>>

ClearForget(c) ==
    /\ ctl[c].pc = "forget"
    /\ bp_events' = [bp_events EXCEPT ![ctl[c].slot] = NULL]
    /\ ctl' = [ctl EXCEPT ![c].pc = "zero"]
    /\ UNCHANGED <<enabled, at_next, hw, hnd, misused, cleared, overlap, calls>>

\* enabled = 0; a clear_all goes on with the next slot.
ClearZero(c) ==
    /\ ctl[c].pc = "zero"
    /\ enabled' = [enabled EXCEPT ![ctl[c].slot] = FALSE]
    /\ ctl' = [ctl EXCEPT ![c] =
           IF ctl[c].all THEN [ctl[c] EXCEPT !.pc = "scan", !.slot = @ + 1, !.ev = NULL]
                         ELSE IdleCtl]
    /\ UNCHANGED <<bp_events, at_next, hw, hnd, misused, cleared, overlap, calls>>

-----------------------------------------------------------------------------
(* hw_bp_handler *)

Handles(e, i) ==
    /\ bp_events[i] = e /\ enabled[i]
    /\ \A j \in Slot : j < i => ~(bp_events[j] = e /\ enabled[j])

To(e, pc) == hnd' = [hnd EXCEPT ![e].pc = pc]

\* The event fires; the loop finds its slot.  An event no slot claims is
\* ignored.
HandlerMatch(e) ==
    /\ hw[e] # "free" /\ hnd[e].pc = "idle"
    /\ \E i \in Slot :
          /\ Handles(e, i)
          /\ hnd' = [hnd EXCEPT ![e] = [slot |-> i,
                 pc |-> IF at_next[i] THEN IF HasModify THEN "modify_back" ELSE "idle"
                        ELSE IF HasModify THEN "modify_next" ELSE "release"]]
    /\ UNCHANGED <<slots, hw, ctl, misused, cleared, overlap, calls>>

\* Each kernel call reads bp_events[i] again; when it has become NULL, nothing
\* is called and nothing else done.
HandlerModify(e) ==
    LET ev == bp_events[hnd[e].slot] IN
    /\ hnd[e].pc \in {"modify_next", "modify_back"}
    /\ \/ /\ ev # NULL
          /\ ModifyOk(ev, IF hnd[e].pc = "modify_next" THEN "next" ELSE "original")
          /\ To(e, IF hnd[e].pc = "modify_next" THEN "flag_next" ELSE "flag_back")
       \/ /\ MayRefuse /\ Registered(ev)
          /\ To(e, IF hnd[e].pc = "modify_next" THEN "release" ELSE "idle")
          /\ UNCHANGED <<hw, misused>>
       \/ /\ ev = NULL
          /\ To(e, "idle")
          /\ UNCHANGED <<hw, misused>>
    /\ UNCHANGED <<slots, ctl, cleared, overlap, calls>>

HandlerFlag(e) ==
    /\ hnd[e].pc \in {"flag_next", "flag_back"}
    /\ at_next' = [at_next EXCEPT ![hnd[e].slot] = hnd[e].pc = "flag_next"]
    /\ To(e, "idle")
    /\ UNCHANGED <<enabled, bp_events, hw, ctl, misused, cleared, overlap, calls>>

\* The one-shot path tests bp_events[i] again, the path after a refused modify
\* does not.
GiveUp(e) ==
    LET ev == bp_events[hnd[e].slot] IN
    IF ev = NULL /\ ~HasModify
    THEN To(e, "idle") /\ UNCHANGED <<hw, misused>>
    ELSE Unregister(ev) /\ To(e, "disable")

\* Mutant: the handler waits for a clear of its event that waits for it, as
\* it would with a lock held around both unregister calls.
HandlerReleaseLocks(e) ==
    /\ hnd[e].pc = "release"
    /\ \A c \in Caller : ctl[c].pc # "unregister" \/ ctl[c].ev # e
    /\ GiveUp(e)
    /\ UNCHANGED <<slots, ctl, cleared, overlap, calls>>

HandlerRelease(e) ==
    /\ hnd[e].pc = "release"
    /\ GiveUp(e)
    /\ UNCHANGED <<slots, ctl, cleared, overlap, calls>>

HandlerDisable(e) ==
    /\ hnd[e].pc = "disable"
    /\ enabled' = [enabled EXCEPT ![hnd[e].slot] = FALSE]
    /\ To(e, "forget")
    /\ UNCHANGED <<bp_events, at_next, hw, ctl, misused, cleared, overlap, calls>>

HandlerForget(e) ==
    /\ hnd[e].pc = "forget"
    /\ bp_events' = [bp_events EXCEPT ![hnd[e].slot] = NULL]
    /\ To(e, "idle")
    /\ UNCHANGED <<enabled, at_next, hw, ctl, misused, cleared, overlap, calls>>

-----------------------------------------------------------------------------
CallStep(c) ==
    \/ SetRegister(c) \/ SetStore(c) \/ SetPublish(c)
    \/ ClearAllScan(c) \/ ClearUnregister(c) \/ ClearForget(c) \/ ClearZero(c)

HandlerStep(e) ==
    \/ HandlerModify(e) \/ HandlerFlag(e)
    \/ HandlerRelease(e) \/ HandlerDisable(e) \/ HandlerForget(e)

Next ==
    /\ UNCHANGED kernel
    /\ \/ \E c \in Caller :
             \/ SetStart(c)
             \/ \E i \in Slot : ClearStart(c, i)
             \/ ClearAllStart(c)
             \/ CallStep(c)
       \/ \E e \in Event : HandlerMatch(e) \/ HandlerStep(e)

Spec == Init /\ [][Next]_vars

\* A thread in a call and a CPU in a handler are scheduled.  Strong for the
\* unregister call: perf disables the event before it waits for the handler,
\* so an event that keeps firing cannot put it off for ever.
Fairness ==
    /\ \A c \in Caller : WF_state(CallStep(c)) /\ SF_state(ClearUnregister(c))
    /\ \A e \in Event : WF_state(HandlerStep(e))

FairSpec == Spec /\ Fairness

-----------------------------------------------------------------------------
(* Properties *)

\* What the properties below but CallsReturn assume: control calls came one after
\* another, and the handler never gave up a breakpoint by itself.
Orderly == ~overlap /\ kernel.modify /\ ~kernel.refuses

\* No kernel call gets NULL or an event that was released: not the modify of a
\* handler that overlaps a clear, nor a second release of one event.
EventsUsedWhileRegistered == Orderly => ~misused

\* No control call is held for ever by handlers: a clear waits for the handler
\* of its event, also when that handler gives up the event and the slot itself
\* because the kernel refused a move.
CallsReturn == \A c \in Caller : BusyCtl(c) ~> ~BusyCtl(c)

Quiet == (\A c \in Caller : ~BusyCtl(c)) /\ \A e \in Event : hnd[e].pc = "idle"

\* Between calls the slots and the kernel agree: an enabled slot owns a
\* registered event armed where its flag says, no event is without a slot.
QuietSlotsOwnEvents ==
    (Orderly /\ Quiet) =>
        /\ \A i \in Slot : enabled[i] <=> bp_events[i] # NULL
        /\ \A i \in Slot : enabled[i] =>
              hw[bp_events[i]] = IF at_next[i] THEN "next" ELSE "original"
        /\ \A e \in Event : hw[e] # "free" => \E i \in Slot : bp_events[i] = e

\* HARDWARE_BREAKPOINT_GUIDE.md: bp_clear_all "removes all hardware
\* breakpoints"; kpm_exit relies on it before the module's code is freed.
ClearAllRemovesAll == (Orderly /\ cleared /\ Quiet) => \A e \in Event : hw[e] = "free"

\* Control calls in any order, against handlers that run at any time
\* (hw_breakpoint.c): no event is used after its release, and when all is quiet
\* every registered event has its slot and none is left after bp_clear_all.
EventsAreAccountedFor ==
    EventsUsedWhileRegistered /\ QuietSlotsOwnEvents /\ ClearAllRemovesAll
=============================================================================
