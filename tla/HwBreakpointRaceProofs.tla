----------------------- MODULE HwBreakpointRaceProofs -----------------------
(***************************************************************************)
(* That the breakpoints of hw_breakpoint.c are accounted for although its  *)
(* calls and its handler interleave at every kernel call and every store,  *)
(* for any number of slots, events, callers and calls.                     *)
(***************************************************************************)
EXTENDS HwBreakpointRace, TLAPS

-----------------------------------------------------------------------------
(* Types, whatever the calls and the kernel do *)

CtlPc == {"idle", "register", "store", "publish", "scan", "unregister", "forget", "zero"}
HndPc == {"idle", "modify_next", "modify_back", "flag_next", "flag_back",
          "release", "disable", "forget"}
Ctl == [pc : CtlPc, slot : 0 .. MAX_HW_BREAKPOINTS, ev : Event \cup {NULL}, all : BOOLEAN]
Hnd == [pc : HndPc, slot : Slot]

\* A call past its scan has a slot, and one that unregisters has an event.
InSlot(c) ==
    /\ ctl[c].pc \notin {"idle", "scan"} => ctl[c].slot \in Slot
    /\ ctl[c].pc \in {"store", "publish", "unregister", "forget"} => ctl[c].ev # NULL

RaceTypes ==
    /\ kernel \in Kernels
    /\ enabled \in [Slot -> BOOLEAN]
    /\ bp_events \in [Slot -> Event \cup {NULL}]
    /\ at_next \in [Slot -> BOOLEAN]
    /\ hw \in [Event -> {"free", "original", "next"}]
    /\ ctl \in [Caller -> Ctl]
    /\ hnd \in [Event -> Hnd]
    /\ misused \in BOOLEAN /\ cleared \in BOOLEAN /\ overlap \in BOOLEAN
    /\ \A c \in Caller : InSlot(c)

-----------------------------------------------------------------------------
(* What holds while the calls come one after another and the kernel neither  *)
(* refuses a move nor lacks the call for it.                                 *)

OneCall == \A c, d \in Caller : BusyCtl(c) /\ BusyCtl(d) => c = d

\* A handler under way works on its own event, which stays registered, and is
\* where the flag and the hardware say.
Handling(e) ==
    LET i == hnd[e].slot IN
    /\ hnd[e].pc \in {"idle", "modify_next", "modify_back", "flag_next", "flag_back"}
    /\ hnd[e].pc # "idle" => bp_events[i] = e /\ hw[e] # "free"
    /\ hnd[e].pc \in {"modify_next", "flag_next"} => ~at_next[i]
    /\ hnd[e].pc \in {"modify_back", "flag_back"} => at_next[i]
    /\ hnd[e].pc = "flag_next" => hw[e] = "next"
    /\ hnd[e].pc = "flag_back" => hw[e] = "original"

\* The event of a slot is registered until the call that clears the slot has
\* unregistered it, and armed where the flag says but for a handler between the
\* two.
Forgetting(i) == \E c \in Caller : ctl[c].pc = "forget" /\ ctl[c].slot = i

Armed(i) ==
    LET e == bp_events[i] IN
    e # NULL =>
        /\ enabled[i]
        /\ hw[e] = "free" => Forgetting(i)
        /\ hw[e] # "free" /\ hnd[e].pc \notin {"flag_next", "flag_back"} =>
               (hw[e] = "next" <=> at_next[i])

\* A slot in use has an event, or a call is about to give it one or to free it.
InUse(i) ==
    enabled[i] => \/ bp_events[i] # NULL
                  \/ \E c \in Caller : ctl[c].pc \in {"publish", "zero"} /\ ctl[c].slot = i

OneSlotEach ==
    \A i, j \in Slot : bp_events[i] = bp_events[j] /\ bp_events[i] # NULL => i = j

\* No event is without a slot, but one that a set is bringing to its slot.
Bringing(e) == \E c \in Caller : ctl[c].pc \in {"store", "publish"} /\ ctl[c].ev = e

Accounted(e) == hw[e] # "free" => Bringing(e) \/ \E i \in Slot : bp_events[i] = e

\* Where a call is.
Calling(c) ==
    LET i == ctl[c].slot e == ctl[c].ev IN
    /\ ctl[c].pc \in {"register", "store"} => ~enabled[i]
    /\ ctl[c].pc \in {"register", "store", "publish"} => ~ctl[c].all
    /\ ctl[c].pc = "publish" => enabled[i] /\ bp_events[i] = NULL
    /\ ctl[c].pc \in {"store", "publish"} =>
           hw[e] = "original" /\ \A j \in Slot : bp_events[j] # e
    /\ ctl[c].pc \in {"unregister", "forget"} => bp_events[i] = e
    /\ ctl[c].pc = "unregister" => hw[e] # "free"
    /\ ctl[c].pc = "forget" => hw[e] = "free"
    /\ ctl[c].pc = "zero" => bp_events[i] = NULL
    /\ ctl[c].pc # "idle" /\ ctl[c].all => \A j \in Slot : j < i => ~enabled[j]
    /\ ctl[c].pc = "scan" => ctl[c].all
    /\ cleared => ctl[c].pc \in {"idle", "scan"}

NothingLeft == cleared => \A i \in Slot : ~enabled[i]

RaceInv ==
    /\ ~misused
    /\ OneCall
    /\ \A e \in Event : Handling(e) /\ Accounted(e)
    /\ \A i \in Slot : Armed(i) /\ InUse(i)
    /\ OneSlotEach
    /\ \A c \in Caller : Calling(c)
    /\ NothingLeft

OrderlyInv == Orderly => RaceInv

-----------------------------------------------------------------------------
(* The types hold *)

LEMMA SlotRange == 0 \in Slot /\ Slot \subseteq 0 .. MAX_HW_BREAKPOINTS
BY RaceAssumption DEF Slot

\* The hardware and the flags of a call or a handler that lets go of an event
\* keep their types.
LEMMA UnregisterTypes ==
    ASSUME RaceTypes, NEW e \in Event \cup {NULL}, Unregister(e)
    PROVE  hw' \in [Event -> {"free", "original", "next"}] /\ misused' \in BOOLEAN
BY DEF RaceTypes, Unregister

LEMMA SetTypes ==
    ASSUME RaceTypes, NEW c \in Caller, kernel' = kernel,
           SetStart(c) \/ SetRegister(c) \/ SetStore(c) \/ SetPublish(c)
    PROVE  RaceTypes'
<1>1. CASE SetStart(c)
  <2>1. PICK i \in Slot : ctl' = [ctl EXCEPT ![c] = [IdleCtl EXCEPT !.pc = "register", !.slot = i]]
    BY <1>1 DEF SetStart
  <2>2. ctl' \in [Caller -> Ctl]
    BY <2>1, SlotRange DEF RaceTypes, Ctl, CtlPc, IdleCtl
  <2>3. \A d \in Caller : InSlot(d)'
    BY <2>1 DEF RaceTypes, InSlot
  <2>4. overlap' \in BOOLEAN
    BY <1>1 DEF SetStart, CallStart
  <2> QED BY <1>1, <2>2, <2>3, <2>4 DEF SetStart, RaceTypes, slots
<1>2. CASE SetRegister(c)
  <2>1. ASSUME NEW e \in Event, hw' = [hw EXCEPT ![e] = "original"],
               ctl' = [ctl EXCEPT ![c].pc = "store", ![c].ev = e]
        PROVE  RaceTypes'
    <3>1. ctl' \in [Caller -> Ctl]
      BY <2>1 DEF RaceTypes, Ctl, CtlPc
    <3>2. \A d \in Caller : InSlot(d)'
      <4>1. e # NULL
        BY RaceAssumption
      <4>2. ctl[c].pc = "register" /\ ctl[c].slot \in Slot
        BY <1>2 DEF SetRegister, RaceTypes, InSlot
      <4> QED BY <2>1, <4>1, <4>2 DEF RaceTypes, InSlot
    <3>3. hw' \in [Event -> {"free", "original", "next"}]
      BY <2>1 DEF RaceTypes
    <3> QED BY <1>2, <3>1, <3>2 DEF SetRegister, RaceTypes, slots
  <2>2. CASE ctl' = [ctl EXCEPT ![c] = IdleCtl] /\ UNCHANGED hw
    BY <1>2, <2>2, SlotRange DEF SetRegister, RaceTypes, InSlot, Ctl, CtlPc, IdleCtl, slots
  <2> QED BY <1>2, <2>1, <2>2 DEF SetRegister
<1>3. CASE SetStore(c)
  BY <1>3 DEF SetStore, RaceTypes, InSlot, Ctl, CtlPc
<1>4. CASE SetPublish(c)
  BY <1>4, SlotRange DEF SetPublish, RaceTypes, InSlot, Ctl, CtlPc, IdleCtl
<1> QED BY <1>1, <1>2, <1>3, <1>4

LEMMA EnterClearTypes ==
    ASSUME RaceTypes, NEW c \in Caller, NEW i \in Slot, NEW all \in BOOLEAN, EnterClear(c, i, all)
    PROVE  ctl' \in [Caller -> Ctl] /\ \A d \in Caller : InSlot(d)'
BY SlotRange DEF EnterClear, RaceTypes, InSlot, Ctl, CtlPc

LEMMA ClearTypes ==
    ASSUME RaceTypes, NEW c \in Caller, kernel' = kernel,
           \/ \E i \in Slot : ClearStart(c, i)
           \/ ClearUnregister(c) \/ ClearForget(c) \/ ClearZero(c)
           \/ ClearAllStart(c) \/ ClearAllScan(c)
    PROVE  RaceTypes'
<1>1. ASSUME NEW i \in Slot, ClearStart(c, i) PROVE RaceTypes'
  BY <1>1, EnterClearTypes DEF ClearStart, CallStart, RaceTypes, slots
<1>2. CASE ClearUnregister(c)
  <2>1. hw' \in [Event -> {"free", "original", "next"}] /\ misused' \in BOOLEAN
    BY <1>2, UnregisterTypes DEF ClearUnregister, RaceTypes, Ctl
  <2> QED BY <1>2, <2>1 DEF ClearUnregister, RaceTypes, InSlot, Ctl, CtlPc, slots
<1>3. CASE ClearForget(c)
  BY <1>3 DEF ClearForget, RaceTypes, InSlot, Ctl, CtlPc
<1>4. CASE ClearZero(c)
  <2>1. CASE ctl' = [ctl EXCEPT ![c] = IdleCtl]
    <3>1. ctl' \in [Caller -> Ctl]
      BY <2>1, SlotRange DEF RaceTypes, Ctl, CtlPc, IdleCtl
    <3>2. \A d \in Caller : InSlot(d)'
      BY <2>1 DEF RaceTypes, InSlot, IdleCtl
    <3> QED BY <1>4, <3>1, <3>2 DEF ClearZero, RaceTypes
  <2>2. CASE ctl' = [ctl EXCEPT ![c] = [ctl[c] EXCEPT !.pc = "scan", !.slot = @ + 1, !.ev = NULL]]
    <3>1. ctl[c].slot \in Slot
      BY <1>4 DEF ClearZero, RaceTypes, InSlot
    <3>2. ctl[c].slot + 1 \in 0 .. MAX_HW_BREAKPOINTS
      BY <3>1, RaceAssumption DEF Slot
    <3>3. ctl' \in [Caller -> Ctl]
      BY <2>2, <3>2 DEF RaceTypes, Ctl, CtlPc
    <3>4. \A d \in Caller : InSlot(d)'
      BY <2>2 DEF RaceTypes, InSlot
    <3> QED BY <1>4, <3>3, <3>4 DEF ClearZero, RaceTypes
  <2> QED BY <1>4, <2>1, <2>2 DEF ClearZero
<1>5. CASE ClearAllStart(c)
  BY <1>5, SlotRange DEF ClearAllStart, CallStart, RaceTypes, InSlot, Ctl, CtlPc, IdleCtl, slots
<1>6. CASE ClearAllScan(c)
  <2>1. CASE ctl[c].slot \in Slot /\ EnterClear(c, ctl[c].slot, TRUE) /\ UNCHANGED cleared
    BY <1>6, <2>1, EnterClearTypes DEF ClearAllScan, RaceTypes, slots
  <2>2. CASE ctl[c].slot \in Slot /\ ctl' = [ctl EXCEPT ![c].slot = ctl[c].slot + 1] /\ UNCHANGED cleared
    <3>1. ctl[c].slot + 1 \in 0 .. MAX_HW_BREAKPOINTS
      BY <2>2, RaceAssumption DEF Slot
    <3> QED BY <1>6, <2>2, <3>1 DEF ClearAllScan, RaceTypes, InSlot, Ctl, slots
  <2>3. CASE ctl' = [ctl EXCEPT ![c] = IdleCtl] /\ cleared' = TRUE
    BY <1>6, <2>3, SlotRange DEF ClearAllScan, RaceTypes, InSlot, Ctl, CtlPc, IdleCtl, slots
  <2> QED BY <1>6, <2>1, <2>2, <2>3 DEF ClearAllScan
<1> QED BY <1>1, <1>2, <1>3, <1>4, <1>5, <1>6

LEMMA HandlerTypes ==
    ASSUME RaceTypes, NEW e \in Event, kernel' = kernel, HandlerMatch(e) \/ HandlerStep(e)
    PROVE  RaceTypes'
<1>1. CASE HandlerMatch(e)
  BY <1>1 DEF HandlerMatch, RaceTypes, InSlot, Hnd, HndPc, slots
<1>2. CASE HandlerModify(e)
  BY <1>2 DEF HandlerModify, ModifyOk, To, RaceTypes, InSlot, Hnd, HndPc, slots
<1>3. CASE HandlerFlag(e)
  BY <1>3 DEF HandlerFlag, To, RaceTypes, InSlot, Hnd, HndPc
<1>4. CASE HandlerRelease(e)
  <2>1. bp_events[hnd[e].slot] \in Event \cup {NULL}
    BY DEF RaceTypes, Hnd
  <2>2. hw' \in [Event -> {"free", "original", "next"}] /\ misused' \in BOOLEAN
    BY <1>4, <2>1, UnregisterTypes DEF HandlerRelease, GiveUp, RaceTypes
  <2> QED BY <1>4, <2>2 DEF HandlerRelease, GiveUp, To, RaceTypes, InSlot, Hnd, HndPc, slots
<1>5. CASE HandlerDisable(e)
  BY <1>5 DEF HandlerDisable, To, RaceTypes, InSlot, Hnd, HndPc
<1>6. CASE HandlerForget(e)
  BY <1>6 DEF HandlerForget, To, RaceTypes, InSlot, Hnd, HndPc
<1> QED BY <1>1, <1>2, <1>3, <1>4, <1>5, <1>6 DEF HandlerStep

-----------------------------------------------------------------------------
(* The orderly invariant is kept by every step *)

\* A set that found a free slot: nothing but its own record changes.
LEMMA SetStartKeeps ==
    ASSUME RaceTypes, RaceInv, NEW c \in Caller, SetStart(c), ~overlap'
    PROVE  RaceInv'
<1>1. PICK i \in Slot : FirstFreeSlot(i) /\ ctl' = [ctl EXCEPT ![c] = [IdleCtl EXCEPT !.pc = "register", !.slot = i]]
  BY DEF SetStart
<1>2. \A d \in Caller : ctl[d].pc = "idle"
  BY DEF SetStart, CallStart, BusyCtl
<1>3. UNCHANGED <<enabled, bp_events, at_next, hw, hnd, misused>> /\ ~cleared'
  BY DEF SetStart, slots
<1>4. /\ ctl'[c].pc = "register" /\ ctl'[c].slot = i /\ ~ctl'[c].all
      /\ \A d \in Caller \ {c} : ctl'[d] = ctl[d]
  BY <1>1 DEF RaceTypes, IdleCtl
<1>5. ~enabled[i] /\ bp_events[i] = NULL
  BY <1>1 DEF FirstFreeSlot, RaceInv, Armed
<1>6. ~misused'
  BY <1>3 DEF RaceInv
<1>7. OneCall'
  BY <1>2, <1>4 DEF OneCall, BusyCtl
<1>8. \A e \in Event : Handling(e)'
  BY <1>3 DEF RaceInv, Handling
<1>9. \A e \in Event : Accounted(e)'
  BY <1>2, <1>3 DEF RaceInv, Accounted, Bringing
<1>10. \A j \in Slot : Armed(j)'
  BY <1>2, <1>3 DEF RaceInv, Armed, Forgetting
<1>11. \A j \in Slot : InUse(j)'
  BY <1>2, <1>3 DEF RaceInv, InUse
<1>12. OneSlotEach'
  BY <1>3 DEF RaceInv, OneSlotEach
<1>13. \A d \in Caller : Calling(d)'
  BY <1>3, <1>4, <1>5 DEF RaceInv, Calling
<1>14. NothingLeft'
  BY <1>3 DEF NothingLeft
<1> QED BY <1>6, <1>7, <1>8, <1>9, <1>10, <1>11, <1>12, <1>13, <1>14 DEF RaceInv

\* A set that got its event, or was refused.
LEMMA SetRegisterKeeps ==
    ASSUME RaceTypes, RaceInv, NEW c \in Caller, SetRegister(c)
    PROVE  RaceInv'
<1>1. ctl[c].pc = "register" /\ \A d \in Caller \ {c} : ctl[d].pc = "idle"
  BY DEF SetRegister, RaceInv, OneCall, BusyCtl
<1>2. UNCHANGED <<enabled, bp_events, at_next, hnd, misused, cleared>>
  BY DEF SetRegister, slots
<1>3. \/ /\ hw' = hw /\ \A d \in Caller : ctl'[d].pc = "idle" 
      \/ \E e \in Event : /\ hw[e] = "free" /\ hnd[e].pc = "idle"
                          /\ hw'[e] = "original" /\ \A f \in Event \ {e} : hw'[f] = hw[f]
                          /\ ctl'[c].pc = "store" /\ ctl'[c].ev = e /\ ctl'[c].slot = ctl[c].slot /\ (ctl'[c].all <=> ctl[c].all)
                          /\ \A d \in Caller \ {c} : ctl'[d] = ctl[d]
  BY <1>1 DEF SetRegister, RaceTypes, Ctl, IdleCtl
<1>4. \A e \in Event : hw[e] = "free" => \A i \in Slot : bp_events[i] # e
  BY <1>1, RaceAssumption DEF RaceInv, Armed, Forgetting
<1>5. \A i \in Slot : bp_events[i] = NULL \/ bp_events[i] \in Event
  BY DEF RaceTypes
<1>6. ~misused'
  BY <1>2 DEF RaceInv
<1>7. OneCall'
  BY <1>1, <1>3 DEF OneCall, BusyCtl
<1>8. \A e \in Event : Handling(e)'
  BY <1>2, <1>3 DEF RaceInv, Handling
<1>9. \A e \in Event : Accounted(e)'
  BY <1>1, <1>2, <1>3 DEF RaceInv, Accounted, Bringing
<1>10. \A i \in Slot : Armed(i)'
  BY <1>2, <1>3, <1>4, <1>5 DEF RaceInv, Armed
<1>11. \A i \in Slot : InUse(i)'
  BY <1>1, <1>2 DEF RaceInv, InUse
<1>12. OneSlotEach'
  BY <1>2 DEF RaceInv, OneSlotEach
<1>13. \A d \in Caller : Calling(d)'
  BY <1>1, <1>2, <1>3, <1>4 DEF RaceInv, Calling
<1>14. NothingLeft'
  BY <1>2 DEF RaceInv, NothingLeft
<1> QED BY <1>6, <1>7, <1>8, <1>9, <1>10, <1>11, <1>12, <1>13, <1>14 DEF RaceInv

\* The store of enabled.
LEMMA SetStoreKeeps ==
    ASSUME RaceTypes, RaceInv, NEW c \in Caller, SetStore(c)
    PROVE  RaceInv'
<1>1. ctl[c].pc = "store" /\ ctl[c].slot \in Slot /\ \A d \in Caller \ {c} : ctl[d].pc = "idle"
  BY DEF SetStore, RaceInv, OneCall, BusyCtl, RaceTypes, InSlot
<1>2. UNCHANGED <<bp_events, at_next, hw, hnd, misused, cleared>>
  BY DEF SetStore
<1>3. enabled'[ctl[c].slot] /\ \A i \in Slot \ {ctl[c].slot} : enabled'[i] <=> enabled[i]
  BY <1>1 DEF SetStore, RaceTypes
<1>4. /\ ctl'[c].pc = "publish" /\ ctl'[c].ev = ctl[c].ev /\ ctl'[c].slot = ctl[c].slot
      /\ (ctl'[c].all <=> ctl[c].all) /\ \A d \in Caller \ {c} : ctl'[d] = ctl[d]
  BY DEF SetStore, RaceTypes, Ctl
<1>5. bp_events[ctl[c].slot] = NULL /\ ~cleared
  BY <1>1 DEF RaceInv, Calling, Armed
<1>6. ~misused'
  BY <1>2 DEF RaceInv
<1>7. OneCall'
  BY <1>1, <1>4 DEF OneCall, BusyCtl
<1>8. \A e \in Event : Handling(e)'
  BY <1>2 DEF RaceInv, Handling
<1>9. \A e \in Event : Accounted(e)'
  BY <1>2, <1>4 DEF RaceInv, Accounted, Bringing
<1>10. \A i \in Slot : Armed(i)'
  BY <1>2, <1>3, <1>4, <1>5 DEF RaceInv, Armed, Forgetting
<1>11. \A i \in Slot : InUse(i)'
  BY <1>2, <1>3, <1>4 DEF RaceInv, InUse
<1>12. OneSlotEach'
  BY <1>2 DEF RaceInv, OneSlotEach
<1>13. \A d \in Caller : Calling(d)'
  BY <1>1, <1>2, <1>3, <1>4, <1>5 DEF RaceInv, Calling
<1>14. NothingLeft'
  BY <1>2, <1>5 DEF NothingLeft
<1> QED BY <1>6, <1>7, <1>8, <1>9, <1>10, <1>11, <1>12, <1>13, <1>14 DEF RaceInv

\* The stores of the event and of its flag, after which handlers see the slot.
LEMMA SetPublishKeeps ==
    ASSUME RaceTypes, RaceInv, NEW c \in Caller, SetPublish(c)
    PROVE  RaceInv'
<1>1. /\ ctl[c].pc = "publish" /\ ctl[c].slot \in Slot /\ ctl[c].ev \in Event
      /\ \A d \in Caller \ {c} : ctl[d].pc = "idle"
  BY DEF SetPublish, RaceInv, OneCall, BusyCtl, RaceTypes, InSlot, Ctl
<1>2. UNCHANGED <<enabled, hw, hnd, misused, cleared>>
  BY DEF SetPublish
<1>3. /\ bp_events'[ctl[c].slot] = ctl[c].ev /\ ~at_next'[ctl[c].slot]
      /\ \A i \in Slot \ {ctl[c].slot} : bp_events'[i] = bp_events[i] /\ (at_next'[i] <=> at_next[i])
  BY <1>1 DEF SetPublish, RaceTypes
<1>4. \A d \in Caller : ctl'[d].pc = "idle"
  BY <1>1 DEF SetPublish, RaceTypes, IdleCtl
<1>5. /\ hw[ctl[c].ev] = "original" /\ enabled[ctl[c].slot] /\ bp_events[ctl[c].slot] = NULL
      /\ \A i \in Slot : bp_events[i] # ctl[c].ev
  BY <1>1 DEF RaceInv, Calling
<1>6. \A i \in Slot : bp_events[i] = NULL \/ bp_events[i] \in Event
  BY DEF RaceTypes
<1>7. hnd[ctl[c].ev].pc = "idle" /\ \A e \in Event : hnd[e].slot \in Slot
  BY <1>1, <1>5 DEF RaceInv, Handling, RaceTypes, Hnd
<1>8. NULL \notin Event
  BY RaceAssumption
<1>9. ~misused'
  BY <1>2 DEF RaceInv
<1>10. OneCall'
  BY <1>4 DEF OneCall, BusyCtl
<1>11. \A e \in Event : Handling(e)'
  BY <1>2, <1>3, <1>5, <1>7, <1>8 DEF RaceInv, Handling
<1>12. \A e \in Event : Accounted(e)'
  BY <1>1, <1>2, <1>3, <1>5, <1>8 DEF RaceInv, Accounted, Bringing
<1>13. \A i \in Slot : Armed(i)'
  BY <1>1, <1>2, <1>3, <1>5 DEF RaceInv, Armed, Forgetting
<1>14. \A i \in Slot : InUse(i)'
  BY <1>1, <1>2, <1>3, <1>8 DEF RaceInv, InUse
<1>15. OneSlotEach'
  BY <1>3, <1>5 DEF RaceInv, OneSlotEach
<1>16. \A d \in Caller : Calling(d)'
  BY <1>4 DEF Calling
<1>17. NothingLeft'
  BY <1>2 DEF RaceInv, NothingLeft
<1> QED BY <1>9, <1>10, <1>11, <1>12, <1>13, <1>14, <1>15, <1>16, <1>17 DEF RaceInv

\* A clear of a slot in use.
LEMMA ClearStartKeeps ==
    ASSUME RaceTypes, RaceInv, NEW c \in Caller, NEW i \in Slot, ClearStart(c, i), ~overlap'
    PROVE  RaceInv'
<1>1. enabled[i] /\ \A d \in Caller : ctl[d].pc = "idle"
  BY DEF ClearStart, CallStart, BusyCtl
<1>2. UNCHANGED <<enabled, bp_events, at_next, hw, hnd, misused, cleared>>
  BY DEF ClearStart, slots
<1>3. bp_events[i] # NULL /\ hw[bp_events[i]] # "free" /\ ~cleared
  BY <1>1 DEF RaceInv, InUse, Armed, Forgetting, NothingLeft
<1>4. /\ ctl'[c].pc = "unregister" /\ ctl'[c].slot = i /\ ctl'[c].ev = bp_events[i] /\ ~ctl'[c].all
      /\ \A d \in Caller \ {c} : ctl'[d] = ctl[d]
  BY <1>3 DEF ClearStart, EnterClear, RaceTypes
<1>5. ~misused'
  BY <1>2 DEF RaceInv
<1>6. OneCall'
  BY <1>1, <1>4 DEF OneCall, BusyCtl
<1>7. \A e \in Event : Handling(e)'
  BY <1>2 DEF RaceInv, Handling
<1>8. \A e \in Event : Accounted(e)'
  BY <1>1, <1>2 DEF RaceInv, Accounted, Bringing
<1>9. \A j \in Slot : Armed(j)'
  BY <1>1, <1>2 DEF RaceInv, Armed, Forgetting
<1>10. \A j \in Slot : InUse(j)'
  BY <1>1, <1>2 DEF RaceInv, InUse
<1>11. OneSlotEach'
  BY <1>2 DEF RaceInv, OneSlotEach
<1>12. \A d \in Caller : Calling(d)'
  BY <1>2, <1>3, <1>4 DEF RaceInv, Calling
<1>13. NothingLeft'
  BY <1>2 DEF RaceInv, NothingLeft
<1> QED BY <1>5, <1>6, <1>7, <1>8, <1>9, <1>10, <1>11, <1>12, <1>13 DEF RaceInv

\* The start of a clear_all.
LEMMA ClearAllStartKeeps ==
    ASSUME RaceTypes, RaceInv, NEW c \in Caller, ClearAllStart(c), ~overlap'
    PROVE  RaceInv'
<1>1. \A d \in Caller : ctl[d].pc = "idle"
  BY DEF ClearAllStart, CallStart, BusyCtl
<1>2. UNCHANGED <<enabled, bp_events, at_next, hw, hnd, misused, cleared>>
  BY DEF ClearAllStart, slots
<1>3. /\ ctl'[c].pc = "scan" /\ ctl'[c].slot = 0 /\ ctl'[c].all
      /\ \A d \in Caller \ {c} : ctl'[d] = ctl[d]
  BY DEF ClearAllStart, RaceTypes, IdleCtl
<1>4. \A j \in Slot : ~(j < 0)
  BY RaceAssumption DEF Slot
<1>5. ~misused'
  BY <1>2 DEF RaceInv
<1>6. OneCall'
  BY <1>1, <1>3 DEF OneCall, BusyCtl
<1>7. \A e \in Event : Handling(e)'
  BY <1>2 DEF RaceInv, Handling
<1>8. \A e \in Event : Accounted(e)'
  BY <1>1, <1>2 DEF RaceInv, Accounted, Bringing
<1>9. \A i \in Slot : Armed(i)'
  BY <1>1, <1>2 DEF RaceInv, Armed, Forgetting
<1>10. \A i \in Slot : InUse(i)'
  BY <1>1, <1>2 DEF RaceInv, InUse
<1>11. OneSlotEach'
  BY <1>2 DEF RaceInv, OneSlotEach
<1>12. \A d \in Caller : Calling(d)'
  BY <1>2, <1>3, <1>4 DEF RaceInv, Calling
<1>13. NothingLeft'
  BY <1>2 DEF RaceInv, NothingLeft
<1> QED BY <1>5, <1>6, <1>7, <1>8, <1>9, <1>10, <1>11, <1>12, <1>13 DEF RaceInv

\* A clear_all looks at a slot, or is past the last.
LEMMA ClearAllScanKeeps ==
    ASSUME RaceTypes, RaceInv, NEW c \in Caller, ClearAllScan(c)
    PROVE  RaceInv'
<1>1. ctl[c].pc = "scan" /\ ctl[c].all /\ \A d \in Caller \ {c} : ctl[d].pc = "idle"
  BY DEF ClearAllScan, RaceInv, Calling, OneCall, BusyCtl
<1>2. UNCHANGED <<enabled, bp_events, at_next, hw, hnd, misused>> /\ \A d \in Caller \ {c} : ctl'[d] = ctl[d]
  BY DEF ClearAllScan, EnterClear, slots, RaceTypes
<1>3. \/ \E i \in Slot : /\ i = ctl[c].slot /\ bp_events[i] # NULL /\ hw[bp_events[i]] # "free"
                          /\ ~cleared /\ cleared' = cleared
                          /\ ctl'[c].pc = "unregister" /\ ctl'[c].slot = i /\ ctl'[c].ev = bp_events[i] /\ ctl'[c].all
      \/ /\ cleared' = cleared /\ ctl[c].slot \in Slot /\ ~enabled[ctl[c].slot]
         /\ ctl'[c].pc = "scan" /\ ctl'[c].slot = ctl[c].slot + 1 /\ ctl'[c].all
      \/ /\ ctl'[c].pc = "idle" /\ ctl[c].slot \notin Slot /\ ctl[c].slot \in 0 .. MAX_HW_BREAKPOINTS
  <2>1. CASE ctl[c].slot \in Slot /\ enabled[ctl[c].slot] /\ EnterClear(c, ctl[c].slot, TRUE) /\ UNCHANGED cleared
    <3>1. bp_events[ctl[c].slot] # NULL /\ hw[bp_events[ctl[c].slot]] # "free" /\ ~cleared
      BY <1>1, <2>1 DEF RaceInv, InUse, Armed, Forgetting, NothingLeft
    <3> QED BY <2>1, <3>1 DEF EnterClear, RaceTypes
  <2>2. CASE ctl[c].slot \in Slot /\ ~enabled[ctl[c].slot] /\ ctl' = [ctl EXCEPT ![c].slot = ctl[c].slot + 1] /\ UNCHANGED cleared
    BY <1>1, <2>2 DEF RaceTypes
  <2>3. CASE ctl[c].slot \notin Slot /\ ctl' = [ctl EXCEPT ![c] = IdleCtl]
    BY <2>3 DEF RaceTypes, Ctl, IdleCtl
  <2> QED BY <2>1, <2>2, <2>3 DEF ClearAllScan
<1>4. \A j \in Slot : j < ctl[c].slot => ~enabled[j]
  BY <1>1 DEF RaceInv, Calling
<1>5. /\ \A j \in Slot : j < ctl[c].slot + 1 => j < ctl[c].slot \/ j = ctl[c].slot
      /\ ctl[c].slot \notin Slot => \A j \in Slot : j < ctl[c].slot
  <2>1. ctl[c].slot \in 0 .. MAX_HW_BREAKPOINTS
    BY DEF RaceTypes, Ctl
  <2> QED BY <2>1, RaceAssumption DEF Slot
<1>6. ctl[c].slot \notin Slot => \A j \in Slot : ~enabled[j]
  BY <1>4, <1>5, Zenon
<1>7. \A j \in Slot : (j < ctl[c].slot + 1 /\ ~enabled[ctl[c].slot]) => ~enabled[j]
  BY <1>4, <1>5, Zenon
<1>8. ~misused'
  BY <1>2 DEF RaceInv
<1>9. OneCall'
  BY <1>1, <1>2 DEF OneCall, BusyCtl
<1>10. \A e \in Event : Handling(e)'
  BY <1>2 DEF RaceInv, Handling
<1>11. \A e \in Event : Accounted(e)'
  BY <1>1, <1>2 DEF RaceInv, Accounted, Bringing
<1>12. \A i \in Slot : Armed(i)'
  BY <1>2, <1>3 DEF RaceInv, Armed, Forgetting
<1>13. \A i \in Slot : InUse(i)'
  BY <1>2, <1>3 DEF RaceInv, InUse
<1>14. OneSlotEach'
  BY <1>2 DEF RaceInv, OneSlotEach
<1>15. \A d \in Caller : Calling(d)'
  BY <1>1, <1>2, <1>3, <1>7 DEF RaceInv, Calling
<1>16. NothingLeft'
  BY <1>2, <1>3, <1>6 DEF RaceInv, NothingLeft
<1> QED BY <1>8, <1>9, <1>10, <1>11, <1>12, <1>13, <1>14, <1>15, <1>16 DEF RaceInv

\* The event of the slot is released; no handler of it is running.
LEMMA ClearUnregisterKeeps ==
    ASSUME RaceTypes, RaceInv, NEW c \in Caller, ClearUnregister(c)
    PROVE  RaceInv'
<1>1. /\ ctl[c].pc = "unregister" /\ ctl[c].slot \in Slot /\ ctl[c].ev \in Event
      /\ \A d \in Caller \ {c} : ctl[d].pc = "idle"
  BY DEF ClearUnregister, RaceInv, OneCall, BusyCtl, RaceTypes, InSlot, Ctl
<1>2. bp_events[ctl[c].slot] = ctl[c].ev /\ hw[ctl[c].ev] # "free" /\ hnd[ctl[c].ev].pc = "idle"
  BY DEF RaceInv, Calling, ClearUnregister
<1>3. UNCHANGED <<enabled, bp_events, at_next, hnd, misused, cleared>>
  BY <1>1, <1>2, RaceAssumption DEF ClearUnregister, Unregister, Registered, slots
<1>4. hw'[ctl[c].ev] = "free" /\ \A e \in Event \ {ctl[c].ev} : hw'[e] = hw[e]
  BY <1>1, RaceAssumption DEF ClearUnregister, Unregister, Registered, RaceTypes
<1>5. /\ ctl'[c].pc = "forget" /\ ctl'[c].ev = ctl[c].ev /\ ctl'[c].slot = ctl[c].slot
      /\ (ctl'[c].all <=> ctl[c].all) /\ \A d \in Caller \ {c} : ctl'[d] = ctl[d]
  BY DEF ClearUnregister, RaceTypes, Ctl
<1>6. \A i \in Slot : bp_events[i] = NULL \/ bp_events[i] \in Event
  BY DEF RaceTypes
<1>7. \A i \in Slot \ {ctl[c].slot} : bp_events[i] # ctl[c].ev
  BY <1>1, <1>2, RaceAssumption DEF RaceInv, OneSlotEach
<1>8. ~misused'
  BY <1>3 DEF RaceInv
<1>9. OneCall'
  BY <1>1, <1>5 DEF OneCall, BusyCtl
<1>10. \A e \in Event : Handling(e)'
  BY <1>2, <1>3, <1>4 DEF RaceInv, Handling
<1>11. \A e \in Event : Accounted(e)'
  BY <1>3, <1>4, <1>5 DEF RaceInv, Accounted, Bringing
<1>12. \A i \in Slot : Armed(i)'
  BY <1>3, <1>4, <1>5, <1>6, <1>7 DEF RaceInv, Armed, Forgetting
<1>13. \A i \in Slot : InUse(i)'
  BY <1>1, <1>3 DEF RaceInv, InUse
<1>14. OneSlotEach'
  BY <1>3 DEF RaceInv, OneSlotEach
<1>15. \A d \in Caller : Calling(d)'
  BY <1>1, <1>3, <1>4, <1>5 DEF RaceInv, Calling
<1>16. NothingLeft'
  BY <1>3 DEF RaceInv, NothingLeft
<1> QED BY <1>8, <1>9, <1>10, <1>11, <1>12, <1>13, <1>14, <1>15, <1>16 DEF RaceInv

\* The slot forgets its event.
LEMMA ClearForgetKeeps ==
    ASSUME RaceTypes, RaceInv, NEW c \in Caller, ClearForget(c)
    PROVE  RaceInv'
<1>1. /\ ctl[c].pc = "forget" /\ ctl[c].slot \in Slot /\ ctl[c].ev \in Event
      /\ \A d \in Caller \ {c} : ctl[d].pc = "idle"
  BY DEF ClearForget, RaceInv, OneCall, BusyCtl, RaceTypes, InSlot, Ctl
<1>2. /\ bp_events[ctl[c].slot] = ctl[c].ev /\ hw[ctl[c].ev] = "free"
      /\ enabled[ctl[c].slot] /\ ~cleared
  BY <1>1, RaceAssumption DEF RaceInv, Calling, Armed
<1>3. UNCHANGED <<enabled, at_next, hw, hnd, misused, cleared>>
  BY DEF ClearForget
<1>4. bp_events'[ctl[c].slot] = NULL /\ \A i \in Slot \ {ctl[c].slot} : bp_events'[i] = bp_events[i]
  BY <1>1 DEF ClearForget, RaceTypes
<1>5. /\ ctl'[c].pc = "zero" /\ ctl'[c].slot = ctl[c].slot
      /\ (ctl'[c].all <=> ctl[c].all) /\ \A d \in Caller \ {c} : ctl'[d] = ctl[d]
  BY DEF ClearForget, RaceTypes, Ctl
<1>6. \A e \in Event : hnd[e].slot \in Slot
  BY DEF RaceTypes, Hnd
<1>7. ~misused'
  BY <1>3 DEF RaceInv
<1>8. OneCall'
  BY <1>1, <1>5 DEF OneCall, BusyCtl
<1>9. \A e \in Event : Handling(e)'
  BY <1>2, <1>3, <1>4, <1>6 DEF RaceInv, Handling
<1>10. \A e \in Event : Accounted(e)'
  BY <1>2, <1>3, <1>4, <1>5 DEF RaceInv, Accounted, Bringing
<1>11. \A i \in Slot : Armed(i)'
  BY <1>3, <1>4, <1>5 DEF RaceInv, Armed, Forgetting
<1>12. \A i \in Slot : InUse(i)'
  BY <1>3, <1>4, <1>5 DEF RaceInv, InUse
<1>13. OneSlotEach'
  BY <1>4 DEF RaceInv, OneSlotEach
<1>14. \A d \in Caller : Calling(d)'
  BY <1>1, <1>3, <1>4, <1>5 DEF RaceInv, Calling
<1>15. NothingLeft'
  BY <1>3 DEF RaceInv, NothingLeft
<1> QED BY <1>7, <1>8, <1>9, <1>10, <1>11, <1>12, <1>13, <1>14, <1>15 DEF RaceInv

\* enabled = 0: the slot is free again.
LEMMA ClearZeroKeeps ==
    ASSUME RaceTypes, RaceInv, NEW c \in Caller, ClearZero(c)
    PROVE  RaceInv'
<1>1. ctl[c].pc = "zero" /\ ctl[c].slot \in Slot /\ \A d \in Caller \ {c} : ctl[d].pc = "idle"
  BY DEF ClearZero, RaceInv, OneCall, BusyCtl, RaceTypes, InSlot
<1>2. bp_events[ctl[c].slot] = NULL
  BY <1>1 DEF RaceInv, Calling
<1>3. UNCHANGED <<bp_events, at_next, hw, hnd, misused, cleared>>
  BY DEF ClearZero
<1>4. ~enabled'[ctl[c].slot] /\ \A i \in Slot \ {ctl[c].slot} : enabled'[i] <=> enabled[i]
  BY <1>1 DEF ClearZero, RaceTypes
<1>5. /\ \A d \in Caller \ {c} : ctl'[d] = ctl[d]
      /\ \/ ctl'[c].pc = "idle"
         \/ ctl[c].all /\ ctl'[c].pc = "scan" /\ ctl'[c].slot = ctl[c].slot + 1 /\ ctl'[c].all
  <2>1. CASE ctl[c].all
    BY <2>1 DEF ClearZero, RaceTypes
  <2>2. CASE ~ctl[c].all
    BY DEF ClearZero, RaceTypes, IdleCtl
  <2> QED BY <2>1, <2>2
<1>6. \A j \in Slot : j < ctl[c].slot + 1 => j < ctl[c].slot \/ j = ctl[c].slot
  BY <1>1, RaceAssumption DEF Slot
<1>7. ~misused'
  BY <1>3 DEF RaceInv
<1>8. OneCall'
  BY <1>1, <1>5 DEF OneCall, BusyCtl
<1>9. \A e \in Event : Handling(e)'
  BY <1>3 DEF RaceInv, Handling
<1>10. \A e \in Event : Accounted(e)'
  BY <1>1, <1>3 DEF RaceInv, Accounted, Bringing
<1>11. \A i \in Slot : Armed(i)'
  BY <1>2, <1>3, <1>4, <1>5 DEF RaceInv, Armed, Forgetting
<1>12. \A i \in Slot : InUse(i)'
  BY <1>3, <1>4, <1>5 DEF RaceInv, InUse
<1>13. OneSlotEach'
  BY <1>3 DEF RaceInv, OneSlotEach
<1>14. \A d \in Caller : Calling(d)'
  BY <1>1, <1>4, <1>5, <1>6 DEF RaceInv, Calling
<1>15. NothingLeft'
  BY <1>3, <1>4 DEF RaceInv, NothingLeft
<1> QED BY <1>7, <1>8, <1>9, <1>10, <1>11, <1>12, <1>13, <1>14, <1>15 DEF RaceInv

\* An event fires and its handler finds the slot.
LEMMA HandlerMatchKeeps ==
    ASSUME RaceTypes, RaceInv, NEW e \in Event, HandlerMatch(e), HasModify
    PROVE  RaceInv'
<1>1. UNCHANGED <<enabled, bp_events, at_next, hw, ctl, misused, cleared>>
  BY DEF HandlerMatch, slots
<1>2. hw[e] # "free" /\ hnd[e].pc = "idle"
  BY DEF HandlerMatch
<1>3. /\ (\A f \in Event \ {e} : hnd'[f] = hnd[f]) /\ bp_events[hnd'[e].slot] = e /\ hnd'[e].slot \in Slot
      /\ \/ at_next[hnd'[e].slot] /\ hnd'[e].pc = "modify_back"
         \/ ~at_next[hnd'[e].slot] /\ hnd'[e].pc = "modify_next"
  BY DEF HandlerMatch, Handles, RaceTypes
<1>4. \A i \in Slot : bp_events[i] = NULL \/ bp_events[i] \in Event
  BY DEF RaceTypes
<1>5. ~misused'
  BY <1>1 DEF RaceInv
<1>6. OneCall'
  BY <1>1 DEF RaceInv, OneCall, BusyCtl
<1>7. \A f \in Event : Handling(f)'
  <2>1. ASSUME NEW f \in Event, f # e PROVE Handling(f)'
    BY <1>1, <1>3, <2>1 DEF RaceInv, Handling
  <2>2. Handling(e)'
    BY <1>1, <1>2, <1>3 DEF Handling
  <2> QED BY <2>1, <2>2
<1>8. \A f \in Event : Accounted(f)'
  BY <1>1 DEF RaceInv, Accounted, Bringing
<1>9. \A i \in Slot : Armed(i)'
  BY <1>1, <1>2, <1>3, <1>4 DEF RaceInv, Armed, Forgetting
<1>10. \A i \in Slot : InUse(i)'
  BY <1>1 DEF RaceInv, InUse
<1>11. OneSlotEach'
  BY <1>1 DEF RaceInv, OneSlotEach
<1>12. \A d \in Caller : Calling(d)'
  BY <1>1 DEF RaceInv, Calling
<1>13. NothingLeft'
  BY <1>1 DEF RaceInv, NothingLeft
<1> QED BY <1>5, <1>6, <1>7, <1>8, <1>9, <1>10, <1>11, <1>12, <1>13 DEF RaceInv

\* The kernel moves the event.
LEMMA HandlerModifyKeeps ==
    ASSUME RaceTypes, RaceInv, NEW e \in Event, HandlerModify(e), ~MayRefuse
    PROVE  RaceInv'
<1>1. hnd[e].pc \in {"modify_next", "modify_back"} /\ bp_events[hnd[e].slot] = e /\ hw[e] # "free"
  BY DEF HandlerModify, RaceInv, Handling
<1>2. UNCHANGED <<enabled, bp_events, at_next, ctl, misused, cleared>>
  BY <1>1 DEF HandlerModify, ModifyOk, Registered, slots
<1>3. /\ (\A f \in Event \ {e} : hnd'[f] = hnd[f]) /\ hnd'[e].slot = hnd[e].slot /\ hnd[e].slot \in Slot /\ \A f \in Event \ {e} : hw'[f] = hw[f]
      /\ \/ hnd[e].pc = "modify_next" /\ hnd'[e].pc = "flag_next" /\ hw'[e] = "next"
         \/ hnd[e].pc = "modify_back" /\ hnd'[e].pc = "flag_back" /\ hw'[e] = "original"
  BY <1>1, RaceAssumption DEF HandlerModify, ModifyOk, Registered, To, RaceTypes, Hnd
<1>4. \A i \in Slot : bp_events[i] = NULL \/ bp_events[i] \in Event
  BY DEF RaceTypes
<1>5. \A c \in Caller : ctl[c].pc \in {"store", "publish", "unregister", "forget"} => ctl[c].ev \in Event
  BY DEF RaceTypes, InSlot, Ctl
<1>6. \A c \in Caller : ctl[c].pc \in {"store", "publish", "forget"} => ctl[c].ev # e
  BY <1>1, <1>3 DEF RaceInv, Calling
<1>7. ~misused'
  BY <1>2 DEF RaceInv
<1>8. OneCall'
  BY <1>2 DEF RaceInv, OneCall, BusyCtl
<1>9. \A f \in Event : Handling(f)'
  <2>1. ASSUME NEW f \in Event, f # e PROVE Handling(f)'
    BY <1>2, <1>3 DEF RaceInv, Handling
  <2>2. Handling(e)'
    BY <1>2, <1>3 DEF RaceInv, Handling
  <2> QED BY <2>1, <2>2
<1>10. \A f \in Event : Accounted(f)'
  BY <1>1, <1>2, <1>3 DEF RaceInv, Accounted, Bringing
<1>11. \A i \in Slot : Armed(i)'
  BY <1>2, <1>3, <1>4 DEF RaceInv, Armed, Forgetting
<1>12. \A i \in Slot : InUse(i)'
  BY <1>2 DEF RaceInv, InUse
<1>13. OneSlotEach'
  BY <1>2 DEF RaceInv, OneSlotEach
<1>14. \A d \in Caller : Calling(d)'
  BY <1>2, <1>3, <1>5, <1>6 DEF RaceInv, Calling
<1>15. NothingLeft'
  BY <1>2 DEF RaceInv, NothingLeft
<1> QED BY <1>7, <1>8, <1>9, <1>10, <1>11, <1>12, <1>13, <1>14, <1>15 DEF RaceInv

\* The flag follows the move.
LEMMA HandlerFlagKeeps ==
    ASSUME RaceTypes, RaceInv, NEW e \in Event, HandlerFlag(e)
    PROVE  RaceInv'
<1>1. /\ hnd[e].pc \in {"flag_next", "flag_back"} /\ hnd[e].slot \in Slot
      /\ bp_events[hnd[e].slot] = e /\ hw[e] # "free"
  BY DEF HandlerFlag, RaceInv, Handling, RaceTypes, Hnd
<1>2. hw[e] = "next" <=> hnd[e].pc = "flag_next"
  BY <1>1 DEF RaceInv, Handling
<1>3. UNCHANGED <<enabled, bp_events, hw, ctl, misused, cleared>>
  BY DEF HandlerFlag
<1>4. /\ (\A f \in Event \ {e} : hnd'[f] = hnd[f]) /\ hnd'[e].pc = "idle"
      /\ at_next'[hnd[e].slot] <=> hnd[e].pc = "flag_next"
      /\ \A i \in Slot \ {hnd[e].slot} : at_next'[i] <=> at_next[i]
  <2>1. CASE hnd[e].pc = "flag_next"
    <3>1. at_next' = [at_next EXCEPT ![hnd[e].slot] = TRUE]
      BY <2>1, Zenon DEF HandlerFlag
    <3> QED BY <2>1 DEF HandlerFlag, To, RaceTypes, Hnd
  <2>2. CASE hnd[e].pc = "flag_back"
    BY DEF HandlerFlag, To, RaceTypes, Hnd
  <2> QED BY <1>1, <2>1, <2>2
<1>5. \A i \in Slot : bp_events[i] = NULL \/ bp_events[i] \in Event
  BY DEF RaceTypes
<1>6. \A f \in Event : hnd[f].slot \in Slot
  BY DEF RaceTypes, Hnd
<1>7. \A i \in Slot : (at_next[i] \in BOOLEAN) /\ (at_next'[i] \in BOOLEAN)
  BY DEF HandlerFlag, RaceTypes
<1>8. \A i \in Slot : bp_events[i] = e => i = hnd[e].slot
  BY <1>1, RaceAssumption DEF RaceInv, OneSlotEach
<1>9. \A f \in Event \ {e} : hnd[f].pc # "idle" => hnd[f].slot # hnd[e].slot
  BY <1>1 DEF RaceInv, Handling
<1>10. ~misused'
  BY <1>3 DEF RaceInv
<1>11. OneCall'
  BY <1>3 DEF RaceInv, OneCall, BusyCtl
<1>12. \A f \in Event : Handling(f)'
  <2>1. ASSUME NEW f \in Event, f # e PROVE Handling(f)'
    BY <1>1, <1>3, <1>4, <1>6 DEF RaceInv, Handling
  <2>2. Handling(e)'
    BY <1>4 DEF Handling
  <2> QED BY <2>1, <2>2
<1>13. \A f \in Event : Accounted(f)'
  BY <1>3 DEF RaceInv, Accounted, Bringing
<1>14. \A i \in Slot : Armed(i)'
  BY <1>1, <1>2, <1>3, <1>4, <1>5, <1>8 DEF RaceInv, Armed, Forgetting
<1>15. \A i \in Slot : InUse(i)'
  BY <1>3 DEF RaceInv, InUse
<1>16. OneSlotEach'
  BY <1>3 DEF RaceInv, OneSlotEach
<1>17. \A d \in Caller : Calling(d)'
  BY <1>3 DEF RaceInv, Calling
<1>18. NothingLeft'
  BY <1>3 DEF RaceInv, NothingLeft
<1> QED BY <1>10, <1>11, <1>12, <1>13, <1>14, <1>15, <1>16, <1>17, <1>18 DEF RaceInv

-----------------------------------------------------------------------------
(* The theorem *)

\* An overlap is never forgotten, so a step that ends orderly began so.
LEMMA OrderlyBefore ==
    ASSUME RaceTypes, Next, Orderly'
    PROVE  Orderly /\ ~overlap' /\ kernel' = kernel
<1>1. kernel' = kernel
  BY DEF Next
<1>2. overlap => overlap'
  <2>1. ASSUME NEW c \in Caller, NEW i \in Slot,
               SetStart(c) \/ ClearStart(c, i) \/ ClearAllStart(c) \/ CallStep(c)
        PROVE  overlap => overlap'
    BY <2>1 DEF SetStart, ClearStart, ClearAllStart, CallStart, CallStep, SetRegister, SetStore,
                SetPublish, ClearAllScan, ClearUnregister, ClearForget, ClearZero
  <2>2. ASSUME NEW e \in Event, HandlerMatch(e) \/ HandlerStep(e)
        PROVE  overlap' = overlap
    BY <2>2
       DEF HandlerMatch, HandlerStep, HandlerModify, HandlerFlag, HandlerRelease, HandlerDisable,
           HandlerForget
  <2> QED BY <2>1, <2>2, SlotRange DEF Next
<1> QED BY <1>1, <1>2 DEF Orderly

LEMMA OrderlyStep ==
    ASSUME RaceTypes, OrderlyInv, Next
    PROVE  OrderlyInv'
<1> SUFFICES ASSUME Orderly' PROVE RaceInv'
  BY DEF OrderlyInv
<1>1. RaceInv /\ HasModify /\ ~MayRefuse /\ ~overlap'
  BY OrderlyBefore DEF Orderly, OrderlyInv, HasModify, MayRefuse
<1>2. ASSUME NEW c \in Caller, SetStart(c) PROVE RaceInv'
  BY <1>1, <1>2, SetStartKeeps
<1>3. ASSUME NEW c \in Caller, NEW i \in Slot, ClearStart(c, i) PROVE RaceInv'
  BY <1>1, <1>3, ClearStartKeeps
<1>4. ASSUME NEW c \in Caller, ClearAllStart(c) PROVE RaceInv'
  BY <1>1, <1>4, ClearAllStartKeeps
<1>5. ASSUME NEW c \in Caller, CallStep(c) PROVE RaceInv'
  BY <1>1, <1>5, SetRegisterKeeps, SetStoreKeeps, SetPublishKeeps, ClearAllScanKeeps,
     ClearUnregisterKeeps, ClearForgetKeeps, ClearZeroKeeps DEF CallStep
<1>6. ASSUME NEW e \in Event, HandlerMatch(e) PROVE RaceInv'
  BY <1>1, <1>6, HandlerMatchKeeps
<1>7. ASSUME NEW e \in Event, HandlerStep(e) PROVE RaceInv'
  \* The handler of an orderly run never gives up its event.
  <2>1. hnd[e].pc \notin {"release", "disable", "forget"}
    BY <1>1 DEF RaceInv, Handling
  <2>2. HandlerModify(e) \/ HandlerFlag(e)
    BY <1>7, <2>1 DEF HandlerStep, HandlerRelease, HandlerDisable, HandlerForget
  <2> QED BY <1>1, <2>2, HandlerModifyKeeps, HandlerFlagKeeps
<1> QED BY <1>2, <1>3, <1>4, <1>5, <1>6, <1>7 DEF Next

LEMMA TypesStep ==
    ASSUME RaceTypes, Next
    PROVE  RaceTypes'
BY SetTypes, ClearTypes, HandlerTypes DEF Next, CallStep

LEMMA InitHolds ==
    ASSUME Init
    PROVE  RaceTypes /\ OrderlyInv
<1>1. RaceTypes
  BY SlotRange DEF Init, RaceTypes, InSlot, Ctl, CtlPc, Hnd, HndPc, IdleCtl, IdleHnd
<1>2. RaceInv
  BY DEF Init, RaceInv, OneCall, BusyCtl, Handling, Accounted, Armed, InUse, OneSlotEach, Calling,
         NothingLeft, IdleCtl, IdleHnd
<1> QED BY <1>1, <1>2 DEF OrderlyInv

LEMMA InvHolds == Spec => [](RaceTypes /\ OrderlyInv)
<1>1. ASSUME RaceTypes, OrderlyInv, UNCHANGED vars PROVE RaceTypes' /\ OrderlyInv'
  BY <1>1
     DEF vars, state, slots, RaceTypes, InSlot, OrderlyInv, Orderly, RaceInv, OneCall, BusyCtl,
         Handling, Accounted, Bringing, Armed, Forgetting, InUse, OneSlotEach, Calling, NothingLeft
<1> QED BY <1>1, InitHolds, TypesStep, OrderlyStep, PTL DEF Spec

\* What the run checks, from the invariant: when nothing is under way no slot is
\* half set or half cleared.
LEMMA InvImplies ==
    ASSUME RaceTypes, OrderlyInv
    PROVE  EventsAreAccountedFor
<1> SUFFICES ASSUME Orderly, RaceInv PROVE EventsAreAccountedFor
  BY DEF OrderlyInv, EventsAreAccountedFor, EventsUsedWhileRegistered, QuietSlotsOwnEvents,
         ClearAllRemovesAll
<1>1. EventsUsedWhileRegistered
  BY DEF EventsUsedWhileRegistered, RaceInv
<1>2. ASSUME Quiet PROVE \A i \in Slot : enabled[i] <=> bp_events[i] # NULL
  BY <1>2 DEF Quiet, BusyCtl, RaceInv, Armed, InUse
<1>3. ASSUME Quiet PROVE \A e \in Event : hw[e] # "free" => \E i \in Slot : bp_events[i] = e
  BY <1>3 DEF Quiet, BusyCtl, RaceInv, Accounted, Bringing
<1>4. ASSUME Quiet, NEW i \in Slot, enabled[i]
      PROVE  hw[bp_events[i]] = IF at_next[i] THEN "next" ELSE "original"
  <2>1. bp_events[i] \in Event
    BY <1>2, <1>4 DEF RaceTypes
  <2>2. hw[bp_events[i]] # "free" /\ (hw[bp_events[i]] = "next" <=> at_next[i])
    BY <1>2, <1>4, <2>1 DEF Quiet, BusyCtl, RaceInv, Armed, Forgetting
  <2>3. hw[bp_events[i]] \in {"free", "original", "next"}
    BY <2>1 DEF RaceTypes
  <2> QED BY <2>2, <2>3
<1>5. QuietSlotsOwnEvents
  BY <1>2, <1>3, <1>4 DEF QuietSlotsOwnEvents
<1>6. ClearAllRemovesAll
  <2> SUFFICES ASSUME cleared, Quiet, NEW e \in Event, hw[e] # "free" PROVE FALSE
    BY DEF ClearAllRemovesAll
  <2>1. PICK i \in Slot : bp_events[i] = e
    BY <1>3
  <2>2. enabled[i]
    BY <2>1, RaceAssumption DEF RaceInv, Armed
  <2> QED BY <2>2 DEF RaceInv, NothingLeft
<1> QED BY <1>1, <1>5, <1>6 DEF EventsAreAccountedFor

\* Control calls and handlers of hw_breakpoint.c interleave at each of their stores
\* and kernel calls: while calls come one after another and the kernel refuses no
\* move, no released event is used, between calls slots and events belong together,
\* and bp_clear_all leaves none; for any number of slots, events, threads and calls.
THEOREM Accounting == Spec => []EventsAreAccountedFor
BY InvHolds, InvImplies, PTL

=============================================================================
