------------------------- MODULE HwBreakpointProofs -------------------------
(***************************************************************************)
(* Proofs about HwBreakpoint for every number of slots, events and         *)
(* threads, every program and every set of resolved kernel symbols.        *)
(***************************************************************************)
EXTENDS HwBreakpoint, TLAPS

\* Two facts about the constants that every step needs.
LEMMA ConstantFacts ==
    /\ Slot \subseteq Nat /\ 0 \in Slot
    /\ NULL \notin PerfAttr /\ NULL \notin Event /\ NULL \notin Thread
    /\ Gone \notin Thread /\ Gone # NULL
    /\ MaxCalls \in Nat /\ MaxInstr \in Nat /\ Code \subseteq Nat
  BY BoundAssumption, NullAssumption, ProgramAssumption DEF Slot, PerfAttr

\* What the handler reads as regs->pc, and the address it moves to.
LEMMA PcFact == ASSUME TypeOK, NEW t \in Thread PROVE pc[t] \in Nat /\ pc[t] + 1 \in Nat
<1>1. pc[t] \in Code
  BY DEF TypeOK
<1>2. pc[t] \in Nat
  BY <1>1, ConstantFacts, Zenon
<1> QED BY <1>2

\* A type that passes the checks of hw_breakpoint_set_for_pid converts to a
\* set of perf access kinds.
LEMMA PerfTypeFact == \A type \in BpType : PerfType(type) \subseteq {"X", "R", "W"}
  BY DEF BpType, PerfType

\* What a request has passed when SetCheck returns 0.
LEMMA SetCheckFact ==
    ASSUME NEW addr \in Nat, NEW type, NEW pid, SetCheck(addr, type, pid) = 0
    PROVE  addr # 0 /\ type \in BpType /\ pid \in Thread \cup {NULL}
  BY DEF SetCheck, ENOSYS, EINVAL, ESRCH, ENOMEM

\* Type correctness of the parts the calls and the handler share.
LEMMA EmptiedType ==
    ASSUME TypeOK, NEW S, Emptied(S)
    PROVE  /\ perf' \in [Event -> PerfAttr \cup {NULL}]
           /\ bp_events' \in [Slot -> Event \cup {NULL}]
           /\ bp_tasks' \in [Slot -> Thread \cup {NULL}]
<1>1. perf' \in [Event -> PerfAttr \cup {NULL}]
  BY DEF TypeOK, Emptied
<1>2. bp_events' \in [Slot -> Event \cup {NULL}]
  BY DEF TypeOK, Emptied
<1>3. bp_tasks' \in [Slot -> Thread \cup {NULL}]
  BY DEF TypeOK, Emptied
<1> QED BY <1>1, <1>2, <1>3

LEMMA ZeroedType ==
    ASSUME TypeOK, NEW S, Zeroed(S)
    PROVE  breakpoints' \in [Slot -> [enabled : BOOLEAN, addr : Nat, type : BpType,
                                      hit_count : Nat]]
<1> DEFINE B == [enabled : BOOLEAN, addr : Nat, type : BpType, hit_count : Nat]
<1>1. ASSUME NEW i \in Slot
      PROVE [breakpoints[i] EXCEPT !.enabled = FALSE, !.addr = 0, !.hit_count = 0] \in B
  <2>1. breakpoints[i] \in B
    BY DEF TypeOK
  <2> QED BY <2>1
<1>2. \A i \in Slot : breakpoints[i] \in B
  BY DEF TypeOK
<1> HIDE DEF B
<1>3. breakpoints' \in [Slot -> B]
  BY <1>1, <1>2 DEF Zeroed
<1> QED BY <1>3 DEF B

LEMMA CountHitType ==
    ASSUME TypeOK, NEW i \in Slot, NEW on \in BOOLEAN, CountHit(i, on)
    PROVE  /\ breakpoints' \in [Slot -> [enabled : BOOLEAN, addr : Nat, type : BpType,
                                         hit_count : Nat]]
           /\ credit' \in [Slot -> Int]
<1>1. breakpoints[i] \in [enabled : BOOLEAN, addr : Nat, type : BpType, hit_count : Nat]
  BY DEF TypeOK
<1>2. breakpoints[i].hit_count + 1 \in Nat
  BY <1>1
<1>3. credit[i] + 1 \in Int
  BY DEF TypeOK
<1>4. credit' \in [Slot -> Int]
  BY <1>3 DEF TypeOK, CountHit
<1> QED BY <1>1, <1>2, <1>4 DEF TypeOK, CountHit

LEMMA ModifyType ==
    ASSUME TypeOK, NEW i \in Slot, NEW a \in Nat, bp_events[i] \in Event,
           perf[bp_events[i]] # NULL, Modify(i, a)
    PROVE  perf' \in [Event -> PerfAttr \cup {NULL}]
<1>1. perf[bp_events[i]] \in PerfAttr
  BY DEF TypeOK
<1>2. [perf[bp_events[i]] EXCEPT !.addr = a, !.type = {"X"}] \in PerfAttr
  BY <1>1 DEF PerfAttr
<1> QED BY <1>2 DEF TypeOK, Modify

\* Type correctness of the calls and of the handler.
LEMMA TypeCorrect == Spec => []TypeOK
<1> USE ConstantFacts DEF TypeOK
<1>1. Init => TypeOK
  BY BoundAssumption DEF Init, BpType
<1>2. TypeOK /\ [Next]_vars => TypeOK'
  <2> SUFFICES ASSUME TypeOK, [Next]_vars PROVE TypeOK'
    OBVIOUS
  <2>1. ASSUME NEW r \in Request, SetRejected(r[1], r[2], r[3]) PROVE TypeOK'
    <3>1. SetCheck(r[1], r[2], r[3]) \in {ENOSYS, EINVAL, ESRCH, ENOMEM, 0}
      BY DEF SetCheck
    <3> QED BY <2>1, <3>1 DEF SetRejected, Call, slotVars
  <2>2. ASSUME NEW r \in Request, SetRefused(r[1], r[2], r[3]) PROVE TypeOK'
    BY <2>2 DEF SetRefused, Call, slotVars
  <2>3. ASSUME NEW r \in Request, NEW i \in Slot, NEW e \in Event,
               SetRegistered(r[1], r[2], r[3], i, e)
        PROVE TypeOK'
    <3>1. r[1] \in Nat /\ r[2] \in BpType /\ r[3] \in Thread \cup {NULL}
      BY <2>3, RequestAssumption, SetCheckFact DEF SetRegistered
    <3>2. PerfType(r[2]) \subseteq {"X", "R", "W"}
      BY <3>1, PerfTypeFact
    <3>3. [addr |-> r[1], type |-> PerfType(r[2]), task |-> r[3]] \in PerfAttr
      BY <3>1, <3>2 DEF PerfAttr
    <3>4. [enabled |-> TRUE, addr |-> r[1], type |-> r[2], hit_count |-> 0]
             \in [enabled : BOOLEAN, addr : Nat, type : BpType, hit_count : Nat]
      BY <3>1
    <3> QED BY <2>3, <3>1, <3>3, <3>4 DEF SetRegistered, Call
  <2>4. ASSUME NEW idx \in 0 .. MAX_HW_BREAKPOINTS, hw_breakpoint_clear(idx) PROVE TypeOK'
    <3>1. ret' \in {0, EINVAL, ENOENT} /\ calls' \in 0 .. MaxCalls
      BY <2>4 DEF hw_breakpoint_clear, Call
    <3>2. CASE Emptied({idx}) /\ Zeroed({idx})
      BY <2>4, <3>1, <3>2, EmptiedType, ZeroedType DEF hw_breakpoint_clear, Call
    <3>3. CASE UNCHANGED <<breakpoints, bp_events, bp_tasks, perf>>
      BY <2>4, <3>1, <3>3 DEF hw_breakpoint_clear, Call
    <3> QED BY <2>4, <3>2, <3>3 DEF hw_breakpoint_clear
  <2>5. ASSUME hw_breakpoint_clear_all PROVE TypeOK'
    BY <2>5, EmptiedType, ZeroedType DEF hw_breakpoint_clear_all, Call
  <2>6. ASSUME NEW t \in Thread, Execute(t) PROVE TypeOK'
    <3>1. pc' \in [Thread -> Code]
      BY <2>6, ProgramAssumption DEF Execute
    <3>2. fuel' \in [Thread -> 0 .. MaxInstr]
      BY <2>6 DEF Execute
    <3>3. credit' \in [Slot -> Int]
      BY <2>6 DEF Execute
    <3> QED BY <2>6, <3>1, <3>2, <3>3 DEF Execute, slotVars
  <2>7. ASSUME NEW t \in Thread, Trap(t) PROVE TypeOK'
    <3> PICK i \in Slot, e \in Event :
          /\ HandlerFrame /\ Handles(e, i) /\ e \in Trapping(t)
          /\ \/ MoveToNext(i, pc[t]) \/ MoveToNextFails(i, pc[t])
             \/ OneShot(i) \/ MoveBack(i) \/ MoveBackFails(i)
      BY <2>7 DEF Trap, hw_bp_handler, Trapping
    <3>1. pc[t] \in Nat /\ pc[t] + 1 \in Nat
      BY PcFact
    <3>2. bp_events[i] \in Event /\ perf[bp_events[i]] # NULL
      BY DEF Handles, Trapping
    <3>3. CASE MoveToNext(i, pc[t])
      BY <3>1, <3>2, <3>3, ModifyType, CountHitType DEF MoveToNext, HandlerFrame
    <3>4. CASE MoveToNextFails(i, pc[t])
      BY <3>1, <3>4, EmptiedType, CountHitType DEF MoveToNextFails, HandlerFrame
    <3>5. CASE OneShot(i)
      BY <3>5, EmptiedType, CountHitType DEF OneShot, HandlerFrame
    <3>6. CASE MoveBack(i)
      <4>1. perf' \in [Event -> PerfAttr \cup {NULL}]
        <5>1. bp_original_addr[i] \in Nat
          OBVIOUS
        <5> QED BY <3>2, <3>6, <5>1, ModifyType DEF MoveBack
      <4> QED BY <3>6, <4>1 DEF MoveBack, HandlerFrame
    <3>7. CASE MoveBackFails(i)
      BY <3>7 DEF MoveBackFails, slotVars, HandlerFrame
    <3> QED BY <3>3, <3>4, <3>5, <3>6, <3>7
  <2>8. CASE UNCHANGED vars
    BY <2>8 DEF vars, slotVars
  <2> QED BY <2>1, <2>2, <2>3, <2>4, <2>5, <2>6, <2>7, <2>8
          DEF Next, ControlStep, ThreadStep, hw_breakpoint_set_for_pid
<1> QED BY <1>1, <1>2, PTL DEF Spec

-----------------------------------------------------------------------------
(* Ownership of the kernel's events, and where the hardware watches *)

OwnInv == TypeOK /\ SlotsOwnEvents /\ FlagMatchesHardware

\* A step that ends the events of the enabled slots in S, and disables those
\* slots, keeps the slots and the kernel's events in one-to-one relation.
LEMMA EmptiedKeepsOwnership ==
    ASSUME TypeOK, SlotsOwnEvents, NEW S \in SUBSET Slot, Emptied(S),
           \A i \in Slot : breakpoints'[i].enabled <=> breakpoints[i].enabled /\ i \notin S
    PROVE  SlotsOwnEvents'
<1> USE ConstantFacts DEF TypeOK, Emptied, SlotsOwnEvents
<1>1. \A i \in Slot : bp_events'[i] = IF i \in S THEN NULL ELSE bp_events[i]
  OBVIOUS
<1>2. \A i \in Slot : breakpoints'[i].enabled <=> bp_events'[i] # NULL
  BY <1>1
<1>3. \A i, j \in Slot : bp_events'[i] = bp_events'[j] /\ bp_events'[i] # NULL => i = j
  BY <1>1
<1>4. \A e \in Event : perf'[e] # NULL <=> \E i \in Slot : bp_events'[i] = e
  <2> TAKE e \in Event
  <2>1. CASE \E i \in S : bp_events[i] = e
    BY <1>1, <2>1
  <2>2. CASE ~\E i \in S : bp_events[i] = e
    <3>1. perf'[e] = perf[e]
      BY <2>2
    <3>2. \A i \in Slot : bp_events'[i] = e <=> bp_events[i] = e
      BY <1>1, <2>2
    <3> QED BY <3>1, <3>2
  <2> QED BY <2>1, <2>2
<1> QED BY <1>2, <1>3, <1>4

\* ... and leaves every other slot's event where the slot says it is.
LEMMA EmptiedKeepsHardware ==
    ASSUME TypeOK, SlotsOwnEvents, FlagMatchesHardware, NEW S \in SUBSET Slot, Emptied(S),
           \A i \in Slot \ S : /\ breakpoints'[i].enabled <=> breakpoints[i].enabled
                             /\ breakpoints'[i].addr = breakpoints[i].addr
                             /\ bp_at_next_instruction'[i] = bp_at_next_instruction[i]
                             /\ bp_next_addr'[i] = bp_next_addr[i]
                             /\ bp_original_addr'[i] = bp_original_addr[i],
           \A i \in S : ~breakpoints'[i].enabled
    PROVE  FlagMatchesHardware'
<1> SUFFICES ASSUME NEW i \in Slot, breakpoints'[i].enabled
             PROVE  /\ perf'[bp_events'[i]].addr = IF bp_at_next_instruction'[i]
                          THEN bp_next_addr'[i] ELSE breakpoints'[i].addr
                    /\ perf'[bp_events'[i]].task = bp_tasks'[i]
                    /\ bp_original_addr'[i] = breakpoints'[i].addr
  BY DEF FlagMatchesHardware
<1>1. i \notin S /\ breakpoints[i].enabled
  OBVIOUS
<1>2. bp_events'[i] = bp_events[i] /\ bp_tasks'[i] = bp_tasks[i] /\ bp_events[i] \in Event
  BY <1>1 DEF Emptied, TypeOK, SlotsOwnEvents
<1>3. perf'[bp_events[i]] = perf[bp_events[i]]
  BY <1>1, <1>2, ConstantFacts DEF Emptied, SlotsOwnEvents
<1> QED BY <1>1, <1>2, <1>3 DEF FlagMatchesHardware

\* Moving the event of slot i keeps ownership: no event is made or ended.
LEMMA ModifyKeepsOwnership ==
    ASSUME TypeOK, SlotsOwnEvents, NEW i \in Slot, NEW a \in Nat,
           breakpoints[i].enabled, Modify(i, a),
           bp_events' = bp_events,
           \A j \in Slot : breakpoints'[j].enabled <=> breakpoints[j].enabled
    PROVE  /\ SlotsOwnEvents'
           /\ perf'[bp_events[i]].addr = a
           /\ perf'[bp_events[i]].task = perf[bp_events[i]].task
           /\ \A j \in Slot \ {i} : breakpoints[j].enabled
                                      => perf'[bp_events[j]] = perf[bp_events[j]]
<1> DEFINE e == bp_events[i]
<1>1. e \in Event /\ perf[e] # NULL
  BY DEF TypeOK, SlotsOwnEvents
<1>2. perf[e] \in PerfAttr
  BY <1>1 DEF TypeOK
<1>3. /\ perf' = [perf EXCEPT ![e] = [perf[e] EXCEPT !.addr = a, !.type = {"X"}]]
      /\ perf'[e] \in PerfAttr /\ perf'[e].addr = a /\ perf'[e].task = perf[e].task
  BY <1>1, <1>2 DEF TypeOK, Modify, PerfAttr
<1>4. perf'[e] # NULL
  BY <1>3, ConstantFacts
<1>5. \A d \in Event : d # e => perf'[d] = perf[d]
  BY <1>3 DEF TypeOK
<1>6. \A d \in Event : perf'[d] # NULL <=> perf[d] # NULL
  BY <1>1, <1>4, <1>5
<1>7. SlotsOwnEvents'
  BY <1>6 DEF SlotsOwnEvents
<1>8. ASSUME NEW j \in Slot \ {i}, breakpoints[j].enabled
      PROVE perf'[bp_events[j]] = perf[bp_events[j]]
  <2>1. bp_events[j] \in Event /\ bp_events[j] # e
    BY <1>1, <1>8, ConstantFacts DEF TypeOK, SlotsOwnEvents
  <2> QED BY <1>5, <2>1
<1> QED BY <1>3, <1>7, <1>8

\* The main step: every call and every run of the handler keeps OwnInv.
LEMMA OwnStep == OwnInv /\ TypeOK' /\ [Next]_vars => OwnInv'
<1> SUFFICES ASSUME TypeOK, SlotsOwnEvents, FlagMatchesHardware, TypeOK', [Next]_vars
             PROVE  SlotsOwnEvents' /\ FlagMatchesHardware'
  BY DEF OwnInv
<1> USE ConstantFacts
<1>1. ASSUME UNCHANGED <<slotVars, perf>>
      PROVE SlotsOwnEvents' /\ FlagMatchesHardware'
  BY <1>1 DEF slotVars, SlotsOwnEvents, FlagMatchesHardware
<1>2. ASSUME NEW r \in Request, NEW i \in Slot, NEW e \in Event,
             SetRegistered(r[1], r[2], r[3], i, e)
      PROVE  SlotsOwnEvents' /\ FlagMatchesHardware'
  <2> DEFINE attr == [addr |-> r[1], type |-> PerfType(r[2]), task |-> r[3]]
  <2>1. /\ ~breakpoints[i].enabled /\ bp_events[i] = NULL /\ perf[e] = NULL
        /\ breakpoints'[i].enabled /\ breakpoints'[i].addr = r[1]
        /\ bp_events'[i] = e /\ bp_tasks'[i] = r[3] /\ perf'[e] = attr
        /\ bp_at_next_instruction'[i] = FALSE /\ bp_original_addr'[i] = r[1]
    BY <1>2 DEF SetRegistered, FirstFreeSlot, TypeOK, SlotsOwnEvents
  <2>2. \A j \in Slot \ {i} :
          /\ breakpoints'[j] = breakpoints[j] /\ bp_events'[j] = bp_events[j]
          /\ bp_tasks'[j] = bp_tasks[j] /\ bp_next_addr'[j] = bp_next_addr[j]
          /\ bp_at_next_instruction'[j] = bp_at_next_instruction[j]
          /\ bp_original_addr'[j] = bp_original_addr[j]
    BY <1>2 DEF SetRegistered, TypeOK
  <2>3. \A d \in Event \ {e} : perf'[d] = perf[d]
    BY <1>2 DEF SetRegistered, TypeOK
  <2>4. perf'[e] # NULL
    BY <1>2, <2>1, RequestAssumption, SetCheckFact, PerfTypeFact DEF SetRegistered, PerfAttr
  <2>5. \A j \in Slot : bp_events[j] # e
    BY <2>1 DEF SlotsOwnEvents
  <2>6. SlotsOwnEvents'
    BY <2>1, <2>2, <2>3, <2>4, <2>5 DEF SlotsOwnEvents
  <2>7. FlagMatchesHardware'
    BY <2>1, <2>2, <2>3, <2>5 DEF FlagMatchesHardware, SlotsOwnEvents, TypeOK
  <2> QED BY <2>6, <2>7
<1>3. ASSUME NEW S \in SUBSET Slot, Emptied(S), Zeroed(S),
             UNCHANGED <<bp_at_next_instruction, bp_original_addr, bp_next_addr>>
      PROVE  SlotsOwnEvents' /\ FlagMatchesHardware'
  <2>1. \A i \in Slot : breakpoints'[i] =
          IF i \in S
          THEN [breakpoints[i] EXCEPT !.enabled = FALSE, !.addr = 0, !.hit_count = 0]
          ELSE breakpoints[i]
    BY <1>3 DEF Zeroed
  <2>2. \A i \in S : ~breakpoints'[i].enabled
    BY <2>1 DEF TypeOK
  <2>3. \A i \in Slot : breakpoints'[i].enabled <=> breakpoints[i].enabled /\ i \notin S
    BY <2>1, <2>2
  <2> QED BY <1>3, <2>1, <2>2, <2>3, EmptiedKeepsOwnership, EmptiedKeepsHardware
<1>4. ASSUME NEW idx \in 0 .. MAX_HW_BREAKPOINTS, hw_breakpoint_clear(idx)
      PROVE  SlotsOwnEvents' /\ FlagMatchesHardware'
  <2>1. CASE idx \in Slot /\ Emptied({idx}) /\ Zeroed({idx})
    BY <1>3, <1>4, <2>1 DEF hw_breakpoint_clear
  <2>2. CASE UNCHANGED <<breakpoints, bp_events, bp_tasks, perf>>
    BY <1>1, <1>4, <2>2 DEF hw_breakpoint_clear, slotVars
  <2> QED BY <1>4, <2>1, <2>2 DEF hw_breakpoint_clear
<1>5. ASSUME hw_breakpoint_clear_all
      PROVE  SlotsOwnEvents' /\ FlagMatchesHardware'
  BY <1>3, <1>5 DEF hw_breakpoint_clear_all
<1>6. ASSUME NEW t \in Thread, Trap(t)
      PROVE  SlotsOwnEvents' /\ FlagMatchesHardware'
  <2> PICK i \in Slot, e \in Event :
        /\ HandlerFrame /\ Handles(e, i)
        /\ \/ MoveToNext(i, pc[t]) \/ MoveToNextFails(i, pc[t])
           \/ OneShot(i) \/ MoveBack(i) \/ MoveBackFails(i)
    BY <1>6 DEF Trap, hw_bp_handler, Trapping
  <2>1. breakpoints[i].enabled /\ bp_events[i] \in Event
    BY DEF Handles
  <2>2. ASSUME NEW on \in BOOLEAN, CountHit(i, on)
        PROVE  /\ \A j \in Slot : breakpoints'[j].addr = breakpoints[j].addr
               /\ \A j \in Slot \ {i} : breakpoints'[j].enabled <=> breakpoints[j].enabled
               /\ breakpoints'[i].enabled = on
    BY <2>2 DEF CountHit, TypeOK
  <2>3. ASSUME CountHit(i, FALSE), Emptied({i}),
               UNCHANGED <<bp_at_next_instruction, bp_original_addr>>,
               \A j \in Slot \ {i} : bp_next_addr'[j] = bp_next_addr[j]
        PROVE  SlotsOwnEvents' /\ FlagMatchesHardware'
    BY <2>2, <2>3, EmptiedKeepsOwnership, EmptiedKeepsHardware
  <2>4. CASE MoveToNext(i, pc[t])
    <3>1. pc[t] + 1 \in Nat
      BY PcFact
    <3>2. \A j \in Slot : /\ breakpoints'[j].addr = breakpoints[j].addr
                          /\ breakpoints'[j].enabled <=> breakpoints[j].enabled
      BY <2>1, <2>2, <2>4 DEF MoveToNext
    <3>3. /\ SlotsOwnEvents'
          /\ perf'[bp_events[i]].addr = pc[t] + 1
          /\ perf'[bp_events[i]].task = perf[bp_events[i]].task
          /\ \A j \in Slot \ {i} : breakpoints[j].enabled
                                     => perf'[bp_events[j]] = perf[bp_events[j]]
      BY <2>1, <2>4, <3>1, <3>2, ModifyKeepsOwnership DEF MoveToNext
    <3>4. /\ bp_next_addr'[i] = pc[t] + 1 /\ bp_at_next_instruction'[i]
          /\ \A j \in Slot \ {i} : /\ bp_next_addr'[j] = bp_next_addr[j]
                                   /\ bp_at_next_instruction'[j] = bp_at_next_instruction[j]
      BY <2>4 DEF MoveToNext, TypeOK
    <3>5. UNCHANGED <<bp_events, bp_tasks, bp_original_addr>>
      BY <2>4 DEF MoveToNext, HandlerFrame
    <3>6. SUFFICES ASSUME NEW j \in Slot, breakpoints'[j].enabled
                   PROVE  /\ perf'[bp_events'[j]].addr =
                                IF bp_at_next_instruction'[j] THEN bp_next_addr'[j]
                                                              ELSE breakpoints'[j].addr
                          /\ perf'[bp_events'[j]].task = bp_tasks'[j]
                          /\ bp_original_addr'[j] = breakpoints'[j].addr
      BY <3>3 DEF FlagMatchesHardware
    <3>7. breakpoints[j].enabled
      BY <3>2, <3>6
    <3>8. CASE j = i
      BY <2>1, <3>2, <3>3, <3>4, <3>5, <3>8 DEF FlagMatchesHardware
    <3>9. CASE j # i
      <4>1. perf'[bp_events'[j]] = perf[bp_events[j]]
        BY <3>3, <3>5, <3>7, <3>9
      <4>2. /\ bp_next_addr'[j] = bp_next_addr[j]
            /\ bp_at_next_instruction'[j] = bp_at_next_instruction[j]
        BY <3>4, <3>9
      <4> QED BY <3>2, <3>5, <3>7, <4>1, <4>2 DEF FlagMatchesHardware
    <3> QED BY <3>8, <3>9
  <2>5. CASE MoveToNextFails(i, pc[t])
    <3>1. \A j \in Slot \ {i} : bp_next_addr'[j] = bp_next_addr[j]
      BY <2>5 DEF MoveToNextFails, TypeOK
    <3> QED BY <2>3, <2>5, <3>1 DEF MoveToNextFails, HandlerFrame
  <2>6. CASE OneShot(i)
    BY <2>3, <2>6 DEF OneShot, HandlerFrame
  <2>7. CASE MoveBack(i)
    <3>1. bp_original_addr[i] \in Nat
      BY DEF TypeOK
    <3>2. /\ SlotsOwnEvents'
          /\ perf'[bp_events[i]].addr = bp_original_addr[i]
          /\ perf'[bp_events[i]].task = perf[bp_events[i]].task
          /\ \A j \in Slot \ {i} : breakpoints[j].enabled
                                     => perf'[bp_events[j]] = perf[bp_events[j]]
      BY <2>1, <2>7, <3>1, ModifyKeepsOwnership DEF MoveBack
    <3>3. /\ ~bp_at_next_instruction'[i]
          /\ \A j \in Slot \ {i} : bp_at_next_instruction'[j] = bp_at_next_instruction[j]
      BY <2>7 DEF MoveBack, TypeOK
    <3>4. UNCHANGED <<breakpoints, bp_events, bp_tasks, bp_original_addr, bp_next_addr>>
      BY <2>7 DEF MoveBack, HandlerFrame
    <3> QED BY <2>1, <3>2, <3>3, <3>4 DEF FlagMatchesHardware
  <2>8. CASE MoveBackFails(i)
    BY <1>1, <2>8 DEF MoveBackFails
  <2> QED BY <2>4, <2>5, <2>6, <2>7, <2>8
<1>7. ASSUME NEW t \in Thread, Execute(t)
      PROVE  SlotsOwnEvents' /\ FlagMatchesHardware'
  BY <1>1, <1>7 DEF Execute
<1>8. ASSUME NEW r \in Request, SetRejected(r[1], r[2], r[3]) \/ SetRefused(r[1], r[2], r[3])
      PROVE  SlotsOwnEvents' /\ FlagMatchesHardware'
  BY <1>1, <1>8 DEF SetRejected, SetRefused
<1>9. CASE UNCHANGED vars
  BY <1>1, <1>9 DEF vars
<1> QED BY <1>2, <1>4, <1>5, <1>6, <1>7, <1>8, <1>9
        DEF Next, ControlStep, ThreadStep, hw_breakpoint_set_for_pid

\* Whatever the order of calls and hits: an enabled slot owns exactly one
\* kernel event, no event is leaked or shared, and the event watches the
\* address the slot's flag says.
THEOREM Ownership == Spec => []SlotsOwnEvents /\ []FlagMatchesHardware
<1>1. Init /\ TypeOK => OwnInv
  BY ConstantFacts DEF Init, OwnInv, SlotsOwnEvents, FlagMatchesHardware
<1>2. OwnInv => SlotsOwnEvents /\ FlagMatchesHardware
  BY DEF OwnInv
<1> QED BY <1>1, <1>2, TypeCorrect, OwnStep, PTL DEF Spec
\* The second part by itself: the move to the next instruction and back never
\* leaves an event where its slot does not say it is.
THEOREM EventIsWhereFlagSays == Spec => []FlagMatchesHardware
BY Ownership, PTL

-----------------------------------------------------------------------------
(* Each run of the watched instruction is counted once *)

Watches(i, t) == bp_tasks[i] \in {NULL, t}

\* What the two-hit protocol keeps for a slot: away from its address it has one
\* run to account for, counted and not yet executed, or executed as well.
Protocol(i) ==
    /\ perf[bp_events[i]].type = {"X"}
    /\ ~bp_at_next_instruction[i] => credit[i] = 0
    /\ bp_at_next_instruction[i] =>
          /\ credit[i] \in {0, 1}
          /\ bp_next_addr[i] = breakpoints[i].addr + 1
          /\ \A t \in Thread : Watches(i, t) =>
                \/ pc[t] = breakpoints[i].addr /\ credit[i] = 1
                \/ pc[t] = breakpoints[i].addr + 1 /\ credit[i] = 0

OneShotUncounted(i) ==
    "modify_user" \notin Api /\ breakpoints[i].enabled => breakpoints[i].hit_count = 0

SlotCounts(i) == (FallsThrough(i) => Protocol(i)) /\ OneShotUncounted(i)

CountInv == \A i \in Slot : SlotCounts(i)

\* A step that leaves slot i as it is, or disabled, keeps its part of CountInv.
Undisturbed(i) ==
    /\ UNCHANGED <<Api, pc>>
    /\ breakpoints'[i].enabled =>
          /\ breakpoints'[i] = breakpoints[i]
          /\ bp_events'[i] = bp_events[i] /\ bp_tasks'[i] = bp_tasks[i]
          /\ bp_at_next_instruction'[i] = bp_at_next_instruction[i]
          /\ bp_next_addr'[i] = bp_next_addr[i]
          /\ perf'[bp_events[i]] = perf[bp_events[i]]
          /\ credit'[i] = credit[i]

LEMMA UndisturbedCounts ==
    ASSUME NEW i \in Slot, SlotCounts(i), Undisturbed(i)
    PROVE  SlotCounts(i)'
<1>1. CASE ~breakpoints'[i].enabled
  BY <1>1 DEF SlotCounts, FallsThrough, OneShotUncounted
<1>2. CASE breakpoints'[i].enabled
  <2>1. FallsThrough(i)' => FallsThrough(i)
    BY <1>2 DEF Undisturbed, FallsThrough
  <2>2. Protocol(i) => Protocol(i)'
    BY <1>2 DEF Undisturbed, Protocol, Watches
  <2>3. OneShotUncounted(i)'
    BY <1>2 DEF Undisturbed, SlotCounts, OneShotUncounted
  <2> QED BY <2>1, <2>2, <2>3 DEF SlotCounts
<1> QED BY <1>1, <1>2

\* Ending the events of S disturbs no slot that stays enabled.
LEMMA EmptiedDisturbsNone ==
    ASSUME TypeOK, SlotsOwnEvents, NEW S \in SUBSET Slot, Emptied(S),
           NEW i \in Slot \ S, breakpoints[i].enabled
    PROVE  /\ perf'[bp_events[i]] = perf[bp_events[i]]
           /\ bp_events'[i] = bp_events[i] /\ bp_tasks'[i] = bp_tasks[i]
<1>1. bp_events[i] \in Event /\ bp_events[i] # NULL
  BY DEF TypeOK, SlotsOwnEvents
<1>2. \A j \in S : bp_events[j] # bp_events[i]
  BY <1>1 DEF SlotsOwnEvents
<1> QED BY <1>1, <1>2 DEF Emptied

\* The one thread that can run a watched instruction.
LEMMA OneWatcher ==
    ASSUME NEW i \in Slot, FallsThrough(i), NEW t \in Thread, NEW u \in Thread,
           Watches(i, t), Watches(i, u)
    PROVE  t = u
BY NullAssumption DEF FallsThrough, Watches

\* An execution event traps at its address and nowhere else.
LEMMA ExecMatches ==
    ASSUME NEW a \in Nat, NEW p \in Code
    PROVE  Matches({"X"}, a, p) <=> p = a
<1>1. Access[p] \subseteq {"R", "W"} \X Data
  BY ProgramAssumption
<1>2. <<"X", a>> \notin Access[p]
  BY <1>1
<1> QED BY <1>2 DEF Matches, Touches

LEMMA TrapsWhere ==
    ASSUME TypeOK, SlotsOwnEvents, FlagMatchesHardware,
           NEW i \in Slot, FallsThrough(i), Protocol(i), NEW t \in Thread
    PROVE  bp_events[i] \in Trapping(t) <=>
              /\ Watches(i, t)
              /\ pc[t] = IF bp_at_next_instruction[i] THEN bp_next_addr[i]
                                                      ELSE breakpoints[i].addr
<1> DEFINE e == bp_events[i]
           a == IF bp_at_next_instruction[i] THEN bp_next_addr[i] ELSE breakpoints[i].addr
<1>1. e \in Event /\ perf[e] # NULL /\ perf[e].type = {"X"}
  BY DEF TypeOK, SlotsOwnEvents, FallsThrough, Protocol
<1>2. perf[e].addr = a /\ perf[e].task = bp_tasks[i]
  BY DEF FlagMatchesHardware, FallsThrough
<1>3. a \in Nat /\ pc[t] \in Code
  BY DEF TypeOK
<1>4. Matches(perf[e].type, perf[e].addr, pc[t]) <=> pc[t] = a
  BY <1>1, <1>2, <1>3, ExecMatches
<1>5. bp_tasks[i] \in {NULL, t} <=> Watches(i, t)
  BY DEF Watches
<1> QED BY <1>1, <1>2, <1>4, <1>5 DEF Trapping

\* An instruction executes.
LEMMA ExecuteCounts ==
    ASSUME TypeOK, SlotsOwnEvents, FlagMatchesHardware,
           NEW i \in Slot, SlotCounts(i), NEW t \in Thread, Execute(t)
    PROVE  SlotCounts(i)'
<1>1. /\ UNCHANGED <<Api, slotVars, perf>>
      /\ credit'[i] = IF i \in Watching(t) THEN credit[i] - 1 ELSE credit[i]
      /\ \A u \in Thread : u # t => pc'[u] = pc[u]
      /\ pc'[t] \in Succ[pc[t]]
      /\ Trapping(t) = {}
  BY DEF Execute, TypeOK
<1>2. OneShotUncounted(i)'
  BY <1>1 DEF slotVars, SlotCounts, OneShotUncounted
<1>3. SUFFICES ASSUME FallsThrough(i) PROVE Protocol(i)'
  BY <1>1, <1>2 DEF slotVars, FallsThrough, SlotCounts
<1>4. Protocol(i)
  BY <1>3 DEF SlotCounts
<1>5. breakpoints[i].addr \in Nat /\ pc[t] \in Code /\ breakpoints[i].enabled
  BY <1>3 DEF TypeOK, FallsThrough
<1>6. PerfType(breakpoints[i].type) = {"X"}
  BY <1>3 DEF FallsThrough, PerfType
<1>7. i \in Watching(t) <=> Watches(i, t) /\ pc[t] = breakpoints[i].addr
  BY <1>5, <1>6, ExecMatches DEF Watching, Watches
<1>8. ~(Watches(i, t) /\ pc[t] = IF bp_at_next_instruction[i] THEN bp_next_addr[i]
                                                              ELSE breakpoints[i].addr)
  BY <1>1, <1>3, <1>4, TrapsWhere
<1>9. CASE ~bp_at_next_instruction[i]
  BY <1>1, <1>4, <1>7, <1>8, <1>9 DEF slotVars, Protocol
<1>10. CASE bp_at_next_instruction[i] /\ ~Watches(i, t)
  <2>1. credit'[i] = credit[i] /\ \A u \in Thread : Watches(i, u) => pc'[u] = pc[u]
    BY <1>1, <1>7, <1>10
  <2> QED BY <1>1, <1>4, <2>1 DEF slotVars, Protocol, Watches
<1>11. CASE bp_at_next_instruction[i] /\ Watches(i, t)
  <2>1. pc[t] = breakpoints[i].addr /\ credit[i] = 1
    BY <1>4, <1>8, <1>11 DEF Protocol
  <2>2. credit'[i] = 0 /\ pc'[t] = breakpoints[i].addr + 1
    BY <1>1, <1>3, <1>7, <1>11, <2>1 DEF FallsThrough
  <2>3. \A u \in Thread : Watches(i, u) => u = t
    BY <1>3, <1>11, OneWatcher
  <2> QED BY <1>1, <1>4, <2>2, <2>3 DEF slotVars, Protocol, Watches
<1> QED BY <1>9, <1>10, <1>11

\* The handler's run for slot i, in each of its five forms.
LEMMA HandlerCounts ==
    ASSUME TypeOK, SlotsOwnEvents, FlagMatchesHardware, CountInv,
           NEW t \in Thread, NEW e \in Trapping(t), hw_bp_handler(t, e)
    PROVE  CountInv'
<1> USE ConstantFacts
<1> PICK i \in Slot :
      /\ Handles(e, i)
      /\ \/ MoveToNext(i, pc[t]) \/ MoveToNextFails(i, pc[t])
         \/ OneShot(i) \/ MoveBack(i) \/ MoveBackFails(i)
  BY DEF hw_bp_handler
<1>1. bp_events[i] = e /\ breakpoints[i].enabled /\ UNCHANGED <<Api, pc, bp_original_addr>>
  BY DEF Handles, hw_bp_handler, HandlerFrame
<1>2. e \in Event /\ pc[t] \in Nat /\ pc[t] + 1 \in Nat /\ bp_original_addr[i] \in Nat
  BY PcFact DEF Trapping, TypeOK
<1>3. ASSUME \A j \in Slot \ {i} : Undisturbed(j), SlotCounts(i)'
      PROVE  CountInv'
  BY <1>3, UndisturbedCounts DEF CountInv
<1>4. ASSUME CountHit(i, FALSE), Emptied({i}),
             UNCHANGED bp_at_next_instruction,
             \A j \in Slot \ {i} : bp_next_addr'[j] = bp_next_addr[j]
      PROVE  CountInv'
  <2>1. /\ ~breakpoints'[i].enabled
        /\ \A j \in Slot \ {i} : breakpoints'[j] = breakpoints[j] /\ credit'[j] = credit[j]
    BY <1>4 DEF CountHit, TypeOK
  <2>2. \A j \in Slot \ {i} : breakpoints'[j].enabled =>
           /\ perf'[bp_events[j]] = perf[bp_events[j]]
           /\ bp_events'[j] = bp_events[j] /\ bp_tasks'[j] = bp_tasks[j]
    BY <1>4, <2>1, EmptiedDisturbsNone
  <2>3. \A j \in Slot \ {i} : Undisturbed(j)
    BY <1>1, <1>4, <2>1, <2>2 DEF Undisturbed
  <2>4. SlotCounts(i)'
    BY <2>1 DEF SlotCounts, FallsThrough, OneShotUncounted
  <2> QED BY <1>3, <2>3, <2>4
<1>5. ASSUME NEW a \in Nat, Modify(i, a), UNCHANGED <<bp_events, bp_tasks>>,
             \A j \in Slot : breakpoints'[j].enabled <=> breakpoints[j].enabled,
             \A j \in Slot \ {i} :
                /\ breakpoints'[j] = breakpoints[j] /\ credit'[j] = credit[j]
                /\ bp_at_next_instruction'[j] = bp_at_next_instruction[j]
                /\ bp_next_addr'[j] = bp_next_addr[j]
      PROVE  /\ \A j \in Slot \ {i} : Undisturbed(j)
             /\ perf'[bp_events'[i]].type = {"X"}
  <2>1. \A j \in Slot \ {i} : breakpoints[j].enabled => perf'[bp_events[j]] = perf[bp_events[j]]
    BY <1>1, <1>5, ModifyKeepsOwnership
  <2>2. \A j \in Slot \ {i} : Undisturbed(j)
    BY <1>1, <1>5, <2>1 DEF Undisturbed
  <2>3. perf[e] \in PerfAttr
    BY DEF Trapping, TypeOK
  <2>4. perf'[e].type = {"X"}
    BY <1>1, <1>2, <1>5, <2>3 DEF Modify, TypeOK, PerfAttr
  <2> QED BY <1>1, <1>5, <2>2, <2>4
<1>6. CASE MoveToNext(i, pc[t])
  <2>1. /\ \A j \in Slot : breakpoints'[j].enabled <=> breakpoints[j].enabled
        /\ \A j \in Slot \ {i} :
                /\ breakpoints'[j] = breakpoints[j] /\ credit'[j] = credit[j]
                /\ bp_at_next_instruction'[j] = bp_at_next_instruction[j]
                /\ bp_next_addr'[j] = bp_next_addr[j]
        /\ breakpoints'[i].addr = breakpoints[i].addr
        /\ breakpoints'[i].type = breakpoints[i].type
        /\ credit'[i] = credit[i] + 1
        /\ bp_at_next_instruction'[i] /\ bp_next_addr'[i] = pc[t] + 1
    BY <1>1, <1>6 DEF MoveToNext, CountHit, TypeOK
  <2>2. UNCHANGED <<bp_events, bp_tasks>> /\ Modify(i, pc[t] + 1)
        /\ "modify_user" \in Api /\ ~bp_at_next_instruction[i]
    BY <1>6 DEF MoveToNext
  <2>3. (\A j \in Slot \ {i} : Undisturbed(j)) /\ perf'[bp_events'[i]].type = {"X"}
    BY <1>2, <1>5, <2>1, <2>2
  <2>4. OneShotUncounted(i)'
    BY <1>1, <2>2 DEF OneShotUncounted
  <2>5. ASSUME FallsThrough(i)' PROVE Protocol(i)'
    <3>1. FallsThrough(i)
      BY <1>1, <2>1, <2>2, <2>5 DEF FallsThrough
    <3>2. Protocol(i)
      BY <3>1 DEF CountInv, SlotCounts
    <3>3. Watches(i, t) /\ pc[t] = breakpoints[i].addr
      BY <1>1, <2>2, <3>1, <3>2, TrapsWhere
    <3>4. credit'[i] = 1
      BY <2>1, <2>2, <3>2 DEF Protocol
    <3>5. \A u \in Thread : Watches(i, u)' => pc'[u] = breakpoints'[i].addr
      BY <1>1, <2>1, <2>2, <3>1, <3>3, OneWatcher DEF Watches
    <3> QED BY <2>1, <2>3, <3>3, <3>4, <3>5 DEF Protocol
  <2> QED BY <1>3, <2>3, <2>4, <2>5 DEF SlotCounts
<1>7. CASE MoveToNextFails(i, pc[t])
  <2>1. \A j \in Slot \ {i} : bp_next_addr'[j] = bp_next_addr[j]
    BY <1>7 DEF MoveToNextFails, TypeOK
  <2> QED BY <1>4, <1>7, <2>1 DEF MoveToNextFails
<1>8. CASE OneShot(i)
  BY <1>4, <1>8 DEF OneShot
<1>9. CASE MoveBack(i)
  <2>1. /\ UNCHANGED <<breakpoints, bp_events, bp_tasks, bp_next_addr, credit>>
        /\ Modify(i, bp_original_addr[i])
        /\ ~bp_at_next_instruction'[i] /\ bp_at_next_instruction[i]
        /\ "modify_user" \in Api
        /\ \A j \in Slot \ {i} : bp_at_next_instruction'[j] = bp_at_next_instruction[j]
    BY <1>9 DEF MoveBack, TypeOK
  <2>2. (\A j \in Slot \ {i} : Undisturbed(j)) /\ perf'[bp_events'[i]].type = {"X"}
    BY <1>2, <1>5, <2>1
  <2>3. OneShotUncounted(i)'
    BY <1>1, <2>1 DEF OneShotUncounted
  <2>4. ASSUME FallsThrough(i)' PROVE Protocol(i)'
    <3>1. FallsThrough(i)
      BY <2>1, <2>4 DEF FallsThrough
    <3>2. Protocol(i)
      BY <3>1 DEF CountInv, SlotCounts
    <3>3. Watches(i, t) /\ pc[t] = bp_next_addr[i]
      BY <1>1, <2>1, <3>1, <3>2, TrapsWhere
    <3>4. breakpoints[i].addr \in Nat
      BY DEF TypeOK
    <3>5. credit[i] = 0
      BY <2>1, <3>2, <3>3, <3>4 DEF Protocol
    <3> QED BY <2>1, <2>2, <3>5 DEF Protocol
  <2> QED BY <1>3, <2>2, <2>3, <2>4 DEF SlotCounts
<1>10. CASE MoveBackFails(i)
  <2>1. \A j \in Slot : Undisturbed(j)
    BY <1>1, <1>10 DEF MoveBackFails, slotVars, Undisturbed
  <2> QED BY <2>1, UndisturbedCounts DEF CountInv
<1> QED BY <1>6, <1>7, <1>8, <1>9, <1>10

\* A control call sets a slot, disables some, or leaves all as they are.
LEMMA CountStep ==
    ASSUME TypeOK, SlotsOwnEvents, FlagMatchesHardware, CountInv, [Next]_vars
    PROVE  CountInv'
<1> USE ConstantFacts
<1>1. ASSUME UNCHANGED <<Api, pc, slotVars, perf, credit>> PROVE CountInv'
  <2>1. \A i \in Slot : Undisturbed(i)
    BY <1>1 DEF Undisturbed, slotVars
  <2> QED BY <2>1, UndisturbedCounts DEF CountInv
<1>2. ASSUME NEW r \in Request, NEW i \in Slot, NEW e \in Event,
             SetRegistered(r[1], r[2], r[3], i, e)
      PROVE  CountInv'
  <2>1. /\ breakpoints'[i].enabled /\ breakpoints'[i].hit_count = 0
        /\ breakpoints'[i].type = r[2]
        /\ bp_events'[i] = e /\ perf'[e].type = PerfType(r[2])
        /\ ~bp_at_next_instruction'[i] /\ credit'[i] = 0 /\ perf[e] = NULL
        /\ UNCHANGED <<Api, pc>>
    BY <1>2 DEF SetRegistered, TypeOK, Call
  <2>2. FallsThrough(i)' => Protocol(i)'
    BY <2>1 DEF FallsThrough, Protocol, PerfType
  <2>3. SlotCounts(i)'
    BY <2>1, <2>2 DEF SlotCounts, OneShotUncounted
  <2>4. ASSUME NEW j \in Slot \ {i} PROVE Undisturbed(j)
    <3>1. /\ breakpoints'[j] = breakpoints[j] /\ bp_events'[j] = bp_events[j]
          /\ bp_tasks'[j] = bp_tasks[j] /\ bp_next_addr'[j] = bp_next_addr[j]
          /\ bp_at_next_instruction'[j] = bp_at_next_instruction[j]
          /\ credit'[j] = credit[j]
      BY <1>2 DEF SetRegistered, TypeOK
    <3>2. breakpoints[j].enabled => bp_events[j] # e /\ bp_events[j] \in Event
      <4>1. bp_events[j] # e
        BY <2>1 DEF SlotsOwnEvents
      <4>2. breakpoints[j].enabled => bp_events[j] \in Event
        BY DEF SlotsOwnEvents, TypeOK
      <4> QED BY <4>1, <4>2
    <3>3. \A d \in Event \ {e} : perf'[d] = perf[d]
      BY <1>2 DEF SetRegistered, TypeOK
    <3>4. breakpoints[j].enabled => perf'[bp_events[j]] = perf[bp_events[j]]
      BY <3>2, <3>3
    <3> QED BY <2>1, <3>1, <3>4 DEF Undisturbed
  <2> QED BY <2>3, <2>4, UndisturbedCounts DEF CountInv
<1>3. ASSUME NEW S \in SUBSET Slot, Emptied(S), Zeroed(S),
             UNCHANGED <<Api, pc, bp_at_next_instruction, bp_next_addr, credit>>
      PROVE  CountInv'
  <2>1. /\ \A i \in S : ~breakpoints'[i].enabled
        /\ \A i \in Slot \ S : breakpoints'[i] = breakpoints[i]
    BY <1>3 DEF Zeroed, TypeOK
  <2>2. \A i \in Slot \ S : breakpoints'[i].enabled =>
           /\ perf'[bp_events[i]] = perf[bp_events[i]]
           /\ bp_events'[i] = bp_events[i] /\ bp_tasks'[i] = bp_tasks[i]
    BY <1>3, <2>1, EmptiedDisturbsNone
  <2>3. \A i \in Slot : Undisturbed(i)
    BY <1>3, <2>1, <2>2 DEF Undisturbed
  <2> QED BY <2>3, UndisturbedCounts DEF CountInv
<1>4. ASSUME NEW idx \in 0 .. MAX_HW_BREAKPOINTS, hw_breakpoint_clear(idx)
      PROVE  CountInv'
  <2>1. CASE idx \in Slot /\ Emptied({idx}) /\ Zeroed({idx})
    BY <1>3, <1>4, <2>1 DEF hw_breakpoint_clear, Call
  <2>2. CASE UNCHANGED <<breakpoints, bp_events, bp_tasks, perf>>
    BY <1>1, <1>4, <2>2 DEF hw_breakpoint_clear, Call, slotVars
  <2> QED BY <1>4, <2>1, <2>2 DEF hw_breakpoint_clear
<1>5. ASSUME hw_breakpoint_clear_all PROVE CountInv'
  BY <1>3, <1>5 DEF hw_breakpoint_clear_all, Call
<1>6. ASSUME NEW t \in Thread, Trap(t) PROVE CountInv'
  BY <1>6, HandlerCounts DEF Trap
<1>7. ASSUME NEW t \in Thread, Execute(t) PROVE CountInv'
  BY <1>7, ExecuteCounts DEF CountInv
<1>8. ASSUME NEW r \in Request, SetRejected(r[1], r[2], r[3]) \/ SetRefused(r[1], r[2], r[3])
      PROVE  CountInv'
  BY <1>1, <1>8 DEF SetRejected, SetRefused, Call
<1>9. CASE UNCHANGED vars
  BY <1>1, <1>9 DEF vars
<1> QED BY <1>2, <1>4, <1>5, <1>6, <1>7, <1>8, <1>9
        DEF Next, ControlStep, ThreadStep, hw_breakpoint_set_for_pid

\* For every program, every number of slots, tasks and hits: an instruction
\* that falls through and one task runs is counted once for each of its runs,
\* and in one-shot mode a slot that is still enabled has counted none.
THEOREM Counting == Spec => []EachRunCountedOnce
<1>1. Init => CountInv
  BY ConstantFacts DEF Init, CountInv, SlotCounts, FallsThrough, OneShotUncounted
<1>2. CountInv => EachRunCountedOnce
  BY DEF CountInv, SlotCounts, Protocol, OneShotUncounted, EachRunCountedOnce
<1>3. OwnInv /\ CountInv /\ [Next]_vars => CountInv'
  BY CountStep DEF OwnInv
<1>4. Spec => []OwnInv
  <2>1. Init /\ TypeOK => OwnInv
    BY ConstantFacts DEF Init, OwnInv, SlotsOwnEvents, FlagMatchesHardware
  <2> QED BY <2>1, TypeCorrect, OwnStep, PTL DEF Spec
<1> QED BY <1>1, <1>2, <1>3, <1>4, PTL DEF Spec

=============================================================================
