----------------------------- MODULE HookChain ------------------------------
(***************************************************************************)
(* One chain of an inline-hooked function (kernel/base/hook.c): threads    *)
(* that add and remove callbacks while processes run through the transit   *)
(* stub, the code that every call of the hooked function calls.  The      *)
(* chain stays installed (remove = 0, or another callback is left);        *)
(* HookTable covers installing it and giving it back.                      *)
(*                                                                         *)
(* Every store of hook_chain_add and hook_chain_remove is a step, and in   *)
(* the transit every load of a slot.  The stub takes no lock and does not  *)
(* count itself in; fphook.c has the same stub and the same loops.         *)
(***************************************************************************)
EXTENDS Integers, FiniteSets

CONSTANTS
    CHAIN_SLOTS,     \* HOOK_CHAIN_NUM: slots of a chain (16; 32 for function pointers)
    Callback,        \* callbacks: a before, an after and a udata, by one thread each
    HasBefore,       \* items with a before function
    HasAfter,        \* items with an after function
    Process,         \* callers of the hooked function
    Serialized,      \* whether add and remove calls are kept from overlapping
    NONE,
    MaxEdits,        \* bound: calls of add and remove
    MaxEnters        \* bound: calls of the hooked function

Slot == 0 .. CHAIN_SLOTS - 1

ASSUME ChainAssumption ==
    /\ CHAIN_SLOTS \in Nat \ {0} /\ MaxEdits \in Nat /\ MaxEnters \in Nat
    /\ HasBefore \subseteq Callback /\ HasAfter \subseteq Callback
    /\ HasBefore \cup HasAfter = Callback
    /\ Serialized \in BOOLEAN
    /\ NONE \notin Callback

VARIABLES
    states, befores, afters, udata, chain_items_max,
    edit,    \* add and remove calls in progress, by item
    added,   \* items whose add returned HOOK_NO_ERR and whose remove has not begun
    transit, \* calls of the hooked function in progress
    edits, enters

chain == <<states, befores, afters, udata, chain_items_max>>
chainVars == <<chain, edit, added, transit, edits, enters>>

IdleOp == [pc |-> "idle", i |-> 0]
IdleTransit == [pc |-> "idle", i |-> 0, func |-> NONE,
                before |-> [x \in Callback |-> 0], after |-> [x \in Callback |-> 0],
                strange |-> {}, stable |-> {}, gone |-> {}]

ChainInit ==
    /\ states = [i \in Slot |-> "EMPTY"]
    /\ befores = [i \in Slot |-> NONE] /\ afters = [i \in Slot |-> NONE]
    /\ udata = [i \in Slot |-> NONE]
    /\ chain_items_max = 0
    /\ edit = [x \in Callback |-> IdleOp]
    /\ added = {}
    /\ transit = [p \in Process |-> IdleTransit]
    /\ edits = MaxEdits /\ enters = MaxEnters

BeforeOf(x) == IF x \in HasBefore THEN x ELSE NONE
AfterOf(x) == IF x \in HasAfter THEN x ELSE NONE

\* (before && befores[i] == before) || (after && afters[i] == after)
SameAt(x, i) ==
    \/ x \in HasBefore /\ befores[i] = x
    \/ x \in HasAfter /\ afters[i] = x

MayStart(x) ==
    /\ edit[x].pc = "idle" /\ edits > 0
    /\ Serialized => \A y \in Callback : edit[y].pc = "idle"
    /\ edits' = edits - 1

GoTo(x, pc) == edit' = [edit EXCEPT ![x].pc = pc]

-----------------------------------------------------------------------------
(* hook_chain_add *)

\* From here on a transit may call x.  A thread adds its item again only after it
\* removed it.
AddStart(x) ==
    /\ x \notin added
    /\ MayStart(x)
    /\ edit' = [edit EXCEPT ![x] = [pc |-> "add", i |-> 0]]
    /\ transit' = [p \in Process |-> [transit[p] EXCEPT !.gone = @ \ {x}]]
    /\ UNCHANGED <<chain, added, enters>>

\* A pass of the loop: HOOK_DUPLICATED, an empty slot, or the next slot;
\* after the last one HOOK_CHAIN_FULL.
AddScan(x) ==
    LET i == edit[x].i IN
    /\ edit[x].pc = "add"
    /\ \/ i \in Slot /\ ~SameAt(x, i) /\ states[i] = "EMPTY" /\ GoTo(x, "busy")
       \/ i \in Slot /\ ~SameAt(x, i) /\ states[i] # "EMPTY"
             /\ edit' = [edit EXCEPT ![x].i = i + 1]
       \/ (i \in Slot => SameAt(x, i)) /\ edit' = [edit EXCEPT ![x] = IdleOp]
    /\ UNCHANGED <<chain, added, transit, edits, enters>>

\* Mutant: the slot is READY before its fields are stored.
AddReadyFirst(x) ==
    /\ edit[x].pc = "busy"
    /\ states' = [states EXCEPT ![edit[x].i] = "READY"]
    /\ GoTo(x, "add_udata")
    /\ UNCHANGED <<befores, afters, udata, chain_items_max, added, transit, edits, enters>>

AddBusy(x) ==
    /\ edit[x].pc = "busy"
    /\ states' = [states EXCEPT ![edit[x].i] = "BUSY"]
    /\ GoTo(x, "add_udata")
    /\ UNCHANGED <<befores, afters, udata, chain_items_max, added, transit, edits, enters>>

AddFields(x) ==
    LET i == edit[x].i IN
    /\ \/ /\ edit[x].pc = "add_udata" /\ GoTo(x, "add_before")
          /\ udata' = [udata EXCEPT ![i] = x]
          /\ UNCHANGED <<befores, afters, chain_items_max>>
       \/ /\ edit[x].pc = "add_before" /\ GoTo(x, "add_after")
          /\ befores' = [befores EXCEPT ![i] = BeforeOf(x)]
          /\ UNCHANGED <<udata, afters, chain_items_max>>
       \/ /\ edit[x].pc = "add_after" /\ GoTo(x, "max")
          /\ afters' = [afters EXCEPT ![i] = AfterOf(x)]
          /\ UNCHANGED <<udata, befores, chain_items_max>>
       \/ /\ edit[x].pc = "max" /\ GoTo(x, "ready")
          /\ chain_items_max' = IF i + 1 > chain_items_max THEN i + 1 ELSE chain_items_max
          /\ UNCHANGED <<udata, befores, afters>>
    /\ UNCHANGED <<states, added, transit, edits, enters>>

AddReady(x) ==
    /\ edit[x].pc = "ready"
    /\ states' = [states EXCEPT ![edit[x].i] = "READY"]
    /\ edit' = [edit EXCEPT ![x] = IdleOp]
    /\ added' = added \cup {x}
    /\ UNCHANGED <<befores, afters, udata, chain_items_max, transit, edits, enters>>

-----------------------------------------------------------------------------
(* hook_chain_remove *)

\* From here on a transit need not call x any more.
RemoveStart(x) ==
    /\ x \in added
    /\ MayStart(x)
    /\ edit' = [edit EXCEPT ![x] = [pc |-> "remove", i |-> 0]]
    /\ added' = added \ {x}
    /\ transit' = [p \in Process |-> [transit[p] EXCEPT !.stable = @ \ {x}]]
    /\ UNCHANGED <<chain, enters>>

RemoveScan(x) ==
    LET i == edit[x].i IN
    /\ edit[x].pc = "remove"
    /\ \/ i \in Slot /\ states[i] = "READY" /\ SameAt(x, i) /\ GoTo(x, "rbusy")
       \/ i \in Slot /\ ~(states[i] = "READY" /\ SameAt(x, i))
             /\ edit' = [edit EXCEPT ![x].i = i + 1]
       \/ i \notin Slot /\ edit' = [edit EXCEPT ![x] = IdleOp]
    /\ UNCHANGED <<chain, added, transit, edits, enters>>

RemoveBusy(x) ==
    /\ edit[x].pc = "rbusy"
    /\ states' = [states EXCEPT ![edit[x].i] = "BUSY"]
    /\ GoTo(x, "rem_udata")
    /\ UNCHANGED <<befores, afters, udata, chain_items_max, added, transit, edits, enters>>

RemoveFields(x) ==
    LET i == edit[x].i IN
    /\ \/ /\ edit[x].pc = "rem_udata" /\ GoTo(x, "rem_before")
          /\ udata' = [udata EXCEPT ![i] = NONE]
          /\ UNCHANGED <<befores, afters>>
       \/ /\ edit[x].pc = "rem_before" /\ GoTo(x, "rem_after")
          /\ befores' = [befores EXCEPT ![i] = NONE]
          /\ UNCHANGED <<udata, afters>>
       \/ /\ edit[x].pc = "rem_after" /\ GoTo(x, "empty")
          /\ afters' = [afters EXCEPT ![i] = NONE]
          /\ UNCHANGED <<udata, befores>>
    /\ UNCHANGED <<states, chain_items_max, added, transit, edits, enters>>

RemoveEmpty(x) ==
    /\ edit[x].pc = "empty"
    /\ states' = [states EXCEPT ![edit[x].i] = "EMPTY"]
    /\ edit' = [edit EXCEPT ![x] = IdleOp]
    /\ UNCHANGED <<befores, afters, udata, chain_items_max, added, transit, edits, enters>>

-----------------------------------------------------------------------------
(* _transit0, _transit4, _transit8, _transit12 *)

TransitEnter(p) ==
    /\ transit[p].pc = "idle" /\ enters > 0
    /\ enters' = enters - 1
    /\ transit' = [transit EXCEPT ![p] =
           [IdleTransit EXCEPT !.pc = "before", !.stable = added,
               !.gone = {x \in Callback : x \notin added /\ edit[x].pc = "idle"}]]
    /\ UNCHANGED <<chain, edit, added, edits>>

\* The loops' tests: the bound, which only the first loop reads again in every
\* pass, then the state of the slot.
TransitTest(p) ==
    LET i == transit[p].i IN
    /\ \/ /\ transit[p].pc = "before" /\ i < chain_items_max
          /\ transit' = IF states[i] = "READY" THEN [transit EXCEPT ![p].pc = "before_func"]
                        ELSE [transit EXCEPT ![p].i = i + 1]
       \/ /\ transit[p].pc = "before" /\ i >= chain_items_max
          /\ transit' = [transit EXCEPT ![p].pc = "origin"]
       \/ /\ transit[p].pc = "after" /\ i >= 0
          /\ transit' = IF states[i] = "READY" THEN [transit EXCEPT ![p].pc = "after_func"]
                        ELSE [transit EXCEPT ![p].i = i - 1]
       \/ /\ transit[p].pc = "after" /\ i < 0
          /\ transit' = [transit EXCEPT ![p].pc = "done"]
    /\ UNCHANGED <<chain, edit, added, edits, enters>>

\* The function pointer is loaded; there may be none.
TransitLoad(p) ==
    LET i == transit[p].i
        f == IF transit[p].pc = "before_func" THEN befores[i] ELSE afters[i] IN
    /\ transit[p].pc \in {"before_func", "after_func"} /\ transit[p].func = NONE
    /\ transit' =
          IF f # NONE THEN [transit EXCEPT ![p].func = f]
          ELSE IF transit[p].pc = "before_func"
               THEN [transit EXCEPT ![p].pc = "before", ![p].i = i + 1]
               ELSE [transit EXCEPT ![p].pc = "after", ![p].i = i - 1]
    /\ UNCHANGED <<chain, edit, added, edits, enters>>

\* udata is loaded and the function called; strange when it is not its own.
TransitCall(p) ==
    LET i == transit[p].i
        f == transit[p].func
        odd == IF udata[i] = f THEN {} ELSE {f} IN
    /\ f # NONE
    /\ \/ /\ transit[p].pc = "before_func"
          /\ transit' = [transit EXCEPT ![p].pc = "before", ![p].i = i + 1, ![p].func = NONE,
                                        ![p].before[f] = @ + 1, ![p].strange = @ \cup odd]
       \/ /\ transit[p].pc = "after_func"
          /\ transit' = [transit EXCEPT ![p].pc = "after", ![p].i = i - 1, ![p].func = NONE,
                                        ![p].after[f] = @ + 1, ![p].strange = @ \cup odd]
    /\ UNCHANGED <<chain, edit, added, edits, enters>>

\* The original function, or not when a before callback set skip_origin; the
\* second loop starts from the bound as it is by now.
TransitOrigin(p) ==
    /\ transit[p].pc = "origin"
    /\ transit' = [transit EXCEPT ![p].pc = "after", ![p].i = chain_items_max - 1]
    /\ UNCHANGED <<chain, edit, added, edits, enters>>

TransitReturn(p) ==
    /\ transit[p].pc = "done"
    /\ transit' = [transit EXCEPT ![p] = IdleTransit]
    /\ UNCHANGED <<chain, edit, added, edits, enters>>

-----------------------------------------------------------------------------
hook_chain_add(x) ==
    AddStart(x) \/ AddScan(x) \/ AddBusy(x) \/ AddFields(x) \/ AddReady(x)

hook_chain_remove(x) ==
    RemoveStart(x) \/ RemoveScan(x) \/ RemoveBusy(x) \/ RemoveFields(x) \/ RemoveEmpty(x)

TransitStep(p) ==
    TransitTest(p) \/ TransitLoad(p) \/ TransitCall(p) \/ TransitOrigin(p)

ChainNext ==
    \/ \E x \in Callback : hook_chain_add(x) \/ hook_chain_remove(x)
    \/ \E p \in Process : TransitEnter(p) \/ TransitStep(p) \/ TransitReturn(p)

ChainSpec == ChainInit /\ [][ChainNext]_chainVars

-----------------------------------------------------------------------------
(* Properties *)

\* A call that runs while an item is in the chain from beginning to end calls
\* its before and its after exactly once, with its own udata, whatever else is
\* added and removed meanwhile.
StableItemsRunOnce ==
    \A p \in Process : transit[p].pc = "done" =>
        \A x \in transit[p].stable :
            /\ transit[p].before[x] = IF x \in HasBefore THEN 1 ELSE 0
            /\ transit[p].after[x] = IF x \in HasAfter THEN 1 ELSE 0
            /\ x \notin transit[p].strange

\* A call that began after an item's removal returned never calls it, unless it
\* is added again meanwhile.
RemovedItemsNeverRun ==
    \A p \in Process : transit[p].pc = "done" =>
        \A x \in transit[p].gone : transit[p].before[x] = 0 /\ transit[p].after[x] = 0

\* A slot that says READY is complete, and every item of the chain is in exactly
\* one slot, which the transit's bound reaches.
ReadySlotsComplete ==
    /\ \A i \in Slot : states[i] = "READY" =>
          /\ i < chain_items_max
          /\ udata[i] # NONE
          /\ befores[i] = BeforeOf(udata[i]) /\ afters[i] = AfterOf(udata[i])
    /\ \A x \in added : \E i \in Slot : states[i] = "READY" /\ udata[i] = x
    /\ \A i, j \in Slot : udata[i] = udata[j] /\ udata[i] # NONE => i = j

\* The chain and its transits (hook.c:345-374, 715-757): at every single load and
\* store, what a transit may find in the chain is complete, and what it has run
\* when it returns is right for every item.
TransitsRunTheChain == ReadySlotsComplete /\ StableItemsRunOnce /\ RemovedItemsNeverRun

=============================================================================
