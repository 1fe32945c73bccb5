----------------------------- MODULE HookTable ------------------------------
(***************************************************************************)
(* The hook memory (kernel/base/hmem.c) and the calls that use it: hook,   *)
(* unhook, hook_wrap and hook_unwrap on functions (hook.c), fp_hook_wrap   *)
(* and fp_hook_unwrap on function pointers (fphook.c).  A region of equal  *)
(* slots holds, for each hooked target, the saved code and a chain of      *)
(* callbacks; the target's code, or the pointer, leads into the slot.      *)
(*                                                                         *)
(* Calls are one step each; HookChain splits the calls of one chain.       *)
(* Addresses and instructions are left out: what counts is whether a       *)
(* target's code is its own or the trampoline into a slot.                 *)
(***************************************************************************)
EXTENDS Integers, FiniteSets

CONSTANTS
    MemNum,             \* slots of the hook memory region
    Func, Pointer,      \* hookable functions, hookable function pointers
    Unrelocatable,      \* functions whose first instructions hook_prepare refuses
    Item,               \* callback pairs (before, after, udata), all distinct
    Module,             \* who adds callbacks
    Owner,              \* Owner[x]: the module that adds and removes item x
    HOOK_CHAIN_NUM, FP_HOOK_CHAIN_NUM,
    Use,                \* uses beyond one hook or one chain per target
    NULL,
    MaxOps              \* bound: calls

Target == Func \cup Pointer
MemSlot == 1 .. MemNum
ORIGIN == 0             \* the target's own code

ASSUME TableAssumption ==
    /\ MemNum \in Nat /\ MaxOps \in Nat
    /\ HOOK_CHAIN_NUM \in Nat \ {0} /\ FP_HOOK_CHAIN_NUM \in Nat \ {0}
    /\ Func \cap Pointer = {} /\ Unrelocatable \subseteq Func
    /\ Owner \in [Item -> Module]
    /\ Use \subseteq {"wrap_hooked", "wrap_again", "unhook_wrapped"}
    /\ NULL \notin Item \cup Target

ChainLen(t) == IF t \in Pointer THEN FP_HOOK_CHAIN_NUM ELSE HOOK_CHAIN_NUM
ChainSlot == 0 .. IF HOOK_CHAIN_NUM > FP_HOOK_CHAIN_NUM
                  THEN HOOK_CHAIN_NUM - 1 ELSE FP_HOOK_CHAIN_NUM - 1

VARIABLES
    using, addr, type,   \* hook_mem_warp_t
    origin,              \* origin_insts or origin_fp: what the target held before
    items,               \* the chain: NULL is an EMPTY entry
    code,                \* what a call of the target enters: ORIGIN or a slot
    claims,              \* history: <<target, item>> wrapped and not unwrapped
    kept,                \* history: targets unwrapped with remove = 0
    ops

mem == <<using, addr, type, origin, items>>
vars == <<mem, code, claims, kept, ops>>

HookType == {"NONE", "INLINE", "INLINE_CHAIN", "FUNCTION_POINTER_CHAIN"}

EmptyChain == [i \in ChainSlot |-> NULL]

\* hook_mem_add zeroes the region.
Init ==
    /\ using = [s \in MemSlot |-> FALSE]
    /\ addr = [s \in MemSlot |-> NULL]
    /\ type = [s \in MemSlot |-> "NONE"]
    /\ origin = [s \in MemSlot |-> ORIGIN]
    /\ items = [s \in MemSlot |-> EmptyChain]
    /\ code = [t \in Target |-> ORIGIN]
    /\ claims = {} /\ kept = {}
    /\ ops = MaxOps

-----------------------------------------------------------------------------
(* The region *)

\* hook_get_mem_from_origin: the first slot in use for t.
IsMemOf(s, t) ==
    /\ using[s] /\ addr[s] = t
    /\ \A r \in MemSlot : r < s => ~(using[r] /\ addr[r] = t)

HasMem(t) == \E s \in MemSlot : using[s] /\ addr[s] = t

FirstFree(s) == ~using[s] /\ \A r \in MemSlot : r < s => using[r]

\* hook_mem_zalloc, the caller's setting up and the first callback, if any.
TakeSlot(s, t, kind, chain) ==
    /\ FirstFree(s)
    /\ using' = [using EXCEPT ![s] = TRUE]
    /\ addr' = [addr EXCEPT ![s] = t]
    /\ type' = [type EXCEPT ![s] = kind]
    /\ origin' = [origin EXCEPT ![s] = code[t]]
    /\ items' = [items EXCEPT ![s] = chain]

\* hook_install, or fp_hook for a pointer.
Install(s, t) == code' = [code EXCEPT ![t] = s]

\* hook_uninstall, or fp_unhook: the target gets back what the slot saved.
Uninstall(s, t) == code' = [code EXCEPT ![t] = origin[s]]

hook_mem_free(s) == using' = [using EXCEPT ![s] = FALSE]

\* Mutant: the slot is freed and the target still leads into it.
GiveBackOnlyMemory(s, t) ==
    /\ UNCHANGED code
    /\ hook_mem_free(s)
    /\ UNCHANGED <<addr, type, origin>>

GiveBack(s, t) ==
    /\ Uninstall(s, t)
    /\ hook_mem_free(s)
    /\ UNCHANGED <<addr, type, origin>>

-----------------------------------------------------------------------------
(* The chain of a slot *)

ChainOf(t) == {i \in ChainSlot : i < ChainLen(t)}

\* hook_chain_add: up to and in the first EMPTY entry no entry holds x.
AddedAt(s, t, x, i) ==
    /\ i \in ChainOf(t) /\ items[s][i] = NULL
    /\ \A j \in ChainOf(t) : j < i => items[s][j] \notin {NULL, x}
    /\ items' = [items EXCEPT ![s][i] = x]

\* hook_chain_remove: the first entry that holds x, if any, is emptied.
Without(s, t, x) ==
    LET first == {i \in ChainOf(t) : /\ items[s][i] = x
                                     /\ \A j \in ChainOf(t) : j < i => items[s][j] # x}
    IN [i \in ChainSlot |-> IF i \in first THEN NULL ELSE items[s][i]]

-----------------------------------------------------------------------------
(* Operations; a call that fails leaves everything as it was *)

Call == ops > 0 /\ ops' = ops - 1

\* hook itself does not look for an earlier hook: its callers hook a function
\* once, and none that is wrapped.
hook(f) ==
    /\ Call
    /\ f \in Func \ Unrelocatable /\ ~HasMem(f)
    /\ \E s \in MemSlot :
          /\ TakeSlot(s, f, "INLINE", EmptyChain)
          /\ Install(s, f)
    /\ UNCHANGED <<claims, kept>>

\* Frees whatever the function's slot holds; a module's exit calls it for the
\* functions it wrapped.
unhook(f, m) ==
    /\ Call
    /\ f \in Func
    /\ \E s \in MemSlot :
          /\ IsMemOf(s, f)
          /\ type[s] = "INLINE" \/ "unhook_wrapped" \in Use
          /\ GiveBack(s, f)
    /\ claims' = {c \in claims : ~(c[1] = f /\ Owner[c[2]] = m)}
    /\ kept' = kept \ {f}
    /\ UNCHANGED items

\* The first callback of a target: hook_wrap or fp_hook_wrap takes a slot and
\* installs it.
hook_wrap(t, x) ==
    /\ Call
    /\ ~HasMem(t) /\ t \notin Unrelocatable
    /\ \E s \in MemSlot :
          /\ TakeSlot(s, t, IF t \in Pointer THEN "FUNCTION_POINTER_CHAIN" ELSE "INLINE_CHAIN",
                      [EmptyChain EXCEPT ![0] = x])
          /\ Install(s, t)
    /\ claims' = claims \cup {<<t, x>>}
    /\ UNCHANGED kept

\* The next ones are added to the chain of the slot the target has, whatever
\* its type.
hook_wrap_more(t, x) ==
    /\ Call
    /\ <<t, x>> \notin claims \/ "wrap_again" \in Use
    /\ \E s \in MemSlot : \E i \in ChainSlot :
          /\ IsMemOf(s, t)
          /\ type[s] # "INLINE" \/ "wrap_hooked" \in Use
          /\ AddedAt(s, t, x, i)
    /\ claims' = claims \cup {<<t, x>>}
    /\ UNCHANGED <<using, addr, type, origin, code, kept>>

\* The item is taken out of the chain; with remove a chain that is then empty is
\* given back.
\* Mutant: the slot is given back with the first callback that goes.
UnwrapAll(s, t, x, remove) ==
    /\ items' = [items EXCEPT ![s] = Without(s, t, x)]
    /\ IF remove THEN GiveBack(s, t) ELSE UNCHANGED <<code, using, addr, type, origin>>
    /\ claims' = claims \ {<<t, x>>}
    /\ kept' = IF remove THEN kept \ {t} ELSE kept \cup {t}

\* Mutant: the chain is tested for empty before the item is removed.
UnwrapEarly(s, t, x, remove) ==
    /\ items' = [items EXCEPT ![s] = Without(s, t, x)]
    /\ IF remove /\ \A i \in ChainOf(t) : items[s][i] = NULL
       THEN GiveBack(s, t)
       ELSE UNCHANGED <<code, using, addr, type, origin>>
    /\ claims' = claims \ {<<t, x>>}
    /\ kept' = IF remove THEN kept \ {t} ELSE kept \cup {t}

Unwrap(s, t, x, remove) ==
    /\ items' = [items EXCEPT ![s] = Without(s, t, x)]
    /\ IF remove /\ \A i \in ChainOf(t) : Without(s, t, x)[i] = NULL
       THEN GiveBack(s, t)
       ELSE UNCHANGED <<code, using, addr, type, origin>>
    /\ claims' = claims \ {<<t, x>>}
    /\ kept' = IF remove THEN kept \ {t} ELSE kept \cup {t}

\* A callback goes that its module added; what an unwrap kept may be unwrapped
\* once more.
Unwrappable(t, x) == <<t, x>> \in claims \/ t \in kept

hook_unwrap_remove(f, x, remove) ==
    /\ Call
    /\ f \in Func /\ Unwrappable(f, x)
    /\ \E s \in MemSlot : IsMemOf(s, f) /\ Unwrap(s, f, x, remove)

fp_hook_unwrap(p, x) ==
    /\ Call
    /\ p \in Pointer /\ Unwrappable(p, x)
    /\ \E s \in MemSlot : IsMemOf(s, p) /\ Unwrap(s, p, x, TRUE)

Next ==
    \/ \E f \in Func : hook(f) \/ \E m \in Module : unhook(f, m)
    \/ \E t \in Target, x \in Item : hook_wrap(t, x) \/ hook_wrap_more(t, x)
    \/ \E f \in Func, x \in Item, remove \in BOOLEAN : hook_unwrap_remove(f, x, remove)
    \/ \E p \in Pointer, x \in Item : fp_hook_unwrap(p, x)

Spec == Init /\ [][Next]_vars

-----------------------------------------------------------------------------
(* Properties *)

\* How often a call of t runs item x: the transit of an installed chain.
Runs(t, x) ==
    IF code[t] = ORIGIN \/ type[code[t]] = "INLINE" THEN 0
    ELSE Cardinality({i \in ChainOf(t) : items[code[t]][i] = x})

\* hook.h: before is called before the hooked function.  Of an item whose wrap
\* succeeded and that its module has not unwrapped, every call of the target
\* runs the callbacks, and once, whatever the others do with the target.
ClaimedItemsRunOnce == \A c \in claims : Runs(c[1], c[2]) = 1

\* An item that was unwrapped, or never wrapped, does not run: its module may
\* be gone.
OnlyClaimedItemsRun ==
    \A t \in Target, x \in Item : Runs(t, x) > 0 => <<t, x>> \in claims

\* A target's code leads into the slot that is in use for it and nowhere else:
\* never into a slot that was freed or belongs to another target, and no slot is
\* in use that nothing leads to.
CodeMatchesTable ==
    /\ \A t \in Target : code[t] # ORIGIN => using[code[t]] /\ addr[code[t]] = t
    /\ \A s \in MemSlot : using[s] =>
          /\ addr[s] \in Target
          /\ code[addr[s]] = s
          /\ origin[s] = ORIGIN

\* When the last callback of a target is unwrapped its own code is back and its
\* slot free, unless an unwrap asked to keep it (remove = 0).
LastUnwrapRestores ==
    \A t \in Target :
        (code[t] # ORIGIN /\ type[code[t]] # "INLINE" /\ t \notin kept)
            => \E x \in Item : <<t, x>> \in claims
=============================================================================
