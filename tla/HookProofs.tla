----------------------------- MODULE HookProofs -----------------------------
(***************************************************************************)
(* Theorems about HookTable for every size of the memory and the chains    *)
(* and every set of targets and items, and about HookChain.                *)
(***************************************************************************)
EXTENDS HookChain, HookTable, FiniteSetTheorems, TLAPS

\* The numbers among the constants.
LEMMA ConstantFacts ==
    /\ MemNum \in Nat /\ MaxOps \in Nat
    /\ HOOK_CHAIN_NUM \in Nat /\ HOOK_CHAIN_NUM > 0
    /\ FP_HOOK_CHAIN_NUM \in Nat /\ FP_HOOK_CHAIN_NUM > 0
    /\ NULL \notin Item /\ NULL \notin Target
    /\ ORIGIN \notin MemSlot
    /\ 0 \in ChainSlot /\ ChainSlot \subseteq Nat
    /\ \A t \in Target : ChainOf(t) \subseteq ChainSlot /\ 0 \in ChainOf(t)
BY TableAssumption DEF Target, MemSlot, ORIGIN, ChainSlot, ChainOf, ChainLen

Types ==
    /\ using \in [MemSlot -> BOOLEAN]
    /\ addr \in [MemSlot -> Target \cup {NULL}]
    /\ type \in [MemSlot -> HookType]
    /\ origin \in [MemSlot -> {ORIGIN} \cup MemSlot]
    /\ items \in [MemSlot -> [ChainSlot -> Item \cup {NULL}]]
    /\ code \in [Target -> {ORIGIN} \cup MemSlot]
    /\ claims \subseteq Target \X Item
    /\ kept \subseteq Target
    /\ ops \in 0 .. MaxOps

\* hook_unwrap_remove and fp_hook_unwrap come to the same.
Unwraps(t, x, remove) ==
    /\ Call /\ Unwrappable(t, x)
    /\ \E s \in MemSlot : IsMemOf(s, t) /\ Unwrap(s, t, x, remove)

\* What a step is, told by what it does with a target.
LEMMA NextCases ==
    ASSUME [Next]_vars
    PROVE  \/ UNCHANGED vars
           \/ \E f \in Func : hook(f)
           \/ \E f \in Func, m \in Module : unhook(f, m)
           \/ \E t \in Target, x \in Item : hook_wrap(t, x)
           \/ \E t \in Target, x \in Item : hook_wrap_more(t, x)
           \/ \E t \in Target, x \in Item, remove \in BOOLEAN : Unwraps(t, x, remove)
<1>1. ASSUME NEW f \in Func, NEW x \in Item, NEW remove \in BOOLEAN, hook_unwrap_remove(f, x, remove)
      PROVE  f \in Target /\ Unwraps(f, x, remove)
  BY <1>1 DEF hook_unwrap_remove, Unwraps, Target
<1>2. ASSUME NEW p \in Pointer, NEW x \in Item, fp_hook_unwrap(p, x)
      PROVE  p \in Target /\ Unwraps(p, x, TRUE)
  BY <1>2 DEF fp_hook_unwrap, Unwraps, Target
<1> QED BY <1>1, <1>2 DEF Next

\* The variables have their types.
LEMMA TypesInvariant == Spec => []Types
<1>1. Init => Types
  BY ConstantFacts DEF Init, Types, EmptyChain, HookType
<1>2. Types /\ [Next]_vars => Types'
  <2> SUFFICES ASSUME Types, [Next]_vars PROVE Types'
    OBVIOUS
  <2> USE ConstantFacts DEF Types
  <2>1. CASE UNCHANGED vars
    BY <2>1 DEF vars, mem
  <2>2. ASSUME NEW f \in Func, hook(f) PROVE Types'
    BY <2>2 DEF hook, TakeSlot, Install, Call, EmptyChain, HookType, Target
  <2>3. ASSUME NEW f \in Func, NEW m \in Module, unhook(f, m) PROVE Types'
    BY <2>3 DEF unhook, GiveBack, Uninstall, hook_mem_free, Call, Target
  <2>4. ASSUME NEW t \in Target, NEW x \in Item, hook_wrap(t, x) PROVE Types'
    BY <2>4 DEF hook_wrap, TakeSlot, Install, Call, EmptyChain, HookType
  <2>5. ASSUME NEW t \in Target, NEW x \in Item, hook_wrap_more(t, x) PROVE Types'
    BY <2>5 DEF hook_wrap_more, AddedAt, Call
  <2>6. ASSUME NEW t \in Target, NEW x \in Item, NEW remove \in BOOLEAN,
               Unwraps(t, x, remove)
        PROVE  Types'
    <3>1. \A s \in MemSlot : Without(s, t, x) \in [ChainSlot -> Item \cup {NULL}]
      BY DEF Without
    <3>2. items' \in [MemSlot -> [ChainSlot -> Item \cup {NULL}]]
      BY <2>6, <3>1 DEF Unwraps, Unwrap
    <3>3. /\ using' \in [MemSlot -> BOOLEAN]
          /\ code' \in [Target -> {ORIGIN} \cup MemSlot]
          /\ UNCHANGED <<addr, type, origin>>
      <4>1. PICK s \in MemSlot : GiveBack(s, t) \/ UNCHANGED <<code, using, addr, type, origin>>
        BY <2>6 DEF Unwraps, Unwrap
      <4>2. CASE GiveBack(s, t)
        <5>1. UNCHANGED <<addr, type, origin>>
          BY <4>2 DEF GiveBack
        <5>2. using' \in [MemSlot -> BOOLEAN]
          BY <4>2 DEF GiveBack, hook_mem_free
        <5>3. origin[s] \in {ORIGIN} \cup MemSlot
          OBVIOUS
        <5>4. code' \in [Target -> {ORIGIN} \cup MemSlot]
          BY <4>2, <5>3 DEF GiveBack, Uninstall
        <5> QED BY <5>1, <5>2, <5>4
      <4>3. CASE UNCHANGED <<code, using, addr, type, origin>>
        BY <4>3
      <4> QED BY <4>1, <4>2, <4>3
    <3>4. claims' \subseteq Target \X Item /\ kept' \subseteq Target /\ ops' \in 0 .. MaxOps
      BY <2>6 DEF Unwraps, Unwrap, Call
    <3> QED BY <3>2, <3>3, <3>4
  <2> QED BY <2>1, <2>2, <2>3, <2>4, <2>5, <2>6, NextCases
<1> QED BY <1>1, <1>2, PTL DEF Spec

-----------------------------------------------------------------------------
\* CodeMatchesTable is inductive together with the types.

\* A target's code changes only from its own to a free slot taken for it.
LEMMA TakeKeepsMatch ==
    ASSUME Types, CodeMatchesTable,
           NEW t \in Target, NEW s \in MemSlot, NEW kind, NEW row,
           ~HasMem(t), TakeSlot(s, t, kind, row), Install(s, t)
    PROVE  CodeMatchesTable'
<1> USE DEF Types, CodeMatchesTable, Install
<1>1. code[t] = ORIGIN
  BY DEF HasMem
<1>2. /\ using' = [using EXCEPT ![s] = TRUE]
      /\ addr' = [addr EXCEPT ![s] = t]
      /\ origin' = [origin EXCEPT ![s] = ORIGIN]
      /\ ~using[s]
  BY <1>1 DEF TakeSlot, FirstFree
<1>3. s # ORIGIN
  BY ConstantFacts
<1>4. ASSUME NEW u \in Target, code'[u] # ORIGIN
      PROVE  using'[code'[u]] /\ addr'[code'[u]] = u
  <2>1. CASE u = t
    BY <2>1, <1>2
  <2>2. CASE u # t
    BY <2>2, <1>2, <1>4
  <2> QED BY <2>1, <2>2
<1>5. ASSUME NEW r \in MemSlot, using'[r]
      PROVE  addr'[r] \in Target /\ code'[addr'[r]] = r /\ origin'[r] = ORIGIN
  <2>1. CASE r = s
    BY <2>1, <1>2
  <2>2. CASE r # s
    <3>1. addr'[r] = addr[r] /\ addr[r] \in Target /\ code[addr[r]] = r /\ origin'[r] = ORIGIN
      BY <2>2, <1>2, <1>5
    <3>2. addr[r] # t
      BY <3>1, <1>1, ConstantFacts
    <3> QED BY <3>1, <3>2
  <2> QED BY <2>1, <2>2
<1> QED BY <1>4, <1>5

\* Giving a slot back restores the target's own code.
LEMMA GiveBackKeepsMatch ==
    ASSUME Types, CodeMatchesTable,
           NEW t \in Target, NEW s \in MemSlot, IsMemOf(s, t), GiveBack(s, t)
    PROVE  CodeMatchesTable'
<1> USE DEF Types, CodeMatchesTable, GiveBack, Uninstall, hook_mem_free, IsMemOf
<1>1. origin[s] = ORIGIN /\ code[t] = s
  OBVIOUS
<1>2. ASSUME NEW u \in Target, code'[u] # ORIGIN
      PROVE  using'[code'[u]] /\ addr'[code'[u]] = u
  BY <1>1, <1>2
<1>3. ASSUME NEW r \in MemSlot, using'[r]
      PROVE  addr'[r] \in Target /\ code'[addr'[r]] = r /\ origin'[r] = ORIGIN
  BY <1>1, <1>3
<1> QED BY <1>2, <1>3

\* A target's code leads into the slot in use for it and into no other, for any
\* number of targets, slots and callbacks and any order of calls, rule-abiding or
\* not.
THEOREM CodeAndTableAgree == Spec => []CodeMatchesTable
<1>1. Init => CodeMatchesTable
  BY DEF Init, CodeMatchesTable
<1>2. Types /\ CodeMatchesTable /\ [Next]_vars => CodeMatchesTable'
  <2> SUFFICES ASSUME Types, CodeMatchesTable, [Next]_vars PROVE CodeMatchesTable'
    OBVIOUS
  <2>1. CASE UNCHANGED vars
    BY <2>1 DEF vars, mem, CodeMatchesTable
  <2>2. ASSUME NEW f \in Func, hook(f) PROVE CodeMatchesTable'
    BY <2>2, TakeKeepsMatch DEF hook, Target
  <2>3. ASSUME NEW f \in Func, NEW m \in Module, unhook(f, m) PROVE CodeMatchesTable'
    BY <2>3, GiveBackKeepsMatch DEF unhook, Target
  <2>4. ASSUME NEW t \in Target, NEW x \in Item, hook_wrap(t, x) PROVE CodeMatchesTable'
    BY <2>4, TakeKeepsMatch DEF hook_wrap
  <2>5. ASSUME NEW t \in Target, NEW x \in Item, hook_wrap_more(t, x) PROVE CodeMatchesTable'
    BY <2>5 DEF hook_wrap_more, CodeMatchesTable
  <2>6. ASSUME NEW t \in Target, NEW x \in Item, NEW remove \in BOOLEAN,
               Unwraps(t, x, remove)
        PROVE  CodeMatchesTable'
    <3>1. PICK s \in MemSlot :
             /\ IsMemOf(s, t)
             /\ GiveBack(s, t) \/ UNCHANGED <<code, using, addr, type, origin>>
      BY <2>6 DEF Unwraps, Unwrap
    <3>2. CASE GiveBack(s, t)
      BY <3>1, <3>2, GiveBackKeepsMatch
    <3>3. CASE UNCHANGED <<code, using, addr, type, origin>>
      BY <3>3 DEF CodeMatchesTable
    <3> QED BY <3>1, <3>2, <3>3
  <2> QED BY <2>1, <2>2, <2>3, <2>4, <2>5, <2>6, NextCases
<1> QED BY <1>1, <1>2, TypesInvariant, PTL DEF Spec

-----------------------------------------------------------------------------
\* As long as callers keep to the rules (Use = {}) the claims are the chains.

Chained(t) == code[t] # ORIGIN /\ type[code[t]] # "INLINE"
Holds(t, x) == Chained(t) /\ \E i \in ChainOf(t) : items[code[t]][i] = x

\* No chain that a call enters holds an item twice.
NoTwice ==
    \A t \in Target : Chained(t) =>
        \A i, j \in ChainOf(t) :
            (items[code[t]][i] = items[code[t]][j] /\ items[code[t]][i] # NULL) => i = j

ClaimsAreChains ==
    /\ \A t \in Target, x \in Item : <<t, x>> \in claims <=> Holds(t, x)
    /\ \A t \in kept : Chained(t)
    /\ NoTwice

\* A call about one target leaves the chains of the others alone.
OnlyAbout(t) ==
    \A u \in Target \ {t} :
        /\ code'[u] = code[u]
        /\ code[u] # ORIGIN => /\ type'[code[u]] = type[code[u]]
                               /\ items'[code[u]] = items[code[u]]

\* The lengths of the chains are constants, so only t itself needs a look.
LEMMA FrameClaims ==
    ASSUME Types, ClaimsAreChains, NEW t \in Target, OnlyAbout(t),
           \A u \in Target \ {t}, x \in Item : <<u, x>> \in claims' <=> <<u, x>> \in claims,
           \A x \in Item : <<t, x>> \in claims' <=> Holds(t, x)',
           \A u \in kept' : u # t => u \in kept,
           t \in kept' => Chained(t)',
           Chained(t)' => \A i, j \in ChainOf(t) :
               (items'[code'[t]][i] = items'[code'[t]][j] /\ items'[code'[t]][i] # NULL) => i = j
    PROVE  ClaimsAreChains'
<1>1. ASSUME NEW u \in Target \ {t}
      PROVE  /\ Chained(u)' <=> Chained(u)
             /\ Chained(u) => items'[code'[u]] = items[code[u]]
  BY <1>1 DEF OnlyAbout, Chained
<1>2. ASSUME NEW u \in Target, NEW x \in Item
      PROVE  <<u, x>> \in claims' <=> Holds(u, x)'
  <2>1. CASE u = t
    BY <2>1
  <2>2. CASE u # t
    BY <2>2, <1>1 DEF ClaimsAreChains, Holds, Chained
  <2> QED BY <2>1, <2>2
<1>3. ASSUME NEW u \in Target, Chained(u)', NEW i \in ChainOf(u), NEW j \in ChainOf(u),
             items'[code'[u]][i] = items'[code'[u]][j], items'[code'[u]][i] # NULL
      PROVE  i = j
  <2>1. CASE u = t
    BY <2>1, <1>3
  <2>2. CASE u # t
    BY <2>2, <1>1, <1>3 DEF ClaimsAreChains, NoTwice
  <2> QED BY <2>1, <2>2
<1>4. NoTwice'
  BY <1>3 DEF NoTwice, ChainOf, ChainLen
<1>5. ASSUME NEW u \in kept'
      PROVE  Chained(u)'
  <2>1. CASE u = t
    BY <2>1, <1>5
  <2>2. CASE u # t
    BY <2>2, <1>1, <1>5 DEF ClaimsAreChains, Types
  <2> QED BY <2>1, <2>2
<1> QED BY <1>2, <1>4, <1>5 DEF ClaimsAreChains

\* The slot a call finds for t, or takes for it, is nobody else's.
LEMMA SlotIsMine ==
    ASSUME Types, CodeMatchesTable, NEW t \in Target, NEW s \in MemSlot,
           (using[s] /\ addr[s] = t) \/ ~using[s],
           NEW u \in Target \ {t}, code[u] # ORIGIN
    PROVE  code[u] # s /\ code[u] \in MemSlot
BY DEF Types, CodeMatchesTable

\* hook and hook_wrap: a target without a slot gets one.
LEMMA TakeKeepsClaims ==
    ASSUME Types, CodeMatchesTable, ClaimsAreChains,
           NEW t \in Target, NEW s \in MemSlot, NEW kind \in HookType, NEW row,
           ~HasMem(t), TakeSlot(s, t, kind, row), Install(s, t)
    PROVE  /\ OnlyAbout(t)
           /\ code'[t] = s /\ s # ORIGIN
           /\ type'[s] = kind /\ items'[s] = row
           /\ \A x \in Item : <<t, x>> \notin claims
<1>1. code[t] = ORIGIN
  BY DEF HasMem, CodeMatchesTable, Types
<1>2. \A x \in Item : <<t, x>> \notin claims
  BY <1>1 DEF ClaimsAreChains, Holds, Chained
<1>3. ~using[s] /\ s # ORIGIN
  BY ConstantFacts DEF TakeSlot, FirstFree
<1>4. code'[t] = s /\ type'[s] = kind /\ items'[s] = row
  BY DEF TakeSlot, Install, Types
<1>5. ASSUME NEW u \in Target \ {t}
      PROVE  /\ code'[u] = code[u]
             /\ code[u] # ORIGIN => type'[code[u]] = type[code[u]] /\ items'[code[u]] = items[code[u]]
  <2>1. code'[u] = code[u]
    BY DEF Types, Install
  <2>2. code[u] # ORIGIN => code[u] # s
    BY <1>3, SlotIsMine
  <2> QED BY <2>1, <2>2 DEF TakeSlot, Types
<1> QED BY <1>2, <1>3, <1>4, <1>5 DEF OnlyAbout

LEMMA HookKeepsClaims ==
    ASSUME Types, CodeMatchesTable, ClaimsAreChains, NEW f \in Func, hook(f)
    PROVE  ClaimsAreChains'
<1>1. PICK s \in MemSlot : TakeSlot(s, f, "INLINE", EmptyChain) /\ Install(s, f)
  BY DEF hook
<1>2. f \in Target /\ "INLINE" \in HookType /\ ~HasMem(f) /\ claims' = claims
  BY DEF hook, Target, HookType
<1>3. /\ OnlyAbout(f) /\ code'[f] = s /\ type'[s] = "INLINE"
      /\ \A x \in Item : <<f, x>> \notin claims
  BY <1>1, <1>2, TakeKeepsClaims
<1>4. ~Chained(f)'
  BY <1>3 DEF Chained
<1>5. f \notin kept /\ kept' = kept
  BY <1>2, <1>1 DEF hook, ClaimsAreChains, Chained, CodeMatchesTable, HasMem, Types
<1> QED BY <1>2, <1>3, <1>4, <1>5, FrameClaims DEF Holds

LEMMA WrapKeepsClaims ==
    ASSUME Types, CodeMatchesTable, ClaimsAreChains, NEW t \in Target, NEW x \in Item,
           hook_wrap(t, x)
    PROVE  ClaimsAreChains'
<1> DEFINE kind == IF t \in Pointer THEN "FUNCTION_POINTER_CHAIN" ELSE "INLINE_CHAIN"
           row == [EmptyChain EXCEPT ![0] = x]
<1>1. PICK s \in MemSlot : TakeSlot(s, t, kind, row) /\ Install(s, t)
  BY DEF hook_wrap
<1>2. kind \in HookType /\ kind # "INLINE" /\ ~HasMem(t) /\ claims' = claims \cup {<<t, x>>}
  BY DEF hook_wrap, HookType
<1> HIDE DEF kind, row
<1>3. /\ OnlyAbout(t) /\ code'[t] = s /\ s # ORIGIN /\ type'[s] = kind /\ items'[s] = row
      /\ \A y \in Item : <<t, y>> \notin claims
  BY <1>1, <1>2, TakeKeepsClaims
<1>4. /\ \A i \in ChainOf(t) : row[i] = IF i = 0 THEN x ELSE NULL
      /\ 0 \in ChainOf(t) /\ x # NULL
  BY ConstantFacts DEF row, EmptyChain
<1>5. Chained(t)'
  BY <1>2, <1>3 DEF Chained
<1>6. \A y \in Item : Holds(t, y)' <=> y = x
  BY <1>3, <1>4, <1>5, ConstantFacts DEF Holds, ChainOf, ChainLen
<1>7. \A i, j \in ChainOf(t) :
         (items'[code'[t]][i] = items'[code'[t]][j] /\ items'[code'[t]][i] # NULL) => i = j
  BY <1>3, <1>4
<1>8. /\ \A y \in Item : <<t, y>> \in claims' <=> Holds(t, y)'
      /\ \A u \in Target \ {t}, y \in Item : <<u, y>> \in claims' <=> <<u, y>> \in claims
  BY <1>2, <1>3, <1>6
<1>9. kept' = kept
  BY DEF hook_wrap
<1> QED BY <1>3, <1>5, <1>7, <1>8, <1>9, FrameClaims

\* The slot that IsMemOf finds is the one the code leads into.
LEMMA MemOfIsCode ==
    ASSUME Types, CodeMatchesTable, NEW t \in Target, NEW s \in MemSlot, IsMemOf(s, t)
    PROVE  code[t] = s /\ s # ORIGIN /\ using[s] /\ addr[s] = t /\ origin[s] = ORIGIN
BY ConstantFacts DEF IsMemOf, CodeMatchesTable, Types

LEMMA WrapMoreKeepsClaims ==
    ASSUME Use = {}, Types, CodeMatchesTable, ClaimsAreChains,
           NEW t \in Target, NEW x \in Item, hook_wrap_more(t, x)
    PROVE  ClaimsAreChains'
<1>1. PICK s \in MemSlot, k \in ChainSlot :
         IsMemOf(s, t) /\ type[s] # "INLINE" /\ AddedAt(s, t, x, k)
  BY DEF hook_wrap_more
<1>2. /\ <<t, x>> \notin claims /\ claims' = claims \cup {<<t, x>>}
      /\ UNCHANGED <<code, type>>
  BY DEF hook_wrap_more
<1>3. code[t] = s /\ s # ORIGIN /\ using[s] /\ addr[s] = t
  BY <1>1, MemOfIsCode
<1>4. /\ k \in ChainOf(t) /\ items[s][k] = NULL
      /\ items' = [items EXCEPT ![s][k] = x]
  BY <1>1 DEF AddedAt
<1>5. /\ \A i \in ChainOf(t) : items'[s][i] = IF i = k THEN x ELSE items[s][i]
      /\ \A r \in MemSlot : r # s => items'[r] = items[r]
  BY <1>4, ConstantFacts DEF Types
<1>6. OnlyAbout(t)
  BY <1>2, <1>3, <1>5, SlotIsMine DEF OnlyAbout
<1>7. Chained(t) /\ Chained(t)'
  BY <1>1, <1>2, <1>3 DEF Chained
<1>8. \A i \in ChainOf(t) : items[s][i] # x
  BY <1>2, <1>3, <1>7 DEF ClaimsAreChains, Holds
<1>9. \A y \in Item : Holds(t, y)' <=> y = x \/ Holds(t, y)
  BY <1>2, <1>3, <1>4, <1>5, <1>7, ConstantFacts DEF Holds, ChainOf, ChainLen
<1>10. \A i, j \in ChainOf(t) :
          (items'[code'[t]][i] = items'[code'[t]][j] /\ items'[code'[t]][i] # NULL) => i = j
  BY <1>2, <1>3, <1>5, <1>7, <1>8 DEF ClaimsAreChains, NoTwice
<1>11. \A y \in Item : <<t, y>> \in claims' <=> Holds(t, y)'
  BY <1>2, <1>9 DEF ClaimsAreChains
<1>12. \A u \in Target \ {t}, y \in Item : <<u, y>> \in claims' <=> <<u, y>> \in claims
  BY <1>2
<1>13. kept' = kept
  BY DEF hook_wrap_more
<1> QED BY <1>6, <1>7, <1>10, <1>11, <1>12, <1>13, FrameClaims

\* Giving back a slot leaves the other targets alone.
LEMMA GiveBackIsLocal ==
    ASSUME Types, CodeMatchesTable, NEW t \in Target, NEW s \in MemSlot,
           IsMemOf(s, t), GiveBack(s, t),
           \A r \in MemSlot \ {s} : items'[r] = items[r]
    PROVE  OnlyAbout(t) /\ code'[t] = ORIGIN
<1>1. code[t] = s /\ using[s] /\ addr[s] = t /\ origin[s] = ORIGIN
  BY MemOfIsCode
<1>2. \A u \in Target \ {t} : code'[u] = code[u] /\ (code[u] # ORIGIN => code[u] # s /\ code[u] \in MemSlot)
  BY <1>1, SlotIsMine DEF GiveBack, Uninstall, Types
<1>3. code'[t] = ORIGIN /\ type' = type
  BY <1>1 DEF GiveBack, Uninstall, Types
<1> QED BY <1>2, <1>3 DEF OnlyAbout

LEMMA UnhookKeepsClaims ==
    ASSUME Use = {}, Types, CodeMatchesTable, ClaimsAreChains,
           NEW f \in Func, NEW m \in Module, unhook(f, m)
    PROVE  ClaimsAreChains'
<1>1. PICK s \in MemSlot : IsMemOf(s, f) /\ type[s] = "INLINE" /\ GiveBack(s, f)
  BY DEF unhook
<1>2. f \in Target /\ items' = items
  BY DEF unhook, Target
<1>3. code[f] = s
  BY <1>1, <1>2, MemOfIsCode
<1>4. \A x \in Item : <<f, x>> \notin claims
  BY <1>1, <1>2, <1>3 DEF ClaimsAreChains, Holds, Chained
<1>5. \A u \in Target, x \in Item : <<u, x>> \in claims' <=> <<u, x>> \in claims
  BY <1>2, <1>4 DEF unhook
<1>6. OnlyAbout(f) /\ code'[f] = ORIGIN
  BY <1>1, <1>2, GiveBackIsLocal
<1>7. ~Chained(f)'
  BY <1>6 DEF Chained
<1>8. kept' = kept \ {f}
  BY DEF unhook
<1> QED BY <1>2, <1>4, <1>5, <1>6, <1>7, <1>8, FrameClaims DEF Holds

\* What hook_chain_remove leaves, in a chain that holds nothing twice.
LEMMA RemovedOnce ==
    ASSUME Types, ClaimsAreChains, NEW t \in Target, Chained(t), NEW x \in Item
    PROVE  \A i \in ChainOf(t) :
              Without(code[t], t, x)[i] = IF items[code[t]][i] = x THEN NULL ELSE items[code[t]][i]
<1> DEFINE s == code[t]
           first == {i \in ChainOf(t) : items[s][i] = x /\ \A j \in ChainOf(t) : j < i => items[s][j] # x}
<1> TAKE i \in ChainOf(t)
<1>1. Without(s, t, x)[i] = IF i \in first THEN NULL ELSE items[s][i]
  BY ConstantFacts DEF Without
<1>2. ASSUME items[s][i] = x, NEW j \in ChainOf(t), j < i
      PROVE  items[s][j] # x
  <2>1. j # i
    <3>1. i \in Nat /\ j \in Nat
      BY <1>2, ConstantFacts DEF ChainOf, ChainLen
    <3> QED BY <1>2, <3>1
  <2>2. x # NULL
    BY ConstantFacts
  <2> QED BY <1>2, <2>1, <2>2 DEF ClaimsAreChains, NoTwice
<1>3. i \in first <=> items[s][i] = x
  BY <1>2
<1> QED BY <1>1, <1>3

LEMMA UnwrapKeepsClaims ==
    ASSUME Use = {}, Types, CodeMatchesTable, ClaimsAreChains,
           NEW t \in Target, NEW x \in Item, NEW remove \in BOOLEAN,
           Unwraps(t, x, remove)
    PROVE  ClaimsAreChains'
<1>1. PICK s \in MemSlot :
         /\ IsMemOf(s, t)
         /\ items' = [items EXCEPT ![s] = Without(s, t, x)]
         /\ \/ remove /\ GiveBack(s, t) /\ \A i \in ChainOf(t) : Without(s, t, x)[i] = NULL
            \/ UNCHANGED <<code, using, addr, type, origin>>
  BY DEF Unwraps, Unwrap
<1>2. code[t] = s /\ s # ORIGIN
  BY <1>1, MemOfIsCode
<1>3. Chained(t)
  BY DEF Unwraps, Unwrappable, ClaimsAreChains, Holds
<1>4. \A i \in ChainOf(t) : Without(s, t, x)[i] = IF items[s][i] = x THEN NULL ELSE items[s][i]
  BY <1>2, <1>3, RemovedOnce
<1>5. items'[s] = Without(s, t, x) /\ \A r \in MemSlot \ {s} : items'[r] = items[r]
  BY <1>1 DEF Types
<1>6. claims' = claims \ {<<t, x>>}
  BY DEF Unwraps, Unwrap
<1>7. /\ \A u \in Target \ {t}, y \in Item : <<u, y>> \in claims' <=> <<u, y>> \in claims
      /\ kept' = IF remove THEN kept \ {t} ELSE kept \cup {t}
  BY <1>6 DEF Unwraps, Unwrap
<1>8. CASE remove /\ GiveBack(s, t) /\ \A i \in ChainOf(t) : Without(s, t, x)[i] = NULL
  <2>1. OnlyAbout(t) /\ code'[t] = ORIGIN
    BY <1>1, <1>5, <1>8, GiveBackIsLocal
  <2>2. ~Chained(t)'
    BY <2>1 DEF Chained
  <2>3. \A y \in Item : <<t, y>> \notin claims'
    BY <1>2, <1>4, <1>6, <1>8, ConstantFacts DEF ClaimsAreChains, Holds
  <2> QED BY <1>7, <1>8, <2>1, <2>2, <2>3, FrameClaims DEF Holds
<1>9. CASE UNCHANGED <<code, using, addr, type, origin>>
  <2>1. OnlyAbout(t)
    BY <1>2, <1>5, <1>9, <1>1, SlotIsMine DEF OnlyAbout, IsMemOf
  <2>2. Chained(t)' /\ code'[t] = s
    BY <1>2, <1>3, <1>9 DEF Chained
  <2>3. \A y \in Item : Holds(t, y)' <=> y # x /\ Holds(t, y)
    BY <1>2, <1>3, <1>4, <1>5, <2>2, ConstantFacts DEF Holds, ChainOf, ChainLen
  <2>4. \A i, j \in ChainOf(t) :
           (items'[code'[t]][i] = items'[code'[t]][j] /\ items'[code'[t]][i] # NULL) => i = j
    BY <1>2, <1>3, <1>4, <1>5, <2>2 DEF ClaimsAreChains, NoTwice
  <2>5. \A y \in Item : <<t, y>> \in claims' <=> Holds(t, y)'
    BY <1>6, <2>3 DEF ClaimsAreChains
  <2> QED BY <1>7, <2>1, <2>2, <2>4, <2>5, FrameClaims
<1> QED BY <1>1, <1>8, <1>9

LEMMA ClaimsInvariant == Use = {} => (Spec => []ClaimsAreChains)
<1> SUFFICES ASSUME Use = {} PROVE Spec => []ClaimsAreChains
  OBVIOUS
<1>1. Init => ClaimsAreChains
  BY DEF Init, ClaimsAreChains, NoTwice, Holds, Chained
<1>2. Types /\ CodeMatchesTable /\ ClaimsAreChains /\ [Next]_vars => ClaimsAreChains'
  <2> SUFFICES ASSUME Types, CodeMatchesTable, ClaimsAreChains, [Next]_vars
               PROVE  ClaimsAreChains'
    OBVIOUS
  <2>1. CASE UNCHANGED vars
    BY <2>1 DEF vars, mem, ClaimsAreChains, NoTwice, Holds, Chained, ChainOf, ChainLen
  <2> QED BY <2>1, NextCases, HookKeepsClaims, UnhookKeepsClaims, WrapKeepsClaims,
             WrapMoreKeepsClaims, UnwrapKeepsClaims
<1> QED BY <1>1, <1>2, TypesInvariant, CodeAndTableAgree, PTL DEF Spec

\* For every number of modules, targets, slots and chain entries: as long as the
\* callers keep to the rules, a call of a target runs each callback that is
\* wrapped there exactly once and no other.
THEOREM ClaimsRun == Use = {} => (Spec => []ClaimedItemsRunOnce /\ []OnlyClaimedItemsRun)
<1>1. Types /\ ClaimsAreChains => ClaimedItemsRunOnce
  <2> SUFFICES ASSUME Types, ClaimsAreChains, NEW c \in claims PROVE Runs(c[1], c[2]) = 1
    BY DEF ClaimedItemsRunOnce
  <2>1. PICK t \in Target, x \in Item : c = <<t, x>>
    BY DEF Types
  <2>2. Chained(t) /\ x # NULL
    BY <2>1, ConstantFacts DEF ClaimsAreChains, Holds
  <2>3. PICK i \in ChainOf(t) : items[code[t]][i] = x
    BY <2>1 DEF ClaimsAreChains, Holds
  <2>4. {j \in ChainOf(t) : items[code[t]][j] = x} = {i}
    BY <2>2, <2>3 DEF ClaimsAreChains, NoTwice
  <2> QED BY <2>1, <2>2, <2>4, FS_Singleton DEF Runs, Chained
<1>2. Types /\ ClaimsAreChains => OnlyClaimedItemsRun
  <2> SUFFICES ASSUME Types, ClaimsAreChains, NEW t \in Target, NEW x \in Item, Runs(t, x) > 0
               PROVE  <<t, x>> \in claims
    BY DEF OnlyClaimedItemsRun
  <2>1. Chained(t)
    BY DEF Runs, Chained
  <2>2. {i \in ChainOf(t) : items[code[t]][i] = x} # {}
    BY <2>1, FS_EmptySet DEF Runs, Chained
  <2> QED BY <2>1, <2>2 DEF ClaimsAreChains, Holds
<1> QED BY <1>1, <1>2, ClaimsInvariant, TypesInvariant, PTL
-----------------------------------------------------------------------------
(* What is hooked with a chain holds a callback, or was asked to be kept *)

\* A call about t: of the other targets only the claims may have grown.
LEMMA FrameRestores ==
    ASSUME Types, LastUnwrapRestores, NEW t \in Target, OnlyAbout(t),
           \A u \in Target \ {t}, x \in Item : <<u, x>> \in claims => <<u, x>> \in claims',
           \A u \in Target \ {t} : u \in kept => u \in kept',
           (Chained(t)' /\ t \notin kept') => \E x \in Item : <<t, x>> \in claims'
    PROVE  LastUnwrapRestores'
<1> SUFFICES ASSUME NEW u \in Target, Chained(u)', u \notin kept'
             PROVE  \E x \in Item : <<u, x>> \in claims'
  BY DEF LastUnwrapRestores, Chained
<1>1. CASE u = t
  BY <1>1
<1>2. CASE u # t
  <2>1. Chained(u) /\ u \notin kept
    BY <1>2 DEF OnlyAbout, Chained
  <2> QED BY <1>2, <2>1 DEF LastUnwrapRestores, Chained
<1> QED BY <1>1, <1>2

\* An unwrap that does not give the slot back leaves a callback in it, or was
\* told to.
LEMMA UnwrapRestores ==
    ASSUME Types, CodeMatchesTable, ClaimsAreChains, ClaimsAreChains', LastUnwrapRestores,
           NEW t \in Target, NEW x \in Item, NEW remove \in BOOLEAN,
           Unwraps(t, x, remove)
    PROVE  LastUnwrapRestores'
<1>1. PICK s \in MemSlot : IsMemOf(s, t) /\ Unwrap(s, t, x, remove)
  BY DEF Unwraps
<1>2. code[t] = s
  BY <1>1, MemOfIsCode
<1>3. items'[s] = Without(s, t, x) /\ \A r \in MemSlot \ {s} : items'[r] = items[r]
  BY <1>1 DEF Types, Unwrap
<1>4. /\ \A u \in Target \ {t}, y \in Item : <<u, y>> \in claims => <<u, y>> \in claims'
      /\ kept' = IF remove THEN kept \ {t} ELSE kept \cup {t}
  BY <1>1 DEF Unwrap
<1>5. CASE remove /\ \A i \in ChainOf(t) : Without(s, t, x)[i] = NULL
  <2>1. GiveBack(s, t)
    BY <1>1, <1>5 DEF Unwrap
  <2>2. OnlyAbout(t) /\ code'[t] = ORIGIN
    BY <1>1, <1>3, <2>1, GiveBackIsLocal
  <2> QED BY <1>4, <2>2, FrameRestores DEF Chained
<1>6. CASE ~(remove /\ \A i \in ChainOf(t) : Without(s, t, x)[i] = NULL)
  <2>1. UNCHANGED <<code, using, addr, type, origin>>
    BY <1>1, <1>6 DEF Unwrap
  <2>2. OnlyAbout(t)
    BY <1>1, <1>2, <1>3, <2>1, SlotIsMine DEF OnlyAbout, IsMemOf
  <2>3. ASSUME remove, Chained(t)' PROVE \E y \in Item : <<t, y>> \in claims'
    <3>1. PICK i \in ChainOf(t) : Without(s, t, x)[i] # NULL
      BY <1>6, <2>3
    <3>2. Without(s, t, x) \in [ChainSlot -> Item \cup {NULL}] /\ i \in ChainSlot
      BY ConstantFacts DEF Without, Types
    <3>3. PICK y \in Item : items'[s][i] = y
      BY <1>3, <3>1, <3>2
    <3>4. \E k \in ChainOf(t) : items'[s][k] = y
      BY <3>3
    <3>5. ChainOf(t)' = ChainOf(t) /\ code'[t] = s
      BY <1>2, <2>1 DEF ChainOf, ChainLen
    <3>6. Holds(t, y)'
      BY <2>3, <3>4, <3>5 DEF Holds
    <3>7. <<t, y>> \in claims'
      BY <3>6 DEF ClaimsAreChains
    <3> QED BY <3>7
  <2>4. CASE remove
    BY <1>4, <2>2, <2>3, <2>4, FrameRestores
  <2>5. CASE ~remove
    BY <1>4, <2>2, <2>5, FrameRestores
  <2> QED BY <2>4, <2>5
<1> QED BY <1>5, <1>6

\* One step keeps it; the claims are the chains before and after.
LEMMA RestoreStep ==
    ASSUME Use = {}, Types, CodeMatchesTable, ClaimsAreChains, ClaimsAreChains',
           LastUnwrapRestores, [Next]_vars
    PROVE  LastUnwrapRestores'
<1>1. CASE UNCHANGED vars
  BY <1>1 DEF vars, mem, LastUnwrapRestores
<1>2. ASSUME NEW f \in Func, hook(f) PROVE LastUnwrapRestores'
  <2>1. PICK s \in MemSlot : TakeSlot(s, f, "INLINE", EmptyChain) /\ Install(s, f)
    BY <1>2 DEF hook
  <2>2. /\ f \in Target /\ "INLINE" \in HookType /\ ~HasMem(f)
        /\ claims' = claims /\ kept' = kept
    BY <1>2 DEF hook, Target, HookType
  <2>3. OnlyAbout(f) /\ code'[f] = s /\ type'[s] = "INLINE"
    BY <2>1, <2>2, TakeKeepsClaims
  <2> QED BY <2>2, <2>3, FrameRestores DEF Chained
<1>3. ASSUME NEW f \in Func, NEW m \in Module, unhook(f, m) PROVE LastUnwrapRestores'
  <2>1. PICK s \in MemSlot : IsMemOf(s, f) /\ GiveBack(s, f)
    BY <1>3 DEF unhook
  <2>2. f \in Target /\ items' = items
    BY <1>3 DEF unhook, Target
  <2>3. OnlyAbout(f) /\ code'[f] = ORIGIN
    BY <2>1, <2>2, GiveBackIsLocal
  <2>4. /\ \A u \in Target \ {f}, x \in Item : <<u, x>> \in claims => <<u, x>> \in claims'
        /\ kept' = kept \ {f}
    BY <1>3 DEF unhook
  <2> QED BY <2>2, <2>3, <2>4, FrameRestores DEF Chained
<1>4. ASSUME NEW t \in Target, NEW x \in Item, hook_wrap(t, x) PROVE LastUnwrapRestores'
  <2> DEFINE kind == IF t \in Pointer THEN "FUNCTION_POINTER_CHAIN" ELSE "INLINE_CHAIN"
             row == [EmptyChain EXCEPT ![0] = x]
  <2>1. PICK s \in MemSlot : TakeSlot(s, t, kind, row) /\ Install(s, t)
    BY <1>4 DEF hook_wrap
  <2>2. /\ kind \in HookType /\ ~HasMem(t)
        /\ claims' = claims \cup {<<t, x>>} /\ kept' = kept
    BY <1>4 DEF hook_wrap, HookType
  <2> HIDE DEF kind, row
  <2>3. OnlyAbout(t)
    BY <2>1, <2>2, TakeKeepsClaims
  <2> QED BY <2>2, <2>3, FrameRestores
<1>5. ASSUME NEW t \in Target, NEW x \in Item, hook_wrap_more(t, x) PROVE LastUnwrapRestores'
  BY <1>5 DEF hook_wrap_more, LastUnwrapRestores
<1> QED BY <1>1, <1>2, <1>3, <1>4, <1>5, UnwrapRestores, NextCases

\* For every number of modules, targets, slots and chain entries: a target whose
\* last callback is unwrapped has its own code back, unless remove = 0 kept it.
THEOREM Restores == Use = {} => (Spec => []LastUnwrapRestores)
<1> SUFFICES ASSUME Use = {} PROVE Spec => []LastUnwrapRestores
  OBVIOUS
<1>1. Init => LastUnwrapRestores
  BY DEF Init, LastUnwrapRestores
<1>2. /\ Types /\ CodeMatchesTable /\ ClaimsAreChains /\ ClaimsAreChains'
      /\ LastUnwrapRestores /\ [Next]_vars
      => LastUnwrapRestores'
  BY RestoreStep
<1>3. Spec => []ClaimsAreChains
  BY ClaimsInvariant
<1> QED BY <1>1, <1>2, <1>3, TypesInvariant, CodeAndTableAgree, PTL DEF Spec


-----------------------------------------------------------------------------
(***************************************************************************)
(* HookChain: what the transits of an installed chain find and run, for    *)
(* every number of slots, callbacks and processes, when add and remove     *)
(* calls do not overlap each other.  Transits overlap them and each other  *)
(* at will.                                                                *)
(*                                                                         *)
(* The inductive invariant has two halves.  ChainInv is about the chain    *)
(* and its editor: which fields of which slot are in place at each store.  *)
(* RunInv is about the transits: by the position of an item that stays,    *)
(* each transit has run exactly the callbacks it has passed.               *)
(***************************************************************************)
Maybe == Callback \cup {NONE}
Building == {"add_udata", "add_before", "add_after", "max", "ready"}
Clearing == {"rem_udata", "rem_before", "rem_after", "empty"}
EditPc == {"idle", "add", "busy", "remove", "rbusy"} \cup Building \cup Clearing
TransitPc == {"idle", "before", "before_func", "origin", "after", "after_func", "done"}

TransitType ==
    [pc : TransitPc, i : Int, func : Maybe, before : [Callback -> Nat], after : [Callback -> Nat],
     strange : SUBSET Callback, stable : SUBSET Callback, gone : SUBSET Callback]

\* The chain, its calls and the history of the transits.
ChainTypes ==
    /\ states \in [Slot -> {"EMPTY", "BUSY", "READY"}]
    /\ befores \in [Slot -> Maybe] /\ afters \in [Slot -> Maybe] /\ udata \in [Slot -> Maybe]
    /\ chain_items_max \in 0 .. CHAIN_SLOTS
    /\ edit \in [Callback -> [pc : EditPc, i : 0 .. CHAIN_SLOTS]]
    /\ added \in SUBSET Callback

-----------------------------------------------------------------------------
(* The chain and its editor *)

Editing(x) == edit[x].pc # "idle"

OneEditor == \A x, y \in Callback : Editing(x) /\ Editing(y) => x = y

\* pc's at which the editor's slot holds its udata, before or after, or none.
HasUdata == {"add_before", "add_after", "max", "ready", "rbusy", "rem_udata"}
HasBeforeSet == {"add_after", "max", "ready", "rbusy", "rem_udata", "rem_before"}
HasAfterSet == {"max", "ready", "rbusy", "rem_udata", "rem_before", "rem_after"}

\* What a call in progress has stored so far.
Progress(x) ==
    LET i == edit[x].i
        at == edit[x].pc IN
    /\ Editing(x) => x \notin added
    /\ at \notin {"idle", "add", "remove"} => i \in Slot
    /\ at = "busy" => states[i] = "EMPTY"
    /\ at = "rbusy" => states[i] = "READY"
    /\ at \in Building \cup Clearing =>
          /\ states[i] = "BUSY"
          /\ udata[i] = IF at \in HasUdata THEN x ELSE NONE
          /\ befores[i] = IF at \in HasBeforeSet THEN BeforeOf(x) ELSE NONE
          /\ afters[i] = IF at \in HasAfterSet THEN AfterOf(x) ELSE NONE
    /\ at = "ready" => i < chain_items_max
    /\ at = "rbusy" => udata[i] = x
    /\ at = "remove" => \E j \in Slot : i <= j /\ states[j] = "READY" /\ udata[j] = x

SlotWhole(i) ==
    /\ states[i] = "READY" =>
          /\ i < chain_items_max
          /\ udata[i] \in Callback
          /\ befores[i] = BeforeOf(udata[i]) /\ afters[i] = AfterOf(udata[i])
    /\ states[i] = "EMPTY" => udata[i] = NONE /\ befores[i] = NONE /\ afters[i] = NONE
    /\ states[i] = "BUSY" =>
          \E x \in Callback : edit[x].pc \in Building \cup Clearing /\ edit[x].i = i

\* An item is stored while it is added or one of its calls is at work on it.
Stored(x) == x \in added \/ edit[x].pc \in HasUdata \cup {"remove"}

ChainInv ==
    /\ ChainTypes
    /\ OneEditor
    /\ \A x \in Callback : Progress(x)
    /\ \A i \in Slot : SlotWhole(i)
    /\ \A i \in Slot : udata[i] # NONE => Stored(udata[i])
    /\ \A x \in added : \E i \in Slot : states[i] = "READY" /\ udata[i] = x
    /\ \A i, j \in Slot : udata[i] = udata[j] /\ udata[i] # NONE => i = j

-----------------------------------------------------------------------------
(* The transits *)

\* Where a transit stands: its slot is one of the chain where it reads one.
Standing(p) ==
    LET t == transit[p] IN
    /\ t.pc = "before" => t.i \in 0 .. CHAIN_SLOTS
    /\ t.pc \in {"before_func", "after_func"} => t.i \in Slot
    /\ t.pc = "after" => t.i \in -1 .. CHAIN_SLOTS - 1
    /\ t.pc \notin {"before_func", "after_func"} => t.func = NONE

\* The callbacks of item x, in slot j since the transit began, that it has run.
RunSoFar(p, x, j) ==
    LET t == transit[p] IN
    /\ x \notin t.strange
    /\ t.before[x] = IF /\ x \in HasBefore
                        /\ t.pc \in {"before", "before_func"} => j < t.i
                     THEN 1 ELSE 0
    /\ t.after[x] = IF /\ x \in HasAfter
                       /\ t.pc \notin {"before", "before_func", "origin"}
                       /\ t.pc \in {"after", "after_func"} => j > t.i
                    THEN 1 ELSE 0
    /\ t.func = x => t.i = j
    /\ t.i = j /\ t.func # NONE => t.func = x

TransitOk(p) ==
    LET t == transit[p] IN
    /\ t.stable \subseteq added
    /\ t.pc # "idle" => \A x \in t.stable, j \in Slot : udata[j] = x => RunSoFar(p, x, j)
    /\ \A x \in t.gone :
          /\ x \notin added /\ ~Editing(x)
          /\ t.before[x] = 0 /\ t.after[x] = 0 /\ t.func # x

RunInv ==
    /\ transit \in [Process -> TransitType]
    /\ \A p \in Process : Standing(p) /\ TransitOk(p)

-----------------------------------------------------------------------------
LEMMA ChainConstants ==
    /\ CHAIN_SLOTS \in Nat \ {0}
    /\ HasBefore \subseteq Callback /\ HasAfter \subseteq Callback
    /\ HasBefore \cup HasAfter = Callback
    /\ NONE \notin Callback
BY ChainAssumption

LEMMA FunctionsOf == \A x \in Callback : BeforeOf(x) \in {x, NONE} /\ AfterOf(x) \in {x, NONE}
BY DEF BeforeOf, AfterOf

\* While the other calls do nothing the editor alone decides what its slot holds.
LEMMA Alone ==
    ASSUME ChainInv, NEW x \in Callback, Editing(x), NEW y \in Callback, y # x
    PROVE  edit[y].pc = "idle"
BY DEF ChainInv, OneEditor, Editing

\* SameAt finds an item exactly where it is stored and READY.
LEMMA SameIsStored ==
    ASSUME ChainInv, NEW x \in Callback, NEW i \in Slot, states[i] = "READY"
    PROVE  SameAt(x, i) <=> udata[i] = x
BY ChainConstants DEF ChainInv, SlotWhole, SameAt, BeforeOf, AfterOf

LEMMA AddStartKeeps ==
    ASSUME Serialized, ChainInv, NEW x \in Callback, AddStart(x)
    PROVE  ChainInv'
<1>1. ChainTypes'
  BY ChainConstants DEF AddStart, ChainInv, ChainTypes, EditPc, chain
<1>2. OneEditor'
  BY DEF AddStart, OneEditor, Editing, MayStart
<1>3. \A y \in Callback : Progress(y)'
  BY DEF AddStart, Progress, Editing, MayStart, Building, Clearing
<1>4. \A i \in Slot : SlotWhole(i)'
  BY DEF AddStart, ChainInv, SlotWhole, MayStart, Building, Clearing, chain
<1>5. \A i \in Slot : udata'[i] # NONE => Stored(udata[i])'
  BY DEF AddStart, ChainInv, Stored, MayStart, HasUdata, chain
<1>6. \A y \in added' : \E i \in Slot : states'[i] = "READY" /\ udata'[i] = y
  BY DEF AddStart, ChainInv, chain
<1>7. \A i, j \in Slot : udata'[i] = udata'[j] /\ udata'[i] # NONE => i = j
  BY DEF AddStart, ChainInv, chain
<1>8. QED
  BY <1>1, <1>2, <1>3, <1>4, <1>5, <1>6, <1>7 DEF ChainInv

LEMMA AddScanKeeps ==
    ASSUME Serialized, ChainInv, NEW x \in Callback, AddScan(x)
    PROVE  ChainInv'
<1>1. ChainTypes'
  <2>1. edit[x] \in [pc : EditPc, i : 0 .. CHAIN_SLOTS] /\ edit \in [Callback -> [pc : EditPc, i : 0 .. CHAIN_SLOTS]]
    BY DEF ChainInv, ChainTypes
  <2>2. edit[x].i \in Slot => edit[x].i + 1 \in 0 .. CHAIN_SLOTS
    BY ChainConstants DEF Slot
  <2>3. edit'[x] \in [pc : EditPc, i : 0 .. CHAIN_SLOTS]
    BY <2>1, <2>2, ChainConstants DEF AddScan, GoTo, IdleOp, EditPc
  <2>4. edit' = [edit EXCEPT ![x] = edit'[x]]
    BY <2>1 DEF AddScan, GoTo
  <2>5. QED
    BY <2>3, <2>4 DEF AddScan, ChainInv, ChainTypes, chain
<1>2. OneEditor'
  BY ChainConstants, FunctionsOf, Alone, SameIsStored
     DEF AddScan, ChainInv, ChainTypes, Stored, OneEditor, Editing, GoTo
<1>3. \A y \in Callback : Progress(y)'
  <2>1. \A y \in Callback : y # x => edit'[y] = edit[y] /\ edit[y].pc = "idle"
    BY Alone DEF AddScan, ChainInv, ChainTypes, GoTo, Editing
  <2>2. UNCHANGED <<states, befores, afters, udata, chain_items_max, added>>
    BY DEF AddScan, chain
  <2>3. edit'[x].pc \in {"idle", "add", "busy"} /\ x \notin added
    BY DEF AddScan, ChainInv, ChainTypes, GoTo, IdleOp, Progress, Editing
  <2>4. edit'[x].pc = "busy" => edit'[x].i \in Slot /\ states[edit'[x].i] = "EMPTY"
    BY DEF AddScan, ChainInv, ChainTypes, GoTo, IdleOp
  <2>5. QED
    BY <2>1, <2>2, <2>3, <2>4 DEF Progress, Editing, Building, Clearing
<1>4. \A i \in Slot : SlotWhole(i)'
  BY ChainConstants, FunctionsOf, Alone, SameIsStored DEF AddScan, ChainInv, ChainTypes, Progress, SlotWhole, Stored, OneEditor, Editing, GoTo, MayStart, IdleOp, Slot, Maybe, EditPc, Building, Clearing, HasUdata, HasBeforeSet, HasAfterSet, chain
<1>5. \A i \in Slot : udata'[i] # NONE => Stored(udata[i])'
  BY ChainConstants, FunctionsOf, Alone, SameIsStored DEF AddScan, ChainInv, ChainTypes, Progress, SlotWhole, Stored, OneEditor, Editing, GoTo, MayStart, IdleOp, Slot, Maybe, EditPc, Building, Clearing, HasUdata, HasBeforeSet, HasAfterSet, chain
<1>6. \A y \in added' : \E i \in Slot : states'[i] = "READY" /\ udata'[i] = y
  BY DEF AddScan, ChainInv, chain
<1>7. \A i, j \in Slot : udata'[i] = udata'[j] /\ udata'[i] # NONE => i = j
  BY DEF AddScan, ChainInv, chain
<1>8. QED
  BY <1>1, <1>2, <1>3, <1>4, <1>5, <1>6, <1>7 DEF ChainInv

LEMMA AddBusyKeeps ==
    ASSUME Serialized, ChainInv, NEW x \in Callback, AddBusy(x)
    PROVE  ChainInv'
<1>1. ChainTypes'
  <2>1. edit' \in [Callback -> [pc : EditPc, i : 0 .. CHAIN_SLOTS]]
    BY DEF AddBusy, ChainInv, ChainTypes, GoTo, EditPc, Building
  <2>2. edit[x].i \in Int /\ edit[x].pc \in EditPc
    BY DEF ChainInv, ChainTypes
  <2>3. QED
    BY <2>1 DEF AddBusy, ChainInv, ChainTypes
<1>2. OneEditor'
  BY DEF AddBusy, ChainInv, OneEditor, Editing, GoTo
<1>3. \A y \in Callback : Progress(y)'
  BY DEF AddBusy, ChainInv, ChainTypes, Progress, SlotWhole, OneEditor, Editing, GoTo, HasUdata,
         HasBeforeSet, HasAfterSet
<1>4. \A i \in Slot : SlotWhole(i)'
  BY DEF AddBusy, ChainInv, ChainTypes, SlotWhole, GoTo, Building
<1>5. \A i \in Slot : udata'[i] # NONE => Stored(udata[i])'
  BY DEF AddBusy, ChainInv, Stored, GoTo, HasUdata
<1>6. \A y \in added' : \E i \in Slot : states'[i] = "READY" /\ udata'[i] = y
  BY FunctionsOf DEF AddBusy, ChainInv, Progress
<1>7. \A i, j \in Slot : udata'[i] = udata'[j] /\ udata'[i] # NONE => i = j
  BY DEF AddBusy, ChainInv
<1>8. QED
  BY <1>1, <1>2, <1>3, <1>4, <1>5, <1>6, <1>7 DEF ChainInv

\* A store into a field of the editor's slot, or into the bound.
LEMMA StoreKeeps ==
    ASSUME ChainInv, NEW x \in Callback, NEW i \in Slot, i = edit[x].i,
           edit[x].pc \in Building \cup Clearing,
           NEW at \in Building \cup Clearing, edit' = [edit EXCEPT ![x].pc = at],
           UNCHANGED <<states, added>>,
           udata' = [udata EXCEPT ![i] = IF at \in HasUdata THEN x ELSE NONE],
           befores' = [befores EXCEPT ![i] = IF at \in HasBeforeSet THEN BeforeOf(x) ELSE NONE],
           afters' = [afters EXCEPT ![i] = IF at \in HasAfterSet THEN AfterOf(x) ELSE NONE],
           chain_items_max' \in 0 .. CHAIN_SLOTS, chain_items_max' >= chain_items_max,
           at = "ready" => i < chain_items_max'
    PROVE  ChainInv'
<1> USE ChainConstants, FunctionsOf
<1>1. Editing(x) /\ x \notin added /\ states[i] = "BUSY"
  BY DEF ChainInv, Progress, Editing, Building, Clearing
<1>2. \A y \in Callback : y # x => edit'[y] = edit[y] /\ edit[y].pc = "idle"
  BY <1>1, Alone DEF ChainInv, ChainTypes
<1>3. edit'[x].pc = at /\ edit'[x].i = i
  BY DEF ChainInv, ChainTypes
<1>4. ChainTypes'
  <2>1. edit' \in [Callback -> [pc : EditPc, i : 0 .. CHAIN_SLOTS]]
    BY DEF ChainInv, ChainTypes, EditPc
  <2>2. QED
    BY <2>1 DEF ChainInv, ChainTypes, Maybe
<1>5. OneEditor'
  BY <1>2 DEF OneEditor, Editing
<1>6. /\ udata'[i] = IF at \in HasUdata THEN x ELSE NONE
      /\ befores'[i] = IF at \in HasBeforeSet THEN BeforeOf(x) ELSE NONE
      /\ afters'[i] = IF at \in HasAfterSet THEN AfterOf(x) ELSE NONE
      /\ \A j \in Slot : j # i => /\ udata'[j] = udata[j] /\ befores'[j] = befores[j]
                                 /\ afters'[j] = afters[j]
  BY DEF ChainInv, ChainTypes
<1>7. ASSUME NEW y \in Callback PROVE Progress(y)'
  <2>1. CASE y = x
    BY <1>1, <1>3, <1>6, <2>1 DEF Progress, Building, Clearing
  <2>2. CASE y # x
    BY <1>2, <2>2 DEF Progress, Editing, Building, Clearing
  <2>3. QED
    BY <2>1, <2>2
<1>8. ASSUME NEW j \in Slot PROVE SlotWhole(j)'
  <2>1. CASE j = i
    BY <1>1, <1>3, <2>1 DEF SlotWhole
  <2>2. CASE j # i
    <3>1. states[j] = "BUSY" => FALSE
      BY <1>2, <2>2 DEF ChainInv, SlotWhole, Building, Clearing
    <3>2. QED
      BY <2>2 DEF ChainInv, ChainTypes, SlotWhole, Slot
  <2>3. QED
    BY <2>1, <2>2
<1>9. ASSUME NEW j \in Slot, udata'[j] # NONE PROVE Stored(udata[j])'
  <2>1. CASE j = i
    BY <1>3, <1>6, <1>9, <2>1 DEF Stored
  <2>2. CASE j # i
    <3>1. udata[j] # x
      BY <1>1, <2>2 DEF ChainInv, Progress, Stored, Building, Clearing
    <3>2. QED
      BY <1>9, <3>1 DEF ChainInv, ChainTypes, Stored
  <2>3. QED
    BY <2>1, <2>2
<1>10. ASSUME NEW y \in added' PROVE \E j \in Slot : states'[j] = "READY" /\ udata'[j] = y
  BY <1>1, <1>6 DEF ChainInv
<1>11. ASSUME NEW j \in Slot, NEW k \in Slot, udata'[j] = udata'[k], udata'[j] # NONE PROVE j = k
  <2>1. \A l \in Slot : l # i => udata[l] # x
    BY <1>1 DEF ChainInv, Progress, Stored, Building, Clearing
  <2>2. QED
    BY <1>6, <1>11, <2>1 DEF ChainInv
<1>12. QED
  BY <1>4, <1>5, <1>7, <1>8, <1>9, <1>10, <1>11 DEF ChainInv

LEMMA AddFieldsKeeps ==
    ASSUME Serialized, ChainInv, NEW x \in Callback, AddFields(x)
    PROVE  ChainInv'
<1> USE ChainConstants
<1> DEFINE i == edit[x].i
<1>1. edit[x].pc \in Building \cup Clearing
  BY DEF AddFields, Building, Clearing
<1>2. /\ i \in Slot /\ chain_items_max \in 0 .. CHAIN_SLOTS
      /\ udata \in [Slot -> Maybe] /\ befores \in [Slot -> Maybe] /\ afters \in [Slot -> Maybe]
      /\ udata[i] = IF edit[x].pc \in HasUdata THEN x ELSE NONE
      /\ befores[i] = IF edit[x].pc \in HasBeforeSet THEN BeforeOf(x) ELSE NONE
      /\ afters[i] = IF edit[x].pc \in HasAfterSet THEN AfterOf(x) ELSE NONE
  BY <1>1 DEF ChainInv, ChainTypes, Progress, Building, Clearing
<1>3. UNCHANGED <<states, added>>
  BY DEF AddFields
<1>4. CASE edit[x].pc = "add_udata"
  <2>1. /\ edit' = [edit EXCEPT ![x].pc = "add_before"] /\ "add_before" \in Building \cup Clearing
        /\ udata' = [udata EXCEPT ![i] = IF "add_before" \in HasUdata THEN x ELSE NONE]
        /\ befores' = [befores EXCEPT ![i] = IF "add_before" \in HasBeforeSet THEN BeforeOf(x) ELSE NONE]
        /\ afters' = [afters EXCEPT ![i] = IF "add_before" \in HasAfterSet THEN AfterOf(x) ELSE NONE]
    BY <1>2, <1>4 DEF AddFields, GoTo, Building, HasUdata, HasBeforeSet, HasAfterSet
  <2>2. /\ chain_items_max' \in 0 .. CHAIN_SLOTS /\ chain_items_max' >= chain_items_max
        /\ "add_before" = "ready" => i < chain_items_max'
    BY <1>2, <1>4 DEF AddFields, Slot
  <2>3. QED
    BY <1>1, <1>2, <1>3, <2>1, <2>2, StoreKeeps
<1>5. CASE edit[x].pc = "add_before"
  <2>1. /\ edit' = [edit EXCEPT ![x].pc = "add_after"] /\ "add_after" \in Building \cup Clearing
        /\ udata' = [udata EXCEPT ![i] = IF "add_after" \in HasUdata THEN x ELSE NONE]
        /\ befores' = [befores EXCEPT ![i] = IF "add_after" \in HasBeforeSet THEN BeforeOf(x) ELSE NONE]
        /\ afters' = [afters EXCEPT ![i] = IF "add_after" \in HasAfterSet THEN AfterOf(x) ELSE NONE]
    BY <1>2, <1>5 DEF AddFields, GoTo, Building, HasUdata, HasBeforeSet, HasAfterSet
  <2>2. /\ chain_items_max' \in 0 .. CHAIN_SLOTS /\ chain_items_max' >= chain_items_max
        /\ "add_after" = "ready" => i < chain_items_max'
    BY <1>2, <1>5 DEF AddFields, Slot
  <2>3. QED
    BY <1>1, <1>2, <1>3, <2>1, <2>2, StoreKeeps
<1>6. CASE edit[x].pc = "add_after"
  <2>1. /\ edit' = [edit EXCEPT ![x].pc = "max"] /\ "max" \in Building \cup Clearing
        /\ udata' = [udata EXCEPT ![i] = IF "max" \in HasUdata THEN x ELSE NONE]
        /\ befores' = [befores EXCEPT ![i] = IF "max" \in HasBeforeSet THEN BeforeOf(x) ELSE NONE]
        /\ afters' = [afters EXCEPT ![i] = IF "max" \in HasAfterSet THEN AfterOf(x) ELSE NONE]
    BY <1>2, <1>6 DEF AddFields, GoTo, Building, HasUdata, HasBeforeSet, HasAfterSet
  <2>2. /\ chain_items_max' \in 0 .. CHAIN_SLOTS /\ chain_items_max' >= chain_items_max
        /\ "max" = "ready" => i < chain_items_max'
    BY <1>2, <1>6 DEF AddFields, Slot
  <2>3. QED
    BY <1>1, <1>2, <1>3, <2>1, <2>2, StoreKeeps
<1>7. CASE edit[x].pc = "max"
  <2>1. /\ edit' = [edit EXCEPT ![x].pc = "ready"] /\ "ready" \in Building \cup Clearing
        /\ udata' = [udata EXCEPT ![i] = IF "ready" \in HasUdata THEN x ELSE NONE]
        /\ befores' = [befores EXCEPT ![i] = IF "ready" \in HasBeforeSet THEN BeforeOf(x) ELSE NONE]
        /\ afters' = [afters EXCEPT ![i] = IF "ready" \in HasAfterSet THEN AfterOf(x) ELSE NONE]
    BY <1>2, <1>7 DEF AddFields, GoTo, Building, HasUdata, HasBeforeSet, HasAfterSet
  <2>2. /\ chain_items_max' \in 0 .. CHAIN_SLOTS /\ chain_items_max' >= chain_items_max
        /\ "ready" = "ready" => i < chain_items_max'
    BY <1>2, <1>7 DEF AddFields, Slot
  <2>3. QED
    BY <1>1, <1>2, <1>3, <2>1, <2>2, StoreKeeps
<1>8. QED
  BY <1>4, <1>5, <1>6, <1>7 DEF AddFields

LEMMA AddReadyKeeps ==
    ASSUME Serialized, ChainInv, NEW x \in Callback, AddReady(x)
    PROVE  ChainInv'
<1>1. ChainTypes'
  BY ChainConstants DEF AddReady, ChainInv, ChainTypes, Progress, IdleOp, EditPc
<1>2. OneEditor'
  BY DEF AddReady, ChainInv, OneEditor, Editing
<1>3. \A y \in Callback : Progress(y)'
  BY DEF AddReady, ChainInv, ChainTypes, Progress, OneEditor, Editing, IdleOp, Building, Clearing
<1>4. \A i \in Slot : SlotWhole(i)'
  BY DEF AddReady, ChainInv, ChainTypes, Progress, SlotWhole, Building, HasUdata, HasBeforeSet,
         HasAfterSet
<1>5. \A i \in Slot : udata'[i] # NONE => Stored(udata[i])'
  BY DEF AddReady, ChainInv, Stored
<1>6. \A y \in added' : \E i \in Slot : states'[i] = "READY" /\ udata'[i] = y
  BY DEF AddReady, ChainInv, ChainTypes, Progress, Building, HasUdata
<1>7. \A i, j \in Slot : udata'[i] = udata'[j] /\ udata'[i] # NONE => i = j
  BY DEF AddReady, ChainInv
<1>8. QED
  BY <1>1, <1>2, <1>3, <1>4, <1>5, <1>6, <1>7 DEF ChainInv

LEMMA RemoveStartKeeps ==
    ASSUME Serialized, ChainInv, NEW x \in Callback, RemoveStart(x)
    PROVE  ChainInv'
<1>1. ChainTypes'
  BY ChainConstants DEF RemoveStart, ChainInv, ChainTypes, EditPc, chain
<1>2. OneEditor'
  BY DEF RemoveStart, OneEditor, Editing, MayStart
<1>3. \A y \in Callback : Progress(y)'
  BY DEF RemoveStart, ChainInv, Progress, Editing, Slot, Building, Clearing, chain
<1>4. \A i \in Slot : SlotWhole(i)'
  BY DEF RemoveStart, ChainInv, SlotWhole, MayStart, Building, Clearing, chain
<1>5. \A i \in Slot : udata'[i] # NONE => Stored(udata[i])'
  BY DEF RemoveStart, ChainInv, ChainTypes, Stored, chain
<1>6. \A y \in added' : \E i \in Slot : states'[i] = "READY" /\ udata'[i] = y
  BY DEF RemoveStart, ChainInv, chain
<1>7. \A i, j \in Slot : udata'[i] = udata'[j] /\ udata'[i] # NONE => i = j
  BY DEF RemoveStart, ChainInv, chain
<1>8. QED
  BY <1>1, <1>2, <1>3, <1>4, <1>5, <1>6, <1>7 DEF ChainInv

LEMMA RemoveScanKeeps ==
    ASSUME Serialized, ChainInv, NEW x \in Callback, RemoveScan(x)
    PROVE  ChainInv'
<1>1. ChainTypes'
  <2>1. edit[x] \in [pc : EditPc, i : 0 .. CHAIN_SLOTS] /\ edit \in [Callback -> [pc : EditPc, i : 0 .. CHAIN_SLOTS]]
    BY DEF ChainInv, ChainTypes
  <2>2. edit[x].i \in Slot => edit[x].i + 1 \in 0 .. CHAIN_SLOTS
    BY ChainConstants DEF Slot
  <2>3. edit'[x] \in [pc : EditPc, i : 0 .. CHAIN_SLOTS]
    BY <2>1, <2>2, ChainConstants DEF RemoveScan, GoTo, IdleOp, EditPc
  <2>4. edit' = [edit EXCEPT ![x] = edit'[x]]
    BY <2>1 DEF RemoveScan, GoTo
  <2>5. QED
    BY <2>3, <2>4 DEF RemoveScan, ChainInv, ChainTypes, chain
<1>2. OneEditor'
  BY ChainConstants, FunctionsOf, Alone, SameIsStored DEF RemoveScan, ChainInv, ChainTypes, Progress, SlotWhole, Stored, OneEditor, Editing, GoTo, MayStart, IdleOp, Slot, Maybe, EditPc, Building, Clearing, HasUdata, HasBeforeSet, HasAfterSet, chain
<1>3. \A y \in Callback : Progress(y)'
  BY ChainConstants, FunctionsOf, Alone, SameIsStored DEF RemoveScan, ChainInv, ChainTypes, Progress, SlotWhole, Stored, OneEditor, Editing, GoTo, MayStart, IdleOp, Slot, Maybe, EditPc, Building, Clearing, HasUdata, HasBeforeSet, HasAfterSet, chain
<1>4. \A i \in Slot : SlotWhole(i)'
  BY ChainConstants, FunctionsOf, Alone, SameIsStored DEF RemoveScan, ChainInv, ChainTypes, Progress, SlotWhole, Stored, OneEditor, Editing, GoTo, MayStart, IdleOp, Slot, Maybe, EditPc, Building, Clearing, HasUdata, HasBeforeSet, HasAfterSet, chain
<1>5. \A i \in Slot : udata'[i] # NONE => Stored(udata[i])'
  BY ChainConstants, FunctionsOf, Alone, SameIsStored DEF RemoveScan, ChainInv, ChainTypes, Progress, SlotWhole, Stored, OneEditor, Editing, GoTo, MayStart, IdleOp, Slot, Maybe, EditPc, Building, Clearing, HasUdata, HasBeforeSet, HasAfterSet, chain
<1>6. \A y \in added' : \E i \in Slot : states'[i] = "READY" /\ udata'[i] = y
  BY DEF RemoveScan, ChainInv, chain
<1>7. \A i, j \in Slot : udata'[i] = udata'[j] /\ udata'[i] # NONE => i = j
  BY DEF RemoveScan, ChainInv, chain
<1>8. QED
  BY <1>1, <1>2, <1>3, <1>4, <1>5, <1>6, <1>7 DEF ChainInv

LEMMA RemoveBusyKeeps ==
    ASSUME Serialized, ChainInv, NEW x \in Callback, RemoveBusy(x)
    PROVE  ChainInv'
<1>1. ChainTypes'
  <2>1. edit' \in [Callback -> [pc : EditPc, i : 0 .. CHAIN_SLOTS]]
    BY DEF RemoveBusy, ChainInv, ChainTypes, GoTo, EditPc, Clearing
  <2>2. edit[x].i \in Int /\ edit[x].pc \in EditPc
    BY DEF ChainInv, ChainTypes
  <2>3. QED
    BY <2>1 DEF RemoveBusy, ChainInv, ChainTypes
<1>2. OneEditor'
  BY DEF RemoveBusy, ChainInv, OneEditor, Editing, GoTo
<1>3. \A y \in Callback : Progress(y)'
  BY DEF RemoveBusy, ChainInv, ChainTypes, Progress, SlotWhole, Editing, GoTo, HasUdata,
         HasBeforeSet, HasAfterSet
<1>4. \A i \in Slot : SlotWhole(i)'
  BY DEF RemoveBusy, ChainInv, ChainTypes, SlotWhole, GoTo, Clearing
<1>5. \A i \in Slot : udata'[i] # NONE => Stored(udata[i])'
  BY DEF RemoveBusy, ChainInv, Stored, GoTo, HasUdata
<1>6. \A y \in added' : \E i \in Slot : states'[i] = "READY" /\ udata'[i] = y
  BY DEF RemoveBusy, ChainInv, Progress, Editing
<1>7. \A i, j \in Slot : udata'[i] = udata'[j] /\ udata'[i] # NONE => i = j
  BY DEF RemoveBusy, ChainInv
<1>8. QED
  BY <1>1, <1>2, <1>3, <1>4, <1>5, <1>6, <1>7 DEF ChainInv

LEMMA RemoveFieldsKeeps ==
    ASSUME Serialized, ChainInv, NEW x \in Callback, RemoveFields(x)
    PROVE  ChainInv'
<1> USE ChainConstants
<1> DEFINE i == edit[x].i
<1>1. edit[x].pc \in Building \cup Clearing
  BY DEF RemoveFields, Building, Clearing
<1>2. /\ i \in Slot /\ chain_items_max \in 0 .. CHAIN_SLOTS
      /\ udata \in [Slot -> Maybe] /\ befores \in [Slot -> Maybe] /\ afters \in [Slot -> Maybe]
      /\ udata[i] = IF edit[x].pc \in HasUdata THEN x ELSE NONE
      /\ befores[i] = IF edit[x].pc \in HasBeforeSet THEN BeforeOf(x) ELSE NONE
      /\ afters[i] = IF edit[x].pc \in HasAfterSet THEN AfterOf(x) ELSE NONE
  BY <1>1 DEF ChainInv, ChainTypes, Progress, Building, Clearing
<1>3. UNCHANGED <<states, added>>
  BY DEF RemoveFields
<1>4. CASE edit[x].pc = "rem_udata"
  <2>1. /\ edit' = [edit EXCEPT ![x].pc = "rem_before"] /\ "rem_before" \in Building \cup Clearing
        /\ udata' = [udata EXCEPT ![i] = IF "rem_before" \in HasUdata THEN x ELSE NONE]
        /\ befores' = [befores EXCEPT ![i] = IF "rem_before" \in HasBeforeSet THEN BeforeOf(x) ELSE NONE]
        /\ afters' = [afters EXCEPT ![i] = IF "rem_before" \in HasAfterSet THEN AfterOf(x) ELSE NONE]
    BY <1>2, <1>4 DEF RemoveFields, GoTo, Clearing, HasUdata, HasBeforeSet, HasAfterSet
  <2>2. /\ chain_items_max' \in 0 .. CHAIN_SLOTS /\ chain_items_max' >= chain_items_max
        /\ "rem_before" = "ready" => i < chain_items_max'
    BY <1>2, <1>4 DEF RemoveFields, Slot
  <2>3. QED
    BY <1>1, <1>2, <1>3, <2>1, <2>2, StoreKeeps
<1>5. CASE edit[x].pc = "rem_before"
  <2>1. /\ edit' = [edit EXCEPT ![x].pc = "rem_after"] /\ "rem_after" \in Building \cup Clearing
        /\ udata' = [udata EXCEPT ![i] = IF "rem_after" \in HasUdata THEN x ELSE NONE]
        /\ befores' = [befores EXCEPT ![i] = IF "rem_after" \in HasBeforeSet THEN BeforeOf(x) ELSE NONE]
        /\ afters' = [afters EXCEPT ![i] = IF "rem_after" \in HasAfterSet THEN AfterOf(x) ELSE NONE]
    BY <1>2, <1>5 DEF RemoveFields, GoTo, Clearing, HasUdata, HasBeforeSet, HasAfterSet
  <2>2. /\ chain_items_max' \in 0 .. CHAIN_SLOTS /\ chain_items_max' >= chain_items_max
        /\ "rem_after" = "ready" => i < chain_items_max'
    BY <1>2, <1>5 DEF RemoveFields, Slot
  <2>3. QED
    BY <1>1, <1>2, <1>3, <2>1, <2>2, StoreKeeps
<1>6. CASE edit[x].pc = "rem_after"
  <2>1. /\ edit' = [edit EXCEPT ![x].pc = "empty"] /\ "empty" \in Building \cup Clearing
        /\ udata' = [udata EXCEPT ![i] = IF "empty" \in HasUdata THEN x ELSE NONE]
        /\ befores' = [befores EXCEPT ![i] = IF "empty" \in HasBeforeSet THEN BeforeOf(x) ELSE NONE]
        /\ afters' = [afters EXCEPT ![i] = IF "empty" \in HasAfterSet THEN AfterOf(x) ELSE NONE]
    BY <1>2, <1>6 DEF RemoveFields, GoTo, Clearing, HasUdata, HasBeforeSet, HasAfterSet
  <2>2. /\ chain_items_max' \in 0 .. CHAIN_SLOTS /\ chain_items_max' >= chain_items_max
        /\ "empty" = "ready" => i < chain_items_max'
    BY <1>2, <1>6 DEF RemoveFields, Slot
  <2>3. QED
    BY <1>1, <1>2, <1>3, <2>1, <2>2, StoreKeeps
<1>7. QED
  BY <1>4, <1>5, <1>6 DEF RemoveFields

LEMMA RemoveEmptyKeeps ==
    ASSUME Serialized, ChainInv, NEW x \in Callback, RemoveEmpty(x)
    PROVE  ChainInv'
<1>1. ChainTypes'
  <2>1. edit' \in [Callback -> [pc : EditPc, i : 0 .. CHAIN_SLOTS]]
    BY ChainConstants DEF RemoveEmpty, ChainInv, ChainTypes, IdleOp, EditPc
  <2>2. edit[x].i \in Int /\ edit[x].pc \in EditPc
    BY DEF ChainInv, ChainTypes
  <2>3. QED
    BY <2>1 DEF RemoveEmpty, ChainInv, ChainTypes
<1>2. OneEditor'
  BY DEF RemoveEmpty, ChainInv, OneEditor, Editing
<1>3. \A y \in Callback : Progress(y)'
  BY DEF RemoveEmpty, ChainInv, ChainTypes, Progress, OneEditor, Editing, IdleOp, Building, Clearing
<1>4. \A i \in Slot : SlotWhole(i)'
  BY Alone
     DEF RemoveEmpty, ChainInv, ChainTypes, Progress, SlotWhole, IdleOp, Clearing, HasUdata,
         HasBeforeSet, HasAfterSet
<1>5. \A i \in Slot : udata'[i] # NONE => Stored(udata[i])'
  BY DEF RemoveEmpty, ChainInv, Stored, HasUdata
<1>6. \A y \in added' : \E i \in Slot : states'[i] = "READY" /\ udata'[i] = y
  BY DEF RemoveEmpty, ChainInv, Progress, Clearing
<1>7. \A i, j \in Slot : udata'[i] = udata'[j] /\ udata'[i] # NONE => i = j
  BY DEF RemoveEmpty, ChainInv
<1>8. QED
  BY <1>1, <1>2, <1>3, <1>4, <1>5, <1>6, <1>7 DEF ChainInv

-----------------------------------------------------------------------------
(* What a transit finds of an item that stays, and of one that is gone *)

LEMMA StaysInPlace ==
    ASSUME ChainInv, NEW x \in added, NEW j \in Slot, udata[j] = x
    PROVE  /\ x \in Callback /\ states[j] = "READY" /\ j < chain_items_max
           /\ befores[j] = BeforeOf(x) /\ afters[j] = AfterOf(x)
<1>1. x \in Callback /\ x # NONE
  BY ChainConstants DEF ChainInv, ChainTypes
<1>2. states[j] = "READY"
  BY <1>1 DEF ChainInv
<1>3. QED
  BY <1>1, <1>2 DEF ChainInv, SlotWhole

LEMMA FoundWhereStored ==
    ASSUME ChainInv, NEW x \in Callback, NEW i \in Slot, befores[i] = x \/ afters[i] = x
    PROVE  udata[i] = x \/ Editing(x)
<1> USE ChainConstants, FunctionsOf
<1>1. states[i] \in {"EMPTY", "BUSY", "READY"}
  BY DEF ChainInv, ChainTypes
<1>2. CASE states[i] = "EMPTY"
  BY <1>2 DEF ChainInv, SlotWhole
<1>3. CASE states[i] = "READY"
  BY <1>3 DEF ChainInv, SlotWhole
<1>4. CASE states[i] = "BUSY"
  <2>1. PICK y \in Callback : edit[y].pc \in Building \cup Clearing /\ edit[y].i = i
    BY <1>4 DEF ChainInv, SlotWhole
  <2>2. befores[i] \in {y, NONE} /\ afters[i] \in {y, NONE}
    BY <2>1 DEF ChainInv, Progress
  <2>3. QED
    BY <2>1, <2>2 DEF Editing, Building, Clearing
<1>5. QED
  BY <1>1, <1>2, <1>3, <1>4

LEMMA AddedIsFound ==
    ASSUME ChainInv, NEW x \in added, NEW i \in Slot, befores[i] = x \/ afters[i] = x
    PROVE  udata[i] = x
<1>1. x \in Callback /\ ~Editing(x)
  BY DEF ChainInv, ChainTypes, Progress
<1>2. QED
  BY <1>1, FoundWhereStored

LEMMA GoneIsNowhere ==
    ASSUME ChainInv, NEW x \in Callback, x \notin added, ~Editing(x), NEW i \in Slot
    PROVE  befores[i] # x /\ afters[i] # x
<1>1. udata[i] # x
  BY ChainConstants DEF ChainInv, Stored, Editing, HasUdata
<1>2. QED
  BY <1>1, FoundWhereStored

-----------------------------------------------------------------------------
(* The edits leave what the transits have run as it was *)

EditStep(x) == hook_chain_add(x) \/ hook_chain_remove(x)

LEMMA EditKeepsChain ==
    ASSUME Serialized, ChainInv, NEW x \in Callback, EditStep(x)
    PROVE  ChainInv'
BY AddStartKeeps, AddScanKeeps, AddBusyKeeps, AddFieldsKeeps, AddReadyKeeps, RemoveStartKeeps,
   RemoveScanKeeps, RemoveBusyKeeps, RemoveFieldsKeeps, RemoveEmptyKeeps
   DEF EditStep, hook_chain_add, hook_chain_remove

\* An edit of x touches no other item.
LEMMA EditTouchesOne ==
    ASSUME ChainInv, NEW x \in Callback, EditStep(x)
    PROVE  /\ \A y \in Callback : y # x => /\ y \in added' <=> y \in added
                                          /\ edit'[y] = edit[y]
           /\ \A y \in Callback, j \in Slot : y # x /\ udata'[j] = y => udata[j] = y
<1> USE ChainConstants
<1>1. /\ edit \in [Callback -> [pc : EditPc, i : 0 .. CHAIN_SLOTS]]
      /\ udata \in [Slot -> Maybe]
  BY DEF ChainInv, ChainTypes
<1>2. \A y \in Callback : y # x => (y \in added' <=> y \in added) /\ edit'[y] = edit[y]
  BY <1>1
     DEF EditStep, hook_chain_add, hook_chain_remove, AddStart, AddScan, AddBusy, AddFields,
         AddReady, RemoveStart, RemoveScan, RemoveBusy, RemoveFields, RemoveEmpty, GoTo
<1>3. UNCHANGED udata \/ \E i : udata' = [udata EXCEPT ![i] = x] \/ udata' = [udata EXCEPT ![i] = NONE]
  BY DEF EditStep, hook_chain_add, hook_chain_remove, AddStart, AddScan, AddBusy, AddFields,
         AddReady, RemoveStart, RemoveScan, RemoveBusy, RemoveFields, RemoveEmpty, chain
<1>4. QED
  BY <1>1, <1>2, <1>3

\* And of the transits it changes only for whom x stays or is gone.
LEMMA EditAndTransits ==
    ASSUME ChainInv, RunInv, NEW x \in Callback, EditStep(x)
    PROVE  /\ transit' \in [Process -> TransitType]
           /\ \A p \in Process :
                 /\ transit'[p] = [transit[p] EXCEPT !.stable = transit'[p].stable,
                                                     !.gone = transit'[p].gone]
                 /\ transit'[p].stable \subseteq transit[p].stable \cap added'
                 /\ transit'[p].gone \subseteq transit[p].gone
                 /\ x \notin transit'[p].gone
                 /\ x \in transit'[p].stable => ~Editing(x)
<1>1. transit \in [Process -> TransitType]
  BY DEF RunInv
<1>2. \A p \in Process : transit[p].stable \subseteq added /\ \A y \in transit[p].gone : y \notin added /\ ~Editing(y)
  BY DEF RunInv, TransitOk
<1>3. Editing(x) => x \notin added
  BY DEF ChainInv, Progress
<1>4. CASE AddStart(x)
  BY <1>1, <1>2, <1>3, <1>4 DEF AddStart, TransitType
<1>5. CASE RemoveStart(x)
  BY <1>1, <1>2, <1>3, <1>5 DEF RemoveStart, TransitType
<1>6. CASE ~AddStart(x) /\ ~RemoveStart(x)
  <2>1. Editing(x) /\ UNCHANGED transit /\ added \subseteq added'
    BY <1>6
       DEF EditStep, hook_chain_add, hook_chain_remove, AddScan, AddBusy, AddFields, AddReady,
           RemoveScan, RemoveBusy, RemoveFields, RemoveEmpty, Editing
  <2>2. QED
    BY <1>1, <1>2, <1>3, <2>1 DEF TransitType
<1>7. QED
  BY <1>4, <1>5, <1>6

LEMMA EditKeepsRuns ==
    ASSUME ChainInv, RunInv, NEW x \in Callback, EditStep(x)
    PROVE  RunInv'
<1>1. transit' \in [Process -> TransitType] /\ transit \in [Process -> TransitType]
  BY EditAndTransits DEF RunInv
<1>2. ASSUME NEW p \in Process PROVE Standing(p)' /\ TransitOk(p)'
  <2> DEFINE t == transit[p]
  <2> DEFINE u == transit'[p]
  <2>1. /\ u.pc = t.pc /\ u.i = t.i /\ u.func = t.func /\ u.before = t.before
        /\ u.after = t.after /\ u.strange = t.strange
    <3>1. t \in TransitType /\ u = [t EXCEPT !.stable = u.stable, !.gone = u.gone]
      BY <1>1, EditAndTransits
    <3>2. QED
      BY <3>1 DEF TransitType
  <2>2. u.stable \subseteq t.stable /\ u.stable \subseteq added' /\ u.gone \subseteq t.gone /\ x \notin u.gone
    BY EditAndTransits
  <2>3. t.stable \subseteq Callback /\ t.gone \subseteq Callback
    BY <1>1 DEF TransitType
  <2>4. Standing(p)'
    BY <2>1 DEF RunInv, Standing
  <2>5. ASSUME u.pc # "idle", NEW y \in u.stable, NEW j \in Slot, udata'[j] = y PROVE RunSoFar(p, y, j)'
    <3>1. udata[j] = y
      <4>1. CASE y # x
        BY <2>2, <2>3, <2>5, <4>1, EditTouchesOne
      <4>2. CASE y = x
        <5>1. y \in added
          BY <2>2 DEF RunInv, TransitOk
        <5>2. UNCHANGED udata
          BY <4>2, <5>1
             DEF EditStep, hook_chain_add, hook_chain_remove, AddStart, AddScan, AddBusy, AddFields,
                 AddReady, RemoveStart, RemoveScan, RemoveBusy, RemoveFields, RemoveEmpty, chain,
                 ChainInv, Progress, Editing
        <5>3. QED
          BY <2>5, <5>2
      <4>3. QED
        BY <4>1, <4>2
    <3>2. RunSoFar(p, y, j)
      BY <2>1, <2>2, <2>5, <3>1 DEF RunInv, TransitOk
    <3>3. QED
      BY <2>1, <3>2 DEF RunSoFar
  <2>6. ASSUME NEW y \in u.gone
        PROVE  /\ y \notin added' /\ ~Editing(y)'
               /\ u.before[y] = 0 /\ u.after[y] = 0 /\ u.func # y
    <3>1. y # x /\ y \in t.gone /\ y \in Callback
      BY <2>2, <2>3
    <3>2. y \notin added /\ ~Editing(y) /\ t.before[y] = 0 /\ t.after[y] = 0 /\ t.func # y
      BY <3>1 DEF RunInv, TransitOk
    <3>3. QED
      <4>1. y \notin added' /\ edit'[y].pc = "idle"
        <5>1. (y \in added' <=> y \in added) /\ edit'[y] = edit[y]
          BY <3>1, EditTouchesOne
        <5>2. QED
          BY <3>2, <5>1 DEF Editing
      <4>2. u.before[y] = 0 /\ u.after[y] = 0 /\ u.func # y
        BY <2>1, <3>2
      <4>3. QED
        BY <4>1, <4>2 DEF Editing
  <2>7. QED
    BY <2>2, <2>4, <2>5, <2>6 DEF TransitOk
<1>3. QED
  BY <1>1, <1>2 DEF RunInv

-----------------------------------------------------------------------------
(* A step of a transit adds to what it has run exactly the item it is at *)

ItsStep(p) == TransitEnter(p) \/ TransitStep(p) \/ TransitReturn(p)

LEMMA Moved ==
    ASSUME NEW t \in TransitType, NEW q \in TransitPc, NEW i \in Int
    PROVE  /\ [t EXCEPT !.pc = q] \in TransitType /\ [t EXCEPT !.i = i] \in TransitType
           /\ [t EXCEPT !.pc = q, !.i = i] \in TransitType
BY DEF TransitType

\* The outcomes of a loop's test: from where to where.
Tested(t, u) ==
    \/ /\ t.pc = "before" /\ t.i < chain_items_max
       /\ IF states[t.i] = "READY" THEN u.pc = "before_func" /\ u.i = t.i
                                   ELSE u.pc = "before" /\ u.i = t.i + 1
    \/ t.pc = "before" /\ t.i >= chain_items_max /\ u.pc = "origin" /\ u.i = t.i
    \/ /\ t.pc = "after" /\ t.i >= 0
       /\ IF states[t.i] = "READY" THEN u.pc = "after_func" /\ u.i = t.i
                                   ELSE u.pc = "after" /\ u.i = t.i - 1
    \/ t.pc = "after" /\ t.i < 0 /\ u.pc = "done" /\ u.i = t.i

LEMMA TestOutcomes ==
    ASSUME transit \in [Process -> TransitType], NEW p \in Process, TransitTest(p)
    PROVE  /\ transit'[p] \in TransitType
           /\ Tested(transit[p], transit'[p])
           /\ transit'[p].func = transit[p].func /\ transit'[p].before = transit[p].before
           /\ transit'[p].after = transit[p].after /\ transit'[p].strange = transit[p].strange
           /\ transit'[p].stable = transit[p].stable /\ transit'[p].gone = transit[p].gone
<1> DEFINE t == transit[p]
<1> DEFINE u == transit'[p]
<1>1. t \in TransitType /\ t.i + 1 \in Int /\ t.i - 1 \in Int
  BY DEF TransitType
<1>2. \/ t.pc = "before" /\ t.i < chain_items_max /\ states[t.i] = "READY" /\ u = [t EXCEPT !.pc = "before_func"]
      \/ t.pc = "before" /\ t.i < chain_items_max /\ states[t.i] # "READY" /\ u = [t EXCEPT !.i = t.i + 1]
      \/ t.pc = "before" /\ t.i >= chain_items_max /\ u = [t EXCEPT !.pc = "origin"]
      \/ t.pc = "after" /\ t.i >= 0 /\ states[t.i] = "READY" /\ u = [t EXCEPT !.pc = "after_func"]
      \/ t.pc = "after" /\ t.i >= 0 /\ states[t.i] # "READY" /\ u = [t EXCEPT !.i = t.i - 1]
      \/ t.pc = "after" /\ t.i < 0 /\ u = [t EXCEPT !.pc = "done"]
  BY DEF TransitTest
<1>3. u \in TransitType
  BY <1>1, <1>2, Moved DEF TransitPc
<1>4. QED
  BY <1>1, <1>2, <1>3 DEF Tested, TransitType

LEMMA TransitTyped ==
    ASSUME ChainInv, RunInv, NEW p \in Process, ItsStep(p)
    PROVE  /\ transit' \in [Process -> TransitType]
           /\ \A q \in Process : q # p => transit'[q] = transit[q]
           /\ UNCHANGED <<chain, edit, added>>
<1> USE ChainConstants
<1>1. transit \in [Process -> TransitType] /\ transit[p] \in TransitType
  BY DEF RunInv
<1>2. Standing(p)
  BY DEF RunInv
<1>3. /\ chain_items_max \in 0 .. CHAIN_SLOTS /\ added \subseteq Callback
      /\ befores \in [Slot -> Maybe] /\ afters \in [Slot -> Maybe]
  BY DEF ChainInv, ChainTypes
<1>4. CASE TransitEnter(p)
  <2>1. transit'[p] \in TransitType
    <3> DEFINE none == [x \in Callback |-> 0]
    <3> DEFINE away == {x \in Callback : x \notin added /\ edit[x].pc = "idle"}
    <3>1. transit'[p] = [pc |-> "before", i |-> 0, func |-> NONE, before |-> none, after |-> none,
                         strange |-> {}, stable |-> added, gone |-> away]
      BY <1>1, <1>4 DEF TransitEnter, IdleTransit
    <3>2. none \in [Callback -> Nat] /\ away \in SUBSET Callback /\ added \in SUBSET Callback
      BY <1>3
    <3>3. QED
      BY <3>1, <3>2 DEF TransitType, TransitPc, Maybe
  <2>2. transit' = [transit EXCEPT ![p] = transit'[p]]
    BY <1>1, <1>4 DEF TransitEnter
  <2>3. QED
    BY <1>1, <1>4, <2>1 DEF TransitEnter
<1>5. CASE TransitTest(p)
  <2>1. transit'[p] \in TransitType
    BY <1>1, <1>5, TestOutcomes
  <2>2. transit' = [transit EXCEPT ![p] = transit'[p]]
    BY <1>1, <1>5 DEF TransitTest
  <2>3. QED
    BY <1>1, <1>5, <2>1 DEF TransitTest
<1>6. CASE TransitLoad(p)
  <2>1. transit'[p] \in TransitType
    BY <1>1, <1>2, <1>3, <1>6 DEF TransitLoad, Standing, TransitType, TransitPc
  <2>2. transit' = [transit EXCEPT ![p] = transit'[p]]
    BY <1>1, <1>6 DEF TransitLoad
  <2>3. QED
    BY <1>1, <1>6, <2>1 DEF TransitLoad
<1>7. CASE TransitCall(p)
  <2> DEFINE t == transit[p]
  <2>1. t.func \in Callback /\ t.before[t.func] + 1 \in Nat /\ t.after[t.func] + 1 \in Nat
    BY <1>1, <1>7 DEF TransitCall, TransitType, Maybe
  <2>2. QED
    BY <1>1, <1>7 DEF TransitCall, TransitType
<1>8. CASE TransitOrigin(p)
  <2>1. transit'[p] \in TransitType
    <3>1. transit'[p] = [transit[p] EXCEPT !.pc = "after", !.i = chain_items_max - 1]
      BY <1>1, <1>8 DEF TransitOrigin
    <3>2. QED
      <4>1. chain_items_max - 1 \in Int /\ "after" \in TransitPc
        BY <1>3 DEF TransitPc
      <4>2. QED
        BY <1>1, <3>1, <4>1 DEF TransitType
  <2>2. transit' = [transit EXCEPT ![p] = transit'[p]]
    BY <1>1, <1>8 DEF TransitOrigin
  <2>3. QED
    BY <1>1, <1>8, <2>1 DEF TransitOrigin
<1>9. CASE TransitReturn(p)
  BY <1>1, <1>9 DEF TransitReturn, IdleTransit, TransitType, TransitPc, Maybe
<1>10. QED
  BY <1>4, <1>5, <1>6, <1>7, <1>8, <1>9 DEF ItsStep, TransitStep

LEMMA TransitStands ==
    ASSUME ChainInv, RunInv, NEW p \in Process, ItsStep(p)
    PROVE  Standing(p)'
<1> USE ChainConstants
<1>1. transit \in [Process -> TransitType] /\ transit[p] \in TransitType
  BY DEF RunInv
<1>2. Standing(p)
  BY DEF RunInv
<1>3. /\ chain_items_max \in 0 .. CHAIN_SLOTS
      /\ befores \in [Slot -> Maybe] /\ afters \in [Slot -> Maybe]
  BY DEF ChainInv, ChainTypes
<1>4. CASE TransitEnter(p)
  BY <1>1, <1>4 DEF TransitEnter, IdleTransit, Standing
<1>5. CASE TransitTest(p)
  BY <1>1, <1>2, <1>3, <1>5 DEF TransitTest, TransitType, Standing, Slot
<1>6. CASE TransitLoad(p)
  BY <1>1, <1>2, <1>6 DEF TransitLoad, Standing, Slot
<1>7. CASE TransitCall(p)
  BY <1>1, <1>7 DEF TransitCall, TransitType
<1>8. CASE TransitOrigin(p)
  BY <1>1, <1>2, <1>3, <1>8 DEF TransitOrigin, Standing
<1>9. CASE TransitReturn(p)
  BY <1>1, <1>9 DEF TransitReturn, IdleTransit, Standing
<1>10. QED
  BY <1>4, <1>5, <1>6, <1>7, <1>8, <1>9 DEF ItsStep, TransitStep

\* By the slot of an item that stays.
LEMMA TransitPasses ==
    ASSUME ChainInv, RunInv, NEW p \in Process, ItsStep(p), transit'[p].pc # "idle",
           NEW x \in transit'[p].stable, NEW j \in Slot, udata[j] = x
    PROVE  RunSoFar(p, x, j)'
<1> USE ChainConstants
<1> DEFINE t == transit[p]
<1>1. transit \in [Process -> TransitType] /\ t \in TransitType
  BY DEF RunInv
<1>2. Standing(p)
  BY DEF RunInv
<1>3. chain_items_max \in 0 .. CHAIN_SLOTS /\ j \in Int
  BY DEF ChainInv, ChainTypes, Slot
<1>4. CASE TransitEnter(p)
  <2>1. x \in Callback
    BY <1>1, <1>4 DEF TransitEnter, ChainInv, ChainTypes
  <2>2. transit'[p] = [IdleTransit EXCEPT !.pc = "before", !.stable = added,
                          !.gone = {y \in Callback : y \notin added /\ edit[y].pc = "idle"}]
    BY <1>1, <1>4 DEF TransitEnter
  <2>3. QED
    BY <2>1, <2>2 DEF IdleTransit, RunSoFar, Slot
<1>5. CASE TransitStep(p)
  <2>1. x \in t.stable /\ t.pc # "idle"
    BY <1>1, <1>5
       DEF TransitStep, TransitTest, TransitLoad, TransitCall, TransitOrigin, TransitType
  <2>2. RunSoFar(p, x, j) /\ x \in added /\ x \in Callback
    BY <1>1, <2>1 DEF RunInv, TransitOk, TransitType
  <2>3. /\ states[j] = "READY" /\ j < chain_items_max
        /\ befores[j] = BeforeOf(x) /\ afters[j] = AfterOf(x)
    BY <2>2, StaysInPlace
  <2>4. \A i \in Slot : befores[i] = x \/ afters[i] = x => i = j
    BY <2>2, AddedIsFound DEF ChainInv
  <2>5. CASE TransitTest(p)
    <3> DEFINE u == transit'[p]
    <3>1. /\ Tested(t, u) /\ u.func = t.func /\ u.before = t.before /\ u.after = t.after
          /\ u.strange = t.strange /\ t.i \in Int /\ t.func = NONE
      BY <1>1, <1>2, <2>5, TestOutcomes DEF Standing, Tested
    <3>2. x # NONE
      BY <2>2
    <3>3. /\ x \notin u.strange
          /\ u.before[x] = IF x \in HasBefore /\ (u.pc \in {"before", "before_func"} => j < u.i) THEN 1 ELSE 0
      BY <1>3, <2>2, <2>3, <3>1 DEF Tested, RunSoFar
    <3>4. u.after[x] = IF /\ x \in HasAfter /\ u.pc \notin {"before", "before_func", "origin"}
                          /\ u.pc \in {"after", "after_func"} => j > u.i THEN 1 ELSE 0
      BY <2>2, <2>3, <3>1 DEF Tested, RunSoFar, Slot
    <3>5. QED
      BY <3>1, <3>2, <3>3, <3>4 DEF RunSoFar
  <2>6. CASE TransitLoad(p)
    BY <1>1, <1>2, <1>3, <2>2, <2>3, <2>4, <2>6
       DEF TransitLoad, TransitType, Standing, RunSoFar, BeforeOf, AfterOf
  <2>7. CASE TransitCall(p)
    BY <1>1, <2>7 DEF TransitCall, TransitType
  <2>8. CASE TransitOrigin(p)
    BY <1>1, <1>3, <2>2, <2>3, <2>8 DEF TransitOrigin, TransitType, RunSoFar
  <2>9. QED
    BY <1>5, <2>5, <2>6, <2>7, <2>8 DEF TransitStep
<1>6. CASE TransitReturn(p)
  BY <1>1, <1>6 DEF TransitReturn, IdleTransit
<1>7. QED
  BY <1>4, <1>5, <1>6 DEF ItsStep

LEMMA TransitMissesGone ==
    ASSUME ChainInv, RunInv, NEW p \in Process, ItsStep(p), NEW x \in transit'[p].gone
    PROVE  /\ x \notin added /\ ~Editing(x)
           /\ transit'[p].before[x] = 0 /\ transit'[p].after[x] = 0 /\ transit'[p].func # x
<1> USE ChainConstants
<1> DEFINE t == transit[p]
<1>1. transit \in [Process -> TransitType] /\ t \in TransitType
  BY DEF RunInv
<1>2. CASE TransitEnter(p)
  <2>1. transit'[p] = [IdleTransit EXCEPT !.pc = "before", !.stable = added,
                          !.gone = {y \in Callback : y \notin added /\ edit[y].pc = "idle"}]
    BY <1>1, <1>2 DEF TransitEnter
  <2>2. QED
    BY <2>1 DEF IdleTransit, Editing
<1>3. CASE TransitReturn(p)
  BY <1>1, <1>3 DEF TransitReturn, IdleTransit
<1>4. CASE TransitStep(p)
  <2>1. x \in t.gone /\ x \in Callback
    BY <1>1, <1>4
       DEF TransitStep, TransitTest, TransitLoad, TransitCall, TransitOrigin, TransitType
  <2>2. /\ x \notin added /\ ~Editing(x)
        /\ t.before[x] = 0 /\ t.after[x] = 0 /\ t.func # x
    BY <2>1 DEF RunInv, TransitOk
  <2>3. \A i \in Slot : befores[i] # x /\ afters[i] # x
    BY <2>1, <2>2, GoneIsNowhere
  <2>4. t.pc \in {"before_func", "after_func"} => t.i \in Slot
    BY DEF RunInv, Standing
  <2>5. CASE TransitTest(p)
    BY <1>1, <2>2, <2>5, TestOutcomes
  <2>6. CASE TransitLoad(p)
    BY <1>1, <2>2, <2>3, <2>4, <2>6 DEF TransitLoad
  <2>7. CASE TransitCall(p)
    BY <1>1, <2>7 DEF TransitCall, TransitType
  <2>8. CASE TransitOrigin(p)
    BY <1>1, <2>2, <2>8 DEF TransitOrigin, TransitType
  <2>9. QED
    BY <1>4, <2>5, <2>6, <2>7, <2>8 DEF TransitStep
<1>5. QED
  BY <1>2, <1>3, <1>4 DEF ItsStep

LEMMA TransitKeepsRuns ==
    ASSUME ChainInv, RunInv, NEW p \in Process, ItsStep(p)
    PROVE  ChainInv' /\ RunInv'
<1>1. /\ transit' \in [Process -> TransitType]
      /\ \A q \in Process : q # p => transit'[q] = transit[q]
      /\ UNCHANGED <<states, befores, afters, udata, chain_items_max, edit, added>>
  BY TransitTyped DEF chain
<1>2. ChainInv'
  BY <1>1 DEF ChainInv, ChainTypes, OneEditor, Editing, Progress, SlotWhole, Stored
<1>3. Standing(p)'
  BY TransitStands
<1>4. transit'[p].stable \subseteq added
  <2>1. transit \in [Process -> TransitType] /\ transit[p].stable \subseteq added
    BY DEF RunInv, TransitOk
  <2>2. transit'[p].stable \in {transit[p].stable, added, {}}
    <3>1. CASE TransitTest(p)
      BY <2>1, <3>1, TestOutcomes
    <3>2. CASE TransitLoad(p)
      BY <2>1, <3>2 DEF TransitType, TransitLoad
    <3>3. CASE TransitCall(p)
      BY <2>1, <3>3 DEF TransitType, TransitCall
    <3>4. CASE TransitOrigin(p)
      BY <2>1, <3>4 DEF TransitType, TransitOrigin
    <3>5. CASE TransitEnter(p)
      BY <2>1, <3>5 DEF TransitEnter, IdleTransit
    <3>6. CASE TransitReturn(p)
      BY <2>1, <3>6 DEF TransitReturn, IdleTransit
    <3>7. QED
      BY <3>1, <3>2, <3>3, <3>4, <3>5, <3>6 DEF ItsStep, TransitStep
  <2>3. QED
    BY <2>1, <2>2
<1>5. TransitOk(p)'
  BY <1>1, <1>4, TransitPasses, TransitMissesGone DEF TransitOk, Editing
<1>6. ASSUME NEW q \in Process, q # p PROVE Standing(q)' /\ TransitOk(q)'
  BY <1>1, <1>6 DEF RunInv, Standing, TransitOk, RunSoFar, Editing
<1>7. QED
  BY <1>1, <1>2, <1>3, <1>5, <1>6 DEF RunInv

-----------------------------------------------------------------------------
LEMMA ChainStarts == ChainInit => ChainInv /\ RunInv
<1> USE ChainConstants
<1>1. ASSUME ChainInit PROVE ChainInv
  BY <1>1
     DEF ChainInit, ChainInv, ChainTypes, OneEditor, Editing, Progress, SlotWhole, IdleOp, Maybe,
         EditPc, Building, Clearing
<1>2. ASSUME ChainInit PROVE RunInv
  BY <1>2 DEF ChainInit, RunInv, Standing, TransitOk, IdleTransit, TransitType, TransitPc, Maybe
<1>3. QED
  BY <1>1, <1>2

LEMMA ChainSteps ==
    Serialized /\ ChainInv /\ RunInv /\ [ChainNext]_chainVars => ChainInv' /\ RunInv'
<1> SUFFICES ASSUME Serialized, ChainInv, RunInv, [ChainNext]_chainVars PROVE ChainInv' /\ RunInv'
  OBVIOUS
<1>1. ASSUME NEW x \in Callback, EditStep(x) PROVE ChainInv' /\ RunInv'
  BY <1>1, EditKeepsChain, EditKeepsRuns
<1>2. ASSUME NEW p \in Process, ItsStep(p) PROVE ChainInv' /\ RunInv'
  BY <1>2, TransitKeepsRuns
<1>3. CASE UNCHANGED chainVars
  <2>1. UNCHANGED <<states, befores, afters, udata, chain_items_max, edit, added, transit>>
    BY <1>3 DEF chainVars, chain
  <2>2. ChainInv'
    BY <2>1 DEF ChainInv, ChainTypes, OneEditor, Editing, Progress, SlotWhole, Stored
  <2>3. RunInv'
    BY <2>1 DEF RunInv, Standing, TransitOk, RunSoFar, Editing
  <2>4. QED
    BY <2>2, <2>3
<1>4. QED
  BY <1>1, <1>2, <1>3 DEF ChainNext, EditStep, ItsStep

LEMMA ChainIsComplete == ChainInv => ReadySlotsComplete
BY ChainConstants DEF ChainInv, SlotWhole, ReadySlotsComplete

LEMMA RunsAreRight == ChainInv /\ RunInv => StableItemsRunOnce /\ RemovedItemsNeverRun
<1> SUFFICES ASSUME ChainInv, RunInv, NEW p \in Process, transit[p].pc = "done"
             PROVE  /\ \A x \in transit[p].stable :
                          /\ transit[p].before[x] = IF x \in HasBefore THEN 1 ELSE 0
                          /\ transit[p].after[x] = IF x \in HasAfter THEN 1 ELSE 0
                          /\ x \notin transit[p].strange
                    /\ \A x \in transit[p].gone : transit[p].before[x] = 0 /\ transit[p].after[x] = 0
  BY DEF StableItemsRunOnce, RemovedItemsNeverRun
<1>1. ASSUME NEW x \in transit[p].stable
      PROVE  /\ transit[p].before[x] = IF x \in HasBefore THEN 1 ELSE 0
             /\ transit[p].after[x] = IF x \in HasAfter THEN 1 ELSE 0
             /\ x \notin transit[p].strange
  <2>1. PICK j \in Slot : udata[j] = x
    BY DEF RunInv, TransitOk, ChainInv
  <2>2. QED
    BY <2>1 DEF RunInv, TransitOk, RunSoFar
<1>2. QED
  BY <1>1 DEF RunInv, TransitOk

\* hook.c:715-757 against the transit stubs: with the writers kept apart ("todo: lock")
\* every transit, wherever the writers are, finds complete slots, runs once what stays
\* in the chain and never what was gone.
THEOREM TransitsRun == Serialized => (ChainSpec => []TransitsRunTheChain)
<1>1. ASSUME Serialized PROVE ChainSpec => []TransitsRunTheChain
  <2>1. ChainInv /\ RunInv => TransitsRunTheChain
    BY ChainIsComplete, RunsAreRight DEF TransitsRunTheChain
  <2>2. ChainInv /\ RunInv /\ [ChainNext]_chainVars => ChainInv' /\ RunInv'
    BY <1>1, ChainSteps
  <2>3. QED
    BY <2>1, <2>2, ChainStarts, PTL DEF ChainSpec
<1>2. QED
  BY <1>1
=============================================================================
