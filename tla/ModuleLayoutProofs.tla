------------------------- MODULE ModuleLayoutProofs --------------------------
(***************************************************************************)
(* load_module makes a whole module of every file, for every number of     *)
(* sections and symbols, every size, alignment, page size and number of    *)
(* loads of one image.                                                     *)
(*                                                                         *)
(* A pass over the sections is a function of how far it has come: what it  *)
(* does is proved by induction on that, over the integers, with Least.     *)
(* LayoutInv says for each step of load_module what the ones before it     *)
(* have done to the headers and to the module.                             *)
(***************************************************************************)
EXTENDS ModuleLayout, FiniteSetTheorems, TLAPS

\* Every set of numbers has a least one: Induct and Min rest on it.
LEMMA Least ==
    ASSUME NEW T \in SUBSET Nat, T # {}
    PROVE  \E n \in T : \A m \in T : n <= m
<1> DEFINE F == {0 .. n : n \in T}
<1>1. F \subseteq FiniteSubsetsOf(Nat)
  <2> SUFFICES ASSUME NEW n \in T PROVE 0 .. n \in FiniteSubsetsOf(Nat)
    OBVIOUS
  <2>1. IsFiniteSet(0 .. n)
    BY FS_Interval
  <2> QED BY <2>1 DEF FiniteSubsetsOf
<1>2. F # {}
  OBVIOUS
<1>3. \E x \in F : \A y \in F : ~(<<y, x>> \in StrictSubsetOrdering(Nat))
  <2> HIDE DEF F
  <2> QED BY <1>1, <1>2, WFMin, FS_StrictSubsetOrderingWellFounded
<1>4. PICK n \in T : \A m \in T : ~(<<0 .. m, 0 .. n>> \in StrictSubsetOrdering(Nat))
  BY <1>3
<1>5. ASSUME NEW m \in T, m < n PROVE FALSE
  <2>1. n \in 0 .. n /\ n \notin 0 .. m
    BY <1>5
  <2>2. 0 .. m \in SUBSET Nat /\ 0 .. n \in SUBSET Nat /\ 0 .. m \subseteq 0 .. n /\ 0 .. m # 0 .. n
    BY <2>1, <1>5
  <2>3. <<0 .. m, 0 .. n>> \in StrictSubsetOrdering(Nat)
    BY <2>2 DEF StrictSubsetOrdering
  <2> QED BY <2>3, <1>4
<1> QED BY <1>5

\* Numbers that begin at 0 and go on are all numbers.
LEMMA Induct ==
    ASSUME NEW T \in SUBSET Nat, 0 \in T, \A n \in T : n + 1 \in T
    PROVE  T = Nat
<1> SUFFICES ASSUME Nat \ T # {} PROVE FALSE
  OBVIOUS
<1>1. PICK n \in Nat \ T : \A m \in Nat \ T : n <= m
  BY Least
<1>2. n # 0 /\ n - 1 \in Nat /\ n - 1 \notin Nat \ T
  BY <1>1
<1> QED BY <1>2

\* The first section, symbol or string of some is one of them.
LEMMA MinIs ==
    ASSUME NEW S \in SUBSET Nat, S # {}
    PROVE  Min(S) \in S
<1>1. \E n \in S : \A m \in S : n <= m
  BY Least
<1> QED BY <1>1 DEF Min

\* The next multiple.
LEMMA AlignUpIs ==
    ASSUME NEW n \in Nat, NEW a \in Nat \ {0}
    PROVE  AlignUp(n, a) \in Nat /\ AlignUp(n, a) >= n /\ AlignUp(n, a) % a = 0
<1> DEFINE q == (n + a - 1) \div a
<1>1. q \in Nat /\ a * q <= n + a - 1 /\ n + a - 1 < a * q + a
  OBVIOUS
<1>2. AlignUp(n, a) = q * a
  BY DEF AlignUp
<1> HIDE DEF q
<1>3. q * a = a * q /\ q * a \in Nat /\ (q * a) % a = 0
  BY <1>1
<1> QED BY <1>1, <1>2, <1>3

-----------------------------------------------------------------------------
(* One pass over the sections *)

\* The sections that have a place in a layout are in it, each aligned, and side by side.
Unplaced(lay, i) == lay.ent[i] = Unset
After(lay, i) == lay.ent[i] + Sec(i).size
Fits(lay) ==
    /\ DOMAIN lay = {"size", "ent"} /\ lay.size \in Nat /\ DOMAIN lay.ent = Secs
    /\ \A i \in Secs : ~Unplaced(lay, i) =>
        /\ lay.ent[i] \in Nat /\ After(lay, i) <= lay.size
        /\ Sec(i).align > 1 => lay.ent[i] % Sec(i).align = 0
    /\ \A i, j \in Secs : i # j /\ ~Unplaced(lay, i) /\ ~Unplaced(lay, j) =>
        After(lay, i) <= lay.ent[j] \/ After(lay, j) <= lay.ent[i]
Kind(i, m) == Masks[m].with \subseteq Sec(i).flags /\ Masks[m].without \cap Sec(i).flags = {}
\* What passes of the kinds in M make of old: nothing that had a place is
\* moved, those of the kinds that had none follow what there was.
Grown(old, new, M) ==
    /\ new.size >= old.size
    /\ \A i \in Secs :
        /\ ~Unplaced(old, i) => new.ent[i] = old.ent[i]
        /\ Unplaced(old, i) /\ ~Unplaced(new, i) => new.ent[i] >= old.size /\ \E m \in M : Kind(i, m)

SecsOk ==
    /\ IsFiniteSet(Secs) /\ Secs = 1 .. e_shnum
    /\ \A i \in Secs : Sec(i).size \in Nat /\ Sec(i).align \in Nat

\* There are a number of sections.
LEMMA SecsAre == ASSUME SecsOk PROVE e_shnum \in Nat
BY FS_CardinalityType DEF SecsOk, e_shnum

\* get_offset gives a place at or after the size, on the section's alignment.
LEMMA OffsetIs ==
    ASSUME SecsOk, NEW n \in Nat, NEW i \in Secs
    PROVE  /\ get_offset(n, Sec(i)) \in Nat /\ get_offset(n, Sec(i)) >= n
           /\ Sec(i).align > 1 => get_offset(n, Sec(i)) % Sec(i).align = 0
<1> DEFINE a == IF Sec(i).align = 0 THEN 1 ELSE Sec(i).align
<1>1. a \in Nat \ {0} /\ (Sec(i).align > 1 => a = Sec(i).align)
  BY DEF SecsOk
<1>2. get_offset(n, Sec(i)) = AlignUp(n, a)
  BY DEF get_offset
<1> HIDE DEF a
<1> QED BY <1>1, <1>2, AlignUpIs

\* A section without a place gets one after all others; none of them moves.
LEMMA PlacedFits ==
    ASSUME SecsOk, NEW lay, Fits(lay), NEW i \in Secs, Unplaced(lay, i)
    PROVE  /\ Fits(Placed(lay, i)) /\ ~Unplaced(Placed(lay, i), i)
           /\ Placed(lay, i).size >= lay.size /\ Placed(lay, i).ent[i] >= lay.size
           /\ \A j \in Secs : j # i => Placed(lay, i).ent[j] = lay.ent[j]
<1> DEFINE at == get_offset(lay.size, Sec(i))  new == Placed(lay, i)
<1>1. at \in Nat /\ at >= lay.size /\ (Sec(i).align > 1 => at % Sec(i).align = 0) /\ lay.size \in Nat
  BY OffsetIs DEF Fits
<1>2. Sec(i).size \in Nat
  BY DEF SecsOk
<1>3. new = [lay EXCEPT !.size = at + Sec(i).size, !.ent[i] = at]
  BY DEF Placed
<1> HIDE DEF at, new
<1>4. /\ DOMAIN new = {"size", "ent"} /\ new.size = at + Sec(i).size /\ DOMAIN new.ent = Secs
      /\ new.ent[i] = at /\ \A j \in Secs : j # i => new.ent[j] = lay.ent[j]
  BY <1>3 DEF Fits
<1>5. new.size \in Nat /\ new.size >= lay.size /\ at + Sec(i).size <= new.size
  BY <1>1, <1>2, <1>4
<1>6. ASSUME NEW j \in Secs, ~Unplaced(new, j)
      PROVE  /\ new.ent[j] \in Nat /\ After(new, j) <= new.size
             /\ Sec(j).align > 1 => new.ent[j] % Sec(j).align = 0
             /\ j # i => After(new, j) <= at
  <2>1. CASE j = i
    BY <1>1, <1>4, <1>5, <2>1 DEF After
  <2>2. CASE j # i
    <3>1. /\ lay.ent[j] \in Nat /\ After(lay, j) <= lay.size /\ After(new, j) = After(lay, j)
          /\ (Sec(j).align > 1 => lay.ent[j] % Sec(j).align = 0) /\ new.ent[j] = lay.ent[j]
      BY <1>4, <1>6, <2>2 DEF Fits, Unplaced, After
    <3>2. After(lay, j) \in Nat
      BY <3>1 DEF After, SecsOk
    <3> QED BY <1>1, <1>5, <3>1, <3>2
  <2> QED BY <2>1, <2>2
<1>7. ASSUME NEW j \in Secs, NEW k \in Secs, j # k, ~Unplaced(new, j), ~Unplaced(new, k)
      PROVE  After(new, j) <= new.ent[k] \/ After(new, k) <= new.ent[j]
  <2>1. CASE j = i
    BY <1>4, <1>6, <1>7, <2>1
  <2>2. CASE k = i
    BY <1>4, <1>6, <1>7, <2>2
  <2>3. CASE j # i /\ k # i
    BY <1>4, <1>7, <2>3 DEF Fits, Unplaced, After
  <2> QED BY <2>1, <2>2, <2>3
<1>8. Fits(new)
  BY <1>4, <1>5, <1>6, <1>7 DEF Fits
<1>9. ~Unplaced(new, i)
  BY <1>1, <1>4 DEF Unplaced, Unset
<1> QED BY <1>1, <1>4, <1>5, <1>8, <1>9 DEF new

\* upto of Pass is a recursive function: there is one that satisfies its equation.
Upto(w, lay, m, n) ==
    w = [i \in 0 .. n |-> IF i = 0 THEN lay ELSE IF Due(w[i - 1], i, m) THEN Placed(w[i - 1], i) ELSE w[i - 1]]

\* The loop over the sections has a state after each of them.
LEMMA SomeUpto ==
    ASSUME NEW lay, NEW m, NEW n \in Nat
    PROVE  \E w : Upto(w, lay, m, n)
<1> DEFINE T == {k \in Nat : \E w : Upto(w, lay, m, k)}
<1>1. 0 \in T
  <2>1. Upto([i \in 0 .. 0 |-> lay], lay, m, 0)
    BY DEF Upto
  <2> QED BY <2>1
<1>2. ASSUME NEW k \in T PROVE k + 1 \in T
  <2>1. PICK w : Upto(w, lay, m, k)
    OBVIOUS
  <2> DEFINE Next(v, i) == IF Due(v, i, m) THEN Placed(v, i) ELSE v
             v == [i \in 0 .. k + 1 |-> IF i = k + 1 THEN Next(w[k], k + 1) ELSE w[i]]
  <2>2. Upto(v, lay, m, k + 1)
    <3> SUFFICES ASSUME NEW i \in 0 .. k + 1
                 PROVE  v[i] = IF i = 0 THEN lay ELSE Next(v[i - 1], i)
      BY DEF Upto
    <3>1. \A j \in 0 .. k : w[j] = IF j = 0 THEN lay ELSE Next(w[j - 1], j)
      BY <2>1 DEF Upto
    <3> HIDE DEF Next
    <3>2. \A j \in 0 .. k : v[j] = w[j]
      OBVIOUS
    <3>3. CASE i = 0
      BY <3>1, <3>2, <3>3
    <3>4. CASE i \in 1 .. k
      <4>1. i \in 0 .. k /\ i - 1 \in 0 .. k /\ i # 0
        BY <3>4
      <4>2. v[i] = w[i] /\ v[i - 1] = w[i - 1]
        BY <3>2, <4>1
      <4> QED BY <3>1, <4>1, <4>2
    <3>5. CASE i = k + 1
      BY <3>2, <3>5
    <3> QED BY <3>3, <3>4, <3>5
  <2> QED BY <2>2
<1>3. T = Nat
  <2> HIDE DEF T
  <2>1. T \in SUBSET Nat
    BY DEF T
  <2> QED BY <1>1, <1>2, <2>1, Induct
<1> QED BY <1>3

\* By induction on how many sections the pass has come by.
LEMMA PassIs ==
    ASSUME SecsOk, NEW lay, Fits(lay), NEW m
    PROVE  /\ Fits(Pass(lay, m)) /\ Grown(lay, Pass(lay, m), {m})
           /\ \A i \in Secs : Kind(i, m) => ~Unplaced(Pass(lay, m), i)
<1> DEFINE n == e_shnum
           P(l, k) == /\ Fits(l) /\ Grown(lay, l, {m})
                      /\ \A i \in 1 .. k : Kind(i, m) => ~Unplaced(l, i)
<1>1. n \in Nat /\ Secs = 1 .. n
  BY SecsAre DEF SecsOk
<1>2. \E w : w = [i \in 0 .. n |-> IF i = 0 THEN lay
                                   ELSE IF Due(w[i - 1], i, m) THEN Placed(w[i - 1], i) ELSE w[i - 1]]
  <2>1. \E w : Upto(w, lay, m, n)
    <3> HIDE DEF n
    <3> QED BY <1>1, SomeUpto
  <2> QED BY <2>1, Zenon DEF Upto
<1>3. PICK w : /\ w = [i \in 0 .. n |-> IF i = 0 THEN lay
                                        ELSE IF Due(w[i - 1], i, m) THEN Placed(w[i - 1], i) ELSE w[i - 1]]
               /\ Pass(lay, m) = w[n]
  BY <1>2, Zenon DEF Pass
<1>4. \A k \in 0 .. n : w[k] = IF k = 0 THEN lay
                               ELSE IF Due(w[k - 1], k, m) THEN Placed(w[k - 1], k) ELSE w[k - 1]
  BY <1>3
<1>5. ASSUME NEW l, NEW k \in Nat, k + 1 <= n, P(l, k)
      PROVE  P(IF Due(l, k + 1, m) THEN Placed(l, k + 1) ELSE l, k + 1)
  <2>1. k + 1 \in Secs /\ \A i \in 1 .. k + 1 : i \in 1 .. k \/ i = k + 1
    BY <1>1, <1>5
  <2>2. CASE Due(l, k + 1, m)
    <3> DEFINE new == Placed(l, k + 1)
    <3>1. Unplaced(l, k + 1) /\ Kind(k + 1, m)
      BY <2>2 DEF Due, Unplaced, Kind
    <3>2. /\ Fits(new) /\ ~Unplaced(new, k + 1) /\ new.size >= l.size /\ new.ent[k + 1] >= l.size
          /\ \A j \in Secs : j # k + 1 => new.ent[j] = l.ent[j]
      BY <1>5, <2>1, <3>1, PlacedFits
    <3> HIDE DEF new
    <3>3. lay.size \in Nat /\ l.size \in Nat /\ new.size \in Nat /\ new.ent[k + 1] \in Nat /\ l.size >= lay.size
      BY <1>5, <2>1, <3>2 DEF Fits, Grown
    <3>4. Grown(lay, new, {m})
      <4>1. ASSUME NEW i \in Secs
            PROVE  /\ ~Unplaced(lay, i) => new.ent[i] = lay.ent[i]
                   /\ Unplaced(lay, i) /\ ~Unplaced(new, i) => new.ent[i] >= lay.size /\ Kind(i, m)
        <5>1. CASE i = k + 1
          <6>1. Unplaced(lay, i)
            BY <1>5, <3>1, <5>1 DEF Grown, Unplaced
          <6> QED BY <3>1, <3>2, <3>3, <5>1, <6>1
        <5>2. CASE i # k + 1
          <6>1. new.ent[i] = l.ent[i]
            BY <3>2, <5>2
          <6> QED BY <1>5, <6>1 DEF Grown, Unplaced
        <5> QED BY <5>1, <5>2
      <4> QED BY <3>2, <3>3, <4>1 DEF Grown
    <3>5. ASSUME NEW i \in 1 .. k + 1, Kind(i, m) PROVE ~Unplaced(new, i)
      <4>1. CASE i = k + 1
        BY <3>2, <4>1
      <4>2. CASE i # k + 1
        <5>1. i \in Secs /\ i \in 1 .. k
          BY <1>1, <1>5, <4>2
        <5> QED BY <1>5, <3>2, <3>5, <4>2, <5>1 DEF Unplaced
      <4> QED BY <4>1, <4>2
    <3>6. P(new, k + 1)
      BY <3>2, <3>4, <3>5
    <3> QED BY <2>2, <3>6 DEF new
  <2>3. CASE ~Due(l, k + 1, m)
    <3>1. Kind(k + 1, m) => ~Unplaced(l, k + 1)
      BY <2>3 DEF Due, Unplaced, Kind
    <3>2. P(l, k + 1)
      BY <1>5, <2>1, <3>1
    <3> HIDE DEF P
    <3> QED BY <2>3, <3>2
  <2> HIDE DEF P
  <2> QED BY <2>2, <2>3
<1>6. P(lay, 0)
  BY DEF Grown, Fits
<1> DEFINE T == {k \in Nat : k <= n => P(w[k], k)}
<1> HIDE DEF P, n
<1>7. 0 \in T
  BY <1>1, <1>4, <1>6
<1>8. ASSUME NEW k \in T PROVE k + 1 \in T
  <2>1. CASE k + 1 <= n
    <3>1. k \in 0 .. n /\ k + 1 \in 0 .. n /\ k + 1 # 0 /\ k + 1 - 1 = k /\ k \in Nat
      BY <1>1, <2>1
    <3>2. P(w[k], k)
      BY <1>1, <3>1
    <3>3. w[k + 1] = IF Due(w[k], k + 1, m) THEN Placed(w[k], k + 1) ELSE w[k]
      BY <1>4, <3>1
    <3> QED BY <1>5, <2>1, <3>1, <3>2, <3>3
  <2> QED BY <2>1
<1>9. T = Nat
  <2> HIDE DEF T
  <2>1. T \in SUBSET Nat
    BY DEF T
  <2> QED BY <1>7, <1>8, <2>1, Induct
<1>10. P(w[n], n)
  BY <1>1, <1>9
<1> QED BY <1>1, <1>3, <1>10 DEF P

\* Rounding the size up to a page moves no section.
LEMMA PagedIs ==
    ASSUME SecsOk, NEW lay, Fits(lay)
    PROVE  Fits(Paged(lay)) /\ Paged(lay).size >= lay.size /\ Paged(lay).ent = lay.ent
<1> DEFINE new == Paged(lay)
<1>1. lay.size \in Nat
  BY DEF Fits
<1>2. PICK s : s = AlignUp(lay.size, PageSize)
  OBVIOUS
<1>3. s \in Nat /\ s >= lay.size
  BY <1>1, <1>2, AlignUpIs, LayoutAssumption
<1>4. new = [lay EXCEPT !.size = s]
  BY <1>2 DEF Paged
<1> HIDE DEF new
<1>5. DOMAIN new = {"size", "ent"} /\ new.size = s /\ new.ent = lay.ent
  BY <1>4 DEF Fits
<1>6. ASSUME NEW i \in Secs, ~Unplaced(new, i)
      PROVE  /\ new.ent[i] \in Nat /\ After(new, i) <= new.size
             /\ Sec(i).align > 1 => new.ent[i] % Sec(i).align = 0
  <2>1. /\ lay.ent[i] \in Nat /\ After(lay, i) <= lay.size
        /\ Sec(i).align > 1 => lay.ent[i] % Sec(i).align = 0
    BY <1>5, <1>6 DEF Fits, Unplaced
  <2>2. After(new, i) = After(lay, i) /\ new.ent[i] = lay.ent[i]
    BY <1>5 DEF After
  <2>3. After(lay, i) <= s
    <3>1. After(lay, i) \in Nat
      BY <2>1 DEF After, SecsOk
    <3> QED BY <1>1, <1>3, <2>1, <3>1
  <2> QED BY <1>5, <2>1, <2>2, <2>3
<1>7. Fits(new)
  BY <1>3, <1>5, <1>6 DEF Fits, Unplaced, After
<1> QED BY <1>3, <1>5, <1>7 DEF new

\* Where the parts of a module lie in it: what is executed first, then what is only
\* read, then what is written.
Arranged(lay, text, ro) ==
    /\ Fits(lay) /\ text \in Nat /\ ro \in Nat /\ text <= ro /\ ro <= lay.size
    /\ \A i \in Secs : Alloc(Sec(i)) =>
        /\ ~Unplaced(lay, i)
        /\ "exec" \in Sec(i).flags => After(lay, i) <= text
        /\ "exec" \notin Sec(i).flags => lay.ent[i] >= text
        /\ "write" \notin Sec(i).flags => After(lay, i) <= ro
        /\ Sec(i).flags = {"alloc", "write"} => lay.ent[i] >= ro

Nowhere == [size |-> 0, ent |-> [i \in Secs |-> Unset]]
TextLaid == Paged(Pass(Nowhere, 1))
RoLaid == Paged(Pass(TextLaid, 2))
AllLaid == Paged(Pass(Pass(RoLaid, 3), 4))

\* The four pairs of masks of layout_sections, as flags.
LEMMA KindIs ==
    ASSUME NEW i
    PROVE  /\ Kind(i, 1) <=> {"exec", "alloc"} \subseteq Sec(i).flags
           /\ Kind(i, 2) <=> "alloc" \in Sec(i).flags /\ "write" \notin Sec(i).flags
           /\ Kind(i, 3) <=> {"write", "alloc"} \subseteq Sec(i).flags
           /\ Kind(i, 4) <=> "alloc" \in Sec(i).flags
<1>1. /\ Masks[1].with = {"exec", "alloc"} /\ Masks[1].without = {}
      /\ Masks[2].with = {"alloc"} /\ Masks[2].without = {"write"}
      /\ Masks[3].with = {"write", "alloc"} /\ Masks[3].without = {}
      /\ Masks[4].with = {"alloc"} /\ Masks[4].without = {}
  BY DEF Masks
<1>2. PICK f : f = Sec(i).flags
  OBVIOUS
<1>3. /\ Kind(i, 1) <=> {"exec", "alloc"} \subseteq f /\ {} \cap f = {}
      /\ Kind(i, 2) <=> {"alloc"} \subseteq f /\ {"write"} \cap f = {}
      /\ Kind(i, 3) <=> {"write", "alloc"} \subseteq f /\ {} \cap f = {}
      /\ Kind(i, 4) <=> {"alloc"} \subseteq f /\ {} \cap f = {}
  BY <1>1, <1>2 DEF Kind
<1> QED BY <1>2, <1>3

\* After the four passes of layout_sections every allocated section has a
\* place, in the part of the module for what it holds.
LEMMA AllArranged ==
    ASSUME SecsOk
    PROVE  Arranged(AllLaid, TextLaid.size, RoLaid.size)
<1>1. Fits(Nowhere) /\ \A i \in Secs : Unplaced(Nowhere, i)
  BY DEF Fits, Nowhere, Unplaced
<1>2. PICK a, t, b, r, c, d, e :
        /\ a = Pass(Nowhere, 1) /\ t = Paged(a) /\ b = Pass(t, 2) /\ r = Paged(b)
        /\ c = Pass(r, 3) /\ d = Pass(c, 4) /\ e = Paged(d)
  OBVIOUS
<1>3. t = TextLaid /\ r = RoLaid /\ e = AllLaid
  BY <1>2 DEF TextLaid, RoLaid, AllLaid
<1>4. Fits(a) /\ Grown(Nowhere, a, {1}) /\ \A i \in Secs : Kind(i, 1) => ~Unplaced(a, i)
  BY <1>1, <1>2, PassIs
<1>5. Fits(t) /\ t.size >= a.size /\ t.ent = a.ent
  BY <1>2, <1>4, PagedIs
<1>6. Fits(b) /\ Grown(t, b, {2}) /\ \A i \in Secs : Kind(i, 2) => ~Unplaced(b, i)
  BY <1>2, <1>5, PassIs
<1>7. Fits(r) /\ r.size >= b.size /\ r.ent = b.ent
  BY <1>2, <1>6, PagedIs
<1>8. Fits(c) /\ Grown(r, c, {3}) /\ \A i \in Secs : Kind(i, 3) => ~Unplaced(c, i)
  BY <1>2, <1>7, PassIs
<1>9. Fits(d) /\ Grown(c, d, {4}) /\ \A i \in Secs : Kind(i, 4) => ~Unplaced(d, i)
  BY <1>2, <1>8, PassIs
<1>10. Fits(e) /\ e.size >= d.size /\ e.ent = d.ent
  BY <1>2, <1>9, PagedIs
<1>11. /\ a.size \in Nat /\ t.size \in Nat /\ b.size \in Nat /\ r.size \in Nat /\ c.size \in Nat
       /\ d.size \in Nat /\ e.size \in Nat
  BY <1>4, <1>5, <1>6, <1>7, <1>8, <1>9, <1>10 DEF Fits
<1>12. t.size <= b.size /\ b.size <= r.size /\ r.size <= c.size /\ c.size <= d.size /\ d.size <= e.size
  BY <1>6, <1>7, <1>8, <1>9, <1>10, <1>11 DEF Grown
<1>13. ASSUME NEW i \in Secs, Alloc(Sec(i))
       PROVE  /\ ~Unplaced(e, i)
              /\ "exec" \in Sec(i).flags => After(e, i) <= t.size
              /\ "exec" \notin Sec(i).flags => e.ent[i] >= t.size
              /\ "write" \notin Sec(i).flags => After(e, i) <= r.size
              /\ Sec(i).flags = {"alloc", "write"} => e.ent[i] >= r.size
  <2>1. PICK f : f = Sec(i).flags /\ "alloc" \in f
    BY <1>13 DEF Alloc
  <2>2. /\ Kind(i, 1) <=> "exec" \in f
        /\ Kind(i, 2) <=> "write" \notin f
        /\ Kind(i, 3) <=> "write" \in f
        /\ Kind(i, 4)
    BY <2>1, KindIs
  <2>3. Sec(i).size \in Nat
    BY DEF SecsOk
  <2>4. /\ ~Unplaced(a, i) <=> Kind(i, 1)
        /\ t.ent[i] = a.ent[i] /\ (Unplaced(t, i) <=> Unplaced(a, i))
    BY <1>1, <1>4, <1>5 DEF Grown, Unplaced
  <2>5. /\ ~Unplaced(t, i) => b.ent[i] = t.ent[i]
        /\ Unplaced(t, i) /\ ~Unplaced(b, i) => b.ent[i] >= t.size /\ Kind(i, 2)
        /\ r.ent[i] = b.ent[i] /\ (Unplaced(r, i) <=> Unplaced(b, i))
    BY <1>6, <1>7 DEF Grown, Unplaced
  <2>6. /\ ~Unplaced(r, i) => c.ent[i] = r.ent[i]
        /\ Unplaced(r, i) /\ ~Unplaced(c, i) => c.ent[i] >= r.size
    BY <1>8 DEF Grown
  <2>7. /\ ~Unplaced(c, i) => d.ent[i] = c.ent[i]
        /\ Unplaced(c, i) /\ ~Unplaced(d, i) => d.ent[i] >= c.size
        /\ e.ent[i] = d.ent[i] /\ (Unplaced(e, i) <=> Unplaced(d, i))
    BY <1>9, <1>10 DEF Grown, Unplaced
  <2>8. ~Unplaced(e, i) /\ e.ent[i] \in Nat
    BY <1>9, <1>10, <2>2, <2>7 DEF Fits
  <2>9. CASE "exec" \in f
    <3>1. ~Unplaced(a, i) /\ ~Unplaced(b, i) /\ ~Unplaced(c, i) /\ e.ent[i] = a.ent[i]
      BY <2>2, <2>4, <2>5, <2>6, <2>7, <2>9 DEF Unplaced
    <3>2. a.ent[i] \in Nat /\ After(a, i) <= a.size /\ After(e, i) = After(a, i) /\ After(a, i) \in Nat
      BY <1>4, <2>3, <3>1 DEF Fits, After
    <3>3. After(e, i) <= t.size /\ After(e, i) <= r.size
      BY <1>5, <1>11, <1>12, <3>2
    <3>4. f # {"alloc", "write"}
      BY <2>9
    <3> QED BY <2>1, <2>8, <2>9, <3>3, <3>4
  <2>10. CASE "exec" \notin f /\ "write" \notin f
    <3>1. Unplaced(t, i) /\ ~Unplaced(b, i) /\ b.ent[i] >= t.size
      BY <1>6, <2>2, <2>4, <2>5, <2>10
    <3>2. e.ent[i] = b.ent[i]
      BY <2>5, <2>6, <2>7, <3>1 DEF Unplaced
    <3>3. b.ent[i] \in Nat /\ After(b, i) <= b.size /\ After(e, i) = After(b, i) /\ After(b, i) \in Nat
      BY <1>6, <2>3, <3>1, <3>2 DEF Fits, After
    <3>4. e.ent[i] >= t.size /\ After(e, i) <= r.size /\ f # {"alloc", "write"}
      BY <1>7, <1>11, <2>10, <3>1, <3>2, <3>3
    <3> QED BY <2>1, <2>8, <2>10, <3>4
  <2>11. CASE "exec" \notin f /\ "write" \in f
    <3>1. Unplaced(r, i) /\ ~Unplaced(c, i) /\ c.ent[i] >= r.size
      BY <1>8, <2>2, <2>4, <2>5, <2>6, <2>11 DEF Unplaced
    <3>2. e.ent[i] = c.ent[i]
      BY <2>7, <3>1
    <3>3. e.ent[i] >= r.size /\ e.ent[i] >= t.size
      BY <1>11, <1>12, <2>8, <3>1, <3>2
    <3> QED BY <2>1, <2>8, <2>11, <3>3
  <2> QED BY <2>9, <2>10, <2>11
<1>14. Arranged(e, t.size, r.size)
  BY <1>10, <1>11, <1>12, <1>13 DEF Arranged
<1> QED BY <1>3, <1>14

-----------------------------------------------------------------------------
(* The symbols' names *)

Strings(w, n) ==
    w = [k \in 0 .. n |-> IF k = 0 THEN 1
                          ELSE IF k \in core_symbols THEN w[k - 1] + image.syms[k].len + 1 ELSE w[k - 1]]

\* The loop over the symbols has a sum after each of them.
LEMMA SomeStrings ==
    ASSUME NEW n \in Nat
    PROVE  \E w : Strings(w, n)
<1> DEFINE Step(x, k) == IF k \in core_symbols THEN x + image.syms[k].len + 1 ELSE x
           T == {k \in Nat : \E w : Strings(w, k)}
<1>1. 0 \in T
  <2>1. Strings([k \in 0 .. 0 |-> 1], 0)
    BY DEF Strings
  <2> QED BY <2>1
<1>2. ASSUME NEW k \in T PROVE k + 1 \in T
  <2>1. PICK w : Strings(w, k)
    OBVIOUS
  <2> DEFINE v == [i \in 0 .. k + 1 |-> IF i = k + 1 THEN Step(w[k], k + 1) ELSE w[i]]
  <2>2. Strings(v, k + 1)
    <3> SUFFICES ASSUME NEW i \in 0 .. k + 1
                 PROVE  v[i] = IF i = 0 THEN 1 ELSE Step(v[i - 1], i)
      BY DEF Strings
    <3>1. \A j \in 0 .. k : w[j] = IF j = 0 THEN 1 ELSE Step(w[j - 1], j)
      BY <2>1 DEF Strings
    <3> HIDE DEF Step
    <3>2. \A j \in 0 .. k : v[j] = w[j]
      OBVIOUS
    <3>3. CASE i = 0
      BY <3>1, <3>2, <3>3
    <3>4. CASE i \in 1 .. k
      <4>1. i \in 0 .. k /\ i - 1 \in 0 .. k /\ i # 0
        BY <3>4
      <4>2. v[i] = w[i] /\ v[i - 1] = w[i - 1]
        BY <3>2, <4>1
      <4> QED BY <3>1, <4>1, <4>2
    <3>5. CASE i = k + 1
      BY <3>2, <3>5
    <3> QED BY <3>3, <3>4, <3>5
  <2> QED BY <2>2
<1>3. T = Nat
  <2> HIDE DEF T
  <2>1. T \in SUBSET Nat
    BY DEF T
  <2> QED BY <1>1, <1>2, <2>1, Induct
<1> QED BY <1>3

\* The room for the symbols of functions and for their names is a number.
LEMMA StringsAre ==
    ASSUME IsImage(image)
    PROVE  core_strings \in Nat /\ Cardinality(core_symbols) * SymSize \in Nat
<1> DEFINE n == Len(image.syms)
<1>1. n \in Nat /\ DOMAIN image.syms = 1 .. n /\ \A k \in 1 .. n : image.syms[k].len \in Nat
  BY DEF IsImage
<1>2. \E w : w = [k \in 0 .. n |-> IF k = 0 THEN 1
                                   ELSE IF k \in core_symbols THEN w[k - 1] + image.syms[k].len + 1 ELSE w[k - 1]]
  <2>1. \E w : Strings(w, n)
    <3> HIDE DEF n
    <3> QED BY <1>1, SomeStrings
  <2> QED BY <2>1, Zenon DEF Strings
<1>3. PICK w : /\ w = [k \in 0 .. n |-> IF k = 0 THEN 1
                                        ELSE IF k \in core_symbols THEN w[k - 1] + image.syms[k].len + 1 ELSE w[k - 1]]
               /\ core_strings = w[n]
  BY <1>2, Zenon DEF core_strings
<1>4. \A k \in 0 .. n : w[k] = IF k = 0 THEN 1
                               ELSE IF k \in core_symbols THEN w[k - 1] + image.syms[k].len + 1 ELSE w[k - 1]
  BY <1>3
<1> DEFINE T == {k \in Nat : k <= n => w[k] \in Nat}
<1> HIDE DEF n
<1>5. 0 \in T
  <2>1. 0 \in 0 .. n
    BY <1>1
  <2>2. w[0] = 1
    BY <1>4, <2>1, Zenon
  <2> QED BY <2>2
<1>6. ASSUME NEW k \in T PROVE k + 1 \in T
  <2>1. CASE k + 1 <= n
    <3>1. k \in 0 .. n /\ k + 1 \in 0 .. n /\ k + 1 # 0 /\ k + 1 - 1 = k /\ k + 1 \in 1 .. n
      BY <1>1, <2>1
    <3>2. w[k] \in Nat /\ image.syms[k + 1].len \in Nat
      BY <1>1, <3>1
    <3>3. w[k + 1] = IF k + 1 \in core_symbols THEN w[k] + image.syms[k + 1].len + 1 ELSE w[k]
      BY <1>4, <3>1
    <3> QED BY <3>2, <3>3
  <2> QED BY <2>1
<1>7. T = Nat
  <2> HIDE DEF T
  <2>1. T \in SUBSET Nat
    BY DEF T
  <2> QED BY <1>5, <1>6, <2>1, Induct
<1>8. w[n] \in Nat
  BY <1>1, <1>7
<1>9. Cardinality(core_symbols) \in Nat
  <2>1. IsFiniteSet(1 .. n)
    BY <1>1, FS_Interval
  <2>2. core_symbols \subseteq 1 .. n
    BY <1>1 DEF core_symbols
  <2> QED BY <2>1, <2>2, FS_Subset, FS_CardinalityType
<1>10. PICK c : c = Cardinality(core_symbols) /\ c \in Nat
  BY <1>9
<1> QED BY <1>3, <1>8, <1>10, LayoutAssumption

-----------------------------------------------------------------------------
(* What the steps leave of the file *)

\* A search that yields 0 or the first found is 0 only when nothing is found.
LEMMA LowestIs ==
    ASSUME NEW S \in SUBSET (Nat \ {0}), NEW x, x = IF S = {} THEN 0 ELSE Min(S)
    PROVE  (x # 0 <=> S # {}) /\ (x # 0 => x \in S)
<1>1. CASE S = {}
  BY <1>1
<1>2. CASE S # {}
  <2>1. x \in S
    BY <1>2, MinIs
  <2> QED BY <1>2, <2>1
<1> QED BY <1>1, <1>2

\* The sections of a file, as the lemmas on layouts use them.
LEMMA ImageIsOk ==
    ASSUME IsImage(image)
    PROVE  SecsOk /\ e_shnum < SHN_ABS /\ Secs \subseteq Nat \ {0}
<1>1. SecsOk /\ e_shnum < SHN_ABS
  BY DEF IsImage, SecsOk, Secs, Sec, e_shnum
<1> QED BY <1>1, SecsAre DEF SecsOk

Names == {".kpm.init", ".kpm.exit", ".kpm.info"}
\* What setup_load_info asks of a file.
Accepted ==
    /\ \A i \in Secs : InFile(Sec(i))
    /\ \A name \in Names : find_sec(name) # 0
    /\ get_modinfo("name") # 0 /\ get_modinfo("version") # 0 /\ SymTab # 0

\* The symbol table and the table of its strings are two sections.
LEMMA SymTabIs ==
    ASSUME IsImage(image), SymTab # 0
    PROVE  SymTab \in Secs /\ StrTab \in Secs /\ StrTab # SymTab
<1> DEFINE found == {i \in Secs : Sec(i).type = "symtab"}
<1>1. found \in SUBSET (Nat \ {0})
  BY ImageIsOk
<1>2. SymTab = IF found = {} THEN 0 ELSE Min(found)
  BY DEF SymTab
<1> HIDE DEF found
<1>3. SymTab \in found
  BY <1>1, <1>2, LowestIs
<1>4. SymTab \in Secs /\ Sec(SymTab).type = "symtab"
  BY <1>3 DEF found
<1>5. PICK i : i = SymTab /\ i \in Secs /\ Sec(i).type = "symtab"
  BY <1>4
<1>6. image.secs[i].link \in DOMAIN image.secs \ {i}
  BY <1>5 DEF IsImage, Secs, Sec
<1> QED BY <1>5, <1>6 DEF StrTab, Secs, Sec

\* A header of the same section: its address, place and flags may be others.
Same(s, t) ==
    /\ DOMAIN t = DOMAIN s /\ t.name = s.name /\ t.type = s.type /\ t.size = s.size /\ t.align = s.align
    /\ t.link = s.link /\ t.offset = s.offset /\ s.flags \subseteq t.flags

\* What setup_load_info found in a file stays true while load_module only
\* changes addresses, places and flags, and only adds flags.
LEMMA ImageStays ==
    ASSUME IsImage(image), NEW h, image' = [image EXCEPT !.secs = h], DOMAIN h = Secs,
           \A i \in Secs : Same(Sec(i), h[i])
    PROVE  /\ IsImage(image)' /\ Secs' = Secs /\ \A i \in Secs : Sec(i)' = h[i]
           /\ image'.magic = image.magic /\ image'.tableFits = image.tableFits /\ image'.syms = image.syms
           /\ SymTab' = SymTab /\ (SymTab # 0 => StrTab' = StrTab)
           /\ Accepted => Accepted'
<1>1. /\ DOMAIN image' = DOMAIN image /\ image'.secs = h /\ image'.len = image.len /\ image'.syms = image.syms
      /\ image'.info = image.info /\ image'.magic = image.magic /\ image'.tableFits = image.tableFits
  <2>1. DOMAIN image = {"secs", "len", "syms", "info", "magic", "tableFits"}
    BY DEF IsImage
  <2> QED BY <2>1
<1>2. Secs' = Secs /\ \A i \in Secs : Sec(i)' = h[i]
  BY <1>1 DEF Secs, Sec
<1>3. IsImage(image)'
  <2>1. \A i \in Secs :
            /\ DOMAIN h[i] = {"name", "type", "flags", "size", "align", "link", "offset", "addr", "entsize"}
            /\ h[i].size \in Nat /\ h[i].align \in Nat /\ (h[i].align = 0 \/ PowerOfTwo(h[i].align))
            /\ h[i].type = "symtab" => h[i].link \in Secs \ {i}
    BY DEF IsImage, Same, Sec, Secs
  <2>2. /\ IsFiniteSet(Secs) /\ Secs = 1 .. Cardinality(Secs) /\ Cardinality(Secs) < SHN_ABS
        /\ Len(image.syms) \in Nat /\ DOMAIN image.syms = 1 .. Len(image.syms)
        /\ \A k \in DOMAIN image.syms : image.syms[k].len \in Nat
        /\ DOMAIN image = {"secs", "len", "syms", "info", "magic", "tableFits"}
    BY DEF IsImage, Secs
  <2> QED BY <1>1, <2>1, <2>2 DEF IsImage
<1>4. SymTab' = SymTab
  <2>1. {i \in Secs : Sec(i).type = "symtab"}' = {i \in Secs : Sec(i).type = "symtab"}
    BY <1>2 DEF Same
  <2> QED BY <2>1 DEF SymTab
<1>5. SymTab # 0 => StrTab' = StrTab
  <2> SUFFICES ASSUME SymTab # 0 PROVE StrTab' = StrTab
    OBVIOUS
  <2>1. PICK i : i = SymTab /\ i \in Secs
    BY SymTabIs
  <2>2. Sec(i)'.link = Sec(i).link
    BY <1>2, <2>1 DEF Same
  <2>3. StrTab' = Sec(i)'.link
    BY <1>4, <2>1 DEF StrTab, Sec
  <2> QED BY <2>1, <2>2, <2>3 DEF StrTab
<1>6. ASSUME Accepted PROVE Accepted'
  <2>1. ASSUME NEW i \in Secs PROVE InFile(Sec(i))'
    <3>1. InFile(Sec(i)) /\ Same(Sec(i), h[i]) /\ Sec(i)' = h[i]
      BY <1>2, <1>6 DEF Accepted
    <3> QED BY <1>1, <3>1 DEF InFile, Same
  <2>2. ASSUME NEW name \in Names PROVE find_sec(name)' # 0
    <3> DEFINE was == {i \in Secs : Alloc(Sec(i)) /\ Sec(i).name = name}
               is == {i \in Secs : Alloc(h[i]) /\ h[i].name = name}
    <3>1. was \in SUBSET (Nat \ {0}) /\ is \in SUBSET (Nat \ {0}) /\ was \subseteq is
      BY ImageIsOk DEF Same, Alloc
    <3>2. find_sec(name) # 0 /\ find_sec(name) = IF was = {} THEN 0 ELSE Min(was)
      BY <1>6 DEF Accepted, find_sec
    <3>3. find_sec(name)' = IF is = {} THEN 0 ELSE Min(is)
      <4>1. {i \in Secs : Alloc(Sec(i)) /\ Sec(i).name = name}' = is
        BY <1>2 DEF Alloc
      <4> HIDE DEF is
      <4> QED BY <4>1 DEF find_sec
    <3> HIDE DEF was, is
    <3>4. is # {}
      BY <3>1, <3>2
    <3> QED BY <3>1, <3>3, <3>4, LowestIs
  <2>3. get_modinfo("name")' # 0 /\ get_modinfo("version")' # 0
    BY <1>1, <1>6 DEF Accepted, get_modinfo
  <2> QED BY <1>2, <1>4, <1>6, <2>1, <2>2, <2>3 DEF Accepted, Names, Sec
<1> QED BY <1>1, <1>2, <1>3, <1>4, <1>5, <1>6

-----------------------------------------------------------------------------
(* The steps *)

End(i) == Sec(i).entsize + Sec(i).size
InFileStill == \A i \in Secs : Sec(i).addr = <<"file", Sec(i).offset>>
\* The allocated sections lie in the module, aligned, side by side; those of
\* no table of T by what they hold.
Placement(T) ==
    /\ mod.size \in Nat /\ mod.text_size \in Nat /\ mod.ro_size \in Nat
    /\ \A i \in Kept :
        /\ Sec(i).entsize \in Nat /\ End(i) <= mod.size
        /\ Sec(i).align > 1 => Sec(i).entsize % Sec(i).align = 0
    /\ \A i, j \in Kept : i # j => End(i) <= Sec(j).entsize \/ End(j) <= Sec(i).entsize
    /\ \A i \in Kept \ T :
        /\ "exec" \in Sec(i).flags => End(i) <= mod.text_size
        /\ "exec" \notin Sec(i).flags => Sec(i).entsize >= mod.text_size
        /\ "write" \notin Sec(i).flags => End(i) <= mod.ro_size
        /\ Sec(i).flags = {"alloc", "write"} => Sec(i).entsize >= mod.ro_size
\* None lies in the room for the symbols of functions.
Cored ==
    /\ mod.core[1] \in Nat /\ mod.core[2] \in Nat
    /\ \A i \in Kept : End(i) <= mod.core[1] \/ mod.core[2] <= Sec(i).entsize
Moved ==
    /\ \A i \in Kept :
        /\ Sec(i).addr = <<"module", Sec(i).entsize>>
        /\ Sec(i).type # "nobits" =>
            \E c \in mod.copies : c.sec = i /\ c.from = <<"file", Sec(i).offset>> /\ c.at = Sec(i).entsize
    /\ mod.init = Sec(find_sec(".kpm.init")).entsize /\ mod.exit = Sec(find_sec(".kpm.exit")).entsize
    /\ mod.info = <<"module", Sec(find_sec(".kpm.info")).entsize>>
Resolved ==
    /\ ~\E k \in 2..Len(image.syms) : \/ image.syms[k].shndx = SHN_UNDEF /\ image.syms[k].name \notin KernelSymbols
                                      \/ image.syms[k].shndx = SHN_COMMON /\ image.syms[k].lto
    /\ DOMAIN mod.syms = 2..Len(image.syms)
    /\ \A k \in DOMAIN mod.syms : mod.syms[k] = Simplified(image.syms[k])

ModFields == {"size", "text_size", "ro_size", "core", "init", "exit", "ctl0", "info", "copies", "syms"}
LayoutInv ==
    /\ IsImage(image) /\ DOMAIN mod = ModFields
    /\ stage \in {"check", "setup", "layout", "symtab", "move", "simplify", "loaded", "refused"}
    /\ stage \notin {"check", "refused"} => image.magic /\ image.tableFits
    /\ stage \in {"layout", "symtab", "move", "simplify", "loaded"} => Accepted
    /\ stage \in {"layout", "symtab", "move"} => InFileStill
    /\ stage = "symtab" => Placement({})
    /\ stage \in {"move", "simplify", "loaded"} => Placement(Tables) /\ Cored
    /\ stage \in {"simplify", "loaded"} => Moved
    /\ stage = "loaded" => Resolved

\* setup_load_info lets a file through only when it found all it needs.
LEMMA SetupIs ==
    ASSUME LayoutInv, setup_load_info
    PROVE  LayoutInv'
<1>1. IsImage(image) /\ DOMAIN mod = ModFields /\ image.magic /\ image.tableFits
  BY DEF LayoutInv, setup_load_info
<1>2. CASE /\ Accepted
           /\ image' = [image EXCEPT !.secs = rewrite_section_headers]
           /\ mod' = [mod EXCEPT !.info = <<"file", Sec(find_sec(".kpm.info")).offset>>]
           /\ stage' = "layout"
  <2> DEFINE h == rewrite_section_headers
  <2>1. DOMAIN h = Secs /\ \A i \in Secs : h[i] = [Sec(i) EXCEPT !.addr = <<"file", Sec(i).offset>>]
    BY DEF rewrite_section_headers
  <2> HIDE DEF h
  <2>2. ASSUME NEW i \in Secs PROVE Same(Sec(i), h[i]) /\ h[i].addr = <<"file", h[i].offset>>
    <3>1. DOMAIN Sec(i) = {"name", "type", "flags", "size", "align", "link", "offset", "addr", "entsize"}
      BY <1>1 DEF IsImage, Secs, Sec
    <3>2. PICK s, a : s = Sec(i) /\ a = <<"file", s.offset>>
      OBVIOUS
    <3>3. h[i] = [s EXCEPT !.addr = a]
      BY <2>1, <3>2
    <3> QED BY <3>1, <3>2, <3>3 DEF Same
  <2>3. image' = [image EXCEPT !.secs = h]
    BY <1>2 DEF h
  <2>4. /\ IsImage(image)' /\ Secs' = Secs /\ \A i \in Secs : Sec(i)' = h[i]
        /\ image'.magic = image.magic /\ image'.tableFits = image.tableFits
        /\ Accepted'
    BY <1>1, <1>2, <2>1, <2>2, <2>3, ImageStays
  <2>5. InFileStill'
    BY <2>2, <2>4 DEF InFileStill, Sec
  <2>6. DOMAIN mod' = ModFields
    BY <1>1, <1>2
  <2> QED BY <1>1, <1>2, <2>4, <2>5, <2>6 DEF LayoutInv
<1>3. CASE stage' = "refused" /\ UNCHANGED <<image, mod>>
  <2>1. IsImage(image)' /\ DOMAIN mod' = ModFields
    BY <1>1, <1>3
  <2> QED BY <1>3, <2>1 DEF LayoutInv
<1> QED BY <1>2, <1>3 DEF setup_load_info, Becomes, Accepted, Names

\* layout_sections places every allocated section.
LEMMA LayoutIs ==
    ASSUME LayoutInv, layout_sections
    PROVE  LayoutInv'
<1>1. /\ IsImage(image) /\ DOMAIN mod = ModFields /\ image.magic /\ image.tableFits /\ Accepted /\ InFileStill
      /\ SecsOk
  BY ImageIsOk DEF LayoutInv, layout_sections
<1>2. PICK lay, text, ro :
        /\ lay = AllLaid /\ text = TextLaid.size /\ ro = RoLaid.size
  OBVIOUS
<1>3. Arranged(lay, text, ro)
  BY <1>1, <1>2, AllArranged
<1> DEFINE h == [i \in Secs |-> [Sec(i) EXCEPT !.entsize = lay.ent[i]]]
<1>4. /\ mod' = [mod EXCEPT !.size = lay.size, !.text_size = text, !.ro_size = ro]
      /\ image' = [image EXCEPT !.secs = h] /\ stage' = "symtab"
  BY <1>2 DEF layout_sections, Becomes, AllLaid, TextLaid, RoLaid, Nowhere
<1>5. DOMAIN h = Secs /\ \A i \in Secs : h[i] = [Sec(i) EXCEPT !.entsize = lay.ent[i]]
  OBVIOUS
<1> HIDE DEF h
<1>6. ASSUME NEW i \in Secs
      PROVE  /\ Same(Sec(i), h[i]) /\ h[i].addr = Sec(i).addr /\ h[i].flags = Sec(i).flags
             /\ h[i].entsize = lay.ent[i]
  <2>1. DOMAIN Sec(i) = {"name", "type", "flags", "size", "align", "link", "offset", "addr", "entsize"}
    BY <1>1 DEF IsImage, Secs, Sec
  <2>2. PICK s, a : s = Sec(i) /\ a = lay.ent[i]
    OBVIOUS
  <2>3. h[i] = [s EXCEPT !.entsize = a]
    BY <1>5, <2>2
  <2> QED BY <2>1, <2>2, <2>3 DEF Same
<1>7. /\ IsImage(image)' /\ Secs' = Secs /\ \A i \in Secs : Sec(i)' = h[i]
      /\ image'.magic = image.magic /\ image'.tableFits = image.tableFits
      /\ Accepted'
  BY <1>1, <1>4, <1>5, <1>6, ImageStays
<1>8. InFileStill'
  BY <1>1, <1>6, <1>7 DEF InFileStill, Sec, Same
<1>9. /\ DOMAIN mod' = ModFields /\ mod'.size = lay.size /\ mod'.text_size = text /\ mod'.ro_size = ro
  BY <1>1, <1>4 DEF ModFields
<1>10. Kept' = Kept
  BY <1>6, <1>7 DEF Kept, Alloc
<1>11. \A i \in Kept : /\ i \in Secs /\ Alloc(Sec(i)) /\ Sec(i)'.entsize = lay.ent[i] /\ End(i)' = After(lay, i)
                       /\ Sec(i)'.flags = Sec(i).flags /\ Sec(i)'.align = Sec(i).align
  BY <1>6, <1>7 DEF Kept, End, After, Same
<1>12. Placement({})'
  <2>1. mod'.size \in Nat /\ mod'.text_size \in Nat /\ mod'.ro_size \in Nat
    BY <1>3, <1>9 DEF Arranged, Fits
  <2>2. ASSUME NEW i \in Kept'
        PROVE  /\ Sec(i)'.entsize \in Nat /\ End(i)' <= mod'.size
               /\ Sec(i)'.align > 1 => Sec(i)'.entsize % Sec(i)'.align = 0
               /\ "exec" \in Sec(i)'.flags => End(i)' <= mod'.text_size
               /\ "exec" \notin Sec(i)'.flags => Sec(i)'.entsize >= mod'.text_size
               /\ "write" \notin Sec(i)'.flags => End(i)' <= mod'.ro_size
               /\ Sec(i)'.flags = {"alloc", "write"} => Sec(i)'.entsize >= mod'.ro_size
    <3>1. /\ i \in Secs /\ Alloc(Sec(i)) /\ Sec(i)'.entsize = lay.ent[i] /\ End(i)' = After(lay, i)
          /\ Sec(i)'.flags = Sec(i).flags /\ Sec(i)'.align = Sec(i).align
      BY <1>10, <1>11
    <3> QED BY <1>3, <1>9, <3>1 DEF Arranged, Fits
  <2>3. ASSUME NEW i \in Kept', NEW j \in Kept', i # j
        PROVE  End(i)' <= Sec(j)'.entsize \/ End(j)' <= Sec(i)'.entsize
    BY <1>3, <1>10, <1>11, <2>3 DEF Arranged, Fits
  <2> QED BY <2>1, <2>2, <2>3 DEF Placement
<1> QED BY <1>1, <1>4, <1>7, <1>8, <1>9, <1>12 DEF LayoutInv

\* layout_symtab puts the two tables behind the rest, and the room between
\* them, wherever the headers said they were.
LEMMA SymtabIs ==
    ASSUME LayoutInv, layout_symtab
    PROVE  LayoutInv'
<1>1. /\ IsImage(image) /\ DOMAIN mod = ModFields /\ image.magic /\ image.tableFits /\ Accepted /\ InFileStill
      /\ SecsOk /\ Placement({})
  BY ImageIsOk DEF LayoutInv, layout_symtab
<1>2. PICK sym, str : sym = SymTab /\ str = StrTab
  OBVIOUS
<1>3. sym \in Secs /\ str \in Secs /\ sym # str /\ SymTab # 0
  BY <1>1, <1>2, SymTabIs DEF Accepted
<1>4. PICK room, strings : room = Cardinality(core_symbols) * SymSize /\ strings = core_strings
  OBVIOUS
<1>5. room \in Nat /\ strings \in Nat
  BY <1>1, <1>4, StringsAre
<1>6. PICK symAt : symAt = get_offset(mod.size, Sec(sym))
  OBVIOUS
<1>7. PICK symoffs : symoffs = get_offset(symAt + Sec(sym).size, Sec(sym))
  OBVIOUS
<1>8. PICK strAt : strAt = get_offset(symoffs + room + strings, Sec(str))
  OBVIOUS
<1>9. Sec(sym).size \in Nat /\ Sec(str).size \in Nat /\ mod.size \in Nat
  BY <1>1, <1>3 DEF SecsOk, Placement
<1>10. symAt \in Nat /\ symAt >= mod.size /\ (Sec(sym).align > 1 => symAt % Sec(sym).align = 0)
  BY <1>1, <1>3, <1>6, <1>9, OffsetIs
<1>11. symoffs \in Nat /\ symoffs >= symAt + Sec(sym).size
  <2>1. symAt + Sec(sym).size \in Nat
    BY <1>9, <1>10
  <2> QED BY <1>1, <1>3, <1>7, <2>1, OffsetIs
<1>12. strAt \in Nat /\ strAt >= symoffs + room + strings /\ (Sec(str).align > 1 => strAt % Sec(str).align = 0)
  <2>1. symoffs + room + strings \in Nat
    BY <1>5, <1>11
  <2> QED BY <1>1, <1>3, <1>8, <2>1, OffsetIs
<1> DEFINE h == [image.secs EXCEPT ![sym] = AtPlace(Sec(sym), symAt), ![str] = AtPlace(Sec(str), strAt)]
<1>13. /\ mod' = [mod EXCEPT !.size = strAt + Sec(str).size, !.core = <<symoffs, symoffs + room + strings>>]
       /\ image' = [image EXCEPT !.secs = h] /\ stage' = "move"
  <2>1. stage' = "move"
    BY DEF layout_symtab, Becomes
  <2>2. mod' = [mod EXCEPT !.size = strAt + Sec(str).size, !.core = <<symoffs, symoffs + room + strings>>]
    BY <1>2, <1>4, <1>6, <1>7, <1>8, Zenon DEF layout_symtab
  <2>3. image' = [image EXCEPT !.secs = h]
    BY <1>2, <1>4, <1>6, <1>7, <1>8, Zenon DEF layout_symtab
  <2> QED BY <2>1, <2>2, <2>3
<1>14. /\ DOMAIN h = Secs
       /\ h[sym] = AtPlace(Sec(sym), symAt) /\ h[str] = AtPlace(Sec(str), strAt)
       /\ \A i \in Secs \ {sym, str} : h[i] = Sec(i)
  BY <1>3 DEF Secs, Sec
<1> HIDE DEF h
<1>15. ASSUME NEW i \in {sym, str}
       PROVE  /\ Same(Sec(i), h[i]) /\ h[i].addr = Sec(i).addr
              /\ h[i].entsize = IF i = sym THEN symAt ELSE strAt
  <2>1. DOMAIN Sec(i) = {"name", "type", "flags", "size", "align", "link", "offset", "addr", "entsize"}
    BY <1>1, <1>3 DEF IsImage, Secs, Sec
  <2>2. PICK s, a, f : s = Sec(i) /\ a = (IF i = sym THEN symAt ELSE strAt) /\ f = s.flags \cup {"alloc"}
    OBVIOUS
  <2>3. h[i] = [s EXCEPT !.flags = f, !.entsize = a]
    BY <1>3, <1>14, <2>2 DEF AtPlace
  <2> QED BY <2>1, <2>2, <2>3 DEF Same
<1>16. \A i \in Secs : Same(Sec(i), h[i]) /\ h[i].addr = Sec(i).addr
  BY <1>14, <1>15 DEF Same
<1>17. /\ IsImage(image)' /\ Secs' = Secs /\ \A i \in Secs : Sec(i)' = h[i]
       /\ image'.magic = image.magic /\ image'.tableFits = image.tableFits
       /\ Tables' = {sym, str}
       /\ Accepted'
  <2>1. /\ IsImage(image)' /\ Secs' = Secs /\ \A i \in Secs : Sec(i)' = h[i]
        /\ image'.magic = image.magic /\ image'.tableFits = image.tableFits
        /\ SymTab' = SymTab /\ (SymTab # 0 => StrTab' = StrTab)
        /\ (Accepted => Accepted')
    BY <1>1, <1>13, <1>14, <1>16, ImageStays
  <2> QED BY <1>1, <1>2, <1>3, <2>1 DEF Tables
<1>18. InFileStill'
  BY <1>1, <1>16, <1>17 DEF InFileStill, Sec, Same
<1>19. /\ DOMAIN mod' = ModFields /\ mod'.size = strAt + Sec(str).size /\ mod'.text_size = mod.text_size
       /\ mod'.ro_size = mod.ro_size /\ mod'.core[1] = symoffs /\ mod'.core[2] = symoffs + room + strings
  <2>1. PICK s, c : s = strAt + Sec(str).size /\ c = <<symoffs, symoffs + room + strings>>
    OBVIOUS
  <2>2. mod' = [mod EXCEPT !.size = s, !.core = c]
    BY <1>13, <2>1
  <2>3. /\ DOMAIN mod' = ModFields /\ mod'.size = s /\ mod'.core = c /\ mod'.text_size = mod.text_size
        /\ mod'.ro_size = mod.ro_size
    BY <1>1, <2>2 DEF ModFields
  <2> QED BY <2>1, <2>3
<1>20. ASSUME NEW i \in Kept', i \notin {sym, str}
       PROVE  i \in Kept /\ Sec(i)' = Sec(i) /\ End(i)' = End(i) /\ End(i) \in Nat /\ End(i) <= symAt
  <2>1. i \in Secs /\ Sec(i)' = Sec(i)
    BY <1>14, <1>17, <1>20 DEF Kept
  <2>2. i \in Kept /\ End(i)' = End(i)
    BY <1>17, <1>20, <2>1 DEF Kept, Alloc, End
  <2>3. End(i) \in Nat /\ End(i) <= mod.size
    BY <1>1, <2>1, <2>2 DEF Placement, End, SecsOk
  <2> QED BY <1>9, <1>10, <2>1, <2>2, <2>3
<1>21. /\ Sec(sym)'.entsize = symAt /\ End(sym)' = symAt + Sec(sym).size /\ Sec(sym)'.align = Sec(sym).align
       /\ Sec(str)'.entsize = strAt /\ End(str)' = strAt + Sec(str).size /\ Sec(str)'.align = Sec(str).align
  BY <1>3, <1>15, <1>17 DEF End, Same
<1>22. mod'.size \in Nat /\ symAt <= mod'.size /\ End(sym)' <= strAt /\ strAt <= mod'.size /\ End(sym)' \in Nat
       /\ End(str)' \in Nat /\ symAt <= strAt /\ End(sym)' <= mod'.size
  BY <1>5, <1>9, <1>10, <1>11, <1>12, <1>19, <1>21
<1>23. Placement(Tables)'
  <2>1. mod'.size \in Nat /\ mod'.text_size \in Nat /\ mod'.ro_size \in Nat
    BY <1>1, <1>19, <1>22 DEF Placement
  <2>2. ASSUME NEW i \in Kept'
        PROVE  /\ Sec(i)'.entsize \in Nat /\ End(i)' <= mod'.size
               /\ Sec(i)'.align > 1 => Sec(i)'.entsize % Sec(i)'.align = 0
    <3>1. CASE i \notin {sym, str}
      <4>1. i \in Kept /\ Sec(i)' = Sec(i) /\ End(i)' = End(i) /\ End(i) \in Nat /\ End(i) <= symAt
        BY <1>20, <3>1
      <4>2. End(i) <= mod'.size
        BY <1>10, <1>22, <4>1
      <4> QED BY <1>1, <4>1, <4>2 DEF Placement
    <3>2. CASE i = sym
      BY <1>10, <1>21, <1>22, <3>2
    <3>3. CASE i = str
      BY <1>12, <1>19, <1>21, <1>22, <3>3
    <3> QED BY <3>1, <3>2, <3>3
  <2>3. ASSUME NEW i \in Kept', NEW j \in Kept', i # j
        PROVE  End(i)' <= Sec(j)'.entsize \/ End(j)' <= Sec(i)'.entsize
    <3>1. ASSUME NEW k \in Kept', k \notin {sym, str} PROVE End(k)' <= symAt /\ End(k)' <= strAt
      BY <1>10, <1>12, <1>20, <1>22, <3>1
    <3>2. CASE i \notin {sym, str} /\ j \notin {sym, str}
      <4>1. /\ i \in Kept /\ Sec(i)' = Sec(i) /\ End(i)' = End(i)
            /\ j \in Kept /\ Sec(j)' = Sec(j) /\ End(j)' = End(j)
        BY <1>20, <3>2
      <4> QED BY <1>1, <2>3, <4>1 DEF Placement
    <3>3. CASE i \notin {sym, str} /\ j \in {sym, str}
      BY <1>21, <3>1, <3>3
    <3>4. CASE j \notin {sym, str} /\ i \in {sym, str}
      BY <1>21, <3>1, <3>4
    <3>5. CASE i \in {sym, str} /\ j \in {sym, str}
      BY <1>21, <1>22, <2>3, <3>5
    <3> QED BY <3>2, <3>3, <3>4, <3>5
  <2>4. ASSUME NEW i \in (Kept \ Tables)'
        PROVE  /\ "exec" \in Sec(i)'.flags => End(i)' <= mod'.text_size
               /\ "exec" \notin Sec(i)'.flags => Sec(i)'.entsize >= mod'.text_size
               /\ "write" \notin Sec(i)'.flags => End(i)' <= mod'.ro_size
               /\ Sec(i)'.flags = {"alloc", "write"} => Sec(i)'.entsize >= mod'.ro_size
    <3>1. i \in Kept /\ Sec(i)' = Sec(i) /\ End(i)' = End(i)
      BY <1>17, <1>20
    <3> QED BY <1>1, <1>19, <3>1 DEF Placement
  <2> QED BY <2>1, <2>2, <2>3, <2>4 DEF Placement
<1>24. Cored'
  <2>1. mod'.core[1] \in Nat /\ mod'.core[2] \in Nat
    BY <1>5, <1>11, <1>19
  <2>2. ASSUME NEW i \in Kept'
        PROVE  End(i)' <= mod'.core[1] \/ mod'.core[2] <= Sec(i)'.entsize
    <3>1. CASE i \notin {sym, str}
      <4>1. End(i)' \in Nat /\ End(i)' <= symAt
        BY <1>20, <3>1
      <4> QED BY <1>9, <1>10, <1>11, <1>19, <4>1
    <3>2. CASE i = sym
      BY <1>11, <1>19, <1>21, <3>2
    <3>3. CASE i = str
      BY <1>12, <1>19, <1>21, <3>3
    <3> QED BY <3>1, <3>2, <3>3
  <2> QED BY <2>1, <2>2 DEF Cored
<1> QED BY <1>1, <1>13, <1>17, <1>18, <1>19, <1>23, <1>24 DEF LayoutInv

\* A section that find_sec finds is one.
LEMMA FindIs ==
    ASSUME IsImage(image), NEW name, find_sec(name) # 0
    PROVE  find_sec(name) \in Secs
<1> DEFINE found == {i \in Secs : Alloc(Sec(i)) /\ Sec(i).name = name}
<1>1. found \in SUBSET (Nat \ {0})
  BY ImageIsOk
<1>2. find_sec(name) = IF found = {} THEN 0 ELSE Min(found)
  BY DEF find_sec
<1>3. found \subseteq Secs
  OBVIOUS
<1> HIDE DEF found
<1> QED BY <1>1, <1>2, <1>3, LowestIs

\* move_module copies every section to its place and points at the copies.
LEMMA MoveIs ==
    ASSUME LayoutInv, move_module
    PROVE  LayoutInv'
<1>1. /\ IsImage(image) /\ DOMAIN mod = ModFields /\ image.magic /\ image.tableFits /\ Accepted /\ InFileStill
      /\ SecsOk /\ Placement(Tables) /\ Cored /\ SymTab # 0
  BY ImageIsOk DEF LayoutInv, move_module, Accepted
<1>2. CASE stage' = "refused" /\ UNCHANGED <<image, mod>>
  <2>1. IsImage(image)' /\ DOMAIN mod' = ModFields
    BY <1>1, <1>2
  <2> QED BY <1>2, <2>1 DEF LayoutInv
<1>3. CASE stage' # "refused"
  <2> DEFINE h == Copied
             copies == {[sec |-> i, from |-> Sec(i).addr, at |-> Sec(i).entsize] :
                            i \in {i \in Secs : Alloc(Sec(i)) /\ Sec(i).type # "nobits"}}
  <2>1. PICK init, exit, ctl0, info :
          /\ init = EntryOf(find_sec(".kpm.init")) /\ exit = EntryOf(find_sec(".kpm.exit"))
          /\ ctl0 = EntryOf(ctl0_sec) /\ info = <<"module", EntryOf(find_sec(".kpm.info"))>>
    OBVIOUS
  <2>2. /\ stage' = "simplify" /\ image' = [image EXCEPT !.secs = h]
        /\ mod' = [mod EXCEPT !.init = init, !.exit = exit, !.ctl0 = ctl0, !.info = info, !.copies = copies]
    BY <1>3, <2>1, Zenon DEF move_module, Becomes
  <2>3. DOMAIN h = Secs /\ \A i \in Secs :
            h[i] = IF Alloc(Sec(i)) THEN [Sec(i) EXCEPT !.addr = <<"module", Sec(i).entsize>>] ELSE Sec(i)
    BY DEF Copied
  <2>4. \A i \in Secs : Alloc(Sec(i)) /\ Sec(i).type # "nobits" =>
            \E c \in copies : c.sec = i /\ c.from = Sec(i).addr /\ c.at = Sec(i).entsize
    <3> TAKE i \in Secs
    <3> HAVE Alloc(Sec(i)) /\ Sec(i).type # "nobits"
    <3>1. [sec |-> i, from |-> Sec(i).addr, at |-> Sec(i).entsize] \in copies
      OBVIOUS
    <3> HIDE DEF copies
    <3> QED BY <3>1
  <2> HIDE DEF h, copies
  <2>5. ASSUME NEW i \in Secs
        PROVE  /\ Same(Sec(i), h[i]) /\ h[i].flags = Sec(i).flags /\ h[i].entsize = Sec(i).entsize
               /\ Alloc(Sec(i)) => h[i].addr = <<"module", Sec(i).entsize>>
    <3>1. DOMAIN Sec(i) = {"name", "type", "flags", "size", "align", "link", "offset", "addr", "entsize"}
      BY <1>1 DEF IsImage, Secs, Sec
    <3>2. PICK s, a : s = Sec(i) /\ a = <<"module", s.entsize>>
      OBVIOUS
    <3>3. h[i] = IF Alloc(s) THEN [s EXCEPT !.addr = a] ELSE s
      BY <2>3, <3>2
    <3> QED BY <3>1, <3>2, <3>3 DEF Same
  <2>6. /\ IsImage(image)' /\ Secs' = Secs /\ \A i \in Secs : Sec(i)' = h[i]
        /\ image'.magic = image.magic /\ image'.tableFits = image.tableFits
        /\ SymTab' = SymTab /\ StrTab' = StrTab
        /\ Accepted'
    BY <1>1, <2>2, <2>3, <2>5, ImageStays
  <2>7. /\ DOMAIN mod' = ModFields /\ mod'.size = mod.size /\ mod'.text_size = mod.text_size
        /\ mod'.ro_size = mod.ro_size /\ mod'.core = mod.core /\ mod'.init = init /\ mod'.exit = exit
        /\ mod'.info = info /\ mod'.copies = copies
    BY <1>1, <2>2 DEF ModFields
  <2>8. Kept' = Kept /\ Tables' = Tables
    BY <2>5, <2>6 DEF Kept, Alloc, Tables
  <2>9. ASSUME NEW i \in Kept
        PROVE  /\ Sec(i)'.entsize = Sec(i).entsize /\ End(i)' = End(i) /\ Sec(i)'.flags = Sec(i).flags
               /\ Sec(i)'.align = Sec(i).align /\ Sec(i)'.type = Sec(i).type /\ Sec(i)'.offset = Sec(i).offset
               /\ Sec(i)'.addr = <<"module", Sec(i).entsize>>
    <3>1. i \in Secs /\ Alloc(Sec(i))
      BY DEF Kept
    <3>2. Sec(i)' = h[i]
      BY <2>6, <3>1
    <3> QED BY <2>5, <3>1, <3>2 DEF End, Same
  <2>10. Placement(Tables)'
    BY <1>1, <2>7, <2>8, <2>9 DEF Placement
  <2>11. Cored'
    BY <1>1, <2>7, <2>8, <2>9 DEF Cored
  <2>12. ASSUME NEW name \in Names
         PROVE  Sec(find_sec(name))'.entsize = EntryOf(find_sec(name))
    <3>1. find_sec(name) # 0
      BY <1>1 DEF Accepted
    <3>2. PICK i : i = find_sec(name) /\ i \in Secs /\ i # 0
      BY <1>1, <3>1, FindIs
    <3>3. {j \in Secs : Alloc(Sec(j)) /\ Sec(j).name = name}' = {j \in Secs : Alloc(Sec(j)) /\ Sec(j).name = name}
      BY <2>5, <2>6 DEF Alloc, Same
    <3>4. find_sec(name)' = find_sec(name)
      BY <3>3 DEF find_sec
    <3>5. Sec(find_sec(name))' = h[i]
      BY <2>6, <3>2, <3>4 DEF Sec
    <3> QED BY <2>5, <3>2, <3>5 DEF EntryOf
  <2>13. Moved'
    <3>1. ASSUME NEW i \in Kept'
          PROVE  /\ Sec(i)'.addr = <<"module", Sec(i)'.entsize>>
                 /\ Sec(i)'.type # "nobits" =>
                     \E c \in mod'.copies : /\ c.sec = i /\ c.from = <<"file", Sec(i)'.offset>>
                                            /\ c.at = Sec(i)'.entsize
      <4>1. i \in Secs /\ Alloc(Sec(i)) /\ i \in Kept
        BY <2>8 DEF Kept
      <4>2. Sec(i).addr = <<"file", Sec(i).offset>>
        BY <1>1, <4>1 DEF InFileStill
      <4> QED BY <2>4, <2>7, <2>9, <4>1, <4>2
    <3>2. /\ mod'.init = Sec(find_sec(".kpm.init"))'.entsize /\ mod'.exit = Sec(find_sec(".kpm.exit"))'.entsize
          /\ mod'.info = <<"module", Sec(find_sec(".kpm.info"))'.entsize>>
      <4>1. {".kpm.init", ".kpm.exit", ".kpm.info"} = Names
        BY DEF Names
      <4> QED BY <2>1, <2>7, <2>12, <4>1
    <3> QED BY <3>1, <3>2 DEF Moved
  <2> QED BY <1>1, <2>2, <2>6, <2>7, <2>10, <2>11, <2>13 DEF LayoutInv
<1> QED BY <1>2, <1>3 DEF move_module, Becomes

\* simplify_symbols gives the symbols of sections the address of the copy.
LEMMA SimplifyIs ==
    ASSUME LayoutInv, simplify_symbols
    PROVE  LayoutInv'
<1> DEFINE all == 2..Len(image.syms)
           bad == \E k \in all : \/ image.syms[k].shndx = SHN_COMMON /\ image.syms[k].lto
                                 \/ image.syms[k].shndx = SHN_UNDEF /\ image.syms[k].name \notin KernelSymbols
           syms == [k \in all |-> Simplified(image.syms[k])]
<1>1. /\ IsImage(image) /\ DOMAIN mod = ModFields /\ image.magic /\ image.tableFits /\ Accepted
      /\ Placement(Tables) /\ Cored /\ Moved
  BY DEF LayoutInv, simplify_symbols
<1>2. image' = image /\ mod' = [mod EXCEPT !.syms = syms] /\ stage' = IF bad THEN "refused" ELSE "loaded"
  BY Zenon DEF simplify_symbols, Becomes
<1>3. DOMAIN syms = all /\ \A k \in all : syms[k] = Simplified(image.syms[k])
  OBVIOUS
<1> HIDE DEF syms
<1>4. /\ DOMAIN mod' = ModFields /\ mod'.size = mod.size /\ mod'.text_size = mod.text_size
      /\ mod'.ro_size = mod.ro_size /\ mod'.core = mod.core /\ mod'.init = mod.init /\ mod'.exit = mod.exit
      /\ mod'.info = mod.info /\ mod'.copies = mod.copies /\ mod'.syms = syms
  BY <1>1, <1>2 DEF ModFields
<1>5. Secs' = Secs /\ (\A i : Sec(i)' = Sec(i)) /\ Kept' = Kept /\ Tables' = Tables /\ Accepted' /\ IsImage(image)'
  BY <1>1, <1>2 DEF Secs, Sec, Kept, Tables, SymTab, StrTab, Accepted, InFile, find_sec, get_modinfo
<1>6. Placement(Tables)'
  BY <1>1, <1>4, <1>5 DEF Placement, End
<1>7. Cored'
  BY <1>1, <1>4, <1>5 DEF Cored, End
<1>8. Moved'
  <2>1. \A name : find_sec(name)' = find_sec(name)
    BY <1>2 DEF find_sec, Secs, Sec
  <2> QED BY <1>1, <1>2, <1>4, <1>5, <2>1 DEF Moved, Sec
<1>9. ASSUME ~bad PROVE Resolved'
  <2>1. \A k \in DOMAIN syms : Simplified(image.syms[k])' = syms[k]
    BY <1>2, <1>3 DEF Simplified, Sec, Secs
  <2> QED BY <1>2, <1>3, <1>4, <1>9, <2>1 DEF Resolved
<1> HIDE DEF bad
<1> QED BY <1>1, <1>2, <1>4, <1>5, <1>6, <1>7, <1>8, <1>9 DEF LayoutInv

\* Every step of load_module, and every next load, keeps the invariant.
LEMMA LayoutHolds == LayoutSpec => []LayoutInv
<1>1. LayoutInit => LayoutInv
  BY ImagesAssumption DEF LayoutInit, LayoutInv, NoModule, ModFields
<1>2. LayoutInv /\ [LayoutNext]_layoutVars => LayoutInv'
  <2> SUFFICES ASSUME LayoutInv, [LayoutNext]_layoutVars PROVE LayoutInv'
    OBVIOUS
  <2>1. CASE elf_header_check
    <3>1. IsImage(image)' /\ DOMAIN mod' = ModFields /\ image' = image
      BY <2>1 DEF LayoutInv, elf_header_check
    <3>2. (stage' = "setup" /\ image.magic /\ image.tableFits) \/ stage' = "refused"
      BY <2>1 DEF elf_header_check, Becomes
    <3> QED BY <3>1, <3>2 DEF LayoutInv
  <2>2. CASE setup_load_info
    BY <2>2, SetupIs
  <2>3. CASE layout_sections
    BY <2>3, LayoutIs
  <2>4. CASE layout_symtab
    BY <2>4, SymtabIs
  <2>5. CASE move_module
    BY <2>5, MoveIs
  <2>6. CASE simplify_symbols
    BY <2>6, SimplifyIs
  <2>7. CASE LoadAgain
    <3>1. IsImage(image)' /\ DOMAIN mod' = ModFields /\ stage' = "check"
      BY <2>7 DEF LayoutInv, LoadAgain, Becomes, NoModule, ModFields
    <3> QED BY <3>1 DEF LayoutInv
  <2>8. CASE UNCHANGED layoutVars
    <3>1. image' = image /\ mod' = mod /\ stage' = stage
      BY <2>8 DEF layoutVars
    <3>2. Secs' = Secs /\ (\A i : Sec(i)' = Sec(i)) /\ Kept' = Kept /\ Tables' = Tables /\ Accepted' = Accepted
      BY <3>1 DEF Secs, Sec, Kept, Tables, SymTab, StrTab, Accepted, InFile, find_sec, get_modinfo
    <3>3. \A name : find_sec(name)' = find_sec(name)
      BY <3>1 DEF find_sec, Secs, Sec
    <3>4. (InFileStill => InFileStill') /\ (Cored => Cored')
      BY <3>1, <3>2 DEF InFileStill, Cored, End
    <3>5. (Placement({}) => Placement({})') /\ (Placement(Tables) => Placement(Tables)')
      BY <3>1, <3>2 DEF Placement, End
    <3>6. Moved => Moved'
      BY <3>1, <3>2, <3>3 DEF Moved, Sec
    <3>7. Resolved => Resolved'
      <4>1. \A k : Simplified(image.syms[k])' = Simplified(image.syms[k])
        BY <3>1 DEF Simplified, Sec, Secs
      <4> QED BY <3>1, <4>1 DEF Resolved
    <3> QED BY <3>1, <3>2, <3>4, <3>5, <3>6, <3>7 DEF LayoutInv
  <2> QED BY <2>1, <2>2, <2>3, <2>4, <2>5, <2>6, <2>7, <2>8 DEF LayoutNext
<1> QED BY <1>1, <1>2, PTL DEF LayoutSpec

\* However often an image is loaded, whatever its sections, symbols and
\* defects: a module that load_module lets through is whole.
THEOREM ModulesAreWhole == LayoutSpec => []ModuleIsWhole
<1>1. LayoutInv => ModuleIsWhole
  <2> SUFFICES ASSUME LayoutInv, stage = "loaded" PROVE ModuleIsWhole
    BY DEF ModuleIsWhole
  <2>1. /\ IsImage(image) /\ image.magic /\ image.tableFits /\ Accepted /\ Placement(Tables) /\ Cored /\ Moved
        /\ Resolved /\ SecsOk /\ e_shnum < SHN_ABS /\ Secs \subseteq Nat \ {0} /\ e_shnum \in Nat
    BY ImageIsOk, SecsAre DEF LayoutInv
  <2>2. ~Defective
    <3>1. ASSUME NEW tag \in {"name", "version"} PROVE tag \in ToSet(image.info)
      <4>1. get_modinfo(tag) # 0
        BY <2>1 DEF Accepted
      <4>2. {k \in DOMAIN image.info : image.info[k] = tag} # {}
        BY <4>1 DEF get_modinfo
      <4> QED BY <4>2 DEF ToSet
    <3> QED BY <2>1, <3>1 DEF Defective, Accepted, Resolved, Names
  <2>3. ASSUME NEW i \in Kept
        PROVE  /\ i \in Secs /\ Sec(i).size \in Nat /\ Sec(i).entsize \in Nat /\ mod.size \in Nat
               /\ mod.core[1] \in Nat /\ mod.core[2] \in Nat /\ mod.text_size \in Nat /\ mod.ro_size \in Nat
    BY <2>1 DEF Kept, SecsOk, Placement, Cored
  <2>4. Apart
    <3> SUFFICES ASSUME NEW i \in Kept, NEW j \in Kept, i # j PROVE Extent(i) \cap Extent(j) = {}
      BY DEF Apart
    <3>1. End(i) <= Sec(j).entsize \/ End(j) <= Sec(i).entsize
      BY <2>1 DEF Placement
    <3> QED BY <2>3, <3>1 DEF Extent, End
  <2>5. ASSUME NEW i \in Kept
        PROVE  /\ Extent(i) \subseteq 0..mod.size - 1
               /\ Sec(i).align > 1 => Sec(i).entsize % Sec(i).align = 0
               /\ Extent(i) \cap mod.core[1]..mod.core[2] - 1 = {}
               /\ Sec(i).type # "nobits" =>
                   \E c \in mod.copies : c.sec = i /\ c.from = <<"file", Sec(i).offset>> /\ c.at = Sec(i).entsize
    <3>1. /\ End(i) <= mod.size /\ (Sec(i).align > 1 => Sec(i).entsize % Sec(i).align = 0)
          /\ End(i) <= mod.core[1] \/ mod.core[2] <= Sec(i).entsize
      BY <2>1 DEF Placement, Cored
    <3>2. Extent(i) \subseteq 0..mod.size - 1
      BY <2>3, <3>1 DEF Extent, End
    <3>3. Extent(i) \cap mod.core[1]..mod.core[2] - 1 = {}
      BY <2>3, <3>1 DEF Extent, End
    <3>4. Sec(i).type # "nobits" =>
            \E c \in mod.copies : c.sec = i /\ c.from = <<"file", Sec(i).offset>> /\ c.at = Sec(i).entsize
      BY <2>1 DEF Moved
    <3> QED BY <3>1, <3>2, <3>3, <3>4
  <2>6. ASSUME NEW i \in Kept \ Tables, Sec(i).size > 0
        PROVE  /\ "exec" \in Sec(i).flags <=> Sec(i).entsize < mod.text_size
               /\ "write" \notin Sec(i).flags => Sec(i).entsize + Sec(i).size <= mod.ro_size
               /\ Sec(i).flags = {"alloc", "write"} => Sec(i).entsize >= mod.ro_size
    <3>1. /\ "exec" \in Sec(i).flags => End(i) <= mod.text_size
          /\ "exec" \notin Sec(i).flags => Sec(i).entsize >= mod.text_size
          /\ "write" \notin Sec(i).flags => End(i) <= mod.ro_size
          /\ Sec(i).flags = {"alloc", "write"} => Sec(i).entsize >= mod.ro_size
      BY <2>1 DEF Placement
    <3> QED BY <2>3, <2>6, <3>1 DEF End
  <2>7. ASSUME NEW k \in DOMAIN mod.syms
        PROVE  LET y == image.syms[k]
               IN  /\ y.shndx \in Secs /\ y.shndx \in Kept => mod.syms[k] = <<"module", Sec(y.shndx).entsize + y.value>>
                   /\ y.shndx = SHN_UNDEF => y.name \in KernelSymbols
    <3>1. PICK y : y = image.syms[k]
      OBVIOUS
    <3>2. ASSUME y.shndx \in Secs, y.shndx \in Kept
          PROVE  mod.syms[k] = <<"module", Sec(y.shndx).entsize + y.value>>
      <4>1. PICK i : i = y.shndx /\ i \in Secs /\ i \in Kept
        BY <3>2
      <4>2. i \in 1 .. e_shnum
        BY <2>1, <4>1 DEF SecsOk
      <4>3. i \notin {SHN_ABS, SHN_COMMON} /\ i # SHN_UNDEF
        BY <2>1, <4>2 DEF SHN_ABS, SHN_COMMON, SHN_UNDEF
      <4>4. Sec(i).addr = <<"module", Sec(i).entsize>>
        BY <2>1, <4>1 DEF Moved
      <4>5. mod.syms[k] = Simplified(y)
        BY <2>1, <3>1 DEF Resolved
      <4>6. Simplified(y) = <<Sec(i).addr[1], Sec(i).addr[2] + y.value>>
        BY <4>1, <4>3 DEF Simplified
      <4> QED BY <4>1, <4>4, <4>5, <4>6
    <3>3. ASSUME y.shndx = SHN_UNDEF PROVE y.name \in KernelSymbols
      BY <2>1, <3>1, <3>3 DEF Resolved
    <3> QED BY <3>1, <3>2, <3>3
  <2>8. /\ mod.init = Sec(find_sec(".kpm.init")).entsize /\ mod.exit = Sec(find_sec(".kpm.exit")).entsize
        /\ mod.info = <<"module", Sec(find_sec(".kpm.info")).entsize>>
    BY <2>1 DEF Moved
  <2> QED BY <2>2, <2>4, <2>5, <2>6, <2>7, <2>8 DEF ModuleIsWhole
<1> QED BY <1>1, LayoutHolds, PTL
=============================================================================
