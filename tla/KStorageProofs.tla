---------------------------- MODULE KStorageProofs ----------------------------
(***************************************************************************)
(* One group of the storage, for any numbers of threads, ids, elements and *)
(* calls, where every id is written and removed by one thread (OneWriter). *)
(*                                                                         *)
(* The inductive invariant IInv tells where every element is (Places),     *)
(* that the list is one ring (Ring), and gives each element a rank that    *)
(* falls along the list and along the pointers unlinked elements keep      *)
(* (Order).  A new first element ranks above all there were, one that      *)
(* takes another's place ranks as that one did, so what a walk still has   *)
(* ahead is what ranks lower than where it stands.  open[n] are the read   *)
(* sections that were open when n left the list and have not ended: only   *)
(* they may stand on n, and n's grace period waits for all of them.  Rank  *)
(* and open exist in the proof alone: IInv holds for some of them.         *)
(***************************************************************************)
EXTENDS KStorage, FiniteSetTheorems, TLAPS

OneWriter == \A t, u \in Thread : t # u => Keys[t] \cap Keys[u] = {}

\* The elements in the list, told by their back pointers: an element that was
\* unlinked has the poison there, one that was never linked nothing.
Cells == Node \cup {HEAD}
OnList == {n \in Node : prev[n] \in Cells}

Pcs == {"idle", "find", "copy", "list", "link", "count", "retire", "unlinked", "size"}
CallRecord == [op : {"write", "remove", "read", "list"}, did : Did \cup {NULL}, data : Data \cup {NULL}]

Shapes ==
    /\ next \in [Cells -> Cells \cup {NULL}]
    /\ prev \in [Cells -> Cells \cup {NULL, POISON}]
    /\ alive \in SUBSET Node /\ retired \in SUBSET Node /\ lost \in SUBSET Node
    /\ did \in [Node -> Did \cup {NULL}] /\ data \in [Node -> Data \cup {NULL}]
    /\ size \in Int /\ lock \in Thread \cup {NULL} /\ raced \in BOOLEAN
    /\ waits \in [Node -> SUBSET Thread]
    /\ pc \in [Thread -> Pcs]
    /\ call \in [Thread -> CallRecord \cup {NULL}]
    /\ pos \in [Thread -> Cells \cup {NULL}]
    /\ new \in [Thread -> Node \cup {NULL}]
    /\ tmp \in [Thread -> Int]
    /\ got \in [Thread -> Data \cup {NULL}]
    /\ ids \in [Thread -> Seq(Did)]
    /\ seen \in [Thread -> SUBSET (Data \cup {NULL})]
    /\ stayed \in [Thread -> SUBSET Did]

\* A thread holds an element it prepared, or one it unlinked.
Prep(t) == pc[t] = "link"
Cut(t) == pc[t] \in {"retire", "unlinked", "size"}
Loose == alive \ (OnList \cup retired \cup lost)

\* Where every element is; open[n] are the read sections that may still stand
\* on the unlinked element n.
Places(open) ==
    /\ OnList \subseteq alive /\ retired \subseteq alive /\ lost \subseteq alive
    /\ OnList \cap retired = {} /\ OnList \cap lost = {} /\ retired \cap lost = {}
    /\ \A n \in Loose : \E t \in Thread : (Prep(t) /\ new[t] = n) \/ (Cut(t) /\ pos[t] = n)
    /\ \A t \in Thread : (Prep(t) => new[t] \in Loose) /\ (Cut(t) => pos[t] \in Loose)
    /\ \A t, u \in Thread : t # u => /\ Prep(t) /\ Prep(u) => new[t] # new[u]
                                     /\ Cut(t) /\ Cut(u) => pos[t] # pos[u]
    /\ \A t, u \in Thread : Prep(t) /\ Cut(u) => new[t] # pos[u]
    /\ \A n \in Node : open[n] # {} =>
          n \in retired \/ \E t \in Thread : Cut(t) /\ pos[t] = n
    /\ \A n \in retired : open[n] \subseteq waits[n]

Live(n, open) == n \in OnList \/ open[n] # {}
View(t, n, open) == n \in OnList \/ t \in open[n]

Ring ==
    \A n \in OnList \cup {HEAD} :
        /\ next[n] \in OnList \cup {HEAD} /\ prev[n] \in OnList \cup {HEAD}
        /\ next[prev[n]] = n /\ prev[next[n]] = n

\* rank falls along the list, for those who stand on what was unlinked as well,
\* and a step passes over no element of the list.
Order(rank, top, open) ==
    /\ \A n \in Node : Live(n, open) =>
          /\ rank[n] <= top
          /\ did[n] \in Did /\ data[n] \in Data
          /\ next[n] \in Cells
          /\ next[n] # HEAD => rank[next[n]] < rank[n]
          /\ \A m \in OnList : rank[m] < rank[n] => next[n] # HEAD /\ rank[m] <= rank[next[n]]
    /\ \A m \in OnList : next[HEAD] # HEAD /\ rank[m] <= rank[next[HEAD]]
    /\ \A n, m \in Node : Live(n, open) /\ Live(m, open) /\ rank[n] = rank[m] => did[n] = did[m]
    /\ \A n, m \in OnList : rank[n] = rank[m] \/ did[n] = did[m] => n = m
    /\ \A n \in Node : \A t \in open[n] : next[n] # HEAD => View(t, next[n], open)

Ahead(t, n, rank) == pos[t] # HEAD /\ rank[n] <= rank[pos[t]]
Told(t) == {ids[t][i] : i \in DOMAIN ids[t]}

\* What holds of each thread: a writer has not passed its id, and what it found
\* is what it will replace;
WriterOk(t, rank) ==
    (pc[t] = "find" /\ call[t].op = "write") \/ pc[t] = "link" =>
        /\ call[t].did \in Keys[t] /\ call[t].data \in Data
        /\ \A m \in OnList : did[m] = call[t].did => Ahead(t, m, rank)
        /\ pc[t] = "link" => /\ did[new[t]] = call[t].did /\ data[new[t]] = call[t].data
                             /\ pos[t] # HEAD => did[pos[t]] = call[t].did

\* a read section stands on an element it keeps, none of an id of its own;
SectionOk(t, open) ==
    /\ InSection(t) => pos[t] \in Cells /\ (pos[t] # HEAD => View(t, pos[t], open))
    /\ pc[t] \in {"find", "copy", "link"} => call[t] \in CallRecord /\ call[t].did \in Did
    /\ pc[t] = "find" => call[t].op \in {"write", "read"}
    /\ pc[t] = "copy" => call[t].op = "read" /\ pos[t] # HEAD /\ did[pos[t]] = call[t].did
    /\ pc[t] = "link" => call[t].op = "write"
    /\ \A n \in Node : t \in open[n] => InSection(t) /\ did[n] \notin Keys[t]

\* a list call has told nothing that is still ahead, and the rest is ahead;
ListerOk(t, rank, open) ==
    pc[t] = "list" =>
        /\ \A m, n \in Node : /\ View(t, m, open) /\ View(t, n, open)
                              /\ Ahead(t, m, rank) /\ Ahead(t, n, rank) /\ did[m] = did[n]
                              => rank[m] = rank[n]
        /\ \A m \in Node : View(t, m, open) /\ Ahead(t, m, rank) => did[m] \notin Told(t)
        /\ \A d \in stayed[t] : d \in Told(t) \/ \E m \in OnList : did[m] = d /\ Ahead(t, m, rank)

\* no list call tells an id twice;
ToldOnce(t) ==
    /\ pc[t] # "list" => ids[t] = <<>>
    /\ \A i, j \in DOMAIN ids[t] : ids[t][i] = ids[t][j] => i = j

\* what a reader may find, or miss, its id has held.
ReaderOk(t, rank, open) ==
    pc[t] \in {"find", "copy"} /\ call[t].op = "read" =>
        /\ \A m \in Node : View(t, m, open) /\ did[m] = call[t].did => data[m] \in seen[t]
        /\ \/ NULL \in seen[t]
           \/ \E m \in OnList : did[m] = call[t].did /\ (pc[t] = "find" => Ahead(t, m, rank))

ThreadOk(t, rank, open) ==
    /\ SectionOk(t, open) /\ WriterOk(t, rank) /\ ListerOk(t, rank, open)
    /\ ToldOnce(t) /\ ReaderOk(t, rank, open)

\* Removed and not yet counted down, linked and not yet counted.
Falling == {t \in Thread : pc[t] \in {"unlinked", "size"}}
Rising == {t \in Thread : pc[t] = "count"}
Sizes ==
    /\ \A t \in Rising : lock = t
    /\ lock # NULL => pc[lock] = "count"
    /\ IsFiniteSet(Falling)
    /\ ~raced => /\ \A t \in Thread : pc[t] \in {"count", "size"} => tmp[t] = size
                 /\ size + Cardinality(Rising) = Cardinality(OnList) + Cardinality(Falling)

IInv(rank, top, open) ==
    /\ Shapes /\ Places(open) /\ Ring /\ Order(rank, top, open) /\ Sizes
    /\ \A t \in Thread : ThreadOk(t, rank, open)

Ranks == [Node -> Nat]
Opens == [Node -> SUBSET Thread]
Sound == \E rank \in Ranks, top \in Nat, open \in Opens : IInv(rank, top, open)
-----------------------------------------------------------------------------
(* Induction, and the walk along the list *)

LEMMA Least ==
    ASSUME NEW T \in SUBSET Nat, T # {}
    PROVE \E n \in T : \A m \in T : n <= m
<1> DEFINE F == {0 .. n : n \in T}
<1>1. F \subseteq FiniteSubsetsOf(Nat)
  <2> SUFFICES ASSUME NEW n \in T PROVE 0 .. n \in FiniteSubsetsOf(Nat)  OBVIOUS
  <2>1. IsFiniteSet(0 .. n)  BY FS_Interval
  <2> QED  BY <2>1 DEF FiniteSubsetsOf
<1>2. F # {}  OBVIOUS
<1>3. \E x \in F : \A y \in F : ~(<<y, x>> \in StrictSubsetOrdering(Nat))
  <2> HIDE DEF F
  <2> QED  BY <1>1, <1>2, WFMin, FS_StrictSubsetOrderingWellFounded
<1>4. PICK n \in T : \A m \in T : ~(<<0 .. m, 0 .. n>> \in StrictSubsetOrdering(Nat))
  BY <1>3
<1>5. ASSUME NEW m \in T, m < n PROVE FALSE
  <2>1. n \in 0 .. n /\ n \notin 0 .. m  BY <1>5
  <2>2. 0 .. m \in SUBSET Nat /\ 0 .. n \in SUBSET Nat /\ 0 .. m \subseteq 0 .. n /\ 0 .. m # 0 .. n
    BY <2>1, <1>5
  <2>3. <<0 .. m, 0 .. n>> \in StrictSubsetOrdering(Nat)  BY <2>2 DEF StrictSubsetOrdering
  <2> QED  BY <2>3, <1>4
<1> QED  BY <1>5

LEMMA Induct ==
    ASSUME NEW T \in SUBSET Nat, 0 \in T, \A n \in T : n + 1 \in T
    PROVE T = Nat
<1> SUFFICES ASSUME Nat \ T # {} PROVE FALSE  OBVIOUS
<1>1. PICK n \in Nat \ T : \A m \in Nat \ T : n <= m  BY Least
<1>2. n # 0 /\ n - 1 \in Nat /\ n - 1 \notin Nat \ T  BY <1>1
<1> QED  BY <1>2

N == Cardinality(Node)
LEMMA NodesAreFinite == IsFiniteSet(Node) /\ N \in Nat
BY StorageAssumption, FS_CardinalityType DEF StorageAssumption, N

WalksTo(w, m) ==
    w = [k \in 0 .. m |-> IF k = 0 THEN next[HEAD] ELSE IF w[k - 1] = HEAD THEN HEAD ELSE next[w[k - 1]]]

LEMMA SomeWalk == \E w : WalksTo(w, N)
<1> DEFINE T == {n \in Nat : \E w : WalksTo(w, n)}
<1>1. 0 \in T
  <2>1. WalksTo([k \in 0 .. 0 |-> next[HEAD]], 0)  BY DEF WalksTo
  <2> QED  BY <2>1
<1>2. ASSUME NEW n \in T PROVE n + 1 \in T
  <2>1. PICK w : WalksTo(w, n)  OBVIOUS
  <2> DEFINE v == [k \in 0 .. n + 1 |->
                     IF k = n + 1 THEN (IF w[n] = HEAD THEN HEAD ELSE next[w[n]]) ELSE w[k]]
  <2>2. WalksTo(v, n + 1)
    <3> SUFFICES ASSUME NEW k \in 0 .. n + 1
                 PROVE v[k] = IF k = 0 THEN next[HEAD]
                              ELSE IF v[k - 1] = HEAD THEN HEAD ELSE next[v[k - 1]]
      BY DEF WalksTo
    <3>1. \A j \in 0 .. n : v[j] = w[j]  OBVIOUS
    <3>2. \A j \in 0 .. n : w[j] = IF j = 0 THEN next[HEAD]
                                   ELSE IF w[j - 1] = HEAD THEN HEAD ELSE next[w[j - 1]]
      BY <2>1 DEF WalksTo
    <3>3. CASE k \in 0 .. n  BY <3>1, <3>2, <3>3
    <3>4. CASE k = n + 1  BY <3>1, <3>4
    <3> QED  BY <3>3, <3>4
  <2> QED  BY <2>2
<1>3. T = Nat
  <2> HIDE DEF T
  <2>1. T \in SUBSET Nat  BY DEF T
  <2> QED  BY <1>1, <1>2, <2>1, Induct
<1> QED  BY <1>3, NodesAreFinite

LEMMA WalkIs == WalksTo(Walk, N)
<1>1. \E w : w = [k \in 0 .. Cardinality(Node) |->
                    IF k = 0 THEN next[HEAD] ELSE IF w[k - 1] = HEAD THEN HEAD ELSE next[w[k - 1]]]
  BY SomeWalk DEF WalksTo, N
<1> QED  BY <1>1, Zenon DEF Walk, WalksTo, N

LEMMA WalkSteps ==
    /\ Walk[0] = next[HEAD]
    /\ \A k \in 0 .. N : k + 1 \in 0 .. N =>
          Walk[k + 1] = IF Walk[k] = HEAD THEN HEAD ELSE next[Walk[k]]
<1>1. 0 \in 0 .. N  BY NodesAreFinite
<1>2. \A k \in 0 .. N : Walk[k] = IF k = 0 THEN next[HEAD]
                                  ELSE IF Walk[k - 1] = HEAD THEN HEAD ELSE next[Walk[k - 1]]
  BY WalkIs DEF WalksTo
<1>3. Walk[0] = next[HEAD]  BY <1>1, <1>2
<1>4. ASSUME NEW k \in 0 .. N, k + 1 \in 0 .. N
      PROVE Walk[k + 1] = IF Walk[k] = HEAD THEN HEAD ELSE next[Walk[k]]
  <2>1. k + 1 # 0 /\ (k + 1) - 1 = k  BY NodesAreFinite
  <2> QED  BY <1>2, <1>4, <2>1
<1> QED  BY <1>3, <1>4

\* The places of the rank and of the read sections, whatever they are.
Ordered == \E rank \in Ranks, top \in Nat, open \in Opens : Order(rank, top, open)

\* The walk of kstorage.c's list macros goes once over the ring.
LEMMA LinkedIs == Ring /\ Ordered => Linked = OnList
<1> SUFFICES ASSUME Ring, Ordered PROVE Linked = OnList  OBVIOUS
<1>1. PICK rank \in Ranks, top \in Nat, open \in Opens : Order(rank, top, open)  BY DEF Ordered
<1> USE NodesAreFinite
<1>h. HEAD \notin Node  BY StorageAssumption DEF StorageAssumption
<1>2. \A k \in 0 .. N : Walk[k] \in OnList \cup {HEAD}
  <2> DEFINE T == {k \in Nat : k <= N => Walk[k] \in OnList \cup {HEAD}}
  <2>1. 0 \in T  BY WalkSteps DEF Ring
  <2>2. ASSUME NEW k \in T PROVE k + 1 \in T
    <3>1. CASE k + 1 <= N
      <4>1. k \in 0 .. N /\ k + 1 \in 0 .. N  BY <3>1
      <4> QED  BY <4>1, WalkSteps DEF Ring
    <3> QED  BY <3>1
  <2>3. T = Nat
    <3> HIDE DEF T
    <3>1. T \in SUBSET Nat  BY DEF T
    <3> QED  BY <2>1, <2>2, <3>1, Induct
  <2> QED  BY <2>3
<1>3. Linked = {Walk[k] : k \in 0 .. N} \ {HEAD}  BY DEF Linked, N
<1>4. ASSUME NEW m \in OnList, \A k \in 0 .. N : Walk[k] # m PROVE FALSE
  <2> DEFINE Down(k) == /\ Walk[k] \in OnList /\ rank[m] < rank[Walk[k]]
                        /\ \A j \in 0 .. N : j < k => rank[Walk[k]] < rank[Walk[j]]
             T == {k \in Nat : k <= N => Down(k)}
  <2>r. \A n \in Node : rank[n] \in Int  BY DEF Ranks
  <2>n. OnList \subseteq Node /\ m \in Node  BY DEF OnList
  <2>d. \A n \in OnList : rank[n] = rank[m] => n = m  BY <1>1 DEF Order
  <2>1. 0 \in T
    <3>1. 0 \in 0 .. N  OBVIOUS
    <3>2. Walk[0] # HEAD /\ rank[m] <= rank[Walk[0]]  BY <1>1, WalkSteps DEF Order
    <3>3. Walk[0] \in OnList /\ Walk[0] # m  BY <3>1, <3>2, <1>2, <1>4
    <3> QED  BY <3>1, <3>2, <3>3, <2>r, <2>n, <2>d
  <2>2. ASSUME NEW k \in T PROVE k + 1 \in T
    <3>1. CASE k + 1 <= N
      <4>1. k \in 0 .. N /\ k + 1 \in 0 .. N  BY <3>1
      <4>2. Down(k)  BY <4>1
      <4>3. Walk[k + 1] = next[Walk[k]]  BY <4>1, <4>2, <1>h, <2>n, WalkSteps
      <4>4. Live(Walk[k], open) /\ Walk[k] \in Node  BY <4>2, <2>n DEF Live
      <4>5. next[Walk[k]] # HEAD /\ rank[m] <= rank[next[Walk[k]]]
            /\ rank[next[Walk[k]]] < rank[Walk[k]]
        BY <4>2, <4>4, <1>1 DEF Order
      <4>6. Walk[k + 1] \in OnList /\ Walk[k + 1] # m  BY <4>1, <4>3, <4>5, <1>2, <1>4
      <4>7. rank[m] < rank[Walk[k + 1]]  BY <4>3, <4>5, <4>6, <2>r, <2>n, <2>d
      <4>8. ASSUME NEW j \in 0 .. N, j < k + 1 PROVE rank[Walk[k + 1]] < rank[Walk[j]]
        <5>1. CASE j = k  BY <5>1, <4>3, <4>5
        <5>2. CASE j # k
          <6>1. rank[Walk[k]] < rank[Walk[j]]  BY <5>2, <4>8, <4>2
          <6>2. Walk[j] \in OnList
            <7>1. Walk[j] \in OnList \cup {HEAD}  BY <1>2
            <7>2. CASE Walk[j] = HEAD
              <8> DEFINE U == {i \in Nat : j + i <= N => Walk[j + i] = HEAD}
              <8>1. 0 \in U  BY <7>2
              <8>2. ASSUME NEW i \in U PROVE i + 1 \in U
                <9>1. CASE j + (i + 1) <= N
                  <10>1. j + i \in 0 .. N /\ (j + i) + 1 \in 0 .. N  BY <9>1
                  <10>2. Walk[j + i] = HEAD  BY <10>1
                  <10>3. Walk[(j + i) + 1] = HEAD  BY <10>1, <10>2, WalkSteps
                  <10>4. j + (i + 1) = (j + i) + 1  OBVIOUS
                  <10> QED  BY <10>3, <10>4
                <9> QED  BY <9>1
              <8>3. U = Nat
                <9> HIDE DEF U
                <9>1. U \in SUBSET Nat  BY DEF U
                <9> QED  BY <8>1, <8>2, <9>1, Induct
              <8>4. k - j \in Nat /\ j + (k - j) = k  BY <4>8, <4>1
              <8>5. Walk[k] = HEAD
                <9>1. k - j \in U  BY <8>3, <8>4
                <9>2. Walk[j + (k - j)] = HEAD  BY <9>1, <8>4, <4>1
                <9> QED  BY <9>2, <8>4
              <8> QED  BY <8>5, <4>2, <1>h, <2>n
            <7> QED  BY <7>1, <7>2
          <6>3. rank[Walk[k]] \in Int /\ rank[Walk[j]] \in Int /\ rank[Walk[k + 1]] \in Int
            BY <6>2, <4>2, <4>6, <2>r, <2>n
          <6> QED  BY <6>1, <6>3, <4>3, <4>5
        <5> QED  BY <5>1, <5>2
      <4> QED  BY <4>6, <4>7, <4>8
    <3> QED  BY <3>1
  <2>3. T = Nat
    <3> HIDE DEF T
    <3>1. T \in SUBSET Nat  BY DEF T
    <3> QED  BY <2>1, <2>2, <3>1, Induct
  <2>4. \A k \in 0 .. N : Down(k)  BY <2>3
  <2> DEFINE f == [k \in 0 .. N |-> Walk[k]]
  <2>5. f \in [0 .. N -> Node]  BY <2>4, <2>n
  <2>6. IsFiniteSet(0 .. N) /\ Cardinality(0 .. N) = N + 1  BY FS_Interval
  <2>7. PICK i, j \in 0 .. N : i # j /\ f[i] = f[j]
    <3> HIDE DEF f
    <3>1. Cardinality(Node) < Cardinality(0 .. N)  BY <2>6 DEF N
    <3> QED  BY <2>5, <2>6, <3>1, FS_PigeonHole
  <2>8. Walk[i] = Walk[j] /\ rank[Walk[i]] \in Int  BY <2>7, <2>4, <2>n, <2>r
  <2>9. CASE i < j  BY <2>9, <2>8, <2>4
  <2>10. CASE j < i  BY <2>10, <2>8, <2>4
  <2> QED  BY <2>7, <2>9, <2>10
<1> QED  BY <1>2, <1>3, <1>4, <1>h DEF OnList

\* What the list holds for an id is what its one element holds.
Held ==
    \A d \in Did :
        /\ First(d) \in OnList \cup {HEAD}
        /\ First(d) \in OnList => did[First(d)] = d
        /\ First(d) = HEAD => Stored(d) = NULL /\ \A m \in OnList : did[m] # d
        /\ \A m \in OnList : did[m] = d => First(d) = m /\ Stored(d) = data[m] /\ Stored(d) \in Data

LEMMA HeldIs == Ring /\ Ordered => Held
<1> SUFFICES ASSUME Ring, Ordered, NEW d \in Did
             PROVE /\ First(d) \in OnList \cup {HEAD}
                   /\ First(d) \in OnList => did[First(d)] = d
                   /\ First(d) = HEAD => Stored(d) = NULL /\ \A m \in OnList : did[m] # d
                   /\ \A m \in OnList : did[m] = d =>
                         First(d) = m /\ Stored(d) = data[m] /\ Stored(d) \in Data
  BY DEF Held
<1>1. PICK rank \in Ranks, top \in Nat, open \in Opens : Order(rank, top, open)  BY DEF Ordered
<1>h. HEAD \notin Node /\ OnList \subseteq Node  BY StorageAssumption DEF StorageAssumption, OnList
<1> DEFINE found == {k \in 0 .. N : Walk[k] # HEAD /\ did[Walk[k]] = d}
<1>2. First(d) = IF found = {} THEN HEAD ELSE Walk[Min(found)]  BY DEF First, N
<1>3. Linked = OnList /\ Linked = {Walk[k] : k \in 0 .. N} \ {HEAD}  BY LinkedIs DEF Linked, N
<1>4. \A n \in OnList : Live(n, open)  BY DEF Live
<1>5. \A n, m \in OnList : did[n] = did[m] => n = m  BY <1>1 DEF Order
<1>6. \A m \in OnList : data[m] \in Data  BY <1>1, <1>4, <1>h DEF Order
<1>7. CASE found = {}
  <2>1. First(d) = HEAD  BY <1>2, <1>7
  <2>2. \A m \in OnList : did[m] # d  BY <1>3, <1>7, <1>h
  <2> QED  BY <2>1, <2>2, <1>h DEF Stored
<1>8. CASE found # {}
  <2>1. found \in SUBSET Nat  BY NodesAreFinite
  <2>2. \E n \in found : \A m \in found : n <= m
    <3> HIDE DEF found
    <3> QED  BY <1>8, <2>1, Least
  <2>3. Min(found) \in found
    <3> HIDE DEF found
    <3> QED  BY <2>2, Zenon DEF Min
  <2>4. First(d) = Walk[Min(found)]  BY <1>2, <1>8
  <2>5. First(d) # HEAD /\ did[First(d)] = d
    <3>1. \A k \in found : Walk[k] # HEAD /\ did[Walk[k]] = d  OBVIOUS
    <3> HIDE DEF found
    <3> QED  BY <3>1, <2>3, <2>4
  <2>6. First(d) \in OnList
    <3>1. found \subseteq 0 .. N  OBVIOUS
    <3> HIDE DEF found
    <3> QED  BY <3>1, <2>3, <2>4, <2>5, <1>3
  <2>7. \A m \in OnList : did[m] = d => First(d) = m  BY <2>5, <2>6, <1>5
  <2> QED  BY <2>5, <2>6, <2>7, <1>6, <1>h DEF Stored
<1> QED  BY <1>7, <1>8
-----------------------------------------------------------------------------
(* Steps that leave the list alone *)

\* The list and what readers may stand on are untouched, and so is what threads
\* hold; the sections in X end.
Quiet(open) ==
    /\ OnList' = OnList
    /\ next'[HEAD] = next[HEAD] /\ prev'[HEAD] = prev[HEAD]
    /\ \A n \in Node : Live(n, open) \/ n \in Loose =>
          next'[n] = next[n] /\ prev'[n] = prev[n] /\ did'[n] = did[n] /\ data'[n] = data[n]

Closed(open, X) == [n \in Node |-> open[n] \ X]

Same(t) == /\ pc'[t] = pc[t] /\ call'[t] = call[t] /\ pos'[t] = pos[t] /\ new'[t] = new[t]
           /\ ids'[t] = ids[t] /\ seen'[t] = seen[t] /\ stayed'[t] = stayed[t]

LEMMA HeadApart == HEAD \notin Node /\ POISON \notin Cells /\ NULL \notin Cells /\ POISON # NULL
  /\ NULL \notin Thread /\ NULL \notin Did /\ NULL \notin Data
<1>1. HEAD # POISON /\ HEAD # NULL /\ POISON # NULL
  <2>1. IsFiniteSet({HEAD}) /\ Cardinality({HEAD}) = 1  BY FS_Singleton
  <2>2. IsFiniteSet({POISON}) /\ Cardinality({POISON}) = 1  BY FS_Singleton
  <2>3. \A a, b : Cardinality({a, b}) \in Int /\ Cardinality({a, b}) <= 2
    <3> SUFFICES ASSUME NEW a, NEW b PROVE Cardinality({a, b}) \in Int /\ Cardinality({a, b}) <= 2
      OBVIOUS
    <3>1. IsFiniteSet({a}) /\ Cardinality({a}) = 1  BY FS_Singleton
    <3>2. Cardinality({a} \cup {b}) = IF b \in {a} THEN Cardinality({a}) ELSE Cardinality({a}) + 1
      BY <3>1, FS_AddElement
    <3>3. {a} \cup {b} = {a, b}  OBVIOUS
    <3> QED  BY <3>1, <3>2, <3>3
  <2>4. Cardinality({HEAD, POISON, NULL}) = 3  BY StorageAssumption DEF StorageAssumption
  <2>5. HEAD = POISON => {HEAD, POISON, NULL} = {POISON, NULL}  OBVIOUS
  <2>6. HEAD = NULL => {HEAD, POISON, NULL} = {POISON, NULL}  OBVIOUS
  <2>7. POISON = NULL => {HEAD, POISON, NULL} = {HEAD, NULL}  OBVIOUS
  <2> QED  BY <2>3, <2>4, <2>5, <2>6, <2>7
<1>2. {HEAD, POISON, NULL} \cap (Node \cup Data \cup Did \cup Thread) = {}
  BY StorageAssumption DEF StorageAssumption
<1> QED  BY <1>1, <1>2 DEF Cells

LEMMA ClosedIn ==
    ASSUME NEW open \in Opens, NEW X
    PROVE Closed(open, X) \in Opens /\ \A n \in Node : Closed(open, X)[n] = open[n] \ X
BY DEF Opens, Closed

LEMMA QuietList ==
    ASSUME NEW rank \in Ranks, NEW top \in Nat, NEW open \in Opens, NEW X \in SUBSET Thread,
           Ring, Order(rank, top, open), Quiet(open)
    PROVE Ring' /\ Order(rank, top, Closed(open, X))'
<1> DEFINE op2 == Closed(open, X)
<1>1. \A n \in Node : op2[n] = open[n] \ X  BY ClosedIn
<1>2. OnList \subseteq Node /\ HEAD \notin Node  BY HeadApart DEF OnList
<1>3. OnList' = OnList /\ next'[HEAD] = next[HEAD] /\ prev'[HEAD] = prev[HEAD]  BY DEF Quiet
<1>4. \A n \in Node : Live(n, open) =>
         next'[n] = next[n] /\ prev'[n] = prev[n] /\ did'[n] = did[n] /\ data'[n] = data[n]
  BY DEF Quiet
<1>5. \A n \in OnList \cup {HEAD} : next'[n] = next[n] /\ prev'[n] = prev[n]
  BY <1>2, <1>3, <1>4 DEF Live
<1>6. Ring'
  <2> SUFFICES ASSUME NEW n \in OnList \cup {HEAD}
               PROVE /\ next'[n] \in OnList \cup {HEAD} /\ prev'[n] \in OnList \cup {HEAD}
                     /\ next'[prev'[n]] = n /\ prev'[next'[n]] = n
    BY <1>3 DEF Ring
  <2>1. /\ next[n] \in OnList \cup {HEAD} /\ prev[n] \in OnList \cup {HEAD}
        /\ next[prev[n]] = n /\ prev[next[n]] = n
    BY DEF Ring
  <2> QED  BY <2>1, <1>5
<1>7. \A n \in Node : Live(n, op2)' => Live(n, open)  BY <1>1, <1>3 DEF Live
<1> HIDE DEF op2
<1>8. Order(rank, top, op2)'
  <2>1. ASSUME NEW n \in Node, Live(n, op2)'
        PROVE /\ rank[n] <= top
              /\ did'[n] \in Did /\ data'[n] \in Data
              /\ next'[n] \in Cells
              /\ next'[n] # HEAD => rank[next'[n]] < rank[n]
              /\ \A m \in OnList' : rank[m] < rank[n] => next'[n] # HEAD /\ rank[m] <= rank[next'[n]]
    <3>1. Live(n, open)  BY <2>1, <1>7
    <3> QED  BY <3>1, <1>3, <1>4 DEF Order
  <2>2. \A m \in OnList' : next'[HEAD] # HEAD /\ rank[m] <= rank[next'[HEAD]]  BY <1>3 DEF Order
  <2>3. \A n, m \in Node : Live(n, op2)' /\ Live(m, op2)' /\ rank[n] = rank[m] => did'[n] = did'[m]
    <3> SUFFICES ASSUME NEW n \in Node, NEW m \in Node, Live(n, op2)', Live(m, op2)', rank[n] = rank[m]
                 PROVE did'[n] = did'[m]
      OBVIOUS
    <3>1. Live(n, open) /\ Live(m, open)  BY <1>7
    <3> QED  BY <3>1, <1>4 DEF Order
  <2>4. \A n, m \in OnList' : rank[n] = rank[m] \/ did'[n] = did'[m] => n = m
    <3>1. \A n \in OnList : did'[n] = did[n]  BY <1>2, <1>4 DEF Live
    <3> QED  BY <3>1, <1>3 DEF Order
  <2>5. ASSUME NEW n \in Node, NEW t \in op2[n], next'[n] # HEAD
        PROVE View(t, next[n], op2)'
    <3>1. t \in open[n] /\ t \notin X /\ Live(n, open)  BY <2>5, <1>1 DEF Live
    <3>2. next'[n] = next[n] /\ next[n] \in Node  BY <3>1, <1>4, <2>5 DEF Order, Cells
    <3>3. View(t, next[n], open)  BY <3>1, <3>2, <2>5 DEF Order
    <3> QED  BY <3>1, <3>2, <3>3, <1>1, <1>3 DEF View
  <2> QED  BY <2>1, <2>2, <2>3, <2>4, <2>5 DEF Order
<1> QED  BY <1>6, <1>8 DEF op2

LEMMA QuietThread ==
    ASSUME NEW rank \in Ranks, NEW open \in Opens, NEW X \in SUBSET Thread, NEW t \in Thread, t \notin X,
           Shapes, Places(open), Quiet(open), Same(t), ThreadOk(t, rank, open)
    PROVE ThreadOk(t, rank, Closed(open, X))'
<1> DEFINE op2 == Closed(open, X)
<1>1. \A n \in Node : op2[n] = open[n] \ X  BY ClosedIn
<1>o. OnList \subseteq Node /\ OnList' = OnList  BY DEF OnList, Quiet
<1>2. \A n \in Node : View(t, n, op2)' <=> View(t, n, open)  BY <1>1, <1>o DEF View
<1> HIDE DEF op2
<1>3. \A n \in Node : View(t, n, open) => did'[n] = did[n] /\ data'[n] = data[n]
  BY DEF View, Live, Quiet
<1>4. \A n \in OnList : did'[n] = did[n]  BY <1>o, <1>3 DEF View
<1>5. \A n : Ahead(t, n, rank)' <=> Ahead(t, n, rank)  BY DEF Ahead, Same
<1>6. Told(t)' = Told(t) /\ InSection(t)' = InSection(t)  BY DEF Told, Same, InSection
<1>7. SectionOk(t, op2)'
  <2>1. InSection(t) /\ pos[t] # HEAD => pos[t] \in Node /\ View(t, pos[t], open)
    BY DEF ThreadOk, SectionOk, Cells
  <2>2. pc[t] = "copy" => InSection(t)  BY DEF InSection
  <2>3. pc[t] = "copy" => did'[pos[t]] = did[pos[t]]  BY <2>1, <2>2, <1>3 DEF ThreadOk, SectionOk
  <2>4. \A n \in Node : t \in op2[n] => InSection(t)' /\ did'[n] \notin Keys[t]
    BY <1>1, <1>3, <1>6 DEF ThreadOk, SectionOk, View
  <2>5. InSection(t)' => pos'[t] \in Cells /\ (pos'[t] # HEAD => View(t, pos[t], op2)')
    BY <1>2, <1>6, <2>1 DEF Same, ThreadOk, SectionOk
  <2>6. /\ pc'[t] \in {"find", "copy", "link"} => call'[t] \in CallRecord /\ call'[t].did \in Did
        /\ pc'[t] = "find" => call'[t].op \in {"write", "read"}
        /\ pc'[t] = "copy" => call'[t].op = "read" /\ pos'[t] # HEAD /\ did'[pos'[t]] = call'[t].did
        /\ pc'[t] = "link" => call'[t].op = "write"
    BY <2>3 DEF Same, ThreadOk, SectionOk
  <2> QED  BY <2>4, <2>5, <2>6 DEF SectionOk
<1>8. WriterOk(t, rank)'
  <2>1. pc[t] = "link" => new[t] \in Loose /\ new[t] \in Node
    BY DEF Places, Prep, Loose, Shapes
  <2>2. pc[t] = "link" /\ pos[t] # HEAD => did'[pos[t]] = did[pos[t]]
    BY <1>3 DEF ThreadOk, SectionOk, Cells, InSection
  <2>3. pc[t] = "link" => did'[new[t]] = did[new[t]] /\ data'[new[t]] = data[new[t]]
    BY <2>1 DEF Quiet
  <2> QED  BY <2>2, <2>3, <1>4, <1>5, <1>o DEF WriterOk, ThreadOk, Same
<1>9. ListerOk(t, rank, op2)'
  BY <1>2, <1>3, <1>4, <1>5, <1>6, <1>o DEF ListerOk, ThreadOk, Same
<1>10. ToldOnce(t)'  BY DEF ToldOnce, ThreadOk, Same
<1>11. ReaderOk(t, rank, op2)'
  BY <1>2, <1>3, <1>4, <1>5, <1>o DEF ReaderOk, ThreadOk, Same
<1> QED  BY <1>7, <1>8, <1>9, <1>10, <1>11 DEF ThreadOk, op2

LEMMA QuietPlaces ==
    ASSUME NEW open \in Opens, NEW X \in SUBSET Thread, Places(open),
           OnList' = OnList, UNCHANGED <<alive, retired, lost>>,
           \A u \in Thread : /\ Prep(u)' <=> Prep(u)
                             /\ Cut(u)' <=> Cut(u)
                             /\ Prep(u) => new'[u] = new[u]
                             /\ Cut(u) => pos'[u] = pos[u],
           \A n \in Node : waits[n] \ X \subseteq waits'[n],
           retired \subseteq Node
    PROVE Places(Closed(open, X))'
<1> DEFINE op2 == Closed(open, X)
<1>1. \A n \in Node : op2[n] = open[n] \ X  BY ClosedIn
<1> HIDE DEF op2
<1>2. Loose' = Loose  BY DEF Loose
<1>3. \A n \in Node : op2[n] # {} => n \in retired' \/ \E u \in Thread : Cut(u)' /\ pos'[u] = n
  BY <1>1 DEF Places
<1>4. \A n \in retired' : op2[n] \subseteq waits'[n]  BY <1>1 DEF Places
<1>5. \A n \in Loose' : \E u \in Thread : (Prep(u)' /\ new'[u] = n) \/ (Cut(u)' /\ pos'[u] = n)
  BY <1>2 DEF Places
<1>6. \A u \in Thread : (Prep(u)' => new'[u] \in Loose') /\ (Cut(u)' => pos'[u] \in Loose')
  BY <1>2 DEF Places
<1>7. \A u, v \in Thread : u # v => /\ Prep(u)' /\ Prep(v)' => new'[u] # new'[v]
                                    /\ Cut(u)' /\ Cut(v)' => pos'[u] # pos'[v]
  BY DEF Places
<1>8. \A u, v \in Thread : Prep(u)' /\ Cut(v)' => new'[u] # pos'[v]  BY DEF Places
<1> QED  BY <1>3, <1>4, <1>5, <1>6, <1>7, <1>8 DEF Places, op2

Counting == {"count", "unlinked", "size"}

LEMMA QuietSizes ==
    ASSUME Sizes, OnList' = OnList, UNCHANGED <<size, lock, raced>>, Shapes,
           \A u \in Thread : pc[u] \in Counting \/ pc'[u] \in Counting => pc'[u] = pc[u] /\ tmp'[u] = tmp[u]
    PROVE Sizes'
<1>1. Rising' = Rising /\ Falling' = Falling  BY DEF Rising, Falling, Counting
<1>2. \A u \in Thread : pc'[u] \in {"count", "size"} => pc[u] \in {"count", "size"} /\ tmp'[u] = tmp[u]
  BY DEF Counting
<1>3. lock \in Thread \cup {NULL}  BY DEF Shapes
<1> QED  BY <1>1, <1>2, <1>3 DEF Sizes, Counting

Busy == {"link", "count", "retire", "unlinked", "size"}

\* A step of one thread that changes nothing but what is its own.
LEMMA CalmStep ==
    ASSUME NEW rank \in Ranks, NEW top \in Nat, NEW open \in Opens, IInv(rank, top, open),
           NEW t \in Thread, NEW X \in SUBSET {t}, Shapes',
           UNCHANGED <<heap, size, lock, retired, lost, raced>>,
           \A n \in Node : waits[n] \ X \subseteq waits'[n],
           pc[t] \notin Busy, pc'[t] \notin Busy,
           \A u \in Thread \ {t} : Same(u) /\ tmp'[u] = tmp[u],
           ThreadOk(t, rank, Closed(open, X))'
    PROVE Sound'
<1> DEFINE op2 == Closed(open, X)
<1>1. op2 \in Opens  BY ClosedIn
<1>2. OnList' = OnList  BY DEF OnList, heap
<1>3. Quiet(open)  BY <1>2 DEF Quiet, heap
<1>4. X \in SUBSET Thread  OBVIOUS
<1>5. Ring' /\ Order(rank, top, op2)'  BY <1>3, <1>4, QuietList DEF IInv
<1>6. \A u \in Thread : /\ Prep(u)' <=> Prep(u)
                        /\ Cut(u)' <=> Cut(u)
                        /\ Prep(u) => new'[u] = new[u]
                        /\ Cut(u) => pos'[u] = pos[u]
  BY DEF Busy, Prep, Cut, Same
<1>7. retired \subseteq Node  BY DEF IInv, Shapes
<1>8. Places(op2)'
  BY <1>2, <1>4, <1>6, <1>7, QuietPlaces DEF IInv, heap
<1>9. Sizes'
  <2>1. \A u \in Thread : pc[u] \in Counting \/ pc'[u] \in Counting => pc'[u] = pc[u] /\ tmp'[u] = tmp[u]
    BY DEF Counting, Busy, Same
  <2> QED  BY <2>1, <1>2, QuietSizes DEF IInv
<1>10. ASSUME NEW u \in Thread PROVE ThreadOk(u, rank, op2)'
  <2>1. CASE u = t  BY <2>1
  <2>2. CASE u # t
    <3>1. u \notin X /\ Same(u)  BY <2>2
    <3> QED  BY <3>1, <1>3, <1>4, QuietThread DEF IInv
  <2> QED  BY <2>1, <2>2
<1> HIDE DEF op2
<1>11. IInv(rank, top, op2)'  BY <1>5, <1>8, <1>9, <1>10 DEF IInv
<1> QED  BY <1>1, <1>11 DEF Sound

\* Who is in no section and tells no ids has nothing to keep.
LEMMA RestOk ==
    ASSUME NEW rank \in Ranks, NEW open \in Opens, NEW t \in Thread,
           pc'[t] \in {"idle", "retire", "unlinked", "size"}, ids'[t] = <<>>,
           \A n \in Node : t \notin open[n]
    PROVE ThreadOk(t, rank, open)'
<1>1. SectionOk(t, open)'  BY DEF SectionOk, InSection
<1>2. WriterOk(t, rank)'  BY DEF WriterOk
<1>3. ListerOk(t, rank, open)'  BY DEF ListerOk
<1>4. ToldOnce(t)'
  <2>1. DOMAIN ids'[t] = {}  BY SMT
  <2> QED  BY <2>1 DEF ToldOnce
<1>5. ReaderOk(t, rank, open)'  BY DEF ReaderOk
<1> QED  BY <1>1, <1>2, <1>3, <1>4, <1>5 DEF ThreadOk

\* A step forward passes over what the cursor stood on and over nothing else.
LEMMA Advance ==
    ASSUME NEW rank \in Ranks, NEW top \in Nat, NEW open \in Opens, IInv(rank, top, open),
           NEW t \in Thread, InSection(t), pos[t] # HEAD,
           pos'[t] = next[pos[t]]
    PROVE /\ pos[t] \in Node /\ View(t, pos[t], open) /\ did[pos[t]] \in Did
          /\ pos'[t] \in Cells
          /\ pos'[t] # HEAD => View(t, next[pos[t]], open)
          /\ \A n \in Node : Ahead(t, n, rank)' => Ahead(t, n, rank) /\ rank[n] # rank[pos[t]]
          /\ \A m \in OnList : did[m] # did[pos[t]] /\ Ahead(t, m, rank) => Ahead(t, m, rank)'
<1> DEFINE p == pos[t]
<1>1. p \in Node /\ View(t, p, open)
  BY DEF IInv, ThreadOk, SectionOk, Cells
<1>2. Live(p, open)  BY <1>1 DEF View, Live
<1>3. /\ did[p] \in Did /\ next[p] \in Cells
      /\ next[p] # HEAD => rank[next[p]] < rank[p]
      /\ \A m \in OnList : rank[m] < rank[p] => next[p] # HEAD /\ rank[m] <= rank[next[p]]
  BY <1>1, <1>2 DEF IInv, Order
<1>4. ASSUME next[p] # HEAD PROVE View(t, next[p], open)
  <2>1. CASE p \in OnList  BY <2>1, <1>4 DEF IInv, Ring, View
  <2>2. CASE p \notin OnList
    <3>1. t \in open[p]  BY <2>2, <1>1 DEF View
    <3> QED  BY <3>1, <1>1, <1>4 DEF IInv, Order
  <2> QED  BY <2>1, <2>2
<1>5. \A n \in Node : rank[n] \in Int  BY DEF Ranks
<1>6. ASSUME NEW n \in Node, Ahead(t, n, rank)'
      PROVE Ahead(t, n, rank) /\ rank[n] # rank[p]
  <2>1. next[p] # HEAD /\ rank[n] <= rank[next[p]]  BY <1>6 DEF Ahead
  <2>2. next[p] \in Node  BY <2>1, <1>3 DEF Cells
  <2> QED  BY <2>1, <2>2, <1>1, <1>3, <1>5 DEF Ahead
<1>7. ASSUME NEW m \in OnList, did[m] # did[p], Ahead(t, m, rank)
      PROVE Ahead(t, m, rank)'
  <2>1. m \in Node /\ Live(m, open)  BY DEF OnList, Live
  <2>2. rank[m] # rank[p]  BY <2>1, <1>1, <1>2, <1>7 DEF IInv, Order
  <2>3. rank[m] < rank[p]  BY <2>1, <2>2, <1>1, <1>5, <1>7 DEF Ahead
  <2>4. next[p] # HEAD /\ rank[m] <= rank[next[p]]  BY <2>3, <1>3
  <2> QED  BY <2>4 DEF Ahead
<1> QED  BY <1>1, <1>3, <1>4, <1>6, <1>7

LEMMA OpenStays ==
    ASSUME NEW open \in Opens PROVE Closed(open, {}) = open
BY DEF Closed, Opens

LEMMA FindNextStep ==
    ASSUME NEW rank \in Ranks, NEW top \in Nat, NEW open \in Opens, IInv(rank, top, open),
           NEW t \in Thread, FindNext(t)
    PROVE Sound'
<1> DEFINE p == pos[t]
<1>1. /\ InSection(t) /\ p # HEAD /\ pc[t] = "find" /\ did[p] # call[t].did
      /\ pos' = [pos EXCEPT ![t] = next[p]]
      /\ UNCHANGED <<heap, size, lock, rcu, pc, call, new, tmp, got, ids, hist, calls>>
  BY DEF FindNext, InSection, Found
<1>s. Shapes /\ ThreadOk(t, rank, open)  BY DEF IInv
<1>2. pos'[t] = next[p]  BY <1>1, <1>s DEF Shapes
<1>3. /\ p \in Node /\ View(t, p, open)
      /\ pos'[t] \in Cells
      /\ pos'[t] # HEAD => View(t, next[p], open)
      /\ \A n \in Node : Ahead(t, n, rank)' => Ahead(t, n, rank) /\ rank[n] # rank[p]
      /\ \A m \in OnList : did[m] # did[p] /\ Ahead(t, m, rank) => Ahead(t, m, rank)'
  BY <1>1, <1>2, Advance
<1>4. Shapes'  BY <1>1, <1>2, <1>3, <1>s DEF Shapes, heap, rcu, hist
<1>o. OnList' = OnList /\ OnList \subseteq Node  BY <1>1 DEF OnList, heap
<1>5. \A n \in Node : View(t, n, open)' <=> View(t, n, open)  BY <1>o DEF View
<1>6. ThreadOk(t, rank, open)'
  <2>1. SectionOk(t, open)'
    <3>1. InSection(t)' => pos'[t] \in Cells /\ (pos'[t] # HEAD => View(t, pos[t], open)')
      BY <1>2, <1>3, <1>o DEF View
    <3> QED  BY <3>1, <1>1, <1>s DEF ThreadOk, SectionOk, InSection, heap
  <2>2. WriterOk(t, rank)'  BY <1>1, <1>3, <1>o, <1>s DEF ThreadOk, WriterOk, heap
  <2>3. ListerOk(t, rank, open)'  BY <1>1 DEF ListerOk
  <2>4. ToldOnce(t)'  BY <1>1, <1>s DEF ThreadOk, ToldOnce
  <2>5. ReaderOk(t, rank, open)'
    <3>1. \A m \in Node : View(t, m, open)' /\ did'[m] = call'[t].did => View(t, m, open) /\ did[m] = call[t].did
      BY <1>1, <1>5 DEF heap
    <3>2. \A m \in OnList : did[m] = call[t].did /\ Ahead(t, m, rank) => Ahead(t, m, rank)'
      BY <1>1, <1>3
    <3> QED  BY <3>1, <3>2, <1>1, <1>o, <1>s DEF ThreadOk, ReaderOk, heap, hist
  <2> QED  BY <2>1, <2>2, <2>3, <2>4, <2>5 DEF ThreadOk
<1>7. \A u \in Thread \ {t} : Same(u) /\ tmp'[u] = tmp[u]  BY <1>1, <1>s DEF Same, Shapes, hist
<1>8. pc[t] \notin Busy /\ pc'[t] \notin Busy  BY <1>1 DEF Busy
<1>9. UNCHANGED <<heap, size, lock, retired, lost, raced>> /\ waits' = waits  BY <1>1 DEF rcu, hist
<1> QED  BY <1>4, <1>6, <1>7, <1>8, <1>9, OpenStays, CalmStep

LEMMA ListNextStep ==
    ASSUME NEW rank \in Ranks, NEW top \in Nat, NEW open \in Opens, IInv(rank, top, open),
           NEW t \in Thread, ListNext(t)
    PROVE Sound'
<1> DEFINE p == pos[t]
<1>1. /\ InSection(t) /\ p # HEAD /\ pc[t] = "list"
      /\ ids' = [ids EXCEPT ![t] = Append(@, did[p])]
      /\ pos' = [pos EXCEPT ![t] = next[p]]
      /\ UNCHANGED <<heap, size, lock, rcu, pc, call, new, tmp, got, hist, calls>>
  BY DEF ListNext, InSection
<1>s. Shapes /\ ThreadOk(t, rank, open)  BY DEF IInv
<1>2. pos'[t] = next[p] /\ ids'[t] = Append(ids[t], did[p]) /\ ids[t] \in Seq(Did)
  BY <1>1, <1>s DEF Shapes
<1>3. /\ p \in Node /\ View(t, p, open) /\ did[p] \in Did
      /\ pos'[t] \in Cells
      /\ pos'[t] # HEAD => View(t, next[p], open)
      /\ \A n \in Node : Ahead(t, n, rank)' => Ahead(t, n, rank) /\ rank[n] # rank[p]
      /\ \A m \in OnList : did[m] # did[p] /\ Ahead(t, m, rank) => Ahead(t, m, rank)'
  BY <1>1, <1>2, Advance
<1>4. Shapes'
  <2>1. ids' \in [Thread -> Seq(Did)]
    <3>1. Append(ids[t], did[p]) \in Seq(Did)  BY <1>2, <1>3
    <3> QED  BY <3>1, <1>1, <1>s DEF Shapes
  <2> QED  BY <2>1, <1>1, <1>2, <1>3, <1>s DEF Shapes, heap, rcu, hist
<1>o. OnList' = OnList /\ OnList \subseteq Node  BY <1>1 DEF OnList, heap
<1>5. \A n \in Node : View(t, n, open)' <=> View(t, n, open)  BY <1>o DEF View
<1>d. DOMAIN ids[t] = 1 .. Len(ids[t]) /\ Len(ids[t]) \in Nat
      /\ DOMAIN ids'[t] = 1 .. Len(ids[t]) + 1
      /\ ids'[t][Len(ids[t]) + 1] = did[p] /\ \A i \in DOMAIN ids[t] : ids'[t][i] = ids[t][i]
  BY <1>2, <1>3
<1>6. Told(t)' = Told(t) \cup {did[p]}
  <2>1. ASSUME NEW d \in Told(t)' PROVE d \in Told(t) \cup {did[p]}
    <3>1. PICK i \in DOMAIN ids'[t] : d = ids'[t][i]  BY <2>1 DEF Told
    <3> QED  BY <3>1, <1>d DEF Told
  <2>2. ASSUME NEW d \in Told(t) PROVE d \in Told(t)'
    <3>1. PICK i \in DOMAIN ids[t] : d = ids[t][i]  BY <2>2 DEF Told
    <3>2. i \in DOMAIN ids'[t] /\ ids'[t][i] = d  BY <3>1, <1>d
    <3> QED  BY <3>2 DEF Told
  <2>3. did[p] \in Told(t)'
    <3>1. Len(ids[t]) + 1 \in DOMAIN ids'[t]  BY <1>d
    <3> QED  BY <3>1, <1>d DEF Told
  <2> QED  BY <2>1, <2>2, <2>3
<1>7. Ahead(t, p, rank) /\ did[p] \notin Told(t)
  <2>1. Ahead(t, p, rank)  BY <1>1, <1>3 DEF Ahead, Ranks
  <2> QED  BY <2>1, <1>1, <1>3, <1>s DEF ThreadOk, ListerOk
<1>8. ThreadOk(t, rank, open)'
  <2>1. SectionOk(t, open)'
    <3>1. InSection(t)' => pos'[t] \in Cells /\ (pos'[t] # HEAD => View(t, pos[t], open)')
      BY <1>2, <1>3, <1>o DEF View
    <3> QED  BY <3>1, <1>1, <1>s DEF ThreadOk, SectionOk, InSection, heap
  <2>2. WriterOk(t, rank)'  BY <1>1 DEF WriterOk
  <2>3. ListerOk(t, rank, open)'
    <3>1. ASSUME NEW m \in Node, NEW n \in Node,
                 View(t, m, open)', View(t, n, open)', Ahead(t, m, rank)', Ahead(t, n, rank)', did[m] = did[n]
          PROVE rank[m] = rank[n]
      BY <3>1, <1>1, <1>3, <1>5, <1>s DEF ThreadOk, ListerOk
    <3>2. ASSUME NEW m \in Node, View(t, m, open)', Ahead(t, m, rank)'
          PROVE did[m] \notin Told(t)'
      <4>1. View(t, m, open) /\ Ahead(t, m, rank) /\ rank[m] # rank[p]  BY <3>2, <1>3, <1>5
      <4>2. did[m] \notin Told(t)  BY <4>1, <1>1, <1>s DEF ThreadOk, ListerOk
      <4>3. did[m] # did[p]  BY <4>1, <1>1, <1>3, <1>7, <1>s DEF ThreadOk, ListerOk
      <4> QED  BY <4>2, <4>3, <1>6
    <3>3. ASSUME NEW d \in stayed[t]
          PROVE d \in Told(t)' \/ \E m \in OnList : did[m] = d /\ Ahead(t, m, rank)'
      <4>1. d \in Told(t) \/ \E m \in OnList : did[m] = d /\ Ahead(t, m, rank)
        BY <1>1, <1>s DEF ThreadOk, ListerOk
      <4> QED  BY <4>1, <1>3, <1>6
    <3> QED  BY <3>1, <3>2, <3>3, <1>1, <1>o DEF ListerOk, heap, hist
  <2>4. ToldOnce(t)'
    <3>1. \A i, j \in DOMAIN ids[t] : ids[t][i] = ids[t][j] => i = j  BY <1>s DEF ThreadOk, ToldOnce
    <3>2. \A i \in DOMAIN ids[t] : ids[t][i] # did[p]  BY <1>7 DEF Told
    <3>3. \A i \in DOMAIN ids'[t] : i \in DOMAIN ids[t] \/ i = Len(ids[t]) + 1  BY <1>d
    <3>4. \A i, j \in DOMAIN ids'[t] : ids'[t][i] = ids'[t][j] => i = j
      <4> SUFFICES ASSUME NEW i \in DOMAIN ids'[t], NEW j \in DOMAIN ids'[t], ids'[t][i] = ids'[t][j]
                   PROVE i = j
        OBVIOUS
      <4>1. CASE i \in DOMAIN ids[t] /\ j \in DOMAIN ids[t]  BY <4>1, <3>1, <1>d
      <4>2. CASE i \in DOMAIN ids[t] /\ j \notin DOMAIN ids[t]  BY <4>2, <3>2, <3>3, <1>d
      <4>3. CASE i \notin DOMAIN ids[t] /\ j \in DOMAIN ids[t]  BY <4>3, <3>2, <3>3, <1>d
      <4>4. CASE i \notin DOMAIN ids[t] /\ j \notin DOMAIN ids[t]  BY <4>4, <3>3
      <4> QED  BY <4>1, <4>2, <4>3, <4>4
    <3> QED  BY <3>4, <1>1 DEF ToldOnce
  <2>5. ReaderOk(t, rank, open)'  BY <1>1 DEF ReaderOk
  <2> QED  BY <2>1, <2>2, <2>3, <2>4, <2>5 DEF ThreadOk
<1>9. \A u \in Thread \ {t} : Same(u) /\ tmp'[u] = tmp[u]  BY <1>1, <1>s DEF Same, Shapes, hist
<1>10. pc[t] \notin Busy /\ pc'[t] \notin Busy  BY <1>1 DEF Busy
<1>11. UNCHANGED <<heap, size, lock, retired, lost, raced>> /\ waits' = waits  BY <1>1 DEF rcu, hist
<1> QED  BY <1>4, <1>8, <1>9, <1>10, <1>11, OpenStays, CalmStep

\* Nothing but the number of calls changes.
LEMMA StillStep ==
    ASSUME Sound, UNCHANGED <<heap, size, lock, rcu, local, hist>>
    PROVE Sound'
<1>1. PICK rank \in Ranks, top \in Nat, open \in Opens : IInv(rank, top, open)  BY DEF Sound
<1> USE DEF heap, rcu, local, hist
<1>o. OnList' = OnList /\ Loose' = Loose  BY DEF OnList, Loose
<1>2. Shapes'  BY <1>1 DEF IInv, Shapes
<1>3. Quiet(open)  BY <1>o DEF Quiet
<1>4. Ring' /\ Order(rank, top, open)'
  <2>1. {} \in SUBSET Thread  OBVIOUS
  <2> QED  BY <1>1, <1>3, <2>1, QuietList, OpenStays DEF IInv
<1>5. Places(open)'  BY <1>1, <1>o DEF IInv, Places, Prep, Cut
<1>6. Sizes'  BY <1>1, <1>o DEF IInv, Sizes, Rising, Falling
<1>7. ASSUME NEW t \in Thread PROVE ThreadOk(t, rank, open)'
  <2>1. {} \in SUBSET Thread /\ t \notin {} /\ Same(t)  BY DEF Same
  <2> QED  BY <1>1, <1>3, <2>1, QuietThread, OpenStays DEF IInv
<1> QED  BY <1>2, <1>4, <1>5, <1>6, <1>7 DEF Sound, IInv

\* A call begins: nothing is told, everything is ahead.
LEMMA Begins ==
    ASSUME NEW rank \in Ranks, NEW top \in Nat, NEW open \in Opens, IInv(rank, top, open),
           NEW t \in Thread, pc[t] = "idle", InSection(t)',
           pos' = [pos EXCEPT ![t] = next[HEAD]], UNCHANGED heap
    PROVE /\ pos'[t] = next[HEAD] /\ pos'[t] \in Cells /\ OnList' = OnList /\ OnList \subseteq Node
          /\ \A n \in Node : t \notin open[n]
          /\ \A n \in Node : View(t, n, open)' <=> n \in OnList
          /\ \A m \in OnList : Ahead(t, m, rank)'
          /\ pos'[t] # HEAD => View(t, pos[t], open)'
<1>s. Shapes /\ ThreadOk(t, rank, open)  BY DEF IInv
<1>1. pos'[t] = next[HEAD]  BY <1>s DEF Shapes
<1>2. pos'[t] \in OnList \cup {HEAD} /\ OnList \subseteq Node /\ OnList' = OnList
  BY <1>1 DEF IInv, Ring, OnList, heap
<1>3. \A n \in Node : t \notin open[n]  BY <1>s DEF ThreadOk, SectionOk, InSection
<1>4. \A n \in Node : View(t, n, open)' <=> n \in OnList  BY <1>2, <1>3 DEF View
<1>5. \A m \in OnList : Ahead(t, m, rank)'  BY <1>1 DEF Ahead, IInv, Order
<1>6. pos'[t] # HEAD => View(t, pos[t], open)'  BY <1>2 DEF View
<1> QED  BY <1>1, <1>2, <1>3, <1>4, <1>5, <1>6 DEF Cells

LEMMA HeldNow ==
    ASSUME NEW rank \in Ranks, NEW top \in Nat, NEW open \in Opens, IInv(rank, top, open)
    PROVE Held /\ Linked = OnList /\ \A d \in Did : Stored(d) \in Data \cup {NULL}
<1>1. Held /\ Linked = OnList  BY HeldIs, LinkedIs DEF IInv, Ordered
<1>2. ASSUME NEW d \in Did PROVE Stored(d) \in Data \cup {NULL}
  <2>1. CASE First(d) = HEAD  BY <2>1, <1>1 DEF Held
  <2>2. CASE First(d) \in OnList  BY <2>2, <1>1 DEF Held
  <2> QED  BY <2>1, <2>2, <1>1 DEF Held
<1> QED  BY <1>1, <1>2

LEMMA WriteBeginStep ==
    ASSUME NEW rank \in Ranks, NEW top \in Nat, NEW open \in Opens, IInv(rank, top, open),
           NEW t \in Thread, NEW d \in Did, NEW v \in Data, WriteBegin(t, d, v)
    PROVE Sound'
<1> DEFINE c == [op |-> "write", did |-> d, data |-> v]
<1>1. /\ pc[t] = "idle" /\ pc' = [pc EXCEPT ![t] = "find"]
      /\ call' = [call EXCEPT ![t] = c] /\ pos' = [pos EXCEPT ![t] = next[HEAD]]
      /\ d \in Keys[t]
      /\ UNCHANGED <<heap, size, lock, rcu, new, tmp, got, ids, hist>>
  BY DEF WriteBegin, Enter, Goto
<1>s. Shapes /\ ThreadOk(t, rank, open)  BY DEF IInv
<1>c. c \in CallRecord /\ c.op = "write" /\ c.did = d /\ c.data = v  BY DEF CallRecord
<1> HIDE DEF c
<1>2. pc'[t] = "find" /\ call'[t] = c  BY <1>1, <1>s DEF Shapes
<1>3. /\ pos'[t] = next[HEAD] /\ pos'[t] \in Cells /\ OnList' = OnList /\ OnList \subseteq Node
      /\ \A n \in Node : t \notin open[n]
      /\ \A m \in OnList : Ahead(t, m, rank)'
      /\ pos'[t] # HEAD => View(t, pos[t], open)'
  BY <1>1, <1>2, Begins DEF InSection
<1>4. Shapes'  BY <1>1, <1>2, <1>3, <1>c, <1>s DEF Shapes, heap, rcu, hist, Pcs
<1>5. ThreadOk(t, rank, open)'
  <2>1. SectionOk(t, open)'  BY <1>2, <1>3, <1>c DEF SectionOk
  <2>2. WriterOk(t, rank)'  BY <1>2, <1>3, <1>c, <1>1 DEF WriterOk
  <2>3. ListerOk(t, rank, open)'  BY <1>2 DEF ListerOk
  <2>4. ToldOnce(t)'  BY <1>1, <1>2, <1>s DEF ThreadOk, ToldOnce
  <2>5. ReaderOk(t, rank, open)'  BY <1>2, <1>c DEF ReaderOk
  <2> QED  BY <2>1, <2>2, <2>3, <2>4, <2>5 DEF ThreadOk
<1>6. \A u \in Thread \ {t} : Same(u) /\ tmp'[u] = tmp[u]  BY <1>1, <1>s DEF Same, Shapes, hist
<1>7. pc[t] \notin Busy /\ pc'[t] \notin Busy  BY <1>1, <1>2 DEF Busy
<1>8. UNCHANGED <<heap, size, lock, retired, lost, raced>> /\ waits' = waits  BY <1>1 DEF rcu, hist
<1> QED  BY <1>4, <1>5, <1>6, <1>7, <1>8, OpenStays, CalmStep

LEMMA ReadBeginStep ==
    ASSUME NEW rank \in Ranks, NEW top \in Nat, NEW open \in Opens, IInv(rank, top, open),
           NEW t \in Thread, NEW d \in Did, ReadBegin(t, d)
    PROVE Sound'
<1> DEFINE c == [op |-> "read", did |-> d, data |-> NULL]
<1>1. /\ pc[t] = "idle" /\ pc' = [pc EXCEPT ![t] = "find"]
      /\ call' = [call EXCEPT ![t] = c] /\ pos' = [pos EXCEPT ![t] = next[HEAD]]
      /\ seen' = [seen EXCEPT ![t] = {Stored(d)}]
      /\ UNCHANGED <<heap, size, lock, rcu, new, tmp, got, ids, stayed, lost, raced>>
  BY DEF ReadBegin, Enter, Goto
<1>s. Shapes /\ ThreadOk(t, rank, open)  BY DEF IInv
<1>c. c \in CallRecord /\ c.op = "read" /\ c.did = d  BY DEF CallRecord
<1> HIDE DEF c
<1>2. pc'[t] = "find" /\ call'[t] = c /\ seen'[t] = {Stored(d)}  BY <1>1, <1>s DEF Shapes
<1>3. /\ pos'[t] = next[HEAD] /\ pos'[t] \in Cells /\ OnList' = OnList /\ OnList \subseteq Node
      /\ \A n \in Node : t \notin open[n]
      /\ \A n \in Node : View(t, n, open)' <=> n \in OnList
      /\ \A m \in OnList : Ahead(t, m, rank)'
      /\ pos'[t] # HEAD => View(t, pos[t], open)'
  BY <1>1, <1>2, Begins DEF InSection
<1>h. Held /\ \A e \in Did : Stored(e) \in Data \cup {NULL}  BY HeldNow
<1>4. Shapes'
  <2>1. seen' \in [Thread -> SUBSET (Data \cup {NULL})]  BY <1>1, <1>h, <1>s DEF Shapes
  <2> QED  BY <2>1, <1>1, <1>2, <1>3, <1>c, <1>s DEF Shapes, heap, rcu, Pcs
<1>5. ThreadOk(t, rank, open)'
  <2>1. SectionOk(t, open)'  BY <1>2, <1>3, <1>c DEF SectionOk
  <2>2. WriterOk(t, rank)'  BY <1>2, <1>c DEF WriterOk
  <2>3. ListerOk(t, rank, open)'  BY <1>2 DEF ListerOk
  <2>4. ToldOnce(t)'  BY <1>1, <1>2, <1>s DEF ThreadOk, ToldOnce
  <2>5. ReaderOk(t, rank, open)'
    <3>1. \A m \in OnList : did[m] = d => data[m] = Stored(d)  BY <1>h DEF Held
    <3>2. NULL = Stored(d) \/ \E m \in OnList : did[m] = d  BY <1>h DEF Held
    <3>3. did' = did /\ data' = data  BY <1>1 DEF heap
    <3> QED  BY <3>1, <3>2, <3>3, <1>2, <1>3, <1>c DEF ReaderOk
  <2> QED  BY <2>1, <2>2, <2>3, <2>4, <2>5 DEF ThreadOk
<1>6. \A u \in Thread \ {t} : Same(u) /\ tmp'[u] = tmp[u]  BY <1>1, <1>s DEF Same, Shapes
<1>7. pc[t] \notin Busy /\ pc'[t] \notin Busy  BY <1>1, <1>2 DEF Busy
<1>8. UNCHANGED <<heap, size, lock, retired, lost, raced>> /\ waits' = waits  BY <1>1 DEF rcu
<1> QED  BY <1>4, <1>5, <1>6, <1>7, <1>8, OpenStays, CalmStep

LEMMA ListBeginStep ==
    ASSUME NEW rank \in Ranks, NEW top \in Nat, NEW open \in Opens, IInv(rank, top, open),
           NEW t \in Thread, ListBegin(t)
    PROVE Sound'
<1> DEFINE c == [op |-> "list", did |-> NULL, data |-> NULL]
<1>1. /\ pc[t] = "idle" /\ pc' = [pc EXCEPT ![t] = "list"]
      /\ call' = [call EXCEPT ![t] = c] /\ pos' = [pos EXCEPT ![t] = next[HEAD]]
      /\ ids' = [ids EXCEPT ![t] = <<>>]
      /\ stayed' = [stayed EXCEPT ![t] = StoredIds]
      /\ UNCHANGED <<heap, size, lock, rcu, new, tmp, got, seen, lost, raced>>
  BY DEF ListBegin, Enter, Goto
<1>s. Shapes /\ ThreadOk(t, rank, open)  BY DEF IInv
<1>c. c \in CallRecord  BY DEF CallRecord
<1> HIDE DEF c
<1>2. pc'[t] = "list" /\ call'[t] = c /\ stayed'[t] = StoredIds /\ ids'[t] = <<>>
  BY <1>1, <1>s DEF Shapes
<1>3. /\ pos'[t] = next[HEAD] /\ pos'[t] \in Cells /\ OnList' = OnList /\ OnList \subseteq Node
      /\ \A n \in Node : t \notin open[n]
      /\ \A n \in Node : View(t, n, open)' <=> n \in OnList
      /\ \A m \in OnList : Ahead(t, m, rank)'
      /\ pos'[t] # HEAD => View(t, pos[t], open)'
  BY <1>1, <1>2, Begins DEF InSection
<1>h. Held  BY HeldNow
<1>4. Shapes'
  <2>1. ids' \in [Thread -> Seq(Did)] /\ stayed' \in [Thread -> SUBSET Did]
    BY <1>1, <1>s DEF Shapes, StoredIds
  <2> QED  BY <2>1, <1>1, <1>2, <1>3, <1>c, <1>s DEF Shapes, heap, rcu, Pcs
<1>d. DOMAIN ids'[t] = {}
  <2>1. DOMAIN <<>> = {}  OBVIOUS
  <2> QED  BY <2>1, <1>2
<1>5. ThreadOk(t, rank, open)'
  <2>1. SectionOk(t, open)'  BY <1>2, <1>3 DEF SectionOk
  <2>2. WriterOk(t, rank)'  BY <1>2 DEF WriterOk
  <2>3. ListerOk(t, rank, open)'
    <3>1. \A m, n \in OnList : did[m] = did[n] => m = n  BY DEF IInv, Order
    <3>2. Told(t)' = {}  BY <1>d DEF Told
    <3>3. \A e \in StoredIds : \E m \in OnList : did[m] = e
      <4> SUFFICES ASSUME NEW e \in Did, Stored(e) # NULL PROVE \E m \in OnList : did[m] = e
        BY DEF StoredIds
      <4> QED  BY <1>h DEF Held
    <3>4. did' = did  BY <1>1 DEF heap
    <3> QED  BY <3>1, <3>2, <3>3, <3>4, <1>2, <1>3 DEF ListerOk
  <2>4. ToldOnce(t)'  BY <1>2, <1>d DEF ToldOnce
  <2>5. ReaderOk(t, rank, open)'  BY <1>2 DEF ReaderOk
  <2> QED  BY <2>1, <2>2, <2>3, <2>4, <2>5 DEF ThreadOk
<1>6. \A u \in Thread \ {t} : Same(u) /\ tmp'[u] = tmp[u]  BY <1>1, <1>s DEF Same, Shapes
<1>7. pc[t] \notin Busy /\ pc'[t] \notin Busy  BY <1>1, <1>2 DEF Busy
<1>8. UNCHANGED <<heap, size, lock, retired, lost, raced>> /\ waits' = waits  BY <1>1 DEF rcu
<1> QED  BY <1>4, <1>5, <1>6, <1>7, <1>8, OpenStays, CalmStep

LEMMA ReadFoundStep ==
    ASSUME NEW rank \in Ranks, NEW top \in Nat, NEW open \in Opens, IInv(rank, top, open),
           NEW t \in Thread, ReadFound(t)
    PROVE Sound'
<1>1. /\ pc[t] = "find" /\ call[t].op = "read" /\ pos[t] # HEAD /\ did[pos[t]] = call[t].did
      /\ pc' = [pc EXCEPT ![t] = "copy"]
      /\ UNCHANGED <<heap, size, lock, rcu, call, pos, new, tmp, got, ids, hist, calls>>
  BY DEF ReadFound, LookupDone, Found, Goto
<1>s. Shapes /\ ThreadOk(t, rank, open)  BY DEF IInv
<1>2. pc'[t] = "copy"  BY <1>1, <1>s DEF Shapes
<1>3. Shapes'  BY <1>1, <1>2, <1>s DEF Shapes, heap, rcu, hist, Pcs
<1>o. OnList' = OnList  BY <1>1 DEF OnList, heap
<1>4. \A n : View(t, n, open)' <=> View(t, n, open)  BY <1>o DEF View
<1>5. ThreadOk(t, rank, open)'
  <2>1. SectionOk(t, open)'  BY <1>1, <1>2, <1>4, <1>s DEF ThreadOk, SectionOk, InSection, heap
  <2>2. WriterOk(t, rank)'  BY <1>2 DEF WriterOk
  <2>3. ListerOk(t, rank, open)'  BY <1>2 DEF ListerOk
  <2>4. ToldOnce(t)'  BY <1>1, <1>2, <1>s DEF ThreadOk, ToldOnce
  <2>5. ReaderOk(t, rank, open)'
    BY <1>1, <1>2, <1>4, <1>o, <1>s DEF ThreadOk, ReaderOk, heap, hist
  <2> QED  BY <2>1, <2>2, <2>3, <2>4, <2>5 DEF ThreadOk
<1>6. \A u \in Thread \ {t} : Same(u) /\ tmp'[u] = tmp[u]  BY <1>1, <1>s DEF Same, Shapes, hist
<1>7. pc[t] \notin Busy /\ pc'[t] \notin Busy  BY <1>1, <1>2 DEF Busy
<1>8. UNCHANGED <<heap, size, lock, retired, lost, raced>> /\ waits' = waits  BY <1>1 DEF rcu, hist
<1> QED  BY <1>3, <1>5, <1>6, <1>7, <1>8, OpenStays, CalmStep

\* A section ends and its call returns; its marks are taken off.
LEMMA ReturnStep ==
    ASSUME NEW rank \in Ranks, NEW top \in Nat, NEW open \in Opens, IInv(rank, top, open),
           NEW t \in Thread, LeaveSection(t), Return(t),
           UNCHANGED <<heap, size, lock, retired, lost, raced>>,
           pc[t] \notin Busy, ids'[t] = <<>>,
           \A u \in Thread \ {t} : ids'[u] = ids[u] /\ seen'[u] = seen[u] /\ stayed'[u] = stayed[u],
           got' \in [Thread -> Data \cup {NULL}], ids' \in [Thread -> Seq(Did)],
           seen' \in [Thread -> SUBSET (Data \cup {NULL})], stayed' \in [Thread -> SUBSET Did]
    PROVE Sound'
<1>1. /\ waits' = [n \in Node |-> waits[n] \ {t}]
      /\ pc' = [pc EXCEPT ![t] = "idle"] /\ call' = [call EXCEPT ![t] = NULL]
      /\ pos' = [pos EXCEPT ![t] = NULL] /\ new' = [new EXCEPT ![t] = NULL]
      /\ tmp' = [tmp EXCEPT ![t] = 0]
  BY DEF LeaveSection, Return, Goto
<1>s. Shapes  BY DEF IInv
<1>2. Shapes'
  <2>1. waits' \in [Node -> SUBSET Thread]  BY <1>1, <1>s DEF Shapes
  <2> QED  BY <2>1, <1>1, <1>s DEF Shapes, heap, Pcs
<1>3. pc'[t] = "idle"  BY <1>1, <1>s DEF Shapes
<1>4. Closed(open, {t}) \in Opens /\ \A n \in Node : t \notin Closed(open, {t})[n]  BY ClosedIn
<1>5. ThreadOk(t, rank, Closed(open, {t}))'  BY <1>3, <1>4, RestOk
<1>6. \A u \in Thread \ {t} : Same(u) /\ tmp'[u] = tmp[u]  BY <1>1, <1>s DEF Same, Shapes
<1>7. pc'[t] \notin Busy  BY <1>3 DEF Busy
<1>8. \A n \in Node : waits[n] \ {t} \subseteq waits'[n]  BY <1>1
<1>9. {t} \in SUBSET {t}  OBVIOUS
<1> QED  BY <1>2, <1>5, <1>6, <1>7, <1>8, <1>9, CalmStep

LEMMA WriteNoMemoryStep ==
    ASSUME NEW rank \in Ranks, NEW top \in Nat, NEW open \in Opens, IInv(rank, top, open),
           NEW t \in Thread, WriteNoMemory(t)
    PROVE Sound'
<1>1. /\ pc[t] = "find" /\ LeaveSection(t) /\ Return(t)
      /\ UNCHANGED <<heap, size, lock, retired, got, ids, hist, calls>>
  BY DEF WriteNoMemory, LookupDone
<1>2. Shapes /\ ids[t] = <<>>  BY <1>1 DEF IInv, ThreadOk, ToldOnce
<1>3. pc[t] \notin Busy  BY <1>1 DEF Busy
<1> QED  BY <1>1, <1>2, <1>3, ReturnStep DEF Shapes, hist

LEMMA ReadReturnStep ==
    ASSUME NEW rank \in Ranks, NEW top \in Nat, NEW open \in Opens, IInv(rank, top, open),
           NEW t \in Thread, NEW v \in Data \cup {NULL}, pc[t] \in {"find", "copy"}, ReadReturn(t, v)
    PROVE Sound'
<1>1. /\ LeaveSection(t) /\ Return(t)
      /\ got' = [got EXCEPT ![t] = v] /\ seen' = [seen EXCEPT ![t] = {}]
      /\ UNCHANGED <<heap, size, lock, retired, ids, stayed, lost, raced, calls>>
  BY DEF ReadReturn
<1>2. Shapes /\ ids[t] = <<>>  BY <1>1 DEF IInv, ThreadOk, ToldOnce
<1>3. pc[t] \notin Busy  BY DEF Busy
<1>4. got' \in [Thread -> Data \cup {NULL}] /\ seen' \in [Thread -> SUBSET (Data \cup {NULL})]
      /\ \A u \in Thread \ {t} : seen'[u] = seen[u]
  BY <1>1, <1>2 DEF Shapes
<1> QED  BY <1>1, <1>2, <1>3, <1>4, ReturnStep DEF Shapes

\* What a reader takes is what its id held.
LEMMA ReadAnswers ==
    ASSUME NEW rank \in Ranks, NEW top \in Nat, NEW open \in Opens, IInv(rank, top, open),
           NEW t \in Thread
    PROVE /\ ReadAbsent(t) => NULL \in seen[t]
          /\ ReadCopy(t) => data[pos[t]] \in seen[t] /\ data[pos[t]] \in Data
<1>s. Shapes /\ ThreadOk(t, rank, open)  BY DEF IInv
<1>1. ASSUME ReadAbsent(t) PROVE NULL \in seen[t]
  <2>1. pc[t] = "find" /\ call[t].op = "read" /\ pos[t] = HEAD  BY <1>1 DEF ReadAbsent, LookupDone
  <2> QED  BY <2>1, <1>s DEF ThreadOk, ReaderOk, Ahead
<1>2. ASSUME ReadCopy(t) PROVE data[pos[t]] \in seen[t] /\ data[pos[t]] \in Data
  <2>1. pc[t] = "copy"  BY <1>2 DEF ReadCopy
  <2>2. /\ call[t].op = "read" /\ pos[t] # HEAD /\ did[pos[t]] = call[t].did
        /\ pos[t] \in Node /\ View(t, pos[t], open)
    BY <2>1, <1>s DEF ThreadOk, SectionOk, InSection, Cells
  <2>3. Live(pos[t], open)  BY <2>2 DEF View, Live
  <2> QED  BY <2>1, <2>2, <2>3, <1>s DEF ThreadOk, ReaderOk, IInv, Order
<1> QED  BY <1>1, <1>2

LEMMA ReadAbsentStep ==
    ASSUME NEW rank \in Ranks, NEW top \in Nat, NEW open \in Opens, IInv(rank, top, open),
           NEW t \in Thread, ReadAbsent(t)
    PROVE Sound'
<1>1. pc[t] \in {"find", "copy"} /\ ReadReturn(t, NULL)  BY DEF ReadAbsent, LookupDone
<1> QED  BY <1>1, ReadReturnStep

LEMMA ReadCopyStep ==
    ASSUME NEW rank \in Ranks, NEW top \in Nat, NEW open \in Opens, IInv(rank, top, open),
           NEW t \in Thread, ReadCopy(t)
    PROVE Sound'
<1>1. pc[t] \in {"find", "copy"} /\ ReadReturn(t, data[pos[t]]) /\ data[pos[t]] \in Data
  BY ReadAnswers DEF ReadCopy
<1> QED  BY <1>1, ReadReturnStep

LEMMA ListEndStep ==
    ASSUME NEW rank \in Ranks, NEW top \in Nat, NEW open \in Opens, IInv(rank, top, open),
           NEW t \in Thread, ListEnd(t)
    PROVE Sound'
<1>1. /\ pc[t] = "list" /\ LeaveSection(t) /\ Return(t)
      /\ stayed' = [stayed EXCEPT ![t] = {}] /\ ids' = [ids EXCEPT ![t] = <<>>]
      /\ UNCHANGED <<heap, size, lock, retired, got, seen, lost, raced, calls>>
  BY DEF ListEnd
<1>2. Shapes  BY DEF IInv
<1>3. pc[t] \notin Busy  BY <1>1 DEF Busy
<1>4. ids' \in [Thread -> Seq(Did)] /\ stayed' \in [Thread -> SUBSET Did] /\ ids'[t] = <<>>
      /\ \A u \in Thread \ {t} : ids'[u] = ids[u] /\ stayed'[u] = stayed[u]
  BY <1>1, <1>2 DEF Shapes
<1> QED  BY <1>1, <1>2, <1>3, <1>4, ReturnStep DEF Shapes

LEMMA RemoveAbsentStep ==
    ASSUME Sound, NEW t \in Thread, NEW d \in Did, RemoveAbsent(t, d)
    PROVE Sound'
<1>1. UNCHANGED <<heap, size, lock, rcu, local, hist>>  BY DEF RemoveAbsent
<1> QED  BY <1>1, StillStep
-----------------------------------------------------------------------------
(* Steps that take or give memory, or count *)

LEMMA LiveIsAlive ==
    ASSUME NEW open \in Opens, Places(open), NEW n \in Node, Live(n, open)
    PROVE n \in alive
BY DEF Places, Live, Loose

LEMMA QuietStep ==
    ASSUME NEW rank \in Ranks, NEW top \in Nat, NEW open \in Opens, IInv(rank, top, open),
           NEW t \in Thread, NEW X \in SUBSET {t}, Shapes', Quiet(open),
           Places(Closed(open, X))', Sizes',
           \A u \in Thread \ {t} : Same(u),
           ThreadOk(t, rank, Closed(open, X))'
    PROVE Sound'
<1> DEFINE op2 == Closed(open, X)
<1>1. op2 \in Opens  BY ClosedIn
<1>2. X \in SUBSET Thread  OBVIOUS
<1>3. Ring' /\ Order(rank, top, op2)'  BY <1>2, QuietList DEF IInv
<1>4. ASSUME NEW u \in Thread PROVE ThreadOk(u, rank, op2)'
  <2>1. CASE u = t  BY <2>1
  <2>2. CASE u # t
    <3>1. u \notin X /\ Same(u)  BY <2>2
    <3> QED  BY <3>1, <1>2, QuietThread DEF IInv
  <2> QED  BY <2>1, <2>2
<1> HIDE DEF op2
<1>5. IInv(rank, top, op2)'  BY <1>3, <1>4 DEF IInv, op2
<1> QED  BY <1>1, <1>5 DEF Sound

LEMMA WriteCopyFailsStep ==
    ASSUME NEW rank \in Ranks, NEW top \in Nat, NEW open \in Opens, IInv(rank, top, open),
           NEW t \in Thread, WriteCopyFails(t)
    PROVE Sound'
<1>1. PICK n \in Node \ alive : Fill(t, n) /\ lost' = lost \cup {n}  BY DEF WriteCopyFails
<1>2. /\ pc[t] = "find" /\ call[t].op = "write"
      /\ alive' = alive \cup {n} /\ did' = [did EXCEPT ![n] = call[t].did]
      /\ waits' = [m \in Node |-> waits[m] \ {t}]
      /\ pc' = [pc EXCEPT ![t] = "idle"] /\ call' = [call EXCEPT ![t] = NULL]
      /\ pos' = [pos EXCEPT ![t] = NULL] /\ new' = [new EXCEPT ![t] = NULL]
      /\ tmp' = [tmp EXCEPT ![t] = 0]
      /\ UNCHANGED <<next, prev, data, size, lock, retired, got, ids, seen, stayed, raced, calls>>
  BY <1>1 DEF WriteCopyFails, LookupDone, Fill, LeaveSection, Return, Goto
<1>s. Shapes /\ Places(open) /\ ThreadOk(t, rank, open)  BY DEF IInv
<1>3. call[t].did \in Did  BY <1>2, <1>s DEF ThreadOk, SectionOk
<1>4. Shapes'
  <2>1. waits' \in [Node -> SUBSET Thread]  BY <1>2, <1>s DEF Shapes
  <2> QED  BY <2>1, <1>1, <1>2, <1>3, <1>s DEF Shapes, Pcs
<1>o. OnList' = OnList /\ OnList \subseteq Node /\ n \notin OnList  BY <1>1, <1>2, <1>s DEF OnList, Places
<1>l. Loose' = Loose  BY <1>1, <1>2, <1>o DEF Loose
<1>5. Quiet(open)
  <2>1. \A m \in Node : Live(m, open) \/ m \in Loose => m # n  BY <1>1, <1>s, LiveIsAlive DEF Loose
  <2> QED  BY <2>1, <1>2, <1>o, <1>s DEF Quiet, Shapes
<1> DEFINE op2 == Closed(open, {t})
<1>6. op2 \in Opens /\ \A m \in Node : op2[m] = open[m] \ {t}  BY ClosedIn
<1> HIDE DEF op2
<1>7. pc'[t] = "idle" /\ ids'[t] = <<>>  BY <1>2, <1>s DEF Shapes, ThreadOk, ToldOnce
<1>8. ThreadOk(t, rank, op2)'  BY <1>6, <1>7, RestOk
<1>9. \A u \in Thread \ {t} : Same(u) /\ tmp'[u] = tmp[u]  BY <1>2, <1>s DEF Same, Shapes
<1>10. \A u \in Thread : /\ Prep(u)' <=> Prep(u)
                         /\ Cut(u)' <=> Cut(u)
                         /\ Prep(u) => new'[u] = new[u] /\ u # t
                         /\ Cut(u) => pos'[u] = pos[u] /\ u # t
  BY <1>2, <1>7, <1>9 DEF Same, Prep, Cut
<1>11. Places(op2)'
  <2>1. /\ OnList' \subseteq alive' /\ retired' \subseteq alive' /\ lost' \subseteq alive'
        /\ OnList' \cap retired' = {} /\ OnList' \cap lost' = {} /\ retired' \cap lost' = {}
    BY <1>1, <1>2, <1>o, <1>s DEF Places
  <2>2. \A m \in Loose' : \E u \in Thread : (Prep(u)' /\ new'[u] = m) \/ (Cut(u)' /\ pos'[u] = m)
    BY <1>l, <1>10, <1>s DEF Places
  <2>3. \A u \in Thread : (Prep(u)' => new'[u] \in Loose') /\ (Cut(u)' => pos'[u] \in Loose')
    BY <1>l, <1>10, <1>s DEF Places
  <2>4. \A u, v \in Thread : u # v => /\ Prep(u)' /\ Prep(v)' => new'[u] # new'[v]
                                      /\ Cut(u)' /\ Cut(v)' => pos'[u] # pos'[v]
    BY <1>10, <1>s DEF Places
  <2>5. \A u, v \in Thread : Prep(u)' /\ Cut(v)' => new'[u] # pos'[v]  BY <1>10, <1>s DEF Places
  <2>6. \A m \in Node : op2[m] # {} => m \in retired' \/ \E u \in Thread : Cut(u)' /\ pos'[u] = m
    BY <1>2, <1>6, <1>10, <1>s DEF Places
  <2>7. \A m \in retired' : op2[m] \subseteq waits'[m]  BY <1>2, <1>6, <1>s DEF Places, Shapes
  <2> QED  BY <2>1, <2>2, <2>3, <2>4, <2>5, <2>6, <2>7 DEF Places
<1>12. Sizes'
  <2>1. \A u \in Thread : pc[u] \in Counting \/ pc'[u] \in Counting => pc'[u] = pc[u] /\ tmp'[u] = tmp[u]
    BY <1>2, <1>7, <1>9 DEF Counting, Same
  <2> QED  BY <2>1, <1>2, <1>o, QuietSizes DEF IInv
<1>13. {t} \in SUBSET {t}  OBVIOUS
<1> QED  BY <1>4, <1>5, <1>8, <1>9, <1>11, <1>12, <1>13, QuietStep DEF op2

LEMMA WritePrepareStep ==
    ASSUME NEW rank \in Ranks, NEW top \in Nat, NEW open \in Opens, IInv(rank, top, open),
           NEW t \in Thread, WritePrepare(t)
    PROVE Sound'
<1>1. PICK n \in Node \ alive : /\ Fill(t, n)
                                /\ data' = [data EXCEPT ![n] = call[t].data]
                                /\ new' = [new EXCEPT ![t] = n]
  BY DEF WritePrepare
<1>2. /\ pc[t] = "find" /\ call[t].op = "write" /\ (pos[t] = HEAD \/ did[pos[t]] = call[t].did)
      /\ alive' = alive \cup {n} /\ did' = [did EXCEPT ![n] = call[t].did]
      /\ pc' = [pc EXCEPT ![t] = "link"]
      /\ UNCHANGED <<next, prev, size, lock, rcu, call, pos, tmp, got, ids, hist, calls>>
  BY <1>1 DEF WritePrepare, LookupDone, Found, Fill, Goto
<1>s. Shapes /\ Places(open) /\ ThreadOk(t, rank, open)  BY DEF IInv
<1>3. /\ call[t].did \in Did /\ call[t].data \in Data /\ call[t].did \in Keys[t]
      /\ pos[t] # HEAD => pos[t] \in Node /\ View(t, pos[t], open)
  BY <1>2, <1>s DEF ThreadOk, SectionOk, WriterOk, InSection, Cells
<1>4. Shapes'  BY <1>1, <1>2, <1>3, <1>s DEF Shapes, Pcs, rcu, hist
<1>o. OnList' = OnList /\ OnList \subseteq Node /\ n \notin OnList  BY <1>1, <1>2, <1>s DEF OnList, Places
<1>l. Loose' = Loose \cup {n}  BY <1>1, <1>2, <1>o, <1>s DEF Loose, Places, rcu, hist
<1>5. \A m \in Node : Live(m, open) \/ m \in Loose => m # n  BY <1>1, <1>s, LiveIsAlive DEF Loose
<1>6. Quiet(open)  BY <1>1, <1>5, <1>2, <1>o, <1>s DEF Quiet, Shapes
<1>7. pc'[t] = "link" /\ new'[t] = n /\ did'[n] = call[t].did /\ data'[n] = call[t].data
  BY <1>1, <1>2, <1>s DEF Shapes
<1>8. ThreadOk(t, rank, open)'
  <2>v. \A m : View(t, m, open)' <=> View(t, m, open)  BY <1>o DEF View
  <2>d. pos[t] # HEAD => did'[pos[t]] = did[pos[t]]
    <3>1. pos[t] # HEAD => Live(pos[t], open)  BY <1>3 DEF View, Live
    <3> QED  BY <3>1, <1>3, <1>6 DEF Quiet
  <2>1. SectionOk(t, open)'
    <3>1. \A m \in Node : t \in open[m] => did'[m] = did[m]  BY <1>6 DEF Quiet, Live
    <3>2. \A m \in Node : t \in open[m] => InSection(t)' /\ did'[m] \notin Keys[t]
      BY <3>1, <1>7, <1>s DEF ThreadOk, SectionOk, InSection
    <3> QED  BY <3>2, <2>v, <1>2, <1>3, <1>7, <1>s DEF ThreadOk, SectionOk, InSection
  <2>2. WriterOk(t, rank)'
    <3>1. \A m \in OnList : did'[m] = did[m]  BY <1>6, <1>o DEF Quiet, Live
    <3>2. \A m \in OnList : did[m] = call[t].did => Ahead(t, m, rank)  BY <1>2, <1>s DEF ThreadOk, WriterOk
    <3>3. \A m : Ahead(t, m, rank)' <=> Ahead(t, m, rank)  BY <1>2 DEF Ahead
    <3> QED  BY <3>1, <3>2, <3>3, <2>d, <1>2, <1>3, <1>7, <1>o DEF WriterOk
  <2>3. ListerOk(t, rank, open)'  BY <1>7 DEF ListerOk
  <2>4. ToldOnce(t)'  BY <1>2, <1>7, <1>s DEF ThreadOk, ToldOnce
  <2>5. ReaderOk(t, rank, open)'  BY <1>7 DEF ReaderOk
  <2> QED  BY <2>1, <2>2, <2>3, <2>4, <2>5 DEF ThreadOk
<1>9. \A u \in Thread \ {t} : Same(u) /\ tmp'[u] = tmp[u]  BY <1>1, <1>2, <1>s DEF Same, Shapes, hist
<1>10. \A u \in Thread : /\ Prep(u)' <=> Prep(u) \/ u = t
                         /\ Cut(u)' <=> Cut(u)
                         /\ Prep(u) => new'[u] = new[u] /\ u # t
                         /\ Cut(u) => pos'[u] = pos[u] /\ u # t
  BY <1>2, <1>7, <1>9 DEF Same, Prep, Cut
<1>n. n \notin Loose  BY <1>1 DEF Loose
<1>11. Places(open)'
  <2>1. /\ OnList' \subseteq alive' /\ retired' \subseteq alive' /\ lost' \subseteq alive'
        /\ OnList' \cap retired' = {} /\ OnList' \cap lost' = {} /\ retired' \cap lost' = {}
    BY <1>1, <1>2, <1>o, <1>s DEF Places, rcu, hist
  <2>2. \A m \in Loose' : \E u \in Thread : (Prep(u)' /\ new'[u] = m) \/ (Cut(u)' /\ pos'[u] = m)
    <3>1. \A m \in Loose : \E u \in Thread : (Prep(u)' /\ new'[u] = m) \/ (Cut(u)' /\ pos'[u] = m)
      BY <1>10, <1>s DEF Places
    <3>2. Prep(t)' /\ new'[t] = n  BY <1>10, <1>7
    <3> QED  BY <3>1, <3>2, <1>l
  <2>3. \A u \in Thread : (Prep(u)' => new'[u] \in Loose') /\ (Cut(u)' => pos'[u] \in Loose')
    BY <1>l, <1>7, <1>10, <1>s DEF Places
  <2>4. \A u, v \in Thread : u # v => /\ Prep(u)' /\ Prep(v)' => new'[u] # new'[v]
                                      /\ Cut(u)' /\ Cut(v)' => pos'[u] # pos'[v]
    BY <1>7, <1>10, <1>n, <1>s DEF Places
  <2>5. \A u, v \in Thread : Prep(u)' /\ Cut(v)' => new'[u] # pos'[v]
    BY <1>7, <1>10, <1>n, <1>s DEF Places
  <2>6. \A m \in Node : open[m] # {} => m \in retired' \/ \E u \in Thread : Cut(u)' /\ pos'[u] = m
    BY <1>2, <1>10, <1>s DEF Places, rcu
  <2>7. \A m \in retired' : open[m] \subseteq waits'[m]  BY <1>2, <1>s DEF Places, rcu
  <2> QED  BY <2>1, <2>2, <2>3, <2>4, <2>5, <2>6, <2>7 DEF Places
<1>12. Sizes'
  <2>1. \A u \in Thread : pc[u] \in Counting \/ pc'[u] \in Counting => pc'[u] = pc[u] /\ tmp'[u] = tmp[u]
    BY <1>2, <1>7, <1>9 DEF Counting, Same
  <2> QED  BY <2>1, <1>2, <1>o, QuietSizes DEF IInv, hist
<1>13. {} \in SUBSET {t}  OBVIOUS
<1> QED  BY <1>4, <1>6, <1>8, <1>9, <1>11, <1>12, <1>13, OpenStays, QuietStep

LEMMA ReclaimStep ==
    ASSUME NEW rank \in Ranks, NEW top \in Nat, NEW open \in Opens, IInv(rank, top, open),
           NEW n \in Node, Reclaim(n)
    PROVE Sound'
<1>1. /\ n \in retired /\ waits[n] = {}
      /\ alive' = alive \ {n} /\ retired' = retired \ {n}
      /\ next' = [next EXCEPT ![n] = NULL] /\ prev' = [prev EXCEPT ![n] = NULL]
      /\ did' = [did EXCEPT ![n] = NULL] /\ data' = [data EXCEPT ![n] = NULL]
      /\ UNCHANGED <<size, lock, waits, local, hist, calls>>
  BY DEF Reclaim
<1>s. Shapes /\ Places(open)  BY DEF IInv
<1>2. Shapes'  BY <1>1, <1>s DEF Shapes, local, hist
<1>3. open[n] = {} /\ n \notin OnList /\ n \notin Loose  BY <1>1, <1>s DEF Places, Loose
<1>4. OnList' = OnList
  <2>1. \A m \in Node : prev'[m] = IF m = n THEN NULL ELSE prev[m]  BY <1>1, <1>s DEF Shapes, Cells
  <2>2. NULL \notin Cells  BY HeadApart
  <2>3. Cells' = Cells  BY DEF Cells
  <2> QED  BY <2>1, <2>2, <2>3, <1>3 DEF OnList
<1>l. Loose' = Loose  BY <1>1, <1>3, <1>4 DEF Loose, hist
<1>5. Quiet(open)
  <2>1. n # HEAD  BY HeadApart
  <2>2. \A m \in Node : Live(m, open) \/ m \in Loose => m # n  BY <1>3 DEF Live
  <2> QED  BY <2>1, <2>2, <1>1, <1>4, <1>s DEF Quiet, Shapes, Cells
<1>6. Ring' /\ Order(rank, top, open)'
  <2>1. {} \in SUBSET Thread  OBVIOUS
  <2> QED  BY <1>5, <2>1, QuietList, OpenStays DEF IInv
<1>7. Places(open)'
  <2>1. \A u \in Thread : (Prep(u)' <=> Prep(u)) /\ (Cut(u)' <=> Cut(u)) /\ new'[u] = new[u] /\ pos'[u] = pos[u]
    BY <1>1 DEF Prep, Cut, local
  <2>2. /\ OnList' \subseteq alive' /\ retired' \subseteq alive' /\ lost' \subseteq alive'
        /\ OnList' \cap retired' = {} /\ OnList' \cap lost' = {} /\ retired' \cap lost' = {}
    BY <1>1, <1>3, <1>4, <1>s DEF Places, hist
  <2>3. \A m \in Node : open[m] # {} => m \in retired' \/ \E u \in Thread : Cut(u)' /\ pos'[u] = m
    BY <1>1, <1>3, <2>1, <1>s DEF Places
  <2>4. \A m \in retired' : open[m] \subseteq waits'[m]  BY <1>1, <1>s DEF Places
  <2>5. /\ \A m \in Loose' : \E u \in Thread : (Prep(u)' /\ new'[u] = m) \/ (Cut(u)' /\ pos'[u] = m)
        /\ \A u \in Thread : (Prep(u)' => new'[u] \in Loose') /\ (Cut(u)' => pos'[u] \in Loose')
    BY <1>l, <2>1, <1>s DEF Places
  <2>6. /\ \A u, v \in Thread : u # v => /\ Prep(u)' /\ Prep(v)' => new'[u] # new'[v]
                                         /\ Cut(u)' /\ Cut(v)' => pos'[u] # pos'[v]
        /\ \A u, v \in Thread : Prep(u)' /\ Cut(v)' => new'[u] # pos'[v]
    BY <2>1, <1>s DEF Places
  <2> QED  BY <2>2, <2>3, <2>4, <2>5, <2>6 DEF Places
<1>8. Sizes'
  <2>1. \A u \in Thread : pc[u] \in Counting \/ pc'[u] \in Counting => pc'[u] = pc[u] /\ tmp'[u] = tmp[u]
    BY <1>1 DEF local
  <2> QED  BY <2>1, <1>1, <1>4, QuietSizes DEF IInv, hist
<1>9. ASSUME NEW u \in Thread PROVE ThreadOk(u, rank, open)'
  <2>1. {} \in SUBSET Thread /\ u \notin {} /\ Same(u)  BY <1>1 DEF Same, local, hist
  <2> QED  BY <1>5, <2>1, QuietThread, OpenStays DEF IInv
<1> QED  BY <1>2, <1>6, <1>7, <1>8, <1>9 DEF Sound, IInv

\* call_rcu waits for whoever may stand on the element.
LEMMA RetirePlaces ==
    ASSUME NEW rank \in Ranks, NEW top \in Nat, NEW open \in Opens, IInv(rank, top, open),
           NEW t \in Thread, Cut(t), pc'[t] = "idle", Retire(pos[t]),
           UNCHANGED <<heap, lost>>, \A u \in Thread \ {t} : Same(u)
    PROVE /\ Places(open)' /\ OnList' = OnList /\ Quiet(open)
          /\ \A n \in Node : t \notin open[n]
          /\ retired' \in SUBSET Node /\ waits' \in [Node -> SUBSET Thread]
<1>s. Shapes /\ Places(open)  BY DEF IInv
<1> DEFINE n == pos[t]
<1>1. /\ retired' = retired \cup {n}
      /\ waits' = [waits EXCEPT ![n] = {u \in Thread : InSection(u)}]
  BY DEF Retire
<1>2. n \in Loose /\ n \in Node  BY <1>s DEF Places, Loose, Shapes
<1>o. OnList' = OnList  BY DEF OnList, heap
<1>q. Quiet(open)  BY <1>o DEF Quiet, heap
<1>l. Loose' = Loose \ {n}  BY <1>1, <1>2, <1>o DEF Loose, heap
<1>3. \A m \in Node, u \in Thread : u \in open[m] => InSection(u)  BY DEF IInv, ThreadOk, SectionOk
<1>4. \A u \in Thread : /\ Prep(u)' <=> Prep(u)
                        /\ Cut(u)' <=> Cut(u) /\ u # t
                        /\ Prep(u) => new'[u] = new[u] /\ u # t
                        /\ u # t => pos'[u] = pos[u]
  BY DEF Same, Prep, Cut
<1>5. \A u \in Thread : u # t /\ Cut(u) => pos[u] # n  BY <1>s DEF Places
<1>6. \A u \in Thread : Prep(u) => new[u] # n  BY <1>s DEF Places
<1>7. Places(open)'
  <2>1. /\ OnList' \subseteq alive' /\ retired' \subseteq alive' /\ lost' \subseteq alive'
        /\ OnList' \cap retired' = {} /\ OnList' \cap lost' = {} /\ retired' \cap lost' = {}
    BY <1>1, <1>2, <1>o, <1>s DEF Places, Loose, heap
  <2>2. \A m \in Loose' : \E u \in Thread : (Prep(u)' /\ new'[u] = m) \/ (Cut(u)' /\ pos'[u] = m)
    BY <1>l, <1>4, <1>s DEF Places
  <2>3. \A u \in Thread : (Prep(u)' => new'[u] \in Loose') /\ (Cut(u)' => pos'[u] \in Loose')
    BY <1>l, <1>4, <1>5, <1>6, <1>s DEF Places
  <2>4. \A u, v \in Thread : u # v => /\ Prep(u)' /\ Prep(v)' => new'[u] # new'[v]
                                      /\ Cut(u)' /\ Cut(v)' => pos'[u] # pos'[v]
    BY <1>4, <1>s DEF Places
  <2>5. \A u, v \in Thread : Prep(u)' /\ Cut(v)' => new'[u] # pos'[v]  BY <1>4, <1>s DEF Places
  <2>6. \A m \in Node : open[m] # {} => m \in retired' \/ \E u \in Thread : Cut(u)' /\ pos'[u] = m
    BY <1>1, <1>4, <1>s DEF Places
  <2>7. \A m \in retired' : open[m] \subseteq waits'[m]
    <3>1. waits'[n] = {u \in Thread : InSection(u)} /\ \A m \in Node : m # n => waits'[m] = waits[m]
      BY <1>1, <1>2, <1>s DEF Shapes
    <3>2. open[n] \subseteq waits'[n]  BY <3>1, <1>2, <1>3 DEF Opens
    <3> QED  BY <3>1, <3>2, <1>1, <1>s DEF Places, Shapes
  <2> QED  BY <2>1, <2>2, <2>3, <2>4, <2>5, <2>6, <2>7 DEF Places
<1>8. \A m \in Node : t \notin open[m]  BY <1>3 DEF Cut, InSection
<1>9. retired' \in SUBSET Node /\ waits' \in [Node -> SUBSET Thread]  BY <1>1, <1>2, <1>s DEF Shapes
<1> QED  BY <1>7, <1>8, <1>9, <1>o, <1>q

LEMMA WriteRetireStep ==
    ASSUME NEW rank \in Ranks, NEW top \in Nat, NEW open \in Opens, IInv(rank, top, open),
           NEW t \in Thread, WriteRetire(t)
    PROVE Sound'
<1>1. /\ pc[t] = "retire" /\ Retire(pos[t])
      /\ pc' = [pc EXCEPT ![t] = "idle"] /\ call' = [call EXCEPT ![t] = NULL]
      /\ pos' = [pos EXCEPT ![t] = NULL] /\ new' = [new EXCEPT ![t] = NULL]
      /\ tmp' = [tmp EXCEPT ![t] = 0]
      /\ UNCHANGED <<heap, size, lock, got, ids, hist, calls>>
  BY DEF WriteRetire, Return, Goto
<1>s. Shapes /\ ThreadOk(t, rank, open)  BY DEF IInv
<1>2. pc'[t] = "idle" /\ ids'[t] = <<>> /\ Cut(t)  BY <1>1, <1>s DEF Shapes, ThreadOk, ToldOnce, Cut
<1>3. \A u \in Thread \ {t} : Same(u) /\ tmp'[u] = tmp[u]  BY <1>1, <1>s DEF Same, Shapes, hist
<1>4. /\ Places(open)' /\ OnList' = OnList /\ Quiet(open)
      /\ \A n \in Node : t \notin open[n]
      /\ retired' \in SUBSET Node /\ waits' \in [Node -> SUBSET Thread]
  BY <1>1, <1>2, <1>3, RetirePlaces DEF hist
<1>5. Shapes'  BY <1>1, <1>4, <1>s DEF Shapes, Pcs, heap, hist
<1>6. ThreadOk(t, rank, open)'  BY <1>2, <1>4, RestOk
<1>7. Sizes'
  <2>1. \A u \in Thread : pc[u] \in Counting \/ pc'[u] \in Counting => pc'[u] = pc[u] /\ tmp'[u] = tmp[u]
    BY <1>1, <1>2, <1>3 DEF Counting, Same
  <2> QED  BY <2>1, <1>1, <1>4, QuietSizes DEF IInv, hist
<1>8. {} \in SUBSET {t}  OBVIOUS
<1> QED  BY <1>3, <1>4, <1>5, <1>6, <1>7, <1>8, OpenStays, QuietStep

LEMMA RemoveRetireStep ==
    ASSUME NEW rank \in Ranks, NEW top \in Nat, NEW open \in Opens, IInv(rank, top, open),
           NEW t \in Thread, RemoveRetire(t)
    PROVE Sound'
<1>1. /\ pc[t] = "size" /\ Retire(pos[t])
      /\ size' = tmp[t] - 1
      /\ raced' = (raced \/ \E u \in Thread \ {t} : pc[u] \in {"count", "size"})
      /\ pc' = [pc EXCEPT ![t] = "idle"] /\ call' = [call EXCEPT ![t] = NULL]
      /\ pos' = [pos EXCEPT ![t] = NULL] /\ new' = [new EXCEPT ![t] = NULL]
      /\ tmp' = [tmp EXCEPT ![t] = 0]
      /\ UNCHANGED <<heap, lock, got, ids, seen, stayed, lost, calls>>
  BY DEF RemoveRetire, Return, Goto, SetSize
<1>s. Shapes /\ ThreadOk(t, rank, open) /\ Sizes  BY DEF IInv
<1>2. pc'[t] = "idle" /\ ids'[t] = <<>> /\ Cut(t)  BY <1>1, <1>s DEF Shapes, ThreadOk, ToldOnce, Cut
<1>3. \A u \in Thread \ {t} : Same(u) /\ tmp'[u] = tmp[u]  BY <1>1, <1>s DEF Same, Shapes
<1>4. /\ Places(open)' /\ OnList' = OnList /\ Quiet(open)
      /\ \A n \in Node : t \notin open[n]
      /\ retired' \in SUBSET Node /\ waits' \in [Node -> SUBSET Thread]
  BY <1>1, <1>2, <1>3, RetirePlaces
<1>5. Shapes'
  <2>1. size' \in Int /\ raced' \in BOOLEAN  BY <1>1, <1>s DEF Shapes
  <2> QED  BY <2>1, <1>1, <1>4, <1>s DEF Shapes, Pcs, heap
<1>6. ThreadOk(t, rank, open)'  BY <1>2, <1>4, RestOk
<1>7. Sizes'
  <2>1. Rising' = Rising  BY <1>1, <1>2, <1>3 DEF Rising, Same
  <2>2. Falling' = Falling \ {t} /\ t \in Falling  BY <1>1, <1>2, <1>3 DEF Falling, Same
  <2>3. IsFiniteSet(Falling') /\ Cardinality(Falling') = Cardinality(Falling) - 1
    BY <2>2, <1>s, FS_RemoveElement DEF Sizes
  <2>4. \A u \in Rising' : lock' = u  BY <2>1, <1>1, <1>s DEF Sizes
  <2>5. lock' # NULL => pc'[lock'] = "count"
    <3>1. lock # NULL => lock \in Thread \ {t}  BY <1>1, <1>s DEF Sizes, Shapes
    <3> QED  BY <3>1, <1>1, <1>3, <1>s DEF Sizes, Same
  <2>6. ASSUME ~raced'
        PROVE /\ \A u \in Thread : pc'[u] \in {"count", "size"} => tmp'[u] = size'
              /\ size' + Cardinality(Rising') = Cardinality(OnList') + Cardinality(Falling')
    <3>1. ~raced /\ \A u \in Thread \ {t} : pc[u] \notin {"count", "size"}  BY <2>6, <1>1
    <3>2. \A u \in Thread : pc'[u] \notin {"count", "size"}  BY <3>1, <1>2, <1>3 DEF Same
    <3>3. size' = size - 1  BY <3>1, <1>1, <1>s DEF Sizes
    <3>4. size \in Int  BY <1>s DEF Shapes
    <3>5. Rising = {}  BY <2>1, <3>2 DEF Rising
    <3>6. IsFiniteSet(OnList) /\ Cardinality(Rising) = 0
      <4>1. IsFiniteSet(Node) /\ OnList \in SUBSET Node  BY NodesAreFinite DEF OnList
      <4> QED  BY <4>1, <3>5, FS_Subset, FS_EmptySet
    <3>7. Cardinality(OnList) \in Nat /\ Cardinality(Falling) \in Nat
      BY <3>6, <1>s, FS_CardinalityType DEF Sizes
    <3>8. size + Cardinality(Rising) = Cardinality(OnList) + Cardinality(Falling)
      BY <3>1, <1>s DEF Sizes
    <3>9. size' + Cardinality(Rising') = Cardinality(OnList') + Cardinality(Falling')
      BY <3>3, <3>4, <3>6, <3>7, <3>8, <2>1, <2>3, <1>4
    <3> QED  BY <3>2, <3>9
  <2> QED  BY <2>3, <2>4, <2>5, <2>6 DEF Sizes
<1>8. {} \in SUBSET {t}  OBVIOUS
<1> QED  BY <1>3, <1>4, <1>5, <1>6, <1>7, <1>8, OpenStays, QuietStep

LEMMA RemoveLoadSizeStep ==
    ASSUME NEW rank \in Ranks, NEW top \in Nat, NEW open \in Opens, IInv(rank, top, open),
           NEW t \in Thread, RemoveLoadSize(t)
    PROVE Sound'
<1>1. /\ pc[t] = "unlinked" /\ tmp' = [tmp EXCEPT ![t] = size] /\ pc' = [pc EXCEPT ![t] = "size"]
      /\ UNCHANGED <<heap, size, lock, rcu, call, pos, new, got, ids, hist, calls>>
  BY DEF RemoveLoadSize, Goto
<1>s. Shapes /\ ThreadOk(t, rank, open) /\ Sizes  BY DEF IInv
<1>2. pc'[t] = "size" /\ tmp'[t] = size /\ ids'[t] = <<>>
  BY <1>1, <1>s DEF Shapes, ThreadOk, ToldOnce
<1>3. \A u \in Thread \ {t} : Same(u) /\ tmp'[u] = tmp[u]  BY <1>1, <1>s DEF Same, Shapes, hist
<1>o. OnList' = OnList  BY <1>1 DEF OnList, heap
<1>q. Quiet(open)  BY <1>1, <1>o DEF Quiet, heap
<1>4. Shapes'  BY <1>1, <1>s DEF Shapes, Pcs, heap, hist, rcu
<1>5. \A n \in Node : t \notin open[n]  BY <1>1, <1>s DEF ThreadOk, SectionOk, InSection
<1>6. ThreadOk(t, rank, open)'  BY <1>2, <1>5, RestOk
<1>7. Places(open)'
  <2>1. \A u \in Thread : /\ Prep(u)' <=> Prep(u)
                          /\ Cut(u)' <=> Cut(u)
                          /\ Prep(u) => new'[u] = new[u]
                          /\ Cut(u) => pos'[u] = pos[u]
    BY <1>1, <1>2, <1>3 DEF Same, Prep, Cut
  <2>2. {} \in SUBSET Thread /\ \A n \in Node : waits[n] \ {} \subseteq waits'[n]  BY <1>1 DEF rcu
  <2>3. retired \subseteq Node  BY <1>s DEF Shapes
  <2> QED  BY <2>1, <2>2, <2>3, <1>1, <1>o, QuietPlaces, OpenStays DEF IInv, heap, hist, rcu
<1>8. Sizes'
  <2>1. Rising' = Rising /\ Falling' = Falling
    BY <1>1, <1>2, <1>3 DEF Rising, Falling, Same
  <2>2. lock # NULL => lock \in Thread \ {t}  BY <1>1, <1>s DEF Sizes, Shapes
  <2>3. lock' # NULL => pc'[lock'] = "count"  BY <2>2, <1>1, <1>3, <1>s DEF Sizes, Same
  <2>4. ~raced' => \A u \in Thread : pc'[u] \in {"count", "size"} => tmp'[u] = size'
    BY <1>1, <1>2, <1>3, <1>s DEF Sizes, Same, hist
  <2> QED  BY <2>1, <2>3, <2>4, <1>1, <1>o, <1>s DEF Sizes, hist
<1>9. {} \in SUBSET {t}  OBVIOUS
<1> QED  BY <1>3, <1>4, <1>6, <1>7, <1>8, <1>9, <1>q, OpenStays, QuietStep

LEMMA WriteCountStep ==
    ASSUME NEW rank \in Ranks, NEW top \in Nat, NEW open \in Opens, IInv(rank, top, open),
           NEW t \in Thread, WriteCount(t)
    PROVE Sound'
<1>1. /\ pc[t] = "count" /\ lock' = NULL
      /\ size' = tmp[t] + 1
      /\ raced' = (raced \/ \E u \in Thread \ {t} : pc[u] \in {"count", "size"})
      /\ waits' = [n \in Node |-> waits[n] \ {t}]
      /\ pc' = [pc EXCEPT ![t] = "idle"] /\ call' = [call EXCEPT ![t] = NULL]
      /\ pos' = [pos EXCEPT ![t] = NULL] /\ new' = [new EXCEPT ![t] = NULL]
      /\ tmp' = [tmp EXCEPT ![t] = 0]
      /\ UNCHANGED <<heap, retired, got, ids, seen, stayed, lost, calls>>
  BY DEF WriteCount, Return, Goto, SetSize, LeaveSection
<1>s. Shapes /\ ThreadOk(t, rank, open) /\ Sizes  BY DEF IInv
<1>2. pc'[t] = "idle" /\ ids'[t] = <<>>  BY <1>1, <1>s DEF Shapes, ThreadOk, ToldOnce
<1>3. \A u \in Thread \ {t} : Same(u) /\ tmp'[u] = tmp[u]  BY <1>1, <1>s DEF Same, Shapes
<1>o. OnList' = OnList  BY <1>1 DEF OnList, heap
<1>q. Quiet(open)  BY <1>1, <1>o DEF Quiet, heap
<1>4. Shapes'
  <2>1. size' \in Int /\ raced' \in BOOLEAN /\ waits' \in [Node -> SUBSET Thread]
    BY <1>1, <1>s DEF Shapes
  <2> QED  BY <2>1, <1>1, <1>s DEF Shapes, Pcs, heap
<1> DEFINE op2 == Closed(open, {t})
<1>5. op2 \in Opens /\ \A m \in Node : op2[m] = open[m] \ {t}  BY ClosedIn
<1> HIDE DEF op2
<1>6. ThreadOk(t, rank, op2)'  BY <1>2, <1>5, RestOk
<1>7. Places(op2)'
  <2>1. \A u \in Thread : /\ Prep(u)' <=> Prep(u)
                          /\ Cut(u)' <=> Cut(u)
                          /\ Prep(u) => new'[u] = new[u]
                          /\ Cut(u) => pos'[u] = pos[u]
    BY <1>1, <1>2, <1>3 DEF Same, Prep, Cut
  <2>2. {t} \in SUBSET Thread /\ \A n \in Node : waits[n] \ {t} \subseteq waits'[n]  BY <1>1
  <2>3. retired \subseteq Node  BY <1>s DEF Shapes
  <2> QED  BY <2>1, <2>2, <2>3, <1>1, <1>o, QuietPlaces DEF IInv, heap, op2
<1>8. Sizes'
  <2>0. NULL \notin Thread  BY HeadApart
  <2>1. Rising = {t}  BY <1>1, <1>s DEF Sizes, Rising
  <2>2. Rising' = {}  BY <2>1, <1>1, <1>2, <1>3 DEF Rising, Same
  <2>3. Falling' = Falling  BY <1>1, <1>2, <1>3 DEF Falling, Same
  <2>4. ASSUME ~raced'
        PROVE /\ \A u \in Thread : pc'[u] \in {"count", "size"} => tmp'[u] = size'
              /\ size' + Cardinality(Rising') = Cardinality(OnList') + Cardinality(Falling')
    <3>1. ~raced /\ \A u \in Thread \ {t} : pc[u] \notin {"count", "size"}  BY <2>4, <1>1
    <3>2. \A u \in Thread : pc'[u] \notin {"count", "size"}  BY <3>1, <1>2, <1>3 DEF Same
    <3>3. size' = size + 1 /\ size \in Int  BY <3>1, <1>1, <1>s DEF Sizes, Shapes
    <3>4. Cardinality(Rising) = 1 /\ Cardinality(Rising') = 0
      BY <2>1, <2>2, FS_Singleton, FS_EmptySet
    <3>5. size + Cardinality(Rising) = Cardinality(OnList) + Cardinality(Falling)
      BY <3>1, <1>s DEF Sizes
    <3> QED  BY <3>2, <3>3, <3>4, <3>5, <2>3, <1>o
  <2> QED  BY <2>2, <2>3, <2>4, <1>1, <1>s DEF Sizes
<1>9. {t} \in SUBSET {t}  OBVIOUS
<1> QED  BY <1>3, <1>4, <1>6, <1>7, <1>8, <1>9, <1>q, QuietStep DEF op2
-----------------------------------------------------------------------------
(* Steps that change the list *)

LEMMA ObserveIs ==
    ASSUME Observe, Held', Shapes, OnList' \subseteq Node
    PROVE /\ \A u \in Thread : /\ stayed'[u] \subseteq stayed[u] /\ stayed'[u] \subseteq StoredIds'
                               /\ seen[u] \subseteq seen'[u]
                               /\ \A d \in Did : pc[u] \in {"find", "copy"} /\ call[u].op = "read" /\ call[u].did = d
                                     => Stored(d)' \in seen'[u]
          /\ stayed' \in [Thread -> SUBSET Did]
          /\ (\A u \in Thread : pc[u] \in {"find", "copy"} => call[u].did \in Did)
                => seen' \in [Thread -> SUBSET (Data \cup {NULL})]
          /\ UNCHANGED <<lost, raced>>
<1>1. /\ seen' = [u \in Thread |-> IF pc[u] \in {"find", "copy"} /\ call[u].op = "read"
                                   THEN seen[u] \cup {Stored(d)' : d \in {call[u].did}} ELSE seen[u]]
      /\ stayed' = [u \in Thread |-> stayed[u] \cap StoredIds']
      /\ UNCHANGED <<lost, raced>>
  BY DEF Observe
<1>2. ASSUME NEW d \in Did PROVE Stored(d)' \in Data \cup {NULL}
  <2>1. CASE First(d)' = HEAD  BY <2>1 DEF Held
  <2>2. CASE First(d)' \in OnList'  BY <2>2 DEF Held
  <2> QED  BY <2>1, <2>2 DEF Held
<1>3. stayed' \in [Thread -> SUBSET Did]  BY <1>1 DEF Shapes
<1>4. ASSUME \A u \in Thread : pc[u] \in {"find", "copy"} => call[u].did \in Did
      PROVE seen' \in [Thread -> SUBSET (Data \cup {NULL})]
  <2> SUFFICES ASSUME NEW u \in Thread PROVE seen'[u] \subseteq Data \cup {NULL}
    BY <1>1
  <2>1. CASE pc[u] \in {"find", "copy"} /\ call[u].op = "read"
    <3>1. seen'[u] = seen[u] \cup {Stored(d)' : d \in {call[u].did}}  BY <1>1, <2>1
    <3>2. \A d \in {call[u].did} : Stored(d)' \in Data \cup {NULL}  BY <1>2, <1>4, <2>1
    <3>3. seen[u] \subseteq Data \cup {NULL}  BY DEF Shapes
    <3> QED  BY <3>1, <3>2, <3>3
  <2>2. CASE ~(pc[u] \in {"find", "copy"} /\ call[u].op = "read")  BY <1>1, <2>2 DEF Shapes
  <2> QED  BY <2>1, <2>2
<1>5. ASSUME NEW u \in Thread
      PROVE /\ stayed'[u] \subseteq stayed[u] /\ stayed'[u] \subseteq StoredIds'
            /\ seen[u] \subseteq seen'[u]
            /\ \A d \in Did : pc[u] \in {"find", "copy"} /\ call[u].op = "read" /\ call[u].did = d
                  => Stored(d)' \in seen'[u]
  <2>1. stayed'[u] = stayed[u] \cap StoredIds'  BY <1>1
  <2>2. seen'[u] = IF pc[u] \in {"find", "copy"} /\ call[u].op = "read"
                   THEN seen[u] \cup {Stored(d)' : d \in {call[u].did}} ELSE seen[u]
    BY <1>1
  <2>3. \A d \in Did : call[u].did = d => Stored(d)' \in {Stored(e)' : e \in {call[u].did}}  OBVIOUS
  <2> QED  BY <2>1, <2>2, <2>3
<1> QED  BY <1>1, <1>3, <1>4, <1>5

\* The ends of the list's pointers that a change at n touches.
LEMMA Around ==
    ASSUME NEW rank \in Ranks, NEW top \in Nat, NEW open \in Opens, IInv(rank, top, open),
           NEW n \in OnList
    PROVE /\ n \in Node /\ n # HEAD /\ open[n] = {} /\ n \in alive
          /\ prev[n] \in OnList \cup {HEAD} /\ next[n] \in OnList \cup {HEAD}
          /\ next[prev[n]] = n /\ prev[next[n]] = n /\ next[n] # n /\ prev[n] # n
          /\ did[n] \in Did /\ data[n] \in Data
<1>1. n \in Node /\ n # HEAD /\ n \in alive  BY HeadApart DEF OnList, IInv, Places
<1>2. open[n] = {}  BY <1>1 DEF IInv, Places, Loose
<1>3. /\ prev[n] \in OnList \cup {HEAD} /\ next[n] \in OnList \cup {HEAD}
      /\ next[prev[n]] = n /\ prev[next[n]] = n
  BY DEF IInv, Ring
<1>4. /\ next[n] # HEAD => rank[next[n]] < rank[n]
      /\ did[n] \in Did /\ data[n] \in Data
  BY <1>1 DEF IInv, Order, Live
<1>5. next[n] # n  BY <1>1, <1>4 DEF Ranks
<1> QED  BY <1>1, <1>2, <1>3, <1>4, <1>5

LEMMA RemoveUnlinkStep ==
    ASSUME OneWriter,
           NEW rank \in Ranks, NEW top \in Nat, NEW open \in Opens, IInv(rank, top, open),
           NEW t \in Thread, NEW d \in Did, RemoveUnlink(t, d)
    PROVE Sound' /\ Stored(d)' = NULL /\ \A e \in Did \ {d} : Stored(e)' = Stored(e)
<1> DEFINE n == First(d)
           a == prev[n]
           b == next[n]
<1>1. /\ pc[t] = "idle" /\ d \in Keys[t] /\ lock = NULL /\ n # HEAD
      /\ next' = [next EXCEPT ![a] = b]
      /\ prev' = [prev EXCEPT ![b] = a, ![n] = POISON]
      /\ call' = [call EXCEPT ![t] = [op |-> "remove", did |-> d, data |-> NULL]]
      /\ pos' = [pos EXCEPT ![t] = n]
      /\ pc' = [pc EXCEPT ![t] = "unlinked"]
      /\ UNCHANGED <<alive, did, data, size, lock, rcu, new, tmp, got, ids>>
      /\ Observe
  BY DEF RemoveUnlink, RemoveCalled, Goto
<1>s. Shapes /\ Places(open) /\ Sizes /\ Ring /\ Order(rank, top, open)  BY DEF IInv
<1>h. Held  BY HeldNow
<1>2. n \in OnList /\ did[n] = d  BY <1>1, <1>h DEF Held
<1>3. /\ n \in Node /\ n # HEAD /\ open[n] = {} /\ n \in alive
      /\ a \in OnList \cup {HEAD} /\ b \in OnList \cup {HEAD}
      /\ next[a] = n /\ prev[b] = n /\ b # n /\ a # n
      /\ prev[n] = a /\ next[n] = b
  BY <1>2, Around
<1>4. OnList \subseteq Node /\ HEAD \notin Node /\ POISON \notin Cells  BY HeadApart DEF OnList
<1> HIDE DEF n, a, b
<1>5. /\ \A m \in Cells : next'[m] = IF m = a THEN b ELSE next[m]
      /\ \A m \in Cells : prev'[m] = IF m = n THEN POISON ELSE IF m = b THEN a ELSE prev[m]
  BY <1>1, <1>3, <1>4, <1>s DEF Shapes, Cells
<1>6. OnList' = OnList \ {n}
  <2>1. \A m \in Node : m \in OnList' <=> prev'[m] \in Cells  BY DEF OnList, Cells
  <2>2. \A m \in Node : m \in OnList <=> prev[m] \in Cells  BY DEF OnList
  <2>3. a \in Cells /\ OnList' \subseteq Node  BY <1>3, <1>4 DEF Cells, OnList
  <2>4. \A m \in Node : m \in Cells  BY DEF Cells
  <2>5. ASSUME NEW m \in Node PROVE m \in OnList' <=> m \in OnList /\ m # n
    <3>1. CASE m = n  BY <3>1, <2>1, <2>4, <1>4, <1>5
    <3>2. CASE m # n /\ m = b  BY <3>2, <2>1, <2>3, <2>4, <1>3, <1>4, <1>5
    <3>3. CASE m # n /\ m # b  BY <3>3, <2>1, <2>2, <2>4, <1>5
    <3> QED  BY <3>1, <3>2, <3>3
  <2> QED  BY <2>3, <2>5, <1>4
<1>7. Ring'
  <2> SUFFICES ASSUME NEW m \in (OnList \ {n}) \cup {HEAD}
               PROVE /\ next'[m] \in (OnList \ {n}) \cup {HEAD} /\ prev'[m] \in (OnList \ {n}) \cup {HEAD}
                     /\ next'[prev'[m]] = m /\ prev'[next'[m]] = m
    BY <1>6 DEF Ring
  <2>1. /\ next[m] \in OnList \cup {HEAD} /\ prev[m] \in OnList \cup {HEAD}
        /\ next[prev[m]] = m /\ prev[next[m]] = m /\ m \in Cells /\ m # n
    BY <1>3, <1>4, <1>s DEF Ring, Cells
  <2>2. next'[m] = IF m = a THEN b ELSE next[m]  BY <2>1, <1>5
  <2>3. prev'[m] = IF m = b THEN a ELSE prev[m]  BY <2>1, <1>5
  <2>4. next'[m] \in (OnList \ {n}) \cup {HEAD}  BY <2>1, <2>2, <1>3
  <2>5. prev'[m] \in (OnList \ {n}) \cup {HEAD}  BY <2>1, <2>3, <1>3
  <2>6. next'[prev'[m]] = m
    <3>1. prev'[m] \in Cells  BY <2>5, <1>4 DEF Cells
    <3>2. next'[prev'[m]] = IF prev'[m] = a THEN b ELSE next[prev'[m]]  BY <3>1, <1>5
    <3> QED  BY <3>2, <2>1, <2>3, <1>3
  <2>7. prev'[next'[m]] = m
    <3>1. next'[m] \in Cells /\ next'[m] # n  BY <2>4, <1>3, <1>4 DEF Cells
    <3>2. prev'[next'[m]] = IF next'[m] = b THEN a ELSE prev[next'[m]]  BY <3>1, <1>5
    <3> QED  BY <3>2, <2>1, <2>2, <1>3
  <2> QED  BY <2>4, <2>5, <2>6, <2>7
<1> DEFINE S == {u \in Thread : InSection(u)}
<1>8. PICK op2 \in Opens : op2[n] = S /\ \A m \in Node : m # n => op2[m] = open[m]
  <2>1. [open EXCEPT ![n] = S] \in Opens  BY <1>3 DEF Opens
  <2> QED  BY <2>1, <1>3 DEF Opens
<1>9. \A m \in OnList : open[m] = {}  BY Around
<1>10. \A u \in Thread, m \in Node : u \in open[m] => InSection(u)  BY DEF IInv, ThreadOk, SectionOk
<1>r. \A m \in Node : rank[m] \in Int  BY DEF Ranks
<1>11. Order(rank, top, op2)'
  <2>1. \A m \in Node : Live(m, op2)' => Live(m, open)  BY <1>2, <1>6, <1>8 DEF Live
  <2>2. ASSUME NEW m \in Node, Live(m, op2)'
        PROVE /\ rank[m] <= top
              /\ did'[m] \in Did /\ data'[m] \in Data
              /\ next'[m] \in Cells
              /\ next'[m] # HEAD => rank[next'[m]] < rank[m]
              /\ \A k \in OnList' : rank[k] < rank[m] => next'[m] # HEAD /\ rank[k] <= rank[next'[m]]
    <3>1. /\ rank[m] <= top /\ did[m] \in Did /\ data[m] \in Data /\ next[m] \in Cells
          /\ next[m] # HEAD => rank[next[m]] < rank[m]
          /\ \A k \in OnList : rank[k] < rank[m] => next[m] # HEAD /\ rank[k] <= rank[next[m]]
      BY <2>1, <2>2, <1>s DEF Order
    <3>2. /\ b # HEAD => rank[b] < rank[n]
          /\ \A k \in OnList : rank[k] < rank[n] => b # HEAD /\ rank[k] <= rank[b]
      BY <1>2, <1>3, <1>s DEF Order, Live, b
    <3>3. \A k \in OnList : rank[k] = rank[n] => k = n  BY <1>2, <1>s DEF Order
    <3>4. CASE m # a  BY <3>4, <3>1, <1>1, <1>5, <1>6 DEF Cells
    <3>5. CASE m = a
      <4>1. next'[m] = b /\ next[m] = n /\ b \in Cells  BY <3>5, <1>3, <1>4, <1>5 DEF Cells
      <4>2. b # HEAD => rank[b] < rank[m]  BY <4>1, <3>1, <3>2, <1>3, <1>4, <1>r
      <4>3. ASSUME NEW k \in OnList', rank[k] < rank[m] PROVE b # HEAD /\ rank[k] <= rank[b]
        <5>1. k \in OnList /\ k # n  BY <1>6
        <5>2. rank[k] <= rank[n]  BY <5>1, <4>1, <4>3, <3>1
        <5>3. rank[k] < rank[n]  BY <5>1, <5>2, <3>3, <1>r, <1>3, <1>4
        <5> QED  BY <5>1, <5>3, <3>2
      <4> QED  BY <4>1, <4>2, <4>3, <3>1, <1>1
    <3> QED  BY <3>4, <3>5
  <2>3. \A m \in OnList' : next'[HEAD] # HEAD /\ rank[m] <= rank[next'[HEAD]]
    <3> SUFFICES ASSUME NEW m \in OnList' PROVE next'[HEAD] # HEAD /\ rank[m] <= rank[next'[HEAD]]
      OBVIOUS
    <3>1. m \in OnList /\ m # n /\ next[HEAD] # HEAD /\ rank[m] <= rank[next[HEAD]]
      BY <1>6, <1>s DEF Order
    <3>2. next'[HEAD] = IF HEAD = a THEN b ELSE next[HEAD]  BY <1>5 DEF Cells
    <3>3. CASE HEAD = a
      <4>1. rank[m] <= rank[n]  BY <3>1, <3>3, <1>3
      <4>2. rank[m] < rank[n]  BY <4>1, <3>1, <1>2, <1>3, <1>4, <1>r, <1>s DEF Order
      <4>3. b # HEAD /\ rank[m] <= rank[b]  BY <4>2, <3>1, <1>2, <1>3, <1>s DEF Order, Live, b
      <4> QED  BY <4>3, <3>2, <3>3
    <3> QED  BY <3>1, <3>2, <3>3
  <2>4. \A m, k \in Node : Live(m, op2)' /\ Live(k, op2)' /\ rank[m] = rank[k] => did'[m] = did'[k]
    <3> SUFFICES ASSUME NEW m \in Node, NEW k \in Node, Live(m, op2)', Live(k, op2)', rank[m] = rank[k]
                 PROVE did'[m] = did'[k]
      OBVIOUS
    <3>1. Live(m, open) /\ Live(k, open)  BY <2>1
    <3> QED  BY <3>1, <1>1, <1>s DEF Order
  <2>5. \A m, k \in OnList' : rank[m] = rank[k] \/ did'[m] = did'[k] => m = k
    BY <1>1, <1>6, <1>s DEF Order
  <2>6. ASSUME NEW m \in Node, NEW u \in op2[m], next'[m] # HEAD
        PROVE View(u, next[m], op2)' /\ next'[m] = next[m]
    <3>1. m # a /\ m \in Cells
      <4>1. CASE m = n  BY <4>1, <1>3 DEF Cells
      <4>2. CASE m # n  BY <4>2, <2>6, <1>3, <1>4, <1>8, <1>9 DEF Cells
      <4> QED  BY <4>1, <4>2
    <3>2. next'[m] = next[m]  BY <3>1, <1>5
    <3>3. CASE m = n
      <4>1. next[m] \in OnList'  BY <3>2, <3>3, <2>6, <1>3, <1>6 DEF b
      <4> QED  BY <4>1, <3>2 DEF View
    <3>4. CASE m # n
      <4>1. u \in open[m] /\ u \in Thread /\ InSection(u)
        BY <3>4, <2>6, <1>8, <1>10 DEF Opens
      <4>2. View(u, next[m], open) /\ next[m] \in Node
        <5>1. Live(m, open)  BY <4>1 DEF Live
        <5>2. next[m] \in Cells  BY <5>1, <1>s DEF Order
        <5> QED  BY <5>2, <4>1, <3>2, <2>6, <1>s DEF Order, Cells
      <4>3. CASE next[m] = n
        <5>1. u \in op2[n]  BY <4>1, <1>8
        <5> QED  BY <5>1, <4>3, <3>2 DEF View
      <4>4. CASE next[m] # n  BY <4>2, <4>4, <3>2, <1>6, <1>8 DEF View
      <4> QED  BY <4>3, <4>4
    <3> QED  BY <3>2, <3>3, <3>4
  <2> QED  BY <2>2, <2>3, <2>4, <2>5, <2>6 DEF Order
<1>12. Held'
  <2>1. Ordered'  BY <1>8, <1>11 DEF Ordered
  <2> QED  BY <2>1, <1>7, HeldIs, PTL
<1>13. Stored(d)' = NULL
  <2>1. \A m \in OnList' : did'[m] # d  BY <1>1, <1>2, <1>6, <1>s DEF Order
  <2>2. First(d)' = HEAD  BY <2>1, <1>12 DEF Held
  <2> QED  BY <2>2, <1>12 DEF Held
<1>14. ASSUME NEW e \in Did \ {d} PROVE Stored(e)' = Stored(e)
  <2>1. CASE \E m \in OnList : did[m] = e
    <3>1. PICK m \in OnList : did[m] = e  BY <2>1
    <3>2. m \in OnList' /\ did'[m] = e /\ data'[m] = data[m]  BY <3>1, <1>1, <1>2, <1>6
    <3>3. Stored(e) = data[m]  BY <3>1, <1>h DEF Held
    <3>4. Stored(e)' = data'[m]  BY <3>2, <1>12 DEF Held
    <3> QED  BY <3>2, <3>3, <3>4
  <2>2. CASE ~ \E m \in OnList : did[m] = e
    <3>1. First(e) = HEAD  BY <2>2, <1>h DEF Held
    <3>2. First(e)' = HEAD  BY <2>2, <1>1, <1>6, <1>12 DEF Held
    <3>3. Stored(e) = NULL  BY <3>1, <1>h DEF Held
    <3>4. Stored(e)' = NULL  BY <3>2, <1>12 DEF Held
    <3> QED  BY <3>3, <3>4
  <2> QED  BY <2>1, <2>2
<1>15. /\ \A u \in Thread : /\ stayed'[u] \subseteq stayed[u] /\ stayed'[u] \subseteq StoredIds'
                            /\ seen[u] \subseteq seen'[u]
                            /\ \A e \in Did : pc[u] \in {"find", "copy"} /\ call[u].op = "read" /\ call[u].did = e
                                  => Stored(e)' \in seen'[u]
       /\ stayed' \in [Thread -> SUBSET Did]
       /\ seen' \in [Thread -> SUBSET (Data \cup {NULL})]
       /\ UNCHANGED <<lost, raced>>
  <2>1. OnList' \subseteq Node  BY <1>4, <1>6
  <2>2. \A u \in Thread : pc[u] \in {"find", "copy"} => call[u].did \in Did
    BY DEF IInv, ThreadOk, SectionOk
  <2> QED  BY <2>1, <2>2, <1>1, <1>12, <1>s, ObserveIs
<1>16. Shapes'
  <2>1. next' \in [Cells -> Cells \cup {NULL}] /\ prev' \in [Cells -> Cells \cup {NULL, POISON}]
    BY <1>1, <1>3, <1>4, <1>s DEF Shapes, Cells
  <2>2. [op |-> "remove", did |-> d, data |-> NULL] \in CallRecord  BY DEF CallRecord
  <2>3. call' \in [Thread -> CallRecord \cup {NULL}] /\ pos' \in [Thread -> Cells \cup {NULL}]
        /\ pc' \in [Thread -> Pcs]
    BY <2>2, <1>1, <1>3, <1>s DEF Shapes, Cells, Pcs
  <2> QED  BY <2>1, <2>3, <1>1, <1>15, <1>s DEF Shapes, rcu
<1>17. pc'[t] = "unlinked" /\ pos'[t] = n /\ ids'[t] = <<>>
  BY <1>1, <1>s DEF Shapes, IInv, ThreadOk, ToldOnce
<1>18. \A u \in Thread \ {t} : /\ pc'[u] = pc[u] /\ call'[u] = call[u] /\ pos'[u] = pos[u]
                               /\ new'[u] = new[u] /\ ids'[u] = ids[u] /\ tmp'[u] = tmp[u]
  BY <1>1, <1>s DEF Shapes
<1>19. Places(op2)'
  <2>1. \A u \in Thread : /\ Prep(u)' <=> Prep(u)
                          /\ Cut(u)' <=> Cut(u) \/ u = t
                          /\ Prep(u) => new'[u] = new[u] /\ u # t
                          /\ Cut(u) => pos'[u] = pos[u] /\ u # t
    BY <1>1, <1>17, <1>18 DEF Prep, Cut
  <2>2. Loose' = Loose \cup {n} /\ n \notin Loose
    BY <1>1, <1>2, <1>3, <1>6, <1>15, <1>s DEF Loose, Places, rcu
  <2>3. /\ OnList' \subseteq alive' /\ retired' \subseteq alive' /\ lost' \subseteq alive'
        /\ OnList' \cap retired' = {} /\ OnList' \cap lost' = {} /\ retired' \cap lost' = {}
    BY <1>1, <1>6, <1>15, <1>s DEF Places, rcu
  <2>4. \A m \in Loose' : \E u \in Thread : (Prep(u)' /\ new'[u] = m) \/ (Cut(u)' /\ pos'[u] = m)
    <3>1. \A m \in Loose : \E u \in Thread : (Prep(u)' /\ new'[u] = m) \/ (Cut(u)' /\ pos'[u] = m)
      BY <2>1, <1>s DEF Places
    <3>2. Cut(t)' /\ pos'[t] = n  BY <2>1, <1>17
    <3> QED  BY <3>1, <3>2, <2>2
  <2>5. \A u \in Thread : (Prep(u)' => new'[u] \in Loose') /\ (Cut(u)' => pos'[u] \in Loose')
    BY <2>1, <2>2, <1>17, <1>s DEF Places
  <2>6. \A u, v \in Thread : u # v => /\ Prep(u)' /\ Prep(v)' => new'[u] # new'[v]
                                      /\ Cut(u)' /\ Cut(v)' => pos'[u] # pos'[v]
    BY <2>1, <2>2, <1>17, <1>s DEF Places
  <2>7. \A u, v \in Thread : Prep(u)' /\ Cut(v)' => new'[u] # pos'[v]
    BY <2>1, <2>2, <1>17, <1>s DEF Places
  <2>8. \A m \in Node : op2[m] # {} => m \in retired' \/ \E u \in Thread : Cut(u)' /\ pos'[u] = m
    <3> SUFFICES ASSUME NEW m \in Node, op2[m] # {}
                 PROVE m \in retired' \/ \E u \in Thread : Cut(u)' /\ pos'[u] = m
      OBVIOUS
    <3>1. CASE m = n  BY <3>1, <2>1, <1>17
    <3>2. CASE m # n  BY <3>2, <2>1, <1>1, <1>8, <1>s DEF Places, rcu
    <3> QED  BY <3>1, <3>2
  <2>9. \A m \in retired' : op2[m] \subseteq waits'[m]
    BY <1>1, <1>2, <1>8, <1>s DEF Places, rcu, Shapes
  <2> QED  BY <2>3, <2>4, <2>5, <2>6, <2>7, <2>8, <2>9 DEF Places
<1>20. Sizes'
  <2>1. Rising' = Rising  BY <1>1, <1>17, <1>18 DEF Rising
  <2>2. Falling' = Falling \cup {t} /\ t \notin Falling  BY <1>1, <1>17, <1>18 DEF Falling
  <2>3. IsFiniteSet(Falling') /\ Cardinality(Falling') = Cardinality(Falling) + 1
    BY <2>2, <1>s, FS_AddElement DEF Sizes
  <2>4. IsFiniteSet(OnList)
    <3>1. IsFiniteSet(Node) /\ OnList \in SUBSET Node  BY NodesAreFinite, <1>4
    <3> QED  BY <3>1, FS_Subset
  <2>5. Cardinality(OnList') = Cardinality(OnList) - 1 /\ Cardinality(OnList) \in Nat
        /\ Cardinality(Falling) \in Nat
    BY <2>4, <1>2, <1>6, <1>s, FS_RemoveElement, FS_CardinalityType DEF Sizes
  <2>6. ~raced' => \A u \in Thread : pc'[u] \in {"count", "size"} => tmp'[u] = size'
    BY <1>1, <1>15, <1>17, <1>18, <1>s DEF Sizes
  <2>7. ~raced' => size' + Cardinality(Rising') = Cardinality(OnList') + Cardinality(Falling')
    BY <2>1, <2>3, <2>5, <1>1, <1>15, <1>s DEF Sizes
  <2>8. lock' = NULL /\ \A u \in Rising' : lock' = u  BY <2>1, <1>1, <1>s DEF Sizes
  <2> QED  BY <2>3, <2>6, <2>7, <2>8 DEF Sizes
<1>21. ASSUME NEW u \in Thread PROVE ThreadOk(u, rank, op2)'
  <2>1. CASE u = t
    <3>1. \A m \in Node : t \notin op2[m]
      BY <1>1, <1>8, <1>10 DEF InSection
    <3> QED  BY <3>1, <2>1, <1>17, <1>8, RestOk
  <2>2. CASE u # t
    <3>s. ThreadOk(u, rank, open)  BY DEF IInv
    <3>1. /\ pc'[u] = pc[u] /\ call'[u] = call[u] /\ pos'[u] = pos[u]
          /\ new'[u] = new[u] /\ ids'[u] = ids[u] /\ did' = did /\ data' = data
      BY <2>2, <1>1, <1>18
    <3>2. InSection(u)' <=> InSection(u)  BY <3>1 DEF InSection
    <3>3. InSection(u) => \A m \in Node : View(u, m, op2)' <=> View(u, m, open)
      <4> SUFFICES ASSUME InSection(u), NEW m \in Node PROVE View(u, m, op2)' <=> View(u, m, open)
        OBVIOUS
      <4>1. CASE m = n  BY <4>1, <1>2, <1>8 DEF View
      <4>2. CASE m # n  BY <4>2, <1>6, <1>8 DEF View
      <4> QED  BY <4>1, <4>2
    <3>4. \A m : Ahead(u, m, rank)' <=> Ahead(u, m, rank)  BY <3>1 DEF Ahead
    <3>5. Told(u)' = Told(u)  BY <3>1 DEF Told
    <3>6. SectionOk(u, op2)'
      <4>1. ASSUME NEW m \in Node, u \in op2[m] PROVE InSection(u)' /\ did'[m] \notin Keys[u]
        <5>1. CASE m = n
          <6>1. d \notin Keys[u]  BY <2>2, <1>1 DEF OneWriter
          <6> QED  BY <6>1, <5>1, <4>1, <3>1, <3>2, <1>2, <1>8
        <5>2. CASE m # n  BY <5>2, <4>1, <3>1, <3>2, <3>s, <1>8 DEF ThreadOk, SectionOk
        <5> QED  BY <5>1, <5>2
      <4>2. InSection(u)' => pos'[u] \in Cells /\ (pos'[u] # HEAD => View(u, pos[u], op2)')
        BY <3>1, <3>2, <3>3, <3>s DEF ThreadOk, SectionOk, Cells
      <4> QED  BY <4>1, <4>2, <3>1, <3>s DEF ThreadOk, SectionOk
    <3>7. WriterOk(u, rank)'  BY <3>1, <3>4, <3>s, <1>6 DEF ThreadOk, WriterOk
    <3>8. ListerOk(u, rank, op2)'
      <4> SUFFICES ASSUME pc[u] = "list"
                   PROVE ListerOk(u, rank, op2)'
        BY <3>1 DEF ListerOk
      <4>1. InSection(u)  BY DEF InSection
      <4>2. ASSUME NEW e \in stayed'[u]
            PROVE e \in Told(u) \/ \E m \in OnList' : did[m] = e /\ Ahead(u, m, rank)
        <5>1. e \in Told(u) \/ \E m \in OnList : did[m] = e /\ Ahead(u, m, rank)
          BY <4>2, <3>s, <1>15 DEF ThreadOk, ListerOk
        <5>2. e # d
          <6>1. e \in StoredIds'  BY <4>2, <1>15
          <6>2. Stored(e)' # NULL  BY <6>1 DEF StoredIds
          <6> QED  BY <6>2, <1>13
        <5> QED  BY <5>1, <5>2, <1>2, <1>6
      <4>3. \A m, k \in Node : /\ View(u, m, op2)' /\ View(u, k, op2)'
                               /\ Ahead(u, m, rank)' /\ Ahead(u, k, rank)' /\ did'[m] = did'[k]
                               => rank[m] = rank[k]
        BY <4>1, <3>1, <3>3, <3>4, <3>s DEF ThreadOk, ListerOk
      <4>4. \A m \in Node : View(u, m, op2)' /\ Ahead(u, m, rank)' => did'[m] \notin Told(u)'
        BY <4>1, <3>1, <3>3, <3>4, <3>5, <3>s DEF ThreadOk, ListerOk
      <4> QED  BY <4>2, <4>3, <4>4, <3>1, <3>4, <3>5 DEF ListerOk
    <3>9. ToldOnce(u)'  BY <3>1, <3>s DEF ThreadOk, ToldOnce
    <3>10. ReaderOk(u, rank, op2)'
      <4> SUFFICES ASSUME pc[u] \in {"find", "copy"}, call[u].op = "read"
                   PROVE ReaderOk(u, rank, op2)'
        BY <3>1 DEF ReaderOk
      <4>1. InSection(u) /\ call[u].did \in Did  BY <3>s DEF InSection, ThreadOk, SectionOk
      <4>2. \A m \in Node : View(u, m, op2)' /\ did'[m] = call'[u].did => data'[m] \in seen'[u]
        BY <4>1, <3>1, <3>3, <3>s, <1>15 DEF ThreadOk, ReaderOk
      <4>3. NULL \in seen'[u] \/ \E m \in OnList' : did[m] = call[u].did /\ (pc[u] = "find" => Ahead(u, m, rank))
        <5>1. CASE NULL \in seen[u]  BY <5>1, <1>15
        <5>2. CASE \E m \in OnList : did[m] = call[u].did /\ (pc[u] = "find" => Ahead(u, m, rank))
          <6>1. PICK m \in OnList : did[m] = call[u].did /\ (pc[u] = "find" => Ahead(u, m, rank))
            BY <5>2
          <6>2. CASE m = n
            <7>1. call[u].did = d  BY <6>1, <6>2, <1>2
            <7>2. Stored(d)' \in seen'[u]  BY <7>1, <1>15
            <7> QED  BY <7>2, <1>13
          <6>3. CASE m # n  BY <6>1, <6>3, <1>6
          <6> QED  BY <6>2, <6>3
        <5> QED  BY <5>1, <5>2, <3>s DEF ThreadOk, ReaderOk
      <4> QED  BY <4>2, <4>3, <3>1, <3>4 DEF ReaderOk
    <3> QED  BY <3>6, <3>7, <3>8, <3>9, <3>10 DEF ThreadOk
  <2> QED  BY <2>1, <2>2
<1>22. IInv(rank, top, op2)'  BY <1>7, <1>11, <1>16, <1>19, <1>20, <1>21 DEF IInv
<1>23. Sound'  BY <1>8, <1>22 DEF Sound
<1> QED  BY <1>13, <1>14, <1>23

LEMMA LinkInPlaceStep ==
    ASSUME OneWriter,
           NEW rank \in Ranks, NEW top \in Nat, NEW open \in Opens, IInv(rank, top, open),
           NEW t \in Thread, WriteLink(t), LinkInPlace(t)
    PROVE Sound' /\ \E d \in Did, v \in Data :
             Stored(d)' = v /\ \A e \in Did \ {d} : Stored(e)' = Stored(e)
<1>0. /\ pc[t] = "link" /\ lock = NULL /\ pos[t] # HEAD
      /\ next' = [next EXCEPT ![new[t]] = next[pos[t]], ![prev[pos[t]]] = new[t]]
      /\ prev' = [prev EXCEPT ![new[t]] = prev[pos[t]], ![next[pos[t]]] = new[t], ![pos[t]] = POISON]
      /\ pc' = [pc EXCEPT ![t] = "retire"]
      /\ waits' = [n \in Node |-> waits[n] \ {t}]
      /\ UNCHANGED <<lock, tmp, alive, did, data, size, retired, call, pos, new, got, ids, calls>>
      /\ Observe
  BY DEF WriteLink, LinkInPlace, LeaveSection, Goto
<1>s. Shapes /\ Places(open) /\ Sizes /\ Ring /\ Order(rank, top, open) /\ ThreadOk(t, rank, open)
  BY DEF IInv
<1>h. Held  BY HeldNow
<1>1. /\ pos[t] \in OnList /\ new[t] \in Loose /\ new[t] \in Node
      /\ call[t].did \in Did /\ call[t].data \in Data /\ call[t].did \in Keys[t]
      /\ did[pos[t]] = call[t].did /\ did[new[t]] = call[t].did /\ data[new[t]] = call[t].data
  <2>1. pos[t] \in Node /\ View(t, pos[t], open)
    BY <1>0, <1>s DEF ThreadOk, SectionOk, InSection, Cells
  <2>2. /\ call[t].did \in Did /\ call[t].data \in Data /\ call[t].did \in Keys[t]
        /\ did[pos[t]] = call[t].did /\ did[new[t]] = call[t].did /\ data[new[t]] = call[t].data
    BY <1>0, <1>s DEF ThreadOk, SectionOk, WriterOk
  <2>3. t \notin open[pos[t]]  BY <2>1, <2>2, <1>s DEF ThreadOk, SectionOk
  <2>4. pos[t] \in OnList  BY <2>1, <2>3 DEF View
  <2>5. new[t] \in Loose /\ new[t] \in Node  BY <1>0, <1>s DEF Places, Prep, Loose, Shapes
  <2> QED  BY <2>2, <2>4, <2>5
<1>2. PICK old \in OnList, nw \in Node, d \in Did, v \in Data :
         old = pos[t] /\ nw = new[t] /\ d = call[t].did /\ v = call[t].data
  BY <1>1
<1>3. PICK a \in OnList \cup {HEAD}, b \in OnList \cup {HEAD} :
         /\ prev[old] = a /\ next[old] = b
         /\ old \in Node /\ old # HEAD /\ open[old] = {} /\ old \in alive
         /\ next[a] = old /\ prev[b] = old /\ b # old /\ a # old
  BY <1>2, Around
<1>4. /\ OnList \subseteq Node /\ HEAD \notin Node /\ POISON \notin Cells /\ HEAD \in Cells
      /\ \A m \in Node : m \in Cells
  BY HeadApart DEF OnList, Cells
<1>w. /\ nw \notin OnList /\ nw \in alive /\ nw \in Loose /\ nw # a /\ nw # b /\ nw # old /\ nw # HEAD
      /\ open[nw] = {} /\ did[nw] = d /\ did[old] = d /\ data[nw] = v /\ d \in Keys[t]
  <2>1. nw \in Loose /\ nw \notin OnList /\ nw \in alive  BY <1>1, <1>2 DEF Loose
  <2>2. nw \notin retired  BY <2>1 DEF Loose
  <2>3. \A u \in Thread : Cut(u) => pos[u] # nw  BY <1>0, <1>2, <1>s DEF Places, Prep
  <2>4. open[nw] = {}  BY <2>2, <2>3, <1>s DEF Places
  <2> QED  BY <2>1, <2>4, <1>1, <1>2, <1>3, <1>4
<1>5. /\ \A m \in Cells : next'[m] = IF m = a THEN nw ELSE IF m = nw THEN b ELSE next[m]
      /\ \A m \in Cells : prev'[m] = IF m = old THEN POISON ELSE IF m = b THEN nw
                                     ELSE IF m = nw THEN a ELSE prev[m]
  <2>1. next' = [next EXCEPT ![nw] = b, ![a] = nw]  BY <1>0, <1>2, <1>3
  <2>2. prev' = [prev EXCEPT ![nw] = a, ![b] = nw, ![old] = POISON]  BY <1>0, <1>2, <1>3
  <2>3. DOMAIN next = Cells /\ DOMAIN prev = Cells  BY <1>s DEF Shapes
  <2> QED  BY <2>1, <2>2, <2>3
<1>6. OnList' = (OnList \ {old}) \cup {nw}
  <2>1. \A m \in Node : m \in OnList' <=> prev'[m] \in Cells  BY DEF OnList, Cells
  <2>2. \A m \in Node : m \in OnList <=> prev[m] \in Cells  BY DEF OnList
  <2>3. a \in Cells /\ nw \in Cells /\ OnList' \subseteq Node  BY <1>3, <1>4 DEF OnList
  <2>5. ASSUME NEW m \in Node PROVE m \in OnList' <=> (m \in OnList /\ m # old) \/ m = nw
    <3>1. CASE m = old  BY <3>1, <2>1, <1>4, <1>5, <1>w
    <3>2. CASE m # old /\ m = b  BY <3>2, <2>1, <2>3, <1>3, <1>4, <1>5
    <3>3. CASE m = nw  BY <3>3, <2>1, <2>3, <1>4, <1>5, <1>w
    <3>4. CASE m # old /\ m # b /\ m # nw  BY <3>4, <2>1, <2>2, <1>4, <1>5
    <3> QED  BY <3>1, <3>2, <3>3, <3>4
  <2> QED  BY <2>3, <2>5, <1>4
<1>7. Ring'
  <2> DEFINE R == (OnList \ {old}) \cup {nw, HEAD}
  <2> SUFFICES ASSUME NEW m \in R
               PROVE /\ next'[m] \in R /\ prev'[m] \in R
                     /\ next'[prev'[m]] = m /\ prev'[next'[m]] = m
    BY <1>6 DEF Ring
  <2>0. a \in R /\ b \in R /\ nw \in R /\ a \in Cells /\ b \in Cells /\ nw \in Cells /\ m \in Cells
    BY <1>3, <1>4
  <2>1. m # nw => /\ next[m] \in OnList \cup {HEAD} /\ prev[m] \in OnList \cup {HEAD}
                  /\ next[prev[m]] = m /\ prev[next[m]] = m
    BY <1>s DEF Ring
  <2>2. next'[m] = IF m = a THEN nw ELSE IF m = nw THEN b ELSE next[m]  BY <2>0, <1>5
  <2>3. m # old  BY <1>3, <1>w
  <2>4. prev'[m] = IF m = b THEN nw ELSE IF m = nw THEN a ELSE prev[m]  BY <2>0, <2>3, <1>5
  <2>5. next'[m] \in R
    <3>1. m # a /\ m # nw => next[m] # old  BY <2>1, <1>3
    <3> QED  BY <3>1, <2>0, <2>1, <2>2
  <2>6. prev'[m] \in R
    <3>1. m # b /\ m # nw => prev[m] # old  BY <2>1, <1>3
    <3> QED  BY <3>1, <2>0, <2>1, <2>4
  <2>7. next'[prev'[m]] = m
    <3>1. next'[nw] = b /\ next'[a] = nw  BY <2>0, <1>5, <1>w
    <3>2. CASE m = b \/ m = nw  BY <3>1, <3>2, <2>4, <1>w
    <3>3. CASE m # b /\ m # nw
      <4>1. prev[m] \in Cells /\ prev[m] # a /\ prev[m] # nw  BY <3>3, <2>1, <1>3, <1>4, <1>w, <2>3
      <4> QED  BY <4>1, <3>3, <2>1, <2>4, <1>5
    <3> QED  BY <3>2, <3>3
  <2>8. prev'[next'[m]] = m
    <3>1. prev'[nw] = a /\ prev'[b] = nw  BY <2>0, <1>3, <1>5, <1>w
    <3>2. CASE m = a \/ m = nw  BY <3>1, <3>2, <2>2, <1>w
    <3>3. CASE m # a /\ m # nw
      <4>1. next[m] \in Cells /\ next[m] # b /\ next[m] # nw /\ next[m] # old
        BY <3>3, <2>1, <1>3, <1>4, <1>w, <2>3
      <4> QED  BY <4>1, <3>3, <2>1, <2>2, <1>5
    <3> QED  BY <3>2, <3>3
  <2> QED  BY <2>5, <2>6, <2>7, <2>8
<1>8. PICK op2 \in Opens : /\ op2[old] = {u \in Thread : InSection(u)} \ {t}
                           /\ \A m \in Node : m # old => op2[m] = open[m] \ {t}
  <2> DEFINE o == [m \in Node |-> IF m = old THEN {u \in Thread : InSection(u)} \ {t} ELSE open[m] \ {t}]
  <2>1. o \in Opens  BY DEF Opens
  <2> QED  BY <2>1, <1>3
<1>9. PICK rk2 \in Ranks : rk2[nw] = rank[old] /\ \A m \in Node : m # nw => rk2[m] = rank[m]
  <2>1. [rank EXCEPT ![nw] = rank[old]] \in Ranks  BY <1>3 DEF Ranks
  <2> QED  BY <2>1 DEF Ranks
<1>r. \A m \in Node : rank[m] \in Int /\ rk2[m] \in Int  BY DEF Ranks
<1>e. \A m \in OnList : open[m] = {}  BY Around
<1>10. \A u \in Thread, m \in Node : u \in open[m] => InSection(u)  BY DEF IInv, ThreadOk, SectionOk
\* nw stands where old stood
<1>v. \A m \in Node : Live(m, op2)' => m = nw \/ (m # nw /\ Live(m, open))
  BY <1>2, <1>6, <1>8 DEF Live
<1>o. Live(old, open) /\ \A m \in OnList : Live(m, open)  BY <1>2 DEF Live
<1>d. /\ rank[old] <= top /\ data[old] \in Data
      /\ b # HEAD => rank[b] < rank[old]
      /\ \A k \in OnList : rank[k] < rank[old] => b # HEAD /\ rank[k] <= rank[b]
      /\ \A k \in OnList : rank[k] = rank[old] => k = old
  BY <1>o, <1>3, <1>s DEF Order
<1>11. Order(rk2, top, op2)'
  <2>1. ASSUME NEW m \in Node, Live(m, op2)'
        PROVE /\ rk2[m] <= top
              /\ did'[m] \in Did /\ data'[m] \in Data
              /\ next'[m] \in Cells
              /\ next'[m] # HEAD => rk2[next'[m]] < rk2[m]
              /\ \A k \in OnList' : rk2[k] < rk2[m] => next'[m] # HEAD /\ rk2[k] <= rk2[next'[m]]
    <3>1. CASE m = nw
      <4>1. next'[m] = b /\ rk2[m] = rank[old] /\ b \in Cells /\ b # nw
        BY <3>1, <1>3, <1>4, <1>5, <1>9, <1>w
      <4>2. b # HEAD => rk2[b] = rank[b]  BY <1>3, <1>4, <1>9, <1>w
      <4>3. ASSUME NEW k \in OnList', rk2[k] < rk2[m] PROVE b # HEAD /\ rk2[k] <= rk2[b]
        <5>1. k # nw /\ k \in OnList /\ k \in Node  BY <4>3, <3>1, <1>4, <1>6, <1>r
        <5>2. rank[k] < rank[old] /\ rk2[k] = rank[k]  BY <5>1, <4>1, <4>3, <1>9
        <5> QED  BY <5>1, <5>2, <4>2, <1>d
      <4> QED  BY <4>1, <4>2, <4>3, <3>1, <1>0, <1>w, <1>d
    <3>2. CASE m # nw /\ m = a
      <4>1. next'[m] = nw /\ next[m] = old /\ rk2[m] = rank[m] /\ Live(m, open)
        BY <3>2, <2>1, <1>3, <1>4, <1>5, <1>9, <1>v
      <4>2. /\ rank[m] <= top /\ did[m] \in Did /\ data[m] \in Data /\ rank[old] < rank[m]
            /\ \A k \in OnList : rank[k] < rank[m] => rank[k] <= rank[old]
        BY <4>1, <1>3, <1>s DEF Order
      <4>3. ASSUME NEW k \in OnList', rk2[k] < rk2[m] PROVE rk2[k] <= rk2[nw]
        <5>1. CASE k = nw  BY <5>1, <1>r
        <5>2. CASE k # nw
          <6>1. k \in OnList /\ k \in Node  BY <5>2, <1>4, <1>6
          <6> QED  BY <6>1, <5>2, <4>1, <4>2, <4>3, <1>9
        <5> QED  BY <5>1, <5>2
      <4> QED  BY <4>1, <4>2, <4>3, <1>0, <1>4, <1>9, <1>w
    <3>3. CASE m # nw /\ m # a
      <4>1. next'[m] = next[m] /\ rk2[m] = rank[m] /\ Live(m, open)
        BY <3>3, <2>1, <1>4, <1>5, <1>9, <1>v
      <4>2. /\ rank[m] <= top /\ did[m] \in Did /\ data[m] \in Data /\ next[m] \in Cells
            /\ next[m] # HEAD => rank[next[m]] < rank[m]
            /\ \A k \in OnList : rank[k] < rank[m] => next[m] # HEAD /\ rank[k] <= rank[next[m]]
        BY <4>1, <1>s DEF Order
      <4>3. next[m] # nw
        <5>1. CASE m \in OnList  BY <5>1, <1>s, <1>w DEF Ring
        <5>2. CASE m \notin OnList
          <6>1. PICK u \in Thread : u \in open[m]  BY <5>2, <4>1 DEF Live, Opens
          <6>2. next[m] # HEAD => View(u, next[m], open)  BY <6>1, <1>s DEF Order
          <6> QED  BY <6>2, <1>w DEF View
        <5> QED  BY <5>1, <5>2
      <4>4. next[m] # HEAD => rk2[next[m]] = rank[next[m]]  BY <4>2, <4>3, <1>9 DEF Cells
      <4>5. ASSUME NEW k \in OnList', rk2[k] < rk2[m] PROVE next[m] # HEAD /\ rk2[k] <= rk2[next[m]]
        <5>1. CASE k = nw  BY <5>1, <4>1, <4>2, <4>4, <4>5, <1>2, <1>9
        <5>2. CASE k # nw
          <6>1. k \in OnList /\ k \in Node  BY <5>2, <1>4, <1>6
          <6> QED  BY <6>1, <5>2, <4>1, <4>2, <4>4, <4>5, <1>9
        <5> QED  BY <5>1, <5>2
      <4> QED  BY <4>1, <4>2, <4>4, <4>5, <1>0
    <3> QED  BY <3>1, <3>2, <3>3
  <2>2. \A m \in OnList' : next'[HEAD] # HEAD /\ rk2[m] <= rk2[next'[HEAD]]
    <3> SUFFICES ASSUME NEW m \in OnList' PROVE next'[HEAD] # HEAD /\ rk2[m] <= rk2[next'[HEAD]]
      OBVIOUS
    <3>0. next[HEAD] # HEAD /\ \A k \in OnList : rank[k] <= rank[next[HEAD]]
      BY <1>2, <1>s DEF Order
    <3>1. PICK k \in OnList : rk2[m] = rank[k]  BY <1>2, <1>4, <1>6, <1>9
    <3>2. CASE HEAD = a
      <4>1. next'[HEAD] = nw /\ next[HEAD] = old  BY <3>2, <1>3, <1>4, <1>5
      <4> QED  BY <4>1, <3>0, <3>1, <1>9, <1>w
    <3>3. CASE HEAD # a
      <4>1. next'[HEAD] = next[HEAD]  BY <3>3, <1>4, <1>5, <1>w
      <4>2. next[HEAD] \in OnList  BY <3>0, <1>s DEF Ring
      <4>3. rk2[next[HEAD]] = rank[next[HEAD]]  BY <4>2, <1>4, <1>9, <1>w
      <4> QED  BY <4>1, <4>3, <3>0, <3>1
    <3> QED  BY <3>2, <3>3
  \* the element of the old order that stands for m
  <2> DEFINE of(m) == IF m = nw THEN old ELSE m
  <2>3. \A m \in Node : Live(m, op2)' =>
           of(m) \in Node /\ Live(of(m), open) /\ rk2[m] = rank[of(m)] /\ did'[m] = did[of(m)]
    BY <1>0, <1>3, <1>9, <1>o, <1>v, <1>w
  <2>4. \A m, k \in Node : Live(m, op2)' /\ Live(k, op2)' /\ rk2[m] = rk2[k] => did'[m] = did'[k]
    <3> SUFFICES ASSUME NEW m \in Node, NEW k \in Node, Live(m, op2)', Live(k, op2)', rk2[m] = rk2[k]
                 PROVE did'[m] = did'[k]
      OBVIOUS
    <3> HIDE DEF of
    <3> QED  BY <2>3, <1>s DEF Order
  <2>5. \A m, k \in OnList' : rk2[m] = rk2[k] \/ did'[m] = did'[k] => m = k
    <3> SUFFICES ASSUME NEW m \in OnList', NEW k \in OnList', rk2[m] = rk2[k] \/ did'[m] = did'[k]
                 PROVE m = k
      OBVIOUS
    <3>1. of(m) \in OnList /\ of(k) \in OnList  BY <1>2, <1>6
    <3>2. m \in Node /\ k \in Node /\ Live(m, op2)' /\ Live(k, op2)'  BY <1>4, <1>6 DEF Live
    <3>3. of(m) = of(k)
      <4> HIDE DEF of
      <4> QED  BY <3>1, <3>2, <2>3, <1>s DEF Order
    <3>4. m # old /\ k # old  BY <1>6, <1>w
    <3> QED  BY <3>3, <3>4
  <2>6. ASSUME NEW m \in Node, NEW u \in op2[m], next'[m] # HEAD
        PROVE View(u, next[m], op2)' /\ next'[m] = next[m]
    <3>0. u \in Thread /\ u # t  BY <2>6, <1>8 DEF Opens
    <3>1. m # a /\ m # nw
      <4>1. CASE m = old  BY <4>1, <1>3, <1>w
      <4>2. CASE m # old  BY <4>2, <2>6, <1>3, <1>4, <1>8, <1>e, <1>w
      <4> QED  BY <4>1, <4>2
    <3>2. next'[m] = next[m]  BY <3>1, <1>4, <1>5
    <3>3. CASE m = old
      <4>1. next[m] \in OnList'  BY <3>2, <3>3, <2>6, <1>3, <1>6
      <4> QED  BY <4>1, <3>2 DEF View
    <3>4. CASE m # old
      <4>1. u \in open[m] /\ InSection(u)
        BY <3>0, <3>4, <2>6, <1>8, <1>10
      <4>2. View(u, next[m], open) /\ next[m] \in Node
        <5>1. Live(m, open)  BY <4>1 DEF Live
        <5>2. next[m] \in Cells  BY <5>1, <1>s DEF Order
        <5> QED  BY <5>2, <4>1, <3>2, <2>6, <1>s DEF Order, Cells
      <4>3. CASE next[m] = old
        <5>1. u \in op2[old]  BY <4>1, <3>0, <1>8
        <5> QED  BY <5>1, <4>3, <3>2 DEF View
      <4>4. CASE next[m] # old  BY <4>2, <4>4, <3>0, <3>2, <1>6, <1>8 DEF View
      <4> QED  BY <4>3, <4>4
    <3> QED  BY <3>2, <3>3, <3>4
  <2> HIDE DEF of
  <2> QED  BY <2>1, <2>2, <2>4, <2>5, <2>6 DEF Order
<1>12. Held'
  <2>1. Ordered'  BY <1>8, <1>9, <1>11 DEF Ordered
  <2> QED  BY <2>1, <1>7, HeldIs, PTL
<1>13. Stored(d)' = v
  <2>1. nw \in OnList' /\ did'[nw] = d /\ data'[nw] = v  BY <1>0, <1>6, <1>w
  <2> QED  BY <2>1, <1>12 DEF Held
<1>14. ASSUME NEW e \in Did \ {d} PROVE Stored(e)' = Stored(e)
  <2>1. CASE \E m \in OnList : did[m] = e
    <3>1. PICK m \in OnList : did[m] = e  BY <2>1
    <3>2. m \in OnList' /\ did'[m] = e /\ data'[m] = data[m]  BY <3>1, <1>0, <1>6, <1>w
    <3>3. Stored(e) = data[m]  BY <3>1, <1>h DEF Held
    <3>4. Stored(e)' = data'[m]  BY <3>2, <1>12 DEF Held
    <3> QED  BY <3>2, <3>3, <3>4
  <2>2. CASE ~ \E m \in OnList : did[m] = e
    <3>1. First(e) = HEAD  BY <2>2, <1>h DEF Held
    <3>2. First(e)' = HEAD  BY <2>2, <1>0, <1>6, <1>12, <1>w DEF Held
    <3>3. Stored(e) = NULL  BY <3>1, <1>h DEF Held
    <3>4. Stored(e)' = NULL  BY <3>2, <1>12 DEF Held
    <3> QED  BY <3>3, <3>4
  <2> QED  BY <2>1, <2>2
<1>15. /\ \A u \in Thread : /\ stayed'[u] \subseteq stayed[u] /\ stayed'[u] \subseteq StoredIds'
                            /\ seen[u] \subseteq seen'[u]
                            /\ \A e \in Did : pc[u] \in {"find", "copy"} /\ call[u].op = "read" /\ call[u].did = e
                                  => Stored(e)' \in seen'[u]
       /\ stayed' \in [Thread -> SUBSET Did]
       /\ seen' \in [Thread -> SUBSET (Data \cup {NULL})]
       /\ UNCHANGED <<lost, raced>>
  <2>1. OnList' \subseteq Node  BY <1>4, <1>6
  <2>2. \A u \in Thread : pc[u] \in {"find", "copy"} => call[u].did \in Did
    BY DEF IInv, ThreadOk, SectionOk
  <2> QED  BY <2>1, <2>2, <1>0, <1>12, <1>s, ObserveIs
<1>16. Shapes'
  <2>1. next' \in [Cells -> Cells \cup {NULL}] /\ prev' \in [Cells -> Cells \cup {NULL, POISON}]
    <3>1. next' = [next EXCEPT ![nw] = b, ![a] = nw]  BY <1>0, <1>2, <1>3
    <3>2. prev' = [prev EXCEPT ![nw] = a, ![b] = nw, ![old] = POISON]  BY <1>0, <1>2, <1>3
    <3>3. a \in Cells /\ b \in Cells /\ nw \in Cells  BY <1>3, <1>4
    <3> QED  BY <3>1, <3>2, <3>3, <1>s DEF Shapes
  <2>2. pc' \in [Thread -> Pcs]  BY <1>0, <1>s DEF Shapes, Pcs
  <2>3. waits' \in [Node -> SUBSET Thread]  BY <1>0, <1>s DEF Shapes
  <2> QED  BY <2>1, <2>2, <2>3, <1>0, <1>15, <1>s DEF Shapes
<1>17. pc'[t] = "retire" /\ pos'[t] = old /\ ids'[t] = <<>>
  BY <1>0, <1>2, <1>s DEF Shapes, ThreadOk, ToldOnce
<1>18. \A u \in Thread \ {t} : /\ pc'[u] = pc[u] /\ call'[u] = call[u] /\ pos'[u] = pos[u]
                               /\ new'[u] = new[u] /\ ids'[u] = ids[u] /\ tmp'[u] = tmp[u]
  BY <1>0, <1>s DEF Shapes
<1>19. Places(op2)'
  <2>1. \A u \in Thread : /\ Prep(u)' <=> Prep(u) /\ u # t
                          /\ Cut(u)' <=> Cut(u) \/ u = t
                          /\ new'[u] = new[u] /\ pos'[u] = pos[u]
                          /\ Cut(u) => u # t
    BY <1>0, <1>17, <1>18 DEF Prep, Cut
  <2>2. Loose' = (Loose \ {nw}) \cup {old} /\ old \notin Loose
    BY <1>0, <1>2, <1>3, <1>6, <1>15, <1>w, <1>s DEF Loose, Places
  <2>3. /\ OnList' \subseteq alive' /\ retired' \subseteq alive' /\ lost' \subseteq alive'
        /\ OnList' \cap retired' = {} /\ OnList' \cap lost' = {} /\ retired' \cap lost' = {}
    BY <1>0, <1>6, <1>15, <1>w, <1>s DEF Places, Loose
  <2>4. \A m \in Loose' : \E u \in Thread : (Prep(u)' /\ new'[u] = m) \/ (Cut(u)' /\ pos'[u] = m)
    <3>1. ASSUME NEW m \in Loose, m # nw
          PROVE \E u \in Thread : (Prep(u)' /\ new'[u] = m) \/ (Cut(u)' /\ pos'[u] = m)
      <4>1. PICK u \in Thread : (Prep(u) /\ new[u] = m) \/ (Cut(u) /\ pos[u] = m)  BY <1>s DEF Places
      <4> QED  BY <4>1, <3>1, <2>1, <1>2
    <3>2. Cut(t)' /\ pos'[t] = old  BY <2>1, <1>17
    <3> QED  BY <3>1, <3>2, <2>2
  <2>5. \A u \in Thread : (Prep(u)' => new'[u] \in Loose') /\ (Cut(u)' => pos'[u] \in Loose')
    <3> SUFFICES ASSUME NEW u \in Thread
                 PROVE (Prep(u)' => new'[u] \in Loose') /\ (Cut(u)' => pos'[u] \in Loose')
      OBVIOUS
    <3>1. ASSUME Prep(u)' PROVE new'[u] \in Loose'
      <4>1. Prep(u) /\ u # t /\ Prep(t)  BY <3>1, <2>1, <1>0 DEF Prep
      <4>2. new[u] # nw /\ new[u] \in Loose  BY <4>1, <1>2, <1>s DEF Places
      <4> QED  BY <4>2, <2>1, <2>2
    <3>2. ASSUME Cut(u)' PROVE pos'[u] \in Loose'
      <4>1. CASE u = t  BY <4>1, <2>2, <1>17
      <4>2. CASE u # t
        <5>1. Cut(u) /\ Prep(t)  BY <3>2, <4>2, <2>1, <1>0 DEF Prep
        <5>2. pos[u] \in Loose /\ pos[u] # nw  BY <5>1, <1>2, <1>s DEF Places
        <5> QED  BY <5>2, <2>1, <2>2
      <4> QED  BY <4>1, <4>2
    <3> QED  BY <3>1, <3>2
  <2>6. \A u, w \in Thread : u # w => /\ Prep(u)' /\ Prep(w)' => new'[u] # new'[w]
                                      /\ Cut(u)' /\ Cut(w)' => pos'[u] # pos'[w]
    BY <2>1, <2>2, <1>17, <1>s DEF Places
  <2>7. \A u, w \in Thread : Prep(u)' /\ Cut(w)' => new'[u] # pos'[w]
    BY <2>1, <2>2, <1>17, <1>s DEF Places
  <2>8. \A m \in Node : op2[m] # {} => m \in retired' \/ \E u \in Thread : Cut(u)' /\ pos'[u] = m
    <3> SUFFICES ASSUME NEW m \in Node, op2[m] # {}
                 PROVE m \in retired' \/ \E u \in Thread : Cut(u)' /\ pos'[u] = m
      OBVIOUS
    <3>1. CASE m = old  BY <3>1, <2>1, <1>17
    <3>2. CASE m # old
      <4>1. open[m] # {}  BY <3>2, <1>8
      <4>2. m \in retired \/ \E u \in Thread : Cut(u) /\ pos[u] = m  BY <4>1, <1>s DEF Places
      <4> QED  BY <4>2, <2>1, <1>0
    <3> QED  BY <3>1, <3>2
  <2>9. ASSUME NEW m \in retired' PROVE op2[m] \subseteq waits'[m]
    <3>1. m \in retired /\ m \in Node /\ m # old  BY <1>0, <1>2, <1>s DEF Places, Shapes
    <3>2. open[m] \subseteq waits[m]  BY <3>1, <1>s DEF Places
    <3>3. waits'[m] = waits[m] \ {t}  BY <3>1, <1>0
    <3> QED  BY <3>1, <3>2, <3>3, <1>8
  <2> QED  BY <2>3, <2>4, <2>5, <2>6, <2>7, <2>8, <2>9 DEF Places
<1>20. Sizes'
  <2>1. Rising' = Rising /\ Falling' = Falling  BY <1>0, <1>17, <1>18 DEF Rising, Falling
  <2>2. IsFiniteSet(OnList)
    <3>1. IsFiniteSet(Node) /\ OnList \in SUBSET Node  BY NodesAreFinite, <1>4
    <3> QED  BY <3>1, FS_Subset
  <2>3. Cardinality(OnList') = Cardinality(OnList)
    <3>1. IsFiniteSet(OnList \ {old}) /\ Cardinality(OnList \ {old}) = Cardinality(OnList) - 1
      BY <2>2, <1>2, FS_RemoveElement
    <3>2. nw \notin OnList \ {old}  BY <1>w
    <3>3. Cardinality((OnList \ {old}) \cup {nw}) = Cardinality(OnList \ {old}) + 1
      BY <3>1, <3>2, FS_AddElement
    <3>4. Cardinality(OnList) \in Nat  BY <2>2, FS_CardinalityType
    <3> QED  BY <3>1, <3>3, <3>4, <1>6
  <2>6. ~raced' => \A u \in Thread : pc'[u] \in {"count", "size"} => tmp'[u] = size'
    BY <1>0, <1>15, <1>17, <1>18, <1>s DEF Sizes
  <2>8. lock' = NULL /\ \A u \in Rising' : lock' = u  BY <2>1, <1>0, <1>s DEF Sizes
  <2> QED  BY <2>1, <2>3, <2>6, <2>8, <1>0, <1>15, <1>s DEF Sizes
<1>21. ASSUME NEW u \in Thread PROVE ThreadOk(u, rk2, op2)'
  <2>1. CASE u = t
    <3>1. \A m \in Node : t \notin op2[m]  BY <1>8
    <3> QED  BY <3>1, <2>1, <1>17, RestOk
  <2>2. CASE u # t
    <3>s. ThreadOk(u, rank, open)  BY DEF IInv
    <3>1. /\ pc'[u] = pc[u] /\ call'[u] = call[u] /\ pos'[u] = pos[u]
          /\ new'[u] = new[u] /\ ids'[u] = ids[u] /\ did' = did /\ data' = data
      BY <2>2, <1>0, <1>18
    <3>2. InSection(u)' <=> InSection(u)  BY <3>1 DEF InSection
    <3>3. InSection(u) => \A m \in Node : View(u, m, op2)' <=> View(u, m, open) \/ m = nw
      <4> SUFFICES ASSUME InSection(u), NEW m \in Node
                   PROVE View(u, m, op2)' <=> View(u, m, open) \/ m = nw
        OBVIOUS
      <4>1. CASE m = old  BY <4>1, <2>2, <1>2, <1>8 DEF View
      <4>2. CASE m # old  BY <4>2, <2>2, <1>6, <1>8 DEF View
      <4> QED  BY <4>1, <4>2
    <3>p. InSection(u) /\ pos[u] # HEAD => pos[u] \in Node /\ pos[u] # nw
      <4>1. InSection(u) /\ pos[u] # HEAD => pos[u] \in Node /\ View(u, pos[u], open)
        BY <3>s DEF ThreadOk, SectionOk, Cells
      <4>2. ~View(u, nw, open)  BY <1>w DEF View
      <4> QED  BY <4>1, <4>2
    <3> DEFINE of(m) == IF m = nw THEN old ELSE m
    <3>4. InSection(u) => \A m \in Node : Ahead(u, m, rk2)' <=> Ahead(u, of(m), rank)
      BY <3>1, <3>p, <1>9 DEF Ahead
    <3>5. Told(u)' = Told(u)  BY <3>1 DEF Told
    <3>f. InSection(u) => \A m \in Node : View(u, m, op2)' =>
             of(m) \in Node /\ View(u, of(m), open) /\ rk2[m] = rank[of(m)] /\ did[m] = did[of(m)]
      BY <3>3, <1>2, <1>3, <1>9, <1>w DEF View
    <3>g. \A m \in OnList' : of(m) \in OnList /\ did[m] = did[of(m)]  BY <1>2, <1>6, <1>w
    <3>i. \A m \in OnList : \E k \in OnList' : of(k) = m  BY <1>6, <1>w
    <3> HIDE DEF of
    <3>6. SectionOk(u, op2)'
      <4>1. ASSUME NEW m \in Node, u \in op2[m] PROVE InSection(u)' /\ did'[m] \notin Keys[u]
        <5>1. CASE m = old
          <6>1. d \notin Keys[u]  BY <2>2, <1>w DEF OneWriter
          <6> QED  BY <6>1, <5>1, <4>1, <3>1, <3>2, <1>8, <1>w
        <5>2. CASE m # old  BY <5>2, <4>1, <3>1, <3>2, <3>s, <1>8 DEF ThreadOk, SectionOk
        <5> QED  BY <5>1, <5>2
      <4>2. InSection(u)' => pos'[u] \in Cells /\ (pos'[u] # HEAD => View(u, pos[u], op2)')
        BY <3>1, <3>2, <3>3, <3>s DEF ThreadOk, SectionOk, Cells
      <4> QED  BY <4>1, <4>2, <3>1, <3>s DEF ThreadOk, SectionOk
    <3>7. WriterOk(u, rk2)'
      <4> SUFFICES ASSUME (pc[u] = "find" /\ call[u].op = "write") \/ pc[u] = "link"
                   PROVE WriterOk(u, rk2)'
        BY <3>1 DEF WriterOk
      <4>1. InSection(u)  BY DEF InSection
      <4>2. ASSUME NEW m \in OnList', did'[m] = call'[u].did PROVE Ahead(u, m, rk2)'
        <5>1. m \in Node  BY <1>4, <1>6
        <5>2. of(m) \in OnList /\ did[of(m)] = call[u].did  BY <4>2, <3>1, <3>g
        <5>3. Ahead(u, of(m), rank)  BY <5>2, <3>s DEF ThreadOk, WriterOk
        <5> QED  BY <5>1, <5>3, <4>1, <3>4
      <4> QED  BY <4>2, <3>1, <3>s DEF ThreadOk, WriterOk
    <3>8. ListerOk(u, rk2, op2)'
      <4> SUFFICES ASSUME pc[u] = "list" PROVE ListerOk(u, rk2, op2)'
        BY <3>1 DEF ListerOk
      <4>1. InSection(u)  BY DEF InSection
      <4>2. ASSUME NEW e \in stayed'[u]
            PROVE e \in Told(u)' \/ \E m \in OnList' : did'[m] = e /\ Ahead(u, m, rk2)'
        <5>1. e \in Told(u) \/ \E m \in OnList : did[m] = e /\ Ahead(u, m, rank)
          BY <4>2, <3>s, <1>15 DEF ThreadOk, ListerOk
        <5>2. ASSUME NEW m \in OnList, did[m] = e, Ahead(u, m, rank)
              PROVE \E k \in OnList' : did'[k] = e /\ Ahead(u, k, rk2)'
          <6>1. PICK k \in OnList' : of(k) = m  BY <3>i
          <6>2. k \in Node  BY <1>4, <1>6
          <6> QED  BY <6>1, <6>2, <5>2, <4>1, <3>1, <3>4, <3>g
        <5> QED  BY <5>1, <5>2, <3>5
      <4>3. \A m, k \in Node : /\ View(u, m, op2)' /\ View(u, k, op2)'
                               /\ Ahead(u, m, rk2)' /\ Ahead(u, k, rk2)' /\ did'[m] = did'[k]
                               => rk2[m] = rk2[k]
        BY <4>1, <3>1, <3>4, <3>f, <3>s DEF ThreadOk, ListerOk
      <4>4. \A m \in Node : View(u, m, op2)' /\ Ahead(u, m, rk2)' => did'[m] \notin Told(u)'
        BY <4>1, <3>1, <3>4, <3>5, <3>f, <3>s DEF ThreadOk, ListerOk
      <4> QED  BY <4>2, <4>3, <4>4 DEF ListerOk
    <3>9. ToldOnce(u)'  BY <3>1, <3>s DEF ThreadOk, ToldOnce
    <3>10. ReaderOk(u, rk2, op2)'
      <4> SUFFICES ASSUME pc[u] \in {"find", "copy"}, call[u].op = "read" PROVE ReaderOk(u, rk2, op2)'
        BY <3>1 DEF ReaderOk
      <4>1. InSection(u) /\ call[u].did \in Did  BY <3>s DEF InSection, ThreadOk, SectionOk
      <4>2. ASSUME NEW m \in Node, View(u, m, op2)', did'[m] = call'[u].did PROVE data'[m] \in seen'[u]
        <5>1. CASE m = nw
          <6>1. call[u].did = d  BY <5>1, <4>2, <3>1, <1>w
          <6>2. Stored(d)' \in seen'[u]  BY <6>1, <1>15
          <6> QED  BY <6>2, <5>1, <3>1, <1>13, <1>w
        <5>2. CASE m # nw
          <6>1. View(u, m, open)  BY <5>2, <4>1, <4>2, <3>3
          <6> QED  BY <6>1, <4>2, <3>1, <3>s, <1>15 DEF ThreadOk, ReaderOk
        <5> QED  BY <5>1, <5>2
      <4>3. NULL \in seen'[u] \/ \E m \in OnList' : did'[m] = call'[u].did /\ (pc'[u] = "find" => Ahead(u, m, rk2)')
        <5>1. CASE NULL \in seen[u]  BY <5>1, <1>15
        <5>2. CASE \E m \in OnList : did[m] = call[u].did /\ (pc[u] = "find" => Ahead(u, m, rank))
          <6>1. PICK m \in OnList : did[m] = call[u].did /\ (pc[u] = "find" => Ahead(u, m, rank))
            BY <5>2
          <6>2. PICK k \in OnList' : of(k) = m  BY <3>i
          <6>3. k \in Node  BY <1>4, <1>6
          <6> QED  BY <6>1, <6>2, <6>3, <4>1, <3>1, <3>4, <3>g
        <5> QED  BY <5>1, <5>2, <3>s DEF ThreadOk, ReaderOk
      <4> QED  BY <4>2, <4>3 DEF ReaderOk
    <3> QED  BY <3>6, <3>7, <3>8, <3>9, <3>10 DEF ThreadOk
  <2> QED  BY <2>1, <2>2
<1>22. IInv(rk2, top, op2)'  BY <1>7, <1>11, <1>16, <1>19, <1>20, <1>21 DEF IInv
<1>23. Sound'  BY <1>8, <1>9, <1>22 DEF Sound
<1> QED  BY <1>13, <1>14, <1>23

LEMMA LinkFirstStep ==
    ASSUME OneWriter,
           NEW rank \in Ranks, NEW top \in Nat, NEW open \in Opens, IInv(rank, top, open),
           NEW t \in Thread, WriteLink(t), LinkFirst(t)
    PROVE Sound' /\ \E d \in Did, v \in Data :
             Stored(d)' = v /\ \A e \in Did \ {d} : Stored(e)' = Stored(e)
<1>0. /\ pc[t] = "link" /\ lock = NULL /\ pos[t] = HEAD
      /\ next' = [next EXCEPT ![new[t]] = next[HEAD], ![HEAD] = new[t]]
      /\ prev' = [prev EXCEPT ![new[t]] = HEAD, ![next[HEAD]] = new[t]]
      /\ lock' = t /\ tmp' = [tmp EXCEPT ![t] = size]
      /\ pc' = [pc EXCEPT ![t] = "count"]
      /\ UNCHANGED <<waits, alive, did, data, size, retired, call, pos, new, got, ids, calls>>
      /\ Observe
  BY DEF WriteLink, LinkFirst, Goto
<1>s. Shapes /\ Places(open) /\ Sizes /\ Ring /\ Order(rank, top, open) /\ ThreadOk(t, rank, open)
  BY DEF IInv
<1>h. Held  BY HeldNow
<1>1. /\ new[t] \in Loose /\ new[t] \in Node
      /\ call[t].did \in Did /\ call[t].data \in Data /\ call[t].did \in Keys[t]
      /\ did[new[t]] = call[t].did /\ data[new[t]] = call[t].data
      /\ \A m \in OnList : did[m] # call[t].did
  <2>1. /\ call[t].did \in Did /\ call[t].data \in Data /\ call[t].did \in Keys[t]
        /\ did[new[t]] = call[t].did /\ data[new[t]] = call[t].data
        /\ \A m \in OnList : did[m] # call[t].did
    BY <1>0, <1>s DEF ThreadOk, SectionOk, WriterOk, Ahead
  <2>2. new[t] \in Loose /\ new[t] \in Node  BY <1>0, <1>s DEF Places, Prep, Loose, Shapes
  <2> QED  BY <2>1, <2>2
<1>2. PICK nw \in Node, d \in Did, v \in Data :
         nw = new[t] /\ d = call[t].did /\ v = call[t].data
  BY <1>1
<1>3. PICK h \in OnList \cup {HEAD} : next[HEAD] = h /\ prev[h] = HEAD
  BY <1>s DEF Ring
<1>4. /\ OnList \subseteq Node /\ HEAD \notin Node /\ HEAD \in Cells
      /\ \A m \in Node : m \in Cells
  BY HeadApart DEF OnList, Cells
<1>w. /\ nw \notin OnList /\ nw \in alive /\ nw \in Loose /\ nw # h /\ nw # HEAD
      /\ open[nw] = {} /\ did[nw] = d /\ data[nw] = v /\ d \in Keys[t]
      /\ \A m \in OnList : did[m] # d
  <2>1. nw \in Loose /\ nw \notin OnList /\ nw \in alive  BY <1>1, <1>2 DEF Loose
  <2>2. nw \notin retired  BY <2>1 DEF Loose
  <2>3. \A u \in Thread : Cut(u) => pos[u] # nw  BY <1>0, <1>2, <1>s DEF Places, Prep
  <2>4. open[nw] = {}  BY <2>2, <2>3, <1>s DEF Places
  <2> QED  BY <2>1, <2>4, <1>1, <1>2, <1>3, <1>4
<1>5. /\ \A m \in Cells : next'[m] = IF m = HEAD THEN nw ELSE IF m = nw THEN h ELSE next[m]
      /\ \A m \in Cells : prev'[m] = IF m = h THEN nw ELSE IF m = nw THEN HEAD ELSE prev[m]
  <2>1. next' = [next EXCEPT ![nw] = h, ![HEAD] = nw]  BY <1>0, <1>2, <1>3
  <2>2. prev' = [prev EXCEPT ![nw] = HEAD, ![h] = nw]  BY <1>0, <1>2, <1>3
  <2>3. DOMAIN next = Cells /\ DOMAIN prev = Cells  BY <1>s DEF Shapes
  <2> QED  BY <2>1, <2>2, <2>3
<1>6. OnList' = OnList \cup {nw}
  <2>1. \A m \in Node : m \in OnList' <=> prev'[m] \in Cells  BY DEF OnList, Cells
  <2>2. \A m \in Node : m \in OnList <=> prev[m] \in Cells  BY DEF OnList
  <2>3. OnList' \subseteq Node  BY DEF OnList
  <2>4. ASSUME NEW m \in Node PROVE m \in OnList' <=> m \in OnList \/ m = nw
    <3>1. CASE m = h  BY <3>1, <2>1, <1>3, <1>4, <1>5
    <3>2. CASE m = nw  BY <3>2, <2>1, <1>4, <1>5, <1>w
    <3>3. CASE m # h /\ m # nw  BY <3>3, <2>1, <2>2, <1>4, <1>5
    <3> QED  BY <3>1, <3>2, <3>3
  <2> QED  BY <2>3, <2>4, <1>4
<1>7. Ring'
  <2> DEFINE R == OnList \cup {nw, HEAD}
  <2> SUFFICES ASSUME NEW m \in R
               PROVE /\ next'[m] \in R /\ prev'[m] \in R
                     /\ next'[prev'[m]] = m /\ prev'[next'[m]] = m
    BY <1>6 DEF Ring
  <2>0. h \in R /\ nw \in R /\ h \in Cells /\ nw \in Cells /\ m \in Cells
    BY <1>3, <1>4
  <2>1. m # nw => /\ next[m] \in OnList \cup {HEAD} /\ prev[m] \in OnList \cup {HEAD}
                  /\ next[prev[m]] = m /\ prev[next[m]] = m
    BY <1>s DEF Ring
  <2>2. next'[m] = IF m = HEAD THEN nw ELSE IF m = nw THEN h ELSE next[m]  BY <2>0, <1>5
  <2>3. prev'[m] = IF m = h THEN nw ELSE IF m = nw THEN HEAD ELSE prev[m]  BY <2>0, <1>5
  <2>4. next'[m] \in R /\ prev'[m] \in R  BY <2>0, <2>1, <2>2, <2>3
  <2>5. next'[prev'[m]] = m
    <3>1. next'[nw] = h /\ next'[HEAD] = nw  BY <2>0, <1>4, <1>5, <1>w
    <3>2. CASE m = h \/ m = nw  BY <3>1, <3>2, <2>3, <1>w
    <3>3. CASE m # h /\ m # nw
      <4>1. prev[m] \in Cells /\ prev[m] # HEAD /\ prev[m] # nw  BY <3>3, <2>1, <1>3, <1>4, <1>w
      <4> QED  BY <4>1, <3>3, <2>1, <2>3, <1>5
    <3> QED  BY <3>2, <3>3
  <2>6. prev'[next'[m]] = m
    <3>1. prev'[nw] = HEAD /\ prev'[h] = nw  BY <2>0, <1>5, <1>w
    <3>2. CASE m = HEAD \/ m = nw  BY <3>1, <3>2, <2>2, <1>w
    <3>3. CASE m # HEAD /\ m # nw
      <4>1. next[m] \in Cells /\ next[m] # h /\ next[m] # nw  BY <3>3, <2>1, <1>3, <1>4, <1>w
      <4> QED  BY <4>1, <3>3, <2>1, <2>2, <1>5
    <3> QED  BY <3>2, <3>3
  <2> QED  BY <2>4, <2>5, <2>6
<1>8. PICK rk2 \in Ranks : rk2[nw] = top + 1 /\ \A m \in Node : m # nw => rk2[m] = rank[m]
  <2>1. [rank EXCEPT ![nw] = top + 1] \in Ranks  BY DEF Ranks
  <2> QED  BY <2>1 DEF Ranks
<1>r. \A m \in Node : rank[m] \in Int /\ rk2[m] \in Int  BY DEF Ranks
<1>e. \A m \in OnList : open[m] = {}  BY Around
<1>v. \A m \in Node : Live(m, open)' => m = nw \/ (m # nw /\ Live(m, open) /\ rank[m] <= top)
  <2>1. \A m \in Node : Live(m, open)' => m = nw \/ (m # nw /\ Live(m, open))
    BY <1>6 DEF Live
  <2> QED  BY <2>1, <1>s DEF Order
\* nobody's pointer but the head's leads to nw
<1>n. \A m \in Node : m # nw /\ Live(m, open) => next[m] # nw
  <2> SUFFICES ASSUME NEW m \in Node, m # nw, Live(m, open) PROVE next[m] # nw  OBVIOUS
  <2>1. CASE m \in OnList  BY <2>1, <1>4, <1>s, <1>w DEF Ring
  <2>2. CASE m \notin OnList
    <3>1. PICK u \in Thread : u \in open[m]  BY <2>2 DEF Live, Opens
    <3>2. next[m] # HEAD => View(u, next[m], open)  BY <3>1, <1>s DEF Order
    <3> QED  BY <3>2, <1>w DEF View
  <2> QED  BY <2>1, <2>2
<1>11. Order(rk2, top + 1, open)'
  <2>1. ASSUME NEW m \in Node, Live(m, open)'
        PROVE /\ rk2[m] <= top + 1
              /\ did'[m] \in Did /\ data'[m] \in Data
              /\ next'[m] \in Cells
              /\ next'[m] # HEAD => rk2[next'[m]] < rk2[m]
              /\ \A k \in OnList' : rk2[k] < rk2[m] => next'[m] # HEAD /\ rk2[k] <= rk2[next'[m]]
    <3>1. CASE m = nw
      <4>1. next'[m] = h /\ rk2[m] = top + 1 /\ h \in Cells /\ h # nw
        BY <3>1, <1>3, <1>4, <1>5, <1>8, <1>w
      <4>2. h # HEAD => rk2[h] = rank[h] /\ rank[h] <= top
        BY <1>3, <1>4, <1>8, <1>w, <1>s DEF Order, Live
      <4>3. ASSUME NEW k \in OnList', rk2[k] < rk2[m] PROVE h # HEAD /\ rk2[k] <= rk2[h]
        <5>1. k # nw /\ k \in OnList /\ k \in Node  BY <4>3, <3>1, <1>4, <1>6, <1>r
        <5>2. h # HEAD /\ rank[k] <= rank[h]  BY <5>1, <1>3, <1>s DEF Order
        <5> QED  BY <5>1, <5>2, <4>2, <1>8
      <4>4. h # HEAD => rk2[h] < rk2[m]  BY <4>1, <4>2, <1>r, <1>3, <1>4
      <4> QED  BY <4>1, <4>3, <4>4, <3>1, <1>0, <1>w
    <3>3. CASE m # nw
      <4>1. next'[m] = next[m] /\ rk2[m] = rank[m] /\ Live(m, open) /\ next[m] # nw
        BY <3>3, <2>1, <1>4, <1>5, <1>8, <1>v, <1>n
      <4>2. /\ rank[m] <= top /\ did[m] \in Did /\ data[m] \in Data /\ next[m] \in Cells
            /\ next[m] # HEAD => rank[next[m]] < rank[m]
            /\ \A k \in OnList : rank[k] < rank[m] => next[m] # HEAD /\ rank[k] <= rank[next[m]]
        BY <4>1, <1>s DEF Order
      <4>4. next[m] # HEAD => rk2[next[m]] = rank[next[m]]  BY <4>1, <4>2, <1>8 DEF Cells
      <4>5. ASSUME NEW k \in OnList', rk2[k] < rk2[m] PROVE next[m] # HEAD /\ rk2[k] <= rk2[next[m]]
        <5>1. CASE k = nw  BY <5>1, <4>1, <4>2, <4>5, <1>8, <1>r
        <5>2. CASE k # nw
          <6>1. k \in OnList /\ k \in Node  BY <5>2, <1>4, <1>6
          <6> QED  BY <6>1, <5>2, <4>1, <4>2, <4>4, <4>5, <1>8
        <5> QED  BY <5>1, <5>2
      <4>6. rk2[m] <= top + 1  BY <4>1, <4>2, <1>r
      <4> QED  BY <4>1, <4>2, <4>4, <4>5, <4>6, <1>0
    <3> QED  BY <3>1, <3>3
  <2>2. \A m \in OnList' : next'[HEAD] # HEAD /\ rk2[m] <= rk2[next'[HEAD]]
    <3> SUFFICES ASSUME NEW m \in OnList' PROVE next'[HEAD] # HEAD /\ rk2[m] <= rk2[next'[HEAD]]
      OBVIOUS
    <3>1. next'[HEAD] = nw  BY <1>4, <1>5
    <3>2. m = nw \/ (m # nw /\ m \in Node /\ rank[m] <= top)
      BY <1>4, <1>6, <1>s DEF Order, Live
    <3> QED  BY <3>1, <3>2, <1>8, <1>r, <1>w
  <2>3. \A m, k \in Node : Live(m, open)' /\ Live(k, open)' /\ rk2[m] = rk2[k] => did'[m] = did'[k]
    <3> SUFFICES ASSUME NEW m \in Node, NEW k \in Node, Live(m, open)', Live(k, open)', rk2[m] = rk2[k]
                 PROVE did'[m] = did'[k]
      OBVIOUS
    <3>1. CASE m # nw /\ k # nw  BY <3>1, <1>0, <1>8, <1>v, <1>s DEF Order
    <3>2. CASE m = nw \/ k = nw
      <4>1. m = nw /\ k = nw  BY <3>2, <1>8, <1>r, <1>v
      <4> QED  BY <4>1
    <3> QED  BY <3>1, <3>2
  <2>4. \A m, k \in OnList' : rk2[m] = rk2[k] \/ did'[m] = did'[k] => m = k
    <3> SUFFICES ASSUME NEW m \in OnList', NEW k \in OnList', rk2[m] = rk2[k] \/ did'[m] = did'[k]
                 PROVE m = k
      OBVIOUS
    <3>1. \A j \in OnList : j \in Node /\ rank[j] <= top /\ rk2[j] = rank[j]
      BY <1>4, <1>8, <1>w, <1>s DEF Order, Live
    <3>2. CASE m # nw /\ k # nw  BY <3>1, <3>2, <1>0, <1>6, <1>s DEF Order
    <3>3. CASE m = nw \/ k = nw  BY <3>1, <3>3, <1>0, <1>6, <1>8, <1>r, <1>w
    <3> QED  BY <3>2, <3>3
  <2>5. ASSUME NEW m \in Node, NEW u \in open[m], next'[m] # HEAD
        PROVE View(u, next[m], open)' /\ next'[m] = next[m]
    <3>1. m # nw /\ m # HEAD /\ m \in Cells /\ Live(m, open)
      BY <2>5, <1>4, <1>w DEF Live
    <3>2. next'[m] = next[m]  BY <3>1, <1>5
    <3>3. View(u, next[m], open)  BY <2>5, <3>2, <1>s DEF Order
    <3> QED  BY <3>2, <3>3, <1>6 DEF View
  <2> QED  BY <2>1, <2>2, <2>3, <2>4, <2>5 DEF Order
<1>12. Held'
  <2>0. top + 1 \in Nat  OBVIOUS
  <2>1. Ordered'  BY <2>0, <1>8, <1>11 DEF Ordered
  <2> QED  BY <2>1, <1>7, HeldIs, PTL
<1>13. Stored(d)' = v
  <2>1. nw \in OnList' /\ did'[nw] = d /\ data'[nw] = v  BY <1>0, <1>6, <1>w
  <2> QED  BY <2>1, <1>12 DEF Held
<1>14. ASSUME NEW e \in Did \ {d} PROVE Stored(e)' = Stored(e)
  <2>1. CASE \E m \in OnList : did[m] = e
    <3>1. PICK m \in OnList : did[m] = e  BY <2>1
    <3>2. m \in OnList' /\ did'[m] = e /\ data'[m] = data[m]  BY <3>1, <1>0, <1>6
    <3>3. Stored(e) = data[m]  BY <3>1, <1>h DEF Held
    <3>4. Stored(e)' = data'[m]  BY <3>2, <1>12 DEF Held
    <3> QED  BY <3>2, <3>3, <3>4
  <2>2. CASE ~ \E m \in OnList : did[m] = e
    <3>1. First(e) = HEAD  BY <2>2, <1>h DEF Held
    <3>2. First(e)' = HEAD  BY <2>2, <1>0, <1>6, <1>12, <1>w DEF Held
    <3>3. Stored(e) = NULL  BY <3>1, <1>h DEF Held
    <3>4. Stored(e)' = NULL  BY <3>2, <1>12 DEF Held
    <3> QED  BY <3>3, <3>4
  <2> QED  BY <2>1, <2>2
<1>15. /\ \A u \in Thread : /\ stayed'[u] \subseteq stayed[u] /\ stayed'[u] \subseteq StoredIds'
                            /\ seen[u] \subseteq seen'[u]
                            /\ \A e \in Did : pc[u] \in {"find", "copy"} /\ call[u].op = "read" /\ call[u].did = e
                                  => Stored(e)' \in seen'[u]
       /\ stayed' \in [Thread -> SUBSET Did]
       /\ seen' \in [Thread -> SUBSET (Data \cup {NULL})]
       /\ UNCHANGED <<lost, raced>>
  <2>1. OnList' \subseteq Node  BY <1>4, <1>6
  <2>2. \A u \in Thread : pc[u] \in {"find", "copy"} => call[u].did \in Did
    BY DEF IInv, ThreadOk, SectionOk
  <2> QED  BY <2>1, <2>2, <1>0, <1>12, <1>s, ObserveIs
<1>16. Shapes'
  <2>1. next' \in [Cells -> Cells \cup {NULL}] /\ prev' \in [Cells -> Cells \cup {NULL, POISON}]
    <3>1. next' = [next EXCEPT ![nw] = h, ![HEAD] = nw]  BY <1>0, <1>2, <1>3
    <3>2. prev' = [prev EXCEPT ![nw] = HEAD, ![h] = nw]  BY <1>0, <1>2, <1>3
    <3>3. h \in Cells /\ nw \in Cells  BY <1>3, <1>4
    <3> QED  BY <3>1, <3>2, <3>3, <1>4, <1>s DEF Shapes
  <2>2. pc' \in [Thread -> Pcs] /\ tmp' \in [Thread -> Int]  BY <1>0, <1>s DEF Shapes, Pcs
  <2> QED  BY <2>1, <2>2, <1>0, <1>15, <1>s DEF Shapes
<1>17. pc'[t] = "count" /\ pos'[t] = HEAD /\ tmp'[t] = size
  BY <1>0, <1>s DEF Shapes
<1>18. \A u \in Thread \ {t} : pc'[u] = pc[u] /\ tmp'[u] = tmp[u]
  BY <1>0, <1>s DEF Shapes
<1>19. Places(open)'
  <2>1. \A u \in Thread : /\ Prep(u)' <=> Prep(u) /\ u # t
                          /\ Cut(u)' <=> Cut(u)
                          /\ new'[u] = new[u] /\ pos'[u] = pos[u]
                          /\ Cut(u) => u # t
    BY <1>0, <1>17, <1>18 DEF Prep, Cut
  <2>2. Loose' = Loose \ {nw}  BY <1>0, <1>2, <1>6, <1>15, <1>w, <1>s DEF Loose
  <2>3. /\ OnList' \subseteq alive' /\ retired' \subseteq alive' /\ lost' \subseteq alive'
        /\ OnList' \cap retired' = {} /\ OnList' \cap lost' = {} /\ retired' \cap lost' = {}
    BY <1>0, <1>6, <1>15, <1>w, <1>s DEF Places, Loose
  <2>4. ASSUME NEW m \in Loose'
        PROVE \E u \in Thread : (Prep(u)' /\ new'[u] = m) \/ (Cut(u)' /\ pos'[u] = m)
    <3>1. m \in Loose /\ m # nw  BY <2>2
    <3>2. PICK u \in Thread : (Prep(u) /\ new[u] = m) \/ (Cut(u) /\ pos[u] = m)  BY <3>1, <1>s DEF Places
    <3> QED  BY <3>1, <3>2, <2>1, <1>2
  <2>5. ASSUME NEW u \in Thread
        PROVE (Prep(u)' => new'[u] \in Loose') /\ (Cut(u)' => pos'[u] \in Loose')
    <3>1. ASSUME Prep(u)' PROVE new'[u] \in Loose'
      <4>1. Prep(u) /\ u # t /\ Prep(t)  BY <3>1, <2>1, <1>0 DEF Prep
      <4>2. new[u] # nw /\ new[u] \in Loose  BY <4>1, <1>2, <1>s DEF Places
      <4> QED  BY <4>2, <2>1, <2>2
    <3>2. ASSUME Cut(u)' PROVE pos'[u] \in Loose'
      <4>1. Cut(u) /\ Prep(t)  BY <3>2, <2>1, <1>0 DEF Prep
      <4>2. pos[u] \in Loose /\ pos[u] # nw  BY <4>1, <1>2, <1>s DEF Places
      <4> QED  BY <4>2, <2>1, <2>2
    <3> QED  BY <3>1, <3>2
  <2>6. /\ \A u, w \in Thread : u # w => /\ Prep(u)' /\ Prep(w)' => new'[u] # new'[w]
                                         /\ Cut(u)' /\ Cut(w)' => pos'[u] # pos'[w]
        /\ \A u, w \in Thread : Prep(u)' /\ Cut(w)' => new'[u] # pos'[w]
    BY <2>1, <1>s DEF Places
  <2>7. \A m \in Node : open[m] # {} => m \in retired' \/ \E u \in Thread : Cut(u)' /\ pos'[u] = m
    BY <2>1, <1>0, <1>s DEF Places
  <2>8. \A m \in retired' : open[m] \subseteq waits'[m]  BY <1>0, <1>s DEF Places
  <2> QED  BY <2>3, <2>4, <2>5, <2>6, <2>7, <2>8 DEF Places
<1>20. Sizes'
  <2>0. NULL \notin Thread  BY HeadApart
  <2>1. Rising = {}  BY <2>0, <1>0, <1>s DEF Sizes, Rising
  <2>2. Rising' = {t}  BY <2>1, <1>17, <1>18 DEF Rising
  <2>3. Falling' = Falling  BY <1>0, <1>17, <1>18 DEF Falling
  <2>4. IsFiniteSet(OnList)
    <3>1. IsFiniteSet(Node) /\ OnList \in SUBSET Node  BY NodesAreFinite, <1>4
    <3> QED  BY <3>1, FS_Subset
  <2>5. Cardinality(OnList') = Cardinality(OnList) + 1 /\ Cardinality(OnList) \in Nat
        /\ Cardinality(Falling) \in Nat
    BY <2>4, <1>6, <1>w, <1>s, FS_AddElement, FS_CardinalityType DEF Sizes
  <2>6. Cardinality(Rising) = 0 /\ Cardinality(Rising') = 1
    BY <2>1, <2>2, FS_EmptySet, FS_Singleton
  <2>7. ~raced' => \A u \in Thread : pc'[u] \in {"count", "size"} => tmp'[u] = size'
    BY <1>0, <1>15, <1>17, <1>18, <1>s DEF Sizes
  <2>8. ~raced' => size' + Cardinality(Rising') = Cardinality(OnList') + Cardinality(Falling')
    <3>1. size \in Int  BY <1>s DEF Shapes
    <3> QED  BY <3>1, <2>3, <2>5, <2>6, <1>0, <1>15, <1>s DEF Sizes
  <2>9. (\A u \in Rising' : lock' = u) /\ pc'[lock'] = "count" /\ IsFiniteSet(Falling')
    BY <2>2, <2>3, <1>0, <1>17, <1>s DEF Sizes
  <2> QED  BY <2>7, <2>8, <2>9 DEF Sizes
<1>21. ASSUME NEW u \in Thread PROVE ThreadOk(u, rk2, open)'
  <2>s. ThreadOk(u, rank, open)  BY DEF IInv
  <2>1. /\ call'[u] = call[u] /\ pos'[u] = pos[u] /\ new'[u] = new[u] /\ ids'[u] = ids[u]
        /\ did' = did /\ data' = data
        /\ InSection(u)' <=> InSection(u)
    BY <1>0, <1>17, <1>18 DEF InSection
  <2>2. \A m \in Node : View(u, m, open)' <=> View(u, m, open) \/ m = nw
    BY <1>6 DEF View
  <2>3. InSection(u) /\ pos[u] # HEAD => pos[u] \in Node /\ pos[u] # nw /\ rank[pos[u]] <= top
    <3>1. InSection(u) /\ pos[u] # HEAD => pos[u] \in Node /\ View(u, pos[u], open)
      BY <2>s DEF ThreadOk, SectionOk, Cells
    <3>2. InSection(u) /\ pos[u] # HEAD => Live(pos[u], open)  BY <3>1 DEF View, Live
    <3>3. ~View(u, nw, open)  BY <1>w DEF View
    <3> QED  BY <3>1, <3>2, <3>3, <1>s DEF Order
  <2>4. InSection(u) => /\ \A m \in Node : m # nw => (Ahead(u, m, rk2)' <=> Ahead(u, m, rank))
                        /\ ~Ahead(u, nw, rk2)'
    <3> SUFFICES ASSUME InSection(u)
                 PROVE /\ \A m \in Node : m # nw => (Ahead(u, m, rk2)' <=> Ahead(u, m, rank))
                       /\ \A m \in Node : m = nw => ~Ahead(u, m, rk2)'
      BY <1>2
    <3>1. CASE pos[u] = HEAD  BY <3>1, <2>1 DEF Ahead
    <3>2. CASE pos[u] # HEAD
      <4>1. rk2[pos[u]] = rank[pos[u]] /\ rank[pos[u]] \in Int /\ rk2[nw] = top + 1
        BY <3>2, <2>3, <1>8, <1>r
      <4> QED  BY <4>1, <3>2, <2>1, <2>3, <1>8 DEF Ahead
    <3> QED  BY <3>1, <3>2
  <2>5. Told(u)' = Told(u)  BY <2>1 DEF Told
  <2>6. SectionOk(u, open)'
    <3>1. \A m \in Node : u \in open[m] => InSection(u)' /\ did'[m] \notin Keys[u]
      BY <2>1, <2>s DEF ThreadOk, SectionOk
    <3>2. InSection(u)' => pos'[u] \in Cells /\ (pos'[u] # HEAD => View(u, pos[u], open)')
      BY <2>1, <2>2, <2>3, <2>s DEF ThreadOk, SectionOk
    <3>3. pc'[u] \in {"find", "copy", "link"} => pc'[u] = pc[u]  BY <1>17, <1>18
    <3> QED  BY <3>1, <3>2, <3>3, <2>1, <2>s DEF ThreadOk, SectionOk
  <2>7. WriterOk(u, rk2)'
    <3> SUFFICES ASSUME (pc[u] = "find" /\ call[u].op = "write") \/ pc[u] = "link", u # t, pc'[u] = pc[u]
                 PROVE WriterOk(u, rk2)'
      BY <2>1, <1>17, <1>18 DEF WriterOk
    <3>1. InSection(u)  BY DEF InSection
    <3>2. ASSUME NEW m \in OnList', did'[m] = call'[u].did PROVE Ahead(u, m, rk2)'
      <4>1. call[u].did \in Keys[u]  BY <2>s DEF ThreadOk, WriterOk
      <4>2. m # nw  BY <4>1, <3>2, <2>1, <1>w DEF OneWriter
      <4>3. m \in OnList /\ m \in Node  BY <4>2, <1>4, <1>6
      <4>4. Ahead(u, m, rank)  BY <4>3, <3>2, <2>1, <2>s DEF ThreadOk, WriterOk
      <4> QED  BY <4>2, <4>3, <4>4, <3>1, <2>4
    <3> QED  BY <3>2, <2>1, <2>s DEF ThreadOk, WriterOk
  <2>8. ListerOk(u, rk2, open)'
    <3> SUFFICES ASSUME pc[u] = "list", pc'[u] = pc[u] PROVE ListerOk(u, rk2, open)'
      BY <1>17, <1>18 DEF ListerOk
    <3>1. InSection(u)  BY DEF InSection
    <3>2. \A m \in Node : View(u, m, open)' /\ Ahead(u, m, rk2)' =>
             m # nw /\ View(u, m, open) /\ Ahead(u, m, rank) /\ rk2[m] = rank[m]
      BY <3>1, <2>2, <2>4, <1>8
    <3>3. ASSUME NEW e \in stayed'[u]
          PROVE e \in Told(u)' \/ \E m \in OnList' : did'[m] = e /\ Ahead(u, m, rk2)'
      <4>1. e \in Told(u) \/ \E m \in OnList : did[m] = e /\ Ahead(u, m, rank)
        BY <3>3, <2>s, <1>15 DEF ThreadOk, ListerOk
      <4>2. \A m \in OnList : m \in OnList' /\ (Ahead(u, m, rank) => Ahead(u, m, rk2)')
        BY <3>1, <2>4, <1>4, <1>6, <1>w
      <4> QED  BY <4>1, <4>2, <2>1, <2>5
    <3>4. \A m, k \in Node : /\ View(u, m, open)' /\ View(u, k, open)'
                             /\ Ahead(u, m, rk2)' /\ Ahead(u, k, rk2)' /\ did'[m] = did'[k]
                             => rk2[m] = rk2[k]
      BY <3>2, <2>1, <2>s DEF ThreadOk, ListerOk
    <3>5. \A m \in Node : View(u, m, open)' /\ Ahead(u, m, rk2)' => did'[m] \notin Told(u)'
      BY <3>2, <2>1, <2>5, <2>s DEF ThreadOk, ListerOk
    <3> QED  BY <3>3, <3>4, <3>5 DEF ListerOk
  <2>9. ToldOnce(u)'
    <3>1. pc'[u] # "list" => pc[u] # "list"  BY <1>0, <1>18
    <3> QED  BY <3>1, <2>1, <2>s DEF ThreadOk, ToldOnce
  <2>10. ReaderOk(u, rk2, open)'
    <3> SUFFICES ASSUME pc[u] \in {"find", "copy"}, call[u].op = "read", pc'[u] = pc[u]
                 PROVE ReaderOk(u, rk2, open)'
      BY <2>1, <1>17, <1>18 DEF ReaderOk
    <3>1. InSection(u) /\ call[u].did \in Did  BY <2>s DEF InSection, ThreadOk, SectionOk
    <3>2. ASSUME NEW m \in Node, View(u, m, open)', did'[m] = call'[u].did PROVE data'[m] \in seen'[u]
      <4>1. CASE m = nw
        <5>1. call[u].did = d  BY <4>1, <3>2, <2>1, <1>w
        <5>2. Stored(d)' \in seen'[u]  BY <5>1, <1>15
        <5> QED  BY <5>2, <4>1, <2>1, <1>13, <1>w
      <4>2. CASE m # nw
        <5>1. View(u, m, open)  BY <4>2, <3>2, <2>2
        <5> QED  BY <5>1, <3>2, <2>1, <2>s, <1>15 DEF ThreadOk, ReaderOk
      <4> QED  BY <4>1, <4>2
    <3>3. NULL \in seen'[u] \/ \E m \in OnList' : did'[m] = call'[u].did /\ (pc'[u] = "find" => Ahead(u, m, rk2)')
      <4>1. CASE NULL \in seen[u]  BY <4>1, <1>15
      <4>2. CASE \E m \in OnList : did[m] = call[u].did /\ (pc[u] = "find" => Ahead(u, m, rank))
        <5>1. \A m \in OnList : m \in OnList' /\ (Ahead(u, m, rank) => Ahead(u, m, rk2)')
          BY <3>1, <2>4, <1>4, <1>6, <1>w
        <5> QED  BY <4>2, <5>1, <2>1
      <4> QED  BY <4>1, <4>2, <2>s DEF ThreadOk, ReaderOk
    <3> QED  BY <3>2, <3>3 DEF ReaderOk
  <2> QED  BY <2>6, <2>7, <2>8, <2>9, <2>10 DEF ThreadOk
<1>22. IInv(rk2, top + 1, open)'  BY <1>7, <1>11, <1>16, <1>19, <1>20, <1>21 DEF IInv
<1>23. Sound'
  <2>1. top + 1 \in Nat  OBVIOUS
  <2> QED  BY <2>1, <1>8, <1>22 DEF Sound
<1> QED  BY <1>13, <1>14, <1>23
-----------------------------------------------------------------------------
(* The invariant *)

LEMMA SoundInit == Init => Sound
<1> SUFFICES ASSUME Init PROVE Sound  OBVIOUS
<1>a. NULL \notin Cells /\ NULL \notin Thread /\ HEAD \notin Node  BY HeadApart
<1>1. PICK rank \in Ranks : \A n \in Node : rank[n] = 0
  <2>1. [n \in Node |-> 0] \in Ranks  BY DEF Ranks
  <2> QED  BY <2>1
<1>2. PICK open \in Opens : \A n \in Node : open[n] = {}
  <2>1. [n \in Node |-> {}] \in Opens  BY DEF Opens
  <2> QED  BY <2>1
<1>3. /\ next \in [Cells -> Cells \cup {NULL}] /\ prev \in [Cells -> Cells \cup {NULL, POISON}]
      /\ next[HEAD] = HEAD /\ prev[HEAD] = HEAD /\ \A n \in Node : prev[n] = NULL
  BY <1>a DEF Init, Cells
<1>4. OnList = {}  BY <1>3, <1>a DEF OnList
<1>5. \A t \in Thread : pc[t] = "idle" /\ ids[t] = <<>>  BY DEF Init
<1>6. Shapes
  <2>1. ids \in [Thread -> Seq(Did)]
    <3>1. <<>> \in Seq(Did)  OBVIOUS
    <3> QED  BY <3>1 DEF Init
  <2>2. /\ did \in [Node -> Did \cup {NULL}] /\ data \in [Node -> Data \cup {NULL}]
        /\ waits \in [Node -> SUBSET Thread] /\ tmp \in [Thread -> Int]
        /\ alive \in SUBSET Node /\ retired \in SUBSET Node /\ lost \in SUBSET Node
        /\ size \in Int /\ lock \in Thread \cup {NULL}
    BY DEF Init
  <2>3. /\ pc \in [Thread -> Pcs] /\ call \in [Thread -> CallRecord \cup {NULL}]
        /\ pos \in [Thread -> Cells \cup {NULL}] /\ new \in [Thread -> Node \cup {NULL}]
        /\ got \in [Thread -> Data \cup {NULL}]
    BY DEF Init, Pcs
  <2>4. /\ seen \in [Thread -> SUBSET (Data \cup {NULL})]
        /\ stayed \in [Thread -> SUBSET Did]
    BY DEF Init
  <2>5. raced \in BOOLEAN  BY DEF Init
  <2> QED  BY <2>1, <2>2, <2>3, <2>4, <2>5, <1>3 DEF Shapes
<1>7. Places(open)  BY <1>2, <1>4, <1>5 DEF Init, Places, Loose, Prep, Cut
<1>8. Ring  BY <1>3, <1>4 DEF Ring
<1>9. Order(rank, 0, open)
  <2>1. \A n \in Node : ~Live(n, open)  BY <1>2, <1>4 DEF Live
  <2> QED  BY <2>1, <1>2, <1>4 DEF Order
<1>10. Sizes
  <2>1. Rising = {} /\ Falling = {}  BY <1>5 DEF Rising, Falling
  <2>2. IsFiniteSet({}) /\ Cardinality({}) = 0  BY FS_EmptySet
  <2>3. size = 0 /\ lock = NULL  BY DEF Init
  <2> QED  BY <2>1, <2>2, <2>3, <1>4, <1>5, <1>a DEF Sizes
<1>11. ASSUME NEW t \in Thread PROVE ThreadOk(t, rank, open)
  <2>1. SectionOk(t, open)  BY <1>2, <1>5 DEF SectionOk, InSection
  <2>2. WriterOk(t, rank)  BY <1>5 DEF WriterOk
  <2>3. ListerOk(t, rank, open)  BY <1>5 DEF ListerOk
  <2>4. ToldOnce(t)
    <3>1. DOMAIN <<>> = {}  OBVIOUS
    <3> QED  BY <3>1, <1>5 DEF ToldOnce
  <2>5. ReaderOk(t, rank, open)  BY <1>5 DEF ReaderOk
  <2> QED  BY <2>1, <2>2, <2>3, <2>4, <2>5 DEF ThreadOk
<1>12. IInv(rank, 0, open)  BY <1>6, <1>7, <1>8, <1>9, <1>10, <1>11 DEF IInv
<1> QED  BY <1>12 DEF Sound

\* The element a writer found is still in the list when it takes the lock: only
\* the one thread that writes the id takes it out.
LEMMA NoLinkFault ==
    ASSUME NEW rank \in Ranks, NEW top \in Nat, NEW open \in Opens, IInv(rank, top, open),
           NEW t \in Thread, WriteLink(t)
    PROVE ~LinkFault(t)
<1> SUFFICES ASSUME pos[t] # HEAD PROVE prev[pos[t]] # POISON  BY DEF LinkFault
<1>1. pc[t] = "link" /\ ThreadOk(t, rank, open)  BY DEF WriteLink, IInv
<1>2. pos[t] \in Node /\ View(t, pos[t], open)
  BY <1>1 DEF ThreadOk, SectionOk, InSection, Cells
<1>3. did[pos[t]] \in Keys[t]  BY <1>1 DEF ThreadOk, WriterOk
<1>4. pos[t] \in OnList  BY <1>1, <1>2, <1>3 DEF ThreadOk, SectionOk, View
<1> QED  BY <1>4, HeadApart DEF OnList

\* A link gives one id a new value, and leaves the others theirs.
LEMMA WriteLinkStep ==
    ASSUME OneWriter, Sound, NEW t \in Thread, WriteLink(t)
    PROVE Sound' /\ \E d \in Did, v \in Data :
             Stored(d)' = v /\ \A e \in Did \ {d} : Stored(e)' = Stored(e)
<1>1. PICK rank \in Ranks, top \in Nat, open \in Opens : IInv(rank, top, open)  BY DEF Sound
<1>2. LinkFirst(t) \/ LinkInPlace(t)  BY <1>1, NoLinkFault DEF WriteLink
<1>3. CASE LinkFirst(t)  BY <1>1, <1>3, LinkFirstStep
<1>4. CASE LinkInPlace(t)  BY <1>1, <1>4, LinkInPlaceStep
<1> QED  BY <1>2, <1>3, <1>4

LEMMA SoundStep ==
    ASSUME OneWriter, Sound, [Next]_vars
    PROVE Sound'
<1>1. PICK rank \in Ranks, top \in Nat, open \in Opens : IInv(rank, top, open)  BY DEF Sound
<1>2. ASSUME NEW t \in Thread, Step(t) PROVE Sound'
  <2>1. CASE FindNext(t)  BY <1>1, <2>1, FindNextStep
  <2>2. CASE WriteNoMemory(t)  BY <1>1, <2>2, WriteNoMemoryStep
  <2>3. CASE WriteCopyFails(t)  BY <1>1, <2>3, WriteCopyFailsStep
  <2>4. CASE WritePrepare(t)  BY <1>1, <2>4, WritePrepareStep
  <2>5. CASE WriteLink(t)  BY <2>5, WriteLinkStep
  <2>6. CASE WriteCount(t)  BY <1>1, <2>6, WriteCountStep
  <2>7. CASE WriteRetire(t)  BY <1>1, <2>7, WriteRetireStep
  <2>8. CASE RemoveLoadSize(t)  BY <1>1, <2>8, RemoveLoadSizeStep
  <2>9. CASE RemoveRetire(t)  BY <1>1, <2>9, RemoveRetireStep
  <2>10. CASE ReadFound(t)  BY <1>1, <2>10, ReadFoundStep
  <2>11. CASE ReadAbsent(t)  BY <1>1, <2>11, ReadAbsentStep
  <2>12. CASE ReadCopy(t)  BY <1>1, <2>12, ReadCopyStep
  <2>13. CASE ListNext(t)  BY <1>1, <2>13, ListNextStep
  <2>14. CASE ListEnd(t)  BY <1>1, <2>14, ListEndStep
  <2> QED  BY <1>2, <2>1, <2>2, <2>3, <2>4, <2>5, <2>6, <2>7, <2>8, <2>9, <2>10, <2>11, <2>12,
              <2>13, <2>14 DEF Step
<1>3. ASSUME NEW t \in Thread, ListBegin(t) PROVE Sound'  BY <1>1, <1>3, ListBeginStep
<1>4. ASSUME NEW t \in Thread, NEW d \in Did, ReadBegin(t, d) PROVE Sound'
  BY <1>1, <1>4, ReadBeginStep
<1>5. ASSUME NEW t \in Thread, NEW d \in Did, RemoveAbsent(t, d) PROVE Sound'
  BY <1>5, RemoveAbsentStep
<1>6. ASSUME NEW t \in Thread, NEW d \in Did, RemoveUnlink(t, d) PROVE Sound'
  BY <1>1, <1>6, RemoveUnlinkStep
<1>7. ASSUME NEW t \in Thread, NEW d \in Did, NEW v \in Data, WriteBegin(t, d, v) PROVE Sound'
  BY <1>1, <1>7, WriteBeginStep
<1>8. ASSUME NEW n \in Node, Reclaim(n) PROVE Sound'  BY <1>1, <1>8, ReclaimStep
<1>9. CASE UNCHANGED vars  BY <1>9, StillStep DEF vars
<1> QED  BY <1>2, <1>3, <1>4, <1>5, <1>6, <1>7, <1>8, <1>9 DEF Next

LEMMA SoundAlways == ASSUME OneWriter PROVE Spec => []Sound
<1>1. Sound /\ [Next]_vars => Sound'  BY SoundStep
<1> QED  BY <1>1, SoundInit, PTL DEF Spec
-----------------------------------------------------------------------------
(* What it gives *)

LEMMA SoundIsKept == Sound => ElementsAreKept
<1> SUFFICES ASSUME Sound PROVE ElementsAreKept  OBVIOUS
<1>1. PICK rank \in Ranks, top \in Nat, open \in Opens : IInv(rank, top, open)  BY DEF Sound
<1>2. Shapes /\ Places(open) /\ Sizes /\ Linked = OnList  BY <1>1, HeldNow DEF IInv
<1>3. NothingFreedInUse
  <2>1. ASSUME NEW t \in Thread, InSection(t), pos[t] # HEAD PROVE pos[t] \in alive
    <3>1. pos[t] \in Node /\ View(t, pos[t], open)
      BY <1>1, <2>1 DEF IInv, ThreadOk, SectionOk, Cells
    <3>2. Live(pos[t], open)  BY <3>1 DEF View, Live
    <3> QED  BY <3>1, <3>2, <1>2, LiveIsAlive
  <2>2. \A t \in Thread : pc[t] # "fault"  BY <1>2 DEF Shapes, Pcs
  <2>3. OnList \subseteq alive /\ retired \subseteq alive /\ lost \subseteq alive
    BY <1>2 DEF Places
  <2> DEFINE made == {new[t] : t \in {u \in Thread : pc[u] = "link"}}
             cut == {pos[t] : t \in {u \in Thread : pc[u] \in {"retire", "unlinked", "size"}}}
  <2>4. made \subseteq Loose /\ cut \subseteq Loose  BY <1>2 DEF Places, Prep, Cut
  <2>5. ASSUME NEW n \in Loose PROVE n \in made \cup cut
    <3>1. PICK t \in Thread : (Prep(t) /\ new[t] = n) \/ (Cut(t) /\ pos[t] = n)
      BY <1>2 DEF Places
    <3> QED  BY <3>1 DEF Prep, Cut
  <2>6. Loose \subseteq alive /\ alive \subseteq Loose \cup OnList \cup retired \cup lost
    BY DEF Loose
  <2> HIDE DEF made, cut
  <2>7. alive = OnList \cup retired \cup lost \cup made \cup cut  BY <2>3, <2>4, <2>5, <2>6
  <2> QED  BY <1>2, <2>1, <2>2, <2>3, <2>7 DEF NothingFreedInUse, made, cut
<1>4. SizeIsLength
  <2> SUFFICES ASSUME ~raced, \A t \in Thread : pc[t] \notin {"count", "unlinked", "size"}
               PROVE size = Cardinality(OnList)
    BY <1>2 DEF SizeIsLength
  <2>1. Rising = {} /\ Falling = {}  BY DEF Rising, Falling
  <2>2. Cardinality({}) = 0  BY FS_EmptySet
  <2>3. Cardinality(OnList) \in Nat
    <3>1. IsFiniteSet(Node) /\ OnList \in SUBSET Node  BY NodesAreFinite DEF OnList
    <3> QED  BY <3>1, FS_Subset, FS_CardinalityType
  <2> QED  BY <1>2, <2>1, <2>2, <2>3 DEF Sizes, Shapes
<1>5. ListIsComplete
  <2> SUFFICES ASSUME NEW t \in Thread
               PROVE /\ pc[t] = "list" /\ pos[t] = HEAD => stayed[t] \subseteq Told(t)
                     /\ \A i, j \in DOMAIN ids[t] : ids[t][i] = ids[t][j] => i = j
    BY DEF ListIsComplete, Told
  <2> QED  BY <1>1 DEF IInv, ThreadOk, ListerOk, ToldOnce, Ahead
<1> QED  BY <1>3, <1>4, <1>5 DEF ElementsAreKept

\* Nothing that a reader, a writer or the list stands on is freed, the size
\* counts the elements, and a list tells every id that stayed, once: through
\* every interleaving of write_kstorage, remove_kstorage, read_kstorage,
\* list_kstorage_ids and reclaim_callback, when each id has one writer.
THEOREM ElementsKept == ASSUME OneWriter PROVE Spec => []ElementsAreKept
<1> QED  BY SoundAlways, SoundIsKept, PTL

\* Whoever removes an id finds nothing left of it: the one element it unlinks
\* (remove_kstorage) was all the list had.
THEOREM RemovedGone == ASSUME OneWriter PROVE Spec => RemovedIsGone
<1>1. ASSUME Sound, [Next]_vars, NEW t \in Thread, pc[t] = "idle", pc'[t] = "unlinked",
             NEW d \in Did, call'[t].did = d
      PROVE Stored(d)' = NULL
  <2>1. PICK rank \in Ranks, top \in Nat, open \in Opens : IInv(rank, top, open)
    BY <1>1 DEF Sound
  <2>2. pc \in [Thread -> Pcs] /\ call \in [Thread -> CallRecord \cup {NULL}]
    BY <2>1 DEF IInv, Shapes
  <2>3. ASSUME NEW u \in Thread, Step(u) PROVE FALSE
    <3>1. pc[u] # "idle" /\ pc'[u] # "unlinked" /\ \A w \in Thread \ {u} : pc'[w] = pc[w]
      BY <2>2, <2>3 DEF Step, FindNext, WriteNoMemory, WriteCopyFails, WritePrepare, WriteLink,
         WriteCount, WriteRetire, RemoveLoadSize, RemoveRetire, ReadFound, ReadAbsent, ReadCopy,
         ListNext, ListEnd, LookupDone, LinkFirst, LinkInPlace, LinkFault, Return, ReadReturn, Goto
    <3> QED  BY <3>1, <1>1
  <2>4. ASSUME NEW u \in Thread, NEW e \in Did, NEW v \in Data,
               ListBegin(u) \/ ReadBegin(u, e) \/ RemoveAbsent(u, e) \/ WriteBegin(u, e, v)
        PROVE FALSE
    BY <1>1, <2>2, <2>4 DEF ListBegin, ReadBegin, RemoveAbsent, WriteBegin, Enter, Goto, local
  <2>5. ASSUME NEW u \in Thread, NEW e \in Did, RemoveUnlink(u, e) PROVE Stored(d)' = NULL
    <3>1. u = t /\ d = e
      <4>1. /\ pc' = [pc EXCEPT ![u] = "unlinked"]
            /\ call' = [call EXCEPT ![u] = [op |-> "remove", did |-> e, data |-> NULL]]
        BY <2>5 DEF RemoveUnlink, Goto
      <4> QED  BY <1>1, <2>2, <4>1
    <3>2. Stored(e)' = NULL  BY <1>1, <2>1, <2>5, RemoveUnlinkStep
    <3> QED  BY <3>1, <3>2
  <2>6. ASSUME NEW n \in Node, Reclaim(n) PROVE FALSE  BY <1>1, <2>6 DEF Reclaim, local
  <2>7. CASE UNCHANGED vars  BY <1>1, <2>7 DEF vars, local
  <2>9. CASE \E u \in Thread, e \in Did : ListBegin(u) \/ ReadBegin(u, e) \/ RemoveAbsent(u, e)
    BY <1>1, <2>2, <2>9 DEF ListBegin, ReadBegin, RemoveAbsent, Enter, Goto, local
  <2> QED  BY <1>1, <2>3, <2>4, <2>5, <2>6, <2>7, <2>9 DEF Next
<1>2. Sound /\ [Next]_vars =>
        \A t \in Thread : (pc[t] = "idle" /\ pc'[t] = "unlinked")
           => \A d \in Did : call'[t].did = d => Stored(d)' = NULL
  BY <1>1
<1> QED  BY <1>2, SoundAlways, PTL DEF Spec, RemovedIsGone
-----------------------------------------------------------------------------
(* The group is a map *)

Reads(t) == pc[t] \in {"find", "copy"} /\ call[t].op = "read"
Store == [d \in Did |-> Stored(d)]
Asks == [t \in Thread |-> IF pc[t] \in {"find", "copy"} /\ call[t].op = "read" THEN call[t].did ELSE NULL]

\* What a step of the map is, said with what the group has.
Becomes(d, v) ==
    /\ Store' = [Store EXCEPT ![d] = v]
    /\ seen' = [t \in Thread |-> IF Asks[t] = d THEN seen[t] \cup {v} ELSE seen[t]]
    /\ UNCHANGED <<Asks, got>>

MapMove ==
    \/ \E d \in Did : Becomes(d, NULL) \/ \E v \in Data : v # NULL /\ Becomes(d, v)
    \/ \E t \in Thread :
          \/ /\ Asks[t] # NULL
             /\ \E v \in seen[t] : got' = [got EXCEPT ![t] = v]
             /\ Asks' = [Asks EXCEPT ![t] = NULL]
             /\ seen' = [seen EXCEPT ![t] = {}]
             /\ UNCHANGED Store
          \/ \E d \in Did : /\ Asks[t] = NULL
                            /\ Asks' = [Asks EXCEPT ![t] = d]
                            /\ seen' = [seen EXCEPT ![t] = {Store[d]}]
                            /\ UNCHANGED <<Store, got>>
    \/ UNCHANGED <<Store, Asks, seen, got>>

LEMMA MovesAreTheMaps == MapMove => [Map!MapNext]_(Map!mapVars)
BY DEF MapMove, Becomes, Store, Asks, Map!MapNext, Map!mapVars, Map!Drop, Map!Put, Map!Become,
       Map!Answer, Map!Ask

LEMMA SoundHeld == Sound => Held /\ \A d \in Did : Stored(d) \in Data \cup {NULL}
BY HeldNow DEF Sound

LEMMA StoredStays ==
    ASSUME Held, Held', OnList' = OnList, \A n \in OnList : did'[n] = did[n] /\ data'[n] = data[n]
    PROVE UNCHANGED Store
<1> SUFFICES ASSUME NEW d \in Did PROVE Stored(d)' = Stored(d)  BY DEF Store
<1>1. CASE First(d) \in OnList
  <2>1. PICK m \in OnList : did[m] = d  BY <1>1 DEF Held
  <2>2. m \in OnList' /\ did'[m] = d /\ data'[m] = data[m]  BY <2>1
  <2>3. Stored(d) = data[m]  BY <2>1 DEF Held
  <2>4. Stored(d)' = data'[m]  BY <2>2 DEF Held
  <2> QED  BY <2>2, <2>3, <2>4
<1>2. CASE First(d) = HEAD
  <2>1. Stored(d) = NULL /\ \A m \in OnList : did[m] # d  BY <1>2 DEF Held
  <2>2. \A m \in OnList' : did'[m] # d  BY <2>1
  <2>3. First(d)' = HEAD
    <3>1. First(d)' \in OnList' \cup {HEAD} /\ (First(d)' \in OnList' => did'[First(d)'] = d)
      BY DEF Held
    <3> QED  BY <3>1, <2>2
  <2>4. Stored(d)' = NULL  BY <2>3 DEF Held
  <2> QED  BY <2>1, <2>4
<1> QED  BY <1>1, <1>2 DEF Held

\* A reader has seen what its id holds now.
LEMMA ReaderHasSeen ==
    ASSUME Sound, NEW t \in Thread, Reads(t)
    PROVE call[t].did \in Did /\ Stored(call[t].did) \in seen[t]
<1>1. PICK rank \in Ranks, top \in Nat, open \in Opens : IInv(rank, top, open)  BY DEF Sound
<1>2. ThreadOk(t, rank, open) /\ Held  BY <1>1, HeldNow DEF IInv
<1>3. PICK d \in Did : d = call[t].did  BY <1>2 DEF ThreadOk, SectionOk, Reads
<1>4. CASE \E m \in OnList : did[m] = d
  <2>1. PICK m \in OnList : did[m] = d  BY <1>4
  <2>2. m \in Node /\ View(t, m, open)  BY DEF OnList, View
  <2>3. data[m] \in seen[t]  BY <1>2, <1>3, <2>1, <2>2 DEF ThreadOk, ReaderOk, Reads
  <2>4. Stored(d) = data[m]  BY <1>2, <2>1 DEF Held
  <2> QED  BY <1>3, <2>3, <2>4
<1>5. CASE ~ \E m \in OnList : did[m] = d
  <2>1. NULL \in seen[t]  BY <1>2, <1>3, <1>5 DEF ThreadOk, ReaderOk, Reads
  <2>2. Stored(d) = NULL  BY <1>2, <1>5 DEF Held
  <2> QED  BY <1>3, <2>1, <2>2
<1> QED  BY <1>4, <1>5

\* A change of one id is the map's, whoever reads meanwhile.
LEMMA ChangeIsBecomes ==
    ASSUME Sound, Sound', Observe, UNCHANGED got,
           NEW d \in Did, NEW v \in Data \cup {NULL},
           Stored(d)' = v, \A e \in Did \ {d} : Stored(e)' = Stored(e),
           \A t \in Thread : (Reads(t)' <=> Reads(t)) /\ (Reads(t) => call'[t] = call[t])
    PROVE Becomes(d, v)
<1>1. Store' = [Store EXCEPT ![d] = v]
  <2> DEFINE new1 == [Store EXCEPT ![d] = v]
  <2>1. \A e \in Did : new1[e] = IF e = d THEN v ELSE Stored(e)  BY DEF Store
  <2>2. \A e \in Did : Stored(e)' = IF e = d THEN v ELSE Stored(e)  OBVIOUS
  <2>3. Store' = [e \in Did |-> Stored(e)']  BY DEF Store
  <2>4. new1 = [e \in Did |-> new1[e]]  BY DEF Store
  <2> HIDE DEF new1
  <2>5. Store' = new1  BY <2>1, <2>2, <2>3, <2>4
  <2> QED  BY <2>5 DEF new1
<1>2. UNCHANGED Asks
  <2>1. Asks = [t \in Thread |-> IF Reads(t) THEN call[t].did ELSE NULL]  BY DEF Asks, Reads
  <2>2. Asks' = [t \in Thread |-> IF Reads(t)' THEN call'[t].did ELSE NULL]  BY DEF Asks, Reads
  <2> QED  BY <2>1, <2>2
<1>3. \A t \in Thread : Asks[t] = IF Reads(t) THEN call[t].did ELSE NULL  BY DEF Asks, Reads
<1>4. NULL \notin Did  BY HeadApart
<1>5. seen' = [t \in Thread |-> IF Asks[t] = d THEN seen[t] \cup {v} ELSE seen[t]]
  <2>1. seen' = [t \in Thread |-> IF Reads(t) THEN seen[t] \cup {Stored(e)' : e \in {call[t].did}}
                                  ELSE seen[t]]
    BY DEF Observe, Reads
  <2>2. ASSUME NEW t \in Thread
        PROVE (IF Reads(t) THEN seen[t] \cup {Stored(e)' : e \in {call[t].did}} ELSE seen[t])
              = (IF Asks[t] = d THEN seen[t] \cup {v} ELSE seen[t])
    <3>1. CASE ~Reads(t)  BY <3>1, <1>3, <1>4
    <3>2. CASE Reads(t)
      <4>1. PICK f \in Did : f = call[t].did /\ Stored(f) \in seen[t]  BY <3>2, ReaderHasSeen
      <4>2. {Stored(e)' : e \in {call[t].did}} = {Stored(f)'}  BY <4>1
      <4>3. Asks[t] = f  BY <1>3, <3>2, <4>1
      <4>4. CASE f = d
        <5>1. Stored(f)' = v  BY <4>4
        <5> QED  BY <5>1, <4>2, <4>3, <4>4, <3>2
      <4>5. CASE f # d
        <5>1. Stored(f)' = Stored(f)  BY <4>5
        <5>2. seen[t] \cup {Stored(f)'} = seen[t]  BY <5>1, <4>1
        <5> QED  BY <5>2, <4>2, <4>3, <4>5, <3>2
      <4> QED  BY <4>4, <4>5
    <3> QED  BY <3>1, <3>2
  <2> QED  BY <2>1, <2>2
<1> QED  BY <1>1, <1>2, <1>5 DEF Becomes

LEMMA MapInitially == Init => Map!MapInit
<1> SUFFICES ASSUME Init PROVE Map!MapInit  OBVIOUS
<1>1. Sound  BY SoundInit
<1>2. OnList = {}
  <2>1. \A n \in Node : prev[n] = NULL
    <3>1. HEAD \notin Node  BY HeadApart
    <3> QED  BY <3>1 DEF Init
  <2> QED  BY <2>1, HeadApart DEF OnList
<1>3. \A d \in Did : Stored(d) = NULL  BY <1>1, <1>2, SoundHeld DEF Held
<1>4. \A t \in Thread : ~(pc[t] \in {"find", "copy"})  BY DEF Init
<1>5. /\ seen = [t \in Thread |-> {}] /\ got = [t \in Thread |-> NULL]  BY DEF Init
<1> QED  BY <1>3, <1>4, <1>5 DEF Map!MapInit

\* The steps that leave the map as it is.
LEMMA StepIsStill ==
    ASSUME Sound, Sound', NEW t \in Thread, Step(t),
           ~WriteLink(t), ~ReadAbsent(t), ~ReadCopy(t)
    PROVE UNCHANGED <<Store, Asks, seen, got>>
<1>1. PICK rank \in Ranks, top \in Nat, open \in Opens : IInv(rank, top, open)  BY DEF Sound
<1>s. Shapes /\ Places(open) /\ SectionOk(t, open)  BY <1>1 DEF IInv, ThreadOk
<1>h. Held /\ Held'  BY SoundHeld, PTL
<1>2. UNCHANGED <<seen, got>>
  BY DEF Step, FindNext, WriteNoMemory, WriteCopyFails, WritePrepare, WriteCount, WriteRetire,
     RemoveLoadSize, RemoveRetire, ReadFound, ListNext, ListEnd, SetSize, hist
<1>3. UNCHANGED Asks
  <2>1. ASSUME NEW u \in Thread
        PROVE (Reads(u)' <=> Reads(u)) /\ (Reads(u) => call'[u] = call[u])
    <3>1. CASE u # t
      <4>1. pc'[u] = pc[u] /\ call'[u] = call[u]
        BY <1>s, <3>1 DEF Step, FindNext, WriteNoMemory, WriteCopyFails, WritePrepare, WriteCount,
           WriteRetire, RemoveLoadSize, RemoveRetire, ReadFound, ListNext, ListEnd, Return, Goto, Shapes
      <4> QED  BY <4>1 DEF Reads
    <3>2. CASE FindNext(t) \/ ReadFound(t)
      BY <3>1, <3>2, <1>s DEF FindNext, ReadFound, LookupDone, Goto, Shapes, Reads
    <3>3. CASE WriteNoMemory(t) \/ WriteCopyFails(t) \/ WritePrepare(t)
      BY <3>1, <3>3, <1>s DEF WriteNoMemory, WriteCopyFails, WritePrepare, LookupDone, Return,
         Goto, Shapes, Reads
    <3>4. CASE WriteCount(t) \/ WriteRetire(t) \/ RemoveLoadSize(t) \/ RemoveRetire(t)
      BY <3>1, <3>4, <1>s DEF WriteCount, WriteRetire, RemoveLoadSize, RemoveRetire, Return,
         Goto, Shapes, Reads
    <3>5. CASE ListNext(t) \/ ListEnd(t)
      BY <3>1, <3>5, <1>s DEF ListNext, ListEnd, Return, Goto, Shapes, Reads
    <3> QED  BY <3>1, <3>2, <3>3, <3>4, <3>5 DEF Step
  <2>2. Asks = [u \in Thread |-> IF Reads(u) THEN call[u].did ELSE NULL]  BY DEF Asks, Reads
  <2>3. Asks' = [u \in Thread |-> IF Reads(u)' THEN call'[u].did ELSE NULL]  BY DEF Asks, Reads
  <2> QED  BY <2>1, <2>2, <2>3
<1>4. OnList' = OnList /\ \A n \in OnList : did'[n] = did[n] /\ data'[n] = data[n]
  <2>1. CASE WriteCopyFails(t) \/ WritePrepare(t)
    <3>1. /\ prev' = prev
          /\ \A n \in alive : did'[n] = did[n] /\ data'[n] = data[n]
      BY <2>1, <1>s DEF WriteCopyFails, WritePrepare, Fill, Shapes
    <3> QED  BY <3>1, <1>s DEF OnList, Places
  <2>2. CASE UNCHANGED heap  BY <2>2 DEF heap, OnList
  <2> QED  BY <2>1, <2>2 DEF Step, FindNext, WriteNoMemory, WriteCount, WriteRetire,
              RemoveLoadSize, RemoveRetire, ReadFound, ListNext, ListEnd
<1>5. UNCHANGED Store  BY <1>4, <1>h, StoredStays
<1> QED  BY <1>2, <1>3, <1>5

LEMMA AskIs == \A t \in Thread : Asks[t] = IF Reads(t) THEN call[t].did ELSE NULL
BY DEF Asks, Reads

\* A read answers with what its id held.
LEMMA AnswerIsTheMaps ==
    ASSUME Sound, Sound', NEW t \in Thread, ReadAbsent(t) \/ ReadCopy(t)
    PROVE MapMove
<1>1. PICK rank \in Ranks, top \in Nat, open \in Opens : IInv(rank, top, open)  BY DEF Sound
<1>s. Shapes /\ SectionOk(t, open)  BY <1>1 DEF IInv, ThreadOk
<1>h. Held /\ Held'  BY SoundHeld, PTL
<1>2. PICK v \in seen[t] : ReadReturn(t, v)  BY <1>1, ReadAnswers DEF ReadAbsent, ReadCopy
<1>3. Reads(t)  BY <1>s DEF ReadAbsent, ReadCopy, LookupDone, Reads, SectionOk
<1>4. /\ got' = [got EXCEPT ![t] = v] /\ seen' = [seen EXCEPT ![t] = {}]
      /\ pc' = [pc EXCEPT ![t] = "idle"] /\ call' = [call EXCEPT ![t] = NULL]
      /\ UNCHANGED heap
  BY <1>2 DEF ReadReturn, Return, Goto
<1>5. Asks' = [Asks EXCEPT ![t] = NULL]
  <2>1. \A u \in Thread : IF u = t THEN ~Reads(u)'
                          ELSE (Reads(u)' <=> Reads(u)) /\ call'[u] = call[u]
    BY <1>4, <1>s DEF Reads, Shapes
  <2>2. Asks = [u \in Thread |-> IF Reads(u) THEN call[u].did ELSE NULL]  BY DEF Asks, Reads
  <2>3. Asks' = [u \in Thread |-> IF Reads(u)' THEN call'[u].did ELSE NULL]  BY DEF Asks, Reads
  <2>4. [Asks EXCEPT ![t] = NULL] = [u \in Thread |-> IF u = t THEN NULL ELSE Asks[u]]
    BY <2>2
  <2>5. \A u \in Thread : (IF Reads(u)' THEN call'[u].did ELSE NULL) = (IF u = t THEN NULL ELSE Asks[u])
    BY <2>1, AskIs
  <2> QED  BY <2>3, <2>4, <2>5
<1>6. UNCHANGED Store  BY <1>4, <1>h, StoredStays DEF heap, OnList
<1>7. Asks[t] # NULL  BY <1>3, AskIs, ReaderHasSeen, HeadApart
<1> QED  BY <1>4, <1>5, <1>6, <1>7 DEF MapMove

LEMMA AskIsTheMaps ==
    ASSUME Sound, Sound', NEW t \in Thread, NEW d \in Did, ReadBegin(t, d)
    PROVE MapMove
<1>1. PICK rank \in Ranks, top \in Nat, open \in Opens : IInv(rank, top, open)  BY DEF Sound
<1>s. Shapes  BY <1>1 DEF IInv
<1>h. Held /\ Held'  BY SoundHeld, PTL
<1>2. /\ pc[t] = "idle" /\ pc' = [pc EXCEPT ![t] = "find"]
      /\ call' = [call EXCEPT ![t] = [op |-> "read", did |-> d, data |-> NULL]]
      /\ seen' = [seen EXCEPT ![t] = {Stored(d)}]
      /\ UNCHANGED heap /\ UNCHANGED got
  BY DEF ReadBegin, Enter, Goto
<1>3. ~Reads(t) /\ Reads(t)' /\ call'[t].did = d  BY <1>2, <1>s DEF Reads, Shapes
<1>4. \A u \in Thread \ {t} : (Reads(u)' <=> Reads(u)) /\ call'[u] = call[u]
  BY <1>2, <1>s DEF Reads, Shapes
<1>5. Asks' = [Asks EXCEPT ![t] = d]
  <2>2. Asks = [u \in Thread |-> IF Reads(u) THEN call[u].did ELSE NULL]  BY DEF Asks, Reads
  <2>3. Asks' = [u \in Thread |-> IF Reads(u)' THEN call'[u].did ELSE NULL]  BY DEF Asks, Reads
  <2>4. [Asks EXCEPT ![t] = d] = [u \in Thread |-> IF u = t THEN d ELSE Asks[u]]
    BY <2>2
  <2>5. \A u \in Thread : (IF Reads(u)' THEN call'[u].did ELSE NULL) = (IF u = t THEN d ELSE Asks[u])
    BY <1>3, <1>4, AskIs
  <2> QED  BY <2>3, <2>4, <2>5
<1>6. UNCHANGED Store  BY <1>2, <1>h, StoredStays DEF heap, OnList
<1>7. Asks[t] = NULL /\ Store[d] = Stored(d)  BY <1>3, AskIs DEF Store
<1> QED  BY <1>2, <1>5, <1>6, <1>7 DEF MapMove

LEMMA MapSteps ==
    ASSUME OneWriter, Sound, Sound', [Next]_vars
    PROVE MapMove
<1>1. PICK rank \in Ranks, top \in Nat, open \in Opens : IInv(rank, top, open)  BY DEF Sound
<1>s. Shapes /\ Places(open)  BY <1>1 DEF IInv
<1>h. Held /\ Held'  BY SoundHeld, PTL
<1>n. NULL \notin Data  BY HeadApart
<1>2. ASSUME NEW t \in Thread, WriteLink(t) PROVE MapMove
  <2>1. PICK d \in Did, v \in Data : Stored(d)' = v /\ \A e \in Did \ {d} : Stored(e)' = Stored(e)
    BY <1>2, WriteLinkStep
  <2>2. /\ pc[t] = "link" /\ pc'[t] \in {"count", "retire", "fault"} /\ call' = call
        /\ \A u \in Thread \ {t} : pc'[u] = pc[u]
        /\ Observe /\ UNCHANGED got
    BY <1>2, <1>s DEF WriteLink, LinkFirst, LinkInPlace, LinkFault, Goto, Shapes
  <2>3. \A u \in Thread : (Reads(u)' <=> Reads(u)) /\ (Reads(u) => call'[u] = call[u])
    BY <2>2 DEF Reads
  <2>4. Becomes(d, v)  BY <2>1, <2>2, <2>3, ChangeIsBecomes
  <2> QED  BY <2>4, <1>n DEF MapMove
<1>3. ASSUME NEW t \in Thread, NEW d \in Did, RemoveUnlink(t, d) PROVE MapMove
  <2>1. Stored(d)' = NULL /\ \A e \in Did \ {d} : Stored(e)' = Stored(e)
    BY <1>1, <1>3, RemoveUnlinkStep
  <2>2. /\ pc[t] = "idle" /\ pc'[t] = "unlinked"
        /\ \A u \in Thread \ {t} : pc'[u] = pc[u] /\ call'[u] = call[u]
        /\ Observe /\ UNCHANGED got
    BY <1>3, <1>s DEF RemoveUnlink, RemoveCalled, Goto, Shapes
  <2>3. \A u \in Thread : (Reads(u)' <=> Reads(u)) /\ (Reads(u) => call'[u] = call[u])
    BY <2>2 DEF Reads
  <2>4. Becomes(d, NULL)  BY <2>1, <2>2, <2>3, ChangeIsBecomes
  <2> QED  BY <2>4 DEF MapMove
<1>4. ASSUME NEW t \in Thread, Step(t) PROVE MapMove
  <2>1. CASE WriteLink(t)  BY <1>2, <2>1
  <2>2. CASE ReadAbsent(t) \/ ReadCopy(t)  BY <2>2, AnswerIsTheMaps
  <2>3. CASE ~WriteLink(t) /\ ~ReadAbsent(t) /\ ~ReadCopy(t)
    BY <1>4, <2>3, StepIsStill DEF MapMove
  <2> QED  BY <2>1, <2>2, <2>3
<1>5. ASSUME NEW t \in Thread, NEW d \in Did, ReadBegin(t, d) PROVE MapMove  BY <1>5, AskIsTheMaps
<1>6. ASSUME NEW t \in Thread,
             ListBegin(t) \/ \E d \in Did, v \in Data : WriteBegin(t, d, v)
      PROVE MapMove
  <2>1. /\ pc[t] = "idle" /\ UNCHANGED <<heap, seen, got>>
        /\ pc' = [pc EXCEPT ![t] = "find"] \/ pc' = [pc EXCEPT ![t] = "list"]
        /\ \E c : call' = [call EXCEPT ![t] = c] /\ c.op # "read"
    <3>1. CASE ListBegin(t)
      <4>1. [op |-> "list", did |-> NULL, data |-> NULL].op # "read"  OBVIOUS
      <4> QED  BY <3>1, <4>1, Zenon DEF ListBegin, Enter, Goto
    <3>2. ASSUME NEW d \in Did, NEW v \in Data, WriteBegin(t, d, v)
          PROVE /\ pc[t] = "idle" /\ UNCHANGED <<heap, seen, got>>
                /\ pc' = [pc EXCEPT ![t] = "find"] \/ pc' = [pc EXCEPT ![t] = "list"]
                /\ \E c : call' = [call EXCEPT ![t] = c] /\ c.op # "read"
      <4>1. [op |-> "write", did |-> d, data |-> v].op # "read"  OBVIOUS
      <4>2. UNCHANGED <<heap, seen, got>>  BY <3>2 DEF WriteBegin, hist
      <4> QED  BY <3>2, <4>1, <4>2, Zenon DEF WriteBegin, Enter, Goto
    <3> QED  BY <1>6, <3>1, <3>2
  <2>2. ~Reads(t) /\ ~Reads(t)'  BY <2>1, <1>s DEF Reads, Shapes
  <2>3. \A u \in Thread \ {t} : (Reads(u)' <=> Reads(u)) /\ call'[u] = call[u]
    BY <2>1, <1>s DEF Reads, Shapes
  <2>4. UNCHANGED Asks  BY <2>2, <2>3 DEF Asks, Reads
  <2>5. UNCHANGED Store  BY <2>1, <1>h, StoredStays DEF heap, OnList
  <2> QED  BY <2>1, <2>4, <2>5 DEF MapMove
<1>7. ASSUME UNCHANGED <<heap, size, lock, rcu, local, hist>> PROVE MapMove
  <2>1. UNCHANGED Store  BY <1>7, <1>h, StoredStays DEF heap, OnList
  <2>2. UNCHANGED <<Asks, seen, got>>  BY <1>7 DEF local, hist, Asks
  <2> QED  BY <2>1, <2>2 DEF MapMove
<1>8. ASSUME NEW n \in Node, Reclaim(n) PROVE MapMove
  <2>1. /\ n \in retired /\ UNCHANGED <<local, hist>>
        /\ prev' = [prev EXCEPT ![n] = NULL]
        /\ did' = [did EXCEPT ![n] = NULL] /\ data' = [data EXCEPT ![n] = NULL]
    BY <1>8 DEF Reclaim
  <2>2. n \notin OnList /\ NULL \notin Cells  BY <2>1, <1>s, HeadApart DEF Places
  <2>3. OnList' = OnList /\ \A m \in OnList : did'[m] = did[m] /\ data'[m] = data[m]
    <3>1. \A m \in Node : prev'[m] = IF m = n THEN NULL ELSE prev[m]
      BY <2>1, <1>s DEF Shapes, Cells
    <3>2. OnList' = OnList  BY <2>2, <3>1 DEF OnList, Cells
    <3>3. \A m \in OnList : m \in Node /\ m # n  BY <2>2 DEF OnList
    <3> QED  BY <3>2, <3>3, <2>1, <1>s DEF Shapes
  <2>4. UNCHANGED Store  BY <2>3, <1>h, StoredStays
  <2>5. UNCHANGED <<Asks, seen, got>>  BY <2>1 DEF local, hist, Asks
  <2> QED  BY <2>4, <2>5 DEF MapMove
<1>9. ASSUME NEW t \in Thread, NEW d \in Did, RemoveAbsent(t, d) PROVE MapMove
  BY <1>7, <1>9 DEF RemoveAbsent
<1>10. CASE UNCHANGED vars  BY <1>7, <1>10 DEF vars
<1> QED  BY <1>3, <1>4, <1>5, <1>6, <1>8, <1>9, <1>10 DEF Next

\* The group is a map whose changes are atomic: writes and removes happen at the
\* link and the unlink under the lock, and a read, which takes no lock, is told
\* what its id held at some moment of the call (kstorage.c against StorageMap).
THEOREM StorageIsAMap == ASSUME OneWriter PROVE Spec => IsAMap
<1>1. Sound /\ Sound' /\ [Next]_vars => [Map!MapNext]_(Map!mapVars)
  BY MapSteps, MovesAreTheMaps
<1> QED  BY <1>1, MapInitially, SoundAlways, PTL DEF Spec, IsAMap, Map!MapSpec
=============================================================================
