----------------------------- MODULE Allocator -----------------------------
(* What a caller of kernel/base/tlsf.c may rely on, whatever the heap looks *)
(* like inside: a live region lies in the memory the heap was given, meets  *)
(* no other live region, is as long and as aligned as asked, and what its  *)
(* owner wrote there stays until the owner gives the region up.             *)
EXTENDS Integers, FiniteSets

CONSTANTS Owners   \* the callers, one region each

VARIABLES live,    \* [owners with a region -> [at, len, align, wrote]]
          given    \* the words the heap was given

avars == <<live, given>>

Words(r) == r.at .. r.at + r.len - 1
With(i, r) == [j \in DOMAIN live \cup {i} |-> IF j = i THEN r ELSE live[j]]
Fits(i, r) == /\ Words(r) \subseteq given /\ r.at % r.align = 0
              /\ \A j \in DOMAIN live \ {i} : Words(live[j]) \cap Words(r) = {}

\* r is the region owner i has after the step
Obtain(i, r) == i \notin DOMAIN live /\ Fits(i, r) /\ r.wrote = 0 /\ live' = With(i, r)
Resize(i, r) == /\ i \in DOMAIN live /\ Fits(i, r) /\ live' = With(i, r)
                /\ r.wrote = IF r.len < live[i].wrote THEN r.len ELSE live[i].wrote
Fill(i)      == i \in DOMAIN live /\ live' = [live EXCEPT ![i].wrote = live[i].len]
Release(i)   == i \in DOMAIN live /\ live' = [j \in DOMAIN live \ {i} |-> live[j]]

Lend(S)      == S \cap given = {} /\ given' = given \cup S /\ UNCHANGED live
TakeBack(S)  == /\ S \subseteq given /\ given' = given \ S /\ UNCHANGED live
                /\ \A i \in DOMAIN live : Words(live[i]) \cap S = {}

AllocatorInit == live = <<>> /\ given = {}
AllocatorNext ==
    \/ \E i \in Owners : \/ /\ i \in DOMAIN live'
                            /\ Obtain(i, live'[i]) \/ Resize(i, live'[i])
                            /\ UNCHANGED given
                         \/ (Fill(i) \/ Release(i)) /\ UNCHANGED given
    \/ Lend(given' \ given)
    \/ TakeBack(given \ given')
AllocatorSpec == AllocatorInit /\ [][AllocatorNext]_avars
=============================================================================
