------------------------------- MODULE KStorage -------------------------------
(***************************************************************************)
(* One group of the key-value storage, kernel/patch/common/kstorage.c.     *)
(*                                                                         *)
(* The elements form a doubly linked list with a head.  A writer looks its *)
(* id up under RCU only, prepares a new element, and takes the group's     *)
(* lock just to link it.  A remover looks up and unlinks under the lock.   *)
(* Readers walk the list under RCU.  What is unlinked is freed after a     *)
(* grace period.  The steps are the loads and stores other threads can     *)
(* observe; what runs under the lock is one step, but for the size.        *)
(***************************************************************************)
EXTENDS Integers, FiniteSets, Sequences, FiniteSetsExt

CONSTANTS
    Thread, Did, Data,
    Node,      \* memory for elements
    Calls,     \* Calls[t]: which operations a thread uses
    Keys,      \* Keys[t]: the ids it writes or removes
    HEAD,      \* the head of the list, kstorage_groups[gid]
    POISON,    \* LIST_POISON2
    NULL,      \* nothing
    MaxCalls   \* bound on the number of calls

ASSUME StorageAssumption ==
    /\ IsFiniteSet(Node) /\ MaxCalls \in Nat
    /\ {HEAD, POISON, NULL} \cap (Node \cup Data \cup Did \cup Thread) = {}
    /\ Cardinality({HEAD, POISON, NULL}) = 3
    /\ Calls \in [Thread -> SUBSET {"write", "remove", "read", "list"}]
    /\ Keys \in [Thread -> SUBSET Did]

VARIABLES
    next, prev,   \* list pointers of the elements and of the head
    alive,        \* the elements that are allocated
    did, data,    \* contents of an element
    size,         \* group_sizes[gid]
    lock,         \* holder of kstorage_glocks[gid], NULL if free
    retired,      \* elements handed to call_rcu
    waits,        \* waits[n]: the read sections that n's grace period waits for
    pc, call,     \* where a thread is, and the arguments of its call
    pos,          \* its cursor in the list; the element found, HEAD if none
    new,          \* the element a writer prepared
    tmp,          \* the size it loaded
    got, ids,     \* what a read or a list returned
    seen,         \* history: what the id held since the read began
    stayed,       \* history: the ids stored at every moment of a list call
    lost,         \* history: elements a failed copy left behind
    raced,        \* history: two updates of the size overlapped
    calls

heap == <<next, prev, alive, did, data>>
rcu == <<retired, waits>>
hist == <<seen, stayed, lost, raced>>
local == <<pc, call, pos, new, tmp, got, ids>>
vars == <<heap, size, lock, rcu, local, hist, calls>>

Init ==
    /\ next = [n \in Node \cup {HEAD} |-> IF n = HEAD THEN HEAD ELSE NULL]
    /\ prev = [n \in Node \cup {HEAD} |-> IF n = HEAD THEN HEAD ELSE NULL]
    /\ alive = {} /\ retired = {} /\ lost = {} /\ raced = FALSE /\ size = 0 /\ lock = NULL /\ calls = 0
    /\ did = [n \in Node |-> NULL] /\ data = [n \in Node |-> NULL]
    /\ waits = [n \in Node |-> {}]
    /\ pc = [t \in Thread |-> "idle"] /\ call = [t \in Thread |-> NULL]
    /\ pos = [t \in Thread |-> NULL] /\ new = [t \in Thread |-> NULL]
    /\ tmp = [t \in Thread |-> 0] /\ got = [t \in Thread |-> NULL]
    /\ ids = [t \in Thread |-> <<>>]
    /\ seen = [t \in Thread |-> {}] /\ stayed = [t \in Thread |-> {}]

-----------------------------------------------------------------------------
\* The list as a walk from the head, and the map it stands for.

Walk[k \in 0 .. Cardinality(Node)] ==
    IF k = 0 THEN next[HEAD]
    ELSE IF Walk[k - 1] = HEAD THEN HEAD ELSE next[Walk[k - 1]]

Linked == {Walk[k] : k \in 0 .. Cardinality(Node)} \ {HEAD}

\* What list_for_each_entry finds first for an id.
First(d) ==
    LET found == {k \in 0 .. Cardinality(Node) : Walk[k] # HEAD /\ did[Walk[k]] = d}
    IN  IF found = {} THEN HEAD ELSE Walk[Min(found)]

Stored(d) == IF First(d) = HEAD THEN NULL ELSE data[First(d)]

StoredIds == {d \in Did : Stored(d) # NULL}

\* The steps at which a thread is between rcu_read_lock and rcu_read_unlock.
InSection(t) == pc[t] \in {"find", "copy", "list", "link", "count"}

Goto(t, label) == pc' = [pc EXCEPT ![t] = label]

Enter(t, label, c) ==
    /\ pc[t] = "idle" /\ calls < MaxCalls
    /\ c.op \in Calls[t]
    /\ calls' = calls + 1
    /\ Goto(t, label)
    /\ call' = [call EXCEPT ![t] = c]
    /\ pos' = [pos EXCEPT ![t] = next[HEAD]]

\* Mutant: the section is left open.
LeaveSectionNot(t) == UNCHANGED waits

\* rcu_read_unlock: no grace period waits for this section any more.
LeaveSection(t) == waits' = [n \in Node |-> waits[n] \ {t}]

Return(t) ==
    /\ Goto(t, "idle")
    /\ call' = [call EXCEPT ![t] = NULL]
    /\ pos' = [pos EXCEPT ![t] = NULL]
    /\ new' = [new EXCEPT ![t] = NULL]
    /\ tmp' = [tmp EXCEPT ![t] = 0]

\* call_rcu: the grace period waits for the sections that are open now.
Retire(n) ==
    /\ retired' = retired \cup {n}
    /\ waits' = [waits EXCEPT ![n] = {t \in Thread : InSection(t)}]

\* The map changed: the readers in between have seen it.
Observe ==
    /\ seen' = [t \in Thread |-> IF pc[t] \in {"find", "copy"} /\ call[t].op = "read"
                                 THEN seen[t] \cup {Stored(d)' : d \in {call[t].did}} ELSE seen[t]]
    /\ stayed' = [t \in Thread |-> stayed[t] \cap StoredIds']
    /\ UNCHANGED <<lost, raced>>

\* The store of group_sizes[gid]++ or --, which undoes the one of a thread whose
\* load came between.
SetSize(t, n) ==
    /\ size' = n
    /\ raced' = (raced \/ \E u \in Thread \ {t} : pc[u] \in {"count", "size"})
    /\ UNCHANGED <<seen, stayed, lost>>

-----------------------------------------------------------------------------
\* The lookup, under RCU but without the lock.

Found(t) == pos[t] # HEAD /\ did[pos[t]] = call[t].did

FindNext(t) ==
    /\ pc[t] = "find" /\ pos[t] # HEAD /\ ~Found(t)
    /\ pos' = [pos EXCEPT ![t] = next[pos[t]]]
    /\ UNCHANGED <<heap, size, lock, rcu, pc, call, new, tmp, got, ids, hist, calls>>

LookupDone(t, op) == pc[t] = "find" /\ call[t].op = op /\ (pos[t] = HEAD \/ Found(t))

\* write_kstorage

WriteBegin(t, d, v) ==
    /\ Enter(t, "find", [op |-> "write", did |-> d, data |-> v])
    /\ d \in Keys[t]
    /\ UNCHANGED <<heap, size, lock, rcu, new, tmp, got, ids, hist>>

\* vmalloc fails.
WriteNoMemory(t) ==
    /\ LookupDone(t, "write")
    /\ LeaveSection(t) /\ Return(t)
    /\ UNCHANGED <<heap, size, lock, retired, got, ids, hist, calls>>

Fill(t, n) ==
    /\ alive' = alive \cup {n}
    /\ did' = [did EXCEPT ![n] = call[t].did]

\* memdup_user fails after vmalloc: the call returns without freeing new.
WriteCopyFails(t) ==
    /\ LookupDone(t, "write")
    /\ \E n \in Node \ alive :
          /\ Fill(t, n)
          /\ lost' = lost \cup {n}
    /\ LeaveSection(t) /\ Return(t)
    /\ UNCHANGED <<next, prev, data, size, lock, retired, got, ids, seen, stayed, raced, calls>>

WritePrepare(t) ==
    /\ LookupDone(t, "write")
    /\ \E n \in Node \ alive :
          /\ Fill(t, n)
          /\ data' = [data EXCEPT ![n] = call[t].data]
          /\ new' = [new EXCEPT ![t] = n]
    /\ Goto(t, "link")
    /\ UNCHANGED <<next, prev, size, lock, rcu, call, pos, tmp, got, ids, hist, calls>>

\* Mutant: the new element becomes the whole list.
LinkFirstAlone(t) ==
    /\ pos[t] = HEAD
    /\ next' = [next EXCEPT ![new[t]] = HEAD, ![HEAD] = new[t]]
    /\ prev' = [prev EXCEPT ![new[t]] = HEAD, ![HEAD] = new[t]]
    /\ lock' = t
    /\ tmp' = [tmp EXCEPT ![t] = size]
    /\ Goto(t, "count")
    /\ UNCHANGED waits

\* list_add_rcu behind the head, under the lock that WriteCount gives back.
LinkFirst(t) ==
    /\ pos[t] = HEAD
    /\ next' = [next EXCEPT ![new[t]] = next[HEAD], ![HEAD] = new[t]]
    /\ prev' = [prev EXCEPT ![new[t]] = HEAD, ![next[HEAD]] = new[t]]
    /\ lock' = t
    /\ tmp' = [tmp EXCEPT ![t] = size]
    /\ Goto(t, "count")
    /\ UNCHANGED waits

\* list_replace_rcu, then both unlocks.
LinkInPlace(t) ==
    LET old == pos[t] IN
    /\ old # HEAD /\ prev[old] # POISON
    /\ next' = [next EXCEPT ![new[t]] = next[old], ![prev[old]] = new[t]]
    /\ prev' = [prev EXCEPT ![new[t]] = prev[old], ![next[old]] = new[t], ![old] = POISON]
    /\ Goto(t, "retire")
    /\ LeaveSection(t)
    /\ UNCHANGED <<lock, tmp>>

\* list_replace_rcu of an element that another thread has unlinked meanwhile: the
\* store through its prev pointer is a store to the poison address.
LinkFault(t) ==
    LET old == pos[t] IN
    /\ old # HEAD /\ prev[old] = POISON
    /\ next' = [next EXCEPT ![new[t]] = next[old]]
    /\ prev' = [prev EXCEPT ![new[t]] = POISON]
    /\ lock' = t
    /\ Goto(t, "fault")
    /\ UNCHANGED <<waits, tmp>>

WriteLink(t) ==
    /\ pc[t] = "link" /\ lock = NULL
    /\ LinkFirst(t) \/ LinkInPlace(t) \/ LinkFault(t)
    /\ UNCHANGED <<alive, did, data, size, retired, call, pos, new, got, ids, calls>>
    /\ Observe

\* The rest of group_sizes[gid]++, then both unlocks.
WriteCount(t) ==
    /\ pc[t] = "count"
    /\ SetSize(t, tmp[t] + 1)
    /\ lock' = NULL
    /\ LeaveSection(t) /\ Return(t)
    /\ UNCHANGED <<heap, retired, got, ids, calls>>

\* Mutant: the replaced element is freed at once, not through call_rcu.
WriteRetireAtOnce(t) ==
    /\ pc[t] = "retire"
    /\ alive' = alive \ {pos[t]}
    /\ Return(t)
    /\ UNCHANGED <<next, prev, did, data, size, lock, rcu, got, ids, hist, calls>>

WriteRetire(t) ==
    /\ pc[t] = "retire"
    /\ Retire(pos[t]) /\ Return(t)
    /\ UNCHANGED <<heap, size, lock, got, ids, hist, calls>>

-----------------------------------------------------------------------------
\* remove_kstorage: lookup and list_del_rcu under the lock, the size after it.

RemoveCalled(t, d) ==
    /\ pc[t] = "idle" /\ "remove" \in Calls[t] /\ d \in Keys[t]
    /\ lock = NULL
    /\ calls < MaxCalls /\ calls' = calls + 1

\* Not found: the call returns 0 all the same.
RemoveAbsent(t, d) ==
    /\ RemoveCalled(t, d)
    /\ First(d) = HEAD
    /\ UNCHANGED <<heap, size, lock, rcu, local, hist>>

\* Mutant: only the pointer back is mended.
RemoveHalf(t, d) ==
    LET n == First(d) IN
    /\ RemoveCalled(t, d)
    /\ n # HEAD
    /\ prev' = [prev EXCEPT ![next[n]] = prev[n], ![n] = POISON]
    /\ call' = [call EXCEPT ![t] = [op |-> "remove", did |-> d, data |-> NULL]]
    /\ pos' = [pos EXCEPT ![t] = n]
    /\ Goto(t, "unlinked")
    /\ UNCHANGED <<next, alive, did, data, size, lock, rcu, new, tmp, got, ids>>
    /\ Observe

RemoveUnlink(t, d) ==
    LET n == First(d) IN
    /\ RemoveCalled(t, d)
    /\ n # HEAD
    /\ next' = [next EXCEPT ![prev[n]] = next[n]]
    /\ prev' = [prev EXCEPT ![next[n]] = prev[n], ![n] = POISON]
    /\ call' = [call EXCEPT ![t] = [op |-> "remove", did |-> d, data |-> NULL]]
    /\ pos' = [pos EXCEPT ![t] = n]
    /\ Goto(t, "unlinked")
    /\ UNCHANGED <<alive, did, data, size, lock, rcu, new, tmp, got, ids>>
    /\ Observe

\* group_sizes[gid]--, a load and a store after the unlock.
RemoveLoadSize(t) ==
    /\ pc[t] = "unlinked"
    /\ tmp' = [tmp EXCEPT ![t] = size]
    /\ Goto(t, "size")
    /\ UNCHANGED <<heap, size, lock, rcu, call, pos, new, got, ids, hist, calls>>

RemoveRetire(t) ==
    /\ pc[t] = "size"
    /\ SetSize(t, tmp[t] - 1)
    /\ Retire(pos[t]) /\ Return(t)
    /\ UNCHANGED <<heap, lock, got, ids, calls>>

-----------------------------------------------------------------------------
\* read_kstorage; get_kstorage and its callers in sucompat.c go the same way.

ReadBegin(t, d) ==
    /\ Enter(t, "find", [op |-> "read", did |-> d, data |-> NULL])
    /\ seen' = [seen EXCEPT ![t] = {Stored(d)}]
    /\ UNCHANGED <<heap, size, lock, rcu, new, tmp, got, ids, stayed, lost, raced>>

ReadFound(t) ==
    /\ LookupDone(t, "read") /\ pos[t] # HEAD
    /\ Goto(t, "copy")
    /\ UNCHANGED <<heap, size, lock, rcu, call, pos, new, tmp, got, ids, hist, calls>>

ReadReturn(t, v) ==
    /\ got' = [got EXCEPT ![t] = v]
    /\ seen' = [seen EXCEPT ![t] = {}]
    /\ LeaveSection(t) /\ Return(t)
    /\ UNCHANGED <<heap, size, lock, retired, ids, stayed, lost, raced, calls>>

ReadAbsent(t) == LookupDone(t, "read") /\ pos[t] = HEAD /\ ReadReturn(t, NULL)

ReadCopy(t) == pc[t] = "copy" /\ ReadReturn(t, data[pos[t]])

-----------------------------------------------------------------------------
\* list_kstorage_ids and on_each_kstorage_elem, with room for all the ids.

ListBegin(t) ==
    /\ Enter(t, "list", [op |-> "list", did |-> NULL, data |-> NULL])
    /\ ids' = [ids EXCEPT ![t] = <<>>]
    /\ stayed' = [stayed EXCEPT ![t] = StoredIds]
    /\ UNCHANGED <<heap, size, lock, rcu, new, tmp, got, seen, lost, raced>>

ListNext(t) ==
    /\ pc[t] = "list" /\ pos[t] # HEAD
    /\ ids' = [ids EXCEPT ![t] = Append(@, did[pos[t]])]
    /\ pos' = [pos EXCEPT ![t] = next[pos[t]]]
    /\ UNCHANGED <<heap, size, lock, rcu, pc, call, new, tmp, got, hist, calls>>

ListEnd(t) ==
    /\ pc[t] = "list" /\ pos[t] = HEAD
    /\ stayed' = [stayed EXCEPT ![t] = {}]
    /\ ids' = [ids EXCEPT ![t] = <<>>]
    /\ LeaveSection(t) /\ Return(t)
    /\ UNCHANGED <<heap, size, lock, retired, got, seen, lost, raced, calls>>

-----------------------------------------------------------------------------

\* reclaim_callback, when the grace period is over.
Reclaim(n) ==
    /\ n \in retired /\ waits[n] = {}
    /\ alive' = alive \ {n} /\ retired' = retired \ {n}
    /\ next' = [next EXCEPT ![n] = NULL] /\ prev' = [prev EXCEPT ![n] = NULL]
    /\ did' = [did EXCEPT ![n] = NULL] /\ data' = [data EXCEPT ![n] = NULL]
    /\ UNCHANGED <<size, lock, waits, local, hist, calls>>

\* What a thread does next in the call it is in.
Step(t) ==
    \/ FindNext(t)
    \/ WriteNoMemory(t) \/ WriteCopyFails(t) \/ WritePrepare(t)
    \/ WriteLink(t) \/ WriteCount(t) \/ WriteRetire(t)
    \/ RemoveLoadSize(t) \/ RemoveRetire(t)
    \/ ReadFound(t) \/ ReadAbsent(t) \/ ReadCopy(t)
    \/ ListNext(t) \/ ListEnd(t)

Next ==
    \/ \E t \in Thread :
          \/ Step(t) \/ ListBegin(t)
          \/ \E d \in Did : \/ ReadBegin(t, d)
                            \/ RemoveAbsent(t, d) \/ RemoveUnlink(t, d)
                            \/ \E v \in Data : WriteBegin(t, d, v)
    \/ \E n \in Node : Reclaim(n)

Spec == Init /\ [][Next]_vars

\* A thread inside a call runs on, and grace periods end.
FairSpec ==
    /\ Spec
    /\ \A t \in Thread : WF_vars(Step(t))
    /\ \A n \in Node : WF_vars(Reclaim(n))

-----------------------------------------------------------------------------
\* Properties

\* Whatever element a thread in a read section or the list itself points at is
\* allocated: call_rcu frees nothing under a reader or a writer's lookup, and no
\* writer is asked to replace an element that has left the list.  What is
\* allocated is linked, on its way in or out, or retired; the only elements
\* nobody will free are those of a write whose copy failed.
NothingFreedInUse ==
    /\ Linked \subseteq alive
    /\ \A t \in Thread : pc[t] # "fault" /\ (InSection(t) /\ pos[t] # HEAD => pos[t] \in alive)
    /\ alive = Linked \cup retired \cup lost
               \cup {new[t] : t \in {u \in Thread : pc[u] = "link"}}
               \cup {pos[t] : t \in {u \in Thread : pc[u] \in {"retire", "unlinked", "size"}}}

\* What one remove unlinks was all there was of its id.
RemovedIsGone ==
    [][\A t \in Thread : (pc[t] = "idle" /\ pc'[t] = "unlinked")
          => \A d \in Did : call'[t].did = d => Stored(d)' = NULL]_vars

\* While nobody is inside a change, kstorage_group_size tells the number of
\* elements, unless a remove, which counts down outside of the lock, overlapped
\* another update of the size.
SizeIsLength ==
    (~raced /\ \A t \in Thread : pc[t] \notin {"count", "unlinked", "size"}) => size = Cardinality(Linked)

\* A list call that reaches the end has told every id that was stored the whole
\* time, and none twice, whatever was replaced or removed under it.
ListIsComplete ==
    \A t \in Thread :
        /\ pc[t] = "list" /\ pos[t] = HEAD => \A d \in stayed[t] : \E i \in DOMAIN ids[t] : ids[t][i] = d
        /\ \A i, j \in DOMAIN ids[t] : ids[t][i] = ids[t][j] => i = j

\* Every call ends, and memory handed to call_rcu is freed.
CallsReturn == \A t \in Thread : []<>(pc[t] = "idle")
RetiredIsFreed == \A n \in Node : []<>(n \notin retired)

\* The group behaves like a map whose changes are atomic.
Map == INSTANCE StorageMap WITH
    NONE <- NULL,
    store <- [d \in Did |-> Stored(d)],
    asks <- [t \in Thread |->
                IF pc[t] \in {"find", "copy"} /\ call[t].op = "read" THEN call[t].did ELSE NULL],
    answer <- got

IsAMap == Map!MapSpec

\* The group's elements at every step of every call (kstorage.c:60-330): none is
\* freed while it can be reached, the size counts them, and a list tells them all.
ElementsAreKept == NothingFreedInUse /\ SizeIsLength /\ ListIsComplete

\* Every call of the group ends and every element it retired is freed
\* (kstorage.c: call_rcu, reclaim_callback).
CallsAndReclaimEnd == CallsReturn /\ RetiredIsFreed
=============================================================================
