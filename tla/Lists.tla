------------------------------- MODULE Lists -------------------------------
(***************************************************************************)
(* The linked lists of list.h and rculist.h: the rings of list_head that   *)
(* the key-value storage and the module list are kept in, and the hlists   *)
(* of the hash tables.  An operation is the sequence of the stores its     *)
(* code makes.  The stores of an operation on an ordinary list are read    *)
(* back when it has returned; those of an rcu list become visible one by   *)
(* one, while readers walk the list, in any order the release barriers     *)
(* leave open.  What an operation promises is said with sequences.         *)
(***************************************************************************)
EXTENDS SequencesExt, FiniteSetsExt, Naturals

CONSTANTS
    ListNode,   \* The nodes (model values).
    Readers,    \* The readers of an rcu list.
    ListCalls   \* Bound: operations of a behaviour on an ordinary list.

ASSUME ListAssumption == ListCalls \in Nat \ {0}

VARIABLES
    shape,    \* "ring" for list_head, "chain" for hlist.
    shared,   \* The lists are rcu lists, and read while they change.
    links,    \* The two pointers of every head and node; a pprev is the
              \* object whose first or next it is the address of.
    stores,   \* The stores of the operation under way, not yet visible.
    lists,    \* What the operations have promised: a sequence per head.
    earlier,  \* lists, before the operation under way.
    either,   \* The old and the new node of a replacement under way.
    limbo,    \* Nodes taken off, with the readers who may hold them.
    grace,    \* The readers synchronize_rcu waits for.
    pos,      \* The node a reader is at, "idle" or "done".
    target,   \* The list it walks.
    seen,     \* The nodes it has met.
    must,     \* The nodes, or pairs of replaced and replacement, that
              \* were on the list all along.
    listCalls \* Operations done.

readVars == <<pos, target, seen, must>>
listVars == <<shape, shared, links, stores, lists, earlier, either, limbo,
              grace, pos, target, seen, must, listCalls>>

Heads == {"left", "right"}
Objects == Heads \cup ListNode
NoObject == "null"
Fresh == [next |-> "garbage", prev |-> "garbage"]

StoreOf(x, f, v) == [to |-> x, field |-> f, value |-> v, order |-> "plain"]
SetNext(x, v) == StoreOf(x, "next", v)
SetPrev(x, v) == StoreOf(x, "prev", v)
\* rcu_assign_pointer: whatever was stored before is visible before it.
Publish(x, v) == [SetNext(x, v) EXCEPT !.order = "release"]
Barrier == [to |-> "left", field |-> "next", value |-> NoObject, order |-> "sync"]
Visible(m, s) == IF s.order = "sync" THEN m ELSE [m EXCEPT ![s.to][s.field] = s.value]
Stored(m, ss) == FoldLeft(Visible, m, ss)
\* One call after the other, the second reading what the first stored.
Then(m, ss, Rest(_)) == ss \o Rest(Stored(m, ss))
If(p, ss) == IF p THEN ss ELSE << >>

-----------------------------------------------------------------------------
(* list.h: rings *)

INIT_LIST_HEAD(x) == <<SetNext(x, x), SetPrev(x, x)>>
list_empty(m, h) == m[h].next = h
list_empty_careful(m, h) == m[h].next = h /\ m[h].prev = h
list_is_first(m, n, h) == m[n].prev = h
list_is_last(m, n, h) == m[n].next = h
list_is_singular(m, h) == ~list_empty(m, h) /\ m[h].next = m[h].prev

add_between(n, prev, next) ==
    <<SetPrev(next, n), SetNext(n, next), SetPrev(n, prev), SetNext(prev, n)>>
list_add(m, n, h) == add_between(n, h, m[h].next)
list_add_tail(m, n, h) == add_between(n, m[h].prev, h)

del_between(prev, next) == <<SetPrev(next, prev), SetNext(prev, next)>>
del_entry(m, n) == del_between(m[n].prev, m[n].next)
del_clearprev(m, n) == del_entry(m, n) \o <<SetPrev(n, NoObject)>>
list_del(m, n) == del_entry(m, n) \o <<SetNext(n, "poison"), SetPrev(n, "poison")>>
list_del_init(m, n) == del_entry(m, n) \o INIT_LIST_HEAD(n)
list_del_init_careful(m, n) == del_entry(m, n) \o <<SetPrev(n, n), Publish(n, n)>>

list_replace(m, old, new) ==
    <<SetNext(new, m[old].next), SetPrev(m[old].next, new),
      SetPrev(new, m[old].prev), SetNext(m[old].prev, new)>>
list_replace_init(m, old, new) == list_replace(m, old, new) \o INIT_LIST_HEAD(old)

list_swap(m, x, y) ==
    LET pos0 == m[y].prev
        at0 == IF pos0 = x THEN y ELSE pos0
    IN  Then(m, list_del(m, y), LAMBDA m1 :
            Then(m1, list_replace(m1, x, y), LAMBDA m2 : list_add(m2, x, at0)))

list_move(m, n, h) == Then(m, del_entry(m, n), LAMBDA m1 : list_add(m1, n, h))
list_move_tail(m, n, h) == Then(m, del_entry(m, n), LAMBDA m1 : list_add_tail(m1, n, h))

list_bulk_move_tail(m, h, first, last) ==
    Then(m, <<SetNext(m[first].prev, m[last].next), SetPrev(m[last].next, m[first].prev)>>,
         LAMBDA m1 : <<SetNext(m1[h].prev, first), SetPrev(first, m1[h].prev),
                       SetNext(last, h), SetPrev(h, last)>>)

list_rotate_left(m, h) == If(~list_empty(m, h), list_move_tail(m, m[h].next, h))
list_rotate_to_front(m, n, h) == list_move_tail(m, h, n)

cut_after(m, l, h, n) ==
    <<SetNext(l, m[h].next), SetPrev(m[h].next, l), SetPrev(l, n), SetNext(n, l),
      SetNext(h, m[n].next), SetPrev(m[n].next, h)>>
list_cut_position(m, l, h, n) ==
    If(~list_empty(m, h) /\ (list_is_singular(m, h) => n \in {m[h].next, h}),
       IF n = h THEN INIT_LIST_HEAD(l) ELSE cut_after(m, l, h, n))
list_cut_before(m, l, h, n) ==
    IF m[h].next = n THEN INIT_LIST_HEAD(l)
    ELSE <<SetNext(l, m[h].next), SetPrev(m[h].next, l), SetPrev(l, m[n].prev),
           SetNext(m[n].prev, l), SetNext(h, n), SetPrev(n, h)>>

splice_between(m, l, prev, next) ==
    <<SetPrev(m[l].next, prev), SetNext(prev, m[l].next),
      SetNext(m[l].prev, next), SetPrev(next, m[l].prev)>>
list_splice(m, l, h) == If(~list_empty(m, l), splice_between(m, l, h, m[h].next))
list_splice_tail(m, l, h) == If(~list_empty(m, l), splice_between(m, l, m[h].prev, h))
list_splice_init(m, l, h) ==
    If(~list_empty(m, l), splice_between(m, l, h, m[h].next) \o INIT_LIST_HEAD(l))
list_splice_tail_init(m, l, h) ==
    If(~list_empty(m, l), splice_between(m, l, m[h].prev, h) \o INIT_LIST_HEAD(l))

\* The loops: the objects met from x on, up to the head (or the null); a
\* loop that does not end is cut short.
RECURSIVE Steps(_, _, _, _, _)
Steps(m, x, f, stop, fuel) ==
    IF x \notin Objects \/ x = stop \/ fuel = 0 THEN << >>
    ELSE <<x>> \o Steps(m, m[x][f], f, stop, fuel - 1)
Walk(m, x, f, stop) == Steps(m, x, f, stop, Cardinality(Objects) + 1)

list_for_each(m, h) == Walk(m, m[h].next, "next", h)
list_for_each_prev(m, h) == Walk(m, m[h].prev, "prev", h)
list_for_each_continue(m, n, h) == Walk(m, m[n].next, "next", h)
list_for_each_entry_continue_reverse(m, n, h) == Walk(m, m[n].prev, "prev", h)
list_for_each_entry_from(m, n, h) == Walk(m, n, "next", h)
list_for_each_entry_from_reverse(m, n, h) == Walk(m, n, "prev", h)
list_first_entry_or_null(m, h) == IF m[h].next = h THEN NoObject ELSE m[h].next

\* The safe loops, the body taking the object it is at off the list: n is
\* read before the body, and moved on from n.
RECURSIVE Sweep(_, _, _, _, _, _)
Sweep(m, x, n, f, stop, fuel) ==
    IF x \notin Objects \/ n \notin Objects \/ x = stop \/ fuel = 0 THEN << >>
    ELSE LET rest == Stored(m, list_del(m, x))
         IN  <<x>> \o Sweep(rest, n, rest[n][f], f, stop, fuel - 1)
Safely(m, x, f, h) == IF x = h THEN << >> ELSE Sweep(m, x, m[x][f], f, h, Cardinality(Objects))
list_for_each_entry_safe(m, h) == Safely(m, m[h].next, "next", h)
list_for_each_entry_safe_reverse(m, h) == Safely(m, m[h].prev, "prev", h)
list_for_each_entry_safe_continue(m, n, h) == Safely(m, m[n].next, "next", h)
list_for_each_entry_safe_from(m, n, h) == Safely(m, n, "next", h)

-----------------------------------------------------------------------------
(* list.h: hlists *)

INIT_HLIST_NODE(n) == <<SetNext(n, NoObject), SetPrev(n, NoObject)>>
hlist_unhashed(m, n) == m[n].prev = NoObject
hlist_empty(m, h) == m[h].next = NoObject
hlist_fake(m, n) == m[n].prev = n
hlist_is_singular_node(m, n, h) == m[n].next = NoObject /\ m[n].prev = h

IfNode(x, ss) == If(x # NoObject, ss)
hlist_unlink(m, n) ==
    <<SetNext(m[n].prev, m[n].next)>> \o IfNode(m[n].next, <<SetPrev(m[n].next, m[n].prev)>>)
hlist_del(m, n) == hlist_unlink(m, n) \o <<SetNext(n, "poison"), SetPrev(n, "poison")>>
hlist_del_init(m, n) == If(~hlist_unhashed(m, n), hlist_unlink(m, n) \o INIT_HLIST_NODE(n))
hlist_add_head(m, n, h) ==
    <<SetNext(n, m[h].next)>> \o IfNode(m[h].next, <<SetPrev(m[h].next, n)>>)
        \o <<SetNext(h, n), SetPrev(n, h)>>
hlist_add_before(m, n, x) ==
    <<SetPrev(n, m[x].prev), SetNext(n, x), SetPrev(x, n), SetNext(m[x].prev, n)>>
hlist_add_behind(m, n, x) ==
    <<SetNext(n, m[x].next), SetNext(x, n), SetPrev(n, x)>>
        \o IfNode(m[x].next, <<SetPrev(m[x].next, n)>>)
hlist_add_fake(n) == <<SetPrev(n, n)>>
hlist_move_list(m, old, new) ==
    <<SetNext(new, m[old].next)>> \o IfNode(m[old].next, <<SetPrev(m[old].next, new)>>)
        \o <<SetNext(old, NoObject)>>

hlist_for_each_entry(m, h) == Walk(m, m[h].next, "next", NoObject)
hlist_for_each_entry_continue(m, n) == Walk(m, m[n].next, "next", NoObject)
hlist_for_each_entry_from(m, n) == Walk(m, n, "next", NoObject)
RECURSIVE HSweep(_, _, _)
HSweep(m, x, fuel) ==
    IF x \notin Objects \/ fuel = 0 THEN << >>
    ELSE <<x>> \o HSweep(Stored(m, hlist_del(m, x)), m[x].next, fuel - 1)
hlist_for_each_entry_safe(m, h) == HSweep(m, m[h].next, Cardinality(Objects))

-----------------------------------------------------------------------------
(* rculist.h *)

INIT_LIST_HEAD_RCU(x) == INIT_LIST_HEAD(x)
add_between_rcu(n, prev, next) ==
    <<SetNext(n, next), SetPrev(n, prev), Publish(prev, n), SetPrev(next, n)>>
list_add_rcu(m, n, h) == add_between_rcu(n, h, m[h].next)
list_add_tail_rcu(m, n, h) == add_between_rcu(n, m[h].prev, h)
list_del_rcu(m, n) == del_entry(m, n) \o <<SetPrev(n, "poison")>>
list_replace_rcu(m, old, new) ==
    <<SetNext(new, m[old].next), SetPrev(new, m[old].prev), Publish(m[old].prev, new),
      SetPrev(m[old].next, new), SetPrev(old, "poison")>>
MutantSplice(m, l, prev, next) ==
    INIT_LIST_HEAD_RCU(l) \o
    <<SetNext(m[l].prev, next), Publish(prev, m[l].next),
      SetPrev(m[l].next, prev), SetPrev(next, m[l].prev)>>
splice_between_rcu(m, l, prev, next) ==
    INIT_LIST_HEAD_RCU(l) \o
    <<Barrier, SetNext(m[l].prev, next), Publish(prev, m[l].next),
      SetPrev(m[l].next, prev), SetPrev(next, m[l].prev)>>
list_splice_init_rcu(m, l, h) ==
    If(~list_empty(m, l), splice_between_rcu(m, l, h, m[h].next))
list_splice_tail_init_rcu(m, l, h) ==
    If(~list_empty(m, l), splice_between_rcu(m, l, m[h].prev, h))
list_next_or_null_rcu(m, h, n) == IF m[n].next = h THEN NoObject ELSE m[n].next

hlist_del_rcu(m, n) == hlist_unlink(m, n) \o <<SetPrev(n, "poison")>>
hlist_del_init_rcu(m, n) ==
    If(~hlist_unhashed(m, n), hlist_unlink(m, n) \o <<SetPrev(n, NoObject)>>)
hlist_replace_rcu(m, old, new) ==
    <<SetNext(new, m[old].next), SetPrev(new, m[old].prev), Publish(m[old].prev, new)>>
        \o IfNode(m[old].next, <<SetPrev(m[old].next, new)>>) \o <<SetPrev(old, "poison")>>
hlists_swap_heads_rcu(m, l, r) ==
    <<Publish(l, m[r].next), Publish(r, m[l].next),
      SetPrev(m[r].next, l), SetPrev(m[l].next, r)>>
hlist_add_head_rcu(m, n, h) ==
    <<SetNext(n, m[h].next), SetPrev(n, h), Publish(h, n)>>
        \o IfNode(m[h].next, <<SetPrev(m[h].next, n)>>)
hlist_add_tail_rcu(m, n, h) ==
    IF hlist_empty(m, h) THEN hlist_add_head_rcu(m, n, h)
    ELSE LET last == Last(hlist_for_each_entry(m, h))
         IN  <<SetNext(n, m[last].next), SetPrev(n, last), Publish(last, n)>>
hlist_add_before_rcu(m, n, x) ==
    <<SetPrev(n, m[x].prev), SetNext(n, x), Publish(m[x].prev, n), SetPrev(x, n)>>
hlist_add_behind_rcu(m, n, x) ==
    <<SetNext(n, m[x].next), SetPrev(n, x), Publish(x, n)>>
        \o IfNode(m[x].next, <<SetPrev(m[x].next, n)>>)

-----------------------------------------------------------------------------
(* The callers of an ordinary list.  What each operation promises is the   *)
(* second argument of Returns.                                             *)

Listed == ToSet(lists["left"]) \cup ToSet(lists["right"])
Loose == ListNode \ (Listed \cup DOMAIN limbo)
TakenOff(n) == [h \in Heads |-> Remove(lists[h], n)]
At(h, n) == CHOOSE i \in DOMAIN lists[h] : lists[h][i] = n
Other(h) == CHOOSE g \in Heads : g # h
Renamed(h, F(_)) == [i \in DOMAIN lists[h] |-> F(lists[h][i])]
Clean(n) == n \in Loose /\ links[n] \in {[next |-> n, prev |-> n], [next |-> NoObject, prev |-> NoObject]}

Returns(ss, promised) ==
    /\ ~shared /\ listCalls < ListCalls
    /\ links' = Stored(links, ss)
    /\ lists' = promised
    /\ listCalls' = listCalls + 1
    /\ UNCHANGED <<shape, shared, stores, earlier, either, limbo, grace, readVars>>
Ring == shape = "ring" /\ ~shared
Chain == shape = "chain" /\ ~shared

Add == Ring /\ \E h \in Heads, n \in Loose :
    \/ Returns(list_add(links, n, h), [lists EXCEPT ![h] = <<n>> \o @])
    \/ Returns(list_add_tail(links, n, h), [lists EXCEPT ![h] = Append(@, n)])
Delete == Ring /\ \E n \in Listed :
    \/ Returns(list_del(links, n), TakenOff(n))
    \/ Returns(del_clearprev(links, n), TakenOff(n))
DeleteInit == Ring /\ \E n \in Listed \cup {x \in Loose : Clean(x)} :
    \/ Returns(list_del_init(links, n), TakenOff(n))
    \/ Returns(list_del_init_careful(links, n), TakenOff(n))
Replace == Ring /\ \E old \in Listed, new \in Loose :
    LET promised == [h \in Heads |-> Renamed(h, LAMBDA x : IF x = old THEN new ELSE x)]
    IN  \/ Returns(list_replace(links, old, new), promised)
        \/ Returns(list_replace_init(links, old, new), promised)
Swap == Ring /\ \E x, y \in Listed :
    /\ x # y
    /\ Returns(list_swap(links, x, y),
               [h \in Heads |-> Renamed(h, LAMBDA z : IF z = x THEN y ELSE IF z = y THEN x ELSE z)])
Move == Ring /\ \E n \in Listed, h \in Heads :
    \/ Returns(list_move(links, n, h), [TakenOff(n) EXCEPT ![h] = <<n>> \o @])
    \/ Returns(list_move_tail(links, n, h), [TakenOff(n) EXCEPT ![h] = Append(@, n)])
BulkMoveTail == Ring /\ \E h \in Heads : \E i \in DOMAIN lists[h] : \E j \in i..Len(lists[h]) :
    Returns(list_bulk_move_tail(links, h, lists[h][i], lists[h][j]),
            [lists EXCEPT ![h] = SubSeq(@, 1, i - 1) \o SubSeq(@, j + 1, Len(@)) \o SubSeq(@, i, j)])
Rotate == Ring /\ \E h \in Heads :
    \/ Returns(list_rotate_left(links, h),
               [lists EXCEPT ![h] = IF @ = << >> THEN @ ELSE Append(Tail(@), Head(@))])
    \/ \E n \in ToSet(lists[h]) :
        Returns(list_rotate_to_front(links, n, h),
                [lists EXCEPT ![h] = SubSeq(@, At(h, n), Len(@)) \o SubSeq(@, 1, At(h, n) - 1)])
\* The list cut off is put on an empty one.
Cut == Ring /\ \E h \in Heads : lists[Other(h)] = << >> /\ \E n \in ToSet(lists[h]) \cup {h} :
    LET l == Other(h)
        i == IF n = h THEN 0 ELSE At(h, n)
        Split(k) == [lists EXCEPT ![l] = SubSeq(lists[h], 1, k),
                                  ![h] = SubSeq(lists[h], k + 1, Len(lists[h]))]
    IN  \/ Returns(list_cut_position(links, l, h, n), Split(i))
        \/ Returns(list_cut_before(links, l, h, n), Split(IF n = h THEN Len(lists[h]) ELSE i - 1))
\* The splices that leave the source as it is are followed by its
\* initialisation, as their callers have to.
Splice == Ring /\ \E h \in Heads :
    LET l == Other(h)
        Before == [lists EXCEPT ![l] = << >>, ![h] = lists[l] \o lists[h]]
        Behind == [lists EXCEPT ![l] = << >>, ![h] = lists[h] \o lists[l]]
    IN  \/ Returns(list_splice(links, l, h) \o INIT_LIST_HEAD(l), Before)
        \/ Returns(list_splice_tail(links, l, h) \o INIT_LIST_HEAD(l), Behind)
        \/ Returns(list_splice_init(links, l, h), Before)
        \/ Returns(list_splice_tail_init(links, l, h), Behind)

HAdd == Chain /\ \E h \in Heads, n \in Loose :
    \/ Returns(hlist_add_head(links, n, h), [lists EXCEPT ![h] = <<n>> \o @])
    \/ \E x \in ToSet(lists[h]) :
        \/ Returns(hlist_add_before(links, n, x), [lists EXCEPT ![h] = InsertAt(@, At(h, x), n)])
        \/ Returns(hlist_add_behind(links, n, x), [lists EXCEPT ![h] = InsertAt(@, At(h, x) + 1, n)])
HDelete == Chain /\ \/ \E n \in Listed : Returns(hlist_del(links, n), TakenOff(n))
                    \/ \E n \in Listed \cup {x \in Loose : Clean(x)} :
                        Returns(hlist_del_init(links, n), TakenOff(n))
\* A node that is on no list, made to look as if it were, and taken off.
HFake == Chain /\ \E n \in Loose :
    Returns(Then(links, INIT_HLIST_NODE(n) \o hlist_add_fake(n), LAMBDA m : hlist_del_init(m, n)), lists)
HMove == Chain /\ \E h \in Heads :
    /\ lists[Other(h)] = << >>
    /\ Returns(hlist_move_list(links, h, Other(h)), [lists EXCEPT ![h] = << >>, ![Other(h)] = lists[h]])

-----------------------------------------------------------------------------
(* The one writer of an rcu list. *)

Walking == {r \in Readers : pos[r] \notin {"idle", "done"}}
\* rs: the pair of replaced and replacement, or nothing.
Starts(ss, promised, rs) ==
    LET gone == Listed \ UNION {ToSet(promised[h]) : h \in Heads}
    IN  /\ shared /\ stores = << >> /\ listCalls < ListCalls /\ ss # << >>
        /\ stores' = ss
        /\ earlier' = lists
        /\ lists' = promised
        /\ either' = rs
        /\ must' = [r \in Readers |->
                        IF r \notin Walking THEN must[r]
                        ELSE {IF g \cap rs = {} THEN g ELSE g \cup rs :
                                g \in {g \in must[r] : g \cap (gone \ rs) = {}}}]
        /\ listCalls' = listCalls + 1
        /\ UNCHANGED <<shape, shared, links, limbo, grace, pos, target, seen>>

RcuAdd == shape = "ring" /\ \E h \in Heads, n \in Loose :
    \/ Starts(list_add_rcu(links, n, h), [lists EXCEPT ![h] = <<n>> \o @], {})
    \/ Starts(list_add_tail_rcu(links, n, h), [lists EXCEPT ![h] = Append(@, n)], {})
RcuDelete == \E n \in Listed :
    \/ shape = "ring" /\ Starts(list_del_rcu(links, n), TakenOff(n), {})
    \/ shape = "chain" /\ Starts(hlist_del_rcu(links, n), TakenOff(n), {})
    \/ shape = "chain" /\ Starts(hlist_del_init_rcu(links, n), TakenOff(n), {})
RcuReplace == \E old \in Listed, new \in Loose :
    Starts(IF shape = "ring" THEN list_replace_rcu(links, old, new) ELSE hlist_replace_rcu(links, old, new),
           [h \in Heads |-> Renamed(h, LAMBDA x : IF x = old THEN new ELSE x)], {old, new})
RcuSplice == shape = "ring" /\ \E h \in Heads :
    LET l == Other(h)
    IN  \/ Starts(list_splice_init_rcu(links, l, h), [lists EXCEPT ![l] = << >>, ![h] = lists[l] \o @], {})
        \/ Starts(list_splice_tail_init_rcu(links, l, h), [lists EXCEPT ![l] = << >>, ![h] = @ \o lists[l]], {})
RcuHAdd == shape = "chain" /\ \E h \in Heads, n \in Loose :
    \/ Starts(hlist_add_head_rcu(links, n, h), [lists EXCEPT ![h] = <<n>> \o @], {})
    \/ Starts(hlist_add_tail_rcu(links, n, h), [lists EXCEPT ![h] = Append(@, n)], {})
    \/ \E x \in ToSet(lists[h]) :
        \/ Starts(hlist_add_before_rcu(links, n, x), [lists EXCEPT ![h] = InsertAt(@, At(h, x), n)], {})
        \/ Starts(hlist_add_behind_rcu(links, n, x), [lists EXCEPT ![h] = InsertAt(@, At(h, x) + 1, n)], {})
RcuSwapHeads ==
    /\ shape = "chain" /\ \A h \in Heads : lists[h] # << >>
    /\ Starts(hlists_swap_heads_rcu(links, "left", "right"), [h \in Heads |-> lists[Other(h)]], {})

\* A store becomes visible: a release after every store before it, another
\* one at any time, the stores to one pointer in their order.
BecomesVisible ==
    \E i \in DOMAIN stores :
        /\ \/ stores[i].order = "plain"
           \/ stores[i].order = "release" /\ i = 1
        /\ \A j \in 1..(i - 1) :
            /\ stores[j].order \notin {"sync", "wait"}
            /\ <<stores[j].to, stores[j].field>> # <<stores[i].to, stores[i].field>>
        /\ links' = Visible(links, stores[i])
        /\ stores' = RemoveAt(stores, i)
        /\ limbo' = IF Len(stores) > 1 THEN limbo
                    ELSE limbo @@ [n \in (ToSet(earlier["left"]) \cup ToSet(earlier["right"])) \ Listed |-> Walking]
        /\ UNCHANGED <<shape, shared, lists, earlier, either, grace, readVars, listCalls>>
\* synchronize_rcu waits for the readers it finds.
SyncBegins ==
    /\ stores # << >> /\ Head(stores).order = "sync"
    /\ stores' = <<[Head(stores) EXCEPT !.order = "wait"]>> \o Tail(stores)
    /\ grace' = Walking
    /\ UNCHANGED <<shape, shared, links, lists, earlier, either, limbo, readVars, listCalls>>
SyncEnds ==
    /\ stores # << >> /\ Head(stores).order = "wait" /\ grace = {}
    /\ stores' = Tail(stores)
    /\ UNCHANGED <<shape, shared, links, lists, earlier, either, limbo, grace, readVars, listCalls>>
\* A node taken off is freed, or used again, when the readers are through.
Reclaim == \E n \in DOMAIN limbo :
    /\ limbo[n] = {} /\ stores = << >>
    /\ limbo' = [x \in DOMAIN limbo \ {n} |-> limbo[x]]
    /\ links' = [links EXCEPT ![n] = Fresh]
    /\ UNCHANGED <<shape, shared, stores, lists, earlier, either, grace, readVars, listCalls>>

-----------------------------------------------------------------------------
(* The readers of an rcu list. *)

EndOf(h) == IF shape = "ring" THEN h ELSE NoObject
Reaches(r, h, x, upto) ==
    IF x = EndOf(h)
    THEN /\ pos' = [pos EXCEPT ![r] = "done"]
         /\ seen' = [seen EXCEPT ![r] = upto]
         /\ grace' = grace \ {r}
         /\ limbo' = [n \in DOMAIN limbo |-> limbo[n] \ {r}]
    ELSE /\ pos' = [pos EXCEPT ![r] = x]
         /\ seen' = [seen EXCEPT ![r] = Append(upto, x)]
         /\ UNCHANGED <<grace, limbo>>
\* list_for_each_entry_rcu and hlist_for_each_entry_rcu: the first entry.
Begin == shared /\ \E r \in Readers, h \in Heads :
    /\ pos[r] = "idle"
    /\ target' = [target EXCEPT ![r] = h]
    /\ must' = [must EXCEPT ![r] =
                    LET kept == ToSet(IF stores = << >> THEN lists[h] ELSE earlier[h]) \cap ToSet(lists[h])
                    IN  {{n} : n \in kept} \cup
                        (IF stores # << >> /\ either \cap ToSet(lists[h]) # {} THEN {either} ELSE {})]
    /\ Reaches(r, h, links[h].next, << >>)
    /\ UNCHANGED <<shape, shared, links, stores, lists, earlier, either, listCalls>>
\* The next entry.
Step == \E r \in Walking :
    /\ pos[r] \in ListNode /\ Len(seen[r]) <= Cardinality(Objects)
    /\ Reaches(r, target[r], links[pos[r]].next, seen[r])
    /\ UNCHANGED <<shape, shared, links, stores, lists, earlier, either, target, must, listCalls>>

\* The heads set up, and the first nodes put on the two lists.
Built(sh, l, r) ==
    LET empty == [x \in Objects |->
                    IF x \in ListNode THEN Fresh
                    ELSE IF sh = "ring" THEN [next |-> x, prev |-> x] ELSE [next |-> NoObject, prev |-> NoObject]]
        Put(h, m, n) == Stored(m, IF sh = "ring" THEN list_add_tail(m, n, h) ELSE hlist_add_head(m, n, h))
    IN  FoldLeft(LAMBDA m, n : Put("right", m, n), FoldLeft(LAMBDA m, n : Put("left", m, n), empty, l), r)

ListInit ==
    LET order == SetToSeq(ListNode)
    IN  /\ shape \in {"ring", "chain"} /\ shared \in BOOLEAN
        /\ \E i \in 0..Len(order) : \E j \in i..Len(order) :
            LET l == SubSeq(order, 1, i)
                r == SubSeq(order, i + 1, j)
            IN  /\ links = Built(shape, l, r)
                /\ lists = IF shape = "ring" THEN [left |-> l, right |-> r]
                           ELSE [left |-> Reverse(l), right |-> Reverse(r)]
        /\ stores = << >> /\ earlier = lists /\ either = {} /\ grace = {}
        /\ limbo = [n \in {} |-> {}]
        /\ pos = [r \in Readers |-> "idle"] /\ target = [r \in Readers |-> "left"]
        /\ seen = [r \in Readers |-> << >>] /\ must = [r \in Readers |-> {}]
        /\ listCalls = 0

ListNext ==
    \/ Add \/ Delete \/ DeleteInit \/ Replace \/ Swap \/ Move \/ BulkMoveTail
    \/ Rotate \/ Cut \/ Splice \/ HAdd \/ HDelete \/ HFake \/ HMove
    \/ RcuAdd \/ RcuDelete \/ RcuReplace \/ RcuSplice \/ RcuHAdd \/ RcuSwapHeads
    \/ BecomesVisible \/ SyncBegins \/ SyncEnds \/ Reclaim \/ Begin \/ Step

ListSpec == ListInit /\ [][ListNext]_listVars

-----------------------------------------------------------------------------
(* Properties *)

RingIs(h, s) ==
    /\ list_for_each(links, h) = s
    /\ list_for_each_prev(links, h) = Reverse(s)
    /\ list_empty(links, h) = (s = << >>) /\ list_empty_careful(links, h) = (s = << >>)
    /\ list_is_singular(links, h) = (Len(s) = 1)
    /\ list_first_entry_or_null(links, h) = IF s = << >> THEN NoObject ELSE s[1]
    /\ \A i \in DOMAIN s :
        LET onward == SubSeq(s, i, Len(s))
            back == Reverse(SubSeq(s, 1, i))
        IN  /\ list_is_first(links, s[i], h) = (i = 1) /\ list_is_last(links, s[i], h) = (i = Len(s))
            /\ list_for_each_entry_from(links, s[i], h) = onward
            /\ list_for_each_continue(links, s[i], h) = Tail(onward)
            /\ list_for_each_entry_from_reverse(links, s[i], h) = back
            /\ list_for_each_entry_continue_reverse(links, s[i], h) = Tail(back)
            /\ list_next_or_null_rcu(links, h, s[i]) = IF i = Len(s) THEN NoObject ELSE s[i + 1]
            /\ ~shared => /\ list_for_each_entry_safe_from(links, s[i], h) = onward
                          /\ list_for_each_entry_safe_continue(links, s[i], h) = Tail(onward)
    /\ ~shared => /\ list_for_each_entry_safe(links, h) = s
                  /\ list_for_each_entry_safe_reverse(links, h) = Reverse(s)
ChainIs(h, s) ==
    /\ hlist_for_each_entry(links, h) = s
    /\ hlist_empty(links, h) = (s = << >>)
    /\ ~shared => hlist_for_each_entry_safe(links, h) = s
    /\ \A i \in DOMAIN s :
        /\ hlist_for_each_entry_from(links, s[i]) = SubSeq(s, i, Len(s))
        /\ hlist_for_each_entry_continue(links, s[i]) = SubSeq(s, i + 1, Len(s))
        /\ links[s[i]].prev = IF i = 1 THEN h ELSE s[i - 1]
        /\ ~hlist_unhashed(links, s[i]) /\ ~hlist_fake(links, s[i])
        /\ hlist_is_singular_node(links, s[i], h) = (Len(s) = 1)

\* When no operation is under way, both lists hold the nodes the operations
\* promised, in their order, forwards and backwards, and every loop and
\* every question of list.h gives the answer of that sequence.
ListsAreWhole ==
    stores = << >> => \A h \in Heads : IF shape = "ring" THEN RingIs(h, lists[h]) ELSE ChainIs(h, lists[h])

\* A reader of an rcu list meets every node that is on it all along once,
\* and of a node and its replacement exactly one, whatever the writer does
\* in between.
ReadersMissNothing ==
    \A r \in Readers : pos[r] = "done" =>
        \A g \in must[r] : Cardinality({i \in DOMAIN seen[r] : seen[r][i] \in g}) = 1

\* A reader of an rcu list never leaves it: it is at a node whose next is
\* set and whose memory has not been given back, and meets none twice.
ReadersStayOnTheList ==
    \A r \in Walking : /\ pos[r] \in ListNode
                       /\ links[pos[r]].next \notin {"garbage", "poison"}
                       /\ IsInjective(seen[r])

\* The lists of list.h and rculist.h: between operations both lists are what
\* the operations promised, and a reader under way neither misses a node nor
\* leaves the list.
ListsKeepTheirNodes == ListsAreWhole /\ ReadersMissNothing /\ ReadersStayOnTheList
=============================================================================
