-------------------------------- MODULE Tlsf --------------------------------
(* kernel/base/tlsf.c, the allocator behind kp_malloc, kp_malloc_exec and   *)
(* kp_memalign: two-level segregated fit on memory words of ALIGN_SIZE      *)
(* bytes.  An address is a word index; the words of a block at b are        *)
(*     b     prev_phys_block, the last word of the block before             *)
(*     b+1   size and the two flags                                         *)
(*     b+2   next_free, or the first word of the owner's data               *)
(*     b+3   prev_free                                                      *)
(* The heap is one record h: the memory, the two bitmaps and the heads of   *)
(* the free lists.  Each C function is one operator on h.                   *)
EXTENDS Integers, FiniteSets, TLC

CONSTANTS SL_INDEX_COUNT_LOG2, FL_INDEX_MAX,   \* the tuning of the lists
          MemWords,     \* words 4..MemWords-1 hold the pools
          Pools,        \* function: first word of a pool -> its bytes
          Sizes, Aligns,\* bytes a caller asks for, alignments
          ReallocSizes, \* bytes a caller of tlsf_realloc asks for
          Owners        \* the callers, one region each

VARIABLES h, users, pools

tvars == <<h, users, pools>>

ALIGN_SIZE == 8
SL_INDEX_COUNT == 2 ^ SL_INDEX_COUNT_LOG2
FL_INDEX_SHIFT == SL_INDEX_COUNT_LOG2 + 3
FL_INDEX_COUNT == FL_INDEX_MAX - FL_INDEX_SHIFT + 1
\* in words from here on
SMALL_BLOCK_SIZE == 2 ^ FL_INDEX_SHIFT \div ALIGN_SIZE
block_header_overhead == 1
block_start_offset == 2
sizeof_block_header == 4
block_size_min == 3
block_size_max == 2 ^ FL_INDEX_MAX \div ALIGN_SIZE
block_null == 0

\* what a word holds; flags are 0, 1, or 2 when nobody has written them
Junk == [is |-> "junk"]
Data(i) == [is |-> "data", of |-> i]
Link(b) == [is |-> "link", to |-> b]
SizeWord(n, free, prev) == [is |-> "size", n |-> n, free |-> free, prev |-> prev]

tlsf_fls(w) == CHOOSE k \in 0..31 : 2 ^ k <= w /\ w < 2 ^ (k + 1)
tlsf_ffs(S) == CHOOSE k \in S : \A m \in S : k <= m     \* of a bitmap
Log(size) == tlsf_fls(size) + 3                          \* tlsf_fls_sizet(bytes)
---------------------------------------------------------------------------
(* block_header_t member functions                                         *)
Store(hp, a, v) == [hp EXCEPT !.mem[a] = v]
Hdr(hp, b) == hp.mem[b + 1]
Follow(w) == IF w.is = "link" THEN w.to ELSE -1
block_size(hp, b) == Hdr(hp, b).n
block_set_size(hp, b, size) ==
    LET old == Hdr(hp, b) IN
    Store(hp, b + 1, IF old.is = "size" THEN SizeWord(size, old.free, old.prev)
                     ELSE SizeWord(size, 2, 2))
block_is_last(hp, b) == block_size(hp, b) = 0
block_is_free(hp, b) == Hdr(hp, b).free = 1
block_set_free(hp, b) == [hp EXCEPT !.mem[b + 1].free = 1]
block_set_used(hp, b) == [hp EXCEPT !.mem[b + 1].free = 0]
block_is_prev_free(hp, b) == Hdr(hp, b).prev = 1
block_set_prev_free(hp, b) == [hp EXCEPT !.mem[b + 1].prev = 1]
block_set_prev_used(hp, b) == [hp EXCEPT !.mem[b + 1].prev = 0]
block_from_ptr(p) == p - block_start_offset
block_to_ptr(b) == b + block_start_offset
offset_to_block(p, size) == p + size
block_prev(hp, b) == Follow(hp.mem[b])
block_next(hp, b) == offset_to_block(block_to_ptr(b), block_size(hp, b) - block_header_overhead)
block_link_next(hp, b) == Store(hp, block_next(hp, b), Link(b))
block_mark_as_free(hp, b) ==
    LET linked == block_link_next(hp, b) IN
    block_set_free(block_set_prev_free(linked, block_next(linked, b)), b)
block_mark_as_used(hp, b) == block_set_used(block_set_prev_used(hp, block_next(hp, b)), b)
---------------------------------------------------------------------------
(* Sizes and lists                                                         *)
align_up(x, align) == ((x + align - 1) \div align) * align
align_down(x, align) == x - (x % align)
align_ptr(p, align) == align_up(p, align)

\* bytes to words: 0 for nothing, or for more than the lists can hold
adjust_request_size(bytes, align) ==
    LET aligned == align_up(bytes, align) \div ALIGN_SIZE IN
    IF bytes = 0 \/ aligned >= block_size_max THEN 0
    ELSE IF aligned < block_size_min THEN block_size_min ELSE aligned

mapping_insert(size) ==
    IF size < SMALL_BLOCK_SIZE THEN <<0, size>>
    ELSE <<Log(size) - (FL_INDEX_SHIFT - 1),
           (size * ALIGN_SIZE) \div 2 ^ (Log(size) - SL_INDEX_COUNT_LOG2) - SL_INDEX_COUNT>>

\* rounded up, so that every block of the list found is large enough
Rounded(size) ==
    LET bytes == size * ALIGN_SIZE IN
    IF size < SMALL_BLOCK_SIZE THEN size
    ELSE (bytes + 2 ^ (Log(size) - SL_INDEX_COUNT_LOG2) - 1) \div ALIGN_SIZE
mapping_search(size) == mapping_insert(Rounded(size))

\* the list a block is taken from; <<-1, -1>> when memory is exhausted
search_suitable_block(hp, fl, sl) ==
    LET sl_map == {k \in hp.sl[fl] : k >= sl}
        fl_map == {k \in hp.fl : k > fl} IN
    IF sl_map # {} THEN <<fl, tlsf_ffs(sl_map)>>
    ELSE IF fl_map = {} THEN <<-1, -1>>
    ELSE <<tlsf_ffs(fl_map), tlsf_ffs(hp.sl[tlsf_ffs(fl_map)])>>

remove_free_block(hp, b, fl, sl) ==
    LET prev == Follow(hp.mem[b + 3])
        next == Follow(hp.mem[b + 2])
        unlinked == Store(Store(hp, next + 3, Link(prev)), prev + 2, Link(next))
        head == [unlinked EXCEPT !.blocks[fl][sl] = next]
        empty == [head EXCEPT !.sl[fl] = @ \ {sl}] IN
    IF hp.blocks[fl][sl] # b THEN unlinked
    ELSE IF next # block_null THEN head
    ELSE IF empty.sl[fl] # {} THEN empty
    ELSE [empty EXCEPT !.fl = @ \ {fl}]

insert_free_block(hp, b, fl, sl) ==
    LET current == hp.blocks[fl][sl]
        linked == Store(Store(Store(hp, b + 2, Link(current)), b + 3, Link(block_null)),
                        current + 3, Link(b)) IN
    [linked EXCEPT !.blocks[fl][sl] = b, !.fl = @ \cup {fl}, !.sl[fl] = @ \cup {sl}]

block_remove(hp, b) ==
    LET m == mapping_insert(block_size(hp, b)) IN remove_free_block(hp, b, m[1], m[2])
block_insert(hp, b) ==
    LET m == mapping_insert(block_size(hp, b)) IN insert_free_block(hp, b, m[1], m[2])
---------------------------------------------------------------------------
(* Splitting and merging; the block a C function returns is an operator of *)
(* its own                                                                 *)
block_can_split(hp, b, size) == block_size(hp, b) >= sizeof_block_header + size

Remaining(b, size) == offset_to_block(block_to_ptr(b), size - block_header_overhead)
block_split(hp, b, size) ==
    LET rest == Remaining(b, size)
        remain_size == block_size(hp, b) - (size + block_header_overhead)
        sized == block_set_size(block_set_size(hp, rest, remain_size), b, size) IN
    block_mark_as_free(sized, rest)

block_absorb(hp, prev, b) ==
    LET grown == [hp EXCEPT !.mem[prev + 1].n = @ + block_size(hp, b) + block_header_overhead] IN
    block_link_next(grown, prev)

MergedPrev(hp, b) == IF block_is_prev_free(hp, b) THEN block_prev(hp, b) ELSE b
block_merge_prev(hp, b) ==
    IF ~block_is_prev_free(hp, b) THEN hp
    ELSE LET prev == block_prev(hp, b) IN block_absorb(block_remove(hp, prev), prev, b)

block_merge_next(hp, b) ==
    LET next == block_next(hp, b) IN
    IF ~block_is_free(hp, next) THEN hp
    ELSE block_absorb(block_remove(hp, next), b, next)

block_trim_free(hp, b, size) ==
    IF ~block_can_split(hp, b, size) THEN hp
    ELSE LET rest == Remaining(b, size)
             split == block_link_next(block_split(hp, b, size), b) IN
         block_insert(block_set_prev_free(split, rest), rest)

MutantTrim(hp, b, size) ==   \* the rest is not merged with the free block after it
    IF ~block_can_split(hp, b, size) THEN hp
    ELSE block_insert(block_set_prev_used(block_split(hp, b, size), Remaining(b, size)),
                      Remaining(b, size))
block_trim_used(hp, b, size) ==
    IF ~block_can_split(hp, b, size) THEN hp
    ELSE LET rest == Remaining(b, size)
             split == block_set_prev_used(block_split(hp, b, size), rest) IN
         block_insert(block_merge_next(split, rest), rest)

\* block_can_split always holds for the block memalign located
block_trim_free_leading(hp, b, size) ==
    LET rest == Remaining(b, size - block_header_overhead)
        split == block_set_prev_free(block_split(hp, b, size - block_header_overhead), rest) IN
    block_insert(block_link_next(split, b), b)

\* the list a block of this size is taken from, <<-1, -1>> for none
Located(hp, size) ==
    LET m == mapping_search(size) IN
    IF size = 0 \/ m[1] >= FL_INDEX_COUNT THEN <<-1, -1>>
    ELSE search_suitable_block(hp, m[1], m[2])
block_locate_free(hp, m) == remove_free_block(hp, hp.blocks[m[1]][m[2]], m[1], m[2])

block_prepare_used(hp, b, size) == block_mark_as_used(block_trim_free(hp, b, size), b)

control_construct ==
    [mem |-> 2 :> Link(block_null) @@ 3 :> Link(block_null) @@ [a \in 0..MemWords - 1 |-> Junk],
     fl |-> {}, sl |-> [i \in 0..FL_INDEX_COUNT - 1 |-> {}],
     blocks |-> [i \in 0..FL_INDEX_COUNT - 1 |-> [j \in 0..SL_INDEX_COUNT - 1 |-> block_null]]]
---------------------------------------------------------------------------
(* Pools                                                                   *)
tlsf_pool_overhead == 2 * block_header_overhead
PoolSize(bytes) == align_down(bytes - tlsf_pool_overhead * ALIGN_SIZE, ALIGN_SIZE) \div ALIGN_SIZE
PoolAccepted(bytes) == PoolSize(bytes) >= block_size_min /\ PoolSize(bytes) <= block_size_max
PoolBlock(mem) == offset_to_block(mem, -block_header_overhead)

PoolAdded(hp, mem, bytes) ==
    LET b == PoolBlock(mem)
        sized == block_set_prev_used(block_set_free(block_set_size(hp, b, PoolSize(bytes)), b), b)
        linked == block_link_next(block_insert(sized, b), b)
        next == block_next(linked, b) IN
    block_set_prev_free(block_set_used(block_set_size(linked, next, 0), next), next)

tlsf_add_pool(mem) ==
    /\ mem \notin pools /\ PoolAccepted(Pools[mem])
    /\ h' = PoolAdded(h, mem, Pools[mem])
    /\ pools' = pools \cup {mem}
    /\ UNCHANGED users

\* the caller has freed everything in the pool: its first block is free and
\* the block after it is the sentinel
tlsf_remove_pool(mem) ==
    LET b == PoolBlock(mem) IN
    /\ mem \in pools /\ block_is_free(h, b) /\ block_size(h, b) = PoolSize(Pools[mem])
    /\ h' = block_remove(h, b)
    /\ pools' = pools \ {mem}
    /\ UNCHANGED users
---------------------------------------------------------------------------
(* The interface.  An owner is given its region's address and the words it *)
(* may use, all of those the bytes it asked for lie in.                    *)
CeilWords(bytes) == (bytes + ALIGN_SIZE - 1) \div ALIGN_SIZE
Owning(i, p, bytes, align, wrote) ==
    [j \in DOMAIN users \cup {i} |->
        IF j # i THEN users[j]
        ELSE [at |-> p, len |-> CeilWords(bytes), align |-> CeilWords(align), wrote |-> wrote]]
Released(i) == [j \in DOMAIN users \ {i} |-> users[j]]
Smaller(a, b) == IF a < b THEN a ELSE b

\* the block tlsf_malloc returns (block_null: none) and the heap it leaves
MallocBlock(hp, size) ==
    LET m == Located(hp, size) IN IF m[1] = -1 THEN block_null ELSE hp.blocks[m[1]][m[2]]
Malloced(hp, size) ==
    IF MallocBlock(hp, size) = block_null THEN hp
    ELSE block_prepare_used(block_locate_free(hp, Located(hp, size)), MallocBlock(hp, size), size)

tlsf_malloc(i, bytes) ==
    LET size == adjust_request_size(bytes, ALIGN_SIZE)
        b == MallocBlock(h, size) IN
    /\ i \notin DOMAIN users
    /\ h' = Malloced(h, size)
    /\ users' = IF b = block_null THEN users ELSE Owning(i, block_to_ptr(b), bytes, ALIGN_SIZE, 0)
    /\ UNCHANGED pools

\* words between the block's data and the aligned address the caller gets
Gap(p, align) ==
    LET gap == align_ptr(p, align) - p
        remain == sizeof_block_header - gap
        offset == IF remain > align THEN remain ELSE align IN
    IF gap = 0 \/ gap >= sizeof_block_header THEN gap
    ELSE align_ptr(align_ptr(p, align) + offset, align) - p

AlignedSize(bytes, align) ==
    LET adjust == adjust_request_size(bytes, ALIGN_SIZE) IN
    IF adjust = 0 \/ align <= ALIGN_SIZE THEN adjust
    ELSE adjust_request_size(adjust * ALIGN_SIZE + align + sizeof_block_header * ALIGN_SIZE, align)

tlsf_memalign(i, align, bytes) ==
    LET adjust == adjust_request_size(bytes, ALIGN_SIZE)
        m == Located(h, AlignedSize(bytes, align))
        b == IF m[1] = -1 THEN block_null ELSE h.blocks[m[1]][m[2]]
        taken == block_locate_free(h, m)
        gap == Gap(block_to_ptr(b), align \div ALIGN_SIZE)
        fits == IF gap = 0 THEN b ELSE Remaining(b, gap - block_header_overhead)
        led == IF gap = 0 THEN taken ELSE block_trim_free_leading(taken, b, gap) IN
    /\ i \notin DOMAIN users
    /\ IF b = block_null
       THEN UNCHANGED <<h, users>>
       ELSE /\ h' = block_prepare_used(led, fits, adjust)
            /\ users' = Owning(i, block_to_ptr(fits), bytes, align, 0)
    /\ UNCHANGED pools

Freed(hp, b) ==
    LET marked == block_mark_as_free(hp, b)
        prev == MergedPrev(marked, b) IN
    block_insert(block_merge_next(block_merge_prev(marked, b), prev), prev)

tlsf_free(i) ==
    /\ i \in DOMAIN users
    /\ h' = Freed(h, block_from_ptr(users[i].at))
    /\ users' = Released(i)
    /\ UNCHANGED pools

MutantCopy(hp, dst, src, n) ==   \* stops one word early
    [hp EXCEPT !.mem = [a \in dst .. dst + n - 2 |-> hp.mem[src + (a - dst)]] @@ @]
memcpy(hp, dst, src, n) ==
    [hp EXCEPT !.mem = [a \in dst .. dst + n - 1 |-> hp.mem[src + (a - dst)]] @@ @]

tlsf_realloc(i, bytes) ==
    LET p == users[i].at
        b == block_from_ptr(p)
        next == block_next(h, b)
        cursize == block_size(h, b)
        combined == cursize + block_size(h, next) + block_header_overhead
        adjust == adjust_request_size(bytes, ALIGN_SIZE)
        new == MallocBlock(h, adjust)
        minsize == Smaller(cursize, CeilWords(bytes))
        kept == Smaller(users[i].wrote, CeilWords(bytes))
        grown == IF adjust > cursize
                 THEN block_mark_as_used(block_merge_next(h, b), b) ELSE h IN
    /\ i \in DOMAIN users
    /\ UNCHANGED pools
    /\ \/ /\ adjust > cursize /\ (~block_is_free(h, next) \/ adjust > combined)
          /\ new = block_null
          /\ UNCHANGED <<h, users>>
       \/ /\ adjust > cursize /\ (~block_is_free(h, next) \/ adjust > combined)
          /\ new # block_null
          /\ h' = Freed(memcpy(Malloced(h, adjust), block_to_ptr(new), p, minsize), b)
          /\ users' = Owning(i, block_to_ptr(new), bytes, ALIGN_SIZE, kept)
       \/ /\ adjust <= cursize \/ (block_is_free(h, next) /\ adjust <= combined)
          /\ h' = block_trim_used(grown, b, adjust)
          /\ users' = Owning(i, p, bytes, ALIGN_SIZE, kept)

\* the owner writes its region
OwnerWrites(i) ==
    /\ i \in DOMAIN users /\ users[i].wrote < users[i].len
    /\ h' = [h EXCEPT !.mem = [a \in users[i].at .. users[i].at + users[i].len - 1 |-> Data(i)] @@ @]
    /\ users' = [users EXCEPT ![i].wrote = users[i].len]
    /\ UNCHANGED pools

TlsfInit == h = control_construct /\ users = <<>> /\ pools = {}
TlsfNext ==
    \/ \E mem \in DOMAIN Pools : tlsf_add_pool(mem) \/ tlsf_remove_pool(mem)
    \/ \E i \in Owners : \/ \E n \in Sizes : tlsf_malloc(i, n)
                         \/ \E n \in Sizes, a \in Aligns : tlsf_memalign(i, a, n)
                         \/ \E n \in ReallocSizes : tlsf_realloc(i, n)
                         \/ tlsf_free(i)
                         \/ OwnerWrites(i)
TlsfSpec == TlsfInit /\ [][TlsfNext]_tvars
---------------------------------------------------------------------------
(* tlsf_check and tlsf_check_pool, as sets of the blocks they walk         *)
RECURSIVE WalkPool(_, _), WalkList(_, _)
WalkPool(hp, b) == IF block_is_last(hp, b) THEN {} ELSE {b} \cup WalkPool(hp, block_next(hp, b))
WalkList(hp, b) == IF b = block_null THEN {} ELSE {b} \cup WalkList(hp, Follow(hp.mem[b + 2]))

tlsf_check(hp) ==
    \A i \in 0..FL_INDEX_COUNT - 1, j \in 0..SL_INDEX_COUNT - 1 :
        /\ hp.sl[i] # {} => i \in hp.fl
        /\ j \in hp.sl[i] <=> hp.blocks[i][j] # block_null
        /\ \A b \in WalkList(hp, hp.blocks[i][j]) :
              LET next == block_next(hp, b) IN
              /\ block_is_free(hp, b) /\ ~block_is_prev_free(hp, b)
              /\ ~block_is_free(hp, next) /\ block_is_prev_free(hp, next)
              /\ block_size(hp, b) >= block_size_min
              /\ mapping_insert(block_size(hp, b)) = <<i, j>>

\* integrity_walker: a block knows whether the block before it is free
tlsf_check_pool(hp, mem) ==
    LET blocks == WalkPool(hp, PoolBlock(mem)) IN
    /\ ~block_is_prev_free(hp, PoolBlock(mem))
    /\ \A b \in blocks : LET next == block_next(hp, b) IN
          next \in blocks => (block_is_free(hp, b) <=> block_is_prev_free(hp, next))

FreeBlocks(hp) == UNION {UNION {WalkList(hp, hp.blocks[i][j]) : j \in 0..SL_INDEX_COUNT - 1}
                           : i \in 0..FL_INDEX_COUNT - 1}
PoolBlocks(mem) == WalkPool(h, PoolBlock(mem))

\* The bitmaps, the lists and the blocks agree after every call: what
\* tlsf_check and tlsf_check_pool look for, and what they do not: the blocks
\* of a pool fill it exactly, each is either in a free list or an owner's,
\* and no flag is left as the memory happened to hold it (tlsf.c:820-912).
HeapConsistent ==
    LET free == FreeBlocks(h) IN
    /\ tlsf_check(h)
    /\ \A i \in DOMAIN users : block_size(h, block_from_ptr(users[i].at)) >= users[i].len
    /\ \A mem \in pools :
          LET blocks == PoolBlocks(mem) IN
          /\ tlsf_check_pool(h, mem)
          /\ {b \in blocks : block_is_free(h, b)} = free \cap blocks
          /\ {block_to_ptr(b) : b \in blocks \ free} \subseteq {users[i].at : i \in DOMAIN users}
          /\ \E b \in blocks : block_next(h, b) = mem + PoolSize(Pools[mem])
          /\ \A b \in blocks : Hdr(h, b).free # 2 /\ Hdr(h, b).prev # 2

\* A request is refused only when no free block has the size it is rounded
\* up to: the bitmaps and the lists never hide a block (tlsf.c:532-570,
\* block_locate_free).
FailsOnlyWhenFull ==
    LET sizes == {0} \cup {block_size(h, b) : b \in FreeBlocks(h)} IN
    \A size \in block_size_min..block_size_max - 1 :
        Located(h, size) = <<-1, -1>> => \A n \in sizes : n < Rounded(size)

\* The whole heap between two calls: its blocks and lists agree, and it serves
\* every request it can (tlsf.c: tlsf_check_pool, tlsf_check).
HeapIsSound == HeapConsistent /\ FailsOnlyWhenFull

---------------------------------------------------------------------------
\* what is left, word by word from the start, of what an owner wrote
Left(i) == LET r == users[i] IN
    CHOOSE k \in 0..r.wrote : /\ \A a \in r.at .. r.at + k - 1 : h.mem[a] = Data(i)
                              /\ k < r.wrote => h.mem[r.at + k] # Data(i)
A == INSTANCE Allocator WITH
        live <- [i \in DOMAIN users |-> [users[i] EXCEPT !.wrote = Left(i)]],
        given <- UNION {mem .. mem + PoolSize(Pools[mem]) + 1 : mem \in pools}
\* Malloc, memalign, realloc and free of this heap are those of Allocator:
\* regions are disjoint, inside the pools, and keep what their owners wrote,
\* through splits, merges and the copy realloc makes (tlsf.c:1076-1219).
IsAllocator == A!AllocatorSpec

\* two heaps that differ only in words nobody may read behave alike
Meaningful ==
    {b + 1 : b \in UNION {PoolBlocks(mem) \cup {mem + PoolSize(Pools[mem])} : mem \in pools}}
    \cup UNION {{b + 2, b + 3, block_next(h, b)} : b \in FreeBlocks(h)}
    \cup UNION {users[i].at .. users[i].at + Left(i) - 1 : i \in DOMAIN users}
HeapView == [h EXCEPT !.mem = [a \in Meaningful |-> @[a]]]
=============================================================================
