-------------------------------- MODULE Tlsf --------------------------------
(***************************************************************************)
(* The allocator of kpm (base/tlsf.c) as kpmalloc.h uses it: one pool,     *)
(* blocks with boundary flags, and free lists indexed by two levels of     *)
(* size classes with a bitmap for each level.                              *)
(*                                                                         *)
(* Addresses and sizes are bytes; a block is the address of its header.    *)
(* heap.size, free, pfree and prev are the fields of the headers (prev is  *)
(* prev_phys_block, kept in the last word of the block before); list is    *)
(* control->blocks, as sequences; slmap and flmap are the bitmaps as sets. *)
(***************************************************************************)
EXTENDS Integers, Sequences, FiniteSets, FiniteSetsExt, TLC

CONSTANTS
    SL_INDEX_COUNT_LOG2, \* log2 of the classes of one power of two
    FL_INDEX_MAX,        \* log2 of the largest size
    PoolBytes,           \* memory handed to tlsf_add_pool()
    Sizes, Aligns        \* what callers ask for

ALIGN_SIZE == 8
Overhead == 8            \* block_header_overhead
HeaderSize == 32         \* sizeof(block_header_t)
block_size_min == 24

SL_INDEX_COUNT == 2 ^ SL_INDEX_COUNT_LOG2
FL_INDEX_SHIFT == SL_INDEX_COUNT_LOG2 + 3
FL_INDEX_COUNT == FL_INDEX_MAX - FL_INDEX_SHIFT + 1
SMALL_BLOCK_SIZE == 2 ^ FL_INDEX_SHIFT
block_size_max == 2 ^ FL_INDEX_MAX

ASSUME TlsfAssumption ==
    /\ SL_INDEX_COUNT_LOG2 \in Nat /\ FL_INDEX_MAX \in Nat /\ FL_INDEX_SHIFT < FL_INDEX_MAX
    /\ PoolBytes \in Nat /\ PoolBytes >= 2 * Overhead + block_size_min
    /\ PoolBytes < block_size_max
    /\ \A a \in Aligns : a > ALIGN_SIZE /\ a % ALIGN_SIZE = 0

\* No block: not an address of the pool.
Null == -1
First == 0
Addrs == {a \in 0..PoolBytes : a % ALIGN_SIZE = 0}

-----------------------------------------------------------------------------
(* Sizes and classes *)

align_up(x, align) == ((x + align - 1) \div align) * align

adjust_request_size(size, align) ==
    LET aligned == align_up(size, align)
    IN  IF size = 0 \/ aligned >= block_size_max THEN 0
        ELSE IF aligned > block_size_min THEN aligned ELSE block_size_min

tlsf_fls_sizet(size) == CHOOSE k \in 0..63 : 2 ^ k <= size /\ size < 2 ^ (k + 1)

mapping_insert(size) ==
    LET fl == tlsf_fls_sizet(size)
    IN  IF size < SMALL_BLOCK_SIZE THEN <<0, size \div ALIGN_SIZE>>
        ELSE <<fl - (FL_INDEX_SHIFT - 1),
               (size \div 2 ^ (fl - SL_INDEX_COUNT_LOG2)) - SL_INDEX_COUNT>>

\* Mutant: the class of the request itself is searched.
SearchWithoutRounding(size) == mapping_insert(size)

\* Every block of the class found fits the request.
mapping_search(size) ==
    IF size < SMALL_BLOCK_SIZE THEN mapping_insert(size)
    ELSE mapping_insert(size + 2 ^ (tlsf_fls_sizet(size) - SL_INDEX_COUNT_LOG2) - 1)

Classes == (0..(FL_INDEX_COUNT - 1)) \X (0..(SL_INDEX_COUNT - 1))

search_suitable_block(h, c) ==
    LET here == {s \in 0..(SL_INDEX_COUNT - 1) : s >= c[2] /\ <<c[1], s>> \in h.slmap}
        above == {f \in h.flmap : f > c[1]}
        fl == Min(above)
        first == {s \in 0..(SL_INDEX_COUNT - 1) : <<fl, s>> \in h.slmap}
    IN  CASE here # {} -> <<c[1], Min(here)>>
          [] here = {} /\ above # {} -> <<fl, Min(first)>>
          [] OTHER -> <<Null, Null>>

-----------------------------------------------------------------------------
(* Free lists *)

remove_free_block(h, b, c) ==
    LET rest == SelectSeq(h.list[c], LAMBDA x : x # b)
        empty == h.list[c] # <<>> /\ Head(h.list[c]) = b /\ rest = <<>>
        sl == IF empty THEN h.slmap \ {c} ELSE h.slmap
    IN  [h EXCEPT !.list[c] = rest, !.slmap = sl,
                  !.flmap = IF empty /\ \A d \in sl : d[1] # c[1] THEN @ \ {c[1]} ELSE @]

insert_free_block(h, b, c) ==
    [h EXCEPT !.list[c] = <<b>> \o @, !.slmap = @ \cup {c}, !.flmap = @ \cup {c[1]}]

block_remove(h, b) == remove_free_block(h, b, mapping_insert(h.size[b]))
block_insert(h, b) == insert_free_block(h, b, mapping_insert(h.size[b]))

-----------------------------------------------------------------------------
(* Blocks and their neighbours *)

block_next(h, b) == b + h.size[b] + Overhead
block_link_next(h, b) == [h EXCEPT !.prev[block_next(h, b)] = b]

block_mark_as_free(h, b) ==
    [block_link_next(h, b) EXCEPT !.pfree[block_next(h, b)] = TRUE, !.free[b] = TRUE]

block_mark_as_used(h, b) == [h EXCEPT !.pfree[block_next(h, b)] = FALSE, !.free[b] = FALSE]

block_can_split(h, b, size) == h.size[b] >= HeaderSize + size

\* Where block_split() puts the second block.
Remaining(b, size) == b + size + Overhead

\* block_split(): the flags of the second block are what that memory held,
\* until they are set.
block_split(h, b, size) ==
    LET r == Remaining(b, size)
    IN  block_mark_as_free([h EXCEPT !.size[r] = h.size[b] - (size + Overhead), !.size[b] = size], r)

block_absorb(h, prev, b) ==
    block_link_next([h EXCEPT !.size[prev] = @ + h.size[b] + Overhead], prev)

\* block_merge_prev() and block_merge_next(): the heap, and the block.
block_merge_prev(h, b) ==
    IF h.pfree[b] THEN [h |-> block_absorb(block_remove(h, h.prev[b]), h.prev[b], b), b |-> h.prev[b]]
    ELSE [h |-> h, b |-> b]

block_merge_next(h, b) ==
    LET next == block_next(h, b)
    IN  IF h.free[next] THEN block_absorb(block_remove(h, next), b, next) ELSE h

block_trim_free(h, b, size) ==
    LET r == Remaining(b, size)
    IN  IF ~block_can_split(h, b, size) THEN h
        ELSE block_insert([block_link_next(block_split(h, b, size), b) EXCEPT !.pfree[r] = TRUE], r)

block_trim_used(h, b, size) ==
    LET r == Remaining(b, size)
    IN  IF ~block_can_split(h, b, size) THEN h
        ELSE block_insert(block_merge_next([block_split(h, b, size) EXCEPT !.pfree[r] = FALSE], r), r)

\* block_trim_free_leading(): the second block is the one to use.
block_trim_free_leading(h, b, gap) ==
    LET r == Remaining(b, gap - Overhead)
    IN  IF ~block_can_split(h, b, gap) THEN [h |-> h, b |-> b]
        ELSE [h |-> block_insert(block_link_next([block_split(h, b, gap - Overhead)
                                                     EXCEPT !.pfree[r] = TRUE], b), b),
              b |-> r]

\* block_locate_free(): the block is out of its list.
block_locate_free(h, size) ==
    LET c == mapping_search(size)
        found == search_suitable_block(h, c)
    IN  IF size = 0 \/ c[1] >= FL_INDEX_COUNT \/ found = <<Null, Null>> THEN [h |-> h, b |-> Null]
        ELSE LET b == Head(h.list[found])
             IN  [h |-> remove_free_block(h, b, found), b |-> b]

block_prepare_used(h, b, size) == block_mark_as_used(block_trim_free(h, b, size), b)

-----------------------------------------------------------------------------
(* The pool *)

\* The blocks of the pool in order, tlsf_walk_pool().
Walk(h) ==
    LET at[n \in 0..(PoolBytes \div 32 + 2)] ==
            IF n = 0 THEN First
            ELSE LET b == at[n - 1]
                 IN  IF h.size[b] = 0 \/ block_next(h, b) \notin Addrs THEN b ELSE block_next(h, b)
    IN  {at[n] : n \in DOMAIN at}

\* Whatever is not a header holds the callers' data, and so does the word of
\* prev_phys_block behind a block in use.
Scribbled(h, junk) ==
    LET starts == Walk(h)
    IN  [h EXCEPT !.size = [a \in Addrs |-> IF a \in starts THEN @[a] ELSE 0],
                  !.free = [a \in Addrs |-> IF a \in starts THEN @[a] ELSE junk],
                  !.pfree = [a \in Addrs |-> IF a \in starts THEN @[a] ELSE junk],
                  !.prev = [a \in Addrs |-> IF a \in starts /\ h.pfree[a] THEN @[a] ELSE Null]]

VARIABLES
    heap,
    owned,      \* pointers callers hold (as blocks) -> the size they asked for
    junk        \* what the flag bits of memory that is no header look like

tlsfVars == <<heap, owned, junk>>

\* control_construct() and tlsf_add_pool(): one free block, and behind it a
\* sentinel of size 0.
tlsf_create_with_pool(j) ==
    LET bytes == ((PoolBytes - 2 * Overhead) \div ALIGN_SIZE) * ALIGN_SIZE
        last == bytes + Overhead
        empty == [size |-> [a \in Addrs |-> IF a = First THEN bytes ELSE 0],
                  free |-> [a \in Addrs |-> IF a = First THEN TRUE ELSE IF a = last THEN FALSE ELSE j],
                  pfree |-> [a \in Addrs |-> IF a = First THEN FALSE ELSE IF a = last THEN TRUE ELSE j],
                  prev |-> [a \in Addrs |-> IF a = last THEN First ELSE Null],
                  list |-> [c \in Classes |-> <<>>], slmap |-> {}, flmap |-> {}]
    IN  block_insert(empty, First)

TlsfInit ==
    /\ junk \in BOOLEAN
    /\ heap = tlsf_create_with_pool(junk)
    /\ owned = [b \in {} |-> 0]

\* tlsf_malloc(): the heap, and the block or Null.
tlsf_malloc(h, size) ==
    LET adjust == adjust_request_size(size, ALIGN_SIZE)
        l == block_locate_free(h, adjust)
    IN  IF l.b = Null THEN l ELSE [h |-> block_prepare_used(l.h, l.b, adjust), b |-> l.b]

Ptr(b) == b + 16 \* block_to_ptr()

\* tlsf_memalign(): a gap in front too small for a block is made larger.
tlsf_memalign(h, align, size) ==
    LET adjust == adjust_request_size(size, ALIGN_SIZE)
        l == block_locate_free(h, IF adjust = 0 THEN 0
                                  ELSE adjust_request_size(adjust + align + HeaderSize, align))
        gap0 == align_up(Ptr(l.b), align) - Ptr(l.b)
        offset == IF HeaderSize - gap0 > align THEN HeaderSize - gap0 ELSE align
        gap == IF gap0 # 0 /\ gap0 < HeaderSize
               THEN align_up(Ptr(l.b) + gap0 + offset, align) - Ptr(l.b) ELSE gap0
        t == IF gap = 0 THEN l ELSE block_trim_free_leading(l.h, l.b, gap)
    IN  IF l.b = Null THEN l ELSE [h |-> block_prepare_used(t.h, t.b, adjust), b |-> t.b]

tlsf_free(h, b) ==
    LET m == block_merge_prev(block_mark_as_free(h, b), b)
    IN  block_insert(block_merge_next(m.h, m.b), m.b)

\* tlsf_realloc() of a pointer to a size that is not 0: in place, with the
\* next block, or a copy.
tlsf_realloc(h, b, size) ==
    LET next == block_next(h, b)
        adjust == adjust_request_size(size, ALIGN_SIZE)
        moved == tlsf_malloc(h, size)
        grown == IF adjust > h.size[b] THEN block_mark_as_used(block_merge_next(h, b), b) ELSE h
    IN  IF adjust > h.size[b] /\ (~h.free[next] \/ adjust > h.size[b] + h.size[next] + Overhead)
        THEN IF moved.b = Null THEN moved ELSE [h |-> tlsf_free(moved.h, b), b |-> moved.b]
        ELSE [h |-> block_trim_used(grown, b, adjust), b |-> b]

-----------------------------------------------------------------------------
(* kp_malloc(), kp_memalign(), kp_realloc() and kp_free() *)

Without(f, b) == [x \in DOMAIN f \ {b} |-> f[x]]

\* A call that returned r: its caller holds the block, and writes to it.
Returned(r, before, size) ==
    /\ heap' = Scribbled(r.h, junk)
    /\ owned' = IF r.b = Null THEN before ELSE (r.b :> size) @@ before
    /\ UNCHANGED junk

kp_malloc(size) == Returned(tlsf_malloc(heap, size), owned, size)

kp_memalign(align, size) == Returned(tlsf_memalign(heap, align, size), owned, size)

kp_realloc(b, size) ==
    LET r == tlsf_realloc(heap, b, size)
    IN  Returned(r, IF r.b = Null THEN owned ELSE Without(owned, b), size)

kp_free(b) ==
    /\ heap' = Scribbled(tlsf_free(heap, b), junk) /\ owned' = Without(owned, b)
    /\ UNCHANGED junk

TlsfNext ==
    \/ \E s \in Sizes : kp_malloc(s) \/ \E a \in Aligns : kp_memalign(a, s)
    \/ \E b \in DOMAIN owned :
          \/ kp_free(b)
          \/ \E s \in Sizes : s # 0 /\ s < block_size_max /\ kp_realloc(b, s)

TlsfSpec == TlsfInit /\ [][TlsfNext]_tlsfVars

-----------------------------------------------------------------------------
\* tlsf_check(): lists and bitmaps agree, and a free block is coalesced, of
\* its class, and known as free to the next block.
tlsf_check ==
    \A c \in Classes :
        /\ c \in heap.slmap <=> heap.list[c] # <<>>
        /\ c \in heap.slmap => c[1] \in heap.flmap
        /\ \A i \in DOMAIN heap.list[c] :
              LET b == heap.list[c][i]
              IN  /\ heap.free[b] /\ ~heap.pfree[b] /\ heap.size[b] >= block_size_min
                  /\ ~heap.free[block_next(heap, b)] /\ heap.pfree[block_next(heap, b)]
                  /\ mapping_insert(heap.size[b]) = c

\* tlsf_check_pool(), integrity_walker(): each block's flag for the one before
\* is right, and the walk ends at the sentinel.
tlsf_check_pool ==
    LET blocks == Walk(heap)
    IN  /\ \A b \in blocks : heap.size[b] # 0 =>
              /\ block_next(heap, b) \in blocks
              /\ heap.pfree[block_next(heap, b)] = heap.free[b]
        /\ heap.size[Max(blocks)] = 0

\* The allocator's own checks never fail, whatever the callers wrote to their
\* memory; every block that is not in a list belongs to one caller, and has
\* at least the size that was asked for.
HeapIntact ==
    LET blocks == {b \in Walk(heap) : heap.size[b] # 0}
        free == UNION {{heap.list[c][i] : i \in DOMAIN heap.list[c]} : c \in Classes}
    IN  /\ tlsf_check /\ tlsf_check_pool
        /\ blocks = DOMAIN owned \cup free /\ DOMAIN owned \cap free = {}
        /\ \A b \in DOMAIN owned : heap.size[b] >= owned[b]
=============================================================================
