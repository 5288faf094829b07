--------------------------- MODULE PoolAllocator ---------------------------
(***************************************************************************)
(* pool_allocator.c.  A pool is a record of the fields that change:        *)
(*   first_idx : the first free block, or NullIdx                          *)
(*   free_list : from each free block to the next one, or NullIdx;         *)
(*               DetachedIdx for a block in use                            *)
(*   size      : how many blocks are free                                  *)
(* and the operations are functions from pools to pools.  A block is its   *)
(* index in the buffer: the callers never hold another pointer into it,    *)
(* so the tests of alignment and range do not appear.                      *)
(***************************************************************************)
EXTENDS Integers, Sequences

NullIdx     == -1
DetachedIdx == -2

Blocks(n) == 0 .. n - 1

PoolAllocator_init(n) ==
  [first_idx |-> 0,
   free_list |-> [i \in Blocks(n) |-> IF i = n - 1 THEN NullIdx ELSE i + 1],
   size      |-> n]

Exhausted(a) == a.first_idx = NullIdx

SizeKept(a) ==                                      \* slip: the size is not decremented
  [a EXCEPT !.first_idx = a.free_list[a.first_idx], !.free_list[a.first_idx] = DetachedIdx]

(* The pool after it has handed out its first block, a.first_idx. *)
PoolAllocator_getBlock(a) ==
  [first_idx |-> a.free_list[a.first_idx],
   free_list |-> [a.free_list EXCEPT ![a.first_idx] = DetachedIdx],
   size      |-> a.size - 1]

HeadStays(a, idx) ==                                \* slip: the head does not move to the block
  IF a.free_list[idx] # DetachedIdx THEN a
  ELSE [a EXCEPT !.free_list[idx] = a.first_idx, !.size = @ + 1]

(* The release of a block that is free already is refused (DoubleFree). *)
PoolAllocator_releaseBlock(a, idx) ==
  IF a.free_list[idx] # DetachedIdx THEN a
  ELSE [first_idx |-> idx,
        free_list |-> [a.free_list EXCEPT ![idx] = a.first_idx],
        size      |-> a.size + 1]

---------------------------------------------------------------------------
FreeBlocks(a) == {b \in DOMAIN a.free_list : a.free_list[b] # DetachedIdx}

(* The free list of pool a is the sequence q: it starts at first_idx, ends *)
(* with NullIdx, meets no block twice, and every other block is detached.  *)
FreeListIs(a, q) ==
  /\ a.first_idx = IF q = <<>> THEN NullIdx ELSE q[1]
  /\ \A i, j \in 1 .. Len(q) : q[i] = q[j] => i = j
  /\ \A i \in 1 .. Len(q) : a.free_list[q[i]] = IF i = Len(q) THEN NullIdx ELSE q[i + 1]
  /\ \A b \in DOMAIN a.free_list :
       a.free_list[b] = DetachedIdx <=> \A i \in 1 .. Len(q) : q[i] # b

(* The free list, if the fields of pool a make one of the right size, and  *)
(* a sequence that is no list of blocks if they do not.                    *)
IsFreeList(a, q) == FreeListIs(a, q) /\ Len(q) = a.size
HasFreeList(a)   == \E q \in [1 .. a.size -> DOMAIN a.free_list] : IsFreeList(a, q)
FreeList(a)      ==
  IF HasFreeList(a)
  THEN CHOOSE q \in [1 .. a.size -> DOMAIN a.free_list] : IsFreeList(a, q)
  ELSE <<DetachedIdx>>

Pool(n) == [first_idx : Blocks(n) \cup {NullIdx},
            free_list : [Blocks(n) -> Blocks(n) \cup {NullIdx, DetachedIdx}],
            size      : 0 .. n]
===========================================================================
