----------------------------- MODULE PoolProofs -----------------------------
(***************************************************************************)
(* The pool allocator keeps a stack of free blocks: what its fields are    *)
(* after each operation, for every size of the pool.                       *)
(***************************************************************************)
EXTENDS PoolAllocator, SequenceLemmas

(* A pool of n blocks whose free list is q. *)
Keeps(a, n, q) == a \in Pool(n) /\ q \in Seq(Blocks(n)) /\ IsFreeList(a, q)

(* The fields of a pool make at most one free list. *)
LEMMA OneFreeList ==
  ASSUME NEW n \in Nat, NEW a, NEW q, NEW r, Keeps(a, n, q), Keeps(a, n, r)
  PROVE  q = r
<1>1. /\ q \in Seq(Blocks(n)) /\ r \in Seq(Blocks(n))
      /\ Len(q) = a.size /\ Len(r) = a.size /\ a.size \in Nat
  BY DEF Keeps, IsFreeList
<1> DEFINE S == {k \in 0 .. a.size : \A j \in 1 .. k : q[j] = r[j]}
<1>2. ASSUME NEW k \in S, k < a.size PROVE k + 1 \in S
  <2>1. q[k + 1] = r[k + 1]
    <3>1. CASE k = 0
      BY <1>1, <1>2, <3>1 DEF Keeps, IsFreeList, FreeListIs
    <3>2. CASE k > 0
      <4>1. k \in 1 .. a.size /\ k # a.size /\ q[k] = r[k]
        BY <1>1, <1>2, <3>2
      <4>2. a.free_list[q[k]] = q[k + 1] /\ a.free_list[r[k]] = r[k + 1]
        BY <1>1, <4>1 DEF Keeps, IsFreeList, FreeListIs
      <4> QED BY <4>1, <4>2
    <3> QED BY <1>1, <3>1, <3>2
  <2> QED BY <1>1, <1>2, <2>1
<1>3. a.size \in S
  <2>1. 0 \in S /\ S \in SUBSET (0 .. a.size)
    BY <1>1
  <2> HIDE DEF S
  <2> QED BY <1>1, <1>2, <2>1, Induction
<1>4. \A j \in 1 .. a.size : q[j] = r[j]
  BY <1>3
<1> QED BY <1>1, <1>4, SeqEqual

LEMMA FreeListFound ==
  ASSUME NEW n \in Nat, NEW a, NEW q, Keeps(a, n, q)
  PROVE  HasFreeList(a) /\ FreeList(a) = q
<1>1. /\ q \in Seq(Blocks(n)) /\ Len(q) = a.size /\ a.size \in Nat
      /\ DOMAIN a.free_list = Blocks(n) /\ IsFreeList(a, q)
  BY DEF Keeps, IsFreeList, Pool
<1>2. \A r : r \in [1 .. a.size -> DOMAIN a.free_list] => r \in Seq(Blocks(n))
  BY <1>1
<1>3. q \in [1 .. a.size -> DOMAIN a.free_list]
  BY <1>1
<1>4. HasFreeList(a)
  BY <1>1, <1>3 DEF HasFreeList
<1>5. \A r \in [1 .. a.size -> DOMAIN a.free_list] : IsFreeList(a, r) => r = q
  BY <1>2, OneFreeList DEF Keeps
<1>6. FreeList(a) = CHOOSE r \in [1 .. a.size -> DOMAIN a.free_list] : IsFreeList(a, r)
  BY <1>4 DEF FreeList
<1> QED BY <1>1, <1>3, <1>4, <1>5, <1>6

---------------------------------------------------------------------------
(* After init the blocks are free in the order of their indices. *)
LEMMA InitKeeps ==
  ASSUME NEW n \in Nat \ {0}
  PROVE  Keeps(PoolAllocator_init(n), n, [i \in 1 .. n |-> i - 1])
<1> DEFINE a == PoolAllocator_init(n)
           q == [i \in 1 .. n |-> i - 1]
<1>1. a \in Pool(n)
  BY DEF PoolAllocator_init, Pool, Blocks, NullIdx, DetachedIdx
<1>2. q \in Seq(Blocks(n)) /\ Len(q) = n /\ q # <<>> /\ q[1] = 0
  BY DEF Blocks
<1>3. \A i \in 1 .. n : a.free_list[q[i]] = IF i = n THEN NullIdx ELSE q[i + 1]
  BY DEF PoolAllocator_init, Blocks, NullIdx
<1>4. \A b \in DOMAIN a.free_list : a.free_list[b] # DetachedIdx /\ q[b + 1] = b /\ b + 1 \in 1 .. n
  BY DEF PoolAllocator_init, Blocks, NullIdx, DetachedIdx
<1>5. a.first_idx = 0 /\ a.size = n
  BY DEF PoolAllocator_init
<1>6. \A i, j \in 1 .. n : q[i] = q[j] => i = j
  OBVIOUS
<1> HIDE DEF a, q
<1>7. \A b \in DOMAIN a.free_list : a.free_list[b] = DetachedIdx <=> \A i \in 1 .. Len(q) : q[i] # b
  BY <1>2, <1>4
<1>8. IsFreeList(a, q)
  BY <1>2, <1>3, <1>5, <1>6, <1>7 DEF IsFreeList, FreeListIs
<1>9. q \in Seq(Blocks(n))
  BY <1>2
<1>10. Keeps(a, n, q)
  BY <1>1, <1>8, <1>9 DEF Keeps
<1> QED BY <1>10 DEF a, q

(* getBlock pops the stack, and the block it hands out is the top. *)
LEMMA GetBlockPops ==
  ASSUME NEW n \in Nat, NEW a, NEW q, Keeps(a, n, q), ~ Exhausted(a)
  PROVE  /\ q # <<>> /\ a.first_idx = Head(q) /\ a.first_idx \in FreeBlocks(a)
         /\ Keeps(PoolAllocator_getBlock(a), n, Tail(q))
         /\ FreeBlocks(PoolAllocator_getBlock(a)) = FreeBlocks(a) \ {a.first_idx}
<1> DEFINE g == PoolAllocator_getBlock(a)
           h == a.first_idx
<1>1. /\ a \in Pool(n) /\ q \in Seq(Blocks(n)) /\ Len(q) = a.size
      /\ DOMAIN a.free_list = Blocks(n)
      /\ FreeListIs(a, q)
  BY DEF Keeps, IsFreeList, Pool
<1>2. q # <<>> /\ h = q[1] /\ h \in Blocks(n) /\ Len(q) >= 1 /\ Len(q) \in Nat
  BY <1>1 DEF Exhausted, FreeListIs, Pool
<1>3. /\ g.first_idx = a.free_list[h]
      /\ g.free_list = [a.free_list EXCEPT ![h] = DetachedIdx]
      /\ g.size = a.size - 1
      /\ g = [first_idx |-> a.free_list[h], free_list |-> [a.free_list EXCEPT ![h] = DetachedIdx],
              size |-> a.size - 1]
  BY DEF PoolAllocator_getBlock
<1> HIDE DEF g, h
<1>4. /\ Tail(q) \in Seq(Blocks(n)) /\ Len(Tail(q)) = Len(q) - 1
      /\ \A i \in 1 .. Len(q) - 1 : Tail(q)[i] = q[i + 1]
  BY <1>1, <1>2
<1>5. \A i \in 1 .. Len(q) : a.free_list[q[i]] = IF i = Len(q) THEN NullIdx ELSE q[i + 1]
  BY <1>1 DEF FreeListIs
<1>6. a.free_list[h] # DetachedIdx /\ a.free_list[h] \in Blocks(n) \cup {NullIdx}
  BY <1>1, <1>2, <1>5 DEF Blocks, NullIdx, DetachedIdx
<1>7. g \in Pool(n)
  BY <1>1, <1>2, <1>3, <1>6 DEF Pool
<1>8. g.first_idx = IF Tail(q) = <<>> THEN NullIdx ELSE Tail(q)[1]
  BY <1>2, <1>3, <1>4, <1>5
<1>9. \A i \in 1 .. Len(q) - 1 :
        /\ Tail(q)[i] # h /\ Tail(q)[i] \in Blocks(n)
        /\ g.free_list[Tail(q)[i]] = IF i = Len(q) - 1 THEN NullIdx ELSE Tail(q)[i + 1]
  <2> TAKE i \in 1 .. Len(q) - 1
  <2>1. i + 1 \in 1 .. Len(q) /\ 1 \in 1 .. Len(q) /\ i + 1 # 1 /\ q[i + 1] \in Blocks(n)
    BY <1>1, <1>2
  <2>2. q[i + 1] # h
    BY <1>1, <1>2, <2>1 DEF FreeListIs
  <2>3. g.free_list[q[i + 1]] = a.free_list[q[i + 1]]
    BY <1>1, <1>3, <2>1, <2>2
  <2>4. a.free_list[q[i + 1]] = IF i + 1 = Len(q) THEN NullIdx ELSE q[i + 1 + 1]
    BY <1>5, <2>1, Zenon
  <2>5. Tail(q)[i] = q[i + 1] /\ (i # Len(q) - 1 => Tail(q)[i + 1] = q[i + 1 + 1])
    <3>1. i # Len(q) - 1 => i + 1 \in 1 .. Len(q) - 1
      BY <1>2
    <3> QED BY <1>4, <3>1
  <2> QED BY <1>2, <2>1, <2>2, <2>3, <2>4, <2>5
<1>10. \A i, j \in 1 .. Len(q) - 1 : Tail(q)[i] = Tail(q)[j] => i = j
  <2> TAKE i, j \in 1 .. Len(q) - 1
  <2>1. i + 1 \in 1 .. Len(q) /\ j + 1 \in 1 .. Len(q)
    BY <1>2
  <2> QED BY <1>1, <1>2, <1>4, <2>1 DEF FreeListIs
<1>11. \A b \in Blocks(n) :
         g.free_list[b] = DetachedIdx <=> \A i \in 1 .. Len(q) - 1 : Tail(q)[i] # b
  <2> TAKE b \in Blocks(n)
  <2>1. CASE b = h
    BY <1>1, <1>2, <1>3, <1>9, <2>1
  <2>2. CASE b # h
    <3>1. g.free_list[b] = a.free_list[b]
      BY <1>1, <1>2, <1>3, <2>2
    <3>2. (\A i \in 1 .. Len(q) : q[i] # b) <=> \A i \in 1 .. Len(q) - 1 : Tail(q)[i] # b
      <4>1. \A i \in 1 .. Len(q) : i = 1 \/ i - 1 \in 1 .. Len(q) - 1
        BY <1>2
      <4>2. \A i \in 1 .. Len(q) - 1 : i + 1 \in 1 .. Len(q) /\ Tail(q)[i] = q[i + 1]
        BY <1>2, <1>4
      <4>3. \A i \in 1 .. Len(q) : i = 1 \/ q[i] = Tail(q)[i - 1]
        BY <1>2, <1>4, <4>1
      <4> QED BY <1>2, <2>2, <4>1, <4>2, <4>3
    <3> QED BY <1>1, <3>1, <3>2 DEF FreeListIs
  <2> QED BY <2>1, <2>2
<1>12. DOMAIN g.free_list = Blocks(n)
  BY <1>1, <1>3
<1>13. IsFreeList(g, Tail(q))
  <2>1. Len(Tail(q)) = Len(q) - 1 /\ g.size = a.size - 1 /\ Len(q) = a.size
    BY <1>1, <1>3, <1>4 DEF IsFreeList
  <2>2. FreeListIs(g, Tail(q))
    BY <1>4, <1>8, <1>9, <1>10, <1>11, <1>12, Zenon DEF FreeListIs
  <2> QED BY <2>1, <2>2 DEF IsFreeList
<1>14. FreeBlocks(g) = FreeBlocks(a) \ {h} /\ h \in FreeBlocks(a)
  BY <1>1, <1>2, <1>3, <1>6, <1>12 DEF FreeBlocks
<1> QED BY <1>2, <1>4, <1>7, <1>13, <1>14 DEF Keeps, g, h

(* releaseBlock pushes a block in use, and refuses any other. *)
LEMMA ReleasePushes ==
  ASSUME NEW n \in Nat, NEW a, NEW q, Keeps(a, n, q), NEW b \in Blocks(n)
  PROVE  IF b \in FreeBlocks(a) THEN PoolAllocator_releaseBlock(a, b) = a
         ELSE /\ Keeps(PoolAllocator_releaseBlock(a, b), n, <<b>> \o q)
              /\ FreeBlocks(PoolAllocator_releaseBlock(a, b)) = FreeBlocks(a) \cup {b}
<1>1. /\ a \in Pool(n) /\ q \in Seq(Blocks(n)) /\ Len(q) = a.size
      /\ DOMAIN a.free_list = Blocks(n)
      /\ FreeListIs(a, q)
  BY DEF Keeps, IsFreeList, Pool
<1>2. CASE b \in FreeBlocks(a)
  BY <1>2 DEF FreeBlocks, PoolAllocator_releaseBlock
<1>3. CASE b \notin FreeBlocks(a)
  <2> DEFINE g == PoolAllocator_releaseBlock(a, b)
             r == <<b>> \o q
  <2>1. a.free_list[b] = DetachedIdx
    BY <1>1, <1>3 DEF FreeBlocks
  <2>2. /\ g.first_idx = b /\ g.free_list = [a.free_list EXCEPT ![b] = a.first_idx]
        /\ g.size = a.size + 1
        /\ g = [first_idx |-> b, free_list |-> [a.free_list EXCEPT ![b] = a.first_idx],
                size |-> a.size + 1]
    BY <1>1, <2>1 DEF PoolAllocator_releaseBlock, Pool
  <2>3. /\ r \in Seq(Blocks(n)) /\ Len(r) = Len(q) + 1 /\ r[1] = b /\ Len(q) \in Nat
        /\ \A i \in 2 .. Len(q) + 1 : r[i] = q[i - 1]
    BY <1>1
  <2> HIDE DEF g, r
  <2>4. \A i \in 1 .. Len(q) : q[i] # b /\ q[i] \in Blocks(n)
    BY <1>1, <2>1 DEF FreeListIs
  <2>5. a.first_idx \in Blocks(n) \cup {NullIdx} /\ a.first_idx # DetachedIdx
    BY <1>1 DEF Pool, Blocks, NullIdx, DetachedIdx
  <2>6. \A i, j \in 1 .. Len(r) : r[i] = r[j] => i = j
    <3> TAKE i, j \in 1 .. Len(r)
    <3>1. (i = 1 \/ i - 1 \in 1 .. Len(q)) /\ (j = 1 \/ j - 1 \in 1 .. Len(q))
      BY <2>3
    <3>2. (i = 1 => r[i] = b) /\ (i # 1 => r[i] = q[i - 1])
      BY <2>3
    <3>3. (j = 1 => r[j] = b) /\ (j # 1 => r[j] = q[j - 1])
      BY <2>3
    <3>4. \A k, l \in 1 .. Len(q) : q[k] = q[l] => k = l
      BY <1>1 DEF FreeListIs
    <3> QED BY <2>3, <2>4, <3>1, <3>2, <3>3, <3>4
  <2>7. \A i \in 1 .. Len(r) : g.free_list[r[i]] = IF i = Len(r) THEN NullIdx ELSE r[i + 1]
    <3> TAKE i \in 1 .. Len(r)
    <3>1. CASE i = 1
      <4>1. g.free_list[r[1]] = a.first_idx
        BY <1>1, <2>2, <2>3
      <4>2. a.first_idx = IF q = <<>> THEN NullIdx ELSE q[1]
        BY <1>1 DEF FreeListIs
      <4>3. CASE q = <<>>
        BY <2>3, <3>1, <4>1, <4>2, <4>3
      <4>4. CASE q # <<>>
        <5>1. Len(q) >= 1
          BY <1>1, <4>4
        <5> QED BY <2>3, <3>1, <4>1, <4>2, <4>4, <5>1
      <4> QED BY <4>3, <4>4
    <3>2. CASE i # 1
      <4>1. i - 1 \in 1 .. Len(q) /\ r[i] = q[i - 1]
        BY <2>3, <3>2
      <4>2. g.free_list[r[i]] = a.free_list[q[i - 1]]
        BY <1>1, <2>2, <2>4, <4>1
      <4>3. a.free_list[q[i - 1]] = IF i - 1 = Len(q) THEN NullIdx ELSE q[i - 1 + 1]
        BY <1>1, <4>1 DEF FreeListIs
      <4>4. i # Len(r) => r[i + 1] = q[i - 1 + 1]
        <5>1. i + 1 - 1 = i /\ i - 1 + 1 = i /\ (i # Len(r) => i + 1 \in 2 .. Len(q) + 1)
          BY <2>3
        <5> QED BY <2>3, <5>1
      <4> QED BY <2>3, <4>1, <4>2, <4>3, <4>4
    <3> QED BY <3>1, <3>2
  <2>8. \A c \in Blocks(n) : g.free_list[c] = DetachedIdx <=> \A i \in 1 .. Len(r) : r[i] # c
    <3> TAKE c \in Blocks(n)
    <3>1. CASE c = b
      BY <1>1, <2>2, <2>3, <2>5, <3>1
    <3>2. CASE c # b
      <4>1. g.free_list[c] = a.free_list[c]
        BY <1>1, <2>2, <3>2
      <4>2. (\A i \in 1 .. Len(r) : r[i] # c) <=> \A i \in 1 .. Len(q) : q[i] # c
        <5>1. \A i \in 1 .. Len(q) : i + 1 \in 1 .. Len(r) /\ r[i + 1] = q[i]
          BY <2>3
        <5>2. \A i \in 1 .. Len(r) : i = 1 \/ (i - 1 \in 1 .. Len(q) /\ r[i] = q[i - 1])
          BY <2>3
        <5> QED BY <2>3, <3>2, <5>1, <5>2
      <4> QED BY <1>1, <4>1, <4>2 DEF FreeListIs
    <3> QED BY <3>1, <3>2
  <2>9. DOMAIN g.free_list = Blocks(n)
    BY <1>1, <2>2
  <2>10. r # <<>>
    BY <2>3
  <2>11. IsFreeList(g, r)
    BY <1>1, <2>2, <2>3, <2>6, <2>7, <2>8, <2>9, <2>10 DEF IsFreeList, FreeListIs
  <2>12. FreeBlocks(g) = FreeBlocks(a) \cup {b}
    BY <1>1, <2>2, <2>5, <2>9 DEF FreeBlocks
  <2>13. a.size + 1 \in 0 .. n
    <3> SUFFICES ASSUME Len(q) >= n PROVE FALSE
      BY <1>1 DEF Pool
    <3>1. Len(q) = n /\ q \in [1 .. n -> Blocks(n) \ {b}]
      BY <1>1, <2>4 DEF Pool
    <3>2. /\ IsFiniteSet(0 .. n - 1) /\ Cardinality(0 .. n - 1) = n
          /\ IsFiniteSet(1 .. n) /\ Cardinality(1 .. n) = n
      <4>1. n > 0
        BY DEF Blocks
      <4>2. /\ IsFiniteSet(0 .. n - 1)
            /\ Cardinality(0 .. n - 1) = IF 0 > n - 1 THEN 0 ELSE (n - 1) - 0 + 1
        BY FS_Interval, SMT
      <4>3. IsFiniteSet(1 .. n) /\ Cardinality(1 .. n) = IF 1 > n THEN 0 ELSE n - 1 + 1
        BY FS_Interval, SMT
      <4> QED BY <4>1, <4>2, <4>3
    <3>3. IsFiniteSet(Blocks(n) \ {b}) /\ Cardinality(Blocks(n) \ {b}) = n - 1
      <4>1. IsFiniteSet(Blocks(n)) /\ Cardinality(Blocks(n)) = n /\ b \in Blocks(n)
        BY <3>2 DEF Blocks
      <4> HIDE DEF Blocks
      <4> QED BY <4>1, FS_RemoveElement
    <3>4. PICK i, j \in 1 .. n : i # j /\ q[i] = q[j]
      <4> HIDE DEF Blocks
      <4>1. Cardinality(Blocks(n) \ {b}) < Cardinality(1 .. n)
        BY <3>2, <3>3
      <4> QED BY <3>1, <3>2, <3>3, <4>1, FS_PigeonHole
    <3> QED BY <1>1, <3>1, <3>4 DEF FreeListIs
  <2>14. g \in Pool(n)
    BY <1>1, <2>2, <2>5, <2>13 DEF Pool
  <2> QED BY <1>3, <2>3, <2>11, <2>12, <2>14 DEF Keeps, g, r
<1> QED BY <1>2, <1>3
===========================================================================
