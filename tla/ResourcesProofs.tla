-------------------------- MODULE ResourcesProofs --------------------------
(***************************************************************************)
(* What TLC checks of Resources on small instances, proved for every       *)
(* number of processes, blocks, ids and types.  The theorems are about     *)
(* ResSpec, the part of the behaviour that touches the state of resources, *)
(* so they hold of any system whose steps change that state only through   *)
(* the actions of Resources.                                               *)
(***************************************************************************)
EXTENDS Resources, PoolProofs, SequenceLemmas

(* The steps that change something; every other branch only returns.       *)
ResEffect ==
  \/ UNCHANGED resVars
  \/ \E p \in PCB, id \in ResourceIds, type \in ResourceTypes, open_mode \in OpenModes,
        r \in Resource :
       \/ OpenNoFd(id, type, open_mode, r)
       \/ \E d \in Descriptor : OpenOk(p, id, type, open_mode, r, d)
  \/ \E p \in PCB, fd \in 0 .. MaxResourceFd : CloseOk(p, fd)
  \/ \E id \in ResourceIds : DestroyOk(id)
  \/ \E p \in PCB : NewDescriptorTable(p) \/ ReleaseAll(p)

LEMMA StepIsResEffect == [ResNext]_resVars => ResEffect
<1> SUFFICES ASSUME ResNext PROVE ResEffect
  BY DEF ResEffect
<1>1. PICK p \in PCB : ResSyscall(p) \/ NewDescriptorTable(p) \/ ReleaseAll(p)
  BY DEF ResNext
<1>2. CASE OpenResource(p)
  BY <1>2 DEF OpenResource, ResEffect, OpenExists, OpenNoBlock, OpenMissing, OpenNoExcl,
              FindsResource, resVars
<1>3. CASE \E fd \in 0 .. MaxResourceFd : CloseResource(p, fd)
  BY <1>3 DEF CloseResource, CloseBadFd, ResEffect
<1>4. CASE \E id \in ResourceIds : DestroyResource(id)
  BY <1>4 DEF DestroyResource, DestroyMissing, DestroyInUse, ResEffect
<1>5. CASE NewDescriptorTable(p) \/ ReleaseAll(p)
  BY <1>5 DEF ResEffect
<1> QED BY <1>1, <1>2, <1>3, <1>4, <1>5 DEF ResSyscall

---------------------------------------------------------------------------
(* The invariant: the checked ones, and that the fields of the allocator   *)
(* make a free list. *)
PoolKept == \E q : Keeps(resource_pool, MAX_NUM_RESOURCES, q)
ResInv ==
  ResTypeOK /\ PoolKept /\ ResourceTables /\ ListIsPool /\ ResourceFdsUnique /\ PtrBlocksInStep

LEMMA PoolFields ==
  ASSUME PoolKept
  PROVE  /\ resource_pool \in Pool(MAX_NUM_RESOURCES)
         /\ DOMAIN resource_pool.free_list = Resource
  BY DEF PoolKept, Keeps, Pool, Resource

(* A create takes a block that is in no list, and a destroy gives one back *)
(* that the pool has handed out.                                           *)
LEMMA CreateTakes ==
  ASSUME ResInv, NEW id \in ResourceIds, NEW type \in ResourceTypes, NEW open_mode,
         NEW r \in Resource, CreatesResource(id, type, open_mode, r)
  PROVE  /\ PoolKept' /\ resource_pool' \in Pool(MAX_NUM_RESOURCES)
         /\ r \in FreeBlocks(resource_pool) /\ r \notin resources_list
         /\ FreeBlocks(resource_pool') = FreeBlocks(resource_pool) \ {r}
         /\ resources_list' = resources_list \cup {r}
         /\ ListIsPool'
<1>1. MAX_NUM_RESOURCES \in Nat
  BY ResConstantsAssumption
<1>2. PICK q : Keeps(resource_pool, MAX_NUM_RESOURCES, q)
  BY DEF ResInv, PoolKept
<1>3. /\ ~ Exhausted(resource_pool) /\ r = resource_pool.first_idx
      /\ resource_pool' = PoolAllocator_getBlock(resource_pool)
      /\ resources_list' = resources_list \cup {r}
      /\ res_id' = [res_id EXCEPT ![r] = id]
      /\ \A t \in resources_list : res_id[t] # id
  BY DEF CreatesResource, ResourceById
<1>4. /\ Keeps(resource_pool', MAX_NUM_RESOURCES, Tail(q))
      /\ r \in FreeBlocks(resource_pool)
      /\ FreeBlocks(resource_pool') = FreeBlocks(resource_pool) \ {r}
  BY <1>1, <1>2, <1>3, GetBlockPops
<1>5. PoolKept' /\ resource_pool' \in Pool(MAX_NUM_RESOURCES)
  BY <1>4 DEF PoolKept, Keeps
<1>6. r \notin resources_list
  BY <1>4 DEF ResInv, ListIsPool
<1>7. resources_list' = Resource \ FreeBlocks(resource_pool')
  BY <1>3, <1>4, <1>6 DEF ResInv, ListIsPool
<1>8. \A t \in resources_list : t \in Resource /\ res_id'[t] = res_id[t] /\ res_id'[t] # id
  BY <1>3, <1>6 DEF ResInv, ResTypeOK
<1>9. res_id'[r] = id
  BY <1>3 DEF ResInv, ResTypeOK
<1>10. ListIsPool'
  BY <1>3, <1>7, <1>8, <1>9 DEF ResInv, ListIsPool
<1> QED BY <1>3, <1>4, <1>5, <1>6, <1>10

LEMMA DestroyGives ==
  ASSUME ResInv, NEW id, DestroyOk(id)
  PROVE  \E r \in resources_list :
           /\ r \in Resource /\ res_descriptors[r] = {}
           /\ r \notin FreeBlocks(resource_pool)
           /\ resource_pool' = PoolAllocator_releaseBlock(resource_pool, r)
           /\ resources_list' = resources_list \ {r}
           /\ PoolKept' /\ resource_pool' \in Pool(MAX_NUM_RESOURCES)
           /\ ListIsPool'
<1>1. PICK r \in ResourceById(id) :
        /\ ~ InUse(r) /\ resources_list' = Unlisted(r)
        /\ resource_pool' = PoolAllocator_releaseBlock(resource_pool, r)
  BY DEF DestroyOk
<1>2. /\ r \in resources_list /\ r \in Resource /\ r \notin FreeBlocks(resource_pool)
      /\ res_id' = res_id
  BY DEF ResInv, ListIsPool, ResourceById, DestroyOk
<1>3. res_descriptors[r] = {} /\ resources_list' = resources_list \ {r}
  BY <1>1 DEF InUse, Unlisted
<1>4. MAX_NUM_RESOURCES \in Nat /\ r \in Blocks(MAX_NUM_RESOURCES)
  BY <1>2, ResConstantsAssumption DEF Resource
<1>5. PICK q : Keeps(resource_pool, MAX_NUM_RESOURCES, q)
  BY DEF ResInv, PoolKept
<1>6. /\ Keeps(resource_pool', MAX_NUM_RESOURCES, <<r>> \o q)
      /\ FreeBlocks(resource_pool') = FreeBlocks(resource_pool) \cup {r}
  BY <1>1, <1>2, <1>4, <1>5, ReleasePushes
<1>7. PoolKept' /\ resource_pool' \in Pool(MAX_NUM_RESOURCES)
  BY <1>6 DEF PoolKept, Keeps
<1>8. ListIsPool'
  BY <1>2, <1>3, <1>6 DEF ResInv, ListIsPool
<1> QED BY <1>1, <1>2, <1>3, <1>7, <1>8

(* What an open has got by line 32, whether it created it or found it: a   *)
(* listed resource, and Users are the descriptors that lead to it.         *)
LEMMA GetsListed ==
  ASSUME ResInv, NEW id \in ResourceIds, NEW type \in ResourceTypes, NEW open_mode,
         NEW r \in Resource, GetsResource(id, type, open_mode, r)
  PROVE  /\ PoolKept' /\ resource_pool' \in Pool(MAX_NUM_RESOURCES) /\ ListIsPool'
         /\ r \in resources_list' /\ resources_list \subseteq resources_list'
         /\ resources_list' \subseteq Resource
         /\ res_id' \in [Resource -> ResourceIds \cup {0}]
         /\ res_type' \in [Resource -> ResourceTypes \cup {0}]
         /\ \A t \in resources_list : res_id'[t] = res_id[t] /\ res_type'[t] = res_type[t]
         /\ Users(open_mode, r) = {e \in Descriptor \ des_free : des_resource[e] = r}
<1>1. CASE CreatesResource(id, type, open_mode, r)
  <2>1. /\ PoolKept' /\ resource_pool' \in Pool(MAX_NUM_RESOURCES) /\ ListIsPool'
        /\ r \notin resources_list /\ resources_list' = resources_list \cup {r}
    BY <1>1, CreateTakes
  <2>2. res_id' = [res_id EXCEPT ![r] = id] /\ res_type' = [res_type EXCEPT ![r] = type]
    BY <1>1 DEF CreatesResource
  <2>3. Users(open_mode, r) = {} /\ \A e \in Descriptor \ des_free : des_resource[e] # r
    BY <1>1, <2>1 DEF Users, CreatesResource, ResInv, ResourceTables
  <2>4. resources_list \subseteq Resource
    BY DEF ResInv, ResTypeOK
  <2>5. /\ res_id' \in [Resource -> ResourceIds \cup {0}]
        /\ res_type' \in [Resource -> ResourceTypes \cup {0}]
    BY <2>2 DEF ResInv, ResTypeOK
  <2>6. \A t \in resources_list : res_id'[t] = res_id[t] /\ res_type'[t] = res_type[t]
    BY <2>1, <2>2, <2>4 DEF ResInv, ResTypeOK
  <2> QED BY <2>1, <2>3, <2>4, <2>5, <2>6
<1>2. CASE FindsResource(id, type, open_mode, r)
  <2>1. r \in resources_list /\ UNCHANGED resourceVars /\ ~ Has(open_mode, DSOS_CREATE)
    BY <1>2 DEF FindsResource, ResourceById
  <2>2. PoolKept' /\ ListIsPool'
    BY <2>1 DEF resourceVars, ResInv, PoolKept, ListIsPool
  <2>3. Users(open_mode, r) = {e \in Descriptor \ des_free : des_resource[e] = r}
    BY <2>1 DEF Users, ResInv, ResTypeOK, ResourceTables
  <2> QED BY <2>1, <2>2, <2>3 DEF resourceVars, ResInv, ResTypeOK
<1> QED BY <1>1, <1>2 DEF GetsResource

---------------------------------------------------------------------------
(* An open that finds no descriptor. *)
LEMMA NoFdKeeps ==
  ASSUME ResInv, NEW id \in ResourceIds, NEW type \in ResourceTypes, NEW open_mode,
         NEW r \in Resource, OpenNoFd(id, type, open_mode, r)
  PROVE  ResInv'
<1>1. /\ GetsResource(id, type, open_mode, r) /\ UNCHANGED desVars
      /\ res_descriptors' = [res_descriptors EXCEPT ![r] = Users(open_mode, r)]
  BY DEF OpenNoFd
<1>2. /\ PoolKept' /\ resource_pool' \in Pool(MAX_NUM_RESOURCES) /\ ListIsPool'
      /\ resources_list \subseteq resources_list' /\ resources_list' \subseteq Resource
      /\ res_id' \in [Resource -> ResourceIds \cup {0}]
      /\ res_type' \in [Resource -> ResourceTypes \cup {0}]
      /\ Users(open_mode, r) = {e \in Descriptor \ des_free : des_resource[e] = r}
  BY <1>1, GetsListed
<1>3. res_descriptors' = res_descriptors
  <2>1. res_descriptors[r] = {e \in Descriptor \ des_free : des_resource[e] = r}
    BY DEF ResInv, ResTypeOK, ResourceTables
  <2> QED BY <1>1, <1>2, <2>1 DEF ResInv, ResTypeOK
<1>4. ResTypeOK'
  BY <1>1, <1>2, <1>3 DEF ResInv, ResTypeOK, desVars
<1>5. ResourceTables'
  BY <1>1, <1>2, <1>3 DEF ResInv, ResourceTables, desVars
<1>6. ResourceFdsUnique' /\ PtrBlocksInStep'
  BY <1>1 DEF ResInv, ResourceFdsUnique, PtrBlocksInStep, desVars
<1> QED BY <1>2, <1>4, <1>5, <1>6 DEF ResInv

(* An open that succeeds. *)
LEMMA OpenKeeps ==
  ASSUME ResInv, NEW p \in PCB, NEW id \in ResourceIds, NEW type \in ResourceTypes,
         NEW open_mode, NEW r \in Resource, NEW d \in Descriptor,
         OpenOk(p, id, type, open_mode, r, d)
  PROVE  ResInv'
<1>0. /\ ResTypeOK /\ ResourceTables /\ ResourceFdsUnique /\ PtrBlocksInStep
      /\ last_fd[p] \in Nat
  BY DEF ResInv, ResTypeOK
<1>1. /\ GetsResource(id, type, open_mode, r) /\ d \in des_free
      /\ des_free' = des_free \ {d}
      /\ des_fd' = [des_fd EXCEPT ![d] = last_fd[p]]
      /\ des_resource' = [des_resource EXCEPT ![d] = r]
      /\ des_pcb' = [des_pcb EXCEPT ![d] = p]
      /\ last_fd' = [last_fd EXCEPT ![p] = @ + 1]
      /\ desptr_free > 0 /\ desptr_free' = desptr_free - 1
      /\ pcb_descriptors' = [pcb_descriptors EXCEPT ![p] = Append(@, d)]
      /\ res_descriptors' = [res_descriptors EXCEPT ![r] = Users(open_mode, r) \cup {d}]
  BY DEF OpenOk, FdAdvanced
<1>2. /\ PoolKept' /\ resource_pool' \in Pool(MAX_NUM_RESOURCES) /\ ListIsPool'
      /\ r \in resources_list' /\ resources_list \subseteq resources_list'
      /\ resources_list' \subseteq Resource
      /\ res_id' \in [Resource -> ResourceIds \cup {0}]
      /\ res_type' \in [Resource -> ResourceTypes \cup {0}]
      /\ Users(open_mode, r) = {e \in Descriptor \ des_free : des_resource[e] = r}
  BY <1>1, GetsListed
<1> DEFINE n == Len(pcb_descriptors[p])
<1>3. /\ n \in Nat /\ DOMAIN pcb_descriptors[p] = 1 .. n
      /\ pcb_descriptors'[p] \in Seq(Descriptor)
      /\ DOMAIN pcb_descriptors'[p] = 1 .. n + 1
      /\ pcb_descriptors'[p][n + 1] = d
      /\ \A j \in 1 .. n : pcb_descriptors'[p][j] = pcb_descriptors[p][j]
      /\ \A q \in PCB \ {p} : pcb_descriptors'[q] = pcb_descriptors[q]
  <2>1. pcb_descriptors[p] \in Seq(Descriptor)
    BY <1>0 DEF ResTypeOK
  <2>2. /\ pcb_descriptors'[p] = Append(pcb_descriptors[p], d)
        /\ \A q \in PCB \ {p} : pcb_descriptors'[q] = pcb_descriptors[q]
    BY <1>0, <1>1 DEF ResTypeOK
  <2> QED BY <2>1, <2>2, AppendElements
<1> HIDE DEF n
<1>4. ResTypeOK'
  <2>1. pcb_descriptors' \in [PCB -> Seq(Descriptor)]
    <3>1. DOMAIN pcb_descriptors' = PCB
      BY <1>0, <1>1 DEF ResTypeOK
    <3>2. \A q \in PCB : pcb_descriptors'[q] \in Seq(Descriptor)
      BY <1>0, <1>3 DEF ResTypeOK
    <3>3. pcb_descriptors' = [pcb_descriptors EXCEPT ![p] = Append(@, d)]
      BY <1>1
    <3> QED BY <1>0, <1>3, <3>3 DEF ResTypeOK
  <2>2. res_descriptors' \in [Resource -> SUBSET Descriptor]
    BY <1>0, <1>1, <1>2 DEF ResTypeOK
  <2>3. des_resource' \in [Descriptor -> Resource \cup {NullIdx}]
    BY <1>0, <1>1 DEF ResTypeOK
  <2>4. des_fd' \in [Descriptor -> Nat] /\ last_fd' \in [PCB -> Nat]
    BY <1>0, <1>1 DEF ResTypeOK
  <2>5. des_pcb' \in [Descriptor -> PCB \cup {NULL}] /\ des_free' \subseteq Descriptor
    BY <1>0, <1>1 DEF ResTypeOK
  <2>6. desptr_free' \in Nat
    BY <1>0, <1>1 DEF ResTypeOK
  <2> QED BY <1>2, <2>1, <2>2, <2>3, <2>4, <2>5, <2>6 DEF ResTypeOK
<1>5. \A e \in Descriptor \ {d} :
        /\ des_fd'[e] = des_fd[e] /\ des_pcb'[e] = des_pcb[e]
        /\ des_resource'[e] = des_resource[e]
  BY <1>0, <1>1 DEF ResTypeOK
<1>6. des_fd'[d] = last_fd[p] /\ des_pcb'[d] = p /\ des_resource'[d] = r
  BY <1>0, <1>1 DEF ResTypeOK
<1>7. \A q \in PCB : \A i \in DOMAIN pcb_descriptors[q] :
        /\ pcb_descriptors[q][i] \in Descriptor \ {d}
        /\ pcb_descriptors[q][i] \notin des_free
  BY <1>0, <1>1 DEF ResTypeOK, ResourceTables
<1>8. ResourceTables'
  <2>1. ASSUME NEW q \in PCB, NEW i \in DOMAIN pcb_descriptors'[q],
               NEW j \in DOMAIN pcb_descriptors'[q]
        PROVE  /\ pcb_descriptors'[q][i] \notin des_free' /\ des_pcb'[pcb_descriptors'[q][i]] = q
               /\ pcb_descriptors'[q][i] = pcb_descriptors'[q][j] => i = j
    <3>1. CASE q # p
      BY <1>0, <1>1, <1>3, <1>5, <1>7, <2>1, <3>1 DEF ResourceTables
    <3>2. CASE q = p
      <4>1. \A k \in 1 .. n : /\ pcb_descriptors'[p][k] = pcb_descriptors[p][k]
                              /\ pcb_descriptors[p][k] \in Descriptor \ {d}
                              /\ pcb_descriptors[p][k] \notin des_free
                              /\ des_pcb'[pcb_descriptors[p][k]] = p
        BY <1>0, <1>3, <1>5, <1>7 DEF ResourceTables
      <4>2. (i = n + 1 \/ i \in 1 .. n) /\ (j = n + 1 \/ j \in 1 .. n)
        BY <1>3, <2>1, <3>2
      <4>3. \A k, l \in 1 .. n : pcb_descriptors[p][k] = pcb_descriptors[p][l] => k = l
        BY <1>0, <1>3 DEF ResourceTables
      <4> QED BY <1>1, <1>3, <1>6, <3>2, <4>1, <4>2, <4>3
    <3> QED BY <3>1, <3>2
  <2>2. ASSUME NEW t \in Resource, NEW e \in Descriptor
        PROVE  e \in res_descriptors'[t] <=> e \notin des_free' /\ des_resource'[e] = t
    <3>1. CASE t = r
      <4>1. res_descriptors'[r] = Users(open_mode, r) \cup {d}
        BY <1>0, <1>1 DEF ResTypeOK
      <4> QED BY <1>1, <1>2, <1>5, <1>6, <3>1, <4>1
    <3>2. CASE t # r
      <4>1. res_descriptors'[t] = res_descriptors[t]
        BY <1>0, <1>1, <3>2 DEF ResTypeOK
      <4>2. e \in res_descriptors[t] <=> e \notin des_free /\ des_resource[e] = t
        BY <1>0 DEF ResourceTables
      <4> QED BY <1>1, <1>5, <1>6, <3>2, <4>1, <4>2
    <3> QED BY <3>1, <3>2
  <2>3. \A e \in Descriptor \ des_free' : des_resource'[e] \in resources_list'
    BY <1>0, <1>1, <1>2, <1>5, <1>6 DEF ResourceTables
  <2> QED BY <2>1, <2>2, <2>3 DEF ResourceTables
<1>9. ResourceFdsUnique'
  <2>1. last_fd'[p] = last_fd[p] + 1 /\ \A q \in PCB \ {p} : last_fd'[q] = last_fd[q]
    BY <1>0, <1>1 DEF ResTypeOK
  <2>2. ASSUME NEW q \in PCB, NEW i \in DOMAIN pcb_descriptors'[q],
               NEW j \in DOMAIN pcb_descriptors'[q]
        PROVE  /\ des_fd'[pcb_descriptors'[q][i]] < last_fd'[q]
               /\ des_fd'[pcb_descriptors'[q][i]] = des_fd'[pcb_descriptors'[q][j]] => i = j
    <3>1. CASE q # p
      <4>1. pcb_descriptors'[q] = pcb_descriptors[q] /\ last_fd'[q] = last_fd[q]
        BY <1>3, <2>1, <3>1
      <4>2. \A m \in DOMAIN pcb_descriptors[q] :
              des_fd'[pcb_descriptors[q][m]] = des_fd[pcb_descriptors[q][m]]
        BY <1>5, <1>7
      <4> QED BY <1>0, <2>2, <4>1, <4>2 DEF ResourceFdsUnique
    <3>2. CASE q = p
      <4>1. \A k \in 1 .. n : /\ des_fd'[pcb_descriptors'[p][k]] = des_fd[pcb_descriptors[p][k]]
                              /\ des_fd[pcb_descriptors[p][k]] < last_fd[p]
                              /\ des_fd[pcb_descriptors[p][k]] \in Nat
        <5>1. \A k \in 1 .. n : pcb_descriptors[p][k] \in Descriptor \ {d}
          BY <1>3, <1>7
        <5>2. \A k \in 1 .. n : des_fd[pcb_descriptors[p][k]] < last_fd[p]
          BY <1>0, <1>3 DEF ResourceFdsUnique
        <5> QED BY <1>0, <1>3, <1>5, <5>1, <5>2 DEF ResTypeOK
      <4>2. (i = n + 1 \/ i \in 1 .. n) /\ (j = n + 1 \/ j \in 1 .. n)
        BY <1>3, <2>2, <3>2
      <4>3. des_fd'[pcb_descriptors'[p][n + 1]] = last_fd[p]
        BY <1>3, <1>6
      <4>4. \A k, l \in 1 .. n :
              des_fd[pcb_descriptors[p][k]] = des_fd[pcb_descriptors[p][l]] => k = l
        BY <1>0, <1>3 DEF ResourceFdsUnique
      <4>5. CASE i = n + 1 \/ j = n + 1
        <5> DEFINE fd(k) == des_fd'[pcb_descriptors'[p][k]]
        <5>1. \A k \in 1 .. n : fd(k) \in Nat /\ fd(k) < last_fd[p]
          BY <4>1, Zenon
        <5>2. fd(n + 1) = last_fd[p]
          BY <4>3
        <5>3. last_fd[p] \in Nat /\ last_fd'[p] = last_fd[p] + 1
          BY <1>0, <2>1 DEF ResTypeOK
        <5>4. fd(i) < last_fd'[p] /\ (fd(i) = fd(j) => i = j)
          <6> HIDE DEF fd
          <6> QED BY <4>2, <4>5, <5>1, <5>2, <5>3
        <5> QED BY <3>2, <5>4, Zenon
      <4>6. CASE i \in 1 .. n /\ j \in 1 .. n
        BY <1>0, <2>1, <3>2, <4>1, <4>4, <4>6
      <4> QED BY <4>2, <4>5, <4>6
    <3> QED BY <3>1, <3>2
  <2> QED BY <2>2 DEF ResourceFdsUnique
<1>10. PtrBlocksInStep'
  <2>1. IsFiniteSet(des_free)
    BY <1>0, ResConstantsAssumption, FS_Subset DEF ResTypeOK
  <2>2. Cardinality(des_free') = Cardinality(des_free) - 1
    BY <1>1, <2>1, FS_RemoveElement
  <2> QED BY <1>0, <1>1, <2>2 DEF PtrBlocksInStep
<1> QED BY <1>2, <1>4, <1>8, <1>9, <1>10 DEF ResInv

---------------------------------------------------------------------------
(* A close detaches the k-th descriptor of p. *)
LEMMA CloseKeeps ==
  ASSUME ResInv, NEW p \in PCB, NEW fd, CloseOk(p, fd)
  PROVE  ResInv'
<1>0. /\ ResTypeOK /\ ResourceTables /\ ResourceFdsUnique /\ PtrBlocksInStep
      /\ pcb_descriptors[p] \in Seq(Descriptor)
  BY DEF ResInv, ResTypeOK
<1> DEFINE n == Len(pcb_descriptors[p])
<1>1. PICK k \in DOMAIN pcb_descriptors[p] :
        LET e == pcb_descriptors[p][k]
            r == des_resource[e]
        IN /\ pcb_descriptors' = [pcb_descriptors EXCEPT ![p] = RemoveAt(pcb_descriptors[p], k)]
           /\ res_descriptors' = [res_descriptors EXCEPT ![r] = @ \ {e}]
           /\ des_free' = des_free \cup {e}
  BY DEF CloseOk, WithoutFd
<1> DEFINE d == pcb_descriptors[p][k]
<1>2. n \in Nat /\ DOMAIN pcb_descriptors[p] = 1 .. n /\ k \in 1 .. n /\ d \in Descriptor
  BY <1>0
<1>3. /\ pcb_descriptors'[p] \in Seq(Descriptor)
      /\ DOMAIN pcb_descriptors'[p] = 1 .. n - 1
      /\ \A j \in 1 .. n - 1 :
           pcb_descriptors'[p][j] = IF j < k THEN pcb_descriptors[p][j]
                                             ELSE pcb_descriptors[p][j + 1]
      /\ \A q \in PCB \ {p} : pcb_descriptors'[q] = pcb_descriptors[q]
  <2>1. /\ pcb_descriptors'[p] = RemoveAt(pcb_descriptors[p], k)
        /\ \A q \in PCB \ {p} : pcb_descriptors'[q] = pcb_descriptors[q]
    BY <1>0, <1>1 DEF ResTypeOK
  <2>2. /\ RemoveAt(pcb_descriptors[p], k) \in Seq(Descriptor)
        /\ Len(RemoveAt(pcb_descriptors[p], k)) = n - 1
        /\ \A j \in 1 .. n - 1 :
             RemoveAt(pcb_descriptors[p], k)[j] = IF j < k THEN pcb_descriptors[p][j]
                                                           ELSE pcb_descriptors[p][j + 1]
    BY <1>0, <1>2, RemoveAtElements, Zenon
  <2> QED BY <2>1, <2>2
<1>4. /\ des_free' = des_free \cup {d}
      /\ res_descriptors' = [res_descriptors EXCEPT ![des_resource[d]] = @ \ {d}]
      /\ desptr_free' = desptr_free + 1
      /\ UNCHANGED <<resourceVars, des_fd, des_resource, des_pcb, last_fd>>
  BY <1>1 DEF CloseOk, PtrFreed
<1>5. d \notin des_free /\ des_pcb[d] = p
  BY <1>0 DEF ResourceTables
<1> HIDE DEF n, d
<1>6. PoolKept' /\ ListIsPool'
  BY <1>4 DEF ResInv, PoolKept, ListIsPool, resourceVars
<1>7. ResTypeOK'
  <2>1. pcb_descriptors' \in [PCB -> Seq(Descriptor)]
    <3>1. \A q \in PCB : pcb_descriptors'[q] \in Seq(Descriptor)
      BY <1>0, <1>3 DEF ResTypeOK
    <3> QED BY <1>0, <1>1, <3>1 DEF ResTypeOK
  <2>2. res_descriptors' \in [Resource -> SUBSET Descriptor]
    BY <1>0, <1>4 DEF ResTypeOK
  <2> QED BY <1>0, <1>2, <1>4, <2>1, <2>2 DEF ResTypeOK, resourceVars
(* A place in the new list of q is a place in the old one. *)
<1>8. \A q \in PCB : \A i \in DOMAIN pcb_descriptors'[q] :
        LET o == IF q = p /\ i >= k THEN i + 1 ELSE i IN
          /\ o \in DOMAIN pcb_descriptors[q]
          /\ pcb_descriptors'[q][i] = pcb_descriptors[q][o]
          /\ pcb_descriptors'[q][i] # d
  <2> TAKE q \in PCB
  <2> TAKE i \in DOMAIN pcb_descriptors'[q]
  <2>1. CASE q # p
    <3>1. pcb_descriptors[q][i] \in Descriptor /\ des_pcb[pcb_descriptors[q][i]] = q
      BY <1>0, <1>3, <2>1 DEF ResTypeOK, ResourceTables
    <3> QED BY <1>3, <1>5, <2>1, <3>1
  <2>2. CASE q = p
    <3> DEFINE o == IF i >= k THEN i + 1 ELSE i
    <3>1. o \in 1 .. n /\ o # k /\ pcb_descriptors'[p][i] = pcb_descriptors[p][o]
      BY <1>2, <1>3, <2>2
    <3>2. pcb_descriptors[p][o] # d
      BY <1>0, <1>2, <3>1 DEF ResourceTables, d
    <3> QED BY <1>2, <2>2, <3>1, <3>2
  <2> QED BY <2>1, <2>2
<1>9. ResourceTables'
  <2>1. ASSUME NEW q \in PCB, NEW i \in DOMAIN pcb_descriptors'[q],
               NEW j \in DOMAIN pcb_descriptors'[q]
        PROVE  /\ pcb_descriptors'[q][i] \notin des_free' /\ des_pcb'[pcb_descriptors'[q][i]] = q
               /\ pcb_descriptors'[q][i] = pcb_descriptors'[q][j] => i = j
    <3> DEFINE o(m) == IF q = p /\ m >= k THEN m + 1 ELSE m
    <3>1. /\ o(i) \in DOMAIN pcb_descriptors[q] /\ o(j) \in DOMAIN pcb_descriptors[q]
          /\ pcb_descriptors'[q][i] = pcb_descriptors[q][o(i)]
          /\ pcb_descriptors'[q][j] = pcb_descriptors[q][o(j)]
          /\ pcb_descriptors'[q][i] # d
      BY <1>8, <2>1
    <3>2. i \in Int /\ j \in Int /\ k \in Int
      BY <1>2, <1>7, <2>1 DEF ResTypeOK
    <3>3. o(i) = o(j) => i = j
      BY <3>2
    <3> HIDE DEF o
    <3> QED BY <1>0, <1>4, <2>1, <3>1, <3>3 DEF ResourceTables
  <2>2. ASSUME NEW t \in Resource, NEW e \in Descriptor
        PROVE  e \in res_descriptors'[t] <=> e \notin des_free' /\ des_resource'[e] = t
    <3>1. e \in res_descriptors[t] <=> e \notin des_free /\ des_resource[e] = t
      BY <1>0 DEF ResourceTables
    <3> QED BY <1>0, <1>2, <1>4, <3>1 DEF ResTypeOK
  <2>3. \A e \in Descriptor \ des_free' : des_resource'[e] \in resources_list'
    BY <1>0, <1>4 DEF ResourceTables, resourceVars
  <2> QED BY <2>1, <2>2, <2>3 DEF ResourceTables
<1>10. ResourceFdsUnique'
  <2>1. ASSUME NEW q \in PCB, NEW i \in DOMAIN pcb_descriptors'[q],
               NEW j \in DOMAIN pcb_descriptors'[q]
        PROVE  /\ des_fd'[pcb_descriptors'[q][i]] < last_fd'[q]
               /\ des_fd'[pcb_descriptors'[q][i]] = des_fd'[pcb_descriptors'[q][j]] => i = j
    <3> DEFINE o(m) == IF q = p /\ m >= k THEN m + 1 ELSE m
    <3>1. /\ o(i) \in DOMAIN pcb_descriptors[q] /\ o(j) \in DOMAIN pcb_descriptors[q]
          /\ pcb_descriptors'[q][i] = pcb_descriptors[q][o(i)]
          /\ pcb_descriptors'[q][j] = pcb_descriptors[q][o(j)]
      BY <1>8, <2>1
    <3>2. i \in Int /\ j \in Int /\ k \in Int
      BY <1>2, <1>7, <2>1 DEF ResTypeOK
    <3>3. o(i) = o(j) => i = j
      BY <3>2
    <3> HIDE DEF o
    <3> QED BY <1>0, <1>4, <2>1, <3>1, <3>3 DEF ResourceFdsUnique
  <2> QED BY <2>1 DEF ResourceFdsUnique
<1>11. PtrBlocksInStep'
  <2>1. IsFiniteSet(des_free)
    BY <1>0, ResConstantsAssumption, FS_Subset DEF ResTypeOK
  <2>2. Cardinality(des_free') = Cardinality(des_free) + 1
    BY <1>4, <1>5, <2>1, FS_AddElement
  <2> QED BY <1>4, <2>2, <1>0 DEF PtrBlocksInStep
<1> QED BY <1>6, <1>7, <1>9, <1>10, <1>11 DEF ResInv

(* A destroy; nothing is open on what it frees. *)
LEMMA DestroyKeeps ==
  ASSUME ResInv, NEW id, DestroyOk(id)
  PROVE  ResInv'
<1>1. PICK r \in resources_list :
        /\ r \in Resource /\ res_descriptors[r] = {}
        /\ resources_list' = resources_list \ {r}
        /\ PoolKept' /\ resource_pool' \in Pool(MAX_NUM_RESOURCES) /\ ListIsPool'
  BY DestroyGives
<1>2. UNCHANGED <<res_id, res_type, res_descriptors, desVars>>
  BY DEF DestroyOk
<1>3. ResTypeOK'
  BY <1>1, <1>2 DEF ResInv, ResTypeOK, desVars
<1>4. \A d \in Descriptor \ des_free : des_resource[d] # r
  BY <1>1 DEF ResInv, ResourceTables
<1>5. ResourceTables'
  BY <1>1, <1>2, <1>4 DEF ResInv, ResourceTables, desVars
<1>6. ResourceFdsUnique' /\ PtrBlocksInStep'
  BY <1>2 DEF ResInv, ResourceFdsUnique, PtrBlocksInStep, desVars
<1> QED BY <1>1, <1>3, <1>5, <1>6 DEF ResInv

(* The first and the last step of a life. *)
LEMMA NewTableKeeps ==
  ASSUME ResInv, NEW p \in PCB, NewDescriptorTable(p)
  PROVE  ResInv'
<1>1. /\ pcb_descriptors' = [pcb_descriptors EXCEPT ![p] = <<>>]
      /\ last_fd' = [last_fd EXCEPT ![p] = 0]
      /\ UNCHANGED <<resourceVars, res_descriptors, des_free, des_fd, des_resource, des_pcb,
                     desptr_free>>
  BY DEF NewDescriptorTable
<1>2. ResTypeOK /\ ResourceTables /\ ResourceFdsUnique
  BY DEF ResInv
<1>3. /\ pcb_descriptors'[p] = <<>> /\ DOMAIN pcb_descriptors'[p] = {}
      /\ \A q \in PCB \ {p} : pcb_descriptors'[q] = pcb_descriptors[q] /\ last_fd'[q] = last_fd[q]
  BY <1>1, <1>2 DEF ResTypeOK
<1>4. PoolKept' /\ ListIsPool' /\ PtrBlocksInStep'
  BY <1>1 DEF ResInv, PoolKept, ListIsPool, PtrBlocksInStep, resourceVars
<1>5. ResTypeOK'
  BY <1>1, <1>2 DEF ResTypeOK, resourceVars
<1>6. ResourceTables'
  BY <1>1, <1>2, <1>3 DEF ResourceTables, resourceVars
<1>7. ResourceFdsUnique'
  BY <1>1, <1>2, <1>3 DEF ResourceFdsUnique
<1> QED BY <1>4, <1>5, <1>6, <1>7 DEF ResInv

LEMMA ReleaseKeeps ==
  ASSUME ResInv, NEW p \in PCB, ReleaseAll(p)
  PROVE  ResInv'
<1> DEFINE mine == ToSet(pcb_descriptors[p])
<1>1. /\ res_descriptors' = [r \in Resource |-> res_descriptors[r] \ mine]
      /\ des_free' = des_free \cup mine
      /\ desptr_free' = desptr_free + Len(pcb_descriptors[p])
      /\ pcb_descriptors' = [pcb_descriptors EXCEPT ![p] = <<>>]
      /\ UNCHANGED <<resourceVars, des_fd, des_resource, des_pcb, last_fd>>
  BY DEF ReleaseAll
<1>2. /\ ResTypeOK /\ ResourceTables /\ ResourceFdsUnique /\ PtrBlocksInStep
      /\ pcb_descriptors[p] \in Seq(Descriptor)
  BY DEF ResInv, ResTypeOK
<1>3. \A d \in mine : d \in Descriptor /\ d \notin des_free /\ des_pcb[d] = p
  BY <1>2 DEF ToSet, ResourceTables
<1>4. /\ pcb_descriptors'[p] = <<>> /\ DOMAIN pcb_descriptors'[p] = {}
      /\ \A q \in PCB \ {p} : pcb_descriptors'[q] = pcb_descriptors[q]
  BY <1>1, <1>2 DEF ResTypeOK
<1>5. IsFiniteSet(mine) /\ Cardinality(mine) = Len(pcb_descriptors[p])
  BY <1>2, DistinctElements DEF ResourceTables
<1> HIDE DEF mine
<1>6. PoolKept' /\ ListIsPool'
  BY <1>1 DEF ResInv, PoolKept, ListIsPool, resourceVars
<1>7. ResTypeOK'
  BY <1>1, <1>2, <1>3 DEF ResTypeOK, resourceVars
<1>8. ResourceTables'
  <2>1. \A q \in PCB : \A i, j \in DOMAIN pcb_descriptors'[q] :
          /\ pcb_descriptors'[q][i] \notin des_free' /\ des_pcb'[pcb_descriptors'[q][i]] = q
          /\ pcb_descriptors'[q][i] = pcb_descriptors'[q][j] => i = j
    BY <1>1, <1>2, <1>3, <1>4 DEF ResourceTables
  <2>2. \A r \in Resource, d \in Descriptor :
          d \in res_descriptors'[r] <=> d \notin des_free' /\ des_resource'[d] = r
    BY <1>1, <1>2 DEF ResourceTables
  <2> QED BY <1>1, <1>2, <2>1, <2>2 DEF ResourceTables, resourceVars
<1>9. ResourceFdsUnique'
  BY <1>1, <1>2, <1>4 DEF ResourceFdsUnique
<1>10. PtrBlocksInStep'
  <2>1. IsFiniteSet(des_free)
    BY <1>2, ResConstantsAssumption, FS_Subset DEF ResTypeOK
  <2>2. des_free \cap mine = {}
    BY <1>3
  <2>3. Cardinality(des_free') = Cardinality(des_free) + Cardinality(mine)
    <3>1. Cardinality(des_free \cap mine) = 0 /\ Cardinality(des_free) \in Nat
      BY <2>1, <2>2, FS_EmptySet, FS_CardinalityType
    <3>2. Cardinality(mine) \in Nat
      BY <1>5, FS_CardinalityType
    <3> QED BY <1>1, <1>5, <2>1, <3>1, <3>2, FS_Union
  <2> QED BY <1>1, <1>2, <1>5, <2>3 DEF PtrBlocksInStep
<1> QED BY <1>6, <1>7, <1>8, <1>9, <1>10 DEF ResInv

---------------------------------------------------------------------------
LEMMA ResInductive == ResInv /\ [ResNext]_resVars => ResInv'
<1> SUFFICES ASSUME ResInv, ResEffect PROVE ResInv'
  BY StepIsResEffect
<1>1. CASE UNCHANGED resVars
  BY <1>1 DEF ResInv, ResTypeOK, PoolKept, ResourceTables, ListIsPool, ResourceFdsUnique,
              PtrBlocksInStep, resVars, resourceVars, desVars
<1>2. ASSUME NEW p \in PCB, NEW id \in ResourceIds, NEW type \in ResourceTypes,
             NEW open_mode \in OpenModes, NEW r \in Resource,
             \/ OpenNoFd(id, type, open_mode, r)
             \/ \E d \in Descriptor : OpenOk(p, id, type, open_mode, r, d)
      PROVE  ResInv'
  BY <1>2, NoFdKeeps, OpenKeeps
<1>3. ASSUME NEW p \in PCB, NEW fd, CloseOk(p, fd) PROVE ResInv'
  BY <1>3, CloseKeeps
<1>4. ASSUME NEW id, DestroyOk(id) PROVE ResInv'
  BY <1>4, DestroyKeeps
<1>5. ASSUME NEW p \in PCB, NewDescriptorTable(p) \/ ReleaseAll(p) PROVE ResInv'
  BY <1>5, NewTableKeeps, ReleaseKeeps
<1> QED BY <1>1, <1>2, <1>3, <1>4, <1>5 DEF ResEffect

LEMMA ResInitial == ResInit => ResInv
<1> SUFFICES ASSUME ResInit PROVE ResInv
  OBVIOUS
<1>1. PoolKept
  BY InitKeeps, ResConstantsAssumption DEF ResInit, PoolKept
<1>2. FreeBlocks(resource_pool) = Resource
  BY DEF ResInit, PoolAllocator_init, FreeBlocks, Resource, Blocks, NullIdx, DetachedIdx
<1>3. ListIsPool
  BY <1>2 DEF ResInit, ListIsPool
<1>4. ResTypeOK
  <2>1. resource_pool \in Pool(MAX_NUM_RESOURCES)
    BY <1>1, PoolFields
  <2>2. desptr_free \in Nat
    BY ResConstantsAssumption, FS_CardinalityType DEF ResInit
  <2> QED BY <2>1, <2>2 DEF ResInit, ResTypeOK
<1>5. ResourceTables /\ ResourceFdsUnique /\ PtrBlocksInStep
  BY DEF ResInit, ResourceTables, ResourceFdsUnique, PtrBlocksInStep
<1> QED BY <1>1, <1>3, <1>4, <1>5 DEF ResInv

LEMMA ResInvariant == ResSpec => []ResInv
BY ResInitial, ResInductive, PTL DEF ResSpec

(* Every field of the resource subsystem keeps to its kind of value, the   *)
(* fields of the pool allocator among them.                                *)
THEOREM ResTypeCorrect == ResSpec => []ResTypeOK
<1>1. ResInv => ResTypeOK
  BY DEF ResInv
<1> QED BY <1>1, ResInvariant, PTL

(* The list of a process, the list of a resource and the fields of a       *)
(* descriptor agree, so a close and an exit detach from the right lists,   *)
(* and what a descriptor leads to is a resource that is still there.       *)
THEOREM ResourceTablesAgree == ResSpec => []ResourceTables
<1>1. ResInv => ResourceTables
  BY DEF ResInv
<1> QED BY <1>1, ResInvariant, PTL

(* No resource block is lost between the pool and the global list, and no  *)
(* id is listed twice.                                                     *)
THEOREM NoBlockLost == ResSpec => []ListIsPool
<1>1. ResInv => ListIsPool
  BY DEF ResInv
<1> QED BY <1>1, ResInvariant, PTL

(* The fds of a process lead to distinct descriptors. *)
THEOREM ResourceFdsDistinct == ResSpec => []ResourceFdsUnique
<1>1. ResInv => ResourceFdsUnique
  BY DEF ResInv
<1> QED BY <1>1, ResInvariant, PTL

(* The DescriptorPtr that open_resource.c:51 takes untested is there. *)
THEOREM PtrBlocksSuffice == ResSpec => []PtrBlocksInStep
<1>1. ResInv => PtrBlocksInStep
  BY DEF ResInv
<1> QED BY <1>1, ResInvariant, PTL

---------------------------------------------------------------------------
(* A resource that somebody has open keeps its id and its type. *)
LEMMA OpenStaysStep ==
  ASSUME ResInv, ResEffect, NEW d \in Descriptor \ (des_free \cup des_free')
  PROVE  LET r == des_resource[d] IN
           des_resource'[d] = r /\ res_id'[r] = res_id[r] /\ res_type'[r] = res_type[r]
<1> DEFINE Stays == LET r == des_resource[d] IN
             des_resource'[d] = r /\ res_id'[r] = res_id[r] /\ res_type'[r] = res_type[r]
<1>0. des_resource[d] \in resources_list
  BY DEF ResInv, ResourceTables
<1>1. CASE UNCHANGED <<des_resource, res_id, res_type>>
  BY <1>1
<1>2. ASSUME NEW p \in PCB, NEW id \in ResourceIds, NEW type \in ResourceTypes,
             NEW open_mode \in OpenModes, NEW r \in Resource,
             \/ OpenNoFd(id, type, open_mode, r)
             \/ \E e \in Descriptor : OpenOk(p, id, type, open_mode, r, e)
      PROVE  Stays
  <2>1. GetsResource(id, type, open_mode, r)
    BY <1>2 DEF OpenNoFd, OpenOk
  <2>2. \A t \in resources_list : res_id'[t] = res_id[t] /\ res_type'[t] = res_type[t]
    BY <2>1, GetsListed
  <2>3. des_resource'[d] = des_resource[d]
    BY <1>2 DEF OpenNoFd, OpenOk, desVars, ResInv, ResTypeOK
  <2> QED BY <1>0, <2>2, <2>3
<1>3. ASSUME NEW p, NEW fd, CloseOk(p, fd) PROVE Stays
  BY <1>3 DEF CloseOk, resourceVars
<1>4. ASSUME NEW id, DestroyOk(id) PROVE Stays
  BY <1>4 DEF DestroyOk, desVars
<1>5. ASSUME NEW p, NewDescriptorTable(p) \/ ReleaseAll(p) PROVE Stays
  BY <1>5 DEF NewDescriptorTable, ReleaseAll, resourceVars
<1> QED BY <1>1, <1>2, <1>3, <1>4, <1>5 DEF ResEffect, resVars, resourceVars, desVars

THEOREM ResourceStays == ResSpec => OpenResourceStays
<1> DEFINE Stays == \A d \in Descriptor \ (des_free \cup des_free') :
             LET r == des_resource[d] IN
               des_resource'[d] = r /\ res_id'[r] = res_id[r] /\ res_type'[r] = res_type[r]
<1>1. ResInv /\ [ResNext]_resVars => [Stays]_resVars
  BY StepIsResEffect, OpenStaysStep
<1> QED BY <1>1, ResInvariant, PTL DEF ResSpec, OpenResourceStays

---------------------------------------------------------------------------
(* The free list that the fields of the pool make. *)
LEMMA PoolHasStack ==
  ASSUME PoolKept
  PROVE  /\ FreeList(resource_pool) \in Seq(Resource)
         /\ Keeps(resource_pool, MAX_NUM_RESOURCES, FreeList(resource_pool))
<1>1. PICK q : Keeps(resource_pool, MAX_NUM_RESOURCES, q)
  BY DEF PoolKept
<1>2. FreeList(resource_pool) = q
  BY <1>1, FreeListFound, ResConstantsAssumption
<1> QED BY <1>1, <1>2 DEF Keeps, Resource

LEMMA CreatePops ==
  ASSUME ResInv, NEW id, NEW type, NEW open_mode, NEW r, CreatesResource(id, type, open_mode, r)
  PROVE  ResourceBlocks!Take
<1> DEFINE q == FreeList(resource_pool)
<1>1. MAX_NUM_RESOURCES \in Nat /\ Keeps(resource_pool, MAX_NUM_RESOURCES, q)
  BY PoolHasStack, ResConstantsAssumption DEF ResInv
<1>2. /\ ~ Exhausted(resource_pool)
      /\ resource_pool' = PoolAllocator_getBlock(resource_pool)
  BY DEF CreatesResource
<1> HIDE DEF q
<1>3. q # <<>> /\ Keeps(resource_pool', MAX_NUM_RESOURCES, Tail(q))
  BY <1>1, <1>2, GetBlockPops
<1>4. FreeList(resource_pool') = Tail(q)
  BY <1>1, <1>3, FreeListFound
<1> QED BY <1>3, <1>4 DEF ResourceBlocks!Take, q

LEMMA DestroyPushes ==
  ASSUME ResInv, NEW id, DestroyOk(id)
  PROVE  \E b \in Resource : ResourceBlocks!Give(b)
<1> DEFINE q == FreeList(resource_pool)
<1>1. MAX_NUM_RESOURCES \in Nat /\ Keeps(resource_pool, MAX_NUM_RESOURCES, q)
  BY PoolHasStack, ResConstantsAssumption DEF ResInv
<1>2. PICK b \in Resource :
        /\ b \notin FreeBlocks(resource_pool)
        /\ resource_pool' = PoolAllocator_releaseBlock(resource_pool, b)
  BY DestroyGives
<1> HIDE DEF q
<1>3. Keeps(resource_pool', MAX_NUM_RESOURCES, <<b>> \o q)
  BY <1>1, <1>2, ReleasePushes DEF Resource
<1>4. FreeList(resource_pool') = <<b>> \o q
  BY <1>1, <1>3, FreeListFound
<1>5. \A i \in 1 .. Len(q) : q[i] # b
  BY <1>1, <1>2 DEF Keeps, IsFreeList, FreeListIs, FreeBlocks, Pool, Resource
<1> QED BY <1>4, <1>5 DEF ResourceBlocks!Give, ResourceBlocks!Holds, q

LEMMA StackStep ==
  ResInv /\ [ResNext]_resVars => [ResourceBlocks!Next]_(FreeList(resource_pool))
<1> SUFFICES ASSUME ResInv, ResEffect, ~ UNCHANGED resource_pool PROVE ResourceBlocks!Next
  BY StepIsResEffect
<1>1. ASSUME NEW p \in PCB, NEW id \in ResourceIds, NEW type \in ResourceTypes,
             NEW open_mode \in OpenModes, NEW r \in Resource,
             \/ OpenNoFd(id, type, open_mode, r)
             \/ \E d \in Descriptor : OpenOk(p, id, type, open_mode, r, d)
      PROVE  ResourceBlocks!Next
  <2>1. CreatesResource(id, type, open_mode, r)
    BY <1>1 DEF OpenNoFd, OpenOk, GetsResource, FindsResource, resourceVars
  <2> QED BY <2>1, CreatePops DEF ResourceBlocks!Next
<1>2. ASSUME NEW id, DestroyOk(id) PROVE ResourceBlocks!Next
  BY <1>2, DestroyPushes DEF ResourceBlocks!Next
<1> QED BY <1>1, <1>2 DEF ResEffect, resVars, resourceVars, CloseOk, NewDescriptorTable, ReleaseAll

LEMMA StackInitial == ResInit => ResourceBlocks!Init
<1> SUFFICES ASSUME ResInit PROVE ResourceBlocks!Init
  OBVIOUS
<1> DEFINE q == FreeList(resource_pool)
<1>1. PoolKept /\ ListIsPool /\ resources_list = {}
  BY ResInitial DEF ResInv, ResInit
<1>2. Keeps(resource_pool, MAX_NUM_RESOURCES, q) /\ q \in Seq(Resource)
  BY <1>1, PoolHasStack
<1>3. \A b \in Resource : b \in FreeBlocks(resource_pool)
  BY <1>1 DEF ListIsPool
<1> HIDE DEF q
<1>4. \A b \in Resource : \E i \in 1 .. Len(q) : q[i] = b
  BY <1>2, <1>3 DEF Keeps, IsFreeList, FreeListIs, FreeBlocks
<1>5. \A i, j \in 1 .. Len(q) : q[i] = q[j] => i = j
  BY <1>2 DEF Keeps, IsFreeList, FreeListIs
<1> QED BY <1>2, <1>4, <1>5 DEF ResourceBlocks!Init, ResourceBlocks!Holds, q

(* The pool of resources implements a stack of free blocks: no create gets *)
(* a block that is in use, none is lost, and the one destroyed last is     *)
(* created first, for every size of the pool.                              *)
THEOREM PoolImplementsStack == ResSpec => PoolIsStack
BY ResInvariant, StackInitial, StackStep, PTL DEF ResSpec, PoolIsStack, ResourceBlocks!Spec
===========================================================================
