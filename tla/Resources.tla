----------------------------- MODULE Resources -----------------------------
(***************************************************************************)
(* Resources: disastrOS_{open,close,destroy}_resource.c over the objects   *)
(* of disastrOS_resource.c and disastrOS_descriptor.c, and what the exit   *)
(* of a process does to them.                                              *)
(*                                                                         *)
(* A Resource block has an id, a type and the descriptors open on it; a    *)
(* Descriptor block is one fd of one process.  Each branch of a handler is *)
(* an action, with the process p that calls it as a parameter.  The blocks *)
(* of resources come from a PoolAllocator; of the pool of descriptors only *)
(* what a pool promises is used, and of the DescriptorPtr blocks, which    *)
(* carry nothing but a descriptor, only their number.                      *)
(***************************************************************************)
EXTENDS Kernel, PoolAllocator, SequencesExt

CONSTANTS
  MAX_NUM_RESOURCES,   \* blocks of the resource pool
  Descriptor,          \* blocks of the descriptor pool; DescriptorPtr has as many
  ResourceIds,         \* the ids programs use
  ResourceTypes,       \* the types programs use
  OpenModes,           \* the flag words programs use
  MaxResourceFd        \* bound: no process opens more than this many fds in a life

ASSUME ResConstantsAssumption ==
  /\ MAX_NUM_RESOURCES \in Nat \ {0}
  /\ IsFiniteSet(Descriptor)
  /\ OpenModes \subseteq FlagSets /\ MaxResourceFd \in Nat

Resource == Blocks(MAX_NUM_RESOURCES)

VARIABLES
  resource_pool,           \* the PoolAllocator of the Resource blocks
  resources_list,          \* the global list: the resources an open can find
  res_id, res_type,        \* Resource.id and Resource.type
  res_descriptors,         \* Resource.descriptors: the descriptors open on each
  des_free,                \* the free blocks of the descriptor pool
  des_fd, des_resource, des_pcb,   \* Descriptor.fd, .resource, .pcb
  desptr_free,             \* how many DescriptorPtr blocks are free
  pcb_descriptors,         \* PCB.descriptors, in the order of the opens
  last_fd                  \* PCB.last_fd

resourceVars == <<resource_pool, resources_list, res_id, res_type>>
desVars      == <<des_free, des_fd, des_resource, des_pcb, desptr_free, pcb_descriptors, last_fd>>
resVars      == <<resourceVars, res_descriptors, desVars>>

(* ResourceList_byId: the listed resource with this id (ids are unique). *)
ResourceById(id) == {r \in resources_list : res_id[r] = id}

(* DescriptorList_byFd: the first of p's descriptors with that fd. *)
DescriptorAt(p, fd, i) ==
  /\ i \in DOMAIN pcb_descriptors[p]
  /\ des_fd[pcb_descriptors[p][i]] = fd
  /\ \A j \in 1 .. i - 1 : des_fd[pcb_descriptors[p][j]] # fd

NotOpen(p, fd) ==
  \A i \in DOMAIN pcb_descriptors[p] : des_fd[pcb_descriptors[p][i]] # fd

---------------------------------------------------------------------------
(* openResource(id, type, mode). *)

OpenExists(id, open_mode) ==
  /\ Has(open_mode, DSOS_CREATE) /\ ResourceById(id) # {}
  /\ Return(DSOS_ERESOURCECREATE)
  /\ UNCHANGED resVars

(* Resource_alloc returns null and List_insert dereferences it. *)
OpenNoBlock(id, open_mode) ==
  /\ Has(open_mode, DSOS_CREATE) /\ ResourceById(id) = {} /\ Exhausted(resource_pool)
  /\ Crash
  /\ UNCHANGED resVars

OpenMissing(id, type, open_mode) ==
  /\ ~ Has(open_mode, DSOS_CREATE)
  /\ \A r \in ResourceById(id) : res_type[r] # type
  /\ Return(DSOS_ERESOURCEOPEN)
  /\ UNCHANGED resVars

(* The resource the open has by line 32: a new block in the global list,   *)
(* or the listed one with that id and type.                                *)
CreatesResource(id, type, open_mode, r) ==
  /\ Has(open_mode, DSOS_CREATE) /\ ResourceById(id) = {}
  /\ ~ Exhausted(resource_pool) /\ r = resource_pool.first_idx
  /\ resource_pool' = PoolAllocator_getBlock(resource_pool)
  /\ resources_list' = resources_list \cup {r}
  /\ res_id' = [res_id EXCEPT ![r] = id]
  /\ res_type' = [res_type EXCEPT ![r] = type]

FindsResource(id, type, open_mode, r) ==
  /\ ~ Has(open_mode, DSOS_CREATE)
  /\ r \in ResourceById(id) /\ res_type[r] = type
  /\ UNCHANGED resourceVars

(* The descriptors open on it: none on a new block (List_init). *)
Users(open_mode, r) == IF Has(open_mode, DSOS_CREATE) THEN {} ELSE res_descriptors[r]

OpenNoExcl(id, type, open_mode, r) ==
  /\ FindsResource(id, type, open_mode, r)
  /\ Has(open_mode, DSOS_EXCL) /\ Users(open_mode, r) # {}
  /\ Return(DSOS_ERESOURCENOEXCL)
  /\ UNCHANGED <<res_descriptors, desVars>>

GetsResource(id, type, open_mode, r) ==
  /\ CreatesResource(id, type, open_mode, r) \/ FindsResource(id, type, open_mode, r)
  /\ Has(open_mode, DSOS_EXCL) => Users(open_mode, r) = {}

(* No descriptor block is left.  A resource created by this call stays in  *)
(* the global list with nothing open on it.                                *)
OpenNoFd(id, type, open_mode, r) ==
  /\ GetsResource(id, type, open_mode, r)
  /\ des_free = {}
  /\ res_descriptors' = [res_descriptors EXCEPT ![r] = Users(open_mode, r)]
  /\ Return(DSOS_ERESOURCENOFD)
  /\ UNCHANGED desVars

FdKept(p)      == last_fd                                   \* slip: no increment
FdAdvanced(p)  == [last_fd EXCEPT ![p] = @ + 1]

(* The handler does not test the result of DescriptorPtr_alloc: see        *)
(* PtrBlocksInStep.                                                        *)
OpenOk(p, id, type, open_mode, r, d) ==
  /\ GetsResource(id, type, open_mode, r)
  /\ d \in des_free /\ last_fd[p] < MaxResourceFd
  /\ des_free' = des_free \ {d}
  /\ des_fd' = [des_fd EXCEPT ![d] = last_fd[p]]
  /\ des_resource' = [des_resource EXCEPT ![d] = r]
  /\ des_pcb' = [des_pcb EXCEPT ![d] = p]
  /\ last_fd' = FdAdvanced(p)
  /\ desptr_free > 0 /\ desptr_free' = desptr_free - 1
  /\ pcb_descriptors' = [pcb_descriptors EXCEPT ![p] = Append(@, d)]
  /\ res_descriptors' = [res_descriptors EXCEPT ![r] = Users(open_mode, r) \cup {d}]
  /\ Return(last_fd[p])

OpenResource(p) ==
  \E id \in ResourceIds, type \in ResourceTypes, open_mode \in OpenModes :
    \/ OpenExists(id, open_mode)
    \/ OpenNoBlock(id, open_mode)
    \/ OpenMissing(id, type, open_mode)
    \/ \E r \in Resource :
         \/ OpenNoExcl(id, type, open_mode, r)
         \/ OpenNoFd(id, type, open_mode, r)
         \/ \E d \in Descriptor : OpenOk(p, id, type, open_mode, r, d)

---------------------------------------------------------------------------
(* closeResource(fd). *)

CloseBadFd(p, fd) ==
  /\ NotOpen(p, fd)
  /\ Return(DSOS_ERESOURCECLOSE)
  /\ UNCHANGED resVars

HeadGone(p, i)   == Tail(pcb_descriptors[p])                \* slip: the head is detached
WithoutFd(p, i)  == RemoveAt(pcb_descriptors[p], i)
PtrKept          == desptr_free                             \* slip: DescriptorPtr_free is forgotten
PtrFreed         == desptr_free + 1

CloseOk(p, fd) ==
  /\ \E i \in DOMAIN pcb_descriptors[p] :
       LET d == pcb_descriptors[p][i]
           r == des_resource[d]
       IN /\ DescriptorAt(p, fd, i)
          /\ pcb_descriptors' = [pcb_descriptors EXCEPT ![p] = WithoutFd(p, i)]
          /\ res_descriptors' = [res_descriptors EXCEPT ![r] = @ \ {d}]
          /\ des_free' = des_free \cup {d}
  /\ desptr_free' = PtrFreed
  /\ Return(0)
  /\ UNCHANGED <<resourceVars, des_fd, des_resource, des_pcb, last_fd>>

CloseResource(p, fd) == CloseBadFd(p, fd) \/ CloseOk(p, fd)

---------------------------------------------------------------------------
(* destroyResource(id). *)

DestroyMissing(id) ==
  /\ ResourceById(id) = {}
  /\ Return(DSOS_ERESOURCECLOSE)
  /\ UNCHANGED resVars

NeverInUse(r) == FALSE                                      \* slip: the test is dropped
InUse(r)      == res_descriptors[r] # {}

DestroyInUse(id) ==
  /\ \E r \in ResourceById(id) : InUse(r)
  /\ Return(DSOS_ERESOURCEINUSE)
  /\ UNCHANGED resVars

StillListed(r) == resources_list                            \* slip: freed but not detached
Unlisted(r)    == resources_list \ {r}

DestroyOk(id) ==
  /\ \E r \in ResourceById(id) :
       /\ ~ InUse(r)
       /\ resources_list' = Unlisted(r)
       /\ resource_pool' = PoolAllocator_releaseBlock(resource_pool, r)
  /\ Return(0)
  /\ UNCHANGED <<res_id, res_type, res_descriptors, desVars>>

DestroyResource(id) == DestroyMissing(id) \/ DestroyInUse(id) \/ DestroyOk(id)

---------------------------------------------------------------------------
(* What the life of a process does to its descriptors. *)

(* PCB_alloc hands out block p: its list is emptied and fds start from 0.  *)
NewDescriptorTable(p) ==
  /\ pcb_descriptors' = [pcb_descriptors EXCEPT ![p] = <<>>]
  /\ last_fd' = [last_fd EXCEPT ![p] = 0]
  /\ UNCHANGED <<resourceVars, res_descriptors, des_free, des_fd, des_resource, des_pcb,
                 desptr_free>>

(* The loop of exit that closes what p has open. *)
ReleaseAll(p) ==
  LET mine == ToSet(pcb_descriptors[p]) IN
    /\ res_descriptors' = [r \in Resource |-> res_descriptors[r] \ mine]
    /\ des_free' = des_free \cup mine
    /\ desptr_free' = desptr_free + Len(pcb_descriptors[p])
    /\ pcb_descriptors' = [pcb_descriptors EXCEPT ![p] = <<>>]
    /\ UNCHANGED <<resourceVars, des_fd, des_resource, des_pcb, last_fd>>

ResInit ==
  /\ resource_pool = PoolAllocator_init(MAX_NUM_RESOURCES) /\ resources_list = {}
  /\ res_id = [r \in Resource |-> 0] /\ res_type = [r \in Resource |-> 0]
  /\ res_descriptors = [r \in Resource |-> {}]
  /\ des_free = Descriptor
  /\ des_fd = [d \in Descriptor |-> 0]
  /\ des_resource = [d \in Descriptor |-> NullIdx]
  /\ des_pcb = [d \in Descriptor |-> NULL]
  /\ desptr_free = Cardinality(Descriptor)
  /\ pcb_descriptors = [p \in PCB |-> <<>>] /\ last_fd = [p \in PCB |-> 0]

ResSyscall(p) ==
  \/ OpenResource(p)
  \/ \E fd \in 0 .. MaxResourceFd : CloseResource(p, fd)
  \/ \E id \in ResourceIds : DestroyResource(id)

(* The subsystem as the rest of the kernel sees it. *)
ResNext == \E p \in PCB : ResSyscall(p) \/ NewDescriptorTable(p) \/ ReleaseAll(p)
ResSpec == ResInit /\ [][ResNext]_resVars

---------------------------------------------------------------------------
(* Properties. *)

(* Every field holds a value of its kind. *)
ResTypeOK ==
  /\ resource_pool \in Pool(MAX_NUM_RESOURCES) /\ resources_list \subseteq Resource
  /\ res_id \in [Resource -> ResourceIds \cup {0}]
  /\ res_type \in [Resource -> ResourceTypes \cup {0}]
  /\ res_descriptors \in [Resource -> SUBSET Descriptor]
  /\ des_free \subseteq Descriptor
  /\ des_fd \in [Descriptor -> Nat]
  /\ des_resource \in [Descriptor -> Resource \cup {NullIdx}]
  /\ des_pcb \in [Descriptor -> PCB \cup {NULL}]
  /\ desptr_free \in Nat
  /\ pcb_descriptors \in [PCB -> Seq(Descriptor)] /\ last_fd \in [PCB -> Nat]

(* The two lists a descriptor is linked in and its own fields agree: a     *)
(* process's list holds allocated descriptors of its own, each once, and a *)
(* resource's exactly those open on it, so that close and exit, which take *)
(* the resource from the descriptor, always detach from the right list.    *)
(* (That every descriptor is in its process's list is false: see           *)
(* ReleasedAtDeath in DisastrOS.)                                          *)
ResourceTables ==
  /\ \A p \in PCB : \A i, j \in DOMAIN pcb_descriptors[p] :
       /\ pcb_descriptors[p][i] \notin des_free /\ des_pcb[pcb_descriptors[p][i]] = p
       /\ pcb_descriptors[p][i] = pcb_descriptors[p][j] => i = j
  /\ \A r \in Resource, d \in Descriptor :
       d \in res_descriptors[r] <=> d \notin des_free /\ des_resource[d] = r
  /\ \A d \in Descriptor \ des_free : des_resource[d] \in resources_list

(* The global list holds exactly the blocks that the pool has handed out,  *)
(* and no two of them share an id: nothing is lost between the pool and    *)
(* the list, whichever opens fail half-way.                                *)
ListIsPool ==
  /\ resources_list = Resource \ FreeBlocks(resource_pool)
  /\ \A r, t \in resources_list : res_id[r] = res_id[t] => r = t

(* The fds of a process lead to distinct descriptors, in every life of its *)
(* PCB.                                                                    *)
ResourceFdsUnique ==
  \A p \in PCB : \A i \in DOMAIN pcb_descriptors[p] :
    /\ des_fd[pcb_descriptors[p][i]] < last_fd[p]
    /\ \A j \in DOMAIN pcb_descriptors[p] :
         des_fd[pcb_descriptors[p][i]] = des_fd[pcb_descriptors[p][j]] => i = j

(* As many DescriptorPtr blocks are free as Descriptor blocks, so the      *)
(* block that an open takes after its descriptor is there, although        *)
(* nothing tests it (open_resource.c:51).                                  *)
PtrBlocksInStep == desptr_free = Cardinality(des_free)

(* As long as a descriptor is open, the resource it leads to keeps its id  *)
(* and its type: the block is not destroyed and created again under it.    *)
OpenResourceStays ==
  [][\A d \in Descriptor \ (des_free \cup des_free') :
       LET r == des_resource[d] IN
         des_resource'[d] = r /\ res_id'[r] = res_id[r] /\ res_type'[r] = res_type[r]]_resVars

(* Under the creates and destroys of all processes the fields of the       *)
(* allocator keep a stack of free blocks.                                  *)
ResourceBlocks == INSTANCE BlockStack WITH
  Block <- Resource, free <- FreeList(resource_pool)

PoolIsStack == ResourceBlocks!Spec
===========================================================================
