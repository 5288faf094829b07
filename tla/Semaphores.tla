---------------------------- MODULE Semaphores ----------------------------
(***************************************************************************)
(* The semaphore subsystem: disastrOS_sem{open,close,wait,post}.c over the *)
(* objects of disastrOS_semaphore.c and disastrOS_semdescriptor.c.         *)
(*                                                                         *)
(* A Semaphore block has an id, a count, the set of descriptors open on it *)
(* and the queue of those that wait.  A SemDescriptor block is one fd of   *)
(* one process.  Each handler is one atomic step; each of its branches is  *)
(* an action of its own, with the process p that calls it as a parameter.  *)
(* What a handler does to the process itself (its status, the waiting and  *)
(* the ready list) is added by module DisastrOS, which conjoins these      *)
(* actions with those of module Processes.                                 *)
(*                                                                         *)
(* The block pools are used through what they promise: a free block, any   *)
(* one.  The DescriptorPtr blocks carry nothing but a descriptor, so only  *)
(* their number is kept.                                                   *)
(***************************************************************************)
EXTENDS Kernel, SequencesExt

CONSTANTS
  Semaphore,         \* blocks of the semaphore pool
  SemDescriptor,     \* blocks of the descriptor pool
  MaxPtr,            \* blocks of the DescriptorPtr pool
  SemIds,            \* the ids programs use
  Oflags,            \* the flag words programs use
  InitialCounts,     \* the counts programs create semaphores with
  MaxCount,          \* bound: no post raises a count above it
  MaxFd,             \* bound: no process opens more than this many fds in a life
  Recycled           \* the PCB blocks that are allocated again after a first life

ASSUME SemConstantsAssumption ==
  /\ Oflags \subseteq FlagSets
  /\ InitialCounts \subseteq Int
  /\ MaxPtr \in Nat /\ MaxCount \in Nat /\ MaxFd \in Nat
  /\ Recycled \subseteq PCB
  /\ IsFiniteSet(SemDescriptor)

VARIABLES
  sem_free,             \* the free blocks of the semaphore pool
  semaphores_list,      \* the global list: the semaphores an open can find
  sem_id, sem_count,    \* Semaphore.id and Semaphore.count
  descriptors,          \* Semaphore.descriptors: the descriptors open on each
  waiting_descriptors,  \* Semaphore.waiting_descriptors: the queue of each
  desc_free,            \* the free blocks of the descriptor pool
  desc_fd, desc_sem, desc_pcb,   \* SemDescriptor.fd, .semaphore, .pcb
  ptr_free,             \* how many DescriptorPtr blocks are free
  sem_descriptors,      \* PCB.sem_descriptors, in the order of the opens
  last_sem_fd           \* PCB.last_sem_fd

semaphoreVars == <<sem_free, semaphores_list, sem_id>>
descVars == <<descriptors, desc_free, desc_fd, desc_sem, desc_pcb, sem_descriptors>>
semVars  == <<semaphoreVars, sem_count, waiting_descriptors, descVars, ptr_free, last_sem_fd>>

Allocated == Semaphore \ sem_free

---------------------------------------------------------------------------
(* Lookups. *)

(* SemaphoreList_byId: the listed semaphore with this id (ids are unique). *)
ById(id) == {s \in semaphores_list : sem_id[s] = id}

(* SemDescriptorList_byFd finds the descriptor at index i of p's list: the *)
(* first one with that fd.                                                 *)
ByFd(p, fd, i) ==
  /\ i \in DOMAIN sem_descriptors[p]
  /\ desc_fd[sem_descriptors[p][i]] = fd
  /\ \A j \in 1 .. i - 1 : desc_fd[sem_descriptors[p][j]] # fd

NoSuchFd(p, fd) ==
  \A i \in DOMAIN sem_descriptors[p] : desc_fd[sem_descriptors[p][i]] # fd

(* A DescriptorPtr block is taken from its pool. *)
PtrTaken     == ptr_free > 0 /\ ptr_free' = ptr_free - 1
PtrShared    == ptr_free > 0 /\ ptr_free' = ptr_free        \* slip: a block in use is linked again
PtrUnchecked == ptr_free' = ptr_free - 1                    \* slip: the pool hands out more than it has
SemDescriptorPtr_alloc == PtrTaken

---------------------------------------------------------------------------
(* semOpen(id, oflag, count). *)

SemOpenExists(id, oflag) ==
  /\ Has(oflag, DSOS_CREATE) /\ ById(id) # {}
  /\ Return(DSOS_ESEMAPHORECREATE)
  /\ UNCHANGED semVars

(* Semaphore_alloc returns null and List_insert dereferences it. *)
SemOpenNoBlock(id, oflag) ==
  /\ Has(oflag, DSOS_CREATE) /\ ById(id) = {} /\ sem_free = {}
  /\ Crash
  /\ UNCHANGED semVars

SemOpenMissing(id, oflag) ==
  /\ ~ Has(oflag, DSOS_CREATE) /\ ById(id) = {}
  /\ Return(DSOS_ESEMAPHOREOPEN)
  /\ UNCHANGED semVars

SemOpenNoExcl(id, oflag) ==
  /\ ~ Has(oflag, DSOS_CREATE) /\ Has(oflag, DSOS_EXCL)
  /\ \E s \in ById(id) : descriptors[s] # {}
  /\ Return(DSOS_ESEMAPHORENOEXCL)
  /\ UNCHANGED semVars

(* The open reaches a semaphore s: a new block that it puts in the global  *)
(* list, or the listed one that an exclusive open finds unused.            *)
Creates(id, oflag, count, s) ==
  /\ Has(oflag, DSOS_CREATE) /\ ById(id) = {} /\ s \in sem_free
  /\ sem_free' = sem_free \ {s}
  /\ semaphores_list' = semaphores_list \cup {s}
  /\ sem_id' = [sem_id EXCEPT ![s] = id]
  /\ sem_count' = [sem_count EXCEPT ![s] = count]

Finds(id, oflag, s) ==
  /\ ~ Has(oflag, DSOS_CREATE) /\ s \in ById(id)
  /\ Has(oflag, DSOS_EXCL) => descriptors[s] = {}
  /\ UNCHANGED <<semaphoreVars, sem_count>>

Reaches(id, oflag, count, s) == Creates(id, oflag, count, s) \/ Finds(id, oflag, s)

(* No descriptor block is left.  A semaphore created by this call stays in *)
(* the global list with nothing open on it.                                *)
SemOpenNoFd(id, oflag, count, s) ==
  /\ Reaches(id, oflag, count, s)
  /\ desc_free = {}
  /\ Return(DSOS_ERESOURCENOFD)
  /\ UNCHANGED <<descVars, waiting_descriptors, ptr_free, last_sem_fd>>

(* SemDescriptorPtr_alloc returns null and List_insert dereferences it. *)
SemOpenNoPtr(id, oflag) ==
  /\ \/ Has(oflag, DSOS_CREATE) /\ ById(id) = {} /\ sem_free # {}
     \/ /\ ~ Has(oflag, DSOS_CREATE)
        /\ \E s \in ById(id) : Has(oflag, DSOS_EXCL) => descriptors[s] = {}
  /\ desc_free # {} /\ ptr_free = 0
  /\ Crash
  /\ UNCHANGED semVars

SameFd(p) == last_sem_fd                                    \* slip: no increment
NextFd(p) == [last_sem_fd EXCEPT ![p] = @ + 1]

SemOpenOk(p, id, oflag, count, s, d) ==
  /\ Reaches(id, oflag, count, s)
  /\ d \in desc_free /\ SemDescriptorPtr_alloc /\ last_sem_fd[p] < MaxFd
  /\ desc_free' = desc_free \ {d}
  /\ desc_fd' = [desc_fd EXCEPT ![d] = last_sem_fd[p]]
  /\ desc_sem' = [desc_sem EXCEPT ![d] = s]
  /\ desc_pcb' = [desc_pcb EXCEPT ![d] = p]
  /\ last_sem_fd' = NextFd(p)
  /\ sem_descriptors' = [sem_descriptors EXCEPT ![p] = Append(@, d)]
  /\ descriptors' = [descriptors EXCEPT ![s] = @ \cup {d}]
  /\ Return(last_sem_fd[p])
  /\ UNCHANGED waiting_descriptors

SemOpenWith(p, id, oflag, count) ==
  \/ SemOpenExists(id, oflag)
  \/ SemOpenNoBlock(id, oflag)
  \/ SemOpenMissing(id, oflag)
  \/ SemOpenNoExcl(id, oflag)
  \/ SemOpenNoPtr(id, oflag)
  \/ \E s \in Semaphore :
       \/ SemOpenNoFd(id, oflag, count, s)
       \/ \E d \in SemDescriptor : SemOpenOk(p, id, oflag, count, s, d)

SemOpen(p) ==
  \E id \in SemIds, oflag \in Oflags, count \in InitialCounts : SemOpenWith(p, id, oflag, count)

---------------------------------------------------------------------------
(* semWait(fd). *)

SemWaitBadFd(p, fd) ==
  /\ NoSuchFd(p, fd)
  /\ Return(DSOS_ESEMAPHOREWAIT)
  /\ UNCHANGED semVars

(* The count covers the caller: it goes on. *)
SemWaitTakes(p, fd) ==
  /\ \E i \in DOMAIN sem_descriptors[p] :
       LET s == desc_sem[sem_descriptors[p][i]] IN
         /\ ByFd(p, fd, i)
         /\ sem_count[s] > 0
         /\ sem_count' = [sem_count EXCEPT ![s] = @ - 1]
  /\ Return(0)
  /\ UNCHANGED <<semaphoreVars, waiting_descriptors, descVars, ptr_free, last_sem_fd>>

QueuedFirst(s, d) == <<d>> \o waiting_descriptors[s]          \* slip: inserted at the front
QueuedLast(s, d)  == Append(waiting_descriptors[s], d)

(* The descriptor joins the queue of its semaphore, through a new pointer  *)
(* block.  (DisastrOS adds the caller's move to the waiting list.)         *)
SemWaitQueues(p, fd) ==
  /\ SemDescriptorPtr_alloc
  /\ \E i \in DOMAIN sem_descriptors[p] :
       LET d == sem_descriptors[p][i]
           s == desc_sem[d]
       IN /\ ByFd(p, fd, i)
          /\ sem_count[s] <= 0
          /\ sem_count' = [sem_count EXCEPT ![s] = @ - 1]
          /\ waiting_descriptors' = [waiting_descriptors EXCEPT ![s] = QueuedLast(s, d)]
  /\ Return(0)
  /\ UNCHANGED <<semaphoreVars, descVars, last_sem_fd>>

(* No pointer block is left: List_insert of a null item. *)
SemWaitNoPtr(p, fd) ==
  /\ \E i \in DOMAIN sem_descriptors[p] :
       ByFd(p, fd, i) /\ sem_count[desc_sem[sem_descriptors[p][i]]] <= 0
  /\ ptr_free = 0
  /\ Crash
  /\ UNCHANGED semVars

SemWait(p, fd) ==
  \/ SemWaitBadFd(p, fd) \/ SemWaitTakes(p, fd)
  \/ SemWaitQueues(p, fd) \/ SemWaitNoPtr(p, fd)

---------------------------------------------------------------------------
(* semPost(fd). *)

(* sem->count <= 0, once it is incremented. *)
WakesBelow(s) == sem_count[s] < -1                           \* slip: < for <=
Wakes(s)      == sem_count[s] < 0

(* The handler prints sem_desc->semaphore->id before any test, so an fd    *)
(* that is not open is a null dereference; so is the detach of the first   *)
(* waiter of a queue that a negative initial count left empty.             *)
SemPostCrashes(p, fd) ==
  /\ \/ NoSuchFd(p, fd)
     \/ \E i \in DOMAIN sem_descriptors[p] :
          LET s == desc_sem[sem_descriptors[p][i]] IN
            ByFd(p, fd, i) /\ Wakes(s) /\ waiting_descriptors[s] = <<>>
  /\ Crash
  /\ UNCHANGED semVars

SemPostAdds(p, fd) ==
  /\ \E i \in DOMAIN sem_descriptors[p] :
       LET s == desc_sem[sem_descriptors[p][i]] IN
         /\ ByFd(p, fd, i)
         /\ ~ Wakes(s) /\ sem_count[s] < MaxCount
         /\ sem_count' = [sem_count EXCEPT ![s] = @ + 1]
  /\ Return(0)
  /\ UNCHANGED <<semaphoreVars, waiting_descriptors, descVars, ptr_free, last_sem_fd>>

(* The first of the queue leaves it; w is the process its descriptor names *)
(* now.  Its pointer block is not given back.  (DisastrOS adds w's move to *)
(* the ready list.)                                                        *)
SemPostWakes(p, fd, w) ==
  /\ \E i \in DOMAIN sem_descriptors[p] :
       LET s == desc_sem[sem_descriptors[p][i]] IN
         /\ ByFd(p, fd, i)
         /\ Wakes(s) /\ waiting_descriptors[s] # <<>>
         /\ w = desc_pcb[Head(waiting_descriptors[s])]
         /\ sem_count' = [sem_count EXCEPT ![s] = @ + 1]
         /\ waiting_descriptors' = [waiting_descriptors EXCEPT ![s] = Tail(@)]
  /\ Return(0)
  /\ UNCHANGED <<semaphoreVars, descVars, ptr_free, last_sem_fd>>

SemPost(p, fd) ==
  \/ SemPostCrashes(p, fd) \/ SemPostAdds(p, fd)
  \/ \E w \in PCB : SemPostWakes(p, fd, w)

---------------------------------------------------------------------------
(* semClose(fd). *)

SemCloseBadFd(p, fd) ==
  /\ NoSuchFd(p, fd)
  /\ Return(DSOS_ESEMAPHORECLOSE)
  /\ UNCHANGED semVars

(* What is left of p's list, and whether nothing is left of s's. *)
FirstDetached(p, i)  == Tail(sem_descriptors[p])            \* slip: the head is detached
Detached(p, i)       == RemoveAt(sem_descriptors[p], i)
NeverLast(s, d)      == FALSE                               \* slip: nothing is unlisted
CountedBefore(s, d)  == Cardinality(descriptors[s]) = 2    \* slip: one too many is let go
LastClose(s, d)      == descriptors[s] = {d}

(* The last close takes the semaphore out of the global list, but its      *)
(* block is never freed.  The queue is not looked at: a descriptor that    *)
(* waits is freed all the same and its entry stays in the queue.           *)
SemCloseOk(p, fd) ==
  /\ \E i \in DOMAIN sem_descriptors[p] :
       LET d == sem_descriptors[p][i]
           s == desc_sem[d]
       IN /\ ByFd(p, fd, i)
          /\ sem_descriptors' = [sem_descriptors EXCEPT ![p] = Detached(p, i)]
          /\ descriptors' = [descriptors EXCEPT ![s] = @ \ {d}]
          /\ semaphores_list' = IF LastClose(s, d) THEN semaphores_list \ {s}
                                                     ELSE semaphores_list
          /\ desc_free' = desc_free \cup {d}
  /\ ptr_free' = ptr_free + 1
  /\ Return(0)
  /\ UNCHANGED <<sem_free, sem_id, sem_count, waiting_descriptors,
                 desc_fd, desc_sem, desc_pcb, last_sem_fd>>

SemClose(p, fd) == SemCloseBadFd(p, fd) \/ SemCloseOk(p, fd)

---------------------------------------------------------------------------
(* PCB_alloc hands out block p: fds start from 0, but the list of open     *)
(* descriptors is not emptied (PCB_alloc empties `descriptors` twice).     *)
NewPCB(p) ==
  /\ last_sem_fd' = [last_sem_fd EXCEPT ![p] = 0]
  /\ UNCHANGED <<semaphoreVars, sem_count, waiting_descriptors, descVars, ptr_free>>

SemInit ==
  /\ sem_free = Semaphore /\ semaphores_list = {}
  /\ sem_id = [s \in Semaphore |-> 0] /\ sem_count = [s \in Semaphore |-> 0]
  /\ descriptors = [s \in Semaphore |-> {}]
  /\ waiting_descriptors = [s \in Semaphore |-> <<>>]
  /\ desc_free = SemDescriptor
  /\ desc_fd = [d \in SemDescriptor |-> 0]
  /\ desc_sem = [d \in SemDescriptor |-> NULL]
  /\ desc_pcb = [d \in SemDescriptor |-> NULL]
  /\ ptr_free = MaxPtr
  /\ sem_descriptors = [p \in PCB |-> <<>>] /\ last_sem_fd = [p \in PCB |-> 0]

SemSyscall(p) ==
  \/ SemOpen(p)
  \/ \E fd \in 0 .. MaxFd : SemWait(p, fd) \/ SemPost(p, fd) \/ SemClose(p, fd)

(* The subsystem as the rest of the kernel sees it: mode and retval are    *)
(* shared with the other system calls and are not part of its state.       *)
SemNext == \E p \in PCB : SemSyscall(p) \/ (p \in Recycled /\ NewPCB(p))
SemSpec == SemInit /\ [][SemNext]_semVars

---------------------------------------------------------------------------
(* Properties. *)

(* Every field holds a value of its kind. *)
SemTypeOK ==
  /\ sem_free \subseteq Semaphore /\ semaphores_list \subseteq Semaphore
  /\ sem_id \in [Semaphore -> SemIds \cup {0}] /\ sem_count \in [Semaphore -> Int]
  /\ descriptors \in [Semaphore -> SUBSET SemDescriptor]
  /\ waiting_descriptors \in [Semaphore -> Seq(SemDescriptor)]
  /\ desc_free \subseteq SemDescriptor
  /\ desc_fd \in [SemDescriptor -> Nat]
  /\ desc_sem \in [SemDescriptor -> Semaphore \cup {NULL}]
  /\ desc_pcb \in [SemDescriptor -> PCB \cup {NULL}]
  /\ ptr_free \in Nat
  /\ sem_descriptors \in [PCB -> Seq(SemDescriptor)] /\ last_sem_fd \in [PCB -> Nat]

(* What a semaphore owes: the waits that its count says are not granted.   *)
Owed(s) == IF sem_count[s] < 0 THEN - sem_count[s] ELSE 0

(* semWait and semPost keep the count and the queue in step: nobody waits  *)
(* whom the count does not know of, so with a count of 0 or more the queue *)
(* is empty and a permit never lies unused while somebody waits for it     *)
(* (semwait.c:22, sempost.c:23).                                           *)
WaitersMatchCount == \A s \in Semaphore : Len(waiting_descriptors[s]) <= Owed(s)

(* What a semaphore owes to nobody was owed when it was created, with a    *)
(* negative count, and is never paid: a post on it wakes a waiter, or dies *)
(* of the empty queue (sempost.c:27).  A semaphore created with a count of *)
(* 0 or more always owes exactly as much as there are waiters.             *)
DebtStays ==
  [][\A s \in Allocated' :
       IF s \in Allocated
       THEN Owed(s)' - Len(waiting_descriptors'[s]) = Owed(s) - Len(waiting_descriptors[s])
       ELSE waiting_descriptors'[s] = <<>>]_semVars

(* The two lists a descriptor is linked in and its own fields agree: p's   *)
(* list holds exactly the allocated descriptors of p, each once, and a     *)
(* semaphore's those open on it.  So close (semclose.c:23-30) always finds *)
(* both entries, and neither list ever holds a freed block.                *)
ProcessTable ==
  /\ \A p \in PCB : \A i, j \in DOMAIN sem_descriptors[p] :
       sem_descriptors[p][i] = sem_descriptors[p][j] => i = j
  /\ \A p \in PCB : \A i \in DOMAIN sem_descriptors[p] :
       /\ sem_descriptors[p][i] \notin desc_free
       /\ desc_pcb[sem_descriptors[p][i]] = p
  /\ \A d \in SemDescriptor \ desc_free :
       desc_pcb[d] \in PCB /\ \E i \in DOMAIN sem_descriptors[desc_pcb[d]] :
                                  sem_descriptors[desc_pcb[d]][i] = d

SemaphoreTable ==
  /\ \A d \in SemDescriptor \ desc_free : desc_sem[d] \in Semaphore
  /\ \A s \in Semaphore, d \in SemDescriptor :
       d \in descriptors[s] <=> d \notin desc_free /\ desc_sem[d] = s

DescriptorTables == ProcessTable /\ SemaphoreTable

(* A semaphore some fd refers to can be found by the next open, and no two *)
(* listed semaphores share an id: two processes that open the same id      *)
(* while it is in use always get the same semaphore.                       *)
OpenSemaphoresListed ==
  /\ \A s \in Semaphore : descriptors[s] # {} => s \in semaphores_list
  /\ semaphores_list \cap sem_free = {}
  /\ \A s, t \in semaphores_list : sem_id[s] = sem_id[t] => s = t

(* In the first life of its PCB a process never has the same fd twice, so  *)
(* the descriptor an fd finds is the one its open returned.                *)
FdsUnique ==
  \A p \in PCB \ Recycled : \A i \in DOMAIN sem_descriptors[p] :
    /\ desc_fd[sem_descriptors[p][i]] < last_sem_fd[p]
    /\ \A j \in DOMAIN sem_descriptors[p] :
         desc_fd[sem_descriptors[p][i]] = desc_fd[sem_descriptors[p][j]] => i = j

(* The places of the queues: one for each time a descriptor waits. *)
QueueEntries == UNION {{s} \X DOMAIN waiting_descriptors[s] : s \in Semaphore}

(* No DescriptorPtr block is counted free while it links an open           *)
(* descriptor or a queued one: close frees the one its open took and       *)
(* nothing frees a queued one.                                             *)
PtrBlocksNotShared ==
  ptr_free + Cardinality(SemDescriptor \ desc_free) + Cardinality(QueueEntries) <= MaxPtr

(* The only step that leaves a listed semaphore with nothing open on it is *)
(* a creating open that found the descriptor pool empty (semopen.c:44-47): *)
(* the last close takes its semaphore out, no other failed open puts one   *)
(* in.                                                                     *)
OrphansOnlyWhenNoFd ==
  [][\A s \in semaphores_list' :
       descriptors'[s] = {} => \/ s \in semaphores_list /\ descriptors[s] = {}
                              \/ desc_free = {}]_semVars

(* Seen through its count and its queue, each semaphore is a counting      *)
(* semaphore with a first-come first-served queue, whatever is opened and  *)
(* closed meanwhile; one created with a negative count starts with no      *)
(* permits.                                                                *)
Classical == INSTANCE CountingSemaphore WITH
  Waiter        <- SemDescriptor,
  InitialCounts <- {IF n > 0 THEN n ELSE 0 : n \in InitialCounts},
  made          <- Allocated,
  permits       <- [s \in Semaphore |-> IF sem_count[s] > 0 THEN sem_count[s] ELSE 0],
  queue         <- waiting_descriptors

ImplementsClassical == Classical!Spec
===========================================================================
