# disastrOS with semaphores: TLA+ models, model checking and proofs

disastrOS is a toy operating system kernel that runs inside one Unix process:
its processes are `ucontext` coroutines, its system calls are context switches
to a trap handler, its clock is a SIGALRM interval timer. This repository adds
semaphores to it. This directory holds a specification of the kernel in TLA+,
the TLC configurations that check it on small instances, and proofs, checked by
TLAPS, about processes and their linked lists, semaphores, resources, the pool
allocator and the kernel made of them, for instances of every size.

Paths below are relative to `src/src/`.

## 1. The system

| Component | State | Operations | Model |
|---|---|---|---|
| Semaphores (`disastrOS_semaphore.c`, `disastrOS_semdescriptor.c`, `disastrOS_sem{open,close,wait,post}.c`) | the global `semaphores_list`; per semaphore an id, a count, the list of open descriptors and the queue of waiting ones; per process `sem_descriptors` and `last_sem_fd`; three block pools | `openSemaphore`, `closeSemaphore`, `waitSemaphore`, `postSemaphore` | `Semaphores` |
| Process control (`disastrOS.c`, `_pcb.c`, `_schedule.c`, `_spawn.c`, `_fork.c`, `_wait.c`, `_exit.c`, `_preempt.c`, `_shutdown.c`) | `running`, `init_pcb`, `last_pid`, the PCB pool, `ready_list`, `waiting_list`, `zombie_list` | `spawn`, `fork`, `wait`, `exit`, `preempt`, `shutdown`, the timer interrupt, the boot code | `Processes` |
| Timers (`disastrOS_timer.c`, `disastrOS_sleep.c`) | `timer_list`, `disastrOS_time` | `sleep`, expiry in the scheduler | `Processes` |
| Linked lists (`linked_list.c`) | `first`, `last`, `size` of a list; `next`, `prev` in the item | `List_insert`, `List_detach` | `LinkedList` |
| Resources (`disastrOS_resource.c`, `_descriptor.c`, `_{open,close,destroy}_resource.c`) | the global `resources_list`; per resource an id, a type, the open descriptors; per process `descriptors` and `last_fd`; three block pools | `openResource`, `closeResource`, `destroyResource`, the release loop of `exit` | `Resources` |
| Pool allocator (`pool_allocator.c`) | a free list of block indices | `init`, `getBlock`, `releaseBlock` | `PoolAllocator` |
| The kernel as a whole | all of it | a call made by the running process | `DisastrOS` |
| Test program (`disastrOS_semaphore_test.c`) | a circular buffer, two indices, fds in local and global variables | a producer, a consumer and an init that waits for them | `SemaphoreTest` |
| Other test programs (`disastrOS_semaphore_test2.c`, `disastrOS_test.c`) | - | readers and writers; resources | not modelled |
| Build and failure-rate script (`Makefile`, `tester.py`) | - | - | no kernel logic |

**How the parts interact.** A system call stores its arguments in the PCB of the
running process and switches to `trap_context`, whose signal mask blocks
SIGALRM; the handler may change `running`, and the trap resumes whatever process
`running` names when the handler is done. The timer signal saves the
interrupted code in the PCB of `running` and calls the scheduler. Resources
meet processes in two places: `PCB_alloc` empties the table of descriptors, and
`exit` closes what is in it, in the branch that wakes a waiting parent. Semaphores
meet processes in four places: the caller of an operation is `running`; `wait`
on an exhausted semaphore marks the caller `Waiting` and links it in
`waiting_list`; `post` with a waiter moves that waiter to `ready_list`; and
`PCB_alloc` initialises the semaphore fields of a new PCB (some of them).
All lists are intrusive: a PCB has one pair of links, so it can be in one list
only, and nobody checks membership.

**What is hard.** Interleaving: a process may be suspended between any two of
its calls. A wait and an exit, a wait and a post, a close and an open meet in
any order. Bounded pools: every block that is not given back, and every `NULL`
that is not tested. Recycled blocks: PCBs, descriptors and pointer blocks get a
second life while others still name them. Starvation: those whose timers fire
overtake everyone. Starting over: a process that returns from its function, or
the last one to fall asleep, falls back into the boot code, which makes a new
init. `PROJECT.json` lists each hazard at its line with the properties that
would catch it.

**What makes each part correct.**

- Semaphores: count and queue agree; seen from outside each is a counting
  semaphore with a first-come first-served queue; the process's and the
  semaphore's list of descriptors agree; a semaphore in use can be found, and
  two opens of an id in use give the same one.
- Processes: the three lists stay proper lists and partition the processes
  together with `running` and the pool; who waits has a timer or a live child whose
  exit will wake it; exit and wait of a parent and its own child do not miss each
  other in either order (both fail for a child that init has adopted, and for a wait
  for a pid that is no child's: section 4); a wait that has blocked is answered by
  the exit it asked for and by nothing else; every child is among the children of
  exactly one process; a death is reported once, to that process; the dead stay dead.
- Resources: the process's and the resource's list of descriptors agree; the list
  of resources is what their pool has handed out; a resource in use is not
  destroyed under its users; what a process has open is given back when it dies.
- Pool allocator: a stack of free blocks, each in it once.
- Timers and scheduler: nobody wakes before its time, nobody due is passed over, the
  first who is due runs at once, no sleeper is lost, nobody starves.
- The kernel: a process that waits does not run, and one that is ready is
  somewhere the scheduler looks.

## 2. The modules

`Kernel` - the constants of `disastrOS_constants.h`, the set `PCB` of blocks,
and how a call ends: `Return(v)` (`running->syscall_retvalue = v`) or `Crash` (a
null dereference in kernel code, which ends the whole program). `mode` says
what the machine does: user code, the boot code, or it has stopped.
`retval` is the value the last call handed to the process that runs.

`CountingSemaphore` - the abstract specification: Dijkstra's counting
semaphores with a FIFO queue.

`Semaphores` - the four calls. One action per branch of each handler; `SemOpen`,
`SemWait`, `SemPost` and `SemClose` are their disjunctions. The Semaphore and
SemDescriptor blocks are model values and their fields are functions of them.
`sem_descriptors` and `waiting_descriptors` are sequences, because the code
searches one from the front and takes the head of the other. The list of
descriptors of a semaphore is a set, since the code only tests it for
emptiness. A `SemDescriptorPtr` holds nothing but a descriptor, so only
the number of free ones is kept. Open flags are the sets of bits of the
constants, so that `DSOS_WRITE` (0x3) contains `DSOS_CREATE`, as in the code.

`LinkedList` - `List_insert` and `List_detach` assignment by assignment, as
functions on a record of pointers. `Holds(L, h, seq)` says that list `h` of store
`L` represents `seq`.

`Processes` - process control, scheduler, timers and boot. Each handler is one
atomic action with the scheduler's part in it (`Schedule` is the body of
`internal_schedule`, used by `preempt` and the timer signal). The ready,
waiting and zombie lists are `LinkedList` stores, so that misuse of a link
corrupts them as it does in C. The children of a process and the timers link
blocks of their own and are sequences. A timer keeps the ticks that are left
instead of the absolute time; this loses only the overflow of `disastrOS_time`.
`context` is what matters of `cpu_state`: nothing, the process's function, or the
boot code. `awaiting` is what `exit` reads from the parent's `syscall_num` and
`syscall_args[0]`.

`BlockStack` - the abstract pool: take from a stack of free blocks, give back a
block that is not in it.

`PoolAllocator` - the record of `first_idx`, `free_list` and `size` and the
functions `PoolAllocator_init`, `_getBlock` and `_releaseBlock` on it. A block is
its index. `FreeListIs(a, q)` says that the fields represent the sequence `q`.

`Resources` - open, close and destroy, one action per branch; what `PCB_alloc` and
`exit` do to the table of a process (`NewDescriptorTable`, `ReleaseAll`). The
resource blocks are indices of a `PoolAllocator`, so that the list of resources
and the pool can be compared; the descriptor pool is a set, which is what
the proofs about the pool allocator justify.

`DisastrOS` - all parts. `SemWaitBlocks` and `SemPostReadies` conjoin the
semaphore action with what the same handler does to the process's status and lists;
`Starts` and `Boots` conjoin the allocation of a PCB with the semaphore and resource
fields that `PCB_alloc` sets; `ExitReleases` and `ExitKeeps` are the exits that do and
do not close the resources of the process.

`SemaphoreTest` - the producer and the consumer of `disastrOS_semaphore_test.c` on
top of `DisastrOS`. Each job is a sequence of steps (a system call, or an access to
a variable the processes share) and each process has a place in its job, so that
the timer signal can come between any two steps. Variables that the jobs declare
themselves are per process, the others are global, as in C.

`SemaphoresProofs`, `LinkedListProofs`, `ProcessesProofs`, `PoolProofs`,
`ResourcesProofs`, `DisastrOSProofs`, with `SequenceLemmas` - the theorems (section 5).

`MCSemaphores`, `MCProcesses`, `MCDisastrOS`, `MCSemaphoreTest` - the values of
constants, bounds, views and next-state relations for TLC.

A few operators carry the comment *slip*: `SameFd`, `WakesBelow` and so on. They
are plausible mistakes in the definition that follows them, no specification
uses them, and each is named in `PROJECT.json` with the property that refutes it
when it is put in place of the right definition. They show that the
property depends on that line of the code.

**Atomicity.** A system call is one step because `trap_context` runs with SIGALRM
blocked (`disastrOS.c`, where the context is set up) and nothing else runs in
parallel. The scheduler's `interrupt_context` is taken as one step too: it would
need 100 ms for a second signal to find it still running. The windows inside
`disastrOS_syscall` before and after the switch touch only fields of the running
process. The boot code is interruptible, and is modelled so
(`mode = "booting"` and `TimerInterrupt`), with its allocations as one step.

**Death.** The code often dereferences a null pointer where a pool is empty or
a lookup fails. Those branches are actions (`SemOpenNoBlock`, `SemWaitNoPtr`,
`WaitNobodyReady`, ...) that stop the machine. A crash leaves the rest of the state
as it found it: what the handler wrote before is gone with the program. No property
of the project says that the kernel never crashes; the code does not keep such
a promise.

## 3. The runs

Two workers finish each run in less than a minute on an ordinary machine. Deadlock is checked
everywhere: a machine that has stopped may only stutter, and every other state has a step.

| Run | Instance | What it checks |
|---|---|---|
| `semaphores` | 2 processes, 2 ids, 2 semaphore blocks, 2 descriptors, 4 pointer blocks, the flag words `READ`, `WRITE` (which creates) and `EXCL`, initial counts -1 and 1, counts up to 1, at most 2 fds per life, the first PCB allocated again and again | `SemTypeOK`, `WaitersMatchCount`, `DescriptorTables`, `OpenSemaphoresListed`, `FdsUnique`, `PtrBlocksNotShared`; `DebtStays`: a negative initial count is never paid off; `OrphansOnlyWhenNoFd`; `ImplementsClassical`, the refinement of `CountingSemaphore` |
| `processes` | 3 PCBs, 5 pids, sleeps of 0 and 1 cycles, every call, timer signals, re-boots | `ProcTypeOK`, `ListsOK`, `PoolsConsistent`; `WaitersHaveAWakeup`: a timer, or a live child that was asked for; `WakesOnTime`: what each signal owes to the sleepers |
| `family` | 4 PCBs and 5 pids, programs that spawn, wait (for any child, or for any pid, also a stranger's), exit and preempt | `NoLostWakeup`, `EveryChildHasOneOwner`, `OrphansHungUp`, `NobodyLost`, `DeadStayDead`; `DeathsReported`: who is told of a death, and how often; `AnsweredAsAsked`: what ends a wait that has blocked |
| `live` | 3 PCBs, 3 pids, waits for any child or the first made, sleeps of 1 cycle, fair timer signals | `ReadyRuns` (no starvation), `SleepersWake` |
| `system` | the whole kernel: 2 PCBs, 2 pids, 1 semaphore, 2 descriptors, 3 pointer blocks; init does not sleep | `PoolsConsistent`, `AtMostOneOwner`, `DeathsReported`, `ImplementsClassical`, all while the lists are being tangled by waiters that run on |
| `resources` | the whole kernel: 2 PCBs, 2 pids, 2 resource blocks, 3 ids, 2 types, 2 descriptors, 2 fds per life | `ResTypeOK`, `ResourceTables`, `ListIsPool`, `ResourceFdsUnique`, `PtrBlocksInStep`, `OpenResourceStays`; `PoolIsStack`, the refinement of `BlockStack` |
| `waiters`, `stranded`, `dead`, `descriptors`, `unreleased` | the whole kernel, with one more pid where a second life is needed | one finding each (section 4) |
| `names` | the test program: 3 PCBs and pids, its 4 semaphores, 8 descriptors, 12 pointer blocks, a buffer of 2, 3 transactions, 3 rounds of the consumer | one finding (section 4) |

**Bounds, and why they are enough.** `MaxCount` stops posts at a count,
`MaxFd` and `MaxResourceFd` limit the opens in one life of a process, `MaxPid` the processes ever
made, `SleepTimes` the sleeps. Everything else (blocks in each pool) is a
constant of the program. In `semaphores`, two descriptors on one semaphore allow
two waiters of different processes, or two fds of one process, and more entries
in a queue when one of them waits again; four pointer blocks are more than the
descriptors need, so that both a full and an exhausted pool occur. Two semaphore
blocks let an id be closed, created again and exhaust the pool, and two ids tell
"the right semaphore" from "some semaphore". In `resources` three ids for two
blocks exhaust the pool and give a block a second resource; two
descriptors let the pool of descriptors run out in the middle of an open. In
`family` four PCBs are the fewest with which a block gets a second life as the
parent of new children while a child of its first life is still alive; three suffice for each pair of exit, wait and sleep to
meet in either order. In `processes` two pids more than PCBs give every block a second
life. In `system` two processes are enough for one of them to queue, wake itself, die while it is
in the ready list, and run on after its block was freed; with a third pid it would be given that block
as a child of its own, which the theorems cover. `MAX_NUM_PROCESSES` is also the size of the PCBPtr and timer pools,
as in the code. In `names` the free blocks are taken in order, since all are alike there.

**Views and symmetry.** Descriptor and semaphore blocks and semaphore ids, and in
`resources` the descriptors, ids and types, are interchangeable in the safety runs and permuted.
(The blocks of the resource pool are indices and are not.) The views drop what no step reads:
`retval`; the arguments of the last call of a process that does not wait, which its next call
overwrites before anybody can look at them (`exit` asks for them only of a process that waits);
the signals, except in `family`, which has a property about them; and in the runs of the
whole kernel the sizes of the lists. They identify all states of a stopped
machine in which the same thing happened to it; the last step's state was
compared before it stopped, and crashes change nothing else. Action properties are
evaluated on every step, before the view is applied to the state it leads to.
`live` uses neither view nor symmetry.

**Fairness** (`live` only). `WF(TimerInterrupt)`: the interval timer is set to
fire every 100 ms for ever (`disastrOS.c`, `setupSignals`), and user code runs
with the signal unblocked. `WF` of the boot code: straight-line code without
a wait. Nothing is assumed of the processes: a process may loop without ever
calling the kernel. The two properties hold up to the machine's stopping
(`Stopped`), since the kernel may crash, hang or be shut down.

## 4. Where code and documentation disagree

1. **A waiter runs on** (`waiters`, `WaitersDoNotRun`). `semWait` on an exhausted
   semaphore marks the caller `Waiting` and links it in `waiting_list`, but leaves
   it in `running` and returns 0 to it (`disastrOS_semwait.c:25`; the loop meant to wait
   is a comment, line 27). `disastrOS_pcb.h:12` describes the status as
   "Waiting: io or semaphore wait".
2. **A ready process is lost** (`stranded`, `NobodyStranded`). It follows from 1: a
   process opens a semaphore with count 0, waits twice (it is now queued twice),
   posts (it wakes itself: it is in `ready_list` while running), spawns a child
   (linked behind it), posts again. The second post detaches it "from the waiting list": that
   unlinks it from its neighbour in the ready list, and the insertion that
   follows leaves the child in no list that the scheduler reads (the head of `waiting_list`
   may still point to it). The model also shows
   that `List_insert`'s check does not help: the only item of a list has no links and
   looks unlinked.
3. **A dead process is revived** (`dead`, `DeadStayDead`). `exit` does not close
   the semaphores of the process and leaves its entries in their queues; a later
   post sets the zombie `Ready` and links it in the ready list. Without semaphores
   the same property holds (`family`).
4. **A new process inherits descriptors** (`descriptors`,
   `NewProcessesOwnNothing`). `PCB_alloc` initialises `descriptors` twice and
   `sem_descriptors` never, so a recycled PCB starts with the open descriptors of the dead
   process, while its fds count from 0 again, so that an fd may name two of them.
5. **Resources are not given back** (`unreleased`, `ReleasedAtDeath`).
   `disastrOS_exit.c:74` says "we release all resources of a process upon termination".
   That loop is in the branch for a parent that waits already. In the other
   branch the process becomes a zombie, and `wait` frees its PCB without looking at its
   descriptors. They stay allocated and linked in their resource, which can never be
   destroyed again.
6. **The test posts other semaphores than it names** (`names`,
   `NamesMeanSemaphores`). `producerJob` declares variables of its own for `empty_sem` and
   `producers_sem` but posts the global `fill_sem` (`disastrOS_semaphore_test.c:66`), which
   holds init's fd 1. An fd belongs to a process, and the producer's fd 1 is its
   `producers_sem`: the fill semaphore is never posted. `consumerJob` posts the global
   `empty_sem` (line 102), fd 0, its own `fill_sem`.

The repository's own `README.md` also has the descriptions of `waitSemaphore` and
`postSemaphore` swapped; the models follow the code. And a comment in `disastrOS_wait.c`
(line 33: "if we were looking for a process not in child list we need to return an error") is true
only of a process without children: the scan leaves `awaited_pcb` at the last child,
never null, and a wait for somebody else's pid does one of two things. If
the last child is a zombie, it is reaped, and what the caller is told is the pid of the child that
it lost (`DeathsReported`), so it can find out. If the last child is alive, the caller blocks with the
stranger's pid as its argument; the last child's exit does not match that (`disastrOS_exit.c:43`), the
exit of a process that has the pid looks at the parent of that process, and the caller waits for ever. Both exceptions, this and init's wait for a child
that it has adopted (`disastrOS_exit.c:40` looks at the old parent), are written into `WaitersHaveAWakeup`;
`AnsweredAsAsked` says what the blocked ones may rely on: no exit answers a call that did not ask
for it, and no child is taken from the caller meanwhile.

What finding 1 does *not* break is as interesting: count, queue, tables and all
pools stay right, and so do the families: who is whose child, and that a death is
reported once (`system`, and the theorems of `DisastrOSProofs`). The damage is confined to
the lists of processes. And findings 2 and 3 need finding 1: as long as no `semWait` finds
its semaphore exhausted, nothing that the processes do with semaphores and resources
disturbs the lists (the theorems `Calm...` of section 5). Nor does finding 5 break the tables of resources: the
descriptors of the dead keep their resource from being destroyed, so no
descriptor ever leads to a block that is something else now
(`OpenResourceStays`).

## 5. The proofs

`SemaphoresProofs` is about `SemSpec`, for any number of processes, semaphores,
descriptors, ids and pointer blocks. Its inductive invariant is

    IInv == SemTypeOK /\ DescriptorTables /\ OpenSemaphoresListed /\ FreeUntouched

`DescriptorTables` is not enough on its own: that a close finds the descriptor in
the semaphore's list needs the fields to be typed; that a created semaphore starts
with nobody queued needs `FreeUntouched` (the queue of a block that was never
allocated is empty); and that two semaphores never share an id needs the listed ones
to be allocated. The argument goes

1. `StepIsEffect`: every step leaves the state alone or is one of a few effects
   (the branches that return an error or crash are dealt with once);
2. one lemma per effect and conjunct (`OpenTyped`, `CloseKeepsTables`,
   `OpenKeepsListed`, ...), on top of facts about the element-wise content of the
   shortened and the extended list (`RemoveAtElements`, `ClosedList`, `OpenedList`);
3. `Inductive`, `Initial`, and from them `TypeCorrect`, `TablesAgree` and
   `OpenOnesListed`;
4. `StepCounts`: as far as counts and queues go, a step is one of a few
   (`CountStep`). From it follow `CountMatchesQueue`, `DebtRemains` (`DebtStays`) and, with the refinement
   mapping `permits = max(count, 0)`, `queue = waiting_descriptors`,
   `made = ` the allocated blocks, the theorem `Refinement`: `SemSpec` implements
   `CountingSemaphore`;
5. `FdsDistinct`: fds are unique in the first life of a PCB. (In a
   recycled PCB they are not: finding 4.)
6. `PtrBlocksSeparate`: the pointer blocks that link open descriptors and queue
   entries and those that are free are no more than there are. The entries of the
   queues are the pairs of a semaphore and a position (`QueueEntries`); each step adds one
   pair, removes one, or none (`EntryAdded`, `EntryRemoved`), so the sum
   is never computed. `OrphansNeedNoFd` is the action property `OrphansOnlyWhenNoFd`.

`CountMatchesQueue` and `Refinement` hold for any initial counts. A semaphore
created with a negative count starts, seen from outside, with no permits, and owes
what nobody waits for; that debt stays (`DebtRemains`). With
`InitialCounts \subseteq Nat` the bound is an equality, `CountIsQueue`, and a post
never meets an empty queue.

`LinkedListProofs` is about stores with any number of items and lists. `Represents(L, s)`
says that the pointers of `L` spell the sequence `s[h]` in each list `h`, that no item is
in two lists, and that an item in none has no links. `InsertRepresents` and
`DetachRepresents` show that `List_insert` of an unlisted item and `List_detach` of a listed one
are insertion and removal in the sequence, although they test nothing: this is what
the code's callers have to ensure. `WalkIsSequence` reads the sequence
back by following `next`. The lemmas at the end of the module speak of the sets of items
only (`InsertItems`, `EnlistItems`, `DetachItems`, `FreshItems`).

`ProcessesProofs` is about `ProcSpec`, for any number of PCBs and pids and any sleeping times.
Its invariant is

    ProcInv == ProcTypeOK /\ Proper(lists) /\ Placed /\ FreeOK
                 /\ Families /\ Timers /\ PtrBlocks /\ NoLostWakeup

None of the properties that the runs check is inductive by itself. That the lists stay
proper needs to know, at each insertion, that the PCB is in no list, and at each
detachment that it is in the list named: `Placed` says who is where, by
status. A wait that reaps a zombie takes it from the zombie list because its
parent still has it among its children, so `Placed` needs `Families`: each live
process with a parent is in exactly one list of children, of a live process,
and what is in such a list is live. An exit that wakes a
waiting parent finds itself among the children of that parent by pid, and the child
found is itself only because pids are unique. An orphan keeps the pointer to its old
parent, whose block may be another process's by now: if that one waits, the search by pid
finds nothing and the kernel crashes (`ExitToStranger`) with the lists as they were.
A new PCB is in no list and nobody's child because it
comes from the pool: `FreeOK`. `Timers` says that the waiting processes are the ones with a
timer or in the call `wait`, one timer each, in order, and that who is in the call `wait` has children.
With `NoLostWakeup` this yields `WaitersHaveAWakeup`: the child asked for, or any child, is not a zombie
unless it was adopted.

There is one lemma per action, each in two halves: what the action does to the sets of the
lists and to the fields, and that the invariant survives that. The scheduler's
fold over the due timers goes by `Induction` over the number of timers
handled. `EveryStep` puts them together; it also yields the action properties
`DeadStayDeadAlways` and `WaitsAreAnsweredAsAsked`. For the latter most actions leave everybody who is in the
call `wait` alone (`WaitsGoOn`); the exit that wakes its parent loses that parent exactly
the process that runs, and adoption only adds children to init's.

Two more action properties follow from `ProcInv`. The clock: in a list that is in order the due timers
are the first ones (`DueAreFirst`), so what the scheduler cuts off are exactly the due
ones, what it leaves is not due, and the owner of the first timer, put in front of the
ready list before the others, is the one it switches to (`ScheduleOnTime`, `SleepersWakeOnTime`).
Deaths: a PCB is freed by a wait that found it among the caller's children, or
by an exit that found itself among the children of the parent that now runs
(`StepReports`, `DeathsAreReported`); because children have one place (`OwnedOnce`) it is gone from
the list after that.

`NobodyIsLost` assumes that the boot code makes no second init
(`OneBootSpec`): a process that returns from its function falls back into the boot code,
which makes another process `running` and leaves the old one, still marked as
running, in no list.

`PoolProofs` is about pools of any size: after `init` the fields represent the
sequence of all blocks, `getBlock` takes its head, `releaseBlock` of a block in use
puts it in front (`InitKeeps`, `GetBlockPops`, `ReleasePushes`). A refinement
needs the sequence as a function of the fields, so it has to be unique
(`OneFreeList`), which is an induction along the list. The induction theorem of the
library takes a predicate, out of reach for the provers; `Induction` (in `SequenceLemmas`, used
by all) states it of a set of numbers and derives it from the fact that an injection of
a finite set into itself is a surjection.

`ResourcesProofs` is about `ResSpec`. Its invariant is

    ResInv == ResTypeOK /\ PoolKept /\ ResourceTables /\ ListIsPool
                /\ ResourceFdsUnique /\ PtrBlocksInStep

where `PoolKept` says that the fields of the pool represent some sequence. The
parts need each other: a new block has no descriptors open on it because
it is not listed (`ListIsPool`) and open descriptors lead to listed resources
(`ResourceTables`); a destroy gives back a block that is in use because it is
listed; a release of k descriptors gives back k pointer blocks because they are
distinct. From it follow `ResourceStays`, which is an action property, and, with
`free` the sequence that the fields represent, `PoolImplementsStack`: `ResSpec`
implements `BlockStack`.

`DisastrOSProofs` carries both over to the kernel: every step of `DisastrOS` is a
step of `Semaphores` or leaves the semaphore state alone
(`KernelImplementsSemaphores`), hence `KernelTablesAgree` and
`KernelImplementsClassical`; and likewise for `Resources`
(`KernelImplementsResources`), hence `KernelResourcesAgree`, `KernelPoolIsStack` and
`KernelResourceStays`. The theorems about semaphores assume `Recycled = PCB`, that every
PCB may be allocated again, as it is in the kernel.

Three more kinds of theorems are about the kernel as a whole, where waiters run on.

- `KernelPoolsConsistent`. `ProcInv` is false there (findings 1 to 3), so the pools
  need an invariant that does not say who is where. `PoolInv` types the links of the
  lists without asking what they spell, keeps the free list free of
  repetitions, and counts the entries of all lists of children, whatever is in them
  and whether or not the PCB they belong to is in use:
  `pcbptr_free + EntryCount <= MAX_NUM_PROCESSES`. The lemmas `CountChanges` and
  `CountSame` say how one changed list moves the sum. No assumption on `Recycled`
  is needed.
- `KernelAtMostOneOwner` and `KernelDeathsReported`. Here a running process may be in any status and
  its own block may be free, and even be handed out to its own child. Still the families hold:

      FamilyInv == PoolInv /\ Proper(pcb) /\ Kids(pcb) \cap Free = {} /\ PidsDiffer
                     /\ init_pcb \notin Free /\ init_pcb \notin Kids(pcb) /\ OwnParent(pcb)

  `Proper` says that every child has one place, `Kids` are all children, and `OwnParent` that
  a process among its own children (that is the case just mentioned) is its own parent. Init is nobody's
  child and its block is never freed. The child that a dying process finds by its pid
  is not free; so, pids being different, it is the dying process itself, unless the block of that
  one was freed before, and then nothing is freed now. `OwnParent` is what excludes that the
  process was found because init had just taken over the children of the dying, itself among
  them. Most steps only rearrange lists and statuses (`RearrangesOrChanges`), which is
  proved once for both invariants.
- The calm kernel: `CalmSpec` is the kernel without `SemWaitBlocks`, that of programs which
  never wait on an exhausted semaphore. `CalmInv` is the conjunction of the three component
  invariants and `NobodyQueued`. A post then never finds anybody to wake
  (`NobodyToWake`), every call of the two subsystems writes its arguments into the
  caller's PCB and nothing else (`CalmCallIsPlain`, `CallStep`), and every other step is
  a step of `Processes`. Hence `CalmListsProper`, `CalmFamilies`, `CalmWaitersDoNotRun`,
  `CalmDeadStayDead`, `CalmWaitsAnswered`, `CalmWakesOnTime` and, with one boot, `CalmNobodyStranded`: for
  any number of processes, findings 1, 2 and 3 start with a wait on an exhausted
  semaphore and with nothing else.

**Model-checked only.** Liveness (`ReadyRuns`, `SleepersWake`) is outside what the prover
does. The violated properties of section 4 are refuted by TLC; `NamesMeanSemaphores` and
`SemaphoreTest` have no theorems. In the kernel where waiters run on, the timers of a
process that exits may be removed before they are due, and a process may have two of them, so
`WakesOnTime` is stated of the calm kernel only; nothing is stated of `List_find`. Every other
property of a passing run is a theorem.

**What the properties do not say.** Some are weaker than their names suggest, because the code
promises no more:

- `FdsUnique` leaves out recycled PCBs, where the fds of semaphores do collide (finding 4 shows the cause).
- `PtrBlocksNotShared` and `PoolsConsistent` bound blocks in use and free blocks by the size of the pool. The
  code leaks both kinds of pointer block (`disastrOS_sempost.c:27`, `disastrOS_exit.c:51`), so equality is
  false; a block that is used and counted free is found, one that is lost is not.
- `PoolsConsistent` cannot show that a PCB is freed twice: `releaseBlock` refuses a free block. That no death
  is handled twice is what `DeathsReported` and `AtMostOneOwner` show.
- `DebtStays` says that a negative initial count stays negative, not what a post does then: it
  dereferences the head of an empty queue (`SemPostCrashes`).
- `OrphansOnlyWhenNoFd` excuses every step taken while no descriptor is free.
- `PoolIsStack` is about the pool of resources. The PCB pool is a sequence that is pushed and popped in the
  model, justified by the theorems of `PoolProofs`.
- `family` has no semaphores, so its `NobodyLost` and `DeadStayDead` are about process control alone; `stranded` and
  `dead` show what posts do to them.
- `system` has two PCBs, so init never has two children: adoption and waits for strangers' pids occur
  in `family`, and in the whole kernel they rest on `KernelAtMostOneOwner` and `KernelDeathsReported`.

## 6. What is not modelled

The wording and order of printed messages, `printStatus`, the log file except for
the one write that matters (the pid of a null `running`); stacks; exit values and
the `result` argument of `wait`; the system call table and its numbers; the
overflow of `disastrOS_time`; a SIGALRM that arrives while the previous one is being
handled; `List_find`, which only debugging assertions use; the alignment and range
tests of `releaseBlock`, which no caller can fail.

`disastrOS_semaphore_test2.c`, the readers and writers: `readcount` is decremented
outside the mutex, the mutex starts with `BUFFER_SIZE` permits and the writers' semaphore with
none; with waits that return at once a run of it would show little besides finding
1. `disastrOS_test.c`: its calls are among those that any process may make in
`DisastrOS`.

The test program is only checked for what its authors wrote in it. That the buffer is
not overrun, or that it terminates, is not claimed: finding 1 makes waits of no
effect, and the kernel may crash when init waits and nobody is ready.
(`tester.py` counts how often the test fails.)

## 7. Plan

Done: `Kernel`, `CountingSemaphore`, `Semaphores`, `LinkedList`, `Processes`,
`BlockStack`, `PoolAllocator`, `Resources`, `DisastrOS`, `SemaphoreTest`, and the proofs
about all of them but the last. What is left:

1. The exit of an orphan against init's wait (`disastrOS_exit.c:13`) and the wait for a stranger's pid
   (`disastrOS_wait.c:33`), each as a finding with a run of its own; so far they are exceptions in
   `WaitersHaveAWakeup`.
2. In the kernel where waiters run on: what a sleeper may count on.
3. `List_find`, and with it the linked lists complete.
