----------------------------- MODULE Processes -----------------------------
(***************************************************************************)
(* Process control: the PCBs and their lists, the scheduler, the timers,   *)
(* the boot code, and the calls spawn, fork, wait, exit, sleep, preempt    *)
(* and shutdown (disastrOS.c, _pcb.c, _schedule.c, _timer.c and one file   *)
(* per call).                                                              *)
(*                                                                         *)
(* One process runs at a time.  Its steps are its system calls, each       *)
(* atomic, and the timer signal, which may come between any two of them.   *)
(* The ready, waiting and zombie lists link the PCBs through one pair of   *)
(* pointers in the PCB, so they are kept as pointers (module LinkedList);  *)
(* the lists of children and of timers link blocks of their own and are    *)
(* sequences.                                                              *)
(***************************************************************************)
EXTENDS Kernel, SequencesExt

CONSTANTS
  MaxPid,       \* bound: no process gets a pid above it
  SleepTimes,   \* the cycles processes ask to sleep for
  LogFile       \* whether disastrOS_start was given a log file

ASSUME ProcConstantsAssumption ==
  MaxPid \in Nat /\ SleepTimes \subseteq Nat /\ LogFile \in BOOLEAN

VARIABLES
  running,      \* the PCB of the current process, or NULL
  init_pcb,     \* the PCB of the last process that boot code made
  last_pid,     \* the pid of the next process
  pcb,          \* the fields of each PCB block
  context,      \* what PCB.cpu_state holds
  lists,        \* ready_list, waiting_list and zombie_list
  timer_list,   \* the pending timers, by awakening time
  pcb_free,     \* the free blocks of the PCB pool, last freed first
  pcbptr_free   \* how many PCBPtr blocks are free

procVars == <<running, init_pcb, last_pid, pcb, context, lists, timer_list, pcb_free, pcbptr_free>>

LL == INSTANCE LinkedList WITH ListItem <- PCB, ListHead <- {"ready", "waiting", "zombie"}

Statuses == {"Created", "Running", "Ready", "Waiting", "Zombie"}

(* PCB.syscall_num and syscall_args[0], as far as exit reads them: the pid *)
(* asked for if the last call of the process was wait.                     *)
NoWait   == -1
WaitArgs == 0 .. MaxPid + 1

NoContext  == "none"         \* zeros: a forked process has never had one
InFunction == "function"     \* the code of the process
InBoot     == "boot"         \* disastrOS_start, after the function returned

FirstReady == lists.first["ready"]
Child(i)   == pcb[running].children[i]

(* The PCBs with the arguments of this call written to the caller's. *)
Called(arg) == [pcb EXCEPT ![running].awaiting = arg]

(* setcontext(&p->cpu_state): what runs then. *)
Resumes(p) == CASE context'[p] = InFunction -> "user"
                [] context'[p] = InBoot     -> "booting"
                [] context'[p] = NoContext  -> "crashed"

(* running = p, and the trap returns to p instead of the caller. *)
SwitchTo(p) ==
  /\ running' = p /\ mode' = Resumes(p) /\ retval' = NoValue

(* A call that dies, with the state it found. *)
Dies == Crash /\ UNCHANGED procVars

---------------------------------------------------------------------------
(* PCB_alloc, for a process with this parent. *)

NewPCBInvalid(b, parent, status) ==      \* slip: the status is left as PCB_alloc sets it
  [pcb[b] EXCEPT !.pid = last_pid, !.status = "Invalid", !.parent = parent,
                 !.children = <<>>, !.signals = {}]

NewPCBRecord(b, parent, status) ==
  [pcb[b] EXCEPT !.pid = last_pid, !.status = status, !.parent = parent,
                 !.children = <<>>, !.signals = {}]

TakesBlock(b) ==
  /\ pcb_free # <<>> /\ b = Head(pcb_free) /\ pcb_free' = Tail(pcb_free)
  /\ last_pid <= MaxPid /\ last_pid' = last_pid + 1

(* PCB_free; the pool refuses a block that is free already. *)
Released(p) == IF p \in ToSet(pcb_free) THEN pcb_free ELSE <<p>> \o pcb_free

---------------------------------------------------------------------------
(* spawn and fork: spawn gives the child a context of its own, fork leaves *)
(* what the block had.                                                     *)

NewChild(b) ==
  /\ InUser /\ TakesBlock(b) /\ pcbptr_free > 0
  /\ pcbptr_free' = pcbptr_free - 1
  /\ pcb' = [[Called(NoWait) EXCEPT ![b] = NewPCBRecord(b, running, "Ready")]
              EXCEPT ![running].children = Append(@, b)]
  /\ lists' = LL!Enlist(LL!Fresh(lists, b), "ready", b)
  /\ Return(last_pid)
  /\ UNCHANGED <<running, init_pcb, timer_list>>

Spawn(b) == NewChild(b) /\ context' = [context EXCEPT ![b] = InFunction]
Fork(b)  == NewChild(b) /\ UNCHANGED context

(* PCB_alloc or PCBPtr_alloc writes through the null block of an empty pool. *)
SpawnNoBlock == (pcb_free = <<>> \/ pcbptr_free = 0) /\ Dies

---------------------------------------------------------------------------
(* wait(k).  The scan of the children stops at the first zombie (k = 0) or *)
(* at pid k; if it finds none it is left at the last child.                *)

Matches(i, k) == IF k = 0 THEN pcb[Child(i)].status = "Zombie" ELSE pcb[Child(i)].pid = k

ScanEndsAt(i, k) ==
  LET n == Len(pcb[running].children) IN
    /\ i \in 1 .. n
    /\ \A j \in 1 .. i - 1 : ~ Matches(j, k)
    /\ Matches(i, k) \/ i = n

WaitNoChildren(k) ==
  /\ InUser /\ pcb[running].children = <<>>
  /\ pcb' = Called(k)
  /\ Return(DSOS_EWAIT)
  /\ UNCHANGED <<running, init_pcb, last_pid, context, lists, timer_list, pcb_free, pcbptr_free>>

(* The children and the zombies without child i. *)
KeepsChild(i)      == pcb[running].children              \* slip: the child is not detached
ChildDetached(i)   == RemoveAt(pcb[running].children, i)
KeepsZombie(i)     == lists                              \* slip: nor from the zombies
ZombieDetached(i)  == LL!List_detach(lists, "zombie", Child(i))

WaitReaps(k, i) ==
  /\ InUser /\ ScanEndsAt(i, k) /\ pcb[Child(i)].status = "Zombie"
  /\ pcb' = [Called(k) EXCEPT ![running].children = ChildDetached(i)]
  /\ lists' = ZombieDetached(i)
  /\ pcb_free' = Released(Child(i))
  /\ pcbptr_free' = pcbptr_free + 1
  /\ Return(pcb[Child(i)].pid)
  /\ UNCHANGED <<running, init_pcb, last_pid, context, timer_list>>

(* The next process goes on with the status it had in the ready list. *)
WaitBlocks(k, i) ==
  /\ InUser /\ ScanEndsAt(i, k) /\ pcb[Child(i)].status # "Zombie"
  /\ FirstReady # NULL
  /\ pcb' = [Called(k) EXCEPT ![running].status = "Waiting"]
  /\ lists' = LL!List_detach(LL!Enlist(lists, "waiting", running), "ready", FirstReady)
  /\ UNCHANGED <<init_pcb, last_pid, context, timer_list, pcb_free, pcbptr_free>>
  /\ SwitchTo(FirstReady)

(* List_detach of the null head of an empty ready list. *)
WaitNobodyReady(k, i) ==
  /\ InUser /\ ScanEndsAt(i, k) /\ pcb[Child(i)].status # "Zombie"
  /\ FirstReady = NULL
  /\ Dies

Wait(k) ==
  \/ WaitNoChildren(k)
  \/ \E i \in 1 .. MAX_NUM_PROCESSES :
       WaitReaps(k, i) \/ WaitBlocks(k, i) \/ WaitNobodyReady(k, i)

---------------------------------------------------------------------------
(* exit.  The children go to init with SIGHUP, but keep pointing to the    *)
(* process that dies as their parent.                                      *)

NotSignalled(q) == q                                     \* slip: no SIGHUP
HungUp(q) == [q EXCEPT !.signals = @ \cup {"SIGHUP"}]

Dropped(orphans) == pcb[init_pcb].children               \* slip: init does not get them
Adopted(orphans) == pcb[init_pcb].children \o orphans

Orphaned ==
  LET orphans == pcb[running].children
  IN [[p \in PCB |-> IF p \in ToSet(orphans) THEN HungUp(pcb[p]) ELSE pcb[p]]
        EXCEPT ![init_pcb].children = Adopted(orphans),
               ![running].children = <<>>, ![running].awaiting = NoWait]

Parent == pcb[running].parent

(* Every PCB just before the test on the parent (exit.c:40). *)
Dying == [Orphaned EXCEPT ![running].status = "Zombie",
                          ![Parent].signals = @ \cup {"SIGCHLD"}]
StillReady == LL!Enlist(lists, "ready", running)         \* slip: the wrong list
DyingLists == LL!Enlist(lists, "zombie", running)

ParentWaitsForPid ==                     \* slip: a wait for any child is forgotten
  Parent # NULL /\ Dying[Parent].status = "Waiting" /\ Dying[Parent].awaiting = pcb[running].pid

ParentWaitsForAny ==                     \* slip: a wait for this pid is forgotten
  Parent # NULL /\ Dying[Parent].status = "Waiting" /\ Dying[Parent].awaiting = 0

ParentWaitsAtAll ==                      \* slip: the pid asked for is not compared
  Parent # NULL /\ Dying[Parent].status = "Waiting" /\ Dying[Parent].awaiting # NoWait

ParentWaits ==
  /\ Parent # NULL
  /\ Dying[Parent].status = "Waiting"
  /\ Dying[Parent].awaiting \in {0, pcb[running].pid}

(* Init moves its own children to the end of its own list, for ever. *)
ExitLoops == InUser /\ running = init_pcb /\ pcb[running].children # <<>>

ExitHangs ==
  /\ ExitLoops
  /\ mode' = "hung" /\ retval' = NoValue
  /\ UNCHANGED procVars

(* The loop that takes the timers of the dying process off the list. *)
TimersKept ==
  LET kept[i \in 0 .. Len(timer_list)] ==
        IF i = 0 THEN <<>>
        ELSE IF timer_list[i].pcb = running THEN kept[i - 1]
        ELSE Append(kept[i - 1], timer_list[i])
  IN kept[Len(timer_list)]

(* The parent gets the pid as the result of its wait and runs at once, and *)
(* the block of the dead process is freed.  The PCBPtr block is not.       *)
ExitWakesParent(i) ==
  /\ InUser /\ ~ ExitLoops /\ ParentWaits
  /\ i \in DOMAIN Dying[Parent].children
  /\ pcb[Dying[Parent].children[i]].pid = pcb[running].pid
  /\ pcb' = [Dying EXCEPT ![Parent].status = "Running", ![Parent].children = RemoveAt(@, i)]
  /\ lists' = LL!List_detach(LL!List_detach(DyingLists, "waiting", Parent), "zombie", running)
  /\ timer_list' = TimersKept
  /\ pcb_free' = Released(running)
  /\ UNCHANGED <<init_pcb, last_pid, context, pcbptr_free>>
  /\ running' = Parent
  /\ mode' = Resumes(Parent) /\ retval' = pcb[running].pid

ExitSwitches ==
  /\ InUser /\ ~ ExitLoops /\ Parent # NULL /\ ~ ParentWaits
  /\ FirstReady # NULL
  /\ pcb' = [Dying EXCEPT ![FirstReady].status = "Running"]
  /\ lists' = LL!List_detach(DyingLists, "ready", FirstReady)
  /\ UNCHANGED <<init_pcb, last_pid, context, timer_list, pcb_free, pcbptr_free>>
  /\ SwitchTo(FirstReady)

(* A process that boot code made has no parent: a null dereference. *)
ExitNoParent == InUser /\ ~ ExitLoops /\ Parent = NULL /\ Dies

(* List_detach of the null head of the empty ready list, before the assert *)
(* on its result.                                                          *)
ExitNobodyReady ==
  /\ InUser /\ ~ ExitLoops /\ Parent # NULL /\ ~ ParentWaits
  /\ FirstReady = NULL
  /\ Dies

(* The block of the dead parent belongs to a process that waits for its    *)
(* own children: PCBPtr_byPID finds nothing, and the detach dereferences   *)
(* null.                                                                   *)
ExitToStranger ==
  /\ InUser /\ ~ ExitLoops /\ ParentWaits
  /\ \A i \in DOMAIN Dying[Parent].children :
       pcb[Dying[Parent].children[i]].pid # pcb[running].pid
  /\ Dies

Exit ==
  \/ ExitHangs \/ ExitSwitches \/ ExitNoParent \/ ExitNobodyReady \/ ExitToStranger
  \/ \E i \in 1 .. MAX_NUM_PROCESSES : ExitWakesParent(i)

---------------------------------------------------------------------------
(* Timers: [left |-> the ticks until the awakening time, pcb |-> whose].   *)

AddedFirst(n) == <<[left |-> n, pcb |-> running]>> \o timer_list   \* slip: not sorted

(* TimerList_add: before the first that is due later. *)
TimerList_add(n) ==
  LET k == Cardinality({i \in DOMAIN timer_list : timer_list[i].left <= n})
  IN InsertAt(timer_list, k + 1, [left |-> n, pcb |-> running])

SleepFull ==
  /\ InUser /\ Len(timer_list) = MAX_NUM_PROCESSES
  /\ pcb' = Called(NoWait)
  /\ Return(DSOS_ESLEEP)
  /\ UNCHANGED <<running, init_pcb, last_pid, context, lists, timer_list, pcb_free, pcbptr_free>>

FallsAsleep(n) ==
  /\ InUser /\ Len(timer_list) < MAX_NUM_PROCESSES
  /\ timer_list' = TimerList_add(n)
  /\ pcb' = [Called(NoWait) EXCEPT ![running].status = "Waiting"]
  /\ UNCHANGED <<init_pcb, last_pid, context, pcb_free, pcbptr_free>>

SleepSwitches(n) ==
  /\ FallsAsleep(n)
  /\ FirstReady # NULL
  /\ lists' = LL!List_detach(LL!Enlist(lists, "waiting", running), "ready", FirstReady)
  /\ SwitchTo(FirstReady)

(* Nobody is left to run: the trap returns without a process to resume,    *)
(* and its uc_link leads back into disastrOS_start; with a log file it     *)
(* first writes the pid of the null process.                               *)
SleepNobodyReady(n) ==
  /\ FallsAsleep(n)
  /\ FirstReady = NULL
  /\ lists' = LL!Enlist(lists, "waiting", running)
  /\ running' = NULL
  /\ mode' = (IF LogFile THEN "crashed" ELSE "booting") /\ retval' = NoValue

---------------------------------------------------------------------------
(* internal_schedule, with the timers and the PCBs as its caller left      *)
(* them: the owners of the due timers go to the front of the ready list,   *)
(* in order, and the running process makes way for the first of the list.  *)

Schedule(timers, before) ==
  LET due    == Cardinality({i \in DOMAIN timers : timers[i].left <= 0})
      woken(i) == IF i = 0 THEN NULL ELSE timers[i].pcb
      wake[i \in 0 .. due] ==
        IF i = 0 THEN lists
        ELSE LL!List_insert(LL!List_detach(wake[i - 1], "waiting", woken(i)),
                            "ready", woken(i - 1), woken(i))
      pcbs   == [p \in PCB |-> IF \E i \in 1 .. due : woken(i) = p
                               THEN [before[p] EXCEPT !.status = "Ready"] ELSE before[p]]
  IN /\ timer_list' = SubSeq(timers, due + 1, Len(timers))
     /\ retval' = NoValue
     /\ \E awake \in {wake[due]}, next \in PCB \cup {NULL} :
          /\ next = awake.first["ready"]
          /\ \/ /\ next = NULL
                /\ lists' = awake /\ pcb' = pcbs /\ UNCHANGED <<running, mode>>
             \/ /\ next # NULL
                /\ lists' = LL!Enlist(LL!List_detach(awake, "ready", next), "ready", running)
                /\ pcb' = [pcbs EXCEPT ![running].status = "Ready", ![next].status = "Running"]
                /\ running' = next /\ mode' = Resumes(next)
     /\ UNCHANGED <<init_pcb, last_pid, pcb_free, pcbptr_free>>

(* One cycle passes. *)
NoTick == timer_list                                     \* slip: the clock stands still
Tick   == [i \in DOMAIN timer_list |->
             [timer_list[i] EXCEPT !.left = IF @ > 0 THEN @ - 1 ELSE 0]]

(* The timer signal saves the interrupted code in the PCB of `running`,    *)
(* counts one cycle and schedules.                                         *)
TimerInterrupt ==
  /\ mode \in {"user", "booting"} /\ running # NULL
  /\ context' = [context EXCEPT ![running] = IF InUser THEN InFunction ELSE InBoot]
  /\ Schedule(Tick, pcb)

Preempt == InUser /\ UNCHANGED context /\ Schedule(timer_list, Called(NoWait))

---------------------------------------------------------------------------
(* Boot.  main_context is disastrOS_start from line 211 on: it makes a new *)
(* init process, whatever processes there are.  Every process that returns *)
(* from its function comes here too, and its PCB is left as it is.         *)

FunctionReturns ==
  /\ InUser
  /\ mode' = "booting" /\ retval' = NoValue
  /\ UNCHANGED procVars

Boot(b) ==
  /\ mode = "booting" /\ TakesBlock(b)
  /\ pcb' = [pcb EXCEPT ![b] = NewPCBRecord(b, NULL, "Running")]
  /\ lists' = LL!Fresh(lists, b)
  /\ context' = [context EXCEPT ![b] = InFunction]
  /\ running' = b /\ init_pcb' = b
  /\ mode' = "user" /\ retval' = NoValue
  /\ UNCHANGED <<timer_list, pcbptr_free>>

(* No PCB is left; or the signal comes while there is no running process   *)
(* to save the interrupted code in.                                        *)
BootCrashes ==
  /\ mode = "booting"
  /\ pcb_free = <<>> \/ running = NULL
  /\ mode' = "crashed" /\ retval' = NoValue
  /\ UNCHANGED procVars

(* shutdown sets shutdown_now, and line 212 exits. *)
Shutdown ==
  /\ InUser
  /\ mode' = "off" /\ retval' = NoValue
  /\ UNCHANGED procVars

---------------------------------------------------------------------------
(* The state after the first boot, when the signal is set up. *)
ProcInit ==
  /\ mode = "user" /\ retval = NoValue
  /\ running = 1 /\ init_pcb = 1 /\ last_pid = 1
  /\ pcb = [p \in PCB |->
              [pid |-> 0, status |-> IF p = 1 THEN "Running" ELSE "Created",
               parent |-> NULL, children |-> <<>>, awaiting |-> NoWait, signals |-> {}]]
  /\ context = [p \in PCB |-> IF p = 1 THEN InFunction ELSE NoContext]
  /\ lists = LL!Empty
  /\ timer_list = <<>>
  /\ pcb_free = [i \in 1 .. MAX_NUM_PROCESSES - 1 |-> i + 1]
  /\ pcbptr_free = MAX_NUM_PROCESSES

(* SleepFull is missing: here the running process has no pending timer and *)
(* nobody else has two, so one of the MAX_NUM_PROCESSES is free.  Module   *)
(* DisastrOS, where a process that waits goes on running, has it.          *)
Syscall ==
  \/ \E b \in PCB : Spawn(b) \/ Fork(b)
  \/ SpawnNoBlock
  \/ \E k \in WaitArgs : Wait(k)
  \/ Exit
  \/ \E n \in SleepTimes : SleepSwitches(n) \/ SleepNobodyReady(n)
  \/ Preempt \/ Shutdown

ProcNext ==
  \/ Syscall
  \/ TimerInterrupt
  \/ FunctionReturns \/ BootCrashes \/ \E b \in PCB : Boot(b)

ProcSpec == ProcInit /\ [][ProcNext]_<<procVars, kernelVars>>

---------------------------------------------------------------------------
(* Properties. *)

InList(h)  == ToSet(LL!Walk(lists, h, MAX_NUM_PROCESSES + 1))
Free       == ToSet(pcb_free)
Sleepers   == {timer_list[i].pcb : i \in DOMAIN timer_list}
ChildrenOf(p) == ToSet(pcb[p].children)

(* Who waits in the call wait: for which of its children, the adopted      *)
(* ones, whose parent is another, apart; or for a pid that no child has.   *)
OwnChildren(p)     == {c \in ChildrenOf(p) : pcb[c].parent = p}
AsksFor(p, c)      == pcb[p].awaiting \in {0, pcb[c].pid}
AsksForStranger(p) == pcb[p].awaiting > 0 /\ \A c \in ChildrenOf(p) : ~ AsksFor(p, c)

(* Every field holds a value of its kind. *)
ProcTypeOK ==
  /\ KernelTypeOK
  /\ running \in PCB \cup {NULL} /\ init_pcb \in PCB
  /\ last_pid \in 0 .. MaxPid + 1
  /\ pcb \in [PCB -> [pid : 0 .. MaxPid, status : Statuses, parent : PCB \cup {NULL},
                      children : Seq(PCB), awaiting : WaitArgs \cup {NoWait},
                      signals : SUBSET {"SIGCHLD", "SIGHUP"}]]
  /\ context \in [PCB -> {NoContext, InFunction, InBoot}]
  /\ lists \in LL!Store
  /\ timer_list \in Seq([left : Nat, pcb : PCB])
  /\ pcb_free \in Seq(PCB) /\ pcbptr_free \in 0 .. MAX_NUM_PROCESSES

(* The three lists stay proper lists although nothing checks membership:   *)
(* the pointers run from head to tail and back, no PCB is in two lists,    *)
(* in the pool's free list, or running at the same time, and each process  *)
(* has the status of the list it is in.                                    *)
ListsOK ==
  /\ \A h \in {"ready", "waiting", "zombie"} :
       LL!Holds(lists, h, LL!Walk(lists, h, MAX_NUM_PROCESSES + 1))
  /\ \A p \in PCB :
       Cardinality({h \in {"ready", "waiting", "zombie"} : p \in InList(h)})
         + (IF p = running THEN 1 ELSE 0) + (IF p \in Free THEN 1 ELSE 0) <= 1
  /\ \A p \in InList("ready")   : pcb[p].status = "Ready"
  /\ \A p \in InList("waiting") : pcb[p].status = "Waiting"
  /\ \A p \in PCB : p \in InList("zombie") <=> pcb[p].status = "Zombie" /\ p \notin Free
  /\ running # NULL => pcb[running].status \in {"Running", "Ready"}

(* Whoever waits either sleeps, with one timer, the timers in the order    *)
(* they will fire, or is in the call wait, and then the exit of a live     *)
(* child of its own that it asked for will wake it (exit.c:40).  Twice the *)
(* code promises no such wakeup: it blocks a wait for a pid that is no     *)
(* child's, where a comment wants an error (wait.c:33), and exit does not  *)
(* look for the init process that waits for an adopted child.              *)
WaitersHaveAWakeup ==
  /\ \A p \in InList("waiting") :
       IF p \in Sleepers THEN pcb[p].awaiting = NoWait
       ELSE /\ pcb[p].awaiting # NoWait
            /\ \/ \E c \in OwnChildren(p) : AsksFor(p, c) /\ pcb[c].status # "Zombie"
               \/ AsksForStranger(p)
               \/ pcb[p].parent = NULL /\ \E c \in ChildrenOf(p) \ OwnChildren(p) : AsksFor(p, c)
  /\ Sleepers \subseteq InList("waiting")
  /\ \A i, j \in DOMAIN timer_list : i < j =>
       timer_list[i].left <= timer_list[j].left /\ timer_list[i].pcb # timer_list[j].pcb

(* No wakeup is lost between parent and child: a process that waits has no *)
(* zombie that is its own child and that it asked for, whichever of exit   *)
(* and wait came first.                                                    *)
NoLostWakeup ==
  \A p \in InList("waiting") : \A c \in ChildrenOf(p) :
    ~ (/\ pcb[c].parent = p /\ pcb[c].status = "Zombie"
       /\ pcb[p].awaiting \in {0, pcb[c].pid})

(* A wait that has blocked is answered by the exit of a child of the       *)
(* caller's own that it asked for, with that child's pid, and by nothing   *)
(* else; no child is lost to the caller meanwhile.  So a wait for a        *)
(* stranger's pid never ends (exit.c:43).                                  *)
AnsweredAsAsked ==
  [][\A p \in PCB : pcb[p].status = "Waiting" /\ pcb[p].awaiting # NoWait =>
       \/ /\ pcb'[p].status = "Waiting" /\ pcb'[p].awaiting = pcb[p].awaiting
          /\ ChildrenOf(p) \subseteq ChildrenOf(p)'
       \/ /\ running \in OwnChildren(p) /\ AsksFor(p, running)
          /\ running' = p /\ retval' = pcb[running].pid
          /\ ChildrenOf(p) \ ChildrenOf(p)' = {running}
    ]_<<procVars, kernelVars>>

(* Every process but those that boot made can be waited for by exactly one *)
(* live process: it is in one list of children, once, and not in that of a *)
(* freed block.  Pids are not shared.                                      *)
EveryChildHasOneOwner ==
  /\ \A c \in PCB \ Free : pcb[c].status # "Created" =>
       Cardinality({owner \in (PCB \ Free) \X (1 .. MAX_NUM_PROCESSES) :
                      /\ owner[2] \in DOMAIN pcb[owner[1]].children
                      /\ pcb[owner[1]].children[owner[2]] = c})
         = IF pcb[c].parent = NULL THEN 0 ELSE 1
  /\ \A p \in PCB : ChildrenOf(p) # {} => p \notin Free /\ ChildrenOf(p) \cap Free = {}
  /\ \A p, q \in PCB \ Free : p # q => pcb[p].pid # pcb[q].pid

(* A child under a process that is not its parent was orphaned: init has   *)
(* it, and it got SIGHUP (exit.c:10-12).                                   *)
OrphansHungUp ==
  \A p \in PCB \ Free : \A c \in ChildrenOf(p) :
    pcb[c].parent # p => pcb[p].parent = NULL /\ "SIGHUP" \in pcb[c].signals

(* Whoever is ready is running or in the ready list, where the scheduler   *)
(* finds it (spawn.c:8, schedule.c:8, and every call that switches).  Boot *)
(* code leaves processes behind, so this is of programs that never return. *)
NobodyLost ==
  InUser => \A p \in PCB \ Free :
    pcb[p].status \in {"Ready", "Running"} => p = running \/ p \in InList("ready")

(* A process that has called exit never gets another status while its PCB  *)
(* is its own: "the process finally dies" (exit.c:84).                     *)
DeadStayDead ==
  [][\A p \in PCB \ Free :
       pcb[p].status = "Zombie" => pcb'[p].status = "Zombie"]_<<procVars, kernelVars>>

(* The clock: nobody wakes before its time (a signal counts one cycle      *)
(* first); a signal leaves no due timer behind, hidden by a later one; and *)
(* the first who is due runs at once, before all who were ready            *)
(* (timer.c:51, schedule.c:21-38).                                         *)
WakesOnTime ==
  [][/\ \A i \in DOMAIN timer_list :
          timer_list[i].pcb \notin Sleepers' => timer_list[i].left <= IF TimerInterrupt THEN 1 ELSE 0
     /\ TimerInterrupt =>
          /\ \A i \in DOMAIN timer_list' : timer_list'[i].left > 0
          /\ timer_list # <<>> /\ timer_list[1].left <= 1 => running' = timer_list[1].pcb
    ]_<<procVars, kernelVars>>

(* A death is reported once, and to the one process that can wait for it:  *)
(* who is handed the pid of a process whose block is freed had it among    *)
(* its children until then.  Neither the parent pointer that exit follows  *)
(* (exit.c:40), which may be stale, nor a wait for somebody else's child,  *)
(* which reaps the last one it scanned (wait.c:35), goes against that.     *)
DeathsReported ==
  [][\A c \in PCB \ Free : c \in Free' =>
       /\ retval' = pcb[c].pid
       /\ c \in ToSet(pcb[running'].children) /\ c \notin ToSet(pcb'[running'].children)
    ]_<<procVars, kernelVars>>

(* A block leaves the pool at most once before it comes back, and the      *)
(* PCBPtr blocks that are in use are not counted free.                     *)
PoolsConsistent ==
  /\ \A i, j \in DOMAIN pcb_free : pcb_free[i] = pcb_free[j] => i = j
  /\ pcbptr_free + Cardinality(UNION {{p} \X DOMAIN pcb[p].children : p \in PCB})
       <= MAX_NUM_PROCESSES

(* The interval timer signals every 100 ms, and the boot code, straight    *)
(* down, comes to an end (at the bound on pids only by dying).             *)
Fairness ==
  /\ WF_<<procVars, kernelVars>>(TimerInterrupt)
  /\ WF_<<procVars, kernelVars>>(BootCrashes \/ \E b \in PCB : Boot(b))

(* Nobody starves in the ready list, although the scheduler puts those who *)
(* wake in front of it.                                                    *)
ReadyRuns == \A p \in PCB : p \in InList("ready") ~> running = p \/ Stopped

(* Every sleep ends, also when the machine boots again meanwhile. *)
SleepersWake == \A p \in PCB : p \in Sleepers ~> p \notin Sleepers \/ Stopped
===========================================================================
