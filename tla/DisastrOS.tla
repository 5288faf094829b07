----------------------------- MODULE DisastrOS -----------------------------
(***************************************************************************)
(* The kernel with its three parts together: the process that calls a      *)
(* semaphore or a resource operation is the running one, a wait that       *)
(* queues moves it to the waiting list, a post that wakes moves the waiter *)
(* to the ready list, every PCB that the process side allocates starts     *)
(* with the fields PCB_alloc gives it, and an exit that its parent waits   *)
(* for gives back the resources of the process.                            *)
(***************************************************************************)
EXTENDS Processes, Semaphores, Resources

vars == <<procVars, semVars, resVars, kernelVars>>

(* The caller p of an operation is the process that runs. *)
Calls(p) == InUser /\ p = running

(* A call that only returns leaves its arguments in the PCB. *)
OnlyCalled ==
  /\ pcb' = Called(NoWait)
  /\ UNCHANGED <<running, init_pcb, last_pid, context, lists, timer_list, pcb_free, pcbptr_free>>

(* semWait with no permit left: status and waiting list, and nothing else. *)
(* The process stays the running one and the call returns 0 (the loop that *)
(* would wait is a comment, semwait.c:27).                                 *)
SemWaitBlocks(p, fd) ==
  /\ Calls(p) /\ SemWaitQueues(p, fd)
  /\ pcb' = [Called(NoWait) EXCEPT ![p].status = "Waiting"]
  /\ lists' = LL!Enlist(lists, "waiting", p)
  /\ UNCHANGED <<running, init_pcb, last_pid, context, timer_list, pcb_free, pcbptr_free>>

(* semPost with a waiter: w is detached from the waiting list, wherever it *)
(* is linked, and appended to the ready list.                              *)
SemPostReadies(p, fd, w) ==
  /\ Calls(p) /\ SemPostWakes(p, fd, w)
  /\ pcb' = [Called(NoWait) EXCEPT ![w].status = "Ready"]
  /\ lists' = LL!Enlist(LL!List_detach(lists, "waiting", w), "ready", w)
  /\ UNCHANGED <<running, init_pcb, last_pid, context, timer_list, pcb_free, pcbptr_free>>

(* The four calls.  What does not queue and wakes nobody only returns. *)
OpenCall(p, id, oflag, count) == Calls(p) /\ SemOpenWith(p, id, oflag, count) /\ OnlyCalled
WaitCall(p, fd) ==
  \/ /\ Calls(p) /\ OnlyCalled
     /\ SemWaitBadFd(p, fd) \/ SemWaitTakes(p, fd) \/ SemWaitNoPtr(p, fd)
  \/ SemWaitBlocks(p, fd)
PostCall(p, fd) ==
  \/ Calls(p) /\ OnlyCalled /\ (SemPostAdds(p, fd) \/ SemPostCrashes(p, fd))
  \/ \E w \in PCB : SemPostReadies(p, fd, w)
CloseCall(p, fd) == Calls(p) /\ OnlyCalled /\ SemClose(p, fd)

SemCall(p) ==
  /\ \/ \E id \in SemIds, oflag \in Oflags, count \in InitialCounts : OpenCall(p, id, oflag, count)
     \/ \E fd \in 0 .. MaxFd : WaitCall(p, fd) \/ PostCall(p, fd) \/ CloseCall(p, fd)
  /\ UNCHANGED resVars

(* The calls of the older subsystem only return. *)
ResCall(p) == Calls(p) /\ ResSyscall(p) /\ OnlyCalled /\ UNCHANGED semVars

(* A PCB comes from PCB_alloc: all parts of it are initialised. *)
Allocates(b) == NewPCB(b) /\ NewDescriptorTable(b)
Starts(b)    == (Spawn(b) \/ Fork(b)) /\ Allocates(b)
Boots(b)     == Boot(b) /\ Allocates(b)

(* The exits.  Only the one that wakes the parent releases the resources   *)
(* of the process; none looks at its semaphores.                           *)
ExitReleases(p) == (\E i \in 1 .. MAX_NUM_PROCESSES : ExitWakesParent(i)) /\ ReleaseAll(p)
ExitKeeps ==
  /\ ExitHangs \/ ExitSwitches \/ ExitNoParent \/ ExitNobodyReady \/ ExitToStranger
  /\ UNCHANGED resVars
Exits(p) == Calls(p) /\ (ExitReleases(p) \/ ExitKeeps) /\ UNCHANGED semVars

(* The calls and events that leave semaphores and resources alone. *)
Alone    == UNCHANGED <<semVars, resVars>>
Ends     == (SpawnNoBlock \/ Shutdown) /\ Alone
Waits    == (\E k \in WaitArgs : Wait(k)) /\ Alone
Sleeps   == (\E n \in SleepTimes : SleepSwitches(n) \/ SleepNobodyReady(n)) /\ Alone
NoTimer  == SleepFull /\ Alone
Preempts == (Preempt \/ TimerInterrupt) /\ Alone
Returns  == (FunctionReturns \/ BootCrashes) /\ Alone

Init == ProcInit /\ SemInit /\ ResInit
Next ==
  \/ \E p \in PCB : SemCall(p) \/ ResCall(p) \/ Starts(p) \/ Boots(p) \/ Exits(p)
  \/ Ends \/ Waits \/ Sleeps \/ NoTimer \/ Preempts \/ Returns
Spec == Init /\ [][Next]_vars

---------------------------------------------------------------------------
(* Properties. *)

(* The process that runs is not one that waits: "Waiting: io or semaphore  *)
(* wait" (pcb.h:12).  semWait without a permit marks its caller and links  *)
(* it in the waiting list, and then returns to it.                         *)
WaitersDoNotRun ==
  InUser => pcb[running].status # "Waiting" /\ running \notin InList("waiting")

Queued(p) ==
  \E s \in Semaphore : \E i \in DOMAIN waiting_descriptors[s] : desc_pcb[waiting_descriptors[s][i]] = p

(* A ready process that neither a semaphore nor a timer owes a wakeup is   *)
(* running or in the ready list: spawn "puts it in the ready list"         *)
(* (spawn.c:8) and post does so with the process it wakes (sempost.c:49).  *)
(* The lists have one pair of pointers per process, and a waiter that goes *)
(* on running is put in two of them.                                       *)
NobodyStranded ==
  InUser => \A p \in PCB \ Free :
    pcb[p].status \in {"Ready", "Running"} /\ ~ Queued(p) /\ p \notin Sleepers
      => p = running \/ p \in InList("ready")

(* Whatever happens to the lists, the families stay apart: nobody is twice *)
(* among anybody's children, nobody whose block is free is among them, and *)
(* a pid means one process.  A wait for a pid and the search for the dying *)
(* child among its parent's (wait.c:35, exit.c:51) rest on it.             *)
AtMostOneOwner ==
  /\ \A p, q \in PCB : \A i \in DOMAIN pcb[p].children, j \in DOMAIN pcb[q].children :
       pcb[p].children[i] = pcb[q].children[j] => p = q /\ i = j
  /\ \A p \in PCB : ChildrenOf(p) \cap Free = {}
  /\ \A p, q \in PCB \ Free : pcb[p].pid = pcb[q].pid => p = q

(* A new process has no descriptors yet: PCB_alloc "allocates and          *)
(* initializes a new pcb block" (pcb.h:60).                                *)
NewProcessesOwnNothing ==
  [][\A b \in PCB : last_pid' # last_pid /\ pcb'[b].pid = last_pid => sem_descriptors'[b] = <<>>]_vars

(* A process that is gone has nothing open any more: "we release all       *)
(* resources of a process upon termination" (exit.c:74).                   *)
ReleasedAtDeath == \A d \in Descriptor \ des_free : des_pcb[d] \notin Free
=============================================================================
