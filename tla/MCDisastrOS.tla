---------------------------- MODULE MCDisastrOS ----------------------------
(* Small instances of DisastrOS for TLC. *)
EXTENDS DisastrOS

Halted == Stopped /\ UNCHANGED vars
MCNext == Next \/ Halted
MCSpec == Init /\ [][MCNext]_vars

Spawns == \E b \in PCB : Spawn(b) /\ Allocates(b)

(* Programs that spawn and use one semaphore: no program forks, returns    *)
(* from its function or waits for a given child, and init does not sleep.  *)
ProgramNext ==
  \/ \E p \in PCB : SemCall(p)
  \/ Spawns \/ \E p \in PCB : Exits(p)
  \/ Wait(0) /\ Alone
  \/ Preempt /\ Alone
  \/ running # init_pcb /\ (Sleeps \/ NoTimer)
  \/ BootCrashes /\ Alone
  \/ Halted
ProgramSpec == Init /\ [][ProgramNext]_vars

(* Programs that spawn, preempt, wait for any child and use resources. *)
ResourceNext ==
  \/ \E p \in PCB : ResCall(p)
  \/ Spawns \/ \E p \in PCB : Exits(p)
  \/ Wait(0) /\ Alone
  \/ Preempt /\ Alone
  \/ Halted
ResourceSpec == Init /\ [][ResourceNext]_vars

MCOflags  == {DSOS_CREATE, DSOS_READ}
MCCounts  == {0}
MCOpenModes == {DSOS_CREATE, DSOS_READ, DSOS_EXCL}
MCAllPCB  == PCB

(* What no step reads is not compared: the signals; the arguments of the   *)
(* last call of a process that does not wait, which it will overwrite; the *)
(* sizes of the lists, which drift when a process is detached from a list  *)
(* it is not in; and the state that a stopped machine leaves behind, which *)
(* its last step found.                                                    *)
ReadOf(p) ==
  [pcb[p] EXCEPT !.signals = {}, !.awaiting = IF pcb[p].status = "Waiting" THEN @ ELSE NoWait]
StateOnly ==
  IF Stopped THEN <<mode>>
  ELSE <<[lists EXCEPT !.size = <<>>], [p \in PCB |-> ReadOf(p)],
         running, init_pcb, last_pid, context, timer_list, pcb_free, pcbptr_free, semVars, resVars, mode>>

Symmetry  == Permutations(SemDescriptor)
ResourceSymmetry ==
  Permutations(Descriptor) \cup Permutations(ResourceIds) \cup Permutations(ResourceTypes)
===========================================================================
