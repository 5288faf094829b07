---------------------------- MODULE MCProcesses ----------------------------
(* Small instances of Processes for TLC. *)
EXTENDS Processes

vars == <<procVars, kernelVars>>

Halted == Stopped /\ UNCHANGED vars
MCNext == ProcNext \/ Halted
MCSpec == ProcInit /\ [][MCNext]_vars

(* Programs that only start, preempt, await and end processes: larger      *)
(* families, where a block gets a second life while its first child lives. *)
FamilyNext ==
  \/ \E b \in PCB : Spawn(b)
  \/ SpawnNoBlock \/ Exit \/ Preempt
  \/ \E k \in WaitArgs : Wait(k)
  \/ Halted
FamilySpec == ProcInit /\ [][FamilyNext]_vars

(* Programs that never end by shutdown, spawn instead of forking, and wait *)
(* for any child or for the first that was made.                           *)
LiveNext ==
  \/ \E b \in PCB : Spawn(b) \/ Boot(b)
  \/ \E k \in {0, 1} : Wait(k)
  \/ \E n \in SleepTimes : SleepSwitches(n) \/ SleepNobodyReady(n)
  \/ Exit \/ Preempt \/ TimerInterrupt \/ FunctionReturns \/ BootCrashes
  \/ Halted
LiveSpec == ProcInit /\ [][LiveNext]_vars /\ Fairness

(* What no step reads is not compared: the signals, the arguments of the   *)
(* last call of a process that does not wait, which it will overwrite, and *)
(* the state that a stopped machine leaves behind, which its last step     *)
(* found. The family runs have a property about the signals and keep them. *)
Known(p) == [pcb[p] EXCEPT !.awaiting = IF pcb[p].status = "Waiting" THEN @ ELSE NoWait]
StateWith(blocks) ==
  IF Stopped THEN <<mode>>
  ELSE <<blocks, running, init_pcb, last_pid, context, lists, timer_list, pcb_free, pcbptr_free, mode>>
StateOnly  == StateWith([p \in PCB |-> [Known(p) EXCEPT !.signals = {}]])
FamilyView == StateWith([p \in PCB |-> Known(p)])
===========================================================================
