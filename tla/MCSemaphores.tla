--------------------------- MODULE MCSemaphores ---------------------------
(* Small instances of Semaphores for TLC. *)
EXTENDS Semaphores

MCOflags     == {DSOS_READ, DSOS_WRITE, DSOS_EXCL}
MCFirstPCB   == {1}
MCCounts     == {-1, 1}
(* The subsystem on its own, with any process calling at any time. *)
vars == <<semVars, kernelVars>>

MCInit == SemInit /\ mode = "user" /\ retval = NoValue
Reuse  == \E p \in Recycled : InUser /\ NewPCB(p) /\ UNCHANGED kernelVars
Halted == Stopped /\ UNCHANGED vars
MCNext == (\E p \in PCB : SemSyscall(p)) \/ Reuse \/ Halted
MCSpec == MCInit /\ [][MCNext]_vars

(* A crash leaves the state that it found. *)
MCView       == IF Stopped THEN <<mode>> ELSE <<semVars, mode>>
Symmetry     == Permutations(Semaphore) \cup Permutations(SemDescriptor) \cup Permutations(SemIds)
===========================================================================
