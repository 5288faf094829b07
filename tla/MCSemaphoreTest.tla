--------------------------- MODULE MCSemaphoreTest ---------------------------
(* A small instance of SemaphoreTest for TLC. *)
EXTENDS SemaphoreTest

MCAllPCB     == PCB
MCOflags     == {{}, DSOS_CREATE \cup DSOS_EXCL}

(* All free blocks are alike: the first is taken. *)
FirstBlocks ==
  /\ \A s \in sem_free \ sem_free' : \A t \in sem_free : s <= t
  /\ \A d \in desc_free \ desc_free' : \A e \in desc_free : d <= e
MCTestSpec == TestInit /\ [][TestNext /\ FirstBlocks]_<<vars, progVars>>
==============================================================================
