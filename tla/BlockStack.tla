----------------------------- MODULE BlockStack -----------------------------
(***************************************************************************)
(* What a pool of memory blocks promises, and what process control relies  *)
(* on: a stack.  The block that was freed last is handed out first, a      *)
(* block that is handed out was free, and one that is freed was not.       *)
(***************************************************************************)
EXTENDS Naturals, Sequences

CONSTANT Block
VARIABLE free      \* the free blocks, the next one to be handed out first

Holds(b) == \E i \in 1 .. Len(free) : free[i] = b

Init ==
  /\ free \in Seq(Block) /\ \A b \in Block : Holds(b)
  /\ \A i, j \in 1 .. Len(free) : free[i] = free[j] => i = j

Take    == free # <<>> /\ free' = Tail(free)
Give(b) == b \in Block /\ ~ Holds(b) /\ free' = <<b>> \o free

Next == Take \/ \E b \in Block : Give(b)
Spec == Init /\ [][Next]_free
===========================================================================
