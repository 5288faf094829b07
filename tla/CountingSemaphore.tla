------------------------ MODULE CountingSemaphore -------------------------
(***************************************************************************)
(* What a semaphore promises: Dijkstra's counting semaphore with a         *)
(* first-come first-served queue, for a set of semaphores that are made    *)
(* one by one.  A waiter is a token for one call that waits.               *)
(***************************************************************************)
EXTENDS Naturals, Sequences

CONSTANTS
  Semaphore, Waiter,
  InitialCounts      \* the permits a semaphore can be made with

VARIABLES
  made,      \* the semaphores that exist
  permits,   \* how many waits each can grant at once
  queue      \* the calls each has not granted yet, oldest first

vars == <<made, permits, queue>>

Init ==
  /\ made = {}
  /\ permits = [s \in Semaphore |-> 0]
  /\ queue = [s \in Semaphore |-> <<>>]

Make(s, n) ==
  /\ s \notin made
  /\ made' = made \cup {s}
  /\ permits' = [permits EXCEPT ![s] = n]
  /\ UNCHANGED queue

(* A wait that is granted at once: only while a permit is left. *)
Grant(s) ==
  /\ s \in made /\ permits[s] > 0
  /\ permits' = [permits EXCEPT ![s] = @ - 1]
  /\ UNCHANGED <<made, queue>>

(* A wait that has to wait: only when no permit is left. *)
Enqueue(s, w) ==
  /\ s \in made /\ permits[s] = 0
  /\ queue' = [queue EXCEPT ![s] = Append(@, w)]
  /\ UNCHANGED <<made, permits>>

(* A signal adds a permit only when nobody waits ... *)
Add(s) ==
  /\ s \in made /\ queue[s] = <<>>
  /\ permits' = [permits EXCEPT ![s] = @ + 1]
  /\ UNCHANGED <<made, queue>>

(* ... and otherwise grants the oldest wait. *)
Wake(s) ==
  /\ s \in made /\ queue[s] # <<>>
  /\ queue' = [queue EXCEPT ![s] = Tail(@)]
  /\ UNCHANGED <<made, permits>>

Next == \E s \in Semaphore :
  \/ \E n \in InitialCounts : Make(s, n)
  \/ Grant(s) \/ Add(s) \/ Wake(s)
  \/ \E w \in Waiter : Enqueue(s, w)

Spec == Init /\ [][Next]_vars
===========================================================================
