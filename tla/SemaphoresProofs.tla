------------------------- MODULE SemaphoresProofs -------------------------
(***************************************************************************)
(* What TLC checks of Semaphores on small instances, proved for every      *)
(* number of processes, semaphores, descriptors and pointer blocks.  The   *)
(* theorems are about SemSpec, the part of the behaviour that touches the  *)
(* subsystem's own state, so they hold of any system whose steps change    *)
(* that state only through the actions of Semaphores.                      *)
(***************************************************************************)
EXTENDS Semaphores, SequenceLemmas

---------------------------------------------------------------------------
(* The steps that change the subsystem's state; every other branch of a    *)
(* handler returns an error or dies and leaves it alone.                   *)

Effect ==
  \/ UNCHANGED semVars
  \/ \E p \in PCB, id \in SemIds, oflag \in Oflags, count \in InitialCounts, s \in Semaphore :
       \/ SemOpenNoFd(id, oflag, count, s)
       \/ \E d \in SemDescriptor : SemOpenOk(p, id, oflag, count, s, d)
  \/ \E p \in PCB, fd \in 0 .. MaxFd :
       \/ SemWaitTakes(p, fd) \/ SemWaitQueues(p, fd)
       \/ SemPostAdds(p, fd) \/ (\E w \in PCB : SemPostWakes(p, fd, w))
       \/ SemCloseOk(p, fd)
  \/ \E p \in Recycled : NewPCB(p)

LEMMA StepIsEffect == [SemNext]_semVars => Effect
<1> SUFFICES ASSUME SemNext PROVE Effect
  BY DEF Effect
<1>1. PICK p \in PCB : SemSyscall(p) \/ (p \in Recycled /\ NewPCB(p))
  BY DEF SemNext
<1>2. CASE SemOpen(p)
  BY <1>2 DEF SemOpen, SemOpenWith, Effect, SemOpenExists, SemOpenNoBlock, SemOpenMissing,
              SemOpenNoExcl, SemOpenNoPtr
<1>3. CASE \E fd \in 0 .. MaxFd : SemWait(p, fd)
  BY <1>3 DEF SemWait, Effect, SemWaitBadFd, SemWaitNoPtr
<1>4. CASE \E fd \in 0 .. MaxFd : SemPost(p, fd)
  BY <1>4 DEF SemPost, Effect, SemPostCrashes
<1>5. CASE \E fd \in 0 .. MaxFd : SemClose(p, fd)
  BY <1>5 DEF SemClose, Effect, SemCloseBadFd
<1>6. CASE p \in Recycled /\ NewPCB(p)
  BY <1>6 DEF Effect
<1> QED BY <1>1, <1>2, <1>3, <1>4, <1>5, <1>6 DEF SemSyscall

---------------------------------------------------------------------------
(* Types. *)

LEMMA CloseTyped ==
  ASSUME SemTypeOK, NEW p \in PCB, NEW fd, SemCloseOk(p, fd)
  PROVE  SemTypeOK'
<1>1. PICK i \in DOMAIN sem_descriptors[p] :
        LET d == sem_descriptors[p][i]
            s == desc_sem[d]
        IN /\ sem_descriptors' = [sem_descriptors EXCEPT ![p] = RemoveAt(@, i)]
           /\ descriptors' = [descriptors EXCEPT ![s] = @ \ {d}]
           /\ semaphores_list' = IF descriptors[s] = {d} THEN semaphores_list \ {s}
                                                         ELSE semaphores_list
           /\ desc_free' = desc_free \cup {d}
  BY DEF SemCloseOk, Detached, LastClose
<1>2. sem_descriptors[p] \in Seq(SemDescriptor) /\ i \in 1 .. Len(sem_descriptors[p])
  BY DEF SemTypeOK
<1>3. RemoveAt(sem_descriptors[p], i) \in Seq(SemDescriptor)
  BY <1>2, RemoveAtElements
<1>4. sem_descriptors[p][i] \in SemDescriptor
  BY <1>2
<1>5. sem_descriptors' \in [PCB -> Seq(SemDescriptor)]
  BY <1>1, <1>3 DEF SemTypeOK
<1>6. descriptors' \in [Semaphore -> SUBSET SemDescriptor]
  BY <1>1 DEF SemTypeOK
<1>7. ptr_free' \in Nat
  BY DEF SemCloseOk, Detached, LastClose, SemTypeOK
<1> QED BY <1>1, <1>4, <1>5, <1>6, <1>7 DEF SemTypeOK, SemCloseOk, Detached, LastClose

LEMMA OpenTyped ==
  ASSUME SemTypeOK, NEW p \in PCB, NEW id \in SemIds, NEW oflag,
         NEW count \in InitialCounts, NEW s \in Semaphore,
         \/ SemOpenNoFd(id, oflag, count, s)
         \/ \E d \in SemDescriptor : SemOpenOk(p, id, oflag, count, s, d)
  PROVE  SemTypeOK'
<1>1. Reaches(id, oflag, count, s)
  BY DEF SemOpenNoFd, SemOpenOk, NextFd, SemDescriptorPtr_alloc, PtrTaken
<1>2. /\ sem_free' \subseteq Semaphore /\ semaphores_list' \subseteq Semaphore
      /\ sem_id' \in [Semaphore -> SemIds \cup {0}] /\ sem_count' \in [Semaphore -> Int]
  <2>1. CASE Creates(id, oflag, count, s)
    BY <2>1, SemConstantsAssumption DEF SemTypeOK, Creates
  <2>2. CASE Finds(id, oflag, s)
    BY <2>2 DEF SemTypeOK, Finds, semaphoreVars
  <2> QED BY <1>1, <2>1, <2>2 DEF Reaches
<1>3. CASE SemOpenNoFd(id, oflag, count, s)
  BY <1>2, <1>3 DEF SemTypeOK, SemOpenNoFd, descVars
<1>4. ASSUME NEW d \in SemDescriptor, SemOpenOk(p, id, oflag, count, s, d)
      PROVE  SemTypeOK'
  <2>1. desc_sem' \in [SemDescriptor -> Semaphore \cup {NULL}]
    BY <1>4 DEF SemTypeOK, SemOpenOk, NextFd, SemDescriptorPtr_alloc, PtrTaken
  <2>2. /\ desc_pcb' \in [SemDescriptor -> PCB \cup {NULL}]
        /\ desc_fd' \in [SemDescriptor -> Nat]
    BY <1>4 DEF SemTypeOK, SemOpenOk, NextFd, SemDescriptorPtr_alloc, PtrTaken
  <2>3. sem_descriptors' \in [PCB -> Seq(SemDescriptor)]
    BY <1>4 DEF SemTypeOK, SemOpenOk, NextFd, SemDescriptorPtr_alloc, PtrTaken
  <2>4. last_sem_fd' \in [PCB -> Nat] /\ ptr_free' \in Nat
    BY <1>4 DEF SemTypeOK, SemOpenOk, NextFd, SemDescriptorPtr_alloc, PtrTaken
  <2>5. descriptors' \in [Semaphore -> SUBSET SemDescriptor]
    BY <1>4 DEF SemTypeOK, SemOpenOk, NextFd, SemDescriptorPtr_alloc, PtrTaken
  <2> QED BY <1>2, <1>4, <2>1, <2>2, <2>3, <2>4, <2>5 DEF SemTypeOK, SemOpenOk, NextFd, SemDescriptorPtr_alloc, PtrTaken
<1> QED BY <1>3, <1>4

(* What a wait or a post does to the semaphore s its fd leads to. *)
TakesOne(s)  == sem_count' = [sem_count EXCEPT ![s] = @ - 1]
AddsOne(s)   == sem_count' = [sem_count EXCEPT ![s] = @ + 1]
Queues(s, d) == waiting_descriptors' = [waiting_descriptors EXCEPT ![s] = Append(@, d)]
Dequeues(s)  == waiting_descriptors' = [waiting_descriptors EXCEPT ![s] = Tail(@)]

WaitPostEffect(s) ==
  /\ UNCHANGED <<semaphoreVars, descVars, last_sem_fd>>
  /\ \/ /\ sem_count[s] > 0 /\ TakesOne(s)
        /\ UNCHANGED <<waiting_descriptors, ptr_free>>
     \/ /\ sem_count[s] <= 0 /\ TakesOne(s) /\ (\E d \in SemDescriptor : Queues(s, d))
        /\ ptr_free > 0 /\ ptr_free' = ptr_free - 1
     \/ /\ ~ (sem_count[s] < 0) /\ AddsOne(s)
        /\ UNCHANGED <<waiting_descriptors, ptr_free>>
     \/ /\ sem_count[s] < 0 /\ waiting_descriptors[s] # <<>> /\ AddsOne(s) /\ Dequeues(s)
        /\ UNCHANGED ptr_free

LEMMA WaitPostHasEffect ==
  ASSUME SemTypeOK, NEW p \in PCB, NEW fd,
         \/ SemWaitTakes(p, fd) \/ SemWaitQueues(p, fd)
         \/ SemPostAdds(p, fd) \/ (\E w \in PCB : SemPostWakes(p, fd, w))
  PROVE  \E i \in DOMAIN sem_descriptors[p] :
           /\ sem_descriptors[p][i] \in SemDescriptor
           /\ WaitPostEffect(desc_sem[sem_descriptors[p][i]])
<1>1. \A i \in DOMAIN sem_descriptors[p] : sem_descriptors[p][i] \in SemDescriptor
  BY DEF SemTypeOK
<1>2. CASE SemWaitTakes(p, fd)
  BY <1>1, <1>2, Zenon DEF SemWaitTakes, WaitPostEffect, TakesOne
<1>3. CASE SemWaitQueues(p, fd)
  <2>1. PICK i \in DOMAIN sem_descriptors[p] :
          LET s == desc_sem[sem_descriptors[p][i]]
          IN /\ sem_count[s] <= 0 /\ TakesOne(s) /\ Queues(s, sem_descriptors[p][i])
             /\ ptr_free > 0 /\ ptr_free' = ptr_free - 1
             /\ UNCHANGED <<semaphoreVars, descVars, last_sem_fd>>
    BY <1>3, Zenon DEF SemWaitQueues, QueuedLast, SemDescriptorPtr_alloc, PtrTaken, TakesOne, Queues
  <2> QED BY <1>1, <2>1, Zenon DEF WaitPostEffect
<1>4. CASE SemPostAdds(p, fd)
  BY <1>1, <1>4, Zenon DEF SemPostAdds, Wakes, WaitPostEffect, AddsOne
<1>5. ASSUME NEW w \in PCB, SemPostWakes(p, fd, w)
      PROVE  \E i \in DOMAIN sem_descriptors[p] :
               WaitPostEffect(desc_sem[sem_descriptors[p][i]])
  BY <1>5, Zenon DEF SemPostWakes, Wakes, WaitPostEffect, AddsOne, Dequeues
<1> QED BY <1>1, <1>2, <1>3, <1>4, <1>5

LEMMA WaitPostTyped ==
  ASSUME SemTypeOK, NEW s \in Semaphore \cup {NULL}, WaitPostEffect(s)
  PROVE  SemTypeOK'
<1>1. sem_count' \in [Semaphore -> Int]
  BY DEF SemTypeOK, WaitPostEffect, TakesOne, AddsOne
<1>2. waiting_descriptors' \in [Semaphore -> Seq(SemDescriptor)]
  <2>1. ASSUME NEW d \in SemDescriptor, Queues(s, d)
        PROVE  waiting_descriptors' \in [Semaphore -> Seq(SemDescriptor)]
    <3>1. s \in Semaphore => Append(waiting_descriptors[s], d) \in Seq(SemDescriptor)
      BY DEF SemTypeOK
    <3> QED BY <2>1, <3>1 DEF SemTypeOK, Queues
  <2>2. ASSUME waiting_descriptors[s] # <<>>, Dequeues(s)
        PROVE  waiting_descriptors' \in [Semaphore -> Seq(SemDescriptor)]
    <3>1. s \in Semaphore => Tail(waiting_descriptors[s]) \in Seq(SemDescriptor)
      BY <2>2 DEF SemTypeOK
    <3> QED BY <2>2, <3>1 DEF SemTypeOK, Dequeues
  <2> QED BY <2>1, <2>2 DEF SemTypeOK, WaitPostEffect
<1>3. ptr_free' \in Nat
  BY DEF SemTypeOK, WaitPostEffect
<1> QED BY <1>1, <1>2, <1>3 DEF SemTypeOK, WaitPostEffect, semaphoreVars, descVars

LEMMA TypedStep == SemTypeOK /\ [SemNext]_semVars => SemTypeOK'
<1> SUFFICES ASSUME SemTypeOK, Effect PROVE SemTypeOK'
  BY StepIsEffect
<1>1. CASE UNCHANGED semVars
  BY <1>1 DEF SemTypeOK, semVars, semaphoreVars, descVars
<1>2. ASSUME NEW p \in Recycled, NewPCB(p) PROVE SemTypeOK'
  BY <1>2, SemConstantsAssumption DEF SemTypeOK, NewPCB, semaphoreVars, descVars
<1>3. ASSUME NEW p \in PCB, NEW fd \in 0 .. MaxFd,
             \/ SemWaitTakes(p, fd) \/ SemWaitQueues(p, fd)
             \/ SemPostAdds(p, fd) \/ (\E w \in PCB : SemPostWakes(p, fd, w))
      PROVE  SemTypeOK'
  <2>1. PICK d \in SemDescriptor : WaitPostEffect(desc_sem[d])
    BY <1>3, WaitPostHasEffect
  <2> QED BY <2>1, WaitPostTyped DEF SemTypeOK
<1> QED BY <1>1, <1>2, <1>3, OpenTyped, CloseTyped DEF Effect

(* Every field of every block always holds a value of its kind, whatever   *)
(* the sizes of the pools.                                                 *)
THEOREM TypeCorrect == SemSpec => []SemTypeOK
<1>1. SemInit => SemTypeOK
  BY SemConstantsAssumption DEF SemInit, SemTypeOK
<1> QED BY <1>1, TypedStep, PTL DEF SemSpec

---------------------------------------------------------------------------
(* The two lists of a descriptor. *)

(* What a close does, with the index i of the descriptor in p's list. *)
CloseEffect(p, i) ==
  LET d == sem_descriptors[p][i]
      s == desc_sem[d]
  IN /\ sem_descriptors' = [sem_descriptors EXCEPT ![p] = RemoveAt(@, i)]
     /\ descriptors' = [descriptors EXCEPT ![s] = @ \ {d}]
     /\ semaphores_list' = IF descriptors[s] = {d} THEN semaphores_list \ {s}
                                                   ELSE semaphores_list
     /\ desc_free' = desc_free \cup {d}
     /\ UNCHANGED <<sem_free, sem_id, sem_count, waiting_descriptors,
                    desc_fd, desc_sem, desc_pcb, last_sem_fd>>

LEMMA CloseHasEffect ==
  ASSUME SemTypeOK, NEW p \in PCB, NEW fd, SemCloseOk(p, fd)
  PROVE  \E i \in 1 .. Len(sem_descriptors[p]) : CloseEffect(p, i)
<1>1. DOMAIN sem_descriptors[p] = 1 .. Len(sem_descriptors[p])
  BY DEF SemTypeOK
<1> QED BY <1>1 DEF SemCloseOk, Detached, LastClose, CloseEffect

(* After a close the list of p is the old one without index i. *)
LEMMA ClosedList ==
  ASSUME SemTypeOK, NEW p \in PCB, NEW i \in 1 .. Len(sem_descriptors[p]), CloseEffect(p, i)
  PROVE  /\ DOMAIN sem_descriptors'[p] = 1 .. Len(sem_descriptors[p]) - 1
         /\ \A j \in DOMAIN sem_descriptors'[p] :
              sem_descriptors'[p][j] = IF j < i THEN sem_descriptors[p][j]
                                                ELSE sem_descriptors[p][j + 1]
         /\ \A q \in PCB \ {p} : sem_descriptors'[q] = sem_descriptors[q]
<1> DEFINE l == sem_descriptors[p]
<1>1. l \in Seq(SemDescriptor) /\ i \in 1 .. Len(l)
  BY DEF SemTypeOK
<1>2. sem_descriptors'[p] = RemoveAt(l, i)
  BY DEF CloseEffect, SemTypeOK
<1>3. \A q \in PCB \ {p} : sem_descriptors'[q] = sem_descriptors[q]
  BY DEF CloseEffect, SemTypeOK
<1> HIDE DEF l
<1>4. /\ RemoveAt(l, i) \in Seq(SemDescriptor) /\ Len(RemoveAt(l, i)) = Len(l) - 1
      /\ \A j \in 1 .. Len(l) - 1 : RemoveAt(l, i)[j] = IF j < i THEN l[j] ELSE l[j + 1]
  BY <1>1, RemoveAtElements
<1>5. DOMAIN RemoveAt(l, i) = 1 .. Len(l) - 1
  BY <1>4
<1> QED BY <1>2, <1>3, <1>4, <1>5 DEF l

(* What an open that returns an fd does to the tables. *)
LEMMA OpenedList ==
  ASSUME SemTypeOK, NEW p \in PCB, NEW d \in SemDescriptor,
         sem_descriptors' = [sem_descriptors EXCEPT ![p] = Append(@, d)]
  PROVE  /\ DOMAIN sem_descriptors'[p] = 1 .. Len(sem_descriptors[p]) + 1
         /\ sem_descriptors'[p][Len(sem_descriptors[p]) + 1] = d
         /\ DOMAIN sem_descriptors[p] = 1 .. Len(sem_descriptors[p])
         /\ Len(sem_descriptors[p]) \in Nat
         /\ \A j \in DOMAIN sem_descriptors[p] : sem_descriptors'[p][j] = sem_descriptors[p][j]
         /\ \A q \in PCB \ {p} : sem_descriptors'[q] = sem_descriptors[q]
<1> DEFINE l == sem_descriptors[p]
<1>1. l \in Seq(SemDescriptor)
  BY DEF SemTypeOK
<1>2. sem_descriptors'[p] = Append(l, d)
  BY DEF SemTypeOK
<1>3. \A q \in PCB \ {p} : sem_descriptors'[q] = sem_descriptors[q]
  BY DEF SemTypeOK
<1> HIDE DEF l
<1>4. /\ DOMAIN Append(l, d) = 1 .. Len(l) + 1
      /\ Append(l, d)[Len(l) + 1] = d
      /\ DOMAIN l = 1 .. Len(l) /\ Len(l) \in Nat
      /\ \A j \in DOMAIN l : Append(l, d)[j] = l[j]
  BY <1>1
<1> QED BY <1>2, <1>3, <1>4 DEF l

LEMMA OpenKeepsTables ==
  ASSUME SemTypeOK, DescriptorTables, NEW p \in PCB, NEW id, NEW oflag, NEW count,
         NEW s \in Semaphore, NEW d \in SemDescriptor, SemOpenOk(p, id, oflag, count, s, d)
  PROVE  DescriptorTables'
<1> USE DEF DescriptorTables
<1>1. /\ d \in desc_free /\ desc_free' = desc_free \ {d}
      /\ desc_pcb' = [desc_pcb EXCEPT ![d] = p]
      /\ desc_sem' = [desc_sem EXCEPT ![d] = s]
      /\ sem_descriptors' = [sem_descriptors EXCEPT ![p] = Append(@, d)]
      /\ descriptors' = [descriptors EXCEPT ![s] = @ \cup {d}]
  BY DEF SemOpenOk, NextFd, SemDescriptorPtr_alloc, PtrTaken
<1> DEFINE n == Len(sem_descriptors[p])
<1>2. /\ DOMAIN sem_descriptors'[p] = 1 .. n + 1
      /\ sem_descriptors'[p][n + 1] = d
      /\ DOMAIN sem_descriptors[p] = 1 .. n /\ n \in Nat
      /\ \A j \in DOMAIN sem_descriptors[p] : sem_descriptors'[p][j] = sem_descriptors[p][j]
      /\ \A q \in PCB \ {p} : sem_descriptors'[q] = sem_descriptors[q]
  BY <1>1, OpenedList
<1> HIDE DEF n
<1>3. \A q \in PCB : \A i \in DOMAIN sem_descriptors[q] :
        /\ sem_descriptors[q][i] \in SemDescriptor
        /\ sem_descriptors[q][i] # d
        /\ desc_pcb'[sem_descriptors[q][i]] = q
        /\ sem_descriptors[q][i] \notin desc_free'
  BY <1>1 DEF SemTypeOK, ProcessTable
<1>4. desc_pcb'[d] = p /\ \A e \in SemDescriptor \ {d} : desc_pcb'[e] = desc_pcb[e]
  BY <1>1 DEF SemTypeOK
<1>5. ProcessTable'
  <2>1. ASSUME NEW q \in PCB, NEW i \in DOMAIN sem_descriptors'[q],
               NEW j \in DOMAIN sem_descriptors'[q],
               sem_descriptors'[q][i] = sem_descriptors'[q][j]
        PROVE  i = j
    <3>1. CASE q = p
      BY <1>2, <1>3, <2>1, <3>1 DEF ProcessTable
    <3> QED BY <1>2, <2>1, <3>1 DEF ProcessTable
  <2>2. ASSUME NEW q \in PCB, NEW i \in DOMAIN sem_descriptors'[q]
        PROVE  /\ sem_descriptors'[q][i] \notin desc_free'
               /\ desc_pcb'[sem_descriptors'[q][i]] = q
    <3>1. CASE q = p /\ i = n + 1
      BY <1>1, <1>2, <1>4, <3>1
    <3>2. CASE q = p /\ i # n + 1
      <4>1. i \in DOMAIN sem_descriptors[p]
        BY <1>2, <2>2, <3>2
      <4> QED BY <1>2, <1>3, <3>2, <4>1
    <3>3. CASE q # p
      BY <1>2, <1>3, <2>2, <3>3
    <3> QED BY <3>1, <3>2, <3>3
  <2>3. ASSUME NEW e \in SemDescriptor \ desc_free'
        PROVE  desc_pcb'[e] \in PCB /\ \E i \in DOMAIN sem_descriptors'[desc_pcb'[e]] :
                                         sem_descriptors'[desc_pcb'[e]][i] = e
    <3>1. CASE e = d
      BY <1>2, <1>4, <3>1
    <3>2. CASE e # d
      <4>1. desc_pcb[e] \in PCB /\ \E i \in DOMAIN sem_descriptors[desc_pcb[e]] :
                                     sem_descriptors[desc_pcb[e]][i] = e
        BY <1>1, <3>2 DEF ProcessTable
      <4>2. PICK i \in DOMAIN sem_descriptors[desc_pcb[e]] : sem_descriptors[desc_pcb[e]][i] = e
        BY <4>1
      <4>3. desc_pcb'[e] = desc_pcb[e]
        BY <1>4, <3>2
      <4> QED BY <1>2, <4>1, <4>2, <4>3
    <3> QED BY <3>1, <3>2
  <2> QED BY <2>1, <2>2, <2>3 DEF ProcessTable
<1>6. SemaphoreTable'
  BY <1>1 DEF SemTypeOK, SemaphoreTable
<1> QED BY <1>5, <1>6

LEMMA CloseKeepsTables ==
  ASSUME SemTypeOK, DescriptorTables, NEW p \in PCB,
         NEW k \in 1 .. Len(sem_descriptors[p]), CloseEffect(p, k)
  PROVE  DescriptorTables'
<1> USE DEF DescriptorTables
<1> DEFINE n == Len(sem_descriptors[p])
           d == sem_descriptors[p][k]
<1>1. /\ desc_free' = desc_free \cup {d}
      /\ descriptors' = [descriptors EXCEPT ![desc_sem[d]] = @ \ {d}]
      /\ desc_pcb' = desc_pcb /\ desc_sem' = desc_sem
  BY DEF CloseEffect
<1>2. /\ DOMAIN sem_descriptors'[p] = 1 .. n - 1
      /\ \A j \in DOMAIN sem_descriptors'[p] :
           sem_descriptors'[p][j] = IF j < k THEN sem_descriptors[p][j]
                                             ELSE sem_descriptors[p][j + 1]
      /\ \A q \in PCB \ {p} : sem_descriptors'[q] = sem_descriptors[q]
  BY ClosedList
<1>3. DOMAIN sem_descriptors[p] = 1 .. n /\ n \in Nat /\ d \in SemDescriptor
  BY DEF SemTypeOK
<1>4. d \notin desc_free /\ desc_pcb[d] = p
  BY <1>3 DEF ProcessTable
<1> HIDE DEF n, d
<1>5. \A j \in 1 .. n - 1 : \E i \in 1 .. n :
        i # k /\ sem_descriptors'[p][j] = sem_descriptors[p][i] /\ i = IF j < k THEN j ELSE j + 1
  BY <1>2, <1>3
<1>6. \A i \in 1 .. n : i # k =>
        \E j \in 1 .. n - 1 : sem_descriptors'[p][j] = sem_descriptors[p][i]
  <2> SUFFICES ASSUME NEW i \in 1 .. n, i # k
               PROVE  \E j \in 1 .. n - 1 : sem_descriptors'[p][j] = sem_descriptors[p][i]
    OBVIOUS
  <2>0. k \in 1 .. n
    BY DEF n
  <2>1. CASE i < k
    BY <1>2, <1>3, <2>0, <2>1
  <2>2. CASE i > k
    <3>1. i - 1 \in 1 .. n - 1 /\ ~ (i - 1 < k) /\ (i - 1) + 1 = i
      BY <1>3, <2>0, <2>2
    <3> QED BY <1>2, <3>1
  <2> QED BY <1>3, <2>0, <2>1, <2>2
<1>7. ProcessTable'
  <2>1. ASSUME NEW q \in PCB, NEW i \in DOMAIN sem_descriptors'[q],
               NEW j \in DOMAIN sem_descriptors'[q],
               sem_descriptors'[q][i] = sem_descriptors'[q][j]
        PROVE  i = j
    <3>1. CASE q = p
      <4>1. i \in 1 .. n - 1 /\ j \in 1 .. n - 1
        BY <1>2, <2>1, <3>1
      <4>2. PICK a \in 1 .. n : /\ sem_descriptors'[p][i] = sem_descriptors[p][a]
                                /\ a = IF i < k THEN i ELSE i + 1
        BY <1>5, <4>1
      <4>3. PICK b \in 1 .. n : /\ sem_descriptors'[p][j] = sem_descriptors[p][b]
                                /\ b = IF j < k THEN j ELSE j + 1
        BY <1>5, <4>1
      <4>4. a = b
        BY <1>3, <2>1, <3>1, <4>2, <4>3 DEF ProcessTable
      <4> QED BY <1>3, <4>1, <4>2, <4>3, <4>4
    <3> QED BY <1>2, <2>1, <3>1 DEF ProcessTable
  <2>2. ASSUME NEW q \in PCB, NEW i \in DOMAIN sem_descriptors'[q]
        PROVE  /\ sem_descriptors'[q][i] \notin desc_free'
               /\ desc_pcb'[sem_descriptors'[q][i]] = q
    <3>1. CASE q = p
      <4>1. PICK j \in 1 .. n : j # k /\ sem_descriptors'[p][i] = sem_descriptors[p][j]
        BY <1>2, <1>5, <2>2, <3>1
      <4>2. sem_descriptors[p][j] # d
        BY <1>3, <4>1 DEF ProcessTable, d, n
      <4> QED BY <1>1, <1>3, <3>1, <4>1, <4>2 DEF ProcessTable
    <3>2. CASE q # p
      BY <1>1, <1>2, <1>4, <2>2, <3>2 DEF ProcessTable
    <3> QED BY <3>1, <3>2
  <2>3. ASSUME NEW e \in SemDescriptor \ desc_free'
        PROVE  desc_pcb'[e] \in PCB /\ \E i \in DOMAIN sem_descriptors'[desc_pcb'[e]] :
                                         sem_descriptors'[desc_pcb'[e]][i] = e
    <3>1. /\ e # d /\ desc_pcb[e] \in PCB
          /\ \E i \in DOMAIN sem_descriptors[desc_pcb[e]] : sem_descriptors[desc_pcb[e]][i] = e
      BY <1>1 DEF ProcessTable
    <3>2. CASE desc_pcb[e] = p
      <4>1. PICK i \in 1 .. n : i # k /\ sem_descriptors[p][i] = e
        BY <1>3, <3>1, <3>2 DEF d
      <4>2. desc_pcb'[e] = p
        BY <1>1, <3>2
      <4>3. \E j \in DOMAIN sem_descriptors'[p] : sem_descriptors'[p][j] = e
        BY <1>2, <1>6, <4>1, Zenon
      <4> QED BY <4>2, <4>3
    <3>3. CASE desc_pcb[e] # p
      BY <1>1, <1>2, <3>1, <3>3
    <3> QED BY <3>2, <3>3
  <2> QED BY <2>1, <2>2, <2>3 DEF ProcessTable
<1>8. SemaphoreTable'
  BY <1>1, <1>3, <1>4 DEF SemTypeOK, SemaphoreTable
<1> QED BY <1>7, <1>8

---------------------------------------------------------------------------
(* The inductive invariant.  What the waits and posts rely on is that no   *)
(* descriptor leads to a block that is still free, so that a block comes   *)
(* out of the pool with an empty queue.                                    *)
FreeUntouched == \A s \in sem_free : waiting_descriptors[s] = <<>>

IInv == SemTypeOK /\ DescriptorTables /\ OpenSemaphoresListed /\ FreeUntouched

LEMMA OpenKeepsListed ==
  ASSUME SemTypeOK, OpenSemaphoresListed, NEW p \in PCB, NEW id, NEW oflag, NEW count,
         NEW s \in Semaphore,
         \/ SemOpenNoFd(id, oflag, count, s)
         \/ \E d \in SemDescriptor : SemOpenOk(p, id, oflag, count, s, d)
  PROVE  OpenSemaphoresListed' /\ waiting_descriptors' = waiting_descriptors
         /\ sem_free' \subseteq sem_free
<1>1. Reaches(id, oflag, count, s) /\ waiting_descriptors' = waiting_descriptors
  BY DEF SemOpenNoFd, SemOpenOk, NextFd, SemDescriptorPtr_alloc, PtrTaken
<1>2. \A t \in Semaphore \ {s} : descriptors'[t] = descriptors[t]
  BY DEF SemOpenNoFd, SemOpenOk, NextFd, SemDescriptorPtr_alloc, PtrTaken, descVars, SemTypeOK
<1>3. CASE Creates(id, oflag, count, s)
  <2>1. \A t \in semaphores_list : t # s /\ sem_id'[t] = sem_id[t] /\ sem_id[t] # id
    BY <1>3 DEF Creates, ById, SemTypeOK, OpenSemaphoresListed
  <2>2. sem_id'[s] = id
    BY <1>3 DEF Creates, SemTypeOK
  <2> QED BY <1>1, <1>2, <1>3, <2>1, <2>2 DEF Creates, OpenSemaphoresListed, SemTypeOK
<1>4. CASE Finds(id, oflag, s)
  BY <1>1, <1>2, <1>4 DEF Finds, ById, semaphoreVars, OpenSemaphoresListed
<1> QED BY <1>1, <1>3, <1>4 DEF Reaches

LEMMA CloseKeepsListed ==
  ASSUME SemTypeOK, DescriptorTables, OpenSemaphoresListed, NEW p \in PCB,
         NEW k \in 1 .. Len(sem_descriptors[p]), CloseEffect(p, k)
  PROVE  OpenSemaphoresListed'
<1> DEFINE d == sem_descriptors[p][k]
<1>1. d \in SemDescriptor /\ d \notin desc_free
  BY DEF SemTypeOK, DescriptorTables, ProcessTable
<1>2. PICK s \in Semaphore : s = desc_sem[d]
  BY <1>1 DEF DescriptorTables, SemaphoreTable
<1>3. /\ descriptors' = [descriptors EXCEPT ![s] = @ \ {d}]
      /\ semaphores_list' = IF descriptors[s] = {d} THEN semaphores_list \ {s}
                                                    ELSE semaphores_list
      /\ sem_free' = sem_free /\ sem_id' = sem_id
  BY <1>2 DEF CloseEffect
<1> HIDE DEF d
<1>4. ASSUME NEW t \in Semaphore, descriptors'[t] # {} PROVE t \in semaphores_list'
  <2>1. CASE t = s
    BY <1>3, <1>4, <2>1 DEF OpenSemaphoresListed, SemTypeOK
  <2>2. CASE t # s
    BY <1>3, <1>4, <2>2 DEF OpenSemaphoresListed, SemTypeOK
  <2> QED BY <2>1, <2>2
<1> QED BY <1>3, <1>4 DEF OpenSemaphoresListed

(* In a state of the invariant the semaphore an fd leads to is allocated. *)
LEMMA FdLeadsToAllocated ==
  ASSUME IInv, NEW p \in PCB, NEW i \in DOMAIN sem_descriptors[p]
  PROVE  desc_sem[sem_descriptors[p][i]] \in Allocated
<1> DEFINE d == sem_descriptors[p][i]
<1>1. d \in SemDescriptor \ desc_free
  BY DEF IInv, SemTypeOK, DescriptorTables, ProcessTable
<1>2. desc_sem[d] \in Semaphore /\ d \in descriptors[desc_sem[d]]
  BY <1>1 DEF IInv, DescriptorTables, SemaphoreTable
<1> QED BY <1>2 DEF IInv, OpenSemaphoresListed, Allocated

LEMMA WaitPostKeepsIInv ==
  ASSUME IInv, NEW s \in Allocated, WaitPostEffect(s)
  PROVE  IInv'
<1>1. s \in Semaphore /\ s \notin sem_free
  BY DEF Allocated
<1>2. SemTypeOK'
  BY <1>1, WaitPostTyped DEF IInv
<1>3. DescriptorTables' /\ OpenSemaphoresListed'
  BY DEF IInv, WaitPostEffect, semaphoreVars, descVars, DescriptorTables, ProcessTable,
         SemaphoreTable, OpenSemaphoresListed
<1>4. FreeUntouched'
  <2>1. sem_free' = sem_free
    BY DEF WaitPostEffect, semaphoreVars
  <2>2. \A t \in Semaphore \ {s} : waiting_descriptors'[t] = waiting_descriptors[t]
    BY DEF WaitPostEffect, IInv, SemTypeOK, Queues, Dequeues
  <2> QED BY <1>1, <2>1, <2>2 DEF IInv, FreeUntouched, SemTypeOK
<1> QED BY <1>2, <1>3, <1>4 DEF IInv

LEMMA Inductive == IInv /\ [SemNext]_semVars => IInv'
<1> SUFFICES ASSUME IInv, [SemNext]_semVars PROVE IInv'
  OBVIOUS
<1>0. SemTypeOK'
  BY TypedStep DEF IInv
<1>1. CASE UNCHANGED semVars
  BY <1>1 DEF IInv, semVars, semaphoreVars, descVars, SemTypeOK, DescriptorTables, ProcessTable,
              SemaphoreTable, OpenSemaphoresListed, FreeUntouched
<1>2. ASSUME NEW p \in Recycled, NewPCB(p) PROVE IInv'
  BY <1>0, <1>2 DEF IInv, NewPCB, semaphoreVars, descVars, DescriptorTables, ProcessTable,
                    SemaphoreTable, OpenSemaphoresListed, FreeUntouched
<1>3. ASSUME NEW p \in PCB, NEW id, NEW oflag, NEW count, NEW s \in Semaphore,
             \/ SemOpenNoFd(id, oflag, count, s)
             \/ \E d \in SemDescriptor : SemOpenOk(p, id, oflag, count, s, d)
      PROVE  IInv'
  <2>1. OpenSemaphoresListed' /\ FreeUntouched'
    BY <1>3, OpenKeepsListed DEF IInv, FreeUntouched
  <2>2. CASE SemOpenNoFd(id, oflag, count, s)
    BY <1>0, <2>1, <2>2 DEF IInv, SemOpenNoFd, descVars, DescriptorTables, ProcessTable,
                            SemaphoreTable
  <2>3. CASE \E d \in SemDescriptor : SemOpenOk(p, id, oflag, count, s, d)
    BY <1>0, <2>1, <2>3, OpenKeepsTables DEF IInv
  <2> QED BY <1>3, <2>2, <2>3
<1>4. ASSUME NEW p \in PCB, NEW fd,
             \/ SemWaitTakes(p, fd) \/ SemWaitQueues(p, fd)
             \/ SemPostAdds(p, fd) \/ (\E w \in PCB : SemPostWakes(p, fd, w))
      PROVE  IInv'
  <2>1. PICK i \in DOMAIN sem_descriptors[p] : WaitPostEffect(desc_sem[sem_descriptors[p][i]])
    BY <1>4, WaitPostHasEffect DEF IInv
  <2> QED BY <2>1, FdLeadsToAllocated, WaitPostKeepsIInv
<1>5. ASSUME NEW p \in PCB, NEW fd, SemCloseOk(p, fd) PROVE IInv'
  <2>1. PICK k \in 1 .. Len(sem_descriptors[p]) : CloseEffect(p, k)
    BY <1>5, CloseHasEffect DEF IInv
  <2>2. DescriptorTables' /\ OpenSemaphoresListed'
    BY <2>1, CloseKeepsTables, CloseKeepsListed DEF IInv
  <2> QED BY <1>0, <2>1, <2>2 DEF IInv, FreeUntouched, CloseEffect
<1> QED BY <1>1, <1>2, <1>3, <1>4, <1>5, StepIsEffect DEF Effect

LEMMA Initial == SemInit => IInv
  BY SemConstantsAssumption DEF SemInit, IInv, SemTypeOK, DescriptorTables, ProcessTable,
     SemaphoreTable, OpenSemaphoresListed, FreeUntouched

LEMMA Invariant == SemSpec => []IInv
  BY Initial, Inductive, PTL DEF SemSpec

(* A close always finds the two list entries it detaches (semclose.c:23,   *)
(* 29), and no list of a process or of a semaphore holds a freed block.    *)
THEOREM TablesAgree == SemSpec => []DescriptorTables
<1>1. IInv => DescriptorTables
  BY DEF IInv
<1> QED BY <1>1, Invariant, PTL

(* Two processes that open one id while it is in use share the semaphore:  *)
(* it stays listed as long as a descriptor is open on it, and no other     *)
(* listed semaphore has its id.                                            *)
THEOREM OpenOnesListed == SemSpec => []OpenSemaphoresListed
<1>1. IInv => OpenSemaphoresListed
  BY DEF IInv
<1> QED BY <1>1, Invariant, PTL

---------------------------------------------------------------------------
(* The count and the queue. *)

LEMMA OpenCounts ==
  ASSUME IInv, NEW p \in PCB, NEW id, NEW oflag, NEW count \in InitialCounts,
         NEW s \in Semaphore,
         \/ SemOpenNoFd(id, oflag, count, s)
         \/ \E d \in SemDescriptor : SemOpenOk(p, id, oflag, count, s, d)
  PROVE  /\ waiting_descriptors' = waiting_descriptors
         /\ \/ sem_count' = sem_count /\ Allocated' = Allocated
            \/ /\ s \in sem_free /\ waiting_descriptors[s] = <<>>
               /\ sem_count' = [sem_count EXCEPT ![s] = count]
               /\ s \notin Allocated /\ Allocated' = Allocated \cup {s}
<1>1. Reaches(id, oflag, count, s) /\ waiting_descriptors' = waiting_descriptors
  BY DEF SemOpenNoFd, SemOpenOk, NextFd, SemDescriptorPtr_alloc, PtrTaken
<1>2. CASE Creates(id, oflag, count, s)
  BY <1>1, <1>2 DEF Creates, IInv, FreeUntouched, Allocated
<1>3. CASE Finds(id, oflag, s)
  BY <1>1, <1>3 DEF Finds, semaphoreVars, Allocated
<1> QED BY <1>1, <1>2, <1>3 DEF Reaches

(* Every step of the subsystem either leaves counts and queues alone, or   *)
(* sets the count of a block that leaves the pool, or is a wait or a post  *)
(* on an allocated semaphore.                                              *)
CountStep ==
  \/ UNCHANGED <<sem_count, waiting_descriptors, Allocated>>
  \/ \E s \in Semaphore \ Allocated, count \in InitialCounts :
       /\ sem_count' = [sem_count EXCEPT ![s] = count]
       /\ Allocated' = Allocated \cup {s}
       /\ waiting_descriptors[s] = <<>> /\ UNCHANGED waiting_descriptors
  \/ \E s \in Allocated : WaitPostEffect(s) /\ UNCHANGED Allocated

LEMMA StepCounts == IInv /\ [SemNext]_semVars => CountStep
<1> SUFFICES ASSUME IInv, Effect PROVE CountStep
  BY StepIsEffect
<1>1. CASE UNCHANGED semVars
  BY <1>1 DEF CountStep, semVars, semaphoreVars, Allocated
<1>2. ASSUME NEW p \in Recycled, NewPCB(p) PROVE CountStep
  BY <1>2 DEF CountStep, NewPCB, semaphoreVars, Allocated
<1>3. ASSUME NEW p \in PCB, NEW id, NEW oflag, NEW count \in InitialCounts, NEW s \in Semaphore,
             \/ SemOpenNoFd(id, oflag, count, s)
             \/ \E d \in SemDescriptor : SemOpenOk(p, id, oflag, count, s, d)
      PROVE  CountStep
  BY <1>3, OpenCounts DEF CountStep
<1>4. ASSUME NEW p \in PCB, NEW fd,
             \/ SemWaitTakes(p, fd) \/ SemWaitQueues(p, fd)
             \/ SemPostAdds(p, fd) \/ (\E w \in PCB : SemPostWakes(p, fd, w))
      PROVE  CountStep
  <2>1. PICK i \in DOMAIN sem_descriptors[p] : WaitPostEffect(desc_sem[sem_descriptors[p][i]])
    BY <1>4, WaitPostHasEffect DEF IInv
  <2>2. desc_sem[sem_descriptors[p][i]] \in Allocated
    BY FdLeadsToAllocated
  <2> QED BY <2>1, <2>2 DEF CountStep, WaitPostEffect, semaphoreVars, Allocated
<1>5. ASSUME NEW p \in PCB, NEW fd, SemCloseOk(p, fd) PROVE CountStep
  BY <1>5 DEF CountStep, SemCloseOk, Detached, LastClose, Allocated
<1> QED BY <1>1, <1>2, <1>3, <1>4, <1>5 DEF Effect

(* How far the count of s and its queue can move apart in such a step. *)
LEMMA OwedStep ==
  ASSUME IInv, NEW s \in Semaphore, WaitPostEffect(s),
         Len(waiting_descriptors[s]) <= Owed(s)
  PROVE  /\ Len(waiting_descriptors'[s]) <= Owed(s)'
         /\ Owed(s)' - Len(waiting_descriptors'[s]) = Owed(s) - Len(waiting_descriptors[s])
         /\ \A t \in Semaphore \ {s} :
              Owed(t)' = Owed(t) /\ waiting_descriptors'[t] = waiting_descriptors[t]
<1>0. /\ \A t \in Semaphore : sem_count[t] \in Int /\ waiting_descriptors[t] \in Seq(SemDescriptor)
      /\ DOMAIN sem_count = Semaphore /\ DOMAIN waiting_descriptors = Semaphore
      /\ Len(waiting_descriptors[s]) \in Nat
  BY DEF IInv, SemTypeOK
<1>1. \A t \in Semaphore \ {s} :
        sem_count'[t] = sem_count[t] /\ waiting_descriptors'[t] = waiting_descriptors[t]
  BY <1>0 DEF WaitPostEffect, TakesOne, AddsOne, Queues, Dequeues
<1>2. CASE sem_count[s] > 0 /\ TakesOne(s) /\ UNCHANGED waiting_descriptors
  BY <1>0, <1>1, <1>2 DEF Owed, TakesOne
<1>3. ASSUME sem_count[s] <= 0, TakesOne(s), NEW d \in SemDescriptor, Queues(s, d)
      PROVE  /\ sem_count'[s] = sem_count[s] - 1
             /\ Len(waiting_descriptors'[s]) = Len(waiting_descriptors[s]) + 1
  BY <1>0, <1>3 DEF TakesOne, Queues
<1>4. CASE ~ (sem_count[s] < 0) /\ AddsOne(s) /\ UNCHANGED waiting_descriptors
  BY <1>0, <1>1, <1>4 DEF Owed, AddsOne
<1>5. ASSUME sem_count[s] < 0, waiting_descriptors[s] # <<>>, AddsOne(s), Dequeues(s)
      PROVE  /\ sem_count'[s] = sem_count[s] + 1
             /\ Len(waiting_descriptors'[s]) = Len(waiting_descriptors[s]) - 1
  BY <1>0, <1>5 DEF AddsOne, Dequeues
<1> DEFINE Together == /\ Len(waiting_descriptors'[s]) <= Owed(s)'
                       /\ Owed(s)' - Len(waiting_descriptors'[s])
                            = Owed(s) - Len(waiting_descriptors[s])
<1>6. ASSUME sem_count[s] <= 0, TakesOne(s), NEW d \in SemDescriptor, Queues(s, d)
      PROVE  Together
  <2>1. /\ sem_count'[s] = sem_count[s] - 1
        /\ Len(waiting_descriptors'[s]) = Len(waiting_descriptors[s]) + 1
    BY <1>3, <1>6
  <2>2. Owed(s) = - sem_count[s] /\ Owed(s)' = - sem_count'[s]
    BY <1>0, <1>6, <2>1 DEF Owed
  <2> QED BY <1>0, <2>1, <2>2
<1>7. ASSUME sem_count[s] < 0, waiting_descriptors[s] # <<>>, AddsOne(s), Dequeues(s)
      PROVE  Together
  <2>1. /\ sem_count'[s] = sem_count[s] + 1
        /\ Len(waiting_descriptors'[s]) = Len(waiting_descriptors[s]) - 1
    BY <1>5, <1>7
  <2>2. Owed(s) = - sem_count[s] /\ Owed(s)' = - sem_count'[s]
    BY <1>0, <1>7, <2>1 DEF Owed
  <2> QED BY <1>0, <2>1, <2>2
<1>8. Together
  BY <1>2, <1>4, <1>6, <1>7 DEF WaitPostEffect
<1>9. \A t \in Semaphore \ {s} : Owed(t)' = Owed(t)
  BY <1>1 DEF Owed
<1> QED BY <1>1, <1>8, <1>9

LEMMA WaitersStep ==
  ASSUME IInv, WaitersMatchCount, CountStep
  PROVE  WaitersMatchCount'
<1>0. /\ \A s \in Semaphore : sem_count[s] \in Int /\ waiting_descriptors[s] \in Seq(SemDescriptor)
      /\ DOMAIN sem_count = Semaphore /\ DOMAIN waiting_descriptors = Semaphore
  BY DEF IInv, SemTypeOK
<1>1. CASE UNCHANGED <<sem_count, waiting_descriptors, Allocated>>
  BY <1>1 DEF WaitersMatchCount, Owed
<1>2. ASSUME NEW s \in Semaphore \ Allocated, NEW count \in InitialCounts,
             sem_count' = [sem_count EXCEPT ![s] = count],
             waiting_descriptors[s] = <<>>, UNCHANGED waiting_descriptors
      PROVE  WaitersMatchCount'
  BY <1>0, <1>2, SemConstantsAssumption DEF WaitersMatchCount, Owed
<1>3. ASSUME NEW s \in Allocated, WaitPostEffect(s) PROVE WaitersMatchCount'
  <2>1. s \in Semaphore
    BY DEF Allocated
  <2> QED BY <1>3, <2>1, OwedStep DEF WaitersMatchCount
<1> QED BY <1>1, <1>2, <1>3 DEF CountStep

(* With a count of 0 or more nobody waits, and otherwise no more than the  *)
(* count says, so no permit lies unused while somebody waits for it,       *)
(* whatever counts the semaphores are created with.                        *)
THEOREM CountMatchesQueue == SemSpec => []WaitersMatchCount
<1>1. SemInit => WaitersMatchCount
  BY DEF SemInit, WaitersMatchCount, Owed
<1>2. IInv /\ WaitersMatchCount /\ [SemNext]_semVars => WaitersMatchCount'
  BY StepCounts, WaitersStep
<1> QED BY <1>1, <1>2, Invariant, PTL DEF SemSpec

LEMMA DebtStep ==
  ASSUME IInv, WaitersMatchCount, CountStep, NEW s \in Allocated'
  PROVE  IF s \in Allocated
         THEN Owed(s)' - Len(waiting_descriptors'[s]) = Owed(s) - Len(waiting_descriptors[s])
         ELSE waiting_descriptors'[s] = <<>>
<1>0. s \in Semaphore /\ Allocated \subseteq Semaphore
  BY DEF Allocated
<1>1. CASE UNCHANGED <<sem_count, waiting_descriptors, Allocated>>
  BY <1>1 DEF Owed
<1>2. ASSUME NEW t \in Semaphore \ Allocated, NEW count \in InitialCounts,
             sem_count' = [sem_count EXCEPT ![t] = count], Allocated' = Allocated \cup {t},
             waiting_descriptors[t] = <<>>, UNCHANGED waiting_descriptors
      PROVE  IF s \in Allocated
             THEN Owed(s)' - Len(waiting_descriptors'[s]) = Owed(s) - Len(waiting_descriptors[s])
             ELSE waiting_descriptors'[s] = <<>>
  <2>1. s # t => sem_count'[s] = sem_count[s]
    BY <1>0, <1>2 DEF IInv, SemTypeOK
  <2> QED BY <1>2, <2>1 DEF Owed
<1>3. ASSUME NEW t \in Allocated, WaitPostEffect(t), UNCHANGED Allocated
      PROVE  Owed(s)' - Len(waiting_descriptors'[s]) = Owed(s) - Len(waiting_descriptors[s])
  <2>1. t \in Semaphore /\ Len(waiting_descriptors[t]) <= Owed(t)
    BY <1>0 DEF WaitersMatchCount
  <2> QED BY <1>0, <1>3, <2>1, OwedStep
<1> QED BY <1>1, <1>2, <1>3 DEF CountStep

(* The debt of a semaphore that is created with a negative count stays as  *)
(* it is, however many posts and waits there are (sempost.c:23-27).        *)
THEOREM DebtRemains == SemSpec => DebtStays
<1>1. IInv /\ WaitersMatchCount /\ [SemNext]_semVars =>
        [\A s \in Allocated' :
           IF s \in Allocated
           THEN Owed(s)' - Len(waiting_descriptors'[s]) = Owed(s) - Len(waiting_descriptors[s])
           ELSE waiting_descriptors'[s] = <<>>]_semVars
  BY StepCounts, DebtStep
<1> QED BY <1>1, Invariant, CountMatchesQueue, PTL DEF SemSpec, DebtStays

(* If no semaphore is created with a negative count, a negative count is   *)
(* exactly the number of waiters: semPost then finds a waiter whenever the *)
(* count says that there is one.                                           *)
CountIsWaiters == \A s \in Semaphore : Len(waiting_descriptors[s]) = Owed(s)

LEMMA ExactStep ==
  ASSUME InitialCounts \subseteq Nat, IInv, CountIsWaiters, CountStep
  PROVE  CountIsWaiters'
<1>0. /\ \A s \in Semaphore : sem_count[s] \in Int /\ waiting_descriptors[s] \in Seq(SemDescriptor)
      /\ DOMAIN sem_count = Semaphore /\ DOMAIN waiting_descriptors = Semaphore
      /\ \A s \in Semaphore : Owed(s) \in Nat /\ Len(waiting_descriptors[s]) <= Owed(s)
  BY DEF IInv, SemTypeOK, CountIsWaiters, Owed
<1>1. CASE UNCHANGED <<sem_count, waiting_descriptors, Allocated>>
  BY <1>1 DEF CountIsWaiters, Owed
<1>2. ASSUME NEW s \in Semaphore \ Allocated, NEW count \in InitialCounts,
             sem_count' = [sem_count EXCEPT ![s] = count],
             waiting_descriptors[s] = <<>>, UNCHANGED waiting_descriptors
      PROVE  CountIsWaiters'
  BY <1>0, <1>2 DEF CountIsWaiters, Owed
<1>3. ASSUME NEW s \in Allocated, WaitPostEffect(s) PROVE CountIsWaiters'
  <2>1. s \in Semaphore
    BY DEF Allocated
  <2>2. Owed(s)' - Len(waiting_descriptors'[s]) = 0
    BY <1>0, <1>3, <2>1, OwedStep DEF CountIsWaiters
  <2>3. /\ \A t \in Semaphore : sem_count'[t] \in Int /\ waiting_descriptors'[t] \in Seq(SemDescriptor)
    <3>1. SemTypeOK'
      BY <1>3, <2>1, WaitPostTyped DEF IInv
    <3> QED BY <3>1 DEF SemTypeOK
  <2>4. Len(waiting_descriptors'[s]) = Owed(s)'
    BY <2>1, <2>2, <2>3 DEF Owed
  <2> QED BY <1>0, <1>3, <2>1, <2>4, OwedStep DEF CountIsWaiters
<1> QED BY <1>1, <1>2, <1>3 DEF CountStep

(* Programs that create semaphores with counts of 0 or more never see a    *)
(* post dereference the null head of an empty queue.                       *)
THEOREM CountIsQueue ==
  ASSUME InitialCounts \subseteq Nat
  PROVE  SemSpec => []CountIsWaiters
<1>1. SemInit => CountIsWaiters
  BY DEF SemInit, CountIsWaiters, Owed
<1>2. IInv /\ CountIsWaiters /\ [SemNext]_semVars => CountIsWaiters'
  BY StepCounts, ExactStep
<1> QED BY <1>1, <1>2, Invariant, PTL DEF SemSpec

---------------------------------------------------------------------------
(* The refinement of CountingSemaphore. *)

Permits == [s \in Semaphore |-> IF sem_count[s] > 0 THEN sem_count[s] ELSE 0]

LEMMA PermitsOfOne ==
  ASSUME SemTypeOK, NEW s \in Semaphore, NEW c \in Int,
         sem_count' = [sem_count EXCEPT ![s] = c]
  PROVE  Permits' = [Permits EXCEPT ![s] = IF c > 0 THEN c ELSE 0]
<1>1. /\ \A t \in Semaphore : sem_count'[t] = IF t = s THEN c ELSE sem_count[t]
      /\ \A t \in Semaphore : sem_count[t] \in Int
  BY DEF SemTypeOK
<1>2. Permits \in [Semaphore -> Int] /\ Permits' \in [Semaphore -> Int]
  BY <1>1 DEF Permits
<1> DEFINE n == IF c > 0 THEN c ELSE 0
<1>3. \A t \in Semaphore : Permits'[t] = IF t = s THEN n ELSE Permits[t]
  BY <1>1 DEF Permits
<1> HIDE DEF Permits
<1>4. n \in Int /\ [Permits EXCEPT ![s] = n] \in [Semaphore -> Int]
  BY <1>2
<1>5. \A t \in Semaphore : Permits'[t] = [Permits EXCEPT ![s] = n][t]
  BY <1>2, <1>3
<1> QED BY <1>2, <1>4, <1>5

LEMMA ClassicalStep ==
  ASSUME IInv, WaitersMatchCount, CountStep
  PROVE  [Classical!Next]_(Classical!vars)
<1>0. /\ \A s \in Semaphore : sem_count[s] \in Int /\ waiting_descriptors[s] \in Seq(SemDescriptor)
      /\ DOMAIN sem_count = Semaphore /\ DOMAIN waiting_descriptors = Semaphore
  BY DEF IInv, SemTypeOK
<1>1. CASE UNCHANGED <<sem_count, waiting_descriptors, Allocated>>
  BY <1>1 DEF Classical!vars
<1>2. ASSUME NEW s \in Semaphore \ Allocated, NEW count \in InitialCounts,
             sem_count' = [sem_count EXCEPT ![s] = count],
             Allocated' = Allocated \cup {s}, UNCHANGED waiting_descriptors
      PROVE  Classical!Next
  <2> DEFINE n == IF count > 0 THEN count ELSE 0
  <2>1. Permits' = [Permits EXCEPT ![s] = n]
    <3>1. count \in Int
      BY SemConstantsAssumption
    <3> QED BY <1>2, <3>1, PermitsOfOne, Zenon DEF IInv
  <2>2. Classical!Make(s, n)
    BY <1>2, <2>1 DEF Classical!Make, Permits
  <2> QED BY <2>2 DEF Classical!Next
<1>3. ASSUME NEW s \in Allocated, WaitPostEffect(s), UNCHANGED Allocated
      PROVE  Classical!Next
  <2>1. s \in Semaphore
    BY DEF Allocated
  <2>2. CASE sem_count[s] > 0 /\ TakesOne(s) /\ UNCHANGED waiting_descriptors
    <3>0. Permits[s] = sem_count[s]
      BY <1>0, <2>1, <2>2 DEF Permits
    <3>1. Permits' = [Permits EXCEPT ![s] = @ - 1] /\ Permits[s] > 0
      <4>1. sem_count[s] - 1 \in Nat /\ sem_count' = [sem_count EXCEPT ![s] = sem_count[s] - 1]
        BY <1>0, <2>1, <2>2 DEF TakesOne
      <4> DEFINE c == sem_count[s] - 1
      <4>2. Permits' = [Permits EXCEPT ![s] = IF c > 0 THEN c ELSE 0]
        <5>1. c \in Int /\ sem_count' = [sem_count EXCEPT ![s] = c]
          BY <4>1
        <5> HIDE DEF c
        <5> QED BY <2>1, <5>1, PermitsOfOne, Zenon DEF IInv
      <4>3. (IF c > 0 THEN c ELSE 0) = Permits[s] - 1
        BY <1>0, <2>1, <2>2, <3>0
      <4> HIDE DEF c
      <4> QED BY <2>2, <3>0, <4>2, <4>3
    <3>2. Classical!Grant(s)
      BY <1>3, <2>2, <3>1 DEF Classical!Grant, Permits
    <3> QED BY <2>1, <3>2 DEF Classical!Next
  <2>3. ASSUME sem_count[s] <= 0, TakesOne(s), NEW d \in SemDescriptor, Queues(s, d)
        PROVE  Classical!Next
    <3>1. Permits' = Permits /\ Permits[s] = 0
      BY <1>0, <2>1, <2>3 DEF Permits, TakesOne
    <3>2. Classical!Enqueue(s, d)
      BY <1>3, <2>3, <3>1 DEF Classical!Enqueue, Permits, Queues
    <3> QED BY <2>1, <3>2 DEF Classical!Next
  <2>4. CASE sem_count[s] >= 0 /\ AddsOne(s) /\ UNCHANGED waiting_descriptors
    <3>0. Permits[s] = sem_count[s]
      BY <1>0, <2>1, <2>4 DEF Permits
    <3>1. Permits' = [Permits EXCEPT ![s] = @ + 1]
      <4>1. sem_count[s] + 1 \in Nat /\ sem_count' = [sem_count EXCEPT ![s] = sem_count[s] + 1]
        BY <1>0, <2>1, <2>4 DEF AddsOne
      <4> DEFINE c == sem_count[s] + 1
      <4>2. Permits' = [Permits EXCEPT ![s] = IF c > 0 THEN c ELSE 0]
        <5>1. c \in Int /\ sem_count' = [sem_count EXCEPT ![s] = c]
          BY <4>1
        <5> HIDE DEF c
        <5> QED BY <2>1, <5>1, PermitsOfOne, Zenon DEF IInv
      <4>3. (IF c > 0 THEN c ELSE 0) = Permits[s] + 1
        BY <1>0, <2>1, <2>4, <3>0
      <4> HIDE DEF c
      <4> QED BY <3>0, <4>2, <4>3
    <3>2. waiting_descriptors[s] = <<>>
      <4>1. Len(waiting_descriptors[s]) <= 0
        BY <1>0, <2>1, <2>4 DEF WaitersMatchCount, Owed
      <4> QED BY <1>0, <2>1, <4>1
    <3>3. Classical!Add(s)
      BY <1>3, <2>4, <3>1, <3>2 DEF Classical!Add, Permits
    <3> QED BY <2>1, <3>3 DEF Classical!Next
  <2>5. CASE sem_count[s] < 0 /\ waiting_descriptors[s] # <<>> /\ AddsOne(s) /\ Dequeues(s)
    <3>1. Permits' = Permits
      BY <1>0, <2>1, <2>5 DEF Permits, AddsOne
    <3>2. Classical!Wake(s)
      BY <1>3, <2>5, <3>1 DEF Classical!Wake, Permits, Dequeues
    <3> QED BY <2>1, <3>2 DEF Classical!Next
  <2>6. ~ (sem_count[s] < 0) => sem_count[s] >= 0
    BY <1>0, <2>1
  <2> QED BY <1>3, <2>2, <2>3, <2>4, <2>5, <2>6 DEF WaitPostEffect
<1> QED BY <1>1, <1>2, <1>3 DEF CountStep

(* Count and queue implement a counting semaphore whose queue is first     *)
(* come, first served, whatever is opened and closed meanwhile.            *)
THEOREM Refinement == SemSpec => ImplementsClassical
<1>1. SemInit => Classical!Init
  BY DEF SemInit, Classical!Init, Allocated
<1>2. IInv /\ WaitersMatchCount /\ [SemNext]_semVars => [Classical!Next]_(Classical!vars)
  BY StepCounts, ClassicalStep
<1> QED BY <1>1, <1>2, Invariant, CountMatchesQueue, PTL
        DEF SemSpec, ImplementsClassical, Classical!Spec

---------------------------------------------------------------------------
(* File descriptors. *)

LEMMA FdsStep == IInv /\ FdsUnique /\ [SemNext]_semVars => FdsUnique'
<1> SUFFICES ASSUME IInv, FdsUnique, Effect PROVE FdsUnique'
  BY StepIsEffect
<1>0. SemTypeOK /\ \A q \in PCB : \A i \in DOMAIN sem_descriptors[q] :
        sem_descriptors[q][i] \in SemDescriptor \ desc_free
  BY DEF IInv, SemTypeOK, DescriptorTables, ProcessTable
<1>1. CASE UNCHANGED <<desc_fd, sem_descriptors, last_sem_fd>>
  BY <1>1 DEF FdsUnique
<1>2. ASSUME NEW p \in Recycled, NewPCB(p) PROVE FdsUnique'
  <2>1. \A q \in PCB \ Recycled : last_sem_fd'[q] = last_sem_fd[q]
    BY <1>0, <1>2 DEF NewPCB, SemTypeOK
  <2> QED BY <1>2, <2>1 DEF FdsUnique, NewPCB, descVars
<1>3. ASSUME NEW p \in PCB, NEW id, NEW oflag, NEW count, NEW s,
             NEW d \in SemDescriptor, SemOpenOk(p, id, oflag, count, s, d)
      PROVE  FdsUnique'
  <2>1. /\ d \in desc_free /\ desc_fd'[d] = last_sem_fd[p]
        /\ \A e \in SemDescriptor \ {d} : desc_fd'[e] = desc_fd[e]
        /\ last_sem_fd'[p] = last_sem_fd[p] + 1 /\ last_sem_fd[p] \in Nat
        /\ \A q \in PCB \ {p} : last_sem_fd'[q] = last_sem_fd[q]
        /\ sem_descriptors' = [sem_descriptors EXCEPT ![p] = Append(@, d)]
    BY <1>0, <1>3 DEF SemOpenOk, NextFd, SemDescriptorPtr_alloc, PtrTaken, SemTypeOK
  <2> DEFINE n == Len(sem_descriptors[p])
  <2>2. /\ DOMAIN sem_descriptors'[p] = 1 .. n + 1
        /\ sem_descriptors'[p][n + 1] = d
        /\ DOMAIN sem_descriptors[p] = 1 .. n /\ n \in Nat
        /\ \A j \in DOMAIN sem_descriptors[p] : sem_descriptors'[p][j] = sem_descriptors[p][j]
        /\ \A q \in PCB \ {p} : sem_descriptors'[q] = sem_descriptors[q]
    BY <1>0, <2>1, OpenedList
  <2> HIDE DEF n
  <2>3. \A q \in PCB : \A i \in DOMAIN sem_descriptors[q] :
          /\ desc_fd'[sem_descriptors[q][i]] = desc_fd[sem_descriptors[q][i]]
          /\ desc_fd[sem_descriptors[q][i]] \in Nat
    BY <1>0, <2>1 DEF SemTypeOK
  <2>4. ASSUME NEW q \in PCB \ Recycled, q # p,
               NEW i \in DOMAIN sem_descriptors'[q], NEW j \in DOMAIN sem_descriptors'[q]
        PROVE  /\ desc_fd'[sem_descriptors'[q][i]] < last_sem_fd'[q]
               /\ desc_fd'[sem_descriptors'[q][i]] = desc_fd'[sem_descriptors'[q][j]] => i = j
    BY <2>1, <2>2, <2>3, <2>4 DEF FdsUnique
  <2>5. ASSUME p \notin Recycled, NEW i \in 1 .. n + 1, NEW j \in 1 .. n + 1
        PROVE  /\ desc_fd'[sem_descriptors'[p][i]] < last_sem_fd'[p]
               /\ desc_fd'[sem_descriptors'[p][i]] = desc_fd'[sem_descriptors'[p][j]] => i = j
    <3>1. \A k \in 1 .. n : /\ desc_fd'[sem_descriptors'[p][k]] = desc_fd[sem_descriptors[p][k]]
                            /\ desc_fd[sem_descriptors[p][k]] \in Nat
                            /\ desc_fd[sem_descriptors[p][k]] < last_sem_fd[p]
      BY <2>2, <2>3, <2>5 DEF FdsUnique
    <3>2. desc_fd'[sem_descriptors'[p][n + 1]] = last_sem_fd[p]
      BY <2>1, <2>2
    <3>3. CASE i = n + 1 \/ j = n + 1
      BY <2>1, <2>2, <3>1, <3>2, <3>3
    <3>4. CASE i \in 1 .. n /\ j \in 1 .. n
      BY <2>1, <2>2, <2>5, <3>1, <3>4 DEF FdsUnique
    <3> QED BY <2>2, <3>3, <3>4
  <2> QED BY <2>2, <2>4, <2>5 DEF FdsUnique
<1>4. ASSUME NEW p \in PCB, NEW fd, SemCloseOk(p, fd) PROVE FdsUnique'
  <2>1. PICK k \in 1 .. Len(sem_descriptors[p]) : CloseEffect(p, k)
    BY <1>0, <1>4, CloseHasEffect
  <2> DEFINE n == Len(sem_descriptors[p])
  <2>2. /\ DOMAIN sem_descriptors'[p] = 1 .. n - 1
        /\ \A j \in DOMAIN sem_descriptors'[p] :
             sem_descriptors'[p][j] = IF j < k THEN sem_descriptors[p][j]
                                               ELSE sem_descriptors[p][j + 1]
        /\ \A q \in PCB \ {p} : sem_descriptors'[q] = sem_descriptors[q]
    BY <1>0, <2>1, ClosedList
  <2>3. n \in Nat /\ DOMAIN sem_descriptors[p] = 1 .. n /\ k \in 1 .. n
    BY <1>0 DEF SemTypeOK
  <2> HIDE DEF n
  <2>4. desc_fd' = desc_fd /\ last_sem_fd' = last_sem_fd
    BY <2>1 DEF CloseEffect
  <2>5. ASSUME p \notin Recycled, NEW i \in 1 .. n - 1, NEW j \in 1 .. n - 1
        PROVE  /\ desc_fd'[sem_descriptors'[p][i]] < last_sem_fd'[p]
               /\ desc_fd'[sem_descriptors'[p][i]] = desc_fd'[sem_descriptors'[p][j]] => i = j
    <3> DEFINE a == IF i < k THEN i ELSE i + 1
               b == IF j < k THEN j ELSE j + 1
    <3>0. a \in 1 .. n /\ b \in 1 .. n
      BY <2>3
    <3>1. /\ sem_descriptors'[p][i] = sem_descriptors[p][a]
          /\ sem_descriptors'[p][j] = sem_descriptors[p][b]
      BY <2>2
    <3>2. a = b => i = j
      BY <2>3
    <3> HIDE DEF a, b
    <3>3. /\ desc_fd[sem_descriptors[p][a]] < last_sem_fd[p]
          /\ desc_fd[sem_descriptors[p][a]] = desc_fd[sem_descriptors[p][b]] => a = b
      BY <2>3, <2>5, <3>0, Zenon DEF FdsUnique
    <3> QED BY <2>4, <3>1, <3>2, <3>3, Zenon
  <2>6. ASSUME NEW q \in PCB \ Recycled, q # p
        PROVE  \A i \in DOMAIN sem_descriptors'[q] :
                 /\ desc_fd'[sem_descriptors'[q][i]] < last_sem_fd'[q]
                 /\ \A j \in DOMAIN sem_descriptors'[q] :
                      desc_fd'[sem_descriptors'[q][i]] = desc_fd'[sem_descriptors'[q][j]] => i = j
    <3>1. sem_descriptors'[q] = sem_descriptors[q]
      BY <2>2, <2>6
    <3> QED BY <2>4, <2>6, <3>1 DEF FdsUnique
  <2>7. ASSUME NEW q \in PCB \ Recycled
        PROVE  \A i \in DOMAIN sem_descriptors'[q] :
                 /\ desc_fd'[sem_descriptors'[q][i]] < last_sem_fd'[q]
                 /\ \A j \in DOMAIN sem_descriptors'[q] :
                      desc_fd'[sem_descriptors'[q][i]] = desc_fd'[sem_descriptors'[q][j]] => i = j
    <3>1. CASE q = p
      BY <2>2, <2>5, <2>7, <3>1, Zenon
    <3> QED BY <2>6, <2>7, <3>1, Zenon
  <2> QED BY <2>7, Zenon DEF FdsUnique
<1> QED
  <2>1. ASSUME NEW p \in PCB, NEW fd,
               \/ SemWaitTakes(p, fd) \/ SemWaitQueues(p, fd)
               \/ SemPostAdds(p, fd) \/ (\E w \in PCB : SemPostWakes(p, fd, w))
        PROVE  UNCHANGED <<desc_fd, sem_descriptors, last_sem_fd>>
    BY <2>1, Zenon DEF SemWaitTakes, SemWaitQueues, QueuedLast, SemDescriptorPtr_alloc, PtrTaken, SemPostAdds, SemPostWakes, Wakes, descVars
  <2>2. ASSUME NEW id, NEW oflag, NEW count, NEW s, SemOpenNoFd(id, oflag, count, s)
        PROVE  UNCHANGED <<desc_fd, sem_descriptors, last_sem_fd>>
    BY <2>2 DEF SemOpenNoFd, descVars
  <2>3. UNCHANGED semVars => UNCHANGED <<desc_fd, sem_descriptors, last_sem_fd>>
    BY DEF semVars, descVars
  <2> QED BY <1>1, <1>2, <1>3, <1>4, <2>1, <2>2, <2>3, Zenon DEF Effect

(* As long as its PCB is in its first life, the fds of a process are       *)
(* distinct, so each leads to the semaphore its open returned it for.      *)
THEOREM FdsDistinct == SemSpec => []FdsUnique
<1>1. SemInit => FdsUnique
  BY DEF SemInit, FdsUnique
<1> QED BY <1>1, FdsStep, Invariant, PTL DEF SemSpec

---------------------------------------------------------------------------
(* The pointer blocks.  The free ones, those that link open descriptors    *)
(* and those of the queues are never more than the pool was made with; for *)
(* the sum to be about numbers, there must be finitely many queue entries. *)

PtrInv == IsFiniteSet(QueueEntries) /\ PtrBlocksNotShared

OpenOnes == SemDescriptor \ desc_free

LEMMA OpenOnesFinite == IsFiniteSet(OpenOnes) /\ Cardinality(OpenOnes) \in Nat
  BY SemConstantsAssumption, FS_Difference, FS_CardinalityType DEF OpenOnes

(* An entry joins or leaves the set of entries at the end of one queue. *)
LEMMA EntryAdded ==
  ASSUME SemTypeOK, NEW s \in Semaphore, NEW d \in SemDescriptor, Queues(s, d)
  PROVE  \E x : x \notin QueueEntries /\ QueueEntries' = QueueEntries \cup {x}
<1> DEFINE l == waiting_descriptors[s]
<1>1. l \in Seq(SemDescriptor)
  BY DEF SemTypeOK
<1>2. waiting_descriptors'[s] = Append(l, d)
  BY DEF SemTypeOK, Queues
<1>3. \A t \in Semaphore \ {s} : waiting_descriptors'[t] = waiting_descriptors[t]
  BY DEF SemTypeOK, Queues
<1> HIDE DEF l
<1>4. DOMAIN Append(l, d) = DOMAIN l \cup {Len(l) + 1} /\ Len(l) + 1 \notin DOMAIN l
  BY <1>1
<1>5. /\ DOMAIN waiting_descriptors'[s] = DOMAIN waiting_descriptors[s] \cup {Len(l) + 1}
      /\ Len(l) + 1 \notin DOMAIN waiting_descriptors[s]
  BY <1>2, <1>4 DEF l
<1>6. <<s, Len(l) + 1>> \notin QueueEntries
  BY <1>5 DEF QueueEntries
<1>7. QueueEntries' = QueueEntries \cup {<<s, Len(l) + 1>>}
  BY <1>3, <1>5 DEF QueueEntries
<1> QED BY <1>6, <1>7

LEMMA EntryRemoved ==
  ASSUME SemTypeOK, NEW s \in Semaphore, waiting_descriptors[s] # <<>>, Dequeues(s)
  PROVE  \E x : x \in QueueEntries /\ QueueEntries' = QueueEntries \ {x}
<1> DEFINE l == waiting_descriptors[s]
<1>1. l \in Seq(SemDescriptor) /\ l # <<>>
  BY DEF SemTypeOK
<1>2. waiting_descriptors'[s] = Tail(l)
  BY DEF SemTypeOK, Dequeues
<1>3. \A t \in Semaphore \ {s} : waiting_descriptors'[t] = waiting_descriptors[t]
  BY DEF SemTypeOK, Dequeues
<1> HIDE DEF l
<1>4. DOMAIN Tail(l) = DOMAIN l \ {Len(l)} /\ Len(l) \in DOMAIN l
  BY <1>1
<1>5. /\ DOMAIN waiting_descriptors'[s] = DOMAIN waiting_descriptors[s] \ {Len(l)}
      /\ Len(l) \in DOMAIN waiting_descriptors[s]
  BY <1>2, <1>4 DEF l
<1>6. <<s, Len(l)>> \in QueueEntries
  BY <1>5 DEF QueueEntries
<1>7. QueueEntries' = QueueEntries \ {<<s, Len(l)>>}
  BY <1>3, <1>5 DEF QueueEntries
<1> QED BY <1>6, <1>7

LEMMA PtrStep == IInv /\ PtrInv /\ [SemNext]_semVars => PtrInv'
<1> SUFFICES ASSUME IInv, PtrInv, Effect PROVE PtrInv'
  BY StepIsEffect
<1>0. /\ ptr_free \in Nat /\ MaxPtr \in Nat
      /\ IsFiniteSet(QueueEntries) /\ Cardinality(QueueEntries) \in Nat
      /\ IsFiniteSet(OpenOnes) /\ Cardinality(OpenOnes) \in Nat
      /\ ptr_free + Cardinality(OpenOnes) + Cardinality(QueueEntries) <= MaxPtr
  BY SemConstantsAssumption, OpenOnesFinite, FS_CardinalityType
     DEF IInv, SemTypeOK, PtrInv, PtrBlocksNotShared, OpenOnes
<1>1. ASSUME ptr_free' = ptr_free, OpenOnes' = OpenOnes, QueueEntries' = QueueEntries
      PROVE  PtrInv'
  BY <1>0, <1>1 DEF PtrInv, PtrBlocksNotShared, OpenOnes
<1>2. CASE UNCHANGED semVars
  BY <1>1, <1>2 DEF semVars, descVars, OpenOnes, QueueEntries
<1>3. ASSUME NEW p \in Recycled, NewPCB(p) PROVE PtrInv'
  BY <1>1, <1>3 DEF NewPCB, descVars, OpenOnes, QueueEntries
<1>4. ASSUME NEW id, NEW oflag, NEW count, NEW s, SemOpenNoFd(id, oflag, count, s) PROVE PtrInv'
  BY <1>1, <1>4 DEF SemOpenNoFd, descVars, OpenOnes, QueueEntries
<1>5. ASSUME NEW p, NEW id, NEW oflag, NEW count, NEW s, NEW d \in SemDescriptor,
             SemOpenOk(p, id, oflag, count, s, d)
      PROVE  PtrInv'
  <2>1. /\ d \notin OpenOnes /\ OpenOnes' = OpenOnes \cup {d} /\ QueueEntries' = QueueEntries
        /\ ptr_free > 0 /\ ptr_free' = ptr_free - 1
    BY <1>5 DEF SemOpenOk, SemDescriptorPtr_alloc, PtrTaken, OpenOnes, QueueEntries
  <2>2. Cardinality(OpenOnes') = Cardinality(OpenOnes) + 1
    BY <1>0, <2>1, FS_AddElement
  <2>3. ptr_free' + Cardinality(OpenOnes') + Cardinality(QueueEntries') <= MaxPtr
    BY <1>0, <2>1, <2>2
  <2> QED BY <1>0, <2>1, <2>3 DEF PtrInv, PtrBlocksNotShared, OpenOnes
<1>6. ASSUME NEW p \in PCB, NEW fd,
             \/ SemWaitTakes(p, fd) \/ SemWaitQueues(p, fd)
             \/ SemPostAdds(p, fd) \/ (\E w \in PCB : SemPostWakes(p, fd, w))
      PROVE  PtrInv'
  <2>1. PICK i \in DOMAIN sem_descriptors[p] : WaitPostEffect(desc_sem[sem_descriptors[p][i]])
    BY <1>6, WaitPostHasEffect DEF IInv
  <2>2. PICK s \in Semaphore : WaitPostEffect(s)
    BY <2>1, FdLeadsToAllocated DEF Allocated
  <2>3. OpenOnes' = OpenOnes
    BY <2>2 DEF WaitPostEffect, descVars, OpenOnes
  <2>4. CASE UNCHANGED <<waiting_descriptors, ptr_free>>
    BY <1>1, <2>3, <2>4 DEF QueueEntries
  <2>5. ASSUME NEW d \in SemDescriptor, Queues(s, d), ptr_free > 0, ptr_free' = ptr_free - 1
        PROVE  PtrInv'
    <3>1. PICK x : x \notin QueueEntries /\ QueueEntries' = QueueEntries \cup {x}
      BY <2>5, EntryAdded DEF IInv
    <3>2. /\ IsFiniteSet(QueueEntries')
          /\ Cardinality(QueueEntries') = Cardinality(QueueEntries) + 1
      BY <1>0, <3>1, FS_AddElement
    <3>3. ptr_free' + Cardinality(OpenOnes') + Cardinality(QueueEntries') <= MaxPtr
      BY <1>0, <2>3, <2>5, <3>2
    <3> QED BY <3>2, <3>3 DEF PtrInv, PtrBlocksNotShared, OpenOnes
  <2>6. ASSUME waiting_descriptors[s] # <<>>, Dequeues(s), UNCHANGED ptr_free
        PROVE  PtrInv'
    <3>1. PICK x : x \in QueueEntries /\ QueueEntries' = QueueEntries \ {x}
      BY <2>6, EntryRemoved DEF IInv
    <3>2. /\ IsFiniteSet(QueueEntries')
          /\ Cardinality(QueueEntries') = Cardinality(QueueEntries) - 1
      BY <1>0, <3>1, FS_RemoveElement
    <3>3. ptr_free' + Cardinality(OpenOnes') + Cardinality(QueueEntries') <= MaxPtr
      BY <1>0, <2>3, <2>6, <3>2
    <3> QED BY <3>2, <3>3 DEF PtrInv, PtrBlocksNotShared, OpenOnes
  <2> QED BY <2>2, <2>4, <2>5, <2>6 DEF WaitPostEffect
<1>7. ASSUME NEW p \in PCB, NEW fd, SemCloseOk(p, fd) PROVE PtrInv'
  <2>1. PICK k \in 1 .. Len(sem_descriptors[p]) : CloseEffect(p, k)
    BY <1>7, CloseHasEffect DEF IInv
  <2>2. sem_descriptors[p][k] \in OpenOnes
    BY DEF IInv, SemTypeOK, DescriptorTables, ProcessTable, OpenOnes
  <2>3. OpenOnes' = OpenOnes \ {sem_descriptors[p][k]} /\ QueueEntries' = QueueEntries
    BY <2>1 DEF CloseEffect, OpenOnes, QueueEntries
  <2>4. ptr_free' = ptr_free + 1
    BY <1>7 DEF SemCloseOk
  <2>5. Cardinality(OpenOnes') = Cardinality(OpenOnes) - 1
    BY <1>0, <2>2, <2>3, FS_RemoveElement
  <2>6. ptr_free' + Cardinality(OpenOnes') + Cardinality(QueueEntries') <= MaxPtr
    BY <1>0, <2>3, <2>4, <2>5
  <2> QED BY <1>0, <2>3, <2>6 DEF PtrInv, PtrBlocksNotShared, OpenOnes
<1> QED BY <1>2, <1>3, <1>4, <1>5, <1>6, <1>7 DEF Effect

(* No pointer block is handed out while it links a descriptor: what the    *)
(* pool has free, what the opens took (semopen.c:52) and what the waits    *)
(* queued (semwait.c:23) never exceed the pool together.  They may be less *)
(* than it: a post gives no block back (sempost.c:27).                     *)
THEOREM PtrBlocksSeparate == SemSpec => []PtrBlocksNotShared
<1>1. SemInit => PtrInv
  <2> SUFFICES ASSUME SemInit PROVE PtrInv
    OBVIOUS
  <2>1. QueueEntries = {} /\ OpenOnes = {} /\ ptr_free = MaxPtr
    BY DEF SemInit, QueueEntries, OpenOnes
  <2>2. IsFiniteSet({}) /\ Cardinality({}) = 0
    BY FS_EmptySet
  <2> QED BY <2>1, <2>2, SemConstantsAssumption DEF PtrInv, PtrBlocksNotShared, OpenOnes
<1>2. PtrInv => PtrBlocksNotShared
  BY DEF PtrInv
<1> QED BY <1>1, <1>2, PtrStep, Invariant, PTL DEF SemSpec

---------------------------------------------------------------------------
(* Listed semaphores on which nothing is open. *)

LEMMA OrphanStep ==
  ASSUME IInv, [SemNext]_semVars, NEW s \in semaphores_list', descriptors'[s] = {}
  PROVE  (s \in semaphores_list /\ descriptors[s] = {}) \/ desc_free = {}
<1> DEFINE Goal == (s \in semaphores_list /\ descriptors[s] = {}) \/ desc_free = {}
<1>0. Effect /\ descriptors \in [Semaphore -> SUBSET SemDescriptor] /\ semaphores_list \subseteq Semaphore
  BY StepIsEffect DEF IInv, SemTypeOK
<1>1. CASE UNCHANGED <<semaphores_list, descriptors>>
  BY <1>1
<1>2. CASE UNCHANGED semVars
  BY <1>1, <1>2 DEF semVars, semaphoreVars, descVars
<1>3. ASSUME NEW p \in Recycled, NewPCB(p) PROVE Goal
  BY <1>1, <1>3 DEF NewPCB, semaphoreVars, descVars
<1>4. ASSUME NEW id, NEW oflag, NEW count, NEW t, SemOpenNoFd(id, oflag, count, t) PROVE Goal
  BY <1>4 DEF SemOpenNoFd
<1>5. ASSUME NEW p, NEW id, NEW oflag, NEW count, NEW t \in Semaphore, NEW d \in SemDescriptor,
             SemOpenOk(p, id, oflag, count, t, d)
      PROVE  Goal
  <2>1. descriptors' = [descriptors EXCEPT ![t] = @ \cup {d}]
    BY <1>5 DEF SemOpenOk
  <2>2. semaphores_list' \subseteq semaphores_list \cup {t}
    BY <1>5 DEF SemOpenOk, Reaches, Creates, Finds, semaphoreVars
  <2> QED BY <1>0, <2>1, <2>2
<1>6. ASSUME NEW p \in PCB, NEW fd,
             \/ SemWaitTakes(p, fd) \/ SemWaitQueues(p, fd)
             \/ SemPostAdds(p, fd) \/ (\E w \in PCB : SemPostWakes(p, fd, w))
      PROVE  Goal
  <2>1. PICK i \in DOMAIN sem_descriptors[p] : WaitPostEffect(desc_sem[sem_descriptors[p][i]])
    BY <1>6, WaitPostHasEffect DEF IInv
  <2> QED BY <1>1, <2>1 DEF WaitPostEffect, semaphoreVars, descVars
<1>7. ASSUME NEW p \in PCB, NEW fd, SemCloseOk(p, fd) PROVE Goal
  <2>1. PICK k \in 1 .. Len(sem_descriptors[p]) : CloseEffect(p, k)
    BY <1>7, CloseHasEffect DEF IInv
  <2> DEFINE d == sem_descriptors[p][k]
  <2>2. d \in SemDescriptor /\ d \notin desc_free
    BY DEF IInv, SemTypeOK, DescriptorTables, ProcessTable
  <2>3. PICK t \in Semaphore : t = desc_sem[d] /\ d \in descriptors[t]
    BY <2>2 DEF IInv, DescriptorTables, SemaphoreTable
  <2>4. /\ descriptors' = [descriptors EXCEPT ![t] = @ \ {d}]
        /\ semaphores_list' = IF descriptors[t] = {d} THEN semaphores_list \ {t}
                                                      ELSE semaphores_list
    BY <2>1, <2>3 DEF CloseEffect
  <2> HIDE DEF d
  <2> QED BY <1>0, <2>3, <2>4
<1> QED BY <1>0, <1>2, <1>3, <1>4, <1>5, <1>6, <1>7 DEF Effect

(* A listed semaphore on which nothing is open comes only from a creating  *)
(* open that found no descriptor block (semopen.c:44-47): the last close   *)
(* always takes its semaphore out of the list (semclose.c:34-37).          *)
THEOREM OrphansNeedNoFd == SemSpec => OrphansOnlyWhenNoFd
<1>1. IInv /\ [SemNext]_semVars =>
        [\A s \in semaphores_list' :
           descriptors'[s] = {} => \/ s \in semaphores_list /\ descriptors[s] = {}
                                  \/ desc_free = {}]_semVars
  BY OrphanStep
<1> QED BY <1>1, Invariant, PTL DEF SemSpec, OrphansOnlyWhenNoFd
=============================================================================
