-------------------------- MODULE DisastrOSProofs --------------------------
(***************************************************************************)
(* What is proved of semaphores and of resources holds in the whole        *)
(* kernel: every step of DisastrOS is a step of Semaphores or leaves its   *)
(* variables alone, and the same for Resources, so whatever the processes  *)
(* do, the objects of one subsystem change only by its own operations and  *)
(* by the first and the last step of a process.                            *)
(***************************************************************************)
EXTENDS DisastrOS, ProcessesProofs, SemaphoresProofs, ResourcesProofs

(* A semaphore call of the running process is one of Semaphores. *)
LEMMA CallIsSemStep ==
  ASSUME NEW p \in PCB, SemCall(p)
  PROVE  SemNext
<1>1. ASSUME NEW id \in SemIds, NEW oflag \in Oflags, NEW count \in InitialCounts,
             OpenCall(p, id, oflag, count)
      PROVE  SemNext
  BY <1>1 DEF OpenCall, SemOpen, SemNext, SemSyscall
<1>2. ASSUME NEW fd \in 0 .. MaxFd, WaitCall(p, fd) PROVE SemNext
  BY <1>2 DEF WaitCall, SemWaitBlocks, SemWait, SemNext, SemSyscall
<1>3. ASSUME NEW fd \in 0 .. MaxFd, PostCall(p, fd) PROVE SemNext
  BY <1>3 DEF PostCall, SemPostReadies, SemPost, SemNext, SemSyscall
<1>4. ASSUME NEW fd \in 0 .. MaxFd, CloseCall(p, fd) PROVE SemNext
  BY <1>4 DEF CloseCall, SemNext, SemSyscall
<1> QED BY <1>1, <1>2, <1>3, <1>4 DEF SemCall

LEMMA StepIsSemStep ==
  ASSUME Recycled = PCB, [Next]_vars
  PROVE  [SemNext]_semVars
<1>1. ASSUME NEW p \in PCB, SemCall(p) PROVE SemNext
  BY <1>1, CallIsSemStep
<1>2. ASSUME NEW b \in PCB, Starts(b) \/ Boots(b) PROVE SemNext
  BY <1>2 DEF Starts, Boots, Allocates, SemNext
<1>3. ASSUME (\E p \in PCB : ResCall(p) \/ Exits(p)) \/ Ends \/ Waits \/ Sleeps \/ NoTimer
             \/ Preempts \/ Returns
      PROVE  UNCHANGED semVars
  BY <1>3, Zenon DEF ResCall, Exits, Ends, Waits, Sleeps, NoTimer, Preempts, Returns, Alone
<1>4. CASE UNCHANGED vars
  BY <1>4 DEF vars
<1> QED BY <1>1, <1>2, <1>3, <1>4 DEF Next

LEMMA StepIsResStep ==
  ASSUME [Next]_vars
  PROVE  [ResNext]_resVars
<1>1. ASSUME NEW p \in PCB, ResCall(p) PROVE ResNext
  BY <1>1 DEF ResCall, ResNext
<1>2. ASSUME NEW b \in PCB, Starts(b) \/ Boots(b) PROVE ResNext
  BY <1>2 DEF Starts, Boots, Allocates, ResNext
<1>3. ASSUME NEW p \in PCB, Exits(p) PROVE [ResNext]_resVars
  BY <1>3 DEF Exits, ExitReleases, ExitKeeps, ResNext
<1>4. ASSUME (\E p \in PCB : SemCall(p)) \/ Ends \/ Waits \/ Sleeps \/ NoTimer
             \/ Preempts \/ Returns
      PROVE  UNCHANGED resVars
  BY <1>4, Zenon DEF SemCall, Ends, Waits, Sleeps, NoTimer, Preempts, Returns, Alone
<1>5. CASE UNCHANGED vars
  BY <1>5 DEF vars
<1> QED BY <1>1, <1>2, <1>3, <1>4, <1>5 DEF Next

(* The kernel implements the specification of its semaphore subsystem, for *)
(* any number of processes, semaphores and descriptors, when every PCB     *)
(* counts as recycled.                                                     *)
THEOREM KernelImplementsSemaphores ==
  ASSUME Recycled = PCB
  PROVE  Spec => SemSpec
<1>1. Init => SemInit
  BY DEF Init
<1>2. [Next]_vars => [SemNext]_semVars
  BY StepIsSemStep
<1> QED BY <1>1, <1>2, PTL DEF Spec, SemSpec

(* In the whole kernel, whatever processes are spawned, die, sleep or are  *)
(* preempted, the descriptor tables agree and open semaphores are listed.  *)
THEOREM KernelTablesAgree ==
  ASSUME Recycled = PCB
  PROVE  Spec => [](DescriptorTables /\ OpenSemaphoresListed)
BY KernelImplementsSemaphores, TablesAgree, OpenOnesListed, PTL

(* In the whole kernel each semaphore is a counting semaphore with a       *)
(* first-come first-served queue.                                          *)
THEOREM KernelImplementsClassical ==
  ASSUME Recycled = PCB
  PROVE  Spec => ImplementsClassical
BY KernelImplementsSemaphores, Refinement, PTL

(* The kernel implements the specification of its resource subsystem, for  *)
(* any number of processes and blocks.                                     *)
THEOREM KernelImplementsResources == Spec => ResSpec
<1>1. Init => ResInit
  BY DEF Init
<1>2. [Next]_vars => [ResNext]_resVars
  BY StepIsResStep
<1> QED BY <1>1, <1>2, PTL DEF Spec, ResSpec

(* In the whole kernel the tables of resources agree, and no block of a    *)
(* resource is lost between its pool and the global list, although most    *)
(* exits release nothing.                                                  *)
THEOREM KernelResourcesAgree == Spec => [](ResourceTables /\ ListIsPool)
BY KernelImplementsResources, ResourceTablesAgree, NoBlockLost, PTL

(* In the whole kernel the pool of resources is a stack of free blocks. *)
THEOREM KernelPoolIsStack == Spec => PoolIsStack
BY KernelImplementsResources, PoolImplementsStack, PTL

(* In the whole kernel a resource that somebody has open stays what it is. *)
THEOREM KernelResourceStays == Spec => OpenResourceStays
BY KernelImplementsResources, ResourceStays, PTL

---------------------------------------------------------------------------
(* The pools of the process side in the whole kernel.  A waiter that goes  *)
(* on running leaves the three lists in disorder, so nothing that rests on *)
(* who is where holds any more; the pools do not rest on it.  What follows *)
(* therefore speaks of the lists only as pointers of the right kind, and   *)
(* counts the entries of the lists of children, whatever they hold.        *)
ChildLists == [p \in PCB |-> pcb[p].children]
EntriesIn(S, f) == UNION {{p} \X DOMAIN f[p] : p \in S}
Entries(f) == EntriesIn(PCB, f)

(* The entries of one PCB, and those of all. *)
LEMMA OwnEntries ==
  ASSUME NEW f \in [PCB -> Seq(PCB)], NEW p \in PCB
  PROVE  /\ IsFiniteSet({p} \X DOMAIN f[p]) /\ Cardinality({p} \X DOMAIN f[p]) = Len(f[p])
         /\ Len(f[p]) \in Nat
<1> DEFINE D == DOMAIN f[p]
           n == Len(f[p])
<1>1. D = 1 .. n /\ n \in Nat
  OBVIOUS
<1> HIDE DEF D, n
<1>2. IsFiniteSet(D) /\ Cardinality(D) = n
  BY <1>1, FS_Interval
<1>3. IsFiniteSet({p}) /\ Cardinality({p}) = 1
  BY FS_Singleton
<1>4. IsFiniteSet({p} \X D) /\ Cardinality({p} \X D) = 1 * n
  BY <1>2, <1>3, FS_Product
<1>5. Cardinality({p} \X D) = n
  BY <1>1, <1>4
<1> QED BY <1>1, <1>4, <1>5 DEF D, n

LEMMA EntriesAreFinite ==
  ASSUME NEW f \in [PCB -> Seq(PCB)]
  PROVE  IsFiniteSet(Entries(f))
<1> DEFINE n == MAX_NUM_PROCESSES
           S == {k \in 0 .. n : IsFiniteSet(EntriesIn(1 .. k, f))}
<1>1. n \in Nat /\ PCB = 1 .. n
  BY PCBsAreFinite DEF PCB
<1>2. 0 \in S
  <2>1. EntriesIn(1 .. 0, f) = {}
    BY DEF EntriesIn
  <2>2. IsFiniteSet(EntriesIn(1 .. 0, f))
    BY <2>1, FS_EmptySet
  <2> QED BY <1>1, <2>2
<1>3. ASSUME NEW k \in S, k < n PROVE k + 1 \in S
  <2>1. k \in 0 .. n /\ k + 1 \in PCB /\ k + 1 \in 0 .. n /\ 1 .. k + 1 = (1 .. k) \cup {k + 1}
    BY <1>1, <1>3
  <2>2. EntriesIn(1 .. k + 1, f) = EntriesIn(1 .. k, f) \cup ({k + 1} \X DOMAIN f[k + 1])
    BY <2>1 DEF EntriesIn
  <2>3. IsFiniteSet(EntriesIn(1 .. k, f)) /\ IsFiniteSet({k + 1} \X DOMAIN f[k + 1])
    BY <2>1, OwnEntries
  <2> DEFINE A == EntriesIn(1 .. k, f)
             B == {k + 1} \X DOMAIN f[k + 1]
  <2>4. IsFiniteSet(A \cup B)
    <3>1. IsFiniteSet(A) /\ IsFiniteSet(B)
      BY <2>3
    <3> HIDE DEF A, B
    <3> QED BY <3>1, FS_Union
  <2> QED BY <2>1, <2>2, <2>4
<1>4. S \in SUBSET (0 .. n)
  OBVIOUS
<1>5. n \in S
  <2> HIDE DEF S, n
  <2> QED BY <1>1, <1>2, <1>3, <1>4, Induction
<1> QED BY <1>1, <1>5 DEF Entries

(* Another list of children for one PCB. *)
LEMMA EntriesChange ==
  ASSUME NEW f \in [PCB -> Seq(PCB)], NEW g \in [PCB -> Seq(PCB)], NEW p \in PCB,
         \A q \in PCB : q # p => g[q] = f[q]
  PROVE  /\ Cardinality(Entries(f)) \in Nat /\ Cardinality(Entries(g)) \in Nat
         /\ Cardinality(Entries(f)) >= Len(f[p])
         /\ Cardinality(Entries(g)) = Cardinality(Entries(f)) - Len(f[p]) + Len(g[p])
<1> DEFINE O == PCB \ {p}
<1>1. ASSUME NEW h \in [PCB -> Seq(PCB)]
      PROVE  /\ Cardinality(Entries(h)) = Cardinality(EntriesIn(O, h)) + Len(h[p])
             /\ Cardinality(EntriesIn(O, h)) \in Nat /\ Len(h[p]) \in Nat
  <2> DEFINE A == EntriesIn(O, h)
             B == {p} \X DOMAIN h[p]
  <2>1. Entries(h) = A \cup B /\ A \cap B = {} /\ A \in SUBSET Entries(h)
    BY DEF Entries, EntriesIn
  <2>2. IsFiniteSet(B) /\ Cardinality(B) = Len(h[p]) /\ Len(h[p]) \in Nat
    BY OwnEntries
  <2> HIDE DEF A, B
  <2>3. IsFiniteSet(A)
    BY <2>1, EntriesAreFinite, FS_Subset
  <2>4. Cardinality(A \cup B) = Cardinality(A) + Cardinality(B) - Cardinality({})
    BY <2>1, <2>2, <2>3, FS_Union
  <2>5. Cardinality({}) = 0 /\ Cardinality(A) \in Nat
    BY <2>3, FS_EmptySet, FS_CardinalityType
  <2>6. Cardinality(A \cup B) = Cardinality(A) + Len(h[p])
    BY <2>2, <2>4, <2>5
  <2>7. Cardinality(Entries(h)) = Cardinality(A) + Len(h[p])
    BY <2>1, <2>6
  <2> QED BY <2>2, <2>5, <2>7 DEF A
<1>2. EntriesIn(O, g) = EntriesIn(O, f)
  BY DEF EntriesIn
<1> HIDE DEF O
<1>3. /\ Cardinality(Entries(f)) = Cardinality(EntriesIn(O, f)) + Len(f[p])
      /\ Cardinality(EntriesIn(O, f)) \in Nat /\ Len(f[p]) \in Nat
  BY <1>1
<1>4. /\ Cardinality(Entries(g)) = Cardinality(EntriesIn(O, f)) + Len(g[p])
      /\ Len(g[p]) \in Nat
  BY <1>1, <1>2
<1> QED BY <1>3, <1>4

(* The pointers of the lists stay PCBs or null, whatever is inserted and   *)
(* detached where.                                                         *)
LEMMA PointersTyped ==
  ASSUME NEW L \in LL!Store, NEW h \in Heads, NEW x \in PCB
  PROVE  /\ \A b \in PCB \cup {NULL} : LL!List_insert(L, h, b, x) \in LL!Store
         /\ LL!Enlist(L, h, x) \in LL!Store
         /\ LL!List_detach(L, h, x) \in LL!Store
         /\ LL!Fresh(L, x) \in LL!Store
<1> DEFINE P == PCB \cup {NULL}
<1>1. /\ L.first \in [Heads -> P] /\ L.last \in [Heads -> P] /\ L.size \in [Heads -> Int]
      /\ L.next \in [PCB -> P] /\ L.prev \in [PCB -> P]
  BY DEF LL!Store, Heads
<1>2. ASSUME NEW f \in [PCB -> P], NEW y \in P, NEW z \in P
      PROVE  LL!At(f, y, z) \in [PCB -> P]
  BY DEF LL!At
<1>3. ASSUME NEW M \in LL!Store
      PROVE  /\ \A f \in [PCB -> P] : [M EXCEPT !.next = f] \in LL!Store
             /\ \A f \in [PCB -> P] : [M EXCEPT !.prev = f] \in LL!Store
             /\ \A v \in P : [M EXCEPT !.first[h] = v] \in LL!Store
             /\ \A v \in P : [M EXCEPT !.last[h] = v] \in LL!Store
             /\ \A v \in Int : [M EXCEPT !.size[h] = v] \in LL!Store
             /\ M.first[h] \in P /\ M.last[h] \in P /\ M.size[h] \in Int
  BY DEF LL!Store, Heads
<1>4. ASSUME NEW b \in P PROVE LL!List_insert(L, h, b, x) \in LL!Store
  <2> DEFINE next  == IF b = NULL THEN L.first[h] ELSE L.next[b]
             prev1 == IF b = NULL THEN L.prev ELSE [L.prev EXCEPT ![x] = b]
             next1 == LL!At(L.next, b, x)
             next2 == IF next = NULL THEN next1 ELSE [next1 EXCEPT ![x] = next]
             prev2 == LL!At(prev1, next, x)
             A     == [L EXCEPT !.prev = prev2]
             B     == [A EXCEPT !.next = next2]
             C     == [B EXCEPT !.first[h] = IF b = NULL THEN x ELSE B.first[h]]
             D     == [C EXCEPT !.last[h] = IF next = NULL THEN x ELSE C.last[h]]
             E     == [D EXCEPT !.size[h] = D.size[h] + 1]
  <2>1. next \in P /\ prev1 \in [PCB -> P] /\ next1 \in [PCB -> P]
    BY <1>1, <1>2
  <2>2. next2 \in [PCB -> P] /\ prev2 \in [PCB -> P]
    BY <1>2, <2>1
  <2>3. LL!List_insert(L, h, b, x) = IF LL!Linked(L, x) THEN L ELSE E
    BY DEF LL!List_insert
  <2> HIDE DEF prev2, next2, next
  <2>4. A \in LL!Store
    BY <1>3, <2>2
  <2> HIDE DEF A
  <2>5. B \in LL!Store
    BY <1>3, <2>2, <2>4
  <2> HIDE DEF B
  <2>6. C \in LL!Store
    BY <1>3, <2>5
  <2> HIDE DEF C
  <2>7. D \in LL!Store
    BY <1>3, <2>6
  <2> HIDE DEF D
  <2>8. E \in LL!Store
    <3>1. D.size[h] + 1 \in Int
      BY <1>3, <2>7
    <3> QED BY <1>3, <2>7, <3>1
  <2> QED BY <2>3, <2>8
<1>5. LL!Enlist(L, h, x) \in LL!Store
  <2>1. L.last[h] \in P
    BY <1>3
  <2> QED BY <1>4, <2>1 DEF LL!Enlist
<1>6. LL!List_detach(L, h, x) \in LL!Store
  <2> DEFINE prev == L.prev[x]
             next == L.next[x]
             nx   == [LL!At(L.next, prev, next) EXCEPT ![x] = NULL]
             A    == [L EXCEPT !.next = nx]
             pr   == [LL!At(A.prev, next, prev) EXCEPT ![x] = NULL]
             B    == [A EXCEPT !.prev = pr]
             C    == [B EXCEPT !.first[h] = IF x = B.first[h] THEN next ELSE B.first[h]]
             D    == [C EXCEPT !.last[h] = IF x = C.last[h] THEN prev ELSE C.last[h]]
             E    == [D EXCEPT !.size[h] = D.size[h] - 1]
  <2>1. prev \in P /\ next \in P
    BY <1>1
  <2>2. nx \in [PCB -> P]
    BY <1>1, <1>2, <2>1
  <2>3. LL!List_detach(L, h, x) = E
    BY DEF LL!List_detach
  <2> HIDE DEF prev, next, nx
  <2>4. A \in LL!Store
    BY <1>3, <2>2
  <2> HIDE DEF A
  <2>5. pr \in [PCB -> P]
    <3>1. A.prev \in [PCB -> P]
      BY <2>4 DEF LL!Store
    <3> QED BY <1>2, <2>1, <3>1
  <2> HIDE DEF pr
  <2>6. B \in LL!Store
    BY <1>3, <2>4, <2>5
  <2> HIDE DEF B
  <2>7. C \in LL!Store
    BY <1>3, <2>1, <2>6
  <2> HIDE DEF C
  <2>8. D \in LL!Store
    BY <1>3, <2>1, <2>7
  <2> HIDE DEF D
  <2>9. E \in LL!Store
    <3>1. D.size[h] - 1 \in Int
      BY <1>3, <2>8
    <3> QED BY <1>3, <2>8, <3>1
  <2> QED BY <2>3, <2>9
<1>7. LL!Fresh(L, x) \in LL!Store
  <2>1. [L.next EXCEPT ![x] = NULL] \in [PCB -> P] /\ [L.prev EXCEPT ![x] = NULL] \in [PCB -> P]
    BY <1>1
  <2> QED BY <1>1, <2>1 DEF LL!Fresh, LL!Store
<1> QED BY <1>4, <1>5, <1>6, <1>7

---------------------------------------------------------------------------
(* The timers, in whatever order. *)
LEMMA TimersTyped ==
  ASSUME timer_list \in Seq(Timer)
  PROVE  /\ Tick \in Seq(Timer)
         /\ running \in PCB => \A n \in Nat : TimerList_add(n) \in Seq(Timer)
<1> DEFINE q == timer_list
           m == Len(q)
<1>1. m \in Nat /\ DOMAIN q = 1 .. m /\ \A i \in 1 .. m : q[i] \in Timer
  OBVIOUS
<1>2. Tick \in Seq(Timer)
  <2>1. ASSUME NEW i \in 1 .. m PROVE Tick[i] \in Timer
    <3> DEFINE r == q[i]
    <3>1. r \in Timer /\ Tick[i] = [r EXCEPT !.left = IF @ > 0 THEN @ - 1 ELSE 0]
      BY <1>1 DEF Tick
    <3> HIDE DEF r
    <3>2. (IF r.left > 0 THEN r.left - 1 ELSE 0) \in Nat
      BY <3>1 DEF Timer
    <3> QED BY <3>1, <3>2 DEF Timer
  <2>2. Tick = [i \in 1 .. m |-> Tick[i]]
    BY <1>1 DEF Tick
  <2> HIDE DEF m
  <2> QED BY <1>1, <2>1, <2>2
<1>3. ASSUME running \in PCB, NEW n \in Nat PROVE TimerList_add(n) \in Seq(Timer)
  <2> DEFINE S == {i \in DOMAIN timer_list : timer_list[i].left <= n}
             k == Cardinality(S)
             e == [left |-> n, pcb |-> running]
  <2>1. e \in Timer
    BY <1>3 DEF Timer
  <2>2. S \in SUBSET (1 .. m)
    BY <1>1
  <2> HIDE DEF S, m
  <2>3. IsFiniteSet(1 .. m) /\ Cardinality(1 .. m) = m
    BY <1>1, FS_Interval
  <2>4. IsFiniteSet(S) /\ Cardinality(S) <= m
    BY <2>2, <2>3, FS_Subset
  <2>5. Cardinality(S) \in Nat
    BY <2>4, FS_CardinalityType
  <2> HIDE DEF e
  <2>6. k + 1 \in 1 .. m + 1
    BY <1>1, <2>4, <2>5
  <2>7. InsertAt(q, k + 1, e) \in Seq(Timer)
    BY <2>1, <2>6, InsertAtElements DEF m
  <2> QED BY <2>7 DEF TimerList_add, S, e
<1> QED BY <1>2, <1>3

(* The recursive function that drops the timers of a dying process. *)
Keep(f, k) ==
  [i \in 0 .. k |-> IF i = 0 THEN <<>>
                    ELSE IF timer_list[i].pcb = running THEN f[i - 1]
                    ELSE Append(f[i - 1], timer_list[i])]

LEMMA KeptFunction ==
  ASSUME NEW n \in Nat
  PROVE  \E f : f = Keep(f, n)
<1> DEFINE S == {k \in 0 .. n : \E f : f = Keep(f, k)}
           next(s, i) == IF timer_list[i].pcb = running THEN s ELSE Append(s, timer_list[i])
<1>1. 0 \in S
  <2> DEFINE g == [i \in 0 .. 0 |-> <<>>]
  <2>1. g = Keep(g, 0)
    BY DEF Keep
  <2> HIDE DEF g
  <2> QED BY <2>1
<1>2. ASSUME NEW k \in S, k < n PROVE k + 1 \in S
  <2>0. k \in 0 .. n /\ k + 1 \in 0 .. n
    BY <1>2
  <2>1. PICK f : f = Keep(f, k)
    OBVIOUS
  <2>2. \A i \in 0 .. k : f[i] = IF i = 0 THEN <<>> ELSE next(f[i - 1], i)
    BY <2>1 DEF Keep
  <2> HIDE DEF next
  <2> DEFINE g == [i \in 0 .. k + 1 |-> IF i = k + 1 THEN next(f[k], k + 1) ELSE f[i]]
  <2>3. \A i \in 0 .. k + 1 : g[i] = IF i = 0 THEN <<>> ELSE next(g[i - 1], i)
    <3> TAKE i \in 0 .. k + 1
    <3>1. CASE i = k + 1
      <4>1. i - 1 = k /\ k \in 0 .. k + 1 /\ k # k + 1 /\ i # 0
        BY <2>0, <3>1
      <4> QED BY <3>1, <4>1
    <3>2. CASE i # k + 1
      <4>1. i \in 0 .. k /\ (i # 0 => i - 1 \in 0 .. k + 1 /\ i - 1 # k + 1)
        BY <2>0, <3>2
      <4> QED BY <2>2, <3>2, <4>1
    <3> QED BY <3>1, <3>2
  <2>4. g = Keep(g, k + 1)
    BY <2>3 DEF Keep, next
  <2> HIDE DEF g
  <2> QED BY <2>0, <2>4
<1>3. n \in S
  <2>1. S \in SUBSET (0 .. n)
    OBVIOUS
  <2> HIDE DEF S
  <2> QED BY <1>1, <1>2, <2>1, Induction
<1> QED BY <1>3

LEMMA KeptTyped ==
  ASSUME timer_list \in Seq(Timer)
  PROVE  TimersKept \in Seq(Timer)
<1> DEFINE n == Len(timer_list)
           w == CHOOSE f : f = Keep(f, n)
           S == {i \in 0 .. n : w[i] \in Seq(Timer)}
<1>1. n \in Nat /\ \A i \in 1 .. n : timer_list[i] \in Timer
  OBVIOUS
<1>2. TimersKept = w[n]
  BY DEF TimersKept, Keep
<1>3. w = Keep(w, n)
  BY <1>1, KeptFunction
<1> HIDE DEF w, n
<1>4. \A i \in 0 .. n : w[i] = IF i = 0 THEN <<>>
                               ELSE IF timer_list[i].pcb = running THEN w[i - 1]
                               ELSE Append(w[i - 1], timer_list[i])
  BY <1>3 DEF Keep
<1>5. 0 \in S
  <2>1. 0 \in 0 .. n /\ w[0] = <<>>
    BY <1>1, <1>4
  <2>2. <<>> \in Seq(Timer)
    OBVIOUS
  <2> QED BY <2>1, <2>2
<1>6. ASSUME NEW i \in S, i < n PROVE i + 1 \in S
  <2>1. i + 1 \in 1 .. n /\ (i + 1) - 1 = i /\ i + 1 # 0 /\ i + 1 \in 0 .. n
    BY <1>1, <1>6
  <2>2. w[i] \in Seq(Timer) /\ timer_list[i + 1] \in Timer
    BY <1>1, <2>1
  <2>3. w[i + 1] = IF timer_list[i + 1].pcb = running THEN w[i] ELSE Append(w[i], timer_list[i + 1])
    BY <1>4, <2>1
  <2>4. Append(w[i], timer_list[i + 1]) \in Seq(Timer)
    BY <2>2, AppendElements
  <2>5. w[i + 1] \in Seq(Timer)
    BY <2>2, <2>3, <2>4
  <2> QED BY <2>1, <2>5
<1>7. n \in S
  <2>1. S \in SUBSET (0 .. n)
    OBVIOUS
  <2> HIDE DEF S
  <2> QED BY <1>1, <1>5, <1>6, <2>1, Induction
<1> QED BY <1>2, <1>7

---------------------------------------------------------------------------
(* The scheduler, whatever the lists hold. *)
LEMMA AwakeTyped ==
  ASSUME lists \in LL!Store, NEW timers \in Seq(Timer)
  PROVE  /\ Awake(timers) \in LL!Store
         /\ Due(timers) \in 0 .. Len(timers)
         /\ SubSeq(timers, Due(timers) + 1, Len(timers)) \in Seq(Timer)
<1> DEFINE m == Len(timers)
           n == Due(timers)
           w == Wake(timers)
           S == {k \in 0 .. n : w[k] \in LL!Store}
<1>1. m \in Nat /\ DOMAIN timers = 1 .. m /\ \A i \in 1 .. m : timers[i] \in Timer
  OBVIOUS
<1>2. n \in 0 .. m
  <2> DEFINE D == {i \in DOMAIN timers : timers[i].left <= 0}
  <2>1. D \in SUBSET (1 .. m)
    BY <1>1
  <2> HIDE DEF D, m
  <2>2. IsFiniteSet(1 .. m) /\ Cardinality(1 .. m) = m
    BY <1>1, FS_Interval
  <2>3. IsFiniteSet(D) /\ Cardinality(D) <= m
    BY <2>1, <2>2, FS_Subset
  <2>4. Cardinality(D) \in Nat
    BY <2>3, FS_CardinalityType
  <2> QED BY <1>1, <2>3, <2>4 DEF Due, D
<1>3. SubSeq(timers, n + 1, m) \in Seq(Timer)
  <2>1. n + 1 \in Int /\ m \in Int /\ \A i \in n + 1 .. m : i \in 1 .. m /\ timers[i] \in Timer
    BY <1>1, <1>2
  <2> HIDE DEF n, m
  <2> QED BY <2>1, SubSeqProperties
<1>4. \A i \in 1 .. n : Woken(timers, i) \in PCB
  <2>1. \A t \in Timer : t.pcb \in PCB
    BY DEF Timer
  <2>2. \A i \in 1 .. n : i # 0 /\ i \in 1 .. m
    BY <1>1, <1>2
  <2> QED BY <1>1, <2>1, <2>2 DEF Woken
<1>5. n \in Nat /\ w = Moves(timers, w, n)
  BY <1>1, <1>2, WakeFunction
<1> HIDE DEF w, n, m
<1>6. \A k \in 0 .. n : w[k] = IF k = 0 THEN lists ELSE Moved(w[k - 1], timers, k)
  BY <1>5 DEF Moves
<1>7. 0 \in S
  <2>1. 0 \in 0 .. n /\ w[0] = lists
    BY <1>5, <1>6
  <2> QED BY <2>1
<1>8. ASSUME NEW k \in S, k < n PROVE k + 1 \in S
  <2> DEFINE p == Woken(timers, k + 1)
             M == LL!List_detach(w[k], "waiting", p)
  <2>1. k + 1 \in 1 .. n /\ (k + 1) - 1 = k /\ k + 1 # 0 /\ k + 1 \in 0 .. n /\ k \in 0 .. n
    BY <1>5, <1>8
  <2>2. w[k] \in LL!Store /\ p \in PCB /\ "waiting" \in Heads /\ "ready" \in Heads
    BY <1>4, <2>1 DEF Heads
  <2>3. Woken(timers, k) \in PCB \cup {NULL}
    <3>1. CASE k = 0
      BY <3>1 DEF Woken
    <3>2. CASE k # 0
      <4>1. k \in 1 .. n
        BY <2>1, <3>2
      <4> QED BY <1>4, <4>1
    <3> QED BY <3>1, <3>2
  <2>4. w[k + 1] = LL!List_insert(M, "ready", Woken(timers, k), p)
    BY <1>6, <2>1 DEF Moved
  <2> HIDE DEF p
  <2>5. M \in LL!Store
    BY <2>2, PointersTyped
  <2> HIDE DEF M
  <2>6. w[k + 1] \in LL!Store
    BY <2>2, <2>3, <2>4, <2>5, PointersTyped
  <2> QED BY <2>1, <2>6
<1>9. n \in S
  <2>1. S \in SUBSET (0 .. n)
    OBVIOUS
  <2> HIDE DEF S
  <2> QED BY <1>5, <1>7, <1>8, <2>1, Induction
<1> QED BY <1>2, <1>3, <1>9 DEF Awake, w, n, m

---------------------------------------------------------------------------
(* What the pools need. *)
PoolTypes ==
  /\ running \in PCB \cup {NULL} /\ (InUser => running # NULL) /\ init_pcb \in PCB
  /\ last_pid \in 0 .. MaxPid + 1 /\ pcb \in [PCB -> PCBRecord] /\ lists \in LL!Store
  /\ timer_list \in Seq(Timer)
  /\ pcb_free \in Seq(PCB) /\ NoneTwice /\ pcbptr_free \in Nat

EntryCount == Cardinality(Entries(ChildLists))

PoolInv == PoolTypes /\ pcbptr_free + EntryCount <= MAX_NUM_PROCESSES

LEMMA ChildListsTyped ==
  ASSUME NEW f \in [PCB -> PCBRecord]
  PROVE  [p \in PCB |-> f[p].children] \in [PCB -> Seq(PCB)]
BY DEF PCBRecord

LEMMA PoolInvImplies == PoolInv => PoolsConsistent
<1> SUFFICES ASSUME PoolInv PROVE PoolsConsistent
  OBVIOUS
<1>1. UNION {{p} \X DOMAIN pcb[p].children : p \in PCB} = Entries(ChildLists)
  BY DEF Entries, EntriesIn, ChildLists
<1> QED BY <1>1 DEF PoolInv, PoolTypes, PoolsConsistent, EntryCount, NoneTwice

(* The lists of children of f and g differ at most in that of p. *)
Differ(f, g, p) == \A q \in PCB : q # p => g[q].children = f[q].children
CountOf(f) == Cardinality(Entries([p \in PCB |-> f[p].children]))

LEMMA CountChanges ==
  ASSUME NEW f \in [PCB -> PCBRecord], NEW g \in [PCB -> PCBRecord], NEW p \in PCB, Differ(f, g, p)
  PROVE  /\ CountOf(f) \in Nat /\ CountOf(g) \in Nat /\ CountOf(f) >= Len(f[p].children)
         /\ CountOf(g) = CountOf(f) - Len(f[p].children) + Len(g[p].children)
<1> DEFINE a == [q \in PCB |-> f[q].children]
           b == [q \in PCB |-> g[q].children]
<1>1. a \in [PCB -> Seq(PCB)] /\ b \in [PCB -> Seq(PCB)]
  BY ChildListsTyped
<1>2. a[p] = f[p].children /\ b[p] = g[p].children /\ \A q \in PCB : q # p => b[q] = a[q]
  BY DEF Differ
<1> HIDE DEF a, b
<1>3. /\ Cardinality(Entries(a)) \in Nat /\ Cardinality(Entries(b)) \in Nat
      /\ Cardinality(Entries(a)) >= Len(a[p])
      /\ Cardinality(Entries(b)) = Cardinality(Entries(a)) - Len(a[p]) + Len(b[p])
  BY <1>1, <1>2, EntriesChange
<1> QED BY <1>2, <1>3 DEF CountOf, a, b

LEMMA CountSame ==
  ASSUME NEW f, NEW g, \A p \in PCB : g[p].children = f[p].children
  PROVE  CountOf(g) = CountOf(f)
BY DEF CountOf

LEMMA CountIsNat ==
  ASSUME NEW f \in [PCB -> PCBRecord]
  PROVE  CountOf(f) \in Nat
<1>1. Differ(f, f, 1) /\ 1 \in PCB
  BY MaxProcessesAssumption DEF Differ, PCB
<1> QED BY <1>1, CountChanges

LEMMA CountNow == EntryCount = CountOf(pcb) /\ EntryCount' = CountOf(pcb')
BY DEF EntryCount, CountOf, ChildLists

---------------------------------------------------------------------------
(* The PCBs g have the pids, parents and children of f. *)
SameKin(f, g) ==
  \A p \in PCB : g[p].pid = f[p].pid /\ g[p].parent = f[p].parent /\ g[p].children = f[p].children

(* A step that leaves the pools and the families alone. *)
Rearranges ==
  /\ UNCHANGED <<init_pcb, last_pid, pcb_free, pcbptr_free>>
  /\ running' \in PCB \cup {NULL} /\ (InUser' => running' # NULL)
  /\ lists' \in LL!Store /\ timer_list' \in Seq(Timer)
  /\ pcb' \in [PCB -> PCBRecord] /\ SameKin(pcb, pcb')

LEMMA PoolsSame ==
  ASSUME PoolInv, Rearranges
  PROVE  PoolInv'
<1>1. EntryCount' = EntryCount
  BY CountNow, CountSame DEF Rearranges, SameKin
<1>2. PoolTypes'
  BY DEF PoolInv, PoolTypes, Rearranges, NoneTwice
<1> QED BY <1>1, <1>2 DEF PoolInv, Rearranges

LEMMA PoolBasics ==
  ASSUME PoolInv
  PROVE  /\ running \in PCB \cup {NULL} /\ (InUser => running \in PCB) /\ init_pcb \in PCB
         /\ lists \in LL!Store /\ timer_list \in Seq(Timer) /\ pcb \in [PCB -> PCBRecord]
         /\ pcb_free \in Seq(PCB) /\ NoneTwice /\ pcbptr_free \in Nat
         /\ CountOf(pcb) \in Nat /\ pcbptr_free + CountOf(pcb) <= MAX_NUM_PROCESSES
         /\ MAX_NUM_PROCESSES \in Nat
         /\ FirstReady \in PCB \cup {NULL} /\ "ready" \in Heads /\ "waiting" \in Heads
<1>1. FirstReady \in PCB \cup {NULL} /\ "ready" \in Heads /\ "waiting" \in Heads
  BY DEF PoolInv, PoolTypes, FirstReady, LL!Store, Heads
<1>2. CountOf(pcb) \in Nat
  BY CountIsNat DEF PoolInv, PoolTypes
<1> QED BY <1>1, <1>2, CountNow, PCBsAreFinite DEF PoolInv, PoolTypes

(* The arguments of a call change nothing that the pools rest on. *)
LEMMA ArgumentsWritten ==
  ASSUME PoolInv, InUser, NEW arg \in WaitArgs \cup {NoWait}
  PROVE  AssignsAwaiting(pcb, Called(arg), running, arg)
<1>1. pcb \in [PCB -> PCBRecord] /\ running \in PCB
  BY PoolBasics
<1>2. AssignsAwaiting(pcb, [pcb EXCEPT ![running].awaiting = arg], running, arg)
  BY <1>1, FieldAssigned
<1> QED BY <1>2 DEF Called

(* A call that also sets the status of one process. *)
LEMMA StatusWritten ==
  ASSUME PoolInv, InUser, NEW arg \in WaitArgs \cup {NoWait}, NEW p \in PCB, NEW s \in Statuses
  PROVE  /\ [Called(arg) EXCEPT ![p].status = s] \in [PCB -> PCBRecord]
         /\ SameKin(pcb, [Called(arg) EXCEPT ![p].status = s])
<1> DEFINE f == Called(arg)
           g == [f EXCEPT ![p].status = s]
<1>1. AssignsAwaiting(pcb, f, running, arg)
  BY ArgumentsWritten
<1>2. f \in [PCB -> PCBRecord]
  BY <1>1 DEF AssignsAwaiting
<1> HIDE DEF f
<1>3. AssignsStatus(f, g, p, s)
  BY <1>2, FieldAssigned
<1> HIDE DEF g
<1>4. g \in [PCB -> PCBRecord] /\ SameKin(pcb, g)
  BY <1>1, <1>3 DEF AssignsAwaiting, AssignsStatus, SameKin
<1> QED BY <1>4 DEF f, g

(* Nothing of the process side but the machine's mode changes, and the     *)
(* machine does not come to run a process.                                 *)
LEMMA QuietRearranges ==
  ASSUME PoolInv, UNCHANGED procVars, InUser' => InUser
  PROVE  Rearranges
<1>1. Rearranges
  BY PoolBasics, PCBsAreFinite DEF procVars, Rearranges, SameKin
<1> QED BY <1>1

LEMMA CallRearranges ==
  ASSUME PoolInv, InUser, NEW arg \in WaitArgs \cup {NoWait}, pcb' = Called(arg),
         UNCHANGED <<running, init_pcb, last_pid, lists, timer_list, pcb_free, pcbptr_free>>
  PROVE  Rearranges
<1>1. AssignsAwaiting(pcb, pcb', running, arg)
  BY ArgumentsWritten
<1>2. pcb' \in [PCB -> PCBRecord] /\ SameKin(pcb, pcb')
  BY <1>1 DEF AssignsAwaiting, SameKin
<1> QED BY <1>2, PoolBasics, PCBsAreFinite DEF Rearranges

(* The calls of the other two subsystems. *)
LEMMA SemCallRearranges ==
  ASSUME PoolInv, NEW p \in PCB, SemCall(p)
  PROVE  Rearranges
<1>1. InUser /\ p = running /\ NoWait \in WaitArgs \cup {NoWait}
  BY DEF SemCall, OpenCall, WaitCall, PostCall, CloseCall, SemWaitBlocks, SemPostReadies, Calls
<1>2. CASE OnlyCalled
  BY <1>1, <1>2, CallRearranges DEF OnlyCalled
<1>3. ASSUME NEW fd \in 0 .. MaxFd, SemWaitBlocks(p, fd) PROVE Rearranges
  <2>1. "Waiting" \in Statuses
    BY DEF Statuses
  <2>2. pcb' \in [PCB -> PCBRecord] /\ SameKin(pcb, pcb')
    BY <1>1, <1>3, <2>1, StatusWritten DEF SemWaitBlocks
  <2>3. lists' \in LL!Store
    BY <1>3, PoolBasics, PointersTyped DEF SemWaitBlocks
  <2> QED BY <1>1, <1>3, <2>2, <2>3, PoolBasics, PCBsAreFinite DEF SemWaitBlocks, Rearranges
<1>4. ASSUME NEW fd \in 0 .. MaxFd, NEW w \in PCB, SemPostReadies(p, fd, w) PROVE Rearranges
  <2>1. "Ready" \in Statuses
    BY DEF Statuses
  <2>2. pcb' \in [PCB -> PCBRecord] /\ SameKin(pcb, pcb')
    BY <1>1, <1>4, <2>1, StatusWritten DEF SemPostReadies
  <2>3. LL!List_detach(lists, "waiting", w) \in LL!Store
    BY PoolBasics, PointersTyped
  <2>4. lists' \in LL!Store
    BY <1>4, <2>3, PoolBasics, PointersTyped DEF SemPostReadies
  <2> QED BY <1>1, <1>4, <2>2, <2>4, PoolBasics, PCBsAreFinite DEF SemPostReadies, Rearranges
<1> QED BY <1>2, <1>3, <1>4 DEF SemCall, OpenCall, WaitCall, PostCall, CloseCall

LEMMA ResCallRearranges ==
  ASSUME PoolInv, NEW p \in PCB, ResCall(p)
  PROVE  Rearranges
<1>1. InUser /\ OnlyCalled /\ NoWait \in WaitArgs \cup {NoWait}
  BY DEF ResCall, Calls
<1> QED BY <1>1, CallRearranges DEF OnlyCalled

---------------------------------------------------------------------------
(* The calls of process control that leave the families alone. *)
LEMMA SleepRearranges ==
  ASSUME PoolInv, NEW n \in SleepTimes, SleepSwitches(n) \/ SleepNobodyReady(n)
  PROVE  Rearranges
<1>1. /\ InUser /\ NoWait \in WaitArgs \cup {NoWait} /\ "Waiting" \in Statuses /\ n \in Nat
      /\ UNCHANGED <<init_pcb, last_pid, pcb_free, pcbptr_free>>
  BY ProcConstantsAssumption DEF SleepSwitches, SleepNobodyReady, FallsAsleep, Statuses
<1>2. pcb' \in [PCB -> PCBRecord] /\ SameKin(pcb, pcb')
  <2>1. running \in PCB
    BY <1>1, PoolBasics
  <2>2. pcb' = [Called(NoWait) EXCEPT ![running].status = "Waiting"]
    BY DEF SleepSwitches, SleepNobodyReady, FallsAsleep
  <2> QED BY <1>1, <2>1, <2>2, StatusWritten
<1>3. timer_list' \in Seq(Timer)
  <2>1. timer_list' = TimerList_add(n)
    BY DEF SleepSwitches, SleepNobodyReady, FallsAsleep
  <2> QED BY <1>1, <2>1, PoolBasics, TimersTyped
<1>4. LL!Enlist(lists, "waiting", running) \in LL!Store
  BY <1>1, PoolBasics, PointersTyped
<1>5. CASE SleepSwitches(n)
  <2>1. FirstReady \in PCB /\ running' = FirstReady
    BY <1>5, PoolBasics DEF SleepSwitches, SwitchTo
  <2>2. lists' \in LL!Store
    BY <1>4, <1>5, <2>1, PoolBasics, PointersTyped DEF SleepSwitches
  <2> QED BY <1>1, <1>2, <1>3, <2>1, <2>2, PCBsAreFinite DEF Rearranges
<1>6. CASE SleepNobodyReady(n)
  <2>1. running' = NULL /\ ~ InUser' /\ lists' \in LL!Store
    BY <1>4, <1>6 DEF SleepNobodyReady, InUser
  <2> QED BY <1>1, <1>2, <1>3, <2>1 DEF Rearranges
<1> QED BY <1>5, <1>6

LEMMA WaitRearranges ==
  ASSUME PoolInv, NEW k \in WaitArgs, NEW i, WaitBlocks(k, i)
  PROVE  Rearranges
<1>1. /\ InUser /\ k \in WaitArgs \cup {NoWait} /\ "Waiting" \in Statuses
      /\ FirstReady \in PCB /\ running' = FirstReady
  BY PoolBasics DEF WaitBlocks, Statuses, SwitchTo
<1>2. pcb' \in [PCB -> PCBRecord] /\ SameKin(pcb, pcb')
  <2>1. running \in PCB /\ pcb' = [Called(k) EXCEPT ![running].status = "Waiting"]
    BY <1>1, PoolBasics DEF WaitBlocks
  <2> QED BY <1>1, <2>1, StatusWritten
<1>3. LL!Enlist(lists, "waiting", running) \in LL!Store
  BY <1>1, PoolBasics, PointersTyped
<1>4. lists' \in LL!Store
  BY <1>1, <1>3, PoolBasics, PointersTyped DEF WaitBlocks
<1> QED BY <1>1, <1>2, <1>4, PoolBasics, PCBsAreFinite DEF WaitBlocks, Rearranges

LEMMA ScheduleRearranges ==
  ASSUME PoolInv, running \in PCB, NEW timers \in Seq(Timer), NEW before \in [PCB -> PCBRecord],
         SameKin(pcb, before), Schedule(timers, before)
  PROVE  Rearranges
<1> DEFINE L == Awake(timers)
           next == L.first["ready"]
           f == Roused(timers, before)
<1>1. L \in LL!Store /\ SubSeq(timers, Due(timers) + 1, Len(timers)) \in Seq(Timer)
  BY PoolBasics, AwakeTyped
<1>2. f \in [PCB -> PCBRecord] /\ SameKin(pcb, f)
  BY RousedFields DEF SameKin
<1>3. /\ timer_list' = SubSeq(timers, Due(timers) + 1, Len(timers))
      /\ UNCHANGED <<init_pcb, last_pid, pcb_free, pcbptr_free>>
      /\ \/ /\ next = NULL
            /\ lists' = L /\ pcb' = f /\ UNCHANGED <<running, mode>>
         \/ /\ next # NULL
            /\ lists' = LL!Enlist(LL!List_detach(L, "ready", next), "ready", running)
            /\ pcb' = [f EXCEPT ![running].status = "Ready", ![next].status = "Running"]
            /\ running' = next
  BY ScheduleUnfolded
<1>4. next \in PCB \cup {NULL}
  BY <1>1 DEF LL!Store
<1> HIDE DEF L, next, f
<1>5. CASE next = NULL
  BY <1>1, <1>2, <1>3, <1>5, PoolBasics, PCBsAreFinite DEF Rearranges
<1>6. CASE next # NULL
  <2> DEFINE g == [f EXCEPT ![running].status = "Ready"]
             h == [g EXCEPT ![next].status = "Running"]
  <2>1. "Ready" \in Statuses /\ "Running" \in Statuses /\ next \in PCB
    BY <1>4, <1>6 DEF Statuses
  <2>2. AssignsStatus(f, g, running, "Ready")
    BY <1>2, <2>1, FieldAssigned
  <2>3. pcb' = h
    BY <1>3, <1>6
  <2> HIDE DEF g
  <2>4. AssignsStatus(g, h, next, "Running")
    <3>1. g \in [PCB -> PCBRecord]
      BY <2>2 DEF AssignsStatus
    <3> QED BY <2>1, <3>1, FieldAssigned
  <2> HIDE DEF h
  <2>5. pcb' \in [PCB -> PCBRecord] /\ SameKin(pcb, pcb')
    BY <1>2, <2>2, <2>3, <2>4 DEF AssignsStatus, SameKin
  <2>6. LL!List_detach(L, "ready", next) \in LL!Store
    BY <1>1, <2>1, PoolBasics, PointersTyped
  <2>7. LL!Enlist(LL!List_detach(L, "ready", next), "ready", running) \in LL!Store
    BY <2>6, PoolBasics, PointersTyped
  <2> QED BY <1>1, <1>3, <1>6, <2>1, <2>5, <2>7, PCBsAreFinite DEF Rearranges
<1> QED BY <1>5, <1>6

LEMMA PreemptRearranges ==
  ASSUME PoolInv, Preempt \/ TimerInterrupt
  PROVE  Rearranges
<1>1. CASE Preempt
  <2>1. InUser /\ Schedule(timer_list, Called(NoWait)) /\ NoWait \in WaitArgs \cup {NoWait}
    BY <1>1 DEF Preempt
  <2>2. AssignsAwaiting(pcb, Called(NoWait), running, NoWait)
    BY <2>1, ArgumentsWritten
  <2>3. /\ Called(NoWait) \in [PCB -> PCBRecord] /\ running \in PCB /\ timer_list \in Seq(Timer)
        /\ SameKin(pcb, Called(NoWait))
    BY <2>1, <2>2, PoolBasics DEF AssignsAwaiting, SameKin
  <2> QED BY <2>1, <2>3, ScheduleRearranges
<1>2. CASE TimerInterrupt
  <2>1. Schedule(Tick, pcb) /\ running \in PCB /\ pcb \in [PCB -> PCBRecord] /\ Tick \in Seq(Timer)
          /\ SameKin(pcb, pcb)
    BY <1>2, PoolBasics, TimersTyped DEF TimerInterrupt, SameKin
  <2> QED BY <2>1, ScheduleRearranges
<1> QED BY <1>1, <1>2

(* The pool refuses a block that it has, so it never holds one twice, even *)
(* if a process dies twice.                                                *)
LEMMA PoolReleased ==
  ASSUME PoolInv, NEW c \in PCB, pcb_free' = Released(c)
  PROVE  pcb_free' \in Seq(PCB) /\ NoneTwice' /\ Free' = Free \cup {c}
<1>1. CASE c \in Free
  <2>1. pcb_free' = pcb_free
    BY <1>1 DEF Free, Released
  <2> QED BY <1>1, <2>1, PoolBasics DEF Free, NoneTwice
<1>2. CASE c \notin Free
  BY <1>2, PoolBasics, BlockFreed
<1> QED BY <1>1, <1>2

(* A wait that finds a dead child gives back its PCB and its PCBPtr. *)
LEMMA PoolsWaitReaps ==
  ASSUME PoolInv, NEW k \in WaitArgs, NEW i, WaitReaps(k, i)
  PROVE  PoolInv'
<1> DEFINE q == pcb[running].children
           c == Child(i)
           f == Called(k)
<1>1. /\ InUser /\ running \in PCB /\ k \in WaitArgs \cup {NoWait}
      /\ pcb' = [f EXCEPT ![running].children = RemoveAt(q, i)]
      /\ lists' = LL!List_detach(lists, "zombie", c)
      /\ pcb_free' = Released(c) /\ pcbptr_free' = pcbptr_free + 1
      /\ UNCHANGED <<running, init_pcb, last_pid, timer_list>>
  BY PoolBasics DEF WaitReaps, ChildDetached, ZombieDetached
<1>2. q \in Seq(PCB) /\ Len(q) \in Nat /\ i \in 1 .. Len(q)
  <2>1. pcb[running] \in PCBRecord
    BY <1>1, PoolBasics
  <2>2. q \in Seq(PCB) /\ i \in 1 .. Len(q)
    BY <2>1 DEF WaitReaps, ScanEndsAt, PCBRecord
  <2> HIDE DEF q
  <2> QED BY <2>2
<1>3. c \in PCB
  BY <1>2 DEF Child
<1>4. RemoveAt(q, i) \in Seq(PCB) /\ Len(RemoveAt(q, i)) = Len(q) - 1
  BY <1>2, RemoveAtElements
<1>5. AssignsAwaiting(pcb, f, running, k)
  BY <1>1, ArgumentsWritten
<1> HIDE DEF q, c, f
<1>6. AssignsChildren(f, pcb', running, RemoveAt(q, i))
  <2>1. f \in [PCB -> PCBRecord]
    BY <1>5 DEF AssignsAwaiting
  <2> QED BY <1>1, <1>4, <2>1, FieldAssigned
<1>7. pcb' \in [PCB -> PCBRecord] /\ Differ(pcb, pcb', running) /\ pcb'[running].children = RemoveAt(q, i)
  BY <1>1, <1>5, <1>6 DEF AssignsAwaiting, AssignsChildren, Differ
<1>8. CountOf(pcb') = CountOf(pcb) - 1 /\ CountOf(pcb) \in Nat
  <2>1. Len(pcb[running].children) = Len(q) /\ Len(pcb'[running].children) = Len(q) - 1
    BY <1>4, <1>7 DEF q
  <2>2. /\ CountOf(pcb') = CountOf(pcb) - Len(pcb[running].children) + Len(pcb'[running].children)
        /\ CountOf(pcb) \in Nat
    BY <1>1, <1>7, PoolBasics, CountChanges
  <2> QED BY <1>2, <2>1, <2>2
<1>9. lists' \in LL!Store
  BY <1>1, <1>3, PoolBasics, PointersTyped DEF Heads
<1>10. pcb_free' \in Seq(PCB) /\ NoneTwice'
  BY <1>1, <1>3, PoolBasics, PoolReleased
<1>11. PoolTypes'
  BY <1>1, <1>7, <1>9, <1>10, PoolBasics, PCBsAreFinite DEF PoolInv, PoolTypes, NoneTwice
<1>12. pcbptr_free' + CountOf(pcb') <= MAX_NUM_PROCESSES
  BY <1>1, <1>8, PoolBasics
<1> QED BY <1>11, <1>12, CountNow DEF PoolInv

---------------------------------------------------------------------------
(* New processes and boots. *)
LEMMA PoolBlockTaken ==
  ASSUME PoolInv, NEW b \in PCB, TakesBlock(b),
         NEW parent \in PCB \cup {NULL}, NEW status \in Statuses
  PROVE  /\ pcb_free' \in Seq(PCB) /\ NoneTwice' /\ last_pid' \in 0 .. MaxPid + 1
         /\ b \in Free /\ Free' = Free \ {b}
         /\ NewPCBRecord(b, parent, status) \in PCBRecord
         /\ NewPCBRecord(b, parent, status).children = <<>>
         /\ NewPCBRecord(b, parent, status).pid = last_pid
         /\ NewPCBRecord(b, parent, status).parent = parent
<1>1. b \in Free /\ Free' = Free \ {b} /\ pcb_free' \in Seq(PCB) /\ NoneTwice'
  BY PoolBasics, HeadTaken
<1>2. last_pid \in 0 .. MaxPid /\ last_pid' \in 0 .. MaxPid + 1
  BY ProcConstantsAssumption DEF TakesBlock, PoolInv, PoolTypes
<1>3. pcb[b] \in PCBRecord
  BY PoolBasics
<1>4. last_pid \in 0 .. MaxPid
  BY <1>2
<1>5. parent \in PCB \cup {NULL} /\ status \in Statuses
  OBVIOUS
<1>6. NewPCBRecord(b, parent, status) \in PCBRecord
  BY <1>3, <1>4, <1>5, NewRecordFields, Zenon
<1>7. /\ NewPCBRecord(b, parent, status).children = <<>>
      /\ NewPCBRecord(b, parent, status).pid = last_pid
      /\ NewPCBRecord(b, parent, status).parent = parent
  BY <1>3 DEF NewPCBRecord, PCBRecord
<1> QED BY <1>1, <1>2, <1>6, <1>7

LEMMA PoolsNewChild ==
  ASSUME PoolInv, NEW b \in PCB, NewChild(b)
  PROVE  PoolInv'
<1> DEFINE c   == Called(NoWait)
           new == NewPCBRecord(b, running, "Ready")
           d   == [c EXCEPT ![b] = new]
           q   == Append(d[running].children, b)
<1>1. /\ InUser /\ InUser' /\ running \in PCB /\ running \in PCB \cup {NULL}
      /\ NoWait \in WaitArgs \cup {NoWait} /\ "Ready" \in Statuses /\ TakesBlock(b)
  BY PoolBasics DEF NewChild, Return, Statuses, InUser
<1>2. /\ pcb_free' \in Seq(PCB) /\ NoneTwice' /\ last_pid' \in 0 .. MaxPid + 1
      /\ new \in PCBRecord /\ new.children = <<>>
  BY <1>1, PoolBlockTaken
<1>3. AssignsAwaiting(pcb, c, running, NoWait)
  BY <1>1, ArgumentsWritten
<1>4. pcb' = [d EXCEPT ![running].children = q]
  BY DEF NewChild
<1> HIDE DEF c, new
<1>5. c \in [PCB -> PCBRecord] /\ CountOf(c) = CountOf(pcb)
  BY <1>3, CountSame DEF AssignsAwaiting
<1>6. /\ d \in [PCB -> PCBRecord] /\ d[b].children = <<>> /\ Differ(c, d, b)
      /\ \A p \in PCB : p # b => d[p] = c[p]
  BY <1>2, <1>5 DEF Differ
<1> HIDE DEF d
<1>7. c[running].children \in Seq(PCB) /\ c[b].children \in Seq(PCB) /\ d[running].children \in Seq(PCB)
  BY <1>1, <1>5, <1>6 DEF PCBRecord
<1> DEFINE old == d[running].children
<1>8. q \in Seq(PCB) /\ Len(q) = Len(old) + 1 /\ Len(old) \in Nat
  <2>1. old \in Seq(PCB) /\ q = Append(old, b)
    BY <1>7
  <2> HIDE DEF old, q
  <2>2. Append(old, b) \in Seq(PCB) /\ Len(Append(old, b)) = Len(old) + 1 /\ Len(old) \in Nat
    BY <2>1
  <2> QED BY <2>1, <2>2
<1> HIDE DEF q
<1>9. AssignsChildren(d, pcb', running, q)
  BY <1>1, <1>4, <1>6, <1>8, FieldAssigned
<1>10. pcb' \in [PCB -> PCBRecord] /\ Differ(d, pcb', running) /\ pcb'[running].children = q
  BY <1>1, <1>9 DEF AssignsChildren, Differ
<1>11. /\ CountOf(d) = CountOf(pcb) - Len(c[b].children) + Len(d[b].children)
       /\ CountOf(pcb) \in Nat /\ CountOf(d) \in Nat
  BY <1>5, <1>6, CountChanges
<1>12. CountOf(pcb') = CountOf(d) - Len(old) + Len(pcb'[running].children)
  BY <1>1, <1>6, <1>10, CountChanges
<1> HIDE DEF old
<1>13. Len(d[b].children) = 0 /\ Len(c[b].children) \in Nat
  BY <1>6, <1>7
<1>14. CountOf(pcb') <= CountOf(pcb) + 1 /\ CountOf(pcb') \in Nat
  <2>1. CountOf(pcb') \in Nat
    BY <1>10, CountIsNat
  <2>2. CountOf(pcb') = CountOf(d) + 1
    BY <1>8, <1>10, <1>11, <1>12
  <2> QED BY <1>11, <1>13, <2>1, <2>2
<1>15. lists' \in LL!Store
  <2>1. LL!Fresh(lists, b) \in LL!Store
    BY <1>1, PoolBasics, PointersTyped
  <2> QED BY <2>1, PoolBasics, PointersTyped DEF NewChild
<1>16. /\ pcbptr_free' = pcbptr_free - 1 /\ pcbptr_free > 0
       /\ UNCHANGED <<running, init_pcb, timer_list>>
  BY DEF NewChild
<1>17. PoolTypes'
  BY <1>1, <1>2, <1>10, <1>15, <1>16, PoolBasics, PCBsAreFinite DEF PoolInv, PoolTypes, NoneTwice
<1>18. pcbptr_free' + CountOf(pcb') <= MAX_NUM_PROCESSES
  BY <1>14, <1>16, PoolBasics
<1> QED BY <1>17, <1>18, CountNow DEF PoolInv

LEMMA PoolsBoot ==
  ASSUME PoolInv, NEW b \in PCB, Boot(b)
  PROVE  PoolInv'
<1> DEFINE new == NewPCBRecord(b, NULL, "Running")
<1>1. NULL \in PCB \cup {NULL} /\ "Running" \in Statuses /\ TakesBlock(b)
  BY DEF Boot, Statuses
<1>2. /\ pcb_free' \in Seq(PCB) /\ NoneTwice' /\ last_pid' \in 0 .. MaxPid + 1
      /\ new \in PCBRecord /\ new.children = <<>>
  BY <1>1, PoolBlockTaken
<1>3. /\ pcb' = [pcb EXCEPT ![b] = new] /\ lists' = LL!Fresh(lists, b)
      /\ running' = b /\ init_pcb' = b /\ UNCHANGED <<timer_list, pcbptr_free>>
  BY DEF Boot
<1> HIDE DEF new
<1>4. pcb' \in [PCB -> PCBRecord] /\ pcb'[b].children = <<>> /\ Differ(pcb, pcb', b)
  BY <1>2, <1>3, PoolBasics DEF Differ
<1>5. CountOf(pcb') <= CountOf(pcb) /\ CountOf(pcb') \in Nat
  <2>1. pcb[b].children \in Seq(PCB)
    BY PoolBasics DEF PCBRecord
  <2>2. Len(pcb[b].children) \in Nat /\ Len(<<>>) = 0
    BY <2>1
  <2>3. /\ CountOf(pcb') = CountOf(pcb) - Len(pcb[b].children) + Len(pcb'[b].children)
        /\ CountOf(pcb) \in Nat /\ CountOf(pcb') \in Nat
    BY <1>4, PoolBasics, CountChanges
  <2> QED BY <1>4, <2>2, <2>3
<1>6. lists' \in LL!Store
  BY <1>3, PoolBasics, PointersTyped
<1>7. PoolTypes'
  BY <1>2, <1>3, <1>4, <1>6, PoolBasics, PCBsAreFinite DEF PoolInv, PoolTypes, NoneTwice
<1>8. pcbptr_free' + CountOf(pcb') <= MAX_NUM_PROCESSES
  BY <1>3, <1>5, PoolBasics
<1> QED BY <1>7, <1>8, CountNow DEF PoolInv

---------------------------------------------------------------------------
(* An exit moves the children to init and changes no PCBPtr. *)
LEMMA PoolsDying ==
  ASSUME PoolInv, InUser, ~ ExitLoops, Parent \in PCB
  PROVE  /\ Dying \in [PCB -> PCBRecord] /\ CountOf(Dying) = CountOf(pcb)
         /\ MovedTo(pcb, Dying, running, init_pcb)
         /\ \A p \in PCB : Dying[p].pid = pcb[p].pid /\ Dying[p].parent = pcb[p].parent
<1> DEFINE old == pcb[running].children
           ini == pcb[init_pcb].children
           new == Adopted(old)
           a == [p \in PCB |-> IF p \in ToSet(old) THEN HungUp(pcb[p]) ELSE pcb[p]]
           b == [a EXCEPT ![init_pcb].children = new]
           c == [b EXCEPT ![running].children = <<>>]
           d == [c EXCEPT ![running].awaiting = NoWait]
           e == [d EXCEPT ![running].status = "Zombie"]
           f == [e EXCEPT ![Parent].signals = e[Parent].signals \cup {"SIGCHLD"}]
<1>1. Dying = f
  <2>1. Orphaned = d
    BY DEF Orphaned
  <2> HIDE DEF d
  <2> QED BY <2>1 DEF Dying
<1>2. /\ running \in PCB /\ init_pcb \in PCB /\ pcb \in [PCB -> PCBRecord]
      /\ (running = init_pcb => old = <<>>)
  BY PoolBasics DEF ExitLoops
<1>3. old \in Seq(PCB) /\ ini \in Seq(PCB)
  BY <1>2 DEF PCBRecord
<1>4. new = ini \o old
  BY DEF Adopted
<1> HIDE DEF old, ini, new
<1>5. /\ new \in Seq(PCB) /\ Len(new) = Len(ini) + Len(old) /\ Len(ini) \in Nat /\ Len(old) \in Nat
      /\ <<>> \in Seq(PCB) /\ Len(<<>>) = 0
  BY <1>3, <1>4
<1>6. a \in [PCB -> PCBRecord] /\ SameKin(pcb, a)
  <2>1. ASSUME NEW r \in PCBRecord
        PROVE  /\ HungUp(r) \in PCBRecord /\ HungUp(r).children = r.children
               /\ HungUp(r).pid = r.pid /\ HungUp(r).parent = r.parent
    BY DEF HungUp, PCBRecord
  <2> QED BY <1>2, <2>1 DEF SameKin
<1> HIDE DEF a
<1>7. AssignsChildren(a, b, init_pcb, new)
  BY <1>2, <1>5, <1>6, FieldAssigned
<1> HIDE DEF b
<1>8. b \in [PCB -> PCBRecord] /\ Differ(a, b, init_pcb) /\ b[init_pcb].children = new
  BY <1>2, <1>7 DEF AssignsChildren, Differ
<1>9. AssignsChildren(b, c, running, <<>>)
  BY <1>2, <1>5, <1>8, FieldAssigned
<1> HIDE DEF c
<1>10. c \in [PCB -> PCBRecord] /\ Differ(b, c, running) /\ c[running].children = <<>>
  BY <1>2, <1>9 DEF AssignsChildren, Differ
<1>11. AssignsAwaiting(c, d, running, NoWait)
  <2>1. NoWait \in WaitArgs \cup {NoWait}
    OBVIOUS
  <2> QED BY <1>2, <1>10, <2>1, FieldAssigned
<1> HIDE DEF d
<1>12. AssignsStatus(d, e, running, "Zombie")
  <2>1. "Zombie" \in Statuses /\ d \in [PCB -> PCBRecord]
    BY <1>11 DEF AssignsAwaiting, Statuses
  <2> QED BY <1>2, <2>1, FieldAssigned
<1> HIDE DEF e
<1>13. AssignsSignals(e, f, Parent, e[Parent].signals \cup {"SIGCHLD"})
  <2>1. e \in [PCB -> PCBRecord]
    BY <1>12 DEF AssignsStatus
  <2>2. e[Parent].signals \cup {"SIGCHLD"} \in SUBSET {"SIGCHLD", "SIGHUP"}
    BY <2>1 DEF PCBRecord
  <2> QED BY <2>1, <2>2, FieldAssigned
<1> HIDE DEF f
<1>14. f \in [PCB -> PCBRecord] /\ SameKin(c, f)
  BY <1>11, <1>12, <1>13 DEF AssignsAwaiting, AssignsStatus, AssignsSignals, SameKin
<1>15. CountOf(f) = CountOf(c) /\ CountOf(a) = CountOf(pcb)
  BY <1>6, <1>14, CountSame DEF SameKin
<1>16. CountOf(b) = CountOf(pcb) + Len(old) /\ CountOf(pcb) \in Nat
  <2>1. /\ CountOf(b) = CountOf(a) - Len(a[init_pcb].children) + Len(b[init_pcb].children)
        /\ CountOf(a) \in Nat
    BY <1>2, <1>6, <1>8, CountChanges
  <2>2. Len(a[init_pcb].children) = Len(ini) /\ Len(b[init_pcb].children) = Len(ini) + Len(old)
    BY <1>2, <1>5, <1>6, <1>8 DEF ini, SameKin
  <2> QED BY <1>5, <1>15, <2>1, <2>2
<1>17. Len(b[running].children) = Len(old)
  <2>1. CASE running = init_pcb
    <3>1. b[running].children = new /\ old = <<>> /\ ini = old
      BY <1>2, <1>8, <2>1 DEF old, ini
    <3> QED BY <1>5, <3>1
  <2>2. CASE running # init_pcb
    BY <1>2, <1>6, <1>8, <2>2 DEF Differ, old, SameKin
  <2> QED BY <2>1, <2>2
<1>18. CountOf(c) = CountOf(pcb)
  <2>1. CountOf(c) = CountOf(b) - Len(b[running].children) + Len(c[running].children)
    BY <1>2, <1>8, <1>10, CountChanges
  <2>2. Len(c[running].children) = 0
    BY <1>5, <1>10
  <2> QED BY <1>5, <1>16, <1>17, <2>1, <2>2
<1>19. MovedTo(pcb, f, running, init_pcb)
  <2> SUFFICES ASSUME NEW p \in PCB
               PROVE  f[p].children = IF p = running THEN <<>>
                                      ELSE IF p = init_pcb THEN ini \o old ELSE pcb[p].children
    BY DEF MovedTo, old, ini
  <2> QED BY <1>4, <1>6, <1>7, <1>9, <1>14 DEF AssignsChildren, SameKin
<1>20. \A p \in PCB : f[p].pid = pcb[p].pid /\ f[p].parent = pcb[p].parent
  BY <1>6, <1>7, <1>9, <1>14 DEF AssignsChildren, SameKin
<1> QED BY <1>1, <1>14, <1>15, <1>18, <1>19, <1>20

LEMMA PoolsExitSwitches ==
  ASSUME PoolInv, ExitSwitches
  PROVE  PoolInv'
<1>1. /\ InUser /\ ~ ExitLoops /\ running \in PCB /\ FirstReady \in PCB
      /\ UNCHANGED <<init_pcb, last_pid, timer_list, pcb_free, pcbptr_free>>
      /\ pcb' = [Dying EXCEPT ![FirstReady].status = "Running"]
      /\ lists' = LL!List_detach(DyingLists, "ready", FirstReady)
      /\ running' = FirstReady
  BY PoolBasics DEF ExitSwitches, SwitchTo
<1>2. Parent \in PCB
  <2>1. Parent # NULL /\ pcb[running] \in PCBRecord
    BY <1>1, PoolBasics DEF ExitSwitches
  <2> QED BY <2>1 DEF Parent, PCBRecord
<1>3. Dying \in [PCB -> PCBRecord] /\ CountOf(Dying) = CountOf(pcb)
  BY <1>1, <1>2, PoolsDying
<1>4. AssignsStatus(Dying, pcb', FirstReady, "Running")
  <2>1. "Running" \in Statuses
    BY DEF Statuses
  <2>2. AssignsStatus(Dying, [Dying EXCEPT ![FirstReady].status = "Running"], FirstReady, "Running")
    BY <1>1, <1>3, <2>1, FieldAssigned
  <2> QED BY <1>1, <2>2
<1>5. pcb' \in [PCB -> PCBRecord] /\ CountOf(pcb') = CountOf(pcb)
  BY <1>3, <1>4, CountSame DEF AssignsStatus
<1>6. lists' \in LL!Store
  <2>1. DyingLists \in LL!Store
    BY <1>1, PoolBasics, PointersTyped DEF DyingLists, Heads
  <2> QED BY <1>1, <2>1, PoolBasics, PointersTyped
<1>7. PoolTypes'
  BY <1>1, <1>5, <1>6, PoolBasics, PCBsAreFinite DEF PoolInv, PoolTypes, NoneTwice
<1> QED BY <1>1, <1>5, <1>7, PoolBasics, CountNow DEF PoolInv

(* The parent's entry goes, but its PCBPtr is not given back (exit.c:52). *)
LEMMA PoolsExitWakesParent ==
  ASSUME PoolInv, NEW i, ExitWakesParent(i)
  PROVE  PoolInv'
<1> DEFINE q == Dying[Parent].children
           r == RemoveAt(q, i)
           g == [Dying EXCEPT ![Parent].status = "Running"]
<1>1. /\ InUser /\ ~ ExitLoops /\ running \in PCB /\ i \in DOMAIN q
      /\ UNCHANGED <<init_pcb, last_pid, pcbptr_free>>
      /\ pcb' = [Dying EXCEPT ![Parent].status = "Running", ![Parent].children = RemoveAt(@, i)]
      /\ lists' = LL!List_detach(LL!List_detach(DyingLists, "waiting", Parent), "zombie", running)
      /\ timer_list' = TimersKept /\ pcb_free' = Released(running)
      /\ running' = Parent
  BY PoolBasics DEF ExitWakesParent
<1>2. Parent \in PCB
  <2>1. Parent # NULL /\ pcb[running] \in PCBRecord
    BY <1>1, PoolBasics DEF ExitWakesParent, ParentWaits
  <2> QED BY <2>1 DEF Parent, PCBRecord
<1>3. Dying \in [PCB -> PCBRecord] /\ CountOf(Dying) = CountOf(pcb)
  BY <1>1, <1>2, PoolsDying
<1>4. r \in Seq(PCB) /\ Len(r) = Len(q) - 1 /\ Len(q) \in Nat
  <2>1. q \in Seq(PCB)
    BY <1>2, <1>3 DEF PCBRecord
  <2>2. q \in Seq(PCB) /\ i \in 1 .. Len(q) /\ Len(q) \in Nat
    <3>1. i \in DOMAIN q
      BY <1>1
    <3> HIDE DEF q
    <3> QED BY <2>1, <3>1
  <2> HIDE DEF q
  <2> QED BY <2>2, RemoveAtElements
<1>5. AssignsStatus(Dying, g, Parent, "Running")
  <2>1. "Running" \in Statuses
    BY DEF Statuses
  <2> QED BY <1>2, <1>3, <2>1, FieldAssigned
<1>6. pcb' = [g EXCEPT ![Parent].children = r]
  <2>1. g[Parent].children = q
    BY <1>2, <1>5 DEF AssignsStatus
  <2>2. pcb' = [g EXCEPT ![Parent].children = RemoveAt(@, i)]
    BY <1>1
  <2> HIDE DEF g, q
  <2> QED BY <2>1, <2>2
<1> HIDE DEF g, r
<1>7. AssignsChildren(g, pcb', Parent, r)
  <2>1. g \in [PCB -> PCBRecord]
    BY <1>5 DEF AssignsStatus
  <2> QED BY <1>2, <1>4, <1>6, <2>1, FieldAssigned
<1>8. pcb' \in [PCB -> PCBRecord] /\ Differ(Dying, pcb', Parent) /\ pcb'[Parent].children = r
  BY <1>2, <1>5, <1>7 DEF AssignsStatus, AssignsChildren, Differ
<1>9. CountOf(pcb') = CountOf(pcb) - 1
  <2>1. CountOf(pcb') = CountOf(Dying) - Len(Dying[Parent].children) + Len(pcb'[Parent].children)
    BY <1>2, <1>3, <1>8, CountChanges
  <2>2. Len(Dying[Parent].children) = Len(q) /\ Len(pcb'[Parent].children) = Len(q) - 1
    BY <1>4, <1>8
  <2> HIDE DEF q
  <2> QED BY <1>3, <1>4, <2>1, <2>2, PoolBasics
<1>10. lists' \in LL!Store
  <2>1. DyingLists \in LL!Store
    BY <1>1, PoolBasics, PointersTyped DEF DyingLists, Heads
  <2>2. LL!List_detach(DyingLists, "waiting", Parent) \in LL!Store
    BY <1>2, <2>1, PoolBasics, PointersTyped
  <2> QED BY <1>1, <2>2, PointersTyped DEF Heads
<1>11. timer_list' \in Seq(Timer)
  BY <1>1, PoolBasics, KeptTyped
<1>12. pcb_free' \in Seq(PCB) /\ NoneTwice'
  BY <1>1, PoolBasics, PoolReleased
<1>13. PoolTypes'
  BY <1>1, <1>2, <1>8, <1>10, <1>11, <1>12, PoolBasics, PCBsAreFinite
     DEF PoolInv, PoolTypes, NoneTwice
<1>14. pcbptr_free' + CountOf(pcb') <= MAX_NUM_PROCESSES
  BY <1>1, <1>9, PoolBasics
<1> QED BY <1>13, <1>14, CountNow DEF PoolInv

---------------------------------------------------------------------------
(* Few steps do more to the pools and the families than rearrange. *)
Changes ==
  \/ \E b \in PCB : NewChild(b) \/ Boot(b)
  \/ \E k \in WaitArgs, i \in 1 .. MAX_NUM_PROCESSES : WaitReaps(k, i)
  \/ ExitSwitches
  \/ \E i \in 1 .. MAX_NUM_PROCESSES : ExitWakesParent(i)

LEMMA RearrangesOrChanges ==
  ASSUME PoolInv, [Next]_vars
  PROVE  Rearranges \/ Changes
<1>1. ASSUME NEW p \in PCB, Starts(p) \/ Boots(p) PROVE Changes
  BY <1>1 DEF Starts, Boots, Spawn, Fork, Changes
<1>2. ASSUME NEW p \in PCB, Exits(p) PROVE Rearranges \/ Changes
  <2>1. CASE ExitReleases(p)
    BY <2>1 DEF ExitReleases, Changes
  <2>2. CASE ExitHangs \/ ExitNoParent \/ ExitNobodyReady \/ ExitToStranger
    <3>1. UNCHANGED procVars /\ ~ InUser'
      BY <2>2 DEF ExitHangs, ExitNoParent, ExitNobodyReady, ExitToStranger, Dies, Crash, InUser
    <3> QED BY <3>1, QuietRearranges
  <2> QED BY <1>2, <2>1, <2>2 DEF Exits, ExitKeeps, Changes
<1>3. CASE Ends \/ Returns
  <2>1. UNCHANGED procVars /\ ~ InUser'
    BY <1>3 DEF Ends, Returns, SpawnNoBlock, Shutdown, FunctionReturns, BootCrashes, Dies, Crash, InUser
  <2> QED BY <2>1, QuietRearranges
<1>4. CASE NoTimer
  <2>1. NoWait \in WaitArgs \cup {NoWait}
    OBVIOUS
  <2> QED BY <1>4, <2>1, CallRearranges DEF NoTimer, SleepFull
<1>5. ASSUME NEW k \in WaitArgs, Wait(k) PROVE Rearranges \/ Changes
  <2>1. CASE WaitNoChildren(k)
    <3>1. k \in WaitArgs \cup {NoWait}
      OBVIOUS
    <3> QED BY <2>1, <3>1, CallRearranges DEF WaitNoChildren
  <2>2. ASSUME NEW i, WaitNobodyReady(k, i) PROVE Rearranges
    BY <2>2, QuietRearranges DEF WaitNobodyReady, Dies, Crash, InUser
  <2> QED BY <1>5, <2>1, <2>2, WaitRearranges DEF Wait, Changes
<1>6. CASE Sleeps
  BY <1>6, SleepRearranges DEF Sleeps
<1>7. CASE Preempts
  BY <1>7, PreemptRearranges DEF Preempts
<1>8. CASE UNCHANGED vars
  <2>1. UNCHANGED procVars /\ (InUser' => InUser)
    BY <1>8 DEF vars, kernelVars, InUser
  <2> QED BY <2>1, QuietRearranges
<1> QED BY <1>1, <1>2, <1>3, <1>4, <1>5, <1>6, <1>7, <1>8, SemCallRearranges, ResCallRearranges
        DEF Next, Waits

LEMMA PoolsStep ==
  ASSUME PoolInv, [Next]_vars
  PROVE  PoolInv'
<1>1. CASE Rearranges
  BY <1>1, PoolsSame
<1>2. CASE Changes
  BY <1>2, PoolsNewChild, PoolsBoot, PoolsWaitReaps, PoolsExitSwitches, PoolsExitWakesParent DEF Changes
<1> QED BY <1>1, <1>2, RearrangesOrChanges

LEMMA PoolsStart ==
  ASSUME ProcInit
  PROVE  PoolInv
<1>1. ProcTypeOK /\ FreeOK
  BY Start DEF ProcInv
<1>2. running = 1 /\ 1 \in PCB /\ pcbptr_free = MAX_NUM_PROCESSES /\ MAX_NUM_PROCESSES \in Nat
  BY MaxProcessesAssumption DEF ProcInit, PCB
<1>3. PoolTypes
  <2>1. NoneTwice /\ running # NULL
    BY <1>1, <1>2, PCBsAreFinite DEF FreeOK, NoneTwice
  <2> QED BY <1>1, <1>2, <2>1 DEF PoolTypes, ProcTypeOK, PCBRecord, Timer
<1>4. EntryCount = 0
  <2>1. \A p \in PCB : pcb[p].children = <<>>
    BY DEF ProcInit
  <2>2. Entries(ChildLists) = {}
    BY <2>1 DEF Entries, EntriesIn, ChildLists
  <2> QED BY <2>2, FS_EmptySet DEF EntryCount
<1> QED BY <1>2, <1>3, <1>4 DEF PoolInv

(* In the whole kernel, where the lists of processes get in disorder, the  *)
(* pools of PCBs and of PCBPtrs do not: no block is handed out twice, and  *)
(* a PCBPtr in use is not free.                                            *)
THEOREM KernelPoolsConsistent == Spec => []PoolsConsistent
<1>1. Init => PoolInv
  BY PoolsStart DEF Init
<1>2. PoolInv /\ [Next]_vars => PoolInv'
  BY PoolsStep
<1> QED BY <1>1, <1>2, PoolInvImplies, PTL DEF Spec

---------------------------------------------------------------------------
(* The families in the whole kernel, where a running process may die in    *)
(* any status and a block may be freed while its process still runs.       *)
OwnParent(f) == \A p \in PCB : p \in ToSet(f[p].children) => f[p].parent = p

FamilyInv ==
  /\ PoolInv /\ Proper(pcb) /\ Kids(pcb) \cap Free = {} /\ PidsDiffer
  /\ init_pcb \notin Free /\ init_pcb \notin Kids(pcb) /\ OwnParent(pcb)

(* One process joins the children of r, or all those of r are dropped. *)
Added(f, g, r, b) ==
  \A p \in PCB : g[p].children = IF p = r THEN Append(f[r].children, b) ELSE f[p].children
Cleared(f, g, r) ==
  \A p \in PCB : g[p].children = IF p = r THEN <<>> ELSE f[p].children

LEMMA ChildrenCleared ==
  ASSUME NEW f, NEW g, Proper(f), NEW r \in PCB, Cleared(f, g, r)
  PROVE  /\ Proper(g) /\ Kids(g) \subseteq Kids(f)
         /\ \A p \in PCB : ToSet(g[p].children) \subseteq ToSet(f[p].children)
<1>1. \A p \in PCB : g[p].children \in Seq(PCB) /\ (p # r => g[p].children = f[p].children)
  <2> TAKE p \in PCB
  <2>1. <<>> \in Seq(PCB) /\ f[p].children \in Seq(PCB)
    BY DEF Proper
  <2>2. g[p].children = IF p = r THEN <<>> ELSE f[p].children
    BY DEF Cleared
  <2> QED BY <2>1, <2>2
<1>2. g[r].children = <<>> /\ DOMAIN <<>> = {} /\ ToSet(<<>>) = {}
  BY DEF Cleared, ToSet
<1>3. Once(g)
  <2> SUFFICES ASSUME NEW p \in PCB, NEW q \in PCB,
                      NEW i \in DOMAIN g[p].children, NEW j \in DOMAIN g[q].children,
                      g[p].children[i] = g[q].children[j]
               PROVE  p = q /\ i = j
    BY DEF Once
  <2>1. p # r /\ q # r
    BY <1>2
  <2>2. g[p].children = f[p].children /\ g[q].children = f[q].children
    BY <1>1, <2>1
  <2> QED BY <2>2 DEF Proper, Once
<1>4. \A p \in PCB : ToSet(g[p].children) \subseteq ToSet(f[p].children)
  BY <1>1, <1>2
<1> QED BY <1>1, <1>3, <1>4 DEF Proper, Kids

LEMMA ChildAdded ==
  ASSUME NEW f, NEW g, Proper(f), NEW r \in PCB, NEW b \in PCB, b \notin Kids(f), Added(f, g, r, b)
  PROVE  /\ Proper(g) /\ Kids(g) = Kids(f) \cup {b}
         /\ ToSet(g[r].children) = ToSet(f[r].children) \cup {b}
         /\ \A p \in PCB : p # r => g[p].children = f[p].children
<1> DEFINE q == f[r].children
           t == Append(q, b)
           n == Len(q)
<1>1. q \in Seq(PCB) /\ n \in Nat /\ DOMAIN q = 1 .. n
  BY DEF Proper
<1>2. /\ g[r].children = t /\ f[r].children = q
      /\ \A p \in PCB : p # r => g[p].children = f[p].children
  BY DEF Added
<1> HIDE DEF q
<1>3. /\ t \in Seq(PCB) /\ Len(t) = n + 1 /\ DOMAIN t = 1 .. n + 1 /\ t[n + 1] = b
      /\ \A i \in 1 .. n : t[i] = q[i]
  BY <1>1
<1> HIDE DEF t, n
<1>4. \A i \in 1 .. n + 1 : i = n + 1 \/ i \in 1 .. n
  BY <1>1
<1>5. ToSet(t) = ToSet(q) \cup {b}
  <2>1. n + 1 \in 1 .. n + 1 /\ \A i \in 1 .. n : i \in 1 .. n + 1
    BY <1>1
  <2> QED BY <1>1, <1>3, <1>4, <2>1 DEF ToSet
<1>6. \A p \in PCB : \A i \in DOMAIN f[p].children : f[p].children[i] # b
  BY DEF Kids, ToSet
<1>7. \A p \in PCB : \A i \in DOMAIN g[p].children :
        \/ i \in DOMAIN f[p].children /\ g[p].children[i] = f[p].children[i]
        \/ p = r /\ i = n + 1 /\ g[p].children[i] = b
  BY <1>1, <1>2, <1>3, <1>4
<1>8. Once(g)
  BY <1>6, <1>7 DEF Proper, Once
<1>9. \A p \in PCB : g[p].children \in Seq(PCB)
  BY <1>2, <1>3 DEF Proper
<1>10. Kids(g) = Kids(f) \cup {b}
  BY <1>2, <1>5 DEF Kids
<1> QED BY <1>2, <1>5, <1>8, <1>9, <1>10 DEF Proper

LEMMA KinKept ==
  ASSUME NEW f, NEW g, SameKin(f, g), Proper(f), OwnParent(f)
  PROVE  Proper(g) /\ OwnParent(g) /\ Kids(g) = Kids(f)
<1>1. \A p \in PCB : g[p].children = f[p].children /\ g[p].parent = f[p].parent
  BY DEF SameKin
<1>2. Proper(g)
  BY <1>1 DEF Proper, Once
<1>3. OwnParent(g)
  BY <1>1 DEF OwnParent
<1>4. Kids(g) = Kids(f)
  BY <1>1 DEF Kids
<1> QED BY <1>2, <1>3, <1>4

LEMMA FamilyBasics ==
  ASSUME FamilyInv
  PROVE  /\ PoolInv /\ pcb \in [PCB -> PCBRecord] /\ pcb_free \in Seq(PCB) /\ NoneTwice
         /\ init_pcb \in PCB /\ Free \subseteq PCB /\ last_pid \in Int
<1>1. PoolInv /\ pcb \in [PCB -> PCBRecord] /\ pcb_free \in Seq(PCB) /\ NoneTwice /\ init_pcb \in PCB
  BY PoolBasics DEF FamilyInv
<1>2. Free \subseteq PCB
  BY <1>1 DEF Free, ToSet
<1>3. last_pid \in Int
  BY ProcConstantsAssumption DEF FamilyInv, PoolInv, PoolTypes
<1> QED BY <1>1, <1>2, <1>3

LEMMA FamilySame ==
  ASSUME FamilyInv, Rearranges
  PROVE  FamilyInv' /\ Reported
<1>1. /\ SameKin(pcb, pcb') /\ Free' = Free
      /\ init_pcb' = init_pcb /\ last_pid' = last_pid
  BY DEF Rearranges, Free
<1>2. PoolInv'
  BY PoolsSame DEF FamilyInv
<1>3. Proper(pcb') /\ Kids(pcb') = Kids(pcb) /\ OwnParent(pcb')
  BY <1>1, KinKept DEF FamilyInv
<1>4. PidsDiffer'
  BY <1>1, FamilyBasics DEF FamilyInv, SameKin, PidsDiffer
<1>5. Reported
  BY <1>1 DEF Reported
<1> QED BY <1>1, <1>2, <1>3, <1>4, <1>5 DEF FamilyInv, Proper, Once, Kids, OwnParent

(* A block that leaves the pool for a process with the next pid. *)
LEMMA FamilyTaken ==
  ASSUME FamilyInv, NEW b \in Free, Free' = Free \ {b}, last_pid' = last_pid + 1,
         pcb'[b].pid = last_pid, \A p \in PCB : p # b => pcb'[p].pid = pcb[p].pid
  PROVE  PidsDiffer'
<1>1. /\ \A p \in PCB \ Free : pcb[p].pid < last_pid
      /\ \A p, q \in PCB \ Free : pcb[p].pid = pcb[q].pid => p = q
  BY DEF FamilyInv, PidsDiffer
<1>2. pcb'[b].pid = last_pid /\ \A p \in PCB \ Free : pcb'[p].pid = pcb[p].pid
  OBVIOUS
<1>3. last_pid \in Int /\ \A p \in PCB : pcb[p].pid \in Int
  <2>1. \A r \in PCBRecord : r.pid \in Int
    BY ProcConstantsAssumption DEF PCBRecord
  <2> QED BY <2>1, FamilyBasics
<1>4. \A p \in PCB \ Free' : p = b \/ p \in PCB \ Free
  OBVIOUS
<1>5. \A p \in PCB \ Free' : pcb'[p].pid < last_pid'
  BY <1>1, <1>2, <1>3, <1>4
<1>6. \A p, q \in PCB \ Free' : pcb'[p].pid = pcb'[q].pid => p = q
  BY <1>1, <1>2, <1>3, <1>4
<1> QED BY <1>5, <1>6 DEF PidsDiffer

LEMMA FamilyNewChild ==
  ASSUME FamilyInv, NEW b \in PCB, NewChild(b)
  PROVE  FamilyInv' /\ Reported
<1> DEFINE c   == Called(NoWait)
           new == NewPCBRecord(b, running, "Ready")
           d   == [c EXCEPT ![b] = new]
           q   == Append(d[running].children, b)
<1>0. PoolInv /\ PoolInv'
  BY PoolsNewChild DEF FamilyInv
<1>1. /\ InUser /\ running \in PCB /\ running \in PCB \cup {NULL}
      /\ NoWait \in WaitArgs \cup {NoWait} /\ "Ready" \in Statuses /\ TakesBlock(b)
      /\ init_pcb' = init_pcb
  BY <1>0, PoolBasics DEF NewChild, Statuses
<1>2. /\ b \in Free /\ Free' = Free \ {b} /\ last_pid' = last_pid + 1
      /\ new \in PCBRecord /\ new.children = <<>> /\ new.pid = last_pid /\ new.parent = running
  <2>1. last_pid' = last_pid + 1
    BY <1>1 DEF TakesBlock
  <2>2. /\ b \in Free /\ Free' = Free \ {b}
        /\ new \in PCBRecord /\ new.children = <<>> /\ new.pid = last_pid /\ new.parent = running
    BY <1>0, <1>1, PoolBlockTaken
  <2> QED BY <2>1, <2>2
<1>3. AssignsAwaiting(pcb, c, running, NoWait)
  BY <1>0, <1>1, ArgumentsWritten
<1>4. pcb' = [d EXCEPT ![running].children = q]
  BY DEF NewChild
<1> HIDE DEF c, new
<1>5. /\ d \in [PCB -> PCBRecord] /\ d[b] = new
      /\ \A p \in PCB : p # b => d[p] = c[p]
  BY <1>2, <1>3 DEF AssignsAwaiting
<1> HIDE DEF d
<1>6. /\ Cleared(pcb, d, b)
      /\ \A p \in PCB : p # b => d[p].pid = pcb[p].pid /\ d[p].parent = pcb[p].parent
  BY <1>2, <1>3, <1>5 DEF AssignsAwaiting, Cleared
<1>7. /\ Proper(d) /\ Kids(d) \subseteq Kids(pcb)
      /\ \A p \in PCB : ToSet(d[p].children) \subseteq ToSet(pcb[p].children)
  BY <1>6, ChildrenCleared DEF FamilyInv
<1>8. AssignsChildren(d, pcb', running, q)
  <2>1. d[running].children \in Seq(PCB)
    BY <1>1, <1>7 DEF Proper
  <2>2. q \in Seq(PCB)
    BY <2>1
  <2> QED BY <1>1, <1>4, <1>5, <2>2, FieldAssigned
<1>9. Added(d, pcb', running, b)
  BY <1>8 DEF AssignsChildren, Added
<1>10. b \notin Kids(pcb) /\ b \notin Kids(d)
  BY <1>2, <1>7 DEF FamilyInv
<1>11. /\ Proper(pcb') /\ Kids(pcb') = Kids(d) \cup {b}
       /\ ToSet(pcb'[running].children) = ToSet(d[running].children) \cup {b}
       /\ \A p \in PCB : p # running => pcb'[p].children = d[p].children
  BY <1>1, <1>7, <1>9, <1>10, ChildAdded
<1>12. PidsDiffer'
  <2>1. pcb'[b].pid = last_pid /\ \A p \in PCB : p # b => pcb'[p].pid = pcb[p].pid
    BY <1>2, <1>5, <1>6, <1>8 DEF AssignsChildren
  <2> QED BY <1>2, <2>1, FamilyTaken
<1>13. OwnParent(pcb')
  <2> SUFFICES ASSUME NEW p \in PCB, p \in ToSet(pcb'[p].children)
               PROVE  pcb'[p].parent = p
    BY DEF OwnParent
  <2>1. pcb'[p].parent = d[p].parent /\ OwnParent(pcb)
    BY <1>8 DEF AssignsChildren, FamilyInv
  <2>2. CASE p = b
    <3>1. p = running
      BY <1>7, <1>11, <2>2, <1>10 DEF Kids
    <3> QED BY <1>2, <1>5, <2>1, <2>2, <3>1
  <2>3. CASE p # b
    <3>1. p \in ToSet(pcb[p].children)
      BY <1>7, <1>11, <2>3
    <3> QED BY <1>6, <2>1, <2>3, <3>1 DEF OwnParent
  <2> QED BY <2>2, <2>3
<1>14. Kids(pcb') \cap Free' = {} /\ init_pcb' \notin Free' /\ init_pcb' \notin Kids(pcb')
  BY <1>1, <1>2, <1>7, <1>11 DEF FamilyInv
<1>15. Reported
  BY <1>2 DEF Reported
<1> HIDE DEF q
<1> QED BY <1>0, <1>11, <1>12, <1>13, <1>14, <1>15 DEF FamilyInv, Proper, Once, Kids, OwnParent

LEMMA FamilyBoot ==
  ASSUME FamilyInv, NEW b \in PCB, Boot(b)
  PROVE  FamilyInv' /\ Reported
<1> DEFINE new == NewPCBRecord(b, NULL, "Running")
<1>0. PoolInv /\ PoolInv'
  BY PoolsBoot DEF FamilyInv
<1>1. NULL \in PCB \cup {NULL} /\ "Running" \in Statuses /\ TakesBlock(b)
  BY DEF Boot, Statuses
<1>2. /\ b \in Free /\ Free' = Free \ {b} /\ last_pid' = last_pid + 1
      /\ new \in PCBRecord /\ new.children = <<>> /\ new.pid = last_pid
  <2>1. last_pid' = last_pid + 1
    BY <1>1 DEF TakesBlock
  <2>2. /\ b \in Free /\ Free' = Free \ {b}
        /\ new \in PCBRecord /\ new.children = <<>> /\ new.pid = last_pid
    BY <1>0, <1>1, PoolBlockTaken
  <2> QED BY <2>1, <2>2
<1>3. pcb' = [pcb EXCEPT ![b] = new] /\ init_pcb' = b
  BY DEF Boot
<1> HIDE DEF new
<1>4. pcb'[b] = new /\ \A p \in PCB : p # b => pcb'[p] = pcb[p]
  BY <1>3, FamilyBasics
<1>5. Cleared(pcb, pcb', b)
  BY <1>2, <1>4 DEF Cleared
<1>6. /\ Proper(pcb') /\ Kids(pcb') \subseteq Kids(pcb)
      /\ \A p \in PCB : ToSet(pcb'[p].children) \subseteq ToSet(pcb[p].children)
  BY <1>5, ChildrenCleared DEF FamilyInv
<1>7. PidsDiffer'
  <2>1. pcb'[b].pid = last_pid /\ \A p \in PCB : p # b => pcb'[p].pid = pcb[p].pid
    BY <1>2, <1>4
  <2> QED BY <1>2, <2>1, FamilyTaken
<1>8. b \notin Kids(pcb)
  BY <1>2 DEF FamilyInv
<1>9. OwnParent(pcb')
  <2> SUFFICES ASSUME NEW p \in PCB, p \in ToSet(pcb'[p].children)
               PROVE  pcb'[p].parent = p
    BY DEF OwnParent
  <2>1. p \in ToSet(pcb[p].children) /\ p # b
    BY <1>6, <1>8 DEF Kids
  <2> QED BY <1>4, <2>1 DEF FamilyInv, OwnParent
<1>10. Kids(pcb') \cap Free' = {} /\ init_pcb' \notin Free' /\ init_pcb' \notin Kids(pcb')
  BY <1>2, <1>3, <1>6, <1>8 DEF FamilyInv
<1>11. Reported
  BY <1>2 DEF Reported
<1> QED BY <1>0, <1>6, <1>7, <1>9, <1>10, <1>11 DEF FamilyInv, Proper, Once, Kids, OwnParent

(* The block of a child is freed: it is out of all the lists at the same   *)
(* step.                                                                   *)
LEMMA FamilyReleased ==
  ASSUME FamilyInv, NEW c \in PCB, pcb_free' = Released(c),
         c \in Free \/ c \notin Kids(pcb'), c # init_pcb, init_pcb' = init_pcb,
         Kids(pcb') \subseteq Kids(pcb), last_pid' = last_pid,
         \A p \in PCB : pcb'[p].pid = pcb[p].pid
  PROVE  /\ Kids(pcb') \cap Free' = {} /\ init_pcb' \notin Free' /\ init_pcb' \notin Kids(pcb')
         /\ PidsDiffer'
<1>1. Free' = Free \cup {c}
  BY PoolReleased DEF FamilyInv
<1>2. Kids(pcb') \cap Free' = {} /\ init_pcb' \notin Free' /\ init_pcb' \notin Kids(pcb')
  BY <1>1 DEF FamilyInv
<1>3. PidsDiffer'
  BY <1>1 DEF FamilyInv, PidsDiffer
<1> QED BY <1>2, <1>3

LEMMA FamilyWaitReaps ==
  ASSUME FamilyInv, NEW k \in WaitArgs, NEW i, WaitReaps(k, i)
  PROVE  FamilyInv' /\ Reported
<1> DEFINE q == pcb[running].children
           c == Child(i)
           f == Called(k)
<1>0. PoolInv /\ PoolInv'
  BY PoolsWaitReaps DEF FamilyInv
<1>1. /\ InUser /\ running \in PCB /\ k \in WaitArgs \cup {NoWait}
      /\ pcb' = [f EXCEPT ![running].children = RemoveAt(q, i)]
      /\ pcb_free' = Released(c) /\ retval' = pcb[c].pid
      /\ UNCHANGED <<running, init_pcb, last_pid>>
  BY <1>0, PoolBasics DEF WaitReaps, ChildDetached, Return
<1>2. q \in Seq(PCB) /\ i \in 1 .. Len(q) /\ i \in DOMAIN q /\ c = q[i]
  <2>1. q \in Seq(PCB) /\ i \in 1 .. Len(q) /\ c = q[i]
    BY <1>1, FamilyBasics DEF WaitReaps, ScanEndsAt, PCBRecord, Child
  <2> HIDE DEF q
  <2> QED BY <2>1
<1>3. c \in PCB /\ c \in ToSet(q) /\ c \in Kids(pcb)
  BY <1>1, <1>2 DEF Kids, ToSet
<1>4. RemoveAt(q, i) \in Seq(PCB)
  BY <1>2, RemoveAtElements
<1>5. AssignsAwaiting(pcb, f, running, k)
  BY <1>0, <1>1, ArgumentsWritten
<1> HIDE DEF c, f
<1>6. AssignsChildren(f, pcb', running, RemoveAt(q, i))
  BY <1>1, <1>4, <1>5, FieldAssigned DEF AssignsAwaiting
<1>7. Removed(pcb, pcb', running, i)
  BY <1>5, <1>6 DEF AssignsAwaiting, AssignsChildren, Removed
<1>8. \A p \in PCB : pcb'[p].pid = pcb[p].pid /\ pcb'[p].parent = pcb[p].parent
  BY <1>5, <1>6 DEF AssignsAwaiting, AssignsChildren
<1>9. /\ Proper(pcb') /\ Kids(pcb') = Kids(pcb) \ {c}
      /\ ToSet(pcb'[running].children) = ToSet(q) \ {c}
  <2>1. Proper(pcb) /\ running \in PCB /\ i \in DOMAIN pcb[running].children
    BY <1>1, <1>2 DEF FamilyInv
  <2>2. c = pcb[running].children[i]
    BY <1>2
  <2> HIDE DEF q
  <2>3. /\ Proper(pcb') /\ Kids(pcb') = Kids(pcb) \ {pcb[running].children[i]}
        /\ ToSet(pcb'[running].children) = ToSet(pcb[running].children) \ {pcb[running].children[i]}
    BY <1>7, <2>1, ChildRemoved
  <2> QED BY <2>2, <2>3 DEF q
<1>10. \A p \in PCB : ToSet(pcb'[p].children) \subseteq ToSet(pcb[p].children)
  BY <1>7, <1>9 DEF Removed
<1>11. OwnParent(pcb')
  BY <1>8, <1>10 DEF FamilyInv, OwnParent
<1>12. c # init_pcb
  BY <1>3 DEF FamilyInv
<1>13. /\ Kids(pcb') \cap Free' = {} /\ init_pcb' \notin Free' /\ init_pcb' \notin Kids(pcb')
       /\ PidsDiffer'
  BY <1>1, <1>3, <1>8, <1>9, <1>12, FamilyReleased
<1>14. Reported
  <2>1. Free' = Free \cup {c}
    BY <1>0, <1>1, <1>3, PoolReleased
  <2> QED BY <1>1, <1>3, <1>9, <2>1 DEF Reported
<1> QED BY <1>0, <1>9, <1>11, <1>13, <1>14 DEF FamilyInv, Proper, Once, Kids, OwnParent

(* The families while a process dies. *)
LEMMA FamilyDying ==
  ASSUME FamilyInv, InUser, ~ ExitLoops, Parent \in PCB
  PROVE  /\ Dying \in [PCB -> PCBRecord] /\ Proper(Dying) /\ Kids(Dying) = Kids(pcb)
         /\ Dying[running].children = <<>>
         /\ \A p \in PCB :
              /\ Dying[p].pid = pcb[p].pid /\ Dying[p].parent = pcb[p].parent
              /\ \A c \in ToSet(Dying[p].children) :
                   \/ c \in ToSet(pcb[p].children)
                   \/ p = init_pcb /\ c \in ToSet(pcb[running].children)
<1>1. /\ Dying \in [PCB -> PCBRecord] /\ MovedTo(pcb, Dying, running, init_pcb)
      /\ \A p \in PCB : Dying[p].pid = pcb[p].pid /\ Dying[p].parent = pcb[p].parent
  BY PoolsDying DEF FamilyInv
<1>2. running \in PCB /\ init_pcb \in PCB /\ Proper(pcb)
  BY PoolBasics DEF FamilyInv
<1>3. Dying[running].children = <<>>
  BY <1>1, <1>2 DEF MovedTo
<1>4. CASE running = init_pcb
  <2>1. \A p \in PCB : Dying[p].children = pcb[p].children
    BY <1>1, <1>4 DEF MovedTo, ExitLoops
  <2>2. Kids(Dying) = Kids(pcb)
    BY <2>1 DEF Kids
  <2>3. Once(Dying)
    <3> SUFFICES ASSUME NEW p \in PCB, NEW q \in PCB,
                        NEW i \in DOMAIN Dying[p].children, NEW j \in DOMAIN Dying[q].children,
                        Dying[p].children[i] = Dying[q].children[j]
                 PROVE  p = q /\ i = j
      BY DEF Once
    <3>1. Dying[p].children = pcb[p].children /\ Dying[q].children = pcb[q].children
      BY <2>1
    <3> QED BY <1>2, <3>1 DEF Proper, Once
  <2>4. Proper(Dying)
    BY <1>2, <2>1, <2>3 DEF Proper
  <2> QED BY <1>1, <1>3, <2>1, <2>2, <2>4
<1>5. CASE running # init_pcb
  BY <1>1, <1>2, <1>3, <1>5, ChildrenMoved, ZenonT(30)
<1> QED BY <1>4, <1>5

LEMMA DyingOwnParent ==
  ASSUME FamilyInv, InUser, ~ ExitLoops, Parent \in PCB
  PROVE  OwnParent(Dying)
<1> SUFFICES ASSUME NEW p \in PCB, p \in ToSet(Dying[p].children)
             PROVE  Dying[p].parent = p
  BY DEF OwnParent
<1>1. Dying[p].parent = pcb[p].parent
  BY FamilyDying
<1>2. running \in PCB /\ init_pcb \notin Kids(pcb)
  BY PoolBasics DEF FamilyInv
<1>3. p \in ToSet(pcb[p].children) \/ (p = init_pcb /\ p \in ToSet(pcb[running].children))
  BY FamilyDying
<1>4. p \in ToSet(pcb[p].children)
  BY <1>2, <1>3 DEF Kids
<1> QED BY <1>1, <1>4 DEF FamilyInv, OwnParent

LEMMA FamilyExitSwitches ==
  ASSUME FamilyInv, ExitSwitches
  PROVE  FamilyInv' /\ Reported
<1>0. PoolInv /\ PoolInv'
  BY PoolsExitSwitches DEF FamilyInv
<1>1. /\ InUser /\ ~ ExitLoops /\ Parent # NULL /\ running \in PCB /\ FirstReady \in PCB
      /\ UNCHANGED <<init_pcb, last_pid, pcb_free>>
      /\ pcb' = [Dying EXCEPT ![FirstReady].status = "Running"]
  BY <1>0, PoolBasics DEF ExitSwitches
<1>2. Parent \in PCB
  <2>1. pcb[running] \in PCBRecord
    BY <1>1, FamilyBasics
  <2> QED BY <1>1, <2>1 DEF Parent, PCBRecord
<1>3. /\ Dying \in [PCB -> PCBRecord] /\ Proper(Dying) /\ Kids(Dying) = Kids(pcb) /\ OwnParent(Dying)
      /\ \A p \in PCB : Dying[p].pid = pcb[p].pid
  BY <1>1, <1>2, FamilyDying, DyingOwnParent
<1>4. AssignsStatus(Dying, pcb', FirstReady, "Running")
  <2>1. "Running" \in Statuses
    BY DEF Statuses
  <2>2. AssignsStatus(Dying, [Dying EXCEPT ![FirstReady].status = "Running"], FirstReady, "Running")
    BY <1>1, <1>3, <2>1, FieldAssigned
  <2> QED BY <1>1, <2>2
<1>5. SameKin(Dying, pcb')
  BY <1>4 DEF AssignsStatus, SameKin
<1>6. Proper(pcb') /\ Kids(pcb') = Kids(pcb) /\ OwnParent(pcb')
  BY <1>3, <1>5, KinKept
<1>7. \A p \in PCB : pcb'[p].pid = pcb[p].pid
  BY <1>3, <1>5 DEF SameKin
<1>8. Free' = Free
  BY <1>1 DEF Free
<1>9. PidsDiffer'
  BY <1>1, <1>7, <1>8 DEF FamilyInv, PidsDiffer
<1>10. Reported
  BY <1>8 DEF Reported
<1> QED BY <1>0, <1>1, <1>6, <1>8, <1>9, <1>10 DEF FamilyInv, Proper, Once, Kids, OwnParent

(* The child that exit finds by its pid is the process that dies, unless   *)
(* the block of that one was freed before.                                 *)
LEMMA FamilyExitWakesParent ==
  ASSUME FamilyInv, NEW i, ExitWakesParent(i)
  PROVE  FamilyInv' /\ Reported
<1> DEFINE q == Dying[Parent].children
           c == q[i]
           r == RemoveAt(q, i)
           g == [Dying EXCEPT ![Parent].status = "Running"]
<1>0. PoolInv /\ PoolInv'
  BY PoolsExitWakesParent DEF FamilyInv
<1>1. /\ InUser /\ ~ ExitLoops /\ running \in PCB /\ i \in DOMAIN q
      /\ pcb[c].pid = pcb[running].pid
      /\ UNCHANGED <<init_pcb, last_pid>>
      /\ pcb' = [Dying EXCEPT ![Parent].status = "Running", ![Parent].children = RemoveAt(@, i)]
      /\ pcb_free' = Released(running)
      /\ running' = Parent /\ retval' = pcb[running].pid
  BY <1>0, PoolBasics DEF ExitWakesParent
<1>2. Parent \in PCB
  <2>1. Parent # NULL /\ pcb[running] \in PCBRecord
    BY <1>1, FamilyBasics DEF ExitWakesParent, ParentWaits
  <2> QED BY <2>1 DEF Parent, PCBRecord
<1>3. /\ Dying \in [PCB -> PCBRecord] /\ Proper(Dying) /\ Kids(Dying) = Kids(pcb) /\ OwnParent(Dying)
      /\ Dying[running].children = <<>>
      /\ \A p \in PCB :
           /\ Dying[p].pid = pcb[p].pid
           /\ \A x \in ToSet(Dying[p].children) :
                \/ x \in ToSet(pcb[p].children)
                \/ p = init_pcb /\ x \in ToSet(pcb[running].children)
  BY <1>1, <1>2, FamilyDying, DyingOwnParent
<1>4. q \in Seq(PCB) /\ r \in Seq(PCB) /\ c \in PCB /\ c \in ToSet(q) /\ c \in Kids(pcb)
  <2>1. q \in Seq(PCB) /\ i \in DOMAIN q /\ ToSet(q) \subseteq Kids(Dying)
    BY <1>1, <1>2, <1>3 DEF Proper, Kids
  <2> HIDE DEF q
  <2>2. i \in 1 .. Len(q) /\ c \in PCB /\ c \in ToSet(q)
    BY <2>1 DEF ToSet
  <2> QED BY <1>3, <2>1, <2>2, RemoveAtElements
<1>5. Parent # running
  <2>1. DOMAIN <<>> = {}
    OBVIOUS
  <2> QED BY <1>1, <1>3, <2>1
<1>6. c \notin Free /\ (running \notin Free => c = running)
  BY <1>1, <1>4 DEF FamilyInv, PidsDiffer
<1>7. AssignsStatus(Dying, g, Parent, "Running")
  <2>1. "Running" \in Statuses
    BY DEF Statuses
  <2> QED BY <1>2, <1>3, <2>1, FieldAssigned
<1>8. pcb' = [g EXCEPT ![Parent].children = r]
  <2>1. g[Parent].children = q
    BY <1>2, <1>7 DEF AssignsStatus
  <2>2. pcb' = [g EXCEPT ![Parent].children = RemoveAt(@, i)]
    BY <1>1
  <2> HIDE DEF g, q
  <2> QED BY <2>1, <2>2
<1> HIDE DEF g
<1>9. AssignsChildren(g, pcb', Parent, r)
  BY <1>2, <1>4, <1>7, <1>8, FieldAssigned DEF AssignsStatus
<1>10. Removed(Dying, pcb', Parent, i)
  BY <1>7, <1>9 DEF AssignsStatus, AssignsChildren, Removed
<1>11. /\ Proper(pcb') /\ Kids(pcb') = Kids(pcb) \ {c}
       /\ ToSet(pcb'[Parent].children) = ToSet(q) \ {c}
  <2>1. Proper(Dying) /\ i \in DOMAIN Dying[Parent].children
    BY <1>1, <1>3
  <2> HIDE DEF q, r
  <2>2. /\ Proper(pcb') /\ Kids(pcb') = Kids(Dying) \ {Dying[Parent].children[i]}
        /\ ToSet(pcb'[Parent].children) = ToSet(Dying[Parent].children) \ {Dying[Parent].children[i]}
    BY <1>2, <1>10, <2>1, ChildRemoved
  <2> QED BY <1>3, <2>2 DEF q
<1>12. \A p \in PCB : ToSet(pcb'[p].children) \subseteq ToSet(Dying[p].children)
  BY <1>10, <1>11 DEF Removed
<1>13. \A p \in PCB : pcb'[p].pid = pcb[p].pid /\ pcb'[p].parent = Dying[p].parent
  BY <1>3, <1>7, <1>9 DEF AssignsStatus, AssignsChildren
<1>14. OwnParent(pcb')
  BY <1>3, <1>12, <1>13 DEF OwnParent
<1> HIDE DEF q, r
<1>15. running # init_pcb
  <2>1. init_pcb \notin Free /\ init_pcb \notin Kids(pcb)
    BY DEF FamilyInv
  <2> QED BY <1>4, <1>6, <2>1
<1>16. /\ Kids(pcb') \cap Free' = {} /\ init_pcb' \notin Free' /\ init_pcb' \notin Kids(pcb')
       /\ PidsDiffer'
  <2>1. running \in Free \/ running \notin Kids(pcb')
    BY <1>6, <1>11
  <2> QED BY <1>1, <1>11, <1>13, <1>15, <2>1, FamilyReleased
<1>17. Reported
  <2>1. Free' = Free \cup {running}
    BY <1>0, <1>1, PoolReleased
  <2>2. SUFFICES ASSUME running \notin Free
                 PROVE  running \in ToSet(pcb[Parent].children) /\ running \notin ToSet(pcb'[Parent].children)
    BY <1>1, <2>1 DEF Reported
  <2>3. c = running
    BY <1>6, <2>2
  <2>4. running \notin ToSet(pcb'[Parent].children)
    BY <1>11, <2>3
  <2>5. running \notin ToSet(pcb[running].children)
    BY <1>1, <1>5 DEF FamilyInv, OwnParent, Parent
  <2>6. running \in ToSet(pcb[Parent].children)
    BY <1>2, <1>3, <1>4, <2>3, <2>5 DEF q
  <2> QED BY <2>4, <2>6
<1> QED BY <1>0, <1>11, <1>14, <1>16, <1>17 DEF FamilyInv, Proper, Once, Kids, OwnParent

LEMMA FamilyStep ==
  ASSUME FamilyInv, [Next]_vars
  PROVE  FamilyInv' /\ Reported
<1>1. CASE Rearranges
  BY <1>1, FamilySame
<1>2. CASE Changes
  BY <1>2, FamilyNewChild, FamilyBoot, FamilyWaitReaps, FamilyExitSwitches, FamilyExitWakesParent
     DEF Changes
<1> QED BY <1>1, <1>2, RearrangesOrChanges DEF FamilyInv

LEMMA FamilyStart ==
  ASSUME ProcInit
  PROVE  FamilyInv
<1>1. PoolInv /\ ProcInv
  BY PoolsStart, Start
<1>2. \A p \in PCB : pcb[p].children = <<>>
  BY DEF ProcInit
<1>3. Kids(pcb) = {} /\ Proper(pcb) /\ OwnParent(pcb)
  <2>1. DOMAIN <<>> = {} /\ ToSet(<<>>) = {} /\ <<>> \in Seq(PCB)
    BY DEF ToSet
  <2> QED BY <1>2, <2>1 DEF Kids, Proper, Once, OwnParent
<1>4. PidsDiffer /\ init_pcb \notin Free
  BY <1>1 DEF ProcInv, Families, InitIsOld
<1> QED BY <1>1, <1>3, <1>4 DEF FamilyInv

LEMMA FamilyInvariant == Spec => []FamilyInv
<1>1. Init => FamilyInv
  BY FamilyStart DEF Init
<1>2. FamilyInv /\ [Next]_vars => FamilyInv'
  BY FamilyStep
<1> QED BY <1>1, <1>2, PTL DEF Spec

(* In the whole kernel, whatever happens to the lists, nobody is among the *)
(* children of two processes, nor twice among those of one, nobody whose   *)
(* block is free is a child, and a pid means one process.                  *)
THEOREM KernelAtMostOneOwner == Spec => []AtMostOneOwner
<1>1. FamilyInv => AtMostOneOwner
  BY DEF FamilyInv, AtMostOneOwner, Proper, Once, Kids, ChildrenOf, PidsDiffer
<1> QED BY <1>1, FamilyInvariant, PTL

(* In the whole kernel too a death is reported once, to the one process    *)
(* that has the dead one among its children.                               *)
THEOREM KernelDeathsReported == Spec => DeathsReported
<1>1. FamilyInv /\ [Next]_vars =>
        [\A c \in PCB \ Free : c \in Free' =>
           /\ retval' = pcb[c].pid
           /\ c \in ToSet(pcb[running'].children) /\ c \notin ToSet(pcb'[running'].children)
        ]_<<procVars, kernelVars>>
  BY FamilyStep DEF Reported
<1> QED BY <1>1, FamilyInvariant, PTL DEF Spec, DeathsReported

(* In the whole kernel pointer blocks of semaphores are not shared. *)
THEOREM KernelPtrBlocksSeparate ==
  ASSUME Recycled = PCB
  PROVE  Spec => []PtrBlocksNotShared
BY KernelImplementsSemaphores, PtrBlocksSeparate, PTL

---------------------------------------------------------------------------
(* What goes wrong with the lists of processes in the whole kernel starts  *)
(* with a wait on an exhausted semaphore.  As long as nobody makes one     *)
(* (CalmSpec), whatever else the processes do with semaphores and          *)
(* resources, the invariant of process control holds: the calls of the two *)
(* subsystems write their arguments into the PCB of the caller and nothing *)
(* else.                                                                   *)
SomebodyQueues == \E p \in PCB, fd \in 0 .. MaxFd : SemWaitBlocks(p, fd)
CalmNext == Next /\ ~ SomebodyQueues
CalmSpec == Init /\ [][CalmNext]_vars

NobodyQueued == \A s \in Semaphore : waiting_descriptors[s] = <<>>
CalmInv == ProcInv /\ IInv /\ ResInv /\ NobodyQueued

LEMMA ResultTyped ==
  /\ \A v \in Int : Return(v) => KernelTypeOK'
  /\ Crash => KernelTypeOK'
BY DEF Return, Crash, KernelTypeOK, Modes, NoValue

(* A call that queues nobody and wakes nobody. *)
PlainCall(p) ==
  \/ \E id \in SemIds, oflag \in Oflags, count \in InitialCounts : SemOpenWith(p, id, oflag, count)
  \/ \E fd \in 0 .. MaxFd :
       \/ SemWaitBadFd(p, fd) \/ SemWaitTakes(p, fd) \/ SemWaitNoPtr(p, fd)
       \/ SemPostAdds(p, fd) \/ SemPostCrashes(p, fd) \/ SemClose(p, fd)

LEMMA NobodyToWake ==
  ASSUME CalmInv, NEW p \in PCB, NEW fd, NEW w, SemPostReadies(p, fd, w)
  PROVE  FALSE
<1>1. PICK i \in DOMAIN sem_descriptors[p] : waiting_descriptors[desc_sem[sem_descriptors[p][i]]] # <<>>
  BY DEF SemPostReadies, SemPostWakes
<1>2. desc_sem[sem_descriptors[p][i]] \in Semaphore
  BY FdLeadsToAllocated DEF CalmInv, Allocated
<1>3. waiting_descriptors[desc_sem[sem_descriptors[p][i]]] = <<>>
  BY <1>2, Zenon DEF CalmInv, NobodyQueued
<1> QED BY <1>1, <1>3, Zenon

LEMMA CalmCallIsPlain ==
  ASSUME CalmInv, CalmNext, NEW p \in PCB, SemCall(p)
  PROVE  PlainCall(p) /\ InUser /\ p = running /\ OnlyCalled /\ UNCHANGED resVars
<1>1. ~ (\E q \in PCB, fd \in 0 .. MaxFd : SemWaitBlocks(q, fd))
  BY DEF CalmNext, SomebodyQueues
<1>2. \A fd, w : ~ SemPostReadies(p, fd, w)
  BY NobodyToWake
<1> QED BY <1>1, <1>2 DEF SemCall, OpenCall, WaitCall, PostCall, CloseCall, PlainCall, Calls

LEMMA PlainCallEffect ==
  ASSUME CalmInv, NEW p \in PCB, PlainCall(p)
  PROVE  KernelTypeOK' /\ UNCHANGED waiting_descriptors
<1> USE ResultTyped
<1>1. ASSUME NEW id \in SemIds, NEW oflag \in Oflags, NEW count \in InitialCounts,
             SemOpenWith(p, id, oflag, count)
      PROVE  KernelTypeOK' /\ UNCHANGED waiting_descriptors
  <2>1. last_sem_fd[p] \in Int
    BY DEF CalmInv, IInv, SemTypeOK
  <2>2. ASSUME NEW s \in Semaphore, NEW d \in SemDescriptor, SemOpenOk(p, id, oflag, count, s, d)
        PROVE  KernelTypeOK' /\ UNCHANGED waiting_descriptors
    BY <2>1, <2>2 DEF SemOpenOk
  <2>3. ASSUME NEW s \in Semaphore, SemOpenNoFd(id, oflag, count, s)
        PROVE  KernelTypeOK' /\ UNCHANGED waiting_descriptors
    BY <2>3 DEF SemOpenNoFd, DSOS_ERESOURCENOFD
  <2>4. CASE \/ SemOpenExists(id, oflag) \/ SemOpenNoBlock(id, oflag) \/ SemOpenMissing(id, oflag)
             \/ SemOpenNoExcl(id, oflag) \/ SemOpenNoPtr(id, oflag)
    BY <2>4 DEF SemOpenExists, SemOpenNoBlock, SemOpenMissing, SemOpenNoExcl, SemOpenNoPtr, semVars,
                DSOS_ESEMAPHORECREATE, DSOS_ESEMAPHOREOPEN, DSOS_ESEMAPHORENOEXCL
  <2> QED BY <1>1, <2>2, <2>3, <2>4 DEF SemOpenWith
<1>2. ASSUME NEW fd \in 0 .. MaxFd,
             \/ SemWaitBadFd(p, fd) \/ SemWaitTakes(p, fd) \/ SemWaitNoPtr(p, fd)
             \/ SemPostAdds(p, fd) \/ SemPostCrashes(p, fd) \/ SemClose(p, fd)
      PROVE  KernelTypeOK' /\ UNCHANGED waiting_descriptors
  BY <1>2 DEF SemWaitBadFd, SemWaitTakes, SemWaitNoPtr, SemPostAdds, SemPostCrashes, SemClose,
              SemCloseBadFd, SemCloseOk, semVars, DSOS_ESEMAPHOREWAIT, DSOS_ESEMAPHORECLOSE
<1> QED BY <1>1, <1>2 DEF PlainCall

LEMMA ResCallResult ==
  ASSUME ResInv, NEW p \in PCB, ResSyscall(p)
  PROVE  KernelTypeOK'
<1> USE ResultTyped
<1>1. last_fd[p] \in Int
  BY DEF ResInv, ResTypeOK
<1>2. ASSUME NEW id, NEW type, NEW open_mode,
             \/ OpenExists(id, open_mode) \/ OpenNoBlock(id, open_mode)
             \/ OpenMissing(id, type, open_mode)
      PROVE  KernelTypeOK'
  BY <1>2 DEF OpenExists, OpenNoBlock, OpenMissing, DSOS_ERESOURCECREATE, DSOS_ERESOURCEOPEN
<1>3. ASSUME NEW id, NEW type, NEW open_mode, NEW r, NEW d,
             \/ OpenNoExcl(id, type, open_mode, r) \/ OpenNoFd(id, type, open_mode, r)
             \/ OpenOk(p, id, type, open_mode, r, d)
      PROVE  KernelTypeOK'
  BY <1>1, <1>3 DEF OpenNoExcl, OpenNoFd, OpenOk, DSOS_ERESOURCENOEXCL, DSOS_ERESOURCENOFD
<1>4. ASSUME NEW fd, CloseResource(p, fd) PROVE KernelTypeOK'
  BY <1>4 DEF CloseResource, CloseBadFd, CloseOk, DSOS_ERESOURCECLOSE
<1>5. ASSUME NEW id, DestroyResource(id) PROVE KernelTypeOK'
  BY <1>5 DEF DestroyResource, DestroyMissing, DestroyInUse, DestroyOk, DSOS_ERESOURCECLOSE,
              DSOS_ERESOURCEINUSE
<1> QED BY <1>2, <1>3, <1>4, <1>5 DEF ResSyscall, OpenResource

LEMMA CalmStep ==
  ASSUME Recycled = PCB, CalmInv, [CalmNext]_vars
  PROVE  CalmInv' /\ DeadStay /\ Answered /\ (Found /\ ~ (\E b \in PCB : Boot(b)) => Found')
<1> DEFINE Kept == Found /\ ~ (\E b \in PCB : Boot(b)) => Found'
<1>0. ProcInv /\ KernelTypeOK
  BY DEF CalmInv, ProcInv, ProcTypeOK
<1>1. IInv' /\ ResInv'
  <2>1. [Next]_vars
    BY DEF CalmNext
  <2> QED BY <2>1, StepIsSemStep, StepIsResStep, Inductive, ResInductive DEF CalmInv
<1>2. ASSUME CalmNext PROVE ProcInv' /\ DeadStay /\ Answered /\ Kept /\ UNCHANGED waiting_descriptors
  <2>1. ASSUME NEW p \in PCB, SemCall(p) PROVE ProcInv' /\ DeadStay /\ Answered /\ Kept /\ UNCHANGED waiting_descriptors
    <3>1. PlainCall(p) /\ InUser /\ OnlyCalled
      BY <1>2, <2>1, CalmCallIsPlain
    <3>2. KernelTypeOK' /\ UNCHANGED waiting_descriptors
      BY <3>1, PlainCallEffect
    <3>3. CallWritten(NoWait) /\ NoWait \in WaitArgs \cup {NoWait}
      BY <3>1 DEF OnlyCalled, CallWritten
    <3> QED BY <1>0, <3>1, <3>2, <3>3, CallStep
  <2>2. ASSUME NEW p \in PCB, ResCall(p) PROVE ProcInv' /\ DeadStay /\ Answered /\ Kept /\ UNCHANGED waiting_descriptors
    <3>1. InUser /\ ResSyscall(p) /\ CallWritten(NoWait) /\ NoWait \in WaitArgs \cup {NoWait}
      BY <2>2 DEF ResCall, Calls, OnlyCalled, CallWritten
    <3>2. KernelTypeOK'
      BY <3>1, ResCallResult DEF CalmInv
    <3>3. ProcInv' /\ DeadStay /\ Answered /\ Kept
      BY <1>0, <3>1, <3>2, CallStep
    <3> QED BY <2>2, <3>3 DEF ResCall, semVars
  <2>3. CASE NoTimer
    <3>1. InUser /\ CallWritten(NoWait) /\ NoWait \in WaitArgs \cup {NoWait}
      BY <2>3 DEF NoTimer, SleepFull, CallWritten
    <3>2. KernelTypeOK'
      BY <2>3, ResultTyped DEF NoTimer, SleepFull, DSOS_ESLEEP
    <3>3. ProcInv' /\ DeadStay /\ Answered /\ Kept
      BY <1>0, <3>1, <3>2, CallStep
    <3> QED BY <2>3, <3>3 DEF NoTimer, Alone, semVars
  <2>4. CASE \/ \E p \in PCB : Starts(p) \/ Boots(p) \/ Exits(p)
             \/ Ends \/ Waits \/ Sleeps \/ Preempts \/ Returns
    <3>1. ProcNext /\ UNCHANGED waiting_descriptors
      <4>1. ASSUME NEW p \in PCB, Starts(p) \/ Boots(p) \/ Exits(p)
            PROVE  ProcNext /\ UNCHANGED waiting_descriptors
        BY <4>1 DEF Starts, Boots, Exits, ExitReleases, ExitKeeps, Allocates, NewPCB, semVars,
                    ProcNext, Syscall, Exit
      <4>2. CASE Ends \/ Waits \/ Sleeps \/ Preempts \/ Returns
        BY <4>2, Zenon DEF Ends, Waits, Sleeps, Preempts, Returns, Alone, semVars, ProcNext, Syscall
      <4> QED BY <2>4, <4>1, <4>2
    <3> QED BY <1>0, <3>1, EveryStep
  <2> QED BY <1>2, <2>1, <2>2, <2>3, <2>4 DEF CalmNext, Next
<1>3. CASE UNCHANGED vars
  <2>1. UNCHANGED <<procVars, kernelVars>> /\ UNCHANGED waiting_descriptors
    BY <1>3 DEF vars, semVars
  <2> QED BY <1>0, <1>1, <2>1, QuietSteps DEF CalmInv, NobodyQueued
<1>4. CASE CalmNext
  BY <1>1, <1>2, <1>4 DEF CalmInv, NobodyQueued
<1> QED BY <1>3, <1>4

LEMMA CalmStart == Init => CalmInv
<1>1. SemInit => NobodyQueued
  BY DEF SemInit, NobodyQueued
<1> QED BY <1>1, Start, Initial, ResInitial DEF Init, CalmInv

LEMMA CalmInvariant ==
  ASSUME Recycled = PCB
  PROVE  CalmSpec => []CalmInv
<1>1. Init => CalmInv
  BY CalmStart
<1>2. CalmInv /\ [CalmNext]_vars => CalmInv'
  BY CalmStep
<1> QED BY <1>1, <1>2, PTL DEF CalmSpec

(* In the whole kernel, as long as no wait finds its semaphore exhausted,  *)
(* the lists of processes stay proper.                                     *)
THEOREM CalmListsProper ==
  ASSUME Recycled = PCB
  PROVE  CalmSpec => []ListsOK
<1>1. CalmInv => ListsOK
  BY InvImpliesListsOK DEF CalmInv
<1> QED BY <1>1, CalmInvariant, PTL

(* ... and who waits has a timer or a live child of its own that it asked  *)
(* for, but for the two exceptions in WaitersHaveAWakeup: a wait for a     *)
(* stranger's pid and init's for an adopted child.  No parent waits for an *)
(* own child that is dead already, and every child has one owner.          *)
THEOREM CalmFamilies ==
  ASSUME Recycled = PCB
  PROVE  CalmSpec => [](WaitersHaveAWakeup /\ NoLostWakeup /\ EveryChildHasOneOwner /\ OrphansHungUp)
<1>1. CalmInv => WaitersHaveAWakeup /\ NoLostWakeup /\ EveryChildHasOneOwner /\ OrphansHungUp
  BY InvImpliesWakeup, InvImpliesOneOwner DEF CalmInv, ProcInv, Families
<1> QED BY <1>1, CalmInvariant, PTL

(* ... and the process that runs is not one that waits: WaitersDoNotRun,   *)
(* which the whole kernel violates, fails for no other reason.             *)
THEOREM CalmWaitersDoNotRun ==
  ASSUME Recycled = PCB
  PROVE  CalmSpec => []WaitersDoNotRun
<1>1. CalmInv => WaitersDoNotRun
  BY NamedLists DEF CalmInv, ProcInv, Placed, WaitersDoNotRun
<1> QED BY <1>1, CalmInvariant, PTL

(* ... and the dead stay dead. *)
THEOREM CalmDeadStayDead ==
  ASSUME Recycled = PCB
  PROVE  CalmSpec => DeadStayDead
<1>1. CalmInv /\ [CalmNext]_vars =>
        [\A p \in PCB \ Free :
           pcb[p].status = "Zombie" => pcb'[p].status = "Zombie"]_<<procVars, kernelVars>>
  BY CalmStep DEF DeadStay
<1> QED BY <1>1, CalmInvariant, PTL DEF CalmSpec, DeadStayDead

(* ... and a wait that has blocked is answered by the exit of a child of   *)
(* the caller's own that it asked for, and by nothing else.                *)
THEOREM CalmWaitsAnswered ==
  ASSUME Recycled = PCB
  PROVE  CalmSpec => AnsweredAsAsked
<1>1. CalmInv /\ [CalmNext]_vars =>
        [\A p \in PCB : pcb[p].status = "Waiting" /\ pcb[p].awaiting # NoWait =>
           \/ /\ pcb'[p].status = "Waiting" /\ pcb'[p].awaiting = pcb[p].awaiting
              /\ ChildrenOf(p) \subseteq ChildrenOf(p)'
           \/ /\ running \in OwnChildren(p) /\ AsksFor(p, running)
              /\ running' = p /\ retval' = pcb[running].pid
              /\ ChildrenOf(p) \ ChildrenOf(p)' = {running}
        ]_<<procVars, kernelVars>>
  BY CalmStep DEF Answered
<1> QED BY <1>1, CalmInvariant, PTL DEF CalmSpec, AnsweredAsAsked

(* What is not a step of process control leaves the timers alone. *)
LEMMA OtherSteps ==
  ASSUME [Next]_vars
  PROVE  [ProcNext]_<<procVars, kernelVars>> \/ UNCHANGED timer_list
<1>1. ASSUME NEW p \in PCB, SemCall(p) \/ ResCall(p)
      PROVE  UNCHANGED timer_list
  BY <1>1, Zenon DEF SemCall, ResCall, OpenCall, WaitCall, PostCall, CloseCall, SemWaitBlocks,
                     SemPostReadies, Calls, OnlyCalled
<1>2. CASE NoTimer
  BY <1>2 DEF NoTimer, SleepFull
<1>3. ASSUME NEW p \in PCB, Starts(p) \/ Boots(p) \/ Exits(p)
      PROVE  ProcNext
  BY <1>3 DEF Starts, Boots, Exits, ExitReleases, ExitKeeps, Allocates, NewPCB, ProcNext, Syscall, Exit
<1>4. CASE Ends \/ Waits \/ Sleeps \/ Preempts \/ Returns
  BY <1>4, Zenon DEF Ends, Waits, Sleeps, Preempts, Returns, Alone, ProcNext, Syscall
<1>5. CASE UNCHANGED vars
  BY <1>5 DEF vars
<1> QED BY <1>1, <1>2, <1>3, <1>4, <1>5 DEF Next

LEMMA CalmOnTime ==
  ASSUME CalmInv, [CalmNext]_vars
  PROVE  OnTime
<1>1. ProcInv
  BY DEF CalmInv
<1>2. CASE [ProcNext]_<<procVars, kernelVars>>
  BY <1>1, <1>2, StepOnTime
<1>3. CASE UNCHANGED timer_list
  <2>1. Sleepers \subseteq Sleepers'
    BY <1>3 DEF Sleepers
  <2> QED BY <1>1, <2>1, QuietOnTime
<1>4. [Next]_vars
  BY DEF CalmNext
<1> QED BY <1>2, <1>3, <1>4, OtherSteps

(* ... and nobody wakes early, nor is passed over when due. *)
THEOREM CalmWakesOnTime ==
  ASSUME Recycled = PCB
  PROVE  CalmSpec => WakesOnTime
<1>1. CalmInv /\ [CalmNext]_vars =>
        [/\ \A i \in DOMAIN timer_list :
              timer_list[i].pcb \notin Sleepers' =>
                timer_list[i].left <= IF TimerInterrupt THEN 1 ELSE 0
         /\ TimerInterrupt =>
              /\ \A i \in DOMAIN timer_list' : timer_list'[i].left > 0
              /\ timer_list # <<>> /\ timer_list[1].left <= 1 => running' = timer_list[1].pcb
        ]_<<procVars, kernelVars>>
  BY CalmOnTime DEF OnTime
<1> QED BY <1>1, CalmInvariant, PTL DEF CalmSpec, WakesOnTime

(* ... and as long as boot code makes no second init process, every process *)
(* that can run is running or in the ready list: a post cuts nobody off     *)
(* unless somebody had to wait.                                             *)
CalmOneBootSpec == Init /\ [][CalmNext /\ ~ (\E b \in PCB : Boot(b))]_vars

THEOREM CalmNobodyStranded ==
  ASSUME Recycled = PCB
  PROVE  CalmOneBootSpec => [](NobodyLost /\ NobodyStranded)
<1>1. Init => CalmInv /\ Found
  BY CalmStart, Start DEF Init
<1>2. CalmInv /\ Found /\ [CalmNext /\ ~ (\E b \in PCB : Boot(b))]_vars => CalmInv' /\ Found'
  <2> SUFFICES ASSUME CalmInv, Found, [CalmNext /\ ~ (\E b \in PCB : Boot(b))]_vars
               PROVE  CalmInv' /\ Found'
    OBVIOUS
  <2>1. CASE UNCHANGED vars
    <3>1. CalmInv'
      BY <2>1, CalmStep
    <3>2. Found'
      BY <2>1 DEF vars, procVars, Found, ReadyOnes, In, Free
    <3> QED BY <3>1, <3>2
  <2>2. CASE CalmNext /\ ~ (\E b \in PCB : Boot(b))
    BY <2>2, CalmStep
  <2> QED BY <2>1, <2>2
<1>3. CalmInv /\ Found => NobodyLost /\ NobodyStranded
  BY NamedLists DEF CalmInv, Found, NobodyLost, NobodyStranded
<1> QED BY <1>1, <1>2, <1>3, PTL DEF CalmOneBootSpec
=============================================================================
