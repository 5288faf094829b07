-------------------------- MODULE ProcessesProofs --------------------------
(***************************************************************************)
(* What process control guarantees for every number of PCBs, pids and      *)
(* sleeping times.                                                         *)
(***************************************************************************)
EXTENDS Processes, SequenceLemmas

LP == INSTANCE LinkedListProofs WITH ListItem <- PCB, ListHead <- {"ready", "waiting", "zombie"}

---------------------------------------------------------------------------
(* The three lists as sets: store L is proper and keeps A, B and C in the  *)
(* ready, the waiting and the zombie list.                                 *)
Heads    == {"ready", "waiting", "zombie"}
Steps    == MAX_NUM_PROCESSES + 1
In(L, h) == ToSet(LL!Walk(L, h, Steps))

Lists(L, A, B, C) ==
  LP!Proper(L) /\ In(L, "ready") = A /\ In(L, "waiting") = B /\ In(L, "zombie") = C

LEMMA PCBsAreFinite ==
  /\ IsFiniteSet(PCB) /\ Cardinality(PCB) = MAX_NUM_PROCESSES
  /\ NULL \notin PCB /\ MAX_NUM_PROCESSES \in Nat
BY MaxProcessesAssumption, FS_Interval DEF PCB, NULL

(* A sequence of PCBs without repetitions is not longer than the pool. *)
LEMMA ShortSequences ==
  ASSUME NEW q \in Seq(PCB), \A i, j \in 1 .. Len(q) : q[i] = q[j] => i = j
  PROVE  Len(q) <= MAX_NUM_PROCESSES
<1>1. DOMAIN q = 1 .. Len(q) /\ ToSet(q) \in SUBSET PCB
  BY DEF ToSet
<1>2. IsFiniteSet(ToSet(q)) /\ Cardinality(ToSet(q)) = Len(q)
  BY <1>1, DistinctElements
<1>3. Cardinality(ToSet(q)) <= Cardinality(PCB)
  BY <1>1, PCBsAreFinite, FS_Subset
<1> QED BY <1>2, <1>3, PCBsAreFinite

LEMMA WalkIsLongEnough == LP!Enough(Steps)
<1>1. \A q \in Seq(PCB) : (\A i, j \in 1 .. Len(q) : q[i] = q[j] => i = j) => Len(q) <= Steps
  BY ShortSequences, PCBsAreFinite DEF Steps
<1> QED BY <1>1, PCBsAreFinite DEF LP!Enough, Steps

(* The operations are those the lemmas about linked lists speak of. *)
LEMMA SameOperations ==
  /\ \A L, h, x : LL!Enlist(L, h, x) = LP!Enlist(L, h, x)
  /\ \A L, h, b, x : LL!List_insert(L, h, b, x) = LP!List_insert(L, h, b, x)
  /\ \A L, h, x : LL!List_detach(L, h, x) = LP!List_detach(L, h, x)
  /\ \A L, x : LL!Fresh(L, x) = LP!Fresh(L, x)
  /\ LL!Empty = LP!Empty /\ LL!Store = LP!Store
<1>1. \A L, h, b, x : LL!List_insert(L, h, b, x) = LP!List_insert(L, h, b, x)
  BY DEF LL!List_insert, LP!List_insert, LL!At, LP!At, LL!Linked, LP!Linked
<1>2. \A L, h, x : LL!Enlist(L, h, x) = LP!Enlist(L, h, x)
  BY <1>1 DEF LL!Enlist, LP!Enlist
<1>3. \A L, h, x : LL!List_detach(L, h, x) = LP!List_detach(L, h, x)
  BY DEF LL!List_detach, LP!List_detach, LL!At, LP!At
<1>4. \A L, x : LL!Fresh(L, x) = LP!Fresh(L, x)
  BY DEF LL!Fresh, LP!Fresh
<1>5. LL!Empty = LP!Empty /\ LL!Store = LP!Store
  BY DEF LL!Empty, LP!Empty, LL!Store, LP!Store
<1> QED BY <1>1, <1>2, <1>3, <1>4, <1>5

LEMMA SameItems ==
  /\ \A L, h : In(L, h) = LP!Items(L, h, Steps)
  /\ \A L, h, q : LL!Holds(L, h, q) <=> LP!Holds(L, h, q)
  /\ \A L, h : LL!Walk(L, h, Steps) = LP!Walk(L, h, Steps)
BY DEF LP!Items, In, LP!Walk, LL!Walk, LP!ToSet, ToSet, LL!Holds, LP!Holds

LEMMA ListsFacts ==
  ASSUME NEW L, NEW A, NEW B, NEW C, Lists(L, A, B, C)
  PROVE  /\ A \in SUBSET PCB /\ B \in SUBSET PCB /\ C \in SUBSET PCB
         /\ A \cap B = {} /\ A \cap C = {} /\ B \cap C = {}
         /\ L.first["ready"] = NULL => A = {}
         /\ L.first["ready"] # NULL => L.first["ready"] \in A
         /\ L \in LL!Store
         /\ \A h \in Heads : LL!Holds(L, h, LL!Walk(L, h, Steps))
<1> DEFINE S(h) == LP!Items(L, h, Steps)
<1>1. /\ L \in LP!Store
      /\ \A h \in Heads :
           /\ LP!Holds(L, h, LP!Walk(L, h, Steps))
           /\ S(h) \in SUBSET PCB
           /\ L.first[h] = NULL <=> S(h) = {}
           /\ L.first[h] # NULL => L.first[h] \in S(h)
      /\ \A g, h \in Heads : g # h => S(g) \cap S(h) = {}
  BY WalkIsLongEnough, LP!ProperLists DEF Lists, Heads
<1>2. S("ready") = A /\ S("waiting") = B /\ S("zombie") = C
  BY SameItems DEF Lists
<1>3. "ready" \in Heads /\ "waiting" \in Heads /\ "zombie" \in Heads
  BY DEF Heads
<1> HIDE DEF S
<1>4. \A h \in Heads : LL!Holds(L, h, LL!Walk(L, h, Steps))
  BY <1>1, SameItems
<1>5. A \cap B = {} /\ A \cap C = {} /\ B \cap C = {}
  BY <1>1, <1>2, <1>3
<1>6. L.first["ready"] = NULL => A = {}
  BY <1>1, <1>2, <1>3
<1> QED BY <1>1, <1>2, <1>3, <1>4, <1>5, <1>6, SameOperations

---------------------------------------------------------------------------
(* What the list operations do to the three sets. *)
LEMMA FreshItem ==
  ASSUME NEW L, NEW A, NEW B, NEW C, Lists(L, A, B, C),
         NEW x \in PCB, x \notin A, x \notin B, x \notin C
  PROVE  Lists(LL!Fresh(L, x), A, B, C)
<1>1. LP!Proper(L) /\ LP!InNoList(L, x, Steps)
  BY SameItems DEF Lists, LP!InNoList
<1>2. LL!Fresh(L, x) = L
  BY <1>1, WalkIsLongEnough, SameOperations, LP!FreshItems
<1> QED BY <1>2

LEMMA Entering ==
  ASSUME NEW L, NEW A, NEW B, NEW C, Lists(L, A, B, C),
         NEW x \in PCB, x \notin A, x \notin B, x \notin C
  PROVE  /\ Lists(LL!Enlist(L, "ready", x), A \cup {x}, B, C)
         /\ Lists(LL!Enlist(L, "waiting", x), A, B \cup {x}, C)
         /\ Lists(LL!Enlist(L, "zombie", x), A, B, C \cup {x})
         /\ \A b : b = NULL \/ b \in A => Lists(LL!List_insert(L, "ready", b, x), A \cup {x}, B, C)
<1>1. LP!Proper(L) /\ LP!InNoList(L, x, Steps)
  BY SameItems DEF Lists, LP!InNoList
<1>2. \A h \in Heads : LP!Gains(LL!Enlist(L, h, x), L, h, x, Steps)
  BY <1>1, WalkIsLongEnough, SameOperations, LP!EnlistItems DEF Heads
<1>4. ASSUME NEW M, NEW h \in Heads, LP!Gains(M, L, h, x, Steps)
      PROVE  Lists(M, IF h = "ready" THEN A \cup {x} ELSE A,
                      IF h = "waiting" THEN B \cup {x} ELSE B,
                      IF h = "zombie" THEN C \cup {x} ELSE C)
  BY <1>4, SameItems DEF LP!Gains, Lists, Heads
<1>5. ASSUME NEW b, b = NULL \/ b \in A
      PROVE  LP!Gains(LL!List_insert(L, "ready", b, x), L, "ready", x, Steps)
  <2>1. b = NULL \/ b \in LP!Items(L, "ready", Steps)
    BY <1>5, SameItems DEF Lists
  <2> QED BY <1>1, <2>1, WalkIsLongEnough, SameOperations, LP!InsertItems
<1>6. "ready" \in Heads /\ "waiting" \in Heads /\ "zombie" \in Heads
  BY DEF Heads
<1>7. Lists(LL!Enlist(L, "ready", x), A \cup {x}, B, C)
  BY <1>2, <1>4, <1>6
<1>8. Lists(LL!Enlist(L, "waiting", x), A, B \cup {x}, C)
  BY <1>2, <1>4, <1>6
<1>9. Lists(LL!Enlist(L, "zombie", x), A, B, C \cup {x})
  BY <1>2, <1>4, <1>6
<1>10. \A b : b = NULL \/ b \in A => Lists(LL!List_insert(L, "ready", b, x), A \cup {x}, B, C)
  BY <1>4, <1>5, <1>6
<1> QED BY <1>7, <1>8, <1>9, <1>10

LEMMA Leaving ==
  ASSUME NEW L, NEW A, NEW B, NEW C, Lists(L, A, B, C), NEW x
  PROVE  /\ x \in A => Lists(LL!List_detach(L, "ready", x), A \ {x}, B, C)
         /\ x \in B => Lists(LL!List_detach(L, "waiting", x), A, B \ {x}, C)
         /\ x \in C => Lists(LL!List_detach(L, "zombie", x), A, B, C \ {x})
<1>1. LP!Proper(L)
  BY DEF Lists
<1>2. ASSUME NEW h \in Heads, x \in LP!Items(L, h, Steps)
      PROVE  LP!Loses(LL!List_detach(L, h, x), L, h, x, Steps)
  BY <1>1, <1>2, WalkIsLongEnough, SameOperations, LP!DetachItems DEF Heads
<1>3. ASSUME NEW M, NEW h \in Heads, LP!Loses(M, L, h, x, Steps)
      PROVE  Lists(M, IF h = "ready" THEN A \ {x} ELSE A,
                      IF h = "waiting" THEN B \ {x} ELSE B,
                      IF h = "zombie" THEN C \ {x} ELSE C)
  BY <1>3, SameItems DEF LP!Loses, Lists, Heads
<1>4. "ready" \in Heads /\ "waiting" \in Heads /\ "zombie" \in Heads
  BY DEF Heads
<1>5. /\ LP!Items(L, "ready", Steps) = A /\ LP!Items(L, "waiting", Steps) = B
      /\ LP!Items(L, "zombie", Steps) = C
  BY SameItems DEF Lists
<1>6. x \in A => Lists(LL!List_detach(L, "ready", x), A \ {x}, B, C)
  BY <1>2, <1>3, <1>4, <1>5
<1>7. x \in B => Lists(LL!List_detach(L, "waiting", x), A, B \ {x}, C)
  BY <1>2, <1>3, <1>4, <1>5
<1>8. x \in C => Lists(LL!List_detach(L, "zombie", x), A, B, C \ {x})
  BY <1>2, <1>3, <1>4, <1>5
<1> QED BY <1>6, <1>7, <1>8
---------------------------------------------------------------------------
(* The inductive invariant.  What the runs check is not inductive: that    *)
(* the lists stay proper rests on who is where (a list operation tests     *)
(* nothing), who is where on the families (a reaped child, or the parent   *)
(* that an exit wakes, must be in the list it is taken from), and the      *)
(* families on the pool and the pids (a wait that scans for a pid must     *)
(* find the one child that has it).                                        *)
ReadyOnes == In(lists, "ready")
Waiters   == In(lists, "waiting")
Zombies   == In(lists, "zombie")
Owned     == UNION {ChildrenOf(p) : p \in PCB}

(* Who is where, and the status that goes with it.  A status of "Running"  *)
(* or "Ready" says little: boot code leaves processes behind.              *)
Placed ==
  /\ running \notin ReadyOnes /\ running \notin Waiters /\ running \notin Zombies
  /\ running \notin Free
  /\ Free \cap ReadyOnes = {} /\ Free \cap Waiters = {} /\ Free \cap Zombies = {}
  /\ \A p \in ReadyOnes : pcb[p].status = "Ready"
  /\ \A p \in PCB : p \in Waiters <=> pcb[p].status = "Waiting"
  /\ \A p \in PCB : p \in Zombies <=> pcb[p].status = "Zombie" /\ p \notin Free
  /\ \A p \in PCB \ Free : pcb[p].status # "Created"
  /\ running # NULL => pcb[running].status \in {"Running", "Ready"}
  /\ InUser => running # NULL

(* The pool: a free block has no life left in it. *)
FreeOK ==
  /\ \A i, j \in DOMAIN pcb_free : pcb_free[i] = pcb_free[j] => i = j
  /\ \A p \in Free : pcb[p].status \in {"Created", "Zombie"}
  /\ \A p \in PCB : pcb[p].status \in {"Created", "Zombie"} => pcb[p].children = <<>>

(* Parents and children. *)
InitIsOld ==
  /\ init_pcb \notin Free /\ pcb[init_pcb].parent = NULL
  /\ \A p \in PCB \ Free : pcb[p].parent = NULL => pcb[p].status # "Zombie"
  /\ \A p \in PCB : pcb[p].parent # p

OwnedOnce ==
  \A p, q \in PCB : \A i \in DOMAIN pcb[p].children, j \in DOMAIN pcb[q].children :
    pcb[p].children[i] = pcb[q].children[j] => p = q /\ i = j

OwnedAreLive == \A c \in Owned : c \notin Free /\ pcb[c].parent # NULL

LiveAreOwned == \A c \in PCB \ Free : pcb[c].parent # NULL => c \in Owned

PidsDiffer ==
  /\ \A p \in PCB \ Free : pcb[p].pid < last_pid
  /\ \A p, q \in PCB \ Free : pcb[p].pid = pcb[q].pid => p = q

Families == InitIsOld /\ OwnedOnce /\ OwnedAreLive /\ LiveAreOwned /\ PidsDiffer /\ OrphansHungUp

(* Whoever waits has a timer, or children and is in the call wait. *)
InOrder(timers) ==
  \A i, j \in DOMAIN timers : i < j =>
    timers[i].left <= timers[j].left /\ timers[i].pcb # timers[j].pcb

Timers ==
  /\ Sleepers \subseteq Waiters
  /\ \A p \in Waiters : p \in Sleepers <=> pcb[p].awaiting = NoWait
  /\ \A p \in Waiters : pcb[p].awaiting # NoWait => ChildrenOf(p) # {}
  /\ InOrder(timer_list)

PtrBlocks == pcbptr_free + Cardinality(Owned) <= MAX_NUM_PROCESSES

ProcInv ==
  /\ ProcTypeOK /\ LP!Proper(lists)
  /\ Placed /\ FreeOK /\ Families /\ Timers /\ PtrBlocks /\ NoLostWakeup

PCBRecord == [pid : 0 .. MaxPid, status : Statuses, parent : PCB \cup {NULL},
              children : Seq(PCB), awaiting : WaitArgs \cup {NoWait},
              signals : SUBSET {"SIGCHLD", "SIGHUP"}]

(* A step that keeps all but the machine's mode and the last result. *)
LEMMA QuietStep ==
  ASSUME ProcInv, UNCHANGED procVars, KernelTypeOK', InUser' => InUser
  PROVE  ProcInv'
<1> USE DEF procVars
<1>1. ProcTypeOK'
  BY DEF ProcInv, ProcTypeOK
<1>2. /\ ReadyOnes' = ReadyOnes /\ Waiters' = Waiters /\ Zombies' = Zombies
      /\ Free' = Free /\ Sleepers' = Sleepers
      /\ \A p : ChildrenOf(p)' = ChildrenOf(p)
  BY DEF ReadyOnes, Waiters, Zombies, In, Free, Sleepers, ChildrenOf
<1>3. Owned' = Owned
  BY <1>2 DEF Owned
<1>4. Placed'
  BY <1>2 DEF ProcInv, Placed
<1>5. FreeOK' /\ PtrBlocks' /\ LP!Proper(lists)'
  BY <1>2, <1>3 DEF ProcInv, FreeOK, PtrBlocks
<1>6. Families'
  <2>1. InitIsOld' /\ OwnedOnce'
    BY <1>2 DEF ProcInv, Families, InitIsOld, OwnedOnce
  <2>2. OwnedAreLive' /\ LiveAreOwned' /\ PidsDiffer'
    BY <1>2, <1>3 DEF ProcInv, Families, OwnedAreLive, LiveAreOwned, PidsDiffer
  <2>3. OrphansHungUp'
    BY <1>2 DEF ProcInv, Families, OrphansHungUp
  <2> QED BY <2>1, <2>2, <2>3 DEF Families
<1>7. Timers'
  BY <1>2 DEF ProcInv, Timers
<1>8. NoLostWakeup'
  BY <1>2 DEF ProcInv, NoLostWakeup, InList, ReadyOnes, Waiters, In, Steps
<1> QED BY <1>1, <1>4, <1>5, <1>6, <1>7, <1>8 DEF ProcInv

(* A step that changes neither pools nor families: at most who runs, who   *)
(* is ready and who waits.                                                 *)
FamiliesUnchanged ==
  /\ UNCHANGED <<init_pcb, last_pid, pcb_free, pcbptr_free>>
  /\ \A p \in PCB :
       /\ pcb'[p].pid = pcb[p].pid /\ pcb'[p].parent = pcb[p].parent
       /\ pcb'[p].children = pcb[p].children /\ pcb'[p].signals = pcb[p].signals
       /\ pcb'[p].status = "Zombie" <=> pcb[p].status = "Zombie"
       /\ pcb'[p].status = "Created" <=> pcb[p].status = "Created"

LEMMA SameFamilies ==
  ASSUME ProcInv, FamiliesUnchanged
  PROVE  FreeOK' /\ Families' /\ PtrBlocks'
<1> USE DEF FamiliesUnchanged
<1>1. Free' = Free /\ Free \in SUBSET PCB /\ init_pcb \in PCB
  BY DEF Free, ProcInv, ProcTypeOK, ToSet
<1>2. \A p \in PCB : ChildrenOf(p)' = ChildrenOf(p) /\ ChildrenOf(p) \in SUBSET PCB
  <2>1. \A p \in PCB : pcb[p].children \in Seq(PCB)
    BY DEF ProcInv, ProcTypeOK
  <2> QED BY <2>1 DEF ChildrenOf, ToSet
<1>3. Owned' = Owned /\ Owned \in SUBSET PCB
  BY <1>2 DEF Owned
<1>4. FreeOK' /\ PtrBlocks'
  BY <1>1, <1>3 DEF ProcInv, FreeOK, PtrBlocks
<1>5. InitIsOld' /\ OwnedOnce'
  BY <1>1 DEF ProcInv, Families, InitIsOld, OwnedOnce
<1>6. OwnedAreLive' /\ LiveAreOwned' /\ PidsDiffer'
  BY <1>1, <1>3 DEF ProcInv, Families, OwnedAreLive, LiveAreOwned, PidsDiffer
<1>7. OrphansHungUp'
  BY <1>1, <1>2 DEF ProcInv, Families, OrphansHungUp
<1> QED BY <1>4, <1>5, <1>6, <1>7 DEF Families

---------------------------------------------------------------------------
(* What every proof about a step starts from. *)
LEMMA Basics ==
  ASSUME ProcInv
  PROVE  /\ pcb \in [PCB -> PCBRecord] /\ running \in PCB \cup {NULL} /\ init_pcb \in PCB
         /\ Free \in SUBSET PCB /\ Owned \in SUBSET PCB
         /\ \A p \in PCB : /\ pcb[p].children \in Seq(PCB) /\ ChildrenOf(p) \in SUBSET PCB
                           /\ \A c : c \in ChildrenOf(p) <=>
                                       \E i \in DOMAIN pcb[p].children : c = pcb[p].children[i]
                           /\ ChildrenOf(p) \in SUBSET Owned
         /\ \A c : c \in Owned <=> \E p \in PCB : c \in ChildrenOf(p)
         /\ Lists(lists, ReadyOnes, Waiters, Zombies)
         /\ ReadyOnes \in SUBSET PCB /\ Waiters \in SUBSET PCB /\ Zombies \in SUBSET PCB
         /\ ReadyOnes \cap Waiters = {} /\ ReadyOnes \cap Zombies = {} /\ Waiters \cap Zombies = {}
         /\ FirstReady = NULL => ReadyOnes = {}
         /\ FirstReady # NULL => FirstReady \in ReadyOnes
<1>1. pcb \in [PCB -> PCBRecord] /\ running \in PCB \cup {NULL} /\ init_pcb \in PCB
  BY DEF ProcInv, ProcTypeOK, PCBRecord
<1>2. Free \in SUBSET PCB
  BY DEF ProcInv, ProcTypeOK, Free, ToSet
<1>3. \A p \in PCB : /\ pcb[p].children \in Seq(PCB) /\ ChildrenOf(p) \in SUBSET PCB
                     /\ \A c : c \in ChildrenOf(p) <=>
                                 \E i \in DOMAIN pcb[p].children : c = pcb[p].children[i]
  <2>1. \A p \in PCB : pcb[p].children \in Seq(PCB)
    BY <1>1 DEF PCBRecord
  <2> QED BY <2>1 DEF ChildrenOf, ToSet
<1>4. /\ Owned \in SUBSET PCB /\ \A c : c \in Owned <=> \E p \in PCB : c \in ChildrenOf(p)
      /\ \A p \in PCB : ChildrenOf(p) \in SUBSET Owned
  BY <1>3 DEF Owned
<1>5. Lists(lists, ReadyOnes, Waiters, Zombies)
  BY DEF ProcInv, Lists, ReadyOnes, Waiters, Zombies
<1>6. /\ ReadyOnes \in SUBSET PCB /\ Waiters \in SUBSET PCB /\ Zombies \in SUBSET PCB
      /\ ReadyOnes \cap Waiters = {} /\ ReadyOnes \cap Zombies = {} /\ Waiters \cap Zombies = {}
      /\ FirstReady = NULL => ReadyOnes = {}
      /\ FirstReady # NULL => FirstReady \in ReadyOnes
  BY <1>5, ListsFacts DEF FirstReady
<1> QED BY <1>1, <1>2, <1>3, <1>4, <1>5, <1>6

(* The lists after a step. *)
LEMMA NextLists ==
  ASSUME NEW A, NEW B, NEW C, Lists(lists', A, B, C)
  PROVE  /\ LP!Proper(lists)' /\ (lists \in LL!Store)'
         /\ ReadyOnes' = A /\ Waiters' = B /\ Zombies' = C
<1>1. lists' \in LL!Store
  BY ListsFacts
<1> QED BY <1>1 DEF Lists, ReadyOnes, Waiters, Zombies, In

(* A process that has called exit stays a zombie, a wait is answered as it *)
(* was asked, and everybody who can run is running or ready: what the      *)
(* steps do to these, without the temporal operators.                      *)
Reported ==
  \A c \in PCB \ Free : c \in Free' =>
    /\ retval' = pcb[c].pid
    /\ c \in ToSet(pcb[running'].children) /\ c \notin ToSet(pcb'[running'].children)
DeadStay == \A p \in PCB \ Free : pcb[p].status = "Zombie" => pcb'[p].status = "Zombie"
Answered ==
  \A p \in PCB : pcb[p].status = "Waiting" /\ pcb[p].awaiting # NoWait =>
    \/ /\ pcb'[p].status = "Waiting" /\ pcb'[p].awaiting = pcb[p].awaiting
       /\ ChildrenOf(p) \subseteq ChildrenOf(p)'
    \/ /\ running \in OwnChildren(p) /\ AsksFor(p, running)
       /\ running' = p /\ retval' = pcb[running].pid
       /\ ChildrenOf(p) \ ChildrenOf(p)' = {running}
Found == \A p \in PCB \ Free : pcb[p].status \in {"Ready", "Running"} => p = running \/ p \in ReadyOnes

(* Most steps leave everybody who is in the call wait alone. *)
LEMMA WaitsGoOn ==
  ASSUME ProcInv,
         \A p \in Waiters : pcb[p].awaiting # NoWait =>
           /\ pcb'[p].status = pcb[p].status /\ pcb'[p].awaiting = pcb[p].awaiting
           /\ ChildrenOf(p) \subseteq ChildrenOf(p)'
  PROVE  Answered
BY DEF Answered, ProcInv, Placed

---------------------------------------------------------------------------
(* One field of one PCB is assigned to. *)
AssignsStatus(f, g, x, v) ==
  /\ g \in [PCB -> PCBRecord]
  /\ \A p \in PCB :
       /\ g[p].pid = f[p].pid /\ g[p].parent = f[p].parent /\ g[p].children = f[p].children
       /\ g[p].awaiting = f[p].awaiting /\ g[p].signals = f[p].signals
       /\ g[p].status = IF p = x THEN v ELSE f[p].status

AssignsChildren(f, g, x, v) ==
  /\ g \in [PCB -> PCBRecord]
  /\ \A p \in PCB :
       /\ g[p].pid = f[p].pid /\ g[p].parent = f[p].parent /\ g[p].status = f[p].status
       /\ g[p].awaiting = f[p].awaiting /\ g[p].signals = f[p].signals
       /\ g[p].children = IF p = x THEN v ELSE f[p].children

AssignsAwaiting(f, g, x, v) ==
  /\ g \in [PCB -> PCBRecord]
  /\ \A p \in PCB :
       /\ g[p].pid = f[p].pid /\ g[p].parent = f[p].parent /\ g[p].children = f[p].children
       /\ g[p].status = f[p].status /\ g[p].signals = f[p].signals
       /\ g[p].awaiting = IF p = x THEN v ELSE f[p].awaiting

AssignsSignals(f, g, x, v) ==
  /\ g \in [PCB -> PCBRecord]
  /\ \A p \in PCB :
       /\ g[p].pid = f[p].pid /\ g[p].parent = f[p].parent /\ g[p].children = f[p].children
       /\ g[p].status = f[p].status /\ g[p].awaiting = f[p].awaiting
       /\ g[p].signals = IF p = x THEN v ELSE f[p].signals

LEMMA FieldAssigned ==
  ASSUME NEW f \in [PCB -> PCBRecord], NEW x \in PCB
  PROVE  /\ \A v \in Statuses : AssignsStatus(f, [f EXCEPT ![x].status = v], x, v)
         /\ \A v \in Seq(PCB) : AssignsChildren(f, [f EXCEPT ![x].children = v], x, v)
         /\ \A v \in WaitArgs \cup {NoWait} : AssignsAwaiting(f, [f EXCEPT ![x].awaiting = v], x, v)
         /\ \A v \in SUBSET {"SIGCHLD", "SIGHUP"} : AssignsSignals(f, [f EXCEPT ![x].signals = v], x, v)
<1>1. ASSUME NEW v \in Statuses PROVE AssignsStatus(f, [f EXCEPT ![x].status = v], x, v)
  <2> DEFINE r == [f[x] EXCEPT !.status = v]
             g == [f EXCEPT ![x] = r]
  <2>1. /\ r \in PCBRecord /\ r.status = v /\ r.pid = f[x].pid /\ r.parent = f[x].parent
        /\ r.children = f[x].children /\ r.awaiting = f[x].awaiting /\ r.signals = f[x].signals
    BY DEF PCBRecord
  <2> HIDE DEF r
  <2>2. AssignsStatus(f, g, x, v)
    BY <2>1 DEF AssignsStatus
  <2> QED BY <2>2 DEF r
<1>2. ASSUME NEW v \in Seq(PCB) PROVE AssignsChildren(f, [f EXCEPT ![x].children = v], x, v)
  <2> DEFINE r == [f[x] EXCEPT !.children = v]
             g == [f EXCEPT ![x] = r]
  <2>1. /\ r \in PCBRecord /\ r.status = f[x].status /\ r.pid = f[x].pid /\ r.parent = f[x].parent
        /\ r.children = v /\ r.awaiting = f[x].awaiting /\ r.signals = f[x].signals
    BY DEF PCBRecord
  <2> HIDE DEF r
  <2>2. AssignsChildren(f, g, x, v)
    BY <2>1 DEF AssignsChildren
  <2> QED BY <2>2 DEF r
<1>3. ASSUME NEW v \in WaitArgs \cup {NoWait} PROVE AssignsAwaiting(f, [f EXCEPT ![x].awaiting = v], x, v)
  <2> DEFINE r == [f[x] EXCEPT !.awaiting = v]
             g == [f EXCEPT ![x] = r]
  <2>1. /\ r \in PCBRecord /\ r.status = f[x].status /\ r.pid = f[x].pid /\ r.parent = f[x].parent
        /\ r.children = f[x].children /\ r.awaiting = v /\ r.signals = f[x].signals
    BY DEF PCBRecord
  <2> HIDE DEF r
  <2>2. AssignsAwaiting(f, g, x, v)
    BY <2>1 DEF AssignsAwaiting
  <2> QED BY <2>2 DEF r
<1>4. ASSUME NEW v \in SUBSET {"SIGCHLD", "SIGHUP"}
      PROVE  AssignsSignals(f, [f EXCEPT ![x].signals = v], x, v)
  <2> DEFINE r == [f[x] EXCEPT !.signals = v]
             g == [f EXCEPT ![x] = r]
  <2>1. /\ r \in PCBRecord /\ r.status = f[x].status /\ r.pid = f[x].pid /\ r.parent = f[x].parent
        /\ r.children = f[x].children /\ r.awaiting = f[x].awaiting /\ r.signals = v
    BY DEF PCBRecord
  <2> HIDE DEF r
  <2>2. AssignsSignals(f, g, x, v)
    BY <2>1 DEF AssignsSignals
  <2> QED BY <2>2 DEF r
<1> QED BY <1>1, <1>2, <1>3, <1>4

(* The arguments of a call are all that it writes to the caller at first. *)
LEMMA CalledFields ==
  ASSUME ProcInv, running \in PCB, NEW arg \in WaitArgs \cup {NoWait}
  PROVE  /\ Called(arg) \in [PCB -> PCBRecord]
         /\ Called(arg)[running].awaiting = arg
         /\ \A p \in PCB :
              /\ p # running => Called(arg)[p] = pcb[p]
              /\ Called(arg)[p].pid = pcb[p].pid /\ Called(arg)[p].status = pcb[p].status
              /\ Called(arg)[p].parent = pcb[p].parent
              /\ Called(arg)[p].children = pcb[p].children
              /\ Called(arg)[p].signals = pcb[p].signals
<1>1. pcb \in [PCB -> PCBRecord]
  BY Basics
<1>2. Called(arg) = [pcb EXCEPT ![running] = [pcb[running] EXCEPT !.awaiting = arg]]
  BY <1>1 DEF Called
<1>3. [pcb[running] EXCEPT !.awaiting = arg] \in PCBRecord
  BY <1>1 DEF PCBRecord
<1>4. /\ Called(arg) \in [PCB -> PCBRecord]
      /\ Called(arg)[running] = [pcb[running] EXCEPT !.awaiting = arg]
      /\ \A p \in PCB : p # running => Called(arg)[p] = pcb[p]
  BY <1>1, <1>2, <1>3
<1> QED BY <1>1, <1>4 DEF PCBRecord

LEMMA StatusSet ==
  ASSUME NEW r \in PCBRecord, NEW s \in Statuses, NEW new, new = [r EXCEPT !.status = s]
  PROVE  /\ new \in PCBRecord /\ new.status = s
         /\ new.pid = r.pid /\ new.parent = r.parent /\ new.children = r.children
         /\ new.awaiting = r.awaiting /\ new.signals = r.signals
BY DEF PCBRecord

LEMMA ChildrenSet ==
  ASSUME NEW r \in PCBRecord, NEW q \in Seq(PCB), NEW new, new = [r EXCEPT !.children = q]
  PROVE  /\ new \in PCBRecord /\ new.children = q
         /\ new.pid = r.pid /\ new.parent = r.parent /\ new.status = r.status
         /\ new.awaiting = r.awaiting /\ new.signals = r.signals
BY DEF PCBRecord

(* The fields of a new process. *)
LEMMA NewRecordFields ==
  ASSUME NEW b, pcb[b] \in PCBRecord, last_pid \in 0 .. MaxPid,
         NEW parent \in PCB \cup {NULL}, NEW status \in Statuses
  PROVE  /\ NewPCBRecord(b, parent, status) \in PCBRecord
         /\ NewPCBRecord(b, parent, status).pid = last_pid
         /\ NewPCBRecord(b, parent, status).status = status
         /\ NewPCBRecord(b, parent, status).parent = parent
         /\ NewPCBRecord(b, parent, status).children = <<>>
<1> DEFINE r == pcb[b]
<1>1. r \in PCBRecord /\ <<>> \in Seq(PCB) /\ {} \in SUBSET {"SIGCHLD", "SIGHUP"}
  OBVIOUS
<1> HIDE DEF r
<1>2. NewPCBRecord(b, parent, status) =
        [r EXCEPT !.pid = last_pid, !.status = status, !.parent = parent, !.children = <<>>, !.signals = {}]
  BY DEF NewPCBRecord, r
<1> QED BY <1>1, <1>2 DEF PCBRecord

---------------------------------------------------------------------------
(* A block leaves the pool. *)
(* The free list without repetitions: its head leaves it for good. *)
NoneTwice == \A i, j \in DOMAIN pcb_free : pcb_free[i] = pcb_free[j] => i = j

LEMMA HeadTaken ==
  ASSUME pcb_free \in Seq(PCB), NoneTwice, NEW b, TakesBlock(b)
  PROVE  b \in Free /\ Free' = Free \ {b} /\ pcb_free' \in Seq(PCB) /\ NoneTwice'
<1>1. /\ pcb_free \in Seq(PCB) /\ pcb_free # <<>> /\ Len(pcb_free) \in Nat /\ Len(pcb_free) >= 1
      /\ b = pcb_free[1] /\ pcb_free' = Tail(pcb_free) /\ 1 \in DOMAIN pcb_free
  BY DEF TakesBlock
<1>2. /\ \A i, j \in 1 .. Len(pcb_free) : pcb_free[i] = pcb_free[j] => i = j
      /\ DOMAIN pcb_free = 1 .. Len(pcb_free)
  BY <1>1 DEF NoneTwice
<1>3. /\ pcb_free' \in Seq(PCB) /\ Len(pcb_free') = Len(pcb_free) - 1
      /\ DOMAIN (pcb_free') = 1 .. Len(pcb_free) - 1
      /\ \A i \in 1 .. Len(pcb_free) - 1 : pcb_free'[i] = pcb_free[i + 1]
  BY <1>1
<1>4. b \in Free
  BY <1>1 DEF Free, ToSet
<1>5. Free' = Free \ {b}
  <2>1. ASSUME NEW p \in Free, p # b PROVE p \in Free'
    <3>1. PICK i \in 1 .. Len(pcb_free) : p = pcb_free[i]
      BY <1>2 DEF Free, ToSet
    <3>2. i - 1 \in 1 .. Len(pcb_free) - 1 /\ (i - 1) + 1 = i
      BY <1>1, <2>1, <3>1
    <3> QED BY <1>3, <3>1, <3>2 DEF Free, ToSet
  <2>2. ASSUME NEW i \in 1 .. Len(pcb_free) - 1 PROVE pcb_free'[i] \in Free /\ pcb_free'[i] # b
    <3>1. i + 1 \in 1 .. Len(pcb_free) /\ i + 1 # 1 /\ 1 \in 1 .. Len(pcb_free)
      BY <1>1
    <3> QED BY <1>1, <1>2, <1>3, <3>1 DEF Free, ToSet
  <2>3. \A p \in Free' : \E i \in 1 .. Len(pcb_free) - 1 : p = pcb_free'[i]
    BY <1>3 DEF Free, ToSet
  <2> QED BY <2>1, <2>2, <2>3
<1>6. NoneTwice'
  <2> SUFFICES ASSUME NEW i \in 1 .. Len(pcb_free) - 1, NEW j \in 1 .. Len(pcb_free) - 1,
                      pcb_free'[i] = pcb_free'[j]
               PROVE  i = j
    BY <1>3 DEF NoneTwice
  <2>1. i + 1 \in 1 .. Len(pcb_free) /\ j + 1 \in 1 .. Len(pcb_free)
    BY <1>1
  <2> QED BY <1>2, <1>3, <2>1
<1> QED BY <1>3, <1>4, <1>5, <1>6

LEMMA BlockTaken ==
  ASSUME ProcInv, NEW b \in PCB, TakesBlock(b)
  PROVE  /\ b \in Free /\ Free' = Free \ {b} /\ b # running /\ b \notin Owned
         /\ b \notin ReadyOnes /\ b \notin Waiters /\ b \notin Zombies
         /\ pcb[b].children = <<>> /\ pcb[b].status \in {"Created", "Zombie"}
         /\ pcb_free' \in Seq(PCB)
         /\ (\A i, j \in DOMAIN pcb_free : pcb_free[i] = pcb_free[j] => i = j)'
         /\ last_pid \in 0 .. MaxPid /\ last_pid' = last_pid + 1 /\ last_pid' \in 0 .. MaxPid + 1
<1>1. pcb_free \in Seq(PCB) /\ NoneTwice
  BY DEF ProcInv, ProcTypeOK, FreeOK, NoneTwice
<1>2. b \in Free /\ Free' = Free \ {b} /\ pcb_free' \in Seq(PCB) /\ NoneTwice'
  BY <1>1, HeadTaken
<1>3. (\A i, j \in DOMAIN pcb_free : pcb_free[i] = pcb_free[j] => i = j)'
  BY <1>2 DEF NoneTwice
<1>4. /\ b # running /\ b \notin ReadyOnes /\ b \notin Waiters /\ b \notin Zombies
      /\ pcb[b].children = <<>> /\ pcb[b].status \in {"Created", "Zombie"}
  BY <1>2 DEF ProcInv, Placed, FreeOK
<1>5. b \notin Owned
  BY <1>2 DEF ProcInv, Families, OwnedAreLive
<1>6. last_pid \in 0 .. MaxPid /\ last_pid' = last_pid + 1 /\ last_pid' \in 0 .. MaxPid + 1
  BY ProcConstantsAssumption DEF TakesBlock, ProcInv, ProcTypeOK
<1> QED BY <1>2, <1>3, <1>4, <1>5, <1>6

(* spawn and fork. *)
LEMMA NewChildStep ==
  ASSUME ProcInv, NEW b \in PCB, NewChild(b), context' \in [PCB -> {NoContext, InFunction, InBoot}]
  PROVE  ProcInv' /\ DeadStay /\ Answered /\ (Found => Found')
<1>1. running \in PCB /\ pcb[running].status \in {"Running", "Ready"} /\ running \notin Free
  BY Basics DEF NewChild, ProcInv, Placed
<1>2. pcb \in [PCB -> PCBRecord] /\ TakesBlock(b)
  BY Basics DEF NewChild
<1>3. /\ b \in Free /\ Free' = Free \ {b} /\ b # running /\ b \notin Owned
      /\ b \notin ReadyOnes /\ b \notin Waiters /\ b \notin Zombies
      /\ pcb[b].children = <<>> /\ pcb[b].status \in {"Created", "Zombie"}
      /\ pcb_free' \in Seq(PCB)
      /\ (\A i, j \in DOMAIN pcb_free : pcb_free[i] = pcb_free[j] => i = j)'
      /\ last_pid \in 0 .. MaxPid /\ last_pid' = last_pid + 1 /\ last_pid' \in 0 .. MaxPid + 1
  BY <1>2, BlockTaken
<1>4. /\ pcb' \in [PCB -> PCBRecord]
      /\ pcb'[b].pid = last_pid /\ pcb'[b].status = "Ready" /\ pcb'[b].parent = running
      /\ pcb'[b].children = <<>>
      /\ pcb'[running].children = Append(pcb[running].children, b)
      /\ \A p \in PCB \ {b} :
           /\ pcb'[p].pid = pcb[p].pid /\ pcb'[p].status = pcb[p].status
           /\ pcb'[p].parent = pcb[p].parent /\ pcb'[p].signals = pcb[p].signals
           /\ p # running => pcb'[p].children = pcb[p].children /\ pcb'[p].awaiting = pcb[p].awaiting
  <2> DEFINE c   == Called(NoWait)
             new == NewPCBRecord(b, running, "Ready")
             d   == [c EXCEPT ![b] = new]
             q   == Append(pcb[running].children, b)
  <2>1. NoWait \in WaitArgs \cup {NoWait} /\ "Ready" \in Statuses /\ pcb[b] \in PCBRecord
    BY <1>2 DEF Statuses
  <2>2. /\ c \in [PCB -> PCBRecord]
        /\ \A p \in PCB :
             /\ p # running => c[p] = pcb[p]
             /\ c[p].pid = pcb[p].pid /\ c[p].status = pcb[p].status /\ c[p].parent = pcb[p].parent
             /\ c[p].children = pcb[p].children /\ c[p].signals = pcb[p].signals
    BY <1>1, <2>1, CalledFields
  <2>3. /\ new \in PCBRecord /\ new.pid = last_pid /\ new.status = "Ready"
        /\ new.parent = running /\ new.children = <<>>
    BY <1>1, <1>3, <2>1, NewRecordFields
  <2>4. q \in Seq(PCB)
    <3>1. pcb[running].children \in Seq(PCB)
      BY <1>1, Basics
    <3> QED BY <3>1
  <2>5. pcb' = [d EXCEPT ![running].children = Append(d[running].children, b)]
    BY DEF NewChild
  <2> HIDE DEF c, new, q
  <2>6. d \in [PCB -> PCBRecord] /\ d[b] = new /\ \A p \in PCB : p # b => d[p] = c[p]
    BY <2>2, <2>3
  <2> HIDE DEF d
  <2>7. pcb' = [d EXCEPT ![running].children = q]
    <3>1. d[running].children = pcb[running].children
      BY <1>1, <1>3, <2>2, <2>6
    <3> QED BY <2>5, <3>1 DEF q
  <2>8. AssignsChildren(d, pcb', running, q)
    BY <1>1, <2>4, <2>6, <2>7, FieldAssigned
  <2>9. /\ pcb' \in [PCB -> PCBRecord] /\ pcb'[running].children = q
        /\ pcb'[b].pid = last_pid /\ pcb'[b].status = "Ready" /\ pcb'[b].parent = running
        /\ pcb'[b].children = <<>>
    BY <1>1, <1>3, <2>3, <2>6, <2>8 DEF AssignsChildren
  <2>10. ASSUME NEW p \in PCB \ {b}
         PROVE  /\ pcb'[p].pid = pcb[p].pid /\ pcb'[p].status = pcb[p].status
                /\ pcb'[p].parent = pcb[p].parent /\ pcb'[p].signals = pcb[p].signals
                /\ p # running => pcb'[p].children = pcb[p].children /\ pcb'[p].awaiting = pcb[p].awaiting
    BY <2>2, <2>6, <2>8 DEF AssignsChildren
  <2> QED BY <2>9, <2>10 DEF q
<1>5. /\ LP!Proper(lists)' /\ (lists \in LL!Store)'
      /\ ReadyOnes' = ReadyOnes \cup {b} /\ Waiters' = Waiters /\ Zombies' = Zombies
  <2>1. Lists(lists, ReadyOnes, Waiters, Zombies)
    BY Basics
  <2>2. lists' = LL!Enlist(LL!Fresh(lists, b), "ready", b)
    BY DEF NewChild
  <2>3. Lists(LL!Fresh(lists, b), ReadyOnes, Waiters, Zombies)
    BY <1>3, <2>1, FreshItem
  <2>4. Lists(lists', ReadyOnes \cup {b}, Waiters, Zombies)
    BY <1>3, <2>2, <2>3, Entering
  <2> QED BY <2>4, NextLists
<1>6. /\ running' = running /\ init_pcb' = init_pcb /\ timer_list' = timer_list
      /\ Sleepers' = Sleepers
  BY DEF NewChild, Sleepers
<1>7. /\ ChildrenOf(running)' = ChildrenOf(running) \cup {b}
      /\ \A p \in PCB : p # running => ChildrenOf(p)' = ChildrenOf(p)
      /\ Owned' = Owned \cup {b}
  <2>1. ChildrenOf(running)' = ChildrenOf(running) \cup {b}
    <3>1. pcb[running].children \in Seq(PCB)
      BY <1>1, Basics
    <3>2. ToSet(Append(pcb[running].children, b)) = ToSet(pcb[running].children) \cup {b}
      <4> DEFINE q == pcb[running].children
      <4> HIDE DEF q
      <4>1. q \in Seq(PCB)
        BY <3>1 DEF q
      <4>2. ToSet(Append(q, b)) = ToSet(q) \cup {b}
        BY <4>1, AppendElements DEF ToSet
      <4> QED BY <4>2 DEF q
    <3> QED BY <1>4, <1>6, <3>2 DEF ChildrenOf
  <2>2. \A p \in PCB : p # running => ChildrenOf(p)' = ChildrenOf(p)
    BY <1>3, <1>4 DEF ChildrenOf
  <2>3. Owned' = Owned \cup {b}
    BY <1>1, <1>6, <2>1, <2>2 DEF Owned
  <2> QED BY <2>1, <2>2, <2>3
<1>8. ProcTypeOK'
  <2>1. KernelTypeOK' /\ pcbptr_free' \in 0 .. MAX_NUM_PROCESSES
    BY <1>3, PCBsAreFinite DEF NewChild, Return, KernelTypeOK, Modes, ProcInv, ProcTypeOK
  <2>2. /\ running' \in PCB \cup {NULL} /\ init_pcb' \in PCB
        /\ timer_list' \in Seq([left : Nat, pcb : PCB])
    BY <1>6 DEF ProcInv, ProcTypeOK
  <2> QED BY <1>3, <1>4, <1>5, <2>1, <2>2 DEF ProcTypeOK, PCBRecord
<1>9. Placed'
  <2>1. Placed /\ InUser' /\ Free \in SUBSET PCB /\ ReadyOnes \in SUBSET PCB
    BY Basics DEF ProcInv, NewChild, Return, InUser
  <2> QED BY <1>1, <1>3, <1>4, <1>5, <1>6, <2>1, PCBsAreFinite DEF Placed
<1>10. FreeOK'
  <2>1. FreeOK /\ Free \in SUBSET PCB
    BY Basics DEF ProcInv
  <2> QED BY <1>1, <1>3, <1>4, <2>1 DEF FreeOK
<1>11. InitIsOld' /\ LiveAreOwned' /\ OwnedAreLive' /\ PidsDiffer'
  <2>1. InitIsOld /\ LiveAreOwned /\ OwnedAreLive /\ PidsDiffer
    BY DEF ProcInv, Families
  <2>2. NULL \notin PCB /\ init_pcb \in PCB /\ Owned \in SUBSET PCB
    BY PCBsAreFinite, Basics
  <2>3. InitIsOld'
    <3>1. init_pcb # b /\ init_pcb' = init_pcb /\ running # NULL
      BY <1>1, <1>3, <1>6, <2>1, <2>2 DEF InitIsOld
    <3>2. \A p \in PCB : pcb'[p].parent # p
      BY <1>3, <1>4, <2>1 DEF InitIsOld
    <3>3. \A p \in PCB \ Free' : pcb'[p].parent = NULL => pcb'[p].status # "Zombie"
      BY <1>3, <1>4, <2>1, <3>1 DEF InitIsOld
    <3>4. init_pcb' \notin Free' /\ pcb'[init_pcb'].parent = NULL
      BY <1>3, <1>4, <2>1, <2>2, <3>1 DEF InitIsOld
    <3> QED BY <3>2, <3>3, <3>4 DEF InitIsOld
  <2>4. LiveAreOwned' /\ OwnedAreLive'
    <3>1. LiveAreOwned'
      BY <1>1, <1>3, <1>4, <1>7, <2>1, <2>2 DEF LiveAreOwned
    <3>2. OwnedAreLive'
      BY <1>1, <1>3, <1>4, <1>7, <2>1, <2>2 DEF OwnedAreLive
    <3> QED BY <3>1, <3>2
  <2>5. \A p \in PCB : pcb[p].pid \in Int
    BY <1>2 DEF PCBRecord
  <2>6. PidsDiffer'
    <3>1. \A p \in PCB \ Free' : p = b \/ (p \in PCB \ Free /\ p # b /\ pcb'[p].pid = pcb[p].pid)
      BY <1>3, <1>4
    <3>2. \A p \in PCB \ Free : pcb[p].pid < last_pid
      BY <2>1 DEF PidsDiffer
    <3>3. \A p \in PCB \ Free' : pcb'[p].pid < last_pid'
      BY <1>3, <1>4, <2>5, <3>1, <3>2
    <3>4. \A p \in PCB \ Free' : pcb'[p].pid = last_pid => p = b
      BY <2>5, <3>1, <3>2
    <3> QED BY <1>4, <2>1, <3>1, <3>3, <3>4 DEF PidsDiffer
  <2> QED BY <2>3, <2>4, <2>6
<1>12. OwnedOnce'
  <2> DEFINE n == Len(pcb[running].children)
  <2>1. /\ n \in Nat /\ DOMAIN pcb[running].children = 1 .. n
        /\ DOMAIN (pcb'[running].children) = 1 .. n + 1
        /\ pcb'[running].children[n + 1] = b
        /\ \A i \in 1 .. n : pcb'[running].children[i] = pcb[running].children[i]
    BY <1>1, <1>4, Basics, AppendElements
  <2> HIDE DEF n
  <2>2. \A p \in PCB : \A i \in DOMAIN pcb[p].children : pcb[p].children[i] # b
    BY <1>3, Basics
  <2>3. \A p \in PCB : p # running => pcb'[p].children = pcb[p].children
    BY <1>3, <1>4
  <2>4. ASSUME NEW p \in PCB, NEW i \in DOMAIN (pcb'[p].children)
        PROVE  \/ i \in DOMAIN pcb[p].children /\ pcb'[p].children[i] = pcb[p].children[i]
               \/ p = running /\ i = n + 1 /\ pcb'[p].children[i] = b
    BY <2>1, <2>3
  <2>5. OwnedOnce
    BY DEF ProcInv, Families
  <2> QED BY <2>2, <2>4, <2>5 DEF OwnedOnce
<1>13. OrphansHungUp'
  <2>1. OrphansHungUp /\ b \notin Owned
    BY <1>3 DEF ProcInv, Families
  <2>2. ChildrenOf(b)' = {}
    BY <1>4 DEF ChildrenOf, ToSet
  <2>3. \A p \in PCB : \A c \in ChildrenOf(p) : c \in PCB /\ c # b
    BY <1>3, Basics
  <2>4. \A p \in PCB \ Free' : \A c \in ChildrenOf(p)' :
          \/ p \in PCB \ Free /\ p # b /\ c \in ChildrenOf(p) /\ c \in PCB /\ c # b
          \/ c = b /\ p = running
    BY <1>3, <1>6, <1>7, <2>2, <2>3
  <2> QED BY <1>3, <1>4, <2>1, <2>4 DEF OrphansHungUp
<1>14. Timers'
  <2>1. Timers /\ running \notin Waiters /\ b \notin Waiters /\ Waiters \in SUBSET PCB
    BY <1>3, Basics DEF ProcInv, Placed
  <2> QED BY <1>4, <1>5, <1>6, <1>7, <2>1 DEF Timers
<1>15. PtrBlocks'
  <2>1. IsFiniteSet(Owned)
    BY Basics, PCBsAreFinite, FS_Subset
  <2>2. Cardinality(Owned') = Cardinality(Owned) + 1 /\ Cardinality(Owned) \in Nat
    BY <1>3, <1>7, <2>1, FS_AddElement, FS_CardinalityType
  <2> QED BY <2>2, PCBsAreFinite DEF NewChild, PtrBlocks, ProcInv, ProcTypeOK
<1>16. NoLostWakeup'
  <2>1. running \notin Waiters /\ Waiters \in SUBSET PCB /\ InList("waiting") = Waiters
    BY Basics DEF ProcInv, Placed, InList, Waiters, In, Steps
  <2>2. InList("waiting")' = Waiters
    BY <1>5 DEF InList, Waiters, In, Steps
  <2>3. \A p \in Waiters : \A c \in ChildrenOf(p) : c \in PCB \ {b}
    BY <1>3, <2>1, Basics
  <2> QED BY <1>3, <1>4, <1>7, <2>1, <2>2, <2>3 DEF NoLostWakeup, ProcInv
<1>17. DeadStay /\ (Found => Found')
  <2>1. \A p \in PCB \ Free' : p = b \/ p \in PCB \ Free
    BY <1>3
  <2> QED BY <1>3, <1>4, <1>5, <1>6, <2>1 DEF DeadStay, Found
<1>18. Answered
  <2>1. \A p \in Waiters : p \in PCB /\ p # b /\ p # running
    BY <1>3, Basics DEF ProcInv, Placed
  <2> QED BY <1>4, <1>7, <2>1, WaitsGoOn
<1> QED BY <1>5, <1>8, <1>9, <1>10, <1>11, <1>12, <1>13, <1>14, <1>15, <1>16, <1>17, <1>18
        DEF ProcInv, Families

(* A new init process: it takes the place of the old one, whose children   *)
(* stay with it.                                                           *)
LEMMA BootStep ==
  ASSUME ProcInv, NEW b \in PCB, Boot(b)
  PROVE  ProcInv' /\ DeadStay /\ Answered
<1>1. pcb \in [PCB -> PCBRecord] /\ TakesBlock(b) /\ Free \in SUBSET PCB /\ NULL \notin PCB
  BY Basics, PCBsAreFinite DEF Boot
<1>2. /\ b \in Free /\ Free' = Free \ {b} /\ b # running /\ b \notin Owned
      /\ b \notin ReadyOnes /\ b \notin Waiters /\ b \notin Zombies
      /\ pcb[b].children = <<>> /\ pcb[b].status \in {"Created", "Zombie"}
      /\ pcb_free' \in Seq(PCB)
      /\ (\A i, j \in DOMAIN pcb_free : pcb_free[i] = pcb_free[j] => i = j)'
      /\ last_pid \in 0 .. MaxPid /\ last_pid' = last_pid + 1 /\ last_pid' \in 0 .. MaxPid + 1
  BY <1>1, BlockTaken
<1>3. /\ pcb' \in [PCB -> PCBRecord]
      /\ pcb'[b].pid = last_pid /\ pcb'[b].status = "Running" /\ pcb'[b].parent = NULL
      /\ pcb'[b].children = <<>>
      /\ \A p \in PCB \ {b} : pcb'[p] = pcb[p]
  <2>0. "Running" \in Statuses
    BY DEF Statuses
  <2>1. NewPCBRecord(b, NULL, "Running") \in PCBRecord
    <3>1. NULL \in PCB \cup {NULL} /\ pcb[b] \in PCBRecord
      BY <1>1
    <3> QED BY <1>2, <2>0, <3>1, NewRecordFields
  <2>2. pcb' = [pcb EXCEPT ![b] = NewPCBRecord(b, NULL, "Running")]
    BY DEF Boot
  <2>3. pcb'[b] = NewPCBRecord(b, NULL, "Running")
    BY <1>1, <2>2
  <2>4. pcb' \in [PCB -> PCBRecord] /\ \A p \in PCB \ {b} : pcb'[p] = pcb[p]
    BY <1>1, <2>1, <2>2
  <2> QED BY <1>1, <2>3, <2>4 DEF NewPCBRecord, PCBRecord
<1>5. /\ LP!Proper(lists)' /\ (lists \in LL!Store)'
      /\ ReadyOnes' = ReadyOnes /\ Waiters' = Waiters /\ Zombies' = Zombies
  <2>1. Lists(lists, ReadyOnes, Waiters, Zombies)
    BY Basics
  <2>2. Lists(LL!Fresh(lists, b), ReadyOnes, Waiters, Zombies)
    BY <1>2, <2>1, FreshItem
  <2>3. lists' = LL!Fresh(lists, b)
    BY DEF Boot
  <2>4. Lists(lists', ReadyOnes, Waiters, Zombies)
    BY <2>2, <2>3
  <2> QED BY <2>4, NextLists
<1>6. /\ running' = b /\ init_pcb' = b /\ timer_list' = timer_list /\ pcbptr_free' = pcbptr_free
      /\ mode' = "user" /\ retval' = NoValue /\ Sleepers' = Sleepers
  BY DEF Boot, Sleepers
<1>7. (\A p \in PCB : ChildrenOf(p)' = ChildrenOf(p)) /\ Owned' = Owned
  <2>1. \A p \in PCB : pcb'[p].children = pcb[p].children
    BY <1>2, <1>3
  <2> QED BY <2>1 DEF Owned, ChildrenOf
<1>8. ProcTypeOK'
  <2>1. context' \in [PCB -> {NoContext, InFunction, InBoot}]
    BY DEF Boot, ProcInv, ProcTypeOK
  <2>2. KernelTypeOK'
    BY <1>6 DEF KernelTypeOK, Modes, NoValue
  <2>3. timer_list' \in Seq([left : Nat, pcb : PCB]) /\ pcbptr_free' \in 0 .. MAX_NUM_PROCESSES
    BY <1>6 DEF ProcInv, ProcTypeOK
  <2> QED BY <1>2, <1>3, <1>5, <1>6, <2>1, <2>2, <2>3 DEF ProcTypeOK, PCBRecord
<1>9. Placed'
  <2>1. Placed /\ ReadyOnes \in SUBSET PCB
    BY Basics DEF ProcInv
  <2> QED BY <1>1, <1>2, <1>3, <1>5, <1>6, <2>1 DEF Placed
<1>10. FreeOK'
  <2>1. FreeOK
    BY DEF ProcInv
  <2> QED BY <1>1, <1>2, <1>3, <2>1 DEF FreeOK
<1>11. InitIsOld' /\ LiveAreOwned' /\ OwnedAreLive' /\ PidsDiffer'
  <2>1. InitIsOld /\ LiveAreOwned /\ OwnedAreLive /\ PidsDiffer
    BY DEF ProcInv, Families
  <2>2. Owned \in SUBSET PCB
    BY Basics
  <2>3. InitIsOld'
    BY <1>1, <1>2, <1>3, <1>6, <2>1 DEF InitIsOld
  <2>4. LiveAreOwned' /\ OwnedAreLive'
    BY <1>1, <1>2, <1>3, <1>7, <2>1, <2>2 DEF LiveAreOwned, OwnedAreLive
  <2>5. \A p \in PCB : pcb[p].pid \in Int
    BY <1>1 DEF PCBRecord
  <2>6. PidsDiffer'
    BY <1>2, <1>3, <2>1, <2>5 DEF PidsDiffer
  <2> QED BY <2>3, <2>4, <2>6
<1>12. OwnedOnce' /\ OrphansHungUp'
  <2>1. OwnedOnce /\ OrphansHungUp /\ \A p \in PCB : pcb'[p].children = pcb[p].children
    BY <1>2, <1>3 DEF ProcInv, Families
  <2>2. OwnedOnce'
    BY <2>1 DEF OwnedOnce
  <2>3. ChildrenOf(b)' = {} /\ \A p \in PCB : \A c \in ChildrenOf(p) : c \in PCB /\ c # b
    BY <1>2, <1>3, Basics DEF ChildrenOf, ToSet
  <2>4. \A p \in PCB \ Free' : \A c \in ChildrenOf(p)' :
          p \in PCB \ Free /\ p # b /\ c \in ChildrenOf(p) /\ c \in PCB /\ c # b
    BY <1>2, <1>7, <2>3
  <2>5. OrphansHungUp'
    BY <1>2, <1>3, <2>1, <2>4 DEF OrphansHungUp
  <2> QED BY <2>2, <2>5
<1>13. Timers'
  <2>1. Timers /\ Waiters \in SUBSET PCB
    BY Basics DEF ProcInv
  <2> QED BY <1>2, <1>3, <1>5, <1>6, <1>7, <2>1 DEF Timers
<1>14. PtrBlocks'
  BY <1>6, <1>7 DEF PtrBlocks, ProcInv
<1>15. NoLostWakeup'
  <2>1. Waiters \in SUBSET PCB /\ InList("waiting") = Waiters
    BY Basics DEF InList, Waiters, In, Steps
  <2>2. InList("waiting")' = Waiters
    BY <1>5 DEF InList, Waiters, In, Steps
  <2>3. \A p \in Waiters : \A c \in ChildrenOf(p) : c \in PCB \ {b}
    BY <1>2, <2>1, Basics
  <2> QED BY <1>2, <1>3, <1>7, <2>1, <2>2, <2>3 DEF NoLostWakeup, ProcInv
<1>16. DeadStay
  BY <1>2, <1>3 DEF DeadStay
<1>17. Answered
  <2>1. \A p \in Waiters : p \in PCB /\ p # b
    BY <1>2, Basics
  <2> QED BY <1>3, <1>7, <2>1, WaitsGoOn
<1> QED BY <1>5, <1>8, <1>9, <1>10, <1>11, <1>12, <1>13, <1>14, <1>15, <1>16, <1>17
        DEF ProcInv, Families

---------------------------------------------------------------------------
(* The steps that pass the processor on. *)

(* A new waiter has no zombie that it waits for. *)
LEMMA NobodyMissed ==
  ASSUME ProcInv, FamiliesUnchanged,
         \A p \in Waiters' :
           \/ p \in Waiters /\ pcb'[p].awaiting = pcb[p].awaiting
           \/ /\ p \in PCB
              /\ \A c \in ChildrenOf(p) : ~ (/\ pcb[c].parent = p /\ pcb[c].status = "Zombie"
                                             /\ pcb'[p].awaiting \in {0, pcb[c].pid})
  PROVE  NoLostWakeup'
<1>1. InList("waiting") = Waiters /\ InList("waiting")' = Waiters'
  BY DEF InList, Waiters, In, Steps
<1>2. \A p \in PCB : ChildrenOf(p)' = ChildrenOf(p) /\ ChildrenOf(p) \in SUBSET PCB
  <2>1. \A p \in PCB : ChildrenOf(p) \in SUBSET PCB
    BY Basics
  <2> QED BY <2>1 DEF ChildrenOf, FamiliesUnchanged
<1>3. Waiters \in SUBSET PCB
  BY Basics
<1>4. NoLostWakeup
  BY DEF ProcInv
<1> QED BY <1>1, <1>2, <1>3, <1>4 DEF NoLostWakeup, FamiliesUnchanged

LEMMA ResumesInMode ==
  ASSUME NEW p \in PCB, context' \in [PCB -> {NoContext, InFunction, InBoot}]
  PROVE  Resumes(p) \in {"user", "booting", "crashed"}
BY DEF Resumes, NoContext, InFunction, InBoot

(* A call that only writes its arguments. *)
CallWritten(arg) ==
  /\ pcb' = Called(arg)
  /\ UNCHANGED <<running, init_pcb, last_pid, context, lists, timer_list, pcb_free, pcbptr_free>>

LEMMA CallStep ==
  ASSUME ProcInv, InUser, KernelTypeOK', NEW k \in WaitArgs \cup {NoWait}, CallWritten(k)
  PROVE  ProcInv' /\ DeadStay /\ Answered /\ (Found => Found')
<1>1. running \in PCB /\ running \notin Waiters
  BY Basics DEF ProcInv, Placed
<1>2. /\ pcb' = Called(k)
      /\ UNCHANGED <<running, init_pcb, last_pid, context, lists, timer_list, pcb_free, pcbptr_free>>
  BY DEF CallWritten
<1>3. /\ pcb' \in [PCB -> PCBRecord]
      /\ \A p \in PCB :
           /\ p # running => pcb'[p] = pcb[p]
           /\ pcb'[p].pid = pcb[p].pid /\ pcb'[p].status = pcb[p].status
           /\ pcb'[p].parent = pcb[p].parent
           /\ pcb'[p].children = pcb[p].children
           /\ pcb'[p].signals = pcb[p].signals
  BY <1>1, <1>2, CalledFields
<1>4. FamiliesUnchanged
  BY <1>2, <1>3 DEF FamiliesUnchanged
<1>5. FreeOK' /\ Families' /\ PtrBlocks'
  BY <1>4, SameFamilies
<1>6. /\ ReadyOnes' = ReadyOnes /\ Waiters' = Waiters /\ Zombies' = Zombies
      /\ Free' = Free /\ Sleepers' = Sleepers /\ timer_list' = timer_list /\ running' = running
      /\ LP!Proper(lists)'
  BY <1>2 DEF ReadyOnes, Waiters, Zombies, In, Free, Sleepers, ProcInv
<1>7. /\ ReadyOnes \in SUBSET PCB /\ Waiters \in SUBSET PCB
  BY Basics
<1>8. ProcTypeOK'
  BY <1>2, <1>3 DEF ProcInv, ProcTypeOK, PCBRecord
<1>9. Placed'
  BY <1>1, <1>3, <1>6, <1>7 DEF ProcInv, Placed
<1>10. Timers'
  <2>1. \A p \in PCB : ChildrenOf(p)' = ChildrenOf(p)
    BY <1>3 DEF ChildrenOf
  <2> QED BY <1>1, <1>3, <1>6, <1>7, <2>1 DEF ProcInv, Timers
<1>11. NoLostWakeup'
  <2>1. \A p \in Waiters' : p \in Waiters /\ pcb'[p].awaiting = pcb[p].awaiting
    BY <1>1, <1>3, <1>6, <1>7
  <2> QED BY <1>4, <2>1, NobodyMissed
<1>12. DeadStay /\ (Found => Found')
  BY <1>3, <1>6 DEF DeadStay, Found
<1>13. Answered
  <2>1. \A p \in Waiters : p \in PCB /\ pcb'[p] = pcb[p]
    BY <1>1, <1>3, <1>7
  <2> QED BY <2>1, WaitsGoOn DEF ChildrenOf
<1> QED BY <1>5, <1>6, <1>8, <1>9, <1>10, <1>11, <1>12, <1>13 DEF ProcInv

(* A wait without children. *)
LEMMA WaitNoChildrenStep ==
  ASSUME ProcInv, NEW k \in WaitArgs, WaitNoChildren(k)
  PROVE  ProcInv' /\ DeadStay /\ Answered /\ (Found => Found')
<1>1. KernelTypeOK' /\ InUser
  BY DEF WaitNoChildren, Return, KernelTypeOK, Modes, DSOS_EWAIT
<1>2. CallWritten(k) /\ k \in WaitArgs \cup {NoWait}
  BY DEF WaitNoChildren, CallWritten
<1> QED BY <1>1, <1>2, CallStep

(* The running process goes to the waiting list, and the first of the      *)
(* ready list, if any, goes on.                                            *)
LEMMA RunningWaits ==
  ASSUME ProcInv, InUser, NEW arg \in WaitArgs \cup {NoWait},
         pcb' = [Called(arg) EXCEPT ![running].status = "Waiting"],
         FirstReady # NULL \/ ~ InUser', running' = FirstReady, KernelTypeOK',
         lists' = LET L == LL!Enlist(lists, "waiting", running)
                  IN IF FirstReady = NULL THEN L ELSE LL!List_detach(L, "ready", FirstReady),
         UNCHANGED <<init_pcb, last_pid, context, pcb_free, pcbptr_free>>,
         timer_list' \in Seq([left : Nat, pcb : PCB]), InOrder(timer_list'),
         Sleepers' = IF arg = NoWait THEN Sleepers \cup {running} ELSE Sleepers,
         arg # NoWait => ChildrenOf(running) # {},
         \A c \in ChildrenOf(running) :
           ~ (/\ pcb[c].parent = running /\ pcb[c].status = "Zombie" /\ arg \in {0, pcb[c].pid})
  PROVE  ProcInv' /\ DeadStay /\ Answered /\ (Found => Found')
<1>1. /\ running \in PCB /\ running \notin Free /\ pcb[running].status \in {"Running", "Ready"}
      /\ running \notin ReadyOnes /\ running \notin Waiters /\ running \notin Zombies
  BY Basics DEF ProcInv, Placed
<1>2. /\ FirstReady = NULL => ReadyOnes = {}
      /\ FirstReady # NULL => FirstReady \in ReadyOnes
      /\ FirstReady \in PCB \cup {NULL} /\ Lists(lists, ReadyOnes, Waiters, Zombies)
      /\ ReadyOnes \in SUBSET PCB /\ Waiters \in SUBSET PCB /\ NULL \notin PCB
      /\ ReadyOnes \cap Waiters = {} /\ ReadyOnes \cap Zombies = {} /\ Free \in SUBSET PCB
  BY Basics, PCBsAreFinite
<1>3. /\ pcb' \in [PCB -> PCBRecord]
      /\ pcb'[running].status = "Waiting" /\ pcb'[running].awaiting = arg
      /\ \A p \in PCB :
           /\ p # running => pcb'[p] = pcb[p]
           /\ pcb'[p].pid = pcb[p].pid /\ pcb'[p].parent = pcb[p].parent
           /\ pcb'[p].children = pcb[p].children
           /\ pcb'[p].signals = pcb[p].signals
  <2> DEFINE c == Called(arg)
  <2>1. /\ c \in [PCB -> PCBRecord] /\ c[running].awaiting = arg
        /\ \A p \in PCB :
             /\ p # running => c[p] = pcb[p]
             /\ c[p].pid = pcb[p].pid /\ c[p].parent = pcb[p].parent
             /\ c[p].children = pcb[p].children /\ c[p].signals = pcb[p].signals
    BY <1>1, CalledFields
  <2>2. pcb' = [c EXCEPT ![running] = [c[running] EXCEPT !.status = "Waiting"]]
    BY <2>1
  <2> HIDE DEF c
  <2>3. [c[running] EXCEPT !.status = "Waiting"] \in PCBRecord
    <3>1. "Waiting" \in Statuses /\ c[running] \in PCBRecord
      BY <1>1, <2>1 DEF Statuses
    <3> QED BY <3>1, StatusSet
  <2>4. /\ pcb' \in [PCB -> PCBRecord]
        /\ pcb'[running] = [c[running] EXCEPT !.status = "Waiting"]
        /\ \A p \in PCB : p # running => pcb'[p] = c[p]
    <3> DEFINE new == [c[running] EXCEPT !.status = "Waiting"]
    <3>1. new \in PCBRecord /\ pcb' = [c EXCEPT ![running] = new]
      BY <2>2, <2>3
    <3> HIDE DEF new
    <3>2. /\ pcb' \in [PCB -> PCBRecord] /\ pcb'[running] = new
          /\ \A p \in PCB : p # running => pcb'[p] = c[p]
      BY <1>1, <2>1, <3>1
    <3> QED BY <3>2 DEF new
  <2>5. /\ pcb'[running].status = "Waiting" /\ pcb'[running].awaiting = arg
        /\ pcb'[running].pid = pcb[running].pid /\ pcb'[running].parent = pcb[running].parent
        /\ pcb'[running].children = pcb[running].children
        /\ pcb'[running].signals = pcb[running].signals
    <3> DEFINE r == c[running]
               n == pcb'[running]
    <3>1. /\ "Waiting" \in Statuses /\ r \in PCBRecord /\ n = [r EXCEPT !.status = "Waiting"]
          /\ r.awaiting = arg /\ r.pid = pcb[running].pid /\ r.parent = pcb[running].parent
          /\ r.children = pcb[running].children /\ r.signals = pcb[running].signals
      BY <1>1, <2>1, <2>4 DEF Statuses
    <3> HIDE DEF r, n
    <3>2. /\ n.status = "Waiting" /\ n.awaiting = r.awaiting /\ n.pid = r.pid
          /\ n.parent = r.parent /\ n.children = r.children /\ n.signals = r.signals
      BY <3>1, StatusSet
    <3> QED BY <3>1, <3>2 DEF n
  <2> QED BY <2>1, <2>4, <2>5
<1>4. FamiliesUnchanged
  BY <1>1, <1>3 DEF FamiliesUnchanged
<1>5. FreeOK' /\ Families' /\ PtrBlocks'
  BY <1>4, SameFamilies
<1>6. /\ LP!Proper(lists)' /\ (lists \in LL!Store)'
      /\ ReadyOnes' = ReadyOnes \ {FirstReady}
      /\ Waiters' = Waiters \cup {running} /\ Zombies' = Zombies
  <2> DEFINE L == LL!Enlist(lists, "waiting", running)
  <2>1. Lists(L, ReadyOnes, Waiters \cup {running}, Zombies)
    BY <1>1, <1>2, Entering
  <2> HIDE DEF L
  <2>2. CASE FirstReady = NULL
    <3>1. Lists(lists', ReadyOnes, Waiters \cup {running}, Zombies)
      BY <2>1, <2>2 DEF L
    <3> QED BY <1>2, <2>2, <3>1, NextLists
  <2>3. CASE FirstReady # NULL
    <3>1. lists' = LL!List_detach(L, "ready", FirstReady)
      BY <2>3 DEF L
    <3>2. FirstReady \in ReadyOnes
      BY <1>2, <2>3
    <3>3. Lists(LL!List_detach(L, "ready", FirstReady), ReadyOnes \ {FirstReady},
                Waiters \cup {running}, Zombies)
      BY <2>1, <3>2, Leaving
    <3>4. Lists(lists', ReadyOnes \ {FirstReady}, Waiters \cup {running}, Zombies)
      BY <3>1, <3>3
    <3> QED BY <3>4, NextLists
  <2> QED BY <2>2, <2>3
<1>7. Free' = Free
  BY DEF Free
<1>8. ProcTypeOK'
  <2>1. running' \in PCB \cup {NULL}
    BY <1>2
  <2>2. UNCHANGED <<init_pcb, last_pid, context, pcb_free, pcbptr_free>> /\ ProcTypeOK
    BY DEF ProcInv
  <2> QED BY <1>3, <1>6, <2>1, <2>2 DEF ProcTypeOK, PCBRecord
<1>9. Placed'
  <2>1. Placed
    BY DEF ProcInv
  <2>2. FirstReady # NULL => pcb'[FirstReady].status = "Ready" /\ FirstReady \in PCB
    BY <1>1, <1>2, <1>3, <2>1 DEF Placed
  <2>3. running' \notin ReadyOnes' /\ running' \notin Waiters' /\ running' \notin Zombies' /\ running' \notin Free'
    BY <1>1, <1>2, <1>6, <1>7, <2>1, Basics DEF Placed
  <2>4. Free' \cap ReadyOnes' = {} /\ Free' \cap Waiters' = {} /\ Free' \cap Zombies' = {}
    BY <1>1, <1>6, <1>7, <2>1 DEF Placed
  <2>5. (\A p \in ReadyOnes : pcb[p].status = "Ready")' /\ (\A p \in PCB : p \in Waiters <=> pcb[p].status = "Waiting")'
    BY <1>1, <1>2, <1>3, <1>6, <2>1 DEF Placed
  <2>6. /\ (\A p \in PCB : p \in Zombies <=> pcb[p].status = "Zombie" /\ p \notin Free)'
        /\ (\A p \in PCB \ Free : pcb[p].status # "Created")'
    BY <1>1, <1>3, <1>6, <1>7, <2>1 DEF Placed
  <2> QED BY <2>2, <2>3, <2>4, <2>5, <2>6 DEF Placed
<1>10. Timers'
  <2>1. Timers
    BY DEF ProcInv
  <2>2. \A p \in Waiters : p # running /\ p \in PCB
    BY <1>1, <1>2
  <2>3. Sleepers' \subseteq Waiters'
    BY <1>6, <2>1 DEF Timers
  <2>4. \A p \in Waiters' : p \in Sleepers' <=> pcb'[p].awaiting = NoWait
    BY <1>1, <1>3, <1>6, <2>1, <2>2 DEF Timers
  <2>5. \A p \in Waiters' : pcb'[p].awaiting # NoWait => ChildrenOf(p)' # {}
    <3>1. \A p \in PCB : ChildrenOf(p)' = ChildrenOf(p)
      BY <1>3 DEF ChildrenOf
    <3> QED BY <1>1, <1>3, <1>6, <2>1, <2>2, <3>1 DEF Timers
  <2> QED BY <2>3, <2>4, <2>5 DEF Timers, InOrder
<1>11. NoLostWakeup'
  <2>1. \A p \in Waiters' : p = running \/ (p \in Waiters /\ pcb'[p].awaiting = pcb[p].awaiting)
    BY <1>1, <1>2, <1>3, <1>6
  <2> QED BY <1>1, <1>3, <1>4, <2>1, NobodyMissed
<1>12. DeadStay /\ (Found => Found')
  <2>1. DeadStay
    BY <1>1, <1>3 DEF DeadStay
  <2>2. ASSUME Found, NEW p \in PCB \ Free, pcb'[p].status \in {"Ready", "Running"}
        PROVE  p = running' \/ p \in ReadyOnes'
    BY <1>3, <1>6, <2>2 DEF Found
  <2> QED BY <1>7, <2>1, <2>2 DEF Found
<1>13. Answered
  <2>1. \A p \in Waiters : p \in PCB /\ pcb'[p] = pcb[p]
    BY <1>1, <1>2, <1>3
  <2> QED BY <2>1, WaitsGoOn DEF ChildrenOf
<1> QED BY <1>5, <1>6, <1>8, <1>9, <1>10, <1>11, <1>12, <1>13 DEF ProcInv

(* A wait whose scan ends at a child that lives. *)
LEMMA WaitBlocksStep ==
  ASSUME ProcInv, NEW k \in WaitArgs, NEW i, WaitBlocks(k, i)
  PROVE  ProcInv' /\ DeadStay /\ Answered /\ (Found => Found')
<1>1. /\ running \in PCB /\ InUser /\ FirstReady # NULL /\ FirstReady \in PCB /\ k # NoWait
      /\ k \in WaitArgs \cup {NoWait}
  BY Basics DEF WaitBlocks, ProcInv, Placed, WaitArgs, NoWait
<1>2. \A c \in ChildrenOf(running) :
        ~ (/\ pcb[c].parent = running /\ pcb[c].status = "Zombie" /\ k \in {0, pcb[c].pid})
  <2> DEFINE q == pcb[running].children
             n == Len(q)
  <2>1. /\ n \in Nat /\ DOMAIN q = 1 .. n /\ i \in 1 .. n
        /\ \A j \in 1 .. i - 1 : ~ Matches(j, k)
        /\ Matches(i, k) \/ i = n
        /\ pcb[Child(i)].status # "Zombie"
    BY <1>1, Basics DEF WaitBlocks, ScanEndsAt
  <2>2. SUFFICES ASSUME NEW j \in 1 .. n, pcb[q[j]].status = "Zombie", k \in {0, pcb[q[j]].pid}
                 PROVE  FALSE
    BY <1>1, <2>1, Basics
  <2>3. Matches(j, k)
    BY <2>2 DEF Matches, Child
  <2>4. Matches(i, k)
    BY <2>1, <2>2, <2>3
  <2>5. k # 0
    BY <2>1, <2>4 DEF Matches
  <2>6. pcb[q[j]].pid = pcb[q[i]].pid
    BY <2>3, <2>4, <2>5 DEF Matches, Child
  <2>7. q[i] \in PCB \ Free /\ q[j] \in PCB \ Free
    BY <1>1, <2>1, Basics DEF ProcInv, Families, OwnedAreLive
  <2>8. q[i] = q[j]
    BY <2>6, <2>7 DEF ProcInv, Families, PidsDiffer
  <2> QED BY <2>1, <2>2, <2>8 DEF Child
<1>3. /\ pcb' = [Called(k) EXCEPT ![running].status = "Waiting"]
      /\ lists' = LL!List_detach(LL!Enlist(lists, "waiting", running), "ready", FirstReady)
      /\ UNCHANGED <<init_pcb, last_pid, context, timer_list, pcb_free, pcbptr_free>>
      /\ running' = FirstReady /\ mode' = Resumes(FirstReady) /\ retval' = NoValue
  BY DEF WaitBlocks, SwitchTo
<1>4. KernelTypeOK'
  <2>1. context' \in [PCB -> {NoContext, InFunction, InBoot}]
    BY <1>3 DEF ProcInv, ProcTypeOK
  <2>2. mode' \in {"user", "booting", "crashed"}
    BY <1>1, <1>3, <2>1, ResumesInMode
  <2> QED BY <1>3, <2>2 DEF KernelTypeOK, Modes, NoValue
<1>5. timer_list' \in Seq([left : Nat, pcb : PCB]) /\ InOrder(timer_list') /\ Sleepers' = Sleepers
  BY <1>3 DEF ProcInv, ProcTypeOK, Timers, Sleepers
<1>6. ChildrenOf(running) # {}
  <2>1. i \in DOMAIN pcb[running].children
    BY <1>1, Basics DEF WaitBlocks, ScanEndsAt
  <2> QED BY <1>1, <2>1, Basics
<1> QED BY <1>1, <1>2, <1>3, <1>4, <1>5, <1>6, RunningWaits

(* sleep: the timers stay in order, whatever is added. *)
Timer == [left : Nat, pcb : PCB]

LEMMA TimerAdded ==
  ASSUME timer_list \in Seq(Timer), InOrder(timer_list), running \in PCB, running \notin Sleepers,
         NEW n \in Nat
  PROVE  LET added == TimerList_add(n)
         IN /\ added \in Seq(Timer) /\ InOrder(added)
            /\ {added[i].pcb : i \in DOMAIN added} = Sleepers \cup {running}
<1> DEFINE len  == Len(timer_list)
           S    == {i \in DOMAIN timer_list : timer_list[i].left <= n}
           k    == Cardinality(S)
           e    == [left |-> n, pcb |-> running]
           t    == InsertAt(timer_list, k + 1, e)
<1>1. /\ len \in Nat /\ DOMAIN timer_list = 1 .. len /\ e \in Timer
      /\ \A i \in 1 .. len : /\ timer_list[i] \in Timer /\ timer_list[i].left \in Nat
                             /\ timer_list[i].pcb \in PCB /\ timer_list[i].pcb # running
  <2>1. /\ len \in Nat /\ DOMAIN timer_list = 1 .. len
        /\ \A i \in 1 .. len : timer_list[i] \in Timer
    OBVIOUS
  <2>2. \A i \in 1 .. len : timer_list[i].pcb # running
    BY <2>1 DEF Sleepers
  <2>3. \A x \in Timer : x.left \in Nat /\ x.pcb \in PCB
    BY DEF Timer
  <2>4. e \in Timer
    BY DEF Timer
  <2> QED BY <2>1, <2>2, <2>3, <2>4
<1>2. \A i, j \in 1 .. len : i < j =>
        timer_list[i].left <= timer_list[j].left /\ timer_list[i].pcb # timer_list[j].pcb
  BY <1>1 DEF InOrder
<1>3. k \in 0 .. len /\ S = 1 .. k
  <2>1. S \in SUBSET (1 .. len)
    BY <1>1
  <2>2. \A i \in S : \A j \in 1 .. i : j \in S
    BY <1>1, <1>2
  <2> HIDE DEF S, len
  <2> QED BY <1>1, <2>1, <2>2, InitialInterval
<1>4. \A i \in 1 .. len : timer_list[i].left <= n <=> i <= k
  BY <1>1, <1>3
<1> HIDE DEF S, k, len
<1>5. /\ t \in Seq(Timer) /\ Len(t) = len + 1
      /\ \A j \in 1 .. len + 1 :
           t[j] = IF j < k + 1 THEN timer_list[j] ELSE IF j = k + 1 THEN e ELSE timer_list[j - 1]
  <2>1. k + 1 \in 1 .. Len(timer_list) + 1 /\ e \in Timer
    BY <1>1, <1>3 DEF len
  <2> HIDE DEF e
  <2>2. /\ InsertAt(timer_list, k + 1, e) \in Seq(Timer)
        /\ Len(InsertAt(timer_list, k + 1, e)) = Len(timer_list) + 1
        /\ \A j \in 1 .. Len(timer_list) + 1 :
             InsertAt(timer_list, k + 1, e)[j] =
               IF j < k + 1 THEN timer_list[j] ELSE IF j = k + 1 THEN e ELSE timer_list[j - 1]
    <3> DEFINE i == k + 1
               q == timer_list
    <3>1. q \in Seq(Timer) /\ i \in 1 .. Len(q) + 1 /\ e \in Timer
      BY <2>1
    <3> HIDE DEF i, q
    <3>2. /\ InsertAt(q, i, e) \in Seq(Timer)
          /\ Len(InsertAt(q, i, e)) = Len(q) + 1
          /\ \A j \in 1 .. Len(q) + 1 :
               InsertAt(q, i, e)[j] = IF j < i THEN q[j] ELSE IF j = i THEN e ELSE q[j - 1]
      BY <3>1, InsertAtElements
    <3> QED BY <3>2 DEF i, q
  <2> QED BY <2>2 DEF len
<1>6. InOrder(t)
  <2> SUFFICES ASSUME NEW i \in 1 .. len + 1, NEW j \in 1 .. len + 1, i < j
               PROVE  t[i].left <= t[j].left /\ t[i].pcb # t[j].pcb
    BY <1>5 DEF InOrder
  <2> HIDE DEF t
  <2>1. e.left = n /\ e.pcb = running
    OBVIOUS
  <2>2. CASE j < k + 1
    <3>1. i \in 1 .. len /\ j \in 1 .. len /\ t[i] = timer_list[i] /\ t[j] = timer_list[j]
      BY <1>1, <1>3, <1>5, <2>2
    <3> QED BY <1>2, <3>1
  <2>3. CASE j = k + 1
    <3>1. i \in 1 .. len /\ i <= k /\ t[i] = timer_list[i] /\ t[j] = e
      BY <1>1, <1>3, <1>5, <2>3
    <3> QED BY <1>1, <1>4, <2>1, <3>1
  <2>4. CASE j > k + 1
    <3>1. j - 1 \in 1 .. len /\ ~ (j - 1 <= k) /\ t[j] = timer_list[j - 1]
      BY <1>1, <1>3, <1>5, <2>4
    <3>2. CASE i < k + 1
      <4>1. i \in 1 .. len /\ i < j - 1 /\ t[i] = timer_list[i]
        BY <1>1, <1>3, <1>5, <2>4, <3>2
      <4> QED BY <1>2, <3>1, <4>1
    <3>3. CASE i = k + 1
      <4>1. t[i] = e
        BY <1>5, <3>3
      <4> QED BY <1>1, <1>4, <2>1, <3>1, <4>1
    <3>4. CASE i > k + 1
      <4>1. i - 1 \in 1 .. len /\ i - 1 < j - 1 /\ t[i] = timer_list[i - 1]
        BY <1>1, <1>3, <1>5, <3>4
      <4> QED BY <1>2, <3>1, <4>1
    <3> QED BY <1>1, <1>3, <3>2, <3>3, <3>4
  <2> QED BY <1>1, <1>3, <2>2, <2>3, <2>4
<1>7. ToSet(t) = ToSet(timer_list) \cup {e}
  <2>1. k + 1 \in 1 .. Len(timer_list) + 1
    BY <1>1, <1>3 DEF len
  <2> QED BY <1>1, <2>1, InsertAtToSet
<1>8. {t[i].pcb : i \in DOMAIN t} = Sleepers \cup {running}
  <2>1. {t[i].pcb : i \in DOMAIN t} = {x.pcb : x \in ToSet(t)}
    BY DEF ToSet
  <2>2. Sleepers = {x.pcb : x \in ToSet(timer_list)}
    BY DEF ToSet, Sleepers
  <2>3. e.pcb = running
    OBVIOUS
  <2> HIDE DEF t, e
  <2> QED BY <1>7, <2>1, <2>2, <2>3
<1>9. TimerList_add(n) = t
  BY DEF TimerList_add, t, k, S
<1> QED BY <1>5, <1>6, <1>8, <1>9

LEMMA SleepStep ==
  ASSUME ProcInv, NEW n \in SleepTimes, SleepSwitches(n) \/ SleepNobodyReady(n)
  PROVE  ProcInv' /\ DeadStay /\ Answered /\ (Found => Found')
<1>1. /\ running \in PCB /\ InUser /\ running \notin Waiters /\ NoWait \in WaitArgs \cup {NoWait}
      /\ FirstReady \in PCB \cup {NULL} /\ FallsAsleep(n)
  BY Basics DEF SleepSwitches, SleepNobodyReady, FallsAsleep, ProcInv, Placed
<1>2. /\ pcb' = [Called(NoWait) EXCEPT ![running].status = "Waiting"]
      /\ timer_list' = TimerList_add(n)
      /\ UNCHANGED <<init_pcb, last_pid, context, pcb_free, pcbptr_free>>
  BY <1>1 DEF FallsAsleep
<1>3. lists' = LET L == LL!Enlist(lists, "waiting", running)
               IN IF FirstReady = NULL THEN L ELSE LL!List_detach(L, "ready", FirstReady)
  BY DEF SleepSwitches, SleepNobodyReady
<1>4. /\ running' = FirstReady /\ KernelTypeOK'
      /\ FirstReady # NULL \/ ~ InUser'
  <2>1. CASE SleepSwitches(n)
    <3>1. FirstReady \in PCB /\ running' = FirstReady /\ mode' = Resumes(FirstReady) /\ retval' = NoValue
      BY <1>1, <2>1 DEF SleepSwitches, SwitchTo
    <3>2. context' \in [PCB -> {NoContext, InFunction, InBoot}]
      BY <1>2 DEF ProcInv, ProcTypeOK
    <3>3. mode' \in {"user", "booting", "crashed"}
      BY <3>1, <3>2, ResumesInMode
    <3> QED BY <2>1, <3>1, <3>3 DEF KernelTypeOK, Modes, NoValue, SleepSwitches
  <2>2. CASE SleepNobodyReady(n)
    BY <2>2 DEF SleepNobodyReady, KernelTypeOK, Modes, NoValue, InUser
  <2> QED BY <2>1, <2>2
<1>5. /\ timer_list' \in Seq([left : Nat, pcb : PCB]) /\ InOrder(timer_list')
      /\ Sleepers' = Sleepers \cup {running}
  <2>1. timer_list \in Seq(Timer) /\ InOrder(timer_list) /\ running \notin Sleepers /\ n \in Nat
    BY <1>1, ProcConstantsAssumption DEF ProcInv, ProcTypeOK, Timer, Timers
  <2>2. /\ timer_list' \in Seq(Timer) /\ InOrder(timer_list')
        /\ {timer_list'[i].pcb : i \in DOMAIN (timer_list')} = Sleepers \cup {running}
    BY <1>1, <1>2, <2>1, TimerAdded
  <2> QED BY <2>2 DEF Timer, Sleepers
<1>6. \A c \in ChildrenOf(running) :
        ~ (/\ pcb[c].parent = running /\ pcb[c].status = "Zombie" /\ NoWait \in {0, pcb[c].pid})
  <2>1. \A c \in ChildrenOf(running) : pcb[c].pid \in Nat
    BY <1>1, ProcConstantsAssumption, Basics DEF PCBRecord
  <2> QED BY <2>1 DEF NoWait
<1> QED BY <1>1, <1>2, <1>3, <1>4, <1>5, <1>6, RunningWaits

---------------------------------------------------------------------------
(* The steps that end a process. *)

(* PCB_free of a block in use. *)
LEMMA BlockFreed ==
  ASSUME pcb_free \in Seq(PCB), NoneTwice, NEW c \in PCB \ Free, pcb_free' = Released(c)
  PROVE  pcb_free' \in Seq(PCB) /\ Free' = Free \cup {c} /\ NoneTwice'
<1> DEFINE n == Len(pcb_free)
<1>1. /\ pcb_free \in Seq(PCB) /\ n \in Nat /\ DOMAIN pcb_free = 1 .. n
      /\ \A i, j \in 1 .. n : pcb_free[i] = pcb_free[j] => i = j
      /\ \A i \in 1 .. n : pcb_free[i] # c
      /\ pcb_free' = <<c>> \o pcb_free
  BY DEF NoneTwice, Free, ToSet, Released
<1>2. /\ pcb_free' \in Seq(PCB) /\ Len(pcb_free') = n + 1 /\ DOMAIN (pcb_free') = 1 .. n + 1
      /\ pcb_free'[1] = c /\ \A i \in 1 .. n : pcb_free'[i + 1] = pcb_free[i]
  BY <1>1
<1>3. \A i \in 2 .. n + 1 : i - 1 \in 1 .. n /\ pcb_free'[i] = pcb_free[i - 1]
  <2> TAKE i \in 2 .. n + 1
  <2>1. i - 1 \in 1 .. n /\ (i - 1) + 1 = i
    BY <1>1
  <2> QED BY <1>2, <2>1
<1> HIDE DEF n
<1>4. Free' = Free \cup {c}
  <2>1. \A i \in 1 .. n : i + 1 \in 1 .. n + 1
    BY <1>1
  <2>2. \A i \in 1 .. n + 1 : i = 1 \/ i \in 2 .. n + 1
    BY <1>1
  <2>3. 1 \in 1 .. n + 1
    BY <1>1
  <2>4. Free = {pcb_free[i] : i \in 1 .. n} /\ Free' = {pcb_free'[i] : i \in 1 .. n + 1}
    BY <1>1, <1>2 DEF Free, ToSet
  <2>5. \A p \in Free' : p = c \/ p \in Free
    BY <1>2, <1>3, <2>2, <2>4
  <2>6. \A p \in Free : p \in Free'
    BY <1>2, <2>1, <2>4
  <2>7. c \in Free'
    BY <1>2, <2>3, <2>4
  <2> QED BY <2>5, <2>6, <2>7
<1>5. \A i, j \in 1 .. n + 1 : pcb_free'[i] = pcb_free'[j] => i = j
  <2> TAKE i, j \in 1 .. n + 1
  <2>1. i = 1 \/ (i \in 2 .. n + 1 /\ pcb_free'[i] = pcb_free[i - 1] /\ i - 1 \in 1 .. n)
    BY <1>1, <1>3
  <2>2. j = 1 \/ (j \in 2 .. n + 1 /\ pcb_free'[j] = pcb_free[j - 1] /\ j - 1 \in 1 .. n)
    BY <1>1, <1>3
  <2> QED BY <1>1, <1>2, <2>1, <2>2
<1> QED BY <1>2, <1>4, <1>5 DEF NoneTwice

(* The children that the PCBs f have, and that each has one place. *)
Kids(f) == UNION {ToSet(f[p].children) : p \in PCB}
Once(f) ==
  \A p, q \in PCB : \A i \in DOMAIN f[p].children, j \in DOMAIN f[q].children :
    f[p].children[i] = f[q].children[j] => p = q /\ i = j

(* Child i of r goes. *)
Removed(f, g, r, i) ==
  \A p \in PCB : g[p].children = IF p = r THEN RemoveAt(f[r].children, i) ELSE f[p].children
Proper(f) == Once(f) /\ \A p \in PCB : f[p].children \in Seq(PCB)

LEMMA ChildRemoved ==
  ASSUME NEW f, NEW g, Proper(f), NEW r \in PCB, NEW i \in DOMAIN f[r].children,
         Removed(f, g, r, i)
  PROVE  /\ Proper(g) /\ Kids(g) = Kids(f) \ {f[r].children[i]}
         /\ ToSet(g[r].children) = ToSet(f[r].children) \ {f[r].children[i]}
<1> USE DEF Removed, Proper
<1> DEFINE q == f[r].children
           t == RemoveAt(q, i)
           n == Len(q)
<1>1. /\ q \in Seq(PCB) /\ n \in Nat /\ DOMAIN q = 1 .. n /\ i \in 1 .. n
      /\ \A j, l \in 1 .. n : q[j] = q[l] => j = l
  BY DEF Once
<1>2. /\ t \in Seq(PCB) /\ Len(t) = n - 1 /\ DOMAIN t = 1 .. n - 1
      /\ \A j \in 1 .. n - 1 : t[j] = IF j < i THEN q[j] ELSE q[j + 1]
  BY <1>1, RemoveAtElements
<1>3. ToSet(t) = ToSet(q) \ {q[i]}
  BY <1>1, RemoveAtToSet
<1> HIDE DEF t, q, n
<1>4. g[r].children = t /\ f[r].children = q /\ \A p \in PCB : p # r => g[p].children = f[p].children
  BY DEF t, q
<1>5. Once(g)
  <2>1. ASSUME NEW p \in PCB, NEW j \in DOMAIN g[p].children
        PROVE  IF p = r THEN /\ j \in 1 .. n - 1 /\ g[p].children[j] = f[p].children[IF j < i THEN j ELSE j + 1]
                             /\ (IF j < i THEN j ELSE j + 1) \in DOMAIN f[p].children
                        ELSE g[p].children[j] = f[p].children[j] /\ j \in DOMAIN f[p].children
    BY <1>1, <1>2, <1>4, <2>1
  <2>2. SUFFICES ASSUME NEW p1 \in PCB, NEW p2 \in PCB, NEW j1 \in DOMAIN g[p1].children,
                        NEW j2 \in DOMAIN g[p2].children, g[p1].children[j1] = g[p2].children[j2]
                 PROVE  p1 = p2 /\ j1 = j2
    BY DEF Once
  <2>3. p1 = p2
    BY <2>1, <2>2 DEF Once
  <2>4. CASE p1 = r
    <3> DEFINE old(j) == IF j < i THEN j ELSE j + 1
    <3>1. /\ j1 \in 1 .. n - 1 /\ g[r].children[j1] = q[old(j1)] /\ old(j1) \in 1 .. n
          /\ j2 \in 1 .. n - 1 /\ g[r].children[j2] = q[old(j2)] /\ old(j2) \in 1 .. n
      BY <1>1, <1>4, <2>1, <2>3, <2>4
    <3>2. old(j1) = old(j2)
      <4> HIDE DEF old
      <4> QED BY <1>1, <2>2, <2>3, <2>4, <3>1
    <3>3. j1 = j2
      BY <1>1, <3>1, <3>2
    <3> QED BY <2>3, <3>3
  <2>5. CASE p1 # r
    BY <2>1, <2>2, <2>3, <2>5 DEF Once
  <2> QED BY <2>3, <2>4, <2>5
<1>6. Kids(g) = Kids(f) \ {q[i]}
  <2>1. \A p \in PCB : p # r => ToSet(g[p].children) = ToSet(f[p].children)
    BY <1>4
  <2>2. \A p \in PCB : p # r => q[i] \notin ToSet(f[p].children)
    <3> SUFFICES ASSUME NEW p \in PCB, p # r, NEW j \in DOMAIN f[p].children, q[i] = f[p].children[j]
                 PROVE  FALSE
      BY DEF ToSet
    <3>1. f[r].children[i] = f[p].children[j] /\ i \in DOMAIN f[r].children
      BY <1>1, <1>4
    <3> QED BY <3>1 DEF Once
  <2>3. ToSet(g[r].children) = ToSet(f[r].children) \ {q[i]}
    BY <1>3, <1>4
  <2> QED BY <2>1, <2>2, <2>3 DEF Kids
<1> QED BY <1>2, <1>3, <1>4, <1>5, <1>6

(* All the children of r go to z. *)
MovedTo(f, g, r, z) ==
  \A p \in PCB : g[p].children = IF p = r THEN <<>>
                                ELSE IF p = z THEN f[z].children \o f[r].children
                                ELSE f[p].children

LEMMA ChildrenMoved ==
  ASSUME NEW f, NEW g, Proper(f), NEW r \in PCB, NEW z \in PCB, r # z, MovedTo(f, g, r, z)
  PROVE  /\ Proper(g) /\ Kids(g) = Kids(f)
         /\ \A p \in PCB : \A c \in ToSet(g[p].children) :
              \/ c \in ToSet(f[p].children)
              \/ p = z /\ c \in ToSet(f[r].children)
         /\ \A p \in PCB : p # r => ToSet(f[p].children) \subseteq ToSet(g[p].children)
<1> DEFINE a == f[z].children
           b == f[r].children
           m == Len(a)
           n == Len(b)
<1>1. /\ g[r].children = <<>> /\ g[z].children = a \o b /\ a = f[z].children /\ b = f[r].children
      /\ \A p \in PCB : p # r /\ p # z => g[p].children = f[p].children
  BY DEF MovedTo
<1>2. /\ a \in Seq(PCB) /\ b \in Seq(PCB) /\ m \in Nat /\ n \in Nat
      /\ DOMAIN a = 1 .. m /\ DOMAIN b = 1 .. n
  BY DEF Proper
<1> HIDE DEF a, b
<1>3. /\ a \o b \in Seq(PCB) /\ DOMAIN (a \o b) = 1 .. m + n
      /\ \A i \in 1 .. m + n : (a \o b)[i] = IF i <= m THEN a[i] ELSE b[i - m]
  <2>1. a \o b \in Seq(PCB) /\ Len(a \o b) = m + n
    BY <1>2
  <2>2. DOMAIN (a \o b) = 1 .. m + n
    BY <1>2, <2>1
  <2>3. \A i \in 1 .. m + n : (a \o b)[i] = IF i <= m THEN a[i] ELSE b[i - m]
    BY <1>2
  <2> QED BY <2>1, <2>2, <2>3
<1> HIDE DEF m, n
<1>4. \A p \in PCB : g[p].children \in Seq(PCB)
  <2>1. \A p \in PCB : f[p].children \in Seq(PCB)
    BY DEF Proper
  <2>2. g[r].children \in Seq(PCB) /\ g[z].children \in Seq(PCB)
    BY <1>1, <1>3
  <2> QED BY <1>1, <2>1, <2>2
<1> DEFINE owner(p, i) == IF p = z /\ i > m THEN r ELSE p
           place(p, i) == IF p = z /\ i > m THEN i - m ELSE i
<1>5. ASSUME NEW p \in PCB, NEW i \in DOMAIN g[p].children
      PROVE  /\ owner(p, i) \in PCB /\ place(p, i) \in DOMAIN f[owner(p, i)].children
             /\ g[p].children[i] = f[owner(p, i)].children[place(p, i)]
             /\ p # r /\ (p = z => i \in 1 .. m + n)
  <2>1. p # r
    BY <1>1
  <2>2. CASE p # z
    BY <1>1, <2>1, <2>2
  <2>3. CASE p = z
    <3>1. i \in 1 .. m + n /\ g[p].children[i] = IF i <= m THEN a[i] ELSE b[i - m]
      BY <1>1, <1>3, <2>3
    <3>2. CASE i > m
      <4>1. i - m \in 1 .. n /\ ~ (i <= m)
        BY <1>2, <3>1, <3>2
      <4>2. owner(p, i) = r /\ place(p, i) = i - m
        BY <2>3, <3>2
      <4> QED BY <1>1, <1>2, <2>1, <3>1, <4>1, <4>2
    <3>3. CASE ~ (i > m)
      <4>1. i \in 1 .. m /\ i <= m
        BY <1>2, <3>1, <3>3
      <4>2. owner(p, i) = z /\ place(p, i) = i
        BY <2>3, <3>3
      <4> QED BY <1>1, <1>2, <2>1, <3>1, <4>1, <4>2
    <3> QED BY <3>2, <3>3
  <2> QED BY <2>2, <2>3
<1> HIDE DEF owner, place
<1>6. Once(g)
  <2> SUFFICES ASSUME NEW p \in PCB, NEW q \in PCB, NEW i \in DOMAIN g[p].children,
                      NEW j \in DOMAIN g[q].children,
                      g[p].children[i] = g[q].children[j]
               PROVE  p = q /\ i = j
    BY DEF Once
  <2>1. owner(p, i) = owner(q, j) /\ place(p, i) = place(q, j)
    BY <1>5 DEF Proper, Once
  <2>2. p # r /\ q # r /\ (p = z => i \in Int) /\ (q = z => j \in Int)
    BY <1>5
  <2>3. p = q
    BY <1>1, <2>1, <2>2 DEF owner
  <2>4. i = j
    BY <1>1, <1>2, <2>1, <2>2, <2>3 DEF owner, place
  <2> QED BY <2>3, <2>4
<1>7. \A p \in PCB : \A c \in ToSet(g[p].children) :
        \/ c \in ToSet(f[p].children)
        \/ p = z /\ c \in ToSet(f[r].children)
  <2> SUFFICES ASSUME NEW p \in PCB, NEW i \in DOMAIN g[p].children
               PROVE  \/ g[p].children[i] \in ToSet(f[p].children)
                      \/ p = z /\ g[p].children[i] \in ToSet(f[r].children)
    BY DEF ToSet
  <2>1. g[p].children[i] \in ToSet(f[owner(p, i)].children)
    BY <1>5 DEF ToSet
  <2> QED BY <2>1 DEF owner
<1>8. ASSUME NEW p \in PCB, p # r, NEW c \in ToSet(f[p].children)
      PROVE  c \in ToSet(g[p].children)
  <2>1. PICK i \in DOMAIN f[p].children : c = f[p].children[i]
    BY <1>8 DEF ToSet
  <2>2. CASE p = z
    <3>1. i \in 1 .. m /\ c = a[i]
      BY <1>2, <2>1, <2>2 DEF a
    <3>2. i \in 1 .. m + n /\ i <= m
      BY <1>2, <3>1
    <3>3. (a \o b)[i] = c
      BY <1>3, <3>1, <3>2
    <3> QED BY <1>1, <1>3, <2>2, <3>2, <3>3 DEF ToSet
  <2>3. CASE p # z
    BY <1>1, <1>8, <2>1, <2>3 DEF ToSet
  <2> QED BY <2>2, <2>3
<1>9. Kids(g) = Kids(f)
  <2>1. ASSUME NEW c \in Kids(g) PROVE c \in Kids(f)
    <3>1. PICK p \in PCB : c \in ToSet(g[p].children)
      BY <2>1 DEF Kids
    <3> QED BY <1>7, <3>1 DEF Kids
  <2>2. ASSUME NEW c \in Kids(f) PROVE c \in Kids(g)
    <3>1. PICK p \in PCB : c \in ToSet(f[p].children)
      BY <2>2 DEF Kids
    <3>2. PICK i \in DOMAIN f[p].children : c = f[p].children[i]
      BY <3>1 DEF ToSet
    <3>3. CASE p = r
      <4>1. i \in 1 .. n /\ c = b[i]
        BY <1>2, <3>2, <3>3 DEF b
      <4>2. m + i \in 1 .. m + n /\ ~ (m + i <= m) /\ (m + i) - m = i
        BY <1>2, <4>1
      <4>3. (a \o b)[m + i] = c
        BY <1>3, <4>1, <4>2
      <4>4. c \in ToSet(g[z].children)
        BY <1>1, <1>3, <4>2, <4>3 DEF ToSet
      <4> QED BY <1>1, <4>4 DEF Kids
    <3>4. CASE p # r
      BY <1>8, <3>1, <3>4 DEF Kids
    <3> QED BY <3>3, <3>4
  <2> QED BY <2>1, <2>2
<1> QED BY <1>4, <1>6, <1>7, <1>8, <1>9 DEF Proper

LEMMA OneOwnedLess ==
  ASSUME ProcInv, NEW c \in Owned
  PROVE  /\ Cardinality(Owned) \in Nat /\ Cardinality(Owned \ {c}) = Cardinality(Owned) - 1
         /\ Cardinality(Owned) >= 1
<1>1. IsFiniteSet(Owned)
  BY Basics, PCBsAreFinite, FS_Subset
<1>2. Cardinality(Owned) \in Nat /\ Cardinality(Owned \ {c}) = Cardinality(Owned) - 1
  BY <1>1, FS_RemoveElement, FS_CardinalityType
<1>3. Cardinality(Owned \ {c}) \in Nat
  BY <1>1, FS_CardinalityType, FS_Difference
<1> QED BY <1>2, <1>3

(* A wait whose scan ends at a zombie. *)
LEMMA WaitReapsStep ==
  ASSUME ProcInv, NEW k \in WaitArgs, NEW i, WaitReaps(k, i)
  PROVE  ProcInv' /\ DeadStay /\ Answered /\ Reported /\ (Found => Found')
<1> DEFINE q == pcb[running].children
           c == Child(i)
<1>1. /\ running \in PCB /\ InUser /\ running \notin Free /\ running \notin Waiters
      /\ pcb[running].status \in {"Running", "Ready"}
      /\ running' = running /\ init_pcb' = init_pcb /\ last_pid' = last_pid /\ context' = context
      /\ timer_list' = timer_list /\ pcbptr_free' = pcbptr_free + 1
  BY Basics DEF WaitReaps, ProcInv, Placed
<1>2. /\ q \in Seq(PCB) /\ i \in DOMAIN q /\ q[i] = c /\ c \in Owned /\ c \in PCB
      /\ pcb[c].status = "Zombie"
  <2>1. q \in Seq(PCB) /\ i \in DOMAIN q /\ q[i] = c /\ pcb[c].status = "Zombie"
    BY <1>1, Basics DEF WaitReaps, ScanEndsAt, Child
  <2> QED BY <1>1, <2>1, Basics
<1>3. c \notin Free /\ pcb[c].parent # NULL /\ c \in Zombies /\ c # running /\ c # init_pcb
  BY <1>1, <1>2 DEF ProcInv, Families, OwnedAreLive, InitIsOld, Placed
<1> HIDE DEF c
<1>4. /\ pcb' \in [PCB -> PCBRecord]
      /\ \A p \in PCB :
           /\ pcb'[p].pid = pcb[p].pid /\ pcb'[p].status = pcb[p].status
           /\ pcb'[p].parent = pcb[p].parent /\ pcb'[p].signals = pcb[p].signals
           /\ pcb'[p].children = IF p = running THEN RemoveAt(q, i) ELSE pcb[p].children
           /\ p # running => pcb'[p] = pcb[p]
  <2> DEFINE d == Called(k)
             r == RemoveAt(q, i)
  <2>1. k \in WaitArgs \cup {NoWait}
    OBVIOUS
  <2>2. /\ d \in [PCB -> PCBRecord]
        /\ \A p \in PCB :
             /\ p # running => d[p] = pcb[p]
             /\ d[p].pid = pcb[p].pid /\ d[p].status = pcb[p].status
             /\ d[p].parent = pcb[p].parent
             /\ d[p].children = pcb[p].children
             /\ d[p].signals = pcb[p].signals
    BY <1>1, <2>1, CalledFields
  <2>3. pcb' = [d EXCEPT ![running].children = r]
    BY DEF WaitReaps, ChildDetached
  <2>4. r \in Seq(PCB)
    BY <1>2, RemoveAtElements
  <2> HIDE DEF d, r, q
  <2> DEFINE old == d[running]
             new == [old EXCEPT !.children = r]
  <2>5. /\ old \in PCBRecord /\ old.pid = pcb[running].pid /\ old.status = pcb[running].status
        /\ old.parent = pcb[running].parent /\ old.signals = pcb[running].signals
    BY <1>1, <2>2
  <2> HIDE DEF old
  <2>6. /\ new \in PCBRecord /\ new.children = r /\ new.pid = old.pid /\ new.parent = old.parent
        /\ new.status = old.status /\ new.signals = old.signals
    BY <2>4, <2>5, ChildrenSet
  <2>7. pcb' = [d EXCEPT ![running] = new]
    BY <2>3 DEF old
  <2> HIDE DEF new
  <2>8. /\ pcb' \in [PCB -> PCBRecord] /\ pcb'[running] = new
        /\ \A p \in PCB : p # running => pcb'[p] = pcb[p]
    BY <1>1, <2>2, <2>6, <2>7
  <2> QED BY <2>5, <2>6, <2>8 DEF r
<1>5. /\ LP!Proper(lists)' /\ (lists \in LL!Store)'
      /\ ReadyOnes' = ReadyOnes /\ Waiters' = Waiters /\ Zombies' = Zombies \ {c}
  <2>1. Lists(lists, ReadyOnes, Waiters, Zombies)
    BY Basics
  <2>2. Lists(LL!List_detach(lists, "zombie", c), ReadyOnes, Waiters, Zombies \ {c})
    BY <1>3, <2>1, Leaving
  <2>3. lists' = LL!List_detach(lists, "zombie", c)
    BY DEF WaitReaps, ZombieDetached, c
  <2>4. Lists(lists', ReadyOnes, Waiters, Zombies \ {c})
    BY <2>2, <2>3
  <2> QED BY <2>4, NextLists
<1>6. /\ pcb_free' \in Seq(PCB) /\ Free' = Free \cup {c}
      /\ (\A m, j \in DOMAIN pcb_free : pcb_free[m] = pcb_free[j] => m = j)'
  <2>1. c \in PCB \ Free /\ pcb_free' = Released(c)
    BY <1>2, <1>3 DEF WaitReaps, c
  <2>2. pcb_free \in Seq(PCB) /\ NoneTwice
    BY DEF ProcInv, ProcTypeOK, FreeOK, NoneTwice
  <2> QED BY <2>1, <2>2, BlockFreed DEF NoneTwice
<1>7. /\ OwnedOnce' /\ Owned' = Owned \ {c}
      /\ \A p \in PCB : /\ p # running => ChildrenOf(p)' = ChildrenOf(p)
                        /\ ChildrenOf(p)' \in SUBSET ChildrenOf(p)
      /\ c \notin ToSet(pcb'[running].children)
  <2>1. Proper(pcb) /\ Removed(pcb, pcb', running, i)
    BY <1>4, Basics DEF ProcInv, Families, OwnedOnce, Proper, Once, Removed
  <2>2. /\ Proper(pcb') /\ Kids(pcb') = Kids(pcb) \ {c}
        /\ ToSet(pcb'[running].children) = ToSet(pcb[running].children) \ {c}
    <3>1. running \in PCB /\ i \in DOMAIN pcb[running].children /\ pcb[running].children[i] = c
      BY <1>1, <1>2
    <3>2. /\ Proper(pcb') /\ Kids(pcb') = Kids(pcb) \ {pcb[running].children[i]}
          /\ ToSet(pcb'[running].children) = ToSet(pcb[running].children) \ {pcb[running].children[i]}
      BY <2>1, <3>1, ChildRemoved
    <3> QED BY <3>1, <3>2
  <2>3. \A p \in PCB : p # running => ToSet(pcb'[p].children) = ToSet(pcb[p].children)
    BY <1>4
  <2> QED BY <2>2, <2>3 DEF Proper, Once, OwnedOnce, Kids, Owned, ChildrenOf
<1>8. Owned \in SUBSET PCB /\ Waiters \in SUBSET PCB /\ Free \in SUBSET PCB /\ init_pcb \in PCB
  BY Basics
<1>9. PtrBlocks' /\ pcbptr_free' \in 0 .. MAX_NUM_PROCESSES
  <2>1. PtrBlocks /\ pcbptr_free \in 0 .. MAX_NUM_PROCESSES
    BY DEF ProcInv, ProcTypeOK
  <2>2. /\ Cardinality(Owned) \in Nat /\ Cardinality(Owned') = Cardinality(Owned) - 1
        /\ Cardinality(Owned) >= 1
    BY <1>2, <1>7, OneOwnedLess
  <2> QED BY <1>1, <2>1, <2>2, PCBsAreFinite DEF PtrBlocks
<1>10. ProcTypeOK'
  <2>1. ProcTypeOK /\ pcb[c].pid \in Int
    BY <1>2, Basics DEF ProcInv, PCBRecord
  <2>2. KernelTypeOK'
    BY <2>1 DEF WaitReaps, Return, KernelTypeOK, Modes, c
  <2> QED BY <1>1, <1>4, <1>5, <1>6, <1>9, <2>1, <2>2 DEF ProcTypeOK, PCBRecord
<1>11. Placed'
  <2>1. Placed /\ ReadyOnes \in SUBSET PCB /\ Waiters \cap Zombies = {} /\ ReadyOnes \cap Zombies = {}
    BY Basics DEF ProcInv
  <2>2. InUser'
    BY DEF WaitReaps, Return, InUser
  <2> QED BY <1>1, <1>2, <1>3, <1>4, <1>5, <1>6, <1>8, <2>1 DEF Placed
<1>12. FreeOK'
  <2>1. FreeOK
    BY DEF ProcInv
  <2> QED BY <1>1, <1>2, <1>4, <1>6, <1>8, <2>1 DEF FreeOK
<1>13. InitIsOld' /\ LiveAreOwned' /\ OwnedAreLive' /\ PidsDiffer'
  <2>1. InitIsOld /\ LiveAreOwned /\ OwnedAreLive /\ PidsDiffer
    BY DEF ProcInv, Families
  <2>2. InitIsOld' /\ PidsDiffer'
    BY <1>1, <1>3, <1>4, <1>6, <1>8, <2>1 DEF InitIsOld, PidsDiffer
  <2>3. LiveAreOwned' /\ OwnedAreLive'
    BY <1>4, <1>6, <1>7, <1>8, <2>1 DEF LiveAreOwned, OwnedAreLive
  <2> QED BY <2>2, <2>3
<1>14. OrphansHungUp'
  <2>1. OrphansHungUp /\ \A p \in PCB : ChildrenOf(p) \in SUBSET PCB
    BY Basics DEF ProcInv, Families
  <2> QED BY <1>4, <1>6, <1>7, <2>1 DEF OrphansHungUp
<1>15. Timers'
  <2>1. Timers /\ Sleepers' = Sleepers
    BY <1>1 DEF ProcInv, Sleepers
  <2> QED BY <1>1, <1>4, <1>5, <1>7, <1>8, <2>1 DEF Timers
<1>16. NoLostWakeup'
  <2>1. InList("waiting") = Waiters /\ InList("waiting")' = Waiters
    BY <1>5 DEF InList, Waiters, In, Steps
  <2>2. \A p \in PCB : ChildrenOf(p) \in SUBSET PCB
    BY Basics
  <2> QED BY <1>1, <1>4, <1>7, <1>8, <2>1, <2>2 DEF NoLostWakeup, ProcInv
<1>17. DeadStay /\ (Found => Found')
  BY <1>1, <1>4, <1>5, <1>6 DEF DeadStay, Found
<1>18. Reported
  <2>1. retval' = pcb[c].pid
    BY DEF WaitReaps, Return, c
  <2>2. c \in ToSet(q)
    BY <1>2 DEF ToSet
  <2> QED BY <1>1, <1>6, <1>7, <2>1, <2>2 DEF Reported
<1>19. Answered
  <2>1. \A p \in Waiters : p \in PCB /\ p # running
    BY <1>1, <1>8
  <2> QED BY <1>4, <1>7, <2>1, WaitsGoOn
<1> QED BY <1>5, <1>7, <1>9, <1>10, <1>11, <1>12, <1>13, <1>14, <1>15, <1>16, <1>17, <1>18, <1>19
        DEF ProcInv, Families

(* The PCBs just before exit looks at its parent. *)
LEMMA DyingFields ==
  ASSUME ProcInv, InUser, ~ ExitLoops, Parent # NULL
  PROVE  /\ running \in PCB /\ running \notin Free /\ pcb[running].status \in {"Running", "Ready"}
         /\ running \notin ReadyOnes /\ running \notin Waiters /\ running \notin Zombies
         /\ Parent \in PCB /\ Parent # running /\ init_pcb \in PCB /\ init_pcb # running
         /\ Dying \in [PCB -> PCBRecord]
         /\ \A p \in PCB :
              /\ Dying[p].pid = pcb[p].pid /\ Dying[p].parent = pcb[p].parent
              /\ Dying[p].status = IF p = running THEN "Zombie" ELSE pcb[p].status
              /\ Dying[p].children =
                   IF p = running THEN <<>>
                   ELSE IF p = init_pcb THEN pcb[init_pcb].children \o pcb[running].children
                   ELSE pcb[p].children
              /\ p # running => Dying[p].awaiting = pcb[p].awaiting
              /\ pcb[p].signals \subseteq Dying[p].signals
              /\ p \in ChildrenOf(running) => "SIGHUP" \in Dying[p].signals
<1>1. /\ running \in PCB /\ running \notin Free /\ pcb[running].status \in {"Running", "Ready"}
      /\ running \notin ReadyOnes /\ running \notin Waiters /\ running \notin Zombies
      /\ init_pcb \in PCB /\ pcb \in [PCB -> PCBRecord]
  BY Basics DEF ProcInv, Placed
<1>2. Parent \in PCB /\ Parent # running /\ init_pcb # running
  BY <1>1 DEF Parent, PCBRecord, ProcInv, Families, InitIsOld
<1> DEFINE old == ChildrenOf(running)
           a == [p \in PCB |-> IF p \in old THEN HungUp(pcb[p]) ELSE pcb[p]]
           b == [a EXCEPT ![init_pcb].children = Adopted(pcb[running].children)]
           c == [b EXCEPT ![running].children = <<>>]
           d == [c EXCEPT ![running].awaiting = NoWait]
           e == [d EXCEPT ![running].status = "Zombie"]
           f == [e EXCEPT ![Parent].signals = e[Parent].signals \cup {"SIGCHLD"}]
<1>3. Dying = f
  <2>1. Orphaned = d
    BY DEF Orphaned, ChildrenOf
  <2> HIDE DEF d
  <2> QED BY <2>1 DEF Dying
<1>4. /\ a \in [PCB -> PCBRecord]
      /\ \A p \in PCB :
           /\ a[p].pid = pcb[p].pid /\ a[p].parent = pcb[p].parent
           /\ a[p].children = pcb[p].children /\ a[p].status = pcb[p].status
           /\ a[p].awaiting = pcb[p].awaiting /\ pcb[p].signals \subseteq a[p].signals
           /\ p \in old => "SIGHUP" \in a[p].signals
  <2>1. ASSUME NEW r \in PCBRecord
        PROVE  /\ HungUp(r) \in PCBRecord
               /\ HungUp(r).pid = r.pid /\ HungUp(r).parent = r.parent
               /\ HungUp(r).children = r.children /\ HungUp(r).status = r.status
               /\ HungUp(r).awaiting = r.awaiting /\ r.signals \subseteq HungUp(r).signals
               /\ "SIGHUP" \in HungUp(r).signals
    BY DEF HungUp, PCBRecord
  <2> HIDE DEF old
  <2> QED BY <1>1, <2>1
<1>5. /\ Adopted(pcb[running].children) = pcb[init_pcb].children \o pcb[running].children
      /\ Adopted(pcb[running].children) \in Seq(PCB)
  BY <1>1, Basics DEF Adopted
<1> HIDE DEF old, a
<1>6. AssignsChildren(a, b, init_pcb, Adopted(pcb[running].children))
  BY <1>1, <1>4, <1>5, FieldAssigned
<1> HIDE DEF b
<1>7. AssignsChildren(b, c, running, <<>>)
  <2>1. b \in [PCB -> PCBRecord] /\ <<>> \in Seq(PCB)
    BY <1>6 DEF AssignsChildren
  <2> QED BY <1>1, <2>1, FieldAssigned
<1> HIDE DEF c
<1>8. AssignsAwaiting(c, d, running, NoWait)
  <2>1. c \in [PCB -> PCBRecord] /\ NoWait \in WaitArgs \cup {NoWait}
    BY <1>7 DEF AssignsChildren
  <2> QED BY <1>1, <2>1, FieldAssigned
<1> HIDE DEF d
<1>9. AssignsStatus(d, e, running, "Zombie")
  <2>1. "Zombie" \in Statuses /\ d \in [PCB -> PCBRecord]
    BY <1>8 DEF AssignsAwaiting, Statuses
  <2> QED BY <1>1, <2>1, FieldAssigned
<1> HIDE DEF e
<1>10. AssignsSignals(e, f, Parent, e[Parent].signals \cup {"SIGCHLD"})
  <2>1. e \in [PCB -> PCBRecord]
    BY <1>9 DEF AssignsStatus
  <2>2. e[Parent].signals \cup {"SIGCHLD"} \in SUBSET {"SIGCHLD", "SIGHUP"}
    BY <1>2, <2>1 DEF PCBRecord
  <2> QED BY <1>2, <2>1, <2>2, FieldAssigned
<1> HIDE DEF f
<1>11. f \in [PCB -> PCBRecord]
  BY <1>10 DEF AssignsSignals
<1>12. ASSUME NEW p \in PCB
       PROVE  /\ f[p].pid = pcb[p].pid /\ f[p].parent = pcb[p].parent
              /\ f[p].status = IF p = running THEN "Zombie" ELSE pcb[p].status
              /\ f[p].children =
                   IF p = running THEN <<>>
                   ELSE IF p = init_pcb THEN pcb[init_pcb].children \o pcb[running].children
                   ELSE pcb[p].children
  BY <1>2, <1>4, <1>5, <1>6, <1>7, <1>8, <1>9, <1>10
     DEF AssignsChildren, AssignsAwaiting, AssignsStatus, AssignsSignals
<1>13. ASSUME NEW p \in PCB
       PROVE  /\ p # running => f[p].awaiting = pcb[p].awaiting
              /\ pcb[p].signals \subseteq f[p].signals
              /\ p \in old => "SIGHUP" \in f[p].signals
  BY <1>4, <1>6, <1>7, <1>8, <1>9, <1>10
     DEF AssignsChildren, AssignsAwaiting, AssignsStatus, AssignsSignals
<1> QED BY <1>1, <1>2, <1>3, <1>11, <1>12, <1>13 DEF old

(* The families while a process dies: init has its children. *)
LEMMA DyingFamilies ==
  ASSUME ProcInv, InUser, ~ ExitLoops, Parent # NULL
  PROVE  /\ Proper(Dying) /\ Kids(Dying) = Owned
         /\ \A p \in PCB : p # running => ChildrenOf(p) \subseteq ToSet(Dying[p].children)
         /\ \A p \in PCB : \A c \in ToSet(Dying[p].children) :
              /\ c \in Owned /\ (pcb[c].parent = p => c \in ChildrenOf(p))
              /\ p \notin Free /\ pcb[c].parent # p =>
                   pcb[p].parent = NULL /\ "SIGHUP" \in Dying[c].signals
<1>1. /\ running \in PCB /\ init_pcb \in PCB /\ init_pcb # running /\ running \notin Free
      /\ pcb[running].parent # NULL /\ pcb[init_pcb].parent = NULL
      /\ MovedTo(pcb, Dying, running, init_pcb)
      /\ \A p \in PCB : /\ pcb[p].signals \subseteq Dying[p].signals
                        /\ p \in ChildrenOf(running) => "SIGHUP" \in Dying[p].signals
  BY DyingFields DEF Parent, ProcInv, Families, InitIsOld, MovedTo
<1>2. Proper(pcb)
  BY Basics DEF Proper, Once, ProcInv, Families, OwnedOnce
<1>3. /\ Proper(Dying) /\ Kids(Dying) = Kids(pcb)
      /\ \A p \in PCB : \A c \in ToSet(Dying[p].children) :
           c \in ChildrenOf(p) \/ (p = init_pcb /\ c \in ChildrenOf(running))
      /\ \A p \in PCB : p # running => ChildrenOf(p) \subseteq ToSet(Dying[p].children)
  <2>1. /\ Proper(Dying) /\ Kids(Dying) = Kids(pcb)
        /\ \A p \in PCB : \A c \in ToSet(Dying[p].children) :
             c \in ToSet(pcb[p].children) \/ (p = init_pcb /\ c \in ToSet(pcb[running].children))
        /\ \A p \in PCB : p # running => ToSet(pcb[p].children) \subseteq ToSet(Dying[p].children)
    <3>1. running \in PCB /\ init_pcb \in PCB /\ running # init_pcb /\ MovedTo(pcb, Dying, running, init_pcb)
      BY <1>1
    <3> DEFINE f == pcb
               g == Dying
    <3>2. running \in PCB /\ init_pcb \in PCB /\ running # init_pcb /\ MovedTo(f, g, running, init_pcb) /\ Proper(f)
      BY <1>2, <3>1
    <3> HIDE DEF f, g
    <3>3. /\ Proper(g) /\ Kids(g) = Kids(f)
          /\ \A p \in PCB : \A c \in ToSet(g[p].children) :
               c \in ToSet(f[p].children) \/ (p = init_pcb /\ c \in ToSet(f[running].children))
          /\ \A p \in PCB : p # running => ToSet(f[p].children) \subseteq ToSet(g[p].children)
      BY <3>2, ChildrenMoved, SMTT(30)
    <3> QED BY <3>3 DEF f, g
  <2> QED BY <2>1 DEF ChildrenOf
<1>4. Kids(Dying) = Owned
  BY <1>3 DEF Kids, Owned, ChildrenOf
<1>5. ASSUME NEW p \in PCB, NEW c \in ToSet(Dying[p].children)
      PROVE  /\ c \in Owned /\ (pcb[c].parent = p => c \in ChildrenOf(p))
             /\ p \notin Free /\ pcb[c].parent # p =>
                  pcb[p].parent = NULL /\ "SIGHUP" \in Dying[c].signals
  <2>1. OrphansHungUp /\ Owned \in SUBSET PCB
    BY Basics DEF ProcInv, Families
  <2>2. CASE c \in ChildrenOf(p)
    <3>1. c \in Owned /\ c \in PCB
      BY <2>1, <2>2, Basics
    <3> QED BY <1>1, <2>1, <2>2, <3>1 DEF OrphansHungUp
  <2>3. CASE p = init_pcb /\ c \in ChildrenOf(running)
    <3>1. c \in Owned /\ c \in PCB
      BY <1>1, <2>1, <2>3, Basics
    <3>2. pcb[c].parent = running
      BY <1>1, <2>1, <2>3 DEF OrphansHungUp
    <3> QED BY <1>1, <2>3, <3>1, <3>2
  <2> QED BY <1>3, <2>2, <2>3
<1> QED BY <1>3, <1>4, <1>5

(* An exit whose parent does not wait for it. *)
LEMMA ExitSwitchesStep ==
  ASSUME ProcInv, ExitSwitches
  PROVE  ProcInv' /\ DeadStay /\ Answered /\ (Found => Found')
<1> DEFINE f == FirstReady
<1>0. InUser /\ ~ ExitLoops /\ Parent # NULL /\ ~ ParentWaits /\ f # NULL
  BY DEF ExitSwitches
<1>1. /\ running \in PCB /\ running \notin Free /\ pcb[running].status \in {"Running", "Ready"}
      /\ running \notin ReadyOnes /\ running \notin Waiters /\ running \notin Zombies
      /\ Parent \in PCB /\ Parent # running /\ init_pcb \in PCB /\ init_pcb # running
      /\ Dying \in [PCB -> PCBRecord]
  BY <1>0, DyingFields
<1>2. /\ f \in ReadyOnes /\ f \in PCB /\ f # running /\ Free \in SUBSET PCB /\ Owned \in SUBSET PCB
      /\ Lists(lists, ReadyOnes, Waiters, Zombies)
      /\ ReadyOnes \in SUBSET PCB /\ Waiters \in SUBSET PCB /\ Zombies \in SUBSET PCB
      /\ ReadyOnes \cap Waiters = {} /\ ReadyOnes \cap Zombies = {} /\ Waiters \cap Zombies = {}
      /\ f \notin Free /\ pcb[f].status = "Ready"
  BY <1>0, <1>1, Basics DEF ProcInv, Placed
<1>3. /\ pcb' = [Dying EXCEPT ![f].status = "Running"]
      /\ lists' = LL!List_detach(LL!Enlist(lists, "zombie", running), "ready", f)
      /\ UNCHANGED <<init_pcb, last_pid, context, timer_list, pcb_free, pcbptr_free>>
      /\ running' = f /\ mode' = Resumes(f) /\ retval' = NoValue
  BY DEF ExitSwitches, SwitchTo, DyingLists
<1> HIDE DEF f
<1>4. /\ pcb' \in [PCB -> PCBRecord]
      /\ \A p \in PCB :
           /\ pcb'[p].pid = pcb[p].pid /\ pcb'[p].parent = pcb[p].parent
           /\ pcb'[p].status = IF p = f THEN "Running" ELSE IF p = running THEN "Zombie" ELSE pcb[p].status
           /\ pcb'[p].children = Dying[p].children /\ pcb'[p].signals = Dying[p].signals
           /\ p # running => pcb'[p].awaiting = pcb[p].awaiting
  <2>1. AssignsStatus(Dying, pcb', f, "Running")
    <3>1. "Running" \in Statuses
      BY DEF Statuses
    <3> QED BY <1>1, <1>2, <1>3, <3>1, FieldAssigned
  <2>2. \A p \in PCB :
           /\ Dying[p].pid = pcb[p].pid /\ Dying[p].parent = pcb[p].parent
           /\ Dying[p].status = IF p = running THEN "Zombie" ELSE pcb[p].status
           /\ p # running => Dying[p].awaiting = pcb[p].awaiting
    BY <1>0, DyingFields
  <2> QED BY <2>1, <2>2 DEF AssignsStatus
<1>5. /\ LP!Proper(lists)' /\ (lists \in LL!Store)'
      /\ ReadyOnes' = ReadyOnes \ {f} /\ Waiters' = Waiters /\ Zombies' = Zombies \cup {running}
  <2>1. Lists(LL!Enlist(lists, "zombie", running), ReadyOnes, Waiters, Zombies \cup {running})
    BY <1>1, <1>2, Entering
  <2>2. Lists(lists', ReadyOnes \ {f}, Waiters, Zombies \cup {running})
    BY <1>2, <1>3, <2>1, Leaving
  <2> QED BY <2>2, NextLists
<1>6. Free' = Free /\ Sleepers' = Sleepers /\ timer_list' = timer_list /\ running' = f
  BY <1>3 DEF Free, Sleepers
<1>7. /\ OwnedOnce' /\ Owned' = Owned
      /\ \A p \in PCB : \A c \in ChildrenOf(p)' :
           /\ c \in PCB /\ (pcb[c].parent = p => c \in ChildrenOf(p))
           /\ p \notin Free /\ pcb[c].parent # p =>
                pcb[p].parent = NULL /\ "SIGHUP" \in pcb'[c].signals
      /\ \A p \in Waiters : ChildrenOf(p) \subseteq ChildrenOf(p)'
  <2>1. /\ Proper(Dying) /\ Kids(Dying) = Owned
        /\ \A p \in PCB : p # running => ChildrenOf(p) \subseteq ToSet(Dying[p].children)
        /\ \A p \in PCB : \A c \in ToSet(Dying[p].children) :
             /\ c \in Owned /\ (pcb[c].parent = p => c \in ChildrenOf(p))
             /\ p \notin Free /\ pcb[c].parent # p =>
                  pcb[p].parent = NULL /\ "SIGHUP" \in Dying[c].signals
    BY <1>0, DyingFamilies
  <2>2. \A p \in PCB : ChildrenOf(p)' = ToSet(Dying[p].children)
    BY <1>4 DEF ChildrenOf
  <2>3. OwnedOnce' /\ Owned' = Owned
    BY <1>4, <2>1, <2>2 DEF Proper, Once, OwnedOnce, Kids, Owned
  <2>4. \A p \in Waiters : ChildrenOf(p) \subseteq ChildrenOf(p)'
    BY <1>1, <1>2, <2>1, <2>2
  <2> QED BY <1>2, <1>4, <2>1, <2>2, <2>3, <2>4
<1>8. PtrBlocks'
  BY <1>3, <1>7 DEF PtrBlocks, ProcInv
<1>9. ProcTypeOK'
  <2>1. ProcTypeOK
    BY DEF ProcInv
  <2>2. context' \in [PCB -> {NoContext, InFunction, InBoot}]
    BY <1>3, <2>1 DEF ProcTypeOK
  <2>3. mode' \in {"user", "booting", "crashed"}
    BY <1>2, <1>3, <2>2, ResumesInMode
  <2>4. KernelTypeOK'
    BY <1>3, <2>3 DEF KernelTypeOK, Modes, NoValue
  <2> QED BY <1>2, <1>3, <1>4, <1>5, <2>1, <2>4 DEF ProcTypeOK, PCBRecord
<1>10. Placed'
  <2>1. Placed
    BY DEF ProcInv
  <2>2. /\ running' \notin ReadyOnes' /\ running' \notin Waiters' /\ running' \notin Zombies'
        /\ running' \notin Free' /\ running' # NULL /\ pcb'[running'].status = "Running"
    BY <1>0, <1>2, <1>4, <1>5, <1>6 DEF f
  <2>3. Free' \cap ReadyOnes' = {} /\ Free' \cap Waiters' = {} /\ Free' \cap Zombies' = {}
    BY <1>1, <1>5, <1>6, <2>1 DEF Placed
  <2>4. \A p \in ReadyOnes' : pcb'[p].status = "Ready"
    BY <1>1, <1>2, <1>4, <1>5, <2>1 DEF Placed
  <2>5. \A p \in PCB : p \in Waiters' <=> pcb'[p].status = "Waiting"
    BY <1>1, <1>2, <1>4, <1>5, <2>1 DEF Placed
  <2>6. /\ \A p \in PCB : p \in Zombies' <=> pcb'[p].status = "Zombie" /\ p \notin Free'
        /\ \A p \in PCB \ Free' : pcb'[p].status # "Created"
    BY <1>1, <1>2, <1>4, <1>5, <1>6, <2>1 DEF Placed
  <2> QED BY <2>2, <2>3, <2>4, <2>5, <2>6 DEF Placed
<1>11. FreeOK'
  <2>1. FreeOK /\ Placed /\ InitIsOld
    BY DEF ProcInv, Families
  <2>2. pcb[init_pcb].status \notin {"Created", "Zombie"}
    BY <1>1, <2>1 DEF Placed, InitIsOld
  <2>3. \A p \in PCB : pcb'[p].children = IF p = running THEN <<>>
                                          ELSE IF p = init_pcb THEN pcb[init_pcb].children \o pcb[running].children
                                          ELSE pcb[p].children
    BY <1>0, <1>4, DyingFields
  <2>4. \A p \in PCB : pcb'[p].status \in {"Created", "Zombie"} => pcb'[p].children = <<>>
    BY <1>4, <2>1, <2>2, <2>3 DEF FreeOK
  <2>5. \A p \in Free : pcb'[p].status \in {"Created", "Zombie"}
    BY <1>1, <1>2, <1>4, <2>1 DEF FreeOK
  <2> QED BY <1>3, <1>6, <2>1, <2>4, <2>5 DEF FreeOK
<1>12. InitIsOld' /\ LiveAreOwned' /\ OwnedAreLive' /\ PidsDiffer'
  <2>1. InitIsOld /\ LiveAreOwned /\ OwnedAreLive /\ PidsDiffer
    BY DEF ProcInv, Families
  <2>2. pcb[running].parent # NULL
    BY <1>0 DEF Parent
  <2>3. InitIsOld' /\ PidsDiffer'
    BY <1>1, <1>3, <1>4, <1>6, <2>1, <2>2 DEF InitIsOld, PidsDiffer
  <2>4. LiveAreOwned' /\ OwnedAreLive'
    BY <1>2, <1>4, <1>6, <1>7, <2>1 DEF LiveAreOwned, OwnedAreLive
  <2> QED BY <2>3, <2>4
<1>13. OrphansHungUp'
  BY <1>4, <1>6, <1>7 DEF OrphansHungUp
<1>14. Timers'
  <2>1. Timers
    BY DEF ProcInv
  <2> QED BY <1>1, <1>2, <1>4, <1>5, <1>6, <1>7, <2>1 DEF Timers
<1>15. NoLostWakeup'
  <2>1. InList("waiting") = Waiters /\ InList("waiting")' = Waiters
    BY <1>5 DEF InList, Waiters, In, Steps
  <2>2. SUFFICES ASSUME NEW p \in Waiters, NEW c \in ChildrenOf(p)', pcb'[c].parent = p,
                        pcb'[c].status = "Zombie", pcb'[p].awaiting \in {0, pcb'[c].pid}
                 PROVE  FALSE
    BY <2>1 DEF NoLostWakeup
  <2>3. /\ p \in PCB /\ p # running /\ c \in PCB /\ pcb[c].parent = p /\ c \in ChildrenOf(p)
        /\ pcb[p].awaiting \in {0, pcb[c].pid}
    BY <1>1, <1>2, <1>4, <1>7, <2>2
  <2>4. CASE c = running
    <3>1. p = Parent /\ pcb[p].status = "Waiting"
      BY <1>2, <2>2, <2>3, <2>4 DEF Parent, ProcInv, Placed
    <3>2. Dying[p].status = "Waiting" /\ Dying[p].awaiting = pcb[p].awaiting
      BY <1>0, <2>3, <3>1, DyingFields
    <3> QED BY <1>0, <2>3, <2>4, <3>1, <3>2 DEF ParentWaits
  <2>5. CASE c # running
    <3>1. pcb[c].status = "Zombie"
      BY <1>4, <2>2, <2>3, <2>5
    <3>2. NoLostWakeup
      BY DEF ProcInv
    <3> QED BY <2>1, <2>3, <3>1, <3>2 DEF NoLostWakeup
  <2> QED BY <2>4, <2>5
<1>16. DeadStay /\ (Found => Found')
  <2>1. DeadStay
    BY <1>2, <1>4 DEF DeadStay
  <2>2. ASSUME Found, NEW p \in PCB \ Free, pcb'[p].status \in {"Ready", "Running"}
        PROVE  p = running' \/ p \in ReadyOnes'
    BY <1>2, <1>4, <1>5, <1>6, <2>2 DEF Found
  <2> QED BY <1>6, <2>1, <2>2 DEF Found
<1>17. Answered
  <2>1. \A p \in Waiters : p \in PCB /\ p # running /\ p # f
    BY <1>1, <1>2
  <2> QED BY <1>4, <1>7, <2>1, WaitsGoOn
<1> QED BY <1>5, <1>7, <1>8, <1>9, <1>10, <1>11, <1>12, <1>13, <1>14, <1>15, <1>16, <1>17
        DEF ProcInv, Families

(* The dying process has no timer to take off the list. *)
LEMMA NoTimerToTake ==
  ASSUME timer_list \in Seq(Timer), running \notin Sleepers
  PROVE  TimersKept = timer_list
<1> DEFINE q == timer_list
           n == Len(q)
           keep(f) == [i \in 0 .. n |-> IF i = 0 THEN <<>>
                                        ELSE IF q[i].pcb = running THEN f[i - 1]
                                        ELSE Append(f[i - 1], q[i])]
           w == CHOOSE f : f = keep(f)
           start(i) == SubSeq(q, 1, i)
<1>1. TimersKept = w[n]
  BY DEF TimersKept
<1>2. /\ q \in Seq(Timer) /\ n \in Nat /\ Len(q) = n
      /\ \A i \in 1 .. n : q[i] \in Timer /\ q[i].pcb # running
  BY DEF Sleepers
<1> HIDE DEF q, n
<1>3. \A i \in 0 .. n : /\ start(i) \in Seq(Timer) /\ Len(start(i)) = i
                        /\ \A j \in 1 .. i : start(i)[j] = q[j]
  BY <1>2
<1> HIDE DEF start
<1>4. ASSUME NEW i \in 1 .. n PROVE start(i) = Append(start(i - 1), q[i])
  <2> DEFINE p == start(i - 1)
  <2>1. i - 1 \in 0 .. n /\ i \in 0 .. n
    BY <1>2
  <2>2. p \in Seq(Timer) /\ Len(p) = i - 1 /\ \A j \in 1 .. i - 1 : p[j] = q[j]
    BY <1>3, <2>1
  <2>3. start(i) \in Seq(Timer) /\ Len(start(i)) = i /\ \A j \in 1 .. i : start(i)[j] = q[j]
    BY <1>3, <2>1
  <2> HIDE DEF p
  <2>4. /\ Append(p, q[i]) \in Seq(Timer) /\ Len(Append(p, q[i])) = i
        /\ \A j \in 1 .. i : Append(p, q[i])[j] = q[j]
    BY <1>2, <2>2
  <2>5. Append(p, q[i]) = start(i)
    BY <2>3, <2>4, SeqEqual
  <2> QED BY <2>5 DEF p
<1>5. w = keep(w)
  <2> DEFINE g == [i \in 0 .. n |-> start(i)]
  <2>1. g = keep(g)
    <3>1. start(0) = <<>>
      BY <1>2, <1>3
    <3>2. \A i \in 0 .. n : g[i] = IF i = 0 THEN <<>>
                                   ELSE IF q[i].pcb = running THEN g[i - 1]
                                   ELSE Append(g[i - 1], q[i])
      <4> TAKE i \in 0 .. n
      <4>1. i # 0 => i \in 1 .. n /\ i - 1 \in 0 .. n
        BY <1>2
      <4> QED BY <1>2, <1>4, <3>1, <4>1
    <3> QED BY <3>2
  <2> HIDE DEF g, keep
  <2> QED BY <2>1
<1> HIDE DEF w
<1> DEFINE S == {i \in 0 .. n : w[i] = start(i)}
<1>6. 0 \in S
  BY <1>2, <1>3, <1>5
<1>7. \A i \in S : i < n => i + 1 \in S
  <2> TAKE i \in S
  <2>1. i < n => i + 1 \in 1 .. n /\ (i + 1) - 1 = i /\ i + 1 # 0 /\ i + 1 \in 0 .. n
    BY <1>2
  <2>2. i < n => w[i + 1] = Append(w[i], q[i + 1])
    BY <1>2, <1>5, <2>1
  <2>3. w[i] = start(i)
    OBVIOUS
  <2> QED BY <1>4, <2>1, <2>2, <2>3
<1>8. w[n] = start(n)
  <2>1. S \in SUBSET (0 .. n)
    OBVIOUS
  <2>2. n \in S
    <3> HIDE DEF S
    <3> QED BY <1>2, <1>6, <1>7, <2>1, Induction
  <2> QED BY <2>2
<1>9. start(n) = q
  <2>1. start(n) \in Seq(Timer) /\ Len(start(n)) = n /\ \A j \in 1 .. n : start(n)[j] = q[j]
    BY <1>2, <1>3
  <2> QED BY <1>2, <2>1, SeqEqual
<1> QED BY <1>1, <1>8, <1>9 DEF q

(* An exit that ends the parent's wait. *)
LEMMA ExitWakesParentStep ==
  ASSUME ProcInv, NEW i, ExitWakesParent(i)
  PROVE  ProcInv' /\ DeadStay /\ Answered /\ Reported /\ (Found => Found')
<1>0. InUser /\ ~ ExitLoops /\ Parent # NULL /\ ParentWaits
  BY DEF ExitWakesParent, ParentWaits
<1>1. /\ running \in PCB /\ running \notin Free /\ pcb[running].status \in {"Running", "Ready"}
      /\ running \notin ReadyOnes /\ running \notin Waiters /\ running \notin Zombies
      /\ Parent \in PCB /\ Parent # running /\ init_pcb \in PCB /\ init_pcb # running
      /\ Dying \in [PCB -> PCBRecord]
      /\ \A p \in PCB :
           /\ Dying[p].pid = pcb[p].pid /\ Dying[p].parent = pcb[p].parent
           /\ Dying[p].status = IF p = running THEN "Zombie" ELSE pcb[p].status
           /\ p # running => Dying[p].awaiting = pcb[p].awaiting
  BY <1>0, DyingFields
<1>2. /\ Lists(lists, ReadyOnes, Waiters, Zombies) /\ Free \in SUBSET PCB /\ Owned \in SUBSET PCB
      /\ ReadyOnes \in SUBSET PCB /\ Waiters \in SUBSET PCB /\ Zombies \in SUBSET PCB
      /\ ReadyOnes \cap Waiters = {} /\ ReadyOnes \cap Zombies = {} /\ Waiters \cap Zombies = {}
  BY Basics
<1>3. /\ pcb' = [Dying EXCEPT ![Parent].status = "Running", ![Parent].children = RemoveAt(@, i)]
      /\ lists' = LL!List_detach(LL!List_detach(LL!Enlist(lists, "zombie", running), "waiting", Parent),
                                 "zombie", running)
      /\ timer_list' = TimersKept /\ pcb_free' = Released(running)
      /\ UNCHANGED <<init_pcb, last_pid, context, pcbptr_free>>
      /\ running' = Parent /\ mode' = Resumes(Parent) /\ retval' = pcb[running].pid
      /\ i \in DOMAIN Dying[Parent].children
      /\ pcb[Dying[Parent].children[i]].pid = pcb[running].pid
  BY DEF ExitWakesParent, DyingLists
<1>4. /\ Parent \in Waiters /\ Parent \notin Free /\ Parent \notin Sleepers
      /\ pcb[Parent].awaiting # NoWait
  <2>1. pcb[Parent].status = "Waiting" /\ pcb[Parent].awaiting \in {0, pcb[running].pid}
    BY <1>0, <1>1 DEF ParentWaits
  <2>2. pcb[running].pid \in Nat
    BY <1>1, Basics, ProcConstantsAssumption DEF PCBRecord
  <2>3. pcb[Parent].awaiting # NoWait
    BY <2>1, <2>2 DEF NoWait
  <2> QED BY <1>1, <2>1, <2>3 DEF ProcInv, Placed, Timers
<1>5. /\ Proper(Dying) /\ Kids(Dying) = Owned
      /\ \A p \in PCB : p # running => ChildrenOf(p) \subseteq ToSet(Dying[p].children)
      /\ \A p \in PCB : \A c \in ToSet(Dying[p].children) :
           /\ c \in Owned /\ (pcb[c].parent = p => c \in ChildrenOf(p))
           /\ p \notin Free /\ pcb[c].parent # p =>
                pcb[p].parent = NULL /\ "SIGHUP" \in Dying[c].signals
  BY <1>0, DyingFamilies
<1>6. Dying[Parent].children[i] = running /\ running \in Owned
  <2> DEFINE x == Dying[Parent].children[i]
  <2>1. x \in Owned /\ pcb[x].pid = pcb[running].pid
    BY <1>1, <1>3, <1>5 DEF ToSet
  <2> HIDE DEF x
  <2>2. x \in PCB \ Free
    BY <1>2, <2>1 DEF ProcInv, Families, OwnedAreLive
  <2>3. x = running
    BY <1>1, <2>1, <2>2 DEF ProcInv, Families, PidsDiffer
  <2> QED BY <2>1, <2>3 DEF x
<1> DEFINE q == Dying[Parent].children
           r == RemoveAt(q, i)
<1>7. /\ pcb' \in [PCB -> PCBRecord]
      /\ \A p \in PCB :
           /\ pcb'[p].pid = pcb[p].pid /\ pcb'[p].parent = pcb[p].parent
           /\ pcb'[p].status = IF p = Parent THEN "Running" ELSE IF p = running THEN "Zombie" ELSE pcb[p].status
           /\ pcb'[p].children = IF p = Parent THEN r ELSE Dying[p].children
           /\ pcb'[p].signals = Dying[p].signals
           /\ p # running => pcb'[p].awaiting = pcb[p].awaiting
  <2> DEFINE g == [Dying EXCEPT ![Parent].status = "Running"]
             h == [g EXCEPT ![Parent].children = r]
  <2>1. "Running" \in Statuses /\ r \in Seq(PCB)
    <3>1. q \in Seq(PCB) /\ i \in 1 .. Len(q)
      BY <1>1, <1>3, <1>5 DEF Proper
    <3> HIDE DEF q
    <3> QED BY <3>1, RemoveAtElements DEF Statuses
  <2>2. AssignsStatus(Dying, g, Parent, "Running")
    BY <1>1, <2>1, FieldAssigned
  <2>3. pcb' = h
    <3>1. g[Parent].children = q
      BY <1>1, <2>2 DEF AssignsStatus
    <3>2. pcb' = [g EXCEPT ![Parent].children = RemoveAt(@, i)]
      BY <1>3
    <3> HIDE DEF g, q
    <3> QED BY <3>1, <3>2
  <2> HIDE DEF g, r
  <2>4. AssignsChildren(g, h, Parent, r)
    <3>1. g \in [PCB -> PCBRecord]
      BY <2>2 DEF AssignsStatus
    <3> QED BY <1>1, <2>1, <3>1, FieldAssigned
  <2> HIDE DEF h
  <2> QED BY <1>1, <2>2, <2>3, <2>4 DEF AssignsStatus, AssignsChildren
<1>8. /\ OwnedOnce' /\ Owned' = Owned \ {running} /\ running \notin ToSet(pcb'[Parent].children)
      /\ \A p \in PCB : \A c \in ChildrenOf(p)' :
           /\ c \in Owned \ {running} /\ c \in PCB /\ (pcb[c].parent = p => c \in ChildrenOf(p))
           /\ p \notin Free /\ pcb[c].parent # p =>
                pcb[p].parent = NULL /\ "SIGHUP" \in pcb'[c].signals
      /\ \A p \in Waiters \ {Parent} : ChildrenOf(p) \subseteq ChildrenOf(p)'
      /\ \A p \in {Parent} : ChildrenOf(p) \ ChildrenOf(p)' = {running} /\ running \in ChildrenOf(p)
  <2>1. Removed(Dying, pcb', Parent, i)
    BY <1>7 DEF Removed
  <2>2. /\ Proper(pcb') /\ Kids(pcb') = Owned \ {running}
        /\ ToSet(pcb'[Parent].children) = ToSet(Dying[Parent].children) \ {running}
    <3>1. /\ Proper(pcb') /\ Kids(pcb') = Kids(Dying) \ {Dying[Parent].children[i]}
          /\ ToSet(pcb'[Parent].children) = ToSet(Dying[Parent].children) \ {Dying[Parent].children[i]}
      <4>1. Proper(Dying) /\ Parent \in PCB /\ i \in DOMAIN Dying[Parent].children
        BY <1>1, <1>3, <1>5
      <4> QED BY <2>1, <4>1, ChildRemoved
    <3> QED BY <1>5, <1>6, <3>1
  <2> HIDE DEF r, q
  <2>3. \A p \in PCB : ChildrenOf(p)' \in SUBSET ToSet(Dying[p].children)
    <3>1. \A p \in PCB : p # Parent => ToSet(pcb'[p].children) = ToSet(Dying[p].children)
      BY <1>7
    <3> QED BY <2>2, <3>1 DEF ChildrenOf
  <2>4. OwnedOnce' /\ Owned' = Owned \ {running}
    BY <2>2 DEF Proper, Once, OwnedOnce, Kids, Owned, ChildrenOf
  <2>5. \A p \in PCB : \A c \in ChildrenOf(p)' : c \in Owned'
    BY DEF Owned
  <2>6. \A p \in PCB : \A c \in ChildrenOf(p)' :
           /\ c \in Owned \ {running} /\ c \in PCB /\ (pcb[c].parent = p => c \in ChildrenOf(p))
           /\ p \notin Free /\ pcb[c].parent # p =>
                pcb[p].parent = NULL /\ "SIGHUP" \in pcb'[c].signals
    BY <1>2, <1>5, <1>7, <2>3, <2>4, <2>5
  <2>7. running \notin ToSet(pcb'[Parent].children)
    BY <2>2
  <2>8. \A p \in Waiters \ {Parent} : ChildrenOf(p) \subseteq ChildrenOf(p)'
    <3>1. \A p \in Waiters \ {Parent} : p \in PCB /\ p # running /\ p # Parent
      BY <1>1, <1>2
    <3> QED BY <1>5, <1>7, <3>1 DEF ChildrenOf
  <2>9. running \in ChildrenOf(Parent)
    <3>1. running \in ToSet(Dying[Parent].children)
      BY <1>3, <1>6 DEF ToSet
    <3> QED BY <1>1, <1>5, <3>1 DEF Parent
  <2>10. \A p \in {Parent} : ChildrenOf(p) \ ChildrenOf(p)' = {running} /\ running \in ChildrenOf(p)
    <3>1. \A p \in {Parent} : ChildrenOf(p)' = ToSet(Dying[p].children) \ {running}
      BY <2>2 DEF ChildrenOf
    <3>2. \A p \in {Parent} : ChildrenOf(p) \subseteq ToSet(Dying[p].children)
      BY <1>1, <1>5
    <3> QED BY <2>9, <3>1, <3>2
  <2> QED BY <2>4, <2>6, <2>7, <2>8, <2>10
<1> HIDE DEF r, q
<1>9. /\ LP!Proper(lists)' /\ (lists \in LL!Store)'
      /\ ReadyOnes' = ReadyOnes /\ Waiters' = Waiters \ {Parent} /\ Zombies' = Zombies
  <2>1. Lists(LL!Enlist(lists, "zombie", running), ReadyOnes, Waiters, Zombies \cup {running})
    BY <1>1, <1>2, Entering
  <2>2. Lists(LL!List_detach(LL!Enlist(lists, "zombie", running), "waiting", Parent),
              ReadyOnes, Waiters \ {Parent}, Zombies \cup {running})
    BY <1>4, <2>1, Leaving
  <2>3. running \in Zombies \cup {running} /\ (Zombies \cup {running}) \ {running} = Zombies
    BY <1>1
  <2>4. Lists(lists', ReadyOnes, Waiters \ {Parent}, (Zombies \cup {running}) \ {running})
    BY <1>3, <2>2, <2>3, Leaving
  <2>5. Lists(lists', ReadyOnes, Waiters \ {Parent}, Zombies)
    BY <2>3, <2>4
  <2> QED BY <2>5, NextLists
<1>10. /\ pcb_free' \in Seq(PCB) /\ Free' = Free \cup {running}
       /\ (\A m, j \in DOMAIN pcb_free : pcb_free[m] = pcb_free[j] => m = j)'
  <2>1. running \in PCB \ Free /\ pcb_free' = Released(running)
    BY <1>1, <1>3
  <2>2. pcb_free \in Seq(PCB) /\ NoneTwice
    BY DEF ProcInv, ProcTypeOK, FreeOK, NoneTwice
  <2> QED BY <2>1, <2>2, BlockFreed DEF NoneTwice
<1>11. timer_list' = timer_list /\ Sleepers' = Sleepers
  <2>1. timer_list \in Seq(Timer) /\ running \notin Sleepers
    BY <1>1 DEF ProcInv, ProcTypeOK, Timers, Timer
  <2>2. timer_list' = timer_list
    BY <1>3, <2>1, NoTimerToTake
  <2> QED BY <2>2 DEF Sleepers
<1>12. PtrBlocks'
  <2>1. PtrBlocks /\ pcbptr_free \in 0 .. MAX_NUM_PROCESSES
    BY DEF ProcInv, ProcTypeOK
  <2>2. Cardinality(Owned) \in Nat /\ Cardinality(Owned') = Cardinality(Owned) - 1
    BY <1>6, <1>8, OneOwnedLess
  <2> QED BY <1>3, <2>1, <2>2, PCBsAreFinite DEF PtrBlocks
<1>13. ProcTypeOK'
  <2>1. ProcTypeOK /\ pcb[running].pid \in Int
    BY <1>1, Basics DEF ProcInv, PCBRecord
  <2>2. context' \in [PCB -> {NoContext, InFunction, InBoot}]
    BY <1>3, <2>1 DEF ProcTypeOK
  <2>3. mode' \in {"user", "booting", "crashed"}
    BY <1>1, <1>3, <2>2, ResumesInMode
  <2>4. KernelTypeOK'
    BY <1>3, <2>1, <2>3 DEF KernelTypeOK, Modes
  <2> QED BY <1>1, <1>3, <1>7, <1>9, <1>10, <1>11, <2>1, <2>4 DEF ProcTypeOK, PCBRecord
<1>14. Placed'
  <2>1. Placed
    BY DEF ProcInv
  <2>2. /\ running' \notin ReadyOnes' /\ running' \notin Waiters' /\ running' \notin Zombies'
        /\ running' \notin Free' /\ running' # NULL /\ pcb'[running'].status = "Running"
    BY <1>0, <1>1, <1>2, <1>3, <1>4, <1>7, <1>9, <1>10
  <2>3. Free' \cap ReadyOnes' = {} /\ Free' \cap Waiters' = {} /\ Free' \cap Zombies' = {}
    BY <1>1, <1>9, <1>10, <2>1 DEF Placed
  <2>4. \A p \in ReadyOnes' : pcb'[p].status = "Ready"
    BY <1>1, <1>2, <1>4, <1>7, <1>9, <2>1 DEF Placed
  <2>5. \A p \in PCB : p \in Waiters' <=> pcb'[p].status = "Waiting"
    BY <1>1, <1>2, <1>7, <1>9, <2>1 DEF Placed
  <2>6. /\ \A p \in PCB : p \in Zombies' <=> pcb'[p].status = "Zombie" /\ p \notin Free'
        /\ \A p \in PCB \ Free' : pcb'[p].status # "Created"
    BY <1>1, <1>2, <1>4, <1>7, <1>9, <1>10, <2>1 DEF Placed
  <2> QED BY <2>2, <2>3, <2>4, <2>5, <2>6 DEF Placed
<1>15. FreeOK'
  <2>1. FreeOK /\ Placed /\ InitIsOld
    BY DEF ProcInv, Families
  <2>2. pcb[init_pcb].status \notin {"Created", "Zombie"}
    BY <1>1, <2>1 DEF Placed, InitIsOld
  <2>3. \A p \in PCB : Dying[p].children = IF p = running THEN <<>>
                                          ELSE IF p = init_pcb THEN pcb[init_pcb].children \o pcb[running].children
                                          ELSE pcb[p].children
    BY <1>0, DyingFields
  <2>4. \A p \in PCB : pcb'[p].status \in {"Created", "Zombie"} => pcb'[p].children = <<>>
    BY <1>7, <2>1, <2>2, <2>3 DEF FreeOK
  <2>5. \A p \in Free' : pcb'[p].status \in {"Created", "Zombie"}
    BY <1>1, <1>2, <1>4, <1>7, <1>10, <2>1 DEF FreeOK
  <2> QED BY <1>10, <2>4, <2>5 DEF FreeOK
<1>16. InitIsOld' /\ LiveAreOwned' /\ OwnedAreLive' /\ PidsDiffer'
  <2>1. InitIsOld /\ LiveAreOwned /\ OwnedAreLive /\ PidsDiffer
    BY DEF ProcInv, Families
  <2>2. init_pcb' = init_pcb /\ last_pid' = last_pid
    BY <1>3
  <2>3. InitIsOld'
    BY <1>1, <1>7, <1>10, <2>1, <2>2 DEF InitIsOld
  <2>4. PidsDiffer'
    BY <1>7, <1>10, <2>1, <2>2 DEF PidsDiffer
  <2>5. LiveAreOwned' /\ OwnedAreLive'
    BY <1>2, <1>7, <1>8, <1>10, <2>1 DEF LiveAreOwned, OwnedAreLive
  <2> QED BY <2>3, <2>4, <2>5
<1>17. OrphansHungUp'
  BY <1>7, <1>8, <1>10 DEF OrphansHungUp
<1>18. Timers'
  <2>1. Timers
    BY DEF ProcInv
  <2> QED BY <1>1, <1>2, <1>4, <1>7, <1>8, <1>9, <1>11, <2>1 DEF Timers
<1>19. NoLostWakeup'
  <2>1. InList("waiting") = Waiters /\ InList("waiting")' = Waiters \ {Parent}
    BY <1>9 DEF InList, Waiters, In, Steps
  <2>2. SUFFICES ASSUME NEW p \in Waiters \ {Parent}, NEW c \in ChildrenOf(p)', pcb'[c].parent = p,
                        pcb'[c].status = "Zombie", pcb'[p].awaiting \in {0, pcb'[c].pid}
                 PROVE  FALSE
    BY <2>1 DEF NoLostWakeup
  <2>3. /\ p \in PCB /\ p # running /\ c \in PCB /\ c # running /\ pcb[c].parent = p
        /\ c \in ChildrenOf(p) /\ pcb[p].awaiting \in {0, pcb[c].pid}
    BY <1>1, <1>2, <1>7, <1>8, <2>2
  <2>4. pcb[c].status = "Zombie"
    BY <1>7, <2>2, <2>3
  <2>5. NoLostWakeup
    BY DEF ProcInv
  <2> QED BY <2>1, <2>2, <2>3, <2>4, <2>5 DEF NoLostWakeup
<1>20. DeadStay /\ (Found => Found')
  <2>1. DeadStay
    BY <1>1, <1>4, <1>7 DEF DeadStay, ProcInv, Placed
  <2>2. ASSUME Found, NEW p \in PCB \ Free', pcb'[p].status \in {"Ready", "Running"}
        PROVE  p = running' \/ p \in ReadyOnes'
    BY <1>3, <1>7, <1>9, <1>10, <2>2 DEF Found
  <2> QED BY <2>1, <2>2 DEF Found
<1>21. Reported
  BY <1>3, <1>8, <1>10 DEF Reported, ChildrenOf
<1>22. Answered
  <2>1. ASSUME NEW p \in PCB, p # Parent, pcb[p].status = "Waiting", pcb[p].awaiting # NoWait
        PROVE  /\ pcb'[p].status = "Waiting" /\ pcb'[p].awaiting = pcb[p].awaiting
               /\ ChildrenOf(p) \subseteq ChildrenOf(p)'
    <3>1. p \in Waiters \ {Parent} /\ p # running
      BY <1>1, <2>1 DEF ProcInv, Placed
    <3> QED BY <1>7, <1>8, <2>1, <3>1
  <2>2. running \in OwnChildren(Parent) /\ AsksFor(Parent, running)
    <3>1. pcb[Parent].awaiting \in {0, pcb[running].pid}
      BY <1>0, <1>1 DEF ParentWaits
    <3> QED BY <1>8, <3>1 DEF OwnChildren, AsksFor, Parent
  <2> QED BY <1>3, <1>8, <2>1, <2>2 DEF Answered
<1> QED BY <1>8, <1>9, <1>12, <1>13, <1>14, <1>15, <1>16, <1>17, <1>18, <1>19, <1>20, <1>21, <1>22
        DEF ProcInv, Families

---------------------------------------------------------------------------
(* The scheduler: who is due, the lists with them moved one by one, and    *)
(* the PCBs with their new status.                                         *)
Due(timers)      == Cardinality({i \in DOMAIN timers : timers[i].left <= 0})
Woken(timers, i) == IF i = 0 THEN NULL ELSE timers[i].pcb
WokenUp(timers)  == {Woken(timers, i) : i \in 1 .. Due(timers)}
Moved(L, timers, i) ==
  LL!List_insert(LL!List_detach(L, "waiting", Woken(timers, i)),
                 "ready", Woken(timers, i - 1), Woken(timers, i))
Moves(timers, w, k) == [i \in 0 .. k |-> IF i = 0 THEN lists ELSE Moved(w[i - 1], timers, i)]
Wake(timers)     == CHOOSE w : w = Moves(timers, w, Due(timers))
Awake(timers)    == Wake(timers)[Due(timers)]
Roused(timers, before) ==
  [p \in PCB |-> IF \E i \in 1 .. Due(timers) : Woken(timers, i) = p
                 THEN [before[p] EXCEPT !.status = "Ready"] ELSE before[p]]

LEMMA ScheduleUnfolded ==
  ASSUME NEW timers, NEW before, Schedule(timers, before)
  PROVE  LET next == Awake(timers).first["ready"]
             pcbs == Roused(timers, before)
         IN /\ timer_list' = SubSeq(timers, Due(timers) + 1, Len(timers))
            /\ retval' = NoValue /\ UNCHANGED <<init_pcb, last_pid, pcb_free, pcbptr_free>>
            /\ \/ /\ next = NULL
                  /\ lists' = Awake(timers) /\ pcb' = pcbs /\ UNCHANGED <<running, mode>>
               \/ /\ next # NULL
                  /\ lists' = LL!Enlist(LL!List_detach(Awake(timers), "ready", next), "ready", running)
                  /\ pcb' = [pcbs EXCEPT ![running].status = "Ready", ![next].status = "Running"]
                  /\ running' = next /\ mode' = Resumes(next)
<1>1. \E awake \in {Awake(timers)}, next \in PCB \cup {NULL} :
        /\ next = awake.first["ready"]
        /\ \/ /\ next = NULL
              /\ lists' = awake /\ pcb' = Roused(timers, before) /\ UNCHANGED <<running, mode>>
           \/ /\ next # NULL
              /\ lists' = LL!Enlist(LL!List_detach(awake, "ready", next), "ready", running)
              /\ pcb' = [Roused(timers, before) EXCEPT ![running].status = "Ready",
                                                       ![next].status = "Running"]
              /\ running' = next /\ mode' = Resumes(next)
  <2>1. Wake(timers) =
          CHOOSE wake : wake =
            [i \in 0 .. Due(timers) |->
               IF i = 0 THEN lists
               ELSE LL!List_insert(LL!List_detach(wake[i - 1], "waiting", Woken(timers, i)),
                                   "ready", Woken(timers, i - 1), Woken(timers, i))]
    BY DEF Wake, Moves, Moved
  <2> QED BY <2>1, Zenon DEF Schedule, Awake, Roused, Due, Woken
<1>2. /\ timer_list' = SubSeq(timers, Due(timers) + 1, Len(timers))
      /\ retval' = NoValue /\ UNCHANGED <<init_pcb, last_pid, pcb_free, pcbptr_free>>
  BY DEF Schedule, Due
<1> QED BY <1>1, <1>2

(* The recursive function exists. *)
LEMMA WakeFunction ==
  ASSUME NEW timers, Due(timers) \in Nat
  PROVE  Wake(timers) = Moves(timers, Wake(timers), Due(timers))
<1> DEFINE n == Due(timers)
           S == {k \in 0 .. n : \E w : w = Moves(timers, w, k)}
<1>1. 0 \in S
  <2> DEFINE g == [i \in 0 .. 0 |-> lists]
  <2>1. g = Moves(timers, g, 0)
    BY DEF Moves
  <2> HIDE DEF g
  <2> QED BY <2>1
<1>2. ASSUME NEW k \in S, k < n PROVE k + 1 \in S
  <2>0. k \in 0 .. n /\ k + 1 \in 0 .. n
    BY <1>2
  <2>1. PICK w : w = Moves(timers, w, k)
    OBVIOUS
  <2>2. \A i \in 0 .. k : w[i] = IF i = 0 THEN lists ELSE Moved(w[i - 1], timers, i)
    BY <2>1 DEF Moves
  <2> DEFINE g == [i \in 0 .. k + 1 |-> IF i = k + 1 THEN Moved(w[k], timers, k + 1) ELSE w[i]]
  <2>3. \A i \in 0 .. k + 1 : g[i] = IF i = 0 THEN lists ELSE Moved(g[i - 1], timers, i)
    <3> TAKE i \in 0 .. k + 1
    <3>1. CASE i = k + 1
      <4>1. i - 1 = k /\ k \in 0 .. k + 1 /\ k # k + 1 /\ i # 0
        BY <2>0, <3>1
      <4> QED BY <3>1, <4>1
    <3>2. CASE i # k + 1
      <4>1. i \in 0 .. k /\ (i # 0 => i - 1 \in 0 .. k + 1 /\ i - 1 # k + 1)
        BY <2>0, <3>2
      <4> QED BY <2>2, <3>2, <4>1
    <3> QED BY <3>1, <3>2
  <2>4. g = Moves(timers, g, k + 1)
    BY <2>3 DEF Moves
  <2> HIDE DEF g
  <2> QED BY <2>0, <2>4
<1>3. n \in S
  <2>1. S \in SUBSET (0 .. n) /\ n \in Nat
    OBVIOUS
  <2> HIDE DEF S, n
  <2> QED BY <1>1, <1>2, <2>1, Induction
<1>4. \E w : w = Moves(timers, w, n)
  BY <1>3
<1> QED BY <1>4 DEF Wake

(* The head of the ready list after one of them has moved. *)
LEMMA MovedFirst ==
  ASSUME NEW L \in LL!Store, NEW p \in PCB, NEW b
  PROVE  LL!List_insert(LL!List_detach(L, "waiting", p), "ready", b, p).first["ready"] =
           IF b = NULL THEN p ELSE L.first["ready"]
<1> DEFINE M == LL!List_detach(L, "waiting", p)
<1>1. M.first["ready"] = L.first["ready"] /\ M.first \in [Heads -> PCB \cup {NULL}]
  BY DEF LL!List_detach, LL!Store, Heads
<1>2. M.next[p] = NULL /\ M.prev[p] = NULL
  BY DEF LL!List_detach, LL!Store, LL!At
<1>3. \A y : [M.first EXCEPT !["ready"] = y]["ready"] = y
  BY <1>1 DEF Heads
<1> HIDE DEF M
<1>4. LL!List_insert(M, "ready", b, p).first =
        [M.first EXCEPT !["ready"] = IF b = NULL THEN p ELSE @]
  BY <1>2 DEF LL!List_insert, LL!Linked
<1> QED BY <1>1, <1>3, <1>4 DEF M

(* What the recursion does to the lists. *)
LEMMA SleepersMove ==
  ASSUME ProcInv, NEW timers \in Seq(Timer), InOrder(timers), Due(timers) \in 0 .. Len(timers),
         \A i \in DOMAIN timers : timers[i].pcb \in Waiters
  PROVE  /\ Lists(Awake(timers), ReadyOnes \cup WokenUp(timers), Waiters \ WokenUp(timers), Zombies)
         /\ WokenUp(timers) \in SUBSET Waiters
         /\ Due(timers) > 0 => Awake(timers).first["ready"] = timers[1].pcb
<1> DEFINE n == Due(timers)
           x(i) == timers[i].pcb
           up(k) == {x(i) : i \in 1 .. k}
           w == Wake(timers)
           S == {k \in 0 .. n : /\ Lists(w[k], ReadyOnes \cup up(k), Waiters \ up(k), Zombies)
                                /\ k > 0 => w[k].first["ready"] = x(1)}
<1>1. /\ n \in Nat /\ \A i \in 1 .. n : x(i) \in Waiters
      /\ \A i, j \in 1 .. n : i < j => x(i) # x(j)
  <2>1. Len(timers) \in Nat /\ n \in 0 .. Len(timers) /\ DOMAIN timers = 1 .. Len(timers)
    OBVIOUS
  <2>2. n \in Nat /\ \A i \in 1 .. n : i \in DOMAIN timers
    BY <2>1
  <2> QED BY <2>2 DEF InOrder
<1>2. /\ Lists(lists, ReadyOnes, Waiters, Zombies) /\ Waiters \in SUBSET PCB
      /\ ReadyOnes \cap Waiters = {} /\ Waiters \cap Zombies = {}
  BY Basics
<1>3. \A k \in 0 .. n : w[k] = IF k = 0 THEN lists ELSE Moved(w[k - 1], timers, k)
  <2>1. w = Moves(timers, w, n)
    BY <1>1, WakeFunction
  <2> HIDE DEF w, n
  <2> QED BY <2>1 DEF Moves
<1>4. \A i \in 1 .. n : Woken(timers, i) = x(i)
  BY <1>1 DEF Woken
<1> HIDE DEF w, n, x
<1>5. 0 \in S
  <2>1. up(0) = {}
    OBVIOUS
  <2> HIDE DEF up
  <2>2. w[0] = lists /\ ReadyOnes \cup up(0) = ReadyOnes /\ Waiters \ up(0) = Waiters /\ 0 \in 0 .. n
    BY <1>1, <1>3, <2>1
  <2>3. ~ (0 > 0)
    OBVIOUS
  <2> QED BY <1>2, <2>2, <2>3
<1>6. ASSUME NEW k \in S, k < n PROVE k + 1 \in S
  <2> DEFINE A == ReadyOnes \cup up(k)
             B == Waiters \ up(k)
             p == x(k + 1)
             M == LL!List_detach(w[k], "waiting", p)
  <2>1. /\ k \in 0 .. n /\ Lists(w[k], A, B, Zombies)
        /\ k > 0 => w[k].first["ready"] = x(1)
    OBVIOUS
  <2>2. k + 1 \in 1 .. n /\ k + 1 # 0 /\ (k + 1) - 1 = k /\ k + 1 \in 0 .. n
    BY <1>1, <1>6, <2>1
  <2>3. p \in Waiters /\ p \notin up(k)
    <3>1. \A i \in 1 .. k : i \in 1 .. n /\ i < k + 1
      BY <1>1, <2>1, <2>2
    <3> QED BY <1>1, <2>2, <3>1
  <2>4. up(k + 1) = up(k) \cup {p}
    <3>1. 1 .. k + 1 = (1 .. k) \cup {k + 1}
      BY <2>1
    <3> QED BY <3>1
  <2>5. Woken(timers, k) = NULL \/ Woken(timers, k) \in A
    <3>1. CASE k = 0
      BY <3>1 DEF Woken
    <3>2. CASE k # 0
      <4>1. k \in 1 .. n /\ k \in 1 .. k
        BY <1>1, <2>1, <3>2
      <4> QED BY <1>4, <4>1
    <3> QED BY <3>1, <3>2
  <2>6. w[k + 1] = LL!List_insert(M, "ready", Woken(timers, k), p)
    BY <1>3, <1>4, <2>2 DEF Moved
  <2> HIDE DEF up
  <2>7. p \in PCB /\ p \notin A /\ p \in B /\ p \notin B \ {p} /\ p \notin Zombies
    BY <1>2, <2>3
  <2>8. A \cup {p} = ReadyOnes \cup up(k + 1) /\ B \ {p} = Waiters \ up(k + 1)
    BY <2>4
  <2>12. /\ k = 0 => Woken(timers, k) = NULL /\ p = x(1)
         /\ k > 0 => Woken(timers, k) # NULL
    <3>1. k = 0 => Woken(timers, k) = NULL /\ k + 1 = 1
      BY DEF Woken
    <3>2. k > 0 => k \in 1 .. n
      BY <1>1, <2>1
    <3> QED BY <1>1, <1>2, <1>4, <3>1, <3>2, PCBsAreFinite
  <2> HIDE DEF A, B, p
  <2>9. Lists(M, A, B \ {p}, Zombies)
    BY <2>1, <2>7, Leaving
  <2>13. LL!List_insert(M, "ready", Woken(timers, k), p).first["ready"] =
           IF Woken(timers, k) = NULL THEN p ELSE w[k].first["ready"]
    <3>1. w[k] \in LL!Store
      BY <2>1, ListsFacts
    <3> QED BY <2>7, <3>1, MovedFirst
  <2> HIDE DEF M
  <2>10. \A b : b = NULL \/ b \in A =>
           Lists(LL!List_insert(M, "ready", b, p), A \cup {p}, B \ {p}, Zombies)
    BY <2>7, <2>9, Entering
  <2>11. Lists(w[k + 1], A \cup {p}, B \ {p}, Zombies)
    BY <2>5, <2>6, <2>10
  <2>14. w[k + 1].first["ready"] = x(1)
    BY <2>1, <2>6, <2>12, <2>13
  <2> QED BY <2>2, <2>8, <2>11, <2>14
<1>7. n \in S
  <2>1. S \in SUBSET (0 .. n)
    OBVIOUS
  <2> HIDE DEF S
  <2> QED BY <1>1, <1>5, <1>6, <2>1, Induction
<1>8. WokenUp(timers) = up(n)
  <2>1. WokenUp(timers) = {Woken(timers, i) : i \in 1 .. n}
    BY DEF WokenUp, n
  <2> QED BY <1>4, <2>1
<1>9. up(n) \in SUBSET Waiters
  BY <1>1
<1>10. Lists(w[n], ReadyOnes \cup up(n), Waiters \ up(n), Zombies) /\ (n > 0 => w[n].first["ready"] = x(1))
  BY <1>7
<1>11. Awake(timers) = w[n] /\ n = Due(timers) /\ x(1) = timers[1].pcb
  BY DEF Awake, w, n, x
<1> HIDE DEF up
<1> QED BY <1>8, <1>9, <1>10, <1>11

(* The first d timers go off. *)
LEMMA TimersFire ==
  ASSUME NEW timers \in Seq(Timer), InOrder(timers), NEW d \in 0 .. Len(timers)
  PROVE  LET rest == SubSeq(timers, d + 1, Len(timers))
         IN /\ rest \in Seq(Timer) /\ InOrder(rest)
            /\ {rest[i].pcb : i \in DOMAIN rest} =
                 {timers[i].pcb : i \in DOMAIN timers} \ {timers[i].pcb : i \in 1 .. d}
<1> DEFINE n == Len(timers)
           rest == SubSeq(timers, d + 1, n)
<1>1. /\ n \in Nat /\ d \in 0 .. n /\ DOMAIN timers = 1 .. n
      /\ \A i, j \in 1 .. n : i < j =>
           timers[i].left <= timers[j].left /\ timers[i].pcb # timers[j].pcb
  BY DEF InOrder
<1>2. /\ rest \in Seq(Timer) /\ Len(rest) = n - d /\ DOMAIN rest = 1 .. n - d
      /\ \A i \in 1 .. n - d : rest[i] = timers[d + i] /\ d + i \in 1 .. n
  <2>1. rest \in Seq(Timer) /\ Len(rest) = n - d
    <3>1. d + 1 \in Int /\ n \in Int /\ \A i \in d + 1 .. n : i \in 1 .. n /\ timers[i] \in Timer
      BY <1>1
    <3>2. Len(rest) = IF d + 1 <= n THEN n - (d + 1) + 1 ELSE 0
      BY <1>1, <3>1
    <3>3. rest \in Seq(Timer)
      BY <1>1, <3>1, SubSeqProperties
    <3> HIDE DEF rest, n
    <3>4. Len(rest) = n - d
      BY <1>1, <3>2
    <3> QED BY <3>3, <3>4
  <2>2. \A i \in 1 .. n - d : d + i \in 1 .. n /\ i \in 1 .. n - (d + 1) + 1 /\ (d + 1) + i - 1 = d + i
    BY <1>1
  <2>3. \A i \in 1 .. n - d : rest[i] = timers[d + i]
    BY <1>1, <2>2
  <2> QED BY <2>1, <2>2, <2>3
<1> HIDE DEF rest, n
<1>3. InOrder(rest)
  <2> SUFFICES ASSUME NEW i \in 1 .. n - d, NEW j \in 1 .. n - d, i < j
               PROVE  rest[i].left <= rest[j].left /\ rest[i].pcb # rest[j].pcb
    BY <1>2 DEF InOrder
  <2>1. d + i \in 1 .. n /\ d + j \in 1 .. n /\ d + i < d + j
    BY <1>1, <1>2
  <2> QED BY <1>1, <1>2, <2>1
<1>4. ASSUME NEW i \in 1 .. n - d
      PROVE  /\ rest[i].pcb \in {timers[j].pcb : j \in 1 .. n}
             /\ \A j \in 1 .. d : rest[i].pcb # timers[j].pcb
  <2>1. rest[i] = timers[d + i] /\ d + i \in 1 .. n
    BY <1>2
  <2>2. \A j \in 1 .. d : j \in 1 .. n /\ j < d + i
    BY <1>1
  <2> QED BY <1>1, <2>1, <2>2
<1>5. ASSUME NEW j \in 1 .. n
      PROVE  \/ timers[j].pcb \in {timers[i].pcb : i \in 1 .. d}
             \/ timers[j].pcb \in {rest[i].pcb : i \in 1 .. n - d}
  <2>1. CASE j \in 1 .. d
    BY <2>1
  <2>2. CASE j \notin 1 .. d
    <3>1. j - d \in 1 .. n - d /\ d + (j - d) = j
      BY <1>1, <2>2
    <3> QED BY <1>2, <3>1
  <2> QED BY <2>1, <2>2
<1>6. {rest[i].pcb : i \in DOMAIN rest} =
        {timers[i].pcb : i \in DOMAIN timers} \ {timers[i].pcb : i \in 1 .. d}
  <2> DEFINE R == {rest[i].pcb : i \in 1 .. n - d}
             T == {timers[i].pcb : i \in 1 .. n}
             F == {timers[i].pcb : i \in 1 .. d}
  <2>1. \A p \in R : p \in T /\ p \notin F
    BY <1>4
  <2>2. \A p \in T : p \in F \/ p \in R
    BY <1>5
  <2> HIDE DEF R, T, F
  <2>3. R = T \ F
    BY <2>1, <2>2
  <2> QED BY <1>1, <1>2, <2>3 DEF R, T, F
<1> QED BY <1>2, <1>3, <1>6 DEF rest, n

(* A cycle passes for all timers alike. *)
LEMMA TickKeepsOrder ==
  ASSUME timer_list \in Seq(Timer), InOrder(timer_list)
  PROVE  /\ Tick \in Seq(Timer) /\ InOrder(Tick) /\ DOMAIN Tick = DOMAIN timer_list
         /\ \A i \in DOMAIN timer_list : /\ Tick[i].pcb = timer_list[i].pcb
                                         /\ Tick[i].left <= 0 <=> timer_list[i].left <= 1
<1>1. /\ Len(timer_list) \in Nat /\ DOMAIN timer_list = 1 .. Len(timer_list)
      /\ \A i \in DOMAIN timer_list : timer_list[i] \in Timer
  OBVIOUS
<1>2. ASSUME NEW i \in DOMAIN timer_list
      PROVE  /\ Tick[i] \in Timer /\ Tick[i].pcb = timer_list[i].pcb /\ timer_list[i].left \in Nat
             /\ Tick[i].left = IF timer_list[i].left > 0 THEN timer_list[i].left - 1 ELSE 0
  <2> DEFINE r == timer_list[i]
  <2>1. r \in Timer /\ Tick[i] = [r EXCEPT !.left = IF @ > 0 THEN @ - 1 ELSE 0]
    BY <1>1 DEF Tick
  <2> HIDE DEF r
  <2>2. r.left \in Nat
    BY <2>1 DEF Timer
  <2>3. (IF r.left > 0 THEN r.left - 1 ELSE 0) \in Nat
    BY <2>2
  <2>4. /\ Tick[i] \in Timer /\ Tick[i].pcb = r.pcb
        /\ Tick[i].left = IF r.left > 0 THEN r.left - 1 ELSE 0
    BY <2>1, <2>3 DEF Timer
  <2> QED BY <2>2, <2>4 DEF r
<1>3. DOMAIN Tick = DOMAIN timer_list
  BY DEF Tick
<1>4. Tick \in Seq(Timer)
  <2>1. Tick = [i \in 1 .. Len(timer_list) |-> Tick[i]]
    BY <1>1 DEF Tick
  <2> QED BY <1>1, <1>2, <2>1
<1>5. InOrder(Tick)
  <2> SUFFICES ASSUME NEW i \in DOMAIN timer_list, NEW j \in DOMAIN timer_list, i < j
               PROVE  Tick[i].left <= Tick[j].left /\ Tick[i].pcb # Tick[j].pcb
    BY <1>3 DEF InOrder
  <2>1. timer_list[i].left <= timer_list[j].left /\ timer_list[i].pcb # timer_list[j].pcb
    BY DEF InOrder
  <2> QED BY <1>2, <2>1
<1>6. \A i \in DOMAIN timer_list : Tick[i].left <= 0 <=> timer_list[i].left <= 1
  BY <1>2
<1> QED BY <1>2, <1>3, <1>4, <1>5, <1>6

(* The PCBs as the callers of the scheduler leave them, and the timers.    *)
CallerWritten(before) ==
  /\ before \in [PCB -> PCBRecord]
  /\ \A p \in PCB :
       /\ before[p].pid = pcb[p].pid /\ before[p].status = pcb[p].status
       /\ before[p].parent = pcb[p].parent /\ before[p].children = pcb[p].children
       /\ before[p].signals = pcb[p].signals
       /\ p # running => before[p].awaiting = pcb[p].awaiting

SameSleepers(timers) ==
  /\ timers \in Seq(Timer) /\ InOrder(timers) /\ DOMAIN timers = DOMAIN timer_list
  /\ \A i \in DOMAIN timer_list : timers[i].pcb = timer_list[i].pcb

LEMMA RousedFields ==
  ASSUME NEW timers, NEW before, before \in [PCB -> PCBRecord]
  PROVE  /\ Roused(timers, before) \in [PCB -> PCBRecord]
         /\ \A p \in PCB :
              LET r == Roused(timers, before)[p] IN
                /\ r.pid = before[p].pid /\ r.parent = before[p].parent
                /\ r.children = before[p].children /\ r.awaiting = before[p].awaiting
                /\ r.signals = before[p].signals
                /\ r.status = IF p \in WokenUp(timers) THEN "Ready" ELSE before[p].status
<1>1. ASSUME NEW p \in PCB
      PROVE  Roused(timers, before)[p] =
               IF p \in WokenUp(timers) THEN [before[p] EXCEPT !.status = "Ready"] ELSE before[p]
  BY DEF Roused, WokenUp
<1>2. ASSUME NEW p \in PCB
      PROVE  LET r == [before[p] EXCEPT !.status = "Ready"] IN
               /\ r \in PCBRecord /\ r.status = "Ready"
               /\ r.pid = before[p].pid /\ r.parent = before[p].parent
               /\ r.children = before[p].children /\ r.awaiting = before[p].awaiting
               /\ r.signals = before[p].signals
  <2> DEFINE s == before[p]
             r == [s EXCEPT !.status = "Ready"]
  <2>1. s \in PCBRecord /\ "Ready" \in Statuses
    BY DEF Statuses
  <2> HIDE DEF s
  <2>2. /\ r \in PCBRecord /\ r.status = "Ready" /\ r.pid = s.pid /\ r.parent = s.parent
        /\ r.children = s.children /\ r.awaiting = s.awaiting /\ r.signals = s.signals
    BY <2>1, StatusSet
  <2> QED BY <2>2 DEF s
<1>3. \A p \in PCB : Roused(timers, before)[p] \in PCBRecord
  BY <1>1, <1>2
<1>4. Roused(timers, before) = [p \in PCB |-> Roused(timers, before)[p]]
  BY DEF Roused
<1>5. Roused(timers, before) \in [PCB -> PCBRecord]
  BY <1>3, <1>4
<1> QED BY <1>1, <1>2, <1>5

(* What the scheduler leaves of the lists and of the status of each        *)
(* process, whether or not somebody takes over.                            *)
LEMMA ScheduleEffect ==
  ASSUME ProcInv, running \in PCB, NEW timers, NEW before, SameSleepers(timers),
         CallerWritten(before), Schedule(timers, before)
  PROVE  LET up == WokenUp(timers) IN
         /\ up \in SUBSET Waiters /\ up \in SUBSET Sleepers
         /\ Lists(lists', ReadyOnes', Waiters \ up, Zombies)
         /\ pcb' \in [PCB -> PCBRecord] /\ running' \in PCB
         /\ running' \in (ReadyOnes \cup up) \cup {running}
         /\ (ReadyOnes \cup up) \cup {running} = ReadyOnes' \cup {running'}
         /\ running' \notin ReadyOnes'
         /\ \A p \in PCB :
              /\ pcb'[p].pid = pcb[p].pid /\ pcb'[p].parent = pcb[p].parent
              /\ pcb'[p].children = pcb[p].children /\ pcb'[p].signals = pcb[p].signals
              /\ p # running => pcb'[p].awaiting = pcb[p].awaiting
              /\ p \in ReadyOnes' => pcb'[p].status = "Ready"
              /\ p = running' => pcb'[p].status \in {"Running", "Ready"}
              /\ p \notin ReadyOnes' \cup {running'} => pcb'[p].status = pcb[p].status
         /\ timer_list' \in Seq(Timer) /\ InOrder(timer_list') /\ Sleepers' = Sleepers \ up
<1> DEFINE up   == WokenUp(timers)
           m    == Roused(timers, before)
           next == Awake(timers).first["ready"]
<1>1. /\ timers \in Seq(Timer) /\ InOrder(timers) /\ Due(timers) \in 0 .. Len(timers)
      /\ {timers[i].pcb : i \in DOMAIN timers} = Sleepers
      /\ \A i \in DOMAIN timers : timers[i].pcb \in Waiters
  <2>1. /\ timers \in Seq(Timer) /\ InOrder(timers) /\ DOMAIN timers = 1 .. Len(timers) /\ Len(timers) \in Nat
        /\ DOMAIN timers = DOMAIN timer_list
        /\ \A i \in DOMAIN timer_list : timers[i].pcb = timer_list[i].pcb
    BY DEF SameSleepers
  <2>2. Due(timers) \in 0 .. Len(timers)
    <3> DEFINE S == {i \in DOMAIN timers : timers[i].left <= 0}
    <3>0. S \in SUBSET (1 .. Len(timers))
      BY <2>1
    <3> HIDE DEF S
    <3> DEFINE n == Len(timers)
    <3>1. n \in Nat /\ S \in SUBSET (1 .. n)
      BY <2>1, <3>0
    <3> HIDE DEF n
    <3>2. IsFiniteSet(1 .. n) /\ Cardinality(1 .. n) = n
      BY <3>1, FS_Interval
    <3>3. IsFiniteSet(S) /\ Cardinality(S) <= n
      BY <3>1, <3>2, FS_Subset
    <3>4. Cardinality(S) \in Nat
      BY <3>3, FS_CardinalityType
    <3> QED BY <3>1, <3>3, <3>4 DEF Due, S, n
  <2>3. {timers[i].pcb : i \in DOMAIN timers} = Sleepers
    BY <2>1 DEF Sleepers
  <2>4. Sleepers \subseteq Waiters
    BY DEF ProcInv, Timers
  <2> QED BY <2>1, <2>2, <2>3, <2>4
<1>2. /\ Lists(Awake(timers), ReadyOnes \cup up, Waiters \ up, Zombies)
      /\ up \in SUBSET Waiters
  BY <1>1, SleepersMove
<1>3. /\ timer_list' = SubSeq(timers, Due(timers) + 1, Len(timers))
      /\ \/ /\ next = NULL
            /\ lists' = Awake(timers) /\ pcb' = m /\ UNCHANGED running
         \/ /\ next # NULL
            /\ lists' = LL!Enlist(LL!List_detach(Awake(timers), "ready", next), "ready", running)
            /\ pcb' = [m EXCEPT ![running].status = "Ready", ![next].status = "Running"]
            /\ running' = next
  BY ScheduleUnfolded
<1>4. /\ timer_list' \in Seq(Timer) /\ InOrder(timer_list') /\ Sleepers' = Sleepers \ up
      /\ up \in SUBSET Sleepers
  <2> DEFINE rest == SubSeq(timers, Due(timers) + 1, Len(timers))
  <2>1. /\ rest \in Seq(Timer) /\ InOrder(rest)
        /\ {rest[i].pcb : i \in DOMAIN rest} =
             {timers[i].pcb : i \in DOMAIN timers} \ {timers[i].pcb : i \in 1 .. Due(timers)}
    BY <1>1, TimersFire
  <2>2. up = {timers[i].pcb : i \in 1 .. Due(timers)}
    <3>1. \A i \in 1 .. Due(timers) : Woken(timers, i) = timers[i].pcb
      BY DEF Woken
    <3> QED BY <3>1 DEF WokenUp
  <2>3. \A i \in 1 .. Due(timers) : i \in DOMAIN timers
    BY <1>1
  <2> HIDE DEF rest
  <2>4. Sleepers' = {rest[i].pcb : i \in DOMAIN rest}
    BY <1>3 DEF rest, Sleepers
  <2>5. up \in SUBSET {timers[i].pcb : i \in DOMAIN timers}
    BY <2>2, <2>3
  <2> HIDE DEF up
  <2>6. Sleepers' = Sleepers \ up /\ up \in SUBSET Sleepers
    BY <1>1, <2>1, <2>2, <2>4, <2>5
  <2> QED BY <1>3, <2>1, <2>6 DEF rest
<1>5. /\ running \notin ReadyOnes /\ running \notin Waiters /\ running \notin Zombies
      /\ Waiters \in SUBSET PCB /\ ReadyOnes \in SUBSET PCB
      /\ \A p \in ReadyOnes : pcb[p].status = "Ready"
      /\ pcb[running].status \in {"Running", "Ready"} /\ NULL \notin PCB
  BY Basics, PCBsAreFinite DEF ProcInv, Placed
<1>6. /\ next = NULL => ReadyOnes \cup up = {}
      /\ next # NULL => next \in ReadyOnes \cup up
  BY <1>2, ListsFacts
<1>7. /\ m \in [PCB -> PCBRecord]
      /\ \A p \in PCB :
           /\ m[p].pid = pcb[p].pid /\ m[p].parent = pcb[p].parent
           /\ m[p].children = pcb[p].children /\ m[p].signals = pcb[p].signals
           /\ p # running => m[p].awaiting = pcb[p].awaiting
           /\ m[p].status = IF p \in up THEN "Ready" ELSE pcb[p].status
  <2>1. before \in [PCB -> PCBRecord]
    BY DEF CallerWritten
  <2>2. /\ m \in [PCB -> PCBRecord]
        /\ \A p \in PCB :
             /\ m[p].pid = before[p].pid /\ m[p].parent = before[p].parent
             /\ m[p].children = before[p].children /\ m[p].awaiting = before[p].awaiting
             /\ m[p].signals = before[p].signals
             /\ m[p].status = IF p \in up THEN "Ready" ELSE before[p].status
    BY <2>1, RousedFields
  <2> HIDE DEF m, up
  <2> QED BY <2>2 DEF CallerWritten
<1> HIDE DEF m, up, next
<1>8. CASE next = NULL
  <2>1. lists' = Awake(timers) /\ pcb' = m /\ running' = running
    BY <1>3, <1>8
  <2>2. ReadyOnes' = ReadyOnes \cup up /\ ReadyOnes' = {} /\ up = {}
    <3>1. Lists(lists', ReadyOnes \cup up, Waiters \ up, Zombies)
      BY <1>2, <2>1
    <3>2. ReadyOnes' = ReadyOnes \cup up
      BY <3>1, NextLists
    <3> QED BY <1>6, <1>8, <3>2
  <2>3. Lists(lists', ReadyOnes', Waiters \ up, Zombies)
    BY <1>2, <2>1, <2>2
  <2>4. \A p \in PCB :
          /\ p \in ReadyOnes' => pcb'[p].status = "Ready"
          /\ p = running' => pcb'[p].status \in {"Running", "Ready"}
          /\ p \notin ReadyOnes' \cup {running'} => pcb'[p].status = pcb[p].status
    BY <1>5, <1>7, <2>1, <2>2
  <2>5. /\ running' \in (ReadyOnes \cup up) \cup {running} /\ running' \notin ReadyOnes'
        /\ (ReadyOnes \cup up) \cup {running} = ReadyOnes' \cup {running'}
    BY <2>1, <2>2
  <2>6. \A p \in PCB :
          /\ pcb'[p].pid = pcb[p].pid /\ pcb'[p].parent = pcb[p].parent
          /\ pcb'[p].children = pcb[p].children /\ pcb'[p].signals = pcb[p].signals
          /\ p # running => pcb'[p].awaiting = pcb[p].awaiting
    BY <1>7, <2>1
  <2> QED BY <1>2, <1>4, <1>7, <2>1, <2>3, <2>4, <2>5, <2>6 DEF up
<1>9. CASE next # NULL
  <2>1. /\ lists' = LL!Enlist(LL!List_detach(Awake(timers), "ready", next), "ready", running)
        /\ pcb' = [m EXCEPT ![running].status = "Ready", ![next].status = "Running"]
        /\ running' = next
    BY <1>3, <1>9
  <2>2. next \in ReadyOnes \cup up /\ next \in PCB /\ next # running
        /\ running \notin (ReadyOnes \cup up) \ {next}
        /\ running \notin Waiters \ up
    BY <1>2, <1>5, <1>6, <1>9
  <2>3. Lists(lists', ((ReadyOnes \cup up) \ {next}) \cup {running}, Waiters \ up, Zombies)
    <3>1. Lists(LL!List_detach(Awake(timers), "ready", next), (ReadyOnes \cup up) \ {next}, Waiters \ up, Zombies)
      BY <1>2, <2>2, Leaving
    <3>2. Lists(LL!Enlist(LL!List_detach(Awake(timers), "ready", next), "ready", running),
                ((ReadyOnes \cup up) \ {next}) \cup {running}, Waiters \ up, Zombies)
      BY <1>5, <2>2, <3>1, Entering
    <3> QED BY <2>1, <3>2
  <2>4. ReadyOnes' = ((ReadyOnes \cup up) \ {next}) \cup {running}
    BY <2>3, NextLists
  <2>5. Lists(lists', ReadyOnes', Waiters \ up, Zombies)
    BY <2>3, <2>4
  <2> DEFINE g == [m EXCEPT ![running].status = "Ready"]
             h == [g EXCEPT ![next].status = "Running"]
  <2>6. pcb' = h
    BY <2>1
  <2>7. AssignsStatus(m, g, running, "Ready")
    <3>1. "Ready" \in Statuses
      BY DEF Statuses
    <3> QED BY <1>7, <3>1, FieldAssigned
  <2> HIDE DEF g
  <2>8. AssignsStatus(g, h, next, "Running")
    <3>1. "Running" \in Statuses /\ g \in [PCB -> PCBRecord]
      BY <2>7 DEF Statuses, AssignsStatus
    <3> QED BY <2>2, <3>1, FieldAssigned
  <2> HIDE DEF h
  <2>9. \A p \in PCB :
          /\ pcb'[p].pid = pcb[p].pid /\ pcb'[p].parent = pcb[p].parent
          /\ pcb'[p].children = pcb[p].children /\ pcb'[p].signals = pcb[p].signals
          /\ p # running => pcb'[p].awaiting = pcb[p].awaiting
    BY <1>7, <2>6, <2>7, <2>8 DEF AssignsStatus
  <2>10. /\ pcb' \in [PCB -> PCBRecord]
         /\ \A p \in PCB : pcb'[p].status = IF p = next THEN "Running" ELSE IF p = running THEN "Ready"
                                            ELSE IF p \in up THEN "Ready" ELSE pcb[p].status
    BY <1>7, <2>6, <2>7, <2>8 DEF AssignsStatus
  <2>11. \A p \in PCB :
          /\ p \in ReadyOnes' => pcb'[p].status = "Ready"
          /\ p = running' => pcb'[p].status \in {"Running", "Ready"}
          /\ p \notin ReadyOnes' \cup {running'} => pcb'[p].status = pcb[p].status
    BY <1>5, <2>1, <2>2, <2>4, <2>10
  <2>12. /\ running' \in (ReadyOnes \cup up) \cup {running} /\ running' \notin ReadyOnes'
         /\ (ReadyOnes \cup up) \cup {running} = ReadyOnes' \cup {running'}
    BY <2>1, <2>2, <2>4
  <2> QED BY <1>2, <1>4, <2>1, <2>2, <2>5, <2>9, <2>10, <2>11, <2>12 DEF up
<1> QED BY <1>8, <1>9 DEF up

LEMMA ScheduleStep ==
  ASSUME ProcInv, running \in PCB, mode \in {"user", "booting"},
         context' \in [PCB -> {NoContext, InFunction, InBoot}],
         NEW timers, NEW before, SameSleepers(timers), CallerWritten(before), Schedule(timers, before)
  PROVE  ProcInv' /\ DeadStay /\ Answered /\ (Found => Found')
<1> DEFINE up  == WokenUp(timers)
           all == (ReadyOnes \cup up) \cup {running}
<1>1. /\ up \in SUBSET Waiters /\ up \in SUBSET Sleepers
      /\ Lists(lists', ReadyOnes', Waiters \ up, Zombies)
      /\ pcb' \in [PCB -> PCBRecord] /\ running' \in PCB
      /\ running' \in all /\ all = ReadyOnes' \cup {running'} /\ running' \notin ReadyOnes'
      /\ \A p \in PCB :
           /\ pcb'[p].pid = pcb[p].pid /\ pcb'[p].parent = pcb[p].parent
           /\ pcb'[p].children = pcb[p].children /\ pcb'[p].signals = pcb[p].signals
           /\ p # running => pcb'[p].awaiting = pcb[p].awaiting
           /\ p \in ReadyOnes' => pcb'[p].status = "Ready"
           /\ p = running' => pcb'[p].status \in {"Running", "Ready"}
           /\ p \notin ReadyOnes' \cup {running'} => pcb'[p].status = pcb[p].status
      /\ timer_list' \in Seq(Timer) /\ InOrder(timer_list') /\ Sleepers' = Sleepers \ up
  BY ScheduleEffect
<1> HIDE DEF up
<1>2. /\ Placed /\ ReadyOnes \in SUBSET PCB /\ Waiters \in SUBSET PCB /\ Zombies \in SUBSET PCB
      /\ ReadyOnes \cap Waiters = {} /\ ReadyOnes \cap Zombies = {} /\ Waiters \cap Zombies = {}
      /\ Free \in SUBSET PCB /\ NULL \notin PCB
      /\ running \notin ReadyOnes /\ running \notin Waiters /\ running \notin Zombies /\ running \notin Free
      /\ pcb[running].status \in {"Running", "Ready"}
  BY Basics, PCBsAreFinite DEF ProcInv, Placed
<1>3. /\ all \in SUBSET PCB /\ all \cap Zombies = {} /\ all \cap Free = {}
      /\ \A p \in all : pcb[p].status \in {"Running", "Ready", "Waiting"}
                        /\ pcb'[p].status \in {"Running", "Ready"}
      /\ \A p \in PCB : p \notin all => pcb'[p].status = pcb[p].status
  <2>1. all \in SUBSET PCB /\ all \cap Zombies = {}
    BY <1>1, <1>2
  <2>2. all \cap Free = {}
    BY <1>1, <1>2 DEF Placed
  <2>3. \A p \in all : pcb[p].status \in {"Running", "Ready", "Waiting"}
    BY <1>1, <1>2 DEF Placed
  <2> HIDE DEF all
  <2>4. \A p \in all : pcb'[p].status \in {"Running", "Ready"}
    BY <1>1, <2>1
  <2> QED BY <1>1, <2>1, <2>2, <2>3, <2>4
<1>4. /\ LP!Proper(lists)' /\ (lists \in LL!Store)' /\ Waiters' = Waiters \ up /\ Zombies' = Zombies
  BY <1>1, NextLists
<1>5. /\ retval' = NoValue /\ UNCHANGED <<init_pcb, last_pid, pcb_free, pcbptr_free>>
      /\ mode' = mode \/ mode' = Resumes(running')
  BY ScheduleUnfolded
<1>6. FamiliesUnchanged
  <2>1. \A p \in PCB : /\ pcb'[p].status = "Zombie" <=> pcb[p].status = "Zombie"
                       /\ pcb'[p].status = "Created" <=> pcb[p].status = "Created"
    BY <1>3
  <2> QED BY <1>1, <1>5, <2>1 DEF FamiliesUnchanged
<1>7. FreeOK' /\ Families' /\ PtrBlocks' /\ Free' = Free
  BY <1>5, <1>6, SameFamilies DEF Free
<1>8. ProcTypeOK'
  <2>1. mode' \in {"user", "booting", "crashed"}
    BY <1>1, <1>5, ResumesInMode
  <2>2. KernelTypeOK'
    BY <1>5, <2>1 DEF KernelTypeOK, Modes, NoValue
  <2>3. ProcTypeOK
    BY DEF ProcInv
  <2> QED BY <1>1, <1>4, <1>5, <2>2, <2>3 DEF ProcTypeOK, PCBRecord, Timer
<1>9. Placed'
  <2>1. /\ ReadyOnes' \in SUBSET all /\ running' \in all /\ running' \notin ReadyOnes'
        /\ running' # NULL /\ pcb'[running'].status \in {"Running", "Ready"}
    BY <1>1, <1>2
  <2>2. up \in SUBSET all /\ Waiters' \cap all = {}
    BY <1>1, <1>2, <1>4
  <2>3. \A p \in ReadyOnes' : pcb'[p].status = "Ready"
    BY <1>1, <1>3, <2>1
  <2> HIDE DEF all
  <2>4. \A p \in PCB : p \in Waiters' <=> pcb'[p].status = "Waiting"
    BY <1>2, <1>3, <1>4, <2>2 DEF Placed
  <2>5. /\ \A p \in PCB : p \in Zombies' <=> pcb'[p].status = "Zombie" /\ p \notin Free'
        /\ \A p \in PCB \ Free' : pcb'[p].status # "Created"
    BY <1>2, <1>3, <1>4, <1>7 DEF Placed
  <2>6. Free' \cap ReadyOnes' = {} /\ Free' \cap Waiters' = {} /\ Free' \cap Zombies' = {}
    BY <1>2, <1>3, <1>4, <1>7, <2>1 DEF Placed
  <2>7. running' \notin Waiters' /\ running' \notin Zombies' /\ running' \notin Free'
    BY <1>3, <1>4, <1>7, <2>1, <2>2
  <2> QED BY <2>1, <2>3, <2>4, <2>5, <2>6, <2>7 DEF Placed
<1>10. Timers'
  <2>1. Timers
    BY DEF ProcInv
  <2>2. Sleepers' \subseteq Waiters'
    BY <1>1, <1>4, <2>1 DEF Timers
  <2>3. \A p \in Waiters' : p \in Sleepers' <=> pcb'[p].awaiting = NoWait
    BY <1>1, <1>2, <1>4, <2>1 DEF Timers
  <2>4. \A p \in PCB : ChildrenOf(p)' = ChildrenOf(p)
    BY <1>1 DEF ChildrenOf
  <2>5. \A p \in Waiters' : pcb'[p].awaiting # NoWait => ChildrenOf(p)' # {}
    BY <1>1, <1>2, <1>4, <2>1, <2>4 DEF Timers
  <2> QED BY <1>1, <2>2, <2>3, <2>5 DEF Timers
<1>11. NoLostWakeup'
  <2>1. \A p \in Waiters' : p \in Waiters /\ pcb'[p].awaiting = pcb[p].awaiting
    BY <1>1, <1>2, <1>4
  <2> QED BY <1>6, <2>1, NobodyMissed
<1>12. DeadStay /\ (Found => Found')
  <2>1. DeadStay
    BY <1>6 DEF DeadStay, FamiliesUnchanged
  <2>2. ASSUME Found, NEW p \in PCB \ Free, pcb'[p].status \in {"Ready", "Running"}
        PROVE  p = running' \/ p \in ReadyOnes'
    <3>1. CASE p \in all
      BY <1>1, <3>1
    <3>2. CASE p \notin all
      <4>1. pcb[p].status \in {"Ready", "Running"}
        BY <1>3, <2>2, <3>2
      <4>2. p \in all
        BY <2>2, <4>1 DEF Found
      <4> QED BY <3>2, <4>2
    <3> QED BY <3>1, <3>2
  <2> QED BY <1>7, <2>1, <2>2 DEF Found
<1>13. Answered
  <2>1. ASSUME NEW p \in Waiters, pcb[p].awaiting # NoWait
        PROVE  /\ pcb'[p].status = pcb[p].status /\ pcb'[p].awaiting = pcb[p].awaiting
               /\ ChildrenOf(p) \subseteq ChildrenOf(p)'
    <3>1. p \in PCB /\ p # running /\ p \notin ReadyOnes /\ p \notin up
      BY <1>1, <1>2, <2>1 DEF ProcInv, Timers
    <3>2. pcb'[p].children = pcb[p].children /\ pcb'[p].awaiting = pcb[p].awaiting
      BY <1>1, <3>1
    <3> QED BY <1>3, <3>1, <3>2 DEF ChildrenOf
  <2> QED BY <2>1, WaitsGoOn
<1> QED BY <1>4, <1>7, <1>8, <1>9, <1>10, <1>11, <1>12, <1>13 DEF ProcInv

(* The timer signal, and the call that gives the processor up. *)
LEMMA TimerInterruptStep ==
  ASSUME ProcInv, TimerInterrupt
  PROVE  ProcInv' /\ DeadStay /\ Answered /\ (Found => Found')
<1>1. running \in PCB /\ mode \in {"user", "booting"} /\ Schedule(Tick, pcb)
  BY Basics DEF TimerInterrupt
<1>2. context' \in [PCB -> {NoContext, InFunction, InBoot}]
  BY <1>1 DEF TimerInterrupt, ProcInv, ProcTypeOK
<1>3. SameSleepers(Tick)
  <2>1. timer_list \in Seq(Timer) /\ InOrder(timer_list)
    BY DEF ProcInv, ProcTypeOK, Timers, Timer
  <2> QED BY <2>1, TickKeepsOrder DEF SameSleepers
<1>4. CallerWritten(pcb)
  BY Basics DEF CallerWritten
<1> QED BY <1>1, <1>2, <1>3, <1>4, ScheduleStep

LEMMA PreemptStep ==
  ASSUME ProcInv, Preempt
  PROVE  ProcInv' /\ DeadStay /\ Answered /\ (Found => Found')
<1>1. running \in PCB /\ mode \in {"user", "booting"} /\ Schedule(timer_list, Called(NoWait))
  BY Basics DEF Preempt, InUser, ProcInv, Placed
<1>2. context' \in [PCB -> {NoContext, InFunction, InBoot}]
  BY DEF Preempt, ProcInv, ProcTypeOK
<1>3. SameSleepers(timer_list)
  BY DEF SameSleepers, ProcInv, ProcTypeOK, Timers, Timer
<1>4. CallerWritten(Called(NoWait))
  <2>1. NoWait \in WaitArgs \cup {NoWait}
    OBVIOUS
  <2> QED BY <1>1, <2>1, CalledFields DEF CallerWritten
<1> QED BY <1>1, <1>2, <1>3, <1>4, ScheduleStep

---------------------------------------------------------------------------
(* The clock.  In a list in order the timers that are due come first, so   *)
(* that stopping at the first that is not misses none.                     *)
LEMMA DueAreFirst ==
  ASSUME NEW timers \in Seq(Timer), InOrder(timers)
  PROVE  /\ Due(timers) \in 0 .. Len(timers)
         /\ \A i \in DOMAIN timers : timers[i].left <= 0 <=> i <= Due(timers)
<1> DEFINE n == Len(timers)
           S == {i \in DOMAIN timers : timers[i].left <= 0}
<1>1. n \in Nat /\ DOMAIN timers = 1 .. n /\ S \in SUBSET (1 .. n)
  OBVIOUS
<1>2. \A i \in 1 .. n : timers[i].left \in Nat
  <2>1. \A i \in 1 .. n : timers[i] \in Timer
    OBVIOUS
  <2> QED BY <2>1 DEF Timer
<1>3. \A i \in S : \A j \in 1 .. i : j \in S
  BY <1>1, <1>2 DEF InOrder
<1>4. \A i \in DOMAIN timers : i \in S <=> timers[i].left <= 0
  OBVIOUS
<1>5. Due(timers) = Cardinality(S)
  BY DEF Due
<1> HIDE DEF S, n
<1>6. Cardinality(S) \in 0 .. n /\ S = 1 .. Cardinality(S)
  BY <1>1, <1>3, InitialInterval
<1>7. \A i \in 1 .. n : i \in S <=> i <= Cardinality(S)
  BY <1>6
<1> QED BY <1>1, <1>4, <1>5, <1>6, <1>7 DEF n

LEMMA ScheduleOnTime ==
  ASSUME ProcInv, NEW timers, NEW before, SameSleepers(timers), Schedule(timers, before)
  PROVE  /\ \A i \in DOMAIN timers : timers[i].pcb \notin Sleepers' => timers[i].left <= 0
         /\ \A i \in DOMAIN timer_list' : timer_list'[i].left > 0
         /\ timers # <<>> /\ timers[1].left <= 0 => running' = timers[1].pcb
<1> DEFINE n    == Len(timers)
           d    == Due(timers)
           rest == SubSeq(timers, d + 1, n)
<1>1. /\ timers \in Seq(Timer) /\ InOrder(timers) /\ n \in Nat /\ DOMAIN timers = 1 .. n
      /\ \A i \in 1 .. n : timers[i] \in Timer
  BY DEF SameSleepers
<1>2. d \in 0 .. n /\ \A i \in 1 .. n : timers[i].left <= 0 <=> i <= d
  BY <1>1, DueAreFirst
<1>3. \A i \in 1 .. n : timers[i].left \in Nat
  BY <1>1 DEF Timer
<1>4. timer_list' = rest
  BY ScheduleUnfolded
<1> HIDE DEF d
<1>5. /\ rest \in Seq(Timer) /\ DOMAIN rest = 1 .. n - d
      /\ \A i \in 1 .. n - d : rest[i] = timers[d + i] /\ d + i \in 1 .. n
  <2>1. d + 1 \in Int /\ n \in Int /\ \A i \in d + 1 .. n : i \in 1 .. n /\ timers[i] \in Timer
    BY <1>1, <1>2
  <2>2. Len(rest) = IF d + 1 <= n THEN n - (d + 1) + 1 ELSE 0
    BY <1>1, <2>1
  <2>3. rest \in Seq(Timer)
    BY <1>1, <2>1, SubSeqProperties
  <2>4. \A i \in 1 .. n - d : d + i \in 1 .. n /\ i \in 1 .. n - (d + 1) + 1 /\ (d + 1) + i - 1 = d + i
    BY <1>1, <1>2
  <2>5. \A i \in 1 .. n - d : rest[i] = timers[d + i]
    BY <1>1, <1>2, <2>4
  <2> HIDE DEF rest, n
  <2>6. Len(rest) = n - d
    BY <1>1, <1>2, <2>2
  <2> QED BY <2>3, <2>4, <2>5, <2>6
<1> HIDE DEF rest, n
<1>6. ASSUME NEW i \in 1 .. n, timers[i].pcb \notin Sleepers'
      PROVE  timers[i].left <= 0
  <2> SUFFICES ASSUME ~ (i <= d) PROVE FALSE
    BY <1>2
  <2>1. i - d \in 1 .. n - d /\ d + (i - d) = i
    BY <1>1, <1>2
  <2>2. rest[i - d].pcb \in Sleepers'
    BY <1>4, <1>5, <2>1 DEF Sleepers
  <2> QED BY <1>5, <1>6, <2>1, <2>2
<1>7. \A i \in DOMAIN rest : rest[i].left > 0
  <2> SUFFICES ASSUME NEW i \in 1 .. n - d PROVE rest[i].left > 0
    BY <1>5
  <2>1. d + i \in 1 .. n /\ ~ (d + i <= d)
    BY <1>1, <1>2, <1>5
  <2>2. ~ (timers[d + i].left <= 0) /\ timers[d + i].left \in Nat
    BY <1>2, <1>3, <2>1
  <2> QED BY <1>5, <2>2
<1>8. ASSUME timers # <<>>, timers[1].left <= 0
      PROVE  running' = timers[1].pcb
  <2>1. 1 \in 1 .. n
    BY <1>1, <1>8 DEF n
  <2>2. d > 0
    BY <1>2, <1>8, <2>1
  <2>3. \A i \in DOMAIN timers : timers[i].pcb \in Waiters
    BY DEF SameSleepers, ProcInv, Timers, Sleepers
  <2>4. Awake(timers).first["ready"] = timers[1].pcb
    <3>1. Due(timers) \in 0 .. Len(timers) /\ Due(timers) > 0
      BY <1>2, <2>2 DEF d, n
    <3> QED BY <1>1, <2>3, <3>1, SleepersMove
  <2>5. timers[1].pcb # NULL
    <3>1. timers[1] \in Timer
      BY <1>1, <2>1
    <3> QED BY <3>1, PCBsAreFinite DEF Timer
  <2> QED BY <2>4, <2>5, ScheduleUnfolded
<1> QED BY <1>1, <1>4, <1>6, <1>7, <1>8

(* Only the scheduler wakes sleepers. *)
LEMMA SleepersSleep ==
  ASSUME ProcInv, [ProcNext]_<<procVars, kernelVars>>, ~ TimerInterrupt, ~ Preempt
  PROVE  Sleepers \subseteq Sleepers'
<1>1. /\ timer_list \in Seq(Timer) /\ InOrder(timer_list) /\ running \notin Sleepers
  BY DEF ProcInv, ProcTypeOK, Timers, Timer, Placed
<1>2. CASE timer_list' = timer_list
  BY <1>2 DEF Sleepers
<1>3. ASSUME NEW n \in SleepTimes, FallsAsleep(n)
      PROVE  Sleepers \subseteq Sleepers'
  <2>1. n \in Nat /\ running \in PCB /\ timer_list' = TimerList_add(n)
    BY <1>3, Basics, ProcConstantsAssumption DEF FallsAsleep, InUser, ProcInv, Placed
  <2>2. {timer_list'[i].pcb : i \in DOMAIN (timer_list')} = Sleepers \cup {running}
    BY <1>1, <2>1, TimerAdded
  <2> QED BY <2>2 DEF Sleepers
<1>4. ASSUME NEW i, ExitWakesParent(i)
      PROVE  timer_list' = timer_list
  <2>1. timer_list' = TimersKept
    BY <1>4 DEF ExitWakesParent
  <2> QED BY <1>1, <2>1, NoTimerToTake
<1>5. \/ timer_list' = timer_list
      \/ \E n \in SleepTimes : FallsAsleep(n)
      \/ \E i : ExitWakesParent(i)
  <2>1. CASE UNCHANGED <<procVars, kernelVars>>
    BY <2>1 DEF procVars
  <2>2. ASSUME NEW b \in PCB, Spawn(b) \/ Fork(b) \/ Boot(b)
        PROVE  timer_list' = timer_list
    BY <2>2 DEF Spawn, Fork, NewChild, Boot
  <2>3. ASSUME NEW k \in WaitArgs, Wait(k)
        PROVE  timer_list' = timer_list
    BY <2>3 DEF Wait, WaitNoChildren, WaitReaps, WaitBlocks, WaitNobodyReady, Dies, procVars
  <2>4. CASE Exit
    BY <2>4 DEF Exit, ExitHangs, ExitSwitches, ExitNoParent, ExitNobodyReady, ExitToStranger, Dies, procVars
  <2>5. CASE \E n \in SleepTimes : SleepSwitches(n) \/ SleepNobodyReady(n)
    BY <2>5 DEF SleepSwitches, SleepNobodyReady
  <2>6. CASE SpawnNoBlock \/ Shutdown \/ FunctionReturns \/ BootCrashes
    BY <2>6 DEF SpawnNoBlock, Shutdown, FunctionReturns, BootCrashes, Dies, procVars
  <2> QED BY <2>1, <2>2, <2>3, <2>4, <2>5, <2>6 DEF ProcNext, Syscall
<1> QED BY <1>2, <1>3, <1>4, <1>5

(* Whose block is freed was a child of the process that now runs. *)
LEMMA StepReports ==
  ASSUME ProcInv, [ProcNext]_<<procVars, kernelVars>>
  PROVE  Reported
<1>1. CASE pcb_free' = pcb_free
  BY <1>1 DEF Reported, Free
<1>2. ASSUME NEW b, TakesBlock(b)
      PROVE  Reported
  <2>1. pcb_free \in Seq(PCB) /\ pcb_free # <<>> /\ pcb_free' = Tail(pcb_free)
    BY <1>2 DEF TakesBlock, ProcInv, ProcTypeOK
  <2>2. \A i \in DOMAIN (pcb_free') : pcb_free'[i] = pcb_free[i + 1] /\ i + 1 \in DOMAIN pcb_free
    BY <2>1
  <2>3. Free' \subseteq Free
    BY <2>2 DEF Free, ToSet
  <2> QED BY <2>3 DEF Reported
<1>3. ASSUME NEW k \in WaitArgs, Wait(k)
      PROVE  Reported
  <2>1. ASSUME NEW i, WaitReaps(k, i) PROVE Reported
    BY <2>1, WaitReapsStep
  <2>2. CASE pcb_free' = pcb_free
    BY <2>2, <1>1
  <2> QED BY <1>3, <2>1, <2>2 DEF Wait, WaitNoChildren, WaitBlocks, WaitNobodyReady, Dies, procVars
<1>4. CASE Exit
  <2>1. ASSUME NEW i, ExitWakesParent(i) PROVE Reported
    BY <2>1, ExitWakesParentStep
  <2>2. CASE pcb_free' = pcb_free
    BY <2>2, <1>1
  <2> QED BY <1>4, <2>1, <2>2 DEF Exit, ExitHangs, ExitSwitches, ExitNoParent, ExitNobodyReady,
                                   ExitToStranger, Dies, procVars
<1>5. CASE UNCHANGED <<procVars, kernelVars>>
  BY <1>1, <1>5 DEF procVars
<1>6. ASSUME NEW b \in PCB, Spawn(b) \/ Fork(b) \/ Boot(b)
      PROVE  Reported
  BY <1>2, <1>6 DEF Spawn, Fork, NewChild, Boot
<1>7. CASE \E n \in SleepTimes : SleepSwitches(n) \/ SleepNobodyReady(n)
  <2>1. pcb_free' = pcb_free
    BY <1>7 DEF SleepSwitches, SleepNobodyReady, FallsAsleep
  <2> QED BY <2>1, <1>1
<1>8. CASE Preempt \/ TimerInterrupt
  <2>1. pcb_free' = pcb_free
    BY <1>8, Zenon DEF Preempt, TimerInterrupt, Schedule
  <2> QED BY <2>1, <1>1
<1>9. CASE SpawnNoBlock \/ Shutdown \/ FunctionReturns \/ BootCrashes
  BY <1>1, <1>9 DEF SpawnNoBlock, Shutdown, FunctionReturns, BootCrashes, Dies, procVars
<1> QED BY <1>3, <1>4, <1>5, <1>6, <1>7, <1>8, <1>9 DEF ProcNext, Syscall

(* A step keeps to the clock. *)
OnTime ==
  /\ \A i \in DOMAIN timer_list :
       timer_list[i].pcb \notin Sleepers' => timer_list[i].left <= IF TimerInterrupt THEN 1 ELSE 0
  /\ TimerInterrupt =>
       /\ \A i \in DOMAIN timer_list' : timer_list'[i].left > 0
       /\ timer_list # <<>> /\ timer_list[1].left <= 1 => running' = timer_list[1].pcb

(* Whatever else a step does: it is on time if it is a signal, or wakes    *)
(* only those that are due without one.                                    *)
LEMMA SignalOnTime ==
  ASSUME ProcInv, TimerInterrupt
  PROVE  OnTime
<1>1. timer_list \in Seq(Timer) /\ InOrder(timer_list)
  BY DEF ProcInv, ProcTypeOK, Timers, Timer
<1>2. SameSleepers(Tick)
  BY <1>1, TickKeepsOrder DEF SameSleepers
<1>3. Schedule(Tick, pcb)
  BY DEF TimerInterrupt
<1>4. /\ \A i \in DOMAIN Tick : Tick[i].pcb \notin Sleepers' => Tick[i].left <= 0
      /\ \A i \in DOMAIN timer_list' : timer_list'[i].left > 0
      /\ Tick # <<>> /\ Tick[1].left <= 0 => running' = Tick[1].pcb
  BY <1>2, <1>3, ScheduleOnTime
<1>5. /\ DOMAIN Tick = DOMAIN timer_list /\ Tick \in Seq(Timer)
      /\ \A i \in DOMAIN timer_list : /\ Tick[i].pcb = timer_list[i].pcb
                                      /\ Tick[i].left <= 0 <=> timer_list[i].left <= 1
  BY <1>1, TickKeepsOrder
<1>6. timer_list # <<>> => 1 \in DOMAIN timer_list /\ Tick # <<>>
  <2>1. /\ timer_list # <<>> => 1 \in DOMAIN timer_list
    BY <1>1
  <2>2. 1 \in DOMAIN Tick => Tick # <<>>
    OBVIOUS
  <2> QED BY <1>5, <2>1, <2>2
<1>7. \A i \in DOMAIN timer_list : timer_list[i].pcb \notin Sleepers' => timer_list[i].left <= 1
  BY <1>4, <1>5
<1>8. timer_list # <<>> /\ timer_list[1].left <= 1 => running' = timer_list[1].pcb
  BY <1>4, <1>5, <1>6
<1> QED BY <1>4, <1>7, <1>8 DEF OnTime

LEMMA QuietOnTime ==
  ASSUME ProcInv, Sleepers \subseteq Sleepers'
  PROVE  OnTime
<1>1. CASE TimerInterrupt
  BY <1>1, SignalOnTime
<1>2. CASE ~ TimerInterrupt
  <2>1. \A i \in DOMAIN timer_list : timer_list[i].pcb \in Sleepers'
    BY DEF Sleepers
  <2> QED BY <1>2, <2>1 DEF OnTime
<1> QED BY <1>1, <1>2

LEMMA StepOnTime ==
  ASSUME ProcInv, [ProcNext]_<<procVars, kernelVars>>
  PROVE  OnTime
<1>1. timer_list \in Seq(Timer) /\ InOrder(timer_list)
  BY DEF ProcInv, ProcTypeOK, Timers, Timer
<1>2. CASE TimerInterrupt
  BY <1>2, SignalOnTime
<1>3. CASE ~ TimerInterrupt /\ Preempt
  <2>1. SameSleepers(timer_list) /\ Schedule(timer_list, Called(NoWait))
    BY <1>1, <1>3 DEF SameSleepers, Preempt
  <2>2. \A i \in DOMAIN timer_list : timer_list[i].pcb \notin Sleepers' => timer_list[i].left <= 0
    BY <2>1, ScheduleOnTime
  <2> QED BY <1>3, <2>2 DEF OnTime
<1>4. CASE ~ TimerInterrupt /\ ~ Preempt
  BY <1>4, SleepersSleep, QuietOnTime
<1> QED BY <1>2, <1>3, <1>4

---------------------------------------------------------------------------
(* The invariant holds at the start and is kept by every step. *)
LEMMA Start ==
  ASSUME ProcInit
  PROVE  ProcInv /\ Found
<1>1. /\ mode = "user" /\ retval = NoValue /\ running = 1 /\ init_pcb = 1 /\ last_pid = 1
      /\ lists = LL!Empty /\ timer_list = <<>> /\ pcbptr_free = MAX_NUM_PROCESSES
      /\ pcb_free = [i \in 1 .. MAX_NUM_PROCESSES - 1 |-> i + 1]
      /\ 1 \in PCB /\ MAX_NUM_PROCESSES \in Nat \ {0}
  BY MaxProcessesAssumption DEF ProcInit, PCB
<1>2. \A p \in PCB :
        /\ pcb[p].pid = 0 /\ pcb[p].parent = NULL /\ pcb[p].children = <<>>
        /\ pcb[p].status = IF p = 1 THEN "Running" ELSE "Created"
  BY DEF ProcInit
<1>3. Free = PCB \ {1}
  <2>1. Free = {i + 1 : i \in 1 .. MAX_NUM_PROCESSES - 1}
    BY <1>1 DEF Free, ToSet
  <2>2. \A p \in PCB \ {1} : p - 1 \in 1 .. MAX_NUM_PROCESSES - 1 /\ (p - 1) + 1 = p
    BY <1>1 DEF PCB
  <2>3. \A i \in 1 .. MAX_NUM_PROCESSES - 1 : i + 1 \in PCB \ {1}
    BY <1>1 DEF PCB
  <2> QED BY <2>1, <2>2, <2>3
<1>4. /\ LP!Proper(lists) /\ lists \in LL!Store
      /\ ReadyOnes = {} /\ Waiters = {} /\ Zombies = {} /\ Sleepers = {}
  <2>1. Lists(lists, {}, {}, {})
    <3>1. LP!Proper(LP!Empty) /\ \A h \in Heads : LP!Items(LP!Empty, h, Steps) = {}
      BY WalkIsLongEnough, LP!EmptyItems DEF Heads
    <3> QED BY <1>1, <3>1, SameOperations, SameItems DEF Lists, Heads
  <2>2. lists \in LL!Store
    BY <2>1, ListsFacts
  <2> QED BY <1>1, <2>1, <2>2 DEF Lists, ReadyOnes, Waiters, Zombies, Sleepers
<1>5. (\A p \in PCB : ChildrenOf(p) = {}) /\ Owned = {}
  <2>1. \A p \in PCB : ChildrenOf(p) = {}
    BY <1>2 DEF ChildrenOf, ToSet
  <2> QED BY <2>1 DEF Owned
<1>6. ProcTypeOK
  <2>1. pcb \in [PCB -> PCBRecord]
    <3>1. "Running" \in Statuses /\ "Created" \in Statuses
      BY DEF Statuses
    <3>2. /\ NULL \in PCB \cup {NULL} /\ <<>> \in Seq(PCB) /\ NoWait \in WaitArgs \cup {NoWait}
          /\ {} \in SUBSET {"SIGCHLD", "SIGHUP"} /\ 0 \in 0 .. MaxPid
      BY ProcConstantsAssumption
    <3>3. ASSUME NEW s \in Statuses
          PROVE  [pid |-> 0, status |-> s, parent |-> NULL, children |-> <<>>,
                  awaiting |-> NoWait, signals |-> {}] \in PCBRecord
      BY <3>2 DEF PCBRecord
    <3>4. pcb = [p \in PCB |-> [pid |-> 0, status |-> IF p = 1 THEN "Running" ELSE "Created",
                               parent |-> NULL, children |-> <<>>,
                               awaiting |-> NoWait, signals |-> {}]]
      BY DEF ProcInit
    <3> QED BY <3>1, <3>3, <3>4
  <2>2. KernelTypeOK /\ last_pid \in 0 .. MaxPid + 1
    BY <1>1, ProcConstantsAssumption DEF KernelTypeOK, Modes, NoValue
  <2>3. context \in [PCB -> {NoContext, InFunction, InBoot}]
    BY DEF ProcInit
  <2>4. pcb_free \in Seq(PCB)
    <3>1. \A i \in 1 .. MAX_NUM_PROCESSES - 1 : i + 1 \in PCB
      BY <1>1 DEF PCB
    <3> QED BY <1>1, <3>1
  <2> QED BY <1>1, <1>4, <2>1, <2>2, <2>3, <2>4 DEF ProcTypeOK, PCBRecord
<1>7. Placed /\ Found
  BY <1>1, <1>2, <1>3, <1>4, PCBsAreFinite DEF Placed, Found
<1>8. FreeOK
  <2>1. \A i, j \in DOMAIN pcb_free : pcb_free[i] = pcb_free[j] => i = j
    BY <1>1
  <2>2. \A p \in Free : pcb[p].status \in {"Created", "Zombie"}
    BY <1>2, <1>3
  <2>3. \A p \in PCB : pcb[p].children = <<>>
    BY <1>2
  <2> QED BY <2>1, <2>2, <2>3 DEF FreeOK
<1>9. Families
  <2>1. InitIsOld
    BY <1>1, <1>2, <1>3, PCBsAreFinite DEF InitIsOld
  <2>2. OwnedOnce
    BY <1>2 DEF OwnedOnce
  <2>3. PidsDiffer
    BY <1>1, <1>2, <1>3 DEF PidsDiffer
  <2> QED BY <1>2, <1>5, <2>1, <2>2, <2>3 DEF Families, OwnedAreLive, LiveAreOwned, OrphansHungUp
<1>10. Timers /\ PtrBlocks
  <2>1. InOrder(timer_list)
    BY <1>1 DEF InOrder
  <2>2. PtrBlocks
    BY <1>1, <1>5, FS_EmptySet DEF PtrBlocks
  <2> QED BY <1>4, <2>1, <2>2 DEF Timers
<1>11. NoLostWakeup
  BY <1>4 DEF NoLostWakeup, InList, Waiters, In, Steps
<1> QED BY <1>4, <1>6, <1>7, <1>8, <1>9, <1>10, <1>11 DEF ProcInv

(* Steps that stop the machine, or leave the process for the boot code. *)
LEMMA QuietSteps ==
  ASSUME ProcInv,
         \/ Dies \/ ExitHangs \/ FunctionReturns \/ BootCrashes \/ Shutdown
         \/ UNCHANGED <<procVars, kernelVars>>
  PROVE  ProcInv' /\ DeadStay /\ Answered /\ (Found => Found')
<1>1. UNCHANGED procVars /\ KernelTypeOK' /\ (InUser' => InUser)
  BY DEF Dies, Crash, ExitHangs, FunctionReturns, BootCrashes, Shutdown, kernelVars, InUser,
         KernelTypeOK, Modes, NoValue, ProcInv, ProcTypeOK
<1>2. ProcInv'
  BY <1>1, QuietStep
<1>3. DeadStay /\ (Found => Found')
  BY <1>1 DEF procVars, DeadStay, Found, ReadyOnes, In, Free
<1>4. Answered
  BY <1>1, WaitsGoOn DEF procVars, ChildrenOf
<1> QED BY <1>2, <1>3, <1>4

LEMMA EveryStep ==
  ASSUME ProcInv, [ProcNext]_<<procVars, kernelVars>>
  PROVE  ProcInv' /\ DeadStay /\ Answered /\ (Found /\ ~ (\E b \in PCB : Boot(b)) => Found')
<1>1. ASSUME NEW b \in PCB, Spawn(b) \/ Fork(b)
      PROVE  ProcInv' /\ DeadStay /\ Answered /\ (Found => Found')
  <2>1. context' \in [PCB -> {NoContext, InFunction, InBoot}]
    BY <1>1 DEF Spawn, Fork, ProcInv, ProcTypeOK
  <2> QED BY <1>1, <2>1, NewChildStep DEF Spawn, Fork
<1>2. ASSUME NEW k \in WaitArgs, Wait(k)
      PROVE  ProcInv' /\ DeadStay /\ Answered /\ (Found => Found')
  <2>1. CASE WaitNoChildren(k)
    BY <2>1, WaitNoChildrenStep
  <2>2. ASSUME NEW i, WaitReaps(k, i) PROVE ProcInv' /\ DeadStay /\ Answered /\ (Found => Found')
    BY <2>2, WaitReapsStep
  <2>3. ASSUME NEW i, WaitBlocks(k, i) PROVE ProcInv' /\ DeadStay /\ Answered /\ (Found => Found')
    BY <2>3, WaitBlocksStep
  <2>4. ASSUME NEW i, WaitNobodyReady(k, i) PROVE ProcInv' /\ DeadStay /\ Answered /\ (Found => Found')
    BY <2>4, QuietSteps DEF WaitNobodyReady
  <2> QED BY <1>2, <2>1, <2>2, <2>3, <2>4 DEF Wait
<1>3. ASSUME Exit PROVE ProcInv' /\ DeadStay /\ Answered /\ (Found => Found')
  <2>1. ASSUME NEW i, ExitWakesParent(i) PROVE ProcInv' /\ DeadStay /\ Answered /\ (Found => Found')
    BY <2>1, ExitWakesParentStep
  <2>2. CASE ExitSwitches
    BY <2>2, ExitSwitchesStep
  <2>3. CASE ExitHangs \/ ExitNoParent \/ ExitNobodyReady \/ ExitToStranger
    BY <2>3, QuietSteps DEF ExitNoParent, ExitNobodyReady, ExitToStranger
  <2> QED BY <1>3, <2>1, <2>2, <2>3 DEF Exit
<1>4. ASSUME NEW n \in SleepTimes, SleepSwitches(n) \/ SleepNobodyReady(n)
      PROVE  ProcInv' /\ DeadStay /\ Answered /\ (Found => Found')
  BY <1>4, SleepStep
<1>5. CASE SpawnNoBlock \/ Shutdown \/ FunctionReturns \/ BootCrashes
           \/ UNCHANGED <<procVars, kernelVars>>
  BY <1>5, QuietSteps DEF SpawnNoBlock
<1>6. CASE Preempt \/ TimerInterrupt
  BY <1>6, PreemptStep, TimerInterruptStep
<1>7. ASSUME NEW b \in PCB, Boot(b) PROVE ProcInv' /\ DeadStay /\ Answered
  BY <1>7, BootStep
<1>8. \/ \E b \in PCB : Spawn(b) \/ Fork(b)
      \/ \E k \in WaitArgs : Wait(k)
      \/ Exit
      \/ \E n \in SleepTimes : SleepSwitches(n) \/ SleepNobodyReady(n)
      \/ SpawnNoBlock \/ Shutdown \/ FunctionReturns \/ BootCrashes
      \/ UNCHANGED <<procVars, kernelVars>>
      \/ Preempt \/ TimerInterrupt
      \/ \E b \in PCB : Boot(b)
  BY DEF ProcNext, Syscall
<1> QED BY <1>1, <1>2, <1>3, <1>4, <1>5, <1>6, <1>7, <1>8

THEOREM ProcInvariant == ProcSpec => []ProcInv
<1>1. ProcInit => ProcInv
  BY Start
<1>2. ProcInv /\ [ProcNext]_<<procVars, kernelVars>> => ProcInv'
  BY EveryStep
<1> QED BY <1>1, <1>2, PTL DEF ProcSpec

---------------------------------------------------------------------------
(* What the invariant implies. *)
LEMMA NamedLists ==
  /\ InList("ready") = ReadyOnes /\ InList("waiting") = Waiters /\ InList("zombie") = Zombies
BY DEF InList, ReadyOnes, Waiters, Zombies, In, Steps

LEMMA AtMostOne ==
  ASSUME NEW S, NEW x, S \subseteq {x}
  PROVE  Cardinality(S) \in {0, 1} /\ (x \notin S => Cardinality(S) = 0) /\ (x \in S => Cardinality(S) = 1)
<1>1. S = {} \/ S = {x}
  OBVIOUS
<1> QED BY <1>1, FS_EmptySet, FS_Singleton

LEMMA InvImpliesListsOK ==
  ASSUME ProcInv
  PROVE  ListsOK
<1>1. \A h \in Heads : LL!Holds(lists, h, LL!Walk(lists, h, Steps))
  BY Basics, ListsFacts
<1>2. ASSUME NEW p \in PCB
      PROVE  Cardinality({h \in Heads : p \in InList(h)})
               + (IF p = running THEN 1 ELSE 0) + (IF p \in Free THEN 1 ELSE 0) <= 1
  <2> DEFINE S == {h \in Heads : p \in InList(h)}
  <2>1. /\ \A h \in S : h \in Heads /\ p \in InList(h)
        /\ \A h \in Heads : p \in InList(h) => h \in S
    OBVIOUS
  <2>2. /\ ReadyOnes \cap Waiters = {} /\ ReadyOnes \cap Zombies = {} /\ Waiters \cap Zombies = {}
    BY Basics
  <2>3. p \in ReadyOnes \cup Waiters \cup Zombies => p # running /\ p \notin Free
    BY DEF ProcInv, Placed
  <2>4. running \notin Free
    BY DEF ProcInv, Placed
  <2>5. S = IF p \in ReadyOnes THEN {"ready"} ELSE IF p \in Waiters THEN {"waiting"}
            ELSE IF p \in Zombies THEN {"zombie"} ELSE {}
    BY <2>2, NamedLists DEF Heads
  <2> HIDE DEF S
  <2>6. CASE p \in ReadyOnes \cup Waiters \cup Zombies
    <3>1. \E h : S = {h}
      BY <2>5, <2>6
    <3>2. Cardinality(S) = 1
      BY <3>1, FS_Singleton
    <3> QED BY <2>3, <2>6, <3>2 DEF S
  <2>7. CASE p \notin ReadyOnes \cup Waiters \cup Zombies
    <3>1. Cardinality(S) = 0
      BY <2>5, <2>7, FS_EmptySet
    <3> QED BY <2>4, <3>1 DEF S
  <2> QED BY <2>6, <2>7
<1>3. /\ \A p \in InList("ready")   : pcb[p].status = "Ready"
      /\ \A p \in InList("waiting") : pcb[p].status = "Waiting"
      /\ \A p \in PCB : p \in InList("zombie") <=> pcb[p].status = "Zombie" /\ p \notin Free
      /\ running # NULL => pcb[running].status \in {"Running", "Ready"}
  <2>1. Waiters \in SUBSET PCB
    BY Basics
  <2> QED BY <2>1, NamedLists DEF ProcInv, Placed
<1> QED BY <1>1, <1>2, <1>3 DEF ListsOK, Heads, Steps

LEMMA InvImpliesWakeup ==
  ASSUME ProcInv
  PROVE  WaitersHaveAWakeup
<1>1. ASSUME NEW p \in Waiters, p \notin Sleepers, ~ AsksForStranger(p)
      PROVE  \/ \E c \in OwnChildren(p) : AsksFor(p, c) /\ pcb[c].status # "Zombie"
             \/ pcb[p].parent = NULL /\ \E c \in ChildrenOf(p) \ OwnChildren(p) : AsksFor(p, c)
  <2>1. p \in PCB \ Free /\ pcb[p].awaiting \in WaitArgs \cup {NoWait}
    BY <1>1, Basics DEF ProcInv, Placed, PCBRecord
  <2>2. pcb[p].awaiting # NoWait /\ ChildrenOf(p) # {}
    BY <1>1 DEF ProcInv, Timers
  <2>3. pcb[p].awaiting = 0 \/ pcb[p].awaiting > 0
    BY <2>1, <2>2, ProcConstantsAssumption DEF WaitArgs
  <2>4. PICK c \in ChildrenOf(p) : AsksFor(p, c)
    BY <1>1, <2>2, <2>3 DEF AsksForStranger, AsksFor
  <2>5. CASE pcb[c].parent = p
    <3>1. pcb[c].status # "Zombie"
      BY <1>1, <2>4, <2>5, NamedLists DEF ProcInv, NoLostWakeup, AsksFor
    <3> QED BY <2>4, <2>5, <3>1 DEF OwnChildren
  <2>6. CASE pcb[c].parent # p
    <3>1. pcb[p].parent = NULL
      BY <2>1, <2>6 DEF ProcInv, Families, OrphansHungUp
    <3> QED BY <2>4, <2>6, <3>1 DEF OwnChildren
  <2> QED BY <2>5, <2>6
<1>2. /\ Sleepers \subseteq Waiters /\ InOrder(timer_list)
      /\ \A p \in Waiters : p \in Sleepers <=> pcb[p].awaiting = NoWait
  BY DEF ProcInv, Timers
<1> QED BY <1>1, <1>2, NamedLists DEF WaitersHaveAWakeup, InOrder

(* A PCBPtr in a list of children is the only one for its process. *)
LEMMA InvImpliesPools ==
  ASSUME ProcInv
  PROVE  PoolsConsistent
<1> DEFINE places == UNION {{p} \X DOMAIN pcb[p].children : p \in PCB}
           child  == [s \in places |-> pcb[s[1]].children[s[2]]]
<1>1. IsFiniteSet(Owned)
  BY Basics, PCBsAreFinite, FS_Subset
<1>2. \A s \in places : s[1] \in PCB /\ s[2] \in DOMAIN pcb[s[1]].children /\ s = <<s[1], s[2]>>
  OBVIOUS
<1>3. child \in Injection(places, Owned)
  <2>1. \A s \in places : child[s] \in Owned
    <3> TAKE s \in places
    <3>1. s[1] \in PCB /\ s[2] \in DOMAIN pcb[s[1]].children /\ child[s] = pcb[s[1]].children[s[2]]
      BY <1>2
    <3> QED BY <3>1, Basics
  <2>2. \A s, t \in places : child[s] = child[t] => s = t
    <3> SUFFICES ASSUME NEW s \in places, NEW t \in places, child[s] = child[t]
                 PROVE  s = t
      OBVIOUS
    <3>1. s[1] = t[1] /\ s[2] = t[2]
      <4>1. pcb[s[1]].children[s[2]] = pcb[t[1]].children[t[2]]
        OBVIOUS
      <4> QED BY <1>2, <4>1 DEF ProcInv, Families, OwnedOnce
    <3> QED BY <1>2, <3>1
  <2>3. child = [s \in places |-> child[s]]
    OBVIOUS
  <2> HIDE DEF child, places
  <2> QED BY <2>1, <2>2, <2>3 DEF Injection, IsInjective
<1> HIDE DEF child, places
<1>4. IsFiniteSet(places) /\ Cardinality(places) <= Cardinality(Owned)
  BY <1>1, <1>3, FS_Injection
<1>5. Cardinality(places) \in Nat /\ Cardinality(Owned) \in Nat
  BY <1>1, <1>4, FS_CardinalityType
<1>6. pcbptr_free + Cardinality(Owned) <= MAX_NUM_PROCESSES /\ pcbptr_free \in 0 .. MAX_NUM_PROCESSES
  BY DEF ProcInv, PtrBlocks, ProcTypeOK
<1>7. pcbptr_free + Cardinality(places) <= MAX_NUM_PROCESSES
  BY <1>4, <1>5, <1>6, PCBsAreFinite
<1> QED BY <1>7 DEF PoolsConsistent, ProcInv, FreeOK, places

LEMMA InvImpliesOneOwner ==
  ASSUME ProcInv
  PROVE  EveryChildHasOneOwner
<1> DEFINE owners(c) == {owner \in (PCB \ Free) \X (1 .. MAX_NUM_PROCESSES) :
                           /\ owner[2] \in DOMAIN pcb[owner[1]].children
                           /\ pcb[owner[1]].children[owner[2]] = c}
<1>1. ASSUME NEW c \in PCB \ Free
      PROVE  Cardinality(owners(c)) = IF pcb[c].parent = NULL THEN 0 ELSE 1
  <2>1. CASE pcb[c].parent = NULL
    <3>1. c \notin Owned
      BY <2>1 DEF ProcInv, Families, OwnedAreLive
    <3>2. owners(c) = {}
      <4> SUFFICES ASSUME NEW s \in owners(c) PROVE FALSE
        OBVIOUS
      <4>1. s[1] \in PCB /\ s[2] \in DOMAIN pcb[s[1]].children /\ pcb[s[1]].children[s[2]] = c
        OBVIOUS
      <4> QED BY <3>1, <4>1, Basics
    <3> QED BY <2>1, <3>2, FS_EmptySet
  <2>2. CASE pcb[c].parent # NULL
    <3>1. c \in Owned
      BY <2>2 DEF ProcInv, Families, LiveAreOwned
    <3>2. PICK p \in PCB : c \in ChildrenOf(p)
      BY <3>1, Basics
    <3>3. PICK i \in DOMAIN pcb[p].children : c = pcb[p].children[i]
      BY <3>2, Basics
    <3>4. p \notin Free
      <4>1. pcb[p].children \in Seq(PCB) /\ pcb[p].children # <<>>
        BY <3>3, Basics
      <4> QED BY <4>1 DEF ProcInv, FreeOK
    <3>5. i \in 1 .. MAX_NUM_PROCESSES
      <4> DEFINE q == pcb[p].children
      <4>1. q \in Seq(PCB) /\ i \in 1 .. Len(q) /\ \A j, l \in 1 .. Len(q) : q[j] = q[l] => j = l
        BY <3>3, Basics DEF ProcInv, Families, OwnedOnce
      <4> HIDE DEF q
      <4>2. Len(q) <= MAX_NUM_PROCESSES
        BY <4>1, ShortSequences
      <4>3. Len(q) \in Nat
        BY <4>1
      <4> QED BY <4>1, <4>2, <4>3, PCBsAreFinite
    <3>6. \A s \in owners(c) : s = <<p, i>>
      <4> SUFFICES ASSUME NEW s \in owners(c) PROVE s = <<p, i>>
        OBVIOUS
      <4>1. /\ s[1] \in PCB /\ s[2] \in DOMAIN pcb[s[1]].children /\ pcb[s[1]].children[s[2]] = c
            /\ s = <<s[1], s[2]>>
        OBVIOUS
      <4>2. s[1] = p /\ s[2] = i
        BY <3>3, <4>1 DEF ProcInv, Families, OwnedOnce
      <4> QED BY <4>1, <4>2
    <3>7. <<p, i>> \in owners(c)
      BY <3>3, <3>4, <3>5
    <3> HIDE DEF owners
    <3>8. Cardinality(owners(c)) = 1
      BY <3>6, <3>7, AtMostOne
    <3> QED BY <2>2, <3>8
  <2> QED BY <2>1, <2>2
<1>2. ASSUME NEW p \in PCB, ChildrenOf(p) # {}
      PROVE  p \notin Free /\ ChildrenOf(p) \cap Free = {}
  <2>1. PICK c \in ChildrenOf(p) : TRUE
    BY <1>2
  <2>2. pcb[p].children \in Seq(PCB) /\ pcb[p].children # <<>>
    BY <2>1, Basics
  <2>3. ChildrenOf(p) \subseteq Owned
    BY Basics
  <2> QED BY <2>2, <2>3 DEF ProcInv, FreeOK, Families, OwnedAreLive
<1>3. \A p, q \in PCB \ Free : p # q => pcb[p].pid # pcb[q].pid
  BY DEF ProcInv, Families, PidsDiffer
<1> QED BY <1>1, <1>2, <1>3 DEF EveryChildHasOneOwner

---------------------------------------------------------------------------
(* The theorems. *)

(* Every field keeps a value of its kind, whatever is called. *)
THEOREM ProcTypes == ProcSpec => []ProcTypeOK
<1>1. ProcInv => ProcTypeOK
  BY DEF ProcInv
<1> QED BY <1>1, ProcInvariant, PTL

(* The ready, waiting and zombie lists stay proper, a PCB is in at most    *)
(* one of them, in the pool, or running, and has the status that goes with *)
(* it: List_insert and List_detach, which test nothing, are only called    *)
(* where they may be.                                                      *)
THEOREM ListsStayProper == ProcSpec => []ListsOK
<1> QED BY InvImpliesListsOK, ProcInvariant, PTL

(* A process that waits has one timer, or a live child of its own whose    *)
(* exit will find that it waits for it.  The two exceptions the code makes *)
(* are part of the statement: a wait for a pid that is no child's, and an  *)
(* init process that waits for a child it adopted.                         *)
THEOREM WaitersCanWake == ProcSpec => []WaitersHaveAWakeup
<1> QED BY InvImpliesWakeup, ProcInvariant, PTL

(* A wait that has blocked ends in one way only: a child of the caller's   *)
(* own that it asked for exits, and its pid is what the caller gets.       *)
THEOREM WaitsAreAnsweredAsAsked == ProcSpec => AnsweredAsAsked
<1>1. ProcInv /\ [ProcNext]_<<procVars, kernelVars>> =>
        [\A p \in PCB : pcb[p].status = "Waiting" /\ pcb[p].awaiting # NoWait =>
           \/ /\ pcb'[p].status = "Waiting" /\ pcb'[p].awaiting = pcb[p].awaiting
              /\ ChildrenOf(p) \subseteq ChildrenOf(p)'
           \/ /\ running \in OwnChildren(p) /\ AsksFor(p, running)
              /\ running' = p /\ retval' = pcb[running].pid
              /\ ChildrenOf(p) \ ChildrenOf(p)' = {running}
        ]_<<procVars, kernelVars>>
  BY EveryStep DEF Answered
<1> QED BY <1>1, ProcInvariant, PTL DEF ProcSpec, AnsweredAsAsked

(* Neither PCBs nor PCBPtrs are handed out twice.                          *)
THEOREM PoolsStayConsistent == ProcSpec => []PoolsConsistent
<1> QED BY InvImpliesPools, ProcInvariant, PTL

(* Exit and wait, in either order, never leave a parent waiting for a      *)
(* child of its own that is a zombie already.                              *)
THEOREM NoWakeupIsLost == ProcSpec => []NoLostWakeup
<1>1. ProcInv => NoLostWakeup
  BY DEF ProcInv
<1> QED BY <1>1, ProcInvariant, PTL

(* A live process that has a parent is in exactly one list of children, of *)
(* a live process, and pids tell the live processes apart.                 *)
THEOREM EveryChildIsOwned == ProcSpec => []EveryChildHasOneOwner
<1> QED BY InvImpliesOneOwner, ProcInvariant, PTL

(* An orphan is init's, and was told so. *)
THEOREM OrphansAreHungUp == ProcSpec => []OrphansHungUp
<1>1. ProcInv => OrphansHungUp
  BY DEF ProcInv, Families
<1> QED BY <1>1, ProcInvariant, PTL

(* No step gives a process that has called exit another status before its  *)
(* block is reused.                                                        *)
THEOREM DeadStayDeadAlways == ProcSpec => DeadStayDead
<1>1. ProcInv /\ [ProcNext]_<<procVars, kernelVars>> =>
        [\A p \in PCB \ Free :
           pcb[p].status = "Zombie" => pcb'[p].status = "Zombie"]_<<procVars, kernelVars>>
  BY EveryStep DEF DeadStay
<1> QED BY <1>1, ProcInvariant, PTL DEF ProcSpec, DeadStayDead

(* Each death is reported once: the block of a process is freed only while *)
(* its pid is handed to the process that had it among its children, and    *)
(* has it no more.                                                         *)
THEOREM DeathsAreReported == ProcSpec => DeathsReported
<1>1. ProcInv /\ [ProcNext]_<<procVars, kernelVars>> =>
        [\A c \in PCB \ Free : c \in Free' =>
           /\ retval' = pcb[c].pid
           /\ c \in ToSet(pcb[running'].children) /\ c \notin ToSet(pcb'[running'].children)
        ]_<<procVars, kernelVars>>
  BY StepReports DEF Reported
<1> QED BY <1>1, ProcInvariant, PTL DEF ProcSpec, DeathsReported

(* However many sleep, nobody wakes early, no signal passes over a timer   *)
(* that is due, and the first that is due runs at once.                    *)
THEOREM SleepersWakeOnTime == ProcSpec => WakesOnTime
<1>1. ProcInv /\ [ProcNext]_<<procVars, kernelVars>> =>
        [/\ \A i \in DOMAIN timer_list :
              timer_list[i].pcb \notin Sleepers' =>
                timer_list[i].left <= IF TimerInterrupt THEN 1 ELSE 0
         /\ TimerInterrupt =>
              /\ \A i \in DOMAIN timer_list' : timer_list'[i].left > 0
              /\ timer_list # <<>> /\ timer_list[1].left <= 1 => running' = timer_list[1].pcb
        ]_<<procVars, kernelVars>>
  BY StepOnTime DEF OnTime
<1> QED BY <1>1, ProcInvariant, PTL DEF ProcSpec, WakesOnTime

(* As long as boot code makes no second init process, every process that   *)
(* can run is running or in the ready list.                                *)
OneBootSpec == ProcInit /\ [][ProcNext /\ ~ (\E b \in PCB : Boot(b))]_<<procVars, kernelVars>>

THEOREM NobodyIsLost == OneBootSpec => []NobodyLost
<1>1. ProcInit => ProcInv /\ Found
  BY Start
<1>2. ProcInv /\ Found /\ [ProcNext /\ ~ (\E b \in PCB : Boot(b))]_<<procVars, kernelVars>>
        => ProcInv' /\ Found'
  <2> SUFFICES ASSUME ProcInv, Found,
                      [ProcNext /\ ~ (\E b \in PCB : Boot(b))]_<<procVars, kernelVars>>
               PROVE  ProcInv' /\ Found'
    OBVIOUS
  <2>1. CASE UNCHANGED <<procVars, kernelVars>>
    BY <2>1, QuietSteps
  <2>2. CASE ProcNext /\ ~ (\E b \in PCB : Boot(b))
    BY <2>2, EveryStep
  <2> QED BY <2>1, <2>2
<1>3. ProcInv /\ Found => NobodyLost
  BY NamedLists DEF Found, NobodyLost
<1> QED BY <1>1, <1>2, <1>3, PTL DEF OneBootSpec
=============================================================================
