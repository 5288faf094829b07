--------------------------- MODULE SemaphoreTest ---------------------------
(***************************************************************************)
(* The test program disastrOS_semaphore_test.c on the kernel: init creates *)
(* four semaphores, spawns a producer and a consumer that share a circular *)
(* buffer, waits for both and shuts down.                                  *)
(*                                                                         *)
(* Each job is a list of steps and each process has a place in its list; a *)
(* step is one system call, or one access to the variables the processes   *)
(* share, so that the timer signal can come between any two.  An fd is     *)
(* kept in a C variable: the jobs declare variables of their own with the  *)
(* names of some of the global ones, and the others are init's.            *)
(***************************************************************************)
EXTENDS DisastrOS

CONSTANTS
  BUFFER_SIZE, TRANSACTIONS_NUMBER,
  Rounds               \* how often the consumer consumes: 100

VARIABLES
  job, pc,             \* what each process is, and the step it is at
  i,                   \* its counter; init's is alive_children
  failing,             \* whether ERROR_HANDLER is about to exit
  own, global,         \* the fds in the variables of a process, and in the global ones
  transactions, write_index, read_index, deposit

bufferVars == <<transactions, write_index, read_index, deposit>>
placeVars  == <<job, pc, i, failing>>
progVars   == <<placeVars, own, global, bufferVars>>

EMPTY_SEM_ID     == 0
FILL_SEM_ID      == 1
PRODUCERS_SEM_ID == 2
CONSUMERS_SEM_ID == 3

IdOf == [empty_sem |-> EMPTY_SEM_ID, fill_sem |-> FILL_SEM_ID,
         producers_sem |-> PRODUCERS_SEM_ID, consumers_sem |-> CONSUMERS_SEM_ID]
Names == DOMAIN IdOf

Declares == [initFunction |-> {}, producerJob |-> {"empty_sem", "producers_sem"},
             consumerJob |-> {"fill_sem", "consumers_sem"}]

(* The fd in variable v as process p sees it. *)
Value(p, v) == IF v \in Declares[job[p]] THEN own[p][v] ELSE global[v]

---------------------------------------------------------------------------
(* The steps.  `checks` is the variable an open hands to ERROR_HANDLER:    *)
(* init always tests empty_sem.                                            *)
Create(v, n)    == [do |-> "open", sem |-> v, oflag |-> DSOS_CREATE \cup DSOS_EXCL, count |-> n,
                    checks |-> "empty_sem"]
Open(v)         == [do |-> "open", sem |-> v, oflag |-> {}, count |-> 0, checks |-> v]
Sem(call, v)    == [do |-> call, sem |-> v]
SpawnJob(j)     == [do |-> "spawn", job |-> j]
While(n, past)  == [do |-> "while", limit |-> n, past |-> past]     \* i < n, else go past
Add(n, next)    == [do |-> "add", n |-> n, next |-> next]           \* i += n
Do(what)        == [do |-> what]

initFunction ==
  <<Create("empty_sem", BUFFER_SIZE), Create("fill_sem", 0),
    Create("producers_sem", 1), Create("consumers_sem", 1),
    SpawnJob("producerJob"), Add(1, 7), SpawnJob("consumerJob"), Add(1, 9),
    [do |-> "wait child", past |-> 11], Add(-1, 9),
    Sem("close", "empty_sem"), Sem("close", "fill_sem"),
    Sem("close", "producers_sem"), Sem("close", "consumers_sem"), Do("shutdown")>>

producerJob ==
  <<Open("empty_sem"), Open("producers_sem"), While(TRANSACTIONS_NUMBER, 12),
    Sem("wait", "empty_sem"), Sem("wait", "producers_sem"), Do("store"), Do("advance write"),
    Sem("post", "producers_sem"), Add(1, 10), Sem("post", "fill_sem"), Add(1, 3),
    Sem("close", "empty_sem"), Sem("close", "producers_sem"), Do("exit"), Do("return")>>

consumerJob ==
  <<Open("fill_sem"), Open("consumers_sem"), While(Rounds, 11),
    Sem("wait", "fill_sem"), Sem("wait", "consumers_sem"), Do("take"), Do("advance read"),
    Sem("post", "consumers_sem"), Sem("post", "empty_sem"), Add(1, 3),
    Sem("close", "fill_sem"), Sem("close", "consumers_sem"), Do("exit"), Do("return")>>

Code == [initFunction |-> initFunction, producerJob |-> producerJob, consumerJob |-> consumerJob]
Step(p)  == Code[job[p]][pc[p]]
At(p, what) == Calls(p) /\ ~ failing[p] /\ Step(p).do = what

---------------------------------------------------------------------------
Goes(p, n) == pc' = [pc EXCEPT ![p] = n] /\ UNCHANGED <<job, i>>
GoesOn(p)  == Goes(p, pc[p] + 1)

(* ERROR_HANDLER(ret, msg): exit(1) is the next thing p does. *)
Checks(p, ret) == failing' = [failing EXCEPT ![p] = ret < 0]

Opens(p) ==
  LET c == Step(p) IN
    /\ At(p, "open") /\ OpenCall(p, IdOf[c.sem], c.oflag, c.count)
    /\ IF c.sem \in Declares[job[p]]
       THEN own' = [own EXCEPT ![p][c.sem] = retval'] /\ UNCHANGED global
       ELSE global' = [global EXCEPT ![c.sem] = retval'] /\ UNCHANGED own
    /\ Checks(p, IF c.checks = c.sem THEN retval' ELSE Value(p, c.checks))
    /\ GoesOn(p) /\ UNCHANGED <<resVars, bufferVars>>

CallsSemaphore(p) ==
  /\ \/ At(p, "wait")  /\ WaitCall(p, Value(p, Step(p).sem))
     \/ At(p, "post")  /\ PostCall(p, Value(p, Step(p).sem))
     \/ At(p, "close") /\ CloseCall(p, Value(p, Step(p).sem))
  /\ Checks(p, retval') /\ GoesOn(p)
  /\ UNCHANGED <<resVars, own, global, bufferVars>>

SpawnsChild(p) ==
  /\ At(p, "spawn")
  /\ \E b \in PCB :
       /\ Spawn(b) /\ Allocates(b)
       /\ job' = [job EXCEPT ![b] = Step(p).job]
       /\ pc' = [pc EXCEPT ![p] = @ + 1, ![b] = 1] /\ i' = [i EXCEPT ![b] = 0]
       /\ failing' = [failing EXCEPT ![b] = FALSE]
  /\ UNCHANGED <<own, global, bufferVars>>

SpawnFails(p) == At(p, "spawn") /\ SpawnNoBlock /\ Alone /\ UNCHANGED progVars

(* while (alive_children > 0 && wait(...) >= 0) *)
WaitsForChild(p) ==
  /\ At(p, "wait child") /\ UNCHANGED <<own, global, failing, bufferVars>>
  /\ \/ i[p] > 0 /\ Wait(0) /\ Alone
        /\ IF retval' = DSOS_EWAIT THEN Goes(p, Step(p).past) ELSE GoesOn(p)
     \/ i[p] = 0 /\ UNCHANGED vars /\ Goes(p, Step(p).past)

Counts(p) ==
  /\ UNCHANGED <<vars, job, own, global, failing, bufferVars>>
  /\ \/ At(p, "add") /\ pc' = [pc EXCEPT ![p] = Step(p).next]
        /\ i' = [i EXCEPT ![p] = @ + Step(p).n]
     \/ At(p, "while") /\ UNCHANGED i
        /\ pc' = [pc EXCEPT ![p] = IF i[p] < Step(p).limit THEN @ + 1 ELSE Step(p).past]

UsesBuffer(p) ==
  /\ \/ At(p, "store") /\ transactions' = [transactions EXCEPT ![write_index] = 1]
        /\ UNCHANGED <<write_index, read_index, deposit>>
     \/ At(p, "advance write") /\ write_index' = (write_index + 1) % BUFFER_SIZE
        /\ UNCHANGED <<transactions, read_index, deposit>>
     \/ At(p, "take") /\ deposit' = deposit + transactions[read_index]
        /\ UNCHANGED <<transactions, write_index, read_index>>
     \/ At(p, "advance read") /\ read_index' = (read_index + 1) % BUFFER_SIZE
        /\ UNCHANGED <<transactions, write_index, deposit>>
  /\ GoesOn(p) /\ UNCHANGED <<vars, own, global, failing>>

(* A process that runs again after its exit goes on where it was. *)
ExitsJob(p) ==
  /\ \/ failing[p] /\ Calls(p) /\ UNCHANGED pc
     \/ At(p, "exit") /\ pc' = [pc EXCEPT ![p] = @ + 1]
  /\ Exits(p) /\ failing' = [failing EXCEPT ![p] = FALSE]
  /\ UNCHANGED <<job, i, own, global, bufferVars>>

Finishes(p) ==
  /\ \/ At(p, "shutdown") /\ Shutdown
     \/ At(p, "return") /\ FunctionReturns
  /\ Alone /\ UNCHANGED progVars

Interrupted == TimerInterrupt /\ Alone /\ UNCHANGED progVars

(* disastrOS_start runs the program from the start in a new init process. *)
BootsProgram ==
  \/ /\ \E b \in PCB :
          /\ Boots(b)
          /\ job' = [job EXCEPT ![b] = "initFunction"] /\ pc' = [pc EXCEPT ![b] = 1]
          /\ i' = [i EXCEPT ![b] = 0] /\ failing' = [failing EXCEPT ![b] = FALSE]
     /\ UNCHANGED <<own, global, bufferVars>>
  \/ BootCrashes /\ Alone /\ UNCHANGED progVars

TestInit ==
  /\ Init
  /\ job = [p \in PCB |-> "initFunction"] /\ pc = [p \in PCB |-> 1]
  /\ i = [p \in PCB |-> 0] /\ failing = [p \in PCB |-> FALSE]
  /\ own = [p \in PCB |-> [v \in Names |-> 0]] /\ global = [v \in Names |-> 0]
  /\ transactions = [n \in 0 .. BUFFER_SIZE - 1 |-> 0]
  /\ write_index = 0 /\ read_index = 0 /\ deposit = 0

TestNext ==
  \/ \E p \in PCB :
       \/ Opens(p) \/ CallsSemaphore(p) \/ SpawnsChild(p) \/ SpawnFails(p) \/ WaitsForChild(p)
       \/ Counts(p) \/ UsesBuffer(p) \/ ExitsJob(p) \/ Finishes(p)
  \/ Interrupted \/ BootsProgram
  \/ Stopped /\ UNCHANGED <<vars, progVars>>

TestSpec == TestInit /\ [][TestNext]_<<vars, progVars>>

---------------------------------------------------------------------------
(* A wait or a post on a semaphore variable reaches the semaphore of that  *)
(* name.  The message of the producer's last post is "Error posting        *)
(* fill_sem in producerJob" (semaphore_test.c:67).                         *)
NamesMeanSemaphores ==
  \A p \in PCB : At(p, "wait") \/ At(p, "post") =>
    \E k \in DOMAIN sem_descriptors[p] :
      /\ ByFd(p, Value(p, Step(p).sem), k)
      /\ sem_id[desc_sem[sem_descriptors[p][k]]] = IdOf[Step(p).sem]
===========================================================================
