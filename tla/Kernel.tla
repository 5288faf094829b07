------------------------------ MODULE Kernel ------------------------------
(***************************************************************************)
(* What every part of disastrOS shares: the pool of process control        *)
(* blocks, the error codes and open flags of disastrOS_constants.h, and    *)
(* how a system call ends.  A system call runs in trap_context with the    *)
(* timer signal masked, so each call is one step; the step either returns  *)
(* a value to its caller or dereferences a null pointer and the whole      *)
(* program dies.                                                           *)
(***************************************************************************)
EXTENDS Integers, Sequences, FiniteSets

CONSTANT MAX_NUM_PROCESSES   \* blocks of the PCB pool

ASSUME MaxProcessesAssumption == MAX_NUM_PROCESSES \in Nat \ {0}

PCB  == 1 .. MAX_NUM_PROCESSES
NULL == 0                    \* the null PCB pointer

(* Error codes: the negative values a system call returns. *)
DSOS_EWAIT             == -5
DSOS_ESLEEP            == -7
DSOS_ERESOURCECREATE   == -8
DSOS_ERESOURCEOPEN     == -9
DSOS_ERESOURCENOEXCL   == -10
DSOS_ERESOURCENOFD     == -11
DSOS_ERESOURCECLOSE    == -12
DSOS_ERESOURCEINUSE    == -13
DSOS_ESEMAPHORECREATE  == -14
DSOS_ESEMAPHOREOPEN    == -15
DSOS_ESEMAPHORENOEXCL  == -16
DSOS_ESEMAPHOREWAIT    == -17
DSOS_ESEMAPHORECLOSE   == -19

(* Open flags, as the sets of the bits the constants have set.  DSOS_WRITE *)
(* is 0x3: it has the bits of DSOS_CREATE and of DSOS_READ.                *)
DSOS_CREATE == {0}
DSOS_READ   == {1}
DSOS_WRITE  == {0, 1}
DSOS_EXCL   == {2}
FlagSets    == SUBSET (0 .. 2)

(* The C test (oflag & flag). *)
Has(oflag, flag) == oflag \cap flag # {}

NoValue == -128              \* what no call returns: the process has not come back from one

VARIABLES
  mode,      \* what the machine does: user code, the boot code, or it has stopped
  retval     \* the value the last system call handed to the process that runs

kernelVars == <<mode, retval>>

(* "user": a process runs.  "booting": disastrOS_start builds an init      *)
(* process.  "crashed": SIGSEGV or a failed assert ended the program.      *)
(* "hung": a kernel loop never ends.  "off": shutdown.                     *)
Modes     == {"user", "booting", "crashed", "hung", "off"}

KernelTypeOK == mode \in Modes /\ retval \in Int

InUser == mode = "user"

(* running->syscall_retvalue = v; the trap returns to the caller. *)
Return(v) == InUser /\ mode' = "user" /\ retval' = v

(* A null dereference in kernel code.  What the handler had written before *)
(* it is gone with the program, so the rest of the state stays as it was.  *)
Crash == InUser /\ mode' = "crashed" /\ retval' = NoValue

(* Nothing runs any more: the program has ended, or spins in the kernel. *)
Stopped == mode \in {"crashed", "hung", "off"}
===========================================================================
