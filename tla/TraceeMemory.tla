---------------------------- MODULE TraceeMemory ----------------------------
(***************************************************************************)
(* The address space of a ptrace-stopped tracee, as the tracer sees it     *)
(* through the two kernel interfaces pinktrace uses: ptrace(2) peeks and   *)
(* pokes (one aligned long at a time, wrapped by pink_ptrace) and          *)
(* process_vm_readv/writev(2) (one iovec).  The tracee is stopped but the  *)
(* memory is not frozen: a sibling thread that shares it may store to it   *)
(* or unmap a page, credentials may change, and SIGKILL may end the tracee *)
(* between any two system calls of the tracer.                             *)
(***************************************************************************)
EXTENDS Integers, FiniteSets

CONSTANTS
  WordSize,   (* sizeof(long)                                            *)
  PageSize,   (* size of a page: the 4096 of vm.c                        *)
  UserTop,    (* user addresses are 0 .. UserTop-1                       *)
  AbiSpan,    (* 2^(8 * word size of the tracee's ABI)                   *)
  LongSpan,   (* 2^(8 * sizeof(long)): an address argument is a long     *)
  MaxByte,    (* bytes are 0 .. MaxByte; MaxByte plays 0xff              *)
  Images,     (* the initial contents of memory that are considered      *)
  MaxStores   (* bound on the stores of sibling threads                  *)

Addr == 0 .. UserTop - 1
Long == 0 .. LongSpan - 1
Byte == 0 .. MaxByte

ASSUME MemoryAssumption ==
  /\ WordSize \in Nat \ {0}
  /\ PageSize \in Nat \ {0}
  /\ UserTop \in Nat /\ AbiSpan \in Nat \ {0} /\ LongSpan \in Nat
  /\ UserTop <= AbiSpan /\ AbiSpan <= LongSpan
  (* the top of the address space belongs to the kernel: stepping over the *)
  (* last user word never wraps around                                     *)
  /\ UserTop + WordSize <= LongSpan
  /\ MaxByte \in Nat \ {0}
  /\ Images \subseteq [Addr -> Byte]
  /\ MaxStores \in Nat

VARIABLES
  mem,      (* contents of the address space                             *)
  mapped,   (* the pages that are mapped                                 *)
  alive,    (* FALSE once the tracee was killed                          *)
  xattach,  (* "ok", or the errno process_vm_readv/writev always gives   *)
  stores,   (* number of stores of sibling threads so far                *)
  errno     (* errno of the tracer's thread                              *)

memVars == <<mem, mapped, alive, xattach, stores>>

Pages == {a \div PageSize : a \in Addr}

(* Errno values are names; None is errno 0. *)
None == "0"
Errno == {None, "EFAULT", "ESRCH", "ENOSYS", "EPERM"}

MIN(a, b) == IF a < b THEN a ELSE b

MemoryTypeOK ==
  /\ mem \in [Addr -> Byte]
  /\ mapped \subseteq Pages
  /\ alive \in BOOLEAN
  /\ xattach \in {"ok", "ENOSYS", "EPERM"}
  /\ stores \in 0 .. MaxStores

MemoryInit ==
  /\ mem \in Images
  /\ mapped \in SUBSET Pages
  /\ alive = TRUE
  /\ xattach \in {"ok", "ENOSYS", "EPERM"}
  /\ stores = 0

-----------------------------------------------------------------------------
(* What the rest of the tracee, and the system around it, may do meanwhile. *)

(* A sibling thread stores a byte. *)
Store(a, b) ==
  /\ alive
  /\ stores < MaxStores
  /\ a \div PageSize \in mapped
  /\ mem' = [mem EXCEPT ![a] = b]
  /\ stores' = stores + 1
  /\ UNCHANGED <<mapped, alive, xattach>>

(* A sibling thread unmaps a page. *)
Unmap(p) ==
  /\ alive
  /\ p \in mapped
  /\ mapped' = mapped \ {p}
  /\ UNCHANGED <<mem, alive, xattach, stores>>

(* The tracee becomes off limits to process_vm_readv/writev. *)
Revoke ==
  /\ alive
  /\ xattach = "ok"
  /\ xattach' = "EPERM"
  /\ UNCHANGED <<mem, mapped, alive, stores>>

(* The tracee is killed: SIGKILL needs no cooperation of the tracer. *)
Killed ==
  /\ alive
  /\ alive' = FALSE
  /\ UNCHANGED <<mem, mapped, xattach, stores>>

-----------------------------------------------------------------------------
(* System calls. *)

Accessible(a) == a \in Addr /\ a \div PageSize \in mapped

WordAccessible(a) == \A j \in 0 .. WordSize - 1 : Accessible(a + j)

(* The errno of ptrace(PTRACE_PEEKDATA or PTRACE_POKEDATA) on the word at a. *)
PtraceErrno(a) ==
  IF ~alive THEN "ESRCH" ELSE IF WordAccessible(a) THEN None ELSE "EIO"

(* A peek returns the word itself, so a word of 0xff bytes is returned as -1. *)
PeeksMinusOne(a) ==
  \/ PtraceErrno(a) # None
  \/ \A j \in 0 .. WordSize - 1 : mem[a + j] = MaxByte

(* The lengths of the maximal accessible runs from a on, cut at l. *)
AccessibleRuns(a, l) ==
  {k \in 1 .. l : /\ \A j \in 0 .. k - 1 : Accessible(a + j)
                  /\ k < l => ~Accessible(a + k)}

(* The possible outcomes of process_vm_readv/writev with one iovec of l     *)
(* bytes at a.  An iovec that runs into an inaccessible page is transferred *)
(* up to that page or refused as a whole.                                   *)
ProcessVm(a, l) ==
  LET fail(e) == [r |-> -1, err |-> e]
  IN  IF xattach # "ok" THEN {fail(xattach)}
      ELSE IF ~alive THEN {fail("ESRCH")}
      ELSE IF l = 0 THEN {[r |-> 0, err |-> None]}
      ELSE {[r |-> k, err |-> None] : k \in AccessibleRuns(a, l)}
           \cup (IF l \in AccessibleRuns(a, l) THEN {} ELSE {fail("EFAULT")})

(* Mutant: errno is not cleared. *)
KeepsErrno(kernelErrno, minusOne) ==
  LET set == IF kernelErrno = None THEN errno ELSE kernelErrno
      e == IF set = "EIO" THEN "EFAULT" ELSE set
  IN  IF minusOne /\ set # None THEN [r |-> e, err |-> e]
                                ELSE [r |-> None, err |-> set]

(* pink_ptrace: errno is cleared first, because -1 is also a word that can   *)
(* be peeked; r is what it returns, negated, and err what it leaves in errno. *)
pink_ptrace(kernelErrno, minusOne) ==
  LET cleared == None
      set == IF kernelErrno = None THEN cleared ELSE kernelErrno
      e == IF set = "EIO" THEN "EFAULT" ELSE set
  IN  IF minusOne /\ set # None THEN [r |-> e, err |-> e]
                                ELSE [r |-> None, err |-> set]

pink_read_word_data(a) == pink_ptrace(PtraceErrno(a), PeeksMinusOne(a))

(* The long pink_read_argument gives for the contents of a register: a       *)
(* register narrower than long is sign-extended.                             *)
ArgumentOf(reg) ==
  IF AbiSpan < LongSpan /\ 2 * reg >= AbiSpan THEN reg + (LongSpan - AbiSpan)
                                              ELSE reg

(* pink_vm_*'s setup_addr: an address is cut to the width of the ABI. *)
setup_addr(a) == IF AbiSpan < LongSpan THEN a % AbiSpan ELSE a
=============================================================================
