------------------------------- MODULE VmWrite ------------------------------
(***************************************************************************)
(* Writing the memory of a tracee: pink_write_vm_data and the functions    *)
(* pink_vm_cwrite and pink_vm_lwrite it dispatches to.  As in VmRead every *)
(* system call is a step and the environment interferes in between.        *)
(***************************************************************************)
EXTENDS TraceeMemory

CONSTANTS
  UintSpan, (* 2^(8 * sizeof(unsigned int))                              *)
  MaxLen,   (* bound on the length of a write                            *)
  Sources   (* the data the tracer may write: functions on 0 .. MaxLen-1 *)

Index == 0 .. MaxLen - 1

ASSUME WriteAssumption ==
  /\ MaxLen \in Nat
  (* count_written is an unsigned int: a length it can hold *)
  /\ UintSpan \in Nat /\ UintSpan <= LongSpan /\ 2 * MaxLen < UintSpan
  /\ Sources \subseteq [Index -> Byte]

VARIABLES
  pc,       (* the function that runs, "idle" or "done"                  *)
  addr0,    (* the address argument of the call                          *)
  len0,     (* its length argument                                       *)
  src,      (* the caller's data                                         *)
  addr,     (* local of lwrite                                           *)
  residue,  (* local of lwrite                                           *)
  len,      (* local: what remains to be written                         *)
  count,    (* count_written, and how far src was advanced               *)
  ret,      (* the return value                                          *)
  shadow,   (* history: memory as the sibling threads alone would have it *)
  touched   (* history: bytes sibling threads stored since the call began *)

callVars == <<addr0, len0, src>>
localVars == <<addr, residue, len, count>>
historyVars == <<shadow, touched>>
vars == <<memVars, errno, pc, callVars, localVars, ret, historyVars>>

TypeOK ==
  /\ MemoryTypeOK
  /\ errno \in Errno
  /\ pc \in {"idle", "done", "cwrite", "lwrite"}
  /\ addr0 \in Long /\ len0 \in 0 .. MaxLen
  /\ src \in [Index -> Byte]
  /\ addr \in Nat
  /\ residue \in 0 .. WordSize - 1
  /\ len \in 0 .. MaxLen
  /\ count \in 0 .. MaxLen
  /\ ret \in (-1 .. MaxLen) \cup {UintSpan - 1}
  /\ shadow \in [Addr -> Byte]
  /\ touched \subseteq Addr

Init ==
  /\ MemoryInit
  /\ errno = None
  /\ pc = "idle"
  /\ addr0 = 0 /\ len0 = 0
  /\ src = [i \in Index |-> 0]
  /\ addr = 0 /\ residue = 0 /\ len = 0 /\ count = 0
  /\ ret = 0
  /\ shadow = mem
  /\ touched = {}

-----------------------------------------------------------------------------
(* The tracer calls pink_write_vm_data(a, data, l). *)
Call(a, data, l) ==
  /\ pc = "idle"
  /\ pc' = "cwrite"
  /\ errno' = None
  /\ addr0' = a /\ len0' = l /\ src' = data
  /\ addr' = setup_addr(a) /\ residue' = 0 /\ len' = l /\ count' = 0
  /\ ret' = 0
  /\ shadow' = mem /\ touched' = {}
  /\ UNCHANGED memVars

(* The tracer has looked at the result: between calls the locals are gone. *)
Consume ==
  /\ pc = "done"
  /\ pc' = "idle"
  /\ addr0' = 0 /\ len0' = 0
  /\ src' = [i \in Index |-> 0]
  /\ addr' = 0 /\ residue' = 0 /\ len' = 0 /\ count' = 0
  /\ ret' = 0
  /\ shadow' = mem /\ touched' = {}
  /\ UNCHANGED <<memVars, errno>>

(* Mutant: only a missing system call makes the word by word variant run. *)
FallbackIfMissing(e) == e = "ENOSYS"

(* When pink_write_vm_data resorts to pink_vm_lwrite. *)
Fallback(e) == e \in {"ENOSYS", "EPERM"}

(* pink_vm_cwrite, and the dispatch on errno in pink_write_vm_data. *)
Cwrite ==
  /\ pc = "cwrite"
  /\ \E out \in ProcessVm(addr, len) :
       IF Fallback(out.err)
       THEN /\ pc' = "lwrite"
            /\ errno' = out.err
            /\ addr' = addr0 /\ residue' = addr0 % WordSize
            /\ UNCHANGED <<mem, len, count, ret>>
       ELSE /\ pc' = "done"
            /\ errno' = out.err
            /\ ret' = out.r
            /\ count' = IF out.r > 0 THEN out.r ELSE 0
            /\ mem' = [a \in Addr |-> IF addr <= a /\ a < addr + out.r
                                      THEN src[a - addr] ELSE mem[a]]
            /\ UNCHANGED <<addr, residue, len>>
  /\ UNCHANGED <<mapped, alive, xattach, stores, callVars, historyVars>>

(* Mutant: the last word is not cut at the length. *)
WholeWord == WordSize - residue

(* How many bytes of the caller's data the next word takes. *)
PokeLen == MIN(WordSize - residue, len)

(* Mutant: src is not advanced. *)
PokedSameSource(m) ==
  {w \in [0 .. WordSize - 1 -> Byte] :
     \A j \in 0 .. m - 1 : residue + j < len0 => w[j] = src[residue + j]}

(* The words pink_vm_lwrite may poke when m bytes remain for this word:      *)
(* memcpy(u.x, &src[residue], m) fills the first m bytes of an uninitialised *)
(* union from src, offset by the residue; what lies beyond the caller's data *)
(* and the rest of the union can be anything.                                *)
PokedWords(m) ==
  {w \in [0 .. WordSize - 1 -> Byte] :
     \A j \in 0 .. m - 1 :
       count + residue + j < len0 => w[j] = src[count + residue + j]}

(* Mutant: a failure of the first poke looks like an empty write. *)
CountWritten(n) == n

(* What pink_vm_lwrite returns when a poke fails after n bytes.  In           *)
(* "count_written > 0 ? count_written : -1" the -1 becomes an unsigned int,  *)
(* which ssize_t holds as it is when it is wider.                            *)
FailedAfter(n) ==
  LET u == IF n > 0 THEN n ELSE UintSpan - 1
  IN  IF UintSpan < LongSpan \/ 2 * u < UintSpan THEN u ELSE u - UintSpan

(* pink_vm_lwrite: one iteration of its loop. *)
Lwrite ==
  /\ pc = "lwrite"
  /\ len > 0
  /\ LET a == addr - (addr % WordSize)
         m == PokeLen
         poke == pink_ptrace(PtraceErrno(a), PtraceErrno(a) # None)
     IN  /\ errno' = poke.err
         /\ residue' = 0
         /\ IF poke.r # None
            THEN /\ pc' = "done"
                 /\ ret' = FailedAfter(count)
                 /\ UNCHANGED <<mem, addr, len, count>>
            ELSE /\ \E w \in PokedWords(m) :
                      mem' = [x \in Addr |-> IF a <= x /\ x < a + WordSize
                                             THEN w[x - a] ELSE mem[x]]
                 /\ addr' = a + WordSize
                 /\ count' = count + m
                 /\ len' = len - m
                 /\ UNCHANGED <<pc, ret>>
  /\ UNCHANGED <<mapped, alive, xattach, stores, callVars, historyVars>>

(* pink_vm_lwrite: the loop ends. *)
LwriteEnd ==
  /\ pc = "lwrite"
  /\ len = 0
  /\ pc' = "done"
  /\ ret' = count
  /\ UNCHANGED <<memVars, errno, callVars, localVars, historyVars>>

Step == Cwrite \/ Lwrite \/ LwriteEnd

(* Steps of the tracee and its surroundings during a call. *)
Environment ==
  /\ pc \notin {"idle", "done"}
  /\ \/ \E a \in Addr, b \in Byte : /\ Store(a, b)
                                    /\ shadow' = [shadow EXCEPT ![a] = b]
                                    /\ touched' = touched \cup {a}
     \/ (\E p \in Pages : Unmap(p)) /\ UNCHANGED historyVars
     \/ Revoke /\ UNCHANGED historyVars
     \/ Killed /\ UNCHANGED historyVars
  /\ UNCHANGED <<errno, pc, callVars, localVars, ret>>

Next ==
  \/ \E reg \in 0 .. AbiSpan - 1, data \in Sources, l \in 0 .. MaxLen :
       Call(ArgumentOf(reg), data, l)
  \/ Step
  \/ Consume
  \/ Environment

Spec == Init /\ [][Next]_vars

-----------------------------------------------------------------------------
(* The addresses of the bytes the call reports as written so far. *)
Target == {setup_addr(addr0) + i : i \in 0 .. count - 1}

Aligned == addr0 % WordSize = 0 /\ len0 % WordSize = 0

(* With process_vm_writev, or for whole aligned words, pink_write_vm_data    *)
(* changes exactly the bytes it counts, at every moment and also when it     *)
(* stops half way: they hold the caller's data unless a sibling thread stored *)
(* to them, and no other byte is changed, nor any sibling's store undone.    *)
WriteIsExact ==
  xattach = "ok" \/ Aligned =>
    /\ \A a \in Target \ touched : mem[a] = src[a - setup_addr(addr0)]
    /\ \A a \in Addr \ Target : mem[a] = shadow[a]

(* Why WriteIsExact is kept: what was written and what is left add up to the *)
(* length, pink_vm_lwrite only runs where process_vm_writev is refused, and  *)
(* for whole aligned words it stays aligned, with src and addr in step.      *)
WriteInv ==
  /\ pc \in {"cwrite", "lwrite"} => count + len = len0
  /\ pc = "cwrite" => count = 0 /\ addr = setup_addr(addr0)
  /\ pc = "lwrite" => xattach # "ok"
  /\ pc = "lwrite" /\ Aligned =>
       /\ residue = 0 /\ addr % WordSize = 0 /\ len % WordSize = 0
       /\ addr = addr0 + count
       /\ count > 0 => addr0 \in Addr

(* A result in the range of a count is the number of bytes transferred, and  *)
(* zero only for an empty write; any other result comes with errno set and    *)
(* nothing written.                                                           *)
WriteResultIsHonest ==
  pc = "done" =>
    IF ret \in 0 .. len0 THEN ret = count /\ (ret = 0 => len0 = 0)
                         ELSE errno # None /\ count = 0

(* A range that stays accessible in a tracee that stays alive is written to  *)
(* the end, whichever of process_vm_writev and ptrace does it.               *)
AccessibleWriteSucceeds ==
  /\ pc = "done" /\ alive
  /\ \A i \in 0 .. len0 - 1 : Accessible(setup_addr(addr0) + i)
  => ret = len0

(* What write.h says of pink_write_vm_data: "Write the given data argument   *)
(* src to address addr", len being the "Number of bytes of data to write".    *)
(* After a complete write the data is there and the bytes around it are kept. *)
DataIsAtAddr ==
  pc = "done" /\ ret = len0 =>
    /\ \A a \in Target \ touched : mem[a] = src[a - setup_addr(addr0)]
    /\ \A a \in Addr \ Target : mem[a] = shadow[a]

(* "On error, -1 is returned and errno is set appropriately." *)
ErrorIsMinusOne == pc = "done" /\ ret \notin 0 .. len0 => ret = -1
=============================================================================
