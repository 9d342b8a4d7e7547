------------------------------- MODULE VmRead -------------------------------
(***************************************************************************)
(* Reading the memory of a tracee: pink_read_vm_data, its _full and _nul   *)
(* variants, and the functions of vm.c they dispatch to.  A tracer thread  *)
(* makes one call after another; every system call inside a call is a step *)
(* of its own, so the environment of TraceeMemory interferes in between.   *)
(***************************************************************************)
EXTENDS TraceeMemory, FiniteSetsExt

CONSTANTS
  ChunkMax,   (* the 256 of pink_vm_cread_nul                            *)
  MaxLen,     (* bound on the length of a read                           *)
  Junk        (* an uninitialised byte of the caller's buffer            *)

ASSUME ReadAssumption ==
  /\ ChunkMax \in Nat \ {0}
  /\ MaxLen \in Nat
  /\ Junk \notin Byte

VARIABLES
  pc,       (* the function that runs, "idle" or "done"                  *)
  api,      (* the function the tracer called                            *)
  addr0,    (* its address argument                                      *)
  len0,     (* its length argument                                       *)
  addr,     (* local: addr of lread*, remote[0].iov_base of cread_nul    *)
  residue,  (* local of lread*                                           *)
  len,      (* local: what remains to be read                            *)
  count,    (* bytes stored to the buffer: dest - orig_dest              *)
  dest,     (* the caller's buffer                                       *)
  ret,      (* the return value of the ssize_t function                  *)
  rc,       (* the return value of pink_read_vm_data_full                *)
  seen      (* history: the values each byte had since the call began    *)

callVars == <<api, addr0, len0>>
localVars == <<addr, residue, len, count, dest>>
vars == <<memVars, errno, pc, callVars, localVars, ret, rc, seen>>

Index == 0 .. MaxLen - 1
Api == {"read_vm_data", "read_vm_data_full", "read_vm_data_nul"}

(* The functions of vm.c behind each entry point. *)
CrossAttach(f) == IF f = "read_vm_data_nul" THEN "cread_nul" ELSE "cread"
WordByWord(f) == IF f = "read_vm_data_nul" THEN "lread_nul" ELSE "lread"

TypeOK ==
  /\ MemoryTypeOK
  /\ errno \in Errno
  /\ pc \in {"idle", "done", "cread", "cread_nul", "lread", "lread_nul"}
  /\ api \in Api
  /\ addr0 \in Long /\ len0 \in 0 .. MaxLen
  /\ addr \in Nat
  /\ residue \in 0 .. WordSize - 1
  /\ len \in 0 .. MaxLen
  /\ count \in 0 .. MaxLen
  /\ dest \in [Index -> Byte \cup {Junk}]
  /\ ret \in Int
  /\ rc \in Errno
  /\ seen \in [Addr -> SUBSET Byte]

Init ==
  /\ MemoryInit
  /\ errno = None
  /\ pc = "idle"
  /\ api = "read_vm_data" /\ addr0 = 0 /\ len0 = 0
  /\ addr = 0 /\ residue = 0 /\ len = 0 /\ count = 0
  /\ dest = [i \in Index |-> Junk]
  /\ ret = 0
  /\ rc = None
  /\ seen = [a \in Addr |-> {}]

-----------------------------------------------------------------------------
(* The tracer calls f(a, l): errno is cleared and the cross memory attach    *)
(* variant is tried first, at the address cut to the width of the ABI.       *)
Call(f, a, l) ==
  /\ pc = "idle"
  /\ api' = f /\ addr0' = a /\ len0' = l
  /\ errno' = None
  /\ pc' = CrossAttach(f)
  /\ addr' = setup_addr(a) /\ len' = l /\ count' = 0 /\ residue' = 0
  /\ dest' = [i \in Index |-> Junk]
  /\ ret' = 0 /\ rc' = None
  /\ seen' = [x \in Addr |-> {mem[x]}]
  /\ UNCHANGED memVars

(* The tracer has looked at the result: between calls the locals are gone. *)
Consume ==
  /\ pc = "done"
  /\ pc' = "idle"
  /\ api' = "read_vm_data" /\ addr0' = 0 /\ len0' = 0
  /\ addr' = 0 /\ residue' = 0 /\ len' = 0 /\ count' = 0
  /\ dest' = [i \in Index |-> Junk]
  /\ ret' = 0
  /\ rc' = None
  /\ seen' = [a \in Addr |-> {}]
  /\ UNCHANGED <<memVars, errno>>

(* memcpy of m bytes at address a of the tracee to dest + count *)
Copied(a, m) ==
  [i \in Index |-> IF count <= i /\ i < count + m THEN mem[a + (i - count)]
                                                 ELSE dest[i]]

(* Mutant: a short read passes for a full one. *)
FullIfNoError(r, e) == IF r < 0 THEN e ELSE None

(* What pink_read_vm_data_full makes of the result r with errno e. *)
FullResult(r, e) ==
  IF r < 0 THEN e ELSE IF r # len0 THEN "EFAULT" ELSE None

(* The call returns r to the tracer with errno e. *)
Done(r, e) ==
  /\ pc' = "done"
  /\ ret' = r
  /\ rc' = IF api = "read_vm_data_full" THEN FullResult(r, e) ELSE None
  /\ errno' = e

(* Mutant: the word by word variant goes on in the buffer where the other    *)
(* variant stopped.                                                          *)
DispatchInPlace(r, e, n) ==
  IF e \in {"ENOSYS", "EPERM"}
  THEN /\ pc' = WordByWord(api)
       /\ errno' = e
       /\ addr' = addr0 /\ residue' = addr0 % WordSize
       /\ UNCHANGED <<len, count, ret, rc>>
  ELSE /\ Done(r, e)
       /\ count' = n
       /\ UNCHANGED <<addr, residue, len>>

(* pink_vm_c* returned r with errno e, having stored n bytes: if the system  *)
(* call is missing or not permitted, the word by word variant starts over    *)
(* with the caller's address.                                                *)
Dispatch(r, e, n) ==
  IF e \in {"ENOSYS", "EPERM"}
  THEN /\ pc' = WordByWord(api)
       /\ errno' = e
       /\ addr' = addr0 /\ residue' = addr0 % WordSize
       /\ len' = len0 /\ count' = 0
       /\ UNCHANGED <<ret, rc>>
  ELSE /\ Done(r, e)
       /\ count' = n
       /\ UNCHANGED <<addr, residue, len>>

-----------------------------------------------------------------------------
(* pink_vm_cread: one process_vm_readv for everything. *)
Cread ==
  /\ pc = "cread"
  /\ \E out \in ProcessVm(addr, len) :
       IF out.r < 0
       THEN Dispatch(-1, out.err, 0) /\ UNCHANGED dest
       ELSE Dispatch(out.r, errno, out.r) /\ dest' = Copied(addr, out.r)
  /\ UNCHANGED <<memVars, callVars, seen>>

(* Mutant: the chunk is not cut at the length of the buffer. *)
ChunkIgnoresLen(a) ==
  LET end_in_page == (a + ChunkMax) % PageSize
  IN  IF ChunkMax > end_in_page THEN ChunkMax - end_in_page ELSE ChunkMax

(* Mutant: the chunk is not cut at the end of the page. *)
ChunkCrossesPage(a) == MIN(len, ChunkMax)

(* Mutant: "r >= 0" instead of "r > 0". *)
ChunkMayBeEmpty(a) ==
  LET chunk_len == MIN(len, ChunkMax)
      end_in_page == (a + chunk_len) % PageSize
  IN  IF chunk_len >= end_in_page THEN chunk_len - end_in_page ELSE chunk_len

(* The length of the next process_vm_readv of pink_vm_cread_nul: at most     *)
(* ChunkMax, cut at the end of the page that holds a.                        *)
ChunkLen(a) ==
  LET chunk_len == MIN(len, ChunkMax)
      end_in_page == (a + chunk_len) % PageSize
  IN  IF chunk_len > end_in_page THEN chunk_len - end_in_page ELSE chunk_len

(* The address pink_vm_cread_nul computes ChunkLen with: its parameter addr, *)
(* which the loop does not advance (remote[0].iov_base is what advances).    *)
ChunkAddr == setup_addr(addr0)

(* Mutant: the last byte is not searched. *)
ZerosButLast(a, l) == {j \in 0 .. l - 2 : mem[a + j] = 0}

(* The offsets of the zero-bytes in l bytes at a. *)
Zeros(a, l) == {j \in 0 .. l - 1 : mem[a + j] = 0}

(* pink_vm_cread_nul: one iteration of its loop. *)
CreadNul ==
  /\ pc = "cread_nul"
  /\ len > 0
  /\ \E out \in ProcessVm(addr, ChunkLen(ChunkAddr)) :
       IF out.r < 0
       THEN /\ Dispatch(IF count > 0 THEN count ELSE -1, out.err, count)
            /\ UNCHANGED dest
       ELSE /\ dest' = Copied(addr, out.r)
            /\ IF Zeros(addr, out.r) # {}
               THEN Dispatch(count + Min(Zeros(addr, out.r)) + 1, errno,
                             count + out.r)
               ELSE /\ addr' = addr + out.r
                    /\ len' = len - out.r
                    /\ count' = count + out.r
                    /\ UNCHANGED <<pc, errno, ret, rc, residue>>
  /\ UNCHANGED <<memVars, callVars, seen>>

(* pink_vm_cread_nul: the loop ends without a zero-byte. *)
CreadNulEnd ==
  /\ pc = "cread_nul"
  /\ len = 0
  /\ Dispatch(count, errno, count)
  /\ UNCHANGED <<memVars, callVars, dest, seen>>

-----------------------------------------------------------------------------
(* pink_vm_lread and pink_vm_lread_nul: one iteration of the loop.  A peek   *)
(* that fails ends the call with -1, whatever was read before.               *)
Lread ==
  /\ pc \in {"lread", "lread_nul"}
  /\ len > 0
  /\ LET a == addr - (addr % WordSize)
         peek == pink_read_word_data(a)
         m == MIN(WordSize - residue, len)
         zeros == {j \in residue .. WordSize - 1 : mem[a + j] = 0}
     IN  IF peek.r # None
         THEN /\ Done(-1, peek.err)
              /\ UNCHANGED localVars
         ELSE /\ dest' = Copied(a + residue, m)
              /\ count' = count + m
              /\ len' = len - m
              /\ addr' = a + WordSize
              /\ residue' = 0
              /\ IF pc = "lread_nul" /\ zeros # {}
                 THEN Done(count + Min(zeros), peek.err)
                 ELSE errno' = peek.err /\ UNCHANGED <<pc, ret, rc>>
  /\ UNCHANGED <<memVars, callVars, seen>>

(* pink_vm_lread and pink_vm_lread_nul: the loop ends. *)
LreadEnd ==
  /\ pc \in {"lread", "lread_nul"}
  /\ len = 0
  /\ Done(count, errno)
  /\ UNCHANGED <<memVars, callVars, localVars, seen>>

Step == Cread \/ CreadNul \/ CreadNulEnd \/ Lread \/ LreadEnd

(* Steps of the tracee and its surroundings during a call, recorded in seen. *)
Environment ==
  /\ pc \notin {"idle", "done"}
  /\ \/ \E a \in Addr, b \in Byte : Store(a, b)
     \/ \E p \in Pages : Unmap(p)
     \/ Revoke
     \/ Killed
  /\ seen' = [a \in Addr |-> seen[a] \cup {mem'[a]}]
  /\ UNCHANGED <<errno, pc, callVars, localVars, ret, rc>>

Next ==
  \/ \E f \in Api, reg \in 0 .. AbiSpan - 1, l \in 0 .. MaxLen :
       Call(f, ArgumentOf(reg), l)
  \/ Step
  \/ Consume
  \/ Environment

Spec == Init /\ [][Next]_vars

(* The tracer's thread keeps running, and nothing else is assumed. *)
FairSpec == Spec /\ WF_vars(Step)

-----------------------------------------------------------------------------
(* The bytes a call was asked for, as addresses of the tracee. *)
Source(i) == setup_addr(addr0) + i

(* Every byte stored to the caller's buffer is a value the tracee's byte at  *)
(* that offset really had at some moment since the call began, and the       *)
(* buffer beyond the length that was passed is left alone: the memcpy and    *)
(* pointer arithmetic of pink_vm_lread, pink_vm_lread_nul, pink_vm_cread and *)
(* pink_vm_cread_nul, for unaligned starts, partial last words, attempts     *)
(* that were interrupted and fallbacks.                                      *)
BytesAreGenuine ==
  /\ count <= len0
  /\ \A i \in Index :
       /\ i < count => /\ Source(i) \in Addr
                       /\ dest[i] \in seen[Source(i)]
       /\ i >= len0 => dest[i] = Junk

(* Why BytesAreGenuine is kept: during a call what was stored and what is    *)
(* left add up to the length, the next byte is read from the place it is     *)
(* stored for (iov_base of cread_nul; the aligned address and the residue of *)
(* lread), and the history covers the present contents of memory.            *)
TransferInv ==
  /\ pc \notin {"idle", "done"} =>
       /\ count + len = len0
       /\ \A a \in Addr : mem[a] \in seen[a]
  /\ pc = "cread" => count = 0
  /\ pc \in {"cread", "cread_nul"} => addr = Source(count)
  /\ pc \in {"lread", "lread_nul"} /\ len > 0 =>
       (addr - (addr % WordSize)) + residue = addr0 + count

(* pink_read_vm_data and pink_read_vm_data_full never claim bytes they did    *)
(* not store: the count that is returned was stored, an error leaves errno   *)
(* set, and _full reports 0 only for a complete buffer.                       *)
ResultIsHonest ==
  pc = "done" =>
    /\ ret < 0 => errno # None
    /\ api # "read_vm_data_nul" /\ ret >= 0 => ret = count
    /\ api = "read_vm_data_full" => (rc = None <=> count = len0 /\ ret >= 0)

(* A range that is accessible for the whole duration of the call, in a       *)
(* tracee that stays alive, is read completely, whichever of process_vm_readv *)
(* and ptrace does it ("Read len bytes of data of tracee at address addr").  *)
AccessibleReadSucceeds ==
  /\ pc = "done" /\ api # "read_vm_data_nul" /\ alive
  /\ \A i \in 0 .. len0 - 1 : Accessible(Source(i))
  => ret = len0

(* The count that belongs to the bytes stored: up to and with the first      *)
(* zero-byte, or all of them when there is none.                             *)
NulCount ==
  LET zeros == {i \in Index : i < count /\ dest[i] = 0}
  IN  IF zeros = {} THEN count ELSE Min(zeros) + 1

(* When process_vm_readv serves it, pink_read_vm_data_nul returns the number *)
(* of bytes including the zero-byte, also after a chunk that was cut short.  *)
CrossAttachNulCount ==
  pc = "done" /\ api = "read_vm_data_nul" /\ ret >= 0 /\ xattach = "ok"
    => ret = NulCount

(* pink_read_vm_data_nul "returns the number of bytes read including the     *)
(* zero-byte", by whichever function it dispatches to.                       *)
NulCountIncludesZero ==
  pc = "done" /\ api = "read_vm_data_nul" /\ ret >= 0 => ret = NulCount

(* pink_read_vm_data_nul finds the end of a string: if a byte within len is  *)
(* zero during the whole call, and all up to it stays accessible in a tracee *)
(* that stays alive, the buffer gets a zero-byte.  pink_vm_cread_nul cuts    *)
(* its chunks for this ("Don't cross pages. I guess otherwise we can get     *)
(* EFAULT and fail to notice that terminating NUL lies in the existing       *)
(* (first) page"), but with the address of the first: only a later chunk     *)
(* that runs into an inaccessible page may end the call before.              *)
StringIsFound ==
  LET crosses == /\ xattach = "ok" /\ count > 0
                 /\ \E j \in 0 .. ChunkLen(ChunkAddr) - 1 : ~Accessible(Source(count + j))
  IN  /\ pc = "done" /\ api = "read_vm_data_nul" /\ alive
      /\ \E z \in 0 .. len0 - 1 : /\ \A i \in 0 .. z : Accessible(Source(i))
                                  /\ seen[Source(z)] = {0}
      => crosses \/ (ret >= 0 /\ \E i \in 0 .. count - 1 : dest[i] = 0)

(* Every call returns: the loops make progress whatever the environment does. *)
CallReturns == (pc \notin {"idle", "done"}) ~> (pc = "done")
=============================================================================
