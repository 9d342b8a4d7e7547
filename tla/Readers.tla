------------------------------ MODULE Readers -------------------------------
(***************************************************************************)
(* The functions that read structures of the tracee by several reads of    *)
(* VmRead: pink_read_string_array, pink_read_socket_argument and           *)
(* pink_read_socket_address.  The tracer makes one call (a job) after      *)
(* another, or plain reads; the environment interferes inside every read.  *)
(***************************************************************************)
EXTENDS VmRead, Sequences

CONSTANTS
  AbiWord,       (* pink_abi_wordsize of the tracee's ABI                  *)
  ArrayJobs,     (* the calls of pink_read_string_array                    *)
  SocketJobs     (* the calls of pink_read_socket_address                  *)

Base == MaxByte + 1
Word == 0 .. Base^AbiWord - 1
WordIndex == 0 .. AbiWord - 1

(* regs are the argument registers, of which argument i is regs[i + 1]; with  *)
(* decode the second one is the address of the arguments of socketcall; fd is *)
(* FALSE if the caller passes no pointer for the descriptor.                  *)
ASSUME JobAssumption ==
  /\ AbiWord \in 1 .. WordSize /\ AbiWord <= MaxLen /\ MaxLen >= 2
  /\ Word \subseteq Long
  /\ ArrayJobs \subseteq [kind : {"array"}, arg : Long, index : Nat, len : 0 .. MaxLen]
  /\ SocketJobs \subseteq [kind : {"socket"}, decode : BOOLEAN, fd : BOOLEAN,
                           arg_index : Nat, regs : Seq(Long)]
  /\ \A j \in SocketJobs : Len(j.regs) >= 2

VARIABLES
  job,       (* the call that runs                                         *)
  stage,     (* what it reads next, "none" or "end"                        *)
  args,      (* the socket arguments that were read                        *)
  member,    (* history: the values that the pointer, or the bytes of the  *)
             (* address, had while they were read                          *)
  pointer,   (* history: the pointer whose string is read; -1 for none     *)
  nullptr,   (* the caller's boolean                                       *)
  sock,      (* the caller's pink_sockaddr and fd                          *)
  res        (* the error that the call returns, or None                   *)

jobVars == <<job, stage, args, member, pointer, nullptr, sock, res>>
allVars == <<vars, jobVars>>

NoJob == [kind |-> "none"]

(* The caller's variables before the call. *)
Old == -2
Untouched == [fd |-> Old, family |-> Old, length |-> Old, pad |-> [i \in Index |-> Junk]]

(* sizeof(sockaddr->u) *)
SizeofU == MaxLen

JobInit ==
  /\ job = NoJob /\ stage = "none" /\ args = <<>>
  /\ member = {} /\ pointer = -1 /\ nullptr = FALSE
  /\ sock = Untouched /\ res = None

(* Byte i of the word w. *)
ByteOf(w, i) == (w \div Base^i) % Base

(* What the buffer is read as: a byte that was not stored has whatever value  *)
(* the stack had there.                                                       *)
WordsRead == {w \in Word : \A i \in WordIndex : dest[i] # Junk => ByteOf(w, i) = dest[i]}

(* What the word was, since the read began. *)
WordsSeen ==
  {w \in Word : \A i \in WordIndex : Source(i) \in Addr /\ ByteOf(w, i) \in seen[Source(i)]}

-----------------------------------------------------------------------------
(* pink_read_string_array *)

Slot(j) == (j.arg + j.index * AbiWord) % LongSpan

BeginArray(j) ==
  /\ job = NoJob /\ pc = "idle"
  /\ job' = j
  /\ stage' = "pointer"
  /\ UNCHANGED <<vars, args, member, pointer, nullptr, sock, res>>

ReadPointer ==
  /\ stage = "pointer"
  /\ Call("read_vm_data", Slot(job), AbiWord)
  /\ UNCHANGED jobVars

(* Mutant: errno is not looked at. *)
TakesAnyPointer == FALSE

(* The check after the read of the pointer. *)
PointerUnread == errno # None

(* Mutant: *nullptr is only ever cleared. *)
NeverEnds(w) == FALSE

(* What is stored to *nullptr. *)
EndOfArray(w) == w = 0

(* The pointer was read: an error ends the call with 0, and so does NULL. *)
UsePointer ==
  /\ stage = "pointer" /\ pc = "done"
  /\ member' = WordsSeen
  /\ IF PointerUnread
     THEN stage' = "end" /\ UNCHANGED <<nullptr, pointer>>
     ELSE \E w \in WordsRead :
            /\ nullptr' = EndOfArray(w)
            /\ stage' = IF w = 0 THEN "end" ELSE "string"
            /\ pointer' = IF w = 0 THEN pointer ELSE w
  /\ Consume
  /\ UNCHANGED <<job, args, sock, res>>

ReadString ==
  /\ stage = "string"
  /\ Call("read_vm_data_nul", pointer, job.len)
  /\ UNCHANGED jobVars

(* The result of pink_read_vm_data_nul is returned as it is. *)
StringRead ==
  /\ stage = "string" /\ pc = "done"
  /\ stage' = "end"
  /\ res' = IF ret < 0 THEN errno ELSE None
  /\ Consume
  /\ UNCHANGED <<job, args, member, pointer, nullptr, sock>>

-----------------------------------------------------------------------------
(* pink_read_socket_argument and pink_read_socket_address *)

BeginSocket(j) ==
  /\ job = NoJob /\ pc = "idle"
  /\ job' = j
  /\ stage' = "args"
  /\ UNCHANGED <<vars, args, member, pointer, nullptr, sock, res>>

(* The arguments that are read, in this order. *)
Wanted(j) ==
  IF j.fd THEN <<0, j.arg_index, j.arg_index + 1>> ELSE <<j.arg_index, j.arg_index + 1>>
ArgIndex == Wanted(job)[Len(args) + 1]
AllArguments == Len(args) = Len(Wanted(job))
ArgAddr == args[Len(args) - 1]
ArgLen == args[Len(args)]

(* An argument was read, and the first one may be the descriptor. *)
HaveArgument(v) ==
  /\ args' = Append(args, v)
  /\ sock' = IF job.fd /\ args = <<>> THEN [sock EXCEPT !.fd = v] ELSE sock
  /\ UNCHANGED <<stage, res>>

Fail(e) == stage' = "end" /\ res' = e /\ UNCHANGED <<args, sock>>

RegisterArgument ==
  /\ stage = "args" /\ ~job.decode /\ ~AllArguments
  /\ IF ArgIndex >= Len(job.regs) THEN Fail("EINVAL") ELSE HaveArgument(job.regs[ArgIndex + 1])
  /\ UNCHANGED <<vars, job, member, pointer, nullptr>>

ReadArgument ==
  /\ stage = "args" /\ job.decode /\ ~AllArguments
  /\ Call("read_vm_data_full", (job.regs[2] + ArgIndex * AbiWord) % LongSpan, AbiWord)
  /\ UNCHANGED jobVars

ArgumentRead ==
  /\ stage = "args" /\ pc = "done"
  /\ IF rc # None THEN Fail(rc) ELSE \E w \in WordsRead : HaveArgument(w)
  /\ Consume
  /\ UNCHANGED <<job, member, pointer, nullptr>>

(* The length that is read: the caller's, if it makes sense. *)
AddressLen(addrlen) == IF addrlen < 2 \/ addrlen > SizeofU THEN SizeofU ELSE addrlen

(* All arguments are there: no address, or the address is read. *)
NoAddress ==
  /\ stage = "args" /\ pc = "idle" /\ AllArguments /\ ArgAddr = 0
  /\ sock' = [fd |-> sock.fd, family |-> -1, length |-> 0, pad |-> sock.pad]
  /\ stage' = "end"
  /\ UNCHANGED <<vars, job, args, member, pointer, nullptr, res>>

ReadAddress ==
  /\ stage = "args" /\ AllArguments /\ ArgAddr # 0
  /\ Call("read_vm_data_full", ArgAddr, AddressLen(ArgLen))
  /\ stage' = "data"
  /\ sock' = [sock EXCEPT !.pad = [i \in Index |-> 0]]
  /\ UNCHANGED <<job, args, member, pointer, nullptr, res>>

(* Mutant: the last byte is not cleared. *)
NotTerminated(pad) == pad

Terminated(pad) == [pad EXCEPT ![SizeofU - 1] = 0]

AddressRead ==
  /\ stage = "data" /\ pc = "done"
  /\ stage' = "end"
  /\ res' = rc
  /\ LET pad == [i \in Index |-> IF dest[i] # Junk THEN dest[i] ELSE sock.pad[i]]
     IN  sock' = IF rc # None THEN [sock EXCEPT !.pad = pad]
                 ELSE [fd |-> sock.fd, family |-> pad[0],
                       length |-> AddressLen(ArgLen), pad |-> Terminated(pad)]
  /\ member' = {x \in Index \X Byte :
                 Source(x[1]) \in Addr /\ x[2] \in seen[Source(x[1])]}
  /\ Consume
  /\ UNCHANGED <<job, args, pointer, nullptr>>

(* The caller has looked at the results. *)
Forget ==
  /\ stage = "end"
  /\ job' = NoJob /\ stage' = "none" /\ args' = <<>>
  /\ member' = {} /\ pointer' = -1 /\ nullptr' = FALSE
  /\ sock' = Untouched /\ res' = None
  /\ UNCHANGED vars

ReadersInit == Init /\ JobInit

JobStep ==
  \/ ReadPointer \/ UsePointer \/ ReadString \/ StringRead
  \/ RegisterArgument \/ ReadArgument \/ ArgumentRead \/ NoAddress \/ ReadAddress \/ AddressRead

ReadersNext ==
  \/ /\ job = NoJob
     /\ \/ \E f \in Api, reg \in 0 .. AbiSpan - 1, l \in 0 .. MaxLen : Call(f, ArgumentOf(reg), l)
        \/ Consume
     /\ UNCHANGED jobVars
  \/ (Step \/ Environment) /\ UNCHANGED jobVars
  \/ \E j \in ArrayJobs : BeginArray(j)
  \/ \E j \in SocketJobs : BeginSocket(j)
  \/ JobStep
  \/ Forget

(* The tracer's thread keeps running, and nothing else is assumed. *)
ReadersSpec ==
  /\ ReadersInit
  /\ [][ReadersNext]_allVars
  /\ WF_allVars((Step /\ UNCHANGED jobVars) \/ JobStep)

-----------------------------------------------------------------------------
(* The pointer lies in one page, as every pointer of an aligned array does. *)
InOnePage ==
  \E p \in Pages : \A i \in WordIndex :
    setup_addr(Slot(job)) + i \in {a \in Addr : a \div PageSize = p}

(* A string that pink_read_string_array reads is at a pointer that the array  *)
(* held at that index while it was read, and the end of the array is only     *)
(* reported where it held a null pointer: such a pointer is read whole or its *)
(* read leaves errno set, by whichever variant, whatever happens to the       *)
(* tracee meanwhile.  (A pointer across two pages may be read in part, and    *)
(* then the uninitialised rest of cp is used.)                                *)
MemberIsGenuine ==
  (stage = "end" /\ job.kind = "array" /\ InOnePage) =>
     /\ pointer # -1 => pointer \in member
     /\ nullptr => 0 \in member

(* A null pointer that is accessible and stays what it is is reported to the  *)
(* caller: without it the loop of decode_execve only ends with a string that  *)
(* cannot be read, and a pointer that cannot be read never ends it.           *)
NullIsReported ==
  (/\ stage = "end" /\ job.kind = "array" /\ alive /\ member = {0}
   /\ \A i \in WordIndex : Accessible(setup_addr(Slot(job)) + i)) => nullptr

(* pink_read_socket_address fills the address in completely or not at all:    *)
(* after success the family and the length describe bytes the tracee had at   *)
(* the address, the rest is zero and the last byte ends the path; after an    *)
(* error family and length are still the caller's, although the descriptor    *)
(* may have been stored.                                                      *)
AddressIsWhole ==
  (stage = "end" /\ job.kind = "socket") =>
     IF res # None THEN sock.family = Old /\ sock.length = Old
     ELSE \/ ArgAddr = 0 /\ sock.family = -1 /\ sock.length = 0
          \/ /\ ArgAddr # 0 /\ sock.length = AddressLen(ArgLen)
             /\ sock.pad[SizeofU - 1] = 0
             /\ \A i \in 0 .. SizeofU - 2 :
                  IF i < sock.length THEN <<i, sock.pad[i]>> \in member ELSE sock.pad[i] = 0
             /\ sock.family = sock.pad[0]
=============================================================================
