---------------------------- MODULE ReadersProofs ---------------------------
(***************************************************************************)
(* The functions that read in several steps, for every geometry, every job *)
(* and every interference: their reads are genuine, a member of a string   *)
(* array is one that the array held, and a socket address is whole.        *)
(***************************************************************************)
EXTENDS Readers, VmReadProofs

(* The jobs.  Between two reads of a job, and while one runs, the caller's  *)
(* variables have what the reads so far justify; a read that runs is the    *)
(* one that its stage asks for.                                             *)
SockType ==
  [fd : Long \cup {Old}, family : Int \cup {Junk}, length : Int,
   pad : [Index -> Byte \cup {Junk}]]

JobInv ==
  /\ stage \in {"none", "pointer", "string", "args", "data", "end"}
  /\ stage \in {"pointer", "string"} => job \in ArrayJobs
  /\ stage \in {"args", "data"} => job \in SocketJobs
  /\ stage = "end" => job \in ArrayJobs \cup SocketJobs
  /\ args \in Seq(Long) /\ sock \in SockType
  /\ stage = "none" =>
       /\ job = NoJob /\ args = <<>> /\ pointer = -1 /\ nullptr = FALSE
       /\ sock = Untouched /\ res = None

ArrayInv ==
  /\ stage = "pointer" =>
       /\ pointer = -1 /\ nullptr = FALSE
       /\ pc # "idle" => /\ api = "read_vm_data"
                         /\ addr0 = Slot(job) /\ len0 = AbiWord
  /\ stage = "string" =>
       /\ pointer \in Word /\ nullptr = FALSE
       /\ InOnePage => pointer \in member
  /\ MemberIsGenuine

SocketInv ==
  /\ stage \in {"args", "data"} =>
       /\ res = None /\ sock.family = Old /\ sock.length = Old
       /\ Len(args) <= Len(Wanted(job))
  /\ stage = "args" /\ pc # "idle" =>
       api = "read_vm_data_full" /\ job.decode /\ ~AllArguments
  /\ stage = "data" =>
       /\ pc # "idle" /\ api = "read_vm_data_full"
       /\ AllArguments /\ ArgAddr # 0 /\ len0 = AddressLen(ArgLen)
       /\ sock.pad = [i \in Index |-> 0]
  /\ AddressIsWhole

RInv == VInv /\ JobInv /\ ArrayInv /\ SocketInv

LEMMA JobKinds ==
  /\ \A j \in ArrayJobs : /\ j.kind = "array" /\ j # NoJob /\ j \notin SocketJobs
                          /\ j.arg \in Long /\ j.index \in Nat /\ j.len \in 0 .. MaxLen
  /\ \A j \in SocketJobs : /\ j.kind = "socket" /\ j # NoJob
                           /\ j.arg_index \in Nat /\ j.regs \in Seq(Long)
                           /\ Len(j.regs) >= 2
<1>1. \A j \in ArrayJobs :
        /\ j.kind = "array" /\ j.arg \in Long /\ j.index \in Nat
        /\ j.len \in 0 .. MaxLen
  BY JobAssumption
<1>2. \A j \in SocketJobs :
        /\ j.kind = "socket" /\ j.arg_index \in Nat /\ j.regs \in Seq(Long)
        /\ Len(j.regs) >= 2
  BY JobAssumption
<1>3. NoJob.kind = "none"
  BY DEF NoJob
<1>. QED
  BY <1>1, <1>2, <1>3

LEMMA LongModulo == \A n \in Nat : n % LongSpan \in Long
<1>1. LongSpan \in Nat \ {0}
  BY MemoryAssumption
<1>. QED
  BY <1>1, AlignDown DEF Long

LEMMA SlotType == \A j \in ArrayJobs : Slot(j) \in Long
<1>. TAKE j \in ArrayJobs
<1>1. j.arg \in Nat /\ j.index \in Nat /\ AbiWord \in Nat
  BY JobKinds, JobAssumption, MemoryAssumption DEF Long
<1>2. j.arg + j.index * AbiWord \in Nat
  BY <1>1
<1>. QED
  BY <1>2, LongModulo DEF Slot

LEMMA WantedType ==
  ASSUME NEW j \in SocketJobs
  PROVE  Wanted(j) \in Seq(Nat) /\ Len(Wanted(j)) >= 2
<1>1. j.arg_index \in Nat
  BY JobKinds
<1>. QED
  BY <1>1 DEF Wanted

LEMMA AddressLenType == \A v \in Long : AddressLen(v) \in 2 .. MaxLen
BY JobAssumption, ReadAssumption, MemoryAssumption
   DEF AddressLen, SizeofU, Long

(* The bytes of the buffer that were stored are values of the tracee. *)
LEMMA StoredIsSeen ==
  ASSUME VInv, NEW i \in Index, i < count
  PROVE  /\ Source(i) \in Addr /\ dest[i] \in seen[Source(i)]
         /\ dest[i] \in Byte /\ dest[i] # Junk
<1>1. Source(i) \in Addr /\ dest[i] \in seen[Source(i)]
  BY DEF VInv, IInv, BytesAreGenuine
<1>2. seen[Source(i)] \subseteq Byte
  BY <1>1 DEF VInv, IInv, TypeOK
<1>. QED
  BY <1>1, <1>2, ReadAssumption

LEMMA InitIsReady == ReadersInit => RInv
<1>. SUFFICES ASSUME Init, JobInit
              PROVE  RInv
  BY DEF ReadersInit
<1>1. VInv
  BY InitEstablishes DEF Init, VInv, HonestInv, ResultIsHonest, WholeInv
<1>2. Untouched \in SockType
  BY DEF Untouched, SockType, Old
<1>3. JobInv
  BY <1>2 DEF JobInit, JobInv
<1>4. ArrayInv /\ SocketInv
  BY DEF JobInit, ArrayInv, SocketInv, MemberIsGenuine, AddressIsWhole
<1>. QED
  BY <1>1, <1>3, <1>4 DEF RInv

(* The steps inside a read, and a stuttering step. *)
LEMMA InsideKeeps ==
  ASSUME RInv, Step \/ Environment \/ UNCHANGED vars, UNCHANGED jobVars
  PROVE  RInv'
<1>1. VInv'
  BY VInvKeeps DEF RInv
<1>2. UNCHANGED callVars /\ (pc' = "idle" <=> pc = "idle")
  BY ZenonT(60) DEF Step, Cread, CreadNul, CreadNulEnd, Lread, LreadEnd, Environment,
         Dispatch, Done, WordByWord, vars
<1>3. JobInv'
  BY DEF RInv, JobInv, jobVars
<1>4. ArrayInv'
  BY <1>2 DEF RInv, ArrayInv, MemberIsGenuine, InOnePage, setup_addr, Slot,
              callVars, jobVars
<1>5. SocketInv'
  BY Zenon, <1>2 DEF RInv, SocketInv, AddressIsWhole, callVars, jobVars, AllArguments,
              ArgAddr, ArgLen, AddressLen
<1>. QED
  BY <1>1, <1>3, <1>4, <1>5 DEF RInv

(* Plain reads of the tracer. *)
LEMMA PlainKeeps ==
  ASSUME RInv, job = NoJob, UNCHANGED jobVars,
         \/ \E f \in Api, a \in Long, l \in 0 .. MaxLen : Call(f, a, l)
         \/ Consume
  PROVE  RInv'
<1>1. VInv'
  BY VInvKeeps DEF RInv
<1>2. stage = "none" /\ stage' = "none"
  BY JobKinds DEF RInv, JobInv, jobVars
<1>3. JobInv'
  BY DEF RInv, JobInv, jobVars
<1>4. ArrayInv' /\ SocketInv'
  BY <1>2 DEF ArrayInv, SocketInv, MemberIsGenuine, AddressIsWhole
<1>. QED
  BY <1>1, <1>3, <1>4 DEF RInv

-----------------------------------------------------------------------------
(* pink_read_string_array *)

LEMMA BeginArrayKeeps ==
  ASSUME RInv, NEW j \in ArrayJobs, BeginArray(j)
  PROVE  RInv'
<1>1. VInv'
  BY VInvKeeps DEF RInv, BeginArray
<1>2. stage = "none"
  BY JobKinds DEF RInv, JobInv, BeginArray
<1>3. JobInv'
  BY <1>2 DEF RInv, JobInv, BeginArray
<1>4. ArrayInv'
  BY <1>2 DEF RInv, JobInv, ArrayInv, MemberIsGenuine, BeginArray, vars
<1>5. SocketInv'
  BY DEF SocketInv, AddressIsWhole, BeginArray
<1>. QED
  BY <1>1, <1>3, <1>4, <1>5 DEF RInv

LEMMA ReadPointerKeeps == RInv /\ ReadPointer => RInv'
<1>. SUFFICES ASSUME RInv, ReadPointer
              PROVE  RInv'
  OBVIOUS
<1>1. job \in ArrayJobs /\ stage = "pointer" /\ UNCHANGED jobVars
  BY DEF RInv, JobInv, ReadPointer
<1>2. Slot(job) \in Long /\ AbiWord \in 0 .. MaxLen /\ "read_vm_data" \in Api
  BY <1>1, SlotType, JobAssumption, MemoryAssumption, ReadAssumption DEF Api
<1>3. VInv'
  BY <1>2, VInvKeeps DEF RInv, ReadPointer
<1>4. JobInv'
  BY <1>1 DEF RInv, JobInv, jobVars
<1>5. ArrayInv'
  <2>1. api' = "read_vm_data" /\ addr0' = Slot(job) /\ len0' = AbiWord
    BY DEF ReadPointer, Call
  <2>2. Slot(job)' = Slot(job)
    BY <1>1 DEF jobVars, Slot
  <2>. QED
    BY <1>1, <2>1, <2>2 DEF RInv, ArrayInv, MemberIsGenuine, jobVars
<1>6. SocketInv'
  BY <1>1 DEF SocketInv, AddressIsWhole, jobVars
<1>. QED
  BY <1>3, <1>4, <1>5, <1>6 DEF RInv

(* A pointer that is read whole is one that the array held. *)
LEMMA WholePointerIsSeen ==
  ASSUME RInv, count = AbiWord, NEW w \in WordsRead
  PROVE  w \in WordsSeen
<1>1. ASSUME NEW i \in WordIndex
      PROVE  Source(i) \in Addr /\ ByteOf(w, i) \in seen[Source(i)]
  <2>1. i \in Index /\ i < count
    BY JobAssumption, MemoryAssumption, ReadAssumption DEF WordIndex, Index
  <2>2. Source(i) \in Addr /\ dest[i] \in seen[Source(i)] /\ dest[i] # Junk
    BY <2>1, StoredIsSeen DEF RInv
  <2>3. ByteOf(w, i) = dest[i]
    BY <2>2 DEF WordsRead
  <2>. QED
    BY <2>2, <2>3
<1>. QED
  BY <1>1 DEF WordsRead, WordsSeen

(* A pointer within one page that is read without an error is one that the  *)
(* array held.                                                              *)
LEMMA ReadPointerIsSeen ==
  ASSUME RInv, stage = "pointer", pc = "done", errno = None, InOnePage,
         NEW w \in WordsRead
  PROVE  w \in WordsSeen
<1>1. api = "read_vm_data" /\ addr0 = Slot(job) /\ len0 = AbiWord
  BY DEF RInv, ArrayInv
<1>2. OnePage(addr0, len0)
  BY <1>1 DEF InOnePage, OnePage, WordIndex
<1>3. count = AbiWord
  BY <1>1, <1>2 DEF RInv, VInv, WholeInv
<1>. QED
  BY <1>3, WholePointerIsSeen

LEMMA UsePointerKeeps == RInv /\ UsePointer => RInv'
<1>. SUFFICES ASSUME RInv, UsePointer
              PROVE  RInv'
  OBVIOUS
<1>1. /\ stage = "pointer" /\ pc = "done" /\ job \in ArrayJobs
      /\ member' = WordsSeen /\ Consume /\ UNCHANGED <<job, args, sock, res>>
      /\ pointer = -1 /\ nullptr = FALSE
  BY DEF RInv, JobInv, ArrayInv, UsePointer
<1>2. VInv'
  BY <1>1, VInvKeeps DEF RInv
<1>3. InOnePage' <=> InOnePage
  BY <1>1 DEF InOnePage, Slot, setup_addr
<1>4. CASE PointerUnread
  <2>1. stage' = "end" /\ UNCHANGED <<nullptr, pointer>>
    BY <1>4 DEF UsePointer
  <2>2. JobInv'
    BY <1>1, <2>1 DEF RInv, JobInv
  <2>3. ArrayInv'
    BY <1>1, <2>1 DEF ArrayInv, MemberIsGenuine
  <2>4. SocketInv'
    <3>1. job'.kind = "array"
      BY <1>1, JobKinds
    <3>. QED
      BY <2>1, <3>1 DEF SocketInv, AddressIsWhole
  <2>. QED
    BY <1>2, <2>2, <2>3, <2>4 DEF RInv
<1>5. CASE ~PointerUnread
  <2>1. PICK w \in WordsRead :
          /\ nullptr' = EndOfArray(w)
          /\ stage' = IF w = 0 THEN "end" ELSE "string"
          /\ pointer' = IF w = 0 THEN pointer ELSE w
    BY <1>5 DEF UsePointer
  <2>2. w \in Word
    BY DEF WordsRead
  <2>3. InOnePage => w \in member'
    BY <1>1, <1>5, ReadPointerIsSeen DEF PointerUnread
  <2>4. JobInv'
    BY <1>1, <2>1 DEF RInv, JobInv
  <2>5. ArrayInv'
    <3>1. CASE w = 0
      BY <1>1, <1>3, <2>1, <2>3, <3>1 DEF ArrayInv, MemberIsGenuine
    <3>2. CASE w # 0
      BY Zenon, <1>1, <1>3, <2>1, <2>2, <2>3, <3>2
         DEF ArrayInv, MemberIsGenuine, EndOfArray
    <3>. QED
      BY <3>1, <3>2
  <2>6. SocketInv'
    BY Zenon, <1>1, <2>1, JobKinds DEF SocketInv, AddressIsWhole
  <2>. QED
    BY <1>2, <2>4, <2>5, <2>6 DEF RInv
<1>. QED
  BY <1>4, <1>5

LEMMA ReadStringKeeps == RInv /\ ReadString => RInv'
<1>. SUFFICES ASSUME RInv, ReadString
              PROVE  RInv'
  OBVIOUS
<1>1. /\ stage = "string" /\ job \in ArrayJobs /\ UNCHANGED jobVars
      /\ pointer \in Long
  BY JobAssumption DEF RInv, JobInv, ArrayInv, ReadString
<1>2. job.len \in 0 .. MaxLen /\ "read_vm_data_nul" \in Api
  BY <1>1, JobKinds DEF Api
<1>3. VInv'
  BY <1>1, <1>2, VInvKeeps DEF RInv, ReadString
<1>4. JobInv'
  BY <1>1 DEF RInv, JobInv, jobVars
<1>5. ArrayInv'
  BY <1>1 DEF RInv, ArrayInv, MemberIsGenuine, InOnePage, Slot, setup_addr, jobVars
<1>6. SocketInv'
  BY Zenon, <1>1 DEF SocketInv, AddressIsWhole, jobVars
<1>. QED
  BY <1>3, <1>4, <1>5, <1>6 DEF RInv

LEMMA StringReadKeeps == RInv /\ StringRead => RInv'
<1>. SUFFICES ASSUME RInv, StringRead
              PROVE  RInv'
  OBVIOUS
<1>1. /\ stage = "string" /\ stage' = "end" /\ job \in ArrayJobs /\ Consume
      /\ UNCHANGED <<job, args, member, pointer, nullptr, sock>>
  BY DEF RInv, JobInv, StringRead
<1>2. VInv'
  BY <1>1, VInvKeeps DEF RInv
<1>3. JobInv'
  BY <1>1 DEF RInv, JobInv
<1>4. ArrayInv'
  BY Zenon, <1>1 DEF RInv, ArrayInv, MemberIsGenuine, InOnePage, Slot, setup_addr
<1>5. SocketInv'
  BY Zenon, <1>1, JobKinds DEF SocketInv, AddressIsWhole
<1>. QED
  BY <1>2, <1>3, <1>4, <1>5 DEF RInv

LEMMA ForgetKeeps == RInv /\ Forget => RInv'
<1>. SUFFICES ASSUME RInv, Forget
              PROVE  RInv'
  OBVIOUS
<1>1. VInv'
  BY VInvKeeps DEF RInv, Forget
<1>2. Untouched \in SockType
  BY DEF Untouched, SockType, Old
<1>3. JobInv'
  BY <1>2 DEF Forget, JobInv
<1>4. ArrayInv' /\ SocketInv'
  BY Zenon DEF Forget, ArrayInv, SocketInv, MemberIsGenuine, AddressIsWhole
<1>. QED
  BY <1>1, <1>3, <1>4 DEF RInv

-----------------------------------------------------------------------------
(* pink_read_socket_argument and pink_read_socket_address *)

LEMMA BeginSocketKeeps ==
  ASSUME RInv, NEW j \in SocketJobs, BeginSocket(j)
  PROVE  RInv'
<1>1. VInv'
  BY VInvKeeps DEF RInv, BeginSocket
<1>2. stage = "none" /\ args = <<>> /\ sock = Untouched /\ res = None
  BY JobKinds DEF RInv, JobInv, BeginSocket
<1>3. JobInv'
  BY <1>2 DEF RInv, JobInv, BeginSocket
<1>4. ArrayInv'
  BY DEF ArrayInv, MemberIsGenuine, BeginSocket
<1>5. SocketInv'
  <2>1. /\ stage' = "args" /\ job' = j /\ args' = <<>> /\ pc' = "idle"
        /\ sock' = Untouched /\ res' = None
    BY <1>2 DEF BeginSocket, vars
  <2>2. Untouched.family = Old /\ Untouched.length = Old
    BY DEF Untouched
  <2>3. Len(<<>>) <= Len(Wanted(j))
    <3>1. Len(<<>>) = 0 /\ Len(Wanted(j)) \in Nat
      BY WantedType
    <3>. QED
      BY <3>1
  <2>. QED
    BY <2>1, <2>2, <2>3 DEF SocketInv, AddressIsWhole
<1>. QED
  BY <1>1, <1>3, <1>4, <1>5 DEF RInv

(* The index of the argument that is read next. *)
LEMMA ArgIndexType ==
  ASSUME RInv, stage = "args", ~AllArguments
  PROVE  ArgIndex \in Nat /\ Len(args) + 1 <= Len(Wanted(job)) /\ Len(args) \in Nat
<1>1. job \in SocketJobs /\ Len(args) <= Len(Wanted(job)) /\ args \in Seq(Long)
  BY Zenon DEF RInv, JobInv, SocketInv
<1>2. Wanted(job) \in Seq(Nat) /\ Len(Wanted(job)) \in Nat
  BY <1>1, WantedType
<1>3. Len(args) \in Nat /\ Len(args) # Len(Wanted(job))
  BY <1>1 DEF AllArguments
<1>4. Len(args) + 1 \in 1 .. Len(Wanted(job))
  BY <1>1, <1>2, <1>3
<1>5. Wanted(job)[Len(args) + 1] \in Nat
  BY <1>2, <1>4
<1>. QED
  BY <1>2, <1>3, <1>4, <1>5 DEF ArgIndex

(* An argument was read, or could not be read. *)
LEMMA HaveArgumentKeeps ==
  ASSUME RInv, stage = "args", ~AllArguments, NEW v \in Long, HaveArgument(v),
         pc' = "idle", job' = job
  PROVE  JobInv' /\ ArrayInv' /\ SocketInv'
<1>1. /\ args' = Append(args, v) /\ stage' = "args" /\ res' = res
      /\ sock' = sock \/ sock' = [sock EXCEPT !.fd = v]
  BY DEF HaveArgument
<1>2. /\ job \in SocketJobs /\ args \in Seq(Long) /\ sock \in SockType
      /\ res = None /\ sock.family = Old /\ sock.length = Old
  BY DEF RInv, JobInv, SocketInv
<1>3. args' \in Seq(Long) /\ Len(args') = Len(args) + 1
  BY <1>1, <1>2
<1>4. sock' \in SockType /\ sock'.family = Old /\ sock'.length = Old
  BY <1>1, <1>2 DEF SockType
<1>5. JobInv'
  BY <1>1, <1>2, <1>3, <1>4 DEF JobInv
<1>6. ArrayInv'
  BY <1>1 DEF ArrayInv, MemberIsGenuine
<1>7. Len(args') <= Len(Wanted(job'))
  BY <1>3, ArgIndexType
<1>8. SocketInv'
  BY <1>1, <1>2, <1>4, <1>7 DEF SocketInv, AddressIsWhole
<1>. QED
  BY <1>5, <1>6, <1>8

LEMMA FailKeeps ==
  ASSUME RInv, stage = "args", NEW e, e # None, Fail(e), job' = job
  PROVE  JobInv' /\ ArrayInv' /\ SocketInv'
<1>1. stage' = "end" /\ res' = e /\ UNCHANGED <<args, sock>>
  BY DEF Fail
<1>2. /\ job \in SocketJobs /\ sock.family = Old /\ sock.length = Old
      /\ args \in Seq(Long) /\ sock \in SockType
  BY DEF RInv, JobInv, SocketInv
<1>3. JobInv'
  BY <1>1, <1>2 DEF JobInv
<1>4. ArrayInv'
  BY <1>1, <1>2, JobKinds DEF ArrayInv, MemberIsGenuine
<1>5. SocketInv'
  BY Zenon, <1>1, <1>2 DEF SocketInv, AddressIsWhole
<1>. QED
  BY <1>3, <1>4, <1>5

LEMMA RegisterArgumentKeeps == RInv /\ RegisterArgument => RInv'
<1>. SUFFICES ASSUME RInv, RegisterArgument
              PROVE  RInv'
  OBVIOUS
<1>1. /\ stage = "args" /\ ~job.decode /\ ~AllArguments /\ job \in SocketJobs
      /\ UNCHANGED <<vars, job>>
  BY DEF RInv, JobInv, RegisterArgument
<1>2. VInv'
  BY <1>1, VInvKeeps DEF RInv
<1>3. pc' = "idle"
  BY Zenon, <1>1 DEF RInv, SocketInv, vars
<1>4. CASE ArgIndex >= Len(job.regs)
  <2>1. Fail("EINVAL") /\ "EINVAL" # None
    BY Zenon, <1>4 DEF RegisterArgument, None
  <2>. QED
    BY <1>1, <1>2, <2>1, FailKeeps DEF RInv
<1>5. CASE ~(ArgIndex >= Len(job.regs))
  <2>1. job.regs \in Seq(Long) /\ Len(job.regs) \in Nat
    <3>1. job.regs \in Seq(Long)
      BY Zenon, <1>1, JobKinds
    <3>. QED
      BY <3>1
  <2>2. ArgIndex + 1 \in 1 .. Len(job.regs)
    BY <1>1, <1>5, <2>1, ArgIndexType
  <2>3. job.regs[ArgIndex + 1] \in Long
    BY <2>1, <2>2
  <2>4. HaveArgument(job.regs[ArgIndex + 1])
    BY <1>5 DEF RegisterArgument
  <2>. QED
    BY Zenon, <1>1, <1>2, <1>3, <2>3, <2>4, HaveArgumentKeeps DEF RInv
<1>. QED
  BY <1>4, <1>5

(* The place of an argument of socketcall. *)
LEMMA ArgumentAddress ==
  ASSUME RInv, stage = "args", ~AllArguments
  PROVE  (job.regs[2] + ArgIndex * AbiWord) % LongSpan \in Long
<1>1. job \in SocketJobs
  BY DEF RInv, JobInv
<1>2. job.regs \in Seq(Long) /\ 2 \in 1 .. Len(job.regs)
  BY <1>1, JobKinds
<1>3. job.regs[2] \in Long
  BY <1>2
<1>4. job.regs[2] \in Nat /\ AbiWord \in Nat /\ ArgIndex \in Nat
  BY <1>3, ArgIndexType, JobAssumption, MemoryAssumption DEF Long
<1>5. job.regs[2] + ArgIndex * AbiWord \in Nat
  BY <1>4
<1>. QED
  BY <1>5, LongModulo

LEMMA ReadArgumentKeeps == RInv /\ ReadArgument => RInv'
<1>. SUFFICES ASSUME RInv, ReadArgument
              PROVE  RInv'
  OBVIOUS
<1>. DEFINE a == (job.regs[2] + ArgIndex * AbiWord) % LongSpan
<1>1. /\ stage = "args" /\ job.decode /\ ~AllArguments /\ job \in SocketJobs
      /\ UNCHANGED jobVars /\ Call("read_vm_data_full", a, AbiWord)
  BY DEF RInv, JobInv, ReadArgument
<1>2. a \in Long
  BY <1>1, ArgumentAddress
<1>. HIDE DEF a
<1>3. AbiWord \in 0 .. MaxLen /\ "read_vm_data_full" \in Api
  BY JobAssumption, MemoryAssumption, ReadAssumption DEF Api
<1>4. VInv'
  BY <1>1, <1>2, <1>3, VInvKeeps DEF RInv
<1>5. JobInv'
  BY <1>1 DEF RInv, JobInv, jobVars
<1>6. ArrayInv'
  BY <1>1 DEF ArrayInv, MemberIsGenuine, jobVars
<1>7. SocketInv'
  BY Zenon, <1>1 DEF RInv, SocketInv, AddressIsWhole, AllArguments, jobVars, Call
<1>. QED
  BY <1>4, <1>5, <1>6, <1>7 DEF RInv

LEMMA ArgumentReadKeeps == RInv /\ ArgumentRead => RInv'
<1>. SUFFICES ASSUME RInv, ArgumentRead
              PROVE  RInv'
  OBVIOUS
<1>1. /\ stage = "args" /\ pc = "done" /\ job' = job /\ Consume
      /\ ~AllArguments
  BY Zenon DEF RInv, SocketInv, ArgumentRead
<1>2. VInv' /\ pc' = "idle"
  BY <1>1, VInvKeeps DEF RInv, Consume
<1>3. CASE rc # None
  <2>1. Fail(rc)
    BY <1>3 DEF ArgumentRead
  <2>. QED
    BY <1>1, <1>2, <1>3, <2>1, FailKeeps DEF RInv
<1>4. CASE rc = None
  <2>1. PICK w \in WordsRead : HaveArgument(w)
    BY <1>4 DEF ArgumentRead
  <2>2. w \in Long
    BY JobAssumption DEF WordsRead
  <2>. QED
    BY <1>1, <1>2, <2>1, <2>2, HaveArgumentKeeps DEF RInv
<1>. QED
  BY <1>3, <1>4

(* The bytes of a socket address are changed in place. *)
LEMMA SockPadded ==
  ASSUME NEW s \in SockType, NEW p \in [Index -> Byte \cup {Junk}]
  PROVE  LET t == [s EXCEPT !.pad = p]
         IN  /\ t \in SockType
             /\ t.pad = p /\ t.family = s.family /\ t.length = s.length
BY DEF SockType

(* All arguments are there: the last two are the address and its length. *)
LEMMA LastArguments ==
  ASSUME RInv, stage \in {"args", "data"}, AllArguments
  PROVE  ArgAddr \in Long /\ AddressLen(ArgLen) \in 2 .. MaxLen
<1>1. job \in SocketJobs /\ args \in Seq(Long)
  BY DEF RInv, JobInv
<1>2. Len(args) \in Nat /\ Len(args) >= 2
  BY <1>1, WantedType DEF AllArguments
<1>3. Len(args) - 1 \in 1 .. Len(args) /\ Len(args) \in 1 .. Len(args)
  BY <1>2
<1>4. args[Len(args) - 1] \in Long /\ args[Len(args)] \in Long
  BY <1>1, <1>3
<1>. QED
  BY <1>4, AddressLenType DEF ArgAddr, ArgLen

LEMMA NoAddressKeeps == RInv /\ NoAddress => RInv'
<1>. SUFFICES ASSUME RInv, NoAddress
              PROVE  RInv'
  OBVIOUS
<1>1. /\ stage = "args" /\ ArgAddr = 0 /\ stage' = "end"
      /\ sock' = [fd |-> sock.fd, family |-> -1, length |-> 0, pad |-> sock.pad]
      /\ UNCHANGED <<vars, job, args, res>>
  BY DEF NoAddress
<1>2. job \in SocketJobs /\ args \in Seq(Long) /\ sock \in SockType /\ res = None
  BY ZenonT(60), <1>1 DEF RInv, JobInv, SocketInv
<1>3. VInv'
  BY <1>1, VInvKeeps DEF RInv
<1>4. sock' \in SockType /\ sock'.family = -1 /\ sock'.length = 0
  BY <1>1, <1>2 DEF SockType
<1>5. JobInv'
  BY <1>1, <1>2, <1>4 DEF JobInv
<1>6. ArrayInv'
  BY Zenon, <1>1, <1>2, JobKinds DEF ArrayInv, MemberIsGenuine
<1>7. ArgAddr' = 0
  BY Zenon, <1>1 DEF ArgAddr
<1>8. SocketInv'
  BY Zenon, <1>1, <1>2, <1>4, <1>7 DEF SocketInv, AddressIsWhole
<1>. QED
  BY <1>3, <1>5, <1>6, <1>8 DEF RInv

LEMMA ReadAddressKeeps == RInv /\ ReadAddress => RInv'
<1>. SUFFICES ASSUME RInv, ReadAddress
              PROVE  RInv'
  OBVIOUS
<1>1. /\ stage = "args" /\ AllArguments /\ ArgAddr # 0 /\ stage' = "data"
      /\ Call("read_vm_data_full", ArgAddr, AddressLen(ArgLen))
      /\ sock' = [sock EXCEPT !.pad = [i \in Index |-> 0]]
      /\ UNCHANGED <<job, args, res>>
  BY DEF ReadAddress
<1>2. /\ job \in SocketJobs /\ args \in Seq(Long) /\ sock \in SockType
      /\ res = None /\ sock.family = Old /\ sock.length = Old
      /\ Len(args) <= Len(Wanted(job))
  BY <1>1 DEF RInv, JobInv, SocketInv
<1>3. /\ ArgAddr \in Long /\ AddressLen(ArgLen) \in 0 .. MaxLen
      /\ "read_vm_data_full" \in Api
  BY <1>1, LastArguments, ReadAssumption DEF Api
<1>4. VInv'
  BY <1>1, <1>3, VInvKeeps DEF RInv
<1>5. /\ sock' \in SockType /\ sock'.family = Old /\ sock'.length = Old
      /\ sock'.pad = [i \in Index |-> 0]
  <2>1. [i \in Index |-> 0] \in [Index -> Byte \cup {Junk}]
    BY MemoryAssumption DEF Byte
  <2>. QED
    BY Zenon, <1>1, <1>2, <2>1, SockPadded
<1>6. JobInv'
  BY <1>1, <1>2, <1>5 DEF JobInv
<1>7. ArrayInv'
  BY <1>1 DEF ArrayInv, MemberIsGenuine
<1>8. SocketInv'
  <2>1. /\ pc' = "cread" /\ api' = "read_vm_data_full"
        /\ len0' = AddressLen(ArgLen)
    BY <1>1 DEF Call, CrossAttach
  <2>2. AllArguments' /\ ArgAddr' # 0 /\ AddressLen(ArgLen)' = AddressLen(ArgLen)
    BY <1>1 DEF AllArguments, ArgAddr, ArgLen, AddressLen
  <2>. QED
    BY <1>1, <1>2, <1>5, <2>1, <2>2 DEF SocketInv, AddressIsWhole
<1>. QED
  BY <1>4, <1>6, <1>7, <1>8 DEF RInv

LEMMA TerminatedIs ==
  ASSUME NEW p \in [Index -> Byte], 0 \in Byte, MaxLen - 1 \in Index
  PROVE  /\ Terminated(p) \in [Index -> Byte] /\ Terminated(p)[MaxLen - 1] = 0
         /\ \A i \in Index : i # MaxLen - 1 => Terminated(p)[i] = p[i]
BY DEF Terminated, SizeofU

LEMMA AddressReadKeeps == RInv /\ AddressRead => RInv'
<1>. SUFFICES ASSUME RInv, AddressRead
              PROVE  RInv'
  OBVIOUS
<1>. DEFINE pad == [i \in Index |-> IF dest[i] # Junk THEN dest[i] ELSE sock.pad[i]]
            n == AddressLen(ArgLen)
<1>1. /\ stage = "data" /\ pc = "done" /\ stage' = "end" /\ res' = rc
      /\ sock' = IF rc # None THEN [sock EXCEPT !.pad = pad]
                 ELSE [fd |-> sock.fd, family |-> pad[0],
                       length |-> AddressLen(ArgLen), pad |-> Terminated(pad)]
      /\ member' = {x \in Index \X Byte :
                      Source(x[1]) \in Addr /\ x[2] \in seen[Source(x[1])]}
      /\ Consume /\ UNCHANGED <<job, args>>
  BY DEF AddressRead
<1>2. /\ job \in SocketJobs /\ args \in Seq(Long) /\ sock \in SockType
      /\ sock.family = Old /\ sock.length = Old
      /\ api = "read_vm_data_full" /\ AllArguments /\ ArgAddr # 0 /\ len0 = n
      /\ sock.pad = [i \in Index |-> 0]
  BY <1>1 DEF RInv, JobInv, SocketInv
<1>3. VInv'
  BY <1>1, VInvKeeps DEF RInv
<1>4. n \in 2 .. MaxLen
  BY <1>1, <1>2, LastArguments
<1>5. 0 \in Byte /\ 0 \in Index /\ MaxLen \in Nat /\ MaxLen - 1 \in Index
      /\ MaxLen - 1 # 0
  BY MemoryAssumption, ReadAssumption, JobAssumption DEF Byte, Index
<1>6. pad \in [Index -> Byte]
  <2>1. dest \in [Index -> Byte \cup {Junk}]
    BY DEF RInv, VInv, IInv, TypeOK
  <2>. QED
    BY Zenon, <1>2, <1>5, <2>1, ReadAssumption
<1>7. /\ Terminated(pad) \in [Index -> Byte] /\ Terminated(pad)[MaxLen - 1] = 0
      /\ \A i \in Index : i # MaxLen - 1 => Terminated(pad)[i] = pad[i]
  BY Zenon, <1>5, <1>6, TerminatedIs
<1>8. ArrayInv'
  BY <1>1, <1>2, JobKinds DEF ArrayInv, MemberIsGenuine
<1>9. ArgAddr' = ArgAddr /\ AddressLen(ArgLen)' = n
  BY <1>1 DEF ArgAddr, ArgLen, AddressLen
<1>10. CASE rc # None
  <2>1. sock' = [sock EXCEPT !.pad = pad]
    BY <1>1, <1>10
  <2>. HIDE DEF pad
  <2>2. sock' \in SockType /\ sock'.family = Old /\ sock'.length = Old
    BY <1>2, <1>6, <2>1 DEF SockType
  <2>3. JobInv'
    BY <1>1, <1>2, <2>2 DEF JobInv
  <2>4. SocketInv'
    BY <1>1, <1>10, <2>2 DEF SocketInv, AddressIsWhole
  <2>. QED
    BY <1>3, <1>8, <2>3, <2>4 DEF RInv
<1>11. CASE rc = None
  <2>1. count = n
    BY <1>1, <1>2, <1>11 DEF RInv, VInv, HonestInv, ResultIsHonest
  <2>2. ASSUME NEW i \in Index
        PROVE  IF i < n THEN <<i, pad[i]>> \in member' ELSE pad[i] = 0
    <3>1. CASE i < n
      <4>1. /\ Source(i) \in Addr /\ dest[i] \in seen[Source(i)]
            /\ dest[i] \in Byte /\ dest[i] # Junk
        BY Zenon, <2>1, <3>1, StoredIsSeen DEF RInv
      <4>2. pad[i] = dest[i]
        BY <4>1
      <4>3. <<i, dest[i]>> \in member'
        BY <1>1, <4>1
      <4>. QED
        BY Zenon, <3>1, <4>2, <4>3
    <3>2. CASE ~(i < n)
      <4>1. i >= len0
        BY <1>2, <1>4, <3>2 DEF Index
      <4>2. dest[i] = Junk
        BY <4>1 DEF RInv, VInv, IInv, BytesAreGenuine
      <4>. QED
        BY <1>2, <3>2, <4>2
    <3>. QED
      BY Zenon, <3>1, <3>2
  <2>3. sock' = [fd |-> sock.fd, family |-> pad[0], length |-> n,
                 pad |-> Terminated(pad)]
    BY <1>1, <1>11
  <2>. HIDE DEF pad, n
  <2>4. pad[0] \in Int
    BY <1>5, <1>6, MemoryAssumption DEF Byte
  <2>5. /\ sock' \in SockType /\ sock'.family = pad[0] /\ sock'.length = n
        /\ sock'.pad = Terminated(pad)
    <3>1. /\ Terminated(pad) \in [Index -> Byte \cup {Junk}]
          /\ pad[0] \in Int \cup {Junk} /\ n \in Int
      <4>1. n \in Int
        BY <1>4
      <4>. QED
        BY Zenon, <4>1, <1>7, <2>4
    <3>. QED
      BY Zenon, <1>2, <2>3, <3>1 DEF SockType
  <2>6. JobInv'
    BY <1>1, <1>2, <2>5 DEF JobInv
  <2>7. sock'.family = sock'.pad[0] /\ sock'.pad[SizeofU - 1] = 0
    BY <1>5, <1>7, <2>5 DEF SizeofU
  <2>8. ASSUME NEW i \in 0 .. SizeofU - 2
        PROVE  IF i < sock'.length THEN <<i, sock'.pad[i]>> \in member'
               ELSE sock'.pad[i] = 0
    <3>1. i \in Index /\ i # MaxLen - 1
      BY <1>5 DEF Index, SizeofU
    <3>2. sock'.pad[i] = pad[i] /\ sock'.length = n
      BY <1>7, <2>5, <3>1
    <3>. QED
      BY <2>2, <3>1, <3>2
  <2>9. SocketInv'
    BY <1>1, <1>2, <1>9, <1>11, <2>5, <2>7, <2>8
       DEF SocketInv, AddressIsWhole, SizeofU
  <2>. QED
    BY <1>3, <1>8, <2>6, <2>9 DEF RInv
<1>. QED
  BY <1>10, <1>11

-----------------------------------------------------------------------------
LEMMA ReadersNextKeeps == RInv /\ [ReadersNext]_allVars => RInv'
<1>. SUFFICES ASSUME RInv, [ReadersNext]_allVars
              PROVE  RInv'
  BY Zenon
<1>1. CASE /\ job = NoJob
           /\ \/ \E f \in Api, reg \in 0 .. AbiSpan - 1, l \in 0 .. MaxLen :
                   Call(f, ArgumentOf(reg), l)
              \/ Consume
           /\ UNCHANGED jobVars
  BY <1>1, PlainKeeps, ArgumentIsLong
<1>2. CASE (Step \/ Environment) /\ UNCHANGED jobVars
  BY <1>2, InsideKeeps
<1>3. CASE \/ \E j \in ArrayJobs : BeginArray(j)
           \/ \E j \in SocketJobs : BeginSocket(j)
  BY <1>3, BeginArrayKeeps, BeginSocketKeeps
<1>4. CASE JobStep
  BY <1>4, ReadPointerKeeps, UsePointerKeeps, ReadStringKeeps, StringReadKeeps,
     RegisterArgumentKeeps, ReadArgumentKeeps, ArgumentReadKeeps,
     NoAddressKeeps, ReadAddressKeeps, AddressReadKeeps DEF JobStep
<1>5. CASE Forget
  BY Zenon, <1>5, ForgetKeeps
<1>6. CASE UNCHANGED allVars
  BY <1>6, InsideKeeps DEF allVars
<1>. QED
  BY Zenon, <1>1, <1>2, <1>3, <1>4, <1>5, <1>6 DEF ReadersNext

LEMMA ReadersInvariant == ReadersSpec => []RInv
BY InitIsReady, ReadersNextKeeps, PTL DEF ReadersSpec

(* Also inside the calls that read several times, every byte that is stored *)
(* is genuine, and what a read reports is what it did.                      *)
THEOREM JobReadsAreGenuine == ReadersSpec => [](BytesAreGenuine /\ ResultIsHonest)
<1>1. RInv => BytesAreGenuine /\ ResultIsHonest
  BY DEF RInv, VInv, IInv, HonestInv
<1>. QED
  BY <1>1, ReadersInvariant, PTL

(* The strings that pink_read_string_array reads are at pointers that the   *)
(* array held while it was read, and its end is reported only at a null     *)
(* pointer, for arrays whose members do not straddle pages.                 *)
THEOREM MembersAreGenuine == ReadersSpec => []MemberIsGenuine
<1>1. RInv => MemberIsGenuine
  BY DEF RInv, ArrayInv
<1>. QED
  BY <1>1, ReadersInvariant, PTL

(* pink_read_socket_address fills in a whole address of the tracee or none, *)
(* whichever of its up to four reads fails.                                 *)
THEOREM AddressesAreWhole == ReadersSpec => []AddressIsWhole
<1>1. RInv => AddressIsWhole
  BY Zenon DEF RInv, SocketInv
<1>. QED
  BY <1>1, ReadersInvariant, PTL

-----------------------------------------------------------------------------
(* What the jobs do to the reads: they call them with addresses and lengths *)
(* of their types, and look at the results.                                 *)
ReadStep ==
  \/ \E f \in Api, a \in Long, l \in 0 .. MaxLen : Call(f, a, l)
  \/ Step \/ Consume \/ Environment \/ UNCHANGED vars

LEMMA JobsRead == RInv /\ [ReadersNext]_allVars => ReadStep
<1>. SUFFICES ASSUME RInv, [ReadersNext]_allVars
              PROVE  ReadStep
  OBVIOUS
<1>1. CASE ReadPointer
  <2>1. Slot(job) \in Long /\ AbiWord \in 0 .. MaxLen /\ "read_vm_data" \in Api
    <3>1. job \in ArrayJobs
      BY <1>1 DEF RInv, JobInv, ReadPointer
    <3>. QED
      BY <3>1, SlotType, JobAssumption, MemoryAssumption, ReadAssumption DEF Api
  <2>. QED
    BY <1>1, <2>1 DEF ReadPointer, ReadStep
<1>2. CASE ReadString
  <2>1. job \in ArrayJobs /\ pointer \in Long
    BY <1>2, JobAssumption DEF RInv, JobInv, ArrayInv, ReadString
  <2>2. job.len \in 0 .. MaxLen /\ "read_vm_data_nul" \in Api
    BY <2>1, JobKinds DEF Api
  <2>. QED
    BY <1>2, <2>1, <2>2 DEF ReadString, ReadStep
<1>3. CASE ReadArgument
  <2>. DEFINE a == (job.regs[2] + ArgIndex * AbiWord) % LongSpan
  <2>1. a \in Long
    BY <1>3, ArgumentAddress DEF ReadArgument
  <2>2. Call("read_vm_data_full", a, AbiWord)
    BY <1>3 DEF ReadArgument
  <2>. HIDE DEF a
  <2>3. AbiWord \in 0 .. MaxLen /\ "read_vm_data_full" \in Api
    BY JobAssumption, MemoryAssumption, ReadAssumption DEF Api
  <2>. QED
    BY <2>1, <2>2, <2>3 DEF ReadStep
<1>4. CASE ReadAddress
  <2>1. /\ ArgAddr \in Long /\ AddressLen(ArgLen) \in 0 .. MaxLen
        /\ "read_vm_data_full" \in Api
    BY <1>4, LastArguments, ReadAssumption DEF Api, ReadAddress
  <2>. QED
    BY <1>4, <2>1 DEF ReadAddress, ReadStep
<1>5. CASE UsePointer \/ StringRead \/ ArgumentRead \/ AddressRead
  BY <1>5 DEF UsePointer, StringRead, ArgumentRead, AddressRead, ReadStep
<1>6. CASE \/ RegisterArgument \/ NoAddress \/ Forget
           \/ \E j \in ArrayJobs : BeginArray(j)
           \/ \E j \in SocketJobs : BeginSocket(j)
           \/ UNCHANGED allVars
  BY Zenon, <1>6 DEF RegisterArgument, NoAddress, Forget, BeginArray, BeginSocket, allVars,
              ReadStep
<1>7. CASE \E f \in Api, reg \in 0 .. AbiSpan - 1, l \in 0 .. MaxLen :
             Call(f, ArgumentOf(reg), l)
  BY <1>7, ArgumentIsLong DEF ReadStep
<1>. QED
  BY <1>1, <1>2, <1>3, <1>4, <1>5, <1>6, <1>7 DEF ReadersNext, JobStep, ReadStep

(* In the counts of pink_read_vm_data_nul, which every string of an array is *)
(* read with, the zero-byte is included when process_vm_readv serves it.     *)
THEOREM JobNulCounts == ReadersSpec => []CrossAttachNulCount
<1>1. ReadersInit => NulInv
  BY DEF ReadersInit, Init, NulInv, CrossAttachNulCount
<1>2. RInv /\ NulInv /\ [ReadersNext]_allVars => NulInv'
  BY JobsRead, StepCounts, OthersCount DEF ReadStep, RInv, VInv
<1>3. NulInv => CrossAttachNulCount
  BY DEF NulInv
<1>. QED
  BY <1>1, <1>2, <1>3, ReadersInvariant, PTL DEF ReadersSpec

-----------------------------------------------------------------------------
(* The tracee has the tracer's own ABI: no address is cut. *)
Native == AbiSpan = LongSpan

LEMMA NativeIsUncut == Native => Uncut
BY MemoryAssumption DEF Native, Uncut, setup_addr

LEMMA JobsAreComplete ==
  WordsFit /\ Native /\ RInv /\ CompleteInv /\ [ReadersNext]_allVars => CompleteInv'
BY JobsRead, NativeIsUncut, StepIsComplete, OthersAreComplete DEF ReadStep, RInv, VInv

(* Also inside the calls that read several times, what stays accessible is  *)
(* read to the end.                                                         *)
THEOREM JobReadsSucceed ==
  ASSUME WordsFit, Native
  PROVE  ReadersSpec => []AccessibleReadSucceeds
<1>1. ReadersInit => CompleteInv
  BY DEF ReadersInit, Init, CompleteInv
<1>2. CompleteInv => AccessibleReadSucceeds
  BY DEF CompleteInv, Available, AccessibleReadSucceeds
<1>. QED
  BY <1>1, <1>2, JobsAreComplete, ReadersInvariant, PTL DEF ReadersSpec

(* While the string of a member is read, and when the call is over, the      *)
(* pointer is a member that is not null, unless its place is gone by then.   *)
SlotAvailable ==
  alive /\ \A i \in WordIndex : Accessible(setup_addr(Slot(job)) + i)

NullInv ==
  /\ stage = "string" => pointer # 0 /\ (SlotAvailable => pointer \in member)
  /\ stage = "end" /\ job.kind = "array" /\ SlotAvailable =>
       nullptr \/ (pointer # 0 /\ pointer \in member)

LEMMA AvailabilityShrinks ==
  ASSUME ReadStep, job' = job, SlotAvailable'
  PROVE  SlotAvailable
<1>1. mapped' \subseteq mapped /\ (alive' => alive)
  <2>1. CASE \/ \E f \in Api, a \in Long, l \in 0 .. MaxLen : Call(f, a, l)
             \/ Step \/ Consume \/ UNCHANGED vars
    <3>1. UNCHANGED memVars
      BY Zenon, <2>1 DEF Call, Step, Cread, CreadNul, CreadNulEnd, Lread, LreadEnd, Consume,
                  vars
    <3>. QED
      BY <3>1 DEF memVars
  <2>2. CASE Environment
    BY Zenon, <2>2 DEF Environment, Store, Unmap, Revoke, Killed
  <2>. QED
    BY <2>1, <2>2 DEF ReadStep
<1>2. Slot(job)' = Slot(job) /\ setup_addr(Slot(job))' = setup_addr(Slot(job))
  BY DEF Slot, setup_addr
<1>. QED
  BY <1>1, <1>2 DEF SlotAvailable, Accessible

LEMMA UsePointerReports ==
  ASSUME RInv, CompleteInv, UsePointer, ReadStep
  PROVE  NullInv'
<1>1. /\ stage = "pointer" /\ pc = "done" /\ job \in ArrayJobs /\ job' = job
      /\ member' = WordsSeen
      /\ api = "read_vm_data" /\ addr0 = Slot(job) /\ len0 = AbiWord
  BY DEF RInv, JobInv, ArrayInv, UsePointer
<1>2. SlotAvailable' => SlotAvailable
  BY <1>1, AvailabilityShrinks
<1>3. AbiWord \in Nat /\ AbiWord > 0
  BY JobAssumption, MemoryAssumption
<1>4. ASSUME SlotAvailable
      PROVE  errno = None /\ count = AbiWord
  <2>1. Available
    BY <1>1, <1>4 DEF SlotAvailable, Available, Source, WordIndex
  <2>2. ret = AbiWord /\ errno = None
    BY <1>1, <1>3, <2>1 DEF CompleteInv
  <2>. QED
    BY <1>1, <1>3, <2>2 DEF RInv, VInv, HonestInv, ResultIsHonest
<1>5. CASE PointerUnread
  <2>1. stage' = "end" /\ ~SlotAvailable
    BY <1>4, <1>5 DEF UsePointer, PointerUnread
  <2>. QED
    BY <1>2, <2>1 DEF NullInv
<1>6. CASE ~PointerUnread
  <2>1. PICK w \in WordsRead :
          /\ nullptr' = EndOfArray(w)
          /\ stage' = IF w = 0 THEN "end" ELSE "string"
          /\ pointer' = IF w = 0 THEN pointer ELSE w
    BY <1>6 DEF UsePointer
  <2>2. SlotAvailable => w \in member'
    BY <1>1, <1>4, WholePointerIsSeen
  <2>3. CASE w = 0
    BY Zenon, <2>1, <2>3 DEF NullInv, EndOfArray
  <2>4. CASE w # 0
    <3>1. stage' = "string" /\ pointer' = w
      BY <2>1, <2>4
    <3>. QED
      BY <1>2, <2>2, <2>4, <3>1 DEF NullInv
  <2>. QED
    BY <2>3, <2>4
<1>. QED
  BY <1>5, <1>6

LEMMA NullInvKeeps ==
  ASSUME RInv, CompleteInv, NullInv, [ReadersNext]_allVars
  PROVE  NullInv'
<1>0. ReadStep
  BY JobsRead
<1>1. CASE UsePointer
  BY <1>0, <1>1, UsePointerReports
<1>2. CASE StringRead
  <2>1. /\ stage = "string" /\ stage' = "end"
        /\ UNCHANGED <<job, member, pointer, nullptr>>
    BY <1>2 DEF StringRead
  <2>2. SlotAvailable' => SlotAvailable
    BY <1>0, <2>1, AvailabilityShrinks
  <2>. QED
    BY <2>1, <2>2 DEF NullInv
<1>3. CASE UNCHANGED jobVars
  <2>1. UNCHANGED <<job, stage, member, pointer, nullptr>>
    BY <1>3 DEF jobVars
  <2>2. SlotAvailable' => SlotAvailable
    BY <1>0, <2>1, AvailabilityShrinks
  <2>. QED
    BY <2>1, <2>2 DEF NullInv
<1>4. CASE RegisterArgument \/ ArgumentRead \/ NoAddress \/ ReadAddress \/ AddressRead
  <2>1. stage \in {"args", "data"} /\ job' = job
    BY <1>4 DEF RegisterArgument, ArgumentRead, NoAddress, ReadAddress, AddressRead
  <2>2. job'.kind = "socket"
    BY <2>1, JobKinds DEF RInv, JobInv
  <2>3. stage' # "string"
    BY <1>4 DEF RegisterArgument, ArgumentRead, NoAddress, ReadAddress, AddressRead,
                HaveArgument, Fail
  <2>. QED
    BY <2>2, <2>3 DEF NullInv
<1>5. CASE \/ \E j \in ArrayJobs : BeginArray(j)
           \/ \E j \in SocketJobs : BeginSocket(j)
           \/ Forget
  <2>1. stage' \in {"pointer", "args", "none"}
    BY <1>5 DEF BeginArray, BeginSocket, Forget
  <2>. QED
    BY <2>1 DEF NullInv
<1>. QED
  BY Zenon, <1>1, <1>2, <1>3, <1>4, <1>5
     DEF ReadersNext, JobStep, ReadPointer, ReadString, ReadArgument, allVars

(* nullptr "can be used to determine whether the member at the given index   *)
(* is NULL": the end of an array whose null pointer stays accessible is      *)
(* reported to the caller, for every array and index, with the tracer's own  *)
(* ABI.                                                                      *)
THEOREM NullsAreReported ==
  ASSUME WordsFit, Native
  PROVE  ReadersSpec => []NullIsReported
<1>. DEFINE Inv == CompleteInv /\ NullInv
<1>1. ReadersInit => Inv
  BY DEF ReadersInit, Init, JobInit, CompleteInv, NullInv
<1>2. RInv /\ Inv /\ [ReadersNext]_allVars => Inv'
  BY JobsAreComplete, NullInvKeeps
<1>3. Inv => NullIsReported
  BY DEF NullInv, NullIsReported, SlotAvailable
<1>. QED
  BY <1>1, <1>2, <1>3, ReadersInvariant, PTL DEF ReadersSpec
=============================================================================
