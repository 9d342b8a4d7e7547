---------------------------- MODULE VmReadProofs ----------------------------
(***************************************************************************)
(* For every word size, page size, address space, memory image, length and *)
(* environment: the reads of VmRead deliver genuine bytes only.            *)
(***************************************************************************)
EXTENDS VmRead, MemoryProofs, WellFoundedInduction

(* Min, as lread_nul and cread_nul use it for "the first zero-byte". *)
LEMMA MinIsLeast ==
  ASSUME NEW S \in SUBSET Nat, S # {}
  PROVE  Min(S) \in S /\ \A y \in S : Min(S) <= y
<1>. DEFINE R == OpToRel(<, Nat)
<1>1. IsWellFoundedOn(R, Nat)
  BY Zenon, NatLessThanWellFounded
<1>2. \A p, q \in Nat : p < q => <<p, q>> \in R
  BY DEF OpToRel
<1>. HIDE DEF R
<1>3. PICK x \in S : \A y \in S : ~(<<y, x>> \in R)
  BY Zenon, <1>1, WFMin
<1>4. \A y \in S : x <= y
  <2>. SUFFICES ASSUME NEW y \in S, y < x
                PROVE  FALSE
    OBVIOUS
  <2>1. <<y, x>> \in R
    BY <1>2
  <2>. QED
    BY <1>3, <2>1
<1>. QED
  BY Zenon, <1>4 DEF Min

-----------------------------------------------------------------------------
(* memcpy from the place the next byte belongs to keeps the buffer genuine. *)
LEMMA CopyIsGenuine ==
  ASSUME TypeOK, BytesAreGenuine,
         NEW a \in Nat, NEW m \in Nat,
         count + m <= len0,
         \A j \in 0 .. m - 1 : a + j \in Addr,
         m > 0 => a = Source(count),
         \A x \in Addr : mem[x] \in seen[x]
  PROVE  /\ Copied(a, m) \in [Index -> Byte \cup {Junk}]
         /\ \A i \in Index :
              /\ i < count + m => /\ Source(i) \in Addr
                                  /\ Copied(a, m)[i] \in seen[Source(i)]
              /\ i >= len0 => Copied(a, m)[i] = Junk
<1>. USE MemoryAssumption, ReadAssumption DEF TypeOK, MemoryTypeOK, Index
<1>1. \A i \in Index : count <= i /\ i < count + m => a + (i - count) \in Addr
  <2>. SUFFICES ASSUME NEW i \in Index, count <= i, i < count + m
                PROVE  a + (i - count) \in Addr
    OBVIOUS
  <2>1. i - count \in 0 .. m - 1
    OBVIOUS
  <2>. QED
    BY Zenon, <2>1
<1>2. Copied(a, m) \in [Index -> Byte \cup {Junk}]
  BY Zenon, <1>1 DEF Copied
<1>3. ASSUME NEW i \in Index
      PROVE  /\ i < count + m => /\ Source(i) \in Addr
                                 /\ Copied(a, m)[i] \in seen[Source(i)]
             /\ i >= len0 => Copied(a, m)[i] = Junk
  <2>1. CASE count <= i /\ i < count + m
    <3>1. setup_addr(addr0) \in Int
      BY DEF setup_addr, Long
    <3>2. a + (i - count) = Source(i)
      BY <2>1, <3>1 DEF Source
    <3>3. Copied(a, m)[i] = mem[a + (i - count)]
      BY <2>1 DEF Copied
    <3>4. Source(i) \in Addr
      BY Zenon, <1>1, <2>1, <3>2
    <3>5. Copied(a, m)[i] \in seen[Source(i)]
      BY Zenon, <3>2, <3>3, <3>4
    <3>6. ~(i >= len0)
      BY <2>1
    <3>. QED
      BY Zenon, <3>4, <3>5, <3>6
  <2>2. CASE ~(count <= i /\ i < count + m)
    BY <2>2 DEF Copied, BytesAreGenuine
  <2>. QED
    BY <2>1, <2>2
<1>. QED
  BY <1>2, <1>3

-----------------------------------------------------------------------------
(* The inductive invariant, and the steps that keep it. *)
IInv == TypeOK /\ TransferInv /\ BytesAreGenuine

LEMMA InitEstablishes == Init => IInv
BY MemoryAssumption, ReadAssumption
   DEF Init, MemoryInit, IInv, TypeOK, MemoryTypeOK, TransferInv,
       BytesAreGenuine, Index, Errno, None, Api, Long

LEMMA ArgumentIsLong == \A reg \in 0 .. AbiSpan - 1 : ArgumentOf(reg) \in Long
BY MemoryAssumption DEF ArgumentOf, Long

LEMMA CallKeeps ==
  ASSUME IInv, NEW f \in Api, NEW a \in Long, NEW l \in 0 .. MaxLen,
         Call(f, a, l)
  PROVE  IInv'
<1>2. setup_addr(a) \in Nat
  BY SetupAddrType
<1>. USE MemoryAssumption, ReadAssumption
<1>4. TypeOK'
  BY <1>2
     DEF IInv, TypeOK, MemoryTypeOK, Call, memVars, CrossAttach, Index, Errno,
         None
<1>5. TransferInv'
  BY <1>2
     DEF IInv, TypeOK, MemoryTypeOK, TransferInv, Call, memVars, CrossAttach,
         Source, setup_addr
<1>6. BytesAreGenuine'
  BY DEF BytesAreGenuine, Call, Index
<1>. QED
  BY <1>4, <1>5, <1>6 DEF IInv

LEMMA ConsumeKeeps == IInv /\ Consume => IInv'
BY MemoryAssumption, ReadAssumption
   DEF IInv, TypeOK, MemoryTypeOK, TransferInv, BytesAreGenuine, Consume,
       memVars, Index, Errno, None, Api, Long

(* A buffer d that is genuine up to n, with the caller's contents behind. *)
Genuine(d, n) ==
  \A i \in Index :
    /\ i < n => Source(i) \in Addr /\ d[i] \in seen[Source(i)]
    /\ i >= len0 => d[i] = Junk

LEMMA DispatchKeeps ==
  ASSUME IInv, pc \notin {"idle", "done"},
         NEW r \in Int, NEW e \in Errno, NEW n \in 0 .. MaxLen, n <= len0,
         Dispatch(r, e, n), UNCHANGED <<memVars, callVars, seen>>,
         dest' \in [Index -> Byte \cup {Junk}], Genuine(dest', n)
  PROVE  IInv'
<1>. USE MemoryAssumption, ReadAssumption
<1>1. addr0 \in Nat /\ addr0 % WordSize \in 0 .. WordSize - 1
  BY AlignDown DEF IInv, TypeOK, Long
<1>2. \A i \in Int : Source(i)' = Source(i)
  BY DEF Source, setup_addr, callVars
<1>3. CASE e \in {"ENOSYS", "EPERM"}
  <2>1. TypeOK'
    BY <1>1, <1>3
       DEF IInv, TypeOK, MemoryTypeOK, Dispatch, memVars, callVars, WordByWord
  <2>2. TransferInv'
    BY <1>1, <1>3
       DEF IInv, TypeOK, TransferInv, Dispatch, memVars, callVars, WordByWord
  <2>3. BytesAreGenuine'
    BY <1>3 DEF IInv, TypeOK, BytesAreGenuine, Genuine, Dispatch, callVars,
                Index
  <2>. QED
    BY <2>1, <2>2, <2>3 DEF IInv
<1>4. CASE e \notin {"ENOSYS", "EPERM"}
  <2>1. pc' = "done" /\ ret' = r /\ errno' = e /\ count' = n
        /\ UNCHANGED <<addr, residue, len>> /\ rc' \in Errno
    BY <1>4 DEF Dispatch, Done, FullResult, Errno, None
  <2>2. TypeOK'
    BY <2>1 DEF IInv, TypeOK, MemoryTypeOK, memVars, callVars
  <2>3. TransferInv'
    BY <2>1 DEF TransferInv
  <2>4. BytesAreGenuine'
    <3>1. count' = n /\ len0' = len0 /\ seen' = seen
      BY Zenon, <2>1 DEF callVars
    <3>2. \A i \in Index : i \in Int
      BY DEF Index
    <3>3. \A i \in Index : i < n => Source(i) \in Addr /\ dest'[i] \in seen[Source(i)]
      BY Zenon DEF Genuine
    <3>4. \A i \in Index : i >= len0 => dest'[i] = Junk
      BY Zenon DEF Genuine
    <3>. QED
      BY Zenon, <1>2, <3>1, <3>2, <3>3, <3>4 DEF BytesAreGenuine
  <2>. QED
    BY Zenon, <2>2, <2>3, <2>4 DEF IInv
<1>. QED
  BY Zenon, <1>3, <1>4

LEMMA CreadKeeps == IInv /\ Cread => IInv'
<1>. SUFFICES ASSUME IInv, Cread
              PROVE  IInv'
  OBVIOUS
<1>. USE MemoryAssumption, ReadAssumption
<1>0. count = 0 /\ len = len0
  BY DEF IInv, TypeOK, TransferInv, Cread
<1>1. addr \in Nat /\ len \in Nat /\ len0 \in 0 .. MaxLen
      /\ addr = Source(count) /\ \A a \in Addr : mem[a] \in seen[a]
  BY DEF IInv, TypeOK, TransferInv, Cread
<1>2. PICK out \in ProcessVm(addr, len) :
        IF out.r < 0
        THEN Dispatch(-1, out.err, 0) /\ UNCHANGED dest
        ELSE Dispatch(out.r, errno, out.r) /\ dest' = Copied(addr, out.r)
  BY DEF Cread
<1>3. /\ out.r \in -1 .. len
      /\ out.err \in Errno
      /\ \A j \in 0 .. out.r - 1 : addr + j \in Addr
  BY <1>1, <1>2, ProcessVmOutcome DEF IInv, TypeOK
<1>4. pc = "cread" /\ UNCHANGED <<memVars, callVars, seen>>
  BY DEF Cread
<1>5. CASE out.r < 0
  <2>1. dest' \in [Index -> Byte \cup {Junk}] /\ Genuine(dest', 0)
    BY <1>2, <1>5 DEF IInv, TypeOK, BytesAreGenuine, Genuine, Index
  <2>. QED
    BY <1>0, <1>1, <1>2, <1>3, <1>4, <1>5, <2>1, DispatchKeeps
<1>6. CASE out.r >= 0
  <2>1. dest' = Copied(addr, out.r) /\ Dispatch(out.r, errno, out.r)
    BY <1>2, <1>3, <1>6
  <2>2. dest' \in [Index -> Byte \cup {Junk}] /\ Genuine(dest', out.r)
    <3>1. out.r \in Nat /\ count + out.r = out.r /\ count + out.r <= len0
      BY <1>0, <1>1, <1>3, <1>6
    <3>2. /\ Copied(addr, out.r) \in [Index -> Byte \cup {Junk}]
          /\ Genuine(Copied(addr, out.r), count + out.r)
      BY ZenonT(60), <1>1, <1>3, <3>1, CopyIsGenuine DEF IInv, Genuine
    <3>. QED
      BY <2>1, <3>1, <3>2
  <2>3. errno \in Errno
    BY DEF IInv, TypeOK
  <2>. QED
    BY <1>0, <1>1, <1>3, <1>4, <1>6, <2>1, <2>2, <2>3, DispatchKeeps
<1>. QED
  BY <1>3, <1>5, <1>6

LEMMA ChunkLenBounds ==
  ASSUME TypeOK, len > 0
  PROVE  ChunkLen(ChunkAddr) \in 1 .. len
<1>. USE MemoryAssumption, ReadAssumption
<1>. DEFINE c == MIN(len, ChunkMax)
            e == (ChunkAddr + c) % PageSize
<1>1. c \in 1 .. len
  BY DEF MIN, TypeOK
<1>2. ChunkAddr \in Nat
  BY SetupAddrType DEF ChunkAddr, TypeOK
<1>3. e \in Nat
  BY <1>1, <1>2, AlignDown
<1>4. ChunkLen(ChunkAddr) = IF c > e THEN c - e ELSE c
  BY DEF ChunkLen
<1>5. len \in Nat
  BY DEF TypeOK
<1>. HIDE DEF c, e
<1>. QED
  BY <1>1, <1>3, <1>4, <1>5

LEMMA CreadNulKeeps == IInv /\ CreadNul => IInv'
<1>. SUFFICES ASSUME IInv, CreadNul
              PROVE  IInv'
  OBVIOUS
<1>. USE MemoryAssumption, ReadAssumption
<1>. DEFINE l == ChunkLen(ChunkAddr)
<1>1. /\ addr \in Nat /\ len \in 1 .. MaxLen /\ count \in 0 .. MaxLen
      /\ count + len = len0 /\ len0 \in 0 .. MaxLen
      /\ addr = Source(count) /\ errno \in Errno
      /\ \A a \in Addr : mem[a] \in seen[a]
  BY DEF IInv, TypeOK, TransferInv, CreadNul
<1>2. l \in 1 .. len
  BY <1>1, ChunkLenBounds DEF IInv
<1>. HIDE DEF l
<1>3. PICK out \in ProcessVm(addr, l) :
        IF out.r < 0
        THEN /\ Dispatch(IF count > 0 THEN count ELSE -1, out.err, count)
             /\ UNCHANGED dest
        ELSE /\ dest' = Copied(addr, out.r)
             /\ IF Zeros(addr, out.r) # {}
                THEN Dispatch(count + Min(Zeros(addr, out.r)) + 1, errno,
                              count + out.r)
                ELSE /\ addr' = addr + out.r
                     /\ len' = len - out.r
                     /\ count' = count + out.r
                     /\ UNCHANGED <<pc, errno, ret, rc, residue>>
  BY DEF CreadNul, l
<1>4. /\ out.r \in -1 .. l
      /\ out.err \in Errno
      /\ \A j \in 0 .. out.r - 1 : addr + j \in Addr
  BY <1>1, <1>2, <1>3, ProcessVmOutcome DEF IInv, TypeOK
<1>5. pc = "cread_nul" /\ UNCHANGED <<memVars, callVars, seen>>
  BY DEF CreadNul
<1>6. CASE out.r < 0
  <2>1. dest' \in [Index -> Byte \cup {Junk}] /\ Genuine(dest', count)
    BY <1>3, <1>6 DEF IInv, TypeOK, BytesAreGenuine, Genuine
  <2>. QED
    BY <1>1, <1>3, <1>4, <1>5, <1>6, <2>1, DispatchKeeps
<1>7. CASE out.r >= 0
  <2>1. /\ out.r \in Nat /\ out.r <= len /\ count + out.r \in 0 .. MaxLen
        /\ count + out.r <= len0
    BY <1>1, <1>2, <1>4, <1>7
  <2>2. dest' = Copied(addr, out.r)
    BY <1>3, <1>4, <1>7
  <2>3. /\ Copied(addr, out.r) \in [Index -> Byte \cup {Junk}]
        /\ Genuine(Copied(addr, out.r), count + out.r)
    BY Zenon, <1>1, <1>4, <2>1, CopyIsGenuine DEF IInv, Genuine
  <2>4. CASE Zeros(addr, out.r) # {}
    <3>1. Zeros(addr, out.r) \in SUBSET Nat
      BY <2>1 DEF Zeros
    <3>2. Min(Zeros(addr, out.r)) \in Nat
      BY <2>4, <3>1, MinIsLeast
    <3>3. Dispatch(count + Min(Zeros(addr, out.r)) + 1, errno, count + out.r)
      BY <1>3, <1>4, <1>7, <2>4
    <3>. QED
      <4>1. count + Min(Zeros(addr, out.r)) + 1 \in Int /\ errno \in Errno
        BY <1>1, <3>2
      <4>2. pc \notin {"idle", "done"}
        BY DEF CreadNul
      <4>. QED
        BY ZenonT(60), <1>5, <2>1, <2>2, <2>3, <3>3, <4>1, <4>2, DispatchKeeps
  <2>5. CASE Zeros(addr, out.r) = {}
    <3>1. /\ addr' = addr + out.r /\ len' = len - out.r
          /\ count' = count + out.r
          /\ UNCHANGED <<pc, errno, ret, rc, residue>>
      BY <1>3, <1>4, <1>7, <2>5
    <3>2. TypeOK'
      BY <1>1, <1>5, <2>1, <2>2, <2>3, <3>1
         DEF IInv, TypeOK, MemoryTypeOK, memVars, callVars
    <3>3. setup_addr(addr0) \in Nat
      BY SetupAddrType DEF IInv, TypeOK
    <3>4. addr' = Source(count)'
      <4>1. setup_addr(addr0)' = setup_addr(addr0)
        BY <1>5 DEF setup_addr, callVars
      <4>2. addr = setup_addr(addr0) + count
        BY <1>1 DEF Source
      <4>3. Source(count)' = setup_addr(addr0) + (count + out.r)
        BY <3>1, <4>1, Zenon DEF Source
      <4>4. (setup_addr(addr0) + count) + out.r = setup_addr(addr0) + (count + out.r)
        BY <1>1, <2>1, <3>3
      <4>. QED
        BY <3>1, <4>2, <4>3, <4>4, Zenon
    <3>5. TransferInv'
      <4>1. count' + len' = len0'
        BY <1>1, <1>5, <2>1, <3>1 DEF callVars
      <4>2. \A x \in Addr : mem'[x] \in seen'[x]
        BY Zenon, <1>1, <1>5 DEF memVars
      <4>3. pc' = "cread_nul"
        BY Zenon, <1>5, <3>1
      <4>. QED
        BY <3>4, <4>1, <4>2, <4>3 DEF TransferInv
    <3>6. \A i \in Int : Source(i)' = Source(i)
      BY <1>5 DEF Source, setup_addr, callVars
    <3>7. BytesAreGenuine'
      BY <1>5, <2>1, <2>2, <2>3, <3>1, <3>6
         DEF BytesAreGenuine, Genuine, callVars, Index
    <3>. QED
      BY <3>2, <3>5, <3>7 DEF IInv
  <2>. QED
    BY <2>4, <2>5
<1>. QED
  BY <1>4, <1>6, <1>7

LEMMA CreadNulEndKeeps == IInv /\ CreadNulEnd => IInv'
<1>. SUFFICES ASSUME IInv, CreadNulEnd
              PROVE  IInv'
  OBVIOUS
<1>1. count \in 0 .. MaxLen /\ count <= len0 /\ errno \in Errno
      /\ dest \in [Index -> Byte \cup {Junk}]
  BY DEF IInv, TypeOK, BytesAreGenuine
<1>2. Genuine(dest', count) /\ dest' = dest
  BY DEF IInv, BytesAreGenuine, Genuine, CreadNulEnd
<1>. QED
  BY <1>1, <1>2, DispatchKeeps, ReadAssumption DEF CreadNulEnd

(* The word that lread peeks holds the byte that comes next.  If it can be   *)
(* peeked, the caller's address was not beyond the width of the ABI.         *)
LEMMA PeekedIsSource ==
  ASSUME TypeOK, TransferInv, pc \in {"lread", "lread_nul"}, len > 0,
         NEW a \in Nat, a = addr - (addr % WordSize),
         \A j \in 0 .. WordSize - 1 : a + j \in Addr
  PROVE  a + residue = Source(count)
<1>. USE MemoryAssumption
<1>1. a + residue = addr0 + count /\ addr0 \in Nat /\ count \in Nat
      /\ residue \in 0 .. WordSize - 1
  BY DEF TypeOK, TransferInv, Long
<1>2. a + residue \in Addr
  BY <1>1
<1>3. addr0 \in 0 .. AbiSpan - 1
  BY <1>1, <1>2 DEF Addr
<1>4. setup_addr(addr0) = addr0
  BY <1>3, ModIdentity DEF setup_addr
<1>. QED
  BY <1>1, <1>4 DEF Source

LEMMA LreadKeeps == IInv /\ Lread => IInv'
<1>. SUFFICES ASSUME IInv, Lread
              PROVE  IInv'
  OBVIOUS
<1>. USE MemoryAssumption, ReadAssumption
<1>. DEFINE a == addr - (addr % WordSize)
            peek == pink_read_word_data(a)
            m == MIN(WordSize - residue, len)
            zeros == {j \in residue .. WordSize - 1 : mem[a + j] = 0}
<1>1. /\ pc \in {"lread", "lread_nul"} /\ len \in 1 .. MaxLen
      /\ count \in 0 .. MaxLen /\ count + len = len0 /\ len0 \in 0 .. MaxLen
      /\ addr \in Nat /\ residue \in 0 .. WordSize - 1
      /\ addr0 \in Nat /\ a + residue = addr0 + count
      /\ \A x \in Addr : mem[x] \in seen[x]
  <2>1. pc \in {"lread", "lread_nul"} /\ len > 0
    BY DEF Lread
  <2>2. /\ len \in 0 .. MaxLen /\ count \in 0 .. MaxLen /\ len0 \in 0 .. MaxLen
        /\ addr \in Nat /\ residue \in 0 .. WordSize - 1 /\ addr0 \in Nat
    BY DEF IInv, TypeOK, Long
  <2>3. /\ count + len = len0 /\ a + residue = addr0 + count
        /\ \A x \in Addr : mem[x] \in seen[x]
    BY <2>1 DEF IInv, TransferInv
  <2>. QED
    BY <2>1, <2>2, <2>3
<1>2. a \in Nat /\ (a + WordSize) % WordSize = 0
  BY Zenon, <1>1, AlignDown
<1>3. /\ peek.err \in Errno
      /\ peek.r = None => \A j \in 0 .. WordSize - 1 : a + j \in Addr
  BY <1>2, PeekOutcome
<1>4. /\ m \in 1 .. len /\ m \in 1 .. WordSize - residue
      /\ m < len => m = WordSize - residue
  BY <1>1 DEF MIN
<1>5. UNCHANGED <<memVars, callVars, seen>>
  BY DEF Lread
<1>6. \A i \in Int : Source(i)' = Source(i)
  BY <1>5 DEF Source, setup_addr, callVars
<1>7. CASE peek.r # None
  <2>1. pc' = "done" /\ ret' = -1 /\ errno' = peek.err /\ UNCHANGED localVars
        /\ rc' \in Errno
    BY <1>3, <1>7 DEF Lread, Done, FullResult, Errno, None
  <2>2. TypeOK'
    BY <1>3, <1>5, <2>1
       DEF IInv, TypeOK, MemoryTypeOK, memVars, callVars, localVars
  <2>3. TransferInv'
    BY <2>1 DEF TransferInv
  <2>4. BytesAreGenuine'
    BY <1>5, <1>6, <2>1 DEF IInv, BytesAreGenuine, callVars, localVars, Index
  <2>. QED
    BY <2>2, <2>3, <2>4 DEF IInv
<1>8. CASE peek.r = None
  <2>1. \A j \in 0 .. WordSize - 1 : a + j \in Addr
    BY <1>3, <1>8
  <2>2. a + residue = Source(count)
    <3>1. TypeOK /\ TransferInv /\ len > 0
      BY <1>1 DEF IInv
    <3>2. pc \in {"lread", "lread_nul"} /\ a \in Nat /\ a = addr - (addr % WordSize)
      BY Zenon, <1>1, <1>2
    <3>. HIDE DEF a
    <3>. QED
      BY Zenon, <2>1, <3>1, <3>2, PeekedIsSource
  <2>3. \A j \in 0 .. m - 1 : (a + residue) + j \in Addr
    <3>. TAKE j \in 0 .. m - 1
    <3>1. residue + j \in 0 .. WordSize - 1
      BY <1>1, <1>4
    <3>2. (a + residue) + j = a + (residue + j)
      BY <1>1, <1>2
    <3>. QED
      BY <2>1, <3>1, <3>2
  <2>4. /\ m \in Nat /\ count + m \in 0 .. MaxLen /\ count + m <= len0
        /\ a + residue \in Nat
    BY <1>1, <1>2, <1>4
  <2>5. /\ Copied(a + residue, m) \in [Index -> Byte \cup {Junk}]
        /\ Genuine(Copied(a + residue, m), count + m)
    BY Zenon, <1>1, <2>2, <2>3, <2>4, CopyIsGenuine DEF IInv, Genuine
  <2>6. /\ dest' = Copied(a + residue, m) /\ count' = count + m
        /\ len' = len - m /\ addr' = a + WordSize /\ residue' = 0
    BY <1>8 DEF Lread
  <2>7. \/ UNCHANGED <<pc, ret, rc>> /\ errno' = peek.err
        \/ pc' = "done" /\ ret' \in Int /\ rc' \in Errno /\ errno' = peek.err
    <3>1. CASE pc = "lread_nul" /\ zeros # {}
      <4>1. zeros \in SUBSET Nat
        BY <1>1
      <4>2. Min(zeros) \in Nat
        BY <3>1, <4>1, MinIsLeast
      <4>3. Done(count + Min(zeros), peek.err)
        BY <1>8, <3>1 DEF Lread
      <4>. HIDE DEF zeros, peek
      <4>. QED
        BY <1>1, <1>3, <4>2, <4>3 DEF Done, FullResult, Errno, None
    <3>2. CASE ~(pc = "lread_nul" /\ zeros # {})
      BY <1>8, <3>2 DEF Lread
    <3>. QED
      BY <3>1, <3>2
  <2>. HIDE DEF a, peek, m, zeros
  <2>8. TypeOK'
    BY <1>1, <1>2, <1>3, <1>4, <1>5, <2>4, <2>5, <2>6, <2>7
       DEF IInv, TypeOK, MemoryTypeOK, memVars, callVars
  <2>9. TransferInv'
    <3>1. CASE pc' = "done"
      BY <3>1 DEF TransferInv
    <3>2. CASE pc' # "done" /\ len' > 0
      <4>1. m = WordSize - residue
        BY <1>1, <1>4, <2>6, <3>2
      <4>2. (addr' - (addr' % WordSize)) + residue' = addr0 + count'
        <5>1. addr' % WordSize = 0
          BY <1>2, <2>6, Zenon
        <5>2. addr' + residue' = addr0 + count'
          BY <1>1, <1>2, <2>6, <4>1
        <5>. QED
          BY <1>2, <2>6, <5>1, <5>2
      <4>. QED
        BY <1>1, <1>4, <1>5, <2>6, <2>7, <3>2, <4>2
           DEF TransferInv, memVars, callVars
    <3>3. CASE pc' # "done" /\ ~(len' > 0)
      BY <1>1, <1>4, <1>5, <2>6, <2>7, <3>3 DEF TransferInv, memVars, callVars
    <3>. QED
      BY <3>1, <3>2, <3>3
  <2>10. BytesAreGenuine'
    BY <1>5, <1>6, <2>4, <2>5, <2>6
       DEF BytesAreGenuine, Genuine, callVars, Index
  <2>. QED
    BY <2>8, <2>9, <2>10 DEF IInv
<1>. QED
  BY <1>7, <1>8

LEMMA LreadEndKeeps == IInv /\ LreadEnd => IInv'
<1>. SUFFICES ASSUME IInv, LreadEnd
              PROVE  IInv'
  OBVIOUS
<1>1. pc' = "done" /\ ret' = count /\ errno' = errno /\ rc' \in Errno
      /\ UNCHANGED <<memVars, callVars, localVars, seen>>
  BY DEF IInv, TypeOK, LreadEnd, Done, FullResult, Errno, None
<1>2. TypeOK'
  BY <1>1 DEF IInv, TypeOK, MemoryTypeOK, memVars, callVars, localVars
<1>3. TransferInv'
  BY <1>1 DEF TransferInv
<1>4. \A i \in Int : Source(i)' = Source(i)
  BY <1>1 DEF Source, setup_addr, callVars
<1>5. BytesAreGenuine'
  BY <1>1, <1>4 DEF IInv, BytesAreGenuine, callVars, localVars, Index
<1>. QED
  BY <1>2, <1>3, <1>5 DEF IInv

LEMMA EnvironmentKeeps == IInv /\ Environment => IInv'
<1>. SUFFICES ASSUME IInv, Environment
              PROVE  IInv'
  OBVIOUS
<1>1. MemoryTypeOK'
  BY StoreType, UnmapType, RevokeType, KilledType DEF IInv, TypeOK, Environment
<1>2. /\ seen' = [a \in Addr |-> seen[a] \cup {mem'[a]}]
      /\ pc \notin {"idle", "done"}
      /\ UNCHANGED <<errno, pc, callVars, localVars, ret, rc>>
  BY DEF Environment
<1>3. TypeOK'
  BY <1>1, <1>2 DEF IInv, TypeOK, MemoryTypeOK, callVars, localVars
<1>4. \A i \in Int : Source(i)' = Source(i)
  BY <1>2 DEF Source, setup_addr, callVars
<1>5. count \in Int
  BY DEF IInv, TypeOK
<1>6. TransferInv'
  BY <1>2, <1>4, <1>5 DEF IInv, TransferInv, callVars, localVars
<1>7. BytesAreGenuine'
  <2>1. \A a \in Addr : seen[a] \subseteq seen'[a]
    BY Zenon, <1>2
  <2>2. dest' = dest /\ count' = count /\ len0' = len0 /\ api' = api /\ pc' = pc
    BY <1>2 DEF callVars, localVars
  <2>. QED
    BY <1>4, <2>1, <2>2 DEF IInv, BytesAreGenuine, Index
<1>. QED
  BY <1>3, <1>6, <1>7 DEF IInv
-----------------------------------------------------------------------------
LEMMA StepKeeps == IInv /\ Step => IInv'
BY CreadKeeps, CreadNulKeeps, CreadNulEndKeeps, LreadKeeps, LreadEndKeeps
   DEF Step

LEMMA StutterKeeps == IInv /\ UNCHANGED vars => IInv'
BY DEF vars, memVars, callVars, localVars, IInv, TypeOK, MemoryTypeOK,
       TransferInv, BytesAreGenuine, Source, setup_addr

(* IInv is an invariant of the specification. *)
LEMMA InductiveInvariant == Spec => []IInv
<1>1. IInv /\ [Next]_vars => IInv'
  <2>. SUFFICES ASSUME IInv, [Next]_vars
                PROVE  IInv'
    OBVIOUS
  <2>1. CASE \E f \in Api, reg \in 0 .. AbiSpan - 1, l \in 0 .. MaxLen :
               Call(f, ArgumentOf(reg), l)
    BY <2>1, CallKeeps, ArgumentIsLong
  <2>2. CASE Step
    BY <2>2, StepKeeps
  <2>3. CASE Consume
    BY <2>3, ConsumeKeeps
  <2>4. CASE Environment
    BY <2>4, EnvironmentKeeps
  <2>5. CASE UNCHANGED vars
    BY <2>5, StutterKeeps
  <2>. QED
    BY <2>1, <2>2, <2>3, <2>4, <2>5 DEF Next
<1>. QED
  BY InitEstablishes, <1>1, PTL DEF Spec

(* The variables of VmRead keep their types: every index computed by the     *)
(* loops of vm.c stays inside the buffer and the address space.              *)
THEOREM ReadTypeCorrect == Spec => []TypeOK
<1>1. IInv => TypeOK
  BY DEF IInv
<1>. QED
  BY InductiveInvariant, <1>1, PTL

(* pink_read_vm_data, _full and _nul store genuine bytes of the tracee only, *)
(* in their place and within the caller's length, whatever the word size,    *)
(* alignment, page size, ABI width and interference.                         *)
THEOREM ReadsAreGenuine == Spec => []BytesAreGenuine
<1>1. IInv => BytesAreGenuine
  BY DEF IInv
<1>. QED
  BY InductiveInvariant, <1>1, PTL

-----------------------------------------------------------------------------
(* What a call reports.  The function that runs is one of the entry point,  *)
(* and a result is reported by Done or, through Dispatch, by Done.          *)
HonestInv ==
  /\ pc \in {"cread", "lread"} => api # "read_vm_data_nul"
  /\ pc \in {"cread_nul", "lread_nul"} => api = "read_vm_data_nul"
  /\ ResultIsHonest

LEMMA DoneIsHonest ==
  ASSUME NEW r \in Int, NEW e \in Errno, Done(r, e),
         api' = api, len0' = len0, len0 \in Nat,
         r < 0 => e # None,
         api # "read_vm_data_nul" /\ r >= 0 => r = count'
  PROVE  HonestInv'
<1>1. pc' = "done" /\ ret' = r /\ errno' = e
  BY DEF Done
<1>2. ASSUME api = "read_vm_data_full"
      PROVE  rc' = None <=> count' = len0 /\ r >= 0
  <2>1. rc' = IF r < 0 THEN e ELSE IF r # len0 THEN "EFAULT" ELSE None
    BY <1>2 DEF Done, FullResult
  <2>. QED
    BY <1>2, <2>1 DEF None
<1>. QED
  BY <1>1, <1>2 DEF HonestInv, ResultIsHonest

LEMMA DispatchIsHonest ==
  ASSUME HonestInv, NEW r \in Int, NEW e \in Errno, NEW n, Dispatch(r, e, n),
         pc \in {"cread", "cread_nul"},
         api' = api, len0' = len0, len0 \in Nat,
         r < 0 => e # None,
         api # "read_vm_data_nul" /\ r >= 0 => r = n
  PROVE  HonestInv'
<1>1. CASE e \in {"ENOSYS", "EPERM"}
  BY <1>1 DEF Dispatch, WordByWord, HonestInv, ResultIsHonest
<1>2. CASE e \notin {"ENOSYS", "EPERM"}
  <2>1. Done(r, e) /\ count' = n
    BY <1>2 DEF Dispatch
  <2>. QED
    BY <2>1, DoneIsHonest
<1>. QED
  BY <1>1, <1>2

LEMMA StepIsHonest == IInv /\ HonestInv /\ Step => HonestInv'
<1>. SUFFICES ASSUME IInv, HonestInv, Step
              PROVE  HonestInv'
  OBVIOUS
<1>. USE MemoryAssumption, ReadAssumption
<1>0. /\ addr \in Nat /\ len \in Nat /\ len0 \in Nat /\ errno \in Errno
      /\ count \in Nat /\ MemoryTypeOK
  BY DEF IInv, TypeOK
<1>1. CASE Cread
  <2>1. PICK out \in ProcessVm(addr, len) :
          IF out.r < 0
          THEN Dispatch(-1, out.err, 0) /\ UNCHANGED dest
          ELSE Dispatch(out.r, errno, out.r) /\ dest' = Copied(addr, out.r)
    BY <1>1 DEF Cread
  <2>2. out.r \in -1 .. len /\ out.err \in Errno /\ (out.r < 0 => out.err # None)
    BY <1>0, <2>1, ProcessVmOutcome
  <2>3. pc \in {"cread", "cread_nul"} /\ api' = api /\ len0' = len0
    BY <1>1 DEF Cread, callVars
  <2>4. CASE out.r < 0
    BY <1>0, <2>1, <2>2, <2>3, <2>4, DispatchIsHonest
  <2>5. CASE ~(out.r < 0)
    BY <1>0, <2>1, <2>2, <2>3, <2>5, DispatchIsHonest
  <2>. QED
    BY <2>4, <2>5
<1>2. CASE CreadNul
  <2>. DEFINE l == ChunkLen(ChunkAddr)
  <2>1. l \in Nat
    BY <1>0, <1>2, ChunkLenBounds DEF IInv, CreadNul
  <2>2. PICK out \in ProcessVm(addr, l) :
          IF out.r < 0
          THEN /\ Dispatch(IF count > 0 THEN count ELSE -1, out.err, count)
               /\ UNCHANGED dest
          ELSE /\ dest' = Copied(addr, out.r)
               /\ IF Zeros(addr, out.r) # {}
                  THEN Dispatch(count + Min(Zeros(addr, out.r)) + 1, errno,
                                count + out.r)
                  ELSE /\ addr' = addr + out.r
                       /\ len' = len - out.r
                       /\ count' = count + out.r
                       /\ UNCHANGED <<pc, errno, ret, rc, residue>>
    BY <1>2 DEF CreadNul
  <2>. HIDE DEF l
  <2>3. out.r \in -1 .. l /\ out.err \in Errno /\ (out.r < 0 => out.err # None)
    BY <1>0, <2>1, <2>2, ProcessVmOutcome
  <2>4. pc = "cread_nul" /\ api' = api /\ len0' = len0 /\ api = "read_vm_data_nul"
    BY Zenon, <1>2 DEF CreadNul, callVars, HonestInv
  <2>5. CASE out.r < 0
    BY <1>0, <2>2, <2>3, <2>4, <2>5, DispatchIsHonest
  <2>6. CASE ~(out.r < 0) /\ Zeros(addr, out.r) # {}
    <3>1. Zeros(addr, out.r) \in SUBSET Nat
      BY <2>1, <2>3, <2>6 DEF Zeros
    <3>2. Min(Zeros(addr, out.r)) \in Nat
      BY <2>6, <3>1, MinIsLeast
    <3>3. Dispatch(count + Min(Zeros(addr, out.r)) + 1, errno, count + out.r)
      BY <2>2, <2>6
    <3>. QED
      BY <1>0, <2>4, <3>2, <3>3, DispatchIsHonest
  <2>7. CASE ~(out.r < 0) /\ Zeros(addr, out.r) = {}
    BY <2>2, <2>4, <2>7 DEF HonestInv, ResultIsHonest
  <2>. QED
    BY <2>5, <2>6, <2>7
<1>3. CASE CreadNulEnd
  BY <1>0, <1>3, DispatchIsHonest DEF CreadNulEnd, callVars
<1>4. CASE Lread
  <2>. DEFINE a == addr - (addr % WordSize)
              peek == pink_read_word_data(a)
              zeros == {j \in residue .. WordSize - 1 : mem[a + j] = 0}
  <2>1. a \in Nat
    BY <1>0, AlignDown
  <2>2. peek.err \in Errno /\ (peek.r # None => peek.err # None)
    BY <2>1, PeekError
  <2>3. pc \in {"lread", "lread_nul"} /\ api' = api /\ len0' = len0
    BY <1>4 DEF Lread, callVars
  <2>4. CASE peek.r # None
    <3>1. Done(-1, peek.err)
      BY Zenon, <1>4, <2>4 DEF Lread
    <3>. HIDE DEF peek
    <3>. QED
      BY <1>0, <2>2, <2>3, <2>4, <3>1, DoneIsHonest
  <2>5. CASE peek.r = None /\ pc = "lread_nul" /\ zeros # {}
    <3>1. Done(count + Min(zeros), peek.err)
      BY Zenon, <1>4, <2>5 DEF Lread
    <3>2. zeros \in SUBSET Nat
      BY DEF IInv, TypeOK
    <3>3. Min(zeros) \in Nat
      BY <2>5, <3>2, MinIsLeast
    <3>4. api = "read_vm_data_nul"
      BY <2>5 DEF HonestInv
    <3>. HIDE DEF a, peek, zeros
    <3>. DEFINE r == count + Min(zeros)
    <3>5. r \in Nat /\ Done(r, peek.err)
      BY <1>0, <3>1, <3>3
    <3>. HIDE DEF r
    <3>6. r \in Int /\ ~(r < 0)
      BY <3>5
    <3>. QED
      BY Zenon, <1>0, <2>2, <2>3, <3>4, <3>5, <3>6, DoneIsHonest
  <2>6. CASE peek.r = None /\ ~(pc = "lread_nul" /\ zeros # {})
    <3>1. UNCHANGED <<pc, ret, rc>>
      BY Zenon, <1>4, <2>6 DEF Lread
    <3>. QED
      BY <2>3, <3>1 DEF HonestInv, ResultIsHonest
  <2>. QED
    BY <2>4, <2>5, <2>6
<1>5. CASE LreadEnd
  <2>1. Done(count, errno) /\ api' = api /\ len0' = len0 /\ count' = count
    BY <1>5 DEF LreadEnd, callVars, localVars
  <2>. QED
    BY <1>0, <2>1, DoneIsHonest
<1>. QED
  BY <1>1, <1>2, <1>3, <1>4, <1>5 DEF Step

(* Outside of the steps of a call: the calls themselves, what is done       *)
(* between them, and the environment.                                       *)
LEMMA OthersAreHonest ==
  ASSUME HonestInv,
         \/ \E f \in Api, a \in Long, l \in 0 .. MaxLen : Call(f, a, l)
         \/ Consume \/ Environment \/ UNCHANGED vars
  PROVE  HonestInv'
<1>1. ASSUME NEW f \in Api, NEW a \in Long, NEW l \in 0 .. MaxLen, Call(f, a, l)
      PROVE  HonestInv'
  BY <1>1 DEF Call, CrossAttach, HonestInv, ResultIsHonest
<1>2. CASE Consume
  BY <1>2 DEF Consume, HonestInv, ResultIsHonest
<1>3. CASE Environment
  BY Zenon, <1>3 DEF Environment, callVars, HonestInv, ResultIsHonest
<1>4. CASE UNCHANGED vars
  BY <1>4 DEF vars, callVars, localVars, HonestInv, ResultIsHonest
<1>. QED
  BY <1>1, <1>2, <1>3, <1>4

(* pink_read_vm_data and _full claim only the bytes that they stored, and   *)
(* an error leaves errno set.                                               *)
THEOREM ReadResultsAreHonest == Spec => []ResultIsHonest
<1>1. Init => HonestInv
  BY DEF Init, HonestInv, ResultIsHonest
<1>2. IInv /\ HonestInv /\ [Next]_vars => HonestInv'
  BY StepIsHonest, OthersAreHonest, ArgumentIsLong DEF Next
<1>3. HonestInv => ResultIsHonest
  BY DEF HonestInv
<1>. QED
  BY <1>1, <1>2, <1>3, InductiveInvariant, PTL DEF Spec

-----------------------------------------------------------------------------
(* Complete reads.  The caller's address is not cut, errno is clear until    *)
(* something fails, and a read that ends was not stopped before its end by   *)
(* anything but memory that is gone by then.                                 *)
Available == alive /\ \A i \in 0 .. len0 - 1 : Accessible(Source(i))

Uncut == setup_addr(addr0) \in Addr => setup_addr(addr0) = addr0

CompleteInv ==
  /\ pc \in {"cread", "cread_nul"} => errno = None
  /\ pc = "lread" /\ count > 0 => errno = None
  /\ pc = "done" /\ api # "read_vm_data_nul" /\ Available =>
       ret = len0 /\ (len0 > 0 => errno = None)

LEMMA CreadIsComplete ==
  ASSUME IInv, HonestInv, CompleteInv, Cread
  PROVE  CompleteInv'
<1>1. /\ addr \in Nat /\ len \in Nat /\ len = len0 /\ count = 0
      /\ addr = setup_addr(addr0) /\ errno = None /\ MemoryTypeOK
      /\ pc = "cread" /\ api # "read_vm_data_nul"
  <2>1. pc = "cread"
    BY DEF Cread
  <2>2. addr = Source(0) /\ count = 0 /\ len = len0 /\ len \in Nat /\ addr \in Nat
    BY <2>1 DEF IInv, TypeOK, TransferInv
  <2>3. setup_addr(addr0) \in Nat
    BY SetupAddrType DEF IInv, TypeOK
  <2>4. addr = setup_addr(addr0)
    BY <2>2, <2>3 DEF Source
  <2>. QED
    BY <2>1, <2>2, <2>4 DEF IInv, TypeOK, HonestInv, CompleteInv
<1>2. UNCHANGED <<memVars, callVars>>
  BY DEF Cread
<1>3. Available' => Available
  BY <1>2 DEF Available, Accessible, Source, setup_addr, memVars, callVars
<1>4. PICK out \in ProcessVm(addr, len) :
        IF out.r < 0
        THEN Dispatch(-1, out.err, 0) /\ UNCHANGED dest
        ELSE Dispatch(out.r, errno, out.r) /\ dest' = Copied(addr, out.r)
  BY DEF Cread
<1>5. out.r \in -1 .. len /\ out.err \in Errno
  BY <1>1, <1>4, ProcessVmOutcome
<1>6. ASSUME Available, out.err \notin {"ENOSYS", "EPERM"}
      PROVE  out.r = len
  <2>1. \A i \in 0 .. len - 1 : Accessible(addr + i)
    BY <1>1, <1>6 DEF Available, Source
  <2>. QED
    BY Zenon, <1>1, <1>4, <1>6, <2>1, ProcessVmComplete DEF Available
<1>7. CASE out.r < 0
  <2>1. CASE out.err \in {"ENOSYS", "EPERM"}
    <3>1. pc' = "lread" /\ count' = 0
      BY <1>1, <1>4, <1>7, <2>1 DEF Dispatch, WordByWord
    <3>. QED
      BY <3>1 DEF CompleteInv
  <2>2. CASE out.err \notin {"ENOSYS", "EPERM"}
    <3>1. pc' = "done"
      BY <1>4, <1>7, <2>2 DEF Dispatch, Done
    <3>2. ~Available
      BY <1>1, <1>6, <1>7, <2>2
    <3>. QED
      BY <1>3, <3>1, <3>2 DEF CompleteInv
  <2>. QED
    BY <2>1, <2>2
<1>8. CASE ~(out.r < 0)
  <2>1. out.err \notin {"ENOSYS", "EPERM"}
    BY Zenon, <1>1, <1>8, ProcessVmRefused
  <2>2. Dispatch(out.r, None, out.r)
    BY <1>1, <1>4, <1>8
  <2>3. pc' = "done" /\ ret' = out.r /\ errno' = None
    BY <2>2 DEF Dispatch, Done, None
  <2>. QED
    BY <1>1, <1>2, <1>3, <1>6, <2>1, <2>3 DEF CompleteInv, callVars
<1>. QED
  BY <1>7, <1>8

(* The words that hold bytes of an available range can be peeked. *)
LEMMA PeekSucceeds ==
  ASSUME WordsFit, Uncut, IInv, Available, pc \in {"lread", "lread_nul"}, len > 0
  PROVE  pink_read_word_data(addr - (addr % WordSize)) = [r |-> None, err |-> None]
<1>. USE MemoryAssumption
<1>. DEFINE a == addr - (addr % WordSize)
<1>1. /\ a + residue = addr0 + count /\ count + len = len0
      /\ addr0 \in Nat /\ count \in Nat /\ len \in Nat
      /\ residue \in 0 .. WordSize - 1 /\ addr \in Nat
  BY DEF IInv, TypeOK, TransferInv, Long
<1>2. a \in Nat /\ a % WordSize = 0
  BY <1>1, AlignedWord
<1>. HIDE DEF a
<1>3. 0 \in 0 .. len0 - 1 /\ count \in 0 .. len0 - 1
  BY <1>1
<1>4. setup_addr(addr0) = addr0
  <2>1. Source(0) \in Addr /\ setup_addr(addr0) \in Nat
    BY <1>3, SetupAddrType DEF Available, Accessible, IInv, TypeOK
  <2>2. Source(0) = setup_addr(addr0)
    BY <2>1 DEF Source
  <2>. QED
    BY <2>1, <2>2 DEF Uncut
<1>5. Accessible(a + residue)
  BY <1>1, <1>3, <1>4 DEF Available, Source
<1>6. WordAccessible(a)
  BY <1>1, <1>2, <1>5, WholeWordAccessible
<1>. QED
  BY <1>6, PtraceSucceeds DEF Available, a

LEMMA LreadIsComplete ==
  ASSUME WordsFit, Uncut, IInv, HonestInv, CompleteInv, Lread
  PROVE  CompleteInv'
<1>. DEFINE a == addr - (addr % WordSize)
            peek == pink_read_word_data(a)
            zeros == {j \in residue .. WordSize - 1 : mem[a + j] = 0}
<1>1. /\ pc \in {"lread", "lread_nul"} /\ len > 0
      /\ UNCHANGED <<memVars, callVars>>
  BY DEF Lread
<1>2. Available' => Available
  BY <1>1 DEF Available, Accessible, Source, setup_addr, memVars, callVars
<1>3. CASE peek.r # None
  <2>1. pc' = "done"
    BY <1>3 DEF Lread, Done
  <2>2. ~Available
    BY <1>1, <1>3, PeekSucceeds
  <2>. QED
    BY <1>2, <2>1, <2>2 DEF CompleteInv
<1>4. CASE peek.r = None
  <2>1. peek.err = None
    BY <1>4 DEF pink_read_word_data, pink_ptrace, PtraceErrno, PeeksMinusOne, None
  <2>. HIDE DEF a, zeros
  <2>2. errno' = None /\ (pc' = pc \/ (pc = "lread_nul" /\ pc' = "done"))
    BY Zenon, <1>4, <2>1 DEF Lread, Done, a, zeros
  <2>3. api' = api /\ (pc = "lread_nul" => api = "read_vm_data_nul")
    BY <1>1 DEF HonestInv, callVars
  <2>. QED
    BY <1>1, <2>2, <2>3 DEF CompleteInv
<1>. QED
  BY <1>3, <1>4

LEMMA StepIsComplete ==
  ASSUME WordsFit, Uncut, IInv, HonestInv, CompleteInv, Step
  PROVE  CompleteInv'
<1>1. CASE CreadNul \/ CreadNulEnd
  <2>1. pc = "cread_nul" /\ api = "read_vm_data_nul" /\ api' = api /\ errno = None
    BY <1>1 DEF CreadNul, CreadNulEnd, HonestInv, CompleteInv, callVars
  <2>2. pc' \in {"done", "lread_nul"} \/ (pc' = pc /\ errno' = errno)
    BY <1>1, <2>1 DEF CreadNul, CreadNulEnd, Dispatch, Done, WordByWord
  <2>. QED
    BY <2>1, <2>2 DEF CompleteInv
<1>2. CASE LreadEnd
  <2>1. /\ pc \in {"lread", "lread_nul"} /\ pc' = "done" /\ ret' = count
        /\ errno' = errno /\ UNCHANGED <<memVars, callVars>> /\ len = 0
    BY <1>2 DEF LreadEnd, Done
  <2>2. count = len0 /\ len0 \in Nat
    BY <2>1 DEF IInv, TypeOK, TransferInv
  <2>3. api # "read_vm_data_nul" => pc = "lread"
    BY <2>1 DEF HonestInv
  <2>. QED
    BY <2>1, <2>2, <2>3 DEF CompleteInv, callVars
<1>. QED
  BY <1>1, <1>2, CreadIsComplete, LreadIsComplete DEF Step

LEMMA OthersAreComplete ==
  ASSUME CompleteInv,
         \/ \E f \in Api, a \in Long, l \in 0 .. MaxLen : Call(f, a, l)
         \/ Consume \/ Environment \/ UNCHANGED vars
  PROVE  CompleteInv'
<1>1. ASSUME NEW f \in Api, NEW a \in Long, NEW l \in 0 .. MaxLen, Call(f, a, l)
      PROVE  CompleteInv'
  <2>1. pc' \in {"cread", "cread_nul"} /\ errno' = None
    BY <1>1 DEF Call, CrossAttach
  <2>. QED
    BY <2>1 DEF CompleteInv
<1>2. CASE Consume
  BY <1>2 DEF Consume, CompleteInv
<1>3. CASE Environment
  <2>1. pc # "done" /\ pc' = pc /\ errno' = errno /\ count' = count
    BY Zenon, <1>3 DEF Environment, localVars
  <2>. QED
    BY <2>1 DEF CompleteInv
<1>4. CASE UNCHANGED vars
  <2>1. UNCHANGED <<memVars, errno, pc, callVars, localVars, ret>>
    BY <1>4 DEF vars
  <2>2. Available' <=> Available
    BY <2>1 DEF Available, Accessible, Source, setup_addr, memVars, callVars
  <2>. QED
    BY <2>1, <2>2 DEF CompleteInv, callVars, localVars
<1>. QED
  BY <1>1, <1>2, <1>3, <1>4

LEMMA UncutKeeps == AddressesFit /\ Uncut /\ [Next]_vars => Uncut'
<1>. SUFFICES ASSUME AddressesFit, Uncut, [Next]_vars
              PROVE  Uncut'
  OBVIOUS
<1>1. ASSUME NEW f \in Api, NEW reg \in 0 .. AbiSpan - 1, NEW l \in 0 .. MaxLen,
             Call(f, ArgumentOf(reg), l)
      PROVE  Uncut'
  <2>1. addr0' = ArgumentOf(reg)
    BY <1>1 DEF Call
  <2>2. setup_addr(addr0)' = setup_addr(ArgumentOf(reg))
    BY <2>1 DEF setup_addr
  <2>. QED
    BY <2>1, <2>2, ArgumentUncut DEF Uncut
<1>2. CASE Consume
  <2>1. addr0' = 0
    BY <1>2 DEF Consume
  <2>2. setup_addr(addr0)' = 0
    BY <2>1, ModIdentity, MemoryAssumption DEF setup_addr
  <2>. QED
    BY <2>1, <2>2 DEF Uncut
<1>3. CASE Step \/ Environment \/ UNCHANGED vars
  <2>1. addr0' = addr0
    BY Zenon, <1>3 DEF Step, Cread, CreadNul, CreadNulEnd, Lread, LreadEnd, Environment,
                callVars, vars
  <2>. QED
    BY <2>1 DEF Uncut, setup_addr
<1>. QED
  BY <1>1, <1>2, <1>3 DEF Next

(* "Read len bytes of data of tracee at address addr": what stays accessible *)
(* is read to the end by pink_read_vm_data and _full, whichever way they     *)
(* read it, for every length and alignment, where words do not reach into a  *)
(* second page and no address of the tracee is changed by being passed as a  *)
(* long.                                                                     *)
THEOREM AccessibleReadsSucceed ==
  ASSUME WordsFit, AddressesFit
  PROVE  Spec => []AccessibleReadSucceeds
<1>. DEFINE Inv == HonestInv /\ Uncut /\ CompleteInv
<1>1. Init => Inv
  <2>. SUFFICES ASSUME Init
                PROVE  Inv
    OBVIOUS
  <2>1. setup_addr(addr0) = addr0
    BY ModIdentity, MemoryAssumption DEF Init, setup_addr
  <2>. QED
    BY <2>1 DEF Init, HonestInv, ResultIsHonest, Uncut, CompleteInv
<1>2. IInv /\ Inv /\ [Next]_vars => Inv'
  BY StepIsHonest, OthersAreHonest, StepIsComplete, OthersAreComplete, UncutKeeps,
     ArgumentIsLong DEF Next
<1>3. Inv => AccessibleReadSucceeds
  BY DEF CompleteInv, Available, AccessibleReadSucceeds
<1>. QED
  BY <1>1, <1>2, <1>3, InductiveInvariant, PTL DEF Spec

-----------------------------------------------------------------------------
(* The count of pink_read_vm_data_nul.  As long as pink_vm_cread_nul goes on *)
(* no zero-byte was stored, and ptrace is used only where process_vm_readv   *)
(* is refused.                                                               *)
NulInv ==
  /\ pc \in {"cread", "cread_nul"} => errno = None
  /\ pc = "cread_nul" => \A i \in Index : i < count => dest[i] # 0
  /\ pc = "lread_nul" => xattach # "ok"
  /\ CrossAttachNulCount

(* The zero-byte that is found first in a chunk is the first of the buffer. *)
LEMMA CountAtZero ==
  ASSUME IInv, NEW r \in Nat, count + r <= len0,
         \A j \in 0 .. r - 1 : addr + j \in Addr,
         \A i \in Index : i < count => dest[i] # 0,
         Zeros(addr, r) # {},
         dest' = Copied(addr, r), count' = count + r
  PROVE  NulCount' = count + Min(Zeros(addr, r)) + 1
<1>. USE ReadAssumption
<1>. DEFINE z == Min(Zeros(addr, r))
            zeros == {i \in Index : i < count' /\ dest'[i] = 0}
<1>1. count \in Nat /\ len0 \in 0 .. MaxLen /\ addr \in Nat
  BY DEF IInv, TypeOK
<1>2. z \in 0 .. r - 1 /\ mem[addr + z] = 0
      /\ \A j \in 0 .. r - 1 : mem[addr + j] = 0 => z <= j
  <2>1. Zeros(addr, r) \in SUBSET Nat
    BY DEF Zeros
  <2>2. z \in Zeros(addr, r) /\ \A j \in Zeros(addr, r) : z <= j
    BY <2>1, MinIsLeast
  <2>. HIDE DEF z
  <2>. QED
    BY <2>2 DEF Zeros
<1>. HIDE DEF z
<1>3. ASSUME NEW i \in Index
      PROVE  dest'[i] = IF count <= i /\ i < count + r THEN mem[addr + (i - count)]
                                                       ELSE dest[i]
  BY <1>3 DEF Copied
<1>4. count + z \in zeros
  <2>1. count + z \in Index /\ count + z < count + r /\ (count + z) - count = z
    BY <1>1, <1>2 DEF Index
  <2>2. dest'[count + z] = mem[addr + ((count + z) - count)]
    BY <1>1, <1>2, <1>3, <2>1
  <2>. QED
    BY <1>2, <2>1, <2>2
<1>5. ASSUME NEW i \in zeros
      PROVE  count + z <= i
  <2>1. i \in Index /\ i < count + r /\ dest'[i] = 0 /\ i \in Int
    BY DEF Index
  <2>2. CASE i < count
    BY <1>1, <1>3, <2>1, <2>2
  <2>3. CASE count <= i
    <3>1. i - count \in 0 .. r - 1 /\ mem[addr + (i - count)] = 0
      BY <1>1, <1>3, <2>1, <2>3
    <3>2. z <= i - count
      BY <1>2, <3>1
    <3>. QED
      BY <1>1, <1>2, <2>1, <3>2
  <2>. QED
    BY <1>1, <2>1, <2>2, <2>3
<1>6. zeros \in SUBSET Nat
  BY DEF Index
<1>7. NulCount' = IF zeros = {} THEN count' ELSE Min(zeros) + 1
  BY DEF NulCount
<1>. HIDE DEF zeros
<1>8. Min(zeros) \in zeros /\ \A y \in zeros : Min(zeros) <= y
  BY <1>4, <1>6, MinIsLeast
<1>9. Min(zeros) = count + z
  <2>1. Min(zeros) <= count + z /\ count + z <= Min(zeros)
    BY <1>4, <1>5, <1>8
  <2>2. Min(zeros) \in Nat
    BY Zenon, <1>6, <1>8
  <2>3. count + z \in Nat
    BY <1>1, <1>2
  <2>. QED
    BY <2>1, <2>2, <2>3
<1>. QED
  BY <1>4, <1>7, <1>9 DEF z

LEMMA CreadNulCounts ==
  ASSUME IInv, HonestInv, NulInv, CreadNul
  PROVE  NulInv'
<1>. USE MemoryAssumption, ReadAssumption
<1>. DEFINE l == ChunkLen(ChunkAddr)
<1>1. /\ addr \in Nat /\ len \in 1 .. MaxLen /\ count \in 0 .. MaxLen
      /\ count + len = len0 /\ len0 \in 0 .. MaxLen /\ errno = None
      /\ pc = "cread_nul" /\ api = "read_vm_data_nul" /\ MemoryTypeOK
      /\ \A i \in Index : i < count => dest[i] # 0
      /\ UNCHANGED <<memVars, callVars>>
  <2>1. pc = "cread_nul" /\ len > 0 /\ UNCHANGED <<memVars, callVars>>
    BY DEF CreadNul
  <2>2. addr \in Nat /\ len \in 0 .. MaxLen /\ count \in 0 .. MaxLen
        /\ count + len = len0 /\ len0 \in 0 .. MaxLen /\ MemoryTypeOK
    BY <2>1 DEF IInv, TypeOK, TransferInv
  <2>3. errno = None /\ api = "read_vm_data_nul"
        /\ \A i \in Index : i < count => dest[i] # 0
    BY <2>1 DEF HonestInv, NulInv
  <2>. QED
    BY <2>1, <2>2, <2>3
<1>2. l \in 1 .. len
  BY <1>1, ChunkLenBounds DEF IInv
<1>. HIDE DEF l
<1>3. PICK out \in ProcessVm(addr, l) :
        IF out.r < 0
        THEN /\ Dispatch(IF count > 0 THEN count ELSE -1, out.err, count)
             /\ UNCHANGED dest
        ELSE /\ dest' = Copied(addr, out.r)
             /\ IF Zeros(addr, out.r) # {}
                THEN Dispatch(count + Min(Zeros(addr, out.r)) + 1, errno,
                              count + out.r)
                ELSE /\ addr' = addr + out.r
                     /\ len' = len - out.r
                     /\ count' = count + out.r
                     /\ UNCHANGED <<pc, errno, ret, rc, residue>>
  BY DEF CreadNul, l
<1>4. /\ out.r \in -1 .. l /\ out.err \in Errno
      /\ out.err \in {"ENOSYS", "EPERM"} => xattach # "ok"
      /\ \A j \in 0 .. out.r - 1 : addr + j \in Addr
  <2>1. l \in Nat
    BY <1>1, <1>2
  <2>. QED
    BY Zenon, <1>1, <2>1, ProcessVmOutcome
<1>5. CASE out.r < 0
  <2>1. Dispatch(IF count > 0 THEN count ELSE -1, out.err, count) /\ dest' = dest
    BY <1>3, <1>5
  <2>2. CASE out.err \in {"ENOSYS", "EPERM"}
    <3>1. pc' = "lread_nul" /\ xattach' # "ok"
      BY <1>1, <1>4, <2>1, <2>2 DEF Dispatch, WordByWord, memVars
    <3>. QED
      BY <3>1 DEF NulInv, CrossAttachNulCount
  <2>3. CASE out.err \notin {"ENOSYS", "EPERM"}
    <3>1. pc' = "done" /\ ret' = (IF count > 0 THEN count ELSE -1) /\ count' = count
      BY <2>1, <2>3 DEF Dispatch, Done
    <3>2. NulCount' = count
      BY <1>1, <2>1, <3>1 DEF NulCount
    <3>. QED
      BY <1>1, <3>1, <3>2 DEF NulInv, CrossAttachNulCount
  <2>. QED
    BY <2>2, <2>3
<1>6. CASE out.r >= 0
  <2>. DEFINE r == out.r
  <2>0. r \in Nat /\ ~(r < 0) /\ count + r <= len0
    <3>1. r \in -1 .. l /\ r >= 0
      BY Zenon, <1>4, <1>6
    <3>. HIDE DEF r
    <3>. QED
      BY <1>1, <1>2, <3>1
  <2>1. out.r \in Nat /\ count + out.r <= len0 /\ dest' = Copied(addr, out.r)
    BY Zenon, <1>3, <2>0
  <2>2. CASE Zeros(addr, out.r) # {}
    <3>1. Dispatch(count + Min(Zeros(addr, out.r)) + 1, None, count + out.r)
      BY Zenon, <1>1, <1>3, <2>0, <2>2
    <3>2. pc' = "done" /\ ret' = count + Min(Zeros(addr, out.r)) + 1
          /\ count' = count + out.r
      BY <3>1 DEF Dispatch, Done, None
    <3>3. NulCount' = count + Min(Zeros(addr, out.r)) + 1
      BY Zenon, <1>1, <1>4, <2>1, <2>2, <3>2, CountAtZero
    <3>. QED
      BY <3>2, <3>3 DEF NulInv, CrossAttachNulCount
  <2>3. CASE Zeros(addr, out.r) = {}
    <3>1. pc' = pc /\ count' = count + out.r /\ errno' = errno
      BY <1>3, <1>4, <1>6, <2>3
    <3>2. ASSUME NEW i \in Index, i < count + out.r
          PROVE  dest'[i] # 0
      <4>1. CASE count <= i
        <5>1. i - count \in 0 .. out.r - 1
          BY <1>1, <2>1, <3>2, <4>1 DEF Index
        <5>2. mem[addr + (i - count)] # 0
          BY <2>3, <5>1 DEF Zeros
        <5>3. dest'[i] = mem[addr + (i - count)]
          BY <2>1, <3>2, <4>1 DEF Copied
        <5>. QED
          BY <5>2, <5>3
      <4>2. CASE ~(count <= i)
        <5>1. dest'[i] = dest[i]
          BY <2>1, <4>2 DEF Copied
        <5>2. i < count
          BY <1>1, <4>2 DEF Index
        <5>. QED
          BY <1>1, <5>1, <5>2
      <4>. QED
        BY <4>1, <4>2
    <3>. QED
      BY <1>1, <3>1, <3>2 DEF NulInv, CrossAttachNulCount
  <2>. QED
    BY <2>2, <2>3
<1>. QED
  BY <1>1, <1>4, <1>5, <1>6

LEMMA StepCounts ==
  ASSUME IInv, HonestInv, NulInv, Step
  PROVE  NulInv'
<1>1. CASE CreadNulEnd
  <2>1. pc = "cread_nul" /\ errno = None /\ UNCHANGED dest
    BY <1>1 DEF CreadNulEnd, NulInv
  <2>2. pc' = "done" /\ ret' = count /\ count' = count
    BY <1>1, <2>1 DEF CreadNulEnd, Dispatch, Done, None
  <2>3. NulCount' = count
    BY <2>1, <2>2 DEF NulInv, NulCount
  <2>. QED
    BY <2>2, <2>3 DEF NulInv, CrossAttachNulCount
<1>2. CASE Cread
  <2>1. pc = "cread" /\ api' = api /\ api # "read_vm_data_nul"
    BY <1>2 DEF Cread, callVars, HonestInv
  <2>2. pc' \in {"lread", "done"}
    BY <1>2, <2>1 DEF Cread, Dispatch, Done, WordByWord
  <2>. QED
    BY <2>1, <2>2 DEF NulInv, CrossAttachNulCount
<1>3. CASE Lread \/ LreadEnd
  <2>1. pc \in {"lread", "lread_nul"} /\ UNCHANGED <<memVars, callVars>>
    BY <1>3 DEF Lread, LreadEnd
  <2>2. pc' \in {pc, "done"}
    BY <1>3 DEF Lread, LreadEnd, Done
  <2>3. api = "read_vm_data_nul" => xattach # "ok"
    BY <2>1 DEF HonestInv, NulInv
  <2>. QED
    BY <2>1, <2>2, <2>3 DEF NulInv, CrossAttachNulCount, memVars, callVars, HonestInv
<1>. QED
  BY <1>1, <1>2, <1>3, CreadNulCounts DEF Step

LEMMA OthersCount ==
  ASSUME NulInv,
         \/ \E f \in Api, a \in Long, l \in 0 .. MaxLen : Call(f, a, l)
         \/ Consume \/ Environment \/ UNCHANGED vars
  PROVE  NulInv'
<1>1. ASSUME NEW f \in Api, NEW a \in Long, NEW l \in 0 .. MaxLen, Call(f, a, l)
      PROVE  NulInv'
  <2>1. pc' \in {"cread", "cread_nul"} /\ count' = 0 /\ errno' = None
    BY <1>1 DEF Call, CrossAttach
  <2>2. \A i \in Index : ~(i < 0)
    BY DEF Index
  <2>. QED
    BY <2>1, <2>2 DEF NulInv, CrossAttachNulCount
<1>2. CASE Consume
  BY <1>2 DEF Consume, NulInv, CrossAttachNulCount
<1>3. CASE Environment
  <2>1. pc # "done" /\ pc' = pc /\ count' = count /\ dest' = dest /\ errno' = errno
    BY Zenon, <1>3 DEF Environment, localVars
  <2>2. xattach # "ok" => xattach' # "ok"
    BY Zenon, <1>3 DEF Environment, Store, Unmap, Revoke, Killed
  <2>. QED
    BY <2>1, <2>2 DEF NulInv, CrossAttachNulCount
<1>4. CASE UNCHANGED vars
  <2>1. UNCHANGED <<pc, errno, count, dest, api, ret, xattach>>
    BY <1>4 DEF vars, memVars, callVars, localVars
  <2>2. NulCount' = NulCount
    BY <2>1 DEF NulCount
  <2>. QED
    BY <2>1, <2>2 DEF NulInv, CrossAttachNulCount
<1>. QED
  BY <1>1, <1>2, <1>3, <1>4

(* When process_vm_readv serves it, pink_read_vm_data_nul "returns the      *)
(* number of bytes read including the zero-byte", or all of them if it was  *)
(* cut short, for every chunk size, page size and interference.             *)
THEOREM CrossAttachNulCounts == Spec => []CrossAttachNulCount
<1>1. Init => HonestInv /\ NulInv
  BY DEF Init, HonestInv, ResultIsHonest, NulInv, CrossAttachNulCount
<1>2. IInv /\ HonestInv /\ NulInv /\ [Next]_vars => HonestInv' /\ NulInv'
  BY StepIsHonest, OthersAreHonest, StepCounts, OthersCount, ArgumentIsLong DEF Next
<1>3. NulInv => CrossAttachNulCount
  BY DEF NulInv
<1>. QED
  BY <1>1, <1>2, <1>3, InductiveInvariant, PTL DEF Spec

-----------------------------------------------------------------------------
(* The functions that read in several steps. *)

(* The l bytes at a lie in one page. *)
OnePage(a, l) ==
  \E p \in Pages : \A i \in 0 .. l - 1 :
    setup_addr(a) + i \in {x \in Addr : x \div PageSize = p}

(* A plain read within one page is complete or leaves errno set. *)
WholeInv ==
  /\ pc = "done" /\ api = "read_vm_data" /\ errno = None /\ OnePage(addr0, len0)
  => count = len0

(* What holds of the reads themselves. *)
VInv == IInv /\ HonestInv /\ WholeInv

(* The contents of a mapped page are accessible as a whole. *)
LEMMA RunInOnePage ==
  ASSUME TypeOK, addr = setup_addr(addr0), len = len0, OnePage(addr0, len0),
         NEW k \in AccessibleRuns(addr, len)
  PROVE  k = len
<1>1. addr \in Nat /\ len \in Nat
  BY DEF TypeOK
<1>2. /\ k \in 1 .. len
      /\ \A j \in 0 .. k - 1 : Accessible(addr + j)
      /\ k < len => ~Accessible(addr + k)
  BY DEF AccessibleRuns
<1>. SUFFICES ASSUME k < len
              PROVE  FALSE
  BY <1>1, <1>2
<1>3. PICK p \in Pages : \A i \in 0 .. len - 1 :
        addr + i \in Addr /\ (addr + i) \div PageSize = p
  BY DEF OnePage
<1>4. 0 \in 0 .. k - 1 /\ 0 \in 0 .. len - 1 /\ k \in 0 .. len - 1
  BY <1>1, <1>2
<1>5. Accessible(addr + 0)
  BY <1>2, <1>4
<1>6. p \in mapped
  BY <1>3, <1>4, <1>5 DEF Accessible
<1>7. Accessible(addr + k)
  BY <1>3, <1>4, <1>6 DEF Accessible
<1>. QED
  BY <1>2, <1>7

LEMMA StepIsWhole == IInv /\ HonestInv /\ Step => WholeInv'
<1>. SUFFICES ASSUME IInv, HonestInv, Step,
                     pc' = "done", api' = "read_vm_data", errno' = None,
                     OnePage(addr0, len0)'
              PROVE  count' = len0'
  BY DEF WholeInv
<1>0. UNCHANGED callVars
  BY Zenon DEF Step, Cread, CreadNul, CreadNulEnd, Lread, LreadEnd
<1>1. api = "read_vm_data" /\ OnePage(addr0, len0) /\ len0' = len0
  BY <1>0 DEF callVars, OnePage, setup_addr
<1>2. /\ addr \in Nat /\ len \in Nat /\ len0 \in Nat /\ count \in Nat
      /\ MemoryTypeOK /\ addr0 \in Nat
  BY MemoryAssumption, ReadAssumption DEF IInv, TypeOK, Long
<1>. DEFINE inCall == pc \notin {"idle", "done"}
<1>7. /\ inCall => count + len = len0
      /\ pc = "cread" => count = 0 /\ addr = Source(count)
  BY Zenon DEF IInv, TransferInv
<1>3. CASE Cread
  <2>1. PICK out \in ProcessVm(addr, len) :
          IF out.r < 0
          THEN Dispatch(-1, out.err, 0) /\ UNCHANGED dest
          ELSE Dispatch(out.r, errno, out.r) /\ dest' = Copied(addr, out.r)
    BY <1>3 DEF Cread
  <2>2. out.r \in -1 .. len /\ out.err \in Errno /\ (out.r < 0 => out.err # None)
    BY <1>2, <2>1, ProcessVmOutcome
  <2>3. CASE out.r < 0
    BY <2>1, <2>2, <2>3 DEF Dispatch, Done, WordByWord
  <2>4. CASE ~(out.r < 0)
    <3>1. count' = out.r
      BY <1>1, <2>1, <2>4 DEF Dispatch, Done, WordByWord
    <3>2. count = 0 /\ len = len0 /\ addr = Source(0)
      <4>1. pc = "cread"
        BY Zenon, <1>3 DEF Cread
      <4>2. count = 0 /\ addr = Source(count) /\ count + len = len0
        BY <1>7, <4>1
      <4>. QED
        BY <1>2, <4>2
    <3>3. addr = setup_addr(addr0)
      <4>1. setup_addr(addr0) \in Nat
        BY SetupAddrType DEF IInv, TypeOK
      <4>. QED
        BY <3>2, <4>1 DEF Source
    <3>4. out.r = len
      <4>0. out \in ProcessVm(addr, len)
        BY Zenon, <2>1
      <4>1. CASE xattach # "ok" \/ ~alive
        <5>1. \E e : out = [r |-> -1, err |-> e]
          BY Zenon, <4>0, <4>1 DEF ProcessVm
        <5>. QED
          BY <2>4, <5>1
      <4>2. CASE xattach = "ok" /\ alive /\ len = 0
        <5>1. out = [r |-> 0, err |-> None]
          BY Zenon, <4>0, <4>2 DEF ProcessVm
        <5>. QED
          BY <4>2, <5>1
      <4>3. CASE xattach = "ok" /\ alive /\ len # 0
        <5>1. out.r \in AccessibleRuns(addr, len)
          <6>1. \/ \E k \in AccessibleRuns(addr, len) : out = [r |-> k, err |-> None]
                \/ out = [r |-> -1, err |-> "EFAULT"]
            BY Zenon, <4>0, <4>3 DEF ProcessVm
          <6>. QED
            BY <2>4, <6>1
        <5>. QED
          BY <1>1, <3>2, <3>3, <5>1, RunInOnePage DEF IInv
      <4>. QED
        BY <4>1, <4>2, <4>3
    <3>. QED
      BY <1>1, <3>1, <3>2, <3>4
  <2>. QED
    BY <2>3, <2>4
<1>4. CASE CreadNul \/ CreadNulEnd
  BY <1>1, <1>4 DEF HonestInv, CreadNul, CreadNulEnd
<1>5. CASE Lread
  <2>. DEFINE a == addr - (addr % WordSize)
              peek == pink_read_word_data(a)
              zeros == {j \in residue .. WordSize - 1 : mem[a + j] = 0}
  <2>1. a \in Nat
    BY MemoryAssumption, ReadAssumption, <1>2, AlignDown
  <2>2. peek.r # None => peek.err # None
    BY Zenon, <2>1, PeekError
  <2>3. CASE peek.r # None
    <3>1. Done(-1, peek.err)
      BY Zenon, <1>5, <2>3 DEF Lread
    <3>. HIDE DEF peek
    <3>. QED
      BY <2>2, <2>3, <3>1 DEF Done
  <2>4. CASE peek.r = None
    <3>1. pc = "lread"
      BY Zenon, <1>1, <1>5 DEF Lread, HonestInv
    <3>2. pc' = pc
      BY Zenon, <1>5, <2>4, <3>1 DEF Lread
    <3>. QED
      BY <3>1, <3>2
  <2>. QED
    BY <2>3, <2>4
<1>6. CASE LreadEnd
  <2>1. pc \in {"lread", "lread_nul"} /\ len = 0 /\ count' = count
    BY Zenon, <1>6 DEF LreadEnd, localVars
  <2>2. count + len = len0
    BY <1>7, <2>1
  <2>. QED
    BY <1>1, <1>2, <2>1, <2>2
<1>. QED
  BY <1>3, <1>4, <1>5, <1>6 DEF Step

LEMMA VInvKeeps ==
  ASSUME VInv,
         \/ \E f \in Api, a \in Long, l \in 0 .. MaxLen : Call(f, a, l)
         \/ Step \/ Consume \/ Environment \/ UNCHANGED vars
  PROVE  VInv'
<1>1. CASE Step
  BY <1>1, StepKeeps, StepIsHonest, StepIsWhole DEF VInv
<1>2. ASSUME NEW f \in Api, NEW a \in Long, NEW l \in 0 .. MaxLen, Call(f, a, l)
      PROVE  VInv'
  <2>1. WholeInv'
    BY <1>2 DEF Call, CrossAttach, WholeInv
  <2>. QED
    BY <1>2, <2>1, CallKeeps, OthersAreHonest DEF VInv
<1>3. CASE Consume
  <2>1. WholeInv'
    BY <1>3 DEF Consume, WholeInv
  <2>. QED
    BY <1>3, <2>1, ConsumeKeeps, OthersAreHonest DEF VInv
<1>4. CASE Environment
  <2>1. WholeInv'
    BY <1>4 DEF Environment, WholeInv
  <2>. QED
    BY <1>4, <2>1, EnvironmentKeeps, OthersAreHonest DEF VInv
<1>5. CASE UNCHANGED vars
  <2>1. WholeInv'
    BY <1>5 DEF VInv, WholeInv, vars, callVars, localVars, OnePage, setup_addr
  <2>. QED
    BY <1>5, <2>1, StutterKeeps, OthersAreHonest DEF VInv
<1>. QED
  BY <1>1, <1>2, <1>3, <1>4, <1>5
=============================================================================
