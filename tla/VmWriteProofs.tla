---------------------------- MODULE VmWriteProofs ---------------------------
(***************************************************************************)
(* For every word size, address space, data, length and environment: with  *)
(* process_vm_writev, and for whole aligned words, pink_write_vm_data      *)
(* changes exactly the bytes it counts, and its result says how many.      *)
(***************************************************************************)
EXTENDS VmWrite, MemoryProofs

(* The inductive invariant, and the steps that keep it. *)
IInv == TypeOK /\ WriteInv /\ WriteIsExact /\ WriteResultIsHonest

LEMMA InitEstablishes == Init => IInv
BY MemoryAssumption, WriteAssumption
   DEF Init, MemoryInit, IInv, TypeOK, MemoryTypeOK, WriteInv, WriteIsExact,
       WriteResultIsHonest, Target, Index, Errno, None, Long, Byte

LEMMA CallKeeps ==
  ASSUME IInv, NEW reg \in 0 .. AbiSpan - 1, NEW data \in Sources,
         NEW l \in 0 .. MaxLen, Call(ArgumentOf(reg), data, l)
  PROVE  IInv'
<1>. DEFINE a == ArgumentOf(reg)
<1>1. a \in Long
  BY MemoryAssumption DEF ArgumentOf, Long
<1>2. setup_addr(a) \in Nat
  BY <1>1, SetupAddrType
<1>. HIDE DEF a
<1>. USE MemoryAssumption, WriteAssumption
<1>3. Call(a, data, l)
  BY DEF a
<1>4. TypeOK'
  BY <1>1, <1>2, <1>3
     DEF IInv, TypeOK, MemoryTypeOK, Call, memVars, Errno, None
<1>5. WriteInv'
  BY <1>1, <1>2, <1>3 DEF WriteInv, Call, setup_addr
<1>6. WriteIsExact'
  BY <1>3 DEF WriteIsExact, Target, Call, memVars
<1>7. WriteResultIsHonest'
  BY <1>3 DEF WriteResultIsHonest, Call
<1>. QED
  BY <1>4, <1>5, <1>6, <1>7 DEF IInv

LEMMA ConsumeKeeps == IInv /\ Consume => IInv'
BY MemoryAssumption, WriteAssumption
   DEF IInv, TypeOK, MemoryTypeOK, WriteInv, WriteIsExact, WriteResultIsHonest,
       Target, Consume, memVars, Index, Errno, None, Long, Byte

(* The addresses of n bytes from b on. *)
LEMMA RangeOf ==
  ASSUME NEW b \in Nat, NEW n \in Nat, NEW x \in Int
  PROVE  x \in {b + i : i \in 0 .. n - 1} <=> b <= x /\ x < b + n
<1>1. ASSUME b <= x, x < b + n
      PROVE  x \in {b + i : i \in 0 .. n - 1}
  <2>1. x - b \in 0 .. n - 1 /\ x = b + (x - b)
    BY <1>1
  <2>. QED
    BY <2>1
<1>. QED
  BY <1>1

LEMMA CwriteKeeps == IInv /\ Cwrite => IInv'
<1>. SUFFICES ASSUME IInv, Cwrite
              PROVE  IInv'
  OBVIOUS
<1>. USE MemoryAssumption, WriteAssumption
<1>1. /\ pc = "cwrite" /\ count = 0 /\ len = len0 /\ len \in 0 .. MaxLen
      /\ addr = setup_addr(addr0) /\ addr \in Nat /\ addr0 \in Nat
      /\ MemoryTypeOK /\ src \in [Index -> Byte]
  BY DEF IInv, TypeOK, WriteInv, Cwrite, Long
<1>2. UNCHANGED <<mapped, alive, xattach, stores, callVars, historyVars>>
  BY DEF Cwrite
<1>3. PICK out \in ProcessVm(addr, len) :
        IF Fallback(out.err)
        THEN /\ pc' = "lwrite"
             /\ errno' = out.err
             /\ addr' = addr0 /\ residue' = addr0 % WordSize
             /\ UNCHANGED <<mem, len, count, ret>>
        ELSE /\ pc' = "done"
             /\ errno' = out.err
             /\ ret' = out.r
             /\ count' = IF out.r > 0 THEN out.r ELSE 0
             /\ mem' = [a \in Addr |-> IF addr <= a /\ a < addr + out.r
                                       THEN src[a - addr] ELSE mem[a]]
             /\ UNCHANGED <<addr, residue, len>>
  BY DEF Cwrite
<1>4. /\ out.r \in -1 .. len
      /\ out.err \in Errno
      /\ out.err \in {"ENOSYS", "EPERM"} => xattach # "ok"
      /\ out.r < 0 => out.err # None
      /\ out.r = 0 => len = 0
      /\ \A j \in 0 .. out.r - 1 : addr + j \in Addr
  BY <1>1, <1>3, ProcessVmOutcome
<1>5. \A x \in Addr : mem[x] = shadow[x]  \/ ~(xattach = "ok" \/ Aligned)
  BY <1>1 DEF IInv, WriteIsExact, Target
<1>6. CASE Fallback(out.err)
  <2>1. addr0 % WordSize \in 0 .. WordSize - 1
    BY <1>1, AlignDown
  <2>2. TypeOK'
    BY <1>1, <1>2, <1>3, <1>4, <1>6, <2>1
       DEF IInv, TypeOK, MemoryTypeOK, callVars, historyVars
  <2>3. WriteInv'
    BY <1>1, <1>2, <1>3, <1>4, <1>6 DEF WriteInv, Aligned, Fallback, callVars
  <2>4. WriteIsExact'
    BY <1>2, <1>3, <1>6
       DEF IInv, WriteIsExact, Target, Aligned, setup_addr, callVars, historyVars
  <2>5. WriteResultIsHonest'
    BY <1>3, <1>6 DEF WriteResultIsHonest
  <2>. QED
    BY <2>2, <2>3, <2>4, <2>5 DEF IInv
<1>7. CASE ~Fallback(out.err)
  <2>1. /\ pc' = "done" /\ errno' = out.err /\ ret' = out.r
        /\ count' = IF out.r > 0 THEN out.r ELSE 0
        /\ mem' = [a \in Addr |-> IF addr <= a /\ a < addr + out.r
                                  THEN src[a - addr] ELSE mem[a]]
        /\ UNCHANGED <<addr, residue, len>>
    BY <1>3, <1>7
  <2>2. \A a \in Addr : addr <= a /\ a < addr + out.r => a - addr \in Index
    BY <1>1, <1>4 DEF Index, Addr
  <2>3. mem' \in [Addr -> Byte]
    BY <1>1, <2>1, <2>2 DEF MemoryTypeOK
  <2>4. TypeOK'
    BY <1>1, <1>2, <1>4, <2>1, <2>3
       DEF IInv, TypeOK, MemoryTypeOK, callVars, historyVars
  <2>5. WriteInv'
    BY <2>1 DEF WriteInv
  <2>6. WriteResultIsHonest'
    BY <1>1, <1>2, <1>4, <2>1 DEF WriteResultIsHonest, callVars
  <2>7. setup_addr(addr0)' = addr
    BY <1>1, <1>2 DEF setup_addr, callVars
  <2>8. \A x \in Int : x \in Target' <=> addr <= x /\ x < addr + out.r
    <3>1. count' \in Nat /\ (out.r > 0 => count' = out.r)
          /\ (out.r <= 0 => count' = 0)
      BY <1>4, <2>1
    <3>2. Target' = {addr + i : i \in 0 .. count' - 1}
      BY <2>7 DEF Target
    <3>3. \A x \in Int : x \in Target' <=> addr <= x /\ x < addr + count'
      BY Zenon, <1>1, <3>1, <3>2, RangeOf
    <3>. QED
      BY <1>1, <1>4, <3>1, <3>3
  <2>9. WriteIsExact'
    <3>1. \A j \in 0 .. out.r - 1 : addr + j \in Addr
      BY <1>4
    <3>2. \A x \in Target' : x \in Addr
      <4>. SUFFICES ASSUME NEW x \in Target'
                    PROVE  x \in Addr
        OBVIOUS
      <4>1. x \in Int
        BY <1>1, <2>7 DEF Target
      <4>2. x - addr \in 0 .. out.r - 1 /\ addr + (x - addr) = x
        BY <1>1, <1>4, <2>8, <4>1
      <4>. QED
        BY <3>1, <4>2
    <3>3. \A x \in Target' : mem'[x] = src[x - addr]
      BY <2>1, <2>8, <3>2 DEF Addr
    <3>4. \A x \in Addr \ Target' : mem'[x] = mem[x]
      BY <2>1, <2>8 DEF Addr
    <3>. QED
      BY <1>2, <1>5, <2>7, <3>3, <3>4
         DEF WriteIsExact, Aligned, callVars, historyVars
  <2>. QED
    BY <2>4, <2>5, <2>6, <2>9 DEF IInv
<1>. QED
  BY <1>6, <1>7

(* The value pink_vm_lwrite returns for a failed poke is the count, or one   *)
(* that no count can have.                                                   *)
LEMMA FailureResult ==
  ASSUME NEW n \in 0 .. MaxLen
  PROVE  /\ n > 0 => FailedAfter(n) = n
         /\ n = 0 => FailedAfter(n) \in {-1, UintSpan - 1}
BY WriteAssumption, MemoryAssumption DEF FailedAfter

LEMMA LwriteKeeps == IInv /\ Lwrite => IInv'
<1>. SUFFICES ASSUME IInv, Lwrite
              PROVE  IInv'
  OBVIOUS
<1>. USE MemoryAssumption, WriteAssumption
<1>. DEFINE a == addr - (addr % WordSize)
            poke == pink_ptrace(PtraceErrno(a), PtraceErrno(a) # None)
            m == PokeLen
<1>1. /\ pc = "lwrite" /\ len \in 1 .. MaxLen /\ count \in 0 .. MaxLen
      /\ count + len = len0 /\ len0 \in 0 .. MaxLen /\ addr \in Nat
      /\ residue \in 0 .. WordSize - 1 /\ addr0 \in Nat /\ xattach # "ok"
  BY DEF IInv, TypeOK, WriteInv, Lwrite, Long
<1>2. a \in Nat /\ (a + WordSize) % WordSize = 0
  BY Zenon, <1>1, AlignDown
<1>3. /\ poke.err \in Errno
      /\ poke.r # None => poke.err # None
      /\ poke.r = None => \A j \in 0 .. WordSize - 1 : a + j \in Addr
  BY <1>2, PokeOutcome
<1>4. m \in 1 .. len /\ m \in 1 .. WordSize - residue
      /\ (len >= WordSize - residue => m = WordSize - residue)
  BY <1>1 DEF PokeLen, MIN
<1>5. /\ UNCHANGED <<mapped, alive, xattach, stores, callVars, historyVars>>
      /\ errno' = poke.err /\ residue' = 0
  BY DEF Lwrite
<1>6. CASE poke.r # None
  <2>1. pc' = "done" /\ ret' = FailedAfter(count)
        /\ UNCHANGED <<mem, addr, len, count>>
    BY <1>6 DEF Lwrite
  <2>. HIDE DEF a, poke, m
  <2>2. TypeOK'
    BY <1>1, <1>3, <1>5, <2>1, FailureResult
       DEF IInv, TypeOK, MemoryTypeOK, callVars, historyVars
  <2>3. WriteInv'
    BY <2>1 DEF WriteInv
  <2>4. WriteIsExact'
    <3>1. Target' = Target /\ Aligned' = Aligned
          /\ setup_addr(addr0)' = setup_addr(addr0) /\ src' = src
      BY <1>5, <2>1 DEF Target, Aligned, setup_addr, callVars
    <3>2. mem' = mem /\ xattach' = xattach /\ touched' = touched /\ shadow' = shadow
      BY <1>5, <2>1 DEF historyVars
    <3>. QED
      BY ZenonT(60), <3>1, <3>2 DEF IInv, WriteIsExact
  <2>5. WriteResultIsHonest'
    BY <1>1, <1>3, <1>5, <1>6, <2>1, FailureResult
       DEF WriteResultIsHonest, callVars
  <2>. QED
    BY <2>2, <2>3, <2>4, <2>5 DEF IInv
<1>7. CASE poke.r = None
  <2>1. PICK w \in PokedWords(m) :
          mem' = [x \in Addr |-> IF a <= x /\ x < a + WordSize
                                 THEN w[x - a] ELSE mem[x]]
    BY <1>7 DEF Lwrite
  <2>2. /\ addr' = a + WordSize /\ count' = count + m /\ len' = len - m
        /\ UNCHANGED <<pc, ret>>
    BY <1>7 DEF Lwrite
  <2>3. \A j \in 0 .. WordSize - 1 : a + j \in Addr
    BY <1>3, <1>7
  <2>4. w \in [0 .. WordSize - 1 -> Byte]
        /\ \A j \in 0 .. m - 1 :
             count + residue + j < len0 => w[j] = src[count + residue + j]
    BY <2>1 DEF PokedWords
  <2>. HIDE DEF poke, m
  <2>5. mem' \in [Addr -> Byte]
    <3>1. \A x \in Addr : a <= x /\ x < a + WordSize => x - a \in 0 .. WordSize - 1
      BY <1>2 DEF Addr
    <3>. HIDE DEF a
    <3>. QED
      BY <2>1, <2>4, <3>1 DEF IInv, TypeOK, MemoryTypeOK
  <2>6. TypeOK'
    <3>. HIDE DEF a
    <3>. QED
      BY <1>1, <1>2, <1>3, <1>4, <1>5, <2>2, <2>5
         DEF IInv, TypeOK, MemoryTypeOK, callVars, historyVars
  <2>7. WriteResultIsHonest'
    BY <1>1, <2>2 DEF WriteResultIsHonest
  <2>8. CASE ~Aligned
    <3>1. WriteInv'
      BY <1>1, <1>4, <1>5, <2>2, <2>8 DEF WriteInv, Aligned, callVars
    <3>2. WriteIsExact'
      BY <1>1, <1>5, <2>8 DEF WriteIsExact, Aligned, callVars
    <3>. QED
      BY <2>6, <2>7, <3>1, <3>2 DEF IInv
  <2>9. CASE Aligned
    <3>1. /\ residue = 0 /\ addr % WordSize = 0 /\ len % WordSize = 0
          /\ addr = addr0 + count
      BY <1>1, <2>9 DEF IInv, WriteInv
    <3>2. a = addr
      BY <1>1, <3>1
    <3>. HIDE DEF a
    <3>3. WordSize <= len /\ (len - WordSize) % WordSize = 0
      <4>1. len \in Nat \ {0} /\ WordSize \in Nat \ {0}
        BY <1>1
      <4>2. len % WordSize = 0
        BY <3>1
      <4>. QED
        BY <4>1, <4>2, WholeWords, Zenon
    <3>4. m = WordSize
      BY <1>1, <1>4, <3>1, <3>3
    <3>5. addr0 \in Addr /\ a = addr0 + count
      <4>1. a + 0 \in Addr
        BY <2>3
      <4>. QED
        BY <1>1, <1>2, <3>1, <3>2, <4>1 DEF Addr
    <3>6. setup_addr(addr0) = addr0 /\ setup_addr(addr0)' = addr0
      <4>1. addr0 \in 0 .. AbiSpan - 1
        BY <3>5 DEF Addr
      <4>. QED
        BY <1>5, <4>1, ModIdentity DEF setup_addr, callVars
    <3>7. WriteInv'
      <4>1. addr' % WordSize = 0 /\ len' % WordSize = 0
        BY <1>2, <2>2, <3>3, <3>4, Zenon
      <4>2. addr' = addr0 + count' /\ count' + len' = len0
        BY <1>1, <2>2, <3>4, <3>5
      <4>. QED
        BY <1>1, <1>5, <2>2, <3>5, <4>1, <4>2 DEF WriteInv, callVars
    <3>8. \A x \in Int : /\ x \in Target <=> addr0 <= x /\ x < a
                         /\ x \in Target' <=> addr0 <= x /\ x < a + WordSize
      <4>1. Target = {addr0 + i : i \in 0 .. count - 1}
            /\ Target' = {addr0 + i : i \in 0 .. count' - 1}
        BY <3>6 DEF Target
      <4>2. count \in Nat /\ count' \in Nat /\ addr0 + count' = a + WordSize
        BY <1>1, <2>2, <3>4, <3>5
      <4>. QED
        BY Zenon, <1>1, <3>5, <4>1, <4>2, RangeOf
    <3>9. \A x \in Target' \ touched : mem'[x] = src[x - addr0]
      <4>. SUFFICES ASSUME NEW x \in Target' \ touched
                    PROVE  mem'[x] = src[x - addr0]
        OBVIOUS
      <4>0. x \in Int
        BY <1>1, <3>6 DEF Target
      <4>1. CASE x < a
        <5>1. x \in Target \ touched
          BY <3>8, <4>0, <4>1
        <5>2. x \in Addr
          <6>1. a + 0 \in Addr
            BY <2>3
          <6>. QED
            BY <1>1, <1>2, <3>8, <4>0, <4>1, <6>1 DEF Addr
        <5>3. mem[x] = src[x - addr0]
          BY <2>9, <3>6, <5>1 DEF IInv, WriteIsExact
        <5>. QED
          BY <1>2, <2>1, <4>0, <4>1, <5>2, <5>3
      <4>2. CASE a <= x
        <5>1. x < a + WordSize
          BY <3>8, <4>0
        <5>2. x - a \in 0 .. WordSize - 1 /\ a + (x - a) = x
          BY <1>2, <4>0, <4>2, <5>1
        <5>3. x \in Addr
          BY <2>3, <5>2
        <5>4. count + residue + (x - a) = x - addr0
              /\ count + residue + (x - a) < len0
          BY <1>1, <1>2, <3>1, <3>3, <3>5, <4>0, <5>2
        <5>5. w[x - a] = src[x - addr0]
          BY <2>4, <3>4, <5>2, <5>4
        <5>. QED
          BY <2>1, <4>2, <5>1, <5>3, <5>5
      <4>. QED
        BY <1>2, <4>0, <4>1, <4>2
    <3>10. \A x \in Addr \ Target' : mem'[x] = shadow[x]
      <4>. SUFFICES ASSUME NEW x \in Addr, x \notin Target'
                    PROVE  mem'[x] = shadow[x]
        OBVIOUS
      <4>1. x \in Int /\ x \notin Target /\ ~(a <= x /\ x < a + WordSize)
        BY <1>1, <1>2, <3>5, <3>8 DEF Addr
      <4>2. mem[x] = shadow[x]
        BY <2>9, <4>1 DEF IInv, WriteIsExact
      <4>. QED
        BY <2>1, <4>1, <4>2
    <3>11. WriteIsExact'
      BY <1>5, <3>6, <3>9, <3>10 DEF WriteIsExact, callVars, historyVars
    <3>. QED
      BY <2>6, <2>7, <3>7, <3>11 DEF IInv
  <2>. QED
    BY <2>8, <2>9
<1>. QED
  BY <1>6, <1>7

LEMMA LwriteEndKeeps == IInv /\ LwriteEnd => IInv'
<1>. SUFFICES ASSUME IInv, LwriteEnd
              PROVE  IInv'
  OBVIOUS
<1>1. /\ pc = "lwrite" /\ pc' = "done" /\ ret' = count /\ len = 0
      /\ UNCHANGED <<memVars, errno, callVars, localVars, historyVars>>
  BY DEF LwriteEnd
<1>2. count = len0 /\ count \in 0 .. MaxLen
  BY <1>1 DEF IInv, TypeOK, WriteInv
<1>3. TypeOK'
  BY <1>1, <1>2
     DEF IInv, TypeOK, MemoryTypeOK, memVars, callVars, localVars, historyVars
<1>4. WriteInv'
  BY <1>1 DEF WriteInv
<1>5. WriteIsExact'
  BY <1>1 DEF IInv, WriteIsExact, Target, Aligned, setup_addr, memVars, callVars,
              localVars, historyVars
<1>6. WriteResultIsHonest'
  BY <1>1, <1>2 DEF WriteResultIsHonest, callVars, localVars
<1>. QED
  BY <1>3, <1>4, <1>5, <1>6 DEF IInv

LEMMA EnvironmentKeeps == IInv /\ Environment => IInv'
<1>. SUFFICES ASSUME IInv, Environment
              PROVE  IInv'
  OBVIOUS
<1>1. pc \notin {"idle", "done"}
      /\ UNCHANGED <<errno, pc, callVars, localVars, ret>>
  BY DEF Environment
<1>2. MemoryTypeOK'
  BY StoreType, UnmapType, RevokeType, KilledType DEF IInv, TypeOK, Environment
<1>3. /\ xattach' # "ok" \/ xattach' = xattach
      /\ xattach # "ok" => xattach' # "ok"
  BY DEF Environment, Store, Unmap, Revoke, Killed
<1>4. WriteInv'
  BY <1>1, <1>3 DEF IInv, WriteInv, Aligned, setup_addr, callVars, localVars
<1>5. WriteResultIsHonest'
  BY <1>1 DEF WriteResultIsHonest
<1>6. Target' = Target /\ Aligned' = Aligned
      /\ setup_addr(addr0)' = setup_addr(addr0) /\ src' = src
  BY <1>1 DEF Target, Aligned, setup_addr, callVars, localVars
<1>7. ASSUME NEW a \in Addr, NEW b \in Byte, Store(a, b),
             shadow' = [shadow EXCEPT ![a] = b], touched' = touched \cup {a}
      PROVE  TypeOK' /\ WriteIsExact'
  <2>1. mem' = [mem EXCEPT ![a] = b] /\ xattach' = xattach
    BY <1>7 DEF Store
  <2>2. TypeOK'
    BY <1>1, <1>2, <1>7 DEF IInv, TypeOK, callVars, localVars
  <2>3. mem \in [Addr -> Byte] /\ shadow \in [Addr -> Byte]
    BY DEF IInv, TypeOK, MemoryTypeOK
  <2>4. \A x \in Target \ touched' : mem'[x] = mem[x]
    BY <1>7, <2>1, <2>3
  <2>5. \A x \in Addr : mem[x] = shadow[x] => mem'[x] = shadow'[x]
    BY <1>7, <2>1, <2>3
  <2>6. WriteIsExact'
    BY <1>6, <1>7, <2>1, <2>4, <2>5 DEF IInv, WriteIsExact
  <2>. QED
    BY <2>2, <2>6
<1>8. ASSUME mem' = mem, UNCHANGED historyVars
      PROVE  TypeOK' /\ WriteIsExact'
  <2>1. TypeOK'
    BY <1>1, <1>2, <1>8 DEF IInv, TypeOK, callVars, localVars, historyVars
  <2>2. WriteIsExact'
    <3>1. touched' = touched /\ shadow' = shadow
      BY <1>8 DEF historyVars
    <3>2. WriteIsExact
      BY DEF IInv
    <3>. QED
      BY ZenonT(60), <1>3, <1>6, <1>8, <3>1, <3>2 DEF WriteIsExact
  <2>. QED
    BY <2>1, <2>2
<1>9. TypeOK' /\ WriteIsExact'
  BY <1>7, <1>8 DEF Environment, Unmap, Revoke, Killed
<1>. QED
  BY <1>4, <1>5, <1>9 DEF IInv

-----------------------------------------------------------------------------
(* IInv is an invariant of the specification. *)
LEMMA InductiveInvariant == Spec => []IInv
<1>1. IInv /\ [Next]_vars => IInv'
  <2>. SUFFICES ASSUME IInv, [Next]_vars
                PROVE  IInv'
    OBVIOUS
  <2>1. CASE \E reg \in 0 .. AbiSpan - 1, data \in Sources, l \in 0 .. MaxLen :
               Call(ArgumentOf(reg), data, l)
    BY <2>1, CallKeeps
  <2>2. CASE Step
    BY <2>2, CwriteKeeps, LwriteKeeps, LwriteEndKeeps DEF Step
  <2>3. CASE Consume
    BY <2>3, ConsumeKeeps
  <2>4. CASE Environment
    BY <2>4, EnvironmentKeeps
  <2>5. CASE UNCHANGED vars
    <3>1. UNCHANGED <<memVars, errno, pc, callVars, localVars, ret, historyVars>>
      BY <2>5 DEF vars
    <3>2. TypeOK'
      BY <3>1 DEF IInv, TypeOK, MemoryTypeOK, memVars, callVars, localVars, historyVars
    <3>3. WriteInv'
      BY <3>1 DEF IInv, WriteInv, Aligned, setup_addr, memVars, callVars, localVars
    <3>4. Target' = Target /\ Aligned' = Aligned
          /\ setup_addr(addr0)' = setup_addr(addr0) /\ src' = src
      BY <3>1 DEF Target, Aligned, setup_addr, callVars, localVars
    <3>5. WriteIsExact'
      <4>1. /\ mem' = mem /\ xattach' = xattach
            /\ touched' = touched /\ shadow' = shadow
        BY <3>1 DEF memVars, historyVars
      <4>. QED
        BY ZenonT(60), <3>4, <4>1 DEF IInv, WriteIsExact
    <3>6. WriteResultIsHonest'
      BY <3>1 DEF IInv, WriteResultIsHonest, callVars, localVars
    <3>. QED
      BY <3>2, <3>3, <3>5, <3>6 DEF IInv
  <2>. QED
    BY <2>1, <2>2, <2>3, <2>4, <2>5 DEF Next
<1>. QED
  BY InitEstablishes, <1>1, PTL DEF Spec

(* The variables of VmWrite keep their types. *)
THEOREM WriteTypeCorrect == Spec => []TypeOK
<1>1. IInv => TypeOK
  BY DEF IInv
<1>. QED
  BY InductiveInvariant, <1>1, PTL

(* With process_vm_writev, and for whole aligned words with ptrace,          *)
(* pink_write_vm_data changes the bytes it counts to the caller's data and   *)
(* no other, whatever the other threads do and wherever it stops.            *)
THEOREM WritesAreExact == Spec => []WriteIsExact
<1>1. IInv => WriteIsExact
  BY DEF IInv
<1>. QED
  BY InductiveInvariant, <1>1, PTL

(* A result of pink_write_vm_data that can be a count is the count, and any  *)
(* other one means that nothing was written and errno is set.                *)
THEOREM WriteResultsAreHonest == Spec => []WriteResultIsHonest
<1>1. IInv => WriteResultIsHonest
  BY DEF IInv
<1>. QED
  BY InductiveInvariant, <1>1, PTL

-----------------------------------------------------------------------------
(* Complete writes.  The word that is poked next holds the next byte of the  *)
(* range, and a write that ends was not stopped before its end by anything   *)
(* but memory that is gone by then.                                          *)
Available == alive /\ \A i \in 0 .. len0 - 1 : Accessible(setup_addr(addr0) + i)

Uncut == setup_addr(addr0) \in Addr => setup_addr(addr0) = addr0

CompleteInv ==
  /\ pc = "lwrite" /\ len > 0 => (addr - (addr % WordSize)) + residue = addr0 + count
  /\ pc = "done" /\ Available => ret = len0

LEMMA CwriteIsComplete ==
  ASSUME IInv, CompleteInv, Cwrite
  PROVE  CompleteInv'
<1>1. /\ pc = "cwrite" /\ count = 0 /\ len = len0 /\ len \in Nat
      /\ addr = setup_addr(addr0) /\ addr \in Nat /\ addr0 \in Nat /\ MemoryTypeOK
  BY DEF IInv, TypeOK, WriteInv, Cwrite, Long
<1>2. UNCHANGED <<mapped, alive, callVars>>
  BY DEF Cwrite
<1>3. Available' => Available
  BY <1>2 DEF Available, Accessible, setup_addr, callVars
<1>4. PICK out \in ProcessVm(addr, len) :
        IF Fallback(out.err)
        THEN pc' = "lwrite" /\ addr' = addr0 /\ residue' = addr0 % WordSize
             /\ count' = count
        ELSE pc' = "done" /\ ret' = out.r
  BY DEF Cwrite
<1>5. CASE Fallback(out.err)
  <2>1. pc' = "lwrite" /\ addr' = addr0 /\ residue' = addr0 % WordSize /\ count' = 0
    BY <1>1, <1>4, <1>5
  <2>2. addr0' = addr0
    BY <1>2 DEF callVars
  <2>3. addr0 % WordSize \in Nat
    BY <1>1, AlignDown, MemoryAssumption
  <2>. QED
    BY <1>1, <2>1, <2>2, <2>3 DEF CompleteInv
<1>6. CASE ~Fallback(out.err)
  <2>1. pc' = "done" /\ ret' = out.r /\ len0' = len0
    BY <1>2, <1>4, <1>6 DEF callVars
  <2>2. ASSUME Available
        PROVE  out.r = len
    <3>1. \A i \in 0 .. len - 1 : Accessible(addr + i)
      BY <1>1, <2>2 DEF Available
    <3>2. alive /\ out.err \notin {"ENOSYS", "EPERM"}
      BY <1>6, <2>2 DEF Available, Fallback
    <3>3. addr \in Nat /\ len \in Nat /\ MemoryTypeOK /\ out \in ProcessVm(addr, len)
      BY <1>1, <1>4
    <3>. QED
      BY <3>1, <3>2, <3>3, ProcessVmComplete, Zenon
  <2>. QED
    BY <1>1, <1>3, <2>1, <2>2 DEF CompleteInv
<1>. QED
  BY <1>5, <1>6

(* The words that hold bytes of an available range can be poked. *)
LEMMA PokeSucceeds ==
  ASSUME WordsFit, Uncut, IInv, CompleteInv, Available, pc = "lwrite", len > 0
  PROVE  LET a == addr - (addr % WordSize)
         IN  pink_ptrace(PtraceErrno(a), PtraceErrno(a) # None)
               = [r |-> None, err |-> None]
<1>. USE MemoryAssumption
<1>. DEFINE a == addr - (addr % WordSize)
<1>1. /\ a + residue = addr0 + count /\ count + len = len0
      /\ addr0 \in Nat /\ count \in Nat /\ len \in Nat
      /\ residue \in 0 .. WordSize - 1 /\ addr \in Nat
  BY DEF IInv, TypeOK, WriteInv, CompleteInv, Long
<1>2. a \in Nat /\ a % WordSize = 0
  BY <1>1, AlignedWord
<1>. HIDE DEF a
<1>3. 0 \in 0 .. len0 - 1 /\ count \in 0 .. len0 - 1
  BY <1>1
<1>4. setup_addr(addr0) = addr0
  <2>1. setup_addr(addr0) + 0 \in Addr /\ setup_addr(addr0) \in Nat
    BY <1>3, SetupAddrType DEF Available, Accessible, IInv, TypeOK
  <2>2. setup_addr(addr0) + 0 = setup_addr(addr0)
    BY <2>1
  <2>. QED
    BY <2>1, <2>2 DEF Uncut
<1>5. Accessible(a + residue)
  BY <1>1, <1>3, <1>4 DEF Available
<1>6. WordAccessible(a)
  BY <1>1, <1>2, <1>5, WholeWordAccessible
<1>. QED
  BY <1>6, PtraceSucceeds DEF Available, a

LEMMA LwriteIsComplete ==
  ASSUME WordsFit, Uncut, IInv, CompleteInv, Lwrite
  PROVE  CompleteInv'
<1>. USE MemoryAssumption
<1>. DEFINE a == addr - (addr % WordSize)
            poke == pink_ptrace(PtraceErrno(a), PtraceErrno(a) # None)
            m == PokeLen
<1>1. /\ pc = "lwrite" /\ len > 0 /\ residue' = 0
      /\ UNCHANGED <<mapped, alive, callVars>>
  BY DEF Lwrite
<1>2. Available' => Available
  BY <1>1 DEF Available, Accessible, setup_addr, callVars
<1>3. CASE poke.r # None
  <2>1. pc' = "done"
    BY <1>3 DEF Lwrite
  <2>2. ~Available
    BY <1>1, <1>3, PokeSucceeds
  <2>. QED
    BY <1>2, <2>1, <2>2 DEF CompleteInv
<1>4. CASE poke.r = None
  <2>1. /\ pc' = pc /\ addr' = a + WordSize /\ count' = count + m /\ len' = len - m
    BY <1>4 DEF Lwrite
  <2>2. /\ a + residue = addr0 + count /\ len \in Nat /\ addr \in Nat
        /\ residue \in 0 .. WordSize - 1 /\ count \in Nat /\ addr0 \in Nat
    BY <1>1 DEF IInv, TypeOK, CompleteInv, Long
  <2>3. a \in Nat /\ (a + WordSize) % WordSize = 0
    BY Zenon, <2>2, AlignDown
  <2>4. m \in Nat /\ (len - m > 0 => m = WordSize - residue)
    BY <2>2 DEF PokeLen, MIN
  <2>5. addr' % WordSize = 0
    BY Zenon, <2>1, <2>3
  <2>. HIDE DEF a, m, poke
  <2>6. len' > 0 => (addr' - 0) + 0 = addr0 + count'
    BY <2>1, <2>2, <2>3, <2>4
  <2>. QED
    BY <1>1, <2>1, <2>5, <2>6 DEF CompleteInv, callVars
<1>. QED
  BY <1>3, <1>4

LEMMA NextIsComplete ==
  ASSUME WordsFit, Uncut, IInv, CompleteInv, [Next]_vars
  PROVE  CompleteInv'
<1>1. ASSUME NEW reg \in 0 .. AbiSpan - 1, NEW data \in Sources,
             NEW l \in 0 .. MaxLen, Call(ArgumentOf(reg), data, l)
      PROVE  CompleteInv'
  <2>1. pc' = "cwrite"
    BY <1>1 DEF Call
  <2>. QED
    BY <2>1 DEF CompleteInv
<1>2. CASE LwriteEnd
  <2>1. pc' = "done" /\ ret' = count /\ UNCHANGED callVars
    BY <1>2 DEF LwriteEnd
  <2>2. count = len0
    BY <1>2 DEF LwriteEnd, IInv, TypeOK, WriteInv
  <2>. QED
    BY <2>1, <2>2 DEF CompleteInv, callVars
<1>3. CASE Consume
  BY <1>3 DEF Consume, CompleteInv
<1>4. CASE Environment
  <2>1. pc # "done" /\ pc' = pc /\ UNCHANGED <<callVars, localVars>>
    BY <1>4 DEF Environment
  <2>. QED
    BY <2>1 DEF CompleteInv, callVars, localVars
<1>5. CASE UNCHANGED vars
  <2>1. UNCHANGED <<memVars, errno, pc, callVars, localVars, ret>>
    BY <1>5 DEF vars
  <2>2. Available' <=> Available
    BY <2>1 DEF Available, Accessible, setup_addr, memVars, callVars
  <2>. QED
    BY <2>1, <2>2 DEF CompleteInv, callVars, localVars
<1>. QED
  BY <1>1, <1>2, <1>3, <1>4, <1>5, CwriteIsComplete, LwriteIsComplete DEF Next, Step

LEMMA UncutKeeps == AddressesFit /\ Uncut /\ [Next]_vars => Uncut'
<1>. SUFFICES ASSUME AddressesFit, Uncut, [Next]_vars
              PROVE  Uncut'
  OBVIOUS
<1>1. ASSUME NEW reg \in 0 .. AbiSpan - 1, NEW data \in Sources,
             NEW l \in 0 .. MaxLen, Call(ArgumentOf(reg), data, l)
      PROVE  Uncut'
  <2>1. addr0' = ArgumentOf(reg)
    BY <1>1 DEF Call
  <2>2. setup_addr(addr0)' = setup_addr(ArgumentOf(reg))
    BY <2>1 DEF setup_addr
  <2>. QED
    BY <2>1, <2>2, ArgumentUncut DEF Uncut
<1>2. CASE Consume
  <2>1. addr0' = 0
    BY <1>2 DEF Consume
  <2>2. setup_addr(addr0)' = 0
    BY <2>1, ModIdentity, MemoryAssumption DEF setup_addr
  <2>. QED
    BY <2>1, <2>2 DEF Uncut
<1>3. CASE Step \/ Environment \/ UNCHANGED vars
  <2>1. addr0' = addr0
    BY <1>3 DEF Step, Cwrite, Lwrite, LwriteEnd, Environment, callVars, vars
  <2>. QED
    BY <2>1 DEF Uncut, setup_addr
<1>. QED
  BY <1>1, <1>2, <1>3 DEF Next

(* A range that stays accessible in a tracee that stays alive is written to  *)
(* the end by pink_write_vm_data, with process_vm_writev and with ptrace,    *)
(* aligned or not, where words do not reach into a second page and no        *)
(* address of the tracee is changed by being passed as a long.               *)
THEOREM AccessibleWritesSucceed ==
  ASSUME WordsFit, AddressesFit
  PROVE  Spec => []AccessibleWriteSucceeds
<1>. DEFINE Inv == Uncut /\ CompleteInv
<1>1. Init => Inv
  <2>. SUFFICES ASSUME Init
                PROVE  Inv
    OBVIOUS
  <2>1. setup_addr(addr0) = addr0
    BY ModIdentity, MemoryAssumption DEF Init, setup_addr
  <2>. QED
    BY <2>1 DEF Init, Uncut, CompleteInv
<1>2. IInv /\ Inv /\ [Next]_vars => Inv'
  BY NextIsComplete, UncutKeeps
<1>3. Inv => AccessibleWriteSucceeds
  BY DEF CompleteInv, Available, AccessibleWriteSucceeds
<1>. QED
  BY <1>1, <1>2, <1>3, InductiveInvariant, PTL DEF Spec
=============================================================================
