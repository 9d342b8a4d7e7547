---------------------------- MODULE MemoryProofs ----------------------------
(***************************************************************************)
(* Facts about the address arithmetic and the system calls of TraceeMemory *)
(* that the proofs about reading and writing share.                        *)
(***************************************************************************)
EXTENDS TraceeMemory, TLAPS

(* Division of natural numbers. *)
LEMMA Quotient ==
  ASSUME NEW n \in Nat, NEW w \in Nat \ {0}
  PROVE  n = w * (n \div w) + (n % w)
OBVIOUS

LEMMA QuotientType ==
  ASSUME NEW n \in Nat, NEW w \in Nat \ {0}
  PROVE  n \div w \in Nat
OBVIOUS

LEMMA RemainderType ==
  ASSUME NEW n \in Nat, NEW w \in Nat \ {0}
  PROVE  n % w \in 0 .. w - 1
OBVIOUS

LEMMA ProductBound ==
  ASSUME NEW w \in Nat \ {0}, NEW d \in Nat \ {0}
  PROVE  w * d >= w
OBVIOUS

LEMMA QuotientUnique ==
  ASSUME NEW w \in Nat \ {0}, NEW q \in Nat, NEW r \in 0 .. w - 1,
         NEW p \in Nat, NEW s \in 0 .. w - 1, w * q + r = w * p + s
  PROVE  p = q /\ s = r
<1>1. ~(q > p)
  <2>1. SUFFICES ASSUME q > p PROVE FALSE
    OBVIOUS
  <2>2. q - p \in Nat \ {0}
    BY <2>1
  <2>3. w * (q - p) >= w
    BY <2>2, ProductBound
  <2>4. w * (q - p) = s - r
    OBVIOUS
  <2>. QED
    BY <2>3, <2>4
<1>2. ~(p > q)
  <2>1. SUFFICES ASSUME p > q PROVE FALSE
    OBVIOUS
  <2>2. p - q \in Nat \ {0}
    BY <2>1
  <2>3. w * (p - q) >= w
    BY <2>2, ProductBound
  <2>4. w * (p - q) = r - s
    OBVIOUS
  <2>. QED
    BY <2>3, <2>4
<1>3. p = q
  BY <1>1, <1>2
<1>. QED
  BY <1>3

LEMMA DivideUnique ==
  ASSUME NEW w \in Nat \ {0}, NEW q \in Nat, NEW r \in 0 .. w - 1
  PROVE  (w * q + r) \div w = q /\ (w * q + r) % w = r
<1>. DEFINE n == w * q + r
            p == n \div w
            s == n % w
<1>1. n \in Nat
  OBVIOUS
<1>. HIDE DEF n
<1>2. p \in Nat
  BY <1>1, QuotientType
<1>3. s \in 0 .. w - 1
  BY <1>1, RemainderType
<1>4. n = w * p + s
  BY <1>1, Quotient
<1>5. w * q + r = w * p + s
  BY Zenon, <1>4 DEF n
<1>6. p = q /\ s = r
  <2>. HIDE DEF p, s
  <2>. QED
    BY Zenon, <1>2, <1>3, <1>5, QuotientUnique
<1>. QED
  BY Zenon, <1>6 DEF n

(* addr &= -sizeof(long): the word that holds x starts at most one word      *)
(* below x, and the word after it is aligned again.                          *)
LEMMA AlignDown ==
  ASSUME NEW x \in Nat, NEW w \in Nat \ {0}
  PROVE  /\ x % w \in 0 .. w - 1
         /\ x - (x % w) \in Nat
         /\ ((x - (x % w)) + w) % w = 0
<1>. DEFINE q == x \div w
            s == x % w
<1>1. q \in Nat
  BY QuotientType
<1>2. s \in 0 .. w - 1
  BY RemainderType
<1>3. x = w * q + s
  BY Quotient
<1>. HIDE DEF q, s
<1>4. (x - s) + w = w * (q + 1) + 0
  BY <1>1, <1>2, <1>3
<1>5. (w * (q + 1) + 0) % w = 0
  <2>1. q + 1 \in Nat /\ 0 \in 0 .. w - 1
    BY <1>1
  <2>. QED
    BY Zenon, <2>1, DivideUnique
<1>6. ((x - s) + w) % w = 0
  BY Zenon, <1>4, <1>5
<1>7. w * q \in Nat
  BY <1>1
<1>8. x - s \in Nat
  <2>. DEFINE m == w * q
  <2>1. m \in Nat /\ x = m + s
    BY Zenon, <1>3, <1>7
  <2>. HIDE DEF m
  <2>. QED
    BY <1>2, <2>1
<1>. QED
  BY Zenon, <1>2, <1>6, <1>8 DEF s

LEMMA ModIdentity ==
  ASSUME NEW n \in Nat, NEW x \in 0 .. n - 1
  PROVE  x % n = x
OBVIOUS

(* A multiple of the word size that is not zero holds a whole word, and is a *)
(* multiple of it without that word.                                         *)
LEMMA WholeWords ==
  ASSUME NEW n \in Nat \ {0}, NEW w \in Nat \ {0}, n % w = 0
  PROVE  w <= n /\ (n - w) % w = 0
<1>1. PICK q \in Nat : n = w * q
  <2>. DEFINE p == n \div w
  <2>1. p \in Nat
    BY QuotientType
  <2>2. n = w * p + 0
    BY Zenon, Quotient
  <2>3. n = w * p
    <3>. HIDE DEF p
    <3>. QED
      BY <2>1, <2>2
  <2>. QED
    BY Zenon, <2>1, <2>3
<1>2. q # 0
  BY <1>1
<1>3. n - w = w * (q - 1) /\ q - 1 \in Nat
  BY <1>1, <1>2
<1>4. \A p \in Nat : (w * p) % w = 0 /\ w * p >= 0
  OBVIOUS
<1>5. (n - w) % w = 0 /\ n - w >= 0
  BY <1>3, <1>4, Zenon
<1>. QED
  BY <1>5

LEMMA SetupAddrType ==
  ASSUME NEW a \in Long
  PROVE  setup_addr(a) \in Nat
BY MemoryAssumption DEF setup_addr, Long

-----------------------------------------------------------------------------
(* What the outcome of process_vm_readv or process_vm_writev says about the  *)
(* memory it transferred.                                                    *)
LEMMA ProcessVmOutcome ==
  ASSUME MemoryTypeOK, NEW a \in Nat, NEW l \in Nat, NEW out \in ProcessVm(a, l)
  PROVE  /\ out.r \in -1 .. l
         /\ out.err \in Errno
         /\ out.err \in {"ENOSYS", "EPERM"} => xattach # "ok"
         /\ out.r < 0 => out.err # None
         /\ out.r = 0 => l = 0
         /\ \A j \in 0 .. out.r - 1 : a + j \in Addr
<1>1. CASE xattach # "ok" \/ ~alive \/ l = 0
  BY <1>1 DEF ProcessVm, MemoryTypeOK, Errno, None
<1>2. CASE xattach = "ok" /\ alive /\ l # 0
  <2>1. CASE out = [r |-> -1, err |-> "EFAULT"]
    BY <2>1 DEF Errno, None
  <2>2. CASE \E k \in AccessibleRuns(a, l) : out = [r |-> k, err |-> None]
    <3>1. PICK k \in AccessibleRuns(a, l) : out = [r |-> k, err |-> None]
      BY <2>2
    <3>2. out.r = k /\ out.err = None
      BY <3>1
    <3>3. k \in 1 .. l /\ \A j \in 0 .. k - 1 : a + j \in Addr
      BY DEF AccessibleRuns, Accessible
    <3>4. None \in Errno /\ None \notin {"ENOSYS", "EPERM"}
      BY DEF Errno, None
    <3>. QED
      BY <3>2, <3>3, <3>4
  <2>. QED
    BY <1>2, <2>1, <2>2 DEF ProcessVm
<1>. QED
  BY <1>1, <1>2 DEF MemoryTypeOK

(* A transfer that is refused for want of the call or of the right moves   *)
(* nothing.                                                                *)
LEMMA ProcessVmRefused ==
  ASSUME NEW a \in Nat, NEW l \in Nat, NEW out \in ProcessVm(a, l), MemoryTypeOK,
         out.err \in {"ENOSYS", "EPERM"}
  PROVE  out.r < 0
<1>1. xattach # "ok"
  BY ProcessVmOutcome
<1>2. out = [r |-> -1, err |-> xattach]
  BY <1>1 DEF ProcessVm
<1>. QED
  BY <1>2

(* What pink_read_word_data says about the word it peeked. *)
LEMMA PeekOutcome ==
  ASSUME NEW a \in Nat
  PROVE  LET peek == pink_read_word_data(a)
         IN  /\ peek.err \in Errno
             /\ peek.r = None => \A j \in 0 .. WordSize - 1 : a + j \in Addr
BY DEF pink_read_word_data, pink_ptrace, PtraceErrno, PeeksMinusOne,
       WordAccessible, Accessible, Errno, None

LEMMA PeekError ==
  ASSUME NEW a \in Nat
  PROVE  LET peek == pink_read_word_data(a)
         IN  peek.err \in Errno /\ (peek.r # None => peek.err # None)
BY DEF pink_read_word_data, pink_ptrace, PtraceErrno, PeeksMinusOne, Errno, None

(* What pink_ptrace says about the word it poked. *)
LEMMA PokeOutcome ==
  ASSUME NEW a \in Nat
  PROVE  LET poke == pink_ptrace(PtraceErrno(a), PtraceErrno(a) # None)
         IN  /\ poke.err \in Errno
             /\ poke.r # None => poke.err # None
             /\ poke.r = None => \A j \in 0 .. WordSize - 1 : a + j \in Addr
BY DEF pink_ptrace, PtraceErrno, WordAccessible, Accessible, Errno, None

(* The environment keeps the types. *)
LEMMA StoreType ==
  ASSUME MemoryTypeOK, NEW a \in Addr, NEW b \in Byte, Store(a, b)
  PROVE  MemoryTypeOK'
BY MemoryAssumption DEF MemoryTypeOK, Store

LEMMA UnmapType ==
  ASSUME MemoryTypeOK, NEW p \in Pages, Unmap(p)
  PROVE  MemoryTypeOK'
BY DEF MemoryTypeOK, Unmap

LEMMA RevokeType == MemoryTypeOK /\ Revoke => MemoryTypeOK'
BY DEF MemoryTypeOK, Revoke

LEMMA KilledType == MemoryTypeOK /\ Killed => MemoryTypeOK'
BY Zenon DEF MemoryTypeOK, Killed

-----------------------------------------------------------------------------
(* Where the words are: none reaches into a second page, nor beyond the user *)
(* addresses.                                                                *)
WordsFit == PageSize % WordSize = 0 /\ UserTop % WordSize = 0

LEMMA DivideExact ==
  ASSUME NEW n \in Nat, NEW w \in Nat \ {0}, n % w = 0
  PROVE  \E q \in Nat : n = w * q
<1>. DEFINE q == n \div w
<1>1. q \in Nat
  BY QuotientType
<1>2. n = w * q + 0
  BY Zenon, Quotient
<1>3. n = w * q
  <2>. HIDE DEF q
  <2>. QED
    BY <1>1, <1>2
<1>. QED
  BY Zenon, <1>1, <1>3

(* The word that holds x is aligned. *)
LEMMA AlignedWord ==
  ASSUME NEW x \in Nat, NEW w \in Nat \ {0}
  PROVE  x - (x % w) \in Nat /\ (x - (x % w)) % w = 0
<1>. DEFINE q == x \div w
            s == x % w
<1>1. q \in Nat
  BY QuotientType
<1>2. s \in 0 .. w - 1
  BY RemainderType
<1>3. x = w * q + s
  BY Quotient
<1>4. x - s \in Nat
  BY AlignDown
<1>. HIDE DEF q, s
<1>5. x - s = w * q + 0
  BY <1>1, <1>2, <1>3
<1>6. (w * q + 0) % w = 0
  <2>1. 0 \in 0 .. w - 1
    OBVIOUS
  <2>. QED
    BY Zenon, <1>1, <2>1, DivideUnique
<1>. QED
  BY Zenon, <1>4, <1>5, <1>6 DEF s

LEMMA MultiplesApart ==
  ASSUME NEW w \in Nat \ {0}, NEW p \in Int, NEW q \in Int, w * p < w * q
  PROVE  w * p + w <= w * q
<1>1. p < q
  OBVIOUS
<1>2. w * (p + 1) <= w * q
  BY <1>1
<1>. QED
  BY <1>2

(* All bytes of an aligned word are accessible if one is. *)
LEMMA WholeWordAccessible ==
  ASSUME WordsFit, NEW a \in Nat, a % WordSize = 0,
         NEW i \in 0 .. WordSize - 1, Accessible(a + i)
  PROVE  WordAccessible(a)
<1>. USE MemoryAssumption
<1>1. PICK k \in Nat : a = WordSize * k
  BY DivideExact
<1>2. PICK n \in Nat : PageSize = WordSize * n
  BY DivideExact DEF WordsFit
<1>3. PICK u \in Nat : UserTop = WordSize * u
  BY DivideExact DEF WordsFit
<1>4. a + WordSize <= UserTop
  <2>1. a < UserTop
    BY DEF Accessible, Addr
  <2>. QED
    BY <1>1, <1>3, <2>1, MultiplesApart
<1>. DEFINE p == a \div PageSize
            r == a % PageSize
<1>5. p \in Nat /\ r \in 0 .. PageSize - 1 /\ a = PageSize * p + r
  BY Quotient, QuotientType, RemainderType
<1>. HIDE DEF p, r
<1>6. r + WordSize <= PageSize
  <2>1. r = WordSize * (k - n * p)
    <3>1. PageSize * p = WordSize * (n * p)
      BY <1>2, <1>5
    <3>2. n * p \in Nat
      BY <1>5
    <3>. QED
      BY <1>1, <1>5, <3>1, <3>2
  <2>2. k - n * p \in Int
    BY <1>5
  <2>3. WordSize * (k - n * p) < WordSize * n
    BY <1>2, <1>5, <2>1
  <2>. QED
    BY <1>2, <2>1, <2>2, <2>3, MultiplesApart
<1>7. ASSUME NEW j \in 0 .. WordSize - 1
      PROVE  a + j \in Addr /\ (a + j) \div PageSize = p
  <2>1. a + j \in Addr
    BY <1>4 DEF Addr
  <2>2. r + j \in 0 .. PageSize - 1 /\ a + j = PageSize * p + (r + j)
    BY <1>5, <1>6
  <2>. QED
    BY <1>5, <2>1, <2>2, DivideUnique
<1>8. p \in mapped
  BY <1>7 DEF Accessible
<1>. QED
  BY <1>7, <1>8 DEF WordAccessible, Accessible

(* An address that is sign-extended when it is passed is cut back to itself,  *)
(* if the user addresses are the lower half of those that the ABI has.       *)
AddressesFit ==
  AbiSpan < LongSpan => LongSpan % AbiSpan = 0 /\ 2 * UserTop <= AbiSpan

LEMMA ArgumentUncut ==
  ASSUME AddressesFit, NEW reg \in 0 .. AbiSpan - 1,
         setup_addr(ArgumentOf(reg)) \in Addr
  PROVE  setup_addr(ArgumentOf(reg)) = ArgumentOf(reg)
<1>. USE MemoryAssumption
<1>1. CASE ~(AbiSpan < LongSpan)
  BY <1>1 DEF setup_addr
<1>2. CASE AbiSpan < LongSpan
  <2>1. CASE 2 * reg < AbiSpan
    <3>1. ArgumentOf(reg) = reg /\ reg % AbiSpan = reg
      BY <2>1, ModIdentity DEF ArgumentOf
    <3>. QED
      BY <3>1 DEF setup_addr
  <2>2. CASE 2 * reg >= AbiSpan
    <3>1. PICK q \in Nat : LongSpan = AbiSpan * q
      BY <1>2, DivideExact DEF AddressesFit
    <3>2. q # 0
      BY <1>2, <3>1
    <3>3. q - 1 \in Nat /\ ArgumentOf(reg) = AbiSpan * (q - 1) + reg
      BY <1>2, <2>2, <3>1, <3>2 DEF ArgumentOf
    <3>4. (AbiSpan * (q - 1) + reg) % AbiSpan = reg
      BY <3>3, DivideUnique
    <3>5. setup_addr(ArgumentOf(reg)) = reg
      BY <1>2, <3>3, <3>4 DEF setup_addr
    <3>6. 2 * reg < AbiSpan
      BY <1>2, <3>5 DEF Addr, AddressesFit
    <3>. QED
      BY <2>2, <3>6
  <2>. QED
    BY <2>1, <2>2
<1>. QED
  BY <1>1, <1>2

(* What can be accessed is transferred to the last byte. *)
LEMMA ProcessVmComplete ==
  ASSUME NEW a \in Nat, NEW l \in Nat, NEW out \in ProcessVm(a, l), alive,
         \A i \in 0 .. l - 1 : Accessible(a + i),
         out.err \notin {"ENOSYS", "EPERM"}, MemoryTypeOK
  PROVE  out.r = l /\ out.err = None
<1>1. xattach = "ok"
  BY DEF ProcessVm, MemoryTypeOK
<1>2. CASE l = 0
  BY <1>1, <1>2 DEF ProcessVm
<1>3. CASE l # 0
  <2>1. l \in AccessibleRuns(a, l)
    BY <1>3 DEF AccessibleRuns
  <2>2. \A k \in AccessibleRuns(a, l) : k = l
    <3>. TAKE k \in AccessibleRuns(a, l)
    <3>1. k \in 1 .. l /\ (k < l => ~Accessible(a + k))
      BY DEF AccessibleRuns
    <3>. QED
      BY <3>1
  <2>. QED
    BY <1>1, <1>3, <2>1, <2>2 DEF ProcessVm
<1>. QED
  BY <1>2, <1>3

(* A word that is accessible is peeked and poked. *)
LEMMA PtraceSucceeds ==
  ASSUME NEW a, alive, WordAccessible(a)
  PROVE  /\ pink_read_word_data(a) = [r |-> None, err |-> None]
         /\ pink_ptrace(PtraceErrno(a), PtraceErrno(a) # None) = [r |-> None, err |-> None]
BY DEF pink_read_word_data, pink_ptrace, PtraceErrno, None
=============================================================================
