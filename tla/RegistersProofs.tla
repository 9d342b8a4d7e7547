--------------------------- MODULE RegistersProofs ---------------------------
(***************************************************************************)
(* For every width of the registers, every table, call, argument, result   *)
(* and sequence of writes: what Registers reads after a fill is what the   *)
(* tracee passed, what the kernel returned, or what was written, and a     *)
(* written call is what the kernel runs.                                   *)
(***************************************************************************)
EXTENDS Registers, TLAPS

-----------------------------------------------------------------------------
(* Division of integers. *)

LEMMA Quotient ==
  ASSUME NEW n \in Int, NEW w \in Nat \ {0}
  PROVE  n = w * (n \div w) + (n % w)
OBVIOUS

LEMMA QuotientType ==
  ASSUME NEW n \in Int, NEW w \in Nat \ {0}
  PROVE  n \div w \in Int 
OBVIOUS

LEMMA RemainderType ==
  ASSUME NEW n \in Int, NEW w \in Nat \ {0}
  PROVE  n % w \in 0 .. w - 1
OBVIOUS

LEMMA ProductBound ==
  ASSUME NEW w \in Nat \ {0}, NEW d \in Nat \ {0}
  PROVE  w * d >= w
OBVIOUS

LEMMA QuotientUnique ==
  ASSUME NEW w \in Nat \ {0}, NEW q \in Int, NEW r \in 0 .. w - 1,
         NEW p \in Int, NEW s \in 0 .. w - 1, w * q + r = w * p + s
  PROVE  q = p /\ r = s
<1>1. w * (q - p) = s - r
  OBVIOUS
<1>2. ~(q > p)
  <2>1. SUFFICES ASSUME q > p PROVE FALSE
    OBVIOUS
  <2>2. q - p \in Nat \ {0}
    BY <2>1
  <2>3. w * (q - p) >= w
    BY <2>2, ProductBound
  <2>. QED
    BY <2>3, <1>1
<1>3. ~(p > q)
  <2>1. SUFFICES ASSUME p > q PROVE FALSE
    OBVIOUS
  <2>2. p - q \in Nat \ {0}
    BY <2>1
  <2>3. w * (p - q) >= w
    BY <2>2, ProductBound
  <2>4. w * (p - q) = r - s
    OBVIOUS
  <2>. QED
    BY <2>3, <2>4
<1>4. q = p
  BY <1>2, <1>3
<1>. QED
  BY <1>4

LEMMA Divided ==
  ASSUME NEW w \in Nat \ {0}, NEW q \in Int, NEW r \in 0 .. w - 1, NEW n \in Int, n = w * q + r
  PROVE  n \div w = q /\ n % w = r
<1>. DEFINE p == n \div w
           s == n % w
<1>1. n = w * p + s
  BY Quotient
<1>2. p \in Int
  BY QuotientType
<1>3. s \in 0 .. w - 1
  BY RemainderType
<1>4. p = q /\ s = r
  <2>. HIDE DEF p, s
  <2>1. w * q + r = w * p + s
    BY Zenon, <1>1
  <2>. QED
    BY Zenon, <2>1, <1>2, <1>3, QuotientUnique
<1>. QED
  BY Zenon, <1>4

LEMMA ModSmall ==
  ASSUME NEW s \in Nat \ {0}, NEW n \in 0 .. s - 1
  PROVE  n % s = n
OBVIOUS

LEMMA ModTwice ==
  ASSUME NEW s \in Nat \ {0}, NEW n \in Int
  PROVE  (n % s) % s = n % s
BY RemainderType, ModSmall

LEMMA Distribute ==
  ASSUME NEW s \in Int, NEW q \in Int, NEW k \in Int
  PROVE  s * (q + k) = s * q + s * k
OBVIOUS

LEMMA DistributeMinus ==
  ASSUME NEW s \in Int, NEW q \in Int
  PROVE  s * (-q - 1) = -(s * q) - s
OBVIOUS

(* A multiple of s does not count. *)
LEMMA ModShift ==
  ASSUME NEW s \in Nat \ {0}, NEW n \in Int, NEW k \in Int
  PROVE  (n + s * k) % s = n % s
<1>. DEFINE q == n \div s
            r == n % s
            m == n + s * k
<1>1. q \in Int
  BY QuotientType
<1>2. r \in 0 .. s - 1
  BY RemainderType
<1>3. n = s * q + r
  BY Quotient
<1>. HIDE DEF q, r
<1>4. m = s * (q + k) + r
  <2>1. s * (q + k) = s * q + s * k
    BY <1>1, Distribute
  <2>2. s * q \in Int /\ s * k \in Int
    BY <1>1
  <2>. DEFINE a == s * q
             b == s * k
  <2>3. a \in Int /\ b \in Int /\ n = a + r /\ m = n + b /\ s * (q + k) = a + b
    BY Zenon, <1>3, <2>1, <2>2
  <2>. HIDE DEF a, b, m
  <2>. QED
    BY <1>2, <2>3
<1>5. m \in Int /\ q + k \in Int
  BY <1>1
<1>. DEFINE p == q + k
<1>6. m = s * p + r /\ p \in Int /\ m \in Int
  BY Zenon, <1>4, <1>5
<1>. HIDE DEF m, p
<1>7. m % s = r
  BY <1>2, <1>6, Divided
<1>. QED
  BY Zenon, <1>7 DEF m, r

LEMMA ModNegated ==
  ASSUME NEW s \in Nat \ {0}, NEW n \in Int, n % s # 0
  PROVE  (-n) % s = s - (n % s)
<1>. DEFINE q == n \div s
            r == n % s
<1>1. q \in Int
  BY QuotientType
<1>2. r \in 0 .. s - 1 /\ r # 0
  BY RemainderType
<1>3. n = s * q + r
  BY Quotient
<1>. HIDE DEF q, r
<1>4. -n = s * (-q - 1) + (s - r)
  <2>1. s * (-q - 1) = -(s * q) - s
    BY <1>1, DistributeMinus
  <2>2. s * q \in Int
    BY <1>1
  <2>. DEFINE a == s * q
  <2>3. a \in Int /\ n = a + r /\ s * (-q - 1) = -a - s
    BY Zenon, <1>3, <2>1, <2>2
  <2>. HIDE DEF a
  <2>. QED
    BY <1>2, <2>3
<1>5. -n \in Int /\ -q - 1 \in Int /\ s - r \in 0 .. s - 1
  BY <1>1, <1>2
<1>. DEFINE m == -n
            p == -q - 1
            d == s - r
<1>6. m = s * p + d /\ p \in Int /\ m \in Int /\ d \in 0 .. s - 1
  BY Zenon, <1>4, <1>5
<1>7. m % s = d
  <2>. HIDE DEF m, p, d
  <2>. QED
    BY <1>6, Divided
<1>. QED
  BY Zenon, <1>7 DEF r

(* The conversion to a signed type of the span 2 * m. *)
LEMMA SignedCases ==
  ASSUME NEW m \in Nat \ {0}, NEW n \in Int
  PROVE  /\ n % (2 * m) < m => Signed(n, 2 * m) = n % (2 * m)
         /\ n % (2 * m) >= m => Signed(n, 2 * m) = (n % (2 * m)) - 2 * m
         /\ Signed(n, 2 * m) \in Int
<1>. DEFINE u == n % (2 * m)
<1>1. u \in Int
  <2>1. 2 * m \in Nat \ {0}
    OBVIOUS
  <2>. HIDE DEF u
  <2>. QED
    BY <2>1, RemainderType DEF u
<1>2. (2 * m) \div 2 = m
  OBVIOUS
<1>3. Signed(n, 2 * m) = IF u < m THEN u ELSE u - 2 * m
  BY Zenon, <1>2 DEF Signed
<1>. HIDE DEF u
<1>4. /\ u < m => Signed(n, 2 * m) = u
      /\ u >= m => Signed(n, 2 * m) = u - 2 * m
      /\ Signed(n, 2 * m) \in Int
  BY <1>1, <1>3
<1>. QED
  BY Zenon, <1>4 DEF u

LEMMA SignedMod ==
  ASSUME NEW m \in Nat \ {0}, NEW n \in Int
  PROVE  Signed(n % (2 * m), 2 * m) = Signed(n, 2 * m)
<1>1. 2 * m \in Nat \ {0}
  OBVIOUS
<1>2. (n % (2 * m)) % (2 * m) = n % (2 * m)
  BY Zenon, <1>1, ModTwice
<1>. QED
  BY Zenon, <1>2 DEF Signed

(* The way back. *)
LEMMA SignedBack ==
  ASSUME NEW m \in Nat \ {0}, NEW n \in Int
  PROVE  Signed(n, 2 * m) % (2 * m) = n % (2 * m)
<1>. DEFINE s == 2 * m
            u == n % s
<1>1. s \in Nat \ {0}
  OBVIOUS
<1>2. u \in Int /\ u % s = u
  <2>1. u \in 0 .. s - 1
    BY Zenon, <1>1, RemainderType
  <2>2. u % s = u
    BY Zenon, <1>1, ModTwice
  <2>. HIDE DEF u
  <2>. QED
    BY <1>1, <2>1, <2>2
<1>3. Signed(n, s) = u \/ Signed(n, s) = u - s
  <2>1. u < m \/ u >= m
    <3>. HIDE DEF u
    <3>. QED
      BY <1>2
  <2>. QED
    BY Zenon, <2>1, SignedCases
<1>4. (u - s) % s = u
  <2>1. (u + s * (-1)) % s = u % s
    <3>1. -1 \in Int
      OBVIOUS
    <3>. HIDE DEF u, s
    <3>. QED
      BY Zenon, <1>1, <1>2, <3>1, ModShift
  <2>2. u + s * (-1) = u - s
    <3>. HIDE DEF u, s
    <3>. QED
      BY <1>1, <1>2
  <2>. QED
    BY Zenon, <1>2, <2>1, <2>2
<1>. QED
  BY Zenon, <1>2, <1>3, <1>4

-----------------------------------------------------------------------------
(* The widths: 2^31, 2^63 and half of the span of a long. *)
HalfSign == 2 * X32Bit
WordSign == Half * HalfSign
SpanSign(b) == IF b = "i386" THEN HalfSign ELSE WordSign

LEMMA HalfFacts ==
  /\ X32Bit \in Nat /\ NErrnos \in Nat /\ NErrnos > 0 /\ NErrnos < X32Bit
  /\ Half = 4 * X32Bit /\ HalfSign = 2 * X32Bit /\ Half = 2 * HalfSign
  /\ Half \in Nat \ {0} /\ HalfSign \in Nat \ {0}
BY RegistersAssumption DEF HalfSign, NErrnos

LEMMA WordFacts ==
  /\ Word \in Nat \ {0} /\ WordSign \in Nat \ {0} /\ Word = 2 * WordSign
  /\ WordSign >= 2 * Half
<1>. DEFINE h == HalfSign
<1>1. h \in Nat /\ h >= 4 /\ Half = 2 * h
  BY HalfFacts
<1>2. Word = (2 * h) * (2 * h) /\ WordSign = (2 * h) * h
  BY Zenon, <1>1 DEF Word, WordSign
<1>. HIDE DEF h
<1>3. (2 * h) * (2 * h) = 2 * ((2 * h) * h)
  BY <1>1
<1>4. (2 * h) * h >= (2 * h) * 2
  BY <1>1
<1>5. (2 * h) * h \in Nat
  BY <1>1
<1>. QED
  BY <1>1, <1>2, <1>3, <1>4, <1>5

LEMMA SpanFacts ==
  ASSUME NEW b
  PROVE  /\ LongSpan(b) \in Nat \ {0} /\ SpanSign(b) \in Nat \ {0}
         /\ LongSpan(b) = 2 * SpanSign(b)
         /\ SpanSign(b) >= HalfSign
         /\ b # "i386" => LongSpan(b) = Word /\ SpanSign(b) = WordSign
         /\ b = "i386" => LongSpan(b) = Half /\ SpanSign(b) = HalfSign
<1>. HIDE DEF HalfSign, WordSign, Word
<1>1. CASE b = "i386"
  BY <1>1, HalfFacts DEF LongSpan, SpanSign
<1>2. CASE b # "i386"
  BY <1>2, HalfFacts, WordFacts DEF LongSpan, SpanSign
<1>. QED
  BY Zenon, <1>1, <1>2

(* The lower 32 bits of 64. *)
LEMMA LowerHalf ==
  ASSUME NEW n \in Int
  PROVE  (n % Word) % Half = n % Half
<1>. DEFINE q == n \div Word
            r == n % Word
            k == Half * q
<1>0. Word \in Nat \ {0} /\ Half \in Nat \ {0}
  BY Zenon, WordFacts, HalfFacts
<1>1. q \in Int
  BY Zenon, <1>0, QuotientType
<1>2. r \in 0 .. Word - 1
  BY Zenon, <1>0, RemainderType
<1>3. n = Word * q + r
  BY Zenon, <1>0, Quotient
<1>. HIDE DEF q, r
<1>4. k \in Int
  BY <1>0, <1>1
<1>5. (Half * Half) * q = Half * k
  BY <1>0, <1>1
<1>6. Word * q = Half * k
  BY Zenon, <1>5 DEF Word
<1>. HIDE DEF k
<1>7. r \in Int /\ Half * k \in Int
  <2>. HIDE DEF Word
  <2>. QED
    BY <1>0, <1>2, <1>4
<1>8. n = r + Half * k
  <2>. DEFINE a == Half * k
  <2>1. n = a + r /\ r \in Int /\ a \in Int
    BY Zenon, <1>3, <1>6, <1>7
  <2>2. n = r + a
    <3>. HIDE DEF a
    <3>. QED
      BY <2>1
  <2>. QED
    BY Zenon, <2>2
<1>9. (r + Half * k) % Half = r % Half
  BY Zenon, <1>0, <1>4, <1>7, ModShift
<1>. QED
  BY Zenon, <1>8, <1>9 DEF r

(* The conversions to long and unsigned long. *)
LEMMA ULongFacts ==
  ASSUME NEW b, NEW n \in Int
  PROVE  /\ ULong(b, n) \in 0 .. LongSpan(b) - 1
         /\ ULong(b, n) \in Nat
         /\ ULong(b, ULong(b, n)) = ULong(b, n)
         /\ ULong(b, n) % Half = n % Half
<1>. DEFINE s == LongSpan(b)
<1>1. s \in Nat \ {0}
  BY Zenon, SpanFacts
<1>2. n % s \in 0 .. s - 1 /\ (n % s) % s = n % s
  <2>. HIDE DEF s
  <2>. QED
    BY Zenon, <1>1, RemainderType, ModTwice
<1>3. n % s \in Nat
  <2>. DEFINE r == n % s
  <2>. HIDE DEF s, r
  <2>. QED
    BY <1>1, <1>2 DEF r
<1>4. (n % s) % Half = n % Half
  <2>1. CASE s = Word
    BY Zenon, <2>1, LowerHalf
  <2>2. CASE s = Half
    BY Zenon, <1>2, <2>2
  <2>. QED
    BY Zenon, <2>1, <2>2, SpanFacts
<1>. QED
  BY Zenon, <1>2, <1>3, <1>4 DEF ULong

LEMMA ULongSmall ==
  ASSUME NEW b, NEW n \in 0 .. LongSpan(b) - 1
  PROVE  ULong(b, n) = n
BY Zenon, SpanFacts, ModSmall DEF ULong

LEMMA LongFacts ==
  ASSUME NEW b, NEW n \in Int
  PROVE  /\ Long(b, n) \in Int
         /\ Long(b, ULong(b, n)) = Long(b, n)
         /\ ULong(b, Long(b, n)) = ULong(b, n)
         /\ ULong(b, n) < SpanSign(b) => Long(b, n) = ULong(b, n)
         /\ ULong(b, n) >= SpanSign(b) => Long(b, n) = ULong(b, n) - LongSpan(b)
<1>. DEFINE m == SpanSign(b)
<1>1. m \in Nat \ {0} /\ LongSpan(b) = 2 * m
  BY Zenon, SpanFacts
<1>. HIDE DEF m
<1>2. /\ Signed(n, 2 * m) \in Int
      /\ n % (2 * m) < m => Signed(n, 2 * m) = n % (2 * m)
      /\ n % (2 * m) >= m => Signed(n, 2 * m) = (n % (2 * m)) - 2 * m
  BY Zenon, <1>1, SignedCases
<1>3. Signed(n % (2 * m), 2 * m) = Signed(n, 2 * m)
  BY Zenon, <1>1, SignedMod
<1>4. Signed(n, 2 * m) % (2 * m) = n % (2 * m)
  BY Zenon, <1>1, SignedBack
<1>. QED
  BY Zenon, <1>1, <1>2, <1>3, <1>4 DEF Long, ULong, m

LEMMA Int32Facts ==
  ASSUME NEW n \in Int
  PROVE  /\ Int32(n) \in Int
         /\ Int32(n % Half) = Int32(n)
         /\ Int32(n) % Half = n % Half
         /\ n % Half < HalfSign => Int32(n) = n % Half
         /\ n % Half >= HalfSign => Int32(n) = (n % Half) - Half
<1>. DEFINE m == HalfSign
<1>1. m \in Nat \ {0} /\ Half = 2 * m
  BY Zenon, HalfFacts
<1>. HIDE DEF m
<1>2. /\ Signed(n, 2 * m) \in Int
      /\ n % (2 * m) < m => Signed(n, 2 * m) = n % (2 * m)
      /\ n % (2 * m) >= m => Signed(n, 2 * m) = (n % (2 * m)) - 2 * m
  BY Zenon, <1>1, SignedCases
<1>3. Signed(n % (2 * m), 2 * m) = Signed(n, 2 * m)
  BY Zenon, <1>1, SignedMod
<1>4. Signed(n, 2 * m) % (2 * m) = n % (2 * m)
  BY Zenon, <1>1, SignedBack
<1>. QED
  BY Zenon, <1>1, <1>2, <1>3, <1>4 DEF Int32, m

LEMMA HalfRemainder ==
  ASSUME NEW n \in Int
  PROVE  n % Half \in 0 .. Half - 1 /\ n % Half \in Nat /\ (n % Half) % Half = n % Half
<1>1. Half \in Nat \ {0}
  BY Zenon, HalfFacts
<1>2. n % Half \in 0 .. Half - 1 /\ (n % Half) % Half = n % Half
  BY Zenon, <1>1, RemainderType, ModTwice
<1>. QED
  BY <1>1, <1>2

LEMMA HalfSmall ==
  ASSUME NEW n \in 0 .. Half - 1
  PROVE  n % Half = n
BY Zenon, HalfFacts, ModSmall

-----------------------------------------------------------------------------
(* What a register holds of a long, and what that is as a long again. *)
Span(b, a) == IF Narrow(b, a) THEN Half ELSE LongSpan(b)

LEMMA HeldFacts ==
  ASSUME NEW b, NEW a, NEW n \in Int
  PROVE  /\ Held(b, a, n) \in Nat
         /\ Held(b, a, n) \in 0 .. Span(b, a) - 1
         /\ Held(b, a, n) \in 0 .. LongSpan(b) - 1
         /\ Held(b, a, ULong(b, n)) = Held(b, a, n)
         /\ Held(b, a, Held(b, a, n)) = Held(b, a, n)
<1>1. CASE Narrow(b, a)
  <2>1. Held(b, a, n) = n % Half /\ Span(b, a) = Half /\ LongSpan(b) = Word
    BY Zenon, <1>1, SpanFacts DEF Held, Span, Narrow
  <2>2. Held(b, a, n) \in 0 .. LongSpan(b) - 1
    <3>1. \A k \in 0 .. Half - 1 : k \in 0 .. Word - 1
      <4>. HIDE DEF Word, WordSign, HalfSign
      <4>. QED
        BY HalfFacts, WordFacts
    <3>. QED
      BY Zenon, <2>1, <3>1, HalfRemainder
  <2>3. ULong(b, n) % Half = n % Half
    BY Zenon, ULongFacts
  <2>. QED
    BY Zenon, <1>1, <2>1, <2>2, <2>3, HalfRemainder DEF Held
<1>2. CASE ~Narrow(b, a)
  BY Zenon, <1>2, ULongFacts DEF Held, Span
<1>. QED
  BY Zenon, <1>1, <1>2

LEMMA AsLongFacts ==
  ASSUME NEW b \in Builds, NEW a, NEW n \in Int
  PROVE  /\ AsLong(b, a, n) \in Int
         /\ AsLong(b, a, ULong(b, n)) = AsLong(b, a, n)
         /\ ~(b = "powerpc64" /\ a = 1) => AsLong(b, a, Held(b, a, n)) = AsLong(b, a, n)
<1>1. CASE b = "x86_64" /\ a = I386
  <2>1. \A k : AsLong(b, a, k) = Int32(k)
    BY <1>1 DEF AsLong
  <2>2. ULong(b, n) \in Int /\ ULong(b, n) % Half = n % Half
    BY ULongFacts
  <2>3. Int32(ULong(b, n)) = Int32(n) /\ Int32(n % Half) = Int32(n) /\ Int32(n) \in Int
    BY Zenon, <2>2, Int32Facts
  <2>4. Held(b, a, n) = n % Half
    BY <1>1 DEF Held, Narrow, I386
  <2>. QED
    BY Zenon, <2>1, <2>3, <2>4
<1>2. CASE b = "aarch64" /\ a = ARM
  <2>1. \A k : AsLong(b, a, k) = k % Half
    BY <1>2 DEF AsLong
  <2>2. ULong(b, n) % Half = n % Half
    BY Zenon, ULongFacts
  <2>3. n % Half \in Int
    BY HalfRemainder
  <2>4. Held(b, a, n) = n % Half
    BY <1>2 DEF Held, Narrow, ARM
  <2>. QED
    BY Zenon, <2>1, <2>2, <2>3, <2>4, HalfRemainder
<1>3. CASE ~(b = "x86_64" /\ a = I386) /\ ~(b = "aarch64" /\ a = ARM)
  <2>1. \A k : AsLong(b, a, k) = Long(b, k)
    BY <1>3 DEF AsLong
  <2>2. b # "powerpc64" => ~Narrow(b, a)
    BY <1>3 DEF Narrow, Builds, I386, ARM
  <2>3. ~Narrow(b, a) => Held(b, a, n) = ULong(b, n)
    BY Zenon DEF Held
  <2>4. b = "powerpc64" /\ a # 1 => ~Narrow(b, a)
    BY Zenon DEF Narrow
  <2>. QED
    BY Zenon, <2>1, <2>2, <2>3, <2>4, LongFacts
<1>. QED
  BY Zenon, <1>1, <1>2, <1>3

-----------------------------------------------------------------------------
(* The calling conventions. *)

LEMMA ArgIndexCases ==
  ASSUME NEW i \in ArgIndex
  PROVE  i = 0 \/ i = 1 \/ i = 2 \/ i = 3 \/ i = 4 \/ i = 5
BY DEF ArgIndex, MaxArgs

LEMMA SixSlots ==
  ASSUME NEW h0, NEW h1, NEW h2, NEW h3, NEW h4, NEW h5, NEW i \in ArgIndex
  PROVE  /\ i = 0 => <<h0, h1, h2, h3, h4, h5>>[i + 1] = h0
         /\ i = 1 => <<h0, h1, h2, h3, h4, h5>>[i + 1] = h1
         /\ i = 2 => <<h0, h1, h2, h3, h4, h5>>[i + 1] = h2
         /\ i = 3 => <<h0, h1, h2, h3, h4, h5>>[i + 1] = h3
         /\ i = 4 => <<h0, h1, h2, h3, h4, h5>>[i + 1] = h4
         /\ i = 5 => <<h0, h1, h2, h3, h4, h5>>[i + 1] = h5
OBVIOUS

(* The slots by name. *)
LEMMA SlotNumbers ==
  /\ R.rbp = 4 /\ R.rbx = 5 /\ R.r10 = 7 /\ R.r9 = 8 /\ R.r8 = 9 /\ R.rax = 10
  /\ R.rcx = 11 /\ R.rdx = 12 /\ R.rsi = 13 /\ R.rdi = 14 /\ R.orig_rax = 15
  /\ R.rip = 16 /\ R.cs = 17 /\ R.rsp = 19
  /\ E.ebx = 0 /\ E.ecx = 1 /\ E.edx = 2 /\ E.esi = 3 /\ E.edi = 4 /\ E.ebp = 5
  /\ E.eax = 6 /\ E.orig_eax = 11 /\ E.eip = 12 /\ E.esp = 15
  /\ PPC.orig_gpr3 = 11 /\ PPC.ccr = 12
BY DEF R, E, PPC

(* Where the arguments are. *)
LEMMA ArgHomes ==
  ASSUME NEW b \in Builds, NEW a, NEW i \in ArgIndex
  PROVE  /\ b = "x86_64" /\ a # I386 =>
              ArgHome(b, a)[i + 1] = <<14, 13, 12, 7, 9, 8>>[i + 1]
         /\ b = "x86_64" /\ a = I386 =>
              ArgHome(b, a)[i + 1] = <<5, 11, 12, 13, 14, 4>>[i + 1]
         /\ b = "i386" => ArgHome(b, a)[i + 1] = i
         /\ b = "powerpc64" => ArgHome(b, a)[i + 1] = IF i = 0 THEN 11 ELSE i + 3
         /\ b = "aarch64" => ArgHome(b, a)[i + 1] = i
<1>1. CASE b = "x86_64"
  BY <1>1, SlotNumbers DEF ArgHome
<1>2. CASE b = "i386"
  <2>1. ArgHome(b, a) = <<0, 1, 2, 3, 4, 5>>
    BY <1>2, SlotNumbers DEF ArgHome
  <2>. QED
    BY <1>2, <2>1, ArgIndexCases, SixSlots
<1>3. CASE b = "powerpc64"
  <2>1. ArgHome(b, a) = <<11, 4, 5, 6, 7, 8>>
    BY <1>3, SlotNumbers DEF ArgHome
  <2>. QED
    BY <1>3, <2>1, ArgIndexCases, SixSlots
<1>4. CASE b = "aarch64"
  <2>1. ArgHome(b, a) = <<0, 1, 2, 3, 4, 5>>
    BY <1>4 DEF ArgHome
  <2>. QED
    BY <1>4, <2>1, ArgIndexCases, SixSlots
<1>. QED
  BY Zenon, <1>1, <1>2, <1>3, <1>4 DEF Builds

(* The slots of a call are apart, but for the first argument and the result *)
(* on AArch64.                                                              *)
LEMMA HomesApart ==
  ASSUME NEW b \in Builds, NEW a
  PROVE  /\ NumberHome(b, a) \in Slots /\ ReturnHome(b) \in Slots
         /\ NumberHome(b, a) # ReturnHome(b)
         /\ b = "x86_64" => R.cs \in Slots /\ R.cs # NumberHome(b, a) /\ R.cs # ReturnHome(b)
         /\ b = "powerpc64" =>
              PPC.ccr \in Slots /\ PPC.ccr # NumberHome(b, a) /\ PPC.ccr # ReturnHome(b)
         /\ b = "aarch64" => NumberHome(b, a) \in 0 .. 17
         /\ \A i \in ArgIndex :
              /\ ArgHome(b, a)[i + 1] \in Slots
              /\ b = "aarch64" => ArgHome(b, a)[i + 1] \in 0 .. 17
              /\ ArgHome(b, a)[i + 1] # NumberHome(b, a)
              /\ (b = "aarch64" => i # 0) => ArgHome(b, a)[i + 1] # ReturnHome(b)
              /\ b = "x86_64" => ArgHome(b, a)[i + 1] # R.cs
              /\ b = "powerpc64" => ArgHome(b, a)[i + 1] # PPC.ccr
              /\ \A j \in ArgIndex : ArgHome(b, a)[i + 1] = ArgHome(b, a)[j + 1] => i = j
<1>1. CASE b = "x86_64"
  <2>1. NumberHome(b, a) = 15 /\ ReturnHome(b) = 10 /\ R.cs = 17
    BY <1>1, SlotNumbers DEF NumberHome, ReturnHome
  <2>2. CASE a # I386
    <3>. DEFINE h == <<14, 13, 12, 7, 9, 8>>
    <3>1. \A i \in ArgIndex : ArgHome(b, a)[i + 1] = h[i + 1]
      BY <1>1, <2>2, ArgHomes
    <3>2. \A i \in ArgIndex : /\ h[i + 1] \in Slots
                              /\ h[i + 1] # 15 /\ h[i + 1] # 10 /\ h[i + 1] # 17
      BY ArgIndexCases, SixSlots DEF Slots
    <3>3. \A i, j \in ArgIndex : h[i + 1] = h[j + 1] => i = j
      BY ArgIndexCases, SixSlots
    <3>. HIDE DEF h
    <3>. QED
      BY <1>1, <2>1, <3>1, <3>2, <3>3 DEF Slots
  <2>3. CASE a = I386
    <3>. DEFINE h == <<5, 11, 12, 13, 14, 4>>
    <3>1. \A i \in ArgIndex : ArgHome(b, a)[i + 1] = h[i + 1]
      BY <1>1, <2>3, ArgHomes
    <3>2. \A i \in ArgIndex : /\ h[i + 1] \in Slots
                              /\ h[i + 1] # 15 /\ h[i + 1] # 10 /\ h[i + 1] # 17
      BY ArgIndexCases, SixSlots DEF Slots
    <3>3. \A i, j \in ArgIndex : h[i + 1] = h[j + 1] => i = j
      BY ArgIndexCases, SixSlots
    <3>. HIDE DEF h
    <3>. QED
      BY <1>1, <2>1, <3>1, <3>2, <3>3 DEF Slots
  <2>. QED
    BY Zenon, <2>2, <2>3
<1>2. CASE b = "i386"
  <2>1. NumberHome(b, a) = 11 /\ ReturnHome(b) = 6
    BY <1>2, SlotNumbers DEF NumberHome, ReturnHome
  <2>2. \A i \in ArgIndex : ArgHome(b, a)[i + 1] = i
    BY <1>2, ArgHomes
  <2>. QED
    BY <1>2, <2>1, <2>2 DEF ArgIndex, MaxArgs, Slots
<1>3. CASE b = "powerpc64"
  <2>1. NumberHome(b, a) = 0 /\ ReturnHome(b) = 3 /\ PPC.ccr = 12
    BY <1>3, SlotNumbers DEF NumberHome, ReturnHome
  <2>2. \A i \in ArgIndex : ArgHome(b, a)[i + 1] = IF i = 0 THEN 11 ELSE i + 3
    BY <1>3, ArgHomes
  <2>. QED
    BY <1>3, <2>1, <2>2 DEF ArgIndex, MaxArgs, Slots
<1>4. CASE b = "aarch64"
  <2>1. NumberHome(b, a) = (IF a = ARM THEN 7 ELSE 8) /\ ReturnHome(b) = 0
    BY <1>4 DEF NumberHome, ReturnHome
  <2>2. \A i \in ArgIndex : ArgHome(b, a)[i + 1] = i
    BY <1>4, ArgHomes
  <2>. QED
    BY <1>4, <2>1, <2>2 DEF ArgIndex, MaxArgs, Slots
<1>. QED
  BY Zenon, <1>1, <1>2, <1>3, <1>4 DEF Builds

-----------------------------------------------------------------------------
(* The inductive invariant.  The number that the kernel has for the call.  *)
NumberInv ==
  LET n == user[NumberHome(build, abi)]
  IN  /\ view.scno \in Numbers[build][abi]
      /\ build # "aarch64" =>
           n = view.scno + (IF build = "x86_64" /\ abi = X32 /\ ~view.renumbered
                            THEN X32Bit ELSE 0)
      /\ build = "aarch64" =>
           IF view.renumbered THEN scno = view.scno % ShortSpan
           ELSE n = view.scno /\ scno = view.scno

(* The registers of the arguments, as longs. *)
ArgsInv ==
  \A i \in ArgIndex :
    (build = "aarch64" /\ stop = "exit" => i # 0) =>
      AsLong(build, abi, user[ArgHome(build, abi)[i + 1]]) = view.args[i]

(* The register of the result, and the flag that PowerPC has for errors. *)
ReturnInv ==
  LET v == user[ReturnHome(build)]
      ret == view.ret
  IN  stop = "exit" =>
        /\ ret.error = 0 =>
             /\ Held(build, abi, v) <= Span(build, abi) - NErrnos
             /\ AsLong(build, abi, v) = ret.retval
        /\ ret.error # 0 =>
             /\ ret.retval = -1
             /\ IF build = "powerpc64" THEN v = ret.error
                ELSE Held(build, abi, v) = Span(build, abi) - ret.error
        /\ build = "powerpc64" =>
             user[PPC.ccr] = IF ret.error = 0 THEN 0 ELSE 1

(* What tells a 32-bit thread from others: its code segment on x86_64, and *)
(* the width of its registers on AArch64.                                  *)
ModeInv ==
  /\ build = "x86_64" => user[R.cs] = IF abi = I386 THEN UserCS32 ELSE UserCS
  /\ build = "aarch64" /\ abi = ARM => \A s \in 0 .. 17 : user[s] < Half

(* The copy has the registers that are read. *)
Copied ==
  CASE build = "x86_64" /\ abi = I386 ->
         \A k \in I386Regs : regset.mem[k] = user[I386Slot(k)] % Half
    [] build = "i386" -> \A s \in Slots : regset.mem[s] = user[s]
    [] build = "aarch64" /\ abi = ARM -> \A s \in 0 .. 17 : regset.mem[s] = user[s]
    [] OTHER -> \A s \in Slots : WordAt(regset.mem, s) = user[s]
CopiedAbi ==
  CASE build = "x86_64" ->
         IF abi = I386 THEN I386
         ELSE IF (user[R.orig_rax] \div X32Bit) % 2 = 1 THEN X32 ELSE X86_64
    [] build = "i386" -> 0
    [] build = "powerpc64" -> 1
    [] build = "aarch64" -> abi

(* A copy that was filled at this stop has the right ABI for a write, and  *)
(* AArch64 keeps its copy up to date.                                      *)
CopyInv ==
  /\ sync = "fresh" => Copied /\ regset.abi = CopiedAbi
  /\ sync # "stale" /\ build = "x86_64" => (regset.abi = I386 <=> abi = I386)
  /\ build = "aarch64" => sync # "filled"

IInv == TypeOK /\ NumberInv /\ ArgsInv /\ ReturnInv /\ ModeInv /\ CopyInv

-----------------------------------------------------------------------------
(* The two halves of a register. *)
LEMMA UpperHalf ==
  ASSUME NEW u \in 0 .. Word - 1
  PROVE  /\ u \div Half \in 0 .. Half - 1
         /\ (u % Half) + Half * (u \div Half) = u
<1>. DEFINE q == u \div Half
            r == u % Half
<1>0. Half \in Nat \ {0} /\ Word \in Nat /\ u \in Int /\ u < Word /\ u >= 0
  <2>. HIDE DEF Word
  <2>. QED
    BY HalfFacts, WordFacts
<1>1. q \in Int
  BY Zenon, <1>0, QuotientType
<1>2. r \in 0 .. Half - 1
  BY Zenon, <1>0, RemainderType
<1>3. u = Half * q + r
  BY Zenon, <1>0, Quotient
<1>. HIDE DEF q, r
<1>4. q >= 0
  <2>1. SUFFICES ASSUME q < 0 PROVE FALSE
    BY <1>1
  <2>2. -q \in Nat \ {0}
    BY <1>1, <2>1
  <2>3. Half * (-q) >= Half
    BY <1>0, <2>2, ProductBound
  <2>4. Half * (-q) = -(Half * q)
    BY <1>0, <1>1
  <2>5. Half * q \in Int
    BY <1>0, <1>1
  <2>. DEFINE p == Half * q
  <2>6. p \in Int /\ u = p + r /\ Half * (-q) = -p
    BY Zenon, <1>3, <2>4, <2>5
  <2>. HIDE DEF p
  <2>. QED
    BY <1>0, <1>2, <2>3, <2>6
<1>5. q < Half
  <2>1. SUFFICES ASSUME q >= Half PROVE FALSE
    BY <1>0, <1>1
  <2>. DEFINE d == q - Half
  <2>2. d \in Nat /\ q = Half + d
    BY <1>0, <1>1, <2>1
  <2>3. Half * q = Half * Half + Half * d
    <3>. HIDE DEF d
    <3>1. Half * (Half + d) = Half * Half + Half * d
      BY <1>0, <2>2, Distribute
    <3>. QED
      BY Zenon, <2>2, <3>1
  <2>4. Half * d \in Nat
    <3>. HIDE DEF d
    <3>. QED
      BY <1>0, <2>2
  <2>. DEFINE p == Half * d
  <2>5. p \in Nat /\ u = (Word + p) + r
    BY Zenon, <1>3, <2>3, <2>4 DEF Word
  <2>. HIDE DEF p, Word
  <2>. QED
    BY <1>0, <1>2, <2>5
<1>6. q \in 0 .. Half - 1
  BY <1>0, <1>1, <1>4, <1>5
<1>7. r + Half * q = u
  <2>. DEFINE p == Half * q
  <2>1. p \in Int /\ u = p + r
    <3>1. Half * q \in Int
      BY <1>0, <1>1
    <3>. QED
      BY Zenon, <1>3, <3>1
  <2>2. r + p = u
    <3>. HIDE DEF p
    <3>. QED
      BY <1>0, <1>2, <2>1
  <2>. QED
    BY Zenon, <2>2
<1>. QED
  BY Zenon, <1>6, <1>7 DEF q, r

(* A copy of the registers has each of them. *)
LEMMA WideFacts ==
  ASSUME NEW u \in [Slots -> 0 .. Word - 1]
  PROVE  /\ Wide(u) \in [Halves -> 0 .. Half - 1]
         /\ \A s \in Slots : WordAt(Wide(u), s) = u[s]
         /\ \A s \in Slots : Wide(u)[2 * s] = u[s] % Half
<1>1. ASSUME NEW x \in 0 .. Word - 1
      PROVE  x % Half \in 0 .. Half - 1 /\ x \div Half \in 0 .. Half - 1
  <2>1. x \in Int
    <3>. HIDE DEF Word
    <3>. QED
      BY WordFacts
  <2>. QED
    BY Zenon, <2>1, HalfRemainder, UpperHalf
<1>2. ASSUME NEW k \in Halves
      PROVE  k \div 2 \in Slots
  BY DEF Halves, Slots
<1>3. Wide(u) \in [Halves -> 0 .. Half - 1]
  <2>. SUFFICES ASSUME NEW k \in Halves
                PROVE  (IF k % 2 = 0 THEN u[k \div 2] % Half ELSE u[k \div 2] \div Half)
                         \in 0 .. Half - 1
    BY DEF Wide
  <2>1. u[k \div 2] \in 0 .. Word - 1
    BY Zenon, <1>2
  <2>. QED
    BY Zenon, <1>1, <2>1
<1>4. ASSUME NEW s \in Slots
      PROVE  Wide(u)[2 * s] = u[s] % Half /\ Wide(u)[2 * s + 1] = u[s] \div Half
  <2>1. 2 * s \in Halves /\ 2 * s + 1 \in Halves
    BY DEF Halves, Slots
  <2>2. /\ (2 * s) % 2 = 0 /\ (2 * s) \div 2 = s
        /\ ~((2 * s + 1) % 2 = 0) /\ (2 * s + 1) \div 2 = s
    BY DEF Slots
  <2>. QED
    BY Zenon, <2>1, <2>2 DEF Wide
<1>5. ASSUME NEW s \in Slots
      PROVE  WordAt(Wide(u), s) = u[s]
  <2>1. u[s] \in 0 .. Word - 1
    BY Zenon
  <2>. QED
    BY Zenon, <1>4, <2>1, UpperHalf DEF WordAt
<1>. QED
  BY Zenon, <1>3, <1>4, <1>5

(* The numbers of the calls fit into their registers with the x32 bit. *)
LEMMA NumberFacts ==
  ASSUME NEW b \in Builds, NEW a \in Abis(b), NEW n \in Numbers[b][a]
  PROVE  /\ n \in Nat /\ n < Half /\ n \in 0 .. LongSpan(b) - 1 /\ n < SpanSign(b)
         /\ b # "aarch64" => /\ n < X32Bit
                             /\ n + X32Bit \in 0 .. LongSpan(b) - 1
                             /\ n + X32Bit < SpanSign(b)
<1>. HIDE DEF Word, HalfSign, WordSign
<1>1. n \in 0 .. (IF b = "aarch64" THEN Half ELSE X32Bit) - 1
  BY Zenon, CallsAssumption
<1>2. CASE b = "aarch64"
  <2>1. n \in 0 .. Half - 1 /\ LongSpan(b) = Word /\ SpanSign(b) = WordSign
    BY <1>1, <1>2, SpanFacts
  <2>. QED
    BY <1>2, <2>1, HalfFacts, WordFacts
<1>3. CASE b # "aarch64"
  <2>1. n \in 0 .. X32Bit - 1
    BY <1>1, <1>3
  <2>2. LongSpan(b) \in Nat /\ LongSpan(b) = 2 * SpanSign(b) /\ SpanSign(b) \in Nat /\ SpanSign(b) >= HalfSign
    BY SpanFacts
  <2>. HIDE DEF LongSpan, SpanSign
  <2>. QED
    BY <2>1, <2>2, HalfFacts
<1>. QED
  BY Zenon, <1>2, <1>3

LEMMA EntryFacts ==
  ASSUME NEW b \in Builds, NEW a \in Abis(b), NEW n \in Numbers[b][a]
  PROVE  /\ EntryRegs(b, a, n) \in [Slots -> 0 .. LongSpan(b) - 1]
         /\ EntryRegs(b, a, n)[NumberHome(b, a)]
              = IF b = "x86_64" /\ a = X32 THEN n + X32Bit ELSE n
         /\ \A i \in ArgIndex :
              EntryRegs(b, a, n)[ArgHome(b, a)[i + 1]] = Held(b, a, Args[i])
         /\ b = "x86_64" =>
              EntryRegs(b, a, n)[R.cs] = IF a = I386 THEN UserCS32 ELSE UserCS
         /\ b = "aarch64" /\ a = ARM =>
              \A s \in 0 .. 17 : EntryRegs(b, a, n)[s] < Half
<1>. DEFINE u == EntryRegs(b, a, n)
            Number == IF b = "x86_64" /\ a = X32 THEN n + X32Bit ELSE n
            Segment == IF a = I386 THEN UserCS32 ELSE UserCS
            IsArg(s) == \E i \in ArgIndex : s = ArgHome(b, a)[i + 1]
            Arg(s) == Held(b, a, Args[CHOOSE i \in ArgIndex : s = ArgHome(b, a)[i + 1]])
            At(s) ==
              CASE s = NumberHome(b, a) -> Number
                [] IsArg(s) -> Arg(s)
                [] b = "x86_64" /\ s = R.cs -> Segment
                [] b = "powerpc64" /\ s = PPC.ccr -> 0
                [] OTHER -> Held(b, a, Base[s])
<1>0. Args \in [ArgIndex -> Int] /\ Base \in [Slots -> Int]
  <2>. HIDE DEF Word
  <2>. QED
    BY RegistersAssumption, WordFacts
<1>1. u = [s \in Slots |-> At(s)]
  BY Zenon DEF EntryRegs
<1>2. \A s \in Slots : u[s] = At(s)
  BY Zenon, <1>1
<1>. HIDE DEF u
<1>3. ASSUME NEW s, NEW i \in ArgIndex, s = ArgHome(b, a)[i + 1]
      PROVE  Arg(s) = Held(b, a, Args[i])
  <2>. DEFINE j == CHOOSE k \in ArgIndex : s = ArgHome(b, a)[k + 1]
  <2>1. j \in ArgIndex /\ s = ArgHome(b, a)[j + 1]
    BY Zenon, <1>3
  <2>2. j = i
    BY Zenon, <1>3, <2>1, HomesApart
  <2>. QED
    BY Zenon, <2>2
<1>4. ASSUME NEW s \in Slots
      PROVE  /\ s = NumberHome(b, a) => At(s) = Number
             /\ \A i \in ArgIndex : s = ArgHome(b, a)[i + 1] => At(s) = Held(b, a, Args[i])
             /\ b = "x86_64" /\ s = R.cs => At(s) = Segment
             /\ b = "powerpc64" /\ s = PPC.ccr => At(s) = 0
             /\ \/ At(s) = Number
                \/ b = "x86_64" /\ At(s) = Segment
                \/ b = "powerpc64" /\ At(s) = 0
                \/ \E x \in Int : At(s) = Held(b, a, x)
  <2>. HIDE DEF Number, Segment
  <2>1. CASE s = NumberHome(b, a)
    <3>1. ~IsArg(s) /\ ~(b = "x86_64" /\ s = R.cs) /\ ~(b = "powerpc64" /\ s = PPC.ccr)
      BY Zenon, <2>1, HomesApart
    <3>. HIDE DEF IsArg
    <3>2. At(s) = Number
      BY Zenon, <2>1, <3>1
    <3>. QED
      BY Zenon, <2>1, <3>1, <3>2 DEF IsArg
  <2>2. ASSUME NEW i \in ArgIndex, s = ArgHome(b, a)[i + 1]
        PROVE  /\ s # NumberHome(b, a)
               /\ ~(b = "x86_64" /\ s = R.cs) /\ ~(b = "powerpc64" /\ s = PPC.ccr)
               /\ At(s) = Held(b, a, Args[i])
    <3>1. /\ s # NumberHome(b, a)
          /\ ~(b = "x86_64" /\ s = R.cs) /\ ~(b = "powerpc64" /\ s = PPC.ccr)
      BY Zenon, <2>2, HomesApart
    <3>2. IsArg(s)
      BY Zenon, <2>2
    <3>3. Arg(s) = Held(b, a, Args[i])
      BY Zenon, <2>2, <1>3
    <3>. HIDE DEF IsArg, Arg
    <3>. QED
      BY Zenon, <3>1, <3>2, <3>3
  <2>3. CASE s # NumberHome(b, a) /\ ~IsArg(s) /\ b = "x86_64" /\ s = R.cs
    <3>1. At(s) = Segment
      <4>. HIDE DEF IsArg, Arg
      <4>. QED
        BY <2>3
    <3>. QED
      BY Zenon, <2>3, <3>1
  <2>4. CASE s # NumberHome(b, a) /\ ~IsArg(s) /\ b = "powerpc64" /\ s = PPC.ccr
    <3>1. At(s) = 0
      <4>. HIDE DEF IsArg, Arg
      <4>. QED
        BY <2>4
    <3>. QED
      BY Zenon, <2>4, <3>1
  <2>5. CASE /\ s # NumberHome(b, a) /\ ~IsArg(s)
             /\ ~(b = "x86_64" /\ s = R.cs) /\ ~(b = "powerpc64" /\ s = PPC.ccr)
    <3>1. At(s) = Held(b, a, Base[s])
      <4>. HIDE DEF IsArg, Arg
      <4>. QED
        BY Zenon, <2>5
    <3>2. Base[s] \in Int
      BY Zenon, <1>0
    <3>. QED
      BY Zenon, <2>5, <3>1, <3>2
  <2>. HIDE DEF At
  <2>. QED
    BY Zenon, <1>0, <2>1, <2>2, <2>3, <2>4, <2>5
<1>. HIDE DEF At, IsArg, Arg
<1>5. Number \in 0 .. LongSpan(b) - 1
  <2>. HIDE DEF LongSpan
  <2>. QED
    BY NumberFacts
<1>6. Segment \in 0 .. Half - 1 /\ 0 \in 0 .. LongSpan(b) - 1 /\ Segment \in 0 .. LongSpan(b) - 1
  <2>1. Segment \in {3, 5}
    BY DEF UserCS, UserCS32
  <2>2. Half >= 8 /\ Half \in Nat /\ LongSpan(b) \in Nat /\ LongSpan(b) >= Half
    <3>. HIDE DEF LongSpan, SpanSign, HalfSign
    <3>. QED
      BY HalfFacts, SpanFacts
  <2>. HIDE DEF Segment, LongSpan
  <2>. QED
    BY <2>1, <2>2
<1>. HIDE DEF Segment
<1>7. ASSUME NEW s \in Slots
      PROVE  u[s] \in 0 .. LongSpan(b) - 1
  <2>. HIDE DEF Number
  <2>1. \A x \in Int : Held(b, a, x) \in 0 .. LongSpan(b) - 1
    BY Zenon, HeldFacts
  <2>2. u[s] = Number \/ u[s] = Segment \/ u[s] = 0 \/ \E x \in Int : u[s] = Held(b, a, x)
    BY Zenon, <1>2, <1>4
  <2>. QED
    BY Zenon, <1>5, <1>6, <2>1, <2>2
<1>8. u \in [Slots -> 0 .. LongSpan(b) - 1]
  <2>1. u = [s \in Slots |-> u[s]]
    BY Zenon, <1>1
  <2>. QED
    BY Zenon, <1>7, <2>1
<1>9. b = "aarch64" /\ a = ARM => \A s \in 0 .. 17 : u[s] < Half
  <2>. SUFFICES ASSUME b = "aarch64", a = ARM, NEW s \in 0 .. 17
                PROVE  u[s] < Half
    OBVIOUS
  <2>1. s \in Slots
    BY DEF Slots
  <2>2. Number = n /\ n < Half
    BY NumberFacts
  <2>3. ASSUME NEW x \in Int
        PROVE  Held(b, a, x) < Half
    <3>1. Held(b, a, x) = x % Half
      BY DEF Held, Narrow, ARM
    <3>2. x % Half < Half
      BY HalfRemainder, HalfFacts
    <3>. QED
      BY Zenon, <3>1, <3>2
  <2>. HIDE DEF Number
  <2>4. u[s] = Number \/ \E x \in Int : u[s] = Held(b, a, x)
    BY <1>2, <1>4, <2>1
  <2>. QED
    BY Zenon, <2>2, <2>3, <2>4
<1>10. /\ u[NumberHome(b, a)] = Number
       /\ \A i \in ArgIndex : u[ArgHome(b, a)[i + 1]] = Held(b, a, Args[i])
       /\ b = "x86_64" => u[R.cs] = Segment
  <2>. HIDE DEF Number
  <2>. QED
    BY Zenon, <1>2, <1>4, HomesApart
<1>. QED
  BY Zenon, <1>8, <1>9, <1>10 DEF u, Segment

-----------------------------------------------------------------------------
(* The ABIs of a build. *)
LEMMA AbiFacts ==
  ASSUME NEW b \in Builds, NEW a \in Abis(b)
  PROVE  /\ 0 \in Abis(b)
         /\ b = "x86_64" => a = X86_64 \/ a = I386 \/ a = X32
         /\ b = "i386" => a = 0
         /\ b = "powerpc64" => a = 0 \/ a = 1
         /\ b = "aarch64" => a = AARCH64 \/ a = ARM
BY DEF Builds, Abis, PINK_ABIS_SUPPORTED, X86_64, I386, X32, AARCH64, ARM

LEMMA InitIsGood == Init => IInv
<1>. SUFFICES ASSUME Init PROVE IInv
  OBVIOUS
<1>. HIDE DEF Word, HalfSign, WordSign
<1>1. build \in Builds /\ getregset \in BOOLEAN /\ abi \in Abis(build)
      /\ stop = "entry" /\ sync = "stale" /\ writes = 0
  BY DEF Init
<1>2. PICK n \in Numbers[build][abi] :
        /\ user = EntryRegs(build, abi, n)
        /\ scno = n
        /\ view = View(n, FALSE,
                       [i \in ArgIndex |-> AsLong(build, abi, Held(build, abi, Args[i]))],
                       Outcome(0, 0))
  BY DEF Init
<1>3. /\ view.scno = n /\ view.renumbered = FALSE
      /\ view.args = [i \in ArgIndex |-> AsLong(build, abi, Held(build, abi, Args[i]))]
      /\ view.ret = Outcome(0, 0)
  BY <1>2 DEF View
<1>4. \A i \in ArgIndex : Held(build, abi, Args[i]) \in Int
  <2>1. \A i \in ArgIndex : Args[i] \in Int
    BY RegistersAssumption, WordFacts
  <2>2. \A i \in ArgIndex : Held(build, abi, Args[i]) \in Nat
    BY Zenon, <2>1, HeldFacts
  <2>. QED
    BY <2>2
<1>5. TypeOK
  <2>1. user \in [Slots -> 0 .. LongSpan(build) - 1]
    BY Zenon, <1>1, <1>2, EntryFacts
  <2>2. scno \in Nat /\ n \in Int
    BY <1>1, <1>2, NumberFacts
  <2>3. regset \in [mem : [Halves -> 0 .. Half - 1], abi : Abis(build)]
    <3>1. PICK a \in Abis(build) :
            \/ regset = [mem |-> [k \in Halves |-> 0], abi |-> 0]
            \/ regset = [mem |-> Wide(Base), abi |-> a]
      BY Zenon DEF Init
    <3>2. [k \in Halves |-> 0] \in [Halves -> 0 .. Half - 1]
      BY HalfFacts
    <3>3. Wide(Base) \in [Halves -> 0 .. Half - 1]
      BY Zenon, WideFacts, RegistersAssumption
    <3>4. 0 \in Abis(build)
      BY Zenon, <1>1, AbiFacts
    <3>. QED
      BY <3>1, <3>2, <3>3, <3>4
  <2>4. view.args \in [ArgIndex -> Int]
    <3>1. \A i \in ArgIndex : AsLong(build, abi, Held(build, abi, Args[i])) \in Int
      BY Zenon, <1>1, <1>4, AsLongFacts
    <3>. QED
      BY <1>3, <3>1
  <2>5. view.ret \in [retval : Int, error : 0 .. NErrnos - 1]
    <3>1. 0 \in 0 .. NErrnos - 1 /\ 0 \in Int
      BY HalfFacts
    <3>. QED
      BY <1>3, <3>1 DEF Outcome
  <2>6. writes \in 0 .. MaxWrites
    BY <1>1, RegistersAssumption
  <2>. QED
    BY Zenon, <1>1, <1>3, <2>1, <2>2, <2>3, <2>4, <2>5, <2>6 DEF TypeOK
<1>6. NumberInv
  <2>1. user[NumberHome(build, abi)] = IF build = "x86_64" /\ abi = X32 THEN n + X32Bit ELSE n
    BY <1>1, <1>2, EntryFacts
  <2>2. n \in Nat /\ X32Bit \in Nat /\ n + 0 = n
    BY <1>1, NumberFacts, HalfFacts
  <2>. QED
    BY Zenon, <1>2, <1>3, <2>1, <2>2 DEF NumberInv
<1>7. ArgsInv
  <2>1. \A i \in ArgIndex : user[ArgHome(build, abi)[i + 1]] = Held(build, abi, Args[i])
    BY <1>1, <1>2, EntryFacts
  <2>. QED
    BY Zenon, <1>3, <2>1 DEF ArgsInv
<1>8. ReturnInv
  BY <1>1 DEF ReturnInv
<1>9. ModeInv
  BY Zenon, <1>1, <1>2, EntryFacts DEF ModeInv
<1>10. CopyInv
  BY <1>1 DEF CopyInv
<1>. QED
  BY Zenon, <1>5, <1>6, <1>7, <1>8, <1>9, <1>10 DEF IInv

-----------------------------------------------------------------------------
(* The fill. *)

LEMMA I386Facts ==
  /\ \A k : k \in I386Regs <=>
       \/ k = 0 \/ k = 1 \/ k = 2 \/ k = 3 \/ k = 4 \/ k = 5 \/ k = 6
       \/ k = 11 \/ k = 12 \/ k = 15
  /\ I386Slot(0) = 5 /\ I386Slot(1) = 11 /\ I386Slot(2) = 12 /\ I386Slot(3) = 13
  /\ I386Slot(4) = 14 /\ I386Slot(5) = 4 /\ I386Slot(6) = 10 /\ I386Slot(11) = 15
  /\ I386Slot(12) = 16 /\ I386Slot(15) = 19
  /\ \A k \in I386Regs : k \in Halves /\ I386Slot(k) \in Slots
<1>1. \A k : k \in I386Regs <=>
        \/ k = 0 \/ k = 1 \/ k = 2 \/ k = 3 \/ k = 4 \/ k = 5 \/ k = 6
        \/ k = 11 \/ k = 12 \/ k = 15
  BY SlotNumbers DEF I386Regs
<1>2. /\ I386Slot(0) = 5 /\ I386Slot(1) = 11 /\ I386Slot(2) = 12 /\ I386Slot(3) = 13
      /\ I386Slot(4) = 14 /\ I386Slot(5) = 4 /\ I386Slot(6) = 10 /\ I386Slot(11) = 15
      /\ I386Slot(12) = 16 /\ I386Slot(15) = 19
  BY SlotNumbers DEF I386Slot
<1>. QED
  BY <1>1, <1>2 DEF Halves, Slots

LEMMA WordAtLower ==
  ASSUME NEW m \in [Halves -> 0 .. Half - 1], NEW s \in Slots
  PROVE  WordAt(m, s) % Half = m[2 * s]
<1>. DEFINE x == m[2 * s]
            y == m[2 * s + 1]
<1>1. 2 * s \in Halves /\ 2 * s + 1 \in Halves
  BY DEF Halves, Slots
<1>2. x \in 0 .. Half - 1 /\ y \in 0 .. Half - 1
  BY Zenon, <1>1
<1>3. WordAt(m, s) = x + Half * y
  BY Zenon DEF WordAt
<1>. HIDE DEF x, y
<1>4. x \in Int /\ y \in Int /\ Half \in Nat \ {0}
  BY <1>2, HalfFacts
<1>5. (x + Half * y) % Half = x % Half
  BY Zenon, <1>4, ModShift
<1>. QED
  BY Zenon, <1>2, <1>3, <1>5, HalfSmall DEF x

LEMMA MovedFacts ==
  ASSUME NEW m \in [Halves -> 0 .. Half - 1], NEW e \in Halves, NEW r \in Slots
  PROVE  /\ Moved(m, e, r) \in [Halves -> 0 .. Half - 1]
         /\ Moved(m, e, r)[e] = m[2 * r]
         /\ \A k \in Halves : k # e => Moved(m, e, r)[k] = m[k]
<1>1. Moved(m, e, r) = [m EXCEPT ![e] = m[2 * r]]
  BY Zenon, WordAtLower DEF Moved
<1>2. m[2 * r] \in 0 .. Half - 1
  <2>1. 2 * r \in Halves
    BY DEF Halves, Slots
  <2>. QED
    BY Zenon, <2>1
<1>. QED
  BY <1>1, <1>2

(* regset.c: "The order is important: i386_regs and x86_64_regs are        *)
(* overlaid in memory!"  In the order of the assignments each register of  *)
(* i386 gets the lower half of its counterpart as the kernel returned it:  *)
(* none is overwritten before it is read.                                  *)
THEOREM OverlayIsSafe ==
  ASSUME NEW mem \in [Halves -> 0 .. Half - 1]
  PROVE  /\ Overlay(mem) \in [Halves -> 0 .. Half - 1]
         /\ \A k \in I386Regs : Overlay(mem)[k] = WordAt(mem, I386Slot(k)) % Half
<1>. DEFINE m0 == mem
            m1 == Moved(m0, 0, 5)
            m2 == Moved(m1, 1, 11)
            m3 == Moved(m2, 2, 12)
            m4 == Moved(m3, 3, 13)
            m5 == Moved(m4, 4, 14)
            m6 == Moved(m5, 5, 4)
            m7 == Moved(m6, 6, 10)
            m8 == Moved(m7, 11, 15)
            m9 == Moved(m8, 12, 16)
            m10 == Moved(m9, 15, 19)
<1>0. Overlay(mem) = m10
  BY Zenon, SlotNumbers DEF Overlay
<1>. HIDE DEF m1, m2, m3, m4, m5, m6, m7, m8, m9, m10
<1>1. /\ m1 \in [Halves -> 0 .. Half - 1] /\ m1[0] = m0[10]
      /\ \A k \in Halves : k # 0 => m1[k] = m0[k]
  <2>1. 0 \in Halves /\ 5 \in Slots /\ 2 * 5 = 10
    BY DEF Halves, Slots
  <2>. QED
    BY <2>1, MovedFacts DEF m1
<1>2. /\ m2 \in [Halves -> 0 .. Half - 1] /\ m2[1] = m1[22]
      /\ \A k \in Halves : k # 1 => m2[k] = m1[k]
  <2>1. 1 \in Halves /\ 11 \in Slots /\ 2 * 11 = 22
    BY DEF Halves, Slots
  <2>. QED
    BY <1>1, <2>1, MovedFacts DEF m2
<1>3. /\ m3 \in [Halves -> 0 .. Half - 1] /\ m3[2] = m2[24]
      /\ \A k \in Halves : k # 2 => m3[k] = m2[k]
  <2>1. 2 \in Halves /\ 12 \in Slots /\ 2 * 12 = 24
    BY DEF Halves, Slots
  <2>. QED
    BY <1>2, <2>1, MovedFacts DEF m3
<1>4. /\ m4 \in [Halves -> 0 .. Half - 1] /\ m4[3] = m3[26]
      /\ \A k \in Halves : k # 3 => m4[k] = m3[k]
  <2>1. 3 \in Halves /\ 13 \in Slots /\ 2 * 13 = 26
    BY DEF Halves, Slots
  <2>. QED
    BY <1>3, <2>1, MovedFacts DEF m4
<1>5. /\ m5 \in [Halves -> 0 .. Half - 1] /\ m5[4] = m4[28]
      /\ \A k \in Halves : k # 4 => m5[k] = m4[k]
  <2>1. 4 \in Halves /\ 14 \in Slots /\ 2 * 14 = 28
    BY DEF Halves, Slots
  <2>. QED
    BY <1>4, <2>1, MovedFacts DEF m5
<1>6. /\ m6 \in [Halves -> 0 .. Half - 1] /\ m6[5] = m5[8]
      /\ \A k \in Halves : k # 5 => m6[k] = m5[k]
  <2>1. 5 \in Halves /\ 4 \in Slots /\ 2 * 4 = 8
    BY DEF Halves, Slots
  <2>. QED
    BY <1>5, <2>1, MovedFacts DEF m6
<1>7. /\ m7 \in [Halves -> 0 .. Half - 1] /\ m7[6] = m6[20]
      /\ \A k \in Halves : k # 6 => m7[k] = m6[k]
  <2>1. 6 \in Halves /\ 10 \in Slots /\ 2 * 10 = 20
    BY DEF Halves, Slots
  <2>. QED
    BY <1>6, <2>1, MovedFacts DEF m7
<1>8. /\ m8 \in [Halves -> 0 .. Half - 1] /\ m8[11] = m7[30]
      /\ \A k \in Halves : k # 11 => m8[k] = m7[k]
  <2>1. 11 \in Halves /\ 15 \in Slots /\ 2 * 15 = 30
    BY DEF Halves, Slots
  <2>. QED
    BY <1>7, <2>1, MovedFacts DEF m8
<1>9. /\ m9 \in [Halves -> 0 .. Half - 1] /\ m9[12] = m8[32]
      /\ \A k \in Halves : k # 12 => m9[k] = m8[k]
  <2>1. 12 \in Halves /\ 16 \in Slots /\ 2 * 16 = 32
    BY DEF Halves, Slots
  <2>. QED
    BY <1>8, <2>1, MovedFacts DEF m9
<1>10. /\ m10 \in [Halves -> 0 .. Half - 1] /\ m10[15] = m9[38]
       /\ \A k \in Halves : k # 15 => m10[k] = m9[k]
  <2>1. 15 \in Halves /\ 19 \in Slots /\ 2 * 19 = 38
    BY DEF Halves, Slots
  <2>. QED
    BY <1>9, <2>1, MovedFacts DEF m10
<1>11. 0 \in Halves /\ 1 \in Halves /\ 2 \in Halves /\ 3 \in Halves /\ 4 \in Halves /\ 5 \in Halves /\ 6 \in Halves /\ 11 \in Halves /\ 12 \in Halves /\ 15 \in Halves
  BY DEF Halves
<1>12. 10 \in Halves /\ 22 \in Halves /\ 24 \in Halves /\ 26 \in Halves /\ 28 \in Halves /\ 8 \in Halves /\ 20 \in Halves /\ 30 \in Halves /\ 32 \in Halves /\ 38 \in Halves
  BY DEF Halves
<1>13. m10[0] = mem[10]
  <2>1. m0[10] = mem[10]
    BY <1>12
  <2>2. m10[0] = m1[0]
    BY <1>2, <1>3, <1>4, <1>5, <1>6, <1>7, <1>8, <1>9, <1>10, <1>11
  <2>. QED
    BY Zenon, <1>1, <2>1, <2>2
<1>14. m10[1] = mem[22]
  <2>1. m1[22] = mem[22]
    BY <1>1, <1>12
  <2>2. m10[1] = m2[1]
    BY <1>3, <1>4, <1>5, <1>6, <1>7, <1>8, <1>9, <1>10, <1>11
  <2>. QED
    BY Zenon, <1>2, <2>1, <2>2
<1>15. m10[2] = mem[24]
  <2>1. m2[24] = mem[24]
    BY <1>1, <1>2, <1>12
  <2>2. m10[2] = m3[2]
    BY <1>4, <1>5, <1>6, <1>7, <1>8, <1>9, <1>10, <1>11
  <2>. QED
    BY Zenon, <1>3, <2>1, <2>2
<1>16. m10[3] = mem[26]
  <2>1. m3[26] = mem[26]
    BY <1>1, <1>2, <1>3, <1>12
  <2>2. m10[3] = m4[3]
    BY <1>5, <1>6, <1>7, <1>8, <1>9, <1>10, <1>11
  <2>. QED
    BY Zenon, <1>4, <2>1, <2>2
<1>17. m10[4] = mem[28]
  <2>1. m4[28] = mem[28]
    BY <1>1, <1>2, <1>3, <1>4, <1>12
  <2>2. m10[4] = m5[4]
    BY <1>6, <1>7, <1>8, <1>9, <1>10, <1>11
  <2>. QED
    BY Zenon, <1>5, <2>1, <2>2
<1>18. m10[5] = mem[8]
  <2>1. m5[8] = mem[8]
    BY <1>1, <1>2, <1>3, <1>4, <1>5, <1>12
  <2>2. m10[5] = m6[5]
    BY <1>7, <1>8, <1>9, <1>10, <1>11
  <2>. QED
    BY Zenon, <1>6, <2>1, <2>2
<1>19. m10[6] = mem[20]
  <2>1. m6[20] = mem[20]
    BY <1>1, <1>2, <1>3, <1>4, <1>5, <1>6, <1>12
  <2>2. m10[6] = m7[6]
    BY <1>8, <1>9, <1>10, <1>11
  <2>. QED
    BY Zenon, <1>7, <2>1, <2>2
<1>20. m10[11] = mem[30]
  <2>1. m7[30] = mem[30]
    BY <1>1, <1>2, <1>3, <1>4, <1>5, <1>6, <1>7, <1>12
  <2>2. m10[11] = m8[11]
    BY <1>9, <1>10, <1>11
  <2>. QED
    BY Zenon, <1>8, <2>1, <2>2
<1>21. m10[12] = mem[32]
  <2>1. m8[32] = mem[32]
    BY <1>1, <1>2, <1>3, <1>4, <1>5, <1>6, <1>7, <1>8, <1>12
  <2>2. m10[12] = m9[12]
    BY <1>10, <1>11
  <2>. QED
    BY Zenon, <1>9, <2>1, <2>2
<1>22. m10[15] = mem[38]
  <2>1. m9[38] = mem[38]
    BY <1>1, <1>2, <1>3, <1>4, <1>5, <1>6, <1>7, <1>8, <1>9, <1>12
  <2>2. m10[15] = m10[15]
    BY <1>11
  <2>. QED
    BY Zenon, <1>10, <2>1, <2>2
<1>23. ASSUME NEW k \in I386Regs
       PROVE  m10[k] = WordAt(mem, I386Slot(k)) % Half
  <2>1. WordAt(mem, I386Slot(k)) % Half = mem[2 * I386Slot(k)]
    BY Zenon, I386Facts, WordAtLower
  <2>2. m10[k] = mem[2 * I386Slot(k)]
    BY <1>13, <1>14, <1>15, <1>16, <1>17, <1>18, <1>19, <1>20, <1>21, <1>22, I386Facts
  <2>. QED
    BY Zenon, <2>1, <2>2
<1>. QED
  BY Zenon, <1>0, <1>10, <1>23


(* The views of 32-bit threads. *)
LEMMA ViewFacts ==
  ASSUME NEW u \in [Slots -> 0 .. Word - 1], NEW mem \in [Halves -> 0 .. Half - 1]
  PROVE  /\ I386View(u, mem) \in [Halves -> 0 .. Half - 1]
         /\ \A k \in I386Regs : I386View(u, mem)[k] = u[I386Slot(k)] % Half
         /\ ArmView(u, mem) \in [Halves -> 0 .. Half - 1]
         /\ \A k \in 0 .. 17 : ArmView(u, mem)[k] = u[k] % Half
<1>1. ASSUME NEW s \in Slots
      PROVE  u[s] % Half \in 0 .. Half - 1
  <2>1. u[s] \in Int
    <3>. HIDE DEF Word
    <3>. QED
      BY WordFacts
  <2>. QED
    BY Zenon, <2>1, HalfRemainder
<1>2. I386View(u, mem) \in [Halves -> 0 .. Half - 1]
  BY Zenon, <1>1, I386Facts DEF I386View
<1>3. \A k \in I386Regs : I386View(u, mem)[k] = u[I386Slot(k)] % Half
  BY Zenon, I386Facts DEF I386View
<1>4. \A k \in Halves : k < 18 => k \in Slots
  BY DEF Halves, Slots
<1>5. ArmView(u, mem) \in [Halves -> 0 .. Half - 1]
  BY Zenon, <1>1, <1>4 DEF ArmView
<1>6. \A k \in 0 .. 17 : k \in Halves /\ k < 18
  BY DEF Halves
<1>7. \A k \in 0 .. 17 : ArmView(u, mem)[k] = u[k] % Half
  BY Zenon, <1>6 DEF ArmView
<1>. QED
  BY Zenon, <1>2, <1>3, <1>5, <1>7

(* What TypeOK says of the registers. *)
LEMMA UserType ==
  ASSUME TypeOK
  PROVE  /\ user \in [Slots -> 0 .. Word - 1]
         /\ \A s \in Slots : user[s] \in Nat /\ user[s] \in 0 .. LongSpan(build) - 1
         /\ build = "i386" => user \in [Slots -> 0 .. Half - 1]
<1>. HIDE DEF Word
<1>1. user \in [Slots -> 0 .. LongSpan(build) - 1]
  BY DEF TypeOK
<1>2. \A k \in 0 .. LongSpan(build) - 1 : k \in Nat /\ k \in 0 .. Word - 1
  <2>. HIDE DEF WordSign, HalfSign
  <2>1. LongSpan(build) = Half \/ LongSpan(build) = Word
    BY Zenon DEF LongSpan
  <2>2. Half \in Nat /\ Word \in Nat /\ Half <= Word
    BY HalfFacts, WordFacts
  <2>. HIDE DEF LongSpan
  <2>. QED
    BY <2>1, <2>2
<1>3. build = "i386" => LongSpan(build) = Half
  BY Zenon, SpanFacts
<1>4. user \in [Slots -> 0 .. Word - 1]
  BY Zenon, <1>1, <1>2
<1>. QED
  BY Zenon, <1>1, <1>2, <1>3, <1>4

(* pink_regset_fill makes the copy what it should be, by each of its ways. *)
LEMMA FilledFacts ==
  ASSUME TypeOK, ModeInv, regset' = Filled, build' = build, abi' = abi, user' = user,
         build = "aarch64" => getregset
  PROVE  /\ regset' \in [mem : [Halves -> 0 .. Half - 1], abi : Abis(build)]
         /\ Copied' /\ regset'.abi = CopiedAbi'
<1>. DEFINE wide == Wide(user)
            Mem == [Halves -> 0 .. Half - 1]
<1>. HIDE DEF Word
<1>1. /\ user \in [Slots -> 0 .. Word - 1] /\ regset.mem \in Mem /\ regset.abi \in Abis(build)
      /\ build \in Builds /\ abi \in Abis(build)
  BY UserType DEF TypeOK
<1>2. wide \in Mem /\ \A s \in Slots : WordAt(wide, s) = user[s]
  BY Zenon, <1>1, WideFacts
<1>. HIDE DEF wide
<1>3. CASE build = "x86_64"
  <2>. DEFINE is32 == IF getregset THEN abi = I386 ELSE WordAt(wide, R.cs) = UserCS32
              x86 == IF ~is32 THEN wide
                     ELSE IF getregset THEN I386View(user, regset.mem) ELSE Overlay(wide)
  <2>1. regset' = [mem |-> x86, abi |-> X86Abi(x86, is32)]
    BY <1>3 DEF Filled, wide
  <2>2. is32 <=> abi = I386
    <3>1. WordAt(wide, R.cs) = IF abi = I386 THEN UserCS32 ELSE UserCS
      <4>1. R.cs \in Slots
        BY SlotNumbers DEF Slots
      <4>. QED
        BY Zenon, <1>2, <1>3, <4>1 DEF ModeInv
    <3>2. UserCS32 # UserCS
      BY DEF UserCS, UserCS32
    <3>. QED
      BY Zenon, <3>1, <3>2
  <2>3. CASE abi = I386
    <3>1. /\ x86 = IF getregset THEN I386View(user, regset.mem) ELSE Overlay(wide)
          /\ X86Abi(x86, is32) = I386
      BY Zenon, <2>2, <2>3 DEF X86Abi
    <3>2. x86 \in Mem /\ \A k \in I386Regs : x86[k] = user[I386Slot(k)] % Half
      <4>1. CASE getregset
        <5>1. x86 = I386View(user, regset.mem)
          BY Zenon, <3>1, <4>1
        <5>2. /\ I386View(user, regset.mem) \in Mem
              /\ \A k \in I386Regs : I386View(user, regset.mem)[k] = user[I386Slot(k)] % Half
          BY Zenon, <1>1, ViewFacts
        <5>. QED
          BY Zenon, <5>1, <5>2
      <4>2. CASE ~getregset
        <5>1. x86 = Overlay(wide)
          BY Zenon, <3>1, <4>2
        <5>2. \A k \in I386Regs : WordAt(wide, I386Slot(k)) = user[I386Slot(k)]
          BY Zenon, <1>2, I386Facts
        <5>3. /\ Overlay(wide) \in Mem
              /\ \A k \in I386Regs : Overlay(wide)[k] = WordAt(wide, I386Slot(k)) % Half
          BY Zenon, <1>2, OverlayIsSafe
        <5>. QED
          BY Zenon, <5>1, <5>2, <5>3
      <4>. QED
        BY Zenon, <4>1, <4>2
    <3>. HIDE DEF x86, is32
    <3>3. regset'.mem = x86 /\ regset'.abi = I386 /\ regset' = [mem |-> x86, abi |-> I386]
      BY <2>1, <3>1
    <3>4. Copied'
      BY Zenon, <1>3, <2>3, <3>2, <3>3 DEF Copied
    <3>5. CopiedAbi' = I386
      BY Zenon, <1>3, <2>3 DEF CopiedAbi
    <3>6. I386 \in Abis(build)
      BY Zenon, <1>1, <2>3
    <3>. QED
      BY Zenon, <3>2, <3>3, <3>4, <3>5, <3>6
  <2>4. CASE abi # I386
    <3>1. x86 = wide /\ ~is32
      BY Zenon, <2>2, <2>4
    <3>2. X86Abi(wide, FALSE) = IF (user[R.orig_rax] \div X32Bit) % 2 = 1 THEN X32 ELSE X86_64
      <4>1. R.orig_rax \in Slots
        BY SlotNumbers DEF Slots
      <4>. QED
        BY Zenon, <1>2, <4>1 DEF X86Abi
    <3>3. X86Abi(x86, is32) = X86Abi(wide, FALSE)
      BY Zenon, <3>1 DEF X86Abi
    <3>. HIDE DEF x86, is32
    <3>. DEFINE a == IF (user[R.orig_rax] \div X32Bit) % 2 = 1 THEN X32 ELSE X86_64
    <3>4. regset' = [mem |-> wide, abi |-> a]
      BY Zenon, <2>1, <3>1, <3>2, <3>3
    <3>5. a \in Abis(build)
      BY <1>3 DEF Abis, PINK_ABIS_SUPPORTED, X32, X86_64
    <3>6. CopiedAbi' = a
      BY Zenon, <1>3, <2>4 DEF CopiedAbi
    <3>. HIDE DEF a
    <3>7. regset'.mem = wide /\ regset'.abi = a
      BY <3>4
    <3>8. Copied'
      BY <1>2, <1>3, <2>4, <3>7 DEF Copied
    <3>. QED
      BY Zenon, <1>2, <3>4, <3>5, <3>6, <3>7, <3>8
  <2>. QED
    BY Zenon, <2>3, <2>4
<1>4. CASE build = "i386"
  <2>. DEFINE mem == [k \in Halves |-> IF k \in Slots THEN user[k] ELSE 0]
  <2>1. regset' = [mem |-> mem, abi |-> 0]
    BY <1>4 DEF Filled
  <2>2. \A s \in Slots : s \in Halves
    BY DEF Slots, Halves
  <2>3. mem \in Mem
    <3>1. user \in [Slots -> 0 .. Half - 1]
      BY Zenon, <1>4, UserType
    <3>2. 0 \in 0 .. Half - 1
      BY HalfFacts
    <3>. QED
      BY Zenon, <3>1, <3>2
  <2>4. \A s \in Slots : mem[s] = user[s]
    BY Zenon, <2>2
  <2>. HIDE DEF mem
  <2>5. regset'.mem = mem /\ regset'.abi = 0
    BY <2>1
  <2>6. Copied'
    BY <1>4, <2>4, <2>5 DEF Copied
  <2>7. CopiedAbi' = 0
    BY <1>4 DEF CopiedAbi
  <2>8. 0 \in Abis(build)
    BY Zenon, <1>1, AbiFacts
  <2>. QED
    BY Zenon, <2>1, <2>3, <2>5, <2>6, <2>7, <2>8
<1>5. CASE build = "powerpc64"
  <2>1. regset' = [mem |-> wide, abi |-> 1]
    BY <1>5 DEF Filled, wide
  <2>2. regset'.mem = wide /\ regset'.abi = 1
    BY <2>1
  <2>3. Copied'
    BY <1>2, <1>5, <2>2 DEF Copied
  <2>4. CopiedAbi' = 1
    BY <1>5 DEF CopiedAbi
  <2>5. 1 \in Abis(build)
    BY <1>5 DEF Abis, PINK_ABIS_SUPPORTED
  <2>. QED
    BY Zenon, <1>2, <2>1, <2>2, <2>3, <2>4, <2>5
<1>6. CASE build = "aarch64"
  <2>1. regset' = ArmFilled
    BY <1>6 DEF Filled
  <2>2. CopiedAbi' = abi
    BY <1>6 DEF CopiedAbi
  <2>3. CASE abi = ARM
    <3>. DEFINE mem == ArmView(user, regset.mem)
    <3>1. regset' = [mem |-> mem, abi |-> ARM]
      BY Zenon, <2>1, <2>3 DEF ArmFilled
    <3>2. mem \in Mem /\ \A s \in 0 .. 17 : mem[s] = user[s] % Half
      BY Zenon, <1>1, ViewFacts
    <3>3. \A s \in 0 .. 17 : user[s] % Half = user[s]
      <4>1. \A s \in 0 .. 17 : user[s] \in Nat /\ user[s] < Half
        <5>1. \A s \in 0 .. 17 : s \in Slots
          BY DEF Slots
        <5>. QED
          BY Zenon, <1>6, <2>3, <5>1, UserType DEF ModeInv
      <4>2. \A s \in 0 .. 17 : user[s] \in 0 .. Half - 1
        BY <4>1, HalfFacts
      <4>. QED
        BY Zenon, <4>2, HalfSmall
    <3>. HIDE DEF mem
    <3>4. regset'.mem = mem /\ regset'.abi = ARM
      BY <3>1
    <3>5. Copied'
      BY <1>6, <2>3, <3>2, <3>3, <3>4 DEF Copied
    <3>. QED
      BY Zenon, <1>1, <2>2, <2>3, <3>1, <3>2, <3>4, <3>5
  <2>4. CASE abi # ARM
    <3>1. regset' = [mem |-> wide, abi |-> AARCH64] /\ abi = AARCH64
      BY Zenon, <1>1, <1>6, <2>1, <2>4, AbiFacts DEF ArmFilled, wide
    <3>2. regset'.mem = wide /\ regset'.abi = AARCH64
      BY <3>1
    <3>3. Copied'
      BY <1>2, <1>6, <2>4, <3>2 DEF Copied
    <3>. QED
      BY Zenon, <1>1, <1>2, <2>2, <3>1, <3>2, <3>3
  <2>. QED
    BY Zenon, <2>3, <2>4
<1>. QED
  BY Zenon, <1>1, <1>3, <1>4, <1>5, <1>6 DEF Builds

(* The registers in the kernel determine the rest of the invariant. *)
LEMMA KernelUnchanged ==
  ASSUME NumberInv, ArgsInv, ReturnInv, ModeInv,
         UNCHANGED <<build, abi, stop, user, scno, view>>
  PROVE  NumberInv' /\ ArgsInv' /\ ReturnInv' /\ ModeInv'
BY Zenon DEF NumberInv, ArgsInv, ReturnInv, ModeInv

LEMMA FillKeeps == IInv /\ pink_regset_fill => IInv'
<1>. SUFFICES ASSUME IInv, pink_regset_fill PROVE IInv'
  OBVIOUS
<1>1. TypeOK /\ NumberInv /\ ArgsInv /\ ReturnInv /\ ModeInv /\ CopyInv
  BY Zenon DEF IInv
<1>2. UNCHANGED <<build, getregset, abi, stop, user, scno, writes, view>>
  BY Zenon DEF pink_regset_fill
<1>3. NumberInv' /\ ArgsInv' /\ ReturnInv' /\ ModeInv'
  BY Zenon, <1>1, <1>2, KernelUnchanged
<1>4. CASE build = "aarch64" /\ ~getregset
  <2>1. UNCHANGED <<regset, sync>>
    BY Zenon, <1>4 DEF pink_regset_fill
  <2>2. TypeOK'
    BY Zenon, <1>1, <1>2, <2>1 DEF TypeOK
  <2>3. CopyInv'
    BY Zenon, <1>1, <1>2, <2>1 DEF CopyInv, Copied, CopiedAbi
  <2>. QED
    BY Zenon, <1>3, <2>2, <2>3 DEF IInv
<1>5. CASE ~(build = "aarch64" /\ ~getregset)
  <2>1. regset' = Filled /\ sync' = "fresh"
    BY Zenon, <1>5 DEF pink_regset_fill
  <2>2. build = "aarch64" => getregset
    BY Zenon, <1>5
  <2>3. /\ regset' \in [mem : [Halves -> 0 .. Half - 1], abi : Abis(build)]
        /\ Copied' /\ regset'.abi = CopiedAbi'
    BY Zenon, <1>1, <1>2, <2>1, <2>2, FilledFacts
  <2>4. TypeOK'
    <3>1. sync' \in {"stale", "filled", "fresh"}
      BY Zenon, <2>1
    <3>. QED
      BY Zenon, <1>1, <1>2, <2>3, <3>1 DEF TypeOK
  <2>5. build' = "x86_64" => (regset'.abi = I386 <=> abi' = I386)
    BY <2>3 DEF CopiedAbi, I386, X32, X86_64
  <2>6. CopyInv'
    <3>1. "fresh" # "filled"
      OBVIOUS
    <3>. QED
      BY Zenon, <2>1, <2>3, <2>5, <3>1 DEF CopyInv
  <2>. QED
    BY Zenon, <1>3, <2>4, <2>6 DEF IInv
<1>. QED
  BY Zenon, <1>4, <1>5

-----------------------------------------------------------------------------
(* The end of the call. *)

LEMMA HeldNegated ==
  ASSUME NEW b, NEW a, NEW e \in 1 .. NErrnos - 1
  PROVE  /\ -e \in Int /\ e \in Int /\ e \in 0 .. LongSpan(b) - 1
         /\ Held(b, a, -e) = Span(b, a) - e
         /\ ULong(b, -e) = LongSpan(b) - e
         /\ (-e) % Half = Half - e
<1>. HIDE DEF Word, HalfSign, WordSign
<1>1. ASSUME NEW s \in Nat \ {0}, s >= Half
      PROVE  (-e) % s = s - e
  <2>1. e \in 0 .. s - 1 /\ e # 0 /\ e \in Int
    BY <1>1, HalfFacts
  <2>2. e % s = e
    BY Zenon, <2>1, ModSmall
  <2>. QED
    BY Zenon, <2>1, <2>2, ModNegated
<1>2. (-e) % Half = Half - e
  <2>1. Half \in Nat \ {0} /\ Half >= Half
    BY HalfFacts
  <2>. QED
    BY Zenon, <1>1, <2>1
<1>3. LongSpan(b) \in Nat \ {0} /\ LongSpan(b) >= Half
  <2>. HIDE DEF LongSpan, SpanSign
  <2>. QED
    BY SpanFacts, HalfFacts
<1>4. (-e) % LongSpan(b) = LongSpan(b) - e
  BY Zenon, <1>1, <1>3
<1>5. -e \in Int /\ e \in Int /\ e \in 0 .. LongSpan(b) - 1
  <2>. HIDE DEF LongSpan
  <2>. QED
    BY <1>3, HalfFacts
<1>. QED
  BY Zenon, <1>2, <1>4, <1>5 DEF Held, Span, ULong

LEMMA ExitFacts ==
  ASSUME NEW b \in Builds, NEW a, NEW u, NEW val, NEW err,
         NEW v, v = ExitRegs(b, a, u, val, err)
  PROVE  /\ v[ReturnHome(b)] = IF err = 0 THEN Held(b, a, val)
                               ELSE IF b = "powerpc64" THEN err ELSE Held(b, a, -err)
         /\ b = "powerpc64" => v[PPC.ccr] = IF err = 0 THEN 0 ELSE 1
         /\ \A s \in Slots : /\ s # ReturnHome(b)
                             /\ b = "powerpc64" => s # PPC.ccr
                             => v[s] = u[s]
         /\ v = [s \in Slots |-> v[s]]
<1>. DEFINE x == IF err = 0 THEN Held(b, a, val)
                 ELSE IF b = "powerpc64" THEN err ELSE Held(b, a, -err)
            y == IF err = 0 THEN 0 ELSE 1
            At(s) == CASE s = ReturnHome(b) -> x
                       [] b = "powerpc64" /\ s = PPC.ccr -> y
                       [] OTHER -> u[s]
<1>1. v = [s \in Slots |-> At(s)]
  BY Zenon DEF ExitRegs
<1>. HIDE DEF x, y
<1>2. \A s \in Slots : v[s] = At(s)
  BY Zenon, <1>1
<1>3. /\ ReturnHome(b) \in Slots
      /\ b = "powerpc64" => PPC.ccr \in Slots /\ PPC.ccr # ReturnHome(b)
  BY Zenon, HomesApart
<1>4. At(ReturnHome(b)) = x
  BY Zenon, <1>3
<1>5. b = "powerpc64" => At(PPC.ccr) = y
  BY Zenon, <1>3
<1>6. \A s \in Slots : /\ s # ReturnHome(b)
                       /\ b = "powerpc64" => s # PPC.ccr
                       => At(s) = u[s]
  BY Zenon
<1>. HIDE DEF At
<1>7. v[ReturnHome(b)] = x /\ (b = "powerpc64" => v[PPC.ccr] = y)
  BY Zenon, <1>2, <1>3, <1>4, <1>5
<1>8. v = [s \in Slots |-> v[s]]
  BY Zenon, <1>1
<1>9. \A s \in Slots : /\ s # ReturnHome(b)
                       /\ b = "powerpc64" => s # PPC.ccr
                       => v[s] = u[s]
  BY Zenon, <1>2, <1>6
<1>. QED
  BY Zenon, <1>7, <1>8, <1>9 DEF x, y

LEMMA ResumeKeeps == IInv /\ Resume => IInv'
<1>. SUFFICES ASSUME IInv, Resume PROVE IInv'
  OBVIOUS
<1>. HIDE DEF Word, HalfSign, WordSign
<1>1. TypeOK /\ NumberInv /\ ArgsInv /\ ReturnInv /\ ModeInv /\ CopyInv
  BY Zenon DEF IInv
<1>2. /\ stop' = "exit" /\ sync' = "stale"
      /\ UNCHANGED <<build, getregset, abi, scno, regset, writes>>
  BY Zenon DEF Resume
<1>3. PICK val \in Int, err \in 0 .. NErrnos - 1 :
        /\ err = 0 => Returnable(val)
        /\ user' = ExitRegs(build, abi, user, val, err)
        /\ view' = View(view.scno, view.renumbered, view.args,
                        IF err = 0 THEN Outcome(AsLong(build, abi, Held(build, abi, val)), 0)
                        ELSE Outcome(-1, err))
  <2>1. CASE \E val \in Returns :
               /\ Returnable(val)
               /\ user' = ExitRegs(build, abi, user, val, 0)
               /\ view' = View(view.scno, view.renumbered, view.args,
                               Outcome(AsLong(build, abi, Held(build, abi, val)), 0))
    <3>1. Returns \subseteq Int /\ 0 \in 0 .. NErrnos - 1
      BY RegistersAssumption, WordFacts, HalfFacts
    <3>. QED
      BY Zenon, <2>1, <3>1
  <2>2. CASE \E err \in 1 .. NErrnos - 1 :
               /\ user' = ExitRegs(build, abi, user, 0, err)
               /\ view' = View(view.scno, view.renumbered, view.args, Outcome(-1, err))
    <3>1. 0 \in Int /\ \A err \in 1 .. NErrnos - 1 : err \in 0 .. NErrnos - 1 /\ err # 0
      BY HalfFacts
    <3>. QED
      BY Zenon, <2>2, <3>1
  <2>. QED
    BY Zenon, <2>1, <2>2 DEF Resume
<1>. DEFINE ret == IF err = 0 THEN Outcome(AsLong(build, abi, Held(build, abi, val)), 0)
                   ELSE Outcome(-1, err)
            home == ReturnHome(build)
<1>4. /\ view'.scno = view.scno /\ view'.renumbered = view.renumbered
      /\ view'.args = view.args /\ view'.ret = ret
  BY <1>3 DEF View
<1>5. /\ err = 0 => ret.error = 0 /\ ret.retval = AsLong(build, abi, Held(build, abi, val))
      /\ err # 0 => ret.error = err /\ ret.retval = -1
  BY Zenon DEF Outcome
<1>6. build \in Builds /\ abi \in Abis(build)
  BY Zenon, <1>1 DEF TypeOK
<1>7. /\ user'[home] = IF err = 0 THEN Held(build, abi, val)
                       ELSE IF build = "powerpc64" THEN err ELSE Held(build, abi, -err)
      /\ build = "powerpc64" => user'[PPC.ccr] = IF err = 0 THEN 0 ELSE 1
      /\ \A s \in Slots : /\ s # home
                          /\ build = "powerpc64" => s # PPC.ccr
                          => user'[s] = user[s]
      /\ user' = [s \in Slots |-> user'[s]]
  <2>1. user' = ExitRegs(build, abi, user, val, err)
    BY Zenon, <1>3
  <2>. QED
    BY <1>6, <2>1, ExitFacts
<1>8. Held(build, abi, val) \in Int /\ AsLong(build, abi, Held(build, abi, val)) \in Int
  <2>1. Held(build, abi, val) \in Nat
    BY Zenon, HeldFacts
  <2>2. Held(build, abi, val) \in Int
    BY <2>1
  <2>. QED
    BY Zenon, <1>6, <2>2, AsLongFacts
<1>9. err # 0 => err \in 1 .. NErrnos - 1
  BY HalfFacts
<1>10. user'[home] \in 0 .. LongSpan(build) - 1
  <2>1. Held(build, abi, val) \in 0 .. LongSpan(build) - 1
    BY Zenon, HeldFacts
  <2>2. ASSUME err # 0
        PROVE  err \in 0 .. LongSpan(build) - 1 /\ Held(build, abi, -err) \in 0 .. LongSpan(build) - 1
    <3>1. -err \in Int /\ err \in 0 .. LongSpan(build) - 1
      BY Zenon, <1>9, <2>2, HeldNegated
    <3>. QED
      BY Zenon, <3>1, HeldFacts
  <2>. QED
    BY Zenon, <1>7, <2>1, <2>2
<1>. HIDE DEF ret
<1>11. TypeOK'
  <2>1. user' \in [Slots -> 0 .. LongSpan(build') - 1]
    <3>1. 0 \in 0 .. LongSpan(build) - 1 /\ 1 \in 0 .. LongSpan(build) - 1
      <4>. HIDE DEF LongSpan, SpanSign
      <4>. QED
        BY SpanFacts, HalfFacts
    <3>2. \A s \in Slots : user[s] \in 0 .. LongSpan(build) - 1
      BY Zenon, <1>1, UserType
    <3>3. \A s \in Slots : user'[s] \in 0 .. LongSpan(build) - 1
      BY Zenon, <1>7, <1>10, <3>1, <3>2
    <3>. QED
      BY Zenon, <1>2, <1>7, <3>3
  <2>2. ret \in [retval : Int, error : 0 .. NErrnos - 1]
    <3>1. 0 \in 0 .. NErrnos - 1 /\ -1 \in Int
      BY HalfFacts
    <3>. QED
      BY <1>8, <3>1 DEF ret, Outcome
  <2>. QED
    BY Zenon, <1>1, <1>2, <1>4, <2>1, <2>2 DEF TypeOK
<1>12. NumberInv'
  <2>1. user'[NumberHome(build, abi)] = user[NumberHome(build, abi)]
    BY Zenon, <1>6, <1>7, HomesApart
  <2>. QED
    BY Zenon, <1>1, <1>2, <1>4, <2>1 DEF NumberInv
<1>13. ArgsInv'
  <2>1. \A i \in ArgIndex : (build = "aarch64" => i # 0) =>
          user'[ArgHome(build, abi)[i + 1]] = user[ArgHome(build, abi)[i + 1]]
    BY Zenon, <1>6, <1>7, HomesApart
  <2>. QED
    BY Zenon, <1>1, <1>2, <1>4, <2>1 DEF ArgsInv
<1>14. ReturnInv'
  <2>1. CASE err = 0
    <3>1. Held(build, abi, val) <= Span(build, abi) - NErrnos
      BY Zenon, <1>3, <2>1 DEF Returnable, Span
    <3>2. Held(build, abi, Held(build, abi, val)) = Held(build, abi, val)
      BY Zenon, HeldFacts
    <3>. QED
      BY Zenon, <1>2, <1>4, <1>5, <1>7, <2>1, <3>1, <3>2 DEF ReturnInv
  <2>2. CASE err # 0
    <3>1. Held(build, abi, Held(build, abi, -err)) = Span(build, abi) - err
      <4>1. -err \in Int /\ Held(build, abi, -err) = Span(build, abi) - err
        BY Zenon, <1>9, <2>2, HeldNegated
      <4>2. Held(build, abi, Held(build, abi, -err)) = Held(build, abi, -err)
        BY Zenon, <4>1, HeldFacts
      <4>. QED
        BY Zenon, <4>1, <4>2
    <3>. QED
      BY Zenon, <1>2, <1>4, <1>5, <1>7, <2>2, <3>1 DEF ReturnInv
  <2>. QED
    BY Zenon, <2>1, <2>2
<1>15. ModeInv'
  <2>1. build = "x86_64" => user'[R.cs] = user[R.cs]
    BY Zenon, <1>6, <1>7, HomesApart
  <2>2. ASSUME build = "aarch64", abi = ARM, NEW s \in 0 .. 17
        PROVE  user'[s] < Half
    <3>1. s \in Slots
      BY DEF Slots
    <3>2. CASE s # home
      <4>1. user[s] < Half
        BY Zenon, <1>1, <2>2 DEF ModeInv
      <4>2. user'[s] = user[s]
        BY Zenon, <1>7, <2>2, <3>1, <3>2
      <4>. QED
        BY Zenon, <4>1, <4>2
    <3>3. CASE s = home
      <4>1. \A k \in Int : Held(build, abi, k) < Half
        <5>1. \A k : Held(build, abi, k) = k % Half
          BY <2>2 DEF Held, Narrow, ARM
        <5>2. \A k \in Int : k % Half < Half
          BY HalfRemainder, HalfFacts
        <5>. QED
          BY Zenon, <5>1, <5>2
      <4>2. \E k \in Int : user'[home] = Held(build, abi, k)
        <5>1. CASE err = 0
          BY Zenon, <1>7, <5>1
        <5>2. CASE err # 0
          BY Zenon, <1>7, <1>9, <2>2, <5>2, HeldNegated
        <5>. QED
          BY Zenon, <5>1, <5>2
      <4>. QED
        BY Zenon, <3>3, <4>1, <4>2
    <3>. QED
      BY Zenon, <3>2, <3>3
  <2>. QED
    BY Zenon, <1>1, <1>2, <2>1, <2>2 DEF ModeInv
<1>16. CopyInv'
  <2>1. "stale" # "fresh" /\ "stale" # "filled"
    OBVIOUS
  <2>. QED
    BY Zenon, <1>2, <2>1 DEF CopyInv
<1>. QED
  BY Zenon, <1>11, <1>12, <1>13, <1>14, <1>15, <1>16 DEF IInv

-----------------------------------------------------------------------------
(* The writes. *)

(* AArch64: all registers but the written one are written back as they are. *)
LEMMA WriteBackFacts ==
  ASSUME IInv, build = "aarch64", sync # "stale", UNCHANGED <<build, abi>>,
         NEW slot \in 0 .. 17, NEW val \in Int, WriteBack(slot, val)
  PROVE  /\ user' = [user EXCEPT ![slot] = Held(build, abi, val)]
         /\ regset' \in [mem : [Halves -> 0 .. Half - 1], abi : Abis(build)]
         /\ regset'.abi = abi /\ Copied' /\ UNCHANGED <<scno, sync>>
<1>. DEFINE Mem == [Halves -> 0 .. Half - 1]
<1>. HIDE DEF Word, HalfSign, WordSign
<1>1. /\ TypeOK /\ abi \in Abis(build) /\ regset \in [mem : Mem, abi : Abis(build)]
      /\ user \in [Slots -> 0 .. Word - 1]
  BY UserType DEF IInv, TypeOK
<1>2. sync = "fresh" /\ Copied /\ regset.abi = abi
  <2>1. sync = "fresh"
    BY <1>1 DEF IInv, CopyInv, TypeOK
  <2>2. Copied /\ regset.abi = CopiedAbi
    BY Zenon, <2>1 DEF IInv, CopyInv
  <2>3. CopiedAbi = abi
    BY DEF CopiedAbi
  <2>. QED
    BY Zenon, <2>1, <2>2, <2>3
<1>3. regset.mem \in Mem
  BY <1>1
<1>4. \A s \in 0 .. 17 : s \in Slots /\ s \in Halves
  BY DEF Slots, Halves
<1>5. UNCHANGED <<scno, sync>>
  BY Zenon DEF WriteBack
<1>6. CASE abi = ARM
  <2>. DEFINE mem == [regset.mem EXCEPT ![slot] = val % Half]
  <2>1. regset' = [regset EXCEPT !.mem = mem] /\ SetRegset(ARM, mem)
    BY Zenon, <1>2, <1>6 DEF WriteBack
  <2>2. mem \in Mem
    BY Zenon, <1>3, <1>4, HalfRemainder
  <2>3. /\ mem[slot] = val % Half
        /\ \A s \in 0 .. 17 : s # slot => mem[s] = regset.mem[s]
    BY Zenon, <1>3, <1>4
  <2>. HIDE DEF mem
  <2>4. regset' \in [mem : Mem, abi : Abis(build)] /\ regset'.mem = mem /\ regset'.abi = ARM
    BY <1>1, <1>2, <1>6, <2>1, <2>2
  <2>5. user' = [s \in Slots |-> IF s < 18 THEN mem[s] ELSE user[s]]
    BY Zenon, <2>1 DEF SetRegset
  <2>6. \A s \in Slots : s < 18 <=> s \in 0 .. 17
    BY DEF Slots
  <2>7. \A s \in 0 .. 17 : regset.mem[s] = user[s]
    BY <1>2, <1>6 DEF Copied
  <2>8. Held(build, abi, val) = val % Half
    BY <1>6 DEF Held, Narrow, ARM
  <2>9. user' = [user EXCEPT ![slot] = Held(build, abi, val)]
    <3>1. \A s \in Slots : s # slot => (IF s < 18 THEN mem[s] ELSE user[s]) = user[s]
      BY Zenon, <2>3, <2>6, <2>7
    <3>2. slot \in Slots /\ (IF slot < 18 THEN mem[slot] ELSE user[slot]) = val % Half
      BY Zenon, <1>4, <2>3, <2>6
    <3>. QED
      BY <1>1, <2>5, <2>8, <3>1, <3>2
  <2>10. Copied'
    <3>1. \A s \in 0 .. 17 : mem[s] = user'[s]
      BY Zenon, <1>4, <2>5, <2>6
    <3>. QED
      BY <1>6, <2>4, <3>1 DEF Copied
  <2>. QED
    BY Zenon, <1>5, <1>6, <2>4, <2>9, <2>10
<1>7. CASE abi # ARM
  <2>. DEFINE x == ULong(build, val)
              mem == [regset.mem EXCEPT ![2 * slot] = val % Half,
                                        ![2 * slot + 1] = x \div Half]
  <2>0. x \in 0 .. Word - 1 /\ x % Half = val % Half
    BY Zenon, ULongFacts, SpanFacts
  <2>. HIDE DEF x
  <2>1. regset' = [regset EXCEPT !.mem = mem] /\ SetRegset(abi, mem)
    BY Zenon, <1>2, <1>7 DEF WriteBack, x
  <2>2. 2 * slot \in Halves /\ 2 * slot + 1 \in Halves /\ 2 * slot # 2 * slot + 1
    BY DEF Halves
  <2>3. val % Half \in 0 .. Half - 1 /\ x \div Half \in 0 .. Half - 1
    BY Zenon, <2>0, HalfRemainder, UpperHalf
  <2>4. /\ mem \in Mem /\ mem[2 * slot] = val % Half /\ mem[2 * slot + 1] = x \div Half
        /\ \A k \in Halves : k # 2 * slot /\ k # 2 * slot + 1 => mem[k] = regset.mem[k]
    BY <1>3, <2>2, <2>3
  <2>. HIDE DEF mem
  <2>5. regset' \in [mem : Mem, abi : Abis(build)] /\ regset'.mem = mem /\ regset'.abi = abi
    BY <1>1, <1>2, <2>1, <2>4
  <2>6. user' = [s \in Slots |-> WordAt(mem, s)]
    BY Zenon, <1>7, <2>1 DEF SetRegset
  <2>7. \A s \in Slots : WordAt(regset.mem, s) = user[s]
    BY <1>2, <1>7 DEF Copied
  <2>8. Held(build, abi, val) = x
    BY <1>7 DEF Held, Narrow, ARM, x
  <2>9. WordAt(mem, slot) = x
    BY Zenon, <2>0, <2>4, UpperHalf DEF WordAt
  <2>10. ASSUME NEW s \in Slots, s # slot
         PROVE  WordAt(mem, s) = user[s]
    <3>1. /\ 2 * s \in Halves /\ 2 * s # 2 * slot /\ 2 * s # 2 * slot + 1
          /\ 2 * s + 1 \in Halves /\ 2 * s + 1 # 2 * slot /\ 2 * s + 1 # 2 * slot + 1
      BY <2>10 DEF Halves, Slots
    <3>2. mem[2 * s] = regset.mem[2 * s] /\ mem[2 * s + 1] = regset.mem[2 * s + 1]
      BY Zenon, <2>4, <3>1
    <3>3. WordAt(mem, s) = WordAt(regset.mem, s)
      BY Zenon, <3>2 DEF WordAt
    <3>. QED
      BY Zenon, <2>7, <3>3
  <2>11. user' = [user EXCEPT ![slot] = Held(build, abi, val)]
    <3>1. slot \in Slots
      BY Zenon, <1>4
    <3>. QED
      BY <1>1, <2>6, <2>8, <2>9, <2>10, <3>1
  <2>12. Copied'
    <3>1. \A s \in Slots : WordAt(mem, s) = user'[s]
      BY Zenon, <2>6
    <3>. QED
      BY <1>7, <2>5, <3>1 DEF Copied
  <2>. QED
    BY Zenon, <1>5, <2>5, <2>11, <2>12
<1>. QED
  BY Zenon, <1>6, <1>7

(* A long is written to one register. *)
WriteSlot(slot, val) ==
  IF build = "aarch64" THEN WriteBack(slot, val) ELSE pink_write_word_user(slot, val)

LEMMA WriteSlotFacts ==
  ASSUME IInv, sync # "stale", UNCHANGED <<build, abi>>, NEW slot \in Slots,
         build = "aarch64" => slot \in 0 .. 17, NEW val \in Int, WriteSlot(slot, val)
  PROVE  /\ user' \in [Slots -> 0 .. LongSpan(build) - 1]
         /\ \A s \in Slots : s # slot => user'[s] = user[s]
         /\ Held(build, abi, user'[slot]) = Held(build, abi, val)
         /\ AsLong(build, abi, user'[slot]) = AsLong(build, abi, val)
         /\ build # "aarch64" => user'[slot] = ULong(build, val)
         /\ build = "aarch64" /\ abi = ARM => user'[slot] < Half
         /\ regset' \in [mem : [Halves -> 0 .. Half - 1], abi : Abis(build)]
         /\ sync' \in {"stale", "filled", "fresh"} /\ scno' = scno
         /\ CopyInv'
<1>. HIDE DEF Word, HalfSign, WordSign
<1>1. /\ TypeOK /\ CopyInv /\ build \in Builds /\ abi \in Abis(build)
      /\ user \in [Slots -> 0 .. LongSpan(build) - 1]
      /\ regset \in [mem : [Halves -> 0 .. Half - 1], abi : Abis(build)]
      /\ sync \in {"stale", "filled", "fresh"}
  BY Zenon DEF IInv, TypeOK
<1>2. CASE build = "aarch64"
  <2>. DEFINE w == Held(build, abi, val)
  <2>1. /\ user' = [user EXCEPT ![slot] = w]
        /\ regset' \in [mem : [Halves -> 0 .. Half - 1], abi : Abis(build)]
        /\ regset'.abi = abi /\ Copied' /\ UNCHANGED <<scno, sync>>
    BY Zenon, <1>2, WriteBackFacts DEF WriteSlot
  <2>2. w \in 0 .. LongSpan(build) - 1 /\ Held(build, abi, w) = w
    BY Zenon, HeldFacts
  <2>3. AsLong(build, abi, w) = AsLong(build, abi, val)
    <3>1. build # "powerpc64"
      BY <1>2
    <3>. QED
      BY Zenon, <1>1, <3>1, AsLongFacts
  <2>4. abi = ARM => w < Half
    <3>1. abi = ARM => w = val % Half
      BY <1>2 DEF Held, Narrow, ARM
    <3>2. val % Half < Half
      BY HalfRemainder, HalfFacts
    <3>. QED
      BY Zenon, <3>1, <3>2
  <2>5. user' \in [Slots -> 0 .. LongSpan(build) - 1] /\ user'[slot] = w
        /\ \A s \in Slots : s # slot => user'[s] = user[s]
    <3>. HIDE DEF w
    <3>. QED
      BY Zenon, <1>1, <2>1, <2>2
  <2>6. CopyInv'
    <3>1. CopiedAbi' = abi
      BY <1>2 DEF CopiedAbi
    <3>2. sync' # "filled" /\ build' # "x86_64"
      BY <1>1, <1>2, <2>1 DEF CopyInv
    <3>. QED
      BY Zenon, <2>1, <3>1, <3>2 DEF CopyInv
  <2>. QED
    BY Zenon, <1>1, <1>2, <2>1, <2>2, <2>3, <2>4, <2>5, <2>6
<1>3. CASE build # "aarch64"
  <2>. DEFINE w == ULong(build, val)
  <2>1. user' = [user EXCEPT ![slot] = w] /\ sync' = "filled" /\ UNCHANGED <<scno, regset>>
    BY Zenon, <1>3 DEF WriteSlot, pink_write_word_user
  <2>2. w \in 0 .. LongSpan(build) - 1
    BY Zenon, ULongFacts
  <2>3. Held(build, abi, w) = Held(build, abi, val)
    BY Zenon, HeldFacts
  <2>4. AsLong(build, abi, w) = AsLong(build, abi, val)
    BY Zenon, <1>1, AsLongFacts
  <2>5. user' \in [Slots -> 0 .. LongSpan(build) - 1] /\ user'[slot] = w
        /\ \A s \in Slots : s # slot => user'[s] = user[s]
    <3>. HIDE DEF w
    <3>. QED
      BY Zenon, <1>1, <2>1, <2>2
  <2>6. CopyInv'
    <3>1. "filled" # "fresh"
      OBVIOUS
    <3>. QED
      BY Zenon, <1>1, <1>3, <2>1, <3>1 DEF CopyInv
  <2>. QED
    BY Zenon, <1>1, <1>3, <2>1, <2>3, <2>4, <2>5, <2>6
<1>. QED
  BY Zenon, <1>2, <1>3

(* The invariant of what a write leaves alone. *)
LEMMA WritingFacts ==
  ASSUME IInv, Writing
  PROVE  /\ sync # "stale" /\ writes' \in 0 .. MaxWrites
         /\ UNCHANGED <<build, getregset, abi, stop>>
         /\ build \in Builds /\ abi \in Abis(build)
<1>1. TypeOK
  BY Zenon DEF IInv
<1>2. writes \in 0 .. MaxWrites /\ MaxWrites \in Nat /\ writes < MaxWrites /\ writes' = writes + 1
  BY Zenon, <1>1, RegistersAssumption DEF TypeOK, Writing
<1>3. writes' \in 0 .. MaxWrites
  BY <1>2
<1>. QED
  BY Zenon, <1>1, <1>3 DEF TypeOK, Writing

(* One register and the view of the call change. *)
LEMMA WriteTypes ==
  ASSUME IInv, Writing, NEW s \in Int, NEW r \in BOOLEAN, NEW as \in [ArgIndex -> Int],
         NEW ret \in [retval : Int, error : 0 .. NErrnos - 1],
         view' = View(s, r, as, ret),
         user' \in [Slots -> 0 .. LongSpan(build) - 1], scno' \in Nat,
         regset' \in [mem : [Halves -> 0 .. Half - 1], abi : Abis(build)],
         sync' \in {"stale", "filled", "fresh"}
  PROVE  /\ TypeOK'
         /\ view'.scno = s /\ view'.renumbered = r /\ view'.args = as /\ view'.ret = ret
<1>. HIDE DEF Word, HalfSign, WordSign
<1>1. /\ writes' \in 0 .. MaxWrites /\ UNCHANGED <<build, getregset, abi, stop>>
  BY Zenon, WritingFacts
<1>2. view'.scno = s /\ view'.renumbered = r /\ view'.args = as /\ view'.ret = ret
  BY DEF View
<1>. QED
  BY Zenon, <1>1, <1>2 DEF IInv, TypeOK

LEMMA SyscallKeeps ==
  ASSUME IInv, NEW n \in Numbers[build][abi], pink_write_syscall(n)
  PROVE  IInv'
<1>. HIDE DEF Word, HalfSign, WordSign
<1>1. TypeOK /\ NumberInv /\ ArgsInv /\ ReturnInv /\ ModeInv /\ CopyInv
  BY Zenon DEF IInv
<1>2. stop = "entry" /\ Writing /\ view' = View(n, TRUE, view.args, view.ret)
  BY Zenon DEF pink_write_syscall
<1>3. /\ sync # "stale" /\ UNCHANGED <<build, getregset, abi, stop>>
      /\ build \in Builds /\ abi \in Abis(build)
  BY Zenon, <1>2, WritingFacts
<1>4. n \in Nat /\ n \in Int /\ n \in 0 .. LongSpan(build) - 1
  <2>1. n \in Nat /\ n \in 0 .. LongSpan(build) - 1
    BY Zenon, <1>3, NumberFacts
  <2>2. n \in Int
    BY <2>1
  <2>. QED
    BY Zenon, <2>1, <2>2
<1>5. /\ view.args \in [ArgIndex -> Int] /\ view.ret \in [retval : Int, error : 0 .. NErrnos - 1]
  BY Zenon, <1>1 DEF TypeOK
<1>. DEFINE home == NumberHome(build, abi)
<1>6. /\ user' \in [Slots -> 0 .. LongSpan(build) - 1]
      /\ \A s \in Slots : s # home => user'[s] = user[s]
      /\ build = "aarch64" => user' = user /\ scno' = n % ShortSpan
      /\ build # "aarch64" => user'[home] = n /\ scno' = scno
      /\ regset' \in [mem : [Halves -> 0 .. Half - 1], abi : Abis(build)]
      /\ sync' \in {"stale", "filled", "fresh"}
      /\ CopyInv' /\ scno' \in Nat
  <2>1. CASE build = "aarch64"
    <3>1. scno' = n % ShortSpan /\ UNCHANGED <<user, regset, sync>>
      BY <2>1 DEF pink_write_syscall
    <3>2. n % ShortSpan \in Nat
      <4>1. ShortSpan \in Nat \ {0}
        BY Zenon, RegistersAssumption
      <4>2. n % ShortSpan \in 0 .. ShortSpan - 1
        BY Zenon, <1>4, <4>1, RemainderType
      <4>. QED
        BY <4>1, <4>2
    <3>3. CopyInv'
      BY Zenon, <1>1, <1>3, <3>1 DEF CopyInv, Copied, CopiedAbi
    <3>. QED
      BY Zenon, <1>1, <2>1, <3>1, <3>2, <3>3 DEF TypeOK
  <2>2. CASE build # "aarch64"
    <3>1. pink_write_word_user(home, n)
      <4>1. CASE build = "x86_64"
        BY <4>1 DEF pink_write_syscall, NumberHome
      <4>2. CASE build = "i386"
        BY <4>2 DEF pink_write_syscall, NumberHome
      <4>3. CASE build = "powerpc64"
        BY <4>3 DEF pink_write_syscall, NumberHome
      <4>. QED
        BY Zenon, <1>3, <2>2, <4>1, <4>2, <4>3 DEF Builds
    <3>2. home \in Slots
      BY Zenon, <1>3, HomesApart
    <3>. HIDE DEF home
    <3>3. WriteSlot(home, n)
      BY Zenon, <2>2, <3>1 DEF WriteSlot
    <3>4. /\ user' \in [Slots -> 0 .. LongSpan(build) - 1]
          /\ \A s \in Slots : s # home => user'[s] = user[s]
          /\ user'[home] = ULong(build, n)
          /\ regset' \in [mem : [Halves -> 0 .. Half - 1], abi : Abis(build)]
          /\ sync' \in {"stale", "filled", "fresh"} /\ scno' = scno
          /\ CopyInv'
      BY Zenon, <1>3, <1>4, <2>2, <3>2, <3>3, WriteSlotFacts
    <3>5. ULong(build, n) = n
      BY Zenon, <1>4, ULongSmall
    <3>. QED
      BY Zenon, <1>1, <2>2, <3>4, <3>5 DEF TypeOK
  <2>. QED
    BY Zenon, <2>1, <2>2
<1>7. /\ TypeOK'
      /\ view'.scno = n /\ view'.renumbered = TRUE /\ view'.args = view.args /\ view'.ret = view.ret
  BY Zenon, <1>2, <1>4, <1>5, <1>6, WriteTypes
<1>8. NumberInv'
  <2>1. build # "aarch64" => user'[home] = n + 0
    <3>. HIDE DEF home
    <3>. QED
      BY <1>4, <1>6
  <2>. QED
    BY Zenon, <1>3, <1>6, <1>7, <2>1 DEF NumberInv
<1>9. ArgsInv'
  <2>1. \A i \in ArgIndex : user'[ArgHome(build, abi)[i + 1]] = user[ArgHome(build, abi)[i + 1]]
    BY Zenon, <1>3, <1>6, HomesApart
  <2>. QED
    BY Zenon, <1>1, <1>3, <1>7, <2>1 DEF ArgsInv
<1>10. ReturnInv'
  <2>1. stop' # "exit"
    BY <1>2, <1>3
  <2>. QED
    BY Zenon, <2>1 DEF ReturnInv
<1>11. ModeInv'
  <2>1. build = "x86_64" => user'[R.cs] = user[R.cs]
    BY Zenon, <1>3, <1>6, HomesApart
  <2>. QED
    BY Zenon, <1>1, <1>3, <1>6, <2>1 DEF ModeInv
<1>. QED
  BY Zenon, <1>6, <1>7, <1>8, <1>9, <1>10, <1>11 DEF IInv

LEMMA ArgumentKeeps ==
  ASSUME IInv, NEW i \in ArgIndex, NEW val \in Values, pink_write_argument(i, val)
  PROVE  IInv'
<1>. HIDE DEF Word, HalfSign, WordSign
<1>. DEFINE home == ArgHome(build, abi)[i + 1]
            x == AsLong(build, abi, val)
            args == [view.args EXCEPT ![i] = x]
<1>1. TypeOK /\ NumberInv /\ ArgsInv /\ ReturnInv /\ ModeInv /\ CopyInv
  BY Zenon DEF IInv
<1>2. stop = "entry" /\ Writing /\ view' = View(view.scno, view.renumbered, args, view.ret)
  BY Zenon DEF pink_write_argument
<1>3. /\ sync # "stale" /\ UNCHANGED <<build, getregset, abi, stop>>
      /\ build \in Builds /\ abi \in Abis(build)
  BY Zenon, <1>2, WritingFacts
<1>4. val \in Int /\ x \in Int
  BY Zenon, <1>3, RegistersAssumption, AsLongFacts
<1>5. /\ view.args \in [ArgIndex -> Int] /\ view.ret \in [retval : Int, error : 0 .. NErrnos - 1]
      /\ view.scno \in Int /\ view.renumbered \in BOOLEAN
  BY Zenon, <1>1 DEF TypeOK
<1>6. args \in [ArgIndex -> Int] /\ args[i] = x /\ \A j \in ArgIndex : j # i => args[j] = view.args[j]
  <2>. HIDE DEF x
  <2>. QED
    BY Zenon, <1>4, <1>5
<1>. HIDE DEF args
<1>7. home \in Slots /\ (build = "aarch64" => home \in 0 .. 17)
  BY Zenon, <1>3, HomesApart
<1>8. WriteSlot(home, val)
  <2>1. CASE build = "x86_64"
    <3>1. regset.abi = I386 <=> abi = I386
      BY Zenon, <1>1, <1>3, <2>1 DEF CopyInv
    <3>. DEFINE slot == IF regset.abi = I386
                        THEN <<R.rbx, R.rcx, R.rdx, R.rsi, R.rdi, R.rbp>>[i + 1]
                        ELSE <<R.rdi, R.rsi, R.rdx, R.r10, R.r8, R.r9>>[i + 1]
    <3>2. pink_write_word_user(slot, val)
      BY <2>1 DEF pink_write_argument
    <3>3. slot = home
      <4>1. CASE abi = I386
        BY <1>3, <2>1, <3>1, <4>1, ArgHomes, SlotNumbers
      <4>2. CASE abi # I386
        BY <1>3, <2>1, <3>1, <4>2, ArgHomes, SlotNumbers
      <4>. QED
        BY Zenon, <4>1, <4>2
    <3>4. build # "aarch64"
      BY <2>1
    <3>. HIDE DEF slot, home
    <3>. QED
      BY Zenon, <3>2, <3>3, <3>4 DEF WriteSlot
  <2>2. CASE build = "i386"
    <3>. DEFINE slot == <<E.ebx, E.ecx, E.edx, E.esi, E.edi, E.ebp>>[i + 1]
    <3>1. pink_write_word_user(slot, val)
      BY <2>2 DEF pink_write_argument
    <3>2. slot = i
      BY ArgIndexCases, SixSlots, SlotNumbers
    <3>3. home = i
      BY <1>3, <2>2, ArgHomes
    <3>4. build # "aarch64"
      BY <2>2
    <3>. HIDE DEF slot, home
    <3>. QED
      BY Zenon, <3>1, <3>2, <3>3, <3>4 DEF WriteSlot
  <2>3. CASE build = "powerpc64"
    <3>. DEFINE slot == IF i = 0 THEN PPC.orig_gpr3 ELSE i + 3
    <3>1. pink_write_word_user(slot, val)
      BY <2>3 DEF pink_write_argument
    <3>2. home = slot
      BY <1>3, <2>3, ArgHomes, SlotNumbers
    <3>3. build # "aarch64"
      BY <2>3
    <3>. HIDE DEF slot, home
    <3>. QED
      BY Zenon, <3>1, <3>2, <3>3 DEF WriteSlot
  <2>4. CASE build = "aarch64"
    <3>1. WriteBack(i, val)
      BY <2>4 DEF pink_write_argument
    <3>2. home = i
      BY <1>3, <2>4, ArgHomes
    <3>. QED
      BY Zenon, <2>4, <3>1, <3>2 DEF WriteSlot
  <2>. QED
    BY Zenon, <1>3, <2>1, <2>2, <2>3, <2>4 DEF Builds
<1>. HIDE DEF home
<1>9. /\ user' \in [Slots -> 0 .. LongSpan(build) - 1]
      /\ \A s \in Slots : s # home => user'[s] = user[s]
      /\ AsLong(build, abi, user'[home]) = x
      /\ build = "aarch64" /\ abi = ARM => user'[home] < Half
      /\ regset' \in [mem : [Halves -> 0 .. Half - 1], abi : Abis(build)]
      /\ sync' \in {"stale", "filled", "fresh"} /\ scno' = scno
      /\ CopyInv'
  BY Zenon, <1>3, <1>4, <1>7, <1>8, WriteSlotFacts
<1>. HIDE DEF x
<1>10. scno' \in Nat
  BY Zenon, <1>1, <1>9 DEF TypeOK
<1>11. /\ TypeOK'
       /\ view'.scno = view.scno /\ view'.renumbered = view.renumbered
       /\ view'.args = args /\ view'.ret = view.ret
  BY Zenon, <1>2, <1>5, <1>6, <1>9, <1>10, WriteTypes
<1>12. NumberInv'
  <2>1. user'[NumberHome(build, abi)] = user[NumberHome(build, abi)]
    BY Zenon, <1>3, <1>9, HomesApart DEF home
  <2>. QED
    BY Zenon, <1>1, <1>3, <1>9, <1>11, <2>1 DEF NumberInv
<1>13. ArgsInv'
  <2>1. ASSUME NEW j \in ArgIndex
        PROVE  AsLong(build, abi, user'[ArgHome(build, abi)[j + 1]]) = args[j]
    <3>1. CASE j = i
      BY Zenon, <1>6, <1>9, <3>1 DEF home
    <3>2. CASE j # i
      <4>1. user'[ArgHome(build, abi)[j + 1]] = user[ArgHome(build, abi)[j + 1]]
        <5>1. ArgHome(build, abi)[j + 1] \in Slots
          BY Zenon, <1>3, HomesApart
        <5>2. ArgHome(build, abi)[j + 1] # home
          BY <1>3, <3>2, HomesApart DEF home
        <5>. QED
          BY Zenon, <1>9, <5>1, <5>2
      <4>2. stop # "exit"
        BY <1>2
      <4>. QED
        BY Zenon, <1>1, <1>6, <3>2, <4>1, <4>2 DEF ArgsInv
    <3>. QED
      BY Zenon, <3>1, <3>2
  <2>. QED
    BY Zenon, <1>3, <1>11, <2>1 DEF ArgsInv
<1>14. ReturnInv'
  <2>1. stop' # "exit"
    BY <1>2, <1>3
  <2>. QED
    BY Zenon, <2>1 DEF ReturnInv
<1>15. ModeInv'
  <2>1. build = "x86_64" => user'[R.cs] = user[R.cs]
    BY Zenon, <1>3, <1>9, HomesApart DEF home
  <2>2. \A s \in 0 .. 17 : s \in Slots
    BY DEF Slots
  <2>. QED
    BY Zenon, <1>1, <1>3, <1>9, <2>1, <2>2 DEF ModeInv
<1>. QED
  BY Zenon, <1>9, <1>11, <1>12, <1>13, <1>14, <1>15 DEF IInv

(* A result of PowerPC is written to its register and to the flag. *)
LEMMA PowerRetvalFacts ==
  ASSUME IInv, build = "powerpc64", NEW retval \in Int, NEW error \in 0 .. NErrnos - 1,
         pink_write_retval(retval, error)
  PROVE  /\ user' \in [Slots -> 0 .. LongSpan(build) - 1]
         /\ \A s \in Slots : s # ReturnHome(build) /\ s # PPC.ccr => user'[s] = user[s]
         /\ user'[ReturnHome(build)] = IF error # 0 THEN error ELSE ULong(build, retval)
         /\ user'[PPC.ccr] = IF error # 0 THEN 1 ELSE 0
         /\ sync' = "filled" /\ UNCHANGED <<scno, regset>>
<1>. HIDE DEF Word, HalfSign, WordSign
<1>. DEFINE x == IF error # 0 THEN error ELSE ULong(build, retval)
<1>1. /\ user' = [user EXCEPT ![3] = x, ![PPC.ccr] = Flags(@, error)]
      /\ sync' = "filled" /\ UNCHANGED <<scno, regset>>
  BY DEF pink_write_retval
<1>2. user \in [Slots -> 0 .. LongSpan(build) - 1]
  BY Zenon DEF IInv, TypeOK
<1>3. x \in 0 .. LongSpan(build) - 1
  <2>1. ULong(build, retval) \in 0 .. LongSpan(build) - 1
    BY Zenon, ULongFacts
  <2>2. error # 0 => error \in 0 .. LongSpan(build) - 1
    <3>1. error # 0 => error \in 1 .. NErrnos - 1
      BY HalfFacts
    <3>. QED
      BY Zenon, <3>1, HeldNegated
  <2>. QED
    BY Zenon, <2>1, <2>2
<1>4. \A f : Flags(f, error) = IF error # 0 THEN 1 ELSE 0
  BY Zenon DEF Flags
<1>5. 0 \in 0 .. LongSpan(build) - 1 /\ 1 \in 0 .. LongSpan(build) - 1
  <2>. HIDE DEF LongSpan, SpanSign
  <2>. QED
    BY SpanFacts, HalfFacts
<1>6. PPC.ccr = 12 /\ ReturnHome(build) = 3 /\ 3 \in Slots /\ 12 \in Slots
  BY SlotNumbers DEF ReturnHome, Slots
<1>. HIDE DEF x
<1>. DEFINE y == IF error # 0 THEN 1 ELSE 0
<1>7. y \in 0 .. LongSpan(build) - 1
  BY Zenon, <1>5
<1>8. user' = [[user EXCEPT ![3] = x] EXCEPT ![12] = y]
  <2>1. user' = [[user EXCEPT ![3] = x] EXCEPT ![12] = Flags([user EXCEPT ![3] = x][12], error)]
    BY <1>1, <1>6
  <2>. QED
    BY Zenon, <1>4, <2>1
<1>. HIDE DEF y
<1>9. user' \in [Slots -> 0 .. LongSpan(build) - 1] /\ user'[3] = x /\ user'[12] = y
  <2>. HIDE DEF LongSpan
  <2>. QED
    BY <1>2, <1>3, <1>6, <1>7, <1>8
<1>10. \A s \in Slots : s # 3 /\ s # 12 => user'[s] = user[s]
  <2>. HIDE DEF LongSpan
  <2>. QED
    BY <1>2, <1>6, <1>8
<1>. QED
  BY Zenon, <1>1, <1>6, <1>9, <1>10 DEF x, y

LEMMA RetvalKeeps ==
  ASSUME IInv, NEW retval \in Int, NEW error \in 0 .. NErrnos - 1,
         error = 0 => Returnable(retval), pink_write_retval(retval, error)
  PROVE  IInv'
<1>. HIDE DEF Word, HalfSign, WordSign
<1>. DEFINE home == ReturnHome(build)
            val == IF error # 0 THEN -error ELSE retval
            x == IF error # 0 THEN -1 ELSE AsLong(build, abi, retval)
            ret == Outcome(x, error)
<1>1. TypeOK /\ NumberInv /\ ArgsInv /\ ReturnInv /\ ModeInv /\ CopyInv
  BY Zenon DEF IInv
<1>2. stop = "exit" /\ Writing /\ view' = View(view.scno, view.renumbered, view.args, ret)
  BY Zenon DEF pink_write_retval
<1>3. /\ sync # "stale" /\ UNCHANGED <<build, getregset, abi, stop>>
      /\ build \in Builds /\ abi \in Abis(build)
  BY Zenon, <1>2, WritingFacts
<1>4. error # 0 => error \in 1 .. NErrnos - 1
  BY HalfFacts
<1>5. val \in Int /\ x \in Int
  <2>1. AsLong(build, abi, retval) \in Int
    BY Zenon, <1>3, AsLongFacts
  <2>2. -1 \in Int
    OBVIOUS
  <2>. QED
    BY Zenon, <1>4, <2>1, <2>2, HeldNegated
<1>6. ret \in [retval : Int, error : 0 .. NErrnos - 1] /\ ret.retval = x /\ ret.error = error
  <2>. HIDE DEF x
  <2>. QED
    BY <1>5 DEF Outcome
<1>7. /\ view.args \in [ArgIndex -> Int] /\ view.scno \in Int /\ view.renumbered \in BOOLEAN
  BY Zenon, <1>1 DEF TypeOK
<1>. HIDE DEF ret
(* The register. *)
<1>8. /\ user' \in [Slots -> 0 .. LongSpan(build) - 1]
      /\ \A s \in Slots : /\ s # home
                          /\ build = "powerpc64" => s # PPC.ccr
                          => user'[s] = user[s]
      /\ build # "powerpc64" =>
           /\ Held(build, abi, user'[home]) = Held(build, abi, val)
           /\ AsLong(build, abi, user'[home]) = AsLong(build, abi, val)
      /\ build = "powerpc64" =>
           /\ user'[home] = IF error # 0 THEN error ELSE ULong(build, retval)
           /\ user'[PPC.ccr] = IF error # 0 THEN 1 ELSE 0
      /\ build = "aarch64" /\ abi = ARM => user'[home] < Half
      /\ regset' \in [mem : [Halves -> 0 .. Half - 1], abi : Abis(build)]
      /\ sync' \in {"stale", "filled", "fresh"} /\ scno' = scno
      /\ CopyInv'
  <2>1. CASE build = "powerpc64"
    <3>1. /\ user' \in [Slots -> 0 .. LongSpan(build) - 1]
          /\ \A s \in Slots : s # home /\ s # PPC.ccr => user'[s] = user[s]
          /\ user'[home] = IF error # 0 THEN error ELSE ULong(build, retval)
          /\ user'[PPC.ccr] = IF error # 0 THEN 1 ELSE 0
          /\ sync' = "filled" /\ UNCHANGED <<scno, regset>>
      BY Zenon, <2>1, PowerRetvalFacts
    <3>2. build # "aarch64" /\ build # "x86_64" /\ sync' # "fresh"
      BY <2>1, <3>1
    <3>3. CopyInv'
      BY Zenon, <1>3, <3>2 DEF CopyInv
    <3>. HIDE DEF home
    <3>. QED
      BY Zenon, <1>1, <2>1, <3>1, <3>2, <3>3 DEF TypeOK
  <2>2. CASE build # "powerpc64"
    <3>1. WriteSlot(home, val)
      <4>1. CASE build = "x86_64"
        BY <4>1 DEF pink_write_retval, ReturnHome, WriteSlot
      <4>2. CASE build = "i386"
        BY <4>2 DEF pink_write_retval, ReturnHome, WriteSlot
      <4>3. CASE build = "aarch64"
        BY <4>3 DEF pink_write_retval, ReturnHome, WriteSlot
      <4>. QED
        BY Zenon, <1>3, <2>2, <4>1, <4>2, <4>3 DEF Builds
    <3>2. home \in Slots
      BY Zenon, <1>3, HomesApart
    <3>3. build = "aarch64" => home \in 0 .. 17
      BY DEF ReturnHome
    <3>. HIDE DEF home, val
    <3>. QED
      BY Zenon, <1>3, <1>5, <2>2, <3>1, <3>2, <3>3, WriteSlotFacts
  <2>. QED
    BY Zenon, <2>1, <2>2
<1>9. scno' \in Nat
  BY Zenon, <1>1, <1>8 DEF TypeOK
<1>10. /\ TypeOK'
       /\ view'.scno = view.scno /\ view'.renumbered = view.renumbered
       /\ view'.args = view.args /\ view'.ret = ret
  BY Zenon, <1>2, <1>6, <1>7, <1>8, <1>9, WriteTypes
<1>11. NumberInv'
  <2>1. user'[NumberHome(build, abi)] = user[NumberHome(build, abi)]
    BY Zenon, <1>3, <1>8, HomesApart
  <2>. QED
    BY Zenon, <1>1, <1>3, <1>8, <1>10, <2>1 DEF NumberInv
<1>12. ArgsInv'
  <2>1. \A i \in ArgIndex : (build = "aarch64" => i # 0) =>
          user'[ArgHome(build, abi)[i + 1]] = user[ArgHome(build, abi)[i + 1]]
    <3>1. \A s \in Slots : /\ s # home
                           /\ build = "powerpc64" => s # PPC.ccr
                           => user'[s] = user[s]
      BY Zenon, <1>8
    <3>. QED
      BY Zenon, <1>3, <3>1, HomesApart
  <2>. QED
    BY Zenon, <1>1, <1>2, <1>3, <1>10, <2>1 DEF ArgsInv
<1>13. ReturnInv'
  <2>1. CASE error = 0
    <3>1. Held(build, abi, retval) <= Span(build, abi) - NErrnos
      BY Zenon, <2>1 DEF Returnable, Span
    <3>2. val = retval /\ x = AsLong(build, abi, retval)
      BY Zenon, <2>1
    <3>3. build = "powerpc64" => user'[home] = ULong(build, retval)
      BY Zenon, <1>8, <2>1
    <3>4. /\ Held(build, abi, user'[home]) = Held(build, abi, retval)
          /\ AsLong(build, abi, user'[home]) = x
      <4>1. /\ Held(build, abi, ULong(build, retval)) = Held(build, abi, retval)
            /\ AsLong(build, abi, ULong(build, retval)) = AsLong(build, abi, retval)
        BY Zenon, <1>3, HeldFacts, AsLongFacts
      <4>2. build # "powerpc64" =>
              /\ Held(build, abi, user'[home]) = Held(build, abi, retval)
              /\ AsLong(build, abi, user'[home]) = AsLong(build, abi, retval)
        <5>. HIDE DEF val
        <5>. QED
          BY Zenon, <1>8, <3>2
      <4>. QED
        BY Zenon, <3>2, <3>3, <4>1, <4>2
    <3>5. build = "powerpc64" => user'[PPC.ccr] = 0
      BY Zenon, <1>8, <2>1
    <3>. HIDE DEF val, x
    <3>. QED
      BY Zenon, <1>3, <1>6, <1>10, <2>1, <3>1, <3>4, <3>5 DEF ReturnInv
  <2>2. CASE error # 0
    <3>1. x = -1 /\ val = -error
      BY Zenon, <2>2
    <3>2. Held(build, abi, -error) = Span(build, abi) - error
      BY Zenon, <1>4, <2>2, HeldNegated
    <3>3. build # "powerpc64" => Held(build, abi, user'[home]) = Span(build, abi) - error
      BY Zenon, <1>8, <3>1, <3>2
    <3>4. build = "powerpc64" => user'[PPC.ccr] = 1 /\ user'[home] = error
      BY Zenon, <1>8, <2>2
    <3>. HIDE DEF val, x
    <3>. QED
      BY Zenon, <1>3, <1>6, <1>10, <2>2, <3>1, <3>3, <3>4 DEF ReturnInv
  <2>. QED
    BY Zenon, <2>1, <2>2
<1>14. ModeInv'
  <2>1. build = "x86_64" => user'[R.cs] = user[R.cs]
    <3>1. build = "x86_64" => build # "powerpc64"
      OBVIOUS
    <3>. QED
      BY Zenon, <1>3, <1>8, <3>1, HomesApart
  <2>2. \A s \in 0 .. 17 : s \in Slots
    BY DEF Slots
  <2>3. build = "aarch64" => build # "powerpc64"
    OBVIOUS
  <2>. HIDE DEF home
  <2>. QED
    BY Zenon, <1>1, <1>3, <1>8, <2>1, <2>2, <2>3 DEF ModeInv
<1>. QED
  BY Zenon, <1>8, <1>10, <1>11, <1>12, <1>13, <1>14 DEF IInv

LEMMA NextKeeps == IInv /\ [Next]_vars => IInv'
<1>. SUFFICES ASSUME IInv, [Next]_vars PROVE IInv'
  OBVIOUS
<1>1. CASE Resume
  BY Zenon, <1>1, ResumeKeeps
<1>2. CASE pink_regset_fill
  BY Zenon, <1>2, FillKeeps
<1>3. CASE \E n \in Numbers[build][abi] : pink_write_syscall(n)
  BY Zenon, <1>3, SyscallKeeps
<1>4. CASE \E i \in ArgIndex, val \in Values : pink_write_argument(i, val)
  BY Zenon, <1>4, ArgumentKeeps
<1>5. CASE \E val \in Values : Returnable(val) /\ pink_write_retval(val, 0)
  <2>1. 0 \in 0 .. NErrnos - 1
    BY HalfFacts
  <2>2. PICK val \in Values : Returnable(val) /\ pink_write_retval(val, 0)
    BY Zenon, <1>5
  <2>3. val \in Int
    BY Zenon, RegistersAssumption
  <2>. QED
    BY <2>1, <2>2, <2>3, RetvalKeeps
<1>6. CASE \E err \in 1 .. NErrnos - 1 : pink_write_retval(-1, err)
  <2>1. PICK err \in 1 .. NErrnos - 1 : pink_write_retval(-1, err)
    BY <1>6
  <2>2. err \in 0 .. NErrnos - 1 /\ err # 0 /\ -1 \in Int
    BY HalfFacts
  <2>. QED
    BY Zenon, <2>1, <2>2, RetvalKeeps
<1>7. CASE UNCHANGED vars
  <2>1. UNCHANGED <<build, getregset, abi, stop, user, scno, regset, sync, writes, view>>
    BY Zenon, <1>7 DEF vars
  <2>2. NumberInv' /\ ArgsInv' /\ ReturnInv' /\ ModeInv'
    BY Zenon, <2>1, KernelUnchanged DEF IInv
  <2>3. TypeOK'
    BY Zenon, <2>1 DEF IInv, TypeOK
  <2>4. CopyInv'
    BY Zenon, <2>1 DEF IInv, CopyInv, Copied, CopiedAbi
  <2>. QED
    BY Zenon, <2>2, <2>3, <2>4 DEF IInv
<1>. QED
  BY Zenon, <1>1, <1>2, <1>3, <1>4, <1>5, <1>6, <1>7 DEF Next

(* The kernel's registers hold the call as it was made and as it was       *)
(* changed by pink_write_syscall, pink_write_argument and                  *)
(* pink_write_retval, and a copy filled by pink_regset_fill holds what is  *)
(* read of them, for every width, table, argument and sequence of writes.  *)
THEOREM RegistersHoldTheCall == Spec => []IInv
<1>1. Init => IInv
  BY InitIsGood
<1>2. IInv /\ [Next]_vars => IInv'
  BY NextKeeps
<1>. QED
  BY <1>1, <1>2, PTL DEF Spec

(* The registers stay within their width, through the truncation of        *)
(* pink_write_word_user, the write-back of the copy on AArch64 and the     *)
(* overlay of the union in pink_regset_fill.                               *)
THEOREM RegistersKeepTheirWidth == Spec => []TypeOK
<1>1. IInv => TypeOK
  BY Zenon DEF IInv
<1>. QED
  BY <1>1, RegistersHoldTheCall, PTL

-----------------------------------------------------------------------------
(* The reads. *)

(* The test of the x32 bit. *)
LEMMA X32Test ==
  ASSUME NEW n \in 0 .. X32Bit - 1
  PROVE  (n \div X32Bit) % 2 = 0 /\ ((n + X32Bit) \div X32Bit) % 2 = 1
<1>1. X32Bit \in Nat \ {0} /\ n \in Int /\ n + X32Bit \in Int
  BY HalfFacts
<1>2. n = X32Bit * 0 + n /\ n + X32Bit = X32Bit * 1 + n
  BY <1>1
<1>3. n \div X32Bit = 0
  BY <1>1, <1>2, Divided
<1>4. (n + X32Bit) \div X32Bit = 1
  <2>. DEFINE m == n + X32Bit
  <2>1. m \in Int /\ m = X32Bit * 1 + n
    BY <1>1, <1>2
  <2>. HIDE DEF m
  <2>2. m \div X32Bit = 1
    BY <1>1, <2>1, Divided
  <2>. QED
    BY <2>2 DEF m
<1>. QED
  BY <1>3, <1>4

(* What is in a fresh copy. *)
LEMMA FreshFacts ==
  ASSUME IInv, sync = "fresh"
  PROVE  /\ build \in Builds /\ abi \in Abis(build)
         /\ \A s \in Slots : user[s] \in Nat /\ user[s] \in 0 .. LongSpan(build) - 1
         /\ build = "x86_64" => (regset.abi = I386 <=> abi = I386)
         /\ build = "x86_64" /\ abi = I386 =>
              \A k \in I386Regs : regset.mem[k] = user[I386Slot(k)] % Half
         /\ build = "i386" => \A s \in Slots : regset.mem[s] = user[s]
         /\ build = "aarch64" => regset.abi = abi
         /\ build = "aarch64" /\ abi = ARM =>
              \A s \in 0 .. 17 : regset.mem[s] = user[s] /\ user[s] < Half
         /\ build = "x86_64" /\ abi # I386 => \A s \in Slots : WordAt(regset.mem, s) = user[s]
         /\ build = "powerpc64" => \A s \in Slots : WordAt(regset.mem, s) = user[s]
         /\ build = "aarch64" /\ abi # ARM => \A s \in Slots : WordAt(regset.mem, s) = user[s]
         /\ regset.abi = CopiedAbi
<1>1. TypeOK /\ ModeInv /\ CopyInv
  BY Zenon DEF IInv
<1>2. Copied /\ regset.abi = CopiedAbi
  BY Zenon, <1>1 DEF CopyInv
<1>3. build = "x86_64" => (regset.abi = I386 <=> abi = I386)
  <2>1. sync # "stale"
    OBVIOUS
  <2>. QED
    BY Zenon, <1>1, <2>1 DEF CopyInv
<1>4. build = "aarch64" => regset.abi = abi
  BY <1>2 DEF CopiedAbi
<1>5. /\ build = "x86_64" /\ abi = I386 =>
           \A k \in I386Regs : regset.mem[k] = user[I386Slot(k)] % Half
      /\ build = "i386" => \A s \in Slots : regset.mem[s] = user[s]
      /\ build = "aarch64" /\ abi = ARM => \A s \in 0 .. 17 : regset.mem[s] = user[s]
      /\ build = "x86_64" /\ abi # I386 => \A s \in Slots : WordAt(regset.mem, s) = user[s]
      /\ build = "powerpc64" => \A s \in Slots : WordAt(regset.mem, s) = user[s]
      /\ build = "aarch64" /\ abi # ARM => \A s \in Slots : WordAt(regset.mem, s) = user[s]
  BY <1>2 DEF Copied
<1>6. build = "aarch64" /\ abi = ARM => \A s \in 0 .. 17 : user[s] < Half
  BY Zenon, <1>1 DEF ModeInv
<1>. QED
  BY Zenon, <1>1, <1>2, <1>3, <1>4, <1>5, <1>6, UserType DEF TypeOK

(* pink_read_argument returns the register of the argument as a long. *)
LEMMA ArgumentIsRegister ==
  ASSUME IInv, sync = "fresh", NEW i \in ArgIndex
  PROVE  pink_read_argument(i) = AsLong(build, abi, user[ArgHome(build, abi)[i + 1]])
<1>. HIDE DEF Word, HalfSign, WordSign
<1>. DEFINE home == ArgHome(build, abi)[i + 1]
            e == <<E.ebx, E.ecx, E.edx, E.esi, E.edi, E.ebp>>[i + 1]
<1>1. build \in Builds /\ abi \in Abis(build)
  BY Zenon, FreshFacts
<1>2. home \in Slots /\ user[home] \in Nat
  BY Zenon, <1>1, FreshFacts, HomesApart
<1>3. e = i
  BY ArgIndexCases, SixSlots, SlotNumbers
<1>4. user[home] \in Int
  BY <1>2
<1>5. CASE build = "x86_64" /\ abi # I386
  <2>1. ReadSlots[i + 1] = home
    BY <1>1, <1>5, ArgHomes, SlotNumbers DEF ReadSlots
  <2>2. regset.abi # I386
    BY Zenon, <1>5, FreshFacts
  <2>3. pink_read_argument(i) = Long(build, WordAt(regset.mem, ReadSlots[i + 1]))
    BY Zenon, <1>5, <2>2 DEF pink_read_argument
  <2>4. WordAt(regset.mem, home) = user[home]
    <3>. HIDE DEF home
    <3>. QED
      BY Zenon, <1>2, <1>5, FreshFacts
  <2>5. AsLong(build, abi, user[home]) = Long(build, user[home])
    BY <1>5 DEF AsLong
  <2>. QED
    BY Zenon, <2>1, <2>3, <2>4, <2>5
<1>6. CASE build = "x86_64" /\ abi = I386
  <2>1. regset.abi = I386
    BY Zenon, <1>6, FreshFacts
  <2>2. pink_read_argument(i) = Int32(regset.mem[e])
    BY Zenon, <1>6, <2>1 DEF pink_read_argument
  <2>3. i \in I386Regs /\ I386Slot(i) = home
    <3>1. home = <<5, 11, 12, 13, 14, 4>>[i + 1]
      BY <1>1, <1>6, ArgHomes
    <3>. HIDE DEF home
    <3>. QED
      BY <3>1, ArgIndexCases, SixSlots, I386Facts
  <2>4. regset.mem[i] = user[home] % Half
    <3>. HIDE DEF home
    <3>. QED
      BY Zenon, <1>6, <2>3, FreshFacts
  <2>5. AsLong(build, abi, user[home]) = Int32(user[home])
    BY <1>6 DEF AsLong
  <2>6. Int32(user[home] % Half) = Int32(user[home])
    <3>. HIDE DEF home
    <3>. QED
      BY Zenon, <1>4, Int32Facts
  <2>. QED
    BY Zenon, <1>3, <2>2, <2>4, <2>5, <2>6
<1>7. CASE build = "i386"
  <2>1. home = i
    BY <1>1, <1>7, ArgHomes
  <2>2. pink_read_argument(i) = Long(build, regset.mem[e])
    BY <1>7 DEF pink_read_argument
  <2>3. regset.mem[i] = user[home]
    <3>. HIDE DEF home
    <3>. QED
      BY Zenon, <1>2, <1>7, <2>1, FreshFacts
  <2>4. AsLong(build, abi, user[home]) = Long(build, user[home])
    BY <1>7 DEF AsLong
  <2>. QED
    BY Zenon, <1>3, <2>2, <2>3, <2>4
<1>8. CASE build = "powerpc64"
  <2>1. home = IF i = 0 THEN PPC.orig_gpr3 ELSE i + 3
    BY <1>1, <1>8, ArgHomes, SlotNumbers
  <2>2. pink_read_argument(i)
          = Long(build, WordAt(regset.mem, IF i = 0 THEN PPC.orig_gpr3 ELSE i + 3))
    BY <1>8 DEF pink_read_argument
  <2>3. WordAt(regset.mem, home) = user[home]
    <3>. HIDE DEF home
    <3>. QED
      BY Zenon, <1>2, <1>8, FreshFacts
  <2>4. AsLong(build, abi, user[home]) = Long(build, user[home])
    BY <1>8 DEF AsLong
  <2>. QED
    BY Zenon, <2>1, <2>2, <2>3, <2>4
<1>9. CASE build = "aarch64"
  <2>1. home = i
    BY <1>1, <1>9, ArgHomes
  <2>2. pink_read_argument(i) = ArmArgument(i)
    BY <1>9 DEF pink_read_argument
  <2>3. regset.abi = abi
    BY Zenon, <1>9, FreshFacts
  <2>. HIDE DEF home
  <2>4. CASE abi = ARM
    <3>1. ArmArgument(i) = regset.mem[i]
      BY <2>3, <2>4 DEF ArmArgument, ARM, AARCH64
    <3>2. i \in 0 .. 17
      BY DEF ArgIndex, MaxArgs
    <3>3. regset.mem[i] = user[home] /\ user[home] < Half
      BY Zenon, <1>9, <2>1, <2>4, <3>2, FreshFacts
    <3>4. user[home] % Half = user[home]
      <4>1. user[home] \in 0 .. Half - 1
        BY <1>2, <3>3, HalfFacts
      <4>. QED
        BY Zenon, <4>1, HalfSmall
    <3>5. AsLong(build, abi, user[home]) = user[home] % Half
      BY <1>9, <2>4 DEF AsLong
    <3>. QED
      BY Zenon, <2>2, <3>1, <3>3, <3>4, <3>5 DEF home
  <2>5. CASE abi # ARM
    <3>1. abi = AARCH64
      BY Zenon, <1>1, <1>9, <2>5, AbiFacts
    <3>2. ArmArgument(i) = Long(build, WordAt(regset.mem, i))
      BY Zenon, <2>3, <3>1 DEF ArmArgument
    <3>3. WordAt(regset.mem, i) = user[home]
      BY Zenon, <1>2, <1>9, <2>1, <2>5, FreshFacts
    <3>4. AsLong(build, abi, user[home]) = Long(build, user[home])
      BY <1>9, <2>5 DEF AsLong
    <3>. QED
      BY Zenon, <2>2, <3>2, <3>3, <3>4 DEF home
  <2>. QED
    BY Zenon, <2>4, <2>5
<1>. QED
  BY Zenon, <1>1, <1>5, <1>6, <1>7, <1>8, <1>9 DEF Builds

(* A number that lies in the positive half of a long is read as it is. *)
LEMMA SmallLong ==
  ASSUME NEW b \in Builds, NEW n \in 0 .. LongSpan(b) - 1, n < SpanSign(b)
  PROVE  Long(b, n) = n /\ ULong(b, n) = n
<1>1. n \in Int
  BY SpanFacts
<1>2. ULong(b, n) = n
  BY Zenon, ULongSmall
<1>. QED
  BY Zenon, <1>1, <1>2, LongFacts

(* pink_read_syscall and pink_read_abi, before the tracer changes them. *)
LEMMA NumberIsRead ==
  ASSUME IInv, sync = "fresh", ~view.renumbered
  PROVE  /\ build # "powerpc64" => regset.abi = abi
         /\ pink_read_syscall = view.scno
<1>. DEFINE home == NumberHome(build, abi)
            n == user[home]
            x == view.scno
<1>1. build \in Builds /\ abi \in Abis(build) /\ x \in Numbers[build][abi]
  BY Zenon, FreshFacts DEF IInv, NumberInv
<1>2. home \in Slots
  BY Zenon, <1>1, HomesApart
<1>3. /\ build # "aarch64" =>
           n = x + (IF build = "x86_64" /\ abi = X32 THEN X32Bit ELSE 0)
      /\ build = "aarch64" => n = x
  BY Zenon DEF IInv, NumberInv
<1>4. /\ x \in Nat /\ x < Half /\ x \in 0 .. LongSpan(build) - 1 /\ x < SpanSign(build)
      /\ build # "aarch64" => /\ x < X32Bit
                              /\ x + X32Bit \in 0 .. LongSpan(build) - 1
                              /\ x + X32Bit < SpanSign(build)
  <2>. HIDE DEF x
  <2>. QED
    BY Zenon, <1>1, NumberFacts
<1>5. Long(build, x) = x
  <2>. HIDE DEF x
  <2>. QED
    BY Zenon, <1>1, <1>4, SmallLong
<1>6. CASE build = "x86_64" /\ abi = I386
  <2>1. regset.abi = I386
    BY Zenon, <1>6, FreshFacts
  <2>2. pink_read_syscall = regset.mem[11]
    BY <1>6, <2>1, SlotNumbers DEF pink_read_syscall
  <2>3. 11 \in I386Regs /\ I386Slot(11) = 15 /\ home = 15
    BY <1>6, I386Facts, SlotNumbers DEF NumberHome
  <2>4. regset.mem[11] = user[15] % Half
    BY Zenon, <1>6, <2>3, FreshFacts
  <2>5. n = x
    BY <1>3, <1>4, <1>6 DEF I386, X32
  <2>6. x % Half = x
    <3>. HIDE DEF x
    <3>1. x \in 0 .. Half - 1
      BY <1>4, HalfFacts
    <3>. QED
      BY Zenon, <3>1, HalfSmall
  <2>. QED
    BY Zenon, <1>6, <2>1, <2>2, <2>3, <2>4, <2>5, <2>6
<1>7. CASE build = "x86_64" /\ abi = X32
  <2>1. home = 15 /\ R.orig_rax = 15 /\ n = x + X32Bit /\ abi # I386
    BY <1>3, <1>7, SlotNumbers DEF NumberHome, I386, X32
  <2>2. WordAt(regset.mem, 15) = n
    BY Zenon, <1>2, <1>7, <2>1, FreshFacts
  <2>3. (n \div X32Bit) % 2 = 1
    <3>. HIDE DEF x
    <3>1. x \in 0 .. X32Bit - 1
      BY <1>4, <1>7, HalfFacts
    <3>. QED
      BY Zenon, <2>1, <3>1, X32Test
  <2>4. regset.abi = X32
    <3>1. regset.abi = CopiedAbi
      BY Zenon, FreshFacts
    <3>2. CopiedAbi = IF (user[15] \div X32Bit) % 2 = 1 THEN X32 ELSE X86_64
      BY <1>7, <2>1 DEF CopiedAbi
    <3>. QED
      BY Zenon, <2>1, <2>3, <3>1, <3>2
  <2>5. Long(build, n) = x + X32Bit
    <3>. DEFINE m == x + X32Bit
    <3>1. m \in 0 .. LongSpan(build) - 1 /\ m < SpanSign(build)
      BY Zenon, <1>4, <1>7
    <3>. HIDE DEF m
    <3>2. Long(build, m) = m
      BY Zenon, <1>1, <3>1, SmallLong
    <3>. QED
      BY Zenon, <2>1, <3>2 DEF m
  <2>6. pink_read_syscall = (x + X32Bit) - X32Bit
    <3>1. pink_read_syscall = Long(build, WordAt(regset.mem, 15)) - X32Bit
      BY <1>7, <2>1, <2>4 DEF pink_read_syscall, I386, X32
    <3>. QED
      BY Zenon, <2>2, <2>5, <3>1
  <2>7. (x + X32Bit) - X32Bit = x
    <3>. HIDE DEF x
    <3>. QED
      BY <1>4, HalfFacts
  <2>. QED
    BY Zenon, <1>7, <2>4, <2>6, <2>7
<1>8. CASE build = "x86_64" /\ abi = X86_64
  <2>1. home = 15 /\ R.orig_rax = 15 /\ abi # I386 /\ abi # X32
    BY <1>8, SlotNumbers DEF NumberHome, I386, X32, X86_64
  <2>2. n = x
    <3>. HIDE DEF x, n
    <3>. QED
      BY <1>3, <1>4, <1>8, <2>1
  <2>3. WordAt(regset.mem, 15) = n
    BY Zenon, <1>2, <1>8, <2>1, FreshFacts
  <2>4. (x \div X32Bit) % 2 = 0
    <3>. HIDE DEF x
    <3>1. x \in 0 .. X32Bit - 1
      BY <1>4, <1>8, HalfFacts
    <3>. QED
      BY Zenon, <3>1, X32Test
  <2>5. regset.abi = X86_64
    <3>1. regset.abi = CopiedAbi
      BY Zenon, FreshFacts
    <3>2. CopiedAbi = IF (user[15] \div X32Bit) % 2 = 1 THEN X32 ELSE X86_64
      BY <1>8, <2>1 DEF CopiedAbi
    <3>3. user[15] = x
      BY Zenon, <2>1, <2>2
    <3>4. ~((x \div X32Bit) % 2 = 1)
      <4>. DEFINE d == (x \div X32Bit) % 2
      <4>1. d = 0
        BY Zenon, <2>4
      <4>. HIDE DEF d
      <4>2. d # 1
        BY <4>1
      <4>. QED
        BY Zenon, <4>2 DEF d
    <3>. QED
      BY Zenon, <3>1, <3>2, <3>3, <3>4
  <2>6. pink_read_syscall = Long(build, WordAt(regset.mem, 15)) - 0
    BY <1>8, <2>1, <2>5 DEF pink_read_syscall
  <2>7. x - 0 = x
    <3>. HIDE DEF x
    <3>. QED
      BY <1>4
  <2>. QED
    BY Zenon, <1>5, <1>8, <2>2, <2>3, <2>5, <2>6, <2>7
<1>9. CASE build = "i386"
  <2>1. home = 11 /\ n = x
    <3>1. home = 11
      BY <1>9, SlotNumbers DEF NumberHome
    <3>. HIDE DEF x, n, home
    <3>. QED
      BY <1>3, <1>4, <1>9, <3>1
  <2>2. regset.mem[11] = x
    BY Zenon, <1>2, <1>9, <2>1, FreshFacts
  <2>3. pink_read_syscall = Long(build, regset.mem[11])
    BY <1>9, SlotNumbers DEF pink_read_syscall
  <2>4. regset.abi = abi
    <3>1. regset.abi = CopiedAbi
      BY Zenon, FreshFacts
    <3>2. CopiedAbi = 0
      BY <1>9 DEF CopiedAbi
    <3>. QED
      BY Zenon, <1>1, <1>9, <3>1, <3>2, AbiFacts
  <2>. QED
    BY Zenon, <1>5, <2>2, <2>3, <2>4
<1>10. CASE build = "powerpc64"
  <2>1. home = 0 /\ n = x
    <3>1. home = 0
      BY <1>10 DEF NumberHome
    <3>. HIDE DEF x, n, home
    <3>. QED
      BY <1>3, <1>4, <1>10, <3>1
  <2>2. WordAt(regset.mem, 0) = x
    BY Zenon, <1>2, <1>10, <2>1, FreshFacts
  <2>3. pink_read_syscall = Long(build, WordAt(regset.mem, 0))
    BY <1>10 DEF pink_read_syscall
  <2>. QED
    BY Zenon, <1>5, <1>10, <2>2, <2>3
<1>11. CASE build = "aarch64"
  <2>1. regset.abi = abi /\ n = x
    BY Zenon, <1>3, <1>11, FreshFacts
  <2>2. pink_read_syscall = ArmSyscall
    BY <1>11 DEF pink_read_syscall
  <2>3. CASE abi = ARM
    <3>1. home = 7 /\ 7 \in 0 .. 17
      BY <1>11, <2>3 DEF NumberHome
    <3>2. regset.mem[7] = n
      BY Zenon, <1>11, <2>3, <3>1, FreshFacts
    <3>3. ArmSyscall = regset.mem[7]
      BY Zenon, <2>1, <2>3 DEF ArmSyscall
    <3>. QED
      BY Zenon, <2>1, <2>2, <3>2, <3>3
  <2>4. CASE abi # ARM
    <3>1. home = 8
      BY <1>11, <2>4 DEF NumberHome
    <3>2. WordAt(regset.mem, 8) = n
      BY Zenon, <1>2, <1>11, <2>4, <3>1, FreshFacts
    <3>3. ArmSyscall = Long(build, WordAt(regset.mem, 8))
      BY Zenon, <2>1, <2>4 DEF ArmSyscall
    <3>. QED
      BY Zenon, <1>5, <2>1, <2>2, <3>2, <3>3
  <2>. QED
    BY Zenon, <2>3, <2>4
<1>. QED
  BY Zenon, <1>1, <1>6, <1>7, <1>8, <1>9, <1>10, <1>11, AbiFacts DEF Builds

(* After a fill the library reads the call that the tracee made, and each  *)
(* of its arguments as it was passed or as pink_write_argument last left   *)
(* it: in every build and ABI, for registers of every width, whichever way *)
(* the fill got them, and after any number of writes.                      *)
THEOREM TheCallIsRead == Spec => []CallIsRead
<1>1. IInv => CallIsRead
  <2>. SUFFICES ASSUME IInv, sync = "fresh"
                PROVE  /\ ~view.renumbered => /\ build # "powerpc64" => regset.abi = abi
                                              /\ pink_read_syscall = view.scno
                       /\ \A i \in ArgIndex :
                            (build = "aarch64" /\ stop = "exit" => i # 0) =>
                              pink_read_argument(i) = view.args[i]
    BY Zenon DEF CallIsRead
  <2>1. ArgsInv
    BY Zenon DEF IInv
  <2>2. ASSUME NEW i \in ArgIndex, build = "aarch64" /\ stop = "exit" => i # 0
        PROVE  pink_read_argument(i) = view.args[i]
    <3>1. AsLong(build, abi, user[ArgHome(build, abi)[i + 1]]) = view.args[i]
      BY Zenon, <2>1, <2>2 DEF ArgsInv
    <3>. QED
      BY Zenon, <3>1, ArgumentIsRegister
  <2>. QED
    BY Zenon, <2>2, NumberIsRead
<1>. QED
  BY <1>1, RegistersHoldTheCall, PTL

-----------------------------------------------------------------------------
(* The test of is_negated_errno, in 32 bits or in those of a long. *)
LEMMA NegatedTest ==
  ASSUME NEW b \in Builds, NEW a \in Abis(b), NEW val \in Nat
  PROVE  is_negated_errno(b, val, a) <=>
           IF b # "i386" /\ a # 0 THEN val % Half > Half - NErrnos
           ELSE val > LongSpan(b) - NErrnos
<1>1. Word - NErrnos = (Half - NErrnos) + Half * (Half - 1)
  <2>1. Half \in Int /\ NErrnos \in Int
    BY HalfFacts
  <2>2. Half * (Half - 1) = Half * Half - Half
    BY <2>1
  <2>. DEFINE w == Half * Half
  <2>3. w \in Int
    BY <2>1
  <2>. HIDE DEF w
  <2>4. w - NErrnos = (Half - NErrnos) + (w - Half)
    BY <2>1, <2>3
  <2>. QED
    BY <2>2, <2>4 DEF w, Word
<1>2. (Word - NErrnos) % Half = Half - NErrnos
  <2>. DEFINE d == Half - NErrnos
              k == Half - 1
  <2>1. d \in 0 .. Half - 1 /\ d \in Int /\ k \in Int /\ Half \in Nat \ {0}
    BY HalfFacts
  <2>2. Word - NErrnos = d + Half * k
    BY Zenon, <1>1
  <2>. HIDE DEF d, k
  <2>3. (d + Half * k) % Half = d % Half
    BY Zenon, <2>1, ModShift
  <2>4. d % Half = d
    BY Zenon, <2>1, HalfSmall
  <2>. QED
    BY Zenon, <2>2, <2>3, <2>4 DEF d
<1>3. LongSpan(b) = IF b = "i386" THEN Half ELSE Word
  BY DEF LongSpan
<1>4. Half < Word /\ Word \in Int /\ Half \in Int /\ NErrnos \in Int
  <2>. HIDE DEF Word, WordSign
  <2>. QED
    BY HalfFacts, WordFacts
<1>5. CASE b = "i386"
  <2>1. ~(PINK_ABIS_SUPPORTED(b) > 1)
    BY <1>5 DEF PINK_ABIS_SUPPORTED
  <2>. QED
    BY Zenon, <1>5, <2>1 DEF is_negated_errno
<1>6. CASE b # "i386"
  <2>1. PINK_ABIS_SUPPORTED(b) > 1 /\ LongSpan(b) = Word
    BY <1>3, <1>6 DEF PINK_ABIS_SUPPORTED
  <2>2. pink_abi_wordsize(b, a) = IF a = 0 THEN Word ELSE Half
    <3>1. a = 0 \/ a = 1 \/ (a = 2 /\ b = "x86_64")
      BY <1>6 DEF Builds, Abis, PINK_ABIS_SUPPORTED
    <3>. HIDE DEF Word
    <3>. QED
      BY <1>6, <3>1 DEF pink_abi_wordsize, Builds
  <2>3. pink_abi_wordsize(b, a) < LongSpan(b) <=> a # 0
    <3>. HIDE DEF Word
    <3>. QED
      BY <1>4, <2>1, <2>2
  <2>. QED
    BY Zenon, <1>2, <1>6, <2>1, <2>3 DEF is_negated_errno
<1>. QED
  BY Zenon, <1>5, <1>6

(* The value that pink_read_retval tests. *)
LEMMA ReturnIsRegister ==
  ASSUME IInv, sync = "fresh"
  PROVE  ReturnRegister =
           IF build = "powerpc64" /\ user[PPC.ccr] = 1
           THEN Long(build, -user[ReturnHome(build)])
           ELSE AsLong(build, abi, user[ReturnHome(build)])
<1>. HIDE DEF Word, HalfSign, WordSign
<1>. DEFINE home == ReturnHome(build)
            v == user[home]
<1>1. build \in Builds /\ abi \in Abis(build)
  BY Zenon, FreshFacts
<1>2. home \in Slots /\ v \in Nat
  BY Zenon, <1>1, FreshFacts, HomesApart
<1>3. v \in Int
  BY <1>2
<1>4. CASE build = "x86_64" /\ abi # I386
  <2>1. home = R.rax /\ regset.abi # I386 /\ build # "powerpc64"
    <3>1. home = R.rax /\ build # "powerpc64"
      BY <1>4 DEF ReturnHome
    <3>. QED
      BY Zenon, <1>4, <3>1, FreshFacts
  <2>2. WordAt(regset.mem, home) = v
    BY Zenon, <1>2, <1>4, FreshFacts
  <2>3. ReturnRegister = Long(build, WordAt(regset.mem, R.rax))
    BY Zenon, <1>4, <2>1 DEF ReturnRegister
  <2>4. AsLong(build, abi, v) = Long(build, v)
    BY <1>4 DEF AsLong
  <2>. QED
    BY Zenon, <2>1, <2>2, <2>3, <2>4
<1>5. CASE build = "x86_64" /\ abi = I386
  <2>1. home = 10 /\ regset.abi = I386 /\ build # "powerpc64"
    <3>1. home = 10 /\ build # "powerpc64"
      BY <1>5, SlotNumbers DEF ReturnHome
    <3>. QED
      BY Zenon, <1>5, <3>1, FreshFacts
  <2>2. 6 \in I386Regs /\ I386Slot(6) = 10
    BY I386Facts
  <2>3. regset.mem[6] = v % Half
    <3>1. regset.mem[6] = user[I386Slot(6)] % Half
      BY Zenon, <1>5, <2>2, FreshFacts
    <3>. QED
      BY Zenon, <2>1, <2>2, <3>1
  <2>4. ReturnRegister = Int32(regset.mem[6])
    <3>1. ReturnRegister = Int32(regset.mem[E.eax])
      BY Zenon, <1>5, <2>1 DEF ReturnRegister
    <3>. QED
      BY Zenon, <3>1, SlotNumbers
  <2>5. AsLong(build, abi, v) = Int32(v)
    BY <1>5 DEF AsLong
  <2>6. Int32(v % Half) = Int32(v)
    <3>. HIDE DEF v
    <3>. QED
      BY Zenon, <1>3, Int32Facts
  <2>. QED
    BY Zenon, <2>1, <2>3, <2>4, <2>5, <2>6
<1>6. CASE build = "i386"
  <2>1. home = 6 /\ E.eax = 6 /\ build # "powerpc64"
    BY <1>6, SlotNumbers DEF ReturnHome
  <2>2. regset.mem[6] = v
    BY Zenon, <1>2, <1>6, <2>1, FreshFacts
  <2>3. ReturnRegister = Long(build, regset.mem[6])
    BY <1>6, <2>1 DEF ReturnRegister
  <2>4. AsLong(build, abi, v) = Long(build, v)
    BY <1>6 DEF AsLong
  <2>. QED
    BY Zenon, <2>1, <2>2, <2>3, <2>4
<1>7. CASE build = "powerpc64"
  <2>1. home = 3 /\ PPC.ccr \in Slots
    BY <1>7, SlotNumbers DEF ReturnHome, Slots
  <2>2. WordAt(regset.mem, 3) = v /\ WordAt(regset.mem, PPC.ccr) = user[PPC.ccr]
    BY Zenon, <1>2, <1>7, <2>1, FreshFacts
  <2>3. ReturnRegister
          = Long(build, IF WordAt(regset.mem, PPC.ccr) = 1 THEN -WordAt(regset.mem, 3)
                        ELSE WordAt(regset.mem, 3))
    BY <1>7 DEF ReturnRegister
  <2>4. AsLong(build, abi, v) = Long(build, v)
    BY <1>7 DEF AsLong
  <2>. QED
    BY Zenon, <1>7, <2>2, <2>3, <2>4
<1>8. CASE build = "aarch64"
  <2>1. home = 0 /\ build # "powerpc64" /\ ReturnRegister = ArmReturn
    BY <1>8 DEF ReturnHome, ReturnRegister
  <2>2. regset.abi = abi
    BY Zenon, <1>8, FreshFacts
  <2>3. CASE abi = ARM
    <3>1. 0 \in 0 .. 17
      OBVIOUS
    <3>2. regset.mem[0] = v /\ v < Half
      BY Zenon, <1>8, <2>1, <2>3, <3>1, FreshFacts
    <3>3. v % Half = v
      <4>. HIDE DEF v
      <4>1. v \in 0 .. Half - 1
        BY <1>2, <3>2, HalfFacts
      <4>. QED
        BY Zenon, <4>1, HalfSmall
    <3>4. ArmReturn = regset.mem[0]
      BY Zenon, <2>2, <2>3 DEF ArmReturn
    <3>5. AsLong(build, abi, v) = v % Half
      BY <1>8, <2>3 DEF AsLong
    <3>. QED
      BY Zenon, <2>1, <3>2, <3>3, <3>4, <3>5
  <2>4. CASE abi # ARM
    <3>1. WordAt(regset.mem, 0) = v
      BY Zenon, <1>2, <1>8, <2>1, <2>4, FreshFacts
    <3>2. ArmReturn = Long(build, WordAt(regset.mem, 0))
      BY Zenon, <2>2, <2>4 DEF ArmReturn
    <3>3. AsLong(build, abi, v) = Long(build, v)
      BY <1>8, <2>4 DEF AsLong
    <3>. QED
      BY Zenon, <2>1, <3>1, <3>2, <3>3
  <2>. QED
    BY Zenon, <2>3, <2>4
<1>. QED
  BY Zenon, <1>1, <1>4, <1>5, <1>6, <1>7, <1>8 DEF Builds

(* An error is reported as it is: the register has it negated in as many   *)
(* bits as a long has, or, in an ARM thread, in 32.                        *)
LEMMA ErrorIsRead ==
  ASSUME NEW b \in Builds, NEW a \in Abis(b), NEW e \in 1 .. NErrnos - 1, NEW val,
         val = -e \/ (val = Half - e /\ b # "i386" /\ a # 0)
  PROVE  is_negated_errno(b, ULong(b, val), a) /\ Int32(-val) = e
<1>. HIDE DEF Word, HalfSign, WordSign
<1>1. /\ -e \in Int /\ e \in Int /\ ULong(b, -e) = LongSpan(b) - e
      /\ (-e) % Half = Half - e
  BY Zenon, HeldNegated
<1>2. /\ e \in Nat /\ e < NErrnos /\ NErrnos < HalfSign /\ NErrnos \in Int /\ Half \in Int
      /\ HalfSign \in Int /\ HalfSign < Half /\ e >= 1
  BY HalfFacts
<1>3. e \in 0 .. Half - 1 /\ Half - e \in 0 .. Half - 1 /\ Half - e > Half - NErrnos
  BY <1>2
<1>4. Int32(e) = e
  <2>1. e % Half = e
    BY Zenon, <1>3, HalfSmall
  <2>2. e < HalfSign
    BY <1>2, HalfFacts
  <2>. QED
    BY Zenon, <1>1, <2>1, <2>2, Int32Facts
<1>5. CASE val = -e
  <2>1. -val = e
    BY <1>1, <1>5
  <2>2. ULong(b, val) \in Nat /\ ULong(b, val) = LongSpan(b) - e
    BY Zenon, <1>1, <1>5, ULongFacts
  <2>3. ULong(b, val) % Half = Half - e
    BY Zenon, <1>1, <1>5, ULongFacts
  <2>4. LongSpan(b) - e > LongSpan(b) - NErrnos
    BY <1>2, SpanFacts
  <2>5. is_negated_errno(b, ULong(b, val), a)
    <3>. DEFINE u == ULong(b, val)
    <3>1. u \in Nat /\ u % Half > Half - NErrnos /\ u > LongSpan(b) - NErrnos
      BY Zenon, <1>3, <2>2, <2>3, <2>4
    <3>. HIDE DEF u
    <3>2. is_negated_errno(b, u, a)
      BY Zenon, <3>1, NegatedTest
    <3>. QED
      BY Zenon, <3>2 DEF u
  <2>. QED
    BY Zenon, <1>4, <2>1, <2>5
<1>6. CASE val = Half - e /\ b # "i386" /\ a # 0
  <2>1. val \in Int /\ -val \in Int /\ -val = e + Half * (-1)
    BY <1>2, <1>6
  <2>2. val % Half = Half - e
    BY Zenon, <1>3, <1>6, HalfSmall
  <2>3. ULong(b, val) \in Nat /\ ULong(b, val) % Half = Half - e
    BY Zenon, <2>1, <2>2, ULongFacts
  <2>4. is_negated_errno(b, ULong(b, val), a)
    <3>. DEFINE u == ULong(b, val)
    <3>1. u \in Nat /\ u % Half > Half - NErrnos
      BY Zenon, <1>3, <2>3
    <3>. HIDE DEF u
    <3>2. is_negated_errno(b, u, a)
      BY Zenon, <1>6, <3>1, NegatedTest
    <3>. QED
      BY Zenon, <3>2 DEF u
  <2>5. Int32(-val) = Int32(e)
    <3>. DEFINE m == -val
                k == -1
    <3>1. m \in Int /\ k \in Int /\ m = e + Half * k /\ Half \in Nat \ {0}
      BY <2>1, HalfFacts
    <3>. HIDE DEF m, k
    <3>2. m % Half = e % Half
      BY Zenon, <1>1, <3>1, ModShift
    <3>3. Int32(m % Half) = Int32(m) /\ Int32(e % Half) = Int32(e)
      BY Zenon, <1>1, <3>1, Int32Facts
    <3>. QED
      BY Zenon, <3>2, <3>3 DEF m
  <2>. QED
    BY Zenon, <1>4, <2>4, <2>5
<1>. QED
  BY Zenon, <1>5, <1>6

(* What the register of an error is as a long. *)
LEMMA ErrorAsLong ==
  ASSUME NEW b \in Builds, NEW a \in Abis(b), b # "powerpc64",
         NEW e \in 1 .. NErrnos - 1, NEW v \in Int, Held(b, a, v) = Span(b, a) - e
  PROVE  AsLong(b, a, v) = IF b = "aarch64" /\ a = ARM THEN Half - e ELSE -e
<1>. HIDE DEF Word, HalfSign, WordSign
<1>1. /\ e \in Nat /\ e < NErrnos /\ NErrnos < HalfSign /\ NErrnos \in Int
      /\ Half \in Int /\ HalfSign \in Int /\ Half = 2 * HalfSign
  BY HalfFacts
<1>2. CASE b = "x86_64" /\ a = I386
  <2>1. v % Half = Half - e
    BY <1>2 DEF Held, Span, Narrow, I386
  <2>2. Half - e >= HalfSign /\ (Half - e) - Half = -e
    BY <1>1
  <2>3. Int32(v) = (Half - e) - Half
    BY Zenon, <2>1, <2>2, Int32Facts
  <2>4. AsLong(b, a, v) = Int32(v) /\ b # "aarch64"
    BY <1>2 DEF AsLong
  <2>. QED
    BY Zenon, <2>2, <2>3, <2>4
<1>3. CASE b = "aarch64" /\ a = ARM
  <2>1. v % Half = Half - e
    BY <1>3 DEF Held, Span, Narrow, ARM
  <2>2. AsLong(b, a, v) = v % Half
    BY <1>3 DEF AsLong
  <2>. QED
    BY Zenon, <1>3, <2>1, <2>2
<1>4. CASE ~(b = "x86_64" /\ a = I386) /\ ~(b = "aarch64" /\ a = ARM)
  <2>1. ~Narrow(b, a)
    BY <1>4 DEF Narrow, Builds, I386, ARM
  <2>2. ULong(b, v) = LongSpan(b) - e
    BY Zenon, <2>1 DEF Held, Span
  <2>3. LongSpan(b) - e >= SpanSign(b) /\ (LongSpan(b) - e) - LongSpan(b) = -e
    <3>. DEFINE s == SpanSign(b)
                l == LongSpan(b)
    <3>1. s \in Int /\ l \in Int /\ l = 2 * s /\ s >= HalfSign
      BY SpanFacts
    <3>. HIDE DEF s, l
    <3>2. l - e >= s /\ (l - e) - l = -e
      BY <1>1, <3>1
    <3>. QED
      BY Zenon, <3>2 DEF s, l
  <2>4. Long(b, v) = (LongSpan(b) - e) - LongSpan(b)
    BY Zenon, <2>2, <2>3, LongFacts
  <2>5. AsLong(b, a, v) = Long(b, v)
    BY <1>4 DEF AsLong
  <2>. QED
    BY Zenon, <1>4, <2>3, <2>4, <2>5
<1>. QED
  BY Zenon, <1>2, <1>3, <1>4

(* A result is reported as it is, unless it is cut. *)
LEMMA ResultIsRead ==
  ASSUME IInv, sync = "fresh", NEW v \in Int, ~IsCut,
         ReturnRegister = AsLong(build, abi, v),
         Held(build, abi, v) <= Span(build, abi) - NErrnos
  PROVE  ~is_negated_errno(build, ULong(build, ReturnRegister), regset.abi)
<1>. HIDE DEF Word, HalfSign, WordSign
<1>. DEFINE l == AsLong(build, abi, v)
            u == ULong(build, l)
            h == Held(build, abi, v)
<1>1. /\ build \in Builds /\ abi \in Abis(build) /\ regset.abi \in Abis(build)
      /\ build = "x86_64" => (regset.abi = I386 <=> abi = I386)
      /\ build = "aarch64" => regset.abi = abi
  <2>1. regset \in [mem : [Halves -> 0 .. Half - 1], abi : Abis(build)]
    BY Zenon DEF IInv, TypeOK
  <2>2. regset.abi \in Abis(build)
    BY <2>1
  <2>. QED
    BY Zenon, <2>2, FreshFacts
<1>2. l \in Int
  BY Zenon, <1>1, AsLongFacts
<1>3. u \in Nat /\ u % Half = l % Half
  <2>. HIDE DEF l
  <2>. QED
    BY Zenon, <1>2, ULongFacts
<1>4. ReturnRegister = l
  OBVIOUS
(* In 32-bit threads the lower halves agree, in others the whole words. *)
<1>5. CASE (build = "x86_64" /\ abi = I386) \/ (build = "aarch64" /\ abi = ARM)
  <2>1. h = v % Half /\ Span(build, abi) = Half
    BY <1>5 DEF Held, Span, Narrow, I386, ARM
  <2>2. l % Half = v % Half
    <3>1. CASE build = "x86_64" /\ abi = I386
      <4>1. l = Int32(v)
        BY <3>1 DEF AsLong
      <4>. QED
        BY Zenon, <4>1, Int32Facts
    <3>2. CASE build = "aarch64" /\ abi = ARM
      <4>1. l = v % Half
        BY <3>2 DEF AsLong
      <4>. QED
        BY Zenon, <4>1, HalfRemainder
    <3>. QED
      BY Zenon, <1>5, <3>1, <3>2
  <2>3. build # "i386" /\ regset.abi # 0
    BY <1>1, <1>5 DEF I386, ARM
  <2>4. ~(u % Half > Half - NErrnos)
    <3>. DEFINE m == u % Half
    <3>1. m = h /\ m \in Nat /\ h <= Half - NErrnos /\ NErrnos \in Int /\ Half \in Int
      <4>1. v % Half \in Nat
        BY Zenon, HalfRemainder
      <4>2. NErrnos \in Int /\ Half \in Int
        BY HalfFacts
      <4>. QED
        BY Zenon, <1>3, <2>1, <2>2, <4>1, <4>2
    <3>. HIDE DEF m, h
    <3>2. ~(m > Half - NErrnos)
      BY <3>1
    <3>. QED
      BY Zenon, <3>2 DEF m
  <2>5. ~is_negated_errno(build, u, regset.abi)
    <3>. HIDE DEF u
    <3>. QED
      BY Zenon, <1>1, <1>3, <2>3, <2>4, NegatedTest
  <2>. QED
    BY Zenon, <1>4, <2>5
<1>6. CASE ~((build = "x86_64" /\ abi = I386) \/ (build = "aarch64" /\ abi = ARM))
  <2>1. l = Long(build, v)
    BY <1>6 DEF AsLong
  <2>2. u = ULong(build, v)
    BY Zenon, <2>1, LongFacts
  <2>3. u % Half = v % Half
    BY Zenon, <2>2, ULongFacts
  <2>4. CASE build # "i386" /\ regset.abi # 0
    <3>1. MayCut
      BY <1>1, <1>6, <2>4, AbiFacts DEF MayCut, Builds, I386, ARM, X86_64, AARCH64, X32
    <3>2. LongSpan(build) = Word
      BY Zenon, <2>4 DEF LongSpan
    <3>3. ~(u <= Word - NErrnos /\ u % Half > Half - NErrnos)
      BY Zenon, <1>4, <3>1 DEF IsCut
    <3>4. ~(u % Half > Half - NErrnos)
      <4>. DEFINE m == u % Half
      <4>1. NErrnos \in Int /\ Half \in Int /\ Word \in Int
        BY HalfFacts, WordFacts
      <4>2. CASE Narrow(build, abi)
        <5>1. m = h /\ m \in Nat /\ h <= Half - NErrnos
          <6>1. h = v % Half /\ Span(build, abi) = Half
            BY Zenon, <4>2 DEF Held, Span
          <6>2. v % Half \in Nat
            BY Zenon, HalfRemainder
          <6>. QED
            BY Zenon, <2>3, <6>1, <6>2
        <5>. HIDE DEF m, h
        <5>2. ~(m > Half - NErrnos)
          BY <4>1, <5>1
        <5>. QED
          BY Zenon, <5>2 DEF m
      <4>3. CASE ~Narrow(build, abi)
        <5>1. u = h /\ h <= Word - NErrnos
          BY Zenon, <2>2, <3>2, <4>3 DEF Held, Span
        <5>. QED
          BY Zenon, <3>3, <5>1
      <4>. QED
        BY Zenon, <4>2, <4>3
    <3>5. ~is_negated_errno(build, u, regset.abi)
      <4>. HIDE DEF u
      <4>. QED
        BY Zenon, <1>1, <1>3, <2>4, <3>4, NegatedTest
    <3>. QED
      BY Zenon, <1>4, <3>5
  <2>5. CASE ~(build # "i386" /\ regset.abi # 0)
    <3>1. ~Narrow(build, abi)
      <4>1. build = "i386" \/ build = "x86_64" \/ build = "aarch64" \/ build = "powerpc64"
        BY Zenon, <1>1 DEF Builds
      <4>2. CASE build = "powerpc64"
        <5>1. regset.abi = CopiedAbi /\ CopiedAbi = 1
          <6>1. regset.abi = CopiedAbi
            BY Zenon, FreshFacts
          <6>2. CopiedAbi = 1
            BY <4>2 DEF CopiedAbi
          <6>. QED
            BY Zenon, <6>1, <6>2
        <5>. QED
          BY <2>5, <4>2, <5>1
      <4>. QED
        BY <1>6, <4>1, <4>2 DEF Narrow, I386, ARM
    <3>2. u = h /\ h <= LongSpan(build) - NErrnos
      BY Zenon, <2>2, <3>1 DEF Held, Span
    <3>3. ~(u > LongSpan(build) - NErrnos)
      <4>. DEFINE s == LongSpan(build)
      <4>1. s \in Int /\ NErrnos \in Int
        BY SpanFacts, HalfFacts
      <4>. HIDE DEF s, u, h
      <4>2. ~(u > s - NErrnos)
        BY <1>3, <3>2, <4>1 DEF s
      <4>. QED
        BY Zenon, <4>2 DEF s
    <3>4. ~is_negated_errno(build, u, regset.abi)
      <4>. HIDE DEF u
      <4>. QED
        BY Zenon, <1>1, <1>3, <2>5, <3>3, NegatedTest
    <3>. QED
      BY Zenon, <1>4, <3>4
  <2>. QED
    BY Zenon, <2>4, <2>5
<1>. QED
  BY Zenon, <1>5, <1>6

(* After a fill at the exit the library reads the result or the error that *)
(* the kernel or the last pink_write_retval set, in every ABI, for every   *)
(* result but the ones that IsCut names.                                   *)
THEOREM TheReturnIsRead == Spec => []ReturnIsRead
<1>1. IInv => ReturnIsRead
  <2>. SUFFICES ASSUME IInv, sync = "fresh", stop = "exit", ~IsCut
                PROVE  pink_read_retval = view.ret
    BY Zenon DEF ReturnIsRead
  <2>. HIDE DEF Word, HalfSign, WordSign
  <2>. DEFINE home == ReturnHome(build)
              v == user[home]
              ret == view.ret
              e == ret.error
              val == ReturnRegister
  <2>1. /\ build \in Builds /\ abi \in Abis(build) /\ regset.abi \in Abis(build)
        /\ build = "aarch64" => regset.abi = abi
    <3>1. regset \in [mem : [Halves -> 0 .. Half - 1], abi : Abis(build)]
      BY Zenon DEF IInv, TypeOK
    <3>2. regset.abi \in Abis(build)
      BY <3>1
    <3>. QED
      BY Zenon, <3>2, FreshFacts
  <2>2. v \in Int
    <3>1. v \in Nat
      BY Zenon, <2>1, FreshFacts, HomesApart
    <3>. QED
      BY <3>1
  <2>3. ret = Outcome(ret.retval, e) /\ e \in 0 .. NErrnos - 1
    <3>1. ret \in [retval : Int, error : 0 .. NErrnos - 1]
      BY Zenon DEF IInv, TypeOK
    <3>. HIDE DEF ret
    <3>. QED
      BY <3>1 DEF Outcome
  <2>4. /\ e = 0 =>
             /\ Held(build, abi, v) <= Span(build, abi) - NErrnos
             /\ AsLong(build, abi, v) = ret.retval
        /\ e # 0 =>
             /\ ret.retval = -1
             /\ IF build = "powerpc64" THEN v = e
                ELSE Held(build, abi, v) = Span(build, abi) - e
        /\ build = "powerpc64" => user[PPC.ccr] = IF e = 0 THEN 0 ELSE 1
    BY Zenon DEF IInv, ReturnInv
  <2>5. val = IF build = "powerpc64" /\ user[PPC.ccr] = 1 THEN Long(build, -v)
              ELSE AsLong(build, abi, v)
    BY Zenon, ReturnIsRegister
  <2>6. CASE e = 0
    <3>1. val = AsLong(build, abi, v)
      <4>1. ~(build = "powerpc64" /\ user[PPC.ccr] = 1)
        <5>. HIDE DEF e
        <5>. QED
          BY <2>4, <2>6
      <4>. QED
        BY Zenon, <2>5, <4>1
    <3>2. ~is_negated_errno(build, ULong(build, ReturnRegister), regset.abi)
      <4>1. Held(build, abi, v) <= Span(build, abi) - NErrnos
        BY Zenon, <2>4, <2>6
      <4>. HIDE DEF v
      <4>. QED
        BY Zenon, <2>2, <3>1, <4>1, ResultIsRead
    <3>3. pink_read_retval = Outcome(val, 0)
      BY Zenon, <3>2 DEF pink_read_retval
    <3>. QED
      BY Zenon, <2>3, <2>4, <2>6, <3>1, <3>3
  <2>7. CASE e # 0
    <3>1. e \in 1 .. NErrnos - 1
      <4>. HIDE DEF e
      <4>. QED
        BY <2>3, <2>7, HalfFacts
    <3>2. val = -e \/ (val = Half - e /\ build # "i386" /\ regset.abi # 0)
      <4>1. CASE build = "powerpc64"
        <5>1. v = e /\ user[PPC.ccr] = 1
          BY Zenon, <2>4, <2>7, <4>1
        <5>2. val = Long(build, -e)
          BY Zenon, <2>5, <4>1, <5>1
        <5>3. Long(build, -e) = -e
          <6>. DEFINE s == SpanSign(build)
                      l == LongSpan(build)
          <6>. HIDE DEF e
          <6>1. -e \in Int /\ e \in Int /\ ULong(build, -e) = l - e
            BY Zenon, <3>1, HeldNegated
          <6>2. /\ s \in Int /\ l \in Int /\ l = 2 * s /\ s >= HalfSign
                /\ NErrnos \in Int /\ HalfSign \in Int /\ NErrnos < HalfSign
            BY SpanFacts, HalfFacts
          <6>3. l - e >= s /\ (l - e) - l = -e
            <7>. HIDE DEF s, l
            <7>. QED
              BY <3>1, <6>1, <6>2
          <6>4. ULong(build, -e) >= s => Long(build, -e) = ULong(build, -e) - l
            BY Zenon, <6>1, LongFacts
          <6>. QED
            BY Zenon, <6>1, <6>3, <6>4
        <5>. QED
          BY Zenon, <5>2, <5>3
      <4>2. CASE build # "powerpc64"
        <5>1. val = AsLong(build, abi, v) /\ Held(build, abi, v) = Span(build, abi) - e
          BY Zenon, <2>4, <2>5, <2>7, <4>2
        <5>2. AsLong(build, abi, v)
                = IF build = "aarch64" /\ abi = ARM THEN Half - e ELSE -e
          <6>. HIDE DEF v, e
          <6>. QED
            BY Zenon, <2>1, <2>2, <3>1, <4>2, <5>1, ErrorAsLong
        <5>3. build = "aarch64" /\ abi = ARM => build # "i386" /\ regset.abi # 0
          BY <2>1 DEF ARM
        <5>. QED
          BY Zenon, <5>1, <5>2, <5>3
      <4>. QED
        BY Zenon, <4>1, <4>2
    <3>3. is_negated_errno(build, ULong(build, val), regset.abi) /\ Int32(-val) = e
      <4>. DEFINE a == regset.abi
      <4>1. a \in Abis(build) /\ (val = -e \/ (val = Half - e /\ build # "i386" /\ a # 0))
        BY Zenon, <2>1, <3>2
      <4>. HIDE DEF e, val, a
      <4>2. is_negated_errno(build, ULong(build, val), a) /\ Int32(-val) = e
        BY <2>1, <3>1, <4>1, ErrorIsRead
      <4>. QED
        BY Zenon, <4>2 DEF a
    <3>4. pink_read_retval = Outcome(-1, Int32(-val))
      BY Zenon, <3>3 DEF pink_read_retval
    <3>. QED
      BY Zenon, <2>3, <2>4, <2>7, <3>3, <3>4
  <2>. QED
    BY Zenon, <2>6, <2>7
<1>. QED
  BY <1>1, RegistersHoldTheCall, PTL

-----------------------------------------------------------------------------
(* What the kernel runs is the call that the tracee made, or the one that  *)
(* pink_write_syscall last put in its place: in every ABI, but for x32 and *)
(* for the numbers of ARM that do not fit in 16 bits.                      *)
THEOREM WrittenCallRuns == Spec => []SyscallTakesEffectUnlessCut
<1>1. IInv => SyscallTakesEffectUnlessCut
  <2>. SUFFICES ASSUME IInv, stop = "entry",
                       ~(build = "x86_64" /\ abi = X32 /\ view.renumbered),
                       ~(build = "aarch64" /\ view.renumbered /\ view.scno >= ShortSpan)
                PROVE  KernelCall = <<abi, view.scno>>
    BY Zenon DEF SyscallTakesEffectUnlessCut, SyscallTakesEffect
  <2>. HIDE DEF Word, HalfSign, WordSign
  <2>. DEFINE n == user[NumberHome(build, abi)]
              x == view.scno
  <2>1. build \in Builds /\ abi \in Abis(build) /\ x \in Numbers[build][abi]
    BY Zenon DEF IInv, TypeOK, NumberInv
  <2>2. /\ build # "aarch64" =>
             n = x + (IF build = "x86_64" /\ abi = X32 /\ ~view.renumbered
                      THEN X32Bit ELSE 0)
        /\ build = "aarch64" =>
             IF view.renumbered THEN scno = x % ShortSpan ELSE scno = x
    BY Zenon DEF IInv, NumberInv
  <2>3. /\ x \in Nat /\ x < Half /\ x \in 0 .. LongSpan(build) - 1
        /\ build # "aarch64" => x < X32Bit
    <3>. HIDE DEF x
    <3>. QED
      BY Zenon, <2>1, NumberFacts
  <2>4. CASE build = "aarch64"
    <3>1. scno = x
      <4>1. CASE view.renumbered
        <5>1. ~(x >= ShortSpan) /\ scno = x % ShortSpan
          BY Zenon, <2>2, <2>4, <4>1
        <5>2. ShortSpan \in Nat \ {0}
          BY Zenon, RegistersAssumption
        <5>. HIDE DEF x
        <5>3. x \in 0 .. ShortSpan - 1
          BY <2>3, <5>1, <5>2
        <5>. QED
          BY Zenon, <5>1, <5>2, <5>3, ModSmall
      <4>. QED
        BY Zenon, <2>2, <2>4, <4>1
    <3>2. KernelCall = <<abi, scno>>
      BY <2>4 DEF KernelCall
    <3>. QED
      BY Zenon, <3>1, <3>2
  <2>5. CASE build = "x86_64" /\ abi = X32
    <3>1. n = x + X32Bit /\ x \in 0 .. X32Bit - 1
      <4>. HIDE DEF x, n
      <4>. QED
        BY <2>2, <2>3, <2>5, HalfFacts
    <3>. HIDE DEF x
    <3>2. (n \div X32Bit) % 2 = 1
      BY Zenon, <3>1, X32Test
    <3>3. (x + X32Bit) - X32Bit = x
      BY <2>3, HalfFacts
    <3>4. KernelCall = IF (n \div X32Bit) % 2 = 1 THEN <<X32, n - X32Bit>> ELSE <<X86_64, n>>
      BY <2>5 DEF KernelCall, I386, X32
    <3>. QED
      BY Zenon, <2>5, <3>1, <3>2, <3>3, <3>4 DEF x
  <2>6. CASE build # "aarch64" /\ ~(build = "x86_64" /\ abi = X32)
    <3>1. n = x
      <4>. HIDE DEF x, n
      <4>. QED
        BY <2>2, <2>3, <2>6
    <3>2. x \in 0 .. X32Bit - 1 /\ x \in 0 .. Half - 1
      <4>. HIDE DEF x
      <4>. QED
        BY <2>3, <2>6, HalfFacts
    <3>3. CASE build = "x86_64" /\ abi = X86_64
      <4>1. (x \div X32Bit) % 2 = 0
        <5>. HIDE DEF x
        <5>. QED
          BY Zenon, <3>2, X32Test
      <4>2. KernelCall = IF (n \div X32Bit) % 2 = 1 THEN <<X32, n - X32Bit>> ELSE <<X86_64, n>>
        BY <3>3 DEF KernelCall, I386, X86_64
      <4>. DEFINE d == (x \div X32Bit) % 2
      <4>3. d = 0
        BY Zenon, <4>1
      <4>4. d # 1
        <5>. HIDE DEF d
        <5>. QED
          BY <4>3
      <4>. QED
        BY Zenon, <3>1, <3>3, <4>2, <4>4
    <3>4. CASE ~(build = "x86_64" /\ abi = X86_64)
      <4>1. ~(build = "x86_64" /\ abi # I386)
        BY Zenon, <2>1, <2>6, <3>4, AbiFacts
      <4>2. KernelCall = <<abi, Held(build, abi, n)>>
        BY <2>6, <4>1 DEF KernelCall
      <4>3. Held(build, abi, x) = x
        <5>. HIDE DEF x
        <5>1. x % Half = x /\ ULong(build, x) = x
          BY Zenon, <2>3, <3>2, HalfSmall, ULongSmall
        <5>. QED
          BY Zenon, <5>1 DEF Held
      <4>. QED
        BY Zenon, <3>1, <4>2, <4>3
    <3>. QED
      BY Zenon, <3>3, <3>4
  <2>. QED
    BY Zenon, <2>4, <2>5, <2>6
<1>. QED
  BY <1>1, RegistersHoldTheCall, PTL

-----------------------------------------------------------------------------
(* The names.  The two ways of shuffle_scno undo each other. *)
LEMMA ShuffledBack ==
  ASSUME NEW n \in Nat
  PROVE  shuffle_scno(n) \in Nat /\ shuffle_scno(shuffle_scno(n)) = n
<1>1. shuffle_scno(n) \in Nat
  BY NamesAssumption DEF shuffle_scno, SecondShuffled
<1>2. CASE n < FirstShuffled
  <2>1. shuffle_scno(n) = n
    BY <1>2, NamesAssumption DEF shuffle_scno, SecondShuffled
  <2>. QED
    BY Zenon, <1>1, <2>1
<1>3. CASE n = FirstShuffled \/ n = Cmpxchg
  <2>1. shuffle_scno(FirstShuffled) = Cmpxchg
    BY NamesAssumption DEF shuffle_scno, SecondShuffled
  <2>2. shuffle_scno(Cmpxchg) = FirstShuffled
    BY NamesAssumption DEF shuffle_scno, SecondShuffled
  <2>. QED
    BY Zenon, <1>1, <1>3, <2>1, <2>2
<1>4. CASE n \in SpecialBase .. SpecialBase + LastSpecial
  BY <1>1, <1>4, NamesAssumption DEF shuffle_scno, SecondShuffled
<1>5. CASE n \in SecondShuffled .. SecondShuffled + LastSpecial
  BY <1>1, <1>5, NamesAssumption DEF shuffle_scno, SecondShuffled
<1>6. CASE /\ ~(n < FirstShuffled) /\ n # FirstShuffled /\ n # Cmpxchg
           /\ n \notin SpecialBase .. SpecialBase + LastSpecial
           /\ n \notin SecondShuffled .. SecondShuffled + LastSpecial
  <2>1. shuffle_scno(n) = n
    BY <1>6, NamesAssumption DEF shuffle_scno, SecondShuffled
  <2>. QED
    BY Zenon, <1>1, <2>1
<1>. QED
  BY Zenon, <1>2, <1>3, <1>4, <1>5, <1>6

LEMMA ShuffleBack ==
  ASSUME NEW shuffled \in BOOLEAN, NEW n \in Int
  PROVE  Shuffle(shuffled, n) \in Int /\ Shuffle(shuffled, Shuffle(shuffled, n)) = n
<1>1. CASE shuffled /\ n >= 0
  <2>. DEFINE m == shuffle_scno(n)
  <2>1. n \in Nat
    BY <1>1
  <2>2. m \in Nat /\ shuffle_scno(m) = n
    BY Zenon, <2>1, ShuffledBack
  <2>. HIDE DEF m
  <2>3. m \in Int /\ m >= 0
    BY <2>2
  <2>4. Shuffle(shuffled, n) = m
    BY Zenon, <1>1 DEF Shuffle, m
  <2>5. Shuffle(shuffled, m) = n
    BY Zenon, <1>1, <2>2, <2>3 DEF Shuffle
  <2>. QED
    BY Zenon, <2>3, <2>4, <2>5
<1>2. CASE ~(shuffled /\ n >= 0)
  BY Zenon, <1>2 DEF Shuffle
<1>. QED
  BY Zenon, <1>1, <1>2

(* The loop of the lookups finds the number of a name. *)
LEMMA EntryIsFound ==
  ASSUME NEW S, NEW table \in Seq(S), Unique(table), NEW n \in Int, Entry(table, n) # NULL
  PROVE  IndexOf(table, Entry(table, n)) = n
<1>. DEFINE name == Entry(table, n)
            found == {m \in 0 .. Len(table) - 1 : table[m + 1] = name}
<1>1. n \in 0 .. Len(table) - 1 /\ name = table[n + 1] /\ name # NULL
  BY Zenon DEF Entry
<1>2. found = {n}
  BY Zenon, <1>1 DEF Unique
<1>3. (CHOOSE m \in found : \A k \in found : m <= k) = n
  <2>1. n <= n
    OBVIOUS
  <2>. HIDE DEF found
  <2>2. \A m \in found : m = n
    BY Zenon, <1>2
  <2>3. n \in found /\ \A k \in found : n <= k
    BY Zenon, <1>2, <2>1, <2>2
  <2>. QED
    BY Zenon, <2>2, <2>3
<1>. QED
  BY Zenon, <1>1, <1>2, <1>3 DEF IndexOf

(* Every error that pink_read_retval reports has an entry in the table. *)
LEMMA ErrorsAreNumbers ==
  ASSUME NEW b \in Builds, NEW a \in Abis(b), NEW val \in Int,
         is_negated_errno(b, ULong(b, val), a)
  PROVE  Int32(-val) \in 1 .. NErrnos - 1
<1>. HIDE DEF Word, HalfSign, WordSign
<1>. DEFINE u == ULong(b, val)
            r == val % Half
<1>1. u \in Nat /\ u \in 0 .. LongSpan(b) - 1 /\ u % Half = r
  BY Zenon, ULongFacts
<1>2. r \in 0 .. Half - 1
  BY Zenon, HalfRemainder
<1>3. /\ Half \in Nat \ {0} /\ HalfSign \in Int /\ Half = 2 * HalfSign
      /\ NErrnos \in Int /\ NErrnos > 0 /\ NErrnos < HalfSign
  BY HalfFacts
<1>4. r > Half - NErrnos
  <2>1. CASE b # "i386" /\ a # 0
    <3>. HIDE DEF u
    <3>. QED
      BY Zenon, <1>1, <2>1, NegatedTest DEF u
  <2>2. CASE ~(b # "i386" /\ a # 0)
    <3>. DEFINE l == LongSpan(b)
                k == l - u
    <3>1. u > l - NErrnos
      BY Zenon, <1>1, <2>2, NegatedTest
    <3>2. l \in Int
      BY SpanFacts
    <3>3. k \in 1 .. NErrnos - 1 /\ l - k = u
      <4>. HIDE DEF u, l
      <4>. QED
        BY <1>1, <1>3, <3>1, <3>2 DEF l
    <3>4. ULong(b, -k) = u /\ -k \in Int /\ (-k) % Half = Half - k
      <4>. HIDE DEF k
      <4>. QED
        BY Zenon, <3>3, HeldNegated
    <3>5. u % Half = Half - k
      <4>. DEFINE m == -k
      <4>1. m \in Int /\ ULong(b, m) = u /\ m % Half = Half - k
        BY Zenon, <3>4
      <4>. HIDE DEF m
      <4>2. ULong(b, m) % Half = m % Half
        BY Zenon, <4>1, ULongFacts
      <4>. QED
        BY Zenon, <4>1, <4>2
    <3>. HIDE DEF u, r, k
    <3>. QED
      BY <1>1, <1>3, <3>3, <3>5
  <2>. QED
    BY Zenon, <2>1, <2>2
<1>5. (-val) % Half = Half - r
  <2>1. r # 0
    <3>. HIDE DEF r
    <3>. QED
      BY <1>2, <1>3, <1>4
  <2>. QED
    BY Zenon, <1>3, <2>1, ModNegated
<1>6. Half - r \in 1 .. NErrnos - 1 /\ Half - r < HalfSign
  <2>. HIDE DEF r
  <2>. QED
    BY <1>2, <1>3, <1>4
<1>7. Int32(-val) = Half - r
  <2>. DEFINE m == -val
  <2>1. m \in Int /\ m % Half = Half - r
    BY <1>5
  <2>. HIDE DEF m, r
  <2>2. Int32(m) = m % Half
    BY Zenon, <1>6, <2>1, Int32Facts
  <2>. QED
    BY Zenon, <2>1, <2>2 DEF m
<1>. QED
  BY Zenon, <1>6, <1>7

(* The number that is read is a long. *)
LEMMA NumberType ==
  ASSUME IInv, sync = "fresh"
  PROVE  pink_read_syscall \in Int
<1>. HIDE DEF Word, HalfSign, WordSign
<1>. DEFINE mem == regset.mem
            Reg(s) == WordAt(mem, s)
<1>1. build \in Builds
  BY Zenon, FreshFacts
<1>2. \A k \in Halves : mem[k] \in Int
  <2>1. regset \in [mem : [Halves -> 0 .. Half - 1], abi : Abis(build)]
    BY Zenon DEF IInv, TypeOK
  <2>. QED
    BY <2>1, HalfFacts
<1>3. 7 \in Halves /\ E.orig_eax \in Halves
  BY SlotNumbers DEF Halves
<1>4. \A s \in Slots : Reg(s) \in Int
  <2>. TAKE s \in Slots
  <2>1. 2 * s \in Halves /\ 2 * s + 1 \in Halves
    BY DEF Slots, Halves
  <2>2. mem[2 * s] \in Int /\ mem[2 * s + 1] \in Int
    BY Zenon, <1>2, <2>1
  <2>. HIDE DEF mem
  <2>. QED
    BY <2>2, HalfFacts DEF WordAt
<1>5. R.orig_rax \in Slots /\ 0 \in Slots /\ 8 \in Slots
  BY SlotNumbers DEF Slots
<1>6. ASSUME NEW n \in Int
      PROVE  Long(build, n) \in Int /\ Long(build, n) - X32Bit \in Int /\ Long(build, n) - 0 \in Int
  <2>1. Long(build, n) \in Int
    BY Zenon, LongFacts
  <2>. QED
    BY <2>1, HalfFacts
<1>7. CASE build = "x86_64"
  <2>1. pink_read_syscall = IF regset.abi = I386 THEN mem[E.orig_eax]
                            ELSE Long(build, Reg(R.orig_rax))
                                   - (IF regset.abi = X32 THEN X32Bit ELSE 0)
    BY <1>7 DEF pink_read_syscall
  <2>2. /\ mem[E.orig_eax] \in Int
        /\ Long(build, Reg(R.orig_rax)) - X32Bit \in Int
        /\ Long(build, Reg(R.orig_rax)) - 0 \in Int
    BY Zenon, <1>2, <1>3, <1>4, <1>5, <1>6
  <2>. HIDE DEF mem, Reg
  <2>. QED
    BY Zenon, <2>1, <2>2
<1>8. CASE build = "i386"
  <2>1. pink_read_syscall = Long(build, mem[E.orig_eax])
    BY <1>8 DEF pink_read_syscall
  <2>. QED
    BY Zenon, <1>2, <1>3, <1>6, <2>1
<1>9. CASE build = "powerpc64"
  <2>1. pink_read_syscall = Long(build, Reg(0))
    BY <1>9 DEF pink_read_syscall
  <2>. QED
    BY Zenon, <1>4, <1>5, <1>6, <2>1
<1>10. CASE build = "aarch64"
  <2>1. pink_read_syscall = ArmSyscall
    BY <1>10 DEF pink_read_syscall
  <2>2. ArmSyscall = mem[7] \/ ArmSyscall = Long(build, Reg(8))
    BY Zenon DEF ArmSyscall
  <2>. QED
    BY Zenon, <1>2, <1>3, <1>4, <1>5, <1>6, <2>1, <2>2
<1>. QED
  BY Zenon, <1>1, <1>7, <1>8, <1>9, <1>10 DEF Builds

(* The errors that are reported, those among them that are cut included,   *)
(* have names, and every name leads back to the number it was given for:   *)
(* for tables of every length, for every number that a register may hold,  *)
(* the special calls of ARM and their slots in the table included.         *)
THEOREM NamesLeadBack == Spec => []NameLeadsBack
<1>1. IInv => NameLeadsBack
  <2>. SUFFICES ASSUME IInv PROVE NameLeadsBack
    OBVIOUS
  <2>. HIDE DEF Word, HalfSign, WordSign
  <2>. DEFINE errnoent == [a \in Abis(build) |-> Errnoent]
              err == pink_read_retval.error
              errname == pink_name_errno(errnoent, err, regset.abi)
              shuffled == build = "aarch64"
              num == pink_read_syscall
              table == Sysent[build][regset.abi]
              name == pink_name_syscall(Sysent[build], shuffled, num, regset.abi)
              val == ReturnRegister
  <2>1. build \in Builds /\ regset.abi \in Abis(build) /\ abi \in Abis(build)
    <3>1. regset \in [mem : [Halves -> 0 .. Half - 1], abi : Abis(build)]
      BY Zenon DEF IInv, TypeOK
    <3>2. regset.abi \in Abis(build)
      BY <3>1
    <3>. QED
      BY Zenon, <3>2 DEF IInv, TypeOK
  <2>2. ASSUME sync = "fresh", err # 0
        PROVE  errname # NULL /\ pink_lookup_errno(errnoent, errname, regset.abi) = err
    <3>1. val \in Int
      <4>. DEFINE v == user[ReturnHome(build)]
      <4>1. v \in Nat
        BY Zenon, <2>1, <2>2, FreshFacts, HomesApart
      <4>. HIDE DEF v
      <4>2. v \in Int /\ -v \in Int
        BY <4>1
      <4>3. Long(build, -v) \in Int /\ AsLong(build, abi, v) \in Int
        BY Zenon, <2>1, <4>2, LongFacts, AsLongFacts
      <4>. QED
        BY Zenon, <2>2, <4>3, ReturnIsRegister DEF v
    <3>2. err \in 1 .. NErrnos - 1
      <4>1. CASE is_negated_errno(build, ULong(build, val), regset.abi)
        <5>1. pink_read_retval = Outcome(-1, Int32(-val))
          BY Zenon, <4>1 DEF pink_read_retval
        <5>2. Int32(-val) \in 1 .. NErrnos - 1
          <6>. HIDE DEF val
          <6>. QED
            BY <2>1, <3>1, <4>1, ErrorsAreNumbers
        <5>. HIDE DEF val
        <5>. QED
          BY <5>1, <5>2 DEF Outcome
      <4>2. CASE ~is_negated_errno(build, ULong(build, val), regset.abi)
        <5>1. pink_read_retval = Outcome(val, 0)
          BY Zenon, <4>2 DEF pink_read_retval
        <5>. HIDE DEF val
        <5>2. err = 0
          BY <5>1 DEF Outcome
        <5>. QED
          BY Zenon, <2>2, <5>2
      <4>. QED
        BY Zenon, <4>1, <4>2
    <3>. HIDE DEF err
    <3>3. regset.abi \in DOMAIN errnoent /\ errnoent[regset.abi] = Errnoent
      BY <2>1
    <3>. HIDE DEF errnoent
    <3>4. errname = Entry(Errnoent, err)
      BY Zenon, <3>3 DEF pink_name_errno
    <3>5. Entry(Errnoent, err) # NULL
      BY Zenon, <3>2, TablesAssumption
    <3>6. IndexOf(Errnoent, Entry(Errnoent, err)) = err
      <4>1. err \in Int
        BY <3>2
      <4>2. Errnoent \in Seq({NULL} \cup STRING) /\ Unique(Errnoent)
        BY Zenon, RegistersAssumption, TablesAssumption
      <4>. QED
        BY Zenon, <3>5, <4>1, <4>2, EntryIsFound
    <3>7. pink_lookup_errno(errnoent, errname, regset.abi) = IndexOf(Errnoent, errname)
      BY Zenon, <3>3 DEF pink_lookup_errno
    <3>. QED
      BY Zenon, <3>4, <3>5, <3>6, <3>7
  <2>3. ASSUME sync = "fresh", name # NULL
        PROVE  pink_lookup_syscall(Sysent[build], shuffled, name, regset.abi) = num
    <3>. DEFINE m == Shuffle(shuffled, num)
    <3>1. num \in Int /\ shuffled \in BOOLEAN
      BY Zenon, <2>3, NumberType
    <3>2. m \in Int /\ Shuffle(shuffled, m) = num
      <4>. HIDE DEF num, shuffled
      <4>. QED
        BY Zenon, <3>1, ShuffleBack
    <3>3. /\ regset.abi \in DOMAIN Sysent[build]
          /\ table \in Seq({NULL} \cup STRING) /\ Unique(table)
      BY Zenon, <2>1, CallsAssumption, TablesAssumption
    <3>4. name = Entry(table, m)
      BY Zenon, <3>3 DEF pink_name_syscall
    <3>5. IndexOf(table, Entry(table, m)) = m
      <4>1. Entry(table, m) # NULL
        BY Zenon, <2>3, <3>4
      <4>. HIDE DEF table, m
      <4>. QED
        BY Zenon, <3>2, <3>3, <4>1, EntryIsFound
    <3>6. pink_lookup_syscall(Sysent[build], shuffled, name, regset.abi)
            = Shuffle(shuffled, IndexOf(table, name))
      BY Zenon, <3>3 DEF pink_lookup_syscall
    <3>. HIDE DEF m, table, name, num
    <3>. QED
      BY Zenon, <3>2, <3>4, <3>5, <3>6
  <2>. QED
    BY Zenon, <2>2, <2>3 DEF NameLeadsBack
<1>. QED
  BY <1>1, RegistersHoldTheCall, PTL

=============================================================================
