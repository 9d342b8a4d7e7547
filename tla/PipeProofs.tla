----------------------------- MODULE PipeProofs -----------------------------
(***************************************************************************)
(* For any number of processes, any size of int that fits in PIPE_BUF and  *)
(* any capacity: the pipe of Pipe is a channel of whole integers, and its  *)
(* end of file is final.                                                   *)
(***************************************************************************)
EXTENDS Pipe, SequenceTheorems, TLAPS

Piece == [int : Ints, byte : 1 .. IntSize]

(* Where the k-th integer begins in the pipe. *)
Off(k) == (k - 1) * IntSize

(* The bytes b are those of the integers q, in order. *)
Holds(b, q) ==
  /\ Len(b) = Off(Len(q) + 1)
  /\ \A k \in 1 .. Len(q) : \A j \in 1 .. IntSize :
       b[Off(k) + j] = [int |-> q[k], byte |-> j]

-----------------------------------------------------------------------------
(* Offsets grow by one integer at a time. *)
LEMMA OffGrows ==
  /\ Off(1) = 0
  /\ \A k \in Nat \ {0} : Off(k) \in Nat /\ Off(k + 1) = Off(k) + IntSize
  /\ \A k, m \in Nat \ {0} : k <= m => Off(k) <= Off(m)
  /\ \A m \in Nat : Off(m + 1) \div IntSize = m
<1>. USE PipeAssumption
<1>1. Off(1) = 0
  BY DEF Off
<1>2. ASSUME NEW k \in Nat \ {0}
      PROVE  Off(k) \in Nat /\ Off(k + 1) = Off(k) + IntSize
  BY DEF Off
<1>3. ASSUME NEW k \in Nat \ {0}, NEW m \in Nat \ {0}, k <= m
      PROVE  Off(k) <= Off(m)
  <2>1. PICK d \in Nat : m = k + d
    BY <1>3
  <2>2. (m - 1) * IntSize = (k - 1) * IntSize + d * IntSize
    BY <2>1
  <2>3. d * IntSize \in Nat /\ (k - 1) * IntSize \in Nat
    OBVIOUS
  <2>. QED
    BY <2>2, <2>3 DEF Off
<1>4. ASSUME NEW m \in Nat
      PROVE  Off(m + 1) \div IntSize = m
  BY DEF Off
<1>. QED
  BY <1>1, <1>2, <1>3, <1>4

LEMMA BytesOfType ==
  ASSUME NEW i \in Ints
  PROVE  BytesOf(i) \in Seq(Piece) /\ Len(BytesOf(i)) = IntSize
         /\ BytesOf(i) # <<>>
<1>. USE PipeAssumption
<1>1. \A j \in 1 .. IntSize : [int |-> i, byte |-> j] \in Piece
  BY DEF Piece
<1>2. BytesOf(i) \in [1 .. IntSize -> Piece]
  BY <1>1 DEF BytesOf
<1>3. BytesOf(i) \in Seq(Piece) /\ Len(BytesOf(i)) = IntSize
  BY <1>2, LenProperties, SeqDef DEF BytesOf
<1>. QED
  BY <1>3

(* Queue is the sequence of the integers in the pipe. *)
LEMMA QueueIs ==
  ASSUME NEW q \in Seq(Ints), Holds(bytes, q)
  PROVE  Queue = q
<1>1. Len(q) \in Nat /\ IntSize \in Nat \ {0}
  BY PipeAssumption
<1>2. Len(bytes) \div IntSize = Len(q)
  BY <1>1, OffGrows DEF Holds
<1>3. ASSUME NEW k \in 1 .. Len(q)
      PROVE  bytes[(k - 1) * IntSize + 1].int = q[k]
  <2>1. 1 \in 1 .. IntSize
    BY <1>1
  <2>2. bytes[Off(k) + 1] = [int |-> q[k], byte |-> 1]
    BY <2>1 DEF Holds
  <2>. QED
    BY <2>2 DEF Off
<1>4. Queue = [k \in 1 .. Len(q) |-> q[k]]
  BY <1>2, <1>3 DEF Queue
<1>. QED
  BY <1>1, <1>4

LEMMA QueueIsNext ==
  ASSUME NEW q \in Seq(Ints), Holds(bytes', q)
  PROVE  Queue' = q
<1>1. Len(q) \in Nat /\ IntSize \in Nat \ {0}
  BY PipeAssumption
<1>2. Len(bytes') \div IntSize = Len(q)
  BY <1>1, OffGrows DEF Holds
<1>3. ASSUME NEW k \in 1 .. Len(q)
      PROVE  bytes'[(k - 1) * IntSize + 1].int = q[k]
  <2>1. 1 \in 1 .. IntSize
    BY <1>1
  <2>2. bytes'[Off(k) + 1] = [int |-> q[k], byte |-> 1]
    BY <2>1 DEF Holds
  <2>. QED
    BY <2>2 DEF Off
<1>4. Queue' = [k \in 1 .. Len(q) |-> q[k]]
  BY <1>2, <1>3 DEF Queue
<1>. QED
  BY <1>1, <1>4

(* A write of one integer appends it. *)
LEMMA HoldsAppend ==
  ASSUME NEW b \in Seq(Piece), NEW q \in Seq(Ints), Holds(b, q), NEW i \in Ints
  PROVE  Holds(b \o BytesOf(i), Append(q, i))
<1>. DEFINE c == b \o BytesOf(i)
            r == Append(q, i)
<1>0. IntSize \in Nat \ {0} /\ Len(q) \in Nat
  BY PipeAssumption
<1>1. /\ r \in Seq(Ints) /\ Len(r) = Len(q) + 1 /\ r[Len(q) + 1] = i
      /\ \A k \in 1 .. Len(q) : r[k] = q[k]
  OBVIOUS
<1>2. /\ Len(c) = Len(b) + IntSize
      /\ \A k \in 1 .. Len(b) : c[k] = b[k]
      /\ \A j \in 1 .. IntSize : c[Len(b) + j] = [int |-> i, byte |-> j]
  <2>1. BytesOf(i) \in Seq(Piece) /\ Len(BytesOf(i)) = IntSize
    BY BytesOfType
  <2>2. \A j \in 1 .. IntSize : BytesOf(i)[j] = [int |-> i, byte |-> j]
    BY DEF BytesOf
  <2>3. Len(b) \in Nat
    BY LenProperties
  <2>4. Len(c) = Len(b) + Len(BytesOf(i))
    BY ONLY <2>1, b \in Seq(Piece), ConcatProperties
  <2>5. \A k \in 1 .. Len(b) + Len(BytesOf(i)) :
          c[k] = IF k <= Len(b) THEN b[k] ELSE BytesOf(i)[k - Len(b)]
    BY ONLY <2>1, b \in Seq(Piece), ConcatProperties
  <2>. HIDE DEF c
  <2>6. ASSUME NEW j \in 1 .. IntSize
        PROVE  c[Len(b) + j] = [int |-> i, byte |-> j]
    <3>1. Len(b) + j \in 1 .. Len(b) + IntSize /\ ~(Len(b) + j <= Len(b))
          /\ (Len(b) + j) - Len(b) = j
      BY <1>0, <2>3
    <3>2. c[Len(b) + j] = BytesOf(i)[(Len(b) + j) - Len(b)]
      BY <2>1, <2>5, <3>1
    <3>. QED
      BY <2>2, <3>1, <3>2
  <2>. QED
    BY <1>0, <2>1, <2>3, <2>4, <2>5, <2>6
<1>. HIDE DEF c, r
<1>3. Len(c) = Off(Len(r) + 1)
  BY <1>0, <1>1, <1>2, OffGrows DEF Holds
<1>4. ASSUME NEW k \in 1 .. Len(r), NEW j \in 1 .. IntSize
      PROVE  c[Off(k) + j] = [int |-> r[k], byte |-> j]
  <2>1. CASE k <= Len(q)
    <3>1. k \in Nat \ {0} /\ k + 1 \in Nat \ {0} /\ Len(q) + 1 \in Nat \ {0}
          /\ k + 1 <= Len(q) + 1
      BY <1>0, <2>1
    <3>2. Off(k) \in Nat /\ Off(k) + IntSize <= Len(b)
      BY <3>1, OffGrows DEF Holds
    <3>3. Len(b) \in Nat
      OBVIOUS
    <3>4. Off(k) + j \in 1 .. Len(b)
      BY <1>0, <3>2, <3>3
    <3>5. b[Off(k) + j] = [int |-> q[k], byte |-> j]
      BY <1>0, <2>1 DEF Holds
    <3>. QED
      BY <1>0, <1>1, <1>2, <2>1, <3>4, <3>5
  <2>2. CASE k = Len(q) + 1
    BY <1>1, <1>2, <2>2 DEF Holds
  <2>. QED
    BY <1>0, <1>1, <2>1, <2>2
<1>. QED
  BY <1>3, <1>4 DEF Holds, c, r

(* A pipe that is not empty begins with a whole integer, and what is behind *)
(* it is whole too.                                                         *)
LEMMA HoldsTail ==
  ASSUME NEW b \in Seq(Piece), NEW q \in Seq(Ints), Holds(b, q), q # <<>>
  PROVE  /\ Len(b) >= IntSize
         /\ SubSeq(b, 1, IntSize) = BytesOf(Head(q))
         /\ Holds(SubSeq(b, IntSize + 1, Len(b)), Tail(q))
<1>0. IntSize \in Nat \ {0} /\ Len(q) \in Nat \ {0} /\ Len(b) \in Nat
  BY PipeAssumption, EmptySeq
<1>1. Len(b) >= IntSize
  <2>1. Off(2) = IntSize
    BY <1>0, OffGrows
  <2>2. 2 \in Nat \ {0} /\ Len(q) + 1 \in Nat \ {0} /\ 2 <= Len(q) + 1
    BY <1>0
  <2>3. Off(2) <= Off(Len(q) + 1)
    BY <2>2, OffGrows
  <2>. QED
    BY <1>0, <2>1, <2>3 DEF Holds
<1>2. SubSeq(b, 1, IntSize) = BytesOf(Head(q))
  <2>1. \A j \in 1 .. IntSize : b[j] = [int |-> Head(q), byte |-> j]
    <3>. TAKE j \in 1 .. IntSize
    <3>1. b[Off(1) + j] = [int |-> q[1], byte |-> j]
      BY <1>0 DEF Holds
    <3>2. Off(1) + j = j
      BY OffGrows
    <3>. QED
      BY <1>0, <3>1, <3>2
  <2>2. SubSeq(b, 1, IntSize) = [j \in 1 .. IntSize |-> b[j]]
    BY <1>0, <1>1
  <2>. QED
    BY <2>1, <2>2 DEF BytesOf
<1>3. Holds(SubSeq(b, IntSize + 1, Len(b)), Tail(q))
  <2>. DEFINE c == SubSeq(b, IntSize + 1, Len(b))
              r == Tail(q)
  <2>1. r \in Seq(Ints) /\ Len(r) = Len(q) - 1
        /\ \A k \in 1 .. Len(r) : r[k] = q[k + 1]
    BY <1>0
  <2>2. Len(c) = Len(b) - IntSize
        /\ \A k \in 1 .. Len(b) - IntSize : c[k] = b[IntSize + k]
    BY <1>0, <1>1
  <2>. HIDE DEF c, r
  <2>3. Len(c) = Off(Len(r) + 1)
    <3>1. Len(r) + 1 = Len(q) /\ Len(b) = Off(Len(q) + 1)
      BY <1>0, <2>1 DEF Holds
    <3>2. Off(Len(q)) \in Nat /\ Off(Len(q) + 1) = Off(Len(q)) + IntSize
      BY <1>0, OffGrows
    <3>3. Off(Len(r) + 1) = Off(Len(q))
      BY <3>1, Zenon
    <3>. QED
      BY <1>0, <2>2, <3>1, <3>2, <3>3
  <2>4. ASSUME NEW k \in 1 .. Len(r), NEW j \in 1 .. IntSize
        PROVE  c[Off(k) + j] = [int |-> r[k], byte |-> j]
    <3>1. k \in Nat \ {0} /\ k + 1 \in 1 .. Len(q) /\ k + 1 \in Nat \ {0}
          /\ k + 2 \in Nat \ {0} /\ Len(q) + 1 \in Nat \ {0}
          /\ k + 2 <= Len(q) + 1 /\ k + 2 = (k + 1) + 1
      BY <1>0, <2>1
    <3>2. Off(k) \in Nat /\ Off(k + 1) = Off(k) + IntSize
          /\ Off(k + 2) = Off(k + 1) + IntSize /\ Off(k + 2) <= Len(b)
      <4>1. Off(k) \in Nat /\ Off(k + 1) = Off(k) + IntSize
        BY <3>1, OffGrows
      <4>2. Off((k + 1) + 1) = Off(k + 1) + IntSize
        BY <3>1, OffGrows
      <4>3. Off(k + 2) = Off((k + 1) + 1)
        BY <3>1, Zenon
      <4>4. Off(k + 2) <= Off(Len(q) + 1)
        BY <3>1, OffGrows
      <4>. QED
        BY <1>0, <4>1, <4>2, <4>3, <4>4 DEF Holds
    <3>3. Off(k) + j \in 1 .. Len(b) - IntSize
          /\ IntSize + (Off(k) + j) = Off(k + 1) + j
      <4>1. Off(k) + IntSize + IntSize <= Len(b)
        BY <3>2
      <4>2. /\ Off(k) + j \in 1 .. Len(b) - IntSize
            /\ IntSize + (Off(k) + j) = (Off(k) + IntSize) + j
        <5>. DEFINE o == Off(k)
                    l == Len(b)
        <5>1. o \in Nat /\ l \in Nat /\ o + IntSize + IntSize <= l
          BY <1>0, <3>2, <4>1
        <5>. HIDE DEF o, l
        <5>2. o + j \in 1 .. l - IntSize /\ IntSize + (o + j) = (o + IntSize) + j
          BY <1>0, <5>1
        <5>. QED
          BY <5>2 DEF o, l
      <4>. QED
        BY <3>2, <4>2
    <3>4. b[Off(k + 1) + j] = [int |-> q[k + 1], byte |-> j]
      BY <3>1 DEF Holds
    <3>. QED
      BY <2>1, <2>2, <3>3, <3>4
  <2>. QED
    BY <2>3, <2>4 DEF Holds, c, r
<1>. QED
  BY <1>1, <1>2, <1>3

LEMMA HoldsEmpty ==
  /\ Holds(<<>>, <<>>)
  /\ \A b \in Seq(Piece) : Holds(b, <<>>) => b = <<>>
BY OffGrows, EmptySeq DEF Holds

-----------------------------------------------------------------------------
(* The inductive invariant.  A process in atomic_write holds the write end  *)
(* and the bytes of one integer, all of them, since a write that is not     *)
(* larger than PIPE_BUF is not cut; so the pipe holds whole integers, and a *)
(* process in atomic_read never has part of one.  A reader that was told of *)
(* the end of the file leaves nobody who could write.                       *)
Results == {"0", "fcntl", "pipe", "EINTR", "EPIPE", "EINVAL"}

Whole == \E q \in Seq(Ints) : Holds(bytes, q)

CallsInv ==
  \A p \in Procs :
    /\ pc[p] = "write" => "w" \in fds[p] /\ \E i \in Ints : buf[p] = BytesOf(i)
    /\ pc[p] # "write" => buf[p] = <<>>

BornInv ==
  \A p \in Procs \ born : fds[p] = {} /\ res[p] = "0" /\ pc[p] = "idle"

IInv ==
  /\ TypeOK
  /\ bytes \in Seq(Piece) /\ buf \in [Procs -> Seq(Piece)]
  /\ res \in [Procs -> Results]
  /\ Whole /\ CallsInv /\ BornInv /\ EofIsFinal

LEMMA InitEstablishes == Init => IInv
<1>. SUFFICES ASSUME Init
              PROVE  IInv
  OBVIOUS
<1>. USE PipeAssumption DEF Init
<1>1. TypeOK
  BY DEF TypeOK, Ends
<1>2. <<>> \in Seq(Piece) /\ <<>> \in Seq(Ints)
  OBVIOUS
<1>3. Whole
  BY <1>2, HoldsEmpty DEF Whole
<1>4. CallsInv /\ BornInv /\ EofIsFinal
  BY DEF CallsInv, BornInv, EofIsFinal
<1>5. bytes \in Seq(Piece) /\ buf \in [Procs -> Seq(Piece)]
      /\ res \in [Procs -> Results]
  BY <1>2 DEF Results
<1>. QED
  BY <1>1, <1>3, <1>4, <1>5 DEF IInv

-----------------------------------------------------------------------------
(* One iteration of atomic_write is the whole call: it puts one integer     *)
(* into the pipe, or nothing.                                               *)
LEMMA WriteStep ==
  ASSUME IInv, NEW p \in Procs, atomic_write(p)
  PROVE  \/ /\ \E i \in Ints, q \in Seq(Ints) :
                 Holds(bytes, q) /\ Holds(bytes', Append(q, i))
            /\ bytes' \in Seq(Piece) /\ Len(bytes') <= Capacity
            /\ Return(p, "0")
         \/ UNCHANGED bytes /\ \E r \in {"EINTR", "EPIPE"} : Return(p, r)
<1>. USE PipeAssumption
<1>1. PICK i \in Ints : buf[p] = BytesOf(i)
  BY DEF IInv, CallsInv, atomic_write
<1>2. Len(buf[p]) = IntSize /\ buf[p] \in Seq(Piece)
  BY <1>1, BytesOfType
<1>3. WriteTakes(WriteCount(p)) = {IntSize}
  BY <1>2 DEF WriteTakes, WriteCount
<1>4. CASE \E n \in WriteTakes(WriteCount(p)) :
             /\ Open("r") /\ Len(bytes) + n <= Capacity
             /\ bytes' = bytes \o SubSeq(buf[p], 1, n)
             /\ IF n = Len(buf[p]) THEN Return(p, "0")
                ELSE /\ buf' = [buf EXCEPT ![p] = SubSeq(@, n + 1, Len(@))]
                     /\ UNCHANGED <<pc, res>>
  <2>1. /\ Len(bytes) + IntSize <= Capacity
        /\ bytes' = bytes \o SubSeq(buf[p], 1, IntSize)
        /\ Return(p, "0")
    BY <1>2, <1>3, <1>4
  <2>2. SubSeq(buf[p], 1, IntSize) = BytesOf(i)
    BY <1>1, <1>2
  <2>3. PICK q \in Seq(Ints) : Holds(bytes, q)
    BY DEF IInv, Whole
  <2>4. bytes \in Seq(Piece)
    BY DEF IInv
  <2>5. Holds(bytes', Append(q, i))
    BY <2>1, <2>2, <2>3, <2>4, HoldsAppend
  <2>6. bytes' \in Seq(Piece) /\ Len(bytes') = Len(bytes) + IntSize
    BY <1>1, <1>2, <2>1, <2>2, <2>4, ConcatProperties
  <2>. QED
    BY <2>1, <2>3, <2>5, <2>6
<1>5. CASE /\ UNCHANGED bytes
           /\ Return(p, "EINTR") \/ Return(p, "EPIPE")
  BY <1>5
<1>. QED
  BY <1>4, <1>5 DEF atomic_write

(* One iteration of atomic_read is the whole call: it takes the integer at  *)
(* the head of the pipe, or nothing, and sees the end of the file only when *)
(* the pipe is empty and nobody can write.                                  *)
LEMMA ReadStep ==
  ASSUME IInv, NEW p \in Procs, atomic_read(p)
  PROVE  \/ /\ \E q \in Seq(Ints) :
                 /\ q # <<>> /\ Holds(bytes, q) /\ Holds(bytes', Tail(q))
                 /\ received' = Append(received, Head(q))
            /\ bytes' \in Seq(Piece) /\ Len(bytes') <= Capacity
            /\ bytes # <<>>
            /\ Return(p, "0")
         \/ /\ UNCHANGED <<bytes, received>>
            /\ \/ Return(p, "EINTR")
               \/ Return(p, "EINVAL") /\ bytes = <<>> /\ ~Open("w")
<1>. USE PipeAssumption
<1>0. buf[p] = <<>>
  BY DEF IInv, CallsInv, atomic_read
<1>1. buf[p] = <<>> /\ ReadCount(p) = IntSize
  <2>1. Len(buf[p]) = 0
    BY <1>0
  <2>. QED
    BY <1>0, <2>1 DEF ReadCount
<1>2. PICK q \in Seq(Ints) : Holds(bytes, q)
  BY DEF IInv, Whole
<1>3. bytes \in Seq(Piece) /\ Len(bytes) <= Capacity
  BY DEF IInv, TypeOK
<1>. DEFINE Got(n) == buf[p] \o SubSeq(bytes, 1, n)
            Given(n) ==
              /\ bytes' = SubSeq(bytes, n + 1, Len(bytes))
              /\ IF n = 0 THEN EndOfFile(p) /\ UNCHANGED received
                 ELSE IF n = ReadCount(p)
                 THEN Return(p, "0") /\ received' = Append(received, IntOf(Got(n)))
                 ELSE /\ buf' = [buf EXCEPT ![p] = Got(n)]
                      /\ UNCHANGED <<pc, res, received>>
<1>4. \/ \E n \in ReadGives(ReadCount(p)) : Given(n)
      \/ /\ bytes = <<>> /\ Open("w")
         /\ Return(p, ShortCount("EINTR"))
         /\ UNCHANGED <<bytes, received>>
  BY DEF atomic_read
<1>5. CASE bytes # <<>>
  <2>1. q # <<>>
    BY <1>2, <1>3, <1>5, HoldsEmpty
  <2>2. /\ Len(bytes) >= IntSize
        /\ SubSeq(bytes, 1, IntSize) = BytesOf(Head(q))
        /\ Holds(SubSeq(bytes, IntSize + 1, Len(bytes)), Tail(q))
    BY <1>2, <1>3, <2>1, HoldsTail
  <2>3. ReadGives(ReadCount(p)) = {IntSize}
    <3>1. Len(bytes) \in Nat
      BY <1>3, LenProperties
    <3>. QED
      BY <1>1, <1>5, <2>2, <3>1 DEF ReadGives
  <2>4. /\ bytes' = SubSeq(bytes, IntSize + 1, Len(bytes))
        /\ Return(p, "0")
        /\ received' = Append(received, IntOf(Got(IntSize)))
    BY <1>1, <1>4, <1>5, <2>3
  <2>5. Head(q) \in Ints
    BY <2>1, HeadTailProperties
  <2>6. IntOf(Got(IntSize)) = Head(q)
    <3>1. BytesOf(Head(q)) \in Seq(Piece)
      BY <2>5, BytesOfType
    <3>2. Got(IntSize) = BytesOf(Head(q))
      BY <1>1, <2>2, <3>1, ConcatEmptySeq
    <3>3. BytesOf(Head(q))[1].int = Head(q)
      BY DEF BytesOf
    <3>. QED
      BY <3>2, <3>3 DEF IntOf
  <2>7. bytes' \in Seq(Piece) /\ Len(bytes') <= Capacity
    <3>1. Len(bytes) \in Nat
      BY <1>3, LenProperties
    <3>. QED
      BY <1>3, <2>2, <2>4, <3>1
  <2>. QED
    BY <1>2, <1>5, <2>1, <2>2, <2>4, <2>6, <2>7
<1>6. CASE bytes = <<>>
  <2>1. CASE Open("w")
    <3>1. ReadGives(ReadCount(p)) = {}
      BY <1>6, <2>1 DEF ReadGives
    <3>. QED
      BY <1>4, <3>1 DEF ShortCount
  <2>2. CASE ~Open("w")
    <3>1. ReadGives(ReadCount(p)) = {0}
      BY <1>6, <2>2 DEF ReadGives
    <3>2. Given(0)
      BY <1>4, <2>2, <3>1
    <3>3. bytes' = <<>>
      BY <1>6, <3>2
    <3>. QED
      BY <1>6, <2>2, <3>2, <3>3 DEF EndOfFile, ShortCount
  <2>. QED
    BY <2>1, <2>2
<1>. QED
  BY <1>5, <1>6

-----------------------------------------------------------------------------
(* A call of p that returns r. *)
LEMMA ReturnTypes ==
  ASSUME IInv, NEW p \in Procs, NEW r \in Results, Return(p, r)
  PROVE  /\ pc' \in [Procs -> {"idle", "read", "write"}]
         /\ buf' \in [Procs -> Seq(Piece)] /\ res' \in [Procs -> Results]
         /\ pc'[p] = "idle" /\ buf'[p] = <<>> /\ res'[p] = r
         /\ \A o \in Procs \ {p} :
              pc'[o] = pc[o] /\ buf'[o] = buf[o] /\ res'[o] = res[o]
BY DEF IInv, TypeOK, Return

LEMMA ReturnKeeps ==
  ASSUME IInv, NEW p \in Procs, NEW r \in Results, Return(p, r),
         UNCHANGED <<fds, cloexec, born, nsent>>,
         bytes' \in Seq(Piece), Len(bytes') <= Capacity, Whole',
         p \in born, EofIsFinal'
  PROVE  IInv'
<1>. USE PipeAssumption
<1>1. TypeOK'
  <2>1. \A o \in Procs : Len(buf'[o]) <= IntSize
                         /\ (pc'[o] = "read" => Len(buf'[o]) < IntSize)
    <3>1. Len(<<>>) = 0
      OBVIOUS
    <3>2. buf'[p] = <<>>
      BY ReturnTypes
    <3>3. \A o \in Procs \ {p} : pc'[o] = pc[o] /\ buf'[o] = buf[o]
      BY ReturnTypes
    <3>4. Len(buf'[p]) <= IntSize /\ Len(buf'[p]) < IntSize
      BY <3>1, <3>2
    <3>. QED
      BY <3>3, <3>4 DEF IInv, TypeOK
  <2>. QED
    BY <2>1, ReturnTypes DEF IInv, TypeOK
<1>2. CallsInv'
  <2>1. pc'[p] = "idle" /\ buf'[p] = <<>>
    BY ReturnTypes
  <2>2. \A o \in Procs \ {p} : pc'[o] = pc[o] /\ buf'[o] = buf[o]
    BY ReturnTypes
  <2>3. fds' = fds
    OBVIOUS
  <2>4. ASSUME NEW o \in Procs \ {p}
        PROVE  /\ pc'[o] = "write" => "w" \in fds'[o] /\ \E i \in Ints : buf'[o] = BytesOf(i)
               /\ pc'[o] # "write" => buf'[o] = <<>>
    BY ZenonT(60), <2>2, <2>3 DEF IInv, CallsInv
  <2>5. \A i : BytesOf(i)' = BytesOf(i)
    BY DEF BytesOf
  <2>. QED
    BY <2>1, <2>4, <2>5 DEF CallsInv
<1>3. BornInv'
  BY ZenonT(60), ReturnTypes DEF IInv, BornInv
<1>. QED
  BY <1>1, <1>2, <1>3, ReturnTypes DEF IInv

LEMMA WriteKeeps == \A p \in Procs : IInv /\ atomic_write(p) => IInv'
<1>. SUFFICES ASSUME NEW p \in Procs, IInv, atomic_write(p)
              PROVE  IInv'
  OBVIOUS
<1>1. "w" \in fds[p] /\ Open("w") /\ p \in born
      /\ UNCHANGED <<fds, cloexec, born, nsent>>
  BY Zenon DEF IInv, CallsInv, BornInv, Open, atomic_write
<1>2. \A o \in Procs : res[o] # "EINVAL"
  BY <1>1 DEF IInv, EofIsFinal
<1>3. ASSUME NEW r \in Results \ {"EINVAL"}, Return(p, r),
             bytes' \in Seq(Piece), Len(bytes') <= Capacity, Whole'
      PROVE  IInv'
  <2>1. EofIsFinal'
    BY ZenonT(60), <1>2, <1>3, ReturnTypes DEF EofIsFinal
  <2>. QED
    BY <1>1, <1>3, <2>1, ReturnKeeps
<1>4. CASE /\ \E i \in Ints, q \in Seq(Ints) :
                Holds(bytes, q) /\ Holds(bytes', Append(q, i))
           /\ bytes' \in Seq(Piece) /\ Len(bytes') <= Capacity
           /\ Return(p, "0")
  <2>1. Whole'
    BY <1>4, AppendProperties DEF Whole
  <2>. QED
    BY <1>3, <1>4, <2>1 DEF Results
<1>5. CASE UNCHANGED bytes /\ \E r \in {"EINTR", "EPIPE"} : Return(p, r)
  <2>1. bytes' \in Seq(Piece) /\ Len(bytes') <= Capacity /\ Whole'
    BY <1>5 DEF IInv, TypeOK, Whole
  <2>. QED
    BY <1>3, <1>5, <2>1 DEF Results
<1>. QED
  BY <1>4, <1>5, WriteStep

LEMMA ReadKeeps == \A p \in Procs : IInv /\ atomic_read(p) => IInv'
<1>. SUFFICES ASSUME NEW p \in Procs, IInv, atomic_read(p)
              PROVE  IInv'
  OBVIOUS
<1>1. p \in born /\ UNCHANGED <<fds, cloexec, born, nsent>>
  BY DEF IInv, BornInv, atomic_read
<1>2. Open("w")' <=> Open("w")
  BY <1>1 DEF Open
<1>3. CASE /\ \E q \in Seq(Ints) :
                /\ q # <<>> /\ Holds(bytes, q) /\ Holds(bytes', Tail(q))
                /\ received' = Append(received, Head(q))
           /\ bytes' \in Seq(Piece) /\ Len(bytes') <= Capacity
           /\ bytes # <<>>
           /\ Return(p, "0")
  <2>1. Whole'
    BY <1>3, HeadTailProperties DEF Whole
  <2>2. \A o \in Procs : res[o] # "EINVAL"
    BY <1>3 DEF IInv, EofIsFinal
  <2>3. "0" \in Results
    BY DEF Results
  <2>4. EofIsFinal'
    BY ZenonT(60), <1>3, <2>2, <2>3, ReturnTypes DEF EofIsFinal
  <2>. QED
    BY <1>1, <1>3, <2>1, <2>3, <2>4, ReturnKeeps
<1>4. CASE /\ UNCHANGED <<bytes, received>>
           /\ \/ Return(p, "EINTR")
              \/ Return(p, "EINVAL") /\ bytes = <<>> /\ ~Open("w")
  <2>1. bytes' \in Seq(Piece) /\ Len(bytes') <= Capacity /\ Whole'
    BY <1>4 DEF IInv, TypeOK, Whole
  <2>2. PICK r \in {"EINTR", "EINVAL"} :
          Return(p, r) /\ (r = "EINVAL" => bytes = <<>> /\ ~Open("w"))
    BY <1>4
  <2>3. r \in Results
    BY DEF Results
  <2>4. EofIsFinal'
    <3>1. res'[p] = r /\ \A o \in Procs \ {p} : res'[o] = res[o]
      BY <2>2, <2>3, ReturnTypes
    <3>. QED
      BY <1>2, <1>4, <2>2, <3>1 DEF IInv, EofIsFinal
  <2>. QED
    BY <1>1, <2>1, <2>2, <2>3, <2>4, ReturnKeeps
<1>. QED
  BY <1>3, <1>4, ReadStep

(* The steps that leave the contents of the pipe alone. *)
LEMMA OthersKeepWhole ==
  ASSUME IInv, UNCHANGED bytes
  PROVE  bytes' \in Seq(Piece) /\ Len(bytes') <= Capacity /\ Whole'
BY DEF IInv, TypeOK, Whole

(* The steps of which no process gets an end of the pipe that it, or the    *)
(* one it is forked from, did not have.                                     *)
LEMMA NoNewEnds ==
  ASSUME IInv, UNCHANGED <<bytes, res>>, Open("w")' => Open("w")
  PROVE  EofIsFinal'
BY DEF IInv, EofIsFinal

LEMMA InitCallKeeps == IInv /\ pink_pipe_init => IInv'
<1>. SUFFICES ASSUME IInv, pink_pipe_init
              PROVE  IInv'
  OBVIOUS
<1>. USE PipeAssumption
<1>1. /\ born = {} /\ born' = {Creator} /\ UNCHANGED <<bytes, pc, buf, nsent>>
      /\ fds' = fds \/ fds' = [fds EXCEPT ![Creator] = Ends]
      /\ cloexec' \subseteq Ends
      /\ res' = res \/ \E r \in {"fcntl", "pipe"} : res' = [res EXCEPT ![Creator] = r]
  BY DEF IInv, TypeOK, pink_pipe_init, set_cloexec_flag, Ends
<1>2. \A p \in Procs : fds[p] = {} /\ res[p] = "0" /\ pc[p] = "idle"
  BY <1>1 DEF IInv, BornInv
<1>3. TypeOK'
  BY ZenonT(60), <1>1 DEF IInv, TypeOK
<1>4. CallsInv'
  BY <1>1, <1>2 DEF IInv, CallsInv
<1>5. res' \in [Procs -> Results] /\ EofIsFinal'
  BY <1>1, <1>2 DEF IInv, EofIsFinal, Results
<1>6. BornInv'
  BY <1>1, <1>2 DEF IInv, TypeOK, BornInv
<1>. QED
  BY <1>1, <1>3, <1>4, <1>5, <1>6, OthersKeepWhole DEF IInv

LEMMA CloseKeeps ==
  \A p \in Procs, end \in Ends : IInv /\ pink_pipe_close(p, end) => IInv'
<1>. SUFFICES ASSUME NEW p \in Procs, NEW end \in Ends, IInv,
                     pink_pipe_close(p, end)
              PROVE  IInv'
  OBVIOUS
<1>1. /\ pc[p] = "idle" /\ fds' = [fds EXCEPT ![p] = @ \ {end}]
      /\ UNCHANGED <<cloexec, born, bytes, pc, buf, res, nsent>>
  BY DEF pink_pipe_close
<1>2. TypeOK'
  BY <1>1 DEF IInv, TypeOK
<1>3. \A o \in Procs : fds'[o] \subseteq fds[o] /\ (o # p => fds'[o] = fds[o])
  BY <1>1 DEF IInv, TypeOK
<1>4. CallsInv'
  BY <1>1, <1>3 DEF IInv, CallsInv
<1>5. BornInv'
  BY <1>1, <1>3 DEF IInv, BornInv
<1>6. EofIsFinal'
  BY <1>1, <1>3, NoNewEnds DEF Open
<1>. QED
  BY <1>1, <1>2, <1>4, <1>5, <1>6, OthersKeepWhole DEF IInv

LEMMA WriteIntKeeps ==
  \A p \in Procs : IInv /\ pink_pipe_write_int(p) => IInv'
<1>. SUFFICES ASSUME NEW p \in Procs, IInv, pink_pipe_write_int(p)
              PROVE  IInv'
  OBVIOUS
<1>. USE PipeAssumption
<1>. DEFINE i == <<p, nsent[p] + 1>>
<1>1. /\ pc[p] = "idle" /\ "w" \in fds[p] /\ nsent[p] < MaxInts
      /\ pc' = [pc EXCEPT ![p] = "write"]
      /\ nsent' = [nsent EXCEPT ![p] = @ + 1]
      /\ buf' = [buf EXCEPT ![p] = BytesOf(i)]
      /\ UNCHANGED <<fds, cloexec, born, bytes, res>>
  BY DEF pink_pipe_write_int
<1>2. i \in Ints
  BY <1>1 DEF IInv, TypeOK, Ints
<1>3. BytesOf(i) \in Seq(Piece) /\ Len(BytesOf(i)) = IntSize
  BY <1>2, BytesOfType
<1>. HIDE DEF i
<1>4. buf' \in [Procs -> Seq(Piece)] /\ buf'[p] = BytesOf(i)
      /\ pc'[p] = "write"
      /\ \A o \in Procs \ {p} : buf'[o] = buf[o] /\ pc'[o] = pc[o]
  BY <1>1, <1>3 DEF IInv, TypeOK
<1>5. TypeOK'
  <2>1. nsent' \in [Procs -> 0 .. MaxInts]
        /\ pc' \in [Procs -> {"idle", "read", "write"}]
    BY <1>1 DEF IInv, TypeOK
  <2>2. Len(buf'[p]) = IntSize
    BY <1>3, <1>4
  <2>3. \A o \in Procs : Len(buf'[o]) <= IntSize
                         /\ (pc'[o] = "read" => Len(buf'[o]) < IntSize)
    <3>1. Len(buf'[p]) <= IntSize /\ pc'[p] # "read"
      BY <1>4, <2>2
    <3>2. \A o \in Procs \ {p} : buf'[o] = buf[o] /\ pc'[o] = pc[o]
      BY <1>4
    <3>. QED
      BY <3>1, <3>2 DEF IInv, TypeOK
  <2>. QED
    BY <1>1, <2>1, <2>3 DEF IInv, TypeOK
<1>6. CallsInv'
  <2>1. \A o \in Procs :
          /\ pc'[o] = "write" => "w" \in fds'[o] /\ \E k \in Ints : buf'[o] = BytesOf(k)
          /\ pc'[o] # "write" => buf'[o] = <<>>
    BY <1>1, <1>2, <1>4 DEF IInv, CallsInv
  <2>2. \A k : BytesOf(k)' = BytesOf(k)
    BY DEF BytesOf
  <2>. QED
    BY <2>1, <2>2 DEF CallsInv
<1>7. BornInv'
  BY <1>1 DEF IInv, BornInv
<1>8. EofIsFinal'
  BY <1>1, NoNewEnds DEF Open
<1>. QED
  BY <1>1, <1>4, <1>5, <1>6, <1>7, <1>8, OthersKeepWhole DEF IInv

LEMMA ReadIntKeeps ==
  \A p \in Procs : IInv /\ pink_pipe_read_int(p) => IInv'
<1>. SUFFICES ASSUME NEW p \in Procs, IInv, pink_pipe_read_int(p)
              PROVE  IInv'
  OBVIOUS
<1>. USE PipeAssumption
<1>1. /\ pc[p] = "idle" /\ "r" \in fds[p] /\ pc' = [pc EXCEPT ![p] = "read"]
      /\ UNCHANGED <<fds, cloexec, born, bytes, buf, res, nsent>>
  BY DEF pink_pipe_read_int
<1>2. buf[p] = <<>>
  BY <1>1 DEF IInv, CallsInv
<1>3. pc'[p] = "read" /\ \A o \in Procs \ {p} : pc'[o] = pc[o]
  BY <1>1 DEF IInv, TypeOK
<1>4. TypeOK'
  <2>1. Len(buf'[p]) < IntSize
    <3>1. Len(<<>>) = 0
      OBVIOUS
    <3>. QED
      BY <1>1, <1>2, <3>1
  <2>2. \A o \in Procs : pc'[o] = "read" => Len(buf'[o]) < IntSize
    BY <1>1, <1>3, <2>1 DEF IInv, TypeOK
  <2>. QED
    BY <1>1, <2>2 DEF IInv, TypeOK
<1>5. CallsInv'
  BY <1>1, <1>2, <1>3 DEF IInv, CallsInv
<1>6. BornInv'
  BY <1>1 DEF IInv, BornInv
<1>7. EofIsFinal'
  BY <1>1, NoNewEnds DEF Open
<1>. QED
  BY <1>1, <1>4, <1>5, <1>6, <1>7, OthersKeepWhole DEF IInv

LEMMA ForkKeeps == \A p, q \in Procs : IInv /\ Fork(p, q) => IInv'
<1>. SUFFICES ASSUME NEW p \in Procs, NEW q \in Procs, IInv, Fork(p, q)
              PROVE  IInv'
  OBVIOUS
<1>1. /\ p \in born /\ q \notin born /\ born' = born \cup {q}
      /\ fds' = [fds EXCEPT ![q] = fds[p]]
      /\ UNCHANGED <<cloexec, bytes, pc, buf, res, nsent>>
  BY DEF Fork
<1>2. TypeOK'
  BY <1>1 DEF IInv, TypeOK
<1>3. CallsInv'
  <2>1. pc[q] = "idle" /\ \A o \in Procs \ {q} : fds'[o] = fds[o]
    BY <1>1 DEF IInv, TypeOK, BornInv
  <2>. QED
    BY <1>1, <2>1 DEF IInv, CallsInv
<1>4. BornInv'
  BY <1>1 DEF IInv, TypeOK, BornInv
<1>5. EofIsFinal'
  BY <1>1, NoNewEnds DEF IInv, TypeOK, Open
<1>. QED
  BY <1>1, <1>2, <1>3, <1>4, <1>5, OthersKeepWhole DEF IInv

LEMMA ExecKeeps == \A p \in Procs : IInv /\ Exec(p) => IInv'
<1>. SUFFICES ASSUME NEW p \in Procs, IInv, Exec(p)
              PROVE  IInv'
  OBVIOUS
<1>1. /\ pc[p] = "idle" /\ fds' = [fds EXCEPT ![p] = @ \ cloexec]
      /\ UNCHANGED <<cloexec, born, bytes, pc, buf, res, nsent>>
  BY DEF Exec
<1>2. TypeOK'
  BY <1>1 DEF IInv, TypeOK
<1>3. \A o \in Procs : fds'[o] \subseteq fds[o] /\ (o # p => fds'[o] = fds[o])
  BY <1>1 DEF IInv, TypeOK
<1>4. CallsInv'
  BY <1>1, <1>3 DEF IInv, CallsInv
<1>5. BornInv'
  BY <1>1, <1>3 DEF IInv, BornInv
<1>6. EofIsFinal'
  BY <1>1, <1>3, NoNewEnds DEF Open
<1>. QED
  BY <1>1, <1>2, <1>4, <1>5, <1>6, OthersKeepWhole DEF IInv

LEMMA DieKeeps == \A p \in Procs : IInv /\ Die(p) => IInv'
<1>. SUFFICES ASSUME NEW p \in Procs, IInv, Die(p)
              PROVE  IInv'
  OBVIOUS
<1>. USE PipeAssumption
<1>1. /\ p \in born /\ fds' = [fds EXCEPT ![p] = {}]
      /\ pc' = [pc EXCEPT ![p] = "idle"] /\ buf' = [buf EXCEPT ![p] = <<>>]
      /\ UNCHANGED <<cloexec, born, bytes, res, nsent>>
  BY DEF Die
<1>2. /\ pc'[p] = "idle" /\ buf'[p] = <<>>
      /\ \A o \in Procs \ {p} :
           pc'[o] = pc[o] /\ buf'[o] = buf[o] /\ fds'[o] = fds[o]
      /\ \A o \in Procs : fds'[o] \subseteq fds[o]
  BY <1>1 DEF IInv, TypeOK
<1>3. TypeOK'
  <2>1. Len(<<>>) = 0
    OBVIOUS
  <2>2. Len(buf'[p]) <= IntSize /\ pc'[p] # "read"
    BY <1>2, <2>1
  <2>3. \A o \in Procs : Len(buf'[o]) <= IntSize
                         /\ (pc'[o] = "read" => Len(buf'[o]) < IntSize)
    BY Zenon, <1>2, <2>2 DEF IInv, TypeOK
  <2>4. fds' \in [Procs -> SUBSET Ends]
        /\ pc' \in [Procs -> {"idle", "read", "write"}]
    BY <1>1 DEF IInv, TypeOK
  <2>. QED
    BY <1>1, <2>3, <2>4 DEF IInv, TypeOK
<1>4. buf' \in [Procs -> Seq(Piece)]
  BY <1>1 DEF IInv
<1>5. CallsInv'
  <2>1. \A o \in Procs \ {p} :
          /\ pc'[o] = "write" => "w" \in fds'[o] /\ \E k \in Ints : buf'[o] = BytesOf(k)
          /\ pc'[o] # "write" => buf'[o] = <<>>
    BY <1>2 DEF IInv, CallsInv
  <2>2. \A k : BytesOf(k)' = BytesOf(k)
    BY DEF BytesOf
  <2>. QED
    BY <1>2, <2>1, <2>2 DEF CallsInv
<1>6. BornInv'
  BY <1>1, <1>2 DEF IInv, BornInv
<1>7. EofIsFinal'
  BY <1>1, <1>2, NoNewEnds DEF Open
<1>. QED
  BY <1>1, <1>3, <1>4, <1>5, <1>6, <1>7, OthersKeepWhole DEF IInv

-----------------------------------------------------------------------------
(* Every step keeps the invariant. *)
LEMMA NextKeeps == IInv /\ [Next]_vars => IInv'
<1>. SUFFICES ASSUME IInv, [Next]_vars
              PROVE  IInv'
  OBVIOUS
<1>1. CASE Next
  BY <1>1, InitCallKeeps, CloseKeeps, WriteIntKeeps, ReadIntKeeps, WriteKeeps,
     ReadKeeps, ForkKeeps, ExecKeeps, DieKeeps DEF Next, Step
<1>2. CASE UNCHANGED vars
  BY <1>2 DEF vars, IInv, TypeOK, Whole, CallsInv, BornInv, EofIsFinal, Open
<1>. QED
  BY <1>1, <1>2

THEOREM PipeInvariant == FairSpec => []IInv
BY InitEstablishes, NextKeeps, PTL DEF FairSpec

(* A call in progress never has more than the bytes of one integer, and     *)
(* the pipe never more than its capacity.                                   *)
THEOREM PipeTypes == FairSpec => []TypeOK
<1>1. IInv => TypeOK
  BY DEF IInv
<1>. QED
  BY <1>1, PipeInvariant, PTL

(* The -EINVAL of pink_pipe_read_int is returned only after the last writer *)
(* closed its end and everything was read, for any number of processes.     *)
THEOREM EndOfFileIsFinal == FairSpec => []EofIsFinal
<1>1. IInv => EofIsFinal
  BY DEF IInv
<1>. QED
  BY <1>1, PipeInvariant, PTL

-----------------------------------------------------------------------------
(* A step of the pipe is a step of the channel. *)
LEMMA StepRefines == IInv /\ [Next]_vars => [Channel!Next]_<<Queue, received>>
<1>. SUFFICES ASSUME IInv, [Next]_vars
              PROVE  [Channel!Next]_<<Queue, received>>
  OBVIOUS
<1>1. CASE UNCHANGED <<bytes, received>>
  BY <1>1 DEF Queue
<1>2. ASSUME NEW p \in Procs, atomic_write(p)
      PROVE  [Channel!Next]_<<Queue, received>>
  <2>1. received' = received
    BY <1>2 DEF atomic_write
  <2>2. CASE UNCHANGED bytes
    BY <1>1, <2>1, <2>2
  <2>3. ASSUME NEW i \in Ints, NEW q \in Seq(Ints),
               Holds(bytes, q), Holds(bytes', Append(q, i))
        PROVE  Channel!Next
    <3>1. Queue = q
      BY <2>3, QueueIs
    <3>2. Append(q, i) \in Seq(Ints)
      BY AppendProperties
    <3>3. Queue' = Append(q, i)
      BY <2>3, <3>2, QueueIsNext
    <3>. QED
      BY <2>1, <3>1, <3>3 DEF Channel!Next, Channel!Send
  <2>. QED
    BY <1>2, <2>2, <2>3, WriteStep
<1>3. ASSUME NEW p \in Procs, atomic_read(p)
      PROVE  [Channel!Next]_<<Queue, received>>
  <2>1. ASSUME NEW q \in Seq(Ints), q # <<>>,
               Holds(bytes, q), Holds(bytes', Tail(q)),
               received' = Append(received, Head(q))
        PROVE  Channel!Next
    <3>1. Queue = q
      BY <2>1, QueueIs
    <3>2. Tail(q) \in Seq(Ints)
      BY <2>1, HeadTailProperties
    <3>3. Queue' = Tail(q)
      BY <2>1, <3>2, QueueIsNext
    <3>. QED
      BY <2>1, <3>1, <3>3 DEF Channel!Next, Channel!Receive
  <2>. QED
    BY <1>1, <1>3, <2>1, ReadStep
<1>4. CASE pink_pipe_init
  BY <1>1, <1>4 DEF pink_pipe_init
<1>5. ASSUME NEW p \in Procs,
             \/ \E end \in Ends : pink_pipe_close(p, end)
             \/ pink_pipe_write_int(p) \/ pink_pipe_read_int(p)
             \/ \E q \in Procs : Fork(p, q)
             \/ Exec(p) \/ Die(p)
      PROVE  [Channel!Next]_<<Queue, received>>
  BY <1>1, <1>5 DEF pink_pipe_close, pink_pipe_write_int, pink_pipe_read_int,
                    Fork, Exec, Die
<1>6. CASE UNCHANGED vars
  BY <1>1, <1>6 DEF vars
<1>. QED
  BY <1>2, <1>3, <1>4, <1>5, <1>6 DEF Next, Step

(* Any number of processes that write and read integers of any size up to   *)
(* PIPE_BUF, and are interrupted or killed at any time, use a channel: an   *)
(* integer is received whole, at most once, and in the order sent.          *)
THEOREM PipeIsChannel == FairSpec => IsChannel
<1>1. Init => Channel!Init
  <2>. SUFFICES ASSUME Init
                PROVE  Channel!Init
    OBVIOUS
  <2>1. Holds(bytes, <<>>) /\ <<>> \in Seq(Ints)
    BY HoldsEmpty DEF Init
  <2>2. Queue = <<>>
    BY <2>1, QueueIs
  <2>. QED
    BY <2>2 DEF Init, Channel!Init
<1>2. IInv /\ [Next]_vars => [Channel!Next]_<<Queue, received>>
  BY StepRefines
<1>. QED
  BY <1>1, <1>2, PipeInvariant, PTL DEF FairSpec, IsChannel, Channel!Spec
=============================================================================
