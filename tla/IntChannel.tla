----------------------------- MODULE IntChannel -----------------------------
(* What the functions of pipe.c promise: a queue of integers.  Each one    *)
(* that is sent is received at most once, whole, and in the order sent.    *)
EXTENDS Sequences

CONSTANT Ints
VARIABLES queue, received

Init == queue = <<>> /\ received = <<>>

Send(i) == queue' = Append(queue, i) /\ UNCHANGED received

Receive ==
  /\ queue # <<>>
  /\ received' = Append(received, Head(queue))
  /\ queue' = Tail(queue)

Next == Receive \/ \E i \in Ints : Send(i)

Spec == Init /\ [][Next]_<<queue, received>>
=============================================================================
