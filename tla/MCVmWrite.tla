------------------------------ MODULE MCVmWrite -----------------------------
(* Instances of VmWrite for TLC. *)
EXTENDS VmWrite

(* Memory of zeros: most bytes that the tracer writes differ from it. *)
MCImages == {[a \in Addr |-> 0]}

(* Data that is not the same when it is shifted by a byte or by a word. *)
MCSources == {[i \in Index |-> IF i = 1 THEN 0 ELSE 1]}
=============================================================================
