------------------------------ MODULE MCVmRead ------------------------------
(* Small instances of VmRead: two pages of two words of two bytes, and the   *)
(* pages continue into unmapped addresses.                                   *)
EXTENDS VmRead

(* Words with distinct bytes, one that ends with a zero-byte, and one of 0xff *)
(* bytes, which a peek returns as -1.                                         *)
MCImages ==
  {[a \in Addr |-> CASE a = 3 -> 0
                     [] a \in {4, 5} -> MaxByte
                     [] OTHER -> 1 + (a % 2)]}
=============================================================================
