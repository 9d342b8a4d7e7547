----------------------------- MODULE MCReaders ------------------------------
(* Small instances of VmRead and Readers: two pages of two words of two      *)
(* bytes, and the pages continue into unmapped addresses.                    *)
EXTENDS Readers

(* As pointers the words are 5 (an unaligned string that ends at the end of  *)
(* the page), NULL, 8 (not mapped; its bytes are 0xff, which a peek returns  *)
(* as -1), and 1.                                                            *)
MCImages ==
  {[a \in Addr |-> CASE a \in {2, 3, 7} -> 0
                     [] a \in {1, 6} -> 1
                     [] OTHER -> MaxByte]}

MCArrayJobs ==
  {[kind |-> "array", arg |-> 0, index |-> i, len |-> 3] : i \in 0 .. 4}
  \cup {[kind |-> "array", arg |-> 3, index |-> 0, len |-> 2]}

(* As connect and bind have it, in registers and in memory; and the last      *)
(* arguments of a call, whose length is beyond the registers.                 *)
MCSocketJobs ==
  LET socket(decode, fd, i, regs) ==
        [kind |-> "socket", decode |-> decode, fd |-> fd, arg_index |-> i, regs |-> regs]
  IN  {socket(FALSE, TRUE, 1, <<7, a, l>>) : a \in {0, 1, 4}, l \in {0, 2, 4, 5}}
      \cup {socket(TRUE, TRUE, 1, <<3, a, 0>>) : a \in {0, 1}}
      \cup {socket(TRUE, FALSE, 0, <<3, 2, 0>>), socket(FALSE, TRUE, 2, <<7, 4, 2>>)}
=============================================================================
