----------------------------- MODULE MCRegisters -----------------------------
(* An instance of Registers for TLC: 32 bits are four, 64 are eight. *)
EXTENDS Registers

MCErrnoent == <<NULL, "EPERM", "ENOENT">>

(* Ordinary calls, a hole, and for ARM the folded cmpxchg and specials. *)
MCTable == <<"read", "write", NULL, "open">>
MCArmTable == <<"read", "write", NULL, "open", "cmpxchg", NULL, "breakpoint">>
MCSysent ==
  [b \in Builds |-> [a \in Abis(b) |->
     IF b = "aarch64" /\ a = ARM THEN MCArmTable ELSE MCTable]]

(* 8, 9: SpecialBase and the last special; 14: Cmpxchg; 12: no such call. *)
MCNumbers ==
  [b \in Builds |-> [a \in Abis(b) |->
     IF b = "aarch64" /\ a = ARM THEN {1, 9, 12, 14} ELSE {1, 3}]]

(* Distinct, and wider than 32 bits. *)
MCArgs == [i \in ArgIndex |-> (i + 1) + 16 * (i + 9)]
MCBase == [s \in Slots |-> (11 * s + 7) % 256]

(* 47 and 239 are wider than 32 bits, and their lower 32 bits read as an   *)
(* error, as does 15; 13 is the greatest that is not an error in 32 bits,  *)
(* 253 in 64.                                                              *)
MCReturns == {0, 13, 15, 47, 239, 253}
MCValues == {-5, 2, 47}
=============================================================================
