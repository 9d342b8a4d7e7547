----------------------------- MODULE MCBindings ------------------------------
(* An instance of Bindings for TLC: a thread id that two processes may have. *)
EXTENDS Bindings

(* Everything; nothing; without the newest option; without an old option,   *)
(* a request and tgkill.                                                    *)
MCBuilds ==
  LET all == Calls \cup Options
  IN  {all, {}, all \ {"EXITKILL", "TGKILL", "TKILL"},
       all \ {"EXEC", "INTERRUPT", "TGKILL"}}

(* SYSGOOD with EXEC; EXITKILL, whose bit the kernel has elsewhere; EXIT,   *)
(* the greatest that seize takes in Python; SECCOMP; a bit that is no       *)
(* option.                                                                  *)
MCOptionSets == {{0, 4}, {0, 8}, {6}, {7}, {9}}

(* Invalid, none, SIGKILL, the last valid one, invalid. *)
MCSignums == {-1, 0, SIGKILL, 64, 65}

MCTable == <<NULL, "A", "B">>
MCArmTable == <<"read", "write", NULL, "open", "cmpxchg", NULL, "breakpoint">>
MCFamilies == <<[str |-> "AF_LOCAL", val |-> 1], [str |-> "AF_INET", val |-> 2],
                [str |-> "AF_UNIX", val |-> 1], [str |-> "AF_UNSPEC", val |-> 0]>>
MCTables ==
  [event |-> <<[str |-> "FORK", val |-> 1], [str |-> "STOP", val |-> 12]>>,
   syscall |-> [a \in {0, 1} |-> IF a = 0 THEN MCArmTable ELSE MCTable],
   socket_family |-> MCFamilies,
   socket_subcall |-> <<[str |-> "bind", val |-> 2]>>,
   errno |-> [a \in {0, 1} |-> MCTable],
   signal |-> [a \in {0, 1} |-> MCTable]]

(* 17, 18: numbers that wrap around in an unsigned int (of four bits);      *)
(* 9, 14: special calls of ARM.                                             *)
MCNumbers ==
  [event |-> {1, 12, 15, 17}, syscall |-> {-1, 1, 2, 9, 14}, socket_family |-> {0, 1, 5},
   socket_subcall |-> {2, 18}, errno |-> {1, 3}, signal |-> {0, 2}]

MCStrings ==
  [event |-> {"FORK", "STOP", "pink"}, syscall |-> {"write", "cmpxchg", "breakpoint", "A"},
   socket_family |-> {"AF_UNSPEC", "AF_LOCAL", "AF_UNIX"}, socket_subcall |-> {"bind", "pink"},
   errno |-> {"A", "pink"}, signal |-> {"B", "pink"}]

(* An ABI that the build does not support among them. *)
MCAbis == {-1, 0, 1}
=============================================================================
