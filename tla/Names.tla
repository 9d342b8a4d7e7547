-------------------------------- MODULE Names --------------------------------
(***************************************************************************)
(* The tables of name.c: the names of system calls, errnos and signals,    *)
(* one table for each ABI, searched in both directions.  A table is a      *)
(* sequence whose entry n + 1 is the name of number n, NULL where it has a *)
(* hole.  The names of events, socket families and socket calls are in     *)
(* lists of pairs (struct xlat).                                           *)
(* The numbers of the ARM-specific calls lie far beyond the others;        *)
(* shuffle_scno folds them into the table.                                 *)
(***************************************************************************)
EXTENDS Integers, Sequences

CONSTANTS
  FirstShuffled,  (* ARM_FIRST_SHUFFLED_SYSCALL                          *)
  LastSpecial,    (* ARM_LAST_SPECIAL_SYSCALL                            *)
  SpecialBase,    (* 0x000f0000                                          *)
  Cmpxchg,        (* 0x000ffff0, __ARM_NR_cmpxchg                        *)
  NULL

(* The special numbers lie above the slots they are folded into, and apart *)
(* from each other.                                                        *)
ASSUME NamesAssumption ==
  /\ FirstShuffled \in Nat /\ LastSpecial \in Nat
  /\ SpecialBase \in Nat /\ Cmpxchg \in Nat
  /\ FirstShuffled + 1 + LastSpecial < SpecialBase
  /\ SpecialBase + LastSpecial < Cmpxchg

SecondShuffled == FirstShuffled + 1

(* scno is an unsigned long. *)
shuffle_scno(scno) ==
  CASE scno < FirstShuffled -> scno
    [] scno = FirstShuffled -> Cmpxchg
    [] scno = Cmpxchg -> FirstShuffled
    [] scno \in SpecialBase .. SpecialBase + LastSpecial ->
         scno - SpecialBase + SecondShuffled
    [] scno \in SecondShuffled .. SecondShuffled + LastSpecial ->
         scno + SpecialBase - SecondShuffled
    [] OTHER -> scno

(* The shuffling is compiled in on ARM and AArch64, for all of their ABIs. *)
Shuffle(shuffled, scno) ==
  IF shuffled /\ scno >= 0 THEN shuffle_scno(scno) ELSE scno

Entry(table, n) ==
  IF n \in 0 .. Len(table) - 1 THEN table[n + 1] ELSE NULL

(* A table has each name once. *)
Unique(table) ==
  \A m, n \in 0 .. Len(table) - 1 :
    table[m + 1] # NULL /\ table[m + 1] = table[n + 1] => m = n

(* The loops return the first number with that name, -1 if there is none. *)
IndexOf(table, name) ==
  LET found == {n \in 0 .. Len(table) - 1 : table[n + 1] = name}
  IN  IF name = NULL \/ found = {} THEN -1
      ELSE CHOOSE n \in found : \A m \in found : n <= m

(* sysent, errnoent: the tables of all ABIs, indexed by ABI. *)
pink_name_syscall(sysent, shuffled, scno, abi) ==
  IF abi \in DOMAIN sysent THEN Entry(sysent[abi], Shuffle(shuffled, scno))
  ELSE NULL

(* Mutant: the number found is returned as it is in the table. *)
LookupUnshuffled(sysent, shuffled, name, abi) ==
  IF abi \in DOMAIN sysent THEN IndexOf(sysent[abi], name) ELSE -1

pink_lookup_syscall(sysent, shuffled, name, abi) ==
  IF abi \in DOMAIN sysent
  THEN Shuffle(shuffled, IndexOf(sysent[abi], name))
  ELSE -1

pink_name_errno(errnoent, err_no, abi) ==
  IF abi \in DOMAIN errnoent THEN Entry(errnoent[abi], err_no) ELSE NULL

pink_lookup_errno(errnoent, name, abi) ==
  IF abi \in DOMAIN errnoent THEN IndexOf(errnoent[abi], name) ELSE -1

pink_name_signal(signalent, sig, abi) ==
  IF abi \in DOMAIN signalent THEN Entry(signalent[abi], sig) ELSE NULL

pink_lookup_signal(signalent, name, abi) ==
  IF abi \in DOMAIN signalent THEN IndexOf(signalent[abi], name) ELSE -1

-----------------------------------------------------------------------------
(* Lists of pairs [str, val]; one value may have several names. *)

First(found) == CHOOSE i \in found : \A j \in found : i <= j

xname(xlat, val) ==
  LET found == {i \in 1 .. Len(xlat) : xlat[i].val = val}
  IN  IF found = {} THEN NULL ELSE xlat[First(found)].str

xlookup(xlat, str) ==
  LET found == {i \in 1 .. Len(xlat) : xlat[i].str = str}
  IN  IF str = NULL \/ found = {} THEN -1 ELSE xlat[First(found)].val

pink_name_event(events, event) == xname(events, event)

pink_lookup_event(events, name) == xlookup(events, name)

pink_name_socket_family(addrfams, family) == xname(addrfams, family)

pink_lookup_socket_family(addrfams, name) == xlookup(addrfams, name)

pink_name_socket_subcall(socket_subcalls, subcall) == xname(socket_subcalls, subcall)

pink_lookup_socket_subcall(socket_subcalls, name) == xlookup(socket_subcalls, name)
=============================================================================
