------------------------------ MODULE Registers ------------------------------
(***************************************************************************)
(* The registers of a tracee at the entry and at the exit of a system      *)
(* call: pink_regset_fill copies them into a pink_regset, pink_read_* take *)
(* the ABI, the call, its arguments and its result out of that copy, and   *)
(* pink_write_* change them in the kernel, by a poke of one register or    *)
(* (AArch64) by writing the whole copy back.                               *)
(*                                                                         *)
(* The builds are those that compile: x86_64, i386, 64-bit PowerPC and     *)
(* AArch64.  All of them but i386 trace threads of more than one ABI.      *)
(* Each request is one step: the tracee stays in its ptrace-stop, and what *)
(* SIGKILL could change between two of them is never seen again.           *)
(***************************************************************************)
EXTENDS Names

CONSTANTS
  Half,       (* 2^32                                                    *)
  ShortSpan,  (* 2^16                                                    *)
  X32Bit,     (* __X32_SYSCALL_BIT                                       *)
  Sysent,     (* Sysent[build]: the tables of system calls by ABI        *)
  Errnoent,   (* the table of errnos, the same for every ABI             *)
  Numbers,    (* Numbers[build]: the calls that are made, by ABI         *)
  Args,       (* the six arguments of the call                           *)
  Returns,    (* what a call that succeeds may return                    *)
  Values,     (* the longs that the tracer writes                        *)
  Base,       (* what the registers hold that are not part of the call   *)
  MaxWrites   (* bound on the tracer's writes                            *)

Word == Half * Half
NErrnos == Len(Errnoent)
MaxArgs == 6                (* PINK_MAX_ARGS *)
ArgIndex == 0 .. MaxArgs - 1
Builds == {"x86_64", "i386", "powerpc64", "aarch64"}
Slots == 0 .. 20            (* the registers, in the order of the struct *)
Halves == 0 .. 41           (* the union of struct pink_regset, by uint32_t *)

(* abi.h *)
X86_64 == 0
I386 == 1
X32 == 2
AARCH64 == 0
ARM == 1
PINK_ABIS_SUPPORTED(b) == CASE b = "x86_64" -> 3 [] b = "i386" -> 1 [] OTHER -> 2
Abis(b) == 0 .. PINK_ABIS_SUPPORTED(b) - 1

(* Indices into struct user_regs_struct and struct i386_user_regs_struct.  *)
R == [rbp |-> 4, rbx |-> 5, r10 |-> 7, r9 |-> 8, r8 |-> 9, rax |-> 10,
      rcx |-> 11, rdx |-> 12, rsi |-> 13, rdi |-> 14, orig_rax |-> 15,
      rip |-> 16, cs |-> 17, rsp |-> 19]
E == [ebx |-> 0, ecx |-> 1, edx |-> 2, esi |-> 3, edi |-> 4, ebp |-> 5,
      eax |-> 6, orig_eax |-> 11, eip |-> 12, esp |-> 15]
(* PowerPC: gpr[n] is slot n, and three more.  The flag SO_MASK is all of  *)
(* CCR that matters.                                                       *)
PPC == [orig_gpr3 |-> 11, ccr |-> 12]

UserCS32 == 3               (* 0x23 *)
UserCS == 5                 (* 0x33 *)

ASSUME RegistersAssumption ==
  /\ Half \in Nat /\ ShortSpan \in Nat \ {0} /\ ShortSpan <= Half
  /\ Errnoent \in Seq({NULL} \cup STRING) /\ NErrnos > 0
  /\ X32Bit \in Nat /\ 4 * X32Bit = Half /\ X32Bit > NErrnos
  /\ Args \in [ArgIndex -> 0 .. Word - 1] /\ Base \in [Slots -> 0 .. Word - 1]
  /\ Returns \subseteq 0 .. Word - 1 /\ Values \subseteq Int
  /\ MaxWrites \in Nat

(* The calls of ARM go beyond those of the others.  A table may have holes. *)
ASSUME CallsAssumption ==
  \A b \in Builds : \A a \in Abis(b) :
    /\ Numbers[b][a] \subseteq 0 .. (IF b = "aarch64" THEN Half ELSE X32Bit) - 1
    /\ a \in DOMAIN Sysent[b] /\ Sysent[b][a] \in Seq({NULL} \cup STRING)

(* No table has a name twice, and that of the errnos has no holes. *)
ASSUME TablesAssumption ==
  /\ \A b \in Builds : \A a \in Abis(b) : Unique(Sysent[b][a])
  /\ Unique(Errnoent) /\ \A err \in 1 .. NErrnos - 1 : Entry(Errnoent, err) # NULL

VARIABLES
  build,      (* what pinktrace was compiled for                         *)
  getregset,  (* PINK_HAVE_GETREGSET                                     *)
  abi,        (* the ABI of the call the tracee made                     *)
  stop,       (* "entry" or "exit"                                       *)
  user,       (* the registers in the kernel                             *)
  scno,       (* the call AArch64 keeps apart from the registers         *)
  regset,     (* the struct pink_regset                                  *)
  sync,       (* the copy is "stale" (of an earlier stop), "filled" at   *)
              (* this stop, or "fresh": filled and not written since     *)
  writes,     (* number of writes so far                                 *)
  view        (* history: the call as made and as changed by writes that *)
              (* returned 0                                              *)

View(number, renumbered, args, ret) ==
  [scno |-> number, renumbered |-> renumbered, args |-> args, ret |-> ret]
Outcome(retval, error) == [retval |-> retval, error |-> error]

vars == <<build, getregset, abi, stop, user, scno, regset, sync, writes, view>>

(* sizeof(long), and the conversions to long, unsigned long and int. *)
LongSpan(b) == IF b = "i386" THEN Half ELSE Word
Signed(n, span) ==
  LET u == n % span IN IF u < span \div 2 THEN u ELSE u - span
Long(b, n) == Signed(n, LongSpan(b))
ULong(b, n) == n % LongSpan(b)
Int32(n) == Signed(n, Half)

(* A thread in 32-bit mode has registers of 32 bits. *)
Narrow(b, a) == b # "i386" /\ a = 1
Held(b, a, n) == IF Narrow(b, a) THEN n % Half ELSE ULong(b, n)

(* What a register's value is as a long: the i386 registers of an x86_64   *)
(* thread are signed, the ARM registers of an AArch64 thread are not.      *)
AsLong(b, a, n) ==
  CASE b = "x86_64" /\ a = I386 -> Int32(n)
    [] b = "aarch64" /\ a = ARM -> n % Half
    [] OTHER -> Long(b, n)
-----------------------------------------------------------------------------
(* The kernel, external: where a call's parts are, by calling convention.  *)
ArgHome(b, a) ==
  CASE b = "x86_64" /\ a # I386 ->
         <<R.rdi, R.rsi, R.rdx, R.r10, R.r8, R.r9>>
    [] b = "x86_64" /\ a = I386 ->
         <<R.rbx, R.rcx, R.rdx, R.rsi, R.rdi, R.rbp>>
    [] b = "i386" -> <<E.ebx, E.ecx, E.edx, E.esi, E.edi, E.ebp>>
    [] b = "powerpc64" -> <<PPC.orig_gpr3, 4, 5, 6, 7, 8>>
    [] b = "aarch64" -> <<0, 1, 2, 3, 4, 5>>

NumberHome(b, a) ==
  CASE b = "x86_64" -> R.orig_rax
    [] b = "i386" -> E.orig_eax
    [] b = "powerpc64" -> 0
    [] b = "aarch64" -> IF a = ARM THEN 7 ELSE 8

ReturnHome(b) ==
  CASE b = "x86_64" -> R.rax [] b = "i386" -> E.eax
    [] b = "powerpc64" -> 3 [] b = "aarch64" -> 0

EntryRegs(b, a, n) ==
  [s \in Slots |->
     CASE s = NumberHome(b, a) ->
            IF b = "x86_64" /\ a = X32 THEN n + X32Bit ELSE n
       [] \E i \in ArgIndex : s = ArgHome(b, a)[i + 1] ->
            Held(b, a, Args[CHOOSE i \in ArgIndex : s = ArgHome(b, a)[i + 1]])
       [] b = "x86_64" /\ s = R.cs -> IF a = I386 THEN UserCS32 ELSE UserCS
       [] b = "powerpc64" /\ s = PPC.ccr -> 0
       [] OTHER -> Held(b, a, Base[s])]

(* The result of the call: PowerPC has a flag for errors. *)
ExitRegs(b, a, u, val, err) ==
  [s \in Slots |->
     CASE s = ReturnHome(b) ->
            IF err = 0 THEN Held(b, a, val)
            ELSE IF b = "powerpc64" THEN err ELSE Held(b, a, -err)
       [] b = "powerpc64" /\ s = PPC.ccr -> IF err = 0 THEN 0 ELSE 1
       [] OTHER -> u[s]]

(* What the kernel runs when the tracee is resumed from the entry. *)
KernelCall ==
  LET n == user[NumberHome(build, abi)]
  IN  CASE build = "aarch64" -> <<abi, scno>>
        [] build = "x86_64" /\ abi # I386 ->
             IF (n \div X32Bit) % 2 = 1 THEN <<X32, n - X32Bit>>
             ELSE <<X86_64, n>>
        [] OTHER -> <<abi, Held(build, abi, n)>>

(* PTRACE_GETREGS, and PTRACE_GETREGSET of a 64-bit thread. *)
Wide(u) ==
  [k \in Halves |-> IF k % 2 = 0 THEN u[k \div 2] % Half ELSE u[k \div 2] \div Half]

(* PTRACE_GETREGSET of a 32-bit thread fills the start of the union.  The  *)
(* registers of i386 that are used, and the slots they come from.          *)
I386Regs == {E.ebx, E.ecx, E.edx, E.esi, E.edi, E.ebp, E.eax, E.orig_eax, E.eip, E.esp}
I386Slot(k) ==
  CASE k = E.ebx -> R.rbx [] k = E.ecx -> R.rcx [] k = E.edx -> R.rdx
    [] k = E.esi -> R.rsi [] k = E.edi -> R.rdi [] k = E.ebp -> R.rbp
    [] k = E.eax -> R.rax [] k = E.orig_eax -> R.orig_rax
    [] k = E.eip -> R.rip [] k = E.esp -> R.rsp
I386View(u, mem) ==
  [k \in Halves |-> IF k \in I386Regs THEN u[I386Slot(k)] % Half ELSE mem[k]]
ArmView(u, mem) ==
  [k \in Halves |-> IF k < 18 THEN u[k] % Half ELSE mem[k]]

(* PTRACE_SETREGSET of the copy. *)
WordAt(mem, s) == mem[2 * s] + Half * mem[2 * s + 1]
SetRegset(a, mem) ==
  user' = [s \in Slots |-> IF a # ARM THEN WordAt(mem, s)
                           ELSE IF s < 18 THEN mem[s] ELSE user[s]]
-----------------------------------------------------------------------------
(* regset.c *)

(* An assignment to a member of i386_regs from one of x86_64_regs, which   *)
(* are overlaid in memory.                                                 *)
Moved(m, e, r) == [m EXCEPT ![e] = WordAt(m, r) % Half]

(* The assignments in their order. *)
Overlay(mem) ==
  LET m1 == Moved(mem, E.ebx, R.rbx)
      m2 == Moved(m1, E.ecx, R.rcx)
      m3 == Moved(m2, E.edx, R.rdx)
      m4 == Moved(m3, E.esi, R.rsi)
      m5 == Moved(m4, E.edi, R.rdi)
      m6 == Moved(m5, E.ebp, R.rbp)
      m7 == Moved(m6, E.eax, R.rax)
      m8 == Moved(m7, E.orig_eax, R.orig_rax)
      m9 == Moved(m8, E.eip, R.rip)
  IN  Moved(m9, E.esp, R.rsp)

X86Abi(m, is32) ==
  IF is32 THEN I386
  ELSE IF (WordAt(m, R.orig_rax) \div X32Bit) % 2 = 1 THEN X32 ELSE X86_64

ArmFilled ==
  [mem |-> IF abi = ARM THEN ArmView(user, regset.mem) ELSE Wide(user),
   abi |-> IF abi = ARM THEN ARM ELSE AARCH64]

(* The copy after a fill that returns 0. *)
Filled ==
  LET wide == Wide(user)
      is32 == IF getregset THEN abi = I386
              ELSE WordAt(wide, R.cs) = UserCS32
      x86 == IF ~is32 THEN wide
             ELSE IF getregset THEN I386View(user, regset.mem)
             ELSE Overlay(wide)
  IN  CASE build = "x86_64" -> [mem |-> x86, abi |-> X86Abi(x86, is32)]
        [] build = "i386" ->
             [mem |-> [k \in Halves |-> IF k \in Slots THEN user[k] ELSE 0],
              abi |-> 0]
        (* msr & 0 is never true *)
        [] build = "powerpc64" -> [mem |-> wide, abi |-> 1]
        [] build = "aarch64" -> ArmFilled

(* AArch64 without PTRACE_GETREGSET: -ENOSYS, and nothing changes. *)
pink_regset_fill ==
  /\ IF build = "aarch64" /\ ~getregset
     THEN UNCHANGED <<regset, sync>>
     ELSE regset' = Filled /\ sync' = "fresh"
  /\ UNCHANGED <<build, getregset, abi, stop, user, scno, writes, view>>
-----------------------------------------------------------------------------
(* read.c *)

pink_abi_wordsize(b, a) ==
  CASE b = "i386" -> Half
    [] b = "x86_64" -> <<Word, Half, Half>>[a + 1]
    [] OTHER -> <<Word, Half>>[a + 1]

ArmSyscall ==
  IF regset.abi = ARM THEN regset.mem[7] ELSE Long(build, WordAt(regset.mem, 8))

pink_read_syscall ==
  LET mem == regset.mem
  IN  CASE build = "x86_64" ->
             IF regset.abi = I386 THEN mem[E.orig_eax]
             ELSE Long(build, WordAt(mem, R.orig_rax))
                    - (IF regset.abi = X32 THEN X32Bit ELSE 0)
        [] build = "i386" -> Long(build, mem[E.orig_eax])
        [] build = "powerpc64" -> Long(build, WordAt(mem, 0))
        [] build = "aarch64" -> ArmSyscall

(* val is an unsigned long. *)
is_negated_errno(b, val, a) ==
  LET max == LongSpan(b) - NErrnos
  IN  IF PINK_ABIS_SUPPORTED(b) > 1 /\ pink_abi_wordsize(b, a) < LongSpan(b)
      THEN val % Half > max % Half
      ELSE val > max

(* A long, or the uint32_t of an ARM thread. *)
ArmReturn ==
  IF regset.abi = ARM THEN regset.mem[0] ELSE Long(build, WordAt(regset.mem, 0))

(* The value that is tested. *)
ReturnRegister ==
  LET mem == regset.mem
  IN  CASE build = "x86_64" ->
             IF regset.abi = I386 THEN Int32(mem[E.eax])
             ELSE Long(build, WordAt(mem, R.rax))
        [] build = "i386" -> Long(build, mem[E.eax])
        [] build = "powerpc64" ->
             LET gpr3 == WordAt(mem, 3)
             IN  Long(build, IF WordAt(mem, PPC.ccr) = 1 THEN -gpr3 ELSE gpr3)
        [] build = "aarch64" -> ArmReturn

pink_read_retval ==
  LET val == ReturnRegister
  IN  IF is_negated_errno(build, ULong(build, val), regset.abi)
      THEN Outcome(-1, Int32(-val))
      ELSE Outcome(val, 0)

(* Mutant: the fourth argument of a call is taken where functions have it. *)
FunctionSlots == <<R.rdi, R.rsi, R.rdx, R.rcx, R.r8, R.r9>>

ReadSlots == <<R.rdi, R.rsi, R.rdx, R.r10, R.r8, R.r9>>

ArmArgument(i) ==
  IF regset.abi = AARCH64 THEN Long(build, WordAt(regset.mem, i)) ELSE regset.mem[i]

pink_read_argument(i) ==
  LET mem == regset.mem
      e == <<E.ebx, E.ecx, E.edx, E.esi, E.edi, E.ebp>>[i + 1]
  IN  CASE build = "x86_64" /\ regset.abi # I386 ->
             Long(build, WordAt(mem, ReadSlots[i + 1]))
        [] build = "x86_64" /\ regset.abi = I386 -> Int32(mem[e])
        [] build = "i386" -> Long(build, mem[e])
        [] build = "powerpc64" ->
             Long(build, WordAt(mem, IF i = 0 THEN PPC.orig_gpr3 ELSE i + 3))
        [] build = "aarch64" -> ArmArgument(i)
-----------------------------------------------------------------------------
(* write.c *)

(* Mutant: a long is stored as it is. *)
PokedUncut(slot, val) ==
  /\ user' = [user EXCEPT ![slot] = val]
  /\ sync' = "filled"
  /\ UNCHANGED <<scno, regset>>

(* PTRACE_POKEUSER: the copy no longer has what the kernel has. *)
pink_write_word_user(slot, val) ==
  /\ user' = [user EXCEPT ![slot] = ULong(build, val)]
  /\ sync' = "filled"
  /\ UNCHANGED <<scno, regset>>

(* AArch64: a register is changed in the copy, which is written back. *)
WriteBack(slot, val) ==
  LET mem == IF regset.abi = ARM
             THEN [regset.mem EXCEPT ![slot] = val % Half]
             ELSE [regset.mem EXCEPT ![2 * slot] = val % Half,
                                     ![2 * slot + 1] = ULong(build, val) \div Half]
  IN  /\ regset' = [regset EXCEPT !.mem = mem]
      /\ SetRegset(regset.abi, mem)
      /\ UNCHANGED <<scno, sync>>

(* The writes that succeed are counted; the others change nothing. *)
Writing ==
  /\ sync # "stale"
  /\ writes < MaxWrites
  /\ writes' = writes + 1
  /\ UNCHANGED <<build, getregset, abi, stop>>

(* Mutant: the number goes to the register it was read from. *)
SyscallToRegister(sysnum) ==
  /\ stop = "entry"
  /\ Writing
  /\ IF build = "aarch64" THEN WriteBack(NumberHome(build, regset.abi), sysnum)
     ELSE pink_write_word_user(NumberHome(build, abi), sysnum)
  /\ view' = View(sysnum, TRUE, view.args, view.ret)

pink_write_syscall(sysnum) ==
  /\ stop = "entry"
  /\ Writing
  /\ CASE build = "aarch64" ->
            scno' = sysnum % ShortSpan /\ UNCHANGED <<user, regset, sync>>
       [] build = "powerpc64" -> pink_write_word_user(0, sysnum)
       [] build = "i386" -> pink_write_word_user(E.orig_eax, sysnum)
       [] build = "x86_64" -> pink_write_word_user(R.orig_rax, sysnum)
  /\ view' = View(sysnum, TRUE, view.args, view.ret)

(* Mutant: the flag of an error is never cleared. *)
FlagsKept(flags, error) == IF error # 0 THEN 1 ELSE flags

(* SO_MASK in the flags of PowerPC. *)
Flags(flags, error) == IF error # 0 THEN 1 ELSE 0

(* PTRACE_POKEUSER fails with EIO on AArch64, where ARM threads need it. *)
pink_write_retval(retval, error) ==
  LET val == IF error # 0 THEN -error ELSE retval
  IN  /\ stop = "exit"
      /\ Writing
      /\ CASE build = "aarch64" -> regset.abi # ARM /\ WriteBack(0, val)
           [] build = "powerpc64" ->
                /\ user' = [user EXCEPT ![3] = IF error # 0 THEN error ELSE ULong(build, retval),
                                        ![PPC.ccr] = Flags(@, error)]
                /\ sync' = "filled"
                /\ UNCHANGED <<scno, regset>>
           [] build = "i386" -> pink_write_word_user(E.eax, val)
           [] build = "x86_64" -> pink_write_word_user(R.rax, val)
      /\ view' = View(view.scno, view.renumbered, view.args,
                      Outcome(IF error # 0 THEN -1 ELSE AsLong(build, abi, retval), error))

(* An index of PINK_MAX_ARGS or more is refused. *)
pink_write_argument(i, argval) ==
  /\ stop = "entry"
  /\ i < MaxArgs
  /\ Writing
  /\ CASE build = "aarch64" -> WriteBack(i, argval)
       [] build = "powerpc64" ->
            pink_write_word_user(IF i = 0 THEN PPC.orig_gpr3 ELSE i + 3, argval)
       [] build = "i386" ->
            pink_write_word_user(<<E.ebx, E.ecx, E.edx, E.esi, E.edi, E.ebp>>[i + 1], argval)
       [] build = "x86_64" ->
            pink_write_word_user(
              IF regset.abi = I386
              THEN <<R.rbx, R.rcx, R.rdx, R.rsi, R.rdi, R.rbp>>[i + 1]
              ELSE <<R.rdi, R.rsi, R.rdx, R.r10, R.r8, R.r9>>[i + 1], argval)
  /\ view' = View(view.scno, view.renumbered,
                  [view.args EXCEPT ![i] = AsLong(build, abi, argval)], view.ret)
-----------------------------------------------------------------------------
(* The tracee, external: it enters a call, and the kernel ends it.  The    *)
(* copy is zero (pink_regset_alloc) or left from another call.             *)
Init ==
  /\ build \in Builds
  /\ getregset \in BOOLEAN
  /\ abi \in Abis(build)
  /\ stop = "entry"
  /\ \E n \in Numbers[build][abi] :
       /\ user = EntryRegs(build, abi, n)
       /\ scno = n
       /\ view = View(n, FALSE,
                      [i \in ArgIndex |-> AsLong(build, abi, Held(build, abi, Args[i]))],
                      Outcome(0, 0))
  /\ \E a \in Abis(build) :
       regset \in {[mem |-> [k \in Halves |-> 0], abi |-> 0],
                   [mem |-> Wide(Base), abi |-> a]}
  /\ sync = "stale"
  /\ writes = 0

(* Neither the kernel nor the tracer returns, without an error, a value    *)
(* that the ABI has for an error.                                          *)
Returnable(val) ==
  LET span == IF Narrow(build, abi) THEN Half ELSE LongSpan(build)
  IN  Held(build, abi, val) <= span - NErrnos
Resume ==
  /\ stop = "entry"
  /\ stop' = "exit"
  /\ \/ \E val \in Returns :
          /\ Returnable(val)
          /\ user' = ExitRegs(build, abi, user, val, 0)
          /\ view' = View(view.scno, view.renumbered, view.args,
                          Outcome(AsLong(build, abi, Held(build, abi, val)), 0))
     \/ \E err \in 1 .. NErrnos - 1 :
          /\ user' = ExitRegs(build, abi, user, 0, err)
          /\ view' = View(view.scno, view.renumbered, view.args, Outcome(-1, err))
  /\ sync' = "stale"
  /\ UNCHANGED <<build, getregset, abi, scno, regset, writes>>

Next ==
  \/ Resume
  \/ pink_regset_fill
  \/ \E n \in Numbers[build][abi] : pink_write_syscall(n)
  \/ \E i \in ArgIndex, val \in Values : pink_write_argument(i, val)
  \/ \E val \in Values : Returnable(val) /\ pink_write_retval(val, 0)
  \/ \E err \in 1 .. NErrnos - 1 : pink_write_retval(-1, err)

Spec == Init /\ [][Next]_vars
-----------------------------------------------------------------------------
(* Types: the registers stay within their width, through truncation,       *)
(* write-back of the copy and the overlay of the union.                    *)
TypeOK ==
  /\ build \in Builds /\ getregset \in BOOLEAN /\ abi \in Abis(build)
  /\ stop \in {"entry", "exit"}
  /\ user \in [Slots -> 0 .. LongSpan(build) - 1]
  /\ scno \in Nat
  /\ regset \in [mem : [Halves -> 0 .. Half - 1], abi : Abis(build)]
  /\ sync \in {"stale", "filled", "fresh"}
  /\ writes \in 0 .. MaxWrites
  /\ view.scno \in Int /\ view.renumbered \in BOOLEAN
  /\ view.args \in [ArgIndex -> Int]
  /\ view.ret \in [retval : Int, error : 0 .. NErrnos - 1]

(* After a fill pink_read_abi and pink_read_syscall name the call that the *)
(* tracee made, and pink_read_argument returns each of its six arguments   *)
(* as it was passed or as the last successful pink_write_argument left it, *)
(* whatever else was written in between and whichever way the fill got the *)
(* registers.  64-bit PowerPC is left out of the first: it tests msr & 0,  *)
(* and takes every thread for a 32-bit one.  On AArch64 the first argument *)
(* is gone at the exit of the call: the register holds the result.         *)
CallIsRead ==
  sync = "fresh" =>
    /\ ~view.renumbered => /\ build # "powerpc64" => regset.abi = abi
                           /\ pink_read_syscall = view.scno
    /\ \A i \in ArgIndex :
         (build = "aarch64" /\ stop = "exit" => i # 0) =>
           pink_read_argument(i) = view.args[i]

(* The ABIs whose results pink_read_retval tests in 32 bits although the   *)
(* registers have 64: x32, and every 64-bit PowerPC thread.  A result that *)
(* is none of the errors may then be taken for one.                        *)
MayCut == build = "powerpc64" \/ (build = "x86_64" /\ regset.abi = X32)
IsCut ==
  LET u == ULong(build, ReturnRegister)
  IN  MayCut /\ u <= Word - NErrnos /\ u % Half > Half - NErrnos

(* After a fill at the exit pink_read_retval tells a result from an error, *)
(* and returns either as the kernel or the last pink_write_retval set it,  *)
(* in every ABI but for the results that are cut.                          *)
ReturnIsRead ==
  (sync = "fresh" /\ stop = "exit" /\ ~IsCut) => pink_read_retval = view.ret

(* write.h promises to "Set the system call to the given value": what the  *)
(* kernel runs next is the call of that number in the tracee's ABI.        *)
SyscallTakesEffect ==
  stop = "entry" => KernelCall = <<abi, view.scno>>

(* The same, but for x32 calls that were written, and for the numbers of   *)
(* ARM that pink_write_syscall cuts to 16 bits.                            *)
SyscallTakesEffectUnlessCut ==
  \/ build = "x86_64" /\ abi = X32 /\ view.renumbered
  \/ build = "aarch64" /\ view.renumbered /\ view.scno >= ShortSpan
  \/ SyscallTakesEffect

(* What is read has a name that leads back to it: pink_lookup_errno finds  *)
(* every error that pink_read_retval reports, the cut ones included, by    *)
(* its name in the errno table, and pink_lookup_syscall the number that    *)
(* was read by the name that pink_name_syscall gives it, the two ways of   *)
(* shuffle_scno through the special calls of ARM included.                 *)
NameLeadsBack ==
  LET errnoent == [a \in Abis(build) |-> Errnoent]
      err == pink_read_retval.error
      errname == pink_name_errno(errnoent, err, regset.abi)
      shuffled == build = "aarch64"
      name == pink_name_syscall(Sysent[build], shuffled, pink_read_syscall, regset.abi)
  IN  sync = "fresh" =>
        /\ stop = "exit" /\ err # 0 =>
             /\ errname # NULL
             /\ pink_lookup_errno(errnoent, errname, regset.abi) = err
        /\ name # NULL =>
             pink_lookup_syscall(Sysent[build], shuffled, name, regset.abi)
               = pink_read_syscall
=============================================================================
