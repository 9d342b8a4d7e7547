------------------------------ MODULE Bindings ------------------------------
(***************************************************************************)
(* A program that traces other threads through the library: a C program    *)
(* that calls trace.c, or a Python program that calls the extension        *)
(* modules trace, name, regset and system.  Between any two calls the      *)
(* threads go on, end, and their ids are used again.                       *)
(*                                                                         *)
(* A call of an extension module is one step: it makes at most one call of *)
(* the library, under the interpreter's lock.                              *)
(***************************************************************************)
EXTENDS Requests, Names

CONSTANTS
  Builds,        (* the builds of the library: sets of PINK_HAVE_ macros    *)
  OptionSets,    (* the sets of flags the program asks for                  *)
  Signums,       (* the signals it passes                                   *)
  Pids,          (* the thread ids it passes                                *)
  UintSpan,      (* number of values of an unsigned int                     *)
  Shuffled,      (* the build folds ARM's calls into the tables             *)
  Tables,        (* the tables of name.c, a record by kind                  *)
  Numbers,       (* the numbers it asks the name of, by kind                *)
  Strings,       (* the names it looks up, by kind                          *)
  Abis,          (* the ABIs it passes                                      *)
  Objects        (* identities of ProcessRegistrySet objects                *)

Kinds == {"event", "syscall", "socket_family", "socket_subcall", "errno", "signal"}

(* Kinds whose numbers are unsigned. *)
Unsigned == {"event", "socket_subcall"}

(* PTRACE_O_EXITKILL came after PTRACE_O_TRACESECCOMP: no header has one    *)
(* without the other.                                                       *)
ASSUME BindingsAssumption ==
  /\ \A b \in Builds : b \subseteq Calls \cup Options
                       /\ ("EXITKILL" \in b => "SECCOMP" \in b)
  /\ OptionSets \subseteq SUBSET Nat
  /\ Signums \subseteq Int /\ Pids \subseteq Int
  /\ UintSpan \in Nat \ {0} /\ Shuffled \in BOOLEAN
  /\ DOMAIN Tables = Kinds /\ DOMAIN Numbers = Kinds /\ DOMAIN Strings = Kinds

(* A table of names may have holes.  A list of pairs has none, and no event *)
(* or socket call has the number that stands for a lookup that failed.      *)
ASSUME TablesAssumption ==
  /\ \A kind \in {"syscall", "errno", "signal"} :
       Tables[kind] \in [DOMAIN Tables[kind] -> Seq({NULL} \cup STRING)]
  /\ \A kind \in {"event", "socket_family", "socket_subcall"} :
       /\ Tables[kind] \in Seq([str : STRING, val : Int])
       /\ \A i \in 1 .. Len(Tables[kind]) :
            /\ Tables[kind][i].str # NULL /\ Tables[kind][i].val >= 0
            /\ kind \in Unsigned => Tables[kind][i].val < UintSpan - 1
  /\ \A kind \in Kinds : Numbers[kind] \subseteq Int

VARIABLES
  lang,      (* the program: "C", "python2" or "python3"                    *)
  call,      (* the call that has just ended, until the program goes on     *)
  ret,       (* how that call ended                                         *)
  asked,     (* the options last set for each thread that is traced         *)
  named,     (* the name that a name_ call gave, until it is looked up      *)
  objects,   (* the ProcessRegistrySet objects of the program, with regsets *)
  memory     (* the objects that are allocated                              *)

programVars == <<call, ret, asked, named, objects, memory>>
vars == <<requestVars, lang, programVars>>

NoCall == [f |-> "none", t |-> 0, tgid |-> 0, needs |-> {}]
NoName == [kind |-> "none", abi |-> 0, num |-> 0, str |-> "none"]

(* null: the call yields NULL; err: the error indicator; r: what the        *)
(* library's function returned, "none" if it was not called.                *)
Ret(null, err, r) == [null |-> null, err |-> err, r |-> r, num |-> 0, str |-> "none"]
NoRet == Ret(FALSE, "none", "none")

Init ==
  /\ have \in Builds
  /\ tasks \in [Tids -> {Untraced(g) : g \in Groups}]
  /\ me = FALSE
  /\ lang \in {"C", "python2", "python3"}
  /\ call = NoCall /\ ret = NoRet
  /\ asked = [t \in Tids |-> {}]
  /\ named = NoName
  /\ objects = {} /\ memory = {}

(* The interpreter raises an exception if the call yields NULL; Python 3    *)
(* also if the error indicator is set.                                      *)
Raised(o) == o.null \/ (lang = "python3" /\ o.err # "none")

-----------------------------------------------------------------------------
(* py-pink.h *)

Outcome(null, err, lib) == [null |-> null, err |-> err, lib |-> lib]

(* Arguments are refused before the library is called. *)
Refused(err) == Outcome(TRUE, err, Answer("none"))

(* Mutant: an error of the library is not looked at. *)
CallUnchecked(lib) == Outcome(FALSE, "none", lib)

(* After -ENOSYS the macro sets the error and goes on: the caller yields    *)
(* its value all the same.                                                  *)
PINK_CALL(lib) ==
  CASE lib.r = "ENOSYS" -> Outcome(FALSE, "SystemError", lib)
    [] lib.r = "0" -> Outcome(FALSE, "none", lib)
    [] OTHER -> Outcome(TRUE, "OSError", lib)

PINK_CALL_TRUE(lib) == PINK_CALL(lib)

PINK_CHECK_SIGNAL(signum, then) ==
  IF signum < 0 \/ signum >= NSIG THEN Refused("ValueError") ELSE then

(* What a lookup that fails is compared with: -1, in the type of the number. *)
MinusOne(kind) == IF kind \in Unsigned THEN UintSpan - 1 ELSE -1

(* A C program looks at what the function returns. *)
Direct(lib) == Outcome(lib.r # "0", IF lib.r = "0" THEN "none" ELSE "errno", lib)

-----------------------------------------------------------------------------
(* py-trace.c *)

pinkpy_trace_me == PINK_CALL_TRUE(pink_trace_me)

pinkpy_trace_resume(pid, sig) ==
  PINK_CHECK_SIGNAL(sig, PINK_CALL_TRUE(pink_trace_resume(pid, sig)))

pinkpy_trace_kill(tid, tgid, sig) ==
  PINK_CHECK_SIGNAL(sig, PINK_CALL_TRUE(pink_trace_kill(tid, tgid, sig)))

pinkpy_trace_singlestep(pid, sig) ==
  PINK_CHECK_SIGNAL(sig, PINK_CALL_TRUE(pink_trace_singlestep(pid, sig)))

pinkpy_trace_syscall(pid, sig) ==
  PINK_CHECK_SIGNAL(sig, PINK_CALL_TRUE(pink_trace_syscall(pid, sig)))

(* The message, uninitialised after -ENOSYS, is left out. *)
pinkpy_trace_geteventmsg(pid) == PINK_CALL(pink_trace_geteventmsg(pid))

pinkpy_trace_setup(pid, options) == PINK_CALL_TRUE(pink_trace_setup(pid, options))

pinkpy_trace_sysemu(pid, sig) ==
  PINK_CHECK_SIGNAL(sig, PINK_CALL_TRUE(pink_trace_sysemu(pid, sig)))

pinkpy_trace_sysemu_singlestep(pid, sig) ==
  PINK_CHECK_SIGNAL(sig, PINK_CALL_TRUE(pink_trace_sysemu_singlestep(pid, sig)))

pinkpy_trace_attach(pid) == PINK_CALL_TRUE(pink_trace_attach(pid))

pinkpy_trace_detach(pid, sig) ==
  PINK_CHECK_SIGNAL(sig, PINK_CALL_TRUE(pink_trace_detach(pid, sig)))

(* The flags are checked as if they were a signal: the int of a set of bits *)
(* is below _NSIG (65) iff it is {6} or has no bit above 5.                 *)
pinkpy_trace_seize(pid, options) ==
  IF options # {6} /\ ~(options \subseteq 0 .. 5) THEN Refused("ValueError")
  ELSE PINK_CALL_TRUE(pink_trace_seize(pid, options))

pinkpy_trace_interrupt(pid) == PINK_CALL_TRUE(pink_trace_interrupt(pid))

pinkpy_trace_listen(pid) == PINK_CALL_TRUE(pink_trace_listen(pid))

By(python, lib) == IF lang = "C" THEN Direct(lib) ELSE python

SignalCalls ==
  {"resume", "singlestep", "syscall", "sysemu", "sysemu_singlestep", "detach"}

SignalCall(f, pid, sig) ==
  CASE f = "resume" -> By(pinkpy_trace_resume(pid, sig), pink_trace_resume(pid, sig))
    [] f = "singlestep" ->
         By(pinkpy_trace_singlestep(pid, sig), pink_trace_singlestep(pid, sig))
    [] f = "syscall" -> By(pinkpy_trace_syscall(pid, sig), pink_trace_syscall(pid, sig))
    [] f = "sysemu" -> By(pinkpy_trace_sysemu(pid, sig), pink_trace_sysemu(pid, sig))
    [] f = "sysemu_singlestep" ->
         By(pinkpy_trace_sysemu_singlestep(pid, sig), pink_trace_sysemu_singlestep(pid, sig))
    [] f = "detach" -> By(pinkpy_trace_detach(pid, sig), pink_trace_detach(pid, sig))

PidCalls == {"geteventmsg", "attach", "interrupt", "listen"}

PidCall(f, pid) ==
  CASE f = "geteventmsg" -> By(pinkpy_trace_geteventmsg(pid), pink_trace_geteventmsg(pid))
    [] f = "attach" -> By(pinkpy_trace_attach(pid), pink_trace_attach(pid))
    [] f = "interrupt" -> By(pinkpy_trace_interrupt(pid), pink_trace_interrupt(pid))
    [] f = "listen" -> By(pinkpy_trace_listen(pid), pink_trace_listen(pid))

(* The functions that the extension modules do not offer. *)
LibraryCalls == {"get_regs", "get_regset", "set_regs", "set_regset", "get_siginfo"}

LibraryCall(f, pid) ==
  CASE f = "get_regs" -> Direct(pink_trace_get_regs(pid))
    [] f = "get_regset" -> Direct(pink_trace_get_regset(pid))
    [] f = "set_regs" -> Direct(pink_trace_set_regs(pid))
    [] f = "set_regset" -> Direct(pink_trace_set_regset(pid))
    [] f = "get_siginfo" -> Direct(pink_trace_get_siginfo(pid))

(* What configure must have found for a call to work. *)
Needs(f) ==
  CASE f \in {"sysemu", "sysemu_singlestep"} -> {"SYSEMU"}
    [] f = "geteventmsg" -> {"GETEVENTMSG"}
    [] f = "interrupt" -> {"INTERRUPT"}
    [] f = "listen" -> {"LISTEN"}
    [] f = "seize" -> {"SEIZE"}
    [] f = "setup" -> {"SETUP"}
    [] OTHER -> {}

(* The options asked for are forgotten once a thread is not traced. *)
AskedNow(options) ==
  asked' = [t \in Tids |-> IF tasks'[t].trace = "no" THEN {} ELSE options[t]]

(* A call begins when the program has seen how the last one ended. *)
Ready == call = NoCall /\ named = NoName

(* Call c ends with outcome o. *)
Ends(c, o) ==
  /\ Ready
  /\ call' = c
  /\ ret' = Ret(o.null, o.err, o.lib.r)
  /\ tasks' = o.lib.tasks /\ me' = o.lib.me
  /\ UNCHANGED <<have, lang, named, objects, memory>>

CallOf(f, pid, tgid, options) ==
  [f |-> f, t |-> pid, tgid |-> tgid, needs |-> Needs(f) \cup Wanted(options)]

(* The program keeps account of the options it set without an error. *)
Ask(pid, options, o) ==
  AskedNow(IF o.lib.r = "0" THEN [asked EXCEPT ![pid] = Wanted(options)] ELSE asked)

CallTraceMe ==
  /\ Ends(CallOf("me", 0, 0, {}), By(pinkpy_trace_me, pink_trace_me))
  /\ UNCHANGED asked

CallWithSignal(f, pid, sig) ==
  LET o == SignalCall(f, pid, sig)
  IN  /\ Ends(CallOf(f, pid, 0, {}), o)
      /\ AskedNow(asked)

CallWithPid(f, pid) ==
  LET o == PidCall(f, pid)
  IN  /\ Ends(CallOf(f, pid, 0, {}), o)
      /\ IF f = "attach" THEN Ask(pid, {}, o) ELSE AskedNow(asked)

CallLibrary(f, pid) ==
  /\ lang = "C"
  /\ Ends(CallOf(f, pid, 0, {}), LibraryCall(f, pid))
  /\ UNCHANGED asked

CallKill(tid, tgid, sig) ==
  LET o == By(pinkpy_trace_kill(tid, tgid, sig), pink_trace_kill(tid, tgid, sig))
  IN  /\ Ends(CallOf("kill", tid, tgid, {}), o)
      /\ AskedNow(asked)

CallSetup(pid, options) ==
  LET o == By(pinkpy_trace_setup(pid, options), pink_trace_setup(pid, options))
  IN  /\ Ends(CallOf("setup", pid, 0, options), o)
      /\ Ask(pid, options, o)

CallSeize(pid, options) ==
  LET o == By(pinkpy_trace_seize(pid, options), pink_trace_seize(pid, options))
  IN  /\ Ends(CallOf("seize", pid, 0, {}), o)
      /\ Ask(pid, options, o)

(* PyArg_ParseTuple refuses the arguments of any of these calls. *)
CallMalformed ==
  /\ lang # "C"
  /\ Ends(CallOf("malformed", 0, 0, {}), Refused("TypeError"))
  /\ UNCHANGED asked

TraceCall ==
  \/ CallTraceMe \/ CallMalformed
  \/ \E f \in SignalCalls, pid \in Pids, sig \in Signums : CallWithSignal(f, pid, sig)
  \/ \E f \in PidCalls, pid \in Pids : CallWithPid(f, pid)
  \/ \E f \in LibraryCalls, pid \in Pids : CallLibrary(f, pid)
  \/ \E tid \in Pids, tgid \in Groups \cup {-1}, sig \in Signums : CallKill(tid, tgid, sig)
  \/ \E pid \in Pids, options \in OptionSets :
       CallSetup(pid, options) \/ CallSeize(pid, options)

-----------------------------------------------------------------------------
(* py-name.c *)

PINK_CHECK_NULL(str) ==
  IF str = NULL THEN Ret(TRUE, "ValueError", "none")
  ELSE [NoRet EXCEPT !.str = str]

(* Mutant: an unsigned number is compared with -1 as it is. *)
CheckSigned(retval, kind) ==
  IF retval = -1 THEN Ret(TRUE, "ValueError", "none")
  ELSE [NoRet EXCEPT !.num = retval]

PINK_CHECK_LOOKUP(retval, kind) ==
  IF retval = MinusOne(kind) THEN Ret(TRUE, "ValueError", "none")
  ELSE [NoRet EXCEPT !.num = retval]

(* "I": an unsigned int, without a check of the range. *)
pinkpy_name_event(event) ==
  PINK_CHECK_NULL(pink_name_event(Tables.event, event % UintSpan))

pinkpy_lookup_event(name) ==
  PINK_CHECK_LOOKUP(pink_lookup_event(Tables.event, name) % UintSpan, "event")

pinkpy_name_syscall(scno, abi) ==
  PINK_CHECK_NULL(pink_name_syscall(Tables.syscall, Shuffled, scno, abi))

pinkpy_lookup_syscall(name, abi) ==
  PINK_CHECK_LOOKUP(pink_lookup_syscall(Tables.syscall, Shuffled, name, abi), "syscall")

pinkpy_name_socket_family(family) ==
  PINK_CHECK_NULL(pink_name_socket_family(Tables.socket_family, family))

pinkpy_lookup_socket_family(name) ==
  PINK_CHECK_LOOKUP(pink_lookup_socket_family(Tables.socket_family, name), "socket_family")

pinkpy_name_socket_subcall(subcall) ==
  PINK_CHECK_NULL(pink_name_socket_subcall(Tables.socket_subcall, subcall % UintSpan))

pinkpy_lookup_socket_subcall(name) ==
  PINK_CHECK_LOOKUP(pink_lookup_socket_subcall(Tables.socket_subcall, name) % UintSpan,
                    "socket_subcall")

pinkpy_name_errno(err_no, abi) ==
  PINK_CHECK_NULL(pink_name_errno(Tables.errno, err_no, abi))

pinkpy_lookup_errno(name, abi) ==
  PINK_CHECK_LOOKUP(pink_lookup_errno(Tables.errno, name, abi), "errno")

pinkpy_name_signal(signum, abi) ==
  PINK_CHECK_NULL(pink_name_signal(Tables.signal, signum, abi))

pinkpy_lookup_signal(name, abi) ==
  PINK_CHECK_LOOKUP(pink_lookup_signal(Tables.signal, name, abi), "signal")

NameCall(kind, n, abi) ==
  CASE kind = "event" -> pinkpy_name_event(n)
    [] kind = "syscall" -> pinkpy_name_syscall(n, abi)
    [] kind = "socket_family" -> pinkpy_name_socket_family(n)
    [] kind = "socket_subcall" -> pinkpy_name_socket_subcall(n)
    [] kind = "errno" -> pinkpy_name_errno(n, abi)
    [] kind = "signal" -> pinkpy_name_signal(n, abi)

LookupCall(kind, name, abi) ==
  CASE kind = "event" -> pinkpy_lookup_event(name)
    [] kind = "syscall" -> pinkpy_lookup_syscall(name, abi)
    [] kind = "socket_family" -> pinkpy_lookup_socket_family(name)
    [] kind = "socket_subcall" -> pinkpy_lookup_socket_subcall(name)
    [] kind = "errno" -> pinkpy_lookup_errno(name, abi)
    [] kind = "signal" -> pinkpy_lookup_signal(name, abi)

OtherCall(f, kind) ==
  /\ call = NoCall
  /\ call' = [f |-> f, t |-> 0, tgid |-> 0, needs |-> {kind}]
  /\ UNCHANGED <<requestVars, lang, asked>>

CallName(kind, n, abi) ==
  /\ Ready
  /\ OtherCall("name", kind)
  /\ ret' = NameCall(kind, n, abi)
  /\ named' = IF ret'.null THEN NoName
               ELSE [kind |-> kind, abi |-> abi, num |-> n, str |-> ret'.str]
  /\ UNCHANGED <<objects, memory>>

(* The name that a call gave is looked up, or any other name. *)
CallLookup(kind, name, abi) ==
  /\ named = NoName \/ <<kind, abi, name>> = <<named.kind, named.abi, named.str>>
  /\ OtherCall("lookup", kind)
  /\ ret' = [LookupCall(kind, name, abi) EXCEPT !.str = name]
  /\ UNCHANGED <<named, objects, memory>>

-----------------------------------------------------------------------------
(* py-regset.c *)

(* allocs: how many of the two allocations succeed.  The object is not      *)
(* given back when the second one fails.                                    *)
ProcessRegistrySet_new(o, allocs) ==
  /\ Ready /\ o \notin memory
  /\ OtherCall("new", "none")
  /\ ret' = IF allocs < 2 THEN Ret(TRUE, "MemoryError", "none") ELSE NoRet
  /\ memory' = IF allocs > 0 THEN memory \cup {o} ELSE memory
  /\ objects' = IF allocs = 2 THEN objects \cup {o} ELSE objects
  /\ UNCHANGED named

ProcessRegistrySet_dealloc(o) ==
  /\ Ready /\ o \in objects
  /\ OtherCall("dealloc", "none")
  /\ objects' = objects \ {o} /\ memory' = memory \ {o}
  /\ ret' = NoRet
  /\ UNCHANGED named

pinkpy_regset_fill(o, pid) ==
  /\ o \in objects
  /\ Ends(CallOf("fill", pid, 0, {}), PINK_CALL_TRUE(pink_ptrace("GETREGS", pid, {})))
  /\ UNCHANGED asked

PythonCall ==
  /\ lang # "C"
  /\ \/ \E kind \in Kinds, abi \in Abis :
          \/ \E n \in Numbers[kind] : CallName(kind, n, abi)
          \/ \E name \in Strings[kind] \cup {named.str} : CallLookup(kind, name, abi)
     \/ \E o \in Objects :
          \/ \E allocs \in 0 .. 2 : ProcessRegistrySet_new(o, allocs)
          \/ ProcessRegistrySet_dealloc(o)
          \/ \E pid \in Pids : pinkpy_regset_fill(o, pid)

-----------------------------------------------------------------------------
(* py-system.c: the HAVE_ constants that are 1.  HAVE_OPTION_SECCOMP is     *)
(* added twice, the second time with the value for EXITKILL, and there is   *)
(* no HAVE_OPTION_EXITKILL.                                                 *)

(* Mutant: HAVE_INTERRUPT has the value for SEIZE. *)
InterruptFromSeize ==
  (have \ {"EXITKILL", "INTERRUPT"})
    \cup (IF "SEIZE" \in have THEN {"INTERRUPT"} ELSE {})

system_init ==
  (have \ {"EXITKILL", "SECCOMP"})
    \cup (IF "EXITKILL" \in have THEN {"SECCOMP"} ELSE {})

-----------------------------------------------------------------------------
(* The program goes on; a name is kept until it has been looked up. *)
GoOn ==
  /\ call # NoCall
  /\ call' = NoCall /\ ret' = NoRet
  /\ named' = IF call.f = "lookup" THEN NoName ELSE named
  /\ UNCHANGED <<requestVars, lang, asked, objects, memory>>

(* The threads go on between two calls; what the last call returned is the   *)
(* same before and after, so it is enough that they do once it is seen.      *)
Others ==
  /\ Ready
  /\ TaskStep
  /\ AskedNow(asked)
  /\ UNCHANGED <<have, me, lang, call, ret, named, objects, memory>>

Next == TraceCall \/ PythonCall \/ GoOn \/ Others

Spec == Init /\ [][Next]_vars

-----------------------------------------------------------------------------
(* The exceptions that the documentation of the bindings promises: a call   *)
(* ends with an exception iff the library reported an error or was not      *)
(* called at all.  The case that PINK_CALL gets wrong is left out: -ENOSYS  *)
(* in Python 2, where the call yields True with the error pending.          *)
ErrorIsRaised ==
  call.f \notin {"none", "name", "lookup", "new", "dealloc"}
    /\ ~(lang = "python2" /\ ret.r = "ENOSYS")
  => (Raised(ret) <=> ret.r # "0")

(* A call that fails has done nothing: pink_trace_setup does not set the    *)
(* options before the one that the build lacks, and no request that the     *)
(* kernel refuses, for a thread that has ended or is not stopped by then,   *)
(* leaves a trace.  What ProcessRegistrySet_new loses is all that is lost:  *)
(* the object, if there is no memory for its regset.                        *)
FailureChangesNothing ==
  [][call = NoCall /\ call' # NoCall /\ (Raised(ret') \/ ret'.r = "ENOSYS")
       => /\ UNCHANGED <<tasks, me, asked, objects>>
          /\ memory' # memory => call'.f = "new"]_vars

(* pink_trace_kill with a thread group, where tgkill exists: the id of a    *)
(* thread that has ended may be that of a thread of another process by now, *)
(* and that process is not hit.                                             *)
KillStaysInGroup ==
  [][call = NoCall /\ call'.f = "kill" /\ call'.tgid > 0 /\ "TGKILL" \in have
       => \A t \in Tids : tasks'[t] # tasks[t] => tasks[t].group = call'.tgid]_vars

(* A traced thread has the options that the program last set for it,        *)
(* through pink_trace_setup, which translates them, or pink_trace_seize,    *)
(* which does not, whatever happened to the thread, and to others with the  *)
(* same id, before.                                                         *)
OptionsAreThoseAsked ==
  \A t \in Tids :
    tasks[t].trace # "no" => tasks[t].options = {PtraceBit[o] : o \in asked[t]}

(* "@see pinktrace.system.HAVE_...": a call whose constants are all 1 does  *)
(* not fail for want of support in the build.  In spite of the mix-up of    *)
(* SECCOMP and EXITKILL it holds for the builds there are.                  *)
AdvertisedWorks ==
  call.f \in {"setup", "seize", "interrupt", "listen", "sysemu", "sysemu_singlestep",
             "geteventmsg"} /\ call.needs \subseteq system_init
  => ret.r \notin {"ENOSYS", "EINVAL"}

(* The lookup of the name of a number gives that number (as an unsigned int *)
(* where the binding takes one), and a name without a number is refused     *)
(* rather than given the number -1 or UINT_MAX.                             *)
NamesAgree ==
  call.f = "lookup" =>
    /\ named # NoName =>
         /\ ~ret.null
         /\ ret.num = IF named.kind \in Unsigned THEN named.num % UintSpan ELSE named.num
    /\ ret.null \/ \E kind \in call.needs, abi \in Abis :
                     ~NameCall(kind, ret.num, abi).null
=============================================================================
