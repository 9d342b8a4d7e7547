------------------------------ MODULE Requests ------------------------------
(***************************************************************************)
(* The requests of trace.c on the threads of other processes, for a build  *)
(* of the library that has some of the requests and options.  The kernel   *)
(* is taken from how trace.c and its documentation use it.                 *)
(*                                                                         *)
(* A set of flags in an int is the set of the numbers of its bits.         *)
(***************************************************************************)
EXTENDS Integers, FiniteSets

CONSTANTS
  Tids,     (* thread ids                                                  *)
  Groups    (* thread group ids                                            *)

ASSUME RequestsAssumption ==
  /\ Tids \subseteq Nat \ {0}
  /\ Groups \subseteq Nat \ {0}

VARIABLES
  have,    (* what configure found: the PINK_HAVE_ macros that are 1       *)
  tasks,   (* the threads                                                  *)
  me       (* the calling process is traced by its parent                  *)

requestVars == <<have, tasks, me>>

SIGKILL == 9

(* _NSIG of the C library; the kernel's signals are 1 .. _NSIG - 1. *)
NSIG == 65

(* PINK_TRACE_OPTION_*: the bit of each option. *)
PinkBit ==
  [SYSGOOD |-> 0, FORK |-> 1, VFORK |-> 2, CLONE |-> 3, EXEC |-> 4,
   VFORK_DONE |-> 5, EXIT |-> 6, SECCOMP |-> 7, EXITKILL |-> 8]

(* PTRACE_O_*: the kernel has the bit of EXITKILL elsewhere. *)
PtraceBit == [PinkBit EXCEPT !.EXITKILL = 20]

Options == DOMAIN PinkBit

(* Bits of the options that the kernel knows. *)
PTRACE_O_MASK == {PtraceBit[o] : o \in Options}

Calls == {"SETUP", "GETEVENTMSG", "SYSEMU", "SEIZE", "INTERRUPT", "LISTEN",
          "TKILL", "TGKILL", "GETREGS", "GETREGSET", "SETREGS", "SETREGSET",
          "GETSIGINFO"}

Task ==
  [group : Groups,
   run : {"running", "stopped", "listening", "zombie", "gone"},
   trace : {"no", "attached", "seized"},   (* how this process traces it    *)
   options : SUBSET PTRACE_O_MASK,
   trap : BOOLEAN,        (* a stop was asked for and has not happened yet  *)
   stop : {"event", "other"}]   (* PTRACE_EVENT_STOP, or any other stop     *)

Untraced(g) ==
  [group |-> g, run |-> "running", trace |-> "no", options |-> {},
   trap |-> FALSE, stop |-> "other"]

-----------------------------------------------------------------------------
(* What the threads do by themselves. *)

Alive(t) == tasks[t].run \in {"running", "stopped", "listening"}

(* Task k in a stop, and task k traced in another way. *)
Stopped(k, stop) ==
  [group |-> k.group, run |-> "stopped", trace |-> k.trace, options |-> k.options,
   trap |-> FALSE, stop |-> stop]

Traced(k, trace, options, trap) ==
  [group |-> k.group, run |-> k.run, trace |-> trace, options |-> options,
   trap |-> trap, stop |-> k.stop]

(* A traced thread stops: because it was asked to, or for a signal, a call  *)
(* or an event.                                                             *)
StopTask(t) ==
  /\ tasks[t].run = "running" /\ tasks[t].trace # "no"
  /\ LET stop == IF tasks[t].trap /\ tasks[t].trace = "seized" THEN "event" ELSE "other"
     IN  tasks' = [tasks EXCEPT ![t] = Stopped(tasks[t], stop)]

(* PTRACE_INTERRUPT ends the listening. *)
WakeTask(t) ==
  /\ tasks[t].run = "listening" /\ tasks[t].trap
  /\ tasks' = [tasks EXCEPT ![t] = Stopped(tasks[t], tasks[t].stop)]

ExitTask(t) ==
  /\ tasks[t].run = "running"
  /\ tasks' = [tasks EXCEPT ![t].run = "zombie"]

(* It is waited for; its id can be used again, by any process. *)
ReapTask(t) ==
  /\ tasks[t].run = "zombie"
  /\ tasks' = [tasks EXCEPT ![t] = [Untraced(tasks[t].group) EXCEPT !.run = "gone"]]

NewTask(t, g) ==
  /\ tasks[t].run = "gone"
  /\ tasks' = [tasks EXCEPT ![t] = Untraced(g)]

TaskStep ==
  \E t \in Tids : \/ StopTask(t) \/ WakeTask(t) \/ ExitTask(t) \/ ReapTask(t)
                  \/ \E g \in Groups : NewTask(t, g)

-----------------------------------------------------------------------------
(* The kernel's answers: an errno, "0" for success. *)

Exists(t) == t \in Tids /\ tasks[t].run # "gone"

(* The threads after a signal is sent to the process of thread t. *)
Signalled(t, sig) ==
  IF sig # SIGKILL THEN tasks
  ELSE [u \in Tids |-> IF Alive(u) /\ tasks[u].group = tasks[t].group
                       THEN [tasks[u] EXCEPT !.run = "zombie"] ELSE tasks[u]]

Resumes == {"CONT", "SINGLESTEP", "SYSCALL", "SYSEMU", "SYSEMU_SINGLESTEP"}

AttachErrno(req, t, data) ==
  CASE req = "SEIZE" /\ ~(data \subseteq PTRACE_O_MASK) -> "EIO"
    [] tasks[t].trace # "no" \/ tasks[t].run = "zombie" -> "EPERM"
    [] OTHER -> "0"

RequestErrno(req, t, data) ==
  CASE req \in Resumes \cup {"DETACH"} /\ data \notin 0 .. NSIG - 1 -> "EIO"
    [] req = "SETOPTIONS" /\ ~(data \subseteq PTRACE_O_MASK) -> "EINVAL"
    [] req \in {"INTERRUPT", "LISTEN"}
         /\ (tasks[t].trace # "seized" \/ tasks[t].run = "zombie") -> "EIO"
    [] req = "LISTEN" /\ tasks[t].stop # "event" -> "EIO"
    [] OTHER -> "0"

(* Only PTRACE_INTERRUPT is for a tracee that is not stopped. *)
PtraceErrno(req, t, data) ==
  CASE ~Exists(t) -> "ESRCH"
    [] Exists(t) /\ req \in {"ATTACH", "SEIZE"} -> AttachErrno(req, t, data)
    [] OTHER ->
         IF tasks[t].trace = "no" \/ (req # "INTERRUPT" /\ tasks[t].run # "stopped")
         THEN "ESRCH" ELSE RequestErrno(req, t, data)

(* The threads after a request that succeeds. *)
Ptraced(req, t, data) ==
  LET resumed == [tasks EXCEPT ![t].run = "running"]
      detached == [tasks EXCEPT ![t] = Untraced(tasks[t].group)]
  IN  CASE req \in Resumes \cup {"DETACH"} /\ data = SIGKILL -> Signalled(t, data)
        [] req \in Resumes /\ data # SIGKILL -> resumed
        [] req = "DETACH" /\ data # SIGKILL -> detached
        [] req = "ATTACH" ->
             [tasks EXCEPT ![t] = Traced(tasks[t], "attached", tasks[t].options, TRUE)]
        [] req = "SEIZE" ->
             [tasks EXCEPT ![t] = Traced(tasks[t], "seized", data, tasks[t].trap)]
        [] req = "SETOPTIONS" -> [tasks EXCEPT ![t].options = data]
        [] req = "INTERRUPT" -> [tasks EXCEPT ![t].trap = TRUE]
        [] req = "LISTEN" -> [tasks EXCEPT ![t].run = "listening"]
        [] OTHER -> tasks

-----------------------------------------------------------------------------
(* trace.c.  A call yields what it returns, the errno it negates or "0",    *)
(* and the threads after it.                                                *)

Answer(e) == [r |-> e, tasks |-> tasks, me |-> me]

Success(after) == [r |-> "0", tasks |-> after, me |-> me]

pink_ptrace(req, t, data) ==
  LET e == PtraceErrno(req, t, data)
  IN  CASE e = "0" -> Success(Ptraced(req, t, data))
        [] e = "EIO" -> Answer("EFAULT")
        [] OTHER -> Answer(e)

(* The functions that are compiled to return -ENOSYS where the request is   *)
(* missing.                                                                 *)
IfHave(feature, answer) == IF feature \in have THEN answer ELSE Answer("ENOSYS")

pink_trace_me ==
  IF me THEN Answer("EPERM") ELSE [r |-> "0", tasks |-> tasks, me |-> TRUE]

pink_trace_resume(pid, sig) == pink_ptrace("CONT", pid, sig)

(* tkill(tid, sig) and kill(tid, sig); tgkill(tgid, tid, sig). *)
tkill(tid, sig) ==
  CASE ~Exists(tid) -> Answer("ESRCH")
    [] Exists(tid) /\ sig \notin 0 .. NSIG - 1 -> Answer("EINVAL")
    [] OTHER -> Success(Signalled(tid, sig))

tgkill(tgid, tid, sig) ==
  IF Exists(tid) /\ tasks[tid].group # tgid THEN Answer("ESRCH") ELSE tkill(tid, sig)

(* Mutant: the group is not passed on. *)
KillsByTid(tid, tgid, sig) == IF tid <= 0 THEN Answer("EINVAL") ELSE tkill(tid, sig)

(* Mutant: the two results of the ternary operator are swapped. *)
KillsAndFails(tid, tgid, sig) ==
  LET done == IF tgid > 0 THEN tgkill(tgid, tid, sig) ELSE tkill(tid, sig)
  IN  CASE tid <= 0 -> Answer("EINVAL")
        [] tid > 0 /\ done.r = "0" -> [done EXCEPT !.r = "ESRCH"]
        [] OTHER -> Answer("0")

pink_trace_kill(tid, tgid, sig) ==
  CASE tid <= 0 -> Answer("EINVAL")
    [] tid > 0 /\ tgid > 0 /\ "TGKILL" \in have -> tgkill(tgid, tid, sig)
    [] OTHER -> tkill(tid, sig)

pink_trace_singlestep(pid, sig) == pink_ptrace("SINGLESTEP", pid, sig)

pink_trace_syscall(pid, sig) == pink_ptrace("SYSCALL", pid, sig)

pink_trace_geteventmsg(pid) ==
  IfHave("GETEVENTMSG", pink_ptrace("GETEVENTMSG", pid, {}))

(* What these read and write is in Registers. *)
pink_trace_get_regs(pid) == IfHave("GETREGS", pink_ptrace("GETREGS", pid, {}))

pink_trace_get_regset(pid) == IfHave("GETREGSET", pink_ptrace("GETREGSET", pid, {}))

pink_trace_set_regs(pid) == IfHave("SETREGS", pink_ptrace("SETREGS", pid, {}))

pink_trace_set_regset(pid) == IfHave("SETREGSET", pink_ptrace("SETREGSET", pid, {}))

pink_trace_get_siginfo(pid) == IfHave("GETSIGINFO", pink_ptrace("GETSIGINFO", pid, {}))

Wanted(options) == {o \in Options : PinkBit[o] \in options}

(* Mutant: the options are passed on as they are. *)
SetsUntranslated(pid, options) ==
  pink_ptrace("SETOPTIONS", pid, options \cap 0 .. 7)

(* Bits that are no option are not looked at. *)
pink_trace_setup(pid, options) ==
  IfHave("SETUP",
    IF ~(Wanted(options) \subseteq have) THEN Answer("EINVAL")
    ELSE pink_ptrace("SETOPTIONS", pid, {PtraceBit[o] : o \in Wanted(options)}))

pink_trace_sysemu(pid, sig) == IfHave("SYSEMU", pink_ptrace("SYSEMU", pid, sig))

pink_trace_sysemu_singlestep(pid, sig) ==
  IfHave("SYSEMU", pink_ptrace("SYSEMU_SINGLESTEP", pid, sig))

pink_trace_attach(pid) == pink_ptrace("ATTACH", pid, {})

pink_trace_detach(pid, sig) == pink_ptrace("DETACH", pid, sig)

(* Unlike pink_trace_setup, the bits go to the kernel as they are. *)
pink_trace_seize(pid, options) == IfHave("SEIZE", pink_ptrace("SEIZE", pid, options))

pink_trace_interrupt(pid) == IfHave("INTERRUPT", pink_ptrace("INTERRUPT", pid, {}))

pink_trace_listen(pid) == IfHave("LISTEN", pink_ptrace("LISTEN", pid, {}))
=============================================================================
