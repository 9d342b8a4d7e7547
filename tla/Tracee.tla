-------------------------------- MODULE Tracee ------------------------------
(***************************************************************************)
(* One traced process as its tracer sees it through wait statuses and      *)
(* pinktrace's ptrace requests.  What the kernel does is taken from how    *)
(* trace.c, event.c and the examples use it: a request succeeds only while *)
(* the tracee is in a ptrace-stop, every signal but SIGKILL stops the      *)
(* tracee before it is delivered, and SIGKILL ends it even in a stop.      *)
(***************************************************************************)
EXTENDS Integers

CONSTANTS
  Scno,        (* names of the system calls the tracee makes              *)
  ExitCodes,   (* the exit codes of the tracee                            *)
  MaxSignals   (* bound on the signals, other than SIGKILL, it is sent    *)

ASSUME TraceeAssumption ==
  /\ Scno \subseteq STRING
  /\ "none" \notin Scno
  /\ ExitCodes \subseteq 0 .. 255
  /\ MaxSignals \in Nat

VARIABLES
  run,       (* "new", "running", "stopped", "zombie" or "reaped"         *)
  stop,      (* the kind of the last ptrace-stop                          *)
  fresh,     (* waitpid has not reported that stop yet                    *)
  insys,     (* the tracee is between entry and exit of a system call     *)
  scno,      (* the system call it made last                              *)
  execd,     (* its execve has succeeded                                  *)
  mode,      (* the request it was resumed with                           *)
  options,   (* the tracing options that are set                          *)
  death,     (* its wait status once it ended, -1 before                  *)
  sent,      (* number of signals sent                                    *)
  autoreap   (* SIGCHLD is ignored: the kernel leaves no zombie           *)

traceeVars == <<run, stop, fresh, insys, scno, execd, mode, options, death,
                sent, autoreap>>

SIGTRAP == 5
SIGKILL == 9
SIGSTOP == 19
PTRACE_EVENT_EXEC == 4
EXIT_FAILURE == 1

(* The wait statuses of a tracee that ended: killed, or with an exit code. *)
DeathStatus ==
  {SIGKILL, 256 * EXIT_FAILURE} \cup {256 * c : c \in ExitCodes}

TraceeTypeOK ==
  /\ run \in {"new", "running", "stopped", "zombie", "reaped"}
  /\ stop \in {"signal", "entry", "exit", "exec"}
  /\ fresh \in BOOLEAN /\ insys \in BOOLEAN /\ execd \in BOOLEAN
  /\ scno \in Scno \cup {"none"}
  /\ mode \in {"cont", "syscall"}
  /\ options \subseteq {"SYSGOOD", "EXEC"}
  /\ death \in {-1} \cup DeathStatus
  /\ sent \in 0 .. MaxSignals
  /\ autoreap \in BOOLEAN

TraceeInit ==
  /\ run = "new" /\ stop = "signal" /\ fresh = FALSE
  /\ insys = FALSE /\ scno = "none" /\ execd = FALSE
  /\ mode = "cont" /\ options = {}
  /\ death = -1 /\ sent = 0
  /\ autoreap \in BOOLEAN

-----------------------------------------------------------------------------
(* Wait statuses. *)

(* The status waitpid reports for a stop of kind k. *)
StopStatus(k) ==
  LET sig == CASE k = "signal" -> SIGSTOP
               [] k = "exec" -> SIGTRAP
               [] OTHER -> IF "SYSGOOD" \in options THEN 128 + SIGTRAP ELSE SIGTRAP
      event == IF k = "exec" THEN PTRACE_EVENT_EXEC ELSE 0
  IN  127 + 256 * sig + 65536 * event

WIFEXITED(s) == s % 128 = 0
WEXITSTATUS(s) == (s \div 256) % 256
WTERMSIG(s) == s % 128
WIFSIGNALED(s) == WTERMSIG(s) \in 1 .. 126

(* Mutant: the event is looked for in the wrong byte. *)
EventInTopByte(status) == status \div 16777216

(* pink_event_decide: the event of a wait status, 0 for a plain stop. *)
pink_event_decide(status) == status \div 65536

-----------------------------------------------------------------------------
(* What the tracee does, and what is done to it by others. *)

Stop(k) ==
  /\ run' = "stopped" /\ stop' = k /\ fresh' = TRUE
  /\ UNCHANGED <<options, death, autoreap>>

Die(s) ==
  /\ run' = IF autoreap THEN "reaped" ELSE "zombie"
  /\ fresh' = FALSE
  /\ death' = s
  /\ UNCHANGED <<stop, insys, scno, execd, mode, options, sent, autoreap>>

(* The child calls pink_trace_me and stops itself with SIGSTOP. *)
TraceMe ==
  /\ run = "new"
  /\ Stop("signal")
  /\ UNCHANGED <<insys, scno, execd, mode, sent>>

(* pink_trace_me fails in the child, which gives up. *)
TraceMeFails ==
  /\ run = "new"
  /\ Die(256 * EXIT_FAILURE)

EnterSyscall(n) ==
  /\ run = "running" /\ ~insys
  /\ insys' = TRUE /\ scno' = n /\ execd' = FALSE
  /\ IF mode = "syscall" THEN Stop("entry")
     ELSE UNCHANGED <<run, stop, fresh, options, death, autoreap>>
  /\ UNCHANGED <<mode, sent>>

ExecStop ==
  /\ run = "running" /\ insys /\ scno = "execve" /\ ~execd
  /\ "EXEC" \in options
  /\ execd' = TRUE
  /\ Stop("exec")
  /\ UNCHANGED <<insys, scno, mode, sent>>

ExitSyscall ==
  /\ run = "running" /\ insys /\ scno # "exit_group"
  /\ insys' = FALSE
  /\ IF mode = "syscall" THEN Stop("exit")
     ELSE UNCHANGED <<run, stop, fresh, options, death, autoreap>>
  /\ UNCHANGED <<scno, execd, mode, sent>>

ExitGroup(c) ==
  /\ run = "running" /\ insys /\ scno = "exit_group"
  /\ Die(256 * c)

(* A signal is about to be delivered, which never happens inside a call. *)
SignalStop ==
  /\ run = "running" /\ ~insys
  /\ sent < MaxSignals
  /\ sent' = sent + 1
  /\ Stop("signal")
  /\ UNCHANGED <<insys, scno, execd, mode>>

Kill ==
  /\ run \in {"new", "running", "stopped"}
  /\ Die(SIGKILL)

TraceeStep ==
  \/ TraceMe \/ TraceMeFails
  \/ \E n \in Scno : EnterSyscall(n)
  \/ ExecStop \/ ExitSyscall
  \/ \E c \in ExitCodes : ExitGroup(c)
  \/ SignalStop
  \/ Kill

-----------------------------------------------------------------------------
(* Requests of the tracer. *)

(* Whether a ptrace request succeeds; if not, pink_ptrace returns -ESRCH. *)
PtraceSucceeds == run = "stopped"

(* pink_trace_setup(pid, opts) that succeeds. *)
pink_trace_setup(opts) ==
  /\ PtraceSucceeds
  /\ options' = opts
  /\ UNCHANGED <<run, stop, fresh, insys, scno, execd, mode, death, sent, autoreap>>

(* pink_trace_syscall(pid, 0) (m = "syscall") or pink_trace_resume(pid, 0)   *)
(* (m = "cont") that succeeds.                                               *)
ResumeWith(m) ==
  /\ PtraceSucceeds
  /\ run' = "running" /\ mode' = m /\ fresh' = FALSE
  /\ UNCHANGED <<stop, insys, scno, execd, options, death, sent, autoreap>>

(* waitpid(pid, &status, 0) that reports a status. *)
WaitReports(status) ==
  \/ /\ run = "stopped" /\ fresh
     /\ status = StopStatus(stop)
     /\ fresh' = FALSE
     /\ UNCHANGED <<run, stop, insys, scno, execd, mode, options, death, sent, autoreap>>
  \/ /\ run = "zombie"
     /\ status = death
     /\ run' = "reaped"
     /\ UNCHANGED <<stop, fresh, insys, scno, execd, mode, options, death, sent, autoreap>>

(* waitpid fails with ECHILD. *)
WaitFails == run = "reaped" /\ UNCHANGED traceeVars
=============================================================================
