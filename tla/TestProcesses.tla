--------------------------- MODULE TestProcesses ----------------------------
(***************************************************************************)
(* The processes that the tests of pinktrace-check fork and trace, as far  *)
(* as the kernel reports them to the tester: ptrace-stops, exit statuses,  *)
(* process groups, zombies.  A process runs a program: a sequence of       *)
(* system calls that ends with one of the exits.                           *)
(***************************************************************************)
EXTENDS Integers, Sequences, FiniteSets

VARIABLES
  procs,    (* the processes that are not reaped yet, by pid               *)
  kills     (* how many of them somebody else has killed                    *)

kernelVars == <<procs, kills>>

Exits == {"exit0", "exit1", "exit2", "check"}
Calls == {"getpid", "openat", "lseek", "invalid", "fork", "execve",
          "bind", "connect", "sendto"}
Results == {"none", "pid", "EFAULT", "ENOSYS", "0xdead", "EPERM", "other"}
Errors == {"EFAULT", "ENOSYS", "EPERM"}

(* Wait statuses: [kind, sig, event, code]. *)
Stopped(sig, event) == [kind |-> "stopped", sig |-> sig, event |-> event, code |-> 0]
Exited(code) == [kind |-> "exited", sig |-> "none", event |-> "none", code |-> code]
Signaled == [kind |-> "signaled", sig |-> "none", event |-> "none", code |-> 0]

(* The tester's n-th fork makes process 2n, whose own fork makes 2n + 1. *)
GrandchildOf(p) == p + 1

(* A process after fork: nothing is traced yet, and errno is whatever the     *)
(* tester left in it.  expects is what test_write_retval's child compares     *)
(* with.                                                                      *)
Forked(pgid, program, expects) ==
  [pgid |-> pgid, traced |-> FALSE, run |-> "running", status |-> Exited(0),
   fresh |-> FALSE, program |-> program, at |-> "fork", mode |-> "cont",
   options |-> {}, call |-> "none", arg |-> "orig", mem |-> "orig",
   retval |-> "none", errno |-> "stale", msg |-> 0, expects |-> expects]

InStop(p) == p \in DOMAIN procs /\ procs[p].run = "stopped"

Running == {p \in DOMAIN procs : procs[p].run = "running"}

Alive(p) == p \in DOMAIN procs /\ procs[p].run # "zombie"

(* p becomes proc, and is stopped with status s. *)
StopWith(proc, s) == [proc EXCEPT !.run = "stopped", !.status = s, !.fresh = TRUE]

Dead(proc, s) == [proc EXCEPT !.run = "zombie", !.status = s, !.fresh = TRUE]

(* What is left of the dead when the test that forked them is over: what      *)
(* waitpid tells of them.                                                     *)
Remains ==
  [p \in DOMAIN procs |->
     IF Alive(p) THEN procs[p]
     ELSE [pgid |-> procs[p].pgid, traced |-> procs[p].traced, run |-> "zombie",
           status |-> procs[p].status, fresh |-> procs[p].fresh]]

(* kill(p, SIGKILL): a process that is killed and one that is dead are the    *)
(* same to the tester, whose requests fail and whose waitpid reports SIGKILL. *)
(* kill(-1, SIGKILL) is for every process there is.                           *)
Slain(p) ==
  [q \in DOMAIN procs |->
     IF p \in {-1, q} /\ Alive(q) THEN Dead(procs[q], Signaled) ELSE procs[q]]

-----------------------------------------------------------------------------
(* Mutant: errno is not cleared by the request. *)
KeepsErrno(proc) == [proc EXCEPT !.traced = TRUE]

(* pink_trace_me: pink_ptrace clears errno. *)
TracedByParent(proc) == [proc EXCEPT !.traced = TRUE, !.errno = "0"]

(* trace_me_and_stop, in the child: fails says that pink_trace_me fails. *)
trace_me_and_stop(p, fails) ==
  /\ procs[p].run = "running" /\ procs[p].at = "fork"
  /\ procs' = [procs EXCEPT ![p] =
       IF fails THEN Dead(@, Exited(127))
       ELSE StopWith([TracedByParent(@) EXCEPT !.at = "user"],
                     Stopped("SIGSTOP", "none"))]
  /\ UNCHANGED kills

(* The stop of a process that enters or leaves a system call. *)
SyscallStop(proc) ==
  StopWith(proc, Stopped(IF "SYSGOOD" \in proc.options THEN "SIGTRAP|0x80"
                                                       ELSE "SIGTRAP", "none"))

(* What a call returns; the arguments of openat, bind and so on are not valid. *)
Result(call) ==
  CASE call = "getpid" -> "pid"
    [] call = "openat" -> "EFAULT"
    [] call = "invalid" -> "ENOSYS"
    [] OTHER -> "other"

(* The exit code of the exits; "check" is the comparison that the child of   *)
(* test_write_retval makes before it exits.                                  *)
ExitCode(proc) ==
  CASE Head(proc.program) = "exit0" -> 0
    [] Head(proc.program) = "exit1" -> 1
    [] Head(proc.program) = "exit2" -> 2
    [] Head(proc.program) = "check" ->
         IF /\ proc.retval = proc.expects
            /\ proc.errno = IF proc.expects \in Errors THEN proc.expects ELSE "0"
         THEN 0 ELSE 1

(* A running process gets to its next system call: a stop for a tracer that  *)
(* used PTRACE_SYSCALL.                                                      *)
EnterCall(p) ==
  LET proc == procs[p]
      call == Head(proc.program)
      entered == [proc EXCEPT !.at = "entry", !.call = call]
  IN  /\ proc.at = "user"
      /\ procs' = [procs EXCEPT ![p] =
           IF proc.mode = "syscall" THEN SyscallStop(entered) ELSE entered]

(* A system call that was entered ends: it returns to the program with a stop *)
(* for a tracer that used PTRACE_SYSCALL.                                     *)
Returned(proc) ==
  LET back == [proc EXCEPT !.at = "exit", !.retval = Result(proc.call)]
  IN  IF proc.mode = "syscall" THEN SyscallStop(back) ELSE back

(* The call is carried out: an exit ends the process, fork and execve may     *)
(* have an event first.                                                       *)
CarryOut(p) ==
  LET proc == procs[p]
      event(e, m) == StopWith([proc EXCEPT !.at = "event", !.msg = m],
                              Stopped("SIGTRAP", e))
      plainTrap == StopWith([proc EXCEPT !.at = "event"], Stopped("SIGTRAP", "none"))
      grandchild == [Forked(proc.pgid, <<"exit0">>, "none") EXCEPT
                       !.at = "start", !.traced = "FORK" \in proc.options]
      new == GrandchildOf(p)
  IN  /\ proc.at = "entry"
      /\ procs' =
           CASE proc.call \in Exits -> [procs EXCEPT ![p] = Dead(@, Exited(ExitCode(@)))]
             [] proc.call = "fork" ->
                  [q \in DOMAIN procs \cup {new} |->
                     IF q = new THEN grandchild
                     ELSE IF q = p /\ grandchild.traced THEN event("FORK", new)
                     ELSE IF q = p THEN Returned(proc) ELSE procs[q]]
             [] proc.call = "execve" /\ "EXEC" \in proc.options ->
                  [procs EXCEPT ![p] = event("EXEC", p)]
             [] proc.call = "execve" /\ "EXEC" \notin proc.options ->
                  [procs EXCEPT ![p] = plainTrap]
             [] OTHER -> [procs EXCEPT ![p] = Returned(@)]

(* After an event the call returns. *)
AfterEvent(p) ==
  /\ procs[p].at = "event"
  /\ procs' = [procs EXCEPT ![p] = Returned(@)]

(* Back in the program; the C library sets errno if the call failed. *)
LeaveCall(p) ==
  /\ procs[p].at = "exit"
  /\ procs' = [procs EXCEPT ![p] =
       [@ EXCEPT !.at = "user", !.program = Tail(@),
                 !.errno = IF procs[p].retval \in Errors THEN procs[p].retval ELSE @]]

(* A grandchild begins: stopped if it is traced from its start. *)
Begin(p) ==
  /\ procs[p].at = "start"
  /\ procs' = [procs EXCEPT ![p] =
       IF @.traced THEN StopWith([@ EXCEPT !.at = "user"], Stopped("SIGSTOP", "none"))
                   ELSE [@ EXCEPT !.at = "user"]]

Run(p) ==
  /\ procs[p].run = "running"
  /\ EnterCall(p) \/ CarryOut(p) \/ AfterEvent(p) \/ LeaveCall(p) \/ Begin(p)
  /\ UNCHANGED kills

(* Somebody else kills a process. *)
KilledByOther(p) ==
  /\ Alive(p)
  /\ procs' = Slain(p)
  /\ kills' = kills + 1

-----------------------------------------------------------------------------
(* What the tester's requests do to a process in a ptrace-stop. *)

SetOptions(p, options) == [procs EXCEPT ![p].options = options]

Resumed(p, mode) == [procs EXCEPT ![p].run = "running", ![p].mode = mode]

Reaped(p) == [q \in DOMAIN procs \ {p} |-> procs[q]]

(* The processes that waitpid(-pgid) can report on: the tester's children     *)
(* and tracees in the group.                                                  *)
Waitable(pgid) ==
  {p \in DOMAIN procs : procs[p].pgid = pgid /\ (p % 2 = 0 \/ procs[p].traced)}

Reportable(pgid) == {p \in Waitable(pgid) : procs[p].fresh}

(* waitpid reports p: a dead process is reaped. *)
Reported(p) ==
  IF procs[p].run = "zombie" THEN Reaped(p) ELSE [procs EXCEPT ![p].fresh = FALSE]
=============================================================================
