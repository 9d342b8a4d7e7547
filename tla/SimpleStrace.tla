----------------------------- MODULE SimpleStrace ---------------------------
(***************************************************************************)
(* examples/pink-simple-strace.c: a tracer that prints the system calls of *)
(* its child.  Every request and every wait is a step; the child runs, is  *)
(* signalled or is killed in between.                                      *)
(***************************************************************************)
EXTENDS Tracee

CONSTANT IndexSpan   (* 2^(8 * sizeof(unsigned)), the span of an argv index *)

ASSUME StraceAssumption == IndexSpan \in Nat \ {0}

VARIABLES
  pc,         (* where main is                                           *)
  status,     (* local of main                                           *)
  insyscall,  (* proc.insyscall                                          *)
  regs,       (* proc.regs: the call that the cached registers show      *)
  line,       (* the call whose entry was handled last, if its result is *)
              (* still to come; what a decoder prints of it is left out  *)
  i,          (* local of decode_execve                                  *)
  rc,         (* what main returned, -1 before                           *)
  page0       (* the tracee can be read at address 0                     *)

mainVars == <<pc, status, insyscall, regs, line, i, rc, page0>>
vars == <<traceeVars, mainVars>>

Calls == Scno \cup {"none"}

(* main has a result exactly when it has returned. *)
TypeOK ==
  /\ TraceeTypeOK
  /\ pc \in {"wait0", "setup", "update0", "resume", "wait", "update", "handle",
             "decode_execve", "returned"}
  /\ status \in Nat
  /\ insyscall \in BOOLEAN
  /\ regs \in Calls /\ line \in Calls
  /\ i \in 0 .. IndexSpan - 1
  /\ rc \in -1 .. 255
  /\ pc = "returned" <=> rc # -1
  /\ page0 \in BOOLEAN

Init ==
  /\ TraceeInit
  /\ pc = "wait0" /\ status = 0
  /\ insyscall = FALSE /\ regs = "none" /\ line = "none"
  /\ i = 0 /\ rc = -1
  /\ page0 \in BOOLEAN

-----------------------------------------------------------------------------
Return(code) ==
  /\ pc' = "returned" /\ rc' = code
  /\ UNCHANGED <<insyscall, regs, line, i, page0>>

Goto(where) ==
  /\ pc' = where
  /\ UNCHANGED <<insyscall, regs, line, i, rc, page0>>

(* The first waitpid, whose result is not looked at: if it fails, status is  *)
(* not initialised and the assertion on its event may abort the tracer.      *)
Wait0 ==
  /\ pc = "wait0"
  /\ \/ /\ WaitReports(status')
        /\ pink_event_decide(status') = 0
        /\ Goto("setup")
     \/ /\ WaitFails
        /\ Goto("setup") \/ Return(134)
        /\ UNCHANGED status

(* pink_trace_setup; if it fails the child is killed, which is of no use for *)
(* a child that is gone.                                                     *)
Setup ==
  /\ pc = "setup"
  /\ \/ pink_trace_setup({"SYSGOOD", "EXEC"}) /\ Goto("update0")
     \/ ~PtraceSucceeds /\ UNCHANGED traceeVars /\ Return(EXIT_FAILURE)
  /\ UNCHANGED status

(* process_update: pink_regset_fill may fail, and then the old registers     *)
(* are used.                                                                 *)
process_update == regs' = IF PtraceSucceeds THEN scno ELSE regs

Update0 ==
  /\ pc = "update0"
  /\ process_update
  /\ pc' = "resume" /\ insyscall' = FALSE
  /\ UNCHANGED <<traceeVars, status, line, i, rc, page0>>

(* Mutant: main returns without a value. *)
ResumeReturnsNothing ==
  /\ pc = "resume"
  /\ \/ ResumeWith("syscall") /\ Goto("wait")
     \/ ~PtraceSucceeds /\ UNCHANGED traceeVars /\ Goto("returned")
  /\ UNCHANGED status

(* Mutant: a request that fails is tried again. *)
ResumeRetries ==
  /\ pc = "resume"
  /\ \/ ResumeWith("syscall") /\ Goto("wait")
     \/ ~PtraceSucceeds /\ UNCHANGED traceeVars /\ Goto("resume")
  /\ UNCHANGED status

(* The head of the loop: pink_trace_syscall(proc.pid, 0). *)
Resume ==
  /\ pc = "resume"
  /\ \/ ResumeWith("syscall") /\ Goto("wait")
     \/ ~PtraceSucceeds /\ UNCHANGED traceeVars /\ Return(0)
  /\ UNCHANGED status

(* Mutant: the loop goes on after an exec event without resuming. *)
AfterEventWaits(event) == IF event = 0 THEN "update" ELSE "wait"

(* Where main goes after a stop: the switch on the event. *)
AfterEvent(event) ==
  IF event \in {0, PTRACE_EVENT_EXEC} THEN "update" ELSE "resume"

(* Mutant: the code of a normal exit is the low byte. *)
LowByte(s) ==
  IF WIFEXITED(s) THEN s % 256 ELSE 128 + WTERMSIG(s)

(* The exit code of main for the status of a tracee that ended. *)
ExitCode(s) ==
  IF WIFEXITED(s) THEN WEXITSTATUS(s) ELSE 128 + WTERMSIG(s)

(* The waitpid of the loop. *)
Wait ==
  /\ pc = "wait"
  /\ \/ /\ WaitReports(status')
        /\ IF WIFEXITED(status') \/ WIFSIGNALED(status')
           THEN Return(ExitCode(status'))
           ELSE Goto(AfterEvent(pink_event_decide(status')))
     \/ WaitFails /\ Return(0) /\ UNCHANGED status

(* The cases of the switch: a plain stop is taken for a system call. *)
Update ==
  /\ pc = "update"
  /\ process_update
  /\ pc' = IF pink_event_decide(status) = 0 THEN "handle" ELSE "resume"
  /\ UNCHANGED <<traceeVars, status, insyscall, line, i, rc, page0>>

(* handle_syscall: every second call prints a result.  decode_execve reads   *)
(* the file name at address 0 and gives up if that fails.                    *)
Handle ==
  /\ pc = "handle"
  /\ insyscall' = ~insyscall
  /\ line' = IF insyscall THEN "none" ELSE regs
  /\ pc' = IF ~insyscall /\ regs = "execve" /\ page0 /\ PtraceSucceeds
           THEN "decode_execve" ELSE "resume"
  /\ i' = 0
  /\ UNCHANGED <<traceeVars, status, regs, rc, page0>>

(* The loop of decode_execve.  It ends at the NULL of argv, or if a string   *)
(* cannot be read; a pointer that cannot be read, as in a tracee that was    *)
(* killed, looks like an empty argument and the loop goes on.                *)
DecodeExecve ==
  /\ pc = "decode_execve"
  /\ i' = (i + 1) % IndexSpan
  /\ pc' = "decode_execve" \/ (PtraceSucceeds /\ pc' = "resume")
  /\ UNCHANGED <<traceeVars, status, insyscall, regs, line, rc, page0>>

Main ==
  \/ Wait0 \/ Setup \/ Update0 \/ Resume \/ Wait \/ Update \/ Handle
  \/ DecodeExecve

Child == pc # "returned" /\ TraceeStep /\ UNCHANGED mainVars

Terminated == pc = "returned" /\ UNCHANGED vars

Next == Main \/ Child \/ Terminated

Spec == Init /\ [][Next]_vars

(* The tracer's process keeps running, and nothing else is assumed. *)
FairSpec == Spec /\ WF_vars(Main)

-----------------------------------------------------------------------------
(* When main is about to resume a tracee that is still stopped, the line it  *)
(* is at waits for a result exactly if the tracee is inside a call, and is   *)
(* the line of that call.  handle_syscall: "We get this event twice, one at    *)
(* entering a system call and one at exiting a system call."                 *)
LineMatchesCall ==
  pc = "resume" /\ run = "stopped" =>
    /\ insyscall <=> insys
    /\ line = IF insys THEN scno ELSE "none"

(* What pink-simple-strace achieves.  The stop for a signal other than       *)
(* SIGKILL is taken for one of a system call, so that the lines are one stop *)
(* off after it; the stop for another signal puts them in step again.        *)
(* Meanwhile a line may begin with the exit of a call, but it is the call    *)
(* that the tracee made last and never an older one.                         *)
LineMatchesUnlessOdd ==
  /\ sent % 2 = 0 => LineMatchesCall
  /\ pc = "resume" /\ run = "stopped" => line \in {"none", scno}

(* If the tracee ended by itself main returns its exit code, if it was       *)
(* killed 128 + SIGKILL, or what main returns for a tracee that is gone.     *)
ExitCodeIsTheTracees ==
  pc = "returned" /\ ~autoreap =>
    /\ death # -1
    /\ IF WIFEXITED(death) THEN rc = WEXITSTATUS(death)
       ELSE rc \in {128 + SIGKILL, 0, EXIT_FAILURE}

(* main leaves no tracee in a stop. *)
StopsAreAnswered == ~page0 /\ run = "stopped" ~> run # "stopped"

(* main notices the end of the tracee, wherever it is then. *)
DeathIsNoticed == ~page0 /\ death # -1 ~> pc = "returned"
=============================================================================
