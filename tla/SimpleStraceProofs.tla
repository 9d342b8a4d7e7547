-------------------------- MODULE SimpleStraceProofs ------------------------
(***************************************************************************)
(* For every set of system calls and exit codes, and any number of         *)
(* signals: pink-simple-strace prints what the tracee does unless it has   *)
(* been sent an odd number of signals, and returns the exit code of a      *)
(* tracee that exits.                                                      *)
(***************************************************************************)
EXTENDS SimpleStrace, TLAPS

(* The lines are one stop off. *)
Odd == sent % 2 = 1

(* Where the tracee can be, given where main is. *)
PlaceInv ==
  /\ run \in {"zombie", "reaped"} <=> death # -1
  /\ run = "new" => pc = "wait0"
  /\ run = "running" => pc \in {"wait", "returned"} /\ mode = "syscall"
  /\ run = "reaped" /\ ~autoreap => pc \in {"setup", "returned"}
  /\ pc \in {"wait0", "setup"} => death \in {-1, SIGKILL, 256 * EXIT_FAILURE}
  /\ pc \in {"update0", "resume", "update", "handle", "decode_execve"} =>
       death \in {-1, SIGKILL}
  /\ pc \in {"wait0", "setup", "update0"} =>
       ~insys /\ ~insyscall /\ line = "none" /\ ~Odd
  /\ pc = "update" => (pink_event_decide(status) = 0 <=> stop # "exec")
  /\ pc = "handle" => stop # "exec"

(* A stop that handle_syscall still has to see. *)
Pending ==
  /\ pc \in {"update", "handle"} \/ (pc = "wait" /\ run = "stopped")
  /\ stop # "exec"

(* The toggle of handle_syscall follows the tracee, one pending stop behind; *)
(* every signal turns it over.                                               *)
StepInv ==
  pc # "returned" /\ run \in {"running", "stopped"} =>
    /\ IF Pending THEN insyscall <=> (insys <=> Odd)
                  ELSE ~(insyscall <=> (insys <=> Odd))
    /\ ~Pending => line = IF insyscall THEN scno ELSE "none"
    /\ pc = "handle" => regs = scno

(* The types of main's variables. *)
MainTypeOK ==
  /\ pc \in {"wait0", "setup", "update0", "resume", "wait", "update", "handle",
             "decode_execve", "returned"}
  /\ status \in Nat
  /\ insyscall \in BOOLEAN
  /\ regs \in Calls /\ line \in Calls
  /\ i \in 0 .. IndexSpan - 1
  /\ rc \in -1 .. 255
  /\ pc = "returned" <=> rc # -1
  /\ page0 \in BOOLEAN

IInv ==
  /\ TypeOK
  /\ PlaceInv
  /\ ExitCodeIsTheTracees
  /\ StepInv

(* What main finds out from a wait status. *)
LEMMA StopStatusFacts ==
  ASSUME NEW k \in {"signal", "entry", "exit", "exec"}
  PROVE  /\ StopStatus(k) \in Nat
         /\ ~WIFEXITED(StopStatus(k)) /\ ~WIFSIGNALED(StopStatus(k))
         /\ pink_event_decide(StopStatus(k)) =
              IF k = "exec" THEN PTRACE_EVENT_EXEC ELSE 0
<1>. DEFINE s == StopStatus(k)
<1>1. s \in {4991, 34175, 1407, 263551} /\ (k = "exec" <=> s = 263551)
  BY DEF StopStatus, SIGTRAP, SIGSTOP, PTRACE_EVENT_EXEC
<1>. HIDE DEF s
<1>2. s \in Nat /\ s % 128 = 127
      /\ s \div 65536 = IF k = "exec" THEN 4 ELSE 0
  BY <1>1
<1>3. s \in Nat /\ ~WIFEXITED(s) /\ ~WIFSIGNALED(s)
      /\ pink_event_decide(s) = IF k = "exec" THEN PTRACE_EVENT_EXEC ELSE 0
  BY <1>2 DEF WIFEXITED, WIFSIGNALED, WTERMSIG, pink_event_decide,
              PTRACE_EVENT_EXEC
<1>. QED
  BY <1>3 DEF s

LEMMA DeathStatusFacts ==
  ASSUME NEW s \in DeathStatus
  PROVE  /\ s \in Nat
         /\ WIFEXITED(s) \/ WIFSIGNALED(s)
         /\ ExitCode(s) \in 0 .. 255
         /\ IF WIFEXITED(s) THEN ExitCode(s) = WEXITSTATUS(s)
            ELSE ExitCode(s) = 128 + SIGKILL
<1>1. CASE s = SIGKILL
  BY <1>1 DEF SIGKILL, WIFEXITED, WIFSIGNALED, WTERMSIG, ExitCode
<1>2. ASSUME NEW c \in 0 .. 255, s = 256 * c
      PROVE  s \in Nat /\ WIFEXITED(s) /\ WEXITSTATUS(s) \in 0 .. 255
  BY <1>2 DEF WIFEXITED, WEXITSTATUS
<1>3. CASE s # SIGKILL
  <2>1. PICK c \in 0 .. 255 : s = 256 * c
    BY <1>3, TraceeAssumption DEF DeathStatus, EXIT_FAILURE
  <2>2. s \in Nat /\ WIFEXITED(s) /\ WEXITSTATUS(s) \in 0 .. 255
    BY ZenonT(60), <1>2, <2>1
  <2>. QED
    BY <2>2 DEF ExitCode
<1>. QED
  BY <1>1, <1>3

(* The exit code main returns for a tracee that it finds gone. *)
LEMMA GoneCodes ==
  /\ ~WIFEXITED(SIGKILL)
  /\ WEXITSTATUS(256 * EXIT_FAILURE) = EXIT_FAILURE
BY DEF WIFEXITED, SIGKILL, WEXITSTATUS, EXIT_FAILURE

(* Only a signal changes Odd. *)
LEMMA OddKept == sent' = sent => (Odd' <=> Odd)
BY DEF Odd

LEMMA OddTurned == sent \in Nat /\ sent' = sent + 1 => (Odd' <=> ~Odd)
BY DEF Odd

LEMMA InitEstablishes == Init => IInv
<1>. SUFFICES ASSUME Init
              PROVE  IInv
  OBVIOUS
<1>. USE TraceeAssumption, StraceAssumption DEF Init, TraceeInit
<1>0. /\ fresh \in BOOLEAN /\ insys \in BOOLEAN /\ execd \in BOOLEAN
      /\ insyscall \in BOOLEAN
  BY Zenon
<1>1. TraceeTypeOK
  <2>1. /\ run \in {"new", "running", "stopped", "zombie", "reaped"}
        /\ stop \in {"signal", "entry", "exit", "exec"}
        /\ mode \in {"cont", "syscall"}
        /\ scno \in Scno \cup {"none"} /\ options = {}
    OBVIOUS
  <2>2. death \in {-1} \cup DeathStatus /\ sent \in 0 .. MaxSignals
    OBVIOUS
  <2>. QED
    BY <1>0, <2>1, <2>2, Zenon DEF TraceeTypeOK
<1>2. MainTypeOK
  <2>1. /\ status \in Nat /\ i \in 0 .. IndexSpan - 1 /\ rc \in -1 .. 255
        /\ pc = "wait0" /\ rc = -1 /\ pc # "returned"
        /\ regs \in Calls /\ line \in Calls
    BY DEF Calls
  <2>. QED
    BY <1>0, <2>1, Zenon DEF MainTypeOK
<1>3. PlaceInv
  BY DEF PlaceInv, Odd
<1>4. StepInv /\ ExitCodeIsTheTracees
  BY DEF StepInv, ExitCodeIsTheTracees, Odd
<1>. QED
  BY <1>1, <1>2, <1>3, <1>4 DEF IInv, TypeOK, MainTypeOK

(* waitpid keeps the types. *)
LEMMA WaitReportsType ==
  ASSUME TraceeTypeOK, NEW s, WaitReports(s)
  PROVE  TraceeTypeOK'
<1>1. CASE run = "stopped"
  BY ZenonT(60), <1>1 DEF WaitReports, TraceeTypeOK
<1>2. CASE run = "zombie"
  BY ZenonT(60), <1>2 DEF WaitReports, TraceeTypeOK
<1>. QED
  BY <1>1, <1>2 DEF WaitReports

-----------------------------------------------------------------------------
(* The steps of main. *)
LEMMA Wait0Keeps == IInv /\ Wait0 => IInv'
<1>. SUFFICES ASSUME IInv, Wait0
              PROVE  IInv'
  OBVIOUS
<1>. USE TraceeAssumption, StraceAssumption DEF IInv, TypeOK
<1>1. pc = "wait0"
  BY DEF Wait0
<1>2. CASE WaitReports(status') /\ Goto("setup")
  <2>1. status' \in Nat
    BY <1>2, StopStatusFacts, DeathStatusFacts DEF WaitReports, TraceeTypeOK, PlaceInv
  <2>2. TypeOK'
    <3>1. TraceeTypeOK'
      BY <1>2, WaitReportsType
    <3>2. MainTypeOK'
      BY <1>1, <1>2, <2>1 DEF WaitReports, Goto, TraceeTypeOK, Calls,
         MainTypeOK
    <3>. QED
      BY <3>1, <3>2 DEF MainTypeOK
  <2>3. PlaceInv'
    BY <1>1, <1>2, OddKept DEF WaitReports, Goto, PlaceInv
  <2>4. StepInv'
    BY <1>1, <1>2, OddKept DEF WaitReports, Goto, PlaceInv, StepInv, Pending
  <2>5. ExitCodeIsTheTracees'
    BY <1>2 DEF Goto, ExitCodeIsTheTracees
  <2>. QED
    BY <2>2, <2>3, <2>4, <2>5
<1>3. CASE WaitFails /\ (Goto("setup") \/ Return(134)) /\ UNCHANGED status
  <2>0. run = "reaped" /\ autoreap
    BY <1>1, <1>3 DEF WaitFails, PlaceInv, TraceeTypeOK
  <2>1. TypeOK'
    <3>1. TraceeTypeOK'
      BY <1>1, <1>3 DEF WaitFails, Goto, Return, TraceeTypeOK, traceeVars,
         Calls
    <3>2. MainTypeOK'
      BY <1>1, <1>3 DEF WaitFails, Goto, Return, TraceeTypeOK, traceeVars,
         Calls, MainTypeOK
    <3>. QED
      BY <3>1, <3>2 DEF MainTypeOK
  <2>2. PlaceInv'
    BY <1>1, <1>3, <2>0, OddKept DEF WaitFails, Goto, Return, traceeVars, PlaceInv
  <2>3. StepInv'
    BY <1>3, <2>0 DEF WaitFails, traceeVars, StepInv
  <2>4. ExitCodeIsTheTracees'
    BY <1>3, <2>0 DEF WaitFails, traceeVars, ExitCodeIsTheTracees
  <2>. QED
    BY <2>1, <2>2, <2>3, <2>4
<1>. QED
  BY <1>2, <1>3 DEF Wait0

LEMMA SetupKeeps == IInv /\ Setup => IInv'
<1>. SUFFICES ASSUME IInv, Setup
              PROVE  IInv'
  OBVIOUS
<1>. USE TraceeAssumption, StraceAssumption DEF IInv, TypeOK, PtraceSucceeds
<1>1. pc = "setup" /\ status' = status
  BY DEF Setup
<1>2. CASE pink_trace_setup({"SYSGOOD", "EXEC"}) /\ Goto("update0")
  <2>1. TypeOK'
    <3>1. TraceeTypeOK'
      BY <1>1, <1>2 DEF pink_trace_setup, Goto, TraceeTypeOK, Calls
    <3>2. MainTypeOK'
      BY <1>1, <1>2 DEF pink_trace_setup, Goto, TraceeTypeOK, Calls, MainTypeOK
    <3>. QED
      BY <3>1, <3>2 DEF MainTypeOK
  <2>2. PlaceInv'
    BY <1>1, <1>2, OddKept DEF pink_trace_setup, Goto, PlaceInv
  <2>3. StepInv'
    BY <1>1, <1>2, OddKept DEF pink_trace_setup, Goto, PlaceInv, StepInv, Pending
  <2>4. ExitCodeIsTheTracees'
    BY <1>2 DEF Goto, ExitCodeIsTheTracees
  <2>. QED
    BY <2>1, <2>2, <2>3, <2>4
<1>3. CASE ~PtraceSucceeds /\ UNCHANGED traceeVars /\ Return(EXIT_FAILURE)
  <2>0. run \in {"zombie", "reaped"} /\ death \in {SIGKILL, 256 * EXIT_FAILURE}
    BY <1>1, <1>3 DEF PlaceInv, TraceeTypeOK
  <2>1. TypeOK'
    <3>1. TraceeTypeOK'
      BY <1>1, <1>3 DEF Return, TraceeTypeOK, traceeVars, Calls, EXIT_FAILURE
    <3>2. MainTypeOK'
      BY <1>1, <1>3 DEF Return, TraceeTypeOK, traceeVars, Calls, EXIT_FAILURE,
         MainTypeOK
    <3>. QED
      BY <3>1, <3>2 DEF MainTypeOK
  <2>2. PlaceInv'
    BY <1>1, <1>3, <2>0, OddKept DEF Return, traceeVars, PlaceInv
  <2>3. StepInv'
    BY <1>3 DEF Return, StepInv
  <2>4. ExitCodeIsTheTracees'
    BY <1>3, <2>0, GoneCodes
       DEF Return, traceeVars, ExitCodeIsTheTracees, SIGKILL, EXIT_FAILURE
  <2>. QED
    BY <2>1, <2>2, <2>3, <2>4
<1>. QED
  BY <1>2, <1>3 DEF Setup

LEMMA UpdateKeeps == IInv /\ (Update0 \/ Update) => IInv'
<1>. SUFFICES ASSUME IInv, Update0 \/ Update
              PROVE  IInv'
  OBVIOUS
<1>. USE DEF IInv, TypeOK, PtraceSucceeds, process_update
<1>1. TypeOK'
  <2>1. TraceeTypeOK'
    BY ZenonT(60) DEF Update0, Update, TraceeTypeOK, traceeVars, Calls
  <2>2. MainTypeOK'
    <3>1. regs' \in Calls
      BY DEF Update0, Update, TraceeTypeOK, Calls
    <3>2. CASE Update0
      BY Zenon, <3>1, <3>2 DEF Update0, MainTypeOK
    <3>3. CASE Update
      BY <3>1, <3>3 DEF Update, MainTypeOK
    <3>. QED
      BY <3>2, <3>3
  <2>. QED
    BY <2>1, <2>2 DEF MainTypeOK
<1>2. PlaceInv'
  BY OddKept DEF Update0, Update, traceeVars, PlaceInv, pink_event_decide
<1>3. StepInv'
  <2>1. CASE Update0
    BY <2>1, OddKept DEF Update0, traceeVars, PlaceInv, StepInv, Pending
  <2>2. CASE Update
    BY <2>2, OddKept DEF Update, traceeVars, PlaceInv, StepInv, Pending
  <2>. QED
    BY <2>1, <2>2
<1>4. ExitCodeIsTheTracees'
  BY DEF Update0, Update, ExitCodeIsTheTracees
<1>. QED
  BY <1>1, <1>2, <1>3, <1>4

LEMMA ResumeKeeps == IInv /\ Resume => IInv'
<1>. SUFFICES ASSUME IInv, Resume
              PROVE  IInv'
  OBVIOUS
<1>. USE DEF IInv, TypeOK, PtraceSucceeds
<1>1. pc = "resume" /\ status' = status
  BY DEF Resume
<1>2. CASE ResumeWith("syscall") /\ Goto("wait")
  <2>1. TypeOK'
    <3>1. TraceeTypeOK'
      BY ZenonT(60), <1>1, <1>2 DEF ResumeWith, Goto, TraceeTypeOK, Calls
    <3>2. MainTypeOK'
      BY <1>1, <1>2 DEF ResumeWith, Goto, TraceeTypeOK, Calls, MainTypeOK
    <3>. QED
      BY <3>1, <3>2 DEF MainTypeOK
  <2>2. PlaceInv'
    BY <1>1, <1>2, OddKept DEF ResumeWith, Goto, PlaceInv
  <2>3. StepInv'
    BY <1>1, <1>2, OddKept DEF ResumeWith, Goto, StepInv, Pending
  <2>4. ExitCodeIsTheTracees'
    BY <1>2 DEF Goto, ExitCodeIsTheTracees
  <2>. QED
    BY <2>1, <2>2, <2>3, <2>4
<1>3. CASE ~PtraceSucceeds /\ UNCHANGED traceeVars /\ Return(0)
  <2>0. run \in {"zombie", "reaped"} /\ death = SIGKILL
    BY <1>1, <1>3 DEF PlaceInv, TraceeTypeOK
  <2>1. TypeOK'
    <3>1. TraceeTypeOK'
      BY <1>1, <1>3 DEF Return, TraceeTypeOK, traceeVars, Calls
    <3>2. MainTypeOK'
      BY <1>1, <1>3 DEF Return, TraceeTypeOK, traceeVars, Calls, MainTypeOK
    <3>. QED
      BY <3>1, <3>2 DEF MainTypeOK
  <2>2. PlaceInv'
    BY <1>1, <1>3, <2>0, OddKept DEF Return, traceeVars, PlaceInv
  <2>3. StepInv'
    BY <1>3 DEF Return, StepInv
  <2>4. ExitCodeIsTheTracees'
    BY <1>3, <2>0, GoneCodes DEF Return, traceeVars, ExitCodeIsTheTracees, SIGKILL
  <2>. QED
    BY <2>1, <2>2, <2>3, <2>4
<1>. QED
  BY <1>2, <1>3 DEF Resume

LEMMA WaitKeeps == IInv /\ Wait => IInv'
<1>. SUFFICES ASSUME IInv, Wait
              PROVE  IInv'
  OBVIOUS
<1>. USE DEF IInv, TypeOK
<1>1. pc = "wait"
  BY DEF Wait
<1>2. CASE WaitReports(status') /\ run = "stopped"
  <2>1. status' = StopStatus(stop) /\ fresh' = FALSE
        /\ UNCHANGED <<run, stop, insys, scno, execd, mode, options, death, sent,
                       autoreap>>
    BY <1>2 DEF WaitReports
  <2>2. /\ status' \in Nat /\ ~WIFEXITED(status') /\ ~WIFSIGNALED(status')
        /\ pink_event_decide(status') =
             IF stop = "exec" THEN PTRACE_EVENT_EXEC ELSE 0
    BY <2>1, StopStatusFacts DEF TraceeTypeOK
  <2>3. Goto("update")
    <3>1. Goto(AfterEvent(pink_event_decide(status')))
      BY <1>1, <1>2, <2>2 DEF Wait, WaitFails
    <3>. QED
      BY <2>2, <3>1 DEF AfterEvent
  <2>4. TypeOK'
    <3>1. TraceeTypeOK'
      BY ZenonT(60), <1>1, <2>1, <2>2, <2>3 DEF Goto, TraceeTypeOK, Calls
    <3>2. MainTypeOK'
      BY <1>1, <2>1, <2>2, <2>3 DEF Goto, TraceeTypeOK, Calls, MainTypeOK
    <3>. QED
      BY <3>1, <3>2 DEF MainTypeOK
  <2>5. PlaceInv'
    <3>1. pink_event_decide(status)' = 0 <=> stop' # "exec"
      BY <2>1, <2>2 DEF pink_event_decide, PTRACE_EVENT_EXEC
    <3>. QED
      BY <1>1, <1>2, <2>1, <2>3, <3>1 DEF Goto, PlaceInv
  <2>6. StepInv'
    BY <1>1, <1>2, <2>1, <2>3, OddKept DEF Goto, StepInv, Pending
  <2>7. ExitCodeIsTheTracees'
    BY <2>3 DEF Goto, ExitCodeIsTheTracees
  <2>. QED
    BY <2>4, <2>5, <2>6, <2>7
<1>3. CASE WaitReports(status') /\ run = "zombie"
  <2>1. status' = death /\ run' = "reaped"
        /\ UNCHANGED <<stop, fresh, insys, scno, execd, mode, options, death, sent,
                       autoreap>>
    BY <1>3 DEF WaitReports
  <2>2. death \in DeathStatus
    BY <1>3 DEF PlaceInv, TraceeTypeOK
  <2>3. /\ death \in Nat
        /\ WIFEXITED(death) \/ WIFSIGNALED(death)
        /\ ExitCode(death) \in 0 .. 255
        /\ IF WIFEXITED(death) THEN ExitCode(death) = WEXITSTATUS(death)
           ELSE ExitCode(death) = 128 + SIGKILL
    BY <2>2, DeathStatusFacts
  <2>4. Return(ExitCode(death))
    BY <1>1, <1>3, <2>1, <2>3 DEF Wait, WaitFails
  <2>5. TypeOK'
    <3>1. TraceeTypeOK'
      BY <1>1, <2>1, <2>3, <2>4 DEF Return, TraceeTypeOK, Calls
    <3>2. MainTypeOK'
      BY <1>1, <2>1, <2>3, <2>4 DEF Return, TraceeTypeOK, Calls, MainTypeOK
    <3>. QED
      BY <3>1, <3>2 DEF MainTypeOK
  <2>6. PlaceInv'
    BY <1>3, <2>1, <2>4, OddKept DEF Return, PlaceInv
  <2>7. StepInv'
    BY <2>4 DEF Return, StepInv
  <2>8. ExitCodeIsTheTracees'
    <3>1. death # -1 /\ death' = death /\ rc' = ExitCode(death)
      BY <2>1, <2>3, <2>4 DEF Return
    <3>. QED
      BY <2>3, <3>1 DEF ExitCodeIsTheTracees, WIFEXITED, WEXITSTATUS
  <2>. QED
    BY <2>5, <2>6, <2>7, <2>8
<1>4. CASE WaitFails /\ Return(0) /\ UNCHANGED status
  <2>0. run = "reaped" /\ autoreap
    BY <1>1, <1>4 DEF WaitFails, PlaceInv, TraceeTypeOK
  <2>1. TypeOK'
    <3>1. TraceeTypeOK'
      BY <1>1, <1>4 DEF WaitFails, Return, TraceeTypeOK, traceeVars, Calls
    <3>2. MainTypeOK'
      BY <1>1, <1>4 DEF WaitFails, Return, TraceeTypeOK, traceeVars, Calls,
         MainTypeOK
    <3>. QED
      BY <3>1, <3>2 DEF MainTypeOK
  <2>2. PlaceInv'
    BY <1>1, <1>4, <2>0, OddKept DEF WaitFails, Return, traceeVars, PlaceInv
  <2>3. StepInv'
    BY <1>4 DEF Return, StepInv
  <2>4. ExitCodeIsTheTracees'
    BY <1>4, <2>0 DEF WaitFails, traceeVars, ExitCodeIsTheTracees
  <2>. QED
    BY <2>1, <2>2, <2>3, <2>4
<1>. QED
  BY Zenon, <1>2, <1>3, <1>4 DEF Wait, WaitReports

LEMMA HandleKeeps == IInv /\ (Handle \/ DecodeExecve) => IInv'
<1>. SUFFICES ASSUME IInv, Handle \/ DecodeExecve
              PROVE  IInv'
  OBVIOUS
<1>. USE DEF IInv, TypeOK, PtraceSucceeds
<1>1. i' \in 0 .. IndexSpan - 1
  BY StraceAssumption DEF Handle, DecodeExecve
<1>2. TypeOK'
  <2>1. TraceeTypeOK'
    BY ZenonT(60), <1>1 DEF Handle, DecodeExecve, TraceeTypeOK, traceeVars, Calls
  <2>2. MainTypeOK'
    <3>1. line' \in Calls /\ insyscall' \in BOOLEAN
      BY Zenon DEF Handle, DecodeExecve, Calls
    <3>2. CASE Handle
      BY <1>1, <3>1, <3>2 DEF Handle, MainTypeOK
    <3>3. CASE DecodeExecve
      BY <1>1, <3>3 DEF DecodeExecve, MainTypeOK
    <3>. QED
      BY <3>2, <3>3
  <2>. QED
    BY <2>1, <2>2 DEF MainTypeOK
<1>3. PlaceInv'
  BY OddKept DEF Handle, DecodeExecve, traceeVars, PlaceInv
<1>4. StepInv'
  <2>1. CASE Handle
    BY ZenonT(60), <2>1, OddKept DEF Handle, traceeVars, PlaceInv, StepInv, Pending
  <2>2. CASE DecodeExecve
    BY <2>2, OddKept DEF DecodeExecve, traceeVars, StepInv, Pending
  <2>. QED
    BY <2>1, <2>2
<1>5. ExitCodeIsTheTracees'
  BY DEF Handle, DecodeExecve, ExitCodeIsTheTracees
<1>. QED
  BY <1>2, <1>3, <1>4, <1>5

-----------------------------------------------------------------------------
(* The steps of the tracee: it dies, or it runs and stops. *)
LEMMA DieKeeps ==
  ASSUME IInv, UNCHANGED mainVars, pc # "returned",
         NEW s \in DeathStatus,
         Die(s),
         run \in {"new", "running", "stopped"},
         s # SIGKILL => run = "running" \/ (run = "new" /\ s = 256 * EXIT_FAILURE)
  PROVE  IInv'
<1>. USE TraceeAssumption DEF IInv, TypeOK, mainVars
<1>1. s # -1
  BY DeathStatusFacts
<1>2. TypeOK'
  <2>1. TraceeTypeOK'
    BY ZenonT(60) DEF Die, TraceeTypeOK, Calls
  <2>2. MainTypeOK'
    BY DEF Die, TraceeTypeOK, Calls, MainTypeOK
  <2>. QED
    BY <2>1, <2>2 DEF MainTypeOK
<1>3. PlaceInv'
  BY <1>1, OddKept DEF Die, PlaceInv, pink_event_decide
<1>4. StepInv'
  BY DEF Die, StepInv
<1>5. ExitCodeIsTheTracees'
  BY DEF ExitCodeIsTheTracees
<1>. QED
  BY <1>2, <1>3, <1>4, <1>5

LEMMA RunTypes ==
  ASSUME TraceeTypeOK,
         \/ TraceMe \/ ExecStop \/ ExitSyscall \/ SignalStop
         \/ \E n \in Scno : EnterSyscall(n)
  PROVE  TraceeTypeOK'
<1>. USE TraceeAssumption DEF TraceeTypeOK, Stop
<1>1. CASE TraceMe
  BY <1>1 DEF TraceMe
<1>2. CASE ExecStop
  BY <1>2 DEF ExecStop
<1>3. CASE ExitSyscall
  <2>1. CASE mode = "syscall"
    BY ZenonT(60), <1>3, <2>1 DEF ExitSyscall
  <2>2. CASE mode # "syscall"
    BY ZenonT(60), <1>3, <2>2 DEF ExitSyscall
  <2>. QED
    BY <2>1, <2>2
<1>4. CASE SignalStop
  BY <1>4 DEF SignalStop
<1>5. ASSUME NEW n \in Scno, EnterSyscall(n)
      PROVE  TraceeTypeOK'
  <2>1. CASE mode = "syscall"
    BY ZenonT(60), <1>5, <2>1 DEF EnterSyscall
  <2>2. CASE mode # "syscall"
    BY ZenonT(60), <1>5, <2>2 DEF EnterSyscall
  <2>. QED
    BY <2>1, <2>2
<1>. QED
  BY <1>1, <1>2, <1>3, <1>4, <1>5

LEMMA RunKeeps ==
  ASSUME IInv, UNCHANGED mainVars, pc # "returned",
         \/ TraceMe \/ ExecStop \/ ExitSyscall \/ SignalStop
         \/ \E n \in Scno : EnterSyscall(n)
  PROVE  IInv'
<1>. USE TraceeAssumption DEF IInv, TypeOK, mainVars
<1>1. TypeOK'
  <2>1. TraceeTypeOK'
    BY RunTypes
  <2>2. MainTypeOK'
    BY Zenon DEF TraceMe, ExecStop, ExitSyscall, SignalStop, EnterSyscall, Stop,
       TraceeTypeOK, Calls, MainTypeOK
  <2>. QED
    BY <2>1, <2>2 DEF MainTypeOK
<1>2. PlaceInv'
  <2>1. CASE TraceMe
    BY <2>1, OddKept DEF TraceMe, Stop, PlaceInv, TraceeTypeOK
  <2>2. CASE ExecStop
    BY <2>2, OddKept DEF ExecStop, Stop, PlaceInv, TraceeTypeOK
  <2>3. CASE ExitSyscall
    BY <2>3, OddKept DEF ExitSyscall, Stop, PlaceInv, TraceeTypeOK
  <2>4. CASE SignalStop
    BY <2>4 DEF SignalStop, Stop, PlaceInv, TraceeTypeOK
  <2>5. ASSUME NEW n \in Scno, EnterSyscall(n)
        PROVE  PlaceInv'
    BY <2>5 DEF EnterSyscall, Stop, PlaceInv, TraceeTypeOK
  <2>. QED
    BY Zenon, <2>1, <2>2, <2>3, <2>4, <2>5
<1>3. StepInv'
  <2>1. CASE TraceMe
    BY <2>1, OddKept DEF TraceMe, Stop, PlaceInv, StepInv, Pending
  <2>2. CASE ExecStop
    BY Zenon, <2>2, OddKept DEF ExecStop, Stop, PlaceInv, StepInv, Pending
  <2>3. CASE ExitSyscall
    BY Zenon, <2>3, OddKept DEF ExitSyscall, Stop, PlaceInv, StepInv, Pending
  <2>4. CASE SignalStop
    <3>1. Odd' <=> ~Odd
      BY <2>4, OddTurned DEF SignalStop, TraceeTypeOK
    <3>. QED
      BY Zenon, <2>4, <3>1 DEF SignalStop, Stop, PlaceInv, StepInv, Pending
  <2>5. ASSUME NEW n \in Scno, EnterSyscall(n)
        PROVE  StepInv'
    BY Zenon, <2>5, OddKept DEF EnterSyscall, Stop, PlaceInv, StepInv, Pending
  <2>. QED
    BY <2>1, <2>2, <2>3, <2>4, <2>5
<1>4. ExitCodeIsTheTracees'
  BY DEF ExitCodeIsTheTracees
<1>. QED
  BY <1>1, <1>2, <1>3, <1>4

LEMMA ChildKeeps == IInv /\ Child => IInv'
<1>. SUFFICES ASSUME IInv, Child
              PROVE  IInv'
  OBVIOUS
<1>1. pc # "returned" /\ TraceeStep /\ UNCHANGED mainVars
  BY DEF Child
<1>2. CASE TraceMeFails
  BY <1>1, <1>2, DieKeeps DEF TraceMeFails, DeathStatus
<1>3. ASSUME NEW c \in ExitCodes, ExitGroup(c)
      PROVE  IInv'
  BY <1>1, <1>3, DieKeeps DEF ExitGroup, DeathStatus
<1>4. CASE Kill
  BY <1>1, <1>4, DieKeeps DEF Kill, DeathStatus
<1>. QED
  BY <1>1, <1>2, <1>3, <1>4, RunKeeps DEF TraceeStep

-----------------------------------------------------------------------------
(* IInv is an invariant of the specification. *)
LEMMA InductiveInvariant == Spec => []IInv
<1>1. IInv /\ UNCHANGED vars => IInv'
  <2>. SUFFICES ASSUME IInv, UNCHANGED vars
                PROVE  IInv'
    OBVIOUS
  <2>1. TypeOK'
    BY DEF vars, traceeVars, mainVars, IInv, TypeOK, TraceeTypeOK, Calls
  <2>2. PlaceInv'
    BY OddKept DEF vars, traceeVars, mainVars, IInv, PlaceInv, Pending, pink_event_decide
  <2>3. ExitCodeIsTheTracees'
    BY DEF vars, traceeVars, mainVars, IInv, ExitCodeIsTheTracees
  <2>4. StepInv'
    BY OddKept DEF vars, traceeVars, mainVars, IInv, StepInv, Pending, pink_event_decide
  <2>. QED
    BY <2>1, <2>2, <2>3, <2>4 DEF IInv
<1>2. IInv /\ [Next]_vars => IInv'
  BY <1>1, Wait0Keeps, SetupKeeps, UpdateKeeps, ResumeKeeps, WaitKeeps,
     HandleKeeps, ChildKeeps DEF Next, Main, Terminated
<1>. QED
  BY InitEstablishes, <1>2, PTL DEF Spec

(* The variables keep their types, and main has a result when it returns. *)
THEOREM StraceTypeCorrect == Spec => []TypeOK
<1>1. IInv => TypeOK
  BY DEF IInv
<1>. QED
  BY InductiveInvariant, <1>1, PTL

(* Whatever calls the tracee makes and whenever it is killed, the lines that *)
(* handle_syscall prints are in step with it after an even number of         *)
(* signals, and of the call it made last after any number.                   *)
THEOREM LinesMatch == Spec => []LineMatchesUnlessOdd
<1>1. IInv => LineMatchesUnlessOdd
  <2>. SUFFICES ASSUME IInv
                PROVE  LineMatchesUnlessOdd
    OBVIOUS
  <2>1. sent % 2 = 0 => ~Odd
    BY DEF Odd
  <2>2. pc = "resume" /\ run = "stopped" =>
          /\ ~(insyscall <=> (insys <=> Odd))
          /\ line = IF insyscall THEN scno ELSE "none"
    BY DEF IInv, StepInv, Pending
  <2>. QED
    BY <2>1, <2>2 DEF LineMatchesUnlessOdd, LineMatchesCall
<1>. QED
  BY InductiveInvariant, <1>1, PTL

(* With any number of signals, main returns the exit code of a tracee that   *)
(* exits, and the code of a tracee that is gone only for one that was killed. *)
THEOREM ExitCodesMatch == Spec => []ExitCodeIsTheTracees
<1>1. IInv => ExitCodeIsTheTracees
  BY DEF IInv
<1>. QED
  BY InductiveInvariant, <1>1, PTL
=============================================================================
