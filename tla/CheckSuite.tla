----------------------------- MODULE CheckSuite -----------------------------
(***************************************************************************)
(* pinktrace-check: main, the tests of Tests one after the other, the      *)
(* helpers of pinktrace-check.c, and the processes they fork.  The library *)
(* is seen through its promises: at most one of its functions is at fault, *)
(* and then returns an error or gets one part of its answer wrong.         *)
(***************************************************************************)
EXTENDS Tests, Seatest

CONSTANTS
  Worlds,     (* what the program may meet: [argv, skip, release, fault,   *)
              (* aarch64, others]; skip is the set of fixtures that        *)
              (* PINK_CHECK_SKIP names, release the numbers of the         *)
              (* kernel's release, others whether somebody else kills      *)
  MaxArgs,    (* PINK_MAX_ARGS                                             *)
  MaxKills    (* bound on the processes that somebody else kills           *)

VARIABLES
  argv, skip, release, others,   (* the world: with fault and aarch64      *)
  os_release, (* the global                                                *)
  runner,     (* the options of seatest                                    *)
  pc,         (* where the tester is                                       *)
  n, test,    (* the test that runs, and its number                        *)
  steps,      (* what is left to do at this stop                           *)
  pid,        (* the test's local pid: -1 after a failed fork              *)
  pgid,       (* the global _pgid                                          *)
  insyscall,  (* the local insyscall; "done" stands for write_done         *)
  it_worked,
  expected, found,       (* expected_grandchild, found_grandchild          *)
  val,        (* the values read so far: "right", "wrong" or "junk"        *)
  inPipe,     (* what is in the pipe of test_read_write_int                *)
  failed,     (* sea_tests_failed > 0                                      *)
  code,       (* exit status of the program                                *)
  reported,   (* history: the process of the last wait status              *)
  broke       (* history: the fault that has shown, <<function, part>>     *)

world == <<argv, skip, release, fault, aarch64, others>>
locals == <<pid, insyscall, it_worked, expected, found, val, inPipe, reported>>
setup == <<os_release, runner>>
vars == <<kernelVars, world, setup, pc, n, test, steps, locals, pgid, failed, code, broke>>

KERNEL_VERSION(a, b, c) == a * 65536 + b * 256 + c

(* rel << 8 | number, for numbers below 256. *)
Shifted(rel, number) == rel * 256 + number

(* Mutant: the loop goes on after the third number. *)
AllNumbers(numbers) ==
  LET rel == FoldLeft(Shifted, 0, numbers)
  IN  CASE rel >= KERNEL_VERSION(1, 0, 0) -> rel
        [] rel < KERNEL_VERSION(0, 1, 0) -> 0
        [] OTHER -> rel * 256

(* get_os_release, of the numbers of the release: "X.Y" is "X.Y.0"; 0 stands  *)
(* for exit(EXIT_FAILURE).                                                    *)
get_os_release(numbers) ==
  LET rel == FoldLeft(LAMBDA r, number :
                        IF r >= KERNEL_VERSION(1, 0, 0) THEN r ELSE Shifted(r, number),
                      0, numbers)
  IN  CASE rel >= KERNEL_VERSION(1, 0, 0) -> rel
        [] rel < KERNEL_VERSION(0, 1, 0) -> 0
        [] OTHER -> rel * 256

IsOld == os_release < KERNEL_VERSION(3, 0, 0)

(* all_tests: the fixtures in their order, without those to be skipped. *)
all_tests ==
  LET named(name, fixture) ==
        [k \in DOMAIN fixture |-> [fixture |-> name, entry |-> fixture[k]]]
      suite(name, fixture) == IF name \in skip THEN <<>> ELSE named(name, fixture)
  IN  suite("trace", test_fixture_trace) \o suite("vm", test_fixture_vm(MaxArgs))
      \o suite("read", test_fixture_read(MaxArgs))
      \o suite("write", test_fixture_write(MaxArgs))
      \o suite("socket", test_fixture_socket) \o suite("pipe", test_fixture_pipe)

NoTest == OneStop(<<>>, <<>>)

(* test_trace_clone is the one test that asks for the fork event. *)
IsClone == "FORK" \in test.options

-----------------------------------------------------------------------------
(* The functions of the library that the tests call. *)

(* The functions that may be wrong, and the parts of their answers: all that  *)
(* they give to the caller or do ("work"), whether a test compares it or not. *)
(* The registers are those of the call, of the argument that the test asks    *)
(* for, of the result, and the rest with the ABI; of trace_setup every option *)
(* is a part; trace_syscall may resume the tracee without asking for a stop.  *)
(* Not among them is one that resumes or traces nothing and says it has: the  *)
(* tester then waits for ever.                                                *)
Memory == {"data", "tail"} \cup Count
Answers ==
  [trace_setup |-> {"SYSGOOD", "CLONE", "FORK", "VFORK", "EXEC"},
   trace_syscall |-> {"work"}, geteventmsg |-> {"msg"}, event_decide |-> {"FORK", "EXEC"},
   regset_fill |-> {"nr", "arg", "ret", "rest"},
   read_syscall |-> {"sysnum"}, read_retval |-> {"retval"}, read_argument |-> {"argument"},
   vm_lread |-> Memory, vm_lread_nul |-> Memory, read_vm_data |-> Memory,
   read_vm_data_nul |-> Memory, read_string_array |-> Memory \cup {"null", "null_end"},
   read_socket_subcall |-> {"subcall"},
   read_socket_address |->
     {"fd", "family", "length", "other", "path", "abstract", "port", "ip", "nl_pid", "nl_groups"},
   write_syscall |-> {"work"}, write_retval |-> {"work"}, write_argument |-> {"work"},
   write_vm_data |-> {"work"} \cup Count,
   lookup_syscall |-> {"getpid", "openat", "lseek", "error"},
   pipe_write_int |-> {"int"}, pipe_read_int |-> {"int"}, pipe_close |-> {"work"}]

(* What may be wrong: nothing; one call, of a given function or of any, that  *)
(* fails for no reason or gets one part of its answer wrong; or a part that a *)
(* function gets wrong always.                                                *)
NoFault == [mode |-> "none", op |-> "none", value |-> "none"]
Error(op) == [mode |-> "error", op |-> op, value |-> "any"]
Once(op) == [mode |-> "once", op |-> op, value |-> "any"]
Always(op, v) == [mode |-> "always", op |-> op, value |-> v]
Permanent == UNION {{Always(op, v) : v \in Answers[op]} : op \in DOMAIN Answers}

Unbroken == <<"none", "none">>

(* The function of the library behind a step. *)
FunctionOf(op) == IF op = "read_string_array_end" THEN "read_string_array" ELSE op

(* fork, setpgid and the call that a child makes may fail as well. *)
MayError(op) ==
  /\ broke = Unbroken
  /\ \E o \in {"any", FunctionOf(op)} : fault = Error(o)

(* broke, once op has failed. *)
BreaksIf(fails, op) == IF fails THEN <<FunctionOf(op), "error">> ELSE broke

(* The functions that make requests to the tracee, and those whose _or_kill   *)
(* dumps the result, as many bytes as the function returned.                  *)
Reads == {"vm_lread", "vm_lread_nul", "read_vm_data", "read_vm_data_nul",
          "read_string_array", "read_string_array_end"}
Writes == {"write_syscall", "write_retval", "write_argument", "write_vm_data"}
Copies == {"read_syscall", "read_retval", "read_argument", "read_socket_subcall"}
Requests == {"trace_setup", "trace_syscall", "trace_resume", "geteventmsg",
             "regset_fill", "read_socket_address"} \cup Reads \cup Writes

(* The values that a function uses, and the parts of its answer. *)
Uses(op) ==
  CASE op \in {"read_syscall", "read_socket_subcall"} -> {"nr", "rest"}
    [] op = "read_retval" -> {"ret", "rest"}
    [] op \in {"read_argument", "read_socket_address"} -> {"arg", "rest"}
    [] op \in Reads \cup {"write_vm_data"} -> {"argument", "rest"}
    [] op \in Writes \ {"write_vm_data"} -> {"rest"}
    [] OTHER -> {}

Yields(op) ==
  CASE op = "trace_setup" -> test.options
    [] op = "read_string_array" -> Memory \cup {"null"}
    [] op = "read_string_array_end" -> {"null_end"} \cup Count
    [] op \in Reads \cup {"read_socket_address"} -> test.parts
    [] op \in DOMAIN Answers \ Reads -> Answers[op]
    [] OTHER -> {}

(* What a call may get wrong. *)
Lies(op) ==
  CASE fault.op \notin {"any", FunctionOf(op)} -> {{}}
    [] fault.mode = "always" -> {{fault.value} \cap Yields(op)}
    [] fault.mode = "once" /\ broke = Unbroken -> {{}} \cup {{v} : v \in Yields(op)}
    [] OTHER -> {{}}

(* broke, after op got wrong what lied says. *)
BreaksBy(lied, op) ==
  IF lied = {} THEN broke ELSE <<FunctionOf(op), CHOOSE v \in lied : TRUE>>

(* The values that the tests keep. *)
Values == UNION {Answers[op] : op \in {"regset_fill", "geteventmsg", "pipe_read_int"}
                                      \cup Copies \cup (Reads \ {"read_string_array_end"})
                                      \cup {"read_socket_address"}}

(* Before anything is read: rint is 0, the others are not initialized. *)
Unread == [[v \in Values |-> "junk"] EXCEPT !.int = "wrong"]

(* Whether the tracee has what the test expects of value v. *)
AsExpected(v) ==
  LET proc == procs[pid]
  IN  CASE v \in {"sysnum", "subcall"} -> proc.call = Head(test.child)
        [] v = "retval" -> proc.retval = test.retval
        [] v = "argument" -> proc.arg = test.arg
        [] v \in {"data", "tail"} -> proc.mem = test.mem
        [] v = "msg" -> IF IsClone THEN proc.msg = GrandchildOf(pid)
                        ELSE proc.msg = pid /\ ~IsOld
        [] OTHER -> TRUE

(* The quality of value v from function op; lied: what it gets wrong.  Wrong  *)
(* values that nothing is copied from make it "junk", which may or may not be *)
(* what the test expects: the bytes at another address, or an address read    *)
(* from other arguments.  So do registers of the rest, and a count that is    *)
(* too large, after which a test leaves the string as long as it is.          *)
Quality(op, v, lied) ==
  LET inputs == {val[u] : u \in Uses(op)}
  IN  CASE v \in lied -> IF v \in {"rest", "count_max"} THEN "junk" ELSE "wrong"
        [] "junk" \in inputs \/ ("wrong" \in inputs /\ op \notin Copies) -> "junk"
        [] "wrong" \in inputs \/ ~AsExpected(v) -> "wrong"
        [] OTHER -> "right"

(* What a write may leave undone: always if it goes to a wrong address, and   *)
(* perhaps if the registers it starts from are wrong.                         *)
Outcomes(op) ==
  CASE op \in Writes /\ "wrong" \in {val[u] : u \in Uses(op)} -> {{"work"}}
    [] op \in Writes /\ "junk" \in {val[u] : u \in Uses(op)} -> Lies(op) \cup {{"work"}}
    [] OTHER -> Lies(op)

-----------------------------------------------------------------------------
(* main *)

Init ==
  /\ \E w \in Worlds :
       /\ argv = w.argv /\ skip = w.skip /\ release = w.release
       /\ fault = w.fault /\ aarch64 = w.aarch64 /\ others = w.others
  /\ procs = <<>> /\ kills = 0
  /\ os_release = 0 /\ runner = Runner
  /\ pc = "start" /\ n = 1 /\ test = NoTest /\ steps = <<>>
  /\ pid = 0 /\ pgid = -1 /\ insyscall = "no" /\ it_worked = FALSE
  /\ expected = 0 /\ found = 0 /\ val = Unread /\ inPipe = "none" /\ reported = 0
  /\ failed = FALSE /\ code = 0 /\ broke = Unbroken

(* The release is looked at, then seatest_testrunner reads the command line. *)
Main ==
  /\ pc = "start"
  /\ os_release' = get_os_release(release)
  /\ LET bad == os_release' = 0
     IN  /\ runner' = IF bad THEN runner ELSE seatest_interpret_commandline(argv)
         /\ pc' = IF ~bad /\ CallsTests(runner') THEN "test" ELSE "exited"
         /\ code' = IF bad THEN 1 ELSE 0
  /\ UNCHANGED <<kernelVars, world, n, test, steps, locals, pgid, failed, broke>>

(* run_test: the next test begins if the filters let it.  A failed lookup is  *)
(* recorded, and the test goes on with -1.                                    *)
BeginTest ==
  /\ pc = "test" /\ n <= Len(all_tests)
  /\ \E t \in {all_tests[n]} :
       LET new == TestOf(t.entry, IsOld)
           unknown == new.looksUp # {} /\ fault = Always("lookup_syscall", "error")
           lookup == unknown \/ \E name \in new.looksUp : fault = Always("lookup_syscall", name)
       IN  IF seatest_should_run(runner, t.fixture, t.entry[1])
           THEN /\ test' = new
                /\ pc' = IF new.child = <<>> THEN "steps" ELSE "fork"
                /\ steps' = IF new.child = <<>> THEN new.first ELSE <<>>
                /\ failed' = (failed \/ unknown)
                /\ broke' = IF lookup THEN <<fault.op, fault.value>> ELSE broke
                /\ UNCHANGED n
           ELSE n' = n + 1 /\ UNCHANGED <<test, pc, steps, failed, broke>>
  /\ UNCHANGED <<kernelVars, world, setup, locals, pgid, code>>

(* The tests are over: main returns what run_tests says. *)
Finish ==
  /\ pc = "test" /\ n > Len(all_tests)
  /\ pc' = "exited"
  /\ code' = IF run_tests(runner, failed) THEN 0 ELSE 1
  /\ UNCHANGED <<kernelVars, world, setup, n, test, steps, locals, pgid, failed, broke>>

AfterFork == IF test.regset THEN "alloc" ELSE "wait"

(* fork_assert, in the parent.  A failed fork is recorded, and then setpgid   *)
(* and kill have -1 for the child; _pgid is that of an earlier test.          *)
fork_assert ==
  /\ pc = "fork"
  /\ pc' = AfterFork
  /\ \E program \in {test.child} \cup IF MayError("child_call") THEN {test.fallback} ELSE {} :
     LET new(group) == Forked(group, program, test.expects)
         with(proc) == [q \in DOMAIN procs \cup {2 * n} |-> IF q = 2 * n THEN proc ELSE procs[q]]
     IN  \/ /\ procs' = with(new(2 * n))
            /\ pid' = 2 * n /\ pgid' = 2 * n
            /\ broke' = BreaksIf(program # test.child, "child_call")
            /\ UNCHANGED failed
         \/ /\ MayError("fork")
            /\ procs' = Slain(-1)
            /\ pid' = -1 /\ failed' = TRUE /\ broke' = BreaksIf(TRUE, "fork")
            /\ UNCHANGED pgid
         \/ /\ MayError("setpgid")
            /\ procs' = with(Dead(new(0), Signaled))
            /\ pid' = -1 /\ failed' = TRUE /\ broke' = BreaksIf(TRUE, "setpgid")
            /\ UNCHANGED pgid
  /\ UNCHANGED <<kills, world, setup, n, test, steps, insyscall, it_worked, expected, found,
                 val, inPipe, reported, code>>

regset_alloc_or_kill ==
  /\ pc = "alloc"
  /\ pc' = "wait"
  /\ \/ UNCHANGED <<procs, failed, broke>>
     \/ /\ MayError("regset_alloc")
        /\ procs' = Slain(pid) /\ failed' = TRUE /\ broke' = BreaksIf(TRUE, "regset_alloc")
  /\ UNCHANGED <<kills, world, setup, n, test, steps, locals, pgid, code>>

-----------------------------------------------------------------------------
(* The loop of a test: a wait status, then steps, then the next wait. *)

(* Mutant: a status of any child will do. *)
AnyGroup == {p \in DOMAIN procs : procs[p].fresh}

(* waitpid_no_intr(-_pgid), which only ends with EINTR to begin again. *)
wait_no_intr == Reportable(pgid)

(* pink_event_decide of status s; lied: the events it does not know. *)
event_decide(s, lied) == IF s.event \in lied THEN "none" ELSE s.event

(* What a test does about a stop with status s of its child. *)
StopSteps(s, event) ==
  CASE s.sig = "SIGSTOP" -> <<"trace_setup">>
    [] s.sig = "SIGTRAP|0x80" ->
         [no |-> test.first, in |-> test.second, done |-> <<>>][insyscall]
    [] s.sig = "SIGTRAP" /\ event = "EXEC" -> test.trap
    [] s.sig = "SIGTRAP" /\ event = "FORK" -> <<"geteventmsg", "expected">>
    [] OTHER -> <<>>

(* The status of p in all tests but test_trace_clone: check_exit_code_or_fail, *)
(* check_signal_or_fail, check_stopped_or_kill.                                *)
CommonStatus(p, s, event) ==
  /\ procs' = Reported(p)
  /\ \/ /\ s.kind = "exited" /\ s.code = 0
        /\ steps' = test.exited \o <<"break">> /\ pc' = "steps"
        /\ UNCHANGED failed
     \/ /\ s.kind = "signaled" \/ (s.kind = "exited" /\ s.code # 0)
        /\ failed' = TRUE /\ pc' = "aborted"
        /\ UNCHANGED steps
     \/ /\ s.kind = "stopped"
        /\ steps' = StopSteps(s, event) \o <<"trace_syscall">> /\ pc' = "steps"
        /\ UNCHANGED failed
  /\ UNCHANGED found

(* The status of p in test_trace_clone.  After a signal it falls through to   *)
(* what it does at a stop.                                                    *)
CloneStatus(p, s, event) ==
  LET without(q) == [r \in DOMAIN procs \ {p} |-> Slain(q)[r]]
      bad == s.kind = "signaled" \/ (s.kind = "exited" /\ s.code # 0)
  IN  /\ procs' = IF bad /\ p # pid THEN without(pid) ELSE Reported(p)
      /\ failed' = (failed \/ bad)
      /\ \/ /\ s.kind = "exited"
            /\ UNCHANGED <<pc, steps, found>>
         \/ /\ s.kind # "exited" /\ p # pid
            /\ found' = p
            /\ steps' = <<"trace_resume">> /\ pc' = "steps"
         \/ /\ s.kind # "exited" /\ p = pid
            /\ steps' = StopSteps(s, event) \o <<"trace_syscall">> /\ pc' = "steps"
            /\ UNCHANGED found

(* The loop gets a status. *)
WaitStatus ==
  /\ pc = "wait"
  /\ \E p \in wait_no_intr :
       LET s == procs[p].status
       IN  \E lied \in Lies("event_decide") :
             /\ IF IsClone THEN CloneStatus(p, s, event_decide(s, lied))
                           ELSE CommonStatus(p, s, event_decide(s, lied))
             /\ reported' = p
             /\ broke' = BreaksBy(lied \cap {s.event}, "event_decide")
  /\ UNCHANGED <<kills, world, setup, n, test, pid, insyscall, it_worked, expected, val,
                 inPipe, pgid, code>>

(* check_echild_or_kill: there is nobody left to wait for. *)
WaitEchild ==
  /\ pc = "wait" /\ Waitable(pgid) = {}
  /\ steps' = <<"break">> /\ pc' = "steps"
  /\ UNCHANGED <<kernelVars, world, setup, n, test, locals, pgid, failed, code, broke>>

(* The steps of a stop are done. *)
Again ==
  /\ pc = "steps" /\ steps = <<>>
  /\ pc' = "wait"
  /\ UNCHANGED <<kernelVars, world, setup, n, test, steps, locals, pgid, failed, code, broke>>

-----------------------------------------------------------------------------
(* The steps. *)

Step(names) == pc = "steps" /\ steps # <<>> /\ Head(steps) \in names

(* The process a function is for: the grandchild is resumed. *)
Target(op) == IF op = "trace_resume" THEN found ELSE pid

(* Mutant: the failure is recorded and the tracee stays as it is. *)
LetLive(op) == procs

(* The processes killed when op fails. *)
SlainFor(op) ==
  IF op = "trace_resume"
  THEN [q \in DOMAIN procs |-> IF q = found THEN Slain(q)[q] ELSE Slain(pid)[q]]
  ELSE Slain(pid)

(* A function of the library returns an error: its _or_kill kills the tracee  *)
(* and records a failure.  The memory readers then dump -1 bytes of their     *)
(* buffer, which may end the program.                                         *)
FunctionFails ==
  /\ Step(Requests \cup Copies)
  /\ LET op == Head(steps)
     IN  /\ \/ MayError(op)
            \/ op \in Requests /\ ~InStop(Target(op))
            \/ op \in Requests /\ \E v \in Uses(op) : val[v] # "right"
         /\ procs' = SlainFor(op)
         /\ broke' = BreaksIf(MayError(op), op)
         /\ pc' \in {"steps"} \cup IF op \in Reads THEN {"aborted"} ELSE {}
         /\ steps' = Tail(steps)
  /\ failed' = TRUE
  /\ UNCHANGED <<kills, world, setup, n, test, locals, pgid, code>>

(* What a function does to the tracee; lied: what it does not do. *)
Effect(op, lied) ==
  LET works == "work" \notin lied
  IN  CASE op = "trace_setup" -> SetOptions(pid, test.options \ lied)
        [] op = "trace_syscall" -> Resumed(pid, IF works THEN "syscall" ELSE "cont")
        [] op = "trace_resume" -> Resumed(found, "cont")
        [] op = "write_syscall" /\ works -> [procs EXCEPT ![pid].call = test.newcall]
        [] op = "write_retval" /\ works -> [procs EXCEPT ![pid].retval = test.expects]
        [] op = "write_argument" /\ works -> [procs EXCEPT ![pid].arg = "new"]
        [] op = "write_vm_data" /\ works -> [procs EXCEPT ![pid].mem = "new"]
        [] OTHER -> procs

(* A function returns without an error, with its answer right or wrong.  A    *)
(* count that is smaller than was asked for is printed, and no more.          *)
FunctionReturns ==
  /\ Step(Requests \cup Copies)
  /\ LET op == Head(steps)
     IN  /\ op \in Requests => InStop(Target(op))
         /\ \E lied \in Outcomes(op) :
              /\ procs' = Effect(op, lied)
              /\ val' = [v \in Values |-> IF v \in Yields(op) THEN Quality(op, v, lied)
                                                               ELSE val[v]]
              /\ broke' = IF lied \in Lies(op) THEN BreaksBy(lied, op) ELSE broke
         /\ steps' = Tail(steps)
  /\ UNCHANGED <<kills, world, setup, pc, n, test, pid, insyscall, it_worked, expected, found,
                 inPipe, reported, pgid, failed, code>>

(* The functions of pipe.c.  After a failed pink_pipe_init the descriptors    *)
(* are not initialized ("junk"); a read of an empty pipe never returns, since *)
(* the tester itself holds the end to write to.                               *)
PipeFails ==
  /\ Step({"pipe_init", "pipe_write_int", "pipe_read_int", "pipe_close"})
  /\ MayError(Head(steps)) \/ inPipe = "junk"
  /\ Head(steps) = "pipe_read_int" => inPipe # "none"
  /\ inPipe' = IF Head(steps) = "pipe_init" THEN "junk" ELSE inPipe
  /\ broke' = BreaksIf(MayError(Head(steps)), Head(steps))
  /\ failed' = TRUE
  /\ steps' = Tail(steps)
  /\ UNCHANGED <<kernelVars, world, setup, pc, n, test, pid, insyscall, it_worked, expected,
                 found, val, reported, pgid, code>>

PipeReturns ==
  /\ Step({"pipe_init", "pipe_write_int", "pipe_read_int", "pipe_close"})
  /\ \E lied \in Lies(Head(steps)) :
       LET op == Head(steps)
           lies == lied # {}
           written == IF lies THEN "wrong" ELSE "right"
       IN  /\ op = "pipe_read_int" => inPipe # "none"
           /\ inPipe' = IF op = "pipe_write_int" /\ inPipe = "none" THEN written ELSE inPipe
           /\ val' = IF op = "pipe_read_int"
                     THEN [val EXCEPT !.int = IF lies THEN "wrong" ELSE inPipe] ELSE val
           /\ broke' = BreaksBy(lied, op)
  /\ steps' = Tail(steps)
  /\ UNCHANGED <<kernelVars, world, setup, pc, n, test, pid, insyscall, it_worked, expected,
                 found, reported, pgid, failed, code>>

(* The comparisons, and the values each one is about.  Of a string that is    *)
(* longer than a word only the end is looked at, where the count says it is.  *)
Compared ==
  [check_syscall_equal |-> {"sysnum"}, check_retval_equal |-> {"retval"},
   check_argument_equal |-> {"argument"}, check_memory_equal |-> {"data", "tail"},
   check_string_equal |-> {"data"}, check_string_endswith |-> {"tail"} \cup Count,
   check_socketcall_equal |-> {"subcall"}, check_addr_loopback |-> {"ip"},
   check_null |-> {"null_end"}, check_not_null |-> {"null"}, check_fd |-> {"fd"},
   check_family |-> {"family"}, check_path |-> {"path"}, check_abstract |-> {"abstract"},
   check_port |-> {"port"}, check_nl_pid |-> {"nl_pid"}, check_nl_groups |-> {"nl_groups"},
   check_data |-> {"data", "tail"}, check_old_pid |-> {"msg"}, check_int |-> {"int"}]

(* Those that end the program: with abort, and the last one with a string     *)
(* comparison with a null pointer.                                            *)
Aborting == {"check_syscall_equal", "check_retval_equal", "check_argument_equal",
             "check_memory_equal", "check_string_equal", "check_string_endswith",
             "check_socketcall_equal", "check_addr_loopback", "check_null"}

(* Those that leave the tracee alone. *)
Sparing == {"check_addr_loopback", "check_null", "check_int"}

CheckPasses ==
  /\ Step(DOMAIN Compared)
  /\ \A v \in Compared[Head(steps)] : val[v] # "wrong"
  /\ steps' = Tail(steps)
  /\ UNCHANGED <<kernelVars, world, setup, pc, n, test, locals, pgid, failed, code, broke>>

CheckFails ==
  /\ Step(DOMAIN Compared)
  /\ \E v \in Compared[Head(steps)] : val[v] # "right"
  /\ procs' = IF Head(steps) \in Sparing THEN procs ELSE Slain(pid)
  /\ failed' = (failed \/ Head(steps) # "check_null")
  /\ IF Head(steps) \in Aborting THEN pc' = "aborted" /\ UNCHANGED steps
                                 ELSE steps' = Tail(steps) /\ UNCHANGED pc
  /\ UNCHANGED <<kills, world, setup, n, test, locals, pgid, code, broke>>

(* The assignments to the test's locals, and kill. *)
Assign ==
  /\ Step({"it_worked", "insyscall", "write_done", "expected", "kill"})
  /\ it_worked' = (it_worked \/ Head(steps) = "it_worked")
  /\ insyscall' = CASE Head(steps) = "insyscall" -> "in"
                    [] Head(steps) = "write_done" -> "done"
                    [] OTHER -> insyscall
  /\ expected' = IF Head(steps) = "expected"
                 THEN IF val.msg = "right" THEN procs[pid].msg ELSE 0
                 ELSE expected
  /\ procs' = IF Head(steps) = "kill" THEN Slain(pid) ELSE procs
  /\ steps' = Tail(steps)
  /\ UNCHANGED <<kills, world, setup, pc, n, test, pid, found, val, inPipe, reported, pgid,
                 failed, code, broke>>

(* Whether the test is satisfied when its loop has ended. *)
Worked == IF IsClone THEN expected # 0 /\ expected = found ELSE it_worked

(* The end of the loop and of the test; the locals are gone. *)
EndTest ==
  /\ Step({"break"})
  /\ procs' = Remains
  /\ failed' = (failed \/ ~Worked)
  /\ n' = n + 1 /\ test' = NoTest /\ pc' = "test" /\ steps' = <<>>
  /\ pid' = 0 /\ insyscall' = "no" /\ it_worked' = FALSE
  /\ expected' = 0 /\ found' = 0 /\ val' = Unread /\ inPipe' = "none" /\ reported' = 0
  /\ UNCHANGED <<kills, world, setup, pgid, code, broke>>

-----------------------------------------------------------------------------
Tester ==
  \/ Main \/ BeginTest \/ Finish \/ fork_assert \/ regset_alloc_or_kill
  \/ WaitStatus \/ WaitEchild \/ Again
  \/ FunctionFails \/ FunctionReturns \/ PipeFails \/ PipeReturns
  \/ CheckPasses \/ CheckFails \/ Assign \/ EndTest

testerVars == <<world, setup, pc, n, test, steps, locals, pgid, failed, code>>

(* The child of the test before it stops itself. *)
Child ==
  /\ \E p \in Running, fails \in {FALSE, MayError("trace_me")} :
       /\ trace_me_and_stop(p, fails)
       /\ broke' = BreaksIf(fails, "trace_me")
  /\ UNCHANGED testerVars

Processes == (\E p \in Running : Run(p)) /\ UNCHANGED <<testerVars, broke>>

Killer ==
  /\ others /\ kills < MaxKills
  /\ \E p \in DOMAIN procs : KilledByOther(p)
  /\ UNCHANGED <<testerVars, broke>>

Next == Tester \/ Child \/ Processes \/ Killer

(* The scheduler runs the tester or one of the processes while one of them     *)
(* can do something.                                                          *)
Spec == Init /\ [][Next]_vars /\ WF_vars(Tester \/ Child \/ Processes)

-----------------------------------------------------------------------------
(* Properties *)

(* The values keep their types: pids, wait states, the tester's progress, and  *)
(* os_release, which is three bytes whatever the release is.                   *)
TypeOK ==
  /\ pc \in {"start", "test", "fork", "alloc", "wait", "steps", "exited", "aborted"}
  /\ n > 0
  /\ os_release = 0 \/ os_release \in KERNEL_VERSION(1, 0, 0) .. KERNEL_VERSION(255, 255, 255)
  /\ val \in [Values -> {"right", "wrong", "junk"}]
  /\ pid = -1 \/ pid \in {0, 2 * n}
  /\ \A p \in DOMAIN procs :
       /\ procs[p].run \in {"running", "stopped", "zombie"}
       /\ Alive(p) => procs[p].retval \in Results
       /\ p \in 2 .. 2 * n + 1
  /\ {failed, it_worked} \subseteq BOOLEAN
  /\ code \in {0, 1}

(* A library that works passes: while no fault has shown and nobody else has  *)
(* killed a child, no test fails, the program does not abort, and it      *)
(* exits with success, whatever the order of the stops of a child and its     *)
(* grandchild, and with the zombies that the earlier tests leave behind.      *)
RightLibraryPasses ==
  (broke = Unbroken /\ kills = 0) =>
     /\ ~failed /\ pc # "aborted"
     /\ (pc = "exited" /\ os_release # 0) => code = 0

(* The options that make the exit status say nothing: help, -d, -m, a filter. *)
Complete ==
  /\ runner.action = "run" /\ ~runner.machine_readable
  /\ ~runner.test_filter.set /\ ~runner.fixture_filter.set /\ skip = {}

(* The parts of answers that no test compares with anything: the counts of    *)
(* the readers and of the writer, except that the long strings show one that  *)
(* is too small; of a string in an array what follows the five characters     *)
(* compared; of an address its length and the fields that have no comparison; *)
(* the options next to the one whose event the child causes; the number of    *)
(* lseek, which is overwritten; whether a descriptor is closed.               *)
NeverCompared ==
  {<<op, v>> : op \in {"vm_lread", "read_vm_data", "read_string_array", "write_vm_data"},
               v \in Count}
  \cup {<<"vm_lread_nul", "count_max">>, <<"read_vm_data_nul", "count_max">>,
        <<"read_string_array", "tail">>, <<"read_socket_address", "length">>,
        <<"read_socket_address", "other">>, <<"trace_setup", "CLONE">>,
        <<"trace_setup", "VFORK">>, <<"regset_fill", "rest">>,
        <<"lookup_syscall", "lseek">>, <<"pipe_close", "work">>}

(* The parts that one test compares and another one lets pass: a system call  *)
(* stop that nobody waits for any more, registers and arguments on the way to *)
(* something else, the first word of a long string and the count of a short.  *)
SometimesCompared ==
  {<<"trace_syscall", "work">>, <<"regset_fill", "nr">>, <<"regset_fill", "arg">>,
   <<"regset_fill", "ret">>, <<"read_argument", "argument">>,
   <<"vm_lread_nul", "data">>, <<"vm_lread_nul", "count_min">>,
   <<"read_vm_data_nul", "data">>, <<"read_vm_data_nul", "count_min">>}

(* A complete run that exits with success has met no error of the library and *)
(* no wrong answer, except in a part that no test compares, or once in a part *)
(* that some tests let pass: every other fault is seen in whatever test it    *)
(* shows, and one that is there always is seen if any test compares the part. *)
SuccessMeansRight ==
  (pc = "exited" /\ code = 0 /\ Complete) =>
     /\ ~failed
     /\ \/ broke \in {Unbroken} \cup NeverCompared
        \/ broke \in SometimesCompared /\ fault.mode = "once"

(* A test acts on statuses of its own child and grandchild only, although the *)
(* children that earlier tests killed are never reaped: waitpid is given the  *)
(* child's process group.  Only if fork_assert failed is the group an old one. *)
StatusIsOwn ==
  (reported # 0 /\ pid # -1) => reported \in {pid, GrandchildOf(pid)}

(* When a test is over, or the program, no child and no tracee of the tester  *)
(* runs on or is left in a stop, however the test ended; except for the two   *)
(* checks that end the program without a kill.                                *)
NothingLeftRunning ==
  \/ pc \notin {"test", "exited", "aborted"}
  \/ pc = "aborted" /\ steps # <<>> /\ Head(steps) \in {"check_addr_loopback", "check_null"}
  \/ \A p \in DOMAIN procs : Alive(p) => p % 2 = 1 /\ ~procs[p].traced

(* The program ends, whatever function of the library fails and whoever       *)
(* kills: no test waits for a stop or an exit that does not come.  Not so if  *)
(* pink_pipe_init or pink_pipe_write_int fails: the pipe test then reads from *)
(* a pipe that nobody else writes to.                                         *)
SuiteEnds ==
  <>(\/ pc \in {"exited", "aborted"}
     \/ broke \in {<<"pipe_init", "error">>, <<"pipe_write_int", "error">>})
=============================================================================
