------------------------------- MODULE Tests --------------------------------
(***************************************************************************)
(* The tests of pinktrace-check.  Every test but one is a child program    *)
(* and what its loop does at the stops of the child, as a list of steps    *)
(* which CheckSuite carries out:                                           *)
(*   - the name of a function of the library: that call, with its _or_kill *)
(*   - check_x: the comparison of a value that was read                    *)
(*   - it_worked, insyscall, write_done: assignments                       *)
(*   - kill, break: kill(pid, SIGKILL) and the end of the loop.            *)
(* What is compared is described by what the comparison expects.           *)
(***************************************************************************)
EXTENDS TestProcesses

VARIABLES
  fault,     (* which function of the library does not work, and how       *)
  aarch64    (* the build                                                  *)

(* pink_lookup_syscall: a pure function of the name, so one that is wrong for *)
(* a name is wrong whenever that name is looked up, and one that fails knows  *)
(* no name.  The wrong number is that of a call with another result.          *)
Lookup(name) ==
  CASE fault.op # "lookup_syscall" -> name
    [] fault.value = "error" -> "invalid"
    [] fault.value # name -> name
    [] OTHER -> IF name = "lseek" THEN "getpid" ELSE "lseek"

(* A count of bytes is right when it is neither too small nor too large. *)
Count == {"count_min", "count_max"}

(* A test that looks at the first system call stop, and is done.  fallback   *)
(* is the child if its first call fails, looksUp the names it looks up, and  *)
(* parts what the answer to its question consists of, compared or not: of a  *)
(* piece of memory the first word, the later ones, and the count.            *)
OneStop(child, steps) ==
  [child |-> child, fallback |-> child, expects |-> "none", options |-> {"SYSGOOD"},
   looksUp |-> {}, regset |-> TRUE, newcall |-> "none",
   retval |-> "none", arg |-> "orig", mem |-> "orig",
   parts |-> {"data", "tail"} \cup Count,
   trap |-> <<>>, first |-> steps, second |-> <<>>, exited |-> <<>>]

(* A test that looks at the entry and then at the exit of the call. *)
TwoStops(child, first, second) ==
  [OneStop(child, first \o <<"insyscall">>) EXCEPT !.second = second]

(* Mutant: the child is not killed at the end. *)
SucceedAlive == <<"it_worked", "break">>

Succeed == <<"it_worked", "kill", "break">>

Call == <<"regset_fill", "read_syscall", "check_syscall_equal">>

-----------------------------------------------------------------------------
(* trace-TEST.c; test_trace_clone has a loop of its own in CheckSuite.       *)

(* Its child. *)
CloneTest ==
  [OneStop(<<"fork", "exit0">>, <<>>) EXCEPT
     !.fallback = <<"invalid", "exit2">>,
     !.options = {"CLONE", "FORK", "VFORK"}, !.regset = FALSE]

test_trace_sysgood ==
  [OneStop(<<"exit0">>, <<"it_worked">>) EXCEPT !.regset = FALSE]

(* Mutant: the branch for old kernels is taken the wrong way round. *)
TellsOldPid(old) ==
  [OneStop(<<"execve", "exit0">>, <<>>) EXCEPT
     !.fallback = <<"invalid", "exit1">>, !.options = {"EXEC"}, !.regset = FALSE,
     !.trap = (IF old THEN <<"geteventmsg", "check_old_pid">> ELSE <<>>) \o Succeed]

(* old: the kernel is older than 3.0 and does not tell the old pid. *)
test_trace_exec(old) ==
  [OneStop(<<"execve", "exit0">>, <<>>) EXCEPT
     !.fallback = <<"invalid", "exit1">>, !.options = {"EXEC"}, !.regset = FALSE,
     !.trap = (IF old THEN <<>> ELSE <<"geteventmsg", "check_old_pid">>) \o Succeed]

test_fixture_trace ==
  <<<<"test_trace_clone", 0>>, <<"test_trace_sysgood", 0>>, <<"test_trace_exec", 0>>>>

-----------------------------------------------------------------------------
(* vm-TEST.c *)

test_vm_lread ==
  OneStop(<<"invalid", "exit1">>,
          Call \o <<"read_argument", "vm_lread", "check_memory_equal">> \o Succeed)

(* The string ends in its first word. *)
ShortString == {"data"} \cup Count

test_vm_lread_nul ==
  [OneStop(<<"invalid", "exit0">>,
           Call \o <<"read_argument", "vm_lread_nul", "check_string_equal">> \o Succeed)
   EXCEPT !.parts = ShortString]

test_vm_lread_nul_long ==
  OneStop(<<"invalid", "exit0">>,
          Call \o <<"read_argument", "vm_lread_nul", "check_string_endswith">> \o Succeed)

(* A test that is run for _i = 0 .. max - 1. *)
Repeated(test, max) == [k \in 1 .. max |-> <<test, k - 1>>]

test_fixture_vm(max) ==
  Repeated("test_vm_lread", max) \o Repeated("test_vm_lread_nul", max)
  \o Repeated("test_vm_lread_nul_long", max)

-----------------------------------------------------------------------------
(* read-TEST.c *)

test_read_syscall ==
  [OneStop(<<Lookup("getpid"), "exit0">>, Call \o Succeed) EXCEPT !.looksUp = {"getpid"}]

test_read_retval_good ==
  [TwoStops(<<Lookup("getpid"), "exit0">>, Call,
            <<"regset_fill", "read_retval", "check_retval_equal">> \o Succeed) EXCEPT
     !.looksUp = {"getpid"}, !.retval = "pid"]

test_read_retval_fail ==
  [TwoStops(<<Lookup("openat"), "exit0">>, Call,
            <<"regset_fill", "read_retval", "check_retval_equal">> \o Succeed) EXCEPT
     !.looksUp = {"openat"}, !.retval = "EFAULT"]

test_read_argument ==
  OneStop(<<"invalid", "exit0">>,
          Call \o <<"read_argument", "check_argument_equal">> \o Succeed)

test_read_vm_data ==
  OneStop(<<"invalid", "exit1">>,
          Call \o <<"read_argument", "read_vm_data", "check_memory_equal">> \o Succeed)

test_read_vm_data_nul ==
  [OneStop(<<"invalid", "exit0">>,
           Call \o <<"read_argument", "read_vm_data_nul", "check_string_equal">>
                \o Succeed)
   EXCEPT !.parts = ShortString]

test_read_vm_data_nul_long ==
  OneStop(<<"invalid", "exit0">>,
          Call \o <<"read_argument", "read_vm_data_nul", "check_string_endswith">>
               \o Succeed)

(* The array has one string and its end. *)
test_read_string_array ==
  OneStop(<<"invalid", "exit0">>,
          Call \o <<"read_argument", "read_string_array", "check_not_null",
                    "check_string_equal", "read_string_array_end", "check_null">>
               \o Succeed)

test_fixture_read(max) ==
  <<<<"test_read_syscall", 0>>, <<"test_read_retval_good", 0>>,
    <<"test_read_retval_fail", 0>>>>
  \o Repeated("test_read_argument", max) \o Repeated("test_read_vm_data", max)
  \o Repeated("test_read_vm_data_nul", max)
  \o Repeated("test_read_vm_data_nul_long", max)
  \o Repeated("test_read_string_array", max)
-----------------------------------------------------------------------------
(* write-TEST.c *)

(* 0: getpid becomes an invalid call; 1: lseek becomes openat. *)
test_write_syscall(i) ==
  [TwoStops(<<IF i = 0 THEN Lookup("getpid") ELSE Lookup("lseek"), "exit0">>,
            Call \o <<"write_syscall">>,
            <<"regset_fill", "read_retval", "check_retval_equal">> \o Succeed) EXCEPT
     !.looksUp = IF i = 0 THEN {"getpid"} ELSE {"lseek", "openat"},
     !.newcall = IF i = 0 THEN "invalid" ELSE Lookup("openat"),
     !.retval = IF i = 0 THEN "ENOSYS" ELSE "EFAULT"]

(* The child makes the comparison, and exits with it. *)
test_write_retval(i) ==
  [TwoStops(<<Lookup("getpid"), "check">>, <<>>,
            <<"regset_fill", "write_retval", "write_done">>) EXCEPT
     !.looksUp = {"getpid"},
     !.expects = IF i = 0 THEN "0xdead" ELSE "EPERM",
     !.exited = <<"it_worked">>]

test_write_argument ==
  LET read == <<"regset_fill", "read_argument", "check_argument_equal">>
  IN  [TwoStops(<<"invalid", "exit0">>,
                Call \o <<"write_argument">> \o read
                     \o (IF aarch64 THEN <<"it_worked">> ELSE <<>>),
                (IF aarch64 THEN <<>> ELSE read \o <<"it_worked">>)
                     \o <<"kill", "break">>) EXCEPT
         !.arg = "new"]

test_write_vm_data ==
  LET read == <<"read_vm_data", "check_data">>
  IN  [TwoStops(<<"invalid", "exit0">>,
                Call \o <<"read_argument", "write_vm_data">>
                     \o (IF aarch64 THEN read \o <<"it_worked">> ELSE <<>>),
                (IF aarch64 THEN <<>>
                 ELSE <<"regset_fill", "read_argument">> \o read \o <<"it_worked">>)
                     \o <<"kill", "break">>) EXCEPT
         !.mem = "new"]

test_fixture_write(max) ==
  Repeated("test_write_syscall", 2) \o Repeated("test_write_retval", 2)
  \o Repeated("test_write_argument", max) \o Repeated("test_write_vm_data", max)

-----------------------------------------------------------------------------
(* socket-TEST.c: the three calls that pass an address. *)

test_sys_name(i) == <<"bind", "connect", "sendto">>[i + 1]

(* A test of the address of call i.  fields is what struct pink_sockaddr holds *)
(* besides the family and the length, "other" standing for the rest of the    *)
(* union, such as the scope of an IPv6 address or what follows the end of a   *)
(* path; there is none of it if the address is null.                          *)
SocketTest(i, fields, checks) ==
  [OneStop(<<test_sys_name(i), "exit0">>,
           <<"regset_fill", "read_socket_subcall", "check_socketcall_equal",
             "read_socket_address", "check_fd", "check_family">>
           \o checks \o Succeed) EXCEPT
     !.parts = {"fd", "family", "length"} \cup fields]

test_read_socket_address_af_null(i) == SocketTest(i, {}, <<>>)

test_read_socket_address_af_unix(i) ==
  SocketTest(i, {"path", "other"}, <<"check_path">>)

(* The first byte of sun_path is looked at on its own. *)
test_read_socket_address_af_unixabs(i) ==
  SocketTest(i, {"abstract", "path", "other"}, <<"check_abstract", "check_path">>)

(* Mutant: the port is not compared. *)
AnyPort(i) == SocketTest(i, {"port", "ip", "other"}, <<"check_addr_loopback">>)

test_read_socket_address_af_inet(i) ==
  SocketTest(i, {"port", "ip", "other"}, <<"check_port", "check_addr_loopback">>)

test_read_socket_address_af_inet6(i) ==
  SocketTest(i, {"port", "ip", "other"}, <<"check_port", "check_addr_loopback">>)

test_read_socket_address_af_netlink(i) ==
  SocketTest(i, {"nl_pid", "nl_groups", "other"}, <<"check_nl_pid", "check_nl_groups">>)

test_fixture_socket ==
  Repeated("test_read_socket_address_af_null", 3)
  \o Repeated("test_read_socket_address_af_unix", 3)
  \o Repeated("test_read_socket_address_af_unixabs", 3)
  \o Repeated("test_read_socket_address_af_inet", 3)
  \o Repeated("test_read_socket_address_af_inet6", 3)
  \o Repeated("test_read_socket_address_af_netlink", 3)

-----------------------------------------------------------------------------
(* pipe-TEST.c: no child; the tester writes and reads itself. *)

test_read_write_int ==
  [OneStop(<<>>, <<"pipe_init", "pipe_write_int", "pipe_read_int", "check_int",
                   "pipe_close", "pipe_close", "it_worked", "break">>) EXCEPT
     !.regset = FALSE]

test_fixture_pipe == <<<<"test_read_write_int", 0>>>>

-----------------------------------------------------------------------------
(* The test that an entry <<name, _i>> of a fixture names; old as above. *)
TestOf(entry, old) ==
  LET i == entry[2]
  IN  CASE entry[1] = "test_trace_clone" -> CloneTest
        [] entry[1] = "test_trace_sysgood" -> test_trace_sysgood
        [] entry[1] = "test_trace_exec" -> test_trace_exec(old)
        [] entry[1] = "test_vm_lread" -> test_vm_lread
        [] entry[1] = "test_vm_lread_nul" -> test_vm_lread_nul
        [] entry[1] = "test_vm_lread_nul_long" -> test_vm_lread_nul_long
        [] entry[1] = "test_read_syscall" -> test_read_syscall
        [] entry[1] = "test_read_retval_good" -> test_read_retval_good
        [] entry[1] = "test_read_retval_fail" -> test_read_retval_fail
        [] entry[1] = "test_read_argument" -> test_read_argument
        [] entry[1] = "test_read_vm_data" -> test_read_vm_data
        [] entry[1] = "test_read_vm_data_nul" -> test_read_vm_data_nul
        [] entry[1] = "test_read_vm_data_nul_long" -> test_read_vm_data_nul_long
        [] entry[1] = "test_read_string_array" -> test_read_string_array
        [] entry[1] = "test_write_syscall" -> test_write_syscall(i)
        [] entry[1] = "test_write_retval" -> test_write_retval(i)
        [] entry[1] = "test_write_argument" -> test_write_argument
        [] entry[1] = "test_write_vm_data" -> test_write_vm_data
        [] entry[1] = "test_read_socket_address_af_null" ->
             test_read_socket_address_af_null(i)
        [] entry[1] = "test_read_socket_address_af_unix" ->
             test_read_socket_address_af_unix(i)
        [] entry[1] = "test_read_socket_address_af_unixabs" ->
             test_read_socket_address_af_unixabs(i)
        [] entry[1] = "test_read_socket_address_af_inet" ->
             test_read_socket_address_af_inet(i)
        [] entry[1] = "test_read_socket_address_af_inet6" ->
             test_read_socket_address_af_inet6(i)
        [] entry[1] = "test_read_socket_address_af_netlink" ->
             test_read_socket_address_af_netlink(i)
        [] entry[1] = "test_read_write_int" -> test_read_write_int
=============================================================================
