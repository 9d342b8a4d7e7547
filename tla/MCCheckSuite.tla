---------------------------- MODULE MCCheckSuite ----------------------------
(* Small instance: one thing out of the ordinary at a time. *)
EXTENDS CheckSuite

Arg(flag, matches) == [flag |-> flag, matches |-> matches]
Program == Arg("value", {})
PipeFilter == Arg("value", {"pipe"})
ExecFilter == Arg("value", {"test_trace_exec"})

MCArgvs ==
  {<<Program, Arg("help", {})>>, <<Program, Arg("-d", {})>>,
   <<Program, Arg("-m", {})>>, <<Program, Arg("-t", {})>>,
   <<Program, Arg("-f", {}), PipeFilter, Arg("-v", {})>>,
   <<Program, Arg("-k", {}), Program, Arg("-t", {}), ExecFilter>>}

MCReleases == {<<>>, <<3>>, <<2, 6, 39>>, <<2, 6, 32, 27>>, <<3, 0>>, <<4, 9, 255>>}

Usual == [argv |-> <<Program>>, skip |-> {}, release |-> <<3, 8, 0>>,
          fault |-> NoFault, aarch64 |-> FALSE, others |-> FALSE]

MCWorlds ==
  LET some == {NoFault, Error("any"), Once("any")} \cup Permanent
      (* a test that goes on after its failure, for the options *)
      one == Always("pipe_read_int", "int")
      (* the functions of the tests that differ on AArch64 *)
      differing == UNION {{Error(op), Once(op)} :
                            op \in {"write_argument", "write_vm_data", "read_vm_data"}}
  IN  {[Usual EXCEPT !.fault = f] : f \in some}
      \cup {[Usual EXCEPT !.aarch64 = TRUE, !.fault = f] : f \in differing}
      \cup {[Usual EXCEPT !.argv = a, !.fault = f] : a \in MCArgvs, f \in {NoFault, one}}
      \cup {[Usual EXCEPT !.release = r] : r \in MCReleases}
      \cup {[Usual EXCEPT !.skip = {"trace", "read", "socket"}], [Usual EXCEPT !.others = TRUE]}
=============================================================================
