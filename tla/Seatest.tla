------------------------------ MODULE Seatest -------------------------------
(***************************************************************************)
(* The test runner seatest, as pinktrace-check uses it: the command line,  *)
(* the filters, and the value that decides the exit status.  What it       *)
(* prints is left out.                                                     *)
(*                                                                         *)
(* An argument is a record: flag is the option it spells, "help", or       *)
(* "value" if it is neither, and matches is the set of test and fixture    *)
(* names that it is a prefix of, which is all the filters look at.         *)
(***************************************************************************)
EXTENDS Naturals, Sequences, SequencesExt

(* A filter that is not set lets everything pass. *)
NoFilter == [set |-> FALSE, matches |-> {}]

Passes(filter, name) == filter.set => name \in filter.matches

(* seatest_testrunner_create: the runner before its command line is read;    *)
(* skip says that the next argument is the value of this one.                *)
Runner ==
  [action |-> "run", machine_readable |-> FALSE, skip |-> FALSE,
   test_filter |-> NoFilter, fixture_filter |-> NoFilter]

seatest_commandline_has_value_after(argv, arg) ==
  arg < Len(argv) /\ argv[arg + 1].flag \in {"value", "help"}

(* seatest_parse_commandline_option_with_value, for the option at arg. *)
OptionWithValue(runner, argv, arg) ==
  LET value == [set |-> TRUE, matches |-> argv[arg + 1].matches]
      taken == [runner EXCEPT !.skip = TRUE]
  IN  CASE ~seatest_commandline_has_value_after(argv, arg) ->
             [runner EXCEPT !.action = "abort"]
        [] argv[arg].flag = "-t" -> [taken EXCEPT !.test_filter = value]
        [] argv[arg].flag = "-f" -> [taken EXCEPT !.fixture_filter = value]
        [] argv[arg].flag = "-k" -> taken

(* One iteration of the loop of seatest_interpret_commandline. *)
InterpretArgument(runner, argv, arg) ==
  CASE runner.skip -> [runner EXCEPT !.skip = FALSE]
    [] argv[arg].flag = "help" -> [runner EXCEPT !.action = "nothing"]
    [] argv[arg].flag = "-d" -> [runner EXCEPT !.action = "display"]
    [] argv[arg].flag = "-m" -> [runner EXCEPT !.machine_readable = TRUE]
    [] argv[arg].flag \in {"-t", "-f", "-k"} -> OptionWithValue(runner, argv, arg)
    [] OTHER -> runner

(* seatest_interpret_commandline: help and an error end the loop. *)
seatest_interpret_commandline(argv) ==
  FoldLeftDomain(LAMBDA runner, arg :
                   IF runner.action \in {"nothing", "abort"} THEN runner
                   ELSE InterpretArgument(runner, argv, arg),
                 Runner, argv)

(* seatest_should_run: both filters, and with -d nothing runs. *)
seatest_should_run(runner, fixture, test) ==
  /\ Passes(runner.fixture_filter, fixture)
  /\ Passes(runner.test_filter, test)
  /\ runner.action # "display"

(* run_tests: what seatest_testrunner returns after the tests, with or       *)
(* without a failure recorded.                                               *)
run_tests(runner, failed) ==
  runner.action = "display" \/ runner.machine_readable \/ ~failed

(* seatest_testrunner: whether all_tests is called at all. *)
CallsTests(runner) == runner.action \in {"display", "run"}
=============================================================================
