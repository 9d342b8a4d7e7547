# pinktrace in TLA+

Specifications of pinktrace, a C library around ptrace(2), of its strace
example, its Python bindings and its test program. TLC checks them on small
instances; TLAPS proves the central properties for every value of the constants.

## The system and its inventory

The library keeps almost no state. What makes it hard is the sequence of system
calls that each function makes, what the tracee, its sibling threads and the
kernel do between two of them, and the conversions between word sizes.

| part | source | state | operations | module |
|---|---|---|---|---|
| memory access | `vm.c`, `read.c`, `write.c` | memory of the tracee, the caller's buffer, `errno` | `pink_read_vm_data`, `_full`, `_nul`, `pink_write_vm_data`; each tries process_vm_readv/writev and falls back to PEEKDATA/POKEDATA | `TraceeMemory`, `VmRead`, `VmWrite` |
| string arrays, sockets | `read.c`, `socket.c` | none of their own | `pink_read_string_array`, `pink_read_socket_argument`, `_address` | `Readers` |
| registers | `regset.c`, `read.c`, `write.c`, `abi.c` | registers in the kernel, `struct pink_regset` | `pink_regset_fill`, `pink_read_*`, `pink_write_*` | `Registers` |
| names | `name.c` | constant tables | `pink_name_*`, `pink_lookup_*` | `Names` |
| pipes | `pipe.c` | a pipe and its descriptors | `pink_pipe_*` | `Pipe`, `IntChannel` |
| requests, events | `trace.c`, `event.c` | ptrace-stops, options, traced threads | `pink_trace_*`, `pink_event_decide` | `Requests`, `Tracee` |
| Python bindings | `py-*.c` | exceptions, objects with a regset | the modules trace, name, regset, system | `Bindings` |
| strace example | `pink-simple-strace.c` | `insyscall`, copied registers, status | `main`, `process_update`, `handle_syscall` | `SimpleStrace` |
| test runner | `seatest.c` | options, counters | `seatest_testrunner`, filters | `Seatest` |
| test program | `pinktrace-check.c`, `*-TEST.c` | the test's locals, its processes | `main` and every test | `TestProcesses`, `Tests`, `CheckSuite` |
| fork, about examples | | | | not modelled |

Interactions: everything goes through `pink_ptrace`; the registers give the
addresses that memory access reads, and the numbers that names are looked up
for; string arrays and sockets are sequences of memory reads; the strace example
and the tests drive all of them from wait statuses; the bindings call `trace.c`
and `name.c` and turn their results into Python values or exceptions.

Correctness means: a read returns bytes that the tracee had, in their places; a
write changes what it counts; a result is never a count of something that was
not done; what is read from registers is what the tracee passed or the tracer
wrote; a request that fails changes nothing and one that fails in the library
raises in Python; the example's lines are in step with the tracee, and it
neither leaves the tracee stopped nor misses its death; the tests pass for a
library that works, fail for one that gets something wrong that they compare, end,
and leave no process behind.
`PROJECT.json` lists the hazards by line.

## Modules and code

**TraceeMemory** has the address space (`mem`), the mapped pages, access rights
and liveness of a stopped tracee, and the kernel calls on it. Store, Unmap,
Revoke and Killed are what others may do between any two calls. `pink_ptrace` keeps
its treatment of `errno`: a peek of all-0xff bytes returns -1 and is no error.

**VmRead**, **VmWrite**: one call at a time; each system call is one step.
`Cread`, `CreadNul`, `Cwrite` are the process_vm variants, `Lread` (one
iteration of `pink_vm_lread` and `_nul`) and `Lwrite` the word by word ones,
`Dispatch` and `Fallback` the choice on ENOSYS or EPERM. A byte of the
caller's buffer that was never stored is `Junk`; the bytes of the uninitialised
union that `pink_vm_lwrite` pokes are nondeterministic. `Lwrite` keeps the
residue that is applied to the source, and `FailedAfter` the -1 that passes
through an `unsigned int`. `shadow` and `touched` in VmWrite are history variables.

**Readers** composes `VmRead` with the functions that read several times. A call
of such a function is a job; each of its reads is a call of `VmRead`, so every
system call stays a step, and the environment interferes within and between the
reads. `ReadPointer`, `UsePointer`, `ReadString`, `StringRead` are
`pink_read_string_array`; `RegisterArgument`, `ReadArgument`, `ArgumentRead`,
`NoAddress`, `ReadAddress`, `AddressRead` are `socket.c`. `member` is history: what
the tracee had where the pointer, or the address, was read.

**Registers**: `user` is in the kernel, `regset` the copy: a union in 32-bit
halves, so that the overlaid i386 and x86-64 structs are modelled as memory. The
builds are x86_64, i386, powerpc64 and aarch64 (the `Arm` definitions). The
branches for 32-bit ARM, IA64 and X32 do not compile (a missing union member;
undeclared `r` and `state`, and refused by configure; a call with one argument of
two) and are not modelled. `view` is the history: the call as made and as changed
by successful writes.

**Names**: pure operators; a table is a sequence of names with holes, or a list
of pairs (`struct xlat`).

**Pipe**: each read(2) and write(2) of `atomic_read` and `atomic_write` is a step;
processes fork, exec and die. **IntChannel** is the abstract queue of integers.

**Requests** has the kernel's threads as `trace.c` sees them (`tasks`: running,
stopped, gone; traced by whom, with which options) and every `pink_trace_`
function, for a build `have` with or without each request and option. Between
calls threads go on, end, and their ids are used again. **Bindings** adds the
programs that call it: a C program, or Python 2 or 3 through the extension
modules. A call is one step, because the binding holds the interpreter's lock
and makes at most one call of the library. `asked` is history: the options last
set with success.

**Tracee**: ptrace-stops, wait statuses, options, death, signals. **SimpleStrace**:
`main` from fork to return, one action per blocking or tracing call.

**Seatest** is the runner's command line, filters and result. **TestProcesses** has
the processes that the tests fork, as the kernel reports them: stops, exits,
groups, zombies. **Tests** has one record per test: the program of the child and
what the tester does at its stops. **CheckSuite** carries them out: `main`, the
setup, the loop on waitpid, `check_*_or_kill`, the pipe and exec tests. Unlike in
the other modules the library is behind its promises here, with at most one
function at fault. One call of it returns an error, or gets one part of its answer
wrong, or all of its calls get the same part wrong. `Answers` has the parts: everything
that a function gives to its caller, whether a test looks at it or not (the bytes of
the first word and of later ones, a count that is too small or too large, every field
of an address, every option of `trace_setup`), and what it was to do. `broke` is the
history of it.

## Runs

| run | result | states |
|---|---|---|
| `read` | reads, also those of string arrays and sockets, are genuine, honest, succeed on accessible memory, and return; the end of a string is found; addresses are whole, array members genuine | 680,518 |
| `read_nul_count` | **violated**: `pink_vm_lread_nul` does not count the zero-byte as read.h says | |
| `read_narrow_abi` | **violated**: sign-extended addresses of a 32-bit tracee are not read word by word | |
| `write` | writes are exact and honest in the cases that `WriteIsExact` names | 441,920 |
| `write_addr` | **violated**: an unaligned word by word write misplaces data | |
| `write_error` | **violated**: its error is 4294967295, not -1, where long is wider than int | |
| `registers` | calls with their arguments, returns and names read back; writes take effect | 206,546 |
| `registers_x32` | **violated**: `pink_write_syscall` makes an x32 call an x86-64 one | |
| `pipe` | the pipe implements IntChannel; end of file is final and seen | 421,078 |
| `strace` | lines match after an even number of signals, exit code is the tracee's, stops are answered, death is noticed | 4,140 |
| `suite` | the tests pass for a right library, notice the faults that are not listed below, act on their own child, leave nothing running, and end | 206,675 |
| `bindings` | errors raise, failures change nothing, options are those asked for, advertised calls work, names agree, a kill stays in its group | 952,232 |

The findings in `PROJECT.json` quote the line each violated property states.

Disagreements and weak spots that were met while modelling, which the properties
name as exceptions:

- `read.h:213` describes `pink_read_string_array` as "Same as
  pink_read_vm_data_nul()", but with an unreadable pointer it returns 0 with errno
  set, and leaves `*nullptr` alone. A pointer across two pages may be read in
  part, and the uninitialised rest of `cp` is then used (`InOnePage`).
- The comment in `pink_vm_cread_nul` says "Don't cross pages", but every chunk
  is shortened by the end of the first one's page (`addr` does not advance), so that
  a later one may cross. process_vm_readv may refuse it as a whole, and the call then
  ends before a zero-byte that lies in the mapped page (the exception of
  `StringIsFound`; `AccessibleReadSucceeds` is about the other two functions).
- `pink_write_syscall` of AArch64 keeps 16 bits of the number
  (`SyscallTakesEffectUnlessCut`).
- One signal to the tracee of pink-simple-strace puts its lines out of step
  (`LineMatchesUnlessOdd`), since a signal stop toggles `insyscall`; the next signal
  puts them back. A tracee that is killed in a stop may get a last line with the
  registers of the stop before.
- `PINK_CALL` sets an exception on -ENOSYS and goes on: in Python 2 the call then
  yields True, or a message that was never set (`ErrorIsRaised`).
- `trace.h:332` has "Bitwise OR'ed PINK_TRACE_OPTION_* flags" for `pink_trace_seize`,
  which hands them on untranslated. EXITKILL is at another bit in the kernel, so that
  a seize with it is refused in every build; the Python binding checks the flags with
  the range of a signal besides (below `_NSIG`). `OptionsAreThoseAsked`
  is about the calls that succeed and does not show this.
- `HAVE_OPTION_SECCOMP` is defined twice, the second time for EXITKILL.
- `ProcessRegistrySet_new` leaks the object when its regset cannot be allocated
  (`FailureChangesNothing`).
- The tests do not compare everything. `NeverCompared` lists what the library may always
  get wrong in a run that succeeds: the counts of reads and writes, which the helpers
  only print when short (pinktrace-check.c:596, 678, 718, 829), and for the short
  strings a count that is too large; the rest of an array member after its first word;
  `length` and the other fields of a socket address; the options CLONE and VFORK, since
  the child of `test_trace_clone` forks; the registers that are neither the call, the
  argument nor the result; the number of lseek, which is only written and compared with
  itself; whether `pink_pipe_close` closes. `SometimesCompared` lists what one call may get
  wrong, since some test lets it pass: a system call stop that no test waits for any
  more, registers and arguments of a test that looks at something else, and the first
  word and the short count of strings.
- If `pink_pipe_init` or `pink_pipe_write_int` fails, the pipe test waits for
  itself (`SuiteEnds`).

### Bounds

- `read`: words of 2 bytes, pages of 4, 8 addresses, reads of up to 4 bytes.
  Unaligned starts, short last words, page crossings and two chunks all occur.
  The image has a null pointer, an unmapped one of 0xff bytes, and pointers to
  strings that end at the end of a page. One store by a sibling.
- `write`: pages of 2 and 4 addresses, because memory differs after every call.
  Calls follow each other without bound. `UintSpan` is 9 where `unsigned int` is
  narrower than long, 10 where it is not.
- `registers`: 32 bits are four and 64 are eight, so sign extension, truncation and the
  limits of the errno range (13, 253, and 47 whose low half is an error) are
  reached. 16 bits are three, so that the special numbers of ARM are cut. Two writes
  suffice to let one undo another.
- `pipe`: three processes, one integer each, room for two integers.
- `strace`: three signals; a call like any other, execve and exit_group.
- `suite`: every test with an error at every call, every part of every answer wrong at
  one call, and at all; one kill from outside; two of the six arguments of a call; command lines with each option
  and both filters; releases of the kernel with one to four numbers, and none.
- `bindings`: one thread id, which two processes may have one after the other; four
  builds; `unsigned int` has four bits, so that a number wraps.

### Fairness

`read` is fair to the steps of the call: a system call that does not block
returns. `strace` is fair to `Main` only: the tracee may run forever. `pipe` is
fair to the read or write a process is in. `suite` is fair to the tester and the
processes it forked, taken together: somebody goes on while somebody can. The programs of the tests are finite, so that is all `SuiteEnds`
needs. `bindings` checks safety only. CHECK_DEADLOCK is off for `pipe`, where all
processes may have exited, or wait for each other legitimately, and for `suite`,
where the program ends.

## Proofs

| theorem | statement |
|---|---|
| `VmReadProofs!ReadTypeCorrect`, `ReadsAreGenuine` | indices stay in bounds; every byte stored is one the tracee had at that address during the call |
| `VmReadProofs!ReadResultsAreHonest` | the count, the error and errno that `pink_read_vm_data` and `_full` report are what they did; an error of `_nul` leaves errno set |
| `VmReadProofs!AccessibleReadsSucceed`, `CrossAttachNulCounts` | a read of memory that stays accessible is complete; through process_vm_readv the count of `_nul` includes the zero-byte |
| `ReadersProofs!JobReadsAreGenuine`, `MembersAreGenuine`, `AddressesAreWhole` | the same for reads on behalf of string arrays and sockets; array members are genuine; a socket address is whole or untouched |
| `ReadersProofs!JobReadsSucceed`, `JobNulCounts`, `NullsAreReported` | complete reads and counts for these reads too; a null pointer that stays accessible is reported |
| `VmWriteProofs!AccessibleWritesSucceed` | a write to memory that stays accessible is complete |
| `VmWriteProofs!WriteTypeCorrect`, `WritesAreExact`, `WriteResultsAreHonest` | what a write changed and what it returns agree |
| `SimpleStraceProofs!StraceTypeCorrect`, `LinesMatch`, `ExitCodesMatch` | lines in step after an even number of signals, and of the latest call after any; exit code right with any number |
| `PipeProofs!PipeTypes`, `EndOfFileIsFinal`, `PipeIsChannel` | bounds; end of file is final; the pipe implements IntChannel, for any number of processes and any capacity |
| `BindingsProofs!ShuffleInvolution`, `LookupInvertsName`, `XlookupInvertsXname` | the comment on `shuffle_scno`; lookup inverts naming in tables without repetitions, and in lists of pairs |
| `BindingsProofs!ErrorsAreRaised`, `FailuresChangeNothing` | in every build an error of the library is raised and nothing else is; a call that reports one has changed nothing |
| `BindingsProofs!OptionsAreAsAsked`, `KillsStayInGroup` | options of traced threads are those last set, a kill stays in its group, for any threads and any reuse of ids |
| `BindingsProofs!AdvertisedCallsWork`, `NamesAlwaysAgree` | the HAVE_ constants and the names of the Python modules |
| `RegistersProofs!OverlayIsSafe` | the comment "The order is important" in `regset.c`: no assignment to the overlaid struct reads what an earlier one changed |
| `RegistersProofs!RegistersHoldTheCall`, `RegistersKeepTheirWidth` | the inductive invariant of the registers, and their types |
| `RegistersProofs!TheCallIsRead`, `TheReturnIsRead` | after a fill the call, its arguments and its result are read as they were passed, returned or written, in every build and ABI |
| `RegistersProofs!WrittenCallRuns`, `NamesLeadBack` | a written call is what the kernel runs, but for the numbers that are cut; every error and call that is read has a name that leads back to it, or none |

Assumptions are `MemoryAssumption`, those of the other constants, `NamesAssumption`,
`BindingsAssumption`, `TablesAssumption` (of `Bindings` and of `Registers`),
`RegistersAssumption` and `CallsAssumption`; TLC evaluates them in the runs.
For the registers they say that 2^32 is four times the x32 bit and the errnos are
fewer than that, that the numbers of calls lie below the x32 bit (below 2^32 on
AArch64), and that the tables have no name twice and the errnos no hole, which is
so for the tables of the four builds.
`MemoryProofs` holds the lemmas about alignment and kernel calls shared by both
directions. Some theorems have hypotheses on the constants besides; all of them hold
in the instances of the passing runs:

- `WordsFit`: pages and the user addresses are whole numbers of words.
- `AddressesFit`: in an ABI narrower than the tracer's, user addresses are the lower
  half of all, so that none is sign-extended. What it leaves out is what
  `read_narrow_abi` shows to fail. The readers have `Native`: the ABI is the tracer's.
- `OptionsArePink`: the program passes no set with bit 20, where the kernel has
  EXITKILL and pinktrace has no option. `pink_trace_seize` would pass it on.
- `OneNumberPerName`: no name occurs twice in a table. The tables under
  `pinktrace/linux` are such, with one exception: that of IA64, a build that
  configure refuses, repeats stat, lstat and fstat.

`BytesAreGenuine` is not inductive: while a call is in progress the buffer, the
number of bytes copied and the address have to be related; `TransferInv`
in `VmRead` does so. `ResultIsHonest` needs `HonestInv` besides it: which function
of `vm.c` runs for which entry point. `WriteInv` does the same for the words
poked so far.

Completeness (`AccessibleReadSucceeds`, `AccessibleWriteSucceeds`) is about the end of
a call, when the range may have been inaccessible before. It becomes inductive because
access only shrinks during a call: if the range is accessible now it was at every
earlier step, so that no kernel call so far failed or was cut short.
`CompleteInv` adds that errno is clear while bytes are transferred, so that a call
that ends early can be told from one that was refused; in `pink_vm_lwrite` also that
the word being poked and the residue together are the start plus the bytes done.
`NulInv` says that no chunk before this one had a zero-byte, and `NullInv` in
ReadersProofs that a pointer whose string is read is not null, and a member as long as
its slot is accessible.

`RInv` in ReadersProofs has four parts. `VInv` is about the reads alone, and holds
with any arguments; it includes `WholeInv`: a plain read within one page is complete
or leaves errno set, because a page is mapped as a whole. `JobInv` says which job
is at which stage, `ArrayInv` that the pointer in use was a member, `SocketInv` that
the bytes beyond the address are still the zeros of memset when it has been read.

For the bindings, `BindingsInv` adds to the properties that the threads are of their
type, that one that is not traced has no options, and that the program has no options on
record for it. The proof sorts the calls into those that keep all options (`Harmless`),
those that change no thread (`Quiet`) and those that set the options of one thread (`Sets`),
and shows for each library function which it is; `EndsKeeps` is the step they share.
`NamesInv` keeps, for the lookup to come, that the name at hand is that of its number.

For the pipe, `IInv` says that the bytes in it are those of whole integers one after
the other (`Whole`), which are the contents of the abstract queue; that a process
in a write still has all of its integer, since a write of at most PIPE_BUF bytes is
atomic, and one in a read has none (`CallsInv`); and that processes not yet born
hold no descriptor.

For the registers, none of the properties is inductive: they are about the copy, which
a fill makes from the kernel's registers. `IInv` of `RegistersProofs` has `NumberInv`,
`ArgsInv` and `ReturnInv`: the kernel's registers hold the call of the history, each in
the width and the sign of its ABI; `ModeInv`: what tells a 32-bit thread from others (the
code segment, the upper halves on AArch64) survives all writes; and `CopyInv`: a fresh
copy has the registers that are read (`Copied`), and on AArch64, where a write stores the
copy back as a whole, no copy is out of date. The proof has three layers: division and
remainder by any span (`Divided`, `ModShift`, `SignedCases`), the conversions of C
(`LongFacts`, `Int32Facts`, `HeldFacts`, `AsLongFacts`), and one lemma per action. The
spans are symbols, so that the theorems hold for 32 and 64 bits as they do for the four
and eight of the run.

The attempt to prove `ReturnIsRead` and `SyscallTakesEffectUnlessCut` showed two places
where the model had said too much or hidden something. `IsCut` used to name
the positive results of more than 32 bits: too many, as most of them are read right, and
too few, as smaller and negative ones may look like an error in 32 bits too, which the
instance did not have. It now names exactly the values that are no error in 64 bits and
one in 32, and 15 and 239 were added to the results of the run. And the instance
had as many 16-bit numbers as 32-bit ones, which hid that `pink_write_syscall` of AArch64
cuts the number (`(uint16_t) sysnum`, write.c:42), and so cannot write the special calls
of ARM; the numbers are now an exception of the property, and `ShortSpan` is half of
`Half` in the run.

For SimpleStrace, `IInv` relates the place in `main`, the pending status, and
`insyscall` to the kernel's own notion of being in a call, turned over by every signal
(`Odd`).

Only model-checked:

- liveness (`CallReturns`, `StopsAreAnswered`, `DeathIsNoticed`, `EofIsSeen`, `SuiteEnds`),
  which is out of the prover's reach;
- `StringIsFound`, which looks back at a chunk that was refused;
- all of `CheckSuite`, whose properties hold by running finite programs of tests to
  their ends, which is evaluation rather than argument;
- the part of `NulCountIncludesZero` that `read_nul_count` refutes, and the other
  properties of the runs that end in a violation.

## Limits of the models

- Memory is a handful of bytes; addresses do not wrap at the top (assumed).
- `ReturnIsRead` leaves out the x32 and powerpc64 results that are no error and look like
  one in the 32 bits that `is_negated_errno` tests (`IsCut`).
- `pink_pipe_init` is one step: the window between pipe and fcntl is not split.
- The decoders of the strace example print and change no state, except for the
  loop of `decode_execve`, which is modelled.
- `CheckSuite` does not run the other modules: a tracee with its memory and
  registers behind each of the tests is out of TLC's reach. What the library
  does is in the modules above; what the tests notice is in this one. Not among the
  faults is a request that resumes or traces nothing and says it has: the tester then
  waits for ever.

### Not modelled

- The fork example: the first stop, set-up and wait of the strace example, without
  its loop. The about example: output.
- In the bindings: `event.decide` and `abi.wordsize`, which hand a pure function
  on; the set-up of the modules; the parsing of arguments beyond their range.
- Assertions of seatest that the tests do not use, its printers and its clock.
- The tables of names, which are generated data. Two of them lack a comma
  (`linux/powerpc/syscallent.h:320`, `linux/x32/syscallent.h:245`): two names become one,
  and the later ones are off by one. And the decoders of the strace
  example, which format and print.
- Headers without state: structs, macros and documentation.

## Plan

1. An abstract log of system calls that `SimpleStrace` implements without signals.
2. A proof of `NothingLeftRunning` of `CheckSuite` that does not run the tests.
3. Two thread ids in `bindings`, once its names are split off.
