-------------------------------- MODULE Pipe --------------------------------
(***************************************************************************)
(* pipe.c: processes that share a pipe and send integers through it.  Any  *)
(* number of them may write and read at the same time; each read(2) and    *)
(* write(2) is a step, may be interrupted, and a process may exec or die   *)
(* between any two of them.                                                *)
(***************************************************************************)
EXTENDS Integers, Sequences, FiniteSets

CONSTANTS
  Procs,      (* the processes                                           *)
  Creator,    (* the one that calls pink_pipe_init                       *)
  IntSize,    (* sizeof(int)                                             *)
  PipeBuf,    (* PIPE_BUF: writes up to this size are atomic             *)
  Capacity,   (* of the pipe, in bytes                                   *)
  MaxInts     (* bound on the integers each process sends                *)

ASSUME PipeAssumption ==
  /\ Creator \in Procs
  /\ IntSize \in Nat \ {0} /\ PipeBuf \in Nat /\ Capacity \in Nat
  /\ IntSize <= PipeBuf /\ PipeBuf <= Capacity
  /\ MaxInts \in Nat

Ends == {"r", "w"}
Ints == Procs \X (1 .. MaxInts)
Torn == <<"torn", 0>>
BytesOf(i) == [j \in 1 .. IntSize |-> [int |-> i, byte |-> j]]

VARIABLES
  fds,        (* the ends each process holds                             *)
  cloexec,    (* the ends with FD_CLOEXEC                                *)
  born,       (* the processes that exist or existed                     *)
  bytes,      (* contents of the pipe                                    *)
  pc,         (* "idle", or in the loop of atomic_read or atomic_write   *)
  buf,        (* bytes that were read, or are yet to be written          *)
  res,        (* what the last call returned: 0 or an errno              *)
  nsent,      (* number of integers each process tried to send           *)
  received    (* history: the integers pink_pipe_read_int returned       *)

vars == <<fds, cloexec, born, bytes, pc, buf, res, nsent, received>>

Open(end) == \E p \in Procs : end \in fds[p]

Init ==
  /\ fds = [p \in Procs |-> {}] /\ cloexec = {} /\ born = {}
  /\ bytes = <<>> /\ received = <<>>
  /\ pc = [p \in Procs |-> "idle"] /\ buf = [p \in Procs |-> <<>>]
  /\ res = [p \in Procs |-> "0"] /\ nsent = [p \in Procs |-> 0]

(* The ends with the flag once set_cloexec_flag failed, for "r" or for "w". *)
set_cloexec_flag == {{}, {"r"}}

(* pipe2, or pipe and set_cloexec_flag on both ends.  A failure of fcntl   *)
(* leaves the ends open.                                                   *)
pink_pipe_init ==
  /\ born = {}
  /\ born' = {Creator}
  /\ \/ /\ fds' = [fds EXCEPT ![Creator] = Ends]
        /\ cloexec' = Ends
        /\ UNCHANGED res
     \/ /\ fds' = [fds EXCEPT ![Creator] = Ends]
        /\ cloexec' \in set_cloexec_flag
        /\ res' = [res EXCEPT ![Creator] = "fcntl"]
     \/ /\ res' = [res EXCEPT ![Creator] = "pipe"]
        /\ UNCHANGED <<fds, cloexec>>
  /\ UNCHANGED <<bytes, pc, buf, nsent, received>>

pink_pipe_close(p, end) ==
  /\ pc[p] = "idle" /\ end \in fds[p]
  /\ fds' = [fds EXCEPT ![p] = @ \ {end}]
  /\ UNCHANGED <<cloexec, born, bytes, pc, buf, res, nsent, received>>
-----------------------------------------------------------------------------
(* A call returns to its caller. *)
Return(p, r) ==
  /\ pc' = [pc EXCEPT ![p] = "idle"]
  /\ buf' = [buf EXCEPT ![p] = <<>>]
  /\ res' = [res EXCEPT ![p] = r]

pink_pipe_write_int(p) ==
  /\ pc[p] = "idle" /\ "w" \in fds[p] /\ nsent[p] < MaxInts
  /\ pc' = [pc EXCEPT ![p] = "write"]
  /\ nsent' = [nsent EXCEPT ![p] = @ + 1]
  /\ buf' = [buf EXCEPT ![p] = BytesOf(<<p, nsent[p] + 1>>)]
  /\ UNCHANGED <<fds, cloexec, born, bytes, res, received>>

(* How much one write(2) of count bytes may take, and one read(2) return.  *)
(* Neither has a result while it blocks.                                   *)
WriteTakes(count) ==
  IF count <= PipeBuf THEN {count} ELSE 1 .. count
ReadGives(count) ==
  IF bytes # <<>> THEN {IF Len(bytes) < count THEN Len(bytes) ELSE count}
  ELSE IF Open("w") THEN {} ELSE {0}

(* Mutant: the buffer is handed to write one byte at a time. *)
OneByte(p) == 1

(* The size that is passed to write. *)
WriteCount(p) == Len(buf[p])

(* One iteration of atomic_write.  write never returns 0 for a pipe.  All  *)
(* errors but those of an interruption are of a pipe without readers; an   *)
(* error ends the call, and errno says which.                              *)
atomic_write(p) ==
  /\ pc[p] = "write"
  /\ \/ \E n \in WriteTakes(WriteCount(p)) :
          /\ Open("r") /\ Len(bytes) + n <= Capacity
          /\ bytes' = bytes \o SubSeq(buf[p], 1, n)
          /\ IF n = Len(buf[p]) THEN Return(p, "0")
             ELSE /\ buf' = [buf EXCEPT ![p] = SubSeq(@, n + 1, Len(@))]
                  /\ UNCHANGED <<pc, res>>
     \/ Open("r") /\ Return(p, "EINTR") /\ UNCHANGED bytes
     \/ ~Open("r") /\ Return(p, "EPIPE") /\ UNCHANGED bytes
  /\ UNCHANGED <<fds, cloexec, born, nsent, received>>

pink_pipe_read_int(p) ==
  /\ pc[p] = "idle" /\ "r" \in fds[p]
  /\ pc' = [pc EXCEPT ![p] = "read"]
  /\ UNCHANGED <<fds, cloexec, born, bytes, buf, res, nsent, received>>

(* The int that its bytes make. *)
IntOf(b) == IF b = BytesOf(b[1].int) THEN b[1].int ELSE Torn

(* Mutant: errno is not asked for the reason. *)
AlwaysEinval(errno) == "EINVAL"

(* errno ? -errno : -EINVAL *)
ShortCount(errno) == IF errno = "0" THEN "EINVAL" ELSE errno

(* Mutant: the end of file is not an end of the loop. *)
EofRetries(p) == UNCHANGED <<pc, buf, res>>

(* read returned 0. *)
EndOfFile(p) == Return(p, ShortCount("0"))

(* Mutant: one byte too many is asked for. *)
OneTooMany(p) == IntSize + 1 - Len(buf[p])

(* The size that is passed to read. *)
ReadCount(p) == IntSize - Len(buf[p])

(* One iteration of atomic_read. *)
atomic_read(p) ==
  /\ pc[p] = "read"
  /\ \/ \E n \in ReadGives(ReadCount(p)) :
          LET got == buf[p] \o SubSeq(bytes, 1, n)
          IN  /\ bytes' = SubSeq(bytes, n + 1, Len(bytes))
              /\ IF n = 0 THEN EndOfFile(p) /\ UNCHANGED received
                 ELSE IF n = ReadCount(p)
                 THEN Return(p, "0") /\ received' = Append(received, IntOf(got))
                 ELSE /\ buf' = [buf EXCEPT ![p] = got]
                      /\ UNCHANGED <<pc, res, received>>
     \/ /\ bytes = <<>> /\ Open("w")
        /\ Return(p, ShortCount("EINTR"))
        /\ UNCHANGED <<bytes, received>>
  /\ UNCHANGED <<fds, cloexec, born, nsent>>
-----------------------------------------------------------------------------
(* The processes, external: fork shares the ends, exec closes those with   *)
(* FD_CLOEXEC, exit and SIGKILL all of them.                               *)
Fork(p, q) ==
  /\ p \in born /\ q \notin born /\ pc[p] = "idle"
  /\ born' = born \cup {q}
  /\ fds' = [fds EXCEPT ![q] = fds[p]]
  /\ UNCHANGED <<cloexec, bytes, pc, buf, res, nsent, received>>

Exec(p) ==
  /\ pc[p] = "idle"
  /\ fds' = [fds EXCEPT ![p] = @ \ cloexec]
  /\ UNCHANGED <<cloexec, born, bytes, pc, buf, res, nsent, received>>

Die(p) ==
  /\ p \in born
  /\ fds' = [fds EXCEPT ![p] = {}]
  /\ pc' = [pc EXCEPT ![p] = "idle"]
  /\ buf' = [buf EXCEPT ![p] = <<>>]
  /\ UNCHANGED <<cloexec, born, bytes, res, nsent, received>>

Step(p) == atomic_write(p) \/ atomic_read(p)

Next ==
  \/ pink_pipe_init
  \/ \E p \in Procs :
       \/ \E end \in Ends : pink_pipe_close(p, end)
       \/ pink_pipe_write_int(p) \/ pink_pipe_read_int(p) \/ Step(p)
       \/ \E q \in Procs : Fork(p, q)
       \/ Exec(p) \/ Die(p)

(* A process in a system call that does not block comes out of it. *)
FairSpec == Init /\ [][Next]_vars /\ \A p \in Procs : WF_vars(Step(p))
-----------------------------------------------------------------------------
(* Types: a call in progress has at most the bytes of one integer.         *)
TypeOK ==
  /\ fds \in [Procs -> SUBSET Ends] /\ cloexec \subseteq Ends
  /\ born \subseteq Procs
  /\ Len(bytes) <= Capacity
  /\ pc \in [Procs -> {"idle", "read", "write"}]
  /\ \A p \in Procs : Len(buf[p]) <= IntSize
  /\ nsent \in [Procs -> 0 .. MaxInts]
  /\ \A p \in Procs : pc[p] = "read" => Len(buf[p]) < IntSize

(* The comment above atomic_read: "Reading or writing pipe data is atomic  *)
(* if the size of data written is not greater than PIPE_BUF."  With any    *)
(* number of writers and readers, interrupted and killed at any time, the  *)
(* pipe is a channel of whole integers; a call that fails sends or takes   *)
(* nothing.                                                                *)
Queue == [k \in 1 .. Len(bytes) \div IntSize |-> bytes[(k - 1) * IntSize + 1].int]
Channel == INSTANCE IntChannel WITH queue <- Queue
IsChannel == Channel!Spec

(* pink_pipe_read_int returns -EINVAL, its end of file, only after the     *)
(* last writer closed its end and everything was read.                     *)
EofIsFinal ==
  \A p \in Procs : res[p] = "EINVAL" => bytes = <<>> /\ ~Open("w")

(* A reader that waits when there are no writers left comes back, with     *)
(* what is in the pipe or with the end of file.                            *)
EofIsSeen ==
  \A p \in Procs :
    (pc[p] = "read" /\ born # {} /\ ~Open("w")) ~> pc[p] # "read"
=============================================================================
