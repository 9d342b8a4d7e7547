--------------------------- MODULE BindingsProofs ---------------------------
(***************************************************************************)
(* For every build of the library, every set of threads and groups, every  *)
(* argument and every interleaving with the threads: what the calls of     *)
(* trace.c and of the extension modules report and change.                 *)
(***************************************************************************)
EXTENDS Bindings, WellFoundedInduction, TLAPS

(* The threads are of their type, and one that is not traced has no options. *)
Sound(ts) ==
  /\ ts \in [Tids -> Task]
  /\ \A t \in Tids : ts[t].trace = "no" => ts[t].options = {}

(* The threads that are traced in ts are traced now, with the same options. *)
KeepsOptions(ts) ==
  \A t \in Tids : ts[t].trace # "no" =>
                    tasks[t].trace # "no" /\ ts[t].options = tasks[t].options

LEMMA TaskFields ==
  ASSUME NEW k \in Task
  PROVE  /\ k.group \in Groups
         /\ k.run \in {"running", "stopped", "listening", "zombie", "gone"}
         /\ k.trace \in {"no", "attached", "seized"}
         /\ k.options \in SUBSET PTRACE_O_MASK
         /\ k.trap \in BOOLEAN
         /\ k.stop \in {"event", "other"}
BY DEF Task

(* What is done to one thread. *)
LEMMA UntracedIsTask ==
  ASSUME NEW g \in Groups
  PROVE  /\ Untraced(g) \in Task /\ Untraced(g).trace = "no"
         /\ Untraced(g).options = {}
BY DEF Untraced, Task

LEMMA GoneIsTask ==
  ASSUME NEW g \in Groups
  PROVE  /\ [Untraced(g) EXCEPT !.run = "gone"] \in Task
         /\ [Untraced(g) EXCEPT !.run = "gone"].trace = "no"
         /\ [Untraced(g) EXCEPT !.run = "gone"].options = {}
BY DEF Untraced, Task

LEMMA StoppedIsTask ==
  ASSUME NEW k \in Task, NEW s \in {"event", "other"}
  PROVE  /\ Stopped(k, s) \in Task /\ Stopped(k, s).trace = k.trace
         /\ Stopped(k, s).options = k.options
BY DEF Stopped, Task

LEMMA TracedIsTask ==
  ASSUME NEW k \in Task, NEW h \in {"attached", "seized"},
         NEW d \in SUBSET PTRACE_O_MASK, NEW p \in BOOLEAN
  PROVE  /\ Traced(k, h, d, p) \in Task /\ Traced(k, h, d, p).trace = h
         /\ Traced(k, h, d, p).options = d
BY DEF Traced, Task

LEMMA RunsIsTask ==
  ASSUME NEW k \in Task,
         NEW r \in {"running", "stopped", "listening", "zombie", "gone"}
  PROVE  /\ [k EXCEPT !.run = r] \in Task /\ [k EXCEPT !.run = r].trace = k.trace
         /\ [k EXCEPT !.run = r].options = k.options
BY DEF Task

LEMMA TrapIsTask ==
  ASSUME NEW k \in Task
  PROVE  /\ [k EXCEPT !.trap = TRUE] \in Task
         /\ [k EXCEPT !.trap = TRUE].trace = k.trace
         /\ [k EXCEPT !.trap = TRUE].options = k.options
BY DEF Task

LEMMA OptionsIsTask ==
  ASSUME NEW k \in Task, NEW d \in SUBSET PTRACE_O_MASK
  PROVE  /\ [k EXCEPT !.options = d] \in Task
         /\ [k EXCEPT !.options = d].trace = k.trace
         /\ [k EXCEPT !.options = d].options = d
BY DEF Task

(* One thread is changed to k, which is not traced or as it was. *)
LEMMA OneChanges ==
  ASSUME Sound(tasks), NEW t \in Tids, NEW k \in Task,
         k.trace = "no" => k.options = {},
         k.trace # "no" => tasks[t].trace # "no" /\ k.options = tasks[t].options
  PROVE  Sound([tasks EXCEPT ![t] = k]) /\ KeepsOptions([tasks EXCEPT ![t] = k])
<1>. DEFINE ts == [tasks EXCEPT ![t] = k]
<1>1. tasks \in [Tids -> Task]
  BY DEF Sound
<1>2. ts \in [Tids -> Task] /\ ts[t] = k /\ \A u \in Tids : u # t => ts[u] = tasks[u]
  BY <1>1
<1>. HIDE DEF ts
<1>3. Sound(ts) /\ KeepsOptions(ts)
  BY <1>2 DEF Sound, KeepsOptions
<1>. QED
  BY <1>3 DEF ts

(* SIGKILL ends the threads of the group, and nothing else. *)
LEMMA SignalledKeeps ==
  ASSUME Sound(tasks), NEW t \in Tids, NEW sig
  PROVE  /\ Sound(Signalled(t, sig)) /\ KeepsOptions(Signalled(t, sig))
         /\ \A u \in Tids : Signalled(t, sig)[u] # tasks[u] => tasks[u].group = tasks[t].group
<1>1. CASE sig # SIGKILL
  BY <1>1 DEF Signalled, KeepsOptions
<1>2. CASE sig = SIGKILL
  <2>. DEFINE ts == Signalled(t, sig)
  <2>1. ts = [u \in Tids |-> IF Alive(u) /\ tasks[u].group = tasks[t].group
                             THEN [tasks[u] EXCEPT !.run = "zombie"] ELSE tasks[u]]
    BY <1>2 DEF Signalled
  <2>. HIDE DEF ts
  <2>2. ASSUME NEW u \in Tids
        PROVE  /\ ts[u] \in Task /\ ts[u].trace = tasks[u].trace
               /\ ts[u].options = tasks[u].options
               /\ ts[u] # tasks[u] => tasks[u].group = tasks[t].group
    <3>1. tasks[u] \in Task
      BY DEF Sound
    <3>2. \/ ts[u] = [tasks[u] EXCEPT !.run = "zombie"]
             /\ tasks[u].group = tasks[t].group
          \/ ts[u] = tasks[u]
      BY <2>1
    <3>. QED
      BY <3>1, <3>2, RunsIsTask
  <2>3. ts \in [Tids -> Task]
    BY <2>1, <2>2
  <2>4. Sound(ts) /\ KeepsOptions(ts)
    BY <2>2, <2>3 DEF Sound, KeepsOptions
  <2>. QED
    BY <2>2, <2>4 DEF ts
<1>. QED
  BY <1>1, <1>2

-----------------------------------------------------------------------------
(* What the threads do by themselves. *)
LEMMA TaskStepKeeps ==
  ASSUME Sound(tasks), TaskStep
  PROVE  Sound(tasks') /\ KeepsOptions(tasks')
<1>1. PICK t \in Tids : \/ StopTask(t) \/ WakeTask(t) \/ ExitTask(t) \/ ReapTask(t)
                        \/ \E g \in Groups : NewTask(t, g)
  BY DEF TaskStep
<1>2. tasks[t] \in Task /\ (tasks[t].trace = "no" => tasks[t].options = {})
  BY DEF Sound
<1>3. tasks[t].group \in Groups /\ tasks[t].stop \in {"event", "other"}
  BY <1>2, TaskFields
<1>4. CASE StopTask(t)
  <2>1. PICK s \in {"event", "other"} :
          tasks' = [tasks EXCEPT ![t] = Stopped(tasks[t], s)]
    BY <1>4 DEF StopTask
  <2>2. tasks[t].trace # "no"
    BY <1>4 DEF StopTask
  <2>. QED
    BY <1>2, <2>1, <2>2, StoppedIsTask, OneChanges
<1>5. CASE WakeTask(t)
  <2>1. tasks' = [tasks EXCEPT ![t] = Stopped(tasks[t], tasks[t].stop)]
    BY <1>5 DEF WakeTask
  <2>. QED
    BY <1>2, <1>3, <2>1, StoppedIsTask, OneChanges
<1>6. CASE ExitTask(t)
  <2>1. tasks' = [tasks EXCEPT ![t] = [tasks[t] EXCEPT !.run = "zombie"]]
    BY <1>6 DEF ExitTask
  <2>. QED
    BY <1>2, <2>1, RunsIsTask, OneChanges
<1>7. CASE ReapTask(t)
  <2>. DEFINE k == [Untraced(tasks[t].group) EXCEPT !.run = "gone"]
  <2>1. tasks' = [tasks EXCEPT ![t] = k]
    BY <1>7 DEF ReapTask
  <2>2. k \in Task /\ k.trace = "no" /\ k.options = {}
    BY <1>3, GoneIsTask
  <2>. HIDE DEF k
  <2>. QED
    BY <2>1, <2>2, OneChanges
<1>8. ASSUME NEW g \in Groups, NewTask(t, g)
      PROVE  Sound(tasks') /\ KeepsOptions(tasks')
  <2>1. tasks' = [tasks EXCEPT ![t] = Untraced(g)]
    BY <1>8 DEF NewTask
  <2>. QED
    BY <2>1, UntracedIsTask, OneChanges
<1>. QED
  BY <1>1, <1>4, <1>5, <1>6, <1>7, <1>8

-----------------------------------------------------------------------------
(* The answers of the library. *)

(* The call has failed and done nothing, or succeeded. *)
AllOrNothing(lib) == lib.r # "0" => lib.tasks = tasks /\ lib.me = me

(* And it sets no options. *)
Harmless(lib) == AllOrNothing(lib) /\ Sound(lib.tasks) /\ KeepsOptions(lib.tasks)

LEMMA AnswerIs ==
  ASSUME Sound(tasks), NEW e
  PROVE  Harmless(Answer(e)) /\ Answer(e).r = e
BY DEF Answer, Harmless, AllOrNothing, KeepsOptions

(* The errors of a request: only options can be invalid. *)
LEMMA PtraceErrors ==
  ASSUME NEW req, NEW t, NEW data
  PROVE  /\ PtraceErrno(req, t, data) \in {"0", "ESRCH", "EPERM", "EIO", "EINVAL"}
         /\ PtraceErrno(req, t, data) = "0" => t \in Tids
         /\ PtraceErrno(req, t, data) = "0" /\ req \in {"SEIZE", "SETOPTIONS"}
              => data \subseteq PTRACE_O_MASK
         /\ PtraceErrno(req, t, data) = "0" /\ req \in {"ATTACH", "SEIZE"}
              => tasks[t].trace = "no"
         /\ PtraceErrno(req, t, data) = "0" /\ req \notin {"ATTACH", "SEIZE"}
              => tasks[t].trace # "no"
         /\ PtraceErrno(req, t, data) = "EINVAL" =>
              req = "SETOPTIONS" /\ ~(data \subseteq PTRACE_O_MASK)
BY DEF PtraceErrno, AttachErrno, RequestErrno, Exists, Resumes

LEMMA PtraceAnswers ==
  ASSUME NEW req, NEW t, NEW data
  PROVE  LET lib == pink_ptrace(req, t, data)
         IN  /\ AllOrNothing(lib)
             /\ lib.r \in {"0", "ESRCH", "EPERM", "EFAULT", "EINVAL"}
             /\ lib.r = "EINVAL" => req = "SETOPTIONS" /\ ~(data \subseteq PTRACE_O_MASK)
             /\ lib.r = "0" => /\ PtraceErrno(req, t, data) = "0"
                               /\ lib.tasks = Ptraced(req, t, data) /\ lib.me = me
<1>. DEFINE e == PtraceErrno(req, t, data)
<1>1. /\ e \in {"0", "ESRCH", "EPERM", "EIO", "EINVAL"}
      /\ e = "EINVAL" => req = "SETOPTIONS" /\ ~(data \subseteq PTRACE_O_MASK)
  BY PtraceErrors
<1>2. pink_ptrace(req, t, data) =
        IF e = "0" THEN Success(Ptraced(req, t, data))
        ELSE IF e = "EIO" THEN Answer("EFAULT") ELSE Answer(e)
  BY DEF pink_ptrace
<1>. HIDE DEF e
<1>3. CASE e = "0"
  BY <1>2, <1>3 DEF Success, AllOrNothing, e
<1>4. CASE e # "0"
  BY <1>1, <1>2, <1>4 DEF Answer, AllOrNothing
<1>. QED
  BY <1>3, <1>4

(* The threads after a request that does not set options. *)
LEMMA PtracedKeeps ==
  ASSUME Sound(tasks), NEW req, NEW t \in Tids, NEW data,
         req \notin {"ATTACH", "SEIZE", "SETOPTIONS"}
  PROVE  Sound(Ptraced(req, t, data)) /\ KeepsOptions(Ptraced(req, t, data))
<1>1. /\ tasks[t] \in Task /\ tasks[t].group \in Groups
      /\ tasks[t].trace = "no" => tasks[t].options = {}
  BY TaskFields DEF Sound
<1>2. CASE req \in Resumes \cup {"DETACH"} /\ data = SIGKILL
  <2>1. Ptraced(req, t, data) = Signalled(t, data)
    BY <1>2 DEF Ptraced, Resumes
  <2>. QED
    BY <2>1, SignalledKeeps
<1>3. CASE req \in Resumes /\ data # SIGKILL
  <2>. DEFINE k == [tasks[t] EXCEPT !.run = "running"]
  <2>1. Ptraced(req, t, data) = [tasks EXCEPT ![t] = k]
    BY <1>3 DEF Ptraced, Resumes
  <2>2. k \in Task /\ k.trace = tasks[t].trace /\ k.options = tasks[t].options
    BY <1>1, RunsIsTask
  <2>. HIDE DEF k
  <2>. QED
    BY <1>1, <2>1, <2>2, OneChanges
<1>4. CASE req = "DETACH" /\ data # SIGKILL
  <2>1. Ptraced(req, t, data) = [tasks EXCEPT ![t] = Untraced(tasks[t].group)]
    BY <1>4 DEF Ptraced, Resumes
  <2>. QED
    BY <1>1, <2>1, UntracedIsTask, OneChanges
<1>5. CASE req = "INTERRUPT"
  <2>. DEFINE k == [tasks[t] EXCEPT !.trap = TRUE]
  <2>1. Ptraced(req, t, data) = [tasks EXCEPT ![t] = k]
    BY <1>5 DEF Ptraced, Resumes
  <2>2. k \in Task /\ k.trace = tasks[t].trace /\ k.options = tasks[t].options
    BY <1>1, TrapIsTask
  <2>. HIDE DEF k
  <2>. QED
    BY <1>1, <2>1, <2>2, OneChanges
<1>6. CASE req = "LISTEN"
  <2>. DEFINE k == [tasks[t] EXCEPT !.run = "listening"]
  <2>1. Ptraced(req, t, data) = [tasks EXCEPT ![t] = k]
    BY <1>6 DEF Ptraced, Resumes
  <2>2. k \in Task /\ k.trace = tasks[t].trace /\ k.options = tasks[t].options
    BY <1>1, RunsIsTask
  <2>. HIDE DEF k
  <2>. QED
    BY <1>1, <2>1, <2>2, OneChanges
<1>7. CASE req \notin Resumes \cup {"DETACH", "INTERRUPT", "LISTEN"}
  <2>1. Ptraced(req, t, data) = tasks
    BY <1>7 DEF Ptraced
  <2>. QED
    BY <2>1 DEF KeepsOptions
<1>. QED
  BY <1>2, <1>3, <1>4, <1>5, <1>6, <1>7

(* A request that does not set options keeps them. *)
LEMMA PtraceIsHarmless ==
  ASSUME Sound(tasks), NEW req, NEW t, NEW data,
         req \notin {"ATTACH", "SEIZE", "SETOPTIONS"}
  PROVE  Harmless(pink_ptrace(req, t, data))
<1>. DEFINE lib == pink_ptrace(req, t, data)
<1>1. CASE lib.r # "0"
  BY <1>1, PtraceAnswers DEF Harmless, AllOrNothing, KeepsOptions
<1>2. CASE lib.r = "0"
  <2>1. AllOrNothing(lib) /\ lib.tasks = Ptraced(req, t, data) /\ t \in Tids
        /\ tasks[t].trace # "no"
    BY <1>2, PtraceAnswers, PtraceErrors
  <2>. HIDE DEF lib
  <2>2. tasks[t] \in Task /\ tasks[t].group \in Groups
    BY <2>1, TaskFields DEF Sound
  <2>3. Sound(Ptraced(req, t, data)) /\ KeepsOptions(Ptraced(req, t, data))
    BY <2>1, <2>2, PtracedKeeps
  <2>. QED
    BY <2>1, <2>3 DEF Harmless, lib
<1>. QED
  BY <1>1, <1>2

(* The request sets the options of thread t, and changes no other thread. *)
Sets(lib, t, options) ==
  /\ AllOrNothing(lib) /\ Sound(lib.tasks)
  /\ lib.r = "0" => /\ t \in Tids
                    /\ lib.tasks[t].trace # "no" /\ lib.tasks[t].options = options
                    /\ \A u \in Tids \ {t} : lib.tasks[u] = tasks[u]

(* PTRACE_ATTACH, PTRACE_SEIZE, PTRACE_SETOPTIONS: one thread is changed to *)
(* k, which is traced.                                                      *)
LEMMA OneIsSet ==
  ASSUME Sound(tasks), NEW lib, NEW t \in Tids, NEW k \in Task, AllOrNothing(lib),
         k.trace # "no", lib.tasks = [tasks EXCEPT ![t] = k]
  PROVE  Sets(lib, t, k.options)
<1>1. tasks \in [Tids -> Task]
  BY DEF Sound
<1>2. lib.tasks \in [Tids -> Task] /\ lib.tasks[t] = k
      /\ \A u \in Tids : u # t => lib.tasks[u] = tasks[u]
  BY <1>1
<1>3. Sound(lib.tasks)
  BY <1>2 DEF Sound
<1>. QED
  BY <1>2, <1>3 DEF Sets

LEMMA PtraceSets ==
  ASSUME Sound(tasks), NEW req \in {"ATTACH", "SEIZE", "SETOPTIONS"}, NEW t, NEW data
  PROVE  Sets(pink_ptrace(req, t, data), t, IF req = "ATTACH" THEN {} ELSE data)
<1>. DEFINE lib == pink_ptrace(req, t, data)
            errno == PtraceErrno(req, t, data)
<1>1. /\ AllOrNothing(lib)
      /\ lib.r = "0" => errno = "0" /\ lib.tasks = Ptraced(req, t, data)
  BY PtraceAnswers
<1>2. /\ errno = "0" => t \in Tids
      /\ errno = "0" /\ req \in {"SEIZE", "SETOPTIONS"} => data \subseteq PTRACE_O_MASK
      /\ errno = "0" /\ req \in {"ATTACH", "SEIZE"} => tasks[t].trace = "no"
      /\ errno = "0" /\ req \notin {"ATTACH", "SEIZE"} => tasks[t].trace # "no"
  BY PtraceErrors
<1>. HIDE DEF lib, errno
<1>3. CASE lib.r # "0"
  <2>1. lib.tasks = tasks
    BY <1>1, <1>3 DEF AllOrNothing
  <2>. QED
    BY <1>1, <1>3, <2>1 DEF Sets, lib
<1>4. CASE lib.r = "0" /\ req = "ATTACH"
  <2>. DEFINE k == Traced(tasks[t], "attached", tasks[t].options, TRUE)
  <2>1. t \in Tids /\ tasks[t] \in Task /\ tasks[t].options = {}
    BY <1>1, <1>2, <1>4 DEF Sound
  <2>2. k \in Task /\ k.trace # "no" /\ k.options = {}
    <3>1. tasks[t].options \in SUBSET PTRACE_O_MASK
      BY <2>1
    <3>2. k \in Task /\ k.trace = "attached" /\ k.options = tasks[t].options
      BY <2>1, <3>1, TaskFields DEF Traced, Task
    <3>. QED
      BY <2>1, <3>2
  <2>3. lib.tasks = [tasks EXCEPT ![t] = k]
    BY <1>1, <1>4 DEF Ptraced, Resumes
  <2>. HIDE DEF k
  <2>4. Sets(lib, t, k.options)
    BY <1>1, <2>1, <2>2, <2>3, OneIsSet
  <2>. QED
    BY <1>4, <2>2, <2>4 DEF lib
<1>5. CASE lib.r = "0" /\ req = "SEIZE"
  <2>. DEFINE k == Traced(tasks[t], "seized", data, tasks[t].trap)
  <2>1. t \in Tids /\ tasks[t] \in Task /\ data \in SUBSET PTRACE_O_MASK
    BY <1>1, <1>2, <1>5 DEF Sound
  <2>2. k \in Task /\ k.trace # "no" /\ k.options = data
    BY <2>1, TracedIsTask, TaskFields
  <2>3. lib.tasks = [tasks EXCEPT ![t] = k]
    BY <1>1, <1>5 DEF Ptraced, Resumes
  <2>. HIDE DEF k
  <2>. QED
    BY <1>1, <1>5, <2>1, <2>2, <2>3, OneIsSet DEF lib
<1>6. CASE lib.r = "0" /\ req = "SETOPTIONS"
  <2>. DEFINE k == [tasks[t] EXCEPT !.options = data]
  <2>1. /\ t \in Tids /\ tasks[t] \in Task /\ data \in SUBSET PTRACE_O_MASK
        /\ tasks[t].trace # "no"
    BY <1>1, <1>2, <1>6 DEF Sound
  <2>2. k \in Task /\ k.trace # "no" /\ k.options = data
    BY <2>1, OptionsIsTask
  <2>3. lib.tasks = [tasks EXCEPT ![t] = k]
    BY <1>1, <1>6 DEF Ptraced, Resumes
  <2>. HIDE DEF k
  <2>. QED
    BY <1>1, <1>6, <2>1, <2>2, <2>3, OneIsSet DEF lib
<1>. QED
  BY <1>3, <1>4, <1>5, <1>6 DEF lib

(* A call that is compiled to fail fails without doing anything. *)
LEMMA IfHaveKeeps ==
  ASSUME Sound(tasks), NEW feature, NEW lib
  PROVE  /\ Harmless(lib) => Harmless(IfHave(feature, lib))
         /\ \A t, options : Sets(lib, t, options) => Sets(IfHave(feature, lib), t, options)
         /\ feature \in have => IfHave(feature, lib) = lib
<1>1. Harmless(Answer("ENOSYS")) /\ Answer("ENOSYS").r = "ENOSYS"
  BY AnswerIs
<1>2. \A t, options : Sets(Answer("ENOSYS"), t, options)
  BY <1>1 DEF Harmless, Sets
<1>3. IfHave(feature, lib) = IF feature \in have THEN lib ELSE Answer("ENOSYS")
  BY DEF IfHave
<1>. QED
  BY <1>1, <1>2, <1>3

(* What reads or writes a register or a message changes no thread. *)
Quiet == {"GETEVENTMSG", "GETREGS", "GETREGSET", "SETREGS", "SETREGSET", "GETSIGINFO"}

LEMMA PtraceIsQuiet ==
  ASSUME Sound(tasks), NEW req \in Quiet, NEW t, NEW data
  PROVE  pink_ptrace(req, t, data).tasks = tasks
<1>1. Ptraced(req, t, data) = tasks
  BY DEF Ptraced, Quiet, Resumes
<1>. QED
  BY <1>1, PtraceAnswers DEF AllOrNothing

(* The call keeps the options, and fails for want of support only where the *)
(* build lacks what it needs.                                               *)
Plain(lib, needs) ==
  /\ Harmless(lib)
  /\ needs \subseteq have => lib.r \notin {"ENOSYS", "EINVAL"}

LEMMA RequestIsPlain ==
  ASSUME Sound(tasks), NEW req, NEW t, NEW data,
         req \notin {"ATTACH", "SEIZE", "SETOPTIONS"}
  PROVE  /\ Plain(pink_ptrace(req, t, data), {})
         /\ \A feature : Plain(IfHave(feature, pink_ptrace(req, t, data)), {feature})
<1>. DEFINE lib == pink_ptrace(req, t, data)
<1>1. Harmless(lib)
  BY PtraceIsHarmless
<1>2. lib.r \notin {"ENOSYS", "EINVAL"}
  BY PtraceAnswers
<1>. HIDE DEF lib
<1>3. ASSUME NEW feature
      PROVE  Plain(IfHave(feature, lib), {feature})
  BY <1>1, <1>2, IfHaveKeeps DEF Plain
<1>. QED
  BY <1>1, <1>2, <1>3 DEF Plain, lib

(* kill, tkill and tgkill: no thread outside of the group is hit. *)
LEMMA TkillIsHarmless ==
  ASSUME Sound(tasks), NEW tid, NEW sig
  PROVE  /\ Harmless(tkill(tid, sig))
         /\ \A u \in Tids : tkill(tid, sig).tasks[u] # tasks[u] =>
                              Exists(tid) /\ tasks[u].group = tasks[tid].group
<1>. DEFINE lib == tkill(tid, sig)
<1>1. \/ lib = Answer("ESRCH") \/ lib = Answer("EINVAL")
      \/ Exists(tid) /\ lib = Success(Signalled(tid, sig))
  BY DEF tkill
<1>. HIDE DEF lib
<1>2. ASSUME NEW e, lib = Answer(e)
      PROVE  Harmless(lib) /\ lib.tasks = tasks
  BY <1>2, AnswerIs DEF Answer
<1>3. CASE Exists(tid) /\ lib = Success(Signalled(tid, sig))
  <2>1. tid \in Tids
    BY <1>3 DEF Exists
  <2>2. lib.r = "0" /\ lib.tasks = Signalled(tid, sig)
    BY <1>3 DEF Success
  <2>. QED
    BY <1>3, <2>1, <2>2, SignalledKeeps DEF Harmless, AllOrNothing, lib
<1>. QED
  BY <1>1, <1>2, <1>3 DEF lib

LEMMA KillIsHarmless ==
  ASSUME Sound(tasks), NEW tid \in Int, NEW tgid \in Int, NEW sig
  PROVE  LET lib == pink_trace_kill(tid, tgid, sig)
         IN  /\ Harmless(lib)
             /\ tgid > 0 /\ "TGKILL" \in have =>
                  \A u \in Tids : lib.tasks[u] # tasks[u] => tasks[u].group = tgid
<1>. DEFINE lib == pink_trace_kill(tid, tgid, sig)
<1>1. \/ lib = Answer("EINVAL") \/ lib = Answer("ESRCH")
      \/ /\ lib = tkill(tid, sig)
         /\ tgid > 0 /\ "TGKILL" \in have /\ Exists(tid) => tasks[tid].group = tgid
  BY DEF pink_trace_kill, tgkill
<1>2. ASSUME NEW e, lib = Answer(e)
      PROVE  Harmless(lib) /\ lib.tasks = tasks
  BY <1>2, AnswerIs DEF Answer
<1>. HIDE DEF lib
<1>. QED
  BY <1>1, <1>2, TkillIsHarmless DEF lib

-----------------------------------------------------------------------------
(* The calls of the extension modules. *)

Languages == {"C", "python2", "python3"}

(* The caller is told of an error iff there was one. *)
Reports(o) ==
  /\ ~(lang = "python2" /\ o.lib.r = "ENOSYS") => (Raised(o) <=> o.lib.r # "0")
  /\ Raised(o) => o.lib.r # "0"

LEMMA RefusedReports ==
  ASSUME NEW err
  PROVE  Reports(Refused(err)) /\ Refused(err).lib = Answer("none")
BY DEF Refused, Outcome, Answer, Reports, Raised

LEMMA PINK_CALLReports ==
  ASSUME lang \in Languages, lang # "C", NEW lib
  PROVE  Reports(PINK_CALL(lib)) /\ PINK_CALL(lib).lib = lib
BY DEF PINK_CALL, Outcome, Reports, Raised, Languages

LEMMA DirectReports ==
  ASSUME NEW lib
  PROVE  lang = "C" => Reports(Direct(lib))
BY DEF Direct, Outcome, Reports, Raised

LEMMA ByReports ==
  ASSUME lang \in Languages, NEW lib, NEW python,
         python \in {PINK_CALL(lib), Refused("ValueError")}
  PROVE  Reports(By(python, lib)) /\ By(python, lib).lib \in {lib, Answer("none")}
<1>1. CASE lang = "C"
  BY <1>1, DirectReports DEF By, Direct, Outcome
<1>2. CASE lang # "C"
  BY <1>2, RefusedReports, PINK_CALLReports DEF By
<1>. QED
  BY <1>1, <1>2

LEMMA PlainBy ==
  ASSUME Sound(tasks), lang \in Languages, NEW lib, NEW needs, Plain(lib, needs),
         NEW python, python \in {PINK_CALL(lib), Refused("ValueError")}
  PROVE  Reports(By(python, lib)) /\ Plain(By(python, lib).lib, needs)
<1>1. Plain(Answer("none"), needs)
  BY AnswerIs DEF Plain
<1>. QED
  BY <1>1, ByReports

LEMMA SetsBy ==
  ASSUME Sound(tasks), lang \in Languages, NEW lib, NEW t, NEW options,
         Sets(lib, t, options),
         NEW python, python \in {PINK_CALL(lib), Refused("ValueError")}
  PROVE  Reports(By(python, lib)) /\ Sets(By(python, lib).lib, t, options)
<1>1. Sets(Answer("none"), t, options)
  BY AnswerIs DEF Sets, Harmless
<1>. QED
  BY <1>1, ByReports

(* The names that py-system.c advertises stand for what the build has. *)
LEMMA AdvertisedIsThere ==
  ASSUME have \in Builds
  PROVE  system_init \subseteq have
BY BindingsAssumption DEF system_init

(* The calls that pass a signal. *)
LEMMA SignalCallIsPlain ==
  ASSUME Sound(tasks), lang \in Languages, NEW f \in SignalCalls, NEW pid, NEW sig
  PROVE  /\ Reports(SignalCall(f, pid, sig))
         /\ Plain(SignalCall(f, pid, sig).lib, Needs(f))
<1>1. CASE f = "resume"
  <2>. DEFINE lib == pink_trace_resume(pid, sig)
              python == pinkpy_trace_resume(pid, sig)
  <2>1. SignalCall(f, pid, sig) = By(python, lib) /\ Needs(f) = {}
    BY <1>1 DEF SignalCall, Needs
  <2>2. python \in {PINK_CALL(lib), Refused("ValueError")}
    BY DEF pinkpy_trace_resume, PINK_CHECK_SIGNAL, PINK_CALL_TRUE
  <2>3. Plain(lib, {})
    BY RequestIsPlain DEF pink_trace_resume
  <2>. HIDE DEF lib, python
  <2>. QED
    BY <2>1, <2>2, <2>3, PlainBy
<1>2. CASE f = "singlestep"
  <2>. DEFINE lib == pink_trace_singlestep(pid, sig)
              python == pinkpy_trace_singlestep(pid, sig)
  <2>1. SignalCall(f, pid, sig) = By(python, lib) /\ Needs(f) = {}
    BY <1>2 DEF SignalCall, Needs
  <2>2. python \in {PINK_CALL(lib), Refused("ValueError")}
    BY DEF pinkpy_trace_singlestep, PINK_CHECK_SIGNAL, PINK_CALL_TRUE
  <2>3. Plain(lib, {})
    BY RequestIsPlain DEF pink_trace_singlestep
  <2>. HIDE DEF lib, python
  <2>. QED
    BY <2>1, <2>2, <2>3, PlainBy
<1>3. CASE f = "syscall"
  <2>. DEFINE lib == pink_trace_syscall(pid, sig)
              python == pinkpy_trace_syscall(pid, sig)
  <2>1. SignalCall(f, pid, sig) = By(python, lib) /\ Needs(f) = {}
    BY <1>3 DEF SignalCall, Needs
  <2>2. python \in {PINK_CALL(lib), Refused("ValueError")}
    BY DEF pinkpy_trace_syscall, PINK_CHECK_SIGNAL, PINK_CALL_TRUE
  <2>3. Plain(lib, {})
    BY RequestIsPlain DEF pink_trace_syscall
  <2>. HIDE DEF lib, python
  <2>. QED
    BY <2>1, <2>2, <2>3, PlainBy
<1>4. CASE f = "sysemu"
  <2>. DEFINE lib == pink_trace_sysemu(pid, sig)
              python == pinkpy_trace_sysemu(pid, sig)
  <2>1. SignalCall(f, pid, sig) = By(python, lib) /\ Needs(f) = {"SYSEMU"}
    BY <1>4 DEF SignalCall, Needs
  <2>2. python \in {PINK_CALL(lib), Refused("ValueError")}
    BY DEF pinkpy_trace_sysemu, PINK_CHECK_SIGNAL, PINK_CALL_TRUE
  <2>3. Plain(lib, {"SYSEMU"})
    BY RequestIsPlain DEF pink_trace_sysemu
  <2>. HIDE DEF lib, python
  <2>. QED
    BY <2>1, <2>2, <2>3, PlainBy
<1>5. CASE f = "sysemu_singlestep"
  <2>. DEFINE lib == pink_trace_sysemu_singlestep(pid, sig)
              python == pinkpy_trace_sysemu_singlestep(pid, sig)
  <2>1. SignalCall(f, pid, sig) = By(python, lib) /\ Needs(f) = {"SYSEMU"}
    BY <1>5 DEF SignalCall, Needs
  <2>2. python \in {PINK_CALL(lib), Refused("ValueError")}
    BY DEF pinkpy_trace_sysemu_singlestep, PINK_CHECK_SIGNAL, PINK_CALL_TRUE
  <2>3. Plain(lib, {"SYSEMU"})
    BY RequestIsPlain DEF pink_trace_sysemu_singlestep
  <2>. HIDE DEF lib, python
  <2>. QED
    BY <2>1, <2>2, <2>3, PlainBy
<1>6. CASE f = "detach"
  <2>. DEFINE lib == pink_trace_detach(pid, sig)
              python == pinkpy_trace_detach(pid, sig)
  <2>1. SignalCall(f, pid, sig) = By(python, lib) /\ Needs(f) = {}
    BY <1>6 DEF SignalCall, Needs
  <2>2. python \in {PINK_CALL(lib), Refused("ValueError")}
    BY DEF pinkpy_trace_detach, PINK_CHECK_SIGNAL, PINK_CALL_TRUE
  <2>3. Plain(lib, {})
    BY RequestIsPlain DEF pink_trace_detach
  <2>. HIDE DEF lib, python
  <2>. QED
    BY <2>1, <2>2, <2>3, PlainBy
<1>. QED
  BY <1>1, <1>2, <1>3, <1>4, <1>5, <1>6 DEF SignalCalls

(* The calls with a thread id only. *)
LEMMA PidCallIsPlain ==
  ASSUME Sound(tasks), lang \in Languages, NEW f \in PidCalls \ {"attach"}, NEW pid
  PROVE  Reports(PidCall(f, pid)) /\ Plain(PidCall(f, pid).lib, Needs(f))
<1>1. CASE f = "geteventmsg"
  <2>. DEFINE lib == pink_trace_geteventmsg(pid)
              python == pinkpy_trace_geteventmsg(pid)
  <2>1. PidCall(f, pid) = By(python, lib) /\ Needs(f) = {"GETEVENTMSG"}
    BY <1>1 DEF PidCall, Needs
  <2>2. python \in {PINK_CALL(lib), Refused("ValueError")}
    BY DEF pinkpy_trace_geteventmsg
  <2>3. Plain(lib, {"GETEVENTMSG"})
    BY RequestIsPlain DEF pink_trace_geteventmsg
  <2>. HIDE DEF lib, python
  <2>. QED
    BY <2>1, <2>2, <2>3, PlainBy
<1>2. CASE f = "interrupt"
  <2>. DEFINE lib == pink_trace_interrupt(pid)
              python == pinkpy_trace_interrupt(pid)
  <2>1. PidCall(f, pid) = By(python, lib) /\ Needs(f) = {"INTERRUPT"}
    BY <1>2 DEF PidCall, Needs
  <2>2. python \in {PINK_CALL(lib), Refused("ValueError")}
    BY DEF pinkpy_trace_interrupt, PINK_CALL_TRUE
  <2>3. Plain(lib, {"INTERRUPT"})
    BY RequestIsPlain DEF pink_trace_interrupt
  <2>. HIDE DEF lib, python
  <2>. QED
    BY <2>1, <2>2, <2>3, PlainBy
<1>3. CASE f = "listen"
  <2>. DEFINE lib == pink_trace_listen(pid)
              python == pinkpy_trace_listen(pid)
  <2>1. PidCall(f, pid) = By(python, lib) /\ Needs(f) = {"LISTEN"}
    BY <1>3 DEF PidCall, Needs
  <2>2. python \in {PINK_CALL(lib), Refused("ValueError")}
    BY DEF pinkpy_trace_listen, PINK_CALL_TRUE
  <2>3. Plain(lib, {"LISTEN"})
    BY RequestIsPlain DEF pink_trace_listen
  <2>. HIDE DEF lib, python
  <2>. QED
    BY <2>1, <2>2, <2>3, PlainBy
<1>. QED
  BY <1>1, <1>2, <1>3 DEF PidCalls

(* The calls that only C programs make change no thread. *)
LEMMA LibraryCallIsQuiet ==
  ASSUME Sound(tasks), lang = "C", NEW f \in LibraryCalls, NEW pid
  PROVE  LET o == LibraryCall(f, pid)
         IN  Reports(o) /\ Harmless(o.lib) /\ o.lib.tasks = tasks
<1>1. ASSUME NEW req \in Quiet
      PROVE  LET lib == IfHave(req, pink_ptrace(req, pid, {}))
             IN  /\ Reports(Direct(lib)) /\ Direct(lib).lib = lib
                 /\ Harmless(lib) /\ lib.tasks = tasks
  <2>. DEFINE lib == IfHave(req, pink_ptrace(req, pid, {}))
  <2>1. Harmless(lib)
    BY RequestIsPlain DEF Plain, Quiet
  <2>2. lib.tasks = tasks
    BY PtraceIsQuiet DEF IfHave, Answer
  <2>. HIDE DEF lib
  <2>3. Reports(Direct(lib)) /\ Direct(lib).lib = lib
    BY DirectReports DEF Direct, Outcome
  <2>. QED
    BY <2>1, <2>2, <2>3 DEF lib
<1>2. PICK req \in Quiet : LibraryCall(f, pid) = Direct(IfHave(req, pink_ptrace(req, pid, {})))
  BY DEF LibraryCall, LibraryCalls, Quiet, pink_trace_get_regs, pink_trace_get_regset,
     pink_trace_set_regs, pink_trace_set_regset, pink_trace_get_siginfo
<1>. QED
  BY <1>1, <1>2

(* The calls that set options: pink_trace_attach none, pink_trace_setup the *)
(* translated ones, pink_trace_seize the bits it is given.                  *)
Translated(options) == {PtraceBit[o] : o \in Wanted(options)}

LEMMA AttachSets ==
  ASSUME Sound(tasks), lang \in Languages, NEW pid
  PROVE  Reports(PidCall("attach", pid)) /\ Sets(PidCall("attach", pid).lib, pid, {})
<1>. DEFINE lib == pink_trace_attach(pid)
            python == pinkpy_trace_attach(pid)
<1>1. PidCall("attach", pid) = By(python, lib)
  BY DEF PidCall
<1>2. python \in {PINK_CALL(lib), Refused("ValueError")}
  BY DEF pinkpy_trace_attach, PINK_CALL_TRUE
<1>3. Sets(lib, pid, {})
  <2>1. Sets(lib, pid, IF "ATTACH" = "ATTACH" THEN {} ELSE {})
    BY PtraceSets DEF pink_trace_attach
  <2>. QED
    BY <2>1
<1>. HIDE DEF lib, python
<1>. QED
  BY <1>1, <1>2, <1>3, SetsBy

LEMMA SetupSets ==
  ASSUME Sound(tasks), lang \in Languages, NEW pid, NEW options
  PROVE  LET o == By(pinkpy_trace_setup(pid, options), pink_trace_setup(pid, options))
         IN  /\ Reports(o) /\ Sets(o.lib, pid, Translated(options))
             /\ {"SETUP"} \cup Wanted(options) \subseteq have
                  => o.lib.r \notin {"ENOSYS", "EINVAL"}
<1>. DEFINE lib == pink_trace_setup(pid, options)
            python == pinkpy_trace_setup(pid, options)
            request == pink_ptrace("SETOPTIONS", pid, Translated(options))
<1>1. python = PINK_CALL(lib)
  BY DEF pinkpy_trace_setup, PINK_CALL_TRUE
<1>2. Sets(request, pid, Translated(options))
  <2>1. Sets(request, pid, IF "SETOPTIONS" = "ATTACH" THEN {} ELSE Translated(options))
    BY PtraceSets
  <2>. QED
    BY <2>1
<1>3. request.r \notin {"ENOSYS", "EINVAL"}
  <2>1. Translated(options) \subseteq PTRACE_O_MASK
    BY DEF Translated, Wanted, PTRACE_O_MASK
  <2>. QED
    BY <2>1, PtraceAnswers
<1>4. lib = IfHave("SETUP", IF ~(Wanted(options) \subseteq have) THEN Answer("EINVAL")
                            ELSE request)
  BY DEF pink_trace_setup, Translated
<1>5. Sets(Answer("EINVAL"), pid, Translated(options))
  BY AnswerIs DEF Sets, Harmless
<1>. HIDE DEF lib, python, request
<1>6. Sets(lib, pid, Translated(options))
  BY <1>2, <1>4, <1>5, IfHaveKeeps
<1>7. {"SETUP"} \cup Wanted(options) \subseteq have => lib = request
  BY <1>4 DEF IfHave
<1>8. /\ Reports(By(python, lib)) /\ Sets(By(python, lib).lib, pid, Translated(options))
      /\ By(python, lib).lib \in {lib, Answer("none")}
  BY <1>1, <1>6, SetsBy, ByReports
<1>. QED
  BY <1>3, <1>7, <1>8, AnswerIs DEF lib, python

LEMMA SeizeSets ==
  ASSUME Sound(tasks), lang \in Languages, NEW pid, NEW options
  PROVE  LET o == By(pinkpy_trace_seize(pid, options), pink_trace_seize(pid, options))
         IN  /\ Reports(o) /\ Sets(o.lib, pid, options)
             /\ "SEIZE" \in have => o.lib.r \notin {"ENOSYS", "EINVAL"}
<1>. DEFINE lib == pink_trace_seize(pid, options)
            python == pinkpy_trace_seize(pid, options)
            request == pink_ptrace("SEIZE", pid, options)
<1>1. python \in {PINK_CALL(lib), Refused("ValueError")}
  BY DEF pinkpy_trace_seize, PINK_CALL_TRUE
<1>2. Sets(request, pid, options)
  <2>1. Sets(request, pid, IF "SEIZE" = "ATTACH" THEN {} ELSE options)
    BY PtraceSets
  <2>. QED
    BY <2>1
<1>3. request.r \notin {"ENOSYS", "EINVAL"}
  BY PtraceAnswers
<1>4. lib = IfHave("SEIZE", request)
  BY DEF pink_trace_seize
<1>. HIDE DEF lib, python, request
<1>5. Sets(lib, pid, options) /\ ("SEIZE" \in have => lib = request)
  BY <1>2, <1>4, IfHaveKeeps
<1>6. /\ Reports(By(python, lib)) /\ Sets(By(python, lib).lib, pid, options)
      /\ By(python, lib).lib \in {lib, Answer("none")}
  BY <1>1, <1>5, SetsBy, ByReports
<1>. QED
  BY <1>3, <1>5, <1>6, AnswerIs DEF lib, python

(* The bits that the kernel knows are those of the options of the library,  *)
(* the bit of EXITKILL apart.                                               *)
LEMMA BitsAreTranslated ==
  ASSUME NEW options \in SUBSET PTRACE_O_MASK, PtraceBit.EXITKILL \notin options
  PROVE  Translated(options) = options
<1>1. Options = {"SYSGOOD", "FORK", "VFORK", "CLONE", "EXEC", "VFORK_DONE", "EXIT",
                 "SECCOMP", "EXITKILL"}
  BY DEF Options, PinkBit
<1>2. \A o \in Options \ {"EXITKILL"} : PtraceBit[o] = PinkBit[o]
  BY <1>1 DEF PtraceBit, PinkBit
<1>3. PtraceBit["EXITKILL"] = 20 /\ PinkBit["EXITKILL"] = 8
  BY DEF PtraceBit, PinkBit
<1>4. \A o \in Options \ {"EXITKILL"} : PinkBit[o] # 8
  BY <1>1 DEF PinkBit
<1>5. 8 \notin options
  BY <1>1, <1>2, <1>3, <1>4 DEF PTRACE_O_MASK
<1>6. Wanted(options) = {o \in Options \ {"EXITKILL"} : PtraceBit[o] \in options}
  BY <1>2, <1>3, <1>5 DEF Wanted
<1>7. ASSUME NEW b \in options
      PROVE  \E o \in Wanted(options) : PtraceBit[o] = b
  BY <1>3, <1>6 DEF PTRACE_O_MASK
<1>. QED
  BY <1>6, <1>7 DEF Translated

-----------------------------------------------------------------------------
(* The account that the program keeps of the options. *)

AskedOK ==
  /\ asked \in [Tids -> SUBSET Options]
  /\ \A t \in Tids : tasks[t].trace = "no" => asked[t] = {}

(* It stays right as long as no options are set. *)
LEMMA AskedKept ==
  ASSUME AskedOK, KeepsOptions(tasks'), AskedNow(asked)
  PROVE  /\ AskedOK'
         /\ tasks' = tasks => asked' = asked
         /\ OptionsAreThoseAsked => OptionsAreThoseAsked'
<1>1. asked' = [t \in Tids |-> IF tasks'[t].trace = "no" THEN {} ELSE asked[t]]
  BY DEF AskedNow
<1>2. asked \in [Tids -> SUBSET Options]
  BY DEF AskedOK
<1>3. AskedOK'
  BY <1>1, <1>2 DEF AskedOK
<1>4. ASSUME tasks' = tasks
      PROVE  asked' = asked
  BY <1>1, <1>2, <1>4 DEF AskedOK
<1>5. ASSUME OptionsAreThoseAsked, NEW t \in Tids, tasks'[t].trace # "no"
      PROVE  tasks'[t].options = {PtraceBit[o] : o \in asked'[t]}
  <2>1. tasks[t].trace # "no" /\ tasks'[t].options = tasks[t].options
    BY <1>5 DEF KeepsOptions
  <2>2. asked'[t] = asked[t]
    BY <1>1, <1>5
  <2>. QED
    BY <1>5, <2>1, <2>2 DEF OptionsAreThoseAsked
<1>6. OptionsAreThoseAsked => OptionsAreThoseAsked'
  BY <1>5 DEF OptionsAreThoseAsked
<1>. QED
  BY <1>3, <1>4, <1>6

(* The program does not look at the threads after a call that changes none. *)
LEMMA AskedSame ==
  ASSUME AskedOK, tasks' = tasks, asked' = asked
  PROVE  AskedOK' /\ (OptionsAreThoseAsked => OptionsAreThoseAsked')
BY DEF AskedOK, OptionsAreThoseAsked

(* It is right after options are set, if the kernel was given those bits. *)
LEMMA AskedSet ==
  ASSUME AskedOK, NEW pid, NEW options, NEW o, NEW bits, Sets(o.lib, pid, bits),
         tasks' = o.lib.tasks, Ask(pid, options, o)
  PROVE  /\ AskedOK'
         /\ o.lib.r # "0" => asked' = asked
         /\ OptionsAreThoseAsked /\ (o.lib.r = "0" => bits = Translated(options))
              => OptionsAreThoseAsked'
<1>1. CASE o.lib.r # "0"
  <2>1. tasks' = tasks
    BY <1>1 DEF Sets, AllOrNothing
  <2>2. AskedNow(asked)
    BY <1>1 DEF Ask
  <2>3. KeepsOptions(tasks')
    BY <2>1 DEF KeepsOptions
  <2>. QED
    BY <2>1, <2>2, <2>3, AskedKept
<1>2. CASE o.lib.r = "0"
  <2>. DEFINE wanted == Wanted(options)
  <2>1. asked \in [Tids -> SUBSET Options] /\ wanted \in SUBSET Options
    BY DEF AskedOK, Wanted
  <2>2. /\ pid \in Tids /\ tasks'[pid].trace # "no" /\ tasks'[pid].options = bits
        /\ \A u \in Tids \ {pid} : tasks'[u] = tasks[u]
    BY <1>2 DEF Sets
  <2>3. asked' = [t \in Tids |-> IF tasks'[t].trace = "no" THEN {}
                                 ELSE [asked EXCEPT ![pid] = wanted][t]]
    BY <1>2 DEF Ask, AskedNow
  <2>. HIDE DEF wanted
  <2>4. AskedOK'
    BY <2>1, <2>2, <2>3 DEF AskedOK
  <2>5. /\ asked'[pid] = wanted
        /\ \A u \in Tids \ {pid} : tasks'[u].trace # "no" => asked'[u] = asked[u]
    BY <2>1, <2>2, <2>3
  <2>6. ASSUME OptionsAreThoseAsked, bits = Translated(options), NEW t \in Tids,
               tasks'[t].trace # "no"
        PROVE  tasks'[t].options = {PtraceBit[x] : x \in asked'[t]}
    <3>1. CASE t = pid
      BY <2>2, <2>5, <2>6, <3>1 DEF Translated, wanted
    <3>2. CASE t # pid
      BY Zenon, <2>2, <2>5, <2>6, <3>2 DEF OptionsAreThoseAsked
    <3>. QED
      BY <3>1, <3>2
  <2>7. OptionsAreThoseAsked /\ bits = Translated(options) => OptionsAreThoseAsked'
    BY <2>6 DEF OptionsAreThoseAsked
  <2>. QED
    BY <1>2, <2>4, <2>7
<1>. QED
  BY <1>1, <1>2

-----------------------------------------------------------------------------
(* The inductive invariant. *)

BindingsInv ==
  /\ have \in Builds /\ lang \in Languages
  /\ Sound(tasks) /\ AskedOK
  /\ ErrorIsRaised /\ AdvertisedWorks

(* What FailureChangesNothing says of a step. *)
Fails ==
  call = NoCall /\ call' # NoCall /\ (Raised(ret') \/ ret'.r = "ENOSYS")
    => /\ UNCHANGED <<tasks, me, asked, objects>>
       /\ memory' # memory => call'.f = "new"

(* The calls that AdvertisedWorks is about. *)
Advertised ==
  {"setup", "seize", "interrupt", "listen", "sysemu", "sysemu_singlestep", "geteventmsg"}

LEMMA EndsKeeps ==
  ASSUME BindingsInv, NEW c, NEW o, Ends(c, o),
         Reports(o), AllOrNothing(o.lib), Sound(o.lib.tasks),
         c.f \in Advertised /\ c.needs \subseteq have
           => o.lib.r \notin {"ENOSYS", "EINVAL"},
         AskedOK', o.lib.r # "0" => asked' = asked
  PROVE  BindingsInv' /\ Fails
<1>1. /\ call' = c /\ ret' = Ret(o.null, o.err, o.lib.r)
      /\ tasks' = o.lib.tasks /\ me' = o.lib.me
      /\ have' = have /\ lang' = lang
      /\ objects' = objects /\ memory' = memory
  BY DEF Ends
<1>2. ret'.null = o.null /\ ret'.err = o.err /\ ret'.r = o.lib.r
  BY <1>1 DEF Ret
<1>3. /\ ~(lang = "python2" /\ o.lib.r = "ENOSYS") => (Raised(ret)' <=> o.lib.r # "0")
      /\ Raised(ret') => o.lib.r # "0"
  BY <1>1, <1>2 DEF Reports, Raised
<1>4. ErrorIsRaised'
  BY Zenon, <1>1, <1>2, <1>3 DEF ErrorIsRaised
<1>5. AdvertisedWorks'
  <2>1. system_init' = system_init
    BY Zenon, <1>1 DEF system_init
  <2>2. system_init \subseteq have
    BY AdvertisedIsThere DEF BindingsInv
  <2>. QED
    BY <1>1, <1>2, <2>1, <2>2 DEF AdvertisedWorks, Advertised
<1>6. BindingsInv'
  BY <1>1, <1>4, <1>5 DEF BindingsInv
<1>7. Fails
  BY <1>1, <1>2, <1>3 DEF Fails, AllOrNothing
<1>. QED
  BY <1>6, <1>7

(* The flags that the documentation asks for: bit 20, where the kernel has  *)
(* PTRACE_O_EXITKILL, is none of PINK_TRACE_OPTION_*.                       *)
OptionsArePink == \A options \in OptionSets : PtraceBit.EXITKILL \notin options

Keeps ==
  /\ BindingsInv' /\ Fails
  /\ OptionsArePink /\ OptionsAreThoseAsked => OptionsAreThoseAsked'

(* The three kinds of calls: one that sets no options, one that changes no  *)
(* thread and one that sets options.                                        *)
LEMMA HarmlessCall ==
  ASSUME BindingsInv, NEW c, NEW o, Ends(c, o), Reports(o), Harmless(o.lib),
         c.f \in Advertised /\ c.needs \subseteq have
           => o.lib.r \notin {"ENOSYS", "EINVAL"},
         AskedNow(asked)
  PROVE  Keeps
<1>1. AskedOK /\ KeepsOptions(tasks') /\ tasks' = o.lib.tasks
  BY DEF BindingsInv, Harmless, Ends
<1>2. /\ AskedOK' /\ (tasks' = tasks => asked' = asked)
      /\ OptionsAreThoseAsked => OptionsAreThoseAsked'
  BY <1>1, AskedKept
<1>3. AllOrNothing(o.lib) /\ Sound(o.lib.tasks)
  BY DEF Harmless
<1>4. o.lib.r # "0" => asked' = asked
  BY <1>1, <1>2, <1>3 DEF AllOrNothing
<1>5. BindingsInv' /\ Fails
  BY <1>2, <1>3, <1>4, EndsKeeps
<1>. QED
  BY <1>2, <1>5 DEF Keeps

LEMMA QuietCall ==
  ASSUME BindingsInv, NEW c, NEW o, Ends(c, o), Reports(o), AllOrNothing(o.lib),
         c.f \notin Advertised, o.lib.tasks = tasks, asked' = asked
  PROVE  Keeps
<1>1. AskedOK /\ tasks' = tasks /\ Sound(o.lib.tasks)
  BY DEF BindingsInv, Ends
<1>2. AskedOK' /\ (OptionsAreThoseAsked => OptionsAreThoseAsked')
  BY <1>1, AskedSame
<1>3. BindingsInv' /\ Fails
  BY <1>1, <1>2, EndsKeeps
<1>. QED
  BY <1>2, <1>3 DEF Keeps

LEMMA SettingCall ==
  ASSUME BindingsInv, NEW c, NEW o, Ends(c, o), Reports(o),
         NEW pid, NEW options, NEW bits, Sets(o.lib, pid, bits), Ask(pid, options, o),
         OptionsArePink /\ o.lib.r = "0" => bits = Translated(options),
         c.f \in Advertised /\ c.needs \subseteq have
           => o.lib.r \notin {"ENOSYS", "EINVAL"}
  PROVE  Keeps
<1>1. AskedOK /\ tasks' = o.lib.tasks /\ AllOrNothing(o.lib) /\ Sound(o.lib.tasks)
  BY Zenon DEF BindingsInv, Ends, Sets
<1>2. /\ AskedOK' /\ (o.lib.r # "0" => asked' = asked)
      /\ OptionsAreThoseAsked /\ (o.lib.r = "0" => bits = Translated(options))
           => OptionsAreThoseAsked'
  BY <1>1, AskedSet
<1>3. BindingsInv' /\ Fails
  BY Zenon, <1>1, <1>2, EndsKeeps
<1>. QED
  BY <1>2, <1>3 DEF Keeps

LEMMA CallOfIs ==
  ASSUME NEW f, NEW pid, NEW tgid, NEW options
  PROVE  LET c == CallOf(f, pid, tgid, options)
         IN  c.f = f /\ c.t = pid /\ c.tgid = tgid /\ c.needs = Needs(f) \cup Wanted(options)
BY DEF CallOf

LEMMA TraceMeKeeps ==
  ASSUME BindingsInv, CallTraceMe
  PROVE  Keeps
<1>. DEFINE lib == pink_trace_me
            o == By(pinkpy_trace_me, lib)
<1>1. AllOrNothing(lib) /\ lib.tasks = tasks
  BY DEF pink_trace_me, Answer, AllOrNothing
<1>2. AllOrNothing(Answer("none")) /\ Answer("none").tasks = tasks
  BY DEF Answer, AllOrNothing
<1>3. Reports(o) /\ o.lib \in {lib, Answer("none")}
  BY ByReports DEF BindingsInv, pinkpy_trace_me, PINK_CALL_TRUE
<1>4. Ends(CallOf("me", 0, 0, {}), o) /\ asked' = asked
  BY DEF CallTraceMe
<1>5. CallOf("me", 0, 0, {}).f \notin Advertised
  BY CallOfIs DEF Advertised
<1>. HIDE DEF lib, o
<1>6. AllOrNothing(o.lib) /\ o.lib.tasks = tasks
  BY <1>1, <1>2, <1>3
<1>. QED
  BY <1>3, <1>4, <1>5, <1>6, QuietCall

LEMMA MalformedKeeps ==
  ASSUME BindingsInv, CallMalformed
  PROVE  Keeps
<1>. DEFINE c == CallOf("malformed", 0, 0, {})
            o == Refused("TypeError")
<1>1. Reports(o) /\ o.lib = Answer("none")
  BY RefusedReports
<1>2. AllOrNothing(Answer("none")) /\ Answer("none").tasks = tasks
  BY DEF Answer, AllOrNothing
<1>3. Ends(c, o) /\ asked' = asked
  BY DEF CallMalformed
<1>4. c.f \notin Advertised
  BY CallOfIs DEF Advertised
<1>. HIDE DEF c, o
<1>. QED
  BY <1>1, <1>2, <1>3, <1>4, QuietCall

LEMMA WithSignalKeeps ==
  ASSUME BindingsInv, NEW f \in SignalCalls, NEW pid, NEW sig, CallWithSignal(f, pid, sig)
  PROVE  Keeps
<1>. DEFINE c == CallOf(f, pid, 0, {})
            o == SignalCall(f, pid, sig)
<1>1. Reports(o) /\ Plain(o.lib, Needs(f))
  BY SignalCallIsPlain DEF BindingsInv
<1>2. Ends(c, o) /\ AskedNow(asked)
  BY DEF CallWithSignal
<1>3. Needs(f) \subseteq c.needs
  BY CallOfIs
<1>. HIDE DEF c, o
<1>4. Harmless(o.lib) /\ (c.needs \subseteq have => o.lib.r \notin {"ENOSYS", "EINVAL"})
  BY <1>1, <1>3 DEF Plain
<1>. QED
  BY <1>1, <1>2, <1>4, HarmlessCall

LEMMA WithPidKeeps ==
  ASSUME BindingsInv, NEW f \in PidCalls, NEW pid, CallWithPid(f, pid)
  PROVE  Keeps
<1>. DEFINE c == CallOf(f, pid, 0, {})
            o == PidCall(f, pid)
<1>1. Ends(c, o)
  BY DEF CallWithPid
<1>2. c.f = f /\ Needs(f) \subseteq c.needs
  BY CallOfIs
<1>3. CASE f # "attach"
  <2>1. Reports(o) /\ Plain(o.lib, Needs(f))
    BY <1>3, PidCallIsPlain DEF BindingsInv
  <2>2. AskedNow(asked)
    BY <1>3 DEF CallWithPid
  <2>. HIDE DEF c, o
  <2>3. Harmless(o.lib) /\ (c.needs \subseteq have => o.lib.r \notin {"ENOSYS", "EINVAL"})
    BY <1>2, <2>1 DEF Plain
  <2>. QED
    BY <1>1, <2>1, <2>2, <2>3, HarmlessCall
<1>4. CASE f = "attach"
  <2>1. Reports(o) /\ Sets(o.lib, pid, {})
    BY <1>4, AttachSets DEF BindingsInv
  <2>2. Ask(pid, {}, o)
    BY <1>4 DEF CallWithPid
  <2>3. Translated({}) = {}
    BY DEF Translated, Wanted
  <2>4. c.f \notin Advertised
    BY <1>2, <1>4 DEF Advertised
  <2>. HIDE DEF c, o
  <2>. QED
    BY <1>1, <2>1, <2>2, <2>3, <2>4, SettingCall
<1>. QED
  BY <1>3, <1>4

LEMMA LibraryKeeps ==
  ASSUME BindingsInv, NEW f \in LibraryCalls, NEW pid, CallLibrary(f, pid)
  PROVE  Keeps
<1>. DEFINE c == CallOf(f, pid, 0, {})
            o == LibraryCall(f, pid)
<1>1. lang = "C" /\ Ends(c, o) /\ asked' = asked
  BY DEF CallLibrary
<1>2. Reports(o) /\ AllOrNothing(o.lib) /\ o.lib.tasks = tasks
  BY <1>1, LibraryCallIsQuiet DEF BindingsInv, Harmless
<1>3. c.f \notin Advertised
  BY CallOfIs DEF Advertised, LibraryCalls
<1>. HIDE DEF c, o
<1>. QED
  BY <1>1, <1>2, <1>3, QuietCall

(* What KillStaysInGroup says of a step. *)
Hits ==
  call = NoCall /\ call'.f = "kill" /\ call'.tgid > 0 /\ "TGKILL" \in have
    => \A t \in Tids : tasks'[t] # tasks[t] => tasks[t].group = call'.tgid

LEMMA KillKeeps ==
  ASSUME BindingsInv, NEW tid \in Int, NEW tgid \in Int, NEW sig, CallKill(tid, tgid, sig)
  PROVE  Keeps /\ Hits
<1>. DEFINE c == CallOf("kill", tid, tgid, {})
            lib == pink_trace_kill(tid, tgid, sig)
            python == pinkpy_trace_kill(tid, tgid, sig)
            o == By(python, lib)
<1>1. /\ Harmless(lib)
      /\ tgid > 0 /\ "TGKILL" \in have =>
           \A u \in Tids : lib.tasks[u] # tasks[u] => tasks[u].group = tgid
  BY Zenon, KillIsHarmless DEF BindingsInv
<1>2. python \in {PINK_CALL(lib), Refused("ValueError")}
  BY DEF pinkpy_trace_kill, PINK_CHECK_SIGNAL, PINK_CALL_TRUE
<1>3. Ends(c, o) /\ AskedNow(asked)
  BY DEF CallKill
<1>4. c.f = "kill" /\ c.tgid = tgid /\ c.f \notin Advertised
  BY CallOfIs DEF Advertised
<1>5. Harmless(Answer("none")) /\ Answer("none").tasks = tasks
  BY AnswerIs DEF BindingsInv, Answer
<1>. HIDE DEF c, lib, python
<1>6. Reports(o) /\ o.lib \in {lib, Answer("none")}
  BY <1>2, ByReports DEF BindingsInv
<1>. HIDE DEF o
<1>7. Harmless(o.lib)
  BY <1>1, <1>5, <1>6
<1>8. Keeps
  BY Zenon, <1>3, <1>4, <1>6, <1>7, HarmlessCall
<1>9. call' = c /\ tasks' = o.lib.tasks
  BY <1>3 DEF Ends
<1>10. Hits
  BY <1>1, <1>4, <1>5, <1>6, <1>9 DEF Hits
<1>. QED
  BY <1>8, <1>10

LEMMA SetupKeeps ==
  ASSUME BindingsInv, NEW pid, NEW options, CallSetup(pid, options)
  PROVE  Keeps
<1>. DEFINE c == CallOf("setup", pid, 0, options)
            o == By(pinkpy_trace_setup(pid, options), pink_trace_setup(pid, options))
<1>1. /\ Reports(o) /\ Sets(o.lib, pid, Translated(options))
      /\ {"SETUP"} \cup Wanted(options) \subseteq have
           => o.lib.r \notin {"ENOSYS", "EINVAL"}
  BY Zenon, SetupSets DEF BindingsInv
<1>2. Ends(c, o) /\ Ask(pid, options, o)
  BY DEF CallSetup
<1>3. c.needs = {"SETUP"} \cup Wanted(options)
  BY CallOfIs DEF Needs
<1>. HIDE DEF c, o
<1>. QED
  BY <1>1, <1>2, <1>3, SettingCall

LEMMA SeizeKeeps ==
  ASSUME BindingsInv, NEW pid, NEW options \in OptionSets, CallSeize(pid, options)
  PROVE  Keeps
<1>. DEFINE c == CallOf("seize", pid, 0, {})
            o == By(pinkpy_trace_seize(pid, options), pink_trace_seize(pid, options))
<1>1. /\ Reports(o) /\ Sets(o.lib, pid, options)
      /\ "SEIZE" \in have => o.lib.r \notin {"ENOSYS", "EINVAL"}
  BY Zenon, SeizeSets DEF BindingsInv
<1>2. Ends(c, o) /\ Ask(pid, options, o)
  BY DEF CallSeize
<1>3. "SEIZE" \in c.needs
  BY CallOfIs DEF Needs
<1>. HIDE DEF c, o
<1>4. ASSUME OptionsArePink, o.lib.r = "0"
      PROVE  options = Translated(options)
  <2>1. pid \in Tids /\ o.lib.tasks[pid].options = options /\ Sound(o.lib.tasks)
    BY <1>1, <1>4 DEF Sets
  <2>2. options \in SUBSET PTRACE_O_MASK
    BY <2>1, TaskFields DEF Sound
  <2>. QED
    BY <1>4, <2>2, BitsAreTranslated DEF OptionsArePink
<1>. QED
  BY <1>1, <1>2, <1>3, <1>4, SettingCall

(* Registers are read into an object of the program. *)
LEMMA FillKeeps ==
  ASSUME BindingsInv, lang # "C", NEW obj, NEW pid, pinkpy_regset_fill(obj, pid)
  PROVE  Keeps
<1>. DEFINE c == CallOf("fill", pid, 0, {})
            lib == pink_ptrace("GETREGS", pid, {})
            o == PINK_CALL(lib)
<1>1. AllOrNothing(lib) /\ lib.tasks = tasks
  BY PtraceAnswers, PtraceIsQuiet DEF BindingsInv, Quiet
<1>2. Ends(c, o) /\ asked' = asked
  BY DEF pinkpy_regset_fill, PINK_CALL_TRUE
<1>3. c.f \notin Advertised
  BY CallOfIs DEF Advertised
<1>. HIDE DEF c, lib
<1>4. Reports(o) /\ o.lib = lib
  BY PINK_CALLReports DEF BindingsInv
<1>. HIDE DEF o
<1>. QED
  BY <1>1, <1>2, <1>3, <1>4, QuietCall

-----------------------------------------------------------------------------
(* The calls that leave the threads alone. *)
LEMMA OtherCallKeeps ==
  ASSUME BindingsInv, NEW f \in {"name", "lookup", "new", "dealloc"}, NEW kind,
         OtherCall(f, kind),
         Raised(ret') \/ ret'.r = "ENOSYS" =>
           objects' = objects /\ (memory' # memory => f = "new")
  PROVE  Keeps
<1>1. /\ call'.f = f
      /\ have' = have /\ tasks' = tasks /\ me' = me /\ lang' = lang /\ asked' = asked
  BY DEF OtherCall, requestVars
<1>2. AskedOK' /\ (OptionsAreThoseAsked => OptionsAreThoseAsked')
  BY <1>1, AskedSame DEF BindingsInv
<1>3. Sound(tasks)'
  BY Zenon, <1>1 DEF BindingsInv, Sound
<1>4. ErrorIsRaised' /\ AdvertisedWorks'
  BY <1>1 DEF ErrorIsRaised, AdvertisedWorks
<1>5. BindingsInv'
  BY <1>1, <1>2, <1>3, <1>4 DEF BindingsInv
<1>6. Fails
  BY <1>1 DEF Fails
<1>. QED
  BY <1>2, <1>5, <1>6 DEF Keeps

LEMMA PythonKeeps ==
  ASSUME BindingsInv, PythonCall
  PROVE  Keeps
<1>1. ASSUME NEW kind, NEW n, NEW abi, CallName(kind, n, abi)
      PROVE  Keeps
  <2>1. OtherCall("name", kind) /\ objects' = objects /\ memory' = memory
    BY <1>1 DEF CallName
  <2>. QED
    BY <2>1, OtherCallKeeps
<1>2. ASSUME NEW kind, NEW name, NEW abi, CallLookup(kind, name, abi)
      PROVE  Keeps
  <2>1. OtherCall("lookup", kind) /\ objects' = objects /\ memory' = memory
    BY <1>2 DEF CallLookup
  <2>. QED
    BY <2>1, OtherCallKeeps
<1>3. ASSUME NEW o, NEW allocs \in 0 .. 2, ProcessRegistrySet_new(o, allocs)
      PROVE  Keeps
  <2>1. OtherCall("new", "none")
    BY <1>3 DEF ProcessRegistrySet_new
  <2>2. CASE allocs = 2
    <3>1. ret' = NoRet
      BY <1>3, <2>2 DEF ProcessRegistrySet_new
    <3>2. ~Raised(ret') /\ ret'.r # "ENOSYS"
      BY <3>1 DEF Raised, NoRet, Ret
    <3>. QED
      BY <2>1, <3>2, OtherCallKeeps
  <2>3. CASE allocs # 2
    <3>1. objects' = objects
      BY <1>3, <2>3 DEF ProcessRegistrySet_new
    <3>. QED
      BY <2>1, <3>1, OtherCallKeeps
  <2>. QED
    BY <2>2, <2>3
<1>4. ASSUME NEW o, ProcessRegistrySet_dealloc(o)
      PROVE  Keeps
  <2>1. OtherCall("dealloc", "none") /\ ret' = NoRet
    BY <1>4 DEF ProcessRegistrySet_dealloc
  <2>2. ~Raised(ret') /\ ret'.r # "ENOSYS"
    BY <2>1 DEF Raised, NoRet, Ret
  <2>. QED
    BY <2>1, <2>2, OtherCallKeeps
<1>. QED
  BY <1>1, <1>2, <1>3, <1>4, FillKeeps DEF PythonCall

-----------------------------------------------------------------------------
(* The steps of the program and of the threads. *)

LEMMA GoOnKeeps ==
  ASSUME BindingsInv, GoOn
  PROVE  Keeps
<1>1. /\ have' = have /\ tasks' = tasks /\ lang' = lang /\ asked' = asked
      /\ objects' = objects /\ memory' = memory
      /\ call # NoCall /\ call' = NoCall
  BY DEF GoOn, requestVars
<1>2. AskedOK' /\ (OptionsAreThoseAsked => OptionsAreThoseAsked')
  BY <1>1, AskedSame DEF BindingsInv
<1>3. Sound(tasks)'
  BY <1>1 DEF BindingsInv, Sound
<1>4. ErrorIsRaised' /\ AdvertisedWorks'
  BY <1>1 DEF ErrorIsRaised, AdvertisedWorks, NoCall
<1>. QED
  BY <1>1, <1>2, <1>3, <1>4 DEF Keeps, BindingsInv, Fails

LEMMA OthersKeep ==
  ASSUME BindingsInv, Others
  PROVE  Keeps
<1>1. /\ call = NoCall /\ call' = call /\ have' = have /\ lang' = lang
      /\ objects' = objects /\ memory' = memory
      /\ TaskStep /\ AskedNow(asked)
  BY DEF Others, Ready
<1>2. Sound(tasks') /\ KeepsOptions(tasks')
  BY <1>1, TaskStepKeeps DEF BindingsInv
<1>3. AskedOK' /\ (OptionsAreThoseAsked => OptionsAreThoseAsked')
  BY <1>1, <1>2, AskedKept DEF BindingsInv
<1>4. ErrorIsRaised' /\ AdvertisedWorks'
  BY <1>1 DEF ErrorIsRaised, AdvertisedWorks, NoCall
<1>. QED
  BY <1>1, <1>2, <1>3, <1>4 DEF Keeps, BindingsInv, Fails

LEMMA StutterKeeps ==
  ASSUME BindingsInv, UNCHANGED vars
  PROVE  Keeps
<1>1. /\ have' = have /\ tasks' = tasks /\ me' = me /\ lang' = lang /\ call' = call
      /\ ret' = ret /\ asked' = asked /\ objects' = objects /\ memory' = memory
  BY DEF vars, requestVars, programVars
<1>2. AskedOK' /\ (OptionsAreThoseAsked => OptionsAreThoseAsked')
  BY <1>1, AskedSame DEF BindingsInv
<1>3. Sound(tasks)'
  BY <1>1 DEF BindingsInv, Sound
<1>4. ErrorIsRaised' /\ AdvertisedWorks'
  BY <1>1 DEF BindingsInv, ErrorIsRaised, AdvertisedWorks, Raised, system_init
<1>. QED
  BY <1>1, <1>2, <1>3, <1>4 DEF Keeps, BindingsInv, Fails

LEMMA TraceCallKeeps ==
  ASSUME BindingsInv, TraceCall
  PROVE  Keeps
<1>1. \A pid \in Pids : pid \in Int
  BY BindingsAssumption
<1>2. \A tgid \in Groups \cup {-1} : tgid \in Int
  BY RequestsAssumption
<1>3. ASSUME NEW tid \in Pids, NEW tgid \in Groups \cup {-1}, NEW sig \in Signums,
             CallKill(tid, tgid, sig)
      PROVE  Keeps
  BY <1>1, <1>2, <1>3, KillKeeps
<1>. QED
  BY <1>3, TraceMeKeeps, MalformedKeeps, WithSignalKeeps, WithPidKeeps, LibraryKeeps,
     SetupKeeps, SeizeKeeps DEF TraceCall

LEMMA NextKeeps ==
  ASSUME BindingsInv, [Next]_vars
  PROVE  Keeps
BY TraceCallKeeps, PythonKeeps, GoOnKeeps, OthersKeep, StutterKeeps DEF Next

(* No other call is a kill. *)
LEMMA NextHits ==
  ASSUME BindingsInv, [Next]_vars
  PROVE  Hits
<1>. SUFFICES ASSUME call = NoCall, call'.f = "kill"
              PROVE  Hits
  BY DEF Hits
<1>1. ASSUME NEW f, NEW pid, NEW tgid, NEW options, NEW o,
             Ends(CallOf(f, pid, tgid, options), o)
      PROVE  f = "kill"
  BY <1>1, CallOfIs DEF Ends
<1>2. ~CallTraceMe /\ ~CallMalformed
  BY <1>1 DEF CallTraceMe, CallMalformed
<1>3. ASSUME NEW f, NEW pid, NEW sig, CallWithSignal(f, pid, sig)
      PROVE  f \notin SignalCalls
  BY <1>1, <1>3 DEF CallWithSignal, SignalCalls
<1>4. ASSUME NEW f, NEW pid, CallWithPid(f, pid) \/ CallLibrary(f, pid)
      PROVE  f \notin PidCalls \cup LibraryCalls
  BY <1>1, <1>4 DEF CallWithPid, CallLibrary, PidCalls, LibraryCalls
<1>5. ASSUME NEW pid, NEW options
      PROVE  ~CallSetup(pid, options) /\ ~CallSeize(pid, options)
  BY <1>1 DEF CallSetup, CallSeize
<1>6. ~PythonCall
  <2>1. ASSUME NEW f, NEW kind, OtherCall(f, kind)
        PROVE  f = "kill"
    BY <2>1 DEF OtherCall
  <2>2. \A kind, n, abi : ~CallName(kind, n, abi) /\ ~CallLookup(kind, n, abi)
    BY <2>1 DEF CallName, CallLookup
  <2>3. \A o, allocs : ~ProcessRegistrySet_new(o, allocs)
    BY <2>1 DEF ProcessRegistrySet_new
  <2>4. \A o : ~ProcessRegistrySet_dealloc(o)
    BY <2>1 DEF ProcessRegistrySet_dealloc
  <2>5. \A o, pid : ~pinkpy_regset_fill(o, pid)
    BY <1>1 DEF pinkpy_regset_fill
  <2>. QED
    BY <2>2, <2>3, <2>4, <2>5 DEF PythonCall
<1>7. ~GoOn /\ ~Others /\ ~UNCHANGED vars
  <2>1. NoCall.f # "kill"
    BY DEF NoCall
  <2>2. call' # NoCall /\ call' # call
    BY Zenon, <2>1
  <2>. QED
    BY Zenon, <2>2 DEF GoOn, Others, vars, programVars
<1>8. PICK tid \in Pids, tgid \in Groups \cup {-1}, sig \in Signums :
        CallKill(tid, tgid, sig)
  BY <1>2, <1>3, <1>4, <1>5, <1>6, <1>7 DEF Next, TraceCall
<1>9. tid \in Int /\ tgid \in Int
  BY BindingsAssumption, RequestsAssumption
<1>. QED
  BY <1>8, <1>9, KillKeeps

LEMMA InitIsSound ==
  ASSUME Init
  PROVE  BindingsInv /\ OptionsAreThoseAsked
<1>1. Sound(tasks) /\ \A t \in Tids : tasks[t].trace = "no"
  <2>1. \A g \in Groups : Untraced(g) \in Task /\ Untraced(g).trace = "no"
                          /\ Untraced(g).options = {}
    BY UntracedIsTask
  <2>2. tasks \in [Tids -> {Untraced(g) : g \in Groups}]
    BY DEF Init
  <2>. QED
    BY <2>1, <2>2 DEF Sound
<1>2. AskedOK
  BY DEF Init, AskedOK
<1>3. ErrorIsRaised /\ AdvertisedWorks
  BY DEF Init, ErrorIsRaised, AdvertisedWorks, NoCall
<1>4. OptionsAreThoseAsked
  BY <1>1 DEF OptionsAreThoseAsked
<1>5. have \in Builds /\ lang \in Languages
  BY DEF Init, Languages
<1>. QED
  BY <1>1, <1>2, <1>3, <1>4, <1>5 DEF BindingsInv

LEMMA AlwaysSound == Spec => []BindingsInv
<1>1. Init => BindingsInv
  BY InitIsSound
<1>2. BindingsInv /\ [Next]_vars => BindingsInv'
  BY NextKeeps DEF Keeps
<1>. QED
  BY <1>1, <1>2, PTL DEF Spec

(* A call of trace.c or of an extension module ends with an exception iff   *)
(* the library reported an error or was not called, Python 2's True after   *)
(* -ENOSYS apart, in every build.                                           *)
THEOREM ErrorsAreRaised == Spec => []ErrorIsRaised
<1>1. BindingsInv => ErrorIsRaised
  BY DEF BindingsInv
<1>. QED
  BY <1>1, AlwaysSound, PTL

(* In every build where a header with EXITKILL has SECCOMP too, a call      *)
(* whose HAVE_ constants are 1 does not fail for want of support.           *)
THEOREM AdvertisedCallsWork == Spec => []AdvertisedWorks
<1>1. BindingsInv => AdvertisedWorks
  BY DEF BindingsInv
<1>. QED
  BY <1>1, AlwaysSound, PTL

(* A traced thread has the options that were last set for it, as long as    *)
(* the flags passed are PINK_TRACE_OPTION_*.                                *)
THEOREM OptionsAreAsAsked ==
  ASSUME OptionsArePink
  PROVE  Spec => []OptionsAreThoseAsked
<1>1. Init => OptionsAreThoseAsked
  BY InitIsSound
<1>2. BindingsInv /\ OptionsAreThoseAsked /\ [Next]_vars => OptionsAreThoseAsked'
  BY NextKeeps DEF Keeps
<1>. QED
  BY <1>1, <1>2, AlwaysSound, PTL DEF Spec

(* A call that reports an error has changed nothing, neither the threads    *)
(* nor what the program knows of them, and only ProcessRegistrySet_new may  *)
(* have lost memory.                                                        *)
THEOREM FailuresChangeNothing == Spec => FailureChangesNothing
<1>1. BindingsInv /\ [Next]_vars => [Fails]_vars
  BY NextKeeps DEF Keeps
<1>2. Spec => [][Fails]_vars
  BY <1>1, AlwaysSound, PTL DEF Spec
<1>. QED
  BY <1>2, PTL DEF FailureChangesNothing, Fails

(* pink_trace_kill with a thread group ends no thread of another group,     *)
(* where tgkill exists, whatever became of the thread id meanwhile.         *)
THEOREM KillsStayInGroup == Spec => KillStaysInGroup
<1>1. BindingsInv /\ [Next]_vars => [Hits]_vars
  BY NextHits
<1>2. Spec => [][Hits]_vars
  BY <1>1, AlwaysSound, PTL DEF Spec
<1>. QED
  BY <1>2, PTL DEF KillStaysInGroup, Hits

-----------------------------------------------------------------------------
(* The names: the lookups of name.c, for tables of every length and for   *)
(* every layout of the special calls that NamesAssumption allows.          *)

(* shuffle_scno stays among the numbers of calls. *)
LEMMA ShuffleType ==
  ASSUME NEW n \in Nat
  PROVE  shuffle_scno(n) \in Nat
BY NamesAssumption DEF shuffle_scno, SecondShuffled

(* The comment above shuffle_scno: "The shuffling should be an involution: *)
(* shuffle_scno(shuffle_scno(n)) == n."                                    *)
THEOREM ShuffleInvolution ==
  ASSUME NEW n \in Nat
  PROVE  shuffle_scno(shuffle_scno(n)) = n
<1>1. CASE n < FirstShuffled
  <2>1. shuffle_scno(n) = n
    BY <1>1, NamesAssumption DEF shuffle_scno, SecondShuffled
  <2>. QED
    BY <2>1, Zenon
<1>2. CASE n = FirstShuffled \/ n = Cmpxchg
  <2>1. shuffle_scno(FirstShuffled) = Cmpxchg
    BY NamesAssumption DEF shuffle_scno, SecondShuffled
  <2>2. shuffle_scno(Cmpxchg) = FirstShuffled
    BY NamesAssumption DEF shuffle_scno, SecondShuffled
  <2>. QED
    BY <1>2, <2>1, <2>2, Zenon
<1>3. CASE n \in SpecialBase .. SpecialBase + LastSpecial
  BY <1>3, NamesAssumption DEF shuffle_scno, SecondShuffled
<1>4. CASE n \in SecondShuffled .. SecondShuffled + LastSpecial
  BY <1>4, NamesAssumption DEF shuffle_scno, SecondShuffled
<1>5. CASE /\ ~(n < FirstShuffled) /\ n # FirstShuffled /\ n # Cmpxchg
           /\ n \notin SpecialBase .. SpecialBase + LastSpecial
           /\ n \notin SecondShuffled .. SecondShuffled + LastSpecial
  BY <1>5, NamesAssumption DEF shuffle_scno, SecondShuffled
<1>. QED
  BY <1>1, <1>2, <1>3, <1>4, <1>5

(* Both directions of the shuffling agree for every long. *)
LEMMA ShuffleTwice ==
  ASSUME NEW shuffled \in BOOLEAN, NEW n \in Int
  PROVE  Shuffle(shuffled, Shuffle(shuffled, n)) = n
<1>1. CASE shuffled /\ n >= 0
  <2>1. n \in Nat /\ shuffle_scno(n) \in Nat
    BY <1>1, ShuffleType
  <2>. QED
    BY <1>1, <2>1, ShuffleInvolution DEF Shuffle
<1>2. CASE ~(shuffled /\ n >= 0)
  BY <1>2 DEF Shuffle
<1>. QED
  BY <1>1, <1>2

(* The loop of the lookups finds the number of a name. *)
LEMMA IndexOfEntry ==
  ASSUME NEW S, NEW table \in Seq(S), Unique(table),
         NEW n \in Int, Entry(table, n) # NULL
  PROVE  IndexOf(table, Entry(table, n)) = n
<1>. DEFINE name == Entry(table, n)
           found == {m \in 0 .. Len(table) - 1 : table[m + 1] = name}
<1>1. n \in 0 .. Len(table) - 1 /\ name = table[n + 1] /\ name # NULL
  BY DEF Entry
<1>2. found = {n}
  BY <1>1 DEF Unique
<1>3. (CHOOSE m \in found : \A k \in found : m <= k) = n
  BY <1>2
<1>. QED
  BY <1>1, <1>2, <1>3 DEF IndexOf

(* pink_lookup_syscall finds every number that pink_name_syscall names, in *)
(* tables without repetitions: the special calls of ARM, folded into the   *)
(* table and back, among them.                                             *)
THEOREM LookupInvertsName ==
  ASSUME NEW S, NEW Abi, NEW sysent \in [Abi -> Seq(S)], NEW abi \in Abi,
         Unique(sysent[abi]), NEW shuffled \in BOOLEAN, NEW scno \in Int,
         pink_name_syscall(sysent, shuffled, scno, abi) # NULL
  PROVE  pink_lookup_syscall(sysent, shuffled,
           pink_name_syscall(sysent, shuffled, scno, abi), abi) = scno
<1>. DEFINE n == Shuffle(shuffled, scno)
<1>1. n \in Int
  <2>1. CASE shuffled /\ scno >= 0
    BY <2>1, ShuffleType DEF Shuffle
  <2>. QED
    BY <2>1 DEF Shuffle
<1>2. pink_name_syscall(sysent, shuffled, scno, abi) = Entry(sysent[abi], n)
  BY DEF pink_name_syscall
<1>3. IndexOf(sysent[abi], Entry(sysent[abi], n)) = n
  <2>1. sysent[abi] \in Seq(S) /\ Entry(sysent[abi], n) # NULL
    BY <1>2
  <2>. HIDE DEF n
  <2>. QED
    BY <1>1, <2>1, IndexOfEntry
<1>4. Shuffle(shuffled, n) = scno
  BY ShuffleTwice
<1>. HIDE DEF n
<1>. QED
  BY <1>2, <1>3, <1>4 DEF pink_lookup_syscall

(* No name occurs twice in a list; a value may. *)
Distinct(xlat) ==
  \A i, j \in 1 .. Len(xlat) : xlat[i].str = xlat[j].str => i = j

(* The loops of xname and xlookup stop at the first of the entries. *)
LEMMA FirstIsFound ==
  ASSUME NEW found \in SUBSET Nat, found # {}
  PROVE  First(found) \in found
<1>1. PICK i \in found : \A j \in found : ~(<<j, i>> \in OpToRel(<, Nat))
  BY Zenon, WFMin, NatLessThanWellFounded
<1>2. \A j \in found : i <= j
  <2>. TAKE j \in found
  <2>1. i \in Nat /\ j \in Nat
    OBVIOUS
  <2>2. ~(j < i)
    BY Zenon, <1>1, <2>1 DEF OpToRel
  <2>. QED
    BY <2>1, <2>2
<1>. QED
  BY Zenon, <1>2 DEF First

(* The lookup of an event, a socket family or a socket call finds the      *)
(* value that was named, in every list without two entries of one name:    *)
(* AF_UNIX and AF_LOCAL, two names of one value, included.                 *)
THEOREM XlookupInvertsXname ==
  ASSUME NEW S, NEW xlat \in Seq([str : S, val : Int]), Distinct(xlat),
         NEW val \in Int, xname(xlat, val) # NULL
  PROVE  xlookup(xlat, xname(xlat, val)) = val
<1>. DEFINE found == {i \in 1 .. Len(xlat) : xlat[i].val = val}
           name == xname(xlat, val)
           same == {i \in 1 .. Len(xlat) : xlat[i].str = name}
<1>1. found # {} /\ name = xlat[First(found)].str
  BY DEF xname
<1>2. First(found) \in found
  <2>1. found \in SUBSET Nat
    OBVIOUS
  <2>. HIDE DEF found
  <2>. QED
    BY <1>1, <2>1, FirstIsFound
<1>3. same = {First(found)}
  BY ZenonT(60), <1>1, <1>2 DEF Distinct
<1>4. First(same) = First(found)
  <2>1. First(found) \in Nat
    BY <1>2
  <2>2. First({First(found)}) = First(found)
    BY Zenon, <2>1, FirstIsFound
  <2>. QED
    BY Zenon, <1>3, <2>2
<1>. QED
  BY <1>2, <1>3, <1>4 DEF xlookup

(* No name occurs twice in a table. *)
OneNumberPerName ==
  /\ \A kind \in {"syscall", "errno", "signal"} :
       \A abi \in DOMAIN Tables[kind] : Unique(Tables[kind][abi])
  /\ \A kind \in {"event", "socket_family", "socket_subcall"} : Distinct(Tables[kind])

(* What a list of pairs names is one of its values, and what it finds has a *)
(* name.                                                                    *)
LEMMA XnameIsThere ==
  ASSUME NEW S, NEW xlat \in Seq([str : S, val : Int]), NEW val,
         xname(xlat, val) # NULL
  PROVE  \E i \in 1 .. Len(xlat) : xlat[i].val = val
BY DEF xname

LEMMA XlookupIsNamed ==
  ASSUME NEW S, NEW xlat \in Seq([str : S, val : Int]), NEW name,
         \A i \in 1 .. Len(xlat) : xlat[i].str # NULL,
         xlookup(xlat, name) # -1
  PROVE  /\ \E i \in 1 .. Len(xlat) : xlat[i].val = xlookup(xlat, name)
         /\ xname(xlat, xlookup(xlat, name)) # NULL
<1>. DEFINE found == {i \in 1 .. Len(xlat) : xlat[i].str = name}
            val == xlookup(xlat, name)
            same == {i \in 1 .. Len(xlat) : xlat[i].val = val}
<1>1. found # {} /\ val = xlat[First(found)].val
  BY DEF xlookup
<1>2. First(found) \in found
  <2>1. found \in SUBSET Nat
    OBVIOUS
  <2>. HIDE DEF found
  <2>. QED
    BY <1>1, <2>1, FirstIsFound
<1>3. First(found) \in same
  BY <1>1, <1>2
<1>4. First(same) \in same
  <2>1. same \in SUBSET Nat
    OBVIOUS
  <2>. HIDE DEF same
  <2>. QED
    BY <1>3, <2>1, FirstIsFound
<1>5. xname(xlat, val) = xlat[First(same)].str
  BY <1>3 DEF xname
<1>. QED
  BY <1>3, <1>4, <1>5

(* An unsigned int. *)
LEMMA UnsignedRange ==
  /\ \A n \in Int : n % UintSpan \in 0 .. UintSpan - 1
  /\ \A v \in 0 .. UintSpan - 1 : v % UintSpan = v
  /\ (-1) % UintSpan = UintSpan - 1
BY BindingsAssumption

LEMMA CheckNullIs ==
  ASSUME NEW str
  PROVE  /\ PINK_CHECK_NULL(str).null <=> str = NULL
         /\ str # NULL => PINK_CHECK_NULL(str).str = str
BY DEF PINK_CHECK_NULL, NoRet, Ret

LEMMA CheckLookupIs ==
  ASSUME NEW v, NEW kind
  PROVE  /\ PINK_CHECK_LOOKUP(v, kind).null <=> v = MinusOne(kind)
         /\ v # MinusOne(kind) => PINK_CHECK_LOOKUP(v, kind).num = v
BY DEF PINK_CHECK_LOOKUP, NoRet, Ret

(* In one table, shuffled or not. *)
LEMMA EntryIsNatural ==
  ASSUME NEW S, NEW table \in Seq(S), NEW n, Entry(table, n) # NULL
  PROVE  n \in Nat
BY DEF Entry

LEMMA IndexOfIsEntry ==
  ASSUME NEW S, NEW table \in Seq(S), NEW name, IndexOf(table, name) # -1
  PROVE  /\ IndexOf(table, name) \in Nat
         /\ Entry(table, IndexOf(table, name)) = name /\ name # NULL
<1>. DEFINE found == {n \in 0 .. Len(table) - 1 : table[n + 1] = name}
<1>1. found # {} /\ name # NULL /\ IndexOf(table, name) = First(found)
  BY DEF IndexOf, First
<1>2. found \in SUBSET Nat
  OBVIOUS
<1>3. First(found) \in found
  <2>. HIDE DEF found
  <2>. QED
    BY <1>1, <1>2, FirstIsFound
<1>. QED
  BY <1>1, <1>2, <1>3 DEF Entry

(* The name of a number of a table or of a list leads back to it. *)
LEMMA TableNameLeadsBack ==
  ASSUME OneNumberPerName, NEW kind \in {"syscall", "errno", "signal"},
         NEW abi \in DOMAIN Tables[kind], NEW n \in Int,
         Entry(Tables[kind][abi], n) # NULL
  PROVE  IndexOf(Tables[kind][abi], Entry(Tables[kind][abi], n)) = n
<1>1. Tables[kind][abi] \in Seq({NULL} \cup STRING) /\ Unique(Tables[kind][abi])
  BY Zenon, TablesAssumption DEF OneNumberPerName
<1>. QED
  BY <1>1, IndexOfEntry

LEMMA ListNameLeadsBack ==
  ASSUME OneNumberPerName, NEW kind \in {"event", "socket_family", "socket_subcall"},
         NEW n \in Int, xname(Tables[kind], n) # NULL
  PROVE  /\ xlookup(Tables[kind], xname(Tables[kind], n)) = n
         /\ n \in Nat /\ (kind \in Unsigned => n < UintSpan - 1)
<1>1. Tables[kind] \in Seq([str : STRING, val : Int]) /\ Distinct(Tables[kind])
  BY Zenon, TablesAssumption DEF OneNumberPerName
<1>2. xlookup(Tables[kind], xname(Tables[kind], n)) = n
  BY <1>1, XlookupInvertsXname
<1>3. PICK i \in 1 .. Len(Tables[kind]) : Tables[kind][i].val = n
  BY <1>1, XnameIsThere
<1>4. /\ Tables[kind][i].val >= 0
      /\ kind \in Unsigned => Tables[kind][i].val < UintSpan - 1
  BY Zenon, TablesAssumption
<1>. QED
  BY <1>2, <1>3, <1>4

LEMMA ShuffleKeepsMinusOne ==
  ASSUME NEW shuffled \in BOOLEAN, NEW n \in Nat \cup {-1}
  PROVE  Shuffle(shuffled, n) \in Int /\ (Shuffle(shuffled, n) = -1 <=> n = -1)
<1>1. CASE n = -1
  BY <1>1 DEF Shuffle
<1>2. CASE n \in Nat
  <2>1. shuffle_scno(n) \in Nat
    BY <1>2, ShuffleType
  <2>. QED
    BY <1>2, <2>1 DEF Shuffle
<1>. QED
  BY <1>1, <1>2

(* The lookup of a name that a name_ call gave. *)
LEMMA NameLeadsBack ==
  ASSUME OneNumberPerName, NEW kind \in Kinds, NEW n \in Int, NEW abi,
         ~NameCall(kind, n, abi).null
  PROVE  LET found == LookupCall(kind, NameCall(kind, n, abi).str, abi)
         IN  /\ ~found.null
             /\ found.num = IF kind \in Unsigned THEN n % UintSpan ELSE n
<1>. DEFINE str == NameCall(kind, n, abi).str
            found == LookupCall(kind, str, abi)
            u == n % UintSpan
<1>1. u \in 0 .. UintSpan - 1 /\ u % UintSpan = u
  BY UnsignedRange
<1>2. CASE kind \in {"event", "socket_subcall"}
  <2>. DEFINE xlat == Tables[kind]
  <2>1. /\ NameCall(kind, n, abi) = PINK_CHECK_NULL(xname(xlat, u))
        /\ found = PINK_CHECK_LOOKUP(xlookup(xlat, str) % UintSpan, kind)
    BY <1>2 DEF NameCall, LookupCall, pinkpy_name_event, pinkpy_lookup_event,
       pinkpy_name_socket_subcall, pinkpy_lookup_socket_subcall, pink_name_event,
       pink_lookup_event, pink_name_socket_subcall, pink_lookup_socket_subcall
  <2>2. xname(xlat, u) # NULL /\ str = xname(xlat, u)
    BY <2>1, CheckNullIs
  <2>3. xlookup(xlat, xname(xlat, u)) = u /\ (kind \in Unsigned => u < UintSpan - 1)
    BY <1>1, <1>2, <2>2, ListNameLeadsBack
  <2>4. kind \in Unsigned /\ MinusOne(kind) = UintSpan - 1
    BY <1>2 DEF Unsigned, MinusOne
  <2>. HIDE DEF str, found, u, xlat
  <2>5. found = PINK_CHECK_LOOKUP(u, kind) /\ u # MinusOne(kind)
    BY <1>1, <2>1, <2>2, <2>3, <2>4
  <2>6. ~found.null /\ found.num = u
    BY Zenon, <2>5, CheckLookupIs
  <2>. QED
    BY <2>4, <2>6 DEF found, str, u
<1>3. CASE kind = "socket_family"
  <2>. DEFINE xlat == Tables["socket_family"]
  <2>1. /\ NameCall(kind, n, abi) = PINK_CHECK_NULL(xname(xlat, n))
        /\ found = PINK_CHECK_LOOKUP(xlookup(xlat, str), kind)
    BY <1>3 DEF NameCall, LookupCall, pinkpy_name_socket_family,
       pinkpy_lookup_socket_family, pink_name_socket_family, pink_lookup_socket_family
  <2>2. xname(xlat, n) # NULL /\ str = xname(xlat, n)
    BY <2>1, CheckNullIs
  <2>3. xlookup(xlat, xname(xlat, n)) = n /\ n \in Nat
    BY <2>2, ListNameLeadsBack
  <2>4. kind \notin Unsigned /\ MinusOne(kind) = -1
    BY <1>3 DEF Unsigned, MinusOne
  <2>. HIDE DEF str, found, xlat
  <2>5. found = PINK_CHECK_LOOKUP(n, kind) /\ n # MinusOne(kind)
    BY <2>1, <2>2, <2>3, <2>4
  <2>6. ~found.null /\ found.num = n
    BY <2>5, CheckLookupIs
  <2>. QED
    BY <2>4, <2>6 DEF found, str
<1>4. CASE kind \in {"errno", "signal"}
  <2>. DEFINE table == Tables[kind][abi]
  <2>1. /\ NameCall(kind, n, abi) =
             PINK_CHECK_NULL(IF abi \in DOMAIN Tables[kind] THEN Entry(table, n) ELSE NULL)
        /\ found = PINK_CHECK_LOOKUP(
             IF abi \in DOMAIN Tables[kind] THEN IndexOf(table, str) ELSE -1, kind)
    BY <1>4 DEF NameCall, LookupCall, pinkpy_name_errno, pinkpy_lookup_errno,
       pinkpy_name_signal, pinkpy_lookup_signal, pink_name_errno, pink_lookup_errno,
       pink_name_signal, pink_lookup_signal
  <2>2. abi \in DOMAIN Tables[kind] /\ Entry(table, n) # NULL /\ str = Entry(table, n)
    BY Zenon, <2>1, CheckNullIs
  <2>3. IndexOf(table, Entry(table, n)) = n
    BY <1>4, <2>2, TableNameLeadsBack
  <2>4. n \in Nat
    <3>1. table \in Seq({NULL} \cup STRING)
      BY Zenon, <1>4, <2>2, TablesAssumption
    <3>. HIDE DEF table
    <3>. QED
      BY Zenon, <2>2, <3>1, EntryIsNatural
  <2>5. kind \notin Unsigned /\ MinusOne(kind) = -1
    BY <1>4 DEF Unsigned, MinusOne
  <2>. HIDE DEF str, found, table
  <2>6. found = PINK_CHECK_LOOKUP(n, kind) /\ n # MinusOne(kind)
    BY <2>1, <2>2, <2>3, <2>4, <2>5
  <2>7. ~found.null /\ found.num = n
    BY <2>6, CheckLookupIs
  <2>. QED
    BY <2>5, <2>7 DEF found, str
<1>5. CASE kind = "syscall"
  <2>. DEFINE sysent == Tables["syscall"]
  <2>1. /\ NameCall(kind, n, abi) =
             PINK_CHECK_NULL(pink_name_syscall(sysent, Shuffled, n, abi))
        /\ found = PINK_CHECK_LOOKUP(pink_lookup_syscall(sysent, Shuffled, str, abi), kind)
    BY <1>5 DEF NameCall, LookupCall, pinkpy_name_syscall, pinkpy_lookup_syscall
  <2>2. str = pink_name_syscall(sysent, Shuffled, n, abi) /\ str # NULL
    BY <2>1, CheckNullIs
  <2>3. abi \in DOMAIN sysent /\ sysent \in [DOMAIN sysent -> Seq({NULL} \cup STRING)]
        /\ Unique(sysent[abi]) /\ Shuffled \in BOOLEAN
    <3>1. abi \in DOMAIN sysent
      BY <2>2 DEF pink_name_syscall
    <3>. QED
      BY Zenon, <3>1, TablesAssumption, BindingsAssumption DEF OneNumberPerName
  <2>4. pink_lookup_syscall(sysent, Shuffled, str, abi) = n
    <3>. HIDE DEF sysent, str
    <3>. QED
      BY <2>2, <2>3, LookupInvertsName
  <2>5. n # -1
    <3>1. n = -1 => Shuffle(Shuffled, n) = -1
      BY DEF Shuffle
    <3>2. Entry(sysent[abi], Shuffle(Shuffled, n)) # NULL
      BY ZenonT(30), <2>2, <2>3 DEF pink_name_syscall
    <3>3. sysent[abi] \in Seq({NULL} \cup STRING)
      BY Zenon, <2>3
    <3>4. -1 \notin Nat
      OBVIOUS
    <3>. HIDE DEF sysent
    <3>. QED
      BY Zenon, <3>1, <3>2, <3>3, <3>4, EntryIsNatural
  <2>6. kind \notin Unsigned /\ MinusOne(kind) = -1
    BY <1>5 DEF Unsigned, MinusOne
  <2>. HIDE DEF str, found, sysent
  <2>7. found = PINK_CHECK_LOOKUP(n, kind) /\ n # MinusOne(kind)
    BY <2>1, <2>4, <2>5, <2>6
  <2>8. ~found.null /\ found.num = n
    BY <2>7, CheckLookupIs
  <2>. QED
    BY <2>6, <2>8 DEF found, str
<1>. QED
  BY Zenon, <1>2, <1>3, <1>4, <1>5 DEF Kinds

(* A number that a lookup gives has a name. *)
LEMMA FoundIsNamed ==
  ASSUME NEW kind \in Kinds, NEW name, NEW abi, ~LookupCall(kind, name, abi).null
  PROVE  ~NameCall(kind, LookupCall(kind, name, abi).num, abi).null
<1>. DEFINE num == LookupCall(kind, name, abi).num
<1>1. CASE kind \in {"event", "socket_subcall"}
  <2>. DEFINE xlat == Tables[kind]
              v == xlookup(xlat, name)
  <2>1. /\ LookupCall(kind, name, abi) = PINK_CHECK_LOOKUP(v % UintSpan, kind)
        /\ NameCall(kind, num, abi) = PINK_CHECK_NULL(xname(xlat, num % UintSpan))
    BY <1>1 DEF NameCall, LookupCall, pinkpy_name_event, pinkpy_lookup_event,
       pinkpy_name_socket_subcall, pinkpy_lookup_socket_subcall, pink_name_event,
       pink_lookup_event, pink_name_socket_subcall, pink_lookup_socket_subcall
  <2>2. kind \in Unsigned /\ MinusOne(kind) = UintSpan - 1
    BY <1>1 DEF Unsigned, MinusOne
  <2>3. v % UintSpan # UintSpan - 1 /\ num = v % UintSpan
    BY <2>1, <2>2, CheckLookupIs
  <2>4. v # -1
    BY <2>3, UnsignedRange
  <2>5. /\ xlat \in Seq([str : STRING, val : Int])
        /\ \A i \in 1 .. Len(xlat) : /\ xlat[i].str # NULL
                                     /\ xlat[i].val \in 0 .. UintSpan - 1
    <3>1. xlat \in Seq([str : STRING, val : Int])
      BY <1>1, TablesAssumption
    <3>2. ASSUME NEW i \in 1 .. Len(xlat)
          PROVE  xlat[i].str # NULL /\ xlat[i].val \in 0 .. UintSpan - 1
      <4>1. xlat[i] \in [str : STRING, val : Int]
        <5>. DEFINE pairs == [str : STRING, val : Int]
        <5>1. xlat \in Seq(pairs)
          BY <3>1
        <5>. HIDE DEF pairs, xlat
        <5>2. xlat[i] \in pairs
          BY <5>1
        <5>. QED
          BY <5>2 DEF pairs
      <4>2. xlat[i].val \in Int
        BY <4>1
      <4>3. /\ xlat[i].str # NULL /\ xlat[i].val >= 0
            /\ xlat[i].val < UintSpan - 1
        BY Zenon, <1>1, <2>2, TablesAssumption
      <4>. DEFINE m == xlat[i].val
      <4>4. m \in Int /\ m >= 0 /\ m < UintSpan - 1 => m \in 0 .. UintSpan - 1
        <5>. HIDE DEF m
        <5>. QED
          BY BindingsAssumption
      <4>. QED
        BY Zenon, <4>2, <4>3, <4>4
    <3>. QED
      BY <3>1, <3>2
  <2>. HIDE DEF num, xlat
  <2>6. v \in 0 .. UintSpan - 1 /\ xname(xlat, v) # NULL
    BY ZenonT(60), <2>4, <2>5, XlookupIsNamed
  <2>. HIDE DEF v
  <2>7. num % UintSpan = v
    BY <2>3, <2>6, UnsignedRange
  <2>. QED
    BY <2>1, <2>6, <2>7, CheckNullIs DEF num
<1>2. CASE kind = "socket_family"
  <2>. DEFINE xlat == Tables["socket_family"]
              v == xlookup(xlat, name)
  <2>1. /\ LookupCall(kind, name, abi) = PINK_CHECK_LOOKUP(v, kind)
        /\ NameCall(kind, num, abi) = PINK_CHECK_NULL(xname(xlat, num))
    BY <1>2 DEF NameCall, LookupCall, pinkpy_name_socket_family,
       pinkpy_lookup_socket_family, pink_name_socket_family, pink_lookup_socket_family
  <2>2. MinusOne(kind) = -1
    BY <1>2 DEF Unsigned, MinusOne
  <2>3. v # -1 /\ num = v
    BY <2>1, <2>2, CheckLookupIs
  <2>4. /\ xlat \in Seq([str : STRING, val : Int])
        /\ \A i \in 1 .. Len(xlat) : xlat[i].str # NULL
    BY Zenon, TablesAssumption
  <2>. HIDE DEF num, xlat
  <2>5. xname(xlat, v) # NULL
    BY <2>3, <2>4, XlookupIsNamed
  <2>. QED
    BY <2>1, <2>3, <2>5, CheckNullIs DEF num
<1>3. CASE kind \in {"errno", "signal"}
  <2>. DEFINE table == Tables[kind][abi]
              v == IF abi \in DOMAIN Tables[kind] THEN IndexOf(table, name) ELSE -1
  <2>1. /\ LookupCall(kind, name, abi) = PINK_CHECK_LOOKUP(v, kind)
        /\ NameCall(kind, num, abi) =
             PINK_CHECK_NULL(IF abi \in DOMAIN Tables[kind] THEN Entry(table, num) ELSE NULL)
    BY <1>3 DEF NameCall, LookupCall, pinkpy_name_errno, pinkpy_lookup_errno,
       pinkpy_name_signal, pinkpy_lookup_signal, pink_name_errno, pink_lookup_errno,
       pink_name_signal, pink_lookup_signal
  <2>2. MinusOne(kind) = -1
    BY <1>3 DEF Unsigned, MinusOne
  <2>3. v # -1 /\ num = v
    <3>. HIDE DEF v
    <3>. QED
      BY <2>1, <2>2, CheckLookupIs
  <2>4. abi \in DOMAIN Tables[kind] /\ v = IndexOf(table, name)
    BY <2>3
  <2>5. table \in Seq({NULL} \cup STRING)
    BY Zenon, <1>3, <2>4, TablesAssumption
  <2>. HIDE DEF num, table, v
  <2>6. Entry(table, v) # NULL
    BY <2>3, <2>4, <2>5, IndexOfIsEntry
  <2>. QED
    BY Zenon, <2>1, <2>3, <2>4, <2>6, CheckNullIs DEF num
<1>4. CASE kind = "syscall"
  <2>. DEFINE sysent == Tables["syscall"]
              v == pink_lookup_syscall(sysent, Shuffled, name, abi)
              n == IndexOf(sysent[abi], name)
  <2>1. /\ LookupCall(kind, name, abi) = PINK_CHECK_LOOKUP(v, kind)
        /\ NameCall(kind, num, abi) =
             PINK_CHECK_NULL(pink_name_syscall(sysent, Shuffled, num, abi))
    BY <1>4 DEF NameCall, LookupCall, pinkpy_name_syscall, pinkpy_lookup_syscall
  <2>2. MinusOne(kind) = -1 /\ Shuffled \in BOOLEAN
    BY <1>4, BindingsAssumption DEF Unsigned, MinusOne
  <2>3. v # -1 /\ num = v
    <3>. HIDE DEF v
    <3>. QED
      BY <2>1, <2>2, CheckLookupIs
  <2>4. abi \in DOMAIN sysent /\ v = Shuffle(Shuffled, n)
    BY <2>3 DEF pink_lookup_syscall
  <2>5. n # -1
    BY <2>3, <2>4 DEF Shuffle
  <2>6. sysent[abi] \in Seq({NULL} \cup STRING)
    BY Zenon, <2>4, TablesAssumption
  <2>. HIDE DEF num, sysent, v
  <2>7. n \in Nat /\ Entry(sysent[abi], n) = name /\ name # NULL
    BY <2>5, <2>6, IndexOfIsEntry
  <2>. HIDE DEF n
  <2>8. Shuffle(Shuffled, v) = n
    BY <2>2, <2>4, <2>7, ShuffleTwice
  <2>9. pink_name_syscall(sysent, Shuffled, num, abi) = name
    BY <2>3, <2>4, <2>7, <2>8 DEF pink_name_syscall
  <2>. QED
    BY <2>1, <2>7, <2>9, CheckNullIs DEF num
<1>. QED
  BY <1>1, <1>2, <1>3, <1>4 DEF Kinds

(* The name that is kept is that of its number. *)
NamesInv ==
  /\ named # NoName =>
       /\ named.kind \in Kinds /\ named.num \in Int
       /\ LET given == NameCall(named.kind, named.num, named.abi)
          IN  ~given.null /\ given.str = named.str
  /\ NamesAgree

LEMMA NameCallKeepsNames ==
  ASSUME NEW kind \in Kinds, NEW n \in Int, NEW abi, CallName(kind, n, abi)
  PROVE  NamesInv'
<1>1. /\ call'.f = "name" /\ ret' = NameCall(kind, n, abi)
      /\ named' = IF ret'.null THEN NoName
                  ELSE [kind |-> kind, abi |-> abi, num |-> n, str |-> ret'.str]
  BY Zenon DEF CallName, OtherCall
<1>2. NamesAgree'
  BY Zenon, <1>1 DEF NamesAgree
<1>3. CASE named' = NoName
  BY <1>2, <1>3 DEF NamesInv
<1>4. CASE named' # NoName
  <2>1. /\ ~ret'.null
        /\ named' = [kind |-> kind, abi |-> abi, num |-> n, str |-> ret'.str]
    BY <1>1, <1>4
  <2>2. /\ named'.kind = kind /\ named'.abi = abi /\ named'.num = n
        /\ named'.str = NameCall(kind, n, abi).str
    BY <1>1, <2>1
  <2>. QED
    BY <1>1, <1>2, <2>1, <2>2 DEF NamesInv
<1>. QED
  BY <1>3, <1>4

LEMMA LookupKeepsNames ==
  ASSUME OneNumberPerName, NamesInv, NEW kind \in Kinds, NEW name, NEW abi \in Abis,
         CallLookup(kind, name, abi)
  PROVE  NamesInv'
<1>. DEFINE found == LookupCall(kind, name, abi)
<1>1. /\ call'.f = "lookup" /\ call'.needs = {kind}
      /\ named' = named /\ ret' = [found EXCEPT !.str = name]
      /\ named = NoName \/ <<kind, abi, name>> = <<named.kind, named.abi, named.str>>
  BY DEF CallLookup, OtherCall
<1>2. ret'.null = found.null /\ ret'.num = found.num
  <2>1. \E v : found = PINK_CHECK_LOOKUP(v, kind)
    BY DEF LookupCall, pinkpy_lookup_event, pinkpy_lookup_syscall,
       pinkpy_lookup_socket_family, pinkpy_lookup_socket_subcall, pinkpy_lookup_errno,
       pinkpy_lookup_signal, Kinds
  <2>2. PICK v : found = PINK_CHECK_LOOKUP(v, kind)
    BY <2>1
  <2>. HIDE DEF found
  <2>. QED
    BY <1>1, <2>2 DEF PINK_CHECK_LOOKUP, Ret, NoRet
<1>3. ASSUME named # NoName
      PROVE  /\ ~found.null
             /\ found.num = IF named.kind \in Unsigned THEN named.num % UintSpan ELSE named.num
  <2>1. kind = named.kind /\ abi = named.abi /\ name = named.str
    BY <1>1, <1>3
  <2>2. /\ named.num \in Int /\ ~NameCall(kind, named.num, abi).null
        /\ name = NameCall(kind, named.num, abi).str
    BY Zenon, <1>3, <2>1 DEF NamesInv
  <2>3. LET given == LookupCall(kind, NameCall(kind, named.num, abi).str, abi)
        IN  /\ ~given.null
            /\ given.num = IF kind \in Unsigned THEN named.num % UintSpan ELSE named.num
    <3>. DEFINE m == named.num
    <3>1. m \in Int /\ ~NameCall(kind, m, abi).null
      BY Zenon, <2>2
    <3>. HIDE DEF m
    <3>2. LET given == LookupCall(kind, NameCall(kind, m, abi).str, abi)
          IN  ~given.null /\ given.num = IF kind \in Unsigned THEN m % UintSpan ELSE m
      BY <3>1, NameLeadsBack
    <3>. QED
      BY Zenon, <3>2 DEF m
  <2>. QED
    BY Zenon, <2>1, <2>2, <2>3
<1>4. found.null \/ ~NameCall(kind, found.num, abi).null
  BY FoundIsNamed
<1>. HIDE DEF found
<1>5. NamesAgree'
  BY <1>1, <1>2, <1>3, <1>4 DEF NamesAgree
<1>. QED
  BY <1>1, <1>5 DEF NamesInv

(* No other step keeps a name, or looks one up. *)
LEMMA OthersKeepNames ==
  ASSUME NamesInv, named' \in {named, NoName}, call'.f # "lookup"
  PROVE  NamesInv'
BY Zenon DEF NamesInv, NamesAgree

LEMMA NextKeepsNames ==
  ASSUME OneNumberPerName, NamesInv, [Next]_vars
  PROVE  NamesInv'
<1>1. ASSUME NEW f, NEW pid, NEW tgid, NEW options, NEW o, f # "lookup",
             Ends(CallOf(f, pid, tgid, options), o)
      PROVE  NamesInv'
  <2>1. call' = CallOf(f, pid, tgid, options) /\ named' = named
    BY Zenon, <1>1 DEF Ends
  <2>2. call'.f = f
    BY <2>1 DEF CallOf
  <2>. QED
    BY Zenon, <1>1, <2>1, <2>2, OthersKeepNames
<1>2. CASE TraceCall
  <2>1. CallTraceMe \/ CallMalformed => NamesInv'
    BY Zenon, <1>1 DEF CallTraceMe, CallMalformed
  <2>2. ASSUME NEW f \in SignalCalls, NEW pid, NEW sig, CallWithSignal(f, pid, sig)
        PROVE  NamesInv'
    BY <1>1, <2>2 DEF CallWithSignal, SignalCalls
  <2>3. ASSUME NEW f \in PidCalls, NEW pid, CallWithPid(f, pid)
        PROVE  NamesInv'
    BY <1>1, <2>3 DEF CallWithPid, PidCalls
  <2>4. ASSUME NEW f \in LibraryCalls, NEW pid, CallLibrary(f, pid)
        PROVE  NamesInv'
    BY <1>1, <2>4 DEF CallLibrary, LibraryCalls
  <2>5. ASSUME NEW tid, NEW tgid, NEW sig, CallKill(tid, tgid, sig)
        PROVE  NamesInv'
    BY <1>1, <2>5 DEF CallKill
  <2>6. ASSUME NEW pid, NEW options, CallSetup(pid, options) \/ CallSeize(pid, options)
        PROVE  NamesInv'
    BY <1>1, <2>6 DEF CallSetup, CallSeize
  <2>. QED
    BY <1>2, <2>1, <2>2, <2>3, <2>4, <2>5, <2>6 DEF TraceCall
<1>3. CASE PythonCall
  <2>1. ASSUME NEW kind \in Kinds, NEW abi \in Abis, NEW n \in Numbers[kind],
               CallName(kind, n, abi)
        PROVE  NamesInv'
    <3>1. n \in Int
      BY Zenon, TablesAssumption
    <3>. QED
      BY Zenon, <2>1, <3>1, NameCallKeepsNames
  <2>2. ASSUME NEW f, NEW kind, f # "lookup", OtherCall(f, kind), named' = named
        PROVE  NamesInv'
    <3>1. call'.f # "lookup"
      BY <2>2 DEF OtherCall
    <3>. QED
      BY <2>2, <3>1, OthersKeepNames
  <2>3. ASSUME NEW o, NEW allocs, ProcessRegistrySet_new(o, allocs)
        PROVE  NamesInv'
    BY <2>2, <2>3 DEF ProcessRegistrySet_new
  <2>4. ASSUME NEW o, ProcessRegistrySet_dealloc(o)
        PROVE  NamesInv'
    BY <2>2, <2>4 DEF ProcessRegistrySet_dealloc
  <2>5. ASSUME NEW o, NEW pid, pinkpy_regset_fill(o, pid)
        PROVE  NamesInv'
    BY <1>1, <2>5 DEF pinkpy_regset_fill
  <2>. QED
    BY Zenon, <1>3, <2>1, <2>3, <2>4, <2>5, LookupKeepsNames DEF PythonCall
<1>4. CASE GoOn
  <2>1. named' \in {named, NoName} /\ call'.f # "lookup"
    BY <1>4 DEF GoOn, NoCall
  <2>. QED
    BY <2>1, OthersKeepNames
<1>5. CASE Others
  <2>1. named' = named /\ call'.f # "lookup"
    BY <1>5 DEF Others, Ready, NoCall
  <2>. QED
    BY <2>1, OthersKeepNames
<1>6. CASE UNCHANGED vars
  BY Zenon, <1>6 DEF vars, programVars, NamesInv, NamesAgree
<1>. QED
  BY <1>2, <1>3, <1>4, <1>5, <1>6 DEF Next

(* The lookup of a name gives the number it is the name of, and a number    *)
(* that a lookup gives has a name, in tables of any length without a name   *)
(* that occurs twice, shuffled or not, and for unsigned ints of any width.  *)
THEOREM NamesAlwaysAgree ==
  ASSUME OneNumberPerName
  PROVE  Spec => []NamesAgree
<1>1. Init => NamesInv
  <2>1. NoCall.f # "lookup"
    BY DEF NoCall
  <2>. QED
    BY Zenon, <2>1 DEF Init, NamesInv, NamesAgree
<1>2. NamesInv /\ [Next]_vars => NamesInv'
  BY NextKeepsNames
<1>3. NamesInv => NamesAgree
  BY DEF NamesInv
<1>. QED
  BY <1>1, <1>2, <1>3, PTL DEF Spec
=============================================================================
