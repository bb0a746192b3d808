----------------------------- MODULE ExecService -----------------------------
(***************************************************************************)
(* The workload container: workload/exec_service/server.py, /work and the  *)
(* commands that run in it, with control_plane/sandbox.py as its client.   *)
(*                                                                         *)
(* The handlers run in one event loop.  exec awaits its command, so any    *)
(* number of commands run at once; write, read and copy_out never await,   *)
(* so each keeps the loop from its first file operation to its answer.     *)
(* Commands do not care: they change /work between any two operations of   *)
(* a handler.  The container may be restarted (mem_limit, an operator).    *)
(* A handler never learns that its client went away (a crash, an HTTP      *)
(* timeout): "reply" is what it answers, whether anyone listens or not.    *)
(*                                                                         *)
(* Left out: symbolic links, the size of files and output (_truncate), and *)
(* all that a command does but for one file.                               *)
(***************************************************************************)
EXTENDS Naturals, FiniteSets

CONSTANTS
  Calls,      \* the calls the tools of sandbox.py make, each made once
  Files,      \* paths that resolve to a file name under WORKDIR
  Ops,        \* the endpoints in use
  MaxPids,    \* processes that pids_limit leaves for commands
  MaxFaults   \* bound: restarts, lost connections and failed writes

ASSUME ExecServiceAssumption ==
  /\ Ops \subseteq {"exec", "write", "read", "copy_out"}
  /\ MaxPids \in Nat /\ MaxFaults \in Nat

VARIABLES
  \* the container
  work,  \* [Files -> the content of the file, or None]
  shell, \* [Calls -> the /bin/sh of the call]
  child, \* [Calls -> the process it left in the background]
  zombies, \* dead processes whose parent is process 1, the service
  \* the calls
  pc,    \* [Calls -> where the call is]
  call,  \* [Calls -> what it asks]
  reply, \* [Calls -> what it was answered, or None]
  faults

processes == <<shell, child, zombies>>
vars == <<work, processes, pc, call, reply, faults>>

-----------------------------------------------------------------------------
None == [none |-> TRUE]

\* A path that leaves WORKDIR, and WORKDIR itself, which is no file.
Outside == "outside"
Workdir == "workdir"
Paths == Files \cup {Outside, Workdir}

\* The content of a file is the call that wrote it, and whether to the end.
Content == [by : Calls, whole : BOOLEAN]

\* Whether EXEC_TOKEN of the client is the one of the service is up to the client.
Request == [op : Ops, path : Paths, token : BOOLEAN]

\* Status 0 is a lost connection: httpx raises.
Lost == 0
Reply == [status  : {Lost, 200, 400, 401, 404, 408, 500},
          content : Content \cup {None}]

\* A call waits for its command, and for what is left of it after the kill: for its
\* pipes to be closed ("reap"), or for pipes that are not read any more ("clogged").
Places == {"unused", "posted", "loop", "wait", "reap", "clogged", "over"}

ShellUp == {"start", "half", "full"}
ChildUp == {"piped", "detached"}

Init ==
  /\ work = [f \in Files |-> None]
  /\ shell = [c \in Calls |-> "none"]
  /\ child = [c \in Calls |-> "none"]
  /\ zombies = 0
  /\ pc = [c \in Calls |-> "unused"]
  /\ call = [c \in Calls |-> None]
  /\ reply = [c \in Calls |-> None]
  /\ faults = 0

Fault == faults < MaxFaults /\ faults' = faults + 1

Go(c, place) == pc' = [pc EXCEPT ![c] = place]

AnswerWith(c, status, content) ==
  /\ Go(c, "over")
  /\ reply' = [reply EXCEPT ![c] = [status |-> status, content |-> content]]

Answer(c, status) == AnswerWith(c, status, None)

Put(f, c, whole) == work' = [work EXCEPT ![f] = [by |-> c, whole |-> whole]]

-----------------------------------------------------------------------------
(* The client                                                              *)

\* A tool posts its request.  The path of a command is the file it works on.
Post(c, op, path) ==
  /\ pc[c] = "unused"
  /\ op = "exec" => path \in Files
  /\ Go(c, "posted")
  /\ \E token \in BOOLEAN :
       call' = [call EXCEPT ![c] = [op |-> op, path |-> path, token |-> token]]
  /\ UNCHANGED <<work, processes, reply, faults>>

\* The service cannot be reached.
Unreachable(c) ==
  /\ pc[c] = "posted"
  /\ Fault
  /\ Answer(c, Lost)
  /\ UNCHANGED <<work, processes, call>>

-----------------------------------------------------------------------------
(* The handlers                                                            *)

\* Mutant: plain def handlers, which FastAPI runs in a pool of threads.
LoopFreeAlways == TRUE

LoopFree == \A c \in Calls : pc[c] # "loop"

\* The event loop takes up a request, which _auth has let pass.
Enters(c, op) ==
  /\ pc[c] = "posted"
  /\ LoopFree
  /\ call[c].op = op
  /\ call[c].token

Unauthorized(c) ==
  /\ pc[c] = "posted"
  /\ LoopFree
  /\ ~call[c].token
  /\ Answer(c, 401)
  /\ UNCHANGED <<work, processes, call, faults>>

\* _resolve refuses the path.
Escapes(c) ==
  /\ \E op \in Ops \ {"exec"} : Enters(c, op)
  /\ call[c].path = Outside
  /\ Answer(c, 400)
  /\ UNCHANGED <<work, processes, call, faults>>

\* WORKDIR is a directory: write_bytes raises.
WriteNoFile(c) ==
  /\ Enters(c, "write")
  /\ call[c].path = Workdir
  /\ Answer(c, 500)
  /\ UNCHANGED <<work, processes, call, faults>>

\* write_bytes opens the file, which truncates it.
WriteOpens(c) ==
  /\ Enters(c, "write")
  /\ call[c].path \in Files
  /\ Put(call[c].path, c, FALSE)
  /\ Go(c, "loop")
  /\ UNCHANGED <<processes, call, reply, faults>>

\* A command may have removed or replaced the file: what is written then is nobody's.
WriteCloses(c) ==
  /\ pc[c] = "loop"
  /\ call[c].op = "write"
  /\ LET file == work[call[c].path]
     IN  \/ file # None /\ Put(call[c].path, c, TRUE)
         \/ file # [by |-> c, whole |-> FALSE] /\ UNCHANGED work
  /\ Answer(c, 200)
  /\ UNCHANGED <<processes, call, faults>>

\* Mutant: the OSError is logged, and the answer is that of a write that succeeded.
WriteFailsSilently(c) ==
  /\ pc[c] = "loop"
  /\ call[c].op = "write"
  /\ Fault
  /\ Answer(c, 200)
  /\ UNCHANGED <<work, processes, call>>

\* The tmpfs is full: OSError, and the file stays as far as it got.
WriteFails(c) ==
  /\ pc[c] = "loop"
  /\ call[c].op = "write"
  /\ Fault
  /\ Answer(c, 500)
  /\ UNCHANGED <<work, processes, call>>

\* Mutant: is_file() is not asked, read_bytes will tell.
NoSuchFileEver(c) == call[c].path \notin Files

NoSuchFile(c) == call[c].path \in Files => work[call[c].path] = None

Reads(c) == Enters(c, "read") \/ Enters(c, "copy_out")

NotFound(c) ==
  /\ Reads(c)
  /\ call[c].path # Outside
  /\ NoSuchFile(c)
  /\ Answer(c, 404)
  /\ UNCHANGED <<work, processes, call, faults>>

\* is_file is true.
Found(c) ==
  /\ Reads(c)
  /\ call[c].path # Outside
  /\ ~NoSuchFile(c)
  /\ Go(c, "loop")
  /\ UNCHANGED <<work, processes, call, reply, faults>>

\* Mutant: copy_out takes the file out of /work.
ReadBytesMoves(c) ==
  /\ pc[c] = "loop"
  /\ call[c].op # "write"
  /\ LET content == work[call[c].path]
     IN  AnswerWith(c, IF content = None THEN 500 ELSE 200, content)
  /\ work' = [work EXCEPT ![call[c].path] = None]
  /\ UNCHANGED <<processes, call, faults>>

\* read_bytes: what is there now, or FileNotFoundError.
ReadBytes(c) ==
  /\ pc[c] = "loop"
  /\ call[c].op # "write"
  /\ LET content == work[call[c].path]
     IN  AnswerWith(c, IF content = None THEN 500 ELSE 200, content)
  /\ UNCHANGED <<work, processes, call, faults>>

\* The processes that count against pids_limit.  The service is process 1 and waits
\* for its own children only, so that orphans stay zombies.
Pids == Cardinality({c \in Calls : shell[c] \in ShellUp})
        + Cardinality({c \in Calls : child[c] \in ChildUp})
        + zombies

Spawn(c) ==
  /\ Enters(c, "exec")
  /\ Pids < MaxPids
  /\ shell' = [shell EXCEPT ![c] = "start"]
  /\ Go(c, "wait")
  /\ UNCHANGED <<work, child, zombies, call, reply, faults>>

\* fork fails: create_subprocess_exec raises.
NoSpawn(c) ==
  /\ Enters(c, "exec")
  /\ Pids >= MaxPids
  /\ Answer(c, 500)
  /\ UNCHANGED <<work, processes, call, faults>>

\* communicate() returns once the shell has exited and nobody holds its pipes.
Completed(c) ==
  /\ pc[c] = "wait"
  /\ LoopFree
  /\ shell[c] = "exited"
  /\ child[c] # "piped"
  /\ Answer(c, 200)
  /\ UNCHANGED <<work, processes, call, faults>>

\* Mutant: no kill when the wait is given up.
TimesOutOnly(c) ==
  /\ pc[c] = "wait"
  /\ LoopFree
  /\ Answer(c, 408)
  /\ UNCHANGED <<work, processes, call, faults>>

\* Mutant: the shell is waited for, but not killed.
TimesOutPatiently(c) ==
  /\ pc[c] = "wait"
  /\ LoopFree
  /\ Go(c, "reap")
  /\ UNCHANGED <<work, processes, call, reply, faults>>

\* Mutant: the answer is sent at once, and the wait left to a task.
TimesOutAnswersFirst(c) ==
  /\ pc[c] = "wait"
  /\ LoopFree
  /\ shell' = [shell EXCEPT ![c] = IF @ = "exited" THEN @ ELSE "killed"]
  /\ Go(c, "reap")
  /\ reply' = [reply EXCEPT ![c] = [status |-> 408, content |-> None]]
  /\ UNCHANGED <<work, child, zombies, call, faults>>

\* The timer goes off just as the command ends: kill() finds no process any more and
\* raises ProcessLookupError.
KillRaises(c) ==
  /\ pc[c] = "wait"
  /\ LoopFree
  /\ shell[c] = "exited"
  /\ child[c] # "piped"
  /\ Answer(c, 500)
  /\ UNCHANGED <<work, processes, call, faults>>

\* wait_for gives up: the shell is killed, if it is there; its child is not.  wait()
\* returns when the pipes are closed too, and nobody reads them any more: output that
\* StreamReader has no room for is left in the pipe, and its end is never seen.
TimesOut(c) ==
  /\ pc[c] = "wait"
  /\ LoopFree
  /\ shell' = [shell EXCEPT ![c] = IF @ = "exited" THEN @ ELSE "killed"]
  /\ \E place \in {"reap", "clogged"} : Go(c, place)
  /\ UNCHANGED <<work, child, zombies, call, reply, faults>>

\* It gives up on the pipes of a shell that is known to have exited: kill() does
\* nothing and wait() returns at once.
TimesOutLate(c) ==
  /\ pc[c] = "wait"
  /\ LoopFree
  /\ shell[c] = "exited"
  /\ Answer(c, 408)
  /\ UNCHANGED <<work, processes, call, faults>>

\* The shell is dead and its pipes are closed: wait() returns.
Killed(c) ==
  /\ pc[c] = "reap"
  /\ LoopFree
  /\ shell[c] \notin ShellUp
  /\ child[c] # "piped"
  /\ Answer(c, 408)
  /\ UNCHANGED <<work, processes, call, faults>>

-----------------------------------------------------------------------------
(* What a command does, at any time                                        *)

\* It rewrites its file, in two steps, or removes it, or does neither.
ShellTruncates(c) ==
  /\ shell[c] = "start"
  /\ Put(call[c].path, c, FALSE)
  /\ shell' = [shell EXCEPT ![c] = "half"]
  /\ UNCHANGED <<child, zombies, pc, call, reply, faults>>

ShellFills(c) ==
  /\ shell[c] = "half"
  /\ Put(call[c].path, c, TRUE)
  /\ shell' = [shell EXCEPT ![c] = "full"]
  /\ UNCHANGED <<child, zombies, pc, call, reply, faults>>

ShellRemoves(c) ==
  /\ shell[c] = "start"
  /\ work' = [work EXCEPT ![call[c].path] = None]
  /\ shell' = [shell EXCEPT ![c] = "full"]
  /\ UNCHANGED <<child, zombies, pc, call, reply, faults>>

\* It leaves a process in the background, with its output or without.
ShellForks(c) ==
  /\ shell[c] \in ShellUp
  /\ child[c] = "none"
  /\ Pids < MaxPids
  /\ \E holds \in ChildUp : child' = [child EXCEPT ![c] = holds]
  /\ UNCHANGED <<work, shell, zombies, pc, call, reply, faults>>

ShellExits(c) ==
  /\ shell[c] \in ShellUp
  /\ shell' = [shell EXCEPT ![c] = "exited"]
  /\ UNCHANGED <<work, child, zombies, pc, call, reply, faults>>

ChildWrites(c) ==
  /\ child[c] \in ChildUp
  /\ Put(call[c].path, c, TRUE)
  /\ UNCHANGED <<processes, pc, call, reply, faults>>

\* The end of a background process: its shell waits for it, or nobody does.
Reaped(c) == zombies' = IF shell[c] \in ShellUp THEN zombies ELSE zombies + 1

ChildExits(c) ==
  /\ child[c] \in ChildUp
  /\ child' = [child EXCEPT ![c] = "none"]
  /\ Reaped(c)
  /\ UNCHANGED <<work, shell, pc, call, reply, faults>>

\* It starts another one, which goes on in its place.
ChildForks(c) ==
  /\ child[c] \in ChildUp
  /\ Pids < MaxPids
  /\ Reaped(c)
  /\ UNCHANGED <<work, shell, child, pc, call, reply, faults>>

-----------------------------------------------------------------------------
\* The container is restarted: /work is a tmpfs, the processes are gone, and every
\* connection is lost.
Restart ==
  /\ Fault
  /\ work' = [f \in Files |-> None]
  /\ shell' = [c \in Calls |-> IF shell[c] \in ShellUp THEN "killed" ELSE shell[c]]
  /\ child' = [c \in Calls |-> "none"]
  /\ zombies' = 0
  /\ pc' = [c \in Calls |-> IF pc[c] = "unused" THEN "unused" ELSE "over"]
  /\ reply' = [c \in Calls |->
                 IF pc[c] \in {"unused", "over"} THEN reply[c]
                 ELSE [status |-> Lost, content |-> None]]
  /\ UNCHANGED call

Handler(c) ==
  \/ Unauthorized(c) \/ Escapes(c)
  \/ WriteNoFile(c) \/ WriteOpens(c) \/ WriteCloses(c) \/ WriteFails(c)
  \/ NotFound(c) \/ Found(c) \/ ReadBytes(c)
  \/ Spawn(c) \/ NoSpawn(c) \/ Completed(c)
  \/ KillRaises(c) \/ TimesOut(c) \/ TimesOutLate(c) \/ Killed(c)

Command(c) ==
  \/ ShellTruncates(c) \/ ShellFills(c) \/ ShellRemoves(c) \/ ShellForks(c)
  \/ ShellExits(c) \/ ChildWrites(c) \/ ChildExits(c)
  \/ ChildForks(c)

Next ==
  \/ \E c \in Calls : Handler(c) \/ Command(c) \/ Unreachable(c)
  \/ \E c \in Calls, op \in Ops, path \in Paths : Post(c, op, path)
  \/ Restart

Spec == Init /\ [][Next]_vars

\* The event loop runs what is ready, and a timer goes off.  A command need not end,
\* and what it does is up to it.
FairSpec == Spec /\ \A c \in Calls : WF_vars(Handler(c))
-----------------------------------------------------------------------------
(* Properties                                                              *)

\* Every variable keeps its type, and a call has a request, a shell and an answer
\* exactly when it has come that far in server.py.
TypeOK ==
  /\ work \in [Files -> Content \cup {None}]
  /\ shell \in [Calls -> {"none", "exited", "killed"} \cup ShellUp]
  /\ child \in [Calls -> {"none"} \cup ChildUp]
  /\ zombies \in Nat
  /\ pc \in [Calls -> Places]
  /\ call \in [Calls -> Request \cup {None}]
  /\ reply \in [Calls -> Reply \cup {None}]
  /\ faults \in 0..MaxFaults
  /\ \A c \in Calls : /\ (call[c] = None) = (pc[c] = "unused")
                     /\ (reply[c] # None) = (pc[c] = "over")

Answered(c) == reply[c] # None
IsExec(c) == call[c] # None /\ call[c].op = "exec"
IsWrite(c) == call[c] # None /\ call[c].op = "write"
IsRead(c) == call[c] # None /\ call[c].op \in {"read", "copy_out"}

\* read_file and copy_out never return the half of a file that write_file is still
\* writing (server.py has no await in these handlers); of a write that failed
\* they may, and of a command.
WritesAreReadWhole ==
  \A c \in Calls :
    Answered(c) /\ reply[c].content # None =>
      LET content == reply[c].content
      IN  \/ content.whole
          \/ IsExec(content.by)
          \/ Answered(content.by) /\ reply[content.by].status = 500

\* An answered command has no shell left, and one that run_shell saw complete
\* (200) has ended by itself and nobody holds its output any more.
ShellEndsWithItsAnswer ==
  \A c \in Calls :
    Answered(c) /\ IsExec(c) =>
      /\ shell[c] \notin ShellUp
      /\ reply[c].status = 200 => shell[c] = "exited" /\ child[c] # "piped"

\* read_bytes raises, although is_file was true, only when a command removed the
\* file in between.
ReadErrorsAreRaces ==
  \A c \in Calls :
    Answered(c) /\ IsRead(c) /\ reply[c].status = 500 =>
      \E d \in Calls : IsExec(d) /\ call[d].path = call[c].path /\ shell[d] # "none"

\* Every call that was posted is over in the end, unless its command timed out and
\* the wait after the kill is never over: a process that the shell left goes on with
\* its output open, or the output was more than anyone reads.  The tool is then
\* freed by its own timeout (sandbox.py:36), the handler never.
CallsReturn ==
  \A c \in Calls :
    \/ <>[](pc[c] = "clogged" \/ (pc[c] = "reap" /\ child[c] = "piped"))
    \/ pc[c] = "posted" ~> pc[c] = "over"

\* Every shell ends, also when the control plane that asked for it has crashed and
\* nobody waits for the answer.
ShellsEnd == \A c \in Calls : shell[c] \in ShellUp ~> shell[c] \notin ShellUp

\* A command has been started that works on the file.
WorkedOn(f) == \E d \in Calls : IsExec(d) /\ call[d].path = f /\ shell[d] # "none"

\* A write that is answered with 200 leaves its content in the file, to the end.
AnsweredIsWritten ==
  \A c \in Calls :
    IsWrite(c) /\ ~Answered(c) /\ reply'[c] # None /\ reply'[c].status = 200
    => \/ work'[call[c].path] = [by |-> c, whole |-> TRUE]
       \/ WorkedOn(call[c].path)

\* A file changes with a step of a write of that file, or when the container is
\* restarted, which empties /work (a tmpfs).
OnlyWritesChange ==
  \A f \in Files :
    work'[f] # work[f]
    => \/ \E c \in Calls : IsWrite(c) /\ call[c].path = f /\ pc'[c] # pc[c]
       \/ WorkedOn(f)
       \/ faults' # faults /\ work' = [g \in Files |-> None]

\* What write_file answers that it wrote is in the file, and nobody else changes the
\* file from then on, unless a command works on it.  agent.py:42 has "the workload
\* container's files persist", without the restart.
WrittenIsThere == [][AnsweredIsWritten /\ OnlyWritesChange]_vars
=============================================================================
