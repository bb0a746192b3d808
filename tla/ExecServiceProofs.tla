-------------------------- MODULE ExecServiceProofs --------------------------
(***************************************************************************)
(* What ExecService guarantees for any number of calls and files.          *)
(*                                                                         *)
(* Shape says how far a call has come and what that means for its request, *)
(* its answer and its shell; it is inductive by itself and carries the     *)
(* other invariants.                                                       *)
(***************************************************************************)
EXTENDS ExecService, TLAPS

Shells == {"none", "exited", "killed"} \cup ShellUp

\* The types of the variables, without what relates them.
Types ==
  /\ work \in [Files -> Content \cup {None}]
  /\ shell \in [Calls -> Shells]
  /\ child \in [Calls -> {"none"} \cup ChildUp]
  /\ zombies \in Nat
  /\ pc \in [Calls -> Places]
  /\ call \in [Calls -> Request \cup {None}]
  /\ reply \in [Calls -> Reply \cup {None}]
  /\ faults \in 0..MaxFaults

\* How far a call has come.
CallShape(c) ==
  /\ (call[c] = None) = (pc[c] = "unused")
  /\ (reply[c] # None) = (pc[c] = "over")
  /\ pc[c] = "loop" => call[c].op # "exec" /\ call[c].path \in Files
  /\ pc[c] \in {"wait", "reap", "clogged"} => call[c].op = "exec"
  /\ pc[c] # "unused" /\ call[c].op = "exec" => call[c].path \in Files
  /\ shell[c] # "none" => pc[c] \in {"wait", "reap", "clogged", "over"} /\ call[c].op = "exec"
  /\ shell[c] \in ShellUp => pc[c] = "wait"
  /\ child[c] # "none" => shell[c] # "none"

Shape == \A c \in Calls : CallShape(c)

\* A request, an answer and a content are not None.
LEMMA Somethings ==
  /\ \A x \in Request : x # None
  /\ \A x \in Reply : x # None
  /\ \A x \in Content : x # None
BY DEF Request, Reply, Content, None

\* The answer that a handler gives.
LEMMA AnswerType ==
  ASSUME Types, NEW c \in Calls, NEW status \in {Lost, 200, 400, 401, 404, 408, 500},
         NEW content \in Content \cup {None}, AnswerWith(c, status, content)
  PROVE  /\ pc' \in [Calls -> Places] /\ reply' \in [Calls -> Reply \cup {None}]
         /\ pc'[c] = "over" /\ reply'[c] # None
         /\ reply'[c].status = status /\ reply'[c].content = content
         /\ \A d \in Calls : d # c => pc'[d] = pc[d] /\ reply'[d] = reply[d]
<1> DEFINE r == [status |-> status, content |-> content]
<1>1. r \in Reply /\ r.status = status /\ r.content = content
  BY DEF Reply
<1>2. r # None
  BY <1>1, Somethings
<1> HIDE DEF r
<1>3. reply' = [reply EXCEPT ![c] = r] /\ pc' = [pc EXCEPT ![c] = "over"]
  BY DEF AnswerWith, Go, r
<1>4. pc \in [Calls -> Places] /\ reply \in [Calls -> Reply \cup {None}]
  BY DEF Types
<1> QED
  BY <1>1, <1>2, <1>3, <1>4 DEF Places

\* The same without a content.
LEMMA BareAnswer ==
  ASSUME Types, NEW c \in Calls, NEW status \in {Lost, 200, 400, 401, 404, 408, 500},
         Answer(c, status)
  PROVE  /\ pc' \in [Calls -> Places] /\ reply' \in [Calls -> Reply \cup {None}]
         /\ pc'[c] = "over" /\ reply'[c] # None
         /\ reply'[c].status = status /\ reply'[c].content = None
         /\ \A d \in Calls : d # c => pc'[d] = pc[d] /\ reply'[d] = reply[d]
BY AnswerType DEF Answer

\* What a write or a command puts into a file.
LEMMA PutType ==
  ASSUME Types, NEW c \in Calls, NEW f \in Files, NEW whole \in BOOLEAN, Put(f, c, whole)
  PROVE  /\ work' \in [Files -> Content \cup {None}]
         /\ work'[f] # None /\ work'[f].by = c /\ work'[f].whole = whole
         /\ \A g \in Files : g # f => work'[g] = work[g]
<1> DEFINE k == [by |-> c, whole |-> whole]
<1>1. k \in Content /\ k.by = c /\ k.whole = whole
  BY DEF Content
<1>2. k # None
  BY <1>1, Somethings
<1> HIDE DEF k
<1>3. work' = [work EXCEPT ![f] = k] /\ work \in [Files -> Content \cup {None}]
  BY DEF Put, Types, k
<1> QED
  BY <1>1, <1>2, <1>3

-----------------------------------------------------------------------------
(* Types and Shape are kept by every action.                               *)

\* Every action of a handler that only answers.
Answers(c) ==
  /\ pc[c] # "over"
  /\ \E status \in {Lost, 200, 400, 401, 404, 408, 500} : Answer(c, status)
  /\ shell[c] \notin ShellUp
  /\ pc[c] # "unused"
  /\ faults' \in 0..MaxFaults
  /\ UNCHANGED <<work, processes, call>>

LEMMA AnswersKeep ==
  ASSUME Types, Shape, NEW c \in Calls, Answers(c)
  PROVE  Types' /\ Shape'
<1>1. PICK status \in {Lost, 200, 400, 401, 404, 408, 500} : Answer(c, status)
  BY DEF Answers
<1>2. /\ pc' \in [Calls -> Places] /\ reply' \in [Calls -> Reply \cup {None}]
      /\ pc'[c] = "over" /\ reply'[c] # None
      /\ \A d \in Calls : d # c => pc'[d] = pc[d] /\ reply'[d] = reply[d]
  BY <1>1, BareAnswer
<1>3. /\ work' = work /\ shell' = shell /\ child' = child /\ zombies' = zombies
      /\ call' = call /\ faults' \in 0..MaxFaults
  BY DEF Answers, processes
<1>4. Types'
  BY <1>2, <1>3 DEF Types
<1>5. Shape'
  <2> SUFFICES ASSUME NEW d \in Calls PROVE CallShape(d)'
    BY DEF Shape
  <2>1. CASE d = c
    BY <2>1, <1>2, <1>3 DEF Shape, CallShape, Answers
  <2>2. CASE d # c
    BY <2>2, <1>2, <1>3 DEF Shape, CallShape
  <2> QED
    BY <2>1, <2>2
<1> QED
  BY <1>4, <1>5

LEMMA PlainAnswers ==
  ASSUME Types, Shape, NEW c \in Calls,
         \/ Unauthorized(c) \/ Escapes(c) \/ WriteNoFile(c) \/ WriteFails(c)
         \/ NotFound(c) \/ NoSpawn(c) \/ KillRaises(c) \/ Completed(c) \/ Unreachable(c)
         \/ TimesOutLate(c) \/ Killed(c)
  PROVE  Answers(c)
<1>1. faults \in 0..MaxFaults /\ (faults < MaxFaults => faults + 1 \in 0..MaxFaults)
  BY ExecServiceAssumption DEF Types
<1>2. pc[c] # "over" /\ pc[c] # "unused" /\ shell[c] \notin ShellUp
  BY DEF Unauthorized, Escapes, WriteNoFile, WriteFails, NotFound, NoSpawn, KillRaises,
      TimesOutLate, Killed,
         Completed, Unreachable, Enters, Reads, Shape, CallShape, ShellUp
<1> QED
  BY <1>1, <1>2
  DEF Answers, Unauthorized, Escapes, WriteNoFile, WriteFails, NotFound, NoSpawn,
      KillRaises,
      TimesOutLate, Killed, Completed, Unreachable, Fault

LEMMA PostKeeps ==
  ASSUME Types, Shape, NEW c \in Calls, NEW op \in Ops, NEW path \in Paths,
         Post(c, op, path)
  PROVE  Types' /\ Shape'
<1>0. PICK token \in BOOLEAN :
        call' = [call EXCEPT ![c] = [op |-> op, path |-> path, token |-> token]]
  BY DEF Post
<1> DEFINE q == [op |-> op, path |-> path, token |-> token]
<1>1. q \in Request /\ q.op = op /\ q.path = path
  BY DEF Request, Types
<1>2. q # None
  BY <1>1, Somethings
<1>3. /\ call' = [call EXCEPT ![c] = q] /\ pc' = [pc EXCEPT ![c] = "posted"]
      /\ pc[c] = "unused" /\ (op = "exec" => path \in Files)
      /\ work' = work /\ shell' = shell /\ child' = child /\ zombies' = zombies
      /\ reply' = reply /\ faults' = faults
  BY <1>0 DEF Post, Go, processes
<1> HIDE DEF q
<1>4. Types'
  BY <1>1, <1>3 DEF Types, Places
<1>5. /\ pc'[c] = "posted" /\ call'[c] = q
      /\ \A d \in Calls : d # c => pc'[d] = pc[d] /\ call'[d] = call[d]
  BY <1>3 DEF Types
<1>6. Shape'
  <2> SUFFICES ASSUME NEW d \in Calls PROVE CallShape(d)'
    BY DEF Shape
  <2>1. CASE d = c
    BY <2>1, <1>1, <1>2, <1>3, <1>5 DEF Shape, CallShape, ShellUp
  <2>2. CASE d # c
    BY <2>2, <1>3, <1>5 DEF Shape, CallShape
  <2> QED
    BY <2>1, <2>2
<1> QED
  BY <1>4, <1>6

\* The operations that answer and do more than that.
LEMMA FileAnswersKeep ==
  ASSUME Types, Shape, NEW c \in Calls, WriteCloses(c) \/ ReadBytes(c)
  PROVE  Types' /\ Shape'
<1>1. /\ pc' \in [Calls -> Places] /\ reply' \in [Calls -> Reply \cup {None}]
      /\ pc'[c] = "over" /\ reply'[c] # None
      /\ \A d \in Calls : d # c => pc'[d] = pc[d] /\ reply'[d] = reply[d]
  <2>1. CASE WriteCloses(c)
    BY <2>1, BareAnswer DEF WriteCloses
  <2>2. CASE ReadBytes(c)
    <3>1. call[c].path \in Files
      BY <2>2 DEF ReadBytes, Shape, CallShape
    <3>2. work[call[c].path] \in Content \cup {None}
      BY <3>1 DEF Types
    <3> QED
      BY <2>2, <3>2, AnswerType DEF ReadBytes
  <2> QED
    BY <2>1, <2>2
<1>2. work' \in [Files -> Content \cup {None}]
  <2>1. CASE WriteCloses(c)
    <3>1. call[c].path \in Files
      BY <2>1 DEF WriteCloses, Shape, CallShape
    <3> QED
      BY <2>1, <3>1, PutType DEF WriteCloses, Types
  <2>2. CASE ReadBytes(c)
    BY <2>2 DEF ReadBytes, Types
  <2> QED
    BY <2>1, <2>2
<1>3. /\ child' = child /\ zombies' = zombies /\ call' = call
      /\ faults' = faults /\ pc[c] # "unused"
  BY DEF WriteCloses, ReadBytes, processes
<1>4. /\ shell' \in [Calls -> Shells]
      /\ shell'[c] \notin ShellUp /\ (shell'[c] # "none" => call[c].op = "exec")
      /\ child[c] # "none" => shell'[c] # "none"
      /\ \A d \in Calls : d # c => shell'[d] = shell[d]
  BY DEF WriteCloses, ReadBytes, processes, Types, Shells, ShellUp, Shape,
         CallShape
<1>5. Types'
  BY <1>1, <1>2, <1>3, <1>4 DEF Types
<1>6. Shape'
  <2> SUFFICES ASSUME NEW d \in Calls PROVE CallShape(d)'
    BY DEF Shape
  <2>1. CASE d = c
    BY <2>1, <1>1, <1>3, <1>4 DEF Shape, CallShape
  <2>2. CASE d # c
    BY <2>2, <1>1, <1>3, <1>4 DEF Shape, CallShape
  <2> QED
    BY <2>1, <2>2
<1> QED
  BY <1>5, <1>6

\* A handler that begins.
LEMMA BeginsKeep ==
  ASSUME Types, Shape, NEW c \in Calls, WriteOpens(c) \/ Found(c) \/ Spawn(c)
  PROVE  Types' /\ Shape'
<1>1. /\ pc[c] = "posted" /\ child' = child /\ zombies' = zombies
      /\ call' = call /\ reply' = reply /\ faults' = faults
  BY DEF WriteOpens, Found, Spawn, Enters, Reads, processes
<1>2. /\ pc' = [pc EXCEPT ![c] = IF Spawn(c) THEN "wait" ELSE "loop"]
      /\ shell' = IF Spawn(c) THEN [shell EXCEPT ![c] = "start"] ELSE shell
  BY DEF WriteOpens, Found, Spawn, Go, Enters, Reads, processes
<1>3. /\ Spawn(c) => call[c].op = "exec"
      /\ ~Spawn(c) => call[c].op # "exec" /\ call[c].path \in Files
  <2>1. call[c] \in Request
    BY <1>1 DEF Types, Shape, CallShape
  <2>2. Found(c) => call[c].path \in Files
    BY <2>1 DEF Found, NoSuchFile, Request, Paths
  <2> QED
    BY <2>2 DEF WriteOpens, Found, Spawn, Enters, Reads
<1>4. work' \in [Files -> Content \cup {None}]
  <2>1. CASE WriteOpens(c)
    BY <2>1, PutType DEF WriteOpens
  <2>2. CASE Found(c) \/ Spawn(c)
    BY <2>2 DEF Found, Spawn, Types
  <2> QED
    BY <2>1, <2>2
<1> DEFINE spawned == Spawn(c)
<1> HIDE DEF spawned
<1>5. Types'
  BY <1>1, <1>2, <1>4 DEF Types, Places, Shells, ShellUp
<1>6. /\ pc'[c] = IF spawned THEN "wait" ELSE "loop"
      /\ shell'[c] = IF spawned THEN "start" ELSE shell[c]
      /\ \A d \in Calls : d # c => pc'[d] = pc[d] /\ shell'[d] = shell[d]
  BY <1>2 DEF Types, spawned
<1>7. Shape'
  <2> SUFFICES ASSUME NEW d \in Calls PROVE CallShape(d)'
    BY DEF Shape
  <2>1. CASE d = c
    BY <2>1, <1>1, <1>3, <1>6 DEF Shape, CallShape, ShellUp, spawned
  <2>2. CASE d # c
    BY <2>2, <1>1, <1>6 DEF Shape, CallShape
  <2> QED
    BY <2>1, <2>2
<1> QED
  BY <1>5, <1>7

\* The wait for a command is given up.
LEMMA TimesOutKeeps ==
  ASSUME Types, Shape, NEW c \in Calls, TimesOut(c)
  PROVE  Types' /\ Shape'
<1>1. PICK place \in {"reap", "clogged"} : pc' = [pc EXCEPT ![c] = place]
  BY DEF TimesOut, Go
<1>2. /\ pc[c] = "wait" /\ work' = work /\ child' = child /\ zombies' = zombies
      /\ call' = call /\ reply' = reply /\ faults' = faults
      /\ shell' = [shell EXCEPT ![c] = IF @ = "exited" THEN @ ELSE "killed"]
  BY DEF TimesOut
<1>3. Types'
  BY <1>1, <1>2 DEF Types, Places, Shells
<1>4. /\ pc'[c] \in {"reap", "clogged"} /\ shell'[c] \in {"exited", "killed"}
      /\ \A d \in Calls : d # c => pc'[d] = pc[d] /\ shell'[d] = shell[d]
  BY <1>1, <1>2 DEF Types
<1>5. Shape'
  <2> SUFFICES ASSUME NEW d \in Calls PROVE CallShape(d)'
    BY DEF Shape
  <2>1. CASE d = c
    BY <2>1, <1>2, <1>4 DEF Shape, CallShape, ShellUp
  <2>2. CASE d # c
    BY <2>2, <1>2, <1>4 DEF Shape, CallShape
  <2> QED
    BY <2>1, <2>2
<1> QED
  BY <1>3, <1>5

\* A step of a command: the shell, its child and the file it works on.
LEMMA CommandKeeps ==
  ASSUME Types, Shape, NEW c \in Calls, Command(c)
  PROVE  Types' /\ Shape'
<1>1. pc' = pc /\ call' = call /\ reply' = reply /\ faults' = faults
  BY DEF Command, ShellTruncates, ShellFills, ShellRemoves, ShellForks, ShellExits,
         ChildWrites, ChildExits, ChildForks, processes
<1>2. shell[c] # "none" /\ call[c].path \in Files
  BY DEF Command, ShellTruncates, ShellFills, ShellRemoves, ShellForks, ShellExits,
         ChildWrites, ChildExits, ChildForks, ShellUp, ChildUp, Shape, CallShape
<1>3. work' \in [Files -> Content \cup {None}]
  <2>1. CASE work' = work
    BY <2>1 DEF Types
  <2>2. CASE work' = [work EXCEPT ![call[c].path] = None]
    BY <2>2 DEF Types
  <2>3. CASE \E whole \in BOOLEAN : Put(call[c].path, c, whole)
    BY <2>3, <1>2, PutType
  <2> QED
    BY <2>1, <2>2, <2>3 DEF Command, ShellTruncates, ShellFills, ShellRemoves, ShellForks,
       ShellExits, ChildWrites, ChildExits, ChildForks
<1>4. /\ shell' \in [Calls -> Shells]
      /\ shell'[c] # "none" /\ (shell'[c] \in ShellUp => shell[c] \in ShellUp)
      /\ \A d \in Calls : d # c => shell'[d] = shell[d]
  <2>1. CASE \E s \in Shells \ {"none"} :
               /\ shell' = [shell EXCEPT ![c] = s]
               /\ shell[c] \in ShellUp
    BY <2>1 DEF Types
  <2>2. CASE shell' = shell
    BY <2>2, <1>2 DEF Types
  <2> QED
    BY <2>1, <2>2 DEF Command, ShellTruncates, ShellFills, ShellRemoves, ShellForks,
       ShellExits, ChildWrites, ChildExits, ChildForks, Shells, ShellUp, processes
<1>5. /\ child' \in [Calls -> {"none"} \cup ChildUp]
      /\ \A d \in Calls : d # c => child'[d] = child[d]
  BY DEF Command, ShellTruncates, ShellFills, ShellRemoves, ShellForks, ShellExits,
         ChildWrites, ChildExits, ChildForks, Types, processes
<1>6. zombies' \in Nat
  <2>1. zombies' = zombies \/ Reaped(c)
    BY DEF Command, ShellTruncates, ShellFills, ShellRemoves, ShellForks, ShellExits,
           ChildWrites, ChildExits, ChildForks, processes
  <2>2. zombies \in Nat
    BY DEF Types
  <2>3. Reaped(c) => zombies' \in {zombies, zombies + 1}
    BY DEF Reaped
  <2> QED
    BY <2>1, <2>2, <2>3
<1>7. Types'
  BY <1>1, <1>3, <1>4, <1>5, <1>6 DEF Types
<1>8. Shape'
  <2> SUFFICES ASSUME NEW d \in Calls PROVE CallShape(d)'
    BY DEF Shape
  <2>1. CASE d = c
    BY <2>1, <1>1, <1>2, <1>4 DEF Shape, CallShape
  <2>2. CASE d # c
    BY <2>2, <1>1, <1>4, <1>5 DEF Shape, CallShape
  <2> QED
    BY <2>1, <2>2
<1> QED
  BY <1>7, <1>8

LEMMA RestartKeeps ==
  ASSUME Types, Shape, Restart
  PROVE  Types' /\ Shape'
<1> DEFINE lost == [status |-> Lost, content |-> None]
<1>1. lost \in Reply
  BY DEF Reply
<1>2. lost # None
  BY <1>1, Somethings
<1> HIDE DEF lost
<1>3. reply' = [c \in Calls |-> IF pc[c] \in {"unused", "over"} THEN reply[c] ELSE lost]
  BY DEF Restart, lost
<1>4. faults' \in 0..MaxFaults
  BY ExecServiceAssumption DEF Restart, Fault, Types
<1>5. reply' \in [Calls -> Reply \cup {None}]
  BY <1>1, <1>3 DEF Types
<1>6. Types'
  BY <1>4, <1>5 DEF Restart, Types, Places, Shells, ShellUp
<1>7. Shape'
  <2> SUFFICES ASSUME NEW d \in Calls PROVE CallShape(d)'
    BY DEF Shape
  <2>1. CallShape(d) /\ call' = call
    BY DEF Shape, Restart
  <2>2. reply'[d] = IF pc[d] \in {"unused", "over"} THEN reply[d] ELSE lost
    BY <1>3
  <2>3. /\ pc'[d] = IF pc[d] = "unused" THEN "unused" ELSE "over"
        /\ shell'[d] = IF shell[d] \in ShellUp THEN "killed" ELSE shell[d]
        /\ child'[d] = "none"
    BY DEF Restart
  <2>4. pc[d] \in Places /\ shell[d] \in Shells
    BY DEF Types
  <2> QED
    BY <2>1, <2>2, <2>3, <2>4, <1>2 DEF CallShape, Places, Shells, ShellUp
<1> QED
  BY <1>6, <1>7

LEMMA StepKeeps == Types /\ Shape /\ [Next]_vars => Types' /\ Shape'
<1> SUFFICES ASSUME Types, Shape, [Next]_vars PROVE Types' /\ Shape'
  OBVIOUS
<1>1. ASSUME NEW c \in Calls, Handler(c) \/ Unreachable(c)
      PROVE  Types' /\ Shape'
  <2>1. CASE WriteOpens(c) \/ Found(c) \/ Spawn(c)
    BY <2>1, BeginsKeep
  <2>2. CASE WriteCloses(c) \/ ReadBytes(c)
    BY <2>2, FileAnswersKeep
  <2>4. CASE TimesOut(c)
    BY <2>4, TimesOutKeeps
  <2>3. CASE \/ Unauthorized(c) \/ Escapes(c) \/ WriteNoFile(c) \/ WriteFails(c)
             \/ NotFound(c) \/ NoSpawn(c) \/ KillRaises(c) \/ Completed(c) \/ Unreachable(c)
         \/ TimesOutLate(c) \/ Killed(c)
    BY <2>3, PlainAnswers, AnswersKeep
  <2> QED
    BY <1>1, <2>1, <2>2, <2>3, <2>4 DEF Handler
<1>2. ASSUME NEW c \in Calls, Command(c)
      PROVE  Types' /\ Shape'
  BY <1>2, CommandKeeps
<1>3. ASSUME NEW c \in Calls, NEW op \in Ops, NEW path \in Paths, Post(c, op, path)
      PROVE  Types' /\ Shape'
  BY <1>3, PostKeeps
<1>4. CASE UNCHANGED vars
  BY <1>4 DEF vars, processes, Types, Shape, CallShape
<1> QED
  BY <1>1, <1>2, <1>3, <1>4, RestartKeeps DEF Next

LEMMA Shaped == Spec => [](Types /\ Shape)
<1>1. Init => Types /\ Shape
  BY ExecServiceAssumption
  DEF Init, Types, Shape, CallShape, Shells, ShellUp, ChildUp, Places
<1> QED
  BY <1>1, StepKeeps, PTL DEF Spec

-----------------------------------------------------------------------------
\* Every variable of the service keeps its type, whatever commands and clients do
\* and however many there are.
THEOREM TypeCorrect == Spec => []TypeOK
<1>1. Types /\ Shape => TypeOK
  BY DEF Types, Shape, CallShape, TypeOK, Shells
<1> QED
  BY <1>1, Shaped, PTL

-----------------------------------------------------------------------------
(* What a step may do to a call.                                           *)

\* A step that answers a call is the one that ends it.
AnswerStep(c) ==
  /\ reply[c] = None /\ pc[c] # "unused"
  /\ \/ Completed(c) \/ WriteCloses(c) \/ ReadBytes(c)
     \/ /\ reply'[c].content = None
        /\ reply'[c].status # 200
        /\ IsRead(c) => reply'[c].status # 500

LEMMA OneAnswers ==
  ASSUME Types, Shape, [Next]_vars, NEW c \in Calls, reply'[c] # reply[c]
  PROVE  AnswerStep(c)
<1>1. ASSUME NEW d \in Calls, NEW status \in {Lost, 400, 401, 404, 408, 500},
             Answer(d, status), pc[d] \notin {"unused", "over"}, IsRead(d) => status # 500
      PROVE  AnswerStep(c)
  <2>1. d = c
    BY <1>1, BareAnswer
  <2>2. reply'[c].status = status /\ reply'[c].content = None
    BY <1>1, <2>1, BareAnswer
  <2>3. reply[c] = None
    BY <1>1, <2>1 DEF Shape, CallShape
  <2> QED
    BY <1>1, <2>1, <2>2, <2>3 DEF AnswerStep, Lost
<1>2. ASSUME NEW d \in Calls, Completed(d) \/ WriteCloses(d) \/ ReadBytes(d)
      PROVE  AnswerStep(c)
  <2>1. \E status \in {200, 500}, content \in Content \cup {None} : AnswerWith(d, status, content)
    <3>1. CASE Completed(d) \/ WriteCloses(d)
      BY <3>1 DEF Completed, WriteCloses, Answer
    <3>2. CASE ReadBytes(d)
      <4>1. work[call[d].path] \in Content \cup {None}
        BY <3>2 DEF ReadBytes, Shape, CallShape, Types
      <4> QED
        BY <3>2, <4>1 DEF ReadBytes
    <3> QED
      BY <1>2, <3>1, <3>2
  <2>2. d = c
    BY <2>1, AnswerType
  <2>3. reply[c] = None /\ pc[c] # "unused"
    BY <1>2, <2>2 DEF Completed, WriteCloses, ReadBytes, Shape, CallShape
  <2> QED
    BY <1>2, <2>2, <2>3 DEF AnswerStep
<1>3. ASSUME NEW d \in Calls, Handler(d) \/ Unreachable(d)
      PROVE  AnswerStep(c)
  <2>1. CASE WriteOpens(d) \/ Found(d) \/ Spawn(d)
    BY <2>1 DEF WriteOpens, Found, Spawn
  <2>2. CASE Completed(d) \/ WriteCloses(d) \/ ReadBytes(d)
    BY <2>2, <1>2
  <2>3. CASE Unauthorized(d)
    BY <2>3, <1>1 DEF Unauthorized
  <2>4. CASE Escapes(d) \/ NotFound(d) \/ Unreachable(d)
    BY <2>4, <1>1 DEF Escapes, NotFound, Unreachable, Enters, Reads, Lost
  <2>5. CASE WriteNoFile(d) \/ WriteFails(d) \/ NoSpawn(d) \/ KillRaises(d)
    BY <2>5, <1>1 DEF WriteNoFile, WriteFails, NoSpawn, KillRaises, Enters, IsRead, Shape,
        CallShape
  <2>6. CASE TimesOut(d)
    BY <2>6 DEF TimesOut
  <2>7. CASE TimesOutLate(d) \/ Killed(d)
    BY <2>7, <1>1 DEF TimesOutLate, Killed
  <2> QED
    BY <1>3, <2>1, <2>2, <2>3, <2>4, <2>5, <2>6, <2>7 DEF Handler
<1>4. CASE Restart
  <2> DEFINE lost == [status |-> Lost, content |-> None]
  <2>1. lost.status = 0 /\ lost.content = None
    BY DEF Lost
  <2>2. reply' = [d \in Calls |-> IF pc[d] \in {"unused", "over"} THEN reply[d] ELSE lost]
    BY <1>4 DEF Restart
  <2> HIDE DEF lost
  <2>3. reply'[c] = lost /\ pc[c] \notin {"unused", "over"}
    BY <2>2
  <2> QED
    BY <2>1, <2>3 DEF AnswerStep, Shape, CallShape
<1>5. CASE UNCHANGED vars
  BY <1>5 DEF vars
<1>6. ASSUME NEW d \in Calls, Command(d)
      PROVE  AnswerStep(c)
  BY <1>6 DEF Command, ShellTruncates, ShellFills, ShellRemoves, ShellForks, ShellExits,
     ChildWrites, ChildExits, ChildForks
<1>7. CASE \E d \in Calls, op \in Ops, path \in Paths : Post(d, op, path)
  BY <1>7 DEF Post
<1> QED
  BY <1>3, <1>4, <1>5, <1>6, <1>7 DEF Next

\* Requests are not changed, and a shell once started is not forgotten.
LEMMA Forward ==
  ASSUME Types, Shape, [Next]_vars, NEW c \in Calls
  PROVE  /\ call[c] # None => call'[c] = call[c]
         /\ reply[c] # None => reply'[c] = reply[c]
         /\ shell[c] # "none" => shell'[c] # "none"
<1>1. reply[c] # None => reply'[c] = reply[c]
  BY OneAnswers DEF AnswerStep
<1>2. call[c] # None => call'[c] = call[c]
  <2>1. CASE call' = call
    BY <2>1
  <2>2. CASE \E d \in Calls, op \in Ops, path \in Paths : Post(d, op, path)
    BY <2>2 DEF Post, Types, Shape, CallShape
  <2>3. ASSUME NEW d \in Calls, Handler(d) \/ Unreachable(d)
        PROVE  call' = call
    BY <2>3 DEF Handler, Unauthorized, Escapes, WriteNoFile, WriteOpens, WriteCloses,
       WriteFails, NotFound, Found, ReadBytes, Spawn, NoSpawn, Completed, KillRaises, TimesOut,
       TimesOutLate, Killed, Unreachable
  <2>4. ASSUME NEW d \in Calls, Command(d)
        PROVE  call' = call
    BY <2>4 DEF Command, ShellTruncates, ShellFills, ShellRemoves, ShellForks, ShellExits,
       ChildWrites, ChildExits, ChildForks
  <2> QED
    BY <2>1, <2>2, <2>3, <2>4 DEF Next, Restart, vars
<1>3. shell[c] # "none" => shell'[c] # "none"
  <2>1. CASE shell' = shell
    BY <2>1
  <2>2. CASE \E d \in Calls, s \in Shells \ {"none"} : shell' = [shell EXCEPT ![d] = s]
    BY <2>2 DEF Types
  <2>3. CASE Restart
    BY <2>3 DEF Restart
  <2>4. ASSUME NEW d \in Calls, TimesOut(d) PROVE shell'[c] # "none" \/ shell[c] = "none"
    BY <2>4 DEF TimesOut, Types
  <2>5. ASSUME NEW d \in Calls, Handler(d) \/ Unreachable(d), ~TimesOut(d)
        PROVE  shell' = shell \/ shell' = [shell EXCEPT ![d] = "start"]
    BY <2>5 DEF Handler, Unauthorized, Escapes, WriteNoFile, WriteOpens, WriteCloses,
       WriteFails, NotFound, Found, ReadBytes, Spawn, NoSpawn, Completed, KillRaises,
       TimesOutLate, Killed, Unreachable, processes
  <2>6. ASSUME NEW d \in Calls, Command(d)
        PROVE  \/ shell' = shell
               \/ \E s \in Shells \ {"none"} : shell' = [shell EXCEPT ![d] = s]
    BY <2>6 DEF Command, ShellTruncates, ShellFills, ShellRemoves, ShellForks, ShellExits,
       ChildWrites, ChildExits, ChildForks, processes, Shells, ShellUp
  <2>7. "start" \in Shells \ {"none"}
    BY DEF Shells, ShellUp
  <2> QED
    BY <2>1, <2>2, <2>3, <2>4, <2>5, <2>6, <2>7 DEF Next, Post, vars, processes
<1> QED
  BY <1>1, <1>2, <1>3

-----------------------------------------------------------------------------
(* run_shell                                                               *)

LEMMA AnswerEndsShell ==
  ASSUME Types, Shape, Types', Shape', [Next]_vars, ShellEndsWithItsAnswer
  PROVE  ShellEndsWithItsAnswer'
<1> SUFFICES ASSUME NEW c \in Calls, Answered(c)', IsExec(c)'
             PROVE  /\ shell'[c] \notin ShellUp
                    /\ reply'[c].status = 200 => shell'[c] = "exited" /\ child'[c] # "piped"
  BY DEF ShellEndsWithItsAnswer
<1>1. shell'[c] \notin ShellUp
  BY DEF Answered, Shape, CallShape
<1>2. pc[c] # "unused" => IsExec(c)
  BY Forward DEF IsExec, Shape, CallShape
<1>3. CASE reply'[c] = reply[c]
  <2>1. Answered(c) /\ IsExec(c) /\ shell[c] \notin ShellUp /\ pc[c] = "over"
    BY <1>2, <1>3 DEF Answered, Shape, CallShape
  <2>2. reply[c].status = 200 => shell[c] = "exited" /\ child[c] # "piped"
    BY <2>1 DEF ShellEndsWithItsAnswer
  <2>3. shell'[c] = shell[c] /\ (child[c] # "piped" => child'[c] # "piped")
    <3>1. ASSUME NEW d \in Calls, Command(d)
          PROVE  shell'[c] = shell[c] /\ (child[c] # "piped" => child'[c] # "piped")
      <4>1. CASE d = c
        BY <2>1, <3>1, <4>1
        DEF Command, ShellTruncates, ShellFills, ShellRemoves, ShellForks, ShellExits,
            ChildWrites, ChildExits, ChildForks, processes, Types, ShellUp
      <4>2. CASE d # c
        BY <3>1, <4>2
        DEF Command, ShellTruncates, ShellFills, ShellRemoves, ShellForks, ShellExits,
            ChildWrites, ChildExits, ChildForks, processes, Types
      <4> QED
        BY <4>1, <4>2
    <3>2. ASSUME NEW d \in Calls, Spawn(d) \/ TimesOut(d)
          PROVE  shell'[c] = shell[c] /\ child' = child
      <4>1. d # c
        BY <2>1, <3>2 DEF Spawn, TimesOut, Enters
      <4> QED
        BY <3>2, <4>1 DEF Spawn, TimesOut, Types
    <3>3. CASE shell' = shell /\ child' = child
      BY <3>3
    <3>4. CASE Restart
      BY <2>1, <3>4 DEF Restart
    <3> QED
      BY <3>1, <3>2, <3>3, <3>4
      DEF Next, Handler, Unauthorized, Escapes, WriteNoFile, WriteOpens, WriteCloses,
          WriteFails, NotFound, Found, ReadBytes, NoSpawn, KillRaises,
      TimesOutLate, Killed, Completed,
          Unreachable,
          vars, processes, Post
  <2> QED
    BY <1>1, <1>3, <2>2, <2>3
<1>4. CASE reply'[c] # reply[c]
  <2>1. AnswerStep(c)
    BY <1>4, OneAnswers
  <2>2. IsExec(c)
    BY <1>2, <2>1 DEF AnswerStep
  <2>3. CASE Completed(c)
    BY <1>1, <2>3 DEF Completed, processes
  <2>4. CASE WriteCloses(c) \/ ReadBytes(c)
    BY <2>2, <2>4 DEF WriteCloses, ReadBytes, IsExec, Shape, CallShape
  <2> QED
    BY <1>1, <2>1, <2>3, <2>4 DEF AnswerStep
<1> QED
  BY <1>3, <1>4

\* A command that run_shell reports as complete is over, and a killed one too.
THEOREM AnsweredShellsAreOver == Spec => []ShellEndsWithItsAnswer
<1>1. Init => ShellEndsWithItsAnswer
  BY DEF Init, ShellEndsWithItsAnswer, Answered
<1>2. Types /\ Shape /\ ShellEndsWithItsAnswer /\ [Next]_vars => ShellEndsWithItsAnswer'
  BY StepKeeps, AnswerEndsShell
<1> QED
  BY <1>1, <1>2, Shaped, PTL DEF Spec

-----------------------------------------------------------------------------
(* read_file and copy_out                                                  *)

\* A command has been at the file that the call reads.
Raced(c) == \E d \in Calls : IsExec(d) /\ call[d].path = call[c].path /\ shell[d] # "none"

\* A file that is gone between is_file and read_bytes was removed by a command.
GoneByCommand ==
  \A c \in Calls : pc[c] = "loop" /\ IsRead(c) /\ work[call[c].path] = None => Raced(c)

LEMMA RacedStays ==
  ASSUME Types, Shape, [Next]_vars, NEW c \in Calls, call[c] # None, Raced(c)
  PROVE  Raced(c)'
<1>1. PICK d \in Calls : IsExec(d) /\ call[d].path = call[c].path /\ shell[d] # "none"
  BY DEF Raced
<1>2. call'[c] = call[c] /\ call'[d] = call[d] /\ shell'[d] # "none"
  BY <1>1, Forward DEF IsExec
<1>3. IsExec(d)' /\ call'[d].path = call'[c].path
  BY <1>1, <1>2 DEF IsExec
<1> QED
  BY <1>2, <1>3 DEF Raced

LEMMA OnlyCommandsRemove ==
  ASSUME Types, Shape, [Next]_vars, NEW f \in Files, work[f] # None, work'[f] = None
  PROVE  Restart \/ \E d \in Calls : ShellRemoves(d) /\ call[d].path = f
<1>1. ASSUME NEW d \in Calls, NEW g \in Files, NEW whole \in BOOLEAN, Put(g, d, whole)
      PROVE  FALSE
  BY <1>1, PutType
<1>2. ASSUME NEW d \in Calls, WriteOpens(d) \/ WriteCloses(d)
      PROVE  FALSE
  BY <1>1, <1>2 DEF WriteOpens, WriteCloses, Shape, CallShape
<1>3. ASSUME NEW d \in Calls, Command(d)
      PROVE  ShellRemoves(d) /\ call[d].path = f
  <2>1. shell[d] # "none" /\ call[d].path \in Files
    BY <1>3 DEF Command, ShellTruncates, ShellFills, ShellRemoves, ShellForks, ShellExits,
       ChildWrites, ChildExits, ChildForks, ShellUp, ChildUp, Shape, CallShape
  <2>2. ~ShellTruncates(d) /\ ~ShellFills(d) /\ ~ChildWrites(d)
    BY <1>1, <2>1 DEF ShellTruncates, ShellFills, ChildWrites
  <2>3. ShellRemoves(d)
    BY <1>3, <2>2 DEF Command, ShellForks, ShellExits, ChildExits, ChildForks
  <2> QED
    BY <2>3 DEF ShellRemoves, Types
<1> QED
  BY <1>2, <1>3
  DEF Next, Handler, Unauthorized, Escapes, WriteNoFile, WriteFails, NotFound, Found, ReadBytes,
      Spawn, NoSpawn, KillRaises, Completed, TimesOut,
         TimesOutLate, Killed, Unreachable, Post, vars

\* A call comes to its file operation by WriteOpens or Found only.
LEMMA LoopEntry ==
  ASSUME Types, Shape, [Next]_vars, NEW c \in Calls, pc'[c] = "loop"
  PROVE  ~Restart /\ (pc[c] = "loop" \/ WriteOpens(c) \/ Found(c))
<1>1. ~Restart
  BY DEF Restart
<1>2. ASSUME NEW d \in Calls, NEW place \in Places \ {"loop"}, Go(d, place)
      PROVE  pc[c] = "loop"
  BY <1>2 DEF Go, Types
<1>3. ASSUME NEW d \in Calls, WriteOpens(d) \/ Found(d)
      PROVE  pc[c] = "loop" \/ d = c
  BY <1>3 DEF WriteOpens, Found, Go, Types
<1>4. ASSUME NEW d \in Calls, Handler(d) \/ Unreachable(d)
      PROVE  pc[c] = "loop" \/ WriteOpens(c) \/ Found(c)
  <2>1. CASE WriteOpens(d) \/ Found(d)
    BY <1>3, <2>1
  <2>2. \/ WriteOpens(d) \/ Found(d) \/ Go(d, "wait") \/ Go(d, "over")
        \/ Go(d, "reap") \/ Go(d, "clogged")
    BY <1>4 DEF Handler, Unauthorized, Escapes, WriteNoFile, WriteCloses, WriteFails, NotFound,
       ReadBytes, Spawn, NoSpawn, KillRaises, Completed, TimesOut,
         TimesOutLate, Killed, Unreachable, Answer,
       AnswerWith
  <2> QED
    BY <1>2, <2>1, <2>2 DEF Places
<1>5. ASSUME NEW d \in Calls, NEW op \in Ops, NEW path \in Paths, Post(d, op, path)
      PROVE  pc[c] = "loop"
  BY <1>2, <1>5 DEF Post, Places
<1>6. ASSUME NEW d \in Calls, Command(d)
      PROVE  pc[c] = "loop"
  BY <1>6 DEF Command, ShellTruncates, ShellFills, ShellRemoves, ShellForks, ShellExits,
     ChildWrites, ChildExits, ChildForks
<1>7. ASSUME UNCHANGED vars
      PROVE  pc[c] = "loop"
  BY <1>7 DEF vars
<1> QED
  BY <1>1, <1>4, <1>5, <1>6, <1>7 DEF Next

LEMMA GoneStep ==
  ASSUME Types, Shape, Types', Shape', [Next]_vars, GoneByCommand
  PROVE  GoneByCommand'
<1> SUFFICES ASSUME NEW c \in Calls, pc'[c] = "loop", IsRead(c)', work'[call'[c].path] = None
             PROVE  Raced(c)'
  BY DEF GoneByCommand
<1>1. pc[c] \in {"loop", "posted"} /\ call[c] # None /\ call'[c] = call[c] /\ ~Restart
  <2>1. pc[c] \in {"loop", "posted"} /\ ~Restart
    BY LoopEntry DEF WriteOpens, Found, Enters, Reads
  <2> QED
    BY <2>1, Forward DEF Shape, CallShape
<1>2. call[c].path \in Files /\ IsRead(c)
  BY <1>1 DEF Shape, CallShape, IsRead
<1>3. CASE work[call[c].path] # None
  <2>1. PICK d \in Calls : ShellRemoves(d) /\ call[d].path = call[c].path
    BY <1>1, <1>2, <1>3, OnlyCommandsRemove
  <2>2. shell[d] # "none" /\ IsExec(d)
    BY <2>1 DEF ShellRemoves, Shape, CallShape, IsExec
  <2>3. Raced(c)
    BY <2>1, <2>2 DEF Raced
  <2> QED
    BY <1>1, <2>3, RacedStays
<1>4. CASE work[call[c].path] = None /\ pc[c] = "loop"
  BY <1>1, <1>2, <1>4, RacedStays DEF GoneByCommand
<1>5. CASE work[call[c].path] = None /\ pc[c] = "posted"
  <2>1. WriteOpens(c) \/ Found(c)
    BY <1>5, LoopEntry
  <2> QED
    BY <1>2, <1>5, <2>1 DEF WriteOpens, Found, Enters, NoSuchFile, IsRead
<1> QED
  BY <1>1, <1>3, <1>4, <1>5

LEMMA ReadErrorStep ==
  ASSUME Types, Shape, [Next]_vars, GoneByCommand, ReadErrorsAreRaces
  PROVE  ReadErrorsAreRaces'
<1> SUFFICES ASSUME NEW c \in Calls, Answered(c)', IsRead(c)', reply'[c].status = 500
             PROVE  Raced(c)'
  BY DEF ReadErrorsAreRaces, Raced
<1>1. CASE reply'[c] = reply[c]
  <2>1. Answered(c) /\ call[c] # None
    BY <1>1 DEF Answered, Shape, CallShape
  <2>2. call'[c] = call[c]
    BY <2>1, Forward
  <2>3. Raced(c)
    BY <1>1, <2>1, <2>2 DEF ReadErrorsAreRaces, Raced, IsRead
  <2> QED
    BY <2>1, <2>3, RacedStays
<1>2. CASE reply'[c] # reply[c]
  <2>1. AnswerStep(c) /\ call[c] # None /\ call'[c] = call[c]
    BY <1>2, OneAnswers, Forward DEF AnswerStep, Shape, CallShape
  <2>2. IsRead(c)
    BY <2>1 DEF IsRead
  <2>3. ReadBytes(c)
    BY <2>1, <2>2 DEF AnswerStep, Completed, WriteCloses, IsRead, Shape, CallShape
  <2>4. work[call[c].path] = None
    <3>1. CASE work[call[c].path] # None
      <4> DEFINE k == work[call[c].path]
      <4>1. k \in Content /\ AnswerWith(c, 200, k)
        BY <2>3, <3>1 DEF ReadBytes, Shape, CallShape, Types
      <4> HIDE DEF k
      <4>2. reply'[c].status = 200
        BY <4>1, AnswerType
      <4> QED
        BY <4>2
    <3> QED
      BY <3>1
  <2>5. Raced(c)
    BY <2>2, <2>3, <2>4 DEF ReadBytes, GoneByCommand
  <2> QED
    BY <2>1, <2>5, RacedStays
<1> QED
  BY <1>1, <1>2

\* A read answered with 500 raced with a command on its file.
THEOREM ReadsFailInRaces == Spec => []ReadErrorsAreRaces
<1>1. Init => GoneByCommand /\ ReadErrorsAreRaces
  BY DEF Init, GoneByCommand, ReadErrorsAreRaces, Answered
<1>2. Types /\ Shape /\ GoneByCommand /\ ReadErrorsAreRaces /\ [Next]_vars
        => GoneByCommand' /\ ReadErrorsAreRaces'
  BY StepKeeps, GoneStep, ReadErrorStep
<1> QED
  BY <1>1, <1>2, Shaped, PTL DEF Spec

-----------------------------------------------------------------------------
(* write_file                                                              *)

Failed(c) == Answered(c) /\ reply[c].status = 500

\* One file operation at a time.
OneInLoop == \A c, d \in Calls : pc[c] = "loop" /\ pc[d] = "loop" => c = d

\* Half a file is a command's, a failed write's, or that of the write in the loop.
HalfWritten ==
  \A f \in Files :
    work[f] # None /\ ~work[f].whole =>
      LET w == work[f].by
      IN  /\ call[w] # None
          /\ \/ IsExec(w)
             \/ Failed(w)
             \/ pc[w] = "loop" /\ call[w].op = "write" /\ call[w].path = f

LEMMA OneInLoopStep ==
  ASSUME Types, Shape, [Next]_vars, OneInLoop
  PROVE  OneInLoop'
<1> SUFFICES ASSUME NEW c \in Calls, NEW d \in Calls, pc'[c] = "loop", pc'[d] = "loop"
             PROVE  c = d
  BY DEF OneInLoop
<1>1. ASSUME NEW a \in Calls, NEW b \in Calls, WriteOpens(a) \/ Found(a), pc'[b] = "loop"
      PROVE  a = b
  <2>1. pc[b] # "loop" /\ pc' = [pc EXCEPT ![a] = "loop"]
    BY <1>1 DEF WriteOpens, Found, Enters, Reads, LoopFree, Go
  <2> QED
    BY <1>1, <2>1 DEF Types
<1> QED
  BY <1>1, LoopEntry DEF OneInLoop

\* What is left of a half-written file when its write leaves the loop.
LEMMA WriteLeaves ==
  ASSUME Types, Shape, [Next]_vars, NEW w \in Calls, ~Restart,
         pc[w] = "loop", call[w].op = "write", pc'[w] # "loop"
  PROVE  WriteCloses(w) \/ WriteFails(w)
<1>1. ASSUME NEW d \in Calls, NEW place \in Places, d # w, Go(d, place)
      PROVE  FALSE
  BY <1>1 DEF Go, Types
<1>2. ASSUME NEW d \in Calls, Handler(d) \/ Unreachable(d)
      PROVE  WriteCloses(w) \/ WriteFails(w)
  <2>1. \E place \in Places : Go(d, place)
    BY <1>2 DEF Handler, Unauthorized, Escapes, WriteNoFile, WriteOpens, WriteCloses,
        WriteFails,
       NotFound, Found, ReadBytes, Spawn, NoSpawn, KillRaises, Completed, TimesOut,
         TimesOutLate, Killed,
       Unreachable, Answer,
       AnswerWith, Places
  <2>2. d = w
    BY <1>1, <2>1
  <2> QED
    BY <1>2, <2>2 DEF Handler, Unauthorized, Escapes, WriteNoFile, WriteOpens, NotFound, Found,
       ReadBytes, Spawn, NoSpawn, KillRaises, Completed, TimesOut,
         TimesOutLate, Killed, Unreachable, Enters, Reads
<1>3. ASSUME NEW d \in Calls, NEW op \in Ops, NEW path \in Paths, Post(d, op, path)
      PROVE  FALSE
  <2>1. d # w /\ Go(d, "posted")
    BY <1>3 DEF Post
  <2> QED
    BY <2>1, <1>1 DEF Places
<1>4. ASSUME NEW d \in Calls, Command(d)
      PROVE  FALSE
  BY <1>4 DEF Command, ShellTruncates, ShellFills, ShellRemoves, ShellForks, ShellExits,
     ChildWrites, ChildExits, ChildForks
<1>5. ~UNCHANGED vars
  BY DEF vars
<1> QED
  BY <1>2, <1>3, <1>4, <1>5 DEF Next

LEMMA HalfPut ==
  ASSUME Types, Shape, [Next]_vars, NEW f \in Files,
         work'[f] # work[f], work'[f] # None, ~work'[f].whole
  PROVE  \E d \in Calls : work'[f].by = d /\ call[d].path = f
                         /\ (WriteOpens(d) \/ ShellTruncates(d))
<1>1. ASSUME NEW d \in Calls, NEW g \in Files, NEW whole \in BOOLEAN, Put(g, d, whole)
      PROVE  g = f /\ work'[f].by = d /\ whole = FALSE
  BY <1>1, PutType
<1>2. ASSUME NEW d \in Calls, WriteOpens(d)
      PROVE  work'[f].by = d /\ call[d].path = f
  BY <1>1, <1>2 DEF WriteOpens
<1>3. ASSUME NEW d \in Calls, WriteCloses(d)
      PROVE  FALSE
  BY <1>1, <1>3 DEF WriteCloses, Shape, CallShape
<1>4. ASSUME NEW d \in Calls, Command(d)
      PROVE  ShellTruncates(d) /\ work'[f].by = d /\ call[d].path = f
  <2>1. shell[d] # "none" /\ call[d].path \in Files
    BY <1>4 DEF Command, ShellTruncates, ShellFills, ShellRemoves, ShellForks, ShellExits,
       ChildWrites, ChildExits, ChildForks, ShellUp, ChildUp, Shape, CallShape
  <2>2. ~ShellFills(d) /\ ~ChildWrites(d)
    BY <1>1, <2>1 DEF ShellFills, ChildWrites
  <2>3. ~ShellRemoves(d)
    BY DEF ShellRemoves, Types
  <2>4. ShellTruncates(d)
    BY <1>4, <2>2, <2>3 DEF Command, ShellForks, ShellExits, ChildExits, ChildForks
  <2> QED
    BY <1>1, <2>1, <2>4 DEF ShellTruncates
<1>5. ~Restart
  BY DEF Restart
<1> QED
  BY <1>2, <1>3, <1>4, <1>5
  DEF Next, Handler, Unauthorized, Escapes, WriteNoFile, WriteFails, NotFound, Found, ReadBytes,
      Spawn, NoSpawn, KillRaises, Completed, TimesOut,
         TimesOutLate, Killed, Unreachable, Post, vars

LEMMA HalfWrittenStep ==
  ASSUME Types, Shape, Types', Shape', [Next]_vars, HalfWritten
  PROVE  HalfWritten'
<1> SUFFICES ASSUME NEW f \in Files, work'[f] # None, ~work'[f].whole
             PROVE  \A w \in Calls : work'[f].by = w =>
                      /\ call'[w] # None
                      /\ \/ IsExec(w)'
                         \/ Failed(w)'
                         \/ pc'[w] = "loop" /\ call'[w].op = "write" /\ call'[w].path = f
  BY DEF HalfWritten, Types, Content
<1> TAKE w \in Calls
<1> HAVE work'[f].by = w
<1>1. CASE work'[f] = work[f]
  <2>1. /\ call[w] # None
        /\ \/ IsExec(w)
           \/ Failed(w)
           \/ pc[w] = "loop" /\ call[w].op = "write" /\ call[w].path = f
    BY <1>1 DEF HalfWritten
  <2>2. call'[w] = call[w] /\ (reply[w] # None => reply'[w] = reply[w])
    BY <2>1, Forward
  <2>3. CASE IsExec(w) \/ Failed(w)
    BY <2>1, <2>2, <2>3 DEF IsExec, Failed, Answered
  <2>4. CASE pc[w] = "loop" /\ call[w].op = "write" /\ call[w].path = f /\ pc'[w] # "loop"
    <3>1. WriteCloses(w) \/ WriteFails(w)
      <4>1. ~Restart
        BY DEF Restart
      <4> QED
        BY <4>1, <2>4, WriteLeaves
    <3>2. CASE WriteCloses(w)
      <4>1. work[f] = [by |-> w, whole |-> FALSE]
        BY <1>1 DEF Types, Content
      <4>2. Put(f, w, TRUE)
        BY <2>4, <3>2, <4>1 DEF WriteCloses
      <4> QED
        BY <4>2, PutType
    <3>3. CASE WriteFails(w)
      <4>1. reply'[w] # None /\ reply'[w].status = 500
        BY <3>3, BareAnswer DEF WriteFails
      <4> QED
        BY <2>1, <2>2, <4>1 DEF Failed, Answered
    <3> QED
      BY <3>1, <3>2, <3>3
  <2> QED
    BY <2>1, <2>2, <2>3, <2>4
<1>2. CASE work'[f] # work[f]
  <2>1. call[w].path = f /\ (WriteOpens(w) \/ ShellTruncates(w))
    BY <1>2, HalfPut
  <2>2. call[w] # None /\ call'[w] = call[w]
    BY <2>1 DEF WriteOpens, ShellTruncates, Enters, Shape, CallShape
  <2>3. CASE WriteOpens(w)
    BY <2>1, <2>2, <2>3 DEF WriteOpens, Enters, Go, Types
  <2>4. CASE ShellTruncates(w)
    BY <2>2, <2>4 DEF ShellTruncates, IsExec, Shape, CallShape
  <2> QED
    BY <2>1, <2>3, <2>4
<1> QED
  BY <1>1, <1>2

LEMMA ReadWholeStep ==
  ASSUME Types, Shape, Types', [Next]_vars, OneInLoop, HalfWritten, WritesAreReadWhole
  PROVE  WritesAreReadWhole'
<1> DEFINE Fine(k) == k.whole \/ IsExec(k.by) \/ Failed(k.by)
<1>1. ASSUME NEW k \in Content, Fine(k)
      PROVE  k.whole \/ IsExec(k.by)' \/ Failed(k.by)'
  BY <1>1, Forward DEF Content, IsExec, Failed, Answered
<1>2. ASSUME NEW c \in Calls, Answered(c)', reply'[c].content # None
      PROVE  Fine(reply'[c].content)
  <2>1. CASE reply'[c] = reply[c]
    BY <1>2, <2>1 DEF WritesAreReadWhole, Answered, Failed
  <2>2. CASE reply'[c] # reply[c]
    <3>1. ReadBytes(c)
      <4>1. AnswerStep(c)
        BY <2>2, OneAnswers
      <4>2. ~Completed(c) /\ ~WriteCloses(c)
        <5>1. ~Answer(c, 200)
          BY <1>2, BareAnswer
        <5> QED
          BY <5>1 DEF Completed, WriteCloses
      <4> QED
        BY <1>2, <4>1, <4>2 DEF AnswerStep
    <3> DEFINE f == call[c].path
    <3>2. f \in Files /\ pc[c] = "loop" /\ call[c].op # "write"
      BY <3>1 DEF ReadBytes, Shape, CallShape
    <3>3. reply'[c].content = work[f]
      <4>1. work[f] \in Content \cup {None}
        BY <3>2 DEF Types
      <4>2. \E status \in {200, 500} : AnswerWith(c, status, work[f])
        BY <3>1 DEF ReadBytes
      <4> QED
        BY <4>1, <4>2, AnswerType
    <3>4. work[f] \in Content
      BY <1>2, <3>2, <3>3 DEF Types
    <3>5. work[f].by \in Calls
      BY <3>4 DEF Content
    <3>6. CASE ~work[f].whole
      <4>1. \/ IsExec(work[f].by) \/ Failed(work[f].by)
            \/ pc[work[f].by] = "loop" /\ call[work[f].by].op = "write"
        BY <1>2, <3>2, <3>3, <3>6 DEF HalfWritten
      <4> QED
        BY <3>2, <3>3, <3>5, <4>1 DEF OneInLoop
    <3> QED
      BY <3>3, <3>6
  <2> QED
    BY <2>1, <2>2
<1>3. ASSUME NEW c \in Calls, Answered(c)', reply'[c].content # None
      PROVE  reply'[c].content \in Content
  BY <1>3 DEF Types, Reply, Answered
<1> QED
  BY <1>1, <1>2, <1>3 DEF WritesAreReadWhole, Failed

\* Nobody is ever handed the half of a file that write_file is still writing.
THEOREM ReadersSeeWholeWrites == Spec => []WritesAreReadWhole
<1>1. Init => OneInLoop /\ HalfWritten /\ WritesAreReadWhole
  BY DEF Init, OneInLoop, HalfWritten, WritesAreReadWhole, Answered
<1>2. Types /\ Shape /\ OneInLoop /\ HalfWritten /\ WritesAreReadWhole /\ [Next]_vars
        => OneInLoop' /\ HalfWritten' /\ WritesAreReadWhole'
  BY StepKeeps, OneInLoopStep, HalfWrittenStep, ReadWholeStep
<1> QED
  BY <1>1, <1>2, Shaped, PTL DEF Spec

-----------------------------------------------------------------------------
(* What was written                                                        *)

\* The file that a write is at is its own, unless a command has been at it.
OwnWrite ==
  \A c \in Calls :
    pc[c] = "loop" /\ IsWrite(c) =>
      \/ work[call[c].path] = [by |-> c, whole |-> FALSE]
      \/ Raced(c)

\* Who changes a file.
LEMMA FileChange ==
  ASSUME Types, Shape, [Next]_vars, NEW f \in Files, work'[f] # work[f]
  PROVE  \/ \E d \in Calls : call[d].path = f /\ (WriteOpens(d) \/ WriteCloses(d))
         \/ WorkedOn(f)
         \/ Restart
<1>1. ASSUME NEW d \in Calls, NEW g \in Files, NEW whole \in BOOLEAN, Put(g, d, whole)
      PROVE  g = f
  BY <1>1, PutType
<1>2. ASSUME NEW d \in Calls, WriteOpens(d)
      PROVE  call[d].path = f
  BY <1>1, <1>2 DEF WriteOpens
<1>3. ASSUME NEW d \in Calls, WriteCloses(d)
      PROVE  call[d].path = f
  BY <1>1, <1>3 DEF WriteCloses, Shape, CallShape
<1>4. ASSUME NEW d \in Calls, Command(d)
      PROVE  WorkedOn(f)
  <2>1. shell[d] # "none" /\ IsExec(d) /\ call[d].path \in Files
    BY <1>4 DEF Command, ShellTruncates, ShellFills, ShellRemoves, ShellForks, ShellExits,
       ChildWrites, ChildExits, ChildForks, ShellUp, ChildUp, Shape, CallShape, IsExec
  <2>2. \/ \E whole \in BOOLEAN : Put(call[d].path, d, whole)
        \/ work' = [work EXCEPT ![call[d].path] = None]
    BY <1>4 DEF Command, ShellTruncates, ShellFills, ShellRemoves, ShellForks, ShellExits,
       ChildWrites, ChildExits, ChildForks
  <2>3. call[d].path = f
    BY <1>1, <2>1, <2>2 DEF Types
  <2> QED
    BY <2>1, <2>3 DEF WorkedOn
<1>5. ASSUME NEW d \in Calls, Handler(d) \/ Unreachable(d)
      PROVE  WriteOpens(d) \/ WriteCloses(d)
  BY <1>5 DEF Handler, Unauthorized, Escapes, WriteNoFile, WriteFails, NotFound, Found,
     ReadBytes, Spawn, NoSpawn, Completed, KillRaises, TimesOut, TimesOutLate, Killed,
     Unreachable
<1> QED
  BY <1>2, <1>3, <1>4, <1>5 DEF Next, Post, vars

LEMMA OwnWriteStep ==
  ASSUME Types, Shape, Types', Shape', [Next]_vars, OneInLoop, OwnWrite
  PROVE  OwnWrite'
<1> SUFFICES ASSUME NEW c \in Calls, pc'[c] = "loop", IsWrite(c)'
             PROVE  \/ work'[call'[c].path] = [by |-> c, whole |-> FALSE]
                    \/ Raced(c)'
  BY DEF OwnWrite
<1>1. ~Restart /\ (pc[c] = "loop" \/ WriteOpens(c) \/ Found(c))
  BY LoopEntry
<1>2. call[c] # None /\ call'[c] = call[c] /\ IsWrite(c)
  <2>1. call[c] # None
    BY <1>1 DEF WriteOpens, Found, Enters, Reads, Shape, CallShape
  <2> QED
    BY <2>1, Forward DEF IsWrite
<1> DEFINE f == call[c].path
<1>3. f \in Files
  BY <1>2 DEF Shape, CallShape
<1>4. CASE WriteOpens(c)
  BY <1>2, <1>3, <1>4 DEF WriteOpens, Put, Types
<1>5. CASE Found(c)
  BY <1>2, <1>5 DEF Found, Reads, Enters, IsWrite
<1>6. CASE pc[c] = "loop" /\ Raced(c)
  BY <1>2, <1>6, RacedStays
<1>7. CASE pc[c] = "loop" /\ work[f] = [by |-> c, whole |-> FALSE] /\ work'[f] # work[f]
  <2>1. ASSUME NEW d \in Calls, WriteOpens(d)
        PROVE  FALSE
    BY <1>7, <2>1 DEF WriteOpens, Enters, LoopFree
  <2>2. ASSUME NEW d \in Calls, WriteCloses(d)
        PROVE  FALSE
    <3>1. d = c
      BY <1>7, <2>2 DEF WriteCloses, OneInLoop
    <3>2. pc'[c] = "over"
      BY <2>2, <3>1, BareAnswer DEF WriteCloses
    <3> QED
      BY <3>2
  <2>3. Raced(c)
    BY <1>1, <1>3, <1>7, <2>1, <2>2, FileChange DEF WorkedOn, Raced
  <2> QED
    BY <1>2, <2>3, RacedStays
<1> QED
  BY <1>1, <1>2, <1>4, <1>5, <1>6, <1>7 DEF OwnWrite

LEMMA AnsweredWriteStep ==
  ASSUME Types, Shape, [Next]_vars, OwnWrite
  PROVE  AnsweredIsWritten
<1> SUFFICES ASSUME NEW c \in Calls, IsWrite(c), ~Answered(c), reply'[c] # None,
                    reply'[c].status = 200, ~WorkedOn(call[c].path)
             PROVE  work'[call[c].path] = [by |-> c, whole |-> TRUE]
  BY DEF AnsweredIsWritten
<1>1. AnswerStep(c)
  BY OneAnswers DEF Answered
<1>2. WriteCloses(c)
  BY <1>1 DEF AnswerStep, Completed, ReadBytes, Shape, CallShape, IsWrite
<1>3. pc[c] = "loop" /\ call[c].path \in Files
  BY <1>2 DEF WriteCloses, Shape, CallShape
<1>4. work[call[c].path] = [by |-> c, whole |-> FALSE]
  BY <1>3 DEF OwnWrite, WorkedOn, Raced
<1>5. Put(call[c].path, c, TRUE)
  BY <1>2, <1>4 DEF WriteCloses
<1> QED
  BY <1>3, <1>5 DEF Put, Types

LEMMA FilesChangeStep ==
  ASSUME Types, Shape, [Next]_vars
  PROVE  OnlyWritesChange
<1> SUFFICES ASSUME NEW f \in Files, work'[f] # work[f], ~WorkedOn(f)
             PROVE  \/ \E c \in Calls : IsWrite(c) /\ call[c].path = f /\ pc'[c] # pc[c]
                    \/ faults' # faults /\ work' = [g \in Files |-> None]
  BY DEF OnlyWritesChange
<1>1. CASE Restart
  BY <1>1, ExecServiceAssumption DEF Restart, Fault, Types
<1>2. CASE ~Restart
  <2>1. PICK c \in Calls : call[c].path = f /\ (WriteOpens(c) \/ WriteCloses(c))
    BY <1>2, FileChange
  <2>2. IsWrite(c)
    BY <2>1 DEF WriteOpens, WriteCloses, Enters, IsWrite, Shape, CallShape
  <2>3. pc'[c] # pc[c]
    <3>1. CASE WriteOpens(c)
      BY <3>1 DEF WriteOpens, Enters, Go, Types
    <3>2. CASE WriteCloses(c)
      BY <3>2, BareAnswer DEF WriteCloses
    <3> QED
      BY <2>1, <3>1, <3>2
  <2> QED
    BY <2>1, <2>2, <2>3
<1> QED
  BY <1>1, <1>2

\* What write_file answers that it wrote is in the file, and only another write, a
\* command or a restart changes it, for any number of calls and files.
THEOREM WritesStay == Spec => WrittenIsThere
<1>1. Init => OneInLoop /\ OwnWrite
  BY DEF Init, OneInLoop, OwnWrite
<1>2. Types /\ Shape /\ OneInLoop /\ OwnWrite /\ [Next]_vars => OneInLoop' /\ OwnWrite'
  BY StepKeeps, OneInLoopStep, OwnWriteStep
<1>3. Types /\ Shape /\ OwnWrite /\ [Next]_vars
        => [AnsweredIsWritten /\ OnlyWritesChange]_vars
  BY AnsweredWriteStep, FilesChangeStep
<1> QED
  BY <1>1, <1>2, <1>3, Shaped, PTL DEF Spec, WrittenIsThere
=============================================================================
