------------------------------ MODULE AgentRun ------------------------------
(***************************************************************************)
(* One session of the agent: control_plane/agent.py's driver and its       *)
(* worker, the guard, the tools of control_plane/sandbox.py as the driver  *)
(* sees them, and what control_plane/runtime.py persists of all that.      *)
(*                                                                         *)
(* A process holds the session, runs _drive for a goal, and may die at any *)
(* point; another one opens the same database and resumes.  The worker is  *)
(* asked again and again (reason, call tools, observe) until the model     *)
(* answers with plain text, which ends its turn.  The calls of one answer  *)
(* pass the guard in order and then run concurrently; their results reach  *)
(* the database as one event, which also carries the guard's counters.     *)
(***************************************************************************)
EXTENDS Guard, Sequences

CONSTANTS
  MaxIterations, \* AGENT_MAX_ITERATIONS
  MaxBatch,      \* bound: tool calls in one answer of the model
  MaxEvents,     \* bound: goals and tool calls are begun below this many events
  MaxAborts,     \* bound: crashes and uncaught exceptions
  MaxTime        \* bound: the last tick of the clock

ASSUME AgentRunAssumption ==
  /\ MaxIterations \in Nat
  /\ MaxBatch \in Nat \ {0}
  /\ MaxEvents \in Nat
  /\ MaxAborts \in Nat
  /\ MaxTime \in Nat

VARIABLES
  \* the database
  events,     \* session.events
  savedSteps, \* guard:steps as persisted
  savedStart, \* guard:start_ts as persisted
  open,       \* an invocation has begun and has no output yet
  turnsDone,  \* worker turns of that invocation that are recorded as complete
  \* the process
  pc,         \* where it is
  artifacts,  \* versions in the InMemoryArtifactService
  calls,      \* the tool calls of the model's last answer
  guarded,    \* how many of them the guard has seen
  \* the locals of _drive
  step, finished, summary, cursor,
  \* history, read by the properties and never by the actions
  from,       \* Len(events) when the current _drive began
  goalAt,     \* Len(events) just after the goal of the current invocation
  bornAt,     \* Len(events) when this process started
  allowed,    \* calls the guard has let through, in all processes
  aborts      \* crashes and uncaught exceptions so far

dbVars == <<events, savedSteps, savedStart, open, turnsDone>>
driverVars == <<step, finished, summary, cursor, from>>
batchVars == <<calls, guarded>>
historyVars == <<goalAt, bornAt, allowed, aborts>>
vars == <<now, kill, guardVars, dbVars, pc, artifacts, batchVars, driverVars,
          historyVars>>

-----------------------------------------------------------------------------
Nothing == -1   \* no artifact version

CallState == [tool : Tools,
              st   : {"new", "refused", "running", "done"},
              esc  : BOOLEAN,
              ver  : Nat \cup {Nothing}]

\* A session event, reduced to what _drive and the properties read of it:
\* actions.escalate, a finish response with a summary, and for each response in it
\* the artifact version that it reports, if it is one of copy_out.
Event == [esc : BOOLEAN, fin : BOOLEAN, saved : Seq(Nat \cup {Nothing})]

Plain == [esc |-> FALSE, fin |-> FALSE, saved |-> <<>>]

Batches == UNION {[1..n -> Tools] : n \in 1..MaxBatch}

NewCall(tool) == [tool |-> tool, st |-> "new", esc |-> FALSE, ver |-> Nothing]

Larger(a, b) == IF a >= b THEN a ELSE b

Places == {"down", "idle", "loop", "model", "tools", "scan"}

Init ==
  /\ now = 0
  /\ kill = FALSE
  /\ steps = 0 /\ start = Unset
  /\ events = <<>>
  /\ savedSteps = 0 /\ savedStart = Unset
  /\ open = FALSE
  /\ turnsDone = 0
  /\ pc = "down"
  /\ artifacts = 0
  /\ calls = <<>> /\ guarded = 0
  /\ step = 0 /\ finished = FALSE /\ summary = FALSE /\ cursor = 0
  /\ from = 0 /\ goalAt = 0 /\ bornAt = 0
  /\ allowed = 0 /\ aborts = 0

-----------------------------------------------------------------------------
(* The process: it starts, takes a goal or resumes, and may die.           *)

Tick ==
  /\ now < MaxTime
  /\ now' = now + 1
  /\ UNCHANGED <<kill, guardVars, dbVars, pc, artifacts, batchVars, driverVars,
                 historyVars>>

\* Mutant: the session is in memory (InMemoryRunner), so the counters begin anew.
StartProcessInMemory ==
  /\ pc = "down"
  /\ pc' = "idle"
  /\ kill' \in BOOLEAN
  /\ artifacts' = 0
  /\ bornAt' = Len(events)
  /\ steps' = 0 /\ start' = Unset
  /\ UNCHANGED <<now, dbVars, batchVars, driverVars, goalAt, allowed, aborts>>

\* A fresh process over the same database: os.environ is read from .env now and
\* stays what it is, the artifact service is a new one.
StartProcess ==
  /\ pc = "down"
  /\ pc' = "idle"
  /\ kill' \in BOOLEAN
  /\ artifacts' = 0
  /\ bornAt' = Len(events)
  /\ UNCHANGED <<now, guardVars, dbVars, batchVars, driverVars, goalAt, allowed,
                 aborts>>

\* The locals of _drive at its first line; the cursor skips what is there.
EnterDrive(seen) ==
  /\ step' = 0 /\ finished' = FALSE /\ summary' = FALSE
  /\ cursor' = seen /\ from' = seen
  /\ pc' = "loop"

\* run_async with a message: the user's goal is appended, then _drive runs.
NewGoal ==
  /\ pc = "idle"
  /\ Len(events) < MaxEvents
  /\ events' = Append(events, Plain)
  /\ open' = TRUE
  /\ turnsDone' = 0
  /\ goalAt' = Len(events')
  /\ EnterDrive(Len(events'))
  /\ UNCHANGED <<now, kill, guardVars, savedSteps, savedStart, artifacts,
                 batchVars, bornAt, allowed, aborts>>

\* Mutant: only a run with a complete turn on record can be resumed.
ResumeCheckpointed ==
  /\ pc = "idle"
  /\ open /\ turnsDone > 0
  /\ EnterDrive(Len(events))
  /\ UNCHANGED <<now, kill, guardVars, dbVars, artifacts, batchVars, historyVars>>

\* run_async with new_message=None: rerun_on_resume=True runs _drive again from
\* its first line, over the events that are there by now.
Resume ==
  /\ pc = "idle"
  /\ open
  /\ EnterDrive(Len(events))
  /\ UNCHANGED <<now, kill, guardVars, dbVars, artifacts, batchVars, historyVars>>

\* Mutant: guard:start_ts is kept in the process only.
ForgetStart ==
  /\ steps' = savedSteps /\ start' = Unset
  /\ calls' = <<>> /\ guarded' = 0
  /\ aborts < MaxAborts
  /\ aborts' = aborts + 1
  /\ UNCHANGED <<now, kill, dbVars, driverVars, goalAt, bornAt, allowed>>

\* What a process that stops leaves behind: the session is read again from the
\* database by whoever opens it next, and the batch in flight is gone.
ForgetUnsaved ==
  /\ steps' = savedSteps /\ start' = savedStart
  /\ calls' = <<>> /\ guarded' = 0
  /\ aborts < MaxAborts
  /\ aborts' = aborts + 1
  /\ UNCHANGED <<now, kill, dbVars, driverVars, goalAt, bornAt, allowed>>

Crash ==
  /\ pc # "down"
  /\ pc' = "down"
  /\ artifacts' = 0
  /\ ForgetUnsaved

\* The model endpoint or the exec service cannot be reached: httpx (or LiteLLM)
\* raises, nothing catches it, and the invocation ends without an output.
Raise ==
  /\ pc \in {"model", "tools"}
  /\ pc' = "idle"
  /\ UNCHANGED artifacts
  /\ ForgetUnsaved

-----------------------------------------------------------------------------
(* _drive                                                                  *)

\* Mutant: only the turns are counted, as in a for loop.
InLoopAnyway == pc = "loop" /\ step < MaxIterations

InLoop == pc = "loop" /\ step < MaxIterations /\ ~finished

\* ctx.run_node(_worker): the worker is asked.
StartTurn ==
  /\ InLoop
  /\ pc' = "model"
  /\ UNCHANGED <<now, kill, guardVars, dbVars, artifacts, batchVars, driverVars,
                 historyVars>>

\* The same call for a turn the graph engine has on record, after a resume: it
\* may return that turn's output at once.  The engine is not under src/, so
\* StartTurn (the turn runs again) stays possible too.
ReplayTurn ==
  /\ InLoop
  /\ step < turnsDone
  /\ pc' = "scan"
  /\ UNCHANGED <<now, kill, guardVars, dbVars, artifacts, batchVars, driverVars,
                 historyVars>>

\* Mutant: only the last event of the turn is looked at.
UnseenLast == {Len(events)}

Unseen == (cursor + 1)..Len(events)

\* Mutant: the cursor is moved one event too far.
ScanOvershoot ==
  /\ pc = "scan"
  /\ pc' = "loop"
  /\ step' = step + 1
  /\ finished' = (finished \/ \E i \in Unseen : events[i].esc)
  /\ summary' = (summary \/ \E i \in Unseen : events[i].fin)
  /\ cursor' = Len(events) + 1
  /\ UNCHANGED <<now, kill, guardVars, dbVars, artifacts, batchVars, from,
                 historyVars>>

\* Mutant: only a turn that brought new events is counted.
ScanCountsNew ==
  /\ pc = "scan"
  /\ pc' = "loop"
  /\ step' = IF Unseen = {} THEN step ELSE step + 1
  /\ finished' = (finished \/ \E i \in Unseen : events[i].esc)
  /\ summary' = (summary \/ \E i \in Unseen : events[i].fin)
  /\ cursor' = Len(events)
  /\ UNCHANGED <<now, kill, guardVars, dbVars, artifacts, batchVars, from,
                 historyVars>>

\* After the turn: count it, look at every event since the last look.
Scan ==
  /\ pc = "scan"
  /\ pc' = "loop"
  /\ step' = step + 1
  /\ finished' = (finished \/ \E i \in Unseen : events[i].esc)
  /\ summary' = (summary \/ \E i \in Unseen : events[i].fin)
  /\ cursor' = Len(events)
  /\ UNCHANGED <<now, kill, guardVars, dbVars, artifacts, batchVars, from,
                 historyVars>>

Return ==
  /\ pc = "loop"
  /\ finished \/ step >= MaxIterations
  /\ pc' = "idle"
  /\ open' = FALSE
  /\ UNCHANGED <<now, kill, guardVars, events, savedSteps, savedStart, turnsDone,
                 artifacts, batchVars, driverVars, historyVars>>

-----------------------------------------------------------------------------
(* The worker's turn                                                       *)

\* Plain text is a final response: the turn is complete and on record.
ModelText ==
  /\ pc = "model"
  /\ pc' = "scan"
  /\ events' = Append(events, Plain)
  /\ turnsDone' = Larger(turnsDone, step + 1)
  /\ UNCHANGED <<now, kill, guardVars, savedSteps, savedStart, open, artifacts,
                 batchVars, driverVars, historyVars>>

ModelCalls ==
  /\ pc = "model"
  /\ Len(events) < MaxEvents
  /\ pc' = "tools"
  /\ events' = Append(events, Plain)
  /\ \E b \in Batches : calls' = [i \in DOMAIN b |-> NewCall(b[i])]
  /\ guarded' = 0
  /\ UNCHANGED <<now, kill, guardVars, savedSteps, savedStart, open, turnsDone,
                 artifacts, driverVars, historyVars>>

\* The next call of the batch enters before_tool_guard.
Guarding ==
  /\ pc = "tools"
  /\ guarded < Len(calls)
  /\ guarded' = guarded + 1
  /\ UNCHANGED <<now, kill, dbVars, pc, artifacts, driverVars, goalAt, bornAt,
                 aborts>>

\* The guard's dict is the result of the call, and the tool does not run.
Refuse(esc) ==
  /\ Guarding
  /\ calls' = [calls EXCEPT ![guarded + 1].st = "refused",
                            ![guarded + 1].esc = esc]
  /\ UNCHANGED allowed

KillSwitch == Refuse(TRUE) /\ HaltByKill

TimeBudget == Refuse(TRUE) /\ HaltByTime

StepBudget == Refuse(TRUE) /\ HaltBySteps

Denylist == Refuse(FALSE) /\ DenyCommand(calls[guarded + 1].tool)

\* finish() is synchronous and escalates; the other tools await the exec service.
LetThrough ==
  /\ Guarding
  /\ LET tool == calls[guarded + 1].tool
     IN  /\ AllowCall(tool)
         /\ calls' = [calls EXCEPT
                        ![guarded + 1].st = IF tool = "finish" THEN "done"
                                                               ELSE "running",
                        ![guarded + 1].esc = (tool = "finish")]
  /\ allowed' = allowed + 1

\* The exec service has answered, with a result or an error that _err made a
\* result.
ToolReturns(i) ==
  /\ pc = "tools"
  /\ calls[i].st = "running"
  /\ calls' = [calls EXCEPT ![i].st = "done"]
  /\ UNCHANGED <<now, kill, guardVars, dbVars, pc, artifacts, guarded, driverVars,
                 historyVars>>

\* Mutant: the number of versions is read, and the new one stored an await later.
CopyOutInTwoSteps(i) ==
  /\ pc = "tools"
  /\ calls[i].st = "running"
  /\ calls[i].tool = "copy"
  /\ IF calls[i].ver = Nothing
     THEN /\ calls' = [calls EXCEPT ![i].ver = artifacts]
          /\ UNCHANGED artifacts
     ELSE /\ calls' = [calls EXCEPT ![i].st = "done"]
          /\ artifacts' = artifacts + 1
  /\ UNCHANGED <<now, kill, guardVars, dbVars, pc, guarded, driverVars,
                 historyVars>>

\* copy_out got the bytes, and save_artifact gave them the next version: the
\* InMemoryArtifactService counts and appends with no await in between.
CopyOut(i) ==
  /\ pc = "tools"
  /\ calls[i].st = "running"
  /\ calls[i].tool = "copy"
  /\ calls' = [calls EXCEPT ![i].st = "done", ![i].ver = artifacts]
  /\ artifacts' = artifacts + 1
  /\ UNCHANGED <<now, kill, guardVars, dbVars, pc, guarded, driverVars,
                 historyVars>>

\* The results of a batch in one event, with the merged actions of its calls.
Response ==
  [esc   |-> \E i \in DOMAIN calls : calls[i].esc,
   fin   |-> \E i \in DOMAIN calls :
               calls[i].tool = "finish" /\ calls[i].st = "done",
   saved |-> [i \in DOMAIN calls |-> calls[i].ver]]

\* All calls have a result.  Appending their event, which carries the state delta
\* too, is what persists the guard's counters.
Respond ==
  /\ pc = "tools"
  /\ guarded = Len(calls)
  /\ \A i \in DOMAIN calls : calls[i].st \in {"refused", "done"}
  /\ events' = Append(events, Response)
  /\ savedSteps' = steps /\ savedStart' = start
  /\ calls' = <<>> /\ guarded' = 0
  /\ pc' = "model"
  /\ UNCHANGED <<now, kill, guardVars, open, turnsDone, artifacts, driverVars,
                 historyVars>>

GuardStep == KillSwitch \/ TimeBudget \/ StepBudget \/ Denylist \/ LetThrough

Tool == \E i \in DOMAIN calls : ToolReturns(i) \/ CopyOut(i)

Driver == StartTurn \/ ReplayTurn \/ Scan \/ Return

Next ==
  \/ Tick \/ StartProcess \/ NewGoal \/ Resume \/ Crash \/ Raise
  \/ Driver
  \/ ModelText \/ ModelCalls
  \/ GuardStep \/ Tool \/ Respond

Spec == Init /\ [][Next]_vars

(***************************************************************************)
(* Fairness: the event loop runs what is ready, a tool call returns or     *)
(* raises (the HTTP client has a timeout), and a model that is asked again *)
(* and again answers in plain text some day.  That the worker's requests   *)
(* do reach the model is a premise of this module: the semantic cache is   *)
(* off, or finds nothing.  An operator restarts what died and resumes it,  *)
(* as the demo of persistence does.  Nothing makes an operator set a goal, *)
(* a process crash or the clock tick.                                      *)
(***************************************************************************)
Fairness ==
  /\ WF_vars(Driver)
  /\ WF_vars(GuardStep)
  /\ WF_vars(Tool)
  /\ WF_vars(Respond)
  /\ SF_vars(ModelText)
  /\ WF_vars(StartProcess)
  /\ WF_vars(Resume)

FairSpec == Spec /\ Fairness
-----------------------------------------------------------------------------
(* Properties                                                              *)

FlagsOK ==
  /\ kill \in BOOLEAN /\ open \in BOOLEAN
  /\ finished \in BOOLEAN /\ summary \in BOOLEAN

DataOK ==
  /\ now \in 0..MaxTime
  /\ steps \in Nat /\ savedSteps \in Nat
  /\ start \in Nat \cup {Unset} /\ savedStart \in Nat \cup {Unset}
  /\ events \in Seq(Event)
  /\ turnsDone \in Nat
  /\ pc \in Places
  /\ artifacts \in Nat
  /\ calls \in Seq(CallState)
  /\ Len(calls) <= MaxBatch
  /\ guarded \in 0..Len(calls)
  /\ step \in Nat
  /\ cursor \in 0..Len(events) /\ from \in 0..Len(events)
  /\ goalAt \in 0..Len(events) /\ bornAt \in 0..Len(events)
  /\ allowed \in Nat
  /\ aborts \in 0..MaxAborts

\* The type of every variable; in particular no position the driver or the
\* process keeps lies beyond the events of the session.
TypeOK == FlagsOK /\ DataOK

\* The step budget is a budget of the session: over all its processes and all
\* its goals the guard lets at most AGENT_MAX_STEPS calls through, plus one
\* batch for every crash or uncaught exception, whose counting was lost with the
\* response event that never got to the database.
SessionBudget == allowed <= MaxSteps + aborts * MaxBatch

\* A budget the database shows as spent stays spent: no later process, resumed
\* run or new goal of this session gets another call through.
SpentIsSpent == [][savedSteps >= MaxSteps => allowed' = allowed]_vars

\* Once the recorded start is more than AGENT_MAX_SECONDS ago no call of the
\* session runs any more, whichever process asks and however long none did.
LateIsLate ==
  [][savedStart # Unset /\ now - savedStart > MaxSeconds
       => allowed' = allowed]_vars

\* At the head of its loop the driver knows exactly what happened since it
\* began: it is finished if and only if some event escalated, and has a summary
\* if and only if a finish ran.  No event is skipped or read by two drives.
DriverMissesNothing ==
  pc = "loop" =>
    LET mine == (from + 1)..Len(events)
    IN  /\ finished <=> \E i \in mine : events[i].esc
        /\ summary <=> \E i \in mine : events[i].fin

\* The responses of this process that report an artifact: event and place in it.
Reports ==
  {r \in ((bornAt + 1)..Len(events)) \X (1..MaxBatch) :
     r[2] \in DOMAIN events[r[1]].saved /\ events[r[1]].saved[r[2]] # Nothing}

Reported(r) == events[r[1]].saved[r[2]]

\* As long as its process lives, every version that a copy_out reported is stored, and
\* no two copy_out calls report the same one, be they of one answer of the model
\* and so concurrent, or of different turns, drives or goals.  (With the process the
\* artifacts go, and the reports stay.)
ReportedArtifactsExist ==
  pc # "down" =>
    /\ \A r \in Reports : Reported(r) < artifacts
    /\ \A r, q \in Reports : Reported(r) = Reported(q) => r = q

\* What the loop promises (module BoundedLoop) is kept by the driver as it is, with
\* its cursor over the session's events, its local flags, and the resume from its
\* first line.  Whether the loop is over is read off the events here and not off
\* the driver's own flag.
Loop == INSTANCE BoundedLoop WITH
  MaxTurns <- MaxIterations,
  place <- IF pc \in {"down", "idle"} THEN "out"
           ELSE IF pc = "loop" THEN "head" ELSE "turn",
  turns <- step,
  over  <- \E i \in (from + 1)..Len(events) : events[i].esc,
  owed  <- open

KeepsTheLoop == Loop!Spec

\* Every drive ends, finished or out of iterations, or fails, a resumed one over turns
\* that are replayed included.  It does if the model is really asked, which is to
\* say with the semantic cache off: CachedTurn shows what the cache makes of it.
DriveEnds == pc = "loop" ~> pc \in {"idle", "down"}

\* A goal the session took is answered by an output in the end, through any
\* number of crashes and uncaught exceptions, if an operator restarts the process
\* and resumes, and with the semantic cache off, as above.
GoalIsAnswered == open ~> ~open

-----------------------------------------------------------------------------
(* What the documentation says and the code does not do                    *)

\* agent.py:14: "The loop terminates when an event escalates".  Read over the
\* whole invocation, resumed or not: no turn starts after an escalation.
EscalationEndsTheLoop ==
  [][pc = "loop" /\ pc' = "model"
       => \A i \in (goalAt + 1)..Len(events) : ~events[i].esc]_vars
=============================================================================
