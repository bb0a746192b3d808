--------------------------- MODULE AgentRunProofs ---------------------------
(***************************************************************************)
(* What AgentRun guarantees for every budget, batch size and bound.        *)
(*                                                                         *)
(* TypeOK is inductive.  The safety properties are not: each gets a        *)
(* strengthening (BudgetInv, StartInv, DriverInv, ArtifactInv) that also   *)
(* says what is true in the middle of a batch or of a turn, and each       *)
(* strengthening is inductive relative to TypeOK.  The last part says when *)
(* an escalation does end the loop, which it does not in general.          *)
(***************************************************************************)
EXTENDS AgentRun, TLAPS

-----------------------------------------------------------------------------
(* The inductive invariants                                                *)

\* The calls that n counted calls can have let through.
Spent(n) == IF n <= MaxSteps THEN n ELSE MaxSteps

\* Only a batch has calls.
BatchInv == pc # "tools" => calls = <<>> /\ guarded = 0

\* The process is ahead of the database by the guarded calls of its batch at
\* most, and what was let through has been counted, or was lost by an abort.
BudgetInv ==
  /\ savedSteps <= steps
  /\ steps <= savedSteps + guarded
  /\ allowed <= Spent(steps) + aborts * MaxBatch

\* A start that is in the database is the one the process counts from.
StartInv == savedStart # Unset => start = savedStart

\* What the locals of _drive know, at every point of the turn.
DriverInv ==
  /\ from <= cursor
  /\ pc = "loop" => cursor = Len(events)
  /\ finished <=> \E i \in (from + 1)..cursor : events[i].esc
  /\ summary <=> \E i \in (from + 1)..cursor : events[i].fin

\* The versions that the events of this process report and those of its batch: all
\* stored, and none twice.
ArtifactInv ==
  /\ ReportedArtifactsExist
  /\ pc # "down" =>
       /\ \A k \in DOMAIN calls :
            calls[k].ver # Nothing =>
              /\ calls[k].ver < artifacts
              /\ \A r \in Reports : Reported(r) # calls[k].ver
       /\ \A k, l \in DOMAIN calls :
            calls[k].ver # Nothing /\ calls[k].ver = calls[l].ver => k = l

-----------------------------------------------------------------------------
(* Types                                                                   *)

\* What a new call looks like, whatever the model asked for.
LEMMA NewCallType == \A t \in Tools : NewCall(t) \in CallState
BY DEF NewCall, CallState, Nothing

\* Whatever the model answers, its calls are a nonempty batch of bounded length.
LEMMA BatchType ==
  ASSUME NEW b \in Batches
  PROVE  /\ [i \in DOMAIN b |-> NewCall(b[i])] \in Seq(CallState)
         /\ Len([i \in DOMAIN b |-> NewCall(b[i])]) \in 1..MaxBatch
<1>1. PICK n \in 1..MaxBatch : b \in [1..n -> Tools]
  BY DEF Batches
<1>2. n \in Nat /\ DOMAIN b = 1..n
  BY <1>1, AgentRunAssumption DEF AgentRunAssumption
<1>3. \A i \in 1..n : NewCall(b[i]) \in CallState
  BY <1>1, NewCallType
<1> QED
  BY <1>2, <1>3, <1>1

\* A refused, started or finished call is still a call, and the batch keeps its
\* length.
LEMMA CallUpdate ==
  ASSUME NEW s \in Seq(CallState), NEW k \in 1..Len(s), NEW c \in CallState,
         NEW t, t = [s EXCEPT ![k] = c]
  PROVE  /\ t \in Seq(CallState)
         /\ Len(t) = Len(s)
         /\ \A i \in 1..Len(s) : t[i] = IF i = k THEN c ELSE s[i]
OBVIOUS

\* Every call of a batch is a call, and its version a version or none.
LEMMA CallOfBatch ==
  ASSUME NEW s \in Seq(CallState), NEW i \in DOMAIN s
  PROVE  s[i] \in CallState /\ s[i].ver \in Nat \cup {Nothing}
<1>1. s[i] \in CallState
  OBVIOUS
<1> QED
  BY <1>1 DEF CallState

\* Every plain event, and every event a batch ends with, is an event.
LEMMA PlainType == Plain \in Event
BY DEF Plain, Event

LEMMA ResponseType == calls \in Seq(CallState) => Response \in Event
<1> SUFFICES ASSUME calls \in Seq(CallState) PROVE Response \in Event
  OBVIOUS
<1>1. \A i \in DOMAIN calls : calls[i].ver \in Nat \cup {Nothing}
  BY CallOfBatch
<1>2. [i \in DOMAIN calls |-> calls[i].ver] \in Seq(Nat \cup {Nothing})
  BY <1>1
<1> QED
  BY <1>2 DEF Response, Event

\* Every variable keeps its type, for every value of the constants.
THEOREM TypeCorrect == Spec => []TypeOK
<1> USE AgentRunAssumption, GuardAssumption
      DEF AgentRunAssumption, GuardAssumption
<1>1. Init => TypeOK
  <2>1. Init => FlagsOK
    BY DEF Init, FlagsOK
  <2>2. Init => DataOK
    BY DEF Init, DataOK, Unset, Places
  <2> QED
    BY <2>1, <2>2 DEF TypeOK
<1>2. FlagsOK /\ [Next]_vars => FlagsOK'
  <2> SUFFICES ASSUME FlagsOK, [Next]_vars PROVE FlagsOK'
    OBVIOUS
  <2> USE DEF FlagsOK, dbVars, driverVars
  <2>1. CASE Tick \/ Crash \/ Raise
    BY <2>1 DEF Tick, Crash, Raise, ForgetUnsaved
  <2>2. CASE StartProcess \/ NewGoal \/ Resume
    BY <2>2 DEF StartProcess, NewGoal, Resume, EnterDrive
  <2>3. CASE StartTurn \/ ReplayTurn \/ Scan \/ Return
    BY <2>3 DEF StartTurn, ReplayTurn, Scan, Return
  <2>4. CASE ModelText \/ ModelCalls \/ Respond
    BY <2>4 DEF ModelText, ModelCalls, Respond
  <2>5. CASE Guarding
    BY <2>5 DEF Guarding
  <2>6. CASE Tool
    BY <2>6 DEF Tool, ToolReturns, CopyOut
  <2>7. CASE UNCHANGED vars
    BY <2>7 DEF vars
  <2> QED
    BY <2>1, <2>2, <2>3, <2>4, <2>5, <2>6, <2>7
       DEF Next, Driver, GuardStep, KillSwitch, TimeBudget, StepBudget, Denylist,
           LetThrough, Refuse
<1>3. TypeOK /\ [Next]_vars => DataOK'
  <2> SUFFICES ASSUME DataOK, [Next]_vars PROVE DataOK'
    BY DEF TypeOK
  <2>1. CASE Tick
    BY <2>1 DEF DataOK, Tick, guardVars, dbVars, batchVars, driverVars, historyVars
  <2>2. CASE StartProcess
    BY <2>2 DEF DataOK, StartProcess, guardVars, dbVars, batchVars, driverVars,
                Places
  <2>3. CASE NewGoal
    BY <2>3, PlainType DEF DataOK, NewGoal, EnterDrive, guardVars, batchVars, Places
  <2>4. CASE Resume
    BY <2>4 DEF DataOK, Resume, EnterDrive, guardVars, dbVars, batchVars,
                historyVars, Places
  <2>5. CASE Crash
    BY <2>5 DEF DataOK, Crash, ForgetUnsaved, dbVars, driverVars, Places
  <2>6. CASE Raise
    BY <2>6 DEF DataOK, Raise, ForgetUnsaved, dbVars, driverVars, Places
  <2>7. CASE StartTurn
    BY <2>7 DEF DataOK, StartTurn, guardVars, dbVars, batchVars, driverVars,
                historyVars, Places
  <2>8. CASE ReplayTurn
    BY <2>8 DEF DataOK, ReplayTurn, guardVars, dbVars, batchVars, driverVars,
                historyVars, Places
  <2>9. CASE Scan
    BY <2>9 DEF DataOK, Scan, guardVars, dbVars, batchVars, historyVars, Places
  <2>10. CASE Return
    BY <2>10 DEF DataOK, Return, guardVars, batchVars, driverVars, historyVars,
                 Places
  <2>11. CASE ModelText
    BY <2>11, PlainType DEF DataOK, ModelText, Larger, guardVars, batchVars,
                            driverVars, historyVars, Places
  <2>12. CASE ModelCalls
    <3>1. PICK b \in Batches : calls' = [i \in DOMAIN b |-> NewCall(b[i])]
      BY <2>12 DEF ModelCalls
    <3>2. calls' \in Seq(CallState) /\ Len(calls') \in 1..MaxBatch
      BY <3>1, BatchType
    <3> QED
      BY <2>12, <3>2, PlainType DEF DataOK, ModelCalls, guardVars, driverVars,
                                    historyVars, Places
  <2>13. CASE GuardStep
    <3>1. ASSUME Guarding PROVE calls[guarded + 1] \in CallState
      BY <3>1 DEF DataOK, Guarding
    <3>2. ASSUME Guarding, NEW c \in CallState,
                 calls' = [calls EXCEPT ![guarded + 1] = c],
                 steps' \in Nat, start' \in Nat \cup {Unset}, allowed' \in Nat
          PROVE  DataOK'
      BY <3>2, CallUpdate DEF DataOK, Guarding, dbVars, driverVars
    <3>3. ASSUME NEW esc \in BOOLEAN, Refuse(esc),
                 steps' \in Nat, start' \in Nat \cup {Unset}
          PROVE  DataOK'
      <4> DEFINE c == [calls[guarded + 1] EXCEPT !.st = "refused", !.esc = esc]
      <4>1. c \in CallState
        BY <3>1, <3>3 DEF Refuse, CallState
      <4>2. calls' = [calls EXCEPT ![guarded + 1] = c]
        BY <3>1, <3>3 DEF Refuse, CallState
      <4> QED
        BY <3>2, <3>3, <4>1, <4>2 DEF DataOK, Refuse
    <3> DEFINE Counters == steps' \in Nat /\ start' \in Nat \cup {Unset}
    <3>t. StartedAt \in Nat \cup {Unset}
      BY DEF DataOK, StartedAt
    <3>c. Counted => Counters
      BY <3>t DEF DataOK, Counted
    <3>4. CASE KillSwitch
      BY <3>3, <3>4 DEF DataOK, KillSwitch, HaltByKill, guardVars
    <3>5. CASE TimeBudget
      <4>1. Counters
        BY <3>5, <3>t DEF DataOK, TimeBudget, HaltByTime
      <4> QED
        BY <3>3, <3>5, <4>1 DEF TimeBudget
    <3>6. CASE StepBudget
      BY <3>3, <3>6, <3>c DEF StepBudget, HaltBySteps
    <3>7. CASE Denylist
      BY <3>3, <3>7, <3>c DEF Denylist, DenyCommand
    <3>8. CASE LetThrough
      <4> DEFINE tool == calls[guarded + 1].tool
                 c == [calls[guarded + 1] EXCEPT
                         !.st = IF tool = "finish" THEN "done" ELSE "running",
                         !.esc = (tool = "finish")]
      <4>1. c \in CallState
        BY <3>1, <3>8 DEF LetThrough, CallState
      <4>2. calls' = [calls EXCEPT ![guarded + 1] = c]
        BY <3>1, <3>8 DEF LetThrough, CallState
      <4>3. steps' \in Nat /\ start' \in Nat \cup {Unset} /\ allowed' \in Nat
        <5>1. Counted /\ allowed' = allowed + 1
          BY <3>8 DEF LetThrough, AllowCall
        <5> QED
          BY <5>1, <3>c DEF DataOK
      <4> QED
        BY <3>2, <3>8, <4>1, <4>2, <4>3 DEF LetThrough
    <3> QED
      BY <2>13, <3>4, <3>5, <3>6, <3>7, <3>8 DEF GuardStep
  <2>14. CASE Tool
    <3>1. PICK i \in DOMAIN calls : ToolReturns(i) \/ CopyOut(i)
      BY <2>14 DEF Tool
    <3>2. i \in 1..Len(calls) /\ calls[i] \in CallState
      BY <3>1, CallOfBatch DEF DataOK
    <3>3. CASE ToolReturns(i)
      <4> DEFINE c == [calls[i] EXCEPT !.st = "done"]
      <4>1. c \in CallState
        BY <3>2 DEF CallState
      <4>2. calls' = [calls EXCEPT ![i] = c]
        BY <3>3 DEF ToolReturns
      <4> HIDE DEF c
      <4>3. calls' \in Seq(CallState) /\ Len(calls') = Len(calls)
        BY <3>2, <4>1, <4>2, CallUpdate DEF DataOK
      <4> QED
        BY <3>3, <4>3 DEF DataOK, ToolReturns, guardVars, dbVars, driverVars,
                          historyVars
    <3>4. CASE CopyOut(i)
      <4> DEFINE c == [calls[i] EXCEPT !.st = "done", !.ver = artifacts]
      <4>1. c \in CallState
        BY <3>2 DEF DataOK, CallState
      <4>2. calls' = [calls EXCEPT ![i] = c]
        BY <3>4 DEF CopyOut
      <4> HIDE DEF c
      <4>3. calls' \in Seq(CallState) /\ Len(calls') = Len(calls)
        BY <3>2, <4>1, <4>2, CallUpdate DEF DataOK
      <4>4. /\ artifacts' = artifacts + 1
            /\ UNCHANGED <<now, guardVars, dbVars, pc, guarded, driverVars,
                           historyVars>>
        BY <3>4 DEF CopyOut
      <4> QED
        BY <4>3, <4>4 DEF DataOK, guardVars, dbVars, driverVars, historyVars
    <3> QED
      BY <3>1, <3>3, <3>4
  <2>15. CASE Respond
    <3>1. Response \in Event
      BY ResponseType DEF DataOK
    <3> QED
      BY <2>15, <3>1 DEF DataOK, Respond, guardVars, driverVars, historyVars, Places
  <2>16. CASE UNCHANGED vars
    BY <2>16 DEF DataOK, vars, guardVars, dbVars, batchVars, driverVars, historyVars
  <2> QED
    BY <2>1, <2>2, <2>3, <2>4, <2>5, <2>6, <2>7, <2>8, <2>9, <2>10, <2>11, <2>12,
       <2>13, <2>14, <2>15, <2>16 DEF Next, Driver
<1> QED
  BY <1>1, <1>2, <1>3, PTL DEF Spec, TypeOK

-----------------------------------------------------------------------------
(* The step budget                                                         *)

\* Outside a batch nothing is in flight: every way out of a batch clears it.
LEMMA BatchCleared == TypeOK /\ BatchInv /\ [Next]_vars => BatchInv'
<1> SUFFICES ASSUME BatchInv, [Next]_vars PROVE BatchInv'
  OBVIOUS
<1> USE DEF BatchInv
<1>1. CASE Tick \/ StartProcess \/ NewGoal \/ Resume
  BY <1>1 DEF Tick, StartProcess, NewGoal, Resume, EnterDrive, batchVars
<1>2. CASE Crash \/ Raise
  BY <1>2 DEF Crash, Raise, ForgetUnsaved
<1>3. CASE StartTurn \/ ReplayTurn \/ Scan \/ Return
  BY <1>3 DEF StartTurn, ReplayTurn, InLoop, Scan, Return, batchVars
<1>4. CASE ModelText \/ ModelCalls \/ Respond
  BY <1>4 DEF ModelText, ModelCalls, Respond, batchVars
<1>5. CASE Guarding
  BY <1>5 DEF Guarding
<1>6. CASE Tool
  BY <1>6 DEF Tool, ToolReturns, CopyOut
<1>7. CASE UNCHANGED vars
  BY <1>7 DEF vars, batchVars
<1> QED
  BY <1>1, <1>2, <1>3, <1>4, <1>5, <1>6, <1>7
     DEF Next, Driver, GuardStep, KillSwitch, TimeBudget, StepBudget, Denylist,
         LetThrough, Refuse

\* The variables the step budget is about.
budgetVars == <<steps, savedSteps, guarded, allowed, aborts>>

\* BudgetInv is kept: a counted call moves the process ahead of the database by
\* one, a response catches the database up, and an abort forgets at most a batch.
LEMMA BudgetKept == TypeOK /\ BatchInv /\ BudgetInv /\ [Next]_vars => BudgetInv'
<1> SUFFICES ASSUME TypeOK, BatchInv, BudgetInv, [Next]_vars PROVE BudgetInv'
  OBVIOUS
<1> USE AgentRunAssumption, GuardAssumption
      DEF AgentRunAssumption, GuardAssumption
<1>1. /\ steps \in Nat /\ savedSteps \in Nat /\ guarded \in 0..MaxBatch
      /\ allowed \in Nat /\ aborts \in Nat /\ aborts * MaxBatch \in Nat
  BY DEF TypeOK, DataOK
<1>2. ASSUME UNCHANGED budgetVars PROVE BudgetInv'
  BY <1>2 DEF BudgetInv, budgetVars
<1>3. CASE Tick \/ StartProcess \/ NewGoal \/ Resume
  BY <1>2, <1>3 DEF Tick, StartProcess, NewGoal, Resume, guardVars, dbVars,
                    batchVars, historyVars, budgetVars
<1>4. CASE StartTurn \/ ReplayTurn \/ Scan \/ Return
  BY <1>2, <1>4 DEF StartTurn, ReplayTurn, Scan, Return, guardVars, dbVars,
                    batchVars, historyVars, budgetVars
<1>5. CASE ModelText \/ ModelCalls
  BY <1>2, <1>5 DEF ModelText, ModelCalls, BatchInv, guardVars, batchVars,
                    historyVars, budgetVars
<1>6. CASE Tool
  BY <1>2, <1>6 DEF Tool, ToolReturns, CopyOut, guardVars, dbVars, historyVars,
                    budgetVars
<1>7. CASE Crash \/ Raise
  <2>1. /\ steps' = savedSteps /\ savedSteps' = savedSteps /\ guarded' = 0
        /\ allowed' = allowed /\ aborts' = aborts + 1
    BY <1>7 DEF Crash, Raise, ForgetUnsaved, dbVars
  <2>2. aborts' * MaxBatch = aborts * MaxBatch + MaxBatch
    BY <1>1, <2>1
  <2>3. Spent(steps) <= Spent(savedSteps) + MaxBatch
    BY <1>1 DEF BudgetInv, Spent
  <2>4. allowed <= Spent(savedSteps) + aborts' * MaxBatch
    BY <1>1, <2>2, <2>3 DEF BudgetInv, Spent
  <2> QED
    BY <1>1, <2>1, <2>4 DEF BudgetInv
<1>8. CASE GuardStep
  <2>1. CASE HaltByKill \/ HaltByTime
    <3>1. UNCHANGED <<steps, savedSteps, allowed, aborts>> /\ guarded' = guarded + 1
      BY <1>8, <2>1 DEF GuardStep, KillSwitch, TimeBudget, StepBudget, Denylist,
                        LetThrough, AllowCall, HaltBySteps, DenyCommand, Refuse,
                        Counted, Guarding, HaltByKill, HaltByTime, guardVars,
                        dbVars
    <3> QED
      BY <1>1, <3>1 DEF BudgetInv
  <2>2. CASE StepBudget \/ Denylist \/ LetThrough
    <3>1. /\ steps' = steps + 1 /\ guarded' = guarded + 1
          /\ UNCHANGED <<savedSteps, aborts>>
          /\ allowed' = allowed \/ (allowed' = allowed + 1 /\ steps' <= MaxSteps)
      BY <2>2 DEF StepBudget, Denylist, LetThrough, HaltBySteps, DenyCommand,
                  AllowCall, Refuse, Counted, Guarding, dbVars
    <3> QED
      BY <1>1, <3>1 DEF BudgetInv, Spent
  <2> QED
    BY <1>8, <2>1, <2>2 DEF GuardStep, KillSwitch, TimeBudget
<1>9. CASE Respond
  <2>1. /\ UNCHANGED <<steps, allowed, aborts>>
        /\ savedSteps' = steps /\ guarded' = 0
    BY <1>9 DEF Respond, guardVars, historyVars
  <2> QED
    BY <1>1, <2>1 DEF BudgetInv
<1>10. CASE UNCHANGED vars
  BY <1>2, <1>10 DEF vars, guardVars, dbVars, batchVars, historyVars, budgetVars
<1> QED
  BY <1>3, <1>4, <1>5, <1>6, <1>7, <1>8, <1>9, <1>10 DEF Next, Driver

\* No other action lets a call through.
LEMMA OnlyLetThrough == Next /\ ~LetThrough => allowed' = allowed
BY DEF Next, Tick, StartProcess, NewGoal, Resume, Crash, Raise, ForgetUnsaved,
       Driver, StartTurn, ReplayTurn, Scan, Return, ModelText, ModelCalls,
       GuardStep, KillSwitch, TimeBudget, StepBudget, Denylist, Refuse, Tool,
       ToolReturns, CopyOut, Respond, historyVars

\* The two invariants hold together.
THEOREM BudgetCorrect == Spec => [](BatchInv /\ BudgetInv)
<1>1. Init => BatchInv /\ BudgetInv
  BY AgentRunAssumption, GuardAssumption
     DEF AgentRunAssumption, GuardAssumption, Init, BatchInv, BudgetInv, Spent
<1> QED
  BY <1>1, TypeCorrect, BatchCleared, BudgetKept, PTL DEF Spec

\* At most MaxSteps calls of a session ever run, plus one batch per abort.
THEOREM SessionBudgetHolds == Spec => []SessionBudget
<1>1. TypeOK /\ BudgetInv => SessionBudget
  BY AgentRunAssumption, GuardAssumption
     DEF AgentRunAssumption, GuardAssumption, TypeOK, DataOK, BudgetInv, Spent,
         SessionBudget
<1> QED
  BY <1>1, TypeCorrect, BudgetCorrect, PTL

\* A budget that the database shows as spent lets nothing through any more.
THEOREM SpentStaysSpent == Spec => SpentIsSpent
<1>1. TypeOK /\ BudgetInv /\ [Next]_vars
        => [savedSteps >= MaxSteps => allowed' = allowed]_vars
  <2> SUFFICES ASSUME TypeOK, BudgetInv, Next, savedSteps >= MaxSteps
               PROVE  allowed' = allowed
    BY DEF vars, historyVars
  <2>1. CASE LetThrough
    <3>1. steps' = steps + 1 /\ steps' <= MaxSteps
      BY <2>1 DEF LetThrough, AllowCall, Counted
    <3> QED
      BY <3>1, GuardAssumption DEF GuardAssumption, TypeOK, DataOK, BudgetInv
  <2>2. CASE ~LetThrough
    BY <2>2, OnlyLetThrough
  <2> QED
    BY <2>1, <2>2
<1> QED
  BY <1>1, TypeCorrect, BudgetCorrect, PTL DEF Spec, SpentIsSpent

-----------------------------------------------------------------------------
(* The wall-clock budget                                                   *)

\* A recorded start is never overwritten: the guard writes it once, a response
\* saves it, an abort reads it back.
LEMMA StartKept == StartInv /\ [Next]_vars => StartInv'
<1> SUFFICES ASSUME StartInv, [Next]_vars PROVE StartInv'
  OBVIOUS
<1> USE DEF StartInv
<1>1. CASE Tick \/ StartProcess \/ NewGoal \/ Resume
  BY <1>1 DEF Tick, StartProcess, NewGoal, Resume, guardVars, dbVars
<1>2. CASE Crash \/ Raise
  BY <1>2 DEF Crash, Raise, ForgetUnsaved, dbVars
<1>3. CASE StartTurn \/ ReplayTurn \/ Scan \/ Return
  BY <1>3 DEF StartTurn, ReplayTurn, Scan, Return, guardVars, dbVars
<1>4. CASE ModelText \/ ModelCalls \/ Respond
  BY <1>4 DEF ModelText, ModelCalls, Respond, guardVars
<1>5. CASE GuardStep
  <2>1. savedStart' = savedStart
    BY <1>5 DEF GuardStep, KillSwitch, TimeBudget, StepBudget, Denylist, LetThrough,
                Refuse, Guarding, dbVars
  <2>2. start' = start \/ start' = StartedAt
    BY <1>5 DEF GuardStep, KillSwitch, TimeBudget, StepBudget, Denylist, LetThrough,
                HaltByKill, HaltByTime, HaltBySteps, DenyCommand, AllowCall,
                Counted, guardVars
  <2> QED
    BY <2>1, <2>2 DEF StartedAt
<1>6. CASE Tool
  BY <1>6 DEF Tool, ToolReturns, CopyOut, guardVars, dbVars
<1>7. CASE UNCHANGED vars
  BY <1>7 DEF vars, guardVars, dbVars
<1> QED
  BY <1>1, <1>2, <1>3, <1>4, <1>5, <1>6, <1>7 DEF Next, Driver

\* Once the saved start is too long ago no call of the session runs any more, in
\* any process, whatever happened in between.
THEOREM LateStaysLate == Spec => LateIsLate
<1>1. Init => StartInv
  BY DEF Init, StartInv
<1>2. StartInv /\ [Next]_vars
        => [savedStart # Unset /\ now - savedStart > MaxSeconds
              => allowed' = allowed]_vars
  <2> SUFFICES ASSUME StartInv, Next,
                      savedStart # Unset, now - savedStart > MaxSeconds
               PROVE  allowed' = allowed
    BY DEF vars, historyVars
  <2>1. TimeIsUp
    BY DEF StartInv, TimeIsUp, StartedAt
  <2>2. ~LetThrough
    BY <2>1 DEF LetThrough, AllowCall, Counted
  <2> QED
    BY <2>2, OnlyLetThrough
<1> QED
  BY <1>1, <1>2, StartKept, PTL DEF Spec, LateIsLate

-----------------------------------------------------------------------------
(* The driver's view of the events                                         *)

\* What DriverInv reads.
viewVars == <<events, from, cursor, finished, summary>>

\* DriverInv is kept: events are only ever appended, so what the cursor has passed
\* stays as it was read, and the cursor moves over what a turn appended at once.
LEMMA DriverKept == TypeOK /\ DriverInv /\ [Next]_vars => DriverInv'
<1> SUFFICES ASSUME DataOK, DriverInv, [Next]_vars PROVE DriverInv'
  BY DEF TypeOK
<1>1. cursor \in 0..Len(events) /\ from \in 0..Len(events) /\ Len(events) \in Nat
  BY DEF DataOK
<1>2. ASSUME UNCHANGED viewVars, pc' # "loop" \/ pc' = pc PROVE DriverInv'
  BY <1>2 DEF DriverInv, viewVars
<1>3. ASSUME NEW e, events' = Append(events, e), pc' # "loop",
             UNCHANGED <<from, cursor, finished, summary>>
      PROVE  DriverInv'
  <2>1. \A i \in (from + 1)..cursor : events'[i] = events[i]
    BY <1>1, <1>3 DEF DataOK
  <2> QED
    BY <1>3, <2>1 DEF DriverInv
<1>4. ASSUME NEW seen \in Nat, EnterDrive(seen), seen = Len(events') PROVE DriverInv'
  <2>1. (seen + 1)..seen = {}
    OBVIOUS
  <2> QED
    BY <1>4, <2>1 DEF EnterDrive, DriverInv
<1>5. CASE Tick \/ StartProcess
  BY <1>2, <1>5 DEF Tick, StartProcess, dbVars, driverVars, viewVars
<1>6. CASE NewGoal
  <2>1. Len(events') \in Nat /\ EnterDrive(Len(events'))
    BY <1>6, <1>1 DEF NewGoal, DataOK
  <2> QED
    BY <2>1, <1>4
<1>7. CASE Resume
  BY <1>7, <1>1, <1>4 DEF Resume, dbVars
<1>8. CASE Crash \/ Raise
  BY <1>2, <1>8 DEF Crash, Raise, ForgetUnsaved, dbVars, driverVars, viewVars
<1>9. CASE StartTurn \/ ReplayTurn \/ Return
  BY <1>2, <1>9 DEF StartTurn, ReplayTurn, Return, dbVars, driverVars, viewVars
<1>10. CASE Scan
  <2>1. (from + 1)..cursor' = ((from + 1)..cursor) \cup Unseen
    BY <1>1, <1>10 DEF Scan, Unseen, DriverInv
  <2>2. /\ events' = events /\ from' = from /\ cursor' = Len(events)
        /\ finished' <=> (finished \/ \E i \in Unseen : events[i].esc)
        /\ summary' <=> (summary \/ \E i \in Unseen : events[i].fin)
    BY <1>10 DEF Scan, dbVars
  <2> QED
    BY <1>1, <2>1, <2>2 DEF DriverInv
<1>11. CASE ModelText \/ ModelCalls \/ Respond
  BY <1>3, <1>11 DEF ModelText, ModelCalls, Respond, driverVars
<1>12. CASE Guarding
  BY <1>2, <1>12 DEF Guarding, dbVars, driverVars, viewVars
<1>13. CASE Tool
  BY <1>2, <1>13 DEF Tool, ToolReturns, CopyOut, dbVars, driverVars, viewVars
<1>14. CASE UNCHANGED vars
  BY <1>2, <1>14 DEF vars, dbVars, driverVars, viewVars
<1> QED
  BY <1>5, <1>6, <1>7, <1>8, <1>9, <1>10, <1>11, <1>12, <1>13, <1>14
     DEF Next, Driver, GuardStep, KillSwitch, TimeBudget, StepBudget, Denylist,
         LetThrough, Refuse

\* What the locals of the driver say holds at every point of every drive.
LEMMA DriverInvariant == Spec => []DriverInv
<1>1. Init => DriverInv
  BY DEF Init, DriverInv
<1> QED
  BY <1>1, TypeCorrect, DriverKept, PTL DEF Spec

\* The driver is finished exactly when one of the events of its drive escalated.
THEOREM DriverSeesEverything == Spec => []DriverMissesNothing
<1>1. DriverInv => DriverMissesNothing
  BY DEF DriverInv, DriverMissesNothing
<1> QED
  BY <1>1, DriverInvariant, PTL

-----------------------------------------------------------------------------
(* The artifacts                                                           *)

\* What an appended event adds to the reports.
LEMMA ReportsAfter ==
  ASSUME events \in Seq(Event), bornAt \in 0..Len(events), NEW e \in Event,
         events' = Append(events, e), bornAt' = bornAt
  PROVE  \A r \in Reports' :
           \/ r \in Reports /\ Reported(r)' = Reported(r)
           \/ /\ r = <<Len(events) + 1, r[2]>> /\ r[2] \in DOMAIN e.saved
              /\ e.saved[r[2]] # Nothing /\ Reported(r)' = e.saved[r[2]]
<1> SUFFICES ASSUME NEW r \in Reports'
             PROVE  \/ r \in Reports /\ Reported(r)' = Reported(r)
                    \/ /\ r = <<Len(events) + 1, r[2]>> /\ r[2] \in DOMAIN e.saved
                       /\ e.saved[r[2]] # Nothing /\ Reported(r)' = e.saved[r[2]]
  OBVIOUS
<1>1. /\ Len(events') = Len(events) + 1 /\ events'[Len(events) + 1] = e
      /\ \A i \in 1..Len(events) : events'[i] = events[i]
  OBVIOUS
<1>2. /\ r \in ((bornAt + 1)..(Len(events) + 1)) \X (1..MaxBatch)
      /\ r[2] \in DOMAIN events'[r[1]].saved /\ events'[r[1]].saved[r[2]] # Nothing
  BY <1>1 DEF Reports
<1>3. CASE r[1] = Len(events) + 1
  BY <1>1, <1>2, <1>3 DEF Reported
<1>4. CASE r[1] # Len(events) + 1
  <2>1. r[1] \in (bornAt + 1)..Len(events) /\ events'[r[1]] = events[r[1]]
    BY <1>1, <1>2, <1>4
  <2> QED
    BY <1>2, <2>1 DEF Reports, Reported
<1> QED
  BY <1>3, <1>4

\* Nothing is reported by an event that is not a response.
LEMMA PlainReports ==
  ASSUME events \in Seq(Event), bornAt \in 0..Len(events),
         events' = Append(events, Plain), bornAt' = bornAt
  PROVE  \A r \in Reports' : r \in Reports /\ Reported(r)' = Reported(r)
<1>1. Plain.saved = <<>>
  BY DEF Plain
<1> QED
  BY <1>1, PlainType, ReportsAfter

\* ArtifactInv is kept: a copy_out takes a version nobody has, and a response only
\* moves the versions of its batch into one event.
LEMMA ArtifactKept ==
  TypeOK /\ BatchInv /\ ArtifactInv /\ [Next]_vars => ArtifactInv'
<1> SUFFICES ASSUME DataOK, BatchInv, ArtifactInv, [Next]_vars PROVE ArtifactInv'
  BY DEF TypeOK
<1>1. /\ artifacts \in Nat /\ bornAt \in 0..Len(events) /\ events \in Seq(Event)
      /\ calls \in Seq(CallState)
  BY DEF DataOK
<1>2. ASSUME pc # "down", UNCHANGED artifacts,
             \A r \in Reports' : r \in Reports /\ Reported(r)' = Reported(r),
             \/ DOMAIN calls' = DOMAIN calls
                /\ \A k \in DOMAIN calls : calls'[k].ver = calls[k].ver
             \/ \A k \in DOMAIN calls' : calls'[k].ver = Nothing
      PROVE  ArtifactInv'
  BY <1>2 DEF ArtifactInv, ReportedArtifactsExist
<1>3. UNCHANGED <<events, bornAt>> =>
        Reports' = Reports /\ \A r : Reported(r)' = Reported(r)
  BY DEF Reports, Reported
<1>4. CASE Tick \/ UNCHANGED vars
  <2>1. UNCHANGED <<events, bornAt, pc, artifacts, calls>>
    BY <1>4 DEF Tick, vars, dbVars, batchVars, historyVars
  <2> QED
    BY <2>1, <1>3 DEF ArtifactInv, ReportedArtifactsExist
<1>5. CASE StartProcess
  <2>1. calls' = <<>> /\ (bornAt' + 1)..Len(events') = {}
    BY <1>1, <1>5 DEF StartProcess, BatchInv, dbVars, batchVars
  <2>2. Reports' = {}
    BY <2>1 DEF Reports
  <2> QED
    BY <2>1, <2>2 DEF ArtifactInv, ReportedArtifactsExist
<1>6. CASE Crash
  BY <1>6 DEF Crash, ArtifactInv, ReportedArtifactsExist
<1>7. CASE NewGoal \/ ModelText \/ ModelCalls
  <2>1. /\ events' = Append(events, Plain) /\ UNCHANGED <<bornAt, artifacts>>
        /\ pc # "down"
    BY <1>7 DEF NewGoal, ModelText, ModelCalls, historyVars
  <2>2. \A k \in DOMAIN calls' : calls'[k].ver = Nothing
    BY <1>7 DEF NewGoal, ModelText, ModelCalls, NewCall, BatchInv, batchVars
  <2> QED
    BY <1>1, <1>2, <2>1, <2>2, PlainReports
<1>8. CASE Resume \/ StartTurn \/ ReplayTurn \/ Scan \/ Return \/ Raise
  <2>1. /\ calls' = <<>> /\ UNCHANGED <<events, bornAt, artifacts>>
        /\ pc # "down"
    BY <1>8 DEF Resume, StartTurn, ReplayTurn, InLoop, Scan, Return, Raise,
                ForgetUnsaved, BatchInv, dbVars, batchVars, historyVars
  <2> QED
    BY <2>1, <1>2, <1>3
<1>9. CASE GuardStep
  <2>1. /\ UNCHANGED <<events, bornAt, artifacts>> /\ pc # "down"
        /\ guarded + 1 \in DOMAIN calls
    BY <1>1, <1>9 DEF GuardStep, KillSwitch, TimeBudget, StepBudget, Denylist,
                       LetThrough, Refuse, Guarding, DataOK, dbVars
  <2> DEFINE c == calls[guarded + 1]
             run == [c EXCEPT !.st = IF c.tool = "finish" THEN "done" ELSE "running",
                              !.esc = (c.tool = "finish")]
             no(esc) == [c EXCEPT !.st = "refused", !.esc = esc]
  <2>2. c \in CallState
    BY <1>1, <2>1, CallOfBatch
  <2>3. run.ver = c.ver /\ \A esc : no(esc).ver = c.ver
    BY <2>2 DEF CallState
  <2>4. \E d : d.ver = c.ver /\ calls' = [calls EXCEPT ![guarded + 1] = d]
    <3>1. CASE LetThrough
      <4>1. calls' = [calls EXCEPT ![guarded + 1] = run]
        BY <2>1, <2>2, <3>1 DEF LetThrough, CallState
      <4> QED
        BY <4>1, <2>3
    <3>2. ASSUME NEW esc, Refuse(esc)
          PROVE  \E d : d.ver = c.ver /\ calls' = [calls EXCEPT ![guarded + 1] = d]
      <4>1. calls' = [calls EXCEPT ![guarded + 1] = no(esc)]
        BY <2>1, <2>2, <3>2 DEF Refuse, CallState
      <4> QED
        BY <4>1, <2>3
    <3> QED
      BY <1>9, <3>1, <3>2
         DEF GuardStep, KillSwitch, TimeBudget, StepBudget, Denylist
  <2> HIDE DEF c
  <2>5. DOMAIN calls' = DOMAIN calls
        /\ \A k \in DOMAIN calls : calls'[k].ver = calls[k].ver
    BY <1>1, <2>1, <2>4 DEF c
  <2> QED
    BY <1>2, <1>3, <2>1, <2>5
<1>10. CASE Tool
  <2>1. PICK i \in DOMAIN calls : ToolReturns(i) \/ CopyOut(i)
    BY <1>10 DEF Tool
  <2>2. pc # "down" /\ UNCHANGED <<pc, events, bornAt>>
    BY <2>1 DEF ToolReturns, CopyOut, dbVars, historyVars
  <2>3. CASE ToolReturns(i)
    <3>1. DOMAIN calls' = DOMAIN calls
          /\ \A k \in DOMAIN calls : calls'[k].ver = calls[k].ver
      BY <1>1, <2>1, <2>3, CallOfBatch DEF ToolReturns, CallState
    <3> QED
      BY <1>2, <1>3, <2>2, <2>3, <3>1 DEF ToolReturns
  <2>4. CASE CopyOut(i)
    <3>1. /\ DOMAIN calls' = DOMAIN calls /\ artifacts' = artifacts + 1
          /\ calls'[i].ver = artifacts
          /\ \A k \in DOMAIN calls : k # i => calls'[k].ver = calls[k].ver
      <4> DEFINE c == [calls[i] EXCEPT !.st = "done", !.ver = artifacts]
      <4>1. calls' = [calls EXCEPT ![i] = c] /\ artifacts' = artifacts + 1
        BY <2>4 DEF CopyOut
      <4>2. c.ver = artifacts
        BY <1>1, <2>1, CallOfBatch DEF CallState
      <4> HIDE DEF c
      <4> QED
        BY <1>1, <2>1, <4>1, <4>2
    <3>2. /\ \A r \in Reports : Reported(r) < artifacts
          /\ \A r, q \in Reports : Reported(r) = Reported(q) => r = q
      BY <2>2 DEF ArtifactInv, ReportedArtifactsExist
    <3>3. \A r \in Reports : Reported(r) \in Nat
      <4> SUFFICES ASSUME NEW r \in Reports PROVE Reported(r) \in Nat
        OBVIOUS
      <4>1. r[1] \in 1..Len(events) /\ r[2] \in DOMAIN events[r[1]].saved
            /\ Reported(r) = events[r[1]].saved[r[2]] /\ Reported(r) # Nothing
        BY <1>1 DEF Reports, Reported
      <4>2. events[r[1]] \in Event
        BY <1>1, <4>1
      <4>3. events[r[1]].saved \in Seq(Nat \cup {Nothing})
        BY <4>2 DEF Event
      <4> QED
        BY <4>1, <4>3
    <3>4. ReportedArtifactsExist'
      BY <1>1, <1>3, <2>2, <3>1, <3>2, <3>3 DEF ReportedArtifactsExist
    <3>5. \A k \in DOMAIN calls :
            calls[k].ver # Nothing =>
              /\ calls[k].ver \in Nat /\ calls[k].ver < artifacts
              /\ \A r \in Reports : Reported(r) # calls[k].ver
      BY <1>1, <2>2, CallOfBatch DEF ArtifactInv
    <3>6. \A k, l \in DOMAIN calls :
            calls[k].ver # Nothing /\ calls[k].ver = calls[l].ver => k = l
      BY <2>2 DEF ArtifactInv
    <3>7. \A k \in DOMAIN calls' : calls'[k].ver # Nothing =>
            /\ calls'[k].ver < artifacts'
            /\ \A r \in Reports' : Reported(r)' # calls'[k].ver
      BY <1>1, <1>3, <2>2, <3>1, <3>2, <3>3, <3>5
    <3>8. \A k, l \in DOMAIN calls' :
            calls'[k].ver # Nothing /\ calls'[k].ver = calls'[l].ver => k = l
      BY <1>1, <2>1, <3>1, <3>5, <3>6
    <3> QED
      BY <3>4, <3>7, <3>8 DEF ArtifactInv
  <2> QED
    BY <2>1, <2>3, <2>4
<1>11. CASE Respond
  <2>1. /\ events' = Append(events, Response) /\ calls' = <<>> /\ pc # "down"
        /\ UNCHANGED <<bornAt, artifacts>>
    BY <1>11 DEF Respond, historyVars
  <2>2. DOMAIN Response.saved = DOMAIN calls
        /\ \A k \in DOMAIN calls : Response.saved[k] = calls[k].ver
    BY DEF Response
  <2>3. \A r \in Reports' :
          \/ r \in Reports /\ Reported(r)' = Reported(r)
          \/ /\ r = <<Len(events) + 1, r[2]>> /\ r[2] \in DOMAIN calls
             /\ calls[r[2]].ver # Nothing /\ Reported(r)' = calls[r[2]].ver
    BY <1>1, <2>1, <2>2, ResponseType, ReportsAfter
  <2>4. \A r \in Reports' : Reported(r)' < artifacts'
    BY <2>1, <2>3 DEF ArtifactInv, ReportedArtifactsExist
  <2>5. \A r, q \in Reports' : Reported(r)' = Reported(q)' => r = q
    BY <2>1, <2>3 DEF ArtifactInv, ReportedArtifactsExist
  <2> QED
    BY <2>1, <2>4, <2>5 DEF ArtifactInv, ReportedArtifactsExist
<1> QED
  BY <1>4, <1>5, <1>6, <1>7, <1>8, <1>9, <1>10, <1>11 DEF Next, Driver

\* As long as its process lives, a version that a copy_out reported is stored, and no
\* other copy_out reported it, of the same batch or of any other.
THEOREM ReportedVersionsAreStored == Spec => []ReportedArtifactsExist
<1>1. Init => ArtifactInv
  BY DEF Init, ArtifactInv, ReportedArtifactsExist
<1>2. ArtifactInv => ReportedArtifactsExist
  BY DEF ArtifactInv
<1> QED
  BY <1>1, <1>2, TypeCorrect, BudgetCorrect, ArtifactKept, PTL DEF Spec

-----------------------------------------------------------------------------
(* Escalations and resumes                                                 *)

\* No event of the invocation has escalated yet.
NothingEscalated == \A i \in (goalAt + 1)..Len(events) : ~events[i].esc

\* What the drive skips of its invocation has no escalation in it.
SkipInv ==
  /\ goalAt <= from
  /\ \A i \in (goalAt + 1)..from : ~events[i].esc

LEMMA SkipKept ==
  ASSUME TypeOK, SkipInv, [Next]_vars, Resume => NothingEscalated
  PROVE  SkipInv'
<1>1. from \in 0..Len(events) /\ goalAt \in 0..Len(events) /\ Len(events) \in Nat
  BY DEF TypeOK, DataOK
<1>2. ASSUME UNCHANGED <<from, goalAt>>,
             events' = events \/ \E e : events' = Append(events, e)
      PROVE  SkipInv'
  <2>1. CASE events' = events
    BY <1>2, <2>1 DEF SkipInv
  <2>2. ASSUME NEW e, events' = Append(events, e)
        PROVE  SkipInv'
    <3>1. \A i \in (goalAt + 1)..from : events'[i] = events[i]
      BY <1>1, <2>2 DEF TypeOK, DataOK
    <3> QED
      BY <1>2, <3>1 DEF SkipInv
  <2> QED
    BY <1>2, <2>1, <2>2
<1>3. CASE NewGoal
  <2>1. goalAt' = Len(events') /\ from' = Len(events') /\ Len(events') \in Nat
    BY <1>1, <1>3 DEF NewGoal, EnterDrive, TypeOK, DataOK
  <2> QED
    BY <2>1 DEF SkipInv
<1>4. CASE Resume
  <2>1. goalAt' = goalAt /\ from' = Len(events) /\ events' = events
    BY <1>4 DEF Resume, EnterDrive, dbVars, historyVars
  <2> QED
    BY <1>1, <1>4, <2>1 DEF SkipInv, NothingEscalated
<1>5. CASE Tick \/ StartProcess \/ Crash \/ Raise \/ Driver \/ Tool \/ UNCHANGED vars
  BY <1>2, <1>5
  DEF Tick, StartProcess, Crash, Raise, ForgetUnsaved, Driver, StartTurn, ReplayTurn, Scan, Return,
      Tool, ToolReturns, CopyOut, dbVars, driverVars, historyVars, vars
<1>6. CASE ModelText \/ ModelCalls \/ Respond
  BY <1>2, <1>6 DEF ModelText, ModelCalls, Respond, driverVars, historyVars
<1>7. CASE Guarding
  BY <1>2, <1>7 DEF Guarding, dbVars, driverVars
<1> QED
  BY <1>3, <1>4, <1>5, <1>6, <1>7
     DEF Next, GuardStep, KillSwitch, TimeBudget, StepBudget, Denylist, LetThrough, Refuse

\* agent.py:14, as far as it is true: if no invocation is resumed after an event of it
\* has escalated, no turn starts after an escalation, over all crashes and resumes.
THEOREM EscalationEndsUnlessResumed ==
  Spec /\ [][Resume => NothingEscalated]_vars => EscalationEndsTheLoop
<1>1. Init => SkipInv
  BY DEF Init, SkipInv
<1>2. TypeOK /\ SkipInv /\ [Next]_vars /\ [Resume => NothingEscalated]_vars => SkipInv'
  <2>1. CASE UNCHANGED vars
    BY <2>1 DEF vars, dbVars, driverVars, historyVars, SkipInv
  <2> QED
    BY <2>1, SkipKept
<1>3. ASSUME TypeOK, DriverInv, SkipInv, [Next]_vars, pc = "loop", pc' = "model",
             NEW i \in (goalAt + 1)..Len(events)
      PROVE  ~events[i].esc
  <2>1. StartTurn
    BY <1>3 DEF Next, Tick, StartProcess, NewGoal, Resume, Crash, Raise, Driver, ReplayTurn, Scan,
       Return, ModelText, ModelCalls, GuardStep, KillSwitch, TimeBudget, StepBudget, Denylist,
       LetThrough, Refuse, Guarding, Tool, ToolReturns, CopyOut, Respond, EnterDrive, vars
  <2>2. ~finished /\ cursor = Len(events)
    BY <1>3, <2>1 DEF StartTurn, InLoop, DriverInv
  <2>3. /\ from \in 0..Len(events) /\ goalAt \in 0..Len(events) /\ Len(events) \in Nat
        /\ i \in (goalAt + 1)..from \/ i \in (from + 1)..Len(events)
    BY <1>3 DEF TypeOK, DataOK
  <2> QED
    BY <1>3, <2>2, <2>3 DEF DriverInv, SkipInv
<1>4. TypeOK /\ DriverInv /\ SkipInv /\ [Next]_vars
        => [pc = "loop" /\ pc' = "model"
              => \A i \in (goalAt + 1)..Len(events) : ~events[i].esc]_vars
  BY <1>3
<1> QED
  BY <1>1, <1>2, <1>4, TypeCorrect, DriverInvariant, PTL DEF Spec, EscalationEndsTheLoop
=============================================================================
