------------------------- MODULE AgentRunRefinement --------------------------
(***************************************************************************)
(* AgentRun implements BoundedLoop: the initial states map to initial      *)
(* states, and every step maps to a step of the loop or to a stutter.      *)
(*                                                                         *)
(* The mapping reads "over" off the events, and the driver decides by its  *)
(* own flag: that the two agree at the head of the loop is DriverInv.      *)
(***************************************************************************)
EXTENDS AgentRunProofs

\* The place of the abstract loop, and whether an event of the drive escalates.
LoopPlace == IF pc \in {"down", "idle"} THEN "out"
             ELSE IF pc = "loop" THEN "head" ELSE "turn"

LoopOver == \E i \in (from + 1)..Len(events) : events[i].esc

\* A step that stays at its place and leaves the locals, the events and the debt
\* alone is a stutter.
LEMMA LoopStutters ==
  ASSUME LoopPlace' = LoopPlace, UNCHANGED <<step, from, events, open>>
  PROVE  UNCHANGED Loop!vars
BY DEF Loop!vars, LoopPlace, LoopOver

\* An event appended in a turn escalates, or changes nothing for the loop.
LEMMA EventInTurn ==
  ASSUME TypeOK, NEW e \in Event, events' = Append(events, e),
         LoopPlace = "turn", LoopPlace' = "turn", UNCHANGED <<step, from, open>>
  PROVE  [Loop!Next]_(Loop!vars)
<1>1. events \in Seq(Event) /\ from \in 0..Len(events)
  BY DEF TypeOK, DataOK
<1>2. LoopOver' <=> LoopOver \/ e.esc
  BY <1>1 DEF LoopOver
<1>3. CASE e.esc
  BY <1>2, <1>3 DEF Loop!Next, Loop!Escalate, LoopPlace, LoopOver
<1>4. CASE ~e.esc
  <2>1. LoopOver' <=> LoopOver
    BY <1>2, <1>4
  <2> QED
    BY <2>1 DEF Loop!vars, LoopPlace, LoopOver
<1> QED
  BY <1>3, <1>4

\* A drive begins with no event of its own.
LEMMA DriveBegins ==
  ASSUME TypeOK, pc = "idle", EnterDrive(Len(events')), open'
  PROVE  Loop!Begin
<1>1. ~LoopOver'
  BY DEF LoopOver, EnterDrive
<1> QED
  BY <1>1 DEF Loop!Begin, LoopOver, EnterDrive

\* A drive that fails leaves everything but its place.
LEMMA DriveFails ==
  ASSUME pc # "down", pc # "idle", pc' \in {"down", "idle"},
         UNCHANGED <<step, from, events, open>>
  PROVE  Loop!Fail
BY DEF Loop!Fail, LoopPlace

\* Every step of the agent is a step of the loop, or none.
LEMMA StepsOfTheLoop ==
  TypeOK /\ DriverInv /\ [Next]_vars => [Loop!Next]_(Loop!vars)
<1> SUFFICES ASSUME TypeOK, DriverInv, [Next]_vars
             PROVE  [Loop!Next]_(Loop!vars)
  OBVIOUS
<1>t. /\ step \in Nat /\ events \in Seq(Event) /\ pc \in Places
      /\ open \in BOOLEAN /\ MaxIterations \in Nat
  BY AgentRunAssumption DEF TypeOK, FlagsOK, DataOK, AgentRunAssumption
<1>f. pc = "loop" => (finished <=> LoopOver)
  BY DEF DriverInv, LoopOver
<1>1. CASE Tick \/ StartProcess
  BY <1>1, LoopStutters DEF Tick, StartProcess, LoopPlace, dbVars, driverVars
<1>2. CASE NewGoal
  BY <1>2, DriveBegins DEF NewGoal, Loop!Next
<1>3. CASE Resume
  BY <1>3, DriveBegins DEF Resume, dbVars, EnterDrive, Loop!Next
<1>4. CASE Crash
  <2>1. CASE pc = "idle"
    BY <1>4, <2>1, LoopStutters
       DEF Crash, ForgetUnsaved, LoopPlace, dbVars, driverVars
  <2> QED
    BY <1>4, <2>1, DriveFails DEF Crash, ForgetUnsaved, dbVars, driverVars, Loop!Next
<1>5. CASE Raise
  BY <1>5, DriveFails DEF Raise, ForgetUnsaved, dbVars, driverVars, Loop!Next
<1>6. CASE StartTurn \/ ReplayTurn
  <2>1. /\ pc = "loop" /\ step < MaxIterations /\ ~LoopOver
        /\ pc' \in {"model", "scan"}
        /\ UNCHANGED <<step, from, events, open>>
    BY <1>6, <1>f DEF StartTurn, ReplayTurn, InLoop, dbVars, driverVars
  <2>2. Loop!Turn
    BY <2>1 DEF Loop!Turn, LoopOver
  <2> QED
    BY <2>2 DEF Loop!Next
<1>7. CASE Scan
  <2>1. /\ pc = "scan" /\ pc' = "loop" /\ step' = step + 1
        /\ UNCHANGED <<from, events, open>>
    BY <1>7 DEF Scan, dbVars
  <2>2. Loop!TurnEnds
    BY <2>1 DEF Loop!TurnEnds
  <2> QED
    BY <2>2 DEF Loop!Next
<1>8. CASE Return
  <2>1. /\ pc = "loop" /\ pc' = "idle" /\ (LoopOver \/ step >= MaxIterations)
        /\ open' = FALSE /\ UNCHANGED <<step, from, events>>
    BY <1>8, <1>f DEF Return, driverVars
  <2>2. Loop!Answer
    BY <2>1 DEF Loop!Answer, LoopOver
  <2> QED
    BY <2>2 DEF Loop!Next
<1>9. CASE ModelText \/ ModelCalls
  BY <1>9, EventInTurn, PlainType DEF ModelText, ModelCalls, LoopPlace, driverVars
<1>10. CASE GuardStep
  <2>1. Guarding
    BY <1>10 DEF GuardStep, KillSwitch, TimeBudget, StepBudget, Denylist, LetThrough,
                 Refuse
  <2> QED
    BY <2>1, LoopStutters DEF Guarding, LoopPlace, dbVars, driverVars
<1>11. CASE Tool
  BY <1>11, LoopStutters DEF Tool, ToolReturns, CopyOut, LoopPlace, dbVars, driverVars
<1>12. CASE Respond
  <2>1. Response \in Event
    BY ResponseType DEF TypeOK, DataOK
  <2> QED
    BY <1>12, <2>1, EventInTurn DEF Respond, LoopPlace, driverVars
<1>13. CASE UNCHANGED vars
  BY <1>13, LoopStutters DEF vars, LoopPlace, dbVars, driverVars
<1> QED
  BY <1>1, <1>2, <1>3, <1>4, <1>5, <1>6, <1>7, <1>8, <1>9, <1>10, <1>11, <1>12,
     <1>13 DEF Next, Driver

\* The driver, with its cursor, its flags and its resume, is a bounded loop: for
\* every budget, batch size and number of failures, a drive asks for at most
\* AGENT_MAX_ITERATIONS turns, for none after an escalation, and answers only when
\* one of the two ended it (agent.py:90-118).
THEOREM DriverIsABoundedLoop == Spec => KeepsTheLoop
<1>1. Init => Loop!Init
  BY DEF Init, Loop!Init
<1>2. TypeOK /\ DriverInv /\ [Next]_vars => [Loop!Next]_(Loop!vars)
  BY StepsOfTheLoop
<1> QED
  BY <1>1, <1>2, TypeCorrect, DriverInvariant, PTL DEF Spec, KeepsTheLoop, Loop!Spec
=============================================================================
