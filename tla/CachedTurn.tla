----------------------------- MODULE CachedTurn ------------------------------
(***************************************************************************)
(* The driver of control_plane/agent.py and the guard with the semantic    *)
(* cache between the worker and its model: AgentRun and SemanticCache,     *)
(* composed over what they have in common, one drive of one goal.          *)
(*                                                                         *)
(* A request of the worker has one of two prompts, the goal or _CONTINUE:  *)
(* function calls and their results are not rendered, and a turn does not  *)
(* see the turns before.  So the cache cannot tell the first request of a  *)
(* turn from a later one.  As in AgentRun, the worker's turn ends with an  *)
(* answer in plain text only.                                              *)
(***************************************************************************)
EXTENDS Naturals

CONSTANTS
  MaxSteps,    \* AGENT_MAX_STEPS
  MaxTurns,    \* AGENT_MAX_ITERATIONS
  MaxExpiries  \* bound: entries that expire during the drive

ASSUME CachedTurnAssumption ==
  {MaxSteps, MaxTurns, MaxExpiries} \subseteq Nat

VARIABLES
  cacheOn,   \* SEMANTIC_CACHE_ENABLED, as the process found it
  place,     \* "new" goal, "head" of the loop, "model" asked, "tool" called, or "over"
  turn,      \* turns completed
  steps,     \* calls the guard has counted, up to one more than it allows
  escalated, \* an event of the drive escalates
  cached,    \* [Prompts -> the answer in Redis, or "none"]
  expiries

vars == <<cacheOn, place, turn, steps, escalated, cached, expiries>>

Prompts == {"goal", "continue"}
Answers == {"call", "text"}

Init ==
  /\ cacheOn \in BOOLEAN
  /\ place = "new" /\ turn = 0 /\ steps = 0 /\ escalated = FALSE
  /\ cached = [p \in Prompts |-> "none"]
  /\ expiries = 0

\* The worker's input, which is all that its prompts differ in.
Prompt == IF turn = 0 THEN "goal" ELSE "continue"

\* _drive starts: finished is False, nothing has been asked.
Drive ==
  /\ place = "new"
  /\ place' = "head"
  /\ UNCHANGED <<cacheOn, turn, steps, escalated, cached, expiries>>

Begin ==
  /\ place = "head"
  /\ turn < MaxTurns
  /\ ~escalated
  /\ place' = "model"
  /\ UNCHANGED <<cacheOn, turn, steps, escalated, cached, expiries>>

Return ==
  /\ place = "head"
  /\ turn >= MaxTurns \/ escalated
  /\ place' = "over"
  /\ UNCHANGED <<cacheOn, turn, steps, escalated, cached, expiries>>

\* Mutant: a turn is not counted when it is over.
TakeUncounted(answer) ==
  /\ place' = IF answer = "text" THEN "head" ELSE "tool"
  /\ UNCHANGED turn

\* Plain text ends the turn; otherwise a tool is called.
Take(answer) ==
  /\ place' = IF answer = "text" THEN "head" ELSE "tool"
  /\ turn' = IF answer = "text" THEN turn + 1 ELSE turn

Hits == cacheOn /\ cached[Prompt] # "none"

\* before_model_callback returns the answer that is stored under this prompt.
Serve ==
  /\ place = "model"
  /\ Hits
  /\ Take(cached[Prompt])
  /\ UNCHANGED <<cacheOn, steps, escalated, cached, expiries>>

\* A miss: the model answers what it likes, and after_model_callback stores it.
Ask(answer) ==
  /\ place = "model"
  /\ ~Hits
  /\ Take(answer)
  /\ cached' = IF cacheOn THEN [cached EXCEPT ![Prompt] = answer] ELSE cached
  /\ UNCHANGED <<cacheOn, steps, escalated, expiries>>

Run ==
  /\ place = "tool"
  /\ steps < MaxSteps
  /\ steps' = steps + 1
  /\ \E finish \in BOOLEAN : escalated' = (escalated \/ finish)
  /\ place' = "model"
  /\ UNCHANGED <<cacheOn, turn, cached, expiries>>

\* The guard's dict is the result of the call, and the worker goes on with it.
Refuse ==
  /\ place = "tool"
  /\ steps >= MaxSteps
  /\ steps' = MaxSteps + 1
  /\ escalated' = TRUE
  /\ place' = "model"
  /\ UNCHANGED <<cacheOn, turn, cached, expiries>>

Expire(p) ==
  /\ cached[p] # "none"
  /\ expiries < MaxExpiries
  /\ expiries' = expiries + 1
  /\ cached' = [cached EXCEPT ![p] = "none"]
  /\ UNCHANGED <<cacheOn, place, turn, steps, escalated>>

Step == Drive \/ Begin \/ Return \/ Serve \/ Run \/ Refuse \/ \E a \in Answers : Ask(a)

Next == Step \/ \E p \in Prompts : Expire(p)

Spec == Init /\ [][Next]_vars

\* As in AgentRun: what can run does, and a model that is asked again and again
\* answers in plain text some day.
FairSpec == Spec /\ WF_vars(Step) /\ SF_vars(Ask("text"))
-----------------------------------------------------------------------------
(* Properties                                                              *)

\* agent.py:14, "The loop terminates when an event escalates [...] or when the step
\* budget is hit".  It holds without the cache, and is violated with it: a
\* cached tool call is served again after each of its results and after each
\* refusal of the guard, the model is never asked, and the turn never ends.
DriveEnds == <>(place = "over")

\* And only that can keep a drive from its end: one that does not end is served the
\* same stored call for good, whatever the model, the guard and the expiries do.
\* (A time to live that does expire interrupts it: the model is asked once, and
\* what it answers is stored again.)
EndsUnlessACallIsServed ==
  <>(place = "over") \/ <>[](Hits /\ cached[Prompt] = "call")
=============================================================================
