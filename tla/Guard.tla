------------------------------- MODULE Guard --------------------------------
(***************************************************************************)
(* control_plane/guard.py: before_tool_guard, which every tool call of the *)
(* worker passes before the tool runs.  Its two counters, guard:steps and  *)
(* guard:start_ts, live in the state of the session, so they outlive the   *)
(* process; the copies here are the ones of the process that holds the     *)
(* session, and the module that composes the guard says when they reach    *)
(* the database.                                                           *)
(*                                                                         *)
(* The handler is synchronous (no await), so each of its five outcomes is  *)
(* one step.  Each operator below is the whole outcome on the guard's own  *)
(* state, in the order of the early returns of the code.                   *)
(***************************************************************************)
EXTENDS Integers

CONSTANTS
  MaxSteps,   \* AGENT_MAX_STEPS
  MaxSeconds  \* AGENT_MAX_SECONDS; a test of the repository makes it negative

ASSUME GuardAssumption == MaxSteps \in Nat /\ MaxSeconds \in Int

VARIABLES
  now,    \* time.time()
  kill,   \* AGENT_KILL_SWITCH = "1" in the environment of this process
  steps,  \* state["guard:steps"], 0 when absent
  start   \* state["guard:start_ts"], Unset when absent

guardVars == <<steps, start>>

Unset == -1

\* What a model may ask for, as far as the guard and the driver tell it apart:
\* a harmless sandbox call, a run_shell whose command matches a denied pattern,
\* a copy_out, and finish.
Tools == {"shell", "denied", "copy", "finish"}

\* The time the budget counts from: recorded by the first call that gets here.
StartedAt == IF start = Unset THEN now ELSE start

TimeIsUp == now - StartedAt > MaxSeconds

HaltByKill == kill /\ UNCHANGED guardVars

\* The time is checked before the call is counted.
HaltByTime ==
  /\ ~kill
  /\ TimeIsUp
  /\ start' = StartedAt
  /\ UNCHANGED steps

Counted ==
  /\ ~kill
  /\ ~TimeIsUp
  /\ start' = StartedAt
  /\ steps' = steps + 1

HaltBySteps == Counted /\ steps' > MaxSteps

\* A denied command has been counted, and does not escalate.
DenyCommand(tool) == Counted /\ steps' <= MaxSteps /\ tool = "denied"

\* Mutant: the budget is one call too large.
AllowOneMore(tool) == Counted /\ steps' <= MaxSteps + 1 /\ tool # "denied"

AllowCall(tool) == Counted /\ steps' <= MaxSteps /\ tool # "denied"
=============================================================================
