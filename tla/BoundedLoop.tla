---------------------------- MODULE BoundedLoop ------------------------------
(***************************************************************************)
(* What _drive in control_plane/agent.py promises, whatever the worker,    *)
(* its tools, the session and the process do: a drive asks the worker for  *)
(* at most MaxTurns turns and for none after an escalation of its own      *)
(* events; and it answers the goal only when one of the two has ended it.  *)
(* A drive may fail at any point; a goal that got no answer may be driven  *)
(* again, from its first turn.                                             *)
(***************************************************************************)
EXTENDS Naturals

CONSTANT MaxTurns

VARIABLES
  place, \* no drive, at the head of the loop, or in a turn of the worker
  turns, \* turns this drive has completed
  over,  \* an event since this drive began escalates
  owed   \* a goal has no answer yet

vars == <<place, turns, over, owed>>

Init == place = "out" /\ turns = 0 /\ ~over /\ ~owed

\* For a new goal, or again for one that is owed.
Begin ==
  /\ place = "out"
  /\ place' = "head"
  /\ turns' = 0
  /\ over' = FALSE
  /\ owed' = TRUE

Turn ==
  /\ place = "head"
  /\ turns < MaxTurns
  /\ ~over
  /\ place' = "turn"
  /\ UNCHANGED <<turns, over, owed>>

\* Only what happens in a turn can end the loop.
Escalate ==
  /\ place = "turn"
  /\ over' = TRUE
  /\ UNCHANGED <<place, turns, owed>>

TurnEnds ==
  /\ place = "turn"
  /\ place' = "head"
  /\ turns' = turns + 1
  /\ UNCHANGED <<over, owed>>

Answer ==
  /\ place = "head"
  /\ over \/ turns >= MaxTurns
  /\ place' = "out"
  /\ owed' = FALSE
  /\ UNCHANGED <<turns, over>>

\* A crash or an exception: no answer.
Fail ==
  /\ place # "out"
  /\ place' = "out"
  /\ UNCHANGED <<turns, over, owed>>

Next == Begin \/ Turn \/ Escalate \/ TurnEnds \/ Answer \/ Fail

Spec == Init /\ [][Next]_vars
=============================================================================
