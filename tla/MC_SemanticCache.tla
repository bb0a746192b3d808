-------------------------- MODULE MC_SemanticCache --------------------------
(***************************************************************************)
(* SemanticCache with up to four processes, two tasks and a few requests.  *)
(***************************************************************************)
EXTENDS SemanticCache, TLC

CONSTANTS p1, p2, p3, p4, t1, t2

Symmetry == Permutations(Tasks)

Say(role, text) == [role |-> role, text |-> text, data |-> {}]

Act(role, data) == [role |-> role, text |-> NoText, data |-> {data}]

\* The worker is given its goal.
Goal == [sys |-> "worker", contents |-> <<Say("user", "goal")>>,
         tools |-> {"run_shell", "finish"}, model |-> "openai/m"]

\* The same turn, one tool call later.
Observed == [Goal EXCEPT !.contents =
               @ \o <<Act("model", "call"), Act("user", "result")>>]

\* Another agent, with another instruction and other tools, given the same goal.
Reviewer == [Goal EXCEPT !.sys = "reviewer", !.tools = {"read_file"}]

\* An agent that differs from the worker by a word of its instruction and a tool.
Sibling == [Goal EXCEPT !.sys = "careful worker", !.tools = @ \cup {"copy_out"}]

\* The worker with another model.
OtherModel == [Goal EXCEPT !.model = "openai/n"]

\* Nothing to render.
Blank == [sys |-> NoText, contents |-> <<>>, tools |-> {}, model |-> "openai/m"]

WorkerOnly == {Goal, Observed}
TwoAgents == {Goal, Reviewer}
Siblings == {Goal, Sibling}
Agents == {Goal, Sibling, Reviewer}
TwoModels == {Goal, Sibling, OtherModel, Blank}

OneEmbedder == (p1 :> 768) @@ (p2 :> 768)
TwoEmbedders == (p1 :> 768) @@ (p2 :> 1024)

\* Also one with a wrong REDIS_URL, and one whose cache is off.
FourSetups == TwoEmbedders @@ [p \in {p3, p4} |-> 768]

\* Every character but letters and digits becomes an underscore.
TagOf(model) ==
  CASE model = "openai/m" -> "openai_m"
    [] model = "openai/n" -> "openai_n"
    [] OTHER -> model

\* Different prompts are far apart.
SimFar(c, d) == IF c = d THEN 100 ELSE 40

\* The worker and its sibling say almost the same.
SimNear(c, d) ==
  CASE c = d -> 100
    [] c # d /\ {c.sys, d.sys} = {"worker", "careful worker"} -> 98
    [] OTHER -> 40

\* Rounded: the identical prompt is just below 1, and its sibling is as near.
SimRounded(c, d) ==
  IF c = d \/ {c.sys, d.sys} = {"worker", "careful worker"} THEN 99 ELSE 40
=============================================================================
