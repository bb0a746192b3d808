---------------------------- MODULE Capabilities -----------------------------
(***************************************************************************)
(* control_plane/capabilities.py: what a process of the control plane      *)
(* offers its model besides the sandbox tools, from the folders of skills/ *)
(* and the blocks of config/mcp_servers.yaml.                              *)
(*                                                                         *)
(* agent.py loads them once, when it is imported: first the skills, then   *)
(* the registry.  The operator edits both at any time.  MCP servers and    *)
(* their verbs are external, as is McpToolset, which offers the verbs that *)
(* tool_filter names, or all of them when there is no tool_filter.         *)
(***************************************************************************)
EXTENDS Naturals

CONSTANTS
  Procs,    \* processes that load the capabilities
  Folders,  \* names under skills/
  Servers,  \* names under "servers:"
  Verbs(_), \* what a server can do
  Planes,   \* the placements of the registry
  Plane,    \* [Procs -> the plane it loads for, or AnyPlane]
  AnyPlane, \* plane=None
  MaxEdits  \* bound: edits of the operator

ASSUME CapabilitiesAssumption ==
  /\ AnyPlane \notin Planes /\ MaxEdits \in Nat
  /\ \A p \in Procs : Plane[p] \in Planes \cup {AnyPlane}

VARIABLES
  skills,   \* [Folders -> what is in the folder]
  registry, \* [Servers -> its block, Null for an empty one, or None]
  malformed, \* the registry is no YAML
  pc,       \* [Procs -> "down", "registry" (the skills are loaded) or "up"]
  known,    \* [Procs -> the skills of its SkillToolset]
  toolsets, \* [Procs -> the blocks it has built toolsets of]
  edits

vars == <<skills, registry, malformed, pc, known, toolsets, edits>>

None == [none |-> TRUE]

\* A name with nothing under it.
Null == [null |-> TRUE]

\* No folder, one without SKILL.md, a skill, or a SKILL.md that ADK refuses.
FolderStates == {"absent", "bare", "skill", "refused"}

Names == UNION {Verbs(s) : s \in Servers}

\* "filter" is {} when tool_filter is empty or not there.
Block == [enabled   : BOOLEAN,
          placement : Planes,
          command   : BOOLEAN,
          filter    : SUBSET Names]

Init ==
  /\ skills \in [Folders -> {"absent", "skill"}]
  /\ registry = [s \in Servers |-> None]
  /\ malformed = FALSE
  /\ pc = [p \in Procs |-> "down"]
  /\ known = [p \in Procs |-> {}]
  /\ toolsets = [p \in Procs |-> [s \in Servers |-> None]]
  /\ edits = 0

Edit == edits < MaxEdits /\ edits' = edits + 1

EditSkill(f, state) ==
  /\ Edit
  /\ skills' = [skills EXCEPT ![f] = state]
  /\ UNCHANGED <<registry, malformed, pc, known, toolsets>>

EditBlock(s, block) ==
  /\ Edit
  /\ registry' = [registry EXCEPT ![s] = block]
  /\ UNCHANGED <<skills, malformed, pc, known, toolsets>>

\* An edit that breaks the syntax of the file, or mends it.
EditSyntax ==
  /\ Edit
  /\ malformed' = ~malformed
  /\ UNCHANGED <<skills, registry, pc, known, toolsets>>

-----------------------------------------------------------------------------
(* load_capabilities                                                       *)

Go(p, place) == pc' = [pc EXCEPT ![p] = place]

\* load_skill_toolset.
LoadSkills(p) ==
  /\ pc[p] = "down"
  /\ \A f \in Folders : skills[f] # "refused"
  /\ Go(p, "registry")
  /\ known' = [known EXCEPT ![p] = {f \in Folders : skills[f] = "skill"}]
  /\ UNCHANGED <<skills, registry, malformed, toolsets, edits>>

Placed(p, s) == Plane[p] \in {AnyPlane, registry[s].placement}

\* Mutant: a block is dropped later, for its empty toolset, when it is not enabled.
SelectedOff(p) == {s \in Servers : registry[s] \notin {None, Null} /\ Placed(p, s)}

Selected(p) ==
  {s \in Servers : /\ registry[s] \notin {None, Null}
                   /\ registry[s].enabled /\ Placed(p, s)}

\* safe_load raises, or block.get of an empty block, or block["command"].
Raises(p) ==
  \/ malformed
  \/ \E s \in Servers : registry[s] = Null
  \/ \E s \in Selected(p) : ~registry[s].command

\* load_mcp_toolsets: one toolset of each enabled block of this plane.
LoadServers(p) ==
  /\ pc[p] = "registry"
  /\ ~Raises(p)
  /\ Go(p, "up")
  /\ toolsets' = [toolsets EXCEPT ![p] =
                    [s \in Servers |-> IF s \in Selected(p) THEN registry[s] ELSE None]]
  /\ UNCHANGED <<skills, registry, malformed, known, edits>>

\* Mutant: the toolsets built before the bad block are kept.
RaisesHalfway(p) ==
  /\ pc[p] = "registry"
  /\ Raises(p)
  /\ Go(p, "down")
  /\ known' = [known EXCEPT ![p] = {}]
  /\ toolsets' = [toolsets EXCEPT ![p] =
                    [s \in Servers |-> IF s \in Selected(p) THEN registry[s] ELSE None]]
  /\ UNCHANGED <<skills, registry, malformed, edits>>

\* The exception ends the import of agent.py.
LoadFails(p) ==
  /\ pc[p] = "registry"
  /\ Raises(p)
  /\ Go(p, "down")
  /\ known' = [known EXCEPT ![p] = {}]
  /\ UNCHANGED <<skills, registry, malformed, toolsets, edits>>

Stop(p) ==
  /\ pc[p] = "up"
  /\ Go(p, "down")
  /\ known' = [known EXCEPT ![p] = {}]
  /\ toolsets' = [toolsets EXCEPT ![p] = [s \in Servers |-> None]]
  /\ UNCHANGED <<skills, registry, malformed, edits>>

Next ==
  \/ \E p \in Procs : LoadSkills(p) \/ LoadServers(p) \/ LoadFails(p) \/ Stop(p)
  \/ \E f \in Folders, state \in FolderStates : EditSkill(f, state)
  \/ \E s \in Servers, block \in Block \cup {None, Null} : EditBlock(s, block)
  \/ EditSyntax

Spec == Init /\ [][Next]_vars

\* A process that is down is started again.
Load(p) == LoadSkills(p) \/ LoadServers(p) \/ LoadFails(p)

FairSpec == Spec /\ \A p \in Procs : WF_vars(Load(p))
-----------------------------------------------------------------------------
(* Properties                                                              *)

\* Every variable keeps its type, and only a process that is up offers anything of
\* the registry.
TypeOK ==
  /\ skills \in [Folders -> FolderStates]
  /\ registry \in [Servers -> Block \cup {None, Null}]
  /\ malformed \in BOOLEAN
  /\ pc \in [Procs -> {"down", "registry", "up"}]
  /\ known \in [Procs -> SUBSET Folders]
  /\ toolsets \in [Procs -> [Servers -> Block \cup {None}]]
  /\ \A p \in Procs, s \in Servers : toolsets[p][s] # None => pc[p] = "up"
  /\ edits \in 0..MaxEdits

\* Nothing stops the process p from loading.
Sound(p) ==
  /\ \A f \in Folders : skills[f] # "refused"
  /\ ~malformed
  /\ \A s \in Servers : registry[s] # Null
  /\ \A s \in Servers :
       /\ registry[s] # None /\ registry[s].enabled
       /\ Plane[p] # AnyPlane => registry[s].placement = Plane[p]
       => registry[s].command

\* A load that failed leaves nothing behind: once the file can be read and the blocks
\* that concern a process are sound, it comes up, and whatever fields stand in
\* disabled blocks or in those of the other plane do not keep it down.  (Bad syntax
\* and an empty block keep all processes down, whichever plane they are of.)
SoundIsLoaded == \A p \in Procs : <>[]Sound(p) => []<>(pc[p] = "up")

\* McpToolset: no tool_filter is no filter.
Offered(s, block) == IF block.filter = {} THEN Verbs(s) ELSE Verbs(s) \cap block.filter

\* mcp_servers.yaml:13, "the model only ever sees the verbs listed here".  An empty
\* list becomes None, which is no filter.
OnlyListedVerbs ==
  \A p \in Procs, s \in Servers :
    toolsets[p][s] # None => Offered(s, toolsets[p][s]) \subseteq toolsets[p][s].filter
=============================================================================
