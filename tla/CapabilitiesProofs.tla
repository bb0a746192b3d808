------------------------- MODULE CapabilitiesProofs --------------------------
(***************************************************************************)
(* The types of Capabilities, and that only a running process offers verbs *)
(* of the registry, for any registry, any planes and any edits.            *)
(***************************************************************************)
EXTENDS Capabilities, TLAPS

LEMMA InitHolds == Init => TypeOK
<1> SUFFICES ASSUME Init PROVE TypeOK
  OBVIOUS
<1>1. malformed \in BOOLEAN
  BY DEF Init
<1>2. \A p \in Procs, s \in Servers : toolsets[p][s] = None
  BY DEF Init
<1>3. toolsets \in [Procs -> [Servers -> Block \cup {None}]]
  BY DEF Init
<1>4. skills \in [Folders -> FolderStates]
  BY DEF Init, FolderStates
<1> QED
  BY <1>1, <1>2, <1>3, <1>4, CapabilitiesAssumption DEF Init, TypeOK

\* A step of the process p that sets its toolsets to ts.
LEMMA ToolsetsKeep ==
  ASSUME TypeOK, NEW p \in Procs, NEW ts \in [Servers -> Block \cup {None}],
         toolsets' = [toolsets EXCEPT ![p] = ts],
         NEW place \in {"down", "up"}, Go(p, place),
         \A s \in Servers : ts[s] # None => place = "up",
         known' \in [Procs -> SUBSET Folders],
         UNCHANGED <<skills, registry, malformed, edits>>
  PROVE  TypeOK'
<1>1. /\ toolsets' \in [Procs -> [Servers -> Block \cup {None}]]
      /\ toolsets'[p] = ts
      /\ \A q \in Procs : q # p => toolsets'[q] = toolsets[q]
  BY DEF TypeOK
<1>2. /\ pc' \in [Procs -> {"down", "registry", "up"}] /\ pc'[p] = place
      /\ \A q \in Procs : q # p => pc'[q] = pc[q]
  BY DEF Go, TypeOK
<1>3. \A q \in Procs, s \in Servers : toolsets'[q][s] # None => pc'[q] = "up"
  <2> SUFFICES ASSUME NEW q \in Procs, NEW s \in Servers, toolsets'[q][s] # None
               PROVE  pc'[q] = "up"
    OBVIOUS
  <2>1. CASE q = p
    BY <2>1, <1>1, <1>2
  <2>2. CASE q # p
    BY <2>2, <1>1, <1>2 DEF TypeOK
  <2> QED
    BY <2>1, <2>2
<1> QED
  BY <1>1, <1>2, <1>3 DEF TypeOK

LEMMA StepKeeps == TypeOK /\ [Next]_vars => TypeOK'
<1> SUFFICES ASSUME TypeOK, [Next]_vars PROVE TypeOK'
  OBVIOUS
<1>1. ASSUME NEW p \in Procs, LoadSkills(p) \/ LoadFails(p)
      PROVE  TypeOK'
  <2>1. /\ pc' \in [Procs -> {"down", "registry", "up"}]
        /\ \A q \in Procs : pc[q] = "up" => pc'[q] = "up"
    BY <1>1 DEF LoadSkills, LoadFails, Go, TypeOK
  <2>2. known' \in [Procs -> SUBSET Folders]
    BY <1>1 DEF LoadSkills, LoadFails, TypeOK
  <2> QED
    BY <1>1, <2>1, <2>2 DEF LoadSkills, LoadFails, TypeOK
<1>2. ASSUME NEW p \in Procs, LoadServers(p)
      PROVE  TypeOK'
  <2> DEFINE ts == [s \in Servers |-> IF s \in Selected(p) THEN registry[s] ELSE None]
  <2>1. ts \in [Servers -> Block \cup {None}]
    BY DEF TypeOK, Selected
  <2>2. toolsets' = [toolsets EXCEPT ![p] = ts]
    BY <1>2 DEF LoadServers
  <2> HIDE DEF ts
  <2> QED
    BY <1>2, <2>1, <2>2, ToolsetsKeep DEF LoadServers, TypeOK
<1>3. ASSUME NEW p \in Procs, Stop(p)
      PROVE  TypeOK'
  <2> DEFINE ts == [s \in Servers |-> None]
  <2>1. ts \in [Servers -> Block \cup {None}] /\ \A s \in Servers : ts[s] = None
    OBVIOUS
  <2>2. toolsets' = [toolsets EXCEPT ![p] = ts] /\ known' \in [Procs -> SUBSET Folders]
    BY <1>3 DEF Stop, TypeOK
  <2> HIDE DEF ts
  <2> QED
    BY <1>3, <2>1, <2>2, ToolsetsKeep DEF Stop
<1>4. ASSUME NEW f \in Folders, NEW state \in FolderStates, EditSkill(f, state)
      PROVE  TypeOK'
  BY <1>4, CapabilitiesAssumption DEF EditSkill, Edit, TypeOK
<1>5. ASSUME NEW s \in Servers, NEW block \in Block \cup {None, Null}, EditBlock(s, block)
      PROVE  TypeOK'
  BY <1>5, CapabilitiesAssumption DEF EditBlock, Edit, TypeOK
<1>6. CASE EditSyntax
  BY <1>6, CapabilitiesAssumption DEF EditSyntax, Edit, TypeOK
<1>7. CASE UNCHANGED vars
  BY <1>7 DEF vars, TypeOK
<1> QED
  BY <1>1, <1>2, <1>3, <1>4, <1>5, <1>6, <1>7 DEF Next

\* Types, and that only a running process offers verbs of the registry.
THEOREM TypeCorrect == Spec => []TypeOK
BY InitHolds, StepKeeps, PTL DEF Spec
=============================================================================
