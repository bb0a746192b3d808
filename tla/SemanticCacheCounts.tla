------------------------- MODULE SemanticCacheCounts -------------------------
(***************************************************************************)
(* What the cache counts and what it can lose count of: the types of all   *)
(* variables with the bounds of the counters, the hashes that never        *)
(* expire, and how often the model is asked one prompt.                    *)
(*                                                                         *)
(* Each argument weighs a number against a set of tasks: a counter against *)
(* the lookups that may still raise it (CountInv), the hashes without time *)
(* to live against the tasks that have yet to set one (ExpireInv), the     *)
(* requests of a prompt against the tasks that are about to store its      *)
(* answer (CalmInv).  At the end: what is in the index is found, and when  *)
(* a fresh answer is stored.                                               *)
(***************************************************************************)
EXTENDS SemanticCacheProofs, FiniteSetTheorems, WellFoundedInduction

\* The tasks in a lookup: each may yet raise every counter by one.
Lookups == {t \in Tasks : pc[t] \in {"embed", "create", "search"}}

Looking == Cardinality(Lookups)

\* What TypeOK says that neither SemanticCacheProofs nor CountInv does.
Rest ==
  /\ up \in BOOLEAN
  /\ index \in Nat
  /\ disk \in [index : Nat, entries : [Keys -> Hash \cup {None}]]
  /\ indexDim \in [Procs -> Nat]
  /\ missed \in [Tasks -> BOOLEAN]
  /\ asks \in 0..MaxAsks /\ faults \in 0..MaxFaults

CountInv ==
  /\ hits \in [Procs -> Nat] /\ misses \in [Procs -> Nat] /\ modelCalls \in [Keys -> Nat]
  /\ \A p \in Procs : hits[p] + Looking <= asks /\ misses[p] + Looking <= asks
  /\ \A k \in Keys : modelCalls[k] + Looking <= asks

-----------------------------------------------------------------------------
(* Hashes without a time to live                                           *)

Endless(es) == {k \in Keys : es[k] # None /\ ~es[k].ttl}

Expiring == {t \in Tasks : pc[t] = "expire"}
Attended == {storing[t].key : t \in Expiring}

Slack(n) == n * Cardinality(Tasks)

\* EntriesExpire is not inductive: a task that gives up for want of Redis leaves its
\* hash unattended, without a fault of its own, and a snapshot may bring back what
\* was attended when it was taken.
ExpireInv ==
  /\ IsFiniteSet(Endless(entries)) /\ IsFiniteSet(Endless(disk.entries))
  /\ Cardinality(Endless(entries) \ Attended) <= Slack(faults)
  /\ ~up => Cardinality(Endless(entries)) <= Slack(faults)
  /\ Cardinality(Endless(disk.entries)) <= Slack(faults + 1)

-----------------------------------------------------------------------------
(* Requests of one prompt                                                  *)

BlankKey(k) == k[2].sys = NoText /\ k[2].texts = <<>> /\ k[2].tools = {}

\* The tasks that have asked the model a prompt and are about to store its answer.
Asking(k) ==
  {t \in Tasks : \/ pc[t] = "model" /\ Key(req[t]) = k
                 \/ pc[t] \in {"recreate", "hset"} /\ storing[t].key = k}

CalmSetup ==
  /\ Procs \subseteq Enabled
  /\ \A p, q \in Procs : Dim[p] = Dim[q]
  /\ \A r \in Requests : Sim(Canon(r), Canon(r)) >= Threshold

\* All that is in the index, or on its way there, has the dimension of the processes.
OneDim(d) ==
  /\ index \in {0, d} /\ \A p \in Procs : indexDim[p] \in {0, index}
  /\ \A t \in Tasks : /\ pc[t] \in {"search", "hset"} => index = d
                      /\ pending[t] # None => pending[t].dim = d
                      /\ storing[t] # None => storing[t].dim = d
  /\ \A k \in Keys : entries[k] # None => entries[k].dim = d /\ entries[k].readable

\* Who asks the model something has its answer to store.
Keeping == \A t \in Tasks : pc[t] = "model" /\ ~IsBlank(req[t]) => pending[t] # None

\* As long as a prompt has no entry, everyone who asked it is about to store one.
Few(k) ==
  /\ modelCalls[k] <= Cardinality(Tasks)
  /\ entries[k] = None => modelCalls[k] <= Cardinality(Asking(k))

CalmInv ==
  CalmSetup /\ faults = 0 =>
    /\ up
    /\ \A p \in Procs : OneDim(Dim[p])
    /\ Keeping
    /\ \A k \in Keys : ~BlankKey(k) => Few(k)

-----------------------------------------------------------------------------
(* Types and counters                                                      *)

LEMMA InitialTasks ==
  ASSUME Init, NEW t \in Tasks
  PROVE  pc[t] = "idle" /\ pending[t] = None /\ storing[t] = None
BY DEF Init

LEMMA LookupsAreFinite == IsFiniteSet(Lookups) /\ Looking \in Nat
<1>1. Lookups \subseteq Tasks
  BY DEF Lookups
<1>2. IsFiniteSet(Lookups)
  BY <1>1, TasksAreFinite, FS_Subset
<1> QED
  BY <1>2, FS_CardinalityType DEF Looking

\* How the step of one task changes the number of lookups.
LEMMA LookupMoves ==
  ASSUME Typed, NEW t \in Tasks, NEW place, pc' = [pc EXCEPT ![t] = place]
  PROVE  LET inside == {"embed", "create", "search"}
         IN  /\ Looking' \in Nat
             /\ pc[t] \in inside /\ place \in inside => Looking' = Looking
             /\ pc[t] \in inside /\ place \notin inside => Looking' = Looking - 1
             /\ pc[t] \notin inside /\ place \in inside => Looking' = Looking + 1
             /\ pc[t] \notin inside /\ place \notin inside => Looking' = Looking
<1> DEFINE inside == {"embed", "create", "search"}
<1>1. /\ place \in inside => Lookups' = Lookups \cup {t}
      /\ place \notin inside => Lookups' = Lookups \ {t}
      /\ t \in Lookups <=> pc[t] \in inside
  BY DEF Lookups, Typed
<1>2. /\ IsFiniteSet(Lookups \cup {t})
      /\ Cardinality(Lookups \cup {t}) = IF t \in Lookups THEN Looking ELSE Looking + 1
  BY LookupsAreFinite, FS_AddElement DEF Looking
<1>3. /\ IsFiniteSet(Lookups \ {t})
      /\ Cardinality(Lookups \ {t}) = IF t \in Lookups THEN Looking - 1 ELSE Looking
  BY LookupsAreFinite, FS_RemoveElement DEF Looking
<1>4. IsFiniteSet(Lookups')
  BY <1>1, <1>2, <1>3
<1>5. Looking' \in Nat
  BY <1>4, FS_CardinalityType DEF Looking
<1>6. Looking' = Cardinality(Lookups')
  BY DEF Looking
<1> QED
  BY <1>1, <1>2, <1>3, <1>5, <1>6

LEMMA LookupsEnd ==
  ASSUME Typed, NEW t \in Tasks,
         EmbedFails(t) \/ CreateFails(t) \/ Hit(t) \/ HitUnreadable(t) \/ SearchMisses(t)
         \/ LookupRaises(t)
  PROVE  Looking' \in Nat /\ Looking' = Looking - 1
<1>1. pc[t] \in {"embed", "create", "search"}
  BY DEF EmbedFails, CreateFails, Hit, HitUnreadable, SearchMisses, LookupRaises
<1>2. PICK place \in {"model", "idle"} : pc' = [pc EXCEPT ![t] = place]
  BY DEF EmbedFails, CreateFails, Hit, HitUnreadable, SearchMisses, LookupRaises, Miss, AskModel,
     Go
<1> QED
  BY <1>1, <1>2, LookupMoves

\* No other step of a task begins one.
LEMMA LookupsStay ==
  ASSUME Typed, NEW t \in Tasks,
         \/ Embedded(t) \/ Create(t) \/ Partial(t) \/ ErrorFrame(t) \/ AnswerUnstored(t)
         \/ AnswerStored(t) \/ Recreate(t) \/ HSet(t) \/ SetTtl(t) \/ StoreFails(t)
  PROVE  Looking' \in Nat /\ Looking' = Looking
<1>1. CASE Embedded(t) \/ Create(t)
  <2>1. /\ pc[t] \in {"embed", "create", "search"}
        /\ \E place \in {"search", "create"} : pc' = [pc EXCEPT ![t] = place]
    BY <1>1 DEF Embedded, Create, Go
  <2> QED
    BY <2>1, LookupMoves
<1>2. CASE Partial(t)
  BY <1>2, LookupsAreFinite DEF Partial, Lookups, Looking
<1>3. CASE \/ ErrorFrame(t) \/ AnswerUnstored(t) \/ AnswerStored(t)
           \/ Recreate(t) \/ HSet(t) \/ SetTtl(t) \/ StoreFails(t)
  <2>1. pc[t] \notin {"embed", "create", "search"}
    BY <1>3 DEF ErrorFrame, AnswerUnstored, AnswerStored, Recreate, HSet, SetTtl, StoreFails
  <2>2. PICK place \in {"idle", "hset", "recreate", "expire"} : pc' = [pc EXCEPT ![t] = place]
    BY <1>3 DEF ErrorFrame, AnswerUnstored, AnswerStored, Recreate, HSet, SetTtl, StoreFails, Go
  <2> QED
    BY <2>1, <2>2, LookupMoves
<1> QED
  BY <1>1, <1>2, <1>3

LEMMA Weighed ==
  ASSUME NEW c \in Nat, NEW c1 \in Nat, NEW l \in Nat, NEW l1 \in Nat,
         NEW a \in Nat, NEW a1 \in Nat, NEW d \in {0, 1},
         c + l <= a, c1 <= c + d, l1 + d - a1 <= l - a
  PROVE  c1 + l1 <= a1
OBVIOUS

\* What a step may add to a counter, it must have taken from the lookups, or be asked for.
LEMMA CountersKeep ==
  ASSUME CountInv, Looking' \in Nat, asks' \in Nat, NEW d \in {0, 1},
         Looking' + d - asks' <= Looking - asks,
         hits' \in [Procs -> Nat], misses' \in [Procs -> Nat], modelCalls' \in [Keys -> Nat],
         \A p \in Procs : hits'[p] <= hits[p] + d /\ misses'[p] <= misses[p] + d,
         \A k \in Keys : modelCalls'[k] <= modelCalls[k] + d,
         asks \in Nat
  PROVE  CountInv'
<1>1. Looking \in Nat
  BY LookupsAreFinite
<1>2. ASSUME NEW p \in Procs
      PROVE  hits'[p] + Looking' <= asks' /\ misses'[p] + Looking' <= asks'
  <2>1. /\ hits[p] \in Nat /\ misses[p] \in Nat /\ hits'[p] \in Nat /\ misses'[p] \in Nat
        /\ hits[p] + Looking <= asks /\ misses[p] + Looking <= asks
        /\ hits'[p] <= hits[p] + d /\ misses'[p] <= misses[p] + d
    BY DEF CountInv
  <2>2. hits'[p] + Looking' <= asks'
    BY <1>1, <2>1, Weighed
  <2>3. misses'[p] + Looking' <= asks'
    BY <1>1, <2>1, Weighed
  <2> QED
    BY <2>2, <2>3
<1>3. ASSUME NEW k \in Keys
      PROVE  modelCalls'[k] + Looking' <= asks'
  <2>1. /\ modelCalls[k] \in Nat /\ modelCalls'[k] \in Nat
        /\ modelCalls[k] + Looking <= asks /\ modelCalls'[k] <= modelCalls[k] + d
    BY DEF CountInv
  <2> QED
    BY <1>1, <2>1, Weighed
<1> QED
  BY <1>2, <1>3 DEF CountInv

\* The counters that a step raises.
LEMMA OneMore ==
  ASSUME NEW S, NEW f \in [S -> Nat], NEW x \in S
  PROVE  /\ [f EXCEPT ![x] = @ + 1] \in [S -> Nat]
         /\ \A y \in S : [f EXCEPT ![x] = @ + 1][y] <= f[y] + 1
OBVIOUS

LEMMA NoMore ==
  ASSUME NEW S, NEW f \in [S -> Nat]
  PROVE  \A y \in S : f[y] <= f[y] + 1 /\ f[y] <= f[y] + 0
OBVIOUS

LEMMA CountStep ==
  ASSUME Flow, CountInv, asks \in Nat, [Next]_vars
  PROVE  CountInv'
<1>t. Typed /\ Looking \in Nat
  BY LookupsAreFinite DEF Flow
<1>c. hits \in [Procs -> Nat] /\ misses \in [Procs -> Nat] /\ modelCalls \in [Keys -> Nat]
  BY DEF CountInv
<1>1. ASSUME NEW t \in Tasks,
             EmbedFails(t) \/ CreateFails(t) \/ Hit(t) \/ HitUnreadable(t) \/ SearchMisses(t)
             \/ LookupRaises(t)
      PROVE  CountInv'
  <2>1. Looking' \in Nat /\ Looking' + 1 - asks' <= Looking - asks /\ asks' = asks
    BY <1>1, <1>t, LookupsEnd
    DEF EmbedFails, CreateFails, Hit, HitUnreadable, SearchMisses, LookupRaises
  <2>2. proc[t] \in Procs /\ req[t] \in Requests /\ Key(req[t]) \in Keys
    BY <1>t, KeyOf DEF Typed
  <2>3. \/ hits' = hits
        \/ hits' = [hits EXCEPT ![proc[t]] = @ + 1]
    BY <1>1 DEF EmbedFails, CreateFails, Hit, HitUnreadable, SearchMisses, LookupRaises, processes
  <2>4. \/ misses' = misses
        \/ misses' = [misses EXCEPT ![proc[t]] = @ + 1]
    BY <1>1 DEF EmbedFails, CreateFails, Hit, HitUnreadable, SearchMisses, LookupRaises, Miss,
       processes
  <2>5. \/ modelCalls' = modelCalls
        \/ modelCalls' = [modelCalls EXCEPT ![Key(req[t])] = @ + 1]
    BY <1>1 DEF EmbedFails, CreateFails, Hit, HitUnreadable, SearchMisses, LookupRaises, Miss,
       AskModel
  <2>6. hits' \in [Procs -> Nat] /\ \A p \in Procs : hits'[p] <= hits[p] + 1
    BY <1>c, <2>2, <2>3, OneMore, NoMore
  <2>7. misses' \in [Procs -> Nat] /\ \A p \in Procs : misses'[p] <= misses[p] + 1
    BY <1>c, <2>2, <2>4, OneMore, NoMore
  <2>8. modelCalls' \in [Keys -> Nat] /\ \A k \in Keys : modelCalls'[k] <= modelCalls[k] + 1
    BY <1>c, <2>2, <2>5, OneMore, NoMore
  <2> QED
    BY <2>1, <2>6, <2>7, <2>8, CountersKeep
<1>2. ASSUME NEW t \in Tasks,
             \/ Embedded(t) \/ Create(t) \/ Partial(t) \/ ErrorFrame(t) \/ AnswerUnstored(t)
             \/ AnswerStored(t) \/ Recreate(t) \/ HSet(t) \/ SetTtl(t) \/ StoreFails(t)
      PROVE  CountInv'
  <2>1. Looking' = Looking
    BY <1>2, <1>t, LookupsStay
  <2>2. UNCHANGED <<hits, misses, modelCalls, asks>>
    BY <1>2 DEF Embedded, Create, Partial, ErrorFrame, AnswerUnstored, AnswerStored, Recreate,
       HSet, SetTtl, StoreFails, processes
  <2> QED
    BY <2>1, <2>2 DEF CountInv
<1>3. ASSUME NEW t \in Tasks, NEW p \in Procs, NEW r \in Requests, Ask(t, p, r)
      PROVE  CountInv'
  <2>1. /\ asks' = asks + 1 /\ hits' = hits /\ misses' = misses /\ pc[t] = "idle"
        /\ req' = [req EXCEPT ![t] = r] /\ Key(r) \in Keys
    BY <1>3, KeyOf DEF Ask, processes
  <2>2. req'[t] = r
    BY <1>t, <2>1 DEF Typed
  <2>3. CASE AskModel(t)
    <3>1. Looking' = Looking
      <4>1. PICK place \in {"model"} : pc' = [pc EXCEPT ![t] = place]
        BY <2>3 DEF AskModel, Go
      <4> QED
        BY <1>t, <2>1, <4>1, LookupMoves
    <3>2. /\ modelCalls' \in [Keys -> Nat]
          /\ \A k \in Keys : modelCalls'[k] <= modelCalls[k] + 1
      BY <1>c, <2>1, <2>2, <2>3, OneMore DEF AskModel
    <3> QED
      BY <1>t, <1>c, <2>1, <3>1, <3>2, NoMore, CountersKeep
  <2>4. CASE Go(t, "embed") /\ modelCalls' = modelCalls
    <3>1. Looking' = Looking + 1
      BY <1>t, <2>1, <2>4, LookupMoves DEF Go
    <3> QED
      BY <1>t, <1>c, <2>1, <2>4, <3>1, NoMore, CountersKeep
  <2> QED
    BY <1>3, <2>3, <2>4 DEF Ask
<1>4. ASSUME NEW p \in Procs, Restart(p)
      PROVE  CountInv'
  <2>1. Lookups' \subseteq Lookups
    BY <1>4 DEF Restart, Lookups
  <2>2. IsFiniteSet(Lookups) /\ IsFiniteSet(Lookups') /\ Looking' <= Looking /\ Looking' \in Nat
    BY <2>1, LookupsAreFinite, FS_Subset, FS_CardinalityType DEF Looking
  <2>3. /\ hits' \in [Procs -> Nat] /\ misses' \in [Procs -> Nat]
        /\ modelCalls' = modelCalls /\ asks' = asks
        /\ \A q \in Procs : hits'[q] <= hits[q] + 0 /\ misses'[q] <= misses[q] + 0
    BY <1>4, <1>c DEF Restart
  <2>4. \A k \in Keys : modelCalls'[k] <= modelCalls[k] + 0
    BY <1>c, <2>3, NoMore
  <2>5. asks' \in Nat /\ modelCalls' \in [Keys -> Nat]
    BY <1>c, <2>3
  <2>6. ASSUME NEW l \in Nat, NEW l1 \in Nat, l1 <= l
        PROVE  l1 + 0 - asks <= l - asks
    BY <2>6
  <2>7. Looking' + 0 - asks' <= Looking - asks
    BY <1>t, <2>2, <2>3, <2>6
  <2> QED
    BY <2>2, <2>3, <2>4, <2>5, <2>7, CountersKeep
<1>5. CASE UNCHANGED <<hits, misses, modelCalls, asks, pc>>
  <2>1. Looking' = Looking
    BY <1>5 DEF Looking, Lookups
  <2> QED
    BY <1>5, <2>1 DEF CountInv
<1>6. CASE \/ Snapshot \/ RedisDown \/ RedisUp \/ UNCHANGED vars
           \/ \E k \in Keys : Expire(k) \/ Spoil(k)
  BY <1>5, <1>6 DEF Snapshot, RedisDown, RedisUp, Expire, Spoil, processes, task, vars
<1> QED
  BY <1>1, <1>2, <1>3, <1>4, <1>6 DEF Next, Step, LocalStep, RedisCall

LEMMA RestStep ==
  ASSUME Flow, Redis, Rest, [Next]_vars
  PROVE  Rest'
<1>t. /\ \A t \in Tasks : proc[t] \in Procs /\ Dim[proc[t]] \in Nat
      /\ entries \in [Keys -> Hash \cup {None}]
  BY SemanticCacheAssumption DEF Flow, Typed, Redis, GenuineStore
<1>1. asks' \in 0..MaxAsks
  <2>1. asks' = asks \/ (asks < MaxAsks /\ asks' = asks + 1)
    BY DEF Next, Step, LocalStep, RedisCall, EmbedFails, Embedded, LookupRaises, Create, CreateFails, Hit,
       HitUnreadable, SearchMisses, Partial, ErrorFrame, AnswerUnstored, AnswerStored, Recreate,
       HSet, SetTtl, StoreFails, Ask, Snapshot, RedisDown, RedisUp, Expire, Spoil, Restart, vars
  <2> QED
    BY <2>1, SemanticCacheAssumption DEF Rest
<1>2. faults' \in 0..MaxFaults
  <2>1. faults' = faults \/ Fault
    BY DEF Next, Step, LocalStep, RedisCall, EmbedFails, Embedded, LookupRaises, Create, CreateFails, Hit,
       HitUnreadable, SearchMisses, Partial, ErrorFrame, AnswerUnstored, AnswerStored, Recreate,
       HSet, SetTtl, StoreFails, Ask, Snapshot, RedisDown, RedisUp, Expire, Spoil, Restart, vars
  <2> QED
    BY <2>1, SemanticCacheAssumption DEF Rest, Fault
<1>3. missed' \in [Tasks -> BOOLEAN]
  <2>1. \/ missed' = missed
        \/ \E t \in Tasks, b \in BOOLEAN : missed' = [missed EXCEPT ![t] = b]
    BY DEF Next, Step, LocalStep, RedisCall, EmbedFails, Embedded, LookupRaises, Create, CreateFails, Hit, Miss,
       HitUnreadable, SearchMisses, Partial, ErrorFrame, AnswerUnstored, AnswerStored, Recreate,
       HSet, SetTtl, StoreFails, Ask, Snapshot, RedisDown, RedisUp, Expire, Spoil, Restart,
       task, vars
  <2> QED
    BY <2>1 DEF Rest
<1>4. /\ up' \in BOOLEAN /\ index' \in Nat /\ indexDim' \in [Procs -> Nat]
      /\ disk' \in [index : Nat, entries : [Keys -> Hash \cup {None}]]
  <2>1. ASSUME NEW t \in Tasks, EnsureIndex(t)
        PROVE  index' \in Nat /\ indexDim' \in [Procs -> Nat]
    BY <1>t, <2>1 DEF EnsureIndex, Rest
  <2>2. ASSUME NEW t \in Tasks, Step(t)
        PROVE  /\ up' = up /\ disk' = disk
               /\ (index' = index /\ indexDim' = indexDim) \/ EnsureIndex(t)
    BY <2>2 DEF Step, LocalStep, RedisCall, EmbedFails, Embedded, LookupRaises, Create, CreateFails, Hit,
       HitUnreadable, SearchMisses, Partial, ErrorFrame, AnswerUnstored, AnswerStored, Recreate,
       HSet, SetTtl, StoreFails, redis, processes
  <2>3. CASE Snapshot \/ RedisDown \/ RedisUp
    <3>1. indexDim' = indexDim /\ up' \in BOOLEAN
      BY <2>3 DEF Snapshot, RedisDown, RedisUp, processes, Rest
    <3>2. disk' = disk \/ disk' = [index |-> index, entries |-> entries]
      BY <2>3 DEF Snapshot, RedisDown, RedisUp
    <3>3. index' = index \/ index' = disk.index
      BY <2>3 DEF Snapshot, RedisDown, RedisUp
    <3>4. disk' \in [index : Nat, entries : [Keys -> Hash \cup {None}]]
      BY <1>t, <3>2 DEF Rest
    <3>5. index' \in Nat
      BY <3>3 DEF Rest
    <3> QED
      BY <3>1, <3>4, <3>5 DEF Rest
  <2>4. ASSUME NEW p \in Procs, Restart(p)
        PROVE  /\ up' = up /\ disk' = disk /\ index' = index /\ indexDim' \in [Procs -> Nat]
    BY <2>4 DEF Restart, redis, Rest
  <2>5. CASE /\ UNCHANGED <<up, disk, index, indexDim>>
    BY <2>5 DEF Rest
  <2>6. CASE \/ \E t \in Tasks, p \in Procs, r \in Requests : Ask(t, p, r)
             \/ \E k \in Keys : Expire(k) \/ Spoil(k)
             \/ UNCHANGED vars
    BY <2>5, <2>6 DEF Ask, Expire, Spoil, vars, redis, processes
  <2> QED
    BY <2>1, <2>2, <2>3, <2>4, <2>6 DEF Next, Rest
<1> QED
  BY <1>1, <1>2, <1>3, <1>4 DEF Rest

LEMMA InitialCounts == Init => Rest /\ CountInv
<1> SUFFICES ASSUME Init PROVE Rest /\ CountInv
  OBVIOUS
<1>1. Rest
  BY SemanticCacheAssumption DEF Init, Rest
<1>2. Looking = 0
  <2>1. Lookups = {}
    BY InitialTasks DEF Lookups
  <2> QED
    BY <2>1, FS_EmptySet DEF Looking
<1> QED
  BY <1>1, <1>2 DEF Init, CountInv

LEMMA CountsHold == Spec => [](Flow /\ Redis /\ Rest /\ CountInv)
<1>1. Flow /\ Redis /\ Rest /\ CountInv /\ [Next]_vars => Rest' /\ CountInv'
  BY RestStep, CountStep DEF Rest
<1> QED
  BY <1>1, InitialCounts, FlowHolds, PTL DEF Spec

\* The variables have their types, and no process counts more hits or misses, and the
\* model has not been asked one prompt more often, than there were model calls: a
\* lookup raises a counter at most once, whatever fails in it.
THEOREM TypeCorrect == Spec => []TypeOK
<1>1. Init => Serving
  BY DEF Init, Serving
<1>2. Flow /\ Redis /\ Serving /\ [Next]_vars => Serving'
  BY ServingStep
<1>3. ASSUME Flow, Redis, Serving, Rest, CountInv
      PROVE  TypeOK
  <2>1. Looking \in Nat /\ asks \in Nat
    BY <1>3, LookupsAreFinite DEF Rest
  <2>2. ASSUME NEW n \in Nat, n + Looking <= asks
        PROVE  n \in 0..asks
    BY <2>1, <2>2
  <2>3. /\ hits \in [Procs -> Nat] /\ misses \in [Procs -> Nat] /\ modelCalls \in [Keys -> Nat]
        /\ \A p \in Procs : hits[p] \in 0..asks /\ misses[p] \in 0..asks
        /\ \A k \in Keys : modelCalls[k] \in 0..asks
    BY <1>3, <2>2 DEF CountInv
  <2>4. /\ hits \in [Procs -> 0..asks] /\ misses \in [Procs -> 0..asks]
        /\ modelCalls \in [Keys -> 0..asks]
    BY <2>3
  <2> QED
    BY <1>3, <2>4 DEF TypeOK, Rest, Flow, Typed, Redis, GenuineStore, Serving, Record
<1> QED
  BY <1>1, <1>2, <1>3, CountsHold, FlowHolds, PTL DEF Spec

-----------------------------------------------------------------------------
(* Hashes that do not expire                                               *)

\* No more keys are attended than there are tasks.
LEMMA ImageOfTasks ==
  ASSUME NEW S \in SUBSET Tasks, NEW f
  PROVE  /\ IsFiniteSet({f[t].key : t \in S})
         /\ Cardinality({f[t].key : t \in S}) <= Cardinality(Tasks)
<1> DEFINE A == {f[t].key : t \in S}
           g == [t \in S |-> f[t].key]
<1>1. IsFiniteSet(S) /\ Cardinality(S) <= Cardinality(Tasks)
  BY TasksAreFinite, FS_Subset
<1>2. g \in Surjection(S, A)
  <2>1. g \in [S -> A]
    OBVIOUS
  <2>2. \A a \in A : \E t \in S : g[t] = a
    OBVIOUS
  <2> QED
    BY <2>1, <2>2 DEF Surjection
<1> HIDE DEF g, A
<1>3. IsFiniteSet(A) /\ Cardinality(A) <= Cardinality(S)
  BY <1>1, <1>2, FS_Surjection
<1>4. Cardinality(A) \in Nat /\ Cardinality(S) \in Nat /\ Cardinality(Tasks) \in Nat
  BY <1>1, <1>3, TasksAreFinite, FS_CardinalityType
<1>5. Cardinality(A) <= Cardinality(Tasks)
  BY <1>1, <1>3, <1>4
<1> QED
  BY <1>3, <1>5 DEF A

LEMMA SlackGrows ==
  ASSUME NEW n \in Nat
  PROVE  Slack(n) \in Nat /\ Slack(n + 1) = Slack(n) + Cardinality(Tasks)
<1>1. Cardinality(Tasks) \in Nat
  BY TasksAreFinite, FS_CardinalityType
<1>2. ASSUME NEW c \in Nat PROVE n * c \in Nat /\ (n + 1) * c = n * c + c
  OBVIOUS
<1> QED
  BY <1>1, <1>2 DEF Slack

\* What does not expire was left behind by a fault, or is attended.
LEMMA EndlessIsFew ==
  ASSUME ExpireInv, faults \in Nat
  PROVE  Cardinality(Endless(entries)) <= Slack(faults + 1)
<1> DEFINE E == Endless(entries)
<1>1. IsFiniteSet(Attended) /\ Cardinality(Attended) <= Cardinality(Tasks)
  <2>1. Expiring \in SUBSET Tasks
    BY DEF Expiring
  <2> QED
    BY <2>1, ImageOfTasks DEF Attended
<1>2. IsFiniteSet(E) /\ Cardinality(E \ Attended) <= Slack(faults)
  BY DEF ExpireInv
<1> HIDE DEF E
<1>3. IsFiniteSet(E \ Attended) /\ IsFiniteSet((E \ Attended) \cup Attended)
  BY <1>1, <1>2, FS_Difference, FS_Union
<1>4. Cardinality((E \ Attended) \cup Attended)
        = Cardinality(E \ Attended) + Cardinality(Attended)
          - Cardinality((E \ Attended) \cap Attended)
  BY <1>1, <1>3, FS_Union
<1>5. (E \ Attended) \cap Attended = {} /\ E \subseteq (E \ Attended) \cup Attended
  OBVIOUS
<1>6. Cardinality(E) <= Cardinality((E \ Attended) \cup Attended)
  BY <1>3, <1>5, FS_Subset
<1>7. Cardinality((E \ Attended) \cap Attended) = 0
  BY <1>5, FS_EmptySet
<1>8. /\ Cardinality(E) \in Nat /\ Cardinality(E \ Attended) \in Nat
      /\ Cardinality(Attended) \in Nat /\ Cardinality(Tasks) \in Nat
  BY <1>1, <1>2, <1>3, TasksAreFinite, FS_CardinalityType
<1>9. Cardinality(E) <= Slack(faults) + Cardinality(Tasks)
  BY <1>1, <1>2, <1>4, <1>6, <1>7, <1>8, SlackGrows
<1> QED
  BY <1>9, SlackGrows DEF E

\* A step that leaves nothing new behind.
LEMMA NothingLeft ==
  ASSUME ExpireInv, faults \in Nat, faults' \in {faults, faults + 1},
         disk' = disk, up' = up,
         Endless(entries') \ Attended' \subseteq Endless(entries) \ Attended,
         ~up => Endless(entries') \subseteq Endless(entries)
  PROVE  ExpireInv'
<1>1. IsFiniteSet(Attended')
  <2>1. Expiring' \in SUBSET Tasks
    BY DEF Expiring
  <2> QED
    BY <2>1, ImageOfTasks DEF Attended
<1>2. IsFiniteSet(Endless(entries)) /\ IsFiniteSet(Endless(entries) \ Attended)
  BY FS_Difference DEF ExpireInv
<1>3. IsFiniteSet(Endless(entries'))
  <2>1. Endless(entries') \subseteq (Endless(entries) \ Attended) \cup Attended'
    OBVIOUS
  <2>2. IsFiniteSet((Endless(entries) \ Attended) \cup Attended')
    BY <1>1, <1>2, FS_Union
  <2> QED
    BY <2>1, <2>2, FS_Subset
<1>4. /\ Cardinality(Endless(entries') \ Attended') <= Cardinality(Endless(entries) \ Attended)
      /\ ~up => Cardinality(Endless(entries')) <= Cardinality(Endless(entries))
  BY <1>2, FS_Subset
<1>5. /\ Slack(faults) <= Slack(faults') /\ Slack(faults + 1) <= Slack(faults' + 1)
      /\ Slack(faults) \in Nat /\ Slack(faults') \in Nat
      /\ Slack(faults + 1) \in Nat /\ Slack(faults' + 1) \in Nat
  <2>1. Cardinality(Tasks) \in Nat
    BY TasksAreFinite, FS_CardinalityType
  <2>2. /\ Slack(faults) \in Nat /\ Slack(faults + 1) = Slack(faults) + Cardinality(Tasks)
        /\ Slack((faults + 1) + 1) = Slack(faults + 1) + Cardinality(Tasks)
    BY SlackGrows
  <2> QED
    BY <2>1, <2>2
<1>6. /\ Cardinality(Endless(entries') \ Attended') \in Nat
      /\ Cardinality(Endless(entries) \ Attended) \in Nat
      /\ Cardinality(Endless(entries')) \in Nat /\ Cardinality(Endless(entries)) \in Nat
      /\ Cardinality(Endless(disk.entries)) \in Nat
  BY <1>2, <1>3, FS_Difference, FS_CardinalityType DEF ExpireInv
<1>7. Cardinality(Endless(entries') \ Attended') <= Slack(faults')
  BY <1>4, <1>5, <1>6 DEF ExpireInv
<1>8. ~up' => Cardinality(Endless(entries')) <= Slack(faults')
  BY <1>4, <1>5, <1>6 DEF ExpireInv
<1>9. IsFiniteSet(Endless(disk.entries)) /\ Cardinality(Endless(disk.entries)) <= Slack(faults' + 1)
  BY <1>5, <1>6 DEF ExpireInv
<1>10. disk'.entries = disk.entries
  OBVIOUS
<1> QED
  BY <1>3, <1>7, <1>8, <1>9, <1>10 DEF ExpireInv, Endless

\* One task writes, and its hash is attended until it has a time to live.
LEMMA WritesAreAttended ==
  ASSUME Flow, GenuineStore(entries), NEW t \in Tasks, HSet(t) \/ SetTtl(t)
  PROVE  Endless(entries') \ Attended' \subseteq Endless(entries) \ Attended
<1> DEFINE k == storing[t].key
<1>1. /\ k \in Keys /\ pc \in [Tasks -> Places]
      /\ entries \in [Keys -> Hash \cup {None}]
  BY DEF HSet, SetTtl, Flow, Typed, Stored, Record, GenuineStore
<1>2. CASE HSet(t)
  <2>1. pc' = [pc EXCEPT ![t] = "expire"] /\ storing' = storing /\ pc[t] = "hset"
    BY <1>2 DEF HSet, Go
  <2>2. Expiring' = Expiring \cup {t}
    BY <1>1, <2>1 DEF Expiring
  <2>3. Attended' = Attended \cup {k}
    BY <2>1, <2>2 DEF Attended
  <2>4. \A l \in Keys : l # k => entries'[l] = entries[l]
    BY <1>1, <1>2 DEF HSet
  <2> QED
    BY <2>3, <2>4 DEF Endless
<1>3. CASE SetTtl(t)
  <2>1. /\ pc' = [pc EXCEPT ![t] = "idle"] /\ storing' = [storing EXCEPT ![t] = None]
        /\ pc[t] = "expire"
    BY <1>3 DEF SetTtl, Go
  <2>2. /\ Expiring' = Expiring \ {t} /\ t \in Expiring
        /\ \A u \in Expiring' : storing'[u] = storing[u]
    BY <1>1, <2>1 DEF Expiring, Flow, Typed
  <2>3. Attended \subseteq Attended' \cup {k}
    BY <2>2 DEF Attended
  <2>4. \A l \in Keys : l # k => entries'[l] = entries[l]
    BY <1>1, <1>3 DEF SetTtl
  <2>5. entries'[k] = IF entries[k] = None THEN None ELSE [entries[k] EXCEPT !.ttl = TRUE]
    BY <1>1, <1>3 DEF SetTtl
  <2>6. ~(entries'[k] # None /\ ~entries'[k].ttl)
    <3>1. CASE entries[k] = None
      BY <2>5, <3>1
    <3>2. CASE entries[k] # None
      <4>1. entries[k] \in Hash
        BY <1>1, <3>2
      <4>2. [entries[k] EXCEPT !.ttl = TRUE].ttl = TRUE
        BY <4>1 DEF Hash
      <4> QED
        BY <2>5, <3>2, <4>2
    <3> QED
      BY <3>1, <3>2
  <2>7. k \notin Endless(entries')
    BY <2>6 DEF Endless
  <2> HIDE DEF k
  <2>8. \A l \in Endless(entries') : l # k /\ l \in Endless(entries)
    BY <2>4, <2>7 DEF Endless
  <2> QED
    BY <2>3, <2>8
<1> QED
  BY <1>2, <1>3

LEMMA ExpiryStep ==
  ASSUME Flow, Redis, ExpireInv, faults \in Nat, [Next]_vars
  PROVE  ExpireInv'
<1>t. /\ pc \in [Tasks -> Places] /\ entries \in [Keys -> Hash \cup {None}]
      /\ GenuineStore(entries) /\ storing \in [Tasks -> Record \cup {None}]
  BY DEF Flow, Typed, Redis, GenuineStore
<1>q. ASSUME faults' \in {faults, faults + 1}, disk' = disk, up' = up,
             Endless(entries') = Endless(entries), Attended' = Attended
      PROVE  ExpireInv'
  BY <1>q, NothingLeft
<1>1. ASSUME NEW t \in Tasks, HSet(t) \/ SetTtl(t)
      PROVE  ExpireInv'
  <2>1. up /\ up' = up /\ disk' = disk /\ faults' = faults
    BY <1>1 DEF HSet, SetTtl
  <2> QED
    BY <1>t, <1>1, <2>1, WritesAreAttended, NothingLeft
<1>2. ASSUME NEW t \in Tasks, Step(t), ~HSet(t), ~SetTtl(t), ~StoreFails(t)
      PROVE  ExpireInv'
  <2>1. UNCHANGED <<up, entries, disk>> /\ (faults' = faults \/ Fault)
    BY <1>2 DEF Step, LocalStep, RedisCall, EmbedFails, Embedded, LookupRaises, Create, CreateFails, Hit,
       HitUnreadable, SearchMisses, Partial, ErrorFrame, AnswerUnstored, AnswerStored, Recreate,
       redis
  <2>2. entries' = entries /\ disk' = disk /\ up' = up /\ faults' \in {faults, faults + 1}
    BY <2>1 DEF Fault
  <2>3. /\ pc[t] # "expire"
        /\ \/ pc' = pc
           \/ \E place \in {"model", "search", "create", "idle", "hset", "recreate"} :
                pc' = [pc EXCEPT ![t] = place]
        /\ \A u \in Tasks : u # t => storing'[u] = storing[u]
    <3>1. pc[t] # "expire"
      BY <1>2 DEF Step, LocalStep, RedisCall, EmbedFails, Embedded, LookupRaises, Create, CreateFails, Hit,
         HitUnreadable, SearchMisses, Partial, ErrorFrame, AnswerUnstored, AnswerStored, Recreate
    <3>2. \/ pc' = pc
          \/ \E place \in {"model", "search", "create", "idle", "hset", "recreate"} :
               pc' = [pc EXCEPT ![t] = place]
      BY <1>2 DEF Step, LocalStep, RedisCall, EmbedFails, Embedded, LookupRaises, Create, CreateFails, Hit, Miss,
         HitUnreadable, SearchMisses, Partial, ErrorFrame, AnswerUnstored, AnswerStored, Recreate,
         AskModel, Go
    <3>3. storing' = storing \/ \E s : storing' = [storing EXCEPT ![t] = s]
      BY <1>2 DEF Step, LocalStep, RedisCall, EmbedFails, Embedded, LookupRaises, Create, CreateFails, Hit,
         HitUnreadable, SearchMisses, Partial, ErrorFrame, AnswerUnstored, AnswerStored, Recreate
    <3> QED
      BY <1>t, <3>1, <3>2, <3>3
  <2>4. Expiring' = Expiring /\ t \notin Expiring /\ \A u \in Expiring : storing'[u] = storing[u]
    BY <1>t, <2>3 DEF Expiring
  <2>5. Attended' = Attended
    BY <2>4 DEF Attended
  <2> QED
    BY <1>q, <2>2, <2>5
<1>3. ASSUME NEW t \in Tasks, StoreFails(t)
      PROVE  ExpireInv'
  <2>1. ~up /\ up' = up /\ disk' = disk /\ entries' = entries /\ faults' = faults
    BY <1>3 DEF StoreFails, redis
  <2>2. IsFiniteSet(Endless(entries)) /\ Cardinality(Endless(entries)) <= Slack(faults)
    BY <2>1 DEF ExpireInv
  <2>3. /\ IsFiniteSet(Endless(entries) \ Attended')
        /\ Cardinality(Endless(entries) \ Attended') <= Cardinality(Endless(entries))
    BY <2>2, FS_Subset
  <2>4. /\ Cardinality(Endless(entries)) \in Nat /\ Slack(faults) \in Nat
        /\ Cardinality(Endless(entries) \ Attended') \in Nat
    BY <2>2, <2>3, FS_CardinalityType, SlackGrows
  <2>5. Cardinality(Endless(entries) \ Attended') <= Slack(faults)
    BY <2>2, <2>3, <2>4
  <2> QED
    BY <2>1, <2>5 DEF ExpireInv
<1>4. ASSUME NEW t \in Tasks, NEW p \in Procs, NEW r \in Requests, Ask(t, p, r)
      PROVE  ExpireInv'
  <2>1. /\ UNCHANGED <<redis, storing, faults>> /\ pc[t] = "idle"
        /\ \E place \in {"model", "embed"} : pc' = [pc EXCEPT ![t] = place]
    BY <1>4 DEF Ask, AskModel, Go
  <2>2. Expiring' = Expiring
    BY <1>t, <2>1 DEF Expiring
  <2> QED
    BY <1>q, <2>1, <2>2 DEF Attended, redis
<1>5. CASE Snapshot
  <2>1. /\ disk' = [index |-> index, entries |-> entries]
        /\ UNCHANGED <<up, entries, pc, storing, faults>> /\ up
    BY <1>5 DEF Snapshot, task
  <2>2. disk'.entries = entries /\ Attended' = Attended
    BY <2>1 DEF Attended, Expiring
  <2> QED
    BY <2>1, <2>2, EndlessIsFew DEF ExpireInv
<1>6. CASE RedisDown
  <2>1. /\ UNCHANGED <<disk, pc, storing>> /\ faults' = faults + 1
        /\ (entries' = entries \/ entries' = disk.entries)
    BY <1>6 DEF RedisDown, task, Fault
  <2> DEFINE E == Endless(entries')
  <2>2. IsFiniteSet(E) /\ Cardinality(E) <= Slack(faults')
    BY <2>1, EndlessIsFew DEF ExpireInv
  <2>3. IsFiniteSet(E \ Attended') /\ Cardinality(E \ Attended') <= Cardinality(E)
    BY <2>2, FS_Subset
  <2> HIDE DEF E
  <2>4. /\ Cardinality(E) \in Nat /\ Cardinality(E \ Attended') \in Nat
        /\ Slack(faults') \in Nat /\ Slack(faults' + 1) = Slack(faults') + Cardinality(Tasks)
        /\ Cardinality(Tasks) \in Nat
    BY <2>1, <2>2, <2>3, TasksAreFinite, FS_CardinalityType, SlackGrows
  <2>5. Cardinality(E \ Attended') <= Slack(faults')
    BY <2>2, <2>3, <2>4
  <2>6. IsFiniteSet(Endless(disk.entries)) /\ Cardinality(Endless(disk.entries)) <= Slack(faults')
    BY <2>1 DEF ExpireInv
  <2>7. Cardinality(Endless(disk.entries)) <= Slack(faults' + 1)
    <3>1. Cardinality(Endless(disk.entries)) \in Nat
      BY <2>6, FS_CardinalityType
    <3> QED
      BY <2>4, <2>6, <3>1
  <2>8. disk'.entries = disk.entries
    BY <2>1
  <2> QED
    BY <2>2, <2>5, <2>6, <2>7, <2>8 DEF ExpireInv, E
<1>7. CASE RedisUp
  <2>1. UNCHANGED <<entries, disk, pc, storing, faults>> /\ up'
    BY <1>7 DEF RedisUp, task
  <2> QED
    BY <2>1 DEF ExpireInv, Attended, Expiring
<1>8. ASSUME NEW k \in Keys, Expire(k) \/ Spoil(k)
      PROVE  ExpireInv'
  <2>1. UNCHANGED <<up, disk, pc, storing>> /\ faults' = faults + 1
    BY <1>8 DEF Expire, Spoil, task, Fault
  <2>2. Endless(entries') = Endless(entries)
    <3>1. CASE Expire(k)
      BY <1>t, <3>1 DEF Expire, Endless
    <3>2. CASE Spoil(k)
      <4>1. entries[k] \in Hash /\ entries' = [entries EXCEPT ![k] = [@ EXCEPT !.readable = FALSE]]
        BY <1>t, <3>2 DEF Spoil
      <4>2. /\ [entries[k] EXCEPT !.readable = FALSE] \in Hash
            /\ [entries[k] EXCEPT !.readable = FALSE].ttl = entries[k].ttl
        BY <4>1 DEF Hash
      <4>3. /\ entries'[k] # None /\ entries[k] # None /\ entries'[k].ttl = entries[k].ttl
            /\ \A l \in Keys : l # k => entries'[l] = entries[l]
        BY <1>t, <4>1, <4>2, NoneIsNone
      <4> QED
        BY <4>3 DEF Endless
    <3> QED
      BY <1>8, <3>1, <3>2
  <2> QED
    BY <1>q, <2>1, <2>2 DEF Attended, Expiring
<1>9. ASSUME NEW p \in Procs, Restart(p)
      PROVE  ExpireInv'
  <2>1. UNCHANGED <<up, entries, disk>> /\ faults' = faults + 1
    BY <1>9 DEF Restart, redis, Fault
  <2> DEFINE E == Endless(entries)
  <2>2. IsFiniteSet(E) /\ Cardinality(E) <= Slack(faults')
    BY <2>1, EndlessIsFew DEF ExpireInv
  <2>3. IsFiniteSet(E \ Attended') /\ Cardinality(E \ Attended') <= Cardinality(E)
    BY <2>2, FS_Subset
  <2>4. IsFiniteSet(Endless(disk.entries)) /\ Cardinality(Endless(disk.entries)) <= Slack(faults')
    BY <2>1 DEF ExpireInv
  <2> HIDE DEF E
  <2>5. /\ Cardinality(E) \in Nat /\ Cardinality(E \ Attended') \in Nat
        /\ Slack(faults') \in Nat /\ Slack(faults' + 1) = Slack(faults') + Cardinality(Tasks)
        /\ Cardinality(Tasks) \in Nat /\ Cardinality(Endless(disk.entries)) \in Nat
    BY <2>1, <2>2, <2>3, <2>4, TasksAreFinite, FS_CardinalityType, SlackGrows
  <2>6. /\ Cardinality(E \ Attended') <= Slack(faults')
        /\ Cardinality(Endless(disk.entries)) <= Slack(faults' + 1)
    BY <2>2, <2>3, <2>4, <2>5
  <2> QED
    BY <2>1, <2>2, <2>4, <2>6 DEF ExpireInv, E
<1>10. CASE UNCHANGED vars
  BY <1>q, <1>10 DEF vars, redis, task, Attended, Expiring
<1> QED
  BY <1>1, <1>2, <1>3, <1>4, <1>5, <1>6, <1>7, <1>8, <1>9, <1>10 DEF Next

\* Whatever fails, and wherever the tasks are between HSET and EXPIRE, no fault leaves
\* behind more hashes without a time to live than there are tasks; a snapshot brings
\* back no more of them.
THEOREM EntriesDoExpire == Spec => []EntriesExpire
<1>1. Init => ExpireInv
  <2> SUFFICES ASSUME Init PROVE ExpireInv
    OBVIOUS
  <2>1. Endless(entries) = {} /\ Endless(disk.entries) = {} /\ up /\ faults = 0
    BY DEF Init, Endless
  <2>2. Slack(0) \in Nat /\ Slack(0 + 1) \in Nat
    BY SlackGrows
  <2>3. {} \ Attended = {} /\ 0 + 1 \in Nat
    OBVIOUS
  <2> QED
    BY <2>1, <2>2, <2>3, FS_EmptySet DEF ExpireInv
<1>2. Flow /\ Redis /\ Rest /\ ExpireInv /\ [Next]_vars => ExpireInv'
  BY ExpiryStep DEF Rest
<1>3. ExpireInv => EntriesExpire
  <2>1. {k \in Keys \ Attended : entries[k] # None /\ ~entries[k].ttl} = Endless(entries) \ Attended
    BY DEF Endless
  <2> QED
    BY <2>1 DEF ExpireInv, EntriesExpire, Attended, Expiring, Slack
<1> QED
  BY <1>1, <1>2, <1>3, CountsHold, PTL DEF Spec

-----------------------------------------------------------------------------
(* What is in the index is found                                           *)

LEMMA LeastExists ==
  ASSUME NEW T \in SUBSET Nat, T # {}
  PROVE  \E x \in T : \A y \in T : x <= y
<1>1. PICK x \in T : \A y \in T : ~(<<y, x>> \in OpToRel(<, Nat))
  BY WFMin, NatLessThanWellFounded
<1>2. \A y \in T : ~(y < x)
  BY <1>1 DEF OpToRel
<1>3. ASSUME NEW y \in T PROVE x <= y
  <2>1. x \in Nat /\ y \in Nat /\ ~(y < x)
    BY <1>2
  <2> QED
    BY <2>1
<1> QED
  BY <1>3

\* If one of the hashes in the index is near enough, some are the nearest.
LEMMA NearestExists ==
  ASSUME Flow, NEW t \in Tasks, NEW k \in Indexed(t), Nearness(t, k) >= Threshold
  PROVE  Nearest(t) # {}
<1>1. \A l \in Indexed(t) : l \in Keys
  BY DEF Indexed
<1>2. ASSUME NEW l \in Keys PROVE Nearness(t, l) \in 0..100
  <2>1. PICK s \in Requests : l = Key(s)
    BY DEF Keys
  <2>2. l[2] = Canon(s) /\ req[t] \in Requests
    BY <2>1 DEF Key, Flow, Typed
  <2> QED
    BY <2>2, SemanticCacheAssumption DEF Nearness
<1> DEFINE far(l) == 100 - Nearness(t, l)
           T == {far(l) : l \in Indexed(t)}
<1>3. T \in SUBSET Nat /\ T # {}
  BY <1>1, <1>2
<1>4. PICK x \in T : \A y \in T : x <= y
  <2> HIDE DEF T
  <2> QED
    BY <1>3, LeastExists
<1>5. PICK l \in Indexed(t) : x = far(l)
  BY <1>4
<1>6. \A m \in Indexed(t) : far(l) <= far(m)
  BY <1>4, <1>5
<1>7. \A m \in Indexed(t) : Nearness(t, l) >= Nearness(t, m)
  BY <1>1, <1>2, <1>6
<1>8. Nearness(t, l) >= Threshold
  BY <1>1, <1>2, <1>7, SemanticCacheAssumption
<1> QED
  BY <1>7, <1>8 DEF Nearest

\* A lookup that comes from the search to the model without a fault found nothing, or
\* what it found cannot be read.
LEMMA SearchEnds ==
  ASSUME Flow, [Next]_vars, NEW t \in Tasks, pc[t] = "search", pc'[t] = "model"
  PROVE  HitUnreadable(t) \/ SearchMisses(t)
<1>1. ASSUME NEW u \in Tasks, NEW place, Go(u, place), u # t \/ place # "model"
      PROVE  FALSE
  BY <1>1 DEF Go, Flow, Typed
<1>2. ASSUME NEW u \in Tasks, Step(u)
      PROVE  HitUnreadable(t) \/ SearchMisses(t)
  <2>1. u = t
    <3>1. pc' = pc \/ \E place : Go(u, place)
      BY <1>2 DEF Step, LocalStep, RedisCall, EmbedFails, Embedded, LookupRaises, Create, CreateFails, Hit,
         HitUnreadable, SearchMisses, Miss, AskModel, Partial, ErrorFrame, AnswerUnstored,
         AnswerStored, Recreate, HSet, SetTtl, StoreFails, Go
    <3> QED
      BY <1>1, <3>1
  <2>2. ~Hit(t)
    <3>1. ~Go(t, "idle")
      BY <1>1
    <3> QED
      BY <3>1 DEF Hit
  <2>3. /\ ~EmbedFails(t) /\ ~Embedded(t) /\ ~LookupRaises(t) /\ ~Create(t) /\ ~CreateFails(t)
        /\ ~Partial(t) /\ ~ErrorFrame(t) /\ ~AnswerUnstored(t) /\ ~AnswerStored(t)
        /\ ~Recreate(t) /\ ~HSet(t) /\ ~SetTtl(t) /\ ~StoreFails(t)
    BY DEF EmbedFails, Embedded, LookupRaises, Create, CreateFails, Partial, ErrorFrame,
       AnswerUnstored, AnswerStored, Recreate, HSet, SetTtl, StoreFails
  <2> QED
    BY <1>2, <2>1, <2>2, <2>3 DEF Step, LocalStep, RedisCall
<1>3. ASSUME NEW u \in Tasks, NEW p \in Procs, NEW r \in Requests, Ask(u, p, r)
      PROVE  FALSE
  <2>1. u # t
    BY <1>3 DEF Ask
  <2>2. \E place : Go(u, place)
    BY <1>3 DEF Ask, AskModel
  <2> QED
    BY <1>1, <2>1, <2>2
<1>4. ASSUME NEW p \in Procs, Restart(p)
      PROVE  FALSE
  BY <1>4 DEF Restart, Flow, Typed
<1>5. pc' # pc
  OBVIOUS
<1> QED
  BY <1>2, <1>3, <1>4, <1>5
  DEF Next, Snapshot, RedisDown, RedisUp, Expire, Spoil, task, vars

\* A search does not miss a prompt whose own entry the index holds, whatever else is
\* in the index, if a prompt is as near to itself as the threshold asks.
THEOREM IdenticalAreServed == Spec => IdenticalIsServed
<1>1. ASSUME Flow, [Next]_vars, NEW t \in Tasks,
             pc[t] = "search", pc'[t] = "model",
             Sim(Canon(req[t]), Canon(req[t])) >= Threshold,
             \A l \in Nearest(t) : entries[l].readable
      PROVE  Key(req[t]) \notin Indexed(t)
  <2> SUFFICES ASSUME Key(req[t]) \in Indexed(t) PROVE FALSE
    OBVIOUS
  <2>1. Nearness(t, Key(req[t])) >= Threshold
    BY <1>1 DEF Nearness, Key
  <2>2. Nearest(t) # {}
    BY <1>1, <2>1, NearestExists
  <2>3. HitUnreadable(t) \/ SearchMisses(t)
    BY <1>1, SearchEnds
  <2> QED
    BY <1>1, <2>2, <2>3 DEF HitUnreadable, SearchMisses
<1>2. Flow /\ [Next]_vars =>
        [\A t \in Tasks :
           /\ pc[t] = "search" /\ pc'[t] = "model" /\ faults' = faults
           /\ Sim(Canon(req[t]), Canon(req[t])) >= Threshold
           /\ \A l \in Nearest(t) : entries[l].readable
           => Key(req[t]) \notin Indexed(t)]_vars
  BY <1>1
<1> QED
  BY <1>2, FlowHolds, PTL DEF Spec, IdenticalIsServed

-----------------------------------------------------------------------------
(* While nothing goes wrong                                                *)

\* What a task does when nothing goes wrong.
LEMMA CalmSteps ==
  ASSUME faults = 0, faults' = 0, up, NEW t \in Tasks, Step(t)
  PROVE  /\ \/ Embedded(t) \/ LookupRaises(t) \/ Create(t) \/ Hit(t) \/ HitUnreadable(t)
            \/ SearchMisses(t) \/ AnswerUnstored(t) \/ AnswerStored(t) \/ Recreate(t)
            \/ HSet(t) \/ SetTtl(t)
         /\ up' = up
<1>1. ~Fault
  BY DEF Fault
<1>2. /\ ~EmbedFails(t) /\ ~CreateFails(t) /\ ~Partial(t) /\ ~ErrorFrame(t) /\ ~StoreFails(t)
  BY <1>1 DEF EmbedFails, CreateFails, Partial, ErrorFrame, StoreFails
<1>3. \/ Embedded(t) \/ LookupRaises(t) \/ Create(t) \/ Hit(t) \/ HitUnreadable(t)
      \/ SearchMisses(t) \/ AnswerUnstored(t) \/ AnswerStored(t) \/ Recreate(t)
      \/ HSet(t) \/ SetTtl(t)
  BY <1>2 DEF Step, LocalStep, RedisCall
<1> QED
  BY <1>3 DEF Embedded, LookupRaises, Create, Hit, HitUnreadable, SearchMisses, AnswerUnstored,
     AnswerStored, Recreate, HSet, SetTtl, redis

\* And what else happens then.
LEMMA CalmNext ==
  ASSUME faults = 0, faults' = 0, up, [Next]_vars
  PROVE  \/ \E t \in Tasks : Step(t)
         \/ \E t \in Tasks, p \in Procs, r \in Requests : Ask(t, p, r)
         \/ UNCHANGED <<up, index, entries, processes, task, modelCalls, asks, faults>>
<1>1. ~Fault
  BY DEF Fault
<1> QED
  BY <1>1 DEF Next, Snapshot, RedisDown, RedisUp, Expire, Spoil, Restart, vars, redis

\* One task steps: what it may leave in the index, pending and storing.
LEMMA OneDimStep ==
  ASSUME Flow, Redis, NEW d \in Nat \ {0}, \A p \in Procs : Dim[p] = d, OneDim(d),
         indexDim \in [Procs -> Nat],
         NEW t \in Tasks, Step(t), up, faults = 0, faults' = 0
  PROVE  OneDim(d)'
<1>t. /\ pc \in [Tasks -> Places] /\ pending \in [Tasks -> Pending \cup {None}]
      /\ storing \in [Tasks -> Record \cup {None}] /\ entries \in [Keys -> Hash \cup {None}]
      /\ proc[t] \in Procs /\ Dim[proc[t]] = d
      /\ \A p \in Procs : indexDim[p] \in {0, index}
  BY DEF Flow, Typed, Redis, GenuineStore, OneDim
<1>s. \/ Embedded(t) \/ LookupRaises(t) \/ Create(t) \/ Hit(t) \/ HitUnreadable(t)
      \/ SearchMisses(t) \/ AnswerUnstored(t) \/ AnswerStored(t) \/ Recreate(t)
      \/ HSet(t) \/ SetTtl(t)
  BY CalmSteps
<1>1. CASE Embedded(t) \/ LookupRaises(t)
  <2>1. UNCHANGED <<index, entries, indexDim, pending, storing>>
    BY <1>1 DEF Embedded, LookupRaises, redis, processes
  <2>2. /\ \A u \in Tasks : u # t => pc'[u] = pc[u]
        /\ pc'[t] \in {"search", "hset"} => indexDim[proc[t]] = d
    BY <1>t, <1>1 DEF Embedded, LookupRaises, Go
  <2>3. pc'[t] \in {"search", "hset"} => index = d
    BY <1>t, <2>2
  <2> QED
    BY <2>1, <2>2, <2>3 DEF OneDim
<1>2. CASE Create(t) \/ Recreate(t)
  <2>1. EnsureIndex(t) /\ UNCHANGED <<entries, pending, storing>>
    BY <1>2 DEF Create, Recreate
  <2>2. /\ index' = d /\ (index = 0 \/ index = d)
        /\ \A p \in Procs : indexDim'[p] \in {indexDim[p], d}
    BY <1>t, <2>1 DEF EnsureIndex, OneDim
  <2>3. \A p \in Procs : indexDim'[p] \in {0, index'}
    BY <1>t, <2>2
  <2> QED
    BY <2>1, <2>2, <2>3 DEF OneDim
<1>3. CASE Hit(t) \/ AnswerUnstored(t)
  <2>1. UNCHANGED <<index, entries, indexDim, pending, storing>> /\ pc' = [pc EXCEPT ![t] = "idle"]
    BY <1>3 DEF Hit, AnswerUnstored, redis, processes, Go
  <2>2. pc'[t] = "idle" /\ \A u \in Tasks : u # t => pc'[u] = pc[u]
    BY <1>t, <2>1
  <2> QED
    BY <2>1, <2>2 DEF OneDim
<1>4. CASE HitUnreadable(t) \/ SearchMisses(t)
  <2>1. /\ UNCHANGED <<index, entries, indexDim, storing>> /\ pc' = [pc EXCEPT ![t] = "model"]
        /\ pending' = [pending EXCEPT ![t] = [key |-> Key(req[t]), dim |-> Dim[proc[t]]]]
    BY <1>4 DEF HitUnreadable, SearchMisses, redis, Miss, AskModel, Pend, Go
  <2>2. /\ pc'[t] = "model" /\ pending'[t] = [key |-> Key(req[t]), dim |-> Dim[proc[t]]]
        /\ \A u \in Tasks : u # t => pc'[u] = pc[u] /\ pending'[u] = pending[u]
    BY <1>t, <2>1
  <2>3. pending'[t].dim = d
    BY <1>t, <2>2
  <2> QED
    BY <2>1, <2>2, <2>3 DEF OneDim
<1>5. CASE AnswerStored(t)
  <2>1. /\ UNCHANGED <<index, entries, indexDim>> /\ pending[t] # None
        /\ pending' = [pending EXCEPT ![t] = None]
        /\ pc' = [pc EXCEPT ![t] = IF indexDim[proc[t]] = pending[t].dim
                                    THEN "hset" ELSE "recreate"]
        /\ storing' = [storing EXCEPT ![t] = [key  |-> pending[t].key, dim  |-> pending[t].dim,
                                              resp |-> Answer(t, TRUE)]]
    BY <1>5 DEF AnswerStored, redis, processes, Go
  <2>2. /\ pending'[t] = None
        /\ storing'[t] = [key  |-> pending[t].key, dim  |-> pending[t].dim,
                          resp |-> Answer(t, TRUE)]
        /\ pc'[t] = IF indexDim[proc[t]] = pending[t].dim THEN "hset" ELSE "recreate"
        /\ \A u \in Tasks : u # t => /\ pc'[u] = pc[u] /\ pending'[u] = pending[u]
                                     /\ storing'[u] = storing[u]
    BY <1>t, <2>1
  <2>3. storing'[t].dim = d /\ pending[t].dim = d
    BY <2>1, <2>2 DEF OneDim
  <2>4. pc'[t] \in {"search", "hset"} => index = d
    BY <1>t, <2>2, <2>3
  <2> QED
    BY <2>1, <2>2, <2>3, <2>4 DEF OneDim
<1>6. CASE HSet(t)
  <2>1. /\ UNCHANGED <<index, indexDim, pending, storing>> /\ pc' = [pc EXCEPT ![t] = "expire"]
        /\ pc[t] = "hset"
    BY <1>6 DEF HSet, processes, Go
  <2>2. storing[t] # None /\ storing[t] \in Record /\ storing[t].key \in Keys /\ storing[t].dim = d
    BY <1>t, <2>1 DEF Flow, Stored, OneDim, Record
  <2>3. entries'[storing[t].key] = [dim |-> storing[t].dim, resp |-> storing[t].resp,
                                    readable |-> TRUE, ttl |-> HasTtl(t)]
    BY <1>t, <1>6, <2>2 DEF HSet
  <2>4. /\ entries'[storing[t].key].dim = d /\ entries'[storing[t].key].readable
        /\ \A k \in Keys : k # storing[t].key => entries'[k] = entries[k]
    BY <1>t, <1>6, <2>2, <2>3 DEF HSet
  <2>5. pc'[t] = "expire" /\ \A u \in Tasks : u # t => pc'[u] = pc[u]
    BY <1>t, <2>1
  <2> QED
    BY <2>1, <2>4, <2>5 DEF OneDim
<1>7. CASE SetTtl(t)
  <2> DEFINE k == storing[t].key
  <2>1. /\ UNCHANGED <<index, indexDim, pending>> /\ pc' = [pc EXCEPT ![t] = "idle"]
        /\ storing' = [storing EXCEPT ![t] = None] /\ pc[t] = "expire"
        /\ entries' = [entries EXCEPT ![k] = IF entries[k] = None THEN None
                                              ELSE [entries[k] EXCEPT !.ttl = TRUE]]
    BY <1>7 DEF SetTtl, processes, Go
  <2>2. storing[t] \in Record /\ k \in Keys
    BY <1>t, <2>1 DEF Flow, Stored, Record
  <2> HIDE DEF k
  <2>3. /\ \A l \in Keys : l # k => entries'[l] = entries[l]
        /\ entries'[k] = IF entries[k] = None THEN None ELSE [entries[k] EXCEPT !.ttl = TRUE]
    BY <1>t, <2>1, <2>2
  <2>4. ASSUME entries'[k] # None
        PROVE  entries'[k].dim = d /\ entries'[k].readable
    <3>1. entries[k] # None /\ entries[k] \in Hash
      BY <1>t, <2>2, <2>3, <2>4
    <3>2. /\ [entries[k] EXCEPT !.ttl = TRUE].dim = entries[k].dim
          /\ [entries[k] EXCEPT !.ttl = TRUE].readable = entries[k].readable
      BY <3>1 DEF Hash
    <3> QED
      BY <2>2, <2>3, <3>1, <3>2 DEF OneDim
  <2>5. /\ pc'[t] = "idle" /\ storing'[t] = None
        /\ \A u \in Tasks : u # t => pc'[u] = pc[u] /\ storing'[u] = storing[u]
    BY <1>t, <2>1
  <2> QED
    BY <2>1, <2>3, <2>4, <2>5 DEF OneDim
<1> QED
  BY <1>s, <1>1, <1>2, <1>3, <1>4, <1>5, <1>6, <1>7

LEMMA BlankKeyOf == \A r \in Requests : BlankKey(Key(r)) <=> IsBlank(r)
BY DEF BlankKey, Key, IsBlank

LEMMA KeepingStep ==
  ASSUME Flow, Keeping, NEW t \in Tasks, Step(t), up, faults = 0, faults' = 0
  PROVE  Keeping'
<1>t. pc \in [Tasks -> Places] /\ pending \in [Tasks -> Pending \cup {None}]
  BY DEF Flow, Typed
<1>s. \/ Embedded(t) \/ LookupRaises(t) \/ Create(t) \/ Hit(t) \/ HitUnreadable(t)
      \/ SearchMisses(t) \/ AnswerUnstored(t) \/ AnswerStored(t) \/ Recreate(t)
      \/ HSet(t) \/ SetTtl(t)
  BY CalmSteps
<1>1. CASE HitUnreadable(t) \/ SearchMisses(t)
  <2> DEFINE p == [key |-> Key(req[t]), dim |-> Dim[proc[t]]]
  <2>1. /\ req' = req /\ pc' = [pc EXCEPT ![t] = "model"] /\ pending' = [pending EXCEPT ![t] = p]
    BY <1>1 DEF HitUnreadable, SearchMisses, Miss, AskModel, Pend, Go
  <2>2. p # None
    BY KeyOf, SemanticCacheAssumption, NoneIsNone DEF Flow, Typed, Pending
  <2> HIDE DEF p
  <2> QED
    BY <1>t, <2>1, <2>2 DEF Keeping
<1>2. CASE ~HitUnreadable(t) /\ ~SearchMisses(t)
  <2>1. /\ req' = req
        /\ \E place \in Places \ {"model"} : pc' = [pc EXCEPT ![t] = place]
        /\ \/ pending' = pending
           \/ pending' = [pending EXCEPT ![t] = None]
    BY <1>s, <1>2 DEF Embedded, LookupRaises, Create, Hit, AnswerUnstored, AnswerStored, Recreate,
       HSet, SetTtl, Go, Places
  <2> QED
    BY <1>t, <2>1 DEF Keeping
<1> QED
  BY <1>1, <1>2

LEMMA FewStays ==
  ASSUME NEW k \in Keys, Few(k), modelCalls'[k] = modelCalls[k], Asking(k)' = Asking(k),
         entries'[k] = None => entries[k] = None
  PROVE  Few(k)'
BY DEF Few

\* One more request of a prompt that has no entry: the task that makes it joins those
\* who are about to store one.
LEMMA OneMoreAsks ==
  ASSUME NEW k \in Keys, Few(k), entries[k] = None, modelCalls[k] \in Nat,
         modelCalls'[k] = modelCalls[k] + 1,
         NEW t \in Tasks, t \notin Asking(k), Asking(k)' = Asking(k) \cup {t}
  PROVE  Few(k)'
<1> DEFINE A == Asking(k)
<1>1. A \subseteq Tasks /\ modelCalls[k] <= Cardinality(A)
  BY DEF Few, Asking
<1> HIDE DEF A
<1>2. IsFiniteSet(A) /\ Cardinality(A) \in Nat /\ Cardinality(Tasks) \in Nat
  BY <1>1, TasksAreFinite, FS_Subset, FS_CardinalityType
<1>3. t \notin A
  BY DEF A
<1>4. Cardinality(A \cup {t}) = Cardinality(A) + 1
  BY <1>2, <1>3, FS_AddElement
<1>5. Cardinality(A \cup {t}) <= Cardinality(Tasks)
  BY <1>1, TasksAreFinite, FS_Subset
<1>6. /\ modelCalls'[k] <= Cardinality(A \cup {t})
      /\ modelCalls'[k] <= Cardinality(Tasks)
  BY <1>1, <1>2, <1>4, <1>5
<1>7. Asking(k)' = A \cup {t}
  BY DEF A
<1> QED
  BY <1>6, <1>7 DEF Few

LEMMA FewStep ==
  ASSUME Flow, Redis, CalmSetup, Keeping, \A p \in Procs : OneDim(Dim[p]),
         modelCalls \in [Keys -> Nat],
         NEW t \in Tasks, Step(t), up, faults = 0, faults' = 0,
         NEW k \in Keys, ~BlankKey(k), Few(k)
  PROVE  Few(k)'
<1>t. /\ pc \in [Tasks -> Places] /\ storing \in [Tasks -> Record \cup {None}]
      /\ entries \in [Keys -> Hash \cup {None}]
      /\ proc[t] \in Procs /\ req[t] \in Requests /\ Key(req[t]) \in Keys
  BY KeyOf DEF Flow, Typed, Redis, GenuineStore
<1>s. \/ Embedded(t) \/ LookupRaises(t) \/ Create(t) \/ Hit(t) \/ HitUnreadable(t)
      \/ SearchMisses(t) \/ AnswerUnstored(t) \/ AnswerStored(t) \/ Recreate(t)
      \/ HSet(t) \/ SetTtl(t)
  BY CalmSteps
<1>1. CASE Embedded(t) \/ LookupRaises(t) \/ Create(t) \/ Hit(t)
  <2>1. /\ UNCHANGED <<req, storing, modelCalls, entries>> /\ pc[t] \in {"embed", "create", "search"}
        /\ \E place \in {"search", "create", "idle"} : pc' = [pc EXCEPT ![t] = place]
    BY <1>1 DEF Embedded, LookupRaises, Create, Hit, Go, redis
  <2>2. Asking(k)' = Asking(k)
    BY <1>t, <2>1 DEF Asking
  <2> QED
    BY <2>1, <2>2, FewStays
<1>2. CASE HitUnreadable(t)
  <2>1. PICK l \in Nearest(t) : ~entries[l].readable
    BY <1>2 DEF HitUnreadable
  <2>2. l \in Keys /\ entries[l] # None
    BY <2>1 DEF Nearest, Indexed
  <2> QED
    BY <1>t, <2>1, <2>2 DEF OneDim
<1>3. CASE SearchMisses(t)
  <2>1. /\ UNCHANGED <<req, storing, entries>> /\ pc[t] = "search" /\ Nearest(t) = {}
        /\ pc' = [pc EXCEPT ![t] = "model"]
        /\ modelCalls' = [modelCalls EXCEPT ![Key(req[t])] = @ + 1]
    BY <1>3 DEF SearchMisses, Miss, AskModel, Go, redis
  <2>2. CASE k = Key(req[t])
    <3>1. k[1] = Tag(req[t].model) /\ k[2] = Canon(req[t])
      BY <2>2 DEF Key
    <3>2. Nearness(t, k) >= Threshold
      BY <1>t, <3>1 DEF Nearness, CalmSetup
    <3>3. k \notin Indexed(t)
      BY <2>1, <3>2, NearestExists
    <3>4. entries[k] = None
      BY <1>t, <2>1, <3>1, <3>3 DEF Indexed, OneDim
    <3>5. t \notin Asking(k) /\ Asking(k)' = Asking(k) \cup {t}
      BY <1>t, <2>1, <2>2 DEF Asking
    <3>6. modelCalls'[k] = modelCalls[k] + 1 /\ modelCalls[k] \in Nat
      BY <1>t, <2>1, <2>2
    <3> QED
      BY <3>4, <3>5, <3>6, OneMoreAsks
  <2>3. CASE k # Key(req[t])
    <3>1. Asking(k)' = Asking(k)
      BY <1>t, <2>1, <2>3 DEF Asking
    <3> QED
      BY <2>1, <2>3, <3>1, FewStays
  <2> QED
    BY <2>2, <2>3
<1>4. CASE AnswerUnstored(t)
  <2>1. /\ UNCHANGED <<req, storing, modelCalls, entries>> /\ pc[t] = "model" /\ pending[t] = None
        /\ pc' = [pc EXCEPT ![t] = "idle"]
    BY <1>4 DEF AnswerUnstored, Go, redis
  <2>2. Key(req[t]) # k
    BY <1>t, <2>1, BlankKeyOf DEF Keeping
  <2>3. Asking(k)' = Asking(k)
    BY <1>t, <2>1, <2>2 DEF Asking
  <2> QED
    BY <2>1, <2>3, FewStays
<1>5. CASE AnswerStored(t)
  <2>1. /\ UNCHANGED <<req, modelCalls, entries>> /\ pc[t] = "model" /\ pending[t] # None
        /\ \E place \in {"hset", "recreate"} : pc' = [pc EXCEPT ![t] = place]
        /\ storing' = [storing EXCEPT ![t] = [key  |-> pending[t].key, dim  |-> pending[t].dim,
                                              resp |-> Answer(t, TRUE)]]
    BY <1>5 DEF AnswerStored, Go, redis
  <2>2. pending[t].key = Key(req[t])
    BY <2>1 DEF Flow, Pended
  <2>3. /\ storing'[t].key = Key(req[t]) /\ pc'[t] \in {"hset", "recreate"} /\ req' = req
        /\ \A u \in Tasks : u # t => pc'[u] = pc[u] /\ storing'[u] = storing[u]
    BY <1>t, <2>1, <2>2
  <2>4. Asking(k)' = Asking(k)
    BY <2>1, <2>3 DEF Asking
  <2> QED
    BY <2>1, <2>4, FewStays
<1>6. CASE Recreate(t)
  <2>1. /\ UNCHANGED <<req, storing, modelCalls, entries>> /\ pc[t] = "recreate"
        /\ pc' = [pc EXCEPT ![t] = "hset"]
    BY <1>6 DEF Recreate, Go
  <2>2. Asking(k)' = Asking(k)
    BY <1>t, <2>1 DEF Asking
  <2> QED
    BY <2>1, <2>2, FewStays
<1>7. CASE HSet(t)
  <2> DEFINE l == storing[t].key
             h == [dim |-> storing[t].dim, resp |-> storing[t].resp,
                   readable |-> TRUE, ttl |-> HasTtl(t)]
  <2>1. /\ UNCHANGED <<req, storing, modelCalls>> /\ pc[t] = "hset"
        /\ pc' = [pc EXCEPT ![t] = "expire"] /\ entries' = [entries EXCEPT ![l] = h]
    BY <1>7 DEF HSet, Go
  <2>2. h # None
    BY DEF None
  <2> HIDE DEF h
  <2>3. CASE k = l
    <3>1. entries'[k] # None
      BY <1>t, <2>1, <2>2, <2>3
    <3> QED
      BY <2>1, <3>1 DEF Few
  <2>4. CASE k # l
    <3>1. entries'[k] = entries[k]
      BY <1>t, <2>1, <2>4
    <3>2. Asking(k)' = Asking(k)
      BY <1>t, <2>1, <2>4 DEF Asking
    <3> QED
      BY <2>1, <3>1, <3>2, FewStays
  <2> QED
    BY <2>3, <2>4
<1>8. CASE SetTtl(t)
  <2>1. /\ UNCHANGED <<req, modelCalls>> /\ pc[t] = "expire"
        /\ pc' = [pc EXCEPT ![t] = "idle"] /\ storing' = [storing EXCEPT ![t] = None]
    BY <1>8 DEF SetTtl, Go
  <2>2. Asking(k)' = Asking(k)
    <3>1. /\ pc'[t] = "idle" /\ req' = req
          /\ \A u \in Tasks : u # t => pc'[u] = pc[u] /\ storing'[u] = storing[u]
      BY <1>t, <2>1
    <3> QED
      BY <2>1, <3>1 DEF Asking
  <2>3. entries'[k] = None => entries[k] = None
    <3> SUFFICES ASSUME entries[k] # None PROVE entries'[k] # None
      OBVIOUS
    <3>1. [entries[k] EXCEPT !.ttl = TRUE] # None
      BY <1>t, NoneIsNone DEF Hash
    <3> QED
      BY <1>t, <1>8, <3>1 DEF SetTtl
  <2> QED
    BY <2>1, <2>2, <2>3, FewStays
<1> QED
  BY <1>s, <1>1, <1>2, <1>3, <1>4, <1>5, <1>6, <1>7, <1>8

\* A model call that begins asks the model at once only if its prompt is blank.
LEMMA AskIsCalm ==
  ASSUME Flow, CalmSetup, modelCalls \in [Keys -> Nat],
         NEW t \in Tasks, NEW p \in Procs, NEW r \in Requests, Ask(t, p, r)
  PROVE  /\ \A d : OneDim(d) => OneDim(d)'
         /\ Keeping => Keeping'
         /\ \A k \in Keys : ~BlankKey(k) /\ Few(k) => Few(k)'
<1>1. /\ UNCHANGED <<redis, indexDim, storing>> /\ pc[t] = "idle"
      /\ req' = [req EXCEPT ![t] = r] /\ pending' = [pending EXCEPT ![t] = None]
      /\ \/ IsBlank(r) /\ AskModel(t)
         \/ Go(t, "embed") /\ modelCalls' = modelCalls
  BY DEF Ask, CalmSetup, processes
<1>2. /\ req'[t] = r /\ pending'[t] = None
      /\ \A u \in Tasks : u # t => /\ pc'[u] = pc[u] /\ req'[u] = req[u]
                                   /\ pending'[u] = pending[u]
      /\ pc'[t] \in {"model", "embed"} /\ (pc'[t] = "model" => IsBlank(r))
  BY <1>1 DEF AskModel, Go, Flow, Typed
<1>3. ASSUME NEW d, OneDim(d) PROVE OneDim(d)'
  BY <1>1, <1>2, <1>3 DEF OneDim, redis
<1>4. Keeping => Keeping'
  BY <1>2 DEF Keeping
<1>5. ASSUME NEW k \in Keys, ~BlankKey(k), Few(k) PROVE Few(k)'
  <2>1. BlankKey(Key(r)) <=> IsBlank(r)
    BY BlankKeyOf
  <2>2. modelCalls'[k] = modelCalls[k]
    BY <1>1, <1>2, <1>5, <2>1 DEF AskModel
  <2>3. Asking(k)' = Asking(k)
    BY <1>1, <1>2, <1>5, <2>1 DEF Asking
  <2> QED
    BY <1>1, <1>5, <2>2, <2>3, FewStays DEF redis
<1> QED
  BY <1>3, <1>4, <1>5

LEMMA CalmStep ==
  ASSUME Flow, Redis, Rest, CountInv, CalmInv, [Next]_vars
  PROVE  CalmInv'
<1> SUFFICES ASSUME CalmSetup, faults' = 0
             PROVE  /\ up'
                    /\ \A p \in Procs : OneDim(Dim[p])'
                    /\ Keeping'
                    /\ \A k \in Keys : ~BlankKey(k) => Few(k)'
  BY DEF CalmInv, CalmSetup, BlankKey
<1>1. faults = 0
  <2>1. faults' = faults \/ faults' = faults + 1
    BY DEF Next, Step, LocalStep, RedisCall, EmbedFails, Embedded, LookupRaises, Create, CreateFails, Hit,
       HitUnreadable, SearchMisses, Partial, ErrorFrame, AnswerUnstored, AnswerStored, Recreate,
       HSet, SetTtl, StoreFails, Ask, Snapshot, RedisDown, RedisUp, Expire, Spoil, Restart, vars,
       Fault
  <2> QED
    BY <2>1 DEF Rest
<1>2. /\ up /\ Keeping /\ \A p \in Procs : OneDim(Dim[p])
      /\ \A k \in Keys : ~BlankKey(k) => Few(k)
  BY <1>1 DEF CalmInv
<1>3. ASSUME NEW t \in Tasks, Step(t)
      PROVE  /\ up' /\ Keeping' /\ \A p \in Procs : OneDim(Dim[p])'
             /\ \A k \in Keys : ~BlankKey(k) => Few(k)'
  <2>1. up'
    BY <1>1, <1>2, <1>3, CalmSteps
  <2>2. Keeping'
    BY <1>1, <1>2, <1>3, KeepingStep
  <2>3. ASSUME NEW p \in Procs PROVE OneDim(Dim[p])'
    <3>1. Dim[p] \in Nat \ {0} /\ \A q \in Procs : Dim[q] = Dim[p]
      BY SemanticCacheAssumption DEF CalmSetup
    <3>2. indexDim \in [Procs -> Nat]
      BY DEF Rest
    <3> QED
      BY <1>1, <1>2, <1>3, <3>1, <3>2, OneDimStep
  <2>4. ASSUME NEW k \in Keys, ~BlankKey(k) PROVE Few(k)'
    <3>1. modelCalls \in [Keys -> Nat]
      BY DEF CountInv
    <3> QED
      BY <1>1, <1>2, <1>3, <2>4, <3>1, FewStep
  <2> QED
    BY <2>1, <2>2, <2>3, <2>4
<1>4. ASSUME NEW t \in Tasks, NEW p \in Procs, NEW r \in Requests, Ask(t, p, r)
      PROVE  /\ up' /\ Keeping' /\ \A q \in Procs : OneDim(Dim[q])'
             /\ \A k \in Keys : ~BlankKey(k) => Few(k)'
  <2>1. up'
    BY <1>2, <1>4 DEF Ask, redis
  <2>2. modelCalls \in [Keys -> Nat]
    BY DEF CountInv
  <2> QED
    BY <1>2, <1>4, <2>1, <2>2, AskIsCalm
<1>5. CASE UNCHANGED <<up, index, entries, processes, task, modelCalls, asks, faults>>
  BY <1>2, <1>5 DEF processes, task, OneDim, Keeping, Few, Asking
<1> QED
  BY <1>1, <1>2, <1>3, <1>4, <1>5, CalmNext

\* While nothing goes wrong, however the tasks of all processes interleave, the model
\* itself is asked a prompt no more often than there are tasks to ask it at once.
THEOREM RepeatsSkipTheModel == Spec => []RepeatSkipsTheModel
<1>1. Init => CalmInv
  <2> SUFFICES ASSUME Init PROVE CalmInv
    OBVIOUS
  <2>1. up /\ \A p \in Procs : OneDim(Dim[p])
    BY InitialTasks DEF Init, OneDim
  <2>2. Keeping
    BY InitialTasks DEF Keeping
  <2>3. ASSUME NEW k \in Keys PROVE Few(k)
    <3>1. modelCalls[k] = 0 /\ Asking(k) = {}
      BY InitialTasks DEF Init, Asking
    <3>2. Cardinality(Tasks) \in Nat /\ Cardinality({}) = 0
      BY TasksAreFinite, FS_CardinalityType, FS_EmptySet
    <3> QED
      BY <3>1, <3>2 DEF Few
  <2> QED
    BY <2>1, <2>2, <2>3 DEF CalmInv
<1>2. Flow /\ Redis /\ Rest /\ CountInv /\ CalmInv /\ [Next]_vars => CalmInv'
  BY CalmStep
<1>3. CalmInv => RepeatSkipsTheModel
  BY KeyOf, BlankKeyOf DEF CalmInv, CalmSetup, RepeatSkipsTheModel, Few
<1> QED
  BY <1>1, <1>2, <1>3, CountsHold, PTL DEF Spec
-----------------------------------------------------------------------------
(* What is stored                                                          *)

\* A miss that the model is asked about has its record pending.
MissedIsPending ==
  \A t \in Tasks :
    /\ pc[t] = "embed" => missed[t] = FALSE
    /\ pc[t] = "model" /\ missed[t] => pending[t] # None

LEMMA MissedStays ==
  ASSUME Flow, Rest, MissedIsPending, NEW t \in Tasks, Step(t), ~Partial(t)
  PROVE  MissedIsPending'
<1>t. /\ pc \in [Tasks -> Places] /\ pending \in [Tasks -> Pending \cup {None}]
      /\ missed \in [Tasks -> BOOLEAN]
  BY DEF Flow, Typed, Rest
<1>1. CASE EmbedFails(t)
  <2>1. /\ pc' = [pc EXCEPT ![t] = "model"] /\ pending' = pending /\ missed' = missed
        /\ pc[t] = "embed"
    BY <1>1 DEF EmbedFails, AskModel, Go
  <2> QED
    BY <1>t, <2>1 DEF MissedIsPending
<1>2. CASE CreateFails(t) \/ HitUnreadable(t) \/ SearchMisses(t)
  <2> DEFINE p == [key |-> Key(req[t]), dim |-> Dim[proc[t]]]
  <2>1. /\ pc' = [pc EXCEPT ![t] = "model"] /\ pending' = [pending EXCEPT ![t] = p]
        /\ missed' = [missed EXCEPT ![t] = TRUE]
    BY <1>2 DEF CreateFails, HitUnreadable, SearchMisses, Miss, AskModel, Pend, Go
  <2>2. p # None
    BY KeyOf, SemanticCacheAssumption, NoneIsNone DEF Flow, Typed, Pending
  <2> HIDE DEF p
  <2> QED
    BY <1>t, <2>1, <2>2 DEF MissedIsPending
<1>3. CASE ~EmbedFails(t) /\ ~CreateFails(t) /\ ~HitUnreadable(t) /\ ~SearchMisses(t)
  <2>1. missed' = missed /\ (pending' = pending \/ pending' = [pending EXCEPT ![t] = None])
    BY <1>3 DEF Step, LocalStep, RedisCall, Embedded, LookupRaises, Create, Hit, ErrorFrame, AnswerUnstored,
       AnswerStored, Recreate, HSet, SetTtl, StoreFails
  <2>2. \E place \in Places \ {"embed", "model"} : pc' = [pc EXCEPT ![t] = place]
    BY <1>3 DEF Step, LocalStep, RedisCall, Embedded, LookupRaises, Create, Hit, ErrorFrame, AnswerUnstored,
       AnswerStored, Recreate, HSet, SetTtl, StoreFails, Go, Places
  <2> QED
    BY <1>t, <2>1, <2>2 DEF MissedIsPending
<1> QED
  BY <1>1, <1>2, <1>3

LEMMA MissedStep ==
  ASSUME Flow, Rest, MissedIsPending, [Next]_vars, \A t \in Tasks : ~Partial(t)
  PROVE  MissedIsPending'
<1>t. /\ pc \in [Tasks -> Places] /\ pending \in [Tasks -> Pending \cup {None}]
      /\ missed \in [Tasks -> BOOLEAN]
  BY DEF Flow, Typed, Rest
<1>1. ASSUME NEW t \in Tasks, NEW p \in Procs, NEW r \in Requests, Ask(t, p, r)
      PROVE  MissedIsPending'
  <2>1. /\ missed' = [missed EXCEPT ![t] = FALSE] /\ pending' = [pending EXCEPT ![t] = None]
        /\ \E place \in {"model", "embed"} : pc' = [pc EXCEPT ![t] = place]
    BY <1>1 DEF Ask, AskModel, Go
  <2> QED
    BY <1>t, <2>1 DEF MissedIsPending
<1>2. ASSUME NEW p \in Procs, Restart(p)
      PROVE  MissedIsPending'
  BY <1>2 DEF Restart, MissedIsPending
<1>3. CASE UNCHANGED task
  BY <1>3 DEF task, MissedIsPending
<1> QED
  BY <1>1, <1>2, <1>3, MissedStays
  DEF Next, Snapshot, RedisDown, RedisUp, Expire, Spoil, vars

\* The whole answer after a miss goes to store().
LEMMA MissIsStored ==
  ASSUME Flow, Serving, MissedIsPending, [Next]_vars, \A t \in Tasks : ~Partial(t),
         NEW t \in Tasks, pc[t] = "model", missed[t], pc'[t] # "model",
         got'[t] # None, got'[t].resp.whole
  PROVE  storing'[t] # None
<1>t. /\ pc \in [Tasks -> Places] /\ got \in [Tasks -> [resp : Response, cached : BOOLEAN] \cup {None}]
      /\ storing \in [Tasks -> Record \cup {None}] /\ pending[t] # None
  BY DEF Flow, Typed, Serving, MissedIsPending
<1>1. ASSUME NEW u \in Tasks, Step(u)
      PROVE  storing'[t] # None
  <2>1. u = t
    <3>1. pc' = pc \/ \E place : Go(u, place)
      BY <1>1 DEF Step, LocalStep, RedisCall, EmbedFails, Embedded, LookupRaises, Create, CreateFails, Hit,
         HitUnreadable, SearchMisses, Miss, AskModel, Partial, ErrorFrame, AnswerUnstored,
         AnswerStored, Recreate, HSet, SetTtl, StoreFails, Go
    <3> QED
      BY <1>t, <3>1 DEF Go
  <2>2. ErrorFrame(t) \/ AnswerUnstored(t) \/ AnswerStored(t)
    BY <1>1, <2>1 DEF Step, LocalStep, RedisCall, EmbedFails, Embedded, LookupRaises, Create, CreateFails, Hit,
       HitUnreadable, SearchMisses, Recreate, HSet, SetTtl, StoreFails
  <2>3. ~AnswerUnstored(t)
    BY <1>t DEF AnswerUnstored
  <2>4. ~ErrorFrame(t)
    <3> SUFFICES ASSUME ErrorFrame(t) PROVE FALSE
      OBVIOUS
    <3>1. got'[t] = [resp |-> Answer(t, FALSE), cached |-> FALSE]
      BY <1>t DEF ErrorFrame
    <3> QED
      BY <3>1 DEF Answer
  <2>5. AnswerStored(t)
    BY <2>2, <2>3, <2>4
  <2>6. storing'[t] = [key |-> pending[t].key, dim |-> pending[t].dim, resp |-> Answer(t, TRUE)]
    BY <1>t, <2>5 DEF AnswerStored
  <2> QED
    BY <2>6 DEF None
<1>2. ASSUME NEW u \in Tasks, NEW p \in Procs, NEW r \in Requests, Ask(u, p, r)
      PROVE  FALSE
  <2>1. u # t /\ \E place : Go(u, place)
    BY <1>2 DEF Ask, AskModel
  <2> QED
    BY <1>t, <2>1 DEF Go
<1>3. ASSUME NEW p \in Procs, Restart(p)
      PROVE  FALSE
  BY <1>t, <1>3 DEF Restart
<1>4. pc' # pc
  OBVIOUS
<1> QED
  BY <1>1, <1>2, <1>3, <1>4
  DEF Next, Snapshot, RedisDown, RedisUp, Expire, Spoil, task, vars

\* semantic_cache.py:6, as far as it is true: as long as no answer comes in partial
\* frames, every whole answer after a miss goes to store(), whatever else fails.
THEOREM FreshIsStoredUnlessPartial ==
  Spec /\ [][\A t \in Tasks : ~Partial(t)]_vars => FreshIsStored
<1>1. Init => Serving /\ MissedIsPending
  BY InitialTasks DEF Init, Serving, MissedIsPending
<1>2. Flow /\ Redis /\ Serving /\ [Next]_vars => Serving'
  BY ServingStep
<1>3. Flow /\ Rest /\ MissedIsPending /\ [Next]_vars /\ [\A t \in Tasks : ~Partial(t)]_vars
        => MissedIsPending'
  <2>1. CASE UNCHANGED vars
    BY <2>1 DEF vars, task, MissedIsPending
  <2> QED
    BY <2>1, MissedStep
<1>4. Flow /\ Serving /\ MissedIsPending /\ [Next]_vars /\ [\A t \in Tasks : ~Partial(t)]_vars
        => [\A t \in Tasks :
              /\ pc[t] = "model" /\ missed[t]
              /\ pc'[t] # "model" /\ got'[t] # None /\ got'[t].resp.whole
              => storing'[t] # None]_vars
  BY MissIsStored
<1> QED
  BY <1>1, <1>2, <1>3, <1>4, FlowHolds, CountsHold, PTL DEF Spec, FreshIsStored
=============================================================================
