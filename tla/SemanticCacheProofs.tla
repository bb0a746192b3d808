------------------------- MODULE SemanticCacheProofs -------------------------
(***************************************************************************)
(* What the cache holds and serves is genuine, for any number of processes *)
(* and tasks, any requests, and any similarity that is symmetric.          *)
(*                                                                         *)
(* The argument follows a record on its way: what is pending in the        *)
(* context of a task has the key of the request of that task (Pended),     *)
(* what store() is given is a whole answer to a request with its key       *)
(* (Stored), and so is every hash in Redis and in its snapshot (Genuine).  *)
(***************************************************************************)
EXTENDS SemanticCache, TLAPS

Record == [key : Keys, dim : Nat, resp : Response]

\* A hash that may be found under the key.
Genuine(k, h) == h \in Hash /\ h.resp.whole = TRUE /\ Key(h.resp.to) = k

GenuineStore(es) ==
  /\ es \in [Keys -> Hash \cup {None}]
  /\ \A k \in Keys : es[k] # None => Genuine(k, es[k])

\* The parts of the type invariant that the argument needs.
Typed ==
  /\ pc \in [Tasks -> Places]
  /\ proc \in [Tasks -> Procs]
  /\ req \in [Tasks -> Requests]
  /\ pending \in [Tasks -> Pending \cup {None}]
  /\ storing \in [Tasks -> Record \cup {None}]

Pended ==
  \A t \in Tasks : pending[t] # None => pc[t] = "model" /\ pending[t].key = Key(req[t])

Stored ==
  \A t \in Tasks :
    /\ storing[t] # None => storing[t].resp.whole = TRUE /\ Key(storing[t].resp.to) = storing[t].key
    /\ pc[t] \in {"recreate", "hset", "expire"} => storing[t] # None

Flow == Typed /\ Pended /\ Stored

Redis == GenuineStore(entries) /\ GenuineStore(disk.entries)

-----------------------------------------------------------------------------
(* Records                                                                 *)

LEMMA NoneIsNone ==
  /\ \A x \in Hash : x # None
  /\ \A x \in Pending : x # None
  /\ \A x \in Record : x # None
BY DEF Hash, Pending, Record, None

LEMMA KeyOf == \A r \in Requests : Key(r) \in Keys
BY DEF Keys

LEMMA HashMade ==
  ASSUME NEW s \in Record, s.resp.whole = TRUE, Key(s.resp.to) = s.key, NEW b \in BOOLEAN
  PROVE  Genuine(s.key, [dim |-> s.dim, resp |-> s.resp, readable |-> TRUE, ttl |-> b])
BY DEF Record, Genuine, Hash

LEMMA HashChanged ==
  ASSUME NEW k, NEW h, Genuine(k, h)
  PROVE  Genuine(k, [h EXCEPT !.ttl = TRUE]) /\ Genuine(k, [h EXCEPT !.readable = FALSE])
BY DEF Genuine, Hash

LEMMA StoreChanged ==
  ASSUME NEW es, GenuineStore(es), NEW k \in Keys, NEW h, Genuine(k, h) \/ h = None
  PROVE  GenuineStore([es EXCEPT ![k] = h])
BY DEF GenuineStore, Genuine

-----------------------------------------------------------------------------
(* Redis                                                                   *)

LEMMA HSetKeeps ==
  ASSUME Flow, GenuineStore(entries), NEW t \in Tasks, HSet(t)
  PROVE  GenuineStore(entries')
<1> DEFINE s == storing[t]
           b == HasTtl(t)
<1>1. s \in Record /\ s.resp.whole = TRUE /\ Key(s.resp.to) = s.key
  BY DEF HSet, Flow, Stored, Typed
<1>2. entries' = [entries EXCEPT ![s.key] =
                    [dim |-> s.dim, resp |-> s.resp, readable |-> TRUE, ttl |-> b]]
  BY DEF HSet
<1>3. b \in BOOLEAN
  <2>1. s.key \in Keys
    BY <1>1 DEF Record
  <2>2. entries[s.key] # None => entries[s.key].ttl \in BOOLEAN
    BY <2>1 DEF GenuineStore, Hash
  <2> QED
    BY <2>2 DEF HasTtl
<1> HIDE DEF s, b
<1>4. s.key \in Keys
  BY <1>1 DEF Record
<1>5. Genuine(s.key, [dim |-> s.dim, resp |-> s.resp, readable |-> TRUE, ttl |-> b])
  BY <1>1, <1>3, HashMade
<1> QED
  BY <1>2, <1>4, <1>5, StoreChanged

LEMMA SetTtlKeeps ==
  ASSUME Flow, GenuineStore(entries), NEW t \in Tasks, SetTtl(t)
  PROVE  GenuineStore(entries')
<1> DEFINE k == storing[t].key
           h == IF entries[k] = None THEN None ELSE [entries[k] EXCEPT !.ttl = TRUE]
<1>1. k \in Keys
  BY DEF SetTtl, Flow, Stored, Typed, Record
<1>2. entries' = [entries EXCEPT ![k] = h]
  BY <1>1 DEF SetTtl, GenuineStore
<1>3. Genuine(k, h) \/ h = None
  BY <1>1, HashChanged DEF GenuineStore
<1> HIDE DEF k, h
<1> QED
  BY <1>1, <1>2, <1>3, StoreChanged

LEMMA SpoilKeeps ==
  ASSUME GenuineStore(entries), NEW k \in Keys, Spoil(k)
  PROVE  GenuineStore(entries')
<1> DEFINE h == [entries[k] EXCEPT !.readable = FALSE]
<1>1. entries' = [entries EXCEPT ![k] = h]
  BY DEF Spoil, GenuineStore
<1>2. Genuine(k, h)
  BY HashChanged DEF GenuineStore, Spoil
<1> HIDE DEF h
<1> QED
  BY <1>1, <1>2, StoreChanged

LEMMA ExpireKeeps ==
  ASSUME GenuineStore(entries), NEW k \in Keys, Expire(k)
  PROVE  GenuineStore(entries')
BY StoreChanged DEF Expire

LEMMA RedisStep ==
  ASSUME Flow, Redis, [Next]_vars
  PROVE  Redis'
<1>1. GenuineStore(entries) /\ GenuineStore(disk.entries)
  BY DEF Redis
<1>2. CASE \E t \in Tasks : HSet(t) \/ SetTtl(t)
  BY <1>1, <1>2, HSetKeeps, SetTtlKeeps DEF HSet, SetTtl, Redis
<1>3. CASE \E k \in Keys : Expire(k) \/ Spoil(k)
  BY <1>1, <1>3, ExpireKeeps, SpoilKeeps DEF Expire, Spoil, Redis
<1>4. CASE Snapshot
  BY <1>1, <1>4 DEF Snapshot, Redis
<1>5. CASE RedisDown
  BY <1>1, <1>5 DEF RedisDown, Redis
<1>6. CASE entries' = entries /\ disk' = disk
  BY <1>1, <1>6 DEF Redis
<1>7. ASSUME NEW t \in Tasks, Step(t), ~HSet(t), ~SetTtl(t)
      PROVE  entries' = entries /\ disk' = disk
  BY <1>7 DEF Step, LocalStep, RedisCall, EmbedFails, Embedded, LookupRaises, Create, CreateFails, Hit, HitUnreadable,
     SearchMisses, Partial, ErrorFrame, AnswerUnstored, AnswerStored, Recreate, StoreFails, redis
<1> QED
  BY <1>2, <1>3, <1>4, <1>5, <1>6, <1>7
  DEF Next, Ask, RedisUp, Restart, redis, vars

-----------------------------------------------------------------------------
(* The way of a record                                                     *)

\* A step of one task: what it may leave pending and storing.
LEMMA TaskStep ==
  ASSUME Flow, NEW t \in Tasks,
         NEW place \in Places, NEW p \in Pending \cup {None}, NEW s \in Record \cup {None},
         pc' = [pc EXCEPT ![t] = place], proc' = proc, req' = req,
         pending' = [pending EXCEPT ![t] = p], storing' = [storing EXCEPT ![t] = s],
         p # None => place = "model" /\ p.key = Key(req[t]),
         s # None => s.resp.whole = TRUE /\ Key(s.resp.to) = s.key,
         place \in {"recreate", "hset", "expire"} => s # None
  PROVE  Flow'
<1>1. Typed'
  BY DEF Flow, Typed
<1>2. /\ pc'[t] = place /\ pending'[t] = p /\ storing'[t] = s
      /\ \A u \in Tasks : u # t => /\ pc'[u] = pc[u] /\ pending'[u] = pending[u]
                                   /\ storing'[u] = storing[u]
  BY DEF Flow, Typed
<1>3. Pended'
  BY <1>2 DEF Flow, Pended
<1>4. Stored'
  BY <1>2 DEF Flow, Stored
<1> QED
  BY <1>1, <1>3, <1>4 DEF Flow

\* A step after which nothing is pending, and that leaves what is stored alone.
LEMMA QuietStep ==
  ASSUME Flow, NEW t \in Tasks, NEW place \in Places,
         pc' = [pc EXCEPT ![t] = place], proc' = proc, req' = req,
         pending' = [pending EXCEPT ![t] = None], storing' = storing,
         place \in {"recreate", "hset", "expire"} => storing[t] # None
  PROVE  Flow'
<1> DEFINE s == storing[t]
<1>1. /\ s \in Record \cup {None} /\ storing' = [storing EXCEPT ![t] = s]
      /\ s # None => s.resp.whole = TRUE /\ Key(s.resp.to) = s.key
      /\ place \in {"recreate", "hset", "expire"} => s # None
  BY DEF Flow, Typed, Stored
<1> HIDE DEF s
<1> DEFINE p == None
<1>2. p \in Pending \cup {None} /\ p = None /\ pending' = [pending EXCEPT ![t] = p]
  OBVIOUS
<1> HIDE DEF p
<1> QED
  BY <1>1, <1>2, TaskStep

\* A step that leaves both alone, or clears them.
LEMMA Leaves ==
  ASSUME Flow, NEW t \in Tasks,
         \/ EmbedFails(t) \/ Embedded(t) \/ LookupRaises(t) \/ Create(t) \/ Hit(t)
         \/ Partial(t) \/ ErrorFrame(t) \/ AnswerUnstored(t)
         \/ Recreate(t) \/ HSet(t) \/ SetTtl(t) \/ StoreFails(t)
  PROVE  Flow'
<1> USE DEF Flow
<1>1. pending[t] # None => pc[t] = "model"
  BY DEF Pended
<1>2. /\ pc \in [Tasks -> Places] /\ pending \in [Tasks -> Pending \cup {None}]
      /\ storing \in [Tasks -> Record \cup {None}]
  BY DEF Typed
<1>3. /\ pc[t] \in {"recreate", "hset", "expire"} => storing[t] # None
      /\ storing[t] # None => storing[t].resp.whole = TRUE /\ Key(storing[t].resp.to) = storing[t].key
  BY DEF Stored
<1>4. /\ pending = [pending EXCEPT ![t] = pending[t]]
      /\ storing = [storing EXCEPT ![t] = storing[t]]
      /\ pc = [pc EXCEPT ![t] = pc[t]]
  BY <1>2
<1>5. None \in Pending \cup {None} /\ None \in Record \cup {None} /\ pc[t] \in Places
      /\ pending[t] \in Pending \cup {None} /\ storing[t] \in Record \cup {None}
  BY <1>2
<1>6. CASE EmbedFails(t) \/ Embedded(t) \/ LookupRaises(t) \/ Create(t) \/ Hit(t)
  <2>1. pending[t] = None
    BY <1>1, <1>6 DEF EmbedFails, Embedded, LookupRaises, Create, Hit
  <2>2. PICK place \in {"model", "search", "create", "idle"} : pc' = [pc EXCEPT ![t] = place]
    BY <1>6 DEF EmbedFails, Embedded, LookupRaises, Create, Hit, AskModel, Go
  <2>3. proc' = proc /\ req' = req /\ pending' = pending /\ storing' = storing
    BY <1>6 DEF EmbedFails, Embedded, LookupRaises, Create, Hit
  <2> QED
    BY <1>4, <2>1, <2>2, <2>3, QuietStep DEF Places
<1>7. CASE Partial(t) \/ ErrorFrame(t) \/ AnswerUnstored(t)
  <2>1. PICK place \in {"model", "idle"} : pc' = [pc EXCEPT ![t] = place]
    BY <1>4, <1>7 DEF Partial, ErrorFrame, AnswerUnstored, Go
  <2>2. proc' = proc /\ req' = req /\ pending' = [pending EXCEPT ![t] = None] /\ storing' = storing
    BY <1>4, <1>7 DEF Partial, ErrorFrame, AnswerUnstored
  <2> QED
    BY <2>1, <2>2, QuietStep DEF Places
<1>8. CASE Recreate(t) \/ HSet(t)
  <2>1. PICK place \in {"hset", "expire"} : pc' = [pc EXCEPT ![t] = place]
    BY <1>8 DEF Recreate, HSet, Go
  <2>2. /\ proc' = proc /\ req' = req /\ pending' = pending /\ storing' = storing
        /\ pending[t] = None /\ storing[t] # None
    BY <1>1, <1>3, <1>8 DEF Recreate, HSet
  <2> QED
    BY <1>4, <2>1, <2>2, QuietStep DEF Places
<1>9. CASE SetTtl(t) \/ StoreFails(t)
  <2>1. /\ pc' = [pc EXCEPT ![t] = "idle"] /\ proc' = proc /\ req' = req /\ pending' = pending
        /\ storing' = [storing EXCEPT ![t] = None] /\ pending[t] = None
    BY <1>1, <1>9 DEF SetTtl, StoreFails, Go
  <2> QED
    BY <1>4, <1>5, <2>1, TaskStep DEF Places
<1> QED
  BY <1>6, <1>7, <1>8, <1>9

\* A miss: what is pending has the key of this request.
LEMMA MissPends ==
  ASSUME Flow, NEW t \in Tasks, CreateFails(t) \/ HitUnreadable(t) \/ SearchMisses(t)
  PROVE  Flow'
<1> DEFINE p == [key |-> Key(req[t]), dim |-> Dim[proc[t]]]
<1>1. p \in Pending /\ p.key = Key(req[t])
  BY KeyOf, SemanticCacheAssumption DEF Flow, Typed, Pending
<1>2. pending' = [pending EXCEPT ![t] = p]
  BY DEF CreateFails, HitUnreadable, SearchMisses, Miss, Pend
<1> HIDE DEF p
<1>3. /\ pc' = [pc EXCEPT ![t] = "model"] /\ proc' = proc /\ req' = req /\ storing' = storing
  BY DEF CreateFails, HitUnreadable, SearchMisses, Miss, AskModel, Go
<1>4. storing' = [storing EXCEPT ![t] = storing[t]] /\ storing[t] \in Record \cup {None}
  BY <1>3 DEF Flow, Typed
<1>5. storing[t] # None => storing[t].resp.whole = TRUE /\ Key(storing[t].resp.to) = storing[t].key
  BY DEF Flow, Stored
<1> QED
  BY <1>1, <1>2, <1>3, <1>4, <1>5, TaskStep DEF Places

\* The answer to this request is stored under the key of this request.
LEMMA AnswerIsStored ==
  ASSUME Flow, NEW t \in Tasks, AnswerStored(t)
  PROVE  Flow'
<1> DEFINE s == [key |-> pending[t].key, dim |-> pending[t].dim, resp |-> Answer(t, TRUE)]
<1>1. pending[t] \in Pending /\ pending[t].key = Key(req[t]) /\ req[t] \in Requests
  BY DEF AnswerStored, Flow, Typed, Pended
<1>2. Answer(t, TRUE) \in Response /\ Answer(t, TRUE).whole = TRUE /\ Answer(t, TRUE).to = req[t]
  BY <1>1 DEF Answer, Response
<1>3. s \in Record /\ s.resp.whole = TRUE /\ Key(s.resp.to) = s.key
  BY <1>1, <1>2 DEF Record, Pending
<1>4. storing' = [storing EXCEPT ![t] = s]
  BY DEF AnswerStored
<1> HIDE DEF s
<1>5. s # None
  BY <1>3, NoneIsNone
<1>6. /\ \E place \in {"hset", "recreate"} : pc' = [pc EXCEPT ![t] = place]
      /\ proc' = proc /\ req' = req /\ pending' = [pending EXCEPT ![t] = None]
  BY DEF AnswerStored, Go
<1>7. None \in Pending \cup {None}
  OBVIOUS
<1> QED
  BY <1>3, <1>4, <1>5, <1>6, <1>7, TaskStep DEF Places

LEMMA AskKeeps ==
  ASSUME Flow, NEW t \in Tasks, NEW p \in Procs, NEW r \in Requests, Ask(t, p, r)
  PROVE  Flow'
<1>1. \E place \in {"model", "embed"} : pc' = [pc EXCEPT ![t] = place]
  BY DEF Ask, AskModel, Go
<1>2. /\ proc' = [proc EXCEPT ![t] = p] /\ req' = [req EXCEPT ![t] = r]
      /\ pending' = [pending EXCEPT ![t] = None] /\ storing' = storing
  BY DEF Ask
<1>3. Typed'
  BY <1>1, <1>2 DEF Flow, Typed, Places
<1>4. /\ pc'[t] \in {"model", "embed"} /\ pending'[t] = None
      /\ \A u \in Tasks : u # t => pc'[u] = pc[u] /\ pending'[u] = pending[u] /\ req'[u] = req[u]
  BY <1>1, <1>2 DEF Flow, Typed
<1>5. Pended'
  BY <1>4 DEF Flow, Pended
<1>6. Stored'
  BY <1>2, <1>4 DEF Flow, Stored
<1> QED
  BY <1>3, <1>5, <1>6 DEF Flow

LEMMA RestartClears ==
  ASSUME Flow, NEW p \in Procs, Restart(p)
  PROVE  Flow'
<1>1. Typed'
  BY DEF Restart, Flow, Typed, Places
<1>2. \A t \in Tasks :
        /\ proc[t] = p => pc'[t] = "idle" /\ pending'[t] = None /\ storing'[t] = None
        /\ proc[t] # p => pc'[t] = pc[t] /\ pending'[t] = pending[t] /\ storing'[t] = storing[t]
        /\ req'[t] = req[t]
  BY DEF Restart
<1>3. Pended' /\ Stored'
  BY <1>2 DEF Flow, Pended, Stored
<1> QED
  BY <1>1, <1>3 DEF Flow

LEMMA FlowStep ==
  ASSUME Flow, [Next]_vars
  PROVE  Flow'
<1>1. ASSUME NEW t \in Tasks, Step(t)
      PROVE  Flow'
  BY <1>1, Leaves, MissPends, AnswerIsStored DEF Step, LocalStep, RedisCall
<1>2. CASE UNCHANGED task
  BY <1>2 DEF task, Flow, Typed, Pended, Stored
<1> QED
  BY <1>1, <1>2, AskKeeps, RestartClears
  DEF Next, Snapshot, RedisDown, RedisUp, Expire, Spoil, vars

LEMMA FlowHolds == Spec => [](Flow /\ Redis)
<1>1. ASSUME Init PROVE Flow /\ Redis
  <2>1. \A t \in Tasks : pc[t] = "idle" /\ pending[t] = None /\ storing[t] = None
    BY <1>1 DEF Init
  <2>2. ASSUME NEW t \in Tasks PROVE proc[t] \in Procs /\ req[t] \in Requests
    BY <1>1, InstanceExists DEF Init
  <2>3. Typed
    BY <1>1, <2>1, <2>2 DEF Init, Typed, Places
  <2>4. Redis
    BY <1>1 DEF Init, Redis, GenuineStore
  <2> QED
    BY <2>1, <2>3, <2>4 DEF Flow, Pended, Stored
<1>2. Flow /\ Redis /\ [Next]_vars => Flow' /\ Redis'
  BY FlowStep, RedisStep
<1> QED
  BY <1>1, <1>2, PTL DEF Spec

-----------------------------------------------------------------------------
\* Redis, and its snapshot, hold whole answers of the model to the prompts of their
\* keys: fail-open, the interleaving of tasks and what Redis loses put nothing else in.
THEOREM EntriesAreGenuine == Spec => []EntryIsGenuine
<1>1. Redis => EntryIsGenuine
  BY DEF Redis, GenuineStore, Genuine, EntryIsGenuine
<1> QED
  BY <1>1, FlowHolds, PTL

-----------------------------------------------------------------------------
(* What is served                                                          *)

Similar(t) ==
  got[t].cached = TRUE =>
    LET answered == got[t].resp.to
    IN  /\ got[t].resp.whole = TRUE
        /\ Tag(answered.model) = Tag(req[t].model)
        /\ Sim(Canon(answered), Canon(req[t])) >= Threshold

Serving ==
  /\ got \in [Tasks -> [resp : Response, cached : BOOLEAN] \cup {None}]
  /\ \A t \in Tasks : got[t] # None => Similar(t)

\* What Hit returns.
LEMMA HitIsSimilar ==
  ASSUME Flow, GenuineStore(entries), Serving, NEW t \in Tasks, Hit(t)
  PROVE  Serving'
<1>1. PICK k \in Nearest(t) : got' = [got EXCEPT ![t] = [resp |-> entries[k].resp, cached |-> TRUE]]
  BY DEF Hit
<1> DEFINE h == entries[k]
           g == [resp |-> h.resp, cached |-> TRUE]
<1>2. /\ k \in Keys /\ h # None /\ k[1] = Tag(req[t].model)
      /\ Sim(Canon(req[t]), k[2]) >= Threshold
  BY DEF Nearest, Indexed, Nearness
<1>3. Genuine(k, h)
  BY <1>2 DEF GenuineStore
<1>4. h.resp \in Response /\ h.resp.whole = TRUE /\ h.resp.to \in Requests /\ Key(h.resp.to) = k
  BY <1>3 DEF Genuine, Hash, Response
<1>5. k[1] = Tag(h.resp.to.model) /\ k[2] = Canon(h.resp.to)
  BY <1>4 DEF Key
<1>6. req[t] \in Requests /\ req' = req
  BY DEF Flow, Typed, Hit
<1>7. Sim(Canon(h.resp.to), Canon(req[t])) >= Threshold
  BY <1>2, <1>4, <1>5, <1>6, SemanticCacheAssumption
<1>8. /\ g \in [resp : Response, cached : BOOLEAN] /\ g.resp = h.resp
      /\ got' = [got EXCEPT ![t] = g]
  BY <1>1, <1>4
<1> HIDE DEF g
<1>9. got' \in [Tasks -> [resp : Response, cached : BOOLEAN] \cup {None}]
  BY <1>8 DEF Serving
<1>10. got'[t] = g /\ \A u \in Tasks : u # t => got'[u] = got[u]
  BY <1>8 DEF Serving
<1>11. ASSUME NEW u \in Tasks, got'[u] # None PROVE Similar(u)'
  <2>1. CASE u = t
    BY <2>1, <1>2, <1>4, <1>5, <1>6, <1>7, <1>8, <1>10 DEF Similar
  <2>2. CASE u # t
    BY <2>2, <1>6, <1>10, <1>11 DEF Similar, Serving
  <2> QED
    BY <2>1, <2>2
<1> QED
  BY <1>9, <1>11 DEF Serving

\* What the model itself answers is not cached.
LEMMA ModelAnswers ==
  ASSUME Flow, Serving, NEW t \in Tasks, ErrorFrame(t) \/ AnswerUnstored(t) \/ AnswerStored(t)
  PROVE  Serving'
<1>1. PICK whole \in BOOLEAN : got' = [got EXCEPT ![t] = [resp |-> Answer(t, whole), cached |-> FALSE]]
  BY DEF ErrorFrame, AnswerUnstored, AnswerStored
<1> DEFINE g == [resp |-> Answer(t, whole), cached |-> FALSE]
<1>2. g \in [resp : Response, cached : BOOLEAN] /\ g.cached = FALSE /\ got' = [got EXCEPT ![t] = g]
  BY <1>1 DEF Answer, Response, Flow, Typed
<1> HIDE DEF g
<1>3. req' = req
  BY DEF ErrorFrame, AnswerUnstored, AnswerStored
<1> QED
  BY <1>2, <1>3 DEF Serving, Similar

LEMMA ServingStep ==
  ASSUME Flow, Redis, Serving, [Next]_vars
  PROVE  Serving'
<1>1. ASSUME NEW t \in Tasks, Step(t)
      PROVE  Serving'
  <2>1. CASE Hit(t)
    BY <2>1, HitIsSimilar DEF Redis
  <2>2. CASE ErrorFrame(t) \/ AnswerUnstored(t) \/ AnswerStored(t)
    BY <2>2, ModelAnswers
  <2>3. CASE got' = got /\ req' = req
    BY <2>3 DEF Serving, Similar
  <2> QED
    BY <1>1, <2>1, <2>2, <2>3
    DEF Step, LocalStep, RedisCall, EmbedFails, Embedded, LookupRaises, Create, CreateFails, HitUnreadable,
        SearchMisses, Miss, Partial, Recreate, HSet, SetTtl, StoreFails
<1>2. ASSUME NEW t \in Tasks, NEW p \in Procs, NEW r \in Requests, Ask(t, p, r)
      PROVE  Serving'
  <2>1. got' = [got EXCEPT ![t] = None] /\ req' = [req EXCEPT ![t] = r]
    BY <1>2 DEF Ask
  <2> QED
    BY <2>1 DEF Serving, Similar, Flow, Typed
<1>3. ASSUME NEW p \in Procs, Restart(p)
      PROVE  Serving'
  BY <1>3 DEF Restart, Serving, Similar
<1>4. CASE got' = got /\ req' = req
  BY <1>4 DEF Serving, Similar
<1> QED
  BY <1>1, <1>2, <1>3, <1>4
  DEF Next, Snapshot, RedisDown, RedisUp, Expire, Spoil, task, vars

\* A served answer was given, whole, by the same model to a prompt as similar as the
\* threshold asks.
THEOREM ServedAnswersAreSimilar == Spec => []ServedIsSimilar
<1>1. Init => Serving
  BY DEF Init, Serving
<1>2. Flow /\ Redis /\ Serving /\ [Next]_vars => Serving'
  BY ServingStep
<1>3. Serving => ServedIsSimilar
  BY DEF Serving, Similar, ServedIsSimilar
<1> QED
  BY <1>1, <1>2, <1>3, FlowHolds, PTL DEF Spec

-----------------------------------------------------------------------------
(* Fail-open                                                               *)

Counting == faults \in Nat

LEMMA CountingStep == ASSUME Counting, [Next]_vars PROVE Counting'
<1>1. faults' = faults \/ Fault
  BY DEF Next, Step, LocalStep, RedisCall, EmbedFails, Embedded, LookupRaises, Create, CreateFails, Hit,
     HitUnreadable, SearchMisses, Partial, ErrorFrame, AnswerUnstored, AnswerStored, Recreate,
     HSet, SetTtl, StoreFails, Ask, Snapshot, RedisDown, RedisUp, Expire, Spoil, Restart, vars
<1> QED
  BY <1>1 DEF Fault, Counting

\* The end of a lookup: only three kinds of steps take a task from one.
LEMMA LookupEnds ==
  ASSUME Flow, Counting, [Next]_vars, NEW t \in Tasks,
         pc[t] \in {"embed", "create", "search"}, pc'[t] = "idle", faults' = faults
  PROVE  Hit(t) \/ LookupRaises(t)
<1>1. ASSUME NEW u \in Tasks, NEW place, Go(u, place), u # t \/ place # "idle"
      PROVE  FALSE
  BY <1>1 DEF Go, Flow, Typed
<1>2. ASSUME NEW u \in Tasks, Step(u)
      PROVE  Hit(t) \/ LookupRaises(t)
  <2>1. u = t
    <3>1. \E place : Go(u, place)
      BY <1>2 DEF Step, LocalStep, RedisCall, EmbedFails, Embedded, LookupRaises, Create, CreateFails, Hit,
         HitUnreadable, SearchMisses, Miss, AskModel, Partial, ErrorFrame, AnswerUnstored,
         AnswerStored, Recreate, HSet, SetTtl, StoreFails, Go
    <3> QED
      BY <1>1, <3>1
  <2>2. ~Go(t, "model") /\ ~Go(t, "search") /\ ~Go(t, "create")
    BY <1>1
  <2>3. ~AskModel(t) /\ ~Miss(t)
    BY <2>2 DEF AskModel, Miss
  <2>4. /\ ~EmbedFails(t) /\ ~Embedded(t) /\ ~Create(t) /\ ~CreateFails(t)
        /\ ~HitUnreadable(t) /\ ~SearchMisses(t)
    BY <2>2, <2>3 DEF EmbedFails, Embedded, Create, CreateFails, HitUnreadable, SearchMisses
  <2>5. /\ ~Partial(t) /\ ~ErrorFrame(t) /\ ~AnswerUnstored(t) /\ ~AnswerStored(t)
        /\ ~Recreate(t) /\ ~HSet(t) /\ ~SetTtl(t) /\ ~StoreFails(t)
    BY DEF Partial, ErrorFrame, AnswerUnstored, AnswerStored, Recreate, HSet, SetTtl, StoreFails
  <2> QED
    BY <1>2, <2>1, <2>4, <2>5 DEF Step, LocalStep, RedisCall
<1>3. ASSUME NEW u \in Tasks, NEW p \in Procs, NEW r \in Requests, Ask(u, p, r)
      PROVE  FALSE
  <2>1. u # t
    BY <1>3 DEF Ask
  <2>2. \E place : Go(u, place)
    BY <1>3 DEF Ask, AskModel
  <2> QED
    BY <1>1, <2>1, <2>2
<1>4. ASSUME NEW p \in Procs, Restart(p)
      PROVE  FALSE
  BY <1>4 DEF Restart, Fault, Counting
<1>5. pc' # pc
  OBVIOUS
<1> QED
  BY <1>2, <1>3, <1>4, <1>5
  DEF Next, Snapshot, RedisDown, RedisUp, Expire, Spoil, task, vars

\* Whatever fails, a lookup that serves nothing comes to the model, but in a process
\* that cannot make its Redis client.
THEOREM LookupsFailOpen == Spec => FailsOpen
<1>1. Init => Serving /\ Counting
  BY DEF Init, Serving, Counting
<1>2. Flow /\ Redis /\ Serving /\ [Next]_vars => Serving'
  BY ServingStep
<1>3. Counting /\ [Next]_vars => Counting'
  BY CountingStep
<1>4. ASSUME Flow, Serving, Counting, [Next]_vars, NEW t \in Tasks,
             pc[t] \in {"embed", "create", "search"}, pc'[t] = "idle", faults' = faults
      PROVE  (got'[t] # None /\ got'[t].cached) \/ proc[t] \notin Usable
  <2>1. CASE Hit(t)
    <3>1. PICK h : got' = [got EXCEPT ![t] = [resp |-> h, cached |-> TRUE]]
      BY <2>1 DEF Hit
    <3> DEFINE answer == [resp |-> h, cached |-> TRUE]
    <3>2. answer # None /\ answer.cached
      BY DEF None
    <3>3. got' = [got EXCEPT ![t] = answer]
      BY <3>1
    <3> HIDE DEF answer
    <3>4. got'[t] = answer
      BY <1>4, <3>3 DEF Serving
    <3> QED
      BY <3>2, <3>4
  <2>2. CASE LookupRaises(t)
    BY <2>2 DEF LookupRaises
  <2> QED
    BY <1>4, <2>1, <2>2, LookupEnds
<1>5. Flow /\ Serving /\ Counting /\ [Next]_vars =>
        [\A t \in Tasks :
           pc[t] \in {"embed", "create", "search"} /\ pc'[t] = "idle" /\ faults' = faults
           => \/ got'[t] # None /\ got'[t].cached
              \/ proc[t] \notin Usable]_vars
  BY <1>4
<1> QED
  BY <1>1, <1>2, <1>3, <1>5, FlowHolds, PTL DEF Spec, FailsOpen
=============================================================================
