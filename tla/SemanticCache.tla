--------------------------- MODULE SemanticCache ----------------------------
(***************************************************************************)
(* control_plane/semantic_cache.py: the plugin around every model call,    *)
(* its per-process memory of the vector index, and the Redis it shares     *)
(* with other processes.                                                   *)
(*                                                                         *)
(* A task is one flow of model calls.  Between two awaits the plugin runs  *)
(* undisturbed; at each await (embed, create_index, search, hset, expire)  *)
(* other tasks and processes run, Redis may be lost or come back with an   *)
(* older state, and the process may die.                                   *)
(***************************************************************************)
EXTENDS Integers, Sequences, FiniteSets

CONSTANTS
  Procs,      \* control-plane processes
  Tasks,      \* flows of model calls; each runs in one process at a time
  Requests,   \* what the model may be asked
  Enabled,    \* processes whose SEMANTIC_CACHE_ENABLED is not off
  Usable,     \* processes that have redis-py, and a REDIS_URL that it can parse
  Dim,        \* [Procs -> Nat]: vector length of LMSTUDIO_EMBED_MODEL
  Tag(_),     \* _sanitize_tag: the TAG-safe form of a model's name
  Sim(_, _),  \* cosine similarity of two canonical prompts, in percent
  Threshold,  \* SEMANTIC_CACHE_SIMILARITY, in percent
  MaxAsks,    \* bound: model calls asked for
  MaxFaults   \* bound: everything that goes wrong, and every expiry

None == [none |-> TRUE]

\* The text of a part, or None for a function call or a function response.
NoText == "no text"

\* _canonical_prompt: instruction, the text of each content that has any, and the
\* tool names.  What a content carries besides text (data) is not rendered.
Canon(r) ==
  [sys   |-> r.sys,
   texts |-> LET Spoken(c) == c.text # NoText
                 said == SelectSeq(r.contents, Spoken)
             IN  [i \in DOMAIN said |-> [role |-> said[i].role, text |-> said[i].text]],
   tools |-> r.tools]

IsBlank(r) == LET c == Canon(r) IN c.sys = NoText /\ c.texts = <<>> /\ c.tools = {}

\* sha256 of tag and prompt.
Key(r) == <<Tag(r.model), Canon(r)>>

Keys == {Key(r) : r \in Requests}

ASSUME InstanceExists == Procs # {} /\ Requests # {}

ASSUME TasksAreFinite == IsFiniteSet(Tasks)

ASSUME SemanticCacheAssumption ==
  /\ Threshold \in 0..100
  /\ MaxAsks \in Nat /\ MaxFaults \in Nat
  /\ \A p \in Procs : Dim[p] \in Nat \ {0}
  /\ \A r, s \in Requests :
       /\ Sim(Canon(r), Canon(s)) \in 0..100
       /\ Sim(Canon(r), Canon(s)) = Sim(Canon(s), Canon(r))
       /\ Sim(Canon(r), Canon(r)) \in {99, 100} \* 1 - distance is rounded

VARIABLES
  \* Redis
  up,       \* it can be reached
  index,    \* DIM of idx:pitcrew_semcache, 0 when there is no index
  entries,  \* [Keys -> the hash of the key, or None]
  disk,     \* index and entries of the last snapshot
  \* each process
  indexDim, \* RedisVectorCache._index_dim, 0 for None
  hits, misses,
  \* each task
  pc,
  proc,     \* the process it runs in
  req,      \* the request of its model call
  pending,  \* _PENDING in the context of this task
  storing,  \* what store() is given: the pending record and the response
  got,      \* what the model call gave the agent
  \* history and bounds, read by the properties
  missed,   \* [Tasks -> this call has a key to store an answer under]
  modelCalls, \* [Keys -> requests the model itself was asked]
  asks, faults

redis == <<up, index, entries, disk>>
processes == <<indexDim, hits, misses>>
task == <<pc, proc, req, pending, storing, got, missed>>
vars == <<redis, processes, task, modelCalls, asks, faults>>

-----------------------------------------------------------------------------
Response == [to : Requests, whole : BOOLEAN]

Hash == [dim : Nat, resp : Response, readable : BOOLEAN, ttl : BOOLEAN]

Pending == [key : Keys, dim : Nat]

Places == {"idle", "embed", "create", "search", "model", "recreate", "hset",
           "expire"}

Init ==
  /\ up = TRUE
  /\ index = 0
  /\ entries = [k \in Keys |-> None]
  /\ disk = [index |-> 0, entries |-> [k \in Keys |-> None]]
  /\ indexDim = [p \in Procs |-> 0]
  /\ hits = [p \in Procs |-> 0] /\ misses = [p \in Procs |-> 0]
  /\ pc = [t \in Tasks |-> "idle"]
  /\ proc = [t \in Tasks |-> CHOOSE p \in Procs : TRUE]
  /\ req = [t \in Tasks |-> CHOOSE r \in Requests : TRUE]
  /\ pending = [t \in Tasks |-> None]
  /\ storing = [t \in Tasks |-> None]
  /\ got = [t \in Tasks |-> None]
  /\ missed = [t \in Tasks |-> FALSE]
  /\ modelCalls = [k \in Keys |-> 0]
  /\ asks = 0 /\ faults = 0

Fault == faults < MaxFaults /\ faults' = faults + 1

Go(t, place) == pc' = [pc EXCEPT ![t] = place]

-----------------------------------------------------------------------------
(* before_model_callback                                                   *)

\* The model itself is called: nothing was served.
AskModel(t) ==
  /\ Go(t, "model")
  /\ modelCalls' = [modelCalls EXCEPT ![Key(req'[t])] = @ + 1]

\* The callback begins: _PENDING is cleared, a blank prompt is not looked up, and
\* nothing is when the cache is off.
Ask(t, p, r) ==
  /\ pc[t] = "idle"
  /\ asks < MaxAsks
  /\ asks' = asks + 1
  /\ proc' = [proc EXCEPT ![t] = p]
  /\ req' = [req EXCEPT ![t] = r]
  /\ pending' = [pending EXCEPT ![t] = None]
  /\ got' = [got EXCEPT ![t] = None]
  /\ missed' = [missed EXCEPT ![t] = FALSE]
  /\ IF p \notin Enabled \/ IsBlank(r) THEN AskModel(t)
     ELSE Go(t, "embed") /\ UNCHANGED modelCalls
  /\ UNCHANGED <<redis, processes, storing, faults>>

\* Mutant: an embedding that is missing ends the lookup, not only the search.
EmbedFailsClosed(t) ==
  /\ pc[t] = "embed"
  /\ Go(t, "idle")
  /\ UNCHANGED <<redis, processes, proc, req, pending, storing, got, missed,
                 modelCalls, asks, faults>>

\* embed() gave no vector: the model is called, nothing will be stored.
EmbedFails(t) ==
  /\ pc[t] = "embed"
  /\ Fault
  /\ UNCHANGED req
  /\ AskModel(t)
  /\ UNCHANGED <<redis, processes, proc, pending, storing, got, missed, asks>>

\* A vector: the index is ensured first, unless this process knows it is there.
Embedded(t) ==
  /\ pc[t] = "embed"
  /\ proc[t] \in Usable
  /\ Go(t, IF indexDim[proc[t]] = Dim[proc[t]] THEN "search" ELSE "create")
  /\ UNCHANGED <<redis, processes, proc, req, pending, storing, got, missed,
                 modelCalls, asks, faults>>

\* The imports and from_url are outside the try of _ensure_index, and the call of
\* lookup is in none: what they raise ends the model call.
LookupRaises(t) ==
  /\ pc[t] = "embed"
  /\ proc[t] \notin Usable
  /\ Go(t, "idle")
  /\ UNCHANGED <<redis, processes, proc, req, pending, storing, got, missed,
                 modelCalls, asks, faults>>

\* Mutant: the record is an attribute of the plugin, one for all its tasks.
PendInPlugin(t) ==
  pending' = [u \in Tasks |-> IF proc[u] = proc[t]
                              THEN [key |-> Key(req[t]), dim |-> Dim[proc[t]]]
                              ELSE pending[u]]

\* What to store once the model answers.
Pend(t) ==
  pending' = [pending EXCEPT ![t] = [key |-> Key(req[t]), dim |-> Dim[proc[t]]]]

Miss(t) ==
  /\ misses' = [misses EXCEPT ![proc[t]] = @ + 1]
  /\ Pend(t)
  /\ missed' = [missed EXCEPT ![t] = TRUE]
  /\ UNCHANGED req
  /\ AskModel(t)

\* create_index made it, or "Index already exists", whatever its DIM.
EnsureIndex(t) ==
  /\ up
  /\ index' = IF index = 0 THEN Dim[proc[t]] ELSE index
  /\ indexDim' = [indexDim EXCEPT ![proc[t]] = Dim[proc[t]]]

Create(t) ==
  /\ pc[t] = "create"
  /\ EnsureIndex(t)
  /\ Go(t, "search")
  /\ UNCHANGED <<up, entries, disk, hits, misses, proc, req, pending,
                 storing, got, missed, modelCalls, asks, faults>>

CreateFails(t) ==
  /\ pc[t] = "create"
  /\ ~up
  /\ Miss(t)
  /\ UNCHANGED <<redis, indexDim, hits, proc, storing, got, asks, faults>>

\* Mutant: the query names the model as the request does, not by its tag.
IndexedByName(t) ==
  IF up /\ index = Dim[proc[t]]
  THEN {k \in Keys : entries[k] # None /\ k[1] = req[t].model
                       /\ entries[k].dim = index}
  ELSE {}

\* Mutant: the query has no filter by model.
IndexedOfAll(t) ==
  IF up /\ index = Dim[proc[t]]
  THEN {k \in Keys : entries[k] # None /\ entries[k].dim = index}
  ELSE {}

\* The index answers queries of its own DIM only, and holds the hashes of that DIM.
Indexed(t) ==
  IF up /\ index = Dim[proc[t]]
  THEN {k \in Keys : entries[k] # None /\ k[1] = Tag(req[t].model)
                       /\ entries[k].dim = index}
  ELSE {}

Nearness(t, k) == Sim(Canon(req[t]), k[2])

\* Mutant: whatever is nearest is served.
NearestAnyway(t) ==
  {k \in Indexed(t) : \A l \in Indexed(t) : Nearness(t, k) >= Nearness(t, l)}

\* Mutant: the threshold itself is not near enough.
NearestStrictly(t) ==
  {k \in Indexed(t) : /\ \A l \in Indexed(t) : Nearness(t, k) >= Nearness(t, l)
                      /\ Nearness(t, k) > Threshold}

\* KNN 1, if it is near enough.
Nearest(t) ==
  {k \in Indexed(t) : /\ \A l \in Indexed(t) : Nearness(t, k) >= Nearness(t, l)
                      /\ Nearness(t, k) >= Threshold}

\* The answer of the cache is the answer of the model call; no other callback runs.
Hit(t) ==
  /\ pc[t] = "search"
  /\ \E k \in Nearest(t) :
       /\ entries[k].readable
       /\ got' = [got EXCEPT ![t] = [resp |-> entries[k].resp, cached |-> TRUE]]
  /\ hits' = [hits EXCEPT ![proc[t]] = @ + 1]
  /\ Go(t, "idle")
  /\ UNCHANGED <<redis, indexDim, misses, proc, req, pending, storing, missed,
                 modelCalls, asks, faults>>

\* model_validate_json raises: counted as a hit, and then as a miss.
HitUnreadable(t) ==
  /\ pc[t] = "search"
  /\ \E k \in Nearest(t) : ~entries[k].readable
  /\ hits' = [hits EXCEPT ![proc[t]] = @ + 1]
  /\ Miss(t)
  /\ UNCHANGED <<redis, indexDim, proc, storing, got, asks, faults>>

\* No hash near enough, none at all, or search raised.
SearchMisses(t) ==
  /\ pc[t] = "search"
  /\ Nearest(t) = {}
  /\ Miss(t)
  /\ UNCHANGED <<redis, indexDim, hits, proc, storing, got, asks, faults>>

-----------------------------------------------------------------------------
(* after_model_callback                                                    *)

Answer(t, whole) == [to |-> req[t], whole |-> whole]

\* A streaming partial: _PENDING is cleared before anything else is looked at, and
\* more frames of this answer follow.
Partial(t) ==
  /\ pc[t] = "model"
  /\ Fault
  /\ pending' = [pending EXCEPT ![t] = None]
  /\ UNCHANGED <<redis, processes, pc, proc, req, storing, got, missed, modelCalls,
                 asks>>

\* An error frame, or no content: the model call fails, nothing is stored.
ErrorFrame(t) ==
  /\ pc[t] = "model"
  /\ Fault
  /\ pending' = [pending EXCEPT ![t] = None]
  /\ got' = [got EXCEPT ![t] = [resp |-> Answer(t, FALSE), cached |-> FALSE]]
  /\ Go(t, "idle")
  /\ UNCHANGED <<redis, processes, proc, req, storing, missed, modelCalls, asks>>

\* The whole answer, and nothing pending to store it under.
AnswerUnstored(t) ==
  /\ pc[t] = "model"
  /\ pending[t] = None
  /\ got' = [got EXCEPT ![t] = [resp |-> Answer(t, TRUE), cached |-> FALSE]]
  /\ Go(t, "idle")
  /\ UNCHANGED <<redis, processes, proc, req, pending, storing, missed, modelCalls,
                 asks, faults>>

\* The whole answer: store() begins, and ensures the index again.
AnswerStored(t) ==
  /\ pc[t] = "model"
  /\ pending[t] # None
  /\ pending' = [pending EXCEPT ![t] = None]
  /\ storing' = [storing EXCEPT ![t] = [key  |-> pending[t].key,
                                        dim  |-> pending[t].dim,
                                        resp |-> Answer(t, TRUE)]]
  /\ got' = [got EXCEPT ![t] = [resp |-> Answer(t, TRUE), cached |-> FALSE]]
  /\ Go(t, IF indexDim[proc[t]] = pending[t].dim THEN "hset" ELSE "recreate")
  /\ UNCHANGED <<redis, processes, proc, req, missed, modelCalls, asks, faults>>

Recreate(t) ==
  /\ pc[t] = "recreate"
  /\ EnsureIndex(t)
  /\ Go(t, "hset")
  /\ UNCHANGED <<up, entries, disk, hits, misses, proc, req, pending,
                 storing, got, missed, modelCalls, asks, faults>>

\* HSET leaves the time to live of a hash that exists alone.
HasTtl(t) == entries[storing[t].key] # None /\ entries[storing[t].key].ttl

HSet(t) ==
  /\ pc[t] = "hset"
  /\ up
  /\ entries' = [entries EXCEPT ![storing[t].key] =
                   [dim |-> storing[t].dim, resp |-> storing[t].resp,
                    readable |-> TRUE, ttl |-> HasTtl(t)]]
  /\ Go(t, "expire")
  /\ UNCHANGED <<up, index, disk, processes, proc, req, pending, storing, got,
                 missed, modelCalls, asks, faults>>

\* Mutant: EXPIRE with XX, for hashes that expire already.
SetTtlAgain(t) ==
  /\ pc[t] = "expire"
  /\ up
  /\ storing' = [storing EXCEPT ![t] = None]
  /\ Go(t, "idle")
  /\ UNCHANGED <<up, index, entries, disk, processes, proc, req, pending, got,
                 missed, modelCalls, asks, faults>>

\* Mutant: the time to live is written as a field with HSET, which makes the hash.
SetTtlBlindly(t) ==
  /\ pc[t] = "expire"
  /\ up
  /\ entries' = [entries EXCEPT ![storing[t].key] =
                   IF @ = None THEN [ttl |-> TRUE] ELSE [@ EXCEPT !.ttl = TRUE]]
  /\ storing' = [storing EXCEPT ![t] = None]
  /\ Go(t, "idle")
  /\ UNCHANGED <<up, index, disk, processes, proc, req, pending, got, missed,
                 modelCalls, asks, faults>>

\* EXPIRE does nothing for a hash that is gone.
SetTtl(t) ==
  /\ pc[t] = "expire"
  /\ up
  /\ entries' = [entries EXCEPT ![storing[t].key] =
                   IF @ = None THEN None ELSE [@ EXCEPT !.ttl = TRUE]]
  /\ storing' = [storing EXCEPT ![t] = None]
  /\ Go(t, "idle")
  /\ UNCHANGED <<up, index, disk, processes, proc, req, pending, got, missed,
                 modelCalls, asks, faults>>

\* Mutant: the store is begun again until it succeeds.
StoreRetries(t) ==
  /\ pc[t] \in {"recreate", "hset", "expire"}
  /\ ~up
  /\ Go(t, "recreate")
  /\ UNCHANGED <<redis, processes, proc, req, pending, storing, got, missed,
                 modelCalls, asks, faults>>

\* create_index, hset or expire raised, and store() gives up.
StoreFails(t) ==
  /\ pc[t] \in {"recreate", "hset", "expire"}
  /\ ~up
  /\ storing' = [storing EXCEPT ![t] = None]
  /\ Go(t, "idle")
  /\ UNCHANGED <<redis, processes, proc, req, pending, got, missed, modelCalls,
                 asks, faults>>

-----------------------------------------------------------------------------
(* What the environment does                                               *)

\* redis-server --save 60 1
Snapshot ==
  /\ up
  /\ disk' = [index |-> index, entries |-> entries]
  /\ UNCHANGED <<up, index, entries, processes, task, modelCalls, asks, faults>>

\* The connection is lost, with or without what was written since the snapshot.
RedisDown ==
  /\ up
  /\ Fault
  /\ up' = FALSE
  /\ \/ UNCHANGED <<index, entries>>
     \/ index' = disk.index /\ entries' = disk.entries
  /\ UNCHANGED <<disk, processes, task, modelCalls, asks>>

RedisUp ==
  /\ ~up
  /\ up' = TRUE
  /\ UNCHANGED <<index, entries, disk, processes, task, modelCalls, asks, faults>>

Expire(k) ==
  /\ entries[k] # None
  /\ entries[k].ttl
  /\ Fault
  /\ entries' = [entries EXCEPT ![k] = None]
  /\ UNCHANGED <<up, index, disk, processes, task, modelCalls, asks>>

\* A response that this ADK cannot parse, from another version over the same Redis.
Spoil(k) ==
  /\ entries[k] # None
  /\ entries[k].readable
  /\ Fault
  /\ entries' = [entries EXCEPT ![k].readable = FALSE]
  /\ UNCHANGED <<up, index, disk, processes, task, modelCalls, asks>>

\* The process dies with its tasks and starts again.
Restart(p) ==
  /\ Fault
  /\ indexDim' = [indexDim EXCEPT ![p] = 0]
  /\ hits' = [hits EXCEPT ![p] = 0] /\ misses' = [misses EXCEPT ![p] = 0]
  /\ pc' = [t \in Tasks |-> IF proc[t] = p THEN "idle" ELSE pc[t]]
  /\ pending' = [t \in Tasks |-> IF proc[t] = p THEN None ELSE pending[t]]
  /\ storing' = [t \in Tasks |-> IF proc[t] = p THEN None ELSE storing[t]]
  /\ got' = [t \in Tasks |-> IF proc[t] = p THEN None ELSE got[t]]
  /\ UNCHANGED <<redis, proc, req, missed, modelCalls, asks>>

\* A Redis call of the plugin returns or raises, and the plugin goes on from there.
RedisCall(t) ==
  \/ Create(t) \/ CreateFails(t) \/ Hit(t) \/ HitUnreadable(t) \/ SearchMisses(t)
  \/ Recreate(t) \/ HSet(t) \/ SetTtl(t) \/ StoreFails(t)

\* The embedding client returns, or the model sends a frame.
LocalStep(t) ==
  \/ EmbedFails(t) \/ Embedded(t) \/ LookupRaises(t)
  \/ Partial(t) \/ ErrorFrame(t) \/ AnswerUnstored(t) \/ AnswerStored(t)

Step(t) == LocalStep(t) \/ RedisCall(t)

Next ==
  \/ \E t \in Tasks : Step(t)
  \/ \E t \in Tasks, p \in Procs, r \in Requests : Ask(t, p, r)
  \/ Snapshot \/ RedisDown \/ RedisUp
  \/ \E k \in Keys : Expire(k) \/ Spoil(k)
  \/ \E p \in Procs : Restart(p)

Spec == Init /\ [][Next]_vars

\* The embedding client has a timeout (:82) and the model answers.  A call of Redis
\* may never end: its client is made without a timeout (:116).
FairSpec == Spec /\ \A t \in Tasks : WF_vars(LocalStep(t))

\* Every call of Redis returns or raises.  Redis need not be there, or come back.
RedisAnswers == \A t \in Tasks : WF_vars(RedisCall(t))
-----------------------------------------------------------------------------
(* Properties                                                              *)

\* The type of every variable; counters of a process never exceed what was asked.
TypeOK ==
  /\ up \in BOOLEAN
  /\ index \in Nat
  /\ entries \in [Keys -> Hash \cup {None}]
  /\ disk \in [index : Nat, entries : [Keys -> Hash \cup {None}]]
  /\ indexDim \in [Procs -> Nat]
  /\ {hits, misses} \subseteq [Procs -> 0..asks]
  /\ pc \in [Tasks -> Places]
  /\ proc \in [Tasks -> Procs]
  /\ req \in [Tasks -> Requests]
  /\ pending \in [Tasks -> Pending \cup {None}]
  /\ storing \in [Tasks -> [key : Keys, dim : Nat, resp : Response] \cup {None}]
  /\ got \in [Tasks -> [resp : Response, cached : BOOLEAN] \cup {None}]
  /\ missed \in [Tasks -> BOOLEAN]
  /\ modelCalls \in [Keys -> 0..asks]
  /\ asks \in 0..MaxAsks /\ faults \in 0..MaxFaults

\* Whatever Redis holds under a key, now or in its snapshot, is a whole answer of
\* the model to a request with that very prompt and model, whoever stored it and
\* whatever ran concurrently.
EntryIsGenuine ==
  \A es \in {entries, disk.entries} : \A k \in Keys :
    es[k] # None => es[k].resp.whole /\ Key(es[k].resp.to) = k

\* What the cache serves is a whole answer that the same model gave to a prompt at
\* least as similar as the threshold asks.  Nothing more: the prompt may be another
\* agent's, under another instruction and with other tools (NeverBleeds).
ServedIsSimilar ==
  \A t \in Tasks :
    got[t] # None /\ got[t].cached =>
      LET answered == got[t].resp.to
      IN  /\ got[t].resp.whole
          /\ Tag(answered.model) = Tag(req[t].model)
          /\ Sim(Canon(answered), Canon(req[t])) >= Threshold

\* As long as nothing goes wrong, and the cache is on in all processes, which embed
\* with one model, the model is asked the same prompt once, or once by each of the
\* tasks that ask before the first answer is stored.  The threshold must be one
\* that a prompt meets with itself.
RepeatSkipsTheModel ==
  /\ faults = 0
  /\ Procs \subseteq Enabled
  /\ \A p, q \in Procs : Dim[p] = Dim[q]
  /\ \A r \in Requests : Sim(Canon(r), Canon(r)) >= Threshold
  => \A r \in Requests :
       ~IsBlank(r) => modelCalls[Key(r)] <= Cardinality(Tasks)

\* HSET and EXPIRE are two calls: a hash that nobody is about to expire does, but
\* for the few that every fault can leave behind.
EntriesExpire ==
  LET attended == {storing[t].key : t \in {u \in Tasks : pc[u] = "expire"}}
      immortal == {k \in Keys \ attended : entries[k] # None /\ ~entries[k].ttl}
  IN  Cardinality(immortal) <= faults * Cardinality(Tasks)

\* Fail-open: every model call that enters the plugin leaves it and gets its answer
\* (or fails with the model, or with its process), whatever happens to the
\* embeddings and to the index, and whether Redis is there or not, as long as a call
\* of Redis returns or raises: one that hangs holds the model call for good.
AskedIsAnswered ==
  RedisAnswers => \A t \in Tasks : pc[t] # "idle" ~> pc[t] = "idle"

\* semantic_cache.py:11, "every failure path returns None (cache miss / no store), so
\* the agent runs exactly as if the cache weren't there": a lookup that neither
\* serves an answer nor dies with its process comes to the model.  The code has
\* one exception, a process that cannot make its Redis client (LookupRaises).
FailsOpen ==
  [][\A t \in Tasks :
       pc[t] \in {"embed", "create", "search"} /\ pc'[t] = "idle" /\ faults' = faults
       => \/ got'[t] # None /\ got'[t].cached
          \/ proc[t] \notin Usable]_vars

\* A prompt whose entry the index of the process holds is served, unless something
\* fails, or the nearest entry, this one or one that is as near, cannot be read.  The
\* similarity of a vector with itself is rounded: a threshold above it
\* (.env.example:48 offers "1.0 = identical") would miss the identical.
IdenticalIsServed ==
  [][\A t \in Tasks :
       /\ pc[t] = "search" /\ pc'[t] = "model" /\ faults' = faults
       /\ Sim(Canon(req[t]), Canon(req[t])) >= Threshold
       /\ \A l \in Nearest(t) : entries[l].readable
       => Key(req[t]) \notin Indexed(t)]_vars

-----------------------------------------------------------------------------
(* What the documentation says and the code does not do                    *)

\* semantic_cache.py:57: "a cache entry can never bleed across two agents that send
\* similar user text under different instructions/tools".
NeverBleeds ==
  \A t \in Tasks :
    got[t] # None /\ got[t].cached =>
      /\ got[t].resp.to.sys = req[t].sys
      /\ got[t].resp.to.tools = req[t].tools

\* semantic_cache.py:6: "after_model_callback stores each fresh response": a whole
\* answer after a miss goes to store().
FreshIsStored ==
  [][\A t \in Tasks :
       /\ pc[t] = "model" /\ missed[t]
       /\ pc'[t] # "model" /\ got'[t] # None /\ got'[t].resp.whole
       => storing'[t] # None]_vars
=============================================================================
