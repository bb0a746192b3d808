# PitCrew: specifications

TLA+ models of the PitCrew agent (`src/control_plane`, `src/workload`), the TLC runs that check
them on small instances, and TLAPS proofs of what holds for every instance. The code is the
reference: each definition that models code is listed with its lines in `PROJECT.json` under `map`.

## 1. The system

| Component | State | Operations | Talks to |
|---|---|---|---|
| Driver (`agent.py`, `_drive`) | locals `finished`, `summary`, `step`, `cursor` | ask the worker, scan the new events, return | worker through `ctx.run_node`; reads `session.events` |
| Worker (`agent.py`, `_worker`) | the model's last answer and its tool calls | one turn: model, tool calls, model, ... until plain text | model endpoint, guard, tools |
| Guard (`guard.py`) | `guard:steps`, `guard:start_ts` in the session state | `before_tool_guard` before each call | session state, environment |
| Sandbox tools (`sandbox.py`) | none | `run_shell`, `write_file`, `read_file`, `copy_out`, `finish` | exec service over HTTP, artifact service |
| Runtime (`runtime.py`) | the session database, the artifacts of the process | start, run a goal, resume | everything above |
| Semantic cache (`semantic_cache.py`) | `_PENDING` per task, `_index_dim`, `hits`, `misses` per process; index and hashes in Redis | before/after each model call: look up, store | embeddings endpoint, Redis |
| Exec service (`workload/exec_service/server.py`) | `/work`, the commands that run and what they left behind | `exec`, `write`, `read`, `copy_out` | the container's file system and processes |
| Capability loader (`capabilities.py`) | skills and toolsets of the process, loaded at import | read the directory and the registry, build toolsets | `skills/`, `config/mcp_servers.yaml`, MCP servers |
| Compaction (`runtime.py:42-48`) | none here: two settings for google-adk, which does the rest | none here | session, model |

google-adk, Redis, LM Studio, FastAPI, MCP servers and the commands that run in the sandbox are not in
the repository. They are modelled only as far as the code relies on them, and such definitions
are marked external in the map.

What is hard here:

* the session outlives the process, but the driver's locals, the guard's unsaved counting, the batch
  of calls in flight and the artifacts do not;
* the calls of one model answer pass the guard in order and then run concurrently, and only one
  merged event at the end of the batch makes anything of them durable;
* the cache is shared by tasks and processes, awaits in the middle of each lookup and store, and
  remembers facts about Redis that Redis may forget;
* a turn of the worker is one and the same prompt to the cache, before and after its tool calls;
* the handlers of the exec service run in one event loop and do not await while they touch a file, but
  commands run beside them, leave processes behind and survive the timeout of their shell; a restart
  wipes `/work`;
* skills and registry are read once by each process, and edited at any time.

What makes each component correct is in the properties of the runs below; `PROJECT.json` lists
every hazard with its line and the properties that would catch it, or why there is none.

## 2. Modules

| Module | What it is |
|---|---|
| `Guard` | the guard's counters and its five outcomes, each the whole effect of one return of `before_tool_guard` |
| `BoundedLoop` | abstract: what `_drive` promises, whatever the worker and the process do |
| `AgentRun` | one session: driver, worker turn, guard, tools, database, processes that start, crash and resume |
| `AgentRunProofs`, `AgentRunRefinement` | inductive invariants and theorems of `AgentRun`; that it implements `BoundedLoop` |
| `SemanticCache`, `SemanticCacheProofs`, `SemanticCacheCounts` | the plugin, its store and Redis, for several processes and tasks; what it holds and serves is genuine; what it counts, finds and lets expire |
| `CachedTurn` | driver, guard and cache composed, for one drive |
| `ExecService`, `ExecServiceProofs` | the workload container: handlers, `/work`, commands, restarts; the tools as its clients |
| `Capabilities`, `CapabilitiesProofs` | skills and registry, edited by an operator and loaded by processes of both planes |
| `MC_AgentRun`, `MC_SemanticCache`, `MC_ExecService`, `MC_Capabilities` | the instances for TLC |

A definition whose comment begins with "Mutant:" is a plausible bug in the definition after it. It is
used in no specification; a run must find its property violated when it replaces that definition.

### BoundedLoop, AgentRun

`BoundedLoop` has a place (no drive, at the head of the loop, in a turn), the turns completed,
whether an event of the drive escalates, and whether a goal is owed an answer. A drive begins, takes
turns, may see an escalation inside a turn only, answers or fails.

`AgentRun` has its state in three layers, as in the code: the database (`events`, `savedSteps`,
`savedStart`, `open`, `turnsDone`), the process (`pc`, `steps`, `start`, `calls`, `guarded`,
`artifacts`, `kill`) and the locals of `_drive` (`step`, `finished`, `summary`, `cursor`). `from`,
`goalAt`, `bornAt`, `allowed` and `aborts` are history: properties read them, guards do not (`aborts`
also bounds the failures).

| Action | Code |
|---|---|
| `StartProcess` | `build_runner`: database as it is, a new `InMemoryArtifactService`, environment read once |
| `NewGoal`, `Resume` | `run_async` with a message, and with `new_message=None` (`scripts/persistence_demo.py:71-75, 112`); both enter `_drive` at its first line (`rerun_on_resume=True`) |
| `StartTurn`, `Scan`, `Return` | `agent.py:104-118` |
| `ReplayTurn` | after a resume the graph engine may return a recorded turn at once. The engine is external, so both this and running the turn again are possible |
| `ModelText`, `ModelCalls` | the worker's model answers, with plain text (its turn is over) or with a batch of calls |
| `KillSwitch`, `TimeBudget`, `StepBudget`, `Denylist`, `LetThrough` | the returns of `before_tool_guard`, in order; the handler has no await, so each is one step |
| `ToolReturns(i)`, `CopyOut(i)` | the exec service answered call `i`; calls of a batch finish in any order, and may before a later call is guarded |
| `Respond` | the batch's single response event, whose state delta persists the counters |
| `Crash`, `Raise` | the process dies anywhere; or `httpx`/LiteLLM raises and the invocation ends without output |
| `Tick` | `time.time()` moves on, at any point, also while no process runs |

An event is reduced to what is read of it: does it escalate, does it carry a finish response, and, for
each response in it, which artifact version it reports. The tools are reduced to the four kinds that the guard and the
driver tell apart. A `finish` summary is taken to be nonempty.

The refinement mapping reads the abstract escalation off the events of the drive, not off the
driver's flag `finished`: that the flag agrees with it at the head of the loop is what has to be shown.
The whole module presumes that a request of the worker reaches the model, that is, that the semantic
cache is off or finds nothing; `CachedTurn` is about the rest.

### SemanticCache

Redis is `up`, an `index` (its DIM), `entries` and the last snapshot `disk`; a process has
`indexDim`, `hits`, `misses`; a task has its place `pc`, `_PENDING`, and the arguments of a running
`store()`. One action per stretch of code between two awaits: `Ask`, `Embedded`/`EmbedFails`/
`LookupRaises`, `Create`/`CreateFails`, `Hit`/`HitUnreadable`/`SearchMisses`, then `Partial`,
`ErrorFrame`, `AnswerUnstored`/`AnswerStored`, `Recreate`, `HSet`, `SetTtl`, `StoreFails`. The cache
may be off in a process (`Enabled`), or the process may be unable to make its Redis client
(`Usable`). The environment takes snapshots, loses Redis (with or without its latest writes), expires
and spoils entries and restarts processes.

`Canon` is `_canonical_prompt` as a record instead of a string: it keeps the instruction, the text
of each content that has text, and the tool names, and drops everything else, as the code does.
The hash is taken to be injective. An embedding is its prompt plus the dimension of the model that
made it; `Sim` is the similarity, a constant, symmetric, and 99 or 100 percent of a prompt with
itself, because `1 - distance` is rounded. RediSearch answers a query only if its dimension is
the index's, and indexes only hashes of that dimension. `RedisCall` are the steps that await Redis,
`LocalStep` the others: the client has no timeout (`semantic_cache.py:116`), so that a Redis call ends
is never assumed by the specification.

### CachedTurn

One drive of one goal by a process with the cache on or off (`cacheOn`). A request of the worker
has one of two prompts, the goal or `_CONTINUE`, because calls and their results are not rendered.
`Serve` is a hit, `Ask` a miss that stores its answer, `Run` and `Refuse` the guard's two sides, `Drive`,
`Begin` and `Return` the driver, `Expire` the time to live. The inside of a lookup, crashes and
batches are left to `SemanticCache` and `AgentRun`.

### ExecService

The container has `work` (per file: who wrote it, and to the end or not), the `/bin/sh` of each `exec`
call, one process that it left in the background (`child`, with or without its pipes) and `zombies`.
A call of a tool is posted, taken up by the event loop (`loop`), waiting for its command (`wait`),
waiting after the kill (`reap`, or `clogged` when that wait cannot end), or over.

| Action | Code |
|---|---|
| `Post`, `Unreachable` | `_post` in `sandbox.py`: the request leaves with its token, or `httpx` raises |
| `Unauthorized`, `Escapes` | `_auth` answers 401, `_resolve` 400 |
| `WriteOpens`, `WriteCloses`, `WriteFails`, `WriteNoFile` | `write_bytes` in its two steps, with no await between them; the file system is full; the path is a directory |
| `NotFound`, `Found`, `ReadBytes` | `is_file`, then `read_bytes`, of `read` and of `copy_out` |
| `Spawn`, `NoSpawn`, `Completed` | `exec`: a shell, or `pids_limit`; `communicate()` returns |
| `TimesOut`, `Killed` | `wait_for` gives up and the shell is killed, not its child; `proc.wait()` then returns once the pipes of the dead shell are closed as well (asyncio wakes it when they are disconnected), which a child can put off, and which never happens when more output is left in a pipe than `StreamReader` takes: nobody reads on after the timeout |
| `TimesOutLate`, `KillRaises` | `wait_for` gives up although the shell has exited: `wait()` returns at once; or `kill()` finds no process any more and raises |
| `ShellTruncates`, `ShellFills`, `ShellRemoves`, `ShellForks`, `ShellExits`, `ChildWrites`, `ChildForks`, `ChildExits` | what a command may do to its file and leave behind, at any time |
| `Restart` | `restart: unless-stopped`, with `/work` a tmpfs |

Only one handler is between two file operations at a time (`LoopFree`): that is what the absence of
awaits in these handlers gives. Commands obey no such thing. The handlers never learn that their
client is gone, so `reply` is what they answer, whether anyone listens or not.

### Capabilities

`skills`, `registry` and `malformed` are what is on disk, edited by an operator between any two steps; a
block may be empty (`Null`), and the file no YAML. A process loads the skills (`LoadSkills`; a folder that ADK
refuses raises), then the registry (`LoadServers`, or `LoadFails` when the syntax is bad, a block is empty
or an enabled block of its plane has no command, and the import fails), and keeps `known` and `toolsets`
until it stops. `Offered` is what ADK's `McpToolset` makes of `tool_filter`.

## 3. Runs

| Run | Checks | Shows |
|---|---|---|
| `agent_safety` | `TypeOK`, `SessionBudget`, `SpentIsSpent`, `LateIsLate`, `DriverMissesNothing`, `ReportedArtifactsExist`, `KeepsTheLoop`, `DriveEnds`, `GoalIsAnswered` | budgets bind the whole session over processes and goals; the driver reads each event exactly once; a reported artifact version is stored while its process lives and reported by one call only, also of calls that ran at once; the agent implements `BoundedLoop`; with the cache off a drive always ends, and a goal is answered through crashes and exceptions |
| `cache_safety` | `TypeOK`, `EntryIsGenuine`, `ServedIsSimilar`, `EntriesExpire` | entries and served answers are genuine under concurrency and faults, a served answer is one to a similar prompt, and a hash without a time to live is the work of a fault |
| `cache_calm` | `RepeatSkipsTheModel`, `ServedIsSimilar`, `IdenticalIsServed` | with no fault, a prompt reaches the model at most once per concurrent task, and an indexed prompt is served if the nearest entries can be read, at a threshold that its rounded similarity just reaches, and never with another model's answer |
| `cache_live` | `AskedIsAnswered`, `FailsOpen` | no failure of Redis or of the embeddings keeps a model call from returning, as long as the calls of Redis return or raise, and a failed lookup comes to the model |
| `turn_on` | `EndsUnlessACallIsServed` | with the cache or without, a drive ends unless a stored tool call is served for good |
| `exec_service` | `TypeOK`, `WritesAreReadWhole`, `ShellEndsWithItsAnswer`, `ReadErrorsAreRaces`, `WrittenIsThere`, `CallsReturn`, `ShellsEnd` | files and shells stay right under any two calls and whatever commands do; what was written is there until another write, a command or a restart; every call is answered although a command need not end, unless its wait after the kill is never over |
| `capabilities` | `TypeOK`, `SoundIsLoaded` | a failed load leaves nothing behind: a process comes up once what concerns it is sound |

Runs that TLC must find violated, one for each disagreement between the code and what is written
about it (`PROJECT.json`, `findings`, quotes the line):

| Run | Property | What the code does |
|---|---|---|
| `agent_resume` | `EscalationEndsTheLoop` | an escalation persisted before a crash is behind the cursor of the resumed drive, which asks the worker again |
| `cache_fresh` | `FreshIsStored` | the first partial frame consumes the pending record, the final frame is not stored |
| `cache_bleed` | `NeverBleeds` | instruction and tools only weigh in the similarity of whole prompts, so an agent is served another agent's answer when their prompts are similar enough |
| `turn_loop` | `DriveEnds` | with the cache on, a stored tool call is served again after each of its results and each refusal of the guard, and the turn does not end |
| `caps_filter` | `OnlyListedVerbs` | an empty `tool_filter` becomes `None`, which filters nothing |

`cache_fresh` needs a streaming run. The repository's scripts do not stream; the plugin handles
partial frames and its tests feed them. `cache_bleed` has two agents whose prompts are 98 percent similar.
`turn_loop` needs a model that answers in plain text some day if it is asked; it is not asked any more.
Its entries need not expire. A time to live that does run out (24 hours by default) has the model asked
once, and what it answers is stored and served from then on.

Other behaviour that the models have and that differs from what one may read, without a run of its own:

* artifacts are in memory and gone with their process, although the session still reports their
  versions and `sandbox.py:70` calls them durable (`StartProcess`);
* a Redis that accepts a call and never answers holds the model call for good: the client has no
  timeout (`RedisCall` is not fair, and `AskedIsAnswered` has its end as a premise);
* an unreadable entry counts as hit and as miss (`HitUnreadable`);
* an existing index of another dimension is taken for one's own (`EnsureIndex`), and every search of the
  process misses from then on;
* a threshold of 1.0 may miss the identical prompt (premise of `IdenticalIsServed`);
* a `REDIS_URL` that cannot be parsed raises into the agent (`LookupRaises`, the exception that
  `FailsOpen` names);
* a command whose shell has exited is answered 408, without its exit code, while a background process
  holds its pipes (`TimesOutLate`);
* a command that is killed at its timeout is not answered at all while a process it left holds its pipes,
  or when it wrote more than was read (`TimesOut`, `Killed`, the exception that `CallsReturn` names): the
  tool is freed by its own HTTP timeout, 320 seconds by default, and raises;
* processes left behind stay zombies of process 1, the service, and use up `pids_limit` (`Reaped`, `NoSpawn`);
* `/work` is kept between runs and wiped by a restart: `docker-compose.yml:27` calls it disposable per
  run, `agent.py:42` tells a resumed worker that its files persist;
* a server moved to the other plane runs on both until the process that read the old block stops
  (`toolsets`); bad syntax or an empty block keeps the processes of every plane
  down (`Raises`).

### Bounds

`agent_safety`: a step budget of 2 and batches of up to 2 calls, so that a batch can straddle the
budget; two iterations; five events, which fits a goal, a batch, its response, text, and a second
goal; one abort, enough for a crash at every point and one resume or a new goal after it; a clock to 2
with a limit of 1. `MaxEvents` only stops new goals and new batches: text and responses
may go beyond it, so it blocks nothing that has begun.

`cache_safety`: two tasks that may run in the same process or in two, three agents (the worker, one almost
the same, one that is different), two embedding dimensions, three model calls and one fault (each lost
connection, restart, expiry, spoilt entry, partial or error frame and embedding failure is one). Three calls
are a store, a concurrent store of the same key or of another, and a lookup. Three keys are more than the
two that one fault may leave without a time to live, so `EntriesExpire` says something after the fault too;
the similar prompts let a hit on another agent's entry happen, the different one shows that it takes similarity.
`cache_calm` has four calls, no fault, the worker, its sibling, the worker with a second model and a
blank prompt; its threshold is exactly the rounded similarity of a prompt with itself, and the sibling's is
no less. `cache_live` has two calls, two faults and four processes, one with the cache off and one
without a Redis client. `cache_bleed` needs two calls and no fault. Tasks are symmetric in `cache_safety`
and `cache_calm`.

`turn_on`: five steps, four turns and two expiries, so that a stored call can be served, expire, and be
replaced by text, in the first turn and in later ones. `turn_loop` needs less.

`exec_service`: two calls of any of the four endpoints, with the right token or not, on one file, or
outside of `/work`, or on `/work` itself. Every race of the handlers is between a call and one other call
or its command. `MaxPids = 3` is less than two shells with a child each need, so that `NoSpawn` and
refused forks happen; one fault is a restart, a lost connection or a full disk.

`capabilities`: a process for each plane and one for both, one skill folder, one server with two verbs,
and two edits, enough to move a block from one plane to the other between two loads, or to break and
repair a block, a skill or the file.

Deadlock is not checked: a session with no goal left, a task or a container with no call left, a
process that need not stop rightly come to rest.

### Fairness

`AgentRun`: the driver, the guard, pending tool calls and the response are steps of one event loop
that runs what is ready; a tool call ends because its HTTP client has a timeout. The model answers
with plain text if it is asked again and again (strong fairness): nothing in the worker's turn itself
bounds it, `finish` and the guard's escalation do not end the turn but only the loop around it, and the
call limit of ADK is outside the code. That the model *is* asked presumes that the cache is off; with it on,
`turn_loop` and `turn_on` show what is left of the claim. An operator restarts a dead process and resumes an open
invocation, as `persistence_demo.py` does; without them `GoalIsAnswered` cannot hold. Goals,
crashes and ticks are not fair.

`SemanticCache`: the embedding client returns (it has a timeout) and the model answers: `WF(LocalStep(t))`.
Redis calls have no fairness, since the client has no timeout. `AskedIsAnswered` states as its own premise
that each returns or raises (`RedisAnswers`); Redis need not come back.

`CachedTurn`: the same event loop, and the same strong fairness of the model's plain text, per `Ask`.
Expiries are not fair.

`ExecService`: a handler that can go on does (`WF(Handler(c))`), which covers the timer of `wait_for` and the
wait after the kill once the pipes are closed. Nothing is assumed of commands: neither that they end nor
that they close their pipes, nor that their output fits.

`Capabilities`: a process that is down is started again and loads what it finds. Edits are not fair.

## 4. Proofs

Each proof has one step per action, or per group of actions that leave the same variables alone. All
strengthenings were first checked with TLC on the instance of the run.

**`AgentRunProofs`**, from `GuardAssumption` and `AgentRunAssumption`:

* `TypeCorrect`: `TypeOK` is inductive by itself.
* `SessionBudgetHolds` and `SpentStaysSpent`, from `BudgetInv`: the process is ahead of the database
  by at most the guarded calls of its batch, and `allowed` is at most what the process has counted
  plus `MaxBatch` per abort. `SessionBudget` alone is not inductive: it does not say how
  `allowed` and `steps` are related, nor how much an abort can forget. It needs `BatchInv`: outside
  a batch nothing is in flight.
* `LateStaysLate`, from `StartInv`: a start in the database is the one the process counts from.
* `DriverSeesEverything`, from `DriverInv`: what the locals say of the events up to the cursor, at
  every point of a turn and not only at the head of the loop.
* `ReportedVersionsAreStored`, from `ArtifactInv`, which also speaks of the versions of the batch
  in flight, against each other and against all that were reported.
* `EscalationEndsUnlessResumed`, from `SkipInv` (below).

**`AgentRunRefinement`**: `DriverIsABoundedLoop`, `Spec => KeepsTheLoop`. Initial states map to initial
states, and under `TypeOK` and `DriverInv` every step maps to a step of `BoundedLoop` or to a stutter.
`DriverInv` is needed where the driver decides by its flag and the abstract loop by the events.

**`SemanticCacheProofs`**, from `InstanceExists` and `SemanticCacheAssumption`:

* `EntriesAreGenuine`, from `Flow` and `Redis`: a pending record has the key of its task's request, a
  store in flight a whole answer to the request of its key, and Redis and its snapshot hold
  genuine entries only. The invariant itself says nothing of what is on its way to Redis.
* `ServedAnswersAreSimilar`, from these and `Serving`.
* `LookupsFailOpen`, an action property: step by step, for any processes, tasks and faults.

**`SemanticCacheCounts`**, from these assumptions and `TasksAreFinite`. Each argument weighs a number
against a set of tasks; none of the four properties is inductive.

* `TypeCorrect`, from `CountInv`: a counter and the lookups that may still raise it are together at
  most the calls asked for. That a counter is at most `asks` says nothing of the lookups under way.
* `EntriesDoExpire`, from `ExpireInv`. A task that gives up while Redis is away leaves a hash behind
  without a fault of its own, so the fault that took Redis away must have paid for it: while Redis
  is away, *all* hashes without a time to live are within the bound, attended or not. A snapshot
  keeps what was attended when it was taken, and bringing it back is another fault: it may hold
  one fault's worth more.
* `RepeatsSkipTheModel`, from `CalmInv`: as long as a prompt has no entry, everyone who asked it is
  between the model and HSET, and these are different tasks. It needs that all that is in the index or on its way
  there has one dimension (`OneDim`), so that a search that misses means there is no entry.
* `IdenticalAreServed`, an action property: among the hashes of the index one is the nearest
  (`NearestExists`, from the least element of a set of numbers), so a search with one near enough finds some.
* `FreshIsStoredUnlessPartial`, from `MissedIsPending` (below).

**`ExecServiceProofs`**, from `ExecServiceAssumption`:

* `TypeCorrect`, from `Types` and `Shape`: what a call has at each place.
* `ReadersSeeWholeWrites`, from `OneInLoop` (one handler at a time between two file operations) and
  `HalfWritten`: half a file is a command's, a failed write's, or that of the write in the loop, which keeps readers
  out.
* `AnsweredShellsAreOver`, inductive once `Types` and `Shape` are known.
* `ReadsFailInRaces`, from `GoneByCommand`: a file that was found and is not there any more was
  worked on by a command.
* `WritesStay`, an action property, from `OwnWrite`: what is in the file of a write in the loop, from its
  opening to its answer, is its own unless a command works on it. It rests on `OneInLoop` and on the
  restart taking the call away together with the file.

**`CapabilitiesProofs`**: `TypeCorrect`, from `CapabilitiesAssumption`.

**What the findings are due to.** Two of the claims that a run refutes are proved under the one condition
whose failure that run shows, so that nothing else in the model breaks them:

| Theorem | Claim | holds if |
|---|---|---|
| `EscalationEndsUnlessResumed` | `EscalationEndsTheLoop` | no invocation is resumed after an event of it has escalated. Crashes, exceptions and other resumes do no harm: what a drive skips of its invocation has no escalation in it (`SkipInv`) |
| `FreshIsStoredUnlessPartial` | `FreshIsStored` | no answer comes in partial frames. Lost connections, spoilt entries and restarts do no harm: a task that waits for the model after a miss has its record pending (`MissedIsPending`) |

Of the others, `DriveEnds` of `turn_loop` is liveness; `NeverBleeds` and `OnlyListedVerbs` fail by one comparison
that the code does not make, and that they hold with it would be no more than its definition.

Assumptions: `TasksAreFinite` because a process has finitely many flows at a time; `InstanceExists`
because `Init` chooses; the others give constants their types, and `Sim` what the rounding of a cosine gives.

Only model-checked: liveness (`DriveEnds`, `GoalIsAnswered`, `AskedIsAnswered`, `CallsReturn`, `ShellsEnd`,
`SoundIsLoaded`, `EndsUnlessACallIsServed`), since TLAPS does not reason about fairness. Every invariant
and action property of a passing run is a theorem. No module uses recursion.

## 5. Not modelled, and what is left

Not modelled:

* context compaction: the repository passes two integers to google-adk (`runtime.py:42-48`), and when a
  window is due, what it holds and what becomes of it is decided there. The documents disagree on what
  the interval counts: events (`runtime.py:43`, `.env.example:55`) or invocations (`compaction_demo.py:3`);
* model construction (`model.py`) and the scripts other than `persistence_demo.py`: constructors and
  printing, no state of their own;
* the compose file, except for restarts, the tmpfs, `pids_limit`, process 1 and Redis' snapshots; the
  documents on future milestones, which describe no code;
* in the cache: a time to live of 0 (nothing expires), `close()`; in the exec service: `/healthz`,
  the truncation of output, symbolic links; in the loader: arguments and environment of a server, which
  are passed on; the MIME type and base64 in `copy_out`.

Left: crashes in `CachedTurn`, where a resumed drive meets the entries of the one before.
