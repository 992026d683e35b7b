# A TLA+ model of CoMeT-CC

CoMeT-CC is a local TLS proxy in front of Claude Code that replaces turns it has
summarised by a summary, keeps the turns in a SQLite store, and shows the store
as a live graph. This directory holds TLA+ modules for the parts of it where the
order of things matters, TLC configurations that check them, and proofs that
TLAPS checks.

Paths and line numbers below are those of the repository (`src/comet_cc/` is left
out of paths).

## 1. Inventory

| Component | State it keeps | Operations | Talks to |
|---|---|---|---|
| Request extractor `proxy/extractor.py` | none | `messages_to_l1`, `bundle_l1` | called by the orchestrator |
| Trim orchestrator `proxy/trim.py` | job queue | `rewrite` (asyncio thread), `run_jobs` / `_do_sensor_check` (worker thread) | registry, sensor, compacter, synthesis, store |
| Session registry `proxy/session.py` | absorbed fingerprints, summary pair, two flags per session | `mark_*` | shared by both threads, mostly without its lock |
| Sensor, compacter, bundle synthesis `core/` | none | one `claude -p` call each | called by the worker |
| Node store `core/store.py` | nodes, raw turns, links, briefs | save, link, query | one connection, each call a commit |
| Hook-era worker and RPC `daemon.py` | a queue, the entries consumed, a busy flag | `queue_compact`, `_compact_loop` / `_do_compact`, `queue_depth`, `read_memory`, `save_compacted_node` | transcript file, store, briefs |
| Daemon process `daemon.py` | pid file, socket, the two workers | `serve`, `main`, the proxy thread | port, certificates |
| Management `daemon_mgmt.py`, `client.py` | none | `ensure_running`, `stop`, `ping` | the files, signals, the socket |
| Proxy server `proxy/server.py` | listening socket | `_handler`, `start`, `stop` | `rewrite`, upstream |
| Graph view `web/server.py`, `web/static/index.html` | last graph, client queues; the page's data set | poll, seed, broadcast, SSE | `list_all_nodes` RPC |
| Retriever `core/retriever.py`, `core/vector.py` | none | `get_context_window` | called by the orchestrator and an RPC; store |
| Tier-2 detail `core/detail.py` | a column of the node | `read_memory` depth 1 | LLM, store |
| Certificates `proxy/cert.py` | files | `ensure_certs` | called by the proxy thread and by shells |
| Parser `parser.py` | none | transcript file to logical nodes | called by the hook-era worker |
| CLI, schemas, policies, config, scripts, tests | none | | |

What makes them hard:

* **Orchestrator and registry.** Two threads share a record per session. The
  request thread reads it field by field; the worker writes it field by field.
  What is correct: flags that are exact, no turn left out of a request unless it
  is stored and a summary goes along, compaction that never stops for good.
* **Worker and store.** LLM calls fail, time out and return JSON of another
  shape; the process may be killed between two commits. What is correct: nothing
  is masked that is not stored.
* **Two workers, one brief.** The hook-era worker compacts a file that is still
  being written, next to the trim worker; both read, rewrite and save the session
  brief. What is correct: a turn is consumed only once it is summarised, is
  summarised once, and no minutes are lost without a race.
* **The graph of nodes.** A node, its turns, each link, each child and the parent
  of a bundle are commits of their own, and links are made without the store
  lock. What is correct: links go both ways, a bundle links its children and
  nothing else, retrieval stays in its session.
* **Daemon life.** Processes agree through files that any of them may remove.
  What is correct: one daemon, visible, stoppable, replaceable after any crash.
* **Certificates.** A file that exists is taken to be whole, and daemon and shell
  both make what is missing. What is correct: the chain served is the one the CA
  on disk signed.
* **Graph view.** One last-seen graph is shared by all tabs, and a poll in a
  thread may answer before, and be handled after, a page load. What is correct:
  a tab knows when it is behind, and ends up showing the store.
* **Extractor and parser.** Index arithmetic and nested loops over the same
  conversation, with different rules. What is correct: each message with text is
  in one entry, calls and results stay together, a file that grows changes none
  of the entries already seen except a bundle at its end.

The list `hazards` of PROJECT.json names the lines.

## 2. Modules

| Module | Models | Checked by |
|---|---|---|
| `Transcript` | the two views of a request and the parser as pure operators | through `TranscriptViews` |
| `TranscriptViews` | the loops of `bundle_l1` and `parse_transcript`, on a transcript that grows | `Views.cfg` |
| `Trim` | `rewrite`, `run_jobs`, `_do_sensor_check`, the registry, the two tables the worker writes, restarts | `MCTrim` with the `Trim*.cfg` files |
| `HookWorker` | the transcript file, `queue_compact`, `_do_compact`, the brief and `queue_depth`, next to the trim worker | `MCHookWorker` with `Hooks.cfg` |
| `TurnMemory` | abstract: what both workers promise about turns | property `ImplementsMemory` of `Trim` and of `HookWorker` |
| `Retriever` | `get_context_window`, `cosine_search` and the scoping queries as operators | through `NodeGraph` |
| `NodeGraph` | the rows of the store under the trim worker, other savers and depth-1 readers; composes `Retriever` | `MCNodeGraph` with `Graph.cfg` |
| `Certs` | `ensure_certs`, file by file | through `DaemonLife` |
| `DaemonLife` | `main`, `serve`, proxy thread, `ensure_running`, `stop`; composes `Certs` | `Daemon*.cfg` |
| `GraphFeed` | poll task, `seed_state`, queues, the page | `Feed.cfg` |
| `TranscriptProofs`, `TranscriptViewsProofs`, `TrimProofs`, `HookWorkerProofs`, `NodeGraphProofs`, `GraphFeedProofs`, `DaemonLifeProofs` | theorems about the modules they are named after (the last about `Certs` too) | TLAPS |
| `WindowProofs` | theorems about `NodeGraph` that count or rank: generations, the window of `Retriever` | TLAPS |

Operators named `X_Y` and marked "Mistake" are `X` as a plausible slip would
have written it; no specification uses them. Each property is violated when the
`X` it depends on is replaced by such a form (`mutants` in PROJECT.json).

### Transcript

A message is its role, its content blocks (text, a call for the assistant, a result
for the user, in any combination a role may have) and its fingerprint. A message
without any of them is *blank*: its content is one that `_text_of` flattens to
nothing (images, thinking, a system reminder). Such blocks next to others are not
modelled: no view keeps them.
`L1Len` and `L1At` are `messages_to_l1`; `Bundle` is `bundle_l1` as a set of
entries, an entry being the positions it renders. It is stated without recursion
so that the modules that use it can be proved about; `TranscriptViews` is the code's
loops.

What is stored of an entry is what its rendering keeps. `Said` is what a message says,
part by part: its blocks, what a call's input says beyond 300 characters (`input`) and
what a result says beyond 400 (`output`). `Rendered` is `raw_content`: `_render_tool_bundle`
keeps the calls with their inputs cut and the results, and drops text next to either;
`_text_of` keeps the text and cuts a result outside a bundle. `Kept` is what survives
in every case: the blocks of a message, without the text next to a call or a result.
Wording, and the order of blocks, are left out.

`Parse` is what `parser.py` makes of the transcript file, and it is not the same
view: the parser keeps an entry for a message without text and drops a tool result
that follows no call, the extractor does the reverse. `OnlyTailBundleGrows` says
what a growing file does to its entries.

### TranscriptViews

| In the model | In the code |
|---|---|
| `msgs` | the `messages` of a request, or the entries of the file |
| `view` | which of the two functions runs |
| `i`, `out` | the locals of that name (`nodes` in the parser) |
| `run` | `bundle`, `bundle_entries`: the positions the inner loop has gathered |
| `TakeToolMsg`, `CloseRun` | the inner loop: one iteration, and its end with the append after it |
| `OtherMsg` | an iteration of the outer loop that opens no bundle |

The two functions have the same loops and differ in what they append outside a bundle
(`Keeps`). When a loop has ended, `out` is compared with `Bundle` or `Parse`.

### Trim

| In the model | In the code |
|---|---|
| `absorbed`, `summaryUser`, `summaryAsst`, `inFlight`, `sensorQueued` | the fields of `SessionState`; a summary is the node it summarises |
| `jobs` | `TrimOrchestrator.jobs` |
| `req` | the locals of the `rewrite` call under way |
| `wrk` | the locals of `_do_sensor_check` |
| `owner`, `raw` | rows of `nodes` and `raw_turns`; a raw turn is the parts (`Rendered`) stored of each position |
| `Receive` .. `Forward` | the steps of `rewrite`, one for each read or write of shared state |
| `TakeJob` .. `Finally` | the steps of the worker, one for each commit, LLM call or registry write |
| `Restart` | the process ends anywhere and starts afresh |

`rewrite` is `async` but never awaits, so requests are rewritten one at a time.
The registry lock is held during the four writes of `mark_compact_done`;
`Receive` (`get_or_create`) and `MarkSensorQueued` wait for it, the scans do not.
A scan is one step per entry. The LLM calls have each outcome their wrappers let
through: a verdict, none, an exception. Retrieval injection does not change which
turns are kept and is left out; so are the nodes and links that cross-linking
and synthesis add. An sqlite error in one of the worker's own writes has no step of
its own: it ends the check as a failing LLM call does and leaves rows as a crash does.

A turn is stored (`StoredPositions`) when nodes of its session hold what its rendering
keeps. `MaskedIsStored` and all that builds on it say no more than that; that the store
is *verbatim*, as the repository says, is `MaskedIsVerbatim`, and it is false
(`trim_verbatim`).

A request is any prefix of the session's transcript that ends with a user message:
the next turn, the same request again, or an earlier one.

### TurnMemory

Three sets of turns per session: stored, masked, dropped from the request going
out. Masked turns are stored, dropped turns are masked, what is stored is never
forgotten. What counts as stored is each implementation's: for `Trim`, as far as the
rendering keeps the turn; for `HookWorker`, that a saved node summarises it.
`Trim!Memory` takes fingerprints for turns and maps the tables, the
mask and `Dropped` to the three sets; it holds on transcripts that repeat a
message too, since the text that is dropped is then stored, if not from where it
was said last. A message without text breaks it (`trim_blank`).
`HookWorker!Memory` takes positions of the file: stored is what saved nodes
summarise, masked is what is consumed, and nothing is dropped, as this worker
rewrites no request.

### HookWorker

| In the model | In the code |
|---|---|
| `Script`, `len` | the transcript file and how much of it Claude Code has written |
| `queue`, `consumed`, `busy` | `compact_queue`, `_consumed_fp`, `_worker_busy` |
| `wrk` | the locals of `_do_compact` |
| `asking` | the request between `mark_sensor_queued` and `jobs.put` |
| `trimJobs`, `trimQueued`, `trimFlight`, `trm` | the trim worker as the brief and `queue_depth` see it |
| `brief`, `saved` | `session_briefs` and `nodes` |
| `poll` | one `queue_depth` call |

A brief is the set of nodes whose minutes it holds: an LLM that is given a brief
returns it with the minutes of its own node added, so a lost update is a node
that leaves the set. Fingerprints of logical nodes are the positions they group:
`_fingerprint` (daemon.py:405) hashes the uuids of the entries of a node, so a bundle that
has grown is a new one. Ids of nodes are handed out in a fixed order, as they are
interchangeable.

`queue_depth` takes no lock, so each thing it reads is a step: the trim queue, then for
one session after another, in any order, `compact_in_flight` (`PollFlight`) and, if that
is down, `sensor_queued` (`PollQueued`), then the compact queue and the busy flag. A
call is followed only while all it has read is zero and nothing new was asked; otherwise
its answer says nothing or may say anything. `hookGap` and `trimGap` are history: a
reading of zero that had, at its own step, overlooked a worker in one of the named
windows. For the trim worker there are three such windows: `compact_in_flight` was read
while the check was still queued, and `sensor_queued` after the pickup, the worker by then
sensing; it was read between the pickup and `mark_compact_start`; or it was read after
`mark_compact_done` had lowered it (its first write, `TrimDone`) and before the mask and
the summary were written.

### NodeGraph and Retriever

`nodes` is the table, a row having the columns that retrieval, linking and depth-1
reads look at. `wrk` follows `_do_sensor_check` from the compacter's answer on, one
step for each commit; what comes before is in `Trim`. `HookSave` and `RpcSave` are
the other savers (`demo_seed_graph.py` is the only client of the latter: it makes up the
ids and sends no brief, so the replacing of a row by id and the brief of
daemon.py:119-120 are not modelled), a reader
`r` is a thread inside `_m_read_memory`. `StoreFree` is the store lock, which
`add_bidirectional_link` alone does not take. Nothing deletes a node.
A write of a bundle may raise (`BundleSaveRaises`): the children committed before it stay.

`Retriever` is evaluated over every graph so reached in which no thread is at
work: retrieval holds the lock and reads neither turns nor details, and a graph in
the middle of a check is also what a crash leaves. A query is the similarity it
has to each node, chosen from `Sims`; a decayed score keeps the order of the
scores it comes from, and a node leads to its neighbours (`Leads`) when hop one is on and
its score is above zero. Nodes of one score are taken in the order of their ids, where
the code leaves it to the database and to a dict. `cross` is `COMET_CC_CROSS_SESSION` of the running process,
`everCross` that of any before it.

### Certs

The files `ca.key`, `ca.crt` and `server.pem`, each opened (which empties it) and then
written. A key is named after the process that made it and a certificate after the
key that signed it. `leaf.key` and `leaf.crt` are written in between and read by
nobody, and are left out. `DaemonLife` lets proxy threads and shells call it, and
its crashes and stops interrupt it anywhere.

### DaemonLife

Each daemon goes through `main`; each caller through `ensure_running` or `stop`.
A check of a file and the act on it are separate steps. A process id is not
reused. `Patient` says whether a daemon boots within the caller's 15 seconds.

### GraphFeed

A graph is a set of items, nodes and edges alike; the store only grows, since
no handler deletes a node and what the view shows of one never changes.
`last`, `bootstrapped` are the broadcaster's; `queue[t]` stands for the
server-side queue of the tab and what is under way to it. `lost` is a history
variable: how a tab has missed a difference.

## 3. Runs

All pass runs are exhaustive over the bounds given (`graph` reaches 2.2 million distinct
states, `hooks` 1.3 million, `trim_safety` 266 thousand, `trim_liveness` 29 thousand).

| Run | Bounds | Shows |
|---|---|---|
| `transcript` | length 5, one fingerprint, all blocks and roles | the loops return what the operators say, each entry once; entries partition the text; a growing file changes only a bundle at its end |
| `trim_safety` | one session, 5 messages with a remark and a tool call in one of them, or with a repeated message, 2 nodes, 1 restart, buffer 2..3 | all safety properties and the refinement |
| `trim_liveness` | two sessions of 3 messages, 1 node, 1 restart | liveness |
| `hooks` | one session, a file of 3 entries that ends in a growing tool bundle, 2 nodes, queues of 1, buffer 1..2, 1 restart | consumed is saved and summarised once, lost minutes and false idle answers have the named causes only, the refinement, a backlog is absorbed |
| `graph` | 2 sessions, 4 nodes, 2 readers of node 1, top 2 peers, 1 child to a bundle, 1 node by RPC, 1 restart, windows of 3, similarities 0 and 1 | the links of the graph, cached details, the window retrieved from each graph |
| `daemon_sequential` | 3 daemons, 1 caller, 2 crashes | safety and recovery when starts do not overlap and boots are in time, and the certificates on the way |
| `feed` | 2 items, 2 tabs, queue of 2, 1 server restart | a tab is exactly its queue behind unless `lost` says why, and it catches up |

Why the bounds are enough. Two node ids give a second compaction, which is where
the summary pair is replaced and masks accumulate; ids not handed out again are
those of `uuid4`. A buffer minimum of 2 with five messages lets a request be
below, at and above both limits. One restart separates rows written before and
after it. In `hooks` two nodes are the least for two workers to race for the brief
and for a bundle to be summarised before and after it has grown; with one
session both workers are always on the same brief. In `graph` four nodes are a
bundle (parent and child) next to two nodes that can be peers of one session or of
two; a window of 3 is full, or has one or two slots for neighbours. Three
daemons give a crash, its replacement and a crash of that. Two tabs are needed for
one to disturb another; two items tell a stale reply from a fresh one.
`CHECK_DEADLOCK FALSE` is set where the bound ends the behaviour (ids and restarts used up) or in a violation run that is about a process
that stays behind.

### Where the sources say one thing and the code does another

| Run | Claim | What happens |
|---|---|---|
| `trim_blank` | trim.py:194 unabsorbed messages are kept | L1 indices are used on the messages array; a blank message shifts them |
| `trim_summary` | session.py:17 the pair covers what is absorbed | a second compaction replaces the pair |
| `trim_tool_split` | trim.py:195 the tail is a valid continuation | a scan torn by the worker keeps a call without its result |
| `trim_verbatim` | README.md:20, store.py:46 a node stores its turns verbatim | a bundle's raw turn has no text next to a call and cuts the input (extractor.py:142) |
| `daemon_zombie` | README.md:131 stop frees the port | a slow daemon is replaced, not stopped |

Reachable in the same models, without a run of their own. In the request path:

* a message that repeats an absorbed one counts as absorbed (extractor.py:4 says a
  hash tells what is new) and is dropped; its text is stored, so `ImplementsMemory`
  holds, but the request goes out without the turn the user just wrote;
* a request between pickup and `mark_compact_start`, or one that had scanned the turns
  before the mask was written, queues the turns the worker compacts: two nodes hold them
  (trim.py:325; session.py:28 means to avoid it);
* bundle synthesis that raises (on a reply that is a JSON list, bundle_synth.py:99) skips
  `mark_compact_done`: the saved node's turns are never masked and are compacted again,
  where trim.py:473 says that the turn-level compact still stands;
* a retry of a request all of whose turns are absorbed keeps nothing, not even the
  last user message (trim.py:194);
* what is kept after the injected pair begins with an assistant message, since
  buffers end with the user message of the request they come from (trim.py:102).

In the hook-era worker and the store:

* a bundle that ended the file when it was compacted is compacted again once it
  has grown (daemon.py:42 means the buffer to be monotonic), and all turns are
  compacted again after a restart, as `_consumed_fp` is memory only;
* both workers may read a brief before either writes it: the minutes of the first
  to write are lost;
* `queue_depth` answers all zero with a worker at work, where daemon.py:213 lets tests
  await full idle: between the compact queue and `_worker_busy`, and in the windows of
  the trim worker listed under HookWorker;
* nodes of the hook-era worker and of the RPC have no raw turns (README.md:23 says
  every node stores them), so depth 1 and 2 of them have nothing to show but the
  summary;
* two depth-1 reads that overlap both generate the detail (as often as there are
  readers, never more: `GenerationsAreBounded`);
* a link made while `COMET_CC_CROSS_SESSION` was set leads a later scoped retrieval
  out of its session (config.py:82, retriever.py:27);
* a neighbour that is a child does come up, which retriever.py:88 holds impossible,
  through a link a client of the RPC gave it, or through the links of the bundle's
  parent itself when that is ranked; the slot it took stays empty.

In the daemon's life and its view:

* two shells that start at once both find no daemon and both spawn one
  (daemon_mgmt.py:62; `AtMostOneAlive` with two callers);
* on a first start one shell and the daemon it spawned may both make certificates:
  the chain served is then not signed by the `ca.crt` on disk (cert.py:118), which
  is the `raced` of `ChainIsTrusted`;
* a stop or a kill during that first start can leave an empty file, which is taken
  for a whole one from then on: RPC works and the proxy never comes up until the
  file is removed by hand;
* a graph difference broadcast between a page's fetch and its registration never
  reaches the page, and a second tab's `seed_state` takes one from the first
  (web/server.py:148): the values `"unregistered"` and `"seed"` of `lost`.

### Fairness

`Trim`: the request steps and the worker steps are weakly fair. `rewrite` runs
to its end once started, and every call the worker makes has a timeout (30, 180
and 120 seconds). Nothing is assumed of clients, of the LLM's answers or of
restarts. `SensorNeverStarved` and `BacklogIsCompacted` carry their assumption
about the client in their premise.

`HookWorker`: both workers are weakly fair, for the same reason. That the session
goes on asking and that the LLM does not go on failing are in `BacklogIsAbsorbed`.

`DaemonLife`: daemons and callers take their steps. `StartRecovers` allows for
the spawned process being killed.

`GraphFeed`: the poll task and the stream writer take their steps. That the
daemon answers again and again is the premise of `ViewCatchesUp`, not fairness.

## 4. Proofs

Each theorem holds for every value of the constants that meets the assumptions named
in the modules; a hypothesis beyond those is named below.

`TranscriptProofs`: `BundlePartitionsText`, for a transcript of any length. A
message in a run is in the entry of the run's first call (`RunHasStart`), found as the
least index from which all messages are tool messages (`LeastNatural`); two runs that
meet start at the same call. `BundleAtType`, `RawTurnsType`, `KeptIsRendered` and
`RawTurnsHold` are what `TrimProofs` needs: an entry of the bundled view of picked
positions is a set of such positions, and what is rendered of it holds what `Kept` says.

`TranscriptViewsProofs`, for transcripts of any length:

* `BundleLoopReturnsBundle`, `ParseLoopReturnsParse`, from `LoopInv`. The properties
  speak of a loop that has ended only. `LoopInv` says what holds at each iteration:
  `out` has exactly the entries that begin before the outer loop's position (or before
  the bundle being gathered), no two alike, and no run goes across that position, which is
  why a tool use met there opens a run and any other message is in none.
* `TextPartitioned` and `ToolPairsTogether`, from the types and the lemmas on `Bundle`.
* `OnlyTailGrows`: a message appended leaves `InRun` and `StartsRun` of the others as
  they were, so only the run that reaches the end can become another entry.

`TrimProofs`, for every set of sessions and scripts and every bound that meet
the assumptions of `Trim`:

* `TypeCorrect`, from `TypeInv`: `TypeOK` and the bounds that tie `req.n`, `req.k`
  and the kept positions to the session's script.
* `SensorFlag`, `OneCheck`, `InFlight`, from `FlagInv`. `SensorFlagExact` alone is
  not inductive: when the worker picks one check up, the flag is cleared, and
  the property survives only if no second check of the session is queued or
  about to be (`OnePlace`). `OneCheckPerSession` in turn needs the flag.
* `MaskedStored`, from `StoreInv`. It adds what the worker has already done at
  each step: from `link` on the raw turns of the buffer are in `raw`, from `save` on the
  node is the worker's own and no older node's rows are touched (`NodeInv`). That the
  raw turns of a buffer hold what `Kept` promises of every message in it is a lemma about
  the rendering, `RawTurnsHold` of `TranscriptProofs`, for entries that are a tool
  run or a single message (`EntriesOf`), as all entries of a bundled view are.
* `OnlyStoredDropped`, from `KeepInv`: each position already scanned was kept or
  was masked at that time; masks only grow within a process and a masked position
  of a clean script is a stored one.
* `SummaryCarried`, from `PairInv`. The property is about a request on its way out;
  that its summary names a saved node needs the same of the pair at every moment
  (the worker writes it after the rows, and rows stay), that the worker never compacts an
  empty buffer, or the node would have no turns, and that a pair seen before the second
  scan is still there at the injection.
* `TrimRefinesMemory`, for scripts of text messages (`TextOnly`): initial states map to
  initial states and each step is a step of `TurnMemory` or a stutter. Without the
  hypothesis it is false: the two scans count differently once a message is blank
  (`trim_blank`).

`HookWorkerProofs`, for every set of sessions, every transcript, every bound and
number of restarts that meet the assumptions of `HookWorker`:

* `HookTypeCorrect`, from `TypeInv`: `TypeOK`, the file no longer than its script,
  and a node in hand wherever one is written.
* `HookConsumedSaved`: `ConsumedIsSaved` is inductive once `NodeInv` says that the
  node in hand is in no one else's hand, unsaved before `SaveNode` and the worker's
  own with its buffer from then on until it is marked (`BufferSummarised`).
* `HookRefinesMemory`: initial states map to initial states and each step is a step
  of `TurnMemory` or a stutter; `SaveNode` stores, `MarkConsumed` masks, and it is
  `ConsumedIsSaved` that lets it.
* `HookSummarisesOnce`, from `OnceInv`. `TurnsSummarisedOnce` is not inductive:
  that a new node repeats nothing follows from what is in the buffer, so `OnceInv`
  says that the buffer is disjoint from what is consumed and that every node of this
  process holds consumed entries or those about to be. What is left is two different
  entries of one transcript read at two times, which is `ParseGrows` of
  `TranscriptProofs`: for a transcript of any length they are disjoint, or one has
  grown into the other.
* `IdleAnswer`, from `FlagInv` (a check that is asked for, in the queue or just taken
  has its queued flag up, one that has started and is not lowered its in-flight flag) and
  `PollInv` (what each reading of zero still implies at the next, for the sessions already
  read and for the one in between). The order of the readings matters: job queue before
  flags, `compact_in_flight` before `sensor_queued`, compact queue before busy. Work
  that moves on in between is met again, except for a check that goes from its queued to
  its in-flight flag against that order, and that is a gap the property names.
* `LostMinutes`, from `MinutesInv`. The property says nothing of a worker that has
  read the brief and not written it; `MinutesInv` adds that the brief it read holds
  the minutes of all nodes it wrote itself, but for those already raced out, and
  `RacedStays` that what was raced out stays so.

`NodeGraphProofs`, for every set of sessions and readers and every bound:
`GraphTypeCorrect`, `GraphLinksMutual`, `GraphBundles`, `GraphOrphans`,
`GraphDetails`, all from one invariant `GraphInv`. `LinksAreMutual` needs no more
than the types: a link and its inverse are one transaction. `BundleLinksAreItsChildren`
is far from inductive: when the parent is saved its links are the children the
worker holds, so `WorkInv` says that those are exactly the rows that name it
(all of them, once the worker is at the parent), that it is not saved, and that
neither it nor they are ids a crash has lost; `RowInv` says that a lost id is never
saved and that a missing parent is lost (to a crash or a failing write) or in hand. `DetailComesFromTurns` needs
`ReaderInv`: a thread that generates has seen turns, which nothing removes.

`WindowProofs`, about the same module, on top of `GraphInv`:

* `GraphGenerations`, for any finite set of readers, from `GenInv`: the times a node's
  detail was generated and the threads that are still at it (`Busy`) are together no
  more than the readers. A thread starts only where there is no detail yet, so once one
  has been written their number only falls; that they are counted once each is
  where the cardinalities come in.
* `GraphScope`, from `ScopeInv`: what the worker has in hand is of its session
  (the node, its hits, the children saved so far), so each link it makes is, unless a
  process crossed sessions or one end came by RPC. The window then follows for any
  graph and any query, as all it holds is ranked or linked to something ranked.
* `GraphRoom`: no invariant but the types; it is counting over `Retriever`. Neighbours
  are taken as far as the room goes (`Expand`), children are dropped afterwards, so what a
  top-level neighbour lacks in room is the number dropped.

`GraphFeedProofs`, for any tabs, items, length of queue and number of restarts:
`TypeInvariance` with the queues' limit, and `TabsInStep`, from `FeedInv`. `InStep` is
not inductive: a stream is opened on the assumption that nothing was queued before, and
the first reply after a restart is taken without a broadcast, on the assumption that no
page is in step then. `FeedInv` says both.

`DaemonLifeProofs`:

* `TypeInvariance`, `ChainTrusted` and `CertsLackedOnlyIfTorn`, for any number of shells,
  daemons and crashes, patient or not. The last two come from `MakersInv` and `ProxiesInv`:
  as long as nobody has raced, at most one process is past its check (`Alone`); what it
  has in hand at each step is tied to what is on disk (`Hand`); and wherever
  `ensure_certs` is interrupted, no certificate is there without the whole file it was
  signed with, and each names the signer that is on disk (`FilesInv`).
* `OneDaemon`, `ServingVisible` and `NoBrainSplit`, under `Patient` and `[]Serial`: any
  number of shells, which wait as long as a boot takes and whose commands never overlap.
  One shell, as in the run `daemon_sequential`, is the case where `Serial` always holds.
  Both halves are needed, and TLC has the counterexamples: two overlapping shells both
  spawn, and an impatient one replaces a daemon while it boots (`daemon_zombie`).
  `LifeInv` says what the step of the shell whose turn it is (`Turn`) tells of a daemon
  that is alive (`Knows`): none while it removes files and spawns, the one it waits for
  while that boots, one that serves when all are idle or one is asking, one with its stop
  flag set when it awaits an end. `ShellInv` keeps a shell inside `ensure_certs` at the one
  step that calls it. `NoBrainSplit` needs `PortInv` too: the port belongs to the proxy
  that is up, that proxy's process is alive, and as no other is, no proxy finds it taken.

The assumptions on the constants are named in each module (`BufferAssumption`,
`ScriptAssumption`, `RestartAssumption`, `SessionAssumption`, `NoNodeAssumption` of `Trim`;
`ScriptAssumption`, `BufferAssumption`, `BoundAssumption`, `SessionAssumption`,
`NoneAssumption` of `HookWorker`; `BoundAssumption`, `ModeAssumption`,
`MayCrossAssumption`, `NoneAssumption`, `ScoreAssumption`, `ReaderAssumption` (threads are
finitely many) of `NodeGraph`; `QueueAssumption`, `ServerAssumption` of `GraphFeed`;
`PatientAssumption`, `CrashAssumption`, `NoneAssumption`, `ProcessAssumption` (a shell is not
a daemon) of `DaemonLife`); TLC evaluates them in every run of the module.

Model-checked only: all liveness (`SensorNeverStarved`, `BacklogIsCompacted`,
`BacklogIsAbsorbed`, `StartRecovers`, `ViewCatchesUp`), which is out of the prover's reach,
and the runs that show a violation. Every invariant and every other action property of
the passing runs is proved.

## 5. Plan

Done, in this order: Transcript, Trim, TurnMemory, their proofs, DaemonLife,
GraphFeed; then the parser, HookWorker and its proofs, Retriever, NodeGraph and its
proofs, Certs composed into DaemonLife; then the loops of the two views, and the proofs of
every invariant that was only model-checked.

Next:

1. The whole outgoing array of `rewrite`, injected pair included, and a run about
   alternation (trim.py:102, 206).
2. `HookWorker` with two sessions in one run, if its states can be kept within reach.

## 6. Not modelled

Prompts, parsing of LLM output beyond success, failure and exception, embeddings
(a similarity is chosen), rendering of nodes and turns, HTTP streaming, drawing,
installation and demo scripts: I/O, wording or layout. Policies are prompt text; of schemas and
configuration the fields and limits that matter are in the modules. Timing is modelled only as order;
the 15-second wait is the constant `Patient`.

Left out of modules that model the rest of their part: the tag table, the schema
migration, and deletion of nodes, which nothing calls; the refusal of native
compaction, which returns before any state is touched; RPC handlers that are one
query; commands of the CLI that are one RPC and its formatting.
