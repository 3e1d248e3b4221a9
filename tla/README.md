# Formal model of Sage

TLA+ specifications, TLC models and TLAPS proofs for the parts of this
repository whose correctness depends on the order in which several actors act:
the runs of a coding session and the turns of its agent, the knowledge base and
its ingestion, the evidence they leave on disk, accounts and model providers,
and the programs that maintain and deploy the service. Every module is
translated from the source; `PROJECT.json` gives, under `map`, the lines the
main definitions stand for, under `hazards` what is hard to test at which line and
which property covers it, and under `components` the status of each part.

## 1. Inventory

### 1.1 Components

Sources are under `src/`.

| Component | State | Operations | Hard behaviour |
|---|---|---|---|
| Session journal (`core/coding/persistence/session_event_journal.py`) | events, one lease row, fencing token in SQLite | begin, resume, append, terminal, release, recover | stale owners, several processes on one file |
| Run coordinator and registry (`core/coding/run_coordinator.py`, `api/coding_runs.py`) | active run, its task and lease, hydrated sessions | start, consume, cancel, suspend, recover, shutdown | cancellation at every await, threads that outlive their task, crash, overlapping instances |
| Timeline subscription (`subscribe`, `_broadcast`) | broadcast cursor, a bounded queue per reader | subscribe, broadcast, page, poll, reconnect | dropped events, foreign writers |
| Session runtimes (`api/coding.py`, `core/coding/session_store.py`) | session file, runtimes in memory, model settings, owner | create, resume, connect, turn, settings, reset | handlers that hold a replaced runtime |
| Coding runtime and engine (`core/coding/runtime.py`, `engine`, `tool_executor`, plan mode) | turn, policy, approvals queue, plan, trace | turn, call, approve, review, stop | generators stopped between two events |
| Graph runs (`core/harness/runtime_adapter.py`, `event_adapter.py`, `tools_adapter.py`) | checkpointed graph, interrupts, public timeline | call, interrupt, resume, project | re-executed tasks, restart while an approval waits, text cut anywhere |
| Research subagents (`core/harness/subagent_adapter.py`, `packages/sage_harness/.../subagents`) | children, shared budget, ledger in the checkpoint | reserve, run, settle, recover | concurrent children, timeouts, crash |
| Capabilities (`capability_adapter.py`, `deferred_tools.py`, `skills.py`) | catalog, promotions in the checkpoint | search, promote, filter | catalog that changed before a resumption |
| Thread state (`sage_harness/runtime`, `state.py`, `checkpoint.py`) | messages, channels, binding to an owner | reduce, bind, compact | results in any order, turns cut short |
| Sandbox and file tools (`container_sandbox.py`, `local_sandbox.py`, `tools`) | workspace, read stamps, containers | read, write, patch, start, stop | edits beside the agent, threads that outlive a turn |
| MCP sessions (`mcp/manager.py`, `mcp_adapter.py`, `mcp_session_pool.py`) | catalog cache, pool, owner tasks | discover, open, join, evict, close | cancelled callers |
| Compaction (`core/coding/context`, `compaction_store.py`) | projection, attempts, checkpoints | plan, summarise, apply, restore | crash between two files |
| Transcript, export and tool results (`core/coding/persistence`) | table, JSONL file and backup, result and sidecar | append, export, archive | failed file operations, power loss |
| Run audit (`run_store.py`, `stage_events.py`, `workspace_diff.py`, `usage_store.py`) | trace, audit, diff, usage | record, pair, project | parallel calls, torn lines, restart |
| Memory proposals (`memory_store.py`, `memory/`) | proposals, facts, topic files | approve, reject, roll back, replay | interrupted writes |
| Knowledge jobs (`core/knowledge/jobs`) | jobs, items, leases, keys, tickets; queue in Redis | create, claim, defer, complete, fail, recover, publish | expiring leases, lost publication |
| Source synchronisation (`jobs/sync.py`) | manifest, watermark, hash, plans | scan, plan, commit | plans made against a state that moved on |
| External parsing and local parsers (`core/knowledge/parsing`) | ticket, tasks, blocks | submit, poll, fall back, parse | retries after a crash, an outcome recorded late |
| Knowledge store (`core/knowledge/store.py`) | proposals, files, Git, database, index | propose, review, project, retract, undo, repair | four durable effects that cannot be one |
| Knowledge views (`index.py`, `retrieval.py`, `graph.py`, `graph_analysis.py`) | chunks, snapshots, analyses, citations | index, retrieve, build, analyse, resolve | stale derived data |
| Source proposals (`source_proposals/`) | row, snapshot, job | propose, approve, reject, retry | concurrent reviewers, replaced artifact |
| Loop harness (`core/loop_harness`) | runs, lease, pull requests, mode | scan, fix, publish, review, merge | effects outside the fence |
| Cloud accounts (`core/cloud/auth`) | invites, identities, devices, OAuth transactions | sign in, link, revoke | concurrent transactions |
| Model providers (`core/cloud/model_providers`) | records, default, test results | create, update, test, delete | state read before an await |
| Deployment and watchdog (`scripts/`) | image, schema, record, controller state | apply, roll back, check | a failed step, unlocked commands |
| Frontend timeline store, web clients, travel agents, evaluations | - | - | see section 8 |

### 1.2 Interactions

* Endpoints call the registry; it owns one coordinator per session, which writes
  to the journal. The journal is shared by every process that opened the
  session; its single lease row and fencing token are all that coordinates
  processes. `RunCoordinator` is composed with `SessionJournal` and shown to
  implement its contract; `TimelineFeed` reads the same events.
* The coordinator consumes a stream of events: of the engine (`TurnEngine`) or of
  a graph (`GraphTurn`, shown to its reader as `PublicStream` says). In
  `RunCoordinator` that stream is any sequence with an approval, which both
  satisfy. Approvals wait in memory and are recorded as journal events.
* A graph's tools are those `Capabilities` lets through; they run in the sandbox
  (`SandboxTools`), in an MCP session (`McpSessions`) or as children
  (`Delegation`). The checkpoint that outlives a turn is `ThreadState`.
* PostgreSQL is the authority of knowledge jobs; Redis only delivers item ids.
  The transaction that finishes the last item of a job also commits its
  synchronisation plan. An item is parsed as `ExternalParsing` or
  `DocumentBlocks` say, its result becomes a proposal in `KnowledgeStore`, and
  what is approved there is served by `KnowledgeViews`.

### 1.3 What makes each component correct

The properties of section 3 say it in one sentence each; the comment before each
definition says it in full, with the function it is about.

## 2. Modules

Each component module has its state as `VARIABLES`, one action per transaction,
awaited section or step, a type invariant and its properties. Names carry a
prefix (`Kb`, `Gt`, ...) where modules are united in one model. A bound on a
counter is a constant with `Max` in its name and appears in a guard.

| Module | Models | Rests on |
|---|---|---|
| `SessionJournal` | tables and transactions of the journal; `JournalSpec` is the contract of its callers | |
| `RunCoordinator` | coordinator and registry of every instance over one journal | `SessionJournal` |
| `TimelineDelivery` | abstract: in-order, exactly-once, eventual delivery | |
| `TimelineFeed` | `subscribe` and `_broadcast` for one reader | implements `TimelineDelivery` |
| `SessionRuntimes` | handlers, sockets, file and settings of one session | |
| `TurnEngine` | one session's turns in runtime, engine and executor | |
| `GraphTurn` | a graph run: calls, interrupts, approvals, resumption, timeline | |
| `PublicStream` | what of a graph's stream its reader is shown | |
| `Delegation` | children of a graph run under one budget | |
| `Capabilities` | deferred tools: catalog, promotion, filters | |
| `ThreadState` | a thread's messages and channels | |
| `SandboxTools` | reads, edits and containers of a turn | |
| `McpSessions` | catalog cache and session pool of one MCP server | |
| `Compaction` | transcript, projection and checkpoints of a session | |
| `EvidenceStore` | transcript table, export, archived results | |
| `RunAudit` | trace, audit, stages, diff and usage of a run | |
| `Decision` | abstract: a proposal is decided once and carried out if accepted | |
| `MemoryProposals` | proposals, facts and files of a workspace's memory | implements `Decision` |
| `IngestJobs` | repository, queue and worker loop of knowledge jobs | |
| `SourceSync` | scan, plan, job and commit of one source | |
| `ExternalParsing` | the parse of one PDF through the adapters | |
| `DocumentBlocks` | block structure of Markdown, HTML and PDF text | |
| `KnowledgeStore` | proposals, review, policy and projection of one wiki | |
| `KnowledgeViews` | index, retrieval, graph, analysis and their endpoints | |
| `SourceProposals` | one proposed web source and its reviewers | |
| `LoopHarness` | runs of the maintenance loop and GitHub as they see it | |
| `CloudAccounts`, `ModelProviders` | sign-in; an account's model providers | |
| `CanaryDeploy`, `GatewayWatchdog` | deployment and its controller; the gateway's watchdog | |
| `...Proofs` | theorems: `RunCoordinatorProofs` about journal and coordinator, `IngestionProofs` about jobs and synchronisation, `KnowledgeStoreProofs`, `ContextProofs` about compaction, deferred tools, thread state and children, `AgentProofs` about both kinds of proposals, the sandbox, turns, MCP sessions, the timeline and the watchdog, `EvidenceProofs` about transcripts, results, exports, parsing and knowledge views, `PlatformProofs` about accounts, providers, deployment and the maintenance loop, `CompositionProofs` about what union models promise together | |
| `MC...` | instances for TLC | |

An operator introduced as "Mutant of" is a wrong variant of the definition that
follows it (a dropped guard, a forgotten reset). It is in no specification;
putting it in the place of its original must break the property `PROJECT.json`
names for it, which shows that the property speaks about that piece of code.

### 2.1 Sessions and their runs

**SessionJournal.** Every method is one `BEGIN IMMEDIATE` transaction and so one
action. An event is its run, its kind, what the lease rules look at and the token
its writer presented. `JournalSpec` lets callers act in any order, and lets
recovery take a live owner for dead; its demands on callers are that `begin_run`
gets a run without events, that events without credentials go to the record of a
rejected input, and that recovery closes started runs only.

**RunCoordinator.** A coroutine is a control state per await: `start[p]`,
`task[p]` (`_consume`), `stop[p]`, `shut[p]`, `hyd[p]` and `todo[p]`, `reject[p]`.
`inner[p]` is the shielded `_persist` that goes on after its task was cancelled;
`orphans[p]` are the threads of unshielded terminal writes. `Interrupted` says
where `task.cancel()` takes the task from each of its states. A crash empties
memory and keeps the journal; a restarted server is another owner. `Fault` is a
transaction that fails and rolls back.

**TimelineFeed.** Events are their sequence numbers. Writers are this instance
(commit, then broadcast, under `_publish_lock`), a terminal transaction that
returns an old event, and everyone who appends without a broadcast.

**SessionRuntimes.** `srMem` is a table of runtimes, `srCurrent` the one in
`coding_sessions`; a socket and a handler after an await may hold another. Every
save writes the whole session over the file, as the code does. A message, and the
answer that takes a kept run up again, are accepted some awaits before their run
takes the lease, and some more before the coordinator is busy: `srWay` holds what is
on its way, `srRun` goes through `begun`. A resumption may come in between;
`srCrossed` remembers that one did. A restart closes a run or, if it waits for an
approval, keeps it.

**TurnEngine.** The three generators are one control state `tePc` that moves from
yield to yield; the model may answer a call, a final text, or nonsense; the user
stops, answers, reviews, changes permission, edits the file or goes away in
between. The queue of approvals keeps what other calls left there.

**GraphTurn.** A superstep runs the calls of a message in parallel; an
interrupted task is run again from its beginning on resumption. `gtAd` is what the
event adapter remembers of calls it has shown, `gtLog` what it has published, and
`gtStreams` the namespaces by which a restarted process tells its events from
those of the run's first part.

**PublicStream.** Three concerns of the event adapter, of which one behaviour
shows one: text whose tags may be split between chunks (compared with the same
text filtered whole), usage and stop notice over the runs of a thread, citations
cut down to an event's size. The filter is the code's loop over the pending
text, as a recursive operator.

**Compaction, EvidenceStore, RunAudit.** A summary is the set of transcript items
it speaks for, so "whole" is a statement about sets and order. File operations
are steps that may fail; a loss of power chooses which unsynced effects are on
disk. The trace has the lines as `event_adapter.py` and the executor publish them:
results of a graph's direct tools without arguments, some without an id, a result that
is archived or echoed twice. The audit is recomputed from it by the pairing rules of
`run_store.py` and compared with what happened (`call`, a field no rule reads).

### 2.2 What an agent uses

**Delegation.** A child is a control state per await with its reservation; the
ledger is written when the last call of a message is in, as one superstep writes
it. Tokens are small numbers; every comparison the middleware makes is kept.

**Capabilities, ThreadState.** The catalog hash stands for what is hashed;
reducers are applied to concurrent updates in every order.

**SandboxTools, McpSessions.** Threads and owner tasks are actors of their own,
which go on when the request that made them is cancelled.

### 2.3 Knowledge

**IngestJobs.** One action per repository transaction, locked by the job row;
the queue's Lua script and `XACK` are single steps. `later` is the set of items
whose `next_attempt_at` is in the future. A lease expires when its worker is
gone, or (`MaxStalls` times) under a worker that is merely slow. Messages of one
item are merged, since the worker treats each alike. A job without items is
completed when it is created.

**SourceSync.** Plans are named by their content, as `build_plan_id` does, hashes
are the values they are taken of. `RefreshJob` contains `_finalize_sync_plan`,
because it is part of the same transaction.

**ExternalParsing, DocumentBlocks.** One claim of an item is one pass over the
adapters; tasks at the service live on their own. An error that is no
`ExternalAdapterError` leaves dispatch and `_parse_document` (`XpEscape`). The
parsers' loops are actions of one turn each, over every short document; all skipped
HTML tags share one depth, as `_skip_depth` does.

**KnowledgeStore.** A section under the workspace's file lock is an action; a projection
is six (check of the base, backup, files, Git index, HEAD, database), and may fail or
die between any two. Editors take no lock: `KbOutsideEdit` may act between any two of
them; `kbLate` holds the files edited after the check. Page bodies are records that say
where their text came from.

**KnowledgeViews.** A revision is its place in `kvRevs`, a snapshot is known by
the page revisions its hash covers, an analysis by its graph and goal. The three
statements of a search are three steps, without a lock, and so is the read of the
goal before an analysis; everything else holds the workspace lock. Full-text
scores and vectors give any ranking, Louvain any split of a connected component;
fusion, the token budget, the projection of pages to nodes and edges and the
insights are the code's.

**SourceProposals, MemoryProposals.** One row under a lock per method; every file
write is an action of its own.

### 2.4 Platform and operations

**LoopHarness.** A step is one outside effect with the two checks of `_fenced`
around it, so the lease, the mode and the branch may change between check and
effect. **CloudAccounts** and **ModelProviders** have a step per statement or
await, row locks and the database's deadlock victim. **CanaryDeploy** is a
sequence of commands of which any may fail or be the last; the controller on
another machine sees answers only. **GatewayWatchdog** counts time in checks and
lets the clock be set back.

## 3. Runs

| Run | Model | Shows |
|---|---|---|
| `coordinator_overlap` | 2 runs, 2 overlapping instances, 3 events before a stream must end, 3 leases | closed runs stay closed, tokens never go back, a live run keeps its lease and an idle instance none |
| `coordinator_serial` | the same, one instance after the other, one failing transaction | one open run, recovery keeps approvals, every step is a step of `JournalSpec` |
| `coordinator_live` | 1 run, 3 instances in turn, 2 leases | stopped and abandoned runs are closed |
| `ingest_live` | 1 worker, 2 items with the same change in 2 jobs, 2 attempts, 1 deferral, 1 manual retry, 1 lost lease | every item settles, and the change is applied once |
| `knowledge` | `MCKnowledge`: ingestion by 2 workers, synchronisation, store, views, source proposals | see 3.1 |
| `agent` | `MCAgent`: turn, delegation, MCP, graph, public stream, compaction, capabilities, thread, sandbox, audit | see 3.1 |
| `platform` | `MCPlatform`: loop, accounts, providers, deployment, sessions, evidence, parsing, blocks | see 3.1 |
| `components_live` | `MCLiveness`: timeline, memory, turn, delegation, watchdog, MCP, under fairness | see 3.1 |
| `coordinator_shutdown`, `coordinator_faults`, `ingest_cancel`, `sync_revert` | | a statement of a document that the code does not keep: section 6 |

The components within a union model share no state at this level of detail: what
one hands to another is a free input of the other's model. An interleaving of two
of them would show no more than each alone, so `part` picks one and the others
stand still; a run is the union of the components' own models and its properties
are about the part that moves. Composition proper is in `RunCoordinator` over
`SessionJournal`, in `TimelineFeed` against `TimelineDelivery`, in
`MemoryProposals` against `Decision`, and within the modules that hold several
programs (`CanaryDeploy` with its controller, `LoopHarness` with its
operator, `TurnEngine` with executor and approvals, `KnowledgeStore` with policy).

### 3.1 Properties of the union models

| Property | Says |
|---|---|
| `IngestHolds` | two workers apply a change once, jobs report their items, marked items have a message, every lease is worked on by its owner |
| `SyncHolds`, `CommitsHold` | hash and manifest agree, exactly the committed plans have completed jobs; the manifest moves by whole plans that show what a scan saw |
| `KbStoreHolds`, `KbUpdatesSurvive` | the index serves an old revision only where it says error, an undo restores what was there; no projection loses a reviewed text, or an edit made beside the store before the base was compared |
| `KvViewsHold` | snapshots and the gaps an analysis reports are those of the page revisions they name, answers fit the token budget and begin with the best hit, a learning cites outdated text only after a failed indexing |
| `SpApprovedIsBacked` | an approved source has its job, a snapshot of exactly the reviewed content, and a registered root |
| `TeTurnHolds` | a call that needs consent runs only with it; a run is closed once with the status its events give |
| `GraphHolds` | the same of a graph across interrupts and restarts, results follow their calls; text, usage and citations shown are those of the graph, however they are chunked |
| `DgRunHolds` | children stay within what their parent may spend, and none outlives its run unrecorded |
| `MsSessionsHold` | when no request is under way every open session is registered in the pool or told to end, and the pool is within its limit |
| `CpProjectionIsWhole` | every transcript item reaches the model exactly once, through the summary or in order in the tail |
| `CbOnlySelected` | a deferred tool runs only with the schema under which it was selected, and only if the skill allows it |
| `TsThreadHolds` | every result stands behind its call; the references kept do not depend on the order of results |
| `SbSandboxHolds` | a patch changes only text that was read, a local edit of what the agent knows passes unless the user saved the same text again, a closed turn leaves no container except by a start under way |
| `AuEvidenceIsTrue` | the audit has every step once, but for results published twice, and gives each its own outcome where tool and arguments can tell; stages, diff and usage say what happened |
| `LhRequestsHold` | at most one pull request is open, one more per lease that expired under a live run; what is merged is the reviewed commit, in the mode that allows it |
| `CaAdmission` | device limit, invites spent once, every session belongs to an admitted identity |
| `PvProvidersHold` | the default model exists, keys go to checked hosts only, names are distinct |
| `CdReleaseHolds` | the running image has its schema, the record tells what runs, failures in a row pause deployment |
| `SrOneConversation` | a waiting approval can be reached, after a restart too; the current runtime's history is the transcript, unless a run began that a resumption overlapped |
| `EvidenceHolds` | answers are rows, an export never goes back, a plain result has no sidecar, a described one an earlier one's only until its own is written; a ticket tells what became of the task, a readable PDF is given up only after errors no adapter foresees; every line of Markdown is in one block under its open headings, no text of skipped HTML in any while its tags nest |
| `InOrder`, `ImplementsDelivery` | the reader gets 1, 2, 3, ... and in the end all of them |
| `MpImplementsDecision` | memory proposals implement `Decision`, interrupted projections included |
| `TurnsEnd` | turns, children and MCP requests end |
| `WdRecoveryAnnounced`, `LiveHolds` | an outage that was noticed is followed by an announced recovery; what no recovery may break: gaps repairable, files follow decisions, restarts spaced |
| `...TypeOK` | one type invariant per model |

Several are conjunctions of named parts (`SbPatchesKnownText /\ SbLocalEdits /\
...`), each with its own comment, stated together because they speak of one
mechanism.

### 3.2 Why the bounds suffice

* Two instances and two runs are what a conflict over one lease row takes. Three
  tokens let a run be started, resumed and followed by another, so that a late
  thread, a stale owner and a successor meet.
* A queue of two with four events overflows while the reader repairs; a page of
  two needs several pages.
* Two items with one key in two jobs are the smallest duplicate; a stall and a
  crash give every hand-over of a lease. Two plans and an edit let a plan be
  overtaken between its scan and its commit.
* Two actors, one source with two contents, its page, the overview and the goal,
  two requests and one fault give the store every pair of a projection and
  another operation, with a failure between any two of its effects.
* Two pages of one source, two texts and a learning, two revisions, two requests
  and one fault let a search, a graph or an analysis be overtaken by a revision,
  an edit of the goal or a rebuild; two nodes that are linked, a missing concept
  and a self-link are the smallest graphs with every kind of insight but a sparse
  community, which takes three nodes without ties.
* Two calls or children are what concurrency takes; a third call of a graph lets
  a risky call meet another risky one and a direct one, in one message or after.
* Two crashes of a graph separate one before from one after an answer. Four
  transcript items and three attempts let a compaction compact a compaction.
* Text of six pieces in chunks of two holds two tags cut at every place, nested
  or joined; three citations of different size meet every limit.
* Four lines hold a fence, its end and text on both sides; five tokens hold
  nested tags of two kinds and two skipped tags (`template`, `svg`) that cross.
* Three calls of a graph, two of one tool, are the fewest a pairing can confuse; the
  audit runs with one request of permission in the union.
* Two requests or processes (`CaRequests`, `PvRequests`, `CdJobs`, ...) meet in every
  pair of steps; faults are one or two because each model recovers
  from every state it can fail in.

`SYMMETRY` is used in runs of safety properties only, over sets whose members
appear in no constant expression. In a union model only one component moves, so
pairs of several components may be exchanged at once: `Symmetry` holds the
identity and such an exchange, a group. `Partner` chooses within constants; no
component definition uses `CHOOSE` over a symmetric set.

`CHECK_DEADLOCK FALSE` is said because the bounded models end in states without a
successor: every instance has died, the counters are spent. That nobody waits for
ever is what the liveness properties say.

## 4. Fairness

* `RunCoordinator`: weak fairness of recovery, starting, consuming and stopping
  per instance. An asyncio loop runs every ready callback and a worker thread ends
  its transaction. Nothing is assumed of the agent's stream, of users, of boots or
  of crashes.
* `TimelineFeed`: weak fairness of the broadcast and of the reader's coroutine.
  `Subscribe` is strongly fair: `asyncio.Lock` serves its waiters in order of
  arrival, so writers do not overtake a reader for ever.
* `IngestJobs`: weak fairness of what a worker has in hand and of the clock.
  `Reconcile` and `Take` are strongly fair: the loop of `run_worker` alternates
  between them, and the stream is read in order. Reconciliation is assumed to find
  the leases of dead workers expired in the end. Nothing is assumed of the parse
  service.
* `MemoryProposals`: the steps of a call once begun, and that the service opens a
  session again after a death: the replay of interrupted projections is tied to
  that (`manager.py`).
* `TurnEngine`, `Delegation`, `McpSessions`: steps of the event loop, of each child and
  of each caller. The bounds that end a turn are the code's own: `max_steps`, the
  approval's timeout, a child's timeout, the request's (an MCP request whose limit was
  swallowed waits for owners and sessions that end or fail by themselves). User, model
  and server do what they like.
* `GatewayWatchdog`: a check runs and time passes (it is started every minute). A
  restart does not bring back missing cron jobs; the check alerts about them, and
  that the operator it alerts lists them again is assumed. Nothing is assumed of
  who starts the daemon: the check restarts it.

## 5. Proofs

Checked by TLAPS for every value of the constants:

* `JournalSafe` (`RunCoordinatorProofs`): `JournalSpec` keeps its types,
  `TerminalIsLast`, `TokensNeverGoBack` and `LeaseIsCurrent`. `TerminalIsLast` is
  not inductive: a fenced append is harmless only because the leased run is
  open, which holds only because the terminal and the deletion of the lease
  share a transaction. `TokensNeverGoBack` needs that no event carries a token
  that has not been handed out. `JournalInv` adds both and that the lease table
  has one row at most.
* `CoordinatorImplementsJournal` (`RunCoordinatorProofs`): `Spec => JournalSpec`.
  Between the check of a start and its transaction, or between the two
  transactions of a rejected input, other instances act, so no guard shows that
  the caller's obligations hold. `ClaimInv` states what an instance has claimed
  meanwhile: a run about to begin has no events and no second claimant, a run
  about to be resumed is not a rejected input, the record of a rejected input is
  written by its own instance only, no lease is on such a record, recovery holds
  started runs, a shielded write is of an event the stream yielded. The proof has
  a lemma per group of actions; most actions make no claim and write, if at all,
  to a run that already has events (`RunStepKeepsClaims`).
* `CoordinatorTypes` and `CoordinatorSafe`: `TypeOK`, and the three journal
  invariants for any number of overlapping instances, with crashes and faults.
* `FeedSafe`, `FeedImplementsDelivery` (`AgentProofs`): for every page
  size, queue size and history the reader receives 1, 2, 3, ..., and every step
  is a step of `TimelineDelivery` or none. `FeedInv` relates cursor, page, target
  and newest event.

* `LeaseFollowsWork` (`RunCoordinatorProofs`): `LeasesHold` for overlapping instances,
  crashes and failed transactions. An instance that streams has to fear itself: a
  thread or a `cancel()` of an earlier run may still present credentials.
  `LeaseInv` says that those are older than the lease (`Bounded`, `Holding`), that a
  shielded write belongs to the task that waits for it (`Persisting`), and for each
  lease of a serving instance who will give it back (`Worked`).
* `OneRunAtATime` (`RunCoordinatorProofs`): `OneOpenRun` for any number of instances that
  follow one another (`~Overlap`; section 7 says what happens otherwise). The check
  for an approval and `begin_run` are two transactions, and `begin_run` looks at the
  lease only. `OpenInv` says what the serving instance may rely on: once hydrated,
  an open run is leased or waits for an approval (`AllKept`); between check and
  `begin_run` it is leased (`AllLeased`); a run about to be resumed still waits or
  is closed (`Kept`). It rests on `LeaseInv`: late threads and `cancel()` can only
  close the leased run.
* `JobsSafe` (`IngestionProofs`): a job's counters are those of its items, marked
  work is deliverable, a worker has one lease. `IngestInv` adds where in its loop a
  worker is while it has a lease (`WorkInv`), and that a job that does not exist
  has no work (`Unborn`).
* `ChangesAppliedOnce`: all of `IngestHolds`, a change being applied once whatever
  is lost and repeated, if `MaxRetries = 0`. `KeyInv` says that a worker that
  applies has its key marked, and that a key given up belongs to an item that is
  over; the manual retry of a dead letter breaks the latter (section 7), which is
  why it is excluded. `WorkInv` and the counts need `Items` to be finite.
* `SyncSafe`, `CommitsAreFaithful` (`IngestionProofs`): a source's hash is that of
  its manifest, completed jobs and committed plans agree, and a commit shows
  exactly what its scan saw. A plan is committed long after it was made, so
  `SyncInv` says of every plan that it fits the manifest as long as the watermark
  it was made at is current, and that what changes anything moves the watermark;
  the lemma `Faithful` is about the diff and its application.
* `SourcesBacked` (`AgentProofs`): an approved source has its job, snapshot and
  root, for any number of reviewers. `SpInv` says what a reviewer at each of its
  awaits has seen, and that a row names a job only when everything is there.
* `MemoryImplementsDecision` (`AgentProofs`): the safety part of
  `MpImplementsDecision`. Every step of manager, store and files is a step of
  `Decision` or none; `MpInv` says that a projection is written for approved
  proposals only.
* `KbStoreSafe`, `KbNothingLost` (`KnowledgeStoreProofs`): `KbStoreHolds` and
  `KbUpdatesSurvive` for any sources, operations, requests and faults. An approval
  compares the base of its proposal with the page once and then writes work tree, index,
  commit and tables, any of which may fail or be the last before a crash, while editors
  go on: `KbInv` says that the base still holds for whoever has the lock, but for the
  files edited since he compared it (`KbLockHolds`, `kbLate`), and that what is staged
  beside the commit is the text of an approved proposal for the committed one
  (`KbStageHolds`), since the commit of another page takes it along. For undo it says of
  an operation that its proposal has the text of the base of the one it undoes
  (`KbOpFits`, `KbUndoes`); `KbGrows`, what no step takes back of the two tables, keeps
  that true until the projection.
* `SandboxSafe` (`AgentProofs`): `SbSandboxHolds` for any number of calls, turns,
  edits and faults. A patch is checked and written in two steps of a thread that may
  outlive its turn: `SbInv` says what a call at each of its points may rely on
  (`SbAllFit`), that a mark which is the file's stands for the text the agent knows
  (`SbMarksHold`), and that a running container is the open turn's to stop
  (`SbBoxHolds`).
* `TurnSafe` (`AgentProofs`): `TeTurnHolds` for any model answers, user and consumer.
  `TeTraceHolds` gives the forms of a trace at each point of the generators: open, its
  run closed with the status of its events, its turn closed as well; whatever is
  thrown away between two yields, the `finally` block adds exactly what is missing.
  `TeEntryHolds` says that a waiter whose entry left the queue has an answer, and
  `TeCallInHand` that the answer is about the call which then runs.
* `McpSafe` (`AgentProofs`): `MsTypeOK` and `MsSessionsHold` for any number of scopes,
  requests and owners. A session that runs unregistered is somebody's duty while
  requests are under way: `MsKept` says that it is the creator's, until it has
  registered it, or that of whoever took it out of the pool and has not come to it
  yet (`MsHolds`). `MsTakesOver` is what a step that closes sessions has to show;
  every operation of the pool is an instance of it.
* `AdmissionSafe` (`PlatformProofs`): `CaAdmission` for any number of accounts,
  invites and concurrent requests. What a request checked in one statement has to
  hold when it commits; `CaInv` says that it does (`CaChecked`), because the row is
  locked until then (`CaLocksHold`), and counts spent invites against identities.
* `ProvidersSafe` (`PlatformProofs`): `PvProvidersHold` for any number of records and
  requests. `PvInv` adds that a request which connects does so to the address it
  checked, whatever the name service answers since, and that a deleted provider
  keeps no models, so that no preference can name one of them.
* `ReleaseSafe` (`PlatformProofs`): `CdReleaseHolds` for any number of commits and
  jobs. Without drift at most one job is under way and remembers the version that
  was recorded when it began (`CdRecordInv`); the schema covers what each job may
  still start or roll back to (`CdSchemaInv`); what a controller run has loaded is
  the current streak of failures until it ends (`CdPauseInv`).
* `LoopSafe` (`PlatformProofs`): `LhRequestsHold` for any number of runs. The limit of
  one request is checked in the preflight, long before the request is created, so
  `LhCounts` counts the runs that may still open one with the requests that are
  open: they are at most one more than the leases that expired under a live run.
  That a run finds the capacity it checked rests on a second count, of runs that
  work without the lease: `LhFits` says what a run has done where it is.
* `RunBudgetHolds` (`ContextProofs`): `DgRunHolds` for any calls, profiles, limits and
  reported usage, with stops, timeouts, failures, crashes and recovery. A child that runs
  may still use all it reserved, and what one message may open is shared out call by
  call, so `DgWithinBudget` is not inductive. `DgFits` charges every child of the run with
  what it can count on (`DgCap`) and says that this and the parent's usage fit the limits;
  `DgChildOk` says for each child how ledger, task tool and run store stand to each other,
  and that what it really used is covered by its charge but for the call under way. The
  sums are over sets of children; their lemmas (`CxTotal...`) are proved by induction on
  finite sets, the sharing by a lemma on folds. Assumed is that the model repeats no call
  id (`~DgReuse`; section 7 says what happens when it does).
* `ProjectionIsWhole` (`ContextProofs`): `CpProjectionIsWhole` for any transcript,
  policy and number of attempts. `CpInv` says that every completed record covers a
  prefix of the transcript (`CpCheckpoints`), that what is shown is a prefix summarised
  and then the rest (`CpSplit`), and of a result that awaits its terminal record that it
  still has this form, the transcript not having grown meanwhile (`CpWaiting`).
* `OnlySelected` (`ContextProofs`): `CbOnlySelected` for any tools, skills and catalogs that
  change between processes. `CbInv` says that what is promoted under a hash was selected
  under every catalog that has it, so that no restart can turn a promotion into a
  permission for another schema.
* `ThreadHolds` (`ContextProofs`): `TsThreadHolds` for any messages, results in any order,
  compactions and owners. The lemmas on `TsSorted` show that the largest references,
  sorted, do not depend on the order in which they arrive; `TsInv` says that only
  results stand between a result and its call, and that the calls a turn waits for are
  those of the last message: no cut of a compaction falls between the two.

* `EvidenceKept` (`EvidenceProofs`): `EvEvidenceIsKept` for any exporters, items, values and
  faults. An export is made from what was read some steps ago; `EvFilesHold` says of whoever
  has the lock that his snapshot is no older than what was published, and of every file a
  loss of power can bring back that it has what was published. `EvArchiveHolds`
  says which of result and metadata stands at each step of an archive: metadata is never
  left with a plain result, an earlier result's only with a described one whose own is not
  written yet or whose archive died.
* `ParsingHolds` (`EvidenceProofs`): `XpParsingHolds` for any tickets, attempts, polls
  and crashes. `XpWorkOK` says at each await what a worker may rely on of the ticket it
  read, `XpTicketOK` relates the ticket to the tasks the service has, `XpItemOK` the
  item's status to both; without crashes there is at most one task per attempt. Errors
  that escape the dispatch are among the steps, so an item may be given up after
  `XpMaxAttempts` of them.
* `BlocksHold` (`EvidenceProofs`): `DbBlocksHold` for every source. What a loop adds to the
  blocks it adds at their end (the lemmas on `FlattenSeq`, by least counterexample);
  `DbMarkdownInv` says that the headings in force are the last of each level as long as no
  level is left out (`DbNoGap`, `DbStands`), `DbHtmlInv` that every text of HTML is in one
  place of the collector's at a time, and none of a skipped tag as long as the skipped tags
  end in the order they began in. The order of an HTML document's texts is not claimed.
* `KnowledgeViewsHold` (`EvidenceProofs`): `KvViewsHold` for any pages, texts, goals,
  budgets and faults. Revisions never change, so a snapshot and an analysis stay true of
  the revisions they were made of (`KvShown`). As long as no indexing failed only current
  revisions are active (`KvFresh`), whatever a backfill does (lemmas on its fold), so a
  learning that cites what is active cites what is current; `KvServes` is about bundles.
* `EvidenceSafe`, `LiveSafe` (`CompositionProofs`): `EvidenceHolds` and `LiveHolds` of
  the union models, from the theorems and invariants of the parts; for the last, `WdInv`
  says that a check of the watchdog works on what its file says and that, unless the
  clock was set back, the file's age of the last restart is no more than the real one,
  and `MpFilesInv` that a call which appends the candidates of a proposal has those left
  to append that no file has.

Each inductive invariant was model-checked on a small instance before its proof.

Assumptions: those on the constants, which TLC evaluates in every run of a module
that extends theirs. The journal needs none.

Only model-checked: every liveness property (TLAPS has no reasoning about fairness and
`ENABLED` here), the liveness part of the refinements, `RecoveryKeepsApprovals` (section
7), `AgentTypeOK` and `GraphHolds` (of `PublicStream`, see below), `AuEvidenceIsTrue`
(searches by `SelectLastInSeq`, which the provers do not expand), `SrOneConversation`,
`PlatformTypeOK` as a whole, `KnowledgeTypeOK` as a whole (each part is a conjunct of a
theorem, but the proof modules share names and cannot be extended together), and
everything about modules without a theorem above. The library's induction theorems take
the induction hypothesis as an operator, which the provers cannot instantiate. Where a
proof here needs induction it goes through sets instead: a set of naturals that is not
empty has a least element (the library's theorem on well-founded relations), so a claim
about all numbers, all finite sets or all prefixes of a sequence is proved from the set
of its counterexamples (`KbLeast`, `KbLargest`, `CxFoldRuns` for folds, `CxTotal...` for
sums). `PublicStream`, whose chunks are read by a `RECURSIVE` operator, is out of the
provers' reach; no module with a theorem reaches it.

## 6. Where documents and code disagree

Shown by a run:

* `coordinator_shutdown`: shutdown reads whether an approval is pending and
  cancels in a later step. A request committed in between is closed as
  cancelled, although shutdown is documented to preserve approvals.
* `coordinator_faults`: if the write of a terminal event fails, the run stays
  open under the lease of an instance that is alive. That instance hydrates
  once, and no recovery takes a lease from a live owner: the promised recovery
  comes with the next process only.
* `ingest_cancel`: an item that is deferred to external parsing after its job was
  cancelled is never ended, and the job stays in `cancelling`.
* `sync_revert`: a file that goes A, B, A, B ends with B in the manifest and A in
  the knowledge store, because the key of a change does not name the revision
  it replaces.

## 7. Known limits

Where a property is weaker than one might wish, it is because the code does not
give more. These behaviours are in the models; the properties allow them.

**Runs and sessions.** `OneOpenRun` holds with one instance at a time: with overlapping
instances one may suspend its run for an approval between the check and the `begin_run`
of the other. `RecoveryKeepsApprovals` holds with one call waiting at a time, which is
what the run has: `recoverable_approval` searches all requests,
`_has_unresolved_approval` keeps the last one, so with two waiting calls of which the
second is answered first, recovery closes a run that still waits. `NoLeakedLease` is
stated for behaviours without failed transactions. An instance recovers a session once;
the death of an overlapping peer later on is noticed by the next instance only. With two
browser tabs a resumption may install a second runtime while an approval waits in the
first (against `tests/api/test_coding_routes.py:905`), and with one tab too a message or
an answer accepted before a reload may begin its run on a runtime the resumption
replaces: neither looks at the lease or at what is on its way. `SrOneConversation`
excepts these runs, is checked with one tab, and holds again after the next resumption
or restart. A metadata edit reaches the file only, so the next save of a live runtime
drops it; a replaced runtime overwrites model, permission and owner.

**Turns.** A timed-out or abandoned approval stays queued, and a late "session"
answer still approves. A changed permission mode takes effect with the next turn.
Tools other than readers run in plan mode (against
`docs/superpowers/plans/2026-07-05-codex-goal-coding-agent-v1.md:98`), and a write
approved after a wait overwrites edits made meanwhile. Without
`coding_checkpoint_anchor_key`, which `api/main.py` does not set, every automatic
compaction after the first applied one is refused and the turn fails in
preparation.

**Graph runs.** After a crash in a resumed stream the namespace is used again and
the run ends in error. Two risky calls of one message make the resumption fail. A
crash while an approved tool runs asks again and may run it twice, and a result
may be shown twice. Of the public stream: removing a tag can join its neighbours
to a new one; text in a chunk with tool calls is dropped; a held-back fragment may
appear after the stop notice or be lost with a failed stream; a run whose usage
equals the closing figures of the one before shows none; omitted web results are
undercounted.

**Children, tools, threads.** A blank prompt leaves a ledger entry running; a failed
executor charges nothing; repeated call ids break the budget (`DgReuse = TRUE`). The
container provider never marks reads, so it refuses edits; a local edit is refused once
after the user saved a text again without changing it, since marks compare time and
size; parallel patches of a file may lose one; the thread of a cancelled turn may still
write. An MCP owner cancelled before its first step never reports; a failed call may
close a newer session, and eviction one in use; a time limit that strikes while a
session is being closed is swallowed (`_wait_owner`), so the session may outlive the
request that closes it, and the request goes on without a limit. A thread bound locally
is refused once an owner exists. A changed catalog blocks an approved deferred call. A
torn trace line takes the next event with it.

**Audit of a run.** Results are paired by tool name and arguments, ids are not read.
Direct results of a graph have no arguments, and those of validated calls may differ from
what was announced, so two open steps of one tool may exchange their outcomes
(`auUnsure`). An archived result, or one that equals the last, is published twice and
makes a second step, a failed one as completed; calls of a resumed run have no call line
and get theirs from the result.

**Knowledge.** With two workers and a manual retry a change can be applied twice; the
service deploys one. Cancelling a job keeps the keys of its waiting items, and a
recovered cancelled item leaves its ticket open; crashes take an item beyond
`max_attempts`; asking again after a cancelled plan returns that plan. A failed index
run leaves old chunks active, and a citation of them resolves. A failed projection may
leave the Git index or HEAD changed, after which proposals conflict; an edit made after
a projection compared the base (`store.py:2252`) may be overwritten, restored over or
committed; a crash between writing `purpose.md` and its commit refuses every later goal
update. A graph revision hashes page revisions only, so a snapshot built while indexing
had failed lacks edges and stays ready until somebody forces a rebuild; an analysis of
it is kept even then. A crash between a parse task's submission and its ticket uploads
the source twice; a failed poll falls back at once; an httpx `ProtocolError` or
`DecodingError` and a malformed Qwen choice are not caught by the dispatch
(`http.py:53`, `qwen_vl.py:153`), so the item is retried and in the end given up
although the local parser could read it; switching external parsing off leaves an active
ticket open. Text outside captured tags is lost in HTML, an end tag of another skipped
kind ends the skip (`html.py:92`), and skipped heading levels nest siblings. A described
result that replaces another is read with the earlier sidecar until its own is written,
or for ever if the process dies in between. An approval interrupted after `attach_job`
conflicts with its retry for ever; a rejection after a failed approval leaves the job
ingesting.

**Memory, loop, platform.** A failed memory write is replayed only when another
session is opened. Nothing closes the loop's row of a pull request a person
merged or closed; a death between creating a draft and recording it breaks the
daily quota; a pause does not stop a merge that waits. A development login spends
its invite before it can fail; a connection test is recorded for a record changed
meanwhile. The controller's check and resume commands take no run lock, a failed
rollback restores nothing, and `deployctl` has no lock of its own.

**Simplifications.** A loss of power leaves result files and backups alone. `Defer`
keeps the age of a replaced ticket. Database and Redis errors at claim and complete are
not among `WorkRaises`; the adapter's version is constant in a plan. Auto mode asks for
every `run_shell`, where the code lets harmless ones pass (`permissions.py:95`). The
watchdog counts from its intent, the code from the start of that check. A child's setup
(`subagent_adapter.py:205`) has no failure of its own, and its cancellation charges the
recorded usage. A corrupt checkpoint artifact is one that is not loaded. A pending write
keeps its catalog hash, where the code checks it again. A provider's update is one step;
the exemption of loopback addresses in development is left out. The operator rolls back
to the recorded previous version only; git's time limits in the loop are deaths. A PDF
that `pdf.py` refuses (encryption, limits, extraction) is a failed local parse. A step
budget that clears pending calls is not in `RunAudit`.

## 8. Not modelled

* The frontend's timeline store and the other web code: the reader of
  `TimelineFeed` stands for it as far as its cursor goes.
* The decisions of language models, prompts, token counting, ranking in floating
  point, community detection (external).
* Web search and fetch, the travel agents and their MCP servers, evaluations:
  sequential calls of third-party services without shared state.
* Schemas, serialisation, redaction, listing and export endpoints; encryption;
  scanners and the fixing agent of the loop; preflight checks of deployments (one
  condition that may fail).
* Of the journal `acquire_run_lease`, which no caller uses; of the jobs, progress
  events and heartbeats that succeed; of the sources, `scan_status`, error columns
  and a directory that changes between the pages of a scan.

## 9. Plan

Done: every component of section 1.1 that changes state under concurrency or
failure has a module, or is named in section 8.

Next:

1. Theorems: `GraphHolds`, `AuEvidenceIsTrue`.
2. The reducer of the frontend timeline over the events of `GraphTurn`.
3. A proof of `SrOneConversation`, larger instances of `SessionRuntimes` (two tabs,
   runs that cross a resumption in both) and of `GraphTurn` (a restart within a restart).
