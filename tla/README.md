# makit: a formal model

makit runs coding agents (codex, and any agent that speaks ACP) on a developer's
machine and lets the developer follow and steer them from a phone, a desktop app
or a command line. `server` is the daemon, `app` the Flutter client (all paths
below are those of the repository). This directory holds TLA+ modules of the parts
whose correctness depends on the order of events, TLC configurations that check them
on small instances, and proofs, checked by TLAPS, of what matters most about them for
every size.

1. [The system](#1-the-system)
2. [Modules](#2-modules)
3. [Runs](#3-runs)
4. [Fairness](#4-fairness)
5. [The refinement](#5-the-refinement)
6. [Proofs](#6-proofs)
7. [Disagreements](#7-disagreements)
8. [What is not modelled](#8-what-is-not-modelled)
9. [What comes next](#9-what-comes-next)

## 1. The system

### Parts

| Part | State | Operations | Correct when |
|---|---|---|---|
| **Session history** (`session.ts`, `stream_digest.ts`) | event cache, how far it was evicted, open streams of deltas | record an event, evict, close the streams at the end of a turn, replay from a cursor | no text that was shown disappears; a resume is a suffix of the full replay; no text twice; bounded memory |
| **Event store** (`storage/sqlite_event_store.ts`) | rows, `seq_hwm`, per-session counters | append, appendAt, reserve a block of seqs, read the tail | a seq is never issued twice, crashes included; the rows stay keyed |
| **Message queue** (`session.ts`) | queued messages, `flushing`, the automatic compaction's flags | send, steer, queue, cancel, reorder, promote, flush on `idle`, compact | messages keep their order, have one place each, go out once, and eventually |
| **Turn status** (`adapters/turn-status.ts`, `subprocess-adapter.ts`) | turns in flight, approval gates, stray work, the agent's own flag | enter and settle a turn, open and close a gate, exit | `idle` only when nothing runs; never busy with nothing that could end it |
| **Adapters** (`adapters/acp.ts`, `codex.ts`, `child_transport.ts`) | the agent's process, its pipe, pending requests | start, send, steer, cancel, compact, close, kill, dispose | one prompt at a time; a timeout or a late answer neither loses nor repeats a message; lines arrive whole; a process that is disposed of goes |
| **Subscription hub** (`ws/subscription_hub.ts`) | events in their batching window, per client | fan out, flush, replay on `sub` | a client sees replay, ack and live events in an order from which it can rebuild the history |
| **Reverse RPC** (`ws/reverse_rpc.ts`) | pending prompts, their audience, who was sent them | ask, replay, answer, time out | a prompt reaches exactly those who may answer it; agents are never asked |
| **Session manager** (`manager.ts`) | sessions, close / re-attach / promotion in flight; worktrees; projects | promote a draft, close, reopen, re-attach, kill; create, rename, remove worktrees | every agent process belongs to one session that can reach it; input never meets an agent that is starting or being reaped |
| **Idle reaper** (`idle_reaper.ts`) | a timer | sweep | closes only what is idle, resumable and quiet |
| **Git and worktrees** (`git.ts`, `repo_service.ts`, `worktree_watcher.ts`, `worktree-target-store.ts`) | watches, snapshot generation, the store of landing branches | pick a branch, add, rename, remove, fast-forward a base, watch, list | creations do not collide; a choice of landing branch is kept; no worktree is left behind its branch; clients see the newest state |
| **Projects** (`manager.ts`, `project-store.ts`, `serve.ts`) | the table, `projects.json` | add, remove, re-point, save, load at start | ids and settings survive restarts |
| **GitHub and forges** (`github/`, `forge/`, `pr_watcher.ts`) | quota, gate, caches, lookups in flight, routes | look up, mutate, poll, detect, choose | no answer outlives what invalidated it; a repository is served by its forge; nobody waits for nobody |
| **Ports** (`ports/`) | snapshot, outage detector, history, forward grants | scan, attribute, watch, kill, forward | watchers agree; an outage is told once; only the right process is signalled |
| **Documents** (`docs/`) | index, listener, leases, grants | scan, publish, expire, serve | a published URL is not dead; nothing listens for nothing; the index catches up |
| **Pairing** (`pairing/`, `ws/auth_gate.ts`) | pair codes, devices, sockets | show, pair, hello, revoke | a code pairs one device; what a device was granted goes with it |
| **Daemon and CLI** (`daemon/`, `serve.ts`, `cli/`) | pid file, control socket, log streams | start, stop, restart, follow logs, wait | a started daemon is the one named; no watch leaks; exit 0 means a turn ended |
| **Metrics** (`metrics/`) | ring, ledger of CPU time, watchers | sample, charge, watch | the cadence follows the watchers; nothing is charged twice |
| **App store and transport** (`app/lib/store/`, `app/lib/transport/`) | cursors, replay buffers, live windows, the socket | subscribe, buffer a replay, fold, resume, reconnect, answer | an opened session shows the whole history, and catches up after a reconnect |
| **Agents that spawn agents** (`lineage.ts`, `manager.ts`, `ws/commands/session.ts`) | the parents of sessions, their rows, forked threads | spawn, fork, register, close, reopen, kill, restart | depth and fan-out stay within their bounds; a refused fork leaves no thread without a cause |
| **Log compaction** (`storage/compact.ts`, `cli/compact.ts`) | rows of an old log, a plan | read, rewrite in one transaction | no text disappears, a seq keeps its place, a second run changes nothing |
| **Catalog cache** (`adapters/capability_cache.ts`, `adapters/catalog.ts`) | entries under a fingerprint, one probe in flight, a file | serve warm or cold, refresh, probe, load | who is given options is given those of the inputs it asked about |
| **Wake pushes** (`push/`, `pairing/registry.ts`) | a token per device, pushes in flight | register, wake, alert, clear | a device that registered its token can be woken; no push to a token that is dead |
| **The UI, codecs, media** | | | section 8 |

`PROJECT.json` lists every part with its files, the modules that model it and how
far.

### How they interact

A command from a client (`send.message`, `session.attach`, ...) enters through
`server.ts` and goes to the **session manager**, which makes the session live, and
then to the session's **queue**, which hands the message to the **adapter**. The
adapter reports what the agent does as events; its **turn status** turns them into
`running`, `awaiting-approval` and `idle`, delivered *synchronously* to the
session: an `idle` flushes the queue inside the very call that settled the turn.
Every event is numbered and stored by the **event store**, kept in the **session's
cache**, and handed to the **hub**, which sends it to clients in batches. The
**app store** folds what it receives under a cursor and, after a reconnect, asks
for what lies above it. An agent's question goes the other way, as a
**reverse RPC** to the humans who watch the session or an ancestor of it.

Beside the sessions the daemon shows its machine. Each of these services has a cache
or an index, somebody who watches it, work in flight, and something that invalidates
the cache: a watcher on `.git` (**snapshots**), a mutation (**pull requests**), a
changed worktree (**documents**), a timer (**ports**, **metrics**). They touch one
another through callbacks in `server.ts` only, which is why each has a module of its own.

### What makes it hard

* *Awaits.* Handlers are asynchronous: between the check of `closed` and the
  installation of an agent the session may be closed, killed or reopened; between a
  scan and a signal a pid may be another's; between two git commands somebody else
  runs git.
* *Re-entrancy.* `idle` raised inside a send runs the flush that the send belongs to.
* *Two orders.* An approval gate may close before or after its turn ends; a steer
  may be answered after its timeout; a codex `turn/started` may come before or
  after the reply to `turn/start`; a snapshot that began earlier may end later.
* *Lost connections.* A socket can break in the middle of a replay; what was
  buffered and what is asked for next must still add up to the history.
* *Crashes.* Deltas take a sequence number but no row; a turn is closed by several
  statements that are not one transaction; `projects.json` is written in place.
* *Bounds.* The cache and the queue are capped while streams are open and messages wait.

`PROJECT.json` lists these hazards one by one, at the line where they bite, with
the properties that catch them.

## 2. Modules

A definition whose comment starts with `Mutant:` is not part of a specification:
it is a plausible bug in the definition after it, named in `PROJECT.json`, and
shows that a property is sensitive to that code. What a property is about is said
above it in its module. Where a module proves what a run checks, the property is a
conjunction of parts that are named and commented one by one.

### Sessions

**`EventLog`: one session's history.**
`log` and `seqHwm` are the durable rows and column; `nextSeq` and `hwm` the store's
two maps; `mem` the fields of a `Session` that hold its history (`events`, `evicted`,
`loaded`, and the digest's `open` and delta seqs). `RecordDelta`, `RecordFinal`,
`RecordNote` and `RecordEnd` are `Session.form` + `record` for the four ways an event
is stored; each runs the whole handler: lazy hydration, numbering, the digest, the
insert, the trim, and for a turn's end the aggregates. `FinalFails` and `CloseFails`
are the same with an INSERT that throws; `Crash` and `CrashInClose` a restart
between two handlers or between two rows of a closing turn; `Access` the first read
after a restart. The text a delta streams is named by its seq; a final or an
aggregate carries the set of deltas it stands for, so "no text is lost" is an
inclusion of sets. **`Transcript`** is the abstract specification: what a device may
rely on, without rows, caches or digests (section 5).

**`TurnQueue`: messages, turns and status.**
`queue`, `flushing`, `compactPending` and `compactFired` are the fields of `Session`;
`turns`, `approvals`, `agentRunning` and `strayQuiet` those of `TurnStatusTracker`. The constant
`Agent` chooses the adapter. Because a status is delivered synchronously, settling a
turn, the session's reaction to `idle` and the first half of the send it triggers are
*one* action (`SettleIdle`, `OnIdle`, `Send`); an action ends where the code awaits
I/O. An ACP send awaits nothing, so `flushing` outlives a step only with codex.
The codex app-server is external: `AgentTakes`, `AgentRefuses`, `AgentCompletes` say
what its replies and notifications, which race, report. A turn that a stray
chunk opens is closed by `NoteAgentSettled` only, and the code says it may have no closer at all:
nothing obliges the model to end it.

**`Delivery`: from the session to the app.**
One session, one client, a FIFO socket in each direction. `Fanout`, `HubFlush` and
`HandleSub` are the hub; `SendSub`, `ReceiveEvent`, `ReceiveAck` and `ApplyLiveBatch`
the app's store with its replay buffer, its batching window and its cursor;
`Connect` and `Disconnect` the transport. The session is reduced to what `EventLog`
says of it: `hist`, in which a final or an aggregate replaces the deltas of a stream.

**`ReverseRpc`: a prompt and its answer.**
Clients (humans and agents), sessions with a lineage, sockets that break. `AskDevice`
climbs the audience ladder and stores who may answer; the climb is written as sets
(`Line`, `Watched`, `NearestWatched`: of the watched sessions on the line, the one
that all the others are above), and `PromptRouting` states it the other way, by climbing
one step at a time. `HandleHello` and `HandleSub` replay what is pending;
`HandleResponse` takes the first authorized answer; `Timeout` refuses. On the app's
side a prompt is shown and answered at most once (`RespondTo`), through a transport
that swallows a frame while it is down (`Send`). Whether a prompt with no audience
is kept is decided by the wake push: a choice. Lineages are acyclic, as creation
makes them.

**`SessionLifecycle`: the agent of a session.**
One session bound to a worktree. An action is what runs between two awaits:
`AttachInstall` after `git worktree list`, `Spawn` after `realpath`, `AttachStarted` /
`AttachFailed` / `PromoteStarted` / `PromoteFailed` after `start()`, `CloseFinish`
after the agent's close. `closing`, `attaching` and `promoting` are the three in-flight maps; `pc`
says what a request waits for. An `await` of a promise that is already settled (a
kill never waits) lets no other request in, and whoever waits for a promise goes on in
the step that settles it. A restart keeps only the row, so its outcomes are initial
states. The history variable `escaped` names the agents the code is known to lose
hold of (section 7); every other running agent must be reachable.

*How they compose.* `EventLog` is the history `Delivery` replays: `Delivery!Final`
and `EndUnfinished` are what `RecordFinal` and `RecordEnd` do to `EventsSince(0)`.
`SessionLifecycle` ends where `TurnQueue` begins: a message that meets a live agent
is a `SendUserMessage` there. `ReverseRpc` shares `hello`, `sub` and the reconnecting
client with `Delivery`, which has one session and events where `ReverseRpc` has many
and prompts.

### The repositories: `WorkspaceMC`

| Module | Code | State and steps |
|---|---|---|
| `Worktrees` | `manager.ts` createWorktree to withWorktreeCreateLock, `worktree-target-store.ts`, `repo_service.ts`, `git.ts` | Commands that create, rename, remove and re-target worktrees, and the snapshot that adopts and repairs their targets; each is a program of git commands, one a step, and others use git between two of them. `store` is `worktree-targets.json`; the lock of a repository is a queue of tasks. |
| `BaseSync` | `git.ts` syncBaseBranch | Fetch, count, find the host, merge or fetch into the ref: one git command a step, while others push, commit and switch branches. |
| `LandingBranch` | `target_candidates.ts`, `git.ts`, `repo_service.ts`, `manager.ts` setWorktreeTarget | Where a worktree's work lands: an initial state is a repository with any commit graph, merges included; the picker's list and the answer to a choice are operators. |
| `RepoSnapshots` | `worktree_watcher.ts`, `ws/throttle.ts`, `server.ts` broadcastReposSnapshot | Watches that are attached, fail and follow a directory, one of which may be left behind on a directory that is gone (`orphaned`); a debounce, a throttle, and passes that overlap and carry a generation. |
| `Projects` | `manager.ts`, `project-store.ts`, `serve.ts`, `ws/commands/project.ts`, `repo_settings.ts` | The table and its file, a directory with two spellings, a re-point that awaits git, saves that fail, crashes while writing, and the start that merges what was persisted. |

### What the daemon shows of its machine: `ExposureMC`

| Module | Code | State and steps |
|---|---|---|
| `PortScanner` | `ports/service.ts`, `health.ts`, `watch.ts`, `server.ts` | Who watches, the cadence, a scan in flight and the snapshot it publishes, the health of the endpoint, the outage detector's track. |
| `PortAttribution` | `ports/ancestors.ts`, `attribute.ts`, `derive.ts` | An initial state is a machine: a process table, cycles of parents included, directories and listeners; the lookups are recursive functions. |
| `PortKill` | `ports/service.ts` killPort, `kill.ts` | Scan, signal, scan, escalate, scan; between any two, processes exit, pids are reused, the endpoint changes hands. The two reads of one scan that can disagree are a step each. |
| `DocIndex` | `docs/service.ts` | Watchers, the debounce, a walk in flight, the rescan flag. |
| `DocPublishing` | `docs/listener.ts`, `grants.ts`, `publish.ts` | Publishes that share a bind or wait for a close, leases, grants that expire or are evicted; the listener in use (`server`), every port that is bound (`bound`) and those nothing can close any more (`leaked`). |
| `DocScan` | `docs/roots.ts`, `tracked.ts`, `scan.ts`, `resolve.ts` | An initial state is a worktree with its ignored files, links, large files and excludes; the index made by git, the one made by the walk that replaces git and the lookup by name are operators. |
| `Devices` | `pairing/registry.ts`, `ws/auth_gate.ts`, `ports/forward_grants.ts` | Codes, devices, sockets, hellos (a second one on a socket that is a device already included) and forwarded ports across revocations and restarts. |

### Forges: `ForgesMC`

| Module | Code | State and steps |
|---|---|---|
| `GithubBudget` | `github/budget.ts`, `policy.ts`, `router.ts` | The budget as a record: what was measured, spent, refused and paused, the level it yields and the bucket that pays. |
| `PullRequests` | `github/gateway.ts`, `pr_watcher.ts`, `server.ts`, `repo_service.ts` | Lookups that join one in flight, pay, queue at the gate, and cache what they read unless a mutation came between; the poller's timer and the pill on the worktree. |
| `ForgejoGateway` | `forge/forgejo/gateway.ts` | Cache, requests in flight that are shared, the pause the instance asks for, mutations that drop what is cached. |
| `ForgeRouting` | `forge/router.ts`, `detect.ts` | The user's choice or a detection, memoised reads and probes, the route that is cached while its choice stands. |

### Beside the sessions: `PlatformMC`

| Module | Code | State and steps |
|---|---|---|
| `ControlPlane` | `daemon/service.ts`, `control-server.ts`, `serve.ts` | start, stop, restart, foreground runs: processes, the socket's path, the pid file, late shutdowns, recycled pids. |
| `ControlStreams` | `daemon/control-server.ts` handleConnection | Requests in one chunk, streams whose stop function is not known yet, cancels and closes that come before it. |
| `CliWait` | `cli/wait.ts` | Snapshot, subscription, replay, live frames, a lost connection, a timeout. |
| `ChildTransport` | `adapters/child_transport.ts` | Chunks of a pipe, the cap on a line, end of stream and exit in any order, SIGTERM and SIGKILL. |
| `CpuLedger` | `metrics/ledger.ts`, `tree.ts` | A process table that forks, exits and reuses pids between readings; what is charged. |
| `MetricsCollector` | `metrics/collector.ts`, `server.ts` | The cadence, a tick that awaits, the ring and each client's chart. |
| `Lineage` | `lineage.ts`, `manager.ts` spawnPendingSession, `ws/commands/session.ts` spawn and fork | A spawn or fork checks the bounds, awaits git or the fork of a thread, and is checked again as it is registered; its row is written before that check. Restarts make sessions of rows, and give none its parent back: `parent` is what the server has in memory, `spawnedBy` who spawned it. |
| `Compaction` | `storage/compact.ts`, `stream_digest.ts`, `cli/compact.ts` | Rows of deltas, finals and ends of turns; the plan of a rewrite is a function of them, read and applied in two steps when a daemon still writes. |
| `CapabilityCache` | `adapters/capability_cache.ts`, `adapters/catalog.ts` | Versions of a harness's inputs, callers that share a probe, an entry in memory and one on disk. |
| `PushTokens` | `push/wake_coordinator.ts`, `register_cmd.ts`, `apns.ts`, `pairing/registry.ts`, `connection.dart` | Tokens as the platform issues them, the one the registry keeps, pushes whose verdicts come late; an app of the other APNs environment (`Foreign`), whose live token is called dead. |

The parts of one of these four compositions share no state in the code, and none in
the model: the variable `part`, fixed at the start, says which of them runs, and the
others stay in a fixed initial state. The state spaces add up instead of multiplying,
and one run asks the questions of all of them. A step of `PartsNext` is a step of one
part, so a property of a part is one of the composition, and the proofs are about the
composition as it is checked.

## 3. Runs

Run one with `tlc -config X.cfg M` in this directory; each ends within five minutes
on two cores. None checks for deadlock: every bound (seqs, drops, closes, signals,
commands) stops the model where the program goes on.

| Run (module) | Instance | What it shows |
|---|---|---|
| `EventLog.cfg` (EventLog) | one message stream, one tool stream, cache cap 1 (trimmed beyond 2 rows), blocks of 2 seqs, 5 seqs, two crashes, one failed write; 608,000 states | `LogKeyed`; `ReplayIsWhole` (text is kept, only open text is at risk, a resume is a suffix, no text twice, bounded cache); `SeqNeverReissued`; `ImplementsTranscript` |
| `AcpTurnQueue.cfg` (TurnQueue) | three messages, a queue of two, two gates, two further signals, compactions that may fail; 66,000 states | `QueueSafety` (one place each, one prompt at a time, a truthful status, an `idle` that leaves no queue unless an attachment failed), `OrderKept` (no message overtakes one that waits, nor a compaction), `QueueDrains` |
| `CodexTurnQueue.cfg` (TurnQueue) | three messages, a queue of two, attachments that may fail, late and refused replies; 209,000 states | `QueueSafety` with "taken at most once", `QueueDrains` (only a stray turn, or an `idle` that came inside a flush, keeps a message); that the queue is served from its head is a theorem for either adapter (section 6) |
| `Delivery.cfg` (Delivery) | three events, one lost connection, the session opened twice | `ViewSafety` (what was recorded is kept unless raced; quiet means caught up), `Converges` |
| `ReverseRpc.cfg` (ReverseRpc) | two humans and an agent, two sessions in any lineage, one prompt, one lost connection, two subscriptions; 811,000 states | `PromptRouting` (who may answer was asked, who was asked may answer, agents are never asked; the nearest watchers are asked), `WatcherIsShown` |
| `SessionLifecycle.cfg` (SessionLifecycle) | two messages, a reopen, three agents, two closes, any number of attaches, subscriptions and sweeps among them | `EveryAgentHasItsSession`, `InputMeetsAStartedAgent`, `CloseSafety` (no credential survives a close; a reopen wins), `SendsSettle` |
| `Forges.cfg` (ForgesMC) | two lookups, a poller, a broadcast and a picker or a mutation over three measured levels of quota; two callers and two requests of a Forgejo gateway; two routes, a change of choice, a reset | `GatewaySafety` (no stale cache, fresh answers, nobody waits for nothing), `StaleOnlyIfOverlapped`, `RoutingSafety` (a choice is honoured, no fallback is pinned, answered probes are right); 861,000 states |
| `Exposure.cfg` (ExposureMC) | two watching clients, a kill with two retries, any table of three processes and two listeners, three devices publishing on three ports with two grants, an index of six paths, two sockets and two codes | `PortsSafety`, `PublishingSafety`, `LookupsAgree`, `PairingSafety`, `WatchersSeeTheEnd`; 843,000 states |
| `Workspace.cfg` (WorkspaceMC) | two requests at a time and three in all on a repository; two branches in two worktrees, three pushed commits; any graph of three commits under three branches; two changes and four passes, two of which overlap; three projects and a crash | `WorktreeSafety`, `WorkingTreesFollow`, `LandingSafety`, `SnapshotsCatchUp`, `NothingGoesBack`, `IdsSurvive`; 2,064,000 states |
| `Platform.cfg` (PlatformMC) | three processes and three commands; three streams; four events before and after a wait; three frames against a cap of two bytes; three pids; two panels and three samples; four sessions, depth 2, one live child each, a close, a reopen, a kill and a restart; a log of five rows, one message, one tool stream and one compaction; three versions of a harness's inputs, two callers and a crash; two devices with two tokens each, one of the other environment | `ReportedIsNamed`, `NoWatchLeaks`, `ZeroMeansATurnEnded`, `LinesArriveWhole`, `PanelSafety`, `SpawnsStayBounded`, `KeptAnswersAreTrue`, `NothingLostOrMisplaced` (the ledger of CPU time and the compacted log), `GoneIsNoticed`; 1,254,000 states |
| `EventLogFinalLost.cfg` (EventLog), `ProjectSettingsLost.cfg` (WorkspaceMC) | the smallest instance that shows it | a sentence of the repository the code does not keep: section 7 |

Why the bounds are enough to be worth something:

* *EventLog.* In five seqs two streams interleave, one gets a final and the other an
  aggregate, the cache overflows twice, and a block of seqs runs out; a second crash can fall
  on what the first one left. Cap 1 makes every trim reach a boundary.
* *TurnQueue.* Three messages are one in flight, one waiting and one that tries to
  overtake; a queue of two has a full queue and an order to get wrong. Two gates can be
  nested; two signals let a stray chunk meet a gate or a compaction.
* *Delivery.* Three seqs are a delta, another and a final or an aggregate; one drop can fall in
  any phase of a replay, two opens overlap two replays.
* *ReverseRpc.* Two sessions give every rung of the ladder; two humans a watcher and a bystander.
* *SessionLifecycle.* Two messages race for one promotion or re-attach while a reopen waits
  for a close; three agents are the one there is, the one swapped in and one more.
* *Forges.* A poll and a broadcast can join or follow one another's lookup on either side of a
  mutation, and a gate of two (one when limited) has a queue; measurements of none and of plenty
  cross every level.
* *Exposure.* A scan can begin before and end after a toggle, a removal or a kill; a third
  process makes two chains join; two grants make one more an eviction; a third port is there
  when a bind finds the last one taken.
* *Workspace.* Two creations that overlap are all the lock keeps apart; three requests let a
  third command meet what two left. Two overlapping passes can end in either order. Two worktrees
  can share a branch or not. Three commits are a fork and its merge.
* *Platform.* A third process can be a stranger with a recycled pid while one daemon shuts down and
  another boots. A frame of three bytes is over the cap of two, and chunks cut it anywhere. Four
  sessions are a root, a child, a grandchild at the limit of depth and a rival of either; one live child
  makes every second spawn a race. Five rows are a turn with two streams, its end, and what is
  said after a final. A third version lets a caller join a probe that is two edits old.

In `Delivery`, the variables `raced` and `rearmed` mark two cases in which the code is
known to lose events: a live event already on the wire when the `sub` is sent is
buffered ahead of the replay, whose events the cursor then refuses; and a session
opened again while its first replay is in flight, whose first ack ends the second
replay. `RecordedKeptUnlessRaced` shows that nothing else loses a recorded event, lost
connections included. `overlapped` (ForgejoGateway), `missed` (CliWait), `lapsed` and `leaked`
(DocPublishing), `late` (Devices), `lost` and `broken` (RepoSnapshots), `overruled` (Worktrees), `reopened`,
`revived`, `excused` and `Forgotten` (Lineage), `late` (Compaction), `crossed` (CapabilityCache), `overtaken` and
`Foreign` (PushTokens) play the same part: they mark the exceptions the code documents or has, and the property
shows that there are no others. So do two states of `TurnQueue`, in `QueueDrains`: `HeldByStrayWork` and
`PassedByAnIdle`.

Three of these are worth spelling out, because what is claimed depends on them:

* `SpawnsStayBounded` counts who was spawned by whom, whatever a restart forgets. A session has at most
  `MaxLive` live children that were spawned since the last restart, and at most that many for *each time the server
  ran*; `lineage.ts:22` promises the bound without exception (section 7).
* `PublishingSafety` counts every bound port. More than the listener in use is bound only after a close that
  several publishes waited for.
* `QueueDrains` promises nothing while the one thing that keeps the session busy is a turn that a stray chunk
  opened: the notification that would close it may be past already (`turn-status.ts:151-156`). Any step that
  settles such a turn releases the queue, and the property then holds the model to it.

## 4. Fairness

Liveness needs fairness only of things the program or its runtime does by itself:

* *TurnQueue.* Every prompt ends, an agent that says it runs says so when it stops (`RunningEnds`), every gate
  is answered or closed, every request is answered, refused or timed out (each has a timer in the code), and
  notifications arrive. A turn that a stray chunk opened need *not* end. A
  compaction is settled, and of infinitely many one succeeds (strong fairness on
  `CompactSettled(k, TRUE)`): the code re-arms a failed compaction at the next `idle` while
  messages wait, so with an agent that always fails it the queue would never drain.
  Nobody is obliged to send, cancel or exit.
* *Delivery.* Both windows' timers fire, the socket delivers, the app reconnects. Losses are
  bounded, not fair.
* *ReverseRpc.* While a client has a frame to be handled, a prompt to be shown or a
  connection to restore, some of it is done (weak fairness of their disjunction, per client). Nobody
  is obliged to answer or to open a session, and a timeout is never required.
* *SessionLifecycle.* `git` answers, `start()` settles (every request of a handshake has a
  deadline), picks settle, and a close ends (`closeGraceMs`).
* *PortScanner, DocIndex.* The interval and the debounce fire, a command or a walk under way ends, a
  probe is answered or gives up. Nobody is obliged to watch, and no change to happen.
* *RepoSnapshots.* A pass under way goes on, the system delivers its events, the debounce and the
  throttle's second end. That a watch reports the end of its directory is not assumed (`InnerVanished`). `SnapshotsCatchUp` asks for nothing after a watch failed for good or a pass
  was lost, as the code retries neither.
* *CliWait.* Frames are delivered; the session, the timeout and the network owe nothing.
* *ChildTransport.* The grace timer fires, and the system delivers SIGKILL and the exit. The agent need
  not react to SIGTERM.

## 5. The refinement

`Transcript` has six variables (what was issued, said, is shown, is on disk, belongs to the open
turn, and whether a write has failed) and three kinds of steps (`Speak`, `Restart`, `WriteFails`).
`EventLog!ImplementsTranscript` is `History!Spec` under a mapping without history beyond what the
model has: `shown` is the text of the full replay *after the lazy load a read would run*, `kept` the
text of the rows, `open` the seqs of deltas that have no row. Every step of `EventLog` (an eviction,
an aggregate written below other rows, a crash in the middle of closing a turn, a lazy load) is one
of those steps or invisible. The run checks it as a property; a cache that evicts what it must not
breaks it (the mutant). `HistoryIsKept` proves it for every store, cap and block size, step by step, from
the invariant that also gives `ReplayIsWhole` (section 6).

## 6. Proofs

Eight modules, `<component>Proofs`, hold theorems for **every** value of the constants. Assumed are
only the named ASSUMEs of the modules, which TLC evaluates on every run: bounds are naturals, sizes
are positive, sets that are summed or listed are finite, message and tool streams are disjoint, and
names that stand for "none" are no element of the set they are absent from (no session, no probe, no
branch, no rev), tasks, streams and requests of different kinds have different names, pids are positive, and
no document is called like a default directory of documents.

| Theorem | Module | What holds for every value of the constants |
|---|---|---|
| `TypeCorrect` | EventLogProofs | Every variable of EventLog keeps its type, for any streams, block size, cache cap and bounds, with or without a store or failing writes. |
| `LogStaysKeyed` | EventLogProofs | No two rows of the log have the same seq, although aggregates are written below rows already there and a crash may come between two of them. |
| `NextSeqStaysAbove` | EventLogProofs | The seq the store would issue next lies above every seq it ever issued, across restarts. |
| `NoSeqReissued` | EventLogProofs | No step, a restart included, issues a seq at or below one already issued. |
| `NoWatchEverLeaks` | PlatformProofs | On a control socket no watch on the log outlives its stream: a cancel or a close may come before the stop function is known. For any ids, frames and bounds. |
| `LinesAlwaysArriveWhole` | PlatformProofs | The lines an adapter is given are the agent's frames, whole, in order and once, all but those over the cap, for output of any length, cut into chunks anywhere and ended anywhere. |
| `NothingIsEverLostOrMisplaced` | PlatformProofs | The CPU time charged to an agent never falls and never exceeds what the processes of its tree used, however they come, go and take each other's pids; and compacting a log, beside a writing daemon or at rest, whole or not at all, keeps all text but what a stream said after its own final, every seq in its place, and changes nothing the second time. For any pids, streams and bounds. |
| `PanelIsAlwaysSafe` | PlatformProofs | The collector samples while somebody watches and only then, and its chart has no gap, for any clients, any history and any number of toggles. |
| `ReportedStaysNamed` | PlatformProofs | A daemon that `start` reported and that answers is the one the pid file names, for any number of starts, stops and late shutdowns. |
| `SpawnsAlwaysStayBounded` | PlatformProofs | Depth and fan-out stay within their bounds among the sessions spawned since the last restart, which forgets who spawned whom, however many spawns, forks, closes, reopens and kills are in flight; of all it ever spawned, a session has at most the bound for each time the server ran, but for the reopened and the revived; a forked thread without a session has a named cause. For any number of sessions and restarts and any bounds. |
| `KeptAnswersAreAlwaysTrue` | PlatformProofs | A cached catalog is of the inputs it is served for and a registered push token is kept until it is dead, but for the races and the devices of the other APNs environment that the properties name, over edits, shared probes, failed writes and restarts. For any callers, devices and bounds. |
| `ZeroAlwaysMeansATurnEnded` | PlatformProofs | `makit wait` exits 0 only when a turn ended after the command was given, whatever is replayed, raced or missed. |
| `PairingIsAlwaysSafe` | ExposureProofs | A pair code admits one device at most, and what a device was granted goes with it, hellos on sockets that have a device included, for any sockets, codes, restarts and grants. |
| `PortsAreAlwaysSafe` | ExposureProofs | Sockets that watch show the same snapshot, an outage is reported once, and a kill strikes only what it was aimed at and reports what came of it, for any clients and retries. |
| `PublishingIsAlwaysSafe` | ExposureProofs | A share that has not expired answers, one listener serves them, and once nothing is published no listener is bound but those that a second bind behind the same close left behind, which happens only where two publishes waited for it, for any devices, ports and limit of grants. |
| `ViewIsAlwaysSafe` | PlatformProofs | A client that has a session's history holds all that was recorded up to its cursor, and once nothing is on its way it is at the last event: over batching windows, replays, lost connections and resumes, for any number of events, drops and openings. |
| `WorktreesAreAlwaysSafe` | WorkspaceProofs | Where work lands stays the user's choice or was moved in the open for a cause, no other repository's entry is touched and no two creations collide, for any number of overlapping commands, snapshots and outside changes, on two paths and four branches. |
| `GatewayIsAlwaysSafe` | ForgesProofs | Nothing the gateway read before a mutation is cached or answered after it, and no caller waits for a lookup that is neither queued nor under way, for any askers, lookups, mutations and gate width. |
| `StaleOnlyWhereOverlapped` | ForgesProofs | After a reported mutation the Forgejo gateway serves what was there before it only if a lookup of that kind was in flight across it, for any callers and requests. |
| `RoutingIsAlwaysSafe` | ForgesProofs | A caller is sent to the forge its choice names, no fallback is pinned for a host, and probes that were answered classify the host rightly, for any callers, routes, choices and resets. |
| `TreesAlwaysFollow` | WorkspaceProofs | A fast-forward of a base branch leaves no worktree with the files of an older commit of its branch, for any branches and paths. |
| `NothingEverGoesBack` | WorkspaceProofs | No overtaken pass replaces what the clients were shown, and no fast-forward drops a commit that was not pushed, however passes overlap. |
| `IdsAlwaysSurvive` | WorkspaceProofs | A start brings every project back under its id at its place, but for the four cases named, for any projects, spellings and table of links. |
| `PromptsAreAlwaysRouted` | ReverseRpcProofs | A prompt goes to the humans who watch its session or else its nearest watched ancestor, and to everybody only when there is none, in acyclic lineages of any depth; while it is open, whoever may answer it was asked and whoever was asked may answer it, over lost connections, hellos and subscriptions, and no agent is ever asked. For any sessions, clients and requests. |
| `AgentsKeepTheirSession` | SessionLifecycleProofs | Every running agent belongs to an open session that can reach it, but for the escapes the property names, for any number of messages, adapters and closes. |
| `InputAlwaysMeetsAStartedAgent` | SessionLifecycleProofs | No message is handed to an adapter whose start has not finished, although sends, attaches and the promotion join one another at every await. |
| `ClosesAreAlwaysSafe` | SessionLifecycleProofs | A closed or killed session keeps no credential but that of a re-attach begun since, and once everything has settled a session last asked to open is open. |
| `ReplayStaysWhole` | EventLogProofs | What a device is shown is whole: no text that was said is lost but what the property names, none is shown twice, a resume gets the suffix it lacks and the cache keeps its cap. For any streams, block size, cap and bounds, with or without a store, over crashes and failing writes. |
| `HistoryIsKept` | EventLogProofs | With a store, the event log with its aggregates, cache and rows implements the abstract transcript: every step speaks, fails a write, restarts or stutters as Transcript says. |
| `OrderIsAlwaysKept` | TurnQueueProofs | What goes to the agent is the head of the queue, or finds it empty, for either agent; and with ACP nothing goes while a compaction is in flight. Of a message whose steer is unanswered nothing is said until it queues: one sent meanwhile may go first. For any number of messages and size of the queue. |
| `QueueStaysSafe` | TurnQueueProofs | A pending message has one place in a queue within its cap, the agent takes a message at most once, one prompt is in flight at a time, and the status is neither idle too early nor busy with nothing left to end it. For any messages, either agent, whatever is refused, answered late or fails. |
| `LandingIsAlwaysSafe` | WorkspaceProofs | The branch the picker suggests is the nearest the worktree's own branch came from, the default where several have that commit; and what the user chose and was told is kept is where the next snapshot says the work lands, unless a live pull request goes elsewhere. For any branches and any commit graph, merges included. |
| `LookupsAlwaysAgree` | ExposureProofs | Below the default directories git, the walk that replaces it and a walk by name index the same documents; and a port belongs to the worktree its process or its nearest ancestor sits in, unless a chain is deeper than the bound. For any processes, cycles of parents included, any listeners, worktrees, files, excludes and limits. |
| `NobodyIsEverForgotten` | ExposureProofs | While somebody watches ports or documents, what is shown is what there is or something is under way that will show it (a timer, a scan, a walk that has read the tree as it is or has another to follow it), for any clients and changes. Nothing is left for WatchersSeeTheEnd to find but that what is under way ends. |
| `NoChangeIsEverForgotten` | WorkspaceProofs | Every change of a repository is shown or is on its way to be: by a turn that will end, an event, the debounce, the throttle, or the current pass, unless that pass or the watch failed; for any changes, passes and faults. The safety half of SnapshotsCatchUp. |
| `NobodyEverWaitsForNothing` | SessionLifecycleProofs | A message that waits for a close, a re-attach or a promotion waits for one that is in flight, and the start it hangs on can still settle, whatever it raced. The safety half of SendsSettle. |
| `NoPromptIsEverForgotten` | ReverseRpcProofs | A human who has the session of a pending prompt open was shown it, or it or the hello or subscription that brings it is on the line, or the app has yet to connect; over any lost connections, sessions, lineages and requests. The safety half of WatcherIsShown. |
| `TheLastIsAlwaysOnItsWay` | PlatformProofs | While an app has a session open, its last event was applied, is in the pipe from the session to the view, or a sub that brings it is on the line, over any lost connections and openings. The safety half of Converges. |
| `NoEndIsEverForgotten` | PlatformProofs | While makit wait waits for a session that is gone and did not miss it, the news is on the line behind the replay; and a process that was disposed of was reaped, is to be reaped, was killed or is to be. The safety half of GoneIsNoticed. |
| `NoMessageIsEverPassedBy` | TurnQueueProofs | A message queued with an ACP agent that lives waits behind something that is open and whose end flushes the queue, for any messages and any size of the queue, unless attachments may fail. The safety half of QueueDrains. |

Each follows the same path. An invariant is seldom inductive as it stands; a stronger one is stated
first, with one conjunct per idea; lemmas say what the operators return; one lemma per action (or per
group of actions that touch the same conjuncts) shows that the invariant is kept; the theorem
combines them with temporal reasoning. What had to be added, and why:

* *EventLog* (`IInv`). A seq is fresh and a row's key free because the digest's deltas are exactly those
  of its open streams, no two streams share one, and a stream's first delta is one of them
  (`DigestInv`); no delta of an open stream has a row; and either `nextSeq` lies above everything
  issued, or the rows together with `seq_hwm` do (`SeqInv`): the second case is a process that
  has just booted.
* *EventLog* (`HistoryInv`, beside `IInv`). `ReplayIsWhole` and the refinement speak of text, and every step
  moves text: from an open stream to a digest, to the cache, to a row, out of the cache. So the invariant
  compares the cache, once a lazy load has filled it, with the rows: the cache is keyed, each stream's chunk
  lies in the cache until its final, the deltas are exactly the unwritten text of open streams, what was
  said is in the cache or in the rows, a row above `evicted` is in the cache and a row of the cache on disk,
  and a finished stream is written unless a write failed. `EnsureHydrated` and a push keep all of it before
  the trim restores the cap (`Untrimmed`, `Hist`); a crash reduces it to a lemma about any set of rows.
* *TurnQueue* (`Inv`, for `OrderKept`). A message can be overtaken only if an `idle` finds the queue held back. Added: an
  `idle` status means that nothing is in flight, codex never has a compaction of the session in flight,
  and the status `exited` is taken only by an agent that exited. What a flush, a steer or a promotion does
  to the queue is stated once, as a lemma on steps (`Goes`): what leaves the queue leaves it at its head.
* *TurnQueue* (`Whole`, for `QueueSafety`). Six parts, because no conjunct of the property is inductive alone:
  where a message is and what the agent was asked about it go together (`MessageInv`); what is in flight
  for each adapter (`TurnInv`); a busy session has something open (a turn, a gate, the agent's own flag), or codex owes it a turn
  (`CloserInv`); an idle ACP session holds no queue (`RestInv`); the types of the flags. The proof of
  `RestInv` found that it needs `~AttachmentsFail`: a flushed message whose attachment cannot be
  prepared starts no turn (section 7), and the property now says so.
* *ReverseRpc* (`Inv`). `PromptRouting` is `PromptSafety` at all times and, of every step that asks,
  `NearestWatchersAreAsked`. The first needs to know that a copy of a prompt on the way to a client was
  counted when it was sent (`CopiesCount`), and that a socket says hello before anything is sent on it
  (`HelloFirst`). For the second only the lineage's acyclicity is needed, and graph lemmas: the
  line of a session is the least set that is closed upwards, of two sessions only one is above the other, and
  each step of the climb leaves a session behind, so that a climb of as many steps as there are sessions meets
  exactly the line (`ClimbIsLine`) and the nearest watched session first (`NearestIsFirst`).
* *ReverseRpc* (`OnTheWay`, for `NoPromptIsForgotten`). A connected app has subscribed to what it has open, or the
  subscription is on the line; what was delivered is on the line or was shown; and whoever has a prompt's own
  session open may answer it. Which prompts a hello or a subscription replays, and that `SetToSeq` of them
  leaves none out, are lemmas.
* *SessionLifecycle* (`NobodyWaitsForNothing`). Inductive with the type invariant alone, because each of the three
  in-flight maps is emptied in the step that lets its waiters go on.
* *SessionLifecycle* (`Inv`). Of the three properties none is inductive: an agent is found by its session
  because of which request holds it at which await. `Owned` says who holds every agent, `Starts` and
  `Phases` what each request waits for and what the session's state is meanwhile, `Asked` who asked last.
* *Forges* (`GatewayInv`, `RequestInv`, `CallerInv`; `RouterInv`). A request is awaited only by callers of
  its kind, and one that began before the last mutation is marked so; every answer on its way to the
  router is one that detection may give for that host and that choice.
* *Forges* (`GithubInv`, for `GatewaySafety`). A lookup that left the gate is out of everybody's sight, so
  nobody may wait for it: who waits waits for a lookup that is queued or holds a slot, a shared lookup is
  the one its key names, and a result that is cached or answered has the generation of the last
  invalidation. What entering and leaving the gate does is stated once (`EntersTheGate`, `LeavesTheGate`).
* *Exposure* (`PublishInv`, `LeakInv`). A listener that is there is bound, one that is closing has no successor yet, and
  who waits for the close waits behind it. Whatever else is bound is `leaked`, and until several publishes waited
  for one close nothing is, because at most one of them binds (`LeakInv`). A publisher's walk over the ports and the sweep are recursive
  functions: what they compute is shown by induction over the positions (see below).
* *Exposure* (`DevicesInv`, `ScannerInv`, `KillInv`). A code that may still pair has made no device; a forward
  that waits belongs to a device with a socket, or is late; a socket that does not watch keeps nothing; an
  alert is only for an outage the detector has or forgot; what is about to be signalled is the target,
  unless its pid was reused.
* *Exposure* (`ProcessTable`, for `LookupsAgree`). Nothing moves, so the property is a theorem about
  lookups in any machine. A walk up the parents visits distinct pids until it stops; what one batch asks about is
  closed upwards (`Upwards`) if no chain was cut, whatever listeners came before, so that every chain's nearest
  owner is among the answers. For documents, each way of indexing is reduced to the same set of conditions on a path.
* *Exposure* (`WatchInv`, for `NobodyIsForgotten`). What a newcomer is handed from the cache is no older than
  what the others show.
* *Workspace* (`SnapshotInv`, `BaseInv`, `ProjectsInv`). Generations are unique and the current pass read
  no less than is shown; the worktree that merges is alone on its branch; `projects.json` holds the table
  whenever no save was lost.
* *Workspace* (`NoticeInv`, for `NoChangeIsForgotten`). Beside `SnapshotInv`: a repository that is listed is
  watched, and the inner watch is there or an event that will bring it, or a watch failed.
* *Workspace* (`RepoInv`, `ChosenInv`). History is the least set of commits closed under parents, so the proof needs
  only that it is transitive and that two commits reached from one another are one, from parents that come
  before children; then the nearest candidate has no other between (`Distance` is a cardinality of finite sets).
* *Workspace* (`WorktreeInv`). What overrules the user's choice is noted while it does, and while a snapshot that listed it
  is under way; a name that was picked is
  free unless the repository was disturbed since; an entry without a target has no note, and a target that
  was chosen has a worktree that lives. What `putTarget` does is a lemma on the file (`WritesKept`). The
  module has two paths and four branches; tasks and bounds are any.
* *Delivery* (`DeliveryInv`). The events on their way from the session to the view form one pipe: what the app
  has taken, then the socket, then the hub's window. `Tip`: the last event was applied, is in the pipe or
  will be asked for. `Flow`: beyond the cursor the pipe has every recorded event before what is above it,
  and has all of them while connected, unless a live event was folded ahead of a replay; `Phases` (one sub
  at a time, and its ack behind its replay) is what `Flow` rests on and what opening a session twice
  breaks. That `reduceEvents` passes over nothing is shown by induction over the events.
* *Platform* (`StreamsInv`, `SamplerInv`, `ControlInv`, `WaitInv`). A stream has its stop function or is still
  being dispatched, never both, and one that was cancelled early is remembered; a chart shows samples of
  the ring only; a daemon that was confirmed is bound to its path; an `idle` on the wire that is new
  to the command comes only after a turn ended.
* *Platform* (`TransportInv`). What is in the pipe is described by the reader's way over it (`Way`): the frame it is
  in and how far, before each byte. The lines are the frames before the one the reader is in (`Given`), and
  the buffer is what it has read of that one, unless it drops it, and then it is over the cap. A chunk is shown by
  induction over its bytes (`SplitReads`); writing extends the way, reading shortens it. That the newlines still in
  the pipe are those of the frames to come is a bijection (`NewlinesOnTheWay`).
* *Platform* (`EndInv`, for `NoEndIsForgotten`). Whoever follows a session has the ack or it is on the line, so that
  what is recorded from then on comes behind it and counts; `onExit` is called for a child that was reaped.
* *Platform* (`LedgerInv`). Some pids (`Accounted`) are of the tree and still of the process the ledger knows; the others
  cost what they cost when last seen, and that, the base and all the tree has used are within what was spent.
  A process comes to the tree with no time used, and one that leaves it owes no more than it used
  (`ComingAndGoing`); a reading retires none of those pids. Sums over a finite set are defined by a CHOOSE; `SumsExist` shows
  that there is such a sum, by induction over subsets, and `SumAdds` and `SumGrows` are what the ledger needs of it.
* *Platform* (`CompactionInv`). A final has what its stream said before it in the turn (`FinalsHaveIt`), and what came
  after one is known as `late`. `FitsLog` says what a plan does to a log without naming how it was computed:
  whole groups of deltas go, and each leaves its text in one place. It holds of every plan (`PlanFits`) and stays true while
  a daemon appends, because the plan takes only from turns that ended. That the second compaction changes
  nothing follows from what is left after the first: lone deltas of tools, with nothing of their stream after them.
* *Platform* (`LineageInv`, `CatalogInv`, `TokensInv`). Every parent was a session once, so that a child that is
  registered lengthens no walk, and walks get only shorter (`LineShrinks`, by taking the child out of any
  set that is closed upwards); a fork that nothing overtook since its check has room. A probe has read
  inputs of between its start and now, and who waits for it asked in between; only a token that was
  replaced, or is of the other environment, can be dead, and a device that a late verdict can hurt is marked.
* *Platform* (`HistoryInv`, beside `LineageInv`). Restarts erase parents, so the invariant keeps both lineages: a parent
  in memory is who spawned the session, and the live sessions somebody spawned that lost their parent (`Old`) are at
  most the bound for each restart. Such sessions only go, until the next restart adds the children of the run that
  ended to them and counts itself (`OldGo`, `RestartingCounts`); `ChildrenOfAllRuns` adds those of now.

Recursion over a sequence is written as a recursive function (`Reduce`, the walk over ports, the sweep, the climb
of a lineage, the loop over a chunk, the chain of a process and the set of pids to ask about).
The library's induction takes an operator, which the provers cannot instantiate; the lemmas `NatInd`
(induction for a *set* of numbers, from the well-founded order) and `RunExists` (a recursive function
has a value at every step) stand in for it. The proofs about `Delivery` are in `PlatformProofs`.

In the four compositions the theorem is about `PartsSpec`: a step of another part leaves the
variables unchanged, which is the first case of each proof.

Every safety invariant and every action property of the runs that pass is the statement of a theorem.

*Only model-checked.* The seven liveness properties: `QueueDrains`, `Converges`, `WatcherIsShown`, `SendsSettle`,
`WatchersSeeTheEnd`, `SnapshotsCatchUp` and `GoneIsNoticed`. Fairness and ENABLED are beyond the proof
system's backends. Each has another half, which is safety: that no wake-up is lost, so that whatever is to
happen is under way. That half is proved, in this order: `NoMessageIsEverPassedBy`, `TheLastIsAlwaysOnItsWay`,
`NoPromptIsEverForgotten`, `NobodyEverWaitsForNothing`, `NobodyIsEverForgotten`, `NoChangeIsEverForgotten`
and `NoEndIsEverForgotten`. What is left for TLC is that each thing under way ends.

## 7. Disagreements

### Found by a run

Two sentences of the repository have a run whose property TLC violates, quoted in `PROJECT.json`:

* **A final whose write fails loses its text** (`EventLogFinalLost`). `form` marks the stream
  finished before `store.append`; when that throws, the next trim drops the deltas
  (`session.ts:558` against `session.ts:420-421`).
* **A restart forgets the settings of every repository** (`ProjectSettingsLost`). `mergeProjects`
  passes on ids and paths only, and the save at start-up writes that table back (`serve.ts:115`
  against `project-store.test.ts:124`, `manager.ts:338`).

### Met while modelling, sessions

The models do what the code does in each of these; where a property would be violated it excludes
the case by name.

* A refused `turn/start` strands the queue: the `idle` it settles to comes while `flushNext` holds
  its guard, and nobody looks at the queue again (`session.ts:1138`; ARCHITECTURE.md:300; `PassedByAnIdle`).
* A message that waits behind a stray turn may wait for ever (`HeldByStrayWork`): such a turn may have no closer,
  as `turn-status.ts:151-156` and `session.ts:984-990` say themselves.
* A message whose steer is refused may be overtaken by one sent meanwhile: it queues behind what
  is there by then (`session.ts:1009-1016`). `OrderKept` speaks of what waits in the queue.
* Without a store the digest would lose a delta that comes after its own final (`stream_digest.ts:197-198`);
  `EventLog!RecordDelta` leaves that case out, and a daemon always has a store.
* A reconnect mid-stream loses the rest of an aggregate: it is stored at the first delta's seq,
  below the cursor of a client that saw that delta.
* An answer given while the socket is down is lost for good: the app counts it as given
  (`connection.dart:231`), the transport swallows it, and the replayed prompt cannot be answered
  by that app any more.
* A closed session can get an agent: `doReattachSession` never looks at `closed` (`manager.ts:2211`).
* The opt-in sweep can refuse a message: an agent that is being resumed by it still looks quiet
  (`idle_reaper.ts:158`).
* The losses behind `raced` and `rearmed` (section 3); a message sent to an agent that has exited makes
  the session busy again and queues what follows (`TurnQueue!Exit`, `SendNow`); a failing automatic
  compaction re-arms itself ahead of queued messages (section 4); a flushed ACP message whose
  attachment cannot be prepared starts no turn, so that the rest of the queue waits for the next one.
* Three ways to lose hold of an agent process (`escaped`): a kill before `start()` has spawned it, a
  re-attach whose session was closed or killed while the worktrees were listed, and a promotion that
  failed after the spawn, when it is tried again.
* A session rebuilt from its row is given no parent (`manager.ts:358-382`), although `session.ts:176-180` says
  "restored on rehydration" (see also `session.ts:239-243`, `event_store.ts:52-58`). After a restart prompts climb no
  lineage, and the bounds on spawning count from nothing, against `lineage.ts:2,22` and `manager.ts:619-622`:
  a session that lives on can have `MaxLive` more children each time the server runs, and chains grow likewise
  (`Forgotten`, `revived`).
* The row of a spawned session is written by its constructor, before the check at `manager.ts:844` may
  refuse it; neither that row nor a killed session's is deleted, so both are sessions again after a restart.
* Two forks of one session that race, or one whose worktree is not the project's, leave a thread no
  session has, although the comment on `session.fork` in `ws/commands/session.ts` says that a
  refused fork never does (`excused`). A reopened session is not counted against the fan-out (`reopened`).
* Text a stream says after its own final in the same turn is dropped by a compaction, where the live
  digest keeps it, against `compact.ts:8-9` ("can never drift"; `late` in `Compaction`).
* A caller that joins a running probe stores that probe's options under its own, newer fingerprint
  (`capability_cache.ts:111`; `crossed`).

### Repositories and projects

* `removeWorktree` and `deleteBranch` use the `git()` that is capped at 15 s, although
  `git.ts:70-72` says that mutations are not capped.
* Records of landing branches are never pruned, so that a worktree made for a pull request at an old
  path inherits the target of the one that was there (`Worktrees`).
* `syncBaseBranch` may fast-forward another branch, when the host is switched between the list
  and the merge (`BaseSync`; it still discards nothing).
* `_handDownTarget` has no guard against a branch that becomes its own target, and takes
  `landedIn` for alive.
* The picker offers a default branch that exists on the remote only, which `setWorktreeTarget`
  refuses; `detectDefaultBranch` strips `origin/` even then.
* Re-pointing two projects at once can leave both at one path; `--project` with another spelling of a
  path is another project until the next start.
* A directory that is away at a start loses its project's id, and a half-written `projects.json`
  is no projects at all (the exceptions in `IdsSurvive`).
* A snapshot under way goes by the branches and worktrees it listed, whatever came since
  (`repo_service.ts:217-231`, `401-406`), so that a target the user just chose can be overruled by what was true
  before (`Overrules`).
* The watch on `.git/worktrees` is kept (`rw.inner ??=`, `worktree_watcher.ts:254`) though its directory was removed
  and made again: until its error comes, if one comes, it sees nothing (`orphaned`).
* A failed latest pass is not retried; an error of the watch on `.git` is never repaired, one of the
  inner watch only after an event of `.git`; enrichment starves while triggers arrive faster than it
  ends (`broken`, `lost`).

### Forges

* Polling of GitHub stays stopped after the quota recovered, until something else moves the timer
  (the comment on `onBudgetChange` in `server.ts`).
* A Forgejo lookup that overlaps a mutation caches the old answer again, against
  `forge/types.ts:57-61` (`StaleOnlyIfOverlapped` shows that nothing else does).
* `setRetryAfter(null)` is never called in production, against `forgejo/gateway.ts:159-162`.
* A user's override is shown as "detected" when an automatic route ends late (`router.ts:163-172`).
* A Forgejo instance behind a gate, whose first probe fails without a status, is classified
  "gitlab" and cached (`detect.ts:157-167`).

### Ports, documents and devices

* The snapshot of ports is broadcast and the history saved although nothing but `probedAt` changed.
* Publishes that waited for the same close bind one listener each, so that two run and the
  first is never closed (`listener.ts` ensureOrigin).
* Forward grants are dropped when a socket closes, against `forward_grants.ts:10-11`. A second hello, as another
  device, leaves those of the first in place (`server.ts:1001-1010`), and a close drops the last device's only.
* `released` is reported of a process that still listens when the second scan says it is nobody's.
* The detector of outages runs only while somebody watches, and the sweep of orphans can strike a
  process that was re-owned between the scan and the signal.
* `cwdPidSet` shares `seen` among the listeners and stops at a depth: a chain that is cut may lack
  an ancestor another chain needs (the premise of `OwnersAreFound`); the history evicts by first sighting.
* Opt-in dot roots are never indexed (`roots.ts:7`, `roots.test.ts:33`); roots in `docs.json` that
  overlap list a document twice.
* `pair.current` shows a code that was spent (`daemon/protocol.ts:94` against `backend.ts:98-101`).

### Daemon, command line and metrics

* Two starters at once unlink one another's socket, and a late `rmSync` of a closing daemon may unlink
  its successor's; a start that gives up leaves its child running without a pid file; a stop of a
  hidden or foreground server says "stale pid file"; a restart, or a start, may be answered by
  another server than its own (`service.ts:180`).
* `makit wait` exits 0 for a failed turn when the error came with the replay and the `idle` live.
* Followers of the log skip lines after a `start` truncates it; a failing `dispatchRequest` leaves
  a cancelled id noted, and two tails with one id leak a watch.
* A tick of the collector in flight across a stop and a start restores the baselines that `start` had
  cleared; a subtree missing from one reading of `ps` is banked and then counted again.
* A late "dead" from the push service clears a newer token (`overtaken`), and the app, which sends a token once per
  connection (`connection.dart:739`), does not register it again until it reconnects. `BadDeviceToken` is also what a live token of the other
  environment yields, since the host is the server's choice (`apns.ts:30,86`): it is cleared as dead (`Foreign`).

## 8. What is not modelled

* *Data*: wording, formatting, validation and rendering of events, tool output, media and
  attachments; the mapping of agents' protocols and of forges' replies; wire frames and their parsing;
  lsof, ps and docker output. Properties do not depend on them.
* *Several sessions at once*, except in `ReverseRpc` and `Lineage`: sessions share no state in the history, queue
  and delivery code. The reaper's loop over sessions is left out, and in `Lineage` a session is a
  phase: its agent is `SessionLifecycle`'s.
* *The limits on wake pushes* are arithmetic on clocks, and the push service is external. *The UI bridge*
  maps calls to `askDevice`.
* *The app beyond its store and transport*: transcripts, tabs, notifications and desktop control are
  a fold, a tree or platform calls driven by one thread; optimistic bubbles, read state and switching
  servers are not in `Delivery`, which has one socket at a time.
* *A re-attach's and a close's inner failures* that the code swallows: they have no effect
  but a log line, and the action is the same.
* *codex's own compaction, `unsub`* (no client in the repository sends it), and *back-off
  times*: an action that may happen may happen at any time.
* *Time*: timers fire at any moment or when fairness says so; ages are flags.

## 9. What comes next

1. The optimistic bubble and several sockets in `Delivery`; several clients at the hub.
2. codex's own compaction and its two ways of settling, in `TurnQueue`; rate limits of wake pushes.
3. `reorderQueue` against a reference over all orders.
