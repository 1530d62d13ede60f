# A TLA+ verification project for InsightifyCore

InsightifyCore is a Go gateway. A user talks over a WebSocket to a worker that
runs inside the gateway; what they say is kept as a conversation, shown on an
*act* node of the run's UI document and stored in PostgreSQL behind in-process
caches. Workers of the analysis pipeline schedule LLM calls over dependency
graphs. This directory models the parts of it in which goroutines, caches and
failures meet, checks the models with TLC and proves the central properties with
TLAPS for every size of the system.

All paths below are relative to `src/`.

## Inventory

| Component | State | Operations | Hard behaviour |
|---|---|---|---|
| user interaction service (`internal/gateway/service/userinteraction`) | per session: id, closed, waiting, input and output queues, conversation, a `changed` channel that is closed and replaced on every change | `Wait`, `Snapshot`, `WaitForInput`, `Subscribe`, `Send`, `PublishOutput`, `Close` | goroutines check under the mutex and select after it; persistence and UI sync happen after the unlock; subscription channels drop their oldest event |
| WebSocket handler (`internal/gateway/handler/ws`) | per connection: context, write channel | read, forward, write, ping, tear down | two goroutines push onto one bounded channel; who ends whom |
| UI event service (`service/uievent`) | none of its own | `OnUserAccepted`, `OnAssistantOutput`, `OnWaiting` → `Handle` | unprotected read-modify-write of the act node |
| UI document store (`repository/ui`, `cache/ui`) | row of `user_interactions`, LRU entry | `GetDocument`, `ApplyOps` | optimistic version check in a READ COMMITTED transaction; cache filled in any order; lost commit answers |
| UI service (`service/ui`), act domain and service (`domain/act`, `service/act`) | – | `ApplyOps`, `CreateNodeInTab`, `Restore`; state machine, routing | status changes that bypass the state machine |
| chat worker (`internal/workers/testworker`) | turn counter | open, wait for an input, answer | idle timeout against a late input; turn limit |
| heavier-start scheduler (`internal/common/scheduler`) | indegrees, ready, launched and completed sets, chunks in flight | build a chunk, launch, take a completion | lookahead draws nodes into a chunk before their predecessors complete; several completions between launches; deadlock detection |
| project service and store (`service/project`, `repository/project`, `cache/project`) | rows with an `is_active` flag, three caches, run contexts | list, create, select, ensure, ensure a run context | a two-statement transaction at READ COMMITTED; flags read, kept and written back; ignored errors |
| UI workspace and restore services and stores | tabs and their runs | ensure, resolve, select, assign | check-then-create |
| artifact store and caches (`repository/artifact`, `cache/artifact`) | blobs; blob, list and URL caches | put, get, list, URL | fill racing invalidation |
| LRU TTL caches (`cache/memory`, `cache/disk`) | entries, byte count; index file | get, set, delete, clear, evict, reload | byte accounting on errors; crash between data file and index |
| worker run service (`service/worker`), runner (`internal/runner`) | run table; fingerprints of outputs | start, execute, sync artifacts | the run outlives the request; node creation races the run |
| LLM middleware, model selection and clients (`internal/llm`) | token channels refilled by tickers, credits of the leases, headers kept last | reserve, acquire, wait, send, retry | tokens taken one by one by competing goroutines; cancellation at any point; back-off |
| repository scanner (`internal/common/scan`), word index (`internal/common/wordidx`) | semaphore, WaitGroup, subtree cache; task channel, workers, index | scan, visit, replay; feed, index, wait, find | goroutines that start goroutines; a pool shut down behind a scan that it may hold up |
| delta, MCP tools, helpers | – | diff, search, read | sequential |
| analysis workers, LLM clients, RPC handlers, configuration, generated code | – | – | no protocol of their own |

The components, with the ones that are left out and why, are listed in
`PROJECT.json`; so are the hazards, each at its line, with the properties that
cover it.

What makes the core correct: no wake-up of a waiting goroutine is lost; an input
reaches the worker exactly once and in order; an output reaches a reader or is
accounted for; a closed session stays closed; no client is given a UI document
that was never committed; every graph is executed completely, in order and within
its limits; a run and a connection end; no limiter is overrun and a cancelled call
stops; a scan visits every entry once and an index is complete when it says so; a
user has one active project.

## Modules

| Module | Models | Composes / extends |
|---|---|---|
| `UserInteraction` | one session and the goroutines that call the service | – |
| `LossyChannel` | what a drop-oldest push onto a bounded channel promises (abstract) | – |
| `InteractionWS` | one connection of `HandleInteractionWS` | implements `LossyChannel` |
| `UiDocumentStore` | `CachedStore` in front of `PostgresStore` for one run | – |
| `ActChat` | a chat run: worker, users, interaction service, UI events, act node | extends `UserInteraction` |
| `HeavierStartScheduler` | `ScheduleHeavierStart` on any graph | – |
| `WorkerRun` | concurrent worker runs over the output directory of a project | – |
| `LLMCall` | calls to one model through selection, signals, retry and limiters, and the scheduler's permits | – |
| `RepoScan` | the parallel walk of `ScanWithOptions` | – |
| `WordIndex` | `AggIndex.StartFromScans`, `Wait` and `Find` | extends `RepoScan` |
| `ProjectService` | the projects of one user: service, caches, PostgreSQL store | – |
| `*Proofs` | theorems and proofs of the module they are named after; `ActChatProofs` those of `UiDocumentStore` too | extend it |
| `MC*` | constants and symmetry for TLC | extend it |

### UserInteraction

`interactionID`, `closed`, `waiting`, `inputQueue`, `outputQueue` and
`conversation` are the fields of `sessionState`. Each critical section under
`Service.mu` is one action; what a goroutine does after the unlock (persist the
conversation, call the UI sync, push to a subscription channel, select on the
captured channel) is a further action per step, so calls interleave exactly where
the code lets them. The `changed` channel is represented by `woken`, the
goroutines whose captured channel has been closed: `notifyLocked` adds everybody
who holds a channel, and a goroutine that captures a new one is not in it. The text
of a message is its number in the conversation. `delivered`, `seen`, `lost` and `lapse`
are history variables; `lapse` says that since the artifact was last complete a Put has
failed or has come later than that of a newer snapshot.

### InteractionWS and LossyChannel

`pushInteractionWS` is three selects, and each is an action: with two pushers the
place that one has made may be taken by the other, in which case the newest message
is lost. `LossyChannel` says what remains true: a message is lost only by a push that
has met the channel full, or as the last one of a reader that fails; those of each
source arrive in order and none twice. `ImplementsLossyChannel` maps `writeCh` to the
queue, the wire to what was received, a goroutine inside `pushInteractionWS` to a busy
source, one that is about to drop the oldest message to a source that has met the
channel full, and the writer to the reader of the channel.

### UiDocumentStore

Each statement of the `ApplyOps` transaction is one action at READ COMMITTED. The
first one is an upsert with `Ignore()`, which ent renders as `ON CONFLICT DO UPDATE`
with every column set to itself: it waits for the transaction that holds the row and
then holds it to the end. So the query, which asks for no lock (`ForUpdate` is commented
out), and the check of the base version run under the row lock all the same, and what
the update writes was computed from the row as it still is (`NoLostUpdate`). `history` collects every document the row has held.
A statement may fail, a commit may take effect and lose its answer, the cache entry
may expire or be evicted, and the gateway may restart; each is an action.
PostgreSQL itself is modelled from how the code uses it.

### ActChat

Composes `UserInteraction` with the worker `LLMChatNodePipeline.Run` and with
`uievent.Handle`. The worker goroutine is `worker` while it waits and `publisher`
while it publishes; `stage` and `turn` sequence the two. `UserInteraction`'s opaque
`SyncReturn` becomes the read-modify-write of the act node: read through the cache
(or, after a miss, from the row), commit, replace the cache entry. The details of
the store are those of `UiDocumentStore` and are not repeated. The act node is
created while the run is already going, as `CreateNodeInTab` needs the run of the
tab. An LLM call answers, or it ends the run.

### HeavierStartScheduler

The graph, the weights and the targets are chosen in `Init`, so one run covers all
graphs of a size. Chunk building is step by step, because the lookahead uses its
own copy of the indegrees: nodes unlocked by members of the same chunk are admitted
before their predecessors complete. `Finish` is the goroutine of a chunk; several
completions may be queued before the loop takes one.

### WorkerRun

A slot is the goroutine of one run after another: `StartRun`, `ExecuteWorker` and the
artifact sync that `executeRun` starts. All runs of a project share the directory and
nothing locks it. `BuildInput` reads one required output per step; `TryLoad` reads the
meta file and then the output; `Save` truncates and writes the output file and then the
meta file, each a step of its own, and goes on when a write fails. A file can be
missing, empty, torn or a content; pieces of two writes may be torn or may be decoded
all the same (`Blend`). An output remembers the input it was computed from,
and the fingerprint of an input is the input. `mixed` is a history variable: the
workers a save of which failed, was cut short by a restart or overlapped with another
run at the same files. Outside of those cases what is read of a worker was
computed by it and the cache is sound; in them it need not be, and the model reaches
counterexamples. The runner does not build a missing
requirement (`BuildFails`), although `cmd/when.modify.worker.md` says so. The run
table is written and never read.

### LLMCall

A profile is the list of payments that `BuildClient`'s wrappers ask of a request, in
their order: a limiter, the number of tokens, and whether a credit of the lease is
taken instead. A goroutine takes its tokens one at a time (`Acquire`), so that the
others act in between, and what it has taken is gone if its context ends. `Tick` is
the goroutine behind a limiter. The scheduler launches one chunk after the other, as
many as may be in flight; the broker reserves permits for each of them and puts them into
its context as credits (`ReserveBegin` to `ChunkDone`, `lease` per chunk). `Retry`
looks at the context once after an error and then sleeps without looking (`Fail`,
`SleepOver`). Only a model without limits exposes the headers its provider sent,
because the wrappers hide them (`Aware`). A profile also says whether the client gives
up on a request after a time, as the Groq client does and the Gemini client does not
(`GivesUp`). Time is not modelled: a tick, a timer or a
sleep may end at any moment. `level` is a history variable, the buckets an observer at
the provider's end would keep: a tick fills one, a request that goes out takes its cost
and one that is let through on credit takes from the broker's.

### RepoScan and WordIndex

Every directory has a goroutine of its own; `pc`, `depth`, `todo` and `pending` are
its locals. The goroutine of a directory adds a child to the WaitGroup (`AddChild`) and
then waits for a slot of the semaphore with its own in hand (`StartChild`). A directory
is skipped, replayed from the subtree cache, unreadable, or read. The callback of the
scan is the index's send on its task channel, so that `Feed` is `VisitFile` joined with
the send, and a full channel stops the walk. Paths are directory and file names, and
the order of a directory's entries is arbitrary. A child at the depth limit is handed
to the callback by the walk of its parent (`StubChild`), without a look at the names to
be ignored. The scan that keeps the whole tree in
a cache is sequential and is left out.

### ProjectService

A project is its `is_active` flag, as everything else of it is carried along. Each
store method is its query or statement and, as a second step, what `CachedStore` does
to the three caches afterwards. `SetActiveForUser` is taken apart further, as
PostgreSQL does at READ COMMITTED: the snapshot of the first statement, one row lock
after the other with another look at the row, the second statement, the commit. `spoilt`
is a history variable: calls have overlapped, a statement has failed, or a flag was
written back although the row had changed since it was read. In each of the three
cases the model reaches two active projects, and the property shows that there is no
fourth.

## Runs

Names are those of `PROJECT.json`.

| Run | Instance | Shows |
|---|---|---|
| `ui` | 2 waiters and a caller, a waiter and a poller with one, a waiter and 2 callers, or a subscriber with a channel of capacity 1, a poller and a caller; 2 messages | no lost wake-up, honest `waiting` flag, inputs exactly once and in order; outputs are conserved and in order although the channel overflows; the artifact is the conversation once nobody is about to put it, unless a Put failed or came too late; `Close` releases, inputs and outputs arrive, a waiter without a rival blocks instead of spinning |
| `ws` | channel of capacity 2, 4 messages per goroutine | "subscribed" first, order of each source on the wire, nothing lost but by a push at a full channel or a failing writer (refinement of the lossy channel), teardown |
| `uidoc` | 2 clients, 1 node, 3 versions, 4 op lists | only committed documents are served, no update is computed from a row that has changed since or against another base version, every call ends, stale cache entries do not outlive their TTL |
| `chat` | 1 user, 1 input, 1 turn | the timeline has only messages of the conversation, each once; what is missing, and what the status machine does not allow, is explained; the run ends |
| `sched` | every DAG on 4 nodes and every directed graph on 3 of them, with every weighting and 2 chunks in flight | exactly once, order, counters, no spurious deadlock, complete success, justified errors; the call returns, and so a node no chunk can hold is reported |
| `worker_run` | 2 goroutines with any number of runs; a versioned worker with 2 possible outputs and a cached one that reads them | only failed, interrupted or overlapping saves of a worker can make a run read pieces of outputs, the cache answer with another input's output, or store another run's artifact |
| `llm` | 2 goroutines in 2 chunks, each with a lease; 2 attempts; a model without limits that reports its provider's, one without limits or a timeout, and one with 2 limiters of capacity 1, the second of which a request needs 2 tokens of | limiters overrun by no more than the requests in hand; those on credit by no more than a reservation per chunk; at most one request after a cancellation; every call whose client has a timeout or whose context ends returns |
| `index` | 2 directories side by side or nested, 2 files, 2 slots, 2 scans in 3 modes, 2 index workers, channel of capacity 1 | every entry once, nothing after the return, a complete index, indexing ends |
| `project` | 2 clients, 3 projects, 3 calls | two active projects have a known reason; a selection repairs them |
| `scan_deadlock` (violation) | 2 directories with one directory each, 2 slots | the scan and the index never end |
| `scan_ignored` (violation) | as `index` | a directory to be ignored at the depth limit is reported |
| `llm_cancel` (violation) | as `llm`, with one of the goroutines in no chunk | a call cancelled in its back-off begins another attempt |

Bounds. Two waiters, callers or clients are enough for one to act between any two
steps of the other, and three are the same interleavings again (of `ui` the casts are
kept small because it checks liveness too: every invariant of it is proved for any
number of goroutines, several subscriptions of one session included); two messages give a
queue with a first and a last element; a channel of capacity one or two is full
after that many messages, as one of 8 or 32 would be later; the wait states that a
subscription sends beside its messages overflow a channel of capacity one. Four
nodes include every diamond, chain and fork; three weights, 1, 3 and 4 with a
capacity of 3, are a part of a chunk, exactly one and too much. The op lists of `uidoc` are
a change, its undoing, one that changes nothing and one that is refused half way, so that
two writers leave different documents or none; with three versions a stale base meets a
writer that has waited for the row. `MaxMessages` in
`ActChat` is large enough never to stop the worker. In `llm` a bucket of capacity one
is both full and empty within a request, and a request that needs two tokens of it
waits for a tick in the middle; two chunks hold a lease at the same time, which
together is more than the broker's channel holds. In `worker_run` the inputs of the cached worker
differ by what the other one has answered. In `index` the cache is filled by the first scan and
read by the second; the depth limit of 2 stops the walk below the first level, and
with two slots one nested directory is just short of the deadlock. Three
calls of two clients let a call begin inside of another and a third repair or notice
what they left; the third project is the one that is created. `MaxCalls` and
`MaxScans` only stop new calls. `MaxVersion`, `MaxInputs` and `MaxPushes` only
stop new requests. The theorems remove the bounds
for the properties they state.

Deadlock is checked except in `InteractionWS`, where a connection that has been torn
down stops, in `HeavierStartScheduler`, whose call returns, and in `WordIndex`, which
is done when the index is.

Each property has a mutant: an operator beside the definition it replaces
(`Variant:` or "faulty" in its comment) that changes it the way a plausible bug
would, under which TLC finds the property violated.

### Fairness

Weak fairness of the steps of a goroutine: the Go scheduler runs what can run, and
`sync.Mutex` admits every goroutine in the end. Strong fairness only where a select
has several ready cases or a lock is handed on: a context that has ended and a
deadline that has passed stay ready (`ForwarderDone`, `WriterDone`, `IdleTimeout`,
`ReadDeadline`: without a writer no ping goes out, so no pong extends the read
deadline), and PostgreSQL queues those who wait for a row lock (`ApplyCreate`). Goroutines that wait at a channel queue there, so that none is passed
over for ever (`Acquire` of a token, `StartChild` of a slot, `Feed` of a task). The
tickers tick (`Tick`). A request that gets no answer ends when its client's timeout has
passed, which only the Groq client has (`internal/llm/client/groq.go:41`), or when the
context ends, which every client hands on; otherwise nothing obliges it to end
(`GivesUp(c)` with `Answer` or `Fail`).
A TTL runs out (`Expire`). Nothing obliges a client to call, a peer
to leave, a context to be cancelled or a statement to fail.

### Findings

* `scan_deadlock`: a goroutine of the scan keeps its slot while it waits for one for
  its child (`internal/common/scan/scan.go:395`). When as many directories with
  directories in them are walked at once as there are slots, the scan never returns,
  and the index on top of it, which `internal/common/wordidx/indexer.go:26` says is
  built to completion, is never done. `IndexingEnds` shows the condition under which
  it does end.
* `scan_ignored`: `IgnoreDirs` are to be skipped entirely (`scan.go:46`) and not emitted
  (`scan.go:325`), but a child at the depth limit is emitted at `scan.go:388` before
  anybody looks at its name.
* `llm_cancel`: `Retry` is to stop immediately when the context is cancelled
  (`internal/llm/middleware/retry.go:13`), but its back-off (`retry.go:58`) does not watch
  the context and is followed by another attempt. `OneRequestAfterCancel` bounds what
  comes of it.

Behaviour the models reach and a property bounds rather than refutes:

* `uievent.Handle` (`internal/gateway/service/uievent/service.go:87`) writes back the
  whole node with base version 0, so a concurrent call or a stale cache entry erases
  timeline entries; `TimelineLossExplained` says when, and that there is no other loss.
* `applyEventToNode` assigns the status past the state machine that
  `docs/act_mvp_spec.md` fixes and `domain/act.CanTransition` implements: a node that
  is bare or idle goes straight to needs_user_action. `StatusLapseExplained` shows
  that this is the only such step.
* Overlapping selections, ignored errors and flags written back stale leave a user
  with two active projects, which `EnsureProject` takes for none (`OneActiveExplained`).
* The wrappers of a limited model do not pass `LastRateLimitHeaders` on
  (`internal/llm/middleware/rate_limit.go:530`), so that its provider's signals are never
  respected, and the headers of a model without limits never age (`Aware`, `asks`). The
  limits are held without the signals (`OverrunBounded`).
* The cache of a worker's outputs answers wrongly after overlapping, failed or
  interrupted saves, and only then (`CacheSound`).

## Proofs

| Module | Theorems |
|---|---|
| `UserInteractionProofs` | `TypeCorrect`, `NoLostWakeup`, `WaitingHonest`, `InputsDelivered`, `OutputsDelivered`, `ConversationPersisted`, `CloseFinal` |
| `HeavierStartSchedulerProofs` | `TypeCorrect`, `NoNodeTwice`, `OrderRespected`, `ParallelismBounded`, `NeverDeadlocks`, `SuccessComplete`, `HeavyJustified` |
| `ActChatProofs` | `ChatUsesService`, `ChatTypeCorrect`, `WorkerAnswers`, `TimelineNeverWrong`, `LossesExplained`, `StatusFollowsMachine`; of `UiDocumentStore`: `OnlyCommittedServed`, `LockNeverAbandoned`, `UpdatesNeverLost` |
| `WorkerRunProofs` | `TypeCorrect`, `CacheIsSound`, `StoredOutput`, `ReadAsComputed` |
| `InteractionWSProofs` | `TypeCorrect`, `Refinement`, `WireOrdered`, `SubscribedComesFirst` |
| `LLMCallProofs` | `TypeCorrect`, `RateHeld`, `CancelStops` |
| `WordIndexProofs` | `ReturnIsQuiet`, `SlotsExact`, `EntriesOnce`, `IndexHoldsAll`, `PoolNeverStuck` |
| `ProjectServiceProofs` | `OneActive`, `SelectionRepairs` |

Assumptions: the named `ASSUME`s of the modules, that is disjoint sets of
goroutines, channels of positive capacity, a finite set of nodes with natural
weights, limiters of positive capacity that a profile names at most once, a finite tree
of directories, finite sets of workers, callers and chunks, finitely many projects, and
model values that differ from data.

* *Wake-ups.* `NoWakeupLost` is inductive only together with the facts that
  `woken` holds only goroutines that hold a channel and that a parked goroutine's
  channel was taken under the same critical section as its check; every action that
  makes the check come out differently calls `notifyLocked`. For a subscription it
  needs in addition what it was last told: the assignment of an id by `Wait` is a
  notification too. `WaitingIsReal` needs that every waiter between its check and its
  return is counted as waiting.
* *Inputs.* The concatenation of `delivered` and `inputQueue` is strictly
  increasing and its elements are the user messages; `Send` appends a number larger
  than all of them, and a pop moves the head across.
* *Outputs.* `OutputInv` follows an assistant message along its way: the queue of the
  session, the hands of a subscriber, its channel, its reader. Every output is at one of
  these places or in `lost` and at no two of them; each place is in order, and so is
  each place against the next, for a subscriber goes back to the session only with
  empty hands.
* *Artifact.* A snapshot is taken under the lock that the conversation grows under, so
  that the snapshots and the artifact are all prefixes of it, and two of one length are
  equal. `ArtifactInv`: unless a Put has lapsed, the artifact is the conversation or
  some caller is about to put the whole of it. Whoever puts the newest snapshot last
  therefore completes it, and whoever puts an older one over it is the lapse.
* *Scheduler.* The invariant ties the indegree of every needed node to the
  predecessors whose completion has been processed, and the copy used while a chunk
  is built to those plus the chunk's members; a node outside of launched and
  completed with all predecessors processed is ready. On an acyclic graph a minimal
  node that is not completed is therefore ready or in flight, so that the deadlock
  error is unreachable. For the capacity error (`HeavyInv`): everything launched fits a
  chunk by itself, and an empty chunk under construction weighs nothing and has
  candidates, so that the candidate that does not fit is needed and too heavy.
* *Documents.* A call about to fill the cache carries a document of `history`; a
  call about to commit holds the row lock, so that its document becomes the row, or
  carries what it has read. The lock changes hands only to a client that goes on to its
  next statement, and every step out of the transaction, on whatever path, releases it
  (`LockKeeps`). As it is held from the upsert on, what a call has read is still the row
  when it writes (`RowAsRead`), and so it has checked its base version against the row
  that it replaces (`UpdatesNeverLost`).
* *Worker runs.* The files of a worker that is not mixed are clean: while nobody saves
  it, a meta file that can be decoded is the fingerprint of the output's input, an output
  that can be decoded is the whole answer of a model, and a run between two steps of `TryLoad`, `Save` or the sync still finds what it left. A
  step that changes the files is one of a save, and by the history no other run is
  then at them. What a run has read of another worker was in a clean file then, and
  `mixed` only grows (`ReadInv`).
* *Chat.* Every step of the chat is one of the interaction service or leaves its
  variables alone (`ChatUsesService`), so that the invariants of `UserInteraction` carry
  over. For the timeline, a goroutine *owes* a message from the unlock to the write of
  the node. `NodeInv` says that no two goroutines owe the same message, that one which
  is owed is in no copy of the node but the one about to be written, so that it is not
  written twice, and that as long as nobody has written over a node it had not read, a
  message is shown, dropped or owed. For the answers, `StageInv` gives for every stage
  of the worker where its goroutine is and by how much the outputs are ahead of the
  inputs. For the status, a call writes what `applyEventToNode` yields on the copy it
  read, and unless the write is stale that copy is the row.
* *Projects.* `ProjectInv` speaks of one call at a time: its operation, the rows it
  relies on (no row vanishes), and that a transaction during which nobody else has
  written has seen every row that is still active and that it has not set to inactive.
  While nothing is spoilt there is one call, and unless it is about to make its project
  the active one, at most one is active and the cache knows no other.
* *Lossy channel.* No message on its way is newer than what its source has offered,
  and older if the source is in the middle of a push. This is an invariant of the
  abstract specification; the refinement, which needs only the types, carries it over
  to the wire (`WireOrdered`). That
  `subscribed` comes first needs that the forwarder is off until it is pushed, and that
  it is the oldest message as long as it is on its way.
* *Limiters.* `level[l] >= -n * Cost(l)` is not inductive: what a goroutine has paid
  and not used has to be added. The invariant says that `level` plus the cost of one
  request per goroutine is at least the tokens in the channel plus all tokens in the
  goroutines' hands; a goroutine pays in the order of the profile and at most the cost
  of each limiter (`PaidRight`), so that a request takes from `level` no more than it
  had in hand. For credits (`CreditAccount`), the broker's bucket plus one reservation per
  chunk is at least the permits in its channel and all those that the chunks have, in the
  hands of `Reserve` or as credits of a lease. For cancellations, a call that has sent late is in its last attempt
  (`LateIsLast`).
* *Scan.* The counter of the WaitGroup is the number of directories that are added and
  not done, and the semaphore is the set of those whose goroutine runs. As a goroutine
  that still runs or has a child to start is counted itself, or is the caller, a
  counter of zero means that nothing is left. `EntriesOnce` adds the callbacks of each
  directory (`VisitInv`): while it is walked, its entries not looked at yet have been
  reported zero times, the others once or passed over by a limit that stays reached, and
  a child that the walk enters is still to be looked at, waits for a slot or has a
  goroutine.
* *Index.* `PoolInv`: while no error is recorded, a file has been given to the pool as
  often as it is in the index, in the channel and in a worker's hands together; the
  scan ends before the channel is closed, and without a cancellation a worker leaves
  only when the closed channel is empty, so that nothing but the index is left.
* *Never stuck.* If no goroutine of a scan can run, all of them wait for a slot and
  every slot is held by one of them (`SlotCircle`); as each waits in a directory of its
  own that has directories, there are at least as many of these as slots, which
  `NeverStuck` excludes. The caller walks the root as long as it scans (`CallerInv`) and
  the WaitGroup counts all others, so that somebody walks as long as the scan may not
  return; and while one waits for room in the channel, a worker is there to take from it.

Every invariant and every action property of the passing runs is stated by a theorem.
The type invariants, `ChatUsesService`, `AnswersKeepUp`, `SlotsExact`, `ClosedIsFinal`,
`LockHolderRuns` and `NeverStuck` are proved and are not properties of a run; what the last two exclude
would show in `uidoc` and `index` as a violation of `CallsEnd` and `IndexingEnds`.

Only model-checked: the liveness properties (`CloseReleases`, `InputReachesWaiter`,
`WaitForInputBlocks`, `OutputReachesReader`, `Terminates`,
`CacheConverges`, `CallsEnd`, `ChatEnds`, `HandlerEnds`, `CallsReturn`, `IndexingEnds`),
as fairness and ENABLED are beyond the prover, and the types of UI documents (what
applying a list of ops yields is an induction over data). Of three of them the safety
core is proved: nobody is abandoned at a lock (`LockNeverAbandoned` for `CallsEnd`), no
wake-up is lost (`NoLostWakeup` for `CloseReleases` and its like), and somebody can
always go on (`PoolNeverStuck` for `IndexingEnds`).

## Not modelled

Text: prompts, formatting, ids, log lines. The LLM, S3 and PostgreSQL beyond what
the code sees of them. Request mapping, routing and configuration. Worker bodies of
the analysis pipeline that only build prompts. Generated code: some 26,000 of the
repository's 45,700 lines of Go are ent and protobuf builders, accessors and
descriptors without a protocol of their own. The models state what the SQL statements
behind them do and name none of their lines, and so they map a small share of the
repository and most of the code in it that has concurrent state. The reasons are with
each component in `PROJECT.json`.

Left out of modelled components: the sequential whole-tree cache of the scanner and
`StartFromPaths`; owners, artifacts and `Update` of projects; the choice among
several models; the alternative stores in memory and on disk.

## Plan

1. *Done*: the interaction session, the connection, the UI document store, the chat
   run, the scheduler, the worker runs, the LLM middleware, scanner and word index, and
   the project service.
2. Workspace tabs over their cached store, in the pattern of `ProjectService`, and the
   assignment of runs to tabs.
3. LRU TTL caches: a bounded-cache specification that the memory cache and the disk
   store implement, with crashes between data file and index.
4. Proofs: all safety properties of the runs are done. Left are the types of UI documents,
   for any operator that applies ops and yields a document, and shorter proofs where two
   invariants overlap.
