# Verification of versioning, saving and sessions

The repository is a graph data-visualisation product: a React front end, a FastAPI backend, and
graph stores (FalkorDB and others) behind it. Its protocols are in four places: the graph
**versioning** service (`src/backend/app/services/versioning/`), with drafts of a graph edited by
several people, reviews, publishes onto `main`, and imports and exports run as durable jobs by
workers that may die; the **read copy** of `main` that the same service keeps in FalkorDB; the
**unsaved edits** of a browser tab and their save (`src/frontend/src/store/`, `features/`); and
the **session** a browser's tabs share and renew. This directory holds TLA+ modules of the four,
the TLC configurations that check them, and proofs TLAPS checks.

| file | what it is |
|---|---|
| `JobLease.tla` | the transfer lane: job rows, leases, epochs, cursors, takeovers, the reaper |
| `JobContract.tla` | what a job promises, with leases, workers and failures left out |
| `JobLeaseProofs.tla` | theorems about `JobLease`, for every value of its constants |
| `JobContractProofs.tla` | `JobLease` implements `JobContract` |
| `JobBoundsProofs.tla` | the bound on takeovers, and the export's file |
| `DraftPublish.tla` | drafts, reviews, publishes and publish jobs of one graph |
| `Projection.tla` | `main` in FalkorDB: passes, marker, liveness check, eviction, load, reads |
| `StagedSave.tla` | staged edits of a tab, their snapshot, and the save under an idempotency key |
| `SessionRefresh.tla` | the tabs' silent refresh and the server's rotation of refresh tokens |
| `DraftPublishProofs.tla`, `SessionRefreshProofs.tla`, `ProjectionProofs.tla` | theorems about those three |
| `StagedSaveProofs.tla` | `StagedSave`: its types, lemmas on filtered lists, edits stay on their draft |
| `StagedSlicesProofs.tla` | `StagedSave`: parents kept, nothing lost |
| `MC*.tla` | symmetry sets and constant values for TLC |
| `Lease*`, `Publish*`, `Save*`, `Session*`, `Projection.cfg`, `FindStranded.cfg` | the runs |
| the other `Find*.cfg` | reproductions of the disagreements of section 8 |
| `PROJECT.json` | components, runs, mutants, the map to the source, findings, hazards, theorems |

Check a run with `tlc -config LeaseImport.cfg MCJobLease`, the proofs of a module with
`tlapm JobLeaseProofs.tla` (a few minutes each; `StagedSlicesProofs` about five).

## 1. Inventory

Paths are relative to `src/backend/app/services/` unless they say otherwise; "fe" is
`src/frontend/src/`.

| component | state it keeps | operations | what makes it hard | what makes it correct |
|---|---|---|---|---|
| Job lease, transfer lane (`versioning/job_lease.py`, `worker.py`, `import_export/runner.py`) | rows of `graphver.jobs`: status, phase, epoch (`retry_count`), cursor, takeovers, heartbeat | claim, renew, checkpoint, finish, fail, release; the reaper | crashes, stale heartbeats, zombies, commits in doubt, drains | an epoch has one owner; each unit of work lands once; every job ends |
| Import and export jobs (`versioning/import_export/`) | the job row, staged `import_rows`, an export's files | create, start, parse batches, apply windows, reclaim, retry, cancel | resuming after a crash; two attempts writing one file; two imports of one draft | completed means whole; one import per draft; the result file stays whole |
| Drafts and publish (`versioning/service.py`) | branches, commits, staged changes, `main`'s head | open, stage, checkpoint, save, pull, abandon, publish, revert, restore, idle sweep | requests and workers interleave between two locks; statement snapshots | no edit lost; one squash per draft; a squash lands on the main it saw |
| Reviews (`versioning/service.py`) | `merge_requests`, their approvals | open, approve, set reviewers, close, merge | approvals of an older head; a close racing a merge | what lands is what was approved; one live review per draft |
| Publish jobs (`import_export/service.py`, `service.py`) | a job row and the draft's `publishing` status | create, run, finish, release | the squash itself is not fenced by the lease | a takeover does not publish twice; a draft is not left closed |
| Projection to FalkorDB (`versioning/projection.py`) | `projection_state`: status, watermark, epoch; the key and the marker in it | claim, project, verify, mark, finish, yield, rebuild, reset, liveness check | overtaken passes; a store that restarts empty; a moving head | reads go to FalkorDB only when it holds `main`; it always comes back to that |
| Three-way merge (`versioning/merge.py`, `typed_merge.py`, `changeset.py`) | none: a pure function | merge of entities field by field | parent and child paths changed on two sides | no change dropped or invented; conflicts symmetric |
| Residency (`versioning/residency.py`, `cache_manager.py`) | which keys are in memory; leases of reads | evict, load, hold a lease, route a read | a read between its check and the eviction; a pass still writing | a key in use is not evicted; an evicted graph is loaded again |
| Lifecycle and purge (`versioning/lifecycle.py`, `purge_worker.py`) | a graph's frozen, trashed or live state | freeze, trash, restore, purge | a freeze between a writer's check and its commit | nothing is written to a frozen graph |
| Bootstrap (`versioning/bootstrap_worker.py`) | a scan's cursor and the new graph | scan, cut over | long scans under a lease | the cut-over sees every row |
| Forks (`versioning/service.py`) | a second graph and its parent | fork, update from parent, fork review | the draft protocol over two graphs | as for drafts |
| Graph read cache (`graph_cache.py`) | generation-stamped entries, flights | read, invalidate | a leader failing under its followers | a stale generation is not served |
| Provider state (`../providers/`) | probe results, back-off | probe, warm up, trip | concurrent probes | no request stuck behind a dead provider |
| Staged edits and save (fe `store/stagedChangesStore.ts`, `features/versioning/model/`, `features/canvas-drafts/`) | staged changes per draft, redo stack, pending save, `localStorage` snapshot | edit, undo, redo, discard, save, settle, resolve a conflict, switch draft, reload | answers lost after the commit; a reload during a save; edits by others | no edit lost; no committed create sent again; every save ends |
| Sessions (fe `services/fetchWithTimeout.ts`, `services/sessionKeepalive.ts`, `store/auth.ts`; `src/backend/auth_service/`) | cookies, the refresh in flight, a latch, a Web Lock; token families, tombstones | renew, retry, sign in and out, broadcast; rotate, replay, revoke | two tabs rotating one token; lost answers; late 401s | no false alarm of theft; nobody signed out by a race; an end reaches every tab |
| Aggregation, insights, outbox (`aggregation/`, `src/backend/insights_service/`, `outbox_relay.py`) | job rows, Redis streams | dispatch, consume, reap, relay | redelivery, replays | at-least-once with idempotent effects |
| Endpoints, providers, search, authorization, migrations, the rest of the front end, deployment | little of their own | request handling, queries, presentation | none of their own | not modelled, see section 11 |

How they interact: an endpoint calls a service method, which is one or a few Postgres
transactions. Long work is a row of `graphver.jobs`; slots of the worker process poll for rows,
run them through `ImportExportService` and report through the lease. An import writes its windows
with the same `apply_ops` a person's save uses; a publish job calls the same `publish` or
`merge_mr` a request calls. A squash moves `main`'s head, which the
projection worker follows; reads of `main` go to FalkorDB while it has caught up and to Postgres
otherwise. A tab's save is one `apply_ops` request under an idempotency key. Shared state is
Postgres, guarded by row locks (`_lock_branch`, `_lock_pr`), advisory locks, unique indexes and
fenced `UPDATE`s; FalkorDB, which no transaction covers; and in the browser the cookies, which
tabs renew under a Web Lock, and `localStorage`.

## 2. JobLease: the transfer lane

**State.** `row[j]` is the job's row; `cursor` counts units of work (0 is NULL, `1..Batches` a
parse batch, `Batches+1` the end of the parse, then one per window); `epoch` is `retry_count`.
`fresh[j]` says the heartbeat is within `INGEST_STALE_SECS`. `lease[w]` is what slot `w` runs: job,
epoch, the cursor it remembers and its `lost` and `drain` flags. `limbo[j]` is a commit that was
sent and not acknowledged. `applied[j][u]` counts how often unit `u`'s work was committed: it is
the draft's rows, seen as a counter. `files[j]` holds the export's keys with a whole file.

**Actions.** One per operation: `Claim` (with `_failed_in_place` for poison and pre-lease rows),
`Renew`, `GoStale`, `Begin`, `NextBatch`, `CommitLands`, `CommitInDoubt`, `CommitRefused`,
`Fault`, `Resolve`, `OpenFile`, `Progress`, `StoreFile`, `Finish`, `Raise`, `Fail`, `Quiet`,
`Stop`, `Release`, `Crash`, and the API's and the reaper's `Create`, `Start`, `FailNeverQueued`,
`FailNotStarted`, `ReclaimImport`, `RequeueFailed`, `CancelExport`. A unit's rows and its
checkpoint are one transaction in the code (`on_commit`) and one step here. A commit in doubt
keeps the row's lock until Postgres settles it (`Resolve`), so claims skip the row.

**Time** is what it makes possible: a running row may go stale at any moment, even under a living
worker; a reaper's timeout may strike whenever its other conditions hold.

**Left out.** The order of a claim (fair shares, caps) is any order. What a window holds, row
resolution and file formats are one opaque unit. The upload of an import's file is the gap between
`Create` and `Start`.

**JobContract** says what a reader of jobs and drafts may see: `JobLease` implements it under
`state <- active / ended`, `work <- applied` (`ImplementsContract`).

## 3. DraftPublish: drafts, reviews, publishes

**State.** `draft[d]` is the branch row with its staged (`pending`) and committed (`own`) edits;
`head` and `content` are the seq of its last commit and of the last one that changed content, which
is what approvals are compared with; `rev` counts pulls that rewrote its own edits. `main` is the
sequence of commits, each with the draft it squashed, the base it was squashed from, and, of a
reviewed merge, the approval it went in on. `pr`, `job` are the tables; `imp[d]` the import on a
draft (`overdue`: the reaper will fail it, so a publish ignores it; `late`: claimed after all);
`pub[p]` how far a request or a slot has come in a publish; `glock` who holds the advisory lock
between two steps. `given` and `withdrawn` are history: the edits accepted, and the staged ones
dropped because their author lost access.

**What is one step.** A transaction whose reads all follow the lock that guards them: stage,
checkpoint, save, pull, abandon, import window (draft's row lock), squash (graph lock, then the
draft's). **What is split**, because the code reads before the lock or in an older snapshot:

- `publish` and `merge_mr` fold staged edits (`Flush`) in a transaction of their own, before the
  one that squashes (`Squash`, `SquashAgain`, `SquashRefused`);
- `merge_mr` reads the review without its row lock (`ReadPR`) and squashes later;
- `open_draft_mr` reads the draft and its reviews (`OpenPR`) and inserts its row later (`InsertPR`);
- `sweep_idle_drafts` and `release_publishing` are single statements under READ COMMITTED: their
  subqueries are judged in the statement's snapshot (`SweepRead`, `ReleaseRead`), and only the
  row's own columns again when the row is reached (`SweepWrite`, `ReleaseWrite`). A release skips a
  locked row; that is a release that comes later.

A publish job's attempt (`ClaimJob`, `RunPublish`, ..., `FinishJob`, `ReleaseOwn`, `Raise`,
`Drain`, `Crash`) is fenced at its finish only. A superseded attempt goes on squashing, and the
model lets it.

**Abstractions.** The live review statuses (open, conflicts, mergeable, approved) are one. One
approval stands for those of all requested reviewers. An edit is opaque and always a net change:
edits that cancel out to an empty squash are not distinguished from no edits. A refusal by
permission, policy, conflict, ontology rule or exhausted retries is `Refuse`, which may come at
any point before the squash. There is no freeze, fork or membership; those are in the plan.
Imports are reduced to what a publish can see of them (their own protocol is `JobLease`).

## 4. Projection: the read copy of main

**State.** `main[n][e]` is what commit `n` does to entity `e`; an entity's value is the seq of the
commit it is from. `ps` is the graph's row of `projection_state` (status, watermark, epoch); `key`
is the graph's key in FalkorDB with its entities and its marker, `saved` the key as it is on disk;
`lock` the projection's advisory lock; `pass[p]` how far a pass of the worker or of a web pod has
come; `evictor`, `dropped`, `loaded` how far the capacity loop has come; `probe` what the liveness
check read; `reader[r]` a read's lease and where it was routed. `stray` is history: writes of
superseded passes that the code has lost track of, or may.

**Actions.** A statement or transaction on Postgres is one step, and so is a batch written to
FalkorDB; a pass may lose its lock (`LoseLock`), fail or die between any two. A pass is `Begin`,
`QueueFirstSeed` or `Claim`, `PlanPass`, `Write`, `Verify` (with its sweep and its one heal), `Mark`
and `Finish`, or `YieldSuperseded` when the row is no longer its own. Around it: `Publish`, `Save`
and `Restart` of FalkorDB, `LivenessRead` and `LivenessReset`, `Rebuild`, `ResetWatermarks`, the
evictor's steps, the capacity loop's `Wait`, `DropStale`, `StartLoad`, `SeeLoaded`, `FinishLoad`, and a
read's `Hold`, `Route`, `Read`.

**Properties.** `ServesMain`: where reads are sent to the key, it holds `main`'s head. It excepts
two states in which the code is about to find out: the liveness check will see the key amiss, or a
superseded pass has still to lower the watermark over what it wrote. A third, `stray = "lost"`,
takes two mishaps and is one the code does not find out about: a superseded pass that has lost its
lock dies before it lowers the watermark, or FalkorDB saves what such a pass wrote before the next
pass that runs alone leaves its marker (section 8). `CatchesUp` is the other half: within the run's
one fault, reads come back to a key that holds `main` from every state. The hard case is a
superseded pass whose old writes land after a newer pass has published; lowering the watermark to
where it started makes the next pass write that window again. `EvictionSparesReads` is the
Dekker-like handshake of a read's lease and the evictor's mark.

**`Calm`** (TRUE in the run) says that FalkorDB restarts only between passes of a graph at rest,
from a snapshot that has a marker, and that the liveness check looks before the next pass begins.
Section 8 says what happens without it.

**Left out.** The watermark's target never passes the head, so the pass's target is the head. A
back-off is any delay. Nodes and edges are one kind of entity. Replicas (`WAIT`), roll-ups and
summaries, paging, the spelling of names, forks, customers' own keys, repinning, stalled loads, a
drop of a key that fails, and a cancelled write that lands late. A read is taken to have its lease
(the code reads on without one if the broker takes longer than 100 ms) and to end within the
lease's 120 s. The evictor does not lose its lock.

## 5. StagedSave: unsaved edits and their save

**State** of one tab: the draft on the canvas (`scope`), its staged `changes` and `redo` stack, the
slices of other drafts (`parked`), the versions the canvas holds (`token`), per draft the save that
may have reached the server (`pending`), the snapshots in `localStorage` (`snap`) with their
debounce (`due`), and the running save (`call`). Of the server: `open` drafts, `doc[d][t]`, the keys
applied (`commits`). `wanted` and `madeOn` are history: the user's last edit of each entity, and
the draft and entity each edit was made on. The code's `filter` of a list is `Kept`: the elements at
the indices that pass, in their order (`InOrder`).

**Actions.** A JavaScript handler up to its next `await` is one step. `Edit`, `Discard` (with its
cascade to staged children), `DiscardAll`, `Undo`, `Redo`, `ResolveConflict`; `WriteSnapshot`,
`Reload`, `Evict`, `SwitchTo`; `Save`, its continuations `SettleLost`, `SettleRefused`,
`SettleApplied`, `SendApplied`, `SendFailed`; the server's `Replay` of a key it knows, `Apply`,
`Refuse`, `Violate`, and a request `Drop`ped; `OtherEdit` and `CloseDraft` by other people. A save that
finds a pending one with a different batch sends that one again first, under its own key, and
rebases the rest on the answer: this is what `NeverResent` and `NothingLost` are about.

**Names.** A canvas create has a temp id, and the server derives the entity's id from it, not from
the key (`_replay_minters`, `graph.py:4201`): a create sent again names the same entity. So a target
is one entity, and a create of one that is there is refused (`Exists`: `EntityExists`,
`service.py:9711`) and blocks every batch it is in until it is discarded. A staged child names its
parent as the canvas showed it when the child was made (`under`): by the temp id of a staged create,
or by the id of one that is there. A temp id means something only inside a batch that carries that
create; any other is an edge that would dangle (`Unresolved`). What a settled save created is put
into the *request* that follows it by its real id (`Resolve`); the staged change keeps the temp id. A
target is minted once (`minted`): making the thing again is another entity.

**Left out.** The review panel covers the canvas while a save runs, so there is no editing then. A
request is answered or dropped before the client gives up on it (150 s against the server's 120 s).
Another person's edit always meets the same field. The ontology refuses a batch every time it comes.
A closed draft stays closed. Copying edits to a new draft, applying layout changes on the published
graph, and a tab killed without its unload handlers. Hydration and the restore of a snapshot are one
step with the switch that causes them. Keys are numbers, and one that nobody holds any more is used
again. An edit that is sent again under another key meets its own earlier write as a conflict, where
the code's field merge sees equal values and lets it through. Restoring a deleted entity under its
old id (a create over a tombstone). The redo stack is kept only while a redo is left in the bound.
`Hasty` (FALSE in the passing runs) lets the draft be left while its snapshot is due or its save
runs; see section 8.

## 6. SessionRefresh: one browser's session

**State.** `jar` the cookies, `lock` the Web Lock; per tab the store's `status`, `booting`, the
session-lost `latch`, a request on its way with the cookie it carries (`asked`), the refresh in
flight (`chain`) and a request waiting for it (`joined`), a sign-out broadcast not yet heard
(`told`); the network; on the server the `rows` of `refresh_tokens`, access tokens, `tombstones`,
families `ended`, and `alarms`: families revoked as stolen.

**Actions.** `Ask`, `Reply` (a 401 joins or starts a refresh), `Unanswered` (no answer at all, which
a boot takes for no session), `Renew` (the keepalive), `Acquire` (the lock, and the check whether
another tab has renewed meanwhile), `Lose`, `Abort`, `Retry`, `Answered`, `Logout`, `LogoutDone`,
`SignOutLocal`, `Login`, `Reload`; the server's `Serve` (claim, replay inside the grace window,
rejection with the family's revocation, unknown token, logout); `Tick`, `RoleChange` (an access token
revoked), `GraceEnds`, `EndSession`.

**Time** is the events it brings. The grace window (30 s) of a consumed token may close at any moment
but one: while a request with that token is on its way, or a tab is between its first try and the
retry, or is granted the lock with the token still in the jar (`Refreshing`). That is what the code's
constants give: a try is given up after `REFRESH_TIMEOUT_MS` (20 s) and retried within
`RETRY_AFTER_MAX_MS` (5 s), so the retry leaves inside the window. It assumes that a request is
served or dropped within its window, that one given up is not served half a minute later, and that a
page is not frozen between its two tries. Nothing holds the window open for a renewal
that has yet to begin: after a reload `leadMs` measures what is left of the token's life and puts the
next renewal off by half a minute or more (`sessionKeepalive.ts:95`), a hidden tab's timers run once
a minute, and a boot comes when it comes.

**Left out.** Re-entry by SSO, CSRF repair, environment-scoped cookies, the server clock's offset,
permissions hydration, sessions of another browser. A login is one step. While a tab boots only
the boot's call and the keepalive are modelled. Every access token has its own expiry. After two lost
answers the chain ends and a later request tries again.

`torn` marks the two cases after which the browser may hold a token whose successor it never got: a
page left during a refresh of its own, and a refresh both of whose tries went unanswered. The next
renewal may then come after the window and is taken for a theft. `NoFalseAlarm` and `StaysSignedIn`
except these two and say that there is no third; section 8 has what the code says of them.

## 7. Runs

| run | instance | states | what it shows |
|---|---|---|---|
| `lease_import` | 1 import (2 batches, 1 window), 2 slots, a fault, a shutdown, a retry, fairness | 623 k | `SoleOwner`, `ExactlyOnce`, `CompletedIsWhole`, `PoisonBounded`, `ZombieStaysFenced`, `EndedIsQuiet`, `EveryJobEnds` |
| `lease_draft` | 2 imports of one draft, one from before the lease | 449 k | `OneImportPerDraft`, the inductive `LeaseInv`, `ImplementsContract` |
| `lease_export` | 1 export, 2 slots | 35 k | `ResultIntact` |
| `publish_review` | 1 draft, 2 reviews, 1 request | 608 k | `LandsWhatWasApproved`, `OneLivePR` |
| `publish_race` | 2 drafts, 2 requests, an import, the sweep | 498 k | `NothingLost`, `LandsOnItsBase`, `ImportHoldsDraft`, `ClosedIsInert` |
| `publish_retry` | 1 draft, 2 publish jobs, 2 slots, fairness | 467 k | `NothingLost`, `SquashedOnce`, `CompletedLanded`, `PublishingEnds` |
| `save_retry` | 1 draft; a parent and its child to create; 2 edits, a fault, 2 edits by others, 2 refusals, fairness | 89 k | `NeverResent`, `NoOrphan`, `SaveEnds`, `EverythingSaved` |
| `save_drafts` | 2 drafts; an entity and a layout pin; 2 edits, 1 redo, 2 faults, another's edit | 923 k | `NothingLost`, `DraftIsolated` |
| `session_keep` | 2 tabs, 2 expiries, 2 faults, fairness | 278 k | `OneActiveToken`, `NoFalseAlarm`, `StaysSignedIn`, `RefreshEnds` |
| `session_end` | 2 tabs, 2 sign-ins, an expiry, an end, fairness | 781 k | `EndReachesEveryTab` |
| `projection` | 2 entities, 2 passes, 1 read, 3 commits, a fault, a move, fairness | 634 k | `ServesMain`, `EvictionSparesReads`, `CatchesUp` |
| `find_stranded` | 1 draft, 2 edits, a fault, a refusal | | the finding of section 8 |

One run of each module also checks its `TypeOK`. A merge by a publish job takes the same steps as one
by a request, so reviews are checked with requests.

**Bounds and why they are enough.** Two slots (requests, passes, tabs) are an owner and a zombie; a
third zombie meets the same fence. Two batches and a window give every kind of cursor step.
`MaxRetries` 1 lets a job be taken over and then poisoned. `MaxTries`, `MaxStops`, `MaxRequeues` 1
let each mishap happen once before, between and after the others. `MaxHead` 2 lets a commit land
before and after an approval; `MaxMain` 1 lets main move under a draft from outside, and the
squashes move it further; `MaxEpoch` 2 lets a publish attempt be handed back twice. In
`publish_race` two edits are one staged and one committed. `Importing` and `Idling` name the drafts
that imports and the sweep touch, so that the other stays small. In `projection` three commits
(genesis, a full one, one more) give a window and a full replay, and a head that moves under a pass;
two entities let a pass stop half way. In `save_retry` two edits are a parent and its child, or a
creation and an edit between its save and the retry; three edits with one refusal and one edit by
another were checked by hand (184 k states; four minutes, most of it the temporal properties).
In `session_keep` two expiries are a token falling due and expiring, and two faults are both answers
of one refresh lost. Bounds are guards of the
environment's and the user's actions, never of a worker's, the page's or the server's own.

**Symmetry** is used over interchangeable constants in safety runs only.

**Deadlock.** The lease, save, session and projection runs say `CHECK_DEADLOCK FALSE`: with every job
ended, every edit saved, every tab signed out, or the read copy caught up and the bounds used, the
system may rest. In `DraftPublish` some process can always move, and deadlock is checked.

**Fairness.** `JobLease`: weak fairness of a slot's own steps and of its claim (`_slot_loop` polls
for ever), of the ageing of a row nobody renews (the clock), of Postgres settling a transaction,
and of the reaper's never-queued rule (it runs every minute). No fairness of crashes, faults, or
of `FailNotStarted`. `DraftPublish`: a process goes on (its waits for locks are bounded by
`GRAPH_LOCK_TIMEOUT_MS` and then refused), idle slots claim, the reaper's loop releases. Requests,
editors, imports and crashes have none. Shutdowns are bounded: a lane that is restarted for ever
in the middle of each attempt would not finish anything. `Projection`: the worker's poll, its
liveness check and its capacity loop run for ever, passes and evictions go on; a load is admitted,
which the code does for a graph pinned Always or one that is read. `StagedSave`: requests are
answered or time out, the page runs its continuations and timers; for `EverythingSaved` the user
keeps opening the draft, resolving conflicts in favour of the own edit, and pressing Save.
`SessionRefresh`: time passes, the server serves, a tab runs its timers; a tab in view polls its
permissions every minute (`permissionPoller.ts`), so it asks again and again. A tab that stays hidden
is outside what is claimed.

**Mutants.** Every property has a mutant of a mapped definition that violates it (`PROJECT.json`):
an epoch not bumped, a fence without its status, a checkpoint without its cursor, an up-to-date gate
dropped, a watermark a superseded pass does not lower, an eviction that does not look for reads
again, a discard without its cascade, a settled create sent as a create again, a refresh token
consumed twice, a lock not released, and so on.

## 8. Findings

`find_stranded` (a run): a save whose answer was lost had created a parent; the user stages a child
under it and saves again. The first leg settles the earlier save. The second names the parent by its
real id and is refused, here by the ontology. The catch then takes the parent off the staged list as
saved, and drops what the first leg assigned; the child stays staged and still names its parent by
the temp id. Every later save sends that temp id, which the server resolves only among the batch's
own creates, and is refused because the containment edge would dangle, until the user discards the
child. `saveStagedChangesToDraft.ts:158` says the staged changes stay put for a clean retry. It is the
only way a staged create loses its parent, for a page that is not left in a hurry and redoes nothing
(`ParentsKept`), and, through any one fault, the only thing that keeps it from saving everything
(`EverythingSaved`).

**Disagreements a configuration reproduces**, each kept apart from the passing runs, which have the
same interleavings and whose properties hold all the same:

| configuration | module | property | what happens |
|---|---|---|---|
| `FindClosed.cfg` | `MCDraftPublish` | `ClosedStaysClosed` | `merge_mr` (`service.py:4368`, `4407`) reads the review unlocked and writes `merged` over a review closed meanwhile; `close_pr` (`3845`) documents closing as terminal |
| `FindLivePR.cfg` | `MCDraftPublish` | `NoLivePRSurvives` | `open_draft_mr` (`4158`) reads the draft unlocked; a publish in between leaves a live review of a merged draft, which `_apply_draft_squash` (`1734`-`1736`) calls impossible |
| `FindReopened.cfg` | `MCDraftPublish` | `JobHoldsDraft` | a release whose snapshot predates a new publish job reopens the draft under that job (`2816`, against `import_export/service.py:653`); nothing is lost by it, the attempt squashes what the draft then holds |
| `FindReload.cfg` | `MCSessionRefresh` | `NoneIsAnAttack` | one tab, with Web Locks: the page is reloaded while its refresh is in flight, the server rotates, the cookies are lost with the page; the renewal after the boot is half a minute off (`sessionKeepalive.ts:95`) and presents the consumed token: the family is revoked. `refresh.py:20` says a rotation whose `Set-Cookie` never reached the browser is no attack |
| `FindResend.cfg` | `MCStagedSave` | `NeverResent` | a save K1 whose answer was lost is settled by the next save, which sends the rest under K2; what K1 carried stays staged until K2 is answered, and a reload in between brings it back with K2 as the only key (`saveStagedChangesToDraft.ts:168`). The save after it sends K1's creates again under a new key, against `saveStagedChangesToDraft.ts:134`; they are refused as existing, with everything staged beside them |
| `FindRedo.cfg` | `MCStagedSave` | `NeverResent` | undoing every change of a save whose answer was lost forgets its key (`useStagedDraftPersistence.ts:185`); redoing and saving sends the create under another, and it is refused as existing |
| `FindOrphan.cfg` | `MCStagedSave` | `NoOrphan` | undo a child, discard its parent, redo the child: the cascade (`stagedChangesStore.ts:346`) does not see the redo stack |
| `FindHasty.cfg` | `MCStagedSave` | `NothingLost` | leaving a draft inside the snapshot's debounce drops the write (`useStagedDraftPersistence.ts:207`), and coming back restores the older snapshot over the slice the store kept |
| `FindNoLocks.cfg` | `MCSessionRefresh` | `NoFalseAlarm` | without Web Locks (`fetchWithTimeout.ts:650`) two tabs rotate at once, and the cookies of the late answer are the older ones |
| `FindRestart.cfg` | `MCProjection` | `ServesMain` | FalkorDB restarts empty between a pass's verify and its marker (`projection.py:248`): the marker is written into an empty key, which is then served |

Read off the models and not asked of any run: the sweep may abandon a draft on which work was staged
after its snapshot (the staged rows are kept); a refresh both of whose tries go unanswered ends as
the reload of `FindReload.cfg` does when nothing asks again before the grace window closes; the boot
takes any failure for "no session" (`auth.ts:374`); and a key without a marker is judged by its
existence alone, so a snapshot taken in the middle of a first seed is believed.

Two more came out of the attempt to prove `ServesMain` beyond one fault, and are why it excepts
`stray = "lost"`. A pass that was superseded after its lock's connection broke, and whose process
then dies, never reaches `_yield_superseded` (`projection.py:689`), so nobody lowers the watermark
over its late writes. And `_drop_stale` (`residency.py:949`) takes no projection lock: it drops the
key under a superseded pass that is still writing, which then leaves a half-filled key with its
marker. The next pass repairs the key, but if FalkorDB had saved it in between and later restarts
from that snapshot, the marker vouches for what is not there.

## 9. Proofs

The theorems hold for any sets of jobs, slots, drafts, tabs, passes and entities and for any bounds
that satisfy each module's assumption: the natural numbers are natural, the sentinels are outside
the sets they stand beside, disjoint kinds are disjoint. Beyond that `JobLeaseAssumption` takes at
least one parse batch and at most one pre-lease import per draft, `SessionAssumption` one sign-in,
`ProjectionAssumption` a main past genesis, and `StagedSaveAssumption` finitely many drafts (a free
idempotency key is then always found). A theorem that needs more says so in its `ASSUME`.

| module | theorem | states that the specification satisfies |
|---|---|---|
| `JobLeaseProofs` | `TypeCorrect` | `TypeOK` |
| | `LeaseInvariant` | `LeaseInv`, the inductive invariant |
| | `SoleOwnership`, `WorkExactlyOnce`, `CompletedWhole` | `SoleOwner`, `ExactlyOnce`, `CompletedIsWhole` |
| | `OneImport` | `OneImportPerDraft` |
| | `FencedForGood`, `EndedStaysQuiet` | `ZombieStaysFenced`, `EndedIsQuiet` |
| `JobContractProofs` | `LaneImplementsContract` | `ImplementsContract`: the refinement of `JobContract` |
| `JobBoundsProofs` | `ClaimsBounded` | `PoisonBounded` |
| | `ExportIntact` | `ResultIntact` |
| `DraftPublishProofs` | `PublishTypes` | `TypeOK` |
| | `PublishInvariant` | `PublishInv`, the inductive invariant |
| | `PublishLosesNothing`, `PublishOnce`, `PublishOnBase` | `NothingLost`, `SquashedOnce`, `LandsOnItsBase` |
| | `ReviewBinds`, `OneLiveReview` | `LandsWhatWasApproved`, `OneLivePR` |
| | `CompletedMeansLanded`, `ImportHolds` | `CompletedLanded`, `ImportHoldsDraft` |
| | `ClosedDraftsInert` | `ClosedIsInert` |
| `SessionRefreshProofs` | `SessionTypes`, `RotationIsSingle` | `TypeOK`, `OneActiveToken` |
| | `OwnTabsRaiseNoAlarm`, `TabsStaySignedIn` | `NoFalseAlarm`, `StaysSignedIn`, where the browser has Web `Locks` |
| `ProjectionProofs` | `ProjectionTypes`, `EvictionIsSafe` | `TypeOK`, `EvictionSparesReads` |
| | `ReadsFindMain` | `ServesMain`, where FalkorDB is `Calm` |
| `StagedSaveProofs` | `TypeCorrect`, `DraftsIsolated` | `TypeOK`, `DraftIsolated` |
| `StagedSlicesProofs` | `ParentsKept` | `NoOrphan`, with `~Hasty` and no redo |
| | `NoEditLost` | `NothingLost`, with `~Hasty` |

The hypotheses are needed. `FindNoLocks.cfg` and `FindRestart.cfg` violate the two properties without
`Locks` and `Calm`. In `StagedSave`, `~Hasty` says the tab does not leave a draft while its save runs
or its snapshot is due; without it `FindHasty.cfg` violates `NothingLost` (for `NoOrphan` it is what
the proof uses). No redo is `MaxRedos = 0`: with one, `FindOrphan.cfg` violates `NoOrphan`. `NoEditLost`
needs neither that nor a bound on faults: creates refused as existing, reloads between the two legs of
a save and stranded children block a save, but lose no edit.

**JobLease.** `ExactlyOnce` is not inductive: that a commit lands on the right unit needs to know
that the lease's remembered cursor is a real one, that an in-doubt commit is of the unit after the
cursor and of a running row, and that nobody runs a job with pre-lease rows. The inductive invariant
is `Inv == TypeOK /\ LeaseInv`, where `LeaseInv` conjoins `OwnerInv` (a lease's epoch is one its row
has reached), `SoleOwner`, `CursorInv`, `LimboInv`, `PreLeaseInv`, `ExactlyOnce` and `CompletedInv`.
Every action is shown to be one of four kinds of step: *quiet* (statuses and slots change, cursors
and work do not), *claim* (an epoch nobody holds is taken), *land* (a unit and its cursor together)
and *doubt* (a commit sent). One lemma per kind shows that it preserves `LeaseInv`, and one per
action which kind it is. The two action properties follow from `Inv` because epochs only grow and
every write through a lease is fenced. `OneImport` has an induction of its own over the status of
the rows of one draft.

**The refinement.** Under `Inv` the work of a job is the units up to its cursor, once each
(`WorkIsPrefix`), so a commit that lands, whether acknowledged, in doubt or resolved later, is the
contract's next unit; creating, finishing, failing, retrying and cancelling are its other steps; and
a claim, a heartbeat, a takeover, a shutdown or a crash is one nobody outside can see.

**Bounds.** `ClaimsInv` pays for every claim: the epoch is at most the retries' allowance, plus the
takeovers counted since, plus shutdowns, plus one for a running row whose owner is not draining.
`PoisonBounded` follows with the limit `_failed_in_place` puts on the takeovers. `FileInv` says an
attempt that is about to finish has its file under its own epoch's key, and that nobody runs the
attempt a completed export names; since an attempt writes only its own key, no other can touch it.

**DraftPublish.** All the safety properties but one are conjuncts of one inductive invariant.
`PublishInv` adds what they rest on: `NamesInv` (rows in use and processes at work name a draft),
`BaseInv` (no draft is based on a main to come), `GivenInv` (a draft's staged and committed changes
are what it was given less what was withdrawn, and no edit is on two drafts), `MergedInv` (a merged
draft has nothing staged, and what it committed is what main has of it), `AttemptInv` (an attempt
stays on its job, draft and review, and one that is done has its draft merged) and `ReviewInv` (an
approval at least as new as the draft's content is of the draft as it is, also in the copy of the
review `merge_mr` read without its lock). `ClosedIsInert` is proved from it action by action: the
two statements that judge a draft in an older snapshot look at the row's own status again.

**SessionRefresh.** `OneActiveToken` needs only that rows are added by `Serve`'s claim, which
consumes the row it rotates, and by a sign-in into a family of its own (`FamilyInv`). The other two
rest on `RefreshInv`, which speaks of the states in which nobody has ended the session and nothing
is `torn`: `LiveInv` (no row is revoked, and no message would end the session), `LockInv` (only the
lock's holder posts, and it waits for one answer at a time), `TokenInv` (the token in the jar and
those on their way are inside their grace window, and the successor a tab can be told is still
unused) and `ChaseInv`: while the token in the jar has been presented, the tab that presented it is
still at it, and only a second try may see the window close behind it. So no renewal starts from a
token that was consumed before; a page left in that state, or a second answer lost, is what breaks
it.

**Projection.** For `EvictionSparesReads`, `EvictInv`: while the evictor is between its mark and its
drop the graph stays out, so no read is routed after the mark, and no pass that began before it can
publish, since the row's epoch has moved on (`EpochInv`, `OutInv`). This holds with FalkorDB
restarting at any moment. For `ServesMain`, `ServeInv` adds three parts. `SeqInv` and `TurnInv`:
passes follow one another; the one the row belongs to began last and from the watermark, and one
that still has its lock is the last to have begun. `KeyInv` is the heart: every write gives an
entity the value it has at the writer's target, so with watermark `n` the key is right for each
entity that has not changed since `n` and that no superseded pass is still to rewrite (`Spared`). A
superseded pass takes its entities out of `Spared` until it lowers the watermark to where it began,
which takes them out of the watermark's promise instead; a pass that owns the row and is done has
put back both. The key is dropped only while the graph is out, at watermark 0, where nothing is
promised. At the head's watermark with nobody superseded the promise is the whole of `main`.

**StagedSave.** `TypeCorrect` rests on lemmas about the filter: `Kept` of a sequence is a sequence,
of the elements whose index passes, each once and in order. That such a listing exists needs no
induction: the `k`-th index is the one with `k` of the set up to it (`InOrderFacts`).
`DraftsIsolated` holds for any page, hasty ones included: `IsolationInv` says that every change, in
whichever list, save, snapshot or request, carries an edit made on the draft that holds it.

The others look at one draft at a time, through what the page would find if it came back to it
(`Held`, `HeldSave`, `HeldRedo`: the canvas's, the slice the store parked, or the snapshot's). A
page that is not hasty may reload or leave at any other moment and finds the same (`MovesOnly`), and
that is what carries every invariant through `WriteSnapshot`, `Reload`, `Evict` and `SwitchTo`.
`SavingInv` is the common base: `PageInv` (a draft's slice and its snapshot agree unless a write is
due), `SlicesInv` (one staged change per entity, on versions no newer than the draft's; what was sent
or applied under the pending save's key is what that save says), `CanvasInv` (the canvas is never
ahead of the draft), `LiveInv` and `CallMade` (whose request and whose edits the running save's are)
and `PanelInv` (the running save is the pending one of the list it shows, and its answer is true).

`ParentsKept`: `RootInv`, every staged create that names its parent by id has it on the draft, and one
that names it by temp id has its create staged before it, or is of a parent that is on the draft.
The cascade of a discard takes the children with the parent, an undo takes the last change, and what
a settled save takes off the list is on the draft.

`NoEditLost`: `LossInv` says that an edit still wanted is staged, or has *landed*: it is the draft's,
and no request still on its way can write over it: an update is of an older version, and meets a
conflict; a create is of an entity that is there, and is refused. The pending save is then not about
it, and if it was applied, what it sent has landed. `CallLoss` says the same of a running save: what
it does not send was in the one settled before it, and has landed.

**TLC first.** `LeaseInv` is a property of `lease_draft`. The other inductive invariants were
checked on the runs' instances before they were proved, and those of `Projection` on larger ones:
`ServeInv` with 2 entities, 2 passes, 3 commits, 2 faults and a move (1.2 M states) and with 4
commits and 2 moves under one pass (9.2 M states), both complete, and `EvictInv` without `Calm` (21
M states, not complete). `ServesMain` as first written failed there, with two faults; the two cases
of section 8 are what that found; the second case of `torn` was found the same way, from `RefreshInv`.
The invariants of `StagedSave` were checked on the instances of both runs and on smaller ones with
more faults, redos, drafts or other people's edits, and `RefreshInv` on that of `session_keep`.

**Only model-checked.** Liveness under fairness, which is out of the prover's reach: `EveryJobEnds`,
`PublishingEnds`, `CatchesUp`, `SaveEnds`, `EverythingSaved`, `RefreshEnds`, `EndReachesEveryTab`.
Of the safety properties of the passing runs one has no proof, `NeverResent`: it holds of a page that
redoes nothing through any one fault (`save_retry`), and two break it (`FindResend.cfg`). The others
are proved, those of `StagedSave` under hypotheses that the run which checks them satisfies.

## 10. Plan

Done: `JobLease` with its contract and proofs; `DraftPublish`; `Projection` with residency;
`StagedSave`; `SessionRefresh`.

To model, most important first:

1. **Lifecycle** in `DraftPublish`: freeze, trash, restore and purge with `_lock_lifecycle`.
2. **ThreeWayMerge**: the field merge as operators, against a reference definition on small trees.
3. **Upload**: the import's upload against the reaper and `reclaim_import`.
4. **GraphCache** and **ProviderState**, and the front end's request resilience and polling.
5. **Forks**, bootstrap, aggregation and insights.

Theorems next: each extension's safety properties by extending the invariants above (`PublishInv` by
a lifecycle conjunct), `ThreeWayMerge`'s operators by lemmas on records, and `NoOrphan` for a hasty
tab.

## 11. Not modelled

Query translation and the graph providers (I/O), search and views (reads and CRUD), authorization
and SSO (request-time look-ups), endpoints (thin; the ones that matter are the services' actions),
migrations and deployment. Merkle roots, ontology validation and node identity are sequential
computations; a refusal by them is a `Refuse` or a `Violate`.

Most of the repository's TypeScript is presentation: the canvas and its lens (rendering and layout
geometry), pages, tables, admin forms and onboarding wizards over REST calls. They read state and
draw it, and what they change goes through the staged store, the save and the request layer, which
are modelled. A model of them would restate layout code with no state of its own to check.
`PROJECT.json` lists each part with its reason.
