# Fathom: a TLA+ model of the core, its agents and what they share

Fathom keeps a catalogue of the files of an estate.  Agents scan the volumes of
their hosts, stage what they find in SQLite and push it to the core, which
reconciles it with the catalogue, logs churn, computes rollups and groups
duplicates.  An operator may have an agent quarantine, move or delete files: the
core signs a job, the agent pulls it, verifies it and acts, and every step is
written to a hash-chained audit log.  The same pull pattern carries previews and
directory listings.  The core also deploys agents, keeps accounts, scoped grants
and runtime settings, hands out slots for heavy scans and raises alerts.

This directory models the parts in which several actors share state.  Source
paths below are relative to `src/src/fathom/`.

## Inventory

| Component | State | Operations | Talks to | What is hard |
|---|---|---|---|---|
| Audit chain and store (`core/audit.py`, `audit_store.py`) | `remediation_audit` rows (seq, prev_hash, row_hash), checkpoints | `build_persistent_chain`, `append`, `splice`, `append_durable`, `verify_chain`, `write_checkpoint`, `verify_latest_checkpoint` | every route that audits, in its own transaction | concurrent writers resume the same head; rows are flushed late; retries; gaps in seq |
| Job channel (`core/remediation/`, `api/routers/agent_jobs.py`, `agent/actor/listen.py`, `listener.py`, `dispatch.py`) | per-host queues, futures and their correlation in memory; `used_nonce` in core, SQLite ledger in the agent | enqueue and wait, poll, verify, run, post, resolve, time out | orchestrator and `scan_now` enqueue; agents poll and post | expiry against claims, late and repeated results, restarts of either side, two operators |
| Actor (`agent/actor/executor.py`, `planner.py`) | the host's files, quarantine directory, append-only act log | dry run, recheck, quarantine, delete, move (link, unlink, roll back), log | called by the listener | other users change files between system calls; any call may fail; the agent may die |
| Agent scan cycle (`agent/runner.py`, `agent/reader/`) | baseline, batches in memory | full walk, re-stat feed, full-bit funnel | staging store, push client | files change during the walk; failures are swallowed per scope |
| Staging and push (`agent/staging/store.py`, `agent/transport/push.py`) | `staged_entry`, `staged_removal`, `scan_run` | stage, stage removals, stage hash, drain, mark pushed | core ingest over mTLS | lost responses, crashes between acknowledgement and mark, rows moving between runs |
| Ingest and churn (`core/ingest.py`, `incremental.py`) | `fs_entry`, `change_log`, `snapshot` | upsert, reconcile, mark removed | called by agents, one transaction per batch | repeated and reordered batches; presence and hashes are set by different modes |
| Finalize (`core/finalize.py`, `rollup.py`, `dedup_service.py`) | rollups, `size_history`, snapshot totals, `dup_group` | recompute stale volumes, rebuild the groups | called by the agent after a drain | staleness decided by comparing clocks; several statements per transaction while other hosts push and finalize |
| Scan coordinator (`core/scan_coordinator.py`) | `scan_lease` | request, expire, grant or defer, release | agents before a run, run report after it | count and grant are two statements; agents that stop waiting or vanish |
| Remediation plans (`api/routers/remediation.py`, `core/remediation/plan.py`) | plan rows, status, idempotency keys | build, replay, dry run, execute | orchestrator, audit, catalogue | repeated and overlapping requests; a catalogue that lags behind the disk |
| Organize, reconcile (`core/organize`, `core/reconcile`) | none of their own | propose and plan moves; compare two folders | plans, catalogue | six statements over rows that scans change; limits on sides and lists |
| Previews and live browse (`preview/`, `workers/preview.py`, `agent/preview_serve.py`, `agent/browse_serve.py`) | per-host grant queues, futures, render slots, encrypted cache | resolve, gate, look up, mint, poll, verify, read, serve, render, record | agents, sandbox | timeouts against late answers, single-use grants, files that change, slots that must come back |
| Deployment (`core/deploy/`, `api/routers/deployment.py`) | run registry, SSH slots and sessions, enrollment tokens | deploy phases per host, probes, issue, fetch, redeem, drain | SSH, agents, audit | single use, partial failure, cancellation by a shutdown |
| Authentication (`auth/`, `api/routers/auth.py`, `admin_users.py`) | accounts, role assignments, sessions, second factors | login, logout, enrol, verify, create, grant, revoke | every route; settings store for secrets | two rows and a secret in one transaction, several processes, checks that a rival's commit makes stale |
| Settings (`core/settings_store.py`, `workers/settings_refresh.py`) | overrides and a version row, a copy per process | set, clear, publish, refresh | every route | published before the commit; stale reads installed over newer writes |
| Notifications and watch (`core/notifications.py`, `core/watch.py`, `workers/watch.py`) | notification rows | evaluate, emit (coalescing by key), mark read | run reports, ingest | one transaction for all alerts; alerts read while their cause persists |
| Queries, web API, concierge, backends, adapters, path checks | none that the others share | | | I/O, text or read-only |

What makes each of them correct is stated by the properties under Runs.
`PROJECT.json` lists each part with the modules that cover it and, under `hazards`,
the places where the code is exposed to an order of events that a test hardly
reaches.

## Modules

| Module | Models | Uses |
|---|---|---|
| `AuditLog` | what readers of the audit log are promised: a request's records appear all together, in order, or not at all | |
| `AuditStore` | the store and the transactions that write it | refines `AuditLog` |
| `AuditCheckpoint` | signed checkpoints and changes made behind the application | extends `AuditStore` |
| `AuditStore_proofs`, `JobChannel_proofs`, `ActorExecutor_proofs`, `ScanPipeline_proofs`, `Deployment_proofs`, `RemediationPlan_proofs`, `FilePull_proofs`, `AccessControl_proofs` | the theorems about the module each is named after (and about `AuditCheckpoint` and `Reconcile`) | extends that module |
| `JobChannel`, `MCJobChannel` | operator requests, queue, ledgers, agents, network | |
| `ActorExecutor`, `MCActorExecutor` | one host's executor, its files, other users | |
| `ScanPipeline`, `MCScanPipeline` | one volume from disk to duplicate groups | |
| `Catalogue`, `MCCatalogue` | snapshots, rollups and duplicate groups of several hosts | |
| `FilePull`, `MCFilePull` | previews and live browse | |
| `Deployment`, `MCDeployment` | deploy runs, probes, enrollment | |
| `Reconcile` | comparison of two folders | |
| `RemediationPlan`, `MCRemediationPlan` | plans over duplicates and moves | extends `Reconcile` |
| `SettingsStore` | overrides, secrets and their copies | |
| `AccessControl`, `MCAccessControl` | accounts, grants, sessions, second factors, and the requests that write settings | extends `SettingsStore` |
| `Fleet`, `MCFleet` | scan coordinator, run reports, watch worker | |

An MC module gives the constants of its module their values.  A definition whose
comment begins with "Faulty variant" or "Mutant" is not part of any
specification: it is what the definition below it would be with a plausible bug,
kept to see that a property notices.

### AuditStore

Each member of `Req` is one HTTP request with one database transaction.  `table`
holds the committed rows, `ins[r]` the rows that r's open transaction inserted,
`staged[r]` those only added to its session, `head[r]` the head its `AuditChain`
holds in memory.  A hash is the sequence of records it commits to, which makes
`compute_row_hash` injective and nothing more.

| Action | Code |
|---|---|
| `Begin` | `build_persistent_chain`: the committed head is read once |
| `AppendRecord` | `AuditChain.append`, `splice`: `session.add`, the private head advances |
| `Act` | the audited operation, before the flush (`execute_route`) or after it (routes that flush first) |
| `StartFlush`, `FlushRow`, `FlushConflict` | the flush, row by row; an INSERT that collides with a committed row raises, one that collides with an uncommitted row waits |
| `Commit`, `Rollback` | `session_scope` and `db_session` |
| `DurableLoad`, `DurableInsert`, `DurableRetry`, `DurableGiveUp` | `append_durable` and `_splice_record_durable` |

`SeqBurns` selects how `seq` is generated: PostgreSQL's sequence keeps values
drawn by failed INSERTs, SQLite takes the largest rowid plus one.

`AuditCheckpoint` adds `WriteCheckpoint` and `verify_latest_checkpoint`, and
someone who deletes or rewrites rows (with a fresh hash, if they like) but cannot
sign.

### JobChannel

A request is a member of `Op`; a job is a request and a mode, which stands for
the fresh job id and nonce.  `queue`, `awaiting` and `future` are the fields of
`JobQueue`, lost when core restarts; `dbNonce` is core's `used_nonce` table and
`ledger` the agent's, both durable.  `handling` holds posts between the ownership
check and the resolution, with the insertion of the nonce in between, so a
timeout may fall there.  `FinishPost` resolves the future while the transaction is
still open (`settling`); `CommitPost` is the commit of the session dependency after
the route has returned.  If it fails (`CommitFails`), or core dies before it, the
nonce is gone (`lost`) although the request has its result.  Time is a clock up to `MaxClock`, the last value standing
for all the time after it.  `net` may lose a post or deliver it again; `Replay`
puts a signed job that was on the wire once before any agent again.  `file` is
what the plan's items look like on each host.  A scan whose root is out of scope
or that raises is dropped like a job that fails (`ScanRaises`).  `setup` is the
scenario, chosen at the start: core's signing key, if it has one, the key each agent
pins, the hosts whose listener has no write path, which requests are Scan Now, and how
many faults there may be.  Where the keys differ the agent drops every job without a
word, and the dispatch has to end by its timeout; without a key core issues none.

### ActorExecutor

A file system is three maps from names to inodes: the plan's paths, the
quarantine directory, the destinations.  `pc` walks through `_act` with a step
per system call; `OtherUser` and `Crash` may come between any two.  Every call
that the code guards may fail, and those it does not guard (opening the parent or
the quarantine directory, writing the act log) end the batch, as in the code.
`did` and `disowned` are history variables.  The plan is a set of paths, `Rank` the
order of its items, and `todo` the items that are left; the current one has the
least rank.  The constant `prior_inode` is injective because the catalogue has one
row per inode (`uq_fs_entry_identity`), and files that appear during the run have
inodes of their own: an inode number that is freed and given out again while a plan
runs is not modelled.

### ScanPipeline

| Step | Code |
|---|---|
| `StartCycle`, `Visit`, `Flush`, `FinishWalk` | `_scan_one_scope`, `MetadataScanner.scan` |
| `StartCycle`, `Visit`, `StageDelta`, `StageRemovals` | `RestatFeed.changes`, `collect_delta`, `IncrementalScanner.scan` |
| `scan_one_root_now` | Scan Now and the scheduled refresh: a forced full walk |
| `HashPartial`, `FinishPartial`, `HashFull`, `FinishFull` | `_run_fullbit`, `FullBitScanner` |
| `NextChunk`, `Ack`, `GiveUp` | `PushClient.drain`, `push` |
| `Ingest` | `IngestService.ingest`, `ChangeReconciler` |
| `Finalize` | `finalize_host` (duplicate groups) |
| `SkipEntries`, `HashSkips` | an OSError swallowed at the root, a directory or an entry (`posix.py:136`, `227`, `245`), or at a file to be hashed (`fullbit.py:276`) |
| `should_block_fullbit`, `ScanFails`, `Crash` | a blocked pass, a failing scope, a dying agent; staging survives |
| `Users` | external: files are written, replaced, renamed, removed |

All files have the same size, so the mtime carries what the staging guard
compares; a full hash is the content itself, a partial hash a function of it.
Run ids that no unpushed row refers to are reused, which keeps the state space
finite without a bound on the number of cycles.  `clean` and `exact` are history:
they record that a cycle ran from start to finalize while the disk stood still and
no error hid a file.
`Missed` marks the files whose last change the code cannot see (a rename or a
return that keeps the mtime, a file under a reused inode while full-bit is on), and
`LostBySkip` those that an error hid from an incremental walk although their row was
up to date: the walk's silence is a DELETE, and no later walk takes it back.
`odd` holds both and the properties leave them out; with full-bit off a new mtime
takes a file out of `odd` again.  See `scan_skip` and Observations.

### Catalogue

A batch is a transaction that creates or continues a snapshot and becomes visible
with its commit.  A finalize reads the entries of a stale volume, replaces its
rollup and point of history, closes snapshots, deletes the groups it sees and
builds new ones, with a step per statement; each step sees what is committed then,
so a batch or the finalize of another host may fall between any two.  A rollup
remembers the snapshots it is younger than, which stands for `computed_at`.
`settled`, `alone` and `undisturbed` are history.

### FilePull

`queue`, `future` and `awaiting` are the two rendezvous of the core
(`PreviewPullQueue`, `BrowsePullQueue`), `permits` the slots of `PreviewQueue`,
`cache` the `EncryptedLruCache` in order of use, `meta` the `preview_cache_meta`
rows.  The route is a program counter per request: resolve, take a slot, look up,
mint and wait (or read locally), render, record, commit.  An agent has a serve
loop per kind and a durable nonce ledger.  A grant is what `FileGrant` signs; the
request stands for its nonce.  Content is a model value, a hash the content, and
a rendering the content it was made from.  `cache` is a sequence because the order
decides which artifact is evicted; a key has at most one place in it.

### Deployment

A deploy run is a background task with a child per host: slot, connect, mint,
upload, image, compose, verify, close.  Any step may fail, the close too.  `Stop`
begins a shutdown and `CancelStragglers` is the end of its grace period: a cancelled
child keeps slot and session until its close has returned (`EndCancelled`,
`CloseRaises`), while `gather` is already done with the first that has ended
(`Gathered`).  `Crash` loses everything in memory.  `log` is the
audit log.  Tokens are issued, expire, are fetched (`FetchImage`) and are redeemed
for one bundle, in the order redeem, record, serve.

### Reconcile and RemediationPlan

`Reconcile` has the catalogue rows, and a comparison as the statements it
consists of: the size check of each side, three counts and the three samples that
are cut at `MAX_ITEMS`.  `RemediationPlan` adds the disk, the requests that build
plans of duplicates and of moves, and those that dry-run and execute them.  A
build reads the key, drafts, flushes (the INSERT waits for, or collides with, a
rival's key or audit row) and commits.  An item is rechecked and acted on in one
step here; `ActorExecutor` takes that step apart and `JobChannel` carries it.
Users rename and edit files and scans update rows late.

### SettingsStore and AccessControl

Each process holds a copy of overrides and version.  A request writes in its
transaction, publishes to its own process at once and commits or rolls back
later; the worker of every process reads the committed rows and installs them in
a second step.  The version row is locked by the first writer.  `AccessControl`
adds the tables of accounts, assignments, sessions and second factors, the
principal of a request, and its handlers as open, apply, commit or roll back.
Of `auth/scope.py` it has the filter that admits a request.  A named secret may be
that of a second factor; the history `named` has the ones administrators wrote so.

### Fleet

`ask[h]` is a lease request between its decision and its commit, `lease[h]` the
newest lease row of a host, `last[h]` its newest run report.  Agents ask, scan
(also when they stopped waiting), report or vanish.  The watch worker evaluates
its rules, emits and commits; `bell[k]` counts the unread alerts of a key.  Time
is the pair of actions that make a lease old and a report stale.

## Runs

All runs together take about twenty minutes with two workers.

| Run | Shows | Bounds |
|---|---|---|
| `audit_store` | the chain never forks, at most one transaction writes at the head, readers see all or nothing, the log only grows, every request ends | 2 staging and 1 durable request, 2 records each, 2 attempts; both orders of act and flush; 46 820 states |
| `audit_checkpoint` | on SQLite an untouched log always verifies and a harmed anchored prefix never does | 3 requests of 1 record, 2 changes behind the application; 483 308 states |
| `job_channel` | single use, no crossed results, no file acted on twice, ledger and dispatch agree but for an open or failed commit, no start after a timeout, every dispatch ends | 2 requests for one of 2 hosts, 2 items, 1 file change: two executes (one with confirm_blast), or an execute and a Scan Now with 1 replay, 1 crash or failed commit and four provisionings; fairness; 235 657 states |
| `executor` | acts are logged first, statuses are true, no reversible step takes a file's last name | a plan of eight items covering every action and name collision, deletion on and off, 1 change by another user, 1 crash, every call may fail; 179 942 states |
| `scan_pipeline` | pushed means ingested, churn balances, an undisturbed cycle without errors makes the catalogue exact, duplicates are found, the catalogue catches up, but for `odd` | 2 files, 2 contents, 2 names, POSTs of 1 entry, up to 2 changes, 1 fault and 1 forced walk, 3 of them together, any number of cycles, full-bit on and off; 842 580 states |
| `scan_skip` (violation) | a file that an error once hid from an incremental walk stays absent although later walks see it, against `core/incremental.py:14` | 1 file, no change, 1 fault, fairness |
| `catalogue` | a finalize that was answered leaves exact totals; a rebuild that nothing overlaps leaves exactly the right groups, whatever was there before | 2 hosts, one with a network mount, 3 files, 3 snapshots, 1 fault; 1 563 790 states |
| `file_pull` | previews and the cache show the content of their hash, slots come back, no agent starts on a grant whose request gave up, every request ends | 2 previews of copies, or a preview and a browse; 1 slot, 1 cached artifact, local and distributed; 2 disturbances (write, rescan, crash, replay); 781 746 states |
| `deployment` | every identity that leaves the core is in the audit log and a token gives one, results are final, nothing that ended holds a slot or session (after its run only a host that a drain cancelled and that is closing), runs end | 2 runs of 3 hosts on 2 slots, or a run, a probe and a token fetched twice, or two tokens; 2 failed appends, crashes or shutdowns; 536 273 states |
| `remediation_plan` | one plan per key, the keeper survives, a comparison is right about the paths scans left alone | 3 builds with a key of two principals; a dedup and a move plan with two runners; a comparison and 3 changes or scans; 1 987 567 states |
| `access` | the memory of every process converges to the committed settings, every second factor has its secret unless an administrator named it | 2 processes, a request of any kind beside a writer of a setting, a named secret or an enrolment, 1 fault; 436 516 states |
| `fleet` | the lease of a host that vanished ends; an alert whose cause persists is shown again however often it is read | 2 hosts, 1 heavy slot, coordinator or watch worker on, 1 fault, 1 host that vanishes |

Three requests are enough for the audit store because a fork needs two and a
third shows the waiting chain; MaxRetries 2 makes both the retry and the giving
up happen.  In the job channel the hazards are pairwise (a job and a replay, a
result and a timeout, two requests), and so they are between two previews, two
builds, two settings writers and two hosts that ask for one slot.  The executor
run was also done with two consecutive jobs (`MaxRuns = 2`, 5.5 million states)
with the same outcome.  In the scan pipeline two files are what a duplicate and a
chunk boundary need, two changes what a removal and a return need, and one fault
can hit any step; it was also run with a fault and a forced walk on top of the
two changes (1 653 264 states) and with three changes (1 318 096 states).  In the
catalogue three files of one size give a group with an alias and one without, and
three snapshots a volume that is scanned again after another host's rebuild.
A comparison with both limits at 1 meets every boundary with two rows.

`catalogue` and `access` turn the deadlock check off: both systems stop once the
bounded batches or requests are over.

### Fairness

- `AuditStore`: weak fairness of each request's own steps: the event loop keeps
  running a request that can run.  Starting a request and rolling back are not fair.
- `JobChannel`: time passes, core's loop runs finished futures and timers, and the
  listen loop polls and finishes what it claimed.  Nothing makes a post arrive.
- `ScanPipeline`: the scheduler keeps starting ordinary cycles and a cycle runs
  on; forced walks, users and faults are not fair, and faults are bounded.
- `FilePull`: the core's event loop runs what is ready and grants expire.  No agent
  need ever poll and no post need arrive.
- `Deployment`: coroutines that can run do, SSH commands end (by their timeout, if
  nothing else), transfers and closes do although they have none, the service manager restarts the core.
- `AccessControl`: every process runs its refresh worker, and a handler that was
  entered runs to its end.
- `Fleet`: core finishes its requests, the timers of agents that are not gone fire,
  time passes, the worker loops.  Faults, reading of alerts and vanishing are not fair.

## Proofs

Eight modules hold the theorems.  They are about every value of the constants: any
number of requests, hosts, files, runs and retries, and any bound on faults.  Each
follows one pattern: an inductive invariant `IInv`, a lemma that the initial states
satisfy it, one lemma per part of the invariant (or per action, in `AuditStore`) with
a case for each action that touches what it talks about, and the properties as
consequences.  TLC checked every inductive invariant on the instance of the
corresponding run before it was proved.

Where an argument needs an induction over data (the chain behind a hash, the rows up
to a position, the rows that a LIMIT takes, the oldest run of the staged rows) it is made by
the least counterexample: `LeastOf` says that a set of naturals that is not empty has a
least element (from `WFMin` of the library), and the numbers for which the claim fails
are shown to have none.

| Theorem | Property | Module |
|---|---|---|
| `TypeCorrect` | `TypeOK` | `AuditStore` |
| `ChainIsUnbroken` | `ChainUnbroken` | |
| `OneWriter` | `OneWriterAtTheHead` | |
| `LogIsAppendOnly` | `AppendOnly`, of steps | |
| `RequestsAreAllOrNothing` | `AllOrNothing`, the refinement of `AuditLog` | |
| `TamperingIsCaught` | `HarmIsCaught` | `AuditCheckpoint` |
| `CleanLogsVerify` | `CleanLogVerifies`, where seq has no holes | |
| `JobTypes` | `TypeOK` | `JobChannel` |
| `JobsAreSingleUse` | `SingleUse` | |
| `ExecutionsAreTrue` | `ExecutedMeansDone` | |
| `FilesAreActedOnOnce` | `ActedOnOnce` | |
| `LedgerIsExact` | `LedgerMatchesDispatch` | |
| `NothingStartsLate` | `NoStartAfterGiveUp`, of steps | |
| `ExecutorTypes` | `TypeOK` | `ActorExecutor` |
| `ActsAreLogged` | `EveryActIsLogged` | |
| `StatusesAreTrue` | `StatusIsTrue` | |
| `PlanFilesAreKept` | `PlanFilesKeepAName`, of steps | |
| `PipelineTypes` | `TypeOK` | `ScanPipeline` |
| `NoPushIsLost` | `PushedIsIngested` | |
| `ChurnAddsUp` | `ChurnBalances` | |
| `IncrementalCycleIsExact` | `CycleMeansExact` | |
| `FunnelFindsDuplicates` | `DuplicatesAreFound` | |
| `IdentitiesAreKnown` | `IdentityIsRecorded` | `Deployment` |
| `ResultsAreFinal` | `ResultIsFinal` | |
| `NothingIsHeld` | `EndedHoldsNothing` | |
| `KeysNameOnePlan` | `OnePlanPerKey` | `RemediationPlan` |
| `KeepersSurvive` | `KeeperSurvives` | |
| `ComparisonsAreExact` | `ComparisonIsExact` | `Reconcile` |
| `PreviewsShowTheirHash` | `PreviewShowsItsHash` | `FilePull` |
| `SlotsAddUp` | `SlotsAreReturned` | |
| `NoLateReads` | `NoReadAfterGiveUp`, of steps | |
| `SecretsFollowRows` | `EnrollmentHasSecret` | `AccessControl` |

### AuditStore and AuditCheckpoint

The only assumption is `AuditConstants` (the kinds of the constants).
`ChainUnbroken` is not inductive: that a row may be inserted depends on what the
writer knew when it read the head.  The inductive invariant `IInv` has two halves.
`WInv` is what the writers keep whether or not the log is a chain:

- `Ordered(table)`: the table is finite, no two rows have one seq and there is a row
  with the largest one (`HasTop`, which gives `load_head` its meaning);
- `SeqsBelow`: every seq in use is below the next one;
- `WriterOK(r)`: if r has uncommitted rows nobody else has, they come after all rows of
  the table, and one of them continues its head, so that everybody else's INSERT waits;
- `BaseOK(r)`: the hash r is about to continue is the head or has a successor in the
  table.  This is what makes `UNIQUE(prev_hash)` sufficient: a stale writer names a
  hash that is continued, so its INSERT collides;
- `PhaseOK(r)`: the rows in a session form a chain that ends in the request's own
  head, and what each program counter implies.

`Chained` says that the table, also with the rows of an open transaction, verifies.
`Extend` and `ExtendChain` (a row at the head of a log gives a log, of a chain a chain),
`InsertAtHead` and `InsertKeeps` (an INSERT that neither collides nor waits is at the
head) carry the argument; there is one lemma per action, and `NextKeeps` puts them
together.

The refinement needs to know what the rows of a transaction are.  `RInv` says of each
request that has not ended that the rows it inserted make the committed head longer
by the first `Written(r)` of its records, and that its session holds the rest in
order.  `InsertExtends` is the step: the hash of a row that is inserted at the head
commits to one record more.  A commit is then `Publish` of `AuditLog`, and
every other step leaves what a reader sees unchanged (`StepRefines`).

The split is what the checkpoints need: rows that someone deletes or rewrites break
`Chained`, but `WInv` survives (`TamperKeeps`), so requests keep writing at the head of
whatever is left.  `CInv` adds `Anchor` (a checkpoint whose signature holds names the
head of the rows that were anchored) and `Untouched` (while nobody tampered, the table
is a chain, on SQLite has every seq that was given out, and has the anchored row).
`SameHead` is the heart of `TamperingIsCaught`: two chains with the same head have the
same records and hashes, because a hash commits to the one before it; it goes by the
least length of a hash for which this fails.  `PositionOrder`, `FirstRowsAre` and
`PositionTaken` say of `records[cp.seq - 1]` that positions follow seq and that each up
to the number of rows is taken, by one row.  `CleanLogsVerify` needs in addition that
seq has no holes (`DenseKeeps`), hence its hypothesis `~SeqBurns`: on PostgreSQL the
property does not hold, see Observations.

### JobChannel

Assumed: the kinds of the constants (`MaxClock` is at least 1, where the clock
starts).
`SingleUse` rests on `NonceFirst`: a job that has run is on the ledger of its host,
and an agent that has verified a job has its nonce recorded and has not run it.
`ResultsTrue` follows a result from the agent over the network and the handler into
the future: at every place it is what the run did, so it still is when core records
it.  `Phases` ties the state of a request to the jobs that exist for it, since the
execute job is issued only after the dry run returned.  `ActedIsGone` (what was acted
on is not intact any more) is why a second request, which verifies before it acts,
cannot act on the same file; `OnePerFile` is `ActedOnOnce` in that form.
`GiveUpIsLate` says that a dispatch gives up only on a job that has expired, which an
agent then refuses.  `LedgerMatchesDispatch` is inductive with the types: it splits
the results that reached a request into those whose nonce is committed, those whose
commit is under way and those whose commit failed or was cut off, and a second post
finds the future resolved in each of the three.

### ActorExecutor

Assumed of a plan: `Rank` orders its items, no two items have one catalogue inode, and
new files have other inodes.  `Logged` adds that the intent of the current item is in
the log when its mutation starts, `Behind` that nothing has been done yet to items
that are still ahead, `Moving` that the destination exists between the link and the end
of a move and that no failed move left something there.  `Places` says what can be at
a path of the plan and at its place in the quarantine (the file of the plan, a new
file or nothing, and never the file at both), and `Ready` that the quarantine place of
the current item is free and that its new link is the file at its path, unless the
owner took that file meanwhile.  `PlanFilesKeepAName` needs the last two because
renames and unlinks go by name: the name that goes must be that of a file which has
another, or of one its owner gave up.

### ScanPipeline

Assumed (`PipelineConstants`): files are finitely many, there is some content, the value
for "no hash" is neither a content nor a partial hash, and a POST takes at least one
entry.  The partial hash may collide in any way.  `IInv` has three layers.

- Order.  `MtimesGrow`: the versions of a file reach the batch, the staging table and
  the catalogue in the order of their mtimes.  `OneVisit`, `StagedFirst`, `RunsAreApart`
  and `Moments` say what the agent's memory holds at each moment of a cycle, and that the
  rows of a run have one mode; without the last a chunk could be posted in a mode that
  is not that of its rows.
- Delivery.  `FlightIsStaged`: the batch in flight is what is staged, because nothing
  stages while a push waits, and comes from the oldest run.  `AckedIsIngested`: when the
  acknowledgement arrives the catalogue has the batch.  So marking it as pushed keeps
  `PushedIsIngested`, although batches are lost, repeated and interrupted;
  `NamesFollow` is the same for names, which the guard of the staging table does not
  compare.  `ChurnBalances` is inductive with these.
- Exactness.  `IncrementalSoFar` and `HashedSoFar` say what a cycle has done up to each
  of its phases if nothing changed on disk: seen, staged, delivered; for duplicates
  partially hashed, hashed, delivered.  `StaysExact` and `StaysHashed` say that after
  such a cycle later ones, also with faults, find nothing to change; an error that hides
  a file whose row is up to date puts it into `odd` (`SkippedIsLost`).  `NeverRemoved` and
  `RemovedBefore` rule out that a removal left over from an earlier cycle is delivered
  after the row of the file that came back.

That a drain is over only when nothing is left, and that a chunk is empty only then,
needs finite sets (`FiniteSetTheorems`) and the least run (`LeastOf`).

### Deployment

Assumed: hosts and probes are different things.  `Initiated` and `PlacedIsKnown` say
that the record of a run is in the log before its background task exists, hence before
a bundle of it is anywhere; `FetchIsKnown`, `Spent` and `OnePerToken` that a fetch with
an identity has its record before the bundle leaves and has used up its token for
good, which no restart undoes because the registry starts empty and issues new tokens
only.  `Untouched`, `InSemaphore` and `Finished` tie phases, slots and sessions to the
state of the run's task.  `CutTogether` says that once a drain has cancelled one host
of a run the others are cancelled or over, and that the core goes down before it
comes up again; so the results that are written while some hosts still close cannot
be of a run that goes on.  With them `ResultIsFinal` and `EndedHoldsNothing` are inductive.

### RemediationPlan and Reconcile

Assumed: catalogue entries start at different paths, `None` is neither a path nor an
entry, and a request either builds or runs plans.  `SavedIsOver`, `FlushedAlone` and
`FlushedIsNew` are what the unique key gives a transaction that has flushed but not
committed: nobody else holds the key, committed or not.  For the keeper,
`WellFormed` says that a plan with a keeper does not list it and moves nothing, and that
a plan without one only moves, `OnSaved` that runners work on the items of committed
plans, which do not change any more (`SavedIsOver`), and `ActedIsSaved` that all acts
come from them.

A comparison reads in six statements while scans change rows; assumed is that `fs_entry`
is finite, so that counting makes sense (`ReconcileConstants`).  `ComparisonIsExact`
speaks of the relative paths outside `changed`, whose rows no scan touched since the
comparison began.  `ComparedSoFar` says for them what each statement has contributed:
`Counted` that what was found about such a path is what the rows still say,
`ListInLimit` that the list respects `MAX_ITEMS` and holds only the classes that were
sampled so far, `ListComplete` that below the limit no item is missing.  `ItemsOfRows`
reduces an item to the rows of its path, so that a scan elsewhere cannot disturb it, and
`FirstTakes` that ORDER BY with LIMIT takes all rows or as many as the limit.
The proof also settled how long `changed` has to be recorded: on after the answer, as
the property keeps comparing the answer with rows that scans go on changing.

### FilePull

Assumed: a finite set of previews, so that requests that hold a slot can be counted.
`Started` says that whatever is on its way belongs to a request that has resolved its
entry, which is then fixed, and `GaveUp` that a request gives up only when its grant
has expired; agents refuse those.  `BytesAreChecked` follows bytes from the read
(where they are compared with the hash) over the wire into the future, `ShowsItsHash`
from there through the render into the answer, and `CacheIsFaithful` into the cache
and back.  `SlotsAreReturned` is inductive with the types.

### AccessControl

Nothing is assumed.  An enrollment deletes the rows of its user with their secrets and
inserts a row and a secret in one transaction, while others do the same.
`IdsAreUnique`: an id belongs to one row, committed or about to be.  `PutsOwnSecret`: a
transaction writes the secret of the row it inserts and of no other.  `PriorsAreOwn` and
`DeletesOwnSecrets`: a transaction that deletes the secret of a row which is still
enrolled deletes that row too, so that a commit never separates them;
`EnrollmentHasSecret` is inductive with these.  `Phases` says which phase an enrollment
can be in.  A settings request may name the secret of a second factor: it then writes or
deletes that one and no other, and its commit enters the name in `named`, which the
property excepts until the id is enrolled anew.

### Only model-checked

- Liveness (`EveryRequestEnds`, `DispatchEnds`, `EventuallyExact`, `PullEnds`,
  `RunEnds`, `Converges`, `LeaseEnds`, `PersistentAlertIsShown`): the prover has no
  rule with fairness.
- `Catalogue` (`FinalizedMeansExact`, `LoneRebuildIsExact`): totals and group sizes are
  sums over sets, folds with an operator for argument, which the provers cannot
  unfold; what a sum does when a batch adds a row is an induction for each of them.
- `Fleet` has liveness properties only.

## Observations that have no run

What the code does where a reader of its comments might expect something else, or
where a property above needed an exception.

Audit.
- `execute_route` dispatches the job while its audit rows are only staged in the
  session; if a rival takes the head meanwhile the rows are lost after the act.
  `core/audit_store.py:29-31`: "a failure to persist the audit aborts the action (the
  mutation is never reached) - there is no path that mutates without a chained audit
  row".
- `verify_latest_checkpoint` finds the anchored row by position
  (`records[cp.seq - 1]`, `audit_store.py:271-274`).  On PostgreSQL an INSERT that
  failed leaves a gap in seq and an untouched log is then reported as tampered with;
  this is why `audit_checkpoint` sets `SeqBurns` to FALSE.

Jobs and the actor.
- `submit_job_result` resolves the waiting request before its transaction commits
  (`agent_jobs.py:144`, `deps.py:37`): after a crash or a failed commit in between the
  request may have gone on with a result whose nonce is not on `used_nonce`.  The
  future has been resolved by then, and a restart forgets it, so a second post is
  refused all the same.
- A job verified just before it expires may be acted on after the dispatch timed
  out: the window is checked once (`signing.py`, `job_queue.py:63`).
- `run_listen` calls `handle_one` without `confirm_blast` (`listen.py:360`), so an
  agent refuses a plan over its cap although the operator confirmed it.
- A batch cut short by an error at a later item is reported as dropped with no
  action taken (`agent/actor/listen.py`), though earlier items were acted on; the
  act log has them.
- After a restart the act log continues from the genesis hash, so it is one chain
  per process (`agent/actor/listen.py`, `build_listener_from_config`).
- A file renamed over the source between the link and the unlink of a move is
  unlinked by name.

Scans.
- One transient error in an incremental walk removes a file, or all that lies under a
  directory, from the catalogue for as long as nobody touches it (`scan_skip`); a full
  walk in between does not help, because the staging guard drops the unchanged row.
  With an error that comes back in every walk no cycle is exact; the properties bound
  the errors.
- A file that cannot be read in one stage of the funnel is missing from its group until
  the next full-bit pass, and the pass counts as complete (`fullbit.py:276`).
- The staging guard (`agent/staging/store.py:52`) compares mtime and size: a plain
  rename keeps both and is dropped, although the feed reports it
  (`core/incremental.py:15`: "A *rename* is a cheap path update where the feed can
  detect it").
- `stage_hash` (`store.py:251`) moves a row that the metadata run has not pushed yet
  to the full-bit run; a new file under the inode of a removed one is then pushed as
  a hash only and stays absent.
- A metadata batch keeps the hash of a row, and the funnel does not revisit a file
  whose size became unique: a rewritten file stays in the group of its old content.

Catalogue.
- Finalizes of two hosts that overlap leave every group twice until the next rebuild
  that overlaps none (`dedup_service.py:317`).
- `computed_at` is taken after the read: a batch of a second process of the same host
  that falls in between is missed by the freshness test (`finalize.py:184`).
- A volume that has become empty has no rollup rows, stays stale, and its snapshots
  stay unfinished.

Plans and comparisons.
- A build may answer 409 to the rightful owner: when it races its own replay, or
  another audited transaction.
- A dry run after an execution sets the status back.
- Two plans of one group with different keepers can quarantine every copy.
- The routes that restore and purge a quarantined item write an audit row and change
  nothing else (`api/routers/remediation.py:503`: "Restore a quarantined item").
- Rows are keyed by inode, so two present rows may share a path until the next scan,
  and the join of a comparison then counts pairs: "counts are always exact"
  (`core/reconcile/service.py:56`) needs one row per path.

Previews and deployment.
- `local_fetch` opens the file with a call that blocks on a FIFO (`local_fetch.py:53`);
  that every request ends supposes that the open returns.
- A file over the cap is refused with 413 at the serving route and the operator waits
  out the grant.
- The audit row of a browse is rolled back when the request times out, also if the
  directory was read.
- A run whose "initiated" record cannot be appended stays PENDING in the registry;
  an SFTP transfer has no timeout; two hosts of a run that share a target and a
  directory interleave their uploads; a token is answered before its row commits.
- `deploy_batch` gathers without `return_exceptions` (`engine.py:470`): in a drain it
  returns with the first cancelled host, and the results of the others are recorded
  in the phase where they stand while they still close their sessions; one whose close
  fails then counts as failed in memory only.  `drain` waits for the runs, not for
  these hosts.

Access and settings.
- The lockout guard of `delete_assignment` counts the other global administrators and
  deletes in the same transaction without a lock on what it counted
  (`admin_users.py:237`): two administrators who revoke each other's assignment at
  once may both commit, against "never revoke the LAST global-admin grant in the
  estate" (`admin_users.py:232`).  `OpenRevoke` has this count; no run opens two
  revocations at once.
- Two first enrolments of a user leave two rows.
- `PUT` and `DELETE /settings/secrets` take any name that is not a setting, that of an
  enrolled second factor included (`settings_admin.py:166`): its owner's codes then no
  longer verify until the next enrolment.
- `ScopeFilter.apply` gates system volumes only for queries that pass `kind_col`
  (`scope.py:111-113`); the path and member queries do not.
- What a request published is not withdrawn by its rollback, an older read may undo a
  write in the process that made it, and a database error drops all overrides, each
  until the next tick; so `version` is not "monotonic" (`settings_store.py:674`).
- The provider switch resets a model by what the process remembers, which may be
  stale; settings routes are not audited.

Fleet.
- An expired lease is freed only when another known host asks.
- Two hosts that ask at once are both granted the last heavy slot
  (`scan_coordinator.py:110`); a host that is deferred has no place in a queue.
- A failed run counts as a completed one for the stale-host rule (`watch.py:112`); a
  host that never reported is never flagged.
- Outbound messages are sent before the sweep commits and again by every sweep.

## Not modelled

`PROJECT.json` lists the parts left out: retention (one DELETE per table), read-only
queries and response formats, the concierge, embeddings and inference (calls to
language models), backends other than the posix walk, vendor adapters, path checks
and the bootstrap command.  Within the modelled parts:

- values are what they commit to: record fields, canonical JSON, signatures,
  certificates, bundles and the output of renderers are not built;
- directories, symbolic links and different sizes in the scan pipeline; MODIFY rows
  and pruning of the change log; path vetting; throttling of reads; the zfs feed and
  scopes with several file systems;
- a second agent process on one staging database (listener and scheduled scan), and a
  POST that core applies after the client gave up on it and sent a newer one: core
  keeps no order between batches, so the catalogue is then wrong until the next walk;
- the forecast of `core/watch.py` and the channels of `core/notify`;
- identity providers and password hashing; the table of known settings is cut to the
  kinds that behave differently.

## Plan

1. Extend the model: a second agent process in the scan pipeline and delayed POSTs;
   several file systems per scope; retention beside the change log.
2. Prove `FinalizedMeansExact` and `LoneRebuildIsExact` of `Catalogue`, with the totals
   restated as a recursive function over an enumeration of the files.
