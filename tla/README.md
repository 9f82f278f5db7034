# Guiying in TLA+

Guiying is an offline macOS program that finds duplicate photographs. It walks a
folder, fingerprints and byte-compares the files, keeps the evidence in one SQLite
store, shows and exports the groups, and (behind the `internal-quarantine` feature)
moves redundant copies into a quarantine directory and back. It has no deletion: its
promise is that nothing is ever lost, and that whatever it says happened, happened.

This directory models the parts of it where that promise depends on the order of
things: windows, worker threads, other programs, crashes and power losses. It holds
TLA+ modules, the TLC runs that check them on small instances and TLAPS proofs of the
properties that matter most, for all instances. `PROJECT.json` maps every definition
to the source lines it stands for and lists the runs, mutants, hazards and theorems.

## 1. Inventory

| Component | Source | State | Operations | Hard behaviour | Correct when |
|---|---|---|---|---|---|
| Quarantine and restore | `src-tauri/src/quarantine_service.rs` | files of a duplicate group, an operation directory with `files/` and a durable manifest | plan, execute, restore, both rollbacks | renames race with other programs; crash and power loss between a rename and its record; verification fails after a move | no object lost, the keeper stays, the manifest finds every file |
| Desktop scan job | `src-tauri/src/scan_service.rs` | the job slot, last result, control word, windows | start, pause, resume, cancel, acknowledge, close | four kinds of task and a worker thread, three gates under different locks | operations exclude each other; what the window sees is what the worker does and the store records |
| Read-only runtime | `guiying-runtime` | the run being driven | stages of a scan, answers to the control word | a control request at a stage's edge; a transaction that fails | a terminal state is reported as recorded |
| Streaming core | `guiying-core/src/streaming.rs` | traversal frontier, tickets | walk, read, compare, replay directories | files and directories change while they are read | coverage is true |
| Result, history, export and root tokens | `scan_service.rs` | token registries per window | issue, use, expire, revoke | closing a window, a late picker answer, caps | a token works once, for its window, in its time |
| Export target | `src-tauri/src/export_target.rs` | temporary file, chosen name, cancellation gate | bind, create, write, sync, link, verify, clean up | cancel against link; another program at the chosen or temporary name; power loss | cancelled means unpublished, committed means complete and durable, nothing is replaced |
| Runtime lock | `src-tauri/src/runtime_lock.rs` | the lock file | acquire | the file is replaced between open and lock | one process per store |
| Store: run control | `guiying-store` `repository.rs`, `migrations.rs` | jobs, runs, leases, control requests, pause checkpoints | create, bind, request, acknowledge, end, reconcile, recover | process death with requests pending; lost answers; a clock set back | job, run, lease and requests always agree; a cancel wins; history does not change |
| Store: evidence and groups | `repository.rs`, `store.rs` | observations, fingerprints, groups, seals | append, seal, list | evidence of one file taken at different times | a group is a set of files that were equal at one moment; none is missed |
| Store: opening, migrations, backup | `store.rs`, `migrations.rs`, `backup.rs` | the database file and what SQLite keeps beside it, the migration ledger, backups | create, stage, back up, migrate, reconcile, close | a kill under a temporary name, half-way through an upgrade or a close; other programs at the same files | the old store or the new one, never neither; a backup before an upgrade |
| Store: history reader | `history.rs` | one read snapshot | keyset pages | budgets, deadline | pages of one snapshot |
| Capture-time evidence | `guiying-time`, `guiying-runtime/src/time_bridge.rs`, `repository.rs` | none (the policy is pure), and a session with reports, analyses and outcomes in the store | probe, report, analyse, record, finish | tolerance edges; a second computation in the store; cancellation, failing writes and a clock set back between any two of its transactions | a recommended time is what every trusted field says; the store agrees; what is left half-written can be opened again |
| Metadata extraction | `guiying-metadata` | none | bounded parsers | hostile sizes | budgets hold |
| Volume observation | `guiying-volume` | none | identify a volume | remount | same identity, same volume |
| One-shot scanner | `guiying-core` | none | older single-call scan | as streaming | as streaming |
| Front end | `src/src` | React views | show, send commands | late answers and events | a view never shows another job's state |

How they interact. A **window** sends a command; the command takes the registry's
lock in `scan_service.rs` and either changes the control word, or starts a worker
thread, an export task or a quarantine task. The **worker** calls the runtime, which
calls the streaming core between looks at the control word and records every
transition in the **store**; the store is opened by one process at a time (runtime
lock) and settles whatever a dead process left when it is opened. An **export** reads
a history snapshot and hands records to the export target. **Quarantine** uses none of
these: the disk and the manifests are its whole state. The exclusion of scan, export
and quarantine is the job slot's business (`ScanJob`).

`PROJECT.json` lists the hazards of this code at their lines, with the properties that
cover each. One has no property: what the code does there is modelled and told of in
section 6.

## 2. Modules

| Module | Models | Role |
|---|---|---|
| `Quarantine` | quarantine and restore with crashes and other programs | detailed specification |
| `CopyContract` | what quarantine promises about copies | abstract specification, implemented by `Quarantine` (`ContractKept`) |
| `QuarantineProofs` | | theorems about `Quarantine` |
| `ScanJob` | the job slot, windows, worker, control word | composition of service and runtime |
| `ScanJobProofs` | | theorems about `ScanJob` |
| `ExportTarget` | writing and publishing a report | detailed specification |
| `ExportTargetProofs` | | theorems about `ExportTarget` |
| `RunControl` | the durable side of a scan over process lifetimes | detailed specification |
| `RunControlProofs` | | theorems about `RunControl` |
| `EvidencePipeline` | the content of one scan: walk, fingerprints, groups, coverage | composition of core, runtime and store with a user who edits |
| `MCEvidencePipeline` | | a small tree and its contents for TLC |
| `EvidenceProofs` | | theorems about `EvidencePipeline` |
| `Grants` | what a window may hold: results, readings, export and root tokens | detailed specification of registries under separate locks |
| `GrantsProofs` | | theorems about `Grants` |
| `TimePolicy` | fields of metadata to candidates and a decision, and the store's own check of them | pure operators, compared with each other and with a plain reading of the fields |
| `MCTimePolicy` | | files, scopes and values for TLC |
| `TimeEvidence` | the capture-time stage and its tables | composition of runtime and store with faults, cancellation and the clock |
| `TimeEvidenceProofs` | | theorems about `TimeEvidence` and `TimePolicy` |
| `StoreOpen` | the runtime lock and the opening of the store | processes, the disk, kills, power losses, other programs |
| `StoreOpenProofs` | | theorems about `StoreOpen` |

### 2.1 Quarantine

State: `home[m]` is what stands at member `m`'s own path, `slot[o][m]` what stands in
operation `o`'s `files/`, `manifest[o]` the durable manifest (status and one state per
file), `dirty[m]` the operation whose rename of `m` is not yet synced, `pc`, `op`, `at`
the worker's step. `touched` and `unwound` are ghosts: the members another program
changed, and those whose unsynced move home (a restore, or the rollback of a move) a
power loss undid.

Actions: `SelectPlan`, then `execute_plan` as `Validate`, `Prepare`, and for each
member `Compare`, `Barrier`, `Rename`, `Settle`, `Confirm`, `Record` (with `Rollback`
and `Abandon` on failure), `Finish`; `restore_operation` as `MarkRestoring`,
`LookForFile`, `RenameHome`, `ConfirmHome`, `UndoRestore`, `RecordRestored`,
`EndRestore`. The environment crashes the process, loses power, takes, puts or edits
files, and moves a parent directory or the root. A fault may strike any call.

Abstractions. Identity, size, times and digest of a file are "this object is `m` and
is not edited". One worker is enough: the `FilesystemMutationPermit` admits one
operation. A power loss may undo any rename whose directory was not synced (POSIX); a
later change of the same name by another program makes it durable. A manifest time
that the clock contradicts is a failing write. Companion checks and path encoding are
left out.

Two things the model makes visible. A write that fails after a rename leaves the file
in `files/` and the entry "planned": restore looks at the disk, so the file still comes
home. And a restore's rename may be unsynced when the process dies; the next restore
finds the file home and does not sync again, so a power loss may later put it back in
quarantine, even after another operation has moved the first one's keeper. Both
copies are then in quarantine, listed and restorable. The two rollbacks sync both
directories but ignore the results (`SyncIgnored`), so a power loss may undo a rollback
in the same way. `KeeperStays` excuses exactly the members that a power loss took from
home again (`unwound`). `ManifestsTrue` joins `HeldIsListed` and
`QuarantinedIsHeld`: nothing is held that no manifest lists, and nothing a manifest calls
quarantined is elsewhere. `UndoRestore` moves whatever stands at the destination, so a
stranger may enter `files/`; `StrangerIsFlagged` shows the manifest then claims neither
success.

### 2.2 ScanJob

State: `ScanJobManager` (`lock`, `active`, `terminal`, `acked`), root tokens and each
window's export, the quarantine permit (`mutating`), the windows (`alive`, `shut`,
`closing`, `deferred`), the control word (`directive`, `enumerating`), the worker's
step `pc` and its run's state in the store (`durable`). One process lifetime.

Actions: each command of a window is one action, since it runs under the registry's
lock; an export's file picker is four (`PickTarget` passes the gates, `OpenPicker`
registers the selection, `CheckTarget` and `GrantExport` take its answer), its start
`BeginExport`, which keeps the lock across an await until `RunExport`. A close event
revokes (`CloseRevoke`) and cancels (`CloseCancel`), or leaves a `DeferredCancel` when
the lock is taken. The worker's steps follow the runtime: bind, read the control word,
act, park, resume, settle, stages, seal, finish; any of them may fail or panic.

Abstractions. A pause is dropped while the run has no lease yet (`bound`); a cancel after
the last look at the control word ends in `completed`, so `CancelHonoured` marks it
`"past"`. When recording a cancellation fails, the run stays unfinished in the store and
the next opening settles it (`Open` in `RunControl`). Expiry, caps and the single steps of
folder pickers and openings are in `Grants`; here `SelectRoot` is one step. A window that
closes between the look at its result and the registration of its picker keeps a selection
that nobody revokes: `NoOrphan` allows it, and shows that it never becomes a grant.
`EndsTruly` joins what the store recorded with what the user asked for, `NothingForged`
the two things that must not be rewritten: a paused run is not resumed on its way to a
cancellation, and a result its window has not acknowledged is not replaced.

### 2.3 ExportTarget

State: `target` (what the chosen name leads to), `maybe` (what it may lead to after a
power loss: everything since the last directory sync), and for each export its
temporary name `temp`, the records `written`, `synced`, the gate shared with `cancel()`
(`gate`, `cancelled`), and what the writer established (`linked`, `verified`,
`unclean`, `unsynced`, `result`). An export is named by the file it creates, and
several windows may export to one name.

Actions follow `write_history_export`: `Create`, `CheckNew` (the look at the new file
before anybody owns it), `Record` (with the control check before each), `FlushAndSync`,
`Recheck`, `Gate`, `Link` (no replace), `Verify`, `Cleanup` and `Unlink`, `DirSync`,
`Publish`, then `Drop`/`Forget` on every way out. Looking at the temporary name and
unlinking it are two calls, as in the code. Other programs change the chosen or temporary
name, or move the new file; `PowerLoss` ends everything.

Abstractions. Bytes, budgets and the digest are a record count. The deadline and the
error returns for an occupied or unsafe target are one way out (`Stopped`). The
directory is held open, so moving it does not matter. A process crash is a power loss
that happens to keep everything. When the look at the new file fails, nobody
unlinks it: `NoLitter` excuses exports in which a call failed, and those whose new file
another program had already put under the chosen name.

### 2.4 RunControl

State: the tables `jobs`, `runs`, `leases`, `requests`, `checkpoints`, the wall clock
`now`, and `client`: whether the store is open, the attempt it drives, and the versions,
checkpoint generation and evidence count it remembers.

Each action is one immediate transaction, so a crash (`Close`) falls between actions.
`Open` is the whole reconcile pass of `migrations.rs`. `Start` creates a job, or a
fresh child of an interrupted attempt; `BindLease` takes the lease; evidence, pause, resume
and cancel requests and their acknowledgements, and the leased ending follow. The
program opens the store at application start and at each scan start, so one attempt per
open store is what runs. The runtime asks and acknowledges in one transaction, the
store's interface and tests also in two; the model has the two steps. The store
verifies its file after the commit, so a client may see an error for a durable change
(`Answered`): it then keeps the versions it had.

Abstractions. A job is named by its first run; seals are one flag; keys and digests
are left out. The time of a request or lease is kept while some rule looks at it. The
release of a lease clamps its own time and cannot be refused by the clock. A
recovered start whose clock is behind the job's time is refused as a whole. A
`failed` ending is in the store's interface though the runtime never asks for it.

Before it reconciles, every open of the store checks the rows of every scan ever made
(`validate_runtime_invariants`), and refuses the file if one
condition fails. A legal order of transactions that such a check does not foresee
would lock the user out of all of his history. The audits (`JobAudit` to `CurrentAudit`)
are those conditions, table by table, written from the validators and not from the
transactions; `Reopens` says that they hold between any two transactions, and that no
run has a side the reconcile pass would miss (`NoHalfState`).

### 2.5 EvidencePipeline

State: the disk (`node`, `data`, and the change stamps `stamp` and `dirStamp`), the
core's walk (`walk`, the stack of open directories; `partial`; `stable`), the event
buffer (`pending`), the store's tables for the run (`seen`, `dirSeen`, `sampled`,
`hashed`, `groups`, `collided`, `sealed`) and the runtime's locals (`work`, `bucket`,
`batch`, `build`). `snap` is a history variable: what every name held when the
enumeration was sealed. No rule reads it.

Actions: the walk consumes one entry at a time (`Observe`, `Overlook`, `ReportEntry`,
`EnterDirectory`, `LeaveDirectory`); `FlushEvents` is `EnumerationSink::write_batch`,
which looks at everything a second time through the volume adapter;
`SealEnumeration` opens the stages. A stage takes its buckets (`NextBucket`,
`BeginGroup`), binds a page of tickets (`BindBatch`, `AppendPage`), and for each ticket
opens (`OpenTicket`) and ends (`FinishRead`) a read, between which the user may do
anything. `FinishBatch` and `FinishCompare` are the check of the whole batch and its
transaction; `FinalizeGroup` is `finalize_exact_group`. Coverage binds, replays and
checks every directory (`BindDirectories`, `ReplayDirectory`, `FinishDirectories`),
then `FinalizeCoverage`, `SealExact` and `CompleteRun`. `Fault` ends the run at any
moment: a store write, a clock or a volume call that failed, or the process.

The user writes a file, links or moves an object to a name, removes or renames one.
The volume adapter compares of the root only its identity (`SameDirectory`), so a file
that comes to the root is found by the core's replay alone; elsewhere both look.

Assumptions about the file system, which the code makes too: a change of an object's
bytes, attributes or links changes its signature (length, times, change time, link
count); a name that comes or goes changes its directory's; a read between two equal
signatures read one content. A directory listing that began before a change may or
may not show it (`Overlook`). The directories are a tree under the root, with no
directory out of its reach (`TreeAssumption`): the walk descends from the root and
follows no symbolic link.

Abstractions. The directories are fixed: files move, directories do not, so aliases,
depth limits, excluded directories, symbolic links and mount points are left out.
Pages come in an order of no meaning. A pause is `ScanJob`'s and `RunControl`'s
business. A content stands for its bytes, with a size, a sample digest and a digest;
contents may collide in all three. Counts, byte totals and manifests are left out,
except the number of independent objects of a group. A group that was verified stays
in the store when the run then fails, but `Visible` needs the last seal; the properties
are about all verified groups where they hold for all.

`EvidenceReopens` is here what `Reopens` is in `RunControl`: the conditions under which
an open accepts a run's evidence (`SealAudit`, `GroupAudit`, `OutcomeAudit`,
`CoverageAudit`, `ProgressAudit`), wherever the process died.

### 2.6 Grants

State: the result registry (`pending` openings and `reads`, with what is left to tasks of
their own: `dropping`, `releasing`, `cleanups`), the export registry (`exports`, from the
file picker to the writing), `listings`, the root tokens (`picking`, `roots`), and the
commands in progress (`task`), each with the step it is at. `revoked` and `stale` are
ghosts: tokens whose exports were revoked, pickers that were open when their window was
told to close.

Actions: an opening is `BeginOpen`, `Issue`, `RevokeReplaced`, `BeginSummary`,
`FinishRead`, `CheckOpened`, and on its way out `RefuseOpen`, `DropOpen`, `CloseOpened`;
a reading `BeginRead`, `FinishRead`, `RevokeLease`; an export `BeginSelection`, `Reserve`,
`Validate`, `GrantExport`, then `BeginExport`, `LeaseExport`, `RunExport`, `EndWriting`,
`Cleanup`; a folder picker `BeginPick`, `EndPick`, `ConsumeRoot`. One step is one holding
of one lock, so that a close, a reopening or the end of a token's time (`AgeRead`,
`AgeExport`) falls between any two. A close event takes four steps on the main thread.
A destructor that finds its registry locked leaves the work to a task, which may run at any
later time (`DropLater`, `ReleaseLater`, `RemoveLater`).

Abstractions. Tokens and generations are drawn once and compared for equality: the number
of an opening or a selection stands for them. An expired export or root token is treated
as gone, since whoever looks at it next prunes or refuses it; a result token is not, for
its exports are still revoked when it is closed. That a scan runs, the gates and the
answer of a picker are choices. The second reader shared by history listings is left out.

A detail the model shows: a reopening does not count the token it is to replace. If that
token goes meanwhile and another reopening takes the place, `issue_result_read_at` refuses
an opening that was admitted. No limit is exceeded and nothing leaks.

### 2.7 TimePolicy

State: `fields`, the fields of all reports of a group in order; `damaged`, the sources
whose report has a structural issue; `analysis`, the policy's answer; `member`, file
times beside the answer; `phase` says how far the group is. The reports grow by `Retain` and
`Spoil` and are analysed by `AnalyzeReports`; `StoreCandidate` is the store's own
derivation of the candidate's support, `Assess` the comparison of a member's file times,
which the runtime and the store both make.

The policy is written as operators: companions of a scope (`OneValue`), readings of each
kind (`OriginalAtoms` and its like), distances between strong readings
(`StrongDistances`), issues, candidates with their confidence and what bars them
(`Candidate`, `Blockers`, `Near`), the choice (`Best`, `Analyze`). Bytes, encodings,
parsers and the budgets of a report are left out; so are rules about malformed reports
that the extractor of this repository never makes. A value that strict parsing rejects is
a member of `Bad`, two of which disagree like two dates. The code names a strong
conflict near a whole hour `PossibleTimezoneConflict`; it bars a group like any other,
and the model has one name for both.

### 2.8 TimeEvidence

State: `db`, the tables of one scan (the session, and per group a report, an analysis and
an outcome, each with its times); `stage`, what the runtime knows (its place, the group,
the drafts it believes open, its summary); the clock, and whether the user cancelled.

Actions: `Guard`, `Begin`, `NextGroup`, `Probe`, `WriteGroup`, `WriteReport` and
`WriteAnalysis` piece by piece, `Clean` and `FailGroup` after a refusal, `Finish`;
`Cancel`, `Tick`, `SetBack`; `Reopen` is the death of the process and the reconcile pass of
the next open. A write may be refused by the store's rule, fail, or commit and be
answered with an error (`Write`). `Audit` is what every open checks of these tables.

Abstractions. What the rows say is left to `TimePolicy`: a group's evidence is fit, or
such that the store refuses its candidates. A batch holds all rows of its kind. A clock
reading is taken in the step that uses it. Identifiers, digests and the guard over the
scan's evidence are left out; there is one stage per scan, as in the runtime.

### 2.9 StoreOpen

State: the lock file (`lockAt`, and per process `lockOf`, `held`); the database `db` as a
file with a version, a stamp of its rows, the side files SQLite keeps, whether its bytes
and its name are on the disk; the `backups`; per process its step, the family it first saw
(`seal`), the file it prepares (`temp`) and its connection (`handle`). `swapped`, `seen`
and `opened` are history variables.

Actions: `OpenLock`, `TryLock`, `Revalidate`, `VerifyIntegrity`; `Look`; then either
`Make`, `SyncMade`, `Publish`, `SyncName`, `Reread`, or `Enumerate`, `CopyFamily`,
`CompareFamily`, `RecoverStaged`, `SyncBackup`, `PublishBackup`, `SyncBackupName`,
`Unstage`, `VerifySeal`; then `OpenReadWrite`, the change of journal mode in two steps,
`ApplyMigration` once per version, `Reconcile`, and the close. A window that is up opens
the store again for each scan (`Reopen`, `Write`, `EndScan`). Calls fail, processes are
killed, power is lost, and the user's programs remove the lock file, put a database at the
path or write to it.

Abstractions. A migration is a version number. SQLite is modelled from its documentation
and the way the code uses it: a transaction is atomic, its first commit syncs the
directory, the last connection removes the side files, and the first read of a database in
WAL mode makes them (a database may be in either mode). Publication, `persist_noclobber`
of the crate `tempfile`, is taken to rename in one step that replaces nothing. The crate
is not in the repository: on a file system where it had to link and then unlink, a kill in
between would leave two links to the database, which `capture_database_security` refuses
at every later start, and `ComesUp` would not hold. Owners, modes, link counts and times
of a file are one identity that any write changes. Limits on sizes, space and time are
failing calls. Unix only. The read-only evidence reader, and two openings in one process,
are left out.

What the model shows, and the properties are worded to allow. (a) On the path that creates
the database there is no expected version, so a database somebody puts at the path between
publication and the read-write open is upgraded without a backup (`BackedUp` speaks of
openings that found a store). (b) Rows another program writes between the last check of the
seal and the open are not in the backup. (c) Removing the lock file while it is held lets a
second process in (`OneProcess` excuses exactly that). (d) What a kill leaves of temporary
files is never removed by a later start.

## 3. Runs

All bounds are constants named in the modules. "Faults" is the number of failing calls,
"user" the number of steps of other programs.

| Run | Instance | Shows |
|---|---|---|
| `quarantine` | 3 members, 2 operations, 1 fault, 1 user step, 1 foreign file, fairness | `KeeperStays`, `ManifestsTrue`, `NothingLost`, `StrangerIsFlagged`, `EventuallyHome`, and that quarantine implements `CopyContract` |
| `scan_job_safety` | 2 windows, 2 scans, 2 entries, 1 fault | `Exclusive`, `StatusTracksControl`, `EndsTruly`, `NoOrphan`, `NothingForged` |
| `scan_job_live` | 1 window, 2 scans, 2 entries, 1 fault, fairness | `RequestsAnswered`, `DeadWindowFrees` |
| `export_target` | 2 exports to one name, 2 records, 1 fault, 2 user steps | `ReportTrue`, `CancelUnpublished`, `NothingReplaced`, `NoLitter` |
| `run_control` | 2 scopes (one recoverable), 2 runs, 3 requests in all, 1 evidence row, clock 0..1, 1 lost answer | `Reopens`, `CancelDominates`, `PausedAsRecorded`, `OneLineage`, `HistoryStays` |
| `run_control_clock` | 1 run, clock 0..1 | a violation, see section 6 |
| `evidence_pipeline` | 3 names in 2 directories, 3 objects, 3 contents, batches of 2, 1 edit | `EvidenceReopens`, `GroupsWereEqual`, `NothingMissed`, `EveryDuplicateFound` |
| `grants` | 1 window, 2 results, 2 commands at a time, every limit 1, 3 openings, 2 pickers, 1 export | `NothingLeaks`, `RevokedExportsStop`, `ClosedHoldsNothing`, `RootsAreAwaited` |
| `time_policy` | 4 scopes of 3 files, up to 5 fields and issues, 1 damaged report | `EligibleIsUnanimous`, `OrderIrrelevant`, `StoreAgrees` |
| `time_policy_heif` | as above, up to 2 fields and issues | a violation, see section 6 |
| `time_evidence` | 2 groups, 2 probes, 4 reads, clock 0..2 set back once, 1 fault | `TimeReopens`, `SummaryTrue`, `CleanEnd` |
| `store_opening` | 2 processes, versions 1 and 2, 2 faults, 1 step of other programs, 1 write, fairness | `OneProcess`, `BackedUp`, `StoreKept`, `ComesUp` |

Why these bounds are enough. Three members are a keeper and two redundant files, so a
failure can fall before, at and after a file that already moved, and the skipped keeper
can be first, middle or last; two operations are what it takes for one to move what the
other rests on. One fault or one foreign move is what the properties excuse or withstand;
the combination of two faults (a failure and a failure of its rollback) was checked for
the invariants and the refinement in a run of its own without liveness, which is too long
to repeat with the others. Two windows give two owners, two scans a start after a result.
Two exports race for one name, two records put a cancellation between records. Three
requests are pause, resume, cancel, or any other order of them; two runs are an attempt
and its child over a restart, or the jobs of two scopes; four requests, and a chain of
three attempts, were checked apart. A clock of two values has every outcome of a
comparison. Three names in batches of two make a page boundary inside a bucket, with the
representative on either page; three contents of one size, of which two share every
digest, make true duplicates, a collision and a bucket that mixes both; three objects
leave room for hard links and for a replacement by a new file. One edit is what a stale
observation, a torn batch or a missed file takes, since a rename between directories is
one edit. Registries that hold one entry make every admission a race for the last place;
two openings of one result are a replacement and a third one follows it; the `grants`
properties were also checked with two results, and two pickers, at a time. A second of two
units, a tolerance of two seconds and an hour of twenty give instants that are equal,
near, just too far apart and an hour apart; two scopes of one photo, one of another and a
movie are what disagreement within a file, between files and between formats takes. Two
groups are one that fails and one after it; two probes and reads for two of them let the
budget end inside a group, between groups or never. Two processes are what a lock is
about; versions 1 and 2 make one upgrade, two faults a kill during the repair of what a
first kill left.

The symmetries (objects, the two files of the root and the two contents that collide;
the windows of `ScanJob`; the tasks, results and windows of `Grants`) are sound: those
runs check invariants and action properties only, and no definition tells these values
apart.

Each property of a passing run has a mutant in `PROJECT.json`: a plausible bug in
one mapped definition, under which TLC finds that property violated.

`TypeOK` of each module states the shapes of its variables. It is proved for every module
(section 4; `PolicyTypeOK` in `TimePolicy`). No run lists it: it says nothing of the code
that the other properties do not.

Deadlock is checked in the runs of `RunControl`, `TimeEvidence` and `StoreOpen`: a store
can always be opened or closed, and the program started again. The other systems may
really stop: all windows closed, all exports done, the power gone, no operation left, the
scan ended, the analysis made.

### Fairness

* `Quarantine`: weak fairness of the worker's next step (the thread is scheduled, calls
  return) and strong fairness of `BeginRestore` for each operation (the user keeps
  asking). None of crashes or other programs, which are bounded. A restore stops at its
  first failing file, so `EventuallyHome` is about groups nobody disturbs and roots that
  come back.
* `ScanJob`: weak fairness of the worker's ordinary steps, of the close handler on the
  main thread, of each `DeferredCancel` and `RunExport` (tokio runs ready tasks and its
  mutex is handed over in order). Nothing is assumed of users, of exports after their
  start, or of quarantine operations. `docs/engineering/SCAN_JOBS.md` notes that a
  blocked kernel read cannot be preempted: the liveness claims are made for reads
  that return.
* `StoreOpen`: weak fairness of the next step of each process that is starting or closing
  (a call that can return returns, and the user starts the program again when it has
  ended). Nobody need scan. Kills, power losses and other programs are bounded.
* `ExportTarget`, `RunControl`, `EvidencePipeline`, `Grants`, `TimePolicy` and
  `TimeEvidence` claim safety only.

## 4. Proofs

The theorems hold for every value of the constants: any group size, any set of operations
and foreign files, any number of windows, tasks, exports, scopes, runs, processes and
schema versions, and any bounds on faults and interference. They assume only the named
assumptions of the modules: `None` is no other value, bounds are naturals, a group of
copies has at least two members and is probed at least once, there is a scope
(`ScopesKnown`), the directories are a tree under the root (`TreeAssumption`). Of the time
policy they assume that a report has finitely many scopes, each with one source
(`Layout`), that a second is more than one unit and holds the fractions (`Scale`), that
the fields have the forms the extractor makes (`Retainable`), and that a missing or
rejected value is no time and no answer (`Absent`). Every invariant below was first
checked by TLC on the instance of a run.

| Property (run) | Theorem |
|---|---|
| `NothingLost`, `ManifestsTrue`, `KeeperStays`, `StrangerIsFlagged`, `ContractKept` | `QuarantineProofs`: `ObjectsKept`, `DiskMatchesManifests`, `KeeperKept`, `StrangersAreFlagged`, `ImplementsContract` |
| `ReportTrue`, `CancelUnpublished`, `NothingReplaced`, `NoLitter` | `ExportTargetProofs`: `ReportsAreTrue`, `CancelledStaysUnpublished`, `NothingIsReplaced`, `NoLitterLeft` |
| `Exclusive`, `StatusTracksControl`, `EndsTruly`, `NoOrphan`, `NothingForged` | `ScanJobProofs`: `UsersExclude`, `StatusIsTrue`, `EndsAreTrue`, `NothingIsOrphaned`, `NothingIsForged` |
| `Reopens`, `CancelDominates`, `PausedAsRecorded`, `OneLineage`, `HistoryStays` | `RunControlProofs`: `EveryOpenAccepts`, `CancelIsFinal`, `PausesAreRecorded`, `LineagesAreChains`, `SettledHistoryStays` |
| `EvidenceReopens`, `GroupsWereEqual`, `NothingMissed`, `EveryDuplicateFound` | `EvidenceProofs`: `EveryOpenAccepts`, `GroupsAreEqual`, `NoFileIsMissed`, `DuplicatesAreFound` |
| `NothingLeaks`, `RevokedExportsStop`, `ClosedHoldsNothing`, `RootsAreAwaited` | `GrantsProofs`: `LeaksNothing`, `RevokedStop`, `ClosedIsEmpty`, `RootsWereAwaited` |
| `OneProcess`, `BackedUp`, `StoreKept` | `StoreOpenProofs`: `OneProcessAtATime`, `UpgradesAreBackedUp`, `StoreIsKept` |
| `TimeReopens`, `SummaryTrue`, `CleanEnd` | `TimeEvidenceProofs`: `EveryOpenAccepts`, `SummariesAreTrue`, `EndsAreClean` |
| `EligibleIsUnanimous`, `StoreAgrees`, `OrderIrrelevant` | `TimeEvidenceProofs`: `OnlyUnanimousEvidence`, `StoreAgreesAlways`, `OrderNeverMatters` |

These are all safety properties the passing runs check. Each of these modules also has
`TypeCorrect`, the last one `PolicyTypeCorrect` too.

**`QuarantineProofs`**. `TypeOK` is not inductive: that `Record` writes a file state of a
real member depends on what the worker's step says of `op` and `at`. `PlanInv` (a plan
names a keeper, a manifest only exists for a taken plan) and `WorkerInv` (what each step
knows of its operation) make `Inv1` inductive. `HeldIsListed` needs `DirtyInv`: a rename
that a power loss may undo belongs to an operation that lists the member. `KeeperStays`
is the deep one. The validation of the whole group must still hold when the last member
is moved (`ValidInv`); an untouched member is unchanged and in one place (`MemberInv`);
and a restored file that may yet be moved back must find its keeper at home and no
held file resting on itself (`UndoInv`). Their conjunction is inductive, with one
lemma per part and one step per action.

What a manifest claims is `DiskInv`: while the worker moves files its manifest announces
it (`StageInv`), the members before the current one are held and synced (`MovedInv`) or,
on the way back, leave no stranger (`ReturnedInv`). A rollback may leave a stranger at
an unsynced path, and a power loss may then put it back into `files/`; the operation
that did so claims no success, and its restore does not get past that member (`HomeInv`;
a later change of a path makes the earlier rename durable). `DiskMatchesManifests` and
`StrangersAreFlagged` follow.

`ImplementsContract` is the refinement of `CopyContract`. The mapping takes whichever
operation holds a member (`CHOOSE`); `Seen` says what that means, and for an untouched
member there is only one (`RestsOn`). A rename out of an undisturbed path is a `Hold`
(`HoldStep`, where `ValidInv` and `UndoInv` are the guards of the contract), any
other step a `Release` of the copies it brings home (`ReleaseStep`). `AlwaysAnchored`
proves of the contract, and so of the code, that an undisturbed held copy rests on one
that is home or disturbed and that an undisturbed group has a copy at home.

**`ExportTargetProofs`**. The invariant is per export: `Gated` (a link lies behind a gate
that is held or closed), `Whole` (all records written and synced before the link),
`Genuine` (a temporary name that was taken over never leads to the own file again, so
verification accepts only that file), `Kept` (what was linked stays, and stays through a
power loss once synced) and `Clean` (the temporary name is given up before a result says
so).

**`ScanJobProofs`**. `Inv` says what a step of the worker may rely on while commands and
closing windows change the registry between its steps. `SlotInv` adds to `Exclusive` that
an export start which keeps the registry locked across its await did so with the slot
free: without it `Exclusive` fails at the end of the await. `PhaseInv` ties the phase
shown, the control word and the lease to the worker's step; `EndInv` says what each
step towards an end has already made durable, and `WindowInv` what a closing
window has already revoked, told or left to a deferred cancellation.

**`RunControlProofs`**. The audits of an open are not inductive: they say what one table
may hold, and a transition changes several. The rows are tied together by `RunFits`,
`JobFits` and `ParentFits` (the runs that exist are the first ones, a job points at its
last run and agrees with it), `LeaseFits` (an active lease only while the run is
unfinished), `RequestFits` (the pending request is the last and names the versions of its
rows), `CheckpointFits` and `PausedFits`, `NowFits` (the last answer is a pause while the
run is paused and a resume while it runs), `HistoryFits`, `ScopeFits` and `ClientFits`.
What the owner of a run does to its rows keeps the rest (`Works`), so `WorkStep` is proved
for that run only (`Here`); a start adds a run (`StartStep`), an open settles all
of them at once (`OpenStep`). `HistoryAudit` counts acknowledged pauses and
checkpoints; it follows from `HistoryFits`, an order, through a bijection between the
two. `SettledHistoryStays` is an action property.

**`GrantsProofs`**. The invariant says of every token, selection and picker who drew it
and who may still act on it: a token just drawn is unknown to all but its opening
(`NewInv`), a command that will revoke for a token finds it gone (`TokenInv`), a selection
about to be granted was not revoked (`ExportInv`), and leases, places and listings have
one owner each (`LeaseInv`, `PlaceInv`, `ListInv`). `NothingLeaks` counts: a
counter is the number of its owners because one step adds or removes one owner, and a
registry keeps its limit because it grows by one behind a gate that looked at its size.
`TokensAreSpentOnce` is an action property (`TokensSpentOnce`), which TLC checked on the
instance of `grants`: a result token that is gone or ran out never serves again, one is made
by its own opening only and for an open window; an export goes from pending to granted to
running and not back, is granted only while its result was not given up, and stays
cancelled; a folder picker gives one root token, to the window that waits for it. It needs
`NewInv` (else an issued token could overwrite another), `ExportInv` (a selection that is
granted is still the one that was picked) and `RootInv`. In the model a token is its number.
A registry draws its tokens from `getrandom::fill` and draws again only if the token is
still held; that no token given up earlier is drawn again is the assumption behind it.

**`StoreOpenProofs`**. `LockInv` says who has the lock file open and which file that is:
two holders hold different files, so one of them holds a file somebody replaced.
`WorkInv` says that an existing family is under a seal from its first enumeration to
the open, `NameInv` that the database at its name is whole. `BackInv` is
about the backup: the content of the database only moves forward in an order (`Before`),
so a copy taken between two equal looks at the family is a copy of what was looked at.

**`EvidenceProofs`**. Three arguments, none of them visible in the properties themselves.
*Time*: stamps only grow, and what has not changed its stamp has kept its bytes and names
(`DiskMoves`), so a file found intact when it is read was intact at the end of the walk
(`SnapInv`). Fingerprints, results not yet recorded, edges and groups are therefore all
about that one moment (`PrintInv`, `FreshInv`, `EdgeInv`, `EqualInv`), whatever happened
while the files were read. *Progress*: a bucket is waiting, wholly in hand, or has its
fingerprints (`BatchInv`, `FoundInv`); one of equal digests ends as a group or a
collision (`DecidedInv`). Equal contents share size, sample and digest, so duplicates
stay in one bucket from stage to stage. *Coverage*: behind the walk every entry is
observed, or absent, or its directory has changed since (`WalkInv`); because the
directories are a tree, the walk has then seen them all (`AllSettled`), a missed file is
in a directory that changed (`MissInv`), and the replay finds it (`CoverInv`). Each action
is first reduced to its effect (`StepCases`), without the functions it writes; each part
of the invariant has one lemma, with one step per effect.

`EvidenceIsImmutable` is an action property (`EvidenceStays`) no run checks, because of
its cost; TLC found no violation of it on the instance of `evidence_pipeline`. The store
calls an observation and completed evidence immutable
(`docs/engineering/PHASE1_RUNTIME.md`, 5.1; `history.rs:219`): no step of a run changes or
takes back an observation, a fingerprint, a seal, a group, a collision or the coverage,
and none adds to a stage that is sealed. Two parts are not visible in any action. The walk
must not come to a file twice, although the user moves files under it: what is left in an
open directory was not observed, and whatever was observed is in a directory that was
entered (`OnceInv`). And a fingerprint written over another one must say the same: both
are of the bytes of the end of the walk (`PrintInv`).

**`TimeEvidenceProofs`**. *The tables.* What an open checks (`Audit`) is not inductive: it
relates times, but not that an analysis has a sealed report, or that a row not begun is
empty. `StoreInv` says so of each group's rows. Every transaction keeps it whatever it is
called with, provided its own checks pass (one lemma each, `ReportBegun` to
`SessionAbandoned`), and so does the repair of the next open (`Reopening`), at any time the
clock shows; so the stage may be wrong about anything and the tables are still accepted.
*The summary.* The store keeps outcomes for good, so what the stage counted of a kind stays
at most what the groups behind it have of that kind (`Told`); while it is complete it
counted each of them, and at the end the counts add up to all groups, so none can be lower
than the store's (`WrittenIsRecorded`). *The clean end.* Until the clock is set back no time
in the tables is later than now (`ClockInv`), and until a write fails the stage knows
every draft (`CleanInv`): the abandonment it asks for is then never refused (`CanDrop`),
nor is the end of the session (`CanFinish`). `TypeOK` follows last, because that no
count exceeds the number of groups is a consequence of `Told`. *What is recorded is final.*
`EvidenceIsFinal` is an action property (`EvidenceFinal`) no run checks, again because of
its cost; TLC found no violation of it on the instance of `time_evidence`. A finished
report or analysis, a group with an outcome and an ended session never change again. The
transactions' own checks are too weak for that: sealing a report or adding to it looks at no
outcome, abandoning a report not even at the session. `StoreInv` makes up for it: a
group that has an outcome, or whose session ended, has no draft.

*The policy.* `TimePolicy` shares no variable with `TimeEvidence`; its proofs are the
second half of the module. The invariant is small (`PolicyInv`): from the analysis on the
answer is what the policy says of the reports, a refusal has a candidate the store does
not accept, a disagreement one that they judge differently. The work is in the operators,
for reports of any length. An atom is a date of a trusted source, with what its scope says
beside it (`AtomsAre`, `AtomShape`). *Unanimous.* A candidate without a blocker has high
confidence and no issue against it (`EligibleIs`), so the reports have none at all, no two
strong atoms are further apart than the tolerance (`Spread`), and every strong reading of
the fields is an atom. *The store.* A scope with no issue says one value of each kind
(`ScopeAgrees`), so the store's own derivation from the rows fails at most for a
repetition (`Supported`); the two comparisons of file times are the same but for one
connective (`JudgedAlike`). *The order.* The merits of two candidates of one answer are
equal only if their times are (`MeritsTell`), so preference is total on them and the one
preferred to most others is best (`BestIs`); without that the answer could depend on the
order in which candidates are compared. Two reports with the same fields have atoms that
differ at most in the positions they were read at (`TwinAtoms`), hence the same issues
(`SameIssues`), candidates that are alike (`SameCandidates`) and alike best ones
(`SameBest`). `SameConclusion` says so of any two orders and any repetition;
`OrderIrrelevant`, which TLC can check, is its case of the reverse. `DecisionAlwaysBacked`
is about what the runtime asserts of a decision before it writes it.

Left to TLC, with the reason:

* Liveness and `ENABLED` are out of the prover's reach: `EventuallyHome`,
  `RequestsAnswered`, `DeadWindowFrees` and `ComesUp`.
* `RollbackNeverDeadEnds` and `HeifDatesCount` are refuted (section 6).
* Induction over data structures is out of reach, because the library's induction
  theorems take an operator parameter, and so are `RECURSIVE` operators. No module here
  declares one, and no proof here needed the former.

## 5. Assumptions between the modules

* `Quarantine` has one worker and no scan in parallel; `ScanJob!Exclusive` is the
  exclusion, with the permit as `mutating`.
* `RunControl` has one open store and one attempt; one process per store is
  `StoreOpen!OneProcess`, one attempt per process is `ScanJob`'s single slot.
* `ScanJob` reduces the store to the state of one run; `RunControl` shows what the
  transactions behind it keep, and what an opening does to a run the worker left.
* `ExportTarget` covers one export from the created file on; that its window still exists
  is `Grants`' business, that no scan runs `ScanJob`'s. The flag an export is told to stop
  by (`cancelled` in `Grants`, `aborted` in `ScanJob`) is `cancel()` in `ExportTarget`.
* `Grants` takes the gates of scans and quarantine as choices; `ScanJob` takes the
  validity of a token as one. What both model, the three steps of an export's start and the
  registry's lock kept across the await of the last, is written alike in both.
* `EvidencePipeline` has one run of one attempt; which attempts there are, and what an
  interrupted one leaves, is `RunControl`'s.
* `TimeEvidence` starts from a completed scan, whose groups are those of
  `EvidencePipeline`; what its rows say is `TimePolicy`'s.
* `StoreOpen` takes the reconcile pass as one step that succeeds on a current schema.
  That its checks accept whatever a kill left is `Reopens`, `EvidenceReopens` and
  `TimeReopens`; together they say that a later start comes up.
* `Quarantine` starts from a group whose members it validates again by digest; it
  relies on no promise of `EvidencePipeline`.

## 6. Disagreements between documentation and code

**The clock.**
`crates/guiying-store/README.md:219-220` and the comment at `repository.rs:5904-5905`
say that, because the lease release clamps its time, "a rollback can never dead-end an
in-process terminal transition". `run_control_clock` checks this and fails: the job's
and the run's own transitions compare the clock with the row's `updated_at_ms` and
refuse an earlier time (`repository.rs:8071` and below). After an evidence batch at time
1 and a clock set back to 0, the run can be ended neither in order nor by
acknowledging a cancel until the clock catches up or the store is opened again (the
reconcile pass takes the maximum, so it does get through). The repository's test
`leased_terminal_release_tolerates_a_clock_rollback` sets back only the lease's
heartbeat. No evidence is lost; the claim is too wide.

**HEIF.** The metadata extractor reads the Exif item of a HEIC file and reports it as
format `IsoBmff` with container `Tiff`, complete and without issues. The policy
knows no such pair (`policy.rs:504`): every date of the file is a mismatch of container
and format, and the decision is a conflict without a candidate. `src/README.md:17` names
"HEIF item Exif 提取" among the extractions that become time evidence, and
`docs/engineering/CAPTURE_TIME_EVIDENCE.md:96` and `:108` list it as supported and its
`DateTimeOriginal` as a strong source of a photo. `time_policy_heif` checks that a flawless
date with its offset, alone in such a file, is not decided to be a conflict, and fails.
No wrong time is recommended; none is recommended at all.

Smaller things the models show, which no run counts as a violation:

* A group that fails is recorded as failed when its draft is abandoned, at the present
time, and then once more at the time the session was begun (`time_bridge.rs:2290-2306`);
the store accepts a repetition only if it is equal (`repository.rs:1127-1144`). In any
later millisecond the stage then ends as partial and the groups after it get no outcome,
while `CAPTURE_TIME_EVIDENCE.md:196` says that the failure of a single group does not
affect the others. * When the answer of the commit that seals the session is lost, the
abandonment that follows is refused; likewise, after a clock set back, both finishing and
abandoning are. The session stays a draft until the next open (`CleanEnd` excuses both). *
The policy merges identical repeated tags of one Exif scope, the store refuses the
candidate that rests on them, and the group fails. Of a member of whose two file times
just one matches, the runtime says it differs and the store expects a match; the store
would then refuse the batch. The volume adapter reports no timestamp granularity yet
(`guiying-volume/src/profile.rs:393`), so this second case is latent. `StoreAgrees` names
these two cases as the only ones. * `block_equal_rank_near_ambiguity` compares only
candidates whose confidence is still high, so a near value that was lowered for another
reason bars nothing.

## 7. What is left

The components of the inventory that hold state and decide on the order of things are
modelled, and the safety properties checked of them are proved. What would add most from
here is to join the modules along the assumptions of section 5, first the one store of
`RunControl` with the process of `StoreOpen`.

Not modelled, with the reason:

* `guiying-volume`: system calls. Its identities are compared as equal or not.
* The one-shot scanner of `guiying-core` (`scan.rs`): sequential, keeps nothing, and the
  desktop program does not call it; the streaming core supersedes it.
* The parsers of `guiying-metadata`: sequential code over the bytes of one file, whose
  properties are of every byte string and not of any order of steps. What a report may
  hold is the input of `TimePolicy`.
* The history reader: keyset pages within one read transaction, which the database
  isolates from every writer. Who may read is in `Grants`.
* The registry of quarantine plans and restore roots (ages, caps, owners) and the
  listing of operations: the former is of the kind of `Grants`, the latter only reads.
* The front end, packaging and logging.
