# kubectl-hpa-status in TLA+

A verification project for `kubectl-hpa-status`, the kubectl plugin that explains
HorizontalPodAutoscalers, keeps a local health history, shows a terminal
dashboard and applies suggested patches.  Modules are checked with TLC; the
theorems are checked with TLAPS.  Paths below are relative to the repository
root (`src/` here).

## 1. The system and its parts

The program is a CLI: one process per command, no server.  What is stateful or
concurrent is therefore not "the program" but the things several of its runs
share (the cluster, the history directory, recorded files) and what happens
inside one long-lived run (the dashboard, watch loops, concurrent fetches).

| Part | State it keeps | Operations | Talks to | Hard behaviour | What makes it correct |
|---|---|---|---|---|---|
| Suggestion apply (`cmd/apply.go`, `internal/patch`, `pkg/hpa/policy`) | none of its own; a stamp (UID, resourceVersion) per suggestion | review, policy guard, dry-run, prompt, re-read, merged patch, opt-in sequential fallback | API server; called by status, list, TUI | other writers between any two calls; lost responses; a fallback that stops half-way | no lost update, all or nothing, policy holds for what is stored, consent before write, truthful report |
| Batch apply and patch export (`cmd/list_apply.go`) | batch entries | collect, confirm, execute; write export files | apply flow, file system | one entry fails, others go on | each entry tried and reported |
| Health history store (`internal/history`) | one JSONL file, one lock file per HPA; per-process decoded cache | Append, RecordAndLoad, PruneAt, LoadAt | other processes through the file | lock waits, crashes inside a write, compaction by rename, a cache that must not show | acknowledged records survive, the cache is invisible, garbage is bounded |
| Dashboard (`internal/tui`) | items, cursor, selection, fix wizard, batch state, history and simulation panes | key handlers, asynchronous results | fetch, apply, simulate, history | results arriving after the state they belong to is gone | stale results never shown or applied, nothing hangs in "loading" |
| Per-HPA pipeline (`cmd/parallel.go`) | a result slot per name | bounded fan-out, collect | kube client | scheduling, cancellation | outcome independent of the schedule |
| Observation snapshot (`internal/observation`) | once-only fetches shared by analysers | lazy loads | kube client | concurrent first use | one fetch per resource, errors remembered |
| Kube read layer (`internal/kube`) | none | get, list, paginate, retry | API server | 429/5xx, Retry-After, expired continue tokens | bounded retries, no page lost or doubled |
| Recorders (`cmd/timeline_record.go`, `cmd/analyze_record.go`) | a JSONL recording | open, append, rotate, sync | file system | interruption, partial last line | what was reported recorded can be replayed |
| Watch and timeline loops (`cmd/watch.go`, `cmd/timeline.go`) | previous report, ring of snapshots | tick, diff, alert | kube client, signals | slow fetch, cancellation, error streaks | bounded memory, ends on cancellation |
| Status and list pipelines (`cmd/status*.go`, `cmd/list*.go`, `internal/enrichment`, `internal/analysis`) | an analysis per HPA | fetch, analyse, enrich, finalise, render, exit code | nearly everything | best-effort enrichers failing | order of enrichment, warnings kept, exit code fits the report |
| Analysis rules, health score, scaling math, simulation, trends, capacity plan, policy and lint rules (`pkg/hpa/**`) | none (pure) | many | none | boundaries, rounding, zero replicas | agreement with the Kubernetes rules they restate |
| Options and configuration (`cmd/config*.go`, `internal/cmdoptions`) | options of a command | merge file, preset, flags; validate | none | precedence | explicit flags win |
| Rendering, styles, translations, completion, doctor | none | formatting | none | none | not modelled |

`PROJECT.json` lists all of them with their status.

## 2. Plan

Ordered by how much a wrong step costs the user.

1. **ApplyPatch** with **MergePatch** (patch algebra) and the abstract
   **AtomicApply** - the only writes to the cluster.  *Done, with proofs.*
2. **HealthStore** (over **HistoryFile**) with the abstract **SnapshotLog** - the
   only state shared by processes of the tool itself.  *Done, with
   proofs, the refinement among them.*
3. **TuiModel** - asynchronous results against a changing dashboard.  *Done, with
   proofs.*
4. **KubeRead**, **StatusRun**, **ListRun**, **Recorder**, **WatchLoop** - the
   commands that read the cluster, composed by **MCReads**.  *Done, with proofs
   of all their safety invariants.*
5. The rules of `pkg/hpa` and of the commands' options, pure functions on subjects
   that grow (section 7).  *Done, model-checked; what commands run with is proved.*
6. Left: the retrospective replay and the replay lab (`pkg/hpa/retrospective`,
   `cmd/replay_lab.go`), the GitOps review (`pkg/hpa/gitops`), the replay of
   recordings by `analyze --record` and the freshness of metrics.

## 3. Applying patches: MergePatch, ApplyPatch, AtomicApply

### What is modelled

`ApplyPatch` has any number of *sessions*.  A session is one run of
`status --apply` (the TUI's apply is the same call with `yes` set), one run of
`list --apply` over several HPAs, or one direct call of `executePatches`, which
the tests in `cmd/apply_paths_test.go` make ("exec").  Every API call of the
code is one action, so everybody else (editors, status updates, deletion,
re-creation, other sessions) can act between any two of them.

| Action | Code |
|---|---|
| `AnalyzeOne`, `AnalyzeList` | `runStatus` / `collectBatchEntries`: read HPAs, analyse, stamp suggestions |
| `AnswerBatch` | `confirmBatchApply` |
| `Review` | `applyTarget` + `guardAndMergePatches`: second read, UID and version check, policy guard per suggestion and combined |
| `ValidateOne`, `ValidateMerged` | `preValidatePatches` |
| `Answer` | `confirmApply` |
| `Recheck`, `DryRunMerged`, `PatchMerged`, `PatchNext` | `executePatches` |
| `Finish` | end of `executeBatchPatches` |
| `Edit`, `StatusUpdate`, `Delete`, `Create`, `Persist`, `Admits`, `Stored` | the API server and its other clients (external) |

The variables are the cluster (`hpa`, `revision`), what a session was given
(`opts`, `analysed`, `plan`), its control state (`pc`, `todo`, `cur`, `kept`,
`pending`, `reviewed`, `consent`), what it reported (`result`, `claimed`) and
`writes`, a history variable of what it persisted.

Abstractions.  A spec is a map from leaf paths to values and a patch a partial
one, so `null` (deletion of a path) and a patch that sets both a path and one
of its prefixes do not occur; `BadPatch` is text that is not a JSON object.  A
patch without effect keeps the object's version, as the API server does.
Suggestions are always stamped (API objects have a UID and a version).  Batch
entries are taken in any order, which covers the listing order.  Error texts
are classes: `stale`, `blocked`, `rejected` (an error before any live patch),
`unmergeable`, `unknown` (the live merged patch failed), `partial`.

A strict server's dry-run rejects text that is not a JSON object, so the
sequential fallback is reached only by a direct call of `executePatches`; the
model keeps it because the code and its tests do.

### Runs

| Run | Question | Instance |
|---|---|---|
| `apply_guarded` | Two sessions with a policy, prompts and dry-runs race each other and all other writers: `WritesOnlyWhatWasAnalysed`, `OneWinnerPerVersion`, `PolicyHoldsForPersisted`, `ConsentBeforeWrite`, `TypeOK`; `ImplementsAtomicApply`: the whole protocol is one conditional update of the analysed object | one HPA, specs `{min 1..2, max 2..3}`, the combination min 2 / max 3 critical although each part alone is not, 2 foreign revisions |
| `apply_batch` | Batches, direct executions, unmergeable suggestions, failing and lost calls: `BatchTriesEveryEntry`, `AllOrNothing`, `ReportMatchesWrites`, `SessionsFinish` | one session, two HPAs, `Faults = TRUE`: any read, dry-run or patch may fail, a patch also after it was stored |

Two sessions suffice for the pairwise conflicts the properties of `apply_guarded`
speak of; those of `apply_batch` are about one session's own steps, so other
writers stand for other sessions there.  Two
foreign revisions for "changed after the analysis" and "changed again after the
review", and re-creation needs a deletion and a creation.  `MaxRevision` bounds
only the other writers; sessions always may write.  Symmetry over sessions is
used in safety runs only.  Sessions end, so `CHECK_DEADLOCK FALSE`.

Fairness: `FairSpec` asks weak fairness of each session's own steps
(`Proceed`), since the process runs on unless it waits for a person; `Answer`
and `AnswerBatch` wait for a person and get none, nor does any other writer.
`SessionsFinish` therefore says "unless it waits at a prompt".

### Proofs (ApplyPatchProofs)

For all sets of sessions and HPAs, all suggestion lists, options and policies,
under `ApplyAssumption` and `BadPatchAssumption` only:

* `TypeCorrect` - `Spec => []TypeOK`;
* `NoLostUpdate` - `Spec => []WritesOnlyWhatWasAnalysed`;
* `OneWinner` - `Spec => []OneWinnerPerVersion`;
* `PolicyHolds` - `Spec => []PolicyHoldsForPersisted`;
* `ConsentHolds` - `Spec => []ConsentBeforeWrite`;
* `WholeWrites` - `Spec => []AllOrNothing`;
* `ReportsAreTrue` - `Spec => []ReportMatchesWrites`;
* `BatchIsComplete` - `Spec => []BatchTriesEveryEntry`;
* `ApplyIsAtomic` - `Spec => ImplementsAtomicApply` when no session may use
  `--allow-partial`, whose fallback writes one suggestion after another on purpose.

The first properties are not inductive.  `SafeInv` adds: `Versions` (nothing a session
analysed or stored is newer than the cluster, and if the cluster still has that
version it still has that very object), `Remembers` (the version a session's
next conditional write asks for is the one it analysed, or the one its previous
write stored), `Grows` (a write that changes the object gives it a newer
version) and `DistinctBases` (no two effective writes of anybody start from the
same version).  `Versions` is what turns the code's comparison of version
*numbers* into equality of *objects*.  The type invariant is split in four
groups so that each action proves only what it touches.

The other properties are about what one session does, so their invariant
`ApplyInv` adds to `SafeInv` a `SessionInv` for each session, in five parts:

* `Reviewed` - a session that is applying has kept exactly what its review of the
  analysed object let through, sends it merged if it merges, and is in the
  sequential fallback only with `--allow-partial`;
* `Open` - an HPA still to be concluded has no outcome yet;
* `Accounted` - for each HPA, how many writes there are and how many suggestions
  are claimed agree with the outcome (`AccountedFor`; inside the sequential
  fallback, `Applying`: claimed and pending suggestions together are the kept
  ones), and a write is the whole intended spec unless it is one of the fallback's
  (`WholeOrPartial`);
* `Agreed` - past the prompt there is consent and no dry-run;
* `Batched` - an entry of an agreed batch is concluded, current or still to do.

A session's step changes only its own variables and one object of the cluster, so
each action proves the invariant of its own session, and one lemma carries it for
all others.  `AllOrNothing` and `PolicyHoldsForPersisted` read off
`WholeOrPartial`: in block mode the spec stored is the very one the policy was
evaluated on.  `ApplyAssumption` says of the options that a direct call of
`executePatches` is never a dry-run: it has no such parameter.  For the refinement, an analysis is the abstract session's look at
the cluster and the merged patch its one conditional update; every other step
leaves the abstract state alone.  What it needs of the invariants is that the
merged patch replaces the analysed object (`NoLostUpdate`) and is its session's
first (`Accounted`).

`SessionsFinish` is liveness and model-checked only.

## 4. The health history: HistoryFile, HealthStore, SnapshotLog

### What is modelled

One history file, which every run of the tool (and every goroutine of a run that
analyses several HPAs) reads and writes under an advisory lock.  `HistoryFile`
holds the pure parts: the scan that classifies lines against a cutoff, its
narrowing to a later cutoff, the insertion of a new snapshot and the compaction
rule.  `Among(s, S)` is the part of a sequence that is in a set, which is how
scans, windows and rewrites select lines; `InTimeOrder` is the stable sort.
`HealthStore` has *workers* (goroutines that call the store), each in a
*process* with one decoded cache.

| Action | Code |
|---|---|
| `Begin`, `Lock`, `GiveUp` | `lock.go`: poll for the lock until the deadline |
| `Scan` | `cachedHistoryScan` (`scan_cache.go` load and store), then what each operation does with it |
| `AppendLine` | `appendSnapshotLine` |
| `Stage`, `Rename` | `replaceSnapshots`, up to the rename and from it |
| `Save` | last part of `RecordAndLoad` |
| `Evict` | other streams push this one out of the LRU cache |
| `Crash` | the process ends at any point and is run again |

Variables: the disk (`file`, `torn`: the last line lacks its newline), `lock`,
each process's `cache`, each worker's control state (`pc`, `request`, `mine`,
`scan`), and for the properties `answer`, `recorded`, `acked` and `purged`.

Abstractions.  A snapshot is its time and its number; the payload does not
influence the store.  A missing file is `None`.  A cache entry is `current` as
long as the file has not changed since: the code compares identity, size and
modification time, and the model assumes that this notices every change.  A
cached scan is stored with the cutoff it was made for; it answers later cutoffs
only.  Each call brings a time of its own, so clocks may step back and calls may
take the lock in another order than they read the clock.  A process that dies in
the middle of a write leaves what a failed write leaves, so `Crash` follows a
failing `AppendLine`.  Left out: the stray temporary file of a crash between
staging and renaming (nothing reads it) and power loss (the rename is not
followed by a sync of the directory; the store claims nothing about it).

### Runs

| Run | Question | Instance |
|---|---|---|
| `store_shared` | Two processes append, record, prune and load one file, operations fail and processes die: `TypeOK`, `MutualExclusion`, `CacheExact`, `AckedStaysReadable`, `AnswersInOrder`, `GarbageBounded`, and `ImplementsSnapshotLog`: all of it is one atomic log | times 1 and 2, spans 0 and 1, files that hold a damaged line or two snapshots out of time order, up to two new snapshots |
| `store_returns` | `CallsReturn` | three workers in two processes, a missing file, torn writes |
| `store_torn` (violation) | `CacheExact` when a failing write may leave part of a line | two processes |

`CompactAt` is 2 instead of 64, so that both halves of the rule (enough expired
lines, or half of them) occur with a handful of lines.  `MaxSnapshots` counts the
lines found on disk too; it bounds how much is recorded, not how many calls are
made.  Two times with spans of 0 and 1 give snapshots that are retained, expired,
and exactly at the cutoff, and a second call whose window is wider, equal or
narrower than what is cached.  Two processes are enough for "another one changed
the file", and two goroutines of one process appear in `store_returns`.

Fairness: every step a worker can take (`Proceed`) is weakly fair, for it runs
on; nothing makes it get the lock - the wait has a deadline, so `GiveUp` is
always possible while it waits.  `Begin`, `Evict` and `Crash` are not fair.

### Proofs (HistoryProofs, StoreProofs)

For any processes, workers, requests, clocks, retentions and initial files,
without the bounds on snapshots:

* `StoreTypes` - `Spec => []TypeOK`;
* `Exclusive` - `Spec => []MutualExclusion`;
* `NothingRecordedIsLost` - `Spec => []AckedStaysReadable` when no write is torn;
* `StoreIsAtomicLog` - `Spec => ImplementsSnapshotLog` when no write is torn;
* `OrderOfAnswers` - `Spec => []AnswersInOrder`, torn writes included;
* `CachesAreInvisible` - `Spec => []CacheExact` when no write is torn;
* `GarbageStaysBounded` - `Spec => GarbageBounded` when no write is torn.

`StoreAssumption` says what the constants must be.  One of its conjuncts is about
the start: no snapshot of a file found on disk has a number above the count of
its lines, so that new ones get new numbers, and those of one time are numbered
in the order of their lines.  The code keeps no numbers; they stand for the order
of recording, and numbering the lines of a file from top to bottom satisfies the
conjunct whatever the file holds.  Four theorems have `~TornWrites` as an
assumption: a glued line loses an acknowledged snapshot and makes the cached
counts wrong, as finding 1 and `store_torn` show.

`HistoryProofs` has the lemmas about sequences: what `Among` keeps and that it
keeps the order (induction as a least counterexample over the partial results);
that every line has a rank in the order of time and every rank a line
(`RanksTaken`, by counting), so that `InTimeOrder` is a sorted permutation; that
inserting the newest snapshot keeps a sequence sorted; that two sorted sequences
of the same snapshots are equal (`SortedUnique`).  `Exact(scan, c, lines)` says
what a scan with cutoff `c` knows of a file - the count of readable lines, how
many of them it dropped, the damaged lines, all newer snapshots in order - and
`ScanExact`, `NarrowedExact`, `AppendedExact` and `RewrittenExact` show it of
every way the code gets a scan, `ExactUnique` that it determines the scan.

The inductive invariant of `StoreProofs` has four layers.  `Base` is the types and
`Phases` (who is in which phase with which call, and that only the holder of the
lock is in a critical one); it gives the first two theorems.  `Intact` adds what
the code keeps outside the file: `Numbered` (nothing readable is newer than the
last number given), `CallersKnow` (what a worker scanned is still what the file
holds, and what it is about to write is not there yet; this is where the lock
matters), `CachesKnow` (an entry that is still current agrees with the file on
everything after its cutoff) and the property.  Without `CachesKnow` a compaction
that trusts the cache could drop acknowledged lines.  The refinement maps the log
to the readable snapshots and an answer's window to its set of snapshots:
`Lock` is the abstract call getting its turn, a write or a rename its effect,
`Return` its answer, `Crash` the callers' death; scans, staging and evictions are
abstract steps without effect.

The order of answers is a layer of its own over `Base`, for it survives torn
writes: `Ordered` says that lines of one time stand in the order they were
recorded, that every cached or scanned sequence is sorted, and that the snapshot
a call is about to store is newer than all that is stored, cached or scanned
(`Newest`, which the lock gives).  The last is needed because the window of a
record is computed by inserting into the scan, after those of the same time,
never by reading the file back.  `Faithful`, over all three, says that what a call
scanned, what it is about to cache (`Written`) and what is cached and current are
`Exact`, and that a call appends only when its scan did not ask for a rewrite.
`CacheExact` follows by uniqueness.  `GarbageBounded` follows because the counts
the decision was made from are then the counts of the file: without `Faithful`
a count that drifts by one with each appended line would let garbage pile up.

## 5. The dashboard: TuiModel

### What is modelled

Bubble Tea runs one event loop; commands run in goroutines and their results
come back as messages, any number of them in any order, each with what it is
about as the code's message carries it.  `inflight` is the bag of results to come.

| Actions | Code |
|---|---|
| `StartFetch`, `FetchAnswered` (`Fetched`, `FetchFailed`) | `updateTick`, the refresh key; `updateFetchResult`, `refreshFixStateAfterFetch`, `pruneStaleSelections`, `refocusAndClampCursorAfterFetch` |
| `MoveCursor`, `Rearrange`, `Select`, `BatchApply`, `BatchAudit`, `OpenView` | list keys (`update_keys.go`, `update_batch.go`) |
| `OpenFix`, `MoveFix`, `EnterFix`, `DryRun`, `FixAnswered` | the fix wizard (`submodels.go`, `view_controller.go`, `update_simulation.go`) |
| `OpenSim`, `RunSim`, `OpenReplay`, `OpenHistory` and their answers | the panes (`update_simulation.go`, `update_history.go`) |
| `ToggleHelp`, `Escape` | the view stack (`view_controller.go`) |

`epoch` is `fixEpoch`, `request` is `fetchRequestID`, `under` is
`helpReturnView`; `selected` keeps, besides the name the code keeps, the UID the
HPA had, so that a property can tell namesakes apart.  Whether the dashboard was
started with live apply (`live`) is chosen at the start.

Abstractions.  Text entry (it only withholds keys), scrolling, the refresh timer
and pausing (a refresh may start whenever none runs), status and error texts,
sparklines and replica history are left out.  Sort and filter depend on data left
out, so they may leave any order of any subset of the HPAs.  What a refresh finds
is chosen when its result is delivered, which is the same to the loop.  Objects
always have a UID, as API objects do.  The request number of a refresh is kept
but never differs, because `loading` admits one refresh at a time.

### Runs

| Run | Question | Instance |
|---|---|---|
| `tui_wizard` | `WizardFollowsData`, `OutcomeIsOwn`, `TypeOK`: refreshes reorder, drop and replace HPAs while applies and dry-runs are on their way | two HPAs, keys of the list, the wizard, help and escape |
| `tui_batch` | `PreviewIsCurrent`, `ConfirmedOnly` (single applies too: the wizard's keys are among those of this run), `WaitingIsAnswered`, `WaitsEnd` | one HPA, every key, with live apply and without |
| `tui_history` (violation) | `HistoryIsAnswered` | one HPA, history, help and escape |

`MaxRequests` bounds refreshes, `MaxBirths` re-creations of a name, `MaxEpoch`
how often the wizard is opened, `MaxInFlight` the results to come.  A stale result
needs one command, one refresh or re-opening and one more key, all within the
bounds; re-creation needs a second birth.  `Keys` keeps the two passing runs
apart: the wizard and the batch do not share state except the refresh, which
both have.

Fairness: each command returns, so delivery of refreshes, audits and replays is
weakly fair (`FairSpec`); the user's keys are not.

### Proofs (TuiProofs)

For any finite set of names, any suggestions and keys and whatever the bounds:

* `WizardKeepsItsObject` - `Spec => []WizardFollowsData`;
* `OutcomesBelong` - `Spec => []OutcomeIsOwn`;
* `PreviewHolds` - `Spec => []PreviewIsCurrent`;
* `NothingUnconfirmed` - `Spec => ConfirmedOnly`;
* `WaitsAreAnswered` - `Spec => []WaitingIsAnswered`;
* `StateIsTyped` - `Spec => []TypeOK`.

`OutcomeIsOwn` is not inductive: it needs `ResultsDisowned`, that a wizard result
to come carries an epoch that has been, and if it is the current one and a wizard
is open, it is about that wizard.  Opening a wizard and every refresh raise the
epoch, which disowns all of them at once; between two such steps the wizard does
not change its HPA or suggestions (`WithinWizard`).  `NothingUnconfirmed` needs
`ConfirmInv`: what is armed is what is shown, and the preview is current.  With
`WizardFollowsData` the target sent - taken from the last fetched data - is then
what was armed, incarnation included.  Bags are counted, so `ConfirmInv` also
says that `inflight` is one: a taken result is never mistaken for a sent command.
`WaitInv` adds to `WaitingIsAnswered` only that the panes are the records they
are; what makes it hold is that an answer's kind says which wait it ends, and that
no two waits are ended by one kind.  `TypeInv` is `WizardInv` with the types of
each part of the state, one lemma for each part.  It needs the other direction of
what the wizard relies on: every row is a fetched HPA, so a selection, a command
or a pane started from a row is about an HPA with a UID.  `Names` is assumed
finite (a cluster lists finitely many HPAs), so that the rows are a sequence.

## 6. The commands that read: KubeRead, StatusRun, ListRun, Recorder, WatchLoop

### What is modelled

`KubeRead` holds what all of them share: what an answer means, when a call goes
out again (three attempts, transient errors only) and the guard against a
continue token that was followed before.  `MCReads` composes the others: one
command runs, `command` says which.

| Module | Actions | Code |
|---|---|---|
| `StatusRun` | `StartJob`, `Finish` (helper `End`) | `mapPerHPA`, `collectPerHPA` (`cmd/parallel.go`), the exit code (`cmd/exitcode.go`) |
| | `NextDiagnosis`, `EndDiagnosis` | the tasks of `enricher.go` in their order, the checks of the context in `enrichment/pipeline.go` |
| | `BeginRead`, `SkipRead`, `Reply`, `Resume` (helpers `Settle`, `Keep`) | one read through `internal/observation`, with `internal/kube/retry.go` under it; reads shared by all jobs go through a gate only the first one passes |
| | `FoundOnNodes` (helper `Readings`) | `detectClusterAutoscalerWithNodes`: a listed node with the autoscaler's annotation answers without a call; else one `Get` that is never retried, whose NotFound says there is none unless the nodes could not be listed |
| | `Cancel` | Ctrl+C |
| `ListRun` | `PageArrives`, `PageFails`, `PauseEnds`, `FinishList` | `cmd/list.go`, `internal/kube/pagination.go` |
| `Recorder` | `CollectFirst`, `Inspect`, `WriteLine`, `SyncFirst`, `Recheck`, `Publish`, `Tick`, `SyncBatch`, `Stop` and their failures; `PowerLoss` | `cmd/timeline_record.go`; `Track` is the summary |
| `WatchLoop` | `PollDone`, `PollFails`, `TickArrives`, `StopLoop` | `cmd/watch.go`, `cmd/timeline.go` |

A job's `log` and what reads are `late` (after the cancellation) are history
variables.  Abstractions: an answer is one of ok, missing, busy, refused; what a
read returned is left out beyond whether it is known, nothing or failed; a list
of several pages counts as one read in `StatusRun`, and `ListRun` walks pages.  A
recorder's file is its lines and how many of them survive a power loss; whether the
destination changed is told by its identity and its size, and its modification time
and permissions are left out.  The
length of pauses is left out.

### Runs

| Run | Question | Instance |
|---|---|---|
| `reads` | `ReadsOnce`, `FailuresShow`, `NoTruncatedReport` (status and blockers), `ListIsWhole` (list), `AnnouncedIsDurable`, `SummaryMatchesFile` (recorders), `WindowIsLatest` (loops), `CommandEnds` | two names, one or two at a time, thirteen sets of flags, one with a target of an unread kind, both at their maximum (`AtMaximum`: the capacity plan reads for these only); three pages, one name in two namespaces, ten queries; two recorders of one destination; four polls, a window of two |
| `list_order` (violation) | `StreamedAsAccumulated` | as above, a list without options |

`MaxFaults` is 1: one failed answer is remembered, shared, retried or dropped,
and a cancellation adds any number of further ones.  The list meets up to three
faulty answers, so that a call fails for good after its attempts and a token
repeats.  Two jobs suffice for "another one wants the same observation", two
recorders for "another one took the destination".

Fairness: every job is a goroutine of its own and every call to the server ends
in an answer or an error, so each `JobStep` and the list's steps are weakly fair;
the user's Ctrl+C, ticks and recorders are not.

### Proofs (ReadProofs)

* `EveryReadOnce` - `RunSpec => []ReadsOnce`, for any number of names, any flags,
  concurrency, faults and interleaving;
* `EveryFailureShows` - `RunSpec => []FailuresShow`, and `NothingIsTruncated` -
  `RunSpec => []NoTruncatedReport`, for the same;
* `ListsAreWhole` - `ListSpec => []ListIsWhole`, for any pages, query, failures and
  repeated tokens;
* `RecordingIsDurable` - `RecordSpec => []AnnouncedIsDurable`, and `SummaryIsTrue` -
  `RecordSpec => []SummaryMatchesFile`, for any number of recorders of one
  destination, any batches and any limit on the changes listed;
* `TimelineIsLatest` - `WatchSpec => []WindowIsLatest`, for any window size and
  number of polls.

`RunSpec`, `ListSpec`, `RecordSpec` and `WatchSpec` are the safety parts of one
command alone, of which the `reads` run is the composition.  `ReadsOnce` speaks of the log only; `ReadInv`
relates it to what the code remembers: a read whose answer is not remembered is
not in the log (`Remembered`), a shared read in anybody's log was made by the job
that passed its gate, and the read in progress is in nobody's log
(`InProgress`).  `BeginRead` keeps it because a diagnosis only ever asks for what
is unknown (`NextReadIsOpen`), and never for the HPA itself (`WantedReads`, a
case for each diagnosis).  `RunInv` adds what the report owes to the reads, for
each job (`Told`): it reads only for the diagnosis it is in, and what depends on
the target only when that is known (`Placed`); a diagnosis that is over shows
every read it rests on that failed, and one it never made it can no longer make
(`Shown`); what is in a log is what is remembered, and late only after Ctrl+C
(`Agrees`); a warning about a shared read is true (`Warned`); and no finished
status report shows a read that the cancellation broke, in its own log or in that
of the job that read for all (`Untruncated`).  The last part needs `Warned`: a
shared read that failed late was not remembered as failed when a report finished
before it.  `WatchInv` adds to `WindowIsLatest` that a loop which
has not met its condition saw no report that has it.

`RecordInv` ties a recorder to its file (`Vouched`): the file is its own, what it
told is synced and untorn, the lines written since are a beginning of the batch
under way (`UnderWay`), and for every HPA the summary counts what `TraceOf` finds
in the lines told (`Counted`).  Noted changes are measured against the last line
only while the HPA is in every batch, so `Counted` says exactly as many changes
then and no more than that otherwise.  That a batch names an HPA at most once is an
assumption, which the API server's list grants: a batch is tracked HPA by HPA.
A file is told by its number, never by
the directory entry, so another recorder's rename disturbs nobody's; a power loss
cuts every file to what is synced and stops everyone (`Lost`, `Cut`).
`ListInv` says what a walk has done so far (`Walked`): the pages before the current
one are kept or their rows printed, each once, and the tokens followed are those
of these pages.  Filtering page by page is filtering the whole (`ListedJoined`),
and a stable sort permutes (`SortedRows`): every key orders the rows strictly and
rows that do not compare are alike to all others (`BeforeIsOrder`), so each
position has a rank of its own (`RanksOf`).  What `FlattenSeq` computes is reached
through the uniqueness of the function it chooses (`FlattensUnique`).

## 7. The rules: subjects that grow

The rules of `pkg/hpa` keep no state.  Each is an operator of a module without
variables; what several commands compute from one input is where they can
disagree, and what a user does with one answer is the input of the next.  So they
are checked on *subjects* (`RuleSubject`): the data one command looks at, which
grows by one step at a time.  A subject starts as a topic; `...Asked` reads its
first input, every other action lets one more thing happen to it.

| Checks module | Topics and steps | Modules of rules and their code |
|---|---|---|
| `ProjectionChecks` | a rollout and its next evaluation; a scenario and its next override | `HpaObject` (metric identity, tolerance, rate policies), `BehaviorPath` (`cmd/behavior.go`), `Simulation` (`pkg/hpa/simulate`) |
| `DiagnosisChecks` | an HPA's health and each enrichment attached, reconciled, published; advice and its acceptance; assumptions and their overrides | `HealthScore` (`health.go`), `DecisionTrace` (`decision_*.go`, `metric_trace.go`), `Diagnostics` (`interpret.go`, `diagnostic_rules.go`, `suggestion_rules.go`, `assumptions.go`) |
| `TrendChecks` | rescale events, scores and recorded days that arrive | `Trends` (`flapping`, `churn`), `HealthTrend` (`healthtrend`), `Seasonality` (`seasonality`) |
| `PlanningChecks` | a cluster whose replicas start and whose reads fail; a workload whose pods appear | `CapacityPlan` (`capacityplan`), `ScaleOut` (blockers, rollout, readiness, warm-up), `ScalePath` (`scalepath.go`) |
| `RuleSetChecks` | policy rules and fixes in turn; manifests of a directory | `RuleSets` (`policy`, `lint`, `audit`, behavior advisor, `cmd/tune.go`) |
| `AutoscalerChecks` | HPAs, VPAs, ScaledObjects that appear, reads refused, advice taken | `Autoscalers` (`keda`, `vpa`, `autoscalermap`, `internal/enrichment`, `cmd/conflicts.go`, `cmd/ownership.go`) |
| `SettingChecks` | a command line and a config file that grow by a key, a flag, a switch | `Settings` (`cmd/config*.go`, `cmd/options_validation.go`, `internal/cmdoptions`) |

Every grouped property is an action property over the subject just reached (or
the step to it), so it is evaluated once per step.  One property for each checks
module, with these parts:

* `ProjectionsKeepRules` - a walked rollout adds or removes in no period more
  than its policies allow (`WalkKeepsRates`); a scenario stays within its bounds,
  higher readings never shrink it, its metrics explain it, each override is in
  force and the trajectory reaches what it promises (`ScenarioHolds`).
* `DiagnosesAgree` - penalties count once whatever the order of enrichments, and
  after a round through JSON (`HealthCountsOnce`); statements, actions, signals,
  trace and health say the same (`VerdictsAgree`); a suggestion's patch does what
  its title says, touches nothing else and leaves bounds the API server admits, also
  after others were accepted and when all are applied together (`AdviceHelps`); a
  nearer source of an assumption wins (`AssumptionsRanked`).
* `HistoriesReadTrue` - flapping, churn and prevention read the same events alike;
  the fixes of a diagnosis and the patches for churn never shorten the configured
  window and keep the configured policies, while prevention, which always weighs 300
  and 600 s, may offer a shorter window, but then also a longer one that leaves no
  more flips (`StabilityAgrees`); trends do not
  depend on the order of arrival (`TrendsReadTrue`); a schedule fires before the
  peak it is for, also across midnight and the end of the week
  (`SchedulesPrecede`).
* `PlansHold` - a plan that is called safe can be carried out replica by replica
  on whatever nodes the scheduler picks (`SafeIsPossible`, `StartsKeepSafe`);
  what could not be read never makes a plan safer (`DoubtIsNeverSafe`);
  blockers, scale path, doctor, rollout report and warm-up agree on the same
  stalled replicas (`ReportsAgree`).
* `RuleSetsAgree` - lint, audit, the advisor and policies agree on one HPA, a fix
  removes its finding whatever was fixed before, `tune` passes its own profile, a
  longer policy file is at least as strict, and the verdict on a directory does
  not depend on the order of its files.
* `AutoscalersAgree` - single and batch commands find the same controllers, a
  refused read stays local and is told, conflicts' advice resolves them, the
  map's summary follows from its layers.
* `SettingsHold` - a flag decides alone (`FlagsWin`), no switch is left without
  what it implies (`NothingLeftToImply`), a switch only adds (`SwitchesAdd`),
  events are those asked for (`EventsAsAsked`), and a valid config file breaks no
  command it is not about (`FileHarmsNobody`).

| Run | Question | Instance |
|---|---|---|
| `rules` | the seven properties above | about 324 000 subjects: the sets in `MCRules`, each built around the boundaries of its rules (zero replicas, a count outside its bounds, a reading at the tolerance, missing and doubled metrics, times across midnight) |
| `unread_keda` (violation) | `UnreadKedaIsSkipped` | as above |

Bounds: `MaxEdits` 3 overrides, `MaxAccepted` 2 suggestions in turn,
`MaxSnapshots` 4 and `MaxDays` 4 entries of a history, `MaxUnread` 2 reads that
fail at once, `MaxPods` 3, `MaxChanges` 2 fixes or policy rules, `MaxManifests` 3,
`MaxEvents` 3 in a namespace, `MaxGiven` 2 keys, flags and switches beyond a
profile.  They cover what the properties compare: one step undone by a second,
and a third that sees both.  `MaxReplicas32` stands for the largest int32, so
that the clamp to it occurs.  Quantities are whole numbers (milli-units where the
code rounds); cycles of seasons, thresholds of anomalies and the like are
constants with the code's values or, where the code counts long runs
(`StuckRun`, `MinSnapshots`), smaller ones.  A subject that is complete stops, so
`CHECK_DEADLOCK FALSE`.

### Proofs (SettingProofs)

`SettingsAreConsistent` - `SettingSpec => SettingsHold`, for every value of every key of
the config file and of every flag, any profiles and commands, and any set of switches,
given in any order.  `SettingSpec` is the part of the `rules` run about settings.

`SettingInv` says what a subject can be (`Legal`): a record whose file and flags have
the keys they have (`SettingAssumption`), with flags the command knows, switches only
where the command has some, and a profile only for `status`.  The passes of
`Normalize` are reduced to one table, the switches that bring one along however
indirectly (`Causes`, `Normalized`): it is closed (`CausesClosed`), so normalizing twice
is normalizing once (`NormalizedOnce`), and no preset asks for a switch without what
that implies (`PresetsAsk`).  Switches add because the table is monotonic but for what
`--no-interpret` mutes (`OneSwitchLess`), and every enrichment asks for some switch
(`EnrichmentsGrow`).  Flags win, and foreign keys do no harm, because a command runs
with what was chosen and nothing else (`OutcomeFollows`).

## 8. Findings

* **A torn line is reported as recorded** (`store_torn`,
  `internal/history/store.go:121`).  A write that fails half-way leaves part of a
  line without a newline.  The next record is glued to it, so neither decodes;
  it is nevertheless reported as recorded and cached as written.  Its own process
  goes on reading it from the cache, everybody else reads a corrupt line.
* **The history view loads forever** (`tui_history`,
  `internal/tui/update_history.go:47`).  The answer is dropped unless the history
  view is on the screen.  If it arrives while help is open over the view, it is
  lost; the view waits until it is closed and opened again.
* **A streamed list has another order** (`list_order`, `cmd/list.go:184`).  The
  comment says streaming never changes existing output; rows stream in the
  server's order (namespace, then name), the accumulated path sorts by name, or
  worst first with `--problem`.
* **An unreadable ScaledObject looks inactive** (`unread_keda`,
  `cmd/autoscaler_map.go:210`).  A refused read becomes an inactive KEDA section
  and then a high blocker "triggers are inactive", where the comment says it is
  skipped.

### Seen while modelling, kept in the models, without a run

Dashboard and recordings: a failed refresh raises the epoch and so disowns the
outcome of an apply or dry-run already on its way; a dry-run so disowned leaves
"validating" on; results of audits and simulations carry no key, so those of an
earlier one are taken by a later one; a selection passes to a namesake that
replaced the HPA between two refreshes; the history key without a row sets
loading for good (`update_keys.go:105`), and leaving help may return to a fix
view without a wizard (`update.go:118`).  One torn line makes a recording
unreadable (`timeline_load.go:38-40`); the check of a recording's destination and
its rename are two steps; `blockers` after Ctrl+C succeeds with warnings; a name
that is not found exits with 3 alone and with 1 among others.

Options: `namespace` in the config file makes `-A` fail, although `docs/usage.md`
says explicit flags win; `output: junit`, `sarif` or `github` there is accepted
and breaks every other command; a template whose name has capitals cannot be
selected, because `--output` is lowercased first; `--format` is lowercased only
after it was looked at (`root.go:102-105`), so `--format STRUCTURED` is accepted
and implies nothing; `status --churn-detect` alone looks at no events; presets of
`doctor` and `bundle` put their own KEDA, VPA and events modes over the file's;
`history` asks for the trend without its anomalies; the presets `blockers` and
`capacity-plan` belong to no command; `list --apply --health-score=100` passes as
a bounded set.

Plans and reports: a node-less cluster and pods that request nothing schedule any
number; an unknown disruption budget or autoscaler may leave a plan safe where a
comment says all checks must pass; blockers say "none" when nothing could be read
and no scale-out is wanted; the rollout summary may see no risk beside listed pod
issues; the "new" ReplicaSet is the first active one listed, maybe the old one
(`cmd/rollout.go:166-202`); the doctor counts completed pods as missing metrics;
`AnalyzeWarmup` is called by no command; a quota with hard 0 is never near its
limit.

Rules and advice: a general tolerance given with a directional one wins;
`buildSimulationInterpretation` prints the wrong desired count as the later one;
the confidence "overridden" never occurs; a tolerance of 0.05 is suggested where
a lower one is set; prevention windows are not capped at 3600 s while the API
caps them; prevention weighs 300 and 600 s whatever is configured
(`pkg/hpa/flapping/flapping_prevention.go:23-26`, `110-140`), so that for a window of
1800 s it also offers a patch that shortens it, and where that one comes first the
summary still speaks of "increasing to" it (`:248`); for scaleDown rules
that are Disabled and name no policies the diagnosis offers `selectPolicy: Max` with a
policy (`pkg/hpa/flapping/flapping_causes.go:107-115`) where churn keeps scale-down
disabled (`pkg/hpa/churn/churn.go:296-317`), but the API server fills in policies that
are left out and refuses an empty list, so `TrendAssumption` leaves such rules out;
lint's two utilization fixes undo each other when both are applied; lint flags
utilization under 20, audit and policy under 30; replica ranges are compared exactly by
policy and as integers by audit and lint; `tune --goal cost-saving` is flagged by
`audit --profile cost`; an unknown policy rule reports "info" and the command
still exits with a warning.

Other controllers: the map gives no warning when the VPA or the node autoscaler
could not be read; nodes are healthy when all of them are cordoned; `conflicts`
is silent without a client or discovery; a VPA without a target name is found by
single commands only; a ScaledObject without the kind of its target never matches
by target; ownership counts the controller manager as foreign.

## 9. Model-checked only, and not modelled

Liveness (`SessionsFinish`, `CallsReturn`, `WaitsEnd`, `CommandEnds`) depends on
fairness and is out of the prover's reach.  Of the rules of section 7, six properties
are model-checked only: they rest on folds, choices of a maximum and integer rounding
over sequences of data, which would have to be unfolded by induction.  Every safety
invariant and action property of the other passing runs, and `SettingsHold`, is
proved.

Not modelled, with the reason (each with its status in `PROJECT.json`):

* the retrospective replay and the replay lab: planned; they recompute the
  recorded snapshots with the rules of section 7;
* GitOps export and review: text of manifests made from suggestions that
  `Diagnostics` and `RuleSets` already model;
* bundles and their redaction: archive writing and patterns on text;
* metrics contract probes: three reads, whose sharing `StatusRun` models, and the
  text of fixtures;
* rendering, terminal styles, translations, completion, version and
  compatibility commands: formatting of finished reports, without state;
* a power loss under the history store (its directory is not synced after the
  rename) and the temporary files a killed process leaves: nothing is promised
  about either.
