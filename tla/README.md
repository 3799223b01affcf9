# Verification of fluent-task-runtime

TLA+ specifications of the task runtime (`src/`), the TLC configurations that
check them on small instances, and proofs that TLAPS checks for every value of
the constants. File references are relative to `src/`; `PROJECT.json` maps
every definition to the lines it models.

| What | Modules |
|---|---|
| a run: HTTP handler, executor, docker CLI, daemon, container | `RunExecution`, `RunExecutionProofs`, `MCRunExecution` |
| what a run promises, abstractly, and that `RunExecution` implements it | `RunContract`, `RunContractProofs` |
| what becomes of the tests in a container, from node:test to the answer | `NodeHarness`, `NodeHarnessProofs`, `MCNodeHarness` |
| the counters and their scrapes | `Metrics`, `MetricsProofs`, `MCMetrics` |
| the start of the runtime: joining tasks, release and families | `Catalogue`, `CatalogueProofs`, `StartProofs` |
| the generator of the next release, composed with `Catalogue` | `ReleaseGenerator`, `StartProofs`, `MCCatalogue` |
| the portfolio, its validator and the backlog generator | `Portfolio`, `PortfolioProofs`, `Backlog`, `BacklogProofs`, `MCBacklog` |

To check: `tlc -config RunPair.cfg MCRunExecution.tla` and so on for each run
below; `tlapm RunExecutionProofs.tla` and so on for each `*Proofs` module.

## 1. Inventory

### Run executor (`internal/engine/docker_executor.go`)
*State:* nothing that outlives a run but what lies outside the process: a
workspace directory per run, and containers in the docker daemon, addressed by
a name made of the task id and the client's `correlationId`. *Operations:*
`Run` (verify the image, validate the files, fill a workspace, run
`docker run --rm --name ...`, `docker rm -f` the name, classify the outcome,
remove the workspace) and the probe `Ready`. *Hard:* the CLI is killed by a
context, which does not recall a request the daemon already has; the cleanup
addresses a name and not a container; it is bounded and its error is dropped;
the deadline is read again after the cleanup; a restart leaves containers and
workspaces that nobody looks for. *Correct when:* a verdict is always that of
the run's own harness, ended well; a cleaned-up run never runs again; nothing
that the gates refuse reaches the daemon; every admitted request is answered.

### HTTP server (`internal/httpapi/server.go`)
*State:* `runtimeMetrics`, five atomic counters. *Operations:* `POST /v1/runs`
(decode, gate, run, count), `GET /v1/tasks/{id}/workspace` with the same gate,
the read-only lists, the health probes, `/v1/metrics`. One goroutine per request; it
calls the catalogue (immutable after start) and the executor. *Correct when:*
the gate and the executor together let through exactly the servable tasks, what
the lists advertise is what is served, the counters are those of the answers
given, and a scrape can be read as a scraper reads it. *Hard:* a scrape loads five
counters one after the other while requests change them.

### Task catalogue and release (`internal/engine/catalogue.go`, `cmd/runtime/main.go`)
*State:* the task table and the release manifest, written during the start and
only read afterwards. *Operations:* `NewCatalogue`, called once by `main`, which
exits on an error; lookups. *Hard:* three sources (directories, release
manifest, TaskFamily manifest) describe the same revisions, are read one after
the other without a lock, and overrule each other row by row. *Correct when:*
the start succeeds exactly with a consistent deployment; a task is runnable
only if every source says so; a release is served whole or not at all.

### Task families (`internal/engine/families.go`)
*State:* the family projection served under `/v1/task-families`. *Operations:*
loading and validating the manifest, `bindTaskFamilies`, `ListFamilies`. *Hard:* the directory is
hashed when it is bound, long after its descriptor was read, and is read again for
every workspace and run. *Correct when:* the projection never disagrees with
the table, and what is handed out is what was pinned.

### Portfolio and backlog (`internal/engine/portfolio*.go`, `cmd/portfolio-backlog`)
*State:* two files, the JSON backlog and its Markdown page. *Operations:* one
process per run of the generator: read and validate the portfolio, validate it
against the families, read the families again, build items, sort, number waves, write both files or compare
(`--check`). *Hard:* the family manifest is read twice, the files are written
one after the other, authors change the inputs. *Correct when:* the queue is
exactly the gap between plan and reality and reaches the target, its order can
be worked off, and a passed check means the backlog is current.

### Node harness (`task-images/node/harness/run.js`)
*State:* in the container, the results so far, stderr by file, the files that
have not loaded. *Operations:* one loop over the stream of node:test, then one
document. *Hard:* the stream mixes tests, files and output of several files and
lags behind them; a file may not load, end early or loop; the document must be
what the executor's validation accepts, after a filter on each side. *Correct
when:* the answer is the verdict of the tests that ran, a failure is explained,
and no run is left without an answer.

### Release generator (`scripts/release/generate-question-release.py`)
*State:* the manifest file it writes. *Operations:* one join of an earlier
manifest, Question Brain's release and the serving runtime's families. *Hard:*
the runtime answers from its memory while the files that the next start reads
change. *Correct when:* it refuses, or writes a manifest the runtime starts with.

### Not modelled
* **Contract validators** (`contracts/question_capability_task.go`,
  `capability_mastery_bundle.go`): nothing but their own tests calls them; stateless checks of two documents.
* **Other harnesses** (go, java, postgres, dotnet): a shell script around one test command
  that writes one of two fixed documents; the container of `RunExecution` stands for them.
* **Smoke test of the release join**, **image manifest check** (`scripts/`), **telemetry**,
  **authored tasks and manifests** (`tasks/`, `task-families/`, `releases/`):
  no state machine; the data are the constants of the models.
* **Artifacts** of a run beyond their error path, **`Ready`**, the health probes and the profiles: read-only.

### Interactions
`main` builds the catalogue, then the server and the executor around it. A
request goes handler → catalogue lookup → executor → docker CLI → daemon →
container, and the verdict comes back through a file in the workspace, not
through the CLI. The backlog generator shares only the two manifests' loaders
with the runtime. Restarts and replaced files come from the deployment
(`deploy/compose/compose.yaml`: `restart: unless-stopped`, one process; tasks
are baked into the image, releases and families are bind-mounted).

## 2. Modules

### RunExecution
One request is one element of `Run`, with `pc[r]` for where its goroutine is.
The phases follow the code: `new` → (`Accept`/`Refuse`, server.go `runs`) →
`inspect` (`verifyImageDigest`, `validateFiles`) → `prepare` (work directory,
`prepareTask`, the time limit) → `launch` (`command.Run`) → `cli` (attached) → `cleanup`
(`cleanupContainer`) → `classify` (the tests in the order of the code: context,
CLI error, `readContractResult`) → `reply` (deferred `RemoveAll`, counters,
response) → `done`. A process that ends leaves `past`.

Outside the process there are `call[r]` (a request the daemon has and has not
answered), `box[r]` (the container created for the run), `doc[r]`
(`results.json`), `status[r]` (the container's exit status) and `sweep[r]` (an unanswered `docker rm -f` that
may still take effect). The daemon's actions are external: they are what the
executor's calls (`docker run --rm --name -v`, `docker rm -f`, `docker image
inspect`) rely on. `KillCli` keeps `call[r]` or drops it, as the daemon may or
may not have received the request: everything interesting follows from there.
`RemoveByName` removes whichever container has the name. `Crash` ends the
process at any point, and `RefuseName` is what a retry meets afterwards.
`ContainerName` is `dockerContainerName`: a function (`NameOf`) of the task and
the client's correlation id, which need not tell two pairs apart, as `safeToken` does not.

Abstracted: the answers' texts and durations, output capture, the
sanitising of diagnostics (both in `NodeHarness`), the spelling of container
names, file contents (`editable`: the
request names exactly the editable files), the kind of document error (`bad`:
missing, unreadable, oversized or invalid). `bound` says whether the deployment has a release
manifest and never changes. `acked` is a history variable: the code drops the cleanup's answer.

### RunContract
A request opens, its harness starts, reports and ends at most once, and it is
answered at most once and for good; a verdict is the report of a harness that
succeeded. `RunExecution!Contract` is the refinement mapping: goroutine phases
map to `stage`, container and exit status to `harness`, `doc` to `report`, an answer that
was sent to `reply`. Cleanup, daemon, names and restarts map to stuttering, to
`Stop` or to `Abandon`.

### Catalogue
One step per read: `LoadTaskFamilyManifest`, `LoadReleaseManifest`,
`ListTasks`, `LoadTask` per directory, `EndTasks`, `BindRevision` per revision
of the family manifest, `EndBind`; then `Expose` (a workspace or run reads the directory again).
Any failed check ends the start (`failed`), as `main` exits. `ReplacePack`,
`PublishRelease` and `PublishFamilies` replace files between any two steps, at
most `MaxEdits` times; `Stop` is a crash or restart. `dirty` and `exposed` and
the field `source` are history.

Abstracted: a directory tree is its `content`, which stands for its SHA-256
(two directories with the same hash are the same directory); what concerns one
file alone (decoding, patterns, required fields, duplicate keys within a list) is the flag `sound`; absent
strings are `"none"`; names are values, so that trimming is not seen.

### ReleaseGenerator
Extends `Catalogue`: `GenNext` is a step of the runtime or its deployment
(`Runtime`), or `Generate`, the whole script at once, which reads the serving process's
`families` and `projection` over HTTP. The `draft` it writes is deployed by
`PublishRelease` when the deployment's manifests include it. `stale` and `moved` are history:
whether directories or families were replaced since the process began.

### NodeHarness
`Files` are node:test's: tests, output and ends of files put events into
`stream`, which `run.js` works off (`Consume`), so that it lags behind. A file that does not load
is one whose `FileEnds` comes first; one that ends early is cut off by `FileEnds`.
`writeResults` ends the loop; `WriteFails` and `Kill` are the other endings. The
executor's part is `Captured` (its buffer) and `Grade`, one step that reads, validates and sanitises.
A text is a set of the kinds of line it is made of: words, private lines, late ones (past the
twelfth), control characters, U+0085 (white space to Go, none to JavaScript), and long lines. The
filters differ in what they take from which, which is what `ProtocolAgrees` and `FailuresAreExplained`
are about. A failure thus runs into a protocol error if its public lines are U+0085 alone, and a
whole run if one test has a blank title or if the document is too large: its size (`Fits`) is its
tests and the long lines of all their titles and messages, and is bounded for the whole by `Limit`.
How a test may end (status, thrown text, title) is the constant `Endings`.

### Metrics
A request is one goroutine. `Arrive` counts it in `requestLog`; then it is a run
(`CountRun` and then `Refuse` or `Execute`, `CountResult`), a scrape (one `Read` for each
`Load`), or neither (`Serve`). `Restart` begins again from zero. Each counter has the set of
requests it has counted as history, `before` and `earlier` remember where a scrape
began. The order of `Order` is the order of `prometheus`;
the bound of `ExcessIsOfLateRuns` does not depend on it.

### Portfolio and Backlog
`Portfolio` is pure: `ValidPlan` is `validateTaskPortfolioManifest`, `Items`,
`Rank`, `Queue` and `Report` are `BuildTaskPortfolioBacklog` with its sort key
and its waves. `Backlog` is the command: `ReadPlan`, `Validate` (first reading
of the families), `Build` (second reading), then `Compare` or `WriteJson` and
`WritePage`; `Break` stops a run anywhere, amid a write too, which truncates;
`EditPlan` and `EditFamilies` change a manifest at any time. A planned series
(prefix, start, count) is the sequence of the keys it generates. The digest leaves nothing
out of the report but its time and path, so equal digests are equal reports. Only the constants are smaller than
the code's: see the bounds below.

## 3. Runs

| Run | Question and answer |
|---|---|
| `run_pair` | Two runs, with one container name or with two, together or one before and one after a restart. `CleanupStopsContainer`: after an answered cleanup the container never runs again, although a killed CLI's request may still be served. `VerdictFromOwnContainer` holds though runs that share a name can remove each other's container; `AttachedContainerKept` for runs that share it with none. `TimelyResultIsAnswered`: a harness that ended well in time gets its verdict, whatever becomes of the cleanup. `WorkspaceReclaimed` and `MetricsMatchAnswers` hold in every interleaving. |
| `run_policy` | Every kind of request and task (unknown, declared, without check command, without digest, over the limit, with an unsafe artifact path), with and without a release, images pruned and rebuilt, one restart: `OnlyAdmissibleReachesDaemon`, the refinement `ImplementsContract`, and under fairness `EveryRunSettles`. |
| `run_clash` | *Violated:* of two runs with one correlation id, the cleanup of one removes the container the other is attached to (`NamesPreventCollisions`). |
| `run_leak` | *Violated:* a create request served after the answered `rm -f` leaves a container that nothing removes. |
| `run_outage` | *Violated:* `harness_failed`, not to be retried, is answered when the daemon is lost and no harness ran. |
| `catalogue` | Every combination of layouts and manifests, and for the small deployments up to two replacements at any time, restarts and generated releases. The start succeeds exactly when `Consistent` holds, a reference definition with no order and no intermediate table; what it serves is released, complete and what the lists advertise; what is handed out is what was pinned, or the directory was replaced after its descriptor was read; `GeneratedReleaseStarts`: a generated manifest is one the runtime starts with, for as long as nothing else changes, but for the inputs that `Unchecked` lists. |
| `catalogue_family_pin` | *Violated:* under contract v3 the pinned TaskFamily release is not compared with the one loaded. |
| `backlog` | Generator and `--check` over ten plans and nine family manifests, valid and not: `QueueIsTheDeficit`, `ClosingReachesTarget`, `WavesCanBeWorkedOff`, `CheckMeansCurrent`, `PageMatchesJson`. |
| `node_harness` | Up to two test files in either order, with every ending of a test, output, complaints, files that do not load or end early, failed writes and kills. `VerdictIsOfTheTests`: the answer lists every test that was reported, once, in order, with its own status. `ProtocolAgrees`: a harness that exits with zero is answered with a protocol error only if all that was reported is too large for a document, a title is blank, or a failure threw nothing public but U+0085. `FailuresAreExplained`. `TranscriptIsInOrder`: what is answered of the output is a prefix of what was written, and short of it only beyond the limit. Under fairness `EndedRunsAreAnswered`. |
| `harness_load` | *Violated:* a hidden test file that does not load goes unnoticed if the others pass. |
| `harness_transcript` | *Violated:* what is captured of a container's output has no bound. |
| `metrics` | Three requests: runs that are refused, pass, fail or err, scrapes of which one may begin as another ends, two restarts. No state and no scrape shows more than its property allows, though a scrape may show a state that never was. |

### Bounds, and why they are enough
* **Runs.** Two. Runs touch only through a container name and the counters;
  the removal and the refusal of a name each involve two containers. `run_policy`
  has one run because what it asks concerns one run, and all kinds of task. The proofs have no such bound.
* **Restarts** (`MaxCrashes`): one. A restart forgets everything in the
  process, so a second starts from the same kinds of leftovers. In `run_pair` the constraint
  `RestartBetweenRetries` keeps, of the states after the restart, those in which one run was
  under way and the other, of the same name, comes later: the retry (2 million states, about 90 seconds).
  The proofs have no such bound.
* **Images** change only for the tasks in `Transient`, and stderr misleads only for those in
  `Quoting`; `run_policy` has both.
* **Catalogue**: two directories, two families, nine directory contents, 25
  release and ten family manifests (counting the missing ones): each check of
  the load is failed by one of them alone. Files are replaced only in deployments of
  few files (`FewWhenEdited`, `MaxEdits = 2` to replace and to restore a directory, three contents).
  The generator is given five earlier manifests and five Question Brain releases, one for each way to fail.
* **Node harness**: two files of two tests; three tests, writes and files with stderr in
  all (`FewEvents`, which counts an event from its emission), two events in the stream (`MaxEvents`). An event concerns one file, and what `run.js`
  keeps of it is a sequence, a set and a map by file: two files show whether they are kept apart, and two
  events whether order matters. `Capture = 1`, so that the second write exceeds it. `Limit = 3`, so that three short tests
  fit, and three tests with one long line, or two with one each, do not. The eight endings and three texts are what one of the filters or checks tells apart.
* **Metrics**: three requests, as a scrape with an excess needs a run, and a drop needs two scrapes;
  two restarts. The proofs have no such bound.
* **Portfolio**: three pairs, five keys, a target of two algorithm families and one
  native one (`ExpectedKinds`; the code's 168 families and 456 revisions are larger numbers of the same), `MaxBatch = 2` for the code's 100 so
  that the queues fill one wave, several, and the last one partly or exactly, `TrackFamilies = 1`.

`CHECK_DEADLOCK` is on for the runs and the catalogue: `Idle` is the one state in which the server
may rest, and is enabled only when every request is settled. It is off for `NodeHarness`, which ends with its
answer (that it gets there is `EndedRunsAreAnswered`), and for `Metrics`, whose requests are used up.

### Fairness
`FairSpec` assumes weak fairness of each run's own `Step`, and of `Expire`.
`Step` is the goroutine's code: Go schedules every runnable goroutine, and
the docker calls it waits for are bounded, `image inspect` by two seconds and
`rm -f` by five, their unanswered outcomes being steps of their own
(`ImageUnverified`, `CleanupUnanswered`). `Expire` is the clock:
`context.WithTimeout` fires for every launched run. Nothing is assumed of the
daemon, of the harness or of the client. `EveryRunSettles` therefore says that the timeout is enough.

`NodeHarness!FairSpec` assumes weak fairness of `Start`, `Consume`, the end of the loop and `Grade`:
node's event loop delivers what is in the stream, and the executor goes on when the process has
ended. The test files get none: they may loop for ever, and `EndedRunsAreAnswered` begins
when the last has ended. That such a run is answered as well is `EveryRunSettles`.

## 4. Proofs

| Theorem | Says | Argument |
|---|---|---|
| `RunExecutionProofs!TypeCorrect`, `Safety` | `[]TypeOK`, `[]SafetyInv` | one step per action of `Next` |
| `VerdictsAreOwn`, `DaemonGuarded`, `WorkspacesReclaimed`, `CleanupIsFinal` | the safety properties | consequences of `SafetyInv` |
| `TimelyResultsAreAnswered` | `[]TimelyResultIsAnswered` | a consequence of `SafetyInv` |
| `OwnNameKeepsContainer` | `AttachedContainerKept` | a step that removes by name finds the one container of a run alone with its name |
| `CountersMatch` | `[]MetricsMatchAnswers` | `CountersInv`; a step counts a request as it changes its phase, or is `Quiet` |
| `RunContractProofs!Refinement` | `Spec => ImplementsContract` | each action maps to a `RunContract` step or a stutter, under `SafetyInv` |
| `CatalogueProofs!JoinInvariant`, `TypeCorrect` | `[]JoinInv`, `[]TypeOK` | one step per action, lemmas on `Row` and `Bound` |
| `RunnableTasksAreReleased`, `ReleasesAreComplete`, `ProjectionsMatch`, `FlagsAreTrue` | the safety properties | consequences of `JoinInv` |
| `ContentIsPinned` | `[]PinnedUnlessReplaced` | a second invariant, `PinInv`, above `JoinInv` |
| `StartProofs!StartIsExact` | `[]StartsExactlyWhenConsistent` | `StartInv` above `JoinInv`: success is consistent, each failure is not |
| `GeneratorOnlyReads` | `GenSpec => Spec` | the generator changes nothing of the runtime's |
| `GeneratedReleasesStart` | `[]GeneratedReleaseStarts` | `GeneratorInv`, on what a process has in memory |
| `MetricsProofs!TypeCorrect`, `CountersNest` | `[]TypeOK`, `[]CountersAreNested` | `CountInv`, one step per action; cardinalities by `FiniteSetTheorems` |
| `ReadsAreTrue`, `ExcessIsBounded`, `DropsMeanRestarts` | the properties of scrapes | `ScrapeInv` above `CountInv` |
| `NodeHarnessProofs!TypeCorrect`, `HarnessSafety` | `[]TypeOK`, `[]HarnessInv` | one step per action, lemmas on what `Account` survives |
| `VerdictsAreOfTheTests`, `ProtocolsAgree`, `FailuresExplained` | the properties of verdicts | consequences of `HarnessInv`, by the lemma `AccountIsRanked` |
| `TranscriptsAreInOrder` | `[]TranscriptIsInOrder` | `TranscriptInv` above `HarnessInv` |
| `BacklogProofs!Consistency`, `PagesMatch`, `ChecksAreCurrent` | `[]BacklogInv`, `[]PageMatchesJson`, `[]CheckMeansCurrent` | one step per action |
| `BacklogProofs!Typed`, `TypeCorrect` | `[]TypedInv`, `[]TypeOK` | `Made`: whatever is held or stored is a report of two manifests; lemmas on the types of `Items` and `Queue` |
| `PortfolioProofs!QueueIsSorted` | `Queue(items)` is a stable sort of any items | a strict order's counts of predecessors are a bijection |
| `BacklogProofs!SortedWavesCanBeWorkedOff`, `WavesWorkOff` | `[]WavesCanBeWorkedOff` | from `QueueIsSorted`, with bounds of each wave; `FamiliesFirst` ranks what `Items` makes |
| `QueueIsDeficit` | `[]QueueIsTheDeficit` | `ItemsAre` and `ItemsOnce`: what the items are, and that no two are the same gap |
| `ClosingReaches` | `[]ClosingReachesTarget` | `ClosingTotals`: the validator's sums are sizes of disjoint sets of items |

*Assumptions.* Only the named ones of the modules: subsets and types of the
constants, `"none" \in Name`, no family with the key `"none"`, a sound family release with an id
(`families.go:88`), one `content` per directory, a finite set of requests, long lines that are
no other kind of line, passed tests that threw nothing. Runs, tasks, files,
requests, scrapes, restarts and replacements are unbounded in the proofs.

*`SafetyInv`.* None of the properties is inductive: that a verdict is the run's own
needs to know that a CLI which returned no error left a container that had exited
with zero (`Returned`), which needs the relation of an attached CLI to its request
and container (`Attached`), which holds because nothing of a run exists before
its launch (`BeforeLaunch`). `Swept` states what an answered `rm -f` settles
whatever the daemon still does: a container that appears later was asked for
by a CLI that is gone, so nobody starts it. `Sandbox` relates request, container and
status; `Passed` carries the gates' conditions forward to the launch.

*`JoinInv`.* `RowFromEntry` ties a released row to its manifest entry, and
`RowFromRevision` ties each bound row and its projection to its revision. The
crux is in `BindRevision`: changing a row must not disturb a revision bound
before. `ValidFamilies` lists a revision once and a directory has one row, so a second
binding of a row would need the same pair of task and revision.

*`PinInv`.* Nothing of the join says where a row came from. `SourceIsRead` says that a row's
directory is still the one read, or is marked as replaced; `HashIsSource` carries that
to the bound revision, and `ExposedIsSource` to what is handed out.

*`StartInv` and `GeneratorInv`.* `Consistent` has no order and `NewCatalogue` has one. `Loaded` bridges them: as long
as directories and families are as they were read, each row is that of its directory (`RowOfPack`), or that of its
revision once bound (`RevisionOfPack`). At the end of the start every check has thus been made of the files
themselves (`ServingIsJoinable`, `ServingIsReleasable`), and a step that fails has met a file that falsifies
a conjunct of `Consistent` (`FailureIsFound`). The generator reads the memory of a process that may have outlived its
release manifest: `GeneratorInv` keeps `Loaded` through replacements of that manifest alone, and that what was
drafted since still fits the directories and families there are (`GeneratedFits`).

*`CountInv` and `ScrapeInv`.* The bare numbers are not inductive. `CountsAreSizes` makes each counter the size of a
set of requests, and `CountedOnce` nests these sets and keeps the results apart, so that the order
of the numbers follows from the order of the sets. `Rising` says that the counters of a life only grow from a
scrape's start on, and `AfterEarlier` that it starts above whatever an earlier one read. A load that is late
is thus bounded by the counter now, and the excess by the runs that came in between.

*`CountersInv`.* A counter moves with the answer that it counts, but which answers are counted depends on
the gate, read long before: `Admitted` says that whatever is served passed it. The steps that neither
begin nor answer a request are `Quiet`, and disposed of together.

*`HarnessInv`.* `Account(files, reported, tests, stream)` is the order of things: every test recorded or still in the
stream was reported, at a spot that comes before the spots of those after it, and every spot reported is told once. Recording moves a
test from the stream to the record, reporting appends a spot after all others, and neither disturbs the order. When
the stream is empty, the places of the recorded tests are an increasing bijection with the spots, so the
n-th recorded is the n-th reported (`AccountIsRanked`). `Graded` fixes the document once the process
has exited, which carries the account through both filters to the answer. For the size no sum is needed: a long line in a
document is known by its test, its field and itself, and the tests of the document and those reported bring the same ones
(`SameLongLines`, `DocumentHasReported`).

*`TranscriptInv`.* `Copied(written, stdout, stream)`: the writes are, in order, those copied and those at increasing places of the stream.

*`BacklogInv`.* `Fresh` says what a run has read and made so far, unless a manifest has moved under it; `Stored`
relates the two files before, between and after their writes.

*`TypedInv`.* `TypeOK` alone is not inductive, as what `Report` returns has a type only for a plan with types and
without a family twice. `Made` adds where every report comes from: a run builds only from a plan found valid
against families that were then in place, its report lasts no longer than its plan, and the files hold reports of
such pairs or cannot be read. The families may have changed between the two readings, so `FamiliesFirst` is proved for a plan
valid against other families than those that its items are made from; the deficit and the totals are of one manifest, and
`Fresh` says that an undisturbed run has read the same twice.

*Items and sums.* `Items` joins sequences with `FlattenSeq` and `ValidPlan` adds with `MapThenSumSet`, both recursive
in the library. No prover here can use a principle of induction, whose premise is an operator. `PortfolioProofs` reasons
from the least number instead: `LeastNumber` takes from `WFMin` that every non-empty set of numbers has one, a
set being a constant and not an operator, and a recursive function that is wrong somewhere is wrong at a least number,
before which it is right. So are proved that `FlattenSeq`'s function exists and what it returns (`Flattened`), and
that the sum of the sizes of disjoint sets is the size of their union (`SumOfSizes`). From there: every
gap of a group is an item and every item a gap (`ItemsAre`), of no two items are key and pair the same, because no key is
in two groups (`KeysOnce`, `ItemsOnce`), and a group has as many keys as its target
(`GroupSizes`), so that the sums checked of the plan are sizes of what exists and what is queued (`ClosingTotals`).

*Only model-checked:* `EveryRunSettles` and `EndedRunsAreAnswered`, as they are liveness under fairness. The violated
properties are not theorems, naturally.

## 5. Findings

The six violated properties each state a comment, message or document (quoted
in `PROJECT.json`). Further disagreements, met while reading, without a run:

* `ctx.Err()` is read after the cleanup (`docker_executor.go:143-145`), so a command that returned in time is answered
  with "exceeded its wall-clock limit" if the deadline passes during the cleanup; `TimelyResultIsAnswered` holds for the rest.
* `RevisionIDs` of a family stop at its first runnable revision (`families.go:231-237`);
  `docs/contracts/task-family.v1.md:4-5` has the family own "the list of available TaskRevision identities".
* A `results.json` over the bound, or unreadable, is answered with "task harness did not write results.json" (`docker_executor.go:160-161`).
* A failure that threw nothing but control characters is accepted by `validateResults` and blank after
  `sanitizeResults`, "failed tests must include a message" notwithstanding (`docker_executor.go:342`, `167-174`; `FailuresAreExplained`).
* `README.md:99-101` and `docs/contracts/question-brain-release-binding.md:115-118`
  name `runtime_not_ready` for a runtime without release; `server.go:268-271` answers `question_release_not_bound`.
* The help text of the request counter says "accepted"; it is counted on entry,
  for refused requests too (`server.go:66`, `255`).
* A declared task that has a manifest entry gets availability `runnable`
  (`catalogue.go:203-206`); its `runnable` flag stays false, so the gates hold.
* A harness that fails and prints "no such image" is answered with `sandbox_unavailable`, worth a
  retry, as the CLI's stderr is the container's too (`docker_executor.go:147-153`; `Failures` in the model).
* Family keys are validated trimmed and used untrimmed (`families.go:98`, `145`; `184`, `190`).
* Of revisions that repeat a language/profile pair, the last decides whether the gap is
  open (`portfolio_backlog.go:122-133`); `docs/contracts/task-portfolio-backlog.v1.md:19-20`
  speaks of a pair without a runnable revision. `QueueIsTheDeficit` is restricted to families listing a pair once.
* `--check` compares the digest field of the stored JSON only, not its items and not the
  Markdown page (`cmd/portfolio-backlog/main.go:37`); the model's JSON is what the generator wrote, unedited.

## 6. Plan

Order, most important first; all are done.

1. `RunExecution` with `RunContract`: the run, its refinement and proofs.
2. `Catalogue`: the join at the start, its proofs.
3. `Portfolio`, `Backlog`: validator, queue and generator.
4. `ReleaseGenerator`, composed with `Catalogue`.
5. `NodeHarness` with the executor's capture, validation and sanitising.
6. `Metrics` and its proofs.
7. Proofs of the counters, of `NodeHarness`, of `Backlog`, of the queue's order, and of the start and the
   generator's releases.
8. Proofs of what `Items` makes of a plan, of the validator's sums, and with them of all of `Backlog`'s invariants.

Considered and not done: a module that composes `Catalogue` with `RunExecution`. A run lives within one
process, whose table is not written after the start, and a restart ends it; `bound` and `Servable` are therefore
parameters of a run, and `RunExecution` is proved for every value of them. The one thing that can change under
a run is the directory's content, which is `Expose` and `PinnedUnlessReplaced` in `Catalogue`.
No safety property of a passing run is left without a theorem.
