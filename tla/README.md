# cob in TLA+

Models, checks and proofs for [cob](../src/README.md), a command line tool that
publishes packages to AWS CodeArtifact, promotes them from repository to
repository, pulls them, compares them with their sources and removes them.

- [The system](#the-system)
- [Modules](#modules)
- [What the models assume](#what-the-models-assume)
- [Runs](#runs)
- [Proofs](#proofs)
- [Where the documents and the code disagree](#where-the-documents-and-the-code-disagree)
- [Not modelled](#not-modelled)
- [Plan](#plan)

## The system

cob has no server and no state of its own beyond small files. Everything that
lasts is in CodeArtifact: per repository and version a status (*Unfinished*
while it is filled, then *Published*), assets with their SHA-256, and one more
asset, `cob-provenance.json`, that says where each asset came from and which
repositories the version went through. The document is uploaded last, and its
upload is what makes the version Published. Each command is a process that
reads, asks, writes, and may be interrupted between any two calls.

| component | code | state | operations | hard behaviour | correct when |
|---|---|---|---|---|---|
| CodeArtifact | `clitest/stateful.go` (the in-memory one of the tests) | status, assets, document of each version | describe, list, get, put asset, put finalizer, delete | a call may take effect and its answer be lost | see the users |
| publish | `cli/publish`, `cob/publisher.go`, `cob/spill.go`, `cliutil/helpers.go` | status read, assets present, results, context | gate, prompt, delete (`--force`), first upload, fan-out, document | failures of some uploads, interruption, death, `--resume` with other sources or another manifest, `--force` | a Published version is whole, true to its bytes and never modified; an Unfinished one can be finished |
| RunConcurrent | `cliutil/concurrency.go` | results, errgroup context | spawn up to the limit, return, cancel | interleaving of tasks, first error cancels the others, limits out of range | the limit holds, the verdict and the results can be relied on, the call returns |
| promote | `cli/promote`, `cob/promoter.go` | as publish, and the source's document | gate, prompt, delete, list, copy, carry the document forward | the source changes between the calls; resumed after the source changed | the document describes the destination |
| rm | `cli/rm.go` | status read, one probe result per repository | tier gates, probes, prompt, delete | probes fail or are never made, promotes run meanwhile | no unforced removal of a Published version; no removal without asking everybody |
| ForEach | `concurrency/fanout.go` | results | spawn until cancelled | holes after a cancellation | its callers do not take a hole for an answer |
| registry | `cob/registry.go` | none: pages, then a lookup per item | list domains, repositories, packages, versions, assets | what is listed changes between two pages; tokens without end; lookups that fail | what stays is listed, absence is not made up, paging ends |
| sources | `cob/source_*.go` | origin captured by Open (s3) | resolve, open, origin | the object changes between two reads | the origin describes the bytes published |
| provenance document | `cob/provenance.go` | recursive upstream documents | embed, prune, marshal | depth and size limits | pruning loses no hash and no chain |
| pull | `cli/pull`, `cob/puller.go` | files | list, skip by hash, download, verify, rename | interruption, version replaced meanwhile | the final name never holds unverified bytes |
| diff | `cli/diff` | comparisons | read the document, list, compare, report | errors of some comparisons, a cancelled fan-out, sources without a checksum | exit code 0 only if everything was compared and equal, 4 only if something differs |
| log and chain references | `cli/log.go`, `cliutil/provenance_view.go` | probe results | probe each repository of the chain | malformed references, probes that fail or are not made | "(deleted)" means that a probe found nothing |
| ls, tree, ls -R | `cli/ls.go`, `cli/walk.go`, `cli/tree.go` | tree, frontier | list; expand level by level | errors and cancellation per branch | everything is a node or below one that carries an error |
| live view | `output/live*.go` | rows, tick, interrupted flag | messages from goroutines, Ctrl-C, Close | order of messages, second Ctrl-C, a terminal that cannot be had | rows settle, the tick runs, the view and the command end |
| current package | `cliutil/current.go`, `cli/use.go` | `.cob/current`, `~/.config/cob/current` | set, clear, look up | several files, directories that were emptied | the nearest wins, and what a command resolves is what `use` said |
| output writer and other renderers | `output/output.go`, `stream.go`, `json.go` | counters | one line or object per event | none beyond the live view's | - |
| manifest, configuration and client | `manifest`, `cliutil/config.go`, `cob/client.go` | none | parse, validate, connect | text | - |
| init, manifest, resolve, version | `cli/*.go` | none | one read or none | - | - |

The commands share CodeArtifact and nothing else; inside a process the command,
the goroutines of a fan-out and the live view share a context (cancelled by a
signal, the deadline, or a Ctrl-C that the live view takes) and the slots of
the results. `PROJECT.json` lists every component with its status, and under
`hazards` the places where this goes wrong easily, each with the properties
that watch it.

## Modules

Writing commands:

    CodeArtifact        FanOut
      |      \         /      \
      |       \       /        RunConcurrent -- MCRunConcurrent, RunConcurrentProofs
      |        Publish -- MCPublish, PublishProofs
      |           | implements
      |--- VersionLifecycle
      |           | kept by every repository of
      +------- Stages -- MCStages, StagesProofs

    CodeArtifact, FanOut --- Pull -- MCPull, PullProofs
                              | implements
                          PullContract

Reading commands:

    Registry   ForEach
        \       /
       ReadContext
       /    |    \      \
    Listing Walk Diff CurrentPackage
       \    |    /      /
       ReadCommand -- MCReads, ListingProofs, ReadProofs

What several commands share:

    LiveView -- MCLiveView, LiveViewProofs       Provenance -- MCProvenance, ProvenanceProofs

**CodeArtifact** has no behaviour of its own: the values a repository can hold
for a version, and one operator per call (`PutAsset`, `PutFinalizer`,
`AbsentVersion` for the effect of a delete, `Stored` for a listing). Contents
are identified with their SHA-256. The provenance asset is the field `doc`.

**FanOut** are the steps of an errgroup with a limit, over its variables
`pending` (indices not handed to `g.Go`), `running`, `outcome` (the slots of
results) and `gctx`; the ceiling of `ClampConcurrency` is the constant
`MaxConcurrency`. **RunConcurrent** is the function with that name around
them: the empty call, the check of the context before the loop, the loop, the
verdict. In it the goroutine of a task takes four steps, with anything in between:
it begins its work, unless it heeds a context that is cancelled (`Begin`), writes
its slot (`WriteSlot`), cancels the group's context if it failed (`TellPeers`), and
gives its place back (`Release`). The commands compose `Return`, the last three in
one: their slots are read only after the group has drained.

**Publish** is `publish.Run`, run after run against one version. `pc` is the
place in `Run`:

| pc | code | actions |
|---|---|---|
| idle | between processes | Start |
| status | publish.go:116 | VersionStatus |
| gate | 136-144, gatePublish | DryRun, GatePublish |
| prompt | 162, ConfirmAction | ConfirmAction |
| delete | 172, Publisher.DeleteVersion | DeleteVersion, NothingToDelete |
| first | 227-235 | ReadSource, ReadSourceFails, PublishAsset, FirstReturned |
| rest | 237-246, RunConcurrent | SpawnRest and the same three, RestReturned |
| finalize | 288, helpers.go:169 | BuildPublishProvenance, FinalizeFails |
| commit | helpers.go:189 | FinalizeProvenance |

`Cancel` and `Crash` may happen at any of them. A read of a source gives any
content. A call that writes is one step with three outcomes: *done*, *lost*
(carried out, but an error comes back) and *failed* (no effect). When the
process dies any subset of its calls in flight is carried out. A new run starts
with empty variables; only `version` lasts.

**VersionLifecycle** is what readers of a version may rely on, without any
process: it is filled, an asset once there is not replaced, one step makes it
Published with hashes of the very bytes it holds, then it stays until it is
removed. `Publish` implements it with the document reduced to its hashes.

**Stages** puts one version into several repositories, with a publisher that
takes steps of the lifecycle in the first, and workers that run promotes and
removals side by side. The variable `job` holds all a command remembers, a call
is one step. `GiveUp` ends a command before any step: it stands for refusals,
errors, dry runs, answers of "no" and death, all of which write nothing. A
promote reads its source in a listing, one download per asset and one read of
the document, with anything in between. For rm the probes are one step per
repository; a cancelled context leaves holes, as in `ForEach`.

**Pull** is `pull.Run` with the `Puller`, run after run to one destination, while
the version may be replaced under it. What the destination is lasts from run to
run: nothing yet, a directory (`dir`), or a file that a pull of a single asset left,
of which no later run makes a directory (`FileInTheWay`):

| pc | code | actions |
|---|---|---|
| idle | between processes | Start |
| list | pull.go:210-256 | ListAssets |
| batch | RunConcurrent's check of the context | BeginBatch |
| open | the fan-out, PullAsset | SpawnTask, SkipAsset, Download, DownloadFails, RenameIntoPlace, Discard, BatchReturned |
| manifest | writePulledManifest up to the truncation of its file | TruncateManifest, NoManifest |
| write | the rest of os.WriteFile | WriteManifest |

`Cancel`, `Crash` and `Republish` (somebody replaces the version) may happen at
any of them. A download is one step that takes the bytes the version has at
that moment, or bytes cut short (`Torn`); comparison and rename are a second
one, so a death may fall between them. The document is downloaded as one more
asset; the generated manifest is a file like the assets, and its path may be
that of an asset.

**PullContract** says what the user of the destination may rely on: requests
are met one path at a time with whole contents, no other path is written before
all of them are met, and *ok* is said only then.

**Registry** is what the reading commands see of CodeArtifact: entries, each the
sequence of names that leads to it (domain, repository, package, version,
asset). Others add and delete. Next to what is there now it remembers what has
been there since the command began (`stable`) and what was there at any time
(`ever`), because a listing in pages can promise no more than to lie between.

**ForEach** is the function with that name, over the variables of whoever calls
it: the loop's look at the context, the wait for a free slot, the return of a
task, and holes where no task was started. **ReadContext** adds the
context, the exit code and which command runs.

**Listing** is `cob ls` in its six kinds and `cob log --check-references`: pages
with and without a token up to `maxPaginationIterations`, NotFound in the
middle, a lookup per item and how each kind prints a lookup that failed, found
nothing, or was never made. **Walk** is `tree` and `ls -R`: `walkHierarchy`
level by level. **Diff** are the four modes that compare (manifest, self check,
directory, versions); a *situation* of a name says what each side has under it,
which hashes of it are known, what the document records and which bytes its origin
tells, in any combination; the verdict is computed from it as the code does, with
holes and errors, and with `""` for the hash of what is listed without one.
**CurrentPackage** is a session of `cob use` and of a command that picks up what
it set, over nested directories and the home. **ReadCommand** chooses one of
the four, and composes its steps with those of the others and of a signal.

**LiveView** is one invocation of publish, promote or pull (or a dry run) with
the bubbletea view. `phase` is the place of main in `Run`, `step[n]` the message
the goroutine of asset *n* sends next, `view` whether the program is dormant,
starting, running or done; `rows`, `transferred`, `tickActive` and `ticks` are
the model `Update` works on. One step of `Send` is the hand-over of a message
on the unbuffered channel with `Update`'s case for it; after the end of the view it
is discarded, as bubbletea's `Send` does. Ctrl-C goes to the view while it runs
(raw mode), and to the process as a signal otherwise. `docRow` is the row of the
document: its own, or that of an asset whose manifest key is `cob-provenance.json`,
a name that is reserved for files but not for keys.

**Provenance** is the document as a tree of records, a function from the path of
a record (the sources one goes through) to the record, written one after the
other: `CASource.Origin` embeds the document of an upstream that others may have
replaced or deleted, `PruneUpstreamProvenance` cuts it, `Marshal` validates and
measures it, `FinalizeProvenance` tries once more without upstreams, promote
carries it forward. Documents of others come deeper than the cap, malformed, and
too large; some have origins without a type, below which `Validate` does not look
(`Visited`). The cut is in closed form, so that it can be reasoned about;
`CutByLevels` proves that it satisfies the equations of the recursion in the code,
level by level.

## What the models assume

- *One writer per version and repository at a time.* The code takes no lock and
  does not use revisions. In Publish other processes do nothing; in Stages they
  may read while one writes, and write other repositories.
- *The store of the tests.* Effects are those of `StatefulCA`. CodeArtifact is
  stricter (it refuses assets for a Published version); its refusals are
  failed calls, which every call may be. Pages of listings are modelled in
  Listing only; for the writing commands a listing is one call.
- *A call's effect comes before its answer.* No request takes effect after its
  error was reported, except at the death of the process. Retries of the SDK
  are inside the one step.
- *One pull per destination at a time*, and no two names of a listing that map to
  the same path, or of which one is the directory another lies in. Removing a temp
  file succeeds.
- *Sources belong to others.* Their content may change whenever it is read.
  Origins of file and ca sources name no content; those of s3 sources are named
  by the content read with them.
- Loading the manifest and connecting fold into the `refused` result and into
  not starting.
- Sizes, times, actors and messages are left out. The chain of a document is
  the list of repositories it went through.
- *Listings.* The items of a page come in any order and number. What is there
  from the first page to the last is listed, and nothing is that never was there.
  The repositories in the promotion table and the two sides of a diff do not
  change during the command.
- *bubbletea.* One message at a time is handled, a command that `Update` returns
  runs beside the loop, `Send` returns when its message was taken or the program
  has ended. `Run` may fail before anything is handled.
- File names in a manifest are distinct, but one may be the key of another
  asset or of none: `Publisher.Progress` reports under them.
- *Documents of others* say of an origin that its upstream is embedded only when
  it is.

*Fairness.* FairSpec of RunConcurrent: the Go scheduler runs the loop and each
goroutine, and a task returns because the calls in it are bounded by the SDK.
FairSpec of Publish: weak fairness of `Advance`, all the steps the process takes
by itself. Answering a prompt is only fair with `--yes`; nobody has to start
another run; faults, cancellation and death never have to happen. FairSpec of
Pull is weak fairness of its `Advance` for the same reason. FairSpec of
ReadCommand is weak fairness of the process's own steps (`Command`): each of its
calls is bounded by the SDK. FairSpec of LiveView has weak fairness for main,
except while it waits for the answer to its prompt, for the loop of bubbletea,
for the tick, and for each sender: Go serves the senders blocked on a channel in
turn, so none is passed over for ever. The user and signals have none.

## Runs

| run | configuration | shows |
|---|---|---|
| fanout | `MCRunConcurrent`, up to 4 tasks, requests -3, 0, 2 and 40, ceiling 3 | `Bounded`, `ResultsSound`, `FailureStopsTheRest`, and `Returns` under fairness |
| publish | `MCPublish`, 3 sources, 2 contents, 2 manifests, limit 2 | the safety of publish, that it implements VersionLifecycle, and `RunTerminates`, `ResumeCompletes` |
| stages | `MCStages`, 3 repositories, 2 assets, 2 contents, 2 workers, 3 commands, chains up to 3 | documents stay true, Published versions stay, rm asks everybody, in every interleaving |
| pull | `MCPull`, 3 assets, 2 contents, 4 states of the version, 2 runs, 1 fault, 1 replacement, limit 2 | the safety of pull, that it implements PullContract, and `PullTerminates`, `PullConverges` |
| reads | `MCReads`, 6 entries on 4 levels, 1 change by others, 2 pages, limit 2, 2 names, 16 situations, 2 nested directories, 4 `use` commands | `ListingIsWhole`, `AbsenceIsReal`, `WalkAccountsForEverything`, `DiffVerdictHolds`, `NearestPointerWins`, `ReadTerminates` |
| view | `MCLiveView`, 2 assets of 2 and 1 bytes and the document, in a row of its own or not, 3 Ctrl-C | `TicksWhileActive`, `FinalPaintIsWhole`, `SettledRowsStay`, `ViewCloses` |
| provenance | `MCProvenance`, 3 versions, 2 ca sources, depth 2, 5 records, 5 documents of others, 2 documents written | `ReadersAccept`, `CutIsMarked`, `UpstreamIsAsRead` |
| pull_declared | 1 run of Pull without faults, manifests as source | `PullsWhatIsDeclared` is violated (below) |
| publish_hint | 1 run of Publish, 1 content, 1 fault | `FailureLeavesUnfinished` is violated (below) |
| stages_chain | as stages, 2 commands | `ChainStartsAtPublish` is violated (below) |
| diff_zero | as reads | `ZeroMeansIdentical` is violated (below) |
| view_prompt | as view | `PromptHasTheTerminal` is violated (below) |

*Why these bounds are enough to be interesting.* Three sources are the first
upload made alone plus two that run side by side, so one may fail while the
other is in flight; with two places and four tasks the loop of RunConcurrent
blocks and has tasks left after the first failure, requests of 0 and -3 have to
give one place, and one of 40 has to be cut to the ceiling, which four tasks
would exceed. Two contents tell the bytes of two runs apart. The second manifest is a
proper subset of the first, so a resume or a `--force` may leave or find assets
the manifest does not have. Three runs allow an interrupted one, a resumed one
and a forced one. Three commands in Stages are an interrupted promote, the
removal of its source (which the publisher then refills) and the resumed
promote; three repositories allow a promote of what was promoted, and an rm
with two others to ask. In Pull the third asset has the
name of the generated manifest and the second is listed without a hash; the
versions are two complete ones that differ in every file, one still being filled
and none, so that a fault and a replacement make two tasks fail; two runs are an
interrupted one and the one after it, with a filter and any kind of destination.
In the reads, one domain has three repositories, so that a fan-out with limit 2
waits, one of them with a package and a version; the container of a listing, the
domain, has the three as its items, whatever its kind; the third
is a malformed reference. Two pages are one with a token and the last, or one too many. Two names make one
comparison fail or be a hole beside another that succeeds. Sixteen situations are the cases of
the verdict with each kind of origin; in one the source has no checksum and is
published as it is, but the document says something else, in one the origin is
that of other bytes than the recorded ones, and in three a hash is missing. Four
`use` commands are set outside, a change of directory, set inside and clear, after
which the emptied `.cob` directory hides the outer pointer. In the view, one asset has two messages of progress and the
document none; three Ctrl-C are the one that cancels, the one that quits, and
one after it. In Provenance two levels and five records are the smallest caps
under which a document of two sources, each with an upstream of its own, fits
with one and not with both; a second document is one that embeds or carries
forward the first, and one of the documents of others is malformed where validation
does not come. Stages uses symmetry of assets, contents and workers; runs
that check liveness use none.

*The properties.* In RunConcurrent, `ResultsSound` is what publish and promote
dereference the slots on; `FailureStopsTheRest` is the comment's claim that a task
scheduled after a failure does nothing, as exact as it is true: a task that heeds its
context does not begin once a failed one has left its place, while peers side by
side with the failure may. `DocumentMatchesStore` is what provenance is for: each hash
in the document of a Published version is that of the bytes next to it. It
takes a resume after the source changed, with an answer lost in between, to
endanger it. `PublishedIsWhole`: Published is never part of a manifest.
`FreshPublishIsExact`: after `--force` nothing of the old version is left, which
needs the per-version outcome of the delete. `FailureIsResumable`: the advice
to resume can be followed once one asset is in place. `OriginDescribesBytes`:
the origin of an s3 source is that of the bytes. `PublishedIsImmutable`: only a
forced command changes a Published version, by removing it.
In Stages, `RecordsMatchStore` is the first of these for all repositories while
sources are removed and refilled under a running promote; `ChainEndsHere` ties
a document to the repository it is in; `RmAsksEveryRepository` says that a
forced rm without `--everywhere` removes a Published version only after every
other repository answered that it has no copy: probes that failed stop it at
the gate, probes never made because of a cancelled context stop it at the
delete, since that call sees the same context; `EveryRepositoryKeepsLifecycle`
is the abstract specification for each repository.

In Pull, `ExitZeroIsComplete` says that success means each chosen asset is at its
path with the listed bytes, although version, transfer and the manifest written
last may all get in the way; `PresentIsKept` that nothing already there with the
listed hash is fetched or touched again, by a resumed pull or by the manifest;
`NoTempLeft` that every way of failing cleans up.

In the reads, `ListingIsWhole` and `AbsenceIsReal` relate what is printed, after
pages, failed lookups and holes, to what was there all along; the kinds
differ in how they tell a failed lookup from one that found nothing, which is
where one is taken for the other. `WalkAccountsForEverything` says that an error
on a node is never lost and that no branch is forgotten between levels.
`DiffVerdictHolds` reads the exit code as CI does: 0 only if the sides agree, 4 only
if they differ, and names each case in which they need not: what was not verified or
was taken on the word of a document whose origins need not belong to its hashes, and
hashes that nobody listed.
`NearestPointerWins` relates the repository a command is sent to with the
pointers that earlier commands left, and says which stale directory may hide
one.

In the view, `TicksWhileActive` says that the tick chain is neither broken nor
doubled when an asset starts just as the last tick finds everything settled;
`SettledRowsStay` that progress a goroutine reports under the name of another's
row does not move a row that ended, except that the document takes over the row of
an asset with its name; `FinalPaintIsWhole` that the messages of all
goroutines have arrived before Close ends the view, also after one Ctrl-C;
`ViewCloses` that no sender and no Close waits for ever, however often the user
interrupts and whether or not there was a terminal.

In Provenance, `ReadersAccept` says that what cob writes the next cob can
read, whatever others left upstream, and how far down a publish has looked at it; `CutIsMarked` that the status of each origin
tells whether its history is there, after cuts of cuts; `UpstreamIsAsRead` that
nothing of an upstream is lost but what the caps force out.

Deadlock is checked for Provenance, where others always have a next step; in
the other runs a command or a call may be the last one.

## Proofs

TLAPS proves, for every set of assets, contents and sources, every manifest,
limit and number of runs and faults, from the assumptions the modules name
(`PublishAssumption`, `PullAssumption`, `IndexAssumption`, `CeilingAssumption`, `NoneIsNoContent`,
`RequestsAssumption`, `StagesAssumption`, `NameAssumption`, `SizeAssumption`,
`PressesAssumption`, `EntryAssumption`, `LimitAssumption`, `ListingAssumption`,
`WalkAssumption`, `DiffAssumption`, `UseAssumption`, `BoundsAssumption`,
`ForeignAssumption`), every safety invariant and every action property that the
passing runs check, and the two refinements. Assumptions say that sets are of the right kind
(some finite or not empty), that marks like `None` and `Hole` are no values, that
the document is told apart from the assets as a sender (not by its row), that a
ceiling or a depth is at least 1, and, in `ForeignAssumption`, that a document of others is a tree whose marks tell
what is embedded in it.

- `RunConcurrentProofs`: `TypeCorrect`, `ConcurrencyBounded`, `VerdictCorrect`
  (`ResultsSound`: the verdict is sound, there are no holes, and ok means that every
  task did its work), `NothingStartsAfterFailure`. Running, pending and returned
  indices partition the indices of the call; a slot is empty only while its task is
  pending or running, and while an error is in a slot whose task has left, the
  context of the group is cancelled. `ConcurrencyBounded` needs the limit to be at least 1 and
  that a spawn adds one index to a set with a free slot, which uses the
  cardinality theorems of the library.
- `PublishProofs`: `InvariantHolds` proves the inductive invariant `IInv`, one
  lemma per action or group of actions that share an argument; `TypeCorrect`,
  `ProvenanceIsTrue`, `PublishIsAtomic`, `OriginIsTrue` and `PublishedStays`
  follow from it, and `Refinement` shows that the initial state and each step
  map to VersionLifecycle.

- `PullProofs`: `InvariantHolds` proves its `IInv`; `TypeCorrect`,
  `SuccessIsComplete`, `TempsAreRemoved` and `PresentStays` follow from it, and
  `Refinement` shows that Pull implements PullContract. The heart of it is that
  a slot of results is *ok* only while the file at the asset's path has the
  listed hash: renames of others cannot disturb it because no two chosen assets
  share a path (`DestInjective`), and the manifest cannot because it is skipped
  when its path is an asset's (`ManifestIsBeside`). That a task holds a temp file
  only for a file that is not there yet gives `PresentStays`.

- `StagesProofs`: `InvariantHolds` proves `IInv`, one part for each command
  (`JobInv`) and one for each repository (`StoreInv`). No two commands write one
  repository (`OneWriter`), so what a command read of its own repository stays true:
  the status until it writes (`SeenIsTrue`), the assets a resume may skip
  (`PastGate`), and while it copies the repository holds what was skipped and what
  was uploaded, nothing else (`Filled`). Of the source, which anybody may replace, it
  only keeps what was downloaded; all that was listed is in place before the
  document is written (`CopyIsWhole`). `RmInv` says what the gates of rm have let
  through. `RecordsTrue`, `ChainsEndHere`, `PublishedStays` and `RemovalIsChecked`
  follow; `Refinement` shows that each repository keeps VersionLifecycle, and
  `LifecycleKept` its steps.

- `LiveViewProofs`: `TypeCorrect`; `TickIsKept`, for which `TickInv` adds to the
  property that the model is untouched until the program runs; and
  `SettledRowsAreFinal`, for which `RowsInv` says that a row is terminal only if
  the sender of that asset has told its result and has nothing more to send.
  Progress of others under the row's name is then the only message left, and its
  case of `Update` asks whether the row is active; the row the document takes over is
  the exception the property names.
  `FinalPaintHolds` adds what the exit code says of the goroutines (`EndInv`), that
  a row has no more bytes than its sender moved (`ModelInv`), and that
  `transferred` is the total of the rows whenever the view can be closed
  (`PaintInv`). The total is a fold over a set of assets; that it exists, is unique, and
  grows by what one row gains is proved by the counterexample of least
  cardinality (`SumsExist`, `SumsAre`, `TotalGains`), since the provers cannot
  take the library's theorems on induction.

- `ListingProofs`, about the listings of ReadCommand for any registry:
  `ListInv` says what of the world lasts (what is stable is there, what is there
  has been), that the pages so far hold nothing else, and that a slot is a hole
  only while its item is to come or in flight, or for good once the context was
  cancelled; an answer that says "absent" was given when the item was not there,
  and what is not there is not stable any more. `ListedIsWhole` and
  `AbsentIsGone` follow.

- `ReadProofs`, about the other reading commands. `NearestWins`: the pointers a
  session leaves lie in `.cob` directories (`SessionInv`), and the innermost of
  these on the path, which exists because the path is finite, either has the
  pointer or hides the others. `WalkedIsWhole`: a stable entry has stable prefixes,
  and a node of the tree that can be expanded is still to be expanded, was (and
  then its stable children are nodes), or carries an error (`WalkInv`).
  `VerdictIsRight`: what was read of the two sides (`SidesInv`) and that a
  comparison is a hole only while its source waits, or for good after a
  cancellation (`ComparedInv`), give both directions of the exit code, with nothing
  assumed of how hashes, origins and contents go together.
  `TypeCorrect` is the type invariant of the four commands together.

- `ProvenanceProofs`: `NextReaderAccepts`, `CutsAreMarked` and `EmbedsWhatItRead`.
  Its `IInv` says that below each source a publish has what that source said down
  to the cap (`AsRead`), and that every document in the store is accepted and
  marked. The lemmas it rests on are about paths: what lies below a source, and
  that cutting keeps a document a tree, well formed and marked; that validation comes
  to every direct source of a publish, since it recorded their types itself
  (`NearIsVisited`). `CutByLevels` ties
  the closed form of the cut to the recursion in the code.

In PublishProofs `IInv` is needed because none of the properties is inductive: that the document
to be sent is true is only known because, from the gate on, the version has
every asset the run believes present (with the hash it listed), each successful
slot's content is in the store, and the version is not Published while the run
is past the gate. `SuccessIsExact` and `FailureResumes` need two facts more
(`ResultInv`): a run works on its manifest only, so that what is in the version while a
run without `--resume` writes comes from there, and it has no result while it is
under way. `PullProofs` and `StagesProofs` have the same shape. TLC checked the
inductive invariants as invariants of the runs before they were proved.

Only model-checked is liveness: `Returns`, `RunTerminates`, `ResumeCompletes`,
`PullTerminates`, `PullConverges`, `ReadTerminates` and `ViewCloses`, since the
prover handles neither fairness nor ENABLED.

## Where the documents and the code disagree

*publish_hint.* After any failed or interrupted batch publish says "Version is
unfinished — re-run with --resume", and the README says that publish leaves the
version Unfinished. If the first upload is what failed, there is no version,
and `--resume` refuses ("no version ... to resume"). The passing
`FailureIsResumable` says when the advice does hold.

*stages_chain.* promote does not look at the status of its source. An
Unfinished source has no document yet, which promote takes for "not published
by cob": it makes up a chain beginning with a publish in the source's
repository. After an interrupted promote to staging, a promote from staging
records a chain that starts in staging, and that the version came from dev is
lost. A resumed promote of a repository to itself does the same in one step.

*pull_declared.* With a manifest as its source, pull is said to fetch every asset
the manifest declares. It takes only the coordinates from the manifest and
fetches what the version lists, whatever its status: during a publish it
fetches the part that is there and exits 0, and it also fetches assets the
manifest does not have.

*diff_zero.* diff is said to exit 0 if the sides are identical and non-zero
on any drift or error, and 2 means not found. A version that does not exist lists
no assets without an error, and the directory mode compares what is
listed: nothing, and exits 0.

*view_prompt.* publish tells the view how many assets to expect before it asks
for confirmation, and that starts the view: the user answers in raw mode, with
two readers on the keyboard, and Ctrl-C is not the SIGINT that the prompt
waits for. promote asks first.

Smaller ones were met while modelling and follow from the definitions named,
without a run of their own:

- `README.md:809-812`: code 4 means that sides genuinely differ. Diff's
  `CompareSource` reports *drifted* for an origin that could not be read, and a
  comparison never made (a hole) falls to the branch of what is only published
  (`compare.go:104-127`); a source without a checksum whose published bytes
  are its own is *changed* if the document records other ones. `DiffFourDiffers` names the
  first and the last and excludes the second.
- `versions.go:85` and `dir.go:138` compare the hashes of listings, which are empty
  when a listing has none (`registry.go:344-352`): two assets listed without one are
  the same, whatever they hold, and a local file equal to one is changed
  (`LeftSHA`, `PubSHA`, `NoHash`, `HashMissing`).
- `pull.go:232-241`: a pull of a version with one asset to `./out` leaves a file
  there. Once the version has more assets, each pull to `./out` fails, and so does
  the advice to re-run (`FileInTheWay`).
- `validation.go:61-70` reserves the name `cob-provenance.json` for files, not for
  manifest keys. With such a key the document starts the row of that asset again
  (`docRow`).
- `provenance.go:144-147`: an origin without a type is valid whatever is embedded at
  it, so what is malformed there is published on (`Visited`).
- `README.md:509` and the help of `use` let the nearest pointer decide.
  `FindCobDir` stops at the first `.cob` directory, also if `--clear` emptied it;
  `NearestPointerWins` has the exact condition.
- `README.md:803`: `ls -R` has code 2 for nothing found. A target is always a node of its
  own tree, so with a target there is always a leaf to print (`Leaves`, `Render`; `ls.go:99-104`).
- `provenance.go:120-129`: a malformed upstream origin fails the write. `FinalizeProvenance`
  retries without upstreams whatever the reason and warns that the document was too
  large.
- `README.md:569-571`: *no-cob-provenance* means an upstream without a document.
  `Origin` writes it when the document could not be fetched for any reason (`source_ca.go:157`).
- `README.md:580`: a promoted document keeps the origins of the bytes. A resumed
  promote takes those of assets copied earlier from the document as it is now
  (`promote.go:409-415`); diff then reports *match(origin)* for a source that holds
  other bytes than were published, and may exit 0 (`Unverified`).
- `live.go:64`: SetInterrupt is "safe to call before or after ensureStarted"; a
  call after it has no effect.
- `README.md:805`: 130 for an interrupt. It is given for a failed batch after a
  Ctrl-C in the view (`BatchReturned`); a signal, an interrupt of the prompt or of
  the finalizer gives 1, and pull gives 130 also when everything had arrived.

## Not modelled

- Text: manifest parsing and validation, coordinates and source URIs, rendering,
  layout, rates, JSON output.
- Configuration precedence, client construction, tracing: plumbing without a
  protocol.
- `init`, `manifest`, `resolve` and `version`: one read or none, no state. The
  lint mode of diff compares nothing.
- The stream, JSON and silent renderers: one line or object per event, no state
  another event reads.
- Two writers of one version: the code takes no lock, and what the service does then
  is not in the repository.
- The kill of a process while the view runs (Publish and Pull have the death of
  the process; the view has nothing that outlives it).
- Origins in a promoted document (Stages keeps the hashes and the chain).

## Plan

Done: the writing commands with their contracts, the reading commands, the
view, the document, and proofs of all their safety properties. What is left:

1. Origins in Stages, for the resumed promote whose source was replaced
   (`promote.go:415`), with the property that an origin describes the bytes next to it
   and its place in `IInv`.
2. Retries of a listing's page, which are inside one step now.
3. Liveness stays with TLC.
