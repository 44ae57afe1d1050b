# Specifications of wa-mine-rehab-monitor

TLA+ models of the `wa-mine-monitor` command line program, the TLC runs that
check them on small instances and the TLAPS proofs about them. Paths below are
relative to the repository; `cli.py` is `src/wa_mine_monitor/cli.py`.

## 1. The system

The program is a set of commands an operator runs by hand. Every command is a
sequential process over one data root. There are no locks, no transactions and
no daemon: commands communicate through dated directories only, and each one
decides from the files it finds whether it may go on.

- *Raw snapshots*, `raw/<source>/<date>/`: the files fetched, `metadata.txt`,
  and `SHA256SUMS.txt` once the snapshot is finalized.
- *Curated artefacts*, `curated/<artefact>/<date>/`: one or more files, each
  followed by `<file>.run_manifest.json`, which records its sha256 and the
  inputs, config, code and package versions of the run. A file without its
  manifest is one whose run died ("unsealed" in the models).

A command refuses (exit 1) instead of overwriting. The operator's only remedies
are those the refusals name: run again, delete a file of an unfinalized
snapshot, move a dated directory aside, choose another date.

### Inventory

| component | state it keeps | operations | what is hard | what makes it correct |
|---|---|---|---|---|
| Trajectory extraction (`extract-trajectories`, `trajectory_extract.py`) | partitions of immutable parts with manifests, one summary with its manifest | gates, skip or refuse each partition, write parts, seal, summarise | death between any two writes; re-runs after inputs changed; stray partitions | one version per partition, one run identity per directory, a summary means complete, resumable |
| Acceptance (`accept-trajectories`, `trajectory_qa.py`) | dated verdicts | digest, battery, digest, verdict, manifest | the tree changes under the battery | a passed verdict is about the bytes that passed |
| Context join (`build-context-join`, `context_join.py`) | dated join | read tree, check the verdict, read contexts, write | read before check; stale verdicts | built from accepted bytes only |
| Trajectory summary (`build-trajectory-summary`, `trajectory_summary.py`) | dated GeoPackage | read register and tree, check verdict, register, join | as above, and joins of another tree | built from accepted bytes, of one tree |
| SILO fetch (`fetch-silo`, `sources/silo.py`) | raw snapshot | resume, download, rename, validate, finalize, manifest | short transfers, deaths, other year ranges | only validated files are hashed; the manifest agrees; it can be finished |
| Other raw fetches (tenements, MINEDEX, Maus, DBCA fire, DEA catalogue, regions) | raw snapshots | download or copy, validate, finalize, manifest | deaths, partial copies, an upstream that publishes between two downloads | what a build accepts was validated; the manifest agrees; a snapshot is captured in the end |
| Snapshots (`snapshots.py`) | SHA256SUMS.txt, metadata | create, finalize, verify, update an entry | torn lists, rewriting a finalized one | a finalized snapshot verifies or is refused |
| Licence adjudication (`adjudicate-minedex-licence`, `licence.py`) | licence_evidence.json in a finalized snapshot | rewrite it, its line of SHA256SUMS.txt, a manifest | death between any two, hand edits | a ruling is made once, on the evidence the fetch hashed, and recorded; the export gate opens on nothing else |
| HTTP client (`http.py`) | attempt budget, thread pool | retry with back-off, `map_concurrent`, `_run_reads_in_serial_order` | interleavings, first failure, endless retries | as the serial loop would; nothing runs on; it answers |
| Run manifests (`manifests.py`) | one manifest per file | write once, compare | conflicts with a manifest on disk | never overwritten |
| Register and crosswalk (`build-register`, `build-crosswalk`) | curated tables | keep rows, exclude, match, count | missing, repeated, ambiguous sites; the register is read unverified | every located site with an id of its own at one confidence level |
| Context builds (climate, fire, footprints, DEA coverage and volume) | curated tables | build | stale or skewed inputs | verified inputs of one Maus extract |
| D3 protocol (`freeze-d3-protocol`, `build-d3-inputs`, `derive-`, `apply-d3-threshold`) | frozen protocol, per-footprint inputs, threshold | freeze, build, derive, apply | order of looking and freezing; leftovers in `.tmp`; several "latest" inputs; limits of the rules | one protocol, frozen first; a verdict is earned |
| Export boundary (`export-release`, `build-tier0-public-rc`, `export_gate.py`, `public_audit.py`, ...) | release directories | gate, audit, write | what crosses | only redistributable data crosses |
| Huntly validation (`validate-huntly`) | dated verdicts | compare, write | the gate of statewide extraction | sealed and passed |
| Pixel numerics (`spectral_metrics.py`, `core/zonal.py`, `pixel_support.py`, `dea_raster.py`) | none | array code | floating point | not a subject of these models |

The hazards found in reading this code are listed, each at its line, in
`PROJECT.json`, with the property that would catch it going wrong or the reason
there is none.

## 2. Modules

| module | models | state |
|---|---|---|
| `DatedTable` | what the partitioned store promises, without files, manifests or deaths | `table`, `finished` |
| `TrajectoryExtract` | `extract-trajectories` over its dated directories | `world` (what a command started now would read upstream), `gate` (Huntly), `parts`, `summary`, `run`, `faults` |
| `TrajectoryExtractProofs` | the invariants of `TrajectoryExtract`, proved | |
| `TrajectoryStoreProofs` | its steps, proved: files are immutable, `DatedTable` is implemented | |
| `TrajectoryPipeline` | `accept-trajectories`, `build-context-join`, `build-trajectory-summary` composed with `TrajectoryExtract` | `verdict`, `join`, `gpkg`, `job` |
| `TrajectoryPipelineProofs` | its invariants, proved, under the assumption on moves that each needs | |
| `SiloFetch` | `fetch-silo` over one dated raw snapshot | `dir`, `sums`, `manifest`, `run`, `faults` |
| `SiloFetchProofs` | its invariants, proved, and that a finalized snapshot is frozen | |
| `RawSnapshot` | the other six fetches and `adjudicate-minedex-licence` over one dated raw snapshot, and the gates that read it | `source`, `upstream`, `dir`, `sums`, `manifest`, `ruling`, `run`, `faults` |
| `RawSnapshotProofs` | its invariants, proved, and that only the ruling changes a finalized snapshot | |
| `SerialMap` | what the pooled helpers promise: the loop over the items | `tolerate`, `results`, `returned` |
| `OrderedPool` | the pool of `map_concurrent` and `_run_reads_in_serial_order` | `mode`, `job`, `slots`, `firstError`, `returned` |
| `PooledFetch` | what the jobs do: `HttpClient.get`, catalogue pages, raster reads | those and `call` |
| `PooledFetchProofs` | its types, the invariant of the pool and the refinement of `SerialMap`, proved | |
| `CuratedLineage` | every command that builds a curated table, as a plan of reads, gates and writes | `extract`, `config`, `table`, `stage`, `run`, `count` |
| `CuratedLineageProofs` | its invariants and action properties, proved | |
| `SiteMatching` | the rows of the register and the crosswalk, as operators | |
| `ThresholdRule` | footprint support, strata, adequacy, selection, criteria, n*, as operators | |
| `EligibilityChain` | the five commands from `build-register` to `apply-d3-threshold`, by what their rows say | `minedex`, `register`, `crosswalk`, `inputs`, `threshold`, `eligible` and the world they measure |
| `EligibilityProofs` | what the operators of the three compute, and the invariants of the chain, proved | |
| `MC...` | the instances for TLC | |

`TrajectoryPipeline` extends `TrajectoryExtract`; `PooledFetch` extends
`OrderedPool`, which instantiates `SerialMap`; `EligibilityChain` extends
`ThresholdRule`, which extends `SiteMatching`. `CuratedLineage` and
`EligibilityChain` look at the same commands from two sides: the first has dates,
files, manifests, deaths and moves, and of a table's rows only which extracts and
protocols they rest on; the second has the rows, and one table of each kind.

Definitions marked *Mutant* are not used by the specifications; each is a
plausible bug of the code, and replacing the definition below it by the mutant
violates a property (`PROJECT.json`, `mutants`).

### TrajectoryExtract

`Begin` is everything the command does before its first write: scope and site
gates, the Huntly gate, the choice of upstream artefacts, the refusals over the
dated directory (`Resumable`), and the decision which partitions are skipped
(`SkipsOver`: every version on disk verifies and carries this run's binding). A
refusal changes no file, so it is a `Begin` that does not happen. The code keeps
all rows in memory and writes only when every partition was read; hence the
write loop is a separate phase: `WritePart` and `SealPart` for one partition
after the other in sorted order, then `WriteSummary` and `SealSummary`. `Crash`
may happen before any of them. `ChangeWorld`, `ValidateHuntly`, `AlterPart` and
`MoveAside` are the other commands and the operator.

A run's *binding* is what its manifests record and `resume_binding_mismatches`
compares: scope, site ids, the register and all other inputs, config, code and
packages (`env`). A part's rows are abstracted to whether some row is not
computable. Which partitions a run covers is `Covered[env][site]`, the catalogue
items on the tiles the site's footprint touches.

### TrajectoryPipeline

One downstream command at a time (`job`) runs next to extraction, tampering,
upstream changes and moves. It first picks the latest trajectories directory,
verifies its summary and reads its other inputs (`Start`), then reads and
verifies every part (`ReadTree`), then goes through its own steps. A gate that
refuses or a process that dies is `JobStops`; what it wrote stays unsealed.

The code compares sha256 digests. `PartsDigest` and `SummaryDigest` say what
those bytes depend on: a part's rows on the sites, on the register's and the
crosswalk's contents and on which reads failed; the summary on its date, scope,
sites, partitions written and totals, and *not* on its inputs (the JSON also holds
the digest of the frozen protocol, of which there is one: protocols change in
`CuratedLineage`, not here, and two summaries that differ in it would only be easier
to tell apart). Artefacts in the
model also keep the whole tree and summary they were made from; no guard
reads more of them than the digests, only properties do. Reading a whole tree
is one step.

The operator tells `accept-trajectories` how many partitions to expect
(`ExpectedCounts`). For the default, `Statewide`, `Battery` also asks which
partitions they are; any other number is an override for a tree of another shape,
and only the number is compared. A verdict keeps that number, and no gate of the two builds looks at it.

### SiloFetch

Names in `dir` map to contents. Every step between two file operations of the
command is an action; `Download` may leave any content (nothing checks its
length), `DownloadFails` a `.part` or nothing, `Crash` while SHA256SUMS.txt is
written any subset of its lines. `Delete` is what the refusals ask of the
operator.

### RawSnapshot

A fetch is a plan, a sequence of steps over one directory, taken from the order
of the command's writes: downloads, the evidence of the licence, copies, the
validation, `metadata.txt`, `SHA256SUMS.txt`, the run manifest. `Begin` holds the
refusals; each step is an action, and `Crash` may come before any of them (and
leave some lines of `SHA256SUMS.txt`). `Publish` changes what upstream serves
between two downloads. What a validator measures is one flag, `DataValid`: no
required file is broken and the two MINEDEX bundles are of one extract. The pages
of a DEA catalogue are files of their own; the only required file is its summary,
and a build reads whatever pages it finds (`ItemPages`). `Verifies`
is the gate of every build (`_verify_snapshot_or_refuse`), `RedistributionAllowed`
the one of the export. The adjudication is three writes: `Rule`, `UpdateEntry`,
`RecordRuling`.

### SerialMap, OrderedPool, PooledFetch

Both helpers submit every item at once and take the futures in order; they
differ in how the number of threads is clamped, in whether they have an inline
path without a pool, and in what is tolerated (`mode`). Results are the numbers
of the items. `PooledFetch` says what a job of `fetch-dea-catalogue` does between
start and end: a collection, then its pages, each with its attempts; time is not
modelled, but the delay computed is, since `time.sleep` raises on a negative one.

### CuratedLineage

A command is a plan, a kind of table and the steps before its first write
(`Command[c]`) followed by the writes of that kind (`Writes`); the command in
progress is at one step of it (`run.at`). The steps are `read` (the latest table, with its manifest
verified), `peek` (the latest, unverified: the crosswalk reads the register so),
`gate` and `write`/`seal`, or `stage`/`sealStaged`/`publish` for the three D3
artefacts, which are assembled in `<date>.tmp`. The order of the steps is that of
the code: which gate precedes which read is what the properties are about. While
a command runs, a newer Maus extract may be finalized (`NewExtract`), the
protocol file edited (`EditConfig`), the process may die. A file's content is the
level of the register's columns, the Maus extracts whose maus_ids or geometry its
rows were joined or measured on, and the protocols it rests on. A table whose rows do
not conform is refused and its file removed (`RefuseTable`), which may leave an empty
directory; a GeoParquet of the release candidate that cannot be written is a refusal
that leaves what was written before (`FailToWrite`). `build-tier0-public-rc` asks
whether the directory of its version exists (`NoVersion`), the other commands
whether it holds their output (`Absent`). `Catalogued` is the refusal of a register
whose manifest names no catalogue, as that of `apply-d3-threshold` never does.

Changes of extract and of config matter only to a command that reads them later,
so `NoticedNow` lets them happen just before such a step (or between commands):
a reduction that loses no behaviour up to the order of independent steps.

### SiteMatching, ThresholdRule, EligibilityChain

A register row is an id (missing or repeated), a place (nowhere, or which
polygons contain the point and which are within 2000 m) and a commodity. A
polygon is a ground: whether its geometry is usable, its region, its pixel
centres, its years and how many are computable. Measured errors and correlations
are kept as how they compare with their tolerance, at each support. The shape
class of a stratum is, as the region, a fixed attribute of the polygon and is
not kept apart from it; a collection has one metric. The commands read the latest
table of each kind, and MINEDEX may be fetched again between any two of them.

## 3. Runs

| run | instance | what it shows |
|---|---|---|
| `extract` | 1 date, 2 partitions, 2 sites, 2 registers, 2 environments (in the second each site covers another partition), 2 crashes, 1 alteration, 1 move | `TypeOK`, `OneVersionPerPartition`, `AtMostOneUnsealed`, `SummarisedTreeIsOneRun`, `FilesAreImmutable`, `CleanTreeIsFinished` (liveness), `ImplementsStore` (refinement of `DatedTable`) |
| `acceptance` | 1 date, 2 partitions, 2 sites, 1 register, 2 environments (the catalogue of the second lacks a partition), 1 or 2 partitions expected, 1 alteration, 1 move, symmetric in sites | `PassedVerdictDescribesItsBytes`, `AcceptedTreeIsOneRun` |
| `pipeline` | 2 dates, 1 partition, 2 verdicts, 1 join, 1 summary, 1 move | `PipelineTypeOK`, `OnlyAcceptedBytesAreJoined`, `OnlyAcceptedBytesArePublished` |
| `silo` | 2 years, 3 ranges, 2 valid revisions of an object and a truncated one, 2 crashes, 1 alteration | `TypeOK`, `OnlyValidatedIsHashed`, `ManifestDescribesSnapshot`, `FinalizedIsFrozen`, `FetchFinishes` (liveness) |
| `workers` | 4 jobs on 1 or 2 threads, both helpers, with and without tolerated errors, 2 attempts, 2 pages, waits of -1 and 5 | `TypeOK`, `NothingRunsAfterReturn`, `ImplementsSerialMap` (refinement), `HelperReturns` (liveness) |
| `raw` | 6 sources, 2 upstream revisions (one publication), 1 failed or short transfer, 2 crashes, 1 hand edit | `TypeOK`, `AcceptedIsValidated`, `ManifestDescribesFiles`, `GateOpensOnFinalizedEvidence`, `CustodyIsRecorded`, `FinalizedIsFrozen`, `SnapshotIsCaptured` (liveness) |
| `lineage` | 2 dates, 2 extracts, 2 protocols (symmetric), 3 commands run, 2 of: a death, a change upstream, a move; any write of the release may fail | `TypeOK`, `OneExtract`, `OneProtocol`, `SingleLineage`, `PublishedIsWhole`, `RefusalsLeaveNoTable`, `SealedIsImmutable`, `JudgedUnderTheFrozenProtocol` |
| `eligibility` | 2 polygons, at most 2 rows, 2 MINEDEX snapshots; supports 9, 100, 144; worlds that vary the sites, or the grounds, or what is measured | `TypeOK`, `LevelsPartitionSites`, `ThresholdIsEarned`, `EligibleIsEarned` |
| `resumed` | 2 partitions, 1 crash | *violated*: `CompleteTreePasses` |
| `skew` | 1 partition, 2 verdicts, 1 move | *violated*: `ContextIsFromTheSameTree` |
| `stale_pages` | the DEA catalogue, 2 upstream revisions with two pages and one, 1 crash | *violated*: `CatalogueIsOneFetch` |
| `mixed_extracts` | 2 extracts, the chain up to a threshold on the first date, 2 commands run, 1 change upstream | *violated*: `EligibilityRestsOnOneExtract` |

**Bounds.** Two partitions are enough for a part written, one being written and
one still to write; more only repeat the loop. Two environments and two
registers give every kind of binding mismatch, and a stray partition. Two
crashes let a run resume a resumed run. One alteration spoils a part before or
after it is read. One move lets a tree be replaced by another of the same date.
Directories of different dates are independent in extraction (its theorems hold
for any number), so `extract` has one; choosing among them matters downstream,
where `pipeline` has two. There the row contents of a part differ by what
failed only, and in `acceptance` by the environment too, which also decides which
partitions a tree covers: with 1 partition expected, the tree of the second is
accepted as it is, and with 2 refused.

In `workers`, four jobs on two threads let a later job end before an earlier
one starts, and leave one waiting while two run; two attempts and two pages have
a first, a last and a next one. In `raw`, two crashes strand a snapshot that was
already resumed, and each source is a choice of the initial state. In `lineage`
the data root starts empty or with the whole chain up to a threshold on the
first date, so three commands rebuild any part of it, apply it, or build on it;
two events include a change and a death, or a move and a re-run. In
`eligibility` the limits are scaled (one footprint makes a stratum adequate, two
are too many to use them all) and the grounds lie on both sides of
each: 0, 99, 143, 144, 145 and 200 pixels, too few years, none, outside the
regions, an unusable geometry. Two rows can be missing, repeated, ambiguous and
tied; nothing in the rules relates three.

**What the bounds leave out.** The two digests of `accept-trajectories` find a
tree that was replaced and stays replaced. A tree replaced twice while the
battery runs, the second time by the first bytes again, goes unnoticed:
`acceptance` allows one move, and TLC finds `PassedVerdictDescribesItsBytes`
violated when it is allowed two. Theorem `PassedIsDeserved` says what remains true
for any number of moves: none is made while acceptance itself runs. In `acceptance` no process dies: the crashes of
extraction are the subject of `extract`, and a resumed tree cannot be accepted
(see below).

**Moves under a running command.** `Quiet` is the set of commands during which
the operator does not move the trajectories directory aside that they read. It
is `{"join", "summary"}` in `pipeline` and `skew`; the program's own words for it
are "re-run against a quiescent tree". It is `{}` in `acceptance` and `resumed`. The properties of `pipeline` need it:
`build-context-join` reads the rows (`cli.py:8646-8660`), then takes the digest of
the directory again (`cli.py:8719`) instead of that of what it read, while its comment
says that the verdict covers the bytes this build consumes (`cli.py:8662-8664`).
With `Quiet = {}`, two moves, two registers, one partition and one verdict, TLC
finds a join of rows no verdict accepted: a second tree is there when the rows are
read, and the accepted one is extracted again before the digest is taken. Alterations in place, re-runs,
new upstream artefacts and other commands are never excluded.

**Deadlock** is checked in `eligibility`, where a register can always be built.
Elsewhere it is not: the system stops when the operator stops, all dates may be
used up, and a pool that has answered has nothing left to do.

**Fairness.** `Spec` has none. `FairSpec` of `TrajectoryExtract` says a running
command takes its next step (`WF`; it is a sequential process that ends or
dies), and that the operator runs the command again over a directory that holds
parts whenever it would be accepted again and again (`SF_vars(Rerun(d))`).
Crashes are bounded, so they do not need to be excluded. `CleanTreeIsFinished`
is conditional: it speaks of directories that stay clean, those with a torn or
altered part or a changed upstream are refused by design. `FairSpec` of
`SiloFetch` says the same of the command and the operator (who also deletes what
refusals name), and that a year's object is served in full if asked for again
and again. `FairSpec` of `PooledFetch` is weak fairness of each thread: it takes a job
that waits, a request or a read that runs ends (`timeout_seconds`), the calling
thread takes and returns; nothing is assumed of the answers. `FairSpec` of
`RawSnapshot` adds to the running command (`WF`) that the operator runs the fetch
again, deletes a copy that a refusal names, and moves aside a snapshot that no
run can finish (`SF`, as for extraction). `CuratedLineage` and `EligibilityChain`
have no fairness: their properties are about safety.

### What the code does not do

Four runs find what a docstring promises and the code does not do; each is a
finding in `PROJECT.json`, with the lines.

- `resumed`: the summary lists the partitions of the last process only, so a
  resumed extraction cannot be accepted and its summary cannot be rewritten.
- `skew`: the version-skew gate compares directory names, and names are reused
  after a move-aside.
- `stale_pages`: `fetch-dea-catalogue` may be resumed in the directory of a dead run
  and removes nothing. When the dead run had more pages, its last ones are
  hashed, sealed, and read by the glob of `_load_dea_items` (`cli.py:942`) beside
  those of the run whose summary seals the snapshot. `build_item_index` drops
  repeated item ids and reports how many; an item that has left the catalogue stays.
  Pages the summary does count are those of its own fetch (`AcceptedIsValidated`),
  but for a page that a torn `SHA256SUMS.txt` does not name, which nothing verifies.
- `mixed_extracts`: `derive-dea-volume` and `build-d3-inputs` refuse to join
  tables of two Maus extracts on `maus_id`; `apply-d3-threshold` joins the latest crosswalk
  with the latest footprint support and compares only their protocols.

Other statements of the repository that the code does not keep are in the models,
and no run is spent on them:

- A re-run never adds a version. The docstring of `extract-trajectories`
  (`cli.py:7433-7434`) has a re-run over a covered partition write the next version
  beside it, that of `trajectory_extract.py` (4-6) has `--force` do so. The command
  has no `--force`; over a covered partition it skips or refuses
  (`cli.py:7991-8046`). `write_partition` would write a next part, and is never
  asked to: `OneVersionPerPartition` holds against both docstrings.
- The docstring of `fetch-silo` says an object gets its real name only after
  validation (`cli.py:1769-1773`), so that a truncated transfer never sits there for a
  later run. The code renames first (1893) and then validates (`Rename`,
  `Validate`): after a refusal or a death it does sit there. A later run validates
  it again, so nothing truncated is finalized (`OnlyValidatedIsHashed`).
- The two builds take the digest of the tree after, and not of, what they read
  (see "Moves under a running command").
- `--expected-partitions` lets an incomplete tree pass, on the operator's word, and
  no gate of the two builds looks at the number. `AcceptedTreeIsOneRun` says
  "statewide" for the default number only.
- `build-tier0-public-rc` turns a failed write into a refusal (`cli.py:4555-4566`)
  that leaves the first table, without a manifest, in a directory its next run
  refuses. `RefusalsLeaveNoTable` makes this one exception.
- `eligibility` holds, but only relative to the MINEDEX snapshot the crosswalk was
  built from and to one set of polygons: `apply-d3-threshold` joins the latest register with
  the crosswalk and compares neither's MINEDEX snapshot, so a site that has moved or is
  repeated since keeps its verdict (`mixed_extracts` is the same of the polygons,
  which `EligibilityChain` does not change). And a missing commodity is classed as "other"
  instead of refused, since it arrives as nan. The docstrings assume otherwise of
  their callers (rule 1 of `assign_trajectory_eligibility` explains an absent site by
  the exclusions of this register; `classify_commodity` speaks of null values).

## 4. Proofs

### Extraction

`TrajectoryExtractProofs` and `TrajectoryStoreProofs` prove, for every value of the constants that meets
`ExtractAssumption` (dates and partitions are numbered, `Eligible` and `Covered`
are functions of the right type, the bounds are naturals, `None` is neither a
summary nor a run):

| theorem | statement |
|---|---|
| `InductiveInvariant` | `Spec => []IInv` |
| `TypeCorrect` | `Spec => []TypeOK` |
| `PartitionsAreWrittenOnce` | `Spec => []OneVersionPerPartition` |
| `CrashCostsOnePart` | `Spec => []AtMostOneUnsealed` |
| `SummaryMeansComplete` | `Spec => []SummarisedTreeIsOneRun` |
| `NothingWrittenChanges` | `Spec => FilesAreImmutable` |
| `ExtractionImplementsStore` | `Spec => ImplementsStore` |

None of the three safety invariants is inductive: each is about files, and the
next write depends on what the running process remembers. `IInv` adds
`RunOwnsDirectory`: every part in the directory being written carries the run's
binding; the partitions still to write have no part, except the one being
sealed; every covered partition that is not to be written is on disk; all but
the part being sealed are sealed; the summary is there exactly when the run is
about to seal it. `Begin` establishes it from `Resumable` (that is where the
skip rule, the binding comparison and the stray check are used), the writes keep
it, and `WriteSummary` turns it into `SummarisedTreeIsOneRun`. There is one
lemma per action; lemmas on `SealLast`, `Altered` and `Append` carry the
sequence facts.

The last two theorems are about steps. `TrajectoryStoreProofs` first proves what
each action does to the files (`WritePartEffect`, `SealPartEffect`,
`SummaryEffect`, `AlterPartEffect`); `IInv` is what makes `WritePart` append to
an empty partition of an unfinished directory and `SealPart` touch the run's own
part only. From these, every action keeps what was written, and maps to a step of
`DatedTable`: `SealPart` to `Commit`, `WriteSummary` to `Finish` (by
`RunOwnsDirectory` the parts on disk are then exactly what the run's identity
covers), `MoveAside` to `Discard`, every other action to a stutter.

### The pool

`PooledFetchProofs` proves, for any number of jobs, pages, attempts and threads
that meets `PoolAssumption` (`N` a natural number, `Workers` a set of them, `None`
not one):

| theorem | statement |
|---|---|
| `PooledFetchIsPool` | `Spec => PoolSpec`: the jobs, whatever they do, are a pool of jobs that end |
| `PoolInvariant` | `PoolSpec => []PoolInv` |
| `ReturnedMeansDone` | `Spec => []NothingRunsAfterReturn` |
| `FetchTypes` | `Spec => []TypeOK` |
| `PoolIsSerial` | `Spec => ImplementsSerialMap` |

`PoolInv` says that what the calling thread has taken are ended jobs, that the
first failure is among them, and that a pooled helper answers only after taking
all. The refinement maps the loop's results to what was taken, cut before the
first failure: a `Take` after that failure is a stutter, the `Return` is then the
loop's `Fail`. Once it is known that `Take` is in order (`NextTaken`), no step
depends on how the threads interleave, which is the argument of the docstrings.

`FetchTypes` is inductive as it stands and needs only that budgets and page counts
are positive and that delays are integers (`HttpAssumption`); the delay an answer
asks for is any of them, negative ones included.

### fetch-silo

`SiloFetchProofs`, for any years, ranges, contents and bounds that meet
`SiloAssumption` (years are numbers, a range is not empty, `metadata.txt` is no
object's content) and `AbsentAssumption` (`None` is no directory):

| theorem | statement |
|---|---|
| `Invariance` | `Spec => []IInv` |
| `TypeCorrect` | `Spec => []TypeOK` |
| `ValidatedOnly` | `Spec => []OnlyValidatedIsHashed` |
| `ManifestIsTrue` | `Spec => []ManifestDescribesSnapshot` |
| `Frozen` | `Spec => FinalizedIsFrozen` |

`OnlyValidatedIsHashed` speaks of `SHA256SUMS.txt` and does not survive
`Finalize` unless the run that writes it is known to have validated what is
there. `RunKnowsDirectory` adds that: the years resolved are those of the range
that are not left to do, each is on disk with the validated content the run
remembers, and when the sums are there (the run is about to write its manifest)
they are of exactly these objects. `Alter` and `Delete` happen between runs (their
guard `run = None`), of which there may be any number over one directory; a file
altered between its validation and its hash, in one run, is outside the model
and would be hashed.

### The pipeline

`TrajectoryPipelineProofs` composes. `PipelineIsExtraction` says that the
pipeline, whatever its three commands do, is a behaviour of `TrajectoryExtract`;
so the theorems on extraction hold in it and `IInv` may be used at every step.

| theorem | assumes | statement |
|---|---|---|
| `PipelineIsExtraction` | | `PipelineSpec => Spec` |
| `PipelineInvariance` | | `PipelineSpec => [](PipelineIInv /\ QuietIInv)` |
| `PipelineTypes` | | `PipelineSpec => []PipelineTypeOK` |
| `PassedIsDeserved` | `"accept" \in Quiet` | `PipelineSpec => []PassedVerdictDescribesItsBytes` |
| `AcceptedIsOneRun` | `"accept" \in Quiet` | `PipelineSpec => []AcceptedTreeIsOneRun` |
| `JoinedIsAccepted` | `"join" \in Quiet` | `PipelineSpec => []OnlyAcceptedBytesAreJoined` |
| `PublishedIsAccepted` | both builds in `Quiet` | `PipelineSpec => []OnlyAcceptedBytesArePublished` |

The argument: a command reads a tree that verifies; while nobody moves that
tree, its parts may be unsealed or altered but not replaced (`TreeStays`); so
when a second look finds it verified again, the two trees are equal
(`VerifiedSameIsEqual`), and the digest taken then is the digest of what was
read. `JobKnows` keeps what each command holds at each of its steps,
`TreesHaveOneIdentity` turns the identity of one partition into that of the
tree. `QuietIInv` is one implication for each command that may be undisturbed,
so that one invariant serves all values of `Quiet`. The assumptions are needed:
without the one on acceptance TLC finds the double replacement described under
"What the bounds leave out", without those on the builds the one described under
"Moves under a running command".

`AcceptedIsOneRun` speaks of the tree a verdict covers, whatever count the operator
expected: one version of each partition on disk, one identity, over the sites of the
register and of the summary, as many partitions as expected, and for the default
count exactly those of the protocol. The domain check of the battery is what gives
the last part, the comparison with the register's eligible sites the first.

### Raw snapshots

`RawSnapshotProofs`, for any sources, revisions, pages and bounds that meet
`SnapshotAssumption` and `DistinctAssumption` (a broken file is no revision,
`None` is no directory):

| theorem | statement |
|---|---|
| `SnapshotInvariance` | `Spec => []IInv` |
| `SnapshotTypes` | `Spec => []TypeOK` |
| `AcceptedWasValidated` | `Spec => []AcceptedIsValidated` |
| `ManifestIsOfItsFiles` | `Spec => []ManifestDescribesFiles` |
| `GateIsOfFinalizedEvidence` | `Spec => []GateOpensOnFinalizedEvidence` |
| `CustodyIsKept` | `Spec => []CustodyIsRecorded` |
| `FinalizedStaysFrozen` | `Spec => FinalizedIsFrozen` |

What a fetch in progress knows depends on what it still has to do. `Rest` says
what a remaining plan looks like (it ends with the sums and the manifest, what
touches data is validated later, the licence PDF is taken out of a bundle that is
no longer downloaded), the initial plans satisfy it, and it is closed under
taking a step: one lemma serves all six sources instead of one invariant for
each step of each plan. `FetchKnows` then says that what will not be validated
any more is valid. The catalogue, whose plan grows when its collection is read,
is treated apart: the files of the revision fetched are on disk or still in the plan,
so when the sums are written the pages the summary counts are there and of its
revision. `RulingKnows` follows the three writes of an adjudication,
`RuledOnly` and `RulingLinks` what a ruling, cut short or not, made of the sums:
the evidence entry and nothing else, once.

### Curated lineage

`CuratedLineageProofs`, for any finite set of dates (positive numbers), any
extracts and protocols, and any bounds:

| theorem | statement |
|---|---|
| `LineageInvariance` | `Spec => []IInv` |
| `LineageTypes` | `Spec => []TypeOK` |
| `JoinsRestOnOneExtract` | `Spec => []OneExtract` |
| `VerdictsRestOnOneProtocol` | `Spec => []OneProtocol` |
| `NeverTwoFrozen` | `Spec => []SingleLineage` |
| `PublishedWhole` | `Spec => []PublishedIsWhole` |
| `RefusalsAreClean` | `Spec => []RefusalsLeaveNoTable` |
| `SealedStays` | `Spec => SealedIsImmutable` |
| `JudgedUnderTheFrozen` | `Spec => JudgedUnderTheFrozenProtocol` |

`AllSound` says of every file on disk, sealed, staged or left over, what the
properties say of verified tables: its extracts, or its protocols, are one (of an
eligible register only its protocols, see `mixed_extracts`). For a
write to keep it the command must be known to have read only sound tables
(`KnowsWhatItRead`) and its gates must still hold when it writes (`GatesHold`):
they were passed many steps earlier. Most compare what the run already holds;
`NeverFrozen` and `KnowsTheFrozen` look at `d3-protocol`, and stay true because the
model runs one command at a time and moves nothing under it. `OneDirectory`, never two directories of a
protocol, is stronger than `SingleLineage` and is what is inductive.
`NoTableLeft` is what makes `RefusalsLeaveNoTable` inductive: a directory is
whole, or empty, or the one being written, or a release candidate with no
manifest. `WrittenSoFar` and `StagedSoFar` follow the files of the running command; since
`run.at` is an index into a fixed plan, what was done is a prefix, and a lemma for
each command says which steps those are.

`JudgedUnderTheFrozen` is the promise of the D3 commands ("no accuracy result may
change sample definitions or criteria after freezing"): whatever inputs or
threshold appear in a step, the protocol they were computed under is the one that
is frozen at that moment.

### Eligibility

`EligibilityProofs`, for any finite set of polygons and regions, any number and
length of MINEDEX snapshots, any supports and limits that meet
`MatchingAssumption` (polygons are numbers), `ThresholdAssumption` (some support is
below 144, limits are positive, `None` is no number or Boolean) and
`WorldsAssumption` (worlds and snapshots have their types):

| theorem | statement |
|---|---|
| `ChainInvariance` | `Spec => []IInv` |
| `ChainTypes` | `Spec => []TypeOK` |
| `LevelsPartition` | `Spec => []LevelsPartitionSites` |
| `ThresholdEarned` | `Spec => []ThresholdIsEarned` |
| `EligibleEarned` | `Spec => []EligibleIsEarned` |

Here the invariant is simple and the operators are not. `IInv` is provenance:
each table is what its command computes from tables and snapshots that existed.
Nothing is removed and `ground` and `evidence` do not change, so each action
keeps it. The work is in lemmas that say what an operator of `SiteMatching` or
`ThresholdRule` returns, for every input:

- least and largest elements exist (from the well-foundedness of `<`; the
  operators use `CHOOSE`), and a set has a subset of a given size exactly if it
  is large enough (`SizedSubset`);
- the crosswalk: a kept site is one located row with its own id (`SiteIsKept`), its
  links are a fan of one level (`LinksAreFan`, `OwnLinks`), and the links fall into
  four disjoint parts whose sizes add up (`FourParts`, `CrosswalkReconciles`);
- the threshold: which strata are adequate (`AdequateStrataAre`), which cells fail
  (`FailedAre`, `NoneFails`), which support is best (`BestIsThere`), together
  `RuleIsEarned`;
- the inputs and the verdict: which footprint supports which pixels (`SupportIs`),
  which one represents a site (`RepresentativeIs`), what each of the rules assigns
  (`AssignIs`, `EligibleIs`).

`FractionHolds` is used as it is: it occurs on both sides of `ThresholdIsEarned`,
and the counts in it are sums over a set (folds).

### Model-checked only

- The liveness properties `CleanTreeIsFinished`, `FetchFinishes`,
  `SnapshotIsCaptured` and `HelperReturns`: liveness under fairness is out of this
  prover's reach.
- What the sums inside `FractionHolds` add up to.
- That `acceptance` holds with one move while the command runs (`Quiet = {}`): the
  theorem excludes all such moves, the run allows one, and two are too many.
- The violated properties, which are no theorems.

## 5. Not modelled

- Pixel reads, metrics, the D3 simulation and all other numeric code: pure
  functions over arrays. What they yield is a free input of the models.
- Formats, messages, wording of licences, path scrubbing in manifests, parsing of
  HTTP headers, of the config and of the protocol file.
- What the validators of the raw sources measure (row counts, CRS, columns): one
  flag in `RawSnapshot`.
- Owners, tenement counts and the reconciliation report of the register; the
  values of the climate, fire, coverage, volume and footprint-area tables; the
  rows of the context join and the aggregates of the trajectory summary. No
  command decides on them.
- The row-contract, metric-set, key-column and shared-footprint checks of the
  battery, which rows written by the extraction meet.
- The column allow-lists, the audit and the texts of the release commands: one
  pass over static lists. Their reads and writes are in `CuratedLineage`, the
  licence gate in `RawSnapshot`.
- QGIS project, scripts.

## 6. What is left

Every invariant, action property and refinement that a passing run checks is
stated by a theorem. What the lists of hazards and of components still leave
open:

1. The properties that fail (`skew`, `resumed`, `stale_pages`, `mixed_extracts`) say
   what the code does not do; each would become a candidate theorem with the
   change of the code that repairs it.
2. The two-sided view of the curated tables (`CuratedLineage` with files and
   deaths, `EligibilityChain` with rows) is tied together by reading only. A
   refinement between them would need the rows in `CuratedLineage`.
3. The counts that decide whether stratum fractions hold are sums (folds) and are
   compared only by TLC.
