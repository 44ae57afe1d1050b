----------------------------- MODULE RawSnapshot ------------------------------
(***************************************************************************)
(* The fetch commands other than fetch-silo (cli.py, sources/), each over  *)
(* one dated raw snapshot directory raw/<source>/<date>/ (snapshots.py),   *)
(* and adjudicate-minedex-licence (cli.py, licence.py), the only command   *)
(* that rewrites a finalized snapshot.  Transfers fail or are truncated,   *)
(* upstream publishes a new revision at any moment, processes die, files   *)
(* are edited by hand, and the operator re-runs commands or moves the      *)
(* directory aside.                                                        *)
(***************************************************************************)
EXTENDS Integers, Sequences, Functions

CONSTANTS
    Sources,        \* the sources fetched, a subset of AllSources
    Revisions,      \* revisions upstream publishes; extract dates differ
    Pages,          \* [Revisions -> Seq(STRING)]: item pages of a catalogue
    Broken,         \* a truncated or altered file
    Text,           \* the content of a file nothing here depends on
    None,
    MaxPublish,     \* bound: new upstream revisions
    MaxFailures,    \* bound: transfers that fail or are truncated
    MaxCrashes,     \* bound: processes that die
    MaxEdits        \* bound: files edited by hand

AllSources == {"tenements", "minedex", "maus", "dbca", "dea", "regions"}

ASSUME SnapshotAssumption ==
    /\ Sources \subseteq AllSources
    /\ Pages \in [Revisions -> {<<"page1">>, <<"page1", "page2">>}]
    /\ {MaxPublish, MaxFailures, MaxCrashes, MaxEdits} \subseteq Nat

VARIABLES
    source,     \* whose snapshot this is
    upstream,   \* the revision upstream serves
    dir,        \* the directory, without sums and manifests: name -> content
    sums,       \* SHA256SUMS.txt: name -> the content hashed, or None
    manifest,   \* SHA256SUMS.txt.run_manifest.json, or None
    ruling,     \* licence_evidence.json.run_manifest.json, or None
    run,        \* the command in progress, or None
    faults      \* publications, failures, crashes and edits so far

vars == <<source, upstream, dir, sums, manifest, ruling, run, faults>>

(* What licence_evidence.json says. *)
Evidence ==
    [adjudicated : BOOLEAN, grant : BOOLEAN, contrary : {"unset", "true", "false"},
     files : {{"pdf"}, {"pdf", "package"}}]

Unadjudicated(files) ==
    [adjudicated |-> FALSE, grant |-> FALSE, contrary |-> "unset", files |-> files]

(* The ruling adjudicate-minedex-licence records: CC-BY-4.0 with a contrary *)
(* notice, "licence conflict; redistribution closed".                       *)
Ruled(evidence) ==
    [adjudicated |-> TRUE, grant |-> TRUE, contrary |-> "true", files |-> evidence.files]

(* Hand edits of it: the grant without the contrary notice.                 *)
Edited == {e \in Evidence : e.grant /\ e.contrary = "false"}

Step(do, file) == [do |-> do, file |-> file]
Write(file) == Step("write", file)

(* Mutant: the fetch ends without its run manifest. *)
FinishUnsealed == <<Step("finalize", "sums")>>

Finish == <<Step("finalize", "sums"), Step("seal", "manifest")>>

TenementsPlan ==
    <<Step("download", "zip"), Write("metadata"), Step("validate", "zip")>> \o Finish

MinedexPlan ==
    <<Step("download", "shp"), Step("download", "csv"), Step("capture", "evidence"),
      Write("metadata"), Step("validate", "csv")>> \o Finish

MausPlan ==
    <<Step("fetch", "extract"), Write("extract"), Step("hash", "source"),
      Write("metadata"), Step("validate", "extract")>> \o Finish

DbcaPlan ==
    <<Step("expect", "gpkg"), Step("stage", "gpkg"), Write("sourceSums"),
      Write("sourceMetadata"), Step("validate", "gpkg"), Step("page", "page"),
      Write("metadata"), Step("expect", "gpkg")>> \o Finish

DeaPlan == <<Step("fetch", "collection"), Write("collection")>>

(* The files of a fetched catalogue, in the order they are written. *)
CataloguePlan(revision) ==
    [k \in DOMAIN Pages[revision] |-> Write(Pages[revision][k])]
        \o <<Write("summary"), Write("metadata")>> \o Finish

RegionsPlan ==
    <<Step("fetch", "regions"), Write("regions"), Step("validate", "regions")>> \o Finish

Plan ==
    [tenements |-> TenementsPlan, minedex |-> MinedexPlan, maus |-> MausPlan,
     dbca |-> DbcaPlan, dea |-> DeaPlan, regions |-> RegionsPlan]

AdjudicatePlan ==
    <<Step("rule", "evidence"), Step("update", "sums"), Step("record", "ruling")>>

(* The files a build command names as required_files of the snapshot.  Of a *)
(* catalogue that is the summary alone; the pages are found by ItemPages.   *)
Required ==
    [tenements |-> {"zip"}, minedex |-> {"csv"}, maus |-> {"extract"},
     dbca |-> {"gpkg"}, dea |-> {"summary"}, regions |-> {"regions"}]

(* The files the run manifest gives digests of.                             *)
Assets ==
    [tenements |-> {"zip"}, minedex |-> {"shp", "csv"}, maus |-> {"source"},
     dbca |-> {"gpkg", "page"}, dea |-> {"collection"}, regions |-> {"regions"}]

Names ==
    {"zip", "shp", "csv", "pdf", "package", "evidence", "metadata", "extract", "gpkg",
     "sourceSums", "sourceMetadata", "page", "collection", "page1", "page2", "summary",
     "regions"}

-----------------------------------------------------------------------------
Put(name, content) ==
    [n \in DOMAIN dir \cup {name} |-> IF n = name THEN content ELSE dir[n]]

At(do) == run # None /\ Head(run.plan).do = do
File == Head(run.plan).file

(* A transfer fails, against the bound. *)
Fails == faults.fail < MaxFailures /\ faults' = [faults EXCEPT !.fail = @ + 1]
FailsIf(failed) == IF failed THEN Fails ELSE UNCHANGED faults

Goes == run' = [run EXCEPT !.plan = Tail(@)]
Refuses == run' = None

(* Mutant: metadata.txt, which a refused run left, is not expected. *)
ExpectedWithoutMetadata == {"gpkg", "page", "sourceSums", "sourceMetadata"}

(* expected_names of fetch-dbca-fire.                                       *)
Expected == {"gpkg", "page", "sourceSums", "sourceMetadata", "metadata"}

(* Mutant: the guard over a finalized snapshot is gone. *)
NeverFinalized == TRUE

(* _refuse_if_snapshot_already_finalized. *)
NotFinalized == sums = None

(* Mutant: each MINEDEX bundle is validated on its own. *)
ReadableData ==
    \A n \in {"zip", "shp", "csv", "extract", "gpkg", "regions"} \cap DOMAIN dir :
        dir[n] # Broken

(* Each source's validator: readable files; of MINEDEX one extract date in  *)
(* both bundles.                                                            *)
DataValid ==
    /\ \A n \in {"zip", "shp", "csv", "extract", "gpkg", "regions"} \cap DOMAIN dir :
          dir[n] # Broken
    /\ source = "minedex" => dir["shp"] = dir["csv"]

-----------------------------------------------------------------------------
(* What readers of a snapshot decide.                                       *)

EntriesMatch == \A n \in DOMAIN sums : n \in DOMAIN dir /\ dir[n] = sums[n]

(* _verify_snapshot_or_refuse. *)
Verifies == sums # None /\ Required[source] \subseteq DOMAIN sums /\ EntriesMatch

(* The pages a build of a catalogue reads: items_page_*.json, by name and   *)
(* whatever the summary counts (_load_dea_items).                           *)
ItemPages == {"page1", "page2"} \cap DOMAIN dir

Parses == "evidence" \in DOMAIN dir /\ dir["evidence"] # Broken

Hashes(n) == n \in DOMAIN dir /\ n \in DOMAIN sums /\ dir[n] = sums[n]

(* Mutant: the files evidence.json names are hashed, itself not.            *)
NamedFilesAreHashed ==
    /\ Parses
    /\ sums # None
    /\ \A n \in dir["evidence"].files : Hashes(n)

(* minedex_evidence_is_hashed. *)
EvidenceIsHashed ==
    /\ Parses
    /\ sums # None
    /\ \A n \in dir["evidence"].files \cup {"evidence"} : Hashes(n)

(* minedex_redistribution_allowed. *)
RedistributionAllowed ==
    /\ Parses
    /\ dir["evidence"].grant
    /\ dir["evidence"].contrary = "false"
    /\ EvidenceIsHashed

-----------------------------------------------------------------------------
Init ==
    /\ source \in Sources
    /\ upstream \in Revisions
    /\ dir = [n \in {} |-> Text]
    /\ sums = None
    /\ manifest = None
    /\ ruling = None
    /\ run = None
    /\ faults = [publish |-> 0, fail |-> 0, crash |-> 0, edit |-> 0]

Running(plan) ==
    [plan |-> plan, held |-> None, hashed |-> None, before |-> None, package |-> FALSE]

Begin ==
    /\ run = None
    /\ NotFinalized
    /\ run' = Running(Plan[source])
    /\ UNCHANGED <<source, upstream, dir, sums, manifest, ruling, faults>>

(* A bundle is streamed to its real name; nothing checks its length.        *)
Download(content) ==
    /\ At("download")
    /\ content \in {upstream, Broken}
    /\ FailsIf(content = Broken)
    /\ dir' = Put(File, content)
    /\ Goes
    /\ UNCHANGED <<source, upstream, sums, manifest, ruling>>

DownloadFails ==
    /\ At("download")
    /\ Fails
    /\ dir' \in {dir, Put(File, Broken)}
    /\ Refuses
    /\ UNCHANGED <<source, upstream, sums, manifest, ruling>>

(* The source is read into memory: a catalogue and the regions are checked  *)
(* there, a clipped extract is not.                                         *)
FetchInMemory(content) ==
    /\ At("fetch")
    /\ content \in {upstream} \cup (IF source = "maus" THEN {Broken} ELSE {})
    /\ FailsIf(content = Broken)
    /\ run' = [run EXCEPT !.held = content,
                          !.plan = IF source = "dea" THEN Tail(@) \o CataloguePlan(content)
                                                     ELSE Tail(@)]
    /\ UNCHANGED <<source, upstream, dir, sums, manifest, ruling>>

FetchFails ==
    /\ At("fetch")
    /\ Fails
    /\ Refuses
    /\ UNCHANGED <<source, upstream, dir, sums, manifest, ruling>>

Written(file) ==
    CASE file \in {"extract", "regions", "collection", "page1", "page2", "summary"} -> run.held
      [] file \in {"sourceSums", "sourceMetadata"} -> upstream
      [] file = "pdf" -> dir["csv"]
      [] file = "evidence" ->
            Unadjudicated(IF run.package THEN {"pdf", "package"} ELSE {"pdf"})
      [] OTHER -> Text

WriteFile ==
    /\ At("write")
    /\ dir' = Put(File, Written(File))
    /\ Goes
    /\ UNCHANGED <<source, upstream, sums, manifest, ruling, faults>>

(* capture_licence_evidence.  Adjudicated evidence is left alone; the Data  *)
(* WA record is best effort, the licence PDF in the bundle is not.          *)
CaptureEvidence ==
    /\ At("capture")
    /\ IF Parses /\ dir["evidence"].adjudicated THEN Goes
       ELSE IF dir["csv"] = Broken THEN Refuses
       ELSE \E fetched \in BOOLEAN :
               run' = [run EXCEPT
                   !.package = fetched,
                   !.plan = <<Write("pdf")>>
                               \o (IF fetched THEN <<Write("package")>> ELSE <<>>)
                               \o <<Write("evidence")>> \o Tail(@)]
    /\ UNCHANGED <<source, upstream, dir, sums, manifest, ruling, faults>>

(* The copy of an earlier run is kept, whatever the source package is now.  *)
StageCopy ==
    /\ At("stage")
    /\ dir' = IF "gpkg" \in DOMAIN dir THEN dir ELSE Put("gpkg", upstream)
    /\ Goes
    /\ UNCHANGED <<source, upstream, sums, manifest, ruling, faults>>

(* fetch-maus-extract hashes the source file after it read and clipped it.  *)
HashSource ==
    /\ At("hash")
    /\ run' = [run EXCEPT !.plan = Tail(@), !.hashed = upstream]
    /\ UNCHANGED <<source, upstream, dir, sums, manifest, ruling, faults>>

(* The catalogue page is the licence evidence of DBCA-060: without it, or   *)
(* without a licence marker in it, the run refuses.                         *)
CapturePage(marked) ==
    /\ At("page")
    /\ IF marked THEN dir' = Put("page", Text) /\ Goes
                 ELSE UNCHANGED dir /\ Refuses
    /\ FailsIf(~marked)
    /\ UNCHANGED <<source, upstream, sums, manifest, ruling>>

(* A region file that does not load is deleted again. *)
Validate ==
    /\ At("validate")
    /\ IF DataValid THEN Goes ELSE Refuses
    /\ dir' = IF source = "regions" /\ ~DataValid
                THEN Restrict(dir, DOMAIN dir \ {"regions"})
                ELSE dir
    /\ UNCHANGED <<source, upstream, sums, manifest, ruling, faults>>

RefuseUnexpected ==
    /\ At("expect")
    /\ IF DOMAIN dir \subseteq Expected THEN Goes ELSE Refuses
    /\ UNCHANGED <<source, upstream, dir, sums, manifest, ruling, faults>>

Finalize ==
    /\ At("finalize")
    /\ sums' = dir
    /\ Goes
    /\ UNCHANGED <<source, upstream, dir, manifest, ruling, faults>>

(* Mutant: the digest of the source package's file, not of the copy.        *)
SourceDigest(n) == IF n \in {"source", "gpkg"} THEN upstream ELSE dir[n]

(* sha256 of an input asset, as the manifest records it.                    *)
AssetDigest(n) == IF n = "source" THEN run.hashed ELSE dir[n]

SealSnapshot ==
    /\ At("seal")
    /\ manifest' = [output |-> sums, assets |-> [n \in Assets[source] |-> AssetDigest(n)]]
    /\ Refuses
    /\ UNCHANGED <<source, upstream, dir, sums, ruling, faults>>

-----------------------------------------------------------------------------
(* adjudicate-minedex-licence.                                              *)

Adjudicable ==
    /\ ~dir["evidence"].adjudicated
    /\ dir["evidence"].files = {"pdf", "package"}

Adjudicate ==
    /\ run = None
    /\ source = "minedex"
    /\ sums # None
    /\ Parses
    /\ Adjudicable
    /\ EvidenceIsHashed
    /\ run' = [Running(AdjudicatePlan) EXCEPT !.before = sums]
    /\ UNCHANGED <<source, upstream, dir, sums, manifest, ruling, faults>>

Rule ==
    /\ At("rule")
    /\ dir' = Put("evidence", Ruled(dir["evidence"]))
    /\ Goes
    /\ UNCHANGED <<source, upstream, sums, manifest, ruling, faults>>

(* Mutant: the snapshot is finalized again. *)
HashedAgain == [n \in DOMAIN sums |-> IF n \in DOMAIN dir THEN dir[n] ELSE sums[n]]

(* update_snapshot_entry: the line of evidence.json, and no other.          *)
EvidenceUpdated == [sums EXCEPT !["evidence"] = dir["evidence"]]

UpdateEntry ==
    /\ At("update")
    /\ sums' = EvidenceUpdated
    /\ Goes
    /\ UNCHANGED <<source, upstream, dir, manifest, ruling, faults>>

RecordRuling ==
    /\ At("record")
    /\ ruling' = IF ruling # None THEN ruling
                 ELSE [before |-> run.before, after |-> sums,
                       supersedes |-> IF manifest = None THEN None ELSE manifest.output]
    /\ Refuses
    /\ UNCHANGED <<source, upstream, dir, sums, manifest, faults>>

-----------------------------------------------------------------------------
(* SHA256SUMS.txt as the step in progress would leave it. *)
SumsWritten ==
    IF At("finalize") THEN {dir} ELSE IF At("update") THEN {EvidenceUpdated} ELSE {}

(* The process dies.  The file it was writing may be left torn;             *)
(* SHA256SUMS.txt may be left with only some of its lines.                  *)
Crash ==
    /\ run # None
    /\ faults.crash < MaxCrashes
    /\ run' = None
    /\ faults' = [faults EXCEPT !.crash = @ + 1]
    /\ \/ UNCHANGED <<dir, sums>>
       \/ /\ Head(run.plan).do \in {"download", "write", "page", "rule"}
                \/ (At("stage") /\ "gpkg" \notin DOMAIN dir)
          /\ dir' = Put(File, Broken)
          /\ UNCHANGED sums
       \/ /\ \E whole \in SumsWritten : \E lines \in SUBSET DOMAIN whole :
                sums' = Restrict(whole, lines)
          /\ UNCHANGED dir
    /\ UNCHANGED <<source, upstream, manifest, ruling>>

(* Upstream publishes, also while a fetch runs.                             *)
Publish ==
    /\ faults.publish < MaxPublish
    /\ \E revision \in Revisions \ {upstream} : upstream' = revision
    /\ faults' = [faults EXCEPT !.publish = @ + 1]
    /\ UNCHANGED <<source, dir, sums, manifest, ruling, run>>

(* A file is edited by hand while no command runs.                          *)
Edit(n) ==
    /\ run = None
    /\ faults.edit < MaxEdits
    /\ n \in DOMAIN dir
    /\ dir' \in {Put(n, content) : content \in (IF n = "evidence" THEN Edited ELSE {Broken})}
    /\ dir' # dir
    /\ faults' = [faults EXCEPT !.edit = @ + 1]
    /\ UNCHANGED <<source, upstream, sums, manifest, ruling, run>>

(* "Move the existing snapshot directory aside". *)
MoveAside ==
    /\ run = None
    /\ sums # None
    /\ dir' = [n \in {} |-> Text]
    /\ sums' = None
    /\ manifest' = None
    /\ ruling' = None
    /\ UNCHANGED <<source, upstream, run, faults>>

(* The operator deletes a staged copy that a refusal named. *)
DeleteRefused ==
    /\ run = None
    /\ sums = None
    /\ source = "dbca"
    /\ "gpkg" \in DOMAIN dir /\ ~DataValid
    /\ dir' = Restrict(dir, DOMAIN dir \ {"gpkg"})
    /\ UNCHANGED <<source, upstream, sums, manifest, ruling, run, faults>>

Fetch ==
    \/ \E content \in Revisions \cup {Broken} : Download(content) \/ FetchInMemory(content)
    \/ DownloadFails \/ FetchFails
    \/ WriteFile \/ CaptureEvidence \/ StageCopy \/ HashSource
    \/ \E marked \in BOOLEAN : CapturePage(marked)
    \/ Validate \/ RefuseUnexpected \/ Finalize \/ SealSnapshot

Adjudication == Rule \/ UpdateEntry \/ RecordRuling

Next ==
    \/ Begin \/ Fetch
    \/ Adjudicate \/ Adjudication
    \/ Crash \/ Publish \/ MoveAside \/ DeleteRefused
    \/ \E n \in Names : Edit(n)

Spec == Init /\ [][Next]_vars

(* A started command runs on until it ends or dies; the operator re-runs    *)
(* fetches, deletes a refused copy and moves a finalized directory aside.   *)
(* Transfers fail finitely often (MaxFailures).                             *)
FairSpec ==
    /\ Spec
    /\ WF_vars(Fetch)
    /\ WF_vars(Adjudication)
    /\ SF_vars(Begin)
    /\ SF_vars(MoveAside)
    /\ SF_vars(DeleteRefused)

-----------------------------------------------------------------------------
Contents == Revisions \cup {Broken, Text} \cup Evidence

ASSUME DistinctAssumption ==
    /\ Broken \notin Revisions
    /\ \A names \in SUBSET Names : None \notin [names -> Contents]

IsDirectory(files) ==
    /\ files \in [DOMAIN files -> Contents]
    /\ DOMAIN files \subseteq Names
    /\ "evidence" \in DOMAIN files => files["evidence"] \in Evidence \cup {Broken}

TypeOK ==
    /\ source \in Sources
    /\ upstream \in Revisions
    /\ IsDirectory(dir)
    /\ sums # None => IsDirectory(sums) /\ DOMAIN sums \subseteq DOMAIN dir
    /\ manifest # None => /\ IsDirectory(manifest.output)
                          /\ DOMAIN manifest.assets = Assets[source]
    /\ ruling # None => IsDirectory(ruling.after) /\ "evidence" \in DOMAIN ruling.after
    /\ run # None =>
          /\ run = [plan |-> run.plan, held |-> run.held, hashed |-> run.hashed,
                    before |-> run.before, package |-> run.package]
          /\ run.plan # <<>>
    /\ faults \in [publish : Nat, fail : Nat, crash : Nat, edit : Nat]

(* The files of one revision's catalogue. *)
Catalogue(revision) == {"summary"} \cup Range(Pages[revision])

(* A snapshot a build command accepts holds data that its fetch validated,  *)
(* whatever was truncated, torn, edited or published on the way: no broken  *)
(* required file, MINEDEX bundles of one extract, and of a DEA catalogue    *)
(* every page of the fetch that wrote the summary, unaltered.  A page that  *)
(* a torn SHA256SUMS.txt does not name is not verified, and nothing is said *)
(* of it; nor of a page beyond those the summary counts, which              *)
(* CatalogueIsOneFetch is about.                                            *)
AcceptedIsValidated ==
    Verifies =>
        /\ \A n \in Required[source] : dir[n] # Broken
        /\ source = "minedex" /\ "shp" \in DOMAIN sums => sums["shp"] = sums["csv"]
        /\ source = "dea" =>
              \A n \in Catalogue(dir["summary"]) :
                  n \in DOMAIN sums \/ manifest # None =>
                      n \in DOMAIN dir /\ dir[n] = dir["summary"]

(* The docstring of fetch-dea-catalogue has one fetch captured, checked and *)
(* sealed as a whole, validate_items that duplicate items across pages are  *)
(* refused: the pages a build reads from a sealed snapshot are those of the *)
(* fetch whose summary it reads.  The code does not keep this: a page that  *)
(* a dead run left beyond the last page of the next run is hashed, sealed   *)
(* and read with the rest.  A page torn by the death is left out: a build   *)
(* that reads it fails to parse it.                                         *)
CatalogueIsOneFetch ==
    source = "dea" /\ Verifies /\ manifest # None =>
        \A n \in ItemPages : dir[n] # Broken => dir[n] = dir["summary"]

(* The digests a run manifest gives of the files of its snapshot are those  *)
(* of SHA256SUMS.txt, also for a copy an earlier run staged.                *)
ManifestDescribesFiles ==
    manifest # None =>
        \A n \in Assets[source] \ {"source"} : manifest.assets[n] = manifest.output[n]

(* MINEDEX rows cross the export boundary only on evidence that was hashed  *)
(* when the snapshot was finalized: no edit afterwards, no ruling and no    *)
(* death in the middle of one opens the gate.                               *)
GateOpensOnFinalizedEvidence ==
    RedistributionAllowed /\ manifest # None =>
        /\ "evidence" \in DOMAIN manifest.output
        /\ manifest.output["evidence"] = dir["evidence"]

(* Chain of custody: SHA256SUMS.txt differs from what the fetch manifest    *)
(* recorded in the line of evidence.json only, and only by a ruling on the  *)
(* evidence the fetch hashed; a recorded ruling links both.                 *)
CustodyIsRecorded ==
    /\ manifest # None =>
          \A n \in DOMAIN sums :
              \/ sums[n] = manifest.output[n]
              \/ n = "evidence" /\ sums[n] = Ruled(manifest.output[n])
    /\ ruling # None /\ manifest # None =>
          ruling.supersedes = manifest.output /\ ruling.before = manifest.output

(* A finalized snapshot changes by a ruling, once, and by nothing else a    *)
(* command does, until it is moved aside.                                   *)
FinalizedIsFrozen ==
    [][sums # None /\ sums' # None =>
          /\ manifest # None => manifest' = manifest
          /\ ruling # None => ruling' = ruling
          /\ \/ dir' = dir
             \/ faults'.edit # faults.edit
             \/ At("rule") /\ \A n \in DOMAIN dir \ {"evidence"} : dir'[n] = dir[n]
          /\ \/ sums' = sums
             \/ At("update") /\ ~sums["evidence"].adjudicated]_vars

(* However transfers fail and processes die, re-running the command and     *)
(* moving aside what is stranded ends in a snapshot that is sealed and      *)
(* verifies.                                                                *)
SnapshotIsCaptured == <>(manifest # None /\ Verifies)

=============================================================================
