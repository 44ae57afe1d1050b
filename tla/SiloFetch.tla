------------------------------ MODULE SiloFetch -------------------------------
(***************************************************************************)
(* The `fetch-silo` command (cli.py) over one dated raw snapshot directory *)
(* raw/silo/<date>/ (snapshots.py).  Annual objects are downloaded one by  *)
(* one to a .part name, renamed, validated; then metadata.txt,             *)
(* SHA256SUMS.txt and the run manifest are written.  A transfer may fail   *)
(* or be truncated, the process may die anywhere, and the operator re-runs *)
(* the command, over the same or another year range, after deleting what   *)
(* the refusals name.                                                      *)
(***************************************************************************)
EXTENDS Integers, FiniteSets, Functions

CONSTANTS
    Years,          \* the years of the annual objects
    Ranges,         \* the --start-year .. --end-year ranges asked for
    Bytes,          \* contents of a downloaded object
    Valid,          \* those validate_daily_rain_file accepts
    Text,           \* the content of metadata.txt
    None,           \* no run in progress, no SHA256SUMS.txt, no manifest
    MaxCrashes,     \* bound: processes that die
    MaxAlterations  \* bound: files changed behind the program's back

ASSUME SiloAssumption ==
    /\ Years \subseteq Nat
    /\ Ranges \subseteq SUBSET Years \ {{}}
    /\ Valid \subseteq Bytes
    /\ Text \notin Bytes
    /\ MaxCrashes \in Nat
    /\ MaxAlterations \in Nat

VARIABLES
    dir,        \* the directory, without SHA256SUMS.txt: name -> content
    sums,       \* SHA256SUMS.txt: name -> the content hashed, or None
    manifest,   \* SHA256SUMS.txt.run_manifest.json, or None
    run,        \* the fetch in progress, or None
    faults      \* faults so far, against the bounds

vars == <<dir, sums, manifest, run, faults>>

Object(y) == <<"nc", y>>         \* <year>.daily_rain.nc
Part(y) == <<"part", y>>         \* <year>.daily_rain.nc.part
Metadata == <<"metadata", 0>>    \* metadata.txt

Names == {Object(y) : y \in Years} \cup {Part(y) : y \in Years} \cup {Metadata}
Objects(ys) == {Object(y) : y \in ys}

Contents == Bytes \cup {Text}
PartialFunctions(S, T) == UNION {[D -> T] : D \in SUBSET S}

(* A SHA256SUMS.txt that is not there is no SHA256SUMS.txt. *)
ASSUME AbsentAssumption == None \notin PartialFunctions(Names, Contents)

(* assets: the SourceAssets resolved so far, with the digest of each file.  *)
Run == [pc : {"year", "rename", "validate", "metadata", "finalize", "manifest"},
        range : Ranges, todo : SUBSET Years, assets : PartialFunctions(Years, Bytes),
        resumed : SUBSET Years]

Manifest == [range : Ranges, assets : PartialFunctions(Years, Bytes),
             resumed : SUBSET Years]

-----------------------------------------------------------------------------
Put(name, content) ==
    [n \in DOMAIN dir \cup {name} |-> IF n = name THEN content ELSE dir[n]]

(* Mutants: a .part file is nothing to refuse; metadata.txt, which an       *)
(* earlier run may have left, is not expected.                              *)
UnexpectedObjects(range) ==
    (DOMAIN dir \cap Objects(Years)) \ Objects(range)

UnexpectedMetadata(range) == DOMAIN dir \ Objects(range)

(* _refuse_if_unexpected_files, before fetching and before finalizing. *)
Unexpected(range) == DOMAIN dir \ (Objects(range) \cup {Metadata})

(* Mutant: the guard over a finalized snapshot is gone. *)
NeverFinalized == TRUE

(* _refuse_if_snapshot_already_finalized. *)
NotFinalized == sums = None

At(pc) == run # None /\ run.pc = pc

IsNext(y) == y \in run.todo /\ \A z \in run.todo : y <= z

(* The year is resolved: on to the next one, or to metadata.txt. *)
Resolved(y, resumed) ==
    [run EXCEPT !.pc = IF run.todo = {y} THEN "metadata" ELSE "year",
                !.todo = @ \ {y},
                !.assets = [z \in DOMAIN @ \cup {y} |->
                               IF z = y THEN dir[Object(y)] ELSE @[z]],
                !.resumed = IF resumed THEN @ \cup {y} ELSE @]

-----------------------------------------------------------------------------
Init ==
    /\ dir = [n \in {} |-> Text]
    /\ sums = None
    /\ manifest = None
    /\ run = None
    /\ faults = [crash |-> 0, alter |-> 0]

Begin(range) ==
    /\ run = None
    /\ NotFinalized
    /\ Unexpected(range) = {}
    /\ run' = [pc |-> "year", range |-> range, todo |-> range,
               assets |-> [y \in {} |-> None], resumed |-> {}]
    /\ UNCHANGED <<dir, sums, manifest, faults>>

(* Mutant: an object at its real name is taken as it is. *)
ResumeUnvalidated(y) ==
    /\ At("year")
    /\ IsNext(y)
    /\ Object(y) \in DOMAIN dir
    /\ run' = Resolved(y, TRUE)
    /\ UNCHANGED <<dir, sums, manifest, faults>>

(* The object is there already: skip it if it validates, else refuse. *)
Resume(y) ==
    /\ At("year")
    /\ IsNext(y)
    /\ Object(y) \in DOMAIN dir
    /\ run' = IF dir[Object(y)] \in Valid THEN Resolved(y, TRUE) ELSE None
    /\ UNCHANGED <<dir, sums, manifest, faults>>

(* download_annual_file ends normally; nothing checks the length, so the    *)
(* content may be truncated.                                                *)
Download(y, content) ==
    /\ At("year")
    /\ IsNext(y)
    /\ Object(y) \notin DOMAIN dir
    /\ dir' = Put(Part(y), content)
    /\ run' = [run EXCEPT !.pc = "rename"]
    /\ UNCHANGED <<sums, manifest, faults>>

(* ... or raises, before or after it opened the .part file: a refusal.      *)
DownloadFails(y) ==
    /\ At("year")
    /\ IsNext(y)
    /\ Object(y) \notin DOMAIN dir
    /\ dir' \in {dir} \cup {Put(Part(y), content) : content \in Bytes}
    /\ run' = None
    /\ UNCHANGED <<sums, manifest, faults>>

(* part_path.replace(dest), before the object is validated, although the    *)
(* docstring of the command (cli.py:1769-1773) has it renamed afterwards.   *)
Rename(y) ==
    /\ At("rename")
    /\ IsNext(y)
    /\ dir' = [n \in (DOMAIN dir \ {Part(y)}) \cup {Object(y)} |->
                  IF n = Object(y) THEN dir[Part(y)] ELSE dir[n]]
    /\ run' = [run EXCEPT !.pc = "validate"]
    /\ UNCHANGED <<sums, manifest, faults>>

(* The object just renamed is validated; refused, it keeps its real name.   *)
Validate(y) ==
    /\ At("validate")
    /\ IsNext(y)
    /\ run' = IF dir[Object(y)] \in Valid THEN Resolved(y, FALSE) ELSE None
    /\ UNCHANGED <<dir, sums, manifest, faults>>

WriteMetadata ==
    /\ At("metadata")
    /\ dir' = Put(Metadata, Text)
    /\ run' = [run EXCEPT !.pc = "finalize"]
    /\ UNCHANGED <<sums, manifest, faults>>

(* Mutant: SHA256SUMS.txt lists itself. *)
HashedWithItself ==
    [n \in DOMAIN dir \cup {<<"sums", 0>>} |-> IF n \in DOMAIN dir THEN dir[n] ELSE Text]

(* The walk of finalize_snapshot: whatever the directory holds.             *)
Hashed == dir

(* The second unexpected-file gate, and finalize_snapshot.                  *)
Finalize ==
    /\ At("finalize")
    /\ IF Unexpected(run.range) = {}
         THEN /\ sums' = Hashed
              /\ run' = [run EXCEPT !.pc = "manifest"]
         ELSE /\ run' = None
              /\ UNCHANGED sums
    /\ UNCHANGED <<dir, manifest, faults>>

(* write_run_manifest; what verify_snapshot counts is only reported. *)
WriteManifest ==
    /\ At("manifest")
    /\ manifest' = [range |-> run.range, assets |-> run.assets,
                    resumed |-> run.resumed]
    /\ run' = None
    /\ UNCHANGED <<dir, sums, faults>>

(* The process dies; if it was writing SHA256SUMS.txt, only some of the     *)
(* lines may be in the file.                                                *)
Crash ==
    /\ run # None
    /\ faults.crash < MaxCrashes
    /\ run' = None
    /\ sums' \in {sums} \cup
           IF run.pc = "finalize" /\ Unexpected(run.range) = {}
             THEN {Restrict(Hashed, lines) : lines \in SUBSET DOMAIN Hashed}
             ELSE {}
    /\ faults' = [faults EXCEPT !.crash = @ + 1]
    /\ UNCHANGED <<dir, manifest>>

-----------------------------------------------------------------------------
(* The operator deletes a file of an unfinalized snapshot that a refusal    *)
(* named: an object that does not validate, a .part, a year not asked for.  *)
Delete(n) ==
    /\ run = None
    /\ sums = None
    /\ n \in DOMAIN dir \ {Metadata}
    /\ \/ n \in Objects(Years) => dir[n] \notin Valid
       \/ \E range \in Ranges : n \in Unexpected(range)
    /\ dir' = Restrict(dir, DOMAIN dir \ {n})
    /\ UNCHANGED <<sums, manifest, run, faults>>

(* An object's bytes change while no fetch runs. *)
Alter(y) ==
    /\ run = None
    /\ faults.alter < MaxAlterations
    /\ Object(y) \in DOMAIN dir
    /\ \E content \in Bytes \ {dir[Object(y)]} :
          dir' = [dir EXCEPT ![Object(y)] = content]
    /\ faults' = [faults EXCEPT !.alter = @ + 1]
    /\ UNCHANGED <<sums, manifest, run>>

FetchYear(y) ==
    \/ Resume(y)
    \/ \E content \in Bytes : Download(y, content)
    \/ DownloadFails(y)
    \/ Rename(y)
    \/ Validate(y)

Fetch == (\E y \in Years : FetchYear(y)) \/ WriteMetadata \/ Finalize \/ WriteManifest

Next ==
    \/ \E range \in Ranges : Begin(range)
    \/ Fetch
    \/ Crash
    \/ \E n \in Names : Delete(n)
    \/ \E y \in Years : Alter(y)

Spec == Init /\ [][Next]_vars

(* A started command runs on until it ends or dies; the operator deletes    *)
(* what is refused and re-runs the command; the bucket serves each year's   *)
(* object in full sooner or later.                                          *)
FairSpec ==
    /\ Spec
    /\ WF_vars(Fetch)
    /\ \A range \in Ranges : SF_vars(Begin(range))
    /\ \A n \in Names : SF_vars(Delete(n))
    /\ \A y \in Years, content \in Valid : SF_vars(Download(y, content))

-----------------------------------------------------------------------------
TypeOK ==
    /\ dir \in PartialFunctions(Names, Contents)
    /\ sums \in PartialFunctions(Names, Contents) \cup {None}
    /\ manifest \in Manifest \cup {None}
    /\ run \in Run \cup {None}
    /\ faults \in [crash : 0 .. MaxCrashes, alter : 0 .. MaxAlterations]

(* A finalized snapshot hashes nothing but metadata.txt and objects that    *)
(* passed validate_daily_rain_file, whatever earlier runs over this or      *)
(* another range left in the directory: a truncated object, a .part.        *)
OnlyValidatedIsHashed ==
    sums # None =>
        \A n \in DOMAIN sums \ {Metadata} :
            n \in Objects(Years) /\ sums[n] \in Valid

(* The run manifest of a snapshot and its SHA256SUMS.txt describe the same  *)
(* files with the same digests: one object per year asked for, fetched by   *)
(* this or an earlier process, and nothing else.                            *)
ManifestDescribesSnapshot ==
    manifest # None =>
        /\ sums # None
        /\ DOMAIN sums = Objects(manifest.range) \cup {Metadata}
        /\ DOMAIN manifest.assets = manifest.range
        /\ \A y \in manifest.range : sums[Object(y)] = manifest.assets[y]

(* A finalized snapshot is never touched by the command again: neither its  *)
(* files, nor SHA256SUMS.txt, nor a manifest once written, however often    *)
(* fetch-silo is run over it.                                               *)
FinalizedIsFrozen ==
    [][sums # None =>
          /\ sums' = sums
          /\ dir' = dir \/ faults'.alter # faults.alter
          /\ manifest # None => manifest' = manifest]_vars

(* The fetch is resumable: wherever transfers fail and processes die, doing *)
(* what the refusals say and running the command again ends in a finalized  *)
(* snapshot.                                                                *)
FetchFinishes == <>(sums # None)

=============================================================================
