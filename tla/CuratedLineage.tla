---------------------------- MODULE CuratedLineage ----------------------------
(***************************************************************************)
(* The commands (cli.py) that build the curated tables from each other,    *)
(* from build-register to apply-d3-threshold, the context tables and the   *)
(* releases.  A command runs its gates and reads in order, then either     *)
(* writes its table in place and seals it with a run manifest, or writes   *)
(* and seals every file in <date>.tmp and renames that to <date>.  While   *)
(* it runs a newer Maus extract may be finalized, the protocol config      *)
(* edited, and the process may die; the operator re-runs commands and      *)
(* moves directories aside.                                                *)
(***************************************************************************)
EXTENDS Integers, Sequences, FiniteSets, Functions

CONSTANTS
    Dates,          \* the --date values used
    Extracts,       \* Maus extracts, older ones smaller
    Protocols,      \* contents of the protocol config file
    None,
    MaxRuns,        \* bound: commands run
    MaxCrashes,     \* bound: processes that die
    MaxChanges,     \* bound: newer extracts and edits of the protocol config
    MaxAsides,      \* bound: directories moved aside
    MaxEvents       \* bound: deaths, changes and moves together

ASSUME LineageAssumption ==
    /\ Dates \subseteq Nat \ {0} /\ IsFiniteSet(Dates)
    /\ Extracts \subseteq Nat \ {0} /\ Extracts # {}
    /\ {MaxRuns, MaxCrashes, MaxChanges, MaxAsides, MaxEvents} \subseteq Nat

VARIABLES
    extract,    \* the latest verified Maus snapshot
    config,     \* what the protocol config file holds
    table,      \* table[kind][date]: a dated directory, or None
    stage,      \* stage[kind][date]: <date>.tmp, or None
    run,        \* the command in progress, or None
    count       \* runs, crashes, changes and moves so far

vars == <<extract, config, table, stage, run, count>>

(* What is written in place, and what is staged in <date>.tmp.              *)
StagedKinds == {"d3-protocol", "d3-inputs", "d3-threshold"}

Kinds ==
    StagedKinds \cup {"register", "crosswalk", "footprints", "volume", "climate", "fire",
                      "release", "public-rc"}

(* The files of a table; of the five of d3-inputs, the one apply reads and  *)
(* one more.                                                                *)
Files(kind) ==
    CASE kind = "d3-inputs" -> <<"support", "summary">>
      [] kind = "public-rc" -> <<"tenements", "maus">>
      [] OTHER -> <<"table">>

(* Of a file: the register's columns (0 base, 1 with DEA coverage, 2 with   *)
(* trajectory eligibility), the Maus extracts whose maus_ids or geometry    *)
(* its rows were joined or measured on, and the protocols they were judged  *)
(* under.  (A threshold is a pixel count: it has no maus_ids.)              *)
Content == [level : 0 .. 2, extracts : SUBSET Extracts, protocols : SUBSET Protocols]

Plain == [level |-> 0, extracts |-> {}, protocols |-> {}]

EmptyDirectory == [written |-> [f \in {} |-> Plain], sealed |-> [f \in {} |-> Plain]]

With(f, x, y) == [z \in DOMAIN f \cup {x} |-> IF z = x THEN y ELSE f[z]]

-----------------------------------------------------------------------------
Step(do, kind, file) == [do |-> do, kind |-> kind, file |-> file]
Read(kind, file) == Step("read", kind, file)            \* _digest_verified_manifest
ReadUnverified(kind) == Step("peek", kind, "table")
Gate(name) == Step("gate", name, "")

InPlace(kind) ==
    [k \in DOMAIN Files(kind) |-> Step("write", kind, Files(kind)[k])]
        \o [k \in DOMAIN Files(kind) |-> Step("seal", kind, Files(kind)[k])]

Staged(kind) ==
    LET files == Files(kind) IN
    [k \in 1 .. 2 * Len(files) |->
        IF k % 2 = 1 THEN Step("stage", kind, files[(k + 1) \div 2])
                     ELSE Step("sealStaged", kind, files[k \div 2])]
        \o <<Gate("absent"), Step("publish", kind, "")>>

(* What each command reads and checks, in order, before it writes.          *)
BuildRegister == <<Gate("absent")>>

BuildCrosswalk == <<ReadUnverified("register"), Gate("extract"), Gate("absent")>>

BuildFootprints == <<Gate("extract"), Gate("absent")>>

BuildCoverage == <<Read("register", "table"), Gate("absent")>>

DeriveVolume ==
    <<Read("crosswalk", "table"), Read("footprints", "table"), Read("register", "table"),
      Gate("covered"), Gate("sameExtract"), Gate("catalogued"), Gate("absent")>>

FreezeProtocol ==
    <<Gate("config"), Gate("neverFrozen"), Gate("absent")>>

BuildInputs ==
    <<Gate("absent"), Gate("oneFrozen"), Read("d3-protocol", "table"), Gate("config"),
      Gate("noDrift"), Read("register", "table"), Gate("covered"), Read("crosswalk", "table"),
      Read("footprints", "table"), Gate("sameExtract"), Gate("extract"),
      Gate("sameAsLatest"), Gate("catalogued")>>

(* Mutant: any d3-inputs will do. *)
DeriveFromAnyInputs ==
    <<Gate("absent"), Gate("oneFrozen"), Read("d3-protocol", "table"), Gate("config"),
      Gate("noDrift"), Read("d3-inputs", "support"), Read("d3-inputs", "summary")>>

DeriveThreshold ==
    <<Gate("absent"), Gate("oneFrozen"), Read("d3-protocol", "table"), Gate("config"),
      Gate("noDrift"), Read("d3-inputs", "support"), Read("d3-inputs", "summary"),
      Gate("inputsOfFrozen")>>

(* Mutant: the protocol of the threshold is not compared. *)
ApplyWithoutComparing ==
    <<Read("register", "table"), Gate("covered"), Read("crosswalk", "table"),
      Gate("oneFrozen"), Read("d3-protocol", "table"), Read("d3-threshold", "table"),
      Read("d3-inputs", "support"), Gate("inputsOfThreshold"), Gate("absent")>>

ApplyThreshold ==
    <<Read("register", "table"), Gate("covered"), Read("crosswalk", "table"),
      Gate("oneFrozen"), Read("d3-protocol", "table"), Read("d3-threshold", "table"),
      Gate("thresholdOfFrozen"), Read("d3-inputs", "support"), Gate("inputsOfThreshold"),
      Gate("absent")>>

(* Mutant: climate and fire trust the crosswalk's extract.                  *)
ContextWithoutLatest(kind) ==
    <<Gate("absent"), Read("register", "table"), Gate("eligible"), Read("crosswalk", "table"),
      Gate("extract")>>

(* Mutant: the extract is compared when the table is there already.         *)
ContextComparedLate(kind) ==
    <<Gate("absent"), Read("register", "table"), Gate("eligible"), Read("crosswalk", "table"),
      Gate("extract"), Step("write", kind, "table"), Gate("sameAsLatest")>>

(* build-climate-context and build-fire-context.                            *)
BuildContext(kind) ==
    <<Gate("absent"), Read("register", "table"), Gate("eligible"), Read("crosswalk", "table"),
      Gate("extract"), Gate("sameAsLatest")>>

BuildClimate == BuildContext("climate")
BuildFire == BuildContext("fire")

(* export-release reads the footprints of its own --date.                   *)
ExportRelease == <<Gate("absent"), Step("readDated", "footprints", "table")>>

BuildPublicRC == <<Gate("noVersion"), Gate("extract")>>

Command ==
    [register |-> [kind |-> "register", before |-> BuildRegister],
     crosswalk |-> [kind |-> "crosswalk", before |-> BuildCrosswalk],
     footprints |-> [kind |-> "footprints", before |-> BuildFootprints],
     coverage |-> [kind |-> "register", before |-> BuildCoverage],
     volume |-> [kind |-> "volume", before |-> DeriveVolume],
     freeze |-> [kind |-> "d3-protocol", before |-> FreezeProtocol],
     inputs |-> [kind |-> "d3-inputs", before |-> BuildInputs],
     derive |-> [kind |-> "d3-threshold", before |-> DeriveThreshold],
     apply |-> [kind |-> "register", before |-> ApplyThreshold],
     climate |-> [kind |-> "climate", before |-> BuildClimate],
     fire |-> [kind |-> "fire", before |-> BuildFire],
     release |-> [kind |-> "release", before |-> ExportRelease],
     rc |-> [kind |-> "public-rc", before |-> BuildPublicRC]]

Writes(kind) == IF kind \in StagedKinds THEN Staged(kind) ELSE InPlace(kind)

Plan == [command \in DOMAIN Command |->
            Command[command].before \o Writes(Command[command].kind)]

-----------------------------------------------------------------------------
Now == Plan[run.command][run.at]
At(do) == run # None /\ Now.do = do
Kind == Now.kind
File == Now.file

Goes == run' = IF run.at = Len(Plan[run.command]) THEN None ELSE [run EXCEPT !.at = @ + 1]
Refuses == run' = None
GoesIf(condition) == IF condition THEN Goes ELSE Refuses

Built(kind) == {d \in Dates : table[kind][d] # None}
Latest(kind) == CHOOSE d \in Built(kind) : \A e \in Built(kind) : e <= d

Sealed(directory, file) ==
    /\ file \in DOMAIN directory.written
    /\ file \in DOMAIN directory.sealed
    /\ directory.sealed[file] = directory.written[file]

Verified(kind, d) ==
    table[kind][d] # None
        /\ \A k \in DOMAIN Files(kind) : Sealed(table[kind][d], Files(kind)[k])

Took(kind, content) == run' = [run EXCEPT !.at = @ + 1, !.in[kind] = content]

(* The latest dated directory, and what its file holds.                     *)
ReadLatest ==
    /\ At("read")
    /\ IF Built(Kind) # {} /\ Sealed(table[Kind][Latest(Kind)], File)
         THEN Took(Kind, table[Kind][Latest(Kind)].written[File])
         ELSE Refuses
    /\ UNCHANGED <<extract, config, table, stage, count>>

(* build-crosswalk reads the latest register without its manifest.          *)
PeekLatest ==
    /\ At("peek")
    /\ IF Built(Kind) # {} /\ File \in DOMAIN table[Kind][Latest(Kind)].written
         THEN Took(Kind, table[Kind][Latest(Kind)].written[File])
         ELSE Refuses
    /\ UNCHANGED <<extract, config, table, stage, count>>

ReadDated ==
    /\ At("readDated")
    /\ IF table[Kind][run.date] # None /\ Sealed(table[Kind][run.date], File)
         THEN Took(Kind, table[Kind][run.date].written[File])
         ELSE Refuses
    /\ UNCHANGED <<extract, config, table, stage, count>>

(* Mutant: only this --date is looked at.                                   *)
NotFrozenAtThisDate == table["d3-protocol"][run.date] = None

(* Any dated directory under curated/d3-protocol blocks a freeze.           *)
NeverFrozen == Built("d3-protocol") = {}

(* Mutant: an output that exists is no reason to refuse.                    *)
AbsentOrNot == TRUE

(* No output file; a directory without one does not matter.                 *)
Absent ==
    LET directory == table[Command[run.command].kind][run.date] IN
    directory = None \/ DOMAIN directory.written = {}

(* build-tier0-public-rc refuses a version whose directory exists, empty or *)
(* not.                                                                     *)
NoVersion == table[Command[run.command].kind][run.date] = None

InProtocols(kind) == run.in[kind].protocols

OneFrozen == Cardinality(Built("d3-protocol")) = 1
NoDrift == InProtocols("d3-protocol") = {run.config}
Covered == run.in["register"].level >= 1

(* Only build-dea-coverage records the catalogue in its manifest.           *)
Catalogued == run.in["register"].level = 1

Eligible == run.in["register"].level = 2
SameExtract == run.in["crosswalk"].extracts = run.in["footprints"].extracts
SameAsLatest == run.in["crosswalk"].extracts = {run.extract}
InputsOfFrozen == InProtocols("d3-inputs") = InProtocols("d3-protocol")
ThresholdOfFrozen == InProtocols("d3-threshold") = InProtocols("d3-protocol")
InputsOfThreshold == InProtocols("d3-inputs") = InProtocols("d3-threshold")

GateHolds(name) ==
    CASE name = "absent" -> Absent
      [] name = "noVersion" -> NoVersion
      [] name = "catalogued" -> Catalogued
      [] name = "neverFrozen" -> NeverFrozen
      [] name = "oneFrozen" -> OneFrozen
      [] name = "noDrift" -> NoDrift
      [] name = "covered" -> Covered
      [] name = "eligible" -> Eligible
      [] name = "sameExtract" -> SameExtract
      [] name = "sameAsLatest" -> SameAsLatest
      [] name = "inputsOfFrozen" -> InputsOfFrozen
      [] name = "thresholdOfFrozen" -> ThresholdOfFrozen
      [] name = "inputsOfThreshold" -> InputsOfThreshold

(* A check of what was read so far. *)
PassGate ==
    /\ At("gate")
    /\ Kind \notin {"extract", "config"}
    /\ GoesIf(GateHolds(Kind))
    /\ UNCHANGED <<extract, config, table, stage, count>>

(* The latest Maus snapshot verifies and is read; the protocol config is    *)
(* read.                                                                    *)
ReadSource ==
    /\ At("gate")
    /\ \/ Kind = "extract" /\ run' = [run EXCEPT !.at = @ + 1, !.extract = extract]
       \/ Kind = "config" /\ run' = [run EXCEPT !.at = @ + 1, !.config = config]
    /\ UNCHANGED <<extract, config, table, stage, count>>

(* The frame has the columns and the types of the schema it is written      *)
(* under: a raw table may have others, and build-dea-coverage does not      *)
(* expect the eligibility columns.                                          *)
Conforms ==
    CASE run.command = "register" -> BOOLEAN
      [] run.command = "coverage" -> {run.in["register"].level < 2}
      [] OTHER -> {TRUE}

(* What the command computes of what it read. *)
Output ==
    LET from(kinds) == UNION {run.in[k].protocols : k \in kinds} IN
    CASE run.command = "register" -> Plain
      [] run.command \in {"crosswalk", "footprints", "rc"} ->
            [Plain EXCEPT !.extracts = {run.extract}]
      [] run.command = "coverage" ->
            [run.in["register"] EXCEPT !.level = IF @ = 0 THEN 1 ELSE @]
      [] run.command = "volume" ->
            [Plain EXCEPT !.extracts = run.in["crosswalk"].extracts
                                          \cup run.in["footprints"].extracts]
      [] run.command = "freeze" -> [Plain EXCEPT !.protocols = {run.config}]
      [] run.command = "inputs" ->
            [Plain EXCEPT !.extracts = run.in["crosswalk"].extracts
                                          \cup run.in["footprints"].extracts
                                          \cup {run.extract},
                          !.protocols = from({"d3-protocol"})]
      [] run.command = "derive" ->
            [Plain EXCEPT !.protocols = from({"d3-protocol", "d3-inputs"})]
      [] run.command = "apply" ->
            [Plain EXCEPT !.level = 2,
                          !.extracts = run.in["crosswalk"].extracts
                                          \cup run.in["d3-inputs"].extracts,
                          !.protocols = from({"d3-protocol", "d3-threshold", "d3-inputs"})]
      [] run.command \in {"climate", "fire"} ->
            [Plain EXCEPT !.extracts = run.in["crosswalk"].extracts \cup {run.extract}]
      [] run.command = "release" -> run.in["footprints"]

Put(directories, d, directory) == [directories EXCEPT ![Kind][d] = directory]
Current(directory) == IF directory = None THEN EmptyDirectory ELSE directory

(* _write_table_or_refuse: the directory is there before the refusal.       *)
RefuseTable ==
    /\ At("write")
    /\ FALSE \in Conforms
    /\ table' = Put(table, run.date, Current(table[Kind][run.date]))
    /\ Refuses
    /\ UNCHANGED <<extract, config, stage, count>>

(* The table is written under its final name. *)
WriteTable ==
    /\ At("write")
    /\ TRUE \in Conforms
    /\ table' = Put(table, run.date,
                    [Current(table[Kind][run.date]) EXCEPT !.written = With(@, File, Output)])
    /\ Goes
    /\ UNCHANGED <<extract, config, stage, count>>

(* A GeoParquet of the release cannot be written: a refusal, which leaves   *)
(* the directory, what was written before, and perhaps part of this file.   *)
FailToWrite ==
    /\ At("write") /\ Kind = "public-rc"
    /\ LET directory == Current(table[Kind][run.date])
           torn == [directory EXCEPT !.written = With(@, File, Plain)]
       IN \E left \in {directory, torn} : table' = Put(table, run.date, left)
    /\ Refuses
    /\ UNCHANGED <<extract, config, stage, count>>

SealTable ==
    /\ At("seal")
    /\ table' = Put(table, run.date,
                    [table[Kind][run.date] EXCEPT !.sealed = With(@, File, Output)])
    /\ Goes
    /\ UNCHANGED <<extract, config, stage, count>>

(* The file is written in <date>.tmp, over what a dead run left there.      *)
WriteStaged ==
    /\ At("stage")
    /\ stage' = Put(stage, run.date,
                    [Current(stage[Kind][run.date]) EXCEPT !.written = With(@, File, Output)])
    /\ Goes
    /\ UNCHANGED <<extract, config, table, count>>

(* Mutant: a manifest that is already there is good.                        *)
NoConflict(directory) == TRUE

(* write_run_manifest accepts an existing manifest of the same output and   *)
(* inputs only.                                                             *)
Agrees(directory) ==
    File \in DOMAIN directory.sealed => directory.sealed[File] = directory.written[File]

SealStaged ==
    /\ At("sealStaged")
    /\ LET directory == stage[Kind][run.date] IN
       IF Agrees(directory)
         THEN /\ stage' = Put(stage, run.date,
                              IF File \in DOMAIN directory.sealed THEN directory
                              ELSE [directory EXCEPT !.sealed = With(@, File, Output)])
              /\ Goes
         ELSE UNCHANGED stage /\ Refuses
    /\ UNCHANGED <<extract, config, table, count>>

(* os.replace(<date>.tmp, <date>). *)
Publish ==
    /\ At("publish")
    /\ table' = Put(table, run.date, stage[Kind][run.date])
    /\ stage' = Put(stage, run.date, None)
    /\ Goes
    /\ UNCHANGED <<extract, config, count>>

-----------------------------------------------------------------------------
(* One chain up to the frozen protocol, built at the first date.            *)
FirstDate == CHOOSE d \in Dates : \A e \in Dates : d <= e
FirstExtract == CHOOSE g \in Extracts : \A h \in Extracts : g <= h

Whole(kind, content) ==
    LET names == {Files(kind)[k] : k \in DOMAIN Files(kind)} IN
    [written |-> [f \in names |-> content], sealed |-> [f \in names |-> content]]

Init ==
    /\ extract = FirstExtract
    /\ config \in Protocols
    /\ \E built \in BOOLEAN :
          LET first(kind) ==
                 CASE kind = "register" -> [Plain EXCEPT !.level = 1]
                   [] kind \in {"crosswalk", "footprints"} ->
                         [Plain EXCEPT !.extracts = {extract}]
                   [] kind = "d3-protocol" -> [Plain EXCEPT !.protocols = {config}]
                   [] kind = "d3-inputs" ->
                         [Plain EXCEPT !.extracts = {extract}, !.protocols = {config}]
                   [] kind = "d3-threshold" -> [Plain EXCEPT !.protocols = {config}]
              chain == {"register", "crosswalk", "footprints"} \cup StagedKinds
          IN table = [kind \in Kinds |-> [d \in Dates |->
                        IF built /\ d = FirstDate /\ kind \in chain
                          THEN Whole(kind, first(kind)) ELSE None]]
    /\ stage = [kind \in Kinds |-> [d \in Dates |-> None]]
    /\ run = None
    /\ count = [runs |-> 0, crashes |-> 0, changes |-> 0, asides |-> 0]

Begin(command, d) ==
    /\ run = None
    /\ count.runs < MaxRuns
    /\ run' = [command |-> command, date |-> d, at |-> 1,
               in |-> [kind \in Kinds |-> None], extract |-> None, config |-> None]
    /\ count' = [count EXCEPT !.runs = @ + 1]
    /\ UNCHANGED <<extract, config, table, stage>>

Eventful == count.crashes + count.changes + count.asides < MaxEvents

(* Death before the first write leaves what a refusal leaves.               *)
Crash ==
    /\ run # None
    /\ \/ At("seal") \/ At("sealStaged") \/ At("publish")
       \/ (At("write") \/ At("stage")) /\ File # Files(Kind)[1]
    /\ Eventful /\ count.crashes < MaxCrashes
    /\ run' = None
    /\ count' = [count EXCEPT !.crashes = @ + 1]
    /\ UNCHANGED <<extract, config, table, stage>>

(* A change while a command does anything but look at what changes is the   *)
(* same as one just before it looks, or after it ends.                      *)
NoticedNow(source) == run = None \/ (At("gate") /\ Kind = source)

(* fetch-maus-extract finalizes a newer snapshot. *)
NewExtract ==
    /\ NoticedNow("extract")
    /\ Eventful /\ count.changes < MaxChanges
    /\ \E g \in Extracts : g > extract /\ extract' = g
    /\ count' = [count EXCEPT !.changes = @ + 1]
    /\ UNCHANGED <<config, table, stage, run>>

EditConfig ==
    /\ NoticedNow("config")
    /\ Eventful /\ count.changes < MaxChanges
    /\ \E p \in Protocols \ {config} : config' = p
    /\ count' = [count EXCEPT !.changes = @ + 1]
    /\ UNCHANGED <<extract, table, stage, run>>

(* "Move the existing output directory aside". *)
MoveAside(kind, d) ==
    /\ run = None
    /\ Eventful /\ count.asides < MaxAsides
    /\ table[kind][d] # None
    /\ table' = [table EXCEPT ![kind][d] = None]
    /\ count' = [count EXCEPT !.asides = @ + 1]
    /\ UNCHANGED <<extract, config, stage, run>>

Work ==
    \/ ReadLatest \/ PeekLatest \/ ReadDated \/ PassGate \/ ReadSource
    \/ RefuseTable \/ WriteTable \/ FailToWrite \/ SealTable \/ WriteStaged \/ SealStaged \/ Publish

Next ==
    \/ \E command \in DOMAIN Command, d \in Dates : Begin(command, d)
    \/ Work
    \/ Crash \/ NewExtract \/ EditConfig
    \/ \E kind \in Kinds, d \in Dates : MoveAside(kind, d)

Spec == Init /\ [][Next]_vars

-----------------------------------------------------------------------------
Names(kind) == {Files(kind)[k] : k \in DOMAIN Files(kind)}

Run == [command : DOMAIN Command, date : Dates, at : Nat, in : [Kinds -> Content \cup {None}],
        extract : Extracts \cup {None}, config : Protocols \cup {None}]

Contents(kind) == UNION {[names -> Content] : names \in SUBSET Names(kind)}
Directories(kind) == [written : Contents(kind), sealed : Contents(kind)]

ASSUME NoneAssumption ==
    /\ None \notin Run /\ None \notin Content
    /\ \A kind \in Kinds : None \notin Directories(kind)

IsDirectory(kind, directory) ==
    /\ directory = [written |-> directory.written, sealed |-> directory.sealed]
    /\ directory.written \in [DOMAIN directory.written -> Content]
    /\ directory.sealed \in [DOMAIN directory.sealed -> Content]
    /\ DOMAIN directory.sealed \subseteq DOMAIN directory.written
    /\ DOMAIN directory.written \subseteq Names(kind)

DirectoryOK(kind, directory) == directory = None \/ IsDirectory(kind, directory)

TypeOK ==
    /\ extract \in Extracts
    /\ config \in Protocols
    /\ count \in [runs : Nat, crashes : Nat, changes : Nat, asides : Nat]
    /\ DOMAIN table = Kinds /\ DOMAIN stage = Kinds
    /\ \A kind \in Kinds : DOMAIN table[kind] = Dates /\ DOMAIN stage[kind] = Dates
    /\ \A kind \in Kinds, d \in Dates :
          DirectoryOK(kind, table[kind][d]) /\ DirectoryOK(kind, stage[kind][d])
    /\ \A kind \in Kinds \ StagedKinds, d \in Dates : stage[kind][d] = None
    /\ run # None => run \in Run /\ run.at \in DOMAIN Plan[run.command]
    /\ \A kind \in StagedKinds, d \in Dates : table[kind][d] = None \/ stage[kind][d] = None

VerifiedContents(kind) ==
    UNION {{table[kind][d].written[f] : f \in DOMAIN table[kind][d].written}
              : d \in {e \in Dates : Verified(kind, e)}}

(* A volume estimate, D3 inputs or context table rests on one Maus extract, *)
(* whichever crosswalk, footprints and raw snapshot were latest when its    *)
(* build looked: maus_ids of two extracts never meet in it.  (The register  *)
(* of apply-d3-threshold is another matter: EligibilityRestsOnOneExtract.)  *)
OneExtract ==
    \A kind \in {"volume", "d3-inputs", "climate", "fire"} :
        \A content \in VerifiedContents(kind) : Cardinality(content.extracts) = 1

(* What the refusal of derive-dea-volume and build-d3-inputs says of a join *)
(* on maus_id, asked of apply-d3-threshold, which joins the latest          *)
(* crosswalk with the latest footprint support and compares no extracts:    *)
(* sites are matched in one extract and judged by the support of another.   *)
(* It does not hold.                                                        *)
EligibilityRestsOnOneExtract ==
    \A content \in VerifiedContents("register") : Cardinality(content.extracts) <= 1

(* The support, the threshold and the register an eligibility verdict rests *)
(* on were made under one protocol, however often a protocol was moved      *)
(* aside and another frozen in between.                                     *)
OneProtocol ==
    /\ \A kind \in {"d3-inputs", "d3-threshold"} :
          \A content \in VerifiedContents(kind) : Cardinality(content.protocols) = 1
    /\ \A content \in VerifiedContents("register") :
          content.level = 2 => Cardinality(content.protocols) = 1

(* "Single lineage": there is never more than one frozen protocol.          *)
SingleLineage == Cardinality(Built("d3-protocol")) <= 1

(* What is renamed into place is whole: every file has the manifest of the  *)
(* bytes beside it, and all files are of one run, whatever dead runs with   *)
(* other inputs left in <date>.tmp.                                         *)
PublishedIsWhole ==
    \A kind \in StagedKinds : \A d \in Built(kind) :
        /\ Verified(kind, d)
        /\ \A f, g \in DOMAIN table[kind][d].written :
              table[kind][d].written[f] = table[kind][d].written[g]

(* Without a death, every dated directory holds its whole table with the    *)
(* manifests, or nothing at all: a refusal never leaves a table that every  *)
(* later build would refuse and none could replace.  The exception is the   *)
(* release candidate: a write that fails leaves tables, but none of them    *)
(* with a manifest.                                                         *)
RefusalsLeaveNoTable ==
    run = None /\ count.crashes = 0 =>
        \A kind \in Kinds : \A d \in Built(kind) :
            \/ Verified(kind, d)
            \/ table[kind][d] = EmptyDirectory
            \/ kind = "public-rc" /\ DOMAIN table[kind][d].sealed = {}

(* A dated table never changes once it is sealed; it can only be moved      *)
(* aside.                                                                   *)
SealedIsImmutable ==
    [][\A kind \in Kinds, d \in Dates :
          Verified(kind, d) => table'[kind][d] \in {table[kind][d], None}]_vars

(* "No accuracy result may change sample definitions or criteria after      *)
(* freezing": a D3 table appears only while the protocol it was computed    *)
(* under is the one that is frozen.                                         *)
JudgedUnderTheFrozenProtocol ==
    [][\A kind \in {"d3-inputs", "d3-threshold"}, d \in Dates :
          table[kind][d] = None /\ table'[kind][d] # None =>
              \A f \in DOMAIN table'[kind][d].written :
                  \E e \in Built("d3-protocol") :
                      table'[kind][d].written[f].protocols
                          = table["d3-protocol"][e].written["table"].protocols]_vars

=============================================================================
