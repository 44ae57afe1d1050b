-------------------------- MODULE TrajectoryExtract --------------------------
(***************************************************************************)
(* The `extract-trajectories` command of wa-mine-monitor (cli.py) over the *)
(* partition store of trajectory_extract.py.                               *)
(*                                                                         *)
(* A dated directory curated/trajectories/<date>/ holds one directory per  *)
(* (collection_id, year) partition, each with immutable part-NNNN.parquet  *)
(* versions, every part followed by its run manifest, and at the end one   *)
(* extraction_summary.json followed by its own manifest.  Nothing is       *)
(* transactional: the process may die between any two file writes, and the *)
(* operator may run the command again, with the same or other upstream     *)
(* artefacts, over whatever the dead run left behind.                      *)
(***************************************************************************)
EXTENDS Integers, Sequences, FiniteSets

CONSTANTS
    Dates,          \* the --date values, ordered
    Partitions,     \* (collection_id, year) pairs, numbered in write order
    Sites,          \* MINEDEX site ids
    Registers,      \* curated register artefacts (directory and bytes)
    Envs,           \* all other inputs: catalogue, crosswalk, config, code
    Eligible,       \* [Registers -> SUBSET Sites]: trajectory_status = eligible
    Covered,        \* [Envs -> [Sites -> SUBSET Partitions]]: the partitions
                    \* with a catalogue item on a tile the site touches
    None,           \* no run in progress, no summary written
    MaxCrashes,     \* bound: processes that die
    MaxAlterations, \* bound: part files changed behind the program's back
    MaxMoves        \* bound: dated directories the operator moves aside

Scopes == {"sites", "statewide"}

(* What a part's manifest records of the run that wrote it, and what        *)
(* resume_binding_mismatches compares: scope, site_ids, inputs (the         *)
(* register and the rest), config, git and package versions.  The date is   *)
(* the directory's name.                                                    *)
Binding == [scope : Scopes, sites : SUBSET Sites,
            register : Registers, env : Envs]

(* One part-NNNN.parquet.  failed: some row is computable=False.  sealed:   *)
(* a parseable run manifest sits beside it.  intact: its bytes are still    *)
(* the ones written.                                                        *)
Version == [binding : Binding, failed : BOOLEAN,
            sealed : BOOLEAN, intact : BOOLEAN]

(* extraction_summary.json.  The row counts `inserted` and `not_computable` *)
(* are carried by the partitions they were counted over.                    *)
Summary == [binding : Binding, written : SUBSET Partitions,
            failed : SUBSET Partitions, sealed : BOOLEAN]

(* A running command: the binding it fixed at its start, the partitions     *)
(* still to write (rows_by_partition), and the ones this process wrote.     *)
Run == [pc : {"write", "seal", "summary", "sealSummary"}, date : Dates,
        binding : Binding, todo : SUBSET Partitions,
        written : SUBSET Partitions, failed : SUBSET Partitions]

World == [register : Registers, env : Envs]
Faults == [crash : 0 .. MaxCrashes, alter : 0 .. MaxAlterations,
           move : 0 .. MaxMoves]

ASSUME ExtractAssumption ==
    /\ Dates \subseteq Nat
    /\ Partitions \subseteq Nat
    /\ Eligible \in [Registers -> SUBSET Sites]
    /\ Covered \in [Envs -> [Sites -> SUBSET Partitions]]
    /\ MaxCrashes \in Nat
    /\ MaxAlterations \in Nat
    /\ MaxMoves \in Nat
    /\ None \notin Summary
    /\ None \notin Run

VARIABLES
    world,      \* the upstream artefacts a command started now would read
    gate,       \* the latest Huntly verdict is sealed and passed
    parts,      \* parts[d][p]: the versions on disk, part-0000 first
    summary,    \* summary[d]
    run,        \* the extraction in progress, or None
    faults      \* faults so far, against the bounds

vars == <<world, gate, parts, summary, run, faults>>

-----------------------------------------------------------------------------
(* existing_partitions. *)
OnDisk(d) == {p \in Partitions : parts[d][p] # <<>>}

(* Mutant: a part without a manifest is taken for a good one. *)
VerifiedWithoutManifest(v) == v.intact

(* verified_parts, for one file: its manifest is there and parses, and the  *)
(* file still has the digest the manifest records.                          *)
Verified(v) == v.sealed /\ v.intact

(* Mutant: the parts on disk verify, whatever run wrote them. *)
SkipsOverAnyRun(d, p, b) ==
    \A i \in DOMAIN parts[d][p] : Verified(parts[d][p][i])

(* The skip decision of one partition: verified_parts accepts every version *)
(* and resume_binding_mismatches finds no difference for any of them.       *)
SkipsOver(d, p, b) ==
    \A i \in DOMAIN parts[d][p] :
        Verified(parts[d][p][i]) /\ parts[d][p][i].binding = b

(* The --scope and --site-id gates. *)
ScopeAllowed(scope, sites) ==
    \/ /\ scope = "sites"
       /\ sites # {}
       /\ sites \subseteq Eligible[world.register]
    \/ /\ scope = "statewide"
       /\ gate
       /\ sites = Eligible[world.register]

(* expected_partitions: the (collection, year) pairs with a catalogue item  *)
(* on a tile some extracted site's footprint touches.  Each has at least    *)
(* one row per site, so no covered partition is ever refused_empty; a       *)
(* statewide run over a register with no eligible site covers none.         *)
Domain(b) == UNION {Covered[b.env][s] : s \in b.sites}

(* Mutants: a finished directory is extracted again; a directory that       *)
(* exists is never resumed; a partition the run does not cover is ignored.  *)
ResumableAfterSummary(d, b) ==
    /\ OnDisk(d) \subseteq Domain(b)
    /\ \A p \in Domain(b) : SkipsOver(d, p, b)

ResumableOnlyEmpty(d, b) == summary[d] = None /\ OnDisk(d) = {}

ResumableWithStrays(d, b) ==
    /\ summary[d] = None
    /\ \A p \in Domain(b) : SkipsOver(d, p, b)

(* The refusals over the dated directory: it has its summary, it holds a    *)
(* partition the run does not cover, or a partition that cannot be skipped. *)
Resumable(d, b) ==
    /\ summary[d] = None
    /\ OnDisk(d) \subseteq Domain(b)
    /\ \A p \in Domain(b) : SkipsOver(d, p, b)

(* Mutant: the partitions skipped are written all the same. *)
UnwrittenOrNot(d, b) == Domain(b)

(* rows_by_partition: the covered partitions that are not skipped.          *)
Unwritten(d, b) == {p \in Domain(b) : parts[d][p] = <<>>}

-----------------------------------------------------------------------------
Init ==
    /\ world \in World
    /\ gate \in BOOLEAN
    /\ parts = [d \in Dates |-> [p \in Partitions |-> <<>>]]
    /\ summary = [d \in Dates |-> None]
    /\ run = None
    /\ faults = [crash |-> 0, alter |-> 0, move |-> 0]

(* Everything the command checks before it writes: a refusal (an early      *)
(* exit 1) changes no file and is a step that does not happen here.  Rows   *)
(* are read into memory for every covered partition that has no part yet.   *)
Begin(d, scope, sites) ==
    LET b == [scope |-> scope, sites |-> sites,
              register |-> world.register, env |-> world.env]
        todo == Unwritten(d, b)
    IN  /\ run = None
        /\ ScopeAllowed(scope, sites)
        /\ Resumable(d, b)
        /\ run' = [pc |-> IF todo = {} THEN "summary" ELSE "write",
                   date |-> d, binding |-> b, todo |-> todo,
                   written |-> {}, failed |-> {}]
        /\ UNCHANGED <<world, gate, parts, summary, faults>>

IsNext(p) == p \in run.todo /\ \A q \in run.todo : p <= q

(* write_partition: the next version of the next partition in sorted order, *)
(* some rows possibly read_failed or item_missing.                          *)
WritePart ==
    /\ run # None
    /\ run.pc = "write"
    /\ \E p \in run.todo, f \in BOOLEAN :
          /\ IsNext(p)
          /\ parts' = [parts EXCEPT ![run.date][p] =
                 Append(@, [binding |-> run.binding, failed |-> f,
                            sealed |-> FALSE, intact |-> TRUE])]
          /\ run' = [run EXCEPT !.pc = "seal",
                         !.failed = IF f THEN @ \cup {p} ELSE @]
    /\ UNCHANGED <<world, gate, summary, faults>>

SealLast(versions) == [versions EXCEPT ![Len(versions)].sealed = TRUE]

(* write_run_manifest beside the part just written. *)
SealPart ==
    /\ run # None
    /\ run.pc = "seal"
    /\ \E p \in run.todo :
          /\ IsNext(p)
          /\ parts' = [parts EXCEPT ![run.date][p] = SealLast(@)]
          /\ run' = [run EXCEPT
                 !.pc = IF run.todo = {p} THEN "summary" ELSE "write",
                 !.todo = @ \ {p}, !.written = @ \cup {p}]
    /\ UNCHANGED <<world, gate, summary, faults>>

(* extraction_summary.json: `partitions` lists what THIS process wrote.     *)
WriteSummary ==
    /\ run # None
    /\ run.pc = "summary"
    /\ summary' = [summary EXCEPT ![run.date] =
           [binding |-> run.binding, written |-> run.written,
            failed |-> run.failed, sealed |-> FALSE]]
    /\ run' = [run EXCEPT !.pc = "sealSummary"]
    /\ UNCHANGED <<world, gate, parts, faults>>

(* Mutant: the command does not end with its last write. *)
SealSummaryAndGoOn ==
    /\ run # None
    /\ run.pc = "sealSummary"
    /\ summary' = [summary EXCEPT ![run.date].sealed = TRUE]
    /\ run' = [run EXCEPT !.pc = "done"]
    /\ UNCHANGED <<world, gate, parts, faults>>

(* write_run_manifest beside the summary, and the command ends.             *)
SealSummary ==
    /\ run # None
    /\ run.pc = "sealSummary"
    /\ summary' = [summary EXCEPT ![run.date].sealed = TRUE]
    /\ run' = None
    /\ UNCHANGED <<world, gate, parts, faults>>

(* The process dies; a file it was writing stays, without its manifest.     *)
Crash ==
    /\ run # None
    /\ faults.crash < MaxCrashes
    /\ run' = None
    /\ faults' = [faults EXCEPT !.crash = @ + 1]
    /\ UNCHANGED <<world, gate, parts, summary>>

-----------------------------------------------------------------------------
(* Another command rebuilds an upstream artefact, or the operator changes   *)
(* the config or upgrades the code.                                         *)
ChangeWorld ==
    /\ world' \in World \ {world}
    /\ UNCHANGED <<gate, parts, summary, run, faults>>

(* validate-huntly writes the newest verdict, passed or not.  A verdict     *)
(* without its manifest closes the gate like one that failed.               *)
ValidateHuntly ==
    /\ gate' = ~gate
    /\ UNCHANGED <<world, parts, summary, run, faults>>

Altered(versions, i) == [versions EXCEPT ![i].intact = FALSE]

(* A sealed part's bytes change under its manifest. *)
AlterPart(d, p) ==
    /\ faults.alter < MaxAlterations
    /\ \E i \in DOMAIN parts[d][p] :
          /\ Verified(parts[d][p][i])
          /\ parts' = [parts EXCEPT ![d][p] = Altered(@, i)]
    /\ faults' = [faults EXCEPT !.alter = @ + 1]
    /\ UNCHANGED <<world, gate, summary, run>>

Extracting(d) == run # None /\ run.date = d

(* "Move the existing output directory aside ... to build again": what the  *)
(* refusals tell the operator to do, here never under a running extraction. *)
MoveAside(d) ==
    /\ ~Extracting(d)
    /\ OnDisk(d) # {} \/ summary[d] # None
    /\ faults.move < MaxMoves
    /\ parts' = [parts EXCEPT ![d] = [p \in Partitions |-> <<>>]]
    /\ summary' = [summary EXCEPT ![d] = None]
    /\ faults' = [faults EXCEPT !.move = @ + 1]
    /\ UNCHANGED <<world, gate, run>>

Extraction == WritePart \/ SealPart \/ WriteSummary \/ SealSummary

Next ==
    \/ \E d \in Dates, scope \in Scopes, sites \in SUBSET Sites :
          Begin(d, scope, sites)
    \/ Extraction
    \/ Crash
    \/ ChangeWorld
    \/ ValidateHuntly
    \/ \E d \in Dates, p \in Partitions : AlterPart(d, p)
    \/ \E d \in Dates : MoveAside(d)

Spec == Init /\ [][Next]_vars

(* A started command runs on until it ends or dies, and the operator        *)
(* re-runs the command over a dated directory that already holds parts      *)
(* whenever, again and again, it would be accepted.                         *)
Rerun(d) ==
    /\ OnDisk(d) # {}
    /\ \E scope \in Scopes, sites \in SUBSET Sites : Begin(d, scope, sites)

FairSpec ==
    /\ Spec
    /\ WF_vars(Extraction)
    /\ \A d \in Dates : SF_vars(Rerun(d))

-----------------------------------------------------------------------------
TypeOK ==
    /\ world \in World
    /\ gate \in BOOLEAN
    /\ parts \in [Dates -> [Partitions -> Seq(Version)]]
    /\ summary \in [Dates -> Summary \cup {None}]
    /\ run \in Run \cup {None}
    /\ faults \in Faults

(* No partition ever holds two versions: the skip and the refusals of       *)
(* extract-trajectories leave write_partition only partitions with no part, *)
(* however often the command dies and is run again, so the rows of a        *)
(* partition are never counted twice by the readers that concatenate its    *)
(* versions.  The property holds against two docstrings: cli.py:7433-7434   *)
(* (a re-run over a covered partition writes the next version beside it)    *)
(* and trajectory_extract.py:4-6 (--force adds the next part).  The code    *)
(* skips or refuses there, and the command has no --force.                  *)
OneVersionPerPartition ==
    \A d \in Dates, p \in Partitions : Len(parts[d][p]) <= 1

(* A crash costs at most one part: at any time a dated directory holds at   *)
(* most one part without its manifest, because a run that finds one refuses *)
(* instead of writing on.                                                   *)
AtMostOneUnsealed ==
    \A d \in Dates : \A p, q \in Partitions :
        /\ \E i \in DOMAIN parts[d][p] : ~parts[d][p][i].sealed
        /\ \E i \in DOMAIN parts[d][q] : ~parts[d][q][i].sealed
        => p = q

(* A directory with an extraction_summary.json, sealed or not, is the whole *)
(* extraction of one run identity: it holds a sealed part for exactly the   *)
(* partitions that identity covers, every one written under it, although    *)
(* several processes may have written them while the upstream artefacts     *)
(* changed (the stray-partition and resume-binding refusals).               *)
SummarisedTreeIsOneRun ==
    \A d \in Dates : summary[d] # None =>
        /\ OnDisk(d) = Domain(summary[d].binding)
        /\ \A p \in OnDisk(d) : \A i \in DOMAIN parts[d][p] :
              /\ parts[d][p][i].sealed
              /\ parts[d][p][i].binding = summary[d].binding

Kept(v, w) == /\ w.binding = v.binding
              /\ w.failed = v.failed
              /\ v.sealed => w.sealed

KeptSummary(s, t) == t # None /\ Kept(s, t) /\ t.written = s.written

(* What the program wrote is never rewritten, unsealed or removed by any    *)
(* command: not a part, not the summary with the partitions it claims, and  *)
(* once a directory has its summary no part is added to it.  Only the       *)
(* operator moving the whole directory aside takes files away.              *)
FilesAreImmutable ==
    [][\A d \in Dates :
          \/ OnDisk(d)' = {} /\ summary'[d] = None
          \/ /\ \A p \in Partitions :
                   /\ Len(parts[d][p]) <= Len(parts'[d][p])
                   /\ \A i \in DOMAIN parts[d][p] :
                         Kept(parts[d][p][i], parts'[d][p][i])
             /\ summary[d] # None =>
                   /\ KeptSummary(summary[d], summary'[d])
                   /\ \A p \in Partitions : Len(parts'[d][p]) = Len(parts[d][p])]_vars

(* What makes a re-run over d refuse although the directory is unfinished:  *)
(* a part without its manifest left by a dead run, a part that changed, a   *)
(* part another run identity wrote, or a closed Huntly gate.                *)
Spoiled(d) ==
    \E p \in Partitions : \E i \in DOMAIN parts[d][p] :
        LET v == parts[d][p][i]
        IN  \/ ~v.intact
            \/ ~v.sealed /\ ~Extracting(d)
            \/ v.binding.register # world.register
            \/ v.binding.env # world.env
            \/ v.binding.scope = "statewide" /\ ~gate

(* Extraction is resumable: an interrupted directory that stays clean is    *)
(* finished by re-running the command over it, wherever the earlier runs    *)
(* died.                                                                    *)
CleanTreeIsFinished ==
    \A d \in Dates :
        <>[](OnDisk(d) # {} /\ ~Spoiled(d)) => <>(summary[d] # None)

-----------------------------------------------------------------------------
(* The abstract store: a dated table committed by one run identity.         *)
Committed(d) ==
    [p \in Partitions |->
        {[run |-> parts[d][p][i].binding, failed |-> parts[d][p][i].failed] :
            i \in {j \in DOMAIN parts[d][p] : parts[d][p][j].sealed}}]

Store == INSTANCE DatedTable
    WITH Runs <- Binding,
         Expected <- [b \in Binding |-> Domain(b)],
         table <- [d \in Dates |-> Committed(d)],
         finished <- [d \in Dates |-> summary[d] # None]

(* Extraction implements the dated table, whatever dies, changes or is      *)
(* re-run in between.                                                       *)
ImplementsStore == Store!Spec

=============================================================================
