-------------------------- MODULE TrajectoryPipeline -------------------------
(***************************************************************************)
(* The commands downstream of extract-trajectories, composed with it:      *)
(* accept-trajectories (trajectory_qa.py), build-context-join and          *)
(* build-trajectory-summary (cli.py).  Each one picks the latest dated     *)
(* directory of every artefact it needs, reads it over several steps while *)
(* extraction, tampering or the operator may change the tree, and writes   *)
(* its own dated artefact followed by its run manifest.                    *)
(***************************************************************************)
EXTENDS TrajectoryExtract

CONSTANTS
    Protocol,        \* EXPECTED_STATEWIDE_DOMAIN: the pinned partitions
    RegisterDir,     \* [Registers -> directory name]
    RowContent,      \* [Registers -> ...]: d3_forced_threshold of every site
    AllForced,       \* the row contents in which every site is forced
    Crosswalk,       \* [Envs -> ...]: the maus_id of every site
    ExpectedCounts,  \* values of --expected-partitions the operator gives
    AcceptanceDates, \* --date values of accept-trajectories
    JoinDates,       \* --date values of build-context-join
    SummaryDates,    \* --date values of build-trajectory-summary
    Quiet            \* the commands under which the operator moves no tree aside

ASSUME PipelineAssumption ==
    /\ AcceptanceDates \subseteq Nat
    /\ JoinDates \subseteq Nat
    /\ SummaryDates \subseteq Nat
    /\ Protocol \subseteq Partitions /\ Protocol # {}
    /\ None \notin ExpectedCounts
    /\ Quiet \subseteq {"accept", "join", "summary"}

VARIABLES
    verdict,    \* verdict[a]: trajectories-acceptance/<a>/acceptance.json
    join,       \* join[j]: context-join/<j>/context_join.parquet
    gpkg,       \* gpkg[s]: trajectory-summary/<s>/trajectory_summary.gpkg
    job         \* the downstream command in progress, or None

downstream == <<verdict, join, gpkg, job>>
allVars == <<vars, downstream>>

-----------------------------------------------------------------------------
(* _latest_curated_dated_dir: the latest date, whatever is in it. *)
IsLatest(d, dated) == d \in dated /\ \A e \in dated : e <= d

Present(artefact, dates) == {a \in dates : artefact[a] # None}

TreeDates == {d \in Dates : OnDisk(d) # {} \/ summary[d] # None}

(* The tree's summary passes _digest_verified_manifest. *)
SummaryReadable(d) == summary[d] # None /\ summary[d].sealed

(* verified_parts over the whole tree: parts_digest and the readers of the  *)
(* tree refuse otherwise.                                                   *)
TreeVerifies(tree) ==
    \A p \in Partitions : \A i \in DOMAIN tree[p] : Verified(tree[p][i])

Versions(tree) == UNION {{tree[p][i] : i \in DOMAIN tree[p]} : p \in Partitions}

(* What the bytes of a part are a function of, as far as any reader can     *)
(* tell: two runs with other inputs may well write the same rows.           *)
PartBytes(v) == [sites |-> v.binding.sites,
                 rows |-> RowContent[v.binding.register],
                 maus |-> Crosswalk[v.binding.env],
                 failed |-> v.failed]

(* parts_digest: the path and the sha256 of every part.                     *)
PartsDigest(tree) == [p \in Partitions |->
    [i \in DOMAIN tree[p] |-> PartBytes(tree[p][i])]]

(* The sha256 of extraction_summary.json, which holds the date, the scope,  *)
(* the site ids, the partitions written and the totals (of parts skipped,   *)
(* rows written, rows not computable), and of the inputs only the digest of *)
(* the frozen protocol, which is abstracted.                                *)
SummaryDigest(d, s) == [date |-> d, scope |-> s.binding.scope,
                        sites |-> s.binding.sites, written |-> s.written,
                        existing |-> Cardinality(Domain(s.binding) \ s.written),
                        notComputable |-> Cardinality(s.failed)]

SitesOf(tree) == UNION {v.binding.sites : v \in Versions(tree)}

(* Mutant: the site sets of the partitions are not compared with the        *)
(* register's.                                                              *)
RowsMatchWithoutSites(tree, r, e) ==
    \A v \in Versions(tree) :
        /\ Crosswalk[v.binding.env] = Crosswalk[e]
        /\ RowContent[v.binding.register] = RowContent[r]

(* The checks over rows: partition_site_sets, maus_crosswalk_consistency    *)
(* and forced_threshold_register_consistency.                               *)
RowsMatch(tree, r, e) ==
    \A v \in Versions(tree) :
        /\ v.binding.sites = Eligible[r]
        /\ Crosswalk[v.binding.env] = Crosswalk[e]
        /\ RowContent[v.binding.register] = RowContent[r]

(* EXPECTED_STATEWIDE_PARTITIONS: the default of --expected-partitions.     *)
Statewide == Cardinality(Protocol)

(* accept_trajectories: the checks of the battery over a tree, the summary, *)
(* the register and the crosswalk, for n expected partitions: which ones is *)
(* only looked at for the default n, any other is an operator's override.   *)
(* The two totals compare sums of positive per-partition row counts, hence  *)
(* sets of partitions.                                                      *)
Battery(tree, s, r, e, n) ==
    LET onDisk == {p \in Partitions : tree[p] # <<>>}
    IN  /\ onDisk = s.written                                \* partition_inventory
        /\ Cardinality(onDisk) = n                           \* partition_count
        /\ n = Statewide => onDisk = Protocol                \* partition_domain
        /\ TreeVerifies(tree)                                \* parts_digest_and_schema
        /\ \A p \in Partitions : Len(tree[p]) <= 1           \* partition_row_counts
        /\ RowsMatch(tree, r, e)
        /\ \A v \in Versions(tree) :
              RowContent[v.binding.register] \in AllForced   \* forced_threshold_all_true
        /\ Cardinality({p \in onDisk : tree[p][1].failed})
               = Cardinality(s.failed)                       \* not_computable_matches_summary
        /\ s.binding.sites = SitesOf(tree)                   \* summary_site_ids_match_register

-----------------------------------------------------------------------------
PipelineInit ==
    /\ Init
    /\ verdict = [a \in AcceptanceDates |-> None]
    /\ join = [j \in JoinDates |-> None]
    /\ gpkg = [s \in SummaryDates |-> None]
    /\ job = None

(* What every downstream command does first: its output must not exist, the *)
(* latest trajectories directory must have a verified summary, and the      *)
(* register (and the crosswalk) it works with are read.  n is the partition *)
(* count accept-trajectories was told to expect.                            *)
Start(kind, out, n) ==
    /\ job = None
    /\ \E d \in Dates :
          /\ IsLatest(d, TreeDates)
          /\ SummaryReadable(d)
          /\ job' = [kind |-> kind, pc |-> "read", out |-> out, tree |-> d,
                     summary |-> summary[d], read |-> None,
                     register |-> world.register, env |-> world.env,
                     expected |-> n, passed |-> FALSE, joined |-> None]
    /\ UNCHANGED <<vars, verdict, join, gpkg>>

At(kind, pc) == job # None /\ job.kind = kind /\ job.pc = pc

(* Every part is verified and read; accept-trajectories only takes the      *)
(* digest here.  A build cannot concatenate the parts of an empty tree.     *)
ReadTree(kind, pc) ==
    /\ At(kind, "read")
    /\ kind # "accept" => OnDisk(job.tree) # {}
    /\ TreeVerifies(parts[job.tree])
    /\ job' = [job EXCEPT !.pc = pc, !.read = parts[job.tree]]
    /\ UNCHANGED <<vars, verdict, join, gpkg>>

AcceptBegin(a) ==
    /\ verdict[a] = None
    /\ \E n \in ExpectedCounts : Start("accept", a, n)

(* parts_digest of the tree before the battery. *)
AcceptRead == ReadTree("accept", "battery")

AcceptBattery ==
    /\ At("accept", "battery")
    /\ job' = [job EXCEPT !.pc = "rebind",
           !.passed = Battery(parts[job.tree], job.summary, job.register, job.env,
                              job.expected)]
    /\ UNCHANGED <<vars, verdict, join, gpkg>>

(* Mutant: the second parts_digest only verifies the parts. *)
TreeStillVerifies == TreeVerifies(parts[job.tree])

(* parts_digest again: every part verifies and the tree has not changed     *)
(* under the battery.                                                       *)
TreeIsAsRead ==
    /\ TreeVerifies(parts[job.tree])
    /\ PartsDigest(parts[job.tree]) = PartsDigest(job.read)

(* acceptance.json, passed or not.  The model keeps the summary and the     *)
(* tree where the file has their digests.                                   *)
AcceptWrite ==
    /\ At("accept", "rebind")
    /\ TreeIsAsRead
    /\ verdict' = [verdict EXCEPT ![job.out] =
           [tree |-> job.tree, summary |-> job.summary, digest |-> job.read,
            register |-> job.register, env |-> job.env, expected |-> job.expected,
            passed |-> job.passed, sealed |-> FALSE]]
    /\ job' = [job EXCEPT !.pc = "seal"]
    /\ UNCHANGED <<vars, join, gpkg>>

AcceptSeal ==
    /\ At("accept", "seal")
    /\ verdict' = [verdict EXCEPT ![job.out].sealed = TRUE]
    /\ job' = None
    /\ UNCHANGED <<vars, join, gpkg>>

SummaryIsAccepted(v) ==
    SummaryDigest(v.tree, v.summary) = SummaryDigest(job.tree, job.summary)

TreeIsAccepted(v) ==
    /\ TreeVerifies(parts[job.tree])
    /\ PartsDigest(v.digest) = PartsDigest(parts[job.tree])

(* Mutants: the verdict's own manifest is not verified; the verdict is not  *)
(* tied to the summary and the part bytes it was given for.                 *)
AcceptedUnsealed(v) ==
    /\ v.passed
    /\ SummaryIsAccepted(v)
    /\ TreeIsAccepted(v)

AcceptedByName(v) == v.sealed /\ v.passed /\ v.tree = job.tree

(* The acceptance gates the two builds share: the latest verdict is sealed, *)
(* passed, covers the summary read and the part bytes now in the tree (the  *)
(* number of partitions it was told to expect is not looked at).            *)
Accepted(v) ==
    /\ v.sealed
    /\ v.passed
    /\ SummaryIsAccepted(v)
    /\ TreeIsAccepted(v)

LatestVerdictAccepts(alsoRegister) ==
    \E a \in AcceptanceDates :
        /\ IsLatest(a, Present(verdict, AcceptanceDates))
        /\ Accepted(verdict[a])
        /\ alsoRegister =>
              RegisterDir[verdict[a].register] = RegisterDir[job.register]

JoinBegin(j) == join[j] = None /\ Start("join", j, None)

JoinRead == ReadTree("join", "gate")

JoinGate ==
    /\ At("join", "gate")
    /\ LatestVerdictAccepts(FALSE)
    /\ job' = [job EXCEPT !.pc = "write"]
    /\ UNCHANGED <<vars, verdict, join, gpkg>>

JoinWrite ==
    /\ At("join", "write")
    /\ join' = [join EXCEPT ![job.out] =
           [tree |-> job.tree, summary |-> job.summary, read |-> job.read,
            sealed |-> FALSE]]
    /\ job' = [job EXCEPT !.pc = "seal"]
    /\ UNCHANGED <<vars, verdict, gpkg>>

JoinSeal ==
    /\ At("join", "seal")
    /\ join' = [join EXCEPT ![job.out].sealed = TRUE]
    /\ job' = None
    /\ UNCHANGED <<vars, verdict, gpkg>>

SummaryBegin(s) == gpkg[s] = None /\ Start("summary", s, None)

SummaryRead == ReadTree("summary", "gate")

(* Mutant: the context join is checked but not the one that is read. *)
SummaryGateWithoutJoin ==
    /\ At("summary", "gate")
    /\ LatestVerdictAccepts(TRUE)
    /\ \E j \in JoinDates :
          /\ IsLatest(j, Present(join, JoinDates))
          /\ join[j].sealed
          /\ join[j].tree = job.tree
    /\ job' = [job EXCEPT !.pc = "write"]
    /\ UNCHANGED <<vars, verdict, join, gpkg>>

(* build-trajectory-summary also wants the verdict's register directory to  *)
(* be the one it reads, the latest context join to cite the same            *)
(* trajectories directory, and the site sets to agree.                      *)
SummaryGate ==
    /\ At("summary", "gate")
    /\ LatestVerdictAccepts(TRUE)
    /\ \E j \in JoinDates :
          /\ IsLatest(j, Present(join, JoinDates))
          /\ join[j].sealed
          /\ join[j].tree = job.tree
          /\ SitesOf(job.read) = Eligible[job.register]
          /\ SitesOf(join[j].read) = Eligible[job.register]
          /\ job' = [job EXCEPT !.pc = "write", !.joined = join[j]]
    /\ UNCHANGED <<vars, verdict, join, gpkg>>

SummaryWrite ==
    /\ At("summary", "write")
    /\ gpkg' = [gpkg EXCEPT ![job.out] =
           [tree |-> job.tree, summary |-> job.summary, read |-> job.read,
            register |-> job.register, joined |-> job.joined, sealed |-> FALSE]]
    /\ job' = [job EXCEPT !.pc = "seal"]
    /\ UNCHANGED <<vars, verdict, join>>

SummarySeal ==
    /\ At("summary", "seal")
    /\ gpkg' = [gpkg EXCEPT ![job.out].sealed = TRUE]
    /\ job' = None
    /\ UNCHANGED <<vars, verdict, join>>

(* A gate refuses (also for the fire and climate context and the row        *)
(* checks, which are not modelled), or the process dies: what it wrote      *)
(* stays, without its manifest.                                             *)
JobStops ==
    /\ job # None
    /\ job' = None
    /\ UNCHANGED <<vars, verdict, join, gpkg>>

Downstream ==
    \/ \E a \in AcceptanceDates : AcceptBegin(a)
    \/ AcceptRead \/ AcceptBattery \/ AcceptWrite \/ AcceptSeal
    \/ \E j \in JoinDates : JoinBegin(j)
    \/ JoinRead \/ JoinGate \/ JoinWrite \/ JoinSeal
    \/ \E s \in SummaryDates : SummaryBegin(s)
    \/ SummaryRead \/ SummaryGate \/ SummaryWrite \/ SummarySeal
    \/ JobStops

Undisturbed == job # None /\ job.kind \in Quiet

TreeGoesAway == summary[job.tree] # None /\ summary'[job.tree] = None

PipelineNext ==
    \/ Next /\ (Undisturbed => ~TreeGoesAway) /\ UNCHANGED downstream
    \/ Downstream

PipelineSpec == PipelineInit /\ [][PipelineNext]_allVars

-----------------------------------------------------------------------------
Tree == [Partitions -> Seq(Version)]

Verdict == [tree : Dates, summary : Summary, digest : Tree,
            register : Registers, env : Envs, expected : ExpectedCounts,
           passed : BOOLEAN, sealed : BOOLEAN]

Join == [tree : Dates, summary : Summary, read : Tree, sealed : BOOLEAN]

Gpkg == [tree : Dates, summary : Summary, read : Tree, register : Registers,
         joined : Join, sealed : BOOLEAN]

ASSUME ArtefactAssumption ==
    None \notin Verdict /\ None \notin Join /\ None \notin Gpkg

Job == [kind : {"accept", "join", "summary"},
        pc : {"read", "battery", "rebind", "gate", "write", "seal"},
        out : AcceptanceDates \cup JoinDates \cup SummaryDates,
        tree : Dates, summary : Summary, read : Tree \cup {None}, register : Registers,
        env : Envs, expected : ExpectedCounts \cup {None}, passed : BOOLEAN,
        joined : Join \cup {None}]

PipelineTypeOK ==
    /\ TypeOK
    /\ verdict \in [AcceptanceDates -> Verdict \cup {None}]
    /\ join \in [JoinDates -> Join \cup {None}]
    /\ gpkg \in [SummaryDates -> Gpkg \cup {None}]
    /\ job \in Job \cup {None}

Passing(a) == verdict[a] # None /\ verdict[a].passed

SameBytes(x, xTree, y, yTree) ==
    /\ PartsDigest(xTree) = PartsDigest(yTree)
    /\ SummaryDigest(x.tree, x.summary) = SummaryDigest(y.tree, y.summary)

AcceptedBytes(artefact) ==
    \E a \in AcceptanceDates :
        /\ Passing(a)
        /\ verdict[a].sealed
        /\ SameBytes(verdict[a], verdict[a].digest, artefact, artefact.read)

(* A verdict that says passed describes bytes that pass: the digest it      *)
(* records is of a tree for which the battery holds, although the tree may  *)
(* change while the battery runs (the digest taken before and after it); a  *)
(* tree moved aside and replaced twice meanwhile would go unnoticed.        *)
PassedVerdictDescribesItsBytes ==
    \A a \in AcceptanceDates : Passing(a) =>
        Battery(verdict[a].digest, verdict[a].summary,
                verdict[a].register, verdict[a].env, verdict[a].expected)

(* One run's tree over these sites: one version of each partition that is   *)
(* there, all written under one and the same identity.                      *)
IsOneRun(tree, sites) ==
    /\ \A p \in Partitions : Len(tree[p]) <= 1
    /\ \A v, w \in Versions(tree) : v.binding = w.binding
    /\ \A v \in Versions(tree) : v.binding.sites = sites

(* An accepted tree is one extraction: every part was written under one and *)
(* the same identity, over exactly the eligible sites of the register it    *)
(* was accepted against and the sites its summary names, although the       *)
(* battery never compares the parts with each other; and it is complete as  *)
(* the operator told: statewide unless --expected-partitions overrode that, *)
(* then of the given number of partitions.                                  *)
AcceptedTreeIsOneRun ==
    \A a \in AcceptanceDates : Passing(a) =>
        LET v == verdict[a]
            onDisk == {p \in Partitions : v.digest[p] # <<>>}
        IN  /\ IsOneRun(v.digest, Eligible[v.register])
            /\ IsOneRun(v.digest, v.summary.binding.sites)
            /\ Cardinality(onDisk) = v.expected
            /\ v.expected = Statewide => onDisk = Protocol

(* The bytes a downstream artefact was built from are bytes some sealed and *)
(* passed verdict accepted, with the same extraction summary: nothing that  *)
(* happens between the read, the gates and the write lets other bytes in,   *)
(* as long as the tree is not moved aside and replaced under the build: the *)
(* gate takes the digest of the tree again, not of the rows that were read. *)
OnlyAcceptedBytesAreJoined ==
    \A j \in Present(join, JoinDates) : AcceptedBytes(join[j])

(* The same for trajectory-summary, and for the context join it publishes.  *)
OnlyAcceptedBytesArePublished ==
    \A s \in Present(gpkg, SummaryDates) :
        AcceptedBytes(gpkg[s]) /\ AcceptedBytes(gpkg[s].joined)

-----------------------------------------------------------------------------
(* What the repository says and the code does not do (each is checked by a  *)
(* run that expects a violation).                                           *)

(* Extraction is resumable and "every partition independently verifies and  *)
(* reconciles": the acceptance of a statewide tree that is complete and     *)
(* untampered, under the register and the inputs it was extracted with and  *)
(* the default number of partitions, passes.  It does not when the run was  *)
(* resumed: the summary claims only the partitions the last process wrote.  *)
CompleteTreePasses ==
    \A a \in AcceptanceDates :
        /\ verdict[a] # None
        /\ verdict[a].expected = Statewide
        /\ \A p \in Protocol :
              /\ Len(verdict[a].digest[p]) = 1
              /\ verdict[a].digest[p][1].binding =
                    [scope |-> "statewide", sites |-> Eligible[verdict[a].register],
                     register |-> verdict[a].register, env |-> verdict[a].env]
        => verdict[a].passed

(* The version-skew gate of build-trajectory-summary: the context join it   *)
(* reads was built from the very trajectories tree the summary reads.  The  *)
(* gate compares directory names, so a tree moved aside and extracted again *)
(* under its date goes unnoticed.                                           *)
ContextIsFromTheSameTree ==
    \A s \in Present(gpkg, SummaryDates) :
        SameBytes(gpkg[s], gpkg[s].read, gpkg[s].joined, gpkg[s].joined.read)

=============================================================================
