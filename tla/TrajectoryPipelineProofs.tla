----------------------- MODULE TrajectoryPipelineProofs -----------------------
(***************************************************************************)
(* Proofs about TrajectoryPipeline, for every tree, register, crosswalk,   *)
(* pinned domain and date, and any number of commands, crashes,            *)
(* alterations and moves.                                                  *)
(***************************************************************************)
EXTENDS TrajectoryPipeline, TrajectoryStoreProofs

(* All parts of a tree were written under one identity. *)
OneIdentity(tree) ==
    \A p, q \in Partitions : \A i \in DOMAIN tree[p], j \in DOMAIN tree[q] :
        tree[p][i].binding = tree[q][j].binding

(* Two trees that differ at most in which parts are sealed and intact.      *)
SameParts(x, y) ==
    \A p \in Partitions :
        /\ DOMAIN x[p] = DOMAIN y[p]
        /\ \A i \in DOMAIN x[p] : /\ x[p][i].binding = y[p][i].binding
                                  /\ x[p][i].failed = y[p][i].failed

(* What a command in progress holds, and where it will write it. *)
JobKnows ==
    job # None =>
        /\ job.pc # "read" =>
              job.read \in Tree /\ TreeVerifies(job.read) /\ OneIdentity(job.read)
        /\ job.kind = "accept" =>
              /\ job.pc \in {"read", "battery", "rebind", "seal"}
              /\ job.out \in AcceptanceDates
              /\ job.expected \in ExpectedCounts
              /\ IF job.pc = "seal"
                   THEN verdict[job.out] \in Verdict /\ ~verdict[job.out].sealed
                   ELSE verdict[job.out] = None
        /\ job.kind = "join" =>
              /\ job.pc \in {"read", "gate", "write", "seal"}
              /\ job.out \in JoinDates
              /\ job.pc = "seal" => join[job.out] \in Join
        /\ job.kind = "summary" =>
              /\ job.pc \in {"read", "gate", "write", "seal"}
              /\ job.out \in SummaryDates
              /\ job.pc = "write" => job.joined \in Join
              /\ job.pc = "seal" => gpkg[job.out] \in Gpkg

TreesHaveOneIdentity ==
    /\ \A d \in Dates : OneIdentity(parts[d])
    /\ \A a \in AcceptanceDates : verdict[a] # None => OneIdentity(verdict[a].digest)

(* Of a command that nobody disturbs: the tree it reads stays the one it    *)
(* read, but for bytes altered in place.                                    *)
TreeStays ==
    Undisturbed =>
        /\ summary[job.tree] # None
        /\ job.pc # "read" => SameParts(job.read, parts[job.tree])

(* The invariant of all behaviours ...                                      *)
PipelineIInv ==
    /\ IInv
    /\ PipelineTypeOK
    /\ JobKnows
    /\ TreesHaveOneIdentity
    /\ TreeStays

(* ... of those in which acceptance is not disturbed ...                    *)
AcceptanceIInv ==
    /\ PassedVerdictDescribesItsBytes
    /\ job # None /\ job.kind = "accept" /\ job.pc = "rebind" /\ job.passed =>
          Battery(job.read, job.summary, job.register, job.env, job.expected)

(* ... and of those in which the builds are not.                            *)
JoinIInv ==
    /\ OnlyAcceptedBytesAreJoined
    /\ job # None /\ job.kind = "join" /\ job.pc = "write" => AcceptedBytes(job)

SummaryIInv ==
    /\ OnlyAcceptedBytesArePublished
    /\ job # None /\ job.kind = "summary" /\ job.pc = "write" =>
          AcceptedBytes(job) /\ AcceptedBytes(job.joined)

QuietIInv ==
    /\ "accept" \in Quiet => AcceptanceIInv
    /\ "join" \in Quiet => JoinIInv
    /\ {"join", "summary"} \subseteq Quiet => SummaryIInv

-----------------------------------------------------------------------------
(* Facts about trees. *)

LEMMA DatedTree ==
    ASSUME TypeOK, NEW d \in Dates
    PROVE  parts[d] \in Tree
BY DEF TypeOK, Tree

(* What every reader of a tree verified is determined by its versions.      *)
LEMMA VerifiedSameIsEqual ==
    ASSUME NEW x \in Tree, NEW y \in Tree, SameParts(x, y),
           TreeVerifies(x), TreeVerifies(y)
    PROVE  x = y
<1>1. ASSUME NEW p \in Partitions
      PROVE  x[p] = y[p]
  <2>1. x[p] \in Seq(Version) /\ y[p] \in Seq(Version) /\ DOMAIN x[p] = DOMAIN y[p]
    BY DEF Tree, SameParts
  <2>2. Len(x[p]) = Len(y[p])
    BY <2>1
  <2>3. ASSUME NEW i \in 1 .. Len(x[p])
        PROVE  x[p][i] = y[p][i]
    <3>1. i \in DOMAIN x[p] /\ i \in DOMAIN y[p]
      BY <2>1
    <3>2. x[p][i] \in Version /\ y[p][i] \in Version
      BY <2>1, <2>2, ElementOfSeq
    <3>3. /\ x[p][i].binding = y[p][i].binding
          /\ x[p][i].failed = y[p][i].failed
      BY <3>1 DEF SameParts
    <3>4. x[p][i].sealed = TRUE /\ y[p][i].sealed = TRUE
      BY <3>1, <3>2 DEF TreeVerifies, Verified, Version
    <3>5. x[p][i].intact = TRUE /\ y[p][i].intact = TRUE
      BY <3>1, <3>2 DEF TreeVerifies, Verified, Version
    <3>. QED
      BY <3>2, <3>3, <3>4, <3>5 DEF Version
  <2>. QED
    BY <2>1, <2>2, <2>3, SeqEqual
<1>. QED
  BY <1>1 DEF Tree

(* The digest of a tree does not depend on what is sealed and intact.       *)
LEMMA SameDigest ==
    ASSUME NEW x, NEW y, SameParts(x, y)
    PROVE  PartsDigest(x) = PartsDigest(y)
<1>1. ASSUME NEW p \in Partitions
      PROVE  [i \in DOMAIN x[p] |-> PartBytes(x[p][i])]
                 = [i \in DOMAIN y[p] |-> PartBytes(y[p][i])]
  <2>1. DOMAIN x[p] = DOMAIN y[p]
    BY DEF SameParts
  <2>2. \A i \in DOMAIN x[p] : PartBytes(x[p][i]) = PartBytes(y[p][i])
    BY DEF SameParts, PartBytes
  <2>. QED
    BY <2>1, <2>2
<1>. QED
  BY <1>1 DEF PartsDigest

-----------------------------------------------------------------------------
(* What a step of extraction does to the trees. *)

(* A directory with its summary that is not moved aside stays what it is.   *)
LEMMA FinishedTreeStays ==
    ASSUME IInv, IInv', [Next]_vars, NEW d \in Dates,
           summary[d] # None, summary'[d] # None, NEW x, SameParts(x, parts[d])
    PROVE  SameParts(x, parts'[d])
<1>1. PartsKept(d) /\ FinishedKept(d)
  BY StepIsImmutable DEF Immutable
<1>2. ASSUME NEW p \in Partitions
      PROVE  DOMAIN parts'[d][p] = DOMAIN parts[d][p]
  <2>1. parts[d][p] \in Seq(Version) /\ parts'[d][p] \in Seq(Version)
    BY DEF IInv, TypeOK
  <2>2. Len(parts'[d][p]) = Len(parts[d][p])
    BY <1>1 DEF FinishedKept
  <2>. QED
    BY <2>1, <2>2
<1>3. \A p \in Partitions : \A i \in DOMAIN parts[d][p] :
         /\ parts'[d][p][i].binding = parts[d][p][i].binding
         /\ parts'[d][p][i].failed = parts[d][p][i].failed
  BY <1>1 DEF PartsKept, Kept
<1>. QED
  BY <1>2, <1>3 DEF SameParts

(* A tree whose versions stay keeps its one identity. *)
LEMMA SameBindings ==
    ASSUME NEW x, NEW y, OneIdentity(x),
           \A p \in Partitions :
              /\ DOMAIN y[p] = DOMAIN x[p]
              /\ \A i \in DOMAIN x[p] : y[p][i].binding = x[p][i].binding
    PROVE  OneIdentity(y)
BY DEF OneIdentity

(* The parts of a directory stay of one identity: a run writes only under   *)
(* its own, into a directory that holds no other.                           *)
LEMMA StepKeepsIdentity ==
    ASSUME IInv, IInv', [Next]_vars, NEW d \in Dates, OneIdentity(parts[d])
    PROVE  OneIdentity(parts'[d])
<1>1. CASE parts' = parts
  BY <1>1, SameBindings
<1>2. CASE WritePart
  <2>0. run \in Run
    BY <1>2 DEF WritePart, IInv, TypeOK
  <2>1. PICK p \in run.todo, f \in BOOLEAN :
              /\ parts' = [parts EXCEPT ![run.date][p] =
                    Append(@, [binding |-> run.binding, failed |-> f,
                               sealed |-> FALSE, intact |-> TRUE])]
              /\ run' = [run EXCEPT !.pc = "seal",
                            !.failed = IF f THEN @ \cup {p} ELSE @]
    BY <1>2 DEF WritePart
  <2>2. run' \in Run /\ run'.date = run.date
    BY <2>0, <2>1 DEF Run
  <2>3. run' # None
    BY <2>2, ExtractAssumption
  <2>4. CASE d = run.date
    <3>1. \A q \in Partitions : \A i \in DOMAIN parts'[d][q] :
             parts'[d][q][i].binding = run'.binding
      BY <2>2, <2>3, <2>4 DEF IInv, RunOwnsDirectory
    <3>. QED
      BY <3>1 DEF OneIdentity
  <2>5. CASE d # run.date
    <3>1. parts'[d] = parts[d]
      BY <2>1, <2>5 DEF IInv, TypeOK
    <3>. QED
      BY <3>1, SameBindings
  <2>. QED
    BY <2>4, <2>5
<1>3. CASE SealPart
  <2>1. PICK e \in Dates, p \in Partitions, v \in Version, w \in Version : Sealed(e, p, v, w)
    BY <1>3, SealPartEffect
  <2>2. w.binding = v.binding
    BY <2>1 DEF Sealed, Version
  <2>3. ASSUME NEW q \in Partitions
        PROVE  /\ DOMAIN parts'[d][q] = DOMAIN parts[d][q]
               /\ \A i \in DOMAIN parts[d][q] :
                     parts'[d][q][i].binding = parts[d][q][i].binding
    <3>1. CASE d = e /\ q = p
      <4>1. parts[d][q] = <<v>> /\ parts'[d][q] = <<w>>
        BY <2>1, <3>1 DEF Sealed
      <4>. QED
        BY <2>2, <4>1
    <3>2. CASE d # e \/ q # p
      BY <2>1, <3>2 DEF Sealed, LeavesOthers
    <3>. QED
      BY <3>1, <3>2
  <2>. QED
    BY <2>3, SameBindings
<1>4. ASSUME NEW e \in Dates, NEW p \in Partitions, AlterPart(e, p)
      PROVE  OneIdentity(parts'[d])
  BY <1>4, AlterPartEffect, SameBindings
<1>5. ASSUME NEW e \in Dates, MoveAside(e)
      PROVE  OneIdentity(parts'[d])
  <2>1. parts' = [parts EXCEPT ![e] = [p \in Partitions |-> <<>>]]
    BY <1>5 DEF MoveAside
  <2>2. CASE d = e
    <3>1. \A p \in Partitions : parts'[d][p] = <<>>
      BY <2>1, <2>2 DEF IInv, TypeOK
    <3>. QED
      BY <3>1 DEF OneIdentity
  <2>3. CASE d # e
    <3>1. parts'[d] = parts[d]
      BY <2>1, <2>3 DEF IInv, TypeOK
    <3>. QED
      BY <3>1, SameBindings
  <2>. QED
    BY <2>2, <2>3
<1>6. ASSUME NEW e \in Dates, NEW scope \in Scopes, NEW sites \in SUBSET Sites,
             Begin(e, scope, sites)
      PROVE  parts' = parts
  BY <1>6 DEF Begin
<1>7. CASE WriteSummary \/ SealSummary \/ Crash \/ ChangeWorld \/ ValidateHuntly
           \/ UNCHANGED vars
  BY <1>1, <1>7 DEF WriteSummary, SealSummary, Crash, ChangeWorld, ValidateHuntly, vars
<1>. QED
  BY <1>1, <1>2, <1>3, <1>4, <1>5, <1>6, <1>7 DEF Next, Extraction

-----------------------------------------------------------------------------
(* The downstream commands read the trajectories tree and never write it. *)
LEMMA DownstreamReadsOnly == Downstream => UNCHANGED vars
BY DEF Downstream, AcceptBegin, AcceptRead, AcceptBattery, AcceptWrite, AcceptSeal,
       JoinBegin, JoinRead, JoinGate, JoinWrite, JoinSeal, SummaryBegin, SummaryRead,
       SummaryGate, SummaryWrite, SummarySeal, JobStops, Start, ReadTree

(* Composed with the downstream commands of cli.py, extraction is still     *)
(* extraction: every behaviour of the composition is one of it, so what was *)
(* proved of extract-trajectories alone holds of the composition.           *)
THEOREM PipelineIsExtraction == PipelineSpec => Spec
<1>1. PipelineInit => Init
  BY DEF PipelineInit
<1>2. [PipelineNext]_allVars => [Next]_vars
  BY DownstreamReadsOnly DEF PipelineNext, allVars
<1>. QED
  BY <1>1, <1>2, PTL DEF PipelineSpec, Spec

-----------------------------------------------------------------------------
(* The invariant of all behaviours, one lemma per step. *)

LEMMA PipelineInitIInv == PipelineInit => PipelineIInv /\ QuietIInv
<1> SUFFICES ASSUME PipelineInit PROVE PipelineIInv /\ QuietIInv
  OBVIOUS
<1>1. /\ IInv
      /\ verdict = [a \in AcceptanceDates |-> None]
      /\ join = [j \in JoinDates |-> None]
      /\ gpkg = [s \in SummaryDates |-> None]
      /\ job = None
  BY InitIInv DEF PipelineInit
<1>2. PipelineTypeOK
  BY <1>1 DEF PipelineTypeOK, IInv
<1>3. JobKnows /\ TreeStays
  BY <1>1 DEF JobKnows, TreeStays, Undisturbed
<1>4. TreesHaveOneIdentity
  <2>1. \A d \in Dates, p \in Partitions : parts[d][p] = <<>>
    BY DEF PipelineInit, Init
  <2>. QED
    BY <1>1, <2>1 DEF TreesHaveOneIdentity, OneIdentity
<1>5. QuietIInv
  BY <1>1 DEF QuietIInv, AcceptanceIInv, JoinIInv, SummaryIInv, Present, Passing,
     PassedVerdictDescribesItsBytes, OnlyAcceptedBytesAreJoined,
     OnlyAcceptedBytesArePublished
<1>. QED
  BY <1>1, <1>2, <1>3, <1>4, <1>5 DEF PipelineIInv

(* Extraction, the operator and the world: the downstream files stay.       *)
LEMMA ExtractionIInv ==
    ASSUME PipelineIInv, Next, Undisturbed => ~TreeGoesAway, UNCHANGED downstream
    PROVE  PipelineIInv'
<1> USE DEF PipelineIInv
<1>1. IInv'
  BY StepIInv
<1>2. UNCHANGED <<verdict, join, gpkg, job>>
  BY DEF downstream
<1>3. PipelineTypeOK'
  BY <1>1, <1>2 DEF PipelineTypeOK, IInv
<1>4. JobKnows'
  BY <1>2 DEF JobKnows
<1>5. TreesHaveOneIdentity'
  BY <1>1, <1>2, StepKeepsIdentity DEF TreesHaveOneIdentity
<1>6. TreeStays'
  <2> SUFFICES ASSUME Undisturbed
               PROVE  /\ summary'[job.tree] # None
                      /\ job.pc # "read" => SameParts(job.read, parts'[job.tree])
    BY <1>2 DEF TreeStays, Undisturbed
  <2>1. job.tree \in Dates
    BY DEF PipelineTypeOK, Undisturbed, Job
  <2>2. summary[job.tree] # None /\ summary'[job.tree] # None
    BY DEF TreeStays, TreeGoesAway
  <2>. QED
    BY <1>1, <2>1, <2>2, FinishedTreeStays DEF TreeStays
<1>. QED
  BY <1>1, <1>3, <1>4, <1>5, <1>6

(* Steps that leave extraction alone. *)
LEMMA DownstreamIInv ==
    ASSUME PipelineIInv, UNCHANGED vars
    PROVE  IInv' /\ UNCHANGED <<parts, summary, world>>
BY OutsideIInv DEF PipelineIInv, vars

LEMMA StartIInv ==
    ASSUME PipelineIInv, NEW kind, NEW out, NEW n, Start(kind, out, n),
           \/ /\ kind = "accept" /\ out \in AcceptanceDates /\ verdict[out] = None
              /\ n \in ExpectedCounts
           \/ kind = "join" /\ out \in JoinDates /\ n = None
           \/ kind = "summary" /\ out \in SummaryDates /\ n = None
    PROVE  PipelineIInv'
<1> USE DEF PipelineIInv
<1>1. /\ IInv'
      /\ UNCHANGED <<parts, summary, world, verdict, join, gpkg>>
  BY DownstreamIInv DEF Start
<1>2. PICK d \in Dates :
          /\ SummaryReadable(d)
          /\ job' = [kind |-> kind, pc |-> "read", out |-> out, tree |-> d,
                     summary |-> summary[d], read |-> None,
                     register |-> world.register, env |-> world.env,
                     expected |-> n, passed |-> FALSE, joined |-> None]
  BY DEF Start
<1>3. summary[d] \in Summary /\ summary[d] # None
  BY <1>2 DEF SummaryReadable, IInv, TypeOK
<1>4. job' \in Job
  BY <1>2, <1>3 DEF Job, IInv, TypeOK, World
<1>5. PipelineTypeOK'
  BY <1>1, <1>4 DEF PipelineTypeOK, IInv
<1>6. JobKnows'
  BY <1>1, <1>2 DEF JobKnows
<1>7. TreesHaveOneIdentity'
  BY <1>1 DEF TreesHaveOneIdentity
<1>8. TreeStays'
  BY <1>1, <1>2, <1>3 DEF TreeStays
<1>. QED
  BY <1>1, <1>5, <1>6, <1>7, <1>8

LEMMA ReadTreeIInv ==
    ASSUME PipelineIInv, NEW kind, NEW pc, ReadTree(kind, pc),
           \/ kind = "accept" /\ pc = "battery"
           \/ kind \in {"join", "summary"} /\ pc = "gate"
    PROVE  PipelineIInv'
<1> USE DEF PipelineIInv
<1>1. /\ IInv'
      /\ UNCHANGED <<parts, summary, world, verdict, join, gpkg>>
  BY DownstreamIInv DEF ReadTree
<1>2. /\ job \in Job /\ job # None /\ job.kind = kind /\ job.pc = "read"
      /\ TreeVerifies(parts[job.tree])
      /\ job' = [job EXCEPT !.pc = pc, !.read = parts[job.tree]]
  BY DEF ReadTree, At, PipelineTypeOK
<1>3. job.tree \in Dates /\ parts[job.tree] \in Tree
  BY <1>2, DatedTree DEF Job, IInv
<1>4. job' = [kind |-> kind, pc |-> pc, out |-> job.out, tree |-> job.tree,
              summary |-> job.summary, read |-> parts[job.tree],
              register |-> job.register, env |-> job.env,
              expected |-> job.expected, passed |-> job.passed, joined |-> job.joined]
  BY <1>2 DEF Job
<1>5. job' \in Job
  BY <1>2, <1>3, <1>4 DEF Job
<1>6. PipelineTypeOK'
  BY <1>1, <1>5 DEF PipelineTypeOK, IInv
<1>7. OneIdentity(parts[job.tree])
  BY <1>3 DEF TreesHaveOneIdentity
<1>8. JobKnows'
  BY <1>1, <1>2, <1>3, <1>4, <1>7 DEF JobKnows
<1>9. TreesHaveOneIdentity'
  BY <1>1 DEF TreesHaveOneIdentity
<1>10. TreeStays'
  <2>1. Undisturbed' => Undisturbed
    BY <1>2, <1>4 DEF Undisturbed
  <2>2. SameParts(parts[job.tree], parts[job.tree])
    BY DEF SameParts
  <2>. QED
    BY <1>1, <1>4, <2>1, <2>2 DEF TreeStays
<1>. QED
  BY <1>1, <1>6, <1>8, <1>9, <1>10

(* A step of the job in progress that goes on with the tree it read. *)
LEMMA GoesOnIInv ==
    ASSUME PipelineIInv, UNCHANGED vars, UNCHANGED <<verdict, join, gpkg>>,
           job # None, job.pc # "read",
           NEW pc, NEW passed \in BOOLEAN, NEW joined \in Join \cup {None},
           job' = [job EXCEPT !.pc = pc, !.passed = passed, !.joined = joined],
           \/ job.kind = "accept" /\ job.pc = "battery" /\ pc = "rebind"
           \/ job.kind = "join" /\ job.pc = "gate" /\ pc = "write"
           \/ job.kind = "summary" /\ job.pc = "gate" /\ pc = "write" /\ joined \in Join
    PROVE  PipelineIInv'
<1> USE DEF PipelineIInv
<1>1. /\ IInv'
      /\ UNCHANGED <<parts, summary, world>>
  BY DownstreamIInv
<1>2. job \in Job
  BY DEF PipelineTypeOK
<1>3. job' = [kind |-> job.kind, pc |-> pc, out |-> job.out, tree |-> job.tree,
              summary |-> job.summary, read |-> job.read,
              register |-> job.register, env |-> job.env,
              expected |-> job.expected, passed |-> passed, joined |-> joined]
  BY <1>2 DEF Job
<1>4. job' \in Job
  BY <1>2, <1>3 DEF Job
<1>5. PipelineTypeOK'
  BY <1>1, <1>4 DEF PipelineTypeOK, IInv
<1>6. JobKnows'
  BY <1>3 DEF JobKnows
<1>7. TreesHaveOneIdentity'
  BY <1>1 DEF TreesHaveOneIdentity
<1>8. TreeStays'
  <2>1. Undisturbed' => Undisturbed
    BY <1>3 DEF Undisturbed
  <2>. QED
    BY <1>1, <1>3, <2>1 DEF TreeStays
<1>. QED
  BY <1>1, <1>5, <1>6, <1>7, <1>8

LEMMA AcceptBatteryIInv ==
    ASSUME PipelineIInv, AcceptBattery
    PROVE  PipelineIInv'
<1>1. PICK passed \in BOOLEAN :
          job' = [job EXCEPT !.pc = "rebind", !.passed = passed]
  BY DEF AcceptBattery, Battery
<1>2. /\ job # None /\ job.kind = "accept" /\ job.pc = "battery"
      /\ UNCHANGED vars /\ UNCHANGED <<verdict, join, gpkg>>
      /\ job \in Job
  BY DEF AcceptBattery, At, PipelineIInv, PipelineTypeOK
<1>3. /\ job.joined \in Join \cup {None}
      /\ job' = [job EXCEPT !.pc = "rebind", !.passed = passed, !.joined = job.joined]
  BY <1>1, <1>2 DEF Job
<1>. QED
  BY <1>2, <1>3, GoesOnIInv

LEMMA JoinGateIInv ==
    ASSUME PipelineIInv, JoinGate
    PROVE  PipelineIInv'
<1>1. /\ job # None /\ job.kind = "join" /\ job.pc = "gate"
      /\ job' = [job EXCEPT !.pc = "write"]
      /\ UNCHANGED vars /\ UNCHANGED <<verdict, join, gpkg>>
      /\ job \in Job
  BY DEF JoinGate, At, PipelineIInv, PipelineTypeOK
<1>2. /\ job.joined \in Join \cup {None} /\ job.passed \in BOOLEAN
      /\ job' = [job EXCEPT !.pc = "write", !.passed = job.passed, !.joined = job.joined]
  BY <1>1 DEF Job
<1>. QED
  BY <1>1, <1>2, GoesOnIInv, ZenonT(60)

LEMMA SummaryGateIInv ==
    ASSUME PipelineIInv, SummaryGate
    PROVE  PipelineIInv'
<1>1. PICK j \in JoinDates :
          /\ IsLatest(j, Present(join, JoinDates))
          /\ job' = [job EXCEPT !.pc = "write", !.joined = join[j]]
  BY DEF SummaryGate
<1>2. join[j] \in Join
  BY <1>1 DEF IsLatest, Present, PipelineIInv, PipelineTypeOK
<1>3. /\ job # None /\ job.kind = "summary" /\ job.pc = "gate"
      /\ UNCHANGED vars /\ UNCHANGED <<verdict, join, gpkg>>
      /\ job \in Job
  BY DEF SummaryGate, At, PipelineIInv, PipelineTypeOK
<1>4. /\ job.passed \in BOOLEAN
      /\ job' = [job EXCEPT !.pc = "write", !.passed = job.passed, !.joined = join[j]]
  BY <1>1, <1>3 DEF Job
<1>. QED
  BY <1>2, <1>3, <1>4, GoesOnIInv

(* The job in progress turns to the manifest of what it wrote. *)
LEMMA TurnsToSeal ==
    ASSUME PipelineIInv, UNCHANGED vars, job # None, job.pc # "read",
           job' = [job EXCEPT !.pc = "seal"]
    PROVE  /\ job' \in Job
           /\ job' = [kind |-> job.kind, pc |-> "seal", out |-> job.out, tree |-> job.tree,
                      summary |-> job.summary, read |-> job.read,
                      register |-> job.register, env |-> job.env,
                      expected |-> job.expected, passed |-> job.passed, joined |-> job.joined]
           /\ TreeStays'
<1>1. job \in Job
  BY DEF PipelineIInv, PipelineTypeOK
<1>2. job' = [kind |-> job.kind, pc |-> "seal", out |-> job.out, tree |-> job.tree,
              summary |-> job.summary, read |-> job.read,
              register |-> job.register, env |-> job.env,
              expected |-> job.expected, passed |-> job.passed, joined |-> job.joined]
  BY <1>1 DEF Job
<1>3. TreeStays'
  <2>1. Undisturbed' => Undisturbed
    BY <1>2 DEF Undisturbed
  <2>2. UNCHANGED <<parts, summary>>
    BY DEF vars
  <2>. QED
    BY <1>2, <2>1, <2>2 DEF PipelineIInv, TreeStays
<1>. QED
  BY <1>1, <1>2, <1>3 DEF Job

LEMMA AcceptWriteIInv ==
    ASSUME PipelineIInv, AcceptWrite
    PROVE  PipelineIInv'
<1> USE DEF PipelineIInv
<1>1. /\ IInv'
      /\ UNCHANGED <<parts, summary, world, join, gpkg>>
  BY DownstreamIInv DEF AcceptWrite
<1>2. PICK v :
          /\ v = [tree |-> job.tree, summary |-> job.summary, digest |-> job.read,
                  register |-> job.register, env |-> job.env,
                  expected |-> job.expected, passed |-> job.passed, sealed |-> FALSE]
          /\ verdict' = [verdict EXCEPT ![job.out] = v]
  BY DEF AcceptWrite
<1>3. /\ job # None /\ job.kind = "accept" /\ job.pc = "rebind" /\ job \in Job
      /\ job' = [job EXCEPT !.pc = "seal"]
      /\ UNCHANGED vars
  BY DEF AcceptWrite, At, PipelineTypeOK
<1>4. /\ job.out \in AcceptanceDates
      /\ job.expected \in ExpectedCounts
      /\ job.read \in Tree /\ OneIdentity(job.read)
  BY <1>3 DEF JobKnows
<1>5. v \in Verdict /\ ~v.sealed /\ v.digest = job.read
  BY <1>2, <1>3, <1>4 DEF Job, Verdict
<1>6. /\ verdict' \in [AcceptanceDates -> Verdict \cup {None}]
      /\ verdict'[job.out] = v
      /\ \A a \in AcceptanceDates : a # job.out => verdict'[a] = verdict[a]
  BY <1>2, <1>4, <1>5 DEF PipelineTypeOK
<1>7. /\ job' \in Job
      /\ job' = [kind |-> "accept", pc |-> "seal", out |-> job.out, tree |-> job.tree,
                 summary |-> job.summary, read |-> job.read,
                 register |-> job.register, env |-> job.env,
                 expected |-> job.expected, passed |-> job.passed, joined |-> job.joined]
      /\ TreeStays'
  BY <1>3, TurnsToSeal
<1>8. PipelineTypeOK'
  BY <1>1, <1>6, <1>7 DEF PipelineTypeOK, IInv
<1>9. JobKnows'
  BY <1>3, <1>4, <1>5, <1>6, <1>7 DEF JobKnows
<1>10. TreesHaveOneIdentity'
  BY <1>1, <1>4, <1>5, <1>6 DEF TreesHaveOneIdentity
<1>. QED
  BY <1>1, <1>7, <1>8, <1>9, <1>10

LEMMA JoinWriteIInv ==
    ASSUME PipelineIInv, JoinWrite
    PROVE  PipelineIInv'
<1> USE DEF PipelineIInv
<1>1. /\ IInv'
      /\ UNCHANGED <<parts, summary, world, verdict, gpkg>>
  BY DownstreamIInv DEF JoinWrite
<1>2. PICK x :
          /\ x = [tree |-> job.tree, summary |-> job.summary, read |-> job.read,
                  sealed |-> FALSE]
          /\ join' = [join EXCEPT ![job.out] = x]
  BY DEF JoinWrite
<1>3. /\ job # None /\ job.kind = "join" /\ job.pc = "write" /\ job \in Job
      /\ job' = [job EXCEPT !.pc = "seal"]
      /\ UNCHANGED vars
  BY DEF JoinWrite, At, PipelineTypeOK
<1>4. job.out \in JoinDates /\ job.read \in Tree
  BY <1>3 DEF JobKnows
<1>5. x \in Join
  BY <1>2, <1>3, <1>4 DEF Job, Join
<1>6. /\ join' \in [JoinDates -> Join \cup {None}]
      /\ join'[job.out] = x
  BY <1>2, <1>4, <1>5 DEF PipelineTypeOK
<1>7. /\ job' \in Job
      /\ job' = [kind |-> "join", pc |-> "seal", out |-> job.out, tree |-> job.tree,
                 summary |-> job.summary, read |-> job.read,
                 register |-> job.register, env |-> job.env,
                 expected |-> job.expected, passed |-> job.passed, joined |-> job.joined]
      /\ TreeStays'
  BY <1>3, TurnsToSeal
<1>8. PipelineTypeOK'
  BY <1>1, <1>6, <1>7 DEF PipelineTypeOK, IInv
<1>9. JobKnows'
  BY <1>3, <1>4, <1>5, <1>6, <1>7 DEF JobKnows
<1>10. TreesHaveOneIdentity'
  BY <1>1 DEF TreesHaveOneIdentity
<1>. QED
  BY <1>1, <1>7, <1>8, <1>9, <1>10

LEMMA SummaryWriteIInv ==
    ASSUME PipelineIInv, SummaryWrite
    PROVE  PipelineIInv'
<1> USE DEF PipelineIInv
<1>1. /\ IInv'
      /\ UNCHANGED <<parts, summary, world, verdict, join>>
  BY DownstreamIInv DEF SummaryWrite
<1>2. PICK x :
          /\ x = [tree |-> job.tree, summary |-> job.summary, read |-> job.read,
                  register |-> job.register, joined |-> job.joined, sealed |-> FALSE]
          /\ gpkg' = [gpkg EXCEPT ![job.out] = x]
  BY DEF SummaryWrite
<1>3. /\ job # None /\ job.kind = "summary" /\ job.pc = "write" /\ job \in Job
      /\ job' = [job EXCEPT !.pc = "seal"]
      /\ UNCHANGED vars
  BY DEF SummaryWrite, At, PipelineTypeOK
<1>4. job.out \in SummaryDates /\ job.read \in Tree /\ job.joined \in Join
  BY <1>3 DEF JobKnows
<1>5. x \in Gpkg
  BY <1>2, <1>3, <1>4 DEF Job, Gpkg
<1>6. /\ gpkg' \in [SummaryDates -> Gpkg \cup {None}]
      /\ gpkg'[job.out] = x
  BY <1>2, <1>4, <1>5 DEF PipelineTypeOK
<1>7. /\ job' \in Job
      /\ job' = [kind |-> "summary", pc |-> "seal", out |-> job.out, tree |-> job.tree,
                 summary |-> job.summary, read |-> job.read,
                 register |-> job.register, env |-> job.env,
                 expected |-> job.expected, passed |-> job.passed, joined |-> job.joined]
      /\ TreeStays'
  BY <1>3, TurnsToSeal
<1>8. PipelineTypeOK'
  BY <1>1, <1>6, <1>7 DEF PipelineTypeOK, IInv
<1>9. JobKnows'
  BY <1>3, <1>4, <1>5, <1>6, <1>7 DEF JobKnows
<1>10. TreesHaveOneIdentity'
  BY <1>1 DEF TreesHaveOneIdentity
<1>. QED
  BY <1>1, <1>7, <1>8, <1>9, <1>10

(* The job ends, by itself or not: the files keep their type. *)
LEMMA JobEndsIInv ==
    ASSUME PipelineIInv, UNCHANGED vars, job' = None,
           verdict' \in [AcceptanceDates -> Verdict \cup {None}],
           join' \in [JoinDates -> Join \cup {None}],
           gpkg' \in [SummaryDates -> Gpkg \cup {None}],
           \A a \in AcceptanceDates : verdict'[a] # None =>
              verdict[a] # None /\ verdict'[a].digest = verdict[a].digest
    PROVE  PipelineIInv'
<1> USE DEF PipelineIInv
<1>1. /\ IInv'
      /\ UNCHANGED <<parts, summary, world>>
  BY DownstreamIInv
<1>2. PipelineTypeOK'
  BY <1>1 DEF PipelineTypeOK, IInv
<1>3. JobKnows' /\ TreeStays'
  BY DEF JobKnows, TreeStays, Undisturbed
<1>4. TreesHaveOneIdentity'
  BY <1>1 DEF TreesHaveOneIdentity
<1>. QED
  BY <1>1, <1>2, <1>3, <1>4

LEMMA JobStopsIInv ==
    ASSUME PipelineIInv, JobStops
    PROVE  PipelineIInv'
BY JobEndsIInv DEF JobStops, PipelineIInv, PipelineTypeOK

(* What AcceptSeal does to the verdict it seals, which nobody sealed before. *)
LEMMA AcceptSealEffect ==
    ASSUME PipelineIInv, AcceptSeal
    PROVE  /\ job # None /\ job.kind = "accept"
           /\ job.out \in AcceptanceDates
           /\ verdict[job.out] \in Verdict /\ ~verdict[job.out].sealed
           /\ verdict' \in [AcceptanceDates -> Verdict \cup {None}]
           /\ verdict'[job.out] = [verdict[job.out] EXCEPT !.sealed = TRUE]
           /\ \A a \in AcceptanceDates : a # job.out => verdict'[a] = verdict[a]
<1>1. /\ job # None /\ job.kind = "accept" /\ job.pc = "seal"
      /\ verdict' = [verdict EXCEPT ![job.out].sealed = TRUE]
  BY DEF AcceptSeal, At
<1>2. /\ job.out \in AcceptanceDates
      /\ verdict[job.out] \in Verdict /\ ~verdict[job.out].sealed
  BY <1>1 DEF PipelineIInv, JobKnows
<1>3. verdict \in [AcceptanceDates -> Verdict \cup {None}]
  BY DEF PipelineIInv, PipelineTypeOK
<1>4. [verdict[job.out] EXCEPT !.sealed = TRUE] \in Verdict
  BY <1>2 DEF Verdict
<1>. QED
  BY <1>1, <1>2, <1>3, <1>4

LEMMA AcceptSealIInv ==
    ASSUME PipelineIInv, AcceptSeal
    PROVE  PipelineIInv'
<1>1. \A a \in AcceptanceDates : verdict'[a] # None =>
         verdict[a] # None /\ verdict'[a].digest = verdict[a].digest
  <2>1. verdict[job.out] # None
    BY AcceptSealEffect, ArtefactAssumption
  <2>2. verdict'[job.out].digest = verdict[job.out].digest
    BY AcceptSealEffect DEF Verdict
  <2>. QED
    BY <2>1, <2>2, AcceptSealEffect
<1>2. UNCHANGED vars /\ UNCHANGED <<join, gpkg>> /\ job' = None
  BY DEF AcceptSeal
<1>. QED
  BY <1>1, <1>2, AcceptSealEffect, JobEndsIInv DEF PipelineIInv, PipelineTypeOK

LEMMA JoinSealIInv ==
    ASSUME PipelineIInv, JoinSeal
    PROVE  PipelineIInv'
<1>1. job.out \in JoinDates /\ join[job.out] \in Join
  BY DEF JoinSeal, At, PipelineIInv, JobKnows
<1>2. [join[job.out] EXCEPT !.sealed = TRUE] \in Join
  BY <1>1 DEF Join
<1>3. join' \in [JoinDates -> Join \cup {None}]
  BY <1>1, <1>2 DEF JoinSeal, PipelineIInv, PipelineTypeOK
<1>4. UNCHANGED vars /\ UNCHANGED <<verdict, gpkg>> /\ job' = None
  BY DEF JoinSeal
<1>. QED
  BY <1>3, <1>4, JobEndsIInv DEF PipelineIInv, PipelineTypeOK

LEMMA SummarySealIInv ==
    ASSUME PipelineIInv, SummarySeal
    PROVE  PipelineIInv'
<1>1. job.out \in SummaryDates /\ gpkg[job.out] \in Gpkg
  BY DEF SummarySeal, At, PipelineIInv, JobKnows
<1>2. [gpkg[job.out] EXCEPT !.sealed = TRUE] \in Gpkg
  BY <1>1 DEF Gpkg
<1>3. gpkg' \in [SummaryDates -> Gpkg \cup {None}]
  BY <1>1, <1>2 DEF SummarySeal, PipelineIInv, PipelineTypeOK
<1>4. UNCHANGED vars /\ UNCHANGED <<verdict, join>> /\ job' = None
  BY DEF SummarySeal
<1>. QED
  BY <1>3, <1>4, JobEndsIInv DEF PipelineIInv, PipelineTypeOK

LEMMA StepPipelineIInv ==
    ASSUME PipelineIInv, [PipelineNext]_allVars
    PROVE  PipelineIInv'
<1>1. CASE Next /\ (Undisturbed => ~TreeGoesAway) /\ UNCHANGED downstream
  BY <1>1, ExtractionIInv
<1>2. CASE UNCHANGED allVars
  <2>1. UNCHANGED <<vars, parts, summary, world, verdict, join, gpkg, job>>
    BY <1>2 DEF allVars, downstream, vars
  <2>2. IInv'
    BY <2>1, DownstreamIInv
  <2>. QED
    BY <2>1, <2>2 DEF PipelineIInv, PipelineTypeOK, IInv, JobKnows,
       TreesHaveOneIdentity, TreeStays, Undisturbed
<1>3. ASSUME NEW a \in AcceptanceDates, AcceptBegin(a)
      PROVE  PipelineIInv'
  BY <1>3, StartIInv DEF AcceptBegin
<1>4. ASSUME NEW j \in JoinDates, JoinBegin(j)
      PROVE  PipelineIInv'
  BY <1>4, StartIInv DEF JoinBegin
<1>5. ASSUME NEW s \in SummaryDates, SummaryBegin(s)
      PROVE  PipelineIInv'
  BY <1>5, StartIInv DEF SummaryBegin
<1>6. CASE AcceptRead \/ JoinRead \/ SummaryRead
  <2>1. CASE AcceptRead
    BY <2>1, ReadTreeIInv DEF AcceptRead
  <2>2. CASE JoinRead
    BY <2>2, ReadTreeIInv DEF JoinRead
  <2>3. CASE SummaryRead
    BY <2>3, ReadTreeIInv DEF SummaryRead
  <2>. QED
    BY <1>6, <2>1, <2>2, <2>3
<1>7. CASE AcceptBattery \/ AcceptWrite \/ AcceptSeal
  BY <1>7, AcceptBatteryIInv, AcceptWriteIInv, AcceptSealIInv
<1>8. CASE JoinGate \/ JoinWrite \/ JoinSeal
  BY <1>8, JoinGateIInv, JoinWriteIInv, JoinSealIInv
<1>9. CASE SummaryGate \/ SummaryWrite \/ SummarySeal
  BY <1>9, SummaryGateIInv, SummaryWriteIInv, SummarySealIInv
<1>10. CASE JobStops
  BY <1>10, JobStopsIInv
<1>. QED
  BY <1>1, <1>2, <1>3, <1>4, <1>5, <1>6, <1>7, <1>8, <1>9, <1>10
  DEF PipelineNext, Downstream

-----------------------------------------------------------------------------
(* Verdicts, once written, stay what they are; only their manifest is added. *)

LEMMA AcceptWriteEffect ==
    ASSUME PipelineIInv, AcceptWrite
    PROVE  /\ job # None /\ job.kind = "accept" /\ job.pc = "rebind"
           /\ job.out \in AcceptanceDates
           /\ verdict[job.out] = None
           /\ verdict'[job.out] =
                 [tree |-> job.tree, summary |-> job.summary, digest |-> job.read,
                  register |-> job.register, env |-> job.env,
                  expected |-> job.expected, passed |-> job.passed, sealed |-> FALSE]
           /\ \A a \in AcceptanceDates : a # job.out => verdict'[a] = verdict[a]
<1>1. job # None /\ job.kind = "accept" /\ job.pc = "rebind"
  BY DEF AcceptWrite, At
<1>2. job.out \in AcceptanceDates /\ verdict[job.out] = None
  BY <1>1 DEF PipelineIInv, JobKnows
<1>3. verdict \in [AcceptanceDates -> Verdict \cup {None}]
  BY DEF PipelineIInv, PipelineTypeOK
<1>. QED
  BY <1>1, <1>2, <1>3 DEF AcceptWrite

LEMMA StepVerdicts ==
    ASSUME [PipelineNext]_allVars
    PROVE  verdict' = verdict \/ AcceptWrite \/ AcceptSeal
BY DEF PipelineNext, Downstream, allVars, downstream, AcceptBegin, AcceptRead,
   AcceptBattery, JoinBegin, JoinRead, JoinGate, JoinWrite, JoinSeal, SummaryBegin,
   SummaryRead, SummaryGate, SummaryWrite, SummarySeal, JobStops, Start, ReadTree

LEMMA StepJoins ==
    ASSUME [PipelineNext]_allVars
    PROVE  join' = join \/ JoinWrite \/ JoinSeal
BY DEF PipelineNext, Downstream, allVars, downstream, AcceptBegin, AcceptRead,
   AcceptBattery, AcceptWrite, AcceptSeal, JoinBegin, JoinRead, JoinGate, SummaryBegin,
   SummaryRead, SummaryGate, SummaryWrite, SummarySeal, JobStops, Start, ReadTree

LEMMA StepGpkgs ==
    ASSUME [PipelineNext]_allVars
    PROVE  gpkg' = gpkg \/ SummaryWrite \/ SummarySeal
BY DEF PipelineNext, Downstream, allVars, downstream, AcceptBegin, AcceptRead,
   AcceptBattery, AcceptWrite, AcceptSeal, JoinBegin, JoinRead, JoinGate, JoinWrite,
   JoinSeal, SummaryBegin, SummaryRead, SummaryGate, JobStops, Start, ReadTree

(* The job in progress gets to its write by its gate only. *)
LEMMA StepJob ==
    ASSUME PipelineIInv, [PipelineNext]_allVars, job' # None
    PROVE  \/ job' = job
           \/ job'.pc \notin {"rebind", "write"}
           \/ AcceptBattery \/ JoinGate \/ SummaryGate
<1>1. CASE UNCHANGED job
  BY <1>1
<1>2. ASSUME NEW kind, NEW out, NEW n, Start(kind, out, n)
      PROVE  job'.pc = "read"
  BY <1>2 DEF Start
<1>3. ASSUME NEW kind, NEW pc, ReadTree(kind, pc)
      PROVE  job'.pc = pc
  BY <1>3 DEF ReadTree, At, Job, PipelineIInv, PipelineTypeOK
<1>4. CASE AcceptWrite \/ JoinWrite \/ SummaryWrite
  <2>1. job \in Job /\ job' = [job EXCEPT !.pc = "seal"]
    BY <1>4 DEF AcceptWrite, JoinWrite, SummaryWrite, At, PipelineIInv, PipelineTypeOK
  <2>. QED
    BY <2>1 DEF Job
<1>5. CASE AcceptSeal \/ JoinSeal \/ SummarySeal \/ JobStops
  BY <1>5 DEF AcceptSeal, JoinSeal, SummarySeal, JobStops
<1>6. CASE Downstream
  <2>1. CASE \/ \E a \in AcceptanceDates : AcceptBegin(a)
             \/ \E j \in JoinDates : JoinBegin(j)
             \/ \E s \in SummaryDates : SummaryBegin(s)
    BY <1>2, <2>1 DEF AcceptBegin, JoinBegin, SummaryBegin
  <2>2. CASE AcceptRead \/ JoinRead \/ SummaryRead
    BY <1>3, <2>2 DEF AcceptRead, JoinRead, SummaryRead
  <2>. QED
    BY <1>4, <1>5, <1>6, <2>1, <2>2 DEF Downstream
<1>. QED
  BY <1>1, <1>6 DEF PipelineNext, allVars, downstream

(* What was accepted stays accepted, wherever it is now kept. *)
LEMMA AcceptedStays ==
    ASSUME PipelineIInv, [PipelineNext]_allVars, NEW x, NEW y, AcceptedBytes(x),
           y.tree = x.tree, y.summary = x.summary, y.read = x.read
    PROVE  \E a \in AcceptanceDates :
              /\ Passing(a)'
              /\ verdict'[a].sealed
              /\ SameBytes(verdict'[a], verdict'[a].digest, y, y.read)
<1>1. PICK a \in AcceptanceDates :
          /\ verdict[a] # None /\ verdict[a].passed /\ verdict[a].sealed
          /\ SameBytes(verdict[a], verdict[a].digest, x, x.read)
  BY DEF AcceptedBytes, Passing
<1>2. verdict'[a] = verdict[a]
  BY <1>1, StepVerdicts, AcceptWriteEffect, AcceptSealEffect
<1>3. SameBytes(verdict[a], verdict[a].digest, y, y.read)
  BY <1>1 DEF SameBytes
<1>. QED
  BY <1>1, <1>2, <1>3 DEF Passing

(* The tree under an undisturbed job that verified it, if it verifies now.  *)
LEMMA ReadIsStillThere ==
    ASSUME PipelineIInv, Undisturbed, job.pc # "read"
    PROVE  /\ PartsDigest(job.read) = PartsDigest(parts[job.tree])
           /\ TreeVerifies(parts[job.tree]) => job.read = parts[job.tree]
<1>1. /\ SameParts(job.read, parts[job.tree])
      /\ job.read \in Tree /\ TreeVerifies(job.read)
  BY DEF PipelineIInv, TreeStays, JobKnows, Undisturbed
<1>2. parts[job.tree] \in Tree
  BY DatedTree DEF PipelineIInv, IInv, PipelineTypeOK, Undisturbed, Job
<1>. QED
  BY <1>1, <1>2, SameDigest, VerifiedSameIsEqual

(* So a gate that accepts the tree accepts the bytes that were read. *)
LEMMA GateAcceptsRead ==
    ASSUME PipelineIInv, Undisturbed, job.pc # "read", NEW alsoRegister,
           LatestVerdictAccepts(alsoRegister)
    PROVE  AcceptedBytes(job)
<1>1. PICK a \in AcceptanceDates :
          /\ IsLatest(a, Present(verdict, AcceptanceDates))
          /\ Accepted(verdict[a])
  BY DEF LatestVerdictAccepts
<1>2. Passing(a) /\ verdict[a].sealed
  BY <1>1 DEF Accepted, Passing, IsLatest, Present
<1>3. SameBytes(verdict[a], verdict[a].digest, job, job.read)
  BY <1>1, ReadIsStillThere DEF Accepted, SummaryIsAccepted, TreeIsAccepted, SameBytes
<1>. QED
  BY <1>2, <1>3 DEF AcceptedBytes

LEMMA StepAcceptanceIInv ==
    ASSUME PipelineIInv, "accept" \in Quiet, AcceptanceIInv, [PipelineNext]_allVars
    PROVE  AcceptanceIInv'
<1>1. ASSUME NEW a \in AcceptanceDates, Passing(a)'
      PROVE  Battery(verdict'[a].digest, verdict'[a].summary,
                     verdict'[a].register, verdict'[a].env, verdict'[a].expected)
  <2>1. CASE AcceptWrite /\ a = job.out
    BY <1>1, <2>1, AcceptWriteEffect DEF AcceptanceIInv, Passing
  <2>2. CASE verdict'[a] = verdict[a]
    BY <1>1, <2>2 DEF AcceptanceIInv, PassedVerdictDescribesItsBytes, Passing
  <2>3. CASE AcceptSeal /\ a = job.out
    <3>1. /\ verdict[a] \in Verdict /\ verdict[a] # None
          /\ verdict'[a] = [verdict[a] EXCEPT !.sealed = TRUE]
      BY <2>3, AcceptSealEffect, ArtefactAssumption
    <3>2. /\ verdict'[a].digest = verdict[a].digest
          /\ verdict'[a].summary = verdict[a].summary
          /\ verdict'[a].register = verdict[a].register
          /\ verdict'[a].env = verdict[a].env
          /\ verdict'[a].expected = verdict[a].expected
          /\ verdict'[a].passed = verdict[a].passed
      BY <3>1 DEF Verdict
    <3>. QED
      BY <1>1, <3>1, <3>2 DEF AcceptanceIInv, PassedVerdictDescribesItsBytes, Passing
  <2>. QED
    BY <2>1, <2>2, <2>3, StepVerdicts, AcceptWriteEffect, AcceptSealEffect
<1>2. ASSUME job' # None, job'.kind = "accept", job'.pc = "rebind", job'.passed
      PROVE  Battery(job'.read, job'.summary, job'.register, job'.env, job'.expected)
  <2>1. CASE job' = job
    BY <1>2, <2>1 DEF AcceptanceIInv
  <2>2. CASE AcceptBattery
    <3>1. /\ job \in Job /\ job # None /\ job.kind = "accept" /\ job.pc = "battery"
          /\ job' = [job EXCEPT !.pc = "rebind",
                !.passed = Battery(parts[job.tree], job.summary, job.register, job.env,
                                   job.expected)]
      BY <2>2 DEF AcceptBattery, At, PipelineIInv, PipelineTypeOK
    <3>2. /\ job'.read = job.read /\ job'.summary = job.summary
          /\ job'.register = job.register /\ job'.env = job.env
          /\ job'.expected = job.expected
          /\ job'.passed = Battery(parts[job.tree], job.summary, job.register, job.env,
                                   job.expected)
      BY <3>1 DEF Job
    <3>3. Battery(parts[job.tree], job.summary, job.register, job.env, job.expected)
      BY <1>2, <3>2
    <3>4. TreeVerifies(parts[job.tree])
      BY <3>3 DEF Battery
    <3>5. job.read = parts[job.tree]
      BY <3>1, <3>4, ReadIsStillThere DEF Undisturbed
    <3>. QED
      BY <3>2, <3>3, <3>5
  <2>3. CASE JoinGate \/ SummaryGate
    <3>1. job \in Job /\ job.kind # "accept"
      BY <2>3 DEF JoinGate, SummaryGate, At, PipelineIInv, PipelineTypeOK
    <3>2. job'.kind = job.kind
      BY <2>3, <3>1 DEF JoinGate, SummaryGate, Job
    <3>. QED
      BY <1>2, <3>1, <3>2
  <2>. QED
    BY <1>2, <2>1, <2>2, <2>3, StepJob
<1>. QED
  BY <1>1, <1>2 DEF AcceptanceIInv, PassedVerdictDescribesItsBytes

LEMMA StepJoinIInv ==
    ASSUME PipelineIInv, "join" \in Quiet, JoinIInv, [PipelineNext]_allVars
    PROVE  JoinIInv'
<1>1. ASSUME NEW j \in JoinDates, join'[j] # None
      PROVE  AcceptedBytes(join[j])'
  <2>1. CASE join'[j] = join[j]
    <3>1. AcceptedBytes(join[j])
      BY <1>1, <2>1 DEF JoinIInv, OnlyAcceptedBytesAreJoined, Present
    <3>. QED
      BY <2>1, <3>1, AcceptedStays DEF AcceptedBytes
  <2>2. CASE JoinWrite /\ j = job.out
    <3>1. AcceptedBytes(job)
      BY <2>2 DEF JoinIInv, JoinWrite, At
    <3>2. join'[j] = [tree |-> job.tree, summary |-> job.summary, read |-> job.read,
                      sealed |-> FALSE]
      BY <2>2 DEF JoinWrite, PipelineIInv, PipelineTypeOK
    <3>3. /\ join'[j].tree = job.tree /\ join'[j].summary = job.summary
          /\ join'[j].read = job.read
      BY <3>2
    <3>. QED
      BY <3>1, <3>3, AcceptedStays DEF AcceptedBytes
  <2>3. CASE JoinSeal /\ j = job.out
    <3>1. join[j] \in Join
      BY <2>3 DEF JoinSeal, At, PipelineIInv, JobKnows
    <3>2. join'[j] = [join[j] EXCEPT !.sealed = TRUE]
      BY <2>3 DEF JoinSeal, PipelineIInv, PipelineTypeOK
    <3>3. /\ join'[j].tree = join[j].tree /\ join'[j].summary = join[j].summary
          /\ join'[j].read = join[j].read
      BY <3>1, <3>2 DEF Join
    <3>4. AcceptedBytes(join[j])
      BY <3>1, ArtefactAssumption DEF JoinIInv, OnlyAcceptedBytesAreJoined, Present
    <3>. QED
      BY <3>3, <3>4, AcceptedStays DEF AcceptedBytes
  <2>4. CASE (JoinWrite \/ JoinSeal) /\ j # job.out
    <3>1. join'[j] = join[j]
      BY <2>4 DEF JoinWrite, JoinSeal, PipelineIInv, PipelineTypeOK
    <3>. QED
      BY <2>1, <3>1
  <2>. QED
    BY <2>1, <2>2, <2>3, <2>4, StepJoins
<1>2. ASSUME job' # None, job'.kind = "join", job'.pc = "write"
      PROVE  AcceptedBytes(job)'
  <2>1. CASE job' = job
    <3>1. AcceptedBytes(job)
      BY <1>2, <2>1 DEF JoinIInv
    <3>. QED
      BY <2>1, <3>1, AcceptedStays DEF AcceptedBytes
  <2>2. CASE JoinGate
    <3>1. /\ job \in Job /\ job # None /\ job.kind = "join" /\ job.pc = "gate"
          /\ LatestVerdictAccepts(FALSE)
          /\ job' = [job EXCEPT !.pc = "write"]
      BY <2>2 DEF JoinGate, At, PipelineIInv, PipelineTypeOK
    <3>2. AcceptedBytes(job)
      BY <3>1, GateAcceptsRead DEF Undisturbed
    <3>3. job'.tree = job.tree /\ job'.summary = job.summary /\ job'.read = job.read
      BY <3>1 DEF Job
    <3>. QED
      BY <3>2, <3>3, AcceptedStays DEF AcceptedBytes
  <2>3. CASE AcceptBattery \/ SummaryGate
    <3>1. job \in Job /\ job.kind # "join"
      BY <2>3 DEF AcceptBattery, SummaryGate, At, PipelineIInv, PipelineTypeOK
    <3>2. job'.kind = job.kind
      BY <2>3, <3>1 DEF AcceptBattery, SummaryGate, Job
    <3>. QED
      BY <1>2, <3>1, <3>2
  <2>. QED
    BY <1>2, <2>1, <2>2, <2>3, StepJob
<1>. QED
  BY <1>1, <1>2 DEF JoinIInv, OnlyAcceptedBytesAreJoined, Present

LEMMA StepSummaryIInv ==
    ASSUME PipelineIInv, "summary" \in Quiet, JoinIInv, SummaryIInv,
           [PipelineNext]_allVars
    PROVE  SummaryIInv'
<1>1. ASSUME NEW s \in SummaryDates, gpkg'[s] # None
      PROVE  AcceptedBytes(gpkg[s])' /\ AcceptedBytes(gpkg[s].joined)'
  <2>1. CASE gpkg'[s] = gpkg[s]
    <3>1. AcceptedBytes(gpkg[s]) /\ AcceptedBytes(gpkg[s].joined)
      BY <1>1, <2>1 DEF SummaryIInv, OnlyAcceptedBytesArePublished, Present
    <3>2. AcceptedBytes(gpkg[s])'
      BY <2>1, <3>1, AcceptedStays DEF AcceptedBytes
    <3>3. AcceptedBytes(gpkg[s].joined)'
      BY <2>1, <3>1, AcceptedStays DEF AcceptedBytes
    <3>. QED
      BY <3>2, <3>3
  <2>2. CASE SummaryWrite /\ s = job.out
    <3>1. AcceptedBytes(job) /\ AcceptedBytes(job.joined)
      BY <2>2 DEF SummaryIInv, SummaryWrite, At
    <3>2. gpkg'[s] = [tree |-> job.tree, summary |-> job.summary, read |-> job.read,
                      register |-> job.register, joined |-> job.joined, sealed |-> FALSE]
      BY <2>2 DEF SummaryWrite, PipelineIInv, PipelineTypeOK
    <3>3. /\ gpkg'[s].tree = job.tree /\ gpkg'[s].summary = job.summary
          /\ gpkg'[s].read = job.read /\ gpkg'[s].joined = job.joined
      BY <3>2
    <3>4. AcceptedBytes(gpkg[s])'
      BY <3>1, <3>3, AcceptedStays DEF AcceptedBytes
    <3>5. AcceptedBytes(gpkg[s].joined)'
      BY <3>1, <3>3, AcceptedStays DEF AcceptedBytes
    <3>. QED
      BY <3>4, <3>5
  <2>3. CASE SummarySeal /\ s = job.out
    <3>1. gpkg[s] \in Gpkg
      BY <2>3 DEF SummarySeal, At, PipelineIInv, JobKnows
    <3>2. gpkg'[s] = [gpkg[s] EXCEPT !.sealed = TRUE]
      BY <2>3 DEF SummarySeal, PipelineIInv, PipelineTypeOK
    <3>3. /\ gpkg'[s].tree = gpkg[s].tree /\ gpkg'[s].summary = gpkg[s].summary
          /\ gpkg'[s].read = gpkg[s].read /\ gpkg'[s].joined = gpkg[s].joined
      BY <3>1, <3>2 DEF Gpkg
    <3>4. AcceptedBytes(gpkg[s]) /\ AcceptedBytes(gpkg[s].joined)
      BY <3>1, ArtefactAssumption DEF SummaryIInv, OnlyAcceptedBytesArePublished, Present
    <3>5. AcceptedBytes(gpkg[s])'
      BY <3>3, <3>4, AcceptedStays DEF AcceptedBytes
    <3>6. AcceptedBytes(gpkg[s].joined)'
      BY <3>3, <3>4, AcceptedStays DEF AcceptedBytes
    <3>. QED
      BY <3>5, <3>6
  <2>4. CASE (SummaryWrite \/ SummarySeal) /\ s # job.out
    <3>1. gpkg'[s] = gpkg[s]
      BY <2>4 DEF SummaryWrite, SummarySeal, PipelineIInv, PipelineTypeOK
    <3>. QED
      BY <2>1, <3>1
  <2>. QED
    BY <2>1, <2>2, <2>3, <2>4, StepGpkgs
<1>2. ASSUME job' # None, job'.kind = "summary", job'.pc = "write"
      PROVE  AcceptedBytes(job)' /\ AcceptedBytes(job.joined)'
  <2>1. CASE job' = job
    <3>1. AcceptedBytes(job) /\ AcceptedBytes(job.joined)
      BY <1>2, <2>1 DEF SummaryIInv
    <3>2. AcceptedBytes(job)'
      BY <2>1, <3>1, AcceptedStays DEF AcceptedBytes
    <3>3. AcceptedBytes(job.joined)'
      BY <2>1, <3>1, AcceptedStays DEF AcceptedBytes
    <3>. QED
      BY <3>2, <3>3
  <2>2. CASE SummaryGate
    <3>1. PICK j \in JoinDates :
              /\ IsLatest(j, Present(join, JoinDates))
              /\ job' = [job EXCEPT !.pc = "write", !.joined = join[j]]
      BY <2>2 DEF SummaryGate
    <3>2. /\ job \in Job /\ job # None /\ job.kind = "summary" /\ job.pc = "gate"
          /\ LatestVerdictAccepts(TRUE)
      BY <2>2 DEF SummaryGate, At, PipelineIInv, PipelineTypeOK
    <3>3. AcceptedBytes(job)
      BY <3>2, GateAcceptsRead DEF Undisturbed
    <3>4. AcceptedBytes(join[j])
      BY <3>1 DEF JoinIInv, OnlyAcceptedBytesAreJoined, IsLatest
    <3>5. /\ job'.tree = job.tree /\ job'.summary = job.summary /\ job'.read = job.read
          /\ job'.joined = join[j]
      BY <3>1, <3>2 DEF Job
    <3>6. AcceptedBytes(job)'
      BY <3>3, <3>5, AcceptedStays DEF AcceptedBytes
    <3>7. AcceptedBytes(job.joined)'
      BY <3>4, <3>5, AcceptedStays DEF AcceptedBytes
    <3>. QED
      BY <3>6, <3>7
  <2>3. CASE AcceptBattery \/ JoinGate
    <3>1. job \in Job /\ job.kind # "summary"
      BY <2>3 DEF AcceptBattery, JoinGate, At, PipelineIInv, PipelineTypeOK
    <3>2. job'.kind = job.kind
      BY <2>3, <3>1 DEF AcceptBattery, JoinGate, Job
    <3>. QED
      BY <1>2, <3>1, <3>2
  <2>. QED
    BY <1>2, <2>1, <2>2, <2>3, StepJob
<1>. QED
  BY <1>1, <1>2 DEF SummaryIInv, OnlyAcceptedBytesArePublished, Present

LEMMA StepQuietIInv ==
    ASSUME PipelineIInv, QuietIInv, [PipelineNext]_allVars
    PROVE  QuietIInv'
BY StepAcceptanceIInv, StepJoinIInv, StepSummaryIInv DEF QuietIInv

(* A passed battery over a tree of one identity: the tree is one run's.     *)
LEMMA BatteryOfOneRun ==
    ASSUME NEW tree, OneIdentity(tree), NEW s, NEW r, NEW e, NEW n,
           Battery(tree, s, r, e, n)
    PROVE  /\ IsOneRun(tree, Eligible[r])
           /\ IsOneRun(tree, s.binding.sites)
           /\ Cardinality({p \in Partitions : tree[p] # <<>>}) = n
           /\ n = Statewide => {p \in Partitions : tree[p] # <<>>} = Protocol
<1>1. \A p \in Partitions : Len(tree[p]) <= 1
  BY DEF Battery
<1>2. \A v, w \in Versions(tree) : v.binding = w.binding
  BY DEF OneIdentity, Versions
<1>3. \A v \in Versions(tree) : v.binding.sites = Eligible[r]
  BY DEF Battery, RowsMatch
<1>4. ASSUME NEW v \in Versions(tree)
      PROVE  v.binding.sites = s.binding.sites
  <2>1. SitesOf(tree) = Eligible[r]
    BY <1>3 DEF SitesOf
  <2>2. s.binding.sites = SitesOf(tree)
    BY DEF Battery
  <2>. QED
    BY <1>3, <2>1, <2>2
<1>5. /\ Cardinality({p \in Partitions : tree[p] # <<>>}) = n
      /\ n = Statewide => {p \in Partitions : tree[p] # <<>>} = Protocol
  BY DEF Battery
<1>. QED
  BY <1>1, <1>2, <1>3, <1>4, <1>5 DEF IsOneRun

-----------------------------------------------------------------------------
(* The invariant of all behaviours: every command's tree, while nobody      *)
(* moves it aside, stays the one the command read but for bytes altered in  *)
(* place, and no directory or verdict holds parts of two runs' identities.  *)
THEOREM PipelineInvariance == PipelineSpec => [](PipelineIInv /\ QuietIInv)
<1>1. PipelineInit => PipelineIInv /\ QuietIInv
  BY PipelineInitIInv
<1>2. PipelineIInv /\ QuietIInv /\ [PipelineNext]_allVars => (PipelineIInv /\ QuietIInv)'
  BY StepPipelineIInv, StepQuietIInv
<1>. QED
  BY <1>1, <1>2, PTL DEF PipelineSpec

(* Type correctness: the dated artefacts of the downstream commands and the *)
(* command in progress.                                                     *)
THEOREM PipelineTypes == PipelineSpec => []PipelineTypeOK
<1>1. PipelineIInv /\ QuietIInv => PipelineTypeOK
  BY DEF PipelineIInv
<1>. QED
  BY <1>1, PipelineInvariance, PTL

(* accept-trajectories writes passed only about bytes that pass, whatever   *)
(* alters the tree under the battery, when nobody moves the tree aside and  *)
(* replaces it while the battery runs.                                      *)
THEOREM PassedIsDeserved ==
    ASSUME "accept" \in Quiet
    PROVE  PipelineSpec => []PassedVerdictDescribesItsBytes
<1>1. PipelineIInv /\ QuietIInv => PassedVerdictDescribesItsBytes
  BY DEF QuietIInv, AcceptanceIInv
<1>. QED
  BY <1>1, PipelineInvariance, PTL

(* Every accepted tree is one extraction of one identity over the eligible  *)
(* sites of the register, of exactly the statewide partitions or of as many *)
(* as --expected-partitions said, though the battery of accept-trajectories *)
(* compares no part with another.                                           *)
THEOREM AcceptedIsOneRun ==
    ASSUME "accept" \in Quiet
    PROVE  PipelineSpec => []AcceptedTreeIsOneRun
<1>1. ASSUME PipelineIInv, QuietIInv
      PROVE  AcceptedTreeIsOneRun
  <2>1. ASSUME NEW a \in AcceptanceDates, Passing(a), NEW v, v = verdict[a]
        PROVE  /\ IsOneRun(v.digest, Eligible[v.register])
               /\ IsOneRun(v.digest, v.summary.binding.sites)
               /\ Cardinality({p \in Partitions : v.digest[p] # <<>>}) = v.expected
               /\ v.expected = Statewide =>
                     {p \in Partitions : v.digest[p] # <<>>} = Protocol
    <3>1. OneIdentity(v.digest)
      BY <1>1, <2>1 DEF PipelineIInv, TreesHaveOneIdentity, Passing
    <3>2. Battery(v.digest, v.summary, v.register, v.env, v.expected)
      BY <1>1, <2>1 DEF QuietIInv, AcceptanceIInv, PassedVerdictDescribesItsBytes
    <3>. QED
      BY <3>1, <3>2, BatteryOfOneRun
  <2>. QED
    BY <2>1 DEF AcceptedTreeIsOneRun
<1>. QED
  BY <1>1, PipelineInvariance, PTL

(* build-context-join: what it writes was built from bytes a sealed, passed *)
(* verdict accepted, although the gate looks at the tree again and not at   *)
(* the rows that were read, when nobody replaces the tree under the build.  *)
THEOREM JoinedIsAccepted ==
    ASSUME "join" \in Quiet
    PROVE  PipelineSpec => []OnlyAcceptedBytesAreJoined
<1>1. PipelineIInv /\ QuietIInv => OnlyAcceptedBytesAreJoined
  BY DEF QuietIInv, JoinIInv
<1>. QED
  BY <1>1, PipelineInvariance, PTL

(* build-trajectory-summary: the same for what it publishes, and for the    *)
(* context join it publishes with it.                                       *)
THEOREM PublishedIsAccepted ==
    ASSUME {"join", "summary"} \subseteq Quiet
    PROVE  PipelineSpec => []OnlyAcceptedBytesArePublished
<1>1. PipelineIInv /\ QuietIInv => OnlyAcceptedBytesArePublished
  BY DEF QuietIInv, SummaryIInv
<1>. QED
  BY <1>1, PipelineInvariance, PTL

===============================================================================
