-------------------------- MODULE RawSnapshotProofs ---------------------------
(***************************************************************************)
(* Proofs about RawSnapshot, for every set of sources and revisions, every *)
(* paging of a catalogue, and any number of publications, failures,        *)
(* crashes and hand edits.                                                 *)
(***************************************************************************)
EXTENDS RawSnapshot, SequenceTheorems, TLAPS

(* The steps of the fetches. *)
Data == {"zip", "shp", "csv", "extract", "gpkg", "regions"}

Held == {"extract", "regions", "collection", "page1", "page2", "summary"}

Streamed == {Step("download", file) : file \in {"zip", "shp", "csv"}}

Evidencing == {Write("pdf"), Write("package"), Write("evidence")}

Memoed == {Write(file) : file \in Held}

Ordinary == {Write(file) : file \in {"metadata", "sourceSums", "sourceMetadata"}}

Steps ==
    Streamed \cup Evidencing \cup Memoed \cup Ordinary \cup
    {Step("fetch", "extract"), Step("fetch", "regions"), Step("fetch", "collection"),
     Step("capture", "evidence"), Step("hash", "source"), Step("stage", "gpkg"),
     Step("page", "page"), Step("expect", "gpkg"), Step("validate", "zip"),
     Step("validate", "csv"), Step("validate", "extract"), Step("validate", "gpkg"),
     Step("validate", "regions"), Step("finalize", "sums"), Step("seal", "manifest")}

(* A step that may change what a validator reads. *)
Touches(step) ==
    step.do \in {"download", "stage"} \/ step \in {Write("extract"), Write("regions")}

(* Which source a step is of. *)
OfSource(s, step) ==
    /\ step.do = "capture" \/ step \in Evidencing => s = "minedex"
    /\ step.do = "fetch" \/ step \in Memoed => s \in {"maus", "dea", "regions"}

(* What is left of a fetch: it ends by writing SHA256SUMS.txt and its run   *)
(* manifest; what is downloaded, staged or clipped is validated before      *)
(* that; the licence PDF is taken out of a bundle that is there.            *)
Rest(s, p) ==
    /\ p \in Seq(Steps)
    /\ Len(p) > 0
    /\ \A k \in 1 .. Len(p) :
          /\ OfSource(s, p[k])
          /\ p[k].do = "seal" <=> k = Len(p)
          /\ p[k].do = "finalize" <=> k + 1 = Len(p)
          /\ p[k].do = "fetch" => k = 1 /\ s # "dea"
          /\ Touches(p[k]) /\ s # "dea" =>
                \E l \in 1 .. Len(p) : k < l /\ p[l].do = "validate"
          /\ p[k].do = "capture" \/ p[k] = Write("pdf") =>
                \A l \in 1 .. Len(p) : k < l => p[l] # Step("download", "csv")

Includes(p, step) == \E k \in 1 .. Len(p) : p[k] = step
Does(p, do) == \E k \in 1 .. Len(p) : p[k].do = do

ToDo(step) == Includes(run.plan, step)
WillDo(do) == Does(run.plan, do)

Fetching == run # None /\ run.before = None
Adjudicating == run # None /\ run.before # None

(* A file of the catalogue in memory is written, or will be.                *)
CatalogueWritten ==
    \A n \in Catalogue(run.held) :
        ToDo(Write(n)) \/ (n \in DOMAIN dir /\ dir[n] = run.held)

(* What a fetch in progress knows.                                          *)
FetchKnows ==
    Fetching =>
        /\ manifest = None /\ ruling = None
        /\ Rest(source, run.plan) \/ (source = "dea" /\ run.plan = DeaPlan)
        /\ Len(run.plan) > 1 => sums = None
        /\ Len(run.plan) = 1 => sums = dir
        /\ source \in {"maus", "dea", "regions"} /\ ~WillDo("fetch") =>
              /\ run.held \in Revisions \cup {Broken}
              /\ source = "dea" => run.held # Broken
        /\ source # "dea" /\ ~WillDo("validate") => DataValid
        /\ source = "dea" /\ run.plan # DeaPlan => CatalogueWritten
        /\ source = "minedex" =>
              \A file \in {"shp", "csv"} :
                  ToDo(Step("download", file)) \/ file \in DOMAIN dir

UpdatePlan == <<Step("update", "sums"), Step("record", "ruling")>>
RecordPlan == <<Step("record", "ruling")>>

(* What a ruling in progress knows.                                         *)
RulingKnows ==
    Adjudicating =>
        /\ source = "minedex" /\ sums # None
        /\ IsDirectory(run.before)
        /\ "evidence" \in DOMAIN run.before
        /\ run.before["evidence"] \in Evidence
        /\ ~run.before["evidence"].adjudicated
        /\ manifest # None => run.before = manifest.output
        /\ \/ /\ run.plan = AdjudicatePlan
              /\ sums = run.before /\ dir["evidence"] = sums["evidence"]
           \/ /\ run.plan = UpdatePlan
              /\ sums = run.before /\ dir["evidence"] = Ruled(sums["evidence"])
           \/ /\ run.plan = RecordPlan
              /\ sums = [run.before EXCEPT !["evidence"] = Ruled(run.before["evidence"])]

(* What was hashed was validated.                                           *)
SumsValidated ==
    sums # None =>
        /\ \A n \in Required[source] \cap DOMAIN sums : sums[n] # Broken
        /\ source = "minedex" /\ {"shp", "csv"} \subseteq DOMAIN sums =>
              sums["shp"] = sums["csv"]
        /\ source = "dea" =>
              \E r \in Revisions : \A n \in Catalogue(r) :
                  /\ n \in DOMAIN sums => sums[n] = r
                  /\ manifest # None => n \in DOMAIN sums

(* SHA256SUMS.txt is what the fetch manifest recorded, or what a ruling, cut *)
(* short or not, made of that.                                              *)
SumsInCustody ==
    manifest # None \/ ruling # None =>
        sums # None

RuledOnly ==
    manifest # None =>
        \/ sums = manifest.output
        \/ /\ DOMAIN sums \subseteq DOMAIN manifest.output
           /\ \A n \in DOMAIN sums \ {"evidence"} : sums[n] = manifest.output[n]
           /\ "evidence" \in DOMAIN sums =>
                 /\ manifest.output["evidence"] \in Evidence
                 /\ sums["evidence"] = Ruled(manifest.output["evidence"])

RulingLinks ==
    ruling # None /\ manifest # None =>
        ruling.supersedes = manifest.output /\ ruling.before = manifest.output

IInv ==
    /\ TypeOK
    /\ FetchKnows
    /\ RulingKnows
    /\ SumsValidated
    /\ ManifestDescribesFiles
    /\ SumsInCustody
    /\ RuledOnly
    /\ RulingLinks

-----------------------------------------------------------------------------
(* Directories. *)

LEMMA DirectoryIsSome ==
    ASSUME NEW files, IsDirectory(files)
    PROVE  files # None
<1>1. DOMAIN files \in SUBSET Names /\ files \in [DOMAIN files -> Contents]
  BY DEF IsDirectory
<1>. QED
  BY <1>1, DistinctAssumption

LEMMA PutIs ==
    ASSUME IsDirectory(dir), NEW n \in Names, NEW content \in Contents,
           n = "evidence" => content \in Evidence \cup {Broken}
    PROVE  /\ IsDirectory(Put(n, content))
           /\ DOMAIN Put(n, content) = DOMAIN dir \cup {n}
           /\ Put(n, content)[n] = content
           /\ \A m \in DOMAIN dir : m # n => Put(n, content)[m] = dir[m]
<1>1. /\ dir \in [DOMAIN dir -> Contents] /\ DOMAIN dir \subseteq Names
      /\ "evidence" \in DOMAIN dir => dir["evidence"] \in Evidence \cup {Broken}
  BY DEF IsDirectory
<1>2. Put(n, content) \in [DOMAIN dir \cup {n} -> Contents]
  BY <1>1 DEF Put
<1>3. /\ DOMAIN Put(n, content) = DOMAIN dir \cup {n}
      /\ \A m \in DOMAIN dir \cup {n} :
            Put(n, content)[m] = IF m = n THEN content ELSE dir[m]
  BY DEF Put
<1>. QED
  BY <1>1, <1>2, <1>3 DEF IsDirectory

LEMMA RestrictIs ==
    ASSUME NEW files, IsDirectory(files), NEW names, names \subseteq DOMAIN files
    PROVE  /\ IsDirectory(Restrict(files, names))
           /\ DOMAIN Restrict(files, names) = names
           /\ \A n \in names : Restrict(files, names)[n] = files[n]
<1>1. /\ DOMAIN Restrict(files, names) = names
      /\ \A n \in names : Restrict(files, names)[n] = files[n]
      /\ Restrict(files, names) \in [names -> Contents]
  BY DEF Restrict, IsDirectory
<1>. QED
  BY <1>1 DEF IsDirectory

LEMMA RulingIs ==
    ASSUME NEW evidence \in Evidence
    PROVE  /\ Ruled(evidence) \in Evidence
           /\ Ruled(evidence).adjudicated
           /\ Ruled(evidence).contrary = "true"
<1>1. evidence.files \in {{"pdf"}, {"pdf", "package"}}
  BY DEF Evidence
<1>2. Ruled(evidence) \in Evidence
  BY <1>1 DEF Ruled, Evidence
<1>. QED
  BY <1>2 DEF Ruled

-----------------------------------------------------------------------------
(* Plans. *)

LEMMA HeadIs ==
    ASSUME NEW S, NEW p \in Seq(S), Len(p) > 0
    PROVE  Head(p) = p[1] /\ p[1] \in S /\ p # <<>> /\ Len(p) \in Nat
BY EmptySeq

LEMMA TailRest ==
    ASSUME NEW s, NEW p, Rest(s, p), Len(p) > 1
    PROVE  /\ Rest(s, Tail(p))
           /\ Len(Tail(p)) = Len(p) - 1
           /\ \A step : Includes(p, step) <=> step = p[1] \/ Includes(Tail(p), step)
           /\ \A do : Does(p, do) <=> do = p[1].do \/ Does(Tail(p), do)
<1>1. p \in Seq(Steps) /\ Len(p) \in Nat /\ p # <<>>
  BY HeadIs DEF Rest
<1>2. PICK n, t : n = Len(p) - 1 /\ t = Tail(p)
  OBVIOUS
<1>3. /\ n \in Nat /\ n > 0 /\ Len(p) = n + 1
      /\ t \in Seq(Steps) /\ Len(t) = n
      /\ \A k \in 1 .. n : t[k] = p[k + 1] /\ k + 1 \in 1 .. n + 1
  BY <1>1, <1>2, HeadTailProperties
<1>4. \A l \in 1 .. n + 1 : l = 1 \/ (l - 1 \in 1 .. n /\ p[l] = t[l - 1])
  BY <1>3
<1>5. Rest(s, t)
  <2>1. ASSUME NEW k \in 1 .. n
        PROVE  /\ OfSource(s, t[k])
               /\ t[k].do = "seal" <=> k = n
               /\ t[k].do = "finalize" <=> k + 1 = n
               /\ t[k].do = "fetch" => k = 1 /\ s # "dea"
               /\ Touches(t[k]) /\ s # "dea" =>
                     \E l \in 1 .. n : k < l /\ t[l].do = "validate"
               /\ t[k].do = "capture" \/ t[k] = Write("pdf") =>
                     \A l \in 1 .. n : k < l => t[l] # Step("download", "csv")
    <3>1. /\ OfSource(s, p[k + 1])
          /\ p[k + 1].do = "seal" <=> k + 1 = n + 1
          /\ p[k + 1].do = "finalize" <=> k + 1 + 1 = n + 1
          /\ p[k + 1].do = "fetch" => k + 1 = 1 /\ s # "dea"
          /\ Touches(p[k + 1]) /\ s # "dea" =>
                \E l \in 1 .. n + 1 : k + 1 < l /\ p[l].do = "validate"
          /\ p[k + 1].do = "capture" \/ p[k + 1] = Write("pdf") =>
                \A l \in 1 .. n + 1 : k + 1 < l => p[l] # Step("download", "csv")
      <4>1. k + 1 \in 1 .. Len(p) /\ Len(p) = n + 1
        BY <1>3
      <4>2. /\ OfSource(s, p[k + 1])
            /\ p[k + 1].do = "seal" <=> k + 1 = Len(p)
            /\ p[k + 1].do = "finalize" <=> k + 1 + 1 = Len(p)
            /\ p[k + 1].do = "fetch" => k + 1 = 1 /\ s # "dea"
            /\ Touches(p[k + 1]) /\ s # "dea" =>
                  \E l \in 1 .. Len(p) : k + 1 < l /\ p[l].do = "validate"
            /\ p[k + 1].do = "capture" \/ p[k + 1] = Write("pdf") =>
                  \A l \in 1 .. Len(p) : k + 1 < l => p[l] # Step("download", "csv")
        BY <4>1 DEF Rest
      <4> QED
        BY <4>1, <4>2
    <3>2. t[k] = p[k + 1]
      BY <1>3
    <3>3. ASSUME Touches(t[k]), s # "dea"
          PROVE  \E l \in 1 .. n : k < l /\ t[l].do = "validate"
      <4>1. PICK l \in 1 .. n + 1 : k + 1 < l /\ p[l].do = "validate"
        BY <3>1, <3>2, <3>3
      <4>2. l - 1 \in 1 .. n /\ k < l - 1 /\ t[l - 1].do = "validate"
        BY <1>3, <1>4, <4>1
      <4>. QED
        BY <4>2
    <3>4. ASSUME t[k].do = "capture" \/ t[k] = Write("pdf"), NEW l \in 1 .. n, k < l
          PROVE  t[l] # Step("download", "csv")
      BY <1>3, <3>1, <3>2, <3>4
    <3>. QED
      BY <1>3, <3>1, <3>2, <3>3, <3>4
  <2>. QED
    BY <1>3, <2>1 DEF Rest
<1>6. \A step : (\E k \in 1 .. n + 1 : p[k] = step) <=>
                   step = p[1] \/ (\E k \in 1 .. n : t[k] = step)
  BY <1>3, <1>4, SMTT(30)
<1>7. \A do : (\E k \in 1 .. n + 1 : p[k].do = do) <=>
                 do = p[1].do \/ (\E k \in 1 .. n : t[k].do = do)
  BY <1>3, <1>4
<1>8. /\ \A step : Includes(p, step) <=> step = p[1] \/ Includes(t, step)
      /\ \A do : Does(p, do) <=> do = p[1].do \/ Does(t, do)
  BY <1>3, <1>6, <1>7 DEF Includes, Does
<1>. QED
  BY <1>2, <1>3, <1>5, <1>8

(* A plan that still ends in finalize and seal. *)
LEMMA RestIs ==
    ASSUME NEW s, NEW p, Rest(s, p)
    PROVE  /\ Len(p) \in Nat \ {0} /\ p \in Seq(Steps) /\ p # <<>>
           /\ Head(p) = p[1] /\ p[1] \in Steps /\ OfSource(s, p[1])
           /\ p[1].do = "seal" <=> Len(p) = 1
           /\ p[1].do = "finalize" <=> Len(p) = 2
<1>1. p \in Seq(Steps) /\ Len(p) > 0
  BY DEF Rest
<1>2. Head(p) = p[1] /\ p[1] \in Steps /\ p # <<>> /\ Len(p) \in Nat
  BY <1>1, HeadIs
<1>3. 1 \in 1 .. Len(p)
  BY <1>1, <1>2
<1>4. /\ OfSource(s, p[1])
      /\ p[1].do = "seal" <=> 1 = Len(p)
      /\ p[1].do = "finalize" <=> 1 + 1 = Len(p)
  BY <1>3 DEF Rest
<1>. QED
  BY <1>1, <1>2, <1>4

(* The steps of fetches and of rulings. *)
LEMMA StepsAre ==
    /\ \A step \in Steps : step.do \notin {"rule", "update", "record"}
    /\ \A step \in Steps : step = Step(step.do, step.file)
    /\ \A step \in Steps :
          /\ step.do = "write" => step \in Evidencing \cup Memoed \cup Ordinary
          /\ step.do = "download" => step \in Streamed
          /\ step.do = "stage" => step.file = "gpkg"
          /\ step.do = "page" => step.file = "page"
          /\ step.do \in {"write", "download"} => step.file \in Names
BY DEF Steps, Streamed, Evidencing, Memoed, Ordinary, Held, Step, Write, Names

LEMMA DeaPlanIs ==
    /\ Len(DeaPlan) = 2 /\ DeaPlan[1] = Step("fetch", "collection")
    /\ DeaPlan[2] = Write("collection") /\ Head(DeaPlan) = DeaPlan[1]
    /\ DeaPlan \in Seq(Steps)
    /\ Tail(DeaPlan) = <<Write("collection")>>
<1>1. Step("fetch", "collection") \in Steps /\ Write("collection") \in Steps
  BY DEF Steps, Memoed, Held
<1>. QED
  BY <1>1 DEF DeaPlan

LEMMA RulingPlansAre ==
    /\ Head(AdjudicatePlan) = Step("rule", "evidence") /\ Tail(AdjudicatePlan) = UpdatePlan
    /\ Head(UpdatePlan) = Step("update", "sums") /\ Tail(UpdatePlan) = RecordPlan
    /\ Head(RecordPlan) = Step("record", "ruling")
    /\ AdjudicatePlan # <<>> /\ UpdatePlan # <<>> /\ RecordPlan # <<>>
BY DEF AdjudicatePlan, UpdatePlan, RecordPlan

(* Which command a step is of. *)
LEMMA Whose ==
    ASSUME IInv, NEW do, At(do)
    PROVE  /\ do \in {"rule", "update", "record"} =>
                 /\ Adjudicating
                 /\ do = "rule" => run.plan = AdjudicatePlan
                 /\ do = "update" => run.plan = UpdatePlan
                 /\ do = "record" => run.plan = RecordPlan
           /\ do \notin {"rule", "update", "record"} =>
                 /\ Fetching
                 /\ do # "fetch" => Rest(source, run.plan)
                 /\ run.plan[1].do = do /\ Head(run.plan) = run.plan[1]
                 /\ run.plan[1] \in Steps
<1>1. run # None /\ Head(run.plan).do = do
  BY DEF At
<1>2. CASE Fetching
  <2>1. CASE Rest(source, run.plan)
    <3>1. Head(run.plan) = run.plan[1] /\ run.plan[1] \in Steps
      BY <2>1, RestIs
    <3>. QED
      BY <1>1, <1>2, <2>1, <3>1, StepsAre
  <2>2. CASE run.plan = DeaPlan
    <3>1. DeaPlan[1] \in Steps /\ DeaPlan[1].do = "fetch"
      BY DeaPlanIs DEF Steps, Step
    <3>. QED
      BY <1>1, <1>2, <2>2, <3>1, DeaPlanIs
  <2>. QED
    BY <1>2, <2>1, <2>2 DEF IInv, FetchKnows
<1>3. CASE Adjudicating
  <2>1. run.plan \in {AdjudicatePlan, UpdatePlan, RecordPlan}
    BY <1>3 DEF IInv, RulingKnows
  <2>2. /\ run.plan = AdjudicatePlan => do = "rule"
        /\ run.plan = UpdatePlan => do = "update"
        /\ run.plan = RecordPlan => do = "record"
    BY <1>1, RulingPlansAre DEF Step
  <2>. QED
    BY <1>3, <2>1, <2>2
<1>. QED
  BY <1>1, <1>2, <1>3 DEF Fetching, Adjudicating

(* A fetch up to its last two steps has finalized nothing. *)
LEMMA NothingYet ==
    ASSUME IInv, Fetching, run.plan[1].do \notin {"seal"}
    PROVE  sums = None /\ manifest = None /\ ruling = None
<1>1. CASE Rest(source, run.plan)
  <2>1. PICK n : n = Len(run.plan)
    OBVIOUS
  <2>2. n \in Nat \ {0} /\ n # 1
    BY <1>1, <2>1, RestIs
  <2>3. n > 1
    BY <2>2
  <2>. QED
    BY <2>1, <2>3 DEF IInv, FetchKnows
<1>2. CASE run.plan = DeaPlan
  BY <1>2, DeaPlanIs DEF IInv, FetchKnows
<1>. QED
  BY <1>1, <1>2 DEF IInv, FetchKnows

-----------------------------------------------------------------------------
(* What the steps have in common. *)

FaultsType == [publish : Nat, fail : Nat, crash : Nat, edit : Nat]

LEMMA FaultsOK ==
    ASSUME TypeOK
    PROVE  /\ UNCHANGED faults => faults' \in FaultsType
           /\ Fails => faults' \in FaultsType
           /\ \A failed : FailsIf(failed) => faults' \in FaultsType
           /\ faults' = [faults EXCEPT !.publish = @ + 1] => faults' \in FaultsType
           /\ faults' = [faults EXCEPT !.crash = @ + 1] => faults' \in FaultsType
           /\ faults' = [faults EXCEPT !.edit = @ + 1] =>
                 faults' \in FaultsType /\ faults'.edit # faults.edit
BY DEF TypeOK, Fails, FailsIf, FaultsType

(* What upstream does, and what ends a command without touching the         *)
(* snapshot.                                                                *)
LEMMA OutsideIInv ==
    ASSUME IInv, UNCHANGED <<source, dir, sums, manifest, ruling>>,
           UNCHANGED run \/ run' = None,
           upstream' \in Revisions, faults' \in FaultsType
    PROVE  IInv'
<1>1. TypeOK'
  BY DEF IInv, TypeOK, FaultsType
<1>2. FetchKnows' /\ RulingKnows'
  <2>1. CASE run' = None
    BY <2>1 DEF FetchKnows, RulingKnows, Fetching, Adjudicating
  <2>2. CASE UNCHANGED run
    <3>1. CatalogueWritten => CatalogueWritten'
      BY <2>2 DEF CatalogueWritten, ToDo
    <3>. QED
      BY <2>2, <3>1
         DEF IInv, FetchKnows, RulingKnows, Fetching, Adjudicating, ToDo, WillDo, DataValid
  <2>. QED
    BY <2>1, <2>2
<1>3. /\ SumsValidated' /\ ManifestDescribesFiles' /\ SumsInCustody'
      /\ RuledOnly' /\ RulingLinks'
  BY DEF IInv, SumsValidated, ManifestDescribesFiles, SumsInCustody, RuledOnly, RulingLinks
<1>. QED
  BY <1>1, <1>2, <1>3 DEF IInv

(* Nothing is finalized, and no command is in progress. *)
LEMMA OpenIInv ==
    ASSUME IInv, sums' = None, manifest' = None, ruling' = None, run' = None,
           IsDirectory(dir)', UNCHANGED source,
           upstream' \in Revisions, faults' \in FaultsType
    PROVE  IInv'
<1>1. TypeOK'
  BY DEF IInv, TypeOK, FaultsType
<1>. QED
  BY <1>1 DEF IInv, FetchKnows, RulingKnows, Fetching, Adjudicating, SumsValidated,
              ManifestDescribesFiles, SumsInCustody, RuledOnly, RulingLinks

LEMMA DataStays ==
    ASSUME UNCHANGED source, DataValid,
           \A n \in Data : n \in DOMAIN dir' <=> n \in DOMAIN dir,
           \A n \in Data : n \in DOMAIN dir => dir'[n] = dir[n],
           source = "minedex" => {"shp", "csv"} \subseteq DOMAIN dir
    PROVE  DataValid'
<1>1. Data = {"zip", "shp", "csv", "extract", "gpkg", "regions"}
  BY DEF Data
<1>2. \A n \in Data \cap DOMAIN dir : dir[n] # Broken
  BY <1>1 DEF DataValid
<1>3. \A n \in Data \cap DOMAIN dir' : dir'[n] # Broken
  BY <1>2
<1>4. source = "minedex" => dir'["shp"] = dir'["csv"]
  BY <1>1 DEF DataValid
<1>. QED
  BY <1>1, <1>3, <1>4 DEF DataValid

(* The files a catalogue may have. *)
CatalogueFiles == {"page1", "page2", "summary"}

LEMMA CatalogueIs ==
    ASSUME NEW r \in Revisions
    PROVE  Catalogue(r) \subseteq CatalogueFiles /\ "summary" \in Catalogue(r)
<1>1. Pages[r] \in {<<"page1">>, <<"page1", "page2">>}
  BY SnapshotAssumption
<1>2. CASE Pages[r] = <<"page1">>
  <2>1. Range(<<"page1">>) \subseteq {"page1"}
    BY DEF Range
  <2>. QED
    BY <1>2, <2>1 DEF Catalogue, CatalogueFiles
<1>3. CASE Pages[r] = <<"page1", "page2">>
  <2>1. Range(<<"page1", "page2">>) \subseteq {"page1", "page2"}
    BY DEF Range
  <2>. QED
    BY <1>3, <2>1 DEF Catalogue, CatalogueFiles
<1>. QED
  BY <1>1, <1>2, <1>3

(* A step of a fetch writes of a catalogue what is in memory, or leaves it. *)
KeepsCatalogue(step) ==
    \A n \in CatalogueFiles :
        /\ step = Write(n) => n \in DOMAIN dir' /\ dir'[n] = run.held
        /\ step # Write(n) /\ n \in DOMAIN dir => n \in DOMAIN dir' /\ dir'[n] = dir[n]

(* A step of a fetch before finalize: what it may do to the directory, and  *)
(* what the fetch knows after it.                                           *)
LEMMA FetchGoes ==
    ASSUME IInv, Fetching, Rest(source, run.plan),
           NEW step, step = run.plan[1], step.do \notin {"seal", "finalize"},
           run' = [plan |-> Tail(run.plan), held |-> run'.held, hashed |-> run'.hashed,
                   before |-> None, package |-> run'.package],
           step.do = "fetch" => run'.held \in Revisions \cup {Broken},
           step.do # "fetch" => run'.held = run.held,
           UNCHANGED <<source, upstream, sums, manifest, ruling>>, faults' \in FaultsType,
           IsDirectory(dir)',
           ~Touches(step) =>
              /\ \A n \in Data : n \in DOMAIN dir' <=> n \in DOMAIN dir
              /\ \A n \in Data : n \in DOMAIN dir => dir'[n] = dir[n],
           step.do = "validate" => DataValid',
           KeepsCatalogue(step),
           source = "minedex" =>
              \A file \in {"shp", "csv"} :
                  file \in DOMAIN dir \/ step = Step("download", file) => file \in DOMAIN dir'
    PROVE  IInv'
<1>1. PICK n, rest : n = Len(run.plan) /\ rest = Tail(run.plan)
  OBVIOUS
<1>2. n \in Nat /\ n > 2
  <2>1. n \in Nat \ {0} /\ n # 1 /\ n # 2
    BY <1>1, RestIs
  <2>. QED
    BY <2>1
<1>3. /\ Rest(source, rest) /\ Len(rest) = n - 1
      /\ \A s : Includes(run.plan, s) <=> s = step \/ Includes(rest, s)
      /\ \A do : Does(run.plan, do) <=> do = step.do \/ Does(rest, do)
  <2>1. Len(run.plan) > 1
    BY <1>1, <1>2
  <2>2. /\ Rest(source, Tail(run.plan)) /\ Len(Tail(run.plan)) = Len(run.plan) - 1
    BY <2>1, TailRest
  <2>3. \A s : Includes(run.plan, s) <=> s = run.plan[1] \/ Includes(Tail(run.plan), s)
    BY <2>1, TailRest
  <2>4. \A do : Does(run.plan, do) <=> do = run.plan[1].do \/ Does(Tail(run.plan), do)
    BY <2>1, TailRest
  <2>. QED
    BY <1>1, <2>2, <2>3, <2>4
<1>4. run'.plan = rest /\ run'.before = None
  <2>1. PICK held, hashed, package :
           run' = [plan |-> rest, held |-> held, hashed |-> hashed,
                   before |-> None, package |-> package]
    BY <1>1
  <2>. QED
    BY <2>1
<1>5. /\ \A s : ToDo(s) <=> s = step \/ ToDo(s)'
      /\ \A do : WillDo(do) <=> do = step.do \/ WillDo(do)'
  BY <1>3, <1>4 DEF ToDo, WillDo
<1>6. sums = None /\ manifest = None /\ ruling = None
  BY NothingYet
<1>7. TypeOK'
  <2>1. rest # <<>>
    BY <1>3, RestIs
  <2>. QED
    BY <1>4, <1>6, <2>1 DEF IInv, TypeOK, FaultsType
<1>8. source \in {"maus", "dea", "regions"} /\ ~WillDo("fetch")' =>
         /\ run'.held \in Revisions \cup {Broken}
         /\ source = "dea" => run'.held # Broken
  <2>1. step.do = "fetch" => source # "dea"
    BY <1>1, <1>2 DEF Rest
  <2>. QED
    BY <1>5, <2>1 DEF IInv, FetchKnows
<1>9. source # "dea" /\ ~WillDo("validate")' => DataValid'
  <2> SUFFICES ASSUME source # "dea", ~WillDo("validate")', step.do # "validate"
               PROVE  DataValid'
    OBVIOUS
  <2>1. ~WillDo("validate")
    BY <1>5
  <2>2. DataValid
    BY <2>1 DEF IInv, FetchKnows
  <2>3. \A k \in 1 .. n : ~Touches(run.plan[k])
    BY <1>1, <2>1 DEF Rest, WillDo, Does
  <2>4. ~Touches(step)
    BY <1>1, <1>2, <2>3
  <2>5. ASSUME source = "minedex", NEW file \in {"shp", "csv"}
        PROVE  file \in DOMAIN dir
    <3>1. Touches(Step("download", file))
      BY DEF Touches, Step
    <3>2. ~ToDo(Step("download", file))
      BY <1>1, <2>3, <3>1 DEF ToDo, Includes
    <3>. QED
      BY <2>5, <3>2 DEF IInv, FetchKnows
  <2>. QED
    BY <2>2, <2>4, <2>5, DataStays
<1>10. source = "dea" => CatalogueWritten'
  <2> SUFFICES ASSUME source = "dea"
               PROVE  CatalogueWritten'
    OBVIOUS
  <2>1. run.plan # DeaPlan
    BY <1>1, <1>2, DeaPlanIs
  <2>2. step.do # "fetch" /\ ~WillDo("fetch")
    <3>1. \A k \in 1 .. n : run.plan[k].do # "fetch"
      BY <1>1 DEF Rest
    <3>. QED
      BY <1>1, <1>2, <3>1 DEF WillDo, Does
  <2>3. PICK r : r = run.held
    OBVIOUS
  <2>4. r \in Revisions /\ run'.held = r /\ CatalogueWritten
    BY <2>1, <2>2, <2>3 DEF IInv, FetchKnows
  <2>5. ASSUME NEW m \in Catalogue(r)
        PROVE  ToDo(Write(m))' \/ (m \in DOMAIN dir' /\ dir'[m] = r)
    <3>1. m \in CatalogueFiles
      BY <2>4, CatalogueIs
    <3>2. ToDo(Write(m)) \/ (m \in DOMAIN dir /\ dir[m] = r)
      BY <2>3, <2>4 DEF CatalogueWritten
    <3>3. /\ step = Write(m) => m \in DOMAIN dir' /\ dir'[m] = r
          /\ step # Write(m) /\ m \in DOMAIN dir => m \in DOMAIN dir' /\ dir'[m] = dir[m]
      BY <2>3, <3>1 DEF KeepsCatalogue
    <3>. QED
      BY <1>5, <3>2, <3>3
  <2>. QED
    BY <2>4, <2>5 DEF CatalogueWritten
<1>11. source = "minedex" =>
          \A file \in {"shp", "csv"} :
              ToDo(Step("download", file))' \/ file \in DOMAIN dir'
  BY <1>5 DEF IInv, FetchKnows
<1>12. FetchKnows'
  <2>1. Len(run'.plan) # 1
    BY <1>2, <1>3, <1>4
  <2>. QED
    BY <1>3, <1>4, <1>6, <1>8, <1>9, <1>10, <1>11, <2>1 DEF FetchKnows
<1>. QED
  BY <1>4, <1>6, <1>7, <1>12
     DEF IInv, RulingKnows, Adjudicating, SumsValidated, ManifestDescribesFiles,
         SumsInCustody, RuledOnly, RulingLinks

-----------------------------------------------------------------------------
(* Every plan ends well. *)

LEMMA FinishIs ==
    /\ Finish \in Seq(Steps) /\ Len(Finish) = 2
    /\ Finish[1] = Step("finalize", "sums") /\ Finish[2] = Step("seal", "manifest")
<1>1. Step("finalize", "sums") \in Steps /\ Step("seal", "manifest") \in Steps
  BY DEF Steps
<1>. QED
  BY <1>1 DEF Finish

(* The steps before finalize. *)
Body(s, p) ==
    /\ p \in Seq(Steps)
    /\ \A k \in 1 .. Len(p) :
          /\ OfSource(s, p[k])
          /\ p[k].do \notin {"seal", "finalize"}
          /\ p[k].do = "fetch" => k = 1 /\ s # "dea"
          /\ Touches(p[k]) /\ s # "dea" =>
                \E l \in 1 .. Len(p) : k < l /\ p[l].do = "validate"
          /\ p[k].do = "capture" \/ p[k] = Write("pdf") =>
                \A l \in 1 .. Len(p) : k < l => p[l] # Step("download", "csv")

LEMMA BodyRest ==
    ASSUME NEW s, NEW p, Body(s, p)
    PROVE  /\ Rest(s, p \o Finish)
           /\ Len(p \o Finish) = Len(p) + 2
           /\ \A k \in 1 .. Len(p) : (p \o Finish)[k] = p[k]
<1>1. PICK n, q : n = Len(p) /\ q = p \o Finish
  OBVIOUS
<1>2. n \in Nat /\ p \in Seq(Steps)
  BY <1>1, LenProperties DEF Body
<1>3. /\ q \in Seq(Steps) /\ Len(q) = n + 2
      /\ \A k \in 1 .. n + 2 : q[k] = IF k <= n THEN p[k] ELSE Finish[k - n]
  <2>1. /\ p \o Finish \in Seq(Steps)
        /\ Len(p \o Finish) = Len(p) + Len(Finish)
        /\ \A k \in 1 .. Len(p) + Len(Finish) :
              (p \o Finish)[k] = IF k <= Len(p) THEN p[k] ELSE Finish[k - Len(p)]
    BY <1>2, FinishIs, ConcatProperties
  <2>2. Len(Finish) = 2
    BY FinishIs
  <2>. QED
    BY <1>1, <1>2, <2>1, <2>2
<1>4. /\ \A k \in 1 .. n : k \in 1 .. n + 2 /\ q[k] = p[k]
      /\ q[n + 1] = Step("finalize", "sums") /\ q[n + 2] = Step("seal", "manifest")
      /\ \A k \in 1 .. n + 2 : k \in 1 .. n \/ k = n + 1 \/ k = n + 2
  BY <1>2, <1>3, FinishIs
<1>5. ASSUME NEW k \in 1 .. n
      PROVE  /\ OfSource(s, q[k])
             /\ q[k].do \notin {"seal", "finalize"} /\ k # n + 2 /\ k + 1 # n + 2
             /\ q[k].do = "fetch" => k = 1 /\ s # "dea"
             /\ Touches(q[k]) /\ s # "dea" =>
                   \E l \in 1 .. n + 2 : k < l /\ q[l].do = "validate"
             /\ q[k].do = "capture" \/ q[k] = Write("pdf") =>
                   \A l \in 1 .. n + 2 : k < l => q[l] # Step("download", "csv")
  <2>1. /\ OfSource(s, p[k])
        /\ p[k].do \notin {"seal", "finalize"}
        /\ p[k].do = "fetch" => k = 1 /\ s # "dea"
        /\ Touches(p[k]) /\ s # "dea" =>
              \E l \in 1 .. n : k < l /\ p[l].do = "validate"
        /\ p[k].do = "capture" \/ p[k] = Write("pdf") =>
              \A l \in 1 .. n : k < l => p[l] # Step("download", "csv")
    BY <1>1, <1>5 DEF Body
  <2>2. q[k] = p[k] /\ k # n + 2 /\ k + 1 # n + 2
    BY <1>2, <1>4
  <2>3. ASSUME NEW l \in 1 .. n + 2, l \notin 1 .. n
        PROVE  q[l] # Step("download", "csv")
    BY <1>4, <2>3 DEF Step
  <2>. QED
    BY <1>4, <2>1, <2>2, <2>3
<1>6. ASSUME NEW k \in {n + 1, n + 2}
      PROVE  /\ OfSource(s, q[k])
             /\ q[k].do = "seal" <=> k = n + 2
             /\ q[k].do = "finalize" <=> k + 1 = n + 2
             /\ q[k].do # "fetch"
             /\ ~Touches(q[k])
             /\ q[k].do # "capture" /\ q[k] # Write("pdf")
  BY <1>2, <1>4, <1>6 DEF Step, OfSource, Touches, Write, Evidencing, Memoed, Held
<1>7. Rest(s, q)
  <2>1. \A k \in 1 .. n + 2 :
           /\ OfSource(s, q[k])
           /\ q[k].do = "seal" <=> k = n + 2
           /\ q[k].do = "finalize" <=> k + 1 = n + 2
           /\ q[k].do = "fetch" => k = 1 /\ s # "dea"
           /\ Touches(q[k]) /\ s # "dea" =>
                 \E l \in 1 .. n + 2 : k < l /\ q[l].do = "validate"
           /\ q[k].do = "capture" \/ q[k] = Write("pdf") =>
                 \A l \in 1 .. n + 2 : k < l => q[l] # Step("download", "csv")
    BY <1>4, <1>5, <1>6
  <2>. QED
    BY <1>2, <1>3, <2>1 DEF Rest
<1>. QED
  BY <1>1, <1>3, <1>4, <1>7

(* Files that are written before the rest. *)
LEMMA FrontRest ==
    ASSUME NEW s, NEW p, Rest(s, p), Len(p) > 1, NEW front \in Seq(Evidencing),
           s = "minedex",
           ~Does(p, "fetch"), ~Includes(p, Step("download", "csv"))
    PROVE  /\ Rest(s, front \o p)
           /\ \A step : Includes(p, step) => Includes(front \o p, step)
           /\ \A do : Does(p, do) => Does(front \o p, do)
           /\ Len(front \o p) = Len(front) + Len(p)
<1>1. PICK m, n, q : m = Len(front) /\ n = Len(p) /\ q = front \o p
  OBVIOUS
<1>2. /\ m \in Nat /\ n \in Nat /\ n > 1 /\ p \in Seq(Steps)
      /\ \A k \in 1 .. m : front[k] \in Evidencing
  BY <1>1, RestIs, LenProperties, ElementOfSeq
<1>3. front \in Seq(Steps)
  <2>1. Evidencing \subseteq Steps
    BY DEF Steps
  <2>. QED
    BY <2>1, SeqMonotonic
<1>4. /\ q \in Seq(Steps) /\ Len(q) = m + n
      /\ \A k \in 1 .. m + n : q[k] = IF k <= m THEN front[k] ELSE p[k - m]
  BY <1>1, <1>2, <1>3, ConcatProperties
<1>5. /\ \A k \in 1 .. n : m + k \in 1 .. m + n /\ q[m + k] = p[k]
      /\ \A k \in 1 .. m : k \in 1 .. m + n /\ q[k] = front[k]
  BY <1>2, <1>4
<1>6. \A k \in 1 .. m + n : k \in 1 .. m \/ (\E l \in 1 .. n : k = m + l)
  <2>1. \A k \in 1 .. m + n : k \notin 1 .. m => k - m \in 1 .. n /\ k = m + (k - m)
    BY <1>2
  <2>. QED
    BY <2>1
<1>7. \A l \in 1 .. n : p[l] # Step("download", "csv") /\ p[l].do # "fetch"
  BY <1>1 DEF Does, Includes
<1>8. \A l \in 1 .. m + n : q[l] # Step("download", "csv")
  <2>1. \A l \in 1 .. m : q[l] # Step("download", "csv")
    BY <1>2, <1>5 DEF Evidencing, Write, Step
  <2>. QED
    BY <1>5, <1>6, <1>7, <2>1
<1>9. ASSUME NEW k \in 1 .. m
      PROVE  /\ OfSource(s, q[k])
             /\ q[k].do = "write" /\ k # m + n /\ k + 1 # m + n
             /\ ~Touches(q[k])
  <2>1. q[k] \in Evidencing
    BY <1>2, <1>5
  <2>2. q[k].do = "write" /\ ~Touches(q[k])
    BY <2>1 DEF Touches, Evidencing, Write, Step
  <2>3. q[k] \notin Memoed
    BY <2>1 DEF Evidencing, Memoed, Held, Write, Step
  <2>. QED
    BY <1>2, <2>2, <2>3 DEF OfSource
<1>10. ASSUME NEW j \in 1 .. n, NEW k \in 1 .. m + n, k = m + j
       PROVE  /\ OfSource(s, q[k])
              /\ q[k].do = "seal" <=> k = m + n
              /\ q[k].do = "finalize" <=> k + 1 = m + n
              /\ q[k].do # "fetch"
              /\ Touches(q[k]) =>
                    \E l \in 1 .. m + n : k < l /\ q[l].do = "validate"
  <2>1. /\ OfSource(s, p[j])
        /\ p[j].do = "seal" <=> j = n
        /\ p[j].do = "finalize" <=> j + 1 = n
        /\ Touches(p[j]) => \E l \in 1 .. n : j < l /\ p[l].do = "validate"
    BY <1>1 DEF Rest
  <2>2. /\ q[k] = p[j]
        /\ k = m + n <=> j = n
        /\ k + 1 = m + n <=> j + 1 = n
    <3>1. q[m + j] = p[j]
      BY <1>5
    <3>2. m \in Nat /\ n \in Nat /\ j \in Nat /\ k = m + j
      BY <1>2, <1>10
    <3>. QED
      BY <3>1, <3>2
  <2>3. ASSUME NEW l \in 1 .. n, j < l
        PROVE  m + l \in 1 .. m + n /\ k < m + l /\ q[m + l] = p[l]
    BY <1>2, <1>5, <1>10, <2>3
  <2>. QED
    BY <1>7, <2>1, <2>2, <2>3
<1>11. Rest(s, q)
  <2>1. ASSUME NEW k \in 1 .. m + n
        PROVE  /\ OfSource(s, q[k])
               /\ q[k].do = "seal" <=> k = m + n
               /\ q[k].do = "finalize" <=> k + 1 = m + n
               /\ q[k].do # "fetch"
               /\ Touches(q[k]) =>
                     \E l \in 1 .. m + n : k < l /\ q[l].do = "validate"
    <3>1. CASE k \in 1 .. m
      <4>1. /\ OfSource(s, q[k])
            /\ q[k].do = "write" /\ k # m + n /\ k + 1 # m + n
            /\ ~Touches(q[k])
        BY <1>9, <3>1
      <4>. QED
        BY <4>1
    <3>2. CASE \E l \in 1 .. n : k = m + l
      <4>1. PICK l \in 1 .. n : k = m + l
        BY <3>2
      <4>. QED
        BY <1>10, <4>1
    <3>. QED
      BY <1>6, <3>1, <3>2
  <2>2. \A k \in 1 .. m + n :
           /\ OfSource(s, q[k])
           /\ q[k].do = "seal" <=> k = m + n
           /\ q[k].do = "finalize" <=> k + 1 = m + n
           /\ q[k].do = "fetch" => k = 1 /\ s # "dea"
           /\ Touches(q[k]) /\ s # "dea" =>
                 \E l \in 1 .. m + n : k < l /\ q[l].do = "validate"
           /\ q[k].do = "capture" \/ q[k] = Write("pdf") =>
                 \A l \in 1 .. m + n : k < l => q[l] # Step("download", "csv")
    BY <1>8, <2>1
  <2>. QED
    BY <1>2, <1>4, <2>2 DEF Rest
<1>12. /\ \A step : (\E k \in 1 .. n : p[k] = step) => \E k \in 1 .. m + n : q[k] = step
       /\ \A do : (\E k \in 1 .. n : p[k].do = do) => \E k \in 1 .. m + n : q[k].do = do
  BY <1>5, <1>6, <1>9
<1>13. /\ \A step : Includes(p, step) => Includes(q, step)
       /\ \A do : Does(p, do) => Does(q, do)
  BY <1>1, <1>4, <1>12 DEF Includes, Does
<1>. QED
  BY <1>1, <1>4, <1>11, <1>13

LEMMA BodyIs ==
    ASSUME NEW s, NEW p, Body(s, p), NEW k \in 1 .. Len(p)
    PROVE  /\ Len(p \o Finish) > 2
           /\ Includes(p \o Finish, p[k])
           /\ Does(p \o Finish, p[k].do)
<1>1. PICK n, q : n = Len(p) /\ q = p \o Finish
  OBVIOUS
<1>2. n \in Nat
  BY <1>1, LenProperties DEF Body
<1>3. Len(q) = n + 2 /\ q[k] = p[k] /\ k \in 1 .. n
  BY <1>1, BodyRest
<1>4. k \in 1 .. Len(q) /\ Len(q) > 2
  BY <1>2, <1>3
<1>. QED
  BY <1>1, <1>3, <1>4 DEF Includes, Does

LEMMA TenementsRest ==
    /\ Rest("tenements", Plan["tenements"]) /\ Len(Plan["tenements"]) > 2
    /\ Does(Plan["tenements"], "validate")
<1>1. PICK p : p = <<Step("download", "zip"), Write("metadata"), Step("validate", "zip")>>
  OBVIOUS
<1>2. /\ Step("download", "zip") \in Steps /\ Write("metadata") \in Steps
      /\ Step("validate", "zip") \in Steps
  BY DEF Steps, Streamed, Ordinary
<1>3. /\ p \in Seq(Steps) /\ Len(p) = 3
      /\ p[1] = Step("download", "zip") /\ p[2] = Write("metadata")
      /\ p[3] = Step("validate", "zip")
  BY <1>1, <1>2
<1>4. Body("tenements", p)
  <2>1. \A k \in 1 .. 3 :
           /\ OfSource("tenements", p[k])
           /\ p[k].do \notin {"seal", "finalize", "fetch", "capture"}
           /\ p[k] # Write("pdf")
    BY <1>3 DEF OfSource, Step, Write, Evidencing, Memoed, Held
  <2>2. \A k \in 1 .. 3 : Touches(p[k]) => k < 3 /\ p[3].do = "validate"
    BY <1>3 DEF Touches, Step, Write
  <2>. QED
    BY <1>3, <2>1, <2>2 DEF Body
<1>5. Plan["tenements"] = p \o Finish
  BY <1>1 DEF Plan, TenementsPlan
<1>6. p[3].do = "validate" /\ 3 \in 1 .. Len(p)
  BY <1>3 DEF Step
<1>7. Rest("tenements", p \o Finish)
  BY <1>4, BodyRest
<1>8. Len(p \o Finish) > 2 /\ Does(p \o Finish, p[3].do)
  BY <1>4, <1>6, BodyIs
<1>. QED
  BY <1>5, <1>6, <1>7, <1>8

LEMMA MinedexRest ==
    /\ Rest("minedex", Plan["minedex"]) /\ Len(Plan["minedex"]) > 2
    /\ Does(Plan["minedex"], "validate")
    /\ Includes(Plan["minedex"], Step("download", "shp"))
    /\ Includes(Plan["minedex"], Step("download", "csv"))
<1>1. PICK p : p = <<Step("download", "shp"), Step("download", "csv"),
                     Step("capture", "evidence"), Write("metadata"), Step("validate", "csv")>>
  OBVIOUS
<1>2. /\ Step("download", "shp") \in Steps /\ Step("download", "csv") \in Steps
      /\ Step("capture", "evidence") \in Steps /\ Write("metadata") \in Steps
      /\ Step("validate", "csv") \in Steps
  BY DEF Steps, Streamed, Ordinary
<1>3. /\ p \in Seq(Steps) /\ Len(p) = 5
      /\ p[1] = Step("download", "shp") /\ p[2] = Step("download", "csv")
      /\ p[3] = Step("capture", "evidence") /\ p[4] = Write("metadata")
      /\ p[5] = Step("validate", "csv")
  BY <1>1, <1>2
<1>4. Body("minedex", p)
  <2>1. \A k \in 1 .. 5 :
           /\ OfSource("minedex", p[k])
           /\ p[k].do \notin {"seal", "finalize", "fetch"}
           /\ p[k] # Write("pdf")
    BY <1>3 DEF OfSource, Step, Write, Evidencing, Memoed, Held
  <2>2. \A k \in 1 .. 5 : Touches(p[k]) => k < 5 /\ p[5].do = "validate"
    BY <1>3 DEF Touches, Step, Write
  <2>3. \A k, l \in 1 .. 5 :
           p[k].do = "capture" /\ k < l => p[l] # Step("download", "csv")
    BY <1>3 DEF Step, Write
  <2>. QED
    BY <1>3, <2>1, <2>2, <2>3 DEF Body
<1>5. Plan["minedex"] = p \o Finish
  BY <1>1 DEF Plan, MinedexPlan
<1>6. p[5].do = "validate" /\ 1 \in 1 .. Len(p) /\ 2 \in 1 .. Len(p) /\ 5 \in 1 .. Len(p)
  BY <1>3 DEF Step
<1>7. Rest("minedex", p \o Finish)
  BY <1>4, BodyRest
<1>8. Len(p \o Finish) > 2 /\ Does(p \o Finish, p[5].do)
  BY <1>4, <1>6, BodyIs
<1>9. Includes(p \o Finish, p[1]) /\ Includes(p \o Finish, p[2])
  BY <1>4, <1>6, BodyIs
<1>. QED
  BY <1>3, <1>5, <1>6, <1>7, <1>8, <1>9

LEMMA MausRest ==
    /\ Rest("maus", Plan["maus"]) /\ Len(Plan["maus"]) > 2
    /\ Does(Plan["maus"], "validate") /\ Does(Plan["maus"], "fetch")
<1>1. PICK p : p = <<Step("fetch", "extract"), Write("extract"), Step("hash", "source"),
                     Write("metadata"), Step("validate", "extract")>>
  OBVIOUS
<1>2. /\ Step("fetch", "extract") \in Steps /\ Write("extract") \in Steps
      /\ Step("hash", "source") \in Steps /\ Write("metadata") \in Steps
      /\ Step("validate", "extract") \in Steps
  BY DEF Steps, Memoed, Held, Ordinary
<1>3. /\ p \in Seq(Steps) /\ Len(p) = 5
      /\ p[1] = Step("fetch", "extract") /\ p[2] = Write("extract")
      /\ p[3] = Step("hash", "source") /\ p[4] = Write("metadata")
      /\ p[5] = Step("validate", "extract")
  BY <1>1, <1>2
<1>4. Body("maus", p)
  <2>1. \A k \in 1 .. 5 :
           /\ OfSource("maus", p[k])
           /\ p[k].do \notin {"seal", "finalize", "capture"}
           /\ p[k].do = "fetch" => k = 1
           /\ p[k] # Write("pdf")
    BY <1>3 DEF OfSource, Step, Write, Evidencing
  <2>2. \A k \in 1 .. 5 : Touches(p[k]) => k < 5 /\ p[5].do = "validate"
    BY <1>3 DEF Touches, Step, Write
  <2>. QED
    BY <1>3, <2>1, <2>2 DEF Body
<1>5. Plan["maus"] = p \o Finish
  BY <1>1 DEF Plan, MausPlan
<1>6. /\ p[5].do = "validate" /\ p[1].do = "fetch"
      /\ 1 \in 1 .. Len(p) /\ 5 \in 1 .. Len(p)
  BY <1>3 DEF Step
<1>7. Rest("maus", p \o Finish)
  BY <1>4, BodyRest
<1>8. Len(p \o Finish) > 2 /\ Does(p \o Finish, p[5].do) /\ Does(p \o Finish, p[1].do)
  BY <1>4, <1>6, BodyIs
<1>. QED
  BY <1>5, <1>6, <1>7, <1>8

LEMMA DbcaRest ==
    /\ Rest("dbca", Plan["dbca"]) /\ Len(Plan["dbca"]) > 2
    /\ Does(Plan["dbca"], "validate")
<1>1. PICK p : p = <<Step("expect", "gpkg"), Step("stage", "gpkg"), Write("sourceSums"),
                     Write("sourceMetadata"), Step("validate", "gpkg"), Step("page", "page"),
                     Write("metadata"), Step("expect", "gpkg")>>
  OBVIOUS
<1>2. /\ Step("expect", "gpkg") \in Steps /\ Step("stage", "gpkg") \in Steps
      /\ Write("sourceSums") \in Steps /\ Write("sourceMetadata") \in Steps
      /\ Step("validate", "gpkg") \in Steps /\ Step("page", "page") \in Steps
      /\ Write("metadata") \in Steps
  BY DEF Steps, Ordinary
<1>3. /\ p \in Seq(Steps) /\ Len(p) = 8
      /\ p[1] = Step("expect", "gpkg") /\ p[2] = Step("stage", "gpkg")
      /\ p[3] = Write("sourceSums") /\ p[4] = Write("sourceMetadata")
      /\ p[5] = Step("validate", "gpkg") /\ p[6] = Step("page", "page")
      /\ p[7] = Write("metadata") /\ p[8] = Step("expect", "gpkg")
  BY <1>1, <1>2
<1>4. Body("dbca", p)
  <2>1. \A k \in 1 .. 8 :
           /\ OfSource("dbca", p[k])
           /\ p[k].do \notin {"seal", "finalize", "capture", "fetch"}
           /\ p[k] # Write("pdf")
    BY <1>3 DEF OfSource, Step, Write, Evidencing, Memoed, Held
  <2>2. \A k \in 1 .. 8 : Touches(p[k]) => k < 5 /\ p[5].do = "validate"
    BY <1>3 DEF Touches, Step, Write
  <2>. QED
    BY <1>3, <2>1, <2>2 DEF Body
<1>5. Plan["dbca"] = p \o Finish
  BY <1>1 DEF Plan, DbcaPlan
<1>6. p[5].do = "validate" /\ 5 \in 1 .. Len(p)
  BY <1>3 DEF Step
<1>7. Rest("dbca", p \o Finish)
  BY <1>4, BodyRest
<1>8. Len(p \o Finish) > 2 /\ Does(p \o Finish, p[5].do)
  BY <1>4, <1>6, BodyIs
<1>. QED
  BY <1>5, <1>6, <1>7, <1>8

LEMMA RegionsRest ==
    /\ Rest("regions", Plan["regions"]) /\ Len(Plan["regions"]) > 2
    /\ Does(Plan["regions"], "validate") /\ Does(Plan["regions"], "fetch")
<1>1. PICK p : p = <<Step("fetch", "regions"), Write("regions"), Step("validate", "regions")>>
  OBVIOUS
<1>2. /\ Step("fetch", "regions") \in Steps /\ Write("regions") \in Steps
      /\ Step("validate", "regions") \in Steps
  BY DEF Steps, Memoed, Held
<1>3. /\ p \in Seq(Steps) /\ Len(p) = 3
      /\ p[1] = Step("fetch", "regions") /\ p[2] = Write("regions")
      /\ p[3] = Step("validate", "regions")
  BY <1>1, <1>2
<1>4. Body("regions", p)
  <2>1. \A k \in 1 .. 3 :
           /\ OfSource("regions", p[k])
           /\ p[k].do \notin {"seal", "finalize", "capture"}
           /\ p[k].do = "fetch" => k = 1
           /\ p[k] # Write("pdf")
    BY <1>3 DEF OfSource, Step, Write, Evidencing
  <2>2. \A k \in 1 .. 3 : Touches(p[k]) => k < 3 /\ p[3].do = "validate"
    BY <1>3 DEF Touches, Step, Write
  <2>. QED
    BY <1>3, <2>1, <2>2 DEF Body
<1>5. Plan["regions"] = p \o Finish
  BY <1>1 DEF Plan, RegionsPlan
<1>6. /\ p[3].do = "validate" /\ p[1].do = "fetch"
      /\ 1 \in 1 .. Len(p) /\ 3 \in 1 .. Len(p)
  BY <1>3 DEF Step
<1>7. Rest("regions", p \o Finish)
  BY <1>4, BodyRest
<1>8. Len(p \o Finish) > 2 /\ Does(p \o Finish, p[3].do) /\ Does(p \o Finish, p[1].do)
  BY <1>4, <1>6, BodyIs
<1>. QED
  BY <1>5, <1>6, <1>7, <1>8

LEMMA CatalogueRest ==
    ASSUME NEW r \in Revisions
    PROVE  /\ Rest("dea", Tail(DeaPlan) \o CataloguePlan(r))
           /\ Len(Tail(DeaPlan) \o CataloguePlan(r)) > 2
           /\ \A n \in Catalogue(r) :
                 Includes(Tail(DeaPlan) \o CataloguePlan(r), Write(n))
<1>1. PICK pages, front, back :
         /\ pages = [k \in DOMAIN Pages[r] |-> Write(Pages[r][k])]
         /\ front = <<Write("collection")>>
         /\ back = <<Write("summary"), Write("metadata")>>
  OBVIOUS
<1>2. PICK p : p = (front \o pages) \o back
  OBVIOUS
<1>3. PICK S : S = {Write(file) : file \in Held \cup {"metadata"}}
  OBVIOUS
<1>4. /\ Write("collection") \in S /\ Write("summary") \in S /\ Write("metadata") \in S
      /\ Write("page1") \in S /\ Write("page2") \in S
      /\ S \subseteq Steps
  BY <1>3 DEF Steps, Memoed, Held, Ordinary
<1>5. front \in Seq(S) /\ back \in Seq(S) /\ Len(back) = 2 /\ back[1] = Write("summary")
  BY <1>1, <1>4
<1>6. pages \in Seq(S)
  <2>1. Pages[r] \in {<<"page1">>, <<"page1", "page2">>}
    BY SnapshotAssumption
  <2>2. CASE Pages[r] = <<"page1">>
    <3>1. DOMAIN Pages[r] = 1 .. 1 /\ Pages[r][1] = "page1"
      BY <2>2
    <3>2. pages \in [1 .. 1 -> S]
      BY <1>1, <1>4, <3>1
    <3>. QED
      BY <3>2, SeqDef
  <2>3. CASE Pages[r] = <<"page1", "page2">>
    <3>1. DOMAIN Pages[r] = 1 .. 2 /\ Pages[r][1] = "page1" /\ Pages[r][2] = "page2"
      BY <2>3
    <3>2. pages \in [1 .. 2 -> S]
      BY <1>1, <1>4, <3>1
    <3>. QED
      BY <3>2, SeqDef
  <2>. QED
    BY <2>1, <2>2, <2>3
<1>7. PICK m : m = Len(front \o pages)
  OBVIOUS
<1>8. front \o pages \in Seq(S) /\ m \in Nat
  BY <1>5, <1>6, <1>7, ConcatProperties, LenProperties
<1>9. /\ p \in Seq(S) /\ Len(p) = m + 2 /\ p[m + 1] = Write("summary")
      /\ \A k \in 1 .. m : p[k] = (front \o pages)[k]
  <2>1. /\ (front \o pages) \o back \in Seq(S)
        /\ Len((front \o pages) \o back) = Len(front \o pages) + Len(back)
        /\ \A k \in 1 .. Len(front \o pages) + Len(back) :
              ((front \o pages) \o back)[k] =
                  IF k <= Len(front \o pages) THEN (front \o pages)[k]
                                              ELSE back[k - Len(front \o pages)]
    BY <1>5, <1>8, ConcatProperties, ZenonT(60)
  <2>2. /\ p \in Seq(S) /\ Len(p) = m + 2
        /\ \A k \in 1 .. m + 2 :
              p[k] = IF k <= m THEN (front \o pages)[k] ELSE back[k - m]
    BY <1>2, <1>5, <1>7, <2>1
  <2>3. m + 1 \in 1 .. m + 2 /\ ~(m + 1 <= m) /\ (m + 1) - m = 1
    BY <1>8
  <2>4. p[m + 1] = back[1]
    BY <2>2, <2>3
  <2>5. back[1] = Write("summary")
    BY <1>1
  <2>6. \A k \in 1 .. m : k \in 1 .. m + 2 /\ k <= m
    BY <1>8
  <2>. QED
    BY <2>2, <2>4, <2>5, <2>6
<1>10. Tail(DeaPlan) \o CataloguePlan(r) = p \o Finish
  <2>1. /\ front \in Seq(Steps) /\ back \in Seq(Steps) /\ Finish \in Seq(Steps)
        /\ pages \in Seq(Steps)
    BY <1>4, <1>5, <1>6, FinishIs, SeqMonotonic
  <2>2. Tail(DeaPlan) = front /\ CataloguePlan(r) = (pages \o back) \o Finish
    BY <1>1, DeaPlanIs DEF CataloguePlan
  <2>3. front \o pages \in Seq(Steps) /\ back \o Finish \in Seq(Steps)
    BY <2>1, ConcatProperties
  <2>4. (pages \o back) \o Finish = pages \o (back \o Finish)
    BY <2>1, ConcatAssociative, SMTT(30)
  <2>5. (front \o pages) \o (back \o Finish) = front \o (pages \o (back \o Finish))
    <3>1. PICK end \in Seq(Steps) : end = back \o Finish
      BY <2>3
    <3>2. (front \o pages) \o end = front \o (pages \o end)
      BY <2>1, ConcatAssociative
    <3>. QED
      BY <3>1, <3>2
  <2>6. ((front \o pages) \o back) \o Finish = (front \o pages) \o (back \o Finish)
    BY <2>1, <2>3, ConcatAssociative, SMTT(30)
  <2>7. Tail(DeaPlan) \o CataloguePlan(r) = front \o (pages \o (back \o Finish))
    BY <2>2, <2>4
  <2>8. p \o Finish = front \o (pages \o (back \o Finish))
    BY <1>2, <2>5, <2>6
  <2>. QED
    BY <2>7, <2>8
<1>11. Body("dea", p)
  <2>1. ASSUME NEW k \in 1 .. Len(p)
        PROVE  OfSource("dea", p[k]) /\ p[k].do = "write" /\ p[k] # Write("pdf")
    <3>1. p[k] \in S
      BY <1>9, ElementOfSeq
    <3>2. PICK file \in Held \cup {"metadata"} : p[k] = Write(file)
      BY <1>3, <3>1
    <3>. QED
      BY <3>2 DEF OfSource, Held, Write, Step, Evidencing
  <2>2. p \in Seq(Steps)
    BY <1>4, <1>9, SeqMonotonic
  <2>. QED
    BY <2>1, <2>2 DEF Body
<1>12. m + 1 \in 1 .. Len(p)
  BY <1>8, <1>9
<1>13. Rest("dea", p \o Finish)
  BY <1>11, BodyRest
<1>14. Len(p \o Finish) > 2 /\ Includes(p \o Finish, Write("summary"))
  BY <1>9, <1>11, <1>12, BodyIs
<1>15. ASSUME NEW i \in DOMAIN Pages[r]
       PROVE  Includes(p \o Finish, Write(Pages[r][i]))
  <2>1. PICK j, l : j = 1 + i /\ l = Len(pages)
    OBVIOUS
  <2>2. /\ l \in Nat /\ i \in 1 .. l /\ pages[i] = Write(Pages[r][i])
    BY <1>1, <1>6, <2>1, LenProperties
  <2>3. /\ m = 1 + l
        /\ \A k \in 1 .. 1 + l : (front \o pages)[k] = IF k <= 1 THEN front[k] ELSE pages[k - 1]
    <3>1. Len(front) = 1
      BY <1>1
    <3>2. /\ Len(front \o pages) = Len(front) + Len(pages)
          /\ \A k \in 1 .. Len(front) + Len(pages) :
                (front \o pages)[k] = IF k <= Len(front) THEN front[k]
                                                        ELSE pages[k - Len(front)]
      BY <1>5, <1>6, ConcatProperties, ZenonT(60)
    <3>. QED
      BY <1>7, <2>1, <3>1, <3>2
  <2>4. j \in 1 .. m /\ ~(j <= 1) /\ j - 1 = i
    BY <2>1, <2>2, <2>3
  <2>5. (front \o pages)[j] = Write(Pages[r][i])
    BY <2>2, <2>3, <2>4
  <2>6. p[j] = (front \o pages)[j] /\ j \in 1 .. Len(p)
    <3>1. Len(p) = m + 2 /\ p[j] = (front \o pages)[j]
      BY <1>9, <2>4
    <3>2. j \in 1 .. m + 2
      BY <1>8, <2>4
    <3>. QED
      BY <3>1, <3>2
  <2>7. Includes(p \o Finish, p[j])
    BY <1>11, <2>6, BodyIs
  <2>. QED
    BY <2>5, <2>6, <2>7
<1>16. \A n \in Catalogue(r) : Includes(p \o Finish, Write(n))
  <2>1. ASSUME NEW n \in Range(Pages[r])
        PROVE  Includes(p \o Finish, Write(n))
    <3>1. PICK i \in DOMAIN Pages[r] : n = Pages[r][i]
      BY DEF Range
    <3>. QED
      BY <1>15, <3>1
  <2>. QED
    BY <1>14, <2>1 DEF Catalogue
<1>. QED
  BY <1>10, <1>13, <1>14, <1>16

LEMMA PlanIs ==
    ASSUME NEW s \in AllSources, NEW plan, plan = Plan[s]
    PROVE  /\ Rest(s, plan) \/ (s = "dea" /\ plan = DeaPlan)
           /\ Len(plan) > 1 /\ Len(plan) # 1 /\ plan # <<>>
           /\ s # "dea" => Does(plan, "validate")
           /\ s \in {"maus", "dea", "regions"} => Does(plan, "fetch")
           /\ s = "minedex" => /\ Includes(plan, Step("download", "shp"))
                               /\ Includes(plan, Step("download", "csv"))
<1>1. CASE s # "dea"
  <2>1. Rest(s, plan) /\ Len(plan) > 2 /\ Does(plan, "validate")
    BY <1>1, TenementsRest, MinedexRest, MausRest, DbcaRest, RegionsRest DEF AllSources
  <2>2. s \in {"maus", "regions"} => Does(plan, "fetch")
    BY MausRest, RegionsRest
  <2>3. s = "minedex" => /\ Includes(plan, Step("download", "shp"))
                         /\ Includes(plan, Step("download", "csv"))
    BY MinedexRest
  <2>4. PICK n : n = Len(plan)
    OBVIOUS
  <2>5. n \in Nat \ {0} /\ plan # <<>>
    BY <2>1, <2>4, RestIs
  <2>6. n > 2
    BY <2>1, <2>4
  <2>7. n > 1 /\ n # 1
    BY <2>5, <2>6
  <2>. QED
    BY <1>1, <2>1, <2>2, <2>3, <2>4, <2>5, <2>7
<1>2. CASE s = "dea"
  <2>1. plan = DeaPlan
    BY <1>2 DEF Plan
  <2>2. DeaPlan[1].do = "fetch" /\ 1 \in 1 .. Len(DeaPlan) /\ DeaPlan # <<>>
    BY DeaPlanIs, SMTT(30) DEF Step
  <2>3. Does(DeaPlan, "fetch")
    BY <2>2 DEF Does
  <2>4. Len(DeaPlan) > 1 /\ Len(DeaPlan) # 1
    BY DeaPlanIs
  <2>5. /\ Does(plan, "fetch") /\ plan # <<>>
        /\ Len(plan) > 1 /\ Len(plan) # 1
    BY <2>1, <2>2, <2>3, <2>4
  <2>6. s # "minedex"
    BY <1>2
  <2>. QED
    BY <1>2, <2>1, <2>5, <2>6
<1>. QED
  BY <1>1, <1>2

-----------------------------------------------------------------------------
(* The steps of the fetches. *)

LEMMA BeginIInv ==
    ASSUME IInv, Begin
    PROVE  IInv'
<1>1. /\ run' = Running(Plan[source]) /\ sums = None
      /\ UNCHANGED <<source, upstream, dir, sums, manifest, ruling, faults>>
  BY DEF Begin, NotFinalized
<1>2. manifest = None /\ ruling = None
  BY <1>1 DEF IInv, SumsInCustody
<1>3. source \in AllSources
  BY SnapshotAssumption DEF IInv, TypeOK
<1>4. /\ run' = [plan |-> Plan[source], held |-> None, hashed |-> None,
                 before |-> None, package |-> FALSE]
      /\ run'.plan = Plan[source] /\ run'.before = None
  BY <1>1 DEF Running
<1>5. /\ Rest(source, run'.plan) \/ (source = "dea" /\ run'.plan = DeaPlan)
      /\ Len(run'.plan) > 1 /\ Len(run'.plan) # 1 /\ run'.plan # <<>>
      /\ source # "dea" => WillDo("validate")'
      /\ source \in {"maus", "dea", "regions"} => WillDo("fetch")'
      /\ source = "minedex" => /\ ToDo(Step("download", "shp"))'
                               /\ ToDo(Step("download", "csv"))'
  BY <1>3, <1>4, PlanIs DEF WillDo, ToDo
<1>6. TypeOK'
  BY <1>1, <1>2, <1>4, <1>5 DEF IInv, TypeOK
<1>7. FetchKnows'
  <2>1. source = "dea" => run'.plan = DeaPlan
    BY <1>4 DEF Plan
  <2>. QED
    BY <1>1, <1>2, <1>5, <2>1 DEF FetchKnows
<1>. QED
  BY <1>1, <1>2, <1>4, <1>6, <1>7
     DEF IInv, RulingKnows, Adjudicating, SumsValidated, ManifestDescribesFiles,
         SumsInCustody, RuledOnly, RulingLinks

LEMMA GoesIs ==
    ASSUME IInv, Fetching, Goes
    PROVE  /\ run' = [plan |-> Tail(run.plan), held |-> run'.held, hashed |-> run'.hashed,
                      before |-> None, package |-> run'.package]
           /\ run'.held = run.held
<1>1. /\ run = [plan |-> run.plan, held |-> run.held, hashed |-> run.hashed,
                before |-> run.before, package |-> run.package]
      /\ run.before = None
  BY DEF IInv, TypeOK, Fetching
<1>2. PICK plan, held, hashed, package :
         run = [plan |-> plan, held |-> held, hashed |-> hashed,
                before |-> None, package |-> package]
  BY <1>1
<1>3. run' = [plan |-> Tail(plan), held |-> held, hashed |-> hashed,
              before |-> None, package |-> package]
  BY <1>2 DEF Goes
<1>. QED
  BY <1>2, <1>3

LEMMA Uninteresting ==
    ASSUME TypeOK
    PROVE  upstream \in Revisions /\ IsDirectory(dir) /\ source \in Sources
BY DEF TypeOK

LEMMA DownloadIInv ==
    ASSUME IInv, NEW content, Download(content)
    PROVE  IInv'
<1>1. /\ At("download") /\ content \in {upstream, Broken} /\ FailsIf(content = Broken)
      /\ dir' = Put(File, content) /\ Goes
      /\ UNCHANGED <<source, upstream, sums, manifest, ruling>>
  BY DEF Download
<1>2. PICK step : step = run.plan[1]
  OBVIOUS
<1>3. /\ Fetching /\ Rest(source, run.plan) /\ step.do = "download"
      /\ Head(run.plan) = step /\ step \in Steps
  BY <1>1, <1>2, Whose
<1>4. /\ step \in Streamed /\ step = Step("download", step.file)
      /\ File = step.file /\ File \in {"zip", "shp", "csv"}
  BY <1>3, StepsAre DEF File, Streamed, Step
<1>5. /\ content \in Contents /\ File \in Names /\ File # "evidence"
      /\ upstream' \in Revisions /\ TypeOK
  BY <1>1, <1>4 DEF IInv, TypeOK, Contents, Names
<1>6. /\ IsDirectory(Put(File, content))
      /\ DOMAIN Put(File, content) = DOMAIN dir \cup {File}
      /\ \A m \in DOMAIN dir : m # File => Put(File, content)[m] = dir[m]
  BY <1>5, PutIs, Uninteresting
<1>7. faults' \in FaultsType
  BY <1>1, <1>5, FaultsOK
<1>8. Touches(step) /\ \A n : step # Write(n)
  BY <1>3 DEF Touches, Write, Step
<1>9. IsDirectory(dir)'
  BY <1>1, <1>6 DEF IsDirectory
<1>10. /\ KeepsCatalogue(step)
       /\ \A file \in {"shp", "csv"} :
              file \in DOMAIN dir \/ step = Step("download", file) => file \in DOMAIN dir'
  <2>1. \A n \in CatalogueFiles : n # File
    BY <1>4 DEF CatalogueFiles
  <2>2. KeepsCatalogue(step)
    BY <1>1, <1>6, <1>8, <2>1 DEF KeepsCatalogue
  <2>. QED
    BY <1>1, <1>4, <1>6, <2>2 DEF Step
<1>11. /\ run' = [plan |-> Tail(run.plan), held |-> run'.held, hashed |-> run'.hashed,
                  before |-> None, package |-> run'.package]
       /\ run'.held = run.held
  BY <1>1, <1>3, GoesIs
<1>12. step.do \notin {"seal", "finalize", "fetch", "validate"}
  BY <1>3
<1>. QED
  BY <1>1, <1>2, <1>3, <1>5, <1>7, <1>8, <1>9, <1>10, <1>11, <1>12, FetchGoes

LEMMA DownloadFailsIInv ==
    ASSUME IInv, DownloadFails
    PROVE  IInv'
<1>1. /\ At("download") /\ Fails /\ dir' \in {dir, Put(File, Broken)} /\ run' = None
      /\ UNCHANGED <<source, upstream, sums, manifest, ruling>> /\ TypeOK
  BY DEF DownloadFails, Refuses, IInv
<1>2. /\ Fetching /\ run.plan[1].do = "download"
      /\ Head(run.plan) = run.plan[1] /\ run.plan[1] \in Steps
  BY <1>1, Whose
<1>3. File \in Names /\ IsDirectory(dir) /\ upstream \in Revisions
  BY <1>1, <1>2, StepsAre, Uninteresting DEF File
<1>4. IsDirectory(Put(File, Broken))
  BY <1>3, PutIs DEF Contents
<1>5. sums = None /\ manifest = None /\ ruling = None
  BY <1>2, NothingYet
<1>6. IsDirectory(dir)'
  BY <1>1, <1>3, <1>4 DEF IsDirectory
<1>7. faults' \in FaultsType
  BY <1>1, FaultsOK
<1>. QED
  BY <1>1, <1>3, <1>5, <1>6, <1>7, OpenIInv

(* A step that changes two parts of the command in progress. *)
LEMMA RunIs ==
    ASSUME NEW plan, NEW held, NEW hashed, NEW package, NEW r, NEW x, NEW y,
           r = [plan |-> plan, held |-> held, hashed |-> hashed,
                before |-> None, package |-> package]
    PROVE  /\ [r EXCEPT !.held = x, !.plan = y] =
                  [plan |-> y, held |-> x, hashed |-> hashed,
                   before |-> None, package |-> package]
           /\ [r EXCEPT !.plan = y, !.hashed = x] =
                  [plan |-> y, held |-> held, hashed |-> x,
                   before |-> None, package |-> package]
           /\ [r EXCEPT !.package = x, !.plan = y] =
                  [plan |-> y, held |-> held, hashed |-> hashed,
                   before |-> None, package |-> x]
<1>1. [r EXCEPT !.held = x, !.plan = y] =
         [plan |-> y, held |-> x, hashed |-> hashed, before |-> None, package |-> package]
  <2>1. PICK z : z = [r EXCEPT !.held = x, !.plan = y]
    OBVIOUS
  <2>2. z = [plan |-> z.plan, held |-> z.held, hashed |-> z.hashed,
             before |-> z.before, package |-> z.package]
    BY <2>1
  <2>3. z.plan = y /\ z.held = x /\ z.hashed = hashed /\ z.before = None /\ z.package = package
    BY <2>1
  <2>. QED
    BY <2>1, <2>2, <2>3
<1>2. [r EXCEPT !.plan = y, !.hashed = x] =
         [plan |-> y, held |-> held, hashed |-> x, before |-> None, package |-> package]
  <2>1. PICK z : z = [r EXCEPT !.plan = y, !.hashed = x]
    OBVIOUS
  <2>2. z = [plan |-> z.plan, held |-> z.held, hashed |-> z.hashed,
             before |-> z.before, package |-> z.package]
    BY <2>1
  <2>3. z.plan = y /\ z.held = held /\ z.hashed = x /\ z.before = None /\ z.package = package
    BY <2>1
  <2>. QED
    BY <2>1, <2>2, <2>3
<1>3. [r EXCEPT !.package = x, !.plan = y] =
         [plan |-> y, held |-> held, hashed |-> hashed, before |-> None, package |-> x]
  <2>1. PICK z : z = [r EXCEPT !.package = x, !.plan = y]
    OBVIOUS
  <2>2. z = [plan |-> z.plan, held |-> z.held, hashed |-> z.hashed,
             before |-> z.before, package |-> z.package]
    BY <2>1
  <2>3. z.plan = y /\ z.held = held /\ z.hashed = hashed /\ z.before = None /\ z.package = x
    BY <2>1
  <2>. QED
    BY <2>1, <2>2, <2>3
<1>. QED
  BY <1>1, <1>2, <1>3

LEMMA FetchInMemoryIInv ==
    ASSUME IInv, NEW content, FetchInMemory(content)
    PROVE  IInv'
<1>1. /\ At("fetch")
      /\ content \in {upstream} \cup (IF source = "maus" THEN {Broken} ELSE {})
      /\ FailsIf(content = Broken)
      /\ UNCHANGED <<source, upstream, dir, sums, manifest, ruling>> /\ TypeOK
  BY DEF FetchInMemory, IInv
<1>2. PICK plan, hashed, package :
         /\ run.plan = plan /\ run.hashed = hashed /\ run.package = package
         /\ run' = [run EXCEPT !.held = content,
                               !.plan = IF source = "dea"
                                          THEN Tail(plan) \o CataloguePlan(content)
                                          ELSE Tail(plan)]
  BY DEF FetchInMemory
<1>3. /\ Fetching /\ run.plan[1].do = "fetch" /\ run.plan[1] \in Steps
      /\ run = [plan |-> plan, held |-> run.held, hashed |-> hashed,
                before |-> None, package |-> package]
  <2>1. Fetching /\ run.plan[1].do = "fetch" /\ run.plan[1] \in Steps
    BY <1>1, Whose
  <2>. QED
    BY <1>1, <1>2, <2>1 DEF TypeOK, Fetching
<1>4. PICK rest : rest = IF source = "dea" THEN Tail(plan) \o CataloguePlan(content)
                                           ELSE Tail(plan)
  OBVIOUS
<1>5. run' = [plan |-> rest, held |-> content, hashed |-> hashed,
              before |-> None, package |-> package]
  <2>1. run' = [run EXCEPT !.held = content, !.plan = rest]
    BY <1>2, <1>4
  <2>2. PICK held : run = [plan |-> plan, held |-> held, hashed |-> hashed,
                           before |-> None, package |-> package]
    BY <1>3
  <2>. QED
    BY <2>1, <2>2, RunIs
<1>6. /\ faults' \in FaultsType /\ upstream' \in Revisions /\ IsDirectory(dir)'
      /\ content \in Revisions \cup {Broken}
      /\ source # "maus" => content \in Revisions /\ content # Broken
  <2>1. faults' \in FaultsType /\ upstream \in Revisions /\ IsDirectory(dir)
    BY <1>1, FaultsOK, Uninteresting
  <2>. QED
    BY <1>1, <2>1, DistinctAssumption DEF IsDirectory
<1>7. CASE Rest(source, run.plan)
  <2>1. source # "dea"
    <3>1. 1 \in 1 .. Len(run.plan)
      BY <1>7, RestIs
    <3>. QED
      BY <1>3, <1>7, <3>1 DEF Rest
  <2>2. /\ run' = [plan |-> Tail(run.plan), held |-> run'.held, hashed |-> run'.hashed,
                   before |-> None, package |-> run'.package]
        /\ run'.held = content
    BY <1>2, <1>4, <1>5, <2>1
  <2>3. PICK step : step = run.plan[1]
    OBVIOUS
  <2>4. step.do = "fetch" /\ step.do \notin {"seal", "finalize", "validate"}
    BY <1>3, <2>3
  <2>5. (\A n : step # Write(n)) /\ step.do # "download"
    BY <2>4 DEF Write, Step
  <2>6. /\ \A n \in Data : n \in DOMAIN dir' <=> n \in DOMAIN dir
        /\ \A n \in Data : n \in DOMAIN dir => dir'[n] = dir[n]
        /\ \A file \in {"shp", "csv"} :
              file \in DOMAIN dir \/ step = Step("download", file) => file \in DOMAIN dir'
        /\ KeepsCatalogue(step)
    BY <1>1, <2>5 DEF Step, KeepsCatalogue
  <2>7. run'.held \in Revisions \cup {Broken}
    BY <1>6, <2>2
  <2>. QED
    BY <1>1, <1>3, <1>6, <1>7, <2>1, <2>2, <2>3, <2>4, <2>6, <2>7, FetchGoes
<1>8. CASE source = "dea" /\ run.plan = DeaPlan
  <2>1. content \in Revisions /\ content # Broken
    BY <1>6, <1>8
  <2>2. rest = Tail(DeaPlan) \o CataloguePlan(content)
    BY <1>2, <1>4, <1>8
  <2>3. /\ Rest("dea", rest) /\ Len(rest) > 2
        /\ \A n \in Catalogue(content) : Includes(rest, Write(n))
    BY <2>1, <2>2, CatalogueRest
  <2>4. run'.plan = rest /\ run'.held = content /\ run'.before = None
    BY <1>5
  <2>5. Len(run'.plan) # 1 /\ rest # <<>>
    <3>1. PICK n : n = Len(rest)
      OBVIOUS
    <3>2. n > 2
      BY <2>3, <3>1
    <3>3. n \in Nat /\ rest # <<>>
      BY <2>3, <3>1, RestIs
    <3>. QED
      BY <2>4, <3>1, <3>2, <3>3
  <2>6. sums = None /\ manifest = None /\ ruling = None
    BY <1>3, NothingYet
  <2>7. TypeOK'
    BY <1>1, <1>5, <1>6, <2>4, <2>5, <2>6 DEF TypeOK, FaultsType
  <2>8. CatalogueWritten'
    BY <2>3, <2>4 DEF ToDo, CatalogueWritten
  <2>9. FetchKnows'
    BY <1>1, <1>8, <2>1, <2>3, <2>4, <2>5, <2>6, <2>8 DEF FetchKnows
  <2>. QED
    BY <1>1, <2>4, <2>6, <2>7, <2>9
       DEF IInv, RulingKnows, Adjudicating, SumsValidated, ManifestDescribesFiles,
           SumsInCustody, RuledOnly, RulingLinks
<1>. QED
  BY <1>3, <1>7, <1>8 DEF IInv, FetchKnows

LEMMA FetchFailsIInv ==
    ASSUME IInv, FetchFails
    PROVE  IInv'
<1>1. /\ Fails /\ run' = None /\ TypeOK
      /\ UNCHANGED <<source, upstream, dir, sums, manifest, ruling>>
  BY DEF FetchFails, Refuses, IInv
<1>2. faults' \in FaultsType /\ upstream' \in Revisions
  BY <1>1, FaultsOK, Uninteresting
<1>. QED
  BY <1>1, <1>2, OutsideIInv

(* What a fetch writes is there to be written. *)
LEMMA WrittenIs ==
    ASSUME IInv, At("write")
    PROVE  /\ File \in Names
           /\ Written(File) \in Contents
           /\ File = "evidence" => Written(File) \in Evidence
           /\ File \in CatalogueFiles => Written(File) = run.held
<1>1. /\ Fetching /\ Rest(source, run.plan) /\ run.plan[1].do = "write"
      /\ Head(run.plan) = run.plan[1] /\ run.plan[1] \in Steps
  BY Whose
<1>2. PICK step, p, n : step = run.plan[1] /\ p = run.plan /\ n = Len(run.plan)
  OBVIOUS
<1>3. /\ step \in Evidencing \cup Memoed \cup Ordinary
      /\ step = Write(File) /\ File = step.file /\ File \in Names
  <2>1. step \in Steps /\ step.do = "write" /\ File = step.file
    BY <1>1, <1>2 DEF File
  <2>2. step \in Evidencing \cup Memoed \cup Ordinary /\ step.file \in Names
        /\ step = Step(step.do, step.file)
    BY <2>1, StepsAre
  <2>. QED
    BY <2>1, <2>2 DEF Write
<1>4. n \in Nat \ {0} /\ OfSource(source, step) /\ 1 \in 1 .. n
  BY <1>1, <1>2, RestIs
<1>5. TypeOK /\ upstream \in Revisions /\ IsDirectory(dir)
  BY Uninteresting DEF IInv
<1>6. CASE step \in Memoed
  <2>1. source \in {"maus", "dea", "regions"}
    BY <1>4, <1>6 DEF OfSource
  <2>2. ~WillDo("fetch")
    <3>1. \A k \in 1 .. n : p[k].do # "fetch"
      BY <1>1, <1>2 DEF Rest
    <3>. QED
      BY <1>2, <3>1 DEF WillDo, Does
  <2>3. run.held \in Revisions \cup {Broken} /\ (source = "dea" => run.held # Broken)
    BY <1>1, <2>1, <2>2 DEF IInv, FetchKnows
  <2>4. File \in Held
    BY <1>3, <1>6 DEF Memoed, Write, Step
  <2>5. Written(File) = run.held /\ File # "evidence"
    BY <2>4 DEF Written, Held
  <2>. QED
    BY <1>3, <2>3, <2>5 DEF Contents
<1>7. CASE step \in Ordinary
  <2>1. File \in {"metadata", "sourceSums", "sourceMetadata"}
    BY <1>3, <1>7 DEF Ordinary, Write, Step
  <2>2. Written(File) \in {upstream, Text} /\ File \notin CatalogueFiles \cup {"evidence"}
    BY <2>1 DEF Written, CatalogueFiles
  <2>. QED
    BY <1>3, <1>5, <2>2 DEF Contents
<1>8. CASE step \in Evidencing
  <2>1. File \in {"pdf", "package", "evidence"} /\ File \notin CatalogueFiles
    BY <1>3, <1>8 DEF Evidencing, Write, Step, CatalogueFiles
  <2>2. CASE File = "pdf"
    <3>1. Written(File) = dir["csv"]
      BY <2>2 DEF Written
    <3>2. source = "minedex"
      BY <1>4, <1>8 DEF OfSource
    <3>3. ~ToDo(Step("download", "csv"))
      <4>1. \A l \in 1 .. n : 1 < l => p[l] # Step("download", "csv")
        BY <1>1, <1>2, <1>3, <1>4, <2>2 DEF Rest
      <4>2. p[1] # Step("download", "csv")
        BY <1>2, <1>3, <2>2 DEF Write, Step
      <4>3. \A l \in 1 .. n : l = 1 \/ 1 < l
        BY <1>4
      <4>. QED
        BY <1>2, <4>1, <4>2, <4>3 DEF ToDo, Includes
    <3>4. "csv" \in DOMAIN dir
      BY <1>1, <3>2, <3>3 DEF IInv, FetchKnows
    <3>5. dir["csv"] \in Contents
      BY <1>5, <3>4 DEF IsDirectory
    <3>. QED
      BY <1>3, <2>1, <2>2, <3>1, <3>5
  <2>3. CASE File = "package"
    <3>1. Written(File) = Text
      BY <2>3 DEF Written
    <3>. QED
      BY <1>3, <2>1, <2>3, <3>1 DEF Contents
  <2>4. CASE File = "evidence"
    <3>1. Written(File) = Unadjudicated(IF run.package THEN {"pdf", "package"} ELSE {"pdf"})
      BY <2>4 DEF Written
    <3>2. \A files \in {{"pdf"}, {"pdf", "package"}} : Unadjudicated(files) \in Evidence
      BY DEF Unadjudicated, Evidence
    <3>3. Written(File) \in Evidence
      BY <3>1, <3>2
    <3>. QED
      BY <1>3, <2>1, <2>4, <3>3 DEF Contents
  <2>. QED
    BY <2>1, <2>2, <2>3, <2>4
<1>. QED
  BY <1>3, <1>6, <1>7, <1>8

LEMMA WriteFileIInv ==
    ASSUME IInv, WriteFile
    PROVE  IInv'
<1>1. /\ At("write") /\ dir' = Put(File, Written(File)) /\ Goes
      /\ UNCHANGED <<source, upstream, sums, manifest, ruling, faults>> /\ TypeOK
  BY DEF WriteFile, IInv
<1>2. PICK step : step = run.plan[1]
  OBVIOUS
<1>3. /\ Fetching /\ Rest(source, run.plan) /\ step.do = "write"
      /\ step = Head(run.plan) /\ step \in Steps
  BY <1>1, <1>2, Whose
<1>4. step = Write(File)
  <2>1. step.file = File /\ step = Step(step.do, step.file)
    BY <1>3, StepsAre DEF File
  <2>. QED
    BY <1>3, <2>1 DEF Write
<1>5. /\ File \in Names /\ Written(File) \in Contents
      /\ File = "evidence" => Written(File) \in Evidence \cup {Broken}
      /\ File \in CatalogueFiles => Written(File) = run.held
  BY <1>1, WrittenIs
<1>6. /\ IsDirectory(Put(File, Written(File)))
      /\ DOMAIN Put(File, Written(File)) = DOMAIN dir \cup {File}
      /\ Put(File, Written(File))[File] = Written(File)
      /\ \A m \in DOMAIN dir : m # File => Put(File, Written(File))[m] = dir[m]
  BY <1>1, <1>5, PutIs, Uninteresting
<1>7. faults' \in FaultsType /\ upstream' \in Revisions
  BY <1>1, FaultsOK, Uninteresting
<1>8. IsDirectory(dir)'
  BY <1>1, <1>6 DEF IsDirectory
<1>9. ~Touches(step) =>
         /\ \A n \in Data : n \in DOMAIN dir' <=> n \in DOMAIN dir
         /\ \A n \in Data : n \in DOMAIN dir => dir'[n] = dir[n]
  <2> SUFFICES ASSUME ~Touches(step)
               PROVE  /\ \A n \in Data : n \in DOMAIN dir' <=> n \in DOMAIN dir
                      /\ \A n \in Data : n \in DOMAIN dir => dir'[n] = dir[n]
    OBVIOUS
  <2>1. File \notin {"extract", "regions"}
    BY <1>4 DEF Touches
  <2>2. step \in Evidencing \cup Memoed \cup Ordinary
    BY <1>3, StepsAre
  <2>3. File \notin Data
    BY <1>4, <2>1, <2>2 DEF Data, Evidencing, Memoed, Held, Ordinary, Write, Step
  <2>. QED
    BY <1>1, <1>6, <2>3
<1>10. KeepsCatalogue(step)
  <2>1. \A n : step = Write(n) <=> File = n
    BY <1>4 DEF Write, Step
  <2>. QED
    BY <1>1, <1>5, <1>6, <2>1 DEF KeepsCatalogue
<1>11. \A file \in {"shp", "csv"} :
           file \in DOMAIN dir \/ step = Step("download", file) => file \in DOMAIN dir'
  BY <1>1, <1>3, <1>6 DEF Step
<1>12. /\ run' = [plan |-> Tail(run.plan), held |-> run'.held, hashed |-> run'.hashed,
                  before |-> None, package |-> run'.package]
       /\ run'.held = run.held
  BY <1>1, <1>3, GoesIs
<1>13. step.do \notin {"seal", "finalize", "fetch", "validate"}
  BY <1>3
<1>. QED
  BY <1>1, <1>2, <1>3, <1>7, <1>8, <1>9, <1>10, <1>11, <1>12, <1>13, FetchGoes

(* A step that writes no file. *)
LEMMA QuietGoes ==
    ASSUME IInv, Fetching, Rest(source, run.plan),
           NEW step, step = run.plan[1],
           step.do \notin {"seal", "finalize", "fetch", "download", "stage", "write"},
           run' = [plan |-> Tail(run.plan), held |-> run'.held, hashed |-> run'.hashed,
                   before |-> None, package |-> run'.package],
           run'.held = run.held,
           UNCHANGED <<source, upstream, sums, manifest, ruling>>, faults' \in FaultsType,
           dir' = dir \/ (dir' = Put("page", Text) /\ step.do = "page"),
           step.do = "validate" => DataValid
    PROVE  IInv'
<1>1. TypeOK /\ IsDirectory(dir)
  BY DEF IInv, TypeOK
<1>2. "page" \in Names /\ Text \in Contents
  BY DEF Names, Contents
<1>3. /\ IsDirectory(Put("page", Text))
      /\ DOMAIN Put("page", Text) = DOMAIN dir \cup {"page"}
      /\ \A m \in DOMAIN dir : m # "page" => Put("page", Text)[m] = dir[m]
  BY <1>1, <1>2, PutIs
<1>4. IsDirectory(dir)'
  BY <1>1, <1>3 DEF IsDirectory
<1>5. "page" \notin Data \cup CatalogueFiles \cup {"shp", "csv"}
  BY DEF Data, CatalogueFiles
<1>6. /\ \A n \in Data : n \in DOMAIN dir' <=> n \in DOMAIN dir
      /\ \A n \in Data : n \in DOMAIN dir => dir'[n] = dir[n]
  BY <1>3, <1>5
<1>7. step.do = "validate" => DataValid'
  <2> SUFFICES ASSUME step.do = "validate"
               PROVE  DataValid'
    OBVIOUS
  <2>1. dir' = dir /\ DataValid
    OBVIOUS
  <2>. QED
    BY <2>1 DEF DataValid
<1>8. \A file : step # Write(file) /\ step # Step("download", file)
  BY DEF Write, Step
<1>9. KeepsCatalogue(step)
  BY <1>3, <1>5, <1>8 DEF KeepsCatalogue
<1>10. \A file \in {"shp", "csv"} : file \in DOMAIN dir => file \in DOMAIN dir'
  BY <1>3
<1>11. step.do \notin {"seal", "finalize"} /\ step.do # "fetch"
  OBVIOUS
<1>. QED
  BY <1>4, <1>6, <1>7, <1>8, <1>9, <1>10, <1>11, FetchGoes

LEMMA CaptureEvidenceIInv ==
    ASSUME IInv, CaptureEvidence
    PROVE  IInv'
<1>1. /\ At("capture") /\ TypeOK
      /\ UNCHANGED <<source, upstream, dir, sums, manifest, ruling, faults>>
  BY DEF CaptureEvidence, IInv
<1>2. PICK step, p : step = run.plan[1] /\ p = run.plan
  OBVIOUS
<1>3. /\ Fetching /\ Rest(source, p) /\ step.do = "capture" /\ step = p[1]
  BY <1>1, <1>2, Whose
<1>4. faults' \in FaultsType /\ upstream' \in Revisions
  BY <1>1, FaultsOK, Uninteresting
<1>5. CASE Goes
  <2>1. /\ run' = [plan |-> Tail(run.plan), held |-> run'.held, hashed |-> run'.hashed,
                   before |-> None, package |-> run'.package]
        /\ run'.held = run.held
    BY <1>3, <1>5, GoesIs
  <2>2. step.do \notin {"seal", "finalize", "fetch", "download", "stage", "write", "validate"}
    BY <1>3
  <2>. QED
    BY <1>1, <1>2, <1>3, <1>4, <2>1, <2>2, QuietGoes
<1>6. CASE Refuses
  BY <1>1, <1>4, <1>6, OutsideIInv DEF Refuses
<1>7. CASE \E fetched \in BOOLEAN :
              run' = [run EXCEPT
                   !.package = fetched,
                   !.plan = <<Write("pdf")>>
                               \o (IF fetched THEN <<Write("package")>> ELSE <<>>)
                               \o <<Write("evidence")>> \o Tail(@)]
  <2>1. PICK fetched \in BOOLEAN :
              run' = [run EXCEPT
                   !.package = fetched,
                   !.plan = <<Write("pdf")>>
                               \o (IF fetched THEN <<Write("package")>> ELSE <<>>)
                               \o <<Write("evidence")>> \o Tail(p)]
    BY <1>2, <1>7
  <2>2. PICK front, rest :
           /\ front = (<<Write("pdf")>> \o (IF fetched THEN <<Write("package")>> ELSE <<>>))
                         \o <<Write("evidence")>>
           /\ rest = Tail(p)
    OBVIOUS
  <2>3. front \in Seq(Evidencing)
    <3>1. /\ <<Write("pdf")>> \in Seq(Evidencing) /\ <<Write("evidence")>> \in Seq(Evidencing)
          /\ (IF fetched THEN <<Write("package")>> ELSE <<>>) \in Seq(Evidencing)
      BY DEF Evidencing
    <3>. QED
      BY <2>2, <3>1, ConcatProperties
  <2>4. source = "minedex"
    <3>1. OfSource(source, step)
      BY <1>3, RestIs
    <3>. QED
      BY <1>3, <3>1 DEF OfSource
  <2>5. PICK n : n = Len(p)
    OBVIOUS
  <2>6. n \in Nat /\ n > 2
    <3>1. n \in Nat \ {0} /\ n # 1 /\ n # 2
      BY <1>3, <2>5, RestIs
    <3>. QED
      BY <3>1
  <2>7. /\ Rest(source, rest) /\ Len(rest) = n - 1
        /\ \A do : Does(p, do) <=> do = step.do \/ Does(rest, do)
    <3>1. Len(p) > 1
      BY <2>5, <2>6
    <3>2. Rest(source, Tail(p)) /\ Len(Tail(p)) = Len(p) - 1
      BY <1>3, <3>1, TailRest
    <3>3. \A do : Does(p, do) <=> do = p[1].do \/ Does(Tail(p), do)
      BY <1>3, <3>1, TailRest
    <3>. QED
      BY <1>3, <2>2, <2>5, <3>2, <3>3
  <2>8. \A s : Includes(p, s) <=> s = step \/ Includes(rest, s)
    <3>1. Len(p) > 1
      BY <2>5, <2>6
    <3>2. \A s : Includes(p, s) <=> s = p[1] \/ Includes(Tail(p), s)
      BY <1>3, <3>1, TailRest
    <3>. QED
      BY <1>3, <2>2, <3>2
  <2>9. ~Does(p, "fetch")
    <3>1. \A k \in 1 .. n : p[k].do = "fetch" => k = 1
      BY <1>3, <2>5 DEF Rest
    <3>. QED
      BY <1>3, <2>5, <3>1 DEF Does
  <2>10. ~Includes(p, Step("download", "csv"))
    <3>1. 1 \in 1 .. n /\ \A l \in 1 .. n : l = 1 \/ 1 < l
      BY <2>6
    <3>2. \A l \in 1 .. n : 1 < l => p[l] # Step("download", "csv")
      BY <1>3, <2>5, <3>1 DEF Rest
    <3>3. p[1] # Step("download", "csv")
      BY <1>3 DEF Step
    <3>. QED
      BY <2>5, <3>1, <3>2, <3>3 DEF Includes
  <2>11. Len(rest) > 1
    BY <2>6, <2>7
  <2>12. ~Does(rest, "fetch") /\ ~Includes(rest, Step("download", "csv"))
    BY <2>7, <2>8, <2>9, <2>10
  <2>13. PICK q : q = front \o rest
    OBVIOUS
  <2>14. /\ Rest(source, q)
         /\ \A s : Includes(rest, s) => Includes(q, s)
         /\ \A do : Does(rest, do) => Does(q, do)
    <3>1. Rest(source, front \o rest)
      BY <2>3, <2>4, <2>7, <2>11, <2>12, FrontRest
    <3>2. \A s : Includes(rest, s) => Includes(front \o rest, s)
      BY <2>3, <2>4, <2>7, <2>11, <2>12, FrontRest
    <3>3. \A do : Does(rest, do) => Does(front \o rest, do)
      BY <2>3, <2>4, <2>7, <2>11, <2>12, FrontRest
    <3>. QED
      BY <2>13, <3>1, <3>2, <3>3
  <2>15. Len(q) # 1 /\ q # <<>>
    <3>1. Len(front \o rest) = Len(front) + Len(rest)
      BY <2>3, <2>4, <2>7, <2>11, <2>12, FrontRest
    <3>2. Len(front) \in Nat
      BY <2>3, LenProperties
    <3>3. PICK m, r : m = Len(front) /\ r = Len(rest)
      OBVIOUS
    <3>4. m \in Nat /\ r \in Nat /\ r > 1 /\ Len(q) = m + r
      BY <2>6, <2>7, <2>13, <3>1, <3>2, <3>3
    <3>5. m + r # 1
      BY <3>4
    <3>. QED
      BY <2>14, <3>4, <3>5, RestIs
  <2>16. /\ run' = [plan |-> q, held |-> run.held, hashed |-> run.hashed,
                    before |-> None, package |-> fetched]
    <3>1. PICK held, hashed, package :
             /\ run = [plan |-> p, held |-> held, hashed |-> hashed,
                       before |-> None, package |-> package]
             /\ held = run.held /\ hashed = run.hashed
      BY <1>1, <1>2, <1>3 DEF TypeOK, Fetching
    <3>2. run' = [run EXCEPT !.package = fetched, !.plan = q]
      BY <2>1, <2>2, <2>13
    <3>3. run' = [plan |-> q, held |-> held, hashed |-> hashed,
                  before |-> None, package |-> fetched]
      BY <3>1, <3>2, RunIs
    <3>. QED
      BY <3>1, <3>3
  <2>17. run'.plan = q /\ run'.before = None
    BY <2>16
  <2>18. sums = None /\ manifest = None /\ ruling = None
    BY <1>2, <1>3, NothingYet
  <2>19. TypeOK'
    <3>1. run' = [plan |-> run'.plan, held |-> run'.held, hashed |-> run'.hashed,
                  before |-> run'.before, package |-> run'.package]
      BY <2>16
    <3>. QED
      BY <1>1, <2>15, <2>17, <2>18, <3>1 DEF TypeOK
  <2>20. ~WillDo("validate")' => DataValid'
    <3>1. WillDo("validate") => WillDo("validate")'
      BY <1>2, <1>3, <2>7, <2>14, <2>17 DEF WillDo
    <3>2. ~WillDo("validate") => DataValid
      BY <1>3, <2>4 DEF IInv, FetchKnows
    <3>3. DataValid => DataValid'
      BY <1>1 DEF DataValid
    <3>. QED
      BY <3>1, <3>2, <3>3
  <2>21. \A file \in {"shp", "csv"} : ToDo(Step("download", file))' \/ file \in DOMAIN dir'
    <3>1. ASSUME NEW file \in {"shp", "csv"}
          PROVE  ToDo(Step("download", file)) => ToDo(Step("download", file))'
      <4>1. Step("download", file) # step
        BY <1>3 DEF Step
      <4>. QED
        BY <1>2, <2>8, <2>14, <2>17, <4>1 DEF ToDo
    <3>2. \A file \in {"shp", "csv"} : ToDo(Step("download", file)) \/ file \in DOMAIN dir
      BY <1>3, <2>4 DEF IInv, FetchKnows
    <3>. QED
      BY <1>1, <3>1, <3>2
  <2>22. FetchKnows'
    BY <1>1, <2>4, <2>14, <2>15, <2>17, <2>18, <2>20, <2>21 DEF FetchKnows
  <2>. QED
    BY <1>1, <2>17, <2>18, <2>19, <2>22
       DEF IInv, RulingKnows, Adjudicating, SumsValidated, ManifestDescribesFiles,
           SumsInCustody, RuledOnly, RulingLinks
<1>. QED
  BY <1>5, <1>6, <1>7 DEF CaptureEvidence

LEMMA StageCopyIInv ==
    ASSUME IInv, StageCopy
    PROVE  IInv'
<1>1. /\ At("stage") /\ dir' \in {dir, Put("gpkg", upstream)} /\ Goes /\ TypeOK
      /\ UNCHANGED <<source, upstream, sums, manifest, ruling, faults>>
  BY DEF StageCopy, IInv
<1>2. PICK step : step = run.plan[1]
  OBVIOUS
<1>3. Fetching /\ Rest(source, run.plan) /\ step.do = "stage"
  BY <1>1, <1>2, Whose
<1>4. /\ faults' \in FaultsType /\ upstream' \in Revisions
      /\ upstream \in Contents /\ IsDirectory(dir) /\ "gpkg" \in Names
  BY <1>1, FaultsOK, Uninteresting DEF Contents, Names
<1>5. /\ IsDirectory(Put("gpkg", upstream))
      /\ DOMAIN Put("gpkg", upstream) = DOMAIN dir \cup {"gpkg"}
      /\ \A m \in DOMAIN dir : m # "gpkg" => Put("gpkg", upstream)[m] = dir[m]
  BY <1>4, PutIs
<1>6. IsDirectory(dir)'
  BY <1>1, <1>4, <1>5 DEF IsDirectory
<1>7. Touches(step) /\ \A file : step # Write(file) /\ step # Step("download", file)
  BY <1>3 DEF Touches, Write, Step
<1>8. /\ KeepsCatalogue(step)
      /\ \A file \in {"shp", "csv"} : file \in DOMAIN dir => file \in DOMAIN dir'
  <2>1. "gpkg" \notin CatalogueFiles
    BY DEF CatalogueFiles
  <2>. QED
    BY <1>1, <1>5, <1>7, <2>1 DEF KeepsCatalogue
<1>9. /\ run' = [plan |-> Tail(run.plan), held |-> run'.held, hashed |-> run'.hashed,
                 before |-> None, package |-> run'.package]
      /\ run'.held = run.held
  BY <1>1, <1>3, GoesIs
<1>10. step.do \notin {"seal", "finalize", "fetch", "validate"}
  BY <1>3
<1>. QED
  BY <1>1, <1>2, <1>3, <1>4, <1>6, <1>7, <1>8, <1>9, <1>10, FetchGoes

LEMMA HashSourceIInv ==
    ASSUME IInv, HashSource
    PROVE  IInv'
<1>1. /\ At("hash") /\ TypeOK
      /\ UNCHANGED <<source, upstream, dir, sums, manifest, ruling, faults>>
  BY DEF HashSource, IInv
<1>2. PICK step, p : step = run.plan[1] /\ p = run.plan
  OBVIOUS
<1>3. Fetching /\ Rest(source, run.plan) /\ step.do = "hash"
  BY <1>1, <1>2, Whose
<1>4. faults' \in FaultsType
  BY <1>1, FaultsOK
<1>5. /\ run' = [plan |-> Tail(run.plan), held |-> run'.held, hashed |-> run'.hashed,
                 before |-> None, package |-> run'.package]
      /\ run'.held = run.held
  <2>1. PICK held, hashed, package :
           run = [plan |-> p, held |-> held, hashed |-> hashed,
                  before |-> None, package |-> package]
    BY <1>1, <1>2, <1>3 DEF TypeOK, Fetching
  <2>2. run' = [run EXCEPT !.plan = Tail(p), !.hashed = upstream]
    BY <1>2 DEF HashSource
  <2>3. run' = [plan |-> Tail(p), held |-> held, hashed |-> upstream,
                before |-> None, package |-> package]
    BY <2>1, <2>2, RunIs
  <2>. QED
    BY <1>2, <2>1, <2>3
<1>6. step.do \notin {"seal", "finalize", "fetch", "download", "stage", "write", "validate"}
  BY <1>3
<1>. QED
  BY <1>1, <1>2, <1>3, <1>4, <1>5, <1>6, QuietGoes

LEMMA CapturePageIInv ==
    ASSUME IInv, NEW marked, CapturePage(marked)
    PROVE  IInv'
<1>1. /\ At("page") /\ TypeOK /\ FailsIf(~marked)
      /\ \/ dir' = Put("page", Text) /\ Goes
         \/ UNCHANGED dir /\ run' = None
      /\ UNCHANGED <<source, upstream, sums, manifest, ruling>>
  BY DEF CapturePage, IInv, Refuses
<1>2. PICK step : step = run.plan[1]
  OBVIOUS
<1>3. Fetching /\ Rest(source, run.plan) /\ step.do = "page"
  BY <1>1, <1>2, Whose
<1>4. faults' \in FaultsType /\ upstream' \in Revisions
  BY <1>1, FaultsOK, Uninteresting
<1>5. CASE dir' = Put("page", Text) /\ Goes
  <2>1. /\ run' = [plan |-> Tail(run.plan), held |-> run'.held, hashed |-> run'.hashed,
                   before |-> None, package |-> run'.package]
        /\ run'.held = run.held
    BY <1>3, <1>5, GoesIs
  <2>2. step.do \notin {"seal", "finalize", "fetch", "download", "stage", "write", "validate"}
    BY <1>3
  <2>. QED
    BY <1>1, <1>2, <1>3, <1>4, <1>5, <2>1, <2>2, QuietGoes
<1>6. CASE UNCHANGED dir /\ run' = None
  BY <1>1, <1>4, <1>6, OutsideIInv
<1>. QED
  BY <1>1, <1>5, <1>6

LEMMA ValidateIInv ==
    ASSUME IInv, Validate
    PROVE  IInv'
<1>1. /\ At("validate") /\ TypeOK
      /\ UNCHANGED <<source, upstream, sums, manifest, ruling, faults>>
  BY DEF Validate, IInv
<1>2. PICK step : step = run.plan[1]
  OBVIOUS
<1>3. Fetching /\ Rest(source, run.plan) /\ step.do = "validate"
  BY <1>1, <1>2, Whose
<1>4. faults' \in FaultsType /\ upstream' \in Revisions /\ IsDirectory(dir)
  BY <1>1, FaultsOK, Uninteresting
<1>5. CASE DataValid
  <2>1. Goes /\ dir' = dir
    BY <1>5 DEF Validate
  <2>2. /\ run' = [plan |-> Tail(run.plan), held |-> run'.held, hashed |-> run'.hashed,
                   before |-> None, package |-> run'.package]
        /\ run'.held = run.held
    BY <1>3, <2>1, GoesIs
  <2>3. step.do \notin {"seal", "finalize", "fetch", "download", "stage", "write"}
    BY <1>3
  <2>. QED
    BY <1>1, <1>2, <1>3, <1>4, <1>5, <2>1, <2>2, <2>3, QuietGoes
<1>6. CASE ~DataValid
  <2>1. run' = None /\ dir' \in {dir, Restrict(dir, DOMAIN dir \ {"regions"})}
    BY <1>6 DEF Validate, Refuses
  <2>2. IsDirectory(Restrict(dir, DOMAIN dir \ {"regions"}))
    BY <1>4, RestrictIs
  <2>3. IsDirectory(dir)'
    BY <1>4, <2>1, <2>2 DEF IsDirectory
  <2>4. sums = None /\ manifest = None /\ ruling = None
    BY <1>2, <1>3, NothingYet
  <2>. QED
    BY <1>1, <1>4, <2>1, <2>3, <2>4, OpenIInv
<1>. QED
  BY <1>5, <1>6

LEMMA RefuseUnexpectedIInv ==
    ASSUME IInv, RefuseUnexpected
    PROVE  IInv'
<1>1. /\ At("expect") /\ TypeOK /\ (Goes \/ run' = None)
      /\ UNCHANGED <<source, upstream, dir, sums, manifest, ruling, faults>>
  BY DEF RefuseUnexpected, IInv, Refuses
<1>2. PICK step : step = run.plan[1]
  OBVIOUS
<1>3. Fetching /\ Rest(source, run.plan) /\ step.do = "expect"
  BY <1>1, <1>2, Whose DEF RefuseUnexpected
<1>4. faults' \in FaultsType /\ upstream' \in Revisions
  BY FaultsOK, Uninteresting DEF RefuseUnexpected, IInv
<1>5. CASE Goes
  <2>1. /\ run' = [plan |-> Tail(run.plan), held |-> run'.held, hashed |-> run'.hashed,
                   before |-> None, package |-> run'.package]
        /\ run'.held = run.held
    BY <1>3, <1>5, GoesIs
  <2>2. step.do \notin {"seal", "finalize", "fetch", "download", "stage", "write", "validate"}
    BY <1>3
  <2>. QED
    BY <1>1, <1>2, <1>3, <1>4, <2>1, <2>2, QuietGoes
<1>6. CASE run' = None
  BY <1>1, <1>4, <1>6, OutsideIInv
<1>. QED
  BY <1>1, <1>5, <1>6

(* What finalize hashes. *)
LEMMA FinalizedIs ==
    ASSUME IInv, At("finalize")
    PROVE  /\ Fetching /\ Rest(source, run.plan) /\ Len(run.plan) = 2
           /\ sums = None /\ manifest = None /\ ruling = None
           /\ \A n \in Required[source] \cap DOMAIN dir : dir[n] # Broken
           /\ source = "minedex" => dir["shp"] = dir["csv"]
           /\ source = "dea" =>
                 /\ run.held \in Revisions
                 /\ \A n \in Catalogue(run.held) : n \in DOMAIN dir /\ dir[n] = run.held
<1>1. /\ Fetching /\ Rest(source, run.plan) /\ run.plan[1].do = "finalize"
  BY Whose
<1>2. PICK p, n : p = run.plan /\ n = Len(run.plan)
  OBVIOUS
<1>3. n = 2
  BY <1>1, <1>2, RestIs
<1>4. \A k \in 1 .. n : p[k].do \in {"finalize", "seal"}
  <2>1. p[2].do = "seal"
    BY <1>1, <1>2, <1>3 DEF Rest
  <2>. QED
    BY <1>1, <1>2, <1>3, <2>1
<1>5. ~WillDo("validate") /\ ~WillDo("fetch") /\ \A file : ~ToDo(Write(file))
  BY <1>2, <1>4 DEF WillDo, Does, ToDo, Includes, Write, Step
<1>6. sums = None /\ manifest = None /\ ruling = None
  BY <1>1, NothingYet
<1>7. source # "dea" => DataValid
  BY <1>1, <1>5 DEF IInv, FetchKnows
<1>8. source \in AllSources
  BY SnapshotAssumption DEF IInv, TypeOK
<1>9. CASE source = "dea"
  <2>1. run.plan # DeaPlan
    <3>1. DeaPlan[1].do # "finalize"
      BY DeaPlanIs DEF Step
    <3>. QED
      BY <1>1, <3>1
  <2>2. PICK r : r = run.held
    OBVIOUS
  <2>3. r \in Revisions /\ CatalogueWritten
    BY <1>1, <1>5, <1>9, <2>1, <2>2 DEF IInv, FetchKnows
  <2>4. \A m \in Catalogue(r) : m \in DOMAIN dir /\ dir[m] = r
    BY <1>5, <2>2, <2>3 DEF CatalogueWritten
  <2>5. "summary" \in DOMAIN dir /\ dir["summary"] # Broken
    BY <2>3, <2>4, CatalogueIs, DistinctAssumption
  <2>6. Required[source] = {"summary"}
    BY <1>9 DEF Required
  <2>. QED
    BY <1>1, <1>2, <1>3, <1>6, <1>9, <2>2, <2>3, <2>4, <2>5, <2>6
<1>10. CASE source # "dea"
  <2>1. Required[source] \subseteq {"zip", "shp", "csv", "extract", "gpkg", "regions"}
    BY <1>8, <1>10 DEF Required, AllSources
  <2>2. \A m \in Required[source] \cap DOMAIN dir : dir[m] # Broken
    BY <1>7, <1>10, <2>1 DEF DataValid
  <2>3. source = "minedex" => dir["shp"] = dir["csv"]
    BY <1>7 DEF DataValid
  <2>. QED
    BY <1>1, <1>2, <1>3, <1>6, <1>10, <2>2, <2>3
<1>. QED
  BY <1>9, <1>10

LEMMA FinalizeIInv ==
    ASSUME IInv, Finalize
    PROVE  IInv'
<1>1. /\ At("finalize") /\ sums' = dir /\ Goes /\ TypeOK
      /\ UNCHANGED <<source, upstream, dir, manifest, ruling, faults>>
  BY DEF Finalize, IInv
<1>2. /\ Fetching /\ Rest(source, run.plan) /\ Len(run.plan) = 2
      /\ sums = None /\ manifest = None /\ ruling = None
  BY <1>1, FinalizedIs
<1>3. /\ \A n \in Required[source] \cap DOMAIN dir : dir[n] # Broken
      /\ source = "minedex" => dir["shp"] = dir["csv"]
  BY <1>1, FinalizedIs
<1>4. /\ run' = [plan |-> Tail(run.plan), held |-> run'.held, hashed |-> run'.hashed,
                 before |-> None, package |-> run'.package]
      /\ run'.held = run.held
  BY <1>1, <1>2, GoesIs
<1>5. PICK rest : rest = Tail(run.plan)
  OBVIOUS
<1>6. run'.plan = rest /\ run'.before = None
  <2>1. PICK held, hashed, package :
           run' = [plan |-> rest, held |-> held, hashed |-> hashed,
                   before |-> None, package |-> package]
    BY <1>4, <1>5
  <2>. QED
    BY <2>1
<1>7. /\ Rest(source, rest) /\ Len(rest) = 1
      /\ \A do : Does(run.plan, do) <=> do = run.plan[1].do \/ Does(rest, do)
      /\ \A s : Includes(run.plan, s) <=> s = run.plan[1] \/ Includes(rest, s)
  <2>1. Len(run.plan) > 1
    BY <1>2
  <2>2. Rest(source, Tail(run.plan)) /\ Len(Tail(run.plan)) = Len(run.plan) - 1
    BY <1>2, <2>1, TailRest
  <2>3. \A s : Includes(run.plan, s) <=> s = run.plan[1] \/ Includes(Tail(run.plan), s)
    BY <1>2, <2>1, TailRest
  <2>4. \A do : Does(run.plan, do) <=> do = run.plan[1].do \/ Does(Tail(run.plan), do)
    BY <1>2, <2>1, TailRest
  <2>. QED
    BY <1>2, <1>5, <2>2, <2>3, <2>4
<1>8. run.plan[1].do = "finalize" /\ run.plan # DeaPlan
  <2>1. run.plan[1].do = "finalize"
    BY <1>1, Whose
  <2>2. DeaPlan[1].do # "finalize"
    BY DeaPlanIs DEF Step
  <2>. QED
    BY <2>1, <2>2
<1>9. /\ WillDo("fetch") => WillDo("fetch")'
      /\ WillDo("validate") => WillDo("validate")'
      /\ \A file : ToDo(Write(file)) => ToDo(Write(file))'
      /\ \A file : ToDo(Step("download", file)) => ToDo(Step("download", file))'
  <2>1. \A file : Write(file) # run.plan[1] /\ Step("download", file) # run.plan[1]
    BY <1>8 DEF Write, Step
  <2>. QED
    BY <1>6, <1>7, <1>8, <2>1 DEF WillDo, ToDo
<1>10. rest # <<>>
  BY <1>7, RestIs
<1>11. /\ dir # None /\ IsDirectory(sums)' /\ sums' # None
  <2>1. IsDirectory(dir) /\ dir # None
    BY <1>1, Uninteresting, DirectoryIsSome
  <2>. QED
    BY <1>1, <2>1 DEF IsDirectory
<1>12. TypeOK'
  BY <1>1, <1>2, <1>4, <1>6, <1>10, <1>11 DEF TypeOK, IsDirectory
<1>13. FetchKnows'
  <2>1. ~(Len(run'.plan) > 1)
    BY <1>6, <1>7
  <2>2. source \in {"maus", "dea", "regions"} /\ ~WillDo("fetch")' =>
           /\ run'.held \in Revisions \cup {Broken}
           /\ source = "dea" => run'.held # Broken
    BY <1>2, <1>4, <1>9 DEF IInv, FetchKnows
  <2>3. source # "dea" /\ ~WillDo("validate")' => DataValid'
    <3>1. source # "dea" /\ ~WillDo("validate") => DataValid
      BY <1>2 DEF IInv, FetchKnows
    <3>2. DataValid => DataValid'
      BY <1>1 DEF DataValid
    <3>. QED
      BY <1>9, <3>1, <3>2
  <2>4. source = "dea" => CatalogueWritten'
    <3>1. source = "dea" => CatalogueWritten
      BY <1>2, <1>8 DEF IInv, FetchKnows
    <3>2. CatalogueWritten => CatalogueWritten'
      BY <1>1, <1>4, <1>9 DEF CatalogueWritten
    <3>. QED
      BY <3>1, <3>2
  <2>5. source = "minedex" =>
           \A file \in {"shp", "csv"} : ToDo(Step("download", file))' \/ file \in DOMAIN dir
    BY <1>2, <1>9 DEF IInv, FetchKnows
  <2>. QED
    BY <1>1, <1>2, <1>6, <1>7, <2>1, <2>2, <2>3, <2>4, <2>5 DEF FetchKnows
<1>14. SumsValidated'
  <2>1. source = "dea" =>
           \E r \in Revisions : \A n \in Catalogue(r) : n \in DOMAIN dir /\ dir[n] = r
    <3>1. PICK r : r = run.held
      OBVIOUS
    <3>2. source = "dea" =>
             r \in Revisions /\ \A n \in Catalogue(r) : n \in DOMAIN dir /\ dir[n] = r
      BY <1>1, <3>1, FinalizedIs
    <3>. QED
      BY <3>2
  <2>. QED
    BY <1>1, <1>3, <2>1 DEF SumsValidated
<1>. QED
  BY <1>1, <1>2, <1>6, <1>11, <1>12, <1>13, <1>14
     DEF IInv, RulingKnows, Adjudicating, ManifestDescribesFiles,
         SumsInCustody, RuledOnly, RulingLinks

LEMMA SealSnapshotIInv ==
    ASSUME IInv, SealSnapshot
    PROVE  IInv'
<1>1. /\ At("seal") /\ run' = None /\ TypeOK
      /\ manifest' = [output |-> sums, assets |-> [n \in Assets[source] |-> AssetDigest(n)]]
      /\ UNCHANGED <<source, upstream, dir, sums, ruling, faults>>
  BY DEF SealSnapshot, IInv, Refuses
<1>2. Fetching /\ Rest(source, run.plan) /\ run.plan[1].do = "seal"
  BY <1>1, Whose
<1>3. Len(run.plan) = 1
  BY <1>2, RestIs
<1>4. sums = dir /\ manifest = None /\ ruling = None
  BY <1>2, <1>3 DEF IInv, FetchKnows
<1>5. IsDirectory(dir) /\ dir # None
  BY <1>1, Uninteresting, DirectoryIsSome
<1>6. /\ manifest'.output = sums /\ manifest'.assets = [n \in Assets[source] |-> AssetDigest(n)]
  BY <1>1
<1>7. TypeOK'
  <2>1. IsDirectory(manifest'.output)
    BY <1>4, <1>5, <1>6
  <2>2. DOMAIN manifest'.assets = Assets[source]
    BY <1>6
  <2>. QED
    BY <1>1, <1>4, <2>1, <2>2 DEF TypeOK, IsDirectory
<1>8. ManifestDescribesFiles'
  <2>1. \A n \in Assets[source] \ {"source"} : manifest'.assets[n] = manifest'.output[n]
    BY <1>4, <1>6 DEF AssetDigest
  <2>. QED
    BY <1>1, <2>1 DEF ManifestDescribesFiles
<1>9. SumsInCustody' /\ RuledOnly' /\ RulingLinks' /\ SumsValidated'
  <2>1. SumsInCustody'
    BY <1>1, <1>4, <1>5 DEF SumsInCustody
  <2>2. RuledOnly'
    BY <1>1, <1>6 DEF RuledOnly
  <2>3. RulingLinks'
    BY <1>1, <1>4 DEF RulingLinks
  <2>4. source = "dea" =>
           \E r \in Revisions : \A n \in Catalogue(r) : n \in DOMAIN sums /\ sums[n] = r
    <3> SUFFICES ASSUME source = "dea"
                 PROVE  \E r \in Revisions :
                           \A n \in Catalogue(r) : n \in DOMAIN sums /\ sums[n] = r
      OBVIOUS
    <3>1. PICK r : r = run.held
      OBVIOUS
    <3>2. run.plan # DeaPlan
      BY <1>2, DeaPlanIs DEF Step
    <3>3. \A l \in 1 .. 1 : run.plan[l].do = "seal"
      BY <1>2
    <3>4. ~WillDo("fetch") /\ \A file : ~ToDo(Write(file))
      BY <1>3, <3>3 DEF WillDo, Does, ToDo, Includes, Write, Step
    <3>5. r \in Revisions /\ CatalogueWritten
      BY <1>2, <3>1, <3>2, <3>4 DEF IInv, FetchKnows
    <3>6. \A n \in Catalogue(r) : n \in DOMAIN dir /\ dir[n] = r
      BY <3>1, <3>4, <3>5 DEF CatalogueWritten
    <3>. QED
      BY <1>4, <3>5, <3>6
  <2>5. SumsValidated'
    BY <1>1, <2>4 DEF IInv, SumsValidated
  <2>. QED
    BY <2>1, <2>2, <2>3, <2>5
<1>. QED
  BY <1>1, <1>7, <1>8, <1>9 DEF IInv, FetchKnows, RulingKnows, Fetching, Adjudicating

-----------------------------------------------------------------------------
(* adjudicate-minedex-licence. *)

LEMMA AdjudicateIInv ==
    ASSUME IInv, Adjudicate
    PROVE  IInv'
<1>1. /\ run = None /\ source = "minedex" /\ sums # None /\ Parses /\ Adjudicable
      /\ EvidenceIsHashed /\ TypeOK
      /\ run' = [Running(AdjudicatePlan) EXCEPT !.before = sums]
      /\ UNCHANGED <<source, upstream, dir, sums, manifest, ruling, faults>>
  BY DEF Adjudicate, IInv
<1>2. run' = [plan |-> AdjudicatePlan, held |-> None, hashed |-> None,
              before |-> sums, package |-> FALSE]
  BY <1>1 DEF Running
<1>3. run'.plan = AdjudicatePlan /\ run'.before = sums
  BY <1>2
<1>4. /\ "evidence" \in DOMAIN sums /\ dir["evidence"] = sums["evidence"]
      /\ sums["evidence"] \in Evidence /\ ~sums["evidence"].adjudicated
  <2>1. "evidence" \in DOMAIN sums /\ dir["evidence"] = sums["evidence"]
    BY <1>1 DEF EvidenceIsHashed, Hashes
  <2>2. "evidence" \in DOMAIN dir /\ dir["evidence"] # Broken
    BY <1>1 DEF Parses
  <2>3. dir["evidence"] \in Evidence
    BY <1>1, <2>2 DEF TypeOK, IsDirectory
  <2>. QED
    BY <1>1, <2>1, <2>3 DEF Adjudicable
<1>5. TypeOK'
  BY <1>1, <1>2, <1>3, RulingPlansAre DEF TypeOK, IsDirectory
<1>6. manifest # None => sums = manifest.output
  <2> SUFFICES ASSUME manifest # None, sums # manifest.output
               PROVE  FALSE
    OBVIOUS
  <2>1. /\ manifest.output["evidence"] \in Evidence
        /\ sums["evidence"] = Ruled(manifest.output["evidence"])
    BY <1>4 DEF IInv, RuledOnly
  <2>. QED
    BY <1>4, <2>1, RulingIs
<1>7. RulingKnows'
  <2>1. IsDirectory(run'.before)
    BY <1>1, <1>3 DEF TypeOK
  <2>. QED
    BY <1>1, <1>3, <1>4, <1>6, <2>1 DEF RulingKnows, IsDirectory
<1>8. FetchKnows'
  BY <1>1, <1>3 DEF FetchKnows, Fetching
<1>. QED
  BY <1>1, <1>5, <1>7, <1>8
     DEF IInv, SumsValidated, ManifestDescribesFiles, SumsInCustody, RuledOnly, RulingLinks

(* A step of a ruling. *)
LEMMA RulingGoes ==
    ASSUME IInv, Adjudicating, Goes
    PROVE  /\ run' = [plan |-> Tail(run.plan), held |-> run.held, hashed |-> run.hashed,
                      before |-> run.before, package |-> run.package]
           /\ run'.before = run.before /\ run'.plan = Tail(run.plan)
<1>1. run = [plan |-> run.plan, held |-> run.held, hashed |-> run.hashed,
             before |-> run.before, package |-> run.package]
  BY DEF IInv, TypeOK, Adjudicating
<1>2. PICK plan, held, hashed, before, package :
         run = [plan |-> plan, held |-> held, hashed |-> hashed,
                before |-> before, package |-> package]
  BY <1>1
<1>3. run' = [plan |-> Tail(plan), held |-> held, hashed |-> hashed,
              before |-> before, package |-> package]
  BY <1>2 DEF Goes
<1>. QED
  BY <1>2, <1>3

LEMMA RuleIInv ==
    ASSUME IInv, Rule
    PROVE  IInv'
<1>1. /\ At("rule") /\ dir' = Put("evidence", Ruled(dir["evidence"])) /\ Goes /\ TypeOK
      /\ UNCHANGED <<source, upstream, sums, manifest, ruling, faults>>
  BY DEF Rule, IInv
<1>2. Adjudicating /\ run.plan = AdjudicatePlan
  BY <1>1, Whose
<1>3. run.plan # UpdatePlan /\ run.plan # RecordPlan
  BY <1>2, RulingPlansAre DEF Step
<1>4. /\ source = "minedex" /\ sums # None
      /\ IsDirectory(run.before)
      /\ "evidence" \in DOMAIN run.before
      /\ run.before["evidence"] \in Evidence
      /\ ~run.before["evidence"].adjudicated
      /\ manifest # None => run.before = manifest.output
      /\ sums = run.before /\ dir["evidence"] = sums["evidence"]
  BY <1>2, <1>3 DEF IInv, RulingKnows
<1>5. /\ run' = [plan |-> Tail(run.plan), held |-> run.held, hashed |-> run.hashed,
                 before |-> run.before, package |-> run.package]
      /\ run'.before = run.before /\ run'.plan = UpdatePlan
  BY <1>1, <1>2, RulingGoes, RulingPlansAre
<1>6. /\ Ruled(dir["evidence"]) \in Evidence /\ "evidence" \in Names
      /\ Ruled(dir["evidence"]) \in Contents
  BY <1>4, RulingIs DEF Names, Contents
<1>7. /\ IsDirectory(Put("evidence", Ruled(dir["evidence"])))
      /\ DOMAIN Put("evidence", Ruled(dir["evidence"])) = DOMAIN dir \cup {"evidence"}
      /\ Put("evidence", Ruled(dir["evidence"]))["evidence"] = Ruled(dir["evidence"])
  BY <1>1, <1>6, Uninteresting, PutIs
<1>8. TypeOK'
  BY <1>1, <1>5, <1>7, RulingPlansAre DEF TypeOK, IsDirectory
<1>9. RulingKnows'
  BY <1>1, <1>4, <1>5, <1>7 DEF RulingKnows, IsDirectory
<1>10. FetchKnows'
  BY <1>2, <1>5 DEF FetchKnows, Fetching, Adjudicating
<1>. QED
  BY <1>1, <1>8, <1>9, <1>10
     DEF IInv, SumsValidated, ManifestDescribesFiles, SumsInCustody, RuledOnly, RulingLinks

(* update_snapshot_entry in a ruling. *)
LEMMA UpdatedIs ==
    ASSUME IInv, At("update")
    PROVE  /\ Adjudicating /\ source = "minedex" /\ sums # None /\ run.plan = UpdatePlan
           /\ sums = run.before /\ "evidence" \in DOMAIN sums
           /\ sums["evidence"] \in Evidence /\ ~sums["evidence"].adjudicated
           /\ manifest # None => sums = manifest.output
           /\ dir["evidence"] = Ruled(sums["evidence"])
           /\ IsDirectory(EvidenceUpdated) /\ DOMAIN EvidenceUpdated = DOMAIN sums
           /\ EvidenceUpdated = [sums EXCEPT !["evidence"] = Ruled(sums["evidence"])]
           /\ EvidenceUpdated["evidence"] = Ruled(sums["evidence"])
           /\ \A n \in DOMAIN sums \ {"evidence"} : EvidenceUpdated[n] = sums[n]
<1>1. Adjudicating /\ run.plan = UpdatePlan
  BY Whose
<1>2. run.plan # AdjudicatePlan /\ run.plan # RecordPlan
  BY <1>1, RulingPlansAre DEF Step
<1>3. /\ source = "minedex" /\ sums # None
      /\ IsDirectory(run.before)
      /\ "evidence" \in DOMAIN run.before
      /\ run.before["evidence"] \in Evidence
      /\ ~run.before["evidence"].adjudicated
      /\ manifest # None => run.before = manifest.output
      /\ sums = run.before /\ dir["evidence"] = Ruled(sums["evidence"])
  BY <1>1, <1>2 DEF IInv, RulingKnows
<1>4. Ruled(sums["evidence"]) \in Evidence /\ Ruled(sums["evidence"]) \in Contents
  BY <1>3, RulingIs DEF Contents
<1>5. EvidenceUpdated = [sums EXCEPT !["evidence"] = Ruled(sums["evidence"])]
  BY <1>3 DEF EvidenceUpdated
<1>6. sums \in [DOMAIN sums -> Contents] /\ DOMAIN sums \subseteq Names
  BY <1>3 DEF IsDirectory
<1>7. /\ DOMAIN EvidenceUpdated = DOMAIN sums
      /\ EvidenceUpdated \in [DOMAIN sums -> Contents]
      /\ EvidenceUpdated["evidence"] = Ruled(sums["evidence"])
      /\ \A n \in DOMAIN sums \ {"evidence"} : EvidenceUpdated[n] = sums[n]
  BY <1>3, <1>4, <1>5, <1>6
<1>8. IsDirectory(EvidenceUpdated)
  BY <1>4, <1>6, <1>7 DEF IsDirectory
<1>. QED
  BY <1>1, <1>3, <1>5, <1>7, <1>8

LEMMA UpdateEntryIInv ==
    ASSUME IInv, UpdateEntry
    PROVE  IInv'
<1>1. /\ At("update") /\ sums' = EvidenceUpdated /\ Goes /\ TypeOK
      /\ UNCHANGED <<source, upstream, dir, manifest, ruling, faults>>
  BY DEF UpdateEntry, IInv
<1>2. /\ Adjudicating /\ source = "minedex" /\ sums # None /\ run.plan = UpdatePlan
      /\ sums = run.before /\ "evidence" \in DOMAIN sums
      /\ sums["evidence"] \in Evidence /\ ~sums["evidence"].adjudicated
      /\ manifest # None => sums = manifest.output
  BY <1>1, UpdatedIs
<1>3. /\ IsDirectory(EvidenceUpdated) /\ DOMAIN EvidenceUpdated = DOMAIN sums
      /\ EvidenceUpdated = [sums EXCEPT !["evidence"] = Ruled(sums["evidence"])]
      /\ EvidenceUpdated["evidence"] = Ruled(sums["evidence"])
      /\ \A n \in DOMAIN sums \ {"evidence"} : EvidenceUpdated[n] = sums[n]
  BY <1>1, UpdatedIs
<1>4. /\ run' = [plan |-> Tail(run.plan), held |-> run.held, hashed |-> run.hashed,
                 before |-> run.before, package |-> run.package]
      /\ run'.before = run.before /\ run'.plan = RecordPlan
  BY <1>1, <1>2, RulingGoes, RulingPlansAre
<1>5. sums' # None /\ IsDirectory(sums')
  BY <1>1, <1>3, DirectoryIsSome
<1>6. TypeOK'
  BY <1>1, <1>2, <1>3, <1>4, <1>5, RulingPlansAre DEF TypeOK, IsDirectory
<1>7. RulingKnows'
  <2>1. IsDirectory(run'.before)
    BY <1>1, <1>2, <1>4 DEF TypeOK
  <2>2. sums' = [run'.before EXCEPT !["evidence"] = Ruled(run'.before["evidence"])]
    BY <1>1, <1>2, <1>3, <1>4
  <2>. QED
    BY <1>1, <1>2, <1>4, <1>5, <2>1, <2>2 DEF RulingKnows, IsDirectory
<1>8. FetchKnows'
  BY <1>2, <1>4 DEF FetchKnows, Fetching, Adjudicating
<1>9. SumsValidated'
  <2>1. Required[source] = {"csv"}
    BY <1>2 DEF Required
  <2>. QED
    BY <1>1, <1>2, <1>3, <2>1 DEF IInv, SumsValidated
<1>10. RuledOnly' /\ RulingLinks' /\ SumsInCustody' /\ ManifestDescribesFiles'
  <2>1. RuledOnly'
    BY <1>1, <1>2, <1>3 DEF RuledOnly
  <2>2. RulingLinks' /\ SumsInCustody' /\ ManifestDescribesFiles'
    BY <1>1, <1>5 DEF IInv, RulingLinks, SumsInCustody, ManifestDescribesFiles
  <2>. QED
    BY <2>1, <2>2
<1>. QED
  BY <1>6, <1>7, <1>8, <1>9, <1>10 DEF IInv

LEMMA RecordRulingIInv ==
    ASSUME IInv, RecordRuling
    PROVE  IInv'
<1>1. /\ At("record") /\ run' = None /\ TypeOK
      /\ ruling' = IF ruling # None THEN ruling
                   ELSE [before |-> run.before, after |-> sums,
                         supersedes |-> IF manifest = None THEN None ELSE manifest.output]
      /\ UNCHANGED <<source, upstream, dir, sums, manifest, faults>>
  BY DEF RecordRuling, IInv, Refuses
<1>2. Adjudicating /\ run.plan = RecordPlan
  BY <1>1, Whose
<1>3. run.plan # AdjudicatePlan /\ run.plan # UpdatePlan
  BY <1>2, RulingPlansAre DEF Step
<1>4. /\ sums # None /\ "evidence" \in DOMAIN run.before
      /\ manifest # None => run.before = manifest.output
      /\ sums = [run.before EXCEPT !["evidence"] = Ruled(run.before["evidence"])]
  BY <1>2, <1>3 DEF IInv, RulingKnows
<1>5. IsDirectory(sums) /\ "evidence" \in DOMAIN sums
  BY <1>1, <1>4 DEF TypeOK
<1>6. CASE ruling # None
  <2>1. ruling' = ruling
    BY <1>1, <1>6
  <2>2. faults' \in FaultsType /\ upstream' \in Revisions
    BY <1>1, FaultsOK, Uninteresting
  <2>. QED
    BY <1>1, <2>1, <2>2, OutsideIInv
<1>7. CASE ruling = None
  <2>1. /\ ruling'.before = run.before /\ ruling'.after = sums
        /\ manifest # None => ruling'.supersedes = manifest.output
    BY <1>1, <1>7
  <2>2. TypeOK'
    BY <1>1, <1>5, <2>1 DEF TypeOK, IsDirectory
  <2>3. RulingLinks'
    BY <1>1, <1>4, <2>1 DEF RulingLinks
  <2>. QED
    BY <1>1, <1>4, <2>2, <2>3
       DEF IInv, FetchKnows, RulingKnows, Fetching, Adjudicating, SumsValidated,
           ManifestDescribesFiles, SumsInCustody, RuledOnly
<1>. QED
  BY <1>6, <1>7

-----------------------------------------------------------------------------
(* Deaths, edits and the operator. *)

(* Files change, and none goes, while no command is left running. *)
LEMMA DirectoryIInv ==
    ASSUME IInv, run' = None, UNCHANGED <<source, upstream, sums, manifest, ruling>>,
           IsDirectory(dir)', DOMAIN dir \subseteq DOMAIN dir', faults' \in FaultsType
    PROVE  IInv'
<1>1. TypeOK'
  BY DEF IInv, TypeOK, IsDirectory, FaultsType
<1>. QED
  BY <1>1 DEF IInv, FetchKnows, RulingKnows, Fetching, Adjudicating, SumsValidated,
              ManifestDescribesFiles, SumsInCustody, RuledOnly, RulingLinks

(* What a death may leave. *)
LEMMA CrashIs ==
    ASSUME IInv, Crash
    PROVE  /\ run # None /\ run' = None /\ faults' \in FaultsType
           /\ UNCHANGED <<source, upstream, manifest, ruling>>
           /\ \/ UNCHANGED <<dir, sums>>
              \/ /\ At("rule") /\ UNCHANGED sums
                 /\ dir' = Put("evidence", Broken)
              \/ /\ UNCHANGED sums /\ sums = None /\ manifest = None /\ ruling = None
                 /\ IsDirectory(dir)'
              \/ /\ At("finalize") /\ UNCHANGED dir
                 /\ \E lines \in SUBSET DOMAIN dir : sums' = Restrict(dir, lines)
              \/ /\ At("update") /\ UNCHANGED dir
                 /\ \E lines \in SUBSET DOMAIN sums : sums' = Restrict(EvidenceUpdated, lines)
<1>1. /\ run # None /\ run' = None /\ TypeOK
      /\ faults' = [faults EXCEPT !.crash = @ + 1]
      /\ UNCHANGED <<source, upstream, manifest, ruling>>
  BY DEF Crash, IInv
<1>2. faults' \in FaultsType /\ IsDirectory(dir)
  BY <1>1, FaultsOK, Uninteresting
<1>3. CASE UNCHANGED <<dir, sums>>
  BY <1>1, <1>2, <1>3
<1>4. CASE /\ Head(run.plan).do \in {"download", "write", "page", "rule"}
                \/ (At("stage") /\ "gpkg" \notin DOMAIN dir)
           /\ dir' = Put(File, Broken)
           /\ UNCHANGED sums
  <2>1. PICK do : do = Head(run.plan).do /\ do \in {"download", "write", "page", "rule", "stage"}
    BY <1>4 DEF At
  <2>2. At(do)
    BY <1>1, <2>1 DEF At
  <2>3. CASE do = "rule"
    <3>1. run.plan = AdjudicatePlan
      BY <2>2, <2>3, Whose
    <3>2. File = "evidence"
      BY <3>1, RulingPlansAre DEF File, Step
    <3>. QED
      BY <1>1, <1>2, <1>4, <2>2, <2>3, <3>2
  <2>4. CASE do # "rule"
    <3>1. /\ Fetching /\ run.plan[1].do = do /\ Head(run.plan) = run.plan[1]
          /\ run.plan[1] \in Steps
      BY <2>1, <2>2, <2>4, Whose
    <3>2. sums = None /\ manifest = None /\ ruling = None
      BY <2>1, <3>1, NothingYet
    <3>3. File \in Names
      <4>1. PICK step \in Steps : step = run.plan[1] /\ step.do = do /\ File = step.file
        BY <3>1 DEF File
      <4>2. CASE do = "stage"
        BY <4>1, <4>2, StepsAre DEF Names
      <4>3. CASE do = "page"
        BY <4>1, <4>3, StepsAre DEF Names
      <4>4. CASE do \in {"write", "download"}
        BY <4>1, <4>4, StepsAre
      <4>. QED
        BY <2>1, <2>4, <4>2, <4>3, <4>4
    <3>4. IsDirectory(Put(File, Broken))
      BY <1>2, <3>3, PutIs DEF Contents
    <3>5. IsDirectory(dir)'
      BY <1>4, <3>4 DEF IsDirectory
    <3>. QED
      BY <1>1, <1>2, <1>4, <3>2, <3>5
  <2>. QED
    BY <2>3, <2>4
<1>5. CASE /\ \E whole \in SumsWritten : \E lines \in SUBSET DOMAIN whole :
                  sums' = Restrict(whole, lines)
           /\ UNCHANGED dir
  <2>1. CASE At("finalize")
    <3>1. SumsWritten = {dir}
      BY <2>1 DEF SumsWritten
    <3>2. \E lines \in SUBSET DOMAIN dir : sums' = Restrict(dir, lines)
      BY <1>5, <3>1
    <3>. QED
      BY <1>1, <1>2, <1>5, <2>1, <3>2
  <2>2. CASE ~At("finalize")
    <3>1. At("update") /\ SumsWritten = {EvidenceUpdated}
      BY <1>5, <2>2 DEF SumsWritten
    <3>2. DOMAIN EvidenceUpdated = DOMAIN sums
      BY <3>1, UpdatedIs
    <3>3. \E lines \in SUBSET DOMAIN sums : sums' = Restrict(EvidenceUpdated, lines)
      BY <1>5, <3>1, <3>2
    <3>. QED
      BY <1>1, <1>2, <1>5, <3>1, <3>3
  <2>. QED
    BY <2>1, <2>2
<1>. QED
  BY <1>3, <1>4, <1>5 DEF Crash

LEMMA CrashIInv ==
    ASSUME IInv, Crash
    PROVE  IInv'
<1>1. /\ run # None /\ run' = None /\ faults' \in FaultsType
      /\ UNCHANGED <<source, upstream, manifest, ruling>>
  BY CrashIs
<1>2. TypeOK /\ IsDirectory(dir) /\ upstream' \in Revisions /\ source \in Sources
  BY <1>1, Uninteresting DEF IInv
<1>3. CASE UNCHANGED <<dir, sums>>
  BY <1>1, <1>2, <1>3, OutsideIInv
<1>4. CASE At("rule") /\ UNCHANGED sums /\ dir' = Put("evidence", Broken)
  <2>1. "evidence" \in Names /\ Broken \in Contents
    BY DEF Names, Contents
  <2>2. /\ IsDirectory(Put("evidence", Broken))
        /\ DOMAIN Put("evidence", Broken) = DOMAIN dir \cup {"evidence"}
    BY <1>2, <2>1, PutIs
  <2>3. IsDirectory(dir)' /\ DOMAIN dir \subseteq DOMAIN dir'
    BY <1>4, <2>2 DEF IsDirectory
  <2>. QED
    BY <1>1, <1>4, <2>3, DirectoryIInv
<1>5. CASE /\ UNCHANGED sums /\ sums = None /\ manifest = None /\ ruling = None
           /\ IsDirectory(dir)'
  BY <1>1, <1>2, <1>5, OpenIInv
<1>6. CASE /\ At("finalize") /\ UNCHANGED dir
           /\ \E lines \in SUBSET DOMAIN dir : sums' = Restrict(dir, lines)
  <2>1. PICK lines \in SUBSET DOMAIN dir : sums' = Restrict(dir, lines)
    BY <1>6
  <2>2. /\ IsDirectory(sums') /\ DOMAIN sums' = lines
        /\ \A n \in lines : sums'[n] = dir[n]
    BY <1>2, <2>1, RestrictIs
  <2>3. sums' # None
    BY <2>2, DirectoryIsSome
  <2>4. /\ manifest = None /\ ruling = None
        /\ \A n \in Required[source] \cap DOMAIN dir : dir[n] # Broken
        /\ source = "minedex" => dir["shp"] = dir["csv"]
        /\ source = "dea" =>
              \E r \in Revisions : \A n \in Catalogue(r) : n \in DOMAIN dir /\ dir[n] = r
    <3>1. PICK r : r = run.held
      OBVIOUS
    <3>2. source = "dea" =>
             r \in Revisions /\ \A n \in Catalogue(r) : n \in DOMAIN dir /\ dir[n] = r
      BY <1>6, <3>1, FinalizedIs
    <3>. QED
      BY <1>6, <3>2, FinalizedIs
  <2>5. TypeOK'
    BY <1>1, <1>2, <1>6, <2>2, <2>4 DEF TypeOK, IsDirectory, FaultsType
  <2>6. SumsValidated'
    BY <1>1, <2>2, <2>4 DEF SumsValidated
  <2>. QED
    BY <1>1, <2>3, <2>4, <2>5, <2>6
       DEF IInv, FetchKnows, RulingKnows, Fetching, Adjudicating,
           ManifestDescribesFiles, SumsInCustody, RuledOnly, RulingLinks
<1>7. CASE /\ At("update") /\ UNCHANGED dir
           /\ \E lines \in SUBSET DOMAIN sums : sums' = Restrict(EvidenceUpdated, lines)
  <2>1. PICK lines \in SUBSET DOMAIN sums : sums' = Restrict(EvidenceUpdated, lines)
    BY <1>7
  <2>2. /\ source = "minedex" /\ sums # None
        /\ sums["evidence"] \in Evidence /\ ~sums["evidence"].adjudicated
        /\ manifest # None => sums = manifest.output
    BY <1>7, UpdatedIs
  <2>3. /\ IsDirectory(EvidenceUpdated) /\ DOMAIN EvidenceUpdated = DOMAIN sums
        /\ EvidenceUpdated["evidence"] = Ruled(sums["evidence"])
        /\ \A n \in DOMAIN sums \ {"evidence"} : EvidenceUpdated[n] = sums[n]
    BY <1>7, UpdatedIs
  <2>4. /\ IsDirectory(sums') /\ DOMAIN sums' = lines
        /\ \A n \in lines : sums'[n] = EvidenceUpdated[n]
    BY <2>1, <2>3, RestrictIs
  <2>5. sums' # None
    BY <2>4, DirectoryIsSome
  <2>6. TypeOK'
    BY <1>1, <1>2, <1>7, <2>2, <2>4 DEF TypeOK, IsDirectory, FaultsType
  <2>7. SumsValidated'
    <3>1. Required[source] = {"csv"}
      BY <2>2 DEF Required
    <3>2. \A n \in lines \ {"evidence"} : n \in DOMAIN sums /\ sums'[n] = sums[n]
      BY <2>3, <2>4
    <3>3. /\ "csv" \in DOMAIN sums => sums["csv"] # Broken
          /\ {"shp", "csv"} \subseteq DOMAIN sums => sums["shp"] = sums["csv"]
      BY <2>2, <3>1 DEF IInv, SumsValidated
    <3>4. /\ "csv" \in lines => sums'["csv"] # Broken
          /\ {"shp", "csv"} \subseteq lines => sums'["shp"] = sums'["csv"]
      BY <3>2, <3>3
    <3>. QED
      BY <1>1, <2>2, <2>4, <3>1, <3>4 DEF SumsValidated
  <2>8. RuledOnly'
    BY <1>1, <2>2, <2>3, <2>4 DEF RuledOnly
  <2>. QED
    BY <1>1, <2>5, <2>6, <2>7, <2>8
       DEF IInv, FetchKnows, RulingKnows, Fetching, Adjudicating,
           ManifestDescribesFiles, SumsInCustody, RulingLinks
<1>. QED
  BY <1>3, <1>4, <1>5, <1>6, <1>7, CrashIs

LEMMA PublishIInv ==
    ASSUME IInv, Publish
    PROVE  IInv'
<1>1. /\ \E revision \in Revisions \ {upstream} : upstream' = revision
      /\ faults' = [faults EXCEPT !.publish = @ + 1]
      /\ UNCHANGED <<source, dir, sums, manifest, ruling, run>> /\ TypeOK
  BY DEF Publish, IInv
<1>2. faults' \in FaultsType /\ upstream' \in Revisions
  BY <1>1, FaultsOK
<1>. QED
  BY <1>1, <1>2, OutsideIInv

LEMMA EditIInv ==
    ASSUME IInv, NEW n \in Names, Edit(n)
    PROVE  IInv' /\ faults'.edit # faults.edit
<1>1. /\ run' = None /\ TypeOK
      /\ dir' \in {Put(n, content) : content \in (IF n = "evidence" THEN Edited ELSE {Broken})}
      /\ faults' = [faults EXCEPT !.edit = @ + 1]
      /\ UNCHANGED <<source, upstream, sums, manifest, ruling>>
  BY DEF Edit, IInv
<1>2. faults' \in FaultsType /\ faults'.edit # faults.edit /\ IsDirectory(dir)
  BY <1>1, FaultsOK, Uninteresting
<1>3. PICK content : /\ dir' = Put(n, content) /\ content \in Contents
                     /\ n = "evidence" => content \in Evidence \cup {Broken}
  BY <1>1 DEF Edited, Contents
<1>4. IsDirectory(Put(n, content)) /\ DOMAIN Put(n, content) = DOMAIN dir \cup {n}
  BY <1>2, <1>3, PutIs
<1>5. IsDirectory(dir)' /\ DOMAIN dir \subseteq DOMAIN dir'
  BY <1>3, <1>4 DEF IsDirectory
<1>. QED
  BY <1>1, <1>2, <1>5, DirectoryIInv

LEMMA OperatorIInv ==
    ASSUME IInv, MoveAside \/ DeleteRefused
    PROVE  IInv'
<1>1. /\ run' = None /\ UNCHANGED <<source, upstream, faults>> /\ TypeOK
  BY DEF MoveAside, DeleteRefused, IInv
<1>2. faults' \in FaultsType /\ IsDirectory(dir) /\ upstream' \in Revisions
  BY <1>1, FaultsOK, Uninteresting
<1>3. CASE MoveAside
  <2>1. /\ dir' = [n \in {} |-> Text]
        /\ sums' = None /\ manifest' = None /\ ruling' = None
    BY <1>3 DEF MoveAside
  <2>2. IsDirectory(dir)'
    BY <2>1 DEF IsDirectory
  <2>. QED
    BY <1>1, <1>2, <2>1, <2>2, OpenIInv
<1>4. CASE DeleteRefused
  <2>1. /\ dir' = Restrict(dir, DOMAIN dir \ {"gpkg"}) /\ sums = None
        /\ UNCHANGED <<sums, manifest, ruling>>
    BY <1>4 DEF DeleteRefused
  <2>2. manifest = None /\ ruling = None
    BY <2>1 DEF IInv, SumsInCustody
  <2>3. IsDirectory(Restrict(dir, DOMAIN dir \ {"gpkg"}))
    BY <1>2, RestrictIs
  <2>4. IsDirectory(dir)'
    BY <2>1, <2>3 DEF IsDirectory
  <2>. QED
    BY <1>1, <1>2, <2>1, <2>2, <2>4, OpenIInv
<1>. QED
  BY <1>3, <1>4

-----------------------------------------------------------------------------
(* The invariant. *)

LEMMA InitIInv == Init => IInv
<1> SUFFICES ASSUME Init
             PROVE  IInv
  OBVIOUS
<1>1. IsDirectory(dir)
  BY DEF Init, IsDirectory
<1>2. TypeOK
  BY <1>1 DEF Init, TypeOK
<1>. QED
  BY <1>2 DEF Init, IInv, FetchKnows, RulingKnows, Fetching, Adjudicating, SumsValidated,
              ManifestDescribesFiles, SumsInCustody, RuledOnly, RulingLinks

LEMMA StutterIInv ==
    ASSUME IInv, UNCHANGED vars
    PROVE  IInv'
<1>1. /\ UNCHANGED <<source, dir, sums, manifest, ruling>> /\ UNCHANGED run
      /\ upstream' \in Revisions /\ faults' \in FaultsType
  BY DEF vars, IInv, TypeOK, FaultsType
<1>. QED
  BY <1>1, OutsideIInv

LEMMA FetchIInv ==
    ASSUME IInv, Fetch
    PROVE  IInv'
<1>1. ASSUME NEW content, Download(content) \/ FetchInMemory(content)
      PROVE  IInv'
  BY <1>1, DownloadIInv, FetchInMemoryIInv
<1>2. ASSUME NEW marked, CapturePage(marked)
      PROVE  IInv'
  BY <1>2, CapturePageIInv
<1>. QED
  BY <1>1, <1>2, DownloadFailsIInv, FetchFailsIInv, WriteFileIInv, CaptureEvidenceIInv,
     StageCopyIInv, HashSourceIInv, ValidateIInv, RefuseUnexpectedIInv, FinalizeIInv,
     SealSnapshotIInv DEF Fetch

LEMMA NextIInv == IInv /\ [Next]_vars => IInv'
<1> SUFFICES ASSUME IInv, [Next]_vars
             PROVE  IInv'
  OBVIOUS
<1>1. ASSUME NEW n \in Names, Edit(n)
      PROVE  IInv'
  BY <1>1, EditIInv
<1>. QED
  BY <1>1, StutterIInv, BeginIInv, FetchIInv, AdjudicateIInv, RuleIInv, UpdateEntryIInv,
     RecordRulingIInv, CrashIInv, PublishIInv, OperatorIInv DEF Next, Adjudication

(* A step that neither edits a file nor moves the directory aside changes a *)
(* finalized snapshot only as a ruling does.                                *)
LEMMA FinalizedChanges ==
    ASSUME IInv, Next, sums # None, sums' # None
    PROVE  /\ manifest # None => manifest' = manifest
           /\ ruling # None => ruling' = ruling
           /\ \/ dir' = dir
              \/ faults'.edit # faults.edit
              \/ At("rule") /\ \A n \in DOMAIN dir \ {"evidence"} : dir'[n] = dir[n]
           /\ \/ sums' = sums
              \/ At("update") /\ ~sums["evidence"].adjudicated
<1>1. ASSUME NEW do, At(do), do \notin {"seal", "rule", "update", "record"}
      PROVE  FALSE
  <2>1. Fetching /\ run.plan[1].do = do
    BY <1>1, Whose
  <2>. QED
    BY <1>1, <2>1, NothingYet
<1>2. IsDirectory(dir) /\ "evidence" \in Names
  BY DEF IInv, TypeOK, Names
<1>3. ~Fetch \/ SealSnapshot
  BY <1>1 DEF Fetch, Download, DownloadFails, FetchInMemory, FetchFails, WriteFile,
              CaptureEvidence, StageCopy, HashSource, CapturePage, Validate,
              RefuseUnexpected, Finalize
<1>4. CASE SealSnapshot
  <2>1. Fetching /\ Rest(source, run.plan) /\ run.plan[1].do = "seal"
    BY <1>4, Whose DEF SealSnapshot
  <2>2. manifest = None
    BY <2>1 DEF IInv, FetchKnows
  <2>. QED
    BY <1>4, <2>2 DEF SealSnapshot
<1>5. CASE Rule
  <2>1. At("rule") /\ dir' = Put("evidence", Ruled(dir["evidence"]))
        /\ UNCHANGED <<sums, manifest, ruling>>
    BY <1>5 DEF Rule
  <2>2. \A n \in DOMAIN dir \ {"evidence"} : Put("evidence", Ruled(dir["evidence"]))[n] = dir[n]
    BY DEF Put
  <2>. QED
    BY <2>1, <2>2
<1>6. CASE UpdateEntry
  <2>1. At("update") /\ UNCHANGED <<dir, manifest, ruling>>
    BY <1>6 DEF UpdateEntry
  <2>2. ~sums["evidence"].adjudicated
    BY <2>1, UpdatedIs
  <2>. QED
    BY <2>1, <2>2
<1>7. CASE RecordRuling
  BY <1>7 DEF RecordRuling
<1>8. CASE Crash
  <2>1. /\ UNCHANGED <<manifest, ruling>>
        /\ \/ UNCHANGED <<dir, sums>>
           \/ At("rule") /\ UNCHANGED sums /\ dir' = Put("evidence", Broken)
           \/ UNCHANGED sums /\ sums = None
           \/ At("finalize")
           \/ At("update") /\ UNCHANGED dir
    BY <1>8, CrashIs
  <2>2. ~At("finalize")
    BY <1>1
  <2>3. \A n \in DOMAIN dir \ {"evidence"} : Put("evidence", Broken)[n] = dir[n]
    BY DEF Put
  <2>4. At("update") => ~sums["evidence"].adjudicated
    BY UpdatedIs
  <2>. QED
    BY <2>1, <2>2, <2>3, <2>4
<1>9. ASSUME NEW n \in Names, Edit(n)
      PROVE  faults'.edit # faults.edit /\ UNCHANGED <<sums, manifest, ruling>>
  BY <1>9, EditIInv DEF Edit
<1>10. ~Begin /\ ~MoveAside /\ ~DeleteRefused
  BY DEF Begin, NotFinalized, MoveAside, DeleteRefused
<1>11. CASE Adjudicate \/ Publish
  BY <1>11 DEF Adjudicate, Publish
<1>. QED
  BY <1>3, <1>4, <1>5, <1>6, <1>7, <1>8, <1>9, <1>10, <1>11 DEF Next, Adjudication

-----------------------------------------------------------------------------
(* The inductive invariant holds in every reachable state of the fetches    *)
(* and of adjudicate-minedex-licence.                                       *)
THEOREM SnapshotInvariance == Spec => []IInv
<1>. QED
  BY InitIInv, NextIInv, PTL DEF Spec

(* The directory, SHA256SUMS.txt, both manifests and the command in         *)
(* progress keep their types; what is hashed is there.                      *)
THEOREM SnapshotTypes == Spec => []TypeOK
BY SnapshotInvariance, PTL DEF IInv

(* What _verify_snapshot_or_refuse accepts was validated by its fetch, the  *)
(* pages of a catalogue that its summary counts included.                   *)
THEOREM AcceptedWasValidated == Spec => []AcceptedIsValidated
<1>1. ASSUME IInv, Verifies
      PROVE  /\ \A n \in Required[source] : dir[n] # Broken
             /\ source = "minedex" /\ "shp" \in DOMAIN sums => sums["shp"] = sums["csv"]
             /\ source = "dea" =>
                   \A n \in Catalogue(dir["summary"]) :
                       n \in DOMAIN sums \/ manifest # None =>
                           n \in DOMAIN dir /\ dir[n] = dir["summary"]
  <2>1. /\ sums # None /\ Required[source] \subseteq DOMAIN sums
        /\ \A n \in DOMAIN sums : n \in DOMAIN dir /\ dir[n] = sums[n]
    BY <1>1 DEF Verifies, EntriesMatch
  <2>2. source = "minedex" => "csv" \in DOMAIN sums
    BY <2>1 DEF Required
  <2>3. ASSUME source = "dea", NEW n \in Catalogue(dir["summary"]),
               n \in DOMAIN sums \/ manifest # None
        PROVE  n \in DOMAIN dir /\ dir[n] = dir["summary"]
    <3>1. PICK r \in Revisions : \A m \in Catalogue(r) :
             /\ m \in DOMAIN sums => sums[m] = r
             /\ manifest # None => m \in DOMAIN sums
      BY <1>1, <2>1, <2>3 DEF IInv, SumsValidated
    <3>2. "summary" \in DOMAIN sums /\ "summary" \in Catalogue(r)
      BY <2>1, <2>3, <3>1, CatalogueIs DEF Required
    <3>3. dir["summary"] = r
      BY <2>1, <3>1, <3>2
    <3>. QED
      BY <2>1, <2>3, <3>1, <3>3
  <2>4. /\ \A n \in Required[source] : dir[n] # Broken
        /\ source = "minedex" /\ "shp" \in DOMAIN sums => sums["shp"] = sums["csv"]
    BY <1>1, <2>1, <2>2 DEF IInv, SumsValidated
  <2>. QED
    BY <2>3, <2>4
<1>2. IInv => AcceptedIsValidated
  BY <1>1 DEF AcceptedIsValidated
<1>. QED
  BY <1>2, SnapshotInvariance, PTL

(* The run manifest of a fetch gives the digests SHA256SUMS.txt gave when   *)
(* it was written.                                                          *)
THEOREM ManifestIsOfItsFiles == Spec => []ManifestDescribesFiles
BY SnapshotInvariance, PTL DEF IInv

(* minedex_redistribution_allowed opens on the evidence that was finalized, *)
(* and on no other.                                                         *)
THEOREM GateIsOfFinalizedEvidence == Spec => []GateOpensOnFinalizedEvidence
<1>1. ASSUME IInv, RedistributionAllowed, manifest # None
      PROVE  /\ "evidence" \in DOMAIN manifest.output
             /\ manifest.output["evidence"] = dir["evidence"]
  <2>1. /\ dir["evidence"].contrary = "false"
        /\ "evidence" \in DOMAIN sums /\ dir["evidence"] = sums["evidence"]
    BY <1>1 DEF RedistributionAllowed, EvidenceIsHashed, Hashes
  <2>2. CASE sums = manifest.output
    BY <2>1, <2>2
  <2>3. CASE sums # manifest.output
    <3>1. /\ manifest.output["evidence"] \in Evidence
          /\ sums["evidence"] = Ruled(manifest.output["evidence"])
      BY <1>1, <2>1, <2>3 DEF IInv, RuledOnly
    <3>2. sums["evidence"].contrary = "true"
      BY <3>1, RulingIs
    <3>. QED
      BY <2>1, <3>2
  <2>. QED
    BY <2>2, <2>3
<1>2. IInv => GateOpensOnFinalizedEvidence
  BY <1>1 DEF GateOpensOnFinalizedEvidence
<1>. QED
  BY <1>2, SnapshotInvariance, PTL

(* SHA256SUMS.txt differs from the fetch manifest by one ruling at most,    *)
(* and a recorded ruling links what it replaced.                            *)
THEOREM CustodyIsKept == Spec => []CustodyIsRecorded
<1>1. ASSUME IInv
      PROVE  CustodyIsRecorded
  <2>1. ASSUME manifest # None, NEW n \in DOMAIN sums
        PROVE  \/ sums[n] = manifest.output[n]
               \/ n = "evidence" /\ sums[n] = Ruled(manifest.output[n])
    BY <1>1, <2>1 DEF IInv, RuledOnly
  <2>. QED
    BY <1>1, <2>1 DEF IInv, RulingLinks, CustodyIsRecorded
<1>. QED
  BY <1>1, SnapshotInvariance, PTL

(* No command changes a finalized snapshot but the ruling, and that once.   *)
THEOREM FinalizedStaysFrozen == Spec => FinalizedIsFrozen
<1>1. IInv /\ [Next]_vars =>
         [sums # None /\ sums' # None =>
             /\ manifest # None => manifest' = manifest
             /\ ruling # None => ruling' = ruling
             /\ \/ dir' = dir
                \/ faults'.edit # faults.edit
                \/ At("rule") /\ \A n \in DOMAIN dir \ {"evidence"} : dir'[n] = dir[n]
             /\ \/ sums' = sums
                \/ At("update") /\ ~sums["evidence"].adjudicated]_vars
  BY FinalizedChanges
<1>. QED
  BY <1>1, SnapshotInvariance, PTL DEF Spec, FinalizedIsFrozen

=============================================================================
