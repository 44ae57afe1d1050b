--------------------------- MODULE EligibilityChain ---------------------------
(***************************************************************************)
(* The commands build-register, build-crosswalk, build-d3-inputs,          *)
(* derive-d3-threshold and apply-d3-threshold on one data root, each       *)
(* reading the latest table of the kinds it needs, over MINEDEX snapshots  *)
(* that may be fetched again between any two of them; one Maus extract and *)
(* one frozen protocol.  How the tables are written, sealed and gated is   *)
(* CuratedLineage's subject: here it is what their rows say.               *)
(***************************************************************************)
EXTENDS ThresholdRule

CONSTANTS
    Worlds,         \* [sites, ground, evidence]: what the chain starts from
    Republished,    \* the Sites.csv contents a later fetch may bring
    MaxSnapshots    \* bound: MINEDEX snapshots fetched

(* The contents of Sites.csv a run of the chain can have read.              *)
Snapshots == {w.sites : w \in Worlds} \cup Republished

IsEvidence(e) ==
    \A s \in Strata : \A c \in DOMAIN e[s] :
        c \in Collections /\ e[s][c] \in [Supports -> [Criteria -> Outcomes]]

ASSUME WorldsAssumption ==
    /\ \A w \in Worlds : w.ground \in [Polygons -> Grounds] /\ IsEvidence(w.evidence)
    /\ \A rows \in Snapshots :
          /\ IsFiniteSet(DOMAIN rows)
          /\ \A k \in DOMAIN rows : rows[k].place \in Places

VARIABLES
    ground,         \* [Polygons -> Grounds]
    evidence,       \* what simulating the selected footprints gives
    minedex,        \* the MINEDEX snapshots fetched, a sequence
    register,       \* the latest register, or None
    crosswalk,      \* the latest crosswalk, or None
    inputs,         \* the latest d3-inputs, or None
    threshold,      \* the latest d3-threshold, or None
    eligible        \* the latest register with eligibility, or None

vars == <<ground, evidence, minedex, register, crosswalk, inputs, threshold, eligible>>

Init ==
    /\ \E w \in Worlds :
          /\ ground = w.ground
          /\ evidence = w.evidence
          /\ minedex = <<w.sites>>
    /\ register = None /\ crosswalk = None /\ inputs = None
    /\ threshold = None /\ eligible = None

FetchMinedex ==
    /\ Len(minedex) < MaxSnapshots
    /\ \E sites \in Republished : minedex' = Append(minedex, sites)
    /\ UNCHANGED <<ground, evidence, register, crosswalk, inputs, threshold, eligible>>

(* One row per record of Sites.csv, in its order: none is dropped, whatever *)
(* it lacks, and none merged.                                               *)
BuildRegister ==
    /\ register' = [rows |-> minedex[Len(minedex)], minedex |-> Len(minedex)]
    /\ UNCHANGED <<ground, evidence, minedex, crosswalk, inputs, threshold, eligible>>

BuildSiteCrosswalk ==
    /\ register # None
    /\ LET links == BuildCrosswalk(register.rows) IN
          /\ Reconciles(links)
          /\ crosswalk' = [links |-> links, minedex |-> register.minedex]
    /\ UNCHANGED <<ground, evidence, minedex, register, inputs, threshold, eligible>>

BuildInputs ==
    /\ register # None /\ crosswalk # None
    /\ ~InputsRefused(ground, register.rows, crosswalk.links)
    /\ inputs' = [footprints |-> FootprintSupport(ground, register.rows, crosswalk.links),
                  minedex    |-> crosswalk.minedex]
    /\ UNCHANGED <<ground, evidence, minedex, register, crosswalk, threshold, eligible>>

(* Refused without an adequate stratum.                                     *)
DeriveThreshold ==
    /\ inputs # None
    /\ AdequateStrata(inputs.footprints) # {}
    /\ threshold' = [result |-> EvaluateThreshold(inputs.footprints, evidence),
                     footprints |-> inputs.footprints]
    /\ UNCHANGED <<ground, evidence, minedex, register, crosswalk, inputs, eligible>>

-----------------------------------------------------------------------------
(* assign_trajectory_eligibility.                                           *)

(* The link a site is judged by: of several, the first maus_id.             *)
Representative(links, id) ==
    LET own == {l \in links : l.site = id} IN
    CHOOSE l \in own : \A m \in own : l.maus = Min({l.maus, m.maus})

Verdict(status, support, judged, px, forced) ==
    [status   |-> status,
     support  |-> support,
     eligible |-> IF judged THEN status = "eligible" ELSE None,
     px       |-> IF judged THEN px ELSE None,
     forced   |-> IF judged THEN forced ELSE None]

Assign(row, links, footprints, px, passed, forced) ==
    LET linked == \E l \in links : l.site = row.id /\ l.maus # NoPolygon
        link == Representative(links, row.id)
        support == IF linked /\ link.maus \in DOMAIN footprints
                   THEN footprints[link.maus].support ELSE None
        unjudged(status) == Verdict(status, support, FALSE, px, forced)
        judged(status) == Verdict(status, support, TRUE, px, forced) IN
    CASE ~linked -> unjudged("no_usable_footprint")
      [] linked /\ link.confidence # "high" -> unjudged("crosswalk_not_high_confidence")
      [] linked /\ link.confidence = "high" /\ support = None -> unjudged("no_usable_footprint")
      [] OTHER ->
            CASE ~passed /\ ~forced -> judged("threshold_not_computed")
              [] (passed \/ forced) /\ support < px -> judged("insufficient_pixel_support")
              [] OTHER -> judged("eligible")

Applied(result) == IF result.passed THEN result.nStar ELSE FullSupport

(* Forcing a threshold whose criteria passed is refused.                    *)
ApplyThreshold(forced) ==
    /\ register # None /\ crosswalk # None /\ inputs # None /\ threshold # None
    /\ ~(forced /\ threshold.result.passed)
    /\ eligible' =
          [rows      |-> [k \in DOMAIN register.rows |->
                            Assign(register.rows[k], crosswalk.links, inputs.footprints,
                                   Applied(threshold.result), threshold.result.passed, forced)],
           forced    |-> forced,
           register  |-> register,
           crosswalk |-> crosswalk,
           inputs    |-> inputs,
           threshold |-> threshold]
    /\ UNCHANGED <<ground, evidence, minedex, register, crosswalk, inputs, threshold>>

Next ==
    \/ FetchMinedex
    \/ BuildRegister
    \/ BuildSiteCrosswalk
    \/ BuildInputs
    \/ DeriveThreshold
    \/ \E forced \in BOOLEAN : ApplyThreshold(forced)

Spec == Init /\ [][Next]_vars

-----------------------------------------------------------------------------
Statuses ==
    {"no_usable_footprint", "crosswalk_not_high_confidence", "threshold_not_computed",
     "insufficient_pixel_support", "eligible"}

(* The tables have their types: a support is missing or positive, never 0   *)
(* (what is not computed is not a measured zero), and years are only        *)
(* counted where a support is.                                              *)
TypeOK ==
    /\ ground \in [Polygons -> Grounds]
    /\ IsEvidence(evidence)
    /\ minedex \in Seq(Snapshots)
    /\ \A n \in DOMAIN minedex : \A k \in DOMAIN minedex[n] : minedex[n][k].place \in Places
    /\ inputs # None => \A p \in DOMAIN inputs.footprints :
          LET f == inputs.footprints[p] IN
          /\ p \in Polygons
          /\ f.stratum \in Strata \cup {None}
          /\ f.support \in (Nat \ {0}) \cup {None}
          /\ f.epoch \in Nat /\ f.full \in 0 .. f.epoch
          /\ f.support = None => f.epoch = 0
    /\ threshold # None => threshold.result.nStar \in Supports
    /\ eligible # None => \A k \in DOMAIN eligible.rows : eligible.rows[k].status \in Statuses

(* The crosswalk of any register the chain can have holds every located     *)
(* site with an id of its own, and no other, at exactly one confidence      *)
(* level with as many rows as it has candidates: so the counts by level     *)
(* reconcile with their total, and the refusal of a crosswalk whose counts  *)
(* do not is never what stops build-crosswalk.                              *)
LevelsPartitionSites ==
    register # None =>
        LET rows == register.rows
            links == BuildCrosswalk(rows)
            own(id) == {l \in links : l.site = id}
            named(id) == {k \in DOMAIN rows : rows[k].id = id} IN
        /\ {l.site : l \in links} =
              {rows[k].id : k \in {j \in DOMAIN rows :
                  /\ rows[j].id # NoId /\ rows[j].place # Nowhere
                  /\ named(rows[j].id) = {j}}}
        /\ \A l \in links :
              /\ {m.confidence : m \in own(l.site)} = {l.confidence}
              /\ Cardinality(own(l.site)) = IF l.maus = NoPolygon THEN 1 ELSE l.ambiguity
        /\ Reconciles(links)

(* n* is the smallest support below 144 pixels at which every criterion of  *)
(* every adequate stratum holds; when there is none it is 144, the criteria *)
(* are not passed, and the failures listed are those of a support below     *)
(* 144, no other of which fails fewer.                                      *)
ThresholdIsEarned ==
    threshold # None =>
        LET r == threshold.result
            below == {n \in Supports : n < FullSupport}
            adequate == {s \in Strata : \E ps \in SUBSET DOMAIN threshold.footprints :
                            /\ Cardinality(ps) = MinFootprints
                            /\ \A p \in ps : /\ threshold.footprints[p].stratum = s
                                              /\ threshold.footprints[p].full >= MinYears}
            failed(n) == FailedCells(threshold.footprints, evidence, n)
            holds(n) == \A s \in adequate :
                /\ FractionHolds(threshold.footprints, s)
                /\ \A c \in DOMAIN evidence[s], k \in Criteria : evidence[s][c][n][k] = "within"
        IN
        /\ adequate # {}
        /\ r.passed => /\ r.nStar \in below /\ holds(r.nStar) /\ r.failed = {}
                       /\ \A n \in below : holds(n) => r.nStar <= n
        /\ ~r.passed => /\ r.nStar = FullSupport
                        /\ \A n \in below : ~holds(n)
                        /\ \E n \in below : r.failed = failed(n)
                        /\ \A n \in below : Cardinality(r.failed) <= Cardinality(failed(n))

(* A site of the register is eligible exactly if, in the MINEDEX snapshot   *)
(* the crosswalk was built from, its id is its own and its point lies in a  *)
(* polygon, and the first of its polygons is a footprint of the inputs with *)
(* a usable geometry inside a region and pixels enough for the threshold,   *)
(* which passed its criteria or was forced at 144: through five commands,   *)
(* whatever rows are missing, repeated or ambiguous on the way.  The        *)
(* register may be of a later snapshot than the crosswalk, which no gate    *)
(* compares: a site that has moved or is repeated since keeps its verdict.  *)
EligibleIsEarned ==
    eligible # None =>
        LET rows == eligible.register.rows
            sites == minedex[eligible.crosswalk.minedex]
            base == minedex[eligible.inputs.minedex]
            result == eligible.threshold.result
            alone(rs, j) == rs[j].id # NoId /\ \A i \in DOMAIN rs : rs[i].id = rs[j].id => i = j
            within(rs, j) == IF rs[j].place = Nowhere THEN {} ELSE rs[j].place.inside
            earned(id) == \E j \in DOMAIN sites :
                /\ sites[j].id = id /\ alone(sites, j) /\ within(sites, j) # {}
                /\ LET p == Min(within(sites, j)) IN
                      /\ \E i \in DOMAIN base : alone(base, i) /\ p \in within(base, i)
                      /\ ground[p].usable /\ ground[p].region \in Regions
                      /\ ground[p].pixels >= Applied(result) /\ ground[p].pixels > 0 IN
        /\ eligible.forced => ~result.passed /\ result.nStar = FullSupport
        /\ \A k \in DOMAIN rows :
              /\ eligible.rows[k].status = "eligible" <=>
                    (result.passed \/ eligible.forced) /\ earned(rows[k].id)
              /\ eligible.rows[k].eligible = TRUE =>
                    /\ eligible.rows[k].px = Applied(result)
                    /\ eligible.rows[k].forced = ~result.passed
=============================================================================
