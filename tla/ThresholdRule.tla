---------------------------- MODULE ThresholdRule -----------------------------
(***************************************************************************)
(* The D3 rules (d3_protocol.py, d3_inputs.py, d3_threshold.py and the     *)
(* body of build-d3-inputs in cli.py): the pixel support of each Tier 1    *)
(* footprint and its stratum, which strata have footprints enough, and the *)
(* smallest support at which every criterion of every adequate stratum     *)
(* holds.  Measured values are kept as how they compare with their         *)
(* tolerance.                                                              *)
(***************************************************************************)
EXTENDS SiteMatching

CONSTANTS
    Regions,        \* the RDC regions, each with a shape class, which is as
                    \* fixed an attribute of a polygon; OutsideRegions apart
    OutsideRegions,
    Supports,       \* the simulated supports, in pixels
    FullSupport,    \* MIN_FULL_SUPPORT_PX, 144
    MinFootprints,  \* of an adequate stratum, 10
    MinYears,       \* of a footprint that counts, 10
    UseAllBelow,    \* footprints of a stratum up to which all are used, 30
    SelectN,        \* and how many are used from there on, 30
    HashRank,       \* the order of sha256(maus_id)
    MaxUncovered,   \* <<n, d>>: MAX_UNCOVERED_FRACTION, 5 %
    MinFraction,    \* <<n, d>>: computable_site_year_fraction_min, 90 %
    None

ASSUME ThresholdAssumption ==
    /\ Supports \subseteq Nat /\ FullSupport \in Supports
    /\ \E n \in Supports : n < FullSupport
    /\ {MinFootprints, MinYears, SelectN} \subseteq Nat \ {0}
    /\ UseAllBelow >= SelectN
    /\ MaxUncovered \in Nat \X Nat /\ MinFraction \in Nat \X Nat
    /\ IsFiniteSet(Regions) /\ OutsideRegions \notin Regions
    /\ None \notin Nat /\ None \notin BOOLEAN

(* The commodity groups, in the order of their names; the last is for what  *)
(* no code of the protocol names.                                           *)
Groups == <<"gold", "iron_ore", "other">>

(* classify_commodity of the register's value for a site: a missing value   *)
(* arrives as nan, which str() makes a word like any other; a repeated id   *)
(* gives a Series.  None for the site that is not there, which is refused.  *)
ClassifyCommodity(rows, id) ==
    LET found == {rows[k].commodity : k \in {j \in DOMAIN rows : rows[j].id = id}}
        copies == Cardinality({j \in DOMAIN rows : rows[j].id = id}) IN
    CASE copies = 0 -> None
      [] copies = 1 /\ found \subseteq {"gold", "iron_ore"} -> CHOOSE g \in found : TRUE
      [] OTHER -> "other"

(* assign_footprint_commodities: the modal group, ties to the first name.   *)
ModalGroup(rows, ids) ==
    LET votes(g) == Cardinality({i \in ids : ClassifyCommodity(rows, i) = Groups[g]}) IN
    Groups[Min({g \in DOMAIN Groups : \A h \in DOMAIN Groups : votes(h) <= votes(g)})]

-----------------------------------------------------------------------------
(* A Maus polygon as the inputs see it: whether its geometry is usable, the *)
(* region of its representative point, the pixel centres it covers, and of  *)
(* the years its tiles have, how many are computable.                       *)
Grounds ==
    {g \in [usable : BOOLEAN, region : Regions \cup {OutsideRegions}, pixels : Nat,
            epoch : Nat, computable : Nat] : g.computable <= g.epoch}

Usable(ground, ps) == {p \in ps : ground[p].usable}
Outside(ground, ps) == {p \in Usable(ground, ps) : ground[p].region = OutsideRegions}
Placed(ground, ps) == Usable(ground, ps) \ Outside(ground, ps)

TooManyOutside(ground, ps) ==
    Cardinality(Outside(ground, ps)) * MaxUncovered[2]
        > Cardinality(Usable(ground, ps)) * MaxUncovered[1]

(* Mutant: a footprint that covers no pixel centre has a support of 0. *)
SupportOrZero(ground, ps, p) == IF p \in Placed(ground, ps) THEN ground[p].pixels ELSE None

(* effective_pixel_support_px.                                              *)
EffectiveSupport(ground, ps, p) ==
    IF p \in Placed(ground, ps) /\ ground[p].pixels > 0 THEN ground[p].pixels ELSE None

FootprintRow(ground, ps, p, group) ==
    LET support == EffectiveSupport(ground, ps, p)
        epoch == IF support = None THEN 0 ELSE ground[p].epoch IN
    [stratum |-> IF p \in Placed(ground, ps) THEN <<ground[p].region, group>> ELSE None,
     support |-> support,
     epoch   |-> epoch,
     full    |-> IF epoch > 0 /\ support >= FullSupport THEN ground[p].computable ELSE 0]

(* footprint_support: one row per Tier 1 footprint.                         *)
FootprintSupport(ground, rows, links) ==
    LET tier1 == Tier1(links)
        ps == {l.maus : l \in tier1}
        sites(p) == {l.site : l \in {m \in tier1 : m.maus = p}} IN
    [p \in ps |-> FootprintRow(ground, ps, p, ModalGroup(rows, sites(p)))]

(* build-d3-inputs goes through: a Tier 1 site the register does not have   *)
(* and too many footprints outside the regions are refused; with no Tier 1  *)
(* footprint the empty frame has no column to select.                       *)
InputsRefused(ground, rows, links) ==
    LET tier1 == Tier1(links)
        ps == {l.maus : l \in tier1} IN
    \/ ps = {}
    \/ TooManyOutside(ground, ps)
    \/ \E l \in tier1 : ClassifyCommodity(rows, l.site) = None

-----------------------------------------------------------------------------
(* stratum_adequacy.                                                        *)
Qualifying(footprints, stratum) ==
    {p \in DOMAIN footprints :
        footprints[p].stratum = stratum /\ footprints[p].full >= MinYears}

Strata == Regions \X {Groups[g] : g \in DOMAIN Groups}

AdequateStrata(footprints) ==
    {s \in Strata : Cardinality(Qualifying(footprints, s)) >= MinFootprints}

(* select_stratum_footprints.                                               *)
Selected(footprints, stratum) ==
    LET ps == Qualifying(footprints, stratum)
        before(p) == {q \in ps : HashRank[q] < HashRank[p]} IN
    IF Cardinality(ps) < UseAllBelow THEN ps
    ELSE {p \in ps : Cardinality(before(p)) < SelectN}

(* computable_fraction, the same at every support.                          *)
FractionHolds(footprints, stratum) ==
    LET sum(f) == MapThenSumSet(LAMBDA p : footprints[p][f], Selected(footprints, stratum)) IN
    sum("epoch") > 0 /\ sum("full") * MinFraction[2] >= sum("epoch") * MinFraction[1]

(* evidence[stratum]: the collections simulated in it, of one metric each,  *)
(* with how its p90 error and its median Spearman compare at each support;  *)
(* "none" when no value is finite.                                          *)
Collections == {"gm", "fc"}
Criteria == {"p90", "spearman"}
Outcomes == {"within", "beyond", "none"}

(* The cells that fail at one support, over all adequate strata.            *)
FailedCells(footprints, evidence, n) ==
    LET cells == {x \in AdequateStrata(footprints) \X Collections \X Criteria :
                    x[2] \in DOMAIN evidence[x[1]]} IN
    {x \in cells : evidence[x[1]][x[2]][n][x[3]] # "within"} \cup
    {<<s, "-", "fraction">> : s \in {t \in AdequateStrata(footprints) :
                                        ~FractionHolds(footprints, t)}}

(* Mutant: a pass at full support counts. *)
PassingAtAll(footprints, evidence) ==
    {n \in Supports : FailedCells(footprints, evidence, n) = {}}

PassingBelowFull(footprints, evidence) ==
    {n \in Supports : n < FullSupport /\ FailedCells(footprints, evidence, n) = {}}

(* Of the supports below full, the one with the fewest failures, the        *)
(* largest of several.                                                      *)
BestEntry(footprints, evidence) ==
    LET failures(n) == Cardinality(FailedCells(footprints, evidence, n)) IN
    CHOOSE n \in Supports :
        /\ n < FullSupport
        /\ \A m \in Supports : m < FullSupport =>
              \/ failures(n) < failures(m)
              \/ failures(n) = failures(m) /\ n >= m

(* evaluate_threshold, of adequate strata.                                  *)
EvaluateThreshold(footprints, evidence) ==
    LET passing == PassingBelowFull(footprints, evidence) IN
    IF passing # {} THEN [nStar |-> Min(passing), passed |-> TRUE, failed |-> {}]
    ELSE [nStar  |-> FullSupport, passed |-> FALSE,
          failed |-> FailedCells(footprints, evidence, BestEntry(footprints, evidence))]
=============================================================================
