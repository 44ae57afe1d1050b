----------------------------- MODULE SiteMatching -----------------------------
(***************************************************************************)
(* What build-register and build-crosswalk compute (register.py,           *)
(* crosswalk.py): from the rows of MINEDEX's Sites.csv, the register; from *)
(* the register and the Maus polygons, the crosswalk.  A row is            *)
(* [id, place, commodity]; ids may be missing or repeated, and a place is  *)
(* Nowhere or the polygons the point is inside of and those within 2000 m. *)
(***************************************************************************)
EXTENDS Naturals, Sequences, FiniteSets, FiniteSetsExt

CONSTANTS
    Polygons,       \* maus_ids, numbered in the order of their names
    NoId,           \* a missing SiteCode
    Nowhere,        \* the place of a row without coordinates
    NoPolygon       \* the maus_id of an unmatched row, sorted last

ASSUME MatchingAssumption ==
    /\ Polygons \subseteq Nat /\ IsFiniteSet(Polygons)
    /\ NoPolygon \in Nat
    /\ \A p \in Polygons : p < NoPolygon

Places ==
    {Nowhere} \cup
        {p \in [inside : SUBSET Polygons, near : SUBSET Polygons] : p.inside \subseteq p.near}

NullSiteId(rows) == {k \in DOMAIN rows : rows[k].id = NoId}

(* Mutant: duplicated() with its default, which spares the first copy. *)
LaterCopies(rows) ==
    {k \in DOMAIN rows \ NullSiteId(rows) : \E j \in 1 .. k - 1 : rows[j].id = rows[k].id}

(* Every copy of a repeated id.                                             *)
DuplicateSiteId(rows) ==
    {k \in DOMAIN rows \ NullSiteId(rows) :
        \E j \in DOMAIN rows \ {k} : rows[j].id = rows[k].id}

NoUsableLocation(rows) == {k \in DOMAIN rows : rows[k].place = Nowhere}

Excluded(rows) == NullSiteId(rows) \cup DuplicateSiteId(rows) \cup NoUsableLocation(rows)

FilterRegister(rows) == {rows[k] : k \in DOMAIN rows \ Excluded(rows)}

Link(site, polygon, confidence, ambiguity) ==
    [site |-> site.id, maus |-> polygon, confidence |-> confidence, ambiguity |-> ambiguity]

ContainmentRows(sites) ==
    UNION {{Link(s, p, "high", Cardinality(s.place.inside)) : p \in s.place.inside} : s \in sites}

(* Of one site that no polygon contains.                                    *)
NearestLinks(s) ==
    LET n == Cardinality(s.place.near) IN
    IF n = 0 THEN {Link(s, NoPolygon, "none", 0)}
    ELSE {Link(s, p, IF n = 1 THEN "medium" ELSE "low", n) : p \in s.place.near}

(* Mutant: sites already matched by containment are matched again. *)
NearestRowsOfAll(sites) == UNION {NearestLinks(s) : s \in sites}

NearestRows(sites) == UNION {NearestLinks(s) : s \in {t \in sites : t.place.inside = {}}}

BuildCrosswalk(rows) ==
    LET sites == FilterRegister(rows) IN ContainmentRows(sites) \cup NearestRows(sites)

SitesAt(links, level) == {l.site : l \in {m \in links : m.confidence = level}}

(* crosswalk_counts: build-crosswalk refuses when they do not reconcile.    *)
Reconciles(links) ==
    LET count(level) == Cardinality(SitesAt(links, level)) IN
    count("high") + count("medium") + count("low") + count("none")
        = Cardinality({l.site : l \in links})

Tier1(links) == {l \in links : l.confidence = "high"}
=============================================================================
