--------------------------- MODULE EligibilityProofs ---------------------------
(***************************************************************************)
(* The four invariants of EligibilityChain, for every world, every set of  *)
(* polygons and every number of snapshots.  What a table says is a         *)
(* function of what it was built from, so the inductive invariant is where *)
(* each table comes from, and the rest is lemmas on those functions.       *)
(***************************************************************************)
EXTENDS EligibilityChain, FiniteSetTheorems, FunctionTheorems, SequenceTheorems,
        WellFoundedInduction, TLAPS

-----------------------------------------------------------------------------
(* Least and largest numbers.                                               *)

LEMMA LeastIsThere ==
    ASSUME NEW S \in SUBSET Nat, S # {}
    PROVE  /\ Min(S) \in S
           /\ \A y \in S : Min(S) <= y
<1>1. \E x \in S : \A y \in S : ~(<<y, x>> \in OpToRel(<, Nat))
  BY NatLessThanWellFounded, WFMin
<1>2. PICK x \in S : \A y \in S : ~(<<y, x>> \in OpToRel(<, Nat))
  BY <1>1
<1>3. \A y \in S : x <= y
  <2> TAKE y \in S
  <2>1. x \in Nat /\ y \in Nat
    OBVIOUS
  <2>2. ~(<<y, x>> \in OpToRel(<, Nat))
    BY <1>2
  <2>3. ~(y < x)
    BY <2>1, <2>2 DEF OpToRel
  <2> QED
    BY <2>1, <2>3
<1> QED
  BY <1>2, <1>3 DEF Min

(* Of a bounded set.                                                        *)
LEMMA LargestIsThere ==
    ASSUME NEW S \in SUBSET Nat, S # {}, NEW b \in Nat, \A x \in S : x <= b
    PROVE  \E x \in S : \A y \in S : y <= x
<1> DEFINE T == {b - x : x \in S}
<1>1. T \in SUBSET Nat /\ T # {}
  <2>1. \A x \in S : b - x \in Nat
    OBVIOUS
  <2> QED
    BY <2>1
<1>2. Min(T) \in T /\ \A y \in T : Min(T) <= y
  BY <1>1, LeastIsThere
<1>3. PICK x \in S : Min(T) = b - x
  BY <1>2
<1>4. \A y \in S : b - x <= b - y
  BY <1>2, <1>3
<1> QED
  BY <1>4

(* A finite set has a subset of every size up to its own.                   *)
LEMMA SizedSubset ==
    ASSUME NEW Q, IsFiniteSet(Q), NEW k \in Nat
    PROVE  Cardinality(Q) >= k <=> \E ps \in SUBSET Q : Cardinality(ps) = k
<1>1. PICK n : n = Cardinality(Q)
  OBVIOUS
<1>2. n \in Nat /\ ExistsBijection(1 .. n, Q)
  BY <1>1, FS_CardinalityType
<1>3. ASSUME n >= k PROVE \E ps \in SUBSET Q : Cardinality(ps) = k
  <2>1. PICK f \in Bijection(1 .. n, Q) : TRUE
    BY <1>2 DEF ExistsBijection
  <2> DEFINE ps == {f[i] : i \in 1 .. k}
             g == [i \in 1 .. k |-> f[i]]
  <2>2. 1 .. k \subseteq 1 .. n
    BY <1>2, <1>3
  <2>3. f \in [1 .. n -> Q] /\ \A i, j \in 1 .. n : f[i] = f[j] => i = j
    BY <2>1 DEF Bijection, Injection, IsInjective
  <2>4. g \in Bijection(1 .. k, ps)
    BY <2>2, <2>3 DEF Bijection, Injection, Surjection, IsInjective
  <2>5. Cardinality(ps) = k
    BY <2>4, FS_CountingElements DEF ExistsBijection
  <2>6. ps \in SUBSET Q
    BY <2>2, <2>3
  <2> QED
    BY <2>5, <2>6
<1>4. ASSUME NEW ps \in SUBSET Q, Cardinality(ps) = k PROVE n >= k
  <2>1. Cardinality(ps) <= n
    BY <1>1, FS_Subset
  <2> QED
    BY <1>2, <1>4, <2>1
<1> QED
  BY <1>1, <1>3, <1>4

-----------------------------------------------------------------------------
(* The crosswalk, site by site.                                             *)

WellPlaced(rows) ==
    /\ IsFiniteSet(DOMAIN rows)
    /\ \A k \in DOMAIN rows : rows[k].place \in Places

Alone(rows, j) ==
    /\ rows[j].id # NoId
    /\ \A i \in DOMAIN rows : rows[i].id = rows[j].id => i = j

Kept(rows, j) == Alone(rows, j) /\ rows[j].place # Nowhere

Fan(s, ps, confidence, n) == {Link(s, p, confidence, n) : p \in ps}

LinksOf(s) ==
    IF s.place.inside # {} THEN Fan(s, s.place.inside, "high", Cardinality(s.place.inside))
    ELSE NearestLinks(s)

Own(links, id) == {l \in links : l.site = id}

LEMMA SiteIsKept ==
    ASSUME NEW rows, NEW s
    PROVE  s \in FilterRegister(rows) <=> \E j \in DOMAIN rows : Kept(rows, j) /\ s = rows[j]
<1>1. ASSUME NEW j \in DOMAIN rows PROVE j \notin Excluded(rows) <=> Kept(rows, j)
  BY DEF Excluded, NullSiteId, DuplicateSiteId, NoUsableLocation, Kept, Alone
<1> QED
  BY <1>1 DEF FilterRegister

LEMMA OneSitePerId ==
    ASSUME NEW rows, NEW s \in FilterRegister(rows), NEW t \in FilterRegister(rows), s.id = t.id
    PROVE  s = t
<1>1. PICK i \in DOMAIN rows : Kept(rows, i) /\ s = rows[i]
  BY SiteIsKept
<1>2. PICK j \in DOMAIN rows : Kept(rows, j) /\ t = rows[j]
  BY SiteIsKept
<1>3. i = j
  BY <1>1, <1>2 DEF Kept, Alone
<1> QED
  BY <1>1, <1>2, <1>3

Located(s) ==
    /\ s.place.inside \in SUBSET Polygons /\ s.place.near \in SUBSET Polygons
    /\ IsFiniteSet(s.place.inside) /\ IsFiniteSet(s.place.near)

LEMMA SiteIsLocated ==
    ASSUME NEW rows, WellPlaced(rows), NEW s \in FilterRegister(rows)
    PROVE  Located(s)
<1>1. PICK j \in DOMAIN rows : Kept(rows, j) /\ s = rows[j]
  BY SiteIsKept
<1>2. s.place \in Places /\ s.place # Nowhere
  BY <1>1 DEF WellPlaced, Kept
<1>3. s.place \in [inside : SUBSET Polygons, near : SUBSET Polygons]
  BY <1>2 DEF Places
<1>4. s.place.inside \in SUBSET Polygons /\ s.place.near \in SUBSET Polygons
  BY <1>3
<1> QED
  BY <1>4, FS_Subset, MatchingAssumption DEF Located

LEMMA CrosswalkIs ==
    ASSUME NEW rows, NEW l
    PROVE  l \in BuildCrosswalk(rows) <=> \E s \in FilterRegister(rows) : l \in LinksOf(s)
<1> DEFINE sites == FilterRegister(rows)
<1>1. l \in ContainmentRows(sites) <=>
        \E s \in sites : s.place.inside # {} /\ l \in LinksOf(s)
  BY DEF ContainmentRows, LinksOf, Fan
<1>2. l \in NearestRows(sites) <=>
        \E s \in sites : s.place.inside = {} /\ l \in LinksOf(s)
  BY DEF NearestRows, LinksOf
<1> QED
  BY <1>1, <1>2 DEF BuildCrosswalk

LEMMA FanCounts ==
    ASSUME NEW s, NEW ps, IsFiniteSet(ps), NEW confidence, NEW n
    PROVE  /\ IsFiniteSet(Fan(s, ps, confidence, n))
           /\ Cardinality(Fan(s, ps, confidence, n)) = Cardinality(ps)
<1> DEFINE T == Fan(s, ps, confidence, n)
           f == [p \in ps |-> Link(s, p, confidence, n)]
<1>1. f \in [ps -> T] /\ \A t \in T : \E p \in ps : f[p] = t
  BY DEF Fan
<1>2. ASSUME NEW p \in ps, NEW q \in ps, f[p] = f[q] PROVE p = q
  <2>1. Link(s, p, confidence, n).maus = p /\ Link(s, q, confidence, n).maus = q
    BY DEF Link
  <2> QED
    BY <1>2, <2>1
<1>3. f \in Bijection(ps, T)
  BY <1>1, <1>2 DEF Bijection, Injection, Surjection, IsInjective
<1> QED
  BY <1>3, FS_Bijection DEF ExistsBijection

(* The links of one site: what they say of it.                              *)
Level(s) ==
    IF s.place.inside # {} THEN "high"
    ELSE IF Cardinality(s.place.near) = 0 THEN "none"
    ELSE IF Cardinality(s.place.near) = 1 THEN "medium" ELSE "low"

Candidates(s) ==
    IF s.place.inside # {} THEN s.place.inside
    ELSE IF s.place.near = {} THEN {NoPolygon} ELSE s.place.near

LEMMA LinksAreFan ==
    ASSUME NEW s, Located(s)
    PROVE  /\ LinksOf(s) =
                Fan(s, Candidates(s), Level(s),
                    IF Level(s) = "none" THEN 0 ELSE Cardinality(Candidates(s)))
           /\ Candidates(s) # {}
           /\ IsFiniteSet(Candidates(s))
           /\ Level(s) = "none" <=> Candidates(s) = {NoPolygon}
           /\ Level(s) # "none" => Candidates(s) \subseteq Polygons
<1>0. NoPolygon \notin Polygons
  BY MatchingAssumption
<1>1. Cardinality(s.place.near) = 0 <=> s.place.near = {}
  BY FS_EmptySet DEF Located
<1>2. CASE s.place.inside # {}
  <2>1. Candidates(s) = s.place.inside /\ Level(s) = "high"
    BY <1>2 DEF Candidates, Level
  <2>2. s.place.inside # {NoPolygon}
    BY <1>0 DEF Located
  <2> QED
    BY <1>2, <2>1, <2>2 DEF LinksOf, Located
<1>3. CASE s.place.inside = {} /\ s.place.near = {}
  <2>1. Candidates(s) = {NoPolygon} /\ Level(s) = "none"
    BY <1>1, <1>3 DEF Candidates, Level
  <2>2. LinksOf(s) = {Link(s, NoPolygon, "none", 0)}
    BY <1>1, <1>3 DEF LinksOf, NearestLinks
  <2> QED
    BY <2>1, <2>2, FS_Singleton DEF Fan
<1>4. CASE s.place.inside = {} /\ s.place.near # {}
  <2>1. Candidates(s) = s.place.near /\ Level(s) \in {"medium", "low"}
    BY <1>1, <1>4 DEF Candidates, Level
  <2>2. Level(s) = IF Cardinality(s.place.near) = 1 THEN "medium" ELSE "low"
    BY <1>1, <1>4 DEF Level
  <2>3. LinksOf(s) = Fan(s, s.place.near, Level(s), Cardinality(s.place.near))
    BY <1>1, <1>4, <2>2 DEF LinksOf, NearestLinks, Fan
  <2>4. s.place.near # {NoPolygon}
    BY <1>0 DEF Located
  <2> QED
    BY <1>4, <2>1, <2>3, <2>4 DEF Located
<1> QED
  BY <1>2, <1>3, <1>4

LEMMA LinkSays ==
    ASSUME NEW s, Located(s), NEW l \in LinksOf(s)
    PROVE  /\ l.site = s.id /\ l.confidence = Level(s)
           /\ l.maus \in Candidates(s)
           /\ l.maus = NoPolygon <=> Level(s) = "none"
           /\ Cardinality(LinksOf(s)) = IF l.maus = NoPolygon THEN 1 ELSE l.ambiguity
<1> DEFINE n == IF Level(s) = "none" THEN 0 ELSE Cardinality(Candidates(s))
<1>1. PICK p \in Candidates(s) : l = Link(s, p, Level(s), n)
  BY LinksAreFan DEF Fan
<1>2. l.site = s.id /\ l.confidence = Level(s) /\ l.maus = p /\ l.ambiguity = n
  BY <1>1 DEF Link
<1>3. p = NoPolygon <=> Level(s) = "none"
  BY LinksAreFan, MatchingAssumption
<1>4. Cardinality(LinksOf(s)) = Cardinality(Candidates(s))
  BY LinksAreFan, FanCounts
<1>5. Level(s) = "none" => Cardinality(Candidates(s)) = 1
  BY LinksAreFan, FS_Singleton
<1> QED
  BY <1>2, <1>3, <1>4, <1>5

LEMMA OwnLinks ==
    ASSUME NEW rows, WellPlaced(rows), NEW s \in FilterRegister(rows)
    PROVE  Own(BuildCrosswalk(rows), s.id) = LinksOf(s)
<1>1. ASSUME NEW l \in BuildCrosswalk(rows), l.site = s.id PROVE l \in LinksOf(s)
  <2>1. PICK t \in FilterRegister(rows) : l \in LinksOf(t)
    BY CrosswalkIs
  <2>2. l.site = t.id
    BY <2>1, SiteIsLocated, LinkSays
  <2> QED
    BY <1>1, <2>1, <2>2, OneSitePerId
<1>2. ASSUME NEW l \in LinksOf(s) PROVE l \in BuildCrosswalk(rows) /\ l.site = s.id
  BY CrosswalkIs, SiteIsLocated, LinkSays
<1> QED
  BY <1>1, <1>2 DEF Own

-----------------------------------------------------------------------------
(* The levels partition the sites.                                          *)

LEMMA IdsAreFinite ==
    ASSUME NEW rows, WellPlaced(rows)
    PROVE  IsFiniteSet({rows[k].id : k \in DOMAIN rows})
<1> DEFINE ids == {rows[k].id : k \in DOMAIN rows}
           f == [k \in DOMAIN rows |-> rows[k].id]
<1>1. f \in Surjection(DOMAIN rows, ids)
  BY DEF Surjection
<1> QED
  BY <1>1, FS_Surjection DEF WellPlaced

LEMMA SiteAtOneLevel ==
    ASSUME NEW rows, WellPlaced(rows), NEW level, NEW id
    PROVE  id \in SitesAt(BuildCrosswalk(rows), level) <=>
              \E s \in FilterRegister(rows) : s.id = id /\ Level(s) = level
<1>1. ASSUME NEW l \in BuildCrosswalk(rows), l.confidence = level, l.site = id
      PROVE  \E s \in FilterRegister(rows) : s.id = id /\ Level(s) = level
  BY <1>1, CrosswalkIs, SiteIsLocated, LinkSays
<1>2. ASSUME NEW s \in FilterRegister(rows), s.id = id, Level(s) = level
      PROVE  \E l \in BuildCrosswalk(rows) : l.confidence = level /\ l.site = id
  <2>1. PICK l : l \in LinksOf(s)
    BY SiteIsLocated, LinksAreFan DEF Fan
  <2> QED
    BY <1>2, <2>1, CrosswalkIs, SiteIsLocated, LinkSays
<1> QED
  BY <1>1, <1>2 DEF SitesAt

LEMMA SitesOfCrosswalk ==
    ASSUME NEW rows, WellPlaced(rows)
    PROVE  {l.site : l \in BuildCrosswalk(rows)} = {s.id : s \in FilterRegister(rows)}
<1>1. ASSUME NEW l \in BuildCrosswalk(rows)
      PROVE  \E s \in FilterRegister(rows) : l.site = s.id
  BY CrosswalkIs, SiteIsLocated, LinkSays
<1>2. ASSUME NEW s \in FilterRegister(rows)
      PROVE  \E l \in BuildCrosswalk(rows) : l.site = s.id
  <2>1. PICK l : l \in LinksOf(s)
    BY SiteIsLocated, LinksAreFan DEF Fan
  <2> QED
    BY <2>1, CrosswalkIs, SiteIsLocated, LinkSays
<1> QED
  BY <1>1, <1>2

LEMMA FourParts ==
    ASSUME NEW A, NEW B, NEW C, NEW D,
           IsFiniteSet(A), IsFiniteSet(B), IsFiniteSet(C), IsFiniteSet(D),
           A \cap B = {}, (A \cup B) \cap C = {}, (A \cup B \cup C) \cap D = {}
    PROVE  Cardinality(A) + Cardinality(B) + Cardinality(C) + Cardinality(D)
              = Cardinality(A \cup B \cup C \cup D)
<1>0. Cardinality({}) = 0
  BY FS_EmptySet
<1>1. /\ IsFiniteSet(A \cup B)
      /\ Cardinality(A \cup B) = Cardinality(A) + Cardinality(B) - Cardinality(A \cap B)
  BY FS_Union
<1>2. /\ IsFiniteSet((A \cup B) \cup C)
      /\ Cardinality((A \cup B) \cup C)
            = Cardinality(A \cup B) + Cardinality(C) - Cardinality((A \cup B) \cap C)
  BY <1>1, FS_Union
<1>3. Cardinality((A \cup B \cup C) \cup D)
            = Cardinality(A \cup B \cup C) + Cardinality(D)
                  - Cardinality((A \cup B \cup C) \cap D)
  BY <1>2, FS_Union
<1>4. /\ Cardinality(A) \in Nat /\ Cardinality(B) \in Nat
      /\ Cardinality(C) \in Nat /\ Cardinality(D) \in Nat
  BY FS_CardinalityType
<1>5. /\ Cardinality(A \cap B) = 0 /\ Cardinality((A \cup B) \cap C) = 0
      /\ Cardinality((A \cup B \cup C) \cap D) = 0
  BY <1>0
<1>6. Cardinality(A \cup B) = Cardinality(A) + Cardinality(B)
  BY <1>1, <1>4, <1>5
<1>7. Cardinality(A \cup B \cup C) = Cardinality(A) + Cardinality(B) + Cardinality(C)
  BY <1>2, <1>4, <1>5, <1>6
<1>8. Cardinality(A \cup B \cup C \cup D)
         = Cardinality(A \cup B \cup C) + Cardinality(D)
  BY <1>3, <1>4, <1>5, <1>7
<1> QED
  BY <1>7, <1>8

LEMMA CrosswalkReconciles ==
    ASSUME NEW rows, WellPlaced(rows)
    PROVE  Reconciles(BuildCrosswalk(rows))
<1> DEFINE at(level) == SitesAt(BuildCrosswalk(rows), level)
           ids == {rows[k].id : k \in DOMAIN rows}
           sites == {l.site : l \in BuildCrosswalk(rows)}
<1>1. ASSUME NEW i, NEW j, NEW id \in at(i), id \in at(j) PROVE i = j
  <2>1. PICK s \in FilterRegister(rows) : s.id = id /\ Level(s) = i
    BY SiteAtOneLevel
  <2>2. PICK t \in FilterRegister(rows) : t.id = id /\ Level(t) = j
    BY <1>1, SiteAtOneLevel
  <2> QED
    BY <2>1, <2>2, OneSitePerId
<1>2. ASSUME NEW level PROVE at(level) \subseteq ids
  <2>1. ASSUME NEW id \in at(level) PROVE id \in ids
    <3>1. PICK s \in FilterRegister(rows) : s.id = id
      BY SiteAtOneLevel
    <3> QED
      BY <3>1, SiteIsKept
  <2> QED
    BY <2>1
<1>3. ASSUME NEW level PROVE IsFiniteSet(at(level))
  <2>1. IsFiniteSet(ids)
    BY IdsAreFinite
  <2>2. at(level) \subseteq ids
    BY <1>2
  <2> HIDE DEF at, ids
  <2> QED
    BY <2>1, <2>2, FS_Subset
<1>4. ASSUME NEW s PROVE Level(s) \in {"high", "medium", "low", "none"}
  BY DEF Level
<1>5. sites = at("high") \cup at("medium") \cup at("low") \cup at("none")
  <2>1. ASSUME NEW id \in sites PROVE \E level \in {"high", "medium", "low", "none"} : id \in at(level)
    <3>1. PICK s \in FilterRegister(rows) : s.id = id
      BY SitesOfCrosswalk
    <3>2. id \in at(Level(s))
      BY <3>1, SiteAtOneLevel
    <3> QED
      BY <1>4, <3>2
  <2>2. ASSUME NEW level, NEW id \in at(level) PROVE id \in sites
    BY SiteAtOneLevel, SitesOfCrosswalk
  <2> HIDE DEF sites, at
  <2> QED
    BY <2>1, <2>2
<1>6. /\ IsFiniteSet(at("high")) /\ IsFiniteSet(at("medium"))
      /\ IsFiniteSet(at("low")) /\ IsFiniteSet(at("none"))
  BY <1>3
<1>7. /\ at("high") \cap at("medium") = {}
      /\ (at("high") \cup at("medium")) \cap at("low") = {}
      /\ (at("high") \cup at("medium") \cup at("low")) \cap at("none") = {}
  <2> HIDE DEF at
  <2> QED
    BY <1>1
<1>8. Cardinality(at("high")) + Cardinality(at("medium")) + Cardinality(at("low"))
         + Cardinality(at("none"))
         = Cardinality(at("high") \cup at("medium") \cup at("low") \cup at("none"))
  <2> HIDE DEF at
  <2> QED
    BY <1>6, <1>7, FourParts
<1> QED
  BY <1>5, <1>8 DEF Reconciles

LEMMA Partitions ==
    ASSUME NEW rows, WellPlaced(rows)
    PROVE  LET links == BuildCrosswalk(rows)
               own(id) == {l \in links : l.site = id}
               named(id) == {k \in DOMAIN rows : rows[k].id = id} IN
           /\ {l.site : l \in links} =
                 {rows[k].id : k \in {j \in DOMAIN rows :
                     /\ rows[j].id # NoId /\ rows[j].place # Nowhere
                     /\ named(rows[j].id) = {j}}}
           /\ \A l \in links :
                 /\ {m.confidence : m \in own(l.site)} = {l.confidence}
                 /\ Cardinality(own(l.site)) = IF l.maus = NoPolygon THEN 1 ELSE l.ambiguity
           /\ Reconciles(links)
<1> DEFINE links == BuildCrosswalk(rows)
           kept == {j \in DOMAIN rows : Kept(rows, j)}
<1>1. {s.id : s \in FilterRegister(rows)} = {rows[k].id : k \in kept}
  BY SiteIsKept
<1>2. \A j \in DOMAIN rows :
         Kept(rows, j) <=>
            /\ rows[j].id # NoId /\ rows[j].place # Nowhere
            /\ {k \in DOMAIN rows : rows[k].id = rows[j].id} = {j}
  BY DEF Kept, Alone
<1>3. {l.site : l \in links} =
         {rows[k].id : k \in {j \in DOMAIN rows :
             /\ rows[j].id # NoId /\ rows[j].place # Nowhere
             /\ {k \in DOMAIN rows : rows[k].id = rows[j].id} = {j}}}
  BY <1>1, <1>2, SitesOfCrosswalk
<1>4. ASSUME NEW l \in links
      PROVE  /\ {m.confidence : m \in Own(links, l.site)} = {l.confidence}
             /\ Cardinality(Own(links, l.site)) = IF l.maus = NoPolygon THEN 1 ELSE l.ambiguity
  <2>1. PICK s \in FilterRegister(rows) : l \in LinksOf(s)
    BY CrosswalkIs
  <2>2. Located(s) /\ l.site = s.id /\ l.confidence = Level(s)
    BY <2>1, SiteIsLocated, LinkSays
  <2>3. Own(links, l.site) = LinksOf(s)
    BY <2>2, OwnLinks
  <2>4. \A m \in LinksOf(s) : m.confidence = l.confidence
    BY <2>2, LinkSays
  <2>5. Cardinality(LinksOf(s)) = IF l.maus = NoPolygon THEN 1 ELSE l.ambiguity
    BY <2>1, <2>2, LinkSays
  <2> QED
    BY <2>1, <2>3, <2>4, <2>5
<1> QED
  BY <1>3, <1>4, CrosswalkReconciles DEF Own

-----------------------------------------------------------------------------
(* The threshold.                                                           *)

LEMMA AdequateStrataAre ==
    ASSUME NEW footprints, IsFiniteSet(DOMAIN footprints)
    PROVE  AdequateStrata(footprints) =
              {s \in Strata : \E ps \in SUBSET DOMAIN footprints :
                  /\ Cardinality(ps) = MinFootprints
                  /\ \A p \in ps : /\ footprints[p].stratum = s
                                    /\ footprints[p].full >= MinYears}
<1>1. ASSUME NEW s \in Strata
      PROVE  Cardinality(Qualifying(footprints, s)) >= MinFootprints <=>
                \E ps \in SUBSET DOMAIN footprints :
                   /\ Cardinality(ps) = MinFootprints
                   /\ \A p \in ps : /\ footprints[p].stratum = s
                                     /\ footprints[p].full >= MinYears
  <2> DEFINE Q == Qualifying(footprints, s)
  <2>1. Q \in SUBSET DOMAIN footprints
    BY DEF Qualifying
  <2>2. IsFiniteSet(Q)
    BY <2>1, FS_Subset
  <2>3. MinFootprints \in Nat
    BY ThresholdAssumption
  <2>4. Cardinality(Q) >= MinFootprints <=> \E ps \in SUBSET Q : Cardinality(ps) = MinFootprints
    <3> HIDE DEF Q
    <3> QED
      BY <2>2, <2>3, SizedSubset
  <2>5. \A ps : ps \in SUBSET Q <=>
           /\ ps \in SUBSET DOMAIN footprints
           /\ \A p \in ps : /\ footprints[p].stratum = s
                             /\ footprints[p].full >= MinYears
    BY DEF Qualifying
  <2> HIDE DEF Q
  <2>6. Cardinality(Q) >= MinFootprints <=>
           \E ps \in SUBSET DOMAIN footprints :
              /\ Cardinality(ps) = MinFootprints
              /\ \A p \in ps : /\ footprints[p].stratum = s
                                /\ footprints[p].full >= MinYears
    BY <2>4, <2>5
  <2> QED
    BY <2>6 DEF Q
<1> QED
  BY <1>1 DEF AdequateStrata

LEMMA StrataAreFinite == IsFiniteSet(Strata)
<1> DEFINE groups == {Groups[g] : g \in DOMAIN Groups}
<1>1. groups = {"gold", "iron_ore", "other"}
  BY DEF Groups
<1>2. IsFiniteSet({"gold"} \cup {"iron_ore"} \cup {"other"})
  BY FS_Singleton, FS_Union
<1>3. IsFiniteSet(groups)
  BY <1>1, <1>2
<1> HIDE DEF groups
<1>4. IsFiniteSet(Regions \X groups)
  BY <1>3, FS_Product, ThresholdAssumption
<1> QED
  BY <1>4 DEF Strata, groups

LEMMA ThreefoldProduct ==
    ASSUME NEW A, NEW B, NEW C, IsFiniteSet(A), IsFiniteSet(B), IsFiniteSet(C)
    PROVE  IsFiniteSet(A \X B \X C)
<1> DEFINE f == [x \in (A \X B) \X C |-> <<x[1][1], x[1][2], x[2]>>]
<1>1. IsFiniteSet((A \X B) \X C)
  <2>1. IsFiniteSet(A \X B)
    BY FS_Product
  <2> QED
    BY <2>1, FS_Product
<1>2. f \in [(A \X B) \X C -> A \X B \X C]
  OBVIOUS
<1>3. ASSUME NEW t \in A \X B \X C PROVE \E x \in (A \X B) \X C : f[x] = t
  <2>1. <<<<t[1], t[2]>>, t[3]>> \in (A \X B) \X C
    OBVIOUS
  <2>2. f[<<<<t[1], t[2]>>, t[3]>>] = t
    BY <2>1
  <2> QED
    BY <2>1, <2>2
<1>4. f \in Surjection((A \X B) \X C, A \X B \X C)
  BY <1>2, <1>3 DEF Surjection
<1> HIDE DEF f
<1> QED
  BY <1>1, <1>4, FS_Surjection

(* The cells evaluated and the fraction of each stratum, as two sets.       *)
BadCells(footprints, e, n) ==
    {x \in AdequateStrata(footprints) \X Collections \X Criteria :
        x[2] \in DOMAIN e[x[1]] /\ e[x[1]][x[2]][n][x[3]] # "within"}

BadFractions(footprints) ==
    {<<s, "-", "fraction">> : s \in {t \in AdequateStrata(footprints) :
                                        ~FractionHolds(footprints, t)}}

LEMMA FailedAre ==
    ASSUME NEW footprints, NEW e, NEW n
    PROVE  FailedCells(footprints, e, n) = BadCells(footprints, e, n) \cup BadFractions(footprints)
BY DEF FailedCells, BadCells, BadFractions

LEMMA FailedIsFinite ==
    ASSUME NEW footprints, NEW e, NEW n
    PROVE  Cardinality(FailedCells(footprints, e, n)) \in Nat
<1>1. IsFiniteSet(AdequateStrata(footprints))
  BY StrataAreFinite, FS_Subset DEF AdequateStrata
<1>2. IsFiniteSet({"gm"} \cup {"fc"}) /\ IsFiniteSet({"p90"} \cup {"spearman"})
  BY FS_Singleton, FS_Union
<1>3. IsFiniteSet(Collections) /\ IsFiniteSet(Criteria)
  <2>1. Collections = {"gm"} \cup {"fc"} /\ Criteria = {"p90"} \cup {"spearman"}
    BY DEF Collections, Criteria
  <2> QED
    BY <1>2, <2>1
<1>4. IsFiniteSet(AdequateStrata(footprints) \X Collections \X Criteria)
  BY <1>1, <1>3, ThreefoldProduct
<1>5. BadCells(footprints, e, n) \subseteq AdequateStrata(footprints) \X Collections \X Criteria
  BY DEF BadCells
<1>6. IsFiniteSet(BadCells(footprints, e, n))
  BY <1>4, <1>5, FS_Subset
<1>7. IsFiniteSet(BadFractions(footprints))
  <2> DEFINE T == {t \in AdequateStrata(footprints) : ~FractionHolds(footprints, t)}
             f == [s \in T |-> <<s, "-", "fraction">>]
  <2>1. T \subseteq AdequateStrata(footprints)
    OBVIOUS
  <2>2. IsFiniteSet(T)
    BY <1>1, <2>1, FS_Subset
  <2>3. f \in Surjection(T, BadFractions(footprints))
    <3>1. BadFractions(footprints) = {<<s, "-", "fraction">> : s \in T}
      BY DEF BadFractions
    <3> HIDE DEF T
    <3> QED
      BY <3>1 DEF Surjection
  <2> HIDE DEF T, f
  <2> QED
    BY <2>2, <2>3, FS_Surjection
<1>8. IsFiniteSet(FailedCells(footprints, e, n))
  BY <1>6, <1>7, FailedAre, FS_Union
<1> QED
  BY <1>8, FS_CardinalityType

LEMMA NoneFails ==
    ASSUME NEW footprints, NEW e, IsEvidence(e), NEW n
    PROVE  FailedCells(footprints, e, n) = {} <=>
              \A s \in AdequateStrata(footprints) :
                 /\ FractionHolds(footprints, s)
                 /\ \A c \in DOMAIN e[s], k \in Criteria : e[s][c][n][k] = "within"
<1>1. BadFractions(footprints) = {} <=>
         \A s \in AdequateStrata(footprints) : FractionHolds(footprints, s)
  BY DEF BadFractions
<1>2. ASSUME BadCells(footprints, e, n) = {},
             NEW s \in AdequateStrata(footprints), NEW c \in DOMAIN e[s], NEW k \in Criteria
      PROVE  e[s][c][n][k] = "within"
  <2>1. c \in Collections
    BY DEF IsEvidence, AdequateStrata
  <2>2. PICK x : x = <<s, c, k>>
    OBVIOUS
  <2>3. x[1] = s /\ x[2] = c /\ x[3] = k
    BY <2>2
  <2>4. x \in AdequateStrata(footprints) \X Collections \X Criteria
    BY <2>1, <2>2
  <2>5. x \notin BadCells(footprints, e, n)
    BY <1>2
  <2> QED
    BY <2>3, <2>4, <2>5 DEF BadCells
<1>3. ASSUME NEW x \in BadCells(footprints, e, n)
      PROVE  \E s \in AdequateStrata(footprints) :
                \E c \in DOMAIN e[s], k \in Criteria : e[s][c][n][k] # "within"
  BY DEF BadCells
<1> QED
  BY <1>1, <1>2, <1>3, FailedAre

LEMMA BestIsThere ==
    ASSUME NEW footprints, NEW e
    PROVE  LET best == BestEntry(footprints, e)
               failures(n) == Cardinality(FailedCells(footprints, e, n)) IN
           /\ best \in Supports /\ best < FullSupport
           /\ \A m \in Supports : m < FullSupport => failures(best) <= failures(m)
<1> DEFINE failures(n) == Cardinality(FailedCells(footprints, e, n))
           below == {n \in Supports : n < FullSupport}
           counts == {failures(n) : n \in below}
           fewest == {n \in below : failures(n) = Min(counts)}
           Best(n) == /\ n < FullSupport
                      /\ \A m \in Supports : m < FullSupport =>
                            \/ failures(n) < failures(m)
                            \/ failures(n) = failures(m) /\ n >= m
<1>0. \A n : failures(n) \in Nat
  BY FailedIsFinite
<1> HIDE DEF failures
<1>1. below \in SUBSET Nat /\ below # {} /\ FullSupport \in Nat
  BY ThresholdAssumption
<1>2. counts \in SUBSET Nat /\ counts # {}
  BY <1>0, <1>1
<1>3. Min(counts) \in counts /\ \A c \in counts : Min(counts) <= c
  BY <1>2, LeastIsThere
<1>4. fewest \in SUBSET Nat /\ fewest # {} /\ \A n \in fewest : n <= FullSupport
  <2>1. fewest # {}
    BY <1>3
  <2>2. fewest \in SUBSET Nat
    BY <1>1
  <2>3. \A n \in fewest : n <= FullSupport
    BY <1>1
  <2> QED
    BY <2>1, <2>2, <2>3
<1>5. PICK b \in fewest : \A n \in fewest : n <= b
  <2> HIDE DEF fewest
  <2> QED
    BY <1>1, <1>4, LargestIsThere
<1>6. ASSUME NEW m \in Supports, m < FullSupport
      PROVE  failures(b) < failures(m) \/ (failures(b) = failures(m) /\ b >= m)
  <2>1. m \in below /\ failures(m) \in counts /\ failures(m) \in Nat /\ failures(b) \in Nat
    BY <1>0, <1>6
  <2>2. failures(b) = Min(counts) /\ failures(b) <= failures(m)
    BY <1>3, <2>1
  <2>3. ASSUME failures(b) = failures(m) PROVE b >= m
    <3>1. m \in fewest
      BY <2>1, <2>2, <2>3
    <3>2. m <= b /\ m \in Nat /\ b \in Nat
      BY <1>4, <1>5, <3>1
    <3> QED
      BY <3>2
  <2>4. failures(b) = failures(m) \/ failures(b) < failures(m)
    BY <2>1, <2>2
  <2> QED
    BY <2>3, <2>4
<1>7. b \in Supports /\ Best(b)
  <2> HIDE DEF counts
  <2> QED
    BY <1>6
<1>8. BestEntry(footprints, e) = CHOOSE n \in Supports : Best(n)
  BY DEF BestEntry, failures
<1> HIDE DEF Best
<1>9. BestEntry(footprints, e) \in Supports /\ Best(BestEntry(footprints, e))
  BY <1>7, <1>8
<1>10. /\ BestEntry(footprints, e) < FullSupport
       /\ \A m \in Supports : m < FullSupport =>
             failures(BestEntry(footprints, e)) <= failures(m)
  BY <1>0, <1>9 DEF Best
<1> QED
  BY <1>9, <1>10 DEF failures

LEMMA RuleIsEarned ==
    ASSUME NEW footprints, NEW e, IsEvidence(e)
    PROVE  LET r == EvaluateThreshold(footprints, e)
               below == {n \in Supports : n < FullSupport}
               failed(n) == FailedCells(footprints, e, n) IN
           /\ r.nStar \in Supports /\ r.passed \in BOOLEAN
           /\ r.passed => /\ r.nStar \in below /\ failed(r.nStar) = {} /\ r.failed = {}
                          /\ \A n \in below : failed(n) = {} => r.nStar <= n
           /\ ~r.passed => /\ r.nStar = FullSupport
                           /\ \A n \in below : failed(n) # {}
                           /\ \E n \in below : r.failed = failed(n)
                           /\ \A n \in below : Cardinality(r.failed) <= Cardinality(failed(n))
<1> DEFINE r == EvaluateThreshold(footprints, e)
           below == {n \in Supports : n < FullSupport}
           failed(n) == FailedCells(footprints, e, n)
           passing == PassingBelowFull(footprints, e)
<1>1. passing = {n \in below : failed(n) = {}}
  BY DEF PassingBelowFull
<1>2. Supports \subseteq Nat /\ FullSupport \in Supports
  BY ThresholdAssumption
<1>3. CASE passing # {}
  <2>1. r.nStar = Min(passing) /\ r.passed = TRUE /\ r.failed = {}
    BY <1>3 DEF EvaluateThreshold
  <2>2. passing \in SUBSET Nat
    BY <1>1, <1>2
  <2>3. Min(passing) \in passing /\ \A n \in passing : Min(passing) <= n
    BY <1>3, <2>2, LeastIsThere
  <2> HIDE DEF r, failed, passing
  <2>4. r.nStar \in below /\ failed(r.nStar) = {}
    BY <1>1, <2>1, <2>3
  <2>5. \A n \in below : failed(n) = {} => r.nStar <= n
    BY <1>1, <2>1, <2>3
  <2> HIDE DEF below
  <2>6. r.nStar \in Supports
    BY <2>4 DEF below
  <2> QED
    BY <2>1, <2>4, <2>5, <2>6 DEF r, failed, below
<1>4. CASE passing = {}
  <2> DEFINE best == BestEntry(footprints, e)
  <2>1. r.nStar = FullSupport /\ r.passed = FALSE /\ r.failed = failed(best)
    BY <1>4 DEF EvaluateThreshold
  <2>2. best \in below /\ \A n \in below : Cardinality(failed(best)) <= Cardinality(failed(n))
    BY BestIsThere
  <2> HIDE DEF r, failed, passing, best
  <2>3. \A n \in below : failed(n) # {}
    BY <1>1, <1>4
  <2>4. \A n \in below : Cardinality(r.failed) <= Cardinality(failed(n))
    BY <2>1, <2>2
  <2>5. r.nStar \in Supports
    BY <1>2, <2>1
  <2> HIDE DEF below
  <2> QED
    BY <2>1, <2>2, <2>3, <2>4, <2>5 DEF r, failed, below
<1> QED
  BY <1>3, <1>4

-----------------------------------------------------------------------------
(* The footprints of the inputs.                                            *)

Within(rows, j) == IF rows[j].place = Nowhere THEN {} ELSE rows[j].place.inside

LEMMA HighIsInside ==
    ASSUME NEW rows, WellPlaced(rows), NEW s \in FilterRegister(rows)
    PROVE  \E j \in DOMAIN rows :
              /\ rows[j].id = s.id /\ Alone(rows, j) /\ Within(rows, j) = s.place.inside
<1>1. PICK j \in DOMAIN rows : Kept(rows, j) /\ s = rows[j]
  BY SiteIsKept
<1> QED
  BY <1>1 DEF Kept, Within

LEMMA InsideIsHigh ==
    ASSUME NEW rows, WellPlaced(rows), NEW j \in DOMAIN rows, Alone(rows, j),
           Within(rows, j) # {}
    PROVE  /\ rows[j] \in FilterRegister(rows)
           /\ rows[j].place.inside = Within(rows, j)
           /\ Level(rows[j]) = "high"
           /\ Candidates(rows[j]) = Within(rows, j)
<1>1. rows[j].place # Nowhere /\ Within(rows, j) = rows[j].place.inside
  BY DEF Within
<1>2. rows[j] \in FilterRegister(rows)
  BY <1>1, SiteIsKept DEF Kept
<1> QED
  BY <1>1, <1>2 DEF Level, Candidates

LEMMA LevelHigh ==
    ASSUME NEW s
    PROVE  Level(s) = "high" <=> s.place.inside # {}
BY DEF Level

LEMMA TierOnePolygons ==
    ASSUME NEW rows, WellPlaced(rows), NEW p
    PROVE  p \in {l.maus : l \in Tier1(BuildCrosswalk(rows))} <=>
              \E i \in DOMAIN rows : Alone(rows, i) /\ p \in Within(rows, i)
<1>1. ASSUME NEW l \in BuildCrosswalk(rows), l.confidence = "high", l.maus = p
      PROVE  \E i \in DOMAIN rows : Alone(rows, i) /\ p \in Within(rows, i)
  <2>1. PICK s \in FilterRegister(rows) : l \in LinksOf(s)
    BY CrosswalkIs
  <2>2. Level(s) = "high" /\ p \in Candidates(s)
    BY <1>1, <2>1, SiteIsLocated, LinkSays
  <2>3. p \in s.place.inside
    BY <2>2, LevelHigh DEF Candidates
  <2> QED
    BY <2>3, HighIsInside
<1>2. ASSUME NEW i \in DOMAIN rows, Alone(rows, i), p \in Within(rows, i)
      PROVE  \E l \in BuildCrosswalk(rows) : l.confidence = "high" /\ l.maus = p
  <2>1. PICK s : s = rows[i]
    OBVIOUS
  <2>2. s \in FilterRegister(rows) /\ s.place.inside # {} /\ p \in s.place.inside
    BY <1>2, <2>1, InsideIsHigh
  <2>3. PICK l : l = Link(s, p, "high", Cardinality(s.place.inside))
    OBVIOUS
  <2>4. l \in LinksOf(s)
    BY <2>2, <2>3 DEF LinksOf, Fan
  <2>5. l.confidence = "high" /\ l.maus = p
    BY <2>3 DEF Link
  <2> QED
    BY <2>2, <2>4, <2>5, CrosswalkIs
<1> QED
  BY <1>1, <1>2 DEF Tier1

LEMMA WithinPolygons ==
    ASSUME NEW rows, WellPlaced(rows), NEW j \in DOMAIN rows, Alone(rows, j)
    PROVE  Within(rows, j) \in SUBSET Polygons
<1>1. CASE Within(rows, j) = {}
  BY <1>1
<1>2. CASE Within(rows, j) # {}
  BY <1>2, InsideIsHigh, SiteIsLocated DEF Located
<1> QED
  BY <1>1, <1>2

LEMMA ModalIsGroup ==
    ASSUME NEW rows, NEW ids, IsFiniteSet(ids)
    PROVE  ModalGroup(rows, ids) \in {Groups[g] : g \in DOMAIN Groups}
<1> DEFINE votes(g) == Cardinality({i \in ids : ClassifyCommodity(rows, i) = Groups[g]})
           most == {g \in DOMAIN Groups : \A h \in DOMAIN Groups : votes(h) <= votes(g)}
<1>1. DOMAIN Groups = 1 .. 3
  BY DEF Groups
<1>2. \A g : votes(g) \in Nat
  <2>1. ASSUME NEW g PROVE votes(g) \in Nat
    <3>1. {i \in ids : ClassifyCommodity(rows, i) = Groups[g]} \in SUBSET ids
      OBVIOUS
    <3> QED
      BY <3>1, FS_Subset, FS_CardinalityType
  <2> QED
    BY <2>1
<1> HIDE DEF votes
<1>3. \E g \in 1 .. 3 : \A h \in 1 .. 3 : votes(h) <= votes(g)
  <2>1. PICK a, b, c : a = votes(1) /\ b = votes(2) /\ c = votes(3)
    OBVIOUS
  <2>2. a \in Nat /\ b \in Nat /\ c \in Nat
    BY <1>2, <2>1
  <2>3. \A h \in 1 .. 3 : h = 1 \/ h = 2 \/ h = 3
    OBVIOUS
  <2> QED
    BY <2>1, <2>2, <2>3
<1>4. most \in SUBSET Nat /\ most # {}
  BY <1>1, <1>3
<1>5. Min(most) \in most
  <2> HIDE DEF most
  <2> QED
    BY <1>4, LeastIsThere
<1>6. ModalGroup(rows, ids) = Groups[Min(most)]
  BY DEF ModalGroup, votes
<1> QED
  BY <1>5, <1>6

TypedFootprint(f) ==
    /\ f.stratum \in Strata \cup {None}
    /\ f.support \in (Nat \ {0}) \cup {None}
    /\ f.epoch \in Nat /\ f.full \in 0 .. f.epoch
    /\ f.support = None => f.epoch = 0

LEMMA FootprintRowIs ==
    ASSUME NEW g \in [Polygons -> Grounds], NEW ps \in SUBSET Polygons, NEW p \in ps,
           NEW group \in {Groups[i] : i \in DOMAIN Groups}
    PROVE  LET f == FootprintRow(g, ps, p, group) IN
           /\ TypedFootprint(f)
           /\ f.support # None <=>
                 g[p].usable /\ g[p].region \in Regions /\ g[p].pixels > 0
           /\ f.support # None => f.support = g[p].pixels
<1>1. PICK gp : gp = g[p]
  OBVIOUS
<1>2. gp \in Grounds
  BY <1>1
<1>3. /\ gp.usable \in BOOLEAN /\ gp.region \in Regions \cup {OutsideRegions}
      /\ gp.pixels \in Nat /\ gp.epoch \in Nat /\ gp.computable \in Nat
      /\ gp.computable <= gp.epoch
  BY <1>2 DEF Grounds
<1>4. p \in Placed(g, ps) <=> gp.usable /\ gp.region \in Regions
  BY <1>1, <1>3, ThresholdAssumption DEF Placed, Outside, Usable
<1>5. PICK support : support = EffectiveSupport(g, ps, p)
  OBVIOUS
<1>6. PICK epoch : epoch = IF support = None THEN 0 ELSE gp.epoch
  OBVIOUS
<1>7. None \notin Nat
  BY ThresholdAssumption
<1>8. /\ support # None <=> p \in Placed(g, ps) /\ gp.pixels > 0
      /\ support # None => support = gp.pixels /\ support \in Nat \ {0}
  BY <1>1, <1>3, <1>5, <1>7 DEF EffectiveSupport
<1>9. PICK full : full = IF epoch > 0 /\ support >= FullSupport THEN gp.computable ELSE 0
  OBVIOUS
<1>10. epoch \in Nat /\ (support = None => epoch = 0)
  BY <1>3, <1>6
<1>11. full \in 0 .. epoch
  <2>1. CASE epoch > 0 /\ support >= FullSupport
    <3>1. epoch = gp.epoch
      BY <1>6, <2>1
    <3> QED
      BY <1>3, <1>9, <2>1, <3>1
  <2>2. CASE ~(epoch > 0 /\ support >= FullSupport)
    BY <1>9, <1>10, <2>2
  <2> QED
    BY <2>1, <2>2
<1>12. PICK stratum : stratum = IF p \in Placed(g, ps) THEN <<gp.region, group>> ELSE None
  OBVIOUS
<1>13. stratum \in Strata \cup {None}
  BY <1>4, <1>12 DEF Strata
<1>14. FootprintRow(g, ps, p, group) =
          [stratum |-> stratum, support |-> support, epoch |-> epoch, full |-> full]
  BY <1>1, <1>5, <1>6, <1>9, <1>12 DEF FootprintRow
<1>15. PICK f : f = FootprintRow(g, ps, p, group)
  OBVIOUS
<1>16. /\ f.stratum = stratum /\ f.support = support
       /\ f.epoch = epoch /\ f.full = full
  BY <1>14, <1>15
<1>17. TypedFootprint(f)
  BY <1>8, <1>10, <1>11, <1>13, <1>16 DEF TypedFootprint
<1>18. /\ f.support # None <=> gp.usable /\ gp.region \in Regions /\ gp.pixels > 0
       /\ f.support # None => f.support = gp.pixels
  BY <1>4, <1>8, <1>16
<1> QED
  BY <1>1, <1>15, <1>17, <1>18

LEMMA SupportIs ==
    ASSUME NEW g \in [Polygons -> Grounds], NEW rows, NEW base, WellPlaced(base)
    PROVE  LET footprints == FootprintSupport(g, rows, BuildCrosswalk(base)) IN
           /\ DOMAIN footprints \in SUBSET Polygons
           /\ \A p : p \in DOMAIN footprints <=>
                 \E i \in DOMAIN base : Alone(base, i) /\ p \in Within(base, i)
           /\ \A p \in DOMAIN footprints :
                 LET f == footprints[p] IN
                 /\ TypedFootprint(f)
                 /\ f.support # None <=>
                       g[p].usable /\ g[p].region \in Regions /\ g[p].pixels > 0
                 /\ f.support # None => f.support = g[p].pixels
<1> DEFINE links == BuildCrosswalk(base)
           ps == {l.maus : l \in Tier1(links)}
           ids(p) == {l.site : l \in {m \in Tier1(links) : m.maus = p}}
           footprints == FootprintSupport(g, rows, links)
<1>1. footprints = [p \in ps |-> FootprintRow(g, ps, p, ModalGroup(rows, ids(p)))]
  BY DEF FootprintSupport
<1>2. \A p : p \in ps <=> \E i \in DOMAIN base : Alone(base, i) /\ p \in Within(base, i)
  BY TierOnePolygons
<1>3. ps \in SUBSET Polygons
  BY <1>2, WithinPolygons
<1>4. ASSUME NEW p \in ps PROVE ModalGroup(rows, ids(p)) \in {Groups[i] : i \in DOMAIN Groups}
  <2>1. ids(p) \subseteq {base[k].id : k \in DOMAIN base}
    <3>1. ASSUME NEW l \in links PROVE l.site \in {base[k].id : k \in DOMAIN base}
      <4>1. PICK s \in FilterRegister(base) : l.site = s.id
        BY SitesOfCrosswalk
      <4> QED
        BY <4>1, SiteIsKept
    <3> QED
      BY <3>1 DEF Tier1
  <2>2. IsFiniteSet(ids(p))
    <3>1. IsFiniteSet({base[k].id : k \in DOMAIN base})
      BY IdsAreFinite
    <3> HIDE DEF ids
    <3> QED
      BY <2>1, <3>1, FS_Subset
  <2> HIDE DEF ids
  <2> QED
    BY <2>2, ModalIsGroup
<1> HIDE DEF ps, ids, footprints
<1>5. DOMAIN footprints = ps
  BY <1>1
<1>6. ASSUME NEW p \in ps
      PROVE  /\ TypedFootprint(footprints[p])
             /\ footprints[p].support # None <=>
                   g[p].usable /\ g[p].region \in Regions /\ g[p].pixels > 0
             /\ footprints[p].support # None => footprints[p].support = g[p].pixels
  <2>1. footprints[p] = FootprintRow(g, ps, p, ModalGroup(rows, ids(p)))
    BY <1>1
  <2> QED
    BY <1>3, <1>4, <2>1, FootprintRowIs
<1> QED
  BY <1>2, <1>3, <1>5, <1>6 DEF footprints

-----------------------------------------------------------------------------
(* The verdict on one site.                                                 *)

LEMMA RepresentativeIs ==
    ASSUME NEW rows, WellPlaced(rows), NEW s \in FilterRegister(rows)
    PROVE  /\ Representative(BuildCrosswalk(rows), s.id) \in LinksOf(s)
           /\ Representative(BuildCrosswalk(rows), s.id).maus = Min(Candidates(s))
<1> DEFINE own == {l \in BuildCrosswalk(rows) : l.site = s.id}
           First(l) == \A m \in own : l.maus = Min({l.maus, m.maus})
<1>1. own = LinksOf(s)
  BY OwnLinks DEF Own
<1>2. Located(s)
  BY SiteIsLocated
<1>3. Candidates(s) \in SUBSET Nat /\ Candidates(s) # {}
  BY <1>2, LinksAreFan, MatchingAssumption
<1>4. Min(Candidates(s)) \in Candidates(s) /\ \A q \in Candidates(s) : Min(Candidates(s)) <= q
  BY <1>3, LeastIsThere
<1>5. \A l \in own : l.maus \in Candidates(s)
  BY <1>1, <1>2, LinkSays
<1>6. \A q \in Candidates(s) : \E l \in own : l.maus = q
  <2>1. ASSUME NEW q \in Candidates(s) PROVE \E l \in own : l.maus = q
    <3>1. PICK n : LinksOf(s) = Fan(s, Candidates(s), Level(s), n)
      BY <1>2, LinksAreFan
    <3>2. PICK l : l = Link(s, q, Level(s), n)
      OBVIOUS
    <3>3. l \in own /\ l.maus = q
      BY <1>1, <3>1, <3>2 DEF Fan, Link
    <3> QED
      BY <3>3
  <2> QED
    BY <2>1
<1> HIDE DEF own
<1>7. ASSUME NEW x \in Nat, NEW y \in Nat
      PROVE  x = Min({x, y}) <=> x <= y
  <2>1. {x, y} \in SUBSET Nat /\ {x, y} # {}
    OBVIOUS
  <2>2. Min({x, y}) \in {x, y} /\ \A z \in {x, y} : Min({x, y}) <= z
    BY <2>1, LeastIsThere
  <2> QED
    BY <2>2
<1>8. \A l \in own : First(l) <=> \A m \in own : l.maus <= m.maus
  BY <1>3, <1>5, <1>7
<1> HIDE DEF First
<1>9. PICK l \in own : l.maus = Min(Candidates(s))
  BY <1>4, <1>6
<1>10. First(l)
  BY <1>4, <1>5, <1>8, <1>9
<1>11. Representative(BuildCrosswalk(rows), s.id) = CHOOSE k \in own : First(k)
  BY DEF Representative, own, First
<1>12. PICK r : r = Representative(BuildCrosswalk(rows), s.id)
  OBVIOUS
<1>13. r \in own /\ First(r)
  BY <1>10, <1>11, <1>12
<1>14. r.maus <= Min(Candidates(s)) /\ Min(Candidates(s)) <= r.maus
  BY <1>4, <1>5, <1>8, <1>9, <1>13
<1>15. r.maus \in Nat /\ Min(Candidates(s)) \in Nat
  BY <1>3, <1>4, <1>5, <1>13
<1> QED
  BY <1>1, <1>12, <1>13, <1>14, <1>15

Linked(links, id) == \E l \in links : l.site = id /\ l.maus # NoPolygon

(* The support a site is judged by, or None.                                *)
SupportOf(links, footprints, id) ==
    LET link == Representative(links, id) IN
    IF Linked(links, id) /\ link.maus \in DOMAIN footprints
    THEN footprints[link.maus].support ELSE None

(* The conditions of an eligible site, as Assign tests them.                *)
Meets(links, footprints, px, passed, forced, id) ==
    /\ passed \/ forced
    /\ Linked(links, id) /\ Representative(links, id).confidence = "high"
    /\ SupportOf(links, footprints, id) # None
    /\ ~(SupportOf(links, footprints, id) < px)

(* What the row of an eligible site says of the threshold.                  *)
SaysWhy(v, px, forced) ==
    v.eligible = TRUE => v.status = "eligible" /\ v.px = px /\ v.forced = forced

LEMMA AssignIs ==
    ASSUME NEW row, NEW links, NEW footprints, NEW px \in Nat,
           NEW passed, NEW forced
    PROVE  LET v == Assign(row, links, footprints, px, passed, forced) IN
           /\ v.status \in Statuses
           /\ v.status = "eligible" <=> Meets(links, footprints, px, passed, forced, row.id)
           /\ SaysWhy(v, px, forced)
<1> DEFINE linked == Linked(links, row.id)
           link == Representative(links, row.id)
           support == SupportOf(links, footprints, row.id)
           v == Assign(row, links, footprints, px, passed, forced)
           Unjudged(status) == Verdict(status, support, FALSE, px, forced)
           Judged(status) == Verdict(status, support, TRUE, px, forced)
           short == support < px
<1>1. ASSUME NEW status
      PROVE  /\ Unjudged(status).status = status /\ Unjudged(status).eligible = None
             /\ Judged(status).status = status
             /\ Judged(status).eligible = (status = "eligible")
             /\ Judged(status).px = px /\ Judged(status).forced = forced
  BY DEF Verdict
<1>2. v = CASE ~linked -> Unjudged("no_usable_footprint")
            [] linked /\ link.confidence # "high" -> Unjudged("crosswalk_not_high_confidence")
            [] linked /\ link.confidence = "high" /\ support = None ->
                  Unjudged("no_usable_footprint")
            [] OTHER ->
                  CASE ~passed /\ ~forced -> Judged("threshold_not_computed")
                    [] (passed \/ forced) /\ short -> Judged("insufficient_pixel_support")
                    [] OTHER -> Judged("eligible")
  BY DEF Assign, Linked, SupportOf
<1>3. None # TRUE
  BY ThresholdAssumption
<1> HIDE DEF linked, link, support, v, Unjudged, Judged, short
<1>4. /\ v.status \in Statuses
      /\ v.status = "eligible" <=>
            /\ linked /\ link.confidence = "high" /\ support # None
            /\ passed \/ forced
            /\ ~short
      /\ v.eligible = TRUE =>
            v.status = "eligible" /\ v.px = px /\ v.forced = forced
  <2>1. CASE ~linked
    <3>1. v = Unjudged("no_usable_footprint")
      BY <1>2, <2>1
    <3> QED
      BY <1>1, <1>3, <2>1, <3>1 DEF Statuses
  <2>2. CASE linked /\ link.confidence # "high"
    <3>1. v = Unjudged("crosswalk_not_high_confidence")
      BY <1>2, <2>2
    <3> QED
      BY <1>1, <1>3, <2>2, <3>1 DEF Statuses
  <2>3. CASE linked /\ link.confidence = "high" /\ support = None
    <3>1. v = Unjudged("no_usable_footprint")
      BY <1>2, <2>3
    <3> QED
      BY <1>1, <1>3, <2>3, <3>1 DEF Statuses
  <2>4. CASE linked /\ link.confidence = "high" /\ support # None
    <3>1. v = CASE ~passed /\ ~forced -> Judged("threshold_not_computed")
                [] (passed \/ forced) /\ short -> Judged("insufficient_pixel_support")
                [] OTHER -> Judged("eligible")
      BY <1>2, <2>4
    <3>2. CASE ~passed /\ ~forced
      <4>1. v = Judged("threshold_not_computed")
        BY <3>1, <3>2
      <4> QED
        BY <1>1, <3>2, <4>1 DEF Statuses
    <3>3. CASE (passed \/ forced) /\ short
      <4>1. v = Judged("insufficient_pixel_support")
        BY <3>1, <3>3
      <4> QED
        BY <1>1, <3>3, <4>1 DEF Statuses
    <3>4. CASE (passed \/ forced) /\ ~short
      <4>1. v = Judged("eligible")
        BY <3>1, <3>4
      <4> QED
        BY <1>1, <2>4, <3>4, <4>1 DEF Statuses
    <3> QED
      BY <3>2, <3>3, <3>4
  <2> QED
    BY <2>1, <2>2, <2>3, <2>4
<1> QED
  BY <1>4 DEF linked, link, support, v, short, Meets, SaysWhy

(* What EligibleIsEarned says of one site, of the tables it was judged by.  *)
Earned(sites, base, g, px, id) ==
    \E j \in DOMAIN sites :
        /\ sites[j].id = id /\ Alone(sites, j) /\ Within(sites, j) # {}
        /\ LET p == Min(Within(sites, j)) IN
              /\ \E i \in DOMAIN base : Alone(base, i) /\ p \in Within(base, i)
              /\ g[p].usable /\ g[p].region \in Regions
              /\ g[p].pixels >= px /\ g[p].pixels > 0

LEMMA EligibleIs ==
    ASSUME NEW row, NEW sites, WellPlaced(sites), NEW base, WellPlaced(base),
           NEW g \in [Polygons -> Grounds], NEW rows, NEW px \in Nat,
           NEW passed, NEW forced
    PROVE  LET links == BuildCrosswalk(sites)
               footprints == FootprintSupport(g, rows, BuildCrosswalk(base)) IN
           Assign(row, links, footprints, px, passed, forced).status = "eligible" <=>
              (passed \/ forced) /\ Earned(sites, base, g, px, row.id)
<1>0. PICK links, footprints :
         /\ links = BuildCrosswalk(sites)
         /\ footprints = FootprintSupport(g, rows, BuildCrosswalk(base))
  OBVIOUS
<1> DEFINE linked == Linked(links, row.id)
           link == Representative(links, row.id)
           support == SupportOf(links, footprints, row.id)
           v == Assign(row, links, footprints, px, passed, forced)
<1>1. v.status = "eligible" <=> Meets(links, footprints, px, passed, forced, row.id)
  BY AssignIs
<1>2. /\ DOMAIN footprints \in SUBSET Polygons
      /\ \A p : p \in DOMAIN footprints <=>
            \E i \in DOMAIN base : Alone(base, i) /\ p \in Within(base, i)
      /\ \A p \in DOMAIN footprints :
            /\ TypedFootprint(footprints[p])
            /\ footprints[p].support # None <=>
                  g[p].usable /\ g[p].region \in Regions /\ g[p].pixels > 0
            /\ footprints[p].support # None => footprints[p].support = g[p].pixels
  BY <1>0, SupportIs
<1>3. \A p \in Polygons : g[p].pixels \in Nat
  BY DEF Grounds
<1> HIDE DEF v
<1>4. ASSUME linked, link.confidence = "high", support # None, ~(support < px)
      PROVE  Earned(sites, base, g, px, row.id)
  <2>1. PICK l \in links : l.site = row.id
    BY <1>4 DEF Linked
  <2>2. PICK s \in FilterRegister(sites) : s.id = row.id
    BY <1>0, <2>1, SitesOfCrosswalk
  <2>3. link \in LinksOf(s) /\ link.maus = Min(Candidates(s))
    BY <1>0, <2>2, RepresentativeIs
  <2>4. Level(s) = "high"
    BY <1>4, <2>3, SiteIsLocated, LinkSays
  <2>5. s.place.inside # {} /\ Candidates(s) = s.place.inside
    BY <2>4, LevelHigh DEF Candidates
  <2>6. PICK j \in DOMAIN sites :
           sites[j].id = s.id /\ Alone(sites, j) /\ Within(sites, j) = s.place.inside
    BY HighIsInside
  <2>7. PICK p : p = Min(Within(sites, j))
    OBVIOUS
  <2>8. link.maus = p
    BY <2>3, <2>5, <2>6, <2>7
  <2>9. p \in DOMAIN footprints /\ footprints[p].support # None
        /\ ~(footprints[p].support < px)
    BY <1>4, <2>8 DEF SupportOf
  <2>10. /\ \E i \in DOMAIN base : Alone(base, i) /\ p \in Within(base, i)
         /\ g[p].usable /\ g[p].region \in Regions /\ g[p].pixels > 0
         /\ footprints[p].support = g[p].pixels
    BY <1>2, <2>9
  <2>11. g[p].pixels \in Nat
    BY <1>2, <1>3, <2>9
  <2>12. g[p].pixels >= px
    BY <2>9, <2>10, <2>11
  <2> QED
    BY <2>2, <2>5, <2>6, <2>7, <2>10, <2>12 DEF Earned
<1>5. ASSUME Earned(sites, base, g, px, row.id)
      PROVE  linked /\ link.confidence = "high" /\ support # None /\ ~(support < px)
  <2>1. PICK j \in DOMAIN sites :
           /\ sites[j].id = row.id /\ Alone(sites, j) /\ Within(sites, j) # {}
           /\ \E i \in DOMAIN base :
                 Alone(base, i) /\ Min(Within(sites, j)) \in Within(base, i)
           /\ g[Min(Within(sites, j))].usable /\ g[Min(Within(sites, j))].region \in Regions
           /\ g[Min(Within(sites, j))].pixels >= px /\ g[Min(Within(sites, j))].pixels > 0
    BY <1>5 DEF Earned
  <2>2. PICK p : p = Min(Within(sites, j))
    OBVIOUS
  <2>3. PICK s : s = sites[j]
    OBVIOUS
  <2>4. /\ s \in FilterRegister(sites) /\ s.id = row.id /\ Level(s) = "high"
        /\ Candidates(s) = Within(sites, j)
    BY <2>1, <2>3, InsideIsHigh
  <2>5. link \in LinksOf(s) /\ link.maus = p
    BY <1>0, <2>2, <2>4, RepresentativeIs
  <2>6. link.site = row.id /\ link.confidence = "high" /\ link.maus # NoPolygon
    BY <2>4, <2>5, SiteIsLocated, LinkSays
  <2>7. link \in links
    BY <1>0, <2>4, <2>5, CrosswalkIs
  <2>8. linked
    BY <2>6, <2>7 DEF Linked
  <2>9. /\ p \in DOMAIN footprints
        /\ footprints[p].support # None /\ footprints[p].support = g[p].pixels
    BY <1>2, <2>1, <2>2
  <2>10. g[p].pixels \in Nat /\ g[p].pixels >= px
    BY <1>2, <1>3, <2>1, <2>2, <2>9
  <2>11. support = footprints[p].support
    BY <2>5, <2>8, <2>9 DEF SupportOf
  <2> HIDE DEF linked, link, support
  <2>12. ~(footprints[p].support < px)
    BY <2>9, <2>10
  <2> QED
    BY <2>6, <2>8, <2>9, <2>11, <2>12
<1> HIDE DEF linked, link, support
<1>6. v.status = "eligible" <=> (passed \/ forced) /\ Earned(sites, base, g, px, row.id)
  BY <1>1, <1>4, <1>5 DEF Meets, linked, link, support
<1> QED
  BY <1>0, <1>6 DEF v

-----------------------------------------------------------------------------
(* Where each table comes from, given the snapshots, the grounds and the    *)
(* evidence.                                                                *)

IsRegister(t, snapshots) ==
    /\ t.minedex \in DOMAIN snapshots
    /\ t.rows = snapshots[t.minedex]

IsCrosswalk(t, snapshots) ==
    /\ t.minedex \in DOMAIN snapshots
    /\ t.links = BuildCrosswalk(snapshots[t.minedex])

IsInputs(t, snapshots, g) ==
    /\ t.minedex \in DOMAIN snapshots
    /\ \E n \in DOMAIN snapshots :
          t.footprints = FootprintSupport(g, snapshots[n], BuildCrosswalk(snapshots[t.minedex]))

IsThreshold(t, snapshots, g, e) ==
    /\ \E m, n \in DOMAIN snapshots :
          t.footprints = FootprintSupport(g, snapshots[n], BuildCrosswalk(snapshots[m]))
    /\ AdequateStrata(t.footprints) # {}
    /\ t.result = EvaluateThreshold(t.footprints, e)

VerdictsOf(t) ==
    [k \in DOMAIN t.register.rows |->
        Assign(t.register.rows[k], t.crosswalk.links, t.inputs.footprints,
               Applied(t.threshold.result), t.threshold.result.passed, t.forced)]

IsEligible(t, snapshots, g, e) ==
    /\ IsRegister(t.register, snapshots)
    /\ IsCrosswalk(t.crosswalk, snapshots)
    /\ IsInputs(t.inputs, snapshots, g)
    /\ IsThreshold(t.threshold, snapshots, g, e)
    /\ t.forced \in BOOLEAN
    /\ ~(t.forced /\ t.threshold.result.passed)
    /\ t.rows = VerdictsOf(t)

IInv ==
    /\ ground \in [Polygons -> Grounds]
    /\ IsEvidence(evidence)
    /\ minedex \in Seq(Snapshots) /\ Len(minedex) > 0
    /\ register # None => IsRegister(register, minedex)
    /\ crosswalk # None => IsCrosswalk(crosswalk, minedex)
    /\ inputs # None => IsInputs(inputs, minedex, ground)
    /\ threshold # None => IsThreshold(threshold, minedex, ground, evidence)
    /\ eligible # None => IsEligible(eligible, minedex, ground, evidence)

(* A later snapshot takes nothing away.                                     *)
LEMMA MoreSnapshots ==
    ASSUME NEW snapshots \in Seq(Snapshots), NEW sites \in Snapshots,
           NEW more, more = Append(snapshots, sites), NEW t, NEW g, NEW e
    PROVE  /\ IsRegister(t, snapshots) => IsRegister(t, more)
           /\ IsCrosswalk(t, snapshots) => IsCrosswalk(t, more)
           /\ IsInputs(t, snapshots, g) => IsInputs(t, more, g)
           /\ IsThreshold(t, snapshots, g, e) => IsThreshold(t, more, g, e)
<1>1. DOMAIN snapshots \subseteq DOMAIN more /\ \A n \in DOMAIN snapshots : more[n] = snapshots[n]
  <2>1. PICK k : k = Len(snapshots)
    OBVIOUS
  <2>2. k \in Nat /\ DOMAIN snapshots = 1 .. k
    BY <2>1
  <2>3. DOMAIN more = 1 .. k + 1 /\ \A n \in 1 .. k : more[n] = snapshots[n]
    BY <2>1, <2>2
  <2> QED
    BY <2>2, <2>3
<1>2. IsRegister(t, snapshots) => IsRegister(t, more)
  BY <1>1 DEF IsRegister
<1>3. IsCrosswalk(t, snapshots) => IsCrosswalk(t, more)
  BY <1>1 DEF IsCrosswalk
<1>4. IsInputs(t, snapshots, g) => IsInputs(t, more, g)
  BY <1>1 DEF IsInputs
<1>5. IsThreshold(t, snapshots, g, e) => IsThreshold(t, more, g, e)
  BY <1>1 DEF IsThreshold
<1> QED
  BY <1>2, <1>3, <1>4, <1>5

LEMMA InitIInv == ASSUME Init PROVE IInv
<1>1. PICK w \in Worlds : ground = w.ground /\ evidence = w.evidence /\ minedex = <<w.sites>>
  BY DEF Init
<1>2. ground \in [Polygons -> Grounds] /\ IsEvidence(evidence)
  BY <1>1, WorldsAssumption
<1>3. w.sites \in Snapshots
  BY DEF Snapshots
<1>4. minedex \in Seq(Snapshots) /\ Len(minedex) > 0
  BY <1>1, <1>3
<1> QED
  BY <1>2, <1>4 DEF Init, IInv

LEMMA LatestIs ==
    ASSUME NEW snapshots \in Seq(Snapshots), Len(snapshots) > 0
    PROVE  Len(snapshots) \in DOMAIN snapshots
OBVIOUS

LEMMA StepIInv == ASSUME IInv, [Next]_vars PROVE IInv'
<1>1. CASE FetchMinedex
  <2>1. PICK sites \in Republished : minedex' = Append(minedex, sites)
    BY <1>1 DEF FetchMinedex
  <2>2. sites \in Snapshots
    BY DEF Snapshots
  <2>3. minedex' \in Seq(Snapshots) /\ Len(minedex') > 0
    BY <2>1, <2>2 DEF IInv
  <2>4. \A t : /\ IsRegister(t, minedex) => IsRegister(t, minedex')
               /\ IsCrosswalk(t, minedex) => IsCrosswalk(t, minedex')
               /\ IsInputs(t, minedex, ground) => IsInputs(t, minedex', ground)
               /\ IsThreshold(t, minedex, ground, evidence) =>
                     IsThreshold(t, minedex', ground, evidence)
    BY <2>1, <2>2, MoreSnapshots DEF IInv
  <2>5. eligible # None => IsEligible(eligible, minedex', ground, evidence)
    BY <2>4 DEF IInv, IsEligible
  <2>6. UNCHANGED <<ground, evidence, register, crosswalk, inputs, threshold, eligible>>
    BY <1>1 DEF FetchMinedex
  <2> QED
    BY <2>3, <2>4, <2>5, <2>6 DEF IInv
<1>2. CASE BuildRegister
  <2>1. PICK t : t = [rows |-> minedex[Len(minedex)], minedex |-> Len(minedex)]
    OBVIOUS
  <2>2. IsRegister(t, minedex)
    BY <2>1, LatestIs DEF IInv, IsRegister
  <2>3. /\ register' = t
        /\ UNCHANGED <<ground, evidence, minedex, crosswalk, inputs, threshold, eligible>>
    BY <1>2, <2>1 DEF BuildRegister
  <2> QED
    BY <2>2, <2>3 DEF IInv
<1>3. CASE BuildSiteCrosswalk
  <2>1. PICK t : t = [links |-> BuildCrosswalk(register.rows), minedex |-> register.minedex]
    OBVIOUS
  <2>2. IsRegister(register, minedex)
    BY <1>3 DEF BuildSiteCrosswalk, IInv
  <2>3. IsCrosswalk(t, minedex)
    BY <2>1, <2>2 DEF IsRegister, IsCrosswalk
  <2>4. /\ crosswalk' = t
        /\ UNCHANGED <<ground, evidence, minedex, register, inputs, threshold, eligible>>
    BY <1>3, <2>1 DEF BuildSiteCrosswalk
  <2> QED
    BY <2>3, <2>4 DEF IInv
<1>4. CASE BuildInputs
  <2>1. PICK t : t = [footprints |-> FootprintSupport(ground, register.rows, crosswalk.links),
                      minedex |-> crosswalk.minedex]
    OBVIOUS
  <2>2. IsRegister(register, minedex) /\ IsCrosswalk(crosswalk, minedex)
    BY <1>4 DEF BuildInputs, IInv
  <2>3. IsInputs(t, minedex, ground)
    BY <2>1, <2>2 DEF IsRegister, IsCrosswalk, IsInputs
  <2>4. /\ inputs' = t
        /\ UNCHANGED <<ground, evidence, minedex, register, crosswalk, threshold, eligible>>
    BY <1>4, <2>1 DEF BuildInputs
  <2> QED
    BY <2>3, <2>4 DEF IInv
<1>5. CASE DeriveThreshold
  <2>1. PICK t : t = [result |-> EvaluateThreshold(inputs.footprints, evidence),
                      footprints |-> inputs.footprints]
    OBVIOUS
  <2>2. IsInputs(inputs, minedex, ground) /\ AdequateStrata(inputs.footprints) # {}
    BY <1>5 DEF DeriveThreshold, IInv
  <2>3. t.result = EvaluateThreshold(t.footprints, evidence) /\ t.footprints = inputs.footprints
    BY <2>1
  <2>4. IsThreshold(t, minedex, ground, evidence)
    BY <2>2, <2>3 DEF IsInputs, IsThreshold
  <2>5. /\ threshold' = t
        /\ UNCHANGED <<ground, evidence, minedex, register, crosswalk, inputs, eligible>>
    BY <1>5, <2>1 DEF DeriveThreshold
  <2> QED
    BY <2>4, <2>5 DEF IInv
<1>6. ASSUME NEW forced \in BOOLEAN, ApplyThreshold(forced) PROVE IInv'
  <2>1. PICK verdicts :
           verdicts = [k \in DOMAIN register.rows |->
                          Assign(register.rows[k], crosswalk.links, inputs.footprints,
                                 Applied(threshold.result), threshold.result.passed, forced)]
    OBVIOUS
  <2>2. PICK t : t = [rows |-> verdicts, forced |-> forced, register |-> register,
                      crosswalk |-> crosswalk, inputs |-> inputs, threshold |-> threshold]
    OBVIOUS
  <2>3. /\ t.rows = verdicts /\ t.forced = forced /\ t.register = register
        /\ t.crosswalk = crosswalk /\ t.inputs = inputs /\ t.threshold = threshold
    BY <2>2
  <2>4. /\ IsRegister(register, minedex) /\ IsCrosswalk(crosswalk, minedex)
        /\ IsInputs(inputs, minedex, ground)
        /\ IsThreshold(threshold, minedex, ground, evidence)
    BY <1>6 DEF ApplyThreshold, IInv
  <2>5. ~(forced /\ threshold.result.passed)
    BY <1>6 DEF ApplyThreshold
  <2>6. t.rows = VerdictsOf(t)
    BY <2>1, <2>3 DEF VerdictsOf
  <2>7. IsEligible(t, minedex, ground, evidence)
    BY <2>3, <2>4, <2>5, <2>6 DEF IsEligible
  <2>8. /\ eligible' = t
        /\ UNCHANGED <<ground, evidence, minedex, register, crosswalk, inputs, threshold>>
    BY <1>6, <2>1, <2>2 DEF ApplyThreshold
  <2> QED
    BY <2>7, <2>8 DEF IInv
<1>7. CASE UNCHANGED vars
  BY <1>7 DEF vars, IInv
<1> QED
  BY <1>1, <1>2, <1>3, <1>4, <1>5, <1>6, <1>7 DEF Next

(* Whatever is fetched, repeated or moved between two commands, each table  *)
(* stays what its builder makes of the snapshots it was built from.         *)
THEOREM ChainInvariance == Spec => []IInv
<1>1. Init => IInv
  BY InitIInv
<1>2. IInv /\ [Next]_vars => IInv'
  BY StepIInv
<1> QED
  BY <1>1, <1>2, PTL DEF Spec

-----------------------------------------------------------------------------
(* What the invariants say of tables with such origins.                     *)

LEMMA SnapshotIsWellPlaced ==
    ASSUME IInv, NEW n \in DOMAIN minedex
    PROVE  WellPlaced(minedex[n])
<1>1. minedex[n] \in Snapshots
  <2>1. minedex \in [1 .. Len(minedex) -> Snapshots] /\ DOMAIN minedex = 1 .. Len(minedex)
    BY DEF IInv
  <2> QED
    BY <2>1
<1> QED
  BY <1>1, WorldsAssumption DEF WellPlaced

LEMMA ThresholdIs ==
    ASSUME IInv, NEW t, IsThreshold(t, minedex, ground, evidence)
    PROVE  /\ IsFiniteSet(DOMAIN t.footprints)
           /\ t.result.nStar \in Supports
           /\ Applied(t.result) \in Nat
<1>1. PICK m \in DOMAIN minedex, n \in DOMAIN minedex :
         t.footprints = FootprintSupport(ground, minedex[n], BuildCrosswalk(minedex[m]))
  BY DEF IsThreshold
<1>2. DOMAIN t.footprints \in SUBSET Polygons
  BY <1>1, SnapshotIsWellPlaced, SupportIs DEF IInv
<1>3. IsFiniteSet(DOMAIN t.footprints)
  BY <1>2, FS_Subset, MatchingAssumption
<1>4. t.result.nStar \in Supports
  BY RuleIsEarned DEF IInv, IsThreshold
<1>5. Applied(t.result) \in Supports
  BY <1>4, ThresholdAssumption DEF Applied
<1> QED
  BY <1>3, <1>4, <1>5, ThresholdAssumption

LEMMA Types == IInv => TypeOK
<1> SUFFICES ASSUME IInv PROVE TypeOK
  OBVIOUS
<1>1. ASSUME NEW n \in DOMAIN minedex, NEW k \in DOMAIN minedex[n]
      PROVE  minedex[n][k].place \in Places
  BY SnapshotIsWellPlaced DEF WellPlaced
<1>2. ASSUME inputs # None, NEW p \in DOMAIN inputs.footprints
      PROVE  p \in Polygons /\ TypedFootprint(inputs.footprints[p])
  <2>1. PICK n \in DOMAIN minedex :
           inputs.footprints =
              FootprintSupport(ground, minedex[n], BuildCrosswalk(minedex[inputs.minedex]))
    BY <1>2 DEF IInv, IsInputs
  <2>2. WellPlaced(minedex[inputs.minedex])
    BY <1>2, SnapshotIsWellPlaced DEF IInv, IsInputs
  <2>3. ground \in [Polygons -> Grounds]
    BY DEF IInv
  <2> QED
    BY <2>1, <2>2, <2>3, SupportIs
<1>3. threshold # None => threshold.result.nStar \in Supports
  BY ThresholdIs DEF IInv
<1>4. ASSUME eligible # None, NEW k \in DOMAIN eligible.rows
      PROVE  eligible.rows[k].status \in Statuses
  <2>1. IsEligible(eligible, minedex, ground, evidence)
    BY <1>4 DEF IInv
  <2>2. Applied(eligible.threshold.result) \in Nat
    BY <2>1, ThresholdIs DEF IsEligible
  <2>3. PICK row, links, footprints, px, passed, forced :
           /\ px = Applied(eligible.threshold.result)
           /\ eligible.rows[k] = Assign(row, links, footprints, px, passed, forced)
    BY <1>4, <2>1 DEF IsEligible, VerdictsOf
  <2>4. px \in Nat
    BY <2>2, <2>3
  <2>5. Assign(row, links, footprints, px, passed, forced).status \in Statuses
    BY <2>4, AssignIs
  <2> QED
    BY <2>3, <2>5
<1> QED
  BY <1>1, <1>2, <1>3, <1>4 DEF IInv, TypeOK, TypedFootprint

LEMMA Levels == IInv => LevelsPartitionSites
<1> SUFFICES ASSUME IInv, register # None PROVE LevelsPartitionSites
  BY DEF LevelsPartitionSites
<1>1. register.minedex \in DOMAIN minedex /\ register.rows = minedex[register.minedex]
  BY DEF IInv, IsRegister
<1>2. WellPlaced(register.rows)
  BY <1>1, SnapshotIsWellPlaced
<1> QED
  BY <1>2, Partitions DEF LevelsPartitionSites

LEMMA Threshold == IInv => ThresholdIsEarned
<1> SUFFICES ASSUME IInv, threshold # None PROVE ThresholdIsEarned
  BY DEF ThresholdIsEarned
<1>1. PICK f : f = threshold.footprints
  OBVIOUS
<1>2. PICK r : r = threshold.result
  OBVIOUS
<1> DEFINE below == {n \in Supports : n < FullSupport}
           adequate == {s \in Strata : \E ps \in SUBSET DOMAIN f :
                          /\ Cardinality(ps) = MinFootprints
                          /\ \A p \in ps : f[p].stratum = s /\ f[p].full >= MinYears}
           failed(n) == FailedCells(f, evidence, n)
           holds(n) == \A s \in adequate :
               /\ FractionHolds(f, s)
               /\ \A c \in DOMAIN evidence[s], k \in Criteria : evidence[s][c][n][k] = "within"
<1>3. /\ IsThreshold(threshold, minedex, ground, evidence) /\ IsFiniteSet(DOMAIN f)
      /\ IsEvidence(evidence)
  BY <1>1, ThresholdIs DEF IInv
<1>4. AdequateStrata(f) = adequate
  BY <1>3, AdequateStrataAre
<1>5. adequate # {} /\ r = EvaluateThreshold(f, evidence)
  BY <1>1, <1>2, <1>3, <1>4 DEF IsThreshold
<1>6. \A n : failed(n) = {} <=> holds(n)
  BY <1>3, <1>4, NoneFails
<1>7. /\ r.passed => /\ r.nStar \in below /\ failed(r.nStar) = {} /\ r.failed = {}
                     /\ \A n \in below : failed(n) = {} => r.nStar <= n
      /\ ~r.passed => /\ r.nStar = FullSupport
                      /\ \A n \in below : failed(n) # {}
                      /\ \E n \in below : r.failed = failed(n)
                      /\ \A n \in below : Cardinality(r.failed) <= Cardinality(failed(n))
  BY <1>3, <1>5, RuleIsEarned
<1> HIDE DEF below, adequate, failed, holds
<1>8. /\ adequate # {}
      /\ r.passed => /\ r.nStar \in below /\ holds(r.nStar) /\ r.failed = {}
                     /\ \A n \in below : holds(n) => r.nStar <= n
      /\ ~r.passed => /\ r.nStar = FullSupport
                      /\ \A n \in below : ~holds(n)
                      /\ \E n \in below : r.failed = failed(n)
                      /\ \A n \in below : Cardinality(r.failed) <= Cardinality(failed(n))
  BY <1>5, <1>6, <1>7
<1> QED
  BY <1>1, <1>2, <1>8 DEF ThresholdIsEarned, below, adequate, failed, holds

LEMMA Eligible == IInv => EligibleIsEarned
<1> SUFFICES ASSUME IInv, eligible # None PROVE EligibleIsEarned
  BY DEF EligibleIsEarned
<1>1. PICK rows, sites, base, result, px :
         /\ rows = eligible.register.rows
         /\ sites = minedex[eligible.crosswalk.minedex]
         /\ base = minedex[eligible.inputs.minedex]
         /\ result = eligible.threshold.result
         /\ px = Applied(result)
  OBVIOUS
<1>2. IsEligible(eligible, minedex, ground, evidence)
  BY DEF IInv
<1>3. px \in Nat /\ ground \in [Polygons -> Grounds]
  BY <1>1, <1>2, ThresholdIs DEF IsEligible, IInv
<1>4. WellPlaced(sites) /\ WellPlaced(base)
  BY <1>1, <1>2, SnapshotIsWellPlaced DEF IsEligible, IsCrosswalk, IsInputs
<1>5. PICK n \in DOMAIN minedex :
         eligible.inputs.footprints = FootprintSupport(ground, minedex[n], BuildCrosswalk(base))
  BY <1>1, <1>2 DEF IsEligible, IsInputs
<1>6. eligible.crosswalk.links = BuildCrosswalk(sites)
  BY <1>1, <1>2 DEF IsEligible, IsCrosswalk
<1>7. PICK links, footprints, passed, forced :
         /\ links = BuildCrosswalk(sites)
         /\ footprints = FootprintSupport(ground, minedex[n], BuildCrosswalk(base))
         /\ passed = result.passed /\ forced = eligible.forced
         /\ \A k \in DOMAIN rows :
               eligible.rows[k] = Assign(rows[k], links, footprints, px, passed, forced)
  BY <1>1, <1>2, <1>5, <1>6 DEF IsEligible, VerdictsOf
<1>8. eligible.forced => ~result.passed /\ result.nStar = FullSupport
  <2>1. ~result.passed => result.nStar = FullSupport
    BY <1>1, <1>2, RuleIsEarned DEF IInv, IsEligible, IsThreshold
  <2> QED
    BY <1>1, <1>2, <2>1 DEF IsEligible
<1>9. ASSUME NEW k \in DOMAIN rows
      PROVE  eligible.rows[k].status = "eligible" <=>
                (passed \/ forced) /\ Earned(sites, base, ground, px, rows[k].id)
  <2>1. PICK row : row = rows[k]
    OBVIOUS
  <2>2. Assign(row, links, footprints, px, passed, forced).status = "eligible" <=>
           (passed \/ forced) /\ Earned(sites, base, ground, px, row.id)
    BY <1>3, <1>4, <1>7, EligibleIs
  <2>3. eligible.rows[k] = Assign(row, links, footprints, px, passed, forced)
    BY <1>7, <2>1
  <2> QED
    BY <2>1, <2>2, <2>3
<1>10. ASSUME NEW k \in DOMAIN rows, eligible.rows[k].eligible = TRUE
       PROVE  eligible.rows[k].px = px /\ eligible.rows[k].forced = ~result.passed
  <2>1. PICK row, v : row = rows[k] /\ v = Assign(row, links, footprints, px, passed, forced)
    OBVIOUS
  <2>2. v.eligible = TRUE => v.status = "eligible" /\ v.px = px /\ v.forced = forced
    <3>1. SaysWhy(Assign(row, links, footprints, px, passed, forced), px, forced)
      BY <1>3, AssignIs
    <3> QED
      BY <2>1, <3>1 DEF SaysWhy
  <2>3. v = eligible.rows[k]
    BY <1>7, <2>1
  <2>4. passed \/ forced
    <3>1. eligible.rows[k].status = "eligible"
      BY <1>10, <2>2, <2>3
    <3> QED
      BY <1>9, <3>1
  <2>5. forced \in BOOLEAN /\ passed \in BOOLEAN
    BY <1>1, <1>2, <1>7, RuleIsEarned DEF IInv, IsEligible, IsThreshold
  <2>6. forced => ~passed
    BY <1>7, <1>8
  <2>7. forced = ~passed
    BY <2>4, <2>5, <2>6
  <2> QED
    BY <1>7, <1>10, <2>2, <2>3, <2>7
<1>11. \A k \in DOMAIN rows :
          /\ eligible.rows[k].status = "eligible" <=>
                (result.passed \/ eligible.forced) /\ Earned(sites, base, ground, px, rows[k].id)
          /\ eligible.rows[k].eligible = TRUE =>
                eligible.rows[k].px = px /\ eligible.rows[k].forced = ~result.passed
  BY <1>7, <1>9, <1>10
<1>12. /\ eligible.forced =>
             ~eligible.threshold.result.passed /\ eligible.threshold.result.nStar = FullSupport
       /\ \A k \in DOMAIN eligible.register.rows :
             /\ eligible.rows[k].status = "eligible" <=>
                   /\ eligible.threshold.result.passed \/ eligible.forced
                   /\ Earned(minedex[eligible.crosswalk.minedex],
                             minedex[eligible.inputs.minedex], ground,
                             Applied(eligible.threshold.result), eligible.register.rows[k].id)
             /\ eligible.rows[k].eligible = TRUE =>
                   /\ eligible.rows[k].px = Applied(eligible.threshold.result)
                   /\ eligible.rows[k].forced = ~eligible.threshold.result.passed
  BY <1>1, <1>8, <1>11
<1> QED
  BY <1>12 DEF EligibleIsEarned, Earned, Alone, Within

(* The tables have their types; a support is never 0, and years are counted *)
(* only where there is a support.                                           *)
THEOREM ChainTypes == Spec => []TypeOK
BY ChainInvariance, Types, PTL

(* Every located site with an id of its own is at exactly one confidence    *)
(* level of the crosswalk, and the counts by level reconcile: the refusal   *)
(* of build-crosswalk never fires.                                          *)
THEOREM LevelsPartition == Spec => []LevelsPartitionSites
BY ChainInvariance, Levels, PTL

(* n* of derive-d3-threshold is the smallest support below 144 pixels at    *)
(* which every criterion of every adequate stratum holds; else it is 144    *)
(* and the failures listed are the fewest.                                  *)
THEOREM ThresholdEarned == Spec => []ThresholdIsEarned
BY ChainInvariance, Threshold, PTL

(* apply-d3-threshold calls a site eligible exactly if the five tables it   *)
(* was judged by earn it, however many fetches came between them.           *)
THEOREM EligibleEarned == Spec => []EligibleIsEarned
BY ChainInvariance, Eligible, PTL
=============================================================================
