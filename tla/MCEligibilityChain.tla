-------------------------- MODULE MCEligibilityChain --------------------------
(* Two polygons and up to two sites; supports of 9, 100 and 144 pixels, one *)
(* region, strata adequate from one footprint with two computable years on, *)
(* of which one is simulated.  The worlds vary either where the sites are,  *)
(* or the grounds, or what the simulation gives.                            *)
EXTENDS EligibilityChain

CONSTANTS a, b, noId, nowhere, none

At(inside, near) == [inside |-> inside, near |-> near]
Row(id, place, commodity) == [id |-> id, place |-> place, commodity |-> commodity]

MCPlaces ==
    {nowhere, At({}, {}), At({}, {2}), At({}, {1, 2}), At({1}, {1}), At({1}, {1, 2}),
     At({2}, {2}), At({1, 2}, {1, 2})}

Ground(usable, region, pixels, epoch, computable) ==
    [usable |-> usable, region |-> region, pixels |-> pixels, epoch |-> epoch,
     computable |-> computable]

Full == Ground(TRUE, "pilbara", 144, 2, 2)

MCGrounds ==
    {Full, Ground(TRUE, "pilbara", 145, 2, 1), Ground(TRUE, "pilbara", 200, 3, 2),
     Ground(TRUE, "pilbara", 143, 2, 2), Ground(TRUE, "pilbara", 99, 2, 2),
     Ground(TRUE, "pilbara", 0, 0, 0), Ground(TRUE, "pilbara", 144, 0, 0),
     Ground(TRUE, "outside", 144, 2, 2), Ground(FALSE, "pilbara", 144, 2, 2)}

Cell(p90, spearman) == [p90 |-> p90, spearman |-> spearman]
AllWithin == [n \in {9, 100, 144} |-> Cell("within", "within")]

Evidence(strata, collections, results) ==
    [s \in Strata |-> [c \in collections |-> IF s[2] \in strata THEN results ELSE AllWithin]]

MCResults ==
    {[n \in {9, 100, 144} |-> CASE n = 9 -> x [] n = 100 -> y [] n = 144 -> z] :
        x \in {Cell("within", "within"), Cell("beyond", "within"), Cell("beyond", "none")},
        y \in {Cell("within", "within"), Cell("within", "beyond"), Cell("none", "none")},
        z \in {Cell("within", "within"), Cell("within", "none")}}

World(sites, g1, g2, evidence0) ==
    [sites |-> sites, ground |-> <<g1, g2>>, evidence |-> evidence0]

MCSites ==
    {<<Row(i, p, "gold"), Row(j, q, c)>> :
        i \in {a, noId}, p \in MCPlaces, j \in {a, b, noId}, q \in MCPlaces,
        c \in {"iron_ore", none}}

Apart == <<Row(a, At({1}, {1, 2}), "gold"), Row(b, At({2}, {2}), "iron_ore")>>
Together == <<Row(a, At({1}, {1}), "gold"), Row(b, At({1, 2}, {1, 2}), "gold")>>

MCWorlds ==
    {World(s, Full, Ground(TRUE, "pilbara", 99, 2, 2), Evidence({}, Collections, AllWithin)) :
        s \in MCSites}
    \cup {World(s, g, h, Evidence({"gold"}, Collections, r)) :
        s \in {Apart, Together}, g \in MCGrounds, h \in MCGrounds,
        r \in {AllWithin, [AllWithin EXCEPT ![9] = Cell("beyond", "within")]}}
    \cup {World(s, Full, Full, Evidence(t, c, r)) :
        s \in {Apart, Together}, t \in SUBSET {"gold", "iron_ore"},
        c \in {{"fc"}, Collections}, r \in MCResults}

(* A later fetch: a site repeated, moved, or gone.                          *)
MCRepublished ==
    {<<Row(a, At({1}, {1}), "gold"), Row(a, At({1}, {1}), "gold")>>,
     <<Row(a, At({2}, {2}), "gold"), Row(b, At({2}, {2}), "iron_ore")>>,
     <<Row(b, At({1, 2}, {1, 2}), none)>>}

MCHashRank == <<2, 1>>
MCMaxUncovered == <<1, 2>>
MCMinFraction == <<9, 10>>
=============================================================================
