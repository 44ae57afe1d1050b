------------------------- MODULE MCTrajectoryExtract -------------------------
(* Two registers (the second drops a site) and two environments (the second *)
(* catalogue has fewer items: s2 loses partition 1).                        *)
EXTENDS TrajectoryExtract, TLC

CONSTANTS s1, s2, r1, r2, e1, e2

MCEligible == r1 :> {s1, s2} @@ r2 :> {s1}

MCCovered == e1 :> (s1 :> {1} @@ s2 :> {1, 2}) @@ e2 :> (s1 :> {1} @@ s2 :> {2})

=============================================================================
