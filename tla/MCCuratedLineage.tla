--------------------------- MODULE MCCuratedLineage ---------------------------
(* Two dates, two Maus extracts and two contents of the protocol config,   *)
(* which nothing distinguishes.                                            *)
EXTENDS CuratedLineage, TLC

CONSTANTS p1, p2

MCProtocols == {p1, p2}
MCSymmetry == Permutations(MCProtocols)

=============================================================================
