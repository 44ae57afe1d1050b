------------------------ MODULE MCTrajectoryPipeline -------------------------
(* The registers all sit under one directory name: the operator moved one   *)
(* aside and rebuilt it for the same date.  They have the same eligible     *)
(* sites but differ in a site.                                              *)
EXTENDS TrajectoryPipeline, TLC

MCEligible == [r \in Registers |-> Sites]

MCCovered == [e \in Envs |-> [s \in Sites |-> Partitions]]

(* The environments are numbered: the catalogue of the second has no item   *)
(* of the first partition.                                                  *)
MCCoveredLess == [e \in Envs |-> [s \in Sites |-> {p \in Partitions : p >= e}]]

MCRegisterDir == [r \in Registers |-> 1]

MCRowContent == [r \in Registers |-> r]

MCCrosswalk == [e \in Envs |-> e]

(* Sites and registers are interchangeable: nothing orders them, and the    *)
(* definitions above treat them alike.                                      *)
MCSymmetry == Permutations(Sites) \cup Permutations(Registers)

=============================================================================
