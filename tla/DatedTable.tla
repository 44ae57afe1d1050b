----------------------------- MODULE DatedTable ------------------------------
(***************************************************************************)
(* What the partitioned trajectory store promises (trajectory_extract.py): *)
(* "A partition is IMMUTABLE once written"; a dated table is filled by one *)
(* run identity only, is finished when it holds exactly what that identity *)
(* covers, and is frozen from then on.  Crashes, re-runs, manifests and    *)
(* files do not appear here.                                               *)
(***************************************************************************)
CONSTANTS
    Dates,
    Partitions,
    Runs,       \* run identities
    Expected    \* [Runs -> SUBSET Partitions]: the partitions a run covers

VARIABLES
    table,      \* table[d][p]: what is committed, none or one [run, failed]
    finished    \* finished[d]: the table is complete

Filled(d) == {p \in Partitions : table[d][p] # {}}

OnlyRun(d, r) == \A p \in Partitions : \A c \in table[d][p] : c.run = r

Init ==
    /\ table = [d \in Dates |-> [p \in Partitions |-> {}]]
    /\ finished = [d \in Dates |-> FALSE]

Commit(d, p) ==
    /\ ~finished[d]
    /\ table[d][p] = {}
    /\ \E r \in Runs, f \in BOOLEAN :
          /\ p \in Expected[r]
          /\ OnlyRun(d, r)
          /\ table' = [table EXCEPT ![d][p] = {[run |-> r, failed |-> f]}]
    /\ UNCHANGED finished

Finish(d) ==
    /\ ~finished[d]
    /\ \E r \in Runs : Filled(d) = Expected[r] /\ OnlyRun(d, r)
    /\ finished' = [finished EXCEPT ![d] = TRUE]
    /\ UNCHANGED table

(* The operator moves the dated directory aside. *)
Discard(d) ==
    /\ table' = [table EXCEPT ![d] = [p \in Partitions |-> {}]]
    /\ finished' = [finished EXCEPT ![d] = FALSE]

Next ==
    \E d \in Dates :
        \/ \E p \in Partitions : Commit(d, p)
        \/ Finish(d)
        \/ Discard(d)

Spec == Init /\ [][Next]_<<table, finished>>

=============================================================================
