---------------------------- MODULE MCRawSnapshot -----------------------------
(* Every source, two upstream revisions of which the second catalogue has   *)
(* fewer pages.                                                             *)
EXTENDS RawSnapshot

CONSTANTS revision1, revision2

MCRevisions == {revision1, revision2}

MCPages ==
    [r \in MCRevisions |-> IF r = revision1 THEN <<"page1", "page2">> ELSE <<"page1">>]

=============================================================================
