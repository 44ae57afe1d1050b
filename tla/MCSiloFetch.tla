----------------------------- MODULE MCSiloFetch ------------------------------
(* Two years, every range of them; two upstream revisions of the objects    *)
(* and one truncated content.                                               *)
EXTENDS SiloFetch

CONSTANTS revision1, revision2, truncated

MCRanges == {{1}, {2}, {1, 2}}

MCBytes == {revision1, revision2, truncated}

MCValid == {revision1, revision2}

=============================================================================
