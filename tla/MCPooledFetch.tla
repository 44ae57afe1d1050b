---------------------------- MODULE MCPooledFetch -----------------------------
(* Four jobs on two threads, or on the calling one (max_workers 0), two     *)
(* attempts, two pages; a server that asks for a negative wait and for one  *)
(* above the cap.                                                           *)
EXTENDS PooledFetch

MCRetryAfters == {-1, 5}

=============================================================================
