----------------------------- MODULE OrderedPool ------------------------------
(***************************************************************************)
(* The two helpers that run jobs on a thread pool and must look serial:    *)
(* map_concurrent (http.py), used by fetch-dea-catalogue over collections, *)
(* and _run_reads_in_serial_order (cli.py), used by build-d3-inputs over   *)
(* raster reads.  Every job is submitted at once; the calling thread then  *)
(* takes the futures in submission order.                                  *)
(***************************************************************************)
EXTENDS Integers, Sequences, FiniteSets

CONSTANTS
    N,          \* the number of jobs
    Workers,    \* the max_workers and --read-workers asked for
    None        \* a slot without a result; not returned yet

ASSUME PoolAssumption ==
    /\ N \in Nat
    /\ Workers \subseteq Nat
    /\ None \notin Nat

VARIABLES
    mode,       \* which helper, its workers, tolerate_errors
    job,        \* job[i]: waiting, running, or how its future ended
    slots,      \* what the calling thread took from the futures so far
    firstError, \* the first future that raised, 0 if none
    returned    \* None, or what the caller gets

poolVars == <<mode, job, slots, firstError, returned>>

Jobs == 1 .. N

Modes ==
    [helper : {"map"}, workers : Workers, tolerate : BOOLEAN]
        \cup [helper : {"reads"}, workers : Workers \ {0}, tolerate : {FALSE}]

(* Mutant: map_concurrent takes max_workers as it is. *)
ThreadsAsAsked == mode.workers

(* max(1, int(max_workers)), and min(workers, len(jobs)).                   *)
Threads ==
    IF mode.helper = "map" /\ mode.workers = 0 THEN 1
    ELSE IF mode.helper = "reads" /\ N < mode.workers THEN N
    ELSE mode.workers

(* map_concurrent without a pool: on the calling thread. *)
Inline == mode.helper = "map" /\ (Threads = 1 \/ N <= 1)

Running == {i \in Jobs : job[i] = "running"}
Ended(i) == job[i] \in {"value", "error"}
Raises(i) == [raised |-> i, list |-> <<>>]
Returns(list) == [raised |-> 0, list |-> list]

PoolInit ==
    /\ mode \in Modes
    /\ job = [i \in Jobs |-> "waiting"]
    /\ slots = <<>>
    /\ firstError = 0
    /\ returned = None

(* A free thread takes the job submitted first; inline, the loop calls fn. *)
Start(i) ==
    /\ returned = None
    /\ job[i] = "waiting"
    /\ \A j \in Jobs : j < i => job[j] # "waiting"
    /\ IF Inline THEN Len(slots) + 1 = i ELSE Cardinality(Running) < Threads
    /\ job' = [job EXCEPT ![i] = "running"]
    /\ UNCHANGED <<mode, slots, firstError, returned>>

Finish(i, how) ==
    /\ job[i] = "running"
    /\ how \in {"value", "error"}
    /\ job' = [job EXCEPT ![i] = how]
    /\ UNCHANGED <<mode, slots, firstError, returned>>

(* Mutant: futures are taken as they complete. *)
NextOfAny(i) == \A k \in 1 .. Len(slots) : slots[k] # i

(* The future the calling thread waits for: they are taken in order. *)
NextTaken(i) == i = Len(slots) + 1

(* future.result() of the next job; inline, an exception ends the loop.     *)
Take(i) ==
    /\ returned = None
    /\ NextTaken(i)
    /\ Ended(i)
    /\ IF job[i] = "value"
         THEN /\ slots' = Append(slots, i)
              /\ UNCHANGED <<firstError, returned>>
       ELSE IF Inline /\ ~mode.tolerate
         THEN /\ returned' = Raises(i)
              /\ UNCHANGED <<slots, firstError>>
       ELSE /\ slots' = Append(slots, None)
            /\ firstError' = IF firstError = 0 /\ ~mode.tolerate THEN i ELSE firstError
            /\ UNCHANGED returned
    /\ UNCHANGED <<mode, job>>

(* Mutant: the first failure taken is raised before the other jobs end.     *)
TakenOrFailed == Len(slots) = N \/ firstError # 0

(* All futures are taken, so the pool has nothing left to do. *)
AllTaken == Len(slots) = N

Return ==
    /\ returned = None
    /\ AllTaken
    /\ returned' = IF firstError # 0 THEN Raises(firstError) ELSE Returns(slots)
    /\ UNCHANGED <<mode, job, slots, firstError>>

PoolNext ==
    \/ \E i \in Jobs :
          \/ Start(i)
          \/ \E how \in {"value", "error"} : Finish(i, how)
          \/ Take(i)
    \/ Return

PoolSpec == PoolInit /\ [][PoolNext]_poolVars

-----------------------------------------------------------------------------
Serial == INSTANCE SerialMap WITH
    tolerate <- mode.tolerate,
    results <- IF firstError = 0 THEN slots ELSE SubSeq(slots, 1, firstError - 1)

(* Whatever order the threads run and end in, the caller gets what the      *)
(* serial loop would give it: results in submission order, or the exception *)
(* of the first failing item, "so refusal text never depends on thread      *)
(* timing".                                                                 *)
ImplementsSerialMap == Serial!Spec

(* When a pooled call returns or raises, no job of it runs or waits: a      *)
(* refused fetch-dea-catalogue sends no further request, and a refused      *)
(* build-d3-inputs has no reader left in a closed dataset.                  *)
NothingRunsAfterReturn ==
    returned # None /\ ~Inline => \A i \in Jobs : Ended(i)

=============================================================================
