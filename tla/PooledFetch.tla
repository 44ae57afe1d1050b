----------------------------- MODULE PooledFetch ------------------------------
(***************************************************************************)
(* The jobs the pool runs.  Under map_concurrent a job is                  *)
(* fetch_collection_catalogue (sources/dea.py): collection.json, then item *)
(* pages while a page links a next one, each by HttpClient.get (http.py)   *)
(* with its retries.  Under _run_reads_in_serial_order a job is one raster *)
(* read.                                                                   *)
(***************************************************************************)
EXTENDS OrderedPool

CONSTANTS
    MaxAttempts,        \* RetryPolicy.max_attempts
    MaxPages,           \* MAX_PAGES
    BackoffCap,         \* RetryPolicy.backoff_cap_seconds
    RetryAfterCap,      \* RetryPolicy.retry_after_cap_seconds
    RetryAfters         \* numeric Retry-After headers a server sends

ASSUME HttpAssumption ==
    /\ MaxAttempts \in Nat \ {0}
    /\ MaxPages \in Nat \ {0}
    /\ BackoffCap \in Nat
    /\ RetryAfterCap \in Nat
    /\ RetryAfters \subseteq Int

VARIABLE call       \* call[i]: the GET job i is in

vars == <<mode, job, slots, firstError, returned, call>>

Answers ==
    [status : {"200"}, retryAfter : {None}, valid : BOOLEAN, next : BOOLEAN]
        \cup [status : {"4xx", "5xx", "exception"}, retryAfter : {None}]
        \cup [status : {"429"}, retryAfter : RetryAfters \cup {None}]

(* GET number `attempt` of page `page`; page 0 is collection.json. *)
FirstGet(page) == [page |-> page, attempt |-> 0]

AtMost(a, b) == IF a <= b THEN a ELSE b

(* What get sleeps before the next attempt. *)
Delay(attempt, answer) ==
    IF answer.status = "429"
      THEN AtMost(IF answer.retryAfter = None THEN 2 ^ attempt ELSE answer.retryAfter,
                  RetryAfterCap)
      ELSE AtMost(2 ^ attempt, BackoffCap)

Goes(i, get) == call' = [call EXCEPT ![i] = get] /\ UNCHANGED poolVars
Ends(i, how) == Finish(i, how) /\ UNCHANGED call

(* MAX_PAGES: a loop of next links is refused. *)
NextPage(answer, page) == answer.next /\ page < MaxPages

(* A response below 400.  A payload that does not validate raises; a page   *)
(* that links a next one is followed by its GET.                            *)
Received(i, answer) ==
    LET page == call[i].page IN
    IF page = 0
      THEN IF answer.valid THEN Goes(i, FirstGet(1)) ELSE Ends(i, "error")
    ELSE IF NextPage(answer, page)
      THEN Goes(i, FirstGet(page + 1))
      ELSE Ends(i, IF answer.valid /\ ~answer.next THEN "value" ELSE "error")

(* 429, 500 and above, ConnectionError, Timeout. *)
Retryable(answer) == answer.status \in {"429", "5xx", "exception"}

(* Mutant: off by one. *)
AttemptBeyondLast(attempt) == attempt = MaxAttempts

LastAttempt(attempt) == attempt + 1 = MaxAttempts

(* A retryable answer: sleep, and ask again while attempts are left.        *)
(* time.sleep raises on a negative Retry-After, which nothing rejects.      *)
Retry(i, answer) ==
    LET attempt == call[i].attempt IN
    IF Delay(attempt, answer) < 0 \/ LastAttempt(attempt)
      THEN Ends(i, "error")
      ELSE Goes(i, [call[i] EXCEPT !.attempt = attempt + 1])

(* One request of HttpClient.get and what becomes of its answer. *)
Get(i, answer) ==
    /\ mode.helper = "map"
    /\ job[i] = "running"
    /\ IF answer.status = "200" THEN Received(i, answer)
       ELSE IF Retryable(answer) THEN Retry(i, answer)
       ELSE Ends(i, "error")

(* A raster read ends, with its values or with an exception. *)
Read(i) ==
    /\ mode.helper = "reads"
    /\ \E how \in {"value", "error"} : Ends(i, how)

-----------------------------------------------------------------------------
Init == PoolInit /\ call = [i \in Jobs |-> FirstGet(0)]

StartJob(i) == Start(i) /\ UNCHANGED call
TakeJob(i) == Take(i) /\ UNCHANGED call
ReturnAll == Return /\ UNCHANGED call

RunJob(i) == Read(i) \/ \E answer \in Answers : Get(i, answer)

Next ==
    \/ \E i \in Jobs : StartJob(i) \/ RunJob(i) \/ TakeJob(i)
    \/ ReturnAll

Spec == Init /\ [][Next]_vars

(* Threads run; every request is answered or times out (timeout_seconds),   *)
(* every read ends.  Nothing is assumed of what the answers are.            *)
FairSpec ==
    /\ Spec
    /\ \A i \in Jobs : WF_vars(StartJob(i)) /\ WF_vars(RunJob(i)) /\ WF_vars(TakeJob(i))
    /\ WF_vars(ReturnAll)

-----------------------------------------------------------------------------
TypeOK ==
    /\ mode \in Modes
    /\ job \in [Jobs -> {"waiting", "running", "value", "error"}]
    /\ Len(slots) <= N /\ \A k \in DOMAIN slots : slots[k] \in {k, None}
    /\ firstError \in 0 .. N
    /\ returned = None \/ returned = Returns(slots) \/ returned \in {Raises(i) : i \in Jobs}
    /\ call \in [Jobs -> [page : 0 .. MaxPages, attempt : 0 .. MaxAttempts - 1]]

(* The helpers always come back: a job that retries, an endless chain of    *)
(* next links and a failing job do not keep the caller.                     *)
HelperReturns == <>(returned # None)

=============================================================================
