-------------------------- MODULE PooledFetchProofs ---------------------------
(***************************************************************************)
(* The pool is the serial loop, for any number of jobs, workers and        *)
(* answers: every step of PooledFetch is a step of OrderedPool or leaves   *)
(* it alone (PooledFetchIsPool), the pool keeps PoolInv, and under PoolInv *)
(* every step of the pool is a step of SerialMap or a stutter.             *)
(***************************************************************************)
EXTENDS PooledFetch, SequenceTheorems, TLAPS

(* What the calling thread has taken is what the futures ended with, in     *)
(* their order, and firstError is the first of them that failed.            *)
Taken ==
    /\ slots \in Seq(Nat \cup {None})
    /\ Len(slots) <= N
    /\ \A k \in 1 .. Len(slots) : Ended(k)

FirstFailure ==
    /\ firstError \in 0 .. Len(slots)
    /\ firstError # 0 => ~mode.tolerate /\ ~Inline

PoolInv ==
    /\ mode \in Modes
    /\ job \in [Jobs -> {"waiting", "running", "value", "error"}]
    /\ Taken
    /\ FirstFailure
    /\ returned # None /\ ~Inline => Len(slots) = N

(* The sequence of results the serial loop has at this point. *)
SerialResults == IF firstError = 0 THEN slots ELSE SubSeq(slots, 1, firstError - 1)

-----------------------------------------------------------------------------
(* Cutting a sequence where it is, or was before the last element, gives    *)
(* the sequence back; appending does not change what is cut off earlier.    *)
LEMMA CutAppend ==
    ASSUME NEW S, NEW s \in Seq(S), NEW e \in S, NEW n \in 0 .. Len(s)
    PROVE  SubSeq(Append(s, e), 1, n) = SubSeq(s, 1, n)
<1>1. Len(SubSeq(Append(s, e), 1, n)) = n /\ Len(SubSeq(s, 1, n)) = n
  OBVIOUS
<1>2. \A k \in 1 .. n : SubSeq(Append(s, e), 1, n)[k] = SubSeq(s, 1, n)[k]
  OBVIOUS
<1>3. SubSeq(Append(s, e), 1, n) \in Seq(S) /\ SubSeq(s, 1, n) \in Seq(S)
  OBVIOUS
<1> QED BY <1>1, <1>2, <1>3, SeqEqual

LEMMA CutWhole ==
    ASSUME NEW S, NEW s \in Seq(S)
    PROVE  SubSeq(s, 1, Len(s)) = s
<1>1. SubSeq(s, 1, Len(s)) \in Seq(S) /\ Len(SubSeq(s, 1, Len(s))) = Len(s)
  OBVIOUS
<1>2. \A k \in 1 .. Len(s) : SubSeq(s, 1, Len(s))[k] = s[k]
  OBVIOUS
<1> QED BY <1>1, <1>2, SeqEqual

-----------------------------------------------------------------------------
(* Requests, retries and pages happen inside the jobs of the pool: every    *)
(* step of PooledFetch is a step of OrderedPool or leaves the pool alone.   *)
THEOREM PooledFetchIsPool == Spec => PoolSpec
<1>1. Init => PoolInit
  BY DEF Init
<1>2. [Next]_vars => [PoolNext]_poolVars
  <2> SUFFICES ASSUME [Next]_vars PROVE [PoolNext]_poolVars
    OBVIOUS
  <2>1. ASSUME NEW i \in Jobs, StartJob(i) PROVE PoolNext
    BY <2>1 DEF StartJob, PoolNext
  <2>2. ASSUME NEW i \in Jobs, RunJob(i) PROVE [PoolNext]_poolVars
    <3>1. ASSUME NEW how \in {"value", "error"}, Ends(i, how) PROVE PoolNext
      BY <3>1 DEF Ends, PoolNext
    <3>2. ASSUME NEW get, Goes(i, get) PROVE UNCHANGED poolVars
      BY <3>2 DEF Goes
    <3>3. CASE Read(i)
      BY <3>1, <3>3 DEF Read
    <3>4. ASSUME NEW answer \in Answers, Get(i, answer) PROVE [PoolNext]_poolVars
      <4>1. CASE answer.status = "200"
        BY <3>1, <3>2, <3>4, <4>1 DEF Get, Received
      <4>2. CASE answer.status # "200" /\ Retryable(answer)
        BY <3>1, <3>2, <3>4, <4>2 DEF Get, Retry
      <4>3. CASE answer.status # "200" /\ ~Retryable(answer)
        BY <3>1, <3>4, <4>3 DEF Get
      <4> QED BY <4>1, <4>2, <4>3
    <3> QED BY <2>2, <3>3, <3>4 DEF RunJob
  <2>3. ASSUME NEW i \in Jobs, TakeJob(i) PROVE PoolNext
    BY <2>3 DEF TakeJob, PoolNext
  <2>4. CASE ReturnAll
    BY <2>4 DEF ReturnAll, PoolNext
  <2>5. CASE UNCHANGED vars
    BY <2>5 DEF vars, poolVars
  <2> QED BY <2>1, <2>2, <2>3, <2>4, <2>5 DEF Next
<1> QED BY <1>1, <1>2, PTL DEF Spec, PoolSpec

-----------------------------------------------------------------------------
LEMMA PoolInitInv == PoolInit => PoolInv
BY PoolAssumption DEF PoolInit, PoolInv, Taken, FirstFailure

LEMMA StartInv ==
    ASSUME PoolInv, NEW i \in Jobs, Start(i) PROVE PoolInv'
<1> USE DEF Start, PoolInv, Inline, Threads
<1>1. Taken'
  BY DEF Taken, Ended, Jobs
<1>2. FirstFailure'
  BY DEF FirstFailure
<1> QED BY <1>1, <1>2

LEMMA FinishInv ==
    ASSUME PoolInv, NEW i \in Jobs, NEW how, Finish(i, how) PROVE PoolInv'
<1> USE DEF Finish, PoolInv, Inline, Threads
<1>1. Taken'
  BY PoolAssumption DEF Taken, Ended, Jobs
<1>2. FirstFailure'
  BY DEF FirstFailure
<1> QED BY <1>1, <1>2

LEMMA TakeInv ==
    ASSUME PoolInv, NEW i \in Jobs, Take(i) PROVE PoolInv'
<1> USE PoolAssumption DEF PoolInv, Jobs
<1>1. returned = None /\ i = Len(slots) + 1 /\ Ended(i) /\ UNCHANGED <<mode, job>>
  BY DEF Take, NextTaken
<1>2. Inline' = Inline
  BY <1>1 DEF Inline, Threads
<1>3. CASE job[i] = "value"
  <2>1. slots' = Append(slots, i) /\ UNCHANGED <<firstError, returned>>
    BY <1>3 DEF Take
  <2>2. Taken'
    BY <1>1, <2>1 DEF Taken, Ended
  <2>3. FirstFailure'
    BY <1>1, <1>2, <2>1 DEF FirstFailure, Taken
  <2> QED BY <1>1, <1>2, <2>1, <2>2, <2>3
<1>4. CASE job[i] # "value" /\ Inline /\ ~mode.tolerate
  <2>1. UNCHANGED <<slots, firstError>>
    BY <1>4 DEF Take
  <2>2. Taken' /\ FirstFailure'
    BY <1>1, <1>2, <2>1 DEF Taken, FirstFailure, Ended
  <2> QED BY <1>1, <1>2, <1>4, <2>1, <2>2
<1>5. CASE job[i] # "value" /\ ~(Inline /\ ~mode.tolerate)
  <2>1. /\ slots' = Append(slots, None)
        /\ firstError' = IF firstError = 0 /\ ~mode.tolerate THEN i ELSE firstError
        /\ UNCHANGED returned
    BY <1>5 DEF Take
  <2>2. Taken'
    BY <1>1, <2>1 DEF Taken, Ended
  <2>3. FirstFailure'
    BY <1>1, <1>2, <1>5, <2>1 DEF FirstFailure, Taken
  <2> QED BY <1>1, <1>2, <2>1, <2>2, <2>3
<1> QED BY <1>3, <1>4, <1>5

LEMMA ReturnInv ==
    ASSUME PoolInv, Return PROVE PoolInv'
<1> USE DEF Return, AllTaken, PoolInv, Inline, Threads
<1>1. Taken' /\ FirstFailure'
  BY DEF Taken, FirstFailure, Ended
<1> QED BY <1>1

LEMMA StutterInv ==
    ASSUME PoolInv, UNCHANGED poolVars PROVE PoolInv'
BY DEF PoolInv, poolVars, Taken, FirstFailure, Ended, Inline, Threads

(* The pool keeps PoolInv. *)
THEOREM PoolInvariant == PoolSpec => []PoolInv
<1>1. ASSUME PoolInv, [PoolNext]_poolVars PROVE PoolInv'
  BY <1>1, StartInv, FinishInv, TakeInv, ReturnInv, StutterInv DEF PoolNext
<1> QED BY <1>1, PoolInitInv, PTL DEF PoolSpec

(* A pooled call that returns or raises leaves no job running or waiting,   *)
(* however many jobs and workers there are.                                 *)
THEOREM ReturnedMeansDone == Spec => []NothingRunsAfterReturn
<1>1. PoolInv => NothingRunsAfterReturn
  BY PoolAssumption DEF PoolInv, Taken, NothingRunsAfterReturn, Jobs
<1> QED BY <1>1, PooledFetchIsPool, PoolInvariant, PTL

-----------------------------------------------------------------------------
(* No request is numbered beyond MAX_PAGES or max_attempts.                 *)
Gets == [page : 0 .. MaxPages, attempt : 0 .. MaxAttempts - 1]

LEMMA RequestsStayInBounds ==
    ASSUME NEW i \in Jobs, NEW answer, call \in [Jobs -> Gets], Get(i, answer)
    PROVE  call' \in [Jobs -> Gets] /\ (UNCHANGED poolVars \/ \E how : Finish(i, how))
<1>1. call[i].page \in 0 .. MaxPages /\ call[i].attempt \in 0 .. MaxAttempts - 1
  BY DEF Gets
<1>2. ASSUME NEW get \in Gets, Goes(i, get)
      PROVE  call' \in [Jobs -> Gets] /\ UNCHANGED poolVars
  BY <1>2 DEF Goes
<1>3. ASSUME NEW how, Ends(i, how)
      PROVE  call' \in [Jobs -> Gets] /\ Finish(i, how)
  BY <1>3 DEF Ends
<1>4. CASE answer.status = "200"
  <2>1. FirstGet(1) \in Gets
    BY HttpAssumption DEF FirstGet, Gets
  <2>2. NextPage(answer, call[i].page) => FirstGet(call[i].page + 1) \in Gets
    BY <1>1, HttpAssumption DEF NextPage, FirstGet, Gets
  <2>. QED
    BY <1>2, <1>3, <1>4, <2>1, <2>2 DEF Get, Received
<1>5. CASE answer.status # "200" /\ Retryable(answer)
  <2>1. ~LastAttempt(call[i].attempt) =>
           [call[i] EXCEPT !.attempt = call[i].attempt + 1] \in Gets
    BY <1>1, HttpAssumption DEF LastAttempt, Gets
  <2>. QED
    BY <1>2, <1>3, <1>5, <2>1 DEF Get, Retry
<1>6. CASE answer.status # "200" /\ ~Retryable(answer)
  BY <1>3, <1>6 DEF Get
<1>. QED
  BY <1>4, <1>5, <1>6

LEMMA TakeTypes ==
    ASSUME PoolInv, TypeOK, NEW i \in Jobs, Take(i)
    PROVE  /\ \A k \in DOMAIN slots' : slots'[k] \in {k, None}
           /\ returned' = None \/ returned' \in {Raises(j) : j \in Jobs}
<1>1. /\ returned = None /\ i = Len(slots) + 1
      /\ slots \in Seq(Nat \cup {None}) /\ i \in Nat \cup {None}
  BY PoolAssumption DEF Take, NextTaken, PoolInv, Taken, Jobs
<1>2. \A k \in DOMAIN slots : slots[k] \in {k, None}
  BY DEF TypeOK
<1>3. ASSUME NEW e \in {i, None}, slots' = Append(slots, e)
      PROVE  \A k \in DOMAIN slots' : slots'[k] \in {k, None}
  BY <1>1, <1>2, <1>3
<1>4. CASE job[i] = "value"
  BY <1>1, <1>3, <1>4 DEF Take
<1>5. CASE job[i] # "value" /\ Inline /\ ~mode.tolerate
  BY <1>2, <1>5 DEF Take
<1>6. CASE job[i] # "value" /\ ~(Inline /\ ~mode.tolerate)
  BY <1>1, <1>3, <1>6 DEF Take
<1>. QED
  BY <1>4, <1>5, <1>6

(* The pool and its requests keep their types: a catalogue fetch never asks *)
(* for more than MAX_PAGES pages nor a page more than max_attempts times,   *)
(* and what is returned is the slots as taken or the failure of one job.    *)
THEOREM FetchTypes == Spec => []TypeOK
<1>1. Init => TypeOK
  BY PoolAssumption, HttpAssumption DEF Init, PoolInit, TypeOK, FirstGet
<1>2. ASSUME PoolInv, PoolInv', TypeOK, [Next]_vars
      PROVE  TypeOK'
  <2>1. /\ mode' \in Modes /\ job' \in [Jobs -> {"waiting", "running", "value", "error"}]
        /\ Len(slots') <= N /\ firstError' \in 0 .. N
    BY <1>2, PoolAssumption DEF PoolInv, Taken, FirstFailure
  <2>2. call \in [Jobs -> Gets]
    BY <1>2 DEF TypeOK, Gets
  <2>3. ASSUME UNCHANGED <<slots, returned>>, call' \in [Jobs -> Gets]
        PROVE  TypeOK'
    BY <1>2, <2>1, <2>3 DEF TypeOK, Gets
  <2>4. ASSUME NEW i \in Jobs, StartJob(i)
        PROVE  TypeOK'
    BY <2>2, <2>3, <2>4 DEF StartJob, Start
  <2>5. ASSUME NEW i \in Jobs, RunJob(i)
        PROVE  TypeOK'
    <3>1. CASE Read(i)
      BY <2>2, <2>3, <3>1 DEF Read, Ends, Finish
    <3>2. ASSUME NEW answer \in Answers, Get(i, answer)
          PROVE  TypeOK'
      <4>1. /\ call' \in [Jobs -> Gets]
            /\ UNCHANGED poolVars \/ \E how : Finish(i, how)
        BY <2>2, <3>2, RequestsStayInBounds
      <4>. QED
        BY <2>3, <4>1 DEF poolVars, Finish
    <3>. QED
      BY <2>5, <3>1, <3>2 DEF RunJob
  <2>6. ASSUME NEW i \in Jobs, TakeJob(i)
        PROVE  TypeOK'
    <3>1. /\ \A k \in DOMAIN slots' : slots'[k] \in {k, None}
          /\ returned' = None \/ returned' \in {Raises(j) : j \in Jobs}
          /\ call' = call
      BY <1>2, <2>6, TakeTypes DEF TakeJob
    <3>. QED
      BY <2>1, <2>2, <3>1 DEF TypeOK, Gets
  <2>7. CASE ReturnAll
    <3>1. /\ UNCHANGED <<mode, slots, call>>
          /\ returned' = IF firstError # 0 THEN Raises(firstError) ELSE Returns(slots)
      BY <2>7 DEF ReturnAll, Return
    <3>2. firstError # 0 => firstError \in Jobs
      BY <1>2, PoolAssumption DEF TypeOK, Jobs
    <3>3. \/ returned' = Returns(slots')
          \/ returned' \in {Raises(j) : j \in Jobs}
      BY <3>1, <3>2
    <3>. QED
      BY <1>2, <2>1, <2>2, <3>1, <3>3 DEF TypeOK, Gets
  <2>8. CASE UNCHANGED vars
    BY <2>2, <2>3, <2>8 DEF vars
  <2>. QED
    BY <1>2, <2>4, <2>5, <2>6, <2>7, <2>8 DEF Next
<1>3. Spec => []PoolInv
  BY PooledFetchIsPool, PoolInvariant, PTL
<1>. QED
  BY <1>1, <1>2, <1>3, PTL DEF Spec

-----------------------------------------------------------------------------
LEMMA TakeIsSerial ==
    ASSUME PoolInv, NEW i \in Jobs, Take(i)
    PROVE  [Serial!Next]_<<mode.tolerate, SerialResults, returned>>
<1> DEFINE R == SerialResults
<1> USE PoolAssumption DEF PoolInv, Jobs
<1>1. returned = None /\ i = Len(slots) + 1 /\ i \in 1 .. N /\ UNCHANGED mode
  BY DEF Take, NextTaken
<1>2. slots \in Seq(Nat \cup {None}) /\ firstError \in 0 .. Len(slots)
  BY DEF Taken, FirstFailure
<1>3. CASE job[i] = "value"
  <2>1. slots' = Append(slots, i) /\ UNCHANGED <<firstError, returned>>
    BY <1>3 DEF Take
  <2>2. CASE firstError = 0
    <3>1. R = slots /\ R' = Append(slots, i)
      BY <2>1, <2>2 DEF SerialResults
    <3> QED BY <1>1, <1>2, <2>1, <3>1
            DEF SerialResults, Serial!Next, Serial!Succeed, Serial!Calling
  <2>3. CASE firstError # 0
    <3>1. SubSeq(Append(slots, i), 1, firstError - 1) = SubSeq(slots, 1, firstError - 1)
      BY <1>1, <1>2, <2>3, CutAppend, firstError - 1 \in 0 .. Len(slots), i \in Nat \cup {None}
    <3>2. R' = R
      BY <2>1, <2>3, <3>1 DEF SerialResults
    <3> QED BY <1>1, <2>1, <3>2
  <2> QED BY <2>2, <2>3
<1>4. CASE job[i] # "value" /\ Inline /\ ~mode.tolerate
  <2>1. UNCHANGED <<slots, firstError>> /\ returned' = Raises(i)
    BY <1>4 DEF Take
  <2>2. R = slots /\ R' = slots
    BY <1>4, <2>1 DEF SerialResults, FirstFailure
  <2> QED BY <1>1, <1>2, <1>4, <2>1, <2>2
          DEF SerialResults, Raises, Serial!Next, Serial!Fail, Serial!Calling, Serial!Raises
<1>5. CASE job[i] # "value" /\ ~(Inline /\ ~mode.tolerate)
  <2>1. /\ slots' = Append(slots, None)
        /\ firstError' = IF firstError = 0 /\ ~mode.tolerate THEN i ELSE firstError
        /\ UNCHANGED returned
    BY <1>5 DEF Take
  <2>2. CASE mode.tolerate
    <3>1. R = slots /\ R' = Append(slots, None)
      BY <2>1, <2>2 DEF SerialResults, FirstFailure
    <3> QED BY <1>1, <1>2, <2>1, <2>2, <3>1
            DEF SerialResults, Serial!Next, Serial!Fail, Serial!Calling
  <2>3. CASE ~mode.tolerate /\ firstError = 0
    <3>1. SubSeq(Append(slots, None), 1, Len(slots)) = slots
      BY <1>2, CutAppend, CutWhole, Len(slots) \in 0 .. Len(slots)
    <3>2. i - 1 = Len(slots) /\ i # 0
      BY <1>1, <1>2
    <3>3. R = slots /\ R' = slots
      BY <2>1, <2>3, <3>1, <3>2 DEF SerialResults
    <3> QED BY <1>1, <2>1, <3>3
  <2>4. CASE ~mode.tolerate /\ firstError # 0
    <3>1. SubSeq(Append(slots, None), 1, firstError - 1) = SubSeq(slots, 1, firstError - 1)
      BY <1>2, <2>4, CutAppend, firstError - 1 \in 0 .. Len(slots)
    <3>2. R' = R
      BY <2>1, <2>4, <3>1 DEF SerialResults
    <3> QED BY <1>1, <2>1, <3>2
  <2> QED BY <2>2, <2>3, <2>4
<1> QED BY <1>3, <1>4, <1>5

LEMMA ReturnIsSerial ==
    ASSUME PoolInv, Return
    PROVE  [Serial!Next]_<<mode.tolerate, SerialResults, returned>>
<1> DEFINE R == SerialResults
<1> USE PoolAssumption DEF PoolInv
<1>1. /\ returned = None /\ Len(slots) = N /\ UNCHANGED <<mode, slots, firstError>>
      /\ returned' = IF firstError # 0 THEN Raises(firstError) ELSE Returns(slots)
  BY DEF Return, AllTaken
<1>2. slots \in Seq(Nat \cup {None}) /\ firstError \in 0 .. N
  BY <1>1 DEF Taken, FirstFailure
<1>3. R' = R
  BY <1>1 DEF SerialResults
<1>4. CASE firstError = 0
  <2>1. R = slots
    BY <1>4 DEF SerialResults
  <2> QED BY <1>1, <1>3, <1>4, <2>1
          DEF SerialResults, Returns, Serial!Next, Serial!Return, Serial!Returns
<1>5. CASE firstError # 0
  <2>1. R = SubSeq(slots, 1, firstError - 1) /\ Len(R) + 1 = firstError
    BY <1>1, <1>2, <1>5 DEF SerialResults
  <2>2. ~mode.tolerate
    BY <1>5 DEF FirstFailure
  <2> QED BY <1>1, <1>2, <1>3, <1>5, <2>1, <2>2
          DEF SerialResults, Raises, Serial!Next, Serial!Fail, Serial!Calling, Serial!Raises
<1> QED BY <1>4, <1>5

(* The caller of either helper gets what calling the items one by one gives *)
(* it: the results in order, or the exception of the first item that fails. *)
THEOREM PoolIsSerial == Spec => ImplementsSerialMap
<1>1. PoolInit => Serial!Init
  BY DEF PoolInit, Modes, Serial!Init
<1>2. ASSUME PoolInv, [PoolNext]_poolVars
      PROVE  [Serial!Next]_<<mode.tolerate, SerialResults, returned>>
  <2>1. ASSUME NEW i \in Jobs, Start(i) PROVE UNCHANGED <<mode, slots, firstError, returned>>
    BY <2>1 DEF Start
  <2>2. ASSUME NEW i \in Jobs, NEW how, Finish(i, how)
        PROVE  UNCHANGED <<mode, slots, firstError, returned>>
    BY <2>2 DEF Finish
  <2>3. CASE UNCHANGED <<mode, slots, firstError, returned>>
    BY <2>3 DEF SerialResults
  <2>4. CASE UNCHANGED poolVars
    BY <2>3, <2>4 DEF poolVars
  <2> QED BY <1>2, <2>1, <2>2, <2>3, <2>4, TakeIsSerial, ReturnIsSerial DEF PoolNext
<1>3. PoolSpec => ImplementsSerialMap
  BY <1>1, <1>2, PoolInvariant, PTL
     DEF PoolSpec, ImplementsSerialMap, Serial!Spec, SerialResults
<1> QED BY <1>3, PooledFetchIsPool, PTL

=============================================================================
