------------------------ MODULE TrajectoryStoreProofs --------------------------
(***************************************************************************)
(* What extract-trajectories does to its files, step by step: nothing that *)
(* was written changes, and every step is a step of the dated table or     *)
(* leaves it alone.  Both follow from the inductive invariant.             *)
(***************************************************************************)
EXTENDS TrajectoryExtractProofs

(* What each action does to parts and summary. *)

LEMMA Singleton ==
    ASSUME NEW S, NEW s \in Seq(S), Len(s) = 1
    PROVE  s = <<s[1]>> /\ s[1] \in S
<1>1. s[1] \in S
  BY ElementOfSeq
<1>2. PICK t : t = <<s[1]>>
  OBVIOUS
<1>3. t \in Seq(S) /\ Len(t) = 1 /\ t[1] = s[1]
  BY <1>1, <1>2
<1>4. s = t
  BY <1>3, SeqEqual
<1>. QED
  BY <1>1, <1>2, <1>4

LeavesOthers(d, p) ==
    /\ summary' = summary
    /\ \A e \in Dates, q \in Partitions :
          e # d \/ q # p => parts'[e][q] = parts[e][q]

Appears(d, p, v) ==
    /\ summary[d] = None
    /\ parts[d][p] = <<>>
    /\ parts'[d][p] = <<v>>
    /\ v.sealed = FALSE
    /\ LeavesOthers(d, p)

Sealed(d, p, v, w) ==
    /\ summary[d] = None
    /\ run.date = d
    /\ p \in Domain(run.binding)
    /\ parts[d][p] = <<v>>
    /\ parts'[d][p] = <<w>>
    /\ v.binding = run.binding
    /\ w = [v EXCEPT !.sealed = TRUE]
    /\ LeavesOthers(d, p)

LEMMA WritePartEffect ==
    ASSUME IInv, WritePart
    PROVE  \E d \in Dates, p \in Partitions, v \in Version : Appears(d, p, v)
<1> USE DEF IInv
<1>1. run \in Run /\ run # None /\ run.pc = "write" /\ run.date \in Dates
  BY DEF WritePart, TypeOK, Run
<1>2. PICK d \in Dates : d = run.date
  BY <1>1
<1>3. PICK p \in run.todo, f \in BOOLEAN :
          parts' = [parts EXCEPT ![d][p] =
             Append(@, [binding |-> run.binding, failed |-> f,
                        sealed |-> FALSE, intact |-> TRUE])]
  BY <1>2 DEF WritePart
<1>4. PICK v : v = [binding |-> run.binding, failed |-> f,
                    sealed |-> FALSE, intact |-> TRUE]
  OBVIOUS
<1>5. p \in Partitions /\ v \in Version /\ v.sealed = FALSE
  BY <1>1, <1>4 DEF Run, Version
<1>6. parts[d][p] = <<>> /\ summary[d] = None
  BY <1>1, <1>2, <1>5 DEF RunOwnsDirectory
<1>7. Append(parts[d][p], v) = <<v>>
  BY <1>5, <1>6
<1>8. parts' = [parts EXCEPT ![d][p] = <<v>>]
  BY <1>3, <1>4, <1>5, <1>7 DEF TypeOK
<1>9. /\ parts'[d][p] = <<v>>
      /\ \A e \in Dates, q \in Partitions :
            e # d \/ q # p => parts'[e][q] = parts[e][q]
  BY <1>5, <1>8 DEF TypeOK
<1>10. summary' = summary
  BY DEF WritePart
<1>11. Appears(d, p, v)
  BY <1>5, <1>6, <1>9, <1>10 DEF Appears, LeavesOthers
<1>. QED
  BY <1>5, <1>11

LEMMA SealPartEffect ==
    ASSUME IInv, SealPart
    PROVE  \E d \in Dates, p \in Partitions, v, w \in Version : Sealed(d, p, v, w)
<1> USE DEF IInv
<1>1. run \in Run /\ run # None /\ run.pc = "seal" /\ run.date \in Dates
  BY DEF SealPart, TypeOK, Run
<1>2. PICK d \in Dates : d = run.date
  BY <1>1
<1>3. PICK p \in run.todo :
          IsNext(p) /\ parts' = [parts EXCEPT ![d][p] = SealLast(@)]
  BY <1>2 DEF SealPart
<1>4. p \in Partitions
  BY <1>1 DEF Run
<1>5. PICK s : s = parts[d][p]
  OBVIOUS
<1>6. s \in Seq(Version) /\ Len(s) = 1 /\ s # <<>>
  <2>1. s \in Seq(Version)
    BY <1>4, <1>5 DEF TypeOK
  <2>2. Len(s) = 1
    BY <1>1, <1>2, <1>3, <1>4, <1>5 DEF RunOwnsDirectory
  <2>3. Len(s) # 0
    BY <2>2
  <2>. QED
    BY <2>1, <2>2, <2>3, EmptySeq, Zenon
<1>7. s = <<s[1]>> /\ s[1] \in Version
  BY <1>6, Singleton
<1>8. PICK v \in Version : v = s[1]
  BY <1>7
<1>9. PICK w : w = [v EXCEPT !.sealed = TRUE]
  OBVIOUS
<1>10. w \in Version
  BY <1>8, <1>9 DEF Version
<1>11. SealLast(s) = <<w>>
  <2>1. SealLast(s) \in Seq(Version) /\ Len(SealLast(s)) = 1 /\ SealLast(s)[1] = w
    BY <1>6, <1>8, <1>9, SealLastProperties
  <2>. QED
    BY <2>1, Singleton
<1>12. v.binding = run.binding
  <2>1. 1 \in DOMAIN s
    BY <1>6
  <2>. QED
    BY <2>1, <1>1, <1>2, <1>4, <1>5, <1>8 DEF RunOwnsDirectory
<1>13. parts' = [parts EXCEPT ![d][p] = <<w>>]
  BY <1>3, <1>4, <1>5, <1>11 DEF TypeOK
<1>14. /\ parts'[d][p] = <<w>>
       /\ \A e \in Dates, q \in Partitions :
             e # d \/ q # p => parts'[e][q] = parts[e][q]
  BY <1>4, <1>13 DEF TypeOK
<1>15. summary[d] = None /\ p \in Domain(run.binding)
  BY <1>1, <1>2 DEF RunOwnsDirectory
<1>16. summary' = summary
  BY DEF SealPart
<1>17. parts[d][p] = <<v>>
  BY <1>5, <1>7, <1>8
<1>18. Sealed(d, p, v, w)
  BY <1>2, <1>9, <1>12, <1>14, <1>15, <1>16, <1>17 DEF Sealed, LeavesOthers
<1>. QED
  BY <1>4, <1>10, <1>18

LEMMA SummaryEffect ==
    ASSUME IInv, WriteSummary \/ SealSummary
    PROVE  \E d \in Dates, s \in Summary :
              /\ run.date = d
              /\ summary' = [summary EXCEPT ![d] = s]
              /\ s # None
              /\ WriteSummary => summary[d] = None /\ s.binding = run.binding
              /\ SealSummary => /\ summary[d] \in Summary
                                /\ s = [summary[d] EXCEPT !.sealed = TRUE]
              /\ parts' = parts
<1> USE DEF IInv
<1>1. run \in Run /\ run # None /\ run.date \in Dates
  BY DEF WriteSummary, SealSummary, TypeOK, Run
<1>2. CASE WriteSummary
  <2>1. PICK s : s = [binding |-> run.binding, written |-> run.written,
                      failed |-> run.failed, sealed |-> FALSE]
    OBVIOUS
  <2>2. s \in Summary /\ s.binding = run.binding
    BY <1>1, <2>1 DEF Run, Summary
  <2>3. summary[run.date] = None /\ ~SealSummary
    BY <1>1, <1>2 DEF RunOwnsDirectory, WriteSummary, SealSummary
  <2>. QED
    BY <1>1, <1>2, <2>1, <2>2, <2>3, ExtractAssumption DEF WriteSummary
<1>3. CASE SealSummary
  <2>1. summary[run.date] \in Summary
    BY <1>1, <1>3 DEF RunOwnsDirectory, SealSummary, TypeOK
  <2>2. PICK s : s = [summary[run.date] EXCEPT !.sealed = TRUE]
    OBVIOUS
  <2>3. s \in Summary
    BY <2>1, <2>2 DEF Summary
  <2>4. ~WriteSummary /\ summary' = [summary EXCEPT ![run.date] = s] /\ parts' = parts
    BY <1>3, <2>2 DEF WriteSummary, SealSummary
  <2>. QED
    BY <1>1, <2>1, <2>2, <2>3, <2>4, ExtractAssumption
<1>. QED
  BY <1>2, <1>3

(* An altered part keeps everything but its bytes. *)
LEMMA AlterPartEffect ==
    ASSUME IInv, NEW d \in Dates, NEW p \in Partitions, AlterPart(d, p)
    PROVE  /\ summary' = summary
           /\ \A e \in Dates, q \in Partitions :
                 /\ Len(parts'[e][q]) = Len(parts[e][q])
                 /\ DOMAIN parts'[e][q] = DOMAIN parts[e][q]
                 /\ \A j \in DOMAIN parts[e][q] :
                       /\ parts'[e][q][j].binding = parts[e][q][j].binding
                       /\ parts'[e][q][j].failed = parts[e][q][j].failed
                       /\ parts'[e][q][j].sealed = parts[e][q][j].sealed
<1> USE DEF IInv
<1>1. PICK i \in DOMAIN parts[d][p] :
          parts' = [parts EXCEPT ![d][p] = Altered(@, i)]
  BY DEF AlterPart
<1>2. PICK s : s = parts[d][p]
  OBVIOUS
<1>3. s \in Seq(Version) /\ i \in DOMAIN s
  BY <1>1, <1>2 DEF TypeOK
<1>4. PICK w : w = Altered(s, i)
  OBVIOUS
<1>5. /\ w \in Seq(Version)
      /\ Len(w) = Len(s)
      /\ \A j \in 1 .. Len(s) : w[j] =
            IF j = i THEN [s[j] EXCEPT !.intact = FALSE] ELSE s[j]
  BY <1>3, <1>4, AlteredProperties
<1>6. DOMAIN w = DOMAIN s /\ DOMAIN s = 1 .. Len(s)
  BY <1>3, <1>5
<1>7. \A j \in DOMAIN s : /\ w[j].binding = s[j].binding
                          /\ w[j].failed = s[j].failed
                          /\ w[j].sealed = s[j].sealed
  <2> SUFFICES ASSUME NEW j \in DOMAIN s
               PROVE  /\ w[j].binding = s[j].binding
                      /\ w[j].failed = s[j].failed
                      /\ w[j].sealed = s[j].sealed
    OBVIOUS
  <2>1. s[j] \in Version /\ j \in 1 .. Len(s)
    BY <1>3, <1>6
  <2>2. w[j] = IF j = i THEN [s[j] EXCEPT !.intact = FALSE] ELSE s[j]
    BY <1>5, <2>1
  <2>. QED
    BY <2>1, <2>2 DEF Version
<1>8. parts' = [parts EXCEPT ![d][p] = w]
  BY <1>1, <1>2, <1>4 DEF TypeOK
<1>9. /\ parts'[d][p] = w
      /\ \A e \in Dates, q \in Partitions :
            e # d \/ q # p => parts'[e][q] = parts[e][q]
  BY <1>8 DEF TypeOK
<1>10. \A e \in Dates, q \in Partitions :
          /\ Len(parts'[e][q]) = Len(parts[e][q])
          /\ DOMAIN parts'[e][q] = DOMAIN parts[e][q]
          /\ \A j \in DOMAIN parts[e][q] :
                /\ parts'[e][q][j].binding = parts[e][q][j].binding
                /\ parts'[e][q][j].failed = parts[e][q][j].failed
                /\ parts'[e][q][j].sealed = parts[e][q][j].sealed
  <2> SUFFICES ASSUME NEW e \in Dates, NEW q \in Partitions
               PROVE  /\ Len(parts'[e][q]) = Len(parts[e][q])
                      /\ DOMAIN parts'[e][q] = DOMAIN parts[e][q]
                      /\ \A j \in DOMAIN parts[e][q] :
                            /\ parts'[e][q][j].binding = parts[e][q][j].binding
                            /\ parts'[e][q][j].failed = parts[e][q][j].failed
                            /\ parts'[e][q][j].sealed = parts[e][q][j].sealed
    OBVIOUS
  <2>1. CASE e = d /\ q = p
    BY <2>1, <1>2, <1>5, <1>6, <1>7, <1>9
  <2>2. CASE e # d \/ q # p
    BY <2>2, <1>9
  <2>. QED
    BY <2>1, <2>2
<1>. QED
  BY <1>10 DEF AlterPart

-----------------------------------------------------------------------------
(* What FilesAreImmutable says of one dated directory. *)
PartsKept(d) ==
    \A p \in Partitions :
        /\ Len(parts[d][p]) <= Len(parts'[d][p])
        /\ \A i \in DOMAIN parts[d][p] : Kept(parts[d][p][i], parts'[d][p][i])

FinishedKept(d) ==
    summary[d] # None =>
        /\ KeptSummary(summary[d], summary'[d])
        /\ \A p \in Partitions : Len(parts'[d][p]) = Len(parts[d][p])

Immutable(d) ==
    \/ OnDisk(d)' = {} /\ summary'[d] = None
    \/ PartsKept(d) /\ FinishedKept(d)

LEMMA LengthIsNat ==
    ASSUME TypeOK, NEW d \in Dates, NEW p \in Partitions
    PROVE  Len(parts[d][p]) \in Nat
<1>1. parts[d][p] \in Seq(Version)
  BY DEF TypeOK
<1>. QED
  BY <1>1

(* A directory neither of whose files changes is kept. *)
LEMMA UnchangedIsKept ==
    ASSUME TypeOK, NEW d \in Dates, summary'[d] = summary[d],
           \A p \in Partitions : parts'[d][p] = parts[d][p]
    PROVE  Immutable(d)
<1>1. PartsKept(d)
  BY LengthIsNat DEF PartsKept, Kept
<1>2. FinishedKept(d)
  BY DEF FinishedKept, KeptSummary, Kept
<1>. QED
  BY <1>1, <1>2 DEF Immutable

LEMMA WritePartKeeps ==
    ASSUME IInv, WritePart, NEW d \in Dates
    PROVE  Immutable(d)
<1>1. PICK e \in Dates, p \in Partitions, v \in Version : Appears(e, p, v)
  BY WritePartEffect
<1>2. CASE d # e
  BY <1>1, <1>2, UnchangedIsKept DEF Appears, LeavesOthers, IInv
<1>3. CASE d = e
  <2>1. FinishedKept(d)
    BY <1>1, <1>3 DEF FinishedKept, Appears
  <2>2. PartsKept(d)
    <3> SUFFICES ASSUME NEW q \in Partitions
                 PROVE  /\ Len(parts[d][q]) <= Len(parts'[d][q])
                        /\ \A i \in DOMAIN parts[d][q] :
                              Kept(parts[d][q][i], parts'[d][q][i])
      BY DEF PartsKept
    <3>1. CASE q = p
      BY <1>1, <1>3, <3>1 DEF Appears
    <3>2. CASE q # p
      <4>1. parts'[d][q] = parts[d][q]
        BY <1>1, <1>3, <3>2 DEF Appears, LeavesOthers
      <4>. QED
        BY <4>1, LengthIsNat DEF Kept, IInv
    <3>. QED
      BY <3>1, <3>2
  <2>. QED
    BY <2>1, <2>2 DEF Immutable
<1>. QED
  BY <1>2, <1>3

LEMMA SealPartKeeps ==
    ASSUME IInv, SealPart, NEW d \in Dates
    PROVE  Immutable(d)
<1>1. PICK e \in Dates, p \in Partitions, v \in Version, w \in Version :
          Sealed(e, p, v, w)
  BY SealPartEffect
<1>2. CASE d # e
  BY <1>1, <1>2, UnchangedIsKept DEF Sealed, LeavesOthers, IInv
<1>3. CASE d = e
  <2>1. FinishedKept(d)
    BY <1>1, <1>3 DEF FinishedKept, Sealed
  <2>2. PartsKept(d)
    <3> SUFFICES ASSUME NEW q \in Partitions
                 PROVE  /\ Len(parts[d][q]) <= Len(parts'[d][q])
                        /\ \A i \in DOMAIN parts[d][q] :
                              Kept(parts[d][q][i], parts'[d][q][i])
      BY DEF PartsKept
    <3>1. CASE q = p
      <4>1. Kept(v, w)
        BY <1>1 DEF Sealed, Kept, Version
      <4>2. parts[d][q] = <<v>> /\ parts'[d][q] = <<w>>
        BY <1>1, <1>3, <3>1 DEF Sealed
      <4>. QED
        BY <4>1, <4>2
    <3>2. CASE q # p
      <4>1. parts'[d][q] = parts[d][q]
        BY <1>1, <1>3, <3>2 DEF Sealed, LeavesOthers
      <4>. QED
        BY <4>1, LengthIsNat DEF Kept, IInv
    <3>. QED
      BY <3>1, <3>2
  <2>. QED
    BY <2>1, <2>2 DEF Immutable
<1>. QED
  BY <1>2, <1>3

LEMMA SummaryKeeps ==
    ASSUME IInv, WriteSummary \/ SealSummary, NEW d \in Dates
    PROVE  Immutable(d)
<1>1. PICK e \in Dates, s \in Summary :
          /\ summary' = [summary EXCEPT ![e] = s]
          /\ s # None
          /\ WriteSummary => summary[e] = None
          /\ SealSummary => /\ summary[e] \in Summary
                            /\ s = [summary[e] EXCEPT !.sealed = TRUE]
          /\ parts' = parts
  BY SummaryEffect
<1>2. CASE d # e
  <2>1. summary'[d] = summary[d]
    BY <1>1, <1>2 DEF IInv, TypeOK
  <2>. QED
    BY <1>1, <2>1, UnchangedIsKept DEF IInv
<1>3. CASE d = e
  <2>1. summary'[d] = s
    BY <1>1, <1>3 DEF IInv, TypeOK
  <2>2. PartsKept(d)
    BY <1>1, LengthIsNat DEF PartsKept, Kept, IInv
  <2>3. FinishedKept(d)
    <3>1. CASE WriteSummary
      BY <1>1, <1>3, <3>1 DEF FinishedKept
    <3>2. CASE SealSummary
      <4>1. KeptSummary(summary[d], s)
        BY <1>1, <1>3, <3>2 DEF KeptSummary, Kept, Summary
      <4>. QED
        BY <1>1, <2>1, <4>1 DEF FinishedKept
    <3>. QED
      BY <3>1, <3>2
  <2>. QED
    BY <2>2, <2>3 DEF Immutable
<1>. QED
  BY <1>2, <1>3

LEMMA AlterPartKeeps ==
    ASSUME IInv, NEW e \in Dates, NEW p \in Partitions, AlterPart(e, p),
           NEW d \in Dates
    PROVE  Immutable(d)
<1>1. /\ summary' = summary
      /\ \A q \in Partitions :
            /\ Len(parts'[d][q]) = Len(parts[d][q])
            /\ \A j \in DOMAIN parts[d][q] :
                  /\ parts'[d][q][j].binding = parts[d][q][j].binding
                  /\ parts'[d][q][j].failed = parts[d][q][j].failed
                  /\ parts'[d][q][j].sealed = parts[d][q][j].sealed
  BY AlterPartEffect
<1>2. PartsKept(d)
  BY <1>1, LengthIsNat DEF PartsKept, Kept, IInv
<1>3. FinishedKept(d)
  BY <1>1 DEF FinishedKept, KeptSummary, Kept
<1>. QED
  BY <1>2, <1>3 DEF Immutable

LEMMA MoveAsideKeeps ==
    ASSUME IInv, NEW e \in Dates, MoveAside(e), NEW d \in Dates
    PROVE  Immutable(d)
<1>1. /\ parts' = [parts EXCEPT ![e] = [p \in Partitions |-> <<>>]]
      /\ summary' = [summary EXCEPT ![e] = None]
  BY DEF MoveAside
<1>2. CASE d = e
  <2>1. (\A p \in Partitions : parts'[d][p] = <<>>) /\ summary'[d] = None
    BY <1>1, <1>2 DEF IInv, TypeOK
  <2>2. OnDisk(d)' = {}
    BY <2>1 DEF OnDisk
  <2>. QED
    BY <2>1, <2>2 DEF Immutable
<1>3. CASE d # e
  <2>1. parts'[d] = parts[d] /\ summary'[d] = summary[d]
    BY <1>1, <1>3 DEF IInv, TypeOK
  <2>. QED
    BY <2>1, UnchangedIsKept DEF IInv
<1>. QED
  BY <1>2, <1>3

(* No step of the command changes what one dated directory holds, unless    *)
(* the directory is moved aside.                                            *)
LEMMA StepIsImmutable ==
    ASSUME IInv, [Next]_vars, NEW d \in Dates
    PROVE  Immutable(d)
<1>1. ASSUME NEW e \in Dates, NEW scope \in Scopes, NEW sites \in SUBSET Sites,
             Begin(e, scope, sites)
      PROVE  Immutable(d)
  BY <1>1, UnchangedIsKept DEF Begin, IInv
<1>2. CASE WritePart
  BY <1>2, WritePartKeeps
<1>3. CASE SealPart
  BY <1>3, SealPartKeeps
<1>4. CASE WriteSummary \/ SealSummary
  BY <1>4, SummaryKeeps
<1>5. CASE Crash \/ ChangeWorld \/ ValidateHuntly \/ UNCHANGED vars
  <2>1. parts' = parts /\ summary' = summary
    BY <1>5 DEF Crash, ChangeWorld, ValidateHuntly, vars
  <2>. QED
    BY <2>1, UnchangedIsKept DEF IInv
<1>6. ASSUME NEW e \in Dates, NEW p \in Partitions, AlterPart(e, p)
      PROVE  Immutable(d)
  BY <1>6, AlterPartKeeps
<1>7. ASSUME NEW e \in Dates, MoveAside(e)
      PROVE  Immutable(d)
  BY <1>7, MoveAsideKeeps
<1>. QED
  BY <1>1, <1>2, <1>3, <1>4, <1>5, <1>6, <1>7 DEF Next, Extraction

(* What extract-trajectories wrote is never rewritten, unsealed or removed, *)
(* and a directory with its summary gets no more parts: only the operator   *)
(* moving the directory aside takes files away.                             *)
THEOREM NothingWrittenChanges == Spec => FilesAreImmutable
<1>1. IInv /\ [Next]_vars => \A d \in Dates : Immutable(d)
  BY StepIsImmutable
<1>2. IInv /\ [Next]_vars =>
         [\A d \in Dates :
            \/ OnDisk(d)' = {} /\ summary'[d] = None
            \/ /\ \A p \in Partitions :
                     /\ Len(parts[d][p]) <= Len(parts'[d][p])
                     /\ \A i \in DOMAIN parts[d][p] :
                           Kept(parts[d][p][i], parts'[d][p][i])
               /\ summary[d] # None =>
                     /\ KeptSummary(summary[d], summary'[d])
                     /\ \A p \in Partitions :
                           Len(parts'[d][p]) = Len(parts[d][p])]_vars
  BY <1>1 DEF Immutable, PartsKept, FinishedKept
<1>. QED
  BY <1>2, InductiveInvariant, PTL DEF Spec, FilesAreImmutable

-----------------------------------------------------------------------------
(* The dated table that the files on disk stand for. *)
Table == [d \in Dates |-> Committed(d)]
Finished == [d \in Dates |-> summary[d] # None]

(* Two sets of versions of a partition that commit the same.                *)
SameVersions(s, t) ==
    /\ DOMAIN t = DOMAIN s
    /\ \A j \in DOMAIN s : /\ t[j].binding = s[j].binding
                           /\ t[j].failed = s[j].failed
                           /\ t[j].sealed = s[j].sealed

LEMMA SameVersionsCommitTheSame ==
    ASSUME NEW d \in Dates, NEW p \in Partitions,
           SameVersions(parts[d][p], parts'[d][p])
    PROVE  Committed(d)'[p] = Committed(d)[p]
BY DEF SameVersions, Committed

LEMMA TableUnchanged ==
    ASSUME \A d \in Dates, p \in Partitions : Committed(d)'[p] = Committed(d)[p]
    PROVE  Table' = Table
<1>1. \A d \in Dates : Committed(d)' = Committed(d)
  BY DEF Committed
<1>. QED
  BY <1>1 DEF Table

LEMMA InitImplements == Init => Store!Init
<1> SUFFICES ASSUME Init PROVE Store!Init
  OBVIOUS
<1>1. \A d \in Dates : Committed(d) = [p \in Partitions |-> {}]
  BY DEF Init, Committed
<1>2. \A d \in Dates : (summary[d] # None) = FALSE
  BY DEF Init
<1>. QED
  BY <1>1, <1>2 DEF Store!Init

(* A part without its manifest is not yet committed. *)
LEMMA WritePartImplements ==
    ASSUME IInv, WritePart
    PROVE  Table' = Table /\ Finished' = Finished
<1>1. PICK d \in Dates, p \in Partitions, v \in Version : Appears(d, p, v)
  BY WritePartEffect
<1>2. ASSUME NEW e \in Dates, NEW q \in Partitions
      PROVE  Committed(e)'[q] = Committed(e)[q]
  <2>1. CASE e = d /\ q = p
    <3>1. Committed(e)[q] = {}
      BY <1>1, <2>1 DEF Appears, Committed
    <3>2. Committed(e)'[q] = {}
      BY <1>1, <2>1 DEF Appears, Committed
    <3>. QED
      BY <3>1, <3>2
  <2>2. CASE e # d \/ q # p
    BY <1>1, <2>2 DEF Appears, LeavesOthers, Committed
  <2>. QED
    BY <2>1, <2>2
<1>3. Finished' = Finished
  BY <1>1 DEF Appears, LeavesOthers, Finished
<1>. QED
  BY <1>2, <1>3, TableUnchanged

LEMMA AlterPartImplements ==
    ASSUME IInv, NEW d \in Dates, NEW p \in Partitions, AlterPart(d, p)
    PROVE  Table' = Table /\ Finished' = Finished
<1>1. \A e \in Dates, q \in Partitions : SameVersions(parts[e][q], parts'[e][q])
  BY AlterPartEffect DEF SameVersions
<1>2. Table' = Table
  BY <1>1, SameVersionsCommitTheSame, TableUnchanged
<1>. QED
  BY <1>2, AlterPartEffect DEF Finished

(* The manifest commits the part, under the run's binding. *)
LEMMA SealPartImplements ==
    ASSUME IInv, SealPart
    PROVE  Store!Next \/ (Table' = Table /\ Finished' = Finished)
<1>1. PICK d \in Dates, p \in Partitions, v \in Version, w \in Version :
          Sealed(d, p, v, w)
  BY SealPartEffect
<1>2. Finished' = Finished
  BY <1>1 DEF Sealed, LeavesOthers, Finished
<1>3. \A e \in Dates, q \in Partitions :
          e # d \/ q # p => Committed(e)'[q] = Committed(e)[q]
  BY <1>1 DEF Sealed, LeavesOthers, Committed
<1>4. CASE v.sealed
  <2>1. w = v
    BY <1>1, <1>4 DEF Sealed, Version
  <2>2. Committed(d)'[p] = Committed(d)[p]
    <3>1. parts'[d][p] = parts[d][p]
      BY <1>1, <2>1 DEF Sealed
    <3>. QED
      BY <3>1 DEF Committed
  <2>3. \A e \in Dates, q \in Partitions : Committed(e)'[q] = Committed(e)[q]
    BY <1>3, <2>2
  <2>. QED
    BY <1>2, <2>3, TableUnchanged
<1>5. CASE ~v.sealed
  <2> DEFINE c == [run |-> run.binding, failed |-> v.failed]
  <2>1. run \in Run /\ run # None
    BY DEF SealPart, IInv, TypeOK
  <2>2. Committed(d)[p] = {}
    BY <1>1, <1>5 DEF Sealed, Committed
  <2>3. Committed(d)'[p] = {c}
    <3>1. w.sealed = TRUE /\ w.binding = run.binding /\ w.failed = v.failed
      BY <1>1 DEF Sealed, Version
    <3>2. parts'[d][p] = <<w>>
      BY <1>1 DEF Sealed
    <3>. QED
      BY <3>1, <3>2 DEF Committed
  <2>4. \A q \in Partitions : \A k \in Committed(d)[q] : k.run = run.binding
    BY <1>1, <2>1 DEF Sealed, Committed, IInv, RunOwnsDirectory
  <2>5. Table' = [Table EXCEPT ![d][p] = {c}]
    <3>1. ASSUME NEW e \in Dates
          PROVE  Committed(e)' = IF e = d THEN [Committed(d) EXCEPT ![p] = {c}]
                                          ELSE Committed(e)
      <4>1. CASE e = d
        <5>1. PICK t : t = Committed(d)'
          OBVIOUS
        <5>2. PICK u : u = Committed(d)
          OBVIOUS
        <5>3. t = [q \in Partitions |-> t[q]] /\ u = [q \in Partitions |-> u[q]]
          BY <5>1, <5>2 DEF Committed
        <5>4. \A q \in Partitions : t[q] = IF q = p THEN {c} ELSE u[q]
          BY <1>3, <2>3, <5>1, <5>2
        <5>5. t = [u EXCEPT ![p] = {c}]
          BY <5>3, <5>4
        <5>. QED
          BY <4>1, <5>1, <5>2, <5>5
      <4>2. CASE e # d
        BY <1>3, <4>2 DEF Committed
      <4>. QED
        BY <4>1, <4>2
    <3>. QED
      BY <3>1 DEF Table
  <2>6. Store!Commit(d, p)
    <3>1. run.binding \in Binding /\ v.failed \in BOOLEAN
      BY <2>1 DEF Run, Version
    <3>2. ~Finished[d]
      BY <1>1 DEF Sealed, Finished
    <3>3. Table[d][p] = {}
      BY <2>2 DEF Table
    <3>4. p \in [b \in Binding |-> Domain(b)][run.binding]
      BY <1>1, <3>1 DEF Sealed
    <3>5. \A q \in Partitions : \A k \in Table[d][q] : k.run = run.binding
      BY <2>4 DEF Table
    <3>. QED
      BY <1>2, <2>5, <3>1, <3>2, <3>3, <3>4, <3>5
         DEF Store!Commit, Store!OnlyRun, Table, Finished
  <2>. QED
    BY <2>6 DEF Store!Next
<1>. QED
  BY <1>4, <1>5

(* The summary finishes the table: the run has sealed all it covers.       *)
LEMMA WriteSummaryImplements ==
    ASSUME IInv, WriteSummary
    PROVE  Store!Next
<1>1. PICK d \in Dates, s \in Summary :
          /\ run.date = d
          /\ summary' = [summary EXCEPT ![d] = s]
          /\ s # None
          /\ summary[d] = None
          /\ parts' = parts
  BY SummaryEffect
<1>2. run \in Run /\ run # None /\ run.pc = "summary"
  BY DEF WriteSummary, IInv, TypeOK
<1>3. run.binding \in Binding
  BY <1>2 DEF Run
<1>4. OnDisk(d) = Domain(run.binding)
  BY <1>1, <1>2 DEF IInv, RunOwnsDirectory
<1>5. \A p \in Partitions : \A i \in DOMAIN parts[d][p] :
          parts[d][p][i].sealed /\ parts[d][p][i].binding = run.binding
  BY <1>1, <1>2 DEF IInv, RunOwnsDirectory
<1>6. \A p \in Partitions : \A k \in Table[d][p] : k.run = run.binding
  BY <1>5 DEF Table, Committed
<1>7. \A p \in Partitions : Table[d][p] # {} <=> parts[d][p] # <<>>
  <2> SUFFICES ASSUME NEW p \in Partitions
               PROVE  Table[d][p] # {} <=> parts[d][p] # <<>>
    OBVIOUS
  <2>1. parts[d][p] \in Seq(Version)
    BY DEF IInv, TypeOK
  <2>2. CASE parts[d][p] = <<>>
    BY <2>2 DEF Table, Committed
  <2>3. CASE parts[d][p] # <<>>
    <3>1. 1 \in DOMAIN parts[d][p]
      BY <2>1, <2>3
    <3>2. [run |-> parts[d][p][1].binding, failed |-> parts[d][p][1].failed]
              \in Committed(d)[p]
      BY <1>5, <3>1 DEF Committed
    <3>. QED
      BY <2>3, <3>2 DEF Table
  <2>. QED
    BY <2>2, <2>3
<1>8. {p \in Partitions : Table[d][p] # {}} = Domain(run.binding)
  BY <1>4, <1>7 DEF OnDisk
<1>9. Table' = Table
  BY <1>1 DEF Table, Committed
<1>10. Finished' = [Finished EXCEPT ![d] = TRUE] /\ ~Finished[d]
  BY <1>1 DEF Finished, IInv, TypeOK
<1>11. Store!Finish(d)
  BY <1>3, <1>6, <1>8, <1>9, <1>10
     DEF Store!Finish, Store!Filled, Store!OnlyRun, Table, Finished
<1>. QED
  BY <1>11 DEF Store!Next

LEMMA SealSummaryImplements ==
    ASSUME IInv, SealSummary
    PROVE  Table' = Table /\ Finished' = Finished
<1>1. PICK d \in Dates, s \in Summary :
          /\ summary' = [summary EXCEPT ![d] = s]
          /\ s # None
          /\ summary[d] \in Summary
          /\ parts' = parts
  BY SummaryEffect
<1>2. Table' = Table
  BY <1>1 DEF Table, Committed
<1>3. \A e \in Dates : (summary'[e] # None) = (summary[e] # None)
  BY <1>1, ExtractAssumption DEF IInv, TypeOK
<1>. QED
  BY <1>2, <1>3 DEF Finished

LEMMA MoveAsideImplements ==
    ASSUME IInv, NEW d \in Dates, MoveAside(d)
    PROVE  Store!Next
<1>1. /\ parts' = [parts EXCEPT ![d] = [p \in Partitions |-> <<>>]]
      /\ summary' = [summary EXCEPT ![d] = None]
  BY DEF MoveAside
<1>2. /\ \A p \in Partitions : parts'[d][p] = <<>>
      /\ \A e \in Dates : e # d => parts'[e] = parts[e]
  BY <1>1 DEF IInv, TypeOK
<1>3. Committed(d)' = [p \in Partitions |-> {}]
  BY <1>2 DEF Committed
<1>4. \A e \in Dates : e # d => Committed(e)' = Committed(e)
  BY <1>2 DEF Committed
<1>5. Table' = [Table EXCEPT ![d] = [p \in Partitions |-> {}]]
  BY <1>3, <1>4 DEF Table
<1>6. Finished' = [Finished EXCEPT ![d] = FALSE]
  BY <1>1 DEF Finished, IInv, TypeOK
<1>7. Store!Discard(d)
  BY <1>5, <1>6 DEF Store!Discard, Table, Finished
<1>. QED
  BY <1>7 DEF Store!Next

(* extract-trajectories implements the dated table: sealing a part commits  *)
(* it, writing the summary finishes the table under the one run identity    *)
(* that covers exactly what is on disk, moving the directory aside discards *)
(* it, and nothing else the command, a crash or an upstream change does     *)
(* shows in the table.                                                      *)
THEOREM ExtractionImplementsStore == Spec => ImplementsStore
<1>1. ASSUME IInv, [Next]_vars
      PROVE  Store!Next \/ (Table' = Table /\ Finished' = Finished)
  <2>1. CASE parts' = parts /\ summary' = summary
    BY <2>1 DEF Table, Committed, Finished
  <2>2. ASSUME NEW e \in Dates, NEW scope \in Scopes, NEW sites \in SUBSET Sites,
               Begin(e, scope, sites)
        PROVE  Store!Next \/ (Table' = Table /\ Finished' = Finished)
    BY <2>1, <2>2 DEF Begin
  <2>3. CASE WritePart
    BY <1>1, <2>3, WritePartImplements
  <2>4. CASE SealPart
    BY <1>1, <2>4, SealPartImplements
  <2>5. CASE WriteSummary
    BY <1>1, <2>5, WriteSummaryImplements
  <2>6. CASE SealSummary
    BY <1>1, <2>6, SealSummaryImplements
  <2>7. CASE Crash \/ ChangeWorld \/ ValidateHuntly \/ UNCHANGED vars
    BY <2>1, <2>7 DEF Crash, ChangeWorld, ValidateHuntly, vars
  <2>8. ASSUME NEW e \in Dates, NEW p \in Partitions, AlterPart(e, p)
        PROVE  Store!Next \/ (Table' = Table /\ Finished' = Finished)
    BY <1>1, <2>8, AlterPartImplements
  <2>9. ASSUME NEW e \in Dates, MoveAside(e)
        PROVE  Store!Next \/ (Table' = Table /\ Finished' = Finished)
    BY <1>1, <2>9, MoveAsideImplements
  <2>. QED
    BY <1>1, <2>2, <2>3, <2>4, <2>5, <2>6, <2>7, <2>8, <2>9
       DEF Next, Extraction
<1>2. IInv /\ [Next]_vars =>
         [Store!Next]_<<[d \in Dates |-> Committed(d)],
                        [d \in Dates |-> summary[d] # None]>>
  BY <1>1 DEF Table, Finished
<1>. QED
  BY <1>2, InitImplements, InductiveInvariant, PTL
     DEF Spec, ImplementsStore, Store!Spec

=============================================================================
