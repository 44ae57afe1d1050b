----------------------- MODULE TrajectoryExtractProofs -----------------------
(***************************************************************************)
(* Proofs about TrajectoryExtract, for every number of dates, partitions,  *)
(* sites, registers, environments, crashes, alterations and moves.         *)
(***************************************************************************)
EXTENDS TrajectoryExtract, SequenceTheorems, TLAPS

(* What the running command knows of the directory it writes: every part in *)
(* it is its own, what it still has to write has no part, and all but the   *)
(* part it is writing are sealed.  It is what makes the invariants of       *)
(* TrajectoryExtract inductive: they say nothing of a run in progress.      *)
RunOwnsDirectory ==
    run # None =>
        /\ OnDisk(run.date) \subseteq Domain(run.binding)
        /\ run.todo \subseteq Domain(run.binding)
        /\ Domain(run.binding) \ run.todo \subseteq OnDisk(run.date)
        /\ \A p \in Partitions : \A i \in DOMAIN parts[run.date][p] :
              /\ parts[run.date][p][i].binding = run.binding
              /\ parts[run.date][p][i].sealed \/ (run.pc = "seal" /\ IsNext(p))
        /\ \A p \in run.todo :
              IF run.pc = "seal" /\ IsNext(p)
                THEN Len(parts[run.date][p]) = 1
                ELSE parts[run.date][p] = <<>>
        /\ run.pc \in {"summary", "sealSummary"} => run.todo = {}
        /\ summary[run.date] # None <=> run.pc = "sealSummary"

IInv ==
    /\ TypeOK
    /\ OneVersionPerPartition
    /\ AtMostOneUnsealed
    /\ SummarisedTreeIsOneRun
    /\ RunOwnsDirectory

-----------------------------------------------------------------------------
(* Facts about the data. *)

LEMMA SealLastProperties ==
    ASSUME NEW s \in Seq(Version), s # <<>>
    PROVE  /\ SealLast(s) \in Seq(Version)
           /\ Len(SealLast(s)) = Len(s)
           /\ \A i \in 1 .. Len(s) : SealLast(s)[i] =
                 IF i = Len(s) THEN [s[i] EXCEPT !.sealed = TRUE] ELSE s[i]
<1> DEFINE n == Len(s)
           e == [s[n] EXCEPT !.sealed = TRUE]
<1>1. n \in 1 .. Len(s)
  BY EmptySeq, LenProperties
<1>2. s[n] \in Version
  BY <1>1, ElementOfSeq
<1>3. e \in Version
  BY <1>2 DEF Version
<1>4. SealLast(s) = [s EXCEPT ![n] = e]
  BY DEF SealLast
<1>5. /\ [s EXCEPT ![n] = e] \in Seq(Version)
      /\ Len([s EXCEPT ![n] = e]) = Len(s)
      /\ \A j \in 1 .. Len(s) : [s EXCEPT ![n] = e][j] = IF j = n THEN e ELSE s[j]
  <2>. HIDE DEF n, e
  <2>. QED  BY <1>1, <1>3, ExceptSeq
<1>. QED
  BY <1>4, <1>5

LEMMA AlteredProperties ==
    ASSUME NEW s \in Seq(Version), NEW i \in DOMAIN s
    PROVE  /\ Altered(s, i) \in Seq(Version)
           /\ Len(Altered(s, i)) = Len(s)
           /\ \A j \in 1 .. Len(s) : Altered(s, i)[j] =
                 IF j = i THEN [s[j] EXCEPT !.intact = FALSE] ELSE s[j]
<1> DEFINE e == [s[i] EXCEPT !.intact = FALSE]
<1>1. i \in 1 .. Len(s)
  BY LenProperties
<1>2. s[i] \in Version
  BY <1>1, ElementOfSeq
<1>3. e \in Version
  BY <1>2 DEF Version
<1>4. Altered(s, i) = [s EXCEPT ![i] = e]
  BY DEF Altered
<1>5. /\ [s EXCEPT ![i] = e] \in Seq(Version)
      /\ Len([s EXCEPT ![i] = e]) = Len(s)
      /\ \A j \in 1 .. Len(s) : [s EXCEPT ![i] = e][j] = IF j = i THEN e ELSE s[j]
  <2>. HIDE DEF e
  <2>. QED  BY <1>1, <1>3, ExceptSeq
<1>. QED
  BY <1>4, <1>5

LEMMA NextIsUnique ==
    ASSUME TypeOK, run # None, NEW p, NEW q, IsNext(p), IsNext(q)
    PROVE  p = q
<1>1. p \in Nat /\ q \in Nat
  BY ExtractAssumption DEF TypeOK, Run, IsNext
<1>2. p <= q /\ q <= p
  BY DEF IsNext
<1>. QED
  BY <1>1, <1>2

LEMMA InitIInv == Init => IInv
<1> SUFFICES ASSUME Init PROVE IInv
  OBVIOUS
<1>1. TypeOK
  BY ExtractAssumption DEF Init, TypeOK, Faults
<1>2. OneVersionPerPartition
  BY DEF Init, OneVersionPerPartition
<1>3. AtMostOneUnsealed
  BY DEF Init, AtMostOneUnsealed
<1>4. SummarisedTreeIsOneRun
  BY DEF Init, SummarisedTreeIsOneRun
<1>5. RunOwnsDirectory
  BY DEF Init, RunOwnsDirectory
<1>. QED
  BY <1>1, <1>2, <1>3, <1>4, <1>5 DEF IInv

-----------------------------------------------------------------------------
(* One lemma per action. *)

LEMMA BeginIInv ==
    ASSUME IInv, NEW d \in Dates, NEW scope \in Scopes, NEW sites \in SUBSET Sites,
           Begin(d, scope, sites)
    PROVE  IInv'
<1> DEFINE b == [scope |-> scope, sites |-> sites,
                 register |-> world.register, env |-> world.env]
           todo == Unwritten(d, b)
<1> USE DEF IInv
<1>1. b \in Binding
  BY DEF TypeOK, World, Binding
<1>2. Domain(b) \subseteq Partitions
  BY <1>1, ExtractAssumption DEF Binding, Domain
<1>3. /\ run' = [pc |-> IF todo = {} THEN "summary" ELSE "write",
                 date |-> d, binding |-> b, todo |-> todo,
                 written |-> {}, failed |-> {}]
      /\ summary[d] = None
      /\ OnDisk(d) \subseteq Domain(b)
      /\ \A p \in Domain(b) : SkipsOver(d, p, b)
      /\ UNCHANGED <<world, gate, parts, summary, faults>>
  BY DEF Begin, Resumable
<1> HIDE DEF b, todo
<1>4. run' \in Run
  BY <1>1, <1>2, <1>3 DEF Run, todo, Unwritten
<1>5. TypeOK'
  BY <1>3, <1>4 DEF TypeOK
<1>6. /\ OneVersionPerPartition'
      /\ AtMostOneUnsealed'
      /\ SummarisedTreeIsOneRun'
  BY <1>3 DEF OneVersionPerPartition, AtMostOneUnsealed, SummarisedTreeIsOneRun, OnDisk
<1>7. \A p \in Partitions : \A i \in DOMAIN parts[d][p] :
          parts[d][p][i].binding = b /\ parts[d][p][i].sealed
  <2> SUFFICES ASSUME NEW p \in Partitions, NEW i \in DOMAIN parts[d][p]
               PROVE  parts[d][p][i].binding = b /\ parts[d][p][i].sealed
    OBVIOUS
  <2>1. parts[d][p] # <<>>
    BY DEF TypeOK
  <2>2. p \in Domain(b)
    BY <1>3, <2>1 DEF OnDisk
  <2>. QED
    BY <1>3, <2>2 DEF SkipsOver, Verified
<1>8. RunOwnsDirectory'
  <2>1. /\ run'.date = d /\ run'.binding = b /\ run'.todo = todo
        /\ run'.pc \in {"summary", "write"}
        /\ run'.pc = "summary" => todo = {}
    BY <1>3
  <2>2. Domain(b) \ todo \subseteq OnDisk(d)
    BY <1>2 DEF todo, Unwritten, OnDisk
  <2>3. todo \subseteq Domain(b) /\ \A p \in todo : parts[d][p] = <<>>
    BY DEF todo, Unwritten
  <2>4. run' # None
    BY <1>4, ExtractAssumption
  <2>. QED
    BY <1>3, <1>7, <2>1, <2>2, <2>3, <2>4 DEF RunOwnsDirectory, OnDisk, IsNext
<1>. QED
  BY <1>5, <1>6, <1>8

LEMMA WritePartIInv ==
    ASSUME IInv, WritePart
    PROVE  IInv'
<1> USE DEF IInv
<1>1. run \in Run /\ run # None /\ run.pc = "write" /\ run.date \in Dates
  BY DEF WritePart, TypeOK, Run
<1>d. PICK d \in Dates : d = run.date
  BY <1>1
<1>2. PICK p \in run.todo, f \in BOOLEAN :
          /\ IsNext(p)
          /\ parts' = [parts EXCEPT ![d][p] =
                 Append(@, [binding |-> run.binding, failed |-> f,
                            sealed |-> FALSE, intact |-> TRUE])]
          /\ run' = [run EXCEPT !.pc = "seal",
                         !.failed = IF f THEN @ \cup {p} ELSE @]
  BY <1>d DEF WritePart
<1>v. PICK v : v = [binding |-> run.binding, failed |-> f,
                    sealed |-> FALSE, intact |-> TRUE]
  OBVIOUS
<1>3. p \in Partitions /\ v \in Version
  BY <1>1, <1>v DEF Run, Version
<1>4. parts[d][p] = <<>>
  BY <1>1, <1>2, <1>d DEF RunOwnsDirectory
<1>5. /\ parts' \in [Dates -> [Partitions -> Seq(Version)]]
      /\ parts'[d][p] = <<v>>
      /\ \A e \in Dates, q \in Partitions :
            e # d \/ q # p => parts'[e][q] = parts[e][q]
  <2>1. Append(parts[d][p], v) = <<v>> /\ <<v>> \in Seq(Version)
    BY <1>3, <1>4
  <2>2. parts' = [parts EXCEPT ![d][p] = <<v>>]
    BY <1>2, <1>v, <2>1, <1>1, <1>3 DEF TypeOK
  <2>. QED
    BY <2>1, <2>2, <1>1, <1>3 DEF TypeOK
<1>6. run' \in Run /\ run'.date = d /\ run'.binding = run.binding
      /\ run'.todo = run.todo /\ run'.pc = "seal"
  BY <1>1, <1>2, <1>3, <1>d DEF Run
<1>7. UNCHANGED <<world, gate, summary, faults>>
  BY DEF WritePart
<1>8. summary[d] = None
  BY <1>1, <1>d DEF RunOwnsDirectory
<1>9. IsNext(p)' /\ \A q : IsNext(q)' <=> IsNext(q)
  BY <1>2, <1>6 DEF IsNext
<1>10. <<v>>[1] = v /\ Len(<<v>>) = 1 /\ DOMAIN <<v>> = {1} /\ <<v>> # <<>>
  OBVIOUS
<1>11. v.binding = run.binding /\ v.sealed = FALSE
  BY <1>v
<1>12. TypeOK'
  BY <1>5, <1>6, <1>7 DEF TypeOK
<1>13. OneVersionPerPartition'
  <2> SUFFICES ASSUME NEW e \in Dates, NEW q \in Partitions
               PROVE  Len(parts'[e][q]) <= 1
    BY DEF OneVersionPerPartition
  <2>1. CASE e = d /\ q = p
    BY <2>1, <1>5, <1>10
  <2>2. CASE e # d \/ q # p
    BY <2>2, <1>5 DEF OneVersionPerPartition
  <2>. QED
    BY <2>1, <2>2
<1>14. AtMostOneUnsealed'
  <2>1. \A q \in Partitions : \A i \in DOMAIN parts[d][q] : parts[d][q][i].sealed
    BY <1>1, <1>d DEF RunOwnsDirectory
  <2>2. \A q \in Partitions : (\E i \in DOMAIN parts'[d][q] : ~parts'[d][q][i].sealed)
                              => q = p
    BY <1>5, <2>1
  <2>3. \A e \in Dates, q \in Partitions : e # d => parts'[e][q] = parts[e][q]
    BY <1>5
  <2> SUFFICES ASSUME NEW e \in Dates, NEW q \in Partitions, NEW r \in Partitions,
                      \E i \in DOMAIN parts'[e][q] : ~parts'[e][q][i].sealed,
                      \E i \in DOMAIN parts'[e][r] : ~parts'[e][r][i].sealed
               PROVE  q = r
    BY DEF AtMostOneUnsealed
  <2>4. CASE e = d
    BY <2>2, <2>4
  <2>5. CASE e # d
    BY <2>3, <2>5 DEF AtMostOneUnsealed
  <2>. QED
    BY <2>4, <2>5
<1>15. SummarisedTreeIsOneRun'
  <2> SUFFICES ASSUME NEW e \in Dates, summary[e] # None
               PROVE  /\ OnDisk(e)' = Domain(summary[e].binding)
                      /\ \A q \in OnDisk(e)' : \A i \in DOMAIN parts'[e][q] :
                            /\ parts'[e][q][i].sealed
                            /\ parts'[e][q][i].binding = summary[e].binding
    BY <1>7 DEF SummarisedTreeIsOneRun
  <2>1. \A q \in Partitions : parts'[e][q] = parts[e][q]
    BY <1>5, <1>8
  <2>2. OnDisk(e)' = OnDisk(e)
    BY <2>1 DEF OnDisk
  <2>3. \A q \in OnDisk(e) : parts'[e][q] = parts[e][q]
    BY <2>1 DEF OnDisk
  <2>. QED
    BY <2>2, <2>3 DEF SummarisedTreeIsOneRun
<1>16. RunOwnsDirectory'
  <2>1. OnDisk(d)' = OnDisk(d) \cup {p}
    BY <1>3, <1>5, <1>10 DEF OnDisk
  <2>2. run' # None
    BY <1>6, ExtractAssumption
  <2>3. \A q \in Partitions : \A i \in DOMAIN parts'[d][q] :
            /\ parts'[d][q][i].binding = run'.binding
            /\ parts'[d][q][i].sealed \/ IsNext(q)'
    <3> SUFFICES ASSUME NEW q \in Partitions, NEW i \in DOMAIN parts'[d][q]
                 PROVE  /\ parts'[d][q][i].binding = run.binding
                        /\ parts'[d][q][i].sealed \/ IsNext(q)'
      BY <1>6
    <3>1. CASE q = p
      BY <3>1, <1>5, <1>9, <1>10, <1>11
    <3>2. CASE q # p
      BY <3>2, <1>1, <1>d, <1>5 DEF RunOwnsDirectory
    <3>. QED
      BY <3>1, <3>2
  <2>4. \A q \in run'.todo : IF IsNext(q)' THEN Len(parts'[d][q]) = 1
                                           ELSE parts'[d][q] = <<>>
    <3> SUFFICES ASSUME NEW q \in run.todo
                 PROVE  IF IsNext(q) THEN Len(parts'[d][q]) = 1
                                     ELSE parts'[d][q] = <<>>
      BY <1>6, <1>9
    <3>1. q \in Partitions
      BY <1>1 DEF Run
    <3>2. CASE q = p
      BY <3>2, <1>2, <1>5, <1>10
    <3>3. CASE q # p
      <4>1. ~IsNext(q)
        BY <3>3, <1>1, <1>2, NextIsUnique
      <4>2. parts[d][q] = <<>>
        BY <1>1, <1>d, <4>1 DEF RunOwnsDirectory
      <4>. QED
        BY <3>1, <3>3, <4>1, <4>2, <1>5
    <3>. QED
      BY <3>2, <3>3
  <2>5. /\ OnDisk(d)' \subseteq Domain(run'.binding)
        /\ run'.todo \subseteq Domain(run'.binding)
        /\ Domain(run'.binding) \ run'.todo \subseteq OnDisk(d)'
    BY <1>1, <1>d, <1>6, <2>1 DEF RunOwnsDirectory
  <2>. QED
    BY <1>6, <1>7, <1>8, <2>2, <2>3, <2>4, <2>5 DEF RunOwnsDirectory, OnDisk
<1>. QED
  BY <1>12, <1>13, <1>14, <1>15, <1>16

LEMMA SealPartIInv ==
    ASSUME IInv, SealPart
    PROVE  IInv'
<1> USE DEF IInv
<1>1. run \in Run /\ run # None /\ run.pc = "seal" /\ run.date \in Dates
  BY DEF SealPart, TypeOK, Run
<1>d. PICK d \in Dates : d = run.date
  BY <1>1
<1>2. PICK p \in run.todo :
          /\ IsNext(p)
          /\ parts' = [parts EXCEPT ![d][p] = SealLast(@)]
          /\ run' = [run EXCEPT
                 !.pc = IF run.todo = {p} THEN "summary" ELSE "write",
                 !.todo = @ \ {p}, !.written = @ \cup {p}]
  BY <1>d DEF SealPart
<1>3. p \in Partitions
  BY <1>1 DEF Run
<1>4. parts[d][p] \in Seq(Version) /\ Len(parts[d][p]) = 1
  BY <1>1, <1>2, <1>3, <1>d DEF RunOwnsDirectory, TypeOK
<1>5. parts[d][p] # <<>> /\ 1 \in DOMAIN parts[d][p] /\ parts[d][p][1] \in Version
  BY <1>4
<1>w. PICK w : w = SealLast(parts[d][p])
  OBVIOUS
<1>6. /\ w \in Seq(Version)
      /\ Len(w) = 1
      /\ w[1].sealed
      /\ w[1].binding = run.binding
  <2>1. parts[d][p][1].binding = run.binding
    BY <1>1, <1>3, <1>d, <1>5 DEF RunOwnsDirectory
  <2>2. w \in Seq(Version) /\ Len(w) = 1 /\ w[1] = [parts[d][p][1] EXCEPT !.sealed = TRUE]
    BY <1>4, <1>5, <1>w, SealLastProperties
  <2>. QED
    BY <1>5, <2>1, <2>2 DEF Version
<1>e. w # <<>>
  <2>1. Len(w) # 0
    BY <1>6
  <2>. QED
    BY <2>1, EmptySeq, Zenon
<1>7. /\ parts' \in [Dates -> [Partitions -> Seq(Version)]]
      /\ parts'[d][p] = w
      /\ \A e \in Dates, q \in Partitions :
            e # d \/ q # p => parts'[e][q] = parts[e][q]
  <2>1. parts' = [parts EXCEPT ![d][p] = w]
    BY <1>2, <1>3, <1>w DEF TypeOK
  <2>. QED
    BY <2>1, <1>3, <1>6 DEF TypeOK
<1>8. /\ run' \in Run /\ run'.date = d /\ run'.binding = run.binding
      /\ run'.todo = run.todo \ {p}
      /\ run'.pc \in {"write", "summary"}
      /\ run'.pc = "summary" => run.todo = {p}
  BY <1>1, <1>2, <1>3, <1>d DEF Run
<1>9. UNCHANGED <<world, gate, summary, faults>>
  BY DEF SealPart
<1>10. summary[d] = None
  BY <1>1, <1>d DEF RunOwnsDirectory
<1>11. \A q \in Partitions : \A i \in DOMAIN parts'[d][q] :
          parts'[d][q][i].sealed /\ parts'[d][q][i].binding = run.binding
  <2> SUFFICES ASSUME NEW q \in Partitions, NEW i \in DOMAIN parts'[d][q]
               PROVE  parts'[d][q][i].sealed /\ parts'[d][q][i].binding = run.binding
    OBVIOUS
  <2>1. CASE q = p
    <3>1. i = 1
      BY <2>1, <1>6, <1>7
    <3>. QED
      BY <3>1, <2>1, <1>6, <1>7
  <2>2. CASE q # p
    <3>1. parts'[d][q] = parts[d][q]
      BY <2>2, <1>7
    <3>2. ~IsNext(q)
      BY <2>2, <1>1, <1>2, NextIsUnique
    <3>. QED
      BY <3>1, <3>2, <1>1, <1>d DEF RunOwnsDirectory
  <2>. QED
    BY <2>1, <2>2
<1>12. \A e \in Dates : OnDisk(e)' = OnDisk(e)
  <2> SUFFICES ASSUME NEW e \in Dates, NEW q \in Partitions
               PROVE  parts'[e][q] # <<>> <=> parts[e][q] # <<>>
    BY DEF OnDisk
  <2>1. CASE e = d /\ q = p
    BY <2>1, <1>5, <1>e, <1>7
  <2>2. CASE e # d \/ q # p
    BY <2>2, <1>7
  <2>. QED
    BY <2>1, <2>2
<1>13. TypeOK'
  BY <1>7, <1>8, <1>9 DEF TypeOK
<1>14. OneVersionPerPartition'
  <2> SUFFICES ASSUME NEW e \in Dates, NEW q \in Partitions
               PROVE  Len(parts'[e][q]) <= 1
    BY DEF OneVersionPerPartition
  <2>1. CASE e = d /\ q = p
    <3>1. parts'[e][q] = w
      BY <2>1, <1>7
    <3>. QED
      BY <3>1, <1>6
  <2>2. CASE e # d \/ q # p
    BY <2>2, <1>7 DEF OneVersionPerPartition
  <2>. QED
    BY <2>1, <2>2
<1>15. AtMostOneUnsealed'
  <2> SUFFICES ASSUME NEW e \in Dates, NEW q \in Partitions, NEW r \in Partitions,
                      \E i \in DOMAIN parts'[e][q] : ~parts'[e][q][i].sealed,
                      \E i \in DOMAIN parts'[e][r] : ~parts'[e][r][i].sealed
               PROVE  q = r
    BY DEF AtMostOneUnsealed
  <2>1. e # d
    BY <1>11
  <2>2. parts'[e][q] = parts[e][q] /\ parts'[e][r] = parts[e][r]
    BY <2>1, <1>7
  <2>. QED
    BY <2>2 DEF AtMostOneUnsealed
<1>16. SummarisedTreeIsOneRun'
  <2> SUFFICES ASSUME NEW e \in Dates, summary[e] # None
               PROVE  /\ OnDisk(e)' = Domain(summary[e].binding)
                      /\ \A q \in OnDisk(e)' : \A i \in DOMAIN parts'[e][q] :
                            /\ parts'[e][q][i].sealed
                            /\ parts'[e][q][i].binding = summary[e].binding
    BY <1>9 DEF SummarisedTreeIsOneRun
  <2>1. \A q \in OnDisk(e) : parts'[e][q] = parts[e][q]
    BY <1>7, <1>10 DEF OnDisk
  <2>. QED
    BY <2>1, <1>12 DEF SummarisedTreeIsOneRun
<1>17. RunOwnsDirectory'
  <2>1. run' # None
    BY <1>8, ExtractAssumption
  <2>2. \A q \in run'.todo : parts'[d][q] = <<>>
    <3> SUFFICES ASSUME NEW q \in run.todo, q # p
                 PROVE  parts'[d][q] = <<>>
      BY <1>8
    <3>1. q \in Partitions /\ ~IsNext(q)
      BY <1>1, <1>2, NextIsUnique DEF Run
    <3>2. parts[d][q] = <<>>
      BY <1>1, <1>d, <3>1 DEF RunOwnsDirectory
    <3>. QED
      BY <3>1, <3>2, <1>7
  <2>3. /\ OnDisk(d)' \subseteq Domain(run'.binding)
        /\ run'.todo \subseteq Domain(run'.binding)
        /\ Domain(run'.binding) \ run'.todo \subseteq OnDisk(d)'
    <3>1. p \in OnDisk(d)
      BY <1>3, <1>5 DEF OnDisk
    <3>. QED
      BY <3>1, <1>1, <1>d, <1>8, <1>12 DEF RunOwnsDirectory
  <2>4. run'.pc = "summary" => run'.todo = {}
    BY <1>8
  <2>. QED
    BY <1>8, <1>9, <1>10, <1>11, <2>1, <2>2, <2>3, <2>4 DEF RunOwnsDirectory, OnDisk
<1>. QED
  BY <1>13, <1>14, <1>15, <1>16, <1>17

LEMMA WriteSummaryIInv ==
    ASSUME IInv, WriteSummary
    PROVE  IInv'
<1> USE DEF IInv
<1>1. run \in Run /\ run # None /\ run.pc = "summary" /\ run.date \in Dates
  BY DEF WriteSummary, TypeOK, Run
<1>d. PICK d \in Dates : d = run.date
  BY <1>1
<1>2. PICK s : s = [binding |-> run.binding, written |-> run.written,
                    failed |-> run.failed, sealed |-> FALSE]
  OBVIOUS
<1>3. s \in Summary /\ s.binding = run.binding /\ s # None
  <2>1. s \in Summary /\ s.binding = run.binding
    BY <1>1, <1>2 DEF Run, Summary
  <2>. QED
    BY <2>1, ExtractAssumption
<1>4. /\ summary' = [summary EXCEPT ![d] = s]
      /\ run' = [run EXCEPT !.pc = "sealSummary"]
      /\ UNCHANGED <<world, gate, parts, faults>>
  BY <1>2, <1>d DEF WriteSummary
<1>5. summary'[d] = s /\ \A e \in Dates : e # d => summary'[e] = summary[e]
  BY <1>4 DEF TypeOK
<1>6. /\ run' \in Run /\ run'.date = d /\ run'.binding = run.binding
      /\ run'.todo = {} /\ run'.pc = "sealSummary"
  BY <1>1, <1>4, <1>d DEF Run, RunOwnsDirectory
<1>7. run' # None
  BY <1>6, ExtractAssumption
<1>8. TypeOK'
  BY <1>3, <1>4, <1>6 DEF TypeOK
<1>9. OneVersionPerPartition' /\ AtMostOneUnsealed'
  BY <1>4 DEF OneVersionPerPartition, AtMostOneUnsealed
<1>10. /\ OnDisk(d) = Domain(run.binding)
       /\ \A p \in Partitions : \A i \in DOMAIN parts[d][p] :
             parts[d][p][i].sealed /\ parts[d][p][i].binding = run.binding
  BY <1>1, <1>d DEF RunOwnsDirectory
<1>11. SummarisedTreeIsOneRun'
  <2> SUFFICES ASSUME NEW e \in Dates, summary'[e] # None
               PROVE  /\ OnDisk(e) = Domain(summary'[e].binding)
                      /\ \A q \in OnDisk(e) : \A i \in DOMAIN parts[e][q] :
                            /\ parts[e][q][i].sealed
                            /\ parts[e][q][i].binding = summary'[e].binding
    BY <1>4 DEF SummarisedTreeIsOneRun, OnDisk
  <2>1. CASE e = d
    BY <2>1, <1>3, <1>5, <1>10 DEF OnDisk
  <2>2. CASE e # d
    BY <2>2, <1>5 DEF SummarisedTreeIsOneRun
  <2>. QED
    BY <2>1, <2>2
<1>12. RunOwnsDirectory'
  BY <1>3, <1>4, <1>5, <1>6, <1>7, <1>10 DEF RunOwnsDirectory, OnDisk
<1>. QED
  BY <1>8, <1>9, <1>11, <1>12

LEMMA SealSummaryIInv ==
    ASSUME IInv, SealSummary
    PROVE  IInv'
<1> USE DEF IInv
<1>1. run \in Run /\ run # None /\ run.pc = "sealSummary" /\ run.date \in Dates
  BY DEF SealSummary, TypeOK, Run
<1>d. PICK d \in Dates : d = run.date
  BY <1>1
<1>2. summary[d] \in Summary
  BY <1>1, <1>d DEF RunOwnsDirectory, TypeOK
<1>3. PICK s : s = [summary[d] EXCEPT !.sealed = TRUE]
  OBVIOUS
<1>4. s \in Summary /\ s.binding = summary[d].binding
  BY <1>2, <1>3 DEF Summary
<1>5. /\ summary' = [summary EXCEPT ![d] = s]
      /\ run' = None
      /\ UNCHANGED <<world, gate, parts, faults>>
  BY <1>3, <1>d DEF SealSummary
<1>6. summary'[d] = s /\ \A e \in Dates : e # d => summary'[e] = summary[e]
  BY <1>5 DEF TypeOK
<1>7. TypeOK'
  BY <1>4, <1>5 DEF TypeOK
<1>8. OneVersionPerPartition' /\ AtMostOneUnsealed'
  BY <1>5 DEF OneVersionPerPartition, AtMostOneUnsealed
<1>9. SummarisedTreeIsOneRun'
  <2> SUFFICES ASSUME NEW e \in Dates, summary'[e] # None
               PROVE  /\ OnDisk(e) = Domain(summary'[e].binding)
                      /\ \A q \in OnDisk(e) : \A i \in DOMAIN parts[e][q] :
                            /\ parts[e][q][i].sealed
                            /\ parts[e][q][i].binding = summary'[e].binding
    BY <1>5 DEF SummarisedTreeIsOneRun, OnDisk
  <2>1. summary[e] # None /\ summary'[e].binding = summary[e].binding
    BY <1>2, <1>4, <1>6, ExtractAssumption
  <2>. QED
    BY <2>1 DEF SummarisedTreeIsOneRun
<1>10. RunOwnsDirectory'
  BY <1>5 DEF RunOwnsDirectory
<1>. QED
  BY <1>7, <1>8, <1>9, <1>10

LEMMA CrashIInv ==
    ASSUME IInv, Crash
    PROVE  IInv'
<1> USE DEF IInv
<1>1. /\ run' = None
      /\ faults' = [faults EXCEPT !.crash = @ + 1]
      /\ faults.crash < MaxCrashes
      /\ UNCHANGED <<world, gate, parts, summary>>
  BY DEF Crash
<1>2. faults' \in Faults
  BY <1>1, ExtractAssumption DEF TypeOK, Faults
<1>3. TypeOK'
  BY <1>1, <1>2 DEF TypeOK
<1>4. OneVersionPerPartition' /\ AtMostOneUnsealed' /\ SummarisedTreeIsOneRun'
  BY <1>1 DEF OneVersionPerPartition, AtMostOneUnsealed, SummarisedTreeIsOneRun, OnDisk
<1>5. RunOwnsDirectory'
  BY <1>1 DEF RunOwnsDirectory
<1>. QED
  BY <1>3, <1>4, <1>5

LEMMA OutsideIInv ==
    ASSUME IInv, ChangeWorld \/ ValidateHuntly \/ UNCHANGED vars
    PROVE  IInv'
<1> USE DEF IInv
<1>1. UNCHANGED <<parts, summary, run, faults>>
  BY DEF ChangeWorld, ValidateHuntly, vars
<1>2. world' \in World /\ gate' \in BOOLEAN
  BY DEF ChangeWorld, ValidateHuntly, vars, TypeOK
<1>3. TypeOK'
  BY <1>1, <1>2 DEF TypeOK
<1>4. OneVersionPerPartition' /\ AtMostOneUnsealed' /\ SummarisedTreeIsOneRun'
  BY <1>1 DEF OneVersionPerPartition, AtMostOneUnsealed, SummarisedTreeIsOneRun, OnDisk
<1>5. RunOwnsDirectory'
  BY <1>1 DEF RunOwnsDirectory, OnDisk, IsNext
<1>. QED
  BY <1>3, <1>4, <1>5

LEMMA AlterPartIInv ==
    ASSUME IInv, NEW d \in Dates, NEW p \in Partitions, AlterPart(d, p)
    PROVE  IInv'
<1> USE DEF IInv
<1>1. PICK i \in DOMAIN parts[d][p] :
          /\ Verified(parts[d][p][i])
          /\ parts' = [parts EXCEPT ![d][p] = Altered(@, i)]
  BY DEF AlterPart
<1>2. /\ faults.alter < MaxAlterations
      /\ faults' = [faults EXCEPT !.alter = @ + 1]
      /\ UNCHANGED <<world, gate, summary, run>>
  BY DEF AlterPart
<1>3. parts[d][p] \in Seq(Version)
  BY DEF TypeOK
<1>4. PICK w : w = Altered(parts[d][p], i)
  OBVIOUS
<1>5. /\ w \in Seq(Version)
      /\ Len(w) = Len(parts[d][p])
      /\ \A j \in 1 .. Len(parts[d][p]) : w[j] =
            IF j = i THEN [parts[d][p][j] EXCEPT !.intact = FALSE] ELSE parts[d][p][j]
  <2> DEFINE s == parts[d][p]
  <2>1. s \in Seq(Version) /\ i \in DOMAIN s /\ w = Altered(s, i)
    BY <1>1, <1>3, <1>4
  <2> SUFFICES /\ w \in Seq(Version)
               /\ Len(w) = Len(s)
               /\ \A j \in 1 .. Len(s) : w[j] =
                     IF j = i THEN [s[j] EXCEPT !.intact = FALSE] ELSE s[j]
    OBVIOUS
  <2> HIDE DEF s
  <2>. QED
    BY <2>1, AlteredProperties
<1>6. /\ DOMAIN w = DOMAIN parts[d][p]
      /\ \A j \in DOMAIN w : parts[d][p][j] \in Version
  BY <1>3, <1>5
<1>7. \A j \in DOMAIN w : /\ w[j].sealed = parts[d][p][j].sealed
                          /\ w[j].binding = parts[d][p][j].binding
  <2> SUFFICES ASSUME NEW j \in DOMAIN w
               PROVE  /\ w[j].sealed = parts[d][p][j].sealed
                      /\ w[j].binding = parts[d][p][j].binding
    OBVIOUS
  <2>1. parts[d][p][j] \in Version /\ j \in 1 .. Len(parts[d][p])
    BY <1>3, <1>6
  <2>2. CASE j = i
    <3>1. w[j] = [parts[d][p][j] EXCEPT !.sealed = @, !.intact = FALSE]
      BY <1>5, <2>1, <2>2 DEF Version
    <3>. QED
      BY <2>1, <3>1 DEF Version
  <2>3. CASE j # i
    BY <1>5, <2>1, <2>3
  <2>. QED
    BY <2>2, <2>3
<1>8. /\ parts' \in [Dates -> [Partitions -> Seq(Version)]]
      /\ parts'[d][p] = w
      /\ \A e \in Dates, q \in Partitions :
            e # d \/ q # p => parts'[e][q] = parts[e][q]
  <2>1. parts' = [parts EXCEPT ![d][p] = w]
    BY <1>1, <1>4 DEF TypeOK
  <2>. QED
    BY <2>1, <1>5 DEF TypeOK
<1>9. \A e \in Dates, q \in Partitions :
         /\ Len(parts'[e][q]) = Len(parts[e][q])
         /\ DOMAIN parts'[e][q] = DOMAIN parts[e][q]
         /\ \A j \in DOMAIN parts[e][q] :
               /\ parts'[e][q][j].sealed = parts[e][q][j].sealed
               /\ parts'[e][q][j].binding = parts[e][q][j].binding
  <2> SUFFICES ASSUME NEW e \in Dates, NEW q \in Partitions
               PROVE  /\ Len(parts'[e][q]) = Len(parts[e][q])
                      /\ DOMAIN parts'[e][q] = DOMAIN parts[e][q]
                      /\ \A j \in DOMAIN parts[e][q] :
                            /\ parts'[e][q][j].sealed = parts[e][q][j].sealed
                            /\ parts'[e][q][j].binding = parts[e][q][j].binding
    OBVIOUS
  <2>1. CASE e = d /\ q = p
    BY <2>1, <1>5, <1>6, <1>7, <1>8
  <2>2. CASE e # d \/ q # p
    BY <2>2, <1>8
  <2>. QED
    BY <2>1, <2>2
<1>10. \A e \in Dates, q \in Partitions : parts'[e][q] = <<>> <=> parts[e][q] = <<>>
  <2> SUFFICES ASSUME NEW e \in Dates, NEW q \in Partitions
               PROVE  parts'[e][q] = <<>> <=> parts[e][q] = <<>>
    OBVIOUS
  <2>1. parts'[e][q] \in Seq(Version) /\ parts[e][q] \in Seq(Version)
    BY <1>8 DEF TypeOK
  <2>2. Len(parts'[e][q]) = Len(parts[e][q])
    BY <1>9
  <2>. QED
    BY <2>1, <2>2, EmptySeq
<1>11. \A e \in Dates : OnDisk(e)' = OnDisk(e)
  BY <1>10 DEF OnDisk
<1>12. TypeOK'
  <2>1. faults' \in Faults
    <3>1. faults \in Faults
      BY DEF TypeOK
    <3>. QED
      BY <1>2, <3>1, ExtractAssumption DEF Faults
  <2>. QED
    BY <2>1, <1>2, <1>8 DEF TypeOK
<1>13. OneVersionPerPartition'
  BY <1>9 DEF OneVersionPerPartition
<1>14. AtMostOneUnsealed'
  <2> SUFFICES ASSUME NEW e \in Dates, NEW q \in Partitions, NEW r \in Partitions,
                      \E j \in DOMAIN parts'[e][q] : ~parts'[e][q][j].sealed,
                      \E j \in DOMAIN parts'[e][r] : ~parts'[e][r][j].sealed
               PROVE  q = r
    BY DEF AtMostOneUnsealed
  <2>1. PICK j \in DOMAIN parts'[e][q] : ~parts'[e][q][j].sealed
    OBVIOUS
  <2>2. j \in DOMAIN parts[e][q] /\ ~parts[e][q][j].sealed
    BY <1>9, <2>1
  <2>3. PICK k \in DOMAIN parts'[e][r] : ~parts'[e][r][k].sealed
    OBVIOUS
  <2>4. k \in DOMAIN parts[e][r] /\ ~parts[e][r][k].sealed
    BY <1>9, <2>3
  <2>. QED
    BY <2>2, <2>4 DEF AtMostOneUnsealed
<1>15. SummarisedTreeIsOneRun'
  <2> SUFFICES ASSUME NEW e \in Dates, summary[e] # None
               PROVE  /\ OnDisk(e)' = Domain(summary[e].binding)
                      /\ \A q \in OnDisk(e)' : \A j \in DOMAIN parts'[e][q] :
                            /\ parts'[e][q][j].sealed
                            /\ parts'[e][q][j].binding = summary[e].binding
    BY <1>2 DEF SummarisedTreeIsOneRun
  <2>1. \A q \in OnDisk(e) : q \in Partitions
    BY DEF OnDisk
  <2>. QED
    BY <2>1, <1>9, <1>11, SMTT(30) DEF SummarisedTreeIsOneRun
<1>16. RunOwnsDirectory'
  <2> SUFFICES ASSUME run # None PROVE RunOwnsDirectory'
    BY <1>2 DEF RunOwnsDirectory
  <2>1. PICK e \in Dates : e = run.date
    BY DEF TypeOK, Run
  <2>2. run.todo \subseteq Partitions
    BY DEF TypeOK, Run
  <2>3. \A q : IsNext(q)' <=> IsNext(q)
    BY <1>2 DEF IsNext
  <2>4. \A q \in Partitions : \A j \in DOMAIN parts'[e][q] :
            /\ parts'[e][q][j].binding = run.binding
            /\ parts'[e][q][j].sealed \/ (run.pc = "seal" /\ IsNext(q))
    BY <1>9, <2>1, SMTT(30) DEF RunOwnsDirectory
  <2>5. \A q \in run.todo :
            IF run.pc = "seal" /\ IsNext(q) THEN Len(parts'[e][q]) = 1
                                            ELSE parts'[e][q] = <<>>
    BY <1>9, <1>10, <2>1, <2>2 DEF RunOwnsDirectory
  <2>6. /\ OnDisk(e)' \subseteq Domain(run.binding)
        /\ run.todo \subseteq Domain(run.binding)
        /\ Domain(run.binding) \ run.todo \subseteq OnDisk(e)'
        /\ run.pc \in {"summary", "sealSummary"} => run.todo = {}
        /\ summary[e] # None <=> run.pc = "sealSummary"
    BY <1>11, <2>1 DEF RunOwnsDirectory
  <2>. QED
    BY <1>2, <2>1, <2>3, <2>4, <2>5, <2>6 DEF RunOwnsDirectory, OnDisk
<1>. QED
  BY <1>12, <1>13, <1>14, <1>15, <1>16

LEMMA MoveAsideIInv ==
    ASSUME IInv, NEW d \in Dates, MoveAside(d)
    PROVE  IInv'
<1> USE DEF IInv
<1>1. /\ run # None => run.date # d
      /\ faults.move < MaxMoves
      /\ parts' = [parts EXCEPT ![d] = [p \in Partitions |-> <<>>]]
      /\ summary' = [summary EXCEPT ![d] = None]
      /\ faults' = [faults EXCEPT !.move = @ + 1]
      /\ UNCHANGED <<world, gate, run>>
  BY DEF MoveAside, Extracting
<1>2. /\ \A p \in Partitions : parts'[d][p] = <<>>
      /\ summary'[d] = None
      /\ \A e \in Dates : e # d => parts'[e] = parts[e] /\ summary'[e] = summary[e]
  BY <1>1 DEF TypeOK
<1>3. TypeOK'
  <2>1. parts' \in [Dates -> [Partitions -> Seq(Version)]]
    BY <1>1 DEF TypeOK
  <2>2. summary' \in [Dates -> Summary \cup {None}]
    BY <1>1 DEF TypeOK
  <2>3. faults' \in Faults
    <3>1. faults \in Faults
      BY DEF TypeOK
    <3>. QED
      BY <1>1, <3>1, ExtractAssumption DEF Faults
  <2>. QED
    BY <1>1, <2>1, <2>2, <2>3 DEF TypeOK
<1>4. OneVersionPerPartition'
  <2> SUFFICES ASSUME NEW e \in Dates, NEW p \in Partitions
               PROVE  Len(parts'[e][p]) <= 1
    BY DEF OneVersionPerPartition
  <2>1. CASE e = d
    BY <1>2, <2>1
  <2>2. CASE e # d
    BY <1>2, <2>2 DEF OneVersionPerPartition
  <2>. QED
    BY <2>1, <2>2
<1>5. AtMostOneUnsealed'
  <2> SUFFICES ASSUME NEW e \in Dates, NEW p \in Partitions, NEW q \in Partitions,
                      \E i \in DOMAIN parts'[e][p] : ~parts'[e][p][i].sealed,
                      \E i \in DOMAIN parts'[e][q] : ~parts'[e][q][i].sealed
               PROVE  p = q
    BY DEF AtMostOneUnsealed
  <2>1. e # d
    BY <1>2
  <2>. QED
    BY <1>2, <2>1 DEF AtMostOneUnsealed
<1>6. SummarisedTreeIsOneRun'
  <2> SUFFICES ASSUME NEW e \in Dates, summary'[e] # None
               PROVE  /\ OnDisk(e)' = Domain(summary'[e].binding)
                      /\ \A p \in OnDisk(e)' : \A i \in DOMAIN parts'[e][p] :
                            /\ parts'[e][p][i].sealed
                            /\ parts'[e][p][i].binding = summary'[e].binding
    BY DEF SummarisedTreeIsOneRun
  <2>1. parts'[e] = parts[e] /\ summary'[e] = summary[e]
    BY <1>2
  <2>. QED
    BY <2>1 DEF SummarisedTreeIsOneRun, OnDisk
<1>7. RunOwnsDirectory'
  <2> SUFFICES ASSUME run # None PROVE RunOwnsDirectory'
    BY <1>1 DEF RunOwnsDirectory
  <2>1. PICK e \in Dates : e = run.date
    BY DEF TypeOK, Run
  <2>2. parts'[e] = parts[e] /\ summary'[e] = summary[e]
    BY <1>1, <1>2, <2>1
  <2>. QED
    BY <1>1, <2>1, <2>2 DEF RunOwnsDirectory, OnDisk, IsNext
<1>. QED
  BY <1>3, <1>4, <1>5, <1>6, <1>7

-----------------------------------------------------------------------------
(* Every operation, crash, alteration and re-run keeps the invariant.       *)
LEMMA StepIInv == IInv /\ [Next]_vars => IInv'
<1> SUFFICES ASSUME IInv, [Next]_vars PROVE IInv'
  OBVIOUS
<1>1. ASSUME NEW d \in Dates, NEW scope \in Scopes, NEW sites \in SUBSET Sites,
             Begin(d, scope, sites)
      PROVE  IInv'
  BY <1>1, BeginIInv
<1>2. CASE WritePart
  BY <1>2, WritePartIInv
<1>3. CASE SealPart
  BY <1>3, SealPartIInv
<1>4. CASE WriteSummary
  BY <1>4, WriteSummaryIInv
<1>5. CASE SealSummary
  BY <1>5, SealSummaryIInv
<1>6. CASE Crash
  BY <1>6, CrashIInv
<1>7. CASE ChangeWorld \/ ValidateHuntly \/ UNCHANGED vars
  BY <1>7, OutsideIInv
<1>8. ASSUME NEW d \in Dates, NEW p \in Partitions, AlterPart(d, p)
      PROVE  IInv'
  BY <1>8, AlterPartIInv
<1>9. ASSUME NEW d \in Dates, MoveAside(d)
      PROVE  IInv'
  BY <1>9, MoveAsideIInv
<1>. QED
  BY <1>1, <1>2, <1>3, <1>4, <1>5, <1>6, <1>7, <1>8, <1>9 DEF Next, Extraction

(* IInv is an inductive invariant of the specification.                     *)
THEOREM InductiveInvariant == Spec => []IInv
BY InitIInv, StepIInv, PTL DEF Spec

(* Every reachable state is well typed.                                     *)
THEOREM TypeCorrect == Spec => []TypeOK
<1>1. IInv => TypeOK
  BY DEF IInv
<1>. QED
  BY <1>1, InductiveInvariant, PTL

(* A partition never holds two versions, however often extract-trajectories *)
(* dies and is run again.                                                   *)
THEOREM PartitionsAreWrittenOnce == Spec => []OneVersionPerPartition
<1>1. IInv => OneVersionPerPartition
  BY DEF IInv
<1>. QED
  BY <1>1, InductiveInvariant, PTL

(* A dated directory never holds two parts without their manifest, however  *)
(* often the command dies over it.                                          *)
THEOREM CrashCostsOnePart == Spec => []AtMostOneUnsealed
<1>1. IInv => AtMostOneUnsealed
  BY DEF IInv
<1>. QED
  BY <1>1, InductiveInvariant, PTL

(* A directory with a summary is the complete, sealed extraction of one run *)
(* identity, although several processes may have written it.                *)
THEOREM SummaryMeansComplete == Spec => []SummarisedTreeIsOneRun
<1>1. IInv => SummarisedTreeIsOneRun
  BY DEF IInv
<1>. QED
  BY <1>1, InductiveInvariant, PTL

=============================================================================
