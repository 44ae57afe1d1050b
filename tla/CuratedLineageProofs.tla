------------------------- MODULE CuratedLineageProofs -------------------------
(***************************************************************************)
(* Proofs about CuratedLineage, for any set of dates, Maus extracts and    *)
(* protocols, and any number of commands, crashes, changes and moves.      *)
(***************************************************************************)
EXTENDS CuratedLineage, FiniteSetTheorems, SequenceTheorems, TLAPS

Before(command) == Command[command].before

KindOf(command) == Command[command].kind

(* The command in progress: the steps it did, what it writes, and the       *)
(* number of its steps before the first write.                              *)
Did(step) == \E i \in 1 .. run.at - 1 : Plan[run.command][i] = step

OwnKind == KindOf(run.command)
OwnFiles == Files(OwnKind)
Own == table[OwnKind][run.date]
OwnStage == stage[OwnKind][run.date]
Looks == Len(Before(run.command))

Reads == {"read", "peek", "readDated"}

(* What holds of every content of a kind of table. *)
Single(set) == \E x \in set : set = {x}

Sound(kind, content) ==
    /\ kind \in {"crosswalk", "footprints", "volume", "d3-inputs", "climate", "fire"} =>
          Single(content.extracts)
    /\ kind \in StagedKinds => Single(content.protocols)
    /\ kind = "register" /\ content.level = 2 => Single(content.protocols)

SoundDirectory(kind, directory) ==
    directory # None =>
        \A f \in DOMAIN directory.written : Sound(kind, directory.written[f])

AllSound ==
    \A kind \in Kinds, d \in Dates :
        SoundDirectory(kind, table[kind][d]) /\ SoundDirectory(kind, stage[kind][d])

(* What a command knows of what it read, and that its gates still hold.     *)
KnowsWhatItRead ==
    run # None =>
        /\ \A do \in Reads, kind \in Kinds : \A f \in Names(kind) :
              Did(Step(do, kind, f)) =>
                 run.in[kind] \in Content /\ Sound(kind, run.in[kind])
        /\ Did(Gate("extract")) => run.extract \in Extracts
        /\ Did(Gate("config")) => run.config \in Protocols

GatesHold ==
    run # None =>
        /\ run.command = "freeze" /\ run.at > 2 => NeverFrozen
        /\ run.command = "volume" /\ run.at > 5 => SameExtract
        /\ run.command = "inputs" /\ run.at > 10 => SameExtract
        /\ run.command = "inputs" /\ run.at > 12 => SameAsLatest
        /\ run.command = "derive" /\ run.at > 8 => InputsOfFrozen
        /\ run.command = "apply" /\ run.at > 7 => ThresholdOfFrozen
        /\ run.command = "apply" /\ run.at > 9 => InputsOfThreshold
        /\ run.command \in {"climate", "fire"} /\ run.at > 6 => SameAsLatest

KnowsTheFrozen ==
    run # None /\ Did(Read("d3-protocol", "table")) =>
        \E e \in Built("d3-protocol") :
            /\ "table" \in DOMAIN table["d3-protocol"][e].written
            /\ run.in["d3-protocol"] = table["d3-protocol"][e].written["table"]

(* Its output was not there when it looked. *)
Cleared == Did(Gate("absent")) \/ Did(Gate("noVersion"))

(* How far it is with its output. *)
WrittenSoFar ==
    run # None /\ OwnKind \notin StagedKinds =>
        \A i \in DOMAIN OwnFiles :
            /\ run.at > Looks + i =>
                  /\ Own # None
                  /\ OwnFiles[i] \in DOMAIN Own.written
                  /\ Own.written[OwnFiles[i]] = Output
            /\ run.at > Looks + Len(OwnFiles) + i =>
                  /\ Own # None
                  /\ OwnFiles[i] \in DOMAIN Own.sealed
                  /\ Own.sealed[OwnFiles[i]] = Output
            /\ Cleared /\ run.at <= Looks + i =>
                  Own = None \/ OwnFiles[i] \notin DOMAIN Own.written
            /\ Cleared /\ run.at <= Looks + Len(OwnFiles) + i =>
                  Own = None \/ OwnFiles[i] \notin DOMAIN Own.sealed

StagedSoFar ==
    run # None /\ OwnKind \in StagedKinds =>
        /\ Cleared => Own = None
        /\ \A i \in DOMAIN OwnFiles :
              /\ run.at >= Looks + 2 * i =>
                    /\ OwnStage # None
                    /\ OwnFiles[i] \in DOMAIN OwnStage.written
                    /\ OwnStage.written[OwnFiles[i]] = Output
              /\ run.at > Looks + 2 * i =>
                    /\ OwnStage # None
                    /\ OwnFiles[i] \in DOMAIN OwnStage.sealed
                    /\ OwnStage.sealed[OwnFiles[i]] = Output

(* A table without all its manifests is one that a dead command left, the   *)
(* one in progress, or a release that could not be written.                 *)
Clean(kind, d) ==
    \/ Verified(kind, d)
    \/ table[kind][d] = EmptyDirectory
    \/ kind = "public-rc" /\ DOMAIN table[kind][d].sealed = {}

NoTableLeft ==
    count.crashes = 0 =>
        \A kind \in Kinds : \A d \in Built(kind) :
            \/ Clean(kind, d)
            \/ run # None /\ kind = OwnKind /\ d = run.date /\ run.at > Looks + 1

OneDirectory == \A d, e \in Built("d3-protocol") : d = e

IInv ==
    /\ TypeOK
    /\ AllSound
    /\ KnowsWhatItRead
    /\ GatesHold
    /\ KnowsTheFrozen
    /\ WrittenSoFar
    /\ StagedSoFar
    /\ PublishedIsWhole
    /\ NoTableLeft
    /\ OneDirectory

-----------------------------------------------------------------------------
(* The plans. *)

OneFile == Kinds \ {"d3-inputs", "public-rc"}

LEMMA FilesOf ==
    /\ \A kind \in OneFile : Files(kind) = <<"table">> /\ Names(kind) = {"table"}
    /\ Files("d3-inputs") = <<"support", "summary">>
    /\ Names("d3-inputs") = {"support", "summary"}
    /\ Files("public-rc") = <<"tenements", "maus">>
    /\ Names("public-rc") = {"tenements", "maus"}
<1>1. \A kind \in OneFile : Files(kind) = <<"table">>
  BY DEF Files, OneFile
<1>2. Files("d3-inputs") = <<"support", "summary">>
  BY DEF Files
<1>3. Files("public-rc") = <<"tenements", "maus">>
  BY DEF Files
<1>4. \A kind \in OneFile : Names(kind) = {"table"}
  BY <1>1 DEF Names
<1>5. Names("d3-inputs") = {"support", "summary"}
  BY <1>2 DEF Names
<1>6. Names("public-rc") = {"tenements", "maus"}
  BY <1>3 DEF Names
<1>. QED
  BY <1>1, <1>2, <1>3, <1>4, <1>5, <1>6

LEMMA LengthOf ==
    ASSUME NEW kind \in Kinds
    PROVE  /\ Len(Files(kind)) \in 1 .. 2
           /\ DOMAIN Files(kind) = 1 .. Len(Files(kind))
<1>1. CASE kind \in OneFile
  <2>1. Files(kind) = <<"table">>
    BY <1>1, FilesOf
  <2>2. Len(Files(kind)) = 1 /\ DOMAIN Files(kind) = 1 .. 1
    BY <2>1
  <2>. QED
    BY <2>2
<1>2. CASE kind = "d3-inputs"
  <2>1. Len(Files(kind)) = 2 /\ DOMAIN Files(kind) = 1 .. 2
    BY <1>2, FilesOf
  <2>. QED
    BY <2>1
<1>3. CASE kind = "public-rc"
  <2>1. Len(Files(kind)) = 2 /\ DOMAIN Files(kind) = 1 .. 2
    BY <1>3, FilesOf
  <2>. QED
    BY <2>1
<1>. QED
  BY <1>1, <1>2, <1>3 DEF OneFile

(* Two sequences, of whatever they hold, one after the other. *)
IsSequence(s, n) == n \in Nat /\ s = [i \in 1 .. n |-> s[i]]

IsConcatenation(u, s, m, t, n) ==
    /\ IsSequence(u, m + n)
    /\ \A i \in 1 .. m : u[i] = s[i]
    /\ \A i \in 1 .. n : u[m + i] = t[i]

LEMMA Concat ==
    ASSUME NEW s, NEW t, NEW m, NEW n, IsSequence(s, m), IsSequence(t, n)
    PROVE  IsConcatenation(s \o t, s, m, t, n)
<1> DEFINE S == {s[i] : i \in 1 .. m} \cup {t[i] : i \in 1 .. n}
<1>1. m \in Nat /\ n \in Nat
  BY DEF IsSequence
<1>2. s \in Seq(S) /\ Len(s) = m
  <2>1. /\ [i \in 1 .. m |-> s[i]] \in Seq(S)
        /\ Len([i \in 1 .. m |-> s[i]]) = m
    BY <1>1
  <2>. QED
    BY <2>1 DEF IsSequence
<1>3. t \in Seq(S) /\ Len(t) = n
  <2>1. /\ [i \in 1 .. n |-> t[i]] \in Seq(S)
        /\ Len([i \in 1 .. n |-> t[i]]) = n
    BY <1>1
  <2>. QED
    BY <2>1 DEF IsSequence
<1> HIDE DEF S
<1>4. /\ s \o t \in Seq(S)
      /\ Len(s \o t) = m + n
      /\ \A i \in 1 .. m + n : (s \o t)[i] = IF i <= m THEN s[i] ELSE t[i - m]
  BY <1>2, <1>3, ConcatProperties
<1>5. IsSequence(s \o t, m + n)
  <2>1. s \o t \in [1 .. m + n -> S]
    BY <1>4, LenProperties
  <2>. QED
    BY <1>1, <2>1 DEF IsSequence
<1>6. \A i \in 1 .. n : m + i \in 1 .. m + n /\ ~(m + i <= m) /\ m + i - m = i
  BY <1>1
<1>7. ASSUME NEW i \in 1 .. n
      PROVE  (s \o t)[m + i] = t[i]
  BY <1>1, <1>4, <1>6
<1>8. \A i \in 1 .. m : i \in 1 .. m + n /\ i <= m
  BY <1>1
<1>. QED
  BY <1>4, <1>5, <1>7, <1>8 DEF IsConcatenation

(* The steps of an output, in place ... *)
LEMMA InPlaceOf ==
    ASSUME NEW kind \in Kinds, NEW n, n = Len(Files(kind))
    PROVE  /\ IsSequence(InPlace(kind), n + n)
           /\ \A i \in 1 .. n :
                 /\ InPlace(kind)[i] = Step("write", kind, Files(kind)[i])
                 /\ InPlace(kind)[n + i] = Step("seal", kind, Files(kind)[i])
<1> DEFINE files == Files(kind)
           written == [k \in DOMAIN files |-> Step("write", kind, files[k])]
           sealed == [k \in DOMAIN files |-> Step("seal", kind, files[k])]
<1>1. n \in 1 .. 2 /\ DOMAIN files = 1 .. n
  BY LengthOf
<1>2. IsSequence(written, n) /\ IsSequence(sealed, n)
  BY <1>1 DEF IsSequence
<1>3. \A i \in 1 .. n : /\ written[i] = Step("write", kind, files[i])
                        /\ sealed[i] = Step("seal", kind, files[i])
  BY <1>1
<1>4. InPlace(kind) = written \o sealed
  BY DEF InPlace
<1> HIDE DEF written, sealed
<1>5. /\ IsSequence(InPlace(kind), n + n)
      /\ \A i \in 1 .. n : InPlace(kind)[i] = written[i]
      /\ \A i \in 1 .. n : InPlace(kind)[n + i] = sealed[i]
  <2>1. IsConcatenation(InPlace(kind), written, n, sealed, n)
    BY <1>2, <1>4, Concat, Zenon
  <2>. QED
    BY <2>1 DEF IsConcatenation
<1>6. ASSUME NEW i \in 1 .. n
      PROVE  /\ InPlace(kind)[i] = Step("write", kind, files[i])
             /\ InPlace(kind)[n + i] = Step("seal", kind, files[i])
  BY <1>3, <1>5
<1>. QED
  BY <1>5, <1>6, Zenon

(* ... and in <date>.tmp. *)
LEMMA StagedOf ==
    ASSUME NEW kind \in Kinds, NEW n, n = Len(Files(kind))
    PROVE  /\ IsSequence(Staged(kind), 2 * n + 2)
           /\ \A i \in 1 .. n :
                 /\ Staged(kind)[2 * i - 1] = Step("stage", kind, Files(kind)[i])
                 /\ Staged(kind)[2 * i] = Step("sealStaged", kind, Files(kind)[i])
           /\ Staged(kind)[2 * n + 1] = Gate("absent")
           /\ Staged(kind)[2 * n + 2] = Step("publish", kind, "")
<1> DEFINE files == Files(kind)
           staged == [k \in 1 .. 2 * Len(files) |->
                         IF k % 2 = 1 THEN Step("stage", kind, files[(k + 1) \div 2])
                                      ELSE Step("sealStaged", kind, files[k \div 2])]
           end == <<Gate("absent"), Step("publish", kind, "")>>
<1>1. n \in 1 .. 2
  BY LengthOf
<1>2. IsSequence(staged, 2 * n) /\ IsSequence(end, 2)
  BY <1>1 DEF IsSequence
<1>3. ASSUME NEW i \in 1 .. n
      PROVE  /\ 2 * i - 1 \in 1 .. 2 * n /\ 2 * i \in 1 .. 2 * n
             /\ staged[2 * i - 1] = Step("stage", kind, files[i])
             /\ staged[2 * i] = Step("sealStaged", kind, files[i])
  BY <1>1
<1>4. 1 \in 1 .. 2 /\ 2 \in 1 .. 2 /\ end[1] = Gate("absent") /\ end[2] = Step("publish", kind, "")
  OBVIOUS
<1>5. Staged(kind) = staged \o end
  BY DEF Staged
<1> HIDE DEF staged, end
<1>6. /\ IsSequence(Staged(kind), 2 * n + 2)
      /\ \A i \in 1 .. 2 * n : Staged(kind)[i] = staged[i]
      /\ \A i \in 1 .. 2 : Staged(kind)[2 * n + i] = end[i]
  <2>1. IsConcatenation(Staged(kind), staged, 2 * n, end, 2)
    BY <1>2, <1>5, Concat, Zenon
  <2>. QED
    BY <2>1 DEF IsConcatenation
<1>7. ASSUME NEW i \in 1 .. n
      PROVE  /\ Staged(kind)[2 * i - 1] = Step("stage", kind, files[i])
             /\ Staged(kind)[2 * i] = Step("sealStaged", kind, files[i])
  BY <1>3, <1>6
<1>8. /\ Staged(kind)[2 * n + 1] = Gate("absent")
      /\ Staged(kind)[2 * n + 2] = Step("publish", kind, "")
  BY <1>4, <1>6
<1>. QED
  BY <1>6, <1>7, <1>8, Zenon

Commands == {"register", "crosswalk", "footprints", "coverage", "volume", "freeze",
             "inputs", "derive", "apply", "climate", "fire", "release", "rc"}

LEMMA CommandOf ==
    /\ DOMAIN Command = Commands
    /\ KindOf("register") = "register" /\ Before("register") = BuildRegister
    /\ KindOf("crosswalk") = "crosswalk" /\ Before("crosswalk") = BuildCrosswalk
    /\ KindOf("footprints") = "footprints" /\ Before("footprints") = BuildFootprints
    /\ KindOf("coverage") = "register" /\ Before("coverage") = BuildCoverage
    /\ KindOf("volume") = "volume" /\ Before("volume") = DeriveVolume
    /\ KindOf("freeze") = "d3-protocol" /\ Before("freeze") = FreezeProtocol
    /\ KindOf("inputs") = "d3-inputs" /\ Before("inputs") = BuildInputs
    /\ KindOf("derive") = "d3-threshold" /\ Before("derive") = DeriveThreshold
    /\ KindOf("apply") = "register" /\ Before("apply") = ApplyThreshold
    /\ KindOf("climate") = "climate" /\ Before("climate") = BuildContext("climate")
    /\ KindOf("fire") = "fire" /\ Before("fire") = BuildContext("fire")
    /\ KindOf("release") = "release" /\ Before("release") = ExportRelease
    /\ KindOf("rc") = "public-rc" /\ Before("rc") = BuildPublicRC
BY DEF Command, Commands, KindOf, Before, BuildClimate, BuildFire

LEMMA KindOfKinds ==
    ASSUME NEW command \in DOMAIN Command
    PROVE  KindOf(command) \in Kinds
BY CommandOf DEF Commands, Kinds, StagedKinds

(* What each command looks at. *)

LEMMA StepsOfBuildRegister ==
    ASSUME NEW command, command = "register"
    PROVE  /\ Len(Before(command)) = 1 /\ IsSequence(Before(command), 1)
           /\ Before(command)[1] = Gate("absent")
BY CommandOf DEF BuildRegister, IsSequence

LEMMA StepsOfBuildCrosswalk ==
    ASSUME NEW command, command = "crosswalk"
    PROVE  /\ Len(Before(command)) = 3 /\ IsSequence(Before(command), 3)
           /\ Before(command)[1] = ReadUnverified("register")
           /\ Before(command)[2] = Gate("extract")
           /\ Before(command)[3] = Gate("absent")
BY CommandOf DEF BuildCrosswalk, IsSequence

LEMMA StepsOfBuildFootprints ==
    ASSUME NEW command, command = "footprints"
    PROVE  /\ Len(Before(command)) = 2 /\ IsSequence(Before(command), 2)
           /\ Before(command)[1] = Gate("extract")
           /\ Before(command)[2] = Gate("absent")
BY CommandOf DEF BuildFootprints, IsSequence

LEMMA StepsOfBuildCoverage ==
    ASSUME NEW command, command = "coverage"
    PROVE  /\ Len(Before(command)) = 2 /\ IsSequence(Before(command), 2)
           /\ Before(command)[1] = Read("register", "table")
           /\ Before(command)[2] = Gate("absent")
BY CommandOf DEF BuildCoverage, IsSequence

LEMMA StepsOfDeriveVolume ==
    ASSUME NEW command, command = "volume"
    PROVE  /\ Len(Before(command)) = 7 /\ IsSequence(Before(command), 7)
           /\ Before(command)[1] = Read("crosswalk", "table")
           /\ Before(command)[2] = Read("footprints", "table")
           /\ Before(command)[3] = Read("register", "table")
           /\ Before(command)[4] = Gate("covered")
           /\ Before(command)[5] = Gate("sameExtract")
           /\ Before(command)[6] = Gate("catalogued")
           /\ Before(command)[7] = Gate("absent")
BY CommandOf DEF DeriveVolume, IsSequence

LEMMA StepsOfFreezeProtocol ==
    ASSUME NEW command, command = "freeze"
    PROVE  /\ Len(Before(command)) = 3 /\ IsSequence(Before(command), 3)
           /\ Before(command)[1] = Gate("config")
           /\ Before(command)[2] = Gate("neverFrozen")
           /\ Before(command)[3] = Gate("absent")
BY CommandOf DEF FreezeProtocol, IsSequence

LEMMA StepsOfBuildInputs ==
    ASSUME NEW command, command = "inputs"
    PROVE  /\ Len(Before(command)) = 13 /\ IsSequence(Before(command), 13)
           /\ Before(command)[1] = Gate("absent")
           /\ Before(command)[2] = Gate("oneFrozen")
           /\ Before(command)[3] = Read("d3-protocol", "table")
           /\ Before(command)[4] = Gate("config")
           /\ Before(command)[5] = Gate("noDrift")
           /\ Before(command)[6] = Read("register", "table")
           /\ Before(command)[7] = Gate("covered")
           /\ Before(command)[8] = Read("crosswalk", "table")
           /\ Before(command)[9] = Read("footprints", "table")
           /\ Before(command)[10] = Gate("sameExtract")
           /\ Before(command)[11] = Gate("extract")
           /\ Before(command)[12] = Gate("sameAsLatest")
           /\ Before(command)[13] = Gate("catalogued")
BY CommandOf DEF BuildInputs, IsSequence

LEMMA StepsOfDeriveThreshold ==
    ASSUME NEW command, command = "derive"
    PROVE  /\ Len(Before(command)) = 8 /\ IsSequence(Before(command), 8)
           /\ Before(command)[1] = Gate("absent")
           /\ Before(command)[2] = Gate("oneFrozen")
           /\ Before(command)[3] = Read("d3-protocol", "table")
           /\ Before(command)[4] = Gate("config")
           /\ Before(command)[5] = Gate("noDrift")
           /\ Before(command)[6] = Read("d3-inputs", "support")
           /\ Before(command)[7] = Read("d3-inputs", "summary")
           /\ Before(command)[8] = Gate("inputsOfFrozen")
BY CommandOf DEF DeriveThreshold, IsSequence

LEMMA StepsOfApplyThreshold ==
    ASSUME NEW command, command = "apply"
    PROVE  /\ Len(Before(command)) = 10 /\ IsSequence(Before(command), 10)
           /\ Before(command)[1] = Read("register", "table")
           /\ Before(command)[2] = Gate("covered")
           /\ Before(command)[3] = Read("crosswalk", "table")
           /\ Before(command)[4] = Gate("oneFrozen")
           /\ Before(command)[5] = Read("d3-protocol", "table")
           /\ Before(command)[6] = Read("d3-threshold", "table")
           /\ Before(command)[7] = Gate("thresholdOfFrozen")
           /\ Before(command)[8] = Read("d3-inputs", "support")
           /\ Before(command)[9] = Gate("inputsOfThreshold")
           /\ Before(command)[10] = Gate("absent")
BY CommandOf DEF ApplyThreshold, IsSequence

LEMMA StepsOfBuildContext ==
    ASSUME NEW command, command \in {"climate", "fire"}
    PROVE  /\ Len(Before(command)) = 6 /\ IsSequence(Before(command), 6)
           /\ Before(command)[1] = Gate("absent")
           /\ Before(command)[2] = Read("register", "table")
           /\ Before(command)[3] = Gate("eligible")
           /\ Before(command)[4] = Read("crosswalk", "table")
           /\ Before(command)[5] = Gate("extract")
           /\ Before(command)[6] = Gate("sameAsLatest")
BY CommandOf DEF BuildContext, IsSequence

LEMMA StepsOfExportRelease ==
    ASSUME NEW command, command = "release"
    PROVE  /\ Len(Before(command)) = 2 /\ IsSequence(Before(command), 2)
           /\ Before(command)[1] = Gate("absent")
           /\ Before(command)[2] = Step("readDated", "footprints", "table")
BY CommandOf DEF ExportRelease, IsSequence

LEMMA StepsOfBuildPublicRC ==
    ASSUME NEW command, command = "rc"
    PROVE  /\ Len(Before(command)) = 2 /\ IsSequence(Before(command), 2)
           /\ Before(command)[1] = Gate("noVersion")
           /\ Before(command)[2] = Gate("extract")
BY CommandOf DEF BuildPublicRC, IsSequence


LEMMA StepFields ==
    \A do, kind, file : /\ Step(do, kind, file).do = do
                        /\ Step(do, kind, file).kind = kind
                        /\ Step(do, kind, file).file = file
BY DEF Step

(* A step that only looks. *)
IsLook(step) ==
    /\ step.do \in Reads \cup {"gate"}
    /\ step.do \in Reads => step.kind \in Kinds

LEMMA LooksOnly ==
    /\ \A name : IsLook(Gate(name))
    /\ \A kind \in Kinds : \A file : IsLook(Read(kind, file))
    /\ \A kind \in Kinds : IsLook(ReadUnverified(kind))
    /\ \A kind \in Kinds : \A file : IsLook(Step("readDated", kind, file))
    /\ {"register", "crosswalk", "footprints", "d3-protocol", "d3-threshold", "d3-inputs"}
          \subseteq Kinds
<1>1. \A name : IsLook(Gate(name))
  BY DEF IsLook, Reads, Gate, Step
<1>2. \A kind \in Kinds : \A file : IsLook(Read(kind, file))
  BY DEF IsLook, Reads, Read, Step
<1>3. \A kind \in Kinds : IsLook(ReadUnverified(kind))
  BY DEF IsLook, Reads, ReadUnverified, Step
<1>4. \A kind \in Kinds : \A file : IsLook(Step("readDated", kind, file))
  BY DEF IsLook, Reads, Step
<1>5. {"register", "crosswalk", "footprints", "d3-protocol", "d3-threshold", "d3-inputs"}
         \subseteq Kinds
  BY DEF Kinds, StagedKinds
<1>. QED
  BY <1>1, <1>2, <1>3, <1>4, <1>5

(* A command looks before it writes, and looks whether its output is there. *)
LooksFirst(command, n) ==
    /\ n \in Nat \ {0}
    /\ IsSequence(Before(command), n)
    /\ \A i \in 1 .. n : IsLook(Before(command)[i])
    /\ \E i \in 1 .. n : Before(command)[i] \in {Gate("absent"), Gate("noVersion")}

LEMMA Looking ==
    ASSUME NEW command \in DOMAIN Command
    PROVE  LooksFirst(command, Len(Before(command)))
<1>1. CASE command = "register"
  <2>1. LooksFirst(command, 1)
    BY <1>1, StepsOfBuildRegister, LooksOnly DEF LooksFirst
  <2>2. Len(Before(command)) = 1
    BY <1>1, StepsOfBuildRegister
  <2>. QED
    BY <2>1, <2>2
<1>2. CASE command = "crosswalk"
  <2>1. LooksFirst(command, 3)
    BY <1>2, StepsOfBuildCrosswalk, LooksOnly DEF LooksFirst
  <2>2. Len(Before(command)) = 3
    BY <1>2, StepsOfBuildCrosswalk
  <2>. QED
    BY <2>1, <2>2
<1>3. CASE command = "footprints"
  <2>1. LooksFirst(command, 2)
    BY <1>3, StepsOfBuildFootprints, LooksOnly DEF LooksFirst
  <2>2. Len(Before(command)) = 2
    BY <1>3, StepsOfBuildFootprints
  <2>. QED
    BY <2>1, <2>2
<1>4. CASE command = "coverage"
  <2>1. LooksFirst(command, 2)
    BY <1>4, StepsOfBuildCoverage, LooksOnly DEF LooksFirst
  <2>2. Len(Before(command)) = 2
    BY <1>4, StepsOfBuildCoverage
  <2>. QED
    BY <2>1, <2>2
<1>5. CASE command = "volume"
  <2>1. LooksFirst(command, 7)
    BY <1>5, StepsOfDeriveVolume, LooksOnly DEF LooksFirst
  <2>2. Len(Before(command)) = 7
    BY <1>5, StepsOfDeriveVolume
  <2>. QED
    BY <2>1, <2>2
<1>6. CASE command = "freeze"
  <2>1. LooksFirst(command, 3)
    BY <1>6, StepsOfFreezeProtocol, LooksOnly DEF LooksFirst
  <2>2. Len(Before(command)) = 3
    BY <1>6, StepsOfFreezeProtocol
  <2>. QED
    BY <2>1, <2>2
<1>7. CASE command = "inputs"
  <2>1. LooksFirst(command, 13)
    BY <1>7, StepsOfBuildInputs, LooksOnly DEF LooksFirst
  <2>2. Len(Before(command)) = 13
    BY <1>7, StepsOfBuildInputs
  <2>. QED
    BY <2>1, <2>2
<1>8. CASE command = "derive"
  <2>1. LooksFirst(command, 8)
    BY <1>8, StepsOfDeriveThreshold, LooksOnly DEF LooksFirst
  <2>2. Len(Before(command)) = 8
    BY <1>8, StepsOfDeriveThreshold
  <2>. QED
    BY <2>1, <2>2
<1>9. CASE command = "apply"
  <2>1. LooksFirst(command, 10)
    BY <1>9, StepsOfApplyThreshold, LooksOnly DEF LooksFirst
  <2>2. Len(Before(command)) = 10
    BY <1>9, StepsOfApplyThreshold
  <2>. QED
    BY <2>1, <2>2
<1>10. CASE command \in {"climate", "fire"}
  <2>1. LooksFirst(command, 6)
    BY <1>10, StepsOfBuildContext, LooksOnly DEF LooksFirst
  <2>2. Len(Before(command)) = 6
    BY <1>10, StepsOfBuildContext
  <2>. QED
    BY <2>1, <2>2
<1>11. CASE command = "release"
  <2>1. LooksFirst(command, 2)
    BY <1>11, StepsOfExportRelease, LooksOnly DEF LooksFirst
  <2>2. Len(Before(command)) = 2
    BY <1>11, StepsOfExportRelease
  <2>. QED
    BY <2>1, <2>2
<1>12. CASE command = "rc"
  <2>1. LooksFirst(command, 2)
    BY <1>12, StepsOfBuildPublicRC, LooksOnly DEF LooksFirst
  <2>2. Len(Before(command)) = 2
    BY <1>12, StepsOfBuildPublicRC
  <2>. QED
    BY <2>1, <2>2
<1>. QED
  BY <1>1, <1>2, <1>3, <1>4, <1>5, <1>6, <1>7, <1>8, <1>9, <1>10, <1>11, <1>12,
     CommandOf DEF Commands

LEMMA SequenceDomain ==
    ASSUME NEW s, NEW n, IsSequence(s, n)
    PROVE  Len(s) = n /\ DOMAIN s = 1 .. n
<1> DEFINE t == [i \in 1 .. n |-> s[i]]
<1>1. n \in Nat /\ s = t
  BY DEF IsSequence
<1>2. Len(t) = n /\ DOMAIN t = 1 .. n
  BY <1>1
<1>. QED
  BY <1>1, <1>2, Zenon

(* A plan: looks, then what the output takes. *)
InPlacePlan(command, kind, b, n) ==
    /\ DOMAIN Plan[command] = 1 .. b + (n + n) /\ Len(Plan[command]) = b + (n + n)
    /\ \A i \in 1 .. n :
          /\ Plan[command][b + i] = Step("write", kind, Files(kind)[i])
          /\ Plan[command][b + (n + i)] = Step("seal", kind, Files(kind)[i])

StagedPlan(command, kind, b, n) ==
    /\ DOMAIN Plan[command] = 1 .. b + (2 * n + 2) /\ Len(Plan[command]) = b + (2 * n + 2)
    /\ \A i \in 1 .. n :
          /\ Plan[command][b + (2 * i - 1)] = Step("stage", kind, Files(kind)[i])
          /\ Plan[command][b + 2 * i] = Step("sealStaged", kind, Files(kind)[i])
    /\ Plan[command][b + (2 * n + 1)] = Gate("absent")
    /\ Plan[command][b + (2 * n + 2)] = Step("publish", kind, "")

LEMMA PlanOf ==
    ASSUME NEW command \in DOMAIN Command,
           NEW kind, kind = KindOf(command),
           NEW b, b = Len(Before(command)),
           NEW n, n = Len(Files(kind))
    PROVE  /\ kind \in Kinds /\ b \in Nat \ {0} /\ n \in 1 .. 2
           /\ \A i \in 1 .. b : Plan[command][i] = Before(command)[i]
           /\ kind \notin StagedKinds => InPlacePlan(command, kind, b, n)
           /\ kind \in StagedKinds => StagedPlan(command, kind, b, n)
<1>1. kind \in Kinds
  BY KindOfKinds
<1>2. n \in 1 .. 2
  BY <1>1, LengthOf
<1>3. b \in Nat \ {0} /\ IsSequence(Before(command), b)
  BY Looking DEF LooksFirst
<1>4. Plan[command] = Before(command) \o Writes(kind)
  BY DEF Plan, Before, KindOf
<1>5. CASE kind \notin StagedKinds
  <2>1. Writes(kind) = InPlace(kind)
    BY <1>5 DEF Writes
  <2>2. /\ IsSequence(InPlace(kind), n + n)
        /\ \A i \in 1 .. n :
              /\ InPlace(kind)[i] = Step("write", kind, Files(kind)[i])
              /\ InPlace(kind)[n + i] = Step("seal", kind, Files(kind)[i])
    BY <1>1, InPlaceOf
  <2>3. IsConcatenation(Plan[command], Before(command), b, InPlace(kind), n + n)
    BY <1>3, <1>4, <2>1, <2>2, Concat, ZenonT(60)
  <2>4. /\ IsSequence(Plan[command], b + (n + n))
        /\ \A i \in 1 .. b : Plan[command][i] = Before(command)[i]
        /\ \A i \in 1 .. n + n : Plan[command][b + i] = InPlace(kind)[i]
    BY <2>3 DEF IsConcatenation
  <2>5. /\ DOMAIN Plan[command] = 1 .. b + (n + n)
        /\ Len(Plan[command]) = b + (n + n)
    BY <2>4, SequenceDomain, Zenon
  <2>6. \A i \in 1 .. n : i \in 1 .. n + n /\ n + i \in 1 .. n + n
    BY <1>2
  <2>7. InPlacePlan(command, kind, b, n)
    <3>1. ASSUME NEW i \in 1 .. n
          PROVE  /\ Plan[command][b + i] = Step("write", kind, Files(kind)[i])
                 /\ Plan[command][b + (n + i)] = Step("seal", kind, Files(kind)[i])
      BY <2>2, <2>4, <2>6, ZenonT(60)
    <3>. QED
      BY <2>5, <3>1, Zenon DEF InPlacePlan
  <2>. QED
    BY <1>1, <1>2, <1>3, <1>5, <2>4, <2>7, Zenon
<1>6. CASE kind \in StagedKinds
  <2>1. Writes(kind) = Staged(kind)
    BY <1>6 DEF Writes
  <2>2. /\ IsSequence(Staged(kind), 2 * n + 2)
        /\ \A i \in 1 .. n :
              /\ Staged(kind)[2 * i - 1] = Step("stage", kind, Files(kind)[i])
              /\ Staged(kind)[2 * i] = Step("sealStaged", kind, Files(kind)[i])
        /\ Staged(kind)[2 * n + 1] = Gate("absent")
        /\ Staged(kind)[2 * n + 2] = Step("publish", kind, "")
    BY <1>1, StagedOf
  <2>3. IsConcatenation(Plan[command], Before(command), b, Staged(kind), 2 * n + 2)
    BY <1>3, <1>4, <2>1, <2>2, Concat, ZenonT(60)
  <2>4. /\ IsSequence(Plan[command], b + (2 * n + 2))
        /\ \A i \in 1 .. b : Plan[command][i] = Before(command)[i]
        /\ \A i \in 1 .. 2 * n + 2 : Plan[command][b + i] = Staged(kind)[i]
    BY <2>3 DEF IsConcatenation
  <2>5. /\ DOMAIN Plan[command] = 1 .. b + (2 * n + 2)
        /\ Len(Plan[command]) = b + (2 * n + 2)
    BY <2>4, SequenceDomain, Zenon
  <2>6. /\ \A i \in 1 .. n : 2 * i - 1 \in 1 .. 2 * n + 2 /\ 2 * i \in 1 .. 2 * n + 2
        /\ 2 * n + 1 \in 1 .. 2 * n + 2 /\ 2 * n + 2 \in 1 .. 2 * n + 2
    BY <1>2
  <2>7. StagedPlan(command, kind, b, n)
    BY <2>2, <2>4, <2>5, <2>6, ZenonT(60) DEF StagedPlan
  <2>. QED
    BY <1>1, <1>2, <1>3, <1>6, <2>4, <2>7, Zenon
<1>. QED
  BY <1>5, <1>6, Zenon

(* Where the command in progress is. *)
AtLook == run.at \in 1 .. Looks /\ Now = Before(run.command)[run.at] /\ IsLook(Now)

AtFile(do, position, i) == run.at = Looks + position /\ Now = Step(do, OwnKind, OwnFiles[i])

LEMMA Position ==
    ASSUME TypeOK, run # None, NEW b, b = Looks, NEW n, n = Len(OwnFiles)
    PROVE  \/ AtLook /\ run.at < Len(Plan[run.command])
           \/ /\ OwnKind \notin StagedKinds
              /\ \E i \in 1 .. n : AtFile("write", i, i)
              /\ run.at < Len(Plan[run.command])
           \/ /\ OwnKind \notin StagedKinds
              /\ \E i \in 1 .. n : AtFile("seal", n + i, i)
              /\ Len(Plan[run.command]) = Looks + (n + n)
           \/ /\ OwnKind \in StagedKinds
              /\ \E i \in 1 .. n : AtFile("stage", 2 * i - 1, i)
              /\ run.at < Len(Plan[run.command])
           \/ /\ OwnKind \in StagedKinds
              /\ \E i \in 1 .. n : AtFile("sealStaged", 2 * i, i)
              /\ run.at < Len(Plan[run.command])
           \/ /\ OwnKind \in StagedKinds
              /\ run.at = Looks + (2 * n + 1) /\ Now = Gate("absent")
              /\ run.at < Len(Plan[run.command])
           \/ /\ OwnKind \in StagedKinds
              /\ run.at = Looks + (2 * n + 2) /\ Now = Step("publish", OwnKind, "")
              /\ run.at = Len(Plan[run.command])
<1>1. run.command \in DOMAIN Command /\ run.at \in DOMAIN Plan[run.command]
  BY DEF TypeOK, Run
<1>2. /\ OwnKind \in Kinds /\ b \in Nat \ {0} /\ n \in 1 .. 2
      /\ \A i \in 1 .. b : Plan[run.command][i] = Before(run.command)[i]
      /\ OwnKind \notin StagedKinds => InPlacePlan(run.command, OwnKind, b, n)
      /\ OwnKind \in StagedKinds => StagedPlan(run.command, OwnKind, b, n)
  BY <1>1, PlanOf, Zenon DEF OwnKind, OwnFiles, Looks
<1>3. \A i \in 1 .. b : IsLook(Before(run.command)[i])
  BY <1>1, Looking DEF LooksFirst, Looks
<1>a. /\ \A at \in 1 .. b : at < b + (n + n) /\ at < b + (2 * n + 2)
      /\ \A i \in 1 .. n : /\ b + i < b + (n + n)
                          /\ b + (2 * i - 1) < b + (2 * n + 2)
                          /\ b + 2 * i < b + (2 * n + 2)
      /\ b + (2 * n + 1) < b + (2 * n + 2)
  BY <1>2
<1>4. CASE OwnKind \notin StagedKinds
  <2>1. /\ DOMAIN Plan[run.command] = 1 .. b + (n + n)
        /\ Len(Plan[run.command]) = b + (n + n)
        /\ \A i \in 1 .. n :
              /\ Plan[run.command][b + i] = Step("write", OwnKind, OwnFiles[i])
              /\ Plan[run.command][b + (n + i)] = Step("seal", OwnKind, OwnFiles[i])
    BY <1>2, <1>4 DEF InPlacePlan, OwnFiles
  <2>2. run.at \in 1 .. b + (n + n)
    BY <1>1, <2>1
  <2>3. \/ run.at \in 1 .. b
        \/ \E i \in 1 .. n : run.at = b + i
        \/ \E i \in 1 .. n : run.at = b + (n + i)
    <3>1. CASE run.at <= b
      BY <1>2, <2>2, <3>1
    <3>2. CASE b < run.at /\ run.at <= b + n
      <4>1. run.at - b \in 1 .. n /\ run.at = b + (run.at - b)
        BY <1>2, <2>2, <3>2
      <4>. QED
        BY <4>1
    <3>3. CASE b + n < run.at
      <4>1. run.at - b - n \in 1 .. n /\ run.at = b + (n + (run.at - b - n))
        BY <1>2, <2>2, <3>3
      <4>. QED
        BY <4>1
    <3>. QED
      BY <1>2, <2>2, <3>1, <3>2, <3>3
  <2>4. CASE run.at \in 1 .. b
    <3>1. AtLook
      BY <1>2, <1>3, <2>4 DEF AtLook, Now
    <3>2. run.at < Len(Plan[run.command])
      BY <1>a, <2>1, <2>4
    <3>. QED
      BY <3>1, <3>2
  <2>5. CASE \E i \in 1 .. n : run.at = b + i
    <3>1. PICK i \in 1 .. n : run.at = b + i
      BY <2>5
    <3>2. AtFile("write", i, i)
      BY <2>1, <3>1 DEF AtFile, Now
    <3>3. run.at < Len(Plan[run.command])
      BY <1>a, <2>1, <3>1
    <3>. QED
      BY <1>4, <3>2, <3>3
  <2>6. CASE \E i \in 1 .. n : run.at = b + (n + i)
    <3>1. PICK i \in 1 .. n : run.at = b + (n + i)
      BY <2>6
    <3>2. AtFile("seal", n + i, i)
      BY <2>1, <3>1 DEF AtFile, Now
    <3>3. Len(Plan[run.command]) = Looks + (n + n)
      BY <2>1
    <3>. QED
      BY <1>4, <3>2, <3>3
  <2>. QED
    BY <2>3, <2>4, <2>5, <2>6
<1>5. CASE OwnKind \in StagedKinds
  <2>1. /\ DOMAIN Plan[run.command] = 1 .. b + (2 * n + 2)
        /\ Len(Plan[run.command]) = b + (2 * n + 2)
        /\ \A i \in 1 .. n :
              /\ Plan[run.command][b + (2 * i - 1)] = Step("stage", OwnKind, OwnFiles[i])
              /\ Plan[run.command][b + 2 * i] = Step("sealStaged", OwnKind, OwnFiles[i])
        /\ Plan[run.command][b + (2 * n + 1)] = Gate("absent")
        /\ Plan[run.command][b + (2 * n + 2)] = Step("publish", OwnKind, "")
    BY <1>2, <1>5 DEF StagedPlan, OwnFiles
  <2>2. run.at \in 1 .. b + (2 * n + 2)
    BY <1>1, <2>1
  <2>3. \/ run.at \in 1 .. b
        \/ \E i \in 1 .. n : run.at = b + (2 * i - 1)
        \/ \E i \in 1 .. n : run.at = b + 2 * i
        \/ run.at = b + (2 * n + 1)
        \/ run.at = b + (2 * n + 2)
    <3>1. n = 1 \/ n = 2
      BY <1>2
    <3>2. CASE n = 1
      <4>1. run.at \in 1 .. b \/ run.at \in {b + 1, b + 2, b + 3, b + 4}
        BY <1>2, <2>2, <3>2
      <4>. QED
        BY <1>2, <3>2, <4>1
    <3>3. CASE n = 2
      <4>1. \/ run.at \in 1 .. b
            \/ run.at \in {b + 1, b + 2, b + 3, b + 4, b + 5, b + 6}
        BY <1>2, <2>2, <3>3
      <4>. QED
        BY <1>2, <3>3, <4>1
    <3>. QED
      BY <3>1, <3>2, <3>3
  <2>4. CASE run.at \in 1 .. b
    <3>1. AtLook
      BY <1>2, <1>3, <2>4 DEF AtLook, Now
    <3>2. run.at < Len(Plan[run.command])
      BY <1>a, <2>1, <2>4
    <3>. QED
      BY <3>1, <3>2
  <2>5. CASE \E i \in 1 .. n : run.at = b + (2 * i - 1)
    <3>1. PICK i \in 1 .. n : run.at = b + (2 * i - 1)
      BY <2>5
    <3>2. AtFile("stage", 2 * i - 1, i)
      BY <2>1, <3>1 DEF AtFile, Now
    <3>3. run.at < Len(Plan[run.command])
      BY <1>a, <2>1, <3>1
    <3>. QED
      BY <1>5, <3>2, <3>3
  <2>6. CASE \E i \in 1 .. n : run.at = b + 2 * i
    <3>1. PICK i \in 1 .. n : run.at = b + 2 * i
      BY <2>6
    <3>2. AtFile("sealStaged", 2 * i, i)
      BY <2>1, <3>1 DEF AtFile, Now
    <3>3. run.at < Len(Plan[run.command])
      BY <1>a, <2>1, <3>1
    <3>. QED
      BY <1>5, <3>2, <3>3
  <2>7. CASE run.at = b + (2 * n + 1)
    <3>1. run.at = Looks + (2 * n + 1) /\ Now = Gate("absent")
      BY <2>1, <2>7 DEF Now
    <3>2. run.at < Len(Plan[run.command])
      BY <1>a, <2>1, <2>7
    <3>. QED
      BY <1>5, <3>1, <3>2
  <2>8. CASE run.at = b + (2 * n + 2)
    <3>1. run.at = Looks + (2 * n + 2) /\ Now = Step("publish", OwnKind, "")
      BY <2>1, <2>8 DEF Now
    <3>2. run.at = Len(Plan[run.command])
      BY <2>1, <2>8
    <3>. QED
      BY <1>5, <3>1, <3>2
  <2>. QED
    BY <2>3, <2>4, <2>5, <2>6, <2>7, <2>8
<1>. QED
  BY <1>4, <1>5

LEMMA FieldsNow ==
    ASSUME NEW do, NEW kind, NEW file, Now = Step(do, kind, file)
    PROVE  Now.do = do /\ Kind = kind /\ File = file
BY DEF Step, Kind, File

(* What the step that is done now is about, and where in the plan it is. *)
LookingNow ==
    /\ Now.do \in Reads \cup {"gate"}
    /\ run.at < Len(Plan[run.command])
    /\ \/ AtLook
       \/ /\ OwnKind \in StagedKinds
          /\ run.at = Looks + (2 * Len(OwnFiles) + 1)
          /\ Now = Gate("absent")

Writing ==
    /\ Now.do = "write" /\ Kind = OwnKind /\ OwnKind \notin StagedKinds
    /\ run.at < Len(Plan[run.command])
    /\ \E i \in 1 .. Len(OwnFiles) : run.at = Looks + i /\ File = OwnFiles[i]

Sealing ==
    /\ Now.do = "seal" /\ Kind = OwnKind /\ OwnKind \notin StagedKinds
    /\ Len(Plan[run.command]) = Looks + (Len(OwnFiles) + Len(OwnFiles))
    /\ \E i \in 1 .. Len(OwnFiles) :
          run.at = Looks + (Len(OwnFiles) + i) /\ File = OwnFiles[i]

Staging ==
    /\ Now.do = "stage" /\ Kind = OwnKind /\ OwnKind \in StagedKinds
    /\ run.at < Len(Plan[run.command])
    /\ \E i \in 1 .. Len(OwnFiles) : run.at = Looks + (2 * i - 1) /\ File = OwnFiles[i]

SealingStaged ==
    /\ Now.do = "sealStaged" /\ Kind = OwnKind /\ OwnKind \in StagedKinds
    /\ run.at < Len(Plan[run.command])
    /\ \E i \in 1 .. Len(OwnFiles) : run.at = Looks + 2 * i /\ File = OwnFiles[i]

Publishing ==
    /\ Now.do = "publish" /\ Kind = OwnKind /\ OwnKind \in StagedKinds
    /\ run.at = Looks + (2 * Len(OwnFiles) + 2)
    /\ run.at = Len(Plan[run.command])

LEMMA WhereNow ==
    ASSUME TypeOK, run # None
    PROVE  LookingNow \/ Writing \/ Sealing \/ Staging \/ SealingStaged \/ Publishing
<1>1. PICK b, n : b = Looks /\ n = Len(OwnFiles)
  OBVIOUS
<1>2. CASE AtLook /\ run.at < Len(Plan[run.command])
  BY <1>2 DEF AtLook, IsLook, LookingNow
<1>3. CASE /\ OwnKind \notin StagedKinds
           /\ \E i \in 1 .. n : AtFile("write", i, i)
           /\ run.at < Len(Plan[run.command])
  <2>1. PICK i \in 1 .. n : AtFile("write", i, i)
    BY <1>3
  <2>2. run.at = Looks + i /\ Now.do = "write" /\ Kind = OwnKind /\ File = OwnFiles[i]
    BY <2>1, FieldsNow, Zenon DEF AtFile
  <2>. QED
    BY <1>1, <1>3, <2>2 DEF Writing
<1>4. CASE /\ OwnKind \notin StagedKinds
           /\ \E i \in 1 .. n : AtFile("seal", n + i, i)
           /\ Len(Plan[run.command]) = Looks + (n + n)
  <2>1. PICK i \in 1 .. n : AtFile("seal", n + i, i)
    BY <1>4
  <2>2. /\ run.at = Looks + (n + i)
        /\ Now.do = "seal" /\ Kind = OwnKind /\ File = OwnFiles[i]
    BY <2>1, FieldsNow, Zenon DEF AtFile
  <2>. QED
    BY <1>1, <1>4, <2>2 DEF Sealing
<1>5. CASE /\ OwnKind \in StagedKinds
           /\ \E i \in 1 .. n : AtFile("stage", 2 * i - 1, i)
           /\ run.at < Len(Plan[run.command])
  <2>1. PICK i \in 1 .. n : AtFile("stage", 2 * i - 1, i)
    BY <1>5
  <2>2. /\ run.at = Looks + (2 * i - 1)
        /\ Now.do = "stage" /\ Kind = OwnKind /\ File = OwnFiles[i]
    BY <2>1, FieldsNow, Zenon DEF AtFile
  <2>. QED
    BY <1>1, <1>5, <2>2 DEF Staging
<1>6. CASE /\ OwnKind \in StagedKinds
           /\ \E i \in 1 .. n : AtFile("sealStaged", 2 * i, i)
           /\ run.at < Len(Plan[run.command])
  <2>1. PICK i \in 1 .. n : AtFile("sealStaged", 2 * i, i)
    BY <1>6
  <2>2. /\ run.at = Looks + 2 * i
        /\ Now.do = "sealStaged" /\ Kind = OwnKind /\ File = OwnFiles[i]
    BY <2>1, FieldsNow, Zenon DEF AtFile
  <2>. QED
    BY <1>1, <1>6, <2>2 DEF SealingStaged
<1>7. CASE /\ OwnKind \in StagedKinds
           /\ run.at = Looks + (2 * n + 1) /\ Now = Gate("absent")
           /\ run.at < Len(Plan[run.command])
  <2>1. Now.do = "gate"
    BY <1>7, FieldsNow, Zenon DEF Gate
  <2>. QED
    BY <1>1, <1>7, <2>1 DEF LookingNow
<1>8. CASE /\ OwnKind \in StagedKinds
           /\ run.at = Looks + (2 * n + 2) /\ Now = Step("publish", OwnKind, "")
           /\ run.at = Len(Plan[run.command])
  <2>1. Now.do = "publish" /\ Kind = OwnKind
    BY <1>8, FieldsNow, Zenon
  <2>. QED
    BY <1>1, <1>8, <2>1 DEF Publishing
<1>. QED
  BY <1>1, <1>2, <1>3, <1>4, <1>5, <1>6, <1>7, <1>8, Position, Zenon

LEMMA WhereAt ==
    ASSUME TypeOK, NEW do, At(do)
    PROVE  /\ run # None
           /\ do = "write" => Writing
           /\ do = "seal" => Sealing
           /\ do = "stage" => Staging
           /\ do = "sealStaged" => SealingStaged
           /\ do = "publish" => Publishing
           /\ do \in Reads \cup {"gate"} => LookingNow
<1>1. Now.do = do /\ run # None
  BY DEF At
<1>2. LookingNow \/ Writing \/ Sealing \/ Staging \/ SealingStaged \/ Publishing
  BY <1>1, WhereNow
<1>3. /\ LookingNow => do \in Reads \cup {"gate"}
      /\ Writing => do = "write"
      /\ Sealing => do = "seal"
      /\ Staging => do = "stage"
      /\ SealingStaged => do = "sealStaged"
      /\ Publishing => do = "publish"
  BY <1>1 DEF LookingNow, Writing, Sealing, Staging, SealingStaged, Publishing
<1>. QED
  BY <1>1, <1>2, <1>3 DEF Reads

(* One step further. *)
Advances ==
    /\ run' \in Run /\ run' # None
    /\ run'.command = run.command /\ run'.date = run.date
    /\ run'.at = run.at + 1
    /\ run'.at \in DOMAIN Plan[run.command]

Remembers == run'.in = run.in /\ run'.extract = run.extract /\ run'.config = run.config

LEMMA RunIs ==
    ASSUME TypeOK, run # None
    PROVE  /\ run \in Run /\ run.command \in DOMAIN Command /\ run.date \in Dates
           /\ run.at \in Nat \ {0} /\ run.at <= Len(Plan[run.command])
           /\ DOMAIN Plan[run.command] = 1 .. Len(Plan[run.command])
           /\ OwnKind \in Kinds /\ Looks \in Nat \ {0} /\ Len(OwnFiles) \in 1 .. 2
           /\ Len(Plan[run.command]) \in Nat
           /\ DOMAIN OwnFiles = 1 .. Len(OwnFiles)
<1>1. /\ run \in Run /\ run.command \in DOMAIN Command /\ run.date \in Dates
      /\ run.at \in DOMAIN Plan[run.command]
  BY DEF TypeOK, Run
<1>2. PICK b, n : b = Looks /\ n = Len(OwnFiles)
  OBVIOUS
<1>3. /\ OwnKind \in Kinds /\ b \in Nat \ {0} /\ n \in 1 .. 2
      /\ OwnKind \notin StagedKinds => InPlacePlan(run.command, OwnKind, b, n)
      /\ OwnKind \in StagedKinds => StagedPlan(run.command, OwnKind, b, n)
  BY <1>1, <1>2, PlanOf, Zenon DEF OwnKind, OwnFiles, Looks
<1>4. \E l \in Nat : DOMAIN Plan[run.command] = 1 .. l /\ Len(Plan[run.command]) = l
  <2>1. CASE OwnKind \notin StagedKinds
    <3>1. b + (n + n) \in Nat
      BY <1>3
    <3>. QED
      BY <1>3, <2>1, <3>1 DEF InPlacePlan
  <2>2. CASE OwnKind \in StagedKinds
    <3>1. b + (2 * n + 2) \in Nat
      BY <1>3
    <3>. QED
      BY <1>3, <2>2, <3>1 DEF StagedPlan
  <2>. QED
    BY <2>1, <2>2
<1>5. DOMAIN OwnFiles = 1 .. Len(OwnFiles)
  BY <1>3, LengthOf DEF OwnFiles
<1>. QED
  BY <1>1, <1>2, <1>3, <1>4, <1>5

LEMMA GoesOn ==
    ASSUME TypeOK, run # None, Goes, run.at < Len(Plan[run.command])
    PROVE  Advances /\ Remembers
<1>1. run' = [run EXCEPT !.at = @ + 1]
  BY RunIs DEF Goes
<1>2. run.at + 1 \in Nat /\ run.at + 1 \in 1 .. Len(Plan[run.command])
  BY RunIs
<1>3. run' \in Run
  BY <1>1, <1>2, RunIs DEF Run
<1>4. run' # None
  BY <1>3, NoneAssumption
<1>5. /\ run'.command = run.command /\ run'.date = run.date /\ run'.at = run.at + 1
      /\ Remembers
  BY <1>1, RunIs DEF Run, Remembers
<1>. QED
  BY <1>2, <1>3, <1>4, <1>5, RunIs DEF Advances

LEMMA TookOn ==
    ASSUME TypeOK, run # None, run.at < Len(Plan[run.command]),
           NEW kind \in Kinds, NEW content \in Content, Took(kind, content)
    PROVE  /\ Advances
           /\ run'.in = [run.in EXCEPT ![kind] = content]
           /\ run'.extract = run.extract /\ run'.config = run.config
<1>1. run' = [run EXCEPT !.at = @ + 1, !.in[kind] = content]
  BY DEF Took
<1>2. run.at + 1 \in Nat /\ run.at + 1 \in 1 .. Len(Plan[run.command])
  BY RunIs
<1>3. /\ run'.command = run.command /\ run'.date = run.date /\ run'.at = run.at + 1
      /\ run'.in = [run.in EXCEPT ![kind] = content]
      /\ run'.extract = run.extract /\ run'.config = run.config
      /\ run' = [command |-> run.command, date |-> run.date, at |-> run.at + 1,
                 in |-> [run.in EXCEPT ![kind] = content],
                 extract |-> run.extract, config |-> run.config]
  BY <1>1, RunIs DEF Run
<1>4. [run.in EXCEPT ![kind] = content] \in [Kinds -> Content \cup {None}]
  BY RunIs DEF Run
<1>5. run' \in Run
  BY <1>2, <1>3, <1>4, RunIs DEF Run
<1>6. run' # None
  BY <1>5, NoneAssumption
<1>. QED
  BY <1>2, <1>3, <1>5, <1>6, RunIs DEF Advances

LEMMA DidNow ==
    ASSUME TypeOK, run # None, Advances
    PROVE  \A step : Did(step)' <=> Did(step) \/ step = Now
<1>1. run.at \in Nat \ {0} /\ run'.at = run.at + 1 /\ run'.command = run.command
  BY RunIs DEF Advances
<1>2. 1 .. run'.at - 1 = (1 .. run.at - 1) \cup {run.at}
  BY <1>1
<1>. QED
  BY <1>1, <1>2 DEF Did, Now

(* What a command computes. *)
LEMMA OutputOf ==
    LET in == run.in
        across == in["crosswalk"].extracts \cup in["footprints"].extracts
    IN
    /\ run.command = "register" => Output = Plain
    /\ run.command \in {"crosswalk", "footprints", "rc"} =>
          Output = [Plain EXCEPT !.extracts = {run.extract}]
    /\ run.command = "coverage" =>
          Output = [in["register"] EXCEPT !.level = IF @ = 0 THEN 1 ELSE @]
    /\ run.command = "volume" => Output = [Plain EXCEPT !.extracts = across]
    /\ run.command = "freeze" => Output = [Plain EXCEPT !.protocols = {run.config}]
    /\ run.command = "inputs" =>
          Output = [Plain EXCEPT !.extracts = across \cup {run.extract},
                                 !.protocols = in["d3-protocol"].protocols]
    /\ run.command = "derive" =>
          Output = [Plain EXCEPT !.protocols = in["d3-protocol"].protocols
                                                  \cup in["d3-inputs"].protocols]
    /\ run.command = "apply" =>
          Output = [Plain EXCEPT !.level = 2,
                                 !.extracts = in["crosswalk"].extracts
                                                 \cup in["d3-inputs"].extracts,
                                 !.protocols = in["d3-protocol"].protocols
                                                  \cup in["d3-threshold"].protocols
                                                  \cup in["d3-inputs"].protocols]
    /\ run.command \in {"climate", "fire"} =>
          Output = [Plain EXCEPT !.extracts = in["crosswalk"].extracts \cup {run.extract}]
    /\ run.command = "release" => Output = in["footprints"]
<1> DEFINE from(kinds) == UNION {run.in[k].protocols : k \in kinds}
<1>1. /\ from({"d3-protocol"}) = run.in["d3-protocol"].protocols
      /\ from({"d3-protocol", "d3-inputs"})
            = run.in["d3-protocol"].protocols \cup run.in["d3-inputs"].protocols
      /\ from({"d3-protocol", "d3-threshold", "d3-inputs"})
            = run.in["d3-protocol"].protocols \cup run.in["d3-threshold"].protocols
                 \cup run.in["d3-inputs"].protocols
  OBVIOUS
<1>2. CASE run.command = "register"
  BY <1>2 DEF Output
<1>3. CASE run.command \in {"crosswalk", "footprints", "rc"}
  BY <1>3 DEF Output
<1>4. CASE run.command = "coverage"
  BY <1>4 DEF Output
<1>5. CASE run.command = "volume"
  BY <1>5 DEF Output
<1>6. CASE run.command = "freeze"
  BY <1>6 DEF Output
<1>7. CASE run.command = "inputs"
  BY <1>1, <1>7 DEF Output
<1>8. CASE run.command = "derive"
  BY <1>1, <1>8 DEF Output
<1>9. CASE run.command = "apply"
  BY <1>1, <1>9 DEF Output
<1>10. CASE run.command \in {"climate", "fire"}
  BY <1>10 DEF Output
<1>11. CASE run.command = "release"
  BY <1>11 DEF Output
<1>. QED
  BY <1>2, <1>3, <1>4, <1>5, <1>6, <1>7, <1>8, <1>9, <1>10, <1>11

(* A command that is done looking did every look. *)
LEMMA DidAll ==
    ASSUME TypeOK, run # None, run.at > Looks
    PROVE  \A i \in 1 .. Looks : Did(Before(run.command)[i])
<1>1. run.command \in DOMAIN Command /\ run.at \in Nat \ {0} /\ Looks \in Nat \ {0}
  BY RunIs
<1>2. \A i \in 1 .. Looks : Plan[run.command][i] = Before(run.command)[i]
  BY <1>1, PlanOf DEF Looks, OwnKind
<1>3. \A i \in 1 .. Looks : i \in 1 .. run.at - 1
  BY <1>1
<1>. QED
  BY <1>2, <1>3 DEF Did

Knows(kind) == run.in[kind] \in Content /\ Sound(kind, run.in[kind])

LEMMA KnowsRead ==
    ASSUME KnowsWhatItRead, run # None
    PROVE  /\ \A kind \in OneFile : Did(Read(kind, "table")) => Knows(kind)
           /\ \A kind \in OneFile : Did(Step("readDated", kind, "table")) => Knows(kind)
           /\ Did(Read("d3-inputs", "support")) => Knows("d3-inputs")
           /\ Did(Gate("extract")) => run.extract \in Extracts
           /\ Did(Gate("config")) => run.config \in Protocols
<1>1. OneFile \subseteq Kinds /\ "d3-inputs" \in Kinds
  BY DEF OneFile, Kinds, StagedKinds
<1>2. \A kind \in OneFile : "table" \in Names(kind)
  BY FilesOf
<1>3. "support" \in Names("d3-inputs")
  BY FilesOf
<1>4. \A do \in Reads, kind \in Kinds : \A f \in Names(kind) :
         Did(Step(do, kind, f)) => Knows(kind)
  BY DEF KnowsWhatItRead, Knows
<1>5. "read" \in Reads /\ "readDated" \in Reads
  BY DEF Reads
<1>. QED
  BY <1>1, <1>2, <1>3, <1>4, <1>5 DEF KnowsWhatItRead, Read

LEMMA FrozenIsSingle ==
    ASSUME Knows("d3-protocol")
    PROVE  /\ Single(run.in["d3-protocol"].protocols)
           /\ run.in["d3-protocol"].protocols \in SUBSET Protocols
<1>1. "d3-protocol" \in StagedKinds
  BY DEF StagedKinds
<1>2. Single(run.in["d3-protocol"].protocols)
  BY <1>1 DEF Knows, Sound
<1>. QED
  BY <1>2 DEF Knows, Content

(* What is computed of sound tables, behind the gates, is sound. *)
LEMMA OutputSound ==
    ASSUME TypeOK, KnowsWhatItRead, GatesHold, run # None, run.at > Looks
    PROVE  Output \in Content /\ Sound(OwnKind, Output)
<1> DEFINE command == run.command
<1>1. command \in Commands /\ run.at \in Nat \ {0} /\ Looks \in Nat \ {0}
  BY RunIs, CommandOf
<1>2. \A i \in 1 .. Looks : Did(Before(command)[i])
  BY DidAll
<1>3. {"register", "crosswalk", "footprints", "d3-protocol", "d3-threshold"} \subseteq OneFile
  BY DEF OneFile, Kinds, StagedKinds
<1>4. CASE command = "register"
  <2>1. Output = Plain /\ OwnKind = "register"
    BY <1>4, OutputOf, CommandOf DEF OwnKind
  <2>. QED
    BY <2>1 DEF Plain, Content, Sound, StagedKinds
<1>5. CASE command = "crosswalk"
  <2>1. Looks = 3 /\ Before(command)[2] = Gate("extract")
    BY <1>5, StepsOfBuildCrosswalk DEF Looks
  <2>2. run.extract \in Extracts
    BY <1>2, <2>1, KnowsRead
  <2>3. Output = [Plain EXCEPT !.extracts = {run.extract}] /\ OwnKind = "crosswalk"
    BY <1>5, OutputOf, CommandOf DEF OwnKind
  <2>. QED
    BY <2>2, <2>3 DEF Plain, Content, Sound, Single, StagedKinds
<1>6. CASE command = "footprints"
  <2>1. Looks = 2 /\ Before(command)[1] = Gate("extract")
    BY <1>6, StepsOfBuildFootprints DEF Looks
  <2>2. run.extract \in Extracts
    BY <1>2, <2>1, KnowsRead
  <2>3. Output = [Plain EXCEPT !.extracts = {run.extract}] /\ OwnKind = "footprints"
    BY <1>6, OutputOf, CommandOf DEF OwnKind
  <2>. QED
    BY <2>2, <2>3 DEF Plain, Content, Sound, Single, StagedKinds
<1>7. CASE command = "rc"
  <2>1. Looks = 2 /\ Before(command)[2] = Gate("extract")
    BY <1>7, StepsOfBuildPublicRC DEF Looks
  <2>2. run.extract \in Extracts
    BY <1>2, <2>1, KnowsRead
  <2>3. Output = [Plain EXCEPT !.extracts = {run.extract}] /\ OwnKind = "public-rc"
    BY <1>7, OutputOf, CommandOf DEF OwnKind
  <2>. QED
    BY <2>2, <2>3 DEF Plain, Content, Sound, Single, StagedKinds
<1>8. CASE command = "coverage"
  <2>1. Looks = 2 /\ Before(command)[1] = Read("register", "table")
    BY <1>8, StepsOfBuildCoverage DEF Looks
  <2>2. Knows("register")
    BY <1>2, <1>3, <2>1, KnowsRead
  <2>3. /\ Output = [run.in["register"] EXCEPT !.level = IF @ = 0 THEN 1 ELSE @]
        /\ OwnKind = "register"
    BY <1>8, OutputOf, CommandOf DEF OwnKind
  <2>. QED
    BY <2>2, <2>3 DEF Knows, Content, Sound, StagedKinds
<1>9. CASE command = "volume"
  <2>1. /\ Looks = 7
        /\ Before(command)[1] = Read("crosswalk", "table")
        /\ Before(command)[2] = Read("footprints", "table")
    BY <1>9, StepsOfDeriveVolume DEF Looks
  <2>2. Knows("crosswalk") /\ Knows("footprints")
    BY <1>2, <1>3, <2>1, KnowsRead
  <2>3. run.in["crosswalk"].extracts = run.in["footprints"].extracts
    BY <1>1, <1>9, <2>1 DEF GatesHold, SameExtract
  <2>4. /\ Output = [Plain EXCEPT !.extracts = run.in["crosswalk"].extracts
                                                  \cup run.in["footprints"].extracts]
        /\ OwnKind = "volume"
    BY <1>9, OutputOf, CommandOf DEF OwnKind
  <2>. QED
    BY <2>2, <2>3, <2>4, SMTT(30) DEF Knows, Plain, Content, Sound, StagedKinds
<1>10. CASE command = "freeze"
  <2>1. Looks = 3 /\ Before(command)[1] = Gate("config")
    BY <1>10, StepsOfFreezeProtocol DEF Looks
  <2>2. run.config \in Protocols
    BY <1>2, <2>1, KnowsRead
  <2>3. Output = [Plain EXCEPT !.protocols = {run.config}] /\ OwnKind = "d3-protocol"
    BY <1>10, OutputOf, CommandOf DEF OwnKind
  <2>. QED
    BY <2>2, <2>3 DEF Plain, Content, Sound, Single, StagedKinds
<1>11. CASE command = "inputs"
  <2>1. /\ Looks = 13
        /\ Before(command)[3] = Read("d3-protocol", "table")
        /\ Before(command)[8] = Read("crosswalk", "table")
        /\ Before(command)[9] = Read("footprints", "table")
        /\ Before(command)[11] = Gate("extract")
    BY <1>11, StepsOfBuildInputs DEF Looks
  <2>2. Knows("d3-protocol") /\ Knows("crosswalk") /\ Knows("footprints")
    BY <1>2, <1>3, <2>1, KnowsRead
  <2>3. run.extract \in Extracts
    BY <1>2, <2>1, KnowsRead
  <2>4. /\ run.in["crosswalk"].extracts = run.in["footprints"].extracts
        /\ run.in["crosswalk"].extracts = {run.extract}
    BY <1>1, <1>11, <2>1 DEF GatesHold, SameExtract, SameAsLatest
  <2>5. /\ Output = [Plain EXCEPT !.extracts = run.in["crosswalk"].extracts
                                                  \cup run.in["footprints"].extracts
                                                  \cup {run.extract},
                                  !.protocols = run.in["d3-protocol"].protocols]
        /\ OwnKind = "d3-inputs"
    BY <1>11, OutputOf, CommandOf DEF OwnKind
  <2>6. /\ Single(run.in["d3-protocol"].protocols)
        /\ run.in["d3-protocol"].protocols \in SUBSET Protocols
    BY <2>2, FrozenIsSingle
  <2>7. Output = [level |-> 0, extracts |-> {run.extract},
                  protocols |-> run.in["d3-protocol"].protocols]
    BY <2>4, <2>5 DEF Plain
  <2>8. Single({run.extract})
    BY DEF Single
  <2>. QED
    <3>1. Output \in Content
      BY <2>3, <2>6, <2>7 DEF Content
    <3>2. /\ Output.level = 0 /\ Output.extracts = {run.extract}
          /\ Output.protocols = run.in["d3-protocol"].protocols
      BY <2>7
    <3>. QED
      BY <2>5, <2>6, <2>8, <3>1, <3>2 DEF Sound
<1>12. CASE command = "derive"
  <2>1. /\ Looks = 8
        /\ Before(command)[3] = Read("d3-protocol", "table")
        /\ Before(command)[6] = Read("d3-inputs", "support")
    BY <1>12, StepsOfDeriveThreshold DEF Looks
  <2>2. Knows("d3-protocol") /\ Knows("d3-inputs")
    BY <1>2, <1>3, <2>1, KnowsRead
  <2>3. run.in["d3-inputs"].protocols = run.in["d3-protocol"].protocols
    BY <1>1, <1>12, <2>1 DEF GatesHold, InputsOfFrozen, InProtocols
  <2>4. /\ Output = [Plain EXCEPT !.protocols = run.in["d3-protocol"].protocols
                                                   \cup run.in["d3-inputs"].protocols]
        /\ OwnKind = "d3-threshold"
    BY <1>12, OutputOf, CommandOf DEF OwnKind
  <2>5. /\ Single(run.in["d3-protocol"].protocols)
        /\ run.in["d3-protocol"].protocols \in SUBSET Protocols
    BY <2>2, FrozenIsSingle
  <2>6. Output = [level |-> 0, extracts |-> {},
                  protocols |-> run.in["d3-protocol"].protocols]
    BY <2>3, <2>4 DEF Plain
  <2>. QED
    <3>1. Output \in Content
      BY <2>5, <2>6 DEF Content
    <3>2. Output.level = 0 /\ Output.protocols = run.in["d3-protocol"].protocols
      BY <2>6
    <3>. QED
      BY <2>4, <2>5, <3>1, <3>2 DEF Sound
<1>13. CASE command = "apply"
  <2>1. /\ Looks = 10
        /\ Before(command)[3] = Read("crosswalk", "table")
        /\ Before(command)[5] = Read("d3-protocol", "table")
        /\ Before(command)[6] = Read("d3-threshold", "table")
        /\ Before(command)[8] = Read("d3-inputs", "support")
    BY <1>13, StepsOfApplyThreshold DEF Looks
  <2>2. /\ Knows("d3-protocol") /\ Knows("d3-threshold")
        /\ Knows("d3-inputs") /\ Knows("crosswalk")
    BY <1>2, <1>3, <2>1, KnowsRead
  <2>3. /\ run.in["d3-threshold"].protocols = run.in["d3-protocol"].protocols
        /\ run.in["d3-inputs"].protocols = run.in["d3-threshold"].protocols
    BY <1>1, <1>13, <2>1 DEF GatesHold, ThresholdOfFrozen, InputsOfThreshold, InProtocols
  <2>4. /\ Output = [Plain EXCEPT !.level = 2,
                                  !.extracts = run.in["crosswalk"].extracts
                                                  \cup run.in["d3-inputs"].extracts,
                                  !.protocols = run.in["d3-protocol"].protocols
                                                   \cup run.in["d3-threshold"].protocols
                                                   \cup run.in["d3-inputs"].protocols]
        /\ OwnKind = "register"
    BY <1>13, OutputOf, CommandOf DEF OwnKind
  <2>5. /\ Single(run.in["d3-protocol"].protocols)
        /\ run.in["d3-protocol"].protocols \in SUBSET Protocols
    BY <2>2, FrozenIsSingle
  <2>6. PICK both : both = run.in["crosswalk"].extracts \cup run.in["d3-inputs"].extracts
    OBVIOUS
  <2>7. both \in SUBSET Extracts
    BY <2>2, <2>6 DEF Knows, Content
  <2>8. Output = [level |-> 2, extracts |-> both,
                  protocols |-> run.in["d3-protocol"].protocols]
    BY <2>3, <2>4, <2>6 DEF Plain
  <2>. QED
    <3>1. Output \in Content
      BY <2>5, <2>7, <2>8 DEF Content
    <3>2. Output.level = 2 /\ Output.protocols = run.in["d3-protocol"].protocols
      BY <2>8
    <3>. QED
      BY <2>4, <2>5, <3>1, <3>2 DEF Sound, StagedKinds
<1>14. CASE command \in {"climate", "fire"}
  <2>1. /\ Looks = 6
        /\ Before(command)[4] = Read("crosswalk", "table")
        /\ Before(command)[5] = Gate("extract")
    BY <1>14, StepsOfBuildContext DEF Looks
  <2>2. Knows("crosswalk") /\ run.extract \in Extracts
    BY <1>2, <1>3, <2>1, KnowsRead
  <2>3. run.in["crosswalk"].extracts = {run.extract}
    BY <1>1, <1>14, <2>1 DEF GatesHold, SameAsLatest
  <2>4. /\ Output = [Plain EXCEPT !.extracts = run.in["crosswalk"].extracts
                                                  \cup {run.extract}]
        /\ OwnKind \in {"climate", "fire"}
    BY <1>14, OutputOf, CommandOf DEF OwnKind
  <2>. QED
    BY <2>2, <2>3, <2>4 DEF Knows, Plain, Content, Sound, StagedKinds
<1>15. CASE command = "release"
  <2>1. Looks = 2 /\ Before(command)[2] = Step("readDated", "footprints", "table")
    BY <1>15, StepsOfExportRelease DEF Looks
  <2>2. Knows("footprints")
    BY <1>2, <1>3, <2>1, KnowsRead
  <2>3. Output = run.in["footprints"] /\ OwnKind = "release"
    BY <1>15, OutputOf, CommandOf DEF OwnKind
  <2>. QED
    BY <2>2, <2>3 DEF Knows, Sound, StagedKinds
<1>. QED
  BY <1>1, <1>4, <1>5, <1>6, <1>7, <1>8, <1>9, <1>10, <1>11, <1>12, <1>13, <1>14, <1>15
     DEF Commands

(* Where the gates are that GatesHold is about, and what they check.        *)
LEMMA GateNow ==
    ASSUME TypeOK, run # None
    PROVE  /\ run.command = "freeze" /\ run.at = 2 => Now = Gate("neverFrozen")
           /\ run.command = "volume" /\ run.at = 5 => Now = Gate("sameExtract")
           /\ run.command = "inputs" /\ run.at = 10 => Now = Gate("sameExtract")
           /\ run.command = "inputs" /\ run.at = 12 => Now = Gate("sameAsLatest")
           /\ run.command = "derive" /\ run.at = 8 => Now = Gate("inputsOfFrozen")
           /\ run.command = "apply" /\ run.at = 7 => Now = Gate("thresholdOfFrozen")
           /\ run.command = "apply" /\ run.at = 9 => Now = Gate("inputsOfThreshold")
           /\ run.command \in {"climate", "fire"} /\ run.at = 6 => Now = Gate("sameAsLatest")
<1>1. run.command \in DOMAIN Command
  BY RunIs
<1>2. \A i \in 1 .. Looks : Plan[run.command][i] = Before(run.command)[i]
  BY <1>1, PlanOf DEF Looks, OwnKind
<1>3. ASSUME run.command = "freeze", run.at = 2
      PROVE  Now = Gate("neverFrozen")
  BY <1>2, <1>3, StepsOfFreezeProtocol DEF Now, Looks
<1>4. ASSUME run.command = "volume", run.at = 5
      PROVE  Now = Gate("sameExtract")
  BY <1>2, <1>4, StepsOfDeriveVolume DEF Now, Looks
<1>5. ASSUME run.command = "inputs"
      PROVE  /\ run.at = 10 => Now = Gate("sameExtract")
             /\ run.at = 12 => Now = Gate("sameAsLatest")
  <2>1. /\ Looks = 13
        /\ Before(run.command)[10] = Gate("sameExtract")
        /\ Before(run.command)[12] = Gate("sameAsLatest")
    BY <1>5, StepsOfBuildInputs DEF Looks
  <2>. QED
    BY <1>2, <2>1 DEF Now
<1>6. ASSUME run.command = "derive", run.at = 8
      PROVE  Now = Gate("inputsOfFrozen")
  BY <1>2, <1>6, StepsOfDeriveThreshold DEF Now, Looks
<1>7. ASSUME run.command = "apply"
      PROVE  /\ run.at = 7 => Now = Gate("thresholdOfFrozen")
             /\ run.at = 9 => Now = Gate("inputsOfThreshold")
  <2>1. /\ Looks = 10
        /\ Before(run.command)[7] = Gate("thresholdOfFrozen")
        /\ Before(run.command)[9] = Gate("inputsOfThreshold")
    BY <1>7, StepsOfApplyThreshold DEF Looks
  <2>. QED
    BY <1>2, <2>1 DEF Now
<1>8. ASSUME run.command \in {"climate", "fire"}, run.at = 6
      PROVE  Now = Gate("sameAsLatest")
  BY <1>2, <1>8, StepsOfBuildContext DEF Now, Looks
<1>. QED
  BY <1>3, <1>4, <1>5, <1>6, <1>7, <1>8

LEMMA GateFields ==
    ASSUME NEW name, Now = Gate(name)
    PROVE  Now.do = "gate" /\ Kind = name
BY DEF Gate, Step, Kind

LEMMA GateIs ==
    /\ GateHolds("neverFrozen") = NeverFrozen
    /\ GateHolds("sameExtract") = SameExtract
    /\ GateHolds("sameAsLatest") = SameAsLatest
    /\ GateHolds("inputsOfFrozen") = InputsOfFrozen
    /\ GateHolds("thresholdOfFrozen") = ThresholdOfFrozen
    /\ GateHolds("inputsOfThreshold") = InputsOfThreshold
BY DEF GateHolds

(* What a gate found stays true: after another gate, ... *)
LEMMA GatesAfterGate ==
    ASSUME TypeOK, GatesHold, run # None, Advances, Remembers,
           GateHolds(Kind), table' = table
    PROVE  GatesHold'
<1>1. run.at \in Nat /\ run'.at = run.at + 1 /\ run'.command = run.command
  BY RunIs DEF Advances
<1>2. \A k \in Nat : run'.at > k => run.at > k \/ run.at = k
  BY <1>1
<1>3. /\ NeverFrozen' = NeverFrozen /\ SameExtract' = SameExtract
      /\ SameAsLatest' = SameAsLatest /\ InputsOfFrozen' = InputsOfFrozen
      /\ ThresholdOfFrozen' = ThresholdOfFrozen
      /\ InputsOfThreshold' = InputsOfThreshold
  BY DEF NeverFrozen, Built, SameExtract, SameAsLatest, InputsOfFrozen, ThresholdOfFrozen,
         InputsOfThreshold, InProtocols, Remembers
<1>4. ASSUME run.command = "freeze", run'.at > 2
      PROVE  NeverFrozen
  BY <1>2, <1>4, GateNow, GateFields, GateIs DEF GatesHold
<1>5. ASSUME run.command = "volume", run'.at > 5
      PROVE  SameExtract
  BY <1>2, <1>5, GateNow, GateFields, GateIs DEF GatesHold
<1>6. ASSUME run.command = "inputs", run'.at > 10
      PROVE  SameExtract
  BY <1>2, <1>6, GateNow, GateFields, GateIs DEF GatesHold
<1>7. ASSUME run.command = "inputs", run'.at > 12
      PROVE  SameAsLatest
  BY <1>2, <1>7, GateNow, GateFields, GateIs DEF GatesHold
<1>8. ASSUME run.command = "derive", run'.at > 8
      PROVE  InputsOfFrozen
  BY <1>2, <1>8, GateNow, GateFields, GateIs DEF GatesHold
<1>9. ASSUME run.command = "apply", run'.at > 7
      PROVE  ThresholdOfFrozen
  BY <1>2, <1>9, GateNow, GateFields, GateIs DEF GatesHold
<1>10. ASSUME run.command = "apply", run'.at > 9
       PROVE  InputsOfThreshold
  BY <1>2, <1>10, GateNow, GateFields, GateIs DEF GatesHold
<1>11. ASSUME run.command \in {"climate", "fire"}, run'.at > 6
       PROVE  SameAsLatest
  BY <1>2, <1>11, GateNow, GateFields, GateIs DEF GatesHold
<1>. QED
  BY <1>1, <1>3, <1>4, <1>5, <1>6, <1>7, <1>8, <1>9, <1>10, <1>11 DEF GatesHold

(* ... after a step that is not a gate, and reads nothing, ... *)
LEMMA GatesAfterWork ==
    ASSUME TypeOK, GatesHold, run # None, Advances, Remembers,
           Now.do # "gate", table'["d3-protocol"] = table["d3-protocol"]
    PROVE  GatesHold'
<1>1. run.at \in Nat /\ run'.at = run.at + 1 /\ run'.command = run.command
  BY RunIs DEF Advances
<1>2. \A k \in Nat : run'.at > k => run.at > k \/ run.at = k
  BY <1>1
<1>3. /\ NeverFrozen' = NeverFrozen /\ SameExtract' = SameExtract
      /\ SameAsLatest' = SameAsLatest /\ InputsOfFrozen' = InputsOfFrozen
      /\ ThresholdOfFrozen' = ThresholdOfFrozen
      /\ InputsOfThreshold' = InputsOfThreshold
  BY DEF NeverFrozen, Built, SameExtract, SameAsLatest, InputsOfFrozen, ThresholdOfFrozen,
         InputsOfThreshold, InProtocols, Remembers
<1>4. ASSUME run.command = "freeze", run'.at > 2
      PROVE  NeverFrozen
  BY <1>2, <1>4, GateNow, GateFields DEF GatesHold
<1>5. ASSUME run.command = "volume", run'.at > 5
      PROVE  SameExtract
  BY <1>2, <1>5, GateNow, GateFields DEF GatesHold
<1>6. ASSUME run.command = "inputs", run'.at > 10
      PROVE  SameExtract
  BY <1>2, <1>6, GateNow, GateFields DEF GatesHold
<1>7. ASSUME run.command = "inputs", run'.at > 12
      PROVE  SameAsLatest
  BY <1>2, <1>7, GateNow, GateFields DEF GatesHold
<1>8. ASSUME run.command = "derive", run'.at > 8
      PROVE  InputsOfFrozen
  BY <1>2, <1>8, GateNow, GateFields DEF GatesHold
<1>9. ASSUME run.command = "apply", run'.at > 7
      PROVE  ThresholdOfFrozen
  BY <1>2, <1>9, GateNow, GateFields DEF GatesHold
<1>10. ASSUME run.command = "apply", run'.at > 9
       PROVE  InputsOfThreshold
  BY <1>2, <1>10, GateNow, GateFields DEF GatesHold
<1>11. ASSUME run.command \in {"climate", "fire"}, run'.at > 6
       PROVE  SameAsLatest
  BY <1>2, <1>11, GateNow, GateFields DEF GatesHold
<1>. QED
  BY <1>1, <1>3, <1>4, <1>5, <1>6, <1>7, <1>8, <1>9, <1>10, <1>11 DEF GatesHold

(* ... and every table and source a gate compares is read before it.        *)
LEMMA ReadNow ==
    ASSUME TypeOK, NEW do \in Reads, At(do)
    PROVE  /\ run.command = "volume" => run.at <= 3
           /\ run.command = "inputs" => run.at <= 9
           /\ run.command = "derive" => run.at <= 7
           /\ run.command = "apply" => run.at <= 6 \/ (run.at = 8 /\ Kind = "d3-inputs")
           /\ run.command \in {"climate", "fire"} => run.at <= 4
<1>1. LookingNow /\ Now.do = do /\ do # "gate"
  BY WhereAt DEF At, Reads
<1>2. AtLook
  BY <1>1, GateFields DEF LookingNow
<1>3. ASSUME NEW name, Now = Gate(name)
      PROVE  FALSE
  BY <1>1, <1>3, GateFields
<1>4. ASSUME run.command = "volume"
      PROVE  run.at <= 3
  <2>1. Looks = 7
    BY <1>4, StepsOfDeriveVolume DEF Looks
  <2>2. run.at \in 1 .. 3 \/ run.at = 4 \/ run.at = 5 \/ run.at = 6 \/ run.at = 7
    BY <1>2, <2>1 DEF AtLook
  <2>3. run.at \notin {4, 5, 6, 7}
    BY <1>2, <1>3, <1>4, StepsOfDeriveVolume DEF AtLook
  <2>. QED
    BY <2>2, <2>3
<1>5. ASSUME run.command = "inputs"
      PROVE  run.at <= 9
  <2>1. Looks = 13
    BY <1>5, StepsOfBuildInputs DEF Looks
  <2>2. run.at \in 1 .. 9 \/ run.at = 10 \/ run.at = 11 \/ run.at = 12 \/ run.at = 13
    BY <1>2, <2>1 DEF AtLook
  <2>3. run.at \notin {10, 11, 12, 13}
    BY <1>2, <1>3, <1>5, StepsOfBuildInputs DEF AtLook
  <2>. QED
    BY <2>2, <2>3
<1>6. ASSUME run.command = "derive"
      PROVE  run.at <= 7
  <2>1. Looks = 8
    BY <1>6, StepsOfDeriveThreshold DEF Looks
  <2>2. run.at \in 1 .. 7 \/ run.at = 8
    BY <1>2, <2>1 DEF AtLook
  <2>3. run.at # 8
    BY <1>2, <1>3, <1>6, StepsOfDeriveThreshold DEF AtLook
  <2>. QED
    BY <2>2, <2>3
<1>7. ASSUME run.command = "apply"
      PROVE  run.at <= 6 \/ (run.at = 8 /\ Kind = "d3-inputs")
  <2>1. Looks = 10
    BY <1>7, StepsOfApplyThreshold DEF Looks
  <2>2. run.at \in 1 .. 6 \/ run.at = 7 \/ run.at = 8 \/ run.at = 9 \/ run.at = 10
    BY <1>2, <2>1 DEF AtLook
  <2>3. run.at \notin {7, 9, 10}
    BY <1>2, <1>3, <1>7, StepsOfApplyThreshold DEF AtLook
  <2>4. ASSUME run.at = 8
        PROVE  Kind = "d3-inputs"
    BY <1>2, <1>7, <2>4, StepsOfApplyThreshold, FieldsNow DEF AtLook, Read
  <2>5. run.at <= 6 \/ run.at = 8
    BY <2>2, <2>3
  <2>. QED
    BY <2>4, <2>5
<1>8. ASSUME run.command \in {"climate", "fire"}
      PROVE  run.at <= 4
  <2>1. Looks = 6
    BY <1>8, StepsOfBuildContext DEF Looks
  <2>2. run.at \in 1 .. 4 \/ run.at = 5 \/ run.at = 6
    BY <1>2, <2>1 DEF AtLook
  <2>3. run.at \notin {5, 6}
    BY <1>2, <1>3, <1>8, StepsOfBuildContext DEF AtLook
  <2>. QED
    BY <2>2, <2>3
<1>. QED
  BY <1>4, <1>5, <1>6, <1>7, <1>8

LEMMA GatesAfterRead ==
    ASSUME TypeOK, GatesHold, run # None, Advances, table' = table,
           NEW do \in Reads, At(do), NEW content,
           run'.in = [run.in EXCEPT ![Kind] = content]
    PROVE  GatesHold'
<1>1. run.at \in Nat /\ run'.at = run.at + 1 /\ run'.command = run.command
  BY RunIs DEF Advances
<1>2. NeverFrozen' = NeverFrozen
  BY DEF NeverFrozen, Built
<1>3. ASSUME run.command = "freeze", run'.at > 2
      PROVE  NeverFrozen
  <2>1. run.at # 2
    BY <1>3, GateNow, GateFields DEF At, Reads
  <2>. QED
    BY <1>1, <1>3, <2>1 DEF GatesHold
<1>4. /\ run.command = "volume" => ~(run'.at > 5)
      /\ run.command = "inputs" => ~(run'.at > 10) /\ ~(run'.at > 12)
      /\ run.command = "derive" => ~(run'.at > 8)
      /\ run.command = "apply" => ~(run'.at > 9)
      /\ run.command \in {"climate", "fire"} => ~(run'.at > 6)
  BY <1>1, ReadNow
<1>5. ASSUME run.command = "apply", run'.at > 7
      PROVE  ThresholdOfFrozen'
  <2>1. Kind = "d3-inputs" /\ run.at > 7
    BY <1>1, <1>5, ReadNow
  <2>2. ThresholdOfFrozen
    BY <1>5, <2>1 DEF GatesHold
  <2>3. run.in \in [Kinds -> Content \cup {None}]
    BY RunIs DEF Run
  <2>4. /\ run'.in["d3-threshold"] = run.in["d3-threshold"]
        /\ run'.in["d3-protocol"] = run.in["d3-protocol"]
    BY <2>1, <2>3 DEF Kinds, StagedKinds
  <2>. QED
    BY <2>2, <2>4 DEF ThresholdOfFrozen, InProtocols
<1>. QED
  BY <1>1, <1>2, <1>3, <1>4, <1>5 DEF GatesHold

LEMMA GatesAfterSource ==
    ASSUME TypeOK, GatesHold, run # None, Advances, table' = table,
           At("gate"), Kind \in {"extract", "config"}, run'.in = run.in
    PROVE  GatesHold'
<1>1. run.at \in Nat /\ run'.at = run.at + 1 /\ run'.command = run.command
  BY RunIs DEF Advances
<1>2. \A k \in Nat : run'.at > k => run.at > k \/ run.at = k
  BY <1>1
<1>3. /\ NeverFrozen' = NeverFrozen /\ SameExtract' = SameExtract
      /\ InputsOfFrozen' = InputsOfFrozen /\ ThresholdOfFrozen' = ThresholdOfFrozen
      /\ InputsOfThreshold' = InputsOfThreshold
  BY DEF NeverFrozen, Built, SameExtract, InputsOfFrozen, ThresholdOfFrozen,
         InputsOfThreshold, InProtocols
<1>4. AtLook
  BY WhereAt, GateFields DEF LookingNow
<1>5. ASSUME run.command = "freeze", run'.at > 2
      PROVE  NeverFrozen
  BY <1>2, <1>5, GateNow, GateFields DEF GatesHold
<1>6. ASSUME run.command = "volume", run'.at > 5
      PROVE  SameExtract
  BY <1>2, <1>6, GateNow, GateFields DEF GatesHold
<1>7. ASSUME run.command = "inputs", run'.at > 10
      PROVE  SameExtract
  BY <1>2, <1>7, GateNow, GateFields DEF GatesHold
<1>8. ASSUME run.command = "inputs"
      PROVE  ~(run'.at > 12)
  <2>1. run.at # 12
    BY <1>8, GateNow, GateFields
  <2>2. run.at # 13
    BY <1>4, <1>8, StepsOfBuildInputs, GateFields DEF AtLook
  <2>3. run.at \in 1 .. 13
    BY <1>4, <1>8, StepsOfBuildInputs DEF AtLook, Looks
  <2>. QED
    BY <1>1, <2>1, <2>2, <2>3
<1>9. ASSUME run.command = "derive", run'.at > 8
      PROVE  InputsOfFrozen
  BY <1>2, <1>9, GateNow, GateFields DEF GatesHold
<1>10. ASSUME run.command = "apply", run'.at > 7
       PROVE  ThresholdOfFrozen
  BY <1>2, <1>10, GateNow, GateFields DEF GatesHold
<1>11. ASSUME run.command = "apply", run'.at > 9
       PROVE  InputsOfThreshold
  BY <1>2, <1>11, GateNow, GateFields DEF GatesHold
<1>12. ASSUME run.command \in {"climate", "fire"}
       PROVE  ~(run'.at > 6)
  <2>1. run.at # 6
    BY <1>12, GateNow, GateFields
  <2>2. run.at \in 1 .. 6
    BY <1>4, <1>12, StepsOfBuildContext DEF AtLook, Looks
  <2>. QED
    BY <1>1, <2>1, <2>2
<1>. QED
  BY <1>1, <1>3, <1>5, <1>6, <1>7, <1>8, <1>9, <1>10, <1>11, <1>12 DEF GatesHold

(* Dates and extracts are ordered. *)
LEMMA HasLatest ==
    ASSUME NEW S \in SUBSET Dates, S # {}
    PROVE  \E d \in S : \A e \in S : e <= d
<1> DEFINE After(d) == {e \in S : e > d}
           T == {After(d) : d \in S}
<1>1. IsFiniteSet(S) /\ S \subseteq Nat
  BY FS_Subset, LineageAssumption
<1>2. IsWellFoundedOn(StrictSubsetOrdering(S), SUBSET S)
  BY <1>1, FS_StrictSubsetOrderingWellFounded, FS_FiniteSubsetsOfFinite
<1>3. T \subseteq SUBSET S /\ T # {}
  OBVIOUS
<1>4. PICK U \in T : \A V \in T : <<V, U>> \notin StrictSubsetOrdering(S)
  <2> HIDE DEF T
  <2>. QED
    BY <1>2, <1>3, WFMin
<1>5. PICK d \in S : U = After(d)
  BY <1>4
<1>6. ASSUME NEW e \in S, ~(e <= d)
      PROVE  FALSE
  <2>1. e > d
    BY <1>1, <1>6
  <2>2. d \in Nat /\ e \in Nat /\ \A x \in S : x \in Nat
    BY <1>1
  <2>3. After(e) \subseteq After(d)
    <3>1. \A x \in S : x > e => x > d
      BY <2>1, <2>2
    <3>. QED
      BY <3>1, Zenon
  <2>4. e \in After(d) /\ e \notin After(e)
    BY <2>1, <2>2
  <2>5. <<After(e), U>> \in StrictSubsetOrdering(S)
    BY <1>3, <1>5, <2>3, <2>4 DEF StrictSubsetOrdering
  <2>. QED
    BY <1>4, <2>5
<1>. QED
  BY <1>6

LEMMA HasFirst == FirstExtract \in Extracts
<1> DEFINE Older(g) == {h \in Extracts : h < g}
<1>1. PICK g0 \in Extracts : TRUE
  BY LineageAssumption
<1>2. Extracts \subseteq Nat
  BY LineageAssumption
<1> DEFINE S == {h \in Extracts : h <= g0}
           T == {Older(g) : g \in S}
<1>3. IsFiniteSet(S)
  BY <1>1, <1>2, FS_BoundedSetOfNaturals
<1>4. IsWellFoundedOn(StrictSubsetOrdering(S), SUBSET S)
  BY <1>3, FS_StrictSubsetOrderingWellFounded, FS_FiniteSubsetsOfFinite
<1>5. T \subseteq SUBSET S /\ T # {}
  <2>1. g0 \in S
    BY <1>2
  <2>2. ASSUME NEW g \in S
        PROVE  Older(g) \subseteq S
    <3>1. g \in Nat /\ g <= g0 /\ g0 \in Nat /\ \A h \in Extracts : h \in Nat
      BY <1>2
    <3>2. \A h \in Extracts : h < g => h <= g0
      BY <3>1
    <3>. QED
      BY <3>2, Zenon
  <2>. QED
    BY <2>1, <2>2
<1>6. PICK U \in T : \A V \in T : <<V, U>> \notin StrictSubsetOrdering(S)
  <2> HIDE DEF T, S
  <2>. QED
    BY <1>4, <1>5, WFMin
<1>7. PICK g \in S : U = Older(g)
  BY <1>6
<1>8. ASSUME NEW h \in Extracts, ~(g <= h)
      PROVE  FALSE
  <2>1. h < g /\ h \in S
    BY <1>2, <1>7, <1>8
  <2>2. g \in Nat /\ h \in Nat /\ \A x \in Extracts : x \in Nat
    BY <1>2
  <2>3. Older(h) \subseteq Older(g)
    <3>1. \A x \in Extracts : x < h => x < g
      BY <2>1, <2>2
    <3>. QED
      BY <3>1, Zenon
  <2>4. h \in Older(g) /\ h \notin Older(h)
    BY <2>1, <2>2
  <2>5. <<Older(h), U>> \in StrictSubsetOrdering(S)
    BY <1>5, <1>7, <2>1, <2>3, <2>4 DEF StrictSubsetOrdering
  <2>. QED
    BY <1>6, <2>1, <2>5
<1>9. g \in Extracts /\ \A h \in Extracts : g <= h
  BY <1>8
<1>. QED
  BY <1>9 DEF FirstExtract

LEMMA LatestBuilt ==
    ASSUME NEW kind, Built(kind) # {}
    PROVE  Latest(kind) \in Built(kind)
<1>1. Built(kind) \in SUBSET Dates
  BY DEF Built
<1>2. \E d \in Built(kind) : \A e \in Built(kind) : e <= d
  BY <1>1, HasLatest
<1>. QED
  BY <1>2 DEF Latest

-----------------------------------------------------------------------------
(* The inductive invariant: when it starts, ... *)

LEMMA WholeIs ==
    ASSUME NEW kind \in Kinds, NEW content \in Content
    PROVE  /\ IsDirectory(kind, Whole(kind, content))
           /\ DOMAIN Whole(kind, content).written = Names(kind)
           /\ DOMAIN Whole(kind, content).sealed = Names(kind)
           /\ \A f \in Names(kind) : /\ Whole(kind, content).written[f] = content
                                     /\ Whole(kind, content).sealed[f] = content
BY DEF Whole, Names, IsDirectory

LEMMA InitIInv == Init => IInv
<1> SUFFICES ASSUME Init
             PROVE  IInv
  OBVIOUS
<1> DEFINE first(kind) ==
             CASE kind = "register" -> [Plain EXCEPT !.level = 1]
               [] kind \in {"crosswalk", "footprints"} ->
                     [Plain EXCEPT !.extracts = {extract}]
               [] kind = "d3-protocol" -> [Plain EXCEPT !.protocols = {config}]
               [] kind = "d3-inputs" ->
                     [Plain EXCEPT !.extracts = {extract}, !.protocols = {config}]
               [] kind = "d3-threshold" -> [Plain EXCEPT !.protocols = {config}]
           chain == {"register", "crosswalk", "footprints"} \cup StagedKinds
<1>1. PICK built \in BOOLEAN :
         table = [kind \in Kinds |-> [d \in Dates |->
                    IF built /\ d = FirstDate /\ kind \in chain
                      THEN Whole(kind, first(kind)) ELSE None]]
  BY DEF Init
<1>2. extract \in Extracts /\ config \in Protocols
  BY HasFirst DEF Init
<1>3. run = None /\ stage = [kind \in Kinds |-> [d \in Dates |-> None]]
  BY DEF Init
<1>4. chain \subseteq Kinds
  BY DEF Kinds, StagedKinds
<1>5. ASSUME NEW kind \in chain
      PROVE  first(kind) \in Content /\ Sound(kind, first(kind))
  <2>1. CASE kind = "register"
    BY <2>1 DEF Plain, Content, Sound, StagedKinds
  <2>2. CASE kind \in {"crosswalk", "footprints"}
    BY <1>2, <2>2 DEF Plain, Content, Sound, Single, StagedKinds
  <2>3. CASE kind = "d3-protocol"
    BY <1>2, <2>3 DEF Plain, Content, Sound, Single, StagedKinds
  <2>4. CASE kind = "d3-inputs"
    <3>1. first(kind) = [level |-> 0, extracts |-> {extract}, protocols |-> {config}]
      BY <2>4 DEF Plain
    <3>2. Single({extract}) /\ Single({config})
      BY DEF Single
    <3> HIDE DEF first
    <3>3. first(kind) \in Content
      BY <1>2, <3>1 DEF Content
    <3>4. first(kind).extracts = {extract} /\ first(kind).protocols = {config}
      BY <3>1
    <3>. QED
      BY <2>4, <3>2, <3>3, <3>4 DEF Sound
  <2>5. CASE kind = "d3-threshold"
    BY <1>2, <2>5 DEF Plain, Content, Sound, Single, StagedKinds
  <2>. QED
    BY <2>1, <2>2, <2>3, <2>4, <2>5 DEF StagedKinds
<1> HIDE DEF first, chain
<1>6. ASSUME NEW kind \in Kinds, NEW d \in Dates
      PROVE  /\ stage[kind][d] = None
             /\ \/ table[kind][d] = None
                \/ /\ d = FirstDate /\ kind \in chain
                   /\ table[kind][d] = Whole(kind, first(kind))
  BY <1>1, <1>3
<1>7. TypeOK
  <2>1. count \in [runs : Nat, crashes : Nat, changes : Nat, asides : Nat]
    BY DEF Init
  <2>2. /\ DOMAIN table = Kinds /\ DOMAIN stage = Kinds
        /\ \A kind \in Kinds : DOMAIN table[kind] = Dates /\ DOMAIN stage[kind] = Dates
    BY <1>1, <1>3
  <2>3. \A kind \in Kinds, d \in Dates : DirectoryOK(kind, table[kind][d])
    BY <1>5, <1>6, WholeIs DEF DirectoryOK
  <2>4. StagedKinds \subseteq Kinds
    BY DEF Kinds
  <2>. QED
    BY <1>2, <1>3, <1>6, <2>1, <2>2, <2>3, <2>4 DEF TypeOK, DirectoryOK
<1>8. AllSound
  BY <1>4, <1>5, <1>6, WholeIs DEF AllSound, SoundDirectory
<1>9. \A kind \in Kinds : \A d \in Built(kind) :
         Verified(kind, d) /\ d = FirstDate
            /\ \A f, g \in DOMAIN table[kind][d].written :
                  table[kind][d].written[f] = table[kind][d].written[g]
  BY <1>4, <1>5, <1>6, WholeIs DEF Built, Verified, Sealed, Names
<1>10. PublishedIsWhole /\ OneDirectory
  BY <1>9 DEF PublishedIsWhole, OneDirectory, Kinds, StagedKinds
<1>11. NoTableLeft
  BY <1>9 DEF NoTableLeft, Clean
<1>. QED
  BY <1>3, <1>7, <1>8, <1>10, <1>11
     DEF IInv, KnowsWhatItRead, GatesHold, KnowsTheFrozen, WrittenSoFar, StagedSoFar

(* ... when something happens that no command sees now, ... *)
LEMMA OutsideIInv ==
    ASSUME IInv, UNCHANGED <<table, stage, run>>,
           extract' \in Extracts, config' \in Protocols,
           count' \in [runs : Nat, crashes : Nat, changes : Nat, asides : Nat],
           count'.crashes = count.crashes
    PROVE  IInv'
<1>1. TypeOK'
  BY DEF IInv, TypeOK
<1>2. AllSound'
  BY DEF IInv, AllSound
<1>3. KnowsWhatItRead' /\ GatesHold' /\ KnowsTheFrozen'
  BY DEF IInv, KnowsWhatItRead, GatesHold, KnowsTheFrozen, Did, NeverFrozen, Built,
         SameExtract, SameAsLatest, InputsOfFrozen, ThresholdOfFrozen, InputsOfThreshold,
         InProtocols
<1>4. Output' = Output
  BY DEF Output
<1>5. WrittenSoFar' /\ StagedSoFar'
  BY <1>4 DEF IInv, WrittenSoFar, StagedSoFar, OwnKind, OwnFiles, Own, OwnStage, Looks,
              Cleared, Did
<1>6. PublishedIsWhole' /\ OneDirectory'
  BY DEF IInv, PublishedIsWhole, OneDirectory, Built, Verified
<1>7. NoTableLeft'
  BY DEF IInv, NoTableLeft, Clean, Built, Verified, OwnKind, Looks
<1>. QED
  BY <1>1, <1>2, <1>3, <1>5, <1>6, <1>7 DEF IInv

(* ... when a command ends and leaves the tables as they are, ... *)
LEMMA EndedIInv ==
    ASSUME IInv, run' = None, UNCHANGED <<extract, config, table, stage, count>>,
           run # None => OwnKind \in StagedKinds \/ run.at <= Looks + 1
    PROVE  IInv'
<1>1. TypeOK'
  BY DEF IInv, TypeOK
<1>2. AllSound'
  BY DEF IInv, AllSound
<1>3. /\ KnowsWhatItRead' /\ GatesHold' /\ KnowsTheFrozen'
      /\ WrittenSoFar' /\ StagedSoFar'
  BY DEF KnowsWhatItRead, GatesHold, KnowsTheFrozen, WrittenSoFar, StagedSoFar
<1>4. PublishedIsWhole' /\ OneDirectory'
  BY DEF IInv, PublishedIsWhole, OneDirectory, Built, Verified
<1>5. ASSUME count.crashes = 0, NEW kind \in Kinds, NEW d \in Built(kind)
      PROVE  Clean(kind, d)
  <2>1. CASE run # None /\ kind = OwnKind /\ d = run.date /\ run.at > Looks + 1
    <3>1. run.at \in Nat /\ Looks \in Nat
      BY <2>1, RunIs DEF IInv
    <3>2. kind \in StagedKinds
      BY <2>1, <3>1
    <3>. QED
      BY <3>2 DEF IInv, PublishedIsWhole, Clean
  <2>. QED
    BY <1>5, <2>1 DEF IInv, NoTableLeft, Clean
<1>6. NoTableLeft'
  BY <1>5 DEF NoTableLeft, Clean, Built, Verified
<1>. QED
  BY <1>1, <1>2, <1>3, <1>4, <1>6 DEF IInv

LEMMA BeginIInv ==
    ASSUME IInv, NEW command \in DOMAIN Command, NEW d \in Dates, Begin(command, d)
    PROVE  IInv'
<1>1. /\ run = None
      /\ run' = [command |-> command, date |-> d, at |-> 1,
                 in |-> [kind \in Kinds |-> None], extract |-> None, config |-> None]
      /\ count' = [count EXCEPT !.runs = @ + 1]
      /\ UNCHANGED <<extract, config, table, stage>>
  BY DEF Begin
<1>2. /\ run' \in Run /\ run' # None /\ run'.at = 1
      /\ run'.command = command /\ run'.date = d
  <2>1. run' \in Run
    BY <1>1 DEF Run
  <2>. QED
    BY <1>1, <2>1, NoneAssumption
<1>3. /\ KindOf(command) \in Kinds /\ Len(Before(command)) \in Nat \ {0}
      /\ 1 \in DOMAIN Plan[command]
      /\ DOMAIN Files(KindOf(command)) \subseteq Nat \ {0}
      /\ Len(Files(KindOf(command))) \in Nat
  <2>1. PICK kind, b, n : /\ kind = KindOf(command) /\ b = Len(Before(command))
                          /\ n = Len(Files(kind))
    OBVIOUS
  <2>2. /\ kind \in Kinds /\ b \in Nat \ {0} /\ n \in 1 .. 2
        /\ kind \notin StagedKinds => InPlacePlan(command, kind, b, n)
        /\ kind \in StagedKinds => StagedPlan(command, kind, b, n)
    BY <2>1, PlanOf, Zenon
  <2>3. 1 \in 1 .. b + (n + n) /\ 1 \in 1 .. b + (2 * n + 2)
    BY <2>2
  <2>4. DOMAIN Files(kind) = 1 .. n
    BY <2>1, <2>2, LengthOf
  <2>5. DOMAIN Files(kind) \subseteq Nat \ {0}
    BY <2>2, <2>4
  <2>6. 1 \in DOMAIN Plan[command]
    <3>1. CASE kind \in StagedKinds
      BY <2>2, <2>3, <3>1 DEF StagedPlan
    <3>2. CASE kind \notin StagedKinds
      BY <2>2, <2>3, <3>2 DEF InPlacePlan
    <3>. QED
      BY <3>1, <3>2
  <2>7. n \in Nat
    BY <2>2
  <2>. QED
    BY <2>1, <2>2, <2>5, <2>6, <2>7
<1>4. count' \in [runs : Nat, crashes : Nat, changes : Nat, asides : Nat]
  BY <1>1 DEF IInv, TypeOK
<1>5. TypeOK'
  BY <1>1, <1>2, <1>3, <1>4 DEF IInv, TypeOK
<1>6. \A step : ~Did(step)'
  BY <1>2 DEF Did
<1>7. AllSound'
  BY <1>1 DEF IInv, AllSound
<1>8. KnowsWhatItRead' /\ KnowsTheFrozen'
  BY <1>6 DEF KnowsWhatItRead, KnowsTheFrozen
<1>9. GatesHold'
  BY <1>2 DEF GatesHold
<1>10. WrittenSoFar' /\ StagedSoFar'
  <2>1. PICK b, n : b = Len(Before(command)) /\ n = Len(Files(KindOf(command)))
    OBVIOUS
  <2>2. /\ \A i \in Nat \ {0} : ~(1 > b + i) /\ ~(1 > b + n + i)
        /\ \A i \in Nat \ {0} : ~(1 >= b + 2 * i) /\ ~(1 > b + 2 * i)
    BY <1>3, <2>1
  <2>3. \A i \in DOMAIN Files(KindOf(command)) :
           /\ ~(1 > b + i) /\ ~(1 > b + n + i)
           /\ ~(1 >= b + 2 * i) /\ ~(1 > b + 2 * i)
    BY <1>3, <2>2
  <2>4. Looks' = b /\ Len(OwnFiles)' = n /\ OwnFiles' = Files(KindOf(command))
    BY <1>2, <2>1 DEF Looks, OwnFiles, OwnKind
  <2>. QED
    BY <1>2, <1>6, <2>3, <2>4 DEF WrittenSoFar, StagedSoFar, Cleared
<1>11. PublishedIsWhole' /\ OneDirectory'
  BY <1>1 DEF IInv, PublishedIsWhole, OneDirectory, Built, Verified
<1>12. NoTableLeft'
  <2>1. count'.crashes = count.crashes
    BY <1>1 DEF IInv, TypeOK
  <2>. QED
    BY <1>1, <2>1 DEF IInv, NoTableLeft, Clean, Built, Verified
<1>. QED
  BY <1>5, <1>7, <1>8, <1>9, <1>10, <1>11, <1>12 DEF IInv

LEMMA CrashIInv ==
    ASSUME IInv, Crash
    PROVE  IInv'
<1>1. /\ run' = None /\ UNCHANGED <<extract, config, table, stage>>
      /\ count' = [count EXCEPT !.crashes = @ + 1]
  BY DEF Crash
<1>2. /\ count' \in [runs : Nat, crashes : Nat, changes : Nat, asides : Nat]
      /\ count'.crashes # 0
  BY <1>1 DEF IInv, TypeOK
<1>3. TypeOK'
  BY <1>1, <1>2 DEF IInv, TypeOK
<1>4. AllSound'
  BY <1>1 DEF IInv, AllSound
<1>5. /\ KnowsWhatItRead' /\ GatesHold' /\ KnowsTheFrozen'
      /\ WrittenSoFar' /\ StagedSoFar'
  BY <1>1 DEF KnowsWhatItRead, GatesHold, KnowsTheFrozen, WrittenSoFar, StagedSoFar
<1>6. PublishedIsWhole' /\ OneDirectory'
  BY <1>1 DEF IInv, PublishedIsWhole, OneDirectory, Built, Verified
<1>7. NoTableLeft'
  BY <1>2 DEF NoTableLeft, Clean
<1>. QED
  BY <1>3, <1>4, <1>5, <1>6, <1>7 DEF IInv

LEMMA MoveAsideIInv ==
    ASSUME IInv, NEW kind \in Kinds, NEW d \in Dates, MoveAside(kind, d)
    PROVE  IInv'
<1>1. /\ run = None /\ run' = None /\ UNCHANGED <<extract, config, stage>>
      /\ table' = [table EXCEPT ![kind][d] = None]
      /\ count' = [count EXCEPT !.asides = @ + 1]
  BY DEF MoveAside
<1>2. /\ count' \in [runs : Nat, crashes : Nat, changes : Nat, asides : Nat]
      /\ count'.crashes = count.crashes
  BY <1>1 DEF IInv, TypeOK
<1>3. /\ DOMAIN table' = Kinds
      /\ \A k \in Kinds : DOMAIN table'[k] = Dates
      /\ \A k \in Kinds, e \in Dates : table'[k][e] \in {None, table[k][e]}
  BY <1>1 DEF IInv, TypeOK
<1>4. TypeOK'
  BY <1>1, <1>2, <1>3 DEF IInv, TypeOK, DirectoryOK
<1>5. AllSound'
  BY <1>1, <1>3 DEF IInv, AllSound, SoundDirectory
<1>6. /\ KnowsWhatItRead' /\ GatesHold' /\ KnowsTheFrozen'
      /\ WrittenSoFar' /\ StagedSoFar'
  BY <1>1 DEF KnowsWhatItRead, GatesHold, KnowsTheFrozen, WrittenSoFar, StagedSoFar
<1>7. \A k \in Kinds : \A e \in Built(k)' :
         e \in Built(k) /\ table'[k][e] = table[k][e] /\ (Verified(k, e) => Verified(k, e)')
  BY <1>3 DEF Built, Verified
<1>8. StagedKinds \subseteq Kinds
  BY DEF Kinds
<1>9. PublishedIsWhole'
  BY <1>7, <1>8 DEF IInv, PublishedIsWhole
<1>10. OneDirectory'
  BY <1>7, <1>8 DEF IInv, OneDirectory, StagedKinds
<1>11. NoTableLeft'
  BY <1>1, <1>2, <1>7 DEF IInv, NoTableLeft, Clean
<1>. QED
  BY <1>4, <1>5, <1>6, <1>9, <1>10, <1>11 DEF IInv

(* ... and at each step of a command.  Looking changes no table. *)
LEMMA OutputSame ==
    ASSUME Advances, Remembers
    PROVE  Output' = Output
BY DEF Advances, Remembers, Output

LEMMA OwnSame ==
    ASSUME Advances
    PROVE  /\ OwnKind' = OwnKind /\ OwnFiles' = OwnFiles /\ Looks' = Looks
           /\ run'.date = run.date
BY DEF Advances, OwnKind, OwnFiles, Looks

LEMMA OwnIs ==
    ASSUME TypeOK, run # None
    PROVE  DirectoryOK(OwnKind, Own) /\ DirectoryOK(OwnKind, OwnStage)
BY RunIs DEF TypeOK, Own, OwnStage

LEMMA AbsentMeans ==
    ASSUME TypeOK, run # None, PublishedIsWhole, Absent
    PROVE  /\ Own = None \/ (DOMAIN Own.written = {} /\ DOMAIN Own.sealed = {})
           /\ OwnKind \in StagedKinds => Own = None
<1>1. Own = None \/ DOMAIN Own.written = {}
  BY DEF Absent, Own, OwnKind, KindOf
<1>2. Own # None => DOMAIN Own.sealed \subseteq DOMAIN Own.written
  BY OwnIs DEF DirectoryOK, IsDirectory
<1>3. ASSUME OwnKind \in StagedKinds, Own # None
      PROVE  FALSE
  <2>1. run.date \in Built(OwnKind)
    BY <1>3, RunIs DEF Built, Own
  <2>2. Verified(OwnKind, run.date)
    BY <1>3, <2>1 DEF PublishedIsWhole
  <2>3. 1 \in DOMAIN Files(OwnKind)
    BY RunIs DEF OwnFiles
  <2>4. Files(OwnKind)[1] \in DOMAIN Own.written
    BY <2>2, <2>3 DEF Verified, Sealed, Own
  <2>. QED
    BY <1>1, <1>3, <2>4
<1>. QED
  BY <1>1, <1>2, <1>3

LEMMA LookedOn ==
    ASSUME IInv, run # None, LookingNow, Advances,
           UNCHANGED <<extract, config, table, stage, count>>,
           Now \in {Gate("absent"), Gate("noVersion")} => Absent,
           Remembers \/ AtLook
    PROVE  /\ TypeOK' /\ AllSound' /\ WrittenSoFar' /\ StagedSoFar'
           /\ PublishedIsWhole' /\ OneDirectory' /\ NoTableLeft'
<1>1. TypeOK /\ PublishedIsWhole
  BY DEF IInv
<1>2. PICK b, n, at : b = Looks /\ n = Len(OwnFiles) /\ at = run.at
  OBVIOUS
<1>3. b \in Nat \ {0} /\ n \in 1 .. 2 /\ at \in Nat \ {0} /\ DOMAIN OwnFiles = 1 .. n
  BY <1>1, <1>2, RunIs
<1>4. /\ run'.at = at + 1
      /\ Looks' = b /\ OwnFiles' = OwnFiles /\ OwnKind' = OwnKind /\ run'.date = run.date
      /\ Own' = Own /\ OwnStage' = OwnStage /\ run' # None
  BY <1>2, OwnSame DEF Advances, Own, OwnStage
<1>5. TypeOK'
  BY <1>1 DEF TypeOK, Advances
<1>6. AllSound'
  BY DEF IInv, AllSound
<1>7. PublishedIsWhole' /\ OneDirectory'
  BY DEF IInv, PublishedIsWhole, OneDirectory, Built, Verified
<1>8. at <= b \/ (OwnKind \in StagedKinds /\ at = b + (2 * n + 1) /\ Remembers)
  BY <1>2, <1>3 DEF LookingNow, AtLook
<1>9. Cleared' => Cleared \/ Absent
  BY <1>1, DidNow DEF Cleared
<1>10. WrittenSoFar'
  <2> SUFFICES ASSUME OwnKind \notin StagedKinds
               PROVE  WrittenSoFar'
    BY <1>4 DEF WrittenSoFar
  <2>1. at <= b
    BY <1>8
  <2>2. \A i \in 1 .. n : /\ ~(at + 1 > b + i) /\ ~(at + 1 > b + n + i)
                          /\ at <= b + i /\ at <= b + n + i
    BY <1>3, <2>1
  <2>3. ASSUME NEW i \in 1 .. n, Cleared'
        PROVE  /\ Own = None \/ OwnFiles[i] \notin DOMAIN Own.written
               /\ Own = None \/ OwnFiles[i] \notin DOMAIN Own.sealed
    <3>1. CASE Cleared
      BY <1>2, <1>3, <2>2, <3>1 DEF IInv, WrittenSoFar
    <3>2. CASE Absent
      BY <1>1, <3>2, AbsentMeans
    <3>. QED
      BY <1>9, <2>3, <3>1, <3>2
  <2>. QED
    BY <1>2, <1>3, <1>4, <2>2, <2>3 DEF WrittenSoFar
<1>11. StagedSoFar'
  <2> SUFFICES ASSUME OwnKind \in StagedKinds
               PROVE  StagedSoFar'
    BY <1>4 DEF StagedSoFar
  <2>1. Cleared' => Own = None
    BY <1>1, <1>9, AbsentMeans DEF IInv, StagedSoFar
  <2>2. CASE at <= b
    <3>1. \A i \in 1 .. n : ~(at + 1 >= b + 2 * i) /\ ~(at + 1 > b + 2 * i)
      BY <1>3, <2>2
    <3>. QED
      BY <1>3, <1>4, <2>1, <3>1 DEF StagedSoFar
  <2>3. CASE at = b + (2 * n + 1) /\ Remembers
    <3>1. \A i \in 1 .. n : at >= b + 2 * i /\ at > b + 2 * i
      BY <1>3, <2>3
    <3>2. Output' = Output
      BY <2>3, OutputSame
    <3>3. \A i \in 1 .. n :
             /\ OwnStage # None
             /\ OwnFiles[i] \in DOMAIN OwnStage.written
             /\ OwnStage.written[OwnFiles[i]] = Output
             /\ OwnFiles[i] \in DOMAIN OwnStage.sealed
             /\ OwnStage.sealed[OwnFiles[i]] = Output
      BY <1>2, <1>3, <3>1 DEF IInv, StagedSoFar
    <3>. QED
      BY <1>3, <1>4, <2>1, <3>2, <3>3 DEF StagedSoFar
  <2>. QED
    BY <1>8, <2>2, <2>3
<1>12. NoTableLeft'
  <2>1. ASSUME count.crashes = 0, NEW kind \in Kinds, NEW d \in Built(kind)
        PROVE  \/ Clean(kind, d)
               \/ kind = OwnKind /\ d = run.date /\ at > b + 1
    BY <1>2, <2>1 DEF IInv, NoTableLeft, Clean
  <2>2. at > b + 1 => at + 1 > b + 1
    BY <1>3
  <2>. QED
    BY <1>4, <2>1, <2>2 DEF NoTableLeft, Clean, Built, Verified
<1>. QED
  BY <1>5, <1>6, <1>7, <1>10, <1>11, <1>12

(* The file of a table is read, of its latest directory or of --date. *)
LEMMA ReadingIInv ==
    ASSUME IInv, NEW do \in Reads, At(do), NEW d \in Dates, table[Kind][d] # None,
           File \in DOMAIN table[Kind][d].written,
           Took(Kind, table[Kind][d].written[File]),
           UNCHANGED <<extract, config, table, stage, count>>
    PROVE  IInv'
<1>1. TypeOK /\ run # None /\ LookingNow /\ Now.do = do /\ Now.do # "gate"
  BY WhereAt DEF IInv, At, Reads
<1>2. /\ Now # Gate("absent") /\ Now # Gate("noVersion")
      /\ Now # Gate("extract") /\ Now # Gate("config")
  BY <1>1, GateFields
<1>3. AtLook /\ Kind \in Kinds
  BY <1>1, <1>2 DEF LookingNow, AtLook, IsLook, Kind
<1>4. PICK content : content = table[Kind][d].written[File]
  OBVIOUS
<1>5. content \in Content /\ Sound(Kind, content) /\ File \in Names(Kind)
  <2>1. IsDirectory(Kind, table[Kind][d])
    BY <1>1, <1>3 DEF TypeOK, DirectoryOK
  <2>2. Sound(Kind, content)
    BY <1>3, <1>4 DEF IInv, AllSound, SoundDirectory
  <2>. QED
    BY <1>4, <2>1, <2>2 DEF IsDirectory
<1>6. /\ Advances
      /\ run'.in = [run.in EXCEPT ![Kind] = content]
      /\ run'.extract = run.extract /\ run'.config = run.config
  BY <1>1, <1>3, <1>4, <1>5, TookOn DEF LookingNow
<1>7. /\ TypeOK' /\ AllSound' /\ WrittenSoFar' /\ StagedSoFar'
      /\ PublishedIsWhole' /\ OneDirectory' /\ NoTableLeft'
  BY <1>1, <1>2, <1>3, <1>6, LookedOn
<1>8. GatesHold'
  BY <1>1, <1>6, GatesAfterRead DEF IInv
<1>9. run.in \in [Kinds -> Content \cup {None}]
  BY <1>1, RunIs DEF Run
<1>10. /\ run'.in[Kind] = content
       /\ \A kind \in Kinds \ {Kind} : run'.in[kind] = run.in[kind]
  BY <1>3, <1>6, <1>9
<1>11. \A step : Did(step)' <=> Did(step) \/ step = Now
  BY <1>1, <1>6, DidNow
<1>12. KnowsWhatItRead'
  <2>1. ASSUME NEW r \in Reads, NEW kind \in Kinds, NEW f \in Names(kind),
               Did(Step(r, kind, f))'
        PROVE  run'.in[kind] \in Content /\ Sound(kind, run'.in[kind])
    <3>1. CASE kind = Kind
      BY <1>5, <1>10, <3>1
    <3>2. CASE kind # Kind
      <4>1. Step(r, kind, f) # Now
        BY <3>2, StepFields DEF Kind
      <4>2. Did(Step(r, kind, f))
        BY <1>11, <2>1, <4>1
      <4>3. run.in[kind] \in Content /\ Sound(kind, run.in[kind])
        BY <1>1, <4>2 DEF IInv, KnowsWhatItRead
      <4>. QED
        BY <1>10, <3>2, <4>3
    <3>. QED
      BY <3>1, <3>2
  <2>2. /\ Did(Gate("extract"))' => run'.extract \in Extracts
        /\ Did(Gate("config"))' => run'.config \in Protocols
    BY <1>1, <1>2, <1>6, <1>11 DEF IInv, KnowsWhatItRead
  <2>. QED
    BY <2>1, <2>2 DEF KnowsWhatItRead
<1>13. KnowsTheFrozen'
  <2> SUFFICES ASSUME Did(Read("d3-protocol", "table"))'
               PROVE  \E e \in Built("d3-protocol") :
                         /\ "table" \in DOMAIN table["d3-protocol"][e].written
                         /\ run'.in["d3-protocol"]
                               = table["d3-protocol"][e].written["table"]
    BY DEF KnowsTheFrozen, Built
  <2>1. CASE Kind = "d3-protocol"
    <3>1. File = "table"
      BY <1>5, <2>1, LooksOnly, FilesOf DEF OneFile
    <3>2. d \in Built("d3-protocol")
      BY <2>1 DEF Built
    <3>. QED
      BY <1>4, <1>10, <2>1, <3>1, <3>2
  <2>2. CASE Kind # "d3-protocol"
    <3>1. Read("d3-protocol", "table") # Now
      BY <2>2, StepFields DEF Kind, Read
    <3>2. Did(Read("d3-protocol", "table"))
      BY <1>11, <3>1
    <3>3. run'.in["d3-protocol"] = run.in["d3-protocol"]
      BY <1>10, <2>2, LooksOnly
    <3>. QED
      BY <1>1, <3>2, <3>3 DEF IInv, KnowsTheFrozen
  <2>. QED
    BY <2>1, <2>2
<1>. QED
  BY <1>7, <1>8, <1>12, <1>13 DEF IInv

LEMMA LookedIsEarly ==
    ASSUME TypeOK, run # None, LookingNow
    PROVE  OwnKind \in StagedKinds \/ run.at <= Looks + 1
<1>1. run.at \in Nat /\ Looks \in Nat
  BY RunIs
<1>. QED
  BY <1>1 DEF LookingNow, AtLook

LEMMA ReadsIInv ==
    ASSUME IInv, ReadLatest \/ PeekLatest \/ ReadDated
    PROVE  IInv'
<1>1. /\ UNCHANGED <<extract, config, table, stage, count>>
      /\ \E do \in Reads : At(do)
  BY DEF ReadLatest, PeekLatest, ReadDated, Reads
<1>2. TypeOK /\ run # None /\ LookingNow
  BY <1>1, WhereAt DEF IInv
<1>3. run.date \in Dates
  BY <1>2, RunIs
<1>4. CASE Refuses
  BY <1>1, <1>2, <1>4, LookedIsEarly, EndedIInv DEF Refuses
<1>5. ASSUME ~Refuses
      PROVE  \E d \in Dates :
                /\ table[Kind][d] # None
                /\ File \in DOMAIN table[Kind][d].written
                /\ Took(Kind, table[Kind][d].written[File])
  <2>1. CASE ReadLatest
    BY <1>5, <2>1, LatestBuilt DEF ReadLatest, Built, Sealed
  <2>2. CASE PeekLatest
    BY <1>5, <2>2, LatestBuilt DEF PeekLatest, Built
  <2>3. CASE ReadDated
    BY <1>3, <1>5, <2>3 DEF ReadDated, Sealed
  <2>. QED
    BY <2>1, <2>2, <2>3
<1>. QED
  BY <1>1, <1>4, <1>5, ReadingIInv

LEMMA KnowsAfterWork ==
    ASSUME IInv, run # None, Advances, Remembers, Now.do \notin Reads,
           Now # Gate("extract"), Now # Gate("config"),
           table'["d3-protocol"] = table["d3-protocol"]
    PROVE  KnowsWhatItRead' /\ KnowsTheFrozen'
<1>1. \A step : Did(step)' <=> Did(step) \/ step = Now
  BY DidNow DEF IInv
<1>2. \A r \in Reads : \A kind, f : Step(r, kind, f) # Now
  BY StepFields
<1>3. \A kind, f : Read(kind, f) # Now
  BY <1>2 DEF Read, Reads
<1>4. KnowsWhatItRead'
  BY <1>1, <1>2 DEF IInv, KnowsWhatItRead, Remembers
<1>5. KnowsTheFrozen'
  BY <1>1, <1>3 DEF IInv, KnowsTheFrozen, Remembers, Built
<1>. QED
  BY <1>4, <1>5

LEMMA PassGateIInv ==
    ASSUME IInv, PassGate
    PROVE  IInv'
<1>1. /\ At("gate") /\ Kind \notin {"extract", "config"}
      /\ UNCHANGED <<extract, config, table, stage, count>>
  BY DEF PassGate
<1>2. TypeOK /\ run # None /\ LookingNow /\ Now.do = "gate"
  BY <1>1, WhereAt DEF IInv, At
<1>3. CASE GateHolds(Kind)
  <2>1. Goes
    BY <1>3 DEF PassGate, GoesIf
  <2>2. Advances /\ Remembers
    BY <1>2, <2>1, GoesOn DEF LookingNow
  <2>3. Now \in {Gate("absent"), Gate("noVersion")} => Absent
    <3>1. GateHolds("absent") = Absent /\ GateHolds("noVersion") = NoVersion
      BY DEF GateHolds
    <3>2. NoVersion => Absent
      BY DEF NoVersion, Absent
    <3>. QED
      BY <1>3, <3>1, <3>2, GateFields
  <2>4. Now # Gate("extract") /\ Now # Gate("config") /\ Now.do \notin Reads
    BY <1>1, <1>2, GateFields DEF Reads
  <2>5. /\ TypeOK' /\ AllSound' /\ WrittenSoFar' /\ StagedSoFar'
        /\ PublishedIsWhole' /\ OneDirectory' /\ NoTableLeft'
    BY <1>1, <1>2, <2>2, <2>3, LookedOn
  <2>6. GatesHold'
    BY <1>1, <1>2, <1>3, <2>2, GatesAfterGate DEF IInv
  <2>7. KnowsWhatItRead' /\ KnowsTheFrozen'
    BY <1>1, <1>2, <2>2, <2>4, KnowsAfterWork
  <2>. QED
    BY <2>5, <2>6, <2>7 DEF IInv
<1>4. CASE ~GateHolds(Kind)
  <2>1. run' = None
    BY <1>4 DEF PassGate, GoesIf, Refuses
  <2>. QED
    BY <1>1, <1>2, <2>1, LookedIsEarly, EndedIInv
<1>. QED
  BY <1>3, <1>4

LEMMA ReadSourceIInv ==
    ASSUME IInv, ReadSource
    PROVE  IInv'
<1>1. /\ At("gate") /\ Kind \in {"extract", "config"}
      /\ UNCHANGED <<extract, config, table, stage, count>>
      /\ \/ Kind = "extract" /\ run' = [run EXCEPT !.at = @ + 1, !.extract = extract]
         \/ Kind = "config" /\ run' = [run EXCEPT !.at = @ + 1, !.config = config]
  BY DEF ReadSource
<1>2. TypeOK /\ run # None /\ LookingNow /\ Now.do = "gate"
  BY <1>1, WhereAt DEF IInv, At
<1>3. Now # Gate("absent") /\ Now # Gate("noVersion")
  BY <1>1, GateFields
<1>4. AtLook /\ run.at < Len(Plan[run.command])
  BY <1>2, <1>3 DEF LookingNow
<1>5. extract \in Extracts /\ config \in Protocols
  BY <1>2 DEF TypeOK
<1>6. run.at + 1 \in Nat /\ run.at + 1 \in 1 .. Len(Plan[run.command])
  BY <1>2, <1>4, RunIs
<1>7. /\ run'.command = run.command /\ run'.date = run.date /\ run'.at = run.at + 1
      /\ run'.in = run.in
      /\ run'.extract \in {run.extract, extract} /\ run'.config \in {run.config, config}
      /\ Kind = "extract" => run'.extract = extract
      /\ Kind = "config" => run'.config = config
      /\ run' \in Run
  BY <1>1, <1>2, <1>5, <1>6, RunIs DEF Run
<1>8. Advances
  BY <1>2, <1>6, <1>7, NoneAssumption, RunIs DEF Advances
<1>9. /\ TypeOK' /\ AllSound' /\ WrittenSoFar' /\ StagedSoFar'
      /\ PublishedIsWhole' /\ OneDirectory' /\ NoTableLeft'
  BY <1>1, <1>2, <1>3, <1>4, <1>8, LookedOn
<1>10. GatesHold'
  BY <1>1, <1>2, <1>7, <1>8, GatesAfterSource DEF IInv
<1>11. \A step : Did(step)' <=> Did(step) \/ step = Now
  BY <1>2, <1>8, DidNow
<1>12. \A r \in Reads : \A kind, f : Step(r, kind, f) # Now
  BY <1>2, StepFields DEF Reads
<1>13. \A kind, f : Read(kind, f) # Now
  BY <1>12 DEF Read, Reads
<1>14. Gate("extract") # Now \/ Kind = "extract"
  BY GateFields
<1>15. Gate("config") # Now \/ Kind = "config"
  BY GateFields
<1>16. KnowsWhatItRead'
  BY <1>2, <1>5, <1>7, <1>11, <1>12, <1>14, <1>15 DEF IInv, KnowsWhatItRead
<1>17. KnowsTheFrozen'
  BY <1>1, <1>2, <1>7, <1>11, <1>13 DEF IInv, KnowsTheFrozen, Built
<1>. QED
  BY <1>9, <1>10, <1>16, <1>17 DEF IInv

(* What the steps of an output rest on. *)
LEMMA FilesDiffer ==
    ASSUME NEW kind \in Kinds, NEW i \in DOMAIN Files(kind), NEW j \in DOMAIN Files(kind)
    PROVE  i # j => Files(kind)[i] # Files(kind)[j]
<1>1. CASE kind \in OneFile
  <2>1. DOMAIN Files(kind) = 1 .. 1
    BY <1>1, FilesOf
  <2>2. i = 1 /\ j = 1
    BY <2>1
  <2>. QED
    BY <2>2
<1>2. CASE kind \in {"d3-inputs", "public-rc"}
  <2>1. /\ DOMAIN Files(kind) = 1 .. 2
        /\ Files(kind)[1] # Files(kind)[2]
    BY <1>2, FilesOf
  <2>2. i \in {1, 2} /\ j \in {1, 2}
    BY <2>1
  <2>. QED
    BY <2>1, <2>2
<1>. QED
  BY <1>1, <1>2 DEF OneFile

LEMMA DidClear ==
    ASSUME TypeOK, run # None, run.at > Looks
    PROVE  Cleared
<1>1. \E i \in 1 .. Looks : Before(run.command)[i] \in {Gate("absent"), Gate("noVersion")}
  BY RunIs, Looking DEF LooksFirst, Looks
<1>. QED
  BY <1>1, DidAll DEF Cleared

LEMMA WithIs ==
    ASSUME NEW f, NEW x, NEW y
    PROVE  /\ DOMAIN With(f, x, y) = DOMAIN f \cup {x}
           /\ With(f, x, y)[x] = y
           /\ \A z \in DOMAIN f : With(f, x, y)[z] = IF z = x THEN y ELSE f[z]
           /\ With(f, x, y) = [z \in DOMAIN With(f, x, y) |-> With(f, x, y)[z]]
BY DEF With

LEMMA WithType ==
    ASSUME NEW S, NEW f, NEW x, NEW y \in S, f \in [DOMAIN f -> S]
    PROVE  With(f, x, y) \in [DOMAIN f \cup {x} -> S]
BY DEF With

(* A directory with one more file, and with one more manifest. *)
LEMMA CurrentIs ==
    ASSUME NEW kind, NEW directory, DirectoryOK(kind, directory)
    PROVE  /\ IsDirectory(kind, Current(directory))
           /\ directory # None => Current(directory) = directory
           /\ directory = None => /\ DOMAIN Current(directory).written = {}
                                  /\ DOMAIN Current(directory).sealed = {}
<1>1. IsDirectory(kind, EmptyDirectory)
  BY DEF IsDirectory, EmptyDirectory
<1>. QED
  BY <1>1 DEF DirectoryOK, Current, EmptyDirectory

LEMMA DirectoryIsSome ==
    ASSUME NEW kind \in Kinds, NEW directory, IsDirectory(kind, directory)
    PROVE  directory # None
<1>1. directory.written \in Contents(kind)
  BY DEF IsDirectory, Contents
<1>2. directory.sealed \in Contents(kind)
  <2>1. DOMAIN directory.sealed \in SUBSET Names(kind)
    BY DEF IsDirectory
  <2>. QED
    BY <2>1 DEF IsDirectory, Contents
<1>3. directory \in Directories(kind)
  BY <1>1, <1>2 DEF IsDirectory, Directories
<1>. QED
  BY <1>3, NoneAssumption

LEMMA WrittenIs ==
    ASSUME NEW kind, NEW directory, IsDirectory(kind, directory),
           NEW file \in Names(kind), NEW content \in Content,
           NEW new, new = [directory EXCEPT !.written = With(@, file, content)]
    PROVE  /\ IsDirectory(kind, new)
           /\ new.written = With(directory.written, file, content)
           /\ new.sealed = directory.sealed
<1>1. /\ directory = [written |-> directory.written, sealed |-> directory.sealed]
      /\ directory.written \in [DOMAIN directory.written -> Content]
      /\ directory.sealed \in [DOMAIN directory.sealed -> Content]
      /\ DOMAIN directory.sealed \subseteq DOMAIN directory.written
      /\ DOMAIN directory.written \subseteq Names(kind)
  BY DEF IsDirectory
<1>2. PICK w, s : directory = [written |-> w, sealed |-> s]
  BY <1>1
<1>3. new = [written |-> With(directory.written, file, content),
             sealed |-> directory.sealed]
  BY <1>2
<1>4. /\ new.written = With(directory.written, file, content)
      /\ new.sealed = directory.sealed
  BY <1>3
<1>5. new.written \in [DOMAIN directory.written \cup {file} -> Content]
  BY <1>1, <1>4, WithType
<1>6. DOMAIN new.written = DOMAIN directory.written \cup {file}
  BY <1>4 DEF With
<1>. QED
  BY <1>1, <1>3, <1>4, <1>5, <1>6 DEF IsDirectory

LEMMA SealedIs ==
    ASSUME NEW kind, NEW directory, IsDirectory(kind, directory),
           NEW file \in DOMAIN directory.written, NEW content \in Content,
           NEW new, new = [directory EXCEPT !.sealed = With(@, file, content)]
    PROVE  /\ IsDirectory(kind, new)
           /\ new.sealed = With(directory.sealed, file, content)
           /\ new.written = directory.written
<1>1. /\ directory = [written |-> directory.written, sealed |-> directory.sealed]
      /\ directory.written \in [DOMAIN directory.written -> Content]
      /\ directory.sealed \in [DOMAIN directory.sealed -> Content]
      /\ DOMAIN directory.sealed \subseteq DOMAIN directory.written
      /\ DOMAIN directory.written \subseteq Names(kind)
  BY DEF IsDirectory
<1>2. PICK w, s : directory = [written |-> w, sealed |-> s]
  BY <1>1
<1>3. new = [written |-> directory.written,
             sealed |-> With(directory.sealed, file, content)]
  BY <1>2
<1>4. /\ new.sealed = With(directory.sealed, file, content)
      /\ new.written = directory.written
  BY <1>3
<1>5. new.sealed \in [DOMAIN directory.sealed \cup {file} -> Content]
  BY <1>1, <1>4, WithType
<1>6. DOMAIN new.sealed = DOMAIN directory.sealed \cup {file}
  BY <1>4 DEF With
<1>. QED
  BY <1>1, <1>3, <1>4, <1>5, <1>6 DEF IsDirectory

(* Only the directory of the output changes. *)
Changed(directories, new) == [directories EXCEPT ![OwnKind][run.date] = new]

LEMMA ChangedIs ==
    ASSUME TypeOK, run # None, NEW new
    PROVE  /\ table' = Changed(table, new) =>
                 /\ DOMAIN table' = Kinds
                 /\ \A kind \in Kinds : DOMAIN table'[kind] = Dates
                 /\ table'[OwnKind][run.date] = new
                 /\ \A kind \in Kinds \ {OwnKind} : table'[kind] = table[kind]
                 /\ \A d \in Dates \ {run.date} : table'[OwnKind][d] = table[OwnKind][d]
           /\ stage' = Changed(stage, new) =>
                 /\ DOMAIN stage' = Kinds
                 /\ \A kind \in Kinds : DOMAIN stage'[kind] = Dates
                 /\ stage'[OwnKind][run.date] = new
                 /\ \A kind \in Kinds \ {OwnKind} : stage'[kind] = stage[kind]
                 /\ \A d \in Dates \ {run.date} : stage'[OwnKind][d] = stage[OwnKind][d]
<1>1. OwnKind \in Kinds /\ run.date \in Dates
  BY RunIs
<1>2. /\ DOMAIN table = Kinds /\ DOMAIN stage = Kinds
      /\ \A kind \in Kinds : DOMAIN table[kind] = Dates /\ DOMAIN stage[kind] = Dates
  BY DEF TypeOK
<1>3. PICK k, d : k = OwnKind /\ d = run.date
  OBVIOUS
<1>4. table' = Changed(table, new) =>
         /\ DOMAIN table' = Kinds
         /\ \A kind \in Kinds : DOMAIN table'[kind] = Dates
         /\ table'[k][d] = new
         /\ \A kind \in Kinds \ {k} : table'[kind] = table[kind]
         /\ \A e \in Dates \ {d} : table'[k][e] = table[k][e]
  BY <1>1, <1>2, <1>3 DEF Changed
<1>5. stage' = Changed(stage, new) =>
         /\ DOMAIN stage' = Kinds
         /\ \A kind \in Kinds : DOMAIN stage'[kind] = Dates
         /\ stage'[k][d] = new
         /\ \A kind \in Kinds \ {k} : stage'[kind] = stage[kind]
         /\ \A e \in Dates \ {d} : stage'[k][e] = stage[k][e]
  BY <1>1, <1>2, <1>3 DEF Changed
<1>. QED
  BY <1>3, <1>4, <1>5

LEMMA InPlaceKeeps ==
    ASSUME IInv, run # None, OwnKind \notin StagedKinds,
           NEW new, table' = Changed(table, new),
           IsDirectory(OwnKind, new), SoundDirectory(OwnKind, new),
           UNCHANGED <<extract, config, stage, count>>,
           run' = None \/ Advances
    PROVE  /\ TypeOK' /\ AllSound' /\ PublishedIsWhole' /\ OneDirectory'
           /\ table'["d3-protocol"] = table["d3-protocol"]
<1>1. TypeOK /\ OwnKind \in Kinds /\ run.date \in Dates
  BY RunIs DEF IInv
<1>2. /\ DOMAIN table' = Kinds
      /\ \A kind \in Kinds : DOMAIN table'[kind] = Dates
      /\ table'[OwnKind][run.date] = new
      /\ \A kind \in Kinds \ {OwnKind} : table'[kind] = table[kind]
      /\ \A d \in Dates \ {run.date} : table'[OwnKind][d] = table[OwnKind][d]
  BY <1>1, ChangedIs
<1>3. \A kind \in Kinds, d \in Dates :
         \/ table'[kind][d] = table[kind][d]
         \/ kind = OwnKind /\ d = run.date /\ table'[kind][d] = new
  BY <1>2
<1>4. \A kind \in StagedKinds : kind \in Kinds /\ table'[kind] = table[kind]
  BY <1>2 DEF Kinds
<1>5. TypeOK'
  <2>1. \A kind \in Kinds, d \in Dates : DirectoryOK(kind, table'[kind][d])
    BY <1>1, <1>3 DEF TypeOK, DirectoryOK
  <2>2. run' # None => run' \in Run /\ run'.at \in DOMAIN Plan[run'.command]
    BY DEF Advances
  <2>. QED
    BY <1>1, <1>2, <1>4, <2>1, <2>2 DEF TypeOK
<1>6. AllSound'
  BY <1>3 DEF IInv, AllSound, SoundDirectory
<1>7. PublishedIsWhole'
  BY <1>4 DEF IInv, PublishedIsWhole, Built, Verified
<1>8. "d3-protocol" \in StagedKinds
  BY DEF StagedKinds
<1>9. OneDirectory'
  BY <1>4, <1>8 DEF IInv, OneDirectory, Built
<1>. QED
  BY <1>4, <1>5, <1>6, <1>7, <1>8, <1>9

LEMMA RefuseTableIInv ==
    ASSUME IInv, RefuseTable
    PROVE  IInv'
<1>1. /\ At("write") /\ FALSE \in Conforms /\ run' = None
      /\ table' = Put(table, run.date, Current(table[Kind][run.date]))
      /\ UNCHANGED <<extract, config, stage, count>>
  BY DEF RefuseTable, Refuses
<1>2. TypeOK /\ run # None /\ Writing
  BY <1>1, WhereAt DEF IInv
<1>3. Kind = OwnKind /\ OwnKind \notin StagedKinds
  BY <1>2 DEF Writing
<1>4. table' = Changed(table, Current(Own))
  BY <1>1, <1>3 DEF Put, Changed, Own
<1>5. run.command \in {"register", "coverage"}
  BY <1>1 DEF Conforms
<1>6. OwnKind = "register" /\ OwnKind \in OneFile
  BY <1>5, CommandOf DEF OwnKind, OneFile, Kinds
<1>7. OwnFiles = <<"table">> /\ Names(OwnKind) = {"table"}
  BY <1>6, FilesOf DEF OwnFiles
<1>8. Len(OwnFiles) = 1 /\ DOMAIN OwnFiles = 1 .. 1 /\ OwnFiles[1] = "table"
  BY <1>7
<1>9. PICK b, at : b = Looks /\ at = run.at
  OBVIOUS
<1>10. b \in Nat /\ at = b + 1
  BY <1>2, <1>8, <1>9, RunIs DEF Writing
<1>11. Cleared
  BY <1>2, <1>9, <1>10, DidClear
<1>12. Own = None \/ "table" \notin DOMAIN Own.written
  BY <1>2, <1>3, <1>8, <1>9, <1>10, <1>11 DEF IInv, WrittenSoFar
<1>13. Current(Own) = EmptyDirectory
  <2>1. CASE Own = None
    BY <2>1 DEF Current
  <2>2. CASE Own # None
    <3>1. IsDirectory(OwnKind, Own)
      BY <1>2, <2>2, OwnIs DEF DirectoryOK
    <3>2. DOMAIN Own.written = {} /\ DOMAIN Own.sealed = {}
      BY <1>7, <1>12, <2>2, <3>1 DEF IsDirectory
    <3>3. /\ Own.written = [f \in {} |-> Plain] /\ Own.sealed = [f \in {} |-> Plain]
          /\ Own = [written |-> Own.written, sealed |-> Own.sealed]
      BY <3>1, <3>2 DEF IsDirectory
    <3>. QED
      BY <2>2, <3>3 DEF Current, EmptyDirectory
  <2>. QED
    BY <2>1, <2>2
<1>14. IsDirectory(OwnKind, EmptyDirectory) /\ SoundDirectory(OwnKind, EmptyDirectory)
  BY DEF IsDirectory, EmptyDirectory, SoundDirectory
<1>15. TypeOK' /\ AllSound' /\ PublishedIsWhole' /\ OneDirectory'
  BY <1>1, <1>2, <1>3, <1>4, <1>13, <1>14, InPlaceKeeps
<1>16. /\ KnowsWhatItRead' /\ GatesHold' /\ KnowsTheFrozen'
       /\ WrittenSoFar' /\ StagedSoFar'
  BY <1>1 DEF KnowsWhatItRead, GatesHold, KnowsTheFrozen, WrittenSoFar, StagedSoFar
<1>17. NoTableLeft'
  <2>1. \A kind \in Kinds, d \in Dates :
           \/ table'[kind][d] = table[kind][d] /\ ~(kind = OwnKind /\ d = run.date)
           \/ table'[kind][d] = EmptyDirectory
    BY <1>2, <1>4, <1>13, ChangedIs
  <2>. QED
    BY <1>1, <2>1 DEF IInv, NoTableLeft, Clean, Built, Verified
<1>. QED
  BY <1>15, <1>16, <1>17 DEF IInv

LEMMA WriteTableIInv ==
    ASSUME IInv, WriteTable
    PROVE  IInv'
<1>1. /\ At("write") /\ Goes
      /\ table' = Put(table, run.date,
                      [Current(table[Kind][run.date]) EXCEPT !.written = With(@, File, Output)])
      /\ UNCHANGED <<extract, config, stage, count>>
  BY DEF WriteTable
<1>2. TypeOK /\ run # None /\ Writing /\ Now.do = "write"
  BY <1>1, WhereAt DEF IInv, At
<1>3. Kind = OwnKind /\ OwnKind \notin StagedKinds /\ OwnKind \in Kinds
  BY <1>2, RunIs DEF Writing
<1>4. PICK b, n, at : b = Looks /\ n = Len(OwnFiles) /\ at = run.at
  OBVIOUS
<1>5. PICK i \in 1 .. n : at = b + i /\ File = OwnFiles[i]
  BY <1>2, <1>4 DEF Writing
<1>6. b \in Nat \ {0} /\ n \in 1 .. 2 /\ DOMAIN OwnFiles = 1 .. n /\ at \in Nat /\ at > b
  BY <1>2, <1>4, <1>5, RunIs
<1>7. Advances /\ Remembers
  BY <1>1, <1>2, GoesOn DEF Writing
<1>8. PICK new : new = [Current(Own) EXCEPT !.written = With(@, File, Output)]
  OBVIOUS
<1>9. table' = Changed(table, new)
  BY <1>1, <1>3, <1>8 DEF Put, Changed, Own
<1>10. Output \in Content /\ Sound(OwnKind, Output)
  BY <1>2, <1>4, <1>6, OutputSound DEF IInv
<1>11. /\ IsDirectory(OwnKind, Current(Own))
       /\ Own # None => Current(Own) = Own
       /\ Own = None => /\ DOMAIN Current(Own).written = {}
                        /\ DOMAIN Current(Own).sealed = {}
  BY <1>2, OwnIs, CurrentIs
<1>12. File \in Names(OwnKind)
  BY <1>5, <1>6 DEF Names, OwnFiles
<1>13. /\ IsDirectory(OwnKind, new)
       /\ new.written = With(Current(Own).written, File, Output)
       /\ new.sealed = Current(Own).sealed
  BY <1>8, <1>10, <1>11, <1>12, WrittenIs
<1>14. /\ DOMAIN new.written = DOMAIN Current(Own).written \cup {File}
       /\ new.written[File] = Output
       /\ \A f \in DOMAIN Current(Own).written :
             new.written[f] = IF f = File THEN Output ELSE Current(Own).written[f]
  BY <1>13 DEF With
<1>15. SoundDirectory(OwnKind, new)
  <2>1. ASSUME NEW f \in DOMAIN Current(Own).written
        PROVE  Sound(OwnKind, Current(Own).written[f])
    BY <1>2, <1>3, <1>11, <2>1, RunIs DEF IInv, AllSound, SoundDirectory, Own
  <2>. QED
    BY <1>10, <1>14, <2>1 DEF SoundDirectory
<1>16. /\ TypeOK' /\ AllSound' /\ PublishedIsWhole' /\ OneDirectory'
       /\ table'["d3-protocol"] = table["d3-protocol"]
  BY <1>1, <1>2, <1>3, <1>7, <1>9, <1>13, <1>15, InPlaceKeeps
<1>17. /\ Now.do \notin Reads /\ Now.do # "gate"
       /\ Now # Gate("extract") /\ Now # Gate("config")
  BY <1>2, GateFields DEF Reads
<1>18. GatesHold'
  BY <1>2, <1>7, <1>16, <1>17, GatesAfterWork DEF IInv
<1>19. KnowsWhatItRead' /\ KnowsTheFrozen'
  BY <1>2, <1>7, <1>16, <1>17, KnowsAfterWork
<1>20. /\ run'.at = at + 1 /\ Looks' = b /\ OwnFiles' = OwnFiles /\ OwnKind' = OwnKind
       /\ run'.date = run.date /\ run' # None /\ Output' = Output
       /\ Own' = new
  <2>1. table'[OwnKind][run.date] = new
    BY <1>2, <1>9, ChangedIs
  <2>. QED
    BY <1>4, <1>7, <2>1, OwnSame, OutputSame DEF Advances, Own
<1>21. StagedSoFar'
  BY <1>3, <1>20 DEF StagedSoFar
<1>22. WrittenSoFar'
  <2>1. new # None
    BY <1>3, <1>13, DirectoryIsSome
  <2>2. ASSUME NEW j \in 1 .. n
        PROVE  /\ at + 1 > b + j => /\ OwnFiles[j] \in DOMAIN new.written
                                    /\ new.written[OwnFiles[j]] = Output
               /\ ~(at + 1 > b + n + j)
               /\ at + 1 <= b + j => OwnFiles[j] \notin DOMAIN new.written
               /\ OwnFiles[j] \notin DOMAIN new.sealed
    <3>1. /\ at + 1 > b + j => j = i \/ at > b + j
          /\ ~(at + 1 > b + n + j)
          /\ at + 1 <= b + j => j # i /\ at <= b + j
          /\ at <= b + n + j
      BY <1>5, <1>6
    <3>2. ASSUME at > b + j
          PROVE  /\ OwnFiles[j] \in DOMAIN Current(Own).written
                 /\ Current(Own).written[OwnFiles[j]] = Output
      BY <1>2, <1>3, <1>4, <1>6, <1>11, <3>2 DEF IInv, WrittenSoFar
    <3>3. Cleared
      BY <1>2, <1>4, <1>6, DidClear
    <3>4. ASSUME at <= b + j
          PROVE  OwnFiles[j] \notin DOMAIN Current(Own).written
      BY <1>2, <1>3, <1>4, <1>6, <1>11, <3>3, <3>4 DEF IInv, WrittenSoFar
    <3>5. OwnFiles[j] \notin DOMAIN Current(Own).sealed
      BY <1>2, <1>3, <1>4, <1>6, <1>11, <3>1, <3>3 DEF IInv, WrittenSoFar
    <3>6. j # i => OwnFiles[j] # OwnFiles[i]
      BY <1>3, <1>6, FilesDiffer DEF OwnFiles
    <3>7. at + 1 > b + j => /\ OwnFiles[j] \in DOMAIN new.written
                            /\ new.written[OwnFiles[j]] = Output
      BY <1>5, <1>14, <3>1, <3>2
    <3>8. at + 1 <= b + j => OwnFiles[j] \notin DOMAIN new.written
      BY <1>5, <1>14, <3>1, <3>4, <3>6
    <3>. QED
      BY <1>13, <3>1, <3>5, <3>7, <3>8
  <2>. QED
    BY <1>4, <1>6, <1>20, <2>1, <2>2 DEF WrittenSoFar
<1>23. NoTableLeft'
  <2>1. \A kind \in Kinds, d \in Dates :
           table'[kind][d] = table[kind][d] \/ (kind = OwnKind /\ d = run.date)
    BY <1>2, <1>9, ChangedIs
  <2>2. at + 1 > b + 1
    BY <1>5, <1>6
  <2>. QED
    BY <1>1, <1>20, <2>1, <2>2 DEF IInv, NoTableLeft, Clean, Built, Verified
<1>. QED
  BY <1>16, <1>18, <1>19, <1>21, <1>22, <1>23 DEF IInv

LEMMA FailToWriteIInv ==
    ASSUME IInv, FailToWrite
    PROVE  IInv'
<1> DEFINE directory == Current(Own)
           torn == [directory EXCEPT !.written = With(@, File, Plain)]
<1>1. /\ At("write") /\ Kind = "public-rc" /\ run' = None
      /\ UNCHANGED <<extract, config, stage, count>>
  BY DEF FailToWrite, Refuses
<1>2. TypeOK /\ run # None /\ Writing
  BY <1>1, WhereAt DEF IInv
<1>3. Kind = OwnKind /\ OwnKind = "public-rc" /\ OwnKind \notin StagedKinds
  BY <1>1, <1>2 DEF Writing
<1>4. PICK left \in {directory, torn} : table' = Changed(table, left)
  BY <1>3 DEF FailToWrite, Put, Changed, Own
<1>5. PICK b, n, at : b = Looks /\ n = Len(OwnFiles) /\ at = run.at
  OBVIOUS
<1>6. PICK i \in 1 .. n : at = b + i /\ File = OwnFiles[i]
  BY <1>2, <1>5 DEF Writing
<1>7. b \in Nat \ {0} /\ n \in 1 .. 2 /\ DOMAIN OwnFiles = 1 .. n /\ at \in Nat /\ at > b
  BY <1>2, <1>5, <1>6, RunIs
<1>8. Cleared
  BY <1>2, <1>5, <1>7, DidClear
<1>9. \A j \in 1 .. n : Own = None \/ OwnFiles[j] \notin DOMAIN Own.sealed
  <2>1. \A j \in 1 .. n : at <= b + n + j
    BY <1>6, <1>7
  <2>. QED
    BY <1>2, <1>3, <1>5, <1>7, <1>8, <2>1 DEF IInv, WrittenSoFar
<1>10. /\ IsDirectory(OwnKind, directory)
       /\ Own # None => directory = Own
       /\ Own = None => /\ DOMAIN directory.written = {}
                        /\ DOMAIN directory.sealed = {}
  BY <1>2, OwnIs, CurrentIs
<1>11. DOMAIN directory.sealed = {}
  <2>1. DOMAIN directory.sealed \subseteq Names(OwnKind)
    BY <1>10 DEF IsDirectory
  <2>2. \A f \in Names(OwnKind) : f \notin DOMAIN directory.sealed
    BY <1>7, <1>9, <1>10 DEF Names, OwnFiles
  <2>. QED
    BY <2>1, <2>2
<1>12. Plain \in Content
  BY DEF Plain, Content
<1>13. File \in Names(OwnKind)
  BY <1>6, <1>7 DEF Names, OwnFiles
<1>14. IsDirectory(OwnKind, torn) /\ torn.sealed = directory.sealed
  BY <1>10, <1>12, <1>13, WrittenIs
<1>15. IsDirectory(OwnKind, left) /\ DOMAIN left.sealed = {}
  BY <1>4, <1>10, <1>11, <1>14
<1>16. SoundDirectory(OwnKind, left)
  BY <1>3 DEF SoundDirectory, Sound, StagedKinds
<1>17. TypeOK' /\ AllSound' /\ PublishedIsWhole' /\ OneDirectory'
  BY <1>1, <1>2, <1>3, <1>4, <1>15, <1>16, InPlaceKeeps
<1>18. /\ KnowsWhatItRead' /\ GatesHold' /\ KnowsTheFrozen'
       /\ WrittenSoFar' /\ StagedSoFar'
  BY <1>1 DEF KnowsWhatItRead, GatesHold, KnowsTheFrozen, WrittenSoFar, StagedSoFar
<1>19. NoTableLeft'
  <2>1. \A kind \in Kinds, d \in Dates :
           \/ table'[kind][d] = table[kind][d] /\ ~(kind = OwnKind /\ d = run.date)
           \/ kind = "public-rc" /\ DOMAIN table'[kind][d].sealed = {}
    BY <1>2, <1>3, <1>4, <1>15, ChangedIs
  <2>. QED
    BY <1>1, <2>1 DEF IInv, NoTableLeft, Clean, Built, Verified
<1>. QED
  BY <1>17, <1>18, <1>19 DEF IInv

LEMMA SealTableIInv ==
    ASSUME IInv, SealTable
    PROVE  IInv'
<1>1. /\ At("seal") /\ Goes
      /\ table' = Put(table, run.date,
                      [table[Kind][run.date] EXCEPT !.sealed = With(@, File, Output)])
      /\ UNCHANGED <<extract, config, stage, count>>
  BY DEF SealTable
<1>2. TypeOK /\ run # None /\ Sealing /\ Now.do = "seal"
  BY <1>1, WhereAt DEF IInv, At
<1>3. Kind = OwnKind /\ OwnKind \notin StagedKinds /\ OwnKind \in Kinds
  BY <1>2, RunIs DEF Sealing
<1>4. PICK b, n, at : b = Looks /\ n = Len(OwnFiles) /\ at = run.at
  OBVIOUS
<1>5. PICK i \in 1 .. n : at = b + (n + i) /\ File = OwnFiles[i]
  BY <1>2, <1>4 DEF Sealing
<1>6. b \in Nat \ {0} /\ n \in 1 .. 2 /\ DOMAIN OwnFiles = 1 .. n /\ at \in Nat /\ at > b
  BY <1>2, <1>4, <1>5, RunIs
<1>7. Len(Plan[run.command]) = b + (n + n)
  BY <1>2, <1>4 DEF Sealing
<1>8. PICK new : new = [Own EXCEPT !.sealed = With(@, File, Output)]
  OBVIOUS
<1>9. table' = Changed(table, new)
  BY <1>1, <1>3, <1>8 DEF Put, Changed, Own
<1>10. Output \in Content /\ Sound(OwnKind, Output)
  BY <1>2, <1>4, <1>6, OutputSound DEF IInv
<1>11. \A j \in 1 .. n : /\ Own # None
                         /\ OwnFiles[j] \in DOMAIN Own.written
                         /\ Own.written[OwnFiles[j]] = Output
  <2>1. \A j \in 1 .. n : at > b + j
    BY <1>5, <1>6
  <2>. QED
    BY <1>2, <1>3, <1>4, <1>6, <2>1 DEF IInv, WrittenSoFar
<1>12. Own # None /\ File \in DOMAIN Own.written /\ IsDirectory(OwnKind, Own)
  BY <1>2, <1>5, <1>11, OwnIs DEF DirectoryOK
<1>13. /\ IsDirectory(OwnKind, new)
       /\ new.sealed = With(Own.sealed, File, Output)
       /\ new.written = Own.written
  BY <1>8, <1>10, <1>12, SealedIs
<1>14. /\ DOMAIN new.sealed = DOMAIN Own.sealed \cup {File}
       /\ new.sealed[File] = Output
       /\ \A f \in DOMAIN Own.sealed :
             new.sealed[f] = IF f = File THEN Output ELSE Own.sealed[f]
  BY <1>13 DEF With
<1>15. SoundDirectory(OwnKind, new)
  BY <1>2, <1>3, <1>12, <1>13, RunIs DEF IInv, AllSound, SoundDirectory, Own
<1>16. ASSUME NEW j \in 1 .. n, j <= i
       PROVE  OwnFiles[j] \in DOMAIN new.sealed /\ new.sealed[OwnFiles[j]] = Output
  <2>1. j = i \/ at > b + n + j
    BY <1>5, <1>6, <1>16
  <2>2. CASE j = i
    BY <1>5, <1>14, <2>2
  <2>3. CASE at > b + n + j
    <3>1. OwnFiles[j] \in DOMAIN Own.sealed /\ Own.sealed[OwnFiles[j]] = Output
      BY <1>2, <1>3, <1>4, <1>6, <2>3 DEF IInv, WrittenSoFar
    <3>. QED
      BY <1>14, <3>1
  <2>. QED
    BY <2>1, <2>2, <2>3
<1>17. new # None
  BY <1>3, <1>13, DirectoryIsSome
<1>18. /\ table'[OwnKind][run.date] = new
       /\ \A kind \in Kinds, d \in Dates :
             table'[kind][d] = table[kind][d] \/ (kind = OwnKind /\ d = run.date)
  BY <1>2, <1>9, ChangedIs
<1>19. run' = None \/ (Advances /\ Remembers)
  BY <1>1, <1>2, GoesOn, RunIs DEF Goes
<1>20. /\ TypeOK' /\ AllSound' /\ PublishedIsWhole' /\ OneDirectory'
       /\ table'["d3-protocol"] = table["d3-protocol"]
  BY <1>1, <1>2, <1>3, <1>9, <1>13, <1>15, <1>19, InPlaceKeeps
<1>21. CASE i = n
  <2>1. run' = None
    BY <1>1, <1>4, <1>5, <1>7, <1>21 DEF Goes
  <2>2. /\ KnowsWhatItRead' /\ GatesHold' /\ KnowsTheFrozen'
        /\ WrittenSoFar' /\ StagedSoFar'
    BY <2>1 DEF KnowsWhatItRead, GatesHold, KnowsTheFrozen, WrittenSoFar, StagedSoFar
  <2>3. NoTableLeft'
    <3>1. \A j \in 1 .. n : j <= i
      BY <1>6, <1>21
    <3>2. \A j \in 1 .. n : Sealed(new, OwnFiles[j])
      BY <1>11, <1>13, <1>16, <3>1 DEF Sealed
    <3>3. PICK kind, d : kind = OwnKind /\ d = run.date
      OBVIOUS
    <3>4. Verified(kind, d)'
      BY <1>6, <1>17, <1>18, <3>2, <3>3 DEF Verified, OwnFiles
    <3>5. ASSUME NEW k \in Kinds, NEW e \in Dates
          PROVE  \/ k = kind /\ e = d
                 \/ table'[k][e] = table[k][e]
      BY <1>18, <3>3
    <3>6. ASSUME count'.crashes = 0, NEW k \in Kinds, NEW e \in Built(k)'
          PROVE  Clean(k, e)'
      <4>1. CASE k = kind /\ e = d
        BY <3>4, <4>1 DEF Clean
      <4>2. CASE ~(k = kind /\ e = d)
        BY <1>1, <3>3, <3>5, <3>6, <4>2 DEF IInv, NoTableLeft, Clean, Built, Verified
      <4>. QED
        BY <4>1, <4>2
    <3>. QED
      BY <3>6 DEF NoTableLeft, Clean
  <2>. QED
    BY <1>20, <2>2, <2>3 DEF IInv
<1>22. CASE i # n
  <2>1. at < b + (n + n)
    BY <1>5, <1>6, <1>22
  <2>2. Advances /\ Remembers
    BY <1>1, <1>2, <1>4, <1>7, <2>1, GoesOn
  <2>3. /\ Now.do \notin Reads /\ Now.do # "gate"
        /\ Now # Gate("extract") /\ Now # Gate("config")
    BY <1>2, GateFields DEF Reads
  <2>4. GatesHold'
    BY <1>2, <1>20, <2>2, <2>3, GatesAfterWork DEF IInv
  <2>5. KnowsWhatItRead' /\ KnowsTheFrozen'
    BY <1>2, <1>20, <2>2, <2>3, KnowsAfterWork
  <2>6. /\ run'.at = at + 1 /\ Looks' = b /\ OwnFiles' = OwnFiles /\ OwnKind' = OwnKind
        /\ run'.date = run.date /\ run' # None /\ Output' = Output
        /\ Own' = new
    BY <1>4, <1>18, <2>2, OwnSame, OutputSame DEF Advances, Own
  <2>7. StagedSoFar'
    BY <1>3, <2>6 DEF StagedSoFar
  <2>8. WrittenSoFar'
    <3>1. ASSUME NEW j \in 1 .. n
          PROVE  /\ at + 1 > b + n + j => j <= i
                 /\ ~(at + 1 <= b + j)
                 /\ at + 1 <= b + n + j => OwnFiles[j] \notin DOMAIN new.sealed
      <4>1. /\ at + 1 > b + n + j => j <= i
            /\ ~(at + 1 <= b + j)
            /\ at + 1 <= b + n + j => at <= b + n + j /\ j # i
        BY <1>5, <1>6
      <4>2. Cleared
        BY <1>2, <1>4, <1>6, DidClear
      <4>3. at <= b + n + j => OwnFiles[j] \notin DOMAIN Own.sealed
        BY <1>2, <1>3, <1>4, <1>6, <1>12, <4>2 DEF IInv, WrittenSoFar
      <4>4. j # i => OwnFiles[j] # OwnFiles[i]
        BY <1>3, <1>6, FilesDiffer DEF OwnFiles
      <4>5. at + 1 <= b + n + j => OwnFiles[j] \notin DOMAIN new.sealed
        BY <1>5, <1>14, <4>1, <4>3, <4>4
      <4>. QED
        BY <4>1, <4>5
    <3>. QED
      BY <1>4, <1>6, <1>11, <1>13, <1>16, <1>17, <2>6, <3>1 DEF WrittenSoFar
  <2>9. NoTableLeft'
    <3>1. at + 1 > b + 1
      BY <1>5, <1>6
    <3>. QED
      BY <1>1, <1>18, <2>6, <3>1 DEF IInv, NoTableLeft, Clean, Built, Verified
  <2>. QED
    BY <1>20, <2>4, <2>5, <2>7, <2>8, <2>9 DEF IInv
<1>. QED
  BY <1>21, <1>22

LEMMA StagedKeeps ==
    ASSUME IInv, run # None, OwnKind \in StagedKinds, Own = None,
           NEW new, stage' = Changed(stage, new),
           IsDirectory(OwnKind, new), SoundDirectory(OwnKind, new),
           UNCHANGED <<extract, config, table, count>>, Advances
    PROVE  TypeOK' /\ AllSound' /\ PublishedIsWhole' /\ OneDirectory' /\ NoTableLeft'
<1>1. TypeOK /\ OwnKind \in Kinds /\ run.date \in Dates
  BY RunIs DEF IInv
<1>2. /\ DOMAIN stage' = Kinds
      /\ \A kind \in Kinds : DOMAIN stage'[kind] = Dates
      /\ stage'[OwnKind][run.date] = new
      /\ \A kind \in Kinds \ {OwnKind} : stage'[kind] = stage[kind]
      /\ \A d \in Dates \ {run.date} : stage'[OwnKind][d] = stage[OwnKind][d]
  BY <1>1, ChangedIs
<1>3. \A kind \in Kinds, d \in Dates :
         \/ stage'[kind][d] = stage[kind][d]
         \/ kind = OwnKind /\ d = run.date /\ stage'[kind][d] = new
  BY <1>2
<1>4. StagedKinds \subseteq Kinds
  BY DEF Kinds
<1>5. TypeOK'
  <2>1. \A kind \in Kinds, d \in Dates : DirectoryOK(kind, stage'[kind][d])
    BY <1>1, <1>3 DEF TypeOK, DirectoryOK
  <2>2. run' # None => run' \in Run /\ run'.at \in DOMAIN Plan[run'.command]
    BY DEF Advances
  <2>3. \A kind \in Kinds \ StagedKinds, d \in Dates : stage'[kind][d] = None
    BY <1>1, <1>3 DEF TypeOK
  <2>4. \A kind \in StagedKinds, d \in Dates : table[kind][d] = None \/ stage'[kind][d] = None
    BY <1>1, <1>3, <1>4 DEF TypeOK, Own
  <2>. QED
    BY <1>1, <1>2, <2>1, <2>2, <2>3, <2>4 DEF TypeOK
<1>6. AllSound'
  BY <1>3 DEF IInv, AllSound, SoundDirectory
<1>7. PublishedIsWhole' /\ OneDirectory'
  BY DEF IInv, PublishedIsWhole, OneDirectory, Built, Verified
<1>8. NoTableLeft'
  <2>1. run.at > Looks + 1 => run'.at > Looks + 1
    BY <1>1, RunIs DEF Advances
  <2>. QED
    BY <2>1, OwnSame DEF IInv, NoTableLeft, Clean, Built, Verified, Advances
<1>. QED
  BY <1>5, <1>6, <1>7, <1>8

LEMMA WriteStagedIInv ==
    ASSUME IInv, WriteStaged
    PROVE  IInv'
<1>1. /\ At("stage") /\ Goes
      /\ stage' = Put(stage, run.date,
                      [Current(stage[Kind][run.date]) EXCEPT !.written = With(@, File, Output)])
      /\ UNCHANGED <<extract, config, table, count>>
  BY DEF WriteStaged
<1>2. TypeOK /\ run # None /\ Staging /\ Now.do = "stage"
  BY <1>1, WhereAt DEF IInv, At
<1>3. Kind = OwnKind /\ OwnKind \in StagedKinds /\ OwnKind \in Kinds
  BY <1>2, RunIs DEF Staging
<1>4. PICK b, n, at : b = Looks /\ n = Len(OwnFiles) /\ at = run.at
  OBVIOUS
<1>5. PICK i \in 1 .. n : at = b + (2 * i - 1) /\ File = OwnFiles[i]
  BY <1>2, <1>4 DEF Staging
<1>6. b \in Nat \ {0} /\ n \in 1 .. 2 /\ DOMAIN OwnFiles = 1 .. n /\ at \in Nat /\ at > b
  BY <1>2, <1>4, <1>5, RunIs
<1>7. Advances /\ Remembers
  BY <1>1, <1>2, GoesOn DEF Staging
<1>8. PICK new : new = [Current(OwnStage) EXCEPT !.written = With(@, File, Output)]
  OBVIOUS
<1>9. stage' = Changed(stage, new)
  BY <1>1, <1>3, <1>8 DEF Put, Changed, OwnStage
<1>10. Output \in Content /\ Sound(OwnKind, Output)
  BY <1>2, <1>4, <1>6, OutputSound DEF IInv
<1>11. /\ IsDirectory(OwnKind, Current(OwnStage))
       /\ OwnStage # None => Current(OwnStage) = OwnStage
       /\ OwnStage = None => DOMAIN Current(OwnStage).written = {}
  BY <1>2, OwnIs, CurrentIs
<1>12. File \in Names(OwnKind)
  BY <1>5, <1>6 DEF Names, OwnFiles
<1>13. /\ IsDirectory(OwnKind, new)
       /\ new.written = With(Current(OwnStage).written, File, Output)
       /\ new.sealed = Current(OwnStage).sealed
  BY <1>8, <1>10, <1>11, <1>12, WrittenIs
<1>14. /\ DOMAIN new.written = DOMAIN Current(OwnStage).written \cup {File}
       /\ new.written[File] = Output
       /\ \A f \in DOMAIN Current(OwnStage).written :
             new.written[f] = IF f = File THEN Output ELSE Current(OwnStage).written[f]
  BY <1>13 DEF With
<1>15. SoundDirectory(OwnKind, new)
  <2>1. ASSUME NEW f \in DOMAIN Current(OwnStage).written
        PROVE  Sound(OwnKind, Current(OwnStage).written[f])
    BY <1>2, <1>3, <1>11, <2>1, RunIs DEF IInv, AllSound, SoundDirectory, OwnStage
  <2>. QED
    BY <1>10, <1>14, <2>1 DEF SoundDirectory
<1>16. Own = None
  BY <1>2, <1>3, <1>4, <1>6, DidClear DEF IInv, StagedSoFar
<1>17. TypeOK' /\ AllSound' /\ PublishedIsWhole' /\ OneDirectory' /\ NoTableLeft'
  BY <1>1, <1>2, <1>3, <1>7, <1>9, <1>13, <1>15, <1>16, StagedKeeps
<1>18. /\ Now.do \notin Reads /\ Now.do # "gate"
       /\ Now # Gate("extract") /\ Now # Gate("config")
  BY <1>2, GateFields DEF Reads
<1>19. GatesHold'
  BY <1>1, <1>2, <1>7, <1>18, GatesAfterWork DEF IInv
<1>20. KnowsWhatItRead' /\ KnowsTheFrozen'
  BY <1>1, <1>2, <1>7, <1>18, KnowsAfterWork
<1>21. /\ run'.at = at + 1 /\ Looks' = b /\ OwnFiles' = OwnFiles /\ OwnKind' = OwnKind
       /\ run'.date = run.date /\ run' # None /\ Output' = Output
       /\ Own' = None /\ OwnStage' = new
  <2>1. stage'[OwnKind][run.date] = new
    BY <1>2, <1>9, ChangedIs
  <2>. QED
    BY <1>1, <1>4, <1>7, <1>16, <2>1, OwnSame, OutputSame DEF Advances, Own, OwnStage
<1>22. WrittenSoFar'
  BY <1>3, <1>21 DEF WrittenSoFar
<1>23. new # None
  BY <1>3, <1>13, DirectoryIsSome
<1>24. ASSUME NEW j \in 1 .. n
       PROVE  /\ at + 1 >= b + 2 * j => /\ OwnFiles[j] \in DOMAIN new.written
                                        /\ new.written[OwnFiles[j]] = Output
              /\ at + 1 > b + 2 * j => /\ OwnFiles[j] \in DOMAIN new.sealed
                                       /\ new.sealed[OwnFiles[j]] = Output
  <2>1. /\ at + 1 >= b + 2 * j => j = i \/ at > b + 2 * j
        /\ at + 1 > b + 2 * j => at > b + 2 * j
        /\ at > b + 2 * j => at >= b + 2 * j
    BY <1>5, <1>6
  <2>2. ASSUME at > b + 2 * j
        PROVE  /\ OwnFiles[j] \in DOMAIN Current(OwnStage).written
               /\ Current(OwnStage).written[OwnFiles[j]] = Output
               /\ OwnFiles[j] \in DOMAIN Current(OwnStage).sealed
               /\ Current(OwnStage).sealed[OwnFiles[j]] = Output
    BY <1>2, <1>3, <1>4, <1>6, <1>11, <2>1, <2>2 DEF IInv, StagedSoFar
  <2>3. at + 1 >= b + 2 * j => /\ OwnFiles[j] \in DOMAIN new.written
                               /\ new.written[OwnFiles[j]] = Output
    BY <1>5, <1>14, <2>1, <2>2
  <2>. QED
    BY <1>13, <2>1, <2>2, <2>3
<1>25. StagedSoFar'
  BY <1>4, <1>6, <1>21, <1>23, <1>24 DEF StagedSoFar
<1>. QED
  BY <1>17, <1>19, <1>20, <1>22, <1>25 DEF IInv

LEMMA SealStagedIInv ==
    ASSUME IInv, SealStaged
    PROVE  IInv'
<1> DEFINE directory == stage[Kind][run.date]
<1>1. /\ At("sealStaged")
      /\ UNCHANGED <<extract, config, table, count>>
      /\ \/ /\ Agrees(directory) /\ Goes
            /\ stage' = Put(stage, run.date,
                            IF File \in DOMAIN directory.sealed THEN directory
                            ELSE [directory EXCEPT !.sealed = With(@, File, Output)])
         \/ UNCHANGED stage /\ run' = None
  BY DEF SealStaged, Refuses
<1>2. TypeOK /\ run # None /\ SealingStaged /\ Now.do = "sealStaged"
  BY <1>1, WhereAt DEF IInv, At
<1>3. Kind = OwnKind /\ OwnKind \in StagedKinds /\ OwnKind \in Kinds
  BY <1>2, RunIs DEF SealingStaged
<1>4. CASE UNCHANGED stage /\ run' = None
  BY <1>1, <1>3, <1>4, EndedIInv
<1>5. CASE /\ Agrees(directory) /\ Goes
           /\ stage' = Put(stage, run.date,
                           IF File \in DOMAIN directory.sealed THEN directory
                           ELSE [directory EXCEPT !.sealed = With(@, File, Output)])
  <2>1. directory = OwnStage
    BY <1>3 DEF OwnStage
  <2> HIDE DEF directory
  <2>2. PICK b, n, at : b = Looks /\ n = Len(OwnFiles) /\ at = run.at
    OBVIOUS
  <2>3. PICK i \in 1 .. n : at = b + 2 * i /\ File = OwnFiles[i]
    BY <1>2, <2>2 DEF SealingStaged
  <2>4. b \in Nat \ {0} /\ n \in 1 .. 2 /\ DOMAIN OwnFiles = 1 .. n /\ at \in Nat /\ at > b
    BY <1>2, <2>2, <2>3, RunIs
  <2>5. Advances /\ Remembers
    BY <1>2, <1>5, GoesOn DEF SealingStaged
  <2>6. PICK new : new = IF File \in DOMAIN OwnStage.sealed THEN OwnStage
                         ELSE [OwnStage EXCEPT !.sealed = With(@, File, Output)]
    OBVIOUS
  <2>7. stage' = Changed(stage, new)
    BY <1>3, <1>5, <2>1, <2>6 DEF Put, Changed
  <2>8. Output \in Content
    BY <1>2, <2>2, <2>4, OutputSound DEF IInv
  <2>9. /\ OwnStage # None /\ File \in DOMAIN OwnStage.written
        /\ OwnStage.written[File] = Output
    <3>1. at >= b + 2 * i
      BY <2>3, <2>4
    <3>. QED
      BY <1>2, <1>3, <2>2, <2>3, <2>4, <3>1 DEF IInv, StagedSoFar
  <2>10. IsDirectory(OwnKind, OwnStage)
    BY <1>2, <2>9, OwnIs DEF DirectoryOK
  <2>11. /\ IsDirectory(OwnKind, new)
         /\ new.written = OwnStage.written
         /\ File \in DOMAIN new.sealed /\ new.sealed[File] = Output
         /\ \A f \in DOMAIN OwnStage.sealed :
               f \in DOMAIN new.sealed /\ new.sealed[f] = OwnStage.sealed[f]
    <3>1. CASE File \in DOMAIN OwnStage.sealed
      <4>1. OwnStage.sealed[File] = Output
        BY <1>5, <2>1, <2>9, <3>1 DEF Agrees
      <4>. QED
        BY <2>6, <2>10, <3>1, <4>1
    <3>2. CASE File \notin DOMAIN OwnStage.sealed
      <4>1. new = [OwnStage EXCEPT !.sealed = With(@, File, Output)]
        BY <2>6, <3>2
      <4>2. /\ IsDirectory(OwnKind, new)
            /\ new.sealed = With(OwnStage.sealed, File, Output)
            /\ new.written = OwnStage.written
        BY <2>8, <2>9, <2>10, <4>1, SealedIs
      <4>. QED
        BY <3>2, <4>2 DEF With
    <3>. QED
      BY <3>1, <3>2
  <2>12. SoundDirectory(OwnKind, new)
    BY <1>2, <1>3, <2>9, <2>11, RunIs DEF IInv, AllSound, SoundDirectory, OwnStage
  <2>13. Own = None
    BY <1>2, <1>3, <2>2, <2>4, DidClear DEF IInv, StagedSoFar
  <2>14. TypeOK' /\ AllSound' /\ PublishedIsWhole' /\ OneDirectory' /\ NoTableLeft'
    BY <1>1, <1>2, <1>3, <2>5, <2>7, <2>11, <2>12, <2>13, StagedKeeps
  <2>15. /\ Now.do \notin Reads /\ Now.do # "gate"
         /\ Now # Gate("extract") /\ Now # Gate("config")
    BY <1>2, GateFields DEF Reads
  <2>16. GatesHold'
    BY <1>1, <1>2, <2>5, <2>15, GatesAfterWork DEF IInv
  <2>17. KnowsWhatItRead' /\ KnowsTheFrozen'
    BY <1>1, <1>2, <2>5, <2>15, KnowsAfterWork
  <2>18. /\ run'.at = at + 1 /\ Looks' = b /\ OwnFiles' = OwnFiles /\ OwnKind' = OwnKind
         /\ run'.date = run.date /\ run' # None /\ Output' = Output
         /\ Own' = None /\ OwnStage' = new
    <3>1. stage'[OwnKind][run.date] = new
      BY <1>2, <2>7, ChangedIs
    <3>. QED
      BY <1>1, <2>2, <2>5, <2>13, <3>1, OwnSame, OutputSame DEF Advances, Own, OwnStage
  <2>19. WrittenSoFar'
    BY <1>3, <2>18 DEF WrittenSoFar
  <2>20. new # None
    BY <1>3, <2>11, DirectoryIsSome
  <2>21. ASSUME NEW j \in 1 .. n
         PROVE  /\ at + 1 >= b + 2 * j => /\ OwnFiles[j] \in DOMAIN new.written
                                          /\ new.written[OwnFiles[j]] = Output
                /\ at + 1 > b + 2 * j => /\ OwnFiles[j] \in DOMAIN new.sealed
                                         /\ new.sealed[OwnFiles[j]] = Output
    <3>1. /\ at + 1 >= b + 2 * j => at >= b + 2 * j
          /\ at + 1 > b + 2 * j => j = i \/ at > b + 2 * j
      BY <2>3, <2>4
    <3>2. at >= b + 2 * j => /\ OwnFiles[j] \in DOMAIN OwnStage.written
                             /\ OwnStage.written[OwnFiles[j]] = Output
      BY <1>2, <1>3, <2>2, <2>4 DEF IInv, StagedSoFar
    <3>3. at > b + 2 * j => /\ OwnFiles[j] \in DOMAIN OwnStage.sealed
                            /\ OwnStage.sealed[OwnFiles[j]] = Output
      BY <1>2, <1>3, <2>2, <2>4 DEF IInv, StagedSoFar
    <3>. QED
      BY <2>3, <2>11, <3>1, <3>2, <3>3
  <2>22. StagedSoFar'
    BY <2>2, <2>4, <2>18, <2>20, <2>21 DEF StagedSoFar
  <2>. QED
    BY <2>14, <2>16, <2>17, <2>19, <2>22 DEF IInv
<1>. QED
  BY <1>1, <1>4, <1>5

LEMMA PublishIs ==
    ASSUME IInv, Publish
    PROVE  /\ run # None /\ run' = None
           /\ OwnKind \in StagedKinds /\ OwnKind \in Kinds /\ run.date \in Dates
           /\ run.at > Looks /\ run.at > 2
           /\ Own = None /\ OwnStage # None /\ IsDirectory(OwnKind, OwnStage)
           /\ \A f \in Names(OwnKind) : /\ f \in DOMAIN OwnStage.written
                                        /\ OwnStage.written[f] = Output
                                        /\ f \in DOMAIN OwnStage.sealed
                                        /\ OwnStage.sealed[f] = Output
           /\ table' = Changed(table, OwnStage) /\ stage' = Changed(stage, None)
           /\ UNCHANGED <<extract, config, count>>
<1>1. /\ At("publish") /\ Goes
      /\ table' = Put(table, run.date, stage[Kind][run.date])
      /\ stage' = Put(stage, run.date, None)
      /\ UNCHANGED <<extract, config, count>>
  BY DEF Publish
<1>2. TypeOK /\ run # None /\ Publishing
  BY <1>1, WhereAt DEF IInv
<1>3. /\ Kind = OwnKind /\ OwnKind \in StagedKinds /\ OwnKind \in Kinds
      /\ run.date \in Dates /\ run.at = Len(Plan[run.command])
  BY <1>2, RunIs DEF Publishing
<1>4. run' = None
  BY <1>1, <1>3 DEF Goes
<1>5. PICK b, n, at : b = Looks /\ n = Len(OwnFiles) /\ at = run.at
  OBVIOUS
<1>6. b \in Nat \ {0} /\ n \in 1 .. 2 /\ DOMAIN OwnFiles = 1 .. n /\ at = b + (2 * n + 2)
  BY <1>2, <1>5, RunIs DEF Publishing
<1>7. /\ at > b /\ at > 2
      /\ \A i \in 1 .. n : at >= b + 2 * i /\ at > b + 2 * i
      /\ 1 \in 1 .. n
  BY <1>6
<1>8. Own = None
  BY <1>2, <1>3, <1>5, <1>7, DidClear DEF IInv, StagedSoFar
<1>9. \A i \in 1 .. n : /\ OwnStage # None
                        /\ OwnFiles[i] \in DOMAIN OwnStage.written
                        /\ OwnStage.written[OwnFiles[i]] = Output
                        /\ OwnFiles[i] \in DOMAIN OwnStage.sealed
                        /\ OwnStage.sealed[OwnFiles[i]] = Output
  BY <1>2, <1>3, <1>5, <1>6, <1>7 DEF IInv, StagedSoFar
<1>10. OwnStage # None
  BY <1>7, <1>9
<1>11. IsDirectory(OwnKind, OwnStage)
  BY <1>2, <1>10, OwnIs DEF DirectoryOK
<1>12. ASSUME NEW f \in Names(OwnKind)
       PROVE  \E i \in 1 .. n : f = OwnFiles[i]
  BY <1>6, <1>12 DEF Names, OwnFiles
<1>13. table' = Changed(table, OwnStage) /\ stage' = Changed(stage, None)
  BY <1>1, <1>3 DEF Put, Changed, OwnStage
<1>. QED
  BY <1>1, <1>2, <1>3, <1>4, <1>5, <1>7, <1>8, <1>9, <1>10, <1>11, <1>12, <1>13

LEMMA PublishIInv ==
    ASSUME IInv, Publish
    PROVE  IInv'
<1>1. /\ run # None /\ run' = None
      /\ OwnKind \in StagedKinds /\ OwnKind \in Kinds /\ run.date \in Dates
      /\ run.at > Looks /\ run.at > 2
      /\ Own = None /\ OwnStage # None /\ IsDirectory(OwnKind, OwnStage)
      /\ \A f \in Names(OwnKind) : /\ f \in DOMAIN OwnStage.written
                                   /\ OwnStage.written[f] = Output
                                   /\ f \in DOMAIN OwnStage.sealed
                                   /\ OwnStage.sealed[f] = Output
      /\ table' = Changed(table, OwnStage) /\ stage' = Changed(stage, None)
      /\ UNCHANGED <<extract, config, count>>
  BY PublishIs
<1>2. PICK own, d, new : own = OwnKind /\ d = run.date /\ new = OwnStage
  OBVIOUS
<1>3. TypeOK
  BY DEF IInv
<1>4. /\ DOMAIN table' = Kinds /\ DOMAIN stage' = Kinds
      /\ \A kind \in Kinds : DOMAIN table'[kind] = Dates /\ DOMAIN stage'[kind] = Dates
      /\ table'[own][d] = new /\ stage'[own][d] = None
      /\ \A kind \in Kinds, e \in Dates :
            \/ table'[kind][e] = table[kind][e] /\ stage'[kind][e] = stage[kind][e]
            \/ kind = own /\ e = d
      /\ \A kind \in Kinds \ {own} : table'[kind] = table[kind]
  BY <1>1, <1>2, <1>3, ChangedIs
<1>5. StagedKinds \subseteq Kinds
  BY DEF Kinds
<1>6. TypeOK'
  <2>1. \A kind \in Kinds, e \in Dates :
           DirectoryOK(kind, table'[kind][e]) /\ DirectoryOK(kind, stage'[kind][e])
    BY <1>1, <1>2, <1>3, <1>4 DEF TypeOK, DirectoryOK
  <2>2. \A kind \in Kinds \ StagedKinds, e \in Dates : stage'[kind][e] = None
    BY <1>3, <1>4 DEF TypeOK
  <2>3. \A kind \in StagedKinds, e \in Dates : table'[kind][e] = None \/ stage'[kind][e] = None
    BY <1>3, <1>4, <1>5 DEF TypeOK
  <2>. QED
    BY <1>1, <1>3, <1>4, <2>1, <2>2, <2>3 DEF TypeOK
<1>7. AllSound'
  <2>1. SoundDirectory(own, new) /\ SoundDirectory(own, None)
    BY <1>1, <1>2 DEF IInv, AllSound, SoundDirectory, OwnStage
  <2>2. \A kind \in Kinds, e \in Dates :
           SoundDirectory(kind, table[kind][e]) /\ SoundDirectory(kind, stage[kind][e])
    BY DEF IInv, AllSound
  <2>3. ASSUME NEW kind \in Kinds, NEW e \in Dates
        PROVE  SoundDirectory(kind, table'[kind][e]) /\ SoundDirectory(kind, stage'[kind][e])
    <3>1. CASE kind = own /\ e = d
      BY <1>4, <2>1, <3>1
    <3>2. CASE ~(kind = own /\ e = d)
      <4>1. table'[kind][e] = table[kind][e] /\ stage'[kind][e] = stage[kind][e]
        BY <1>4, <3>2
      <4>. QED
        BY <2>2, <4>1
    <3>. QED
      BY <3>1, <3>2
  <2>4. \A kind \in Kinds, e \in Dates :
           SoundDirectory(kind, table[kind][e])' /\ SoundDirectory(kind, stage[kind][e])'
    BY <2>3 DEF SoundDirectory
  <2>. QED
    BY <2>4 DEF AllSound
<1>8. /\ KnowsWhatItRead' /\ GatesHold' /\ KnowsTheFrozen'
      /\ WrittenSoFar' /\ StagedSoFar'
  BY <1>1 DEF KnowsWhatItRead, GatesHold, KnowsTheFrozen, WrittenSoFar, StagedSoFar
<1>9. Verified(own, d)' /\ \A f, g \in DOMAIN new.written : new.written[f] = new.written[g]
  <2>1. \A k \in DOMAIN Files(own) : Sealed(new, Files(own)[k])
    BY <1>1, <1>2 DEF Sealed, Names
  <2>2. Verified(own, d)'
    BY <1>1, <1>2, <1>4, <2>1 DEF Verified
  <2>3. DOMAIN new.written \subseteq Names(own)
    BY <1>1, <1>2 DEF IsDirectory
  <2>4. \A f \in Names(own) : new.written[f] = Output
    BY <1>1, <1>2
  <2>. QED
    BY <2>2, <2>3, <2>4
<1>10. ASSUME NEW kind \in Kinds, NEW e \in Built(kind)', ~(kind = own /\ e = d)
       PROVE  /\ e \in Built(kind) /\ table'[kind][e] = table[kind][e]
              /\ Verified(kind, e) => Verified(kind, e)'
  BY <1>4, <1>10 DEF Built, Verified
<1>11. PublishedIsWhole'
  <2> SUFFICES ASSUME NEW kind \in StagedKinds, NEW e \in Built(kind)'
               PROVE  /\ Verified(kind, e)'
                      /\ \A f, g \in DOMAIN table'[kind][e].written :
                            table'[kind][e].written[f] = table'[kind][e].written[g]
    BY DEF PublishedIsWhole
  <2>1. CASE kind = own /\ e = d
    BY <1>4, <1>9, <2>1
  <2>2. CASE ~(kind = own /\ e = d)
    BY <1>5, <1>10, <2>2 DEF IInv, PublishedIsWhole
  <2>. QED
    BY <2>1, <2>2
<1>12. OneDirectory'
  <2>1. "d3-protocol" \in Kinds
    BY LooksOnly
  <2>2. CASE own = "d3-protocol"
    <3>1. run.command \in Commands
      BY <1>1, <1>3, RunIs, CommandOf
    <3>2. run.command = "freeze"
      BY <1>2, <2>2, <3>1, CommandOf DEF OwnKind, Commands
    <3>3. Built("d3-protocol") = {}
      BY <1>1, <3>2 DEF IInv, GatesHold, NeverFrozen
    <3>4. \A e \in Built("d3-protocol")' : e = d
      BY <1>10, <2>1, <2>2, <3>3
    <3>. QED
      BY <3>4 DEF OneDirectory
  <2>3. CASE own # "d3-protocol"
    BY <1>4, <2>1, <2>3 DEF IInv, OneDirectory, Built
  <2>. QED
    BY <2>2, <2>3
<1>13. NoTableLeft'
  <2> SUFFICES ASSUME count.crashes = 0, NEW kind \in Kinds, NEW e \in Built(kind)'
               PROVE  Clean(kind, e)'
    BY <1>1 DEF NoTableLeft
  <2>1. CASE kind = own /\ e = d
    BY <1>9, <2>1 DEF Clean
  <2>2. CASE ~(kind = own /\ e = d)
    BY <1>2, <1>10, <2>2 DEF IInv, NoTableLeft, Clean
  <2>. QED
    BY <2>1, <2>2
<1>. QED
  BY <1>6, <1>7, <1>8, <1>11, <1>12, <1>13 DEF IInv

LEMMA StepIInv ==
    ASSUME IInv, [Next]_vars
    PROVE  IInv'
<1>1. ASSUME NEW command \in DOMAIN Command, NEW d \in Dates, Begin(command, d)
      PROVE  IInv'
  BY <1>1, BeginIInv
<1>2. CASE Work
  BY <1>2, ReadsIInv, PassGateIInv, ReadSourceIInv, RefuseTableIInv, WriteTableIInv,
     FailToWriteIInv, SealTableIInv, WriteStagedIInv, SealStagedIInv, PublishIInv DEF Work
<1>3. CASE Crash
  BY <1>3, CrashIInv
<1>4. CASE NewExtract \/ EditConfig
  <2>1. /\ UNCHANGED <<table, stage, run>>
        /\ count' = [count EXCEPT !.changes = @ + 1]
        /\ extract' \in Extracts /\ config' \in Protocols
    BY <1>4 DEF NewExtract, EditConfig, IInv, TypeOK
  <2>2. /\ count' \in [runs : Nat, crashes : Nat, changes : Nat, asides : Nat]
        /\ count'.crashes = count.crashes
    BY <2>1 DEF IInv, TypeOK
  <2>. QED
    BY <2>1, <2>2, OutsideIInv
<1>5. ASSUME NEW kind \in Kinds, NEW d \in Dates, MoveAside(kind, d)
      PROVE  IInv'
  BY <1>5, MoveAsideIInv
<1>6. CASE UNCHANGED vars
  BY <1>6, OutsideIInv DEF vars, IInv, TypeOK
<1>. QED
  BY <1>1, <1>2, <1>3, <1>4, <1>5, <1>6 DEF Next

-----------------------------------------------------------------------------
(* Whatever commands are run, cut short and run again, and whatever is      *)
(* moved aside in between, the tables stay sound and a command in progress  *)
(* knows what its output rests on: IInv, the inductive invariant.           *)
THEOREM LineageInvariance == Spec => []IInv
<1>1. Init => IInv
  BY InitIInv
<1>2. IInv /\ [Next]_vars => IInv'
  BY StepIInv
<1>. QED
  BY <1>1, <1>2, PTL DEF Spec

(* The state is what its declaration says: a directory has manifests only   *)
(* of files it has, staged or published but not both, and the command in    *)
(* progress is at a step of its plan.                                       *)
THEOREM LineageTypes == Spec => []TypeOK
<1>1. IInv => TypeOK
  BY DEF IInv
<1>. QED
  BY <1>1, LineageInvariance, PTL

LEMMA VerifiedIsSound ==
    ASSUME IInv, NEW kind \in Kinds, NEW content \in VerifiedContents(kind)
    PROVE  Sound(kind, content)
<1>1. PICK d \in Dates : /\ Verified(kind, d)
                         /\ \E f \in DOMAIN table[kind][d].written :
                               content = table[kind][d].written[f]
  BY DEF VerifiedContents
<1>2. SoundDirectory(kind, table[kind][d]) /\ table[kind][d] # None
  BY <1>1 DEF IInv, AllSound, Verified
<1>. QED
  BY <1>1, <1>2 DEF SoundDirectory

LEMMA SingleIsOne ==
    ASSUME NEW set, Single(set)
    PROVE  Cardinality(set) = 1
BY FS_Singleton DEF Single

(* A verified volume estimate, D3 input or context table rests on one Maus  *)
(* extract, for any set of extracts: derive-dea-volume, build-d3-inputs and *)
(* the context builds cannot mix two.  (apply-d3-threshold can.)            *)
THEOREM JoinsRestOnOneExtract == Spec => []OneExtract
<1>1. ASSUME IInv
      PROVE  OneExtract
  <2> SUFFICES ASSUME NEW kind \in {"volume", "d3-inputs", "climate", "fire"},
                      NEW content \in VerifiedContents(kind)
               PROVE  Cardinality(content.extracts) = 1
    BY DEF OneExtract
  <2>1. kind \in Kinds
    BY DEF Kinds, StagedKinds
  <2>2. Sound(kind, content)
    BY <1>1, <2>1, VerifiedIsSound
  <2>3. Single(content.extracts)
    BY <2>2 DEF Sound
  <2>. QED
    BY <2>3, SingleIsOne
<1>. QED
  BY <1>1, LineageInvariance, PTL

(* The support, the threshold and an eligible register were made under one  *)
(* protocol, however often one was moved aside and another frozen.          *)
THEOREM VerdictsRestOnOneProtocol == Spec => []OneProtocol
<1>1. ASSUME IInv
      PROVE  OneProtocol
  <2>1. ASSUME NEW kind \in {"d3-inputs", "d3-threshold"},
               NEW content \in VerifiedContents(kind)
        PROVE  Cardinality(content.protocols) = 1
    <3>1. kind \in Kinds /\ kind \in StagedKinds
      BY DEF Kinds, StagedKinds
    <3>2. Sound(kind, content)
      BY <1>1, <2>1, <3>1, VerifiedIsSound
    <3>3. Single(content.protocols)
      BY <3>1, <3>2 DEF Sound
    <3>. QED
      BY <3>3, SingleIsOne
  <2>2. ASSUME NEW content \in VerifiedContents("register"), content.level = 2
        PROVE  Cardinality(content.protocols) = 1
    <3>1. Sound("register", content)
      BY <1>1, <2>2, LooksOnly, VerifiedIsSound
    <3>2. Single(content.protocols)
      BY <2>2, <3>1 DEF Sound
    <3>. QED
      BY <3>2, SingleIsOne
  <2>. QED
    BY <2>1, <2>2 DEF OneProtocol
<1>. QED
  BY <1>1, LineageInvariance, PTL

(* freeze-d3-protocol never leaves two frozen protocols, at any two dates.  *)
THEOREM NeverTwoFrozen == Spec => []SingleLineage
<1>1. ASSUME IInv
      PROVE  SingleLineage
  <2>1. CASE Built("d3-protocol") = {}
    <3>1. Cardinality(Built("d3-protocol")) = 0
      BY <2>1, FS_EmptySet
    <3>. QED
      BY <3>1 DEF SingleLineage
  <2>2. CASE Built("d3-protocol") # {}
    <3>1. Single(Built("d3-protocol"))
      BY <1>1, <2>2 DEF IInv, OneDirectory, Single
    <3>2. Cardinality(Built("d3-protocol")) = 1
      BY <3>1, SingleIsOne
    <3>. QED
      BY <3>2 DEF SingleLineage
  <2>. QED
    BY <2>1, <2>2
<1>. QED
  BY <1>1, LineageInvariance, PTL

(* What os.replace puts into place has every file, each with the manifest   *)
(* of its bytes, all of one run, whatever <date>.tmp held before it.        *)
THEOREM PublishedWhole == Spec => []PublishedIsWhole
<1>1. IInv => PublishedIsWhole
  BY DEF IInv
<1>. QED
  BY <1>1, LineageInvariance, PTL

(* Without a death, no command leaves a table that lacks a manifest, but    *)
(* for a release whose write failed, and that has no manifest at all.       *)
THEOREM RefusalsAreClean == Spec => []RefusalsLeaveNoTable
<1>1. IInv => RefusalsLeaveNoTable
  BY DEF IInv, NoTableLeft, Clean, RefusalsLeaveNoTable
<1>. QED
  BY <1>1, LineageInvariance, PTL

-----------------------------------------------------------------------------
(* What a step may change of the tables: the unverified directory of a      *)
(* command that writes in place, an absent one, or one moved aside.         *)
LEMMA WritingIsUnverified ==
    ASSUME IInv, RefuseTable \/ WriteTable \/ FailToWrite \/ SealTable
    PROVE  /\ run # None /\ OwnKind \notin StagedKinds
           /\ ~Verified(OwnKind, run.date)
           /\ \E new : table' = Changed(table, new)
<1>1. At("write") \/ At("seal")
  BY DEF RefuseTable, WriteTable, FailToWrite, SealTable
<1>2. TypeOK /\ run # None /\ (Writing \/ Sealing)
  BY <1>1, WhereAt DEF IInv
<1>3. Kind = OwnKind /\ OwnKind \notin StagedKinds
  BY <1>2 DEF Writing, Sealing
<1>4. PICK b, n, at : b = Looks /\ n = Len(OwnFiles) /\ at = run.at
  OBVIOUS
<1>5. b \in Nat \ {0} /\ n \in 1 .. 2 /\ DOMAIN OwnFiles = 1 .. n
  BY <1>2, <1>4, RunIs
<1>6. PICK i \in 1 .. n : at = b + i \/ at = b + (n + i)
  BY <1>2, <1>4 DEF Writing, Sealing
<1>7. at > b /\ at <= b + n + i
  BY <1>5, <1>6
<1>8. Cleared
  BY <1>2, <1>4, <1>7, DidClear
<1>9. Own = None \/ OwnFiles[i] \notin DOMAIN Own.sealed
  BY <1>2, <1>3, <1>4, <1>5, <1>7, <1>8 DEF IInv, WrittenSoFar
<1>10. ~Verified(OwnKind, run.date)
  BY <1>5, <1>9 DEF Verified, Sealed, Own, OwnFiles
<1>11. \E new : table' = Put(table, run.date, new)
  BY DEF RefuseTable, WriteTable, FailToWrite, SealTable
<1>12. \E new : table' = Changed(table, new)
  BY <1>3, <1>11 DEF Put, Changed
<1>. QED
  BY <1>2, <1>3, <1>10, <1>12

LEMMA MovedAsideIs ==
    ASSUME TypeOK, NEW kind \in Kinds, NEW d \in Dates, MoveAside(kind, d)
    PROVE  \A k \in Kinds, e \in Dates : table'[k][e] \in {table[k][e], None}
<1>1. table' = [table EXCEPT ![kind][d] = None]
  BY DEF MoveAside
<1>2. DOMAIN table = Kinds /\ \A k \in Kinds : DOMAIN table[k] = Dates
  BY DEF TypeOK
<1>. QED
  BY <1>1, <1>2

LEMMA TableChanges ==
    ASSUME IInv, Next
    PROVE  \/ table' = table
           \/ RefuseTable \/ WriteTable \/ FailToWrite \/ SealTable
           \/ Publish
           \/ \A kind \in Kinds, d \in Dates : table'[kind][d] \in {table[kind][d], None}
<1>1. ASSUME NEW command \in DOMAIN Command, NEW d \in Dates, Begin(command, d)
      PROVE  table' = table
  BY <1>1 DEF Begin
<1>2. ASSUME ReadLatest \/ PeekLatest \/ ReadDated \/ PassGate \/ ReadSource
      PROVE  table' = table
  BY <1>2 DEF ReadLatest, PeekLatest, ReadDated, PassGate, ReadSource
<1>3. ASSUME WriteStaged \/ SealStaged
      PROVE  table' = table
  BY <1>3 DEF WriteStaged, SealStaged
<1>4. ASSUME Crash \/ NewExtract \/ EditConfig
      PROVE  table' = table
  BY <1>4 DEF Crash, NewExtract, EditConfig
<1>5. ASSUME NEW kind \in Kinds, NEW d \in Dates, MoveAside(kind, d)
      PROVE  \A k \in Kinds, e \in Dates : table'[k][e] \in {table[k][e], None}
  BY <1>5, MovedAsideIs DEF IInv
<1>. QED
  BY <1>1, <1>2, <1>3, <1>4, <1>5 DEF Next, Work

(* A dated table never changes once it is sealed: no build, re-run, refused *)
(* or cut short, rewrites a file or a manifest of it.                       *)
THEOREM SealedStays == Spec => SealedIsImmutable
<1>1. ASSUME IInv, Next, NEW kind \in Kinds, NEW d \in Dates, Verified(kind, d)
      PROVE  table'[kind][d] \in {table[kind][d], None}
  <2>1. TypeOK /\ table[kind][d] # None
    BY <1>1 DEF IInv, Verified
  <2>2. CASE table' = table
    BY <2>2
  <2>3. CASE RefuseTable \/ WriteTable \/ FailToWrite \/ SealTable
    <3>1. /\ run # None /\ OwnKind \notin StagedKinds
          /\ ~Verified(OwnKind, run.date)
          /\ \E new : table' = Changed(table, new)
      BY <1>1, <2>3, WritingIsUnverified
    <3>2. ~(kind = OwnKind /\ d = run.date)
      BY <1>1, <3>1
    <3>3. table'[kind][d] = table[kind][d]
      BY <2>1, <3>1, <3>2, ChangedIs
    <3>. QED
      BY <3>3
  <2>4. CASE Publish
    <3>1. run # None /\ Own = None /\ table' = Changed(table, OwnStage)
      BY <1>1, <2>4, PublishIs
    <3>2. ~(kind = OwnKind /\ d = run.date)
      BY <2>1, <3>1 DEF Own
    <3>3. table'[kind][d] = table[kind][d]
      BY <2>1, <3>1, <3>2, ChangedIs
    <3>. QED
      BY <3>3
  <2>5. CASE \A k \in Kinds, e \in Dates : table'[k][e] \in {table[k][e], None}
    BY <2>5
  <2>. QED
    BY <1>1, <2>2, <2>3, <2>4, <2>5, TableChanges
<1>2. IInv /\ [Next]_vars =>
         [\A kind \in Kinds, d \in Dates :
             Verified(kind, d) => table'[kind][d] \in {table[kind][d], None}]_vars
  BY <1>1
<1>. QED
  BY <1>2, LineageInvariance, PTL DEF Spec, SealedIsImmutable

(* What build-d3-inputs and derive-d3-threshold compute was computed under  *)
(* the protocol that is frozen while they publish it.                       *)
LEMMA OutputIsOfTheFrozen ==
    ASSUME IInv, run # None, run.at > Looks,
           OwnKind \in {"d3-inputs", "d3-threshold"}
    PROVE  \E e \in Built("d3-protocol") :
              Output.protocols = table["d3-protocol"][e].written["table"].protocols
<1>1. TypeOK /\ run.command \in Commands
  BY RunIs, CommandOf DEF IInv
<1>2. \/ run.command = "inputs" /\ OwnKind = "d3-inputs"
      \/ run.command = "derive" /\ OwnKind = "d3-threshold"
  BY <1>1, CommandOf DEF OwnKind, Commands
<1>3. PICK b : b = Looks
  OBVIOUS
<1>4. run.command = "inputs" => b = 13 /\ Before(run.command)[3] = Read("d3-protocol", "table")
  BY <1>3, StepsOfBuildInputs DEF Looks
<1>5. run.command = "derive" => b = 8 /\ Before(run.command)[3] = Read("d3-protocol", "table")
  BY <1>3, StepsOfDeriveThreshold DEF Looks
<1>6. 3 \in 1 .. b
  BY <1>2, <1>4, <1>5
<1>7. Did(Read("d3-protocol", "table"))
  BY <1>1, <1>2, <1>3, <1>4, <1>5, <1>6, DidAll
<1>8. PICK e \in Built("d3-protocol") :
         run.in["d3-protocol"] = table["d3-protocol"][e].written["table"]
  BY <1>7 DEF IInv, KnowsTheFrozen
<1>9. Output.protocols = run.in["d3-protocol"].protocols
  <2>1. CASE run.command = "inputs"
    BY <2>1, OutputOf DEF Plain
  <2>2. CASE run.command = "derive"
    <3>1. run.at > 8
      BY <1>3, <1>5, <2>2
    <3>2. run.in["d3-inputs"].protocols = run.in["d3-protocol"].protocols
      BY <2>2, <3>1 DEF IInv, GatesHold, InputsOfFrozen, InProtocols
    <3>3. PICK both : both = run.in["d3-protocol"].protocols
                                \cup run.in["d3-inputs"].protocols
      OBVIOUS
    <3>4. Output = [Plain EXCEPT !.protocols = both]
      BY <2>2, <3>3, OutputOf
    <3>5. Output.protocols = both
      BY <3>4 DEF Plain
    <3>. QED
      BY <3>2, <3>3, <3>5
  <2>. QED
    BY <1>2, <2>1, <2>2
<1>. QED
  BY <1>8, <1>9

(* "No accuracy result may change sample definitions or criteria after      *)
(* freezing": the support and the threshold appear only while the protocol  *)
(* they were computed under is the frozen one, whatever the operator moved  *)
(* aside and froze before the command began.                                *)
THEOREM JudgedUnderTheFrozen == Spec => JudgedUnderTheFrozenProtocol
<1> DEFINE D3 == {"d3-inputs", "d3-threshold"}
<1>1. ASSUME IInv, Next, NEW kind \in D3, NEW d \in Dates,
             table[kind][d] = None, table'[kind][d] # None,
             NEW f \in DOMAIN table'[kind][d].written
      PROVE  \E e \in Built("d3-protocol") :
                table'[kind][d].written[f].protocols
                    = table["d3-protocol"][e].written["table"].protocols
  <2>1. TypeOK /\ kind \in StagedKinds /\ kind \in Kinds
    BY <1>1 DEF IInv, Kinds, StagedKinds
  <2>2. ~(RefuseTable \/ WriteTable \/ FailToWrite \/ SealTable)
    <3> SUFFICES ASSUME RefuseTable \/ WriteTable \/ FailToWrite \/ SealTable
                 PROVE  FALSE
      OBVIOUS
    <3>1. /\ run # None /\ OwnKind \notin StagedKinds
          /\ \E new : table' = Changed(table, new)
      BY <1>1, WritingIsUnverified
    <3>2. table'[kind] = table[kind]
      BY <2>1, <3>1, ChangedIs
    <3>. QED
      BY <1>1, <3>2
  <2>3. Publish
    BY <1>1, <2>1, <2>2, TableChanges
  <2>4. /\ run # None /\ run.at > Looks
        /\ table' = Changed(table, OwnStage)
        /\ IsDirectory(OwnKind, OwnStage)
        /\ \A g \in Names(OwnKind) : OwnStage.written[g] = Output
    BY <1>1, <2>3, PublishIs
  <2>5. kind = OwnKind /\ d = run.date /\ table'[kind][d] = OwnStage
    BY <1>1, <2>1, <2>4, ChangedIs
  <2>6. table'[kind][d].written[f] = Output
    BY <1>1, <2>4, <2>5 DEF IsDirectory
  <2>. QED
    BY <1>1, <2>4, <2>5, <2>6, OutputIsOfTheFrozen
<1>2. IInv /\ [Next]_vars =>
         [\A kind \in {"d3-inputs", "d3-threshold"}, d \in Dates :
             table[kind][d] = None /\ table'[kind][d] # None =>
                 \A f \in DOMAIN table'[kind][d].written :
                     \E e \in Built("d3-protocol") :
                         table'[kind][d].written[f].protocols
                             = table["d3-protocol"][e].written["table"].protocols]_vars
  BY <1>1
<1>. QED
  BY <1>2, LineageInvariance, PTL DEF Spec, JudgedUnderTheFrozenProtocol

=============================================================================
