--------------------------- MODULE SiloFetchProofs ----------------------------
(***************************************************************************)
(* Proofs about SiloFetch, for every set of years and ranges, every        *)
(* content an object may have, and any number of crashes and alterations.  *)
(***************************************************************************)
EXTENDS SiloFetch, TLAPS

(* What a fetch in progress knows of the directory: the years it resolved   *)
(* are there, validated, with the digests it holds; the year it is at has   *)
(* the file the next step takes; nothing is finalized before its turn.      *)
(* OnlyValidatedIsHashed and ManifestDescribesSnapshot say nothing of a     *)
(* fetch in progress and are not inductive without it.                      *)
RunKnowsDirectory ==
    run # None =>
        /\ manifest = None
        /\ run.pc # "manifest" => sums = None
        /\ run.todo \subseteq run.range
        /\ DOMAIN run.assets = run.range \ run.todo
        /\ \A y \in DOMAIN run.assets :
              /\ Object(y) \in DOMAIN dir
              /\ dir[Object(y)] = run.assets[y]
              /\ run.assets[y] \in Valid
        /\ \A y \in Years : IsNext(y) =>
              /\ run.pc = "rename" => Part(y) \in DOMAIN dir
              /\ run.pc = "validate" => Object(y) \in DOMAIN dir
        /\ run.pc \in {"metadata", "finalize", "manifest"} => run.todo = {}
        /\ run.pc \in {"finalize", "manifest"} => Metadata \in DOMAIN dir
        /\ run.pc = "manifest" =>
              /\ sums = dir
              /\ DOMAIN dir = Objects(run.range) \cup {Metadata}

IInv ==
    /\ TypeOK
    /\ OnlyValidatedIsHashed
    /\ ManifestDescribesSnapshot
    /\ RunKnowsDirectory

-----------------------------------------------------------------------------
(* Facts about the data. *)

(* No two files of a snapshot share a name. *)
LEMMA NamesAreDistinct ==
    /\ \A y, z : Object(y) = Object(z) => y = z
    /\ \A y, z : Part(y) = Part(z) => y = z
    /\ \A y, z : Object(y) # Part(z)
    /\ \A y : Object(y) # Metadata /\ Part(y) # Metadata
BY DEF Object, Part, Metadata

(* A partial function is a function whose domain lies in its source. *)
LEMMA PartialFunctionElim ==
    ASSUME NEW S, NEW T, NEW f \in PartialFunctions(S, T)
    PROVE  /\ DOMAIN f \subseteq S
           /\ f \in [DOMAIN f -> T]
           /\ \A x \in DOMAIN f : f[x] \in T
<1>1. PICK D \in SUBSET S : f \in [D -> T]
  BY DEF PartialFunctions
<1>. QED
  BY <1>1

(* ... and conversely. *)
LEMMA PartialFunctionIntro ==
    ASSUME NEW S, NEW T, NEW D, D \subseteq S, NEW f \in [D -> T]
    PROVE  f \in PartialFunctions(S, T)
BY DEF PartialFunctions

(* A file written into the directory leaves a directory. *)
LEMMA PutProperties ==
    ASSUME TypeOK, NEW n \in Names, NEW c \in Contents
    PROVE  /\ Put(n, c) \in PartialFunctions(Names, Contents)
           /\ DOMAIN Put(n, c) = DOMAIN dir \cup {n}
           /\ Put(n, c)[n] = c
           /\ \A m \in DOMAIN dir : m # n => Put(n, c)[m] = dir[m]
<1>1. /\ DOMAIN dir \subseteq Names
      /\ \A m \in DOMAIN dir : dir[m] \in Contents
  BY PartialFunctionElim DEF TypeOK
<1>2. Put(n, c) \in [DOMAIN dir \cup {n} -> Contents]
  BY <1>1 DEF Put
<1>. QED
  BY <1>1, <1>2, PartialFunctionIntro DEF Put

(* There is one next year. *)
LEMMA NextIsUnique ==
    ASSUME TypeOK, run # None, NEW y, NEW z, IsNext(y), IsNext(z)
    PROVE  y = z
<1>1. y \in Nat /\ z \in Nat
  BY SiloAssumption DEF TypeOK, Run, IsNext
<1>2. y <= z /\ z <= y
  BY DEF IsNext
<1>. QED
  BY <1>1, <1>2

-----------------------------------------------------------------------------
(* What the steps have in common. *)

(* A fetch that ends without having written anything of the snapshot's      *)
(* record keeps the invariant, whatever files it leaves.                    *)
LEMMA EndIInv ==
    ASSUME IInv, run' = None, dir' \in PartialFunctions(Names, Contents),
           UNCHANGED <<sums, manifest, faults>>
    PROVE  IInv'
<1>1. TypeOK'
  BY DEF IInv, TypeOK
<1>2. OnlyValidatedIsHashed' /\ ManifestDescribesSnapshot'
  BY DEF IInv, OnlyValidatedIsHashed, ManifestDescribesSnapshot
<1>. QED
  BY <1>1, <1>2 DEF IInv, RunKnowsDirectory

(* A year resolved: the fetch knows one validated object more.              *)
LEMMA ResolveIInv ==
    ASSUME IInv, NEW y \in Years, NEW b \in BOOLEAN, run # None, IsNext(y),
           run.pc \in {"year", "validate"},
           Object(y) \in DOMAIN dir, dir[Object(y)] \in Valid,
           run' = Resolved(y, b), UNCHANGED <<dir, sums, manifest, faults>>
    PROVE  IInv'
<1> DEFINE assets == [z \in DOMAIN run.assets \cup {y} |->
                         IF z = y THEN dir[Object(y)] ELSE run.assets[z]]
<1>1. run \in Run /\ y \in run.todo
  BY DEF IInv, TypeOK, IsNext
<1>2. /\ run.assets \in PartialFunctions(Years, Bytes)
      /\ DOMAIN run.assets \subseteq Years
      /\ \A z \in DOMAIN run.assets : run.assets[z] \in Bytes
  BY <1>1, PartialFunctionElim DEF Run
<1>3. run' = [pc |-> IF run.todo = {y} THEN "metadata" ELSE "year",
              range |-> run.range, todo |-> run.todo \ {y}, assets |-> assets,
              resumed |-> IF b THEN run.resumed \cup {y} ELSE run.resumed]
  BY <1>1 DEF Resolved, Run
<1>4. assets \in PartialFunctions(Years, Bytes)
  <2>1. assets \in [DOMAIN run.assets \cup {y} -> Bytes]
    BY <1>2, SiloAssumption
  <2>. QED
    BY <1>2, <2>1, PartialFunctionIntro
<1>5. /\ DOMAIN assets = DOMAIN run.assets \cup {y}
      /\ assets[y] = dir[Object(y)]
      /\ \A z \in DOMAIN run.assets : z # y => assets[z] = run.assets[z]
  OBVIOUS
<1> HIDE DEF assets
<1>6. run' \in Run
  BY <1>1, <1>3, <1>4 DEF Run
<1>7. TypeOK'
  BY <1>6 DEF IInv, TypeOK
<1>8. OnlyValidatedIsHashed' /\ ManifestDescribesSnapshot'
  BY DEF IInv, OnlyValidatedIsHashed, ManifestDescribesSnapshot
<1>9. RunKnowsDirectory'
  <2>1. /\ manifest = None /\ sums = None
        /\ run.todo \subseteq run.range
        /\ DOMAIN run.assets = run.range \ run.todo
        /\ \A z \in DOMAIN run.assets :
              /\ Object(z) \in DOMAIN dir
              /\ dir[Object(z)] = run.assets[z]
              /\ run.assets[z] \in Valid
    BY DEF IInv, RunKnowsDirectory
  <2>2. DOMAIN assets = run.range \ (run.todo \ {y})
    BY <1>1, <1>5, <2>1
  <2>3. \A z \in DOMAIN assets :
           /\ Object(z) \in DOMAIN dir
           /\ dir[Object(z)] = assets[z]
           /\ assets[z] \in Valid
    BY <1>5, <2>1
  <2>. QED
    BY <1>3, <2>1, <2>2, <2>3 DEF RunKnowsDirectory
<1>. QED
  BY <1>7, <1>8, <1>9 DEF IInv

(* A step that moves the pc along and keeps the record of the snapshot.     *)
LEMMA StepTypeOK ==
    ASSUME TypeOK, run # None,
           NEW pc \in {"year", "rename", "validate", "metadata", "finalize", "manifest"},
           run' = [run EXCEPT !.pc = pc]
    PROVE  /\ run' \in Run
           /\ run' = [pc |-> pc, range |-> run.range, todo |-> run.todo,
                      assets |-> run.assets, resumed |-> run.resumed]
<1>1. run \in Run
  BY DEF TypeOK
<1>. QED
  BY <1>1 DEF Run

-----------------------------------------------------------------------------
(* One lemma per action. *)

LEMMA InitIInv == Init => IInv
<1> SUFFICES ASSUME Init PROVE IInv
  OBVIOUS
<1>1. TypeOK
  <2>1. dir \in [{} -> Contents]
    BY DEF Init
  <2>2. dir \in PartialFunctions(Names, Contents)
    BY <2>1, PartialFunctionIntro
  <2>. QED
    BY <2>2, SiloAssumption DEF Init, TypeOK
<1>. QED
  BY <1>1 DEF Init, IInv, OnlyValidatedIsHashed, ManifestDescribesSnapshot, RunKnowsDirectory

LEMMA BeginIInv ==
    ASSUME IInv, NEW range \in Ranges, Begin(range)
    PROVE  IInv'
<1>1. /\ run' = [pc |-> "year", range |-> range, todo |-> range,
                 assets |-> [y \in {} |-> None], resumed |-> {}]
      /\ sums = None
      /\ UNCHANGED <<dir, sums, manifest, faults>>
  BY DEF Begin, NotFinalized
<1>2. manifest = None
  BY <1>1 DEF IInv, ManifestDescribesSnapshot
<1>3. run' \in Run
  <2>1. [y \in {} |-> None] \in [{} -> Bytes]
    OBVIOUS
  <2>2. [y \in {} |-> None] \in PartialFunctions(Years, Bytes)
    BY <2>1, PartialFunctionIntro
  <2>3. range \subseteq Years
    BY SiloAssumption
  <2>. QED
    BY <1>1, <2>2, <2>3 DEF Run
<1>4. TypeOK'
  BY <1>1, <1>3 DEF IInv, TypeOK
<1>5. OnlyValidatedIsHashed' /\ ManifestDescribesSnapshot'
  BY <1>1 DEF IInv, OnlyValidatedIsHashed, ManifestDescribesSnapshot
<1>6. RunKnowsDirectory'
  BY <1>1, <1>2 DEF RunKnowsDirectory
<1>. QED
  BY <1>4, <1>5, <1>6 DEF IInv

LEMMA ResumeIInv ==
    ASSUME IInv, NEW y \in Years, Resume(y)
    PROVE  IInv'
<1>1. /\ run # None /\ run.pc = "year" /\ IsNext(y)
      /\ Object(y) \in DOMAIN dir
      /\ run' = IF dir[Object(y)] \in Valid THEN Resolved(y, TRUE) ELSE None
      /\ UNCHANGED <<dir, sums, manifest, faults>>
  BY DEF Resume, At
<1>2. CASE dir[Object(y)] \in Valid
  BY <1>1, <1>2, ResolveIInv
<1>3. CASE dir[Object(y)] \notin Valid
  BY <1>1, <1>3, EndIInv DEF IInv, TypeOK
<1>. QED
  BY <1>2, <1>3

LEMMA DownloadIInv ==
    ASSUME IInv, NEW y \in Years, NEW content \in Bytes, Download(y, content)
    PROVE  IInv'
<1>1. /\ run # None /\ run.pc = "year" /\ IsNext(y)
      /\ dir' = Put(Part(y), content)
      /\ run' = [run EXCEPT !.pc = "rename"]
      /\ UNCHANGED <<sums, manifest, faults>>
  BY DEF Download, At
<1>2. /\ dir' \in PartialFunctions(Names, Contents)
      /\ DOMAIN dir' = DOMAIN dir \cup {Part(y)}
      /\ \A m \in DOMAIN dir : m # Part(y) => dir'[m] = dir[m]
  <2>1. Part(y) \in Names /\ content \in Contents
    BY DEF Names, Contents
  <2>. QED
    BY <1>1, <2>1, PutProperties DEF IInv
<1>3. /\ run' \in Run
      /\ run' = [pc |-> "rename", range |-> run.range, todo |-> run.todo,
                 assets |-> run.assets, resumed |-> run.resumed]
  BY <1>1, StepTypeOK DEF IInv
<1>4. TypeOK'
  BY <1>1, <1>2, <1>3 DEF IInv, TypeOK
<1>5. OnlyValidatedIsHashed' /\ ManifestDescribesSnapshot'
  BY <1>1 DEF IInv, OnlyValidatedIsHashed, ManifestDescribesSnapshot
<1>6. RunKnowsDirectory'
  <2>1. \A z \in Years : IsNext(z)' => z = y
    BY <1>1, <1>3, NextIsUnique DEF IInv, IsNext
  <2>. QED
    BY <1>1, <1>2, <1>3, <2>1, NamesAreDistinct DEF IInv, RunKnowsDirectory
<1>. QED
  BY <1>4, <1>5, <1>6 DEF IInv

LEMMA DownloadFailsIInv ==
    ASSUME IInv, NEW y \in Years, DownloadFails(y)
    PROVE  IInv'
<1>1. /\ dir' \in {dir} \cup {Put(Part(y), content) : content \in Bytes}
      /\ run' = None
      /\ UNCHANGED <<sums, manifest, faults>>
  BY DEF DownloadFails
<1>2. dir' \in PartialFunctions(Names, Contents)
  <2>1. CASE dir' = dir
    BY <2>1 DEF IInv, TypeOK
  <2>2. ASSUME NEW content \in Bytes, dir' = Put(Part(y), content)
        PROVE  dir' \in PartialFunctions(Names, Contents)
    <3>1. Part(y) \in Names /\ content \in Contents
      BY DEF Names, Contents
    <3>. QED
      BY <2>2, <3>1, PutProperties DEF IInv
  <2>. QED
    BY <1>1, <2>1, <2>2
<1>. QED
  BY <1>1, <1>2, EndIInv

LEMMA RenameIInv ==
    ASSUME IInv, NEW y \in Years, Rename(y)
    PROVE  IInv'
<1>1. /\ run # None /\ run.pc = "rename" /\ IsNext(y)
      /\ dir' = [n \in (DOMAIN dir \ {Part(y)}) \cup {Object(y)} |->
                    IF n = Object(y) THEN dir[Part(y)] ELSE dir[n]]
      /\ run' = [run EXCEPT !.pc = "validate"]
      /\ UNCHANGED <<sums, manifest, faults>>
  BY DEF Rename, At
<1>2. /\ DOMAIN dir \subseteq Names
      /\ \A n \in DOMAIN dir : dir[n] \in Contents
      /\ Part(y) \in DOMAIN dir
      /\ Object(y) \in Names
  BY <1>1, PartialFunctionElim DEF IInv, TypeOK, RunKnowsDirectory, Names
<1>3. /\ dir' \in PartialFunctions(Names, Contents)
      /\ DOMAIN dir' = (DOMAIN dir \ {Part(y)}) \cup {Object(y)}
      /\ \A n \in DOMAIN dir : n # Part(y) /\ n # Object(y) => dir'[n] = dir[n]
  <2>1. dir' \in [(DOMAIN dir \ {Part(y)}) \cup {Object(y)} -> Contents]
    BY <1>1, <1>2
  <2>. QED
    BY <1>1, <1>2, <2>1, PartialFunctionIntro
<1>4. /\ run' \in Run
      /\ run' = [pc |-> "validate", range |-> run.range, todo |-> run.todo,
                 assets |-> run.assets, resumed |-> run.resumed]
  BY <1>1, StepTypeOK DEF IInv
<1>5. TypeOK'
  BY <1>1, <1>3, <1>4 DEF IInv, TypeOK
<1>6. OnlyValidatedIsHashed' /\ ManifestDescribesSnapshot'
  BY <1>1 DEF IInv, OnlyValidatedIsHashed, ManifestDescribesSnapshot
<1>7. RunKnowsDirectory'
  <2>1. \A z \in Years : IsNext(z)' => z = y
    BY <1>1, <1>4, NextIsUnique DEF IInv, IsNext
  <2>2. y \notin DOMAIN run.assets
    BY <1>1 DEF IInv, RunKnowsDirectory, IsNext
  <2>3. \A z \in DOMAIN run.assets :
           /\ Object(z) \in DOMAIN dir'
           /\ dir'[Object(z)] = run.assets[z]
           /\ run.assets[z] \in Valid
    BY <1>1, <1>3, <2>2, NamesAreDistinct DEF IInv, RunKnowsDirectory
  <2>4. /\ manifest = None /\ sums = None
        /\ run.todo \subseteq run.range
        /\ DOMAIN run.assets = run.range \ run.todo
    BY <1>1 DEF IInv, RunKnowsDirectory
  <2>. QED
    BY <1>1, <1>3, <1>4, <2>1, <2>3, <2>4 DEF RunKnowsDirectory
<1>. QED
  BY <1>5, <1>6, <1>7 DEF IInv

LEMMA ValidateIInv ==
    ASSUME IInv, NEW y \in Years, Validate(y)
    PROVE  IInv'
<1>1. /\ run # None /\ run.pc = "validate" /\ IsNext(y)
      /\ run' = IF dir[Object(y)] \in Valid THEN Resolved(y, FALSE) ELSE None
      /\ UNCHANGED <<dir, sums, manifest, faults>>
  BY DEF Validate, At
<1>2. Object(y) \in DOMAIN dir
  BY <1>1 DEF IInv, RunKnowsDirectory
<1>3. CASE dir[Object(y)] \in Valid
  BY <1>1, <1>2, <1>3, ResolveIInv
<1>4. CASE dir[Object(y)] \notin Valid
  BY <1>1, <1>4, EndIInv DEF IInv, TypeOK
<1>. QED
  BY <1>3, <1>4

LEMMA WriteMetadataIInv ==
    ASSUME IInv, WriteMetadata
    PROVE  IInv'
<1>1. /\ run # None /\ run.pc = "metadata"
      /\ dir' = Put(Metadata, Text)
      /\ run' = [run EXCEPT !.pc = "finalize"]
      /\ UNCHANGED <<sums, manifest, faults>>
  BY DEF WriteMetadata, At
<1>2. /\ dir' \in PartialFunctions(Names, Contents)
      /\ DOMAIN dir' = DOMAIN dir \cup {Metadata}
      /\ \A m \in DOMAIN dir : m # Metadata => dir'[m] = dir[m]
  <2>1. Metadata \in Names /\ Text \in Contents
    BY DEF Names, Contents
  <2>. QED
    BY <1>1, <2>1, PutProperties DEF IInv
<1>3. /\ run' \in Run
      /\ run' = [pc |-> "finalize", range |-> run.range, todo |-> run.todo,
                 assets |-> run.assets, resumed |-> run.resumed]
  BY <1>1, StepTypeOK DEF IInv
<1>4. TypeOK'
  BY <1>1, <1>2, <1>3 DEF IInv, TypeOK
<1>5. OnlyValidatedIsHashed' /\ ManifestDescribesSnapshot'
  BY <1>1 DEF IInv, OnlyValidatedIsHashed, ManifestDescribesSnapshot
<1>6. RunKnowsDirectory'
  BY <1>1, <1>2, <1>3, NamesAreDistinct DEF IInv, RunKnowsDirectory
<1>. QED
  BY <1>4, <1>5, <1>6 DEF IInv

(* What is hashed: the validated objects of the range, and metadata.txt.    *)
LEMMA HashedIsValidated ==
    ASSUME IInv, run # None, run.pc = "finalize", Unexpected(run.range) = {}
    PROVE  /\ DOMAIN dir = Objects(run.range) \cup {Metadata}
           /\ DOMAIN run.assets = run.range
           /\ \A n \in DOMAIN dir \ {Metadata} :
                 n \in Objects(Years) /\ dir[n] \in Valid
<1>1. /\ run.range \subseteq Years
      /\ DOMAIN run.assets = run.range
      /\ Metadata \in DOMAIN dir
      /\ \A y \in run.range : Object(y) \in DOMAIN dir /\ dir[Object(y)] \in Valid
  BY SiloAssumption DEF IInv, TypeOK, Run, RunKnowsDirectory
<1>2. DOMAIN dir \subseteq Objects(run.range) \cup {Metadata}
  BY DEF Unexpected
<1>. QED
  BY <1>1, <1>2 DEF Objects

LEMMA FinalizeIInv ==
    ASSUME IInv, Finalize
    PROVE  IInv'
<1>1. /\ run # None /\ run.pc = "finalize"
      /\ UNCHANGED <<dir, manifest, faults>>
  BY DEF Finalize, At
<1>2. CASE Unexpected(run.range) = {}
  <2>1. sums' = dir /\ run' = [run EXCEPT !.pc = "manifest"]
    BY <1>2 DEF Finalize, Hashed
  <2>2. /\ run' \in Run
        /\ run' = [pc |-> "manifest", range |-> run.range, todo |-> run.todo,
                   assets |-> run.assets, resumed |-> run.resumed]
    BY <1>1, <2>1, StepTypeOK DEF IInv
  <2>3. TypeOK'
    BY <1>1, <2>1, <2>2 DEF IInv, TypeOK
  <2>4. OnlyValidatedIsHashed'
    BY <1>1, <1>2, <2>1, HashedIsValidated DEF OnlyValidatedIsHashed
  <2>5. manifest = None
    BY <1>1 DEF IInv, RunKnowsDirectory
  <2>6. RunKnowsDirectory'
    BY <1>1, <1>2, <2>1, <2>2, <2>5, HashedIsValidated DEF IInv, RunKnowsDirectory
  <2>. QED
    BY <1>1, <2>3, <2>4, <2>5, <2>6 DEF IInv, ManifestDescribesSnapshot
<1>3. CASE Unexpected(run.range) # {}
  BY <1>1, <1>3, EndIInv DEF Finalize, IInv, TypeOK
<1>. QED
  BY <1>2, <1>3

LEMMA WriteManifestIInv ==
    ASSUME IInv, WriteManifest
    PROVE  IInv'
<1>1. /\ run # None /\ run.pc = "manifest"
      /\ manifest' = [range |-> run.range, assets |-> run.assets,
                      resumed |-> run.resumed]
      /\ run' = None
      /\ UNCHANGED <<dir, sums, faults>>
  BY DEF WriteManifest, At
<1>2. manifest' \in Manifest
  BY <1>1 DEF IInv, TypeOK, Run, Manifest
<1>3. TypeOK'
  BY <1>1, <1>2 DEF IInv, TypeOK
<1>4. OnlyValidatedIsHashed'
  BY <1>1 DEF IInv, OnlyValidatedIsHashed
<1>5. ManifestDescribesSnapshot'
  <2>1. /\ sums = dir
        /\ DOMAIN dir = Objects(run.range) \cup {Metadata}
        /\ DOMAIN run.assets = run.range
        /\ \A y \in run.range : dir[Object(y)] = run.assets[y]
    BY <1>1 DEF IInv, RunKnowsDirectory
  <2>2. sums # None
    BY <2>1, AbsentAssumption DEF IInv, TypeOK
  <2>. QED
    BY <1>1, <2>1, <2>2 DEF ManifestDescribesSnapshot
<1>. QED
  BY <1>1, <1>3, <1>4, <1>5 DEF IInv, RunKnowsDirectory

LEMMA CrashIInv ==
    ASSUME IInv, Crash
    PROVE  IInv'
<1>1. /\ run # None
      /\ faults.crash < MaxCrashes
      /\ run' = None
      /\ faults' = [faults EXCEPT !.crash = @ + 1]
      /\ UNCHANGED <<dir, manifest>>
  BY DEF Crash
<1>2. faults' \in [crash : 0 .. MaxCrashes, alter : 0 .. MaxAlterations]
  BY <1>1, SiloAssumption DEF IInv, TypeOK
<1>3. CASE sums' = sums
  BY <1>1, <1>2, <1>3
  DEF IInv, TypeOK, OnlyValidatedIsHashed, ManifestDescribesSnapshot, RunKnowsDirectory
<1>4. ASSUME NEW lines \in SUBSET DOMAIN Hashed, sums' = Restrict(Hashed, lines),
             run.pc = "finalize", Unexpected(run.range) = {}
      PROVE  IInv'
  <2>1. /\ lines \subseteq DOMAIN dir
        /\ sums' = [n \in lines |-> dir[n]]
    BY <1>4 DEF Hashed, Restrict
  <2>2. sums' \in PartialFunctions(Names, Contents)
    <3>1. DOMAIN dir \subseteq Names /\ \A n \in DOMAIN dir : dir[n] \in Contents
      BY PartialFunctionElim DEF IInv, TypeOK
    <3>2. sums' \in [lines -> Contents]
      BY <2>1, <3>1
    <3>. QED
      BY <2>1, <3>1, <3>2, PartialFunctionIntro
  <2>3. TypeOK'
    BY <1>1, <1>2, <2>2 DEF IInv, TypeOK
  <2>4. OnlyValidatedIsHashed'
    BY <1>1, <1>4, <2>1, HashedIsValidated DEF OnlyValidatedIsHashed
  <2>5. manifest = None
    BY <1>1 DEF IInv, RunKnowsDirectory
  <2>. QED
    BY <1>1, <2>3, <2>4, <2>5 DEF IInv, ManifestDescribesSnapshot, RunKnowsDirectory
<1>. QED
  BY <1>3, <1>4 DEF Crash

LEMMA DeleteIInv ==
    ASSUME IInv, NEW n \in Names, Delete(n)
    PROVE  IInv'
<1>1. /\ run = None /\ sums = None
      /\ dir' = Restrict(dir, DOMAIN dir \ {n})
      /\ UNCHANGED <<sums, manifest, run, faults>>
  BY DEF Delete
<1>2. dir' \in PartialFunctions(Names, Contents)
  <2>1. DOMAIN dir \subseteq Names /\ \A m \in DOMAIN dir : dir[m] \in Contents
    BY PartialFunctionElim DEF IInv, TypeOK
  <2>2. dir' \in [DOMAIN dir \ {n} -> Contents]
    BY <1>1, <2>1 DEF Restrict
  <2>. QED
    BY <2>1, <2>2, PartialFunctionIntro
<1>. QED
  BY <1>1, <1>2, EndIInv

LEMMA AlterIInv ==
    ASSUME IInv, NEW y \in Years, Alter(y)
    PROVE  IInv'
<1>1. PICK content \in Bytes : dir' = [dir EXCEPT ![Object(y)] = content]
  BY DEF Alter
<1>2. /\ run = None /\ faults.alter < MaxAlterations
      /\ faults' = [faults EXCEPT !.alter = @ + 1]
      /\ UNCHANGED <<sums, manifest, run>>
  BY DEF Alter
<1>3. dir' \in PartialFunctions(Names, Contents)
  <2>1. /\ DOMAIN dir \subseteq Names
        /\ dir \in [DOMAIN dir -> Contents]
    BY PartialFunctionElim DEF IInv, TypeOK
  <2>2. dir' \in [DOMAIN dir -> Contents]
    BY <1>1, <2>1 DEF Contents
  <2>. QED
    BY <2>1, <2>2, PartialFunctionIntro
<1>4. faults' \in [crash : 0 .. MaxCrashes, alter : 0 .. MaxAlterations]
  BY <1>2, SiloAssumption DEF IInv, TypeOK
<1>5. TypeOK'
  BY <1>2, <1>3, <1>4 DEF IInv, TypeOK
<1>. QED
  BY <1>2, <1>5
  DEF IInv, OnlyValidatedIsHashed, ManifestDescribesSnapshot, RunKnowsDirectory

LEMMA StutterIInv ==
    ASSUME IInv, UNCHANGED vars
    PROVE  IInv'
BY DEF IInv, vars, TypeOK, OnlyValidatedIsHashed, ManifestDescribesSnapshot,
       RunKnowsDirectory, IsNext

LEMMA NextIInv == IInv /\ [Next]_vars => IInv'
<1> SUFFICES ASSUME IInv, [Next]_vars PROVE IInv'
  OBVIOUS
<1>1. ASSUME NEW y \in Years, FetchYear(y)
      PROVE  IInv'
  BY <1>1, ResumeIInv, DownloadIInv, DownloadFailsIInv, RenameIInv, ValidateIInv
  DEF FetchYear
<1>. QED
  BY <1>1, BeginIInv, WriteMetadataIInv, FinalizeIInv, WriteManifestIInv, CrashIInv,
     DeleteIInv, AlterIInv, StutterIInv DEF Next, Fetch

-----------------------------------------------------------------------------
(* The inductive invariant holds in every reachable state of fetch-silo.    *)
THEOREM Invariance == Spec => []IInv
<1>1. Init => IInv
  BY InitIInv
<1>2. IInv /\ [Next]_vars => IInv'
  BY NextIInv
<1>. QED
  BY <1>1, <1>2, PTL DEF Spec

(* The directory, SHA256SUMS.txt, the manifest and the fetch in progress    *)
(* keep their types.                                                        *)
THEOREM TypeCorrect == Spec => []TypeOK
BY Invariance, PTL DEF IInv

(* Nothing is hashed but metadata.txt and objects that passed               *)
(* validate_daily_rain_file.                                                *)
THEOREM ValidatedOnly == Spec => []OnlyValidatedIsHashed
BY Invariance, PTL DEF IInv

(* A manifest and its SHA256SUMS.txt describe the same files.               *)
THEOREM ManifestIsTrue == Spec => []ManifestDescribesSnapshot
BY Invariance, PTL DEF IInv

(* No run of the command, first or repeated, changes a finalized snapshot.  *)
THEOREM Frozen == Spec => FinalizedIsFrozen
<1>1. ASSUME IInv, Next, sums # None
      PROVE  /\ sums' = sums
             /\ dir' = dir \/ faults'.alter # faults.alter
             /\ manifest # None => manifest' = manifest
  <2>1. run # None => run.pc = "manifest" /\ manifest = None
    BY <1>1 DEF IInv, RunKnowsDirectory
  <2>2. ASSUME NEW y \in Years, Alter(y)
        PROVE  faults'.alter # faults.alter /\ UNCHANGED <<sums, manifest>>
    BY <1>1, <2>2, SiloAssumption DEF Alter, IInv, TypeOK
  <2>3. ASSUME NEW range \in Ranges, Begin(range)
        PROVE  FALSE
    BY <1>1, <2>3 DEF Begin, NotFinalized
  <2>4. ASSUME NEW n \in Names, Delete(n)
        PROVE  FALSE
    BY <1>1, <2>4 DEF Delete
  <2>5. ASSUME NEW y \in Years, FetchYear(y)
        PROVE  FALSE
    BY <2>1, <2>5 DEF FetchYear, Resume, Download, DownloadFails, Rename, Validate, At
  <2>6. ~WriteMetadata /\ ~Finalize
    BY <2>1 DEF WriteMetadata, Finalize, At
  <2>7. CASE WriteManifest
    BY <2>1, <2>7 DEF WriteManifest, At
  <2>8. CASE Crash
    BY <2>1, <2>8 DEF Crash
  <2>. QED
    BY <1>1, <2>2, <2>3, <2>4, <2>5, <2>6, <2>7, <2>8 DEF Next, Fetch
<1>2. IInv /\ [Next]_vars =>
         [sums # None =>
             /\ sums' = sums
             /\ dir' = dir \/ faults'.alter # faults.alter
             /\ manifest # None => manifest' = manifest]_vars
  BY <1>1
<1>. QED
  BY <1>2, Invariance, PTL DEF Spec, FinalizedIsFrozen

=============================================================================
