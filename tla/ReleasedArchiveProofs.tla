------------------------ MODULE ReleasedArchiveProofs ------------------------
(***************************************************************************)
(* For every set of components and targets, any number of attempts, faults  *)
(* and revisions:                                                          *)
(*   - the suites of every component in a published archive have passed, and *)
(*     its binaries load nothing from outside it but what is part of the     *)
(*     operating system.  The native gate looks at the suites once; the      *)
(*     argument follows the dists from there through the packager, the final *)
(*     aggregate and the release, over the artifacts that earlier attempts   *)
(*     have left;                                                          *)
(*   - the uploaded set is complete and of one resolution, a release that    *)
(*     has succeeded agrees with its checksums and is of the revisions last  *)
(*     resolved: while a job stands as a success, what it uploaded is what   *)
(*     the jobs after it have read;                                        *)
(*   - an attempt in which nothing goes wrong publishes: what each job makes *)
(*     of good inputs passes every check that comes after it.              *)
(***************************************************************************)
EXTENDS ReleasePipelineProofs, PackagingProofs, FiniteSetTheorems

NativeSummary == <<"native-summary">>

DistTested(c, t) ==
    /\ <<"components", c, t>> \in DOMAIN artifacts
    /\ SuitesPass(artifacts[<<"components", c, t>>][TestResults], c)

\* While the native gate stands, the dists are the ones it has seen.
GateInv ==
    job[NativeSummary] = "success" =>
        /\ Ended("components")
        /\ \A c \in Components, t \in Targets : DistTested(c, t)

ArchiveTested(archive) ==
    \A c \in Components : SuitesPass(archive.files[Packaged(c, TestResults)], c)

\* The archive of a platform's result, if it has one that can be read.
RuntimeTested(result) ==
    result.archive = None \/ result.archive.files = << >> \/ ArchiveTested(result.archive)

\* It has the binaries the packager accepted, and is attested only if they have their ABI.
RuntimeAgrees(t, result) ==
    \/ result.archive = None
    \/ result.archive.files = << >>
    \/ /\ Agrees(t, result.archive)
       /\ result.attestation.status = "PASS" => Identified(result.archive)

RuntimeInv ==
    \A t \in Targets : <<"darkpanda", t>> \in DOMAIN artifacts =>
        /\ RuntimeTested(artifacts[<<"darkpanda", t>>])
        /\ RuntimeAgrees(t, artifacts[<<"darkpanda", t>>])

WheelNamed(result) == result.wheel = None \/ result.wheel.name[1] = "py_darkpanda"

WheelInv ==
    \A t \in Targets : <<"python", t>> \in DOMAIN artifacts =>
        WheelNamed(artifacts[<<"python", t>>])

Portable(archive) ==
    /\ \A n \in Runtime(archive.name[2]) : SelfContained(archive.name[2], archive.files[Bin(n)].image)
    /\ Identified(archive)

FilesGood(files) ==
    \A n \in DOMAIN files :
        n[1] = "darkpanda" => ArchiveTested(files[n].file) /\ Portable(files[n].file)

SetInv == Has(Prebuilt) => FilesGood(artifacts[Prebuilt].files)

\* The set is there for the release, and its uploads are of the set.
PrebuiltInv ==
    /\ job[<<"aggregate">>] = "success" => Has(Prebuilt)
    /\ job[<<"release">>] = "running" => uploads \subseteq DOMAIN Assets

TestedInv ==
    /\ GateInv
    /\ RuntimeInv
    /\ WheelInv
    /\ SetInv
    /\ PrebuiltInv
    /\ FilesGood(release)

-----------------------------------------------------------------------------
(* Artifacts. *)

\* The artifacts whose names begin with a kind are left as they are.
Leaves(kind) ==
    \A n : n[1] = kind =>
        /\ n \in DOMAIN artifacts' <=> n \in DOMAIN artifacts
        /\ n \in DOMAIN artifacts => artifacts'[n] = artifacts[n]

LEMMA StoreEffect ==
    ASSUME NEW name, NEW content, Store(name, content)
    PROVE  /\ DOMAIN artifacts' = {name} \cup DOMAIN artifacts
           /\ artifacts'[name] = content
           /\ \A n \in DOMAIN artifacts : n # name => artifacts'[n] = artifacts[n]
BY DEF Store, File, ++

LEMMA StoreLeaves ==
    ASSUME NEW name, NEW content, Store(name, content), NEW kind, name[1] # kind
    PROVE  Leaves(kind)
BY ZenonT(60), StoreEffect DEF Leaves

LEMMA UnchangedLeaves ==
    ASSUME UNCHANGED artifacts
    PROVE  \A kind : Leaves(kind)
BY DEF Leaves

-----------------------------------------------------------------------------
(* What the operators on artifacts preserve. *)

\* The native gate passes only dists whose suites have passed.
LEMMA GatePasses ==
    ASSUME NEW dists, NEW resolved, NativeGate(dists, resolved),
           NEW c \in Components, NEW t \in Targets
    PROVE  <<c, t>> \in DOMAIN dists /\ SuitesPass(dists[<<c, t>>][TestResults], c)
BY DEF NativeGate, ComponentPasses, TestsPass

\* The result of a platform whose dists have passed.
LEMMA ResultTested ==
    ASSUME NEW t, NEW dists, NEW inputs, NEW resolved, NEW fault,
           \A c \in Components : SuitesPass(dists[c][TestResults], c)
    PROVE  /\ RuntimeTested(RuntimeResult(t, dists, inputs, resolved, fault))
           /\ RuntimeAgrees(t, RuntimeResult(t, dists, inputs, resolved, fault))
<1>1. PICK packaged, steps, install :
        /\ RuntimeResult(t, dists, inputs, resolved, fault)
           = PlatformResult(t, steps, packaged, inputs, resolved)
        /\ \/ packaged.archive = None /\ packaged.attestation = None
           \/ packaged = Package(t, dists, install, inputs, fault, fault # "load")
  BY DEF RuntimeResult
<1> DEFINE result == RuntimeResult(t, dists, inputs, resolved, fault)
           archive == Archive(t, Staging(t, dists, install, inputs))
<1>2. /\ result.archive = packaged.archive
      /\ result.attestation \in {MissingAttestation(t), packaged.attestation}
      /\ result.attestation.status = "PASS" => result.attestation = packaged.attestation
                                               /\ packaged.attestation # None
  BY <1>1 DEF PlatformResult, MissingAttestation
<1>3. CASE packaged.archive = None
  BY <1>2, <1>3 DEF RuntimeTested, RuntimeAgrees
<1>4. CASE packaged.archive = Truncated(t)
  BY <1>2, <1>4 DEF RuntimeTested, RuntimeAgrees, Truncated
<1>5. CASE packaged.archive = archive /\ packaged.archive # None
  <2>1. packaged = Package(t, dists, install, inputs, fault, fault # "load")
    BY <1>1, <1>5
  <2>2. ArchiveTested(archive)
    BY StagedFiles DEF ArchiveTested, Holds
  <2>3. CASE archive = Truncated(t)
    BY <1>2, <1>5, <2>3 DEF RuntimeTested, RuntimeAgrees, Truncated
  <2>4. CASE archive # Truncated(t)
    <3>1. Packageable(t, dists, install, inputs)
      BY <1>5, <2>1, <2>4, PackageOutcome
    <3>2. Agrees(t, archive)
      BY <3>1, ArchiveAgrees
    <3>3. result.attestation.status = "PASS" => Identified(archive)
      BY <1>2, <2>1, PackageOutcome, AttestedLoads
    <3> QED
      BY <1>2, <1>5, <2>2, <3>2, <3>3 DEF RuntimeTested, RuntimeAgrees
  <2> QED
    BY <2>3, <2>4
<1>6. packaged.archive \in {None, Truncated(t), archive}
  BY <1>1, PackageOutcome
<1> QED
  BY <1>3, <1>4, <1>5, <1>6

LEMMA WheelResultNamed ==
    ASSUME NEW t, NEW source, NEW result, NEW bundle, NEW inputs, NEW failing, NEW cut
    PROVE  WheelNamed(WheelResult(t, source, result, bundle, inputs, failing, cut))
<1>1. WheelResult(t, source, result, bundle, inputs, failing, cut).wheel
      \in {None, BuiltWheel(t, source, result.archive)}
  BY DEF WheelResult
<1>2. BuiltWheel(t, source, result.archive).name[1] = "py_darkpanda"
  BY DEF BuiltWheel, WheelName
<1> QED
  BY <1>1, <1>2 DEF WheelNamed

\* What both judges have accepted is self-contained.
LEMMA JudgedSelfContained ==
    ASSUME NEW t, NEW n, NEW image, ImageAccepted(t, n, image), RecordValid(t, n, ImageRecord(t, image))
    PROVE  SelfContained(t, image)
<1>1. CASE Platform(t) = "windows"
  <2>1. PeAccepted(image, Runtime(t))
    BY <1>1 DEF ImageAccepted
  <2>2. image.imports \cup image.delayed \subseteq Runtime(t) \cup System32 \cup ApiSets
    BY <2>1 DEF PeAccepted, PeImports
  <2> QED
    BY <1>1, <2>2 DEF SelfContained
<1>2. CASE Platform(t) = "linux"
  <2>1. ElfAccepted(image, Libraries(t))
    BY <1>2 DEF ImageAccepted
  <2>2. Names(image.needed) \subseteq Libraries(t) \cup OsNeeded
    BY <2>1 DEF ElfAccepted
  <2> QED
    BY <1>2, <2>2 DEF SelfContained
<1>3. CASE Platform(t) = "macos"
  <2>1. ImageRecord(t, image) = MachORecord(image)
    BY <1>3, Zenon DEF ImageRecord
  <2>2. MachORecordValid(ImageRecord(t, image), n, Libraries(t), Architecture(t))
    BY <1>3, Zenon DEF RecordValid
  <2>3. image.libraries \subseteq Libraries(t) \cup SystemPaths
    BY <2>1, <2>2 DEF MachORecordValid, LibrariesKnown, MachORecord
  <2> QED
    BY <1>3, <2>3, Zenon DEF SelfContained
<1> QED
  BY <1>1, <1>2, <1>3, Platforms

LEMMA ValidPortable ==
    ASSUME NEW t, NEW result, NEW resolved, PlatformValid(result, t, resolved), RuntimeAgrees(t, result)
    PROVE  Portable(result.archive)
<1> DEFINE archive == result.archive
<1>1. archive # None /\ archive.files # << >>
  BY DEF PlatformValid, PackageValid, Extracts
<1>2. result.attestation.status = "PASS"
  BY DEF PlatformValid, AttestationValid
<1>3. Agrees(t, archive) /\ Identified(archive)
  BY <1>1, <1>2 DEF RuntimeAgrees
<1>4. \A n \in Runtime(t) : RecordValid(t, n, archive.files[DependencyFile].binaries[n])
  BY DEF PlatformValid, PackageValid, DependencyManifestValid
<1> HIDE DEF archive
<1>5. ASSUME NEW n \in Runtime(t) PROVE SelfContained(t, archive.files[Bin(n)].image)
  <2>1. /\ ImageAccepted(t, n, archive.files[Bin(n)].image)
        /\ RecordValid(t, n, ImageRecord(t, archive.files[Bin(n)].image))
    BY <1>3, <1>4 DEF Agrees
  <2> QED
    BY <2>1, JudgedSelfContained
<1>6. archive.name[2] = t
  BY <1>3 DEF Agrees, ArchiveName
<1> QED
  BY <1>3, <1>5, <1>6 DEF Portable, archive

\* The directory that the aggregate fills from tested results has tested archives only.
LEMMA SetTested ==
    ASSUME NEW runtimes, NEW wheels, NEW resolved,
           DOMAIN runtimes \subseteq Targets, DOMAIN wheels \subseteq Targets,
           \A t \in DOMAIN runtimes : RuntimeTested(runtimes[t]) /\ RuntimeAgrees(t, runtimes[t]),
           \A t \in DOMAIN wheels : WheelNamed(wheels[t])
    PROVE  FilesGood(PythonRelease(wheels, resolved, NativeRelease(runtimes, resolved)).files)
<1> DEFINE native == NativeRelease(runtimes, resolved).files
           all == PythonRelease(wheels, resolved, NativeRelease(runtimes, resolved)).files
<1> DEFINE valid == IF resolved.schema = "v7" /\ DOMAIN runtimes = Targets
                    THEN {t \in Targets : PlatformValid(runtimes[t], t, resolved)} ELSE {}
           good == IF resolved.schema = "v7" /\ DOMAIN wheels = Targets
                   THEN {t \in Targets : WheelValid(wheels[t], t, resolved)} ELSE {}
<1>1. /\ \A t \in valid : t \in DOMAIN runtimes /\ PlatformValid(runtimes[t], t, resolved)
      /\ native = [name \in {ArchiveName(t) : t \in valid} |->
                       [file |-> runtimes[name[2]].archive, sha |-> runtimes[name[2]].checksum]]
  <2>1. \A t \in valid : t \in DOMAIN runtimes /\ PlatformValid(runtimes[t], t, resolved)
    OBVIOUS
  <2>2. native = [name \in {ArchiveName(t) : t \in valid} |->
                       [file |-> runtimes[name[2]].archive, sha |-> runtimes[name[2]].checksum]]
    BY DEF NativeRelease
  <2> QED
    BY <2>1, <2>2
<1>2. ASSUME NEW n \in DOMAIN native
      PROVE  ArchiveTested(native[n].file) /\ Portable(native[n].file)
  <2>1. PICK t \in valid : n = ArchiveName(t)
    BY <1>1, <1>2
  <2> HIDE DEF valid, native
  <2>2. native[n].file = runtimes[t].archive
    BY <1>1, <2>1 DEF ArchiveName
  <2>3. runtimes[t].archive # None /\ runtimes[t].archive.files # << >>
    BY <1>1, <2>1 DEF PlatformValid, PackageValid, Extracts
  <2>4. Portable(runtimes[t].archive)
    BY <1>1, <2>1, ValidPortable
  <2> QED
    BY <1>1, <2>1, <2>2, <2>3, <2>4 DEF RuntimeTested
<1>3. /\ \A t \in good : t \in DOMAIN wheels /\ WheelValid(wheels[t], t, resolved)
      /\ all = [name \in {wheels[t].wheel.name : t \in good} |->
                    [file |-> wheels[name[3]].wheel, sha |-> wheels[name[3]].checksum]] ++ native
  <2>1. \A t \in good : t \in DOMAIN wheels /\ WheelValid(wheels[t], t, resolved)
    OBVIOUS
  <2>2. all = [name \in {wheels[t].wheel.name : t \in good} |->
                    [file |-> wheels[name[3]].wheel, sha |-> wheels[name[3]].checksum]] ++ native
    BY DEF PythonRelease
  <2> QED
    BY <2>1, <2>2
<1>4. \A n \in {wheels[t].wheel.name : t \in good} : n[1] = "py_darkpanda"
  BY <1>3 DEF WheelValid, WheelNamed
<1> HIDE DEF native, all
<1>5. \A n \in DOMAIN all : n[1] = "darkpanda" => n \in DOMAIN native /\ all[n] = native[n]
  BY <1>3, <1>4 DEF ++
<1> QED
  BY <1>2, <1>5 DEF FilesGood, all

-----------------------------------------------------------------------------
(* The steps. *)

\* What each step leaves as it is.
LEMMA OtherArtifacts ==
    ASSUME Next
    PROVE  /\ (\E t \in Targets : ToolchainRuns(t)) \/ Leaves("toolchain")
           /\ (\E c \in Components, t \in Targets : ComponentRuns(c, t)) \/ Leaves("components")
           /\ (\E t \in Targets : DarkpandaRuns(t)) \/ Leaves("darkpanda")
           /\ (\E t \in Targets : PythonRuns(t)) \/ Leaves("python")
           /\ AggregateRuns \/ Leaves("darkpanda-prebuilt-all")
           /\ ReleaseStarts \/ ReleaseUploads \/ UNCHANGED release
<1> DEFINE Kept(kinds) == \A kind \in kinds : Leaves(kind)
           K == {"toolchain", "components", "darkpanda", "python", "darkpanda-prebuilt-all"}
<1>1. CASE PrepareRuns
  <2>1. PICK content : Store(Resolved, content)
    BY <1>1 DEF PrepareRuns
  <2> QED
    BY <1>1, <2>1, StoreLeaves, PrepareServes DEF Resolved
<1>2. ASSUME NEW t \in Targets, ToolchainRuns(t)
      PROVE  Kept(K \ {"toolchain"}) /\ UNCHANGED release
  <2>1. (\E content : Store(<<"toolchain", t>>, content)) \/ UNCHANGED artifacts
    BY <1>2 DEF ToolchainRuns
  <2> QED
    BY <1>2, <2>1, StoreLeaves, UnchangedLeaves, ToolchainServes
<1>3. ASSUME NEW c \in Components, NEW t \in Targets, ComponentRuns(c, t)
      PROVE  Kept(K \ {"components"}) /\ UNCHANGED release
  <2>1. PICK content : Store(<<"components", c, t>>, content)
    BY <1>3 DEF ComponentRuns
  <2> QED
    BY <1>3, <2>1, StoreLeaves, ComponentServes
<1>4. ASSUME NEW t \in Targets, DarkpandaRuns(t)
      PROVE  Kept(K \ {"darkpanda"}) /\ UNCHANGED release
  <2>1. PICK content : Store(<<"darkpanda", t>>, content)
    BY <1>4 DEF DarkpandaRuns
  <2> QED
    BY <1>4, <2>1, StoreLeaves, DarkpandaServes
<1>5. ASSUME NEW t \in Targets, PythonRuns(t)
      PROVE  Kept(K \ {"python"}) /\ UNCHANGED release
  <2>1. PICK content : Store(<<"python", t>>, content)
    BY <1>5 DEF PythonRuns
  <2> QED
    BY <1>5, <2>1, StoreLeaves, PythonServes
<1>6. CASE AggregateRuns
  <2>1. (\E content : Store(Prebuilt, content)) \/ UNCHANGED artifacts
    BY <1>6 DEF AggregateRuns
  <2> QED
    BY <1>6, <2>1, StoreLeaves, UnchangedLeaves, AggregateServes DEF Prebuilt
<1>7. CASE NativeSummaryRuns \/ FingerprintRuns
  BY <1>7, UnchangedLeaves DEF NativeSummaryRuns, FingerprintRuns
<1>8. CASE ReleaseStarts \/ ReleaseUploads
  BY <1>8, UnchangedLeaves DEF ReleaseStarts, ReleaseUploads
<1>9. CASE \E j \in Jobs : Skipped(j) \/ RunnerLost(j)
  BY <1>9, UnchangedLeaves DEF Skipped, RunnerLost
<1>10. CASE RerunAll \/ RerunFailed \/ RerunOne
  BY <1>10, UnchangedLeaves DEF RerunAll, RerunFailed, RerunOne, Rerun
<1> QED
  BY <1>1, <1>2, <1>3, <1>4, <1>5, <1>6, <1>7, <1>8, <1>9, <1>10 DEF Next, JobProceeds

\* Only prepare changes the resolution.
LEMMA OtherResolution ==
    ASSUME Next
    PROVE  PrepareRuns \/ (Leaves("resolved-inputs") /\ UNCHANGED outputs)
<1> DEFINE Kept == Leaves("resolved-inputs") /\ UNCHANGED outputs
<1>1. ASSUME NEW t \in Targets, ToolchainRuns(t) PROVE Kept
  <2>1. (\E content : Store(<<"toolchain", t>>, content)) \/ UNCHANGED artifacts
    BY <1>1 DEF ToolchainRuns
  <2>2. UNCHANGED outputs
    BY <1>1 DEF ToolchainRuns
  <2> QED
    BY <2>1, <2>2, StoreLeaves, UnchangedLeaves
<1>2. ASSUME NEW c \in Components, NEW t \in Targets, ComponentRuns(c, t) PROVE Kept
  <2>1. PICK content : Store(<<"components", c, t>>, content)
    BY <1>2 DEF ComponentRuns
  <2>2. UNCHANGED outputs
    BY <1>2 DEF ComponentRuns
  <2> QED
    BY <2>1, <2>2, StoreLeaves
<1>3. ASSUME NEW t \in Targets, DarkpandaRuns(t) PROVE Kept
  <2>1. PICK content : Store(<<"darkpanda", t>>, content)
    BY <1>3 DEF DarkpandaRuns
  <2>2. UNCHANGED outputs
    BY <1>3 DEF DarkpandaRuns
  <2> QED
    BY <2>1, <2>2, StoreLeaves
<1>4. ASSUME NEW t \in Targets, PythonRuns(t) PROVE Kept
  <2>1. PICK content : Store(<<"python", t>>, content)
    BY <1>4 DEF PythonRuns
  <2>2. UNCHANGED outputs
    BY <1>4 DEF PythonRuns
  <2> QED
    BY <2>1, <2>2, StoreLeaves
<1>5. CASE AggregateRuns
  <2>1. (\E content : Store(Prebuilt, content)) \/ UNCHANGED artifacts
    BY <1>5 DEF AggregateRuns
  <2>2. UNCHANGED outputs
    BY <1>5 DEF AggregateRuns
  <2> QED
    BY <2>1, <2>2, StoreLeaves, UnchangedLeaves DEF Prebuilt
<1>6. CASE NativeSummaryRuns \/ FingerprintRuns \/ ReleaseStarts \/ ReleaseUploads
  BY <1>6, UnchangedLeaves DEF NativeSummaryRuns, FingerprintRuns, ReleaseStarts, ReleaseUploads
<1>7. CASE \E j \in Jobs : Skipped(j) \/ RunnerLost(j)
  BY <1>7, UnchangedLeaves DEF Skipped, RunnerLost
<1>8. CASE RerunAll \/ RerunFailed \/ RerunOne
  BY <1>8, UnchangedLeaves DEF RerunAll, RerunFailed, RerunOne, Rerun
<1> QED
  BY <1>1, <1>2, <1>3, <1>4, <1>5, <1>6, <1>7, <1>8 DEF Next, JobProceeds

\* A job that is served has not ended before.
LEMMA ServedJob ==
    ASSUME NEW j \in Jobs, Serves(j)
    PROVE  /\ job[j] \in {"queued", "running"}
           /\ \E s \in Over : job' = [job EXCEPT ![j] = s]
BY DEF Serves, Ends, Skips, Ready, Due, Over

LEMMA NativeSummaryJob ==
    NativeSummary \in Jobs /\ Legs("native-summary") = {NativeSummary} /\ NativeSummary[1] = "native-summary"
BY DEF NativeSummary, Jobs, Legs, Kinds

\* A job becomes a success only by its own run.
LEMMA ItsOwnRun ==
    ASSUME Next, GraphTypeOK, NEW g \in Jobs, job[g] # "success", job'[g] = "success"
    PROVE  /\ g[1] = "prepare" => PrepareRuns
           /\ g[1] = "toolchain" => \E t \in Targets : g = <<"toolchain", t>> /\ ToolchainRuns(t)
           /\ g[1] = "components" => \E c \in Components, t \in Targets :
                                        g = <<"components", c, t>> /\ ComponentRuns(c, t)
           /\ g[1] = "native-summary" => NativeSummaryRuns
           /\ g[1] = "darkpanda" => \E t \in Targets : g = <<"darkpanda", t>> /\ DarkpandaRuns(t)
           /\ g[1] = "python" => \E t \in Targets : g = <<"python", t>> /\ PythonRuns(t)
           /\ g[1] = "aggregate" => AggregateRuns
           /\ g[1] = "release" => ReleaseStarts \/ ReleaseUploads
<1> DEFINE Goal == /\ g[1] = "prepare" => PrepareRuns
                   /\ g[1] = "toolchain" => \E t \in Targets :
                                                g = <<"toolchain", t>> /\ ToolchainRuns(t)
                   /\ g[1] = "components" => \E c \in Components, t \in Targets :
                                                g = <<"components", c, t>> /\ ComponentRuns(c, t)
                   /\ g[1] = "native-summary" => NativeSummaryRuns
                   /\ g[1] = "darkpanda" => \E t \in Targets : g = <<"darkpanda", t>> /\ DarkpandaRuns(t)
                   /\ g[1] = "python" => \E t \in Targets : g = <<"python", t>> /\ PythonRuns(t)
                   /\ g[1] = "aggregate" => AggregateRuns
                   /\ g[1] = "release" => ReleaseStarts \/ ReleaseUploads
<1>1. \A j \in Jobs : Serves(j) => j = g
  BY ServedJob DEF GraphTypeOK
<1>2. CASE PrepareRuns
  <2>1. g = <<"prepare">>
    BY <1>1, <1>2, PrepareServes, LegsAreTheJobs
  <2> QED
    BY <1>2, <2>1
<1>3. CASE FingerprintRuns
  <2>1. g = <<"fingerprint">>
    BY <1>1, <1>3, FingerprintServes, LegsAreTheJobs
  <2> QED
    BY <2>1
<1>4. CASE NativeSummaryRuns
  <2>1. g = <<"native-summary">>
    BY <1>1, <1>4, NativeSummaryServes, LegsAreTheJobs
  <2> QED
    BY <1>4, <2>1
<1>5. CASE AggregateRuns
  <2>1. g = <<"aggregate">>
    BY <1>1, <1>5, AggregateServes, SingleJobs
  <2> QED
    BY <1>5, <2>1
<1>6. ASSUME NEW t \in Targets, ToolchainRuns(t) PROVE Goal
  <2>1. g = <<"toolchain", t>>
    BY <1>1, <1>6, ToolchainServes, LegsAreTheJobs
  <2> QED
    BY <1>6, <2>1
<1>7. ASSUME NEW t \in Targets, DarkpandaRuns(t) PROVE Goal
  <2>1. g = <<"darkpanda", t>>
    BY <1>1, <1>7, DarkpandaServes, LegsAreTheJobs
  <2> QED
    BY <1>7, <2>1
<1>8. ASSUME NEW t \in Targets, PythonRuns(t) PROVE Goal
  <2>1. g = <<"python", t>>
    BY <1>1, <1>8, PythonServes, LegsAreTheJobs
  <2> QED
    BY <1>8, <2>1
<1>9. ASSUME NEW c \in Components, NEW t \in Targets, ComponentRuns(c, t) PROVE Goal
  <2>1. g = <<"components", c, t>>
    BY <1>1, <1>9, ComponentServes, LegsAreTheJobs
  <2> QED
    BY <1>9, <2>1
<1>10. CASE ReleaseStarts \/ ReleaseUploads
  <2>1. Serves(<<"release">>) \/ Begins(<<"release">>)
    <3>1. job' # job
      OBVIOUS
    <3> QED
      BY <1>10, <3>1, ReleaseServes, UploadServes
  <2>2. ~Begins(<<"release">>)
    BY SingleJobs DEF Begins, GraphTypeOK
  <2>3. g = <<"release">>
    BY <1>1, <2>1, <2>2, SingleJobs
  <2> QED
    BY <1>10, <2>3
<1>11. \A j \in Jobs : ~Skipped(j) /\ ~RunnerLost(j)
  <2> SUFFICES ASSUME NEW j \in Jobs, Skipped(j) \/ RunnerLost(j)
               PROVE  FALSE
    OBVIOUS
  <2>1. j = g
    BY <1>1, SkippedServes, LostServes
  <2> QED
    BY <2>1 DEF Skipped, Skips, RunnerLost, Ends, GraphTypeOK
<1>12. ~(RerunAll \/ RerunFailed \/ RerunOne)
  BY RerunReruns DEF Reruns
<1> HIDE DEF Goal
<1>13. Goal
  BY <1>2, <1>3, <1>4, <1>5, <1>6, <1>7, <1>8, <1>9, <1>10, <1>11, <1>12 DEF Next, JobProceeds, Goal
<1> QED
  BY <1>13 DEF Goal

\* Only the native gate makes the native summary a success, only the aggregate the aggregate.
LEMMA OnlyTheGate ==
    ASSUME Next, GraphTypeOK, NEW g \in {NativeSummary, <<"aggregate">>},
           job[g] # "success", job'[g] = "success"
    PROVE  (g = NativeSummary /\ NativeSummaryRuns) \/ (g = <<"aggregate">> /\ AggregateRuns)
BY ItsOwnRun, NativeSummaryJob, SingleJobs DEF NativeSummary

\* While a job stands as a success, the legs of its ancestors stay ended.
LEMMA EndedStays ==
    ASSUME Next, GraphTypeOK, NEW g \in Jobs, job[g] = "success", job'[g] = "success",
           NEW k \in Ancestors(g[1]), Ended(k)
    PROVE  /\ Ended(k)'
           /\ \A j \in Legs(k) : ~Serves(j)
<1>1. k \in Kinds /\ \A j \in Legs(k) : j \in Jobs /\ job[j] \in Over
  BY LegsAreJobs DEF Ancestors, Ended
<1>2. \A j \in Legs(k) : ~Serves(j)
  BY <1>1, ServedJob DEF Over
<1>3. \A j \in Legs(k) : job'[j] \in Over
  <2>1. CASE \E j \in Jobs : Serves(j)
    BY <1>1, <2>1, ServedJob DEF GraphTypeOK
  <2>2. CASE Begins(<<"release">>)
    <3>1. job[<<"release">>] \notin Over /\ job' = [job EXCEPT ![<<"release">>] = "running"]
      BY <2>2 DEF Begins, Ready, Due, Over
    <3> QED
      BY <1>1, <3>1 DEF GraphTypeOK
  <2>3. CASE \E jobs \in {Jobs, FailedJobs} \cup {{j} : j \in Jobs} : Reruns(jobs)
    <3>1. PICK jobs \in SUBSET Jobs : Reruns(jobs)
      BY <2>3 DEF FailedJobs
    <3>2. g \notin WithDependents(jobs)
      BY <3>1 DEF Reruns
    <3>3. \A j \in Legs(k) : j \notin WithDependents(jobs)
      BY <3>2, RerunKeepsAncestors
    <3> QED
      BY <1>1, <3>1, <3>3 DEF Reruns
  <2>4. CASE UNCHANGED graphVars
    BY <1>1, <2>4 DEF graphVars
  <2> QED
    BY <2>1, <2>2, <2>3, <2>4, StepOfTheGraph DEF GraphNext
<1> QED
  BY <1>2, <1>3 DEF Ended

LEMMA GateStep == ASSUME GraphInv, GateInv, Next PROVE GateInv'
<1> USE DEF GraphInv
<1>1. CASE job'[NativeSummary] # "success"
  BY <1>1 DEF GateInv
<1>2. CASE job'[NativeSummary] = "success" /\ job[NativeSummary] = "success"
  <2>1. Ended("components") /\ \A c \in Components, t \in Targets : DistTested(c, t)
    BY <1>2 DEF GateInv
  <2>2. "components" \in Ancestors(NativeSummary[1])
    BY NativeSummaryJob DEF Ancestors, Rank, Kinds
  <2>3. Ended("components")' /\ \A j \in Legs("components") : ~Serves(j)
    BY <1>2, <2>1, <2>2, EndedStays, NativeSummaryJob
  <2>4. \A c \in Components, t \in Targets : ~ComponentRuns(c, t)
    <3> SUFFICES ASSUME NEW c \in Components, NEW t \in Targets
                 PROVE  ~ComponentRuns(c, t)
      OBVIOUS
    <3>1. <<"components", c, t>> \in Legs("components")
      BY DEF Legs
    <3> QED
      BY <2>3, <3>1, ComponentServes
  <2>5. Leaves("components")
    BY <2>4, OtherArtifacts
  <2>6. \A c \in Components, t \in Targets : DistTested(c, t)'
    BY <2>1, <2>5 DEF DistTested, Leaves
  <2> QED
    BY <2>3, <2>6 DEF GateInv
<1>3. CASE job'[NativeSummary] = "success" /\ job[NativeSummary] # "success"
  <2>1. NativeSummaryRuns
    BY <1>3, OnlyTheGate DEF NativeSummary
  <2>2. Ended("components")
    BY <2>1 DEF NativeSummaryRuns, Ready, Due, Needs, NativeSummary
  <2>3. Ended("components")'
    <3>1. \A j \in Legs("components") : j \in Jobs /\ j # NativeSummary
      BY LegsAreJobs, KindOfLeg, NativeSummaryJob DEF Kinds
    <3>2. \A j \in Legs("components") : job'[j] = job[j]
      BY <2>1, <3>1, NativeSummaryServes, ServedJob, NativeSummaryJob DEF GraphTypeOK, NativeSummary
    <3> QED
      BY <2>2, <3>2 DEF Ended
  <2>4. NativeGate(DownloadedDists, artifacts[Resolved]) /\ UNCHANGED artifacts
    BY <1>3, <2>1, NativeSummaryJob DEF NativeSummaryRuns, Ends, GraphTypeOK, NativeSummary
  <2>5. ASSUME NEW c \in Components, NEW t \in Targets PROVE DistTested(c, t)'
    <3>1. /\ <<c, t>> \in DOMAIN DownloadedDists
          /\ SuitesPass(DownloadedDists[<<c, t>>][TestResults], c)
      BY <2>4, GatePasses
    <3>2. /\ <<"components", c, t>> \in DOMAIN artifacts
          /\ DownloadedDists[<<c, t>>] = artifacts[<<"components", c, t>>]
      BY <3>1 DEF DownloadedDists, Has
    <3> QED
      BY <2>4, <3>1, <3>2 DEF DistTested
  <2> QED
    BY <2>3, <2>5 DEF GateInv
<1> QED
  BY <1>1, <1>2, <1>3

\* The dists that a platform job downloads have passed.
LEMMA RuntimeStep == ASSUME GraphInv, GateInv, RuntimeInv, Next PROVE RuntimeInv'
<1>1. CASE Leaves("darkpanda")
  BY <1>1 DEF RuntimeInv, Leaves
<1>2. ASSUME NEW u \in Targets, DarkpandaRuns(u) PROVE RuntimeInv'
  <2> DEFINE j == <<"darkpanda", u>>
             dists == [c \in {c \in Components : Has(<<"components", c, u>>)} |->
                        artifacts[<<"components", c, u>>]]
  <2>1. Ready(j)
    BY <1>2 DEF DarkpandaRuns
  <2>2. job[NativeSummary] = "success"
    BY <2>1, NativeSummaryJob DEF Ready, Condition, Succeeded
  <2>3. \A c \in Components : SuitesPass(dists[c][TestResults], c)
    BY <2>2 DEF GateInv, DistTested, Has
  <2>4. PICK fault : Store(j, RuntimeResult(u, dists, outputs, artifacts[Resolved], fault))
    BY <1>2 DEF DarkpandaRuns
  <2>5. /\ RuntimeTested(RuntimeResult(u, dists, outputs, artifacts[Resolved], fault))
        /\ RuntimeAgrees(u, RuntimeResult(u, dists, outputs, artifacts[Resolved], fault))
    BY <2>3, ResultTested
  <2>6. /\ artifacts'[j] = RuntimeResult(u, dists, outputs, artifacts[Resolved], fault)
        /\ DOMAIN artifacts' = {j} \cup DOMAIN artifacts
        /\ \A n \in DOMAIN artifacts : n # j => artifacts'[n] = artifacts[n]
    BY <2>4, StoreEffect
  <2> HIDE DEF dists
  <2> SUFFICES ASSUME NEW t \in Targets, <<"darkpanda", t>> \in DOMAIN artifacts'
               PROVE  /\ RuntimeTested(artifacts'[<<"darkpanda", t>>])
                      /\ RuntimeAgrees(t, artifacts'[<<"darkpanda", t>>])
    BY DEF RuntimeInv, RuntimeTested, ArchiveTested, RuntimeAgrees, Agrees, Identified
  <2>7. CASE t = u
    BY <2>5, <2>6, <2>7
  <2>8. CASE t # u
    BY <2>6, <2>8 DEF RuntimeInv
  <2> QED
    BY <2>7, <2>8
<1> QED
  BY <1>1, <1>2, OtherArtifacts

LEMMA WheelStep == ASSUME WheelInv, Next PROVE WheelInv'
<1>1. CASE Leaves("python")
  BY <1>1 DEF WheelInv, Leaves
<1>2. ASSUME NEW u \in Targets, PythonRuns(u) PROVE WheelInv'
  <2> DEFINE j == <<"python", u>>
  <2>1. PICK result : Store(j, result) /\ WheelNamed(result)
    BY <1>2, WheelResultNamed DEF PythonRuns
  <2>2. /\ artifacts'[j] = result
        /\ DOMAIN artifacts' = {j} \cup DOMAIN artifacts
        /\ \A n \in DOMAIN artifacts : n # j => artifacts'[n] = artifacts[n]
    BY <2>1, StoreEffect
  <2> SUFFICES ASSUME NEW t \in Targets, <<"python", t>> \in DOMAIN artifacts'
               PROVE  WheelNamed(artifacts'[<<"python", t>>])
    BY DEF WheelInv, WheelNamed
  <2>3. CASE t = u
    BY <2>1, <2>2, <2>3
  <2>4. CASE t # u
    BY <2>2, <2>4 DEF WheelInv
  <2> QED
    BY <2>3, <2>4
<1> QED
  BY <1>1, <1>2, OtherArtifacts

\* The artifacts that the aggregate downloads are those of the targets.
LEMMA DownloadedOf ==
    ASSUME NEW k
    PROVE  /\ DOMAIN Downloaded(k) \subseteq Targets
           /\ \A t \in DOMAIN Downloaded(k) :
                <<k, t>> \in DOMAIN artifacts /\ Downloaded(k)[t] = artifacts[<<k, t>>]
BY DEF Downloaded, Has

\* The set that the aggregate uploads has tested archives only.
LEMMA ValidatedTested ==
    ASSUME RuntimeInv, WheelInv
    PROVE  FilesGood(Validated.set.files)
<1> DEFINE runtimes == Downloaded("darkpanda")
           wheels == Downloaded("python")
<1>1. /\ DOMAIN runtimes \subseteq Targets
      /\ \A t \in DOMAIN runtimes : RuntimeTested(runtimes[t]) /\ RuntimeAgrees(t, runtimes[t])
  BY DownloadedOf DEF RuntimeInv
<1>2. DOMAIN wheels \subseteq Targets /\ \A t \in DOMAIN wheels : WheelNamed(wheels[t])
  BY DownloadedOf DEF WheelInv
<1>3. Validated.set = PythonRelease(wheels, artifacts[Resolved],
                                    NativeRelease(runtimes, artifacts[Resolved]))
  BY DEF Validated
<1> HIDE DEF runtimes, wheels
<1> QED
  BY <1>1, <1>2, <1>3, SetTested

LEMMA SetStep == ASSUME RuntimeInv, WheelInv, SetInv, Next PROVE SetInv'
<1>1. CASE Leaves("darkpanda-prebuilt-all")
  BY <1>1 DEF SetInv, FilesGood, ArchiveTested, Portable, Identified, Leaves, Has, Prebuilt
<1>2. CASE AggregateRuns
  <2>1. CASE UNCHANGED artifacts
    BY <2>1 DEF SetInv, FilesGood, ArchiveTested, Portable, Identified, Has
  <2>2. CASE Store(Prebuilt, [files |-> Validated.set.files, sums |-> Validated.set.sums])
    <3> DEFINE content == [files |-> Validated.set.files, sums |-> Validated.set.sums]
    <3>1. artifacts'[Prebuilt].files = Validated.set.files
      <4>1. content.files = Validated.set.files
        OBVIOUS
      <4>2. Store(Prebuilt, content)
        BY <2>2
      <4> HIDE DEF content
      <4>3. artifacts'[Prebuilt] = content
        BY <4>2, StoreEffect
      <4> QED
        BY <4>1, <4>3
    <3>2. FilesGood(artifacts'[Prebuilt].files)
      BY <3>1, ValidatedTested
    <3> QED
      BY <3>2 DEF SetInv, FilesGood, ArchiveTested, Portable, Identified, Prebuilt
  <2> QED
    BY <1>2, <2>1, <2>2 DEF AggregateRuns
<1> QED
  BY <1>1, <1>2, OtherArtifacts

\* The release runs only with the set of the aggregate in place.
LEMMA SetForRelease ==
    ASSUME PrebuiltInv, SetInv, Condition("release")
    PROVE  Has(Prebuilt) /\ job[<<"aggregate">>] = "success" /\ FilesGood(Assets)
<1>1. "aggregate" \in Ancestors("release")
  BY DEF Ancestors, Rank, Kinds
<1>2. job[<<"aggregate">>] = "success"
  BY <1>1, SingleJobs DEF Condition, ChainSucceeded, Succeeded
<1>3. Has(Prebuilt) /\ FilesGood(artifacts[Prebuilt].files)
  BY <1>2 DEF PrebuiltInv, SetInv
<1>4. ASSUME NEW n \in DOMAIN Assets, n[1] = "darkpanda"
      PROVE  n \in DOMAIN artifacts[Prebuilt].files /\ Assets[n] = artifacts[Prebuilt].files[n]
  <2>1. n # <<"SHA256SUMS">>
    BY <1>4
  <2> QED
    BY <1>4, <2>1 DEF Assets, File, ++
<1> QED
  BY <1>2, <1>3, <1>4 DEF FilesGood

\* What a step leaves running of the release, and of its uploads.
LEMMA ReleaseRuns ==
    ASSUME Next, GraphTypeOK, job'[<<"release">>] = "running"
    PROVE  \/ ReleaseStarts
           \/ job[<<"release">>] = "running" /\ ReleaseUploads
           \/ job[<<"release">>] = "running" /\ uploads' \in {uploads, {}}
<1>1. \A j \in Jobs : Serves(j) => job[<<"release">>] = "running"
  BY SingleJobs, ServedJob DEF GraphTypeOK, Over
<1>2. CASE PrepareRuns \/ FingerprintRuns \/ NativeSummaryRuns \/ AggregateRuns
  <2>1. \E j \in Jobs : Serves(j)
    BY <1>2, PrepareServes, FingerprintServes, NativeSummaryServes, AggregateServes, LegsAreTheJobs,
       SingleJobs
  <2>2. UNCHANGED uploads
    BY <1>2 DEF PrepareRuns, FingerprintRuns, NativeSummaryRuns, AggregateRuns
  <2> QED
    BY <1>1, <2>1, <2>2
<1>3. ASSUME NEW t \in Targets, ToolchainRuns(t) \/ DarkpandaRuns(t) \/ PythonRuns(t)
      PROVE  job[<<"release">>] = "running" /\ UNCHANGED uploads
  <2>1. \E j \in Jobs : Serves(j)
    BY <1>3, ToolchainServes, DarkpandaServes, PythonServes, LegsAreTheJobs
  <2>2. UNCHANGED uploads
    BY <1>3 DEF ToolchainRuns, DarkpandaRuns, PythonRuns
  <2> QED
    BY <1>1, <2>1, <2>2
<1>4. ASSUME NEW c \in Components, NEW t \in Targets, ComponentRuns(c, t)
      PROVE  job[<<"release">>] = "running" /\ UNCHANGED uploads
  <2>1. \E j \in Jobs : Serves(j)
    BY <1>4, ComponentServes, LegsAreTheJobs
  <2>2. UNCHANGED uploads
    BY <1>4 DEF ComponentRuns
  <2> QED
    BY <1>1, <2>1, <2>2
<1>5. CASE ReleaseUploads
  BY <1>5, UploadServes
<1>6. ASSUME NEW j \in Jobs, Skipped(j) \/ RunnerLost(j)
      PROVE  job[<<"release">>] = "running" /\ uploads' \in {uploads, {}}
  <2>1. Serves(j)
    BY <1>6, SkippedServes, LostServes
  <2>2. uploads' \in {uploads, {}}
    BY <1>6 DEF Skipped, RunnerLost
  <2> QED
    BY <1>1, <2>1, <2>2
<1>7. CASE RerunAll \/ RerunFailed \/ RerunOne
  <2>1. job[<<"release">>] = "running"
    BY <1>7, RerunReruns, SingleJobs DEF Reruns
  <2>2. UNCHANGED uploads
    BY <1>7 DEF RerunAll, RerunFailed, RerunOne, Rerun
  <2> QED
    BY <2>1, <2>2
<1> QED
  BY <1>2, <1>3, <1>4, <1>5, <1>6, <1>7 DEF Next, JobProceeds

LEMMA PrebuiltStep == ASSUME GraphInv, SetInv, PrebuiltInv, Next PROVE PrebuiltInv'
<1> USE DEF GraphInv
<1>1. Has(Prebuilt) => Has(Prebuilt)'
  <2>1. CASE Leaves("darkpanda-prebuilt-all")
    BY <2>1 DEF Leaves, Has, Prebuilt
  <2>2. CASE AggregateRuns
    BY <2>2, StoreEffect DEF AggregateRuns, Has
  <2> QED
    BY <2>1, <2>2, OtherArtifacts
<1>2. job'[<<"aggregate">>] = "success" => Has(Prebuilt)'
  <2>1. CASE job[<<"aggregate">>] = "success"
    BY <1>1, <2>1 DEF PrebuiltInv
  <2>2. CASE job[<<"aggregate">>] # "success" /\ job'[<<"aggregate">>] = "success"
    <3> DEFINE valid == Has(Resolved) /\ Validated.native /\ Validated.set.ok
    <3>1. AggregateRuns
      BY <2>2, OnlyTheGate DEF NativeSummary
    <3>2. Ends(<<"aggregate">>, GateHolds /\ valid)
      BY <3>1 DEF AggregateRuns, EndsBehindGate
    <3>3. valid
      BY <2>2, <3>2, SingleJobs DEF Ends, GraphTypeOK
    <3>4. Store(Prebuilt, [files |-> Validated.set.files, sums |-> Validated.set.sums])
      BY <3>1, <3>3 DEF AggregateRuns
    <3> QED
      BY <3>4, StoreEffect DEF Has
  <2> QED
    BY <2>1, <2>2
<1>3. ASSUME job'[<<"release">>] = "running" PROVE uploads' \subseteq DOMAIN Assets'
  <2>1. CASE ReleaseStarts
    <3>1. uploads' \in {{}, DOMAIN Assets} /\ UNCHANGED artifacts
      BY <2>1 DEF ReleaseStarts, ReplaceAssets
    <3> QED
      BY <3>1 DEF Assets
  <2>2. CASE job[<<"release">>] = "running" /\ ReleaseUploads
    BY <2>2 DEF ReleaseUploads, PrebuiltInv, Assets
  <2>3. CASE job[<<"release">>] = "running" /\ uploads' \in {uploads, {}}
    <3>1. Has(Prebuilt) /\ job[<<"aggregate">>] = "success"
      BY <2>3, SingleJobs, SetForRelease DEF RanUnderCondition
    <3>2. ~AggregateRuns
      BY <3>1 DEF AggregateRuns, Ready, Due
    <3>3. artifacts'[Prebuilt] = artifacts[Prebuilt]
      BY <3>1, <3>2, OtherArtifacts DEF Leaves, Has, Prebuilt
    <3> QED
      BY <2>3, <3>3 DEF PrebuiltInv, Assets
  <2> QED
    BY <1>3, <2>1, <2>2, <2>3, ReleaseRuns
<1> QED
  BY <1>2, <1>3 DEF PrebuiltInv

LEMMA ReleaseStep ==
    ASSUME GraphInv, SetInv, PrebuiltInv, FilesGood(release), Next
    PROVE  FilesGood(release')
<1> USE DEF GraphInv
<1>1. CASE UNCHANGED release
  BY <1>1
<1>2. CASE ReleaseStarts
  <2>1. FilesGood(Assets)
    BY <1>2, SetForRelease DEF ReleaseStarts, Ready
  <2>2. release' \in {release, Assets}
    BY <1>2 DEF ReleaseStarts, ReplaceAssets
  <2> QED
    BY <2>1, <2>2
<1>3. CASE ReleaseUploads
  <2>1. PICK name \in uploads : release' = File(name, Assets[name]) ++ release
    BY <1>3 DEF ReleaseUploads
  <2>2. job[<<"release">>] = "running"
    BY <1>3 DEF ReleaseUploads
  <2>3. FilesGood(Assets)
    BY <2>2, SingleJobs, SetForRelease DEF RanUnderCondition
  <2>4. name \in DOMAIN Assets
    BY <2>1, <2>2 DEF PrebuiltInv
  <2>5. \A n \in DOMAIN release' :
            \/ n = name /\ release'[n] = Assets[n]
            \/ n \in DOMAIN release /\ release'[n] = release[n]
    BY <2>1 DEF File, ++
  <2> QED
    BY <2>3, <2>4, <2>5 DEF FilesGood
<1> QED
  BY <1>1, <1>2, <1>3, OtherArtifacts

-----------------------------------------------------------------------------
LEMMA InitTested == Init => TestedInv
<1> SUFFICES ASSUME Init PROVE TestedInv
  OBVIOUS
<1>1. DOMAIN artifacts = {} /\ DOMAIN release = {}
  BY DEF Init
<1>2. \A j \in Jobs : job[j] = "queued"
  BY DEF Init, GraphInit
<1> QED
  BY <1>1, <1>2, NativeSummaryJob, SingleJobs
  DEF TestedInv, GateInv, RuntimeInv, WheelInv, SetInv, PrebuiltInv, FilesGood, Has

LEMMA TestedStep == GraphInv /\ TestedInv /\ [Next]_vars => TestedInv'
<1> SUFFICES ASSUME GraphInv, TestedInv, [Next]_vars PROVE TestedInv'
  OBVIOUS
<1>1. CASE Next
  <2>1. GateInv' /\ RuntimeInv' /\ WheelInv'
    BY <1>1, GateStep, RuntimeStep, WheelStep DEF TestedInv
  <2>2. SetInv' /\ PrebuiltInv'
    BY <1>1, SetStep, PrebuiltStep DEF TestedInv
  <2>3. FilesGood(release')
    BY <1>1, ReleaseStep DEF TestedInv
  <2> QED
    BY <2>1, <2>2, <2>3 DEF TestedInv, FilesGood, ArchiveTested, Portable, Identified
<1>2. CASE UNCHANGED vars
  BY <1>2 DEF vars, TestedInv, GateInv, RuntimeInv, WheelInv, SetInv, PrebuiltInv, FilesGood,
     ArchiveTested, RuntimeTested, RuntimeAgrees, Agrees, Identified, Portable, WheelNamed, DistTested, Ended, Has, Assets
<1> QED
  BY <1>1, <1>2

LEMMA PipelineTested == Spec => []TestedInv
BY PipelineGraph, InitTested, TestedStep, PTL DEF Spec

\* However often jobs are run again, whatever fails and whatever an earlier attempt has left: the
\* tests of every component inside a published archive have passed.
THEOREM ReleasedIsTested == Spec => []NothingUntested
<1>1. TestedInv => NothingUntested
  BY DEF TestedInv, FilesGood, ArchiveTested, NothingUntested, Archives
<1> QED
  BY <1>1, PipelineTested, PTL

\* And the binaries of a published archive load only what is in it or part of the operating system,
\* its libraries with the ABI asked for: neither judge of the dependencies sees all of it alone.
THEOREM ReleasedIsPortable == Spec => []ReleasedIsSelfContained
<1>1. TestedInv => ReleasedIsSelfContained
  BY DEF TestedInv, FilesGood, Portable, Identified, ReleasedIsSelfContained, Archives
<1> QED
  BY <1>1, PipelineTested, PTL
-----------------------------------------------------------------------------
(* The uploaded set and the release: all of one resolution, and as the checksums say. *)

\* The name of the wheel of a target under a resolution.
ResolvedWheel(t, resolved) == <<"py_darkpanda", WheelVersion[resolved.revisions[Binding]], t>>

\* The files of a set that is complete, and made from one resolution.
FilesFrom(files, resolved) ==
    /\ DOMAIN files = {ArchiveName(t) : t \in Targets} \cup {ResolvedWheel(t, resolved) : t \in Targets}
    /\ \A t \in Targets :
        /\ \A c \in Components :
            files[ArchiveName(t)].file.files[Packaged(c, BuildInfo)].revision = resolved.revisions[c]
        /\ files[ResolvedWheel(t, resolved)].file.files[Extension]
           = [source |-> resolved.revisions[Binding]]

SetFrom(set, resolved) ==
    /\ FilesFrom(set.files, resolved)
    /\ set.sums = SumsOf([n \in DOMAIN set.files |-> set.files[n].file])

\* The libraries of a wheel are those of an archive.
CarriesLibraries(t, wheel, archive) ==
    \A n \in Libraries(t) : wheel.files[NativeLibrary(n)] = archive.files[Bin(n)]

\* A wheel that passed was built from the revision it reports.
WheelFrom(t, result) ==
    result.report.status = "passed" =>
        /\ result.wheel.name = <<"py_darkpanda", WheelVersion[result.report.source], t>>
        /\ result.wheel.files[Extension] = [source |-> result.report.source]

LEMMA BuiltWheelFiles ==
    ASSUME NEW t, NEW source, NEW archive
    PROVE  /\ BuiltWheel(t, source, archive).name = <<"py_darkpanda", WheelVersion[source.revision], t>>
           /\ BuiltWheel(t, source, archive).files[Extension] = [source |-> source.revision]
           /\ CarriesLibraries(t, BuiltWheel(t, source, archive), archive)
<1> DEFINE copied == CopiedLibraries(archive, t)
           own == [p \in PythonFiles \cup {Extension} |-> [source |-> source.revision]]
           wheel == BuiltWheel(t, source, archive)
<1>1. wheel.name = <<"py_darkpanda", WheelVersion[source.revision], t>> /\ wheel.files = copied ++ own
  BY DEF BuiltWheel, WheelName
<1>2. Extension \notin DOMAIN copied /\ Extension \in DOMAIN own
      /\ own[Extension] = [source |-> source.revision]
  BY DEF CopiedLibraries, NativeLibrary, Extension
<1>3. ASSUME NEW n \in Libraries(t)
      PROVE  NativeLibrary(n) \in DOMAIN copied /\ copied[NativeLibrary(n)] = archive.files[Bin(n)]
  BY DEF CopiedLibraries, NativeLibrary
<1> HIDE DEF copied, own, wheel
<1>4. /\ wheel.files[Extension] = own[Extension]
      /\ \A p \in DOMAIN copied : wheel.files[p] = copied[p]
  BY <1>1, <1>2 DEF ++
<1> QED
  BY <1>1, <1>2, <1>3, <1>4 DEF CarriesLibraries, wheel

\* The result of a wheel job: it passes only with the wheel built from the archive it was given.
LEMMA WheelResultFrom ==
    ASSUME NEW t, NEW source, NEW result, NEW bundle, NEW inputs, NEW failing, NEW cut
    PROVE  LET made == WheelResult(t, source, result, bundle, inputs, failing, cut) IN
           /\ WheelFrom(t, made)
           /\ made.report.status = "passed" => CarriesLibraries(t, made.wheel, result.archive)
<1> DEFINE made == WheelResult(t, source, result, bundle, inputs, failing, cut)
           wheel == BuiltWheel(t, source, result.archive)
<1>1. made.report.status = "passed" =>
        /\ made.wheel = wheel
        /\ made.report.source = source.revision
  BY DEF WheelResult, WheelReport, MissingWheelReport, SourceValid
<1> HIDE DEF made, wheel
<1>2. /\ wheel.name = <<"py_darkpanda", WheelVersion[source.revision], t>>
      /\ wheel.files[Extension] = [source |-> source.revision]
      /\ CarriesLibraries(t, wheel, result.archive)
  BY BuiltWheelFiles DEF wheel
<1> QED
  BY <1>1, <1>2 DEF WheelFrom, made

\* The set that both validators accept.
LEMMA AcceptedSet ==
    ASSUME NEW runtimes, NEW wheels, NEW resolved, NEW native, NEW set,
           native = NativeRelease(runtimes, resolved), native.ok,
           set = PythonRelease(wheels, resolved, native), set.ok,
           \A t \in Targets : WheelFrom(t, wheels[t])
    PROVE  /\ SetFrom(set, resolved)
           /\ \A t \in Targets :
                /\ set.files[ArchiveName(t)].file = runtimes[t].archive
                /\ set.files[ResolvedWheel(t, resolved)].file = wheels[t].wheel
<1> DEFINE archives == [name \in {ArchiveName(t) : t \in Targets} |->
                [file |-> runtimes[name[2]].archive, sha |-> runtimes[name[2]].checksum]]
           added == [name \in {wheels[t].wheel.name : t \in Targets} |->
                [file |-> wheels[name[3]].wheel, sha |-> wheels[name[3]].checksum]]
<1>1. \A t \in Targets : PlatformValid(runtimes[t], t, resolved)
  BY DEF NativeRelease
<1>2. native.files = archives
  BY DEF NativeRelease
<1>3. \A t \in Targets : WheelValid(wheels[t], t, resolved)
  BY DEF PythonRelease
<1>4. set.files = added ++ native.files
  BY DEF PythonRelease
<1>5. set.sums = SumsOf([n \in DOMAIN set.files |-> set.files[n].file])
  BY DEF PythonRelease
<1>6. ASSUME NEW t \in Targets
      PROVE  /\ wheels[t].wheel.name = ResolvedWheel(t, resolved)
             /\ wheels[t].wheel.files[Extension] = [source |-> resolved.revisions[Binding]]
  <2>1. wheels[t].report.status = "passed" /\ wheels[t].report.source = resolved.revisions[Binding]
    BY <1>3 DEF WheelValid, WheelReportValid, BuiltFrom
  <2> QED
    BY <2>1 DEF WheelFrom, ResolvedWheel
<1>7. DOMAIN added = {ResolvedWheel(t, resolved) : t \in Targets}
  BY <1>6
<1>8. \A t \in Targets : added[ResolvedWheel(t, resolved)].file = wheels[t].wheel
  BY <1>7 DEF ResolvedWheel
<1>9. \A t \in Targets : ArchiveName(t) \in DOMAIN archives
                         /\ archives[ArchiveName(t)].file = runtimes[t].archive
  BY DEF ArchiveName
<1>10. \A t \in Targets : ArchiveName(t) \notin DOMAIN added
  BY <1>7 DEF ArchiveName, ResolvedWheel
<1>11. DOMAIN archives = {ArchiveName(t) : t \in Targets}
  OBVIOUS
<1> HIDE DEF added, archives
<1>12. \A t \in Targets :
        /\ set.files[ArchiveName(t)].file = runtimes[t].archive
        /\ set.files[ResolvedWheel(t, resolved)].file = wheels[t].wheel
  BY <1>2, <1>4, <1>7, <1>8, <1>9, <1>10 DEF ++
<1>13. DOMAIN set.files
       = {ArchiveName(t) : t \in Targets} \cup {ResolvedWheel(t, resolved) : t \in Targets}
  BY <1>2, <1>4, <1>7, <1>11 DEF ++
<1>14. ASSUME NEW t \in Targets, NEW c \in Components
       PROVE  runtimes[t].archive.files[Packaged(c, BuildInfo)].revision = resolved.revisions[c]
  <2>1. PackageValid(runtimes[t].archive, t, resolved)
    BY <1>1 DEF PlatformValid
  <2> QED
    BY <2>1, Zenon DEF PackageValid, PackagedComponentValid
<1> QED
  BY <1>5, <1>6, <1>12, <1>13, <1>14 DEF SetFrom, FilesFrom

LEMMA FourFinite ==
    ASSUME NEW a, NEW b, NEW c, NEW d
    PROVE  IsFiniteSet({a, b, c, d})
<1>1. IsFiniteSet({a} \cup {b})
  BY FS_Singleton, FS_AddElement
<1>2. IsFiniteSet({a} \cup {b} \cup {c})
  BY <1>1, FS_AddElement
<1>3. IsFiniteSet({a} \cup {b} \cup {c} \cup {d})
  BY <1>2, FS_AddElement
<1>4. {a, b, c, d} = {a} \cup {b} \cup {c} \cup {d}
  OBVIOUS
<1> QED
  BY <1>3, <1>4

LEMMA TargetsFinite == IsFiniteSet(Targets)
<1>1. IsFiniteSet({"windows-x86_64", "linux-x86_64", "macos-x86_64", "macos-aarch64"})
  BY FourFinite
<1> QED
  BY <1>1, MatrixAssumption, FS_Subset

\* Names that end with their target are as many as the targets.
LEMMA OnePerTarget ==
    ASSUME NEW name, name \in [Targets -> {name[t] : t \in Targets}],
           \A t, u \in Targets : name[t] = name[u] => t = u
    PROVE  /\ IsFiniteSet({name[t] : t \in Targets})
           /\ Cardinality({name[t] : t \in Targets}) = Cardinality(Targets)
<1>1. name \in Bijection(Targets, {name[t] : t \in Targets})
  BY DEF Bijection, Injection, Surjection, IsInjective
<1> QED
  BY <1>1, TargetsFinite, FS_Bijection DEF ExistsBijection

LEMMA SetSize ==
    ASSUME NEW files, NEW resolved, FilesFrom(files, resolved)
    PROVE  Cardinality(DOMAIN files) = 2 * Cardinality(Targets)
<1> DEFINE archive == [t \in Targets |-> ArchiveName(t)]
           wheel == [t \in Targets |-> ResolvedWheel(t, resolved)]
           archives == {archive[t] : t \in Targets}
           wheels == {wheel[t] : t \in Targets}
<1>1. IsFiniteSet(archives) /\ Cardinality(archives) = Cardinality(Targets)
  <2>1. \A t, u \in Targets : archive[t] = archive[u] => t = u
    BY DEF ArchiveName
  <2>2. archive \in [Targets -> archives]
    OBVIOUS
  <2> HIDE DEF archive
  <2> QED
    BY <2>1, <2>2, OnePerTarget
<1>2. IsFiniteSet(wheels) /\ Cardinality(wheels) = Cardinality(Targets)
  <2>1. \A t, u \in Targets : wheel[t] = wheel[u] => t = u
    BY DEF ResolvedWheel
  <2>2. wheel \in [Targets -> wheels]
    OBVIOUS
  <2> HIDE DEF wheel
  <2> QED
    BY <2>1, <2>2, OnePerTarget
<1>3. archives \cap wheels = {}
  BY DEF ArchiveName, ResolvedWheel
<1>4. DOMAIN files = archives \cup wheels
  BY DEF FilesFrom
<1> HIDE DEF archives, wheels
<1>5. Cardinality(archives \cup wheels)
      = Cardinality(archives) + Cardinality(wheels) - Cardinality(archives \cap wheels)
  BY <1>1, <1>2, FS_Union
<1>6. Cardinality(archives \cap wheels) = 0 /\ Cardinality(Targets) \in Nat
  BY <1>3, FS_EmptySet, FS_CardinalityType, TargetsFinite
<1> QED
  BY <1>1, <1>2, <1>4, <1>5, <1>6

-----------------------------------------------------------------------------
(* While they stand, the jobs have left what the release is made of. *)

\* A platform or a wheel job that stands as a success has uploaded its result.
StoredInv ==
    \A k \in {"darkpanda", "python"}, t \in Targets : job[<<k, t>>] = "success" => Has(<<k, t>>)

\* While prepare stands as a success, the document it uploaded is its output.
ResolutionInv ==
    job[<<"prepare">>] = "success" => Has(Resolved) /\ artifacts[Resolved] = outputs

\* A wheel that has passed was built from the revision in its report.
WheelsFromInv ==
    \A t \in Targets : Has(<<"python", t>>) => WheelFrom(t, artifacts[<<"python", t>>])

\* While a wheel job stands as a success, the archive it took its libraries from is in place.
LibrariesInv ==
    \A t \in Targets : job[<<"python", t>>] = "success" =>
        CarriesLibraries(t, artifacts[<<"python", t>>].wheel, artifacts[<<"darkpanda", t>>].archive)

\* The uploaded set, from whichever attempt.
SetFromInv == Has(Prebuilt) => \E resolved : SetFrom(artifacts[Prebuilt], resolved)

\* While the aggregate stands as a success, the set is of the present resolution, and its wheels
\* carry the libraries of its archives.
AggregatedInv ==
    job[<<"aggregate">>] = "success" =>
        LET set == artifacts[Prebuilt] IN
        /\ SetFrom(set, outputs)
        /\ \A t \in Targets :
            CarriesLibraries(t, set.files[ResolvedWheel(t, outputs)].file,
                             set.files[ArchiveName(t)].file)

\* The release has every asset of the set that it is not still to upload.
PublishedInv ==
    job[<<"release">>] \in {"running", "success"} =>
        \A n \in DOMAIN Assets \ uploads : n \in DOMAIN release /\ release[n] = Assets[n]

TogetherInv ==
    /\ StoredInv
    /\ ResolutionInv
    /\ WheelsFromInv
    /\ LibrariesInv
    /\ SetFromInv
    /\ AggregatedInv
    /\ PublishedInv

-----------------------------------------------------------------------------
\* What the run of a wheel job leaves.
LEMMA PythonStores ==
    ASSUME NEW t \in Targets, PythonRuns(t)
    PROVE  \E result :
            /\ Store(<<"python", t>>, result)
            /\ Ends(<<"python", t>>, result.report.status = "passed")
            /\ WheelFrom(t, result)
            /\ result.report.status = "passed" =>
                CarriesLibraries(t, result.wheel, artifacts[<<"darkpanda", t>>].archive)
<1>1. PICK source, fault :
        LET result == WheelResult(t, source, artifacts[<<"darkpanda", t>>],
                                  artifacts[<<"toolchain", t>>], outputs, fault, fault = "wheelCut")
        IN  Store(<<"python", t>>, result) /\ Ends(<<"python", t>>, result.report.status = "passed")
  BY DEF PythonRuns
<1> DEFINE result == WheelResult(t, source, artifacts[<<"darkpanda", t>>],
                                 artifacts[<<"toolchain", t>>], outputs, fault, fault = "wheelCut")
<1>2. /\ WheelFrom(t, result)
      /\ result.report.status = "passed" =>
            CarriesLibraries(t, result.wheel, artifacts[<<"darkpanda", t>>].archive)
  BY WheelResultFrom
<1>3. Store(<<"python", t>>, result) /\ Ends(<<"python", t>>, result.report.status = "passed")
  BY <1>1
<1> HIDE DEF result
<1> QED
  BY <1>2, <1>3

LEMMA DarkpandaStores ==
    ASSUME NEW t \in Targets, DarkpandaRuns(t)
    PROVE  \E result : Store(<<"darkpanda", t>>, result)
BY DEF DarkpandaRuns

LEMMA ToolchainStores ==
    ASSUME NEW t \in Targets, ToolchainRuns(t)
    PROVE  UNCHANGED artifacts \/ \E bundle : Store(<<"toolchain", t>>, bundle)
BY DEF ToolchainRuns

LEMMA ComponentStores ==
    ASSUME NEW c \in Components, NEW t \in Targets, ComponentRuns(c, t)
    PROVE  \E dist : Store(<<"components", c, t>>, dist)
BY DEF ComponentRuns

\* The artifact of one job of a kind that another job of the kind, or of another kind, leaves alone.
LEMMA LegArtifact ==
    ASSUME Next, NEW k \in {"toolchain", "darkpanda", "python"}, NEW t \in Targets, Has(<<k, t>>)
    PROVE  /\ Has(<<k, t>>)'
           /\ \/ artifacts'[<<k, t>>] = artifacts[<<k, t>>]
              \/ k = "toolchain" /\ ToolchainRuns(t)
              \/ k = "darkpanda" /\ DarkpandaRuns(t)
              \/ k = "python" /\ PythonRuns(t)
<1> DEFINE n == <<k, t>>
           Apart(u) == n \in DOMAIN artifacts' /\ (u # t => artifacts'[n] = artifacts[n])
<1>1. n \in DOMAIN artifacts /\ n[1] = k
  BY DEF Has
<1>2. CASE Leaves(k)
  BY <1>1, <1>2 DEF Leaves, Has
<1>3. ASSUME NEW u \in Targets, NEW content, Store(<<k, u>>, content)
      PROVE  Apart(u)
  <2>1. DOMAIN artifacts' = {<<k, u>>} \cup DOMAIN artifacts
        /\ \A m \in DOMAIN artifacts : m # <<k, u>> => artifacts'[m] = artifacts[m]
    BY <1>3, StoreEffect
  <2> QED
    BY <1>1, <2>1
<1>4. ASSUME UNCHANGED artifacts, NEW u PROVE Apart(u)
  BY <1>1, <1>4
<1> HIDE DEF Apart
<1>5. ASSUME NEW u \in Targets, k = "toolchain", ToolchainRuns(u) PROVE Apart(u)
  BY <1>3, <1>4, <1>5, ToolchainStores
<1>6. ASSUME NEW u \in Targets, k = "darkpanda", DarkpandaRuns(u) PROVE Apart(u)
  BY <1>3, <1>6, DarkpandaStores
<1>7. ASSUME NEW u \in Targets, k = "python", PythonRuns(u) PROVE Apart(u)
  BY <1>3, <1>7, PythonStores
<1> QED
  BY <1>2, <1>5, <1>6, <1>7, OtherArtifacts DEF Has, Apart

LEMMA BuildArtifact ==
    ASSUME Next, NEW c \in Components, NEW t \in Targets, Has(<<"components", c, t>>)
    PROVE  /\ Has(<<"components", c, t>>)'
           /\ artifacts'[<<"components", c, t>>] = artifacts[<<"components", c, t>>] \/ ComponentRuns(c, t)
<1> DEFINE n == <<"components", c, t>>
<1>1. n \in DOMAIN artifacts /\ n[1] = "components"
  BY DEF Has
<1>2. CASE Leaves("components")
  BY <1>1, <1>2 DEF Leaves, Has
<1>3. ASSUME NEW d \in Components, NEW u \in Targets, ComponentRuns(d, u)
      PROVE  n \in DOMAIN artifacts' /\ (<<d, u>> # <<c, t>> => artifacts'[n] = artifacts[n])
  <2>1. PICK dist : Store(<<"components", d, u>>, dist)
    BY <1>3, ComponentStores
  <2>2. DOMAIN artifacts' = {<<"components", d, u>>} \cup DOMAIN artifacts
        /\ \A m \in DOMAIN artifacts : m # <<"components", d, u>> => artifacts'[m] = artifacts[m]
    BY <2>1, StoreEffect
  <2> QED
    BY <1>1, <2>2
<1> QED
  BY <1>2, <1>3, OtherArtifacts DEF Has

LEMMA StoredStep == ASSUME GraphInv, StoredInv, Next PROVE StoredInv'
<1> SUFFICES ASSUME NEW k \in {"darkpanda", "python"}, NEW t \in Targets, job'[<<k, t>>] = "success"
             PROVE  Has(<<k, t>>)'
  BY DEF StoredInv
<1>1. CASE job[<<k, t>>] = "success"
  BY <1>1, LegArtifact DEF StoredInv
<1>2. CASE job[<<k, t>>] # "success"
  <2>1. (k = "darkpanda" /\ DarkpandaRuns(t)) \/ (k = "python" /\ PythonRuns(t))
    BY <1>2, ItsOwnRun, LegsAreTheJobs DEF GraphInv
  <2>2. \E result : Store(<<k, t>>, result)
    BY <2>1, DarkpandaStores, PythonStores
  <2> QED
    BY <2>2, StoreEffect DEF Has
<1> QED
  BY <1>1, <1>2

\* A job that stands as a success does not run.
LEMMA StandingJobs ==
    /\ job[<<"prepare">>] = "success" => ~PrepareRuns
    /\ job[<<"aggregate">>] = "success" => ~AggregateRuns
    /\ \A t \in Targets : job[<<"python", t>>] = "success" => ~PythonRuns(t)
<1>1. job[<<"prepare">>] = "success" => ~PrepareRuns
  BY PrepareServes, LegsAreTheJobs, ServedJob
<1>2. job[<<"aggregate">>] = "success" => ~AggregateRuns
  BY AggregateServes, SingleJobs, ServedJob
<1>3. \A t \in Targets : job[<<"python", t>>] = "success" => ~PythonRuns(t)
  BY PythonServes, LegsAreTheJobs, ServedJob
<1> QED
  BY <1>1, <1>2, <1>3

LEMMA ResolutionStep == ASSUME GraphInv, ResolutionInv, Next PROVE ResolutionInv'
<1> SUFFICES ASSUME job'[<<"prepare">>] = "success"
             PROVE  Has(Resolved)' /\ artifacts'[Resolved] = outputs'
  BY DEF ResolutionInv
<1>1. CASE job[<<"prepare">>] = "success"
  <2>1. Leaves("resolved-inputs") /\ UNCHANGED outputs
    BY <1>1, StandingJobs, OtherResolution
  <2> QED
    BY <1>1, <2>1 DEF ResolutionInv, Has, Leaves, Resolved
<1>2. CASE job[<<"prepare">>] # "success"
  <2>1. PrepareRuns
    BY <1>2, ItsOwnRun, LegsAreTheJobs DEF GraphInv
  <2>2. PICK resolved, fault :
            /\ outputs' = resolved
            /\ fault = "none" => Store(Resolved, resolved)
            /\ Ends(<<"prepare">>, fault = "none")
    BY <2>1 DEF PrepareRuns
  <2>3. fault = "none"
    BY <2>2, LegsAreTheJobs DEF Ends, GraphInv, GraphTypeOK
  <2> QED
    BY <2>2, <2>3, StoreEffect DEF Has
<1> QED
  BY <1>1, <1>2

LEMMA WheelsFromStep == ASSUME WheelsFromInv, Next PROVE WheelsFromInv'
<1> SUFFICES ASSUME NEW t \in Targets, Has(<<"python", t>>)'
             PROVE  WheelFrom(t, artifacts'[<<"python", t>>])
  BY DEF WheelsFromInv, WheelFrom
<1>1. CASE PythonRuns(t)
  BY <1>1, PythonStores, StoreEffect, ZenonT(60)
<1>2. CASE ~PythonRuns(t) /\ Has(<<"python", t>>)
  BY <1>2, LegArtifact DEF WheelsFromInv
<1>3. CASE ~PythonRuns(t) /\ ~Has(<<"python", t>>)
  <2>1. CASE Leaves("python")
    BY <1>3, <2>1 DEF Leaves, Has
  <2>2. ASSUME NEW u \in Targets, PythonRuns(u) PROVE FALSE
    <3>1. PICK result : Store(<<"python", u>>, result)
      BY <2>2, PythonStores
    <3>2. <<"python", t>> \in {<<"python", u>>} \cup DOMAIN artifacts
      BY <3>1, StoreEffect DEF Has
    <3> QED
      BY <1>3, <2>2, <3>2 DEF Has
  <2> QED
    BY <2>1, <2>2, OtherArtifacts
<1> QED
  BY <1>1, <1>2, <1>3

\* While a wheel job stands, the platforms do.
LEMMA PlatformsStand ==
    ASSUME GraphInv, NEW t \in Targets, job[<<"python", t>>] \in {"success", "failure"}
    PROVE  \A u \in Targets : job[<<"darkpanda", u>>] = "success"
<1>1. Condition("python")
  BY LegsAreTheJobs DEF GraphInv, RanUnderCondition
<1>2. "darkpanda" \in Ancestors("python")
  BY DEF Ancestors, Rank, Kinds
<1>3. Succeeded("darkpanda")
  BY <1>1, <1>2 DEF Condition, ChainSucceeded
<1> QED
  BY <1>3 DEF Succeeded, Legs

LEMMA LibrariesStep == ASSUME GraphInv, StoredInv, LibrariesInv, Next PROVE LibrariesInv'
<1> SUFFICES ASSUME NEW t \in Targets, job'[<<"python", t>>] = "success"
             PROVE  CarriesLibraries(t, artifacts'[<<"python", t>>].wheel,
                                     artifacts'[<<"darkpanda", t>>].archive)
  BY DEF LibrariesInv, CarriesLibraries
<1> DEFINE p == <<"python", t>>
           d == <<"darkpanda", t>>
<1>1. CASE job[p] = "success"
  <2>1. job[d] = "success"
    BY <1>1, PlatformsStand
  <2>2. Has(p) /\ Has(d)
    BY <1>1, <2>1 DEF StoredInv
  <2>3. ~DarkpandaRuns(t)
    BY <2>1, DarkpandaServes, LegsAreTheJobs, ServedJob
  <2>4. artifacts'[p] = artifacts[p] /\ artifacts'[d] = artifacts[d]
    BY <1>1, <2>2, <2>3, LegArtifact, StandingJobs
  <2> QED
    BY <1>1, <2>4 DEF LibrariesInv
<1>2. CASE job[p] # "success"
  <2>1. PythonRuns(t)
    BY <1>2, ItsOwnRun, LegsAreTheJobs DEF GraphInv
  <2>2. PICK result :
            /\ Store(p, result)
            /\ Ends(p, result.report.status = "passed")
            /\ result.report.status = "passed" => CarriesLibraries(t, result.wheel, artifacts[d].archive)
    BY <2>1, PythonStores
  <2>3. result.report.status = "passed"
    BY <2>2, LegsAreTheJobs DEF Ends, GraphInv, GraphTypeOK
  <2>4. job[d] = "success"
    <3>1. Condition("python") /\ "darkpanda" \in Ancestors("python")
      BY <2>1 DEF PythonRuns, Ready, Ancestors, Rank, Kinds
    <3> QED
      BY <3>1 DEF Condition, ChainSucceeded, Succeeded, Legs
  <2>5. d \in DOMAIN artifacts /\ d # p
    BY <2>4 DEF StoredInv, Has
  <2>6. artifacts'[p] = result /\ artifacts'[d] = artifacts[d]
    BY <2>2, <2>5, StoreEffect
  <2> QED
    BY <2>2, <2>3, <2>6
<1> QED
  BY <1>1, <1>2

\* A set is [files, sums], whatever else the aggregate knows of it.
LEMMA StoredSet ==
    ASSUME NEW set, NEW resolved, SetFrom(set, resolved),
           Store(Prebuilt, [files |-> set.files, sums |-> set.sums])
    PROVE  /\ artifacts'[Prebuilt].files = set.files
           /\ SetFrom(artifacts'[Prebuilt], resolved)
<1>1. artifacts'[Prebuilt] = [files |-> set.files, sums |-> set.sums]
  BY StoreEffect
<1>2. artifacts'[Prebuilt].files = set.files /\ artifacts'[Prebuilt].sums = set.sums
  BY <1>1
<1> QED
  BY <1>2 DEF SetFrom

\* What the aggregate has validated, from the artifacts it downloaded.
LEMMA ValidatedSet ==
    ASSUME WheelsFromInv, Validated.native, Validated.set.ok
    PROVE  /\ SetFrom(Validated.set, artifacts[Resolved])
           /\ \A t \in Targets :
                /\ Validated.set.files[ArchiveName(t)].file = artifacts[<<"darkpanda", t>>].archive
                /\ Validated.set.files[ResolvedWheel(t, artifacts[Resolved])].file
                   = artifacts[<<"python", t>>].wheel
<1> DEFINE runtimes == Downloaded("darkpanda")
           wheels == Downloaded("python")
           native == NativeRelease(runtimes, artifacts[Resolved])
           set == PythonRelease(wheels, artifacts[Resolved], native)
<1>1. native.ok /\ set.ok /\ Validated.set = set
  BY DEF Validated
<1>2. DOMAIN runtimes = Targets
  BY <1>1 DEF NativeRelease
<1>3. DOMAIN wheels = Targets
  BY <1>1 DEF PythonRelease
<1>4. /\ \A t \in Targets : runtimes[t] = artifacts[<<"darkpanda", t>>]
      /\ \A t \in Targets : Has(<<"python", t>>) /\ wheels[t] = artifacts[<<"python", t>>]
  BY <1>2, <1>3, DownloadedOf DEF Has
<1>5. \A t \in Targets : WheelFrom(t, wheels[t])
  BY <1>4 DEF WheelsFromInv
<1> HIDE DEF runtimes, wheels
<1>6. PICK n, s : n = native /\ s = set
  OBVIOUS
<1>7. /\ SetFrom(s, artifacts[Resolved])
      /\ \A t \in Targets :
            /\ s.files[ArchiveName(t)].file = runtimes[t].archive
            /\ s.files[ResolvedWheel(t, artifacts[Resolved])].file = wheels[t].wheel
  BY <1>1, <1>5, <1>6, AcceptedSet
<1> QED
  BY <1>1, <1>4, <1>6, <1>7

\* The aggregate uploads its set only if both validators have passed.
LEMMA AggregateStores ==
    ASSUME AggregateRuns
    PROVE  \/ UNCHANGED artifacts
           \/ /\ Has(Resolved) /\ Validated.native /\ Validated.set.ok
              /\ Store(Prebuilt, [files |-> Validated.set.files, sums |-> Validated.set.sums])
BY DEF AggregateRuns

LEMMA SetFromStep == ASSUME WheelsFromInv, SetFromInv, Next PROVE SetFromInv'
<1> SUFFICES ASSUME Has(Prebuilt)'
             PROVE  \E resolved : SetFrom(artifacts'[Prebuilt], resolved)
  BY DEF SetFromInv, SetFrom, FilesFrom, ResolvedWheel
<1>1. CASE UNCHANGED artifacts \/ Leaves("darkpanda-prebuilt-all")
  <2>1. Has(Prebuilt) /\ artifacts'[Prebuilt] = artifacts[Prebuilt]
    BY <1>1 DEF Leaves, Has, Prebuilt
  <2> QED
    BY <2>1 DEF SetFromInv
<1>2. CASE AggregateRuns /\ ~UNCHANGED artifacts
  <2>1. /\ SetFrom(Validated.set, artifacts[Resolved])
        /\ Store(Prebuilt, [files |-> Validated.set.files, sums |-> Validated.set.sums])
    BY <1>2, AggregateStores, ValidatedSet
  <2>2. SetFrom(artifacts'[Prebuilt], artifacts[Resolved])
    BY <2>1, StoredSet
  <2> QED
    BY <2>2
<1> QED
  BY <1>1, <1>2, OtherArtifacts

LEMMA AggregatedStep ==
    ASSUME GraphInv, PrebuiltInv, ResolutionInv, WheelsFromInv, LibrariesInv, AggregatedInv, Next,
           GraphInv'
    PROVE  AggregatedInv'
<1> DEFINE set == artifacts'[Prebuilt]
<1>1. ASSUME job'[<<"aggregate">>] = "success"
      PROVE  /\ SetFrom(set, outputs)
             /\ UNCHANGED outputs
             /\ \A t \in Targets :
                    CarriesLibraries(t, set.files[ResolvedWheel(t, outputs)].file,
                                     set.files[ArchiveName(t)].file)
  <2>1. CASE job[<<"aggregate">>] = "success"
    <3>1. job[<<"prepare">>] = "success"
      BY <2>1 DEF GraphInv, GatedAggregate, GateHolds, Succeeded, Legs
    <3>2. UNCHANGED outputs
      BY <3>1, StandingJobs, OtherResolution
    <3>3. artifacts'[Prebuilt] = artifacts[Prebuilt]
      BY <2>1, StandingJobs, OtherArtifacts DEF Leaves, PrebuiltInv, Has, Prebuilt
    <3> QED
      BY <2>1, <3>2, <3>3 DEF AggregatedInv
  <2>2. CASE job[<<"aggregate">>] # "success"
    <3>1. AggregateRuns
      BY <1>1, <2>2, ItsOwnRun, SingleJobs DEF GraphInv
    <3>2. UNCHANGED outputs
      BY <3>1 DEF AggregateRuns
    <3> DEFINE valid == Has(Resolved) /\ Validated.native /\ Validated.set.ok
    <3>3. GateHolds /\ valid
      BY <1>1, <3>1, SingleJobs DEF AggregateRuns, EndsBehindGate, Ends, GraphInv, GraphTypeOK
    <3>4. Store(Prebuilt, [files |-> Validated.set.files, sums |-> Validated.set.sums])
      BY <3>1, <3>3 DEF AggregateRuns
    <3>5. job[<<"prepare">>] = "success" /\ \A t \in Targets : job[<<"python", t>>] = "success"
      BY <3>3 DEF GateHolds, Succeeded, Legs
    <3>6. artifacts[Resolved] = outputs
      BY <3>5 DEF ResolutionInv
    <3>7. /\ SetFrom(Validated.set, outputs)
          /\ \A t \in Targets :
                /\ Validated.set.files[ArchiveName(t)].file = artifacts[<<"darkpanda", t>>].archive
                /\ Validated.set.files[ResolvedWheel(t, outputs)].file = artifacts[<<"python", t>>].wheel
      BY <3>3, <3>6, ValidatedSet
    <3>8. set.files = Validated.set.files /\ SetFrom(set, outputs)
      BY <3>4, <3>7, StoredSet
    <3> QED
      BY <3>2, <3>5, <3>7, <3>8 DEF LibrariesInv
  <2> QED
    BY <2>1, <2>2
<1> QED
  BY <1>1, ZenonT(60) DEF AggregatedInv, SetFrom, FilesFrom, ResolvedWheel

\* While the release stands or runs, so does the aggregate, and its set is in place.
LEMMA AggregateStands ==
    ASSUME GraphInv, PrebuiltInv, job[<<"release">>] \in {"running", "success"}
    PROVE  job[<<"aggregate">>] = "success" /\ Has(Prebuilt)
<1>1. Condition("release")
  BY SingleJobs DEF GraphInv, RanUnderCondition
<1>2. "aggregate" \in Ancestors("release")
  BY DEF Ancestors, Rank, Kinds
<1>3. job[<<"aggregate">>] = "success"
  BY <1>1, <1>2, SingleJobs DEF Condition, ChainSucceeded, Succeeded
<1> QED
  BY <1>3 DEF PrebuiltInv

LEMMA AssetsStay ==
    ASSUME GraphInv, PrebuiltInv, Next, job[<<"release">>] \in {"running", "success"}
    PROVE  UNCHANGED Assets
<1>1. job[<<"aggregate">>] = "success" /\ Has(Prebuilt)
  BY AggregateStands
<1>2. artifacts'[Prebuilt] = artifacts[Prebuilt]
  BY <1>1, StandingJobs, OtherArtifacts DEF Leaves, Has, Prebuilt
<1> QED
  BY <1>2 DEF Assets

LEMMA PublishedStep ==
    ASSUME GraphInv, PrebuiltInv, UploadsWhileRunning, UploadsWhileRunning', PublishedInv, Next
    PROVE  PublishedInv'
<1> DEFINE r == <<"release">>
           Covered == \A n \in DOMAIN Assets' \ uploads' : n \in DOMAIN release' /\ release'[n] = Assets'[n]
<1>1. CASE ReleaseStarts
  <2>1. UNCHANGED artifacts
    BY <1>1 DEF ReleaseStarts
  <2>2. UNCHANGED Assets
    BY <2>1 DEF Assets
  <2>3. release' = Assets \/ uploads' = DOMAIN Assets
    BY <1>1 DEF ReleaseStarts, ReplaceAssets
  <2>4. Covered
    BY <2>2, <2>3
  <2> QED
    BY <2>4 DEF PublishedInv
<1>2. CASE ReleaseUploads
  <2>1. PICK name \in uploads : /\ release' = File(name, Assets[name]) ++ release
                                /\ uploads' = uploads \ {name}
    BY <1>2 DEF ReleaseUploads
  <2>2. UNCHANGED Assets
    BY <1>2 DEF ReleaseUploads, Assets
  <2>3. job[r] = "running"
    BY <1>2 DEF ReleaseUploads
  <2>4. \A n : \/ n = name /\ n \in DOMAIN release' /\ release'[n] = Assets[n]
               \/ n # name /\ (n \in DOMAIN release =>
                                    n \in DOMAIN release' /\ release'[n] = release[n])
    BY <2>1 DEF File, ++
  <2>5. Covered
    BY <2>1, <2>2, <2>3, <2>4 DEF PublishedInv
  <2> QED
    BY <2>5 DEF PublishedInv
<1>3. CASE /\ ~ReleaseStarts /\ ~ReleaseUploads
           /\ job'[r] \in {"running", "success"}
  <2>1. UNCHANGED release
    BY <1>3, OtherArtifacts
  <2>2. job[r] \in {"running", "success"}
    BY <1>3, ItsOwnRun, ReleaseRuns, SingleJobs DEF GraphInv
  <2>3. UNCHANGED Assets
    BY <2>2, AssetsStay
  <2>4. CASE job'[r] = "running"
    <3>1. job[r] = "running" /\ uploads' = uploads
      BY <1>3, <2>4, ReleaseRuns DEF GraphInv, UploadsWhileRunning
    <3> QED
      BY <2>1, <2>3, <3>1 DEF PublishedInv
  <2>5. CASE job'[r] = "success"
    <3>1. job[r] = "success"
      BY <1>3, <2>5, ItsOwnRun, SingleJobs DEF GraphInv
    <3>2. uploads = {} /\ uploads' = {}
      BY <2>5, <3>1 DEF UploadsWhileRunning
    <3> QED
      BY <2>1, <2>3, <3>1, <3>2 DEF PublishedInv
  <2> QED
    BY <1>3, <2>4, <2>5
<1>4. CASE job'[r] \notin {"running", "success"}
  BY <1>4 DEF PublishedInv
<1> QED
  BY <1>1, <1>2, <1>3, <1>4

-----------------------------------------------------------------------------
LEMMA InitTogether == Init => TogetherInv
<1> SUFFICES ASSUME Init PROVE TogetherInv
  OBVIOUS
<1>1. DOMAIN artifacts = {}
  BY DEF Init
<1>2. \A j \in Jobs : job[j] = "queued"
  BY DEF Init, GraphInit
<1> QED
  BY <1>1, <1>2, SingleJobs, LegsAreTheJobs
  DEF TogetherInv, StoredInv, ResolutionInv, WheelsFromInv, LibrariesInv, SetFromInv, AggregatedInv,
      PublishedInv, Has

LEMMA TogetherStep ==
    /\ GraphInv /\ TestedInv /\ TypeOK /\ TogetherInv
    /\ [Next]_vars
    /\ GraphInv' /\ TypeOK'
    => TogetherInv'
<1> SUFFICES ASSUME GraphInv, TestedInv, TypeOK, TogetherInv, [Next]_vars, GraphInv', TypeOK'
             PROVE  TogetherInv'
  OBVIOUS
<1> USE DEF TogetherInv
<1>1. CASE Next
  <2>1. UploadsWhileRunning /\ UploadsWhileRunning' /\ PrebuiltInv
    BY DEF TypeOK, UploadsWhileRunning, TestedInv
  <2>2. StoredInv' /\ ResolutionInv' /\ WheelsFromInv' /\ LibrariesInv'
    BY <1>1, StoredStep, ResolutionStep, WheelsFromStep, LibrariesStep
  <2>3. SetFromInv' /\ AggregatedInv'
    BY <1>1, <2>1, SetFromStep, AggregatedStep
  <2>4. PublishedInv'
    BY <1>1, <2>1, PublishedStep
  <2> QED
    BY <2>2, <2>3, <2>4
<1>2. CASE UNCHANGED vars
  <2>1. UNCHANGED <<job, outputs, artifacts, release, uploads>>
    BY <1>2 DEF vars
  <2>2. StoredInv' /\ ResolutionInv' /\ WheelsFromInv'
    BY <2>1 DEF StoredInv, ResolutionInv, WheelsFromInv, WheelFrom, Has
  <2>3. LibrariesInv'
    BY <2>1 DEF LibrariesInv, CarriesLibraries
  <2>4. SetFromInv'
    BY <2>1 DEF SetFromInv, SetFrom, FilesFrom, ResolvedWheel, Has
  <2>5. AggregatedInv'
    BY <2>1 DEF AggregatedInv, SetFrom, FilesFrom, ResolvedWheel, CarriesLibraries
  <2>6. PublishedInv'
    BY <2>1 DEF PublishedInv, Assets
  <2> QED
    BY <2>2, <2>3, <2>4, <2>5, <2>6
<1> QED
  BY <1>1, <1>2

LEMMA PipelineTogether == Spec => [](GraphInv /\ TestedInv /\ TypeOK /\ TogetherInv)
BY PipelineGraph, InitTogether, TogetherStep, PipelineTested, PipelineTypeOK, PTL DEF Spec

\* What a SHA256SUMS file says.
LEMMA SumsDeclare ==
    ASSUME NEW contents, NEW sums, sums = SumsOf(contents)
    PROVE  /\ Declared(sums) = DOMAIN contents
           /\ \A l \in sums.lines : l.path \in DOMAIN contents /\ l.sha = Sha256(contents[l.path])
<1>1. sums.lines = {[path |-> p, sha |-> Sha256(contents[p])] : p \in DOMAIN contents}
  BY DEF SumsOf
<1>2. \A l \in sums.lines : \E p \in DOMAIN contents : l = [path |-> p, sha |-> Sha256(contents[p])]
  BY <1>1
<1>3. ASSUME NEW p \in DOMAIN contents PROVE p \in Declared(sums)
  <2> DEFINE line == [path |-> p, sha |-> Sha256(contents[p])]
  <2>1. line \in sums.lines /\ line.path = p
    BY <1>1
  <2> HIDE DEF line
  <2> QED
    BY <2>1 DEF Declared
<1>4. \A l \in sums.lines : l.path \in DOMAIN contents /\ l.sha = Sha256(contents[l.path])
  BY <1>2
<1>5. \A p \in Declared(sums) : p \in DOMAIN contents
  BY <1>4 DEF Declared
<1> QED
  BY <1>3, <1>4, <1>5

\* The uploaded set is complete and of one resolution, whichever attempts its parts are from.
THEOREM PrebuiltOfOneResolution == Spec => []PrebuiltIsOneResolution
<1>1. SetFromInv => PrebuiltIsOneResolution
  <2> SUFFICES ASSUME SetFromInv, Has(Prebuilt) PROVE PrebuiltIsOneResolution
    BY DEF PrebuiltIsOneResolution
  <2>1. PICK resolved : SetFrom(artifacts[Prebuilt], resolved)
    BY DEF SetFromInv
  <2> DEFINE files == artifacts[Prebuilt].files
  <2>2. FilesFrom(files, resolved)
    BY <2>1 DEF SetFrom
  <2>3. Declared(artifacts[Prebuilt].sums) = DOMAIN files
    <3> DEFINE contents == [n \in DOMAIN files |-> files[n].file]
    <3>1. artifacts[Prebuilt].sums = SumsOf(contents)
      BY <2>1 DEF SetFrom
    <3>2. DOMAIN contents = DOMAIN files
      OBVIOUS
    <3> HIDE DEF contents
    <3> QED
      BY <3>1, <3>2, SumsDeclare
  <2> HIDE DEF files
  <2>4. ASSUME NEW n \in DOMAIN files
        PROVE  \/ \E t \in Targets : n = ArchiveName(t) /\ n[1] = "darkpanda"
               \/ \E t \in Targets : n = ResolvedWheel(t, resolved) /\ n[1] = "py_darkpanda"
    BY <2>2 DEF FilesFrom, ArchiveName, ResolvedWheel
  <2>5. ASSUME NEW n \in DOMAIN files, n[1] = "py_darkpanda"
        PROVE  files[n].file.files[Extension] = [source |-> resolved.revisions[Binding]]
    <3>1. PICK t \in Targets : n = ResolvedWheel(t, resolved)
      BY <2>4, <2>5
    <3> QED
      BY <2>2, <3>1 DEF FilesFrom
  <2>6. ASSUME NEW a \in Archives(files), NEW c \in Components
        PROVE  a.files[Packaged(c, BuildInfo)].revision = resolved.revisions[c]
    <3>1. PICK n \in DOMAIN files : n[1] = "darkpanda" /\ a = files[n].file
      BY DEF Archives
    <3>2. PICK t \in Targets : n = ArchiveName(t)
      BY <2>4, <3>1
    <3> QED
      BY <2>2, <3>1, <3>2 DEF FilesFrom
  <2>7. Cardinality(DOMAIN files) = 2 * Cardinality(Targets)
    BY <2>2, SetSize
  <2> QED
    BY <2>3, <2>5, <2>6, <2>7 DEF PrebuiltIsOneResolution, files
<1>2. TogetherInv => SetFromInv
  BY DEF TogetherInv
<1> QED
  BY <1>1, <1>2, PipelineTogether, PTL

\* What is published when the release has succeeded.
LEMMA ReleasedSet ==
    ASSUME GraphInv, TestedInv, TypeOK, TogetherInv, job[<<"release">>] = "success"
    PROVE  LET set == artifacts[Prebuilt] IN
           /\ SetFrom(set, outputs)
           /\ \A t \in Targets :
                CarriesLibraries(t, set.files[ResolvedWheel(t, outputs)].file,
                                 set.files[ArchiveName(t)].file)
           /\ \A n \in DOMAIN set.files : n \in DOMAIN release /\ release[n] = set.files[n]
           /\ release[<<"SHA256SUMS">>].file = set.sums
<1> DEFINE set == artifacts[Prebuilt]
<1>1. job[<<"aggregate">>] = "success"
  BY AggregateStands DEF TestedInv
<1>2. /\ SetFrom(set, outputs)
      /\ \A t \in Targets :
            CarriesLibraries(t, set.files[ResolvedWheel(t, outputs)].file,
                             set.files[ArchiveName(t)].file)
  BY <1>1 DEF TogetherInv, AggregatedInv
<1>3. uploads = {}
  BY DEF TypeOK
<1>4. \A n \in DOMAIN Assets : n \in DOMAIN release /\ release[n] = Assets[n]
  BY <1>3 DEF TogetherInv, PublishedInv
<1>5. <<"SHA256SUMS">> \notin DOMAIN set.files
  BY <1>2 DEF SetFrom, FilesFrom, ArchiveName, ResolvedWheel
<1> HIDE DEF set
<1>6. /\ \A n \in DOMAIN set.files : n \in DOMAIN Assets /\ Assets[n] = set.files[n]
      /\ <<"SHA256SUMS">> \in DOMAIN Assets
      /\ Assets[<<"SHA256SUMS">>] = [file |-> set.sums, sha |-> None]
  BY <1>5 DEF Assets, File, ++, set
<1> QED
  BY <1>2, <1>4, <1>6 DEF set

\* A release that has succeeded, also by replacing assets one after the other, agrees with its
\* published checksums.
THEOREM PublishedVerifies == Spec => []ReleaseVerifies
<1>1. GraphInv /\ TestedInv /\ TypeOK /\ TogetherInv => ReleaseVerifies
  <2> SUFFICES ASSUME GraphInv, TestedInv, TypeOK, TogetherInv, job[<<"release">>] = "success"
               PROVE  ReleaseVerifies
    BY DEF ReleaseVerifies
  <2> DEFINE files == artifacts[Prebuilt].files
             sums == release[<<"SHA256SUMS">>].file
  <2>1. /\ SetFrom(artifacts[Prebuilt], outputs)
        /\ \A n \in DOMAIN files : release[n] = files[n]
        /\ sums = artifacts[Prebuilt].sums
    BY ReleasedSet
  <2> DEFINE contents == [n \in DOMAIN files |-> files[n].file]
  <2>2. sums = SumsOf(contents)
    BY <2>1 DEF SetFrom
  <2>3. /\ Declared(sums) = DOMAIN files
        /\ \A l \in sums.lines : l.path \in DOMAIN files /\ l.sha = Sha256(files[l.path].file)
    <3>1. DOMAIN contents = DOMAIN files /\ \A n \in DOMAIN files : contents[n] = files[n].file
      OBVIOUS
    <3> HIDE DEF contents, sums, files
    <3>2. /\ Declared(sums) = DOMAIN contents
          /\ \A l \in sums.lines : l.path \in DOMAIN contents /\ l.sha = Sha256(contents[l.path])
      BY <2>2, SumsDeclare
    <3> QED
      BY <3>1, <3>2
  <2>4. DOMAIN files = {ArchiveName(t) : t \in Targets} \cup {WheelOf(t) : t \in Targets}
    BY <2>1 DEF SetFrom, FilesFrom, ResolvedWheel, WheelOf
  <2> HIDE DEF files, sums
  <2>5. \A l \in sums.lines : l.sha = Sha256(release[l.path].file)
    BY <2>1, <2>3
  <2> QED
    BY <2>3, <2>4, <2>5 DEF ReleaseVerifies, sums
<1> QED
  BY <1>1, PipelineTogether, PTL

\* The archives and the wheels of a release that has succeeded are of the revisions last resolved,
\* each wheel with the libraries of the archive beside it.
THEOREM PublishedTogether == Spec => []ReleasedTogether
<1>1. GraphInv /\ TestedInv /\ TypeOK /\ TogetherInv => ReleasedTogether
  <2> SUFFICES ASSUME GraphInv, TestedInv, TypeOK, TogetherInv, job[<<"release">>] = "success",
                      NEW t \in Targets
               PROVE  /\ {ArchiveName(t), WheelOf(t)} \subseteq DOMAIN release
                      /\ \A c \in Components :
                            release[ArchiveName(t)].file.files[Packaged(c, BuildInfo)].revision
                            = outputs.revisions[c]
                      /\ \A n \in Libraries(t) :
                            release[WheelOf(t)].file.files[NativeLibrary(n)]
                            = release[ArchiveName(t)].file.files[Bin(n)]
    BY DEF ReleasedTogether
  <2> DEFINE files == artifacts[Prebuilt].files
  <2>1. /\ FilesFrom(files, outputs)
        /\ CarriesLibraries(t, files[WheelOf(t)].file, files[ArchiveName(t)].file)
        /\ \A n \in DOMAIN files : n \in DOMAIN release /\ release[n] = files[n]
    BY ReleasedSet DEF SetFrom, ResolvedWheel, WheelOf
  <2>2. ArchiveName(t) \in DOMAIN files /\ WheelOf(t) \in DOMAIN files
    BY <2>1 DEF FilesFrom, ResolvedWheel, WheelOf
  <2> HIDE DEF files
  <2>3. release[ArchiveName(t)] = files[ArchiveName(t)] /\ release[WheelOf(t)] = files[WheelOf(t)]
    BY <2>1, <2>2
  <2> QED
    BY <2>1, <2>2, <2>3 DEF FilesFrom, CarriesLibraries
<1> QED
  BY <1>1, PipelineTogether, PTL

-----------------------------------------------------------------------------
(* What a job makes when nothing goes wrong passes every later check: images and dists. *)

\* The sequence of a finite set has its members, each once.
LEMMA SequenceOfSet ==
    ASSUME NEW S, IsFiniteSet(S)
    PROVE  SetToSeq(S) \in [1..Cardinality(S) -> S] /\ NoDuplicate(SetToSeq(S))
<1>1. \E f \in [1..Cardinality(S) -> S] : IsInjective(f)
  BY FS_CardinalityType DEF ExistsBijection, Bijection, Injection
<1>2. SetToSeq(S) \in [1..Cardinality(S) -> S] /\ IsInjective(SetToSeq(S))
  BY <1>1 DEF SetToSeq
<1> QED
  BY <1>2 DEF IsInjective, NoDuplicate

LEMMA ComponentsFinite == IsFiniteSet(Components)
<1>1. IsFiniteSet({"canvas", "html5ever", "wreq", "boringssl"})
  BY FourFinite
<1> QED
  BY <1>1, MatrixAssumption, FS_Subset

\* The libraries that no component can be taken for.
LEMMA NamesApart ==
    /\ "libc" \notin Components /\ "ffi" \notin Components /\ "cli" \notin Components
    /\ "vcruntime" \notin Components /\ "kernel32" \notin Components
BY MatrixAssumption

\* Both judges of the dependencies accept what a component links.
LEMMA GoodImageAccepted ==
    ASSUME NEW t, NEW n
    PROVE  /\ ImageAccepted(t, n, GoodImage(t, n))
           /\ RecordValid(t, n, ImageRecord(t, GoodImage(t, n)))
<1> DEFINE image == GoodImage(t, n)
<1>1. CASE Platform(t) = "windows"
  <2>1. image = [imports |-> {"kernel32"} \cup VisualC(t), delayed |-> LinkedWith(n)]
    BY <1>1 DEF GoodImage
  <2>2. PeImports(image) = {"kernel32"} \cup VisualC(t) \cup LinkedWith(n)
    BY <2>1 DEF PeImports
  <2>3. VisualC(t) \cup LinkedWith(n) \subseteq Runtime(t) /\ VisualC(t) \subseteq {"vcruntime"}
        /\ LinkedWith(n) \subseteq Components
    BY DEF Runtime, Libraries, Closure, LinkedWith, LinkedComponents, VisualC
  <2>4. PeAccepted(image, Runtime(t))
    BY <2>2, <2>3, CleanAssumption DEF PeAccepted
  <2>5. ImageAccepted(t, n, image)
    BY <1>1, <2>4, Zenon DEF ImageAccepted
  <2> QED
    BY <1>1, <2>5, JudgesAgree
<1>2. CASE Platform(t) = "linux"
  <2> DEFINE S == LinkedWith(n) \cup {"libc"}
  <2>1. image = [needed |-> SetToSeq(S), runtimePaths |-> {"$ORIGIN"},
                 linked |-> [m \in S |-> IF m = "libc" THEN "system" ELSE "package"]]
    BY <1>2, Zenon DEF GoodImage
  <2>2. LinkedWith(n) \subseteq Libraries(t) /\ LinkedWith(n) \subseteq Components
        /\ "libc" \notin Libraries(t)
    BY NamesApart DEF Libraries, Closure, LinkedWith, LinkedComponents, VisualC
  <2>3. IsFiniteSet(S)
    <3>1. IsFiniteSet(LinkedWith(n))
      BY <2>2, ComponentsFinite, FS_Subset
    <3> QED
      BY <3>1, FS_AddElement
  <2>4. NoDuplicate(SetToSeq(S)) /\ Names(SetToSeq(S)) \subseteq S
    <3> HIDE DEF S
    <3>1. SetToSeq(S) \in [1..Cardinality(S) -> S] /\ NoDuplicate(SetToSeq(S))
      BY <2>3, SequenceOfSet
    <3> QED
      BY <3>1 DEF Names
  <2> HIDE DEF S
  <2>5. /\ NoDuplicate(image.needed) /\ Names(image.needed) \subseteq S
        /\ image.runtimePaths = {"$ORIGIN"}
        /\ DOMAIN image.linked = S
        /\ \A m \in S : image.linked[m] = IF m = "libc" THEN "system" ELSE "package"
    BY <2>1, <2>4
  <2>6. ElfAccepted(image, Libraries(t))
    <3> HIDE DEF image
    <3>1. Names(image.needed) \subseteq Libraries(t) \cup OsNeeded
      BY <2>2, <2>5, CleanAssumption DEF S
    <3>2. \A m \in Names(image.needed) :
            ResolvesTo(image, m, IF m \in Libraries(t) THEN "package" ELSE "system")
      BY <2>2, <2>5 DEF S, ResolvesTo
    <3> QED
      BY <2>5, <3>1, <3>2, CleanAssumption DEF ElfAccepted
  <2>7. ImageAccepted(t, n, image)
    BY <1>2, <2>6, Zenon DEF ImageAccepted
  <2> QED
    BY <1>2, <2>7, JudgesAgree
<1>3. CASE Platform(t) = "macos"
  <2>1. image = [arch |-> Architecture(t), id |-> InstallName(n), runtimePaths |-> {"@loader_path"},
                 libraries |-> LinkedWith(n) \cup {"libSystem"}]
    BY <1>3, Zenon DEF GoodImage
  <2>2. LinkedWith(n) \subseteq Libraries(t) /\ LinkedWith(n) \subseteq Components
    BY DEF Libraries, Closure, LinkedWith, LinkedComponents
  <2>3. image.libraries \subseteq Libraries(t) \cup SystemPaths
    BY <2>1, <2>2, CleanAssumption
  <2>4. MachOAccepted(image, n, Architecture(t))
    BY <2>1, <2>2, CleanAssumption DEF MachOAccepted
  <2>5. ImageAccepted(t, n, image)
    BY <1>3, <2>4, Zenon DEF ImageAccepted
  <2> QED
    BY <2>3, <2>5, JudgesAgree
<1> QED
  BY <1>1, <1>2, <1>3, Platforms

\* A dist that every later check passes.
GoodDist(dist, c, t, inputs, bundle) ==
    /\ ComponentPasses(dist, c, t, inputs)
    /\ dist[BuildInfo].manifest = Sha256(bundle.manifest)
    /\ dist[Library(c)].image = GoodImage(t, c)
    /\ IdentityHolds(c, dist[Library(c)].abi)

\* A name that may be part of a path.
Plain(name) == name \notin {"", ".", "..", "/"}

LEMMA SafePath ==
    ASSUME NEW path, DOMAIN path # {}, \A i \in DOMAIN path : Plain(path[i])
    PROVE  SafeRelative(path)
<1>1. path # << >>
  <2>1. DOMAIN << >> = {}
    OBVIOUS
  <2> QED
    BY <2>1
<1> QED
  BY <1>1 DEF SafeRelative, Plain

LEMMA SafePaths ==
    /\ \A a : Plain(a) => SafeRelative(<<a>>)
    /\ \A a, b : Plain(a) /\ Plain(b) => SafeRelative(<<a, b>>)
    /\ \A a, b, c : Plain(a) /\ Plain(b) /\ Plain(c) => SafeRelative(<<a, b, c>>)
    /\ \A a, b, c, d : Plain(a) /\ Plain(b) /\ Plain(c) /\ Plain(d) => SafeRelative(<<a, b, c, d>>)
<1>1. ASSUME NEW a, Plain(a) PROVE SafeRelative(<<a>>)
  <2>1. DOMAIN <<a>> # {} /\ \A i \in DOMAIN <<a>> : Plain(<<a>>[i])
    BY <1>1
  <2> QED
    BY <2>1, SafePath
<1>2. ASSUME NEW a, NEW b, Plain(a), Plain(b) PROVE SafeRelative(<<a, b>>)
  <2>1. DOMAIN <<a, b>> # {} /\ \A i \in DOMAIN <<a, b>> : Plain(<<a, b>>[i])
    BY <1>2
  <2> QED
    BY <2>1, SafePath
<1>3. ASSUME NEW a, NEW b, NEW c, Plain(a), Plain(b), Plain(c) PROVE SafeRelative(<<a, b, c>>)
  <2>1. DOMAIN <<a, b, c>> # {} /\ \A i \in DOMAIN <<a, b, c>> : Plain(<<a, b, c>>[i])
    BY <1>3
  <2> QED
    BY <2>1, SafePath
<1>4. ASSUME NEW a, NEW b, NEW c, NEW d, Plain(a), Plain(b), Plain(c), Plain(d)
      PROVE  SafeRelative(<<a, b, c, d>>)
  <2>1. DOMAIN <<a, b, c, d>> # {} /\ \A i \in DOMAIN <<a, b, c, d>> : Plain(<<a, b, c, d>>[i])
    BY <1>4
  <2> QED
    BY <2>1, SafePath
<1> QED
  BY <1>1, <1>2, <1>3, <1>4

\* The paths of a component's dist.
LEMMA DistPaths ==
    ASSUME NEW c \in Components, NEW t
    PROVE  /\ \A p \in RequiredFiles(c, t) \cup Metadata : SafeRelative(p)
           /\ TestResults # BuildInfo /\ TestResults # Sums /\ BuildInfo # Sums
           /\ \A p \in RequiredFiles(c, t) : p \notin Metadata
           /\ Library(c) \in RequiredFiles(c, t)
<1>1. /\ TestResults # BuildInfo /\ TestResults # Sums /\ BuildInfo # Sums
      /\ \A p \in Metadata : SafeRelative(p)
  <2>1. /\ Plain("metadata") /\ Plain("test-results.json") /\ Plain("build-info.json")
        /\ Plain("SHA256SUMS")
    BY DEF Plain
  <2>2. \A p \in Metadata : SafeRelative(p)
    BY <2>1, SafePaths DEF Metadata, TestResults, BuildInfo, Sums
  <2>3. TestResults # BuildInfo /\ TestResults # Sums /\ BuildInfo # Sums
    BY DEF TestResults, BuildInfo, Sums
  <2> QED
    BY <2>2, <2>3
<1>2. \A p \in RequiredFiles(c, t) :
        \/ p = <<"lib", "crypto">> \/ p = <<"bin", c>> \/ p = <<"include", "canvas.h">>
        \/ p = <<"include", "openssl", "sha.h">> \/ p = <<"lib", c>>
  BY DEF RequiredFiles, Library, ConsumerFiles
<1>3. /\ Plain(c) /\ Plain("lib") /\ Plain("bin") /\ Plain("include") /\ Plain("openssl")
      /\ Plain("crypto") /\ Plain("canvas.h") /\ Plain("sha.h")
  BY MatrixAssumption DEF Plain
<1>4. /\ SafeRelative(<<"lib", "crypto">>) /\ SafeRelative(<<"bin", c>>)
      /\ SafeRelative(<<"include", "canvas.h">>) /\ SafeRelative(<<"include", "openssl", "sha.h">>)
      /\ SafeRelative(<<"lib", c>>)
  BY <1>3, SafePaths
<1>5. \A p \in RequiredFiles(c, t) : SafeRelative(p)
  BY <1>2, <1>4
<1>6. \A p \in RequiredFiles(c, t) : p \notin Metadata
  BY <1>2 DEF Metadata, TestResults, BuildInfo, Sums
<1> QED
  BY <1>1, <1>5, <1>6 DEF RequiredFiles

\* The checksum file that is written beside the files it is over covers them.
LEMMA SumsCover ==
    ASSUME NEW files, NEW self, self \notin DOMAIN files,
           \A p \in DOMAIN files : SafeRelative(p),
           NEW all, all = files ++ File(self, SumsOf(files))
    PROVE  Covers(all[self], all, self)
<1>1. /\ DOMAIN all = DOMAIN files \cup {self}
      /\ \A p \in DOMAIN files : all[p] = files[p]
      /\ all[self] = SumsOf(files)
  BY DEF File, ++
<1>2. PICK sums : sums = SumsOf(files)
  OBVIOUS
<1>3. /\ Declared(sums) = DOMAIN files
      /\ \A l \in sums.lines : l.path \in DOMAIN files /\ l.sha = Sha256(files[l.path])
  BY <1>2, SumsDeclare
<1>4. \A l, m \in sums.lines : l.path = m.path => l = m
  BY <1>2 DEF SumsOf
<1>5. Covers(sums, all, self)
  BY <1>1, <1>3, <1>4 DEF Covers
<1> QED
  BY <1>1, <1>2, <1>5

LEMMA DigestIsThere == \A x : Sha256(x) # None
<1> SUFFICES ASSUME NEW x PROVE Sha256(x) # None
  OBVIOUS
<1>1. DOMAIN Sha256(x) # DOMAIN None
  BY DEF Sha256, None
<1> QED
  BY <1>1

\* The suites of a build in which nothing goes wrong.
LEMMA GoodSuites ==
    ASSUME NEW c, NEW tests, tests.status = "passed", tests.suites = SuiteResults(c, "none")
    PROVE  SuitesPass(tests, c)
<1>1. tests.suites = {[name |-> {s}, status |-> "passed"] : s \in RequiredSuites(c)}
  BY DEF SuiteResults
<1>2. "abi" \in RequiredSuites(c)
  BY DEF RequiredSuites
<1>3. tests.suites # {} /\ \A s \in tests.suites : s.status = "passed"
  <2> DEFINE suite == [name |-> {"abi"}, status |-> "passed"]
  <2>1. suite \in tests.suites
    BY <1>1, <1>2
  <2>2. \A s \in tests.suites : s.status = "passed"
    BY <1>1
  <2> QED
    BY <2>1, <2>2
<1>4. ASSUME NEW fragment \in RequiredSuites(c)
      PROVE  \E s \in tests.suites : fragment \in s.name
  <2> DEFINE suite == [name |-> {fragment}, status |-> "passed"]
  <2>1. suite \in tests.suites /\ fragment \in suite.name
    BY <1>1
  <2> QED
    BY <2>1
<1> QED
  BY <1>3, <1>4 DEF SuitesPass

\* What a component job makes of a toolchain when nothing goes wrong.
LEMMA CleanDist ==
    ASSUME NEW c \in Components, NEW t, NEW bundle
    PROVE  GoodDist(Dist(c, t, bundle, "none"), c, t, outputs, bundle)
<1> DEFINE binary == Binary(t, c, FALSE)
           own == [p \in RequiredFiles(c, t) |-> IF p = Library(c) THEN binary ELSE [header |-> c]]
           tests == [component |-> c, target |-> t, status |-> "passed",
                     suites |-> SuiteResults(c, "none")]
           info == [component |-> c, target |-> t, revision |-> outputs.revisions[c],
                    dirty |-> FALSE, profile |-> outputs.profile,
                    manifest |-> Sha256(bundle.manifest), crt |-> "static"]
           files == own ++ File(TestResults, tests) ++ File(BuildInfo, info)
           dist == Dist(c, t, bundle, "none")
<1>1. DistFiles(c, t, bundle, "none") = files
  BY DEF DistFiles
<1>2. /\ DOMAIN files = RequiredFiles(c, t) \cup {TestResults, BuildInfo}
      /\ files[Library(c)] = binary
      /\ files[TestResults] = tests
      /\ files[BuildInfo] = info
  <2> HIDE DEF binary, tests, info
  <2>1. /\ DOMAIN own = RequiredFiles(c, t) /\ own[Library(c)] = binary
        /\ TestResults \notin DOMAIN own /\ BuildInfo \notin DOMAIN own
        /\ Library(c) \in DOMAIN own /\ BuildInfo # TestResults
    BY DistPaths DEF Metadata
  <2> HIDE DEF own
  <2> QED
    BY <2>1 DEF File, ++
<1>3. dist = << >> ++ files ++ File(Sums, SumsOf(files))
  BY <1>1 DEF Dist
<1>4. << >> ++ files = files
  <2>1. files = [p \in DOMAIN files |-> files[p]]
    BY DEF ++
  <2>2. DOMAIN << >> = {}
    OBVIOUS
  <2> HIDE DEF files
  <2> QED
    BY <2>1, <2>2 DEF ++
<1>5. SumsOf(files).lines = SumsOf(files).lines /\ Sums \notin DOMAIN files
      /\ \A p \in DOMAIN files : SafeRelative(p)
  BY <1>2, DistPaths DEF Metadata
<1> HIDE DEF files, dist, binary, tests, info
<1>6. dist = files ++ File(Sums, SumsOf(files))
  BY <1>3, <1>4
<1>7. ChecksumsHold(dist)
  BY <1>5, <1>6, SumsCover DEF ChecksumsHold
<1>8. /\ DOMAIN dist = DOMAIN files \cup {Sums}
      /\ \A p \in DOMAIN files : dist[p] = files[p]
  BY <1>6 DEF File, ++
<1>9. /\ dist[Library(c)] = binary /\ dist[TestResults] = tests /\ dist[BuildInfo] = info
      /\ RequiredFiles(c, t) \cup Metadata \subseteq DOMAIN dist
  BY <1>2, <1>8, DistPaths DEF Metadata
<1>10. TestsPass(tests, c, t)
  BY GoodSuites DEF TestsPass, tests
<1>11. Provenance(info, c, t, outputs)
  BY DigestIsThere DEF Provenance, info
<1>12. ComponentPasses(dist, c, t, outputs)
  BY <1>7, <1>9, <1>10, <1>11 DEF ComponentPasses
<1>13. info.manifest = Sha256(bundle.manifest)
  BY DEF info
<1>14. binary.image = GoodImage(t, c) /\ IdentityHolds(c, binary.abi)
  BY DEF binary, Binary, IdentityHolds
<1> QED
  BY <1>9, <1>12, <1>13, <1>14 DEF GoodDist, dist

\* The native gate passes dists of which each is good, of one toolchain for each target.
LEMMA GoodGate ==
    ASSUME NEW dists, NEW resolved, NEW bundle, resolved.schema = "v7",
           DOMAIN dists = Components \X Targets,
           \A c \in Components, t \in Targets : GoodDist(dists[<<c, t>>], c, t, resolved, bundle[t])
    PROVE  NativeGate(dists, resolved)
<1>1. ASSUME NEW t \in Targets PROVE Cardinality(ManifestsOf(dists, t)) = 1
  <2>1. \A c \in Components : /\ <<c, t>> \in DOMAIN dists
                              /\ dists[<<c, t>>][BuildInfo].manifest = Sha256(bundle[t].manifest)
                              /\ Metadata \subseteq DOMAIN dists[<<c, t>>]
    BY DEF GoodDist, ComponentPasses
  <2>2. Components # {} /\ Sha256(bundle[t].manifest) # None
    BY CleanAssumption, DigestIsThere
  <2>3. \A ct \in DOMAIN dists : ct[2] = t =>
            dists[ct][BuildInfo].manifest = Sha256(bundle[t].manifest)
    BY <2>1
  <2>4. ManifestsOf(dists, t) = {Sha256(bundle[t].manifest)}
    <3>1. PICK c \in Components : TRUE
      BY <2>2
    <3>2. <<c, t>> \in {ct \in DOMAIN dists : ct[2] = t /\ Metadata \subseteq DOMAIN dists[ct]}
      BY <2>1
    <3>3. Sha256(bundle[t].manifest) \in ManifestsOf(dists, t)
      BY <2>1, <2>2, <3>2 DEF ManifestsOf
    <3>4. \A m \in ManifestsOf(dists, t) : m = Sha256(bundle[t].manifest)
      BY <2>3 DEF ManifestsOf
    <3> QED
      BY <3>3, <3>4
  <2> QED
    BY <2>4, FS_Singleton
<1>2. \A c \in Components, t \in Targets :
        <<c, t>> \in DOMAIN dists /\ ComponentPasses(dists[<<c, t>>], c, t, resolved)
  BY DEF GoodDist
<1> QED
  BY <1>1, <1>2 DEF NativeGate

-----------------------------------------------------------------------------
(* The archive and its report. *)

\* The dists of a target in which nothing is wrong, of one toolchain.
GoodDists(dists, t, inputs, bundle) ==
    /\ DOMAIN dists = Components
    /\ \A c \in Components : GoodDist(dists[c], c, t, inputs, bundle)

\* The resolution of a prepare job that succeeded.
GoodInputs(inputs) ==
    /\ inputs.schema = "v7" /\ inputs.source = SourceRevision

\* An installed runtime with nothing foreign in it.
GoodInstall(install, t) ==
    /\ DOMAIN install = Runtime(t)
    /\ \A n \in Runtime(t) :
        install[n].image = GoodImage(t, n) /\ IdentityHolds(n, install[n].abi)

\* The runtime that is installed from good dists is good.
LEMMA CleanInstall ==
    ASSUME NEW t, NEW dists, NEW inputs, NEW bundle, GoodDists(dists, t, inputs, bundle)
    PROVE  GoodInstall(Installed(t, dists, FALSE), t)
<1> DEFINE install == Installed(t, dists, FALSE)
<1>1. DOMAIN install = Runtime(t)
  BY DEF Installed
<1>2. ASSUME NEW n \in Runtime(t)
      PROVE  install[n].image = GoodImage(t, n) /\ IdentityHolds(n, install[n].abi)
  <2>1. CASE n \in LinkedComponents
    <3>1. install[n] = dists[n][Library(n)] /\ n \in Components
      BY <2>1 DEF Installed, LinkedComponents
    <3> QED
      BY <3>1 DEF GoodDists, GoodDist
  <2>2. CASE n \notin LinkedComponents
    <3>1. install[n] = Binary(t, n, FALSE)
      BY <2>2 DEF Installed
    <3>2. Binary(t, n, FALSE).image = GoodImage(t, n) /\ IdentityHolds(n, Binary(t, n, FALSE).abi)
      BY DEF Binary, IdentityHolds
    <3> QED
      BY <3>1, <3>2
  <2> QED
    BY <2>1, <2>2
<1> QED
  BY <1>1, <1>2 DEF GoodInstall

\* The dists of a target whose inputs have not changed meet the contract that the build checks.
LEMMA CleanContract ==
    ASSUME NEW t, NEW dists, NEW inputs, NEW bundle, GoodDists(dists, t, inputs, bundle),
           GoodInputs(inputs)
    PROVE  SourceContract(t, dists, inputs, inputs)
<1>1. ASSUME NEW c \in Components
      PROVE  /\ Metadata \subseteq DOMAIN dists[c]
             /\ TestsPass(dists[c][TestResults], c, t)
             /\ Provenance(dists[c][BuildInfo], c, t, inputs)
             /\ dists[c][BuildInfo].manifest = Sha256(bundle.manifest)
  BY DEF GoodDists, GoodDist, ComponentPasses
<1> QED
  BY <1>1 DEF SourceContract, GoodDists, GoodInputs, Metadata, TestsPass, SuitesPass, Provenance

\* The packager gets as far as the archive.
LEMMA CleanPackageable ==
    ASSUME NEW t, NEW dists, NEW inputs, NEW bundle, NEW install,
           GoodDists(dists, t, inputs, bundle), GoodInstall(install, t)
    PROVE  Packageable(t, dists, install, inputs)
<1>1. ASSUME NEW c \in Components
      PROVE  /\ ComponentPasses(dists[c], c, t, inputs)
             /\ dists[c][BuildInfo].profile = inputs.profile
             /\ dists[c][BuildInfo].manifest = Sha256(bundle.manifest)
             /\ dists[c][BuildInfo].revision = inputs.revisions[c]
  BY DEF GoodDists, GoodDist, ComponentPasses, Provenance
<1>2. \A c \in Components : VerifiedComponent(dists[c], c, t)
  BY <1>1, GateImpliesPackager
<1>3. \A n \in Runtime(t) : ImageAccepted(t, n, install[n].image)
  BY GoodImageAccepted DEF GoodInstall
<1> QED
  BY <1>1, <1>2, <1>3 DEF Packageable, GoodInstall

\* Every path of an archive is safe to extract.
LEMMA ArchivePaths ==
    ASSUME NEW t
    PROVE  /\ \A p \in StagingPaths(t) : SafeRelative(p)
           /\ SafeRelative(SumsFile)
<1>1. /\ Plain("bin") /\ Plain("metadata") /\ Plain("components") /\ Plain("BUILD-INFO.json")
      /\ Plain("SHA256SUMS") /\ Plain("runtime-dependencies.json")
      /\ Plain("test-results.json") /\ Plain("build-info.json")
  BY DEF Plain
<1>2. /\ \A n \in Runtime(t) : Plain(n)
      /\ \A c \in Components : Plain(c)
  BY MatrixAssumption DEF Runtime, Libraries, Closure, LinkedComponents, VisualC, Plain
<1>3. \A m \in Metadata : Plain(m[2])
  BY <1>1 DEF Metadata, TestResults, BuildInfo, Sums
<1>4. \A n \in Runtime(t) : SafeRelative(Bin(n))
  BY <1>1, <1>2, SafePaths DEF Bin
<1>5. \A c \in Components, m \in Metadata : SafeRelative(Packaged(c, m))
  BY <1>1, <1>2, <1>3, SafePaths DEF Packaged
<1>6. SafeRelative(DependencyFile) /\ SafeRelative(BuildInfoFile) /\ SafeRelative(SumsFile)
  BY <1>1, SafePaths DEF DependencyFile, BuildInfoFile, SumsFile
<1> QED
  BY <1>4, <1>5, <1>6 DEF StagingPaths

\* The binaries of an archive are those under bin.
LEMMA ArchiveBinaries ==
    ASSUME NEW t, NEW archive, DOMAIN archive.files = StagingPaths(t) \cup {SumsFile}
    PROVE  PackagedBinaries(archive) = Runtime(t)
<1> DEFINE under == {p \in DOMAIN archive.files : p[1] = "bin"}
<1>1. \A p \in under : \E n \in Runtime(t) : p = Bin(n)
  BY DEF StagingPaths, Packaged, DependencyFile, BuildInfoFile, SumsFile
<1>2. \A n \in Runtime(t) : Bin(n) \in under /\ Bin(n)[2] = n
  BY DEF StagingPaths, Bin
<1>3. PackagedBinaries(archive) = {p[2] : p \in under}
  BY DEF PackagedBinaries
<1> HIDE DEF under
<1>4. \A n \in PackagedBinaries(archive) : n \in Runtime(t)
  BY <1>1, <1>2, <1>3
<1>5. \A n \in Runtime(t) : n \in PackagedBinaries(archive)
  BY <1>2, <1>3
<1> QED
  BY <1>4, <1>5

\* The manifest of the dependencies of what a component links.
LEMMA CleanManifest ==
    ASSUME NEW t, NEW install, GoodInstall(install, t)
    PROVE  DependencyManifestValid(DependencyManifest(t, install), t)
<1> DEFINE manifest == DependencyManifest(t, install)
<1>1. /\ manifest.platform = Platform(t) /\ manifest.names = Runtime(t)
      /\ manifest.bundledVisualC = VisualC(t) /\ DOMAIN manifest.binaries = Runtime(t)
      /\ \A n \in Runtime(t) : manifest.binaries[n] = ImageRecord(t, install[n].image)
  BY DEF DependencyManifest
<1>2. \A n \in Runtime(t) : RecordValid(t, n, manifest.binaries[n])
  BY <1>1, GoodImageAccepted DEF GoodInstall
<1> HIDE DEF manifest
<1> QED
  BY <1>1, <1>2 DEF DependencyManifestValid, manifest

\* The aggregate accepts the description of such a package.
LEMMA CleanPackageInfo ==
    ASSUME NEW t, NEW dists, NEW inputs, GoodInputs(inputs)
    PROVE  /\ PackageInfoValid(PackageInfo(t, dists, inputs), t, inputs)
           /\ \A c \in Components : PackageInfo(t, dists, inputs).components[c] = ComponentRecord(dists[c])
BY DEF PackageInfoValid, PackageInfo, GoodInputs

\* And the metadata of each of its components.
LEMMA CleanComponent ==
    ASSUME NEW dist, NEW c, NEW t, NEW inputs, NEW bundle, GoodDist(dist, c, t, inputs, bundle)
    PROVE  PackagedComponentValid(dist[BuildInfo], ComponentRecord(dist), c, t, inputs)
<1>1. Provenance(dist[BuildInfo], c, t, inputs)
  BY DEF GoodDist, ComponentPasses
<1> QED
  BY <1>1 DEF PackagedComponentValid, ComponentRecord, Provenance

\* What the packager makes of such dists: the final aggregate accepts it, and it loads.
LEMMA CleanArchive ==
    ASSUME NEW t, NEW dists, NEW inputs, NEW bundle, NEW install,
           GoodDists(dists, t, inputs, bundle), GoodInputs(inputs), GoodInstall(install, t),
           NEW archive, archive = Archive(t, Staging(t, dists, install, inputs))
    PROVE  /\ archive.name = ArchiveName(t)
           /\ Extracts(archive, ArchiveName(t))
           /\ RuntimePaths(archive)
           /\ RuntimeLoads(archive, TRUE)
           /\ PackageValid(archive, t, inputs)
           /\ \A n \in Runtime(t) : Bin(n) \in DOMAIN archive.files
<1>1. PICK staging : staging = Staging(t, dists, install, inputs)
  OBVIOUS
<1>2. PICK files : files = archive.files
  OBVIOUS
<1>3. archive.name = ArchiveName(t) /\ archive.root = ArchiveName(t) /\ files = Archive(t, staging).files
  BY <1>1, <1>2 DEF Archive
<1>4. Holds(files, t, dists, install, inputs)
  BY <1>1, <1>3, StagedFiles
<1>5. /\ SumsFile \notin DOMAIN staging /\ DOMAIN staging = StagingPaths(t)
      /\ files = staging ++ File(SumsFile, SumsOf(staging))
      /\ DOMAIN files = StagingPaths(t) \cup {SumsFile}
  BY <1>1, <1>3, StagingFiles, ArchiveFiles
<1>6. Extracts(archive, ArchiveName(t))
  <2>1. files # << >>
    <3>1. DOMAIN << >> = {}
      OBVIOUS
    <3> QED
      BY <1>5, <3>1
  <2> QED
    BY <1>2, <1>3, <1>5, <2>1, ArchivePaths DEF Extracts
<1>7. InternalChecksumsHold(archive)
  <2>1. Covers(files[SumsFile], files, SumsFile)
    BY <1>5, ArchivePaths, SumsCover
  <2> QED
    BY <1>2, <1>5, <2>1 DEF InternalChecksumsHold
<1>8. \A n \in Runtime(t) : Bin(n) \in DOMAIN files /\ files[Bin(n)] = install[n]
  BY <1>4 DEF Holds, StagingPaths
<1>9. {"cli"} \cup Closure \subseteq Runtime(t)
  BY DEF Runtime, Libraries
<1>10. RuntimePaths(archive) /\ RuntimeLoads(archive, TRUE)
  BY <1>2, <1>8, <1>9 DEF RuntimePaths, RuntimeLoads, GoodInstall
<1>11. PackagedBinaries(archive) = Runtime(t)
  BY <1>2, <1>5, ArchiveBinaries
<1>12. DependencyManifestValid(files[DependencyFile], t)
  BY <1>4, CleanManifest DEF Holds
<1>13. /\ PackageInfoValid(files[BuildInfoFile], t, inputs)
       /\ \A c \in Components : files[BuildInfoFile].components[c] = ComponentRecord(dists[c])
  BY <1>4, CleanPackageInfo DEF Holds
<1>14. ASSUME NEW c \in Components
       PROVE  /\ PackagedComponentValid(files[Packaged(c, BuildInfo)],
                                        files[BuildInfoFile].components[c], c, t, inputs)
              /\ files[Packaged(c, BuildInfo)].manifest = Sha256(bundle.manifest)
  <2>1. GoodDist(dists[c], c, t, inputs, bundle)
    BY DEF GoodDists
  <2>2. files[Packaged(c, BuildInfo)] = dists[c][BuildInfo]
    BY <1>4 DEF Holds
  <2>3. PackagedComponentValid(dists[c][BuildInfo], ComponentRecord(dists[c]), c, t, inputs)
    BY <2>1, CleanComponent
  <2>4. dists[c][BuildInfo].manifest = Sha256(bundle.manifest)
    BY <2>1 DEF GoodDist
  <2> QED
    BY <1>13, <2>2, <2>3, <2>4
<1>15. PackageValid(archive, t, inputs)
  BY <1>2, <1>3, <1>6, <1>7, <1>11, <1>12, <1>13, <1>14 DEF PackageValid
<1> QED
  BY <1>2, <1>3, <1>6, <1>8, <1>10, <1>15

\* The result of a platform job in which nothing goes wrong.
GoodRuntime(t, result, inputs) ==
    /\ PlatformValid(result, t, inputs)
    /\ \A n \in Runtime(t) : Bin(n) \in DOMAIN result.archive.files

LEMMA ArchiveIsThere == ASSUME NEW t, NEW staging PROVE Archive(t, staging) # None
<1>1. DOMAIN Archive(t, staging) # DOMAIN None
  BY DEF Archive, None
<1> QED
  BY <1>1

\* A platform job makes such a result of good dists.
LEMMA CleanRuntime ==
    ASSUME NEW t, NEW dists, NEW inputs, NEW bundle,
           GoodDists(dists, t, inputs, bundle), GoodInputs(inputs)
    PROVE  GoodRuntime(t, RuntimeResult(t, dists, inputs, inputs, "none"), inputs)
<1>1. PICK install : install = Installed(t, dists, FALSE)
  OBVIOUS
<1>2. GoodInstall(install, t)
  BY <1>1, CleanInstall
<1>3. SourceContract(t, dists, inputs, inputs)
  BY CleanContract
<1>4. \A c \in Components : RequiredFiles(c, t) \subseteq DOMAIN dists[c]
  BY DEF GoodDists, GoodDist, ComponentPasses
<1>5. Packageable(t, dists, install, inputs)
  BY <1>2, CleanPackageable
<1>6. PICK archive : archive = Archive(t, Staging(t, dists, install, inputs))
  OBVIOUS
<1>7. /\ archive.name = ArchiveName(t)
      /\ Extracts(archive, ArchiveName(t))
      /\ RuntimePaths(archive)
      /\ RuntimeLoads(archive, TRUE)
      /\ PackageValid(archive, t, inputs)
      /\ \A n \in Runtime(t) : Bin(n) \in DOMAIN archive.files
      /\ archive # None
  BY <1>2, <1>6, CleanArchive, ArchiveIsThere
<1> DEFINE attestation == [archive |-> archive.name, sha |-> Sha256(archive), root |-> ArchiveName(t),
                           status |-> "PASS", policy |-> LoaderPolicy(t),
                           loaded |-> {Bin(n) : n \in Closure}]
           packaged == [archive |-> archive, checksum |-> Sha256(archive),
                        attestation |-> attestation, outcome |-> "success"]
           steps == [sourceContract |-> "success", install |-> "success", package |-> "success"]
<1>8. Attestation(t, archive, TRUE) = attestation
  BY <1>7 DEF Attestation
<1>9. Package(t, dists, install, inputs, "none", TRUE) = packaged
  <2> HIDE DEF attestation
  <2>1. attestation.status = "PASS"
    BY DEF attestation
  <2> QED
    BY <1>5, <1>6, <1>8, <2>1, Zenon DEF Package
<1>10. RuntimeResult(t, dists, inputs, inputs, "none") = PlatformResult(t, steps, packaged, inputs, inputs)
  <2> HIDE DEF packaged
  <2>1. packaged.outcome = "success"
    BY DEF packaged
  <2> QED
    BY <1>1, <1>3, <1>4, <1>9, <2>1 DEF RuntimeResult
<1>11. attestation # None
  <2>1. DOMAIN attestation # DOMAIN None
    BY DEF None
  <2> QED
    BY <2>1
<1>12. AttestationValid(attestation, archive, t)
  BY <1>7 DEF AttestationValid
<1> HIDE DEF attestation
<1> DEFINE result == PlatformResult(t, steps, packaged, inputs, inputs)
<1>13. \A s \in Steps : steps[s] = "success"
  BY DEF Steps
<1>14. /\ result.archive = archive /\ result.checksum = Sha256(archive)
       /\ result.attestation = attestation
       /\ result.report.attestation = Sha256(attestation)
       /\ result.report.package = [name |-> archive.name, sha |-> Sha256(archive)]
  BY <1>7, <1>11 DEF PlatformResult
<1>15. PlatformReportValid(result.report, t, inputs)
  BY <1>7, <1>11, <1>13 DEF PlatformReportValid, PlatformResult, GoodInputs
<1> HIDE DEF result, packaged, steps
<1>16. PlatformValid(result, t, inputs)
  BY <1>7, <1>12, <1>14, <1>15 DEF PlatformValid
<1> QED
  BY <1>7, <1>10, <1>14, <1>16 DEF GoodRuntime, result

-----------------------------------------------------------------------------
(* The wheel and the set. *)

\* The wheel that is built from such an archive has all its members.
LEMMA CleanWheelFiles ==
    ASSUME NEW t, NEW source, NEW archive
    PROVE  WheelComplete(BuiltWheel(t, source, archive), t)
<1> DEFINE copied == CopiedLibraries(archive, t)
           own == [p \in PythonFiles \cup {Extension} |-> [source |-> source.revision]]
           wheel == BuiltWheel(t, source, archive)
           natives == {NativeLibrary(n) : n \in Libraries(t)}
<1>1. wheel.files = copied ++ own
  BY DEF BuiltWheel
<1>2. DOMAIN copied = natives /\ DOMAIN own = PythonFiles \cup {Extension}
  BY DEF CopiedLibraries
<1> HIDE DEF copied, own, wheel
<1>3. DOMAIN wheel.files = natives \cup PythonFiles \cup {Extension}
  BY <1>1, <1>2 DEF ++
<1>4. /\ Plain("darkpanda") /\ Plain("_native_libs") /\ Plain("_native.so")
      /\ \A f \in {"__init__.py", "_api.py", "_cdp.py", "_native.pyi", "py.typed"} : Plain(f)
      /\ \A n \in Libraries(t) : Plain(n)
  BY MatrixAssumption DEF Plain, Libraries, Closure, LinkedComponents, VisualC
<1>5. \A p \in natives : SafeRelative(p)
  BY <1>4, SafePaths DEF NativeLibrary
<1>6. \A p \in PythonFiles \cup {Extension} : SafeRelative(p)
  BY <1>4, SafePaths DEF PythonFiles, Extension
<1> QED
  BY <1>3, <1>5, <1>6 DEF WheelComplete, wheel

\* The wheel job finds the archive of a good result, and its libraries.
LEMMA CleanLibraries ==
    ASSUME NEW t, NEW result, NEW inputs, GoodRuntime(t, result, inputs)
    PROVE  RuntimeArchiveFound(result) /\ LibrariesFound(result.archive, t)
<1>1. /\ result.archive # None /\ result.checksum = Sha256(result.archive)
      /\ PackageValid(result.archive, t, inputs)
      /\ \A n \in Runtime(t) : Bin(n) \in DOMAIN result.archive.files
  BY DEF GoodRuntime, PlatformValid
<1>2. Extracts(result.archive, result.archive.name)
  BY <1>1 DEF PackageValid
<1>3. Libraries(t) \subseteq Runtime(t)
  BY DEF Runtime
<1> QED
  BY <1>1, <1>2, <1>3 DEF RuntimeArchiveFound, LibrariesFound, Extracts

\* The wheel job makes a valid result of such an archive.
LEMMA CleanWheel ==
    ASSUME NEW t, NEW source, NEW result, NEW bundle, NEW inputs,
           SourceValid(source, inputs.revisions[Binding]),
           GoodRuntime(t, result, inputs), ToolchainValid(bundle, t, inputs.profile),
           GoodInputs(inputs)
    PROVE  WheelValid(WheelResult(t, source, result, bundle, inputs, "none", FALSE), t, inputs)
<1> DEFINE wheel == BuiltWheel(t, source, result.archive)
           made == WheelResult(t, source, result, bundle, inputs, "none", FALSE)
           base == WheelReport(t, source, inputs, StepsUpTo("none"))
           report == [base EXCEPT
                        !.status = "passed",
                        !.runtimeArchive = [name |-> result.archive.name, sha |-> Sha256(result.archive)],
                        !.libraries = Libraries(t),
                        !.manifest = Sha256(bundle.manifest),
                        !.wheel = [name |-> wheel.name, sha |-> Sha256(wheel)]]
<1>1. RuntimeArchiveFound(result) /\ LibrariesFound(result.archive, t)
  BY CleanLibraries
<1>2. WheelComplete(wheel, t)
  BY CleanWheelFiles
<1>3. "none" \notin WheelSteps
  BY DEF WheelSteps
<1>4. made = [report |-> report, wheel |-> wheel, checksum |-> Sha256(wheel)]
  BY <1>1, <1>2, <1>3, Zenon DEF WheelResult
<1>5. StepsUpTo("none") = [s \in WheelSteps |-> "passed"]
  BY DEF StepsUpTo, WheelSteps
<1>6. wheel # None
  <2>1. DOMAIN wheel # DOMAIN None
    BY DEF BuiltWheel, None
  <2> QED
    BY <2>1
<1> HIDE DEF wheel
<1>7. /\ report.status = "passed" /\ report.target = t
      /\ report.source = inputs.revisions[Binding] /\ report.browser = SourceRevision
      /\ report.profile = inputs.profile /\ report.libraries = Libraries(t)
      /\ report.manifest = Sha256(bundle.manifest)
      /\ report.steps = StepsUpTo("none")
      /\ report.wheel = [name |-> wheel.name, sha |-> Sha256(wheel)]
  BY DEF WheelReport
<1> HIDE DEF report, made
<1>8. WheelReportValid(report, t, inputs)
  BY <1>5, <1>7, DigestIsThere DEF WheelReportValid, BuiltFrom, GoodInputs
<1>9. /\ made.report = report /\ made.wheel = wheel /\ made.checksum = Sha256(wheel)
  BY <1>4
<1>10. WheelValid(made, t, inputs)
  BY <1>2, <1>6, <1>7, <1>8, <1>9 DEF WheelValid
<1> QED
  BY <1>10 DEF made

\* Both validators accept results that are valid one by one.
LEMMA CleanSet ==
    ASSUME NEW runtimes, NEW wheels, NEW inputs, GoodInputs(inputs),
           DOMAIN runtimes = Targets, DOMAIN wheels = Targets,
           \A t \in Targets : PlatformValid(runtimes[t], t, inputs),
           \A t \in Targets : WheelValid(wheels[t], t, inputs)
    PROVE  /\ NativeRelease(runtimes, inputs).ok
           /\ \A native : PythonRelease(wheels, inputs, native).ok
<1>1. NativeRelease(runtimes, inputs).ok
  <2>1. {t \in Targets : PlatformValid(runtimes[t], t, inputs)} = Targets
    OBVIOUS
  <2> QED
    BY <2>1 DEF NativeRelease, GoodInputs
<1>2. ASSUME NEW native PROVE PythonRelease(wheels, inputs, native).ok
  <2>1. {t \in Targets : WheelValid(wheels[t], t, inputs)} = Targets
    OBVIOUS
  <2> QED
    BY <2>1 DEF PythonRelease, GoodInputs
<1> QED
  BY <1>1, <1>2

-----------------------------------------------------------------------------
(* What a job waits for stays ended while it runs or stands. *)

\* A job has only left the queue when all the jobs before it had ended, and they stay so.
StandsInv == \A j \in Jobs : job[j] # "queued" => \A n \in Ancestors(j[1]) : Ended(n)

LEMMA EveryKindHasLegs == \A k \in Kinds : \E j \in Legs(k) : j \in Jobs /\ j[1] = k
<1> SUFFICES ASSUME NEW k \in Kinds PROVE Legs(k) # {}
  BY KindOfLeg, LegsAreJobs
<1>1. PICK c \in Components, t \in Targets : TRUE
  BY CleanAssumption
<1>2. CASE k = "components"
  <2>1. <<k, c, t>> \in Legs(k)
    BY <1>2 DEF Legs
  <2> QED
    BY <2>1
<1>3. CASE k \in {"toolchain", "darkpanda", "python"}
  <2>1. <<k, t>> \in Legs(k)
    BY <1>3 DEF Legs
  <2> QED
    BY <2>1
<1>4. CASE k \notin {"components", "toolchain", "darkpanda", "python"}
  <2>1. Legs(k) = {<<k>>}
    BY <1>4 DEF Legs
  <2> QED
    BY <2>1
<1> QED
  BY <1>2, <1>3, <1>4

\* What a job needs has waited for what it needs itself.
LEMMA DueStands ==
    ASSUME StandsInv, NEW k \in Kinds, \A n \in Needs(k) : Ended(n), NEW m \in Ancestors(k)
    PROVE  Ended(m)
<1>1. CASE m \in Needs(k)
  BY <1>1
<1>2. CASE m \notin Needs(k)
  <2>1. PICK n \in Needs(k) : m \in Ancestors(n)
    BY <1>2, AncestorsAssumption
  <2>2. n \in Kinds
    <3>1. n \in Ancestors(k)
      BY AncestorsAssumption
    <3> QED
      BY <3>1 DEF Ancestors
  <2>3. PICK j \in Legs(n) : j \in Jobs /\ j[1] = n
    BY <2>2, EveryKindHasLegs
  <2>4. job[j] # "queued"
    BY <2>1, <2>3 DEF Ended, Over
  <2> QED
    BY <2>1, <2>3, <2>4 DEF StandsInv
<1> QED
  BY <1>1, <1>2

\* Serving a job, due or running, keeps that.
LEMMA StandsServes ==
    ASSUME GraphTypeOK, StandsInv, NEW j \in Jobs, NEW s \in States \ {"queued"}, job' = [job EXCEPT ![j] = s],
           Due(j) \/ job[j] = "running", s \in Over \/ job[j] \notin Over
    PROVE  StandsInv'
<1>1. \A n \in Ancestors(j[1]) : Ended(n)
  BY DueStands, KindOfJob DEF StandsInv, Due
<1>2. ASSUME NEW n \in Kinds, Ended(n) PROVE Ended(n)'
  BY <1>2, LegsAreJobs DEF Ended, GraphTypeOK
<1>3. ASSUME NEW i \in Jobs, job'[i] # "queued", NEW n \in Ancestors(i[1]) PROVE Ended(n)'
  <2>1. Ended(n)
    BY <1>1, <1>3 DEF StandsInv, GraphTypeOK
  <2> QED
    BY <1>2, <2>1 DEF Ancestors
<1> QED
  BY <1>3 DEF StandsInv

LEMMA StandsStep == GraphInv /\ StandsInv /\ [GraphNext]_graphVars => StandsInv'
<1> SUFFICES ASSUME GraphTypeOK, StandsInv, [GraphNext]_graphVars PROVE StandsInv'
  BY DEF GraphInv
<1>1. ASSUME NEW j \in Jobs, Serves(j) PROVE StandsInv'
  <2>1. PICK s \in Over : job' = [job EXCEPT ![j] = s]
    BY <1>1, ServedJob
  <2>2. s \in States \ {"queued"}
    BY DEF Over, States
  <2>3. Due(j) \/ job[j] = "running"
    BY <1>1 DEF Serves, Ends, Skips, Ready
  <2> QED
    BY <2>1, <2>2, <2>3, StandsServes
<1>2. CASE Begins(<<"release">>)
  <2>1. Due(<<"release">>) /\ job' = [job EXCEPT ![<<"release">>] = "running"]
    BY <1>2 DEF Begins, Ready
  <2>2. "running" \in States \ {"queued"} /\ job[<<"release">>] \notin Over
    BY <2>1 DEF Due, Over, States
  <2> QED
    BY <2>1, <2>2, StandsServes, SingleJobs
<1>3. ASSUME NEW jobs \in SUBSET Jobs, Reruns(jobs) PROVE StandsInv'
  <2> SUFFICES ASSUME NEW j \in Jobs, job'[j] # "queued", NEW n \in Ancestors(j[1]), NEW i \in Legs(n)
               PROVE  job'[i] \in Over
    BY DEF StandsInv, Ended
  <2>1. j \notin WithDependents(jobs) /\ job[j] # "queued"
    BY <1>3 DEF Reruns
  <2>2. i \notin WithDependents(jobs)
    BY <2>1, RerunKeepsAncestors
  <2>3. i \in Jobs /\ job[i] \in Over
    BY <2>1, LegsAreJobs DEF StandsInv, Ended, Ancestors
  <2> QED
    BY <1>3, <2>2, <2>3 DEF Reruns
<1>4. CASE UNCHANGED graphVars
  BY <1>4 DEF graphVars, StandsInv, Ended
<1> QED
  BY <1>1, <1>2, <1>3, <1>4 DEF GraphNext, FailedJobs

-----------------------------------------------------------------------------
(* An attempt in which nothing goes wrong. *)

\* No job has failed, and what each has left will pass the later checks.
NothingWrong ==
    /\ \A j \in Jobs : job[j] \in {"queued", "running", "success"}
    /\ job[<<"prepare">>] = "success" => GoodInputs(outputs)
    /\ \A t \in Targets : job[<<"toolchain", t>>] = "success" =>
        /\ Has(<<"toolchain", t>>)
        /\ ToolchainValid(artifacts[<<"toolchain", t>>], t, outputs.profile)
    /\ \A c \in Components, t \in Targets : job[<<"components", c, t>>] = "success" =>
        /\ Has(<<"components", c, t>>)
        /\ GoodDist(artifacts[<<"components", c, t>>], c, t, outputs, artifacts[<<"toolchain", t>>])
    /\ \A t \in Targets : job[<<"darkpanda", t>>] = "success" =>
        /\ Has(<<"darkpanda", t>>)
        /\ GoodRuntime(t, artifacts[<<"darkpanda", t>>], outputs)
    /\ \A t \in Targets : job[<<"python", t>>] = "success" =>
        /\ Has(<<"python", t>>)
        /\ WheelValid(artifacts[<<"python", t>>], t, outputs)

CleanInv == clean => NothingWrong

\* A step after which the attempt is clean had no fault.
LEMMA CleanHappens ==
    ASSUME NEW fault, Happens(fault), clean'
    PROVE  fault = "none" /\ clean
<1>1. fault = "none"
  BY DEF Happens
<1>2. clean' = clean
  BY <1>1 DEF Happens
<1> QED
  BY <1>1, <1>2

\* The jobs before one that is due have succeeded.
LEMMA DueSucceeded ==
    ASSUME StandsInv, NothingWrong, NEW j \in Jobs, Due(j), NEW k \in Ancestors(j[1])
    PROVE  Succeeded(k)
<1>1. Ended(k)
  BY DueStands, KindOfJob DEF Due
<1>2. \A i \in Legs(k) : i \in Jobs
  BY LegsAreJobs DEF Ancestors
<1> QED
  BY <1>1, <1>2 DEF Ended, Over, Succeeded, NothingWrong

\* What comes before each kind of job.
LEMMA AllBefore ==
    /\ "prepare" \in Ancestors("toolchain")
    /\ \A k \in {"prepare", "toolchain"} : k \in Ancestors("components")
    /\ \A k \in {"prepare", "toolchain", "components"} : k \in Ancestors("native-summary")
    /\ \A k \in {"prepare", "toolchain", "components", "native-summary"} : k \in Ancestors("darkpanda")
    /\ \A k \in {"prepare", "toolchain", "darkpanda"} : k \in Ancestors("python")
    /\ \A k \in {"prepare", "native-summary", "darkpanda", "python", "fingerprint"} :
        k \in Ancestors("aggregate")
BY DEF Ancestors, Rank, Kinds

\* A job is due only under its condition.
LEMMA DueCondition ==
    ASSUME StandsInv, NothingWrong, NEW j \in Jobs, Due(j)
    PROVE  Condition(j[1])
<1>1. \A k \in Ancestors(j[1]) : Succeeded(k)
  BY DueSucceeded
<1>2. j[1] \in Kinds
  BY KindOfJob
<1> QED
  BY <1>1, <1>2, ConditionAncestors DEF Condition, ChainSucceeded

\* The run of each job in such an attempt: it succeeds, and leaves something good.
LEMMA PrepareClean ==
    ASSUME PrepareRuns, clean'
    PROVE  clean /\ Ends(<<"prepare">>, TRUE) /\ GoodInputs(outputs')
<1>1. PICK found, fault :
        /\ outputs' = [schema |-> "v7", build |-> attempt, source |-> SourceRevision,
                       profile |-> FixedInputs, fixed |-> FixedInputs, revisions |-> found]
        /\ Ends(<<"prepare">>, fault = "none")
        /\ Happens(fault)
  BY DEF PrepareRuns
<1>2. fault = "none" /\ clean
  BY <1>1, CleanHappens
<1>3. (fault = "none") = TRUE
  BY <1>2
<1>4. GoodInputs(outputs')
  BY <1>1 DEF GoodInputs
<1> QED
  BY <1>1, <1>2, <1>3, <1>4

LEMMA ToolchainClean ==
    ASSUME NEW t \in Targets, ToolchainRuns(t), clean'
    PROVE  /\ clean /\ Ends(<<"toolchain", t>>, TRUE)
           /\ \E bundle : Store(<<"toolchain", t>>, bundle) /\ ToolchainValid(bundle, t, outputs.profile)
<1>1. PICK v, fault :
        LET tools == [cargo |-> [tool |-> "cargo", variant |-> v]]
            bundle == [tools |-> tools,
                       manifest |-> [target |-> t, profile |-> outputs.profile,
                                     tools |-> [cargo |-> Sha256(tools.cargo)]]]
        IN  /\ IF fault = "none" THEN Store(<<"toolchain", t>>, bundle) ELSE UNCHANGED artifacts
            /\ Ends(<<"toolchain", t>>, fault = "none")
            /\ Happens(fault)
  BY DEF ToolchainRuns
<1>2. fault = "none" /\ clean
  BY <1>1, CleanHappens
<1>3. (fault = "none") = TRUE
  BY <1>2
<1> DEFINE tools == [cargo |-> [tool |-> "cargo", variant |-> v]]
           bundle == [tools |-> tools,
                      manifest |-> [target |-> t, profile |-> outputs.profile,
                                    tools |-> [cargo |-> Sha256(tools.cargo)]]]
<1>4. ToolchainValid(bundle, t, outputs.profile)
  BY DEF ToolchainValid
<1>5. Store(<<"toolchain", t>>, bundle) /\ Ends(<<"toolchain", t>>, TRUE)
  BY <1>1, <1>2, <1>3
<1> HIDE DEF bundle
<1> QED
  BY <1>2, <1>4, <1>5

LEMMA ComponentClean ==
    ASSUME StandsInv, CleanInv, NEW c \in Components, NEW t \in Targets, ComponentRuns(c, t), clean'
    PROVE  /\ clean /\ Ends(<<"components", c, t>>, TRUE)
           /\ \E dist : /\ Store(<<"components", c, t>>, dist)
                        /\ GoodDist(dist, c, t, outputs, artifacts[<<"toolchain", t>>])
<1> DEFINE j == <<"components", c, t>>
           bundle == artifacts[<<"toolchain", t>>]
           usable == Has(<<"toolchain", t>>) /\ ToolchainValid(bundle, t, outputs.profile)
<1>1. PICK fault :
        /\ Store(j, IF usable /\ fault # "build" THEN Dist(c, t, bundle, fault) ELSE FailedDist(c, t))
        /\ Ends(j, usable /\ fault # "build")
        /\ Happens(fault)
  BY DEF ComponentRuns
<1>2. fault = "none" /\ clean
  BY <1>1, CleanHappens
<1>3. Due(j) /\ j \in Jobs /\ j[1] = "components"
  BY LegsAreTheJobs DEF ComponentRuns, Ready
<1>4. Succeeded("toolchain")
  BY <1>2, <1>3, DueSucceeded, AllBefore DEF CleanInv
<1>5. usable
  BY <1>2, <1>4 DEF CleanInv, NothingWrong, Succeeded, Legs
<1>6. (usable /\ fault # "build") = TRUE
  BY <1>2, <1>5
<1>7. Store(j, Dist(c, t, bundle, "none")) /\ Ends(j, TRUE)
  BY <1>1, <1>2, <1>6
<1>8. GoodDist(Dist(c, t, bundle, "none"), c, t, outputs, bundle)
  BY CleanDist
<1> QED
  BY <1>2, <1>7, <1>8

LEMMA SummaryClean ==
    ASSUME StandsInv, ResolutionInv, CleanInv, NativeSummaryRuns, clean'
    PROVE  clean /\ Ends(NativeSummary, TRUE)
<1> DEFINE passed == DownloadedDists # << >> /\ Has(Resolved)
                     /\ NativeGate(DownloadedDists, artifacts[Resolved])
           bundle == [t \in Targets |-> artifacts[<<"toolchain", t>>]]
<1>1. clean /\ Due(NativeSummary) /\ Ends(NativeSummary, passed)
  BY DEF NativeSummaryRuns, Ready, NativeSummary
<1>2. Succeeded("prepare") /\ Succeeded("components")
  BY <1>1, DueSucceeded, NativeSummaryJob, AllBefore DEF CleanInv
<1>3. job[<<"prepare">>] = "success"
  BY <1>2 DEF Succeeded, Legs
<1>4. Has(Resolved) /\ artifacts[Resolved] = outputs /\ outputs.schema = "v7"
  BY <1>1, <1>3 DEF ResolutionInv, CleanInv, NothingWrong, GoodInputs
<1>5. ASSUME NEW c \in Components, NEW t \in Targets
      PROVE  /\ Has(<<"components", c, t>>)
             /\ GoodDist(artifacts[<<"components", c, t>>], c, t, outputs, bundle[t])
  <2>1. <<"components", c, t>> \in Legs("components")
    BY DEF Legs
  <2>2. job[<<"components", c, t>>] = "success"
    BY <1>2, <2>1 DEF Succeeded
  <2> QED
    BY <1>1, <2>2 DEF CleanInv, NothingWrong
<1>6. PICK dists : dists = DownloadedDists
  OBVIOUS
<1>7. /\ DOMAIN dists = Components \X Targets
      /\ \A c \in Components, t \in Targets : dists[<<c, t>>] = artifacts[<<"components", c, t>>]
  <2>1. {ct \in Components \X Targets : Has(<<"components", ct[1], ct[2]>>)} = Components \X Targets
    BY <1>5
  <2>2. dists = [ct \in Components \X Targets |-> artifacts[<<"components", ct[1], ct[2]>>]]
    BY <1>6, <2>1 DEF DownloadedDists
  <2> QED
    BY <2>2
<1>8. dists # << >>
  <2>1. PICK c \in Components, t \in Targets : TRUE
    BY CleanAssumption
  <2>2. <<c, t>> \in DOMAIN dists
    BY <1>7, <2>1
  <2>3. DOMAIN << >> = {}
    OBVIOUS
  <2> QED
    BY <2>2, <2>3
<1>9. NativeGate(dists, outputs)
  <2>1. \A c \in Components, t \in Targets : GoodDist(dists[<<c, t>>], c, t, outputs, bundle[t])
    BY <1>5, <1>7
  <2> HIDE DEF bundle
  <2> QED
    BY <1>4, <1>7, <2>1, GoodGate
<1>10. passed = TRUE
  BY <1>4, <1>6, <1>8, <1>9
<1> QED
  BY <1>1, <1>10

LEMMA DarkpandaClean ==
    ASSUME StandsInv, ResolutionInv, CleanInv, NEW t \in Targets, DarkpandaRuns(t), clean'
    PROVE  /\ clean /\ Ends(<<"darkpanda", t>>, TRUE)
           /\ \E result : /\ Store(<<"darkpanda", t>>, result)
                          /\ GoodRuntime(t, result, outputs)
<1> DEFINE j == <<"darkpanda", t>>
           dists == [c \in {c \in Components : Has(<<"components", c, t>>)} |->
                        artifacts[<<"components", c, t>>]]
           result == RuntimeResult(t, dists, outputs, artifacts[Resolved], "none")
           bundle == artifacts[<<"toolchain", t>>]
<1>1. PICK fault :
        /\ Store(j, RuntimeResult(t, dists, outputs, artifacts[Resolved], fault))
        /\ Ends(j, RuntimeResult(t, dists, outputs, artifacts[Resolved], fault).report.status = "passed")
        /\ Happens(fault)
  BY DEF DarkpandaRuns
<1>2. fault = "none" /\ clean
  BY <1>1, CleanHappens
<1>3. Due(j) /\ j \in Jobs /\ j[1] = "darkpanda"
  BY LegsAreTheJobs DEF DarkpandaRuns, Ready
<1>4. Succeeded("prepare") /\ Succeeded("components")
  BY <1>2, <1>3, DueSucceeded, AllBefore DEF CleanInv
<1>5. job[<<"prepare">>] = "success"
  BY <1>4 DEF Succeeded, Legs
<1>6. artifacts[Resolved] = outputs /\ GoodInputs(outputs)
  BY <1>2, <1>5 DEF ResolutionInv, CleanInv, NothingWrong
<1>7. ASSUME NEW c \in Components
      PROVE  /\ Has(<<"components", c, t>>)
             /\ GoodDist(artifacts[<<"components", c, t>>], c, t, outputs, bundle)
  <2>1. <<"components", c, t>> \in Legs("components")
    BY DEF Legs
  <2>2. job[<<"components", c, t>>] = "success"
    BY <1>4, <2>1 DEF Succeeded
  <2> QED
    BY <1>2, <2>2 DEF CleanInv, NothingWrong
<1>8. GoodDists(dists, t, outputs, bundle)
  <2>1. DOMAIN dists = Components /\ \A c \in Components : dists[c] = artifacts[<<"components", c, t>>]
    BY <1>7
  <2> QED
    BY <1>7, <2>1 DEF GoodDists
<1> HIDE DEF dists, bundle
<1>9. GoodRuntime(t, result, outputs)
  BY <1>6, <1>8, CleanRuntime
<1>10. (result.report.status = "passed") = TRUE
  BY <1>9 DEF GoodRuntime, PlatformValid, PlatformReportValid
<1>11. Store(j, result) /\ Ends(j, result.report.status = "passed")
  BY <1>1, <1>2
<1> HIDE DEF result
<1> QED
  BY <1>2, <1>9, <1>10, <1>11

LEMMA PythonClean ==
    ASSUME StandsInv, CleanInv, NEW t \in Targets, PythonRuns(t), clean'
    PROVE  /\ clean /\ Ends(<<"python", t>>, TRUE)
           /\ \E result : /\ Store(<<"python", t>>, result)
                          /\ WheelValid(result, t, outputs)
<1> DEFINE j == <<"python", t>>
           source(fault) == [revision |-> outputs.revisions[Binding], dirty |-> FALSE,
                             policy |-> IF fault = "policy" THEN "own-build" ELSE "source-only"]
           made(fault) == WheelResult(t, source(fault), artifacts[<<"darkpanda", t>>],
                                      artifacts[<<"toolchain", t>>], outputs, fault, fault = "wheelCut")
           clear == source("none")
           result == WheelResult(t, clear, artifacts[<<"darkpanda", t>>],
                                 artifacts[<<"toolchain", t>>], outputs, "none", FALSE)
<1>1. PICK fault :
        /\ Store(j, made(fault))
        /\ Ends(j, made(fault).report.status = "passed")
        /\ Happens(fault)
  BY DEF PythonRuns
<1>2. fault = "none" /\ clean
  BY <1>1, CleanHappens
<1>3. Due(j) /\ j \in Jobs /\ j[1] = "python"
  BY LegsAreTheJobs DEF PythonRuns, Ready
<1>4. Succeeded("prepare") /\ Succeeded("toolchain") /\ Succeeded("darkpanda")
  BY <1>2, <1>3, DueSucceeded, AllBefore DEF CleanInv
<1>5. /\ job[<<"prepare">>] = "success" /\ job[<<"toolchain", t>>] = "success"
      /\ job[<<"darkpanda", t>>] = "success"
  BY <1>4 DEF Succeeded, Legs
<1>6. /\ GoodInputs(outputs)
      /\ ToolchainValid(artifacts[<<"toolchain", t>>], t, outputs.profile)
      /\ GoodRuntime(t, artifacts[<<"darkpanda", t>>], outputs)
  BY <1>2, <1>5 DEF CleanInv, NothingWrong
<1>7. SourceValid(clear, outputs.revisions[Binding])
  BY DEF SourceValid
<1>8. made(fault) = result
  <2>1. ("none" = "wheelCut") = FALSE
    OBVIOUS
  <2> QED
    BY <1>2, <2>1
<1> HIDE DEF clear, made
<1>9. WheelValid(result, t, outputs)
  BY <1>6, <1>7, CleanWheel
<1>10. (result.report.status = "passed") = TRUE
  BY <1>9 DEF WheelValid, WheelReportValid
<1> HIDE DEF result
<1> QED
  BY <1>1, <1>2, <1>8, <1>9, <1>10

LEMMA FingerprintClean ==
    ASSUME FingerprintRuns, clean'
    PROVE  clean /\ Ends(<<"fingerprint">>, TRUE)
<1>1. PICK fault : Ends(<<"fingerprint">>, fault = "none") /\ Happens(fault)
  BY DEF FingerprintRuns
<1>2. fault = "none" /\ clean
  BY <1>1, CleanHappens
<1>3. (fault = "none") = TRUE
  BY <1>2
<1> QED
  BY <1>1, <1>2, <1>3

LEMMA AggregateClean ==
    ASSUME StandsInv, ResolutionInv, CleanInv, AggregateRuns, clean'
    PROVE  clean /\ Ends(<<"aggregate">>, TRUE)
<1> DEFINE j == <<"aggregate">>
           valid == Has(Resolved) /\ Validated.native /\ Validated.set.ok
<1>1. clean /\ Due(j) /\ j[1] = "aggregate" /\ j \in Jobs /\ Ends(j, GateHolds /\ valid)
  BY SingleJobs DEF AggregateRuns, EndsBehindGate, Ready
<1>2. GateHolds
  BY <1>1, DueSucceeded, AllBefore DEF CleanInv, GateHolds
<1>3. /\ job[<<"prepare">>] = "success"
      /\ \A t \in Targets : job[<<"darkpanda", t>>] = "success" /\ job[<<"python", t>>] = "success"
  BY <1>2 DEF GateHolds, Succeeded, Legs
<1>4. Has(Resolved) /\ artifacts[Resolved] = outputs /\ GoodInputs(outputs)
  BY <1>1, <1>3 DEF ResolutionInv, CleanInv, NothingWrong
<1>5. \A t \in Targets :
        /\ Has(<<"darkpanda", t>>) /\ PlatformValid(artifacts[<<"darkpanda", t>>], t, outputs)
        /\ Has(<<"python", t>>) /\ WheelValid(artifacts[<<"python", t>>], t, outputs)
  BY <1>1, <1>3 DEF CleanInv, NothingWrong, GoodRuntime
<1>6. PICK runtimes, wheels : runtimes = Downloaded("darkpanda") /\ wheels = Downloaded("python")
  OBVIOUS
<1>7. /\ DOMAIN runtimes = Targets /\ DOMAIN wheels = Targets
      /\ \A t \in Targets : runtimes[t] = artifacts[<<"darkpanda", t>>]
                            /\ wheels[t] = artifacts[<<"python", t>>]
  BY <1>5, <1>6 DEF Downloaded
<1>8. NativeRelease(runtimes, outputs).ok /\ \A native : PythonRelease(wheels, outputs, native).ok
  <2>1. /\ \A t \in Targets : PlatformValid(runtimes[t], t, outputs)
        /\ \A t \in Targets : WheelValid(wheels[t], t, outputs)
    BY <1>5, <1>7
  <2>2. GoodInputs(outputs) /\ DOMAIN runtimes = Targets /\ DOMAIN wheels = Targets
    BY <1>4, <1>7
  <2> QED
    BY <2>1, <2>2, CleanSet, Zenon
<1>9. Validated.native /\ Validated.set.ok
  BY <1>4, <1>6, <1>8 DEF Validated
<1>10. (GateHolds /\ valid) = TRUE
  BY <1>2, <1>4, <1>9
<1> QED
  BY <1>1, <1>10

\* No job has failed, and none was skipped.
AllGoing == \A j \in Jobs : job[j] \in {"queued", "running", "success"}

\* A job that passes leaves it so.
LEMMA PassKeeps ==
    ASSUME GraphInv, AllGoing, NEW j \in Jobs, Ends(j, TRUE)
    PROVE  AllGoing'
BY DEF AllGoing, Ends, GraphInv, GraphTypeOK

\* Where nothing goes wrong no job fails and none is skipped.
LEMMA GoingStep ==
    ASSUME GraphInv, StandsInv, ResolutionInv, CleanInv, Next, clean'
    PROVE  \/ \A j \in Jobs : job'[j] = "queued"
           \/ clean /\ AllGoing'
<1> DEFINE Goal == \/ \A j \in Jobs : job'[j] = "queued"
                   \/ clean /\ AllGoing'
<1> SUFFICES Goal
  OBVIOUS
<1> HIDE DEF Goal
<1>1. clean => AllGoing
  BY DEF CleanInv, NothingWrong, AllGoing
<1>2. ASSUME NEW j \in Jobs, clean, Ends(j, TRUE) PROVE Goal
  BY <1>1, <1>2, PassKeeps DEF Goal
<1>3. ASSUME clean, UNCHANGED job PROVE Goal
  BY <1>1, <1>3 DEF AllGoing, Goal
<1>4. CASE PrepareRuns
  BY <1>2, <1>4, PrepareClean, LegsAreTheJobs
<1>5. ASSUME NEW t \in Targets, ToolchainRuns(t) \/ DarkpandaRuns(t) \/ PythonRuns(t) PROVE Goal
  BY <1>2, <1>5, ToolchainClean, DarkpandaClean, PythonClean, LegsAreTheJobs
<1>6. ASSUME NEW c \in Components, NEW t \in Targets, ComponentRuns(c, t) PROVE Goal
  BY <1>2, <1>6, ComponentClean, LegsAreTheJobs
<1>7. CASE NativeSummaryRuns
  BY <1>2, <1>7, SummaryClean, NativeSummaryJob
<1>8. CASE FingerprintRuns
  BY <1>2, <1>8, FingerprintClean, LegsAreTheJobs
<1>9. CASE AggregateRuns
  BY <1>2, <1>9, AggregateClean, SingleJobs
<1>10. CASE ReleaseStarts
  <2>1. clean
    BY <1>10 DEF ReleaseStarts
  <2>2. CASE Begins(<<"release">>)
    <3>1. AllGoing'
      BY <1>1, <2>1, <2>2, SingleJobs DEF AllGoing, Begins, GraphInv, GraphTypeOK
    <3> QED
      BY <2>1, <3>1 DEF Goal
  <2>3. CASE Ends(<<"release">>, TRUE)
    BY <1>2, <2>1, <2>3, SingleJobs
  <2> QED
    BY <1>10, <2>2, <2>3 DEF ReleaseStarts, ReplaceAssets
<1>11. CASE ReleaseUploads
  <2>1. clean
    BY <1>11 DEF ReleaseUploads
  <2>2. Ends(<<"release">>, TRUE) \/ UNCHANGED job
    BY <1>11 DEF ReleaseUploads
  <2> QED
    BY <1>2, <1>3, <2>1, <2>2, SingleJobs
<1>12. ASSUME NEW j \in Jobs, Skipped(j) PROVE FALSE
  <2>1. clean /\ Due(j) /\ ~Condition(j[1])
    BY <1>12 DEF Skipped, Skips
  <2> QED
    BY <2>1, DueCondition DEF CleanInv
<1>13. ASSUME NEW j \in Jobs, RunnerLost(j) PROVE FALSE
  BY <1>13, CleanHappens DEF RunnerLost
<1>14. ASSUME NEW jobs, Rerun(jobs) PROVE Goal
  <2>1. jobs = Jobs
    BY <1>14 DEF Rerun
  <2> QED
    BY <1>14, <2>1 DEF Rerun, Reruns, WithDependents, Goal
<1>15. CASE RerunAll \/ RerunFailed
  BY <1>14, <1>15 DEF RerunAll, RerunFailed
<1>16. CASE RerunOne
  BY <1>14, <1>16 DEF RerunOne
<1>17. CASE \E j \in Jobs : RunnerLost(j) \/ Skipped(j)
  BY <1>12, <1>13, <1>17
<1>18. CASE JobProceeds
  BY <1>4, <1>5, <1>6, <1>7, <1>8, <1>9, <1>10, <1>11, <1>17, <1>18 DEF JobProceeds
<1> QED
  BY <1>15, <1>16, <1>17, <1>18 DEF Next

\* The outputs of prepare stand under every job that has started after it.
LEMMA StandingOutputs ==
    ASSUME StandsInv, NothingWrong, Next, NEW j \in Jobs, job[j] # "queued",
           "prepare" \in Ancestors(j[1])
    PROVE  UNCHANGED outputs
<1>1. <<"prepare">> \in Legs("prepare") /\ <<"prepare">> \in Jobs
  BY LegsAreTheJobs DEF Legs
<1>2. job[<<"prepare">>] = "success"
  BY <1>1 DEF StandsInv, Ended, Over, NothingWrong
<1> QED
  BY <1>2, StandingJobs, OtherResolution

\* And so does the toolchain of its target.
LEMMA StandingToolchain ==
    ASSUME StandsInv, NothingWrong, Next, NEW j \in Jobs, job[j] # "queued",
           "toolchain" \in Ancestors(j[1]), NEW t \in Targets
    PROVE  artifacts'[<<"toolchain", t>>] = artifacts[<<"toolchain", t>>]
<1> DEFINE k == <<"toolchain", t>>
<1>1. k \in Legs("toolchain")
  <2>1. Legs("toolchain") = {<<"toolchain", u>> : u \in Targets}
    BY DEF Legs
  <2> QED
    BY <2>1
<1>2. k \in Jobs
  BY LegsAreTheJobs
<1>3. job[k] = "success"
  BY <1>1, <1>2 DEF StandsInv, Ended, Over, NothingWrong
<1>4. ~ToolchainRuns(t) /\ Has(k)
  BY <1>2, <1>3, ToolchainServes, ServedJob DEF NothingWrong
<1> QED
  BY <1>4, LegArtifact

LEMMA ToolchainsStep ==
    ASSUME GraphInv, StandsInv, NothingWrong, Next, clean',
           NEW t \in Targets, job'[<<"toolchain", t>>] = "success"
    PROVE  /\ Has(<<"toolchain", t>>)'
           /\ ToolchainValid(artifacts'[<<"toolchain", t>>], t, outputs'.profile)
<1> DEFINE k == <<"toolchain", t>>
<1>1. k \in Jobs /\ k[1] = "toolchain" /\ "prepare" \in Ancestors(k[1])
  BY LegsAreTheJobs, AllBefore
<1>2. CASE job[k] = "success"
  <2>1. UNCHANGED outputs
    BY <1>1, <1>2, StandingOutputs
  <2>2. ~ToolchainRuns(t) /\ Has(k)
    BY <1>1, <1>2, ToolchainServes, ServedJob DEF NothingWrong
  <2>3. Has(k)' /\ artifacts'[k] = artifacts[k]
    BY <2>2, LegArtifact
  <2> QED
    BY <1>2, <2>1, <2>3 DEF NothingWrong
<1>3. CASE job[k] # "success"
  <2>1. ToolchainRuns(t)
    BY <1>1, <1>3, ItsOwnRun DEF GraphInv
  <2>2. PICK bundle : Store(k, bundle) /\ ToolchainValid(bundle, t, outputs.profile)
    BY <2>1, ToolchainClean
  <2>3. UNCHANGED outputs
    BY <2>1 DEF ToolchainRuns
  <2>4. Has(k)' /\ artifacts'[k] = bundle
    BY <2>2, StoreEffect DEF Has
  <2> QED
    BY <2>2, <2>3, <2>4
<1> QED
  BY <1>2, <1>3

LEMMA BuildsStep ==
    ASSUME GraphInv, StandsInv, NothingWrong, CleanInv, Next, clean',
           NEW c \in Components, NEW t \in Targets, job'[<<"components", c, t>>] = "success"
    PROVE  /\ Has(<<"components", c, t>>)'
           /\ GoodDist(artifacts'[<<"components", c, t>>], c, t, outputs', artifacts'[<<"toolchain", t>>])
<1> DEFINE k == <<"components", c, t>>
           b == <<"toolchain", t>>
<1>1. k \in Jobs /\ k[1] = "components" /\ {"prepare", "toolchain"} \subseteq Ancestors(k[1])
  BY LegsAreTheJobs, AllBefore
<1>2. CASE job[k] = "success"
  <2>1. UNCHANGED outputs /\ artifacts'[b] = artifacts[b]
    BY <1>1, <1>2, StandingOutputs, StandingToolchain
  <2>2. ~ComponentRuns(c, t) /\ Has(k)
    BY <1>1, <1>2, ComponentServes, ServedJob DEF NothingWrong
  <2>3. Has(k)' /\ artifacts'[k] = artifacts[k]
    BY <2>2, BuildArtifact
  <2> QED
    BY <1>2, <2>1, <2>3 DEF NothingWrong
<1>3. CASE job[k] # "success"
  <2>1. ComponentRuns(c, t)
    BY <1>1, <1>3, ItsOwnRun DEF GraphInv
  <2>2. PICK dist : Store(k, dist) /\ GoodDist(dist, c, t, outputs, artifacts[b])
    BY <2>1, ComponentClean
  <2>3. UNCHANGED outputs
    BY <2>1 DEF ComponentRuns
  <2>4. Has(k)' /\ artifacts'[k] = dist
    BY <2>2, StoreEffect DEF Has
  <2>5. artifacts'[b] = artifacts[b]
    <3>1. Due(k)
      BY <2>1 DEF ComponentRuns, Ready
    <3>2. Succeeded("toolchain")
      BY <1>1, <3>1, DueSucceeded
    <3>3. b \in DOMAIN artifacts /\ b # k
      BY <3>2 DEF Succeeded, Legs, NothingWrong, Has
    <3> QED
      BY <2>2, <3>3, StoreEffect
  <2> QED
    BY <2>2, <2>3, <2>4, <2>5
<1> QED
  BY <1>2, <1>3

LEMMA RuntimesStep ==
    ASSUME GraphInv, StandsInv, ResolutionInv, NothingWrong, CleanInv, Next, clean',
           NEW t \in Targets, job'[<<"darkpanda", t>>] = "success"
    PROVE  /\ Has(<<"darkpanda", t>>)'
           /\ GoodRuntime(t, artifacts'[<<"darkpanda", t>>], outputs')
<1> DEFINE k == <<"darkpanda", t>>
<1>1. k \in Jobs /\ k[1] = "darkpanda" /\ "prepare" \in Ancestors(k[1])
  BY LegsAreTheJobs, AllBefore
<1>2. CASE job[k] = "success"
  <2>1. UNCHANGED outputs
    BY <1>1, <1>2, StandingOutputs
  <2>2. ~DarkpandaRuns(t) /\ Has(k)
    BY <1>1, <1>2, DarkpandaServes, ServedJob DEF NothingWrong
  <2>3. Has(k)' /\ artifacts'[k] = artifacts[k]
    BY <2>2, LegArtifact
  <2> QED
    BY <1>2, <2>1, <2>3 DEF NothingWrong
<1>3. CASE job[k] # "success"
  <2>1. DarkpandaRuns(t)
    BY <1>1, <1>3, ItsOwnRun DEF GraphInv
  <2>2. PICK result : Store(k, result) /\ GoodRuntime(t, result, outputs)
    BY <2>1, DarkpandaClean
  <2>3. UNCHANGED outputs
    BY <2>1 DEF DarkpandaRuns
  <2>4. Has(k)' /\ artifacts'[k] = result
    BY <2>2, StoreEffect DEF Has
  <2> QED
    BY <2>2, <2>3, <2>4
<1> QED
  BY <1>2, <1>3

LEMMA WheelsStep ==
    ASSUME GraphInv, StandsInv, NothingWrong, CleanInv, Next, clean',
           NEW t \in Targets, job'[<<"python", t>>] = "success"
    PROVE  /\ Has(<<"python", t>>)'
           /\ WheelValid(artifacts'[<<"python", t>>], t, outputs')
<1> DEFINE k == <<"python", t>>
<1>1. k \in Jobs /\ k[1] = "python" /\ "prepare" \in Ancestors(k[1])
  BY LegsAreTheJobs, AllBefore
<1>2. CASE job[k] = "success"
  <2>1. UNCHANGED outputs
    BY <1>1, <1>2, StandingOutputs
  <2>2. ~PythonRuns(t) /\ Has(k)
    BY <1>1, <1>2, PythonServes, ServedJob DEF NothingWrong
  <2>3. Has(k)' /\ artifacts'[k] = artifacts[k]
    BY <2>2, LegArtifact
  <2> QED
    BY <1>2, <2>1, <2>3 DEF NothingWrong
<1>3. CASE job[k] # "success"
  <2>1. PythonRuns(t)
    BY <1>1, <1>3, ItsOwnRun DEF GraphInv
  <2>2. PICK result : Store(k, result) /\ WheelValid(result, t, outputs)
    BY <2>1, PythonClean
  <2>3. UNCHANGED outputs
    BY <2>1 DEF PythonRuns
  <2>4. Has(k)' /\ artifacts'[k] = result
    BY <2>2, StoreEffect DEF Has
  <2> QED
    BY <2>2, <2>3, <2>4
<1> QED
  BY <1>2, <1>3

LEMMA CleanStep ==
    GraphInv /\ StandsInv /\ ResolutionInv /\ CleanInv /\ [Next]_vars => CleanInv'
<1> SUFFICES ASSUME GraphInv, StandsInv, ResolutionInv, CleanInv, [Next]_vars, clean'
             PROVE  NothingWrong'
  BY DEF CleanInv
<1>1. CASE Next /\ \A j \in Jobs : job'[j] = "queued"
  BY <1>1, LegsAreTheJobs DEF NothingWrong
<1>2. CASE Next /\ clean /\ AllGoing'
  <2>1. NothingWrong
    BY <1>2 DEF CleanInv
  <2>2. job'[<<"prepare">>] = "success" => GoodInputs(outputs')
    <3>1. CASE job[<<"prepare">>] = "success"
      <4>1. UNCHANGED outputs
        BY <1>2, <3>1, StandingJobs, OtherResolution
      <4> QED
        BY <2>1, <3>1, <4>1 DEF NothingWrong
    <3>2. CASE job[<<"prepare">>] # "success" /\ job'[<<"prepare">>] = "success"
      <4>1. PrepareRuns
        BY <1>2, <3>2, ItsOwnRun, LegsAreTheJobs DEF GraphInv
      <4> QED
        BY <4>1, PrepareClean
    <3> QED
      BY <3>1, <3>2
  <2> QED
    BY <1>2, <2>1, <2>2, ToolchainsStep, BuildsStep, RuntimesStep, WheelsStep
    DEF NothingWrong, AllGoing, GoodInputs, GoodDist, GoodRuntime
<1>3. CASE UNCHANGED vars
  BY <1>3 DEF vars, CleanInv, NothingWrong, Has, GoodInputs
<1> QED
  BY <1>1, <1>2, <1>3, GoingStep

\* An attempt in which nothing goes wrong publishes: no check of the gate, of the aggregate or of the
\* release refuses what the code before it makes, and nothing that an earlier attempt has left stands
\* in the way.
THEOREM CleanAttemptsPublish == Spec => []CleanAttemptPublishes
<1>1. Init => StandsInv /\ CleanInv
  <2> SUFFICES ASSUME Init PROVE StandsInv /\ CleanInv
    OBVIOUS
  <2>1. \A j \in Jobs : job[j] = "queued"
    BY DEF Init, GraphInit
  <2> QED
    BY <2>1, LegsAreTheJobs DEF StandsInv, CleanInv, NothingWrong
<1>2. [Next]_vars => [GraphNext]_graphVars
  BY StepOfTheGraph, StutterOfTheGraph
<1>3. TogetherInv => ResolutionInv
  BY DEF TogetherInv
<1>4. Spec => [](StandsInv /\ CleanInv)
  BY <1>1, <1>2, <1>3, StandsStep, CleanStep, PipelineTogether, PTL DEF Spec
<1>5. CleanInv => CleanAttemptPublishes
  BY SingleJobs DEF CleanInv, NothingWrong, CleanAttemptPublishes, AttemptOver, Over
<1> QED
  BY <1>4, <1>5, PTL
=============================================================================
