-------------------------- MODULE PackagingProofs --------------------------
(***************************************************************************)
(* What the packager promises the final aggregate, for every runtime and    *)
(* every set of dists: the archive it writes holds the binaries it accepted, *)
(* with a record of each that says what its image says, and a report PASS    *)
(* only for libraries that have the ABI asked for.                          *)
(***************************************************************************)
EXTENDS RuntimePackage, TLAPS

\* The binaries of an archive are those the packager accepted, and are recorded as they are.
Agrees(t, archive) ==
    /\ archive.name = ArchiveName(t)
    /\ \A n \in Runtime(t) :
        /\ ImageAccepted(t, n, archive.files[Bin(n)].image)
        /\ archive.files[DependencyFile].binaries[n] = ImageRecord(t, archive.files[Bin(n)].image)

\* The libraries have the ABI versions that the attestation asks for.
Identified(archive) == \A n \in Closure : IdentityHolds(n, archive.files[Bin(n)].abi)

-----------------------------------------------------------------------------
(* The two judges of a binary's dependencies. *)

LEMMA ElfJudges ==
    ASSUME NEW image, NEW bundled, ElfAccepted(image, bundled)
    PROVE  ElfRecordValid(ElfRecord(image, bundled), bundled)
BY DEF ElfAccepted, ElfRecordValid, ElfRecord

LEMMA PeJudges ==
    ASSUME NEW image, NEW bundled, PeAccepted(image, bundled)
    PROVE  PeRecordValid(PeRecord(image, bundled), bundled)
BY DEF PeAccepted, PeRecordValid, PeRecord, FromSystem32

LEMMA Platforms ==
    ASSUME NEW t
    PROVE  Platform(t) = "windows" \/ Platform(t) = "linux" \/ Platform(t) = "macos"
<1>1. CASE t = Windows
  BY <1>1, Zenon DEF Platform, Windows
<1>2. CASE t # Windows /\ t = "linux-x86_64"
  BY <1>2, Zenon DEF Platform, Windows
<1>3. CASE t # Windows /\ t # "linux-x86_64"
  BY <1>3, Zenon DEF Platform
<1> QED
  BY <1>1, <1>2, <1>3

\* On Windows and Linux the aggregate accepts the record of whatever the packager has accepted; on
\* macOS it asks more, that every library is in the package or the system's.
THEOREM JudgesAgree ==
    ASSUME NEW t, NEW n, NEW image, ImageAccepted(t, n, image),
           Platform(t) # "macos" \/ image.libraries \subseteq Libraries(t) \cup SystemPaths
    PROVE  RecordValid(t, n, ImageRecord(t, image))
<1>1. CASE Platform(t) = "windows"
  <2>1. PeAccepted(image, Runtime(t))
    BY <1>1 DEF ImageAccepted
  <2>2. PeRecordValid(PeRecord(image, Runtime(t)), Runtime(t))
    BY <2>1, PeJudges
  <2>3. ImageRecord(t, image) = PeRecord(image, Runtime(t))
    BY <1>1 DEF ImageRecord
  <2> QED
    BY <1>1, <2>2, <2>3 DEF RecordValid
<1>2. CASE Platform(t) = "linux"
  <2>1. ElfAccepted(image, Libraries(t))
    BY <1>2 DEF ImageAccepted
  <2>2. ElfRecordValid(ElfRecord(image, Libraries(t)), Libraries(t))
    BY <2>1, ElfJudges
  <2>3. ImageRecord(t, image) = ElfRecord(image, Libraries(t))
    BY <1>2 DEF ImageRecord
  <2> QED
    BY <1>2, <2>2, <2>3 DEF RecordValid
<1>3. CASE Platform(t) = "macos"
  <2>1. MachOAccepted(image, n, Architecture(t))
    BY <1>3, Zenon DEF ImageAccepted
  <2>2. MachORecordValid(MachORecord(image), n, Libraries(t), Architecture(t))
    BY <1>3, <2>1 DEF MachOAccepted, MachORecordValid, MachORecord, LibrariesKnown
  <2>3. ImageRecord(t, image) = MachORecord(image)
    BY <1>3, Zenon DEF ImageRecord
  <2> QED
    BY <1>3, <2>2, <2>3, Zenon DEF RecordValid
<1> QED
  BY <1>1, <1>2, <1>3, Platforms

\* The packager asks less of a dist than the native gate.
THEOREM GateImpliesPackager ==
    ASSUME NEW dist, NEW c, NEW t, NEW resolved, ComponentPasses(dist, c, t, resolved)
    PROVE  VerifiedComponent(dist, c, t)
BY DEF ComponentPasses, VerifiedComponent, TestsPass, SuitesPass, Provenance

-----------------------------------------------------------------------------
(* The archive of a staging directory. *)

\* The paths of a staging directory.
StagingPaths(t) ==
    {Bin(n) : n \in Runtime(t)}
    \cup {Packaged(c, m) : c \in Components, m \in Metadata}
    \cup {DependencyFile, BuildInfoFile}

\* What a directory has under the paths of the binaries, of the metadata and of the manifest.
Holds(files, t, dists, install, inputs) ==
    /\ StagingPaths(t) \subseteq DOMAIN files
    /\ \A n \in Runtime(t) : files[Bin(n)] = install[n]
    /\ \A c \in Components : files[Packaged(c, TestResults)] = dists[c][TestResults]
    /\ \A c \in Components : files[Packaged(c, BuildInfo)] = dists[c][BuildInfo]
    /\ files[DependencyFile] = DependencyManifest(t, install)
    /\ files[BuildInfoFile] = PackageInfo(t, dists, inputs)

\* The staging directory, path by path.
LEMMA StagingFiles ==
    ASSUME NEW t, NEW dists, NEW install, NEW inputs,
           NEW staging, staging = Staging(t, dists, install, inputs)
    PROVE  /\ DOMAIN staging = StagingPaths(t)
           /\ Holds(staging, t, dists, install, inputs)
<1> DEFINE bins == [q \in {Bin(n) : n \in Runtime(t)} |-> install[q[2]]]
           copied == [q \in {Packaged(d, m) : d \in Components, m \in Metadata} |->
                        dists[q[3]][<<"metadata", q[4]>>]]
           dep == File(DependencyFile, DependencyManifest(t, install))
           info == File(BuildInfoFile, PackageInfo(t, dists, inputs))
<1>1. staging = bins ++ copied ++ dep ++ info
  BY DEF Staging
<1>2. ASSUME NEW n \in Runtime(t)
      PROVE  Bin(n) \in DOMAIN bins /\ bins[Bin(n)] = install[n]
  BY DEF Bin
<1>3. ASSUME NEW c \in Components, NEW m \in {TestResults, BuildInfo}
      PROVE  /\ Packaged(c, m) \in DOMAIN copied
             /\ copied[Packaged(c, m)] = dists[c][m]
             /\ Packaged(c, m) \notin DOMAIN bins
  <2>1. Packaged(c, m) = <<"metadata", "components", c, m[2]>> /\ m = <<"metadata", m[2]>>
    BY DEF Packaged, TestResults, BuildInfo
  <2>2. Packaged(c, m) \in DOMAIN copied
    BY DEF Metadata
  <2>3. Packaged(c, m) \notin DOMAIN bins
    BY <2>1 DEF Bin
  <2>4. copied[Packaged(c, m)] = dists[c][m]
    BY <2>1, <2>2
  <2> QED
    BY <2>2, <2>3, <2>4
<1>4. /\ DependencyFile \notin DOMAIN bins
      /\ DependencyFile \notin DOMAIN copied
      /\ DependencyFile \in DOMAIN dep /\ dep[DependencyFile] = DependencyManifest(t, install)
  BY DEF DependencyFile, Bin, Packaged, File
<1>5. /\ BuildInfoFile \notin DOMAIN bins /\ BuildInfoFile \notin DOMAIN copied
      /\ BuildInfoFile \notin DOMAIN dep
      /\ BuildInfoFile \in DOMAIN info /\ info[BuildInfoFile] = PackageInfo(t, dists, inputs)
  BY DEF BuildInfoFile, DependencyFile, Bin, Packaged, File
<1>6. /\ DOMAIN bins = {Bin(n) : n \in Runtime(t)}
      /\ DOMAIN copied = {Packaged(c, m) : c \in Components, m \in Metadata}
      /\ DOMAIN dep = {DependencyFile} /\ DOMAIN info = {BuildInfoFile}
  BY DEF File
<1> HIDE DEF bins, copied, dep, info
<1>7. /\ DOMAIN staging = DOMAIN bins \cup DOMAIN copied \cup DOMAIN dep \cup DOMAIN info
      /\ \A p \in DOMAIN bins : staging[p] = bins[p]
      /\ \A p \in DOMAIN copied : p \notin DOMAIN bins => staging[p] = copied[p]
      /\ \A p \in DOMAIN dep : p \notin DOMAIN bins /\ p \notin DOMAIN copied => staging[p] = dep[p]
      /\ \A p \in DOMAIN info :
            p \notin DOMAIN bins /\ p \notin DOMAIN copied /\ p \notin DOMAIN dep =>
                staging[p] = info[p]
  BY <1>1 DEF ++
<1>8. DOMAIN staging = {Bin(n) : n \in Runtime(t)}
                       \cup {Packaged(c, m) : c \in Components, m \in Metadata}
                       \cup {DependencyFile, BuildInfoFile}
  BY <1>6, <1>7
<1>9. /\ \A n \in Runtime(t) : staging[Bin(n)] = install[n]
      /\ \A c \in Components : staging[Packaged(c, TestResults)] = dists[c][TestResults]
      /\ \A c \in Components : staging[Packaged(c, BuildInfo)] = dists[c][BuildInfo]
  BY <1>2, <1>3, <1>7
<1>10. /\ staging[DependencyFile] = DependencyManifest(t, install)
       /\ staging[BuildInfoFile] = PackageInfo(t, dists, inputs)
  BY <1>4, <1>5, <1>7
<1> QED
  BY <1>8, <1>9, <1>10 DEF StagingPaths, Holds

\* What the archive adds is its checksum file.
LEMMA ArchiveFiles ==
    ASSUME NEW t, NEW staging, DOMAIN staging = StagingPaths(t)
    PROVE  /\ SumsFile \notin DOMAIN staging
           /\ Archive(t, staging).files = staging ++ File(SumsFile, SumsOf(staging))
           /\ DOMAIN Archive(t, staging).files = DOMAIN staging \cup {SumsFile}
           /\ \A p \in DOMAIN staging : Archive(t, staging).files[p] = staging[p]
<1> DEFINE files == Archive(t, staging).files
<1>1. files = staging ++ File(SumsFile, SumsOf(staging))
  BY DEF Archive
<1>2. SumsFile \notin DOMAIN staging
  BY DEF StagingPaths, SumsFile, Bin, Packaged, DependencyFile, BuildInfoFile
<1> HIDE DEF files
<1>3. DOMAIN files = DOMAIN staging \cup {SumsFile} /\ \A p \in DOMAIN staging : files[p] = staging[p]
  BY <1>1 DEF File, ++
<1> QED
  BY <1>1, <1>2, <1>3 DEF files

\* What the archive has under the paths of its binaries, of the metadata and of the manifest.
LEMMA StagedFiles ==
    ASSUME NEW t, NEW dists, NEW install, NEW inputs
    PROVE  Holds(Archive(t, Staging(t, dists, install, inputs)).files, t, dists, install, inputs)
<1>1. PICK staging : staging = Staging(t, dists, install, inputs)
  OBVIOUS
<1>2. DOMAIN staging = StagingPaths(t) /\ Holds(staging, t, dists, install, inputs)
  BY <1>1, StagingFiles
<1>3. PICK files : files = Archive(t, staging).files
  OBVIOUS
<1>4. StagingPaths(t) \subseteq DOMAIN files /\ \A p \in StagingPaths(t) : files[p] = staging[p]
  BY <1>2, <1>3, ArchiveFiles
<1>5. /\ \A n \in Runtime(t) : Bin(n) \in StagingPaths(t)
      /\ \A c \in Components : Packaged(c, TestResults) \in StagingPaths(t)
                               /\ Packaged(c, BuildInfo) \in StagingPaths(t)
      /\ DependencyFile \in StagingPaths(t) /\ BuildInfoFile \in StagingPaths(t)
  BY DEF StagingPaths, Metadata
<1>6. Holds(files, t, dists, install, inputs)
  BY <1>2, <1>4, <1>5 DEF Holds
<1> QED
  BY <1>1, <1>3, <1>6

\* The archive of a packaging that got so far agrees with the binaries that were installed.
LEMMA ArchiveAgrees ==
    ASSUME NEW t, NEW dists, NEW install, NEW inputs, Packageable(t, dists, install, inputs)
    PROVE  Agrees(t, Archive(t, Staging(t, dists, install, inputs)))
<1> DEFINE archive == Archive(t, Staging(t, dists, install, inputs))
<1>1. archive.name = ArchiveName(t)
  BY DEF Archive
<1>2. Holds(archive.files, t, dists, install, inputs)
  BY StagedFiles
<1> HIDE DEF archive
<1>3. ASSUME NEW n \in Runtime(t)
      PROVE  /\ ImageAccepted(t, n, archive.files[Bin(n)].image)
             /\ archive.files[DependencyFile].binaries[n]
                = ImageRecord(t, archive.files[Bin(n)].image)
  <2>1. archive.files[Bin(n)] = install[n]
    BY <1>2 DEF Holds
  <2>2. archive.files[DependencyFile] = DependencyManifest(t, install)
    BY <1>2 DEF Holds
  <2>3. DependencyManifest(t, install).binaries[n] = ImageRecord(t, install[n].image)
    BY DEF DependencyManifest
  <2>4. ImageAccepted(t, n, install[n].image)
    BY DEF Packageable
  <2> QED
    BY <2>1, <2>2, <2>3, <2>4
<1> QED
  BY <1>1, <1>3 DEF Agrees, archive

\* What package() leaves, wherever it ends.
LEMMA PackageOutcome ==
    ASSUME NEW t, NEW dists, NEW install, NEW inputs, NEW cut, NEW loads
    PROVE  LET packaged == Package(t, dists, install, inputs, cut, loads)
               archive == Archive(t, Staging(t, dists, install, inputs))
           IN  /\ \/ packaged.archive \in {None, Truncated(t)}
                  \/ packaged.archive = archive /\ Packageable(t, dists, install, inputs)
               /\ \/ packaged.attestation = None
                  \/ /\ packaged.attestation = Attestation(t, archive, loads)
                     /\ packaged.archive = archive
<1> DEFINE packaged == Package(t, dists, install, inputs, cut, loads)
           archive == Archive(t, Staging(t, dists, install, inputs))
           attestation == Attestation(t, archive, loads)
<1>1. CASE ~Packageable(t, dists, install, inputs)
  <2>1. packaged = [archive |-> None, checksum |-> None, attestation |-> None,
                    outcome |-> "failure"]
    BY <1>1, Zenon DEF Package
  <2> QED
    BY <2>1
<1>2. CASE Packageable(t, dists, install, inputs) /\ cut = "archive"
  <2>1. packaged = [archive |-> Truncated(t), checksum |-> None, attestation |-> None,
                    outcome |-> "failure"]
    BY <1>2, Zenon DEF Package
  <2> QED
    BY <2>1
<1>3. CASE Packageable(t, dists, install, inputs) /\ cut = "checksum"
  <2>1. packaged = [archive |-> archive, checksum |-> None, attestation |-> None,
                    outcome |-> "failure"]
    BY <1>3, Zenon DEF Package
  <2> QED
    BY <1>3, <2>1
<1>4. CASE Packageable(t, dists, install, inputs) /\ cut = "attestation"
  <2>1. packaged = [archive |-> archive, checksum |-> Sha256(archive), attestation |-> None,
                    outcome |-> "failure"]
    BY <1>4, Zenon DEF Package
  <2> QED
    BY <1>4, <2>1
<1>5. CASE Packageable(t, dists, install, inputs)
           /\ cut # "archive" /\ cut # "checksum" /\ cut # "attestation"
  <2>1. packaged = [archive |-> archive, checksum |-> Sha256(archive), attestation |-> attestation,
                    outcome |-> IF attestation.status = "PASS" THEN "success" ELSE "failure"]
    BY <1>5, Zenon DEF Package
  <2> QED
    BY <1>5, <2>1
<1> QED
  BY <1>1, <1>2, <1>3, <1>4, <1>5

LEMMA AttestedLoads ==
    ASSUME NEW t, NEW archive, NEW loads, Attestation(t, archive, loads).status = "PASS"
    PROVE  Identified(archive)
BY DEF Attestation, RuntimeLoads, Identified
=============================================================================
