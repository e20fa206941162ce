--------------------------- MODULE RuntimePackage ---------------------------
(***************************************************************************)
(* The runtime archive of one target: how package_prebuilt.py makes and     *)
(* attests it, what the workflow reports of the job that ran it, and how    *)
(* aggregate_darkpanda_reports.py judges what the jobs have uploaded.       *)
(*                                                                         *)
(* A binary is [lib, built, abi, image]: its name, which build made it, the  *)
(* ABI version it exports and its image (DependencyContract).  An archive    *)
(* is [name, root, files].  The list of payload digests in BUILD-INFO.json,  *)
(* which nobody reads, headers, licence and toolchain names are left out;    *)
(* file modes and times too.                                               *)
(***************************************************************************)
EXTENDS ComponentReports, DependencyContract

CONSTANTS
    SourceRevision,     \* GITHUB_SHA
    FixedInputs         \* profile and versions of V8 and zig-v8, fixed by that revision

Platform(t) ==
    CASE t = Windows -> "windows" [] t = "linux-x86_64" -> "linux" [] OTHER -> "macos"

Architecture(t) == IF t = "macos-aarch64" THEN "arm64" ELSE "x86_64"

\* The components whose library is a file of its own in the package.
LinkedComponents == Components \ {"boringssl"}

VisualC(t) == IF t = Windows THEN {"vcruntime"} ELSE {}

\* What the runtime is loaded through; the libraries of a package; all its binaries.
Closure == {"ffi"} \cup LinkedComponents
Libraries(t) == Closure \cup VisualC(t)
Runtime(t) == {"cli"} \cup Libraries(t)

Bin(n) == <<"bin", n>>
Packaged(c, p) == <<"metadata", "components", c, p[2]>>
BuildInfoFile == <<"BUILD-INFO.json">>
SumsFile == <<"SHA256SUMS">>
DependencyFile == <<"metadata", "runtime-dependencies.json">>

-----------------------------------------------------------------------------
(* The dependencies of the binaries of a target. *)

ImageAccepted(t, n, image) ==
    CASE Platform(t) = "windows" -> PeAccepted(image, Runtime(t))
      [] Platform(t) = "linux" -> ElfAccepted(image, Libraries(t))
      [] OTHER -> MachOAccepted(image, n, Architecture(t))

ImageRecord(t, image) ==
    CASE Platform(t) = "windows" -> PeRecord(image, Runtime(t))
      [] Platform(t) = "linux" -> ElfRecord(image, Libraries(t))
      [] OTHER -> MachORecord(image)

RecordValid(t, n, record) ==
    CASE Platform(t) = "windows" -> PeRecordValid(record, Runtime(t))
      [] Platform(t) = "linux" -> ElfRecordValid(record, Libraries(t))
      [] OTHER -> MachORecordValid(record, n, Libraries(t), Architecture(t))

\* runtime-dependencies.json, for an installed runtime
DependencyManifest(t, install) ==
    [platform |-> Platform(t), names |-> Runtime(t), bundledVisualC |-> VisualC(t),
     binaries |-> [n \in Runtime(t) |-> ImageRecord(t, install[n].image)]]

DependencyManifestValid(manifest, t) ==
    /\ manifest.platform = Platform(t)
    /\ DOMAIN manifest.binaries = Runtime(t)
    /\ manifest.names = Runtime(t)
    /\ manifest.bundledVisualC = VisualC(t)
    /\ \A n \in Runtime(t) : RecordValid(t, n, manifest.binaries[n])

-----------------------------------------------------------------------------
(* Packaging: dists of one target by component, install the runtime that zig build installed,   *)
(* inputs the outputs of the prepare job.                                                       *)

\* Everything package() may refuse before it has written an archive.
Packageable(t, dists, install, inputs) ==
    /\ \A c \in Components : VerifiedComponent(dists[c], c, t)
    /\ \A c, d \in Components :
        /\ dists[c][BuildInfo].profile = dists[d][BuildInfo].profile
        /\ dists[c][BuildInfo].manifest = dists[d][BuildInfo].manifest
    /\ \A c \in Components \cap {"boringssl"} :
        dists[c][BuildInfo].revision = inputs.revisions[c]
    /\ Runtime(t) \subseteq DOMAIN install
    /\ \A n \in Runtime(t) : ImageAccepted(t, n, install[n].image)

\* BUILD-INFO.json
PackageInfo(t, dists, inputs) ==
    [platform |-> Platform(t), target |-> t, source |-> SourceRevision,
     fixed |-> inputs.fixed, boringssl |-> {inputs.revisions[c] : c \in Components \cap {"boringssl"}},
     closure |-> Runtime(t), components |-> [c \in Components |-> ComponentRecord(dists[c])]]

\* The staging directory before its checksum file: the binaries, the metadata of the components and
\* of the package.
Staging(t, dists, install, inputs) ==
    [p \in {Bin(n) : n \in Runtime(t)} |-> install[p[2]]]
    ++ [p \in {Packaged(c, m) : c \in Components, m \in Metadata} |->
            dists[p[3]][<<"metadata", p[4]>>]]
    ++ File(DependencyFile, DependencyManifest(t, install))
    ++ File(BuildInfoFile, PackageInfo(t, dists, inputs))

ArchiveName(t) == <<"darkpanda", t>>

\* The archive of a staging directory, under its own name as the one root.
Archive(t, staging) ==
    [name |-> ArchiveName(t), root |-> ArchiveName(t),
     files |-> staging ++ File(SumsFile, SumsOf(staging))]

\* An archive whose writing was cut short: it cannot be read.
Truncated(t) == [name |-> ArchiveName(t), root |-> ArchiveName(t), files |-> << >>]

\* Extraction: only safe members, the one root expected.
Extracts(archive, root) ==
    /\ archive.files # << >>
    /\ archive.root = root
    /\ \A p \in DOMAIN archive.files : SafeRelative(p)

\* The files that the attestation runs or loads.
RuntimePaths(archive) == \A n \in {"cli"} \cup Closure : Bin(n) \in DOMAIN archive.files

\* The ABI version that the attestation asks of a loaded library.
IdentityHolds(n, abi) == IF n = "canvas" THEN abi = 5 ELSE n \in {"ffi", "wreq"} => abi >= 1

\* The runtime as the attestation loads it in a clean environment: loads says whether the process
\* that loads the libraries ends well.
RuntimeLoads(archive, loads) ==
    loads /\ \A n \in Closure : IdentityHolds(n, archive.files[Bin(n)].abi)

LoaderPolicy(t) ==
    CASE Platform(t) = "windows" -> "archive-bin-plus-windows-system"
      [] Platform(t) = "linux" -> "elf-origin-plus-system"
      [] OTHER -> "macho-rpath-plus-system"

\* The attestation report of an archive just made: extracted beside it, run and loaded.
Attestation(t, archive, loads) ==
    LET report(status, policy, loaded) ==
            [archive |-> archive.name, sha |-> Sha256(archive), root |-> ArchiveName(t),
             status |-> status, policy |-> policy, loaded |-> loaded]
    IN  IF Extracts(archive, ArchiveName(t)) /\ RuntimePaths(archive) /\ RuntimeLoads(archive, loads)
        THEN report("PASS", LoaderPolicy(t), {Bin(n) : n \in Closure})
        ELSE report("FAIL", None, {})

\* The outcome of package(): its files and whether it returned.  cut is where the process ended
\* before its time ("none" if it did not): while it wrote the archive, before the checksum, before
\* the attestation report.
Package(t, dists, install, inputs, cut, loads) ==
    LET archive == Archive(t, Staging(t, dists, install, inputs))
        attestation == Attestation(t, archive, loads)
        left(written, checksum, report, outcome) ==
            [archive |-> written, checksum |-> checksum, attestation |-> report, outcome |-> outcome]
    IN  IF ~Packageable(t, dists, install, inputs) THEN left(None, None, None, "failure")
        ELSE CASE cut = "archive" -> left(Truncated(t), None, None, "failure")
               [] cut = "checksum" -> left(archive, None, None, "failure")
               [] cut = "attestation" -> left(archive, Sha256(archive), None, "failure")
               [] OTHER -> left(archive, Sha256(archive), attestation,
                                IF attestation.status = "PASS" THEN "success" ELSE "failure")

-----------------------------------------------------------------------------
(* The job around it. *)

\* The job's own check of the dists it has downloaded, before it builds: the revisions are those of
\* prepare, the suites are not looked at.
SourceContract(t, dists, inputs, resolved) ==
    /\ resolved.schema = "v7"
    /\ resolved.profile = inputs.profile
    /\ DOMAIN dists = Components
    /\ \A c \in Components :
        /\ {BuildInfo, TestResults} \subseteq DOMAIN dists[c]
        /\ resolved.revisions[c] = inputs.revisions[c]
        /\ dists[c][BuildInfo].revision = inputs.revisions[c]
        /\ dists[c][BuildInfo].target = t
        /\ dists[c][BuildInfo].component = c
        /\ dists[c][BuildInfo].profile = inputs.profile
        /\ ~dists[c][BuildInfo].dirty
        /\ dists[c][BuildInfo].manifest # None
        /\ dists[c][TestResults].target = t
        /\ dists[c][TestResults].status = "passed"
    /\ \A c, d \in Components : dists[c][BuildInfo].manifest = dists[d][BuildInfo].manifest

Steps == {"sourceContract", "install", "package"}

\* The attestation that the workflow writes in place of one that is missing.
MissingAttestation(t) ==
    [archive |-> None, sha |-> None, root |-> None, status |-> "FAIL", policy |-> None, loaded |-> {}]

\* What the job uploads: the platform report over the outcome of its steps and the files they left.
PlatformResult(t, steps, packaged, inputs, resolved) ==
    LET attestation == IF packaged.attestation = None THEN MissingAttestation(t)
                       ELSE packaged.attestation
        passed == /\ \A s \in Steps : steps[s] = "success"
                  /\ packaged.attestation # None
                  /\ packaged.archive # None
    IN  [report |->
            [target |-> t, platform |-> Platform(t), status |-> IF passed THEN "passed" ELSE "failed",
             source |-> SourceRevision, profile |-> inputs.profile, resolved |-> Sha256(resolved),
             components |-> [c \in Components |-> inputs.revisions[c]], fixed |-> inputs.fixed,
             steps |-> steps, attestation |-> Sha256(attestation),
             package |-> IF packaged.archive = None THEN None
                         ELSE [name |-> packaged.archive.name, sha |-> Sha256(packaged.archive)]],
         attestation |-> attestation, archive |-> packaged.archive, checksum |-> packaged.checksum]

-----------------------------------------------------------------------------
(* The final aggregate. *)

\* The archive's own checksum file.
InternalChecksumsHold(archive) ==
    /\ SumsFile \in DOMAIN archive.files
    /\ Covers(archive.files[SumsFile], archive.files, SumsFile)

PackagedBinaries(archive) == {p[2] : p \in {p \in DOMAIN archive.files : p[1] = "bin"}}

PackageInfoValid(info, t, resolved) ==
    /\ info.platform = Platform(t)
    /\ info.target = t
    /\ info.source = resolved.source
    /\ info.fixed = resolved.fixed
    /\ info.boringssl = {resolved.revisions[c] : c \in Components \cap {"boringssl"}}
    /\ info.closure = Runtime(t)
    /\ DOMAIN info.components = Components

\* A component as it is packaged: its build report, and the package's record of it.
PackagedComponentValid(build, record, c, t, resolved) ==
    /\ build.component = c
    /\ build.target = t
    /\ ~build.dirty
    /\ build.revision = resolved.revisions[c]
    /\ build.profile = resolved.profile
    /\ build.manifest # None
    /\ record.target = t
    /\ record.revision = resolved.revisions[c]
    /\ record.profile = resolved.profile
    /\ record.manifest = build.manifest
    /\ record.buildInfo = Sha256(build)

PackageValid(archive, t, resolved) ==
    LET files == archive.files
        build(c) == files[Packaged(c, BuildInfo)]
    IN  /\ Extracts(archive, archive.name)
        /\ InternalChecksumsHold(archive)
        /\ PackagedBinaries(archive) = Runtime(t)
        /\ DependencyManifestValid(files[DependencyFile], t)
        /\ PackageInfoValid(files[BuildInfoFile], t, resolved)
        /\ \A c \in Components :
            PackagedComponentValid(build(c), files[BuildInfoFile].components[c], c, t, resolved)
        /\ \A c, d \in Components : build(c).manifest = build(d).manifest

AttestationValid(attestation, archive, t) ==
    /\ attestation.status = "PASS"
    /\ attestation.archive = archive.name
    /\ attestation.sha = Sha256(archive)
    /\ attestation.root = archive.name
    /\ attestation.policy = LoaderPolicy(t)
    /\ attestation.loaded = {Bin(n) : n \in Closure}

\* The report says that the platform passed, with the inputs of this run.
PlatformReportValid(report, t, resolved) ==
    /\ report.target = t
    /\ report.platform = Platform(t)
    /\ report.status = "passed"
    /\ report.source = resolved.source
    /\ report.profile = resolved.profile
    /\ report.resolved = Sha256(resolved)
    /\ report.components = [c \in Components |-> resolved.revisions[c]]
    /\ report.fixed = resolved.fixed
    /\ \A s \in Steps : report.steps[s] = "success"

PlatformValid(result, t, resolved) ==
    /\ PlatformReportValid(result.report, t, resolved)
    /\ result.report.attestation = Sha256(result.attestation)
    /\ result.archive # None
    /\ result.checksum = Sha256(result.archive)
    /\ PackageValid(result.archive, t, resolved)
    /\ AttestationValid(result.attestation, result.archive, t)
    /\ result.report.package = [name |-> result.archive.name, sha |-> Sha256(result.archive)]

\* The release directory of the aggregate, each file with its .sha256: emptied first, then filled
\* with every platform that is valid; SHA256SUMS only if all are.
NativeRelease(results, resolved) ==
    LET complete == resolved.schema = "v7" /\ DOMAIN results = Targets
        valid == IF complete THEN {t \in Targets : PlatformValid(results[t], t, resolved)} ELSE {}
        files == [name \in {ArchiveName(t) : t \in valid} |->
                    [file |-> results[name[2]].archive, sha |-> results[name[2]].checksum]]
        ok == complete /\ valid = Targets
    IN  [ok |-> ok, files |-> files,
         sums |-> IF ok THEN SumsOf([name \in DOMAIN files |-> files[name].file]) ELSE None]
=============================================================================
