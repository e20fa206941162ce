-------------------------- MODULE ReleasePipeline --------------------------
(***************************************************************************)
(* One run of .github/workflows/prebuilt-binaries.yml and its re-runs: the  *)
(* jobs, what they upload under which name, the gates between them and the   *)
(* release at the end.  What a job computes from what it downloads is in     *)
(* ComponentReports, RuntimePackage and PythonWheel.                        *)
(*                                                                         *)
(* The last upload of a name wins, whichever attempt made it, and a job      *)
(* whose runner is lost uploads nothing.                                    *)
(***************************************************************************)
EXTENDS PythonWheel, JobGraph, SequencesExt

CONSTANTS
    MaxFaults,      \* bound: things that go wrong
    MaxRevision,    \* bound: revisions of the main of a source repository
    Moving,         \* bound: the repositories whose main moves
    Variants,       \* bound: toolchain bundles that differ in their bytes
    Faults          \* bound: the kinds of fault that happen

ASSUME PipelineAssumption ==
    /\ {MaxAttempts, MaxFaults, MaxRevision} \subseteq Nat
    /\ MaxAttempts > 0 /\ MaxRevision > 0
    /\ IsFiniteSet(Faults)

VARIABLES
    outputs,    \* the outputs of prepare: the resolved inputs, or None
    artifacts,  \* what has been uploaded in the run, by name
    heads,      \* the revisions of main that were last read
    release,    \* the assets of the release of the run, each file with its .sha256
    uploads,    \* the assets that the release job has still to upload
    faults,     \* how many things have gone wrong
    clean       \* nothing has since all jobs were last started

vars == <<attempt, job, outputs, artifacts, heads, release, uploads, faults, clean>>

-----------------------------------------------------------------------------
(* Artifacts. *)

Resolved == <<"resolved-inputs">>
Prebuilt == <<"darkpanda-prebuilt-all">>

Has(name) == name \in DOMAIN artifacts

\* The legs of a kind that have an artifact, with it, under the last parts of their name.
Downloaded(k) ==
    [t \in {t \in Targets : Has(<<k, t>>)} |-> artifacts[<<k, t>>]]

DownloadedDists ==
    [ct \in {ct \in Components \X Targets : Has(<<"components", ct[1], ct[2]>>)} |->
        artifacts[<<"components", ct[1], ct[2]>>]]

Store(name, content) == artifacts' = File(name, content) ++ artifacts

Happens(fault) ==
    IF fault = "none" THEN UNCHANGED <<faults, clean>>
    ELSE /\ faults < MaxFaults
         /\ faults' = faults + 1
         /\ clean' = FALSE

\* The faults that may befall a job among those given.
Possible(kinds) == {"none"} \cup (Faults \cap kinds)

-----------------------------------------------------------------------------
Init ==
    /\ GraphInit
    /\ outputs = None
    /\ artifacts = << >>
    /\ heads = [r \in Components \cup {Binding} |-> 1]
    /\ release = << >>
    /\ uploads = {}
    /\ faults = 0
    /\ clean = TRUE

\* prepare reads the main of every source repository, each at its own moment, and publishes the
\* graph of this attempt, or a document that says why there is none.
PrepareRuns ==
    LET j == <<"prepare">> IN
    /\ Ready(j)
    /\ \E found \in [Components \cup {Binding} -> 1..MaxRevision], fault \in Possible({"contracts"}) :
        LET resolved == [schema |-> "v7", build |-> attempt, source |-> SourceRevision,
                         profile |-> FixedInputs, fixed |-> FixedInputs, revisions |-> found]
        IN  /\ \A r \in Components \cup {Binding} :
                IF r \in Moving THEN found[r] >= heads[r] ELSE found[r] = heads[r]
            /\ heads' = found
            /\ outputs' = resolved
            /\ IF fault = "none" THEN Store(Resolved, resolved)
               ELSE Store(Resolved, [schema |-> "failure", build |-> attempt])
            /\ Ends(j, fault = "none")
            /\ Happens(fault)
    /\ UNCHANGED <<attempt, release, uploads>>

\* A toolchain bundle: uploaded only by a job that verified it.
ToolchainRuns(t) ==
    LET j == <<"toolchain", t>> IN
    /\ Ready(j)
    /\ \E v \in Variants, fault \in Possible({"toolchain"}) :
        LET tools == [cargo |-> [tool |-> "cargo", variant |-> v]]
            bundle == [tools |-> tools,
                       manifest |-> [target |-> t, profile |-> outputs.profile,
                                     tools |-> [cargo |-> Sha256(tools.cargo)]]]
        IN  /\ IF fault = "none" THEN Store(j, bundle) ELSE UNCHANGED artifacts
            /\ Ends(j, fault = "none")
            /\ Happens(fault)
    /\ UNCHANGED <<attempt, outputs, heads, release, uploads>>

-----------------------------------------------------------------------------
(* The component builds: tools/build.py is in the repositories of the components. *)

\* The libraries beside it that a binary is linked with.
LinkedWith(n) == IF n = "ffi" THEN LinkedComponents ELSE {}

GoodImage(t, n) ==
    CASE Platform(t) = "windows" ->
            [imports |-> {"kernel32"} \cup VisualC(t), delayed |-> LinkedWith(n)]
      [] Platform(t) = "linux" ->
            [needed |-> SetToSeq(LinkedWith(n) \cup {"libc"}), runtimePaths |-> {"$ORIGIN"},
             linked |-> [m \in LinkedWith(n) \cup {"libc"} |->
                            IF m = "libc" THEN "system" ELSE "package"]]
      [] OTHER ->
            [arch |-> Architecture(t), id |-> InstallName(n), runtimePaths |-> {"@loader_path"},
             libraries |-> LinkedWith(n) \cup {"libSystem"}]

\* The scripts allow what those images load, and the matrix has legs.
ASSUME CleanAssumption ==
    /\ Components # {} /\ Targets # {}
    /\ "libc" \in OsNeeded /\ "$ORIGIN" \in OriginPaths
    /\ "kernel32" \in System32 \ OwnPrefixes
    /\ UnsafeNames \cap (Components \cup {"kernel32", "vcruntime"}) = {}
    /\ "libSystem" \in SystemPaths
    /\ BuilderPaths \cap (Components \cup {"libSystem"}) = {}

\* A library that happens to be on the machine of the build, but neither in the package nor part of
\* the operating system.
ForeignImage(t, n) ==
    CASE Platform(t) = "windows" -> [GoodImage(t, n) EXCEPT !.delayed = @ \cup {"brotli"}]
      [] Platform(t) = "linux" ->
            [GoodImage(t, n) EXCEPT !.needed = Append(@, "brotli"),
                                    !.linked = @ ++ File("brotli", "system")]
      [] OTHER -> [GoodImage(t, n) EXCEPT !.libraries = @ \cup {"brotli"}]

Binary(t, n, foreign) ==
    [lib |-> n, built |-> attempt, abi |-> IF n = "canvas" THEN 5 ELSE 1,
     image |-> IF foreign THEN ForeignImage(t, n) ELSE GoodImage(t, n)]

\* What can be wrong with a dist whose build says that it has passed.
DistDefects == {"missingSuite", "failedSuite", "dirty", "missingFile", "unsummed", "foreignImage", "oldAbi"}

SuiteResults(c, defect) ==
    {[name |-> {s}, status |-> IF defect = "failedSuite" /\ s = "abi" THEN "failed" ELSE "passed"] :
        s \in IF defect = "missingSuite" THEN RequiredSuites(c) \ {"abi"} ELSE RequiredSuites(c)}

\* The files of a dist that was built with the given toolchain.
DistFiles(c, t, bundle, defect) ==
    LET binary == Binary(t, c, defect = "foreignImage") IN
    [p \in RequiredFiles(c, t) |->
        IF p = Library(c)
        THEN IF defect = "oldAbi" THEN [binary EXCEPT !.abi = 4] ELSE binary
        ELSE [header |-> c]]
    ++ File(TestResults, [component |-> c, target |-> t, status |-> "passed",
                          suites |-> SuiteResults(c, defect)])
    ++ File(BuildInfo, [component |-> c, target |-> t, revision |-> outputs.revisions[c],
                        dirty |-> defect = "dirty", profile |-> outputs.profile,
                        manifest |-> Sha256(bundle.manifest), crt |-> "static"])

Dist(c, t, bundle, defect) ==
    LET files == DistFiles(c, t, bundle, defect)
        kept == IF defect = "missingFile" THEN [p \in DOMAIN files \ {Library(c)} |-> files[p]] ELSE files
    IN  (IF defect = "unsummed" THEN File(<<"bin", "extra">>, [header |-> c]) ELSE << >>)
        ++ kept ++ File(Sums, SumsOf(kept))

\* What the workflow leaves of a build that failed.
FailedDist(c, t) ==
    File(TestResults, [component |-> c, target |-> t, status |-> "failure", suites |-> {}])

ComponentRuns(c, t) ==
    LET j == <<"components", c, t>>
        bundle == artifacts[<<"toolchain", t>>]
        usable == Has(<<"toolchain", t>>) /\ ToolchainValid(bundle, t, outputs.profile)
    IN  /\ Ready(j)
        /\ \E fault \in Possible({"build"} \cup DistDefects) :
            LET built == usable /\ fault # "build" IN
            /\ Store(j, IF built THEN Dist(c, t, bundle, fault) ELSE FailedDist(c, t))
            /\ Ends(j, built)
            /\ Happens(fault)
        /\ UNCHANGED <<attempt, outputs, heads, release, uploads>>

\* The native gate, over whatever has been uploaded.
NativeSummaryRuns ==
    LET j == <<"native-summary">>
        dists == DownloadedDists
    IN  /\ Ready(j)
        /\ Ends(j, dists # << >> /\ Has(Resolved) /\ NativeGate(dists, artifacts[Resolved]))
        /\ UNCHANGED <<attempt, outputs, artifacts, heads, release, uploads, faults, clean>>

-----------------------------------------------------------------------------
(* The runtime of a target and its wheel. *)

\* What zig build and the bundling of the VC runtime install: the libraries of the dists, and the
\* command and the ffi library linked against them.
Installed(t, dists, foreign) ==
    [n \in Runtime(t) |->
        IF n \in LinkedComponents THEN dists[n][Library(n)] ELSE Binary(t, n, foreign /\ n = "ffi")]

\* The outcome of the steps of the job: a source contract that fails skips the others, an
\* installation that fails leaves nothing for the packager.
RuntimeResult(t, dists, inputs, resolved, fault) ==
    LET contract == SourceContract(t, dists, inputs, resolved)
        linked == /\ \A c \in Components : RequiredFiles(c, t) \subseteq DOMAIN dists[c]
                  /\ fault # "install"
        install == IF linked THEN Installed(t, dists, fault = "foreignImage") ELSE << >>
        packaged == IF contract
                    THEN Package(t, dists, install, inputs, fault, fault # "load")
                    ELSE [archive |-> None, checksum |-> None, attestation |-> None,
                          outcome |-> "skipped"]
        steps == [sourceContract |-> IF contract THEN "success" ELSE "failure",
                  install |-> IF ~contract THEN "skipped" ELSE IF linked THEN "success" ELSE "failure",
                  package |-> packaged.outcome]
    IN  PlatformResult(t, steps, packaged, inputs, resolved)

DarkpandaRuns(t) ==
    LET j == <<"darkpanda", t>>
        dists == [c \in {c \in Components : Has(<<"components", c, t>>)} |->
                    artifacts[<<"components", c, t>>]]
    IN  /\ Ready(j)
        /\ \E fault \in Possible({"install", "foreignImage", "archive", "checksum", "attestation",
                                  "load"}) :
            LET result == RuntimeResult(t, dists, outputs, artifacts[Resolved], fault) IN
            /\ Store(j, result)
            /\ Ends(j, result.report.status = "passed")
            /\ Happens(fault)
        /\ UNCHANGED <<attempt, outputs, heads, release, uploads>>

PythonRuns(t) ==
    LET j == <<"python", t>> IN
    /\ Ready(j)
    /\ \E fault \in Possible({"policy", "rustTest", "pythonTest", "wheelCut"}) :
        LET source == [revision |-> outputs.revisions[Binding], dirty |-> FALSE,
                       policy |-> IF fault = "policy" THEN "own-build" ELSE "source-only"]
            result == WheelResult(t, source, artifacts[<<"darkpanda", t>>],
                                  artifacts[<<"toolchain", t>>], outputs, fault, fault = "wheelCut")
        IN  /\ Store(j, result)
            /\ Ends(j, result.report.status = "passed")
            /\ Happens(fault)
    /\ UNCHANGED <<attempt, outputs, heads, release, uploads>>

\* The fingerprint tests of the installed wheel.
FingerprintRuns ==
    LET j == <<"fingerprint">> IN
    /\ Ready(j)
    /\ \E fault \in Possible({"fingerprint"}) : Ends(j, fault = "none") /\ Happens(fault)
    /\ UNCHANGED <<attempt, outputs, artifacts, heads, release, uploads>>

-----------------------------------------------------------------------------
(* The final gate and the release. *)

\* Both validators over the downloaded results; the second one runs whatever the first one found.
Validated ==
    LET runtimes == Downloaded("darkpanda")
        wheels == Downloaded("python")
        native == NativeRelease(runtimes, artifacts[Resolved])
    IN  [native |-> native.ok,
         set |-> PythonRelease(wheels, artifacts[Resolved], native)]

\* Mistake: the gate is not tested.
EndsWithoutGate(valid) == Ends(<<"aggregate">>, valid)

EndsBehindGate(valid) == Ends(<<"aggregate">>, GateHolds /\ valid)

\* The set is uploaded when both validators have passed, before the gate is tested.
AggregateRuns ==
    LET validated == Validated
        valid == Has(Resolved) /\ validated.native /\ validated.set.ok
    IN  /\ Ready(<<"aggregate">>)
        /\ IF valid
           THEN Store(Prebuilt, [files |-> validated.set.files, sums |-> validated.set.sums])
           ELSE UNCHANGED artifacts
        /\ EndsBehindGate(valid)
        /\ UNCHANGED <<attempt, outputs, heads, release, uploads, faults, clean>>

\* The assets of the uploaded set, by name.
Assets ==
    LET set == artifacts[Prebuilt] IN
    set.files ++ File(<<"SHA256SUMS">>, [file |-> set.sums, sha |-> None])

\* Mistake: the assets of a release that is there are left as they are.
KeepAssets == uploads' = {} /\ Ends(<<"release">>, TRUE) /\ UNCHANGED release

ReplaceAssets == uploads' = DOMAIN Assets /\ Begins(<<"release">>) /\ UNCHANGED release

\* The release job: it creates the release with all its assets, or replaces the assets of the one
\* an earlier attempt has left, one after the other.
ReleaseStarts ==
    LET j == <<"release">> IN
    /\ Ready(j)
    /\ Cardinality(DOMAIN Assets) >= 2 * Cardinality(Targets) + 1
    /\ IF release = << >>
       THEN release' = Assets /\ uploads' = {} /\ Ends(j, TRUE)
       ELSE ReplaceAssets
    /\ UNCHANGED <<attempt, outputs, artifacts, heads, faults, clean>>

\* Mistake: the upload of SHA256SUMS is taken for the last one.
SumsUploaded(name) == name = <<"SHA256SUMS">>

AllUploaded(name) == uploads = {name}

ReleaseUploads ==
    /\ job[<<"release">>] = "running"
    /\ \E name \in uploads :
        /\ release' = File(name, Assets[name]) ++ release
        /\ uploads' = uploads \ {name}
        /\ IF AllUploaded(name) THEN Ends(<<"release">>, TRUE) ELSE UNCHANGED job
    /\ UNCHANGED <<attempt, outputs, artifacts, heads, faults, clean>>

-----------------------------------------------------------------------------
(* The service. *)

\* A job whose condition does not hold.
Skipped(j) ==
    /\ Skips(j)
    /\ UNCHANGED <<attempt, outputs, artifacts, heads, release, uploads, faults, clean>>

\* The runner of a job is lost before it has uploaded anything, or in the middle of the release.
RunnerLost(j) ==
    /\ "lost" \in Faults
    /\ Ends(j, FALSE)
    /\ uploads' = {}
    /\ Happens("lost")
    /\ UNCHANGED <<attempt, outputs, artifacts, heads, release>>

Rerun(jobs) ==
    /\ Reruns(jobs)
    /\ clean' = (jobs = Jobs)
    /\ UNCHANGED <<outputs, artifacts, heads, release, uploads, faults>>

RerunAll == Rerun(Jobs)
RerunFailed == FailedJobs # {} /\ Rerun(FailedJobs)
RerunOne == \E j \in {j \in Jobs : job[j] # "skipped"} : Rerun({j})

JobProceeds ==
    \/ PrepareRuns
    \/ \E t \in Targets : ToolchainRuns(t) \/ DarkpandaRuns(t) \/ PythonRuns(t)
    \/ \E c \in Components, t \in Targets : ComponentRuns(c, t)
    \/ NativeSummaryRuns
    \/ FingerprintRuns
    \/ AggregateRuns
    \/ ReleaseStarts
    \/ ReleaseUploads
    \/ \E j \in Jobs : Skipped(j)

Next ==
    \/ JobProceeds
    \/ \E j \in Jobs : RunnerLost(j)
    \/ RerunAll
    \/ RerunFailed
    \/ RerunOne

\* The service runs every job that is due until it ends.  That is said of the graph: its steps are
\* enabled exactly when those of JobProceeds are.
Fairness == WF_job(\E j \in Jobs : Serves(j))

Spec == Init /\ [][Next]_vars /\ Fairness

-----------------------------------------------------------------------------
(* Properties. *)

\* The jobs and the run's counters are within their types.
TypeOK ==
    /\ attempt \in 1..MaxAttempts
    /\ job \in [Jobs -> Over \cup {"queued", "running"}]
    /\ \A j \in Jobs \ {<<"release">>} : job[j] # "running"
    /\ uploads # {} <=> job[<<"release">>] = "running"
    /\ heads \in [Components \cup {Binding} -> 1..MaxRevision]
    /\ faults \in 0..MaxFaults
    /\ clean \in BOOLEAN

\* The name of the wheel of a target under the present resolution.
WheelOf(t) == <<"py_darkpanda", WheelVersion[outputs.revisions[Binding]], t>>

Archives(files) == {files[n].file : n \in {n \in DOMAIN files : n[1] = "darkpanda"}}

\* An image loads only what is in the package and what is part of the operating system.
SelfContained(t, image) ==
    CASE Platform(t) = "windows" ->
            image.imports \cup image.delayed \subseteq Runtime(t) \cup System32 \cup ApiSets
      [] Platform(t) = "linux" -> Names(image.needed) \subseteq Libraries(t) \cup OsNeeded
      [] OTHER -> image.libraries \subseteq Libraries(t) \cup SystemPaths

\* Whatever went wrong before, in this attempt or in an earlier one, the tests of every component
\* inside a published archive have passed, none of the required suites left out: the packager and
\* the final aggregate never look at the suites.
NothingUntested ==
    \A archive \in Archives(release), c \in Components :
        SuitesPass(archive.files[Packaged(c, TestResults)], c)

\* A published archive runs where nothing was built: its binaries load what is in the archive or
\* part of the operating system, and its canvas library has the ABI of the browser.
ReleasedIsSelfContained ==
    \A archive \in Archives(release) :
        /\ \A n \in Runtime(archive.name[2]) :
            SelfContained(archive.name[2], archive.files[Bin(n)].image)
        /\ \A n \in Closure : IdentityHolds(n, archive.files[Bin(n)].abi)

\* Once the release job has succeeded, the archive and the wheel of every target are those of the
\* revisions that prepare resolved, and the wheel has the very libraries of the archive in it,
\* whichever jobs were run again and whatever artifacts an earlier attempt has left.
ReleasedTogether ==
    job[<<"release">>] = "success" =>
        \A t \in Targets :
            /\ {ArchiveName(t), WheelOf(t)} \subseteq DOMAIN release
            /\ LET archive == release[ArchiveName(t)].file
                   wheel == release[WheelOf(t)].file
               IN  /\ \A c \in Components :
                        archive.files[Packaged(c, BuildInfo)].revision = outputs.revisions[c]
                   /\ \A n \in Libraries(t) :
                        wheel.files[NativeLibrary(n)] = archive.files[Bin(n)]

\* Once the release job has succeeded, also by replacing the assets of an earlier attempt, the
\* published SHA256SUMS lists the archive and the wheel of every target and agrees with what is
\* published under each name it lists.
ReleaseVerifies ==
    job[<<"release">>] = "success" =>
        LET sums == release[<<"SHA256SUMS">>].file IN
        /\ Declared(sums) = {ArchiveName(t) : t \in Targets} \cup {WheelOf(t) : t \in Targets}
        /\ \A l \in sums.lines : l.sha = Sha256(release[l.path].file)

\* The uploaded set is complete and of one resolution even when a lost job has left its artifact of
\* an earlier attempt in place: its wheels are of one revision, its archives of the same ones.
PrebuiltIsOneResolution ==
    Has(Prebuilt) =>
        LET files == artifacts[Prebuilt].files IN
        /\ Cardinality(DOMAIN files) = 2 * Cardinality(Targets)
        /\ Declared(artifacts[Prebuilt].sums) = DOMAIN files
        /\ \A n, m \in DOMAIN files :
            n[1] = "py_darkpanda" /\ m[1] = "py_darkpanda" =>
                files[n].file.files[Extension] = files[m].file.files[Extension]
        /\ \A a, b \in Archives(files), c \in Components :
            a.files[Packaged(c, BuildInfo)].revision = b.files[Packaged(c, BuildInfo)].revision

\* An attempt in which nothing goes wrong publishes: no check refuses what the code before it makes,
\* and nothing an earlier attempt has left stands in the way.
CleanAttemptPublishes ==
    AttemptOver /\ clean => job[<<"release">>] = "success"

\* Assets are published or replaced only while every job of the chain has succeeded; the set is
\* uploaded before that is known.
PublishesOnlyWhatPassed ==
    [][release' # release =>
        \A k \in Kinds \ {"release"} : Succeeded(k)]_vars

\* Every attempt comes to an end: whatever fails or is skipped, no job waits for another forever.
AttemptEnds == []<>AttemptOver

\* The run is one of its graph of jobs, whose gates are stated there: a job runs only under its
\* condition, and the aggregate succeeds only if every job it tests has.
ImplementsJobGraph == GraphSpec

\* BUILD-ACTIONS-PLAN.md has prepare resolve the newest commits of the four components once, never
\* to drift within a run: so an attempt would leave archives of one revision of each component in the
\* release of the run, whatever was run again and whichever runner was lost.
OneRevisionPerRelease ==
    AttemptOver =>
        \A a, b \in Archives(release), c \in Components :
            a.files[Packaged(c, BuildInfo)].revision = b.files[Packaged(c, BuildInfo)].revision
=============================================================================
