---------------------------- MODULE PythonWheel ----------------------------
(***************************************************************************)
(* The Python wheel of one target: build_python_wheel.py puts the libraries *)
(* of the runtime archive into it, builds it with the toolchain bundle and   *)
(* tests it; aggregate_python_wheels.py judges the result and adds the       *)
(* wheels to the release directory.                                         *)
(*                                                                         *)
(* A wheel is [name, files].  The paths of the tools, the environments of   *)
(* the commands and the sizes of files are left out.                        *)
(***************************************************************************)
EXTENDS RuntimePackage

CONSTANT WheelVersion   \* the version a revision of py-darkpanda gives its wheel

Binding == "py-darkpanda"

WheelSteps == {"rustTest", "wheelBuild", "wheelInstall", "pythonTest"}

NativeLibrary(n) == <<"darkpanda", "_native_libs", n>>
PythonFiles ==
    {<<"darkpanda", f>> : f \in {"__init__.py", "_api.py", "_cdp.py", "_native.pyi", "py.typed"}}
Extension == <<"darkpanda", "_native.so">>

\* The checkout of py-darkpanda: the revision asked for, clean, under the policy that leaves the
\* builds to this repository.
SourceValid(source, revision) ==
    source.revision = revision /\ ~source.dirty /\ source.policy = "source-only"

\* The one runtime archive among the files of the platform's result.
RuntimeArchiveFound(result) ==
    result.archive # None /\ result.checksum = Sha256(result.archive)

\* Its libraries, by the name they have in the wheel.
LibrariesFound(archive, t) ==
    /\ archive.files # << >>
    /\ \A p \in DOMAIN archive.files : SafeRelative(p)
    /\ \A n \in Libraries(t) : Bin(n) \in DOMAIN archive.files

CopiedLibraries(archive, t) ==
    [p \in {NativeLibrary(n) : n \in Libraries(t)} |-> archive.files[Bin(p[3])]]

\* The toolchain bundle is that of the target and of the profile, and its tools are intact.
ToolchainValid(bundle, t, profile) ==
    /\ bundle.manifest.target = t
    /\ bundle.manifest.profile = profile
    /\ \A tool \in DOMAIN bundle.manifest.tools :
        tool \in DOMAIN bundle.tools /\ bundle.manifest.tools[tool] = Sha256(bundle.tools[tool])

WheelName(t, source) == <<"py_darkpanda", WheelVersion[source.revision], t>>

BuiltWheel(t, source, archive) ==
    [name |-> WheelName(t, source),
     files |-> CopiedLibraries(archive, t)
        ++ [p \in PythonFiles \cup {Extension} |-> [source |-> source.revision]]]

\* The members every wheel must have.
WheelComplete(wheel, t) ==
    /\ PythonFiles \cup {NativeLibrary(n) : n \in Libraries(t)} \subseteq DOMAIN wheel.files
    /\ Extension \in DOMAIN wheel.files
    /\ \A p \in DOMAIN wheel.files : SafeRelative(p)

\* The steps up to the one that fails, in the order of the build.
StepsUpTo(failing) ==
    CASE failing = "rustTest" -> [s \in {"rustTest"} |-> "failed"]
      [] failing = "wheelBuild" -> [s \in {"rustTest", "wheelBuild"} |->
                                        IF s = failing THEN "failed" ELSE "passed"]
      [] failing = "wheelInstall" -> [s \in WheelSteps \ {"pythonTest"} |->
                                        IF s = failing THEN "failed" ELSE "passed"]
      [] OTHER -> [s \in WheelSteps |-> IF s = failing THEN "failed" ELSE "passed"]

WheelReport(t, source, inputs, steps) ==
    [status |-> "failed", target |-> t, source |-> inputs.revisions[Binding],
     browser |-> SourceRevision, profile |-> inputs.profile, steps |-> steps,
     runtimeArchive |-> None, libraries |-> {}, manifest |-> None, wheel |-> None]

\* The report that the workflow writes in place of one that is missing.
MissingWheelReport(t, inputs) ==
    [WheelReport(t, None, inputs, << >>) EXCEPT !.profile = None]

\* What the job uploads.  failing is the step whose command fails, if any; cut, that the process
\* ends between the copy of the wheel and its report.
WheelResult(t, source, result, bundle, inputs, failing, cut) ==
    LET archive == result.archive
        wheel == BuiltWheel(t, source, archive)
        failed(steps) ==
            [report |-> WheelReport(t, source, inputs, steps), wheel |-> None, checksum |-> None]
        usable == /\ SourceValid(source, inputs.revisions[Binding])
                  /\ RuntimeArchiveFound(result)
                  /\ ToolchainValid(bundle, t, inputs.profile)
                  /\ LibrariesFound(archive, t)
        report == [WheelReport(t, source, inputs, StepsUpTo("none")) EXCEPT
                    !.status = "passed",
                    !.runtimeArchive = [name |-> archive.name, sha |-> Sha256(archive)],
                    !.libraries = Libraries(t),
                    !.manifest = Sha256(bundle.manifest),
                    !.wheel = [name |-> wheel.name, sha |-> Sha256(wheel)]]
    IN  IF ~usable THEN failed(<< >>)
        ELSE IF failing \in WheelSteps THEN failed(StepsUpTo(failing))
        ELSE IF ~WheelComplete(wheel, t) THEN failed(StepsUpTo("none"))
        ELSE IF cut THEN [report |-> MissingWheelReport(t, inputs), wheel |-> wheel, checksum |-> None]
        ELSE [report |-> report, wheel |-> wheel, checksum |-> Sha256(wheel)]

-----------------------------------------------------------------------------
(* The final aggregate. *)

\* Mistake: the revision of the binding is not compared.
BuiltForBrowser(report, resolved) ==
    report.browser = resolved.source /\ report.profile = resolved.profile

BuiltFrom(report, resolved) ==
    /\ report.source = resolved.revisions[Binding]
    /\ report.browser = resolved.source
    /\ report.profile = resolved.profile

\* Nothing in it is compared with the runtime archive of the platform.
WheelReportValid(report, t, resolved) ==
    /\ report.status = "passed"
    /\ report.target = t
    /\ BuiltFrom(report, resolved)
    /\ report.libraries = Libraries(t)
    /\ report.manifest # None
    /\ \A s \in WheelSteps : s \in DOMAIN report.steps /\ report.steps[s] = "passed"

WheelValid(result, t, resolved) ==
    /\ WheelReportValid(result.report, t, resolved)
    /\ result.wheel # None
    /\ result.checksum = Sha256(result.wheel)
    /\ result.report.wheel = [name |-> result.wheel.name, sha |-> Sha256(result.wheel)]
    /\ WheelComplete(result.wheel, t)

\* The release directory with the valid wheels added to it, and SHA256SUMS over all its files if
\* every target has one: also when the native half has failed.
PythonRelease(results, resolved, release) ==
    LET complete == resolved.schema = "v7" /\ DOMAIN results = Targets
        valid == IF complete THEN {t \in Targets : WheelValid(results[t], t, resolved)} ELSE {}
        ok == complete /\ valid = Targets
        wheels == {results[t].wheel.name : t \in valid}
        files == [name \in wheels |-> [file |-> results[name[3]].wheel,
                                       sha |-> results[name[3]].checksum]]
                 ++ release.files
    IN  [ok |-> ok, files |-> files,
         sums |-> IF ok THEN SumsOf([name \in DOMAIN files |-> files[name].file])
                  ELSE release.sums]
=============================================================================
