-------------------------- MODULE ComponentReports --------------------------
(***************************************************************************)
(* The dists that the component repositories build, and the two readers     *)
(* that decide on them: the native gate (aggregate_component_reports.py),   *)
(* over all of them, and the packager (package_prebuilt.py), over those of  *)
(* one target.                                                             *)
(*                                                                         *)
(* A dist is a directory: the function from its paths to their contents.    *)
(* Suite names are sets of the fragments looked for in them, file names     *)
(* leave out the platform's prefix and suffix, JSON that does not parse and  *)
(* schemas are left out.                                                    *)
(***************************************************************************)
EXTENDS ArtifactFiles, BuildMatrix

RequiredSuites(c) ==
    CASE c = "canvas" -> {"cargo", "abi", "fma", "ninja"}
      [] c = "boringssl" -> {"archive-contract", "abi", "ctest"}
      [] OTHER -> {"cargo", "abi"}

\* The library of a component, which BoringSSL has as an archive to link with.
Library(c) == IF c = "boringssl" THEN <<"lib", "crypto">> ELSE <<"bin", c>>

ConsumerFiles(c, t) ==
    (IF c = "canvas" THEN {<<"include", "canvas.h">>} ELSE {})
    \cup (IF c = "boringssl" THEN {<<"include", "openssl", "sha.h">>} ELSE {})
    \cup (IF c \in {"canvas", "html5ever"} /\ t = Windows THEN {<<"lib", c>>} ELSE {})

RequiredFiles(c, t) == {Library(c)} \cup ConsumerFiles(c, t)

TestResults == <<"metadata", "test-results.json">>
BuildInfo == <<"metadata", "build-info.json">>
Sums == <<"metadata", "SHA256SUMS">>
Metadata == {TestResults, BuildInfo, Sums}

\* The checksum file of a dist covers it.
ChecksumsHold(dist) == Covers(dist[Sums], dist, Sums)

SuitesPass(tests, c) ==
    /\ tests.status = "passed"
    /\ tests.suites # {}
    /\ \A s \in tests.suites : s.status = "passed"
    /\ \A fragment \in RequiredSuites(c) : \E s \in tests.suites : fragment \in s.name

Provenance(build, c, t, resolved) ==
    /\ build.component = c
    /\ build.target = t
    /\ build.revision = resolved.revisions[c]
    /\ ~build.dirty
    /\ build.profile = resolved.profile
    /\ build.manifest # None
    /\ c = "boringssl" /\ t = Windows => build.crt = "static"

\* Mistake: the suites are not looked at.
NamedTests(tests, c, t) == tests.component = c /\ tests.target = t

TestsPass(tests, c, t) == tests.component = c /\ tests.target = t /\ SuitesPass(tests, c)

\* What the native gate asks of one component on one target.
ComponentPasses(dist, c, t, resolved) ==
    /\ Metadata \subseteq DOMAIN dist
    /\ TestsPass(dist[TestResults], c, t)
    /\ Provenance(dist[BuildInfo], c, t, resolved)
    /\ RequiredFiles(c, t) \subseteq DOMAIN dist
    /\ ChecksumsHold(dist)

\* The manifest hashes that the records of a target report, those of failed components too.
ManifestsOf(dists, t) ==
    {dists[ct][BuildInfo].manifest :
        ct \in {ct \in DOMAIN dists : ct[2] = t /\ Metadata \subseteq DOMAIN dists[ct]}} \ {None}

\* The native gate over the downloaded dists: the record of each component and target, then what
\* they must have in common.
NativeGate(dists, resolved) ==
    /\ resolved.schema = "v7"
    /\ \A c \in Components, t \in Targets :
        <<c, t>> \in DOMAIN dists /\ ComponentPasses(dists[<<c, t>>], c, t, resolved)
    /\ \A t \in Targets : Cardinality(ManifestsOf(dists, t)) = 1
    /\ DOMAIN dists \subseteq Components \X Targets

\* What the packager asks of a dist before it embeds its metadata: less than the gate of the tests,
\* nothing of the revision it should have.
VerifiedComponent(dist, c, t) ==
    /\ Metadata \subseteq DOMAIN dist
    /\ ChecksumsHold(dist)
    /\ dist[BuildInfo].component = c
    /\ dist[TestResults].component = c
    /\ dist[TestResults].status = "passed"
    /\ dist[BuildInfo].target = t
    /\ dist[TestResults].target = t
    /\ ~dist[BuildInfo].dirty
    /\ dist[BuildInfo].manifest # None

\* The record of a verified component in BUILD-INFO.json.
ComponentRecord(dist) ==
    [target |-> dist[BuildInfo].target,
     revision |-> dist[BuildInfo].revision,
     profile |-> dist[BuildInfo].profile,
     manifest |-> dist[BuildInfo].manifest,
     buildInfo |-> Sha256(dist[BuildInfo])]
=============================================================================
