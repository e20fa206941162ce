------------------------------ MODULE JobGraph ------------------------------
(***************************************************************************)
(* The jobs of a run of .github/workflows/prebuilt-binaries.yml and its     *)
(* re-runs, with nothing of what they do but whether it succeeds.           *)
(*                                                                         *)
(* The service that runs the workflow is external.  A job starts when the   *)
(* jobs it needs have ended, if its condition holds; otherwise it is         *)
(* skipped.  A re-run starts when the attempt has ended: of all jobs, of the *)
(* failed ones or of one, with every job that depends on them; the others    *)
(* keep their result.                                                      *)
(***************************************************************************)
EXTENDS BuildMatrix, Naturals

CONSTANT MaxAttempts    \* bound: attempts of the run

VARIABLES
    attempt,    \* GITHUB_RUN_ATTEMPT
    job         \* the state of each job, matrix legs counted apart

graphVars == <<attempt, job>>

Kinds == {"prepare", "toolchain", "components", "native-summary", "darkpanda", "python",
          "fingerprint", "aggregate", "release"}

Legs(k) ==
    CASE k \in {"toolchain", "darkpanda", "python"} -> {<<k, t>> : t \in Targets}
      [] k = "components" -> {<<k, c, t>> : c \in Components, t \in Targets}
      [] OTHER -> {<<k>>}

Jobs == UNION {Legs(k) : k \in Kinds}

Needs(k) ==
    CASE k = "prepare" -> {}
      [] k = "toolchain" -> {"prepare"}
      [] k = "components" -> {"prepare", "toolchain"}
      [] k = "native-summary" -> {"prepare", "components"}
      [] k = "darkpanda" -> {"prepare", "native-summary"}
      [] k = "python" -> {"prepare", "toolchain", "darkpanda"}
      [] k = "fingerprint" -> {"prepare", "darkpanda", "python"}
      [] k = "aggregate" -> {"prepare", "native-summary", "darkpanda", "python", "fingerprint"}
      [] k = "release" -> {"aggregate"}

\* The dependency chain of a kind, which has no branches: the kinds before it in this order.
Rank ==
    [k \in Kinds |->
        CASE k = "prepare" -> 1 [] k = "toolchain" -> 2 [] k = "components" -> 3
          [] k = "native-summary" -> 4 [] k = "darkpanda" -> 5 [] k = "python" -> 6
          [] k = "fingerprint" -> 7 [] k = "aggregate" -> 8 [] k = "release" -> 9]

Ancestors(k) == {n \in Kinds : Rank[n] < Rank[k]}

\* Checked by TLC, and what makes Ancestors the transitive closure of Needs.
ASSUME AncestorsAssumption ==
    \A k \in Kinds : Ancestors(k) = Needs(k) \cup UNION {Ancestors(n) : n \in Needs(k)}

\* Mistake: only the jobs that name one of them are dependents.
DirectDependents(kinds) == {k \in Kinds : Needs(k) \cap kinds # {}}

Dependents(kinds) == {k \in Kinds : Ancestors(k) \cap kinds # {}}

Over == {"success", "failure", "skipped"}

\* Mistake: a skipped job is waited for.
EndedUnlessSkipped(k) == \A j \in Legs(k) : job[j] \in {"success", "failure"}

Ended(k) == \A j \in Legs(k) : job[j] \in Over

\* The result of a job over its legs, which start under one condition.
Succeeded(k) == \A j \in Legs(k) : job[j] = "success"

\* Mistake: only the jobs it needs are looked at.
NeedsSucceeded(k) == \A n \in Needs(k) : Succeeded(n)

ChainSucceeded(k) == \A n \in Ancestors(k) : Succeeded(n)

\* The condition of a job: its own with always(), otherwise that of a job that states none, which
\* holds if no job of its dependency chain failed or was skipped.
Condition(k) ==
    CASE k \in {"native-summary", "aggregate"} -> TRUE
      [] k = "components" -> Succeeded("prepare")
      [] k = "darkpanda" -> Succeeded("prepare") /\ Succeeded("native-summary")
      [] k = "fingerprint" -> Succeeded("prepare") /\ Succeeded("darkpanda") /\ Succeeded("python")
      [] OTHER -> ChainSucceeded(k)

Due(j) == job[j] = "queued" /\ \A n \in Needs(j[1]) : Ended(n)

Ready(j) == Due(j) /\ Condition(j[1])

\* The results that the final gate, the last step of the aggregate, tests.
GateHolds ==
    \A k \in {"prepare", "native-summary", "darkpanda", "python", "fingerprint"} : Succeeded(k)

AttemptOver == \A j \in Jobs : job[j] \in Over

-----------------------------------------------------------------------------
GraphInit ==
    /\ attempt = 1
    /\ job = [j \in Jobs |-> "queued"]

\* A job that shows its progress: the release, which replaces assets one after the other.
Begins(j) ==
    /\ Ready(j)
    /\ job' = [job EXCEPT ![j] = "running"]

\* A job ends, or its runner is lost, which counts as a failure.
Ends(j, success) ==
    /\ Ready(j) \/ job[j] = "running"
    /\ job' = [job EXCEPT ![j] = IF success THEN "success" ELSE "failure"]

Skips(j) ==
    /\ Due(j)
    /\ ~Condition(j[1])
    /\ job' = [job EXCEPT ![j] = "skipped"]

\* The jobs of a re-run that starts from the given ones.
WithDependents(jobs) == jobs \cup UNION {Legs(k) : k \in Dependents({j[1] : j \in jobs})}

FailedJobs == {j \in Jobs : job[j] = "failure"}

Reruns(jobs) ==
    /\ AttemptOver
    /\ attempt < MaxAttempts
    /\ attempt' = attempt + 1
    /\ job' = [j \in Jobs |-> IF j \in WithDependents(jobs) THEN "queued" ELSE job[j]]

Serves(j) ==
    \/ Ends(j, FALSE)
    \/ (j = <<"aggregate">> => GateHolds) /\ Ends(j, TRUE)
    \/ Skips(j)

GraphNext ==
    \/ \E j \in Jobs : Serves(j) /\ UNCHANGED attempt
    \/ Begins(<<"release">>) /\ UNCHANGED attempt
    \/ \E jobs \in {Jobs, FailedJobs} \cup {{j} : j \in Jobs} : Reruns(jobs)

GraphSpec == GraphInit /\ [][GraphNext]_graphVars

-----------------------------------------------------------------------------
States == Over \cup {"queued", "running"}

\* Every job has run under its condition, which still holds of the results it looked at: no later
\* end, loss or partial re-run of another job leaves the result of one standing on jobs that have
\* failed, were skipped or are being run again.
RanUnderCondition ==
    \A j \in Jobs : job[j] \in {"running", "success", "failure"} => Condition(j[1])

\* The aggregate has succeeded only while every job its gate tests has.
GatedAggregate == job[<<"aggregate">>] = "success" => GateHolds
=============================================================================
