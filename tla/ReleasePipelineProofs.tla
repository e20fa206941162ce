----------------------- MODULE ReleasePipelineProofs -----------------------
(***************************************************************************)
(* For every set of components and targets, any number of attempts, faults  *)
(* and revisions: the run is one of its graph of jobs, and assets are        *)
(* published only while every job before the release has succeeded.         *)
(***************************************************************************)
EXTENDS ReleasePipeline, TLAPS

-----------------------------------------------------------------------------
(* The graph of jobs: in every attempt a job has run under its condition.  *)

\* A job's first part is its kind.
LEMMA KindOfLeg == \A k \in Kinds : \A j \in Legs(k) : j[1] = k
BY DEF Kinds, Legs

LEMMA KindOfJob == \A j \in Jobs : j[1] \in Kinds /\ j \in Legs(j[1])
BY KindOfLeg DEF Jobs

LEMMA LegsAreJobs == \A k \in Kinds : \A j \in Legs(k) : j \in Jobs
BY DEF Jobs

LEMMA SingleJobs == <<"aggregate">> \in Jobs /\ <<"release">> \in Jobs
                    /\ Legs("aggregate") = {<<"aggregate">>} /\ Legs("release") = {<<"release">>}
BY DEF Jobs, Kinds, Legs

LEMMA RankType == Rank \in [Kinds -> Nat]
BY DEF Rank, Kinds

\* An ancestor's ancestor is an ancestor.
LEMMA AncestorsTransitive ==
    ASSUME NEW k \in Kinds, NEW m \in Ancestors(k), NEW n \in Ancestors(m)
    PROVE  n \in Ancestors(k)
BY RankType DEF Ancestors

\* Every job that a condition looks at is an ancestor.
LEMMA ConditionAncestors ==
    /\ \A k \in {"prepare"} : k \in Ancestors("components")
    /\ \A k \in {"prepare", "native-summary"} : k \in Ancestors("darkpanda")
    /\ \A k \in {"prepare", "darkpanda", "python"} : k \in Ancestors("fingerprint")
    /\ \A k \in {"prepare", "native-summary", "darkpanda", "python", "fingerprint"} :
        k \in Ancestors("aggregate")
BY DEF Ancestors, Rank, Kinds

\* The type of the state of the graph.
GraphTypeOK == job \in [Jobs -> States]

\* A success is not undone by a job that ends or is skipped.
LEMMA ServiceKeepsSuccess ==
    ASSUME GraphTypeOK, NEW i \in Jobs, NEW s \in States,
           job[i] \in {"queued", "running"}, job' = [job EXCEPT ![i] = s],
           NEW n \in Kinds, Succeeded(n)
    PROVE  Succeeded(n)'
BY LegsAreJobs DEF Succeeded, GraphTypeOK

\* A re-run that leaves a job alone leaves its ancestors alone.
LEMMA RerunKeepsAncestors ==
    ASSUME NEW jobs \in SUBSET Jobs, NEW j \in Jobs, j \notin WithDependents(jobs),
           NEW n \in Ancestors(j[1]), NEW i \in Legs(n)
    PROVE  i \notin WithDependents(jobs)
<1>1. n \in Kinds /\ j[1] \in Kinds
  BY KindOfJob DEF Ancestors
<1>2. j[1] \notin Dependents({x[1] : x \in jobs})
  BY KindOfJob DEF WithDependents
<1>3. \A m \in Ancestors(j[1]) : m \notin {x[1] : x \in jobs}
  BY <1>1, <1>2 DEF Dependents
<1>4. i \notin jobs
  BY <1>1, <1>3, KindOfLeg
<1>5. \A k \in Dependents({x[1] : x \in jobs}) : i \notin Legs(k)
  <2> SUFFICES ASSUME NEW k \in Dependents({x[1] : x \in jobs}), i \in Legs(k)
               PROVE  FALSE
    OBVIOUS
  <2>1. k \in Kinds /\ k = n
    BY <1>1, KindOfLeg DEF Dependents
  <2>2. PICK m \in Ancestors(k) : m \in {x[1] : x \in jobs}
    BY DEF Dependents
  <2>3. m \in Ancestors(j[1])
    BY <1>1, <2>1, <2>2, AncestorsTransitive
  <2> QED
    BY <1>3, <2>2, <2>3
<1> QED
  BY <1>4, <1>5 DEF WithDependents

\* What a condition says is kept by a step that keeps the successes among the ancestors.
LEMMA ConditionKept ==
    ASSUME NEW k \in Kinds, Condition(k),
           \A n \in Ancestors(k) : Succeeded(n) => Succeeded(n)'
    PROVE  Condition(k)'
<1>1. CASE k \in {"native-summary", "aggregate"}
  BY <1>1 DEF Condition
<1>2. CASE k = "components"
  BY <1>2, ConditionAncestors DEF Condition
<1>3. CASE k = "darkpanda"
  BY <1>3, ConditionAncestors DEF Condition
<1>4. CASE k = "fingerprint"
  BY <1>4, ConditionAncestors DEF Condition
<1>5. CASE k \notin {"native-summary", "aggregate", "components", "darkpanda", "fingerprint"}
  BY <1>5 DEF Condition, ChainSucceeded
<1> QED
  BY <1>1, <1>2, <1>3, <1>4, <1>5

\* The inductive invariant of the graph.
GraphInv == GraphTypeOK /\ RanUnderCondition /\ GatedAggregate

LEMMA GraphInitInv == GraphInit => GraphInv
BY SingleJobs DEF GraphInit, GraphInv, GraphTypeOK, RanUnderCondition, GatedAggregate, States, Over

\* A job ends or is skipped.
LEMMA ServesInv ==
    ASSUME GraphInv, NEW j \in Jobs, Serves(j)
    PROVE  GraphInv'
<1>1. PICK s \in Over : job' = [job EXCEPT ![j] = s]
  BY DEF Serves, Ends, Skips, Over
<1>2. job[j] \in {"queued", "running"}
  BY DEF Serves, Ends, Skips, Ready, Due
<1>3. GraphTypeOK'
  BY <1>1 DEF GraphInv, GraphTypeOK, States
<1>4. \A n \in Kinds : Succeeded(n) => Succeeded(n)'
  BY <1>1, <1>2, ServiceKeepsSuccess DEF GraphInv, States
<1>5. \A k \in Kinds : Condition(k) => Condition(k)'
  BY <1>4, ConditionKept DEF Ancestors
<1>6. s # "skipped" => Condition(j[1])
  BY <1>1, <1>2, KindOfJob DEF Serves, Ends, Skips, Ready, GraphInv, GraphTypeOK, RanUnderCondition
<1>7. RanUnderCondition'
  BY <1>1, <1>5, <1>6, KindOfJob DEF RanUnderCondition, GraphInv, GraphTypeOK, Over
<1>8. GateHolds => GateHolds'
  BY <1>4 DEF GateHolds, Kinds
<1>9. j = <<"aggregate">> /\ s = "success" => GateHolds
  BY <1>1 DEF Serves, Ends, Skips, GraphInv, GraphTypeOK
<1>10. GatedAggregate'
  BY <1>1, <1>8, <1>9, SingleJobs DEF GatedAggregate, GraphInv, GraphTypeOK
<1> QED
  BY <1>3, <1>7, <1>10 DEF GraphInv

\* The release begins to replace assets.
LEMMA BeginsInv ==
    ASSUME GraphInv, Begins(<<"release">>)
    PROVE  GraphInv'
<1> DEFINE r == <<"release">>
<1>1. r \in Jobs /\ r[1] = "release" /\ r # <<"aggregate">>
  BY SingleJobs
<1>2. job' = [job EXCEPT ![r] = "running"] /\ job[r] = "queued" /\ Condition(r[1])
  BY DEF Begins, Ready, Due
<1>3. GraphTypeOK'
  BY <1>1, <1>2 DEF GraphInv, GraphTypeOK, States
<1>4. \A n \in Kinds : Succeeded(n) => Succeeded(n)'
  BY <1>1, <1>2, ServiceKeepsSuccess DEF GraphInv, States
<1>5. \A k \in Kinds : Condition(k) => Condition(k)'
  BY <1>4, ConditionKept DEF Ancestors
<1>6. RanUnderCondition'
  BY <1>1, <1>2, <1>5, KindOfJob DEF RanUnderCondition, GraphInv, GraphTypeOK
<1>7. GatedAggregate'
  BY <1>1, <1>2, <1>4, SingleJobs DEF GatedAggregate, GateHolds, GraphInv, GraphTypeOK, Kinds
<1> QED
  BY <1>3, <1>6, <1>7 DEF GraphInv

\* A re-run queues jobs with all that depend on them.
LEMMA RerunsInv ==
    ASSUME GraphInv, NEW jobs \in SUBSET Jobs, Reruns(jobs)
    PROVE  GraphInv'
<1>1. job' = [j \in Jobs |-> IF j \in WithDependents(jobs) THEN "queued" ELSE job[j]]
  BY DEF Reruns
<1>2. GraphTypeOK'
  BY <1>1 DEF GraphInv, GraphTypeOK, States
<1>3. \A j \in Jobs : j \notin WithDependents(jobs) =>
        \A n \in Ancestors(j[1]) : Succeeded(n) => Succeeded(n)'
  <2> SUFFICES ASSUME NEW j \in Jobs, j \notin WithDependents(jobs),
                      NEW n \in Ancestors(j[1]), Succeeded(n),
                      NEW i \in Legs(n)
               PROVE  job'[i] = "success"
    BY DEF Succeeded
  <2>1. i \notin WithDependents(jobs)
    BY RerunKeepsAncestors
  <2>2. i \in Jobs
    BY LegsAreJobs DEF Ancestors
  <2> QED
    BY <1>1, <2>1, <2>2 DEF Succeeded
<1>4. RanUnderCondition'
  <2> SUFFICES ASSUME NEW j \in Jobs, job'[j] \in {"running", "success", "failure"}
               PROVE  Condition(j[1])'
    BY DEF RanUnderCondition
  <2>1. j \notin WithDependents(jobs) /\ job'[j] = job[j]
    BY <1>1
  <2>2. Condition(j[1])
    BY <2>1 DEF GraphInv, RanUnderCondition
  <2> QED
    BY <1>3, <2>1, <2>2, ConditionKept, KindOfJob
<1>5. GatedAggregate'
  <2> SUFFICES ASSUME job'[<<"aggregate">>] = "success"
               PROVE  GateHolds'
    BY DEF GatedAggregate
  <2> DEFINE a == <<"aggregate">>
  <2>1. a \in Jobs /\ a[1] = "aggregate"
    BY SingleJobs
  <2>2. a \notin WithDependents(jobs) /\ job[a] = "success"
    BY <1>1, <2>1
  <2>3. GateHolds
    BY <2>2 DEF GraphInv, GatedAggregate
  <2> QED
    BY <1>3, <2>1, <2>2, <2>3, ConditionAncestors DEF GateHolds
<1> QED
  BY <1>2, <1>4, <1>5 DEF GraphInv

LEMMA GraphStepInv == GraphInv /\ [GraphNext]_graphVars => GraphInv'
<1> SUFFICES ASSUME GraphInv, [GraphNext]_graphVars
             PROVE  GraphInv'
  OBVIOUS
<1>1. CASE \E j \in Jobs : Serves(j)
  BY <1>1, ServesInv
<1>2. CASE Begins(<<"release">>)
  BY <1>2, BeginsInv
<1>3. CASE \E jobs \in {Jobs, FailedJobs} \cup {{j} : j \in Jobs} : Reruns(jobs)
  BY <1>3, RerunsInv DEF FailedJobs
<1>4. CASE UNCHANGED graphVars
  BY <1>4 DEF graphVars, GraphInv, GraphTypeOK, RanUnderCondition, GatedAggregate, GateHolds,
              Condition, ChainSucceeded, Succeeded
<1> QED
  BY <1>1, <1>2, <1>3, <1>4 DEF GraphNext

\* A run of the graph keeps every result on the results its condition looked at.
THEOREM GraphKeepsConditions == GraphSpec => [](GraphTypeOK /\ RanUnderCondition /\ GatedAggregate)
<1>1. GraphSpec => []GraphInv
  BY GraphInitInv, GraphStepInv, PTL DEF GraphSpec
<1> QED
  BY <1>1, PTL DEF GraphInv

-----------------------------------------------------------------------------
(* Every step of the run is one of the graph.                              *)

\* The jobs by their names.
LEMMA LegsAreTheJobs ==
    /\ <<"prepare">> \in Jobs /\ <<"native-summary">> \in Jobs /\ <<"fingerprint">> \in Jobs
    /\ \A t \in Targets : <<"toolchain", t>> \in Jobs /\ <<"darkpanda", t>> \in Jobs
                          /\ <<"python", t>> \in Jobs
    /\ \A c \in Components, t \in Targets : <<"components", c, t>> \in Jobs
BY DEF Jobs, Legs, Kinds

\* A job that ends serves the graph, the aggregate behind its gate.
LEMMA EndsServes ==
    ASSUME NEW j \in Jobs, NEW success \in BOOLEAN, Ends(j, success),
           j = <<"aggregate">> /\ success => GateHolds
    PROVE  Serves(j)
<1>1. CASE success
  BY <1>1 DEF Serves
<1>2. CASE ~success
  BY <1>2 DEF Serves
<1> QED
  BY <1>1, <1>2

LEMMA PrepareServes == PrepareRuns => Serves(<<"prepare">>) /\ UNCHANGED <<attempt, release>>
<1> SUFFICES ASSUME PrepareRuns PROVE Serves(<<"prepare">>) /\ UNCHANGED <<attempt, release>>
  OBVIOUS
<1>1. PICK fault \in Possible({"contracts"}) : Ends(<<"prepare">>, fault = "none")
  BY DEF PrepareRuns
<1> QED
  BY <1>1, EndsServes, LegsAreTheJobs DEF PrepareRuns

LEMMA ToolchainServes ==
    ASSUME NEW t \in Targets, ToolchainRuns(t)
    PROVE  Serves(<<"toolchain", t>>) /\ UNCHANGED <<attempt, release>>
<1>1. PICK fault \in Possible({"toolchain"}) : Ends(<<"toolchain", t>>, fault = "none")
  BY DEF ToolchainRuns
<1> QED
  BY <1>1, EndsServes, LegsAreTheJobs DEF ToolchainRuns

LEMMA ComponentServes ==
    ASSUME NEW c \in Components, NEW t \in Targets, ComponentRuns(c, t)
    PROVE  Serves(<<"components", c, t>>) /\ UNCHANGED <<attempt, release>>
<1> DEFINE usable == Has(<<"toolchain", t>>)
                     /\ ToolchainValid(artifacts[<<"toolchain", t>>], t, outputs.profile)
<1>1. PICK fault : Ends(<<"components", c, t>>, usable /\ fault # "build")
  BY DEF ComponentRuns
<1>2. UNCHANGED <<attempt, release>>
  BY DEF ComponentRuns
<1> QED
  BY <1>1, <1>2, EndsServes, LegsAreTheJobs

LEMMA NativeSummaryServes ==
    NativeSummaryRuns => Serves(<<"native-summary">>) /\ UNCHANGED <<attempt, release>>
<1> SUFFICES ASSUME NativeSummaryRuns
             PROVE  Serves(<<"native-summary">>) /\ UNCHANGED <<attempt, release>>
  OBVIOUS
<1> DEFINE passed == DownloadedDists # << >> /\ Has(Resolved)
                     /\ NativeGate(DownloadedDists, artifacts[Resolved])
<1>1. Ends(<<"native-summary">>, passed) /\ UNCHANGED <<attempt, release>>
  BY DEF NativeSummaryRuns
<1> QED
  BY <1>1, EndsServes, LegsAreTheJobs

LEMMA DarkpandaServes ==
    ASSUME NEW t \in Targets, DarkpandaRuns(t)
    PROVE  Serves(<<"darkpanda", t>>) /\ UNCHANGED <<attempt, release>>
<1>1. PICK result : Ends(<<"darkpanda", t>>, result.report.status = "passed")
  BY DEF DarkpandaRuns
<1>2. UNCHANGED <<attempt, release>>
  BY DEF DarkpandaRuns
<1> QED
  BY <1>1, <1>2, EndsServes, LegsAreTheJobs

LEMMA PythonServes ==
    ASSUME NEW t \in Targets, PythonRuns(t)
    PROVE  Serves(<<"python", t>>) /\ UNCHANGED <<attempt, release>>
<1>1. PICK result : Ends(<<"python", t>>, result.report.status = "passed")
  BY DEF PythonRuns
<1>2. UNCHANGED <<attempt, release>>
  BY DEF PythonRuns
<1> QED
  BY <1>1, <1>2, EndsServes, LegsAreTheJobs

LEMMA FingerprintServes ==
    FingerprintRuns => Serves(<<"fingerprint">>) /\ UNCHANGED <<attempt, release>>
<1> SUFFICES ASSUME FingerprintRuns
             PROVE  Serves(<<"fingerprint">>) /\ UNCHANGED <<attempt, release>>
  OBVIOUS
<1>1. PICK fault : Ends(<<"fingerprint">>, fault = "none")
  BY DEF FingerprintRuns
<1> QED
  BY <1>1, EndsServes, LegsAreTheJobs DEF FingerprintRuns

LEMMA AggregateServes ==
    AggregateRuns => Serves(<<"aggregate">>) /\ UNCHANGED <<attempt, release>>
<1> SUFFICES ASSUME AggregateRuns
             PROVE  Serves(<<"aggregate">>) /\ UNCHANGED <<attempt, release>>
  OBVIOUS
<1>1. PICK valid : EndsBehindGate(valid)
  BY DEF AggregateRuns
<1>2. Ends(<<"aggregate">>, GateHolds /\ valid)
  BY <1>1 DEF EndsBehindGate
<1>3. UNCHANGED <<attempt, release>>
  BY DEF AggregateRuns
<1> QED
  BY <1>2, <1>3, EndsServes, SingleJobs

\* The two ways the release begins, and the replacement of one asset.
LEMMA ReleaseServes ==
    ASSUME ReleaseStarts
    PROVE  /\ Serves(<<"release">>) \/ Begins(<<"release">>)
           /\ UNCHANGED attempt
           /\ Ready(<<"release">>)
<1>1. Ready(<<"release">>) /\ UNCHANGED attempt
  BY DEF ReleaseStarts
<1>2. Ends(<<"release">>, TRUE) \/ Begins(<<"release">>)
  BY DEF ReleaseStarts, ReplaceAssets
<1> QED
  BY <1>1, <1>2, EndsServes, SingleJobs

LEMMA UploadServes ==
    ASSUME ReleaseUploads
    PROVE  /\ Serves(<<"release">>) \/ UNCHANGED job
           /\ UNCHANGED attempt
           /\ job[<<"release">>] = "running"
<1>1. Ends(<<"release">>, TRUE) \/ UNCHANGED job
  BY DEF ReleaseUploads
<1> QED
  BY <1>1, EndsServes, SingleJobs DEF ReleaseUploads

LEMMA SkippedServes ==
    ASSUME NEW j \in Jobs, Skipped(j)
    PROVE  Serves(j) /\ UNCHANGED <<attempt, release>>
BY DEF Skipped, Serves

LEMMA LostServes ==
    ASSUME NEW j \in Jobs, RunnerLost(j)
    PROVE  Serves(j) /\ UNCHANGED <<attempt, release>>
BY DEF RunnerLost, Serves

LEMMA RerunReruns ==
    ASSUME RerunAll \/ RerunFailed \/ RerunOne
    PROVE  /\ \E jobs \in {Jobs, FailedJobs} \cup {{j} : j \in Jobs} : Reruns(jobs)
           /\ UNCHANGED release
<1>1. CASE RerunAll
  BY <1>1 DEF RerunAll, Rerun
<1>2. CASE RerunFailed
  BY <1>2 DEF RerunFailed, Rerun
<1>3. CASE RerunOne
  BY <1>3 DEF RerunOne, Rerun
<1> QED
  BY <1>1, <1>2, <1>3

\* Every step of the run is a step of the graph; those that publish are the release's.
LEMMA StepOfTheGraph ==
    ASSUME Next
    PROVE  /\ GraphNext \/ UNCHANGED graphVars
           /\ \/ UNCHANGED release
              \/ Ready(<<"release">>)
              \/ job[<<"release">>] = "running"
<1>1. CASE PrepareRuns
  BY <1>1, PrepareServes, LegsAreTheJobs DEF GraphNext
<1>2. CASE \E t \in Targets : ToolchainRuns(t) \/ DarkpandaRuns(t) \/ PythonRuns(t)
  BY <1>2, ToolchainServes, DarkpandaServes, PythonServes, LegsAreTheJobs DEF GraphNext
<1>3. CASE \E c \in Components, t \in Targets : ComponentRuns(c, t)
  BY <1>3, ComponentServes, LegsAreTheJobs DEF GraphNext
<1>4. CASE NativeSummaryRuns
  BY <1>4, NativeSummaryServes, LegsAreTheJobs DEF GraphNext
<1>5. CASE FingerprintRuns
  BY <1>5, FingerprintServes, LegsAreTheJobs DEF GraphNext
<1>6. CASE AggregateRuns
  BY <1>6, AggregateServes, SingleJobs DEF GraphNext
<1>7. CASE ReleaseStarts
  BY <1>7, ReleaseServes, SingleJobs DEF GraphNext
<1>8. CASE ReleaseUploads
  BY <1>8, UploadServes, SingleJobs DEF GraphNext, graphVars
<1>9. CASE \E j \in Jobs : Skipped(j) \/ RunnerLost(j)
  BY <1>9, SkippedServes, LostServes DEF GraphNext
<1>10. CASE RerunAll \/ RerunFailed \/ RerunOne
  BY <1>10, RerunReruns DEF GraphNext
<1> QED
  BY <1>1, <1>2, <1>3, <1>4, <1>5, <1>6, <1>7, <1>8, <1>9, <1>10 DEF Next, JobProceeds

LEMMA StutterOfTheGraph == UNCHANGED vars => UNCHANGED graphVars /\ UNCHANGED release
BY DEF vars, graphVars

\* The detailed run implements its graph of jobs.
THEOREM PipelineImplementsJobGraph == Spec => ImplementsJobGraph
<1>1. Init => GraphInit
  BY DEF Init
<1>2. [Next]_vars => [GraphNext]_graphVars
  BY StepOfTheGraph, StutterOfTheGraph
<1> QED
  BY <1>1, <1>2, PTL DEF Spec, ImplementsJobGraph, GraphSpec

LEMMA PipelineGraph == Spec => []GraphInv
<1>1. GraphTypeOK /\ RanUnderCondition /\ GatedAggregate => GraphInv
  BY DEF GraphInv
<1> QED
  BY <1>1, PipelineImplementsJobGraph, GraphKeepsConditions, PTL DEF ImplementsJobGraph

\* Every result stands on the results its condition looked at, in every attempt.
THEOREM PipelineRanUnderCondition == Spec => []RanUnderCondition
BY PipelineImplementsJobGraph, GraphKeepsConditions, PTL DEF ImplementsJobGraph

\* Assets are published only while every job before the release has succeeded.
THEOREM PipelinePublishesOnlyWhatPassed == Spec => PublishesOnlyWhatPassed
<1> DEFINE Publishes ==
        release' # release => \A k \in Kinds \ {"release"} : Succeeded(k)
<1>1. RanUnderCondition /\ [Next]_vars => [Publishes]_vars
  <2> SUFFICES ASSUME RanUnderCondition, [Next]_vars, release' # release
               PROVE  \A k \in Kinds \ {"release"} : Succeeded(k)
    OBVIOUS
  <2>1. Ready(<<"release">>) \/ job[<<"release">>] = "running"
    BY StepOfTheGraph, StutterOfTheGraph
  <2>2. Condition("release")
    BY <2>1, SingleJobs DEF Ready, RanUnderCondition
  <2>3. ChainSucceeded("release")
    BY <2>2 DEF Condition
  <2>4. \A k \in Kinds \ {"release"} : k \in Ancestors("release")
    BY DEF Ancestors, Rank, Kinds
  <2> QED
    BY <2>3, <2>4 DEF ChainSucceeded
<1> QED
  BY <1>1, PipelineRanUnderCondition, PTL DEF Spec, PublishesOnlyWhatPassed

-----------------------------------------------------------------------------
(* The types. *)

RunType ==
    /\ attempt \in 1..MaxAttempts
    /\ heads \in [Components \cup {Binding} -> 1..MaxRevision]
    /\ faults \in 0..MaxFaults
    /\ clean \in BOOLEAN

LEMMA HappensType ==
    ASSUME RunType, NEW fault, Happens(fault)
    PROVE  faults' \in 0..MaxFaults /\ clean' \in BOOLEAN
<1>1. faults' \in {faults} \/ (faults < MaxFaults /\ faults' = faults + 1)
  BY DEF Happens
<1>2. faults \in 0..MaxFaults /\ MaxFaults \in Nat
  BY PipelineAssumption DEF RunType
<1>3. faults' \in 0..MaxFaults
  BY <1>1, <1>2
<1>4. clean' \in {clean, FALSE}
  BY DEF Happens
<1>5. clean' \in BOOLEAN
  BY <1>4, Zenon DEF RunType
<1> QED
  BY <1>3, <1>5

LEMMA RunTypeStep == ASSUME RunType, Next PROVE RunType'
<1>1. CASE PrepareRuns
  <2>1. PICK found \in [Components \cup {Binding} -> 1..MaxRevision],
             fault \in Possible({"contracts"}) : heads' = found /\ Happens(fault)
    BY <1>1 DEF PrepareRuns
  <2>2. UNCHANGED attempt
    BY <1>1 DEF PrepareRuns
  <2> QED
    BY <2>1, <2>2, HappensType DEF RunType
<1>2. ASSUME NEW t \in Targets, ToolchainRuns(t) \/ DarkpandaRuns(t) \/ PythonRuns(t) PROVE RunType'
  <2>1. \E fault : Happens(fault)
    BY <1>2 DEF ToolchainRuns, DarkpandaRuns, PythonRuns
  <2>2. UNCHANGED <<attempt, heads>>
    BY <1>2 DEF ToolchainRuns, DarkpandaRuns, PythonRuns
  <2> QED
    BY <2>1, <2>2, HappensType DEF RunType
<1>3. ASSUME NEW c \in Components, NEW t \in Targets, ComponentRuns(c, t) PROVE RunType'
  <2>1. \E fault : Happens(fault)
    BY <1>3 DEF ComponentRuns
  <2>2. UNCHANGED <<attempt, heads>>
    BY <1>3 DEF ComponentRuns
  <2> QED
    BY <2>1, <2>2, HappensType DEF RunType
<1>4. CASE FingerprintRuns
  <2>1. \E fault : Happens(fault)
    BY <1>4 DEF FingerprintRuns
  <2>2. UNCHANGED <<attempt, heads>>
    BY <1>4 DEF FingerprintRuns
  <2> QED
    BY <2>1, <2>2, HappensType DEF RunType
<1>5. CASE NativeSummaryRuns \/ AggregateRuns \/ ReleaseStarts \/ ReleaseUploads
           \/ \E j \in Jobs : Skipped(j)
  <2>1. UNCHANGED <<attempt, heads, faults, clean>>
    BY <1>5 DEF NativeSummaryRuns, AggregateRuns, ReleaseStarts, ReleaseUploads, Skipped
  <2> QED
    BY <2>1 DEF RunType
<1>6. CASE \E j \in Jobs : RunnerLost(j)
  <2>1. Happens("lost") /\ UNCHANGED <<attempt, heads>>
    BY <1>6 DEF RunnerLost
  <2> QED
    BY <2>1, HappensType DEF RunType
<1>7. CASE RerunAll \/ RerunFailed \/ RerunOne
  <2>1. PICK jobs : Rerun(jobs)
    BY <1>7 DEF RerunAll, RerunFailed, RerunOne
  <2>2. attempt' \in 1..MaxAttempts
    BY <2>1, PipelineAssumption DEF Rerun, Reruns, RunType
  <2>3. UNCHANGED <<heads, faults>> /\ clean' \in BOOLEAN
    BY <2>1 DEF Rerun
  <2> QED
    BY <2>2, <2>3 DEF RunType
<1> QED
  BY <1>1, <1>2, <1>3, <1>4, <1>5, <1>6, <1>7 DEF Next, JobProceeds

\* Only the release shows that it runs.
OnlyTheReleaseRuns == \A j \in Jobs \ {<<"release">>} : job[j] # "running"

LEMMA ServesEnds ==
    ASSUME GraphTypeOK, NEW j \in Jobs, Serves(j)
    PROVE  /\ job[j] \in {"queued", "running"}
           /\ \E s \in Over : job' = [job EXCEPT ![j] = s]
           /\ job'[j] \in Over
           /\ \A i \in Jobs : i # j => job'[i] = job[i]
BY DEF Serves, Ends, Skips, Ready, Due, Over, GraphTypeOK

LEMMA RunningStep == ASSUME GraphTypeOK, OnlyTheReleaseRuns, Next PROVE OnlyTheReleaseRuns'
<1>1. CASE \E j \in Jobs : Serves(j)
  BY <1>1, ServesEnds DEF OnlyTheReleaseRuns, GraphTypeOK, Over
<1>2. CASE Begins(<<"release">>)
  BY <1>2 DEF OnlyTheReleaseRuns, Begins, GraphTypeOK
<1>3. CASE \E jobs \in {Jobs, FailedJobs} \cup {{j} : j \in Jobs} : Reruns(jobs)
  BY <1>3 DEF OnlyTheReleaseRuns, Reruns
<1>4. CASE UNCHANGED graphVars
  BY <1>4 DEF OnlyTheReleaseRuns, graphVars
<1> QED
  BY <1>1, <1>2, <1>3, <1>4, StepOfTheGraph DEF GraphNext

\* While the release runs, no other job does.
LEMMA ReleaseRunsAlone ==
    ASSUME GraphInv, job[<<"release">>] = "running", NEW j \in Jobs, Serves(j)
    PROVE  j = <<"release">>
<1>1. ChainSucceeded("release")
  BY SingleJobs DEF GraphInv, RanUnderCondition, Condition
<1>2. j[1] \in Kinds /\ j \in Legs(j[1])
  BY KindOfJob
<1>3. CASE j[1] = "release"
  BY <1>2, <1>3, SingleJobs
<1>4. CASE j[1] # "release"
  <2>1. j[1] \in Ancestors("release")
    BY <1>2, <1>4 DEF Ancestors, Rank, Kinds
  <2>2. job[j] = "success"
    BY <1>1, <1>2, <2>1 DEF ChainSucceeded, Succeeded
  <2> QED
    BY <2>2, ServesEnds DEF GraphInv
<1> QED
  BY <1>3, <1>4

\* The release has assets to upload exactly while it runs.
UploadsWhileRunning == uploads # {} <=> job[<<"release">>] = "running"

\* A step of another job.
LEMMA OtherJobUploads ==
    ASSUME GraphInv, UploadsWhileRunning, NEW j \in Jobs, j # <<"release">>, Serves(j),
           UNCHANGED uploads
    PROVE  UploadsWhileRunning'
BY ServesEnds, SingleJobs DEF UploadsWhileRunning, GraphInv

LEMMA UploadsStep == ASSUME GraphInv, UploadsWhileRunning, Next PROVE UploadsWhileRunning'
<1> DEFINE r == <<"release">>
<1>1. CASE PrepareRuns \/ FingerprintRuns \/ NativeSummaryRuns \/ AggregateRuns
  <2>1. \E j \in Jobs : j # r /\ Serves(j)
    BY <1>1, PrepareServes, FingerprintServes, NativeSummaryServes, AggregateServes, LegsAreTheJobs,
       SingleJobs
  <2>2. UNCHANGED uploads
    BY <1>1 DEF PrepareRuns, FingerprintRuns, NativeSummaryRuns, AggregateRuns
  <2> QED
    BY <2>1, <2>2, OtherJobUploads
<1>2. ASSUME NEW t \in Targets, ToolchainRuns(t) \/ DarkpandaRuns(t) \/ PythonRuns(t)
      PROVE  UploadsWhileRunning'
  <2>1. /\ <<"toolchain", t>> # r /\ <<"darkpanda", t>> # r /\ <<"python", t>> # r
        /\ <<"toolchain", t>> \in Jobs /\ <<"darkpanda", t>> \in Jobs /\ <<"python", t>> \in Jobs
    BY LegsAreTheJobs
  <2>2. \E j \in Jobs : j # r /\ Serves(j)
    BY <1>2, <2>1, ToolchainServes, DarkpandaServes, PythonServes
  <2>3. UNCHANGED uploads
    BY <1>2 DEF ToolchainRuns, DarkpandaRuns, PythonRuns
  <2> QED
    BY <2>2, <2>3, OtherJobUploads
<1>3. ASSUME NEW c \in Components, NEW t \in Targets, ComponentRuns(c, t)
      PROVE  UploadsWhileRunning'
  <2>1. <<"components", c, t>> # r /\ <<"components", c, t>> \in Jobs
    BY LegsAreTheJobs
  <2>2. UNCHANGED uploads
    BY <1>3 DEF ComponentRuns
  <2> QED
    BY <1>3, <2>1, <2>2, ComponentServes, OtherJobUploads
<1>4. CASE ReleaseStarts
  <2>1. job[r] = "queued" /\ r \in Jobs
    BY <1>4, SingleJobs DEF ReleaseStarts, Ready, Due
  <2>2. CASE release = << >>
    <3>1. uploads' = {} /\ Ends(r, TRUE)
      BY <1>4, <2>2 DEF ReleaseStarts
    <3>2. job'[r] = "success"
      BY <2>1, <3>1 DEF Ends, GraphInv, GraphTypeOK
    <3> QED
      BY <3>1, <3>2 DEF UploadsWhileRunning
  <2>3. CASE release # << >>
    <3>1. uploads' = DOMAIN Assets /\ Begins(r)
      BY <1>4, <2>3 DEF ReleaseStarts, ReplaceAssets
    <3>2. job'[r] = "running"
      BY <2>1, <3>1 DEF Begins, GraphInv, GraphTypeOK
    <3>3. <<"SHA256SUMS">> \in DOMAIN Assets
      BY DEF Assets, File, ++
    <3> QED
      BY <3>1, <3>2, <3>3 DEF UploadsWhileRunning
  <2> QED
    BY <2>2, <2>3
<1>5. CASE ReleaseUploads
  <2>1. PICK name \in uploads :
            /\ uploads' = uploads \ {name}
            /\ IF AllUploaded(name) THEN Ends(r, TRUE) ELSE UNCHANGED job
    BY <1>5 DEF ReleaseUploads
  <2>2. CASE uploads = {name}
    <3>1. job'[r] = "success"
      BY <2>1, <2>2, SingleJobs DEF AllUploaded, Ends, GraphInv, GraphTypeOK
    <3> QED
      BY <2>1, <2>2, <3>1 DEF UploadsWhileRunning
  <2>3. CASE uploads # {name}
    <3>1. UNCHANGED job /\ uploads' # {}
      BY <2>1, <2>3 DEF AllUploaded
    <3> QED
      BY <1>5, <3>1 DEF UploadsWhileRunning, ReleaseUploads
  <2> QED
    BY <2>2, <2>3
<1>6. ASSUME NEW j \in Jobs, Skipped(j) PROVE UploadsWhileRunning'
  <2>1. Serves(j) /\ UNCHANGED uploads /\ job[j] = "queued"
    BY <1>6, SkippedServes DEF Skipped, Skips, Due
  <2>2. CASE j = r
    BY <2>1, <2>2, ServesEnds DEF UploadsWhileRunning, GraphInv, Over
  <2> QED
    BY <2>1, <2>2, OtherJobUploads
<1>7. ASSUME NEW j \in Jobs, RunnerLost(j) PROVE UploadsWhileRunning'
  <2>1. Serves(j) /\ uploads' = {}
    BY <1>7, LostServes DEF RunnerLost
  <2>2. CASE job[r] = "running"
    BY <2>1, <2>2, ReleaseRunsAlone, ServesEnds DEF UploadsWhileRunning, GraphInv, Over
  <2>3. CASE job[r] # "running"
    BY <2>1, <2>3, ServesEnds, SingleJobs DEF UploadsWhileRunning, GraphInv, Over
  <2> QED
    BY <2>2, <2>3
<1>8. CASE RerunAll \/ RerunFailed \/ RerunOne
  <2>1. UNCHANGED uploads
    BY <1>8 DEF RerunAll, RerunFailed, RerunOne, Rerun
  <2>2. job[r] # "running" /\ job'[r] # "running"
    BY <1>8, RerunReruns, SingleJobs DEF Reruns, AttemptOver, Over
  <2> QED
    BY <2>1, <2>2 DEF UploadsWhileRunning
<1> QED
  BY <1>1, <1>2, <1>3, <1>4, <1>5, <1>6, <1>7, <1>8 DEF Next, JobProceeds

\* The type invariant: with the fact that a release has assets left to upload exactly while it runs,
\* which needs that nothing else runs then.
THEOREM PipelineTypeOK == Spec => []TypeOK
<1> DEFINE Typed == RunType /\ OnlyTheReleaseRuns /\ UploadsWhileRunning
<1>1. Init => Typed
  <2> SUFFICES ASSUME Init PROVE Typed
    OBVIOUS
  <2>1. \A j \in Jobs : job[j] = "queued"
    BY DEF Init, GraphInit
  <2>2. RunType
    BY PipelineAssumption DEF Init, GraphInit, RunType
  <2> QED
    BY <2>1, <2>2, SingleJobs DEF Init, OnlyTheReleaseRuns, UploadsWhileRunning
<1>2. GraphInv /\ Typed /\ [Next]_vars => Typed'
  <2>1. GraphInv /\ Typed /\ Next => Typed'
    BY RunTypeStep, RunningStep, UploadsStep DEF GraphInv
  <2>2. Typed /\ UNCHANGED vars => Typed'
    BY DEF RunType, OnlyTheReleaseRuns, UploadsWhileRunning, vars
  <2> QED
    BY <2>1, <2>2
<1>3. GraphInv /\ Typed => TypeOK
  BY DEF GraphInv, GraphTypeOK, RunType, OnlyTheReleaseRuns, UploadsWhileRunning, TypeOK, States
<1> HIDE DEF Typed
<1> QED
  BY <1>1, <1>2, <1>3, PipelineGraph, PTL DEF Spec
=============================================================================
