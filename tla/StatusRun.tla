----------------------------- MODULE StatusRun -----------------------------
(***************************************************************************)
(* One run of a command over several named HPAs: `status NAME...`, which   *)
(* prints what it could build, and `blockers NAME...`, which prints all or *)
(* nothing.  Every name is a job; at most `limit` jobs run at a time        *)
(* (src/cmd/parallel.go).  A job reads its HPA, then walks the enrichment   *)
(* pipeline (src/cmd/enricher.go), whose steps read the cluster through a  *)
(* snapshot that remembers every answer (src/internal/observation).        *)
(*                                                                         *)
(* A list of several pages counts as one read here; ListRun walks pages.   *)
(***************************************************************************)
EXTENDS Integers, Sequences, FiniteSets, TLC, KubeRead

CONSTANTS
  NameCount,    \* how many names were given
  Limits,       \* the values of --concurrency
  FlagSets,     \* the flags a user may have given, as sets of flag names
  Unwell,       \* the jobs whose HPA is in a warning health state
  Bare,         \* the jobs whose scale target is of a kind that is not read
  AtMaximum,    \* the jobs whose HPA has scaled out to its maximum
  MaxFaults     \* bound: how many answers that are faults the server gives

\* A job for each name, in the order they were given.
Jobs == 1 .. NameCount

ASSUME RunAssumption ==
  /\ NameCount \in Nat
  /\ Limits \subseteq Nat \ {0}
  /\ Unwell \subseteq Jobs /\ Bare \subseteq Jobs /\ AtMaximum \subseteq Jobs
  /\ MaxFaults \in Nat

VARIABLES
  mode,         \* "status" | "blockers"
  flags,        \* the flags given
  limit,        \* how many jobs may run at a time
  job,          \* [Jobs -> where the job is]
  seen,         \* [Jobs -> what its snapshot remembers]
  shared,       \* the reads made once for the whole run
  warned,       \* [Jobs -> the failed reads its report shows, by diagnosis]
  log,          \* [Jobs -> its completed reads, in order]
  result,       \* [Jobs -> "none" | "report" | "missing" | "failed"]
  recorded,     \* the jobs whose health went into the trend history
  cancelled,    \* the context was cancelled (Ctrl+C)
  exit,         \* NoExit while it runs, then the exit code
  faults

runVars == <<mode, flags, limit, job, seen, shared, warned, log, result,
             recorded, cancelled, exit, faults>>

-----------------------------------------------------------------------------
\* What is read, and by whom.

Snapshotted == {"target", "pods", "replicasets"}
Shared == {"cluster", "autoscaler"}

(***************************************************************************)
(* Reads that go out once whatever they answer: discovery, the metrics     *)
(* APIs, custom resources and plain client calls.                          *)
(***************************************************************************)
Unretried == {"scaledobjects", "vpas", "discovery", "apiservices", "samples",
              "podmetrics", "managers", "workload", "autoscaler"}

(***************************************************************************)
(* The pipeline: a task after the other, each made of diagnoses.           *)
(***************************************************************************)
StatusPipeline == <<
  <<"decision-traces", "decision-traces">>, <<"events", "events">>,
  <<"report", "report">>, <<"metrics-diagnostics", "metrics-diagnostics">>,
  <<"metric-freshness", "metric-freshness">>, <<"resource-check", "resource-check">>,
  <<"target-replica-observations", "target-replica-observations">>,
  <<"pod-analysis", "pod-analysis">>, <<"simulations", "simulations">>,
  <<"capacity-analysis", "context">>, <<"capacity-analysis", "headroom">>,
  <<"capacity-analysis", "readiness-impact">>, <<"capacity-analysis", "scale-path">>,
  <<"rollout-and-blockers", "rollout">>, <<"rollout-and-blockers", "blockers">>,
  <<"controller-profile", "controller-profile">>, <<"capacity-plan", "capacity-plan">>,
  <<"gitops-conflict", "gitops-conflict">>,
  <<"metric-contract-and-adapter", "metric-contract">>,
  <<"churn-and-flapping", "churn-and-flapping">>, <<"vpa-advisory", "vpa-advisory">>,
  <<"metric-hints", "metric-hints">>, <<"advisors", "container-advisor">> >>

(***************************************************************************)
(* The flags any one of which enables a diagnosis; the report itself and   *)
(* the VPA advice are always on.  Capacity is planned at the maximum only. *)
(***************************************************************************)
CoreFlags ==
  "decision-traces" :> {"decision-trace", "structured"} @@
  "events" :> {"events", "flapping"} @@
  "report" :> {} @@
  "metrics-diagnostics" :> {"diagnose-metrics"} @@
  "metric-freshness" :> {"metric-freshness"} @@
  "resource-check" :> {"check-resources"} @@
  "target-replica-observations" :>
     {"explain", "interpret", "suggest", "explain-pods", "check-resources", "scale-path",
      "context", "headroom", "capacity-deep", "rollout", "readiness-impact", "deep"} @@
  "pod-analysis" :> {"explain-pods"} @@
  "simulations" :> {"simulate", "bad-simulation"}

CapacityFlags ==
  "context" :> {"context"} @@ "headroom" :> {"headroom"} @@
  "readiness-impact" :> {"readiness-impact"} @@ "scale-path" :> {"scale-path"} @@
  "rollout" :> {"rollout"} @@
  "blockers" :> {"capacity-deep", "scaleout-blockers"} @@
  "controller-profile" :> {"controller-profile"} @@
  "capacity-plan" :> {"capacity-plan"}

AdvisorFlags ==
  "gitops-conflict" :> {"gitops-check"} @@
  "metric-contract" :> {"metric-contract"} @@
  "churn-and-flapping" :> {"churn", "flapping"} @@
  "vpa-advisory" :> {} @@
  "metric-hints" :> {"metric-hints"} @@
  "container-advisor" :> {"container-advisor"}

EnabledBy == CoreFlags @@ CapacityFlags @@ AdvisorFlags

Pipeline == IF mode = "blockers" THEN <<<<"blockers", "blockers">>>> ELSE StatusPipeline

Enabled(i, d) ==
  \/ mode = "blockers"
  \/ /\ "no-enrich" \notin flags
     /\ EnabledBy[d] = {} \/ EnabledBy[d] \cap flags # {}
     /\ d = "capacity-plan" => i \in AtMaximum

(***************************************************************************)
(* The reads a diagnosis makes, in order, given what is known so far: `of` *)
(* says what a read answered ("unread" when it was not made).  A diagnosis *)
(* that gets no target, or no pods where it needs them, stops there.       *)
(***************************************************************************)
When(condition, reads) == IF condition THEN reads ELSE <<>>

Got(of, read) == of[read] = "known"

TargetThen(of, reads) == <<"target">> \o When(Got(of, "target"), reads)

EnrichmentReads ==
  When("keda" \in flags, <<"scaledobjects">>) \o When("vpa" \in flags, <<"vpas">>)

FreshnessReads(of) ==
  <<"discovery", "selector">> \o When(Got(of, "selector"), <<"samples">>)

ContextReads(of) == TargetThen(of, <<"pods", "quotas", "pdbs">>)

HeadroomReads(of) == TargetThen(of, <<"cluster">>)

ReadinessReads(of) ==
  TargetThen(of, <<"pods">>) \o When(Got(of, "pods"), <<"podmetrics">>)

ScalePathReads(of) == TargetThen(of, <<"pods", "replicasets", "objectevents">>)

BlockerReads(of) == TargetThen(of, <<"pods", "objectevents">>) \o <<"quotas", "nodes">>

CapacityPlanReads(of) ==
  TargetThen(of, <<"pods">>) \o <<"quotas", "limitranges", "cluster", "pdbs", "autoscaler">>

ContractReads == <<"apiservices", "selector">>

Wanted(d, of) ==
  CASE d = "events" -> <<"events">>
    [] d = "report" -> EnrichmentReads
    [] d = "metric-freshness" -> FreshnessReads(of)
    [] d \in {"resource-check", "container-advisor"} -> <<"template">>
    [] d \in {"target-replica-observations", "pod-analysis", "rollout"} ->
         TargetThen(of, <<"pods">>)
    [] d = "context" -> ContextReads(of)
    [] d = "headroom" -> HeadroomReads(of)
    [] d = "readiness-impact" -> ReadinessReads(of)
    [] d = "scale-path" -> ScalePathReads(of)
    [] d = "blockers" -> BlockerReads(of)
    [] d = "controller-profile" -> <<"managers">>
    [] d = "capacity-plan" -> CapacityPlanReads(of)
    [] d = "gitops-conflict" -> <<"workload">>
    [] d = "metric-contract" -> ContractReads
    [] OTHER -> <<>>

(***************************************************************************)
(* The failures a diagnosis drops: it yields nothing, without a word.  A   *)
(* missing rollout, headroom or container advice therefore does not mean   *)
(* that there is none to give.                                             *)
(***************************************************************************)
Silent == {<<"rollout", "target">>, <<"rollout", "pods">>, <<"headroom", "target">>,
           <<"container-advisor", "template">>}

Reads == Snapshotted \cup Shared \cup Unretried
         \cup {"hpa", "events", "selector", "template", "quotas", "pdbs",
               "objectevents", "nodes", "limitranges"}

-----------------------------------------------------------------------------
\* Where a job is.

Running(i) == job[i].phase \notin {"waiting", "done"}

\* Mutant: a remembered failure reads as an empty answer.
KnownWithoutErrors(i) ==
  [r \in Reads |->
     IF r \in Snapshotted THEN IF seen[i][r] = "failed" THEN "nothing" ELSE seen[i][r]
     ELSE IF r \in Shared THEN shared[r].value
     ELSE IF r \in DOMAIN job[i].got THEN job[i].got[r] ELSE "unread"]

(***************************************************************************)
(* What job i knows of a read: from its snapshot, from the run's shared    *)
(* observations, or from the diagnosis in progress.                        *)
(***************************************************************************)
Known(i) ==
  [r \in Reads |->
     IF r \in Snapshotted THEN seen[i][r]
     ELSE IF r \in Shared THEN shared[r].value
     ELSE IF r \in DOMAIN job[i].got THEN job[i].got[r] ELSE "unread"]

Diagnosis(i) == Pipeline[job[i].at][2]

(***************************************************************************)
(* The next read of the diagnosis in progress, or "none": remembered       *)
(* answers are used as they are.                                           *)
(***************************************************************************)
NextRead(i) ==
  LET wanted == Wanted(Diagnosis(i), Known(i))
      open   == {k \in DOMAIN wanted : Known(i)[wanted[k]] = "unread"}
  IN  IF open = {} THEN "none"
      ELSE wanted[CHOOSE k \in open : \A j \in open : k <= j]

\* The failures a finished diagnosis leaves in the report.
Warnings(i) ==
  LET d == Diagnosis(i)
      wanted == Wanted(d, Known(i))
  IN  {<<d, wanted[k]>> : k \in {j \in DOMAIN wanted : Known(i)[wanted[j]] = "failed"}} \ Silent

\* The first diagnosis enabled for job i after position k, or one past the end.
NextStep(i, k) ==
  LET later == {j \in DOMAIN Pipeline : j > k /\ Enabled(i, Pipeline[j][2])}
  IN  IF later = {} THEN Len(Pipeline) + 1
      ELSE CHOOSE j \in later : \A l \in later : j <= l

\* Mutant: no look at the context once the last task is done.
ChecksBeforeTasks(k) ==
  /\ mode = "status" /\ "no-enrich" \notin flags
  /\ k <= Len(Pipeline)
  /\ k \in 2 .. Len(Pipeline) => Pipeline[k][1] # Pipeline[k - 1][1]

(***************************************************************************)
(* The context is looked at before a task and at the end of the pipeline,  *)
(* not between the diagnoses of one task; `blockers` never looks, and      *)
(* --no-enrich has no pipeline to look in.                                 *)
(***************************************************************************)
ChecksContext(k) ==
  /\ mode = "status" /\ "no-enrich" \notin flags
  /\ k \in 2 .. Len(Pipeline) => Pipeline[k][1] # Pipeline[k - 1][1]

Free == [phase |-> "ready", at |-> 0, read |-> "none", tries |-> 0, got |-> <<>>]

-----------------------------------------------------------------------------
RunInit ==
  /\ mode \in {"status", "blockers"}
  /\ flags \in FlagSets
  /\ limit \in Limits
  /\ mode = "blockers" => flags = {}
  /\ job = [i \in Jobs |-> [Free EXCEPT !.phase = "waiting"]]
  /\ seen = [i \in Jobs |-> [r \in Snapshotted |-> "unread"]]
  /\ shared = [r \in Shared |-> [reader |-> 0, value |-> "unread"]]
  /\ warned = [i \in Jobs |-> {}]
  /\ log = [i \in Jobs |-> <<>>]
  /\ result = [i \in Jobs |-> "none"]
  /\ recorded = {}
  /\ cancelled = FALSE
  /\ exit = NoExit
  /\ faults = 0

End(i, outcome) ==
  /\ job' = [job EXCEPT ![i] = [Free EXCEPT !.phase = "done"]]
  /\ result' = [result EXCEPT ![i] = outcome]

(***************************************************************************)
(* Jobs start in the order of the names, when a slot is free; one that     *)
(* starts after the cancellation ends at once.                             *)
(***************************************************************************)
StartJob(i) ==
  /\ job[i].phase = "waiting"
  /\ \A j \in 1 .. i - 1 : job[j].phase # "waiting"
  /\ Cardinality({j \in Jobs : Running(j)}) < limit
  /\ IF cancelled
     THEN End(i, "failed")
     ELSE /\ job' = [job EXCEPT ![i] = [Free EXCEPT !.phase = "calling", !.read = "hpa", !.tries = 1]]
          /\ UNCHANGED result
  /\ UNCHANGED <<mode, flags, limit, seen, shared, warned, log, recorded, cancelled, exit, faults>>

\* What the diagnosis of job i read for itself, once r answered.
Learned(i, r, value) ==
  IF r \in Snapshotted \cup Shared THEN job[i].got ELSE (r :> value) @@ job[i].got

\* Mutant: a snapshot only remembers what it got.
KeepSuccess(i, r, value) ==
  /\ seen' = IF r \in Snapshotted /\ value # "failed" THEN [seen EXCEPT ![i][r] = value] ELSE seen
  /\ shared' = IF r \in Shared THEN [shared EXCEPT ![r].value = value] ELSE shared
  /\ job' = [job EXCEPT ![i] =
       [@ EXCEPT !.phase = "ready", !.read = "none",
                 !.got = Learned(i, r, value)]]

\* Mutant: a failed shared read never opens the gate for those who wait.
KeepGateShut(i, r, value) ==
  /\ seen' = IF r \in Snapshotted THEN [seen EXCEPT ![i][r] = value] ELSE seen
  /\ shared' = IF r \in Shared /\ value = "known" THEN [shared EXCEPT ![r].value = value] ELSE shared
  /\ job' = [job EXCEPT ![i] =
       [@ EXCEPT !.phase = "ready", !.read = "none",
                 !.got = Learned(i, r, value)]]

\* Where the value of a read of job i is kept for its readers.
Keep(i, r, value) ==
  /\ seen' = IF r \in Snapshotted THEN [seen EXCEPT ![i][r] = value] ELSE seen
  /\ shared' = IF r \in Shared THEN [shared EXCEPT ![r].value = value] ELSE shared
  /\ job' = [job EXCEPT ![i] =
       [@ EXCEPT !.phase = "ready", !.read = "none",
                 !.got = Learned(i, r, value)]]

(***************************************************************************)
(* What a read may come to.  That no autoscaler is deployed only says that *)
(* there is none when the nodes were listed; the read of the cluster lists *)
(* nodes, then pods, and either may be what failed.                        *)
(***************************************************************************)
Readings(r, answer) ==
  IF r = "autoscaler" /\ answer = "missing" /\ shared["cluster"].value = "failed"
  THEN {"nothing", "failed"}
  ELSE {ReadValue(r, answer)}

(***************************************************************************)
(* A read is over: the HPA decides between the pipeline and an error, any  *)
(* other value is kept.                                                    *)
(***************************************************************************)
Settle(i, answer) ==
  LET r == job[i].read
  IN \E value \in Readings(r, answer) :
     /\ log' = [log EXCEPT ![i] = Append(@, [read |-> r, value |-> value, late |-> cancelled])]
     /\ IF r # "hpa"
        THEN Keep(i, r, value) /\ UNCHANGED result
        ELSE /\ UNCHANGED <<seen, shared>>
             /\ IF value = "known"
                THEN job' = [job EXCEPT ![i] = [Free EXCEPT !.phase = "between"]] /\ UNCHANGED result
                ELSE End(i, IF value = "nothing" THEN "missing" ELSE "failed")

(***************************************************************************)
(* One HTTP call ends: in an answer of the server, or at once when the     *)
(* context is cancelled.  A transient failure is tried again after a pause.*)
(* A cluster without an autoscaler is not a fault.                         *)
(***************************************************************************)
Ordinary(r, answer) == answer = "ok" \/ (r = "autoscaler" /\ answer = "missing")

Reply(i, answer) ==
  /\ job[i].phase = "calling"
  /\ cancelled => answer = "refused"
  /\ IF cancelled \/ Ordinary(job[i].read, answer)
     THEN faults' = faults
     ELSE faults < MaxFaults /\ faults' = faults + 1
  /\ IF RetriesAfter(job[i].tries, answer) /\ job[i].read \notin Unretried
     THEN /\ job' = [job EXCEPT ![i].phase = "pausing"]
          /\ UNCHANGED <<seen, shared, log, result>>
     ELSE Settle(i, answer)
  /\ UNCHANGED <<mode, flags, limit, warned, recorded, cancelled, exit>>

\* The pause is over, or the cancellation cut it short.
Resume(i) ==
  /\ job[i].phase = "pausing"
  /\ IF cancelled
     THEN Settle(i, "refused")
     ELSE /\ job' = [job EXCEPT ![i].phase = "calling", ![i].tries = @ + 1]
          /\ UNCHANGED <<seen, shared, log, result>>
  /\ UNCHANGED <<mode, flags, limit, warned, recorded, cancelled, exit, faults>>

(***************************************************************************)
(* A job in a diagnosis makes its next read.  A shared one is made by the  *)
(* first job that needs it; the others wait for it, whatever it answers.   *)
(***************************************************************************)
NeedsNoCall(i, r) == i \in Bare /\ r \in {"target", "selector", "template", "workload"}

BeginRead(i) ==
  /\ job[i].phase = "ready"
  /\ LET r == NextRead(i)
     IN /\ r # "none"
        /\ ~NeedsNoCall(i, r)
        /\ r \in Shared => shared[r].reader = 0
        /\ shared' = IF r \in Shared THEN [shared EXCEPT ![r].reader = i] ELSE shared
        /\ job' = [job EXCEPT ![i].phase = "calling", ![i].read = r, ![i].tries = 1]
  /\ UNCHANGED <<mode, flags, limit, seen, warned, log, result, recorded, cancelled, exit, faults>>

\* A target of another kind needs no call; only the GitOps check calls it a failure.
SkipRead(i) ==
  /\ job[i].phase = "ready"
  /\ LET r == NextRead(i)
     IN NeedsNoCall(i, r) /\ Keep(i, r, IF r = "workload" THEN "failed" ELSE "nothing")
  /\ UNCHANGED <<mode, flags, limit, warned, log, result, recorded, cancelled, exit, faults>>

\* A listed node may carry the autoscaler's annotation: that takes no call.
FoundOnNodes(i) ==
  /\ job[i].phase = "ready"
  /\ NextRead(i) = "autoscaler" /\ shared["autoscaler"].reader = 0
  /\ shared' = [shared EXCEPT !["autoscaler"] = [reader |-> i, value |-> "known"]]
  /\ UNCHANGED <<mode, flags, limit, job, seen, warned, log, result, recorded, cancelled, exit, faults>>

\* A diagnosis that has all it wants notes what failed and is over.
EndDiagnosis(i) ==
  /\ job[i].phase = "ready"
  /\ NextRead(i) = "none"
  /\ warned' = [warned EXCEPT ![i] = @ \cup Warnings(i)]
  /\ job' = [job EXCEPT ![i].phase = "between", ![i].got = <<>>]
  /\ UNCHANGED <<mode, flags, limit, seen, shared, log, result, recorded, cancelled, exit, faults>>

(***************************************************************************)
(* Between diagnoses: on to the next enabled one, or the report is whole;  *)
(* its health is then recorded when --trend asks for it.  A cancellation   *)
(* or a simulation that cannot be parsed costs the whole report.           *)
(***************************************************************************)
NextDiagnosis(i) ==
  LET k == NextStep(i, job[i].at) IN
  /\ job[i].phase = "between"
  /\ \/ /\ cancelled /\ \E j \in job[i].at + 1 .. k : ChecksContext(j)
        /\ End(i, "failed")
        /\ UNCHANGED recorded
     \/ /\ ~(cancelled /\ \E j \in job[i].at + 1 .. k : ChecksContext(j))
        /\ k <= Len(Pipeline)
        /\ IF Pipeline[k][2] = "simulations" /\ "bad-simulation" \in flags
           THEN End(i, "failed")
           ELSE /\ job' = [job EXCEPT ![i].phase = "ready", ![i].at = k]
                /\ UNCHANGED result
        /\ UNCHANGED recorded
     \/ /\ ~(cancelled /\ \E j \in job[i].at + 1 .. k : ChecksContext(j))
        /\ k > Len(Pipeline)
        /\ End(i, "report")
        /\ recorded' = IF mode = "status" /\ "trend" \in flags THEN recorded \cup {i} ELSE recorded
  /\ UNCHANGED <<mode, flags, limit, seen, shared, warned, log, cancelled, exit, faults>>

Cancel ==
  /\ ~cancelled /\ exit = NoExit
  /\ cancelled' = TRUE
  /\ UNCHANGED <<mode, flags, limit, job, seen, shared, warned, log, result, recorded, exit, faults>>

(***************************************************************************)
(* The exit code once every job is done.  One name reports its own error;  *)
(* several give 1 for any error; `blockers` fails with the first error in  *)
(* the order of the names.  Then a warning health gives 2.                 *)
(***************************************************************************)
ErrorCode(i) == IF result[i] = "missing" THEN 3 ELSE 1

Failed == {i \in Jobs : result[i] # "report"}

ExitCode ==
  IF Failed # {}
  THEN IF mode = "blockers" \/ Cardinality(Jobs) = 1
       THEN ErrorCode(CHOOSE i \in Failed : \A j \in Failed : i <= j)
       ELSE 1
  ELSE IF mode = "status" /\ Unwell # {} THEN 2 ELSE 0

Finish ==
  /\ exit = NoExit
  /\ \A i \in Jobs : job[i].phase = "done"
  /\ exit' = ExitCode
  /\ UNCHANGED <<mode, flags, limit, job, seen, shared, warned, log, result, recorded, cancelled, faults>>

JobStep(i) ==
  \/ StartJob(i) \/ Resume(i) \/ BeginRead(i) \/ FoundOnNodes(i) \/ SkipRead(i)
  \/ EndDiagnosis(i) \/ NextDiagnosis(i)
  \/ \E answer \in Answers : Reply(i, answer)

RunNext ==
  \/ \E i \in Jobs : JobStep(i)
  \/ Cancel
  \/ Finish

-----------------------------------------------------------------------------
TimesRead(i, r) == Cardinality({k \in DOMAIN log[i] : log[i][k].read = r})

(***************************************************************************)
(* Whatever the answers and the interleaving, a job reads its HPA, its     *)
(* target, its pods and its replica sets at most once, failures included,  *)
(* and the whole run lists the cluster at most once: the diagnoses of one  *)
(* report never disagree about what was there.  Bites when a failure is    *)
(* not remembered or two jobs pass the once gate together.                 *)
(***************************************************************************)
ReadsOnce ==
  /\ \A i \in Jobs : \A r \in Snapshotted \cup {"hpa"} : TimesRead(i, r) <= 1
  /\ \A r \in Shared : Cardinality({i \in Jobs : TimesRead(i, r) > 0}) <= 1
  /\ \A i \in Jobs : \A r \in Shared : TimesRead(i, r) <= 1

(***************************************************************************)
(* The diagnoses that rest on a read, and the reports that hold a          *)
(* diagnosis resting on a read that failed.                                *)
(***************************************************************************)
RestOn(r) ==
  CASE r = "target" -> {"target-replica-observations", "pod-analysis", "context", "headroom",
                        "readiness-impact", "scale-path", "rollout", "blockers", "capacity-plan"}
    [] r = "pods" -> {"target-replica-observations", "pod-analysis", "context",
                      "readiness-impact", "scale-path", "rollout", "blockers", "capacity-plan"}
    [] r = "replicasets" -> {"scale-path"}
    [] r \in Shared -> {"capacity-plan"}

InReport(i, d) == \E k \in DOMAIN Pipeline : Pipeline[k][2] = d /\ Enabled(i, d)

(***************************************************************************)
(* A failed read shows as a failure in every diagnosis of the report that  *)
(* rests on it, in whichever diagnosis or job it was made; it never reads  *)
(* as "there is none".  The exceptions are those of Silent.  Bites when a  *)
(* remembered failure is mistaken for an empty answer.                     *)
(***************************************************************************)
FailuresShow ==
  \A i \in Jobs : result[i] = "report" =>
    /\ \A r \in Snapshotted : \A k \in DOMAIN log[i] :
         log[i][k].read = r /\ log[i][k].value = "failed" =>
           \A d \in RestOn(r) : InReport(i, d) => <<d, r>> \in warned[i] \cup Silent
    /\ \A r \in Shared : \A j \in Jobs : \A k \in DOMAIN log[j] :
         log[j][k].read = r /\ log[j][k].value = "failed" =>
           \A d \in RestOn(r) : InReport(i, d) => <<d, r>> \in warned[i]

(***************************************************************************)
(* Ctrl+C never passes for the state of the cluster: a status report that  *)
(* was finished shows no read that failed because of it, and its health is *)
(* not recorded either.  (`blockers` gives no such promise: it reports the *)
(* interrupted reads as unavailable and succeeds.)                         *)
(***************************************************************************)
NoTruncatedReport ==
  mode = "status" =>
    \A i \in Jobs : result[i] = "report" \/ i \in recorded =>
      /\ \A k \in DOMAIN log[i] : ~(log[i][k].late /\ log[i][k].value = "failed")
      /\ \A r \in Shared : \A j \in Jobs : \A k \in DOMAIN log[j] :
           log[j][k].read = r /\ log[j][k].late /\ log[j][k].value = "failed" =>
             \A d \in RestOn(r) : <<d, r>> \notin warned[i]
=============================================================================
