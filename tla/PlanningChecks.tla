------------------------------ MODULE PlanningChecks ------------------------------
(* Clusters that are planned for, and workloads whose replicas do not come up. *)
EXTENDS RuleSubject, SequencesExt, FiniteSetsExt

CONSTANTS
  Clusters,       \* see CapacityPlan
  Unreadable,     \* what may go unread of a cluster or a workload
  StalledReplicas,\* see ScaleOut, without pods
  MaxUnread,      \* bound: reads that fail at once
  PodKinds, MaxPods

Out   == INSTANCE ScaleOut
Stage == INSTANCE ScalePath

ClusterAsked ==
  /\ Opens("cluster")
  /\ \E c \in Clusters : subject' = [topic |-> "cluster", c |-> [c EXCEPT !.target = Out!TargetMax(c)], started |-> FALSE]
WorkloadAsked ==
  /\ Opens("workload")
  /\ \E w \in StalledReplicas : subject' = [topic |-> "workload", w |-> w]

\* A replica that was planned for: admitted by every quota, on a node it fits.
Take(pod) == [r \in {"cpu", "memory"} |-> Out!PodTakes(pod, "requests", r)]
QuotaTakes(q, pod) ==
  LET counted == Out!Counted(q.resource)
  IN  IF counted.side = "pods" THEN 1 ELSE IF counted.side = "" THEN 0 ELSE Out!PodTakes(pod, counted.side, counted.r)
Admitted(c, pod) ==
  \A q \in Range(c.quotas) : Unset \notin {q.hard, q.used} => q.hard - q.used >= QuotaTakes(q, pod)
Hosts(c, pod) == {i \in DOMAIN c.nodes : Out!Eligible(c.nodes[i], pod) /\ Out!NodeFit(c.nodes[i], Take(pod)) > 0}
Placed(c, pod, i) ==
  [c EXCEPT !.current = @ + 1,
            !.nodes[i].used = [r \in DOMAIN @ |-> @[r] + (IF r = "pods" THEN 1 ELSE Take(pod)[r])],
            !.quotas = [k \in DOMAIN @ |-> IF @[k].used = Unset THEN @[k]
                                           ELSE [@[k] EXCEPT !.used = @ + QuotaTakes(c.quotas[k], pod)]]]

ReplicaStarts ==
  /\ About("cluster") /\ subject.c.current < subject.c.target /\ subject.c.unread = {} /\ subject.c.pod # Unset
  /\ LET pod == Out!MaterializedPod(subject.c.pod)
     IN  \E i \in Hosts(subject.c, pod) :
           /\ Admitted(subject.c, pod)
           /\ subject' = [subject EXCEPT !.c = Placed(@, pod, i), !.started = TRUE]

ReadsFail ==
  /\ About("cluster") /\ ~subject.started /\ subject.c.unread = {}
  /\ \E what \in UNION {kSubset(n, Unreadable) : n \in 1..MaxUnread} : subject' = [subject EXCEPT !.c.unread = what]

PodAppears ==
  /\ About("workload") /\ Len(subject.w.pods) < MaxPods
  /\ \E p \in PodKinds : subject' = [subject EXCEPT !.w.pods = Append(@, p)]

PlanningNext == ClusterAsked \/ WorkloadAsked \/ ReplicaStarts \/ ReadsFail \/ PodAppears

------------------------------------------------------------------------------

\* The pods of a safe plan fit as it says, and so does every smaller plan.
SafeIsPossible(it) ==
  it.topic = "cluster" =>
    LET c == it.c
        pod == Out!MaterializedPod(c.pod)
        plan == Out!Plan(c)
    IN  plan.safe =>
          /\ plan.schedulable >= plan.additional
          /\ c.current < c.target => Admitted(c, pod) /\ Hosts(c, pod) # {}
          /\ \A t \in c.max + 1..c.target : Out!Plan([c EXCEPT !.target = t]).safe
          /\ c.pod.tolerates = {} => Out!StatusHeadroom(c, c.current) # "low"

\* A plan is as safe after one of its replicas started, on whichever node.
StartsKeepSafe ==
  About("cluster") /\ subject.c.current < subject'.c.current /\ Out!Plan(subject.c).safe => Out!Plan(subject'.c).safe

(* What could not be read never makes a plan look safer, and a plan that is not safe
   says what to do.                                                            *)
DoubtIsNeverSafe(it) ==
  it.topic = "cluster" =>
    LET plan == Out!Plan(it.c)
        read == Out!Plan([it.c EXCEPT !.unread = {}])
        short == Out!NodeShortfall(read.checks)
    IN  /\ plan.safe => read.safe /\ it.c.unread \subseteq {"pdbs", "scaler"}
        /\ plan.safe <=> plan.actions = {}
        /\ Out!Failing(plan.checks) \subseteq Out!Failing(read.checks)
        /\ "scaler" \in it.c.unread /\ read.autoscale /\ Out!AutoscalerSeen(it.c) = "unknown" => ~plan.safe
        /\ \A t \in it.c.max + 1..it.c.target :
             LET less == Out!Plan([it.c EXCEPT !.target = t])
             IN  less.additional <= plan.additional /\ (plan.safe => less.safe)

\* The workload as the scale path sees it.
OnPath(w) ==
  LET probe(delay) == IF delay = Unset THEN Unset ELSE [delay |-> delay, period |-> 10, count |-> 3]
  IN  [target |-> IF Out!TargetSeen(w) THEN [desired |-> w.spec, current |-> w.current, ready |-> w.ready] ELSE Unset,
       pods |-> [i \in DOMAIN Out!SeenPods(w) |-> [ready |-> w.pods[i].ready, phase |-> w.pods[i].phase, unschedulable |-> w.pods[i].unschedulable]],
       sets |-> [i \in DOMAIN w.sets |-> w.sets[i].replicas], scheduling |-> FALSE, quotas |-> Len(Out!Tight(w)),
       template |-> [readiness |-> probe(w.template[1].readiness), startup |-> probe(w.template[1].startup), constrained |-> TRUE]]

(* The scale path stops at the stage whose blocker is reported.                *)
PathStopsAtBlocker(w, ids) ==
  LET input == OnPath(w)
      hpa   == [desired |-> w.desired, current |-> w.current, max |-> 4]
      stage == Stage!BlockingPoint(hpa, input)
      steps == Stage!Steps(hpa, input)
  IN  /\ stage = "scheduler" <=> "unschedulable-pods" \in ids
      /\ stage \in {"scheduler", "pending"} => "pending-pods" \in ids
      /\ stage = "not ready" /\ w.ready < w.desired => "readiness-stalled" \in ids
      /\ stage = "not ready" => Stage!NotReadyEvidence(hpa, input) > 0 /\ steps[4] < steps[2]
      /\ stage \notin {"scheduler", "pending", "not ready"} =>
           Stage!SlowProbes(hpa, input) = {} /\ Stage!RunningNotReady(input) = 0
      /\ Stage!NodesFirst(hpa, input) \/ Stage!ConstraintsWarned(input) => stage = "scheduler"
      /\ stage = "maxReplicas" => w.current >= 4
      /\ Stage!QuotaAction(input) <=> "quota-near-limit" \in ids

\* One blocker says why fewer replicas are ready than wanted, its counts are of what is
\* there, and doctor, status and the rollout report tell the same.
ReportsAgree(it) ==
  it.topic = "workload" =>
    LET w == it.w
        found   == Out!Findings(w)
        ids     == {found[i].id : i \in DOMAIN found}
        of(id)  == {found[i].n : i \in {j \in DOMAIN found : found[j].id = id}}
        rank    == [high |-> 1, medium |-> 2, info |-> 3]
        unready == Cardinality({i \in DOMAIN w.pods : ~w.pods[i].ready})
        rows    == Out!Warmup(w).rows
        groups  == {i \in DOMAIN rows : rows[i].type \notin {"metrics_inactive", "startup_probe"}}
        times   == Out!Warmup(w).times
        doctor  == Out!Doctor(w)
        impact  == Out!Impact(w)
        report  == Out!RolloutReport(w)
        shown   == Out!RolloutDiagnosis(w)
    IN  /\ \A i \in 1..Len(found) - 1 : rank[found[i].severity] <= rank[found[i + 1].severity]
        /\ PathStopsAtBlocker(w, ids)
        /\ Out!PodsSeen(w) /\ w.ready < w.desired => ("pending-pods" \in ids) # ("readiness-stalled" \in ids)
        /\ "unschedulable-pods" \in ids => \A n \in of("pending-pods"), m \in of("unschedulable-pods") : m <= n
        /\ "unschedulable" \in Out!CapacityHints(w) => "unschedulable-pods" \in ids
        /\ Out!BlockersWarn(w) = {} => found = Out!Findings([w EXCEPT !.unread = {}])
        /\ Out!WarmingUp(w) /\ Len(w.pods) >= w.desired => Range(Out!Warmup(w).rows) # {}
        /\ Out!WantsScaleOut(w) => "none" \notin Range(Out!BlockerInterpretation(w))
        /\ Out!BlockerSummary(w) = "no blockers" => \A i \in DOMAIN found : found[i].severity = "info"
        /\ (\E i \in DOMAIN found : found[i].category = "application") =>
             shown # Unset /\ \E i \in DOMAIN shown.issues : shown.issues[i] = "high"
        /\ FoldLeft(+, 0, [i \in 1..Len(rows) |-> IF i \in groups THEN rows[i].n ELSE 0]) = unready
        /\ \A i \in DOMAIN rows : rows[i].type = "startup_probe" => \E j \in groups : rows[i].n <= unready
        /\ times.avg <= times.max /\ times.p95 <= times.max
        /\ Out!DoctorRuns(w) =>
             /\ doctor.young = doctor.readyYoung + doctor.notReadyYoung
             /\ doctor.notReady = unready /\ impact.starting <= doctor.notReady
             /\ impact.missing <= doctor.missing
             /\ ~doctor.likely => impact.starting = 0
        /\ w.unread = {} /\ shown # Unset => report.inProgress = shown.inProgress
        /\ report.inProgress => "progress" \in report.failed /\ "unaffected" \notin report.advice
        /\ report.missing # <<>> => report.risks # <<>> /\ report.risks[1] = "high"

(* A capacity plan that is called safe can be carried out replica by replica, on
   whichever nodes they start, and what could not be read never makes it look safer;
   the reports about replicas that do not serve contradict neither it nor each other. *)
PlansHold ==
  [][StartsKeepSafe /\ SafeIsPossible(subject') /\ DoubtIsNeverSafe(subject') /\ ReportsAgree(subject')]_subject
=============================================================================
