-------------------------------- MODULE ScaleOut --------------------------------
(* Why replicas that an HPA asked for are not serving: the blockers, the capacity
   context, the rollout report, the readiness doctor, the readiness impact of status
   and the warm-up analysis, all of the same workload:

     min, current, desired, active, limited        the HPA's status
     kind       Deployment, StatefulSet, or Other, which is not observed
     spec, updated, ready, available, unavailable, lagging   the status of the target
     template   sequence of [name, startup, readiness]: a probe's delay, or Unset
     sets       a Deployment's ReplicaSets: [owned, replicas, revision, names]
     measured   the containers that ContainerResource metrics name
     pods       sequence of [phase, ready, unschedulable, age, took, inits, waits,
                state, restarts, metered, events]; inits and waits hold the waiting
                reason of each container, "" for one that does not wait
     quotas     sequence of [used, hard], or Unset where usage is not known
     nodes      see CapacityPlan
     unread     what could not be read                                        *)
EXTENDS CapacityPlan

Count(pods, is(_)) == Len(SelectSeq(pods, is))
If(cond, row) == IF cond THEN <<row>> ELSE <<>>

------------------------------------------------------------------------------
(* Observations. *)

TargetSeen(w)  == w.kind # "Other" /\ "target" \notin w.unread
PodsSeen(w)    == TargetSeen(w) /\ {"selector", "pods"} \cap w.unread = {}
SeenPods(w)    == IF PodsSeen(w) THEN w.pods ELSE <<>>
PendingPods(w) == SelectSeq(SeenPods(w), LAMBDA p : p.phase = "Pending")
Unplaced(w)    == Count(PendingPods(w), LAMBDA p : p.unschedulable)

\* Percent of a quota; only those from 80 on are kept, and one that allows nothing
\* never is.
Tight(w) ==
  LET percent == [i \in DOMAIN w.quotas |->
        IF w.quotas[i].used = Unset \/ w.quotas[i].hard = 0 THEN 0
        ELSE (100 * w.quotas[i].used) \div w.quotas[i].hard]
  IN  IF "quotas" \in w.unread THEN <<>> ELSE SelectSeq(percent, LAMBDA p : p >= 80)

------------------------------------------------------------------------------
(* Blockers: sequence of [id, severity, category, n]. *)

Finding(id, severity, category, n) == [id |-> id, severity |-> severity, category |-> category, n |-> n]

ImageReasons == {"ImagePullBackOff", "ErrImagePull"}
FailureOf(reason) ==
  IF reason \in ImageReasons THEN "image-pull-failure" ELSE IF reason = "CrashLoopBackOff" THEN "crash-loop" ELSE ""

\* A failure that shows in one container keeps its row; one that shows in several
\* becomes one row, after the others.
ContainerFailures(w) ==
  LET waits == FlattenSeq([i \in DOMAIN SeenPods(w) |-> SeenPods(w)[i].waits])
      ids   == SelectSeq([i \in DOMAIN waits |-> FailureOf(waits[i])], LAMBDA id : id # "")
      times(id) == Count(ids, LAMBDA x : x = id)
      once  == SelectSeq(ids, LAMBDA id : times(id) = 1)
      often == SelectSeq(<<"image-pull-failure", "crash-loop">>, LAMBDA id : times(id) > 1)
      rows  == once \o often
  IN  [i \in DOMAIN rows |-> Finding(rows[i], "high", "application", times(rows[i]))]

QuotaFindings(w) ==
  [i \in DOMAIN Tight(w) |-> Finding("quota-near-limit", IF Tight(w)[i] >= 95 THEN "high" ELSE "medium", "quota", Tight(w)[i])]

\* The events of pods that were listed.
SchedulingFindings(w) ==
  LET failed == FoldLeft(+, 0, [i \in DOMAIN SeenPods(w) |-> SeenPods(w)[i].events])
  IN  If(PendingPods(w) # <<>>, Finding("pending-pods", "high", "scheduling", Len(PendingPods(w))))
      \o If(Unplaced(w) > 0, Finding("unschedulable-pods", "high", "scheduling", Unplaced(w)))
      \o [i \in 1..(IF "events" \in w.unread THEN 0 ELSE failed) |-> Finding("failed-scheduling", "high", "scheduling", 1)]

\* A conservative check: tolerations are not looked at.
NodeFindings(w) ==
  LET head == Headroom(w.nodes, Unset)
  IN  IF "nodes" \in w.unread THEN <<>>
      ELSE IF head.open = {} THEN <<Finding("no-nodes", "high", "scheduling", 0)>>
      ELSE If(head.tainted = head.total, Finding("all-nodes-tainted", "high", "scheduling", head.total))

WantsScaleOut(w) == w.desired > w.current
\* Mutant: pods that are pending are blamed on readiness, too.
ReadinessFindings(w) ==
  If(PodsSeen(w) /\ w.ready < w.desired /\ PendingPods(w) = <<>>,
     Finding("readiness-stalled", "medium", "readiness", w.desired - w.ready))

BySeverity(rows) ==
  SelectSeq(rows, LAMBDA f : f.severity = "high") \o SelectSeq(rows, LAMBDA f : f.severity = "medium")
  \o SelectSeq(rows, LAMBDA f : f.severity = "info")

Findings(w) ==
  BySeverity(If(WantsScaleOut(w), Finding("scale-out-desired", "high", "scaling", w.desired))
             \o SchedulingFindings(w) \o ContainerFailures(w) \o QuotaFindings(w)
             \o ReadinessFindings(w) \o NodeFindings(w)
             \o <<Finding("metrics-healthy", "info", "info", IF w.active THEN 0 ELSE 1)>>)

BlockersWarn(w) ==
  (IF TargetSeen(w) THEN {"selector"} \cap w.unread ELSE {"target"})
  \cup (IF TargetSeen(w) /\ "selector" \notin w.unread THEN {"pods", "events"} \cap w.unread ELSE {})
  \cup ({"quotas", "nodes"} \cap w.unread)

BlockerSummary(w) ==
  IF ~WantsScaleOut(w) THEN IF \A f \in Range(Findings(w)) : f.severity = "info" THEN "no blockers" ELSE "some issues"
  ELSE IF ~TargetSeen(w) THEN "readiness not observed"
  ELSE IF w.ready >= w.desired THEN "in progress" ELSE "not ready"

BlockerInterpretation(w) ==
  LET found == {f.category : f \in Range(Findings(w))}
  IN  IF ~WantsScaleOut(w) THEN <<"not requested">>
      ELSE <<IF PodsSeen(w) THEN "controller works" ELSE "observations incomplete">>
           \o If("application" \in found, "application")
           \o If({"scheduling", "quota"} \cap found # {},
                 IF {"scheduling", "quota"} \subseteq found THEN "capacity and quota"
                 ELSE IF "scheduling" \in found THEN "capacity" ELSE "quota")
           \o If("readiness" \in found, "readiness")
           \o If(found \subseteq {"info"}, "none")

\* Capacity context of status.
CapacityHints(w) ==
  IF {"target", "selector"} \cap w.unread # {} \/ w.kind = "Other" THEN {}
  ELSE {h \in {"unschedulable", "quota"} : IF h = "quota" THEN Tight(w) # <<>> ELSE Unplaced(w) > 0}

------------------------------------------------------------------------------
(* Rollout. *)

\* A Deployment is judged by its availability and generation, a StatefulSet by its
\* ready pods.
RolloutInProgress(w) ==
  \/ w.updated < w.spec
  \/ w.kind = "Deployment" /\ (w.available < w.spec \/ w.unavailable > 0 \/ w.lagging)
  \/ w.kind = "StatefulSet" /\ w.ready < w.spec

PodIssues(w) ==
  LET of(p) == [waits |-> SelectSeq(p.inits \o p.waits, LAMBDA r : FailureOf(r) # ""), phase |-> p.phase]
      rows(p) == [i \in DOMAIN of(p).waits |-> "high"] \o If(p.phase = "Pending", "medium")
  IN  FlattenSeq([i \in DOMAIN SeenPods(w) |-> rows(SeenPods(w)[i])])

\* What status shows of the rollout; nothing when the target was not observed.
RolloutDiagnosis(w) ==
  IF ~TargetSeen(w) THEN Unset
  ELSE [inProgress |-> RolloutInProgress(w), desired |-> w.spec, updated |-> w.updated,
        unavailable |-> w.unavailable, issues |-> PodIssues(w)]

\* The first active ReplicaSet of the Deployment that has a revision, in the order
\* they are listed; the template's containers if there is none or they are not read.
NewContainers(w) ==
  LET live == SelectSeq(w.sets, LAMBDA s : s.owned /\ s.replicas > 0 /\ s.revision # Unset)
  IN  IF w.kind = "Deployment" /\ "sets" \notin w.unread /\ live # <<>> THEN live[1].names
      ELSE {c.name : c \in Range(w.template)}

\* "again" is the second read of the target, which may fail on its own.
RolloutReport(w) ==
  LET again   == TargetSeen(w) /\ "again" \notin w.unread
      measured == IF TargetSeen(w) THEN w.measured ELSE <<>>
      missing == SelectSeq(measured, LAMBDA n : n \notin (IF again THEN NewContainers(w) ELSE {}))
      main    == IF TargetSeen(w) /\ w.template # <<>> THEN w.template[1] ELSE [startup |-> Unset, readiness |-> Unset]
      moving  == again /\ RolloutInProgress(w)
      issues  == IF RolloutDiagnosis(w) = Unset THEN <<>> ELSE RolloutDiagnosis(w).issues
      rows    == [i \in DOMAIN missing |-> "high"] \o issues
      risks   == SelectSeq(rows, LAMBDA r : r = "high") \o SelectSeq(rows, LAMBDA r : r = "medium")
      failed  == {c \in {"probe", "readiness", "metric", "progress"} :
                    CASE c = "probe"     -> main.startup = Unset
                      [] c = "readiness" -> IF main.readiness = Unset THEN TRUE ELSE main.readiness < 5
                      [] c = "metric"    -> missing # <<>>
                      [] c = "progress"  -> moving}
  IN  [inProgress |-> moving, failed |-> failed, risks |-> risks, missing |-> missing,
       warned  |-> TargetSeen(w) /\ ~again,
       summary |-> IF failed # {} THEN "failed" ELSE "no risks detected",
       advice  |-> IF risks = <<>> /\ ~moving THEN {"unaffected"}
                   ELSE LET parts == (IF moving THEN {"in progress"} ELSE {})
                                     \cup (IF missing # <<>> THEN {"mismatch"} ELSE {})
                                     \cup (IF main.startup = Unset THEN {"startupProbe"} ELSE {})
                                     \cup (IF main.readiness = Unset THEN {"readinessProbe"} ELSE {})
                        IN  IF parts = {} THEN {"monitor"} ELSE parts,
       actions |-> If(moving, "rollout status") \o <<"get pods">>
                   \o (IF issues # <<>> THEN <<"describe pods", "logs">> ELSE <<>>)
                   \o If(main.startup = Unset, "describe probes")]

------------------------------------------------------------------------------
(* Readiness. *)

InitWindow == 300
Age(p) == IF p.age = Unset THEN 0 ELSE p.age

\* The doctor stops without its target, selector and pods; metrics it cannot read
\* count as present.
DoctorRuns(w) == PodsSeen(w)
Doctor(w) ==
  LET young    == SelectSeq(w.pods, LAMBDA p : Age(p) < InitWindow)
      notReady == Count(w.pods, LAMBDA p : ~p.ready)
      missing  == IF "metrics" \in w.unread THEN 0 ELSE Count(w.pods, LAMBDA p : ~p.metered)
      has(probe) == \E c \in Range(w.template) : c[probe] # Unset
      delay    == Max({0} \cup {c.readiness : c \in {x \in Range(w.template) : x.readiness # Unset}})
      issues   == {i \in {"no readiness", "no startup", "slow readiness"} :
                     CASE i = "no readiness" -> ~has("readiness")
                       [] i = "no startup" -> ~has("startup")
                       [] i = "slow readiness" -> delay > 60}
  IN  [total |-> Len(w.pods), young |-> Len(young), mature |-> Len(w.pods) - Len(young),
       readyYoung |-> Count(young, LAMBDA p : p.ready), notReadyYoung |-> Count(young, LAMBDA p : ~p.ready),
       notReady |-> notReady, missing |-> missing, excluded |-> notReady + missing, issues |-> issues,
       likely |-> young # <<>> \/ notReady > 0 \/ issues \cap {"no readiness", "no startup"} # {},
       recommend |-> {r \in {"startup", "readiness", "reduce delay", "slow down", "delay readiness"} :
                        CASE r = "startup" -> "no startup" \in issues /\ young # <<>>
                          [] r = "readiness" -> "no readiness" \in issues
                          [] r = "reduce delay" -> "slow readiness" \in issues
                          [] r = "slow down" -> Len(young) > Len(w.pods) \div 2
                          [] r = "delay readiness" -> notReady > 0 /\ young # <<>>}]

\* Status counts unready pods only while they are young, and no completed pod.
Impact(w) ==
  LET starting == Count(SeenPods(w), LAMBDA p : ~p.ready /\ Age(p) <= InitWindow)
      missing  == IF "metrics" \in w.unread THEN 0
                  ELSE Count(SeenPods(w), LAMBDA p : p.phase \notin {"Succeeded", "Failed"} /\ ~p.metered)
  IN  [total |-> Len(SeenPods(w)), starting |-> starting, missing |-> missing, likely |-> starting > 0 \/ missing > 0]

------------------------------------------------------------------------------
(* Warm-up. *)

Sorted(times) == SortSeq(times, <)
TimeToReady(pods) ==
  LET ran   == SelectSeq(pods, LAMBDA p : p.ready /\ p.took > 0)
      times == Sorted([i \in DOMAIN ran |-> ran[i].took])
      n     == Len(times)
  IN  IF n = 0 THEN [avg |-> 0, p95 |-> 0, max |-> 0]
      ELSE [avg |-> FoldLeft(+, 0, times) \div n, p95 |-> times[(95 * n + 99) \div 100], max |-> times[n]]

\* The first container of a pod stands for it.
PodState(p) ==
  LET reason == IF p.waits = <<>> THEN "" ELSE p.waits[1]
  IN  IF reason \in ImageReasons THEN "image_pull"
      ELSE IF reason = "CrashLoopBackOff" THEN "container_crash"
      ELSE IF p.state = "" THEN "scheduling"
      ELSE IF p.state = "running" THEN "running"
      ELSE IF p.state = "terminated" \/ p.restarts > 3 THEN "container_crash" ELSE "unknown"

WarmingUp(w) ==
  /\ w.desired > w.min
  /\ Count(w.pods, LAMBDA p : p.ready) < w.desired
  /\ w.pods # <<>>

Warmup(w) ==
  LET in(state) == Count(w.pods, LAMBDA p : ~p.ready /\ PodState(p) = state)
      has(probe) == \E c \in Range(w.template) : c[probe] # Unset
      started == Max({0} \cup {c.startup : c \in {x \in Range(w.template) : x.startup # Unset}})
      early   == Count(w.pods, LAMBDA p : ~p.ready /\ p.state = "running" /\ Age(p) < started)
      row(type, n, cond) == If(cond /\ n > 0, [type |-> type, n |-> n])
      rows == If(~w.active, [type |-> "metrics_inactive", n |-> 0])
              \o row(IF has("readiness") THEN "readiness_probe" ELSE "unknown", in("running"), TRUE)
              \o row("startup_probe", early, has("startup") /\ in("running") > 0)
              \o row("image_pull", in("image_pull"), TRUE) \o row("scheduling", in("scheduling"), TRUE)
              \o row("container_crash", in("container_crash"), TRUE) \o row("unknown", in("unknown"), TRUE)
      types == {r.type : r \in Range(rows)}
  IN  [rows |-> rows, times |-> TimeToReady(w.pods), missing |-> w.desired - Count(w.pods, LAMBDA p : p.ready),
       actions |-> (types \ {"unknown"}) \cup (IF has("readiness") THEN {"prewarm"} ELSE {})
                   \cup (IF w.limited THEN {"scale_limit"} ELSE {})]
=============================================================================
