----------------------------- MODULE CapacityPlan -----------------------------
(* What the cluster has left for the scale target of an HPA, and whether raising
   maxReplicas is safe.  A cluster is a record:

     current, max, target  the HPA; target is the maxReplicas asked for, 0 for none
     pod      [containers, level, overhead, tolerates, pool, constrained], the
              template; a container is [role, requests, limits], its role main, init
              or sidecar; level holds the pod's own requests and limits, or is Unset
     nodes    sequence of [ready, cordoned, taints, pool, alloc, used, evictable]
     quotas   sequence of [resource, hard, used, scoped]
     limits   sequence of [type, resource, min, max, default, defaultRequest, ratio]
     pods     sequence of the target's pods, see ScaleOut
     scaler   whether the Cluster Autoscaler's deployment exists
     unread   what could not be read

   Amounts are integers; a quantity that is absent is Unset, or missing from its
   function.  Quantities that came from the API server parse.                  *)
EXTENDS Integers, Sequences, SequencesExt, FiniteSetsExt

CONSTANTS MaxReplicas32, Unset

Amount(list, r) == IF r \in DOMAIN list THEN list[r] ELSE 0
Total(f) == FoldFunction(+, 0, f)

------------------------------------------------------------------------------
(* What one pod takes. *)

\* The API server fills a request from its limit.
Materialized(c) ==
  [c EXCEPT !.requests = [r \in DOMAIN c.requests \cup DOMAIN c.limits |->
                            IF r \in DOMAIN c.requests THEN c.requests[r] ELSE c.limits[r]]]

\* Main containers and sidecars run together; each init container runs with the
\* sidecars before it.
ContainersTake(containers, side, r) ==
  LET with(S)   == Total([i \in S |-> Amount(containers[i][side], r)])
      of(role)  == {i \in DOMAIN containers : containers[i].role = role}
      started(i) == {j \in of("sidecar") : j < i} \cup {i}
  IN  Max({with(of("main") \cup of("sidecar"))} \cup {with(started(i)) : i \in of("init")})

\* The pod's own amounts replace those of its containers.
PodTakes(pod, side, r) ==
  LET taken == IF r \in DOMAIN pod.level[side] THEN pod.level[side][r] ELSE ContainersTake(pod.containers, side, r)
  IN  IF side = "limits" /\ taken = 0 THEN 0 ELSE taken + Amount(pod.overhead, r)

MaterializedPod(pod) ==
  LET made == [i \in DOMAIN pod.containers |-> Materialized(pod.containers[i])]
      taken(r) == ContainersTake(made, "requests", r)
      given  == pod.level.requests
      limits == pod.level.limits
      filled == DOMAIN given \cup DOMAIN limits \cup {r \in {"cpu", "memory"} : taken(r) > 0}
      level  == IF pod.level = Unset THEN [requests |-> <<>>, limits |-> <<>>]
                ELSE [limits |-> limits, requests |-> [r \in filled |->
                        IF r \in DOMAIN given THEN given[r] ELSE IF taken(r) > 0 THEN taken(r) ELSE limits[r]]]
  IN  [pod EXCEPT !.containers = made, !.level = level]

------------------------------------------------------------------------------
(* What the nodes have left. *)

Eligible(node, pod) ==
  /\ node.ready /\ ~node.cordoned
  /\ pod # Unset => pod.pool \in {Unset, node.pool}
  /\ node.taints \subseteq (IF pod = Unset THEN {} ELSE pod.tolerates)

Left(node, r)    == Amount(node.alloc, r) - node.used[r]
SlotsKnown(node) == "pods" \in DOMAIN node.alloc
Slots(node)      == IF SlotsKnown(node) THEN Left(node, "pods") ELSE 0

Headroom(nodes, pod) ==
  LET open == {i \in DOMAIN nodes : Eligible(nodes[i], pod)}
  IN  [total |-> Len(nodes), open |-> open,
       tainted |-> Cardinality({i \in DOMAIN nodes : nodes[i].taints # {}}),
       cpu |-> Total([i \in open |-> Left(nodes[i], "cpu")]),
       memory |-> Total([i \in open |-> Left(nodes[i], "memory")]),
       slots |-> Total([i \in open |-> Slots(nodes[i])]),
       slotsKnown |-> open # {} /\ \A i \in open : SlotsKnown(nodes[i])]

\* An autoscaler shows on a node, or as a deployment; "unknown" when that cannot be
\* told.
AutoscalerSeen(c) ==
  IF "nodes" \notin c.unread /\ \E i \in DOMAIN c.nodes : c.nodes[i].evictable THEN "yes"
  ELSE IF "scaler" \notin c.unread /\ c.scaler THEN "yes"
  ELSE IF {"nodes", "scaler"} \cap c.unread # {} THEN "unknown" ELSE "no"

\* How many such pods fit, at most an int32.
PodsFit(cpu, memory, take) ==
  LET fit(left, r) == IF take[r] = 0 THEN {} ELSE {Max({0, left}) \div take[r]}
  IN  Min({MaxReplicas32} \cup fit(cpu, "cpu") \cup fit(memory, "memory"))
NodeFit(node, take) ==
  LET fit == PodsFit(Left(node, "cpu"), Left(node, "memory"), take)
  IN  IF SlotsKnown(node) THEN Max({0, Min({fit, Slots(node)})}) ELSE fit

\* Without an eligible node the fit is that of no headroom: none, or any number of
\* pods that ask for nothing.
SchedulableNow(c, head, take) ==
  IF head.total = 0 THEN 0
  ELSE IF head.open # {} THEN Min({MaxReplicas32, Total([i \in head.open |-> NodeFit(c.nodes[i], take)])})
  ELSE PodsFit(0, 0, take)

------------------------------------------------------------------------------
(* The maximum to plan for. *)

Cap == 200
ComputedMax(max, current) ==
  LET next == Max({2 * max, current, max + 1})
  IN  IF max = MaxReplicas32 THEN max
      ELSE Min({MaxReplicas32, IF max < Cap THEN Min({next, Cap}) ELSE next})

TargetMax(c) == IF c.target = 0 THEN ComputedMax(c.max, c.current) ELSE c.target
TargetRefused(c) == TargetMax(c) <= c.max
AdditionalPods(c) == Max({0, TargetMax(c) - c.current})

------------------------------------------------------------------------------
(* What could not be observed, by domain. *)

TemplateRead(c) == "target" \notin c.unread /\ c.pod # Unset
Rows(c) == IF TemplateRead(c) THEN MaterializedPod(c.pod).containers ELSE <<>>

\* Defaults that admission would fill in cannot be projected.
DefaultsApply(c, lr) ==
  LET missing(side) == Rows(c) = <<>> \/ \E i \in DOMAIN Rows(c) : lr.resource \notin DOMAIN Rows(c)[i][side]
  IN  \/ lr.default # Unset /\ (lr.type # "Container" \/ missing("limits"))
      \/ lr.defaultRequest # Unset /\ (lr.type # "Container" \/ missing("requests"))

UnknownDomains(c) ==
  LET read(what) == what \notin c.unread
      holds == [d \in {"scale-target", "pod-resources", "pending-pods", "resource-quotas", "limit-ranges",
                       "limit-range-defaults", "node-capacity", "pdbs", "cluster-autoscaler", "plan-input"} |->
        CASE d = "scale-target"    -> ~read("target")
          [] d = "pod-resources"   -> read("target") /\ ~TemplateRead(c)
          [] d = "pending-pods"    -> read("target") /\ ~(read("selector") /\ read("pods"))
          [] d = "resource-quotas" -> ~read("quotas")
          [] d = "limit-ranges"    -> ~read("limits")
          [] d = "limit-range-defaults" -> read("limits") /\ \E lr \in Range(c.limits) : DefaultsApply(c, lr)
          [] d = "node-capacity"   -> ~read("nodes") \/ (TemplateRead(c) /\ c.pod.constrained)
          [] d = "pdbs"            -> ~read("pdbs")
          [] d = "cluster-autoscaler" -> AutoscalerSeen(c) = "unknown"
          [] d = "plan-input"      -> TargetRefused(c)]
  IN  {d \in DOMAIN holds : holds[d]}

------------------------------------------------------------------------------
(* Checks: [id, status, domain]. *)

Checked(id, passes) == [id |-> id, status |-> IF passes THEN "pass" ELSE "fail", domain |-> ""]
NotKnown(domain)    == [id |-> "observation", status |-> "unknown", domain |-> domain]

\* What a quota on the resource counts.
Counted(resource) ==
  CASE resource \in {"cpu", "memory"} -> [id |-> "quota-" \o resource, side |-> "requests", r |-> resource]
    [] resource = "limits.cpu"    -> [id |-> "quota-limits-cpu", side |-> "limits", r |-> "cpu"]
    [] resource = "limits.memory" -> [id |-> "quota-limits-memory", side |-> "limits", r |-> "memory"]
    [] resource = "pods" -> [id |-> "quota-pods", side |-> "pods", r |-> "pods"]
    [] OTHER -> [id |-> "", side |-> "", r |-> ""]

NamedByAll(pod, counted) ==
  \/ counted.side = "pods"
  \/ counted.r \in DOMAIN pod.level[counted.side]
  \/ /\ pod.containers # <<>>
     /\ \A i \in DOMAIN pod.containers : counted.r \in DOMAIN pod.containers[i][counted.side]

QuotaCheck(quota, pod, additional) ==
  LET counted == Counted(quota.resource)
      needed  == additional * (IF counted.side = "pods" THEN 1 ELSE PodTakes(pod, counted.side, counted.r))
  IN  IF quota.scoped \/ quota.hard = Unset THEN NotKnown("resource-quotas")
      ELSE IF additional > 0 /\ ~NamedByAll(pod, counted) THEN NotKnown("pod-resources")
      ELSE IF quota.used = Unset THEN NotKnown("resource-quotas")
      ELSE Checked(counted.id, quota.hard - quota.used >= needed)
QuotaChecks(quotas, pod, additional) ==
  LET known == {q \in Range(quotas) : Counted(q.resource).id # ""}
  IN  IF known = {} THEN {Checked("quota", TRUE)} ELSE {QuotaCheck(q, pod, additional) : q \in known}

OutOfBounds(lr, request, limit, limited) ==
  {Checked("limit-range-" \o bound, FALSE) : bound \in {b \in {"max", "min", "ratio"} :
     lr[b] # Unset /\ CASE b = "max"   -> ~limited \/ limit > lr.max \/ request > lr.max
                        [] b = "min"   -> request < lr.min
                        [] b = "ratio" -> ~limited \/ request = 0 \/ limit > lr.ratio * request}}
LimitRangeChecks(limits, pod) ==
  LET byContainer(lr) == UNION {OutOfBounds(lr, Amount(c.requests, lr.resource), Amount(c.limits, lr.resource),
                                            lr.resource \in DOMAIN c.limits) : c \in Range(pod.containers)}
      byPod(lr) == OutOfBounds(lr, PodTakes(pod, "requests", lr.resource), PodTakes(pod, "limits", lr.resource),
                               PodTakes(pod, "limits", lr.resource) > 0)
      found == UNION {IF lr.resource \notin {"cpu", "memory"} THEN {}
                      ELSE IF lr.type = "Container" THEN byContainer(lr) ELSE byPod(lr) : lr \in Range(limits)}
  IN  IF found = {} THEN {Checked("limit-range", TRUE)} ELSE found

NodeIds == {"node-cpu", "node-memory", "node-pods", "node-schedulable"}
\* Mutant: only the sums over all nodes are compared.
NodeChecksInSum(c, head, take, additional) ==
  IF head.open = {} THEN {Checked("node-schedulable", FALSE)}
  ELSE {Checked("node-cpu", head.cpu >= additional * take["cpu"]), Checked("node-memory", head.memory >= additional * take["memory"]),
        Checked("node-pods", ~head.slotsKnown \/ head.slots >= additional)}
NodeChecks(c, head, take, additional) ==
  LET fit == Total([i \in head.open |-> NodeFit(c.nodes[i], take)])
      enough(r) == additional * take[r] = 0 \/ head[r] >= additional * take[r]
  IN  IF head.open = {} THEN {Checked("node-schedulable", FALSE)}
      ELSE {Checked("node-cpu", enough("cpu")), Checked("node-memory", enough("memory"))}
           \cup (IF head.slotsKnown THEN {Checked("node-pods", head.slots >= additional)} ELSE {NotKnown("node-capacity")})
           \cup (IF additional > 0 THEN {Checked("node-schedulable", fit >= additional)} ELSE {})

PendingChecks(pods) == {Checked("pending-pods", \A p \in Range(pods) : ~(p.pending /\ p.unschedulable))}

Checks(c, unknown, pod, take, head) ==
  LET additional == AdditionalPods(c)
      sized == {"scale-target", "pod-resources"} \cap unknown = {}
      when(domains, checks) == IF domains \cap unknown = {} THEN checks ELSE {}
  IN  {NotKnown(d) : d \in unknown}
      \cup (IF ~sized THEN {} ELSE
              when({"resource-quotas"}, QuotaChecks(c.quotas, pod, additional))
              \cup when({"limit-ranges"}, LimitRangeChecks(c.limits, pod))
              \cup when({"node-capacity"}, NodeChecks(c, head, take, additional)))
      \cup when({"scale-target", "pending-pods"}, PendingChecks(c.pods))
      \cup when({"pdbs"}, {Checked("pdb", TRUE)})
      \cup (IF AutoscalerSeen(c) = "yes" THEN {Checked("cluster-autoscaler", TRUE)} ELSE {})

------------------------------------------------------------------------------
(* The plan. *)

Failing(checks) == {k.id : k \in {x \in checks : x.status = "fail"}}
NodeShortfall(checks) == Failing(checks) \cap NodeIds # {}

\* A disruption budget slows only scale-down; an autoscaler matters only when nodes
\* are short.
Blocks(check, checks) ==
  /\ check.status = "unknown"
  /\ check.domain # "pdbs"
  /\ check.domain = "cluster-autoscaler" => NodeShortfall(checks)

\* Checks whose failure has an action of its own.
Remedied == {"quota-cpu", "quota-memory", "quota-pods", "quota-limits-cpu", "quota-limits-memory",
             "limit-range-max", "limit-range-min", "node-schedulable", "node-pods", "pending-pods"}

Plan(c) ==
  LET unknown == UnknownDomains(c)
      pod     == IF TemplateRead(c) THEN MaterializedPod(c.pod) ELSE Unset
      take    == [r \in {"cpu", "memory"} |-> IF pod = Unset THEN 0 ELSE PodTakes(pod, "requests", r)]
      head    == Headroom(c.nodes, pod)
      checks  == Checks(c, unknown, pod, take, head)
      unsure  == \E k \in checks : Blocks(k, checks)
      failing == Failing(checks)
  IN  [target |-> TargetMax(c), additional |-> AdditionalPods(c), checks |-> checks,
       schedulable |-> IF {"scale-target", "pod-resources", "node-capacity"} \cap unknown # {} THEN 0
                       ELSE SchedulableNow(c, head, take),
       autoscale |-> NodeShortfall(checks),
       dryRun |-> "plan-input" \notin unknown,
       safe   |-> ~unsure /\ failing = {},
       actions |-> IF unsure THEN {"collect"}
                   ELSE IF failing = {} THEN {}
                   ELSE IF AutoscalerSeen(c) = "yes" /\ failing \subseteq NodeIds THEN {"monitor", "watch"}
                   ELSE IF failing \cap Remedied = {} THEN {"review"} ELSE failing \cap Remedied]

------------------------------------------------------------------------------
(* The headroom that status shows: every eligible node's, whatever the pod
   tolerates, for the replicas up to maxReplicas.                              *)

StatusHeadroom(c, desired) ==
  LET additional == Max({0, c.max - desired})
      head == Headroom(c.nodes, Unset)
      enough(r) == LET need == additional * PodTakes([c.pod EXCEPT !.level =
                         IF @ = Unset THEN [requests |-> <<>>, limits |-> <<>>] ELSE @], "requests", r)
                   IN  need = 0 \/ head[r] >= need
  IN  IF ~TemplateRead(c) THEN "none"
      ELSE IF "nodes" \in c.unread THEN "unknown"
      ELSE IF additional = 0 THEN "none needed"
      ELSE IF enough("cpu") /\ enough("memory") THEN "available" ELSE "low"
=============================================================================
