-------------------------------- MODULE MCRules --------------------------------
(* Instances of the rule checks for TLC. *)
EXTENDS ProjectionChecks, DiagnosisChecks, TrendChecks, PlanningChecks, RuleSetChecks, AutoscalerChecks, SettingChecks

(* HPAs *)

Rule(select, policies, window) ==
  [select |-> select, policies |-> policies, tolerance |-> Unset, window |-> window]
Pods(n, period)    == [type |-> "Pods", value |-> n, period |-> period]
Percent(n, period) == [type |-> "Percent", value |-> n, period |-> period]

Metric(id, type, name, kind, target) ==
  [id |-> id, type |-> type, name |-> name, kind |-> kind, target |-> target]
Reading(id, kind, value) ==
  [id |-> id, type |-> CASE id = 1 -> "Resource" [] id = 2 -> "External" [] OTHER -> "Pods",
   values |-> (kind :> value)]
Cpu == Metric(1, "Resource", "cpu", "Utilization", 50)
Queue == Metric(2, "External", "queue", "Value", 4000)
Hits  == Metric(3, "Pods", "hits", "AverageValue", 2000)

Hpa(min, max, current, desired) ==
  [min |-> min, max |-> max, current |-> current, desired |-> desired, metrics |-> <<Cpu>>,
   readings |-> <<Reading(1, "Utilization", 50)>>, up |-> Unset, down |-> Unset,
   behavior |-> FALSE, conds |-> <<>>, behind |-> 0, keda |-> FALSE, target |-> TRUE]
Behaving(h, up, down) == [h EXCEPT !.behavior = TRUE, !.up = up, !.down = down]

MCRollouts ==
  {Behaving(Hpa(1, 40, c, d), Rule(s, ps, w), Rule(s, ps, w)) :
     <<c, d>> \in {<<2, 30>>, <<30, 2>>, <<3, 5>>, <<5, 3>>, <<4, 4>>, <<0, 3>>},
     s \in {"Max", "Min", Unset, "Disabled"},
     ps \in {<<>>, <<Pods(4, 60), Percent(100, 90)>>, <<Percent(10, 30)>>, <<Percent(50, 60), Pods(2, 40)>>, <<Pods(1, 0), Pods(3, 15)>>},
     w \in {Unset, 20}}
  \cup {Hpa(1, 40, 2, 30)}

MCScenarios ==
  LET full(h) == [h EXCEPT !.metrics = <<Cpu, Queue>>,
                    !.readings = <<Reading(2, "Value", 4000), Reading(1, "Utilization", 80)>>]
      partial(h) == [h EXCEPT !.metrics = <<Cpu, Hits>>]
      twins(h) == [h EXCEPT !.metrics = <<Cpu, [Cpu EXCEPT !.id = 9, !.target = 80], Queue>>]
      base == {Hpa(2, 8, c, d) : <<c, d>> \in {<<4, 4>>, <<8, 8>>, <<2, 3>>, <<9, 9>>}}
      slow == Rule(Unset, <<Pods(1, 60)>>, 120)
      both(h) == {h, Behaving(h, Unset, slow), Behaving(h, Rule("Min", Unset, Unset), Rule("Min", <<Percent(50, 60), Pods(1, 60)>>, 0))}
      zero == [full(Hpa(0, 8, 0, 0)) EXCEPT !.conds = ("ScaledToZero" :> [status |-> "True", reason |-> "ScaledToZero"])]
  IN  UNION {both(full(h)) \cup both(partial(h)) : h \in base}
        \cup {twins(Hpa(2, 8, 4, 4)), zero, [zero EXCEPT !.conds = <<>>]}

At(field) == [field |-> field, name |-> Unset]
MCEdits == {<<At("maxReplicas"), 6>>, <<At("minReplicas"), 3>>, <<At("minReplicas"), 7>>,
            <<[field |-> "metric", name |-> "cpu"], 80>>, <<[field |-> "metric", name |-> "queue"], 2000>>,
            <<At("targetAverageUtilization"), 30>>, <<At("tolerance"), 20>>, <<At("scaleUp.tolerance"), 0>>,
            <<At("scaleDown.tolerance"), 50>>, <<At("scaleDown.selectPolicy"), "Disabled">>,
            <<At("scaleUp.selectPolicy"), "Min">>, <<At("scaleUp.policies"), 1>>}
MCReadings == {<<"cpu", [relative |-> FALSE, amount |-> 90]>>, <<"cpu", [relative |-> TRUE, amount |-> -50]>>,
               <<"queue", [relative |-> TRUE, amount |-> 50]>>, <<"queue", [relative |-> FALSE, amount |-> 1000]>>,
               <<"hits", [relative |-> FALSE, amount |-> 5000]>>}
MCDurations == {<<300, 30>>, <<100, 30>>, <<20, 30>>, <<240, 120>>}

(* Health and advice. *)

Cond(status, reason) == [status |-> status, reason |-> reason]
Active   == "ScalingActive" :> Cond("True", "ValidMetricFound")
Broken   == "ScalingActive" :> Cond("False", "FailedGetExternalMetric")
Able     == "AbleToScale" :> Cond("True", "ReadyForNewScale")
Held     == "AbleToScale" :> Cond("True", "ScaleDownStabilized")
Tolerant == "AbleToScale" :> Cond("True", "DesiredWithinTolerance")
Stuck    == "AbleToScale" :> Cond("False", "FailedGetScale")
Capped   == "ScalingLimited" :> Cond("True", "TooManyReplicas")
Free     == "ScalingLimited" :> Cond("False", "DesiredWithinRange")
MCConditions == {<<>>} \cup {a @@ b @@ c : a \in {Active, Broken}, b \in {Able, Held, Tolerant, Stuck}, c \in {Capped, Free}}

MCPatients == {[Hpa(2, 8, c, d) EXCEPT !.conds = k, !.readings = <<Reading(1, "Utilization", u)>>] :
                 <<c, d>> \in {<<8, 8>>, <<2, 2>>, <<4, 6>>}, k \in MCConditions, u \in {40, 90}}
MCWeights == {<<>>, "limited" :> 90, ("churn" :> 60) @@ ("inactive" :> 0)}

MCAdvised ==
  LET readings == {<<>>, <<Reading(1, "Utilization", 52)>>, <<Reading(1, "Utilization", 55)>>,
                   <<Reading(1, "Utilization", 30)>>, <<Reading(1, "Utilization", 90), Reading(2, "Value", 2000)>>,
                   <<Reading(1, "Utilization", 54), Reading(2, "Value", 4000)>>,
                   <<Reading(2, "Value", 9000), Reading(1, "Utilization", 20)>>}
      bounds == {<<2, 8, 4, 4>>, <<2, 8, 8, 8>>, <<3, 8, 3, 3>>, <<2, 8, 4, 6>>, <<2, 8, 5, 2>>,
                 <<0, 8, 0, 0>>, <<0, 8, 2, 0>>, <<1, 150, 150, 150>>, <<5, 200, 150, 200>>}
      windows == {Unset, Rule(Unset, Unset, 600), Rule("Disabled", <<>>, 120), Rule("Max", <<Pods(1, 60)>>, 61)}
      hpa(b, r, k, down) ==
        LET h == [Hpa(b[1], b[2], b[3], b[4]) EXCEPT !.metrics = <<Cpu, Queue>>, !.readings = r, !.conds = k]
        IN  IF down = Unset THEN h ELSE Behaving(h, Unset, down)
  IN  {hpa(b, r, k, down) : b \in bounds, r \in readings, k \in MCConditions, down \in windows}
        \cup {[hpa(<<2, 8, 4, 4>>, <<>>, k, Unset) EXCEPT !.metrics = <<Queue>>, !.keda = TRUE] : k \in MCConditions}

MCAssuming == {Hpa(1, 8, 2, 2), Behaving(Hpa(1, 8, 2, 2), Rule(Unset, Unset, 0), Unset),
               Behaving(Hpa(1, 8, 2, 2), Unset, [Rule(Unset, Unset, 60) EXCEPT !.tolerance = 5])}

(* Histories. *)

MCUnstable ==
  LET of(downs, sizes, gaps, length) ==
        {[down |-> d, sizes |-> sizes, gaps |-> gaps, length |-> length] : d \in downs}
      short    == Rule("Max", <<Percent(100, 15)>>, 60)
      disabled == Rule("Disabled", <<Percent(10, 60)>>, 0)
      long     == Rule("Max", <<Percent(100, 15)>>, 1800)
      longest  == Rule("Min", <<Percent(100, 15)>>, 3600)
  IN  of({Unset, short, disabled, long, longest}, {2, 5}, {60}, 9)
        \cup of({Unset, short}, {2, 3, 8}, {0, 250, 3600}, 4)
        \cup of({Unset, disabled, longest}, {2, 8}, {400, 4000}, 5)
        \cup of({Unset}, {2, 3, Unset}, {0, 300}, 4)

MCTrendGaps == {12, -3}

Reads(minute, desired) == [minute |-> minute, desired |-> desired, metrics |-> <<>>]
Metered(minute, desired, m) == [minute |-> minute, desired |-> desired, metrics |-> (1 :> m)]
MCDayPatterns ==
  {<<Reads(60, 2), Reads(500, 2), Reads(1000, 2)>>,
   <<Reads(60, 2), Reads(500, 8), Reads(700, 6), Reads(1000, 3)>>,
   <<Reads(60, 9), Reads(300, 2), Reads(500, 2), Reads(700, 2), Reads(1000, 2), Reads(1300, 8)>>,
   <<Reads(1000, 7)>>,
   <<Metered(60, 2, 10), Metered(500, 2, 80), Metered(1000, 3, 12)>>}
MCSeasonOptions ==
  {[bucket |-> b, minDays |-> 0, lead |-> l, ratio |-> 150, signal |-> s] :
     <<b, l, s>> \in {<<480, 15, "auto">>, <<480, 2000, "replicas">>, <<240, 600, "auto">>, <<480, 15, "metric">>}}

(* Clusters and workloads. *)

Asks(cpu, memory) == ("cpu" :> cpu) @@ ("memory" :> memory)
Container(role, requests, limits) == [role |-> role, requests |-> requests, limits |-> limits]
Pod(containers) == [containers |-> containers, level |-> Unset, overhead |-> <<>>, tolerates |-> {},
                    pool |-> Unset, constrained |-> FALSE]
Plain == Pod(<<Container("main", Asks(2, 1), <<>>)>>)
MCPods ==
  {Plain, Pod(<<Container("main", Asks(1, 1), <<>>)>>), [Plain EXCEPT !.tolerates = {"gpu"}], [Plain EXCEPT !.pool = "a"],
   [Plain EXCEPT !.constrained = TRUE],
   Pod(<<Container("init", Asks(3, 1), <<>>), Container("sidecar", Asks(1, 0), Asks(2, 1)), Container("init", Asks(1, 1), <<>>),
         Container("main", <<>>, Asks(1, 2))>>),
   [Plain EXCEPT !.level = [requests |-> <<>>, limits |-> Asks(3, 2)], !.overhead = ("cpu" :> 1)],
   Pod(<<Container("main", "cpu" :> 1, <<>>)>>), Pod(<<>>)}

Node(cpu, memory, slots, used) ==
  [ready |-> TRUE, cordoned |-> FALSE, taints |-> {}, pool |-> "a", evictable |-> FALSE,
   alloc |-> IF slots = Unset THEN Asks(cpu, memory) ELSE Asks(cpu, memory) @@ ("pods" :> slots),
   used |-> Asks(used, used) @@ ("pods" :> used)]
Nodes(cpu, slots) == <<Node(cpu, 6, slots, 1), Node(4, 9, 4, 0)>>
MCNodes ==
  {Nodes(5, 4), Nodes(6, Unset), Nodes(4, 2), <<Node(3, 6, 4, 0), Node(3, 6, 4, 0), Node(3, 6, 4, 0)>>,
   <<[Node(9, 9, 9, 0) EXCEPT !.taints = {"gpu"}]>>, <<[Node(9, 9, 9, 0) EXCEPT !.cordoned = TRUE, !.evictable = TRUE]>>,
   <<[Node(9, 9, 9, 0) EXCEPT !.pool = "b"], Node(2, 9, 9, 0)>>, <<>>}
Quota(resource, hard, used, scoped) == [resource |-> resource, hard |-> hard, used |-> used, scoped |-> scoped]
MCQuotas ==
  {<<>>, <<Quota("cpu", 10, 2, FALSE), Quota("pods", 6, 2, FALSE)>>, <<Quota("memory", 4, 2, FALSE)>>,
   <<Quota("limits.cpu", 9, 2, FALSE)>>, <<Quota("limits.memory", 6, Unset, FALSE)>>, <<Quota("cpu", 9, 2, TRUE)>>,
   <<Quota("services", 1, 1, FALSE)>>}
Limit(type, resource, min, max, default, defaultRequest, ratio) ==
  [type |-> type, resource |-> resource, min |-> min, max |-> max, default |-> default,
   defaultRequest |-> defaultRequest, ratio |-> ratio]
MCLimits ==
  {<<>>, <<Limit("Container", "cpu", 1, Unset, Unset, 1, Unset)>>, <<Limit("Pod", "cpu", Unset, 2, Unset, Unset, Unset)>>,
   <<Limit("Container", "memory", Unset, Unset, 2, Unset, 2), Limit("Pod", "memory", 2, 4, Unset, Unset, Unset)>>}

Waits(pending, unschedulable) == [phase |-> IF pending THEN "Pending" ELSE "Running", pending |-> pending, unschedulable |-> unschedulable]
Cluster(pod, nodes, quotas, limits, target) ==
  [current |-> 2, max |-> 2, target |-> target, pod |-> pod, nodes |-> nodes, quotas |-> quotas, limits |-> limits,
   pods |-> <<Waits(FALSE, FALSE)>>, scaler |-> FALSE, unread |-> {}]
MCClusters ==
  {Cluster(p, n, q, <<>>, t) : p \in MCPods, n \in MCNodes, q \in MCQuotas, t \in {0, 5}}
  \cup {Cluster(p, Nodes(6, 4), <<>>, l, 4) : p \in MCPods, l \in MCLimits}
  \cup {[Cluster(Plain, n, <<>>, <<>>, t) EXCEPT !.scaler = TRUE, !.pods = <<Waits(TRUE, u)>>] :
           n \in MCNodes, t \in {2, 4}, u \in BOOLEAN}
  \cup {[Cluster(p, Nodes(6, 4), <<>>, <<>>, t) EXCEPT !.current = c, !.max = m] :
           p \in {Plain, Unset}, <<c, m, t>> \in {<<0, 0, 0>>, <<3, 2, 4>>, <<7, 150, 0>>, <<7, 240, 0>>, <<7, 250, 0>>, <<4, 2, 3>>}}

MCPodKinds ==
  LET pod == [phase |-> "Running", ready |-> TRUE, unschedulable |-> FALSE, age |-> 900, took |-> 20, inits |-> <<>>,
              waits |-> <<"">>, state |-> "running", restarts |-> 0, metered |-> TRUE, events |-> 0]
      failing(reason) == [pod EXCEPT !.ready = FALSE, !.waits = <<reason, "">>, !.state = "waiting", !.metered = FALSE]
  IN  {pod, [pod EXCEPT !.took = 90], failing("ErrImagePull"), failing("CrashLoopBackOff"),
       [failing("CrashLoopBackOff") EXCEPT !.waits = <<"CrashLoopBackOff", "ImagePullBackOff">>],
       [failing("ContainerCreating") EXCEPT !.phase = "Pending", !.age = 10],
       [failing("") EXCEPT !.phase = "Pending", !.unschedulable = TRUE, !.age = Unset, !.waits = <<>>, !.state = "", !.events = 1],
       [failing("") EXCEPT !.state = "running", !.age = 300], [failing("") EXCEPT !.state = "terminated", !.phase = "Succeeded"],
       [failing("") EXCEPT !.inits = <<"CrashLoopBackOff">>, !.phase = "Pending"]}
Probed(name, startup, readiness) == [name |-> name, startup |-> startup, readiness |-> readiness]
Stalled ==
  [min |-> 1, current |-> 2, desired |-> 4, active |-> TRUE, limited |-> FALSE, kind |-> "Deployment",
   spec |-> 4, updated |-> 4, ready |-> 2, available |-> 2, unavailable |-> 0, lagging |-> FALSE,
   template |-> <<Probed("app", 30, 10)>>, measured |-> <<>>, pods |-> <<>>, quotas |-> <<>>,
   sets |-> <<[owned |-> TRUE, replicas |-> 4, revision |-> 2, names |-> {"app"}]>>,
   nodes |-> Nodes(5, 4), unread |-> {}]
MCWorkloads ==
  LET settled == [Stalled EXCEPT !.current = 4, !.ready = 4, !.available = 4]
      full == [Stalled EXCEPT !.quotas = <<[used |-> 79, hard |-> 100], [used |-> 24, hard |-> 25], [used |-> 8, hard |-> 10],
                                          [used |-> 1, hard |-> 0]>>, !.active = FALSE, !.limited = TRUE]
      bare == [Stalled EXCEPT !.template = <<Probed("app", Unset, 61), Probed("log", Unset, Unset)>>, !.measured = <<"app", "web">>]
      rolling == [Stalled EXCEPT !.updated = 2, !.measured = <<"app">>]
      stateful == [Stalled EXCEPT !.kind = "StatefulSet", !.template = <<Probed("db", Unset, Unset)>>, !.measured = <<"db">>, !.sets = <<>>]
  IN  {Stalled, settled, full, bare, rolling, stateful, [Stalled EXCEPT !.kind = "Other"], [stateful EXCEPT !.nodes = <<>>],
       [settled EXCEPT !.nodes = <<[Node(9, 9, 9, 0) EXCEPT !.taints = {"gpu"}]>>, !.lagging = TRUE]}
      \cup {[Stalled EXCEPT !.unread = {u}] : u \in {"target", "selector", "pods", "events", "quotas", "nodes", "again", "metrics", "sets"}}


(* Rule sets. *)

MCRuledHpas ==
  LET rules(tolerance, window, policies) == [select |-> Unset, policies |-> policies, tolerance |-> tolerance, window |-> window]
      util(type, name, target) == [id |-> 1, type |-> type, name |-> name, kind |-> "Utilization", target |-> target]
      base == [min |-> 2, max |-> 8, current |-> 4, labels |-> {"prod"}, metrics |-> <<Cpu, Queue>>,
               behavior |-> FALSE, up |-> Unset, down |-> Unset, keda |-> FALSE]
      ranges == {[base EXCEPT !.min = r[1], !.max = r[2], !.current = r[3]] :
                   r \in {<<Unset, 8, 0>>, <<0, 8, 4>>, <<1, 10, 7>>, <<2, 21, 2>>, <<2, 22, 9>>, <<5, 5, 5>>, <<9, 8, 8>>, <<Unset, 0, 0>>}}
      metered == {[base EXCEPT !.metrics = m] :
                    m \in {<<>>, <<Queue>>, <<util("Resource", "cpu", 91)>>, <<util("Resource", "cpu", 90), util("Resource", "memory", 19)>>,
                            <<util("Resource", "cpu", 95), Queue, util("Resource", "memory", 95)>>,
                            <<util("ContainerResource", "cpu", 95), Hits>>, <<util("Resource", "memory", 29)>>}}
      behaving == {[base EXCEPT !.behavior = TRUE, !.up = u, !.down = d] :
                     u \in {Unset, rules(0, 150, <<>>), rules(20, Unset, <<Pods(4, 60)>>)},
                     d \in {Unset, rules(Unset, Unset, <<>>), rules(0, 901, <<Pods(1, 60)>>), rules(30, 601, Unset), rules(10, 120, <<Percent(10, 30)>>)}}
  IN  ranges \cup metered \cup behaving \cup {[base EXCEPT !.keda = TRUE]}
PolicyRule(id, severity, params, short) ==
  [id |-> id, type |-> "replica-range", name |-> "", severity |-> severity, enabled |-> Unset, params |-> params, short |-> short]
MCPolicyRules ==
  {PolicyRule("replica-range", "critical", <<>>, "maxRatio" :> 4), PolicyRule("", "", "maxRatio" :> <<"text", 0>>, <<>>),
   PolicyRule("stabilizationWindowSeconds", "critical", Sets!Ints("min", 250, "max", 900), <<>>),
   PolicyRule("stabilization-window", "", Sets!Ints("min", 900, "max", 250), <<>>),
   PolicyRule("max_replicas", "", <<>>, "maxMultiplierFromCurrent" :> 1), PolicyRule("max_replicas", "critical", "ratio" :> <<"int", 2>>, <<>>),
   PolicyRule("max-replicas-from-current", "", <<>>, <<>>), PolicyRule("behavior-policy-required", "critical", "requireScaleUp" :> <<"bool", FALSE>>, <<>>),
   PolicyRule("metric-coverage", "", "minMetrics" :> <<"int", 2>>, <<>>), PolicyRule("target-utilization-range", "critical", <<>>, "max" :> 80),
   PolicyRule("house-rule", "critical", <<>>, <<>>), [PolicyRule("replica-range", "critical", <<>>, "maxRatio" :> 1) EXCEPT !.enabled = FALSE]}
MCPolicyParts == {Unset, {"prod"}, {"test"}}
MCManifests ==
  LET file(docs) == [readable |-> TRUE, splits |-> TRUE, docs |-> docs]
      doc(kind, h, target, replicas) == [kind |-> kind, hpa |-> h, target |-> target, replicas |-> replicas]
      some(p(_)) == CHOOSE h \in MCRuledHpas : p(h)
      fine  == doc("hpa", some(LAMBDA h : h.up # Unset /\ h.down # Unset /\ Sets!MissingPolicies(h, "down") = FALSE), "web", Unset)
      wrong == doc("hpa", some(LAMBDA h : h.min = 9), "api", Unset)
  IN  {file(<<fine>>), file(<<wrong, fine>>), file(<<doc("workload", Unset, "web", 3)>>), file(<<doc("workload", Unset, "web", Unset)>>),
       file(<<doc("other", Unset, Unset, Unset), doc("undecodable hpa", Unset, Unset, Unset)>>),
       [file(<<>>) EXCEPT !.readable = FALSE], [file(<<>>) EXCEPT !.splits = FALSE], file(<<>>)}

(* Other controllers. *)

MetricName(at, says) == [at |-> at, says |-> says]
Scaled(name, metrics, externals) ==
  [ns |-> "a", name |-> name, kind |-> "Deployment", target |-> "web", api |-> "apps/v1", metrics |-> metrics,
   externals |-> externals, min |-> 1, max |-> 8, window |-> 60, prefix |-> Unset,
   labels |-> [signals |-> {}, name |-> ""], annotations |-> [signals |-> {}, name |-> ""]]
Measures(type, name, container, kind) == [type |-> type, name |-> name, container |-> container, kind |-> kind]
CpuOf == <<Measures("Resource", "cpu", "", "Utilization")>>
MemoryOf == <<Measures("ContainerResource", "memory", "app", "Utilization"), Measures("Resource", "cpu", "", "AverageValue")>>
MCMoreHpas ==
  LET owned(h, name) == [h EXCEPT !.labels = [signals |-> {"keda.sh"}, name |-> name]]
      web == Scaled("web", CpuOf, {MetricName(0, {"kafka"}), MetricName(7, {"orders", "cron"})})
  IN  {owned(web, "so"), [owned(web, "so") EXCEPT !.name = "twin", !.target = "api"],
       [Scaled("keda-hpa-so", MemoryOf, {MetricName(1, {"cron"})}) EXCEPT !.prefix = "so", !.api = ""],
       [Scaled("app", MemoryOf, {}) EXCEPT !.annotations.signals = {"managed by keda-operator"}, !.ns = "b"],
       [Scaled("job", <<>>, {}) EXCEPT !.kind = "Rollout", !.api = "argoproj.io/v1", !.labels.signals = {"value"}]}
MCMoreVpas ==
  LET vpa(name, mode, policies) ==
        [ns |-> "a", name |-> name, kind |-> "Deployment", target |-> "web", api |-> "apps/v1", mode |-> mode,
         policies |-> policies, advised |-> {<<"app", "cpu">>, <<"log", "memory">>}]
      for(container, mode, resources) == [container |-> container, mode |-> mode, resources |-> resources]
  IN  {vpa("plain", "", <<>>), vpa("once", "Initial", <<for("*", "", {"memory"}), for("app", "Auto", {"cpu"})>>),
       vpa("split", "Auto", <<for("app", "Off", Unset), for("*", "", Unset)>>), vpa("off", "Off", <<>>),
       vpa("none", "Recreate", <<for("app", "", {}), for("log", "", {"cpu", "storage"})>>),
       [vpa("loose", "Auto", <<for("app", "Off", Unset)>>) EXCEPT !.target = "", !.kind = "", !.api = ""],
       [vpa("plain", "Auto", <<for("*", "", {"memory"})>>) EXCEPT !.ns = "b", !.target = "api"]}
MCMoreObjects ==
  LET object(name, target) ==
        [ns |-> "a", name |-> name, target |-> target, min |-> 0, max |-> 8, idle |-> Unset, polling |-> 30, fallback |-> Unset,
         triggers |-> <<[type |-> "kafka", name |-> "orders"], [type |-> "cron", name |-> ""]>>, active |-> ("orders" :> TRUE),
         metrics |-> {MetricName(0, {"kafka"}), MetricName(1, {"cron"})}, health |-> <<>>, conds |-> <<"True">>]
      web == <<"Deployment", "web">>
  IN  {object("so", web), [object("other", web) EXCEPT !.active = ("orders" :> FALSE), !.conds = <<"True", "False">>, !.idle = 0],
       [object("app", Unset) EXCEPT !.health = (MetricName(0, {"kafka"}) :> "Failing") @@ (MetricName(0, {"lag"}) :> "Happy"),
          !.fallback = <<3, Unset>>, !.min = 251, !.max = 4],
       [object("third", <<"Deployment", "api">>) EXCEPT !.health = (MetricName(1, {"cron"}) :> "Failing"), !.metrics = {}, !.min = 3, !.triggers = Append(@, [type |-> "cron", name |-> "night"])],
       [object("so", web) EXCEPT !.ns = "b", !.triggers = <<>>, !.conds = <<>>]}
MCRefusable == {<<"vpas", "a">>, <<"scaledobject", "a">>, <<"scaledobjects", "a">>, <<"scaledobjects", "b">>, <<"target", "a">>,
                <<"pods", "a">>, <<"nodes", "">>, <<"scaler", "">>, <<"karpenter", "">>, <<"quotas", "a">>, <<"pdbs", "b">>}
MCAutoscaled ==
  LET cluster == [active |-> TRUE, spec |-> 4, ready |-> 4, selector |-> TRUE, pods |-> <<"Running">>, nodes |-> 2, evictable |-> FALSE,
                  scaler |-> TRUE, karpenter |-> FALSE, pdbs |-> 0, quotas |-> <<>>]
      world == [hpas |-> <<>>, vpas |-> <<>>, objects |-> <<>>, asked |-> [keda |-> "auto", vpa |-> "on"],
                env |-> [cancelled |-> FALSE, discovery |-> TRUE, client |-> TRUE, crds |-> {"keda"}], cluster |-> cluster,
                owners |-> [replicas |-> 4, desired |-> 4,
                            fields |-> <<[manager |-> "argocd", operation |-> "Apply", replicas |-> TRUE], [manager |-> "my-hpa-operator", operation |-> "Update", replicas |-> TRUE]>>],
                unread |-> {}]
      stalled == [world EXCEPT !.cluster = [@ EXCEPT !.ready = 2, !.pods = <<"Running", "Pending">>, !.scaler = FALSE, !.karpenter = TRUE, !.quotas = <<69, 75, 90>>]]
      empty == [world EXCEPT !.cluster = [@ EXCEPT !.active = FALSE, !.nodes = 0, !.evictable = TRUE, !.scaler = FALSE, !.pdbs = 1, !.quotas = <<89>>, !.selector = FALSE],
                             !.owners = [replicas |-> 5, desired |-> 4, fields |-> <<>>], !.env.crds = {}]
  IN  {world, stalled, empty, [world EXCEPT !.asked = [keda |-> "1", vpa |-> "no"]], [world EXCEPT !.env.client = FALSE],
       [stalled EXCEPT !.env.discovery = FALSE, !.asked["keda"] = "off"], [world EXCEPT !.env.cancelled = TRUE, !.asked["vpa"] = "off"]}

(* Command lines and config files. *)

MCFileValues ==
  [namespace |-> {"a"}, allNamespaces |-> BOOLEAN, output |-> {"json", "junit", "Names"}, templates |-> {{"names"}, {"Names"}},
   filter |-> {"all"}, minScore |-> {0, 60}, maxScore |-> {40, 120}, healthScore |-> {90}, events |-> {0, 7},
   eventsEnabled |-> BOOLEAN, keda |-> {"off", "maybe"}, vpa |-> {"on"}, explainPods |-> BOOLEAN]
MCFlagValues ==
  [namespace |-> {"b"}, allNamespaces |-> {TRUE}, output |-> {"table", "wide", "names", "jsonpath"}, schema |-> {"v2"}, filter |-> {"issue", "all"},
   minScore |-> {70}, healthScore |-> {100, 101}, events |-> {"false", "true", "12"}, keda |-> {"off"}, vpa |-> {"off"},
   export |-> {"yaml", "directory"}, report |-> {"junit", "incident", "markdown"}]

RulesInit ==
  subject \in {Opened(t) : t \in {"rollout", "scenario", "health", "advice", "assumptions", "events", "scores", "recording",
                                 "cluster", "workload", "rules", "manifests", "autoscalers", "settings"}}
RulesNext == AutoscalerNext \/ ProjectionNext \/ DiagnosisNext \/ TrendNext \/ PlanningNext \/ RuleSetNext \/ SettingNext
RulesSpec == RulesInit /\ [][RulesNext]_subject
=============================================================================
