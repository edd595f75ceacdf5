------------------------------- MODULE Autoscalers -------------------------------
(* Who else scales a workload: vertical pod autoscalers, KEDA's ScaledObjects, other
   HPAs, the node autoscaler, and whoever owns spec.replicas.  A world is

     hpas      sequence of [ns, name, kind, target, api, metrics, externals, min, max,
               window, labels, annotations, prefix]; labels and annotations are
               [signals, name], name from scaledobject.keda.sh/name; prefix is what
               follows "keda-hpa-" in the HPA's name, or Unset
     metrics   sequence of [type, name, container, kind]; externals is the set of the
               External metrics' names, each [at, says]: KEDA's "s<at>-..." and the
               words in it
     vpas      sequence of [ns, name, kind, target, api, mode, policies, advised], with
               policies a sequence of [container, mode, resources] and advised a set of
               <<container, resource>>
     objects   sequence of ScaledObjects [ns, name, target, triggers, active, metrics,
               health, conds, min, max, idle, polling, fallback]
     asked     the --keda and --vpa modes: a function from the sources
     env       [cancelled, discovery, client, crds]
     cluster   [active, spec, ready, selector, pods, nodes, evictable, scaler, karpenter,
               pdbs, quotas]: what the map looks at besides
     owners    [replicas, desired, fields], the target's spec.replicas and managers
     unread    set of <<what, namespace>>: reads that fail

   Names are compared as they are; the code also ignores the case of modes, API versions
   and resources.                                                              *)
EXTENDS Integers, Sequences, SequencesExt, FiniteSetsExt

CONSTANTS MaxReplicas32, Unset

InNamespace(items, ns) == SelectSeq(items, LAMBDA o : o.ns = ns)
Reads(w, what, ns)     == <<what, ns>> \notin w.unread

------------------------------------------------------------------------------
(* Vertical pod autoscalers. *)

Standard == {"cpu", "memory"}
\* The metrics that a change of the requests moves.
ResourceMetrics(h) ==
  {m \in Range(h.metrics) : m.type \in {"Resource", "ContainerResource"} /\ m.kind \in {"Utilization", ""}}

\* An omitted list means both resources, an empty one none.
Effective(p)   == IF p.resources = Unset THEN Standard ELSE p.resources
Manages(p, r)  == p.mode # "Off" /\ r \in Effective(p)
Controlled(v)  == UNION {Effective(p) : p \in {x \in Range(v.policies) : x.mode # "Off"}}
PoliciesOf(v, container) == {p \in Range(v.policies) : p.container = container}

\* A container's own policies replace the wildcard's.
ControlsContainer(v, container, r) ==
  LET own == PoliciesOf(v, container)
      ps  == IF own # {} THEN own ELSE PoliciesOf(v, "*")
  IN  IF ps = {} THEN r \in Standard ELSE \E p \in ps : Manages(p, r)
ControlsAggregate(v, r) ==
  LET rest == PoliciesOf(v, "*")
  IN  \/ \E p \in Range(v.policies) \ rest : Manages(p, r)
      \/ IF rest = {} THEN r \in Standard ELSE \E p \in rest : Manages(p, r)

Targets(h, v) ==
  /\ v.kind \in {"", h.kind} /\ v.target \in {"", h.target}
  /\ "" \in {v.api, h.api} \/ v.api = h.api
Overlap(h, controlled) ==
  (IF controlled = {} THEN Standard ELSE controlled) \cap Standard \cap {m.name : m \in ResourceMetrics(h)}
ConflictsOver(h, v) ==
  IF ~Targets(h, v) THEN {}
  ELSE IF v.policies = <<>> THEN Overlap(h, Controlled(v))
  ELSE {m.name : m \in {x \in ResourceMetrics(h) :
          /\ x.name \in Standard
          /\ IF x.type = "Resource" THEN ControlsAggregate(v, x.name) ELSE ControlsContainer(v, x.container, x.name)}}
Conflicts(h, v) == v.mode # "Off" /\ ConflictsOver(h, v) # {}

AdviceOverlaps(h, v, container, r) ==
  \E m \in ResourceMetrics(h) :
    /\ m.name = r /\ (m.type = "Resource" \/ m.container = container)
    /\ IF v.policies # <<>> THEN ControlsContainer(v, container, r) ELSE r \in Standard
VpaLines(h, v) ==
  [told |-> Conflicts(h, v), active |-> Conflicts(h, v) /\ v.mode # "Initial",
   compare |-> {a \in v.advised : Conflicts(h, v) /\ a[2] \in ConflictsOver(h, v) /\ AdviceOverlaps(h, v, a[1], a[2])}]

\* What a report keeps of a VPA; a report read back no longer has the VPA itself.
VpaInfo(h, v) == [name |-> v.name, mode |-> v.mode, resources |-> ConflictsOver(h, v)]
SavedOverlap(h, info) == IF info.resources = {} THEN {} ELSE Overlap(h, info.resources)

Advisory(mode, resources) ==
  LET level == IF mode = "Off" \/ resources = {} THEN "NONE" ELSE IF mode = "Initial" THEN "WARNING" ELSE "ERROR"
  IN  [level |-> level, resources |-> resources, safe |-> level # "ERROR",
       mode    |-> CASE level = "ERROR" -> "Initial" [] level = "WARNING" -> "Off" [] OTHER -> "",
       patch   |-> IF level = "ERROR" THEN "Initial" ELSE "",
       drop    |-> IF level = "ERROR" THEN resources ELSE {}]

FirstConflict(h, vpas) ==
  LET found == SelectSeq(vpas, LAMBDA v : Conflicts(h, v)) IN IF found = <<>> THEN Unset ELSE found[1]
\* One HPA asks for every VPA of its namespace; a list of HPAs keeps them by the
\* target they name.
FindConflictingVPA(h, w) == IF Reads(w, "vpas", h.ns) THEN FirstConflict(h, InNamespace(w.vpas, h.ns)) ELSE Unset
BatchVPA(h, w) ==
  IF ~Reads(w, "vpas", h.ns) THEN Unset
  ELSE FirstConflict(h, SelectSeq(InNamespace(w.vpas, h.ns), LAMBDA v : v.kind = h.kind /\ v.target = h.target))

------------------------------------------------------------------------------
(* KEDA's ownership of an HPA. *)

KeySignal(m)   == m.signals \cap {"keda.sh", "managed by keda", "managed by keda-operator"} # {}
ValueSignal(m) == m.signals \cap {"value", "managed by keda", "managed by keda-operator"} # {}

ScaledObjectName(h) ==
  IF h.labels.name # "" THEN h.labels.name
  ELSE IF h.annotations.name # "" THEN h.annotations.name
  ELSE IF h.prefix # Unset THEN h.prefix ELSE ""

DetectKEDA(h) ==
  LET by(source, confidence) ==
        [managed |-> TRUE, source |-> source, confidence |-> confidence, name |-> ScaledObjectName(h)]
  IN  IF KeySignal(h.labels) THEN by("label", "medium")
      ELSE IF KeySignal(h.annotations) THEN by("annotation", "medium")
      ELSE IF h.prefix # Unset THEN by("name-prefix", "low")
      ELSE IF ValueSignal(h.labels) THEN by("label", "low")
      ELSE IF ValueSignal(h.annotations) THEN by("annotation", "low")
      ELSE [managed |-> FALSE, source |-> "", confidence |-> "", name |-> ""]

\* The analyses have a copy of the detection, which knows no other manager names.
LooksManaged(h) ==
  \/ (h.labels.signals \cup h.annotations.signals) \cap {"keda.sh", "managed by keda"} # {}
  \/ h.prefix # Unset
  \/ ValueSignal(h.labels) \/ ValueSignal(h.annotations)

\* By the name the HPA gives, or else the only one for its target.
Resolve(h, items) ==
  LET named    == SelectSeq(items, LAMBDA o : DetectKEDA(h).name # "" /\ o.name = DetectKEDA(h).name)
      targeted == SelectSeq(items, LAMBDA o : o.target = <<h.kind, h.target>>)
  IN  IF named # <<>> THEN [object |-> named[1], ambiguous |-> FALSE]
      ELSE IF Len(targeted) = 1 THEN [object |-> targeted[1], ambiguous |-> FALSE]
      ELSE [object |-> Unset, ambiguous |-> Len(targeted) > 1]

Missing(resolved) == IF resolved.ambiguous THEN "ambiguous" ELSE "not found"

FindScaledObject(h, w) ==
  LET items == InNamespace(w.objects, h.ns)
      name  == ScaledObjectName(h)
      got   == SelectSeq(items, LAMBDA o : o.name = name)
      match == Resolve(h, items)
      failed(why) == [object |-> Unset, error |-> why]
  IN  IF name # "" /\ ~Reads(w, "scaledobject", h.ns) THEN failed("get")
      ELSE IF name # "" /\ got # <<>> THEN [object |-> got[1], error |-> ""]
      ELSE IF ~Reads(w, "scaledobjects", h.ns) THEN failed("list")
      ELSE IF match.object = Unset THEN failed(Missing(match)) ELSE [object |-> match.object, error |-> ""]

\* A list that failed leaves its namespace's HPAs without candidates.
Indexed(ns, w) == IF Reads(w, "scaledobjects", ns) THEN InNamespace(w.objects, ns) ELSE <<>>
\* Mutant: the name that the HPA gives is not looked up.
BatchScaledObjectByTarget(h, w) ==
  LET match == Resolve(h, SelectSeq(Indexed(h.ns, w), LAMBDA o : o.target = <<h.kind, h.target>>))
  IN  IF ~DetectKEDA(h).managed THEN [object |-> Unset, line |-> ""]
      ELSE [object |-> match.object, line |-> IF match.object = Unset THEN Missing(match) ELSE ""]
BatchScaledObject(h, w) ==
  LET det        == DetectKEDA(h)
      named      == SelectSeq(Indexed(h.ns, w), LAMBDA o : o.name = det.name)
      candidates == SelectSeq(Indexed(h.ns, w), LAMBDA o : o.target = <<h.kind, h.target>>)
      rest       == IF named = <<>> THEN candidates ELSE SelectSeq(candidates, LAMBDA o : o.name # det.name)
      match      == Resolve(h, named \o rest)
  IN  IF ~det.managed THEN [object |-> Unset, line |-> ""]
      ELSE [object |-> match.object, line |-> IF match.object = Unset THEN Missing(match) ELSE ""]

------------------------------------------------------------------------------
(* What a ScaledObject says. *)

\* A number outside int32 is as if it were absent.
Int32(n) == IF n = Unset \/ n > MaxReplicas32 \/ n < -MaxReplicas32 - 1 THEN Unset ELSE n

TriggerMetric(o, i) ==
  LET names == {m \in o.metrics \cup DOMAIN o.health : m.at = i - 1}
  IN  IF Cardinality(names) = 1 THEN CHOOSE m \in names : TRUE ELSE Unset
Activity(o, trigger) ==
  IF trigger.name = "" \/ trigger.name \notin DOMAIN o.active THEN ""
  ELSE IF o.active[trigger.name] THEN "Active" ELSE "Inactive"
Triggers(o) ==
  [i \in DOMAIN o.triggers |->
     [type |-> o.triggers[i].type, name |-> o.triggers[i].name, status |-> Activity(o, o.triggers[i]),
      metric |-> TriggerMetric(o, i),
      health |-> IF TriggerMetric(o, i) \in DOMAIN o.health THEN o.health[TriggerMetric(o, i)] ELSE ""]]

\* The trigger a metric comes from: the one that reports it, else the only one that its
\* name speaks of.  0 for none.
MatchedTrigger(metric, triggers) ==
  LET reported == {i \in DOMAIN triggers : triggers[i].metric = metric}
      likely   == {i \in DOMAIN triggers : triggers[i].metric = Unset /\ {triggers[i].name, triggers[i].type} \cap metric.says # {}}
      only(s)  == IF Cardinality(s) = 1 THEN CHOOSE i \in s : TRUE ELSE 0
  IN  IF reported # {} THEN [index |-> only(reported), observed |-> only(reported) # 0]
      ELSE [index |-> only(likely), observed |-> FALSE]

Smoothed(h, o) == h.window # Unset /\ Int32(o.polling) # Unset /\ Int32(o.polling) > 0 /\ h.window > Int32(o.polling)
EffectiveMin(o) == IF Int32(o.min) # Unset /\ Int32(o.min) > 0 THEN Int32(o.min) ELSE 1
Drift(h, o) ==
  {f \in {"min"} : Int32(o.min) # Unset /\ EffectiveMin(o) # h.min}
  \cup {f \in {"max"} : Int32(o.max) \notin {Unset, h.max}}
Failing(o) ==
  [triggers |-> {i \in DOMAIN o.triggers : Triggers(o)[i].health = "Failing"},
   metrics  |-> {m \in DOMAIN o.health : o.health[m] = "Failing"}]
Fallback(o) ==
  IF o.fallback = Unset \/ {Int32(o.fallback[1]), Int32(o.fallback[2])} = {Unset} THEN Unset
  ELSE [k \in 1..2 |-> IF Int32(o.fallback[k]) = Unset THEN 0 ELSE Int32(o.fallback[k])]
Unhealthy(o) == SelectSeq(o.conds, LAMBDA c : c = "False")

Described(h, o) ==
  [object |-> o.name, sources |-> [m \in h.externals |-> MatchedTrigger(m, Triggers(o))], smoothed |-> Smoothed(h, o),
   drift |-> Drift(h, o), idle |-> Int32(o.idle), failing |-> Failing(o), fallback |-> Fallback(o),
   health |-> IF Unhealthy(o) # <<>> THEN "unhealthy" ELSE IF o.conds # <<>> THEN "healthy" ELSE "unsaid"]

------------------------------------------------------------------------------
(* Enrichment of a report. *)

Sources == {"keda", "vpa"}
ParseMode(value) == IF value \in {"on", "true", "1"} THEN "on" ELSE IF value = "auto" THEN "auto" ELSE "off"
Entry(state, reason) == [state |-> state, reason |-> reason]
CrdReason(s, w) == IF s \in w.env.crds THEN "not yet checked" ELSE "not found"

Context(w) ==
  LET mode    == [s \in Sources |-> ParseMode(w.asked[s])]
      wanted  == {s \in Sources : mode[s] # "off"}
      enabled == {s \in Sources : mode[s] = "on" \/ (mode[s] = "auto" /\ s \in w.env.crds)}
      of(state, reason, s) == IF s \in wanted THEN Entry(state, reason) ELSE Entry("disabled", "")
      with(status, on) == [status |-> status, enabled |-> on]
  IN  IF wanted = {} THEN with([s \in Sources |-> Entry("disabled", "")], {})
      ELSE IF w.env.cancelled THEN with([s \in Sources |-> [of("unavailable", "", s) EXCEPT !.reason = "cancelled"]], {})
      ELSE IF ~w.env.discovery THEN with([s \in Sources |-> of("error", "discovery", s)], {})
      ELSE IF enabled = {} \/ ~w.env.client THEN
        with([s \in Sources |-> IF s \in enabled THEN Entry("error", "client") ELSE of("unavailable", CrdReason(s, w), s)], {})
      ELSE with([s \in Sources |-> IF s \in enabled THEN Entry("unavailable", "") ELSE of("unavailable", CrdReason(s, w), s)], enabled)

KedaEntry(h, w) ==
  LET found == FindScaledObject(h, w)
  IN  IF ~DetectKEDA(h).managed THEN Entry("skipped", "not managed")
      ELSE IF found.error # "" THEN Entry("error", found.error) ELSE Entry("active", "")
VpaEntry(h, w) ==
  IF ~Reads(w, "vpas", h.ns) THEN Entry("error", "list")
  ELSE IF FindConflictingVPA(h, w) = Unset THEN Entry("skipped", "none") ELSE Entry("active", "")

EnrichReport(h, w) ==
  LET ec    == Context(w)
      entry == [s \in Sources |-> IF s \notin ec.enabled THEN ec.status[s]
                                  ELSE IF s = "keda" THEN KedaEntry(h, w) ELSE VpaEntry(h, w)]
  IN  [status |-> entry,
       keda |-> IF "keda" \in ec.enabled /\ entry["keda"].state = "active" THEN FindScaledObject(h, w).object ELSE Unset,
       vpa  |-> IF "vpa" \in ec.enabled THEN FindConflictingVPA(h, w) ELSE Unset,
       warnings |-> {s \in ec.enabled : entry[s].state = "error"}]

------------------------------------------------------------------------------
(* The conflict scan. *)

TargetOf(h) == <<h.ns, h.kind, h.target>>
NeedsVPA(w) ==
  \E h \in Range(w.hpas) : \E m \in Range(h.metrics) : m.type \in {"Resource", "ContainerResource"} /\ m.name \in Standard
\* The scan forces VPA enrichment on; where no client can be made it finds nothing.
VpaResult(h, w) ==
  IF NeedsVPA(w) /\ ~w.env.cancelled /\ w.env.discovery /\ w.env.client THEN BatchVPA(h, w) ELSE Unset
Group(w, key) == {h \in Range(w.hpas) : TargetOf(h) = key}
\* The HPAs that each risk of a target names; a target without a risk has no row.
Risks(w, key) ==
  [shared |-> IF Cardinality(Group(w, key)) >= 2 THEN {h.name : h \in Group(w, key)} ELSE {},
   keda   |-> {h.name : h \in {x \in Group(w, key) : DetectKEDA(x).managed}},
   vpa    |-> {h.name : h \in {x \in Group(w, key) : VpaResult(x, w) # Unset}}]
ConflictScan(w) ==
  {[target |-> key, risks |-> Risks(w, key)] :
     key \in {k \in {TargetOf(h) : h \in Range(w.hpas)} : UNION Range(Risks(w, k)) # {}}}

------------------------------------------------------------------------------
(* Who owns spec.replicas. *)

Managers(t) == {<<f.manager, f.operation>> : f \in {x \in Range(t.fields) : x.replicas}}
LooksLikeHPAOwner(manager) == manager \in {"horizontal-pod-autoscaler", "my-hpa-operator"}
OwnershipRisks(t) ==
  {<<"differs", t.replicas>> : x \in {y \in {1} : t.replicas # Unset /\ t.desired > 0 /\ t.replicas # t.desired}}
  \cup {<<"owned", m>> : m \in {x \in Managers(t) : ~LooksLikeHPAOwner(x[1])}}
Ownership(h, w) ==
  IF h.kind \notin {"Deployment", "StatefulSet", "ReplicaSet"} \/ ~Reads(w, "target", h.ns) THEN [error |-> TRUE]
  ELSE [error |-> FALSE, managers |-> Managers(w.owners), risks |-> OwnershipRisks(w.owners),
        recommends |-> OwnershipRisks(w.owners) # {}]

------------------------------------------------------------------------------
(* The autoscaler map. *)

Observed(h, w) ==
  h.kind \in {"Deployment", "StatefulSet", "ReplicaSet"} /\ h.api \in {"", "apps/v1"} /\ Reads(w, "target", h.ns)
MapPods(h, w)  == IF Observed(h, w) /\ w.cluster.selector /\ Reads(w, "pods", h.ns) THEN w.cluster.pods ELSE <<>>
PendingIn(h, w) == Len(SelectSeq(MapPods(h, w), LAMBDA p : p = "Pending"))
NodeScaler(w) ==
  \/ Reads(w, "nodes", "") /\ w.cluster.nodes > 0 /\ w.cluster.evictable
  \/ Reads(w, "scaler", "") /\ w.cluster.scaler
  \/ Reads(w, "karpenter", "") /\ w.cluster.karpenter
\* A ScaledObject that is not found, for whatever reason, counts as one with no active
\* trigger.
MapKeda(h, w) ==
  LET found == FindScaledObject(h, w).object
  IN  IF ~DetectKEDA(h).managed \/ ~w.env.client THEN Unset
      ELSE IF found = Unset THEN [name |-> DetectKEDA(h).source, active |-> FALSE]
      ELSE [name |-> found.name, active |-> \E t \in Range(Triggers(found)) : t.status = "Active"]
MapVpa(h, w) ==
  IF w.env.client /\ \E m \in Range(h.metrics) : m.type \in {"Resource", "ContainerResource"}
  THEN FindConflictingVPA(h, w) ELSE Unset
MapPdbs(h, w)   == IF Reads(w, "pdbs", h.ns) THEN w.cluster.pdbs ELSE 0
\* Percent used; below 70 a quota is left out.
MapQuotas(h, w) == IF Reads(w, "quotas", h.ns) THEN SelectSeq(w.cluster.quotas, LAMBDA p : p >= 70) ELSE <<>>

Layer(name, healthy) == [name |-> name, healthy |-> healthy]
Blocker(layer, severity) == [layer |-> layer, severity |-> severity]
WorkloadHealthy(h, w) == ~Observed(h, w) \/ w.cluster.ready >= w.cluster.spec
Constrained(h, w) == MapVpa(h, w) # Unset \/ \E p \in Range(MapQuotas(h, w)) : p >= 90

Layers(h, w) ==
  {Layer("hpa", w.cluster.active), Layer("workload", WorkloadHealthy(h, w)), Layer("pods", PendingIn(h, w) = 0),
   Layer("nodes", Reads(w, "nodes", "") /\ w.cluster.nodes > 0), Layer("autoscaler", NodeScaler(w))}
  \cup {Layer("external-scaler", k.active) : k \in {MapKeda(h, w)} \ {Unset}}
  \cup {l \in {Layer("constraints", ~Constrained(h, w))} :
          MapVpa(h, w) # Unset \/ MapPdbs(h, w) > 0 \/ MapQuotas(h, w) # <<>>}

NodeBlockers(w) == {b \in {Blocker("nodes", "high")} : Reads(w, "nodes", "") /\ w.cluster.nodes = 0}
ScalerBlockers(h, w) == {b \in {Blocker("autoscaler", "medium")} : ~NodeScaler(w) /\ PendingIn(h, w) > 0}
KedaBlockers(h, w) == {b \in {Blocker("external-scaler", "high")} : MapKeda(h, w) # Unset /\ ~MapKeda(h, w).active}
ConstraintBlockers(h, w) ==
  {b \in {Blocker("constraints", "medium")} : MapVpa(h, w) # Unset}
  \cup {b \in {Blocker("constraints", "low")} : MapPdbs(h, w) > 0}
  \cup {b \in {Blocker("constraints", "high")} : \E p \in Range(MapQuotas(h, w)) : p >= 90}
Blockers(h, w) ==
  {b \in {Blocker("hpa", "high")} : ~w.cluster.active}
  \cup {b \in {Blocker("workload", "medium")} : ~WorkloadHealthy(h, w)}
  \cup {b \in {Blocker("pods", "high")} : PendingIn(h, w) > 0}
  \cup NodeBlockers(w) \cup ScalerBlockers(h, w) \cup KedaBlockers(h, w) \cup ConstraintBlockers(h, w)

Severities(h, w) == {b.severity : b \in Blockers(h, w)}
Risk(h, w) ==
  IF "high" \in Severities(h, w) THEN "high" ELSE IF "medium" \in Severities(h, w) THEN "medium"
  ELSE IF "low" \in Severities(h, w) THEN "low" ELSE "none"
MapAdvice(h, w) ==
  IF "high" \in Severities(h, w) THEN "address" ELSE IF Blockers(h, w) # {} THEN "monitor" ELSE ""
MapWarnings(h, w) ==
  {x \in {"target"} : ~Observed(h, w)}
  \cup {x \in {"pods"} : Observed(h, w) /\ w.cluster.selector /\ ~Reads(w, "pods", h.ns)}
  \cup {x \in {"nodes"} : ~Reads(w, "nodes", "")}
  \cup {x \in {"pdbs", "quotas"} : ~Reads(w, x, h.ns)}
=============================================================================
