------------------------------- MODULE RuleSets -------------------------------
(* The four rule sets an HPA is read against: policy files (src/pkg/hpa/policy,
   src/cmd/policy.go), the offline lint with its fixes (src/pkg/hpa/lint,
   src/cmd/lint.go), the best-practice audit (src/pkg/hpa/audit) and the behavior
   advisor (src/pkg/hpa/behavioradvisor) with `tune`.  An HPA is a record
     min, max, current, labels, metrics, behavior, up, down, keda
   like the one of HpaObject, with min Unset when it is absent from the spec.  A
   patch is [bad, edits]: bad when it is not JSON of an HPA, else the fields its
   merge patch sets, each [side, key, value]; a value Unset is null.           *)
EXTENDS Integers, Sequences, SequencesExt, FiniteSetsExt, TLC

CONSTANTS MaxInt32, Unset

When(c, s) == IF c THEN <<s>> ELSE <<>>
Indices(s) == [i \in DOMAIN s |-> i]
Joined(ss) == FlattenSeq(ss)

------------------------------------------------------------------------------
(* Facts the rule sets share. *)

DefaultWindow == 300
DefaultTolerance == 10

MinReplicas(h) == IF h.min = Unset THEN 1 ELSE h.min
ReplicaRatio(min, max) == IF min <= 0 THEN 0 ELSE max \div min
MaxRatio == 10
WideRange(h) == ReplicaRatio(MinReplicas(h), h.max) > MaxRatio

UtilizationTargets(h) ==
  SelectSeq(Indices(h.metrics), LAMBDA i : h.metrics[i].type = "Resource" /\ h.metrics[i].kind = "Utilization")

Field(rules, key) == IF rules = Unset THEN Unset ELSE rules[key]
Policies(rules) == IF Field(rules, "policies") = Unset THEN <<>> ELSE rules.policies
MissingPolicies(h, side) == Policies(h[side]) = <<>>
Exceeds(value, limit) == value # Unset /\ value > limit

OfTypes(h, types) == \E i \in DOMAIN h.metrics : h.metrics[i].type \in types
Count(findings, severity) == Cardinality({i \in DOMAIN findings : findings[i].severity = severity})
Severities(findings) == {findings[i].severity : i \in DOMAIN findings}

------------------------------------------------------------------------------
(* Patches. *)

Edit(side, key, value) == [side |-> side, key |-> key, value |-> value]
Patch(edits) == [bad |-> FALSE, edits |-> edits]

NoRules == [select |-> Unset, policies |-> Unset, tolerance |-> Unset, window |-> Unset]
Merged(h, e) ==
  IF e.side = "spec"
  THEN [h EXCEPT ![e.key] = IF e.value # Unset \/ e.key = "min" THEN e.value
                            ELSE IF e.key = "max" THEN 0 ELSE <<>>]
  ELSE LET rules == IF h[e.side] = Unset THEN NoRules ELSE h[e.side]
       IN  [h EXCEPT !.behavior = TRUE, ![e.side] = [rules EXCEPT ![e.key] = e.value]]
Patched(h, patch) == FoldLeft(Merged, h, patch.edits)

------------------------------------------------------------------------------
(* Policy files.  A rule is [id, type, name, severity, enabled, params, short]:
   params maps names to <<kind, value>>, short the short-form integers.        *)

Aliases ==
  ("stabilizationWindowSeconds" :> "stabilization-window") @@ ("max_replicas" :> "max-replicas-multiplier")
  @@ [id \in {"stabilization-window", "max-replicas-multiplier", "behavior-policy-required",
              "metric-coverage", "target-utilization-range", "replica-range"} |-> id]

CanonicalId(r, id) ==
  IF id \notin DOMAIN Aliases THEN id
  ELSE IF Aliases[id] = "max-replicas-multiplier" /\ "maxMultiplierFromCurrent" \in DOMAIN r.short
       THEN "max-replicas-from-current" ELSE Aliases[id]
Normalized(r) ==
  LET id == IF r.id = "" THEN r.type ELSE r.id
  IN  [r EXCEPT !.id = CanonicalId(r, id),
                !.name = IF r.name = "" /\ id \in DOMAIN Aliases THEN CanonicalId(r, id) ELSE r.name,
                !.params = [k \in DOMAIN r.short |-> <<"int", r.short[k]>>] @@ r.params]

IntParams ==
  ("stabilization-window" :> {"min", "max"}) @@ ("max-replicas-multiplier" :> {"multiplier"})
  @@ ("max-replicas-from-current" :> {"maxMultiplierFromCurrent"}) @@ ("metric-coverage" :> {"minMetrics"})
  @@ ("target-utilization-range" :> {"min", "max"}) @@ ("replica-range" :> {"maxRatio"})
  @@ ("behavior-policy-required" :> {})
BoolParams(id) ==
  CASE id = "behavior-policy-required" -> {"requireScaleUp", "requireScaleDown"}
    [] id = "metric-coverage" -> {"requireResource"}
    [] OTHER -> {}
KnownRule(id) == id \in DOMAIN IntParams

Given(r, key, default) ==
  IF key \in DOMAIN r.params /\ r.params[key][1] \in {"int", "bool"} THEN r.params[key][2] ELSE default
RangeOf(r, lower, upper) == <<Given(r, "min", lower), Given(r, "max", upper)>>
WellRanged(range, lower, upper) == lower <= range[1] /\ range[1] <= range[2] /\ range[2] <= upper

ParametersValid(r) ==
  KnownRule(r.id) =>
    /\ DOMAIN r.params \subseteq IntParams[r.id] \cup BoolParams(r.id)
    /\ \A k \in DOMAIN r.params : r.params[k][1] = (IF k \in BoolParams(r.id) THEN "bool" ELSE "int")
    /\ CASE r.id = "stabilization-window" -> WellRanged(RangeOf(r, 60, 3600), 0, MaxInt32)
         [] r.id = "target-utilization-range" -> WellRanged(RangeOf(r, 30, 90), 1, 100)
         [] OTHER -> \A k \in DOMAIN r.params \cap IntParams[r.id] : r.params[k][2] \in 1..MaxInt32

RuleValid(r) ==
  /\ r.id # "" /\ r.name # "" /\ r.severity \in {"critical", "warning", "info", ""}
  /\ ParametersValid(r)
RulesOf(file) == file.rules \o Joined([i \in DOMAIN file.sets |-> file.sets[i].rules])
FileValid(file) ==
  /\ file.version \in {"", "hpa-status/v1"}
  /\ \A r \in Range(RulesOf(file)) : RuleValid(Normalized(r))

Violation(rule, severity, what) == [rule |-> rule, severity |-> severity, what |-> what]

WindowOutside(h, r) ==
  LET range  == RangeOf(r, 60, 3600)
      window == IF Field(h.down, "window") = Unset THEN DefaultWindow ELSE h.down.window
  IN  window < range[1] \/ window > range[2]
UnmetMetrics(h, r) ==
  IF Len(h.metrics) < Given(r, "minMetrics", 1) THEN <<"warning">>
  ELSE When(Given(r, "requireResource", TRUE) /\ ~OfTypes(h, {"Resource"}), "info")
UtilizationOutside(h, r) ==
  LET range == RangeOf(r, 30, 90)
  IN  SelectSeq(UtilizationTargets(h), LAMBDA i : h.metrics[i].target < range[1] \/ h.metrics[i].target > range[2])

\* The severities a built-in rule reports with, before the rule's own.
Broken(h, r) ==
  CASE r.id = "stabilization-window" -> When(WindowOutside(h, r), "warning")
    [] r.id = "max-replicas-multiplier" -> When(h.max < MinReplicas(h) * Given(r, "multiplier", 3), "warning")
    [] r.id = "max-replicas-from-current" ->
         When(h.max > Max({h.current, 1}) * Given(r, "maxMultiplierFromCurrent", 5), "warning")
    [] r.id = "behavior-policy-required" ->
         When(Given(r, "requireScaleUp", TRUE) /\ MissingPolicies(h, "up"), "info")
         \o When(Given(r, "requireScaleDown", TRUE) /\ MissingPolicies(h, "down"), "info")
    [] r.id = "metric-coverage" -> UnmetMetrics(h, r)
    [] r.id = "target-utilization-range" -> [i \in DOMAIN UtilizationOutside(h, r) |-> "warning"]
    [] r.id = "replica-range" ->
         When(MinReplicas(h) # 0 /\ h.max > MinReplicas(h) * Given(r, "maxRatio", 10), "warning")

EvaluateRule(h, rule) ==
  LET r      == Normalized(rule)
      broken == Broken(h, r)
  IN  IF ~ParametersValid(r) THEN <<Violation(r.id, "critical", "invalid configuration")>>
      ELSE IF ~KnownRule(r.id) THEN <<Violation(r.id, "info", "unknown")>>
      ELSE [i \in DOMAIN broken |->
              Violation(r.id, IF r.severity = "" THEN broken[i] ELSE r.severity, "broken")]

Enabled(rules) == SelectSeq(rules, LAMBDA r : r.enabled # FALSE)
Applicable(h, file) ==
  Enabled(file.rules)
  \o Joined([i \in DOMAIN file.sets |->
               IF file.sets[i].selector \subseteq h.labels THEN Enabled(file.sets[i].rules) ELSE <<>>])
Violations(h, file) ==
  LET rules == Applicable(h, file) IN Joined([i \in DOMAIN rules |-> EvaluateRule(h, rules[i])])
PolicyScore(violations) ==
  Max({0, 100 - 20 * Count(violations, "critical") - 10 * Count(violations, "warning")})
PolicySummary(violations) ==
  IF violations = <<>> THEN "passed"
  ELSE [s \in Severities(violations) |-> Count(violations, s)]
Evaluated(h, file) ==
  LET found == Violations(h, file)
  IN  [violations |-> found, score |-> PolicyScore(found), summary |-> PolicySummary(found)]

\* `policy`: a file that does not load ends the run before anything is read.
PolicyExit(hpas, file) ==
  IF ~FileValid(file) THEN "error"
  ELSE IF \E h \in hpas : Evaluated(h, file).violations # <<>> THEN "warning" ELSE "ok"

\* What becomes of one suggestion [apply, patch]: the rule that blocks or warns, if any.
FirstOf(violations, severity) ==
  SelectSeq(violations, LAMBDA v : v.severity = severity)[1].rule
Guarded(h, file, s) ==
  LET found == Violations(Patched(h, s.patch), file)
      outcome(o, rule) == [outcome |-> o, rule |-> rule]
  IN  IF h = Unset THEN outcome("blocked", "policy-guard")
      ELSE IF ~s.apply \/ (~s.patch.bad /\ s.patch.edits = <<>>) THEN outcome("allowed", Unset)
      ELSE IF s.patch.bad THEN outcome("blocked", "policy-guard")
      ELSE IF "critical" \in Severities(found) THEN outcome("blocked", FirstOf(found, "critical"))
      ELSE IF "warning" \in Severities(found) THEN outcome("warned", FirstOf(found, "warning"))
      ELSE outcome("allowed", Unset)

\* The starter profiles of `policy init`.
StarterRule(id, name, severity, params) ==
  [id |-> id, type |-> "", name |-> name, severity |-> severity, enabled |-> Unset, params |-> params, short |-> <<>>]
Ints(a, m, b, n) == (a :> <<"int", m>>) @@ (b :> <<"int", n>>)
Both == ("requireScaleUp" :> <<"bool", TRUE>>) @@ ("requireScaleDown" :> <<"bool", TRUE>>)
Coverage(resource, n) == ("requireResource" :> <<"bool", resource>>) @@ ("minMetrics" :> <<"int", n>>)
StarterProfile(profile) ==
  CASE profile = "production-api" ->
         <<StarterRule("replica-range", "range", "critical", "maxRatio" :> <<"int", 10>>),
           StarterRule("stabilization-window", "window", "warning", Ints("min", 300, "max", 1800)),
           StarterRule("behavior-policy-required", "behavior", "warning", Both),
           StarterRule("metric-coverage", "coverage", "warning", Coverage(TRUE, 2)),
           StarterRule("target-utilization-range", "utilization", "warning", Ints("min", 50, "max", 80))>>
    [] profile = "cost-sensitive" ->
         <<StarterRule("stabilization-window", "window", "warning", Ints("min", 120, "max", 900)),
           StarterRule("max-replicas-from-current", "expansion", "warning", "maxMultiplierFromCurrent" :> <<"int", 4>>),
           StarterRule("target-utilization-range", "utilization", "warning", Ints("min", 60, "max", 85))>>
    [] profile = "keda" ->
         <<StarterRule("behavior-policy-required", "behavior", "info", Both),
           StarterRule("metric-coverage", "coverage", "warning", Coverage(FALSE, 1)),
           StarterRule("stabilization-window", "window", "warning", Ints("min", 60, "max", 1800))>>
FileOf(rules) == [version |-> "hpa-status/v1", rules |-> rules, sets |-> <<>>]

------------------------------------------------------------------------------
(* Lint: findings [rule, severity, fix], the fix a patch or Unset. *)

Finding(rule, severity) == [rule |-> rule, severity |-> severity, fix |-> Unset]
Fixable(rule, fix) == [rule |-> rule, severity |-> "warning", fix |-> Patch(fix)]

ReplicaFindings(h) ==
  When(MinReplicas(h) > h.max, Finding("replica-range", "error"))
  \o When(WideRange(h), Finding("replica-range", "warning"))
  \o When(h.max = 0, Finding("max-replicas-zero", "error"))
  \o When(MinReplicas(h) = h.max, Finding("min-equals-max", "error"))

ResourceFindings(h) ==
  LET cpu == SelectSeq(h.metrics, LAMBDA m : m.type = "Resource" /\ m.name = "cpu")
  IN  [i \in DOMAIN cpu |-> Finding("resource-requests", "warning")]
      \o When(OfTypes(h, {"Resource"}), Finding("container-resource", "info"))

HalfPerMinute == <<[type |-> "Percent", value |-> 50, period |-> 60]>>
ScaleDownFindings(h) ==
  IF h.down = Unset
  THEN <<Fixable("behavior-scaledown", <<Edit("down", "window", DefaultWindow), Edit("down", "policies", HalfPerMinute)>>)>>
  ELSE When(MissingPolicies(h, "down"), Finding("behavior-scaledown-empty", "warning"))

\* The fix writes the whole list of metrics, with this one's target lowered.
Lowered(h, i) == <<Edit("spec", "metrics", [h.metrics EXCEPT ![i].target = 80])>>
UtilizationFindings(h) ==
  LET targets == UtilizationTargets(h)
      finding(i) == IF h.metrics[i].target > 90 THEN <<Fixable("target-utilization", Lowered(h, i))>>
                    ELSE When(h.metrics[i].target < 20, Finding("target-utilization", "info"))
  IN  Joined([j \in DOMAIN targets |-> finding(targets[j])])

CoverageFindings(h) ==
  When(Len(h.metrics) = 1, Finding("metric-coverage", "info"))
  \o When(Len(h.metrics) > 0 /\ ~OfTypes(h, {"Resource", "ContainerResource"}), Finding("metric-coverage", "info"))

\* Mutant: the fix goes to the other direction.
TightToleranceCrossed(h, side) ==
  LET t == Field(h[side], "tolerance")
      other == IF side = "up" THEN "down" ELSE "up"
  IN  When(t # Unset /\ t < 1, Fixable("tolerance", <<Edit(other, "tolerance", DefaultTolerance)>>))
TightTolerance(h, side) ==
  LET t == Field(h[side], "tolerance")
  IN  When(t # Unset /\ t < 1, Fixable("tolerance", <<Edit(side, "tolerance", DefaultTolerance)>>))

LintFindings(h) ==
  ReplicaFindings(h) \o ResourceFindings(h) \o ScaleDownFindings(h) \o UtilizationFindings(h) \o CoverageFindings(h)
  \o When(Exceeds(Field(h.down, "window"), 900), Fixable("stabilization-window", <<Edit("down", "window", DefaultWindow)>>))
  \o TightTolerance(h, "up") \o TightTolerance(h, "down")
  \o When(h.min = 0, Finding("scale-to-zero", "info")) \o When(h.keda, Finding("keda-managed", "warning"))

Result(findings) ==
  [findings |-> findings, errors |-> Count(findings, "error"), warnings |-> Count(findings, "warning"),
   infos |-> Count(findings, "info"), pass |-> Count(findings, "error") = 0]

(* The command: a file is [readable, splits, docs]; a document is [kind, hpa,
   target, replicas] with kind "hpa", "undecodable hpa", "workload" or "other",
   hpa the object, target the workload's key and replicas what its manifest says. *)

Workloads(files) ==
  LET docs == Joined([i \in DOMAIN files |-> IF files[i].readable /\ files[i].splits THEN files[i].docs ELSE <<>>])
  IN  FoldLeft(LAMBDA known, d : IF d.kind = "workload" THEN (d.target :> d.replicas) @@ known ELSE known, <<>>, docs)

\* The gitops finding is added after the result was counted.
WithOwnership(result, doc, workloads) ==
  IF doc.target \in DOMAIN workloads /\ workloads[doc.target] # Unset
  THEN [result EXCEPT !.findings = Append(@, Finding("gitops-replicas", "warning")), !.warnings = @ + 1]
  ELSE result

LintDocument(doc, workloads) ==
  CASE doc.kind = "hpa" -> <<WithOwnership(Result(LintFindings(doc.hpa)), doc, workloads)>>
    [] doc.kind = "undecodable hpa" -> <<Result(<<Finding("manifest-decode", "error")>>)>>
    [] OTHER -> <<>>
LintFile(f, workloads) ==
  IF ~f.readable THEN <<Result(<<Finding("file-read", "error")>>)>>
  ELSE IF ~f.splits THEN <<Result(<<Finding("manifest-decode", "error")>>)>>
  ELSE Joined([i \in DOMAIN f.docs |-> LintDocument(f.docs[i], workloads)])
LintResults(files) ==
  LET workloads == Workloads(files) IN Joined([i \in DOMAIN files |-> LintFile(files[i], workloads)])

Total(results, field) == FoldLeft(LAMBDA sum, r : sum + r[field], 0, results)
CombinedPass(results) == \A r \in Range(results) : r.pass
ReportPass(results) == Total(results, "errors") = 0
LintFails(failOn, results) ==
  \E r \in Range(results) :
    CASE failOn = "error" -> r.errors > 0
      [] failOn = "warning" -> r.errors > 0 \/ r.warnings > 0
      [] failOn = "info" -> r.findings # <<>>
LintExit(failOn, files) ==
  IF failOn \notin {"error", "warning", "info"} THEN "refused"
  ELSE IF LintFails(failOn, LintResults(files)) THEN "error" ELSE "ok"

------------------------------------------------------------------------------
(* Audit: findings [rule, severity, fix]. *)

AuditedWindow(h) ==
  When(Field(h.down, "window") = Unset,
       [Finding("stabilization-window", "warning") EXCEPT !.fix = Patch(<<Edit("down", "window", DefaultWindow)>>)])
ExplicitTolerance(h) == \E side \in {"up", "down"} : Field(h[side], "tolerance") # Unset

AuditedUtilization(h) ==
  LET targets == UtilizationTargets(h)
      of(i) == IF h.metrics[i].target > 90 THEN <<Finding("target-utilization", "warning")>>
               ELSE When(h.metrics[i].target < 30, Finding("target-utilization", "info"))
  IN  Joined([j \in DOMAIN targets |-> of(targets[j])])

AuditedReplicas(h) ==
  When(WideRange(h), Finding("replica-range", "warning")) \o When(h.min = Unset, Finding("replica-range", "info"))
  \o When(MinReplicas(h) = 0, Finding("scale-to-zero", "warning"))
AuditedPolicies(h) ==
  When(MissingPolicies(h, "up"), Finding("behavior-policy", "info"))
  \o When(MissingPolicies(h, "down"), Finding("behavior-policy", "info"))
AuditedMetrics(h) ==
  CoverageFindings(h) \o When(h.keda, Finding("keda-managed", "info"))
AuditedRequests(h) ==
  [i \in 1..Len(SelectSeq(h.metrics, LAMBDA m : m.type = "Resource")) |-> Finding("resource-requests", "info")]
BaseAudit(h) ==
  AuditedWindow(h) \o AuditedReplicas(h) \o AuditedPolicies(h) \o AuditedMetrics(h)
  \o When(~ExplicitTolerance(h), Finding("tolerance", "info"))
  \o AuditedRequests(h) \o AuditedUtilization(h)

LatencyAudit(h) ==
  When(Exceeds(Field(h.up, "window"), 60), Finding("latency-stabilization", "warning"))
  \o IF MissingPolicies(h, "up") THEN <<Finding("latency-scale-up-policy", "warning")>>
     ELSE When(\E p \in Range(Policies(h.up)) : p.period > 30, Finding("latency-scale-up-period", "info"))
CostAudit(h) ==
  When(MinReplicas(h) > 2, Finding("cost-min-replicas", "info"))
  \o When(Exceeds(Field(h.down, "window"), 120), Finding("cost-scaledown-window", "info"))
BatchTolerance(h) ==
  IF Field(h.up, "tolerance") # Unset THEN h.up.tolerance
  ELSE IF Field(h.down, "tolerance") # Unset THEN h.down.tolerance ELSE DefaultTolerance
BatchAudit(h) == When(BatchTolerance(h) < 30, Finding("batch-tolerance", "info"))
KedaAudit(h) ==
  When(MinReplicas(h) # 0, Finding("keda-scale-to-zero", "info"))
  \o When(Exceeds(Field(h.down, "window"), DefaultWindow), Finding("keda-cooldown", "info"))
CriticalAudit(h) ==
  When(h.current # 0 /\ h.max # 0 /\ 2 * (h.max - h.current) < h.current, Finding("critical-max-headroom", "warning"))
  \o When(MinReplicas(h) < 2, Finding("critical-min-replicas", "warning"))

Audit(h, profile) ==
  BaseAudit(h)
  \o CASE profile = "latency" -> LatencyAudit(h) [] profile = "cost" -> CostAudit(h)
       [] profile = "batch" -> BatchAudit(h) [] profile = "keda" -> KedaAudit(h)
       [] profile = "critical" -> CriticalAudit(h) [] OTHER -> <<>>
AuditScore(findings) == PolicyScore(findings)

------------------------------------------------------------------------------
(* The behavior advisor and `tune`. *)

AdvisedWindows(h) ==
  When(Field(h.down, "window") = Unset, Finding("scaledown-window-default", "info"))
  \o When(Exceeds(Field(h.down, "window"), 2 * DefaultWindow), Finding("scaledown-window-long", "warning"))
  \o When(Exceeds(Field(h.up, "window"), 120), Finding("scaleup-window-long", "warning"))
AdvisedTolerance(h) ==
  When(Exceeds(Field(h.down, "tolerance"), 20), Finding("tolerance-scaledown-loose", "info"))
  \o When(Exceeds(Field(h.up, "tolerance"), 15), Finding("tolerance-scaleup-loose", "warning"))
  \o When(~h.behavior, Finding("tolerance-default", "info"))
AdvisedPolicies(h) ==
  When(h.behavior /\ MissingPolicies(h, "down"), Finding("scaledown-no-policies", "info"))
  \o When(h.behavior /\ MissingPolicies(h, "up"), Finding("scaleup-no-policies", "info"))
Advice(h) == AdvisedWindows(h) \o AdvisedTolerance(h) \o AdvisedPolicies(h)
AdviceSummary(h) == IF Advice(h) = <<>> THEN "reasonable" ELSE [s \in {"warning", "info"} |-> Count(Advice(h), s)]

TuneFindings(h) ==
  IF ~h.behavior THEN {"behavior"} ELSE {side \in {"down", "up"} : h[side] = Unset}
PercentRule(tolerance, window, percent) ==
  [select |-> Unset, tolerance |-> tolerance, window |-> window,
   policies |-> <<[type |-> "Percent", value |-> percent, period |-> 60]>>]
SuggestedBehavior(goal) ==
  CASE goal = "fast-scale-up" -> [up |-> PercentRule(5, 0, 200), down |-> PercentRule(10, 300, 50)]
    [] goal = "cost-saving" -> [up |-> PercentRule(10, Unset, 100), down |-> PercentRule(5, 180, 100)]
    [] OTHER -> [up |-> PercentRule(5, Unset, 100), down |-> PercentRule(10, 300, 50)]
Tuned(h, goal) == [h EXCEPT !.behavior = TRUE, !.up = SuggestedBehavior(goal).up, !.down = SuggestedBehavior(goal).down]
=============================================================================
