------------------------------ MODULE Diagnostics ------------------------------
(* What the tool says of an HPA and what it advises (src/pkg/hpa/interpret.go,
   diagnostic_rules.go, suggestion_rules.go, suggestions.go) and what it assumes of the
   controller (assumptions.go).  A statement is a [reason, sure]; the advice is a sequence of suggestions [title, patch], with the
   patch a function from fields [of, name] to values, empty when nothing can be applied. *)
EXTENDS DecisionTrace, TLC

When(c, s) == IF c THEN s ELSE <<>>
Sure(reason)  == <<[reason |-> reason, sure |-> "high"]>>
Guess(reason) == <<[reason |-> reason, sure |-> "medium"]>>
Each(n, s) == FlattenSeq([i \in 1..n |-> s])

Stale(h)    == h.behind > 0
Inactive(h) == CondNotTrue(h, "ScalingActive")
Unable(h)   == CondNotTrue(h, "AbleToScale")
Capped(h)   == CondIs(h, "ScalingLimited", "True")
Several(h)  == Len(h.readings) > 1

------------------------------------------------------------------------------
(* Statements. *)

AbleStatements(h) ==
  IF Unable(h) THEN Sure("UnableToScale") ELSE When(Stabilized(h), Guess("ScaleDownStabilized"))
LimitStatements(h) ==
  When(Capped(h), Sure(IF h.desired = h.max THEN "LimitedByMaxReplicas"
                       ELSE IF h.desired = h.min THEN "LimitedByMinReplicas" ELSE "ScalingLimited"))

\* Replicas unchanged off the bounds, with a resource metric off its target.
ToleranceStatements(h) ==
  LET i == OffTarget(h)
      inside == WithinTolerance(h, RatioOf(h, h.readings[i]))
      told == CondReason(h, "AbleToScale", "DesiredWithinTolerance")
  IN  When(h.desired \notin {h.min, h.max} /\ i # 0,
        (IF ~inside THEN Guess("ToleranceNoScale") \o Guess("ToleranceNoScale")
         ELSE IF told THEN Sure("ToleranceNoScale") ELSE Guess("ToleranceNoScale"))
        \o Sure("ToleranceNoScale"))
DirectionStatements(h) ==
  CASE h.desired > h.current -> Sure("ScaleUpRecommended")
    [] h.desired < h.current -> Sure("ScaleDownRecommended")
    [] OTHER -> Sure("NoScaleVisible") \o ToleranceStatements(h)

MetricStatements(h) ==
  When(Several(h),
    IF h.desired = h.max THEN Sure("MaxReplicasWinnerHidden")
    ELSE IF Influential(h) # 0 THEN Guess("MetricImpactEstimate") \o Sure("MetricImpactEstimate")
    ELSE Sure("MultiMetricNoWinner") \o Sure("MultiMetricNoWinner"))
Disagreement(h) ==
  Several(h) /\ (\E r \in Range(h.readings) : Above(RatioOf(h, r)))
             /\ (\E r \in Range(h.readings) : Below(RatioOf(h, r)))
ZeroStatements(h) == When(h.min = 0 /\ h.desired = 0, Sure("ScaleToZero"))

CoreStatements(h) ==
  When(Stale(h), Sure("StaleStatus")) \o
  IF Inactive(h) THEN Each(3, Sure("ScalingInactive"))
  ELSE AbleStatements(h) \o LimitStatements(h) \o DirectionStatements(h) \o MetricStatements(h)
       \o When(Disagreement(h), Guess("MetricDisagreement")) \o ZeroStatements(h)

\* Of each external or object metric: missing, or off its target by a ratio.
ReadingsOf(h, m) == {i \in DOMAIN h.readings : h.readings[i].id = m.id}
OutsideStatements(h, type) ==
  LET of == SelectSeq(h.metrics, LAMBDA m : m.type = type)
      said(m) == IF ReadingsOf(h, m) = {} THEN Sure("MetricMissing")
                 ELSE When(RatioOf(h, h.readings[Min(ReadingsOf(h, m))]) # Unset, Guess("MetricRatio"))
  IN  FlattenSeq([i \in DOMAIN of |-> said(of[i])])
KedaStatements(h) ==
  When(h.keda, Guess("KEDA") \o When(h.metrics = <<>>, Sure("KEDA"))
               \o FlattenSeq([i \in DOMAIN h.metrics |-> When(h.metrics[i].type = "External", Guess("KEDA"))]))

Statements(h) ==
  CoreStatements(h) \o OutsideStatements(h, "External") \o OutsideStatements(h, "Object")
  \o KedaStatements(h) \o Sure("Limitation")

\* A statement as structured output has it: what is certain was observed.
ClassOf(s) == IF s.sure = "high" THEN "Observed" ELSE "Estimated"

------------------------------------------------------------------------------
(* Actions. *)

VerifyActions(h) ==
  FlattenSeq([i \in DOMAIN h.metrics |->
    CASE h.metrics[i].type = "External" -> <<"VerifyExternalMetric">>
      [] h.metrics[i].type = "Object" -> <<"VerifyObjectMetric">>
      [] OTHER -> <<>>])
ActionsFor(h) ==
  LET stale == When(Stale(h), <<"WaitForGeneration">>)
      found == stale \o When(Stabilized(h), <<"WaitForStabilization">>)
               \o When(Capped(h), IF h.desired = h.max THEN <<"RaiseMaxReplicas">>
                                  ELSE When(h.desired = h.min, <<"LowerMinReplicas">>))
  IN  IF Inactive(h) THEN stale \o <<"RestoreMetrics">> \o VerifyActions(h)
      ELSE IF found = <<>> /\ h.desired = h.current THEN <<"NoImmediateAction">> ELSE found

------------------------------------------------------------------------------
(* Suggestions. *)

Advice(title, patch) == <<[title |-> title, patch |-> patch]>>
NoPatch == <<>>
Field(of, name) == [of |-> of, name |-> name]
MaxField == Field("spec", "max")
MinField == Field("spec", "min")
RulesPatch(side, window, policies) ==
  (Field(side, "window") :> window) @@ (Field(side, "select") :> "Max") @@ (Field(side, "policies") :> policies)

\* Twice the maximum, at least what is wanted, at most the cap - but always more,
\* and an int32.
MaxReplicasCap == 200
Int32(n) == IF n > MaxReplicas32 THEN n - 2 * (MaxReplicas32 + 1) ELSE n
RecommendedMax(h) ==
  Int32(Max({h.max + 1, Min({MaxReplicasCap, Max({2 * h.max, h.desired, h.max + 1})})}))

RaiseMax(h) ==
  When(Capped(h) /\ h.desired = h.max /\ h.current # 0,
       Advice("Raise maxReplicas", MaxField :> RecommendedMax(h)))
LowerMin(h) ==
  When(Capped(h) /\ h.desired = h.min /\ h.min > 1, Advice("Lower minReplicas", MinField :> h.min - 1))

DefaultWindow == 300
ShortenWindow(h) ==
  When(Stabilized(h) /\ DownWindow(h) # Unset,
       When(DownWindow(h) > 60 /\ DownWindow(h) # DefaultWindow,
            Advice("Shorten scale-down stabilization", Field("down", "window") :> DownWindow(h) \div 2)))

Without(rules) == rules = Unset \/ rules.policies \in {Unset, <<>>}
Loaded(h) == \E r \in Range(h.readings) : Above(RatioOf(h, r))
Unloaded(h) == \E r \in Range(h.readings) :
  LET ratio == RatioOf(h, r) IN ratio # Unset /\ 10 * ratio[1] < 8 * ratio[2]

UpPolicies   == <<[type |-> "Percent", value |-> 100, period |-> 60], [type |-> "Pods", value |-> 4, period |-> 60]>>
DownPolicies == <<[type |-> "Percent", value |-> 50, period |-> 60]>>
Policies(h) ==
  When(Loaded(h) /\ (~h.behavior \/ Without(h.up)),
       Advice("Add explicit scale-up policy", RulesPatch("up", 0, UpPolicies)))
  \o When(Unloaded(h) /\ (~h.behavior \/ Without(h.down)),
       Advice("Add explicit scale-down policy", RulesPatch("down", DefaultWindow, DownPolicies)))

\* A resource metric two to ten percent above its target, and no change.
ReviewTolerance(h) ==
  LET i == OffTarget(h) ratio == RatioOf(h, h.readings[i])
  IN  When(h.current = h.desired /\ i # 0,
        When(100 * ratio[1] >= 102 * ratio[2] /\ 100 * ratio[1] <= 110 * ratio[2],
             Advice("Review scale-up tolerance", Field("up", "tolerance") :> 5)))

MetricMix(h) ==
  FlattenSeq([i \in DOMAIN h.metrics |->
    When(h.metrics[i].type = "External" /\ ReadingsOf(h, h.metrics[i]) = {},
         Advice("Investigate stale external metric", NoPatch))])
  \o When(h.metrics # <<>> /\ ~\E m \in Range(h.metrics) : m.type \in {"Resource", "ContainerResource"},
          Advice("Consider a resource safety metric", NoPatch))
InspectKeda(h) == When(h.keda, Advice("Inspect KEDA ScaledObject", NoPatch))

Freshness(h) ==
  FlattenSeq([i \in DOMAIN h.metrics |->
    CASE h.metrics[i].type = "External" -> Advice("Check external metric freshness", NoPatch)
      [] h.metrics[i].type = "Object" -> Advice("Check object metric target", NoPatch)
      [] OTHER -> <<>>])

\* Broken metrics come before anything else.
Suggestions(h) ==
  LET found == RaiseMax(h) \o LowerMin(h) \o ShortenWindow(h) \o Policies(h)
               \o ReviewTolerance(h) \o MetricMix(h) \o InspectKeda(h)
  IN  IF Inactive(h) THEN Advice("Restore metric availability", NoPatch) \o Freshness(h)
      ELSE IF found = <<>> THEN Advice("No safe automatic fix", NoPatch) ELSE found

------------------------------------------------------------------------------
(* The spec after a merge patch: what the patch does not name stays. *)

NoRules == [select |-> Unset, policies |-> Unset, tolerance |-> Unset, window |-> Unset]
FieldsOf(p, of) == {f.name : f \in {g \in DOMAIN p : g.of = of}}
Merged(rules, p, side) ==
  IF FieldsOf(p, side) = {} THEN rules
  ELSE [name \in FieldsOf(p, side) |-> p[Field(side, name)]] @@ (IF rules = Unset THEN NoRules ELSE rules)
Patched(h, p) ==
  [h EXCEPT !.max = IF MaxField \in DOMAIN p THEN p[MaxField] ELSE @,
            !.min = IF MinField \in DOMAIN p THEN p[MinField] ELSE @,
            !.behavior = @ \/ \E f \in DOMAIN p : f.of # "spec",
            !.up = Merged(@, p, "up"), !.down = Merged(@, p, "down")]

\* Several suggestions applied together: the last one wins.
Together(advice) == FoldLeft(LAMBDA p, s : s.patch @@ p, NoPatch, advice)

------------------------------------------------------------------------------
(* What is assumed of a controller that cannot be asked (src/pkg/hpa/assumptions.go):
   the HPA's spec first, then a profile read from the cluster, then the documented
   default; flags of the user override all.  An assumption is [source, value, sure].
   A profile and the overrides are functions from names to values.            *)

Names       == {"sync", "tolerance", "cpuInit", "readiness", "down", "up"}
Observable  == Names \ {"up"}
Overridable == {"sync", "tolerance", "cpuInit", "readiness"}

FromSpec(v)   == [source |-> "spec", value |-> v, sure |-> "high"]
Default(name) == [source |-> "default", value |-> "default",
                  sure |-> IF name \in {"cpuInit", "readiness"} THEN "low" ELSE "medium"]

RulesField(h, rules, name) == IF ~h.behavior \/ rules = Unset THEN Unset ELSE rules[name]
Configured(h) == {d \in {"up", "down"} : RulesField(h, h[d], "tolerance") # Unset}
Directional(h, d) == IF d \in Configured(h) THEN h[d].tolerance ELSE DefaultTolerance

Detected(h, name) ==
  CASE name = "tolerance" /\ Configured(h) # {} -> FromSpec(<<Directional(h, "up"), Directional(h, "down")>>)
    [] name \in {"up", "down"} /\ RulesField(h, h[name], "window") # Unset -> FromSpec(h[name].window)
    [] OTHER -> Default(name)

\* Only a default gives way to a profile; an override is as sure as the spec.
Observed(a, name, profile) ==
  IF a.source = "default" /\ name \in DOMAIN profile
  THEN [source |-> "profile", value |-> profile[name], sure |-> "medium"] ELSE a
Assumed(h, profile, overrides) ==
  [name \in Names |->
     IF name \in DOMAIN overrides THEN [source |-> "override", value |-> overrides[name], sure |-> "high"]
     ELSE Observed(Detected(h, name), name, profile)]

AssumedSummary(as) == [sure \in {"high", "medium", "low"} |-> Cardinality({n \in Names : as[n].sure = sure})]
AssumedWarnings(as) ==
  {n \in {"cpuInit", "readiness"} : as[n].sure = "low" /\ as[n].source \notin {"spec", "override"}}
  \cup {n \in {"tolerance", "down"} : as[n].source = "default"}

\* The tolerances an analysis carries, replaced each time it is finalized.
Finalized(carried, h) ==
  SelectSeq(carried, LAMBDA a : a.name \notin {"toleranceUp", "toleranceDown"})
  \o [i \in 1..2 |->
        LET d == IF i = 1 THEN "up" ELSE "down"
        IN  [name |-> IF i = 1 THEN "toleranceUp" ELSE "toleranceDown", value |-> Directional(h, d),
             source |-> IF d \in Configured(h) THEN "spec" ELSE "default"]]
=============================================================================
