----------------------------- MODULE DecisionTrace -----------------------------
(* Why the HPA wants what it wants (src/pkg/hpa/metric_trace.go, decision_trace.go,
   decision_estimation.go, metric_utils.go, analysis_phases.go): an entry per
   reading, the metric that probably won, and how sure that is.  Of the HPA it also
   reads `behind`, the generations its status lags by.                        *)
EXTENDS HpaObject

\* The metric kinds the tool knows; a reading of another kind has no name.
Known == {"Resource", "ContainerResource", "Pods", "Object", "External"}
Named(h) == SelectSeq(h.readings, LAMBDA r : r.type \in Known)

DirectionOf(ratio, t) ==
  LET delta == 100 * (ratio[1] - ratio[2])
  IN  CASE delta > t * ratio[2] -> "up" [] -delta > t * ratio[2] -> "down" [] OTHER -> "none"

Entry(h, r) ==
  LET ratio == RatioOf(h, r)
  IN  IF ratio = Unset
      THEN [name |-> r.id, ratio |-> Unset, within |-> FALSE, desired |-> Unset, direction |-> "none"]
      ELSE [name |-> r.id, ratio |-> ratio, within |-> WithinTolerance(h, ratio),
            desired |-> EstimatedDesired(h, ratio),
            direction |-> DirectionOf(ratio, DirectionalTolerance(h, ratio))]
Entries(h) == [i \in DOMAIN Named(h) |-> Entry(h, Named(h)[i])]

------------------------------------------------------------------------------
(* The winner. *)

Stabilized(h) == CondReason(h, "AbleToScale", "ScaleDownStabilized")

\* Bounds, missing readings and stabilization hide which metric decided.
Hidden(h) ==
  \/ h.desired >= h.max
  \/ h.desired <= h.min /\ ~\E r \in Range(h.readings) :
       RatioOf(h, r) # Unset /\ EstimatedDesired(h, RatioOf(h, r)) > h.min
  \/ Len(h.readings) < Len(h.metrics)
  \/ Stabilized(h)

Counted(es) == {i \in DOMAIN es : es[i].desired # Unset}
Leaders(es) == {i \in Counted(es) : \A j \in Counted(es) : es[j].desired <= es[i].desired}
WinnerOf(es) == IF Leaders(es) = {} THEN 0 ELSE Min(Leaders(es))
ConfidenceOf(h, es) ==
  IF Leaders(es) = {} THEN "" ELSE IF Cardinality(Leaders(es)) > 1 \/ Hidden(h) THEN "low" ELSE "medium"

SelectPolicy(h, es) ==
  LET rules == IF WinnerOf(es) # 0 /\ es[WinnerOf(es)].direction = "down" THEN h.down ELSE h.up
  IN  IF ~h.behavior \/ rules = Unset THEN "Max"
      ELSE IF rules.select = Unset THEN "Max" ELSE rules.select

DownWindow(h) == IF ~h.behavior \/ h.down = Unset THEN Unset ELSE h.down.window
Suppressed(h) == Stabilized(h) /\ DownWindow(h) # Unset

MetricTrace(h) ==
  LET es == Entries(h)
  IN  [entries |-> es, winner |-> WinnerOf(es), confidence |-> ConfidenceOf(h, es),
       select |-> SelectPolicy(h, es), suppressed |-> Suppressed(h),
       tolerated |-> {es[i].name : i \in {j \in DOMAIN es : es[j].within}}]

\* Why the summary calls the winner uncertain.
Doubts(h, es) ==
  LET known == {d \in {"tie", "max", "min", "missing", "stabilized"} :
        CASE d = "tie" -> Cardinality(Leaders(es)) > 1
          [] d = "max" -> h.desired >= h.max
          [] d = "min" -> h.desired <= h.min /\ Hidden(h)
          [] d = "missing" -> Len(h.readings) < Len(h.metrics)
          [] OTHER -> Stabilized(h)}
  IN  IF WinnerOf(es) = 0 \/ ConfidenceOf(h, es) # "low" THEN {}
      ELSE IF known = {} THEN {"state"} ELSE known

------------------------------------------------------------------------------
(* The estimate without tolerance. *)

RawDesired(h, r) ==
  IF RatioOf(h, r) = Unset \/ h.current = 0 THEN Unset ELSE ProjectedReplicas(h.current, RatioOf(h, r))
Highest(h) == Max({0} \cup {RawDesired(h, r) : r \in {q \in Range(Named(h)) : RawDesired(h, q) # Unset}})

LimitCheck(h) ==
  CASE Highest(h) > h.max -> "capped"
    [] Highest(h) > 0 /\ Highest(h) < h.min -> "raised"
    [] Highest(h) > 0 -> "within"
    [] OTHER -> "unavailable"
FinalWord(h) ==
  CASE LimitCheck(h) = "capped" -> "wants, capped" [] Highest(h) > 0 -> "wants" [] OTHER -> "not visible"
TraceConfidence(h) == IF Named(h) = <<>> THEN "low" ELSE "medium"

------------------------------------------------------------------------------
(* The signals of an analysis: [reason, metric, source, class], of no metric as 0. *)

EstimatedSignal(reason, metric, source, sure) ==
  [reason |-> reason, metric |-> metric, source |-> source, class |-> IF sure THEN "Estimated" ELSE "Unknown"]
ObservedSignal(reason) == [reason |-> reason, metric |-> 0, source |-> "HPAController", class |-> "Observed"]

DecisionSignals(h) ==
  LET t == MetricTrace(h)
  IN  {s \in {EstimatedSignal("ScaleDownStabilized", 0, "StabilizationWindow", TRUE)} : Stabilized(h)}
      \cup {EstimatedSignal("MetricWinner", t.entries[i].name, "MetricDecisionTrace", t.confidence = "medium") :
              i \in {t.winner} \ {0}}
      \cup {EstimatedSignal("MetricOutsideTolerance", t.entries[i].name, "MetricRatio", TRUE) :
              i \in {j \in DOMAIN t.entries : ~t.entries[j].within /\ t.entries[j].ratio # Unset}}
      \cup {s \in {EstimatedSignal("StabilizationEffect", 0, "StabilizationWindow", TRUE)} :
              h.readings # <<>> /\ t.suppressed}
      \cup {s \in {EstimatedSignal("ToleranceEffect", 0, "Tolerance", TRUE)} : t.tolerated # {}}
      \cup {s \in {ObservedSignal("DesiredWithinTolerance")} : CondReason(h, "AbleToScale", "DesiredWithinTolerance")}
      \cup {s \in {ObservedSignal("ScalingActive")} : CondNotTrue(h, "ScalingActive")}
      \cup {s \in {ObservedSignal("ScalingLimited")} : CondIs(h, "ScalingLimited", "True")}

\* The metric that would ask for the most, provided some metric is off its target.
Influential(h) ==
  LET rated == {i \in DOMAIN h.readings : RatioOf(h, h.readings[i]) # Unset}
      want(i) == EstimatedDesired(h, RatioOf(h, h.readings[i]))
      off(i) == LET ratio == RatioOf(h, h.readings[i]) IN ratio[1] # ratio[2]
  IN  IF ~\E i \in rated : off(i) THEN 0
      ELSE Min({i \in rated : \A j \in rated : want(j) <= want(i)})

\* Also the first resource metric off its target.
OffTarget(h) ==
  LET off == {i \in DOMAIN h.readings :
                h.readings[i].type = "Resource" /\ "Utilization" \in DOMAIN h.readings[i].values
                /\ RatioOf(h, h.readings[i]) # Unset
                /\ (Above(RatioOf(h, h.readings[i])) \/ Below(RatioOf(h, h.readings[i])))}
  IN  IF off = {} THEN 0 ELSE Min(off)

------------------------------------------------------------------------------
(* One word for what the HPA is doing. *)

FromReplicas(h) ==
  CASE h.current = h.max /\ h.desired = h.max -> "at_max"
    [] h.desired > h.current -> "scale_up"
    [] h.desired < h.current -> "scale_down"
    [] h.desired = h.min -> IF h.min = 0 THEN "at_min_scale_to_zero" ELSE "at_min"
    [] OTHER -> "unchanged"
SummaryKey(h) ==
  CASE CondNotTrue(h, "ScalingActive") -> "inactive"
    [] h.desired = 0 /\ h.current > 0 -> IF h.min = 0 THEN "scale_to_zero" ELSE "no_recommendation"
    [] h.min = 0 /\ h.desired = 0 /\ h.current = 0 -> "scaled_to_zero"
    [] OTHER -> FromReplicas(h)

ColdStart(h) == h.min = 0 /\ h.current = 0 /\ h.desired > 0

\* Factors no status shows.
HiddenFactors(h) ==
  {f \in {"missing", "tolerance", "stabilization", "not ready"} :
     CASE f = "missing" -> Len(h.metrics) > Len(h.readings)
       [] f = "tolerance" -> h.desired = h.current /\ \E r \in Range(h.readings) :
            LET ratio == RatioOf(h, r)
            IN  ratio # Unset /\ 10 * ratio[1] > 9 * ratio[2] /\ 10 * ratio[1] < 11 * ratio[2]
       [] f = "stabilization" -> Stabilized(h)
       [] OTHER -> h.desired > h.current}

\* An HPA without a target or with bounds that make no sense is not analyzed.
Analyzable(h) == h.target /\ h.max > 0 /\ h.min <= h.max

=============================================================================
