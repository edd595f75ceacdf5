------------------------------ MODULE Simulation ------------------------------
(* `simulate` (src/pkg/hpa/simulate): a copy of an HPA with overridden fields and
   readings, and the replica count a controller would make of it.

   An override is a function from paths [field, name] (name only of a metric) to
   values; a metric override a function from metric names to [relative, amount],
   in percent when relative.  Quantities count milli-units.  Unset stands for a
   refused scenario.  Text that is no number, keys that differ in case only and
   out-of-range numbers are refused like the values below and are not listed.   *)
EXTENDS HpaObject

------------------------------------------------------------------------------
(* Overrides of the spec. *)

PathOrder == <<"maxReplicas", "metric", "minReplicas", "scaleDown.policies",
               "scaleDown.selectPolicy", "scaleDown.stabilizationWindowSeconds",
               "scaleDown.tolerance", "scaleUp.policies", "scaleUp.selectPolicy",
               "scaleUp.stabilizationWindowSeconds", "scaleUp.tolerance",
               "targetAverageUtilization", "tolerance">>
Rank(field) == CHOOSE i \in DOMAIN PathOrder : PathOrder[i] = field

\* Rate policies and windows need a history of events or recommendations.
Unsupported == {"scaleDown.policies", "scaleUp.policies",
                "scaleDown.stabilizationWindowSeconds", "scaleUp.stabilizationWindowSeconds"}

EmptyRules == [select |-> Unset, policies |-> Unset, tolerance |-> Unset, window |-> Unset]
WithBehavior(h) ==
  [h EXCEPT !.behavior = TRUE,
            !.up   = IF h.behavior /\ h.up # Unset THEN h.up ELSE EmptyRules,
            !.down = IF h.behavior /\ h.down # Unset THEN h.down ELSE EmptyRules]

Named(h, name) == {i \in DOMAIN h.metrics : h.metrics[i].name = name}

\* Only a name of one metric is resolved.
WithTarget(h, name, v) ==
  IF Cardinality(Named(h, name)) # 1 \/ v <= 0 THEN Unset
  ELSE [h EXCEPT !.metrics[CHOOSE i \in Named(h, name) : TRUE].target = v]

WithAverageUtilization(h, v) ==
  [h EXCEPT !.metrics = [i \in DOMAIN h.metrics |->
     IF h.metrics[i].type = "Resource" THEN [h.metrics[i] EXCEPT !.kind = "Utilization", !.target = v]
     ELSE h.metrics[i]]]

WithTolerance(h, v, up, down) ==
  LET b == WithBehavior(h)
  IN  [b EXCEPT !.up.tolerance = IF up THEN v ELSE @, !.down.tolerance = IF down THEN v ELSE @]

\* One override; h may be a refusal already.
Overridden(h, path, v) ==
  IF h = Unset \/ path.field \in Unsupported THEN Unset
  ELSE CASE path.field = "maxReplicas" -> IF v < 1 THEN Unset ELSE [h EXCEPT !.max = v]
         [] path.field = "minReplicas" -> IF v < 0 THEN Unset ELSE [h EXCEPT !.min = v]
         [] path.field = "metric"      -> WithTarget(h, path.name, v)
         [] path.field = "targetAverageUtilization" ->
              IF v <= 0 THEN Unset ELSE WithAverageUtilization(h, v)
         [] path.field = "scaleUp.selectPolicy"   -> [WithBehavior(h) EXCEPT !.up.select = v]
         [] path.field = "scaleDown.selectPolicy" -> [WithBehavior(h) EXCEPT !.down.select = v]
         [] OTHER -> IF v < 0 THEN Unset
                     ELSE WithTolerance(h, v, path.field # "scaleDown.tolerance", path.field # "scaleUp.tolerance")

\* Mutant: the keys in the opposite order.
\* A map has no order of its own: the keys are sorted.
Paths(overrides) ==
  SetToSortSeq(DOMAIN overrides, LAMBDA p, q : Rank(p.field) < Rank(q.field))

------------------------------------------------------------------------------
(* Overrides of readings. *)

Current(h, m) == {i \in DOMAIN h.readings : h.readings[i].id = m.id}

\* The kind an absolute value is stored as; Unset where the target has none.
ResourceKind(m)  == IF m.kind \in {"Utilization", "AverageValue"} THEN m.kind ELSE Unset
ContainerKind(m) == IF m.kind = "Utilization" THEN m.kind ELSE "AverageValue"
ExternalKind(m)  == IF m.kind \in {"AverageValue", "Value"} THEN m.kind ELSE Unset
ObjectKind(m)    == IF m.kind = "AverageValue" THEN m.kind ELSE "Value"
PodsKind         == "AverageValue"
StoredKind(m) ==
  CASE m.type = "Resource"          -> ResourceKind(m)
    [] m.type = "ContainerResource" -> ContainerKind(m)
    [] m.type = "External"          -> ExternalKind(m)
    [] m.type = "Object"            -> ObjectKind(m)
    [] m.type = "Pods"              -> PodsKind

\* A percentage of the current value, rounded half up, never below zero.
Scaled(v, percent) ==
  LET scaled == (2 * v * (100 + percent) + 100) \div 200 IN IF scaled < 0 THEN 0 ELSE scaled

\* Only of a metric of these types, whose reading has the target's kind.
Relative(h, m, i, percent) ==
  IF m.type \notin {"Resource", "External"} \/ StoredKind(m) \notin DOMAIN h.readings[i].values THEN Unset
  ELSE Scaled(h.readings[i].values[StoredKind(m)], percent)

WithReading(h, name, v) ==
  IF h = Unset THEN Unset
  ELSE IF Cardinality(Named(h, name)) # 1 THEN Unset
  ELSE LET m     == h.metrics[CHOOSE i \in Named(h, name) : TRUE]
           found == Current(h, m)
           i     == CHOOSE j \in found : TRUE
           n     == IF v.relative THEN Relative(h, m, i, v.amount) ELSE v.amount
       IN  IF Cardinality(found) # 1 \/ StoredKind(m) = Unset THEN Unset
           ELSE IF n = Unset THEN Unset
           ELSE [h EXCEPT !.readings[i].values = StoredKind(m) :> n]

------------------------------------------------------------------------------
(* What the controller would recommend. *)

ValidRules(rules) ==
  rules # Unset =>
    /\ rules.window # Unset => rules.window \in 0..3600
    /\ rules.select \in {Unset, "Max", "Min", "Disabled"}
    /\ rules.policies # Unset =>
         /\ rules.policies # <<>>
         /\ \A p \in Range(rules.policies) : ValidPolicy(p) /\ p.period \in 1..1800
ValidHpa(h) ==
  /\ h.min >= 0 /\ h.max >= 1 /\ h.max >= h.min
  /\ h.behavior => ValidRules(h.up) /\ ValidRules(h.down)

FromOutside == {"Object", "External"}

\* At zero replicas only a metric that does not come from the pods counts.
MetricDesired(h, r) ==
  LET ratio == RatioOf(h, r)
  IN  IF ratio = Unset THEN {}
      ELSE IF h.current # 0 THEN {EstimatedDesired(h, ratio)}
      ELSE IF TargetOf(h, r).type \in FromOutside /\ TargetOf(h, r).kind = "Value"
           THEN {Clamped(Ceiling(ratio[1], ratio[2]))}
      ELSE {}

Recommendations(h) == UNION {MetricDesired(h, h.readings[i]) : i \in DOMAIN h.readings}

ComputesFromZero(h) ==
  /\ CondIs(h, "ScaledToZero", "True")
  /\ h.min # 0 \/ \E i \in DOMAIN h.metrics : h.metrics[i].type \in FromOutside
HeldAtZero(h) == h.current = 0 /\ ~ComputesFromZero(h)
ZeroIsProjectable(h) == h.current # 0 \/ HeldAtZero(h) \/ Recommendations(h) # {}

PolicyLimit(h, up) ==
  LET rules    == IF up THEN h.up ELSE h.down
      select   == IF rules = Unset THEN "Max" ELSE IF rules.select = Unset THEN "Max" ELSE rules.select
      policies == IF rules = Unset THEN DefaultPolicies(up)
                  ELSE IF rules.policies = Unset THEN DefaultPolicies(up) ELSE rules.policies
      limit    == Limit(h.current, up, select, policies, 0, <<>>)
  IN  IF limit = {} THEN h.current ELSE CHOOSE n \in limit : TRUE

LegacyLimit(h) == Clamped(Max({2 * h.current, 4}))

Within(n)         == [desired |-> n, limited |-> FALSE, reason |-> "DesiredWithinRange"]
Bounded(n, why)   == [desired |-> n, limited |-> TRUE, reason |-> why]
AtMost(h, n, limit) ==
  LET top == Min({h.max, limit})
  IN  IF n <= top THEN Within(n)
      ELSE Bounded(top, IF limit < h.max THEN "ScaleUpLimit" ELSE "TooManyReplicas")
AtLeast(h, n, limit) ==
  LET bottom == Max({h.min, limit})
  IN  IF n >= bottom THEN Within(n)
      ELSE Bounded(bottom, IF limit > h.min THEN "ScaleDownLimit" ELSE "TooFewReplicas")

\* Mutant: the limit of the other direction is asked for on the way down.
Normalized(h, n) ==
  CASE ~h.behavior   -> IF n < h.min THEN Bounded(h.min, "TooFewReplicas") ELSE AtMost(h, n, LegacyLimit(h))
    [] n > h.current -> AtMost(h, n, Max({h.current, PolicyLimit(h, TRUE)}))
    [] n < h.current -> AtLeast(h, n, Min({h.current, PolicyLimit(h, FALSE)}))
    [] OTHER         -> Within(n)

WithActive(conds, status, reason) ==
  ("ScalingActive" :> [status |-> status, reason |-> reason]) @@ conds
Stabilized == {"ScaleUpStabilized", "ScaleDownStabilized"}
WithLimited(conds, limited, reason) ==
  LET kept == {t \in DOMAIN conds :
                 /\ t \notin {"ScalingLimited", "ScaledToZero"}
                 /\ ~(t = "AbleToScale" /\ conds[t].reason \in Stabilized)}
  IN  ("ScalingLimited" :> [status |-> IF limited THEN "True" ELSE "False", reason |-> reason])
        @@ Restrict(conds, kept)

\* Mutant: missing readings are taken for low ones.
AskedBlindly(h) == IF Recommendations(h) = {} THEN h.desired ELSE Max(Recommendations(h))

\* The highest recommendation; incomplete readings never shrink the target.
Asked(h) ==
  LET n == IF Recommendations(h) = {} THEN h.desired ELSE Max(Recommendations(h))
  IN  IF ~OneToOne(h) /\ n < h.current THEN h.current ELSE n

Recomputed(h) ==
  IF HeldAtZero(h)
  THEN [h EXCEPT !.desired = 0,
                 !.conds = WithLimited(WithActive(h.conds, "False", "ScalingDisabled"), FALSE, "DesiredWithinRange")]
  ELSE LET fromZero == h.current = 0 /\ CondIs(h, "ScaledToZero", "True")
           result   == Normalized(h, Asked(h))
           desired  == IF fromZero /\ result.desired < h.min THEN h.min ELSE result.desired
           active   == IF fromZero /\ Recommendations(h) # {}
                       THEN WithActive(h.conds, "True", "ValidMetricFound") ELSE h.conds
       IN  [h EXCEPT !.desired = desired, !.conds = WithLimited(active, result.limited, result.reason)]

\* The HPA with its overrides but not yet recomputed.
Edited(h, overrides, readings) ==
  FoldLeft(LAMBDA x, name : WithReading(x, name, readings[name]),
           FoldLeft(LAMBDA x, path : Overridden(x, path, overrides[path]), h, Paths(overrides)),
           SetToSeq(DOMAIN readings))

Simulated(h, overrides, readings) ==
  LET edited == Edited(h, overrides, readings)
  IN  IF edited = Unset THEN Unset
      ELSE IF ~ValidHpa(edited) THEN Unset
      ELSE IF DOMAIN overrides = {} /\ DOMAIN readings = {} THEN edited
      ELSE IF ~ZeroIsProjectable(edited) THEN Unset
      ELSE Recomputed(edited)

\* What the report says of one overridden metric; after is the recomputed HPA.
MetricProjection(h, after, name) ==
  LET m     == h.metrics[CHOOSE i \in Named(h, name) : TRUE]
      r     == after.readings[CHOOSE i \in Current(after, m) : TRUE]
      found == MetricDesired(after, r)
  IN  IF Cardinality(Current(after, m)) # 1 \/ found = {} THEN after.desired
      ELSE Normalized(after, CHOOSE n \in found : TRUE).desired

------------------------------------------------------------------------------
(* The trajectory: the count at each time offset. *)

Delay(after, start) ==
  LET rules == IF after.desired > start THEN after.up ELSE after.down
  IN  IF ~after.behavior \/ rules = Unset THEN 0 ELSE IF rules.window = Unset THEN 0 ELSE rules.window

PointsOf(duration, step) == Ceiling(duration, step) + 1

\* An offset every step, and the end of the duration if no step falls on it.
Trajectory(h, after, duration, step, limit) ==
  LET width  == IF step > duration THEN duration ELSE step
      steps  == duration \div width
      count(t) == IF t < Delay(after, h.desired) THEN h.desired ELSE after.desired
      points == [i \in 1..steps + 1 |-> [time |-> (i - 1) * width, replicas |-> count((i - 1) * width)]]
  IN  IF PointsOf(duration, width) > limit THEN Unset
      ELSE IF duration % width = 0 THEN points
      ELSE Append(points, [time |-> duration, replicas |-> count(duration)])

------------------------------------------------------------------------------
(* What the report says of the outcome; before is the live HPA. *)

Limited(h) == CondIs(h, "ScalingLimited", "True")

Statements(before, after) ==
  {IF before.desired = after.desired THEN "desired unchanged" ELSE "desired changes"}
    \cup (IF Limited(before) /\ ~Limited(after) THEN {"limit resolved"} ELSE {})
    \cup (IF ~Limited(before) /\ Limited(after) THEN {"limit appears"} ELSE {})
    \cup (IF before.desired >= after.max THEN {"still at or above the new maximum"} ELSE {})

\* The code compares minimums when both are set; the API server sets one always.
BoundRisks(before, after) ==
  (IF after.max > before.max THEN {"raises maximum"} ELSE {})
    \cup (IF after.min < before.min THEN {"lowers minimum"} ELSE {})
    \cup (IF after.min > before.min THEN {"raises minimum"} ELSE {})
    \cup (IF after.behavior /\ after.down # Unset
          THEN IF after.down.window # Unset /\ after.down.window < 60 THEN {"short window"} ELSE {}
          ELSE {})

MetricRisks(before, after, name) ==
  LET m     == before.metrics[CHOOSE i \in Named(before, name) : TRUE]
      ratio == RatioOf(after, after.readings[CHOOSE i \in Current(after, m) : TRUE])
  IN  IF Cardinality(Current(after, m)) # 1 \/ ratio = Unset THEN {}
      ELSE (IF ratio[1] >= 2 * ratio[2] THEN {"very high"} ELSE {})
             \cup (IF MetricProjection(before, after, name) >= before.max THEN {"reaches maximum"} ELSE {})
             \cup (IF 2 * ratio[1] <= ratio[2] /\ before.min > 0 THEN {"very low"} ELSE {})

\* What is said of the projected count.  Lines about a drop of the health score are left out.
Warnings(before, after) ==
  (IF before.desired > 0 /\ 2 * after.desired \notin before.desired..3 * before.desired THEN {"large swing"} ELSE {})
    \cup (IF after.desired >= after.max THEN {"at maximum"} ELSE {})
    \cup (IF after.desired <= after.min THEN {"at minimum"} ELSE {})

=============================================================================
