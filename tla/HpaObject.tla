------------------------------ MODULE HpaObject ------------------------------
(* The HorizontalPodAutoscaler as the analyses read it, and the arithmetic they
   share: metric identity and ratio, directional tolerance, rate policies.

   An HPA is a record
     min, max            bounds (minReplicas resolved: absent means 1)
     current, desired    status replicas
     metrics             spec metrics, a sequence of
                         [id, type, name, kind, target]
     readings            status.currentMetrics, a sequence of [id, type, values],
                         with values a function from the value kinds present
     up, down            behavior rules of a direction
     behavior            FALSE when spec.behavior is absent
     conds               a function from condition types to [status, reason]
   An id stands for the canonical metric identity (type, name, container,
   selector, described object): equal ids are equal identities.  Rules are
     [select, policies, tolerance, window], Unset where the field is absent.

   Ratios are exact fractions <<num, den>>; the instances keep to inputs where
   float64 gives the same ceiling.  MaxReplicas32 is the int32 limit, a constant
   so that a small instance reaches it.                                        *)
EXTENDS Integers, Sequences, SequencesExt, FiniteSetsExt

CONSTANTS MaxReplicas32, Unset

Ceiling(a, b) == (a + b - 1) \div b
Clamped(n)    == IF n > MaxReplicas32 THEN MaxReplicas32 ELSE IF n < 0 THEN 0 ELSE n

------------------------------------------------------------------------------
(* Conditions. *)

CondIs(h, type, status) == type \in DOMAIN h.conds /\ h.conds[type].status = status
CondReason(h, type, reason) == type \in DOMAIN h.conds /\ h.conds[type].reason = reason
CondNotTrue(h, type)    == type \in DOMAIN h.conds /\ h.conds[type].status # "True"

------------------------------------------------------------------------------
(* Metrics. *)

\* The target of the first spec metric with the reading's identity.
TargetsOf(h, r)  == {i \in DOMAIN h.metrics : h.metrics[i].id = r.id}
TargetOf(h, r)   == h.metrics[Min(TargetsOf(h, r))]

\* The value and target a ratio is taken of: utilization first, then the average,
\* then the plain value.
RatioOf(h, r) ==
  IF TargetsOf(h, r) = {} THEN Unset
  ELSE LET t == TargetOf(h, r)
           of(kind) == IF kind = t.kind /\ t.target # 0 THEN <<r.values[kind], t.target>> ELSE Unset
       IN  CASE "Utilization" \in DOMAIN r.values -> of("Utilization")
             [] "AverageValue" \in DOMAIN r.values /\ t.kind = "AverageValue" -> of("AverageValue")
             [] "Value" \in DOMAIN r.values /\ t.kind = "Value" -> of("Value")
             [] OTHER -> Unset

Above(ratio) == ratio # Unset /\ ratio[1] > ratio[2]
Below(ratio) == ratio # Unset /\ ratio[1] < ratio[2]

\* Every spec metric has exactly one usable reading of its own, and no other.
OneToOne(h) ==
  /\ Len(h.metrics) = Len(h.readings)
  /\ \A i, j \in DOMAIN h.metrics : h.metrics[i].id = h.metrics[j].id => i = j
  /\ \A i, j \in DOMAIN h.readings : h.readings[i].id = h.readings[j].id => i = j
  /\ \A i \in DOMAIN h.readings :
       /\ TargetsOf(h, h.readings[i]) # {}
       /\ TargetOf(h, h.readings[i]).kind \in DOMAIN h.readings[i].values

------------------------------------------------------------------------------
(* Tolerance, in percent. *)

DefaultTolerance == 10

RulesFor(h, ratio) == IF Above(ratio) THEN h.up ELSE IF Below(ratio) THEN h.down ELSE Unset
DirectionalTolerance(h, ratio) ==
  LET rules == RulesFor(h, ratio)
  IN  IF ~h.behavior \/ rules = Unset THEN DefaultTolerance
      ELSE IF rules.tolerance = Unset THEN DefaultTolerance ELSE rules.tolerance

\* |ratio - 1| <= tolerance.  On the very edge the float64 of both sides decide: 1.1 - 1
\* exceeds 0.1 and 0.9 - 1 does not.  A tolerance is kept in thousandths, times 1e-3.
EdgeInside(t, above) ==
  t \notin IF above THEN 1..12 \cup 29..37 \cup 58..62 \cup 84..87
                   ELSE 1..6 \cup 15..18 \cup 29..31 \cup {42, 43, 58, 59}
WithinTolerance(h, ratio) ==
  LET t     == DirectionalTolerance(h, ratio)
      delta == 100 * (ratio[1] - ratio[2])
      edge  == t * ratio[2]
  IN  \/ delta < edge /\ -delta < edge
      \/ (delta = edge \/ -delta = edge) /\ EdgeInside(t, Above(ratio))

ProjectedReplicas(n, ratio) == Clamped(Ceiling(n * ratio[1], ratio[2]))
EstimatedDesired(h, ratio) ==
  IF WithinTolerance(h, ratio) THEN h.current ELSE ProjectedReplicas(h.current, ratio)

------------------------------------------------------------------------------
(* Rate policies: [type, value, period]. *)

DefaultPolicies(up) ==
  IF up THEN <<[type |-> "Pods", value |-> 4, period |-> 15],
               [type |-> "Percent", value |-> 100, period |-> 15]>>
  ELSE <<[type |-> "Percent", value |-> 100, period |-> 15]>>

ValidPolicy(p) == p.value > 0 /\ p.type \in {"Pods", "Percent"}
ReplicaLimit(n, up, p) ==
  LET sign == IF up THEN p.value ELSE -p.value
  IN  Clamped(IF p.type = "Pods" THEN n + sign ELSE Ceiling(n * (100 + sign), 100))

\* Replicas at the start of the policy's period, from the changes made since.
Baseline(n, p, now, history) ==
  LET recent == SelectSeq(history, LAMBDA e : e.time > now - p.period /\ e.time <= now)
  IN  Clamped(n - FoldLeft(LAMBDA sum, e : sum + e.change, 0, recent))

\* The set holds the limit, or nothing when no policy is valid.
Limit(n, up, select, policies, now, history) ==
  LET candidate(p) ==
        LET c == ReplicaLimit(Baseline(n, p, now, history), up, p)
        IN  IF up THEN Max({n, c}) ELSE Min({n, c})
      found == {candidate(policies[i]) : i \in {j \in DOMAIN policies : ValidPolicy(policies[j])}}
  IN  IF select = "Disabled" THEN {n}
      ELSE IF found = {} THEN {}
      ELSE IF up = (select # "Min") THEN {Max(found)} ELSE {Min(found)}

=============================================================================
