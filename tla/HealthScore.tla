------------------------------ MODULE HealthScore ------------------------------
(* The health score (src/pkg/hpa/health.go): what the HPA's own status costs, then
   the penalties of data that is attached later.  An analysis is
     [state, score, signals, base, keda, vpa, churn]
   where base is the health before any enrichment (Unset when the analysis was not
   made in this process) and the last three say whether a KEDA metric is failing, a
   VPA conflict was found, and how bad churn is.                               *)
EXTENDS HpaObject, TLC

DefaultWeights ==
  [inactive |-> 45, unable |-> 35, limited |-> 25, ceiling |-> 20, stabilized |-> 10,
   minimum |-> 5, keda |-> 15, vpa |-> 20, churn |-> 15]
Resolved(weights) == weights @@ DefaultWeights

Rank == [OK |-> 0, STABILIZED |-> 1, LIMITED |-> 2, ERROR |-> 3]
Worst(states) == CHOOSE s \in states : \A t \in states : Rank[t] <= Rank[s]

Signal(reason, severity, w) == [reason |-> reason, severity |-> severity, penalty |-> w[reason]]
Penalties(signals) == FoldSet(LAMBDA s, sum : sum + s.penalty, 0, signals)
Scored(score, signals) == Max({0, score - Penalties(signals)})

------------------------------------------------------------------------------
(* From the HPA alone. *)

Pressed(h) == \E r \in Range(h.readings) : Above(RatioOf(h, r))
LimitedCondition(h) == CondIs(h, "ScalingLimited", "True")

ConditionSignals(h, w) ==
  {s \in {Signal("inactive", "ERROR", w)} : CondNotTrue(h, "ScalingActive")}
  \cup {s \in {Signal("unable", "ERROR", w)} : CondNotTrue(h, "AbleToScale")}
  \cup {s \in {Signal("limited", "LIMITED", w)} : LimitedCondition(h)}
  \cup {s \in {Signal("stabilized", "STABILIZED", w)} :
          CondIs(h, "AbleToScale", "True") /\ CondReason(h, "AbleToScale", "ScaleDownStabilized")}

CeilingSignals(h, w) ==
  {s \in {Signal("ceiling", "LIMITED", w)} : h.desired = h.max /\ ~LimitedCondition(h) /\ Pressed(h)}

\* The ceiling turns OK into LIMITED and nothing else.
StaticState(h, w) ==
  LET found == Worst({"OK"} \cup {s.severity : s \in ConditionSignals(h, w)})
  IN  IF found = "OK" /\ CeilingSignals(h, w) # {} THEN "LIMITED" ELSE found

MinimumSignals(h, w) ==
  {s \in {Signal("minimum", StaticState(h, w), w)} : h.desired = h.min /\ LimitedCondition(h)}

StaticSignals(h, w) == ConditionSignals(h, w) \cup CeilingSignals(h, w) \cup MinimumSignals(h, w)
Health(h, w) ==
  [state |-> StaticState(h, w), signals |-> StaticSignals(h, w), score |-> Scored(100, StaticSignals(h, w))]

Attached(h, weights) ==
  LET health == Health(h, Resolved(weights))
  IN  health @@ [base |-> health, keda |-> FALSE, vpa |-> FALSE, churn |-> "none"]

------------------------------------------------------------------------------
(* With what was attached. *)

Dynamic == {"keda", "vpa", "churn"}

\* The health before enrichment; guessed from the signals when it was not kept.
Base(a) ==
  IF a.base # Unset THEN a.base
  ELSE LET gone == {s \in a.signals : s.reason \in Dynamic}
           kept == a.signals \ gone
       IN  [state   |-> IF gone = {} THEN a.state ELSE Worst({"OK"} \cup {s.severity : s \in kept}),
            signals |-> kept, score |-> Min({100, a.score + Penalties(gone)})]

Active(a) == {d \in Dynamic : CASE d = "keda" -> a.keda [] d = "vpa" -> a.vpa
                                [] OTHER -> a.churn \in {"high", "critical"}}

\* Mutant: what was attached before is not taken back.
ReconciledOnTop(a, weights) ==
  LET new == {Signal(d, "LIMITED", Resolved(weights)) : d \in Active(a)}
  IN  [a EXCEPT !.base = Base(a), !.signals = @ \cup new, !.score = Scored(@, new),
                !.state = IF new # {} /\ @ # "ERROR" THEN "LIMITED" ELSE @]

Reconciled(a, weights) ==
  LET base == Base(a)
      new  == {Signal(d, "LIMITED", Resolved(weights)) : d \in Active(a)}
  IN  [a EXCEPT !.base = base, !.signals = base.signals \cup new,
                !.score = Scored(base.score, new),
                !.state = IF new # {} /\ base.state # "ERROR" THEN "LIMITED" ELSE base.state]

\* KEDA and VPA data arrive together; nothing is reconciled when there is none.
WithControllers(a, keda, vpa, weights) ==
  LET b == [a EXCEPT !.keda = (keda = "failing"), !.vpa = vpa]
  IN  IF keda # "none" \/ vpa THEN Reconciled(b, weights) ELSE b
WithChurn(a, level, weights) ==
  LET b == [a EXCEPT !.churn = level] IN IF level # "none" THEN Reconciled(b, weights) ELSE b

\* What a reader of the JSON output has.
Published(a) == [a EXCEPT !.base = Unset]

------------------------------------------------------------------------------
(* The row of a list. *)

ListHealth(h, a) ==
  LET limited == LimitedCondition(h) \/ (h.current = h.desired /\ h.desired = h.max)
  IN  IF CondNotTrue(h, "ScalingActive") \/ CondNotTrue(h, "AbleToScale") THEN "ERROR"
      ELSE IF limited THEN "LIMITED" ELSE a.state

=============================================================================
