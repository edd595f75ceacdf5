--------------------------- MODULE ProjectionChecks ---------------------------
(* Rate-limited rollouts and simulated scenarios. *)
EXTENDS RuleSubject, SequencesExt, FiniteSetsExt

CONSTANTS
  Rollouts,       \* HPAs whose rollout is walked
  Scenarios,      \* HPAs that are simulated
  Edits,          \* overrides that may be given, <<path, value>>
  Readings,       \* metric overrides that may be given, <<name, value>>
  MaxEdits,       \* bound: the overrides of a scenario
  Durations       \* <<duration, step>> of trajectories

Path == INSTANCE BehaviorPath
Sim  == INSTANCE Simulation

RolloutAsked ==
  /\ Opens("rollout")
  /\ \E h \in Rollouts : subject' = [topic |-> "rollout", hpa |-> h, walk |-> Path!WalkOf(h)]

ScenarioAsked ==
  /\ Opens("scenario")
  /\ \E h \in Scenarios : subject' = [topic |-> "scenario", hpa |-> h, overrides |-> <<>>, readings |-> <<>>]

Evaluation ==
  /\ About("rollout") /\ Path!Walking(subject.walk)
  /\ subject' = [subject EXCEPT !.walk = Path!Evaluate(subject.walk)]

Given(it) == Cardinality(DOMAIN it.overrides) + Cardinality(DOMAIN it.readings)

Override ==
  /\ About("scenario") /\ Given(subject) < MaxEdits
  /\ \E e \in Edits :
       /\ e[1] \notin DOMAIN subject.overrides
       /\ subject' = [subject EXCEPT !.overrides = @ @@ (e[1] :> e[2])]

OverrideMetric ==
  /\ About("scenario") /\ Given(subject) < MaxEdits
  /\ \E r \in Readings :
       /\ r[1] \notin DOMAIN subject.readings
       /\ subject' = [subject EXCEPT !.readings = @ @@ (r[1] :> r[2])]

ProjectionNext == RolloutAsked \/ ScenarioAsked \/ Evaluation \/ Override \/ OverrideMetric

------------------------------------------------------------------------------

\* The count a walk had at a time.
CountAt(w, time) ==
  LET before == {i \in DOMAIN w.path : w.path[i].time <= time}
  IN  IF before = {} THEN w.from ELSE w.path[Max(before)].replicas

(* A rollout never outruns its policies: at every point the count is one that some
   policy (every policy, under Min) permits from the count its period began with,
   and the counts move towards desired and never past it.                      *)
WalkKeepsRates(it) ==
  it.topic = "rollout" =>
    LET w == it.walk
        moved(i) == LET t == w.path[i].time
                        fits(p) == LET edge == Path!ReplicaLimit(CountAt(w, t - p.period), Path!Rising(w), p)
                                   IN  IF Path!Rising(w) THEN w.path[i].replicas <= edge
                                       ELSE w.path[i].replicas >= edge
                        ps == Range(Path!Usable(w))
                    IN  IF w.rules.select = "Min" THEN \A p \in ps : fits(p) ELSE \E p \in ps : fits(p)
        onward(a, b) == IF Path!Rising(w) THEN a < b /\ b <= w.desired ELSE a > b /\ b >= w.desired
    IN  ~Path!Immediate(w) =>
          \A i \in DOMAIN w.path :
            /\ moved(i)
            /\ w.path[i].time > w.rules.window
            /\ onward(CountAt(w, w.path[i].time - 1), w.path[i].replicas)

(* A scenario that starts within its bounds ends within them, and readings the
   controller would find incomplete never shrink the target.                   *)
ScenarioStaysInBounds(it, after, edit) ==
  Given(it) > 0 /\ after.current \in after.min..after.max =>
       /\ after.desired \in after.min..after.max \/ Sim!HeldAtZero(edit)
       /\ ~Sim!OneToOne(after) => after.desired >= after.current
       /\ Sim!CondIs(after, "ScalingLimited", "True") => after.desired \in {after.min, after.max}
            \/ Sim!CondReason(after, "ScalingLimited", "ScaleUpLimit")
            \/ Sim!CondReason(after, "ScalingLimited", "ScaleDownLimit")

(* Higher readings never lead to fewer replicas. *)
HigherReadingsNeverShrink(it, after, edit) ==
  Given(it) > 0 /\ after.current \in after.min..after.max =>
       \A i \in DOMAIN after.readings : \A kind \in DOMAIN after.readings[i].values :
         LET more == [edit EXCEPT !.readings[i].values[kind] = (@ * 3) \div 2]
         IN  Sim!Recomputed(more).desired >= after.desired

(* What the report says of each overridden metric fits what it says of the whole:
   no metric asks for more (unless scaling is off at zero), and when all readings are given one asks for as many. *)
MetricsExplainScenario(it, after, edit) ==
  ~Sim!HeldAtZero(edit) /\ DOMAIN it.readings # {} /\ after.current \in after.min..after.max =>
       LET each == {Sim!MetricProjection(it.hpa, after, name) : name \in DOMAIN it.readings}
       IN  /\ \A n \in each : n <= after.desired
           /\ Sim!OneToOne(after) /\ Cardinality(DOMAIN it.readings) = Len(after.metrics)
                => after.desired \in each
           /\ \A name \in DOMAIN it.readings :
                LET risks == Sim!MetricRisks(it.hpa, after, name)
                IN  /\ "reaches maximum" \in risks => after.desired >= it.hpa.max
                    /\ ~({"very high", "very low"} \subseteq risks)

(* Every override given is in force in the scenario, except a specific one that is
   given together with the general one of its kind.                            *)
OverridesHold(it, after) ==
    /\ Sim!BoundRisks(it.hpa, after) \ {"short window"} # {} =>
         \E path \in DOMAIN it.overrides : path.field \in {"minReplicas", "maxReplicas"}
    /\ \A path \in DOMAIN it.overrides :
        LET v     == it.overrides[path]
            given(field) == \E p \in DOMAIN it.overrides : p.field = field
            general == given("tolerance")
        IN  CASE path.field = "maxReplicas" -> after.max = v
              [] path.field = "minReplicas" -> after.min = v
              [] path.field = "metric" ->
                   given("targetAverageUtilization") \/
                   \A m \in Range(after.metrics) : m.name = path.name => m.target = v
              [] path.field = "targetAverageUtilization" ->
                   \A m \in Range(after.metrics) : m.type = "Resource" => m.target = v /\ m.kind = "Utilization"
              [] path.field = "scaleUp.selectPolicy"   -> after.up.select = v
              [] path.field = "scaleDown.selectPolicy" -> after.down.select = v
              [] path.field = "scaleUp.tolerance"      -> general \/ after.up.tolerance = v
              [] path.field = "scaleDown.tolerance"    -> general \/ after.down.tolerance = v
              [] path.field = "tolerance" -> after.up.tolerance = v /\ after.down.tolerance = v

(* A trajectory starts at zero, ends at its duration and moves forward; it switches
   from the live to the simulated count once.                                  *)
TrajectoryIsWhole(it, after) ==
      \A d \in Durations :
        LET ps == Sim!Trajectory(it.hpa, after, d[1], d[2], 10)
        IN  ps # Unset =>
              /\ Len(ps) = Sim!PointsOf(d[1], IF d[2] > d[1] THEN d[1] ELSE d[2]) /\ ps[1].time = 0
              /\ ps[Len(ps)].time = d[1]
              /\ \A i \in 2..Len(ps) :
                   /\ ps[i-1].time < ps[i].time
                   /\ ps[i-1].replicas # ps[i].replicas =>
                        ps[i-1].replicas = it.hpa.desired /\ ps[i].replicas = after.desired

ScenarioHolds(it) ==
  it.topic = "scenario" =>
    LET after == Sim!Simulated(it.hpa, it.overrides, it.readings)
        edit  == Sim!Edited(it.hpa, it.overrides, it.readings)
    IN  after # Unset =>
          /\ ScenarioStaysInBounds(it, after, edit) /\ HigherReadingsNeverShrink(it, after, edit)
          /\ MetricsExplainScenario(it, after, edit) /\ OverridesHold(it, after) /\ TrajectoryIsWhole(it, after)

(* A projection keeps the rules of the HPA it projects: `rollout` policies bound every
   step it shows, and `simulate` stays within the bounds, explains its own result
   metric by metric, and has every override in force.                          *)
ProjectionsKeepRules == [][WalkKeepsRates(subject') /\ ScenarioHolds(subject')]_subject
=============================================================================
