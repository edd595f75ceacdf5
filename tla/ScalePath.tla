------------------------------- MODULE ScalePath -------------------------------
(* Where a scale-up is stuck between the HPA and ready pods
   (src/pkg/hpa/scalepath.go).

   An input is [target, pods, sets, scheduling, template, quotas]:
   target is Unset or [desired, current, ready]; a pod is [ready, phase,
   unschedulable]; sets holds the counts of the replica sets; scheduling is whether
   an event tells of failed scheduling; template is Unset or [readiness, startup,
   constrained] with probes [delay, period, count] or Unset; quotas is the number
   of blocking quotas.                                                         *)
EXTENDS Integers, Sequences, SequencesExt, FiniteSetsExt

CONSTANT Unset

Counts(input) ==
  [total         |-> Len(input.pods),
   ready         |-> Quantify(DOMAIN input.pods, LAMBDA i : input.pods[i].ready),
   pending       |-> Quantify(DOMAIN input.pods, LAMBDA i : input.pods[i].phase = "Pending"),
   unschedulable |-> Quantify(DOMAIN input.pods, LAMBDA i : input.pods[i].phase = "Pending" /\ input.pods[i].unschedulable)]

TargetDesired(h, input) ==
  IF input.target = Unset THEN h.desired
  ELSE IF input.target.desired > 0 THEN input.target.desired ELSE h.desired
TargetCurrent(h, input) == IF input.target = Unset THEN h.current ELSE input.target.current

Created(h, input) ==
  LET sum == FoldLeft(LAMBDA a, b : a + b, 0, input.sets) IN IF sum = 0 THEN TargetCurrent(h, input) ELSE sum
ReadyShown(input) ==
  IF Len(input.pods) > 0 THEN Counts(input).ready
  ELSE IF input.target = Unset THEN 0 ELSE input.target.ready

\* The counts of the steps from the HPA to ready pods.
Steps(h, input) == <<h.desired, TargetDesired(h, input), Created(h, input), ReadyShown(input)>>

\* The first stage that holds pods back.
BlockingPoint(h, input) ==
  LET c == Counts(input)
  IN  CASE c.unschedulable > 0 \/ (c.pending > 0 /\ input.scheduling) -> "scheduler"
        [] c.pending > 0 -> "pending"
        [] c.total > 0 /\ c.ready < TargetDesired(h, input) -> "not ready"
        [] h.desired >= h.max /\ h.current >= h.max -> "maxReplicas"
        [] OTHER -> "none"

\* Raising maxReplicas does not help a scheduler that is short of nodes.
NodesFirst(h, input) ==
  BlockingPoint(h, input) = "scheduler" /\ TargetDesired(h, input) >= h.max
NotReadyEvidence(h, input) == TargetDesired(h, input) - Counts(input).ready

SlowProbes(h, input) ==
  IF input.template = Unset THEN {}
  ELSE LET c == Counts(input)
           readiness == input.template.readiness
           startup   == input.template.startup
           interval  == IF readiness = Unset THEN 0 ELSE IF readiness.period <= 0 THEN 10 ELSE readiness.period
       IN  IF c.total = 0 \/ c.ready >= TargetDesired(h, input) THEN {}
           ELSE {x \in {"readiness", "startup"} :
                   IF x = "readiness"
                   THEN IF readiness = Unset THEN FALSE
                        ELSE readiness.delay + interval * Max({0, readiness.count - 1}) > 120
                   ELSE IF startup = Unset THEN FALSE
                        ELSE startup.delay + startup.period * startup.count > 180}

ConstraintsWarned(input) ==
  IF input.template = Unset THEN FALSE
  ELSE input.template.constrained /\ Quantify(DOMAIN input.pods, LAMBDA i : input.pods[i].unschedulable) > 0

QuotaAction(input) == input.quotas > 0

RunningNotReady(input) == Quantify(DOMAIN input.pods, LAMBDA i : input.pods[i].phase = "Running" /\ ~input.pods[i].ready)

=============================================================================
