---------------------------- MODULE DiagnosisChecks ----------------------------
(* Health, verdicts and advice on one HPA. *)
EXTENDS RuleSubject, SequencesExt, FiniteSetsExt, TLC

CONSTANTS
  Patients,       \* HPAs whose health is scored
  GivenWeights,   \* weights a configuration file may give
  Advised,        \* HPAs that ask for advice
  Assuming,       \* HPAs whose controller is guessed at
  MaxAccepted     \* bound: suggestions accepted one after the other

Score == INSTANCE HealthScore
Diag  == INSTANCE Diagnostics

HealthAsked ==
  /\ Opens("health")
  /\ \E h \in Patients, w \in GivenWeights :
       subject' = [topic |-> "health", hpa |-> h, weights |-> w, published |-> FALSE,
                   seen |-> {}, analysis |-> Score!Attached(h, w)]
AdviceAsked ==
  /\ Opens("advice")
  /\ \E h \in Advised : subject' = [topic |-> "advice", hpa |-> h, accepted |-> 0]
AssumptionsAsked ==
  /\ Opens("assumptions")
  /\ \E h \in Assuming : subject' = [topic |-> "assumptions", hpa |-> h, profile |-> <<>>, overrides |-> <<>>,
                                     carried |-> Diag!Finalized(<<>>, h)]

Analysis(a, what) == subject' = [subject EXCEPT !.analysis = a, !.seen = @ \cup {what}]

\* The enrichments of a report, in any order; reconciling again changes nothing.
AttachControllers ==
  /\ About("health") /\ "controllers" \notin subject.seen
  /\ \E keda \in {"none", "healthy", "failing"}, vpa \in BOOLEAN :
       Analysis(Score!WithControllers(subject.analysis, keda, vpa, subject.weights), "controllers")
AttachChurn ==
  /\ About("health") /\ "churn" \notin subject.seen
  /\ \E level \in {"none", "low", "high", "critical"} :
       Analysis(Score!WithChurn(subject.analysis, level, subject.weights), "churn")
Reconcile ==
  /\ About("health") /\ "again" \notin subject.seen
  /\ Analysis(Score!Reconciled(subject.analysis, subject.weights), "again")
\* The analysis goes out as JSON and comes back without its base.
Publish ==
  /\ About("health") /\ ~subject.published
  /\ subject' = [subject EXCEPT !.analysis = Score!Published(@), !.published = TRUE]

\* A suggestion is applied; the status is that of before.
Accept ==
  /\ About("advice") /\ subject.accepted < MaxAccepted
  /\ \E s \in Range(Diag!Suggestions(subject.hpa)) :
       /\ s.patch # <<>>
       /\ subject' = [subject EXCEPT !.hpa = [Diag!Patched(@, s.patch) EXCEPT !.behind = @ + 1],
                                     !.accepted = @ + 1]

\* A profile is read, a flag is given, the analysis is finalized.
ReadProfile ==
  /\ About("assumptions") /\ subject.overrides = <<>>
  /\ \E n \in Diag!Observable \ DOMAIN subject.profile :
       subject' = [subject EXCEPT !.profile = @ @@ (n :> "observed")]
OverrideAssumption ==
  /\ About("assumptions")
  /\ \E n \in Diag!Overridable \ DOMAIN subject.overrides :
       subject' = [subject EXCEPT !.overrides = @ @@ (n :> "given"),
                                  !.carried = Diag!Finalized(@, subject.hpa)]

DiagnosisNext ==
  \/ HealthAsked \/ AdviceAsked \/ AssumptionsAsked
  \/ ReadProfile \/ OverrideAssumption \/ AttachControllers \/ AttachChurn \/ Reconcile \/ Publish \/ Accept

------------------------------------------------------------------------------

(* However enrichments arrive, each costs once: the score is that of the HPA alone
   less what is active now.  An analysis that came back from JSON may only have
   lost what clamping at zero hid.                                             *)
HealthCountsOnce(it) ==
  it.topic = "health" =>
    LET a    == it.analysis
        w    == Score!Resolved(it.weights)
        base == Score!Health(it.hpa, w)
        cost == FoldSet(LAMBDA d, sum : sum + w[d], 0, Score!Active(a))
        due  == Max({0, base.score - cost})
    IN  /\ a.score \in 0..100
        /\ IF it.published THEN a.score >= due ELSE a.score = due
        /\ {s.reason : s \in a.signals} = {s.reason : s \in base.signals} \cup Score!Active(a)
        /\ Score!Rank[a.state] >= Score!Rank[base.state]
        /\ Score!Active(a) # {} => a.state \in {"LIMITED", "ERROR"}
        /\ Score!Rank[Score!ListHealth(it.hpa, a)] >= Score!Rank[a.state]

(* What the parts of a report say of one HPA fits together: health, statements,
   actions, signals, the trace's winner and the influential metric.            *)
Said(h) == {s.reason : s \in Range(Diag!Statements(h))}
VerdictsAgree(it) ==
  it.topic = "advice" =>
    LET h == it.hpa
        state == Score!Health(h, Score!DefaultWeights).state
        trace == Diag!MetricTrace(h)
        signals == Diag!DecisionSignals(h)
        plain == "ScalingInactive" \notin Said(h)
    IN  /\ state = "ERROR" <=> Said(h) \cap {"ScalingInactive", "UnableToScale"} # {}
        /\ plain => Cardinality(Said(h) \cap {"ScaleUpRecommended", "ScaleDownRecommended", "NoScaleVisible"}) = 1
        /\ plain /\ Diag!SummaryKey(h) = "scale_up" => "ScaleUpRecommended" \in Said(h)
        /\ plain /\ "LimitedByMaxReplicas" \in Said(h) => "RaiseMaxReplicas" \in Range(Diag!ActionsFor(h))
        /\ (\E s \in signals : s.reason = "MetricWinner" /\ s.class = "Unknown")
             <=> Diag!Doubts(h, trace.entries) # {}
        /\ Diag!Influential(h) # 0 => trace.entries[trace.winner].name = h.readings[Diag!Influential(h)].id
        /\ "missing" \in Diag!HiddenFactors(h) /\ trace.winner # 0 => trace.confidence = "low"
        /\ (\A s \in signals : s.source = "HPAController" <=> s.class = "Observed")
        /\ Diag!Highest(h) > 0 /\ trace.tolerated = {} /\ trace.winner # 0 =>
             Diag!Highest(h) = trace.entries[trace.winner].desired
        /\ Diag!Inactive(h) <=> "RestoreMetrics" \in Range(Diag!ActionsFor(h))
        /\ Diag!FinalWord(h) = "not visible" /\ trace.winner # 0 =>
             h.current = 0 \/ trace.entries[trace.winner].desired \in {0, h.current}
        /\ Diag!FinalWord(h) = "wants, capped" => "max" \in Diag!Doubts(h, trace.entries) \/ h.desired < h.max
        /\ Diag!TraceConfidence(h) = "low" => Diag!FinalWord(h) = "not visible" /\ trace.winner = 0
        /\ plain /\ Diag!ColdStart(h) => Diag!SummaryKey(h) \in {"scale_up", "at_max"}
        /\ (\E s \in signals : s.reason = "DesiredWithinTolerance")
             /\ ~(\E s \in signals : s.reason = "MetricOutsideTolerance")
             => \A s \in Range(Diag!Statements(h)) : s.reason = "ToleranceNoScale" => Diag!ClassOf(s) = "Observed"

(* Every suggested patch does what its title says, touches nothing else, and leaves
   bounds the API server admits, also after others were accepted and also when all
   are applied together; broken metrics are never tuned around.                *)
Valid(h) == Diag!Analyzable(h) /\ h.max <= MaxReplicas32
AdviceHelps(it) ==
  it.topic = "advice" =>
    LET h == it.hpa
        all == Diag!Suggestions(h)
        helps(s) ==
          LET n == Diag!Patched(h, s.patch)
          IN  /\ Valid(n)
              /\ CASE s.title = "Raise maxReplicas" -> n.max > h.max /\ n.max >= h.desired /\ n.min = h.min
                   [] s.title = "Lower minReplicas" -> 1 <= n.min /\ n.min < h.min /\ n.max = h.max
                   [] s.title = "Shorten scale-down stabilization" ->
                        /\ 30 <= n.down.window /\ n.down.window < h.down.window
                        /\ n.down.policies = h.down.policies /\ n.up = h.up
                   [] s.title = "Add explicit scale-up policy" -> ~Diag!Without(n.up) /\ n.down = h.down
                   [] s.title = "Add explicit scale-down policy" -> ~Diag!Without(n.down) /\ n.up = h.up
                   [] OTHER -> s.patch = <<>> \/ (n.down = h.down /\ n.max = h.max /\ n.min = h.min)
    IN  /\ all # <<>>
        /\ \A s \in Range(all) : helps(s)
        /\ Valid(Diag!Patched(h, Diag!Together(all)))
        /\ Diag!Inactive(h) => \A s \in Range(all) : s.patch = <<>>

(* A flag beats the spec, the spec a profile, a profile the default; nothing the user
   set is warned about, and finalizing again repeats no tolerance.             *)
AssumptionsRanked(it) ==
  it.topic = "assumptions" =>
    LET as == Diag!Assumed(it.hpa, it.profile, it.overrides)
        spec(n) == Diag!Detected(it.hpa, n).source = "spec"
        summary == Diag!AssumedSummary(as)
    IN  /\ \A n \in Diag!Names :
             as[n].source = IF n \in DOMAIN it.overrides THEN "override" ELSE IF spec(n) THEN "spec"
                            ELSE IF n \in DOMAIN it.profile THEN "profile" ELSE "default"
        /\ summary["high"] = Cardinality({n \in Diag!Names : spec(n)} \cup DOMAIN it.overrides)
        /\ summary["high"] + summary["medium"] + summary["low"] = 6
        /\ Diag!AssumedWarnings(as) \cap (DOMAIN it.overrides \cup DOMAIN it.profile) = {}
        /\ Len(it.carried) = 2


(* The parts of one report agree: each penalty counts once in whatever order it is
   attached, health, statements, signals and trace tell the same, each suggested
   patch does what its title says also after others, and assumptions keep their order
   of precedence.                                                              *)
DiagnosesAgree == [][HealthCountsOnce(subject') /\ VerdictsAgree(subject') /\ AdviceHelps(subject') /\ AssumptionsRanked(subject')]_subject
=============================================================================
