--------------------------------- MODULE Settings ---------------------------------
(* What a command runs with: the flags it was given, over the config file, over the
   defaults; analysis profiles, implied flags and the presets of the dedicated
   commands; what is refused before anything is read; and the enrichments that
   follow.  Settings s: [command, profile, file, flags, on]: file and flags give
   some keys a value (Unset otherwise), on is the set of switches given.       *)
EXTENDS Integers, Sequences, FiniteSets

CONSTANT Unset

Statuses == {"status", "watch"}
Lists    == {"list", "scan"}
Reads    == Statuses \cup Lists
\* What flag a command has.
Knows(command, key) ==
  CASE key \in {"namespace", "allNamespaces", "output", "schema"} -> TRUE
    [] key \in {"keda", "vpa", "export", "report"}                -> command \in Reads
    [] key \in {"filter", "minScore", "healthScore"}              -> command = "list"
    [] OTHER                                                      -> command = "status"

Given(v) == v # Unset

(* The config file: keys of flags, and eventsEnabled, maxScore and templates. *)

Formats == {"table", "wide", "json", "jsonl", "yaml", "go-template", "jsonpath", "markdown", "html", "incident", "prometheus",
            "junit", "sarif", "github"}
Templates(file) == IF Given(file.templates) THEN file.templates ELSE {}
InRange(score)  == Given(score) => score \in 0..100
ConfigMax(file) == IF Given(file.healthScore) THEN file.healthScore ELSE file.maxScore
Modes == {"auto", "on", "off"}
ConfigOK(file) ==
  /\ Given(file.events) => file.events >= 1
  /\ ~(Given(file.namespace) /\ file.allNamespaces = TRUE)
  /\ InRange(file.minScore) /\ InRange(file.maxScore) /\ InRange(file.healthScore)
  /\ Given(file.minScore) /\ Given(ConfigMax(file)) => file.minScore <= ConfigMax(file)
  /\ Given(file.output) => file.output \in Formats \cup Templates(file)
  /\ Given(file.keda) => file.keda \in Modes

(* Flags over the file over the defaults. *)

Defaults == [namespace |-> Unset, allNamespaces |-> FALSE, output |-> "", schema |-> "v2", filter |-> "", minScore |-> -1,
             keda |-> "", vpa |-> ""]
\* Without a config file its default path is skipped silently; a file that is wrong is an error.
Chosen(s, key) == IF Given(s.flags[key]) THEN s.flags[key]
                  ELSE IF key \in DOMAIN s.file /\ Given(s.file[key]) THEN s.file[key] ELSE Defaults[key]

NoEvents == [enabled |-> FALSE, limit |-> 5]
EventsOf(value) == CASE value = "false" -> NoEvents
                     [] value = "true"  -> [NoEvents EXCEPT !.enabled = TRUE]
                     [] OTHER           -> [enabled |-> TRUE, limit |-> 12]
ChosenEventsOverFlag(s) ==
  IF Given(s.flags.events)
  THEN [asked   |-> TRUE, enabled |-> IF Given(s.file.eventsEnabled) THEN s.file.eventsEnabled ELSE EventsOf(s.flags.events).enabled,
        limit   |-> EventsOf(s.flags.events).limit]
  ELSE LET some == IF Given(s.file.events) THEN [enabled |-> TRUE, limit |-> s.file.events] ELSE NoEvents
       IN  [asked   |-> Given(s.file.events) \/ Given(s.file.eventsEnabled),
            enabled |-> IF Given(s.file.eventsEnabled) THEN s.file.eventsEnabled ELSE some.enabled, limit |-> some.limit]
\* The events asked for, and whether anybody asked.
ChosenEvents(s) ==
  IF Given(s.flags.events) THEN [asked |-> TRUE, enabled |-> EventsOf(s.flags.events).enabled, limit |-> EventsOf(s.flags.events).limit]
  ELSE LET some == IF Given(s.file.events) THEN [enabled |-> TRUE, limit |-> s.file.events] ELSE NoEvents
       IN  [asked   |-> Given(s.file.events) \/ Given(s.file.eventsEnabled),
            enabled |-> IF Given(s.file.eventsEnabled) THEN s.file.eventsEnabled ELSE some.enabled, limit |-> some.limit]
ChosenMax(s) == IF Given(s.flags.healthScore) THEN s.flags.healthScore
                ELSE IF Given(ConfigMax(s.file)) THEN ConfigMax(s.file) ELSE -1

(* Switches: profiles add, flags imply others in one pass, --no-interpret takes away. *)

DeepFeatures == {"CapacityContext", "CapacityHeadroom", "CapacityDeep", "ScalePath", "RolloutImpact", "ReadinessImpact",
                 "AdapterDiagnostics", "ExplainPods"}
DoctorFeatures == {"Explain", "DiagnoseMetrics", "MetricsFreshness", "CheckResources", "ExplainPods", "CapacityContext", "GitOpsCheck",
                   "MetricContract", "ChurnDetect", "MetricHints", "ContainerAdvisor", "BehaviorAdvisor", "CapacityDeep", "Rollout",
                   "ReadinessImpact", "ScalePath", "FlappingAdvisor", "TrendAnomaly", "AdapterDiagnostics"}
ProbeFeatures == {"DiagnoseMetrics", "MetricsFreshness", "MetricContract", "AdapterDiagnostics", "MetricHints"}
GapFeatures   == {"Explain", "ExplainPods", "ReadinessImpact", "CapacityHeadroom", "CapacityDeep", "ScalePath", "ScaleoutBlockers"}
ReadyFeatures == {"Explain", "ReadinessImpact", "ExplainPods", "ScalePath", "RolloutImpact", "MetricsFreshness", "ControllerProfile"}
ProfileFeatures(profile) ==
  CASE profile = "quick"     -> {"Interpret", "Explain"}
    [] profile = "standard"  -> {"Explain"}
    [] profile = "incident"  -> DoctorFeatures \cup {"ScaleoutBlockers", "RolloutImpact", "ControllerProfile"}
    [] profile = "doctor"    -> DoctorFeatures
    [] profile = "metrics"   -> ProbeFeatures
    [] profile = "capacity"  -> GapFeatures
    [] profile = "readiness" -> ReadyFeatures
    [] profile = "deep"      -> DeepFeatures \cup {"Deep"}
    [] OTHER                 -> {}

\* What any of some switches adds to those that are on.
Implied(any, adds, on) == IF any \cap on # {} THEN on \cup adds ELSE on

SuggestFlags(on)  == Implied({"Diff", "Export"}, {"Suggest"}, Implied({"Fix", "Apply"}, {"Suggest", "Explain"}, on))
TraceFlags(on)    == Implied({"Structured"}, {"Explain", "DecisionTrace", "TraceFormat"},
                             Implied({"TraceFormat"}, {"DecisionTrace"}, on))
InsightFlags(on)  == Implied({"HiddenFactors"}, {"ReadinessImpact", "MetricsFreshness"},
                             Implied({"ContextForAI", "Ask"}, {"Explain", "DiagnoseMetrics", "MetricHints", "HiddenFactors"}, on))
CapacityFlags(on) == Implied({"Deep"}, DeepFeatures,
                             Implied({"NodeAutoscaler", "Karpenter"}, {"CapacityContext", "CapacityDeep", "ScalePath"}, on))
DepthFlags(on)    == Implied({"HPAOnly"}, {"NoEnrich"}, on)
TrendFlags(on)    == Implied({"Trend"}, {"TrendAnomaly"}, on)
Muted == {"Interpret", "Suggest"}
Normalize(on) ==
  LET implied == TrendFlags(DepthFlags(CapacityFlags(InsightFlags(TraceFlags(SuggestFlags(on))))))
  IN  IF "NoInterpret" \in implied THEN implied \ Muted ELSE implied

\* What the root's PersistentPreRun leaves behind.
Effective(s) ==
  LET export == IF Given(s.flags.export) THEN {"Export"} ELSE {}
      pods   == IF s.file.explainPods = TRUE THEN {"ExplainPods"} ELSE {}
      on     == Normalize(s.on \cup export \cup pods \cup ProfileFeatures(s.profile))
      events == ChosenEvents(s)
  IN  [on |-> on, events |-> IF s.command = "status" /\ "Explain" \in on /\ ~events.asked THEN EventsOf("true")
                             ELSE [enabled |-> events.enabled, limit |-> events.limit],
       keda |-> Chosen(s, "keda"), vpa |-> Chosen(s, "vpa"), output |-> Chosen(s, "output")]

(* The presets of the dedicated commands, put over a copy. *)

Wide == {"ReadinessImpact", "RolloutImpact", "ScaleoutBlockers", "ControllerProfile"}
Bundles == {"bundle", "support-bundle", "incident-bundle"}      \* all collect with the preset of "bundle"
PresetFeatures(command) ==
  CASE command = "doctor"             -> DoctorFeatures
    [] command \in Bundles            -> DoctorFeatures \cup Wide
    [] command = "explain"            -> {"Explain", "DecisionTrace", "TraceFormat"}
    [] command = "metrics-probe"      -> ProbeFeatures
    [] command = "readiness"          -> ReadyFeatures
    [] command = "capacity-gap"       -> GapFeatures
    [] command = "preflight"          -> {"CheckResources", "CapacityContext", "CapacityDeep", "ExplainPods"}
    [] command = "rollout"            -> {"Rollout", "RolloutImpact", "ReadinessImpact", "ExplainPods"}
    [] command = "container-advisor"  -> {"Explain", "ExplainPods", "CheckResources", "ContainerAdvisor"}
    [] command = "why-not-scale"      -> {"Explain", "DiagnoseMetrics", "MetricsFreshness", "ReadinessImpact", "ScalePath", "CapacityHeadroom"}
    [] command = "trace"              -> {"DecisionTrace"}
    [] command = "path"               -> {"ScalePath"}
    [] command = "node-context"       -> (GapFeatures \ {"ReadinessImpact"}) \cup {"CapacityContext", "NodeAutoscaler", "Karpenter"}
    [] command = "rollout-context"    -> {"Explain", "ExplainPods", "ReadinessImpact", "Rollout", "RolloutImpact", "ScalePath"}
    [] command = "history"            -> {"Trend", "ChurnDetect"}
    [] command = "slo"                -> {"Explain", "MetricHints"}
    [] OTHER                          -> {}
Runs(s) ==
  LET e == Effective(s)
      modes == CASE s.command = "doctor" -> "auto" [] s.command \in Bundles -> "on" [] OTHER -> ""
      limit == CASE s.command = "doctor" -> 5 [] s.command \in Bundles -> 20 [] s.command = "history" -> 50 [] OTHER -> 0
      structured == IF s.command = "explain" /\ e.output = "" THEN {"Structured"} ELSE {}
  IN  [e EXCEPT !.on = @ \cup PresetFeatures(s.command) \cup structured,
                !.events = IF limit > 0 THEN [enabled |-> TRUE, limit |-> limit] ELSE @,
                !.keda = IF modes # "" THEN modes ELSE @, !.vpa = IF modes # "" THEN modes ELSE @]

(* The enrichments that run. *)

Gates ==
  [traces |-> {"DecisionTrace", "TraceFormat"}, metricsDiagnostics |-> {"DiagnoseMetrics"}, freshness |-> {"MetricsFreshness"},
   resources |-> {"CheckResources"}, pods |-> {"ExplainPods"}, capacityPlan |-> {"CapacityPlan"}, gitops |-> {"GitOpsCheck"},
   observations |-> {"Explain", "Suggest", "ExplainPods", "CheckResources", "ScalePath", "CapacityContext", "CapacityHeadroom",
                     "CapacityDeep", "Rollout", "RolloutImpact", "ReadinessImpact", "Deep"},
   capacity |-> {"CapacityContext", "CapacityHeadroom", "ReadinessImpact", "ScalePath"},
   rollout |-> {"Rollout", "RolloutImpact", "CapacityDeep", "ScaleoutBlockers"}, controller |-> {"ControllerProfile"},
   contract |-> {"MetricContract", "AdapterDiagnostics"}, churn |-> {"ChurnDetect", "FlappingAdvisor"}, hints |-> {"MetricHints"},
   advisors |-> {"ContainerAdvisor", "BehaviorAdvisor"}]
Enrichments(r) ==
  LET interpreted == IF "Interpret" \in r.on /\ "NoInterpret" \notin r.on THEN {"observations"} ELSE {}
      gated  == {e \in DOMAIN Gates : Gates[e] \cap r.on # {}}
      events == IF r.events.enabled \/ "FlappingAdvisor" \in r.on THEN {"events"} ELSE {}
      churn  == IF "ChurnDetect" \in r.on /\ r.events.enabled THEN {"churn analysis"} ELSE {}
  IN  IF "NoEnrich" \in r.on THEN {} ELSE gated \cup interpreted \cup events \cup churn \cup {"report", "vpaAdvisory"}
Interprets(r) == r.on \cap {"Interpret", "Explain", "Suggest"} # {} /\ "NoInterpret" \notin r.on

(* What is refused before a client is opened, and why: the config file, or the result. *)

Lowered(output) == IF output = "Names" THEN "names" ELSE output
Reports == {"markdown", "html", "incident", "junit", "sarif"}
Format(s) ==
  LET output == Lowered(Chosen(s, "output"))
  IN  IF Given(s.flags.report) /\ s.flags.report \in Reports THEN s.flags.report
      ELSE IF output \in Templates(s.file) THEN "go-template with its text" ELSE output
Structured == {"json", "jsonl", "yaml", "jsonpath", "go-template", "go-template with its text"}

NamespacesRefused(s) == Chosen(s, "allNamespaces") /\ Given(Chosen(s, "namespace"))
SchemaRefused(s) == Given(s.flags.schema) /\ (s.command \notin Statuses \/ Format(s) \notin Structured)
ModeRefused(s) ==
  \/ Given(s.flags.export) /\ (s.command \in Lists) # (s.flags.export = "directory")
  \/ Given(s.flags.report) /\ s.flags.report \in {"junit", "sarif"} /\ s.command \notin Lists
  \/ Given(s.flags.report) /\ s.flags.report = "incident" /\ s.command \in Lists
FormatRefused(s) ==
  LET format == Format(s)
  IN  Chosen(s, "output") # "" /\
        \/ format = "junit" /\ s.command \notin Lists
        \/ format = "sarif" /\ s.command \notin Lists \cup {"lint"}
        \/ format = "github" /\ s.command # "lint"
        \/ format \in {"jsonpath", "go-template"}
        \/ format \notin Formats \cup {"go-template with its text"}
ApplyRefused(s) ==
  LET on == Effective(s).on
  IN  "Apply" \in on /\ ("Export" \in on \/ on \cap {"Structured", "ContextForAI", "Ask"} # {} \/ Format(s) \notin {"", "table", "wide"})
ScoresRefused(s) ==
  LET low == Chosen(s, "minScore")
  IN  s.command \in Lists /\ (low > 100 \/ ChosenMax(s) > 100 \/ (low >= 0 /\ ChosenMax(s) >= 0 /\ low > ChosenMax(s)))
Filter(s) == IF "Problem" \in s.on /\ Chosen(s, "filter") = "" THEN "issue" ELSE Chosen(s, "filter")
Unbounded(s) ==
  "Apply" \in s.on /\
    \/ Filter(s) = "all"
    \/ "Problem" \notin s.on /\ Filter(s) = "" /\ Chosen(s, "minScore") <= 0 /\ ChosenMax(s) < 0
Refused(s) ==
  {r \in {"file", "namespaces", "schema", "mode", "format", "apply", "scores", "unbounded"} :
     CASE r = "file" -> ~ConfigOK(s.file) [] r = "namespaces" -> NamespacesRefused(s) [] r = "schema" -> SchemaRefused(s) [] r = "mode" -> ModeRefused(s)
       [] r = "format" -> FormatRefused(s) [] r = "apply" -> ApplyRefused(s) [] r = "scores" -> ScoresRefused(s)
       [] r = "unbounded" -> s.command = "list" /\ Unbounded(s)}
=============================================================================
