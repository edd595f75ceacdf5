SPECIFICATION RulesSpec
CONSTANTS
  MaxReplicas32 = 250
  Unset = Unset
  Rollouts <- MCRollouts
  Scenarios <- MCScenarios
  Edits <- MCEdits
  Readings <- MCReadings
  MaxEdits = 3
  Durations <- MCDurations
  Patients <- MCPatients
  GivenWeights <- MCWeights
  Advised <- MCAdvised
  Assuming <- MCAssuming
  MaxAccepted = 2
  Unstable <- MCUnstable
  MinSnapshots = 3
  StuckRun = 3
  OscillationRun = 2
  Grain = 4800
  TrendScores = {0, 50, 52, 80}
  TrendGaps <- MCTrendGaps
  MaxSnapshots = 4
  GraphWidth = 4
  DayPatterns <- MCDayPatterns
  DayGaps = {1, 6}
  MaxDays = 4
  SeasonOptions <- MCSeasonOptions
  Clusters <- MCClusters
  Unreadable = {"target", "selector", "pods", "quotas", "limits", "nodes", "pdbs", "scaler"}
  MaxUnread = 2
  StalledReplicas <- MCWorkloads
  PodKinds <- MCPodKinds
  MaxPods = 3
  RuledHpas <- MCRuledHpas
  PolicyRules <- MCPolicyRules
  PolicyParts <- MCPolicyParts
  MaxChanges = 2
  Manifests <- MCManifests
  MaxManifests = 3
  Autoscaled <- MCAutoscaled
  MoreHpas <- MCMoreHpas
  MoreVpas <- MCMoreVpas
  MoreObjects <- MCMoreObjects
  Refusable <- MCRefusable
  MaxEvents = 3
  Commands = {"status", "watch", "list", "scan", "lint", "doctor", "bundle", "support-bundle", "explain", "metrics-probe", "readiness", "capacity-gap", "preflight", "rollout", "container-advisor", "why-not-scale", "trace", "path", "node-context", "rollout-context", "history", "slo"}
  AnalysisProfiles = {"", "quick", "standard", "incident", "doctor", "metrics", "capacity", "readiness", "deep"}
  FileValues <- MCFileValues
  FlagValues <- MCFlagValues
  Switches = {"Fix", "Apply", "Diff", "TraceFormat", "Structured", "ContextForAI", "Ask", "HiddenFactors", "NodeAutoscaler", "Deep", "HPAOnly", "Trend", "NoInterpret", "Explain", "Interpret", "ChurnDetect", "FlappingAdvisor", "Problem", "NoEnrich"}
  MaxGiven = 2
PROPERTIES
  ProjectionsKeepRules
  DiagnosesAgree
  HistoriesReadTrue
  PlansHold
  RuleSetsAgree
  AutoscalersAgree
  SettingsHold
CHECK_DEADLOCK FALSE
