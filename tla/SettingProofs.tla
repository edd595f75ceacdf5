----------------------------- MODULE SettingProofs -----------------------------
(* What a command runs with, for every command line and every config file: proofs
   about SettingChecks.                                                        *)
EXTENDS SettingChecks, TLAPS

(***************************************************************************)
(* The switches that bring one along, directly or by way of another.       *)
(***************************************************************************)
Causes(f) ==
  CASE f = "Suggest"         -> {"Fix", "Apply", "Diff", "Export"}
    [] f = "Explain"         -> {"Fix", "Apply", "Structured", "ContextForAI", "Ask"}
    [] f = "DecisionTrace"   -> {"TraceFormat", "Structured"}
    [] f = "TraceFormat"     -> {"Structured"}
    [] f \in {"DiagnoseMetrics", "MetricHints", "HiddenFactors"} -> {"ContextForAI", "Ask"}
    [] f = "MetricsFreshness" -> {"HiddenFactors", "ContextForAI", "Ask"}
    [] f = "ReadinessImpact" -> {"HiddenFactors", "ContextForAI", "Ask", "Deep"}
    [] f \in {"CapacityContext", "CapacityDeep", "ScalePath"} -> {"NodeAutoscaler", "Karpenter", "Deep"}
    [] f \in {"CapacityHeadroom", "RolloutImpact", "AdapterDiagnostics", "ExplainPods"} -> {"Deep"}
    [] f = "NoEnrich"        -> {"HPAOnly"}
    [] f = "TrendAnomaly"    -> {"Trend"}
    [] OTHER                 -> {}

\* The switches that bring along others.
Triggers == {"Fix", "Apply", "Diff", "Export", "Structured", "ContextForAI", "Ask", "TraceFormat", "HiddenFactors",
             "Deep", "NodeAutoscaler", "Karpenter", "HPAOnly", "Trend"}

LEMMA CausesClosed ==
  /\ \A f : Causes(f) \subseteq Triggers
  /\ \A f, g : g \in Causes(f) => Causes(g) \subseteq Causes(f)
  /\ Causes("NoInterpret") = {} /\ Triggers \cap (Set!Muted \cup {"NoInterpret"}) = {}
BY DEF Causes, Triggers, Set!Muted

-----------------------------------------------------------------------------
\* One pass over the implications.

LEMMA Steps ==
  ASSUME NEW any, NEW adds, NEW on, NEW f
  PROVE  f \in Set!Implied(any, adds, on) <=> f \in on \/ (f \in adds /\ any \cap on # {})
BY DEF Set!Implied

LEMMA SuggestPass ==
  ASSUME NEW on, NEW f
  PROVE  f \in Set!SuggestFlags(on) <=>
           \/ f \in on
           \/ f = "Suggest" /\ \E g \in {"Fix", "Apply", "Diff", "Export"} : g \in on
           \/ f = "Explain" /\ \E g \in {"Fix", "Apply"} : g \in on
BY Steps DEF Set!SuggestFlags, Set!Implied

LEMMA TracePass ==
  ASSUME NEW on, NEW f
  PROVE  f \in Set!TraceFlags(on) <=>
           \/ f \in on
           \/ f \in {"Explain", "TraceFormat"} /\ "Structured" \in on
           \/ f = "DecisionTrace" /\ \E g \in {"Structured", "TraceFormat"} : g \in on
BY DEF Set!TraceFlags, Set!Implied

LEMMA InsightPass ==
  ASSUME NEW on, NEW f
  PROVE  f \in Set!InsightFlags(on) <=>
           \/ f \in on
           \/ f \in {"Explain", "DiagnoseMetrics", "MetricHints", "HiddenFactors"}
                /\ \E g \in {"ContextForAI", "Ask"} : g \in on
           \/ f \in {"ReadinessImpact", "MetricsFreshness"}
                /\ \E g \in {"HiddenFactors", "ContextForAI", "Ask"} : g \in on
BY DEF Set!InsightFlags, Set!Implied

LEMMA CapacityPass ==
  ASSUME NEW on, NEW f
  PROVE  f \in Set!CapacityFlags(on) <=>
           \/ f \in on
           \/ f \in {"CapacityContext", "CapacityDeep", "ScalePath"}
                /\ \E g \in {"NodeAutoscaler", "Karpenter"} : g \in on
           \/ f \in Set!DeepFeatures /\ "Deep" \in on
BY DEF Set!CapacityFlags, Set!Implied, Set!DeepFeatures

LEMMA DepthPass ==
  ASSUME NEW on, NEW f
  PROVE  f \in Set!TrendFlags(Set!DepthFlags(on)) <=>
           \/ f \in on
           \/ f = "NoEnrich" /\ "HPAOnly" \in on
           \/ f = "TrendAnomaly" /\ "Trend" \in on
BY DEF Set!TrendFlags, Set!DepthFlags, Set!Implied

(***************************************************************************)
(* Normalizing adds what a switch causes, however far, and takes away what *)
(* --no-interpret mutes.                                                   *)
(***************************************************************************)
LEMMA Normalized ==
  ASSUME NEW on, NEW f
  PROVE  f \in Set!Normalize(on) <=>
           /\ f \in on \/ \E g \in Causes(f) : g \in on
           /\ ~("NoInterpret" \in on /\ f \in Set!Muted)
<1> DEFINE suggest  == Set!SuggestFlags(on)
           trace    == Set!TraceFlags(suggest)
           insight  == Set!InsightFlags(trace)
           capacity == Set!CapacityFlags(insight)
           implied  == Set!TrendFlags(Set!DepthFlags(capacity))
<1> HIDE DEF suggest, trace, insight, capacity, implied
<1>1. ASSUME NEW e PROVE e \in trace <=>
        \/ e \in on
        \/ e = "Suggest" /\ \E g \in {"Fix", "Apply", "Diff", "Export"} : g \in on
        \/ e = "Explain" /\ \E g \in {"Fix", "Apply", "Structured"} : g \in on
        \/ e = "TraceFormat" /\ "Structured" \in on
        \/ e = "DecisionTrace" /\ \E g \in {"Structured", "TraceFormat"} : g \in on
  <2>1. \A x : x \in suggest <=>
           \/ x \in on
           \/ x = "Suggest" /\ \E g \in {"Fix", "Apply", "Diff", "Export"} : g \in on
           \/ x = "Explain" /\ \E g \in {"Fix", "Apply"} : g \in on
    BY SuggestPass DEF suggest
  <2>2. e \in trace <=>
           \/ e \in suggest
           \/ e \in {"Explain", "TraceFormat"} /\ "Structured" \in suggest
           \/ e = "DecisionTrace" /\ \E g \in {"Structured", "TraceFormat"} : g \in suggest
    BY TracePass DEF trace
  <2> QED
    BY <2>1, <2>2
<1>2. ASSUME NEW e PROVE e \in insight <=>
        \/ e \in trace
        \/ e \in {"Explain", "DiagnoseMetrics", "MetricHints", "HiddenFactors"}
             /\ \E g \in {"ContextForAI", "Ask"} : g \in on
        \/ e \in {"ReadinessImpact", "MetricsFreshness"}
             /\ \E g \in {"HiddenFactors", "ContextForAI", "Ask"} : g \in on
  <2>1. \A g \in {"HiddenFactors", "ContextForAI", "Ask"} : g \in trace <=> g \in on
    BY <1>1
  <2>2. e \in insight <=>
           \/ e \in trace
           \/ e \in {"Explain", "DiagnoseMetrics", "MetricHints", "HiddenFactors"}
                /\ \E g \in {"ContextForAI", "Ask"} : g \in trace
           \/ e \in {"ReadinessImpact", "MetricsFreshness"}
                /\ \E g \in {"HiddenFactors", "ContextForAI", "Ask"} : g \in trace
    BY InsightPass DEF insight
  <2> QED
    BY <2>1, <2>2
<1>3. ASSUME NEW e PROVE e \in capacity <=>
        \/ e \in insight
        \/ e \in {"CapacityContext", "CapacityDeep", "ScalePath"}
             /\ \E g \in {"NodeAutoscaler", "Karpenter"} : g \in on
        \/ e \in Set!DeepFeatures /\ "Deep" \in on
  <2>1. \A g \in {"NodeAutoscaler", "Karpenter", "Deep"} : g \in insight <=> g \in on
    BY <1>1, <1>2
  <2>2. e \in capacity <=>
           \/ e \in insight
           \/ e \in {"CapacityContext", "CapacityDeep", "ScalePath"}
                /\ \E g \in {"NodeAutoscaler", "Karpenter"} : g \in insight
           \/ e \in Set!DeepFeatures /\ "Deep" \in insight
    BY CapacityPass DEF capacity
  <2> QED
    BY <2>1, <2>2
<1>4. ASSUME NEW e PROVE e \in implied <=>
        \/ e \in capacity
        \/ e = "NoEnrich" /\ "HPAOnly" \in on
        \/ e = "TrendAnomaly" /\ "Trend" \in on
  <2>1. \A g \in {"HPAOnly", "Trend"} : g \in capacity <=> g \in on
    BY <1>1, <1>2, <1>3 DEF Set!DeepFeatures
  <2>2. e \in implied <=>
           \/ e \in capacity
           \/ e = "NoEnrich" /\ "HPAOnly" \in capacity
           \/ e = "TrendAnomaly" /\ "Trend" \in capacity
    BY DepthPass DEF implied
  <2> QED
    BY <2>1, <2>2
<1>5. ASSUME NEW e PROVE e \in implied <=> e \in on \/ \E g \in Causes(e) : g \in on
  BY <1>1, <1>2, <1>3, <1>4 DEF Causes, Set!DeepFeatures
<1>6. "NoInterpret" \in implied <=> "NoInterpret" \in on
  BY <1>5, CausesClosed
<1>7. Set!Normalize(on) = IF "NoInterpret" \in implied THEN implied \ Set!Muted ELSE implied
  BY DEF Set!Normalize, suggest, trace, insight, capacity, implied
<1> QED
  BY <1>5, <1>6, <1>7

\* Normalizing once is enough.
LEMMA NormalizedOnce ==
  ASSUME NEW on
  PROVE  Set!Normalize(Set!Normalize(on)) = Set!Normalize(on)
<1> DEFINE once == Set!Normalize(on)
<1>1. \A f : f \in once <=> /\ f \in on \/ \E g \in Causes(f) : g \in on
                            /\ ~("NoInterpret" \in on /\ f \in Set!Muted)
  BY Normalized
<1>2. \A f : f \in Set!Normalize(once) <=> /\ f \in once \/ \E g \in Causes(f) : g \in once
                                           /\ ~("NoInterpret" \in once /\ f \in Set!Muted)
  BY Normalized
<1> HIDE DEF once
<1>3. "NoInterpret" \in once <=> "NoInterpret" \in on
  BY <1>1, CausesClosed DEF Set!Muted
<1>4. ASSUME NEW f, NEW g \in Causes(f), g \in once PROVE \E h \in Causes(f) : h \in on
  BY <1>1, <1>4, CausesClosed
<1>5. \A f : f \in Set!Normalize(once) <=> f \in once
  BY <1>1, <1>2, <1>3, <1>4
<1>6. once \subseteq Set!Normalize(once) /\ Set!Normalize(once) \subseteq once
  BY <1>5
<1> QED
  BY <1>6 DEF once

-----------------------------------------------------------------------------
\* What a command line and a config file can be.

FileKeys   == DOMAIN FileValues
FlagKeys   == DOMAIN FlagValues
FileGiven  == {Unset} \cup UNION {FileValues[key] : key \in FileKeys}
FlagsGiven == {Unset} \cup UNION {FlagValues[key] : key \in FlagKeys}

SettingRecords ==
  [command : Commands, profile : AnalysisProfiles, file : [FileKeys -> FileGiven], flags : [FlagKeys -> FlagsGiven],
   on : SUBSET Switches]
Legal(s) ==
  /\ s \in SettingRecords
  /\ s.profile # "" => s.command = "status"
  /\ s.on # {} => s.command \in Set!Reads
  /\ \A key \in FlagKeys : s.flags[key] # Unset => Set!Knows(s.command, key)
  /\ s.file.allNamespaces \in BOOLEAN \cup {Unset} /\ s.flags.allNamespaces \in BOOLEAN \cup {Unset}

AboutSettings(n, s) == subject = [topic |-> "settings", given |-> n, s |-> s]
SettingInv == subject = Opened("settings") \/ \E n, s : AboutSettings(n, s) /\ Legal(s)

LEMMA BlankSettings ==
  ASSUME NEW command \in Commands, NEW profile \in AnalysisProfiles, profile # "" => command = "status"
  PROVE  Legal([command |-> command, profile |-> profile, file |-> Blank(FileValues), flags |-> Blank(FlagValues),
                on |-> {}])
<1> DEFINE s == [command |-> command, profile |-> profile, file |-> Blank(FileValues), flags |-> Blank(FlagValues),
                 on |-> {}]
<1> Unset \in FileGiven
  BY DEF FileGiven
<1> Unset \in FlagsGiven
  BY DEF FlagsGiven
<1>1. Blank(FileValues) \in [FileKeys -> FileGiven]
  BY DEF Blank, FileKeys
<1>2. Blank(FlagValues) \in [FlagKeys -> FlagsGiven]
  BY DEF Blank, FlagKeys
<1>3. s \in SettingRecords
  BY <1>1, <1>2 DEF SettingRecords
<1>4. /\ Blank(FileValues).allNamespaces = Unset /\ Blank(FlagValues).allNamespaces = Unset
      /\ \A key \in FlagKeys : Blank(FlagValues)[key] = Unset
  BY SettingAssumption DEF Blank, FlagKeys
<1> QED
  BY <1>3, <1>4 DEF Legal

\* One key more in the file.
LEMMA KeyKeepsLegal ==
  ASSUME NEW s, Legal(s), NEW key \in FileKeys, NEW v \in FileValues[key]
  PROVE  Legal([s EXCEPT !.file[key] = v])
<1> DEFINE t == [s EXCEPT !.file[key] = v]
<1>1. s \in SettingRecords /\ s.file \in [FileKeys -> FileGiven]
  BY DEF Legal, SettingRecords
<1>2. v \in FileGiven
  BY DEF FileGiven
<1>3. /\ t.command = s.command /\ t.profile = s.profile /\ t.flags = s.flags /\ t.on = s.on
      /\ t.file = [s.file EXCEPT ![key] = v]
  BY <1>1 DEF SettingRecords
<1>4. t \in SettingRecords
  BY <1>1, <1>2 DEF SettingRecords
<1>5. key = "allNamespaces" => v \in BOOLEAN
  BY SettingAssumption
<1>6. t.file.allNamespaces \in BOOLEAN \cup {Unset}
  <2>1. "allNamespaces" \in FileKeys
    BY SettingAssumption DEF FileKeys
  <2>2. t.file.allNamespaces = IF key = "allNamespaces" THEN v ELSE s.file.allNamespaces
    BY <1>1, <1>3, <2>1
  <2> QED
    BY <1>5, <2>2 DEF Legal
<1> HIDE DEF t
<1>7. Legal(t)
  BY <1>3, <1>4, <1>6 DEF Legal
<1> QED
  BY <1>7 DEF t

\* One flag more.
LEMMA FlagKeepsLegal ==
  ASSUME NEW s, Legal(s), NEW key \in FlagKeys, NEW v \in FlagValues[key], Set!Knows(s.command, key)
  PROVE  Legal([s EXCEPT !.flags[key] = v])
<1> DEFINE t == [s EXCEPT !.flags[key] = v]
<1>1. s \in SettingRecords /\ s.flags \in [FlagKeys -> FlagsGiven]
  BY DEF Legal, SettingRecords
<1>2. v \in FlagsGiven
  BY DEF FlagsGiven
<1>3. /\ t.command = s.command /\ t.profile = s.profile /\ t.file = s.file /\ t.on = s.on
      /\ t.flags = [s.flags EXCEPT ![key] = v]
  BY <1>1 DEF SettingRecords
<1>4. t \in SettingRecords
  BY <1>1, <1>2 DEF SettingRecords
<1>5. key = "allNamespaces" => v \in BOOLEAN
  BY SettingAssumption
<1>6. t.flags.allNamespaces \in BOOLEAN \cup {Unset}
  <2>1. "allNamespaces" \in FlagKeys
    BY SettingAssumption DEF FlagKeys
  <2>2. t.flags.allNamespaces = IF key = "allNamespaces" THEN v ELSE s.flags.allNamespaces
    BY <1>1, <1>3, <2>1
  <2> QED
    BY <1>5, <2>2 DEF Legal
<1>7. \A k \in FlagKeys : t.flags[k] # Unset => Set!Knows(s.command, k)
  BY <1>1, <1>3 DEF Legal
<1> HIDE DEF t
<1>8. Legal(t)
  BY <1>3, <1>4, <1>6, <1>7 DEF Legal
<1> QED
  BY <1>8 DEF t

\* One switch more.
LEMMA SwitchKeepsLegal ==
  ASSUME NEW s, Legal(s), NEW f \in Switches, s.command \in Set!Reads
  PROVE  Legal([s EXCEPT !.on = @ \cup {f}])
<1> DEFINE t == [s EXCEPT !.on = @ \cup {f}]
<1>1. s \in SettingRecords
  BY DEF Legal
<1>2. /\ t.command = s.command /\ t.profile = s.profile /\ t.file = s.file /\ t.flags = s.flags
      /\ t \in SettingRecords
  BY <1>1 DEF SettingRecords
<1> HIDE DEF t
<1>3. Legal(t)
  BY <1>2 DEF Legal
<1> QED
  BY <1>3 DEF t

LEMMA SettingStep == SettingInv /\ [SettingNext]_subject => SettingInv'
<1> SUFFICES ASSUME SettingInv, [SettingNext]_subject PROVE SettingInv'
  OBVIOUS
<1>1. CASE UNCHANGED subject
  BY <1>1 DEF SettingInv, AboutSettings
<1>2. CASE CommandGiven
  BY <1>2, BlankSettings DEF CommandGiven, SettingInv, AboutSettings
<1>3. ASSUME NEW n, NEW s, NEW t, AboutSettings(n, s), Gives(t), Legal(t) PROVE SettingInv'
  <2>1. subject' = [topic |-> "settings", given |-> n + 1, s |-> t]
    BY <1>3 DEF AboutSettings, Gives
  <2> QED
    BY <1>3, <2>1 DEF SettingInv, AboutSettings
<1>4. ASSUME MayGive PROVE \E n, s : AboutSettings(n, s) /\ Legal(s) /\ subject.s = s
  BY <1>4 DEF MayGive, About, Opened, SettingInv, AboutSettings
<1>5. CASE KeyInFile
  BY <1>3, <1>4, <1>5, KeyKeepsLegal DEF KeyInFile, FileKeys
<1>6. CASE FlagGiven
  BY <1>3, <1>4, <1>6, FlagKeepsLegal DEF FlagGiven, FlagKeys
<1>7. CASE SwitchGiven
  BY <1>3, <1>4, <1>7, SwitchKeepsLegal DEF SwitchGiven
<1> QED
  BY <1>1, <1>2, <1>5, <1>6, <1>7 DEF SettingNext

LEMMA SettingInvHolds == SettingSpec => []SettingInv
<1>1. Opens("settings") => SettingInv
  BY DEF Opens, SettingInv
<1> QED
  BY <1>1, SettingStep, PTL DEF SettingSpec

-----------------------------------------------------------------------------
\* What a command runs with depends on what was chosen alone.

LEMMA OutcomeFollows ==
  ASSUME NEW s, NEW t,
         t.command = s.command, t.profile = s.profile, t.flags = s.flags, t.on = s.on,
         (t.file.explainPods = TRUE) = (s.file.explainPods = TRUE),
         Set!ChosenEvents(t) = Set!ChosenEvents(s),
         \A key \in {"keda", "vpa", "output"} : Set!Chosen(t, key) = Set!Chosen(s, key)
  PROVE  Set!Runs(t) = Set!Runs(s)
<1>1. Set!Effective(t) = Set!Effective(s)
  BY DEF Set!Effective
<1> QED
  BY <1>1 DEF Set!Runs

LEMMA WithoutKeys ==
  ASSUME NEW s, Legal(s), NEW keys
  PROVE  LET t == Without(s, keys)
         IN  /\ t.command = s.command /\ t.profile = s.profile /\ t.flags = s.flags /\ t.on = s.on
             /\ DOMAIN t.file = FileKeys /\ DOMAIN s.file = FileKeys
             /\ \A key \in FileKeys : t.file[key] = IF key \in keys THEN Unset ELSE s.file[key]
             /\ Legal(t)
<1> DEFINE t == Without(s, keys)
<1>1. s \in SettingRecords /\ s.file \in [FileKeys -> FileGiven]
  BY DEF Legal, SettingRecords
<1>2. Unset \in FileGiven
  BY DEF FileGiven
<1>3. /\ t.command = s.command /\ t.profile = s.profile /\ t.flags = s.flags /\ t.on = s.on
      /\ t.file = [key \in FileKeys |-> IF key \in keys THEN Unset ELSE s.file[key]]
  BY <1>1 DEF SettingRecords, Without
<1>4. t \in SettingRecords
  BY <1>1, <1>2 DEF SettingRecords, Without
<1> HIDE DEF t
<1>5. "allNamespaces" \in FileKeys
  BY SettingAssumption DEF FileKeys
<1>6. t.file.allNamespaces \in BOOLEAN \cup {Unset}
  BY <1>3, <1>5 DEF Legal
<1>7. Legal(t)
  BY <1>3, <1>4, <1>6 DEF Legal
<1> QED
  BY <1>1, <1>3, <1>7 DEF t

\* What the file says of a flag given, or of nothing asked, is not looked at.
LEMMA ChosenWithout ==
  ASSUME NEW s, Legal(s), NEW keys, NEW key, s.flags[key] # Unset \/ key \notin keys
  PROVE  Set!Chosen(Without(s, keys), key) = Set!Chosen(s, key)
BY WithoutKeys DEF Set!Chosen, Set!Given

LEMMA KeysOfFile ==
  {"namespace", "allNamespaces", "output", "templates", "filter", "minScore", "maxScore", "healthScore", "events",
   "eventsEnabled", "keda", "vpa", "explainPods"} = FileKeys
BY SettingAssumption DEF FileKeys

LEMMA FlagsDecide ==
  ASSUME NEW s, Legal(s)
  PROVE  FlagsWin(s)
<1> SUFFICES ASSUME NEW flag \in FlagKeys, s.flags[flag] # Unset
             PROVE  Outcome(Without(s, KeysUnder(flag))) = Outcome(s)
  BY DEF FlagsWin, Legal, SettingRecords
<1> DEFINE keys == KeysUnder(flag)
           t == Without(s, keys)
<1>1. /\ t.command = s.command /\ t.profile = s.profile /\ t.flags = s.flags /\ t.on = s.on
      /\ \A key \in FileKeys : t.file[key] = IF key \in keys THEN Unset ELSE s.file[key]
  BY WithoutKeys
<1>2. /\ flag \in {"namespace", "allNamespaces", "output", "schema", "filter", "minScore", "healthScore", "events",
                   "keda", "vpa", "export", "report"}
  BY SettingAssumption DEF FlagKeys
<1>3. \A key \in {"namespace", "allNamespaces", "filter", "minScore", "keda", "vpa", "output"} :
         key = flag \/ key \notin keys
  BY <1>2 DEF KeysUnder
<1>4. \A key \in {"namespace", "allNamespaces", "filter", "minScore", "keda", "vpa", "output"} :
         Set!Chosen(t, key) = Set!Chosen(s, key)
  BY <1>3, ChosenWithout
<1>5. t.file.explainPods = s.file.explainPods /\ t.file.templates = s.file.templates
  BY <1>1, <1>2, KeysOfFile DEF KeysUnder
<1>6. Set!ChosenEvents(t) = Set!ChosenEvents(s)
  <2>1. CASE flag = "events"
    BY <1>1, <2>1 DEF Set!ChosenEvents, Set!Given
  <2>2. CASE flag # "events"
    <3>1. t.file.events = s.file.events /\ t.file.eventsEnabled = s.file.eventsEnabled
      BY <1>1, <1>2, <2>2, KeysOfFile DEF KeysUnder
    <3> QED
      BY <1>1, <3>1 DEF Set!ChosenEvents
  <2> QED
    BY <2>1, <2>2
<1>7. Set!ChosenMax(t) = Set!ChosenMax(s)
  <2>1. CASE flag = "healthScore"
    BY <1>1, <2>1 DEF Set!ChosenMax, Set!Given
  <2>2. CASE flag # "healthScore"
    <3>1. t.file.healthScore = s.file.healthScore /\ t.file.maxScore = s.file.maxScore
      BY <1>1, <1>2, <2>2, KeysOfFile DEF KeysUnder
    <3> QED
      BY <1>1, <3>1 DEF Set!ChosenMax, Set!ConfigMax
  <2> QED
    BY <2>1, <2>2
<1>8. Set!Runs(t) = Set!Runs(s)
  BY <1>1, <1>4, <1>5, <1>6, OutcomeFollows
<1>9. Set!Format(t) = Set!Format(s)
  BY <1>1, <1>4, <1>5 DEF Set!Format, Set!Templates
<1> HIDE DEF t
<1> QED
  BY <1>4, <1>7, <1>8, <1>9 DEF Outcome, t

-----------------------------------------------------------------------------
\* Presets are complete.

\* The switches of a preset that bring along others.
LEMMA PresetsAsk ==
  ASSUME NEW c
  PROVE  /\ \A f \in Set!PresetFeatures(c) \cap Triggers :
              \/ c = "explain" /\ f = "TraceFormat"
              \/ c = "node-context" /\ f \in {"NodeAutoscaler", "Karpenter"}
              \/ c = "history" /\ f = "Trend"
         /\ Set!PresetFeatures("explain") = {"Explain", "DecisionTrace", "TraceFormat"}
         /\ {"CapacityContext", "CapacityDeep", "ScalePath"} \subseteq Set!PresetFeatures("node-context")
         /\ c \in Set!Reads => Set!PresetFeatures(c) = {}
         /\ {"NoInterpret", "NoEnrich", "ExplainPods"} \cap Set!PresetFeatures(c) \subseteq {"ExplainPods"}
BY DEF Set!PresetFeatures, Triggers, Set!GapFeatures, Set!ReadyFeatures, Set!DoctorFeatures, Set!ProbeFeatures, Set!Wide,
       Set!Bundles, Set!Reads, Set!Statuses, Set!Lists

\* A dedicated command has no switches: what it starts from is what the file adds.
LEMMA DedicatedStart ==
  ASSUME NEW s, Legal(s), s.command \notin Set!Reads
  PROVE  s.on = {} /\ s.profile = "" /\ Set!Effective(s).on \subseteq {"ExplainPods"}
<1>1. s.on = {} /\ s.profile = ""
  BY DEF Legal, Set!Reads, Set!Statuses
<1>2. "export" \in FlagKeys
  BY SettingAssumption DEF FlagKeys
<1>3. ~Set!Given(s.flags.export)
  BY <1>2 DEF Legal, Set!Knows, Set!Given
<1>4. Set!ProfileFeatures(s.profile) = {}
  BY <1>1 DEF Set!ProfileFeatures
<1> DEFINE pods == IF s.file.explainPods = TRUE THEN {"ExplainPods"} ELSE {}
<1>5. Set!Effective(s).on = Set!Normalize(pods)
  <2>1. s.on \cup {} \cup pods \cup {} = pods
    BY <1>1
  <2> QED
    BY <1>1, <1>3, <1>4, <2>1 DEF Set!Effective
<1>6. "ExplainPods" \notin Triggers
  BY DEF Triggers
<1>7. ASSUME NEW f \in Set!Normalize(pods) PROVE f \in {"ExplainPods"}
  BY <1>6, Normalized, CausesClosed
<1> QED
  BY <1>1, <1>5, <1>7

LEMMA RunsOn ==
  ASSUME NEW s
  PROVE  Set!Runs(s).on = Set!Effective(s).on \cup Set!PresetFeatures(s.command)
                          \cup (IF s.command = "explain" /\ Set!Effective(s).output = "" THEN {"Structured"} ELSE {})
BY DEF Set!Runs, Set!Effective

LEMMA ReadsHaveNoPreset ==
  ASSUME NEW s, s.command \in Set!Reads
  PROVE  Set!Runs(s).on = Set!Effective(s).on
<1>1. Set!PresetFeatures(s.command) = {}
  BY PresetsAsk
<1>2. s.command # "explain"
  BY DEF Set!Reads, Set!Statuses, Set!Lists
<1> QED
  BY <1>1, <1>2, RunsOn

LEMMA ImplicationsComplete ==
  ASSUME NEW s, Legal(s)
  PROVE  NothingLeftToImply(s)
<1> DEFINE on == Set!Runs(s).on
           left == IF s.command = "history" THEN {"TrendAnomaly"} ELSE {}
<1>1. CASE s.command \in Set!Reads
  <2>1. on = Set!Effective(s).on
    BY <1>1, ReadsHaveNoPreset
  <2>2. PICK given : on = Set!Normalize(given)
    BY <2>1 DEF Set!Effective
  <2>3. Set!Normalize(on) = on
    BY <2>2, NormalizedOnce
  <2> QED
    BY <2>3 DEF NothingLeftToImply
<1>2. CASE s.command \notin Set!Reads
  <2> DEFINE preset == Set!PresetFeatures(s.command)
  <2>1. on \subseteq {"ExplainPods"} \cup preset \cup (IF s.command = "explain" THEN {"Structured"} ELSE {})
    BY <1>2, RunsOn, DedicatedStart
  <2>2. preset \subseteq on
    BY RunsOn
  <2> HIDE DEF on
  <2>3. "NoInterpret" \notin on
    BY <2>1, PresetsAsk
  <2>4. \A f \in on \cap Triggers :
           \/ s.command = "explain" /\ f \in {"TraceFormat", "Structured"}
           \/ s.command = "node-context" /\ f \in {"NodeAutoscaler", "Karpenter"}
           \/ s.command = "history" /\ f = "Trend"
    BY <2>1, PresetsAsk DEF Triggers
  <2>5. ASSUME NEW f, NEW g \in Causes(f), g \in on PROVE f \in on \cup left
    <3>1. \/ s.command = "explain" /\ g \in {"TraceFormat", "Structured"}
          \/ s.command = "node-context" /\ g \in {"NodeAutoscaler", "Karpenter"}
          \/ s.command = "history" /\ g = "Trend"
      BY <2>4, <2>5, CausesClosed
    <3>2. /\ g \in {"TraceFormat", "Structured"} => f \in {"Explain", "DecisionTrace", "TraceFormat"}
          /\ g \in {"NodeAutoscaler", "Karpenter"} => f \in {"CapacityContext", "CapacityDeep", "ScalePath"}
          /\ g = "Trend" => f = "TrendAnomaly"
      BY <2>5 DEF Causes
    <3> QED
      BY <2>2, <3>1, <3>2, PresetsAsk
  <2>6. \A f : f \in Set!Normalize(on) <=> f \in on \/ \E g \in Causes(f) : g \in on
    BY <2>3, Normalized
  <2>7. Set!Normalize(on) \ left = on \ left
    BY <2>5, <2>6
  <2> QED
    BY <2>7 DEF NothingLeftToImply, on
<1> QED
  BY <1>1, <1>2

-----------------------------------------------------------------------------
\* Events.

LEMMA RunsEvents ==
  ASSUME NEW s
  PROVE  /\ s.command \in {"doctor", "history"} \cup Set!Bundles => Set!Runs(s).events.enabled
         /\ s.command \notin {"doctor", "history"} \cup Set!Bundles => Set!Runs(s).events = Set!Effective(s).events
<1> DEFINE limit == CASE s.command = "doctor" -> 5 [] s.command \in Set!Bundles -> 20 [] s.command = "history" -> 50 [] OTHER -> 0
<1>1. Set!Runs(s).events = IF limit > 0 THEN [enabled |-> TRUE, limit |-> limit] ELSE Set!Effective(s).events
  BY DEF Set!Runs, Set!Effective
<1>2. s.command \in {"doctor", "history"} \cup Set!Bundles => limit \in {5, 20, 50}
  BY DEF Set!Bundles
<1>3. s.command \notin {"doctor", "history"} \cup Set!Bundles => limit = 0
  OBVIOUS
<1> HIDE DEF limit
<1> QED
  BY <1>1, <1>2, <1>3

LEMMA EventsAsked ==
  ASSUME NEW s, Legal(s)
  PROVE  EventsAsAsked(s)
<1> DEFINE runs  == Set!Runs(s)
           asked == Set!ChosenEvents(s)
           seen  == "churn analysis" \in Set!Enrichments(runs)
<1>1. "ChurnDetect" \in runs.on /\ runs.events.enabled /\ "NoEnrich" \notin runs.on => seen
  BY DEF Set!Enrichments
<1>2. Set!Effective(s).events = IF s.command = "status" /\ "Explain" \in Set!Effective(s).on /\ ~asked.asked
                                THEN [enabled |-> TRUE, limit |-> 5] ELSE [enabled |-> asked.enabled, limit |-> asked.limit]
  <2>1. Set!EventsOf("true") = [enabled |-> TRUE, limit |-> 5]
    BY DEF Set!EventsOf, Set!NoEvents
  <2> QED
    BY <2>1 DEF Set!Effective
<1>3. s.command = "status" => runs.events = Set!Effective(s).events
  BY RunsEvents DEF Set!Bundles
<1>4. s.command = "status" /\ asked.asked => runs.events = [enabled |-> asked.enabled, limit |-> asked.limit]
  BY <1>2, <1>3
<1>5. ASSUME "ChurnDetect" \in Set!PresetFeatures(s.command) PROVE seen
  <2>1. s.command \in {"doctor", "history"} \cup Set!Bundles
    BY <1>5 DEF Set!PresetFeatures, Set!GapFeatures, Set!ReadyFeatures, Set!ProbeFeatures, Set!Bundles
  <2>2. runs.events.enabled
    BY <2>1, RunsEvents DEF Set!Bundles
  <2>3. s.command \notin Set!Reads
    BY <2>1 DEF Set!Bundles, Set!Reads, Set!Statuses, Set!Lists
  <2>4. "ChurnDetect" \in runs.on
    BY <1>5, RunsOn
  <2>5. "NoEnrich" \notin runs.on
    <3>1. s.command # "explain" /\ "NoEnrich" \notin Set!PresetFeatures(s.command)
      BY <2>1, PresetsAsk DEF Set!Bundles
    <3>2. "NoEnrich" \notin Set!Effective(s).on
      BY <2>3, DedicatedStart
    <3> QED
      BY <3>1, <3>2, RunsOn
  <2> QED
    BY <1>1, <2>2, <2>4, <2>5
<1>6. ASSUME "ChurnDetect" \in Set!ProfileFeatures(s.profile), ~asked.asked, s.on \cap {"NoEnrich", "HPAOnly"} = {}
      PROVE  seen
  <2>1. {"ChurnDetect", "Explain"} \subseteq Set!ProfileFeatures(s.profile)
    BY <1>6 DEF Set!ProfileFeatures, Set!DoctorFeatures, Set!ProbeFeatures, Set!GapFeatures, Set!ReadyFeatures,
                Set!DeepFeatures
  <2>2. s.profile # ""
    BY <1>6 DEF Set!ProfileFeatures
  <2>3. s.command = "status"
    BY <2>2 DEF Legal
  <2>4. PICK given : /\ Set!Effective(s).on = Set!Normalize(given)
                     /\ Set!ProfileFeatures(s.profile) \subseteq given
                     /\ given \cap {"NoEnrich", "HPAOnly"} = {}
    <3>1. Set!ProfileFeatures(s.profile) \cap {"NoEnrich", "HPAOnly"} = {}
      BY DEF Set!ProfileFeatures, Set!DoctorFeatures, Set!ProbeFeatures, Set!GapFeatures, Set!ReadyFeatures,
             Set!DeepFeatures
    <3> QED
      BY <1>6, <3>1 DEF Set!Effective
  <2>5. /\ {"ChurnDetect", "Explain"} \subseteq Set!Effective(s).on
        /\ "NoEnrich" \notin Set!Effective(s).on
    BY <2>1, <2>4, Normalized DEF Causes, Set!Muted
  <2>6. runs.on = Set!Effective(s).on
    BY <2>3, ReadsHaveNoPreset DEF Set!Reads, Set!Statuses
  <2>7. runs.events.enabled
    BY <1>2, <1>3, <1>6, <2>3, <2>5
  <2> QED
    BY <1>1, <2>5, <2>6, <2>7
<1> QED
  BY <1>4, <1>5, <1>6 DEF EventsAsAsked

-----------------------------------------------------------------------------
\* Switches add.

\* What is normalized for a command that reads.
GivenOn(s) ==
  s.on \cup (IF Set!Given(s.flags.export) THEN {"Export"} ELSE {})
       \cup (IF s.file.explainPods = TRUE THEN {"ExplainPods"} ELSE {}) \cup Set!ProfileFeatures(s.profile)

LEMMA ReadsRun ==
  ASSUME NEW s, s.command \in Set!Reads
  PROVE  /\ Set!Runs(s).on = Set!Normalize(GivenOn(s))
         /\ Set!Runs(s).events.enabled =
              IF s.command = "status" /\ "Explain" \in Set!Normalize(GivenOn(s)) /\ ~Set!ChosenEvents(s).asked
              THEN TRUE ELSE Set!ChosenEvents(s).enabled
<1>1. Set!Effective(s).on = Set!Normalize(GivenOn(s))
  BY DEF Set!Effective, GivenOn
<1>2. Set!Runs(s).events = Set!Effective(s).events
  BY RunsEvents DEF Set!Reads, Set!Statuses, Set!Lists, Set!Bundles
<1>3. Set!EventsOf("true") = [enabled |-> TRUE, limit |-> 5]
  BY DEF Set!EventsOf, Set!NoEvents
<1>4. Set!Effective(s).events = IF s.command = "status" /\ "Explain" \in Set!Effective(s).on /\ ~Set!ChosenEvents(s).asked
                                THEN [enabled |-> TRUE, limit |-> 5]
                                ELSE [enabled |-> Set!ChosenEvents(s).enabled, limit |-> Set!ChosenEvents(s).limit]
  BY <1>3 DEF Set!Effective
<1> QED
  BY <1>1, <1>2, <1>4, ReadsHaveNoPreset

\* One switch less turns on nothing, but for what --no-interpret muted.
LEMMA OneSwitchLess ==
  ASSUME NEW given, NEW lower, NEW f, lower \subseteq given, given \subseteq lower \cup {f},
         NEW x \in Set!Normalize(lower)
  PROVE  x \in Set!Normalize(given) \/ (f = "NoInterpret" /\ x \in Set!Muted)
BY Normalized

\* More switches, no fewer enrichments.
LEMMA EnrichmentsGrow ==
  ASSUME NEW r, NEW q, NEW muted \in BOOLEAN,
         \A x \in q.on : x \in r.on \/ (muted /\ x \in Set!Muted),
         "NoInterpret" \in r.on /\ ~muted => "NoInterpret" \in q.on,
         "NoEnrich" \in r.on => "NoEnrich" \in q.on,
         q.events.enabled => r.events.enabled
  PROVE  Set!Enrichments(q) \ Set!Enrichments(r) \subseteq (IF muted THEN {"observations"} ELSE {})
<1> SUFFICES ASSUME NEW e \in Set!Enrichments(q), e \notin Set!Enrichments(r) PROVE muted /\ e = "observations"
  OBVIOUS
<1>1. "NoEnrich" \notin q.on /\ "NoEnrich" \notin r.on
  BY DEF Set!Enrichments
<1>2. \/ e \in DOMAIN Set!Gates /\ Set!Gates[e] \cap q.on # {}
      \/ e = "observations" /\ "Interpret" \in q.on /\ "NoInterpret" \notin q.on
      \/ e = "events" /\ (q.events.enabled \/ "FlappingAdvisor" \in q.on)
      \/ e = "churn analysis" /\ "ChurnDetect" \in q.on /\ q.events.enabled
      \/ e \in {"report", "vpaAdvisory"}
  BY <1>1 DEF Set!Enrichments
<1>3. ~ \/ e \in DOMAIN Set!Gates /\ Set!Gates[e] \cap r.on # {}
        \/ e = "observations" /\ "Interpret" \in r.on /\ "NoInterpret" \notin r.on
        \/ e = "events" /\ (r.events.enabled \/ "FlappingAdvisor" \in r.on)
        \/ e = "churn analysis" /\ "ChurnDetect" \in r.on /\ r.events.enabled
        \/ e \in {"report", "vpaAdvisory"}
  BY <1>1 DEF Set!Enrichments
<1>4. CASE e \in DOMAIN Set!Gates /\ Set!Gates[e] \cap q.on # {}
  <2>1. PICK x \in Set!Gates[e] : x \in q.on /\ muted /\ x \in Set!Muted
    BY <1>3, <1>4
  <2>2. \A g \in DOMAIN Set!Gates : Set!Gates[g] \cap Set!Muted # {} => g = "observations"
    BY DEF Set!Gates, Set!Muted
  <2> QED
    BY <1>4, <2>1, <2>2
<1>5. CASE e = "observations" /\ "Interpret" \in q.on /\ "NoInterpret" \notin q.on
  BY <1>3, <1>5
<1>6. CASE e = "events" /\ (q.events.enabled \/ "FlappingAdvisor" \in q.on)
  BY <1>3, <1>6 DEF Set!Muted
<1>7. CASE e = "churn analysis" /\ "ChurnDetect" \in q.on /\ q.events.enabled
  BY <1>3, <1>7 DEF Set!Muted
<1> QED
  BY <1>2, <1>3, <1>4, <1>5, <1>6, <1>7

LEMMA SwitchesOnlyAdd ==
  ASSUME NEW s, Legal(s)
  PROVE  SwitchesAdd(s)
<1> SUFFICES ASSUME NEW f \in s.on \ {"NoEnrich", "HPAOnly"}
             PROVE  Set!Enrichments(Set!Runs([s EXCEPT !.on = @ \ {f}])) \ Set!Enrichments(Set!Runs(s))
                    \subseteq (IF f = "NoInterpret" THEN {"observations"} ELSE {})
  BY DEF SwitchesAdd
<1> DEFINE t == [s EXCEPT !.on = @ \ {f}]
           r == Set!Runs(s)
           q == Set!Runs(t)
<1>1. /\ s.command \in Set!Reads /\ t.command = s.command /\ t.profile = s.profile /\ t.file = s.file
      /\ t.flags = s.flags /\ t.on = s.on \ {f}
  BY DEF Legal, SettingRecords
<1> HIDE DEF t
<1>2. GivenOn(t) \subseteq GivenOn(s) /\ GivenOn(s) \subseteq GivenOn(t) \cup {f}
  BY <1>1 DEF GivenOn
<1>3. r.on = Set!Normalize(GivenOn(s)) /\ q.on = Set!Normalize(GivenOn(t))
  BY <1>1, ReadsRun
<1>4. \A x \in q.on : x \in r.on \/ (f = "NoInterpret" /\ x \in Set!Muted)
  BY <1>2, <1>3, OneSwitchLess
<1>5. "NoInterpret" \in r.on /\ f # "NoInterpret" => "NoInterpret" \in q.on
  BY <1>2, <1>3, Normalized, CausesClosed
<1>6. "NoEnrich" \in r.on => "NoEnrich" \in q.on
  BY <1>2, <1>3, Normalized DEF Causes, Set!Muted
<1>7. q.events.enabled => r.events.enabled
  <2>1. Set!ChosenEvents(t) = Set!ChosenEvents(s)
    BY <1>1 DEF Set!ChosenEvents
  <2>2. "Explain" \in q.on => "Explain" \in r.on
    BY <1>4 DEF Set!Muted
  <2> QED
    BY <1>1, <1>3, <2>1, <2>2, ReadsRun
<1> HIDE DEF q, r
<1>8. Set!Enrichments(q) \ Set!Enrichments(r) \subseteq (IF f = "NoInterpret" THEN {"observations"} ELSE {})
  BY <1>4, <1>5, <1>6, <1>7, EnrichmentsGrow
<1> QED
  BY <1>8 DEF q, r, t

-----------------------------------------------------------------------------
\* What a valid file is not about.

ScoreKeys == {"filter", "minScore", "maxScore", "healthScore"}

LEMMA ScoresAreForLists ==
  ASSUME NEW s, Legal(s), Set!ConfigOK(s.file), s.command \notin Set!Lists
  PROVE  /\ Set!Refused(Without(s, ScoreKeys)) = Set!Refused(s)
         /\ Set!Runs(Without(s, ScoreKeys)) = Set!Runs(s)
<1> DEFINE t == Without(s, ScoreKeys)
<1>1. /\ t.command = s.command /\ t.profile = s.profile /\ t.flags = s.flags /\ t.on = s.on
      /\ \A key \in FileKeys : t.file[key] = IF key \in ScoreKeys THEN Unset ELSE s.file[key]
  BY WithoutKeys
<1>2. \A key \in {"namespace", "allNamespaces", "output", "keda", "vpa"} : Set!Chosen(t, key) = Set!Chosen(s, key)
  BY ChosenWithout DEF ScoreKeys
<1> HIDE DEF t
<1>3. /\ \A key \in {"namespace", "allNamespaces", "output", "templates", "events", "eventsEnabled", "keda", "explainPods"} :
           t.file[key] = s.file[key]
      /\ \A key \in ScoreKeys : t.file[key] = Unset
  BY <1>1, KeysOfFile DEF ScoreKeys
<1>4. Set!ChosenEvents(t) = Set!ChosenEvents(s)
  BY <1>1, <1>3 DEF Set!ChosenEvents
<1>5. Set!Effective(t) = Set!Effective(s)
  BY <1>1, <1>2, <1>3, <1>4 DEF Set!Effective
<1>6. Set!Format(t) = Set!Format(s)
  BY <1>1, <1>2, <1>3 DEF Set!Format, Set!Templates
<1>7. Set!ConfigOK(t.file)
  <2>1. /\ t.file.minScore = Unset /\ t.file.maxScore = Unset /\ t.file.healthScore = Unset
    BY <1>3 DEF ScoreKeys
  <2>2. /\ t.file.events = s.file.events /\ t.file.namespace = s.file.namespace
        /\ t.file.allNamespaces = s.file.allNamespaces /\ t.file.output = s.file.output
        /\ t.file.templates = s.file.templates /\ t.file.keda = s.file.keda
    BY <1>3
  <2> QED
    BY <2>1, <2>2 DEF Set!ConfigOK, Set!InRange, Set!ConfigMax, Set!Given, Set!Templates
<1>8. s.command # "list"
  BY DEF Set!Lists
<1>9. /\ Set!NamespacesRefused(t) = Set!NamespacesRefused(s)
      /\ Set!SchemaRefused(t) = Set!SchemaRefused(s)
      /\ Set!ModeRefused(t) = Set!ModeRefused(s)
      /\ Set!FormatRefused(t) = Set!FormatRefused(s)
      /\ Set!ApplyRefused(t) = Set!ApplyRefused(s)
  BY <1>1, <1>2, <1>5, <1>6 DEF Set!NamespacesRefused, Set!SchemaRefused, Set!ModeRefused, Set!FormatRefused, Set!ApplyRefused
<1>10. Set!ScoresRefused(t) = Set!ScoresRefused(s)
  BY <1>1 DEF Set!ScoresRefused
<1>11. Set!Refused(t) = Set!Refused(s)
  BY <1>1, <1>7, <1>8, <1>9, <1>10 DEF Set!Refused
<1>12. Set!Runs(t) = Set!Runs(s)
  BY <1>1, <1>2, <1>3, <1>4, OutcomeFollows
<1> QED
  BY <1>11, <1>12 DEF t

\* Reasons, one by one.
LEMMA RefusedFor ==
  ASSUME NEW s
  PROVE  /\ "file" \in Set!Refused(s) <=> ~Set!ConfigOK(s.file)
         /\ "namespaces" \in Set!Refused(s) <=> Set!NamespacesRefused(s)
         /\ "schema" \in Set!Refused(s) <=> Set!SchemaRefused(s)
         /\ "mode" \in Set!Refused(s) <=> Set!ModeRefused(s)
         /\ "scores" \in Set!Refused(s) <=> Set!ScoresRefused(s)
BY DEF Set!Refused

LEMMA FileIsHarmless ==
  ASSUME NEW s, Legal(s), Set!ConfigOK(s.file)
  PROVE  FileHarmsNobody(s)
<1> DEFINE bare == Without(s, DOMAIN s.file)
<1>1. /\ bare.command = s.command /\ bare.profile = s.profile /\ bare.flags = s.flags /\ bare.on = s.on
      /\ DOMAIN s.file = FileKeys
      /\ \A key \in FileKeys : bare.file[key] = Unset
  BY WithoutKeys
<1> HIDE DEF bare
<1>2. ASSUME Set!SchemaRefused(s) PROVE Set!SchemaRefused(bare)
  <2>1. Set!Format(bare) \in Set!Structured => Set!Format(s) \in Set!Structured
    <3>1. Set!Templates(bare.file) = {}
      BY <1>1, KeysOfFile DEF Set!Templates, Set!Given
    <3>2. Set!Chosen(bare, "output") = IF Set!Given(s.flags.output) THEN s.flags.output ELSE ""
      BY <1>1, KeysOfFile DEF Set!Chosen, Set!Given, Set!Defaults
    <3>3. Set!Given(s.flags.output) => Set!Chosen(s, "output") = Set!Chosen(bare, "output")
      BY <3>2 DEF Set!Chosen
    <3>4. ~Set!Given(s.flags.output) => Set!Lowered(Set!Chosen(bare, "output")) \notin Set!Structured
      BY <3>2 DEF Set!Lowered, Set!Structured
    <3> QED
      BY <1>1, <3>1, <3>3, <3>4 DEF Set!Format, Set!Structured
  <2> QED
    BY <1>1, <1>2, <2>1 DEF Set!SchemaRefused
<1>3. Set!ModeRefused(s) => Set!ModeRefused(bare)
  BY <1>1 DEF Set!ModeRefused
<1>4. ASSUME \A key \in {"minScore", "healthScore"} : s.flags[key] = Unset PROVE ~Set!ScoresRefused(s)
  <2> DEFINE low  == Set!Chosen(s, "minScore")
             high == Set!ChosenMax(s)
  <2>1. low = IF Set!Given(s.file.minScore) THEN s.file.minScore ELSE -1
    BY <1>1, <1>4, KeysOfFile DEF Set!Chosen, Set!Given, Set!Defaults
  <2>2. high = IF Set!Given(Set!ConfigMax(s.file)) THEN Set!ConfigMax(s.file) ELSE -1
    BY <1>4 DEF Set!ChosenMax, Set!Given
  <2>3. /\ Set!Given(s.file.minScore) => s.file.minScore \in 0 .. 100
        /\ Set!Given(Set!ConfigMax(s.file)) => Set!ConfigMax(s.file) \in 0 .. 100
        /\ Set!Given(s.file.minScore) /\ Set!Given(Set!ConfigMax(s.file)) => s.file.minScore <= Set!ConfigMax(s.file)
    BY DEF Set!ConfigOK, Set!InRange, Set!ConfigMax
  <2> QED
    BY <2>1, <2>2, <2>3 DEF Set!ScoresRefused
<1>5. ASSUME \A key \in {"namespace", "allNamespaces"} : s.flags[key] = Unset PROVE ~Set!NamespacesRefused(s)
  <2>1. Set!Chosen(s, "allNamespaces") = IF Set!Given(s.file.allNamespaces) THEN s.file.allNamespaces ELSE FALSE
    BY <1>1, <1>5, KeysOfFile DEF Set!Chosen, Set!Given, Set!Defaults
  <2>2. Set!Chosen(s, "namespace") = IF Set!Given(s.file.namespace) THEN s.file.namespace ELSE Unset
    BY <1>1, <1>5, KeysOfFile DEF Set!Chosen, Set!Given, Set!Defaults
  <2>3. s.file.allNamespaces \in BOOLEAN \cup {Unset}
    BY DEF Legal
  <2>4. ~(Set!Given(s.file.namespace) /\ s.file.allNamespaces = TRUE)
    BY DEF Set!ConfigOK
  <2> QED
    BY <2>1, <2>2, <2>3, <2>4 DEF Set!NamespacesRefused, Set!Given
<1>6. Set!Refused(s) \cap {"schema", "mode"} \subseteq Set!Refused(bare)
  BY <1>2, <1>3, RefusedFor
<1> QED
  BY <1>4, <1>5, <1>6, ScoresAreForLists, RefusedFor DEF FileHarmsNobody, ScoreKeys, bare

-----------------------------------------------------------------------------

(***************************************************************************)
(* Whatever the command line and the config file, what a command runs with *)
(* is consistent (config_apply.go, normalize.go, presets.go and            *)
(* options_validation.go): a flag given decides alone, no implication is   *)
(* left open, a switch only adds, events are those asked for, and a valid  *)
(* file makes no command fail it is not about.                             *)
(***************************************************************************)
THEOREM SettingsAreConsistent == SettingSpec => SettingsHold
<1>1. ASSUME NEW s, Legal(s), "file" \notin Set!Refused(s)
      PROVE  FlagsWin(s) /\ NothingLeftToImply(s) /\ SwitchesAdd(s) /\ EventsAsAsked(s) /\ FileHarmsNobody(s)
  <2>1. Set!ConfigOK(s.file)
    BY <1>1, RefusedFor
  <2> QED
    BY <1>1, <2>1, FlagsDecide, ImplicationsComplete, SwitchesOnlyAdd, EventsAsked, FileIsHarmless
<1>2. SettingInv' => SettingsAgree(subject')
  <2> SUFFICES ASSUME SettingInv', subject'.topic = "settings", "file" \notin Set!Refused(subject'.s)
               PROVE  /\ FlagsWin(subject'.s) /\ NothingLeftToImply(subject'.s) /\ SwitchesAdd(subject'.s)
                      /\ EventsAsAsked(subject'.s) /\ FileHarmsNobody(subject'.s)
    BY DEF SettingsAgree
  <2>1. Legal(subject'.s)
    BY DEF SettingInv, AboutSettings, Opened
  <2> QED
    BY <1>1, <2>1
<1>3. SettingInv /\ [SettingNext]_subject => [SettingsAgree(subject')]_subject
  BY <1>2, SettingStep
<1> QED
  BY <1>3, SettingInvHolds, PTL DEF SettingSpec, SettingsHold
=============================================================================
