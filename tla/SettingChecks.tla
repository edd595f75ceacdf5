------------------------------ MODULE SettingChecks -------------------------------
(* Checks of what commands run with: a command line and a config file that grow by
   one switch, flag or key at a time.                                          *)
EXTENDS RuleSubject

CONSTANTS
  Commands, AnalysisProfiles,
  FileValues, FlagValues,   \* for every key the values tried
  Switches,                 \* switches tried
  MaxGiven

(* A config file and a command line have the keys they have; whether all namespaces
   are meant is yes or no.                                                      *)
ASSUME SettingAssumption ==
  /\ DOMAIN FileValues = {"namespace", "allNamespaces", "output", "templates", "filter", "minScore", "maxScore", "healthScore",
                          "events", "eventsEnabled", "keda", "vpa", "explainPods"}
  /\ DOMAIN FlagValues = {"namespace", "allNamespaces", "output", "schema", "filter", "minScore", "healthScore", "events",
                          "keda", "vpa", "export", "report"}
  /\ FileValues["allNamespaces"] \subseteq BOOLEAN /\ FlagValues["allNamespaces"] \subseteq BOOLEAN

Set == INSTANCE Settings

Blank(values) == [key \in DOMAIN values |-> Unset]

CommandGiven ==
  /\ Opens("settings")
  /\ \E command \in Commands, profile \in AnalysisProfiles :
       /\ profile # "" => command = "status"
       /\ subject' = [topic |-> "settings", given |-> 0,
                      s |-> [command |-> command, profile |-> profile, file |-> Blank(FileValues), flags |-> Blank(FlagValues), on |-> {}]]

Gives(s) == subject' = [subject EXCEPT !.s = s, !.given = @ + 1]
MayGive  == About("settings") /\ subject.given < MaxGiven

KeyInFile ==
  /\ MayGive
  /\ \E key \in DOMAIN FileValues : \E v \in FileValues[key] :
       subject.s.file[key] = Unset /\ Gives([subject.s EXCEPT !.file[key] = v])
FlagGiven ==
  /\ MayGive
  /\ \E key \in DOMAIN FlagValues : \E v \in FlagValues[key] :
       /\ subject.s.flags[key] = Unset /\ Set!Knows(subject.s.command, key)
       /\ Gives([subject.s EXCEPT !.flags[key] = v])
SwitchGiven ==
  /\ MayGive /\ subject.s.command \in Set!Reads
  /\ \E f \in Switches \ subject.s.on :
       /\ CASE f = "Problem" -> subject.s.command = "list" [] f \in {"Apply", "Diff", "Trend"} -> TRUE [] OTHER -> subject.s.command = "status"
       /\ Gives([subject.s EXCEPT !.on = @ \cup {f}])
SettingNext == CommandGiven \/ KeyInFile \/ FlagGiven \/ SwitchGiven
SettingSpec == Opens("settings") /\ [][SettingNext]_subject

------------------------------------------------------------------------------

Without(s, keys) == [s EXCEPT !.file = [key \in DOMAIN @ |-> IF key \in keys THEN Unset ELSE @[key]]]
Outcome(s) == [runs |-> Set!Runs(s), max |-> Set!ChosenMax(s), format |-> Set!Format(s),
               chosen |-> [key \in {"namespace", "allNamespaces", "filter", "minScore"} |-> Set!Chosen(s, key)]]
KeysUnder(flag) == CASE flag = "healthScore" -> {"healthScore", "maxScore"} [] flag = "events" -> {"events", "eventsEnabled"}
                     [] OTHER -> {flag}

\* A flag given decides alone: what the file says of the same thing changes nothing.
FlagsWin(s) == \A flag \in {f \in DOMAIN s.flags : s.flags[f] # Unset} : Outcome(Without(s, KeysUnder(flag))) = Outcome(s)

\* What a command runs with implies no further switch: neither the order of the
\* implications nor a preset put on top leaves one out. (history asks for the trend
\* without its anomalies.)
NothingLeftToImply(s) ==
  LET on == Set!Runs(s).on
      left == IF s.command = "history" THEN {"TrendAnomaly"} ELSE {}
  IN  Set!Normalize(on) \ left = on \ left

\* A switch only adds enrichments, unless it is there to take away.
SwitchesAdd(s) ==
  \A f \in s.on \ {"NoEnrich", "HPAOnly"} :
    LET lost == Set!Enrichments(Set!Runs([s EXCEPT !.on = @ \ {f}])) \ Set!Enrichments(Set!Runs(s))
    IN  lost \subseteq (IF f = "NoInterpret" THEN {"observations"} ELSE {})

\* Events are what was asked for where anything was, and churn is looked for in events by
\* every preset and by every profile that wants it.
EventsAsAsked(s) ==
  LET runs   == Set!Runs(s)
      asked  == Set!ChosenEvents(s)
      seen   == "churn analysis" \in Set!Enrichments(runs)
  IN  /\ s.command = "status" /\ asked.asked => runs.events = [enabled |-> asked.enabled, limit |-> asked.limit]
      /\ "ChurnDetect" \in Set!PresetFeatures(s.command) => seen
      /\ "ChurnDetect" \in Set!ProfileFeatures(s.profile) /\ ~asked.asked /\ s.on \cap {"NoEnrich", "HPAOnly"} = {} => seen

\* A valid file cannot make a command fail over keys that are for others, over switches,
\* or over the schema.
FileHarmsNobody(s) ==
  LET bare == Without(s, DOMAIN s.file)
      lists == {"filter", "minScore", "maxScore", "healthScore"}
  IN  /\ s.command \notin Set!Lists => Set!Refused(Without(s, lists)) = Set!Refused(s) /\ Set!Runs(Without(s, lists)) = Set!Runs(s)
      /\ Set!Refused(s) \cap {"schema", "mode"} \subseteq Set!Refused(bare)
      /\ "scores" \in Set!Refused(s) \ Set!Refused(bare) => \E key \in {"minScore", "healthScore"} : s.flags[key] # Unset
      /\ "namespaces" \in Set!Refused(s) => \E key \in {"namespace", "allNamespaces"} : s.flags[key] # Unset

SettingsAgree(it) ==
  it.topic = "settings" /\ "file" \notin Set!Refused(it.s) =>
    FlagsWin(it.s) /\ NothingLeftToImply(it.s) /\ SwitchesAdd(it.s) /\ EventsAsAsked(it.s) /\ FileHarmsNobody(it.s)

(* What commands run with: flags win over the file, implications are complete, switches
   add, events are those asked for, and a valid file breaks no command it is not about. *)
SettingsHold == [][SettingsAgree(subject')]_subject
=============================================================================
