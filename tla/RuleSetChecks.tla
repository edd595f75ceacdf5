----------------------------- MODULE RuleSetChecks -----------------------------
(* Checks of the rule sets: an HPA whose fixes are applied one after the other while
   its policy file grows, and a directory of manifests that grows by a document.  *)
EXTENDS RuleSubject, SequencesExt, FiniteSetsExt, TLC

CONSTANTS RuledHpas, PolicyRules, PolicyParts, MaxChanges, Manifests, MaxManifests

Sets == INSTANCE RuleSets WITH MaxInt32 <- 2147483647

EmptyFile == [version |-> "", rules |-> <<>>, sets |-> <<>>]
RulesAsked ==
  /\ Opens("rules")
  /\ \E h \in RuledHpas : subject' = [topic |-> "rules", h |-> h, file |-> EmptyFile, before |-> EmptyFile, fixes |-> 0]
ManifestsAsked ==
  /\ Opens("manifests")
  /\ subject' = [topic |-> "manifests", files |-> <<>>]

\* The findings of lint and audit that come with a fix.
Fixes(h) == SelectSeq(Sets!LintFindings(h) \o Sets!AuditedWindow(h), LAMBDA f : f.fix # Unset)

Changes == Len(Sets!RulesOf(subject.file)) + subject.fixes
RuleWritten ==
  /\ About("rules") /\ Changes < MaxChanges
  /\ \E r \in PolicyRules, part \in PolicyParts :
       subject' = [subject EXCEPT !.before = subject.file,
                     !.file = IF part = Unset THEN [@ EXCEPT !.rules = Append(@, r)]
                              ELSE [@ EXCEPT !.sets = Append(@, [selector |-> part, rules |-> <<r>>])]]
FixApplied ==
  /\ About("rules") /\ Changes < MaxChanges
  /\ \E i \in DOMAIN Fixes(subject.h) :
       subject' = [subject EXCEPT !.h = Sets!Patched(@, Fixes(@)[i].fix), !.fixes = @ + 1]
ManifestFound ==
  /\ About("manifests") /\ Len(subject.files) < MaxManifests
  /\ \E f \in Manifests : subject' = [subject EXCEPT !.files = Append(@, f)]
RuleSetNext == RulesAsked \/ ManifestsAsked \/ RuleWritten \/ FixApplied \/ ManifestFound

------------------------------------------------------------------------------

Of(findings, rule) == SelectSeq(findings, LAMBDA f : f.rule = rule)
Warned(findings, rule) == Len(SelectSeq(findings, LAMBDA f : f.rule = rule /\ f.severity = "warning"))
Default(id) == Sets!StarterRule(id, id, "", <<>>)

\* Lint, audit and the policy rules with their defaults read the same facts alike.
FactsShared(h) ==
  LET lint  == Sets!LintFindings(h)
      audit == Sets!BaseAudit(h)
  IN  /\ Warned(lint, "replica-range") = Warned(audit, "replica-range")
      /\ Warned(lint, "replica-range") > 0 => Sets!EvaluateRule(h, Default("replica-range")) # <<>>
      /\ Warned(lint, "target-utilization") = Warned(audit, "target-utilization")
      /\ Len(Sets!EvaluateRule(h, Default("target-utilization-range"))) = Len(Of(audit, "target-utilization"))
      /\ Len(Sets!EvaluateRule(h, Default("behavior-policy-required"))) = Len(Of(audit, "behavior-policy"))
      /\ Of(audit, "stabilization-window") # <<>> <=> Of(Sets!Advice(h), "scaledown-window-default") # <<>>
      /\ Of(lint, "behavior-scaledown") # <<>> => Of(audit, "stabilization-window") # <<>>
      /\ Of(lint, "behavior-scaledown-empty") # <<>> => Of(audit, "behavior-policy") # <<>>
      /\ Len(Of(lint, "metric-coverage")) = Len(Of(audit, "metric-coverage"))

Errors(h) ==
  LET lint == Sets!LintFindings(h) IN {lint[i].rule : i \in {j \in DOMAIN lint : lint[j].severity = "error"}}
HighTargets(h) == Len(SelectSeq(Sets!UtilizationTargets(h), LAMBDA i : h.metrics[i].target > 90))

\* A fix answers its own finding, raises no error, and does not depend on the
\* order: only two targets' fixes write the same list.
FixesHelp(h) ==
  LET fixes == Fixes(h)
      findings(n, rule) == Len(Of(Sets!LintFindings(n) \o Sets!AuditedWindow(n), rule))
  IN  \A i \in DOMAIN fixes :
        LET n == Sets!Patched(h, fixes[i].fix)
        IN  /\ findings(n, fixes[i].rule) < findings(h, fixes[i].rule)
            /\ Errors(n) \subseteq Errors(h)
            /\ \A profile \in {"", "latency", "cost", "batch", "keda", "critical"} :
                 Sets!AuditScore(Sets!Audit(n, profile)) >= Sets!AuditScore(Sets!Audit(h, profile))
            /\ HighTargets(h) <= 1 => \A j \in DOMAIN fixes :
                 Sets!Patched(n, fixes[j].fix) = Sets!Patched(Sets!Patched(h, fixes[j].fix), fixes[i].fix)

Suggestion(f) == [apply |-> TRUE, patch |-> f.fix]
\* A loaded file is never reported as misconfigured, a misconfigured one is always
\* critical; a longer file is at least as strict, whatever its rules.
PoliciesHold(h, file, before) ==
  LET found == Sets!Evaluated(h, file)
      rules == Sets!Applicable(h, file)
  IN  /\ Sets!FileValid(file) => \A v \in Range(found.violations) : v.what # "invalid configuration"
      /\ ~Sets!FileValid(file) => Sets!PolicyExit({h}, file) = "error"
      /\ (\E i \in DOMAIN rules : ~Sets!ParametersValid(Sets!Normalized(rules[i]))) => found.score <= 80
      /\ found.score <= Sets!Evaluated(h, before).score
      /\ \A k \in DOMAIN Fixes(h) :
           LET fix   == Fixes(h)[k]
               now   == Sets!Guarded(h, file, Suggestion(fix))
               was   == Sets!Guarded(h, before, Suggestion(fix))
               after == Sets!Evaluated(Sets!Patched(h, fix.fix), file)
           IN  /\ was.outcome = "blocked" => now.outcome = "blocked"
               /\ now.outcome = "blocked" => after.score <= 80 /\ now.rule \in {v.rule : v \in Range(after.violations)}
               /\ now.outcome = "allowed" => after.score = 100
               /\ rules = <<>> => now.outcome = "allowed"

Profiles == ("stable" :> "production-api") @@ ("fast-scale-up" :> "production-api") @@ ("cost-saving" :> "cost-sensitive")
\* What `tune` suggests satisfies the other advisors.
TuningAccepted(h) ==
  \A goal \in DOMAIN Profiles :
    LET n == Sets!Tuned(h, goal)
    IN  /\ Sets!AdviceSummary(n) = "reasonable" /\ Sets!TuneFindings(n) = {}
        /\ \A rule \in {"behavior-scaledown", "behavior-scaledown-empty", "tolerance", "stabilization-window", "behavior-policy"} :
             Of(Sets!LintFindings(n) \o Sets!BaseAudit(n), rule) = <<>>
        /\ \A r \in Range(Sets!StarterProfile(Profiles[goal])) :
             r.id \in {"stabilization-window", "behavior-policy-required"} => Sets!EvaluateRule(n, r) = <<>>
        /\ Sets!FileValid(Sets!FileOf(Sets!StarterProfile(Profiles[goal])))

DefinedOnce(files) ==
  LET docs == Sets!Joined([i \in DOMAIN files |-> files[i].docs])
  IN  \A i, j \in DOMAIN docs :
        docs[i].kind = "workload" /\ docs[j].kind = "workload" /\ docs[i].target = docs[j].target =>
          docs[i].replicas = docs[j].replicas
\* The three verdicts on a directory agree, whatever the order of its files.
ManifestsAgree(files) ==
  LET results == Sets!LintResults(files)
      fails(level) == Sets!LintExit(level, files) = "error"
  IN  /\ fails("error") = ~Sets!ReportPass(results) /\ fails("error") = ~Sets!CombinedPass(results)
      /\ (fails("error") => fails("warning")) /\ (fails("warning") => fails("info"))
      /\ \A r \in Range(results) : r.errors + r.warnings + r.infos = Len(r.findings)
      /\ DefinedOnce(files) => \A level \in {"error", "warning", "info"} :
           Sets!LintExit(level, Reverse(files)) = Sets!LintExit(level, files)

RulesAgree(it) ==
  it.topic = "rules" =>
    /\ FactsShared(it.h) /\ FixesHelp(it.h) /\ TuningAccepted(it.h)
    /\ PoliciesHold(it.h, it.file, it.before)
FilesAgree(it) == it.topic = "manifests" => ManifestsAgree(it.files)

(* Reading one HPA with lint, audit, the advisor and a policy file gives answers
   that agree; fixes fix, in any order; growing policy files only get stricter. *)
RuleSetsAgree == [][RulesAgree(subject') /\ FilesAgree(subject')]_subject
=============================================================================
