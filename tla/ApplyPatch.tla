----------------------------- MODULE ApplyPatch -----------------------------
(* The only part of kubectl-hpa-status that writes to the cluster: reviewing,
   validating, confirming and applying suggested HPA patches.

   A session is one run of `status --apply` (or a TUI apply, which is the same
   call with yes set), one run of `list --apply` over several HPAs, or a direct
   call of executePatches.  Sessions interleave call by call with each other
   and with everybody else who writes HPAs.  Each API call is one action.
   Sources: cmd/apply.go, cmd/list_apply.go, cmd/tui.go. *)
EXTENDS MergePatch, FiniteSets

CONSTANTS Sessions, Hpas,
          ValidSpecs,      \* specs the API server admits
          CriticalSpecs,   \* specs with a critical violation of the policy file
          PatchLists,      \* suggestion lists an analysis may produce
          Options,         \* flag combinations a session may run with
          MaxRevision,     \* bound on resourceVersions
          Faults,          \* may API calls fail or lose their response?
          None

Kinds      == {"status", "list", "exec"}
GuardModes == {"off", "block", "warn"}
AllOptions == [kind : Kinds, dryRun : BOOLEAN, yes : BOOLEAN,
               allowPartial : BOOLEAN, guard : GuardModes]
Objects    == [uid : Nat, rv : Nat, spec : ValidSpecs]

ASSUME ApplyAssumption ==
  /\ ValidSpecs \subseteq Specs
  /\ PatchLists \subseteq Seq(Patches)
  /\ Options \subseteq AllOptions
  /\ \A o \in Options : o.kind = "exec" => ~o.dryRun  \* executePatches has no dry-run flag
  /\ MaxRevision \in Nat
  /\ Faults \in BOOLEAN
  /\ None \notin Objects
  /\ None \notin Hpas

VARIABLES
  hpa,        \* the cluster: each HPA's object, or None
  revision,   \* the API server's last resourceVersion (uids are drawn from it)
  opts,       \* flags of each session
  pc,         \* where each session is
  todo,       \* HPAs of the session's batch not processed yet
  cur,        \* the HPA being processed
  analysed,   \* the object the suggestions were computed from (their stamp)
  plan,       \* the suggestions of each HPA with Apply set and a patch
  kept,       \* positions of plan the policy guard let through
  pending,    \* positions still to be dry-run or applied one by one
  reviewed,   \* resourceVersion the next conditional write must find
  result,     \* outcome reported for each HPA
  claimed,    \* number of suggestions reported as applied
  consent,    \* has this session passed its confirmation?
  writes      \* what the session persisted on each HPA, oldest first

cluster == <<hpa, revision>>
inputs  == <<opts, analysed, plan>>
control == <<pc, todo, cur, kept, pending, reviewed, consent>>
reports == <<result, claimed>>
vars    == <<cluster, inputs, control, reports, writes>>

PCs == {"idle", "batchPrompt", "next", "validate", "validateMerged", "prompt",
        "execute", "dryRunMerged", "patchMerged", "sequential", "done"}

\* "stale" is every error that says "no changes were applied", "rejected" an
\* error of a call made before any live patch, "unknown" the error of the live
\* merged patch, "partial" an error of the sequential fallback.
Failures == {"stale", "blocked", "rejected", "skipped", "unmergeable", "unknown", "partial"}
Results  == {"none", "noneApplicable", "noneAllowed", "validated", "applied"} \cup Failures

TypeOK ==
  /\ hpa \in [Hpas -> Objects \cup {None}]
  /\ revision \in Nat
  /\ opts \in [Sessions -> Options]
  /\ pc \in [Sessions -> PCs]
  /\ todo \in [Sessions -> SUBSET Hpas]
  /\ cur \in [Sessions -> Hpas \cup {None}]
  /\ analysed \in [Sessions -> [Hpas -> Objects \cup {None}]]
  /\ plan \in [Sessions -> [Hpas -> PatchLists \cup {<<>>}]]
  /\ kept \in [Sessions -> SUBSET Nat]
  /\ \A s \in Sessions : IsFiniteSet(kept[s])
  /\ pending \in [Sessions -> SUBSET Nat]
  /\ reviewed \in [Sessions -> Nat]
  /\ result \in [Sessions -> [Hpas -> Results]]
  /\ claimed \in [Sessions -> [Hpas -> Nat]]
  /\ consent \in [Sessions -> BOOLEAN]
  /\ writes \in [Sessions -> [Hpas -> Seq([base : Objects, to : Objects])]]

Init ==
  /\ hpa \in [Hpas -> {[uid |-> 0, rv |-> 0, spec |-> sp] : sp \in ValidSpecs}]
  /\ revision = 0
  /\ opts \in [Sessions -> Options]
  /\ pc = [s \in Sessions |-> "idle"]
  /\ todo = [s \in Sessions |-> {}]
  /\ cur = [s \in Sessions |-> None]
  /\ analysed = [s \in Sessions |-> [h \in Hpas |-> None]]
  /\ plan = [s \in Sessions |-> [h \in Hpas |-> <<>>]]
  /\ kept = [s \in Sessions |-> {}]
  /\ pending = [s \in Sessions |-> {}]
  /\ reviewed = [s \in Sessions |-> 0]
  /\ result = [s \in Sessions |-> [h \in Hpas |-> "none"]]
  /\ claimed = [s \in Sessions |-> [h \in Hpas |-> 0]]
  /\ consent = [s \in Sessions |-> FALSE]
  /\ writes = [s \in Sessions |-> [h \in Hpas |-> <<>>]]

-----------------------------------------------------------------------------
(* Helpers *)

\* Suggestions of the HPA being processed.
Plan(s) == plan[s][cur[s]]

\* The position the loop over the remaining suggestions reaches next.
NextIndex(s) == CHOOSE i \in pending[s] : \A j \in pending[s] : i <= j

\* Mutant: critical violations are not looked at.
GuardFixLenient(spec, ps) == {i \in DOMAIN ps : ps[i] # BadPatch}

\* GuardFix: positions whose patch decodes and leaves no critical violation.
GuardFix(spec, ps) ==
  {i \in DOMAIN ps : ps[i] # BadPatch /\ Patched(spec, ps[i]) \notin CriticalSpecs}

\* guardPatchesWithPolicy: without a policy file every suggestion passes.
Allowed(s, spec, ps) ==
  IF opts[s].guard = "off" THEN DOMAIN ps ELSE GuardFix(spec, ps)

\* Mutant: the combination of the suggestions is not guarded.
PolicyRefusesEachOnly(s, spec, ps) ==
  opts[s].guard = "block" /\ Allowed(s, spec, ps) # DOMAIN ps

\* In block mode one blocked suggestion, or a critical combined state, refuses
\* the whole call; in warn mode the blocked suggestions are dropped only.
PolicyRefuses(s, spec, ps) ==
  LET K == Allowed(s, spec, ps) IN
  /\ opts[s].guard = "block"
  /\ \/ K # DOMAIN ps
     \/ K # {} /\ Mergeable(ps, K) /\ Patched(spec, MergePatches(ps, K)) \in CriticalSpecs

\* verifySuggestionSource: the object the suggestions came from is still there.
SourceMatches(s, h) ==
  /\ hpa[h].uid = analysed[s][h].uid
  /\ hpa[h].rv = analysed[s][h].rv

\* The server accepts patch p on HPA h (what a dry-run asks).
Admits(h, p) ==
  hpa[h] # None /\ p # BadPatch /\ Patched(hpa[h].spec, p) \in ValidSpecs

\* Mutant: the patch is sent without its precondition.
AdmitsAnyVersion(h, p, rv) == Admits(h, p)

\* The same with a resourceVersion precondition in the patch
\* (mergePatchWithResourceVersion).
AdmitsAt(h, p, rv) == Admits(h, p) /\ hpa[h].rv = rv

\* The object the server stores; a patch without effect keeps its version.
Stored(h, p) ==
  LET spec == Patched(hpa[h].spec, p) IN
  IF spec = hpa[h].spec THEN hpa[h]
  ELSE [hpa[h] EXCEPT !.spec = spec, !.rv = revision + 1]

\* The HPA's part of the call returns: record r and go on with the batch.
Conclude(s, r) ==
  /\ result' = [result EXCEPT ![s][cur[s]] = r]
  /\ pc' = [pc EXCEPT ![s] = "next"]

Goto(s, where) == pc' = [pc EXCEPT ![s] = where]

\* Mutant: no prompt.
AfterValidationUnasked(s) == IF opts[s].dryRun THEN "validated" ELSE "execute"

\* Where a session goes once all its suggestions passed the dry-run.
AfterValidation(s) ==
  IF opts[s].dryRun THEN "validated"
  ELSE IF ~opts[s].yes /\ opts[s].kind = "status" THEN "prompt" ELSE "execute"

\* Mutant: a dry-run falls through instead of returning.
LeaveValidationFallsThrough(s) == Goto(s, AfterValidation(s)) /\ UNCHANGED result

LeaveValidation(s) ==
  \/ AfterValidation(s) = "validated" /\ Conclude(s, "validated")
  \/ AfterValidation(s) # "validated" /\ Goto(s, AfterValidation(s)) /\ UNCHANGED result

-----------------------------------------------------------------------------
(* The session *)

\* status: fetch one HPA, analyse it and stamp the suggestions with its UID
\* and resourceVersion; suggestions without an applicable patch are left out.
AnalyzeOne(s) ==
  /\ pc[s] = "idle" /\ opts[s].kind # "list"
  /\ \E h \in Hpas :
       \/ /\ Faults \/ hpa[h] = None
          /\ result' = [result EXCEPT ![s][h] = "rejected"]
          /\ UNCHANGED <<analysed, plan, todo>>
       \/ \E ps \in PatchLists :
            /\ hpa[h] # None
            /\ analysed' = [analysed EXCEPT ![s][h] = hpa[h]]
            /\ plan' = [plan EXCEPT ![s][h] = ps]
            /\ \/ /\ ps = <<>>
                  /\ result' = [result EXCEPT ![s][h] = "noneApplicable"]
                  /\ UNCHANGED todo
               \/ /\ ps # <<>>
                  /\ todo' = [todo EXCEPT ![s] = {h}]
                  /\ UNCHANGED result
  /\ consent' = [consent EXCEPT ![s] = opts[s].yes \/ opts[s].kind = "exec"]
  /\ Goto(s, "next")
  /\ UNCHANGED <<cluster, opts, cur, kept, pending, reviewed, claimed, writes>>

\* list: analyse every HPA of one listing; those without an applicable patch
\* make no batch entry.  Without --yes the whole batch is confirmed first.
AnalyzeList(s) ==
  /\ pc[s] = "idle" /\ opts[s].kind = "list"
  /\ \E ps \in [Hpas -> PatchLists] :
       LET listed == {h \in Hpas : hpa[h] # None /\ ps[h] # <<>>} IN
       /\ analysed' = [analysed EXCEPT ![s] = [h \in Hpas |-> IF h \in listed THEN hpa[h] ELSE None]]
       /\ plan' = [plan EXCEPT ![s] = [h \in Hpas |-> IF h \in listed THEN ps[h] ELSE <<>>]]
       /\ todo' = [todo EXCEPT ![s] = listed]
       /\ Goto(s, IF listed = {} \/ opts[s].yes THEN "next" ELSE "batchPrompt")
  /\ consent' = [consent EXCEPT ![s] = opts[s].yes]
  /\ UNCHANGED <<cluster, opts, cur, kept, pending, reviewed, reports, writes>>

\* confirmBatchApply: any answer but yes, or no terminal, ends the run.
AnswerBatch(s) ==
  /\ pc[s] = "batchPrompt"
  /\ \/ /\ Goto(s, "next")
        /\ consent' = [consent EXCEPT ![s] = TRUE]
        /\ UNCHANGED todo
     \/ /\ Goto(s, "done")
        /\ todo' = [todo EXCEPT ![s] = {}]
        /\ UNCHANGED consent
  /\ UNCHANGED <<cluster, inputs, cur, kept, pending, reviewed, reports, writes>>

\* applyTarget and guardAndMergePatches: read the HPA again, refuse a changed
\* one, run the policy guard on each suggestion and on their combination.
Review(s, h) ==
  LET ps == plan[s][h]
      K  == Allowed(s, hpa[h].spec, ps)
      Ends(r) == result' = [result EXCEPT ![s][h] = r] /\ Goto(s, "next")
                 /\ UNCHANGED <<kept, pending, reviewed>>
  IN
  /\ pc[s] = "next" /\ h \in todo[s]
  /\ todo' = [todo EXCEPT ![s] = @ \ {h}]
  /\ cur' = [cur EXCEPT ![s] = h]
  /\ \/ (Faults \/ hpa[h] = None) /\ Ends("rejected")
     \/ hpa[h] # None /\ ~SourceMatches(s, h) /\ Ends("stale")
     \/ /\ hpa[h] # None /\ SourceMatches(s, h)
        /\ \/ PolicyRefuses(s, hpa[h].spec, ps) /\ Ends("blocked")
           \/ ~PolicyRefuses(s, hpa[h].spec, ps) /\ K = {} /\ Ends("noneAllowed")
           \/ /\ ~PolicyRefuses(s, hpa[h].spec, ps) /\ K # {}
              /\ kept' = [kept EXCEPT ![s] = K]
              /\ pending' = [pending EXCEPT ![s] = K]
              /\ reviewed' = [reviewed EXCEPT ![s] = hpa[h].rv]
              /\ Goto(s, IF opts[s].kind = "exec" THEN "execute" ELSE "validate")
              /\ UNCHANGED result
  /\ UNCHANGED <<cluster, inputs, claimed, consent, writes>>

\* preValidatePatches, one suggestion: a dry-run without a version precondition.
ValidateOne(s) ==
  LET i == NextIndex(s)
      p == Plan(s)[i]
  IN
  /\ pc[s] = "validate"
  /\ \/ /\ Faults \/ ~Admits(cur[s], p)
        /\ Conclude(s, "rejected")
        /\ UNCHANGED pending
     \/ /\ Admits(cur[s], p)
        /\ pending' = [pending EXCEPT ![s] = @ \ {i}]
        /\ \/ pending[s] # {i} /\ UNCHANGED <<pc, result>>
           \/ /\ pending[s] = {i} /\ kept[s] # {i}
              /\ Mergeable(Plan(s), kept[s])
              /\ Goto(s, "validateMerged") /\ UNCHANGED result
           \/ /\ pending[s] = {i}
              /\ kept[s] = {i} \/ ~Mergeable(Plan(s), kept[s])
              /\ LeaveValidation(s)
  /\ UNCHANGED <<cluster, inputs, todo, cur, kept, reviewed, consent, claimed, writes>>

\* preValidatePatches, the combined patch of several suggestions.
ValidateMerged(s) ==
  LET p == MergePatches(Plan(s), kept[s]) IN
  /\ pc[s] = "validateMerged"
  /\ \/ (Faults \/ ~Admits(cur[s], p)) /\ Conclude(s, "rejected")
     \/ Admits(cur[s], p) /\ LeaveValidation(s)
  /\ UNCHANGED <<cluster, inputs, todo, cur, kept, pending, reviewed, consent, claimed, writes>>

\* confirmApply: yes continues, anything else (or no terminal) skips.
Answer(s) ==
  /\ pc[s] = "prompt"
  /\ \/ /\ Goto(s, "execute")
        /\ consent' = [consent EXCEPT ![s] = TRUE]
        /\ UNCHANGED result
     \/ Conclude(s, "skipped") /\ UNCHANGED consent
  /\ UNCHANGED <<cluster, inputs, todo, cur, kept, pending, reviewed, claimed, writes>>

\* Mutant: patches that cannot be merged are applied one by one unasked.
RecheckAlwaysPartial(s) ==
  LET h == cur[s] IN
  /\ pc[s] = "execute" /\ hpa[h] # None /\ hpa[h].rv = reviewed[s]
  /\ Goto(s, IF Mergeable(Plan(s), kept[s]) THEN "dryRunMerged" ELSE "sequential")
  /\ pending' = [pending EXCEPT ![s] = kept[s]]
  /\ UNCHANGED <<cluster, inputs, todo, cur, kept, reviewed, result, consent, claimed, writes>>

\* Mutant: a changed HPA is tried again instead of reported.
RecheckRetries(s) ==
  LET h == cur[s] IN
  /\ pc[s] = "execute"
  /\ \/ hpa[h] = None /\ Conclude(s, "rejected")
     \/ hpa[h] # None /\ hpa[h].rv # reviewed[s] /\ UNCHANGED <<pc, result>>
     \/ /\ hpa[h] # None /\ hpa[h].rv = reviewed[s] /\ UNCHANGED result
        /\ Goto(s, IF Mergeable(Plan(s), kept[s]) THEN "dryRunMerged" ELSE "sequential")
  /\ pending' = [pending EXCEPT ![s] = kept[s]]
  /\ UNCHANGED <<cluster, inputs, todo, cur, kept, reviewed, consent, claimed, writes>>

\* executePatches, first part: read the HPA a third time, compare versions and
\* choose between one merged patch and the opt-in sequential fallback.
Recheck(s) ==
  LET h == cur[s] IN
  /\ pc[s] = "execute"
  /\ \/ (Faults \/ hpa[h] = None) /\ Conclude(s, "rejected")
     \/ hpa[h] # None /\ hpa[h].rv # reviewed[s] /\ Conclude(s, "stale")
     \/ /\ hpa[h] # None /\ hpa[h].rv = reviewed[s]
        /\ \/ /\ Mergeable(Plan(s), kept[s])
              /\ MergePatches(Plan(s), kept[s]) = BadPatch
              /\ Conclude(s, "rejected")
           \/ /\ Mergeable(Plan(s), kept[s])
              /\ MergePatches(Plan(s), kept[s]) # BadPatch
              /\ Goto(s, "dryRunMerged") /\ UNCHANGED result
           \/ /\ ~Mergeable(Plan(s), kept[s])
              /\ ~opts[s].allowPartial
              /\ Conclude(s, "unmergeable")
           \/ /\ ~Mergeable(Plan(s), kept[s])
              /\ opts[s].allowPartial
              /\ Goto(s, "sequential") /\ UNCHANGED result
  /\ pending' = [pending EXCEPT ![s] = kept[s]]
  /\ UNCHANGED <<cluster, inputs, todo, cur, kept, reviewed, consent, claimed, writes>>

\* executePatches: dry-run of the merged patch with its version precondition.
DryRunMerged(s) ==
  LET p == MergePatches(Plan(s), kept[s]) IN
  /\ pc[s] = "dryRunMerged"
  /\ \/ (Faults \/ ~AdmitsAt(cur[s], p, reviewed[s])) /\ Conclude(s, "rejected")
     \/ AdmitsAt(cur[s], p, reviewed[s]) /\ Goto(s, "patchMerged") /\ UNCHANGED result
  /\ UNCHANGED <<cluster, inputs, todo, cur, kept, pending, reviewed, consent, claimed, writes>>

\* The API server stores patch p for session s.
Persist(s, p) ==
  LET h == cur[s] IN
  /\ hpa' = [hpa EXCEPT ![h] = Stored(h, p)]
  /\ revision' = IF Stored(h, p) = hpa[h] THEN revision ELSE revision + 1
  /\ writes' = [writes EXCEPT ![s][h] = Append(@, [base |-> hpa[h], to |-> Stored(h, p)])]

\* Mutant: a failed live patch is reported like a failed validation.
PatchMergedDenies(s) ==
  LET p == MergePatches(Plan(s), kept[s]) IN
  /\ pc[s] = "patchMerged"
  /\ \/ UNCHANGED <<cluster, writes>>
     \/ AdmitsAt(cur[s], p, reviewed[s]) /\ Persist(s, p)
  /\ Conclude(s, "rejected")
  /\ UNCHANGED <<inputs, todo, cur, kept, pending, reviewed, consent, claimed>>

\* executePatches: the single live patch.  Its error does not tell whether the
\* server stored it: the response may be lost.
PatchMerged(s) ==
  LET h == cur[s]
      p == MergePatches(Plan(s), kept[s])
  IN
  /\ pc[s] = "patchMerged"
  /\ \/ /\ Faults \/ ~AdmitsAt(h, p, reviewed[s])
        /\ Conclude(s, "unknown")
        /\ UNCHANGED <<cluster, writes, claimed>>
     \/ /\ AdmitsAt(h, p, reviewed[s])
        /\ Persist(s, p)
        /\ \/ Faults /\ Conclude(s, "unknown") /\ UNCHANGED claimed
           \/ /\ Conclude(s, "applied")
              /\ claimed' = [claimed EXCEPT ![s][h] = Cardinality(kept[s])]
  /\ UNCHANGED <<inputs, todo, cur, kept, pending, reviewed, consent>>

\* executePatches, sequential fallback, one suggestion: its precondition is the
\* version the previous patch returned, and the first error stops the loop.
PatchNext(s) ==
  LET h == cur[s]
      i == NextIndex(s)
      p == Plan(s)[i]
  IN
  /\ pc[s] = "sequential"
  /\ \/ /\ Faults \/ ~AdmitsAt(h, p, reviewed[s])
        /\ Conclude(s, "partial")
        /\ UNCHANGED <<cluster, writes, claimed, pending, reviewed>>
     \/ /\ AdmitsAt(h, p, reviewed[s])
        /\ Persist(s, p)
        /\ \/ /\ Faults /\ Conclude(s, "partial")
              /\ UNCHANGED <<claimed, pending, reviewed>>
           \/ /\ claimed' = [claimed EXCEPT ![s][h] = @ + 1]
              /\ reviewed' = [reviewed EXCEPT ![s] = Stored(h, p).rv]
              /\ pending' = [pending EXCEPT ![s] = @ \ {i}]
              /\ \/ pending[s] = {i} /\ Conclude(s, "applied")
                 \/ pending[s] # {i} /\ UNCHANGED <<pc, result>>
  /\ UNCHANGED <<inputs, todo, cur, kept, consent>>

\* Mutant: the batch stops at the first failure.
FinishEarly(s) ==
  /\ pc[s] = "next"
  /\ todo[s] = {} \/ \E h \in Hpas : result[s][h] \in Failures
  /\ Goto(s, "done")
  /\ UNCHANGED <<cluster, inputs, todo, cur, kept, pending, reviewed, consent, reports, writes>>

\* executeBatchPatches: every entry has been tried, whatever the others did.
Finish(s) ==
  /\ pc[s] = "next" /\ todo[s] = {}
  /\ Goto(s, "done")
  /\ UNCHANGED <<cluster, inputs, todo, cur, kept, pending, reviewed, consent, reports, writes>>

-----------------------------------------------------------------------------
(* Everybody else who writes HPAs: editors, GitOps controllers, the HPA
   controller's status updates, deletion and re-creation under the same name. *)

Others == UNCHANGED <<inputs, control, reports, writes>>

Edit(h, spec) ==
  /\ hpa[h] # None /\ revision < MaxRevision /\ spec # hpa[h].spec
  /\ hpa' = [hpa EXCEPT ![h] = [uid |-> hpa[h].uid, rv |-> revision + 1, spec |-> spec]]
  /\ revision' = revision + 1 /\ Others

StatusUpdate(h) ==
  /\ hpa[h] # None /\ revision < MaxRevision
  /\ hpa' = [hpa EXCEPT ![h] = [uid |-> hpa[h].uid, rv |-> revision + 1, spec |-> hpa[h].spec]]
  /\ revision' = revision + 1 /\ Others

Delete(h) ==
  /\ hpa[h] # None /\ revision < MaxRevision
  /\ hpa' = [hpa EXCEPT ![h] = None]
  /\ revision' = revision + 1 /\ Others

Create(h, spec) ==
  /\ hpa[h] = None /\ revision < MaxRevision
  /\ hpa' = [hpa EXCEPT ![h] = [uid |-> revision + 1, rv |-> revision + 1, spec |-> spec]]
  /\ revision' = revision + 1 /\ Others

-----------------------------------------------------------------------------
\* Steps the code takes by itself; prompts wait for a person.
Proceed(s) ==
  \/ AnalyzeOne(s) \/ AnalyzeList(s)
  \/ \E h \in Hpas : Review(s, h)
  \/ ValidateOne(s) \/ ValidateMerged(s)
  \/ Recheck(s) \/ DryRunMerged(s) \/ PatchMerged(s) \/ PatchNext(s)
  \/ Finish(s)

Environment ==
  \E h \in Hpas :
    \/ \E spec \in ValidSpecs : Edit(h, spec) \/ Create(h, spec)
    \/ StatusUpdate(h) \/ Delete(h)

Next ==
  \/ \E s \in Sessions : Proceed(s) \/ Answer(s) \/ AnswerBatch(s)
  \/ Environment

Spec == Init /\ [][Next]_vars

FairSpec == Spec /\ \A s \in Sessions : WF_vars(Proceed(s))

-----------------------------------------------------------------------------
(* Properties *)

\* What the session set out to make of HPA h: the analysed spec with all the
\* suggestions the policy guard lets through, taken together.
Intended(s, h) ==
  Patched(analysed[s][h].spec,
          MergePatches(plan[s][h], Allowed(s, analysed[s][h].spec, plan[s][h])))

\* No lost update: whatever others write between the analysis, the review, the
\* prompt and the live patch, a session's first write replaces exactly the
\* object its suggestions were computed from, and each later write of the
\* sequential fallback replaces exactly the object the previous one stored
\* (verifySuggestionSource, the version comparison and the precondition of
\* executePatches).
WritesOnlyWhatWasAnalysed ==
  \A s \in Sessions, h \in Hpas :
    LET w == writes[s][h] IN
    w # <<>> => /\ w[1].base = analysed[s][h]
                /\ \A i \in 1 .. Len(w) - 1 : w[i + 1].base = w[i].to

\* All or nothing: unless --allow-partial met patches that cannot be merged, a
\* session writes an HPA once, and what it stores is the whole intended state
\* (the single merged patch of executePatches).
AllOrNothing ==
  \A s \in Sessions, h \in Hpas :
    LET w == writes[s][h]
        K == Allowed(s, analysed[s][h].spec, plan[s][h])
    IN  w # <<>> /\ (~opts[s].allowPartial \/ Mergeable(plan[s][h], K))
          => Mergeable(plan[s][h], K) /\ Len(w) = 1 /\ w[1].to.spec = Intended(s, h)

\* With --policy-guard in block mode nothing a session persists has a critical
\* violation, neither suggestion by suggestion nor combined, although the
\* guard judged an object read earlier (guardAndMergePatches).
PolicyHoldsForPersisted ==
  \A s \in Sessions, h \in Hpas :
    opts[s].guard = "block" =>
      \A i \in DOMAIN writes[s][h] : writes[s][h][i].to.spec \notin CriticalSpecs

\* The report never hides or invents a write: every outcome that says nothing
\* was applied left the HPA alone, "applied" means everything claimed is
\* stored, and a stopped sequential apply under-reports by the one patch whose
\* response was lost at most.
ReportMatchesWrites ==
  \A s \in Sessions, h \in Hpas :
    LET n == Len(writes[s][h])
        K == Allowed(s, analysed[s][h].spec, plan[s][h])
    IN
    CASE result[s][h] = "none" -> cur[s] # h => n = 0
      [] result[s][h] = "applied" ->
           /\ claimed[s][h] = Cardinality(K)
           /\ n = IF Mergeable(plan[s][h], K) THEN 1 ELSE claimed[s][h]
      [] result[s][h] = "unknown" -> n <= 1 /\ claimed[s][h] = 0
      [] result[s][h] = "partial" -> claimed[s][h] <= n /\ n <= claimed[s][h] + 1
      [] OTHER -> n = 0 /\ claimed[s][h] = 0

\* Nothing is persisted before somebody agreed to it (--yes, the prompt, or the
\* batch prompt that stands for every entry), and never by a dry-run.
ConsentBeforeWrite ==
  \A s \in Sessions, h \in Hpas :
    writes[s][h] # <<>> => consent[s] /\ ~opts[s].dryRun

\* Of all sessions that analysed the same version of an HPA at most one changes
\* it: the others find a newer version, and are told, before they write.
Changes(s, h) == writes[s][h] # <<>> /\ writes[s][h][1].base # writes[s][h][1].to

OneWinnerPerVersion ==
  \A s, t \in Sessions, h \in Hpas :
    s # t /\ Changes(s, h) /\ Changes(t, h) => analysed[s][h] # analysed[t][h]

\* A batch that was agreed to reports on every entry, whatever happened to the
\* others; one that was refused touches none (executeBatchPatches).
BatchTriesEveryEntry ==
  \A s \in Sessions : opts[s].kind = "list" /\ pc[s] = "done" =>
    \A h \in Hpas : (result[s][h] # "none") <=> (consent[s] /\ plan[s][h] # <<>>)

\* Left alone by its prompts, a session always finishes: no conflict, failure
\* or concurrent writer makes it wait or retry forever.
Waiting(s) == pc[s] \in {"prompt", "batchPrompt"}
SessionsFinish == \A s \in Sessions : ~Waiting(s) ~> (pc[s] = "done" \/ Waiting(s))

-----------------------------------------------------------------------------
(* What the module promises: a conditional update.  AtomicApply knows nothing
   of reviews, dry-runs or prompts. *)
Atomic == INSTANCE AtomicApply WITH
  suggestions <- plan,
  seen        <- analysed,
  guarded     <- [s \in Sessions |-> opts[s].guard # "off"],
  committed   <- [s \in Sessions |-> {h \in Hpas : writes[s][h] # <<>>}]

\* Without --allow-partial every session is an atomic conditional update of
\* each HPA: it stores the guarded combination of its suggestions on the very
\* object they were computed from, once, or does nothing.
ImplementsAtomicApply == Atomic!Spec

=============================================================================
