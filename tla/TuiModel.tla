------------------------------ MODULE TuiModel ------------------------------
(* The dashboard: one event loop that handles key presses and the results of
   the commands it has running in the background.  A result may arrive at any
   time, in any order, in any view.

   Left out: text entry (it only withholds keys), scrolling, the refresh timer
   and pausing (a refresh may start whenever none runs), status and error
   texts, sparklines.  Order and visibility of the rows depend on data that is
   left out, so a sort, a filter or a refresh may leave any order.
   Sources: internal/tui/update*.go, view_controller.go, model.go, submodels.go. *)
EXTENDS Integers, Sequences, FiniteSets, Bags

INSTANCE BagsExt

CONSTANTS Names,        \* the HPAs that may exist, finitely many
          Suggestions,
          Applicable,   \* those approved for apply and with a patch
          Lists,        \* lists of suggestions an HPA may have
          Keys,         \* the keys the user presses
          Modes,        \* may it be started with live apply, without it?
          InitialName,  \* the HPA it was started for, or None
          MaxRequests, MaxBirths, MaxEpoch, MaxInFlight,   \* bounds
          None

ASSUME TuiAssumption ==
  /\ IsFiniteSet(Names) /\ InitialName \in Names \cup {None} /\ None \notin Names
  /\ Modes \subseteq BOOLEAN
  /\ Lists \subseteq Seq(Suggestions) /\ Applicable \subseteq Suggestions
  /\ {MaxRequests, MaxBirths, MaxEpoch, MaxInFlight} \subseteq Nat

VARIABLES
  live,      \* was the dashboard started with live apply?
  data,      \* last fetched: each HPA's UID and suggestions, or None
  born,      \* incarnations of each name seen so far
  shown,     \* the rows of the list
  cursor,    \* the current row
  focused,   \* has the initial HPA been looked for?
  view,      \* viewMode
  under,     \* helpReturnView
  loading,   \* is a refresh running?
  request,   \* fetchRequestID
  epoch,     \* fixEpoch
  selected,  \* the UID each selected HPA had when it was selected, or 0
  preview,   \* patches a second batch-apply key would send; none unless armed
  fix, sim, replay, audit, history,   \* the views' own states, or None
  inflight   \* bag of results to come

fetched == <<data, born, shown, cursor, focused>>
panes   == <<fix, sim, replay, audit, history>>
vars    == <<live, fetched, view, under, loading, request, epoch, selected, preview, panes, inflight>>

Views == {"list", "detail", "help", "metrics", "sim", "fix", "replay", "audit", "history", "overview", "hints"}

\* What a command is about: an HPA as it was observed, the suggestions shown
\* for it and the one meant.
Targets == [name : Names \cup {None}, uid : Nat, fixes : Lists \cup {<<>>}, fix : Suggestions \cup {None}]
Results == [kind : {"fetch", "apply", "dryrun", "batch", "sim", "replay", "audit", "history"}, id : Nat, about : SUBSET Targets]

Result(kind, id, about) == [kind |-> kind, id |-> id, about |-> about]

TypeOK ==
  /\ \A n \in Names : data[n] = None \/ data[n] \in [uid : 1 .. MaxBirths, fixes : Lists]
  /\ born \in [Names -> 0 .. MaxBirths]
  /\ \A i \in DOMAIN shown : data[shown[i]] # None /\ \A j \in 1 .. i - 1 : shown[j] # shown[i]
  /\ cursor \in 1 .. (IF shown = <<>> THEN 1 ELSE Len(shown))
  /\ {live, focused, loading} \subseteq BOOLEAN
  /\ {view, under} \subseteq Views /\ under # "help"
  /\ request \in Nat /\ epoch \in Nat
  /\ selected \in [Names -> 0 .. MaxBirths]
  /\ preview \subseteq Targets
  /\ fix # None => /\ fix.at \in DOMAIN fix.fixes
                   /\ fix.validating \in BOOLEAN
                   /\ fix.armed \cup fix.applied \cup fix.validated \subseteq Targets
  /\ sim # None => {sim.of} \cup sim.result \subseteq Targets
  /\ replay # None => replay.loading \in BOOLEAN
  /\ audit # None => audit.loading \in BOOLEAN /\ audit.of \cup audit.reports \subseteq Targets
  /\ history # None => history.of \in Names \cup {None} /\ history.loading \in BOOLEAN
  /\ IsABag(inflight) /\ BagToSet(inflight) \subseteq Results

Init ==
  /\ live \in Modes
  /\ data = [n \in Names |-> None]
  /\ born = [n \in Names |-> 0]
  /\ shown = <<>> /\ cursor = 1 /\ focused = FALSE
  /\ view = "list" /\ under = "list"
  /\ loading = TRUE /\ request = 1 /\ epoch = 0
  /\ selected = [n \in Names |-> 0]
  /\ preview = {}
  /\ fix = None /\ sim = None /\ replay = None /\ audit = None /\ history = None
  /\ inflight = SetToBag({Result("fetch", 1, {})})

-----------------------------------------------------------------------------
(* Helpers *)

\* A key, pressed in one of the views it works in.
Press(k, in) == k \in Keys /\ view \in in

Present(d) == {n \in Names : d[n] # None}

\* filteredItems after any sort and filter.
Orders(S) == UNION {{s \in [1 .. Cardinality(T) -> T] : \A i, j \in DOMAIN s : s[i] = s[j] => i = j} : T \in SUBSET S}

\* The HPA of the current row, if any.
Current == IF cursor \in DOMAIN shown THEN shown[cursor] ELSE None

About(n) == [name |-> n, uid |-> data[n].uid, fixes |-> <<>>, fix |-> None]

\* collectBatchApplyPatches: what may be applied of the selected HPAs.
Patches ==
  UNION {{[name |-> n, uid |-> data[n].uid, fixes |-> data[n].fixes, fix |-> data[n].fixes[i]] :
            i \in {i \in DOMAIN data[n].fixes : data[n].fixes[i] \in Applicable}} :
         n \in {n \in Present(data) : selected[n] # 0}}

\* A command starts; its result will come.
Start(r) ==
  /\ BagCardinality(inflight) < MaxInFlight
  /\ inflight' = BagAdd(inflight, r)

Take(r) == r \in BagToSet(inflight) /\ inflight' = BagRemove(inflight, r)

\* The wizard's current suggestion, as shown.
Shown(f) == [name |-> f.name, uid |-> f.uid, fixes |-> f.fixes, fix |-> f.fixes[f.at]]

\* What a command of the wizard is about: its target, as last fetched.
WizardTarget == [Shown(fix) EXCEPT !.uid = data[fix.name].uid]

\* Mutant: the wizard is matched by name alone.
SameName(f, d) == d[f.name] # None

\* verifyAgainstCurrentData
SameObject(f, d) == d[f.name] # None /\ d[f.name].uid = f.uid

\* Mutant: a confirmation outlives what it was asked for.
StayArmed == UNCHANGED preview

\* Drop an armed batch apply.
Disarm == preview' = {}

-----------------------------------------------------------------------------
(* Refreshing *)

\* A tick or the refresh key.
StartFetch ==
  /\ ~loading /\ request < MaxRequests
  /\ loading' = TRUE
  /\ request' = request + 1
  /\ Start(Result("fetch", request', {}))
  /\ UNCHANGED <<live, fetched, view, under, epoch, selected, preview, panes>>

\* External: what a list of the cluster may return.  An HPA is gone, still the
\* same, or has been created (again) with a new UID.
Listed ==
  {d \in [Names -> {None} \cup [uid : 1 .. MaxBirths, fixes : Lists]] :
     \A n \in Names : d[n] # None =>
       d[n].uid \in {born[n] + 1} \cup (IF data[n] = None THEN {} ELSE {data[n].uid})}

\* Mutant: the choice may lie beyond the new suggestions.
ChoiceKept(i, fixes) == i

\* The choice among the new suggestions.
Choice(i, fixes) == IF i > Len(fixes) THEN 1 ELSE i

\* refreshFixStateAfterFetch: the wizard closes when its HPA is gone, replaced
\* or has no suggestions; otherwise it shows the new ones and starts afresh.
FixAfterFetch(d) ==
  IF fix = None \/ ~SameObject(fix, d) \/ d[fix.name].fixes = <<>> THEN None
  ELSE [fix EXCEPT !.fixes = d[fix.name].fixes, !.at = Choice(@, d[fix.name].fixes),
                   !.armed = {}, !.applied = {}, !.validated = {}, !.validating = FALSE]

\* The result replaces all fetched data; selections of HPAs that are gone are
\* dropped.  The first one moves to the HPA the dashboard was started for.
Fetched(d) ==
  /\ data' = d
  /\ born' = [n \in Names |-> IF d[n] = None THEN born[n] ELSE d[n].uid]
  /\ shown' \in Orders(Present(d))
  /\ focused' = TRUE
  /\ fix' = FixAfterFetch(d)
  /\ selected' = [n \in Names |-> IF d[n] = None THEN 0 ELSE selected[n]]
  /\ IF ~focused /\ InitialName \in Present(d)
       THEN /\ cursor' \in DOMAIN shown' \cup (IF shown' = <<>> THEN {1} ELSE {})
            /\ view' = "detail"
       ELSE /\ cursor' = IF shown' = <<>> THEN 1 ELSE IF cursor > Len(shown') THEN Len(shown') ELSE cursor
            /\ view' = IF view = "fix" /\ fix # None /\ fix' = None THEN "list" ELSE view

\* A failed refresh keeps the data.
FetchFailed ==
  /\ fix' = IF fix = None THEN None ELSE [fix EXCEPT !.armed = {}]
  /\ UNCHANGED <<fetched, view, selected>>

\* updateFetchResult: whatever it brings, armed confirmations are dropped and
\* results still to come for the wizard disowned.  Only the newest request
\* counts; there is no other, since none starts while one runs.
FetchAnswered(r) ==
  /\ r.kind = "fetch" /\ r.id = request /\ Take(r)
  /\ loading' = FALSE
  /\ epoch' = epoch + 1
  /\ Disarm
  /\ FetchFailed \/ \E d \in Listed : Fetched(d)
  /\ UNCHANGED <<live, under, request, sim, replay, audit, history>>

-----------------------------------------------------------------------------
(* Keys of the list *)

\* Up, down and jump to problem.
MoveCursor ==
  /\ Press("move", {"list"})
  /\ cursor' \in DOMAIN shown
  /\ UNCHANGED <<live, data, born, shown, focused, view, under, loading, request, epoch, selected, preview, panes, inflight>>

\* The sort key, or a filter entered.
Rearrange ==
  /\ Press("arrange", {"list"})
  /\ shown' \in Orders(Present(data))
  /\ cursor' = 1
  /\ UNCHANGED <<live, data, born, focused, view, under, loading, request, epoch, selected, preview, panes, inflight>>

\* Toggle the current row, select all rows shown, or deselect everything.
Select ==
  /\ Press("select", {"list"})
  /\ \/ Current # None /\ selected' = [selected EXCEPT ![Current] = IF @ = 0 THEN data[Current].uid ELSE 0]
     \/ selected' = [n \in Names |-> IF selected[n] = 0 /\ \E i \in DOMAIN shown : shown[i] = n
                                       THEN data[n].uid ELSE selected[n]]
     \/ selected' = [n \in Names |-> 0]
  /\ Disarm
  /\ UNCHANGED <<live, fetched, view, under, loading, request, epoch, panes, inflight>>

\* Mutant: the second key press does not ask whether apply is enabled.
BatchApplyUnchecked ==
  /\ Press("batch", {"list"})
  /\ Patches # {}
  /\ \/ preview = {} /\ preview' = Patches /\ UNCHANGED inflight
     \/ preview # {} /\ preview' = {} /\ Start(Result("batch", 0, Patches))
  /\ UNCHANGED <<live, fetched, view, under, loading, request, epoch, selected, panes>>

\* The batch-apply key shows a preview first; pressed again it sends, if live.
BatchApply ==
  /\ Press("batch", {"list"})
  /\ Patches # {}
  /\ \/ preview = {} /\ preview' = Patches /\ UNCHANGED inflight
     \/ preview # {} /\ Disarm /\ ~live /\ UNCHANGED inflight
     \/ preview # {} /\ Disarm /\ live /\ Start(Result("batch", 0, Patches))
  /\ UNCHANGED <<live, fetched, view, under, loading, request, epoch, selected, panes>>

BatchAudit ==
  LET chosen == {About(n) : n \in {n \in Present(data) : selected[n] # 0}} IN
  /\ Press("audit", {"list"})
  /\ chosen # {}
  /\ audit' = [of |-> chosen, loading |-> TRUE, reports |-> {}]
  /\ view' = "audit"
  /\ Start(Result("audit", 0, chosen))
  /\ UNCHANGED <<live, fetched, under, loading, request, epoch, selected, preview, fix, sim, replay, history>>

\* Views without a state of their own.
OpenView ==
  /\ \/ Press("detail", {"list"}) /\ Current # None /\ view' = "detail"
     \/ Press("metrics", {"list", "detail"}) /\ view' = "metrics"
     \/ Press("overview", {"list"}) /\ view' = "overview"
     \/ Press("hints", {"detail"}) /\ Current # None /\ view' = "hints"
  /\ UNCHANGED <<live, fetched, under, loading, request, epoch, selected, preview, panes, inflight>>

-----------------------------------------------------------------------------
(* Keys of the detail view and of the views it opens *)

OpenFix ==
  /\ Press("fix", {"detail"}) /\ epoch < MaxEpoch
  /\ Current # None /\ data[Current].fixes # <<>>
  /\ epoch' = epoch + 1
  /\ fix' = [name |-> Current, uid |-> data[Current].uid, fixes |-> data[Current].fixes, at |-> 1,
             armed |-> {}, applied |-> {}, validated |-> {}, validating |-> FALSE]
  /\ view' = "fix"
  /\ UNCHANGED <<live, fetched, under, loading, request, selected, preview, sim, replay, audit, history, inflight>>

\* clampCursor: moving beyond an end stays there.
Clamped(i) == IF i \in DOMAIN fix.fixes THEN i ELSE fix.at

\* Up and down disarm.
MoveFix ==
  /\ Press("fix", {"fix"}) /\ fix # None
  /\ \E i \in {fix.at - 1, fix.at + 1} : fix' = [fix EXCEPT !.at = Clamped(i), !.armed = {}]
  /\ UNCHANGED <<live, fetched, view, under, loading, request, epoch, selected, preview, sim, replay, audit, history, inflight>>

\* Enter arms; Enter again applies what verifies, if live.
EnterFix ==
  /\ Press("fix", {"fix"}) /\ fix # None
  /\ \/ /\ ~live
        /\ fix' = [fix EXCEPT !.armed = {}, !.applied = {}]
        /\ UNCHANGED inflight
     \/ /\ live /\ fix.armed = {}
        /\ fix' = [fix EXCEPT !.armed = {Shown(fix)}, !.applied = {}]
        /\ UNCHANGED inflight
     \/ /\ live /\ fix.armed # {}
        /\ fix' = [fix EXCEPT !.armed = {}]
        /\ IF fix.fixes[fix.at] \in Applicable /\ SameObject(fix, data)
             THEN Start(Result("apply", epoch, {WizardTarget}))
             ELSE UNCHANGED inflight
  /\ UNCHANGED <<live, fetched, view, under, loading, request, epoch, selected, preview, sim, replay, audit, history>>

\* The dry-run key.
DryRun ==
  /\ Press("fix", {"fix"}) /\ fix # None
  /\ IF fix.fixes[fix.at] \in Applicable /\ SameObject(fix, data)
       THEN /\ fix' = [fix EXCEPT !.armed = {}, !.applied = {}, !.validated = {}, !.validating = TRUE]
            /\ Start(Result("dryrun", epoch, {WizardTarget}))
       ELSE /\ fix' = [fix EXCEPT !.armed = {}, !.applied = {}, !.validated = {}, !.validating = FALSE]
            /\ UNCHANGED inflight
  /\ UNCHANGED <<live, fetched, view, under, loading, request, epoch, selected, preview, sim, replay, audit, history>>

OpenSim ==
  /\ Press("sim", {"detail"}) /\ Current # None
  /\ sim' = [of |-> About(Current), result |-> {}]
  /\ view' = "sim"
  /\ UNCHANGED <<live, fetched, under, loading, request, epoch, selected, preview, fix, replay, audit, history, inflight>>

RunSim ==
  /\ Press("sim", {"sim"}) /\ sim # None
  /\ Start(Result("sim", 0, {sim.of}))
  /\ UNCHANGED <<live, fetched, view, under, loading, request, epoch, selected, preview, panes>>

OpenReplay ==
  /\ Press("replay", {"detail"})
  /\ replay' = [loading |-> TRUE]
  /\ view' = "replay"
  /\ Start(Result("replay", 0, {}))
  /\ UNCHANGED <<live, fetched, under, loading, request, epoch, selected, preview, fix, sim, audit, history>>

\* The history is loaded for the current row, if there is one.
OpenHistory ==
  /\ Press("history", {"detail"})
  /\ history' = [of |-> Current, loading |-> TRUE]
  /\ view' = "history"
  /\ IF Current = None THEN UNCHANGED inflight ELSE Start(Result("history", 0, {About(Current)}))
  /\ UNCHANGED <<live, fetched, under, loading, request, epoch, selected, preview, fix, sim, replay, audit>>

ToggleHelp ==
  /\ "help" \in Keys
  /\ IF view = "help" THEN view' = under /\ UNCHANGED under ELSE view' = "help" /\ under' = view
  /\ UNCHANGED <<live, fetched, loading, request, epoch, selected, preview, panes, inflight>>

\* Escape goes back one view and drops that view's state.
Escape ==
  /\ "escape" \in Keys
  /\ view' = CASE view = "help" -> under
               [] view \in {"sim", "fix", "replay", "history", "hints"} -> "detail"
               [] OTHER -> "list"
  /\ preview' = IF view \in {"list", "detail", "metrics", "help"} THEN {} ELSE preview
  /\ IF view \in {"sim", "fix", "replay"} THEN sim' = None /\ fix' = None /\ replay' = None
                                          ELSE UNCHANGED <<sim, fix, replay>>
  /\ audit' = IF view = "audit" THEN None ELSE audit
  /\ history' = IF view = "history" THEN None ELSE history
  /\ UNCHANGED <<live, fetched, under, loading, request, epoch, selected, inflight>>

-----------------------------------------------------------------------------
(* Results.  All but the history's are taken in any view. *)

\* Mutant: results of an earlier wizard or suggestion set are shown.
ForAnyWizard(r) == fix # None

\* Results of an earlier wizard or suggestion set are dropped.
ForThisWizard(r) == fix # None /\ r.id = epoch

\* updateApplyResult, updateDryRunResult
FixAnswered(r) ==
  /\ r.kind \in {"apply", "dryrun"} /\ Take(r)
  /\ fix' = IF ~ForThisWizard(r) THEN fix
            ELSE IF r.kind = "apply" THEN [fix EXCEPT !.armed = {}, !.applied = r.about]
            ELSE [fix EXCEPT !.armed = {}, !.applied = {}, !.validated = r.about, !.validating = FALSE]
  /\ UNCHANGED <<live, fetched, view, under, loading, request, epoch, selected, preview, sim, replay, audit, history>>

\* The batch outcome only sets the status line.
BatchAnswered(r) ==
  /\ r.kind = "batch" /\ Take(r)
  /\ UNCHANGED <<live, fetched, view, under, loading, request, epoch, selected, preview, panes>>

SimAnswered(r) ==
  /\ r.kind = "sim" /\ Take(r)
  /\ sim' = IF sim = None THEN None ELSE [sim EXCEPT !.result = r.about]
  /\ UNCHANGED <<live, fetched, view, under, loading, request, epoch, selected, preview, fix, replay, audit, history>>

ReplayAnswered(r) ==
  /\ r.kind = "replay" /\ Take(r)
  /\ replay' = IF replay = None THEN None ELSE [replay EXCEPT !.loading = FALSE]
  /\ UNCHANGED <<live, fetched, view, under, loading, request, epoch, selected, preview, fix, sim, audit, history>>

\* Mutant: taken only while its view is on the screen.
AuditAnsweredInView(r) ==
  /\ r.kind = "audit" /\ Take(r)
  /\ audit' = IF audit = None \/ view # "audit" THEN audit ELSE [audit EXCEPT !.loading = FALSE, !.reports = r.about]
  /\ UNCHANGED <<live, fetched, view, under, loading, request, epoch, selected, preview, fix, sim, replay, history>>

\* Some of the audits may have failed.
AuditAnswered(r) ==
  /\ r.kind = "audit" /\ Take(r)
  /\ IF audit = None THEN UNCHANGED audit
       ELSE \E got \in SUBSET r.about : audit' = [audit EXCEPT !.loading = FALSE, !.reports = got]
  /\ UNCHANGED <<live, fetched, view, under, loading, request, epoch, selected, preview, fix, sim, replay, history>>

\* updateHistoryLoaded: taken by the open history view of the same HPA.
HistoryAnswered(r) ==
  /\ r.kind = "history" /\ Take(r)
  /\ history' = IF /\ view = "history" /\ history # None
                   /\ history.of = None \/ \E t \in r.about : t.name = history.of
                  THEN [history EXCEPT !.loading = FALSE] ELSE history
  /\ UNCHANGED <<live, fetched, view, under, loading, request, epoch, selected, preview, fix, sim, replay, audit>>

Answered(r) ==
  \/ FetchAnswered(r) \/ FixAnswered(r) \/ BatchAnswered(r) \/ SimAnswered(r)
  \/ ReplayAnswered(r) \/ AuditAnswered(r) \/ HistoryAnswered(r)

SomeAnswer == \E r \in BagToSet(inflight) : Answered(r)

KeyPressed ==
  \/ MoveCursor \/ Rearrange \/ Select \/ BatchApply \/ BatchAudit \/ OpenView
  \/ OpenFix \/ MoveFix \/ EnterFix \/ DryRun \/ OpenSim \/ RunSim \/ OpenReplay \/ OpenHistory
  \/ ToggleHelp \/ Escape

Next == StartFetch \/ KeyPressed \/ SomeAnswer

Spec == Init /\ [][Next]_vars

FairSpec == Spec /\ \A k \in {"fetch", "audit", "replay"} :
  WF_inflight(\E r \in BagToSet(inflight) : r.kind = k /\ Answered(r))

-----------------------------------------------------------------------------
(* Properties *)

\* The wizard stays with the HPA it was opened for, not with a row or a name:
\* while it is open its target is in the last fetched data, is the same object
\* (UID) and its suggestions are those of that data, in any view and whatever
\* refreshes, escapes and re-openings went before.
WizardFollowsData ==
  fix # None => data[fix.name] # None /\ data[fix.name].uid = fix.uid /\ data[fix.name].fixes = fix.fixes

\* An apply or validation outcome on the screen belongs to the wizard that shows
\* it: same HPA, same incarnation, same suggestions - never one of a closed
\* wizard, another HPA or a superseded suggestion set (fixEpoch).
OutcomeIsOwn ==
  fix # None => \A t \in fix.applied \cup fix.validated :
    t.name = fix.name /\ t.uid = fix.uid /\ t.fixes = fix.fixes

\* A command is sent by this step.
Leaves(r) == r \in BagToSet(inflight) => inflight'[r] > inflight[r]

\* Nothing is applied that was not confirmed: a live apply leaves only in
\* answer to a second key press and is exactly what the screen showed when the
\* first one armed it, down to the incarnation of the HPA.
ConfirmedOnly ==
  [][\A r \in BagToSet(inflight') : Leaves(r) =>
       /\ r.kind = "apply" => live /\ fix # None /\ r.about = fix.armed
       /\ r.kind = "batch" => live /\ r.about = preview]_vars

\* An armed batch preview is still what would be collected: no selection
\* change or refresh goes unnoticed between preview and confirmation.
PreviewIsCurrent == preview # {} => preview = Patches

\* Whatever says it is loading has an answer to come: the refresh (with the
\* current request's number), the batch audit and the replay.
Coming(k) == \E r \in BagToSet(inflight) : r.kind = k

WaitingIsAnswered ==
  /\ loading => \E r \in BagToSet(inflight) : r.kind = "fetch" /\ r.id = request
  /\ audit # None /\ audit.loading => Coming("audit")
  /\ replay # None /\ replay.loading => Coming("replay")

\* So every wait ends, whichever views are visited meanwhile.
WaitsEnd ==
  /\ loading ~> ~loading
  /\ (audit # None /\ audit.loading) ~> (audit = None \/ ~audit.loading)
  /\ (replay # None /\ replay.loading) ~> (replay = None \/ ~replay.loading)

\* The same of the history view: opening help over it "never silently abandons
\* it" (model.go, helpReturnView).
HistoryIsAnswered == history # None /\ history.of # None /\ history.loading => Coming("history")

=============================================================================
