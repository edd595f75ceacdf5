----------------------------- MODULE TuiProofs ------------------------------
(* Theorems about the dashboard, for any HPAs, suggestions and keys, and for
   any bounds: the wizard and what it confirms, what is waited for, and the
   types of the whole state. *)
EXTENDS TuiModel, FiniteSetTheorems, TLAPS

\* What happened to wizard results so far, as one inductive invariant.
IsWizard(f) ==
  f = [name |-> f.name, uid |-> f.uid, fixes |-> f.fixes, at |-> f.at, armed |-> f.armed,
       applied |-> f.applied, validated |-> f.validated, validating |-> f.validating]

\* All of a set of targets are the wizard's own.
Own(f, ts) == \A t \in ts : t.name = f.name /\ t.uid = f.uid /\ t.fixes = f.fixes

ForWizard(r) == r.kind \in {"apply", "dryrun"}

\* The rows are fetched HPAs.
RowsFetched == \A i \in DOMAIN shown : shown[i] \in Names /\ data[shown[i]] # None

WizardShape == fix # None => IsWizard(fix) /\ fix.name \in Names

\* Results to come carry an epoch that was; those of the current one are the
\* open wizard's.
ResultsDisowned ==
  /\ epoch \in Nat
  /\ \A r \in BagToSet(inflight) : ForWizard(r) =>
       /\ r.id \in Nat /\ r.id <= epoch
       /\ r.id = epoch /\ fix # None => Own(fix, r.about)

WizardInv ==
  /\ RowsFetched /\ WizardShape /\ ResultsDisowned
  /\ WizardFollowsData /\ OutcomeIsOwn

-----------------------------------------------------------------------------

LEMMA StartAdds ==
  ASSUME NEW x, Start(x)
  PROVE  BagToSet(inflight') \subseteq BagToSet(inflight) \cup {x}
BY DEF Start, BagAdd, BagToSet

LEMMA TakeRemoves ==
  ASSUME NEW x, Take(x)
  PROVE  BagToSet(inflight') \subseteq BagToSet(inflight) /\ x \in BagToSet(inflight)
BY DEF Take, BagRemove, BagToSet

\* Rows come from the HPAs they are chosen from.
LEMMA RowsChosen ==
  ASSUME NEW S, NEW rows \in Orders(S)
  PROVE  \A i \in DOMAIN rows : rows[i] \in S
BY DEF Orders

\* What does not touch the wizard, or closes it, keeps the invariant.
LEMMA Elsewhere ==
  ASSUME WizardInv, UNCHANGED <<data, shown, epoch>>, fix' \in {fix, None},
         \A r \in BagToSet(inflight') : r \in BagToSet(inflight) \/ ~ForWizard(r)
  PROVE  WizardInv'
<1>1. RowsFetched'
  BY DEF WizardInv, RowsFetched
<1>2. WizardShape'
  BY DEF WizardInv, WizardShape, IsWizard
<1>3. ResultsDisowned'
  BY DEF WizardInv, ResultsDisowned, ForWizard, Own
<1>4. WizardFollowsData'
  BY DEF WizardInv, WizardFollowsData, SameObject
<1>5. OutcomeIsOwn'
  BY DEF WizardInv, OutcomeIsOwn
<1> QED BY <1>1, <1>2, <1>3, <1>4, <1>5 DEF WizardInv

\* A step of the open wizard: it stays with its HPA, and what it shows or asks
\* for is its own.
LEMMA WithinWizard ==
  ASSUME WizardInv, UNCHANGED <<data, shown, epoch>>, fix # None,
         fix' # None => /\ IsWizard(fix')
                        /\ fix'.name = fix.name /\ fix'.uid = fix.uid /\ fix'.fixes = fix.fixes
                        /\ Own(fix, fix'.applied \cup fix'.validated),
         \A r \in BagToSet(inflight') :
           r \in BagToSet(inflight) \/ ~ForWizard(r) \/ (r.id = epoch /\ Own(fix, r.about))
  PROVE  WizardInv'
<1>1. RowsFetched'
  BY DEF WizardInv, RowsFetched
<1>2. WizardShape'
  BY DEF WizardInv, WizardShape
<1>3. ResultsDisowned'
  BY DEF WizardInv, ResultsDisowned, ForWizard, Own
<1>4. WizardFollowsData'
  BY DEF WizardInv, WizardFollowsData, SameObject
<1>5. OutcomeIsOwn'
  BY DEF WizardInv, OutcomeIsOwn, Own
<1> QED BY <1>1, <1>2, <1>3, <1>4, <1>5 DEF WizardInv

\* Changing fields other than its HPA and suggestions leaves it that wizard.
LEMMA EditedWizard ==
  ASSUME WizardInv, fix # None, NEW a, NEW b, NEW c, NEW d, NEW e,
         Own(fix, c \cup d),
         fix' = [fix EXCEPT !.at = a, !.armed = b, !.applied = c, !.validated = d, !.validating = e]
  PROVE  /\ IsWizard(fix')
         /\ fix'.name = fix.name /\ fix'.uid = fix.uid /\ fix'.fixes = fix.fixes
         /\ fix'.applied = c /\ fix'.validated = d
         /\ Own(fix, fix'.applied \cup fix'.validated)
<1>1. IsWizard(fix)
  BY DEF WizardInv, WizardShape
<1>2. fix' = [name |-> fix.name, uid |-> fix.uid, fixes |-> fix.fixes, at |-> a, armed |-> b,
              applied |-> c, validated |-> d, validating |-> e]
  BY <1>1 DEF IsWizard
<1> QED BY <1>2 DEF IsWizard

-----------------------------------------------------------------------------

LEMMA InitWizard == Init => WizardInv
BY DEF Init, WizardInv, RowsFetched, WizardShape, ResultsDisowned, WizardFollowsData,
       OutcomeIsOwn, ForWizard, Result, SetToBag, BagToSet

\* Sorting and filtering choose among the fetched HPAs again.
LEMMA RearrangeWizard == ASSUME WizardInv, Rearrange PROVE WizardInv'
<1>1. RowsFetched'
  BY RowsChosen DEF Rearrange, RowsFetched, Present
<1>2. UNCHANGED <<data, epoch, fix, inflight>>
  BY DEF Rearrange, panes
<1> QED BY <1>1, <1>2 DEF WizardInv, WizardShape, ResultsDisowned, WizardFollowsData,
                          SameObject, OutcomeIsOwn, BagToSet

\* A new wizard: all results to come are of an earlier epoch.
LEMMA OpenFixWizard == ASSUME WizardInv, OpenFix PROVE WizardInv'
<1>1. Current \in Names /\ data[Current] # None
  <2>1. Current # None /\ RowsFetched
    BY DEF OpenFix, WizardInv
  <2> QED BY <2>1 DEF Current, RowsFetched
<1>2. UNCHANGED <<data, shown, inflight>> /\ epoch' = epoch + 1
  BY DEF OpenFix, fetched
<1>3. fix' = [name |-> Current, uid |-> data[Current].uid, fixes |-> data[Current].fixes, at |-> 1,
              armed |-> {}, applied |-> {}, validated |-> {}, validating |-> FALSE]
  BY DEF OpenFix
<1>4. RowsFetched'
  BY <1>2 DEF WizardInv, RowsFetched
<1>5. WizardShape' /\ OutcomeIsOwn'
  BY <1>1, <1>3 DEF WizardShape, IsWizard, OutcomeIsOwn
<1>6. ResultsDisowned'
  BY <1>2 DEF WizardInv, ResultsDisowned, BagToSet
<1>7. WizardFollowsData'
  BY <1>1, <1>2, <1>3 DEF WizardFollowsData, SameObject
<1> QED BY <1>4, <1>5, <1>6, <1>7 DEF WizardInv

\* A refresh, whatever it brings, disowns all results to come.
LEMMA FetchWizard ==
  ASSUME WizardInv, NEW r, FetchAnswered(r)
  PROVE  WizardInv'
<1>1. epoch' = epoch + 1 /\ BagToSet(inflight') \subseteq BagToSet(inflight)
  BY TakeRemoves DEF FetchAnswered
<1>2. ResultsDisowned'
  BY <1>1 DEF WizardInv, ResultsDisowned
<1>3. CASE FetchFailed
  <2>1. UNCHANGED <<data, shown>> /\ fix' = IF fix = None THEN None ELSE [fix EXCEPT !.armed = {}]
    BY <1>3 DEF FetchFailed, fetched
  <2>2. fix' # None => /\ fix # None /\ IsWizard(fix')
                       /\ fix'.name = fix.name /\ fix'.uid = fix.uid /\ fix'.fixes = fix.fixes
                       /\ fix'.applied = fix.applied /\ fix'.validated = fix.validated
    BY <2>1 DEF WizardInv, WizardShape, IsWizard
  <2>3. RowsFetched'
    BY <2>1 DEF WizardInv, RowsFetched
  <2>4. WizardShape' /\ WizardFollowsData' /\ OutcomeIsOwn'
    BY <2>1, <2>2 DEF WizardInv, WizardShape, WizardFollowsData, SameObject, OutcomeIsOwn
  <2> QED BY <1>2, <2>3, <2>4 DEF WizardInv
<1>4. ASSUME NEW d \in Listed, Fetched(d) PROVE WizardInv'
  <2>1. data' = d /\ shown' \in Orders(Present(d)) /\ fix' = FixAfterFetch(d)
    BY <1>4 DEF Fetched
  <2>2. RowsFetched'
    BY <2>1, RowsChosen DEF RowsFetched, Present
  <2>3. fix' # None => /\ fix # None /\ SameObject(fix, d) /\ IsWizard(fix')
                       /\ fix'.name = fix.name /\ fix'.uid = fix.uid /\ fix'.fixes = d[fix.name].fixes
                       /\ fix'.applied = {} /\ fix'.validated = {}
    <3>1. CASE fix = None \/ ~SameObject(fix, d) \/ d[fix.name].fixes = <<>>
      BY <2>1, <3>1 DEF FixAfterFetch
    <3>2. CASE ~(fix = None \/ ~SameObject(fix, d) \/ d[fix.name].fixes = <<>>)
      <4> DEFINE at == Choice(fix.at, d[fix.name].fixes)
      <4>1. fix = [name |-> fix.name, uid |-> fix.uid, fixes |-> fix.fixes, at |-> fix.at, armed |-> fix.armed,
                   applied |-> fix.applied, validated |-> fix.validated, validating |-> fix.validating]
        BY <3>2 DEF WizardInv, WizardShape, IsWizard
      <4>2. fix' = [fix EXCEPT !.fixes = d[fix.name].fixes, !.at = at,
                               !.armed = {}, !.applied = {}, !.validated = {}, !.validating = FALSE]
        BY <2>1, <3>2 DEF FixAfterFetch
      <4> HIDE DEF at
      <4>3. fix' = [name |-> fix.name, uid |-> fix.uid, fixes |-> d[fix.name].fixes, at |-> at, armed |-> {},
                    applied |-> {}, validated |-> {}, validating |-> FALSE]
        BY <4>1, <4>2
      <4> QED BY <3>2, <4>3 DEF IsWizard
    <3> QED BY <3>1, <3>2
  <2>4. WizardShape' /\ OutcomeIsOwn'
    BY <2>3 DEF WizardInv, WizardShape, OutcomeIsOwn
  <2>5. WizardFollowsData'
    BY <2>1, <2>3 DEF WizardFollowsData, SameObject
  <2> QED BY <1>2, <2>2, <2>4, <2>5 DEF WizardInv
<1> QED BY <1>3, <1>4 DEF FetchAnswered

\* The keys of the wizard: what they send is about the wizard's own target.
LEMMA TargetOwn ==
  ASSUME SameObject(fix, data)
  PROVE  Own(fix, {WizardTarget})
<1>1. Shown(fix) = [name |-> fix.name, uid |-> fix.uid, fixes |-> fix.fixes, fix |-> fix.fixes[fix.at]]
  BY DEF Shown
<1>2. WizardTarget = [name |-> fix.name, uid |-> fix.uid, fixes |-> fix.fixes, fix |-> fix.fixes[fix.at]]
  BY <1>1 DEF WizardTarget, SameObject
<1> QED BY <1>2 DEF Own

\* What the wizard shows already is its own.
LEMMA ShownOwn ==
  ASSUME WizardInv, fix # None
  PROVE  Own(fix, fix.applied \cup fix.validated)
BY DEF WizardInv, OutcomeIsOwn, Own

\* An edit of some fields is an edit of all of them.
LEMMA AllFields ==
  ASSUME WizardInv, fix # None
  PROVE  fix = [name |-> fix.name, uid |-> fix.uid, fixes |-> fix.fixes, at |-> fix.at, armed |-> fix.armed,
                applied |-> fix.applied, validated |-> fix.validated, validating |-> fix.validating]
BY DEF WizardInv, WizardShape, IsWizard

LEMMA MoveFixWizard == ASSUME WizardInv, MoveFix PROVE WizardInv'
<1>1. fix # None /\ UNCHANGED <<data, shown, epoch, inflight>>
  BY DEF MoveFix, fetched
<1>2. PICK i : fix' = [fix EXCEPT !.at = i, !.armed = {}]
  BY DEF MoveFix
<1>3. fix' = [fix EXCEPT !.at = i, !.armed = {}, !.applied = fix.applied,
                         !.validated = fix.validated, !.validating = fix.validating]
  BY <1>1, <1>2, AllFields
<1>4. /\ IsWizard(fix')
      /\ fix'.name = fix.name /\ fix'.uid = fix.uid /\ fix'.fixes = fix.fixes
      /\ Own(fix, fix'.applied \cup fix'.validated)
  BY <1>1, <1>3, ShownOwn, EditedWizard
<1> QED BY <1>1, <1>4, WithinWizard

LEMMA EnterFixWizard == ASSUME WizardInv, EnterFix PROVE WizardInv'
<1>1. fix # None /\ UNCHANGED <<data, shown, epoch>>
  BY DEF EnterFix, fetched
<1>2. PICK b, c : /\ fix' = [fix EXCEPT !.at = fix.at, !.armed = b, !.applied = c,
                                        !.validated = fix.validated, !.validating = fix.validating]
                  /\ c \in {{}, fix.applied}
  <2>1. CASE fix' = [fix EXCEPT !.armed = {}, !.applied = {}]
    <3>1. fix' = [fix EXCEPT !.at = fix.at, !.armed = {}, !.applied = {},
                             !.validated = fix.validated, !.validating = fix.validating]
      BY <1>1, <2>1, AllFields
    <3> QED BY <3>1
  <2>2. CASE fix' = [fix EXCEPT !.armed = {Shown(fix)}, !.applied = {}]
    <3> DEFINE now == {Shown(fix)}
    <3>1. fix' = [fix EXCEPT !.armed = now, !.applied = {}]
      BY <2>2
    <3> HIDE DEF now
    <3>2. fix' = [fix EXCEPT !.at = fix.at, !.armed = now, !.applied = {},
                             !.validated = fix.validated, !.validating = fix.validating]
      BY <1>1, <3>1, AllFields
    <3> QED BY <3>2
  <2>3. CASE fix' = [fix EXCEPT !.armed = {}]
    <3>1. fix' = [fix EXCEPT !.at = fix.at, !.armed = {}, !.applied = fix.applied,
                             !.validated = fix.validated, !.validating = fix.validating]
      BY <1>1, <2>3, AllFields
    <3> QED BY <3>1
  <2> QED BY <2>1, <2>2, <2>3 DEF EnterFix
<1>3. Own(fix, c \cup fix.validated)
  BY <1>1, <1>2, ShownOwn DEF Own
<1>4. /\ IsWizard(fix')
      /\ fix'.name = fix.name /\ fix'.uid = fix.uid /\ fix'.fixes = fix.fixes
      /\ Own(fix, fix'.applied \cup fix'.validated)
  BY <1>1, <1>2, <1>3, EditedWizard
<1>5. \A r \in BagToSet(inflight') : r \in BagToSet(inflight) \/ (r.id = epoch /\ Own(fix, r.about))
  <2>1. CASE UNCHANGED inflight
    BY <2>1
  <2>2. CASE SameObject(fix, data) /\ Start(Result("apply", epoch, {WizardTarget}))
    BY <2>2, StartAdds, TargetOwn DEF Result
  <2> QED BY <2>1, <2>2 DEF EnterFix
<1> QED BY <1>1, <1>4, <1>5, WithinWizard

LEMMA DryRunWizard == ASSUME WizardInv, DryRun PROVE WizardInv'
<1>1. fix # None /\ UNCHANGED <<data, shown, epoch>>
  BY DEF DryRun, fetched
<1>2. PICK e : fix' = [fix EXCEPT !.armed = {}, !.applied = {}, !.validated = {}, !.validating = e]
  BY DEF DryRun
<1>3. fix' = [fix EXCEPT !.at = fix.at, !.armed = {}, !.applied = {}, !.validated = {}, !.validating = e]
  BY <1>1, <1>2, AllFields
<1>4. /\ IsWizard(fix')
      /\ fix'.name = fix.name /\ fix'.uid = fix.uid /\ fix'.fixes = fix.fixes
      /\ Own(fix, fix'.applied \cup fix'.validated)
  <2>1. Own(fix, {} \cup {})
    BY DEF Own
  <2> QED BY <1>1, <1>3, <2>1, EditedWizard
<1>5. \A r \in BagToSet(inflight') : r \in BagToSet(inflight) \/ (r.id = epoch /\ Own(fix, r.about))
  <2>1. CASE UNCHANGED inflight
    BY <2>1
  <2>2. CASE SameObject(fix, data) /\ Start(Result("dryrun", epoch, {WizardTarget}))
    BY <2>2, StartAdds, TargetOwn DEF Result
  <2> QED BY <2>1, <2>2 DEF DryRun
<1> QED BY <1>1, <1>4, <1>5, WithinWizard

\* An outcome is taken by the wizard whose epoch it carries, which asked for it.
LEMMA FixAnsweredWizard ==
  ASSUME WizardInv, NEW r, FixAnswered(r)
  PROVE  WizardInv'
<1>1. /\ UNCHANGED <<data, shown, epoch>> /\ ForWizard(r)
      /\ BagToSet(inflight') \subseteq BagToSet(inflight) /\ r \in BagToSet(inflight)
  BY TakeRemoves DEF FixAnswered, fetched, ForWizard
<1>2. CASE ~ForThisWizard(r)
  BY <1>1, <1>2, Elsewhere DEF FixAnswered
<1>3. CASE ForThisWizard(r)
  <2>1. fix # None /\ Own(fix, r.about)
    BY <1>1, <1>3 DEF ForThisWizard, WizardInv, ResultsDisowned
  <2>2. PICK c, d, e : /\ fix' = [fix EXCEPT !.at = fix.at, !.armed = {}, !.applied = c,
                                             !.validated = d, !.validating = e]
                       /\ c \in {{}, r.about} /\ d \in {fix.validated, r.about}
    <3>1. CASE fix' = [fix EXCEPT !.armed = {}, !.applied = r.about]
      <4>1. fix' = [fix EXCEPT !.at = fix.at, !.armed = {}, !.applied = r.about,
                               !.validated = fix.validated, !.validating = fix.validating]
        BY <2>1, <3>1, AllFields
      <4> QED BY <4>1
    <3>2. CASE fix' = [fix EXCEPT !.armed = {}, !.applied = {}, !.validated = r.about, !.validating = FALSE]
      <4>1. fix' = [fix EXCEPT !.at = fix.at, !.armed = {}, !.applied = {},
                               !.validated = r.about, !.validating = FALSE]
        BY <2>1, <3>2, AllFields
      <4> QED BY <4>1
    <3> QED BY <1>3, <3>1, <3>2 DEF FixAnswered
  <2>3. Own(fix, c \cup d)
    BY <2>1, <2>2, ShownOwn DEF Own
  <2>4. /\ IsWizard(fix')
        /\ fix'.name = fix.name /\ fix'.uid = fix.uid /\ fix'.fixes = fix.fixes
        /\ Own(fix, fix'.applied \cup fix'.validated)
    BY <2>1, <2>2, <2>3, EditedWizard
  <2> QED BY <1>1, <2>1, <2>4, WithinWizard
<1> QED BY <1>2, <1>3

\* All other keys and results leave the wizard alone or close it, and what they
\* start is not for it.
LEMMA OtherKeys ==
  ASSUME WizardInv,
         StartFetch \/ MoveCursor \/ Select \/ BatchApply \/ BatchAudit \/ OpenView \/ OpenSim \/ RunSim
           \/ OpenReplay \/ OpenHistory \/ ToggleHelp \/ Escape
  PROVE  WizardInv'
<1>1. UNCHANGED <<data, shown, epoch>>
  BY DEF StartFetch, MoveCursor, Select, BatchApply, BatchAudit, OpenView, OpenSim, RunSim, OpenReplay,
         OpenHistory, ToggleHelp, Escape, fetched
<1>2. fix' \in {fix, None}
  BY DEF StartFetch, MoveCursor, Select, BatchApply, BatchAudit, OpenView, OpenSim, RunSim, OpenReplay,
         OpenHistory, ToggleHelp, Escape, panes
<1>3. UNCHANGED inflight \/ \E kind \in {"fetch", "batch", "audit", "sim", "replay", "history"} :
                              \E id, about : Start(Result(kind, id, about))
  BY DEF StartFetch, MoveCursor, Select, BatchApply, BatchAudit, OpenView, OpenSim, RunSim, OpenReplay,
         OpenHistory, ToggleHelp, Escape
<1>4. \A r \in BagToSet(inflight') : r \in BagToSet(inflight) \/ ~ForWizard(r)
  <2>1. CASE UNCHANGED inflight
    BY <2>1
  <2>2. ASSUME NEW kind \in {"fetch", "batch", "audit", "sim", "replay", "history"}, NEW id, NEW about,
               Start(Result(kind, id, about))
        PROVE  \A r \in BagToSet(inflight') : r \in BagToSet(inflight) \/ ~ForWizard(r)
    <3>1. ~ForWizard(Result(kind, id, about))
      BY DEF Result, ForWizard
    <3> QED BY <2>2, <3>1, StartAdds
  <2> QED BY <1>3, <2>1, <2>2
<1> QED BY <1>1, <1>2, <1>4, Elsewhere

LEMMA OtherAnswers ==
  ASSUME WizardInv, NEW r,
         BatchAnswered(r) \/ SimAnswered(r) \/ ReplayAnswered(r) \/ AuditAnswered(r) \/ HistoryAnswered(r)
  PROVE  WizardInv'
<1>1. UNCHANGED <<data, shown, epoch, fix>> /\ Take(r)
  BY DEF BatchAnswered, SimAnswered, ReplayAnswered, AuditAnswered, HistoryAnswered, fetched, panes
<1> QED BY <1>1, TakeRemoves, Elsewhere

LEMMA NextWizard == WizardInv /\ [Next]_vars => WizardInv'
<1> SUFFICES ASSUME WizardInv, [Next]_vars PROVE WizardInv'
  OBVIOUS
<1>1. CASE StartFetch
  BY <1>1, OtherKeys
<1>2. CASE KeyPressed
  BY <1>2, RearrangeWizard, OpenFixWizard, MoveFixWizard, EnterFixWizard, DryRunWizard, OtherKeys DEF KeyPressed
<1>3. CASE SomeAnswer
  <2>1. PICK r \in BagToSet(inflight) : Answered(r)
    BY <1>3 DEF SomeAnswer
  <2> QED BY <2>1, FetchWizard, FixAnsweredWizard, OtherAnswers DEF Answered
<1>4. CASE UNCHANGED vars
  <2>1. UNCHANGED <<data, shown, epoch, fix, inflight>>
    BY <1>4 DEF vars, fetched, panes
  <2> QED BY <2>1, Elsewhere
<1> QED BY <1>1, <1>2, <1>3, <1>4 DEF Next

LEMMA WizardSafe == Spec => []WizardInv
BY InitWizard, NextWizard, PTL DEF Spec

\* The open wizard stays with the HPA it was opened for: whatever keys, results
\* and refreshes come (verifyAgainstCurrentData, refreshFixStateAfterFetch).
THEOREM WizardKeepsItsObject == Spec => []WizardFollowsData
<1>1. WizardInv => WizardFollowsData
  BY DEF WizardInv
<1> QED BY <1>1, WizardSafe, PTL

\* Outcomes shown by the wizard are its own: the epoch disowns all others,
\* however late they come (updateApplyResult, updateDryRunResult).
THEOREM OutcomesBelong == Spec => []OutcomeIsOwn
<1>1. WizardInv => OutcomeIsOwn
  BY DEF WizardInv
<1> QED BY <1>1, WizardSafe, PTL

-----------------------------------------------------------------------------
(* Confirmation *)

\* What is armed is what is shown, and the results to come are counted.
ConfirmInv ==
  /\ IsABag(inflight)
  /\ fix # None => fix.armed \subseteq {Shown(fix)}
  /\ PreviewIsCurrent

\* Only starting a command adds a result to come, and only its own.
LEMMA StartLeaves ==
  ASSUME IsABag(inflight), NEW x, Start(x)
  PROVE  IsABag(inflight') /\ \A r \in BagToSet(inflight') : Leaves(r) => r = x
<1>1. inflight' = BagAdd(inflight, x)
  BY DEF Start
<1> QED BY <1>1 DEF BagAdd, IsABag, BagToSet, Leaves

LEMMA TakeLeaves ==
  ASSUME IsABag(inflight), NEW x, Take(x)
  PROVE  IsABag(inflight') /\ \A r \in BagToSet(inflight') : ~Leaves(r)
<1>1. inflight' = BagRemove(inflight, x) /\ x \in DOMAIN inflight
  BY DEF Take, BagToSet
<1>2. CASE inflight[x] = 1
  <2>1. inflight' = [e \in DOMAIN inflight \ {x} |-> inflight[e]]
    BY <1>1, <1>2 DEF BagRemove
  <2> QED BY <2>1 DEF IsABag, BagToSet, Leaves
<1>3. CASE inflight[x] # 1
  <2>1. inflight' = [e \in DOMAIN inflight |-> IF e = x THEN inflight[e] - 1 ELSE inflight[e]]
    BY <1>1, <1>3 DEF BagRemove
  <2>2. inflight[x] - 1 \in {n \in Nat : n > 0} /\ inflight[x] - 1 < inflight[x]
    BY <1>1, <1>3 DEF IsABag
  <2> QED BY <2>1, <2>2 DEF IsABag, BagToSet, Leaves
<1> QED BY <1>2, <1>3

LEMMA NoneLeaves ==
  ASSUME IsABag(inflight), UNCHANGED inflight
  PROVE  IsABag(inflight') /\ \A r \in BagToSet(inflight') : ~Leaves(r)
BY DEF IsABag, BagToSet, Leaves

\* The preview is what would be collected now, as it was, or gone; and gone
\* after any step that changes what would be collected.
LEMMA PreviewChanges ==
  ASSUME [Next]_vars
  PROVE  preview' \in {{}, preview, Patches} /\ (UNCHANGED <<data, selected>> \/ preview' = {})
<1>1. CASE StartFetch
  BY <1>1 DEF StartFetch, fetched
<1>2. CASE MoveCursor \/ Rearrange \/ Select \/ BatchAudit \/ OpenView
  BY <1>2 DEF MoveCursor, Rearrange, Select, Disarm, BatchAudit, OpenView, fetched
<1>3. CASE BatchApply
  BY <1>3 DEF BatchApply, Disarm, fetched
<1>4. CASE OpenFix \/ MoveFix \/ EnterFix \/ DryRun
  BY <1>4 DEF OpenFix, MoveFix, EnterFix, DryRun, fetched
<1>5. CASE OpenSim \/ RunSim \/ OpenReplay \/ OpenHistory \/ ToggleHelp \/ Escape
  BY <1>5 DEF OpenSim, RunSim, OpenReplay, OpenHistory, ToggleHelp, Escape, fetched
<1>6. CASE SomeAnswer
  BY <1>6 DEF SomeAnswer, Answered, FetchAnswered, Disarm, FixAnswered, BatchAnswered, SimAnswered,
              ReplayAnswered, AuditAnswered, HistoryAnswered, fetched
<1>7. CASE UNCHANGED vars
  BY <1>7 DEF vars, fetched
<1> QED BY <1>1, <1>2, <1>3, <1>4, <1>5, <1>6, <1>7 DEF Next, KeyPressed

\* A key or refresh that changes what a batch would send takes the preview away.
LEMMA PreviewStays ==
  ASSUME PreviewIsCurrent, [Next]_vars
  PROVE  PreviewIsCurrent'
<1>1. UNCHANGED <<data, selected>> => Patches' = Patches
  BY DEF Patches, Present
<1> QED BY <1>1, PreviewChanges DEF PreviewIsCurrent

\* Whatever changes what the wizard shows disarms it.
LEMMA ArmedStays ==
  ASSUME WizardInv, ConfirmInv, [Next]_vars, fix' # None
  PROVE  fix'.armed \subseteq {Shown(fix')}
<1>1. CASE fix' = fix
  BY <1>1 DEF ConfirmInv
<1>2. CASE OpenFix
  BY <1>2 DEF OpenFix
<1>3. CASE MoveFix
  <2>1. fix # None /\ \E i : fix' = [fix EXCEPT !.at = i, !.armed = {}]
    BY <1>3 DEF MoveFix
  <2> QED BY <2>1, AllFields
<1>4. CASE EnterFix
  <2>1. fix # None
    BY <1>4 DEF EnterFix
  <2>2. CASE fix' = [fix EXCEPT !.armed = {}, !.applied = {}] \/ fix' = [fix EXCEPT !.armed = {}]
    BY <2>1, <2>2, AllFields
  <2>3. CASE fix' = [fix EXCEPT !.armed = {Shown(fix)}, !.applied = {}]
    <3>1. fix' = [name |-> fix.name, uid |-> fix.uid, fixes |-> fix.fixes, at |-> fix.at, armed |-> {Shown(fix)},
                  applied |-> {}, validated |-> fix.validated, validating |-> fix.validating]
      BY <2>1, <2>3, AllFields
    <3> QED BY <3>1 DEF Shown
  <2> QED BY <1>4, <2>2, <2>3 DEF EnterFix
<1>5. CASE DryRun
  <2>1. fix # None /\ \E e : fix' = [fix EXCEPT !.armed = {}, !.applied = {}, !.validated = {}, !.validating = e]
    BY <1>5 DEF DryRun
  <2> QED BY <2>1, AllFields
<1>6. ASSUME NEW r, FetchAnswered(r) PROVE fix'.armed = {}
  <2>1. fix # None /\ \/ fix' = [fix EXCEPT !.armed = {}]
                      \/ \E s, i : fix' = [fix EXCEPT !.fixes = s, !.at = i, !.armed = {}, !.applied = {},
                                                      !.validated = {}, !.validating = FALSE]
    <3>1. CASE FetchFailed
      BY <3>1 DEF FetchFailed
    <3>2. CASE \E d \in Listed : Fetched(d)
      BY <3>2 DEF Fetched, FixAfterFetch
    <3> QED BY <1>6, <3>1, <3>2 DEF FetchAnswered
  <2> QED BY <2>1, AllFields
<1>7. ASSUME NEW r, FixAnswered(r), fix' # fix PROVE fix'.armed = {}
  <2>1. fix # None /\ \/ fix' = [fix EXCEPT !.armed = {}, !.applied = r.about]
                      \/ fix' = [fix EXCEPT !.armed = {}, !.applied = {}, !.validated = r.about, !.validating = FALSE]
    BY <1>7 DEF FixAnswered, ForThisWizard
  <2> QED BY <2>1, AllFields
<1>8. CASE StartFetch \/ MoveCursor \/ Rearrange \/ Select \/ BatchApply \/ BatchAudit \/ OpenView \/ OpenSim
             \/ RunSim \/ OpenReplay \/ OpenHistory \/ ToggleHelp \/ Escape \/ UNCHANGED vars
  <2>1. fix' = fix
    BY <1>8 DEF StartFetch, MoveCursor, Rearrange, Select, BatchApply, BatchAudit, OpenView, OpenSim,
                RunSim, OpenReplay, OpenHistory, ToggleHelp, Escape, panes, vars
  <2> QED BY <1>1, <2>1
<1>9. CASE SomeAnswer
  <2>1. PICK r : Answered(r)
    BY <1>9 DEF SomeAnswer
  <2>2. CASE BatchAnswered(r) \/ SimAnswered(r) \/ ReplayAnswered(r) \/ AuditAnswered(r) \/ HistoryAnswered(r)
    <3>1. fix' = fix
      BY <2>2 DEF BatchAnswered, SimAnswered, ReplayAnswered, AuditAnswered, HistoryAnswered, panes
    <3> QED BY <1>1, <3>1
  <2> QED BY <1>1, <1>6, <1>7, <2>1, <2>2 DEF Answered
<1> QED BY <1>2, <1>3, <1>4, <1>5, <1>8, <1>9 DEF Next, KeyPressed

\* What a step starts, and why it may.
LEMMA StepSends ==
  ASSUME WizardInv, ConfirmInv, [Next]_vars
  PROVE  /\ IsABag(inflight')
         /\ \A r \in BagToSet(inflight') : Leaves(r) =>
              /\ r.kind = "apply" => live /\ fix # None /\ r.about = fix.armed
              /\ r.kind = "batch" => live /\ r.about = preview
<1>1. IsABag(inflight)
  BY DEF ConfirmInv
<1>2. CASE UNCHANGED inflight
  BY <1>1, <1>2, NoneLeaves
<1>3. CASE EnterFix
  <2>1. ASSUME ~UNCHANGED inflight
        PROVE  /\ live /\ fix # None /\ fix.armed # {} /\ SameObject(fix, data)
               /\ Start(Result("apply", epoch, {WizardTarget}))
    BY <1>3, <2>1 DEF EnterFix
  <2>2. ASSUME SameObject(fix, data)
        PROVE  WizardTarget = Shown(fix)
    BY <2>2 DEF WizardTarget, SameObject, Shown
  <2>3. ASSUME fix # None, fix.armed # {}
        PROVE  fix.armed = {Shown(fix)}
    BY <2>3 DEF ConfirmInv
  <2> QED BY <1>1, <1>2, <2>1, <2>2, <2>3, StartLeaves DEF Result
<1>4. CASE BatchApply
  <2>1. ASSUME ~UNCHANGED inflight
        PROVE  live /\ preview # {} /\ Start(Result("batch", 0, Patches))
    BY <1>4, <2>1 DEF BatchApply
  <2>2. preview # {} => preview = Patches
    BY DEF ConfirmInv, PreviewIsCurrent
  <2> QED BY <1>1, <1>2, <2>1, <2>2, StartLeaves DEF Result
<1>5. ASSUME NEW kind \in {"fetch", "dryrun", "sim", "audit", "replay", "history"}, NEW id, NEW about,
             Start(Result(kind, id, about))
      PROVE  /\ IsABag(inflight')
             /\ \A r \in BagToSet(inflight') : Leaves(r) => r.kind \notin {"apply", "batch"}
  <2>1. Result(kind, id, about).kind = kind
    BY DEF Result
  <2> QED BY <1>1, <1>5, <2>1, StartLeaves
<1>6. CASE StartFetch \/ BatchAudit \/ DryRun \/ RunSim \/ OpenReplay \/ OpenHistory
  <2>1. UNCHANGED inflight \/ \E kind \in {"fetch", "dryrun", "sim", "audit", "replay", "history"} :
                                \E id, about : Start(Result(kind, id, about))
    BY <1>6 DEF StartFetch, BatchAudit, DryRun, RunSim, OpenReplay, OpenHistory
  <2> QED BY <1>2, <1>5, <2>1
<1>7. CASE MoveCursor \/ Rearrange \/ Select \/ OpenView \/ OpenFix \/ MoveFix \/ OpenSim \/ ToggleHelp \/ Escape
             \/ UNCHANGED vars
  <2>1. UNCHANGED inflight
    BY <1>7 DEF MoveCursor, Rearrange, Select, OpenView, OpenFix, MoveFix, OpenSim, ToggleHelp, Escape, vars
  <2> QED BY <1>2, <2>1
<1>8. CASE SomeAnswer
  <2>1. PICK r : Answered(r)
    BY <1>8 DEF SomeAnswer
  <2>2. Take(r)
    BY <2>1 DEF Answered, FetchAnswered, FixAnswered, BatchAnswered, SimAnswered, ReplayAnswered,
                AuditAnswered, HistoryAnswered
  <2> QED BY <1>1, <2>2, TakeLeaves
<1> QED BY <1>3, <1>4, <1>6, <1>7, <1>8 DEF Next, KeyPressed

LEMMA ConfirmSafe == Spec => [](WizardInv /\ ConfirmInv)
<1>1. Init => ConfirmInv
  BY DEF Init, ConfirmInv, IsABag, SetToBag, PreviewIsCurrent
<1>2. ASSUME WizardInv /\ ConfirmInv, [Next]_vars PROVE ConfirmInv'
  BY <1>2, PreviewStays, ArmedStays, StepSends DEF ConfirmInv
<1> QED BY <1>1, <1>2, InitWizard, NextWizard, PTL DEF Spec

\* A batch preview on the screen is what the second key press would send.
THEOREM PreviewHolds == Spec => []PreviewIsCurrent
<1>1. ConfirmInv => PreviewIsCurrent
  BY DEF ConfirmInv
<1> QED BY <1>1, ConfirmSafe, PTL

\* Nothing is applied from the dashboard, singly or in a batch, that was not
\* shown and confirmed, nor without live apply (updateFixKey, applySelected).
THEOREM NothingUnconfirmed == Spec => ConfirmedOnly
<1>1. ASSUME WizardInv /\ ConfirmInv, [Next]_vars
      PROVE  \/ \A r \in BagToSet(inflight') : Leaves(r) =>
                  /\ r.kind = "apply" => live /\ fix # None /\ r.about = fix.armed
                  /\ r.kind = "batch" => live /\ r.about = preview
             \/ UNCHANGED vars
  BY <1>1, StepSends
<1> QED BY <1>1, ConfirmSafe, PTL DEF Spec, ConfirmedOnly

-----------------------------------------------------------------------------
(* Waiting *)

\* The audit and the replay as the records they are.
AuditShape == audit # None => audit = [of |-> audit.of, loading |-> audit.loading, reports |-> audit.reports]

ReplayShape == replay # None => replay = [loading |-> replay.loading]

WaitInv == AuditShape /\ ReplayShape /\ WaitingIsAnswered

\* What is started is to come, with all that was; what is taken alone is not.
LEMMA StartComes ==
  ASSUME NEW x, Start(x)
  PROVE  BagToSet(inflight') = BagToSet(inflight) \cup {x}
BY DEF Start, BagAdd, BagToSet

LEMMA TakeLeavesOthers ==
  ASSUME NEW x, Take(x)
  PROVE  \A r \in BagToSet(inflight) : r # x => r \in BagToSet(inflight')
BY DEF Take, BagRemove, BagToSet

\* The three waits one by one: the refresh that runs, the audit and the replay.
FetchComes == loading => \E r \in BagToSet(inflight) : r.kind = "fetch" /\ r.id = request
AuditComes == audit # None /\ audit.loading => Coming("audit")
ReplayComes == replay # None /\ replay.loading => Coming("replay")

\* An answer of one kind ends the wait for it and for nothing else.
LEMMA AnswersWaited ==
  ASSUME WaitInv, NEW r, Answered(r)
  PROVE  WaitInv'
<1>1. Take(r) /\ \A x \in BagToSet(inflight) : x # r => x \in BagToSet(inflight')
  <2>1. Take(r)
    BY DEF Answered, FetchAnswered, FixAnswered, BatchAnswered, SimAnswered, ReplayAnswered, AuditAnswered, HistoryAnswered
  <2> QED BY <2>1, TakeLeavesOthers
<1>2. FetchComes /\ AuditComes /\ ReplayComes /\ AuditShape /\ ReplayShape
  BY DEF WaitInv, WaitingIsAnswered, FetchComes, AuditComes, ReplayComes
<1>3. (loading' = FALSE \/ (loading' = loading /\ r.kind # "fetch")) /\ request' = request
  BY DEF Answered, FetchAnswered, FixAnswered, BatchAnswered, SimAnswered, ReplayAnswered, AuditAnswered, HistoryAnswered
<1>4. \/ audit' = audit /\ (r.kind # "audit" \/ audit = None)
      \/ audit # None /\ \E got : audit' = [audit EXCEPT !.loading = FALSE, !.reports = got]
  BY DEF Answered, FetchAnswered, FixAnswered, BatchAnswered, SimAnswered, ReplayAnswered, AuditAnswered, HistoryAnswered, panes
<1>5. \/ replay' = replay /\ (r.kind # "replay" \/ replay = None)
      \/ replay # None /\ replay' = [replay EXCEPT !.loading = FALSE]
  BY DEF Answered, FetchAnswered, FixAnswered, BatchAnswered, SimAnswered, ReplayAnswered, AuditAnswered, HistoryAnswered, panes
<1>6. FetchComes'
  BY <1>1, <1>2, <1>3 DEF FetchComes
<1>7. AuditComes' /\ AuditShape'
  <2>1. CASE audit' = audit /\ (r.kind # "audit" \/ audit = None)
    BY <1>1, <1>2, <2>1 DEF AuditComes, AuditShape, Coming
  <2>2. ASSUME audit # None, NEW got, audit' = [audit EXCEPT !.loading = FALSE, !.reports = got]
        PROVE  AuditComes' /\ AuditShape'
    <3>1. audit' = [of |-> audit.of, loading |-> FALSE, reports |-> got]
      BY <1>2, <2>2 DEF AuditShape
    <3> QED BY <3>1 DEF AuditComes, AuditShape
  <2> QED BY <1>4, <2>1, <2>2
<1>8. ReplayComes' /\ ReplayShape'
  <2>1. CASE replay' = replay /\ (r.kind # "replay" \/ replay = None)
    BY <1>1, <1>2, <2>1 DEF ReplayComes, ReplayShape, Coming
  <2>2. CASE replay # None /\ replay' = [replay EXCEPT !.loading = FALSE]
    <3>1. replay' = [loading |-> FALSE]
      BY <1>2, <2>2 DEF ReplayShape
    <3> QED BY <3>1 DEF ReplayComes, ReplayShape
  <2> QED BY <1>5, <2>1, <2>2
<1> QED BY <1>6, <1>7, <1>8 DEF WaitInv, WaitingIsAnswered, FetchComes, AuditComes, ReplayComes

\* A key that waits for an answer starts the command that brings it.
LEMMA KeysWaited ==
  ASSUME WaitInv, StartFetch \/ KeyPressed \/ UNCHANGED vars
  PROVE  WaitInv'
<1>1. FetchComes /\ AuditComes /\ ReplayComes /\ AuditShape /\ ReplayShape
  BY DEF WaitInv, WaitingIsAnswered, FetchComes, AuditComes, ReplayComes
<1>2. CASE StartFetch
  <2>1. /\ BagToSet(inflight') = BagToSet(inflight) \cup {Result("fetch", request', {})}
        /\ UNCHANGED <<audit, replay>>
    BY <1>2, StartComes DEF StartFetch, panes
  <2>2. Result("fetch", request', {}).kind = "fetch" /\ Result("fetch", request', {}).id = request'
    BY DEF Result
  <2>3. FetchComes'
    BY <2>1, <2>2 DEF FetchComes
  <2> QED BY <1>1, <2>1, <2>3 DEF WaitInv, WaitingIsAnswered, FetchComes, AuditComes, ReplayComes,
                                  AuditShape, ReplayShape, Coming
<1>3. CASE BatchAudit
  <2>1. PICK chosen : /\ audit' = [of |-> chosen, loading |-> TRUE, reports |-> {}]
                      /\ Start(Result("audit", 0, chosen)) /\ UNCHANGED <<loading, request, replay>>
    BY <1>3 DEF BatchAudit
  <2>2. BagToSet(inflight') = BagToSet(inflight) \cup {Result("audit", 0, chosen)}
    BY <2>1, StartComes
  <2>3. Result("audit", 0, chosen).kind = "audit"
    BY DEF Result
  <2>4. AuditComes' /\ AuditShape'
    BY <2>1, <2>2, <2>3 DEF AuditComes, AuditShape, Coming
  <2> QED BY <1>1, <2>1, <2>2, <2>4 DEF WaitInv, WaitingIsAnswered, FetchComes, AuditComes, ReplayComes,
                                        ReplayShape, Coming
<1>4. CASE OpenReplay
  <2>1. /\ replay' = [loading |-> TRUE] /\ UNCHANGED <<loading, request, audit>>
        /\ BagToSet(inflight') = BagToSet(inflight) \cup {Result("replay", 0, {})}
    BY <1>4, StartComes DEF OpenReplay
  <2>2. Result("replay", 0, {}).kind = "replay"
    BY DEF Result
  <2>3. ReplayComes' /\ ReplayShape'
    BY <2>1, <2>2 DEF ReplayComes, ReplayShape, Coming
  <2> QED BY <1>1, <2>1, <2>3 DEF WaitInv, WaitingIsAnswered, FetchComes, AuditComes, ReplayComes,
                                  AuditShape, Coming
<1>5. CASE ~(StartFetch \/ BatchAudit \/ OpenReplay)
  <2>1. UNCHANGED <<loading, request>> /\ audit' \in {audit, None} /\ replay' \in {replay, None}
    BY <1>5 DEF KeyPressed, MoveCursor, Rearrange, Select, BatchApply, OpenView, OpenFix, MoveFix, EnterFix,
                DryRun, OpenSim, RunSim, OpenHistory, ToggleHelp, Escape, panes, vars
  <2>2. BagToSet(inflight) \subseteq BagToSet(inflight')
    <3>1. UNCHANGED inflight \/ \E x : Start(x)
      BY <1>5 DEF KeyPressed, MoveCursor, Rearrange, Select, BatchApply, OpenView, OpenFix, MoveFix, EnterFix,
                  DryRun, OpenSim, RunSim, OpenHistory, ToggleHelp, Escape, vars
    <3> QED BY <3>1, StartComes
  <2> QED BY <1>1, <2>1, <2>2 DEF WaitInv, WaitingIsAnswered, FetchComes, AuditComes, ReplayComes,
                                  AuditShape, ReplayShape, Coming
<1> QED BY <1>2, <1>3, <1>4, <1>5

\* Whatever says it is loading has an answer to come, through every view and
\* however many commands run at once (updateFetchResult, updateAuditResult).
THEOREM WaitsAreAnswered == Spec => []WaitingIsAnswered
<1>1. Init => WaitInv
  BY DEF Init, WaitInv, AuditShape, ReplayShape, WaitingIsAnswered, SetToBag, BagToSet, Result
<1>2. ASSUME WaitInv, [Next]_vars PROVE WaitInv'
  BY <1>2, KeysWaited, AnswersWaited DEF Next, SomeAnswer
<1>3. WaitInv => WaitingIsAnswered
  BY DEF WaitInv
<1> QED BY <1>1, <1>2, <1>3, PTL DEF Spec
-----------------------------------------------------------------------------
(* Types *)

\* TypeOK part by part; each pane's record with exactly its fields.
DataOK ==
  /\ data \in [Names -> {None} \cup [uid : 1 .. MaxBirths, fixes : Lists]]
  /\ born \in [Names -> 0 .. MaxBirths] /\ selected \in [Names -> 0 .. MaxBirths]

RowsOK ==
  /\ shown \in Seq(Names)
  /\ \A i \in DOMAIN shown : data[shown[i]] # None /\ \A j \in 1 .. i - 1 : shown[j] # shown[i]
  /\ cursor \in 1 .. (IF shown = <<>> THEN 1 ELSE Len(shown))

FlagsOK ==
  /\ live \in BOOLEAN /\ focused \in BOOLEAN /\ loading \in BOOLEAN
  /\ view \in Views /\ under \in Views \ {"help"}
  /\ request \in Nat /\ epoch \in Nat

\* What the wizard holds beyond what WizardInv says of it.
FixOK ==
  fix # None => /\ fix.at \in DOMAIN fix.fixes /\ fix.validating \in BOOLEAN
                /\ fix.armed \subseteq Targets /\ fix.applied \subseteq Targets /\ fix.validated \subseteq Targets

SimOK == sim # None => /\ sim = [of |-> sim.of, result |-> sim.result]
                       /\ sim.of \in Targets /\ sim.result \subseteq Targets

ReplayOK == replay # None => replay = [loading |-> replay.loading] /\ replay.loading \in BOOLEAN

AuditOK ==
  audit # None => /\ audit = [of |-> audit.of, loading |-> audit.loading, reports |-> audit.reports]
                  /\ audit.loading \in BOOLEAN /\ audit.of \subseteq Targets /\ audit.reports \subseteq Targets

HistoryOK ==
  history # None => /\ history = [of |-> history.of, loading |-> history.loading]
                    /\ history.of \in Names \cup {None} /\ history.loading \in BOOLEAN

SentOK == preview \subseteq Targets /\ IsABag(inflight) /\ BagToSet(inflight) \subseteq Results

TypeInv ==
  /\ WizardInv /\ DataOK /\ RowsOK /\ FlagsOK
  /\ FixOK /\ SimOK /\ ReplayOK /\ AuditOK /\ HistoryOK /\ SentOK

-----------------------------------------------------------------------------
\* Rows chosen among finitely many HPAs are a list without repetition.
LEMMA RowsListed ==
  ASSUME NEW S \in SUBSET Names, NEW rows \in Orders(S)
  PROVE  rows \in Seq(S) /\ \A i \in DOMAIN rows : \A j \in 1 .. i - 1 : rows[j] # rows[i]
<1>1. PICK T \in SUBSET S : /\ rows \in [1 .. Cardinality(T) -> T]
                            /\ \A i, j \in DOMAIN rows : rows[i] = rows[j] => i = j
  BY DEF Orders
<1>2. Cardinality(T) \in Nat
  BY TuiAssumption, FS_Subset, FS_CardinalityType DEF TuiAssumption
<1> DEFINE n == Cardinality(T)
<1> HIDE DEF n
<1>3. n \in Nat /\ rows \in [1 .. n -> T] /\ \A i, j \in DOMAIN rows : rows[i] = rows[j] => i = j
  BY <1>1, <1>2 DEF n
<1>4. rows \in [1 .. n -> S]
  BY <1>3
<1>5. rows \in Seq(S)
  BY <1>3, <1>4
<1>6. ASSUME NEW i \in DOMAIN rows, NEW j \in 1 .. i - 1 PROVE rows[j] # rows[i]
  <2>1. i \in 1 .. n /\ j \in 1 .. n /\ j # i
    BY <1>3
  <2> QED BY <1>3, <2>1
<1> QED BY <1>5, <1>6

\* What a command or a wizard is about has the type of a target.
LEMMA AboutTyped ==
  ASSUME DataOK, NEW n \in Names, data[n] # None
  PROVE  About(n) \in Targets /\ data[n].uid \in 1 .. MaxBirths /\ data[n].fixes \in Lists
<1>1. data[n] \in [uid : 1 .. MaxBirths, fixes : Lists]
  BY DEF DataOK
<1> QED BY <1>1 DEF About, Targets

LEMMA PatchesTyped ==
  ASSUME DataOK
  PROVE  Patches \subseteq Targets
<1> SUFFICES ASSUME NEW n \in Names, data[n] # None, NEW i \in DOMAIN data[n].fixes
             PROVE  [name |-> n, uid |-> data[n].uid, fixes |-> data[n].fixes, fix |-> data[n].fixes[i]] \in Targets
  BY DEF Patches, Present
<1>1. data[n].uid \in Nat /\ data[n].fixes \in Lists /\ data[n].fixes \in Seq(Suggestions)
  BY AboutTyped, TuiAssumption DEF TuiAssumption
<1>2. data[n].fixes[i] \in Suggestions
  BY <1>1
<1> QED BY <1>1, <1>2 DEF Targets

LEMMA ShownTyped ==
  ASSUME WizardInv, DataOK, FixOK, fix # None
  PROVE  Shown(fix) \in Targets /\ fix.fixes \in Lists /\ fix.fixes \in Seq(Suggestions)
<1>1. fix.name \in Names /\ data[fix.name] # None /\ data[fix.name].uid = fix.uid /\ data[fix.name].fixes = fix.fixes
  BY DEF WizardInv, WizardShape, WizardFollowsData
<1>2. fix.uid \in Nat /\ fix.fixes \in Lists /\ fix.fixes \in Seq(Suggestions)
  BY <1>1, AboutTyped, TuiAssumption DEF TuiAssumption
<1>3. fix.fixes[fix.at] \in Suggestions
  BY <1>2 DEF FixOK
<1> QED BY <1>1, <1>2, <1>3 DEF Shown, Targets

LEMMA CurrentFetched ==
  ASSUME WizardInv, Current # None
  PROVE  Current \in Names /\ data[Current] # None
BY DEF WizardInv, RowsFetched, Current

-----------------------------------------------------------------------------
\* Each part is kept by every step, given the parts it rests on.
LEMMA FlagsStay ==
  ASSUME FlagsOK, [Next]_vars
  PROVE  FlagsOK'
<1>1. CASE StartFetch
  BY <1>1 DEF FlagsOK, StartFetch, fetched
<1>2. CASE MoveCursor \/ Rearrange \/ Select \/ BatchApply \/ BatchAudit \/ OpenView
  BY <1>2 DEF FlagsOK, Views, MoveCursor, Rearrange, Select, BatchApply, BatchAudit, OpenView, fetched
<1>3. CASE OpenFix \/ MoveFix \/ EnterFix \/ DryRun
  BY <1>3 DEF FlagsOK, Views, OpenFix, MoveFix, EnterFix, DryRun, fetched
<1>4. CASE OpenSim \/ RunSim \/ OpenReplay \/ OpenHistory
  BY <1>4 DEF FlagsOK, Views, OpenSim, RunSim, OpenReplay, OpenHistory, fetched
<1>5. CASE ToggleHelp \/ Escape
  BY <1>5 DEF FlagsOK, Views, ToggleHelp, Escape, fetched
<1>6. ASSUME NEW r, FetchAnswered(r) PROVE FlagsOK'
  <2>1. UNCHANGED <<live, under, request>> /\ loading' = FALSE /\ epoch' = epoch + 1
    BY <1>6 DEF FetchAnswered
  <2>2. focused' \in {focused, TRUE} /\ view' \in {view, "detail", "list"}
    <3>1. CASE FetchFailed
      BY <3>1 DEF FetchFailed, fetched
    <3>2. ASSUME NEW d \in Listed, Fetched(d) PROVE focused' = TRUE /\ view' \in {view, "detail", "list"}
      BY <3>2 DEF Fetched
    <3> QED BY <1>6, <3>1, <3>2 DEF FetchAnswered
  <2>3. live' \in BOOLEAN /\ focused' \in BOOLEAN /\ loading' \in BOOLEAN
    BY <2>1, <2>2 DEF FlagsOK
  <2>4. view' \in Views /\ under' \in Views \ {"help"}
    BY <2>1, <2>2 DEF FlagsOK, Views
  <2>5. request' \in Nat /\ epoch' \in Nat
    BY <2>1 DEF FlagsOK
  <2> QED BY <2>3, <2>4, <2>5 DEF FlagsOK
<1>7. ASSUME NEW r, Answered(r), ~FetchAnswered(r) PROVE FlagsOK'
  BY <1>7 DEF FlagsOK, Answered, FixAnswered, BatchAnswered, SimAnswered, ReplayAnswered, AuditAnswered,
              HistoryAnswered, fetched
<1>8. CASE UNCHANGED vars
  BY <1>8 DEF FlagsOK, vars, fetched
<1> QED BY <1>1, <1>2, <1>3, <1>4, <1>5, <1>6, <1>7, <1>8 DEF Next, KeyPressed, SomeAnswer

\* A refresh is the only step that changes what was fetched.
LEMMA RefreshTyped ==
  ASSUME DataOK, RowsOK, NEW d \in Listed, Fetched(d)
  PROVE  DataOK' /\ RowsOK'
<1>1. /\ data' = d /\ d \in [Names -> {None} \cup [uid : 1 .. MaxBirths, fixes : Lists]]
      /\ born' = [n \in Names |-> IF d[n] = None THEN born[n] ELSE d[n].uid]
      /\ selected' = [n \in Names |-> IF d[n] = None THEN 0 ELSE selected[n]]
      /\ shown' \in Orders(Present(d))
      /\ \/ cursor' \in DOMAIN shown' \cup (IF shown' = <<>> THEN {1} ELSE {})
         \/ cursor' = IF shown' = <<>> THEN 1 ELSE IF cursor > Len(shown') THEN Len(shown') ELSE cursor
  BY DEF Fetched, Listed
<1>2. MaxBirths \in Nat
  BY TuiAssumption DEF TuiAssumption
<1>3. \A n \in Names : d[n] # None => d[n].uid \in 1 .. MaxBirths
  <2> SUFFICES ASSUME NEW n \in Names, d[n] # None PROVE d[n].uid \in 1 .. MaxBirths
    OBVIOUS
  <2>1. d[n] \in [uid : 1 .. MaxBirths, fixes : Lists]
    BY <1>1
  <2> QED BY <2>1
<1>4. DataOK'
  BY <1>1, <1>2, <1>3 DEF DataOK
<1>5. Present(d) \in SUBSET Names
  BY DEF Present
<1>6. shown' \in Seq(Present(d)) /\ \A i \in DOMAIN shown' : \A j \in 1 .. i - 1 : shown'[j] # shown'[i]
  BY <1>1, <1>5, RowsListed
<1>7. shown' \in Seq(Names) /\ \A i \in DOMAIN shown' : data'[shown'[i]] # None
  BY <1>1, <1>6 DEF Present
<1>8. cursor' \in 1 .. (IF shown' = <<>> THEN 1 ELSE Len(shown'))
  <2>1. cursor \in Nat /\ cursor >= 1
    BY DEF RowsOK
  <2>2. shown' # <<>> => Len(shown') \in Nat /\ Len(shown') >= 1
    BY <1>7
  <2>3. DOMAIN shown' = 1 .. Len(shown')
    BY <1>7
  <2>4. shown' = <<>> => DOMAIN shown' = {}
    OBVIOUS
  <2>5. CASE shown' = <<>>
    BY <1>1, <2>4, <2>5
  <2>6. CASE shown' # <<>>
    BY <1>1, <2>1, <2>2, <2>3, <2>6
  <2> QED BY <2>5, <2>6
<1> QED BY <1>4, <1>6, <1>7, <1>8 DEF RowsOK

LEMMA DataStays ==
  ASSUME WizardInv, DataOK, RowsOK, [Next]_vars
  PROVE  DataOK' /\ RowsOK'
<1>1. CASE MoveCursor
  <2>1. cursor' \in DOMAIN shown /\ UNCHANGED <<data, born, selected, shown>>
    BY <1>1 DEF MoveCursor
  <2>2. cursor' \in 1 .. Len(shown) /\ shown # <<>>
    BY <2>1 DEF RowsOK
  <2> QED BY <2>1, <2>2 DEF DataOK, RowsOK
<1>2. CASE Rearrange
  <2>1. shown' \in Orders(Present(data)) /\ cursor' = 1 /\ UNCHANGED <<data, born, selected>>
    BY <1>2 DEF Rearrange
  <2>2. Present(data) \in SUBSET Names
    BY DEF Present
  <2>3. shown' \in Seq(Present(data)) /\ \A i \in DOMAIN shown' : \A j \in 1 .. i - 1 : shown'[j] # shown'[i]
    BY <2>1, <2>2, RowsListed
  <2>4. shown' \in Seq(Names) /\ \A i \in DOMAIN shown' : data[shown'[i]] # None
    BY <2>3 DEF Present
  <2>5. shown' # <<>> => Len(shown') \in Nat /\ Len(shown') >= 1
    BY <2>4
  <2> QED BY <2>1, <2>3, <2>4, <2>5 DEF DataOK, RowsOK
<1>3. CASE Select
  <2>1. UNCHANGED <<data, born, shown, cursor>>
    BY <1>3 DEF Select, fetched
  <2>2. selected' \in [Names -> 0 .. MaxBirths]
    <3>1. \A n \in Names : data[n] # None => data[n].uid \in 0 .. MaxBirths
      <4>1. \A n \in Names : data[n] # None => data[n].uid \in 1 .. MaxBirths
        BY AboutTyped
      <4> QED BY <4>1, TuiAssumption DEF TuiAssumption
    <3>2. 0 \in 0 .. MaxBirths
      BY TuiAssumption DEF TuiAssumption
    <3>3. ASSUME Current # None,
                 selected' = [selected EXCEPT ![Current] = IF @ = 0 THEN data[Current].uid ELSE 0]
          PROVE  selected' \in [Names -> 0 .. MaxBirths]
      <4>1. Current \in Names /\ data[Current] # None
        BY <3>3, CurrentFetched
      <4> QED BY <3>1, <3>2, <3>3, <4>1 DEF DataOK
    <3>4. ASSUME selected' = [n \in Names |-> IF selected[n] = 0 /\ \E i \in DOMAIN shown : shown[i] = n
                                                THEN data[n].uid ELSE selected[n]]
          PROVE  selected' \in [Names -> 0 .. MaxBirths]
      BY <3>1, <3>4 DEF DataOK, RowsOK
    <3> QED BY <1>3, <3>2, <3>3, <3>4 DEF Select
  <2> QED BY <2>1, <2>2 DEF DataOK, RowsOK
<1>4. ASSUME NEW r, FetchAnswered(r) PROVE DataOK' /\ RowsOK'
  <2>1. CASE FetchFailed
    BY <2>1 DEF FetchFailed, fetched, DataOK, RowsOK
  <2> QED BY <1>4, <2>1, RefreshTyped DEF FetchAnswered
<1>5. CASE UNCHANGED <<data, born, shown, cursor, selected>>
  BY <1>5 DEF DataOK, RowsOK
<1>6. StartFetch \/ BatchApply \/ BatchAudit \/ OpenView \/ OpenFix \/ MoveFix \/ EnterFix \/ DryRun \/ OpenSim \/ RunSim
        \/ OpenReplay \/ OpenHistory \/ ToggleHelp \/ Escape \/ UNCHANGED vars
      => UNCHANGED <<data, born, shown, cursor, selected>>
  BY DEF StartFetch, BatchApply, BatchAudit, OpenView, OpenFix, MoveFix, EnterFix, DryRun, OpenSim, RunSim,
         OpenReplay, OpenHistory, ToggleHelp, Escape, fetched, vars
<1>7. ASSUME NEW r, Answered(r), ~FetchAnswered(r) PROVE UNCHANGED <<data, born, shown, cursor, selected>>
  BY <1>7 DEF Answered, FixAnswered, BatchAnswered, SimAnswered, ReplayAnswered, AuditAnswered,
              HistoryAnswered, fetched
<1> QED BY <1>1, <1>2, <1>3, <1>4, <1>5, <1>6, <1>7 DEF Next, KeyPressed, SomeAnswer

\* The suggestions chosen, armed and reported on are those of a list.
LEMMA FixTyped ==
  ASSUME NEW name, NEW uid, NEW fixes, NEW at, NEW armed, NEW applied, NEW validated, NEW validating,
         fix' = [name |-> name, uid |-> uid, fixes |-> fixes, at |-> at, armed |-> armed,
                 applied |-> applied, validated |-> validated, validating |-> validating],
         at \in DOMAIN fixes, validating \in BOOLEAN,
         armed \subseteq Targets, applied \subseteq Targets, validated \subseteq Targets
  PROVE  FixOK'
<1>1. /\ fix'.at \in DOMAIN fix'.fixes /\ fix'.validating \in BOOLEAN
      /\ fix'.armed \subseteq Targets /\ fix'.applied \subseteq Targets /\ fix'.validated \subseteq Targets
  OBVIOUS
<1> QED BY <1>1 DEF FixOK

LEMMA FixStays ==
  ASSUME WizardInv, DataOK, FixOK, SentOK, [Next]_vars
  PROVE  FixOK'
<1>1. CASE fix' \in {fix, None}
  BY <1>1 DEF FixOK
<1>2. CASE OpenFix
  <2>1. Current # None /\ data[Current].fixes # <<>>
    BY <1>2 DEF OpenFix
  <2>2. data[Current].fixes \in Seq(Suggestions)
    BY <2>1, CurrentFetched, AboutTyped, TuiAssumption DEF TuiAssumption
  <2>3. 1 \in DOMAIN data[Current].fixes
    BY <2>1, <2>2
  <2>4. fix' = [name |-> Current, uid |-> data[Current].uid, fixes |-> data[Current].fixes, at |-> 1,
                armed |-> {}, applied |-> {}, validated |-> {}, validating |-> FALSE]
    BY <1>2 DEF OpenFix
  <2>5. PICK e \in BOOLEAN :
          fix' = [name |-> Current, uid |-> data[Current].uid, fixes |-> data[Current].fixes, at |-> 1,
                  armed |-> {}, applied |-> {}, validated |-> {}, validating |-> e]
    BY <2>4
  <2> QED BY <2>3, <2>5, FixTyped
<1>3. CASE MoveFix
  <2>1. PICK i : fix # None /\ fix' = [fix EXCEPT !.at = Clamped(i), !.armed = {}]
    BY <1>3 DEF MoveFix
  <2>2. Clamped(i) \in DOMAIN fix.fixes
    BY <2>1 DEF Clamped, FixOK
  <2> DEFINE at == Clamped(i)
  <2> HIDE DEF at
  <2>3. at \in DOMAIN fix.fixes /\ fix' = [fix EXCEPT !.at = at, !.armed = {}]
    BY <2>1, <2>2 DEF at
  <2>4. fix' = [name |-> fix.name, uid |-> fix.uid, fixes |-> fix.fixes, at |-> at, armed |-> {},
                applied |-> fix.applied, validated |-> fix.validated, validating |-> fix.validating]
    BY <2>1, <2>3, AllFields
  <2> QED BY <2>1, <2>3, <2>4, FixTyped DEF FixOK
<1>4. CASE EnterFix
  <2>1. fix # None
    BY <1>4 DEF EnterFix
  <2>2. {Shown(fix)} \subseteq Targets
    BY <2>1, ShownTyped
  <2> DEFINE now == {Shown(fix)}
  <2> HIDE DEF now
  <2>3. PICK b \in {{}, now} : \/ fix' = [fix EXCEPT !.armed = b, !.applied = {}]
                               \/ fix' = [fix EXCEPT !.armed = b]
    BY <1>4 DEF EnterFix, now
  <2>4. PICK c \in {{}, fix.applied} :
          fix' = [name |-> fix.name, uid |-> fix.uid, fixes |-> fix.fixes, at |-> fix.at, armed |-> b,
                  applied |-> c, validated |-> fix.validated, validating |-> fix.validating]
    BY <2>1, <2>3, AllFields
  <2>5. b \subseteq Targets
    BY <2>2 DEF now
  <2> QED BY <2>1, <2>4, <2>5, FixTyped DEF FixOK
<1>5. CASE DryRun
  <2>1. PICK e \in BOOLEAN :
          fix # None /\ fix' = [fix EXCEPT !.armed = {}, !.applied = {}, !.validated = {}, !.validating = e]
    BY <1>5 DEF DryRun
  <2>2. fix' = [name |-> fix.name, uid |-> fix.uid, fixes |-> fix.fixes, at |-> fix.at, armed |-> {},
                applied |-> {}, validated |-> {}, validating |-> e]
    BY <2>1, AllFields
  <2> QED BY <2>1, <2>2, FixTyped DEF FixOK
<1>6. ASSUME NEW r, FetchAnswered(r), fix' # None PROVE FixOK'
  <2>1. CASE FetchFailed
    <3>1. fix # None /\ fix' = [fix EXCEPT !.armed = {}]
      BY <1>6, <2>1 DEF FetchFailed
    <3>2. fix' = [name |-> fix.name, uid |-> fix.uid, fixes |-> fix.fixes, at |-> fix.at, armed |-> {},
                  applied |-> fix.applied, validated |-> fix.validated, validating |-> fix.validating]
      BY <3>1, AllFields
    <3> QED BY <3>1, <3>2, FixTyped DEF FixOK
  <2>2. ASSUME NEW d \in Listed, Fetched(d) PROVE FixOK'
    <3> DEFINE fixes == d[fix.name].fixes
               at == Choice(fix.at, fixes)
    <3>1. fix # None /\ SameObject(fix, d) /\ fixes # <<>> /\ fix' = FixAfterFetch(d)
      BY <1>6, <2>2 DEF Fetched, FixAfterFetch
    <3>2. fixes \in Seq(Suggestions)
      <4>1. fix.name \in Names /\ d[fix.name] # None
        BY <3>1 DEF WizardInv, WizardShape, SameObject
      <4>2. d \in [Names -> {None} \cup [uid : 1 .. MaxBirths, fixes : Lists]]
        BY DEF Listed
      <4>3. d[fix.name] \in [uid : 1 .. MaxBirths, fixes : Lists]
        BY <4>1, <4>2
      <4> QED BY <4>3, TuiAssumption DEF TuiAssumption
    <3>3. fix.at \in Nat /\ fix.at >= 1
      BY <3>1, ShownTyped DEF FixOK
    <3>4. fix' = [fix EXCEPT !.fixes = fixes, !.at = at,
                             !.armed = {}, !.applied = {}, !.validated = {}, !.validating = FALSE]
      BY <3>1 DEF FixAfterFetch
    <3> HIDE DEF fixes
    <3>5. at \in DOMAIN fixes
      BY <3>1, <3>2, <3>3 DEF Choice
    <3> HIDE DEF at
    <3>6. fix' = [name |-> fix.name, uid |-> fix.uid, fixes |-> fixes, at |-> at, armed |-> {},
                  applied |-> {}, validated |-> {}, validating |-> FALSE]
      BY <3>1, <3>4, AllFields
    <3>7. PICK e \in BOOLEAN :
            fix' = [name |-> fix.name, uid |-> fix.uid, fixes |-> fixes, at |-> at, armed |-> {},
                    applied |-> {}, validated |-> {}, validating |-> e]
      BY <3>6
    <3> QED BY <3>5, <3>7, FixTyped
  <2> QED BY <1>6, <2>1, <2>2 DEF FetchAnswered
<1>7. ASSUME NEW r \in BagToSet(inflight), FixAnswered(r), fix' # fix PROVE FixOK'
  <2>1. fix # None /\ \/ fix' = [fix EXCEPT !.armed = {}, !.applied = r.about]
                      \/ fix' = [fix EXCEPT !.armed = {}, !.applied = {}, !.validated = r.about, !.validating = FALSE]
    BY <1>7 DEF FixAnswered, ForThisWizard
  <2>2. r.about \subseteq Targets
    BY <1>7 DEF SentOK, Results
  <2>3. PICK c \in {{}, r.about}, v \in {fix.validated, r.about}, e \in {FALSE, fix.validating} :
          fix' = [name |-> fix.name, uid |-> fix.uid, fixes |-> fix.fixes, at |-> fix.at, armed |-> {},
                  applied |-> c, validated |-> v, validating |-> e]
    BY <2>1, AllFields
  <2>4. /\ fix.at \in DOMAIN fix.fixes /\ e \in BOOLEAN /\ {} \subseteq Targets
        /\ c \subseteq Targets /\ v \subseteq Targets
    BY <2>1, <2>2 DEF FixOK
  <2> QED BY <2>3, <2>4, FixTyped
<1>8. StartFetch \/ MoveCursor \/ Rearrange \/ Select \/ BatchApply \/ BatchAudit \/ OpenView \/ OpenSim \/ RunSim
        \/ OpenReplay \/ OpenHistory \/ ToggleHelp \/ Escape \/ UNCHANGED vars
      => fix' \in {fix, None}
  BY DEF StartFetch, MoveCursor, Rearrange, Select, BatchApply, BatchAudit, OpenView, OpenSim, RunSim,
         OpenReplay, OpenHistory, ToggleHelp, Escape, panes, vars
<1>9. ASSUME NEW r, BatchAnswered(r) \/ SimAnswered(r) \/ ReplayAnswered(r) \/ AuditAnswered(r) \/ HistoryAnswered(r)
      PROVE  fix' = fix
  BY <1>9 DEF BatchAnswered, SimAnswered, ReplayAnswered, AuditAnswered, HistoryAnswered, panes
<1> QED BY <1>1, <1>2, <1>3, <1>4, <1>5, <1>6, <1>7, <1>8, <1>9 DEF Next, KeyPressed, SomeAnswer, Answered

-----------------------------------------------------------------------------
\* The panes: opened with what is fetched, completed by what was sent.
LEMMA SimStays ==
  ASSUME WizardInv, DataOK, SimOK, SentOK, [Next]_vars
  PROVE  SimOK'
<1>1. CASE sim' \in {sim, None}
  BY <1>1 DEF SimOK
<1>2. CASE OpenSim
  <2>1. sim' = [of |-> About(Current), result |-> {}] /\ Current # None
    BY <1>2 DEF OpenSim
  <2>2. About(Current) \in Targets
    BY <2>1, CurrentFetched, AboutTyped
  <2> QED BY <2>1, <2>2 DEF SimOK
<1>3. ASSUME NEW r \in BagToSet(inflight), SimAnswered(r), sim # None PROVE SimOK'
  <2>1. sim = [of |-> sim.of, result |-> sim.result] /\ sim.of \in Targets /\ r.about \subseteq Targets
    BY <1>3 DEF SimOK, SentOK, Results
  <2>2. sim' = [sim EXCEPT !.result = r.about]
    BY <1>3 DEF SimAnswered
  <2>3. sim' = [of |-> sim.of, result |-> r.about]
    BY <2>1, <2>2
  <2> QED BY <2>1, <2>3 DEF SimOK
<1>4. ~OpenSim /\ ~SomeAnswer => sim' \in {sim, None}
  BY DEF Next, KeyPressed, StartFetch, MoveCursor, Rearrange, Select, BatchApply, BatchAudit, OpenView, OpenFix,
         MoveFix, EnterFix, DryRun, RunSim, OpenReplay, OpenHistory, ToggleHelp, Escape, panes, vars
<1>5. ASSUME NEW r, Answered(r), ~(SimAnswered(r) /\ sim # None) PROVE sim' \in {sim, None}
  BY <1>5 DEF Answered, FetchAnswered, FixAnswered, BatchAnswered, SimAnswered, ReplayAnswered, AuditAnswered,
              HistoryAnswered, panes
<1> QED BY <1>1, <1>2, <1>3, <1>4, <1>5 DEF SomeAnswer

LEMMA ReplayStays ==
  ASSUME ReplayOK, [Next]_vars
  PROVE  ReplayOK'
<1>1. CASE replay' \in {replay, None}
  BY <1>1 DEF ReplayOK
<1>2. CASE OpenReplay
  <2>1. PICK e \in BOOLEAN : replay' = [loading |-> e]
    BY <1>2 DEF OpenReplay
  <2> QED BY <2>1 DEF ReplayOK
<1>3. ASSUME NEW r, ReplayAnswered(r), replay # None PROVE ReplayOK'
  <2>1. PICK e \in BOOLEAN : replay' = [replay EXCEPT !.loading = e]
    BY <1>3 DEF ReplayAnswered
  <2>2. replay' = [loading |-> e]
    BY <1>3, <2>1 DEF ReplayOK
  <2> QED BY <2>2 DEF ReplayOK
<1>4. ~OpenReplay /\ ~SomeAnswer => replay' \in {replay, None}
  BY DEF Next, KeyPressed, StartFetch, MoveCursor, Rearrange, Select, BatchApply, BatchAudit, OpenView, OpenFix,
         MoveFix, EnterFix, DryRun, OpenSim, RunSim, OpenHistory, ToggleHelp, Escape, panes, vars
<1>5. ASSUME NEW r, Answered(r), ~(ReplayAnswered(r) /\ replay # None) PROVE replay' \in {replay, None}
  BY <1>5 DEF Answered, FetchAnswered, FixAnswered, BatchAnswered, SimAnswered, ReplayAnswered, AuditAnswered,
              HistoryAnswered, panes
<1> QED BY <1>1, <1>2, <1>3, <1>4, <1>5 DEF SomeAnswer

\* What is audited are HPAs that were selected, what is reported some of them.
LEMMA ChosenTyped ==
  ASSUME DataOK
  PROVE  {About(n) : n \in {n \in Present(data) : selected[n] # 0}} \subseteq Targets
BY AboutTyped DEF Present

LEMMA AuditStays ==
  ASSUME DataOK, AuditOK, SentOK, [Next]_vars
  PROVE  AuditOK'
<1>1. CASE audit' \in {audit, None}
  BY <1>1 DEF AuditOK
<1>2. ASSUME NEW of \in SUBSET Targets, NEW got \in SUBSET Targets, NEW e \in BOOLEAN,
             audit' = [of |-> of, loading |-> e, reports |-> got]
      PROVE  AuditOK'
  BY <1>2 DEF AuditOK
<1>3. CASE BatchAudit
  <2>1. PICK of \in SUBSET Targets, got \in SUBSET Targets, e \in BOOLEAN :
          audit' = [of |-> of, loading |-> e, reports |-> got]
    BY <1>3, ChosenTyped DEF BatchAudit
  <2> QED BY <1>2, <2>1
<1>4. ASSUME NEW r \in BagToSet(inflight), AuditAnswered(r), audit # None PROVE AuditOK'
  <2>1. r.about \subseteq Targets
    BY <1>4 DEF SentOK, Results
  <2>2. PICK got \in SUBSET Targets, e \in BOOLEAN : audit' = [audit EXCEPT !.loading = e, !.reports = got]
    BY <1>4, <2>1 DEF AuditAnswered
  <2>3. audit' = [of |-> audit.of, loading |-> e, reports |-> got] /\ audit.of \in SUBSET Targets
    BY <1>4, <2>2 DEF AuditOK
  <2> QED BY <1>2, <2>3
<1>5. ~BatchAudit /\ ~SomeAnswer => audit' \in {audit, None}
  BY DEF Next, KeyPressed, StartFetch, MoveCursor, Rearrange, Select, BatchApply, OpenView, OpenFix, MoveFix,
         EnterFix, DryRun, OpenSim, RunSim, OpenReplay, OpenHistory, ToggleHelp, Escape, panes, vars
<1>6. ASSUME NEW r, Answered(r), ~(AuditAnswered(r) /\ audit # None) PROVE audit' \in {audit, None}
  BY <1>6 DEF Answered, FetchAnswered, FixAnswered, BatchAnswered, SimAnswered, ReplayAnswered, AuditAnswered,
              HistoryAnswered, panes
<1> QED BY <1>1, <1>3, <1>4, <1>5, <1>6 DEF SomeAnswer

LEMMA HistoryStays ==
  ASSUME WizardInv, HistoryOK, [Next]_vars
  PROVE  HistoryOK'
<1>1. CASE history' \in {history, None}
  BY <1>1 DEF HistoryOK
<1>2. CASE OpenHistory
  <2>1. PICK e \in BOOLEAN : history' = [of |-> Current, loading |-> e]
    BY <1>2 DEF OpenHistory
  <2>2. Current \in Names \cup {None}
    BY CurrentFetched
  <2> QED BY <2>1, <2>2 DEF HistoryOK
<1>3. ASSUME NEW r, HistoryAnswered(r), history # None, history' # history PROVE HistoryOK'
  <2>1. PICK e \in BOOLEAN : history' = [history EXCEPT !.loading = e]
    BY <1>3 DEF HistoryAnswered
  <2>2. history' = [of |-> history.of, loading |-> e] /\ history.of \in Names \cup {None}
    BY <1>3, <2>1 DEF HistoryOK
  <2> QED BY <2>2 DEF HistoryOK
<1>4. ~OpenHistory /\ ~SomeAnswer => history' \in {history, None}
  BY DEF Next, KeyPressed, StartFetch, MoveCursor, Rearrange, Select, BatchApply, BatchAudit, OpenView, OpenFix,
         MoveFix, EnterFix, DryRun, OpenSim, RunSim, OpenReplay, ToggleHelp, Escape, panes, vars
<1>5. ASSUME NEW r, Answered(r), ~(HistoryAnswered(r) /\ history # None) PROVE history' \in {history, None}
  BY <1>5 DEF Answered, FetchAnswered, FixAnswered, BatchAnswered, SimAnswered, ReplayAnswered, AuditAnswered,
              HistoryAnswered, panes
<1> QED BY <1>1, <1>2, <1>3, <1>4, <1>5 DEF SomeAnswer

-----------------------------------------------------------------------------
LEMMA PreviewTyped ==
  ASSUME DataOK, SentOK, [Next]_vars
  PROVE  preview' \subseteq Targets
<1>1. preview' \in {{}, preview, Patches}
  BY PreviewChanges
<1> QED BY <1>1, PatchesTyped DEF SentOK

\* What is started is about HPAs as they were fetched.
LEMMA StartsTyped ==
  ASSUME WizardInv, DataOK, FlagsOK, FixOK, SimOK, [Next]_vars
  PROVE  UNCHANGED inflight \/ (\E x \in Results : Start(x)) \/ \E x : Take(x)
<1>1. CASE StartFetch
  <2>1. Start(Result("fetch", request + 1, {})) /\ request + 1 \in Nat
    BY <1>1 DEF StartFetch, FlagsOK
  <2> QED BY <2>1 DEF Result, Results
<1>2. CASE BatchApply
  BY <1>2, PatchesTyped DEF BatchApply, Result, Results
<1>3. CASE BatchAudit
  BY <1>3, ChosenTyped DEF BatchAudit, Result, Results
<1>4. ASSUME fix # None, SameObject(fix, data) PROVE {WizardTarget} \subseteq Targets
  <2>1. WizardTarget = Shown(fix)
    BY <1>4 DEF WizardTarget, SameObject, Shown
  <2> QED BY <1>4, <2>1, ShownTyped
<1>5. CASE EnterFix
  <2>1. UNCHANGED inflight \/ (SameObject(fix, data) /\ Start(Result("apply", epoch, {WizardTarget})))
    BY <1>5 DEF EnterFix
  <2> QED BY <1>4, <1>5, <2>1 DEF EnterFix, FlagsOK, Result, Results
<1>6. CASE DryRun
  <2>1. UNCHANGED inflight \/ (SameObject(fix, data) /\ Start(Result("dryrun", epoch, {WizardTarget})))
    BY <1>6 DEF DryRun
  <2> QED BY <1>4, <1>6, <2>1 DEF DryRun, FlagsOK, Result, Results
<1>7. CASE RunSim
  BY <1>7 DEF RunSim, SimOK, Result, Results
<1>8. CASE OpenReplay
  BY <1>8 DEF OpenReplay, Result, Results
<1>9. CASE OpenHistory
  <2>1. Current # None => About(Current) \in Targets
    BY CurrentFetched, AboutTyped
  <2> QED BY <1>9, <2>1 DEF OpenHistory, Result, Results
<1>10. CASE MoveCursor \/ Rearrange \/ Select \/ OpenView \/ OpenFix \/ MoveFix \/ OpenSim \/ ToggleHelp \/ Escape
             \/ UNCHANGED vars
  BY <1>10 DEF MoveCursor, Rearrange, Select, OpenView, OpenFix, MoveFix, OpenSim, ToggleHelp, Escape, vars
<1>11. CASE SomeAnswer
  BY <1>11 DEF SomeAnswer, Answered, FetchAnswered, FixAnswered, BatchAnswered, SimAnswered, ReplayAnswered,
               AuditAnswered, HistoryAnswered
<1> QED BY <1>1, <1>2, <1>3, <1>5, <1>6, <1>7, <1>8, <1>9, <1>10, <1>11 DEF Next, KeyPressed

LEMMA SentStays ==
  ASSUME WizardInv, DataOK, FlagsOK, FixOK, SimOK, SentOK, [Next]_vars
  PROVE  SentOK'
<1>1. IsABag(inflight) /\ BagToSet(inflight) \subseteq Results
  BY DEF SentOK
<1>2. IsABag(inflight') /\ BagToSet(inflight') \subseteq Results
  <2>1. CASE UNCHANGED inflight
    BY <1>1, <2>1, NoneLeaves
  <2>2. ASSUME NEW x \in Results, Start(x) PROVE IsABag(inflight') /\ BagToSet(inflight') \subseteq Results
    BY <1>1, <2>2, StartLeaves, StartAdds
  <2>3. ASSUME NEW x, Take(x) PROVE IsABag(inflight') /\ BagToSet(inflight') \subseteq Results
    BY <1>1, <2>3, TakeLeaves, TakeRemoves
  <2> QED BY <2>1, <2>2, <2>3, StartsTyped
<1> QED BY <1>2, PreviewTyped DEF SentOK

\* All of the dashboard's state has its type: a cursor is on a row, a choice
\* within the suggestions, what is armed, sent or shown about fetched HPAs.
THEOREM StateIsTyped == Spec => []TypeOK
<1>1. Init => TypeInv
  <2> SUFFICES ASSUME Init PROVE TypeInv
    OBVIOUS
  <2>1. MaxBirths \in Nat /\ live \in BOOLEAN
    BY TuiAssumption DEF TuiAssumption, Init
  <2>2. DataOK
    BY <2>1 DEF Init, DataOK
  <2>3. RowsOK
    BY DEF Init, RowsOK
  <2>4. FlagsOK
    BY <2>1 DEF Init, FlagsOK, Views
  <2>5. FixOK /\ SimOK /\ ReplayOK /\ AuditOK /\ HistoryOK
    BY DEF Init, FixOK, SimOK, ReplayOK, AuditOK, HistoryOK
  <2>6. SentOK
    BY DEF Init, SentOK, IsABag, SetToBag, BagToSet, Result, Results
  <2> QED BY <2>2, <2>3, <2>4, <2>5, <2>6, InitWizard DEF TypeInv
<1>2. ASSUME TypeInv, [Next]_vars PROVE TypeInv'
  <2>1. WizardInv' /\ DataOK' /\ RowsOK'
    BY <1>2, NextWizard, DataStays DEF TypeInv
  <2>2. FlagsOK' /\ FixOK' /\ SimOK'
    BY <1>2, FlagsStay, FixStays, SimStays DEF TypeInv
  <2>3. ReplayOK' /\ AuditOK' /\ HistoryOK' /\ SentOK'
    BY <1>2, ReplayStays, AuditStays, HistoryStays, SentStays DEF TypeInv
  <2> QED BY <2>1, <2>2, <2>3 DEF TypeInv
<1>3. TypeInv => TypeOK
  <2> SUFFICES ASSUME TypeInv PROVE TypeOK
    OBVIOUS
  <2>1. /\ \A n \in Names : data[n] = None \/ data[n] \in [uid : 1 .. MaxBirths, fixes : Lists]
        /\ born \in [Names -> 0 .. MaxBirths] /\ selected \in [Names -> 0 .. MaxBirths]
    BY DEF TypeInv, DataOK
  <2>2. /\ \A i \in DOMAIN shown : data[shown[i]] # None /\ \A j \in 1 .. i - 1 : shown[j] # shown[i]
        /\ cursor \in 1 .. (IF shown = <<>> THEN 1 ELSE Len(shown))
    BY DEF TypeInv, RowsOK
  <2>3. /\ {live, focused, loading} \subseteq BOOLEAN
        /\ {view, under} \subseteq Views /\ under # "help"
        /\ request \in Nat /\ epoch \in Nat
    BY DEF TypeInv, FlagsOK
  <2>4. fix # None => /\ fix.at \in DOMAIN fix.fixes
                      /\ fix.validating \in BOOLEAN
                      /\ fix.armed \cup fix.applied \cup fix.validated \subseteq Targets
    BY DEF TypeInv, FixOK
  <2>5. sim # None => {sim.of} \cup sim.result \subseteq Targets
    BY DEF TypeInv, SimOK
  <2>6. replay # None => replay.loading \in BOOLEAN
    BY DEF TypeInv, ReplayOK
  <2>7. audit # None => audit.loading \in BOOLEAN /\ audit.of \cup audit.reports \subseteq Targets
    BY DEF TypeInv, AuditOK
  <2>8. history # None => history.of \in Names \cup {None} /\ history.loading \in BOOLEAN
    BY DEF TypeInv, HistoryOK
  <2>9. preview \subseteq Targets /\ IsABag(inflight) /\ BagToSet(inflight) \subseteq Results
    BY DEF TypeInv, SentOK
  <2> QED BY <2>1, <2>2, <2>3, <2>4, <2>5, <2>6, <2>7, <2>8, <2>9 DEF TypeOK
<1> QED BY <1>1, <1>2, <1>3, PTL DEF Spec
=============================================================================
