----------------------------- MODULE AutoscalerChecks -----------------------------
(* Checks of what is said about the other controllers: a namespace in which HPAs,
   VPAs and ScaledObjects appear, reads are refused, and advice is taken.       *)
EXTENDS RuleSubject, SequencesExt, FiniteSetsExt

CONSTANTS
  Autoscaled,        \* worlds, see Autoscalers
  MoreHpas, MoreVpas, MoreObjects, Refusable, MaxEvents

Others == INSTANCE Autoscalers

WorldAsked ==
  /\ Opens("autoscalers")
  /\ \E w \in Autoscaled : subject' = [topic |-> "autoscalers", w |-> w, events |-> 0]

Happens(w) == subject' = [subject EXCEPT !.w = w, !.events = @ + 1]
NewIn(items, o) == \A i \in DOMAIN items : items[i].ns # o.ns \/ items[i].name # o.name
MayHappen == About("autoscalers") /\ subject.events < MaxEvents

HpaAppears ==
  /\ MayHappen
  /\ \E h \in MoreHpas : NewIn(subject.w.hpas, h) /\ Happens([subject.w EXCEPT !.hpas = Append(@, h)])
VpaAppears ==
  /\ MayHappen
  /\ \E v \in MoreVpas : NewIn(subject.w.vpas, v) /\ Happens([subject.w EXCEPT !.vpas = Append(@, v)])
ScaledObjectAppears ==
  /\ MayHappen
  /\ \E o \in MoreObjects : NewIn(subject.w.objects, o) /\ Happens([subject.w EXCEPT !.objects = Append(@, o)])
ReadRefused ==
  /\ MayHappen
  /\ \E r \in Refusable \ subject.w.unread : Happens([subject.w EXCEPT !.unread = @ \cup {r}])
\* The advisory's patch is applied to the VPA.
AdviceTaken ==
  /\ MayHappen
  /\ \E i \in DOMAIN subject.w.vpas, h \in Range(subject.w.hpas) :
       LET v == subject.w.vpas[i]
           advice == Others!Advisory(v.mode, Others!ConflictsOver(h, v))
       IN  advice.mode # "" /\ Happens([subject.w EXCEPT !.vpas[i].mode = advice.mode])
AutoscalerNext == WorldAsked \/ HpaAppears \/ VpaAppears \/ ScaledObjectAppears \/ ReadRefused \/ AdviceTaken

------------------------------------------------------------------------------

Whole(w) == [w EXCEPT !.unread = {}]
SeenFrom(h, w) == [w EXCEPT !.unread = {r \in @ : r[2] \in {h.ns, ""}}]
Forced(w) == [w EXCEPT !.asked = [s \in Others!Sources |-> "on"],
                       !.env = [cancelled |-> FALSE, discovery |-> TRUE, client |-> TRUE, crds |-> {}]]

\* A command about one HPA and a command about many find the same controllers, where a
\* VPA names its target.
PathsAgree(h, w) ==
  LET single == Others!FindScaledObject(h, w)
      batch  == Others!BatchScaledObject(h, w)
      vpa    == Others!FindConflictingVPA(h, w)
      scan   == Others!Risks(Forced(w), Others!TargetOf(h))
      report == Others!EnrichReport(h, Forced(w))
  IN  /\ Others!LooksManaged(h) <=> Others!DetectKEDA(h).managed
      /\ Others!DetectKEDA(h).managed /\ single.error \notin {"get", "list"} =>
           (Others!Reads(w, "scaledobjects", h.ns) => batch.object = single.object /\ batch.line = single.error)
      /\ Others!BatchVPA(h, w) # Unset => vpa # Unset
      /\ (\A v \in Range(w.vpas) : "" \notin {v.kind, v.target}) =>
           Others!BatchVPA(h, w) = vpa /\ (report.vpa # Unset <=> h.name \in scan.vpa)
      /\ report.status["keda"].state # "skipped" <=> h.name \in scan.keda
      /\ vpa # Unset => Others!NeedsVPA(w)

\* A failed read changes nothing elsewhere, and what is reported in spite of it is true.
FailuresStayLocal(h, w) ==
  LET near    == SeenFrom(h, w)
      report  == Others!EnrichReport(h, w)
      healthy == Others!EnrichReport(h, Whole(w))
      guessed == {Others!Blocker("external-scaler", "high"), Others!Blocker("autoscaler", "medium")}
  IN  /\ report = Others!EnrichReport(h, near) /\ Others!BatchVPA(h, w) = Others!BatchVPA(h, near)
      /\ Others!BatchScaledObject(h, w) = Others!BatchScaledObject(h, near)
      /\ Others!Blockers(h, w) = Others!Blockers(h, near) /\ Others!Layers(h, w) = Others!Layers(h, near)
      /\ report.vpa \in {Unset, healthy.vpa} /\ report.keda \in {Unset, healthy.keda}
      /\ report.warnings = {} => report = healthy
      /\ Others!BatchScaledObject(h, w).object \in {Unset, Others!BatchScaledObject(h, Whole(w)).object}
      /\ Others!Blockers(h, w) \subseteq Others!Blockers(h, Whole(w)) \cup guessed

\* Every entry of the enrichment status says what became of the source.
StatusIsTold(h, w) ==
  LET report == Others!EnrichReport(h, w)
      data   == [s \in Others!Sources |-> IF s = "keda" THEN report.keda ELSE report.vpa]
  IN  \A s \in Others!Sources :
        LET entry == report.status[s]
        IN  /\ entry.state = "disabled" <=> Others!ParseMode(w.asked[s]) = "off"
            /\ entry.state = "active" <=> data[s] # Unset
            /\ entry.state \in {"unavailable", "skipped", "error"} => entry.reason \notin {"", "not yet checked"}

\* The lines, the advisory, and the advisory of a saved report tell the same; each
\* conflict shows in some container's recommendation; following the advice ends it.
AdviceResolves(h, v) ==
  LET over    == Others!ConflictsOver(h, v)
      advice  == Others!Advisory(v.mode, over)
      next    == Others!Advisory(advice.mode, over)
      dropped == [h EXCEPT !.metrics = SelectSeq(@, LAMBDA m : m.name \notin advice.drop)]
      named   == {p.container : p \in Range(v.policies)} \cup {m.container : m \in Range(h.metrics)} \cup {"other"}
  IN  /\ advice.level = "NONE" <=> ~Others!Conflicts(h, v)
      /\ ~advice.safe <=> Others!VpaLines(h, v).active
      /\ advice = Others!Advisory(v.mode, Others!SavedOverlap(h, Others!VpaInfo(h, v)))
      /\ Others!Targets(h, v) => \A r \in Others!Standard :
           r \in over <=> \E c \in named \ {"*", ""} : Others!AdviceOverlaps(h, v, c, r)
      /\ advice.level = "ERROR" => next.level = "WARNING" /\ ~Others!Conflicts(dropped, v)
      /\ advice.level = "WARNING" => next.level = "NONE"

\* A metric comes from one trigger, and no two metrics from the same observed one; an
\* HPA that KEDA has reconciled does not drift.
KedaSourced(h, o) ==
  LET said    == Others!Described(h, o)
      settled == [h EXCEPT !.min = Others!EffectiveMin(o), !.max = IF Others!Int32(o.max) = Unset THEN @ ELSE o.max]
  IN  /\ \A m, n \in h.externals :
           said.sources[m].observed /\ said.sources[m] = said.sources[n] => m = n
      /\ \A i \in said.failing.triggers : Others!TriggerMetric(o, i) \in said.failing.metrics
      /\ \A m \in said.failing.metrics \cap h.externals :
           said.sources[m].observed => said.sources[m].index \in said.failing.triggers
      /\ Others!Drift(settled, o) = {}

\* Each unhealthy layer of the map has its blocker and each blocker its layer; what is
\* neither could not be read.
MapIsWhole(h, w) ==
  LET unhealthy == {l.name : l \in {x \in Others!Layers(h, w) : ~x.healthy}}
      blocking  == {b.layer : b \in {x \in Others!Blockers(h, w) : x.severity # "low"}}
      silent    == unhealthy \ blocking
  IN  /\ blocking \subseteq unhealthy /\ silent \subseteq {"nodes", "autoscaler"}
      /\ "nodes" \in silent => "nodes" \in Others!MapWarnings(h, w)
      /\ Others!Risk(h, w) = "none" => unhealthy \subseteq {"nodes", "autoscaler"} /\ Others!MapAdvice(h, w) = ""
      /\ Others!MapAdvice(h, w) = "address" <=> Others!Risk(h, w) = "high"
      /\ "autoscaler" \in blocking => "pods" \in blocking

\* Without spec.replicas in other managers' hands there is nothing to recommend.
OwnershipSettles(h, w) ==
  LET own   == [w EXCEPT !.owners.replicas = @, !.owners.fields = SelectSeq(@, LAMBDA f : Others!LooksLikeHPAOwner(f.manager))]
      found == Others!Ownership(h, w)
      after == Others!Ownership(h, own)
  IN  /\ found.error <=> after.error
      /\ ~found.error => after.risks \subseteq found.risks /\ (w.owners.replicas \in {Unset, w.owners.desired} => ~after.recommends)

CommandsAgree(it) ==
  it.topic = "autoscalers" =>
    LET w == it.w
    IN  /\ \A h \in Range(w.hpas) :
             /\ PathsAgree(h, w) /\ FailuresStayLocal(h, w) /\ StatusIsTold(h, w) /\ MapIsWhole(h, w)
             /\ OwnershipSettles(h, w)
             /\ \A v \in Range(w.vpas) : AdviceResolves(h, v)
             /\ \A o \in Range(w.objects) : KedaSourced(h, o)
        /\ \A row \in Others!ConflictScan(w) : \A h \in Others!Group(w, row.target) :
             row.risks.shared # {} => h.name \in row.risks.shared

(* Every command says the same of the controllers beside an HPA, whichever way it
   reads them, and what could not be read is not reported as found.            *)
AutoscalersAgree == [][CommandsAgree(subject')]_subject

(* "a dynamic-client failure (RBAC denial on keda.sh, missing KEDA CRD) silently skips
   the KEDA section": a ScaledObject that cannot be read is no blocker.        *)
UnreadKedaIsSkipped ==
  About("autoscalers") => \A h \in Range(subject.w.hpas) :
    Others!KedaBlockers(h, subject.w) \subseteq Others!KedaBlockers(h, Whole(subject.w))
=============================================================================
