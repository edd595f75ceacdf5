------------------------------ MODULE ReadProofs ------------------------------
(***************************************************************************)
(* Theorems about the reads and the report of a run, the rows of a list,   *)
(* the window of the timeline and the recording of one, for any number of  *)
(* names, pages, flags, limits, faults, polls, recorders and batches and   *)
(* any window size.                                                        *)
(***************************************************************************)
EXTENDS StatusRun, ListRun, Recorder, WatchLoop, FiniteSetTheorems, WellFoundedInduction, TLAPS

RunSpec == RunInit /\ [][RunNext]_runVars

\* The reads a diagnosis can want, and what a read can be known as.
Wantable == Reads \ {"hpa"}

Values == {"unread", "known", "nothing", "failed"}

-----------------------------------------------------------------------------
\* The next read.

LEMMA LeastPosition ==
  ASSUME NEW X \in SUBSET Nat, X # {}
  PROVE  \E m \in X : \A k \in X : m <= k
<1>1. PICK m \in X : \A k \in X : <<k, m>> \notin OpToRel(<, Nat)
  BY NatLessThanWellFounded, WFMin
<1>2. ASSUME NEW k \in X, k < m
      PROVE  <<k, m>> \in OpToRel(<, Nat)
  BY <1>2 DEF OpToRel
<1>3. \A k \in X : ~(k < m)
  BY <1>1, <1>2, Zenon
<1> QED
  BY <1>3

LEMMA Joined ==
  ASSUME NEW S, NEW u \in Seq(S), NEW v \in Seq(S)
  PROVE  u \o v \in Seq(S)
OBVIOUS

Dependent == {"pods", "replicasets"}

\* Pods and replica sets are wanted only of a target that is known.
LEMMA WantedWithin ==
  ASSUME NEW d, NEW of, NEW S, Wantable \ Dependent \subseteq S,
         Got(of, "target") => Dependent \subseteq S
  PROVE  Wanted(d, of) \in Seq(S)
<1>1. /\ {"target", "cluster", "autoscaler", "scaledobjects", "vpas", "discovery", "apiservices",
          "samples", "podmetrics", "managers", "workload", "events", "selector", "template", "quotas",
          "pdbs", "objectevents", "nodes", "limitranges"} \subseteq S
      /\ Got(of, "target") => "pods" \in S /\ "replicasets" \in S
  BY DEF Wantable, Reads, Snapshotted, Shared, Unretried, Dependent
<1>2. ASSUME NEW c \in BOOLEAN, NEW s, c => s \in Seq(S) PROVE When(c, s) \in Seq(S)
  <2>1. <<>> \in Seq(S)
    OBVIOUS
  <2> QED
    BY <1>2, <2>1 DEF When
<1>3. ASSUME NEW s, Got(of, "target") => s \in Seq(S) PROVE TargetThen(of, s) \in Seq(S)
  <2>1. <<"target">> \in Seq(S)
    BY <1>1
  <2>2. When(Got(of, "target"), s) \in Seq(S)
    BY <1>2, <1>3 DEF Got
  <2> QED
    BY <2>1, <2>2, Joined DEF TargetThen
<1>4. EnrichmentReads \in Seq(S)
  <2>1. <<"scaledobjects">> \in Seq(S) /\ <<"vpas">> \in Seq(S)
    BY <1>1
  <2>2. /\ When("keda" \in flags, <<"scaledobjects">>) \in Seq(S)
        /\ When("vpa" \in flags, <<"vpas">>) \in Seq(S)
    <3>1. <<>> \in Seq(S)
      OBVIOUS
    <3> QED
      BY <2>1, <3>1 DEF When
  <2> QED
    BY <2>2, Joined DEF EnrichmentReads
<1>5. FreshnessReads(of) \in Seq(S)
  <2>1. <<"discovery", "selector">> \in Seq(S) /\ <<"samples">> \in Seq(S)
    BY <1>1
  <2>2. When(Got(of, "selector"), <<"samples">>) \in Seq(S)
    BY <1>2, <2>1 DEF Got
  <2> QED
    BY <2>1, <2>2, Joined DEF FreshnessReads
<1>6. TargetThen(of, <<"pods">>) \in Seq(S)
  <2>1. Got(of, "target") => <<"pods">> \in Seq(S)
    BY <1>1
  <2> QED
    BY <1>3, <2>1
<1>7. ContextReads(of) \in Seq(S) /\ HeadroomReads(of) \in Seq(S) /\ ScalePathReads(of) \in Seq(S)
  <2>1. Got(of, "target") =>
          /\ <<"pods", "quotas", "pdbs">> \in Seq(S)
          /\ <<"cluster">> \in Seq(S)
          /\ <<"pods", "replicasets", "objectevents">> \in Seq(S)
    BY <1>1
  <2> QED
    BY <1>3, <2>1 DEF ContextReads, HeadroomReads, ScalePathReads
<1>8. ReadinessReads(of) \in Seq(S)
  <2>1. <<"podmetrics">> \in Seq(S)
    BY <1>1
  <2>2. When(Got(of, "pods"), <<"podmetrics">>) \in Seq(S)
    BY <1>2, <2>1 DEF Got
  <2> QED
    BY <1>6, <2>2, Joined DEF ReadinessReads
<1>9. BlockerReads(of) \in Seq(S)
  <2>1. /\ Got(of, "target") => <<"pods", "objectevents">> \in Seq(S)
        /\ <<"quotas", "nodes">> \in Seq(S)
    BY <1>1
  <2>2. TargetThen(of, <<"pods", "objectevents">>) \in Seq(S)
    BY <1>3, <2>1
  <2> QED
    BY <2>1, <2>2, Joined DEF BlockerReads
<1>10. CapacityPlanReads(of) \in Seq(S)
  <2>1. <<"quotas", "limitranges", "cluster", "pdbs", "autoscaler">> \in Seq(S)
    BY <1>1
  <2> QED
    BY <1>6, <2>1, Joined DEF CapacityPlanReads
<1>11. /\ <<"events">> \in Seq(S) /\ <<"template">> \in Seq(S) /\ <<"managers">> \in Seq(S)
       /\ <<"workload">> \in Seq(S) /\ ContractReads \in Seq(S) /\ <<>> \in Seq(S)
  BY <1>1 DEF ContractReads
<1> QED
  BY <1>4, <1>5, <1>6, <1>7, <1>8, <1>9, <1>10, <1>11 DEF Wanted

\* No diagnosis wants the HPA itself.
LEMMA WantedReads ==
  ASSUME NEW d, NEW of
  PROVE  Wanted(d, of) \in Seq(Wantable)
<1>1. Wantable \ Dependent \subseteq Wantable
  OBVIOUS
<1>2. Dependent \subseteq Wantable
  BY DEF Wantable, Reads, Snapshotted, Dependent
<1> QED
  BY <1>1, <1>2, WantedWithin

\* A diagnosis reads next what it wants and does not know.
LEMMA NextReadIsOpen ==
  ASSUME NEW i, NextRead(i) # "none"
  PROVE  NextRead(i) \in Wantable /\ Known(i)[NextRead(i)] = "unread"
<1> DEFINE wanted == Wanted(Diagnosis(i), Known(i))
           open   == {k \in DOMAIN wanted : Known(i)[wanted[k]] = "unread"}
           first  == CHOOSE k \in open : \A j \in open : k <= j
<1>1. wanted \in Seq(Wantable)
  BY WantedReads
<1>2. NextRead(i) = IF open = {} THEN "none" ELSE wanted[first]
  BY DEF NextRead
<1> HIDE DEF wanted
<1>3. open \in SUBSET Nat
  BY <1>1
<1>4. open # {}
  BY <1>2
<1>5. first \in open
  <2> HIDE DEF open
  <2> QED
    BY <1>3, <1>4, LeastPosition
<1> HIDE DEF first
<1>6. NextRead(i) = wanted[first]
  BY <1>2, <1>4
<1> QED
  BY <1>1, <1>5, <1>6

-----------------------------------------------------------------------------
\* Counting reads.

ReadsOf(done, r) == {k \in DOMAIN done : done[k].read = r}

LEMMA CountOf ==
  ASSUME NEW T, NEW s \in Seq(T), NEW r
  PROVE  IsFiniteSet(ReadsOf(s, r)) /\ Cardinality(ReadsOf(s, r)) \in Nat
<1>1. Len(s) \in Nat /\ DOMAIN s = 1 .. Len(s)
  OBVIOUS
<1>2. IsFiniteSet(1 .. Len(s))
  BY <1>1, FS_Interval
<1>3. ReadsOf(s, r) \in SUBSET (1 .. Len(s))
  BY <1>1 DEF ReadsOf
<1> QED
  BY <1>2, <1>3, FS_Subset, FS_CardinalityType

LEMMA CountAppended ==
  ASSUME NEW T, NEW s \in Seq(T), NEW r, NEW e \in T
  PROVE  Cardinality(ReadsOf(Append(s, e), r)) =
           Cardinality(ReadsOf(s, r)) + IF e.read = r THEN 1 ELSE 0
<1>1. Len(s) \in Nat /\ DOMAIN s = 1 .. Len(s)
  OBVIOUS
<1>2. DOMAIN Append(s, e) = (1 .. Len(s)) \cup {Len(s) + 1}
  BY <1>1
<1>3. \A k \in 1 .. Len(s) : Append(s, e)[k] = s[k]
  OBVIOUS
<1>4. Append(s, e)[Len(s) + 1] = e
  OBVIOUS
<1>5. ReadsOf(Append(s, e), r) = IF e.read = r THEN ReadsOf(s, r) \cup {Len(s) + 1} ELSE ReadsOf(s, r)
  BY <1>1, <1>2, <1>3, <1>4 DEF ReadsOf
<1>6. Len(s) + 1 \notin ReadsOf(s, r)
  BY <1>1 DEF ReadsOf
<1>7. IsFiniteSet(ReadsOf(s, r)) /\ Cardinality(ReadsOf(s, r)) \in Nat
  BY CountOf
<1>8. Cardinality(ReadsOf(s, r) \cup {Len(s) + 1}) = Cardinality(ReadsOf(s, r)) + 1
  BY <1>6, <1>7, FS_AddElement
<1> QED
  BY <1>5, <1>7, <1>8

LEMMA TimesReadIs ==
  ASSUME NEW i, NEW r
  PROVE  TimesRead(i, r) = Cardinality(ReadsOf(log[i], r))
BY DEF TimesRead, ReadsOf

-----------------------------------------------------------------------------
\* What holds of every job, besides its record.

Entries == [read : Reads, value : Values, late : BOOLEAN]

Phases == {"waiting", "calling", "pausing", "ready", "between", "done"}

IsJob(j) ==
  /\ j = [phase |-> j.phase, at |-> j.at, read |-> j.read, tries |-> j.tries, got |-> j.got]
  /\ j.phase \in Phases

RunTypes ==
  /\ job = [i \in Jobs |-> job[i]] /\ \A i \in Jobs : IsJob(job[i])
  /\ seen \in [Jobs -> [Snapshotted -> Values]]
  /\ shared \in [Shared -> [reader : Nat, value : Values]]
  /\ log \in [Jobs -> Seq(Entries)]
  /\ cancelled \in BOOLEAN

InRead(i) == job[i].phase \in {"calling", "pausing"}

(***************************************************************************)
(* What was not remembered was not read, and a shared read was made by its *)
(* reader; the read in progress was not made before, by this job or, if it *)
(* is shared, by any.                                                      *)
(***************************************************************************)
Remembered(i) ==
  /\ \A r \in Snapshotted : seen[i][r] = "unread" => TimesRead(i, r) = 0
  /\ \A r \in Shared : TimesRead(i, r) > 0 => shared[r].reader = i
  /\ \A r \in Snapshotted \cup Shared \cup {"hpa"} : TimesRead(i, r) <= 1

InProgress(i) ==
  /\ job[i].phase = "waiting" => TimesRead(i, "hpa") = 0
  /\ InRead(i) =>
       /\ job[i].read \in Reads
       /\ job[i].read \in Snapshotted => seen[i][job[i].read] = "unread"
       /\ job[i].read \in Shared => shared[job[i].read].reader = i
       /\ job[i].read \in Snapshotted \cup Shared \cup {"hpa"} => TimesRead(i, job[i].read) = 0

ReadInv == RunTypes /\ \A i \in Jobs : InProgress(i) /\ Remembered(i)

LEMMA TimesReadNat ==
  ASSUME RunTypes, NEW i \in Jobs, NEW r
  PROVE  TimesRead(i, r) \in Nat
<1>1. log[i] \in Seq(Entries)
  BY DEF RunTypes
<1>2. Cardinality(ReadsOf(log[i], r)) \in Nat
  BY <1>1, CountOf
<1> QED
  BY <1>2, TimesReadIs

\* A completed read counts once more for its job and not at all for the others.
LEMMA OneMore ==
  ASSUME RunTypes, NEW i \in Jobs, NEW e \in Entries,
         log' = [log EXCEPT ![i] = Append(@, e)]
  PROVE  \A j \in Jobs : \A r :
           TimesRead(j, r)' = TimesRead(j, r) + IF j = i /\ e.read = r THEN 1 ELSE 0
<1> SUFFICES ASSUME NEW j \in Jobs, NEW r
             PROVE  TimesRead(j, r)' = TimesRead(j, r) + IF j = i /\ e.read = r THEN 1 ELSE 0
  OBVIOUS
<1>1. log[j] \in Seq(Entries)
  BY DEF RunTypes
<1>2. TimesRead(j, r) \in Nat
  BY TimesReadNat
<1>3. TimesRead(j, r)' = Cardinality(ReadsOf(log'[j], r))
  BY DEF TimesRead, ReadsOf
<1>4. CASE j = i
  <2>1. log'[j] = Append(log[j], e)
    BY <1>4 DEF RunTypes
  <2>2. Cardinality(ReadsOf(Append(log[j], e), r)) =
          Cardinality(ReadsOf(log[j], r)) + IF e.read = r THEN 1 ELSE 0
    BY <1>1, CountAppended
  <2> QED
    BY <1>3, <1>4, <2>1, <2>2, TimesReadIs
<1>5. CASE j # i
  <2>1. log'[j] = log[j]
    BY <1>5 DEF RunTypes
  <2> QED
    BY <1>2, <1>3, <1>5, <2>1, TimesReadIs
<1> QED
  BY <1>4, <1>5

LEMMA SameReads ==
  ASSUME log' = log
  PROVE  \A j, r : TimesRead(j, r)' = TimesRead(j, r)
BY DEF TimesRead

LEMMA ReadValues ==
  ASSUME NEW r, NEW answer, NEW value \in Readings(r, answer)
  PROVE  value \in Values \ {"unread"}
BY DEF Readings, ReadValue, Values

\* One job takes another place and no answer is remembered or counted.
LEMMA Moved ==
  ASSUME ReadInv, NEW i \in Jobs, UNCHANGED <<seen, shared, log, cancelled>>,
         NEW f, job' = [job EXCEPT ![i] = f], IsJob(f),
         \/ f.phase \in {"ready", "between", "done"}
         \/ /\ f.phase \in {"calling", "pausing"}
            /\ \/ InRead(i) /\ f.read = job[i].read
               \/ job[i].phase = "waiting" /\ f.read = "hpa"
  PROVE  ReadInv'
<1>1. /\ job'[i] = f /\ \A j \in Jobs : j # i => job'[j] = job[j]
      /\ job' = [j \in Jobs |-> job'[j]]
  BY DEF ReadInv, RunTypes
<1>2. RunTypes'
  BY <1>1 DEF ReadInv, RunTypes
<1>3. ASSUME NEW j \in Jobs PROVE Remembered(j)'
  BY SameReads DEF ReadInv, Remembered
<1>4. ASSUME NEW j \in Jobs, j # i PROVE InProgress(j)'
  BY <1>1, <1>4, SameReads DEF ReadInv, InProgress, InRead
<1>5. InProgress(i)'
  <2>1. "hpa" \in Reads /\ "hpa" \notin Snapshotted /\ "hpa" \notin Shared
    BY DEF Reads, Snapshotted, Shared
  <2>2. InProgress(i)
    BY DEF ReadInv
  <2>3. f.phase # "waiting"
    OBVIOUS
  <2>4. CASE f.phase \in {"ready", "between", "done"}
    BY <1>1, <2>3, <2>4 DEF InProgress, InRead
  <2>5. CASE InRead(i) /\ f.read = job[i].read
    BY <1>1, <2>2, <2>3, <2>5, SameReads DEF InProgress, InRead
  <2>6. CASE job[i].phase = "waiting" /\ f.read = "hpa"
    BY <1>1, <2>1, <2>2, <2>3, <2>6, SameReads DEF InProgress, InRead
  <2> QED
    BY <2>4, <2>5, <2>6
<1> QED
  BY <1>2, <1>3, <1>4, <1>5 DEF ReadInv

\* A job with one field changed is a job.
LEMMA JobFields ==
  ASSUME NEW j, IsJob(j), NEW v
  PROVE  /\ v \in Phases => IsJob([j EXCEPT !.phase = v])
         /\ IsJob([j EXCEPT !.read = v]) /\ IsJob([j EXCEPT !.tries = v]) /\ IsJob([j EXCEPT !.got = v])
         /\ IsJob([j EXCEPT !.at = v])
         /\ [j EXCEPT !.phase = v].phase = v /\ [j EXCEPT !.phase = v].read = j.read
         /\ [j EXCEPT !.read = v].read = v /\ [j EXCEPT !.read = v].phase = j.phase
         /\ [j EXCEPT !.tries = v].read = j.read /\ [j EXCEPT !.tries = v].phase = j.phase
         /\ [j EXCEPT !.got = v].read = j.read /\ [j EXCEPT !.got = v].phase = j.phase
         /\ [j EXCEPT !.at = v].read = j.read /\ [j EXCEPT !.at = v].phase = j.phase
<1>1. PICK a, b, c, d, e : j = [phase |-> a, at |-> b, read |-> c, tries |-> d, got |-> e] /\ a \in Phases
  BY DEF IsJob
<1>2. /\ [j EXCEPT !.phase = v] = [phase |-> v, at |-> b, read |-> c, tries |-> d, got |-> e]
      /\ [j EXCEPT !.at = v] = [phase |-> a, at |-> v, read |-> c, tries |-> d, got |-> e]
      /\ [j EXCEPT !.read = v] = [phase |-> a, at |-> b, read |-> v, tries |-> d, got |-> e]
      /\ [j EXCEPT !.tries = v] = [phase |-> a, at |-> b, read |-> c, tries |-> v, got |-> e]
      /\ [j EXCEPT !.got = v] = [phase |-> a, at |-> b, read |-> c, tries |-> d, got |-> v]
  BY <1>1
<1> QED
  BY <1>1, <1>2 DEF IsJob

LEMMA FreeJob ==
  /\ IsJob(Free)
  /\ \A v \in Phases : IsJob([Free EXCEPT !.phase = v]) /\ [Free EXCEPT !.phase = v].phase = v
<1>1. IsJob(Free)
  BY DEF IsJob, Free, Phases
<1> QED
  BY <1>1, JobFields

LEMMA StartsOrEnds ==
  ASSUME ReadInv, NEW i \in Jobs, StartJob(i)
  PROVE  ReadInv'
<1>1. UNCHANGED <<seen, shared, log, cancelled>>
  BY DEF StartJob
<1>2. CASE cancelled
  <2> DEFINE f == [Free EXCEPT !.phase = "done"]
  <2>1. IsJob(f) /\ f.phase = "done"
    BY FreeJob DEF Phases
  <2>2. job' = [job EXCEPT ![i] = f]
    BY <1>2 DEF StartJob, End
  <2> HIDE DEF f
  <2> QED
    BY <1>1, <2>1, <2>2, Moved
<1>3. CASE ~cancelled
  <2> DEFINE f == [Free EXCEPT !.phase = "calling", !.read = "hpa", !.tries = 1]
  <2>1. IsJob(f) /\ f.phase = "calling" /\ f.read = "hpa"
    <3> DEFINE f1 == [Free EXCEPT !.phase = "calling"]
               f2 == [f1 EXCEPT !.read = "hpa"]
    <3>1. IsJob(f1) /\ f1.phase = "calling"
      BY FreeJob DEF Phases
    <3>2. f = [f2 EXCEPT !.tries = 1]
      BY DEF Free
    <3> HIDE DEF f, f1
    <3>3. IsJob(f2) /\ f2.phase = "calling" /\ f2.read = "hpa"
      BY <3>1, JobFields
    <3> HIDE DEF f2
    <3> QED
      BY <3>2, <3>3, JobFields
  <2>2. job' = [job EXCEPT ![i] = f] /\ job[i].phase = "waiting"
    BY <1>3 DEF StartJob
  <2> HIDE DEF f
  <2> QED
    BY <1>1, <2>1, <2>2, Moved
<1> QED
  BY <1>2, <1>3

\* What Keep makes of the job.
LEMMA Kept ==
  ASSUME RunTypes, NEW i \in Jobs, NEW r, NEW value, Keep(i, r, value)
  PROVE  \E f : job' = [job EXCEPT ![i] = f] /\ IsJob(f) /\ f.phase = "ready"
<1> DEFINE j == job[i]
           g == Learned(i, r, value)
           k == [j EXCEPT !.phase = "ready"]
           l == [k EXCEPT !.read = "none"]
<1>1. IsJob(j)
  BY DEF RunTypes
<1>2. job' = [job EXCEPT ![i] = [j EXCEPT !.phase = "ready", !.read = "none", !.got = g]]
  BY DEF Keep
<1>3. [j EXCEPT !.phase = "ready", !.read = "none", !.got = g] = [l EXCEPT !.got = g]
  <2> HIDE DEF j, g
  <2>1. PICK a, b, c, d, e : j = [phase |-> a, at |-> b, read |-> c, tries |-> d, got |-> e]
    BY <1>1 DEF IsJob
  <2> QED
    BY <2>1
<1> HIDE DEF j, g
<1>4. IsJob(k) /\ k.phase = "ready"
  BY <1>1, JobFields DEF Phases
<1> HIDE DEF k
<1>5. IsJob(l) /\ l.phase = "ready"
  BY <1>4, JobFields
<1> HIDE DEF l
<1>6. IsJob([l EXCEPT !.got = g]) /\ [l EXCEPT !.got = g].phase = "ready"
  BY <1>5, JobFields
<1> QED
  BY <1>2, <1>3, <1>6

LEMMA Begins ==
  ASSUME ReadInv, NEW i \in Jobs, BeginRead(i)
  PROVE  ReadInv'
<1> DEFINE r == NextRead(i)
           f == [job[i] EXCEPT !.phase = "calling", !.read = r, !.tries = 1]
<1>1. /\ job[i].phase = "ready" /\ r # "none" /\ (r \in Shared => shared[r].reader = 0)
      /\ shared' = IF r \in Shared THEN [shared EXCEPT ![r].reader = i] ELSE shared
      /\ job' = [job EXCEPT ![i] = f]
      /\ UNCHANGED <<seen, log, cancelled>>
  BY DEF BeginRead
<1>2. r \in Wantable /\ Known(i)[r] = "unread"
  BY <1>1, NextReadIsOpen
<1> HIDE DEF r
<1>3. r \in Reads /\ r # "hpa" /\ (r \in Snapshotted => seen[i][r] = "unread")
  BY <1>2 DEF Wantable, Known
<1>4. IsJob(f) /\ f.phase = "calling" /\ f.read = r
  <2> DEFINE f0 == job[i]
             f1 == [f0 EXCEPT !.phase = "calling"]
             f2 == [f1 EXCEPT !.read = r]
  <2>1. IsJob(f0)
    BY DEF ReadInv, RunTypes
  <2>2. f = [f2 EXCEPT !.tries = 1]
    OBVIOUS
  <2> HIDE DEF f, f0
  <2>3. IsJob(f1) /\ f1.phase = "calling"
    BY <2>1, JobFields DEF Phases
  <2> HIDE DEF f1
  <2>4. IsJob(f2) /\ f2.phase = "calling" /\ f2.read = r
    BY <2>3, JobFields
  <2> HIDE DEF f2
  <2> QED
    BY <2>2, <2>4, JobFields
<1> HIDE DEF f
<1>5. /\ job'[i] = f /\ \A j \in Jobs : j # i => job'[j] = job[j]
      /\ job' = [j \in Jobs |-> job'[j]]
  BY <1>1 DEF ReadInv, RunTypes
<1>6. /\ shared' \in [Shared -> [reader : Nat, value : Values]]
      /\ \A s \in Shared : shared'[s].reader = IF s = r THEN i ELSE shared[s].reader
  BY <1>1 DEF ReadInv, RunTypes, Jobs
<1>7. RunTypes'
  BY <1>1, <1>4, <1>5, <1>6 DEF ReadInv, RunTypes
<1>8. \A j \in Jobs : r \in Shared => TimesRead(j, r) = 0
  <2>1. \A j \in Jobs : j # 0
    BY DEF Jobs
  <2> QED
    BY <1>1, <2>1, TimesReadNat DEF ReadInv, Remembered
<1>9. ASSUME NEW j \in Jobs PROVE Remembered(j)'
  <2>1. ASSUME NEW s \in Shared, TimesRead(j, s)' > 0 PROVE shared'[s].reader = j
    <3>1. TimesRead(j, s) > 0
      BY <1>1, <2>1, SameReads
    <3>2. s # r
      BY <1>8, <3>1
    <3> QED
      BY <1>6, <3>1, <3>2 DEF ReadInv, Remembered
  <2> QED
    BY <1>1, <2>1, SameReads DEF ReadInv, Remembered
<1>10. ASSUME NEW j \in Jobs, j # i PROVE InProgress(j)'
  <2>1. ASSUME InRead(j), job[j].read \in Shared PROVE job[j].read # r
    <3>1. shared[job[j].read].reader = j /\ j # 0
      BY <2>1 DEF ReadInv, InProgress, Jobs
    <3> QED
      BY <1>1, <2>1, <3>1
  <2> QED
    BY <1>1, <1>5, <1>6, <1>10, <2>1, SameReads DEF ReadInv, InProgress, InRead
<1>11. InProgress(i)'
  <2>1. r \in Snapshotted => TimesRead(i, r) = 0
    BY <1>3 DEF ReadInv, Remembered
  <2>2. r \in Snapshotted \cup Shared \cup {"hpa"} => TimesRead(i, r) = 0
    BY <1>3, <1>8, <2>1
  <2> QED
    BY <1>1, <1>3, <1>4, <1>5, <1>6, <2>2, SameReads DEF InProgress, InRead
<1> QED
  BY <1>7, <1>9, <1>10, <1>11 DEF ReadInv

\* The autoscaler is known without a call: nobody has read it or will.
LEMMA Founds ==
  ASSUME ReadInv, NEW i \in Jobs, FoundOnNodes(i)
  PROVE  ReadInv'
<1>1. /\ shared["autoscaler"].reader = 0 /\ "autoscaler" \in Shared
      /\ shared' = [shared EXCEPT !["autoscaler"] = [reader |-> i, value |-> "known"]]
      /\ UNCHANGED <<job, seen, log, cancelled>>
  BY DEF FoundOnNodes, Shared
<1>2. /\ shared' \in [Shared -> [reader : Nat, value : Values]]
      /\ \A s \in Shared : s # "autoscaler" => shared'[s] = shared[s]
  BY <1>1 DEF ReadInv, RunTypes, Jobs, Values
<1>3. RunTypes'
  BY <1>1, <1>2 DEF ReadInv, RunTypes
<1>4. ASSUME NEW j \in Jobs PROVE Remembered(j)' /\ InProgress(j)'
  <2>1. j # 0 /\ TimesRead(j, "autoscaler") \in Nat
    BY TimesReadNat DEF ReadInv, Jobs
  <2>2. ASSUME NEW s \in Shared, TimesRead(j, s)' > 0 PROVE shared'[s].reader = j
    BY <1>1, <1>2, <2>1, <2>2, SameReads DEF ReadInv, Remembered
  <2>3. InRead(j) => job[j].read # "autoscaler"
    BY <1>1, <2>1 DEF ReadInv, InProgress
  <2>4. Remembered(j)'
    BY <1>1, <2>2, SameReads DEF ReadInv, Remembered
  <2>5. InProgress(j)'
    BY <1>1, <1>2, <2>3, SameReads DEF ReadInv, InProgress, InRead
  <2> QED
    BY <2>4, <2>5
<1> QED
  BY <1>3, <1>4 DEF ReadInv

LEMMA Skips ==
  ASSUME ReadInv, NEW i \in Jobs, SkipRead(i)
  PROVE  ReadInv'
<1> DEFINE r == NextRead(i)
           value == IF r = "workload" THEN "failed" ELSE "nothing"
<1>1. /\ job[i].phase = "ready" /\ r \in {"target", "selector", "template", "workload"}
      /\ Keep(i, r, value) /\ UNCHANGED <<log, cancelled>>
  BY DEF SkipRead, NeedsNoCall
<1>2. value \in Values \ {"unread"}
  BY DEF Values
<1> HIDE DEF r, value
<1>3. r \notin Shared
  BY <1>1 DEF Shared
<1>4. PICK f : job' = [job EXCEPT ![i] = f] /\ IsJob(f) /\ f.phase = "ready"
  BY <1>1, Kept DEF ReadInv
<1>5. /\ job'[i] = f /\ \A j \in Jobs : j # i => job'[j] = job[j]
      /\ job' = [j \in Jobs |-> job'[j]]
  BY <1>4 DEF ReadInv, RunTypes
<1>6. /\ shared' = shared
      /\ seen' \in [Jobs -> [Snapshotted -> Values]]
      /\ \A j \in Jobs : j # i => seen'[j] = seen[j]
      /\ \A s \in Snapshotted : seen'[i][s] = IF s = r THEN value ELSE seen[i][s]
  BY <1>1, <1>2, <1>3 DEF Keep, ReadInv, RunTypes
<1>7. RunTypes'
  BY <1>1, <1>4, <1>5, <1>6 DEF ReadInv, RunTypes
<1>8. ASSUME NEW j \in Jobs PROVE Remembered(j)'
  BY <1>1, <1>2, <1>6, SameReads DEF ReadInv, Remembered
<1>9. ASSUME NEW j \in Jobs PROVE InProgress(j)'
  BY <1>1, <1>4, <1>5, <1>6, SameReads DEF ReadInv, InProgress, InRead
<1> QED
  BY <1>7, <1>8, <1>9 DEF ReadInv

\* A read that was not remembered is over: it counts once, and is remembered.
LEMMA Settles ==
  ASSUME ReadInv, NEW i \in Jobs, NEW answer, InRead(i), Settle(i, answer), UNCHANGED cancelled
  PROVE  ReadInv'
<1> DEFINE r == job[i].read
<1>0. PICK value \in Readings(r, answer) :
        /\ log' = [log EXCEPT ![i] = Append(@, [read |-> r, value |-> value, late |-> cancelled])]
        /\ IF r # "hpa" THEN Keep(i, r, value)
           ELSE /\ UNCHANGED <<seen, shared>>
                /\ \/ job' = [job EXCEPT ![i] = [Free EXCEPT !.phase = "between"]]
                   \/ job' = [job EXCEPT ![i] = [Free EXCEPT !.phase = "done"]]
  BY DEF Settle, End
<1> DEFINE e == [read |-> r, value |-> value, late |-> cancelled]
<1>1. r \in Reads /\ value \in Values \ {"unread"} /\ e \in Entries
  BY ReadValues DEF ReadInv, InProgress, RunTypes, Entries
<1>2. log' = [log EXCEPT ![i] = Append(@, e)]
  BY <1>0
<1>3. IF r # "hpa" THEN Keep(i, r, value)
      ELSE /\ UNCHANGED <<seen, shared>>
           /\ \/ job' = [job EXCEPT ![i] = [Free EXCEPT !.phase = "between"]]
              \/ job' = [job EXCEPT ![i] = [Free EXCEPT !.phase = "done"]]
  BY <1>0
<1>4. /\ r \in Snapshotted => seen[i][r] = "unread"
      /\ r \in Shared => shared[r].reader = i
      /\ r \in Snapshotted \cup Shared \cup {"hpa"} => TimesRead(i, r) = 0
  BY DEF ReadInv, InProgress
<1>5. \A j \in Jobs : \A s : TimesRead(j, s)' = TimesRead(j, s) + IF j = i /\ r = s THEN 1 ELSE 0
  <2>1. RunTypes
    BY DEF ReadInv
  <2>2. e.read = r
    OBVIOUS
  <2> HIDE DEF e
  <2>3. \A j \in Jobs : \A s :
          TimesRead(j, s)' = TimesRead(j, s) + IF j = i /\ e.read = s THEN 1 ELSE 0
    BY <1>1, <1>2, <2>1, OneMore
  <2> HIDE DEF r
  <2> QED
    BY <2>2, <2>3
<1>6. PICK f : job' = [job EXCEPT ![i] = f] /\ IsJob(f) /\ f.phase \in {"ready", "between", "done"}
  <2>1. CASE r # "hpa"
    BY <1>3, <2>1, Kept DEF ReadInv
  <2>2. CASE r = "hpa"
    <3>1. /\ IsJob([Free EXCEPT !.phase = "between"]) /\ [Free EXCEPT !.phase = "between"].phase = "between"
          /\ IsJob([Free EXCEPT !.phase = "done"]) /\ [Free EXCEPT !.phase = "done"].phase = "done"
      BY FreeJob DEF Phases
    <3> QED
      BY <1>3, <2>2, <3>1
  <2> QED
    BY <2>1, <2>2
<1>7. /\ job'[i] = f /\ \A j \in Jobs : j # i => job'[j] = job[j]
      /\ job' = [j \in Jobs |-> job'[j]]
  BY <1>6 DEF ReadInv, RunTypes
<1>8. \A j \in Jobs : \A s : TimesRead(j, s) \in Nat
  BY TimesReadNat DEF ReadInv
<1>9. "hpa" \notin Snapshotted /\ "hpa" \notin Shared
  BY DEF Snapshotted, Shared
<1>10. log' \in [Jobs -> Seq(Entries)]
  <2> HIDE DEF e
  <2>1. log \in [Jobs -> Seq(Entries)]
    BY DEF ReadInv, RunTypes
  <2>2. Append(log[i], e) \in Seq(Entries)
    BY <1>1, <2>1
  <2> QED
    BY <1>2, <2>1, <2>2
<1> HIDE DEF e
<1>11. /\ seen' \in [Jobs -> [Snapshotted -> Values]]
       /\ \A j \in Jobs : j # i => seen'[j] = seen[j]
       /\ \A s \in Snapshotted : seen'[i][s] = IF s = r THEN value ELSE seen[i][s]
  <2> HIDE DEF r
  <2>1. seen \in [Jobs -> [Snapshotted -> Values]]
    BY DEF ReadInv, RunTypes
  <2>2. CASE r \in Snapshotted
    <3>1. seen' = [seen EXCEPT ![i][r] = value]
      BY <1>3, <1>9, <2>2 DEF Keep
    <3> QED
      BY <1>1, <2>1, <2>2, <3>1
  <2>3. CASE r \notin Snapshotted
    <3>1. seen' = seen
      BY <1>3, <2>3 DEF Keep
    <3> QED
      BY <2>1, <2>3, <3>1
  <2> QED
    BY <2>2, <2>3
<1>12. /\ shared' \in [Shared -> [reader : Nat, value : Values]]
       /\ \A s \in Shared : shared'[s].reader = shared[s].reader
  <2> HIDE DEF r
  <2>1. shared \in [Shared -> [reader : Nat, value : Values]]
    BY DEF ReadInv, RunTypes
  <2>2. CASE r \in Shared
    <3>1. shared' = [shared EXCEPT ![r].value = value]
      BY <1>3, <1>9, <2>2 DEF Keep
    <3> QED
      BY <1>1, <2>1, <2>2, <3>1
  <2>3. CASE r \notin Shared
    <3>1. shared' = shared
      BY <1>3, <2>3 DEF Keep
    <3> QED
      BY <2>1, <2>3, <3>1
  <2> QED
    BY <2>2, <2>3
<1> HIDE DEF r
<1>13. RunTypes'
  BY <1>6, <1>7, <1>10, <1>11, <1>12 DEF ReadInv, RunTypes
<1>14. ASSUME NEW j \in Jobs PROVE Remembered(j)'
  <2>1. ASSUME NEW s \in Snapshotted, seen'[j][s] = "unread" PROVE TimesRead(j, s)' = 0
    BY <1>1, <1>5, <1>11, <2>1 DEF ReadInv, Remembered
  <2>2. ASSUME NEW s \in Shared, TimesRead(j, s)' > 0 PROVE shared'[s].reader = j
    BY <1>4, <1>5, <1>8, <1>12, <2>2 DEF ReadInv, Remembered
  <2>3. ASSUME NEW s \in Snapshotted \cup Shared \cup {"hpa"} PROVE TimesRead(j, s)' <= 1
    BY <1>4, <1>5, <1>8 DEF ReadInv, Remembered
  <2> QED
    BY <2>1, <2>2, <2>3 DEF Remembered
<1>15. ASSUME NEW j \in Jobs PROVE InProgress(j)'
  <2>1. CASE j = i
    BY <1>6, <1>7, <2>1 DEF InProgress, InRead
  <2>2. CASE j # i
    BY <1>5, <1>7, <1>8, <1>11, <1>12, <2>2 DEF ReadInv, InProgress, InRead
  <2> QED
    BY <2>1, <2>2
<1> QED
  BY <1>13, <1>14, <1>15 DEF ReadInv

LEMMA Replies ==
  ASSUME ReadInv, NEW i \in Jobs, NEW answer, Reply(i, answer)
  PROVE  ReadInv'
<1>1. InRead(i)
  BY DEF Reply, InRead
<1>2. UNCHANGED cancelled
  BY DEF Reply
<1>3. CASE RetriesAfter(job[i].tries, answer) /\ job[i].read \notin Unretried
  <2> DEFINE j == job[i]
             f == [j EXCEPT !.phase = "pausing"]
  <2>1. job' = [job EXCEPT ![i] = f] /\ UNCHANGED <<seen, shared, log>>
    BY <1>3 DEF Reply
  <2>2. IsJob(j) /\ j.read = job[i].read
    BY DEF ReadInv, RunTypes
  <2> HIDE DEF j
  <2>3. IsJob(f) /\ f.phase = "pausing" /\ f.read = j.read
    BY <2>2, JobFields DEF Phases
  <2> HIDE DEF f
  <2> QED
    BY <1>1, <1>2, <2>1, <2>2, <2>3, Moved
<1>4. CASE ~(RetriesAfter(job[i].tries, answer) /\ job[i].read \notin Unretried)
  <2>1. Settle(i, answer)
    BY <1>4 DEF Reply
  <2> QED
    BY <1>1, <1>2, <2>1, Settles
<1> QED
  BY <1>3, <1>4

LEMMA Resumes ==
  ASSUME ReadInv, NEW i \in Jobs, Resume(i)
  PROVE  ReadInv'
<1>1. InRead(i)
  BY DEF Resume, InRead
<1>2. UNCHANGED cancelled
  BY DEF Resume
<1>3. CASE cancelled
  <2>1. Settle(i, "refused")
    BY <1>3 DEF Resume
  <2> QED
    BY <1>1, <1>2, <2>1, Settles
<1>4. CASE ~cancelled
  <2> DEFINE j == job[i]
             n == j.tries + 1
             k == [j EXCEPT !.phase = "calling"]
             f == [k EXCEPT !.tries = n]
  <2>1. IsJob(j) /\ j.read = job[i].read
    BY DEF ReadInv, RunTypes
  <2>2. job' = [job EXCEPT ![i] = f] /\ UNCHANGED <<seen, shared, log>>
    BY <1>4 DEF Resume
  <2> HIDE DEF j, n
  <2>3. IsJob(k) /\ k.phase = "calling" /\ k.read = j.read
    BY <2>1, JobFields DEF Phases
  <2> HIDE DEF k
  <2>4. IsJob(f) /\ f.phase = "calling" /\ f.read = j.read
    BY <2>3, JobFields
  <2> HIDE DEF f
  <2> QED
    BY <1>1, <1>2, <2>1, <2>2, <2>4, Moved
<1> QED
  BY <1>3, <1>4

LEMMA EndsDiagnosis ==
  ASSUME ReadInv, NEW i \in Jobs, EndDiagnosis(i)
  PROVE  ReadInv'
<1> DEFINE j == job[i]
           k == [j EXCEPT !.phase = "between"]
           f == [k EXCEPT !.got = <<>>]
<1>1. IsJob(j)
  BY DEF ReadInv, RunTypes
<1>2. job' = [job EXCEPT ![i] = f] /\ UNCHANGED <<seen, shared, log, cancelled>>
  BY DEF EndDiagnosis
<1> HIDE DEF j
<1>3. IsJob(k) /\ k.phase = "between"
  BY <1>1, JobFields DEF Phases
<1> HIDE DEF k
<1>4. IsJob(f) /\ f.phase = "between"
  BY <1>3, JobFields
<1> HIDE DEF f
<1> QED
  BY <1>2, <1>4, Moved

LEMMA NextDiagnoses ==
  ASSUME ReadInv, NEW i \in Jobs, NextDiagnosis(i)
  PROVE  ReadInv'
<1> DEFINE j == job[i]
           n == NextStep(i, job[i].at)
           k == [j EXCEPT !.phase = "ready"]
           f == [k EXCEPT !.at = n]
           done == [Free EXCEPT !.phase = "done"]
<1>1. IsJob(j)
  BY DEF ReadInv, RunTypes
<1>2. UNCHANGED <<seen, shared, log, cancelled>>
  BY DEF NextDiagnosis
<1>3. \/ job' = [job EXCEPT ![i] = done]
      \/ job' = [job EXCEPT ![i] = f]
  BY DEF NextDiagnosis, End
<1>4. IsJob(done) /\ done.phase = "done"
  BY FreeJob DEF Phases
<1> HIDE DEF j, n, done
<1>5. IsJob(k) /\ k.phase = "ready"
  BY <1>1, JobFields DEF Phases
<1> HIDE DEF k
<1>6. IsJob(f) /\ f.phase = "ready"
  BY <1>5, JobFields
<1> HIDE DEF f
<1> QED
  BY <1>2, <1>3, <1>4, <1>6, Moved

-----------------------------------------------------------------------------
LEMMA RunStarts ==
  ASSUME RunInit
  PROVE  ReadInv
<1>1. /\ job = [i \in Jobs |-> [Free EXCEPT !.phase = "waiting"]]
      /\ seen = [i \in Jobs |-> [r \in Snapshotted |-> "unread"]]
      /\ shared = [r \in Shared |-> [reader |-> 0, value |-> "unread"]]
      /\ log = [i \in Jobs |-> <<>>]
      /\ cancelled = FALSE
  BY DEF RunInit
<1>2. IsJob([Free EXCEPT !.phase = "waiting"]) /\ [Free EXCEPT !.phase = "waiting"].phase = "waiting"
  BY FreeJob DEF Phases
<1>3. \A i \in Jobs : IsJob(job[i]) /\ job[i].phase = "waiting"
  BY <1>1, <1>2
<1>4. seen \in [Jobs -> [Snapshotted -> Values]] /\ shared \in [Shared -> [reader : Nat, value : Values]]
  BY <1>1 DEF Values
<1>5. log \in [Jobs -> Seq(Entries)]
  BY <1>1
<1>6. job = [i \in Jobs |-> job[i]]
  BY <1>1
<1>7. RunTypes
  BY <1>1, <1>3, <1>4, <1>5, <1>6 DEF RunTypes
<1>8. ASSUME NEW i \in Jobs, NEW r PROVE TimesRead(i, r) = 0
  <2>1. log[i] = <<>>
    BY <1>1
  <2>2. ReadsOf(log[i], r) = {}
    BY <2>1 DEF ReadsOf
  <2> QED
    BY <2>2, TimesReadIs, FS_EmptySet
<1>9. ASSUME NEW i \in Jobs PROVE InProgress(i) /\ Remembered(i)
  BY <1>3, <1>8 DEF InProgress, InRead, Remembered
<1> QED
  BY <1>7, <1>9 DEF ReadInv

LEMMA RunSteps ==
  ASSUME ReadInv, [RunNext]_runVars
  PROVE  ReadInv'
<1>1. ASSUME NEW i \in Jobs, JobStep(i) PROVE ReadInv'
  BY <1>1, StartsOrEnds, Resumes, Begins, Founds, Skips, EndsDiagnosis, NextDiagnoses, Replies DEF JobStep
<1>2. CASE Cancel
  <2>1. UNCHANGED <<job, seen, shared, log>> /\ cancelled' = TRUE
    BY <1>2 DEF Cancel
  <2>2. RunTypes'
    BY <2>1 DEF ReadInv, RunTypes
  <2>3. ASSUME NEW j \in Jobs PROVE InProgress(j)' /\ Remembered(j)'
    BY <2>1, SameReads DEF ReadInv, InProgress, InRead, Remembered
  <2> QED
    BY <2>2, <2>3 DEF ReadInv
<1>3. CASE Finish \/ UNCHANGED runVars
  <2>1. UNCHANGED <<job, seen, shared, log, cancelled>>
    BY <1>3 DEF Finish, runVars
  <2>2. RunTypes'
    BY <2>1 DEF ReadInv, RunTypes
  <2>3. ASSUME NEW j \in Jobs PROVE InProgress(j)' /\ Remembered(j)'
    BY <2>1, SameReads DEF ReadInv, InProgress, InRead, Remembered
  <2> QED
    BY <2>2, <2>3 DEF ReadInv
<1> QED
  BY <1>1, <1>2, <1>3 DEF RunNext

LEMMA InvariantReadsOnce ==
  ASSUME ReadInv
  PROVE  ReadsOnce
<1>1. ASSUME NEW i \in Jobs, NEW r \in Snapshotted \cup Shared \cup {"hpa"} PROVE TimesRead(i, r) <= 1
  BY DEF ReadInv, Remembered
<1>2. ASSUME NEW r \in Shared PROVE Cardinality({i \in Jobs : TimesRead(i, r) > 0}) <= 1
  <2> DEFINE readers == {i \in Jobs : TimesRead(i, r) > 0}
             only    == shared[r].reader
  <2>1. readers \subseteq {only}
    BY DEF ReadInv, Remembered
  <2>2. IsFiniteSet({only}) /\ Cardinality({only}) = 1
    BY FS_Singleton
  <2> HIDE DEF readers, only
  <2>3. Cardinality(readers) <= Cardinality({only})
    BY <2>1, <2>2, FS_Subset
  <2> QED
    BY <2>2, <2>3 DEF readers
<1> QED
  BY <1>1, <1>2 DEF ReadsOnce

(***************************************************************************)
(* However many names a run is given, with whatever flags, concurrency,    *)
(* failures and interleaving, no job reads its HPA, its target, its pods   *)
(* or its replica sets twice, and no two jobs list the cluster             *)
(* (src/internal/observation/snapshot.go, src/internal/kube/capacity.go).  *)
(***************************************************************************)
THEOREM EveryReadOnce == RunSpec => []ReadsOnce
<1>1. RunInit => ReadInv
  BY RunStarts
<1>2. ReadInv /\ [RunNext]_runVars => ReadInv'
  BY RunSteps
<1>3. ReadInv => ReadsOnce
  BY InvariantReadsOnce
<1> QED
  BY <1>1, <1>2, <1>3, PTL DEF RunSpec

-----------------------------------------------------------------------------
\* The polling loop.

WatchSpec == WatchInit /\ [][WatchNext]_watchVars

LoopPhases == {"polling", "waiting", "met", "failed", "stopped"}

\* The snapshots shown are the latest of all that were seen.
Latest(shown, all) ==
  /\ shown \in Seq(Observed) /\ all \in Seq(Observed)
  /\ Len(shown) = IF Len(all) < WindowSize THEN Len(all) ELSE WindowSize
  /\ \A k \in 1 .. Len(shown) : shown[k] = all[Len(all) - Len(shown) + k]

(***************************************************************************)
(* A loop with a condition that has not met it saw no report that has it.  *)
(***************************************************************************)
WatchInv ==
  /\ loop \in [kind : {"watch", "list", "timeline"}, phase : LoopPhases, until : BOOLEAN]
  /\ polled \in Seq(Observed) /\ window \in Seq(Observed)
  /\ loop.kind = "timeline" => Latest(window, polled)
  /\ loop.until => \A k \in 1 .. Len(polled) - 1 : polled[k] \notin Awaited
  /\ loop.until /\ loop.phase # "met" => \A k \in 1 .. Len(polled) : polled[k] \notin Awaited

\* Sliding keeps the latest of what was appended.
LEMMA SlideKeepsLatest ==
  ASSUME NEW all, NEW shown, NEW x \in Observed, Latest(shown, all)
  PROVE  Latest(Slide(shown, x), Append(all, x))
<1> DEFINE now  == Append(all, x)
           more == Append(shown, x)
           next == Slide(shown, x)
<1>0. /\ shown \in Seq(Observed) /\ all \in Seq(Observed)
      /\ Len(shown) = IF Len(all) < WindowSize THEN Len(all) ELSE WindowSize
      /\ \A k \in 1 .. Len(shown) : shown[k] = all[Len(all) - Len(shown) + k]
  BY DEF Latest
<1>1. WindowSize \in Nat /\ WindowSize >= 1 /\ Len(all) \in Nat /\ Len(shown) \in Nat
  BY <1>0, WatchAssumption DEF WatchAssumption
<1>2. /\ now \in Seq(Observed) /\ Len(now) = Len(all) + 1 /\ now[Len(all) + 1] = x
      /\ \A k \in 1 .. Len(all) : now[k] = all[k]
  BY <1>0
<1>3. /\ more \in Seq(Observed) /\ Len(more) = Len(shown) + 1 /\ more[Len(shown) + 1] = x
      /\ \A k \in 1 .. Len(shown) : more[k] = shown[k]
  BY <1>0
<1>4. next = IF Len(more) > WindowSize THEN SubSeq(more, Len(more) - WindowSize + 1, Len(more)) ELSE more
  BY DEF Slide
<1> HIDE DEF now, more, next
<1>5. \A k \in 1 .. Len(more) : more[k] = now[Len(now) - Len(more) + k]
  <2> SUFFICES ASSUME NEW k \in 1 .. Len(more) PROVE more[k] = now[Len(now) - Len(more) + k]
    OBVIOUS
  <2> DEFINE place == Len(all) - Len(shown) + k
  <2>1. k \in Nat /\ Len(now) - Len(more) + k = place
    BY <1>1, <1>2, <1>3
  <2>2. CASE k = Len(shown) + 1
    <3>1. place = Len(all) + 1
      <4>1. \A a, s \in Nat : a - s + (s + 1) = a + 1
        OBVIOUS
      <4> QED
        BY <1>1, <2>2, <4>1
    <3>2. more[k] = x /\ now[place] = x
      BY <1>2, <1>3, <2>2, <3>1
    <3> QED
      BY <2>1, <3>2
  <2>3. CASE k # Len(shown) + 1
    <3>1. k \in 1 .. Len(shown)
      BY <1>1, <1>3, <2>3
    <3>2. place \in 1 .. Len(all)
      BY <1>0, <1>1, <3>1
    <3>3. more[k] = shown[k] /\ shown[k] = all[place]
      BY <1>0, <1>3, <3>1
    <3> HIDE DEF place
    <3>4. now[place] = all[place]
      BY <1>2, <3>2
    <3> QED
      BY <2>1, <3>3, <3>4
  <2> QED
    BY <2>2, <2>3
<1>6. ASSUME Len(more) > WindowSize PROVE Latest(next, now)
  <2>1. next = SubSeq(more, 2, Len(more)) /\ Len(more) = WindowSize + 1
    BY <1>0, <1>1, <1>3, <1>4, <1>6
  <2>2. /\ next \in Seq(Observed) /\ Len(next) = Len(more) - 1
        /\ \A k \in 1 .. Len(next) : next[k] = more[k + 1]
    BY <1>1, <1>3, <2>1
  <2>3. ASSUME NEW k \in 1 .. Len(next) PROVE next[k] = now[Len(now) - Len(next) + k]
    <3>1. k + 1 \in 1 .. Len(more) /\ next[k] = more[k + 1]
      BY <1>1, <1>3, <2>2
    <3>2. more[k + 1] = now[Len(now) - Len(more) + (k + 1)]
      BY <1>5, <3>1
    <3>3. Len(now) - Len(more) + (k + 1) = Len(now) - Len(next) + k
      BY <1>1, <1>2, <1>3, <2>2
    <3> QED
      BY <3>1, <3>2, <3>3
  <2>4. Len(next) = IF Len(now) < WindowSize THEN Len(now) ELSE WindowSize
    BY <1>0, <1>1, <1>2, <1>3, <1>6, <2>1, <2>2
  <2> QED
    BY <1>2, <2>2, <2>3, <2>4 DEF Latest
<1>7. ASSUME ~(Len(more) > WindowSize) PROVE Latest(next, now)
  <2>1. next = more
    BY <1>4, <1>7
  <2>2. Len(more) = IF Len(now) < WindowSize THEN Len(now) ELSE WindowSize
    BY <1>0, <1>1, <1>2, <1>3, <1>7
  <2> QED
    BY <1>2, <1>3, <1>5, <2>1, <2>2 DEF Latest
<1>8. Latest(next, now)
  BY <1>6, <1>7
<1> QED
  BY <1>8 DEF next, now

LEMMA PollKeeps ==
  ASSUME WatchInv, NEW report \in Observed, PollDone(report)
  PROVE  WatchInv'
<1>1. /\ polled' = Append(polled, report)
      /\ window' = IF loop.kind = "timeline" THEN Slide(window, report) ELSE <<>>
      /\ loop' = [loop EXCEPT !.phase = IF loop.until /\ report \in Awaited THEN "met" ELSE "waiting"]
      /\ loop.phase = "polling"
  BY DEF PollDone
<1>2. /\ loop' \in [kind : {"watch", "list", "timeline"}, phase : LoopPhases, until : BOOLEAN]
      /\ loop'.kind = loop.kind /\ loop'.until = loop.until
      /\ loop'.phase # "met" => ~(loop.until /\ report \in Awaited)
  BY <1>1 DEF WatchInv, LoopPhases
<1>3. /\ polled' \in Seq(Observed) /\ Len(polled') = Len(polled) + 1 /\ Len(polled) \in Nat
      /\ polled'[Len(polled) + 1] = report /\ \A k \in 1 .. Len(polled) : polled'[k] = polled[k]
  BY <1>1 DEF WatchInv
<1>4. window' \in Seq(Observed) /\ (loop.kind = "timeline" => Latest(window', polled'))
  <2>1. CASE loop.kind = "timeline"
    <3>1. Latest(window', polled')
      BY <1>1, <2>1, SlideKeepsLatest DEF WatchInv
    <3> QED
      BY <3>1 DEF Latest
  <2>2. CASE loop.kind # "timeline"
    BY <1>1, <2>2
  <2> QED
    BY <2>1, <2>2
<1>5. loop.until => \A k \in 1 .. Len(polled) : polled[k] \notin Awaited
  BY <1>1 DEF WatchInv
<1>6. loop'.until => \A k \in 1 .. Len(polled') - 1 : polled'[k] \notin Awaited
  BY <1>2, <1>3, <1>5
<1>7. loop'.until /\ loop'.phase # "met" => \A k \in 1 .. Len(polled') : polled'[k] \notin Awaited
  BY <1>2, <1>3, <1>5
<1> QED
  BY <1>2, <1>3, <1>4, <1>6, <1>7 DEF WatchInv

LEMMA WatchSteps ==
  ASSUME WatchInv, [WatchNext]_watchVars
  PROVE  WatchInv'
<1>1. ASSUME NEW report \in Observed, PollDone(report) PROVE WatchInv'
  BY <1>1, PollKeeps
<1>2. CASE PollFails \/ TickArrives \/ StopLoop
  <2>1. UNCHANGED <<window, polled>>
    BY <1>2 DEF PollFails, TickArrives, StopLoop
  <2>2. /\ loop' \in [kind : {"watch", "list", "timeline"}, phase : LoopPhases, until : BOOLEAN]
        /\ loop'.kind = loop.kind /\ loop'.until = loop.until /\ loop.phase # "met"
    BY <1>2 DEF WatchInv, LoopPhases, PollFails, TickArrives, StopLoop
  <2> QED
    BY <2>1, <2>2 DEF WatchInv, Latest
<1>3. CASE UNCHANGED watchVars
  BY <1>3 DEF WatchInv, Latest, watchVars
<1> QED
  BY <1>1, <1>2, <1>3 DEF WatchNext

(***************************************************************************)
(* Whatever the size of the window and the number of polls, the timeline   *)
(* draws the latest snapshots in order, and a watch that waits for a       *)
(* condition does not poll on past a report that had it (src/cmd/watch.go, *)
(* src/cmd/timeline.go).                                                   *)
(***************************************************************************)
THEOREM TimelineIsLatest == WatchSpec => []WindowIsLatest
<1>1. WatchInit => WatchInv
  BY WatchAssumption DEF WatchAssumption, WatchInit, WatchInv, LoopPhases, Latest
<1>2. WatchInv /\ [WatchNext]_watchVars => WatchInv'
  BY WatchSteps
<1>3. WatchInv => WindowIsLatest
  <2> SUFFICES ASSUME WatchInv PROVE WindowIsLatest
    OBVIOUS
  <2>1. DOMAIN window = 1 .. Len(window)
    BY DEF WatchInv
  <2> QED
    BY <2>1 DEF WatchInv, Latest, WindowIsLatest
<1> QED
  BY <1>1, <1>2, <1>3, PTL DEF WatchSpec

-----------------------------------------------------------------------------
\* What the reports of a run show.

Remembrances == Snapshotted \cup Shared

\* What job i would use for a read that is remembered.
Answered(i, r) == IF r \in Snapshotted THEN seen[i][r] ELSE shared[r].value

Enriching == ~(mode = "status" /\ "no-enrich" \in flags)

EnabledAt(i, p) == p \in DOMAIN Pipeline /\ Enabled(i, Pipeline[p][2])

InDiagnosis(i) == \E p \in DOMAIN Pipeline : p = job[i].at /\ EnabledAt(i, p)

(***************************************************************************)
(* Where a job is: the HPA is read before any diagnosis, every other read  *)
(* is one of an enabled diagnosis and is not yet answered, and pods and    *)
(* replica sets are those of a target that is known.                       *)
(***************************************************************************)
Placed(i) ==
  /\ job[i].at \in 0 .. Len(Pipeline)
  /\ job[i].phase = "waiting" => job[i].at = 0
  /\ job[i].phase = "ready" => InDiagnosis(i)
  /\ InRead(i) =>
       IF job[i].read = "hpa" THEN job[i].at = 0
       ELSE /\ InDiagnosis(i)
            /\ job[i].read \in Dependent => seen[i]["target"] = "known"
            /\ \A r \in Remembrances : r = job[i].read => Answered(i, r) = "unread"
  /\ \A r \in Dependent : seen[i][r] # "unread" => seen[i]["target"] = "known"

\* The diagnosis at position p of the pipeline is over for job i.
Over(i, p) ==
  \/ result[i] = "report"
  \/ job[i].phase = "between" /\ p <= job[i].at
  \/ job[i].phase \in {"ready", "calling", "pausing"} /\ p < job[i].at

(***************************************************************************)
(* A diagnosis that is over shows the reads it rests on that failed; one   *)
(* that it never made is one it cannot make any more.                      *)
(***************************************************************************)
ShownAt(i, p, r) ==
  Pipeline[p][2] \in RestOn(r) =>
    /\ Answered(i, r) = "failed" => <<Pipeline[p][2], r>> \in warned[i] \cup Silent
    /\ Answered(i, r) = "unread" => r \in Dependent /\ seen[i]["target"] \notin {"unread", "known"}

Shown(i) ==
  \A p \in DOMAIN Pipeline : EnabledAt(i, p) /\ Over(i, p) => \A r \in Remembrances : ShownAt(i, p, r)

(***************************************************************************)
(* What was read is what is remembered; a late read came after Ctrl+C; an  *)
(* HPA that was not read ends its job; --no-enrich reads nothing else.     *)
(***************************************************************************)
EntryAgrees(i, k) ==
  LET e == log[i][k] IN
  /\ \A r \in Remembrances : r = e.read => Answered(i, r) = e.value /\ e.value # "unread"
  /\ e.late => cancelled
  /\ e.read = "hpa" /\ e.value # "known" => job[i].phase = "done" /\ result[i] # "report"
  /\ e.read # "hpa" => Enriching

Agrees(i) == \A k \in DOMAIN log[i] : EntryAgrees(i, k)

\* Warnings about shared reads are true, and only diagnoses give any.
Warned(i) ==
  \A w \in warned[i] : Enriching /\ (w[2] \in Shared => shared[w[2]].value = "failed")

Reported(i) ==
  /\ result[i] = "report" => job[i].phase = "done"
  /\ i \in recorded => result[i] = "report"

\* A status report shows no read that failed because of Ctrl+C.
Untruncated(i) ==
  mode = "status" /\ result[i] = "report" =>
    \A j \in Jobs : \A k \in DOMAIN log[j] :
      log[j][k].late /\ log[j][k].value = "failed" =>
        j # i /\ \A w \in warned[i] : log[j][k].read \in Shared => w[2] # log[j][k].read

Told(i) == Placed(i) /\ Shown(i) /\ Agrees(i) /\ Warned(i) /\ Reported(i) /\ Untruncated(i)

RunInv == ReadInv /\ \A i \in Jobs : Told(i)

-----------------------------------------------------------------------------
\* A diagnosis wants what it rests on.

\* Every element of either half is one of the whole.
Within(s, x) == \E k \in DOMAIN s : s[k] = x

LEMMA WithinJoined ==
  ASSUME NEW S, NEW u \in Seq(S), NEW v \in Seq(S), NEW x, Within(u, x) \/ Within(v, x)
  PROVE  Within(u \o v, x)
<1>1. /\ Len(u) \in Nat /\ Len(v) \in Nat /\ DOMAIN u = 1 .. Len(u) /\ DOMAIN v = 1 .. Len(v)
      /\ DOMAIN (u \o v) = 1 .. Len(u) + Len(v)
      /\ \A k \in 1 .. Len(u) : (u \o v)[k] = u[k]
      /\ \A k \in 1 .. Len(v) : (u \o v)[Len(u) + k] = v[k]
  OBVIOUS
<1>2. CASE Within(u, x)
  <2>1. PICK k \in 1 .. Len(u) : u[k] = x
    BY <1>1, <1>2 DEF Within
  <2>2. k \in DOMAIN (u \o v) /\ (u \o v)[k] = x
    BY <1>1, <2>1
  <2> QED
    BY <2>2 DEF Within
<1>3. CASE Within(v, x)
  <2>1. PICK k \in 1 .. Len(v) : v[k] = x
    BY <1>1, <1>3 DEF Within
  <2>2. Len(u) + k \in DOMAIN (u \o v) /\ (u \o v)[Len(u) + k] = x
    BY <1>1, <2>1
  <2> QED
    BY <2>2 DEF Within
<1> QED
  BY <1>2, <1>3

LEMMA TargetFirst ==
  ASSUME NEW of, NEW S, "target" \in S, NEW s \in Seq(S)
  PROVE  /\ TargetThen(of, s) \in Seq(S)
         /\ Within(TargetThen(of, s), "target")
         /\ Got(of, "target") => \A x : Within(s, x) => Within(TargetThen(of, s), x)
<1>1. <<"target">> \in Seq(S) /\ <<>> \in Seq(S) /\ Within(<<"target">>, "target")
  BY DEF Within
<1>2. /\ When(Got(of, "target"), s) \in Seq(S)
      /\ Got(of, "target") => When(Got(of, "target"), s) = s
  BY <1>1 DEF When
<1> QED
  BY <1>1, <1>2, Joined, WithinJoined DEF TargetThen

(***************************************************************************)
(* A diagnosis that rests on the target, or on a shared read, always wants *)
(* it; one that rests on pods or replica sets wants them of a known target.*)
(***************************************************************************)
LEMMA WantsWhatItRestsOn ==
  ASSUME NEW of, NEW r \in Remembrances, NEW d \in RestOn(r)
  PROVE  /\ r \in Dependent => Within(Wanted(d, of), "target")
         /\ r \in Dependent /\ Got(of, "target") => Within(Wanted(d, of), r)
         /\ r \notin Dependent => Within(Wanted(d, of), r)
<1> DEFINE S == Reads
<1>1. /\ {"target", "pods", "replicasets", "cluster", "autoscaler", "quotas", "pdbs", "objectevents",
          "nodes", "limitranges", "podmetrics"} \subseteq S
  BY DEF Reads, Snapshotted, Shared, Unretried
<1> HIDE DEF S
<1>2. /\ <<"pods">> \in Seq(S) /\ <<"pods", "quotas", "pdbs">> \in Seq(S) /\ <<"cluster">> \in Seq(S)
      /\ <<"pods", "replicasets", "objectevents">> \in Seq(S) /\ <<"pods", "objectevents">> \in Seq(S)
      /\ <<"quotas", "nodes">> \in Seq(S) /\ <<"podmetrics">> \in Seq(S) /\ <<>> \in Seq(S)
      /\ <<"quotas", "limitranges", "cluster", "pdbs", "autoscaler">> \in Seq(S)
  BY <1>1
<1>3. /\ Within(<<"pods">>, "pods") /\ Within(<<"pods", "quotas", "pdbs">>, "pods")
      /\ Within(<<"pods", "replicasets", "objectevents">>, "pods")
      /\ Within(<<"pods", "objectevents">>, "pods")
  BY DEF Within
<1>4. Within(<<"pods", "replicasets", "objectevents">>, "replicasets")
  <2>1. <<"pods", "replicasets", "objectevents">>[2] = "replicasets"
    OBVIOUS
  <2> QED
    BY <2>1 DEF Within
<1>5. /\ Within(<<"quotas", "limitranges", "cluster", "pdbs", "autoscaler">>, "cluster")
      /\ Within(<<"quotas", "limitranges", "cluster", "pdbs", "autoscaler">>, "autoscaler")
  <2>1. /\ <<"quotas", "limitranges", "cluster", "pdbs", "autoscaler">>[3] = "cluster"
        /\ <<"quotas", "limitranges", "cluster", "pdbs", "autoscaler">>[5] = "autoscaler"
    OBVIOUS
  <2> QED
    BY <2>1 DEF Within
<1>6. d \in {"target-replica-observations", "pod-analysis", "rollout"} =>
        Wanted(d, of) = TargetThen(of, <<"pods">>)
  BY DEF Wanted
<1>7. /\ d = "context" => Wanted(d, of) = TargetThen(of, <<"pods", "quotas", "pdbs">>)
      /\ d = "headroom" => Wanted(d, of) = TargetThen(of, <<"cluster">>)
      /\ d = "scale-path" => Wanted(d, of) = TargetThen(of, <<"pods", "replicasets", "objectevents">>)
  BY DEF Wanted, ContextReads, HeadroomReads, ScalePathReads
<1>8. /\ d = "readiness-impact" =>
           Wanted(d, of) = TargetThen(of, <<"pods">>) \o When(Got(of, "pods"), <<"podmetrics">>)
      /\ d = "blockers" =>
           Wanted(d, of) = TargetThen(of, <<"pods", "objectevents">>) \o <<"quotas", "nodes">>
      /\ d = "capacity-plan" =>
           Wanted(d, of) = TargetThen(of, <<"pods">>)
                           \o <<"quotas", "limitranges", "cluster", "pdbs", "autoscaler">>
  BY DEF Wanted, ReadinessReads, BlockerReads, CapacityPlanReads
<1>9. When(Got(of, "pods"), <<"podmetrics">>) \in Seq(S)
  BY <1>2 DEF When
<1>10. ASSUME NEW s \in Seq(S), NEW v \in Seq(S)
       PROVE  /\ Within(TargetThen(of, s) \o v, "target") /\ Within(TargetThen(of, s), "target")
              /\ \A x : Got(of, "target") /\ Within(s, x) =>
                          Within(TargetThen(of, s) \o v, x) /\ Within(TargetThen(of, s), x)
              /\ \A x : Within(v, x) => Within(TargetThen(of, s) \o v, x)
  <2>1. TargetThen(of, s) \in Seq(S)
    BY <1>1, TargetFirst
  <2>2. Within(TargetThen(of, s), "target")
    BY <1>1, TargetFirst
  <2>3. Got(of, "target") => \A x : Within(s, x) => Within(TargetThen(of, s), x)
    BY <1>1, TargetFirst
  <2> QED
    BY <2>1, <2>2, <2>3, WithinJoined
<1>11. d \in {"target-replica-observations", "pod-analysis", "rollout", "context", "headroom",
              "scale-path", "readiness-impact", "blockers", "capacity-plan"}
         => Within(Wanted(d, of), "target")
  <2>1. d \in {"target-replica-observations", "pod-analysis", "rollout", "context", "headroom",
               "scale-path"} => Within(Wanted(d, of), "target")
    BY <1>2, <1>6, <1>7, <1>10
  <2>2. d = "readiness-impact" => Within(Wanted(d, of), "target")
    BY <1>2, <1>8, <1>9, <1>10
  <2>3. d = "blockers" => Within(Wanted(d, of), "target")
    BY <1>2, <1>8, <1>10
  <2>4. d = "capacity-plan" => Within(Wanted(d, of), "target")
    BY <1>2, <1>8, <1>10
  <2> QED
    BY <2>1, <2>2, <2>3, <2>4
<1>12. ASSUME Got(of, "target"),
              d \in {"target-replica-observations", "pod-analysis", "rollout", "context",
                     "scale-path", "readiness-impact", "blockers", "capacity-plan"}
       PROVE  Within(Wanted(d, of), "pods")
  <2>1. d \in {"target-replica-observations", "pod-analysis", "rollout"} => Within(Wanted(d, of), "pods")
    BY <1>2, <1>3, <1>6, <1>10, <1>12
  <2>2. d \in {"context", "scale-path"} => Within(Wanted(d, of), "pods")
    BY <1>2, <1>3, <1>7, <1>10, <1>12
  <2>3. d = "readiness-impact" => Within(Wanted(d, of), "pods")
    BY <1>2, <1>3, <1>8, <1>9, <1>10, <1>12
  <2>4. d = "blockers" => Within(Wanted(d, of), "pods")
    BY <1>2, <1>3, <1>8, <1>10, <1>12
  <2>5. d = "capacity-plan" => Within(Wanted(d, of), "pods")
    BY <1>2, <1>3, <1>8, <1>10, <1>12
  <2> QED
    BY <1>12, <2>1, <2>2, <2>3, <2>4, <2>5
<1>13. CASE r = "target"
  <2>1. d \in {"target-replica-observations", "pod-analysis", "context", "headroom",
               "readiness-impact", "scale-path", "rollout", "blockers", "capacity-plan"}
    BY <1>13 DEF RestOn, Shared
  <2> QED
    BY <1>11, <1>13, <2>1 DEF Dependent
<1>14. CASE r = "pods"
  <2>1. d \in {"target-replica-observations", "pod-analysis", "context",
               "readiness-impact", "scale-path", "rollout", "blockers", "capacity-plan"}
    BY <1>14 DEF RestOn, Shared
  <2> QED
    BY <1>11, <1>12, <1>14, <2>1 DEF Dependent
<1>15. CASE r = "replicasets"
  <2>1. d = "scale-path"
    BY <1>15 DEF RestOn, Shared
  <2>2. Got(of, "target") => Within(Wanted(d, of), "replicasets")
    BY <1>2, <1>4, <1>7, <1>10, <2>1
  <2> QED
    BY <1>11, <1>15, <2>1, <2>2 DEF Dependent
<1>16. CASE r \in Shared
  <2>1. d = "capacity-plan" /\ r \in {"cluster", "autoscaler"}
    BY <1>16 DEF RestOn, Shared
  <2>2. Wanted(d, of) = TargetThen(of, <<"pods">>)
                        \o <<"quotas", "limitranges", "cluster", "pdbs", "autoscaler">>
    BY <1>8, <2>1
  <2>3. Within(Wanted(d, of), r)
    BY <1>2, <1>5, <1>10, <2>1, <2>2
  <2> QED
    BY <2>1, <2>3 DEF Dependent
<1> QED
  BY <1>13, <1>14, <1>15, <1>16 DEF Remembrances, Snapshotted

LEMMA KnownIs ==
  ASSUME NEW i, NEW r \in Remembrances
  PROVE  Known(i)[r] = Answered(i, r)
<1>1. r \in Reads /\ (r \in Snapshotted \/ r \in Shared)
  BY DEF Remembrances, Reads
<1> QED
  BY <1>1 DEF Known, Answered

\* A diagnosis that has nothing left to read knows all it wants.
LEMMA NothingOpen ==
  ASSUME NEW i, NextRead(i) = "none", NEW x, Within(Wanted(Diagnosis(i), Known(i)), x)
  PROVE  Known(i)[x] # "unread"
<1> DEFINE wanted == Wanted(Diagnosis(i), Known(i))
           open   == {k \in DOMAIN wanted : Known(i)[wanted[k]] = "unread"}
           first  == CHOOSE k \in open : \A j \in open : k <= j
<1>1. wanted \in Seq(Wantable)
  BY WantedReads
<1>2. NextRead(i) = IF open = {} THEN "none" ELSE wanted[first]
  BY DEF NextRead
<1>3. PICK k \in DOMAIN wanted : wanted[k] = x
  BY DEF Within
<1> HIDE DEF wanted
<1>4. CASE open = {}
  BY <1>3, <1>4
<1>5. CASE open # {}
  <2>1. open \in SUBSET Nat
    BY <1>1
  <2>2. first \in open
    <3> HIDE DEF open
    <3> QED
      BY <1>5, <2>1, LeastPosition
  <2>3. first \in DOMAIN wanted
    BY <2>2
  <2> HIDE DEF first, open
  <2>4. wanted[first] \in Wantable
    BY <1>1, <2>3
  <2>5. "none" \notin Wantable
    BY DEF Wantable, Reads, Snapshotted, Shared, Unretried
  <2> QED
    BY <1>2, <1>5, <2>4, <2>5
<1> QED
  BY <1>4, <1>5

\* Pods and replica sets are read of a known target only.
LEMMA DependentRead ==
  ASSUME NEW i, NextRead(i) \in Dependent
  PROVE  seen[i]["target"] = "known"
<1> DEFINE of == Known(i)
           wanted == Wanted(Diagnosis(i), of)
           open   == {k \in DOMAIN wanted : of[wanted[k]] = "unread"}
           first  == CHOOSE k \in open : \A j \in open : k <= j
<1>1. "target" \in Remembrances /\ "target" \in Snapshotted
  BY DEF Remembrances, Snapshotted
<1>2. of["target"] = seen[i]["target"]
  BY <1>1, KnownIs DEF Answered
<1>3. NextRead(i) = IF open = {} THEN "none" ELSE wanted[first]
  BY DEF NextRead
<1> HIDE DEF of
<1>4. SUFFICES ASSUME ~Got(of, "target") PROVE FALSE
  BY <1>2 DEF Got
<1>5. wanted \in Seq(Wantable \ Dependent)
  <2> DEFINE S == Wantable \ Dependent
  <2>1. Wantable \ Dependent \subseteq S
    OBVIOUS
  <2> HIDE DEF S
  <2>2. wanted \in Seq(S)
    BY <1>4, <2>1, WantedWithin
  <2> QED
    BY <2>2 DEF S
<1> HIDE DEF wanted
<1>6. open # {}
  BY <1>3 DEF Dependent
<1>7. open \in SUBSET Nat
  BY <1>5
<1>8. first \in open
  <2> HIDE DEF open
  <2> QED
    BY <1>6, <1>7, LeastPosition
<1>9. first \in DOMAIN wanted
  BY <1>8
<1> HIDE DEF first, open
<1> QED
  BY <1>3, <1>5, <1>6, <1>9

\* What a diagnosis that ends now leaves behind.
LEMMA Concluding ==
  ASSUME NEW i, NextRead(i) = "none", NEW r \in Remembrances, Diagnosis(i) \in RestOn(r),
         r \in Dependent /\ seen[i][r] # "unread" => seen[i]["target"] = "known"
  PROVE  /\ Answered(i, r) = "failed" => <<Diagnosis(i), r>> \in Warnings(i) \cup Silent
         /\ Answered(i, r) = "unread" => r \in Dependent /\ seen[i]["target"] \notin {"unread", "known"}
<1> DEFINE d == Diagnosis(i)
           of == Known(i)
<1>1. "target" \in Remembrances /\ of["target"] = seen[i]["target"] /\ of[r] = Answered(i, r)
  BY KnownIs DEF Answered, Remembrances, Snapshotted
<1>0. r \in Dependent /\ of[r] = "failed" => of["target"] = "known"
  BY <1>1 DEF Answered, Dependent, Snapshotted
<1>2. \A x : Within(Wanted(d, of), x) => of[x] # "unread"
  BY NothingOpen
<1>3. /\ r \in Dependent => Within(Wanted(d, of), "target")
      /\ r \in Dependent /\ Got(of, "target") => Within(Wanted(d, of), r)
      /\ r \notin Dependent => Within(Wanted(d, of), r)
  BY WantsWhatItRestsOn
<1>4. \A x : Within(Wanted(d, of), x) /\ of[x] = "failed" => <<d, x>> \in Warnings(i) \cup Silent
  BY DEF Warnings, Within
<1> HIDE DEF d, of
<1>5. ASSUME of[r] = "unread" PROVE r \in Dependent /\ of["target"] \notin {"unread", "known"}
  BY <1>2, <1>3, <1>5 DEF Got
<1>6. ASSUME of[r] = "failed"
      PROVE  <<d, r>> \in Warnings(i) \cup Silent
  BY <1>0, <1>3, <1>4, <1>6 DEF Got
<1> QED
  BY <1>1, <1>5, <1>6 DEF d

\* A report warns of shared reads that failed only.
LEMMA WarningsTrue ==
  ASSUME NEW i, NEW w \in Warnings(i), w[2] \in Shared
  PROVE  shared[w[2]].value = "failed"
<1>1. w[2] \in Remembrances /\ Answered(i, w[2]) = shared[w[2]].value
  BY DEF Remembrances, Answered, Snapshotted, Shared
<1>2. Known(i)[w[2]] = "failed"
  BY DEF Warnings
<1> QED
  BY <1>1, <1>2, KnownIs

-----------------------------------------------------------------------------
\* The pipeline.

LEMMA PipelineIs == Len(Pipeline) \in Nat /\ DOMAIN Pipeline = 1 .. Len(Pipeline)
<1>1. StatusPipeline = [k \in 1 .. 23 |-> StatusPipeline[k]]
  BY DEF StatusPipeline
<1>2. \A S : StatusPipeline = [k \in 1 .. 23 |-> StatusPipeline[k]] /\ (\A k \in 1 .. 23 : StatusPipeline[k] \in S)
            => StatusPipeline \in Seq(S)
  OBVIOUS
<1>3. StatusPipeline \in Seq({StatusPipeline[k] : k \in 1 .. 23})
  BY <1>1, <1>2
<1>4. ASSUME NEW x PROVE <<x>> \in Seq({x})
  OBVIOUS
<1>5. Pipeline \in Seq({StatusPipeline[k] : k \in 1 .. 23}) \/ Pipeline \in Seq({<<"blockers", "blockers">>})
  BY <1>3, <1>4 DEF Pipeline
<1>6. \A S : Pipeline \in Seq(S) => Len(Pipeline) \in Nat /\ DOMAIN Pipeline = 1 .. Len(Pipeline)
  OBVIOUS
<1> QED
  BY <1>5, <1>6

\* The next step is the first enabled diagnosis after k.
LEMMA NextStepIs ==
  ASSUME NEW i, NEW k \in 0 .. Len(Pipeline)
  PROVE  /\ NextStep(i, k) \in k + 1 .. Len(Pipeline) + 1
         /\ NextStep(i, k) <= Len(Pipeline) => Enabled(i, Pipeline[NextStep(i, k)][2])
         /\ \A p \in DOMAIN Pipeline : k < p /\ p < NextStep(i, k) => ~Enabled(i, Pipeline[p][2])
<1> DEFINE n == Len(Pipeline)
           on(j) == Enabled(i, Pipeline[j][2])
           later == {j \in DOMAIN Pipeline : j > k /\ on(j)}
           first == CHOOSE j \in later : \A l \in later : j <= l
<1>1. n \in Nat /\ DOMAIN Pipeline = 1 .. n
  BY PipelineIs
<1>2. NextStep(i, k) = IF later = {} THEN n + 1 ELSE first
  BY DEF NextStep
<1> HIDE DEF on, n
<1>3. CASE later = {}
  <2>1. k \in 0 .. n
    BY DEF n
  <2>2. NextStep(i, k) = n + 1
    BY <1>2, <1>3
  <2>3. /\ NextStep(i, k) \in k + 1 .. n + 1 /\ ~(NextStep(i, k) <= n)
        /\ \A p \in DOMAIN Pipeline : k < p => ~on(p)
    BY <1>1, <1>3, <2>1, <2>2
  <2> QED
    BY <2>3 DEF n, on
<1>4. CASE later # {}
  <2>1. later \in SUBSET Nat
    BY <1>1
  <2>2. first \in later /\ \A l \in later : first <= l
    <3> HIDE DEF later
    <3> QED
      BY <1>4, <2>1, LeastPosition
  <2> HIDE DEF first
  <2>3. NextStep(i, k) = first
    BY <1>2, <1>4
  <2>4. first \in 1 .. n /\ first > k /\ on(first) /\ k \in 0 .. n
    BY <1>1, <2>2 DEF n
  <2>5. ASSUME NEW p \in DOMAIN Pipeline, k < p, p < first PROVE ~on(p)
    BY <1>1, <2>2, <2>4, <2>5
  <2>6. first \in k + 1 .. n + 1
    BY <1>1, <2>4
  <2> QED
    BY <2>3, <2>4, <2>5, <2>6 DEF n, on
<1> QED
  BY <1>3, <1>4

\* The context is looked at before the report is declared whole.
LEMMA LooksAtTheEnd ==
  ASSUME mode = "status", Enriching
  PROVE  ChecksContext(Len(Pipeline) + 1)
BY PipelineIs DEF ChecksContext, Enriching

-----------------------------------------------------------------------------
\* What a step leaves true of a job.

SameSettings == UNCHANGED <<mode, flags>>

LEMMA SettingsKept ==
  ASSUME SameSettings
  PROVE  /\ Pipeline' = Pipeline /\ (Enriching' <=> Enriching)
         /\ \A i, p : EnabledAt(i, p)' <=> EnabledAt(i, p)
<1>1. mode' = mode /\ flags' = flags
  BY DEF SameSettings
<1>2. Pipeline' = Pipeline
  BY <1>1 DEF Pipeline
<1>3. ASSUME NEW i, NEW p PROVE EnabledAt(i, p)' <=> EnabledAt(i, p)
  BY <1>1, <1>2 DEF EnabledAt, Enabled
<1>4. Enriching' <=> Enriching
  BY <1>1 DEF Enriching
<1> QED
  BY <1>2, <1>3, <1>4

\* What is remembered stays as it is.
Grown(i) == \A r \in Remembrances : Answered(i, r) # "unread" => Answered(i, r)' = Answered(i, r)

LEMMA ShownStays ==
  ASSUME NEW i, Shown(i), Placed(i)', SameSettings, Grown(i), warned[i] \subseteq warned'[i],
         \A p \in DOMAIN Pipeline : EnabledAt(i, p) /\ Over(i, p)' => Over(i, p)
  PROVE  Shown(i)'
<1> SUFFICES ASSUME NEW p \in DOMAIN Pipeline, EnabledAt(i, p), Over(i, p)', NEW r \in Remembrances
             PROVE  ShownAt(i, p, r)'
  BY SettingsKept DEF Shown
<1>1. ShownAt(i, p, r)
  BY DEF Shown
<1>2. Pipeline'[p] = Pipeline[p]
  BY SettingsKept
<1>3. "target" \in Remembrances /\ "target" \in Snapshotted /\ Dependent \subseteq Snapshotted
  BY DEF Remembrances, Snapshotted, Dependent
<1>4. seen[i]["target"] # "unread" => seen'[i]["target"] = seen[i]["target"]
  BY <1>3 DEF Grown, Answered
<1>5. Answered(i, r) # "unread" => Answered(i, r)' = Answered(i, r)
  BY DEF Grown
<1> SUFFICES ASSUME Pipeline[p][2] \in RestOn(r)
             PROVE  /\ Answered(i, r)' = "failed" => <<Pipeline[p][2], r>> \in warned'[i] \cup Silent
                    /\ Answered(i, r)' = "unread" =>
                         r \in Dependent /\ seen'[i]["target"] \notin {"unread", "known"}
  BY <1>2 DEF ShownAt
<1>6. /\ Answered(i, r) = "failed" => <<Pipeline[p][2], r>> \in warned[i] \cup Silent
      /\ Answered(i, r) = "unread" => r \in Dependent /\ seen[i]["target"] \notin {"unread", "known"}
  BY <1>1 DEF ShownAt
<1>7. r \in Dependent /\ Answered(i, r)' # "unread" => seen'[i]["target"] = "known"
  BY <1>3 DEF Placed, Answered
<1> QED
  BY <1>4, <1>5, <1>6, <1>7

\* What an entry says stays true while its job goes on or after it is done.
LEMMA AgreesStays ==
  ASSUME NEW i, Agrees(i), SameSettings, Grown(i), cancelled => cancelled',
         NEW k \in DOMAIN log[i], log'[i][k] = log[i][k],
         job[i].phase = "done" => job'[i].phase = "done" /\ result'[i] = result[i]
  PROVE  EntryAgrees(i, k)'
<1>1. EntryAgrees(i, k)
  BY DEF Agrees
<1>2. Enriching' <=> Enriching
  BY SettingsKept
<1>3. \A r \in Remembrances : r = log[i][k].read =>
        Answered(i, r)' = log[i][k].value /\ log[i][k].value # "unread"
  BY <1>1 DEF EntryAgrees, Grown
<1> QED
  BY <1>1, <1>2, <1>3 DEF EntryAgrees

LEMMA WarnedStays ==
  ASSUME NEW i, Warned(i), SameSettings, Grown(i), warned'[i] = warned[i]
  PROVE  Warned(i)'
<1>1. Enriching' <=> Enriching
  BY SettingsKept
<1>2. ASSUME NEW r \in Shared, shared[r].value = "failed" PROVE shared'[r].value = "failed"
  <2>1. r \in Remembrances /\ r \notin Snapshotted
    BY DEF Remembrances, Shared, Snapshotted
  <2> QED
    BY <1>2, <2>1 DEF Grown, Answered
<1> QED
  BY <1>1, <1>2 DEF Warned

\* The entries of every job, but for one that job i has just completed.
OneEntry(i) ==
  /\ \A j \in Jobs : \A k \in DOMAIN log[j] : k \in DOMAIN log'[j] /\ log'[j][k] = log[j][k]
  /\ \A j \in Jobs : \A k \in DOMAIN log'[j] :
       \/ k \in DOMAIN log[j]
       \/ j = i /\ log'[j][k].read = job[i].read /\ InRead(i)

(***************************************************************************)
(* A status report that is out is not touched by what another job reads:  *)
(* the read it completes was not answered when the report was made.        *)
(***************************************************************************)
LEMMA UntruncatedStays ==
  ASSUME NEW i \in Jobs, NEW j \in Jobs, Untruncated(j), Warned(j), Reported(j), Placed(i), SameSettings,
         OneEntry(i), warned'[j] = warned[j], result'[j] = result[j], job[i].phase # "done"
  PROVE  Untruncated(j)'
<1>1. mode' = mode
  BY DEF SameSettings
<1> SUFFICES ASSUME mode = "status", result[j] = "report", NEW l \in Jobs, NEW k \in DOMAIN log'[l],
                    log'[l][k].late, log'[l][k].value = "failed"
             PROVE  l # j /\ \A w \in warned[j] : log'[l][k].read \in Shared => w[2] # log'[l][k].read
  BY <1>1 DEF Untruncated
<1>2. CASE k \in DOMAIN log[l]
  <2>1. log'[l][k] = log[l][k]
    BY <1>2 DEF OneEntry
  <2> QED
    BY <1>2, <2>1 DEF Untruncated
<1>3. CASE k \notin DOMAIN log[l]
  <2>1. l = i /\ log'[l][k].read = job[i].read /\ InRead(i)
    BY <1>3 DEF OneEntry
  <2>2. i # j
    BY DEF Reported
  <2>3. ASSUME NEW w \in warned[j], NEW r \in Shared, r = job[i].read, w[2] = r PROVE FALSE
    <3>1. shared[r].value = "failed"
      BY <2>3 DEF Warned
    <3>2. r \in Remembrances /\ r \notin Snapshotted /\ r # "hpa"
      BY DEF Remembrances, Shared, Snapshotted
    <3>3. Answered(i, r) = "unread"
      BY <2>1, <2>3, <3>2 DEF Placed
    <3> QED
      BY <3>1, <3>2, <3>3 DEF Answered
  <2> QED
    BY <2>1, <2>2, <2>3
<1> QED
  BY <1>2, <1>3

(***************************************************************************)
(* A step of job i as another job sees it: only shared values that were    *)
(* unread can change, and not one that the other is reading.               *)
(***************************************************************************)
Aside(i, j) ==
  /\ job'[j] = job[j] /\ seen'[j] = seen[j] /\ log'[j] = log[j]
  /\ warned'[j] = warned[j] /\ result'[j] = result[j]
  /\ j \in recorded' => j \in recorded
  /\ cancelled => cancelled'
  /\ \A r \in Shared : shared[r].value # "unread" \/ (InRead(j) /\ job[j].read = r) =>
       shared'[r].value = shared[r].value

LEMMA OtherStays ==
  ASSUME NEW i \in Jobs, NEW j \in Jobs, Told(i), Told(j), SameSettings, OneEntry(i), Aside(i, j),
         job[i].phase # "done"
  PROVE  Told(j)'
<1>1. ASSUME NEW r \in Remembrances, InRead(j), job[j].read = r
      PROVE  Answered(j, r)' = Answered(j, r)
  BY <1>1 DEF Answered, Aside, Remembrances
<1>2. Grown(j)
  <2> SUFFICES ASSUME NEW r \in Remembrances, Answered(j, r) # "unread"
               PROVE  Answered(j, r)' = Answered(j, r)
    BY DEF Grown
  <2>1. CASE r \in Snapshotted
    BY <2>1 DEF Answered, Aside
  <2>2. CASE r \notin Snapshotted
    <3>1. r \in Shared /\ shared[r].value # "unread"
      BY <2>2 DEF Answered, Remembrances
    <3>2. shared'[r].value = shared[r].value
      BY <3>1 DEF Aside
    <3> QED
      BY <2>2, <3>2 DEF Answered
  <2> QED
    BY <2>1, <2>2
<1>3. Placed(j)'
  <2>1. Pipeline' = Pipeline /\ \A p : EnabledAt(j, p)' <=> EnabledAt(j, p)
    BY SettingsKept
  <2>2. job'[j] = job[j] /\ seen'[j] = seen[j]
    BY DEF Aside
  <2>3. InDiagnosis(j) => InDiagnosis(j)'
    BY <2>1, <2>2 DEF InDiagnosis
  <2>4. InRead(j)' <=> InRead(j)
    BY <2>2 DEF InRead
  <2>5. ASSUME InRead(j), job[j].read # "hpa", NEW r \in Remembrances, r = job[j].read
        PROVE  Answered(j, r)' = "unread"
    BY <1>1, <2>5 DEF Told, Placed
  <2> QED
    BY <2>1, <2>2, <2>3, <2>4, <2>5 DEF Told, Placed
<1>4. Shown(j)'
  BY <1>2, <1>3, ShownStays DEF Told, Aside, Over
<1>5. Agrees(j)'
  <2> SUFFICES ASSUME NEW k \in DOMAIN log'[j] PROVE EntryAgrees(j, k)'
    BY DEF Agrees
  <2> QED
    BY <1>2, AgreesStays DEF Told, Aside
<1>6. Warned(j)'
  BY <1>2, WarnedStays DEF Told, Aside
<1>7. Reported(j)'
  BY DEF Told, Reported, Aside
<1>8. Untruncated(j)'
  BY UntruncatedStays DEF Told, Aside
<1> QED
  BY <1>3, <1>4, <1>5, <1>6, <1>7, <1>8 DEF Told

(***************************************************************************)
(* A step of job i that completes no read and adds no warning.             *)
(***************************************************************************)
LEMMA OwnStays ==
  ASSUME NEW i \in Jobs, Told(i), SameSettings, Grown(i), UNCHANGED <<log, warned, cancelled, recorded>>,
         job[i].phase # "done", result'[i] # "report", Placed(i)',
         \A p \in DOMAIN Pipeline : EnabledAt(i, p) /\ Over(i, p)' => Over(i, p)
  PROVE  Told(i)'
<1>1. Shown(i)'
  BY ShownStays DEF Told
<1>2. Agrees(i)'
  <2> SUFFICES ASSUME NEW k \in DOMAIN log'[i] PROVE EntryAgrees(i, k)'
    BY DEF Agrees
  <2> QED
    BY AgreesStays DEF Told
<1>3. Warned(i)'
  BY WarnedStays DEF Told
<1>4. Reported(i)' /\ Untruncated(i)'
  BY DEF Told, Reported, Untruncated
<1> QED
  BY <1>1, <1>2, <1>3, <1>4 DEF Told

\* Only job i moves, and what it moves is its own.
Mine(i) ==
  /\ \A j \in Jobs : j # i =>
       /\ job'[j] = job[j] /\ seen'[j] = seen[j] /\ log'[j] = log[j]
       /\ warned'[j] = warned[j] /\ result'[j] = result[j]
       /\ j \in recorded' => j \in recorded
  /\ cancelled' = cancelled
  /\ SameSettings
  /\ job[i].phase # "done"

LEMMA OthersStay ==
  ASSUME RunInv, NEW i \in Jobs, Mine(i), OneEntry(i),
         \A r \in Shared : shared'[r].value = shared[r].value \/ (InRead(i) /\ job[i].read = r)
  PROVE  \A j \in Jobs : j # i => Told(j)'
<1> SUFFICES ASSUME NEW j \in Jobs, j # i PROVE Told(j)'
  OBVIOUS
<1>1. Told(i) /\ Told(j)
  BY DEF RunInv
<1>2. ASSUME NEW r \in Shared, shared[r].value # "unread" \/ (InRead(j) /\ job[j].read = r)
      PROVE  shared'[r].value = shared[r].value
  <2> SUFFICES ASSUME InRead(i), job[i].read = r PROVE FALSE
    BY <1>2
  <2>1. shared[r].reader = i
    BY DEF RunInv, ReadInv, InProgress
  <2>2. r \in Remembrances /\ r \notin Snapshotted /\ r # "hpa"
    BY DEF Remembrances, Shared, Snapshotted
  <2>3. shared[r].value = "unread"
    BY <1>1, <2>2 DEF Told, Placed, Answered
  <2>4. InRead(j) /\ job[j].read = r
    BY <1>2, <2>3
  <2>5. shared[r].reader = j
    BY <2>4 DEF RunInv, ReadInv, InProgress
  <2> QED
    BY <2>1, <2>5
<1>3. Aside(i, j)
  BY <1>2 DEF Mine, Aside
<1> QED
  BY <1>1, <1>3, OtherStays DEF Mine

LEMMA NoEntry ==
  ASSUME NEW i, log' = log
  PROVE  OneEntry(i)
BY DEF OneEntry

LEMMA SharedSame ==
  ASSUME NEW i, UNCHANGED <<seen, shared>>
  PROVE  Grown(i)
BY DEF Grown, Answered

-----------------------------------------------------------------------------
\* The steps of a job.

\* The fields of a job after a change of some of them.
LEMMA Changed ==
  ASSUME NEW j, IsJob(j), NEW a, NEW b, NEW c
  PROVE  /\ [j EXCEPT !.phase = a].phase = a /\ [j EXCEPT !.phase = a].at = j.at
         /\ [j EXCEPT !.phase = a].read = j.read
         /\ [j EXCEPT !.phase = a, !.tries = b].phase = a /\ [j EXCEPT !.phase = a, !.tries = b].at = j.at
         /\ [j EXCEPT !.phase = a, !.tries = b].read = j.read
         /\ [j EXCEPT !.phase = a, !.read = b, !.tries = c].phase = a
         /\ [j EXCEPT !.phase = a, !.read = b, !.tries = c].read = b
         /\ [j EXCEPT !.phase = a, !.read = b, !.tries = c].at = j.at
         /\ [j EXCEPT !.phase = a, !.read = b, !.got = c].phase = a
         /\ [j EXCEPT !.phase = a, !.read = b, !.got = c].at = j.at
         /\ [j EXCEPT !.phase = a, !.at = b].phase = a /\ [j EXCEPT !.phase = a, !.at = b].at = b
         /\ [j EXCEPT !.phase = a, !.got = b].phase = a /\ [j EXCEPT !.phase = a, !.got = b].at = j.at
<1>1. PICK p, q, r, s, t : j = [phase |-> p, at |-> q, read |-> r, tries |-> s, got |-> t]
  BY DEF IsJob
<1> QED
  BY <1>1

LEMMA FreeChanged ==
  ASSUME NEW a
  PROVE  [Free EXCEPT !.phase = a].phase = a /\ [Free EXCEPT !.phase = a].at = 0
BY DEF Free

LEMMA JobSet ==
  ASSUME RunTypes, NEW i \in Jobs, NEW f, job' = [job EXCEPT ![i] = f]
  PROVE  job'[i] = f /\ \A j \in Jobs : j # i => job'[j] = job[j]
BY DEF RunTypes

RunTables == result = [i \in Jobs |-> result[i]] /\ warned = [i \in Jobs |-> warned[i]]

LEMMA StartTells ==
  ASSUME RunInv, RunTables, NEW i \in Jobs, StartJob(i)
  PROVE  \A j \in Jobs : Told(j)'
<1>1. /\ job[i].phase = "waiting" /\ UNCHANGED <<mode, flags, seen, shared, warned, log, recorded, cancelled>>
      /\ Told(i) /\ RunTypes
  BY DEF StartJob, RunInv, ReadInv
<1>2. /\ job'[i].at = 0
      /\ job'[i].phase = "done" \/ (job'[i].phase = "calling" /\ job'[i].read = "hpa")
      /\ result'[i] # "report"
      /\ \A j \in Jobs : j # i => job'[j] = job[j] /\ result'[j] = result[j]
  <2>1. CASE cancelled
    <3> DEFINE f == [Free EXCEPT !.phase = "done"]
    <3>1. job' = [job EXCEPT ![i] = f] /\ result' = [result EXCEPT ![i] = "failed"]
      BY <2>1 DEF StartJob, End
    <3>2. result'[i] = "failed" /\ \A j \in Jobs : j # i => result'[j] = result[j]
      BY <3>1 DEF RunTables
    <3>3. f.phase = "done" /\ f.at = 0
      BY FreeChanged
    <3> HIDE DEF f
    <3> QED
      BY <1>1, <3>1, <3>2, <3>3, JobSet
  <2>2. CASE ~cancelled
    <3> DEFINE f == [Free EXCEPT !.phase = "calling", !.read = "hpa", !.tries = 1]
    <3>1. job' = [job EXCEPT ![i] = f] /\ result' = result
      BY <2>2 DEF StartJob
    <3>2. f.phase = "calling" /\ f.read = "hpa" /\ f.at = 0
      BY DEF Free
    <3>3. result[i] # "report"
      BY <1>1 DEF Told, Reported
    <3> HIDE DEF f
    <3> QED
      BY <1>1, <3>1, <3>2, <3>3, JobSet
  <2> QED
    BY <2>1, <2>2
<1>3. SameSettings /\ Grown(i) /\ OneEntry(i) /\ Mine(i)
  BY <1>1, <1>2, NoEntry, SharedSame DEF SameSettings, Mine
<1>4. Placed(i)'
  <2>1. InRead(i)' => job'[i].read = "hpa"
    BY <1>2 DEF InRead
  <2> QED
    BY <1>1, <1>2, <1>3, <2>1, SettingsKept, PipelineIs DEF Told, Placed
<1>5. \A p \in DOMAIN Pipeline : ~Over(i, p)'
  BY <1>2, PipelineIs DEF Over
<1>6. Told(i)'
  BY <1>1, <1>2, <1>3, <1>4, <1>5, OwnStays
<1>7. \A j \in Jobs : j # i => Told(j)'
  BY <1>1, <1>3, OthersStay
<1> QED
  BY <1>6, <1>7

\* A call that is made again, or is about to be, is the same read.
LEMMA RetryTells ==
  ASSUME RunInv, NEW i \in Jobs, InRead(i), NEW f, job' = [job EXCEPT ![i] = f],
         f.phase \in {"calling", "pausing"}, f.at = job[i].at, f.read = job[i].read,
         UNCHANGED <<mode, flags, seen, shared, warned, log, result, recorded, cancelled>>
  PROVE  \A j \in Jobs : Told(j)'
<1>1. Told(i) /\ RunTypes
  BY DEF RunInv, ReadInv
<1>2. /\ job'[i] = f /\ \A j \in Jobs : j # i => job'[j] = job[j]
      /\ job[i].phase \in {"calling", "pausing"} /\ result[i] # "report"
  BY <1>1, JobSet DEF InRead, Told, Reported
<1>3. SameSettings /\ Grown(i) /\ OneEntry(i) /\ Mine(i)
  BY <1>2, NoEntry, SharedSame DEF SameSettings, Mine
<1>4. Placed(i)'
  <2>1. \A r \in Remembrances : Answered(i, r)' = Answered(i, r)
    BY DEF Answered
  <2>2. InDiagnosis(i) => InDiagnosis(i)'
    BY <1>2, <1>3, SettingsKept DEF InDiagnosis
  <2> QED
    BY <1>1, <1>2, <1>3, <2>1, <2>2, SettingsKept DEF Told, Placed, InRead
<1>5. \A p \in DOMAIN Pipeline : Over(i, p)' => Over(i, p)
  BY <1>2 DEF Over
<1>6. Told(i)'
  BY <1>1, <1>2, <1>3, <1>4, <1>5, OwnStays
<1>7. \A j \in Jobs : j # i => Told(j)'
  BY <1>3, OthersStay
<1> QED
  BY <1>6, <1>7

LEMMA BeginTells ==
  ASSUME RunInv, NEW i \in Jobs, BeginRead(i)
  PROVE  \A j \in Jobs : Told(j)'
<1> DEFINE r == NextRead(i)
           f == [job[i] EXCEPT !.phase = "calling", !.read = r, !.tries = 1]
<1>1. /\ job[i].phase = "ready" /\ r # "none" /\ (r \in Shared => shared[r].reader = 0)
      /\ shared' = IF r \in Shared THEN [shared EXCEPT ![r].reader = i] ELSE shared
      /\ job' = [job EXCEPT ![i] = f]
      /\ UNCHANGED <<mode, flags, seen, warned, log, result, recorded, cancelled>>
  BY DEF BeginRead
<1>2. /\ r \in Wantable /\ Known(i)[r] = "unread" /\ (r \in Dependent => seen[i]["target"] = "known")
      /\ \A s \in Remembrances : s = r => Answered(i, s) = "unread"
  BY <1>1, NextReadIsOpen, DependentRead, KnownIs
<1> HIDE DEF r
<1>3. Told(i) /\ RunTypes /\ IsJob(job[i]) /\ result[i] # "report"
  BY <1>1 DEF RunInv, ReadInv, RunTypes, Told, Reported
<1>4. f.phase = "calling" /\ f.read = r /\ f.at = job[i].at
  BY <1>3, Changed
<1> HIDE DEF f
<1>5. job'[i] = f /\ \A j \in Jobs : j # i => job'[j] = job[j]
  BY <1>1, <1>3, JobSet
<1>6. \A s \in Shared : shared'[s].value = shared[s].value
  BY <1>1, <1>3 DEF RunTypes
<1>7. \A s \in Remembrances : Answered(i, s)' = Answered(i, s)
  BY <1>1, <1>6 DEF Answered, Remembrances
<1>8. SameSettings /\ Grown(i) /\ OneEntry(i) /\ Mine(i)
  BY <1>1, <1>5, <1>7, NoEntry DEF SameSettings, Mine, Grown
<1>9. Placed(i)'
  <2>1. InDiagnosis(i) /\ (InDiagnosis(i) => InDiagnosis(i)')
    BY <1>1, <1>3, <1>4, <1>5, <1>8, SettingsKept DEF InDiagnosis, Told, Placed
  <2>2. r # "hpa"
    BY <1>2 DEF Wantable
  <2> QED
    BY <1>1, <1>2, <1>3, <1>4, <1>5, <1>7, <1>8, <2>1, <2>2, SettingsKept DEF Told, Placed, InRead
<1>10. \A p \in DOMAIN Pipeline : Over(i, p)' => Over(i, p)
  BY <1>1, <1>3, <1>4, <1>5 DEF Over
<1>11. Told(i)'
  BY <1>1, <1>3, <1>8, <1>9, <1>10, OwnStays
<1>12. \A j \in Jobs : j # i => Told(j)'
  BY <1>6, <1>8, OthersStay
<1> QED
  BY <1>11, <1>12

(***************************************************************************)
(* An answer that is kept: what was remembered stays, what is remembered   *)
(* now is the answer, and the diagnosis goes on.                           *)
(***************************************************************************)
LEMMA KeepIs ==
  ASSUME RunTypes, NEW i \in Jobs, NEW r, NEW value, Keep(i, r, value)
  PROVE  /\ job'[i].phase = "ready" /\ job'[i].at = job[i].at
         /\ \A j \in Jobs : j # i => job'[j] = job[j] /\ seen'[j] = seen[j]
         /\ \A s \in Snapshotted : seen'[i][s] = IF s = r THEN value ELSE seen[i][s]
         /\ \A s \in Shared : shared'[s].value = IF s = r THEN value ELSE shared[s].value
<1> DEFINE g == Learned(i, r, value)
           f == [job[i] EXCEPT !.phase = "ready", !.read = "none", !.got = g]
<1>1. job' = [job EXCEPT ![i] = f]
  BY DEF Keep
<1>2. IsJob(job[i])
  BY DEF RunTypes
<1> HIDE DEF g
<1>3. f.phase = "ready" /\ f.at = job[i].at
  BY <1>2, Changed
<1> HIDE DEF f
<1>4. job'[i] = f /\ \A j \in Jobs : j # i => job'[j] = job[j]
  BY <1>1, JobSet
<1>5. /\ \A j \in Jobs : j # i => seen'[j] = seen[j]
      /\ \A s \in Snapshotted : seen'[i][s] = IF s = r THEN value ELSE seen[i][s]
  BY DEF Keep, RunTypes
<1>6. \A s \in Shared : shared'[s].value = IF s = r THEN value ELSE shared[s].value
  BY DEF Keep, RunTypes
<1> QED
  BY <1>3, <1>4, <1>5, <1>6

LEMMA KeepAnswers ==
  ASSUME RunTypes, NEW i \in Jobs, NEW r, NEW value, Keep(i, r, value)
  PROVE  \A s \in Remembrances : Answered(i, s)' = IF s = r THEN value ELSE Answered(i, s)
BY KeepIs DEF Answered, Remembrances

LEMMA SkipTells ==
  ASSUME RunInv, NEW i \in Jobs, SkipRead(i)
  PROVE  \A j \in Jobs : Told(j)'
<1> DEFINE r == NextRead(i)
           value == IF r = "workload" THEN "failed" ELSE "nothing"
<1>1. /\ job[i].phase = "ready" /\ r \in {"target", "selector", "template", "workload"}
      /\ Keep(i, r, value)
      /\ UNCHANGED <<mode, flags, warned, log, result, recorded, cancelled>>
  BY DEF SkipRead, NeedsNoCall
<1>2. \A s \in Remembrances : s = r => Answered(i, s) = "unread"
  BY <1>1, NextReadIsOpen, KnownIs
<1> HIDE DEF r, value
<1>3. Told(i) /\ RunTypes /\ result[i] # "report" /\ r \notin Shared /\ r \notin Dependent
  BY <1>1 DEF RunInv, ReadInv, Told, Reported, Shared, Dependent
<1>4. /\ job'[i].phase = "ready" /\ job'[i].at = job[i].at
      /\ \A j \in Jobs : j # i => job'[j] = job[j] /\ seen'[j] = seen[j]
      /\ \A s \in Snapshotted : seen'[i][s] = IF s = r THEN value ELSE seen[i][s]
      /\ \A s \in Shared : shared'[s].value = shared[s].value
  BY <1>1, <1>3, KeepIs
<1>5. Grown(i)
  BY <1>1, <1>2, <1>3, KeepAnswers DEF Grown
<1>6. SameSettings /\ OneEntry(i) /\ Mine(i)
  BY <1>1, <1>4, NoEntry DEF SameSettings, Mine
<1>7. Placed(i)'
  <2>1. InDiagnosis(i) /\ (InDiagnosis(i) => InDiagnosis(i)')
    BY <1>1, <1>3, <1>4, <1>6, SettingsKept DEF InDiagnosis, Told, Placed
  <2>2. "target" \in Remembrances /\ "target" \in Snapshotted /\ Dependent \subseteq Snapshotted
    BY DEF Remembrances, Snapshotted, Dependent
  <2>3. ASSUME NEW s \in Dependent, seen'[i][s] # "unread" PROVE seen'[i]["target"] = "known"
    <3>1. seen[i][s] # "unread"
      BY <1>3, <1>4, <2>2, <2>3
    <3>2. seen[i]["target"] = "known"
      BY <1>3, <3>1 DEF Told, Placed
    <3>3. Answered(i, "target") = "known"
      BY <2>2, <3>2 DEF Answered
    <3>4. r # "target"
      BY <1>2, <2>2, <3>3
    <3> QED
      BY <1>4, <2>2, <3>2, <3>4
  <2> QED
    BY <1>3, <1>4, <1>6, <2>1, <2>3, SettingsKept DEF Told, Placed, InRead
<1>8. \A p \in DOMAIN Pipeline : Over(i, p)' => Over(i, p)
  BY <1>1, <1>3, <1>4 DEF Over
<1>9. Told(i)'
  BY <1>1, <1>3, <1>5, <1>6, <1>7, <1>8, OwnStays
<1>10. \A j \in Jobs : j # i => Told(j)'
  BY <1>4, <1>6, OthersStay
<1> QED
  BY <1>9, <1>10

\* What is found on the nodes was unread, and no other job was reading it.
LEMMA FoundTells ==
  ASSUME RunInv, NEW i \in Jobs, FoundOnNodes(i)
  PROVE  \A j \in Jobs : Told(j)'
<1>1. /\ job[i].phase = "ready" /\ NextRead(i) = "autoscaler" /\ shared["autoscaler"].reader = 0
      /\ "autoscaler" \in Shared /\ "autoscaler" \in Remembrances /\ "autoscaler" \notin Snapshotted
      /\ shared' = [shared EXCEPT !["autoscaler"] = [reader |-> i, value |-> "known"]]
      /\ UNCHANGED <<mode, flags, job, seen, warned, log, result, recorded, cancelled>>
  BY DEF FoundOnNodes, Shared, Remembrances, Snapshotted
<1>2. Answered(i, "autoscaler") = "unread"
  BY <1>1, NextReadIsOpen, KnownIs
<1>3. Told(i) /\ RunTypes /\ result[i] # "report"
  BY <1>1 DEF RunInv, ReadInv, Told, Reported
<1>4. \A s \in Shared : s # "autoscaler" => shared'[s] = shared[s]
  BY <1>1, <1>3 DEF RunTypes
<1>5. shared["autoscaler"].value = "unread"
  BY <1>1, <1>2 DEF Answered
<1>6. Grown(i)
  BY <1>1, <1>2, <1>4 DEF Grown, Answered, Remembrances
<1>7. SameSettings /\ OneEntry(i) /\ ~InRead(i)
  BY <1>1, NoEntry DEF SameSettings, InRead
<1>8. Placed(i)'
  <2>1. InDiagnosis(i) => InDiagnosis(i)'
    BY <1>1, <1>7, SettingsKept DEF InDiagnosis
  <2> QED
    BY <1>1, <1>3, <1>7, <2>1, SettingsKept DEF Told, Placed, InRead
<1>9. \A p \in DOMAIN Pipeline : Over(i, p)' => Over(i, p)
  BY <1>1 DEF Over
<1>10. Told(i)'
  BY <1>1, <1>3, <1>6, <1>7, <1>8, <1>9, OwnStays
<1>11. ASSUME NEW j \in Jobs, j # i PROVE Told(j)'
  <2>1. InRead(j) => job[j].read # "autoscaler"
    BY <1>1 DEF RunInv, ReadInv, InProgress, Jobs
  <2>2. Aside(i, j)
    BY <1>1, <1>4, <1>5, <2>1 DEF Aside
  <2> QED
    BY <1>1, <1>3, <1>7, <2>2, OtherStays DEF RunInv
<1> QED
  BY <1>10, <1>11

\* A diagnosis that is over is one more that shows what it rests on.
LEMMA EndTells ==
  ASSUME RunInv, RunTables, NEW i \in Jobs, EndDiagnosis(i)
  PROVE  \A j \in Jobs : Told(j)'
<1> DEFINE f == [job[i] EXCEPT !.phase = "between", !.got = <<>>]
<1>1. /\ job[i].phase = "ready" /\ NextRead(i) = "none"
      /\ warned' = [warned EXCEPT ![i] = @ \cup Warnings(i)]
      /\ job' = [job EXCEPT ![i] = f]
      /\ UNCHANGED <<mode, flags, seen, shared, log, result, recorded, cancelled>>
  BY DEF EndDiagnosis
<1>2. Told(i) /\ RunTypes /\ IsJob(job[i]) /\ result[i] # "report"
  BY <1>1 DEF RunInv, ReadInv, RunTypes, Told, Reported
<1>3. f.phase = "between" /\ f.at = job[i].at
  BY <1>2, Changed
<1> HIDE DEF f
<1>4. job'[i] = f /\ \A j \in Jobs : j # i => job'[j] = job[j]
  BY <1>1, <1>2, JobSet
<1>5. warned'[i] = warned[i] \cup Warnings(i) /\ \A j \in Jobs : j # i => warned'[j] = warned[j]
  BY <1>1 DEF RunTables
<1>6. SameSettings /\ Grown(i) /\ OneEntry(i) /\ Mine(i)
  BY <1>1, <1>4, <1>5, NoEntry, SharedSame DEF SameSettings, Mine
<1>7. PICK q \in DOMAIN Pipeline : q = job[i].at /\ EnabledAt(i, q)
  BY <1>1, <1>2 DEF Told, Placed, InDiagnosis
<1>8. Placed(i)'
  BY <1>1, <1>2, <1>3, <1>4, <1>6, SettingsKept DEF Told, Placed, InRead
<1>9. Shown(i)'
  <2> SUFFICES ASSUME NEW p \in DOMAIN Pipeline, EnabledAt(i, p), Over(i, p)', NEW r \in Remembrances
               PROVE  ShownAt(i, p, r)'
    BY <1>6, SettingsKept DEF Shown
  <2>1. \A s \in Remembrances : Answered(i, s)' = Answered(i, s)
    BY <1>1 DEF Answered
  <2>2. Pipeline'[p] = Pipeline[p]
    BY <1>6, SettingsKept
  <2>3. CASE p = q
    <3>1. Diagnosis(i) = Pipeline[p][2]
      BY <1>7, <2>3 DEF Diagnosis
    <3>2. r \in Dependent /\ seen[i][r] # "unread" => seen[i]["target"] = "known"
      BY <1>2 DEF Told, Placed
    <3>3. Pipeline[p][2] \in RestOn(r) =>
            /\ Answered(i, r) = "failed" => <<Pipeline[p][2], r>> \in Warnings(i) \cup Silent
            /\ Answered(i, r) = "unread" => r \in Dependent /\ seen[i]["target"] \notin {"unread", "known"}
      BY <1>1, <3>1, <3>2, Concluding
    <3> QED
      BY <1>1, <1>5, <2>1, <2>2, <3>3 DEF ShownAt
  <2>4. CASE p # q
    <3>1. Over(i, p)
      BY <1>1, <1>2, <1>3, <1>4, <1>7, <2>4, PipelineIs DEF Over
    <3>2. ShownAt(i, p, r)
      BY <1>2, <3>1 DEF Told, Shown
    <3> QED
      BY <1>1, <1>5, <2>1, <2>2, <3>2 DEF ShownAt
  <2> QED
    BY <2>3, <2>4
<1>10. Agrees(i)'
  <2> SUFFICES ASSUME NEW k \in DOMAIN log'[i] PROVE EntryAgrees(i, k)'
    BY DEF Agrees
  <2> QED
    BY <1>1, <1>2, <1>6, AgreesStays DEF Told
<1>11. Warned(i)'
  <2>1. Enriching
    <3>1. Enabled(i, Pipeline[q][2])
      BY <1>7 DEF EnabledAt
    <3> QED
      BY <3>1 DEF Enabled, Enriching
  <2>2. \A w \in Warnings(i) : w[2] \in Shared => shared[w[2]].value = "failed"
    BY WarningsTrue
  <2> QED
    BY <1>1, <1>2, <1>5, <1>6, <2>1, <2>2, SettingsKept DEF Told, Warned
<1>12. Reported(i)' /\ Untruncated(i)'
  BY <1>1, <1>2 DEF Told, Reported, Untruncated
<1>13. Told(i)'
  BY <1>8, <1>9, <1>10, <1>11, <1>12 DEF Told
<1>14. \A j \in Jobs : j # i => Told(j)'
  BY <1>1, <1>6, OthersStay
<1> QED
  BY <1>13, <1>14

LEMMA Appended ==
  ASSUME RunTypes, NEW i \in Jobs, NEW e, InRead(i), e.read = job[i].read,
         log' = [log EXCEPT ![i] = Append(@, e)]
  PROVE  /\ OneEntry(i)
         /\ \A j \in Jobs : j # i => log'[j] = log[j]
         /\ \A k \in DOMAIN log'[i] : k \notin DOMAIN log[i] => log'[i][k] = e
<1>1. log[i] \in Seq(Entries)
  BY DEF RunTypes
<1> DEFINE s == log[i]
<1>2. /\ log'[i] = Append(s, e) /\ \A j \in Jobs : j # i => log'[j] = log[j]
  BY DEF RunTypes
<1>3. s \in Seq(Entries) /\ Len(s) \in Nat /\ DOMAIN s = 1 .. Len(s)
  BY <1>1
<1>4. /\ DOMAIN Append(s, e) = 1 .. Len(s) + 1
      /\ Append(s, e)[Len(s) + 1] = e
      /\ \A k \in 1 .. Len(s) : Append(s, e)[k] = s[k]
  BY <1>3
<1> HIDE DEF s
<1>5. /\ \A k \in DOMAIN s : k \in DOMAIN Append(s, e) /\ Append(s, e)[k] = s[k]
      /\ \A k \in DOMAIN Append(s, e) : k \notin DOMAIN s => Append(s, e)[k] = e
  BY <1>3, <1>4
<1> QED
  BY <1>2, <1>5 DEF OneEntry, s

(***************************************************************************)
(* A read is over: its entry agrees with what is remembered of it.         *)
(***************************************************************************)
LEMMA SettleTells ==
  ASSUME RunInv, RunTables, NEW i \in Jobs, NEW answer, InRead(i), Settle(i, answer),
         UNCHANGED <<mode, flags, warned, recorded, cancelled>>
  PROVE  \A j \in Jobs : Told(j)'
<1> DEFINE r == job[i].read
<1>0. PICK value \in Readings(r, answer) :
        /\ log' = [log EXCEPT ![i] = Append(@, [read |-> r, value |-> value, late |-> cancelled])]
        /\ \/ r # "hpa" /\ Keep(i, r, value) /\ result' = result
           \/ /\ r = "hpa" /\ value = "known" /\ UNCHANGED <<seen, shared, result>>
              /\ job' = [job EXCEPT ![i] = [Free EXCEPT !.phase = "between"]]
           \/ /\ r = "hpa" /\ UNCHANGED <<seen, shared>>
              /\ job' = [job EXCEPT ![i] = [Free EXCEPT !.phase = "done"]]
              /\ \E v \in {"missing", "failed"} : result' = [result EXCEPT ![i] = v]
  BY DEF Settle, End
<1> DEFINE e == [read |-> r, value |-> value, late |-> cancelled]
<1>1. /\ log' = [log EXCEPT ![i] = Append(@, e)]
      /\ e.read = r /\ e.value = value /\ e.late = cancelled
      /\ value # "unread"
  BY <1>0, ReadValues
<1>2. \/ r # "hpa" /\ Keep(i, r, value) /\ result' = result
      \/ /\ r = "hpa" /\ value = "known" /\ UNCHANGED <<seen, shared, result>>
         /\ job' = [job EXCEPT ![i] = [Free EXCEPT !.phase = "between"]]
      \/ /\ r = "hpa" /\ UNCHANGED <<seen, shared>>
         /\ job' = [job EXCEPT ![i] = [Free EXCEPT !.phase = "done"]]
         /\ \E v \in {"missing", "failed"} : result' = [result EXCEPT ![i] = v]
  BY <1>0
<1>3. Told(i) /\ RunTypes /\ result[i] # "report" /\ job[i].phase \in {"calling", "pausing"}
  BY DEF RunInv, ReadInv, Told, Reported, InRead
<1>4. /\ OneEntry(i) /\ \A j \in Jobs : j # i => log'[j] = log[j]
      /\ \A k \in DOMAIN log'[i] : k \notin DOMAIN log[i] => log'[i][k] = e
  BY <1>1, <1>3, Appended
<1>5. /\ r = "hpa" => job[i].at = 0
      /\ r # "hpa" => InDiagnosis(i)
      /\ r # "hpa" => \A s \in Remembrances : s = r => Answered(i, s) = "unread"
      /\ r # "hpa" /\ r \in Dependent => seen[i]["target"] = "known"
  BY <1>3 DEF Told, Placed
<1>6. "hpa" \notin Remembrances /\ "target" \in Snapshotted /\ Dependent \subseteq Snapshotted
      /\ Snapshotted \subseteq Remembrances /\ Shared \subseteq Remembrances /\ "target" \notin Dependent
  BY DEF Remembrances, Snapshotted, Shared, Dependent
<1> HIDE DEF r, e
<1>7. /\ \A s \in Remembrances : Answered(i, s)' = IF s = r THEN value ELSE Answered(i, s)
      /\ \A s \in Snapshotted : seen'[i][s] = IF s = r THEN value ELSE seen[i][s]
      /\ \A s \in Shared : s # r => shared'[s].value = shared[s].value
      /\ \A j \in Jobs : j # i => job'[j] = job[j] /\ seen'[j] = seen[j] /\ result'[j] = result[j]
      /\ result'[i] # "report"
  <2>1. CASE r # "hpa"
    <3>1. Keep(i, r, value) /\ result' = result
      BY <1>2, <2>1
    <3> QED
      BY <1>3, <3>1, KeepIs, KeepAnswers
  <2>2. CASE r = "hpa"
    <3>1. PICK f : job' = [job EXCEPT ![i] = f]
      BY <1>2, <2>2
    <3>2. UNCHANGED <<seen, shared>>
      BY <1>2, <2>2
    <3>3. \A s \in Remembrances : Answered(i, s)' = Answered(i, s)
      BY <3>2 DEF Answered
    <3>4. result'[i] # "report" /\ \A j \in Jobs : j # i => result'[j] = result[j]
      BY <1>2, <1>3, <2>2 DEF RunTables
    <3> QED
      BY <1>3, <1>6, <2>2, <3>1, <3>2, <3>3, <3>4, JobSet
  <2> QED
    BY <2>1, <2>2
<1>8. /\ r # "hpa" => job'[i].phase = "ready" /\ job'[i].at = job[i].at
      /\ r = "hpa" => /\ job'[i].phase \in {"between", "done"} /\ job'[i].at = 0
                      /\ value # "known" => job'[i].phase = "done"
  <2>1. CASE r # "hpa"
    BY <1>2, <1>3, <2>1, KeepIs
  <2>2. CASE r = "hpa"
    <3> DEFINE b == [Free EXCEPT !.phase = "between"]
               d == [Free EXCEPT !.phase = "done"]
    <3>1. (job' = [job EXCEPT ![i] = b] /\ value = "known") \/ job' = [job EXCEPT ![i] = d]
      BY <1>2, <2>2
    <3>2. b.phase = "between" /\ b.at = 0 /\ d.phase = "done" /\ d.at = 0
      BY FreeChanged
    <3> HIDE DEF b, d
    <3> QED
      BY <1>3, <2>2, <3>1, <3>2, JobSet
  <2> QED
    BY <2>1, <2>2
<1>9. Grown(i)
  <2> SUFFICES ASSUME NEW s \in Remembrances, Answered(i, s) # "unread"
               PROVE  Answered(i, s)' = Answered(i, s)
    BY DEF Grown
  <2>1. s # r
    BY <1>5, <1>6
  <2> QED
    BY <1>7, <2>1
<1>10. SameSettings /\ Mine(i)
  BY <1>3, <1>4, <1>7 DEF SameSettings, Mine
<1>11. Placed(i)'
  <2>1. r # "hpa" => InDiagnosis(i)'
    BY <1>5, <1>8, <1>10, SettingsKept DEF InDiagnosis
  <2>2. ASSUME NEW s \in Dependent, seen'[i][s] # "unread" PROVE seen'[i]["target"] = "known"
    <3>1. CASE s = r
      <4>1. r # "hpa" /\ r # "target" /\ seen[i]["target"] = "known"
        BY <1>5, <1>6, <2>2, <3>1
      <4> QED
        BY <1>6, <1>7, <4>1
    <3>2. CASE s # r
      <4>1. seen[i][s] # "unread"
        BY <1>6, <1>7, <2>2, <3>2
      <4>2. seen[i]["target"] = "known"
        BY <1>3, <4>1 DEF Told, Placed
      <4>3. Answered(i, "target") = "known"
        BY <1>6, <4>2 DEF Answered
      <4>4. r # "target"
        BY <1>5, <1>6, <4>3
      <4> QED
        BY <1>6, <1>7, <4>2, <4>4
    <3> QED
      BY <3>1, <3>2
  <2>3. 0 \in 0 .. Len(Pipeline) /\ job[i].at \in 0 .. Len(Pipeline)
    BY <1>3, PipelineIs DEF Told, Placed
  <2> QED
    BY <1>8, <1>10, <2>1, <2>2, <2>3, SettingsKept DEF Placed, InRead
<1>12. ASSUME NEW p \in DOMAIN Pipeline, Over(i, p)' PROVE Over(i, p)
  <2>1. p \in Nat /\ p >= 1
    BY PipelineIs
  <2>2. CASE r # "hpa"
    BY <1>3, <1>7, <1>8, <1>12, <2>2 DEF Over
  <2>3. CASE r = "hpa"
    BY <1>3, <1>7, <1>8, <1>12, <2>1, <2>3 DEF Over
  <2> QED
    BY <2>2, <2>3
<1>13. Shown(i)'
  BY <1>3, <1>9, <1>10, <1>11, <1>12, ShownStays DEF Told
<1>14. Agrees(i)'
  <2> SUFFICES ASSUME NEW k \in DOMAIN log'[i] PROVE EntryAgrees(i, k)'
    BY DEF Agrees
  <2>1. CASE k \in DOMAIN log[i]
    <3>1. log'[i][k] = log[i][k]
      BY <1>4, <2>1 DEF OneEntry
    <3> QED
      BY <1>3, <1>9, <1>10, <2>1, <3>1, AgreesStays DEF Told
  <2>2. CASE k \notin DOMAIN log[i]
    <3>1. log'[i][k] = e
      BY <1>4, <2>2
    <3>2. r # "hpa" => Enriching'
      <4>1. r # "hpa" => \E q : EnabledAt(i, q)
        BY <1>5 DEF InDiagnosis
      <4>2. (\E q : EnabledAt(i, q)) => Enriching
        BY DEF EnabledAt, Enabled, Enriching
      <4> QED
        BY <1>10, <4>1, <4>2, SettingsKept
    <3>3. \A s \in Remembrances : s = r => Answered(i, s)' = value /\ value # "unread"
      BY <1>1, <1>7
    <3>4. r = "hpa" /\ value # "known" => job'[i].phase = "done" /\ result'[i] # "report"
      BY <1>7, <1>8
    <3> QED
      BY <1>1, <3>1, <3>2, <3>3, <3>4 DEF EntryAgrees
  <2> QED
    BY <2>1, <2>2
<1>15. Warned(i)'
  BY <1>3, <1>9, <1>10, WarnedStays DEF Told
<1>16. Reported(i)' /\ Untruncated(i)'
  BY <1>3, <1>7 DEF Told, Reported, Untruncated
<1>17. Told(i)'
  BY <1>11, <1>13, <1>14, <1>15, <1>16 DEF Told
<1>18. \A j \in Jobs : j # i => Told(j)'
  <2>1. \A s \in Shared : shared'[s].value = shared[s].value \/ (InRead(i) /\ job[i].read = s)
    BY <1>7 DEF r
  <2> QED
    BY <1>4, <1>10, <2>1, OthersStay
<1> QED
  BY <1>17, <1>18

(***************************************************************************)
(* On to the next diagnosis, or the report is out: then every enabled      *)
(* diagnosis is over, and under `status` nothing was cancelled.            *)
(***************************************************************************)
LEMMA NextTells ==
  ASSUME RunInv, RunTables, NEW i \in Jobs, NextDiagnosis(i)
  PROVE  \A j \in Jobs : Told(j)'
<1> DEFINE at == job[i].at
           n == NextStep(i, at)
           stops == cancelled /\ \E j \in at + 1 .. n : ChecksContext(j)
           d == [Free EXCEPT !.phase = "done"]
           f == [job[i] EXCEPT !.phase = "ready", !.at = n]
<1>1. /\ job[i].phase = "between"
      /\ UNCHANGED <<mode, flags, seen, shared, warned, log, cancelled>>
  BY DEF NextDiagnosis
<1>2. \/ /\ job' = [job EXCEPT ![i] = d] /\ result' = [result EXCEPT ![i] = "failed"]
         /\ recorded' = recorded
      \/ /\ n <= Len(Pipeline) /\ job' = [job EXCEPT ![i] = f] /\ UNCHANGED <<result, recorded>>
      \/ /\ ~stops /\ n > Len(Pipeline)
         /\ job' = [job EXCEPT ![i] = d] /\ result' = [result EXCEPT ![i] = "report"]
         /\ recorded' \subseteq recorded \cup {i}
  BY DEF NextDiagnosis, End
<1>3. Told(i) /\ RunTypes /\ IsJob(job[i]) /\ result[i] # "report"
  BY <1>1 DEF RunInv, ReadInv, RunTypes, Told, Reported
<1>4. at \in 0 .. Len(Pipeline)
  BY <1>3 DEF Told, Placed
<1>5. /\ n \in at + 1 .. Len(Pipeline) + 1
      /\ n <= Len(Pipeline) => Enabled(i, Pipeline[n][2])
      /\ \A p \in DOMAIN Pipeline : at < p /\ p < n => ~Enabled(i, Pipeline[p][2])
  <2> HIDE DEF at
  <2> QED
    BY <1>4, NextStepIs
<1>6. d.phase = "done" /\ d.at = 0
  BY FreeChanged
<1>7. f.phase = "ready" /\ f.at = n
  <2> HIDE DEF n
  <2> QED
    BY <1>3, Changed
<1>8. Len(Pipeline) \in Nat /\ DOMAIN Pipeline = 1 .. Len(Pipeline)
  BY PipelineIs
<1>9. \A p \in DOMAIN Pipeline : EnabledAt(i, p) <=> Enabled(i, Pipeline[p][2])
  BY DEF EnabledAt
<1> HIDE DEF n, d, f, stops, at
<1>10. /\ (job'[i] = d \/ (job'[i] = f /\ n <= Len(Pipeline)))
       /\ \A j \in Jobs : j # i =>
            job'[j] = job[j] /\ result'[j] = result[j] /\ (j \in recorded' => j \in recorded)
  BY <1>2, <1>3, JobSet DEF RunTables
<1>11. SameSettings /\ Grown(i) /\ OneEntry(i) /\ Mine(i)
  BY <1>1, <1>10, NoEntry, SharedSame DEF SameSettings, Mine
<1>12. Placed(i)'
  <2>1. job'[i] = f => InDiagnosis(i)'
    <3> SUFFICES ASSUME job'[i] = f PROVE InDiagnosis(i)'
      OBVIOUS
    <3>1. n <= Len(Pipeline) /\ job'[i].at = n
      BY <1>6, <1>7, <1>10
    <3>2. n \in DOMAIN Pipeline
      BY <1>4, <1>5, <1>8, <3>1
    <3>3. EnabledAt(i, n)
      BY <1>5, <1>9, <3>1, <3>2
    <3>4. \E p \in DOMAIN Pipeline : p = job'[i].at /\ EnabledAt(i, p)
      BY <3>1, <3>2, <3>3
    <3> QED
      BY <1>11, <3>4, SettingsKept DEF InDiagnosis
  <2>2. job'[i].at \in 0 .. Len(Pipeline) /\ job'[i].phase \in {"ready", "done"}
    BY <1>4, <1>5, <1>6, <1>7, <1>8, <1>10
  <2>3. job'[i].phase = "ready" => job'[i] = f
    BY <1>6, <1>10
  <2> QED
    BY <1>1, <1>3, <1>11, <2>1, <2>2, <2>3, SettingsKept DEF Told, Placed, InRead
<1>13. \A j \in Jobs : j # i => Told(j)'
  BY <1>1, <1>11, OthersStay
<1>14. ASSUME result'[i] # "report" PROVE Told(i)'
  <2>1. recorded' = recorded
    BY <1>2, <1>14 DEF RunTables
  <2>2. ASSUME NEW p \in DOMAIN Pipeline, EnabledAt(i, p), Over(i, p)' PROVE Over(i, p)
    <3>1. job'[i] = f /\ p < n
      BY <1>6, <1>7, <1>10, <1>14, <2>2 DEF Over
    <3>2. p <= at
      BY <1>4, <1>5, <1>8, <1>9, <2>2, <3>1
    <3> QED
      BY <1>1, <3>2 DEF Over, at
  <2> QED
    BY <1>1, <1>3, <1>11, <1>12, <1>14, <2>1, <2>2, OwnStays
<1>15. ASSUME result'[i] = "report" PROVE Told(i)'
  <2>1. /\ ~stops /\ n > Len(Pipeline) /\ job'[i].phase = "done"
    BY <1>2, <1>3, <1>6, <1>15, JobSet DEF RunTables
  <2>2. Shown(i)'
    <3> SUFFICES ASSUME NEW p \in DOMAIN Pipeline, EnabledAt(i, p), NEW r \in Remembrances
                 PROVE  ShownAt(i, p, r)'
      BY <1>11, SettingsKept DEF Shown
    <3>1. p <= at
      BY <1>4, <1>5, <1>8, <1>9, <2>1
    <3>2. Over(i, p)
      BY <1>1, <3>1 DEF Over, at
    <3>3. ShownAt(i, p, r)
      BY <1>3, <3>2 DEF Told, Shown
    <3>4. Pipeline' = Pipeline /\ Answered(i, r)' = Answered(i, r)
      BY <1>1, <1>11, SettingsKept DEF Answered
    <3> QED
      BY <1>1, <3>3, <3>4 DEF ShownAt
  <2>3. Agrees(i)'
    <3> SUFFICES ASSUME NEW k \in DOMAIN log'[i] PROVE EntryAgrees(i, k)'
      BY DEF Agrees
    <3> QED
      BY <1>1, <1>3, <1>11, AgreesStays DEF Told
  <2>4. Warned(i)'
    BY <1>1, <1>3, <1>11, WarnedStays DEF Told
  <2>5. Untruncated(i)'
    <3> SUFFICES ASSUME mode = "status", NEW j \in Jobs, NEW k \in DOMAIN log[j],
                        log[j][k].late, log[j][k].value = "failed"
                 PROVE  j # i /\ \A w \in warned[i] : FALSE
      BY <1>1 DEF Untruncated
    <3>1. EntryAgrees(j, k)
      BY DEF RunInv, Told, Agrees
    <3>2. cancelled
      BY <3>1 DEF EntryAgrees
    <3>3. ~Enriching
      <4> SUFFICES ASSUME Enriching PROVE FALSE
        OBVIOUS
      <4>1. n = Len(Pipeline) + 1 /\ n \in at + 1 .. n
        BY <1>4, <1>5, <1>8, <2>1
      <4>2. ChecksContext(n)
        BY <4>1, LooksAtTheEnd
      <4> QED
        BY <2>1, <3>2, <4>1, <4>2 DEF stops
    <3>4. \A w \in warned[i] : FALSE
      BY <1>3, <3>3 DEF Told, Warned
    <3>5. j # i
      BY <1>1, <3>1, <3>3 DEF EntryAgrees
    <3> QED
      BY <3>4, <3>5
  <2>6. Reported(i)'
    BY <1>15, <2>1 DEF Reported
  <2> QED
    BY <1>12, <2>2, <2>3, <2>4, <2>5, <2>6 DEF Told
<1> QED
  BY <1>13, <1>14, <1>15

-----------------------------------------------------------------------------
ReportInv == RunInv /\ RunTables

LEMMA JobTells ==
  ASSUME ReportInv, NEW i \in Jobs, JobStep(i)
  PROVE  \A j \in Jobs : Told(j)'
<1>1. RunInv /\ RunTables /\ RunTypes /\ IsJob(job[i])
  BY DEF ReportInv, RunInv, ReadInv, RunTypes
<1>2. ASSUME NEW answer, Reply(i, answer) PROVE \A j \in Jobs : Told(j)'
  <2>1. InRead(i) /\ UNCHANGED <<mode, flags, warned, recorded, cancelled>>
    BY <1>2 DEF Reply, InRead
  <2>2. CASE Settle(i, answer)
    BY <1>1, <2>1, <2>2, SettleTells
  <2>3. CASE ~Settle(i, answer)
    <3> DEFINE f == [job[i] EXCEPT !.phase = "pausing"]
    <3>1. job' = [job EXCEPT ![i] = f] /\ UNCHANGED <<seen, shared, log, result>>
      BY <1>2, <2>3 DEF Reply
    <3>2. f.phase = "pausing" /\ f.at = job[i].at /\ f.read = job[i].read
      BY <1>1, Changed
    <3> HIDE DEF f
    <3> QED
      BY <1>1, <2>1, <3>1, <3>2, RetryTells
  <2> QED
    BY <2>2, <2>3
<1>3. ASSUME Resume(i) PROVE \A j \in Jobs : Told(j)'
  <2>1. InRead(i) /\ UNCHANGED <<mode, flags, warned, recorded, cancelled>>
    BY <1>3 DEF Resume, InRead
  <2>2. CASE Settle(i, "refused")
    BY <1>1, <2>1, <2>2, SettleTells
  <2>3. CASE ~Settle(i, "refused")
    <3> DEFINE n == job[i].tries + 1
               f == [job[i] EXCEPT !.phase = "calling", !.tries = n]
    <3>1. job' = [job EXCEPT ![i] = f] /\ UNCHANGED <<seen, shared, log, result>>
      BY <1>3, <2>3 DEF Resume
    <3> HIDE DEF n
    <3>2. f.phase = "calling" /\ f.at = job[i].at /\ f.read = job[i].read
      BY <1>1, Changed
    <3> HIDE DEF f
    <3> QED
      BY <1>1, <2>1, <3>1, <3>2, RetryTells
  <2> QED
    BY <2>2, <2>3
<1> QED
  BY <1>1, <1>2, <1>3, StartTells, BeginTells, FoundTells, SkipTells, EndTells, NextTells DEF JobStep

LEMMA TablesKept ==
  ASSUME RunTables, [RunNext]_runVars
  PROVE  RunTables'
<1>1. ASSUME NEW i \in Jobs, JobStep(i) PROVE RunTables'
  <2>1. result' = result \/ \E v : result' = [result EXCEPT ![i] = v]
    BY <1>1 DEF JobStep, StartJob, Resume, BeginRead, FoundOnNodes, SkipRead, EndDiagnosis, NextDiagnosis, Reply, Settle, End
  <2>2. warned' = warned \/ \E v : warned' = [warned EXCEPT ![i] = v]
    BY <1>1 DEF JobStep, StartJob, Resume, BeginRead, FoundOnNodes, SkipRead, EndDiagnosis, NextDiagnosis, Reply
  <2> QED
    BY <2>1, <2>2 DEF RunTables
<1>2. CASE Cancel \/ Finish \/ UNCHANGED runVars
  BY <1>2 DEF RunTables, Cancel, Finish, runVars
<1> QED
  BY <1>1, <1>2 DEF RunNext

LEMMA ReportStarts ==
  ASSUME RunInit
  PROVE  ReportInv
<1>1. /\ job = [i \in Jobs |-> [Free EXCEPT !.phase = "waiting"]]
      /\ seen = [i \in Jobs |-> [r \in Snapshotted |-> "unread"]]
      /\ warned = [i \in Jobs |-> {}] /\ log = [i \in Jobs |-> <<>>]
      /\ result = [i \in Jobs |-> "none"] /\ recorded = {}
  BY DEF RunInit
<1>2. RunTables
  BY <1>1 DEF RunTables
<1>3. ASSUME NEW i \in Jobs PROVE Told(i)
  <2>1. job[i].phase = "waiting" /\ job[i].at = 0 /\ result[i] = "none" /\ warned[i] = {} /\ log[i] = <<>>
    BY <1>1, FreeChanged
  <2>2. \A r \in Dependent : seen[i][r] = "unread"
    BY <1>1 DEF Dependent, Snapshotted
  <2>3. Placed(i)
    BY <2>1, <2>2, PipelineIs DEF Placed, InRead
  <2>4. Shown(i)
    BY <2>1 DEF Shown, Over
  <2>5. Agrees(i) /\ Warned(i) /\ Reported(i) /\ Untruncated(i)
    BY <1>1, <2>1 DEF Agrees, Warned, Reported, Untruncated
  <2> QED
    BY <2>3, <2>4, <2>5 DEF Told
<1> QED
  BY <1>2, <1>3, RunStarts DEF ReportInv, RunInv

LEMMA ReportSteps ==
  ASSUME ReportInv, [RunNext]_runVars
  PROVE  ReportInv'
<1>1. ReadInv' /\ RunTables'
  BY RunSteps, TablesKept DEF ReportInv, RunInv
<1>2. ASSUME NEW i \in Jobs, JobStep(i) PROVE \A j \in Jobs : Told(j)'
  BY <1>2, JobTells
<1>3. ASSUME Cancel \/ Finish \/ UNCHANGED runVars, NEW j \in Jobs PROVE Told(j)'
  <2>1. /\ UNCHANGED <<mode, flags, job, seen, shared, warned, log, result, recorded>>
        /\ cancelled => cancelled'
    BY <1>3 DEF Cancel, Finish, runVars
  <2>2. SameSettings /\ Told(j)
    BY <2>1 DEF SameSettings, ReportInv, RunInv
  <2>3. \A r : Answered(j, r)' = Answered(j, r)
    BY <2>1 DEF Answered
  <2>4. Grown(j)
    BY <2>3 DEF Grown
  <2>5. Placed(j)'
    BY <2>1, <2>2, <2>3, SettingsKept DEF Told, Placed, InDiagnosis, InRead
  <2>6. Shown(j)'
    BY <2>1, <2>2, <2>4, <2>5, ShownStays DEF Told, Over
  <2>7. Agrees(j)'
    <3> SUFFICES ASSUME NEW k \in DOMAIN log'[j] PROVE EntryAgrees(j, k)'
      BY DEF Agrees
    <3> QED
      BY <2>1, <2>2, <2>4, AgreesStays DEF Told
  <2>8. Warned(j)'
    BY <2>1, <2>2, <2>4, WarnedStays DEF Told
  <2>9. Reported(j)' /\ Untruncated(j)'
    BY <2>1, <2>2 DEF Told, Reported, Untruncated
  <2> QED
    BY <2>5, <2>6, <2>7, <2>8, <2>9 DEF Told
<1>4. \A j \in Jobs : Told(j)'
  BY <1>2, <1>3 DEF RunNext
<1> QED
  BY <1>1, <1>4 DEF ReportInv, RunInv

LEMMA InvariantShows ==
  ASSUME ReportInv
  PROVE  FailuresShow
<1> SUFFICES ASSUME NEW i \in Jobs, result[i] = "report", NEW r \in Remembrances, NEW j \in Jobs,
                    NEW k \in DOMAIN log[j], log[j][k].read = r, log[j][k].value = "failed",
                    r \in Snapshotted => j = i, NEW d \in RestOn(r), InReport(i, d)
             PROVE  <<d, r>> \in warned[i] \cup Silent /\ (r \in Shared => <<d, r>> \in warned[i])
  <2>1. Snapshotted \cap Shared = {}
    BY DEF Snapshotted, Shared
  <2> QED
    BY <2>1 DEF FailuresShow, Remembrances
<1>1. Told(i) /\ Told(j)
  BY DEF ReportInv, RunInv
<1>2. Answered(j, r) = "failed"
  BY <1>1 DEF Told, Agrees, EntryAgrees
<1>3. Answered(i, r) = "failed"
  BY <1>2 DEF Answered
<1>4. PICK p \in DOMAIN Pipeline : Pipeline[p][2] = d /\ Enabled(i, d)
  BY DEF InReport
<1>5. EnabledAt(i, p) /\ Over(i, p)
  BY <1>4 DEF EnabledAt, Over
<1>6. ShownAt(i, p, r)
  BY <1>1, <1>5 DEF Told, Shown
<1>7. <<d, r>> \in warned[i] \cup Silent
  BY <1>3, <1>4, <1>6 DEF ShownAt
<1>8. r \in Shared => <<d, r>> \notin Silent
  BY DEF Shared, Silent
<1> QED
  BY <1>7, <1>8

LEMMA InvariantUntruncated ==
  ASSUME ReportInv
  PROVE  NoTruncatedReport
<1> SUFFICES ASSUME mode = "status", NEW i \in Jobs, result[i] = "report" \/ i \in recorded
             PROVE  /\ \A k \in DOMAIN log[i] : ~(log[i][k].late /\ log[i][k].value = "failed")
                    /\ \A r \in Shared : \A j \in Jobs : \A k \in DOMAIN log[j] :
                         log[j][k].read = r /\ log[j][k].late /\ log[j][k].value = "failed" =>
                           \A d \in RestOn(r) : <<d, r>> \notin warned[i]
  BY DEF NoTruncatedReport
<1>1. Reported(i) /\ Untruncated(i)
  BY DEF ReportInv, RunInv, Told
<1>2. \A j \in Jobs : \A k \in DOMAIN log[j] :
        log[j][k].late /\ log[j][k].value = "failed" =>
          j # i /\ \A w \in warned[i] : log[j][k].read \in Shared => w[2] # log[j][k].read
  BY <1>1 DEF Reported, Untruncated
<1> QED
  BY <1>2

(***************************************************************************)
(* However many names, whatever fails and however the jobs interleave, a   *)
(* read that failed shows in every diagnosis of a report that rests on it, *)
(* the one that made it or another that found it remembered                *)
(* (src/internal/observation/snapshot.go, src/cmd/enricher.go).            *)
(***************************************************************************)
THEOREM EveryFailureShows == RunSpec => []FailuresShow
<1>1. RunInit => ReportInv
  BY ReportStarts
<1>2. ReportInv /\ [RunNext]_runVars => ReportInv'
  BY ReportSteps
<1>3. ReportInv => FailuresShow
  BY InvariantShows
<1> QED
  BY <1>1, <1>2, <1>3, PTL DEF RunSpec

(***************************************************************************)
(* At whatever moment Ctrl+C comes, a status report that was finished      *)
(* shows no read that failed because of it, of this job or of another one  *)
(* that read for the whole run, and no other health is recorded            *)
(* (src/cmd/enricher.go, src/cmd/status.go).                               *)
(***************************************************************************)
THEOREM NothingIsTruncated == RunSpec => []NoTruncatedReport
<1>1. RunInit => ReportInv
  BY ReportStarts
<1>2. ReportInv /\ [RunNext]_runVars => ReportInv'
  BY ReportSteps
<1>3. ReportInv => NoTruncatedReport
  BY InvariantUntruncated
<1> QED
  BY <1>1, <1>2, <1>3, PTL DEF RunSpec

-----------------------------------------------------------------------------
\* The parts of a flattened sequence.

\* The partial results of FlattenSeq, up to part n, as one function.
Flattens(f, w, n) ==
  f = [i \in 1 .. n |-> IF i = 1 THEN w[i] ELSE f[i - 1] \o w[i]]

\* There is such a function, however far it goes.
LEMMA FlattensExists ==
  ASSUME NEW w, NEW n \in Nat
  PROVE  \E f : Flattens(f, w, n)
<1> DEFINE bad == {k \in Nat : ~ \E f : Flattens(f, w, k)}
<1>1. SUFFICES ASSUME bad # {} PROVE FALSE
  OBVIOUS
<1>2. PICK k \in bad : \A j \in bad : k <= j
  BY <1>1, LeastPosition
<1>3. k # 0
  <2>1. Flattens([i \in 1 .. 0 |-> <<>>], w, 0)
    BY DEF Flattens
  <2> QED
    BY <2>1
<1>4. PICK f : Flattens(f, w, k - 1)
  <2>1. k - 1 \in Nat /\ k - 1 \notin bad
    BY <1>2, <1>3
  <2> QED
    BY <2>1
<1> DEFINE g == [i \in 1 .. k |->
                   IF i < k THEN f[i] ELSE IF i = 1 THEN w[i] ELSE f[k - 1] \o w[i]]
<1>5. Flattens(g, w, k)
  <2>1. ASSUME NEW i \in 1 .. k
        PROVE  g[i] = IF i = 1 THEN w[i] ELSE g[i - 1] \o w[i]
    <3>1. CASE i = k
      <4>1. i # 1 => i - 1 \in 1 .. k /\ g[i - 1] = f[k - 1]
        BY <3>1, <1>3
      <4> QED
        BY <3>1, <4>1
    <3>2. CASE i < k
      <4>1. i \in 1 .. k - 1 /\ (i # 1 => i - 1 \in 1 .. k - 1)
        BY <3>2
      <4>2. f[i] = IF i = 1 THEN w[i] ELSE f[i - 1] \o w[i]
        BY <1>4, <4>1 DEF Flattens
      <4>3. g[i] = f[i] /\ (i # 1 => g[i - 1] = f[i - 1])
        BY <3>2, <4>1
      <4> QED
        BY <4>2, <4>3
    <3> QED
      BY <3>1, <3>2
  <2> HIDE DEF g
  <2>2. g = [i \in 1 .. k |-> g[i]]
    BY DEF g
  <2> QED
    BY <2>1, <2>2 DEF Flattens
<1> QED
  BY <1>2, <1>5

\* There is only one.
LEMMA FlattensUnique ==
  ASSUME NEW w, NEW n \in Nat, NEW f, NEW g, Flattens(f, w, n), Flattens(g, w, n)
  PROVE  f = g
<1> DEFINE bad == {i \in 1 .. n : f[i] # g[i]}
<1>1. /\ f = [i \in 1 .. n |-> f[i]] /\ g = [i \in 1 .. n |-> g[i]]
      /\ \A i \in 1 .. n : f[i] = IF i = 1 THEN w[i] ELSE f[i - 1] \o w[i]
      /\ \A i \in 1 .. n : g[i] = IF i = 1 THEN w[i] ELSE g[i - 1] \o w[i]
  BY DEF Flattens
<1>2. ASSUME bad # {} PROVE FALSE
  <2>0. bad \in SUBSET Nat
    OBVIOUS
  <2> HIDE DEF bad
  <2>1. PICK m \in bad : \A k \in bad : m <= k
    BY <1>2, <2>0, LeastPosition
  <2> USE DEF bad
  <2>2. m # 1 => m - 1 \in 1 .. n /\ m - 1 \notin bad
    BY <2>1
  <2> QED
    BY <1>1, <2>1, <2>2
<1> QED
  BY <1>1, <1>2

\* FlattenSeq is what any such function ends with.
LEMMA FlattenIs ==
  ASSUME NEW w, NEW n \in Nat \ {0}, Len(w) = n, NEW f, Flattens(f, w, n)
  PROVE  FlattenSeq(w) = f[n]
<1>1. FlattenSeq(w) = (CHOOSE g : Flattens(g, w, n))[n]
  BY DEF FlattenSeq, Flattens
<1>2. Flattens(CHOOSE g : Flattens(g, w, n), w, n)
  BY Zenon
<1>3. (CHOOSE g : Flattens(g, w, n)) = f
  BY <1>2, FlattensUnique
<1> QED
  BY <1>1, <1>3

\* A part more at the end.
LEMMA FlattenAppend ==
  ASSUME NEW T, NEW w \in Seq(Seq(T)), NEW s \in Seq(T)
  PROVE  /\ FlattenSeq(<<>>) = <<>>
         /\ FlattenSeq(w) \in Seq(T)
         /\ FlattenSeq(Append(w, s)) = FlattenSeq(w) \o s
<1> DEFINE n == Len(w)
           v == Append(w, s)
<1>1. n \in Nat /\ v \in Seq(Seq(T)) /\ Len(v) = n + 1 /\ v[n + 1] = s
      /\ \A i \in 1 .. n : v[i] = w[i] /\ w[i] \in Seq(T)
  OBVIOUS
<1>2. FlattenSeq(<<>>) = <<>>
  BY DEF FlattenSeq
<1>3. PICK g : Flattens(g, v, n + 1)
  <2>1. n + 1 \in Nat
    OBVIOUS
  <2> HIDE DEF v, n
  <2> QED
    BY <2>1, FlattensExists, Zenon
<1> HIDE DEF v, n
<1>4. \A i \in 1 .. n + 1 : g[i] = IF i = 1 THEN v[i] ELSE g[i - 1] \o v[i]
  BY <1>3 DEF Flattens
<1>5. FlattenSeq(v) = g[n + 1]
  <2>1. n + 1 \in Nat \ {0}
    BY <1>1
  <2> QED
    BY <1>1, <1>3, <2>1, FlattenIs
<1>6. ASSUME n # 0
      PROVE  FlattenSeq(w) = g[n] /\ g[n] \in Seq(T)
  <2> DEFINE f == [i \in 1 .. n |-> g[i]]
             bad == {i \in 1 .. n : g[i] \notin Seq(T)}
  <2>1. Flattens(f, w, n)
    <3>1. ASSUME NEW i \in 1 .. n
          PROVE  f[i] = IF i = 1 THEN w[i] ELSE f[i - 1] \o w[i]
      <4>1. i \in 1 .. n + 1 /\ (i # 1 => i - 1 \in 1 .. n)
        BY <1>1
      <4> QED
        BY <4>1, <1>1, <1>4
    <3> HIDE DEF f
    <3>2. f = [i \in 1 .. n |-> f[i]]
      BY DEF f
    <3> QED
      BY <3>1, <3>2 DEF Flattens
  <2>2. FlattenSeq(w) = f[n]
    <3>1. n \in Nat \ {0} /\ Len(w) = n
      BY <1>1, <1>6 DEF n
    <3> QED
      BY <2>1, <3>1, FlattenIs
  <2>3. ASSUME bad # {} PROVE FALSE
    <3>0. bad \in SUBSET Nat
      BY <1>1
    <3> HIDE DEF bad
    <3>1. PICK m \in bad : \A k \in bad : m <= k
      BY <2>3, <3>0, LeastPosition
    <3> USE DEF bad
    <3>2. m \in 1 .. n + 1 /\ (m # 1 => m - 1 \in 1 .. n /\ m - 1 \notin bad)
      BY <3>1, <1>1
    <3>3. CASE m = 1
      BY <3>1, <3>2, <3>3, <1>1, <1>4
    <3>4. CASE m # 1
      <4>1. m \in 1 .. n /\ g[m] \notin Seq(T)
        BY <3>1
      <4>2. g[m - 1] \in Seq(T)
        BY <3>2, <3>4
      <4>3. v[m] \in Seq(T)
        BY <4>1, <1>1
      <4>4. g[m] = g[m - 1] \o v[m]
        BY <3>2, <3>4, <1>4
      <4> QED
        BY <4>1, <4>2, <4>3, <4>4
    <3> QED
      BY <3>3, <3>4
  <2>4. n \in 1 .. n
    BY <1>1, <1>6
  <2> QED
    BY <2>2, <2>3, <2>4
<1>7. CASE n = 0
  <2>1. w = <<>>
    BY <1>7 DEF n
  <2>2. g[n + 1] = s
    BY <1>1, <1>4, <1>7
  <2>3. <<>> \o s = s /\ <<>> \in Seq(T)
    OBVIOUS
  <2>4. FlattenSeq(v) = s
    BY <1>5, <2>2
  <2>5. FlattenSeq(w) = <<>>
    BY <1>2, <2>1
  <2>6. FlattenSeq(Append(w, s)) = s
    BY <2>4 DEF v
  <2> QED
    BY <1>2, <2>3, <2>5, <2>6
<1>8. CASE n # 0
  <2>1. g[n + 1] = g[n] \o s
    <3>1. n + 1 \in 1 .. n + 1 /\ n + 1 # 1 /\ (n + 1) - 1 = n
      BY <1>1, <1>8
    <3> QED
      BY <1>1, <1>4, <3>1
  <2> QED
    BY <1>2, <1>5, <1>6, <1>8, <2>1 DEF v
<1> QED
  BY <1>7, <1>8

-----------------------------------------------------------------------------
\* What a reader of a recording finds.

FileLines == RecordLines \cup {Torn}

LEMMA LineFields ==
  ASSUME NEW line \in FileLines
  PROVE  /\ line.desired \in Nat
         /\ line \in RecordLines => line # Torn /\ line.hpa \in Hpas
<1>1. Torn.desired = 0 /\ Torn.hpa \notin Hpas
  BY RecorderAssumption DEF Torn
<1>2. \A x \in RecordLines : x.hpa \in Hpas /\ x.desired \in Nat
  BY DEF RecordLines
<1> QED
  BY <1>1, <1>2 DEF FileLines

\* A line more is a value more for its HPA, and nothing for the others.
LEMMA TraceAppend ==
  ASSUME NEW lines \in Seq(FileLines), NEW line \in FileLines, NEW h
  PROVE  /\ TraceOf(<<>>, h) = <<>>
         /\ TraceOf(lines, h) \in Seq(Nat)
         /\ TraceOf(Append(lines, line), h) =
              IF line.hpa = h THEN Append(TraceOf(lines, h), line.desired) ELSE TraceOf(lines, h)
<1> DEFINE Part(x) == IF x.hpa = h THEN <<x.desired>> ELSE <<>>
           w == [k \in DOMAIN lines |-> Part(lines[k])]
           v == [k \in DOMAIN Append(lines, line) |-> Part(Append(lines, line)[k])]
<1>1. ASSUME NEW x \in FileLines
      PROVE  Part(x) \in Seq(Nat)
  <2>1. x.desired \in Nat
    BY LineFields
  <2>2. <<x.desired>> \in Seq(Nat) /\ <<>> \in Seq(Nat)
    BY <2>1
  <2> QED
    BY <2>2
<1>2. TraceOf(<<>>, h) = <<>>
  <2>1. [k \in DOMAIN <<>> |-> IF <<>>[k].hpa = h THEN <<<<>>[k].desired>> ELSE <<>>] = <<>>
    OBVIOUS
  <2>2. FlattenSeq(<<>>) = <<>>
    BY DEF FlattenSeq
  <2> HIDE DEF Part
  <2> QED
    BY <2>1, <2>2, Zenon DEF TraceOf
<1> HIDE DEF Part
<1>3. w \in Seq(Seq(Nat))
  <2>1. \A k \in 1 .. Len(lines) : Part(lines[k]) \in Seq(Nat)
    BY <1>1
  <2>2. DOMAIN lines = 1 .. Len(lines) /\ Len(lines) \in Nat
    OBVIOUS
  <2> QED
    BY <2>1, <2>2
<1>4. v = Append(w, Part(line))
  OBVIOUS
<1>5. TraceOf(lines, h) = FlattenSeq(w) /\ TraceOf(Append(lines, line), h) = FlattenSeq(v)
  BY DEF TraceOf, Part
<1> HIDE DEF w, v
<1>6. /\ FlattenSeq(w) \in Seq(Nat)
      /\ FlattenSeq(v) = FlattenSeq(w) \o Part(line)
  BY <1>1, <1>3, <1>4, FlattenAppend
<1>7. /\ FlattenSeq(w) \o <<>> = FlattenSeq(w)
      /\ FlattenSeq(w) \o <<line.desired>> = Append(FlattenSeq(w), line.desired)
  BY <1>6, LineFields
<1> QED
  BY <1>2, <1>5, <1>6, <1>7 DEF Part

\* A value more is a change when it differs from the last one.
LEMMA ChangesAppend ==
  ASSUME NEW s \in Seq(Nat), NEW x \in Nat
  PROVE  /\ ChangesIn(<<>>) = 0
         /\ ChangesIn(s) \in Nat
         /\ ChangesIn(Append(s, x)) =
              ChangesIn(s) + (IF s # <<>> /\ s[Len(s)] # x THEN 1 ELSE 0)
<1> DEFINE n == Len(s)
           t == Append(s, x)
           At(u) == {k \in 2 .. Len(u) : u[k] # u[k - 1]}
<1>1. n \in Nat /\ Len(t) = n + 1 /\ t[n + 1] = x /\ \A k \in 1 .. n : t[k] = s[k]
  OBVIOUS
<1>2. s # <<>> <=> n # 0
  OBVIOUS
<1>3. ChangesIn(s) = Cardinality(At(s)) /\ ChangesIn(t) = Cardinality(At(t))
  BY DEF ChangesIn
<1> HIDE DEF n, t
<1>4. IsFiniteSet(At(s)) /\ Cardinality(At(s)) \in Nat
  <2>1. IsFiniteSet(2 .. n)
    BY <1>1, FS_Interval
  <2>2. At(s) \subseteq 2 .. n
    BY DEF n
  <2>3. IsFiniteSet(At(s))
    BY <2>1, <2>2, FS_Subset
  <2> QED
    BY <2>3, FS_CardinalityType
<1>5. At(t) = At(s) \cup (IF n # 0 /\ s[n] # x THEN {n + 1} ELSE {})
  <2>1. ASSUME NEW k \in 2 .. n + 1
        PROVE  t[k] # t[k - 1] <=> IF k = n + 1 THEN s[n] # x ELSE s[k] # s[k - 1]
    <3>1. CASE k = n + 1
      BY <1>1, <3>1
    <3>2. CASE k # n + 1
      <4>1. k \in 1 .. n /\ k - 1 \in 1 .. n
        BY <1>1, <3>2
      <4> QED
        BY <1>1, <3>2, <4>1
    <3> QED
      BY <3>1, <3>2
  <2>2. At(t) = {k \in 2 .. n + 1 : t[k] # t[k - 1]} /\ At(s) = {k \in 2 .. n : s[k] # s[k - 1]}
    BY <1>1 DEF n
  <2>3. \A k : k \in 2 .. n + 1 <=> k \in 2 .. n \/ (k = n + 1 /\ n # 0)
    BY <1>1
  <2>4. n + 1 \notin 2 .. n
    BY <1>1
  <2> HIDE DEF At
  <2> QED
    BY <2>1, <2>2, <2>3, <2>4
<1>6. n + 1 \notin At(s)
  BY <1>1 DEF n
<1>7. ChangesIn(<<>>) = 0
  <2>1. {k \in 2 .. Len(<<>>) : <<>>[k] # <<>>[k - 1]} = {}
    OBVIOUS
  <2> QED
    BY <2>1, FS_EmptySet DEF ChangesIn
<1> HIDE DEF At
<1>8. CASE n # 0 /\ s[n] # x
  <2>1. Cardinality(At(t)) = Cardinality(At(s)) + 1
    BY <1>4, <1>5, <1>6, <1>8, FS_AddElement
  <2> QED
    BY <1>2, <1>3, <1>4, <1>7, <1>8, <2>1 DEF n, t
<1>9. CASE ~(n # 0 /\ s[n] # x)
  <2>1. At(t) = At(s)
    BY <1>5, <1>9
  <2> QED
    BY <1>2, <1>3, <1>4, <1>7, <1>9, <2>1 DEF n, t
<1> QED
  BY <1>8, <1>9

\* What a batch says of an HPA in it.
LEMMA DesiredIs ==
  ASSUME NEW batch \in Batches \cup {<<>>}, NEW k \in DOMAIN batch
  PROVE  /\ batch \in Seq(RecordLines)
         /\ batch[k].hpa \in Hpas /\ batch[k].desired \in Nat
         /\ Desired(batch, batch[k].hpa) = batch[k].desired
         /\ \A j \in DOMAIN batch : batch[j].hpa = batch[k].hpa => j = k
<1>1. batch \in Seq(RecordLines) /\ \A i, j \in DOMAIN batch : batch[i].hpa = batch[j].hpa => i = j
  BY RecorderAssumption
<1>2. batch[k] \in RecordLines
  BY <1>1
<1>3. ToSet(batch) = {batch[i] : i \in DOMAIN batch}
  BY DEF ToSet
<1>4. \A line \in ToSet(batch) : line.hpa = batch[k].hpa => line = batch[k]
  BY <1>1, <1>3
<1>5. (CHOOSE line \in ToSet(batch) : line.hpa = batch[k].hpa) = batch[k]
  BY <1>3, <1>4
<1> QED
  BY <1>1, <1>2, <1>5 DEF Desired, RecordLines

-----------------------------------------------------------------------------
\* What the summary and the files of the recorders agree on.

RecordSpec == RecInit /\ [][RecNext]_recVars

Listings == Batches \cup {<<>>}

RecorderPhases == {"start", "inspect", "prepare", "recheck", "publish", "wait", "append",
                   "failed", "stopped", "lost"}

RecorderStates == [phase : RecorderPhases, file : Nat, saw : Nat, size : Nat, batch : Listings,
                   left : Seq(RecordLines), ticks : Nat]

FileStates == [owner : Recorders \cup {"someone"}, lines : Seq(FileLines), synced : Nat]

Tellings == [lines : Nat, batches : Nat]

SummaryStates == [counts : [Hpas -> Nat], previous : [Hpas -> Nat \cup {Absent}],
                  changes : [Hpas -> Seq(Nat)], omitted : [Hpas -> Nat]]

Untold == [lines |-> 0, batches |-> 0]

Noted(s, h) == Len(s.changes[h]) + s.omitted[h]

(***************************************************************************)
(* The summary of an HPA after the lines told: the changes noted are those *)
(* of the lines unless the HPA was away, and then they are fewer; what a   *)
(* change is measured against is the last line.                            *)
(***************************************************************************)
Counted(told, h, a, s) ==
  LET trace == TraceOf(told, h)
  IN  /\ Len(trace) = s.counts[h]
      /\ s.counts[h] <= a.batches
      /\ Noted(s, h) <= ChangesIn(trace)
      /\ s.counts[h] = a.batches => Noted(s, h) = ChangesIn(trace)
      /\ s.previous[h] # Absent => trace # <<>> /\ trace[Len(trace)] = s.previous[h]
      /\ s.counts[h] = a.batches /\ s.counts[h] > 0 => s.previous[h] # Absent

LEMMA TrackTyped ==
  ASSUME NEW s \in SummaryStates, NEW batch \in Listings
  PROVE  Track(s, batch) \in SummaryStates
<1>1. ASSUME NEW h \in HpasOf(batch) PROVE h \in Hpas /\ Desired(batch, h) \in Nat
  <2>1. PICK k \in DOMAIN batch : batch[k].hpa = h
    BY DEF HpasOf, ToSet
  <2> QED
    BY <2>1, DesiredIs DEF Listings
<1>2. /\ s.counts \in [Hpas -> Nat] /\ s.previous \in [Hpas -> Nat \cup {Absent}]
      /\ s.changes \in [Hpas -> Seq(Nat)] /\ s.omitted \in [Hpas -> Nat]
  BY DEF SummaryStates
<1>3. ASSUME NEW h \in Hpas
      PROVE  /\ Track(s, batch).counts[h] \in Nat
             /\ Track(s, batch).previous[h] \in Nat \cup {Absent}
             /\ Track(s, batch).changes[h] \in Seq(Nat)
             /\ Track(s, batch).omitted[h] \in Nat
  <2>1. s.counts[h] \in Nat /\ s.changes[h] \in Seq(Nat) /\ s.omitted[h] \in Nat
    BY <1>2
  <2>2. Len(s.changes[h]) = ChangeLimit => Tail(s.changes[h]) \in Seq(Nat)
    BY <2>1, RecorderAssumption
  <2>3. ASSUME h \in HpasOf(batch)
        PROVE  /\ Append(s.changes[h], Desired(batch, h)) \in Seq(Nat)
               /\ Len(s.changes[h]) = ChangeLimit => Append(Tail(s.changes[h]), Desired(batch, h)) \in Seq(Nat)
    BY <1>1, <2>1, <2>2, <2>3
  <2> QED
    BY <1>1, <2>1, <2>3 DEF Track
<1>4. Track(s, batch) =
        [counts |-> [h \in Hpas |-> Track(s, batch).counts[h]],
         previous |-> [h \in Hpas |-> Track(s, batch).previous[h]],
         changes |-> [h \in Hpas |-> Track(s, batch).changes[h]],
         omitted |-> [h \in Hpas |-> Track(s, batch).omitted[h]]]
  BY DEF Track
<1> HIDE DEF Absent
<1> QED
  BY <1>3, <1>4 DEF SummaryStates

\* A change more is noted, kept in the list or counted as left out.
LEMMA TrackNotes ==
  ASSUME NEW s \in SummaryStates, NEW batch \in Listings, NEW h \in Hpas
  PROVE  LET changed == h \in HpasOf(batch) /\ s.previous[h] \notin {Absent, Desired(batch, h)}
         IN  /\ Noted(s, h) \in Nat
             /\ Noted(Track(s, batch), h) = Noted(s, h) + (IF changed THEN 1 ELSE 0)
             /\ Track(s, batch).counts[h] = s.counts[h] + (IF h \in HpasOf(batch) THEN 1 ELSE 0)
             /\ Track(s, batch).previous[h] = IF h \in HpasOf(batch) THEN Desired(batch, h) ELSE Absent
<1> DEFINE changed == h \in HpasOf(batch) /\ s.previous[h] \notin {Absent, Desired(batch, h)}
           c == s.changes[h]
           d == Desired(batch, h)
<1>1. c \in Seq(Nat) /\ s.omitted[h] \in Nat
  BY DEF SummaryStates
<1>2. changed => d \in Nat
  <2>1. ASSUME h \in HpasOf(batch) PROVE d \in Nat
    <3>1. PICK k \in DOMAIN batch : batch[k].hpa = h
      BY <2>1 DEF HpasOf, ToSet
    <3> QED
      BY <3>1, DesiredIs DEF Listings
  <2> QED
    BY <2>1
<1>3. /\ Track(s, batch).changes[h] =
           IF ~changed THEN c ELSE Append(IF Len(c) = ChangeLimit THEN Tail(c) ELSE c, d)
      /\ Track(s, batch).omitted[h] = s.omitted[h] + (IF changed /\ Len(c) = ChangeLimit THEN 1 ELSE 0)
      /\ Track(s, batch).counts[h] = s.counts[h] + (IF h \in HpasOf(batch) THEN 1 ELSE 0)
      /\ Track(s, batch).previous[h] = IF h \in HpasOf(batch) THEN d ELSE Absent
  BY DEF Track
<1>4. ASSUME changed, Len(c) = ChangeLimit
      PROVE  Len(Append(Tail(c), d)) = Len(c)
  BY <1>1, <1>2, <1>4, RecorderAssumption
<1>5. ASSUME changed PROVE Len(Append(c, d)) = Len(c) + 1
  BY <1>1, <1>2, <1>5
<1> changed \in BOOLEAN
  OBVIOUS
<1> HIDE DEF changed, c, d
<1>6. Len(c) \in Nat
  BY <1>1
<1>7. Noted(s, h) = Len(c) + s.omitted[h]
  BY DEF Noted, c
<1>8. Noted(Track(s, batch), h) = Noted(s, h) + (IF changed THEN 1 ELSE 0)
  <2>1. Noted(Track(s, batch), h) = Len(Track(s, batch).changes[h]) + Track(s, batch).omitted[h]
    BY DEF Noted
  <2>2. CASE ~changed
    BY <1>1, <1>3, <1>6, <1>7, <2>1, <2>2
  <2>3. CASE changed /\ Len(c) = ChangeLimit
    <3>1. Track(s, batch).changes[h] = Append(Tail(c), d) /\ Track(s, batch).omitted[h] = s.omitted[h] + 1
      BY <1>1, <1>3, <2>3
    <3>2. Len(Append(Tail(c), d)) = Len(c)
      BY <1>4, <2>3
    <3>3. Noted(Track(s, batch), h) = Len(c) + (s.omitted[h] + 1)
      BY <2>1, <3>1, <3>2
    <3> QED
      BY <1>1, <1>6, <1>7, <2>3, <3>3
  <2>4. CASE changed /\ Len(c) # ChangeLimit
    <3>1. Track(s, batch).changes[h] = Append(c, d) /\ Track(s, batch).omitted[h] = s.omitted[h]
      BY <1>1, <1>3, <2>4
    <3>2. Len(Append(c, d)) = Len(c) + 1
      BY <1>5, <2>4
    <3>3. Noted(Track(s, batch), h) = (Len(c) + 1) + s.omitted[h]
      BY <2>1, <3>1, <3>2
    <3> QED
      BY <1>1, <1>6, <1>7, <2>4, <3>3
  <2> QED
    BY <2>2, <2>3, <2>4
<1> QED
  BY <1>1, <1>3, <1>6, <1>7, <1>8 DEF changed, d

LEMMA LastAppended ==
  ASSUME NEW u \in Seq(Nat), NEW x \in Nat
  PROVE  /\ Len(Append(u, x)) = Len(u) + 1 /\ Append(u, x) # <<>>
         /\ Append(u, x)[Len(u) + 1] = x
OBVIOUS

\* Counting a batch whose lines followed those told.
LEMMA TrackCounts ==
  ASSUME NEW told \in Seq(FileLines), NEW all, NEW batch \in Listings, NEW h \in Hpas,
         NEW a \in Tellings, NEW s \in SummaryStates, Counted(told, h, a, s),
         TraceOf(all, h) = IF h \in HpasOf(batch)
                           THEN Append(TraceOf(told, h), Desired(batch, h)) ELSE TraceOf(told, h)
  PROVE  Counted(all, h, Announce(a, batch), Track(s, batch))
<1> DEFINE trace == TraceOf(told, h)
           d == Desired(batch, h)
           t == Track(s, batch)
           b == Announce(a, batch)
           p == s.previous[h]
<1>1. trace \in Seq(Nat)
  <2>1. Torn \in FileLines
    BY DEF FileLines
  <2> QED
    BY <2>1, TraceAppend
<1>2. s.counts[h] \in Nat /\ a.batches \in Nat /\ b.batches = a.batches + 1
      /\ p \in Nat \cup {Absent} /\ Absent \notin Nat
  BY DEF SummaryStates, Tellings, Announce, Absent
<1>3. Noted(s, h) \in Nat
  BY TrackNotes
<1>4. /\ Len(trace) = s.counts[h] /\ s.counts[h] <= a.batches /\ Noted(s, h) <= ChangesIn(trace)
      /\ s.counts[h] = a.batches => Noted(s, h) = ChangesIn(trace)
      /\ p # Absent => trace # <<>> /\ trace[Len(trace)] = p
      /\ s.counts[h] = a.batches /\ s.counts[h] > 0 => p # Absent
  BY DEF Counted
<1>5. ChangesIn(trace) \in Nat
  BY <1>1, ChangesAppend
<1>6. CASE h \in HpasOf(batch)
  <2>1. d \in Nat
    <3>1. PICK k \in DOMAIN batch : batch[k].hpa = h
      BY <1>6 DEF HpasOf, ToSet
    <3> QED
      BY <3>1, DesiredIs DEF Listings
  <2> DEFINE next == Append(trace, d)
  <2>2. TraceOf(all, h) = next
    BY <1>6
  <2>3. Len(next) = Len(trace) + 1 /\ next # <<>> /\ next[Len(next)] = d
    <3> HIDE DEF trace, d
    <3> QED
      BY <1>1, <2>1, LastAppended
  <2>4. ChangesIn(next) = ChangesIn(trace) + (IF trace # <<>> /\ trace[Len(trace)] # d THEN 1 ELSE 0)
    BY <1>1, <2>1, ChangesAppend
  <2>5. /\ Noted(t, h) = Noted(s, h) + (IF p \notin {Absent, d} THEN 1 ELSE 0)
        /\ t.counts[h] = s.counts[h] + 1
        /\ t.previous[h] = d
    BY <1>6, TrackNotes
  <2>6. trace # <<>> <=> Len(trace) > 0
    BY <1>1
  <2>7. p \notin {Absent, d} => trace # <<>> /\ trace[Len(trace)] # d
    BY <1>4
  <2> HIDE DEF trace, d, t, b, p, next
  <2>8. Noted(t, h) <= ChangesIn(next)
    BY <1>3, <1>4, <1>5, <2>4, <2>5, <2>7
  <2>9. ASSUME t.counts[h] = b.batches PROVE Noted(t, h) = ChangesIn(next)
    <3>1. s.counts[h] = a.batches
      BY <1>2, <2>5, <2>9
    <3>2. CASE s.counts[h] = 0
      BY <1>3, <1>4, <1>5, <2>4, <2>5, <2>6, <2>7, <3>1, <3>2
    <3>3. CASE s.counts[h] # 0
      <4>1. p # Absent /\ trace # <<>> /\ trace[Len(trace)] = p
        BY <1>2, <1>4, <3>1, <3>3
      <4> QED
        BY <1>3, <1>4, <1>5, <2>4, <2>5, <3>1, <4>1
    <3> QED
      BY <3>2, <3>3
  <2>10. Len(next) = t.counts[h] /\ t.counts[h] <= b.batches /\ t.previous[h] # Absent
    BY <1>2, <1>4, <2>1, <2>3, <2>5
  <2> QED
    BY <2>2, <2>3, <2>5, <2>8, <2>9, <2>10 DEF Counted, t, b
<1>7. CASE h \notin HpasOf(batch)
  <2>1. TraceOf(all, h) = trace
    BY <1>7
  <2>2. Noted(t, h) = Noted(s, h) /\ t.counts[h] = s.counts[h] /\ t.previous[h] = Absent
    <3>1. s.counts[h] + 0 = s.counts[h] /\ Noted(s, h) + 0 = Noted(s, h)
      BY <1>2, <1>3
    <3> QED
      BY <1>7, <3>1, TrackNotes
  <2> HIDE DEF trace, t, b
  <2>3. t.counts[h] <= b.batches /\ t.counts[h] # b.batches
    BY <1>2, <1>4, <2>2
  <2> QED
    BY <1>4, <2>1, <2>2, <2>3 DEF Counted, t, b
<1> QED
  BY <1>6, <1>7

\* A recorder that has no file of its own has told nothing.
Idle(q, a, s) ==
  /\ q.phase \in {"start", "inspect", "failed", "lost"}
  /\ q.phase = "inspect" => q.batch # <<>>
  /\ a = Untold /\ s = EmptySummary

\* The lines of the batch under way that are in the file already.
UnderWay(batch, left, lines, n) ==
  LET done == Len(batch) - Len(left)
      told == SubSeq(lines, 1, n)
  IN  /\ \A k \in DOMAIN lines : lines[k] # Torn
      /\ done \in Nat /\ n + done = Len(lines)
      /\ \A k \in 1 .. Len(left) : left[k] = batch[done + k]
      /\ \A h \in Hpas :
           TraceOf(lines, h) =
             IF \E k \in 1 .. done : batch[k].hpa = h
             THEN Append(TraceOf(told, h), Desired(batch, h)) ELSE TraceOf(told, h)

(***************************************************************************)
(* The file of a recorder is its own and holds on disk what was told, and  *)
(* the summary counts it.                                                  *)
(***************************************************************************)
Vouched(r, q, f, a, s) ==
  /\ q.phase \notin {"start", "inspect"}
  /\ f.owner = r /\ a.lines <= f.synced
  /\ \A k \in 1 .. a.lines : f.lines[k] # Torn
  /\ \A h \in Hpas : Counted(SubSeq(f.lines, 1, a.lines), h, a, s)
  /\ q.phase \in {"prepare", "recheck", "publish", "append"} =>
       UnderWay(q.batch, q.left, f.lines, a.lines)
  /\ q.phase \in {"prepare", "recheck", "publish"} => q.batch # <<>>
  /\ q.phase \in {"recheck", "publish"} => f.synced = Len(f.lines) /\ q.left = <<>>
  /\ q.phase = "wait" => Len(f.lines) = a.lines

-----------------------------------------------------------------------------
\* What a step of a recorder makes of its file.

LEMMA PrefixOf ==
  ASSUME NEW lines \in Seq(FileLines), NEW n \in 0 .. Len(lines)
  PROVE  /\ SubSeq(lines, 1, n) \in Seq(FileLines) /\ Len(SubSeq(lines, 1, n)) = n
         /\ \A k \in 1 .. n : SubSeq(lines, 1, n)[k] = lines[k]
         /\ SubSeq(lines, 1, Len(lines)) = lines
         /\ \A line \in FileLines : SubSeq(Append(lines, line), 1, n) = SubSeq(lines, 1, n)
         /\ \A m \in n .. Len(lines) : SubSeq(SubSeq(lines, 1, m), 1, n) = SubSeq(lines, 1, n)
OBVIOUS

LEMMA RecorderFields ==
  ASSUME NEW q \in RecorderStates
  PROVE  /\ q.phase \in RecorderPhases /\ q.file \in Nat /\ q.ticks \in Nat
         /\ q.batch \in Listings /\ q.batch \in Seq(RecordLines) /\ Len(q.batch) \in Nat
         /\ q.left \in Seq(RecordLines) /\ Len(q.left) \in Nat
<1>1. /\ q.phase \in RecorderPhases /\ q.file \in Nat /\ q.ticks \in Nat
      /\ q.batch \in Listings /\ q.left \in Seq(RecordLines)
  BY DEF RecorderStates
<1>2. <<>> \in Seq(RecordLines)
  OBVIOUS
<1>3. q.batch \in Seq(RecordLines)
  BY <1>1, <1>2, RecorderAssumption, Zenon DEF Listings
<1> QED
  BY <1>1, <1>3

\* Sequences that begin with the same n elements.
SameTo(n, u, v) == SubSeq(u, 1, n) = SubSeq(v, 1, n) /\ \A k \in 1 .. n : u[k] = v[k]

\* A recorder that is over, whatever became of the lines it had not told.
LEMMA Ended ==
  ASSUME NEW r, NEW q, NEW f, NEW a, NEW s, Vouched(r, q, f, a, s),
         NEW p, p.phase \in {"failed", "stopped", "lost"}, NEW g, g.owner = f.owner,
         a.lines <= g.synced, SameTo(a.lines, g.lines, f.lines)
  PROVE  Vouched(r, p, g, a, s)
BY DEF Vouched, SameTo

LEMMA EndedThere ==
  ASSUME NEW r, NEW q, NEW f, NEW a, NEW s, Vouched(r, q, f, a, s),
         NEW p, p.phase \in {"failed", "stopped", "lost"}
  PROVE  Vouched(r, p, f, a, s)
BY DEF Vouched

\* An empty file for the first batch.
LEMMA Opened ==
  ASSUME NEW r, NEW q \in RecorderStates, NEW a, NEW s, Idle(q, a, s), q.phase = "inspect",
         NEW p, p.phase = "prepare", p.batch = q.batch, p.left = q.batch
  PROVE  Vouched(r, p, [owner |-> r, lines |-> <<>>, synced |-> 0], a, s)
<1> DEFINE f == [owner |-> r, lines |-> <<>>, synced |-> 0]
<1>1. /\ a.lines = 0 /\ a.batches = 0 /\ s = EmptySummary /\ q.batch # <<>>
      /\ f.lines = <<>> /\ f.owner = r /\ f.synced = 0
  BY DEF Idle, Untold
<1>2. q.batch \in Seq(RecordLines)
  BY RecorderFields
<1>3. SubSeq(f.lines, 1, a.lines) = <<>>
  BY <1>1
<1>4. TraceOf(<<>>, "torn") = <<>> /\ \A h \in Hpas : TraceOf(<<>>, h) = <<>>
  <2>1. <<>> \in Seq(FileLines) /\ Torn \in FileLines
    BY DEF FileLines
  <2> QED
    BY <2>1, TraceAppend
<1>5. ASSUME NEW h \in Hpas PROVE Counted(<<>>, h, a, s)
  <2>1. ChangesIn(<<>>) = 0
    <3>1. <<>> \in Seq(Nat) /\ 0 \in Nat
      OBVIOUS
    <3> QED
      BY <3>1, ChangesAppend
  <2>2. s.counts[h] = 0 /\ s.previous[h] = Absent /\ Noted(s, h) = 0
    BY <1>1 DEF EmptySummary, Noted
  <2> QED
    BY <1>1, <1>4, <2>1, <2>2 DEF Counted
<1>6. UnderWay(p.batch, p.left, f.lines, a.lines)
  <2>1. Len(p.batch) - Len(p.left) = 0
    BY <1>2
  <2>2. \A k \in 1 .. Len(p.left) : p.left[k] = p.batch[0 + k]
    BY <1>2
  <2>4. DOMAIN f.lines = {} /\ Len(f.lines) = 0 /\ a.lines + 0 = Len(f.lines) /\ 0 \in Nat
    BY <1>1
  <2>3. \A h \in Hpas : ~ \E k \in 1 .. 0 : p.batch[k].hpa = h
    OBVIOUS
  <2> HIDE DEF f
  <2> QED
    BY <1>1, <1>3, <2>1, <2>2, <2>3, <2>4 DEF UnderWay
<1>7. a.lines <= f.synced /\ \A k \in 1 .. a.lines : f.lines[k] # Torn
  BY <1>1
<1>8. \A h \in Hpas : Counted(SubSeq(f.lines, 1, a.lines), h, a, s)
  BY <1>3, <1>5
<1> HIDE DEF f
<1>9. Vouched(r, p, f, a, s)
  BY <1>1, <1>6, <1>7, <1>8 DEF Vouched
<1> QED
  BY <1>9 DEF f

\* A line of the batch goes out.
LEMMA LineWritten ==
  ASSUME NEW r, NEW q \in RecorderStates, NEW f \in FileStates, NEW a \in Tellings, NEW s,
         Vouched(r, q, f, a, s), f.synced <= Len(f.lines),
         q.phase \in {"prepare", "append"}, q.left # <<>>,
         NEW p, p.phase = q.phase, p.batch = q.batch, p.left = Tail(q.left),
         NEW g, g.owner = f.owner, g.synced = f.synced, g.lines = Append(f.lines, Head(q.left))
  PROVE  Vouched(r, p, g, a, s)
<1> DEFINE done == Len(q.batch) - Len(q.left)
           x == Head(q.left)
           told == SubSeq(f.lines, 1, a.lines)
<1>1. /\ q.batch \in Listings /\ q.batch \in Seq(RecordLines) /\ q.left \in Seq(RecordLines)
      /\ f.lines \in Seq(FileLines) /\ a.lines \in Nat /\ f.synced \in Nat
  <2>1. f.lines \in Seq(FileLines) /\ a.lines \in Nat /\ f.synced \in Nat
    BY DEF FileStates, Tellings
  <2> QED
    BY <2>1, RecorderFields
<1>2. UnderWay(q.batch, q.left, f.lines, a.lines)
  BY DEF Vouched
<1>3. /\ \A k \in DOMAIN f.lines : f.lines[k] # Torn
      /\ done \in Nat /\ a.lines + done = Len(f.lines)
      /\ \A k \in 1 .. Len(q.left) : q.left[k] = q.batch[done + k]
      /\ \A h \in Hpas : TraceOf(f.lines, h) =
             IF \E k \in 1 .. done : q.batch[k].hpa = h
             THEN Append(TraceOf(told, h), Desired(q.batch, h)) ELSE TraceOf(told, h)
  BY <1>2 DEF UnderWay
<1>4. Len(q.left) \in Nat \ {0} /\ Len(q.batch) \in Nat /\ q.left # <<>>
  BY <1>1
<1>5. /\ x = q.left[1] /\ x \in RecordLines /\ x \in FileLines /\ x # Torn
      /\ p.left \in Seq(RecordLines) /\ Len(p.left) = Len(q.left) - 1
      /\ \A k \in 1 .. Len(p.left) : p.left[k] = q.left[k + 1]
  <2>1. x = q.left[1] /\ x \in RecordLines
    BY <1>1
  <2>2. x \in FileLines /\ x # Torn
    BY <2>1, LineFields DEF FileLines
  <2>3. /\ p.left \in Seq(RecordLines) /\ Len(p.left) = Len(q.left) - 1
        /\ \A k \in 1 .. Len(p.left) : p.left[k] = q.left[k + 1]
    BY <1>1
  <2> QED
    BY <2>1, <2>2, <2>3
<1>15. /\ done \in Nat /\ Len(q.left) \in Nat \ {0} /\ Len(q.batch) \in Nat
       /\ Len(q.batch) = done + Len(q.left) /\ done + 1 <= Len(q.batch)
  BY <1>3, <1>4
<1>16. Len(p.left) = Len(q.left) - 1
  BY <1>5
<1>17. a.lines \in Nat /\ Len(f.lines) \in Nat /\ a.lines + done = Len(f.lines)
  <2>1. a.lines \in Nat
    BY <1>1
  <2>2. Len(f.lines) \in Nat
    BY <1>1
  <2>3. a.lines + done = Len(f.lines)
    BY <1>3
  <2> QED
    BY <2>1, <2>2, <2>3
<1> HIDE DEF x, done, told
<1>6. done + 1 \in DOMAIN q.batch /\ x = q.batch[done + 1]
  <2>1. x = q.batch[done + 1]
    BY <1>3, <1>4, <1>5
  <2>2. done + 1 \in 1 .. Len(q.batch)
    BY <1>15
  <2> QED
    BY <1>1, <2>1, <2>2
<1>7. /\ x.hpa \in Hpas /\ Desired(q.batch, x.hpa) = x.desired
      /\ \A j \in DOMAIN q.batch : q.batch[j].hpa = x.hpa => j = done + 1
  BY <1>1, <1>6, DesiredIs DEF Listings
<1>8. /\ g.lines \in Seq(FileLines) /\ Len(g.lines) = Len(f.lines) + 1
      /\ \A k \in DOMAIN g.lines : g.lines[k] # Torn
  <2>1. g.lines = Append(f.lines, x)
    BY DEF x
  <2>2. /\ Append(f.lines, x) \in Seq(FileLines) /\ Len(Append(f.lines, x)) = Len(f.lines) + 1
        /\ \A k \in DOMAIN Append(f.lines, x) : Append(f.lines, x)[k] = x \/ (k \in DOMAIN f.lines /\ Append(f.lines, x)[k] = f.lines[k])
    BY <1>1, <1>5
  <2> QED
    BY <1>3, <1>5, <2>1, <2>2
<1>9. SubSeq(g.lines, 1, a.lines) = told
  <2>1. a.lines \in 0 .. Len(f.lines)
    BY <1>1, <1>3
  <2> QED
    BY <1>1, <1>5, <2>1, PrefixOf DEF told, x
<1>10. Len(p.batch) - Len(p.left) = done + 1
  <2>1. Len(p.batch) = Len(q.batch)
    OBVIOUS
  <2>2. ASSUME NEW i \in Nat, NEW j \in Nat, NEW d \in Nat, i = d + j PROVE i - (j - 1) = d + 1
    BY <2>2
  <2>3. Len(q.batch) - (Len(q.left) - 1) = done + 1
    <3>1. Len(q.left) \in Nat
      BY <1>15
    <3> QED
      BY <1>15, <2>2, <3>1, Zenon
  <2> QED
    BY <1>16, <2>1, <2>3, Zenon
<1>11. \A k \in 1 .. Len(p.left) : p.left[k] = p.batch[(done + 1) + k]
  <2> SUFFICES ASSUME NEW k \in 1 .. Len(p.left) PROVE p.left[k] = p.batch[(done + 1) + k]
    OBVIOUS
  <2>1. k + 1 \in 1 .. Len(q.left) /\ (done + 1) + k = done + (k + 1)
    BY <1>3, <1>4, <1>5
  <2> QED
    BY <1>3, <1>5, <2>1
<1>12. ASSUME NEW h \in Hpas
       PROVE  TraceOf(g.lines, h) =
                IF \E k \in 1 .. done + 1 : p.batch[k].hpa = h
                THEN Append(TraceOf(told, h), Desired(p.batch, h)) ELSE TraceOf(told, h)
  <2>1. TraceOf(g.lines, h) =
          IF x.hpa = h THEN Append(TraceOf(f.lines, h), x.desired) ELSE TraceOf(f.lines, h)
    <3>1. g.lines = Append(f.lines, x)
      BY DEF x
    <3>2. TraceOf(Append(f.lines, x), h) =
            IF x.hpa = h THEN Append(TraceOf(f.lines, h), x.desired) ELSE TraceOf(f.lines, h)
      BY <1>1, <1>5, TraceAppend
    <3> QED
      BY <3>1, <3>2
  <2>2. CASE x.hpa = h
    <3>1. done + 1 \in 1 .. done + 1 /\ p.batch[done + 1].hpa = h
      BY <1>3, <1>6, <2>2
    <3>2. ~ \E k \in 1 .. done : q.batch[k].hpa = h
      <4>1. \A k \in 1 .. done : k \in DOMAIN q.batch /\ k # done + 1
        BY <1>1, <1>3, <1>6
      <4> QED
        BY <1>7, <2>2, <4>1
    <3>3. TraceOf(f.lines, h) = TraceOf(told, h)
      BY <1>3, <3>2
    <3> QED
      BY <1>7, <2>1, <2>2, <3>1, <3>3
  <2>3. CASE x.hpa # h
    <3>1. (\E k \in 1 .. done + 1 : p.batch[k].hpa = h) <=> (\E k \in 1 .. done : q.batch[k].hpa = h)
      <4>1. \A k : k \in 1 .. done + 1 <=> k \in 1 .. done \/ k = done + 1
        BY <1>3
      <4> QED
        BY <1>6, <2>3, <4>1
    <3> QED
      BY <1>3, <2>1, <2>3, <3>1
  <2> QED
    BY <2>2, <2>3
<1>13. UnderWay(p.batch, p.left, g.lines, a.lines)
  <2>1. done + 1 \in Nat /\ a.lines + (done + 1) = Len(g.lines)
    <3>1. Len(g.lines) = Len(f.lines) + 1
      BY <1>8
    <3>2. ASSUME NEW i \in Nat, NEW j \in Nat, NEW d \in Nat, i + d = j PROVE i + (d + 1) = j + 1
      BY <3>2
    <3> QED
      BY <1>15, <1>17, <3>1, <3>2
  <2> QED
    BY <1>8, <1>9, <1>10, <1>11, <1>12, <2>1 DEF UnderWay
<1>14. \A k \in 1 .. a.lines : g.lines[k] # Torn
  <2>1. \A k \in 1 .. a.lines : k \in DOMAIN g.lines
    BY <1>1, <1>3, <1>8
  <2> QED
    BY <1>8, <2>1
<1> QED
  BY <1>9, <1>13, <1>14 DEF Vouched, told

\* The first batch is on disk, and the destination is looked at again.
LEMMA FirstSynced ==
  ASSUME NEW r, NEW q, NEW f \in FileStates, NEW a, NEW s, Vouched(r, q, f, a, s),
         f.synced <= Len(f.lines), a \in Tellings,
         NEW p, p.batch = q.batch, p.left = q.left, NEW g, g.owner = f.owner, g.lines = f.lines,
         \/ q.phase = "prepare" /\ q.left = <<>> /\ p.phase = "recheck" /\ g.synced = Len(f.lines)
         \/ q.phase = "recheck" /\ p.phase = "publish" /\ g = f
  PROVE  Vouched(r, p, g, a, s)
<1>1. a.lines \in Nat /\ f.synced \in Nat /\ Len(f.lines) \in Nat
  BY DEF Tellings, FileStates
<1>2. a.lines <= g.synced
  BY <1>1 DEF Vouched
<1>3. UnderWay(q.batch, q.left, f.lines, a.lines)
  BY DEF Vouched
<1>4. UnderWay(p.batch, p.left, g.lines, a.lines)
  BY <1>3
<1> QED
  BY <1>2, <1>4 DEF Vouched

\* A batch that is all in the file is told and counted.
LEMMA BatchTold ==
  ASSUME NEW r, NEW q \in RecorderStates, NEW f \in FileStates, NEW a \in Tellings,
         NEW s \in SummaryStates, Vouched(r, q, f, a, s), q.phase \in {"publish", "append"}, q.left = <<>>,
         NEW p, p.phase = "wait", NEW g, g.owner = f.owner, g.lines = f.lines, g.synced = Len(f.lines)
  PROVE  Vouched(r, p, g, Announce(a, q.batch), Track(s, q.batch))
<1> DEFINE b == Announce(a, q.batch)
           t == Track(s, q.batch)
           told == SubSeq(f.lines, 1, a.lines)
<1>1. UnderWay(q.batch, q.left, f.lines, a.lines)
  BY DEF Vouched
<1>2. Len(q.left) = 0
  OBVIOUS
<1>3. /\ q.batch \in Listings /\ Len(q.batch) \in Nat /\ q.batch \in Seq(RecordLines)
      /\ DOMAIN q.batch = 1 .. Len(q.batch)
  BY RecorderFields
<1>4. Len(q.batch) - Len(q.left) = Len(q.batch)
  BY <1>2, <1>3
<1>5. /\ \A k \in DOMAIN f.lines : f.lines[k] # Torn
      /\ a.lines + Len(q.batch) = Len(f.lines)
      /\ \A h \in Hpas : TraceOf(f.lines, h) =
             IF \E k \in 1 .. Len(q.batch) : q.batch[k].hpa = h
             THEN Append(TraceOf(told, h), Desired(q.batch, h)) ELSE TraceOf(told, h)
  BY <1>1, <1>4 DEF UnderWay
<1>6. b.lines = Len(f.lines)
  BY <1>5 DEF Announce
<1>7. f.lines \in Seq(FileLines) /\ a.lines \in Nat
  BY DEF FileStates, Tellings
<1>8. Len(f.lines) \in Nat /\ a.lines \in 0 .. Len(f.lines) /\ DOMAIN f.lines = 1 .. Len(f.lines)
  BY <1>3, <1>5, <1>7
<1>9. told \in Seq(FileLines) /\ SubSeq(f.lines, 1, Len(f.lines)) = f.lines
  BY <1>7, <1>8, PrefixOf
<1>10. \A h : h \in HpasOf(q.batch) <=> \E k \in 1 .. Len(q.batch) : q.batch[k].hpa = h
  BY <1>3 DEF HpasOf, ToSet
<1> HIDE DEF told
<1>11. ASSUME NEW h \in Hpas PROVE Counted(f.lines, h, b, t)
  <2>1. Counted(told, h, a, s)
    BY DEF Vouched, told
  <2>2. TraceOf(f.lines, h) = IF h \in HpasOf(q.batch)
                              THEN Append(TraceOf(told, h), Desired(q.batch, h)) ELSE TraceOf(told, h)
    BY <1>5, <1>10
  <2> QED
    BY <1>3, <1>9, <2>1, <2>2, TrackCounts
<1>12. f.owner = r
  BY DEF Vouched
<1>13. b.lines <= g.synced /\ \A k \in 1 .. b.lines : g.lines[k] # Torn
  BY <1>5, <1>6, <1>8
<1>14. \A h \in Hpas : Counted(SubSeq(g.lines, 1, b.lines), h, b, t)
  BY <1>6, <1>9, <1>11
<1> HIDE DEF b, t
<1>15. Vouched(r, p, g, b, t)
  BY <1>6, <1>12, <1>13, <1>14 DEF Vouched
<1> QED
  BY <1>15 DEF b, t

\* The next batch is to be written.
LEMMA BatchBegins ==
  ASSUME NEW r, NEW q \in RecorderStates, NEW f \in FileStates, NEW a \in Tellings, NEW s,
         Vouched(r, q, f, a, s), q.phase = "wait", NEW batch \in Batches,
         NEW p, p.phase = "append", p.batch = batch, p.left = batch
  PROVE  Vouched(r, p, f, a, s)
<1>1. Len(f.lines) = a.lines /\ \A k \in 1 .. a.lines : f.lines[k] # Torn
  BY DEF Vouched
<1>2. f.lines \in Seq(FileLines) /\ a.lines \in Nat
  BY DEF FileStates, Tellings
<1>3. SubSeq(f.lines, 1, a.lines) = f.lines /\ DOMAIN f.lines = 1 .. a.lines
  <2>1. a.lines \in 0 .. Len(f.lines) /\ DOMAIN f.lines = 1 .. Len(f.lines)
    BY <1>1, <1>2
  <2> QED
    BY <1>1, <1>2, <2>1, PrefixOf
<1>4. Len(batch) \in Nat
  BY RecorderAssumption
<1>5. UnderWay(p.batch, p.left, f.lines, a.lines)
  <2>1. Len(p.batch) - Len(p.left) = 0
    BY <1>4
  <2>2. \A k \in 1 .. Len(p.left) : p.left[k] = p.batch[0 + k]
    BY <1>4
  <2>3. \A h \in Hpas : ~ \E k \in 1 .. 0 : p.batch[k].hpa = h
    OBVIOUS
  <2>4. a.lines + 0 = Len(f.lines) /\ 0 \in Nat
    BY <1>1, <1>2
  <2> QED
    BY <1>1, <1>3, <2>1, <2>2, <2>3, <2>4 DEF UnderWay
<1> QED
  BY <1>5 DEF Vouched

-----------------------------------------------------------------------------
\* The invariant of the recorders and its proof.

Sound(r) ==
  IF rec[r].file = 0
  THEN Idle(rec[r], announced[r], summary[r])
  ELSE /\ rec[r].file \in 2 .. Len(files)
       /\ Vouched(r, rec[r], files[rec[r].file], announced[r], summary[r])

(***************************************************************************)
(* Nobody syncs more than there is, the destination names no file whose    *)
(* first batch is not on disk, and every recorder is true to its file.     *)
(***************************************************************************)
RecordInv ==
  /\ files \in Seq(FileStates) /\ 1 <= Len(files)
  /\ rec \in [Recorders -> RecorderStates]
  /\ announced \in [Recorders -> Tellings]
  /\ summary \in [Recorders -> SummaryStates]
  /\ \A n \in 1 .. Len(files) : files[n].synced <= Len(files[n].lines)
  /\ entry \in 0 .. Len(files) /\ (entry > 1 => files[entry].synced > 0)
  /\ \A r \in Recorders : Sound(r)

FileFacts ==
  /\ files \in Seq(FileStates) /\ 1 <= Len(files)
  /\ \A n \in 1 .. Len(files) : files[n].synced <= Len(files[n].lines)

EntryFacts == entry \in 0 .. Len(files) /\ (entry > 1 => files[entry].synced > 0)

LEMMA RecordStarts == RecInit => RecordInv
<1> SUFFICES ASSUME RecInit PROVE RecordInv
  OBVIOUS
<1> USE DEF RecInit
<1> DEFINE first == [owner |-> "someone", lines |-> <<>>, synced |-> 0]
           new == [phase |-> "start", file |-> 0, saw |-> 0, size |-> 0, batch |-> <<>>, left |-> <<>>, ticks |-> 0]
<1>1. first \in FileStates
  BY DEF FileStates
<1>2. files = <<first>> /\ files \in Seq(FileStates) /\ Len(files) = 1 /\ files[1] = first
  BY <1>1
<1>3. new \in RecorderStates
  <2>1. <<>> \in Listings /\ <<>> \in Seq(RecordLines)
    BY DEF Listings
  <2> QED
    BY <2>1 DEF RecorderStates, RecorderPhases
<1>4. EmptySummary \in SummaryStates /\ Untold \in Tellings
  BY DEF EmptySummary, SummaryStates, Untold, Tellings
<1>5. \A r \in Recorders : rec[r] = new /\ announced[r] = Untold /\ summary[r] = EmptySummary
  BY DEF Untold
<1>6. \A r \in Recorders : Sound(r)
  BY <1>5 DEF Sound, Idle
<1>7. \A n \in 1 .. Len(files) : files[n].synced <= Len(files[n].lines)
  <2>1. first.synced = 0 /\ Len(first.lines) = 0
    OBVIOUS
  <2> QED
    BY <1>2, <2>1
<1>8. entry \in 0 .. Len(files) /\ ~(entry > 1)
  BY <1>2
<1>9. /\ rec \in [Recorders -> RecorderStates]
      /\ announced \in [Recorders -> Tellings] /\ summary \in [Recorders -> SummaryStates]
  BY <1>3, <1>4, <1>5
<1> QED
  BY <1>2, <1>6, <1>7, <1>8, <1>9 DEF RecordInv

\* What a recorder that has a file knows of it.
LEMMA HasFile ==
  ASSUME RecordInv, NEW r \in Recorders
  PROVE  /\ rec[r] \in RecorderStates /\ announced[r] \in Tellings /\ summary[r] \in SummaryStates
         /\ FileFacts /\ EntryFacts
         /\ rec[r].file = 0 => Idle(rec[r], announced[r], summary[r])
         /\ rec[r].file # 0 \/ rec[r].phase \notin {"start", "inspect", "failed", "lost"} =>
              /\ rec[r].file # 0
              /\ rec[r].file \in 1 .. Len(files) /\ rec[r].file \in 2 .. Len(files)
              /\ files[rec[r].file] \in FileStates
              /\ files[rec[r].file].synced <= Len(files[rec[r].file].lines)
              /\ Vouched(r, rec[r], files[rec[r].file], announced[r], summary[r])
<1>1. Sound(r) /\ FileFacts /\ EntryFacts
  BY DEF RecordInv, FileFacts, EntryFacts
<1>2. rec[r] \in RecorderStates /\ announced[r] \in Tellings /\ summary[r] \in SummaryStates
  BY DEF RecordInv
<1>3. rec[r].phase \notin {"start", "inspect", "failed", "lost"} => rec[r].file # 0
  BY <1>1 DEF Sound, Idle
<1>4. ASSUME rec[r].file # 0
      PROVE  /\ rec[r].file \in 1 .. Len(files) /\ rec[r].file \in 2 .. Len(files)
             /\ files[rec[r].file] \in FileStates
             /\ files[rec[r].file].synced <= Len(files[rec[r].file].lines)
             /\ Vouched(r, rec[r], files[rec[r].file], announced[r], summary[r])
  <2>1. rec[r].file \in 2 .. Len(files) /\ Vouched(r, rec[r], files[rec[r].file], announced[r], summary[r])
    BY <1>1, <1>4 DEF Sound
  <2>2. rec[r].file \in 1 .. Len(files)
    BY <2>1
  <2>3. files[rec[r].file] \in FileStates
    BY <1>1, <2>2 DEF FileFacts
  <2> QED
    BY <1>1, <2>1, <2>2, <2>3 DEF FileFacts
<1> QED
  BY <1>1, <1>2, <1>3, <1>4 DEF Sound

\* A recorder moves; the files of the others stay.
LEMMA OneMoves ==
  ASSUME RecordInv, NEW r \in Recorders, FileFacts', EntryFacts', Len(files) <= Len(files'),
         \A n \in 1 .. Len(files) : n # rec[r].file => files'[n] = files[n],
         NEW q \in RecorderStates, rec' = [rec EXCEPT ![r] = q],
         NEW a \in Tellings, announced' = [announced EXCEPT ![r] = a],
         NEW s \in SummaryStates, summary' = [summary EXCEPT ![r] = s],
         IF q.file = 0 THEN Idle(q, a, s)
         ELSE q.file \in 2 .. Len(files') /\ Vouched(r, q, files'[q.file], a, s)
  PROVE  RecordInv'
<1>1. /\ rec \in [Recorders -> RecorderStates] /\ announced \in [Recorders -> Tellings]
      /\ summary \in [Recorders -> SummaryStates] /\ files \in Seq(FileStates)
  BY DEF RecordInv
<1>2. /\ rec' \in [Recorders -> RecorderStates] /\ announced' \in [Recorders -> Tellings]
      /\ summary' \in [Recorders -> SummaryStates]
      /\ rec'[r] = q /\ announced'[r] = a /\ summary'[r] = s
      /\ \A o \in Recorders : o # r =>
           rec'[o] = rec[o] /\ announced'[o] = announced[o] /\ summary'[o] = summary[o]
  BY <1>1
<1>3. Sound(r)'
  BY <1>2 DEF Sound
<1>4. ASSUME NEW o \in Recorders, o # r PROVE Sound(o)'
  <2>1. CASE rec[o].file = 0
    <3>1. Idle(rec[o], announced[o], summary[o])
      BY <2>1, HasFile
    <3> QED
      BY <1>2, <1>4, <2>1, <3>1 DEF Sound
  <2>2. CASE rec[o].file # 0
    <3>1. rec[o].file \in 2 .. Len(files) /\ rec[o].file \in 1 .. Len(files)
          /\ Vouched(o, rec[o], files[rec[o].file], announced[o], summary[o])
      BY <2>2, HasFile
    <3>2. rec[o].file # rec[r].file
      <4>1. rec[r].file = rec[o].file => Vouched(r, rec[r], files[rec[r].file], announced[r], summary[r])
        BY <2>2, HasFile
      <4> QED
        BY <1>4, <3>1, <4>1 DEF Vouched
    <3>3. files'[rec[o].file] = files[rec[o].file]
      BY <3>1, <3>2
    <3>4. rec[o].file \in 2 .. Len(files')
      <4>1. Len(files) \in Nat /\ Len(files') \in Nat
        BY <1>1 DEF FileFacts
      <4> QED
        BY <3>1, <4>1
    <3> QED
      BY <1>2, <1>4, <2>2, <3>1, <3>3, <3>4 DEF Sound
  <2> QED
    BY <2>1, <2>2
<1>5. \A o \in Recorders : Sound(o)'
  BY <1>3, <1>4
<1> QED
  BY <1>2, <1>5 DEF RecordInv, FileFacts, EntryFacts

\* A file that loses nothing that was on disk.
LEMMA FileWritten ==
  ASSUME FileFacts, EntryFacts, NEW f \in 1 .. Len(files), NEW g \in FileStates,
         g.synced <= Len(g.lines), files[f].synced <= g.synced,
         files' = [files EXCEPT ![f] = g], entry' = entry
  PROVE  /\ FileFacts' /\ EntryFacts' /\ Len(files) <= Len(files') /\ Len(files') = Len(files)
         /\ files'[f] = g
         /\ \A n \in 1 .. Len(files) : n # f => files'[n] = files[n]
<1>1. files \in Seq(FileStates) /\ Len(files) \in Nat
  BY DEF FileFacts
<1>2. /\ files' \in Seq(FileStates) /\ Len(files') = Len(files) /\ files'[f] = g
      /\ \A n \in 1 .. Len(files) : n # f => files'[n] = files[n]
  BY <1>1
<1>3. FileFacts'
  BY <1>2 DEF FileFacts
<1>4. EntryFacts'
  <2>1. entry \in 0 .. Len(files) /\ (entry > 1 => files[entry].synced > 0)
    BY DEF EntryFacts
  <2>2. files[f].synced \in Nat /\ g.synced \in Nat
    <3>1. files[f] \in FileStates
      BY <1>1
    <3> QED
      BY <3>1 DEF FileStates
  <2>3. CASE entry = f
    BY <1>2, <2>1, <2>2, <2>3 DEF EntryFacts
  <2>4. CASE entry # f
    <3>1. entry > 1 => entry \in 1 .. Len(files)
      BY <2>1, <1>1
    <3> QED
      BY <1>2, <2>1, <2>4, <3>1 DEF EntryFacts
  <2> QED
    BY <2>3, <2>4
<1> QED
  BY <1>1, <1>2, <1>3, <1>4

\* The steps that leave the files alone.
LEMMA QuietSteps ==
  ASSUME RecordInv, NEW r \in Recorders, NEW batch,
         \/ batch \in Batches /\ (CollectFirst(r, batch) \/ Tick(r, batch))
         \/ CollectFails(r)
         \/ Recheck(r)
  PROVE  RecordInv'
<1> DEFINE q == rec[r]
           f == files[q.file]
           a == announced[r]
           s == summary[r]
<1>1. /\ q \in RecorderStates /\ a \in Tellings /\ s \in SummaryStates /\ FileFacts /\ EntryFacts
      /\ q.file = 0 => Idle(q, a, s)
      /\ q.file # 0 => /\ q.file \in 2 .. Len(files) /\ f \in FileStates
                       /\ f.synced <= Len(f.lines) /\ Vouched(r, q, f, a, s)
      /\ q.phase \notin {"start", "inspect", "failed", "lost"} => q.file # 0
  BY HasFile
<1>2. UNCHANGED <<files, entry, announced, summary>>
  BY DEF CollectFirst, CollectFails, Recheck, Tick
<1>3. /\ FileFacts' /\ EntryFacts' /\ Len(files) <= Len(files') /\ files' = files
      /\ announced' = [announced EXCEPT ![r] = a] /\ summary' = [summary EXCEPT ![r] = s]
      /\ rec \in [Recorders -> RecorderStates]
  <2>1. Len(files) \in Nat
    BY <1>1 DEF FileFacts
  <2> QED
    BY <1>1, <1>2, <2>1 DEF FileFacts, EntryFacts, RecordInv
<1>4. SUFFICES ASSUME NEW p \in RecorderStates, rec' = [rec EXCEPT ![r] = p],
                      p.file = q.file,
                      IF q.file = 0 THEN Idle(p, a, s) ELSE Vouched(r, p, f, a, s)
               PROVE  RecordInv'
  <2>1. PICK p \in RecorderStates : /\ rec' = [rec EXCEPT ![r] = p] /\ p.file = q.file
                                    /\ IF q.file = 0 THEN Idle(p, a, s) ELSE Vouched(r, p, f, a, s)
    <3>1. q.phase \in {"start", "inspect"} => q.file = 0
      BY <1>1 DEF Vouched
    <3>2. ASSUME q.phase \in {"start", "wait", "recheck"}, rec' = [rec EXCEPT ![r].phase = "failed"]
          PROVE  \E p \in RecorderStates : /\ rec' = [rec EXCEPT ![r] = p] /\ p.file = q.file
                                           /\ IF q.file = 0 THEN Idle(p, a, s) ELSE Vouched(r, p, f, a, s)
      <4> DEFINE p == [q EXCEPT !.phase = "failed"]
      <4>1. p \in RecorderStates /\ p.phase = "failed" /\ p.file = q.file
        BY <1>1 DEF RecorderStates, RecorderPhases
      <4>2. rec' = [rec EXCEPT ![r] = p]
        BY <3>2, Zenon
      <4> HIDE DEF p, f, a, s, q
      <4>3. CASE q.file = 0
        <5>1. Idle(p, a, s)
          BY <1>1, <4>1, <4>3 DEF Idle
        <5> QED
          BY <4>1, <4>2, <4>3, <5>1
      <4>4. CASE q.file # 0
        <5>1. Vouched(r, q, f, a, s)
          BY <1>1, <4>4
        <5>2. Vouched(r, p, f, a, s)
          BY <4>1, <5>1, EndedThere
        <5> QED
          BY <4>1, <4>2, <4>4, <5>2
      <4> QED
        BY <4>3, <4>4
    <3>3. CASE batch \in Batches /\ CollectFirst(r, batch)
      <4>1. CASE batch = <<>>
        BY <3>2, <3>3, <4>1 DEF CollectFirst
      <4>2. CASE batch # <<>>
        <5> DEFINE p == [q EXCEPT !.phase = "inspect", !.batch = batch]
        <5>1. /\ p \in RecorderStates /\ p.file = q.file /\ p.phase = "inspect" /\ p.batch = batch
          BY <1>1, <3>3 DEF RecorderStates, RecorderPhases, Listings
        <5>2. rec' = [rec EXCEPT ![r] = p] /\ q.file = 0
          BY <3>1, <3>3, <4>2 DEF CollectFirst
        <5>3. Idle(p, a, s)
          BY <1>1, <4>2, <5>1, <5>2 DEF Idle
        <5> QED
          BY <5>1, <5>2, <5>3
      <4> QED
        BY <4>1, <4>2
    <3>4. CASE CollectFails(r)
      BY <3>2, <3>4 DEF CollectFails, Goes
    <3>5. CASE Recheck(r)
      <4>1. CASE ~(entry = q.saw /\ EntrySize = q.size)
        BY <3>2, <3>5, <4>1 DEF Recheck, Goes
      <4>2. CASE entry = q.saw /\ EntrySize = q.size
        <5> DEFINE p == [q EXCEPT !.phase = "publish"]
        <5>1. /\ p \in RecorderStates /\ p.file = q.file /\ p.phase = "publish"
              /\ p.batch = q.batch /\ p.left = q.left
          BY <1>1 DEF RecorderStates, RecorderPhases
        <5>2. rec' = [rec EXCEPT ![r] = p] /\ q.phase = "recheck"
          BY <3>5, <4>2 DEF Recheck, Goes
        <5>3. q.file # 0
          BY <1>1, <5>2
        <5> HIDE DEF p, q, f, a, s
        <5>4. Vouched(r, p, f, a, s)
          BY <1>1, <5>1, <5>2, <5>3, FirstSynced
        <5> QED
          BY <5>1, <5>2, <5>3, <5>4
      <4> QED
        BY <4>1, <4>2
    <3>6. CASE batch \in Batches /\ Tick(r, batch)
      <4>1. CASE entry # q.file
        BY <3>2, <3>6, <4>1 DEF Tick
      <4>2. CASE entry = q.file
        <5> DEFINE p == [q EXCEPT !.phase = "append", !.batch = batch, !.left = batch, !.ticks = q.ticks + 1]
        <5>1. batch \in Listings /\ batch \in Seq(RecordLines)
          BY <3>6, RecorderAssumption DEF Listings
        <5>2. q.ticks + 1 \in Nat
          BY <1>1, RecorderFields
        <5>3. /\ p \in RecorderStates /\ p.file = q.file /\ p.phase = "append"
              /\ p.batch = batch /\ p.left = batch
          BY <1>1, <5>1, <5>2 DEF RecorderStates, RecorderPhases
        <5>4. rec' = [rec EXCEPT ![r] = p] /\ q.phase = "wait"
          BY <3>6, <4>2 DEF Tick
        <5>5. q.file # 0
          BY <1>1, <5>4
        <5> HIDE DEF p, q, f, a, s
        <5>6. Vouched(r, p, f, a, s)
          BY <1>1, <3>6, <5>3, <5>4, <5>5, BatchBegins
        <5> QED
          BY <5>3, <5>4, <5>5, <5>6
      <4> QED
        BY <4>1, <4>2
    <3> QED
      BY <3>3, <3>4, <3>5, <3>6
  <2> QED
    BY <1>4, <2>1
<1>5. IF p.file = 0 THEN Idle(p, a, s) ELSE p.file \in 2 .. Len(files') /\ Vouched(r, p, files'[p.file], a, s)
  BY <1>1, <1>3, <1>4
<1> HIDE DEF a, s, f, q
<1> QED
  BY <1>1, <1>3, <1>4, <1>5, OneMoves

\* A recorder writes to its own file, and the directory stays.
LEMMA OwnFileMoves ==
  ASSUME RecordInv, NEW r \in Recorders, rec[r].file # 0,
         NEW g \in FileStates, g.synced <= Len(g.lines), files[rec[r].file].synced <= g.synced,
         files' = [files EXCEPT ![rec[r].file] = g], entry' = entry,
         NEW p \in RecorderStates, rec' = [rec EXCEPT ![r] = p], p.file = rec[r].file,
         NEW a \in Tellings, announced' = [announced EXCEPT ![r] = a],
         NEW s \in SummaryStates, summary' = [summary EXCEPT ![r] = s],
         Vouched(r, p, g, a, s)
  PROVE  RecordInv'
<1> DEFINE f == rec[r].file
<1>1. f \in 1 .. Len(files) /\ f \in 2 .. Len(files) /\ FileFacts /\ EntryFacts
  BY HasFile
<1>2. /\ FileFacts' /\ EntryFacts' /\ Len(files) <= Len(files') /\ Len(files') = Len(files)
      /\ files'[f] = g /\ \A n \in 1 .. Len(files) : n # f => files'[n] = files[n]
  BY <1>1, FileWritten
<1>3. IF p.file = 0 THEN Idle(p, a, s) ELSE p.file \in 2 .. Len(files') /\ Vouched(r, p, files'[p.file], a, s)
  BY <1>1, <1>2
<1> QED
  BY <1>2, <1>3, OneMoves

\* What a table of values becomes when nothing is put into it.
LEMMA SameTable ==
  ASSUME NEW S, NEW T, NEW f \in [S -> T], NEW x \in S
  PROVE  f = [f EXCEPT ![x] = f[x]]
OBVIOUS

LEMMA InspectKeeps ==
  ASSUME RecordInv, NEW r \in Recorders, Inspect(r)
  PROVE  RecordInv'
<1> DEFINE q == rec[r]
           a == announced[r]
           s == summary[r]
           g == [owner |-> r, lines |-> <<>>, synced |-> 0]
           size == EntrySize
           p == [q EXCEPT !.phase = "prepare", !.saw = entry, !.size = size,
                          !.file = Len(files) + 1, !.left = q.batch]
<1>1. /\ q \in RecorderStates /\ a \in Tellings /\ s \in SummaryStates /\ FileFacts /\ EntryFacts
      /\ q.file = 0 => Idle(q, a, s)
      /\ q.file # 0 => Vouched(r, q, files[q.file], a, s)
  BY HasFile
<1>2. /\ q.phase = "inspect" /\ files' = Append(files, g) /\ rec' = [rec EXCEPT ![r] = p]
      /\ UNCHANGED <<entry, announced, summary>>
  BY DEF Inspect
<1>3. q.file = 0
  BY <1>1, <1>2 DEF Vouched
<1>4. g \in FileStates /\ g.synced = 0 /\ Len(g.lines) = 0
  BY DEF FileStates
<1>5. files \in Seq(FileStates) /\ Len(files) \in Nat /\ entry \in Nat
  <2>1. files \in Seq(FileStates) /\ entry \in 0 .. Len(files)
    BY <1>1 DEF FileFacts, EntryFacts
  <2> QED
    BY <2>1
<1>51. size \in Nat
  <2>1. CASE entry = 0
    BY <2>1 DEF EntrySize
  <2>2. CASE entry # 0
    <3>1. entry \in 1 .. Len(files)
      BY <1>1, <1>5, <2>2 DEF EntryFacts
    <3>2. files[entry] \in FileStates
      BY <1>5, <3>1
    <3>3. files[entry].lines \in Seq(FileLines)
      BY <3>2 DEF FileStates
    <3> QED
      BY <2>2, <3>3 DEF EntrySize
  <2> QED
    BY <2>1, <2>2
<1> HIDE DEF g, size
<1>6. /\ files' \in Seq(FileStates) /\ Len(files') = Len(files) + 1 /\ files'[Len(files) + 1] = g
      /\ \A n \in 1 .. Len(files) : files'[n] = files[n]
  BY <1>2, <1>4, <1>5
<1>7. FileFacts' /\ EntryFacts' /\ Len(files) <= Len(files')
  <2>1. ASSUME NEW n \in 1 .. Len(files') PROVE files'[n].synced <= Len(files'[n].lines)
    <3>1. CASE n = Len(files) + 1
      BY <1>4, <1>6, <3>1
    <3>2. CASE n # Len(files) + 1
      <4>1. n \in 1 .. Len(files)
        BY <1>5, <1>6, <3>2
      <4> QED
        BY <1>1, <1>6, <4>1 DEF FileFacts
    <3> QED
      BY <3>1, <3>2
  <2>2. entry \in 0 .. Len(files) /\ (entry > 1 => files[entry].synced > 0)
    BY <1>1 DEF EntryFacts
  <2>3. entry \in 0 .. Len(files') /\ (entry > 1 => files'[entry].synced > 0)
    <3>1. entry > 1 => entry \in 1 .. Len(files)
      BY <2>2, <1>5
    <3> QED
      BY <1>5, <1>6, <2>2, <3>1
  <2> QED
    BY <1>2, <1>5, <1>6, <2>1, <2>3 DEF FileFacts, EntryFacts
<1>8. q.batch \in Seq(RecordLines)
  BY <1>1, RecorderFields
<1>9. /\ p \in RecorderStates /\ p.phase = "prepare" /\ p.batch = q.batch /\ p.left = q.batch
      /\ p.file = Len(files) + 1
  <2>1. Len(files) + 1 \in Nat
    BY <1>5
  <2> DEFINE n == Len(files) + 1
             e == [q EXCEPT !.phase = "prepare", !.saw = entry, !.size = size, !.file = n, !.left = q.batch]
  <2> HIDE DEF n
  <2>2. /\ e \in RecorderStates /\ e.phase = "prepare"
        /\ e.batch = q.batch /\ e.left = q.batch /\ e.file = n
    <3>1. n \in Nat
      BY <2>1 DEF n
    <3> QED
      BY <1>1, <1>5, <1>51, <1>8, <3>1 DEF RecorderStates, RecorderPhases
  <2> QED
    BY <2>2 DEF n
<1>10. Idle(q, a, s)
  BY <1>1, <1>3
<1> HIDE DEF p, q, a, s
<1>11. Vouched(r, p, g, a, s)
  BY <1>1, <1>2, <1>9, <1>10, Opened DEF g
<1>12. p.file # 0 /\ p.file \in 2 .. Len(files')
  <2>1. 1 <= Len(files)
    BY <1>1 DEF FileFacts
  <2> QED
    BY <1>5, <1>6, <1>9, <2>1
<1>13. announced' = [announced EXCEPT ![r] = a] /\ summary' = [summary EXCEPT ![r] = s]
  BY <1>2, SameTable DEF RecordInv, a, s
<1>14. IF p.file = 0 THEN Idle(p, a, s) ELSE p.file \in 2 .. Len(files') /\ Vouched(r, p, files'[p.file], a, s)
  BY <1>6, <1>9, <1>11, <1>12
<1>15. \A n \in 1 .. Len(files) : n # rec[r].file => files'[n] = files[n]
  BY <1>6
<1> QED
  BY <1>1, <1>2, <1>7, <1>9, <1>13, <1>14, <1>15, OneMoves

\* The steps that write to the recorder's file or close it.
LEMMA WriteSteps ==
  ASSUME RecordInv, NEW r \in Recorders,
         WriteLine(r) \/ DiskFull(r) \/ SyncFirst(r) \/ SyncBatch(r) \/ Stop(r)
  PROVE  RecordInv'
<1> DEFINE q == rec[r]
           f == files[q.file]
           a == announced[r]
           s == summary[r]
<1>1. q.phase \in {"prepare", "append", "wait"}
  BY DEF WriteLine, DiskFull, SyncFirst, SyncBatch, Stop
<1>2. q.file # 0
  BY <1>1, HasFile
<1>3. /\ q \in RecorderStates /\ a \in Tellings /\ s \in SummaryStates
      /\ f \in FileStates /\ f.synced <= Len(f.lines) /\ Vouched(r, q, f, a, s)
      /\ q.file \in 1 .. Len(files)
  BY <1>2, HasFile
<1>4. /\ f.lines \in Seq(FileLines) /\ f.synced \in Nat /\ Len(f.lines) \in Nat /\ a.lines \in Nat
      /\ q.left \in Seq(RecordLines) /\ q.batch \in Listings
  <2>1. f.lines \in Seq(FileLines) /\ f.synced \in Nat /\ a.lines \in Nat
    BY <1>3 DEF FileStates, Tellings
  <2> QED
    BY <1>3, <2>1, RecorderFields
<1>5. /\ announced = [announced EXCEPT ![r] = a] /\ summary = [summary EXCEPT ![r] = s]
      /\ files \in Seq(FileStates) /\ rec \in [Recorders -> RecorderStates]
  BY SameTable DEF RecordInv
<1>6. /\ a.lines <= f.synced /\ f.owner = r /\ a.lines \in 0 .. Len(f.lines) /\ a.lines <= Len(f.lines)
  <2>1. a.lines <= f.synced /\ f.owner = r
    BY <1>3 DEF Vouched
  <2> QED
    BY <1>3, <1>4, <2>1
<1>7. entry' = entry
  BY DEF WriteLine, DiskFull, SyncFirst, SyncBatch, Stop
<1> DEFINE synced == [f EXCEPT !.synced = Len(f.lines)]
<1>8. /\ synced \in FileStates /\ synced.owner = f.owner /\ synced.lines = f.lines
      /\ synced.synced = Len(f.lines) /\ synced.synced <= Len(synced.lines) /\ f.synced <= synced.synced
      /\ [files EXCEPT ![q.file] = Synced(@)] = [files EXCEPT ![q.file] = synced]
  <2>1. synced \in FileStates /\ synced.owner = f.owner /\ synced.lines = f.lines /\ synced.synced = Len(f.lines)
    BY <1>3, <1>4 DEF FileStates
  <2>2. [files EXCEPT ![q.file] = Synced(@)] = [files EXCEPT ![q.file] = synced]
    BY DEF Synced
  <2> HIDE DEF synced, f, a, q
  <2> QED
    BY <1>3, <1>4, <2>1, <2>2
<1>9. ASSUME NEW line \in FileLines
      PROVE  LET g == [f EXCEPT !.lines = Append(@, line)]
             IN  /\ g \in FileStates /\ g.owner = f.owner /\ g.synced = f.synced
                 /\ g.lines = Append(f.lines, line) /\ g.synced <= Len(g.lines)
                 /\ [files EXCEPT ![q.file].lines = Append(@, line)] = [files EXCEPT ![q.file] = g]
                 /\ SameTo(a.lines, g.lines, f.lines)
  <2> DEFINE g == [f EXCEPT !.lines = Append(@, line)]
  <2>1. /\ Append(f.lines, line) \in Seq(FileLines) /\ Len(Append(f.lines, line)) = Len(f.lines) + 1
        /\ \A k \in 1 .. Len(f.lines) : Append(f.lines, line)[k] = f.lines[k]
    BY <1>4
  <2>2. /\ g \in FileStates /\ g.owner = f.owner /\ g.synced = f.synced /\ g.lines = Append(f.lines, line)
    BY <1>3, <2>1 DEF FileStates
  <2>3. [files EXCEPT ![q.file].lines = Append(@, line)] = [files EXCEPT ![q.file] = g]
    BY Zenon
  <2> HIDE DEF g, f, a, q
  <2>4. SubSeq(g.lines, 1, a.lines) = SubSeq(f.lines, 1, a.lines)
    BY <1>4, <1>6, <2>2, PrefixOf
  <2>5. \A k \in 1 .. a.lines : k \in 1 .. Len(f.lines)
    BY <1>4, <1>6
  <2>6. g.synced <= Len(g.lines)
    BY <1>3, <1>4, <2>1, <2>2
  <2> QED
    BY <2>1, <2>2, <2>3, <2>4, <2>5, <2>6 DEF g, SameTo
<1>10. CASE WriteLine(r)
  <2> DEFINE line == Head(q.left)
             g == [f EXCEPT !.lines = Append(@, line)]
             p == [q EXCEPT !.left = Tail(@)]
  <2>1. /\ q.phase \in {"prepare", "append"} /\ q.left # <<>>
        /\ files' = [files EXCEPT ![q.file].lines = Append(@, line)] /\ rec' = [rec EXCEPT ![r].left = Tail(@)]
        /\ announced' = announced /\ summary' = summary
    BY <1>10 DEF WriteLine
  <2>2. line \in FileLines /\ Tail(q.left) \in Seq(RecordLines)
    <3>1. line \in RecordLines /\ Tail(q.left) \in Seq(RecordLines)
      BY <1>4, <2>1
    <3> QED
      BY <3>1 DEF FileLines
  <2>3. p \in RecorderStates /\ p.phase = q.phase /\ p.batch = q.batch /\ p.left = Tail(q.left) /\ p.file = q.file
    BY <1>3, <2>2 DEF RecorderStates
  <2>4. rec' = [rec EXCEPT ![r] = p]
    BY <2>1, Zenon
  <2>5. /\ g \in FileStates /\ g.owner = f.owner /\ g.synced = f.synced
        /\ g.lines = Append(f.lines, line) /\ g.synced <= Len(g.lines)
        /\ files' = [files EXCEPT ![q.file] = g]
    BY <1>9, <2>1, <2>2
  <2> HIDE DEF p, g
  <2>6. Vouched(r, p, g, a, s)
    <3>1. g.lines = Append(f.lines, Head(q.left))
      BY <2>5
    <3>2. /\ p.phase = q.phase /\ p.batch = q.batch /\ p.left = Tail(q.left)
          /\ q.phase \in {"prepare", "append"} /\ q.left # <<>>
          /\ g.owner = f.owner /\ g.synced = f.synced
      BY <2>1, <2>3, <2>5
    <3> HIDE DEF f, q, a, s, line
    <3> QED
      BY <1>3, <3>1, <3>2, LineWritten
  <2>7. f.synced <= g.synced
    BY <1>4, <2>5
  <2> HIDE DEF a, s
  <2> QED
    BY <1>2, <1>3, <1>5, <1>7, <2>1, <2>3, <2>4, <2>5, <2>6, <2>7, OwnFileMoves
<1>11. CASE DiskFull(r)
  <2> DEFINE g == [f EXCEPT !.lines = Append(@, Torn)]
             p == [q EXCEPT !.phase = "failed"]
  <2>1. /\ files' = [files EXCEPT ![q.file].lines = Append(@, Torn)] /\ rec' = [rec EXCEPT ![r].phase = "failed"]
        /\ announced' = announced /\ summary' = summary
    BY <1>11 DEF DiskFull, Goes
  <2>2. p \in RecorderStates /\ p.phase = "failed" /\ p.file = q.file
    BY <1>3 DEF RecorderStates, RecorderPhases
  <2>3. rec' = [rec EXCEPT ![r] = p]
    BY <2>1, Zenon
  <2>4. /\ g \in FileStates /\ g.owner = f.owner /\ g.synced = f.synced /\ g.synced <= Len(g.lines)
        /\ files' = [files EXCEPT ![q.file] = g]
        /\ SameTo(a.lines, g.lines, f.lines)
    <3>1. Torn \in FileLines
      BY DEF FileLines
    <3> QED
      BY <1>9, <2>1, <3>1
  <2> HIDE DEF p, g
  <2>5. f.synced <= g.synced /\ a.lines <= g.synced
    BY <1>4, <1>6, <2>4
  <2>6. Vouched(r, p, g, a, s)
    BY <1>3, <2>2, <2>4, <2>5, Ended
  <2> HIDE DEF a, s
  <2> QED
    BY <1>2, <1>3, <1>5, <1>7, <2>1, <2>2, <2>3, <2>4, <2>5, <2>6, OwnFileMoves
<1>12. CASE SyncFirst(r)
  <2> DEFINE p == [q EXCEPT !.phase = "recheck"]
  <2>1. /\ q.phase = "prepare" /\ q.left = <<>> /\ rec' = [rec EXCEPT ![r].phase = "recheck"]
        /\ files' = [files EXCEPT ![q.file] = Synced(@)]
        /\ announced' = announced /\ summary' = summary
    BY <1>12 DEF SyncFirst, Goes
  <2>2. /\ p \in RecorderStates /\ p.phase = "recheck" /\ p.file = q.file
        /\ p.batch = q.batch /\ p.left = q.left
    BY <1>3 DEF RecorderStates, RecorderPhases
  <2>3. rec' = [rec EXCEPT ![r] = p]
    BY <2>1, Zenon
  <2> HIDE DEF p, synced
  <2>4. Vouched(r, p, synced, a, s)
    BY <1>3, <1>8, <2>1, <2>2, FirstSynced
  <2> HIDE DEF a, s
  <2> QED
    BY <1>2, <1>3, <1>5, <1>7, <1>8, <2>1, <2>2, <2>3, <2>4, OwnFileMoves
<1>13. CASE SyncBatch(r)
  <2> DEFINE p == [q EXCEPT !.phase = "wait"]
             b == Announce(a, q.batch)
             t == Track(s, q.batch)
  <2>1. /\ q.phase = "append" /\ q.left = <<>> /\ rec' = [rec EXCEPT ![r].phase = "wait"]
        /\ files' = [files EXCEPT ![q.file] = Synced(@)]
        /\ announced' = [announced EXCEPT ![r] = Announce(@, q.batch)]
        /\ summary' = [summary EXCEPT ![r] = Track(@, q.batch)]
    BY <1>13 DEF SyncBatch, Goes
  <2>2. p \in RecorderStates /\ p.phase = "wait" /\ p.file = q.file
    BY <1>3 DEF RecorderStates, RecorderPhases
  <2>3. /\ rec' = [rec EXCEPT ![r] = p] /\ announced' = [announced EXCEPT ![r] = b]
        /\ summary' = [summary EXCEPT ![r] = t]
    BY <2>1, Zenon
  <2>4. b \in Tellings /\ t \in SummaryStates
    <3>1. Len(q.batch) \in Nat
      BY <1>3, RecorderFields
    <3>2. b \in Tellings
      BY <1>3, <3>1 DEF Announce, Tellings
    <3> QED
      BY <1>3, <1>4, <3>2, TrackTyped
  <2> HIDE DEF p, synced
  <2>5. Vouched(r, p, synced, b, t)
    <3> HIDE DEF f, q, a, s
    <3>1. Vouched(r, p, synced, Announce(a, q.batch), Track(s, q.batch))
      BY <1>3, <1>8, <2>1, <2>2, BatchTold
    <3> QED
      BY <3>1
  <2> HIDE DEF a, s, b, t
  <2> QED
    BY <1>2, <1>3, <1>7, <1>8, <2>1, <2>2, <2>3, <2>4, <2>5, OwnFileMoves
<1>14. CASE Stop(r)
  <2> DEFINE p == [q EXCEPT !.phase = "stopped"]
  <2>1. /\ rec' = [rec EXCEPT ![r].phase = "stopped"]
        /\ files' = [files EXCEPT ![q.file] = Synced(@)]
        /\ announced' = announced /\ summary' = summary
    BY <1>14 DEF Stop, Goes
  <2>2. p \in RecorderStates /\ p.phase = "stopped" /\ p.file = q.file
    BY <1>3 DEF RecorderStates, RecorderPhases
  <2>3. rec' = [rec EXCEPT ![r] = p]
    BY <2>1, Zenon
  <2> HIDE DEF p, synced
  <2>4. a.lines <= synced.synced
    BY <1>6, <1>8
  <2>5. Vouched(r, p, synced, a, s)
    <3> HIDE DEF f, q, a, s
    <3>1. SameTo(a.lines, synced.lines, f.lines) /\ synced.owner = f.owner
      BY <1>8 DEF SameTo
    <3> QED
      BY <1>3, <2>2, <2>4, <3>1, Ended
  <2> HIDE DEF a, s
  <2> QED
    BY <1>2, <1>3, <1>5, <1>7, <1>8, <2>1, <2>2, <2>3, <2>5, OwnFileMoves
<1> QED
  BY <1>10, <1>11, <1>12, <1>13, <1>14

\* The steps that make the destination name the recorder's file.
LEMMA PublishSteps ==
  ASSUME RecordInv, NEW r \in Recorders, Publish(r) \/ PublishFails(r)
  PROVE  RecordInv'
<1> DEFINE q == rec[r]
           f == files[q.file]
           a == announced[r]
           s == summary[r]
<1>1. q.phase = "publish" /\ entry' = q.file /\ files' = files
  BY DEF Publish, PublishFails
<1>2. q.file # 0
  BY <1>1, HasFile
<1>3. /\ q \in RecorderStates /\ a \in Tellings /\ s \in SummaryStates /\ FileFacts
      /\ f \in FileStates /\ f.synced <= Len(f.lines) /\ Vouched(r, q, f, a, s)
      /\ q.file \in 1 .. Len(files) /\ q.file \in 2 .. Len(files)
  BY <1>2, HasFile
<1>4. /\ announced = [announced EXCEPT ![r] = a] /\ summary = [summary EXCEPT ![r] = s]
      /\ files \in Seq(FileStates)
  BY SameTable DEF RecordInv
<1>5. f.synced = Len(f.lines) /\ q.left = <<>> /\ f.synced > 0
  <2>1. /\ f.synced = Len(f.lines) /\ q.left = <<>> /\ q.batch # <<>>
        /\ UnderWay(q.batch, q.left, f.lines, a.lines)
    BY <1>1, <1>3 DEF Vouched
  <2>2. /\ (Len(q.batch) - Len(q.left)) \in Nat
        /\ a.lines + (Len(q.batch) - Len(q.left)) = Len(f.lines)
    BY <2>1 DEF UnderWay
  <2>3. q.batch \in Seq(RecordLines) /\ a.lines \in Nat
    BY <1>3, RecorderFields DEF Tellings
  <2>4. Len(q.left) = 0 /\ Len(q.batch) \in Nat \ {0}
    BY <2>1, <2>3
  <2> HIDE DEF f, a, q
  <2>5. Len(f.lines) > 0
    BY <2>2, <2>3, <2>4
  <2> QED
    BY <2>1, <2>5
<1>6. FileFacts' /\ EntryFacts' /\ Len(files) <= Len(files')
  <2>1. Len(files) \in Nat
    BY <1>4
  <2>2. FileFacts'
    BY <1>1, <1>3 DEF FileFacts
  <2>3. entry' \in 0 .. Len(files') /\ files'[entry'].synced > 0
    BY <1>1, <1>3, <1>5, <2>1
  <2> QED
    BY <1>1, <2>1, <2>2, <2>3 DEF EntryFacts
<1>7. CASE Publish(r)
  <2> DEFINE p == [q EXCEPT !.phase = "wait", !.ticks = 1]
             b == Announce(a, q.batch)
             t == Track(s, q.batch)
  <2>1. /\ rec' = [rec EXCEPT ![r] = p] /\ announced' = [announced EXCEPT ![r] = b]
        /\ summary' = [summary EXCEPT ![r] = t]
    BY <1>7 DEF Publish
  <2>2. p \in RecorderStates /\ p.phase = "wait" /\ p.file = q.file
    BY <1>3 DEF RecorderStates, RecorderPhases
  <2>3. b \in Tellings /\ t \in SummaryStates
    <3>1. Len(q.batch) \in Nat /\ q.batch \in Listings
      BY <1>3, RecorderFields
    <3>2. b \in Tellings
      BY <1>3, <3>1 DEF Announce, Tellings
    <3> QED
      BY <1>3, <3>1, <3>2, TrackTyped
  <2> HIDE DEF p, f
  <2>4. Vouched(r, p, f, b, t)
    <3> HIDE DEF q, a, s
    <3>1. Vouched(r, p, f, Announce(a, q.batch), Track(s, q.batch))
      BY <1>1, <1>3, <1>5, <2>2, BatchTold
    <3> QED
      BY <3>1
  <2> HIDE DEF b, t
  <2>5. IF p.file = 0 THEN Idle(p, b, t) ELSE p.file \in 2 .. Len(files') /\ Vouched(r, p, files'[p.file], b, t)
    BY <1>1, <1>2, <1>3, <2>2, <2>4 DEF f
  <2> QED
    BY <1>1, <1>6, <2>1, <2>2, <2>3, <2>5, OneMoves
<1>8. CASE PublishFails(r)
  <2> DEFINE p == [q EXCEPT !.phase = "failed"]
  <2>1. rec' = [rec EXCEPT ![r].phase = "failed"] /\ announced' = announced /\ summary' = summary
    BY <1>8 DEF PublishFails, Goes
  <2>2. rec' = [rec EXCEPT ![r] = p]
    BY <2>1, Zenon
  <2>3. p \in RecorderStates /\ p.phase = "failed" /\ p.file = q.file
    BY <1>3 DEF RecorderStates, RecorderPhases
  <2> HIDE DEF p, f
  <2>4. Vouched(r, p, f, a, s)
    BY <1>3, <2>3, EndedThere
  <2>5. IF p.file = 0 THEN Idle(p, a, s) ELSE p.file \in 2 .. Len(files') /\ Vouched(r, p, files'[p.file], a, s)
    BY <1>1, <1>2, <1>3, <2>3, <2>4 DEF f
  <2> HIDE DEF a, s
  <2> QED
    BY <1>1, <1>3, <1>4, <1>6, <2>1, <2>2, <2>3, <2>5, OneMoves
<1> QED
  BY <1>7, <1>8

\* The machine stops.
LEMMA PowerLossKeeps ==
  ASSUME RecordInv, PowerLoss
  PROVE  RecordInv'
<1> DEFINE Cut(f) == [f EXCEPT !.lines = SubSeq(@, 1, f.synced)]
           Lost(q) == [q EXCEPT !.phase = "lost"]
<1>1. /\ files' = [n \in DOMAIN files |-> Cut(files[n])]
      /\ rec' = [r \in Recorders |-> Lost(rec[r])]
      /\ entry' = entry /\ announced' = announced /\ summary' = summary
  BY DEF PowerLoss
<1>2. /\ files \in Seq(FileStates) /\ 1 <= Len(files) /\ Len(files) \in Nat /\ DOMAIN files = 1 .. Len(files)
      /\ rec \in [Recorders -> RecorderStates]
      /\ \A n \in 1 .. Len(files) : files[n].synced <= Len(files[n].lines)
      /\ entry \in 0 .. Len(files) /\ (entry > 1 => files[entry].synced > 0)
  BY DEF RecordInv
<1>3. ASSUME NEW f \in FileStates, f.synced <= Len(f.lines)
      PROVE  /\ Cut(f) \in FileStates /\ Cut(f).owner = f.owner /\ Cut(f).synced = f.synced
             /\ Cut(f).synced <= Len(Cut(f).lines)
             /\ \A n \in 0 .. f.synced : SameTo(n, Cut(f).lines, f.lines)
  <2>1. f.lines \in Seq(FileLines) /\ f.synced \in Nat /\ Len(f.lines) \in Nat
    BY DEF FileStates
  <2> DEFINE cut == SubSeq(f.lines, 1, f.synced)
  <2>2. cut \in Seq(FileLines) /\ Len(cut) = f.synced /\ \A k \in 1 .. f.synced : cut[k] = f.lines[k]
    BY <1>3, <2>1, PrefixOf
  <2>3. \A n \in 0 .. f.synced : SubSeq(cut, 1, n) = SubSeq(f.lines, 1, n)
    <3> TAKE n \in 0 .. f.synced
    <3>1. n \in 0 .. Len(f.lines) /\ f.synced \in n .. Len(f.lines)
      BY <1>3, <2>1
    <3> QED
      BY <2>1, <3>1, PrefixOf
  <2> HIDE DEF cut
  <2>4. Cut(f) \in FileStates /\ Cut(f).owner = f.owner /\ Cut(f).synced = f.synced /\ Cut(f).lines = cut
    BY <2>2 DEF FileStates, cut
  <2>5. \A n \in 0 .. f.synced : SameTo(n, cut, f.lines)
    BY <2>1, <2>2, <2>3 DEF SameTo
  <2> HIDE DEF Cut
  <2> QED
    BY <2>1, <2>2, <2>4, <2>5
<1>4. ASSUME NEW q \in RecorderStates
      PROVE  Lost(q) \in RecorderStates /\ Lost(q).phase = "lost" /\ Lost(q).file = q.file
  BY DEF RecorderStates, RecorderPhases
<1> HIDE DEF Cut, Lost
<1>5. /\ files' \in Seq(FileStates) /\ Len(files') = Len(files)
      /\ \A n \in 1 .. Len(files) : files'[n] = Cut(files[n])
  <2>1. \A n \in 1 .. Len(files) : Cut(files[n]) \in FileStates
    BY <1>2, <1>3
  <2> QED
    BY <1>1, <1>2, <2>1
<1>6. \A n \in 1 .. Len(files') : files'[n].synced <= Len(files'[n].lines)
  BY <1>2, <1>3, <1>5
<1>7. entry' \in 0 .. Len(files') /\ (entry' > 1 => files'[entry'].synced > 0)
  <2>1. entry > 1 => entry \in 1 .. Len(files)
    BY <1>2
  <2>2. entry > 1 => files'[entry].synced = files[entry].synced
    BY <1>2, <1>3, <1>5, <2>1
  <2> QED
    BY <1>1, <1>2, <1>5, <2>2
<1>8. rec' \in [Recorders -> RecorderStates]
  BY <1>1, <1>2, <1>4
<1>9. ASSUME NEW r \in Recorders PROVE Sound(r)'
  <2> DEFINE q == rec[r]
             f == files[q.file]
             a == announced[r]
             s == summary[r]
  <2>1. rec'[r] = Lost(q) /\ Lost(q).phase = "lost" /\ Lost(q).file = q.file
    BY <1>1, <1>2, <1>4
  <2>2. CASE q.file = 0
    <3>1. Idle(q, a, s)
      BY <2>2, HasFile
    <3>2. Idle(Lost(q), a, s)
      BY <2>1, <3>1 DEF Idle
    <3> QED
      BY <1>1, <2>1, <2>2, <3>2 DEF Sound
  <2>3. CASE q.file # 0
    <3>1. /\ q.file \in 2 .. Len(files) /\ q.file \in 1 .. Len(files) /\ f \in FileStates
          /\ f.synced <= Len(f.lines) /\ Vouched(r, q, f, a, s) /\ a \in Tellings
      BY <2>3, HasFile
    <3>2. a.lines \in 0 .. f.synced
      <4>1. a.lines <= f.synced
        BY <3>1 DEF Vouched
      <4>2. a.lines \in Nat /\ f.synced \in Nat
        BY <3>1 DEF Tellings, FileStates
      <4> QED
        BY <4>1, <4>2
    <3> HIDE DEF q, f, a, s
    <3>3. Cut(f).owner = f.owner /\ a.lines <= Cut(f).synced /\ SameTo(a.lines, Cut(f).lines, f.lines)
      BY <1>3, <3>1, <3>2 DEF Vouched
    <3>4. Vouched(r, Lost(q), Cut(f), a, s)
      BY <2>1, <3>1, <3>3, Ended
    <3>5. files'[q.file] = Cut(f)
      BY <1>5, <3>1 DEF f
    <3>6. announced'[r] = a /\ summary'[r] = s /\ Len(files') = Len(files)
      BY <1>1, <1>5 DEF a, s
    <3> QED
      BY <2>1, <2>3, <3>1, <3>4, <3>5, <3>6 DEF Sound
  <2> QED
    BY <2>2, <2>3
<1> QED
  BY <1>1, <1>2, <1>5, <1>6, <1>7, <1>8, <1>9 DEF RecordInv

LEMMA RecordSteps == RecordInv /\ [RecNext]_recVars => RecordInv'
<1> SUFFICES ASSUME RecordInv, [RecNext]_recVars PROVE RecordInv'
  OBVIOUS
<1>1. CASE UNCHANGED recVars
  BY <1>1 DEF recVars, RecordInv, Sound
<1>2. CASE PowerLoss
  BY <1>2, PowerLossKeeps
<1>3. ASSUME NEW r \in Recorders, CollectFails(r) \/ Recheck(r)
      PROVE  RecordInv'
  <2> DEFINE none == <<>>
  <2> HIDE DEF none
  <2>1. \/ none \in Batches /\ (CollectFirst(r, none) \/ Tick(r, none))
        \/ CollectFails(r)
        \/ Recheck(r)
    BY <1>3
  <2> QED
    BY <2>1, QuietSteps
<1>4. ASSUME NEW r \in Recorders, NEW batch \in Batches, CollectFirst(r, batch) \/ Tick(r, batch)
      PROVE  RecordInv'
  BY <1>4, QuietSteps
<1>5. ASSUME NEW r \in Recorders, Inspect(r) PROVE RecordInv'
  BY <1>5, InspectKeeps
<1>6. ASSUME NEW r \in Recorders, Publish(r) \/ PublishFails(r) PROVE RecordInv'
  BY <1>6, PublishSteps
<1>7. ASSUME NEW r \in Recorders,
             WriteLine(r) \/ DiskFull(r) \/ SyncFirst(r) \/ SyncBatch(r) \/ Stop(r)
      PROVE  RecordInv'
  BY <1>7, WriteSteps
<1> QED
  BY <1>1, <1>2, <1>3, <1>4, <1>5, <1>6, <1>7 DEF RecNext

LEMMA AnnouncedSound == RecordInv => AnnouncedIsDurable
<1> SUFFICES ASSUME RecordInv PROVE AnnouncedIsDurable
  OBVIOUS
<1>1. ASSUME NEW r \in Recorders, announced[r].lines > 0
      PROVE  files[rec[r].file].synced >= announced[r].lines
  <2>1. rec[r].file # 0
    BY <1>1, HasFile DEF Idle, Untold
  <2>2. /\ Vouched(r, rec[r], files[rec[r].file], announced[r], summary[r])
        /\ files[rec[r].file] \in FileStates /\ announced[r] \in Tellings
    BY <2>1, HasFile
  <2> QED
    BY <2>2 DEF Vouched, FileStates, Tellings
<1>2. entry > 1 => files[entry].synced > 0
  BY DEF RecordInv
<1> QED
  BY <1>1, <1>2 DEF AnnouncedIsDurable

LEMMA SummarySound == RecordInv => SummaryMatchesFile
<1> SUFFICES ASSUME RecordInv, NEW r \in Recorders, NEW h \in Hpas, announced[r].lines > 0
             PROVE  LET read == LoadTrace(SubSeq(files[rec[r].file].lines, 1, announced[r].lines), h)
                        s == summary[r]
                        noted == Len(s.changes[h]) + s.omitted[h]
                    IN /\ Len(read) = s.counts[h]
                       /\ noted <= ChangesIn(read)
                       /\ s.counts[h] = announced[r].batches => noted = ChangesIn(read)
  BY DEF SummaryMatchesFile
<1> DEFINE f == files[rec[r].file]
           a == announced[r]
           s == summary[r]
           told == SubSeq(f.lines, 1, a.lines)
<1>1. rec[r].file # 0
  BY HasFile DEF Idle, Untold
<1>2. Vouched(r, rec[r], f, a, s) /\ f \in FileStates /\ a \in Tellings /\ f.synced <= Len(f.lines)
  BY <1>1, HasFile
<1>3. \A k \in DOMAIN told : told[k] # Torn
  <2>1. f.lines \in Seq(FileLines) /\ f.synced \in Nat /\ a.lines \in Nat /\ Len(f.lines) \in Nat
    BY <1>2 DEF FileStates, Tellings
  <2>2. a.lines <= f.synced /\ \A k \in 1 .. a.lines : f.lines[k] # Torn
    BY <1>2 DEF Vouched
  <2>3. a.lines \in 0 .. Len(f.lines)
    BY <1>2, <2>1, <2>2
  <2>4. told \in Seq(FileLines) /\ Len(told) = a.lines /\ \A k \in 1 .. a.lines : told[k] = f.lines[k]
    BY <2>1, <2>3, PrefixOf
  <2>5. DOMAIN told = 1 .. a.lines
    BY <2>4
  <2> QED
    BY <2>2, <2>4, <2>5
<1>4. LoadTrace(told, h) = TraceOf(told, h)
  BY <1>3 DEF LoadTrace
<1>5. Counted(told, h, a, s)
  BY <1>2 DEF Vouched
<1> HIDE DEF told
<1> QED
  BY <1>4, <1>5 DEF Counted, Noted, told

(***************************************************************************)
(* What a recorder has announced is in its file and survives a power loss, *)
(* and the destination never names a file whose first batch is not whole:  *)
(* for any number of recorders of one destination, batches and ticks.      *)
(***************************************************************************)
THEOREM RecordingIsDurable == RecordSpec => []AnnouncedIsDurable
<1>1. RecInit => RecordInv
  BY RecordStarts
<1>2. RecordInv /\ [RecNext]_recVars => RecordInv'
  BY RecordSteps
<1>3. RecordInv => AnnouncedIsDurable
  BY AnnouncedSound
<1> QED
  BY <1>1, <1>2, <1>3, PTL DEF RecordSpec

(***************************************************************************)
(* The summary printed at the end of a recording counts the lines and the  *)
(* changes a reader of the announced part of the file finds, whatever the  *)
(* limit on the changes it lists.                                          *)
(***************************************************************************)
THEOREM SummaryIsTrue == RecordSpec => []SummaryMatchesFile
<1>1. RecInit => RecordInv
  BY RecordStarts
<1>2. RecordInv /\ [RecNext]_recVars => RecordInv'
  BY RecordSteps
<1>3. RecordInv => SummaryMatchesFile
  BY SummarySound
<1> QED
  BY <1>1, <1>2, <1>3, PTL DEF RecordSpec

-----------------------------------------------------------------------------
\* What a list keeps of the pages.

\* Rows are HPAs; of no HPAs there are none.
LEMMA ListedType ==
  ASSUME NEW T, NEW q, NEW s \in Seq(T)
  PROVE  Listed(q, <<>>) = <<>> /\ Listed(q, s) \in Seq(T)
<1> DEFINE Part(y) == IF IsListed(q, y) THEN <<y>> ELSE <<>>
           w == [k \in DOMAIN s |-> Part(s[k])]
<1>1. Listed(q, <<>>) = <<>>
  <2>1. [k \in DOMAIN <<>> |-> Part(<<>>[k])] = <<>>
    OBVIOUS
  <2>2. FlattenSeq(<<>>) = <<>>
    BY DEF FlattenSeq
  <2> QED
    BY <2>1, <2>2, Zenon DEF Listed
<1>2. w \in Seq(Seq(T))
  <2>1. ASSUME NEW k \in 1 .. Len(s) PROVE Part(s[k]) \in Seq(T)
    <3>1. <<s[k]>> \in Seq(T) /\ <<>> \in Seq(T)
      OBVIOUS
    <3> QED
      BY <3>1
  <2>2. DOMAIN s = 1 .. Len(s) /\ Len(s) \in Nat
    OBVIOUS
  <2> HIDE DEF Part
  <2> QED
    BY <2>1, <2>2
<1>3. Listed(q, s) = FlattenSeq(w)
  BY DEF Listed
<1> HIDE DEF w
<1>4. <<>> \in Seq(T)
  OBVIOUS
<1> QED
  BY <1>1, <1>2, <1>3, <1>4, FlattenAppend

\* An HPA more is a row more, or none.
LEMMA ListedAppend ==
  ASSUME NEW T, NEW q, NEW s \in Seq(T), NEW x \in T
  PROVE  Listed(q, Append(s, x)) = Listed(q, s) \o (IF IsListed(q, x) THEN <<x>> ELSE <<>>)
<1> DEFINE Part(y) == IF IsListed(q, y) THEN <<y>> ELSE <<>>
           w == [k \in DOMAIN s |-> Part(s[k])]
           v == [k \in DOMAIN Append(s, x) |-> Part(Append(s, x)[k])]
<1>1. ASSUME NEW y \in T PROVE Part(y) \in Seq(T)
  <2>1. <<y>> \in Seq(T) /\ <<>> \in Seq(T)
    OBVIOUS
  <2> QED
    BY <2>1
<1>2. Listed(q, s) = FlattenSeq(w) /\ Listed(q, Append(s, x)) = FlattenSeq(v)
  BY DEF Listed
<1> HIDE DEF Part
<1>3. w \in Seq(Seq(T))
  <2>1. \A k \in 1 .. Len(s) : Part(s[k]) \in Seq(T)
    BY <1>1
  <2>2. DOMAIN s = 1 .. Len(s) /\ Len(s) \in Nat
    OBVIOUS
  <2> QED
    BY <2>1, <2>2
<1>4. v = Append(w, Part(x))
  OBVIOUS
<1> HIDE DEF w, v
<1>5. FlattenSeq(v) = FlattenSeq(w) \o Part(x)
  BY <1>1, <1>3, <1>4, FlattenAppend
<1> QED
  BY <1>2, <1>5 DEF Part

\* The beginnings of a sequence, one element at a time.
LEMMA BeginningOf ==
  ASSUME NEW T, NEW t \in Seq(T)
  PROVE  /\ SubSeq(t, 1, 0) = <<>>
         /\ SubSeq(t, 1, Len(t)) = t
         /\ \A k \in 1 .. Len(t) : /\ SubSeq(t, 1, k - 1) \in Seq(T)
                                   /\ SubSeq(t, 1, k) = Append(SubSeq(t, 1, k - 1), t[k])
OBVIOUS

\* Filtering page by page is filtering the whole.
LEMMA ListedJoined ==
  ASSUME NEW T, NEW q, NEW s \in Seq(T), NEW t \in Seq(T)
  PROVE  Listed(q, s \o t) = Listed(q, s) \o Listed(q, t)
<1> DEFINE u(k) == SubSeq(t, 1, k)
           bad == {k \in 0 .. Len(t) : Listed(q, s \o u(k)) # Listed(q, s) \o Listed(q, u(k))}
<1>0. Len(t) \in Nat /\ bad \in SUBSET Nat /\ u(0) = <<>> /\ u(Len(t)) = t
  BY BeginningOf
<1>1. ASSUME bad # {} PROVE FALSE
  <2> HIDE DEF bad
  <2>1. PICK m \in bad : \A k \in bad : m <= k
    BY <1>0, <1>1, LeastPosition
  <2> USE DEF bad
  <2>2. m # 0
    <3>1. Listed(q, <<>>) = <<>> /\ Listed(q, s) \in Seq(T)
      BY ListedType
    <3>2. s \o <<>> = s /\ Listed(q, s) \o <<>> = Listed(q, s)
      BY <3>1
    <3>3. Listed(q, s \o u(0)) = Listed(q, s) \o Listed(q, u(0))
      BY <1>0, <3>1, <3>2
    <3> QED
      BY <2>1, <3>3
  <2> DEFINE x == t[m]
             v == u(m - 1)
             one == IF IsListed(q, x) THEN <<x>> ELSE <<>>
  <2>3. m \in 1 .. Len(t) /\ m - 1 \in 0 .. Len(t) /\ m - 1 \notin bad
    BY <2>1, <2>2
  <2>4. x \in T /\ v \in Seq(T) /\ u(m) = Append(v, x)
    BY <2>3, BeginningOf
  <2>5. Listed(q, s \o v) = Listed(q, s) \o Listed(q, v)
    BY <2>3
  <2>6. Listed(q, s \o u(m)) # Listed(q, s) \o Listed(q, u(m))
    BY <2>1
  <2> HIDE DEF u, v, x, bad
  <2>7. s \o v \in Seq(T) /\ s \o Append(v, x) = Append(s \o v, x)
    BY <2>4
  <2>8. Listed(q, Append(s \o v, x)) = Listed(q, s \o v) \o one
    <3> DEFINE y == s \o v
    <3>1. y \in Seq(T)
      BY <2>7
    <3> HIDE DEF y
    <3>2. Listed(q, Append(y, x)) = Listed(q, y) \o one
      BY <2>4, <3>1, ListedAppend
    <3> QED
      BY <3>2 DEF y
  <2>9. /\ Listed(q, Append(v, x)) = Listed(q, v) \o one
        /\ Listed(q, s) \in Seq(T) /\ Listed(q, v) \in Seq(T)
    BY <2>4, ListedAppend, ListedType
  <2>10. (Listed(q, s) \o Listed(q, v)) \o one = Listed(q, s) \o (Listed(q, v) \o one)
    <3>1. one \in Seq(T)
      <4>1. <<x>> \in Seq(T) /\ <<>> \in Seq(T)
        BY <2>4
      <4> QED
        BY <4>1
    <3> HIDE DEF one
    <3> QED
      BY <2>9, <3>1
  <2> QED
    BY <2>4, <2>5, <2>6, <2>7, <2>8, <2>9, <2>10
<1>2. Listed(q, s \o u(Len(t))) = Listed(q, s) \o Listed(q, u(Len(t)))
  <2>1. Len(t) \in 0 .. Len(t)
    BY <1>0
  <2> HIDE DEF u
  <2> QED
    BY <1>1, <2>1
<1> QED
  BY <1>0, <1>2, Zenon

\* The HPAs of the first k pages.
FirstPages(k) == FlattenSeq(SubSeq(ServerPages, 1, k))

LEMMA PageMore ==
  /\ Len(ServerPages) \in Nat \ {0}
  /\ FirstPages(0) = <<>>
  /\ FirstPages(Len(ServerPages)) = Served
  /\ \A k \in 1 .. Len(ServerPages) :
       /\ ServerPages[k] \in Seq(ListRows) /\ FirstPages(k - 1) \in Seq(ListRows)
       /\ FirstPages(k) = FirstPages(k - 1) \o ServerPages[k]
<1>1. ServerPages \in Seq(Seq(ListRows)) /\ ServerPages # <<>>
  BY ListAssumption
<1>2. /\ SubSeq(ServerPages, 1, 0) = <<>>
      /\ SubSeq(ServerPages, 1, Len(ServerPages)) = ServerPages
      /\ \A k \in 1 .. Len(ServerPages) :
           /\ SubSeq(ServerPages, 1, k - 1) \in Seq(Seq(ListRows))
           /\ SubSeq(ServerPages, 1, k) = Append(SubSeq(ServerPages, 1, k - 1), ServerPages[k])
  BY <1>1, BeginningOf
<1>3. FlattenSeq(<<>>) = <<>>
  BY DEF FlattenSeq
<1>4. ASSUME NEW k \in 1 .. Len(ServerPages)
      PROVE  /\ ServerPages[k] \in Seq(ListRows) /\ FirstPages(k - 1) \in Seq(ListRows)
             /\ FirstPages(k) = FirstPages(k - 1) \o ServerPages[k]
  <2>1. ServerPages[k] \in Seq(ListRows)
    BY <1>1
  <2> QED
    BY <1>2, <2>1, FlattenAppend DEF FirstPages
<1>5. Len(ServerPages) \in Nat \ {0}
  BY <1>1
<1> QED
  BY <1>2, <1>3, <1>4, <1>5 DEF FirstPages, Served

-----------------------------------------------------------------------------
\* Sorting.

\* Of n positions in a strict order every one has a rank, and every rank is taken.
LEMMA RanksOf ==
  ASSUME NEW n \in Nat, NEW B \in [1 .. n -> SUBSET (1 .. n)],
         \A i \in 1 .. n : i \notin B[i],
         \A i, j \in 1 .. n : i \in B[j] => B[i] \subseteq B[j],
         \A i, j \in 1 .. n : i = j \/ i \in B[j] \/ j \in B[i]
  PROVE  /\ \A i \in 1 .. n : Cardinality(B[i]) \in 0 .. n - 1
         /\ \A i, j \in 1 .. n : Cardinality(B[i]) = Cardinality(B[j]) => i = j
         /\ \A k \in 1 .. n : \E i \in 1 .. n : Cardinality(B[i]) = k - 1
<1> DEFINE D == 1 .. n
           r == [i \in D |-> Cardinality(B[i])]
<1>1. IsFiniteSet(D) /\ Cardinality(D) = n /\ IsFiniteSet(0 .. n - 1) /\ Cardinality(0 .. n - 1) = n
  <2>1. n - 1 \in Int /\ 0 \in Int /\ 1 \in Int
    OBVIOUS
  <2>2. IsFiniteSet(1 .. n) /\ Cardinality(1 .. n) = IF 1 > n THEN 0 ELSE n - 1 + 1
    BY <2>1, FS_Interval
  <2>3. IsFiniteSet(0 .. n - 1) /\ Cardinality(0 .. n - 1) = IF 0 > n - 1 THEN 0 ELSE n - 1 - 0 + 1
    BY <2>1, FS_Interval
  <2> QED
    BY <2>2, <2>3
<1>2. ASSUME NEW k \in D
      PROVE  IsFiniteSet(B[k]) /\ Cardinality(B[k]) \in Nat /\ Cardinality(B[k]) <= n - 1
  <2>1. B[k] \in SUBSET (D \ {k})
    OBVIOUS
  <2>2. IsFiniteSet(D \ {k}) /\ Cardinality(D \ {k}) = n - 1
    BY <1>1, FS_RemoveElement
  <2>3. IsFiniteSet(B[k]) /\ Cardinality(B[k]) <= Cardinality(D \ {k})
    BY <2>1, <2>2, FS_Subset
  <2> QED
    BY <2>2, <2>3, FS_CardinalityType
<1>3. ASSUME NEW i \in D, NEW j \in D, i \in B[j]
      PROVE  Cardinality(B[i]) < Cardinality(B[j])
  <2>1. B[i] \cup {i} \in SUBSET B[j] /\ i \notin B[i]
    BY <1>3
  <2>2. Cardinality(B[i] \cup {i}) <= Cardinality(B[j])
    BY <1>2, <2>1, FS_Subset
  <2>3. Cardinality(B[i] \cup {i}) = Cardinality(B[i]) + 1
    BY <1>2, <2>1, FS_AddElement
  <2> QED
    BY <1>2, <2>2, <2>3
<1>4. ASSUME NEW i \in D, NEW j \in D, Cardinality(B[i]) = Cardinality(B[j])
      PROVE  i = j
  <2>1. Cardinality(B[i]) \in Int /\ Cardinality(B[j]) \in Int
    BY <1>2
  <2>2. i \notin B[j] /\ j \notin B[i]
    BY <1>3, <1>4, <2>1
  <2> QED
    BY <2>2
<1>5. ASSUME NEW k \in D PROVE \E i \in D : Cardinality(B[i]) = k - 1
  <2>1. r \in Injection(D, 0 .. n - 1)
    <3>1. r \in [D -> 0 .. n - 1]
      BY <1>2
    <3>2. \A i, j \in D : r[i] = r[j] => i = j
      BY <1>4
    <3> HIDE DEF r
    <3> QED
      BY <3>1, <3>2 DEF Injection, IsInjective
  <2> HIDE DEF r
  <2>2. r \in Surjection(D, 0 .. n - 1)
    BY <1>1, <2>1, FS_Injection
  <2>3. k - 1 \in 0 .. n - 1
    OBVIOUS
  <2>4. \E i \in D : r[i] = k - 1
    BY <2>2, <2>3 DEF Surjection
  <2> QED
    BY <2>4 DEF r
<1> QED
  BY <1>2, <1>4, <1>5

\* Two rows compare in one way only, and rows that do not compare are alike to every other.
LEMMA BeforeIsOrder ==
  ASSUME NEW key, NEW a \in ListRows, NEW b \in ListRows, NEW c \in ListRows
  PROVE  /\ ~(Before(key, a, b) /\ Before(key, b, a))
         /\ Before(key, a, b) => Before(key, a, c) \/ Before(key, c, b)
<1>1. ASSUME NEW x \in ListRows
      PROVE  x.name \in Nat /\ x.score \in Nat /\ x.diff \in Nat /\ x.order \in Nat
  BY DEF ListRows
<1>2. CASE key = "name"
  BY <1>1, <1>2 DEF Before
<1>3. CASE key = "problem"
  BY <1>1, <1>3 DEF Before, ProblemBefore
<1>4. CASE key = "healthscore"
  BY <1>1, <1>4 DEF Before
<1>5. CASE key = "diff"
  BY <1>1, <1>5 DEF Before
<1>6. CASE key \notin {"name", "problem", "healthscore", "diff"}
  BY <1>1, <1>6 DEF Before
<1> QED
  BY <1>2, <1>3, <1>4, <1>5, <1>6

\* The positions a stable sort puts before position k.
Ahead(key, s, k) ==
  {j \in DOMAIN s : \/ Before(key, s[j], s[k])
                    \/ j < k /\ ~Before(key, s[k], s[j])}

RowRank(q, s, k) == Cardinality(Ahead(SortKey(q), s, k))
RowAt(q, s, n)   == CHOOSE k \in DOMAIN s : RowRank(q, s, k) = n - 1

LEMMA SortedPlaces ==
  ASSUME NEW q, NEW s
  PROVE  Sorted(q, s) = [n \in DOMAIN s |-> s[RowAt(q, s, n)]]
BY DEF Sorted, RowAt, RowRank, Ahead

\* Sorting loses no row and adds none.
LEMMA SortedRows ==
  ASSUME NEW q, NEW s \in Seq(ListRows)
  PROVE  Len(Sorted(q, s)) = Len(s) /\ ToSet(Sorted(q, s)) = ToSet(s)
<1> DEFINE key == SortKey(q)
           D == 1 .. Len(s)
           B == [k \in D |-> Ahead(key, s, k)]
           at(n) == RowAt(q, s, n)
<1>1. Len(s) \in Nat /\ DOMAIN s = D /\ \A k \in D : s[k] \in ListRows
  OBVIOUS
<1> HIDE DEF key
<1>2. /\ B \in [D -> SUBSET D]
      /\ \A j, k \in D : j \in B[k] <=> \/ Before(key, s[j], s[k])
                                        \/ j < k /\ ~Before(key, s[k], s[j])
  BY <1>1 DEF Ahead
<1>3. /\ Sorted(q, s) = [n \in D |-> s[at(n)]]
      /\ \A k \in D : Cardinality(B[k]) = RowRank(q, s, k)
  BY <1>1, SortedPlaces DEF RowRank, key
<1> HIDE DEF B
<1>4. \A j \in D : j \notin B[j]
  BY <1>1, <1>2, BeforeIsOrder
<1>5. \A j, k \in D : j = k \/ j \in B[k] \/ k \in B[j]
  <2> SUFFICES ASSUME NEW j \in D, NEW k \in D, j # k PROVE j \in B[k] \/ k \in B[j]
    OBVIOUS
  <2>1. j < k \/ k < j
    OBVIOUS
  <2> QED
    BY <1>2, <2>1
<1>6. ASSUME NEW i \in D, NEW j \in D, NEW k \in D, i \in B[j], j \in B[k]
      PROVE  i \in B[k]
  <2> DEFINE before(m, n) == Before(key, s[m], s[n])
  <2>1. before(i, j) \/ (i < j /\ ~before(j, i))
    BY <1>2, <1>6
  <2>2. before(j, k) \/ (j < k /\ ~before(k, j))
    BY <1>2, <1>6
  <2>3. /\ ~(before(i, j) /\ before(j, i)) /\ ~(before(j, k) /\ before(k, j))
        /\ ~(before(i, k) /\ before(k, i))
        /\ before(i, j) => before(i, k) \/ before(k, j)
        /\ before(j, k) => before(j, i) \/ before(i, k)
        /\ before(k, i) => before(k, j) \/ before(j, i)
    BY <1>1, BeforeIsOrder
  <2>4. i < j /\ j < k => i < k
    OBVIOUS
  <2>5. before(i, k) \/ (i < k /\ ~before(k, i)) => i \in B[k]
    BY <1>2
  <2> HIDE DEF before
  <2> QED
    BY <2>1, <2>2, <2>3, <2>4, <2>5
<1>7. /\ \A j \in D : Cardinality(B[j]) \in 0 .. Len(s) - 1
      /\ \A j, k \in D : Cardinality(B[j]) = Cardinality(B[k]) => j = k
      /\ \A n \in D : \E k \in D : Cardinality(B[k]) = n - 1
  <2>1. \A j, k \in D : j \in B[k] => B[j] \subseteq B[k]
    BY <1>2, <1>6
  <2> QED
    BY <1>1, <1>2, <1>4, <1>5, <2>1, RanksOf
<1>8. ASSUME NEW n \in D PROVE at(n) \in D /\ Cardinality(B[at(n)]) = n - 1
  <2>1. \E k \in D : RowRank(q, s, k) = n - 1
    BY <1>3, <1>7
  <2>2. at(n) \in D /\ RowRank(q, s, at(n)) = n - 1
    BY <1>1, <2>1 DEF RowAt
  <2> HIDE DEF at
  <2> QED
    BY <1>3, <2>2
<1> HIDE DEF at
<1>9. ASSUME NEW k \in D PROVE \E n \in D : at(n) = k
  <2>1. PICK c \in 0 .. Len(s) - 1 : Cardinality(B[k]) = c
    BY <1>7
  <2>2. c + 1 \in D /\ (c + 1) - 1 = c
    BY <1>1
  <2>3. PICK n \in D : n - 1 = c
    BY <2>2
  <2>4. at(n) \in D /\ Cardinality(B[at(n)]) = Cardinality(B[k])
    BY <1>8, <2>1, <2>3
  <2>5. at(n) = k
    BY <1>7, <2>4
  <2> QED
    BY <2>5
<1>10. Len(Sorted(q, s)) = Len(s)
  <2>1. Sorted(q, s) \in Seq(ListRows)
    <3>1. \A n \in D : s[at(n)] \in ListRows
      BY <1>1, <1>8
    <3> QED
      BY <1>1, <1>3, <3>1
  <2> QED
    BY <1>1, <1>3
<1>11. ToSet(Sorted(q, s)) = {s[at(n)] : n \in D}
  BY <1>3 DEF ToSet
<1>12. ToSet(s) = {s[k] : k \in D}
  BY <1>1 DEF ToSet
<1> QED
  BY <1>8, <1>9, <1>10, <1>11, <1>12

-----------------------------------------------------------------------------
\* A walk over the pages.

(***************************************************************************)
(* While a walk goes on the pages before the current one are kept, or      *)
(* their rows printed, each once; after the last one all of them are.      *)
(***************************************************************************)
Walked(k) ==
  IF CanStream(query)
  THEN kept = <<>> /\ rows = Listed(query, FirstPages(k))
  ELSE kept = FirstPages(k) /\ rows = <<>>

ListInv ==
  /\ walk.phase \in {"calling", "pausing"} =>
       /\ walk \in [phase : {"calling", "pausing"}, page : 1 .. Len(ServerPages), tries : Nat,
                    followed : {2 .. walk.page}]
       /\ Walked(walk.page - 1)
  /\ walk.phase = "read" => Walked(Len(ServerPages))
  /\ walk.phase \in {"calling", "pausing", "read"} => trended = <<>> /\ listExit = NoExit
  /\ walk.phase = "over" => listExit # NoExit /\ ListIsWhole
  /\ walk.phase \in {"calling", "pausing", "read", "over"}
  /\ DOMAIN walk = {"phase", "page", "tries", "followed"}

ListSpec == ListInit /\ [][ListNext]_listVars

LEMMA ListStarts == ListInit => ListInv
<1> SUFFICES ASSUME ListInit PROVE ListInv
  OBVIOUS
<1>1. walk = [phase |-> "calling", page |-> 1, tries |-> 1, followed |-> {}]
  BY DEF ListInit
<1>2. /\ walk.phase = "calling" /\ walk.page = 1 /\ DOMAIN walk = {"phase", "page", "tries", "followed"}
      /\ walk \in [phase : {"calling", "pausing"}, page : 1 .. Len(ServerPages), tries : Nat, followed : {2 .. 1}]
  <2>1. 2 .. 1 = {} /\ 1 \in 1 .. Len(ServerPages)
    BY PageMore
  <2> QED
    BY <1>1, <2>1
<1>3. Walked(0)
  <2>1. <<>> \in Seq(ListRows)
    OBVIOUS
  <2>2. Listed(query, <<>>) = <<>>
    BY <2>1, ListedType
  <2>3. FirstPages(0) = <<>>
    BY PageMore
  <2> QED
    BY <2>2, <2>3 DEF ListInit, Walked
<1> QED
  BY <1>2, <1>3 DEF ListInit, ListInv

\* A page more.
LEMMA PageWalks ==
  ASSUME ListInv, NEW next \in 1 .. Len(ServerPages) + 1, PageArrives(next)
  PROVE  ListInv'
<1> DEFINE n == Len(ServerPages)
<1>0. PICK p : p = walk.page
  OBVIOUS
<1>1. /\ walk.phase = "calling" /\ p \in 1 .. n /\ walk.followed = 2 .. p
      /\ Walked(p - 1) /\ trended = <<>> /\ listExit = NoExit
      /\ DOMAIN walk = {"phase", "page", "tries", "followed"} /\ n \in Nat
  BY <1>0, PageMore DEF PageArrives, ListInv
<1>2. /\ ServerPages[p] \in Seq(ListRows) /\ FirstPages(p - 1) \in Seq(ListRows)
      /\ FirstPages(p) = FirstPages(p - 1) \o ServerPages[p]
  BY <1>1, PageMore
<1>3. query' = query /\ trended' = <<>>
  BY <1>1 DEF PageArrives
<1>4. next = p + 1 \/ next \in 2 .. p
  BY <1>0, <1>1 DEF PageArrives
<1>5. /\ CanStream(query) => rows' = Listed(query, FirstPages(p))
      /\ ~CanStream(query) => rows' = <<>>
  <2>1. Listed(query, FirstPages(p)) = Listed(query, FirstPages(p - 1)) \o Listed(query, ServerPages[p])
    BY <1>2, ListedJoined
  <2> QED
    BY <1>0, <1>1, <2>1 DEF PageArrives, Walked
<1>6. ASSUME kept' = IF CanStream(query) THEN kept ELSE kept \o ServerPages[p]
      PROVE  Walked(p)'
  <2>1. CASE CanStream(query)
    <3>1. kept' = <<>> /\ rows' = Listed(query', FirstPages(p))
      BY <1>1, <1>3, <1>5, <1>6, <2>1 DEF Walked
    <3> QED
      BY <1>3, <2>1, <3>1 DEF Walked
  <2>2. CASE ~CanStream(query)
    <3>1. kept' = FirstPages(p) /\ rows' = <<>>
      BY <1>1, <1>2, <1>5, <1>6, <2>2 DEF Walked
    <3> QED
      BY <1>3, <2>2, <3>1 DEF Walked
  <2> QED
    BY <2>1, <2>2
<1>7. CASE next > n
  <2>1. next = p + 1 /\ p = n
    BY <1>1, <1>4, <1>7
  <2>2. /\ walk' = [walk EXCEPT !.phase = "read"] /\ listExit' = NoExit
        /\ kept' = IF CanStream(query) THEN kept ELSE kept \o ServerPages[p]
    BY <1>0, <1>1, <1>7 DEF PageArrives
  <2>3. walk'.phase = "read" /\ DOMAIN walk' = {"phase", "page", "tries", "followed"}
    BY <1>1, <2>2
  <2> QED
    BY <1>3, <1>6, <2>1, <2>2, <2>3 DEF ListInv
<1>8. CASE next <= n /\ next \in 2 .. p
  <2>1. walk' = [walk EXCEPT !.phase = "over"] /\ kept' = <<>> /\ listExit' = 1
    BY <1>0, <1>1, <1>8 DEF PageArrives, RepeatedToken, ListError
  <2>2. walk'.phase = "over" /\ DOMAIN walk' = {"phase", "page", "tries", "followed"}
    BY <1>1, <2>1
  <2>3. ListIsWhole'
    BY <1>3, <1>5, <2>1 DEF ListIsWhole
  <2> QED
    BY <2>1, <2>2, <2>3 DEF ListInv, NoExit
<1>9. CASE next <= n /\ next \notin 2 .. p
  <2>1. next = p + 1 /\ next \in 1 .. n
    BY <1>4, <1>9
  <2>2. /\ walk' = [phase |-> "calling", page |-> next, tries |-> 1, followed |-> (2 .. p) \cup {next}]
        /\ listExit' = NoExit
        /\ kept' = IF CanStream(query) THEN kept ELSE kept \o ServerPages[p]
    BY <1>0, <1>1, <1>9 DEF PageArrives, RepeatedToken
  <2>3. (2 .. p) \cup {next} = 2 .. next
    BY <1>1, <2>1
  <2>4. /\ walk'.phase = "calling" /\ walk'.page - 1 = p
        /\ walk' \in [phase : {"calling", "pausing"}, page : 1 .. n, tries : Nat, followed : {2 .. walk'.page}]
        /\ DOMAIN walk' = {"phase", "page", "tries", "followed"}
    BY <1>1, <2>1, <2>2, <2>3
  <2> QED
    BY <1>3, <1>6, <2>2, <2>4 DEF ListInv
<1> QED
  BY <1>1, <1>7, <1>8, <1>9

\* A call fails, or goes out again.
LEMMA CallWaits ==
  ASSUME ListInv, (\E answer \in Answers : PageFails(answer)) \/ PauseEnds
  PROVE  ListInv'
<1>1. /\ walk.phase \in {"calling", "pausing"} /\ Walked(walk.page - 1)
      /\ walk \in [phase : {"calling", "pausing"}, page : 1 .. Len(ServerPages), tries : Nat,
                   followed : {2 .. walk.page}]
      /\ trended = <<>> /\ listExit = NoExit
  BY DEF PageFails, PauseEnds, ListInv
<1>2. query' = query /\ rows' = rows /\ trended' = trended
  BY DEF PageFails, PauseEnds
<1>3. CASE /\ \/ walk' = [walk EXCEPT !.phase = "pausing"]
              \/ walk' = [walk EXCEPT !.phase = "calling", !.tries = walk.tries + 1]
           /\ kept' = kept /\ listExit' = listExit
  <2>1. /\ walk'.phase \in {"calling", "pausing"} /\ walk'.page = walk.page
        /\ walk' \in [phase : {"calling", "pausing"}, page : 1 .. Len(ServerPages), tries : Nat,
                      followed : {2 .. walk.page}]
        /\ DOMAIN walk' = {"phase", "page", "tries", "followed"}
    <3>1. ASSUME NEW ph \in {"calling", "pausing"}, NEW t \in Nat,
                 walk' = [walk EXCEPT !.phase = ph, !.tries = t]
          PROVE  /\ walk'.phase = ph /\ walk'.page = walk.page /\ walk'.tries = t
                 /\ walk'.followed = walk.followed
                 /\ walk' = [phase |-> ph, page |-> walk.page, tries |-> t, followed |-> walk.followed]
      BY <1>1, <3>1
    <3>2. walk.tries \in Nat /\ walk.tries + 1 \in Nat /\ walk.page \in 1 .. Len(ServerPages)
          /\ walk.followed = 2 .. walk.page
      BY <1>1
    <3>3. walk' = [walk EXCEPT !.phase = "pausing"] => walk' = [walk EXCEPT !.phase = "pausing", !.tries = walk.tries]
      BY <1>1
    <3>4. PICK ph \in {"calling", "pausing"}, t \in Nat : walk' = [walk EXCEPT !.phase = ph, !.tries = t]
      BY <1>3, <3>2, <3>3
    <3> QED
      BY <3>1, <3>2, <3>4
  <2>2. Walked(walk.page - 1)'
    BY <1>1, <1>2, <1>3, <2>1 DEF Walked, FirstPages, CanStream
  <2> QED
    BY <1>1, <1>2, <1>3, <2>1, <2>2 DEF ListInv
<1>4. CASE walk' = [walk EXCEPT !.phase = "over"] /\ kept' = <<>> /\ listExit' = 1
  <2>1. walk'.phase = "over" /\ DOMAIN walk' = {"phase", "page", "tries", "followed"}
    BY <1>1, <1>4
  <2>2. ~CanStream(query) => rows = <<>>
    BY <1>1 DEF Walked
  <2>3. ListIsWhole'
    BY <1>1, <1>2, <1>4, <2>2 DEF ListIsWhole
  <2> QED
    BY <1>4, <2>1, <2>3 DEF ListInv, NoExit
<1> QED
  BY <1>3, <1>4 DEF PageFails, PauseEnds, ListError

\* The walk is over and the result is printed.
LEMMA ListFinishes ==
  ASSUME ListInv, FinishList
  PROVE  ListInv'
<1>1. /\ walk.phase = "read" /\ Walked(Len(ServerPages)) /\ trended = <<>> /\ listExit = NoExit
      /\ DOMAIN walk = {"phase", "page", "tries", "followed"}
  BY DEF FinishList, ListInv
<1>2. /\ walk' = [walk EXCEPT !.phase = "over"] /\ query' = query /\ kept' = kept
      /\ trended' = IF query.trend THEN kept ELSE <<>>
  BY DEF FinishList
<1>3. walk'.phase = "over" /\ DOMAIN walk' = {"phase", "page", "tries", "followed"}
  BY <1>1, <1>2
<1>4. FirstPages(Len(ServerPages)) = Served /\ Served \in Seq(ListRows)
  <2> DEFINE n == Len(ServerPages)
  <2>1. n \in 1 .. n
    BY PageMore
  <2>2. /\ ServerPages[n] \in Seq(ListRows) /\ FirstPages(n - 1) \in Seq(ListRows)
        /\ FirstPages(n) = FirstPages(n - 1) \o ServerPages[n] /\ FirstPages(n) = Served
    BY <2>1, PageMore
  <2> HIDE DEF n
  <2>3. FirstPages(n - 1) \o ServerPages[n] \in Seq(ListRows)
    BY <2>2
  <2> QED
    BY <2>2, <2>3 DEF n
<1>5. CASE CanStream(query)
  <2>1. listExit' = 0 /\ rows' = Listed(query, Served) /\ ~query.trend
    BY <1>1, <1>4, <1>5 DEF FinishList, Walked, CanStream
  <2>2. ListIsWhole'
    BY <1>2, <1>3, <1>5, <2>1 DEF ListIsWhole, CanStream, Served, Listed
  <2> QED
    BY <1>3, <2>1, <2>2 DEF ListInv, NoExit
<1>6. CASE ~CanStream(query)
  <2>1. kept = Served /\ rows = <<>>
    BY <1>1, <1>4, <1>6 DEF Walked
  <2>2. CASE query.apply /\ ~ApplyIsBounded(query)
    <3>1. listExit' = 1 /\ rows' = <<>>
      BY <1>6, <2>1, <2>2 DEF FinishList
    <3>2. ListIsWhole'
      BY <1>2, <1>3, <3>1 DEF ListIsWhole
    <3> QED
      BY <1>3, <3>1, <3>2 DEF ListInv, NoExit
  <2>3. CASE ~(query.apply /\ ~ApplyIsBounded(query))
    <3>1. listExit' = 0 /\ rows' = Sorted(query, Listed(query, Served))
      BY <1>6, <2>1, <2>3 DEF FinishList
    <3>2. Len(rows') = Len(Listed(query, Served)) /\ ToSet(rows') = ToSet(Listed(query, Served))
      BY <1>4, <3>1, ListedType, SortedRows
    <3>3. ListIsWhole'
      BY <1>2, <1>3, <2>1, <3>1, <3>2 DEF ListIsWhole, CanStream, Served, Listed
    <3> QED
      BY <1>3, <3>1, <3>3 DEF ListInv, NoExit
  <2> QED
    BY <2>2, <2>3
<1> QED
  BY <1>5, <1>6

LEMMA ListSteps == ListInv /\ [ListNext]_listVars => ListInv'
<1> SUFFICES ASSUME ListInv, [ListNext]_listVars PROVE ListInv'
  OBVIOUS
<1>1. CASE UNCHANGED listVars
  BY <1>1 DEF listVars, ListInv, ListIsWhole, Walked, CanStream, FirstPages, Served, Listed
<1>2. ASSUME NEW next \in 1 .. Len(ServerPages) + 1, PageArrives(next) PROVE ListInv'
  BY <1>2, PageWalks
<1>3. CASE (\E answer \in Answers : PageFails(answer)) \/ PauseEnds
  BY <1>3, CallWaits
<1>4. CASE FinishList
  BY <1>4, ListFinishes
<1> QED
  BY <1>1, <1>2, <1>3, <1>4 DEF ListNext

(***************************************************************************)
(* Whatever the pages, the options, the failures and the tokens a server   *)
(* hands out again: a list that succeeds shows what its options select,    *)
(* each HPA as often as the server listed it, streamed or sorted by any    *)
(* key; one that fails and does not stream shows and records nothing       *)
(* (src/cmd/list.go, src/internal/kube/pagination.go).                     *)
(***************************************************************************)
THEOREM ListsAreWhole == ListSpec => []ListIsWhole
<1>1. ListInit => ListInv
  BY ListStarts
<1>2. ListInv /\ [ListNext]_listVars => ListInv'
  BY ListSteps
<1>3. ListInv => ListIsWhole
  BY DEF ListInv, ListIsWhole, NoExit, Walked
<1> QED
  BY <1>1, <1>2, <1>3, PTL DEF ListSpec

=============================================================================
